------------------------------- MODULE MCDisk -------------------------------
(***************************************************************************)
(* Instances of the block store and of the USB disk for TLC, side by side  *)
(* as in MCKernel: each behaviour is one of the part chosen in the initial *)
(* state.                                                                  *)
(***************************************************************************)
EXTENDS Storage, Xhci, TLC

VARIABLE part

mcVars == <<part, vars, xhVars>>

MCInit == part \in {"blocks", "usb"} /\ Init /\ XhInit

MCNext ==
  /\ UNCHANGED part
  /\ \/ part = "blocks" /\ Next /\ UNCHANGED xhVars
     \/ part = "usb" /\ XhNext /\ UNCHANGED vars

MCSpec == MCInit /\ [][MCNext]_mcVars

FileSymmetry == Permutations(Files)
=============================================================================
