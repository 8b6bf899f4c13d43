----------------------------- MODULE MCProcess -----------------------------
(***************************************************************************)
(* Instances of Process and of the entries of Files for TLC.  They share   *)
(* no state: each behaviour is one of the part chosen in the initial       *)
(* state, as in MCKernel.                                                  *)
(***************************************************************************)
EXTENDS Process, Files

VARIABLE part

mcVars == <<part, vars, fsVars>>

MCInit == part \in {"processes", "files"} /\ Init /\ FsInit

MCNext ==
  /\ UNCHANGED part
  /\ \/ part = "processes" /\ Next /\ UNCHANGED fsVars
     \/ part = "files" /\ FsNext /\ UNCHANGED vars

MCSpec == MCInit /\ [][MCNext]_mcVars

\* A handler for signal 2, or no SYS_SIGNAL at all.
Interrupt == {<<2, "custom">>}
=============================================================================
