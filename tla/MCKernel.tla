------------------------------ MODULE MCKernel ------------------------------
(***************************************************************************)
(* Instances of the modules inside the kernel for TLC.  They share no      *)
(* state, so one run explores them side by side: each behaviour is one of  *)
(* the part chosen in the initial state.                                   *)
(***************************************************************************)
EXTENDS Kheap, Exec, AddressSpace, KeyQueue, Files

VARIABLE part

mcVars == <<part, khVars, exVars, asVars, kqVars, fsVars>>

MCInit ==
  /\ part \in {"heap", "exec", "space", "keys", "files"}
  /\ KhInit /\ ExInit /\ AsInit /\ KqInit /\ FsInit

MCNext ==
  /\ UNCHANGED part
  /\ \/ part = "heap" /\ KhNext /\ UNCHANGED <<exVars, asVars, kqVars, fsVars>>
     \/ part = "exec" /\ ExNext /\ UNCHANGED <<khVars, asVars, kqVars, fsVars>>
     \/ part = "space" /\ AsNext /\ UNCHANGED <<khVars, exVars, kqVars, fsVars>>
     \/ part = "keys" /\ KqNext /\ UNCHANGED <<khVars, exVars, asVars, fsVars>>
     \/ part = "files" /\ FsNext /\ UNCHANGED <<khVars, exVars, asVars, kqVars>>

MCSpec == MCInit /\ [][MCNext]_mcVars /\ KqFairness

MCUserPages == <<4, 5>>
=============================================================================
