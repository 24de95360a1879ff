------------------------------ MODULE MCExecLock ------------------------------
(***************************************************************************)
(* ExecLock for TLC.  Executors are interchangeable: they differ only in   *)
(* what they have done.                                                    *)
(***************************************************************************)
EXTENDS ExecLock, TLC

Executors == Permutations(Exec)
-----------------------------------------------------------------------------
(* What the documents say and the code does not keep: the flag is set after  *)
(* the holder has looked at it.                                              *)

\* A rerun registered at any time while the lock was held has been run in the end.
RerunServed == Quiet => \A e \in Exec : owed[e] = "none"
===============================================================================
