----------------------------- MODULE MCFdStream -----------------------------
(***************************************************************************)
(* Instances of FdStream for TLC: a buffer of Size characters and streams  *)
(* long enough to fill it.                                                 *)
(***************************************************************************)
EXTENDS FdStream

\* Bound: a failed read yields a stale character each time it is tried, and a
\* failed write adds a phantom one to what the next flush writes.
Bounded == Len(consumed) <= MaxIn + 1 /\ Len(delivered) <= MaxOut
=============================================================================
