--------------------------- MODULE MCFdOwnership ---------------------------
(***************************************************************************)
(* Instances of FdOwnership for TLC.  Objects, handles, cells and files    *)
(* are interchangeable; numbers are not, since 0 is never closed.          *)
(***************************************************************************)
EXTENDS FdOwnership, TLC

Symmetry == Permutations(Unique) \cup Permutations(Shared)
                \cup Permutations(Cell) \cup Permutations(File)

\* Bound: 0, which the kernel gives first, and two others.
Numbers == 0..2
=============================================================================
