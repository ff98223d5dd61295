---------------------------- MODULE MCSubprocess ----------------------------
(***************************************************************************)
(* Instances of Subprocess for TLC.  Objects, numbers and children are     *)
(* interchangeable.                                                        *)
(***************************************************************************)
EXTENDS Subprocess, TLC

Symmetry == Permutations(Object) \cup Permutations(Pid) \cup Permutations(Child)

\* No communication, plain flags beside one for a terminal, and a terminal.
SomeModes == {Direct, In \cup OutPt, InPt \cup Out}
=============================================================================
