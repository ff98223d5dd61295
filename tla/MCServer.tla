------------------------------ MODULE MCServer ------------------------------
(***************************************************************************)
(* Instances of Server for TLC, without symmetry since they check liveness. *)
(***************************************************************************)
EXTENDS Server, TLC

CONSTANTS s1, s2, w1, w2

\* Two threads in the first server's loop, and none in the second's, whose
\* program constructs it, takes connections into its backlog and destroys it.
Homes == (w1 :> s1) @@ (w2 :> s1)
=============================================================================
