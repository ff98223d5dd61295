---------------------------- MODULE MCSocketPool ----------------------------
(***************************************************************************)
(* Instances of SocketPool for TLC.  Connections, descriptor numbers and   *)
(* workers are interchangeable in the runs that check no liveness.         *)
(***************************************************************************)
EXTENDS SocketPool, TLC

Symmetry == Permutations(Conn) \cup Permutations(Fd)

\* Interest in output is interest in input with the roles of the peer's two
\* steps exchanged, so one of them is enough where Set is not called.
BothInterests == {"IN", "OUT"}
OneInterest   == {"IN"}
=============================================================================
