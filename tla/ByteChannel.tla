---------------------------- MODULE ByteChannel ----------------------------
(***************************************************************************)
(* What a file descriptor stream promises: two queues of bytes.  The       *)
(* program's bytes reach the descriptor once each, in order; the peer's    *)
(* bytes reach the program once each, in order.                            *)
(* Byte n of the peer is n; byte n of the program is -n.                   *)
(***************************************************************************)
EXTENDS Integers, Sequences

VARIABLES
    written,    \* how many bytes the program has put into the stream
    delivered,  \* the bytes the descriptor was given
    arrived,    \* how many bytes the peer has sent
    consumed    \* the bytes the program got out of the stream

channel == <<written, delivered, arrived, consumed>>

Init ==
    written = 0 /\ delivered = <<>> /\ arrived = 0 /\ consumed = <<>>

\* The descriptor is given the next bytes, up to byte n.
DeliverUpTo(n) ==
    delivered' = [i \in 1..n |-> -i]

Put ==
    /\ written' = written + 1
    /\ \/ UNCHANGED delivered
       \/ \E n \in Len(delivered)..written' : DeliverUpTo(n)
    /\ UNCHANGED <<arrived, consumed>>

Flush ==
    /\ \E n \in Len(delivered)..written : DeliverUpTo(n)
    /\ UNCHANGED <<written, arrived, consumed>>

Arrive ==
    /\ arrived' = arrived + 1
    /\ UNCHANGED <<written, delivered, consumed>>

Get ==
    /\ Len(consumed) < arrived
    /\ consumed' = Append(consumed, Len(consumed) + 1)
    /\ UNCHANGED <<written, delivered, arrived>>

\* Another descriptor: what the program put goes to the old one, or stays for
\* the new one; bytes of the old peer that are still on their way are lost.
Replace ==
    /\ \E n \in Len(delivered)..written : DeliverUpTo(n)
    /\ \E n \in Len(consumed)..arrived : arrived' = n
    /\ UNCHANGED <<written, consumed>>

Next == Put \/ Flush \/ Arrive \/ Get \/ Replace

Spec == Init /\ [][Next]_channel

=============================================================================
