---------------------------- MODULE MCFlowTable -----------------------------
(***************************************************************************)
(* A connection between A and B, a packet from A to C, and one that A      *)
(* sends to itself.                                                        *)
(***************************************************************************)
EXTENDS FlowTable

AB == [src |-> "A", dst |-> "B"]
AC == [src |-> "A", dst |-> "C"]
AA == [src |-> "A", dst |-> "A"]
MCKeys == {AB, Reversed(AB), AC, Reversed(AC), AA}

Pkt(n, key, seq, ack, len) ==
    [key |-> key, n |-> n, syn |-> FALSE, ackflag |-> TRUE,
     seq |-> seq, ack |-> ack, len |-> len]

Syn    == [Pkt(1, AB, 3, 0, 0) EXCEPT !.syn = TRUE, !.ackflag = FALSE]
SynAck == [Pkt(2, Reversed(AB), 9, 4, 0) EXCEPT !.syn = TRUE]
Opening == {Syn, SynAck, Pkt(3, AB, 4, 10, 0)}
Request == Pkt(4, AB, 4, 10, 2)
Reply   == Pkt(5, Reversed(AB), 10, 6, 2)
Stray   == [Pkt(6, AC, 3, 0, 0) EXCEPT !.syn = TRUE, !.ackflag = FALSE]
Banner  == Pkt(7, Reversed(AB), 10, 4, 2)
Self    == Pkt(8, AA, 3, 0, 0)

Orders(S) == {t \in [1..Cardinality(S) -> S] : IsInjective(t)}

\* The connection in nearly every order, then a packet that is not TCP and
\* one of a second connection.
MCCaptures == {c \o <<Other, Stray>> :
                  c \in UNION {{<<Syn>> \o t, t \o <<Syn>>} :
                                 t \in Orders((Opening \ {Syn}) \cup {Request, Reply})}}
\* A handshake in any order, and then data of the responder, who speaks first.
MCOpenings == {Append(t, Banner) : t \in Orders(Opening)}

\* The connection's slots anywhere; A to C in the first one left, and the
\* key nobody captured in a slot of the connection.
MCSlotMaps == {f \in [MCKeys -> 0..3] :
                 /\ f[AC] = Min(0..3 \ {f[AB], f[Reversed(AB)]})
                 /\ f[Reversed(AC)] = f[AB] /\ f[AA] = 0}
=============================================================================
