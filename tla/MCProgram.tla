----------------------------- MODULE MCProgram ------------------------------
(***************************************************************************)
(* MCFlowTable's connection with a segment that repeats a part of the      *)
(* request and goes beyond it, a connection close to the wrap of its       *)
(* numbers, and one whose endpoints open a second one.                     *)
(***************************************************************************)
EXTENDS Program, MCFlowTable

Resend == Pkt(10, AB, 5, 10, 3)

\* A connection about to wrap: the responder's reset acknowledges number 0.
Wrapping == << [Pkt(11, AB, 14, 0, 0) EXCEPT !.syn = TRUE, !.ackflag = FALSE],
               [Pkt(12, Reversed(AB), 9, 15, 0) EXCEPT !.syn = TRUE],
               Pkt(13, AB, 15, 10, 0),
               [Pkt(14, Reversed(AB), 10, 0, 0) EXCEPT !.ackflag = FALSE] >>

\* The same two endpoints and ports once more, with other numbers.
Reopened == << Syn, SynAck, Pkt(3, AB, 4, 10, 0), Request,
               [Pkt(15, AB, 7, 0, 0) EXCEPT !.syn = TRUE, !.ackflag = FALSE],
               [Pkt(16, Reversed(AB), 2, 8, 0) EXCEPT !.syn = TRUE],
               Pkt(17, AB, 8, 3, 1) >>

Rest == {SynAck, Pkt(3, AB, 4, 10, 0), Request, Resend, Reply}

\* A packet of the responder that comes before its SYN+ACK.
Stale == Pkt(18, Reversed(AB), 9, 3, 0)

\* The packets behind the SYN in every order; one of them missing; or the
\* SYN last, and a packet of an endpoint with itself behind.
MCTraffic == {Wrapping, Reopened, <<Syn, SynAck, Stale, Pkt(3, AB, 4, 10, 0), Request>>}
    \cup {<<Syn>> \o t \o <<Other, Stray>> : t \in Orders(Rest)}
    \cup {<<Syn>> \o t : t \in UNION {Orders(Rest \ {p}) : p \in Rest}}
    \cup {t \o <<Syn, Self>> : t \in Orders(Rest \ {Resend})}
=============================================================================
