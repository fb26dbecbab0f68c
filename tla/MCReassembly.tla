---------------------------- MODULE MCReassembly ----------------------------
(***************************************************************************)
(* Connections of a handshake and up to MaxTail more packets, captured in  *)
(* every order and joined the way combine_tcp_nodes joins them.  Requests  *)
(* are numbered from ClientIsn + 1, replies from 41.               *)
(***************************************************************************)
EXTENDS Reassembly

CONSTANTS ClientIsn, \* the requester's initial sequence number
          MaxTail    \* how many packets follow the handshake

Pkt(n, key, seq, ack, len) ==
    [key |-> key, n |-> n, syn |-> FALSE, ackflag |-> TRUE,
     seq |-> seq, ack |-> ack, len |-> len]
SynBit(p, withack) == [p EXCEPT !.syn = TRUE, !.ackflag = withack]

At(k) == (ClientIsn + k) % SeqSpace
Opening == << SynBit(Pkt(1, "request", ClientIsn, 0, 0), FALSE),
              SynBit(Pkt(2, "reply", 40, At(1), 0), TRUE),
              Pkt(3, "request", At(1), 41, 0) >>

\* Two segments of a first request, both in one retransmission, the second
\* with a part of the first again, a second request; a reply in two segments
\* that overlap, a bare acknowledgement, a second reply, a reset without an
\* acknowledgement, and the second request once more.
MCTail == { Pkt(4, "request", At(1), 41, 4),  Pkt(5, "request", At(5), 41, 4),
            Pkt(6, "request", At(1), 41, 8),  Pkt(7, "request", At(3), 41, 6),
            Pkt(8, "request", At(9), 49, 3),
            Pkt(9, "reply", 41, At(9), 4),    Pkt(10, "reply", 43, At(9), 6),
            Pkt(11, "reply", 41, At(5), 0),   Pkt(12, "reply", 49, At(12), 2),
            [Pkt(13, "reply", 41, 0, 0) EXCEPT !.ackflag = FALSE],
            Pkt(14, "request", At(9), 49, 3) }

Captured(tail, bound) ==
    {t \in UNION {[1..m -> tail] : m \in 0..bound} : IsInjective(t)}

FlowOf(s, key) == SelectSeq(s, LAMBDA p : p.key = key)

\* Insertion prepends, so a flow's chain is its capture, reversed and sorted.
Kept(s) == SortPackets(Reverse(s))
Restore(p) == IF p.key = "reply" THEN Exchange(p) ELSE p
ChainOf(s) == LET j == Joined(Kept(FlowOf(s, "request")), Kept(FlowOf(s, "reply")))
              IN  [x \in DOMAIN j |-> Restore(j[x])]

MCKeys == {"request", "reply"}
MCChains == {ChainOf(Opening \o t) : t \in Captured(MCTail, MaxTail)}
=============================================================================
