----------------------------- MODULE TcpPackets -----------------------------
(***************************************************************************)
(* What main.c does with the headers of captured TCP packets: comparing    *)
(* two of them, sorting a chain and exchanging the numbers of a header.    *)
(* seq and ack are the numbers that stand in the header in memory.         *)
(***************************************************************************)
EXTENDS Integers, SequencesExt, FiniteSetsExt

CONSTANTS SeqSpace,  \* 2^32 in the code: how many sequence numbers there are
          Keys       \* flow keys, "srcip.srcport-dstip.dstport"

ASSUME SeqSpaceAssumption == SeqSpace \in Nat \ {0} /\ SeqSpace % 2 = 0

SeqNumbers == 0..(SeqSpace - 1)
HalfSpace  == SeqSpace \div 2

\* A captured TCP segment: n tells it from all others, len is the length of
\* its data.
Packet == [key : Keys, n : Nat, syn : BOOLEAN, ackflag : BOOLEAN,
           seq : SeqNumbers, ack : SeqNumbers, len : Nat]

\* The difference of two unsigned 32-bit numbers stored in an int.
SeqDiff(a, b) == CASE a - b >= HalfSpace  -> a - b - SeqSpace
                   [] a - b < 0 - HalfSpace -> a - b + SeqSpace
                   [] OTHER -> a - b

\* cmp_pcap_packet: by sequence number, then by acknowledgement number.
Compare(p, q) == IF SeqDiff(p.seq, q.seq) # 0 THEN SeqDiff(p.seq, q.seq)
                                              ELSE SeqDiff(p.ack, q.ack)

\* combine_tcp_nodes writes each of the two numbers into the other's place.
Exchange(p) == [p EXCEPT !.seq = p.ack, !.ack = p.seq]

-----------------------------------------------------------------------------
\* One merge of sort_pcap_packets: on a tie the element of `a' comes first.
merge[ab \in Seq(Packet) \X Seq(Packet)] ==
    LET a == ab[1]
        b == ab[2]
    IN  IF a # <<>> /\ (b # <<>> => Compare(Head(a), Head(b)) <= 0)
        THEN <<Head(a)>> \o merge[<<Tail(a), b>>]
        ELSE IF b # <<>> THEN <<Head(b)>> \o merge[<<a, Tail(b)>>] ELSE <<>>

\* One pass: neighbouring runs of w packets are merged.
pass[tw \in Seq(Packet) \X (Nat \ {0})] ==
    LET t == tw[1]
        w == tw[2]
    IN  IF t = <<>> THEN <<>>
        ELSE merge[<<SubSeq(t, 1, Min({w, Len(t)})),
                     SubSeq(t, w + 1, Min({2 * w, Len(t)}))>>]
                 \o pass[<<SubSeq(t, 2 * w + 1, Len(t)), w>>]

\* Passes with runs of w, 2w, 4w, ... until one run is the whole list.
passes[tw \in Seq(Packet) \X (Nat \ {0})] ==
    LET t == tw[1]
        w == tw[2]
    IN  IF w >= Len(t) THEN t ELSE passes[<<pass[<<t, w>>], 2 * w>>]

\* Mutants of SortPackets: one pass only; two.
SortOnce(s)  == pass[<<s, 1>>]
SortTwice(s) == pass[<<pass[<<s, 1>>], 2>>]

SortPackets(s) == passes[<<s, 1>>]

\* combine_tcp_nodes up to the recovery: the nodes of `added', exchanged, are
\* put before `base' one by one and the whole chain is sorted.
Joined(base, added) ==
    SortPackets(Reverse([j \in DOMAIN added |-> Exchange(added[j])]) \o base)

\* last_of_three_handshake: the chain starts with a complete handshake.
Handshake(c) ==
    /\ Len(c) >= 3
    /\ c[1].syn
    /\ c[2].syn /\ c[2].ackflag
    /\ c[3].ackflag
    /\ c[2].ack = (c[1].seq + 1) % SeqSpace
    /\ c[2].ack = c[3].seq
    /\ c[3].ack = (c[2].seq + 1) % SeqSpace

-----------------------------------------------------------------------------
\* The numbers of a set fit in half the number space, so that SeqDiff orders
\* them the way TCP does.
InHalf(numbers) ==
    \E base \in numbers : \A x \in numbers : SeqDiff(x, base) >= 0

\* All packets of a chain can be told in order.
InWindow(s) == s = <<>> \/ /\ InHalf({s[j].seq : j \in DOMAIN s})
                           /\ InHalf({s[j].ack : j \in DOMAIN s})

InOrder(s) == \A j, k \in DOMAIN s : j < k => Compare(s[j], s[k]) <= 0
=============================================================================
