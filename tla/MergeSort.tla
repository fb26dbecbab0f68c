----------------------------- MODULE MergeSort ------------------------------
(***************************************************************************)
(* sort_pcap_packets of main.c, the bottom-up merge sort that relinks a    *)
(* chain in place.  The cells of the chain are always spread over three    *)
(* lists: what a pass has merged so far, the run at p, and everything      *)
(* from q on.                                                              *)
(***************************************************************************)
EXTENDS TcpPackets

CONSTANTS Packets,    \* the packets a chain is made of, told apart by n
          MaxLength   \* the longest chain that is tried

ASSUME ChainsAssumption == Packets \subseteq Packet /\ MaxLength \in Nat

VARIABLES input,    \* the chain sort_pcap_packets was called with
          list,     \* the merged part of the running pass
          p,        \* the psize cells of the run at p
          q,        \* all cells from q on
          qsize,    \* how many of them the running merge may still take
          insize, nmerges,
          pc

vars == <<input, list, p, q, qsize, insize, nmerges, pc>>

Chains == UNION {{s \in [1..m -> Packets] : IsInjective(s)} : m \in 1..MaxLength}

Init == /\ input \in Chains
        /\ list = <<>> /\ p = <<>>
        /\ q = input
        /\ qsize = 0 /\ insize = 1 /\ nmerges = 0
        /\ pc = "pass"

\* Mutant of Behind: one cell is skipped.
BehindNext == SubSeq(q, insize + 2, Len(q))

\* What follows the run of insize cells at q.
Behind == SubSeq(q, insize + 1, Len(q))

\* Step insize cells along from p; q is what follows.
SplitOff ==
    /\ pc = "pass" /\ q # <<>>
    /\ nmerges' = nmerges + 1
    /\ p' = SubSeq(q, 1, Min({insize, Len(q)}))
    /\ q' = Behind
    /\ qsize' = insize
    /\ pc' = "merge"
    /\ UNCHANGED <<input, list, insize>>

QEmpty == qsize = 0 \/ q = <<>>

TakeP ==
    /\ pc = "merge" /\ p # <<>>
    /\ ~QEmpty => Compare(Head(p), Head(q)) <= 0
    /\ list' = Append(list, Head(p))
    /\ p' = Tail(p)
    /\ UNCHANGED <<input, q, qsize, insize, nmerges, pc>>

TakeQ ==
    /\ pc = "merge" /\ ~QEmpty
    /\ p # <<>> => Compare(Head(p), Head(q)) > 0
    /\ list' = Append(list, Head(q))
    /\ q' = Tail(q)
    /\ qsize' = qsize - 1
    /\ UNCHANGED <<input, p, insize, nmerges, pc>>

\* Both runs are used up: p continues where q stands.
EndMerge ==
    /\ pc = "merge" /\ p = <<>> /\ QEmpty
    /\ pc' = "pass"
    /\ UNCHANGED <<input, list, p, q, qsize, insize, nmerges>>

\* Mutants of LastPass and Doubled: two merges pass for one; runs never grow.
LastTwo   == nmerges <= 2
Undoubled == insize

LastPass == nmerges <= 1
Doubled  == 2 * insize

\* The end of the list: another pass with runs twice as long, or the result.
EndPass ==
    /\ pc = "pass" /\ q = <<>>
    /\ IF LastPass
       THEN /\ pc' = "sorted"
            /\ UNCHANGED <<list, q, insize, nmerges>>
       ELSE /\ q' = list /\ list' = <<>>
            /\ insize' = Doubled
            /\ nmerges' = 0
            /\ UNCHANGED pc
    /\ UNCHANGED <<input, p, qsize>>

Next == SplitOff \/ TakeP \/ TakeQ \/ EndMerge \/ EndPass
Spec == Init /\ [][Next]_vars /\ WF_vars(Next)

-----------------------------------------------------------------------------
\* Relinking neither drops nor duplicates a cell, whatever cmp_pcap_packet
\* answers: at every moment the three lists hold each packet of the chain
\* once.
NoPacketLost == /\ Len(list) + Len(p) + Len(q) = Len(input)
                /\ ToSet(list \o p \o q) = ToSet(input)

Place(s, e) == SelectInSeq(s, LAMBDA x : x = e)

\* The result is in order, and packets that compare equal keep the order
\* they had: the order in which ties of two directions end up decides what
\* write_tcp_data_to_file takes for the handshake.
SortedStably ==
    pc = "sorted" /\ InWindow(input) =>
        /\ InOrder(list)
        /\ \A j, k \in DOMAIN input :
              j < k /\ Compare(input[j], input[k]) = 0 =>
                  Place(list, input[j]) < Place(list, input[k])

\* The loops compute the function SortPackets, which the other modules use,
\* also where cmp_pcap_packet is no order.
ComputesSortPackets == pc = "sorted" => list = SortPackets(input)

\* The sort ends even when the comparison is not transitive.
Terminates == <>(pc = "sorted")
=============================================================================
