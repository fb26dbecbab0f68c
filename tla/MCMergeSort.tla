---------------------------- MODULE MCMergeSort -----------------------------
(***************************************************************************)
(* Every chain of up to five of six packets: two that tie, neighbours, one *)
(* with the same sequence number and another acknowledgement, and three    *)
(* that wrap around so that the comparison is not transitive.              *)
(***************************************************************************)
EXTENDS MergeSort

Pkt(n, seq, ack) == [key |-> "AB", n |-> n, syn |-> FALSE, ackflag |-> TRUE,
                     seq |-> seq, ack |-> ack, len |-> 0]

MCPackets == { Pkt(1, 0, 1), Pkt(2, 0, 1), Pkt(3, 0, 3),
               Pkt(4, 2, 0), Pkt(5, 3, 1), Pkt(6, 6, 1) }
=============================================================================
