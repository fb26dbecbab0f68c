----------------------------- MODULE Reassembly -----------------------------
(***************************************************************************)
(* write_tcp_data_to_file of main.c on one chain: the packets of both      *)
(* directions of a connection, in the requester's order.  The walk starts  *)
(* at the third packet of the handshake; at every packet it decides, from  *)
(* the last accepted header of the packet's direction, how many bytes of   *)
(* the packet are already in the file, and writes the others.              *)
(* The file is modelled as the sequence of its pieces: bytes `from' and up *)
(* of the data of chain[node], or a REQUEST_GAP.                           *)
(***************************************************************************)
EXTENDS TcpPackets

CONSTANT Chains    \* the chains tidy_tcp_packet_in_hashtbl can leave

\* A chain holds the packets of a connection's two directions.
ASSUME ChainsAssumption ==
    \A c \in Chains :
        /\ c \in Seq(Packet)
        /\ \A j, k, l \in DOMAIN c : \/ c[j].key = c[k].key
                                     \/ c[k].key = c[l].key
                                     \/ c[j].key = c[l].key

VARIABLES chain,
          node,           \* position of the packet at hand
          offset,         \* bytes of it that are not written again
          hdr1, hdr2,     \* ip_hdr1, ip_hdr2: positions of accepted headers
          pip,            \* pip_hdr: the header the last packet was judged by
          last,           \* ltcp_pkt: position of the last packet written
          file,           \* what has been written so far
          pc

null  == 0                \* NULL, where a position is expected
cursors == <<offset, hdr1, hdr2, pip>>
vars  == <<chain, node, cursors, last, file, pc>>

Gap == [node |-> null, from |-> 0]

Init == /\ chain \in Chains
        /\ node = 3 /\ offset = 0
        /\ hdr1 = 3 /\ hdr2 = null /\ pip = null /\ last = null
        /\ file = <<>>
        /\ pc = IF Handshake(chain) THEN "write" ELSE "done"

-----------------------------------------------------------------------------
\* writelen, as the size_t the code computes: bytes left of the packet.
WriteLen == chain[node].len - offset

WriteData ==
    /\ pc = "write" /\ WriteLen # 0
    /\ file' = Append(file, [node |-> node, from |-> offset])
    /\ last' = node
    /\ pc' = "judge"
    /\ UNCHANGED <<chain, node, cursors>>

NothingToWrite ==
    /\ pc = "write" /\ WriteLen = 0
    /\ pc' = "judge"
    /\ UNCHANGED <<chain, node, cursors, last, file>>

\* safe_fopen or fwrite fails, and with it the process: logging calls
\* mywarning, which exits.
WriteFails ==
    /\ pc = "write" /\ WriteLen # 0
    /\ pc' = "exit"
    /\ UNCHANGED <<chain, node, cursors, last, file>>

\* There is no next packet.
Close ==
    /\ pc = "judge" /\ node = Len(chain)
    /\ pc' = "done"
    /\ UNCHANGED <<chain, node, cursors, last, file>>

-----------------------------------------------------------------------------
next     == node + 1
Same(a, b) == b # null /\ chain[a].key = chain[b].key  \* is_same_ip_port

\* Mutant of Judge: the previous header is not fallen back to.
JudgeStrictly == IF Same(next, hdr1) THEN hdr1 ELSE hdr2

\* pip_hdr after the choice of a direction for the next packet.
Judge == IF Same(next, hdr1) THEN hdr1
         ELSE IF Same(next, hdr2) THEN hdr2 ELSE pip

\* ip_hdr2 after it: the first packet of the other direction is recorded.
Recorded == IF ~Same(next, hdr1) /\ hdr2 = null THEN next ELSE hdr2

\* pack, which stays 0 as long as pip_hdr is NULL.
JudgeAck(h) == IF h = null THEN 0 ELSE chain[h].ack

\* The next packet continues the segment pip_hdr belongs to.
Continues == chain[next].ack = JudgeAck(Judge)

\* Mutants of Overlap: not limited to the packet's own data; everything is
\* skipped as soon as the packets overlap; nothing ever is.
OverlapUnlimited == LET reach == chain[Judge].seq + chain[Judge].len - chain[next].seq
                    IN  IF reach > 0 THEN reach ELSE 0
OverlapWhole     == IF chain[Judge].seq + chain[Judge].len > chain[next].seq
                    THEN chain[next].len ELSE 0
OverlapNever     == 0

\* offset of a continuing packet: how far the data of the packet pip_hdr
\* stands at reaches into it.  The sums are taken in 64 bits.
Overlap == LET reach == chain[Judge].seq + chain[Judge].len - chain[next].seq
           IN  IF reach >= chain[next].len THEN chain[next].len
               ELSE IF reach > 0 THEN reach ELSE 0

\* Mutant of Delimiter: it marks a change of direction.
DelimiterByKey == IF last # null /\ chain[next].len > 0 /\ chain[last].key # chain[next].key
                  THEN <<Gap>> ELSE <<>>

\* A delimiter goes before data that answers another packet than the last
\* data written.
Delimiter == IF last # null /\ chain[next].len > 0 /\ chain[last].ack # chain[next].ack
             THEN <<Gap>> ELSE <<>>

Advance == /\ pc = "judge" /\ node < Len(chain)
           /\ pip' = Judge
           /\ node' = next
           /\ file' = file \o Delimiter
           /\ pc' = "write"
           /\ UNCHANGED <<chain, last>>

JudgeContinuing ==
    /\ Advance
    /\ Continues /\ Judge # null
    /\ offset' = Overlap
    /\ hdr1' = IF Judge = hdr1 THEN next ELSE hdr1
    /\ hdr2' = IF Judge = hdr1 THEN Recorded ELSE next

\* Mutant of JudgeOther: the previous packet's offset is kept.
JudgeOtherStale ==
    /\ Advance
    /\ ~Continues
    /\ offset' = Min({offset, chain[next].len})
    /\ hdr1' = hdr1 /\ hdr2' = Recorded

JudgeOther ==
    /\ Advance
    /\ ~Continues
    /\ offset' = 0
    /\ hdr1' = hdr1 /\ hdr2' = Recorded

\* The first packet after the handshake is the other side's and its
\* acknowledgement number is 0, the initial value of pack: the sequence
\* number is read through a null ptcp_pkt.
JudgeThroughNull ==
    /\ pc = "judge" /\ node < Len(chain)
    /\ Continues /\ Judge = null
    /\ pc' = "crash"
    /\ UNCHANGED <<chain, node, cursors, last, file>>

Next == \/ WriteData \/ NothingToWrite \/ WriteFails \/ Close
        \/ JudgeContinuing \/ JudgeOther \/ JudgeThroughNull
Spec == Init /\ [][Next]_vars /\ WF_vars(Next)

-----------------------------------------------------------------------------
DataEnd(j) == chain[j].seq + chain[j].len

Pieces == {m \in DOMAIN file : file[m].node # null}
Sender(m) == chain[file[m].node]
First(m)  == Sender(m).seq + file[m].from   \* number of the piece's first byte
Past(m)   == DataEnd(file[m].node)          \* number of the byte after it

\* The packets whose data has been dealt with.
Seen == {j \in 3..node : j < node \/ pc \in {"judge", "done", "crash"}}

\* Positions point into the chain.  writelen (main.c:389) never wraps below zero: the
\* bytes skipped are bytes the packet has.
TypeOK == /\ chain \in Seq(Packet)
          /\ pc \in {"write", "judge", "done", "exit", "crash"}
          /\ file \in Seq([node : 0..Len(chain), from : Nat])
          /\ last \in 0..Len(chain)
          /\ Handshake(chain) => /\ node \in 3..Len(chain)
                                /\ offset \in 0..chain[node].len
                                /\ hdr1 \in 3..node
                                /\ {hdr2, pip} \subseteq {null} \cup 3..node
          /\ ~Handshake(chain) => pc = "done" /\ file = <<>>

\* No sequence number wraps: what belongs to one answer stands in the order
\* of its numbers.
NumbersAscend ==
    \A j, k \in 3..Len(chain) :
        j < k /\ chain[j].key = chain[k].key /\ chain[j].ack = chain[k].ack =>
            chain[j].seq <= chain[k].seq

\* The two directions acknowledge different numbers, so that the first
\* packet of one is never taken for a continuation of the other.
AcksApart == \A j, k \in 3..Len(chain) :
                chain[j].key # chain[k].key => chain[j].ack # chain[k].ack

Written(key, b) == \E m \in Pieces : /\ Sender(m).key = key
                                     /\ First(m) <= b /\ b < Past(m)

\* What the two offsets are for: every byte of every packet behind the
\* handshake is in the file, however the segments overlap and in whatever
\* order they were captured - unless numbers wrap or directions mix.
NoByteLost ==
    Handshake(chain) /\ NumbersAscend /\ AcksApart =>
        \A j \in Seen : \A b \in chain[j].seq..(DataEnd(j) - 1) : Written(chain[j].key, b)

\* The bytes that are not going to be written are in the file already.
SkippedWritten ==
    pc = "write" /\ NumbersAscend /\ AcksApart =>
        \A b \in chain[node].seq..(chain[node].seq + offset - 1) :
            Written(chain[node].key, b)

\* One direction acknowledges one number only, and a segment that ends
\* before an earlier one is not followed by one that overlaps the earlier.
OneExchange ==
    \A j, k \in 3..Len(chain) : j < k /\ chain[j].key = chain[k].key =>
        /\ chain[j].ack = chain[k].ack
        /\ DataEnd(k) < DataEnd(j) =>
               \A l \in (k + 1)..Len(chain) :
                   chain[l].key = chain[j].key => chain[l].seq >= DataEnd(j)

\* Within one exchange a byte captured twice is written once, and each
\* direction's bytes are written in their order.
OneExchangeInOrder ==
    OneExchange /\ AcksApart =>
        \A m, l \in Pieces : m < l /\ Sender(m).key = Sender(l).key =>
            Past(m) <= First(l)

\* Data that answers another packet than the data before it is delimited
\* from it (main.c:454), and nothing is delimited before there is data.
Delimited ==
    /\ \A m \in Pieces : m + 1 \in Pieces => Sender(m).ack = Sender(m + 1).ack
    /\ file # <<>> => 1 \in Pieces

\* A null ptcp_pkt is followed only for the packet right after the handshake,
\* and only if that is the responder's and acknowledges number 0.
NullOnlyAfterHandshake ==
    pc = "crash" => node = 3 /\ chain[4].key # chain[3].key /\ chain[4].ack = 0

\* README.md:15 says the contents are stored: each byte is in the file.
EveryByteWritten ==
    Handshake(chain) =>
        \A j \in Seen : \A b \in 0..(chain[j].len - 1) :
            \E m \in Pieces : \E x \in file[m].from..(Sender(m).len - 1) :
                /\ Sender(m).key = chain[j].key
                /\ (Sender(m).seq + x) % SeqSpace = (chain[j].seq + b) % SeqSpace
=============================================================================
