-------------------------- MODULE Reassembly_proofs -------------------------
(***************************************************************************)
(* Proofs about Reassembly for every chain, of any length and with any     *)
(* segments.                                                               *)
(***************************************************************************)
EXTENDS Reassembly, TLAPS

-----------------------------------------------------------------------------
(* Type correctness.                                                       *)

\* The numbers of a packet are natural numbers.
LEMMA PacketNumbers ==
    ASSUME chain \in Seq(Packet), NEW j \in 1..Len(chain)
    PROVE  /\ chain[j] \in Packet
           /\ chain[j].seq \in Nat /\ chain[j].ack \in Nat /\ chain[j].len \in Nat
<1>1. chain[j] \in Packet
  OBVIOUS
<1>2. SeqNumbers \subseteq Nat
  BY SeqSpaceAssumption DEF SeqNumbers
<1> QED
  BY <1>1, <1>2 DEF Packet

LEMMA HandshakeLength ==
    ASSUME chain \in Seq(Packet), Handshake(chain) PROVE Len(chain) \in Nat /\ Len(chain) >= 3
BY DEF Handshake

LEMMA InitType == Init => TypeOK
<1> SUFFICES ASSUME Init PROVE TypeOK
  OBVIOUS
<1>1. chain \in Seq(Packet)
  BY ChainsAssumption DEF Init
<1>2. file \in Seq([node : 0..Len(chain), from : Nat]) /\ file = <<>>
  BY DEF Init
<1>3. Len(chain) \in Nat
  BY <1>1
<1>4. ASSUME Handshake(chain)
      PROVE  /\ node \in 3..Len(chain) /\ offset \in 0..chain[node].len
             /\ hdr1 \in 3..node /\ {hdr2, pip} \subseteq {null} \cup 3..node
  <2>1. Len(chain) >= 3
    BY <1>1, <1>4, HandshakeLength
  <2>2. chain[3].len \in Nat
    BY <1>1, <1>3, <2>1, PacketNumbers
  <2> QED
    BY <1>3, <2>1, <2>2 DEF Init
<1> QED
  BY <1>1, <1>2, <1>3, <1>4 DEF Init, TypeOK, null

\* The state of a walk that still has a packet at hand.
LEMMA Walking ==
    ASSUME TypeOK, pc # "done"
    PROVE  /\ Handshake(chain) /\ chain \in Seq(Packet) /\ Len(chain) \in Nat
           /\ node \in 3..Len(chain) /\ node \in 1..Len(chain)
           /\ chain[node].len \in Nat /\ chain[node].seq \in Nat /\ chain[node].ack \in Nat
           /\ offset \in 0..chain[node].len
           /\ hdr1 \in 3..node /\ hdr2 \in {null} \cup 3..node /\ pip \in {null} \cup 3..node
<1>1. Handshake(chain) /\ chain \in Seq(Packet)
  BY DEF TypeOK
<1>2. Len(chain) \in Nat /\ node \in 3..Len(chain) /\ node \in 1..Len(chain)
  BY <1>1 DEF TypeOK
<1> QED
  BY <1>1, <1>2, PacketNumbers DEF TypeOK

\* What the choice of a header to judge by can come to.
LEMMA JudgeRange ==
    ASSUME TypeOK, pc = "judge", node < Len(chain)
    PROVE  /\ next \in 4..Len(chain) /\ next \in 1..Len(chain)
           /\ Judge \in {null} \cup 3..node
           /\ Recorded \in {null} \cup 3..next
<1>1. /\ Len(chain) \in Nat /\ node \in 3..Len(chain)
      /\ hdr1 \in 3..node /\ hdr2 \in {null} \cup 3..node /\ pip \in {null} \cup 3..node
  BY Walking
<1>2. next \in 4..Len(chain) /\ next \in 1..Len(chain)
  BY <1>1 DEF next
<1>3. Judge \in {null} \cup 3..node
  BY <1>1 DEF Judge
<1>4. Recorded \in {null} \cup 3..next
  BY <1>1, <1>2 DEF Recorded, next
<1> QED
  BY <1>2, <1>3, <1>4

\* offset never exceeds the data of the packet it is meant for.
LEMMA OverlapRange ==
    ASSUME TypeOK, pc = "judge", node < Len(chain), Judge # null
    PROVE  Overlap \in 0..chain[next].len
<1>1. next \in 1..Len(chain) /\ Judge \in 1..Len(chain)
  BY JudgeRange, Walking DEF null
<1>2. chain \in Seq(Packet)
  BY DEF TypeOK
<1>3. /\ chain[next].seq \in Nat /\ chain[next].len \in Nat
      /\ chain[Judge].seq \in Nat /\ chain[Judge].len \in Nat
  BY <1>1, <1>2, PacketNumbers
<1> HIDE DEF next, Judge
<1> QED
  BY <1>3 DEF Overlap

\* The pieces of a file stay what they are when a piece is appended.
LEMMA AppendType ==
    ASSUME chain \in Seq(Packet), file \in Seq([node : 0..Len(chain), from : Nat]),
           NEW e \in [node : 0..Len(chain), from : Nat]
    PROVE  /\ Append(file, e) \in Seq([node : 0..Len(chain), from : Nat])
           /\ file \o <<e>> = Append(file, e)
           /\ file \o <<>> = file
OBVIOUS

LEMMA AdvanceType ==
    ASSUME TypeOK, Advance
    PROVE  /\ next \in 4..Len(chain) /\ node' \in 3..Len(chain) /\ node' = next
           /\ Handshake(chain) /\ chain \in Seq(Packet)
           /\ file' \in Seq([node : 0..Len(chain), from : Nat])
           /\ pip' \in {null} \cup 3..node'
           /\ hdr1 \in 3..node' /\ hdr2 \in {null} \cup 3..node'
           /\ Recorded \in {null} \cup 3..node'
<1>1. pc = "judge" /\ node < Len(chain)
  BY DEF Advance
<1>2. /\ Handshake(chain) /\ chain \in Seq(Packet) /\ Len(chain) \in Nat
      /\ node \in 3..Len(chain)
      /\ hdr1 \in 3..node /\ hdr2 \in {null} \cup 3..node
  BY <1>1, Walking
<1>3. /\ next \in 4..Len(chain) /\ Judge \in {null} \cup 3..node
      /\ Recorded \in {null} \cup 3..next
  BY <1>1, JudgeRange
<1>4. node' = next /\ pip' = Judge /\ node' \in 3..Len(chain) /\ node' = node + 1
  BY <1>2, <1>3 DEF Advance, next
<1>5. file' \in Seq([node : 0..Len(chain), from : Nat])
  <2>1. file \in Seq([node : 0..Len(chain), from : Nat])
    BY DEF TypeOK
  <2>2. Gap \in [node : 0..Len(chain), from : Nat]
    BY <1>2 DEF Gap, null
  <2>3. file' = file \o <<Gap>> \/ file' = file \o <<>>
    BY DEF Advance, Delimiter
  <2> QED
    BY <1>2, <2>1, <2>2, <2>3, AppendType
<1> QED
  BY <1>2, <1>3, <1>4, <1>5

LEMMA NextType == TypeOK /\ [Next]_vars => TypeOK'
<1> SUFFICES ASSUME TypeOK, [Next]_vars PROVE TypeOK'
  OBVIOUS
<1>1. CASE WriteData
  <2>1. pc # "done" /\ chain' = chain /\ node' = node
    BY <1>1 DEF WriteData
  <2>2. /\ Handshake(chain) /\ chain \in Seq(Packet) /\ Len(chain) \in Nat
        /\ node \in 3..Len(chain) /\ offset \in 0..chain[node].len
        /\ hdr1 \in 3..node /\ {hdr2, pip} \subseteq {null} \cup 3..node
        /\ chain[node].len \in Nat
    BY <2>1, Walking
  <2>3. file' \in Seq([node : 0..Len(chain), from : Nat]) /\ last' \in 0..Len(chain)
    <3>1. file \in Seq([node : 0..Len(chain), from : Nat])
      BY DEF TypeOK
    <3>2. [node |-> node, from |-> offset] \in [node : 0..Len(chain), from : Nat]
      BY <2>2
    <3> QED
      BY <1>1, <2>2, <3>1, <3>2, AppendType DEF WriteData
  <2> QED
    BY <1>1, <2>1, <2>2, <2>3 DEF WriteData, TypeOK, cursors
<1>2. CASE NothingToWrite
  BY <1>2 DEF NothingToWrite, TypeOK, cursors
<1>3. CASE WriteFails
  BY <1>3 DEF WriteFails, TypeOK, cursors
<1>4. CASE Close
  BY <1>4 DEF Close, TypeOK, cursors
<1>5. CASE JudgeContinuing
  <2>1. Advance /\ Judge # null /\ offset' = Overlap
    BY <1>5 DEF JudgeContinuing
  <2>2. chain' = chain /\ last' = last /\ pc' = "write"
    BY <2>1 DEF Advance
  <2>3. /\ next \in 4..Len(chain) /\ node' \in 3..Len(chain) /\ node' = next
        /\ Handshake(chain) /\ chain \in Seq(Packet)
        /\ file' \in Seq([node : 0..Len(chain), from : Nat])
        /\ pip' \in {null} \cup 3..node'
        /\ hdr1 \in 3..node' /\ Recorded \in {null} \cup 3..node'
    BY <2>1, AdvanceType
  <2>4. offset' \in 0..chain[next].len
    BY <2>1, OverlapRange DEF Advance
  <2>5. hdr1' \in 3..node' /\ hdr2' \in {null} \cup 3..node'
    <3>1. hdr1' \in {hdr1, next} /\ hdr2' \in {Recorded, next}
      BY <1>5 DEF JudgeContinuing
    <3>2. next \in 3..next
      BY <2>3
    <3> QED
      BY <2>3, <3>1, <3>2
  <2> QED
    BY <2>2, <2>3, <2>4, <2>5 DEF TypeOK
<1>6. CASE JudgeOther
  <2>1. Advance /\ offset' = 0 /\ hdr1' = hdr1 /\ hdr2' = Recorded
    BY <1>6 DEF JudgeOther
  <2>2. chain' = chain /\ last' = last /\ pc' = "write"
    BY <2>1 DEF Advance
  <2>3. /\ next \in 4..Len(chain) /\ node' \in 3..Len(chain) /\ node' = next
        /\ Handshake(chain) /\ chain \in Seq(Packet)
        /\ file' \in Seq([node : 0..Len(chain), from : Nat])
        /\ pip' \in {null} \cup 3..node'
        /\ hdr1 \in 3..node' /\ Recorded \in {null} \cup 3..node'
    BY <2>1, AdvanceType
  <2>4. offset' \in 0..chain[next].len
    <3>1. chain[next].len \in Nat
      BY <2>3, PacketNumbers
    <3> QED
      BY <2>1, <3>1
  <2> QED
    BY <2>1, <2>2, <2>3, <2>4 DEF TypeOK
<1>7. CASE JudgeThroughNull
  BY <1>7 DEF JudgeThroughNull, TypeOK, cursors
<1>8. CASE UNCHANGED vars
  BY <1>8 DEF vars, cursors, TypeOK
<1> QED
  BY <1>1, <1>2, <1>3, <1>4, <1>5, <1>6, <1>7, <1>8 DEF Next

\* Every state has positions inside the chain and bytes inside the packet:
\* writelen of main.c:389 never wraps below zero.
THEOREM TypeCorrect == Spec => []TypeOK
BY InitType, NextType, PTL DEF Spec

-----------------------------------------------------------------------------
(* No byte is lost.  NoByteLost alone is not inductive: what makes it hold  *)
(* after a write is that the bytes the write leaves out are in the file     *)
(* already (SkippedWritten), and that holds because they are bytes of the   *)
(* packet the overlap was measured against.                                 *)
FileInv == TypeOK /\ NoByteLost /\ SkippedWritten

\* The file only ever grows.
Grown == \A m \in DOMAIN file : m \in DOMAIN file' /\ file'[m] = file[m]

LEMMA FileGrows == ASSUME TypeOK, [Next]_vars PROVE chain' = chain /\ Grown
<1>1. file \in Seq([node : 0..Len(chain), from : Nat])
  BY DEF TypeOK
<1>2. ASSUME file' = file PROVE Grown
  BY <1>2 DEF Grown
<1>3. ASSUME NEW e, file' = Append(file, e) PROVE Grown
  BY <1>1, <1>3 DEF Grown
<1>4. ASSUME Advance PROVE Grown /\ chain' = chain
  <2>1. /\ chain' = chain /\ chain \in Seq(Packet)
        /\ file' = file \o <<Gap>> \/ file' = file \o <<>>
    BY <1>4 DEF Advance, Delimiter, TypeOK
  <2>2. Gap \in [node : 0..Len(chain), from : Nat]
    BY <2>1 DEF Gap, null
  <2>3. file' = Append(file, Gap) \/ file' = file
    BY <1>1, <2>1, <2>2, AppendType
  <2> QED
    BY <1>2, <1>3, <2>1, <2>3
<1>5. CASE WriteData
  BY <1>3, <1>5 DEF WriteData
<1>6. CASE Advance
  BY <1>4, <1>6
<1>7. CASE NothingToWrite \/ WriteFails \/ Close \/ JudgeThroughNull \/ UNCHANGED vars
  BY <1>2, <1>7 DEF NothingToWrite, WriteFails, Close, JudgeThroughNull, vars
<1> QED
  BY <1>5, <1>6, <1>7 DEF Next, JudgeContinuing, JudgeOther

\* What is in the file stays in the file.
LEMMA WrittenStays ==
    ASSUME chain' = chain, Grown, NEW key, NEW b, Written(key, b)
    PROVE  Written(key, b)'
<1>1. PICK m \in Pieces : /\ Sender(m).key = key /\ First(m) <= b /\ b < Past(m)
  BY DEF Written
<1>2. m \in DOMAIN file /\ file[m].node # null
  BY <1>1 DEF Pieces
<1>3. m \in DOMAIN file' /\ file'[m] = file[m]
  BY <1>2 DEF Grown
<1>4. m \in Pieces'
  BY <1>2, <1>3 DEF Pieces, null
<1>5. Sender(m)' = Sender(m) /\ First(m)' = First(m) /\ Past(m)' = Past(m)
  BY <1>3 DEF Sender, First, Past, DataEnd
<1> QED
  BY <1>1, <1>4, <1>5 DEF Written

\* As long as no other packet counts as seen, nothing more has to be written.
LEMMA SeenStays ==
    ASSUME NoByteLost, chain' = chain, Grown, Seen' \subseteq Seen
    PROVE  NoByteLost'
<1> SUFFICES ASSUME Handshake(chain), NumbersAscend', AcksApart',
                    NEW j \in Seen, NEW b \in chain[j].seq..(DataEnd(j) - 1)
             PROVE  Written(chain[j].key, b)'
  BY DEF NoByteLost, DataEnd
<1>1. NumbersAscend /\ AcksApart
  BY DEF NumbersAscend, AcksApart
<1>2. Written(chain[j].key, b)
  BY <1>1 DEF NoByteLost
<1> QED
  BY <1>2, WrittenStays

\* The bytes a continuing packet skips are bytes of the packet it was judged
\* by: the overlap reaches no further than that packet's data.
LEMMA SkipsOnlySeen ==
    ASSUME TypeOK, JudgeContinuing, NumbersAscend, AcksApart,
           NEW b \in chain[next].seq..(chain[next].seq + Overlap - 1)
    PROVE  /\ Judge \in Seen /\ chain[Judge].key = chain[next].key
           /\ b \in chain[Judge].seq..(DataEnd(Judge) - 1)
<1>1. /\ pc = "judge" /\ node < Len(chain) /\ Judge # null
      /\ chain[next].ack = chain[Judge].ack
  BY DEF JudgeContinuing, Advance, Continues, JudgeAck
<1>2. /\ chain \in Seq(Packet) /\ Len(chain) \in Nat /\ node \in 3..Len(chain)
      /\ next \in 4..Len(chain) /\ Judge \in 3..node /\ next = node + 1
  BY <1>1, Walking, JudgeRange DEF next
<1>3. Judge \in Seen
  BY <1>1, <1>2 DEF Seen
<1>4. chain[Judge].key = chain[next].key
  BY <1>1, <1>2 DEF AcksApart
<1>5. chain[Judge].seq <= chain[next].seq
  BY <1>1, <1>2, <1>4 DEF NumbersAscend
<1>6. /\ chain[next].seq \in Nat /\ chain[next].len \in Nat
      /\ chain[Judge].seq \in Nat /\ chain[Judge].len \in Nat
  BY <1>2, PacketNumbers
<1>7. b \in chain[Judge].seq..(DataEnd(Judge) - 1)
  <2> HIDE DEF next, Judge
  <2> QED
    BY <1>5, <1>6 DEF Overlap, DataEnd
<1> QED
  BY <1>3, <1>4, <1>7

LEMMA InitFile == Init => FileInv
<1> SUFFICES ASSUME Init PROVE FileInv
  OBVIOUS
<1>1. TypeOK
  BY InitType
<1>2. Handshake(chain) => Seen = {}
  BY DEF Init, Seen
<1>3. NoByteLost
  BY <1>2 DEF NoByteLost
<1>4. SkippedWritten
  <2> SUFFICES ASSUME pc = "write" PROVE chain[node].seq..(chain[node].seq + offset - 1) = {}
    BY DEF SkippedWritten
  <2>1. chain[node].seq \in Nat /\ offset = 0
    BY <1>1, Walking DEF Init
  <2> QED
    BY <2>1
<1> QED
  BY <1>1, <1>3, <1>4 DEF FileInv

\* After a packet has been written, all of its bytes are in the file: the
\* piece just written holds those the skipped ones do not include.
LEMMA PacketWritten ==
    ASSUME FileInv, WriteData \/ NothingToWrite, NumbersAscend, AcksApart,
           chain' = chain, Grown,
           NEW b \in chain[node].seq..(DataEnd(node) - 1),
           NEW key, key = chain[node].key
    PROVE  Written(key, b)'
<1>1. TypeOK /\ pc = "write"
  BY DEF FileInv, WriteData, NothingToWrite
<1>2. /\ chain \in Seq(Packet) /\ Len(chain) \in Nat /\ node \in 3..Len(chain)
      /\ chain[node].seq \in Nat /\ chain[node].len \in Nat
      /\ offset \in 0..chain[node].len
  BY <1>1, Walking
<1>3. CASE b < chain[node].seq + offset
  <2>1. b \in chain[node].seq..(chain[node].seq + offset - 1)
    BY <1>2, <1>3
  <2>2. Written(key, b)
    BY <1>1, <2>1 DEF FileInv, SkippedWritten
  <2> QED
    BY <2>2, WrittenStays
<1>4. CASE b >= chain[node].seq + offset
  <2> DEFINE e == [node |-> node, from |-> offset]
             m == Len(file) + 1
  <2>1. WriteData
    BY <1>2, <1>4 DEF NothingToWrite, WriteLen, DataEnd
  <2>2. file' = Append(file, e) /\ file \in Seq([node : 0..Len(chain), from : Nat])
        /\ e \in [node : 0..Len(chain), from : Nat]
    BY <1>1, <1>2, <2>1 DEF WriteData, TypeOK
  <2>3. m \in DOMAIN file' /\ file'[m] = e
    BY <2>2
  <2>4. m \in Pieces'
    BY <1>2, <2>3 DEF Pieces, null
  <2>5. /\ chain'[file'[m].node] = chain[node] /\ file'[m].from = offset
    BY <2>3
  <2>6. /\ chain'[file'[m].node].key = key
        /\ chain'[file'[m].node].seq + file'[m].from <= b
        /\ b < chain'[file'[m].node].seq + chain'[file'[m].node].len
    BY <1>2, <1>4, <2>5 DEF DataEnd
  <2> HIDE DEF m
  <2> QED
    BY <2>4, <2>6 DEF Written, Sender, First, Past, DataEnd
<1> QED
  BY <1>2, <1>3, <1>4

LEMMA NextFile == FileInv /\ [Next]_vars => FileInv'
<1> SUFFICES ASSUME FileInv, [Next]_vars PROVE FileInv'
  OBVIOUS
<1>1. TypeOK /\ NoByteLost /\ SkippedWritten /\ TypeOK' /\ chain' = chain /\ Grown
  BY NextType, FileGrows DEF FileInv
<1>2. (NumbersAscend' => NumbersAscend) /\ (AcksApart' => AcksApart)
  BY <1>1 DEF NumbersAscend, AcksApart
<1>3. CASE WriteData \/ NothingToWrite
  <2>1. pc = "write" /\ pc' = "judge" /\ node' = node
    BY <1>3 DEF WriteData, NothingToWrite
  <2>2. Seen' \subseteq Seen \cup {node}
    BY <1>1, <2>1, Walking DEF Seen
  <2>3. NoByteLost'
    <3> SUFFICES ASSUME Handshake(chain), NumbersAscend, AcksApart, NEW j \in Seen',
                        NEW b \in chain[j].seq..(DataEnd(j) - 1),
                        NEW key, key = chain[j].key
                 PROVE  Written(key, b)'
      BY <1>1, <1>2 DEF NoByteLost, DataEnd, Written
    <3>1. CASE j = node
      BY <1>1, <1>3, <3>1, PacketWritten
    <3>2. CASE j \in Seen
      <4>1. Written(key, b)
        BY <1>1, <3>2 DEF NoByteLost
      <4> QED
        BY <1>1, <4>1, WrittenStays
    <3> QED
      BY <2>2, <3>1, <3>2
  <2> QED
    BY <1>1, <2>1, <2>3 DEF FileInv, SkippedWritten
<1>4. CASE Advance /\ (JudgeContinuing \/ JudgeOther)
  <2>1. pc = "judge" /\ pc' = "write" /\ node' = next /\ next = node + 1
        /\ node < Len(chain)
    BY <1>4 DEF Advance, next
  <2>2. Seen' \subseteq Seen
    BY <1>1, <2>1, Walking DEF Seen
  <2>3. NoByteLost'
    BY <1>1, <2>2, SeenStays
  <2>4. SkippedWritten'
    <3> SUFFICES ASSUME NumbersAscend, AcksApart,
                        NEW b \in chain[next].seq..(chain[next].seq + offset' - 1),
                        NEW key, key = chain[next].key
                 PROVE  Written(key, b)'
      BY <1>1, <1>2, <2>1 DEF SkippedWritten, Written
    <3>1. CASE JudgeContinuing
      <4>1. offset' = Overlap
        BY <3>1 DEF JudgeContinuing
      <4>2. /\ Judge \in Seen /\ chain[Judge].key = chain[next].key
            /\ b \in chain[Judge].seq..(DataEnd(Judge) - 1)
        BY <1>1, <3>1, <4>1, SkipsOnlySeen
      <4>3. Handshake(chain)
        BY <1>1, <2>1, Walking
      <4>4. Written(key, b)
        BY <1>1, <4>2, <4>3 DEF NoByteLost
      <4> QED
        BY <1>1, <4>4, WrittenStays
    <3>2. CASE JudgeOther
      <4>1. offset' = 0 /\ chain[next].seq \in Nat
        <5>1. next \in 1..Len(chain) /\ chain \in Seq(Packet)
          BY <1>1, <2>1, Walking, JudgeRange
        <5> QED
          BY <3>2, <5>1, PacketNumbers DEF JudgeOther
      <4> QED
        BY <4>1
    <3> QED
      BY <1>4, <3>1, <3>2
  <2> QED
    BY <1>1, <2>3, <2>4 DEF FileInv
<1>5. CASE WriteFails \/ Close \/ JudgeThroughNull
  <2>1. node' = node /\ pc' # "write" /\ Seen' \subseteq Seen
    BY <1>5 DEF WriteFails, Close, JudgeThroughNull, Seen
  <2> QED
    BY <1>1, <2>1, SeenStays DEF FileInv, SkippedWritten
<1>6. CASE UNCHANGED vars
  <2>1. Seen' = Seen
    BY <1>6 DEF vars, cursors, Seen
  <2>2. NoByteLost'
    BY <1>1, <2>1, SeenStays
  <2>3. SkippedWritten'
    <3> SUFFICES ASSUME pc = "write", NumbersAscend, AcksApart,
                        NEW b \in chain[node].seq..(chain[node].seq + offset - 1),
                        NEW key, key = chain[node].key
                 PROVE  Written(key, b)'
      BY <1>1, <1>2, <1>6 DEF SkippedWritten, Written, vars, cursors
    <3>1. Written(key, b)
      BY <1>1 DEF SkippedWritten
    <3> QED
      BY <1>1, <3>1, WrittenStays
  <2> QED
    BY <1>1, <2>2, <2>3 DEF FileInv
<1> QED
  BY <1>3, <1>4, <1>5, <1>6 DEF Next, JudgeContinuing, JudgeOther

\* main.c:423-457 leaves out no byte that is not in the file already: unless
\* numbers wrap or directions mix, all data behind the handshake is written.
THEOREM AllBytesWritten == Spec => []NoByteLost
<1>1. FileInv => NoByteLost
  BY DEF FileInv
<1> QED
  BY <1>1, InitFile, NextFile, PTL DEF Spec

\* The offset of the packet at hand never covers a byte that has yet to be
\* written.
THEOREM OffsetIsRight == Spec => []SkippedWritten
<1>1. FileInv => SkippedWritten
  BY DEF FileInv
<1> QED
  BY <1>1, InitFile, NextFile, PTL DEF Spec

-----------------------------------------------------------------------------
(* A null pip_hdr can only be met before the walk has made a second step:  *)
(* by then each direction has its header, and there is no third one.       *)
NullInv ==
    Handshake(chain) /\ pip = null =>
        \/ node = 3 /\ hdr1 = 3 /\ hdr2 = null
        \/ node = 4 /\ hdr1 = 3 /\ hdr2 = 4 /\ chain[4].key # chain[3].key

HeadersInv == TypeOK /\ chain \in Chains /\ NullInv /\ NullOnlyAfterHandshake

LEMMA InitHeaders == Init => HeadersInv
<1> SUFFICES ASSUME Init PROVE HeadersInv
  OBVIOUS
<1>1. TypeOK
  BY InitType
<1>2. pc # "crash"
  BY DEF Init
<1> QED
  BY <1>1, <1>2 DEF Init, HeadersInv, NullInv, NullOnlyAfterHandshake

\* When no header can be found for the next packet, the walk stands at the
\* handshake and the next packet is the responder's.
LEMMA NoHeaderFound ==
    ASSUME HeadersInv, pc = "judge", node < Len(chain), Judge = null
    PROVE  /\ node = 3 /\ hdr1 = 3 /\ hdr2 = null /\ pip = null
           /\ chain[4].key # chain[3].key
<1>1. /\ Handshake(chain) /\ Len(chain) \in Nat /\ node \in 3..Len(chain)
      /\ hdr1 \in 3..node /\ hdr2 \in {null} \cup 3..node
  BY Walking DEF HeadersInv
<1>2. pip = null /\ ~Same(next, hdr1) /\ ~Same(next, hdr2)
  <2>1. hdr1 # null /\ (Same(next, hdr2) => hdr2 # null)
    BY <1>1 DEF Same, null
  <2>2. ~Same(next, hdr1)
    BY <2>1 DEF Judge
  <2> QED
    BY <2>1, <2>2 DEF Judge
<1>3. CASE node = 3 /\ hdr1 = 3 /\ hdr2 = null
  <2>1. next = 4 /\ 3 # null
    BY <1>3 DEF next, null
  <2>2. ~Same(4, 3)
    BY <1>2, <1>3, <2>1
  <2> QED
    BY <1>2, <1>3, <2>1, <2>2 DEF Same
<1>4. CASE node = 4 /\ hdr1 = 3 /\ hdr2 = 4 /\ chain[4].key # chain[3].key
  <2>1. DOMAIN chain = 1..Len(chain) /\ next = 5
    BY <1>4 DEF HeadersInv, TypeOK, next
  <2>2. 3 \in DOMAIN chain /\ 4 \in DOMAIN chain /\ 5 \in DOMAIN chain
    BY <1>1, <1>4, <2>1
  <2>3. \/ chain[3].key = chain[4].key \/ chain[4].key = chain[5].key
        \/ chain[3].key = chain[5].key
    BY <2>2, ChainsAssumption DEF HeadersInv
  <2> QED
    BY <1>2, <1>4, <2>1, <2>3 DEF Same, null
<1> QED
  BY <1>1, <1>2, <1>3, <1>4 DEF HeadersInv, NullInv

LEMMA NextHeaders == HeadersInv /\ [Next]_vars => HeadersInv'
<1> SUFFICES ASSUME HeadersInv, [Next]_vars PROVE HeadersInv'
  OBVIOUS
<1>1. TypeOK' /\ chain' = chain /\ TypeOK /\ NullInv /\ chain' \in Chains
  BY NextType, FileGrows DEF HeadersInv
<1>2. NullInv'
  <2>1. CASE Advance /\ (JudgeContinuing \/ JudgeOther)
    <3> SUFFICES ASSUME Judge = null
                 PROVE  /\ node' = 4 /\ hdr1' = 3 /\ hdr2' = 4
                        /\ chain[4].key # chain[3].key
      BY <1>1, <2>1 DEF NullInv, Advance
    <3>1. /\ node = 3 /\ hdr1 = 3 /\ hdr2 = null /\ chain[4].key # chain[3].key
      BY <2>1, NoHeaderFound DEF Advance
    <3>2. JudgeOther
      BY <2>1 DEF JudgeContinuing
    <3>3. next = 4 /\ ~Same(next, hdr1)
      BY <3>1 DEF next, Same
    <3> QED
      BY <2>1, <3>1, <3>2, <3>3 DEF JudgeOther, Recorded, Advance
  <2>2. CASE UNCHANGED <<chain, node, cursors>>
    BY <1>1, <2>2 DEF cursors, NullInv
  <2> QED
    BY <2>1, <2>2 DEF Next, WriteData, NothingToWrite, WriteFails, Close,
                      JudgeContinuing, JudgeOther, JudgeThroughNull, vars
<1>3. NullOnlyAfterHandshake'
  <2>1. CASE JudgeThroughNull
    <3>1. pc = "judge" /\ node < Len(chain) /\ Judge = null /\ Continues
          /\ node' = node
      BY <2>1 DEF JudgeThroughNull
    <3>2. node = 3 /\ chain[4].key # chain[3].key
      BY <3>1, NoHeaderFound
    <3>3. chain[4].ack = 0
      BY <3>1, <3>2 DEF Continues, JudgeAck, next
    <3> QED
      BY <1>1, <3>1, <3>2, <3>3 DEF NullOnlyAfterHandshake
  <2>2. CASE pc' # "crash"
    BY <2>2 DEF NullOnlyAfterHandshake
  <2>3. CASE UNCHANGED vars
    BY <2>3 DEF vars, HeadersInv, NullOnlyAfterHandshake
  <2>4. pc' # "crash" \/ JudgeThroughNull \/ UNCHANGED vars
    BY DEF Next, WriteData, NothingToWrite, WriteFails, Close,
           JudgeContinuing, JudgeOther, Advance
  <2> QED
    BY <2>1, <2>2, <2>3, <2>4
<1> QED
  BY <1>1, <1>2, <1>3 DEF HeadersInv

\* A null ptcp_pkt is followed only at the packet right behind the handshake,
\* and only if that is the responder's and acknowledges number 0.
THEOREM NullFollowedOnce == Spec => []NullOnlyAfterHandshake
<1>1. HeadersInv => NullOnlyAfterHandshake
  BY DEF HeadersInv
<1> QED
  BY <1>1, InitHeaders, NextHeaders, PTL DEF Spec

-----------------------------------------------------------------------------
(* Delimiters.  Two pieces become neighbours when a packet is written and  *)
(* no delimiter has been put before it: then it answers what the last      *)
(* packet written answers, unless it has no data.                          *)
EndsInData == Len(file) \in Pieces

DelimInv ==
    /\ file = <<>> <=> last = null
    /\ EndsInData => file[Len(file)].node = last
    /\ pc = "write" /\ EndsInData /\ chain[node].len > 0 =>
           chain[last].ack = chain[node].ack

FormInv == TypeOK /\ DelimInv /\ Delimited

\* One more entry of the file: the pieces before it stay pieces.
LEMMA AppendPieces ==
    ASSUME TypeOK, chain' = chain, NEW e, file' = Append(file, e)
    PROVE  /\ Len(file) \in Nat /\ Len(file') = Len(file) + 1
           /\ file'[Len(file')] = e /\ file' # <<>>
           /\ \A m \in 1..Len(file) : file'[m] = file[m]
           /\ Pieces \subseteq 1..Len(file)
           /\ Pieces' = Pieces \cup {m \in {Len(file) + 1} : e.node # null}
<1>1. file \in Seq([node : 0..Len(chain), from : Nat])
  BY DEF TypeOK
<1>2. /\ Len(file) \in Nat /\ Len(file') = Len(file) + 1
      /\ file'[Len(file')] = e /\ file' # <<>>
      /\ \A m \in 1..Len(file) : file'[m] = file[m]
      /\ DOMAIN file = 1..Len(file) /\ DOMAIN file' = 1..(Len(file) + 1)
      /\ file'[Len(file) + 1] = e
  BY <1>1
<1>3. 1..(Len(file) + 1) = (1..Len(file)) \cup {Len(file) + 1}
  BY <1>2
<1>4. Pieces' = Pieces \cup {m \in {Len(file) + 1} : e.node # null}
  BY <1>2, <1>3 DEF Pieces, null
<1> QED
  BY <1>2, <1>4 DEF Pieces

LEMMA InitForm == Init => FormInv
<1> SUFFICES ASSUME Init PROVE FormInv
  OBVIOUS
<1>1. TypeOK /\ file = <<>> /\ last = null
  BY InitType DEF Init
<1>2. Pieces = {}
  BY <1>1 DEF Pieces
<1> QED
  BY <1>1, <1>2 DEF FormInv, DelimInv, Delimited, EndsInData

LEMMA WriteForm == ASSUME FormInv, WriteData PROVE DelimInv' /\ Delimited'
<1> DEFINE e == [node |-> node, from |-> offset]
           n == Len(file) + 1
<1>1. /\ TypeOK /\ DelimInv /\ Delimited /\ pc = "write" /\ chain' = chain
      /\ file' = Append(file, e) /\ last' = node /\ pc' = "judge"
  BY DEF FormInv, WriteData
<1>2. /\ node \in 3..Len(chain) /\ chain[node].len \in Nat /\ Len(chain) \in Nat
      /\ offset \in 0..chain[node].len /\ chain[node].len - offset # 0
  BY <1>1, Walking DEF WriteData, WriteLen
<1>3. e.node = node /\ e.node # null
  BY <1>2 DEF null
<1> HIDE DEF e
<1>4. /\ Len(file) \in Nat /\ Len(file') = n /\ file'[n] = e /\ file' # <<>>
      /\ \A m \in 1..Len(file) : file'[m] = file[m]
      /\ Pieces \subseteq 1..Len(file)
      /\ Pieces' = Pieces \cup {n}
  BY <1>1, <1>3, AppendPieces
<1>5. DelimInv'
  BY <1>1, <1>3, <1>4, <1>2 DEF DelimInv, EndsInData, null
<1>6. ASSUME NEW m \in Pieces', m + 1 \in Pieces'
      PROVE  chain[file'[m].node].ack = chain[file'[m + 1].node].ack
  <2>1. m \in Pieces /\ m \in 1..Len(file)
    BY <1>4, <1>6
  <2>2. CASE m + 1 \in Pieces
    BY <1>1, <1>4, <2>1, <2>2 DEF Delimited, Sender
  <2>3. CASE m = Len(file) /\ m + 1 = n
    <3>1. EndsInData /\ file[m].node = last /\ chain[last].ack = chain[node].ack
      BY <1>1, <1>2, <2>1, <2>3 DEF DelimInv, EndsInData
    <3> QED
      BY <1>3, <1>4, <2>1, <2>3, <3>1
  <2> QED
    BY <1>4, <1>6, <2>1, <2>2, <2>3
<1>7. 1 \in Pieces'
  <2>1. CASE file = <<>>
    BY <1>4, <2>1
  <2>2. CASE file # <<>>
    BY <1>1, <1>4, <2>2 DEF Delimited
  <2> QED
    BY <2>1, <2>2
<1> QED
  BY <1>1, <1>5, <1>6, <1>7 DEF Delimited, Sender

LEMMA AdvanceForm == ASSUME FormInv, Advance PROVE DelimInv' /\ Delimited'
<1>1. /\ TypeOK /\ DelimInv /\ Delimited /\ chain' = chain /\ last' = last
      /\ node' = next /\ pc' = "write" /\ file' = file \o Delimiter
      /\ pc = "judge" /\ node < Len(chain)
  BY DEF FormInv, Advance
<1>2. /\ file \in Seq([node : 0..Len(chain), from : Nat])
      /\ chain \in Seq(Packet) /\ Len(chain) \in Nat /\ Gap.node = null
  BY <1>1 DEF TypeOK, Gap
<1>3. CASE last # null /\ chain[next].len > 0 /\ chain[last].ack # chain[next].ack
  <2>1. file' = Append(file, Gap)
    BY <1>1, <1>2, <1>3 DEF Delimiter
  <2>2. /\ Len(file) \in Nat /\ Len(file') = Len(file) + 1 /\ file' # <<>>
        /\ \A m \in 1..Len(file) : file'[m] = file[m]
        /\ Pieces \subseteq 1..Len(file)
        /\ Pieces' = Pieces
    BY <1>1, <1>2, <2>1, AppendPieces
  <2>3. DelimInv'
    BY <1>1, <1>3, <2>2 DEF DelimInv, EndsInData
  <2>4. Delimited'
    <3>1. file # <<>> /\ 1 \in Pieces'
      BY <1>1, <1>3, <2>2 DEF DelimInv, Delimited
    <3>2. \A m \in Pieces' : file'[m] = file[m]
      BY <2>2
    <3> QED
      BY <1>1, <2>2, <3>1, <3>2 DEF Delimited, Sender
  <2> QED
    BY <2>3, <2>4
<1>4. CASE ~(last # null /\ chain[next].len > 0 /\ chain[last].ack # chain[next].ack)
  <2>1. file' = file
    BY <1>1, <1>2, <1>4 DEF Delimiter
  <2>2. Pieces' = Pieces
    BY <2>1 DEF Pieces, null
  <2>3. EndsInData => last # null
    <3> SUFFICES ASSUME EndsInData, last = null PROVE FALSE
      OBVIOUS
    <3>1. file = <<>>
      BY <1>1 DEF DelimInv
    <3> QED
      BY <3>1 DEF EndsInData, Pieces
  <2>4. DelimInv'
    BY <1>1, <1>4, <2>1, <2>2, <2>3 DEF DelimInv, EndsInData
  <2> QED
    BY <1>1, <2>1, <2>2, <2>4 DEF Delimited, Sender
<1> QED
  BY <1>3, <1>4

LEMMA NextForm == FormInv /\ [Next]_vars => FormInv'
<1> SUFFICES ASSUME FormInv, [Next]_vars PROVE FormInv'
  OBVIOUS
<1>1. TypeOK /\ TypeOK' /\ DelimInv /\ Delimited /\ chain' = chain
  BY NextType, FileGrows DEF FormInv
<1>2. ASSUME UNCHANGED <<node, last, file>>, pc' = pc \/ pc' # "write"
      PROVE  DelimInv' /\ Delimited'
  <2>1. Pieces' = Pieces
    BY <1>2 DEF Pieces, null
  <2> QED
    BY <1>1, <1>2, <2>1 DEF DelimInv, Delimited, EndsInData, Sender
<1>3. DelimInv' /\ Delimited'
  BY <1>2, WriteForm, AdvanceForm
     DEF Next, NothingToWrite, WriteFails, Close, JudgeContinuing, JudgeOther,
         JudgeThroughNull, vars, cursors
<1> QED
  BY <1>1, <1>3 DEF FormInv

\* Data that answers another packet than the data before it is delimited from
\* it, and the file starts with data.
THEOREM AnswersDelimited == Spec => []Delimited
<1>1. FormInv => Delimited
  BY DEF FormInv
<1> QED
  BY <1>1, InitForm, NextForm, PTL DEF Spec

-----------------------------------------------------------------------------
(* The order of an exchange's bytes.  As long as each direction answers    *)
(* one number, the recorded headers are those of the latest packet of each *)
(* direction, so that the offset clears every byte written before.         *)
Exchanging == Handshake(chain) /\ OneExchange /\ AcksApart

Alike(j, k) == chain[j].key = chain[k].key

HeadersLatest ==
    Exchanging =>
        /\ Alike(hdr1, 3) /\ \A j \in 3..node : Alike(j, 3) => j <= hdr1
        /\ hdr2 # null => ~Alike(hdr2, 3)
        /\ \A j \in 3..node : ~Alike(j, 3) => hdr2 # null /\ j <= hdr2

PiecesSeen ==
    /\ \A m \in Pieces : /\ file[m].node \in 3..node
                         /\ pc = "write" => file[m].node < node
    /\ \A m, l \in Pieces : m < l => file[m].node < file[l].node

OffsetClears ==
    Exchanging /\ pc = "write" /\ offset < chain[node].len =>
        \A j \in 3..(node - 1) :
            Alike(j, node) => DataEnd(j) <= chain[node].seq + offset

OrderInv == /\ TypeOK /\ chain \in Chains
            /\ HeadersLatest /\ PiecesSeen /\ OffsetClears /\ OneExchangeInOrder

LEMMA InitOrder == Init => OrderInv
<1> SUFFICES ASSUME Init PROVE OrderInv
  OBVIOUS
<1>1. TypeOK /\ file = <<>> /\ node = 3 /\ hdr1 = 3 /\ hdr2 = null /\ chain \in Chains
  BY InitType DEF Init
<1>2. Pieces = {}
  BY <1>1 DEF Pieces
<1>3. \A j \in 3..node : j = 3
  BY <1>1
<1>4. HeadersLatest
  BY <1>1, <1>3 DEF HeadersLatest, Alike
<1>5. OffsetClears
  <2>1. 3..(node - 1) = {}
    BY <1>1
  <2> QED
    BY <2>1 DEF OffsetClears
<1> QED
  BY <1>1, <1>2, <1>4, <1>5 DEF OrderInv, PiecesSeen, OneExchangeInOrder

\* A chain of three packets shows two directions at the most.
LEMMA TwoDirections ==
    ASSUME chain \in Chains, chain \in Seq(Packet),
           NEW j \in 1..Len(chain), NEW k \in 1..Len(chain), NEW l \in 1..Len(chain),
           ~Alike(j, l), ~Alike(k, l)
    PROVE  Alike(j, k)
<1>1. j \in DOMAIN chain /\ k \in DOMAIN chain /\ l \in DOMAIN chain
  OBVIOUS
<1> QED
  BY <1>1, ChainsAssumption DEF Alike

LEMMA SameChain ==
    ASSUME chain' = chain
    PROVE  /\ Exchanging' = Exchanging /\ OneExchange' = OneExchange /\ AcksApart' = AcksApart
           /\ \A j : DataEnd(j)' = DataEnd(j)
BY DEF Exchanging, OneExchange, AcksApart, DataEnd

\* In an exchange the next packet is judged by the latest one of its own
\* direction, and continues it, unless it is the first of its direction.
LEMMA JudgedByLatest ==
    ASSUME OrderInv, Exchanging, JudgeContinuing \/ JudgeOther
    PROVE  \/ /\ JudgeContinuing /\ Judge \in 3..node /\ Alike(Judge, next)
              /\ \A j \in 3..node : Alike(j, next) => j <= Judge
              /\ Alike(next, 3) => hdr1' = next /\ hdr2' = hdr2
              /\ ~Alike(next, 3) => hdr1' = hdr1 /\ hdr2' = next
           \/ /\ JudgeOther
              /\ \A j \in 3..node : ~Alike(j, next)
              /\ ~Alike(next, 3) /\ hdr1' = hdr1 /\ hdr2' = next
<1>1. /\ TypeOK /\ HeadersLatest /\ chain \in Chains /\ chain \in Seq(Packet)
      /\ pc = "judge" /\ node < Len(chain)
  BY DEF OrderInv, JudgeContinuing, JudgeOther, Advance, TypeOK
<1>2. /\ Len(chain) \in Nat /\ node \in 3..Len(chain) /\ next \in 4..Len(chain)
      /\ hdr1 \in 3..node /\ hdr2 \in {null} \cup 3..node /\ pip \in {null} \cup 3..node
      /\ Judge \in {null} \cup 3..node
  BY <1>1, Walking, JudgeRange
<1>3. /\ Alike(hdr1, 3) /\ \A j \in 3..node : Alike(j, 3) => j <= hdr1
      /\ hdr2 # null => ~Alike(hdr2, 3)
      /\ \A j \in 3..node : ~Alike(j, 3) => hdr2 # null /\ j <= hdr2
  BY <1>1 DEF HeadersLatest
<1>4. /\ \A j \in 3..node : Alike(j, next) => chain[j].ack = chain[next].ack
      /\ \A j \in 3..node : ~Alike(j, next) => chain[j].ack # chain[next].ack
  <2>1. \A j \in 3..node : j < next /\ j \in 3..Len(chain) /\ next \in 3..Len(chain)
    BY <1>2 DEF next
  <2> HIDE DEF next
  <2> QED
    BY <2>1 DEF Exchanging, OneExchange, AcksApart, Alike
<1>5. hdr1 # null /\ 3 \in 1..Len(chain) /\ next \in 1..Len(chain)
  BY <1>2 DEF null
<1>6. CASE Alike(next, 3)
  <2>1. Alike(hdr1, next) /\ Same(next, hdr1)
    BY <1>3, <1>5, <1>6 DEF Alike, Same
  <2>2. Judge = hdr1 /\ Recorded = hdr2
    BY <2>1 DEF Judge, Recorded
  <2>3. Continues
    BY <1>2, <1>4, <1>5, <2>1, <2>2 DEF Continues, JudgeAck
  <2>4. JudgeContinuing /\ hdr1' = next /\ hdr2' = hdr2
    BY <2>2, <2>3 DEF JudgeContinuing, JudgeOther
  <2>5. \A j \in 3..node : Alike(j, next) => j <= hdr1
    BY <1>3, <1>6 DEF Alike
  <2> QED
    BY <1>2, <1>6, <2>1, <2>2, <2>4, <2>5
<1>7. CASE ~Alike(next, 3) /\ hdr2 # null
  <2>1. hdr2 \in 3..node /\ hdr2 \in 1..Len(chain) /\ ~Alike(hdr2, 3)
    BY <1>2, <1>3, <1>7
  <2>2. Alike(hdr2, next)
    BY <1>1, <1>5, <1>7, <2>1, TwoDirections
  <2>3. Same(next, hdr2) /\ ~Same(next, hdr1) /\ hdr1 # hdr2
    BY <1>3, <1>5, <1>7, <2>1, <2>2 DEF Alike, Same
  <2>4. Judge = hdr2
    BY <2>3 DEF Judge
  <2>5. Continues
    BY <1>4, <1>7, <2>1, <2>2, <2>4 DEF Continues, JudgeAck
  <2>6. JudgeContinuing /\ hdr1' = hdr1 /\ hdr2' = next
    BY <2>3, <2>4, <2>5 DEF JudgeContinuing, JudgeOther
  <2>7. \A j \in 3..node : Alike(j, next) => j <= hdr2
    BY <1>3, <1>7 DEF Alike
  <2> QED
    BY <1>7, <2>1, <2>2, <2>4, <2>6, <2>7
<1>8. CASE ~Alike(next, 3) /\ hdr2 = null
  <2>1. \A j \in 3..node : Alike(j, 3) /\ ~Alike(j, next)
    BY <1>3, <1>8 DEF Alike
  <2>2. ~Same(next, hdr1)
    BY <1>2, <2>1 DEF Alike, Same
  <2>3. Recorded = next
    BY <1>8, <2>2 DEF Recorded
  <2>4. ~(Continues /\ Judge # null)
    BY <1>2, <1>4, <2>1 DEF Continues, JudgeAck
  <2>5. JudgeOther /\ hdr1' = hdr1 /\ hdr2' = next
    BY <2>3, <2>4 DEF JudgeContinuing, JudgeOther
  <2> QED
    BY <1>8, <2>1, <2>5
<1> QED
  BY <1>6, <1>7, <1>8

LEMMA AdvanceLatest ==
    ASSUME OrderInv, JudgeContinuing \/ JudgeOther PROVE HeadersLatest'
<1>1. /\ chain' = chain /\ node' = next /\ TypeOK /\ HeadersLatest
      /\ pc = "judge" /\ node < Len(chain)
  BY DEF OrderInv, JudgeContinuing, JudgeOther, Advance
<1> SUFFICES ASSUME Exchanging PROVE HeadersLatest'
  BY <1>1 DEF HeadersLatest, Exchanging, OneExchange, AcksApart, DataEnd
<1>2. /\ node \in 3..Len(chain) /\ Len(chain) \in Nat /\ next = node + 1
      /\ hdr1 \in 3..node /\ hdr2 \in {null} \cup 3..node
  BY <1>1, Walking DEF next
<1> HIDE DEF next
<1>3. \A j \in 3..next : j = next \/ j \in 3..node
  BY <1>2
<1>4. /\ Alike(hdr1, 3) /\ \A j \in 3..node : Alike(j, 3) => j <= hdr1
      /\ hdr2 # null => ~Alike(hdr2, 3)
      /\ \A j \in 3..node : ~Alike(j, 3) => hdr2 # null /\ j <= hdr2
  BY <1>1 DEF HeadersLatest
<1>5. \/ Alike(next, 3) /\ hdr1' = next /\ hdr2' = hdr2
      \/ ~Alike(next, 3) /\ hdr1' = hdr1 /\ hdr2' = next
  BY JudgedByLatest
<1>6. /\ chain[hdr1'].key = chain[3].key
      /\ \A j \in 3..next : Alike(j, 3) => j <= hdr1'
  BY <1>2, <1>3, <1>4, <1>5 DEF Alike
<1>7. hdr2' # null => chain[hdr2'].key # chain[3].key
  BY <1>4, <1>5 DEF Alike
<1>8. \A j \in 3..next : ~Alike(j, 3) => hdr2' # null /\ j <= hdr2'
  <2> SUFFICES ASSUME NEW j \in 3..next, ~Alike(j, 3) PROVE hdr2' # null /\ j <= hdr2'
    OBVIOUS
  <2>1. CASE Alike(next, 3) /\ hdr2' = hdr2
    BY <1>3, <1>4, <2>1
  <2>2. CASE hdr2' = next
    BY <1>2, <2>2 DEF null
  <2> QED
    BY <1>5, <2>1, <2>2
<1> QED
  BY <1>1, <1>6, <1>7, <1>8 DEF HeadersLatest, Alike, null

\* Unless the whole packet is skipped, the overlap with the latest packet of
\* a direction clears the data of all earlier ones as well.
LEMMA AdvanceClears ==
    ASSUME OrderInv, JudgeContinuing \/ JudgeOther PROVE OffsetClears'
<1>1. /\ chain' = chain /\ node' = next /\ TypeOK
      /\ pc = "judge" /\ node < Len(chain)
  BY DEF OrderInv, JudgeContinuing, JudgeOther, Advance
<1>2. /\ node \in 3..Len(chain) /\ Len(chain) \in Nat /\ next = node + 1
      /\ chain \in Seq(Packet) /\ next \in 4..Len(chain) /\ next - 1 = node
  BY <1>1, Walking, JudgeRange DEF next
<1> HIDE DEF next
<1> SUFFICES ASSUME Exchanging, offset' < chain[next].len,
                    NEW j \in 3..node, Alike(j, next)
             PROVE  DataEnd(j) <= chain[next].seq + offset'
  <2>1. Exchanging' = Exchanging
    BY <1>1, SameChain
  <2> QED
    BY <1>1, <1>2, <2>1 DEF OffsetClears, DataEnd, Alike
<1>3. /\ JudgeContinuing /\ Judge \in 3..node /\ Alike(Judge, next) /\ j <= Judge
  BY JudgedByLatest
<1>4. offset' = Overlap
  BY <1>3 DEF JudgeContinuing
<1>5. /\ chain[next].seq \in Nat /\ chain[next].len \in Nat
      /\ chain[Judge].seq \in Nat /\ chain[Judge].len \in Nat
      /\ chain[j].seq \in Nat /\ chain[j].len \in Nat
  BY <1>2, <1>3, PacketNumbers
<1> HIDE DEF Judge
<1>6. offset' \in Nat /\ DataEnd(Judge) <= chain[next].seq + offset'
  BY <1>4, <1>5 DEF Overlap, DataEnd
<1>7. DataEnd(j) \in Nat /\ DataEnd(Judge) \in Nat
  BY <1>5 DEF DataEnd
<1>8. CASE DataEnd(Judge) >= DataEnd(j)
  BY <1>5, <1>6, <1>7, <1>8
<1>9. CASE DataEnd(Judge) < DataEnd(j)
  <2>1. j < Judge
    BY <1>2, <1>3, <1>7, <1>9
  <2>2. /\ j \in 3..Len(chain) /\ Judge \in 3..Len(chain) /\ next \in (Judge + 1)..Len(chain)
        /\ chain[j].key = chain[Judge].key /\ chain[next].key = chain[j].key
    BY <1>2, <1>3 DEF Alike
  <2>3. chain[next].seq >= DataEnd(j)
    BY <1>9, <2>1, <2>2 DEF Exchanging, OneExchange
  <2> QED
    BY <1>5, <1>6, <1>7, <2>3
<1> QED
  BY <1>7, <1>8, <1>9

LEMMA SamePieces ==
    ASSUME TypeOK, chain' = chain,
           file' = file \/ file' = Append(file, Gap)
    PROVE  Pieces' = Pieces /\ \A m \in Pieces : file'[m] = file[m]
<1>1. CASE file' = file
  BY <1>1 DEF Pieces, null
<1>2. CASE file' = Append(file, Gap)
  <2>1. Gap.node = null
    BY DEF Gap
  <2> QED
    BY <1>2, <2>1, AppendPieces
<1> QED
  BY <1>1, <1>2

LEMMA WriteOrder == ASSUME OrderInv, WriteData PROVE PiecesSeen' /\ OneExchangeInOrder'
<1> DEFINE e == [node |-> node, from |-> offset]
           n == Len(file) + 1
<1>1. /\ TypeOK /\ PiecesSeen /\ OffsetClears /\ OneExchangeInOrder
      /\ pc = "write" /\ chain' = chain /\ node' = node
      /\ file' = Append(file, e) /\ pc' = "judge"
  BY DEF OrderInv, WriteData
<1>2. /\ node \in 3..Len(chain) /\ chain[node].len \in Nat /\ Len(chain) \in Nat
      /\ offset \in 0..chain[node].len /\ chain[node].len - offset # 0
      /\ Handshake(chain)
  BY <1>1, Walking DEF WriteData, WriteLen
<1>3. e.node = node /\ e.from = offset /\ e.node # null
  BY <1>2 DEF null
<1> HIDE DEF e
<1>4. /\ Len(file) \in Nat /\ file'[n] = e
      /\ \A m \in 1..Len(file) : file'[m] = file[m]
      /\ Pieces \subseteq 1..Len(file)
      /\ Pieces' = Pieces \cup {n}
  BY <1>1, <1>3, AppendPieces
<1>5. PiecesSeen'
  <2>1. ASSUME NEW m \in Pieces
        PROVE  file'[m] = file[m] /\ m < n /\ file[m].node \in 3..node /\ file[m].node < node
    BY <1>1, <1>4, <2>1 DEF PiecesSeen
  <2>2. file'[n].node = node
    BY <1>3, <1>4
  <2>3. ASSUME NEW m \in Pieces' PROVE file'[m].node \in 3..node
    BY <1>2, <1>4, <2>1, <2>2
  <2>4. ASSUME NEW m \in Pieces', NEW l \in Pieces', m < l
        PROVE  file'[m].node < file'[l].node
    <3>1. m \in Pieces
      BY <1>4, <2>1, <2>4
    <3>2. CASE l \in Pieces
      BY <1>1, <2>1, <2>4, <3>1, <3>2 DEF PiecesSeen
    <3>3. CASE l = n
      BY <2>1, <2>2, <3>1, <3>3
    <3> QED
      BY <1>4, <3>2, <3>3
  <2> QED
    BY <1>1, <2>3, <2>4 DEF PiecesSeen
<1>6. OneExchangeInOrder'
  <2> SUFFICES ASSUME OneExchange, AcksApart, NEW m \in Pieces', NEW l \in Pieces', m < l,
                      chain[file'[m].node].key = chain[file'[l].node].key
               PROVE  DataEnd(file'[m].node) <= chain[file'[l].node].seq + file'[l].from
    <3>1. OneExchange' = OneExchange /\ AcksApart' = AcksApart
      BY <1>1, SameChain
    <3> QED
      BY <1>1, <3>1 DEF OneExchangeInOrder, Sender, First, Past, DataEnd
  <2>1. m \in Pieces /\ file'[m] = file[m]
    <3>1. l <= n /\ m # n
      <4>1. l = n \/ l \in 1..Len(file)
        BY <1>4
      <4> QED
        BY <1>4, <4>1
    <3> QED
      BY <1>4, <3>1
  <2>2. CASE l \in Pieces
    <3>1. file'[l] = file[l]
      BY <1>4, <2>2
    <3> QED
      BY <1>1, <2>1, <2>2, <3>1 DEF OneExchangeInOrder, Sender, First, Past
  <2>3. CASE l = n
    <3>1. file[m].node \in 3..node /\ file[m].node < node
      BY <1>1, <2>1 DEF PiecesSeen
    <3>2. file[m].node \in 3..(node - 1)
      BY <1>2, <3>1
    <3>3. Exchanging /\ offset < chain[node].len
      BY <1>2 DEF Exchanging
    <3>4. Alike(file[m].node, node)
      BY <1>3, <1>4, <2>1, <2>3 DEF Alike
    <3>5. DataEnd(file[m].node) <= chain[node].seq + offset
      BY <1>1, <3>2, <3>3, <3>4 DEF OffsetClears
    <3> QED
      BY <1>3, <1>4, <2>1, <2>3, <3>5
  <2> QED
    BY <1>4, <2>2, <2>3
<1> QED
  BY <1>5, <1>6

LEMMA AdvanceOrder ==
    ASSUME OrderInv, Advance PROVE PiecesSeen' /\ OneExchangeInOrder'
<1>1. /\ TypeOK /\ PiecesSeen /\ OneExchangeInOrder
      /\ pc = "judge" /\ chain' = chain /\ node' = next /\ node < Len(chain)
      /\ file' = file \o Delimiter
  BY DEF OrderInv, Advance
<1>2. node \in 3..Len(chain) /\ Len(chain) \in Nat /\ next = node + 1
  BY <1>1, Walking DEF next
<1>3. file' = file \/ file' = Append(file, Gap)
  <2>1. file \in Seq([node : 0..Len(chain), from : Nat]) /\ chain \in Seq(Packet)
    BY <1>1 DEF TypeOK
  <2>2. Gap \in [node : 0..Len(chain), from : Nat]
    BY <1>2 DEF Gap, null
  <2> QED
    BY <1>1, <2>1, <2>2, AppendType DEF Delimiter
<1>4. Pieces' = Pieces /\ \A m \in Pieces : file'[m] = file[m]
  BY <1>1, <1>3, SamePieces
<1>5. PiecesSeen'
  <2>1. ASSUME NEW m \in Pieces PROVE file[m].node \in 3..next /\ file[m].node < next
    BY <1>1, <1>2 DEF PiecesSeen
  <2> QED
    BY <1>1, <1>4, <2>1 DEF PiecesSeen
<1>6. OneExchangeInOrder'
  <2>1. OneExchange' = OneExchange /\ AcksApart' = AcksApart
    BY <1>1, SameChain
  <2> SUFFICES ASSUME OneExchange, AcksApart, NEW m \in Pieces, NEW l \in Pieces, m < l,
                      chain[file'[m].node].key = chain[file'[l].node].key
               PROVE  DataEnd(file'[m].node) <= chain[file'[l].node].seq + file'[l].from
    BY <1>1, <1>4, <2>1 DEF OneExchangeInOrder, Sender, First, Past, DataEnd
  <2>2. file'[m] = file[m] /\ file'[l] = file[l]
    BY <1>4
  <2> QED
    BY <1>1, <2>2 DEF OneExchangeInOrder, Sender, First, Past
<1> QED
  BY <1>5, <1>6

LEMMA NextOrder == OrderInv /\ [Next]_vars => OrderInv'
<1> SUFFICES ASSUME OrderInv, [Next]_vars PROVE OrderInv'
  OBVIOUS
<1>1. TypeOK /\ TypeOK' /\ chain' = chain /\ chain' \in Chains
  BY NextType, FileGrows DEF OrderInv
<1>2. CASE WriteData
  <2>1. PiecesSeen' /\ OneExchangeInOrder'
    BY <1>2, WriteOrder
  <2>2. /\ node' = node /\ hdr1' = hdr1 /\ hdr2' = hdr2 /\ pc' = "judge"
    BY <1>2 DEF WriteData, cursors
  <2>3. HeadersLatest' /\ OffsetClears'
    BY <1>1, <2>2 DEF OrderInv, HeadersLatest, OffsetClears, Exchanging, OneExchange,
                      AcksApart, DataEnd, Alike, null
  <2> QED
    BY <1>1, <2>1, <2>3 DEF OrderInv
<1>3. CASE JudgeContinuing \/ JudgeOther
  <2>1. Advance
    BY <1>3 DEF JudgeContinuing, JudgeOther
  <2> QED
    BY <1>1, <1>3, <2>1, AdvanceOrder, AdvanceLatest, AdvanceClears DEF OrderInv
<1>4. CASE NothingToWrite \/ WriteFails \/ Close \/ JudgeThroughNull \/ UNCHANGED vars
  <2>1. /\ node' = node /\ hdr1' = hdr1 /\ hdr2' = hdr2 /\ offset' = offset
        /\ file' = file /\ (pc' = pc \/ pc' # "write")
    BY <1>4 DEF NothingToWrite, WriteFails, Close, JudgeThroughNull, vars, cursors
  <2>2. Pieces' = Pieces
    BY <2>1 DEF Pieces, null
  <2>3. HeadersLatest'
    BY <1>1, <2>1 DEF OrderInv, HeadersLatest, Exchanging, OneExchange, AcksApart,
                      DataEnd, Alike, null
  <2>4. OffsetClears'
    BY <1>1, <2>1 DEF OrderInv, OffsetClears, Exchanging, OneExchange, AcksApart,
                      DataEnd, Alike
  <2>5. PiecesSeen' /\ OneExchangeInOrder'
    BY <1>1, <2>1, <2>2 DEF OrderInv, PiecesSeen, OneExchangeInOrder, OneExchange,
                            AcksApart, Sender, First, Past, DataEnd
  <2> QED
    BY <1>1, <2>3, <2>4, <2>5 DEF OrderInv
<1> QED
  BY <1>2, <1>3, <1>4 DEF Next

\* Within one exchange a byte that was captured twice is written once, and the
\* bytes of each direction are written in their order.
THEOREM ExchangeInOrder == Spec => []OneExchangeInOrder
<1>1. OrderInv => OneExchangeInOrder
  BY DEF OrderInv
<1> QED
  BY <1>1, InitOrder, NextOrder, PTL DEF Spec

=============================================================================
