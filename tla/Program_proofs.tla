--------------------------- MODULE Program_proofs ---------------------------
(***************************************************************************)
(* Proofs about the program after the capture is open, for any capture,    *)
(* any table and any slots.  First the passes over the flows: no packet is *)
(* lost or doubled, and each flow is found, dumped and joined with its     *)
(* opposite; the last pass waits for the texts to be written.  Then the    *)
(* texts: that of a connection which can be put together has all of its    *)
(* bytes, and the replies behind the requests they answer.                 *)
(***************************************************************************)
EXTENDS Program, TcpPackets_proofs

-----------------------------------------------------------------------------
(* The inductive invariant, in terms of the chains N, the packets C read   *)
(* so far and the slots sl of the keys.                                    *)

AllSlots == 0..(Size - 1)
Tables   == [AllSlots -> Lists]
Phases   == {"hash", "classify", "dump", "tidy", "write", "end", "hang", "exit", "crash"}
TcpAt    == {j \in DOMAIN capture : IsTcp(capture[j])}

\* A number names one captured packet, and a slot one captured key.
Known(C, sl) ==
    /\ C \subseteq Packet /\ sl \in [Keys -> AllSlots]
    /\ \A p, q \in C : p.n = q.n => p = q
    /\ \A p, q \in C : sl[p.key] = sl[q.key] => p.key = q.key

OneEach(c) == \A j, k \in 1..Len(c) : c[j].n = c[k].n => j = k

\* The chains hold each captured packet once, under its key.
FiledIn(N, C) ==
    /\ \A s \in AllSlots : OneEach(N[s])
    /\ \A s, t \in AllSlots : \A e \in ToSet(N[s]), d \in ToSet(N[t]) :
          e.n = d.n => s = t
    /\ \A s \in AllSlots : \A e \in ToSet(N[s]) : \E p \in C : p.n = e.n /\ p.key = e.key
    /\ \A p \in C : \E s \in AllSlots : \E e \in ToSet(N[s]) : e.n = p.n

\* A chain of one direction; one of both, in which the headers of all
\* packets are as captured or those of all are exchanged.
OneSided(c, C) == \A e \in ToSet(c) : e \in C /\ e.key = Head(c).key
TwoSided(c, C) ==
    /\ \A e \in ToSet(c) : e.key \in {Head(c).key, Reversed(Head(c).key)}
    /\ \E e \in ToSet(c) : e.key = Reversed(Head(c).key)
    /\ \/ \A e \in ToSet(c) : e \in C
       \/ \A e \in ToSet(c) : Exchange(e) \in C

\* All packets of a key are in one chain, which is where the key of its
\* first packet is looked for.
OneChainPerKey(N) ==
    \A s, t \in AllSlots : \A e \in ToSet(N[s]), d \in ToSet(N[t]) : e.key = d.key => s = t

AtHome(c, s, C, sl) == c # <<>> => /\ sl[Head(c).key] = s
                                   /\ OneSided(c, C) \/ TwoSided(c, C)

ChainedIn(N, C, sl) == OneChainPerKey(N) /\ \A s \in AllSlots : AtHome(N[s], s, C, sl)

AllOneSided(N, C) == \A s \in AllSlots : OneSided(N[s], C)

Ordered(c) == InWindow(c) => InOrder(c)

\* The two chains are the directions of one connection.
Opposite(c, d) == c # <<>> /\ d # <<>> /\ Head(c).key = Reversed(Head(d).key)

\* Those of the slots below n have no opposite elsewhere.
PairedBelow(N, n) ==
    \A s, t \in AllSlots : (s < n \/ t < n) /\ Opposite(N[s], N[t]) => s = t

CaptureTypes ==
    /\ capture \in Seq(Packet \cup {Other})
    /\ \A j, l \in TcpAt : capture[j].n = capture[l].n => j = l
    /\ slot \in [Keys -> AllSlots]
    /\ \A j, l \in TcpAt : slot[capture[j].key] = slot[capture[l].key] =>
                              capture[j].key = capture[l].key

TableTypes ==
    /\ read \in Nat /\ read <= Len(capture)
    /\ nodes \in Tables
    /\ nindex \in Nat
    /\ pc = "hash" => nindex = 0 /\ pcaps = {}
    /\ pc \in Phases

\* The pcap files wait for the directions to be told apart, the texts for
\* them to be joined.
Phased ==
    /\ pc \in {"hash", "classify", "dump"} => AllOneSided(nodes, Captured)
    /\ pc = "classify" => \A s \in AllSlots : s < nindex => Ordered(nodes[s])
    /\ pc = "dump" => \A s \in AllSlots : s + 1 < Size => Ordered(nodes[s])
    /\ pc = "tidy" => PairedBelow(nodes, nindex)
    /\ pc \in {"write", "end"} => PairedBelow(nodes, Size)

IInv == /\ CaptureTypes /\ TableTypes /\ Phased /\ PcapsAreFlows
        /\ FiledIn(nodes, Captured)
        /\ ChainedIn(nodes, Captured, slot)

-----------------------------------------------------------------------------
(* Packets and chains.                                                     *)

LEMMA Exchanged ==
    ASSUME NEW p \in Packet
    PROVE  /\ Exchange(p) \in Packet /\ Exchange(Exchange(p)) = p
           /\ Exchange(p).n = p.n /\ Exchange(p).key = p.key
           /\ Exchange(p).seq = p.ack /\ Exchange(p).ack = p.seq
           /\ Exchange(p).syn = p.syn /\ Exchange(p).ackflag = p.ackflag
           /\ p.n \in Nat /\ p.key \in Keys
BY DEF Exchange, Packet

LEMMA HeadIn ==
    ASSUME NEW c \in Lists, c # <<>>
    PROVE  Head(c) \in ToSet(c) /\ Head(c) \in Packet /\ Head(c).key \in Keys /\ c[1] = Head(c)
<1>1. Head(c) \in ToSet(c) /\ Head(c) \in Packet
  BY HeadAndTail
<1>2. c[1] = Head(c)
  BY DEF Lists
<1> QED
  BY <1>1, <1>2, Exchanged

LEMMA NoPackets == <<>> \in Lists /\ ToSet(<<>>) = {} /\ OneEach(<<>>)
<1>1. <<>> \in Lists /\ Len(<<>>) = 0
  BY DEF Lists
<1>2. 1..0 = {}
  OBVIOUS
<1> QED
  BY <1>1, <1>2, Members DEF OneEach

LEMMA Filled1 ==
    ASSUME NEW c \in Lists, NEW e \in ToSet(c)
    PROVE  c # <<>>
BY NoPackets

\* Whether packets can be told in order is a question of which they are.
LEMMA SameWindow ==
    ASSUME NEW a \in Lists, NEW b \in Lists, ToSet(a) = ToSet(b)
    PROVE  InWindow(a) <=> InWindow(b)
<1> DEFINE Seqs(c) == {c[j].seq : j \in DOMAIN c}
           Acks(c) == {c[j].ack : j \in DOMAIN c}
<1>1. ASSUME NEW c \in Lists
      PROVE  Seqs(c) = {e.seq : e \in ToSet(c)} /\ Acks(c) = {e.ack : e \in ToSet(c)}
  BY Members
<1>2. Seqs(a) = Seqs(b) /\ Acks(a) = Acks(b)
  BY <1>1
<1>3. a = <<>> <=> b = <<>>
  <2>1. ASSUME NEW c \in Lists PROVE c = <<>> <=> ToSet(c) = {}
    <3>1. ASSUME c # <<>> PROVE ToSet(c) # {}
      BY <3>1, HeadAndTail
    <3>2. ASSUME c = <<>> PROVE ToSet(c) = {}
      BY <3>2 DEF ToSet
    <3> QED
      BY <3>1, <3>2
  <2> QED
    BY <2>1
<1> QED
  BY <1>2, <1>3 DEF InWindow

\* Each packet of a chain stands in one place of it.
LEMMA OneEachIs ==
    ASSUME NEW c \in Lists
    PROVE  OneEach(c) <=> /\ Distinct(c)
                          /\ \A e, d \in ToSet(c) : e.n = d.n => e = d
<1>1. ASSUME OneEach(c)
      PROVE  Distinct(c) /\ \A e, d \in ToSet(c) : e.n = d.n => e = d
  <2>1. ASSUME NEW e \in ToSet(c), NEW d \in ToSet(c), e.n = d.n PROVE e = d
    <3>1. PICK j \in 1..Len(c) : c[j] = e
      BY Members
    <3>2. PICK k \in 1..Len(c) : c[k] = d
      BY Members
    <3> QED
      BY <1>1, <2>1, <3>1, <3>2 DEF OneEach
  <2>2. Distinct(c)
    BY <1>1 DEF OneEach, Distinct
  <2> QED
    BY <2>1, <2>2
<1>2. ASSUME Distinct(c), \A e, d \in ToSet(c) : e.n = d.n => e = d
      PROVE  OneEach(c)
  <2> SUFFICES ASSUME NEW j \in 1..Len(c), NEW k \in 1..Len(c), c[j].n = c[k].n PROVE j = k
    BY DEF OneEach
  <2>1. c[j] = c[k]
    BY <1>2, Members
  <2> QED
    BY <1>2, <2>1 DEF Distinct
<1> QED
  BY <1>1, <1>2

LEMMA SortedOneEach ==
    ASSUME NEW c \in Lists
    PROVE  /\ SortPackets(c) \in Lists /\ ToSet(SortPackets(c)) = ToSet(c)
           /\ OneEach(c) => OneEach(SortPackets(c))
           /\ Ordered(SortPackets(c))
<1>1. SamePackets(c, SortPackets(c))
  BY SortKeepsPackets DEF Lists
<1>2. SortPackets(c) \in Lists /\ ToSet(SortPackets(c)) = ToSet(c)
  BY <1>1 DEF SamePackets
<1>3. OneEach(c) => OneEach(SortPackets(c))
  <2> SUFFICES ASSUME OneEach(c) PROVE OneEach(SortPackets(c))
    OBVIOUS
  <2>1. Distinct(c) /\ \A e, d \in ToSet(c) : e.n = d.n => e = d
    BY OneEachIs
  <2>2. Distinct(SortPackets(c))
    BY <1>1, <2>1, DistinctKept
  <2> QED
    BY <1>2, <2>1, <2>2, OneEachIs
<1>4. Ordered(SortPackets(c))
  <2> SUFFICES ASSUME InWindow(SortPackets(c)) PROVE InOrder(SortPackets(c))
    BY DEF Ordered
  <2>1. InWindow(c)
    BY <1>2, SameWindow
  <2> QED
    BY <2>1, SortPutsInOrder DEF Lists
<1> QED
  BY <1>2, <1>3, <1>4

\* One packet in front of a chain that does not have it.
LEMMA PutInFront ==
    ASSUME NEW c \in Lists, OneEach(c), NEW p \in Packet, \A e \in ToSet(c) : e.n # p.n
    PROVE  LET d == <<p>> \o c
           IN  /\ d \in Lists /\ ToSet(d) = {p} \cup ToSet(c) /\ Head(d) = p /\ d # <<>>
               /\ OneEach(d)
<1> DEFINE u == <<p>>
           d == u \o c
<1>1. u \in Lists /\ Len(u) = 1 /\ ToSet(u) = {p} /\ u[1] = p
  <2>1. u \in Lists /\ Len(u) = 1 /\ u[1] = p
    BY DEF Lists
  <2>2. 1..1 = {1}
    OBVIOUS
  <2>3. \A e : e \in ToSet(u) <=> \E j \in 1..1 : u[j] = e
    BY <2>1, Members
  <2>4. ToSet(u) = {p}
    BY <2>1, <2>2, <2>3
  <2> QED
    BY <2>1, <2>4
<1>2. d \in Lists /\ ToSet(d) = {p} \cup ToSet(c) /\ Len(d) = 1 + Len(c)
  <2> HIDE DEF u
  <2>1. d \in Lists /\ ToSet(d) = ToSet(u) \cup ToSet(c) /\ Len(d) = Len(u) + Len(c)
    BY <1>1, Joining, Zenon
  <2> QED
    BY <1>1, <2>1
<1>3. d # <<>> /\ Head(d) = p
  BY DEF Lists
<1>4. Distinct(d)
  <2>1. p \notin ToSet(c)
    OBVIOUS
  <2>2. IsFiniteSet(ToSet(c)) /\ Cardinality(ToSet(c)) = Len(c) /\ Len(c) \in Nat
    BY OneEachIs, PlacesAndPackets, Members
  <2>3. Cardinality(ToSet(c) \cup {p}) = Len(c) + 1
    BY <2>1, <2>2, FS_AddElement
  <2>4. Cardinality(ToSet(d)) = Len(d)
    <3>1. ToSet(d) = ToSet(c) \cup {p}
      BY <1>2
    <3>2. Len(d) = Len(c) + 1
      BY <1>2, <2>2
    <3> QED
      BY <2>3, <3>1, <3>2
  <2> HIDE DEF d
  <2> QED
    BY <1>2, <2>4, PlacesAndPackets
<1>5. \A x, y \in ToSet(d) : x.n = y.n => x = y
  BY <1>2, OneEachIs
<1>6. OneEach(d)
  <2> HIDE DEF d
  <2> QED
    BY <1>2, <1>4, <1>5, OneEachIs
<1> QED
  BY <1>2, <1>3, <1>6

-----------------------------------------------------------------------------
(* What the passes do to the table.                                        *)

\* The table with c in slot h.
With(N, h, c) == [N EXCEPT ![h] = c]

LEMMA Replaced ==
    ASSUME NEW N \in Tables, NEW h \in AllSlots, NEW c \in Lists
    PROVE  /\ With(N, h, c) \in Tables /\ With(N, h, c)[h] = c
           /\ \A s \in AllSlots : s # h => With(N, h, c)[s] = N[s]
BY DEF Tables, With

\* hash_all_pcap_item: a packet with a number of its own is put before the
\* chain in the slot of its key.
Added(N, sl, p) == With(N, sl[p.key], <<p>> \o N[sl[p.key]])

Addable(N, C, sl, p) ==
    /\ Known(C \cup {p}, sl) /\ \A q \in C : q.n # p.n
    /\ FiledIn(N, C) /\ ChainedIn(N, C, sl) /\ AllOneSided(N, C)

LEMMA AddPacket ==
    ASSUME NEW N \in Tables, NEW C, NEW sl, NEW p \in Packet, Addable(N, C, sl, p),
           NEW M, M = Added(N, sl, p)
    PROVE  /\ M \in Tables
           /\ FiledIn(M, C \cup {p}) /\ ChainedIn(M, C \cup {p}, sl)
           /\ AllOneSided(M, C \cup {p})
<1> DEFINE h == sl[p.key]
           c == N[h]
           d == <<p>> \o c
           D == C \cup {p}
<1>0. /\ h = sl[p.key]
      /\ Known(C \cup {p}, sl) /\ \A q \in C : q.n # p.n
      /\ FiledIn(N, C) /\ ChainedIn(N, C, sl) /\ AllOneSided(N, C)
  BY DEF Addable
<1>1. h \in AllSlots /\ c \in Lists /\ p.key \in Keys /\ sl \in [Keys -> AllSlots]
  BY <1>0, Exchanged DEF Known, Tables
<1>2. \A s \in AllSlots : \A e \in ToSet(N[s]) : e \in C /\ e.n # p.n /\ e.key = Head(N[s]).key
  BY <1>0 DEF AllOneSided, OneSided
<1>3. OneEach(c)
  BY <1>0, <1>1 DEF FiledIn
<1>4. d \in Lists /\ ToSet(d) = {p} \cup ToSet(c) /\ Head(d) = p /\ d # <<>> /\ OneEach(d)
  BY <1>1, <1>2, <1>3, PutInFront
<1>5. M \in Tables /\ M[h] = d /\ \A s \in AllSlots : s # h => M[s] = N[s]
  <2>1. M = With(N, h, d)
    BY DEF Added
  <2> HIDE DEF d, h
  <2>2. /\ With(N, h, d) \in Tables /\ With(N, h, d)[h] = d
        /\ \A s \in AllSlots : s # h => With(N, h, d)[s] = N[s]
    BY <1>1, <1>4, Replaced
  <2> QED
    BY <2>1, <2>2
<1> HIDE DEF d, h
<1>6. /\ M \in Tables /\ M[h] = d
      /\ \A s \in AllSlots : s # h => M[s] = N[s]
      /\ \A s \in AllSlots : \A e : e \in ToSet(M[s]) <=> e \in ToSet(N[s]) \/ (s = h /\ e = p)
  <2>1. /\ M \in Tables /\ M[h] = d
        /\ \A s \in AllSlots : s # h => M[s] = N[s]
    BY <1>5
  <2>2. ASSUME NEW s \in AllSlots, NEW e
        PROVE  e \in ToSet(M[s]) <=> e \in ToSet(N[s]) \/ (s = h /\ e = p)
    <3>1. CASE s = h
      <4>1. ToSet(M[s]) = {p} \cup ToSet(N[s])
        BY <1>4, <2>1, <3>1
      <4> QED
        BY <3>1, <4>1
    <3>2. CASE s # h
      BY <2>1, <3>2
    <3> QED
      BY <3>1, <3>2
  <2> QED
    BY <2>1, <2>2
<1>7. \A s \in AllSlots : \A e \in ToSet(N[s]) : e.key \in Keys /\ sl[e.key] = s
  <2> SUFFICES ASSUME NEW s \in AllSlots, NEW e \in ToSet(N[s])
               PROVE  e.key \in Keys /\ sl[e.key] = s
    OBVIOUS
  <2>1. N[s] \in Lists /\ N[s] # <<>>
    BY Filled1 DEF Tables
  <2>2. sl[Head(N[s]).key] = s /\ e.key = Head(N[s]).key
    BY <1>0, <1>2, <2>1 DEF ChainedIn, AtHome
  <2> QED
    BY <2>1, <2>2, HeadIn
<1>8. \A s \in AllSlots : \A e \in ToSet(M[s]) : e \in D /\ sl[e.key] = s
  <2> SUFFICES ASSUME NEW s \in AllSlots, NEW e \in ToSet(M[s]) PROVE e \in D /\ sl[e.key] = s
    OBVIOUS
  <2>1. CASE e \in ToSet(N[s])
    BY <1>2, <1>7, <2>1
  <2>2. CASE e \notin ToSet(N[s])
    <3>1. s = h /\ e = p
      BY <1>6, <2>2
    <3> QED
      BY <1>0, <3>1
  <2> QED
    BY <2>1, <2>2
<1>9. FiledIn(M, D)
  <2>1. \A s \in AllSlots : OneEach(M[s])
    BY <1>0, <1>4, <1>6 DEF FiledIn
  <2>2. ASSUME NEW s \in AllSlots, NEW t \in AllSlots,
               NEW x \in ToSet(M[s]), NEW y \in ToSet(M[t]), x.n = y.n
        PROVE  s = t
    <3>1. CASE x \in ToSet(N[s]) /\ y \in ToSet(N[t])
      BY <1>0, <2>2, <3>1 DEF FiledIn
    <3>2. CASE ~(x \in ToSet(N[s]) /\ y \in ToSet(N[t]))
      BY <1>2, <1>6, <2>2, <3>2
    <3> QED
      BY <3>1, <3>2
  <2>3. \A s \in AllSlots : \A e \in ToSet(M[s]) : \E q \in D : q.n = e.n /\ q.key = e.key
    BY <1>8
  <2>4. \A q \in D : \E s \in AllSlots : \E e \in ToSet(M[s]) : e.n = q.n
    <3>1. ASSUME NEW q \in C PROVE \E s \in AllSlots : \E e \in ToSet(M[s]) : e.n = q.n
      <4>1. PICK s \in AllSlots : \E e \in ToSet(N[s]) : e.n = q.n
        BY <1>0 DEF FiledIn
      <4> QED
        BY <1>6, <4>1
    <3>2. \E s \in AllSlots : \E e \in ToSet(M[s]) : e.n = p.n
      BY <1>1, <1>6
    <3> QED
      BY <3>1, <3>2
  <2> QED
    BY <2>1, <2>2, <2>3, <2>4 DEF FiledIn
<1>10. AllOneSided(M, D)
  <2> SUFFICES ASSUME NEW s \in AllSlots, NEW e \in ToSet(M[s])
               PROVE  e \in D /\ e.key = Head(M[s]).key
    BY DEF AllOneSided, OneSided
  <2>1. Head(M[s]) \in ToSet(M[s])
    BY <1>6, Filled1, HeadIn DEF Tables
  <2>2. Head(M[s]) \in D /\ e \in D /\ sl[e.key] = sl[Head(M[s]).key]
    BY <1>8, <2>1
  <2> QED
    BY <1>0, <2>2 DEF Known
<1>11. ChainedIn(M, D, sl)
  <2>1. OneChainPerKey(M)
    BY <1>8 DEF OneChainPerKey
  <2>2. ASSUME NEW s \in AllSlots PROVE AtHome(M[s], s, D, sl)
    <3>1. M[s] # <<>> => sl[Head(M[s]).key] = s
      BY <1>6, <1>8, HeadIn DEF Tables
    <3> QED
      BY <1>10, <3>1 DEF AllOneSided, AtHome
  <2> QED
    BY <2>1, <2>2 DEF ChainedIn
<1> QED
  BY <1>6, <1>9, <1>10, <1>11

\* classify_pcap_packets: a chain is sorted.
LEMMA SortChain ==
    ASSUME NEW N \in Tables, NEW C, NEW sl, NEW h \in AllSlots,
           FiledIn(N, C), ChainedIn(N, C, sl), AllOneSided(N, C),
           NEW M, M = With(N, h, SortPackets(N[h]))
    PROVE  /\ M \in Tables
           /\ FiledIn(M, C) /\ ChainedIn(M, C, sl) /\ AllOneSided(M, C)
<1> DEFINE c == SortPackets(N[h])
<1>1. N[h] \in Lists /\ OneEach(N[h])
  BY DEF Tables, FiledIn
<1>2. c \in Lists /\ ToSet(c) = ToSet(N[h]) /\ OneEach(c)
  BY <1>1, SortedOneEach
<1> HIDE DEF c
<1>3. /\ M \in Tables /\ M[h] = c
      /\ \A s \in AllSlots : s # h => M[s] = N[s]
      /\ \A s \in AllSlots : ToSet(M[s]) = ToSet(N[s])
      /\ \A s \in AllSlots : M[s] \in Lists /\ N[s] \in Lists
  <2>1. M = With(N, h, c)
    BY DEF c
  <2>2. M \in Tables /\ M[h] = c /\ \A s \in AllSlots : s # h => M[s] = N[s]
    BY <1>2, <2>1, Replaced
  <2> QED
    BY <1>2, <2>2 DEF Tables
<1>4. FiledIn(M, C)
  <2>1. \A s \in AllSlots : OneEach(M[s])
    BY <1>2, <1>3 DEF FiledIn
  <2> QED
    BY <1>3, <2>1 DEF FiledIn
<1>5. ASSUME NEW s \in AllSlots PROVE M[s] # <<>> => N[s] # <<>> /\ Head(M[s]).key = Head(N[s]).key
  <2> SUFFICES ASSUME M[s] # <<>> PROVE N[s] # <<>> /\ Head(M[s]).key = Head(N[s]).key
    OBVIOUS
  <2>1. Head(M[s]) \in ToSet(N[s])
    BY <1>3, HeadIn
  <2> QED
    BY <1>3, <2>1, Filled1 DEF AllOneSided, OneSided
<1>6. AllOneSided(M, C)
  <2> SUFFICES ASSUME NEW s \in AllSlots, NEW e \in ToSet(M[s])
               PROVE  e \in C /\ e.key = Head(M[s]).key
    BY DEF AllOneSided, OneSided
  <2>1. M[s] # <<>>
    BY <1>3, Filled1
  <2> QED
    BY <1>3, <1>5, <2>1 DEF AllOneSided, OneSided
<1>7. ChainedIn(M, C, sl)
  <2>1. OneChainPerKey(M)
    BY <1>3 DEF ChainedIn, OneChainPerKey
  <2>2. ASSUME NEW s \in AllSlots PROVE AtHome(M[s], s, C, sl)
    BY <1>5, <1>6 DEF ChainedIn, AtHome, AllOneSided
  <2> QED
    BY <2>1, <2>2 DEF ChainedIn
<1> QED
  BY <1>3, <1>4, <1>6, <1>7

-----------------------------------------------------------------------------
(* Joining two chains.                                                     *)

LEMMA ChainsJoined ==
    ASSUME NEW a \in Lists, NEW b \in Lists, OneEach(a), OneEach(b),
           \A e \in ToSet(a), d \in ToSet(b) : e.n # d.n
    PROVE  /\ a \o b \in Lists /\ OneEach(a \o b)
           /\ ToSet(a \o b) = ToSet(a) \cup ToSet(b)
<1> DEFINE c == a \o b
           A == ToSet(a)
           B == ToSet(b)
<1>1. c \in Lists /\ Len(c) = Len(a) + Len(b) /\ ToSet(c) = A \cup B
  BY Joining
<1>2. A \cap B = {}
  BY Members
<1>3. /\ IsFiniteSet(A) /\ Cardinality(A) = Len(a) /\ Len(a) \in Nat
      /\ IsFiniteSet(B) /\ Cardinality(B) = Len(b) /\ Len(b) \in Nat
      /\ \A x, y \in A : x.n = y.n => x = y
      /\ \A x, y \in B : x.n = y.n => x = y
  BY OneEachIs, PlacesAndPackets, Members
<1>4. Cardinality(A \cup B) = Cardinality(A) + Cardinality(B)
  <2> HIDE DEF A, B
  <2>1. Cardinality(A \cup B) = Cardinality(A) + Cardinality(B) - Cardinality(A \cap B)
    BY <1>3, FS_Union
  <2>2. Cardinality(A \cap B) = 0
    BY <1>2, FS_EmptySet
  <2>3. Cardinality(A) \in Nat /\ Cardinality(B) \in Nat
    BY <1>3
  <2> QED
    BY <2>1, <2>2, <2>3
<1>5. Cardinality(ToSet(c)) = Len(c)
  <2> HIDE DEF A, B, c
  <2> QED
    BY <1>1, <1>3, <1>4
<1>6. \A x, y \in ToSet(c) : x.n = y.n => x = y
  BY <1>1, <1>3
<1>7. OneEach(c)
  <2> HIDE DEF c
  <2> QED
    BY <1>1, <1>5, <1>6, OneEachIs, PlacesAndPackets
<1> QED
  BY <1>1, <1>7

\* The packets of a chain in other places.
LEMMA Turned ==
    ASSUME NEW c \in Lists, OneEach(c)
    PROVE  Reverse(c) \in Lists /\ OneEach(Reverse(c)) /\ ToSet(Reverse(c)) = ToSet(c)
<1> DEFINE d == Reverse(c)
           n == Len(c)
<1>1. n \in Nat /\ \A j \in 1..n : c[j] \in Packet /\ c[j] \in ToSet(c)
  BY Members
<1>2. \A j \in 1..n : (n - j) + 1 \in 1..n /\ (n - ((n - j) + 1)) + 1 = j
  <2> HIDE DEF n
  <2> QED
    BY <1>1
<1>3. d = [j \in 1..n |-> c[(n - j) + 1]]
  BY DEF Reverse
<1> HIDE DEF n, d
<1>4. d \in Lists /\ Len(d) = n
  BY <1>1, <1>2, <1>3 DEF Lists
<1>5. \A j \in 1..n : d[j] = c[(n - j) + 1] /\ d[(n - j) + 1] = c[j]
  BY <1>2, <1>3
<1>6. ToSet(d) = ToSet(c)
  <2>1. ToSet(d) \subseteq ToSet(c)
    <3>1. \A j \in 1..Len(d) : \E i \in 1..Len(c) : d[j] = c[i]
      BY <1>2, <1>4, <1>5 DEF n
    <3> QED
      BY <1>4, <3>1, Within
  <2>2. ToSet(c) \subseteq ToSet(d)
    <3>1. \A j \in 1..Len(c) : \E i \in 1..Len(d) : c[j] = d[i]
      BY <1>2, <1>4, <1>5 DEF n
    <3> QED
      BY <1>4, <3>1, Within
  <2> QED
    BY <2>1, <2>2
<1>7. SamePackets(c, d)
  BY <1>4, <1>6 DEF SamePackets, n
<1>8. OneEach(d)
  <2>1. Distinct(d)
    BY <1>7, DistinctKept, OneEachIs
  <2> QED
    BY <1>4, <1>6, <2>1, OneEachIs
<1> QED
  BY <1>4, <1>6, <1>8 DEF d

\* The headers of some packets of a chain are exchanged: those with the keys
\* in K.
Turn(e, K) == IF e.key \in K THEN Exchange(e) ELSE e
TurnedIn(c, K) == [j \in DOMAIN c |-> Turn(c[j], K)]

LEMMA TurnedPacket ==
    ASSUME NEW e \in Packet, NEW K
    PROVE  /\ Turn(e, K) \in Packet /\ Turn(e, K).n = e.n /\ Turn(e, K).key = e.key
           /\ Turn(e, K) = e \/ Turn(e, K) = Exchange(e)
BY Exchanged DEF Turn

LEMMA HeadersTurned ==
    ASSUME NEW c \in Lists, OneEach(c), NEW K
    PROVE  /\ TurnedIn(c, K) \in Lists /\ OneEach(TurnedIn(c, K))
           /\ ToSet(TurnedIn(c, K)) = {Turn(e, K) : e \in ToSet(c)}
<1> DEFINE d == TurnedIn(c, K)
<1>1. DOMAIN c = 1..Len(c) /\ Len(c) \in Nat /\ \A j \in 1..Len(c) : c[j] \in Packet
  BY Members
<1>2. /\ d \in Lists /\ Len(d) = Len(c)
      /\ \A j \in 1..Len(c) : d[j] = Turn(c[j], K)
  BY <1>1, TurnedPacket DEF Lists, TurnedIn
<1> HIDE DEF d
<1>3. OneEach(d)
  BY <1>1, <1>2, TurnedPacket DEF OneEach
<1>4. \A e : e \in ToSet(d) <=> \E j \in 1..Len(c) : Turn(c[j], K) = e
  BY <1>2, Members
<1>5. ToSet(d) = {Turn(e, K) : e \in ToSet(c)}
  <2>1. ASSUME NEW e \in ToSet(d) PROVE \E x \in ToSet(c) : e = Turn(x, K)
    BY <1>4, <2>1, Members
  <2>2. ASSUME NEW x \in ToSet(c) PROVE Turn(x, K) \in ToSet(d)
    <3>1. PICK j \in 1..Len(c) : c[j] = x
      BY Members
    <3> QED
      BY <1>4, <3>1
  <2> QED
    BY <2>1, <2>2
<1> QED
  BY <1>2, <1>3, <1>5 DEF d

\* combine_tcp_nodes up to the recovery: all headers of `added' are exchanged.
LEMMA JoinedKeeps ==
    ASSUME NEW a \in Lists, NEW b \in Lists, OneEach(a), OneEach(b),
           \A e \in ToSet(a), d \in ToSet(b) : e.n # d.n
    PROVE  /\ Joined(a, b) \in Lists /\ OneEach(Joined(a, b)) /\ Ordered(Joined(a, b))
           /\ ToSet(Joined(a, b)) = ToSet(a) \cup {Exchange(e) : e \in ToSet(b)}
<1> DEFINE x == [j \in DOMAIN b |-> Exchange(b[j])]
           y == Reverse(x)
           z == y \o a
<1>1. x \in Lists /\ OneEach(x) /\ ToSet(x) = {Exchange(e) : e \in ToSet(b)}
  <2>1. \A e \in Packet : Turn(e, Keys) = Exchange(e)
    BY Exchanged DEF Turn
  <2>2. x = TurnedIn(b, Keys)
    BY <2>1, Members DEF TurnedIn
  <2> HIDE DEF x
  <2>3. x \in Lists /\ OneEach(x) /\ ToSet(x) = {Turn(e, Keys) : e \in ToSet(b)}
    BY <2>2, HeadersTurned
  <2> QED
    BY <2>1, <2>3, Members
<1> HIDE DEF x
<1>2. y \in Lists /\ OneEach(y) /\ ToSet(y) = {Exchange(e) : e \in ToSet(b)}
  BY <1>1, Turned
<1> HIDE DEF y
<1>3. z \in Lists /\ OneEach(z) /\ ToSet(z) = ToSet(y) \cup ToSet(a)
  <2>1. \A e \in ToSet(y), d \in ToSet(a) : e.n # d.n
    BY <1>2, Members, Exchanged
  <2> QED
    BY <1>2, <2>1, ChainsJoined
<1> HIDE DEF z
<1>4. Joined(a, b) = SortPackets(z)
  BY DEF Joined, x, y, z
<1>5. /\ SortPackets(z) \in Lists /\ ToSet(SortPackets(z)) = ToSet(z)
      /\ OneEach(SortPackets(z)) /\ Ordered(SortPackets(z))
  BY <1>3, SortedOneEach
<1> QED
  BY <1>2, <1>3, <1>4, <1>5

-----------------------------------------------------------------------------
(* The joined chain takes the place of the two.                            *)

\* The same packets, but for the numbers in their headers.
Recasts(c, A) ==
    /\ \A e \in ToSet(c) : \E d \in A : d.n = e.n /\ d.key = e.key
    /\ \A d \in A : \E e \in ToSet(c) : d.n = e.n /\ d.key = e.key

\* Slots i and j are emptied, and c is put in one of them.
Merged(N, M, i, j, h, c) ==
    /\ M \in Tables /\ h \in {i, j} /\ i \in AllSlots /\ j \in AllSlots
    /\ M[h] = c
    /\ \A s \in AllSlots : /\ s \in {i, j} /\ s # h => M[s] = <<>>
                           /\ s \notin {i, j} => M[s] = N[s]

LEMMA MergedFrom ==
    ASSUME NEW N \in Tables, NEW M, NEW i, NEW j, NEW h, NEW c \in Lists,
           Merged(N, M, i, j, h, c), Recasts(c, ToSet(N[i]) \cup ToSet(N[j])),
           NEW s \in AllSlots, NEW e \in ToSet(M[s])
    PROVE  \E r \in AllSlots : \E d \in ToSet(N[r]) :
              /\ d.n = e.n /\ d.key = e.key
              /\ (r \in {i, j} /\ s = h) \/ (r \notin {i, j} /\ r = s /\ d = e)
<1>1. CASE s = h
  <2>1. e \in ToSet(c)
    BY <1>1 DEF Merged
  <2>2. PICK d \in ToSet(N[i]) \cup ToSet(N[j]) : d.n = e.n /\ d.key = e.key
    BY <2>1 DEF Recasts
  <2>3. i \in AllSlots /\ j \in AllSlots
    BY DEF Merged
  <2>4. CASE d \in ToSet(N[i])
    BY <1>1, <2>2, <2>3, <2>4
  <2>5. CASE d \in ToSet(N[j])
    BY <1>1, <2>2, <2>3, <2>5
  <2> QED
    BY <2>4, <2>5
<1>2. CASE s # h
  <2>1. s \notin {i, j}
    BY <1>2, NoPackets DEF Merged
  <2>2. e \in ToSet(N[s])
    BY <2>1 DEF Merged
  <2> QED
    BY <2>1, <2>2
<1> QED
  BY <1>1, <1>2

\* Packets of one kind that were in one chain still are.
LEMMA StillTogether ==
    ASSUME NEW N \in Tables, NEW M, NEW i, NEW j, NEW h, NEW c \in Lists,
           Merged(N, M, i, j, h, c), Recasts(c, ToSet(N[i]) \cup ToSet(N[j])),
           NEW s \in AllSlots, NEW t \in AllSlots, NEW x \in ToSet(M[s]), NEW y \in ToSet(M[t])
    PROVE  /\ (\E C : FiledIn(N, C)) => (x.n = y.n => s = t)
           /\ OneChainPerKey(N) => (x.key = y.key => s = t)
<1>1. PICK r \in AllSlots : \E d \in ToSet(N[r]) :
              /\ d.n = x.n /\ d.key = x.key
              /\ (r \in {i, j} /\ s = h) \/ (r \notin {i, j} /\ r = s /\ d = x)
  BY MergedFrom
<1>2. PICK d \in ToSet(N[r]) :
              /\ d.n = x.n /\ d.key = x.key
              /\ (r \in {i, j} /\ s = h) \/ (r \notin {i, j} /\ r = s /\ d = x)
  BY <1>1
<1>3. PICK q \in AllSlots : \E b \in ToSet(N[q]) :
              /\ b.n = y.n /\ b.key = y.key
              /\ (q \in {i, j} /\ t = h) \/ (q \notin {i, j} /\ q = t /\ b = y)
  BY MergedFrom
<1>4. PICK b \in ToSet(N[q]) :
              /\ b.n = y.n /\ b.key = y.key
              /\ (q \in {i, j} /\ t = h) \/ (q \notin {i, j} /\ q = t /\ b = y)
  BY <1>3
<1>5. r = q => s = t
  BY <1>2, <1>4
<1> QED
  BY <1>2, <1>4, <1>5 DEF FiledIn, OneChainPerKey

\* combine_tcp_nodes keeps the packets and the rules of the table.
LEMMA JoinChains ==
    ASSUME NEW N \in Tables, NEW M, NEW C, NEW sl, NEW i, NEW j, NEW h, NEW c \in Lists,
           FiledIn(N, C), ChainedIn(N, C, sl),
           Merged(N, M, i, j, h, c), Recasts(c, ToSet(N[i]) \cup ToSet(N[j])),
           OneEach(c), TwoSided(c, C), sl[Head(c).key] = h
    PROVE  FiledIn(M, C) /\ ChainedIn(M, C, sl)
<1>1. FiledIn(M, C)
  <2>1. ASSUME NEW s \in AllSlots PROVE OneEach(M[s])
    BY NoPackets DEF FiledIn, Merged
  <2>2. ASSUME NEW s \in AllSlots, NEW t \in AllSlots,
               NEW x \in ToSet(M[s]), NEW y \in ToSet(M[t]), x.n = y.n
        PROVE  s = t
    BY <2>2, StillTogether
  <2>3. ASSUME NEW s \in AllSlots, NEW e \in ToSet(M[s])
        PROVE  \E p \in C : p.n = e.n /\ p.key = e.key
    <3>1. PICK r \in AllSlots : \E d \in ToSet(N[r]) : d.n = e.n /\ d.key = e.key
      BY MergedFrom
    <3>2. PICK d \in ToSet(N[r]) : d.n = e.n /\ d.key = e.key
      BY <3>1
    <3>3. \E p \in C : p.n = d.n /\ p.key = d.key
      BY DEF FiledIn
    <3> QED
      BY <3>2, <3>3
  <2>4. ASSUME NEW p \in C PROVE \E s \in AllSlots : \E e \in ToSet(M[s]) : e.n = p.n
    <3>1. PICK s \in AllSlots : \E e \in ToSet(N[s]) : e.n = p.n
      BY DEF FiledIn
    <3>2. PICK e \in ToSet(N[s]) : e.n = p.n
      BY <3>1
    <3>3. CASE s \in {i, j}
      <4>1. \E x \in ToSet(c) : e.n = x.n
        BY <3>3 DEF Recasts
      <4>2. h \in AllSlots /\ M[h] = c
        BY DEF Merged
      <4> QED
        BY <3>2, <4>1, <4>2
    <3>4. CASE s \notin {i, j}
      BY <3>2, <3>4 DEF Merged
    <3> QED
      BY <3>3, <3>4
  <2> QED
    BY <2>1, <2>2, <2>3, <2>4 DEF FiledIn
<1>2. OneChainPerKey(M)
  <2>1. OneChainPerKey(N)
    BY DEF ChainedIn
  <2> QED
    BY <2>1, StillTogether DEF OneChainPerKey
<1>3. ASSUME NEW s \in AllSlots PROVE AtHome(M[s], s, C, sl)
  <2>1. CASE s = h
    BY <2>1 DEF Merged, AtHome
  <2>2. CASE s # h /\ s \in {i, j}
    BY <2>2 DEF Merged, AtHome
  <2>3. CASE s \notin {i, j}
    BY <2>3 DEF Merged, ChainedIn
  <2> QED
    BY <2>1, <2>2, <2>3
<1> QED
  BY <1>1, <1>2, <1>3 DEF ChainedIn

\* After that no chain but those behind the walk is to be joined with it.
LEMMA JoinedStayPaired ==
    ASSUME NEW N \in Tables, NEW M, NEW i, NEW j, NEW h, NEW c \in Lists,
           NEW m \in Nat, NEW n \in Nat,
           OneChainPerKey(N), Merged(N, M, i, j, h, c), Opposite(N[i], N[j]), Opposite(N[j], N[i]),
           c # <<>>, Head(c).key \in {Head(N[i]).key, Head(N[j]).key},
           \A s \in AllSlots : s < n /\ N[s] # <<>> => s < m \/ s \in {i, j},
           PairedBelow(N, m)
    PROVE  PairedBelow(M, n)
<1> SUFFICES ASSUME NEW s \in AllSlots, NEW t \in AllSlots, s < n \/ t < n,
                    Opposite(M[s], M[t]), s # t
             PROVE  FALSE
  BY DEF PairedBelow
<1>1. /\ N[i] \in Lists /\ N[j] \in Lists /\ N[i] # <<>> /\ N[j] # <<>>
      /\ i \in AllSlots /\ j \in AllSlots
      /\ Head(N[i]).key = Reversed(Head(N[j]).key) /\ Head(N[j]).key = Reversed(Head(N[i]).key)
  BY DEF Merged, Tables, Opposite
<1>2. M[s] # <<>> /\ M[t] # <<>> /\ Head(M[s]).key = Reversed(Head(M[t]).key)
  BY DEF Opposite
<1>3. ASSUME NEW r \in AllSlots, r \notin {i, j}, N[r] # <<>>
      PROVE  Head(N[r]).key \notin {Head(N[i]).key, Head(N[j]).key}
  <2>1. Head(N[r]) \in ToSet(N[r]) /\ Head(N[i]) \in ToSet(N[i]) /\ Head(N[j]) \in ToSet(N[j])
    BY <1>1, <1>3, HeadIn DEF Tables
  <2> QED
    BY <1>1, <1>3, <2>1 DEF OneChainPerKey
<1>4. CASE s = h
  <2>1. t \notin {i, j} /\ M[t] = N[t] /\ M[s] = c
    BY <1>2, <1>4 DEF Merged
  <2>2. Head(c).key = Reversed(Head(N[t]).key) /\ N[t] # <<>> /\ N[t] \in Lists
    BY <1>2, <2>1 DEF Tables
  <2>3. Head(N[t]).key = Reversed(Head(c).key)
    BY <2>2, HeadIn, KeysAssumption
  <2>4. Reversed(Head(c).key) \in {Head(N[i]).key, Head(N[j]).key}
    BY <1>1
  <2> QED
    BY <1>3, <2>1, <2>2, <2>3, <2>4
<1>5. CASE t = h
  <2>1. s \notin {i, j} /\ M[s] = N[s] /\ M[t] = c
    BY <1>2, <1>5 DEF Merged
  <2>2. Head(N[s]).key = Reversed(Head(c).key)
    BY <1>2, <2>1
  <2>3. Reversed(Head(c).key) \in {Head(N[i]).key, Head(N[j]).key}
    BY <1>1
  <2> QED
    BY <1>2, <1>3, <2>1, <2>2, <2>3
<1>6. CASE s # h /\ t # h
  <2>1. s \notin {i, j} /\ t \notin {i, j} /\ M[s] = N[s] /\ M[t] = N[t]
    BY <1>2, <1>6 DEF Merged
  <2>2. s < m \/ t < m
    BY <1>2, <2>1
  <2>3. Opposite(N[s], N[t])
    BY <2>1
  <2> QED
    BY <2>2, <2>3 DEF PairedBelow
<1> QED
  BY <1>4, <1>5, <1>6

\* The joined chain after the recovery: one direction's headers stand as they
\* were, those of the other were exchanged twice, or all were once.
ToJoin(a, b, C) ==
    /\ OneEach(a) /\ OneEach(b)
    /\ \A e \in ToSet(a), d \in ToSet(b) : e.n # d.n
    /\ C \subseteq Packet /\ OneSided(a, C) /\ OneSided(b, C)
    /\ Opposite(a, b) /\ Opposite(b, a) /\ Head(a).key # Head(b).key

Rejoins(a, b, C, k, c) ==
    /\ ToJoin(a, b, C) /\ k \in {Head(a).key, Head(b).key}
    /\ c = TurnedIn(Joined(a, b), {k})

LEMMA RecoveredKeeps ==
    ASSUME NEW a \in Lists, NEW b \in Lists, NEW C, NEW k, NEW c, Rejoins(a, b, C, k, c)
    PROVE  /\ c \in Lists /\ OneEach(c) /\ TwoSided(c, C) /\ c # <<>>
           /\ Recasts(c, ToSet(a) \cup ToSet(b))
           /\ Head(c).key \in {Head(a).key, Head(b).key}
           /\ k = Head(b).key => ToSet(c) \subseteq C
           /\ k = Head(a).key => \A e \in ToSet(c) : Exchange(e) \in C
<1> DEFINE ka == Head(a).key
           kb == Head(b).key
           u == Joined(a, b)
<1>0. ToJoin(a, b, C) /\ k \in {ka, kb} /\ c = TurnedIn(u, {k})
  BY DEF Rejoins
<1>1. /\ u \in Lists /\ OneEach(u)
      /\ ToSet(u) = ToSet(a) \cup {Exchange(e) : e \in ToSet(b)}
  BY <1>0, JoinedKeeps DEF ToJoin
<1>2. a # <<>> /\ b # <<>> /\ ka = Reversed(kb) /\ kb = Reversed(ka) /\ ka # kb
  BY <1>0 DEF Opposite, ToJoin
<1>3. /\ \A e \in ToSet(a) : e \in Packet /\ e \in C /\ e.key = ka
      /\ \A e \in ToSet(b) : e \in Packet /\ e \in C /\ e.key = kb
  BY <1>0 DEF OneSided, ToJoin
<1>4. c = TurnedIn(u, {k})
  BY <1>0
<1> HIDE DEF u, ka, kb
<1>5. c \in Lists /\ OneEach(c) /\ ToSet(c) = {Turn(e, {k}) : e \in ToSet(u)}
  <2>1. LET d == TurnedIn(u, {k})
        IN  d \in Lists /\ OneEach(d) /\ ToSet(d) = {Turn(e, {k}) : e \in ToSet(u)}
    BY <1>1, HeadersTurned
  <2> QED
    BY <1>4, <2>1
<1>6. \A e \in ToSet(a) : Turn(e, {k}) \in ToSet(c)
  BY <1>1, <1>5
<1>7. \A e \in ToSet(b) : Turn(Exchange(e), {k}) \in ToSet(c)
  BY <1>1, <1>5
<1>8. ASSUME NEW x \in ToSet(c)
      PROVE  \/ \E e \in ToSet(a) : x = Turn(e, {k})
             \/ \E e \in ToSet(b) : x = Turn(Exchange(e), {k})
  BY <1>1, <1>5
<1>9. ASSUME NEW e \in Packet
      PROVE  /\ Turn(e, {k}).n = e.n /\ Turn(e, {k}).key = e.key
             /\ Turn(Exchange(e), {k}).n = e.n /\ Turn(Exchange(e), {k}).key = e.key
  BY Exchanged, TurnedPacket
<1>10. Recasts(c, ToSet(a) \cup ToSet(b))
  <2>1. ASSUME NEW x \in ToSet(c)
        PROVE  \E d \in ToSet(a) \cup ToSet(b) : d.n = x.n /\ d.key = x.key
    <3>1. ASSUME NEW e \in ToSet(a), x = Turn(e, {k})
          PROVE  \E d \in ToSet(a) \cup ToSet(b) : d.n = x.n /\ d.key = x.key
      BY <1>3, <1>9, <3>1
    <3>2. ASSUME NEW e \in ToSet(b), x = Turn(Exchange(e), {k})
          PROVE  \E d \in ToSet(a) \cup ToSet(b) : d.n = x.n /\ d.key = x.key
      BY <1>3, <1>9, <3>2
    <3> QED
      BY <1>8, <3>1, <3>2
  <2>2. ASSUME NEW d \in ToSet(a) \cup ToSet(b)
        PROVE  \E x \in ToSet(c) : d.n = x.n /\ d.key = x.key
    <3>1. CASE d \in ToSet(a)
      BY <1>3, <1>6, <1>9, <3>1
    <3>2. CASE d \in ToSet(b)
      BY <1>3, <1>7, <1>9, <3>2
    <3> QED
      BY <3>1, <3>2
  <2> QED
    BY <2>1, <2>2 DEF Recasts
<1>11. /\ Head(a) \in ToSet(a) /\ Head(b) \in ToSet(b)
  BY <1>2, HeadIn
<1>12. c # <<>>
  BY <1>5, <1>6, <1>11, Filled1
<1>13. \A x \in ToSet(c) : x.key \in {ka, kb}
  BY <1>3, <1>8, <1>9
<1>14. Head(c).key \in {ka, kb}
  BY <1>5, <1>12, <1>13, HeadIn
<1>15. \E x \in ToSet(c) : x.key = Reversed(Head(c).key)
  <2>1. \E x \in ToSet(c) : x.key = ka
    <3>1. \E x \in ToSet(c) : Head(a).key = x.key
      BY <1>10, <1>11 DEF Recasts
    <3> QED
      BY <3>1 DEF ka
  <2>2. \E x \in ToSet(c) : x.key = kb
    <3>1. \E x \in ToSet(c) : Head(b).key = x.key
      BY <1>10, <1>11 DEF Recasts
    <3> QED
      BY <3>1 DEF kb
  <2> QED
    BY <1>2, <1>14, <2>1, <2>2
<1>16. \A x \in ToSet(c) : x.key \in {Head(c).key, Reversed(Head(c).key)}
  BY <1>2, <1>13, <1>14
<1>17. ASSUME k = kb PROVE ToSet(c) \subseteq C
  <2>1. \A e \in ToSet(a) : Turn(e, {k}) = e
    BY <1>2, <1>3, <1>17 DEF Turn
  <2>2. \A e \in ToSet(b) : Turn(Exchange(e), {k}) = e
    BY <1>3, <1>17, Exchanged DEF Turn
  <2> QED
    BY <1>3, <1>8, <2>1, <2>2, SMTT(20)
<1>18. ASSUME k = ka PROVE \A x \in ToSet(c) : Exchange(x) \in C
  <2>1. \A e \in ToSet(a) : Turn(e, {k}) = Exchange(e)
    BY <1>3, <1>18 DEF Turn
  <2>2. \A e \in ToSet(b) : Turn(Exchange(e), {k}) = Exchange(e)
    BY <1>2, <1>3, <1>18, Exchanged DEF Turn
  <2> SUFFICES ASSUME NEW x \in ToSet(c) PROVE Exchange(x) \in C
    OBVIOUS
  <2>3. PICK e \in ToSet(a) \cup ToSet(b) : x = Exchange(e)
    BY <1>8, <2>1, <2>2
  <2> QED
    BY <1>3, <2>3, Exchanged
<1>19. k = ka \/ k = kb
  BY <1>0
<1>20. TwoSided(c, C)
  BY <1>15, <1>16, <1>17, <1>18, <1>19 DEF TwoSided
<1> QED
  BY <1>5, <1>10, <1>12, <1>14, <1>17, <1>18, <1>20 DEF ka, kb

-----------------------------------------------------------------------------
(* The walk over the chains.                                               *)

\* hashtbl_next returns the first filled slot at or behind nindex.
LEMMA WalkPlace ==
    ASSUME TableTypes
    PROVE  /\ cindex \in Nat
           /\ cindex = Size \/ (cindex \in AllSlots /\ nodes[cindex] # <<>> /\ nindex <= cindex)
           /\ \A s \in AllSlots : nindex <= s /\ nodes[s] # <<>> => cindex <= s
<1> DEFINE S == {s \in nindex..(Size - 1) : nodes[s] # <<>>} \cup {Size}
<1>1. Size \in Nat \ {0} /\ nindex \in Nat
  BY SlotsAssumption DEF TableTypes
<1>2. S \in SUBSET Nat /\ S # {}
  BY <1>1
<1>3. cindex \in S /\ \A s \in S : cindex <= s
  <2>1. cindex = Min(S)
    BY DEF cindex, FirstFilled
  <2> HIDE DEF S, cindex
  <2> QED
    BY <1>2, <2>1, MinIsLeast
<1> HIDE DEF cindex
<1> QED
  BY <1>1, <1>2, <1>3 DEF AllSlots

\* The walk goes on at a filled slot below the last one.
LEMMA WalkStands ==
    ASSUME TableTypes, cindex + 1 < Size
    PROVE  /\ cindex \in AllSlots /\ cindex \in Nat /\ nodes[cindex] # <<>> /\ nindex <= cindex
           /\ nodes[cindex] \in Lists
           /\ \A s \in AllSlots : s < cindex + 1 /\ nodes[s] # <<>> => s < nindex \/ s = cindex
<1>1. Size \in Nat /\ nindex \in Nat
  BY SlotsAssumption DEF TableTypes
<1>2. cindex \in Nat /\ cindex # Size
  BY <1>1, WalkPlace
<1>3. /\ cindex \in AllSlots /\ nodes[cindex] # <<>> /\ nindex <= cindex
      /\ \A s \in AllSlots : nindex <= s /\ nodes[s] # <<>> => cindex <= s
  BY <1>2, WalkPlace
<1>4. \A s \in AllSlots : s \in Nat
  BY <1>1 DEF AllSlots
<1> HIDE DEF cindex
<1>5. \A s \in AllSlots : s < cindex + 1 /\ nodes[s] # <<>> => s < nindex \/ s = cindex
  BY <1>1, <1>2, <1>3, <1>4
<1> QED
  BY <1>2, <1>3, <1>5 DEF TableTypes, Tables

\* The walk ends when only the last slot may still be filled.
LEMMA WalkEnds ==
    ASSUME TableTypes, cindex + 1 >= Size, NEW s \in AllSlots, nodes[s] # <<>>
    PROVE  s < nindex \/ s = Size - 1
<1>1. Size \in Nat /\ nindex \in Nat /\ s \in Nat /\ s <= Size - 1
  BY SlotsAssumption DEF TableTypes, AllSlots
<1>2. cindex \in Nat /\ (nindex <= s => cindex <= s)
  BY WalkPlace
<1> HIDE DEF cindex
<1> QED
  BY <1>1, <1>2

LEMMA PassAfter ==
    /\ pc = "classify" => NextPass = "dump"
    /\ pc = "dump" => NextPass = "tidy"
    /\ pc = "tidy" => NextPass = "write"
    /\ pc = "write" => NextPass = "end"
<1> DEFINE I == {j \in 1..Len(Passes) : Passes[j] = pc}
<1>1. /\ Len(Passes) = 6 /\ 1..6 = {1, 2, 3, 4, 5, 6}
      /\ Passes[1] = "hash" /\ Passes[2] = "classify" /\ Passes[3] = "dump"
      /\ Passes[4] = "tidy" /\ Passes[5] = "write" /\ Passes[6] = "end"
  BY DEF Passes
<1>2. NextPass = Passes[(IF I # {} THEN Min(I) ELSE 0) + 1]
  BY DEF NextPass, SelectInSeq
<1>3. ASSUME NEW n \in 1..6, Passes[n] = pc PROVE NextPass = Passes[n + 1]
  <2>1. I = {n}
    BY <1>1, <1>3
  <2>2. I \in SUBSET Nat /\ I # {}
    BY <1>3, <2>1
  <2> HIDE DEF I
  <2>3. Min(I) \in I
    BY <2>2, MinIsLeast
  <2> QED
    BY <1>2, <2>1, <2>3
<1> QED
  BY <1>1, <1>3

-----------------------------------------------------------------------------
(* The invariant holds.                                                    *)

ReadUpTo(n) == {capture[j] : j \in {l \in 1..n : IsTcp(capture[l])}}

LEMMA ReadIsKnown ==
    ASSUME CaptureTypes, NEW n \in Nat, n <= Len(capture)
    PROVE  Known(ReadUpTo(n), slot)
<1> DEFINE L == Len(capture)
<1>1. /\ L \in Nat /\ DOMAIN capture = 1..L
      /\ \A j \in 1..L : capture[j] \in Packet \cup {Other}
  BY DEF CaptureTypes
<1>2. n <= L
  OBVIOUS
<1> HIDE DEF L
<1>3. \A j \in 1..n : j \in 1..L
  BY <1>1, <1>2
<1>4. ASSUME NEW p \in ReadUpTo(n) PROVE p \in Packet /\ \E j \in TcpAt : p = capture[j]
  <2>1. PICK j \in 1..n : IsTcp(capture[j]) /\ p = capture[j]
    BY DEF ReadUpTo
  <2> QED
    BY <1>1, <1>3, <2>1 DEF IsTcp, TcpAt
<1> QED
  BY <1>4 DEF CaptureTypes, Known

LEMMA CapturedKnown ==
    CaptureTypes /\ TableTypes => Captured = ReadUpTo(read) /\ Known(Captured, slot)
<1> SUFFICES ASSUME CaptureTypes, TableTypes
             PROVE  Captured = ReadUpTo(read) /\ Known(Captured, slot)
  OBVIOUS
<1>1. Captured = ReadUpTo(read)
  BY DEF Captured, ReadUpTo
<1>2. read \in Nat /\ read <= Len(capture)
  BY DEF TableTypes
<1> QED
  BY <1>1, <1>2, ReadIsKnown

\* The parts of the invariant in the next state.
LEMMA NextFiled ==
    ASSUME NEW M, NEW D, nodes' = M, Captured' = D, FiledIn(M, D)
    PROVE  FiledIn(nodes, Captured)'
BY DEF FiledIn, OneEach

LEMMA NextChained ==
    ASSUME NEW M, NEW D, nodes' = M, Captured' = D, slot' = slot, ChainedIn(M, D, slot)
    PROVE  ChainedIn(nodes, Captured, slot)'
BY DEF ChainedIn, OneChainPerKey, AtHome, OneSided, TwoSided

LEMMA NextOneSided ==
    ASSUME NEW M, NEW D, nodes' = M, Captured' = D, AllOneSided(M, D)
    PROVE  AllOneSided(nodes, Captured)'
BY DEF AllOneSided, OneSided

LEMMA NextPaired ==
    ASSUME NEW M, NEW n, nodes' = M, PairedBelow(M, n)
    PROVE  /\ nindex' = n => PairedBelow(nodes, nindex)'
           /\ Size = n => PairedBelow(nodes, Size)'
BY DEF PairedBelow, Opposite

LEMMA CaptureStays ==
    CaptureTypes /\ capture' = capture /\ slot' = slot => CaptureTypes'
BY DEF CaptureTypes, TcpAt

LEMMA CapturedStays == capture' = capture /\ read' = read => Captured' = Captured
BY DEF Captured

LEMMA PcapsStay == PcapsAreFlows /\ pcaps' = pcaps /\ Captured' = Captured => PcapsAreFlows'
BY DEF PcapsAreFlows

LEMMA Initially == Init => IInv
<1> SUFFICES ASSUME Init PROVE IInv
  OBVIOUS
<1>1. Size \in Nat \ {0} /\ slot \in [Keys -> AllSlots]
  BY SlotsAssumption DEF Init, AllSlots
<1>2. CaptureTypes
  <2>1. capture \in Seq(Packet \cup {Other})
    BY CapturesAssumption DEF Init
  <2>2. \A j, l \in TcpAt : capture[j].n = capture[l].n => j = l
    BY CapturesAssumption DEF Init, TcpAt
  <2>3. \A j, l \in TcpAt : slot[capture[j].key] = slot[capture[l].key] =>
                              capture[j].key = capture[l].key
    BY DEF Init, TcpAt
  <2> QED
    BY <1>1, <2>1, <2>2, <2>3 DEF CaptureTypes
<1>3. /\ nodes = [s \in AllSlots |-> <<>>] /\ pc = "hash" /\ pcaps = {} /\ nindex = 0 /\ read = 0
  BY DEF Init, AllSlots
<1>4. nodes \in Tables /\ \A s \in AllSlots : nodes[s] = <<>> /\ ToSet(nodes[s]) = {}
  BY <1>3, NoPackets DEF Tables
<1>5. TableTypes
  <2>1. read <= Len(capture)
    BY <1>2, <1>3 DEF CaptureTypes
  <2> QED
    BY <1>3, <1>4, <2>1 DEF TableTypes, Phases
<1>6. Captured = {}
  <2>1. 1..read = {}
    BY <1>3
  <2> QED
    BY <2>1 DEF Captured
<1>7. FiledIn(nodes, Captured)
  BY <1>4, <1>6, NoPackets DEF FiledIn
<1>8. ChainedIn(nodes, Captured, slot)
  BY <1>4 DEF ChainedIn, OneChainPerKey, AtHome
<1>9. AllOneSided(nodes, Captured)
  BY <1>4 DEF AllOneSided, OneSided
<1> QED
  BY <1>2, <1>3, <1>5, <1>7, <1>8, <1>9 DEF IInv, Phased, PcapsAreFlows

\* What every action but HashPacket leaves as it is.
LEMMA Unchanging ==
    ASSUME IInv, capture' = capture, slot' = slot, read' = read
    PROVE  /\ CaptureTypes' /\ Captured' = Captured
           /\ pcaps' = pcaps => PcapsAreFlows'
           /\ nodes' = nodes => /\ FiledIn(nodes, Captured)'
                                /\ ChainedIn(nodes, Captured, slot)'
                                /\ AllOneSided(nodes, Captured) => AllOneSided(nodes, Captured)'
<1>1. CaptureTypes' /\ Captured' = Captured
  BY CaptureStays, CapturedStays DEF IInv
<1>2. pcaps' = pcaps => PcapsAreFlows'
  BY <1>1, PcapsStay DEF IInv
<1>3. ASSUME nodes' = nodes
      PROVE  /\ FiledIn(nodes, Captured)'
             /\ ChainedIn(nodes, Captured, slot)'
             /\ AllOneSided(nodes, Captured) => AllOneSided(nodes, Captured)'
  BY <1>1, <1>3, NextFiled, NextChained, NextOneSided DEF IInv
<1> QED
  BY <1>1, <1>2, <1>3

LEMMA HashPacketKeeps == IInv /\ HashPacket => IInv'
<1> SUFFICES ASSUME IInv, HashPacket PROVE IInv'
  OBVIOUS
<1> DEFINE p == capture[read + 1]
<1>1. /\ CaptureTypes /\ TableTypes /\ read \in Nat /\ read < Len(capture) /\ pc = "hash"
      /\ AllOneSided(nodes, Captured) /\ nodes \in Tables /\ nindex = 0 /\ pcaps = {}
      /\ FiledIn(nodes, Captured) /\ ChainedIn(nodes, Captured, slot)
  BY DEF IInv, HashPacket, TableTypes, Phased
<1>2. /\ capture' = capture /\ read' = read + 1 /\ slot' = slot /\ nindex' = nindex
      /\ pcaps' = pcaps /\ pc' = pc
  BY DEF HashPacket
<1>3. CaptureTypes'
  BY <1>1, <1>2, CaptureStays
<1>4. /\ read + 1 \in Nat /\ read + 1 <= Len(capture)
      /\ capture \in Seq(Packet \cup {Other}) /\ read + 1 \in DOMAIN capture
  <2>1. capture \in Seq(Packet \cup {Other})
    BY <1>1 DEF CaptureTypes
  <2> QED
    BY <1>1, <2>1
<1>5. Known(ReadUpTo(read + 1), slot) /\ Captured = ReadUpTo(read)
  BY <1>1, <1>4, ReadIsKnown, CapturedKnown
<1>6. Captured' = ReadUpTo(read + 1)
  BY <1>2 DEF Captured, ReadUpTo
<1>7. ReadUpTo(read + 1) = IF p = Other THEN Captured ELSE Captured \cup {p}
  <2>1. 1..(read + 1) = (1..read) \cup {read + 1}
    BY <1>1
  <2> HIDE DEF p
  <2>2. \A j : j \in 1..(read + 1) /\ IsTcp(capture[j]) <=>
                  (j \in 1..read /\ IsTcp(capture[j])) \/ (j = read + 1 /\ p # Other)
    BY <2>1 DEF IsTcp, p
  <2>3. \A x : x \in ReadUpTo(read + 1) <=> x \in ReadUpTo(read) \/ (x = p /\ p # Other)
    BY <2>2 DEF ReadUpTo, p
  <2>4. CASE p = Other
    BY <1>5, <2>3, <2>4
  <2>5. CASE p # Other
    BY <1>5, <2>3, <2>5
  <2> QED
    BY <2>4, <2>5
<1>8. pcaps' = {} /\ PcapsAreFlows'
  BY <1>1, <1>2 DEF PcapsAreFlows
<1>9. CASE p = Other
  <2>1. nodes' = nodes /\ Captured' = Captured
    BY <1>6, <1>7, <1>9 DEF HashPacket, IsTcp
  <2>2. /\ FiledIn(nodes, Captured)' /\ ChainedIn(nodes, Captured, slot)'
        /\ AllOneSided(nodes, Captured)'
    BY <1>1, <1>2, <2>1, NextFiled, NextChained, NextOneSided
  <2>3. TableTypes'
    BY <1>1, <1>2, <1>4, <2>1, <1>8 DEF TableTypes
  <2> QED
    BY <1>1, <1>2, <1>3, <1>8, <2>2, <2>3 DEF IInv, Phased
<1>10. CASE p # Other
  <2> DEFINE M == Added(nodes, slot, p)
             D == Captured \cup {p}
  <2>1. nodes' = M /\ Captured' = D
    BY <1>6, <1>7, <1>10 DEF HashPacket, IsTcp, Added, With
  <2>2. p \in Packet
    BY <1>4, <1>10
  <2>3. \A q \in Captured : q.n # p.n
    <3> SUFFICES ASSUME NEW q \in Captured, q.n = p.n PROVE FALSE
      OBVIOUS
    <3>1. PICK j \in 1..read : IsTcp(capture[j]) /\ q = capture[j]
      BY <1>5 DEF ReadUpTo
    <3>2. j \in TcpAt /\ read + 1 \in TcpAt /\ j # read + 1
      BY <1>1, <1>4, <1>10, <3>1 DEF TcpAt, IsTcp
    <3> QED
      BY <1>1, <3>1, <3>2 DEF CaptureTypes
  <2>4. Known(D, slot)
    BY <1>5, <1>7, <1>10
  <2>5. M \in Tables /\ FiledIn(M, D) /\ ChainedIn(M, D, slot) /\ AllOneSided(M, D)
    <3>1. M = Added(nodes, slot, p) /\ Addable(nodes, Captured, slot, p)
      BY <1>1, <2>3, <2>4 DEF Addable
    <3> HIDE DEF p, M
    <3> QED
      BY <1>1, <2>2, <3>1, AddPacket
  <2> HIDE DEF M, D
  <2>6. /\ FiledIn(nodes, Captured)' /\ ChainedIn(nodes, Captured, slot)'
        /\ AllOneSided(nodes, Captured)'
    BY <1>2, <2>1, <2>5, NextFiled, NextChained, NextOneSided
  <2>7. TableTypes'
    BY <1>1, <1>2, <1>4, <1>8, <2>1, <2>5 DEF TableTypes
  <2> QED
    BY <1>1, <1>2, <1>3, <1>8, <2>6, <2>7 DEF IInv, Phased
<1> QED
  BY <1>9, <1>10

LEMMA HashEndKeeps == IInv /\ HashEnd => IInv'
<1> SUFFICES ASSUME IInv, HashEnd PROVE IInv'
  OBVIOUS
<1>1. /\ TableTypes /\ pc = "hash" /\ AllOneSided(nodes, Captured) /\ nindex = 0
  BY DEF IInv, HashEnd, TableTypes, Phased
<1>2. /\ capture' = capture /\ read' = read /\ slot' = slot /\ nindex' = nindex
      /\ nodes' = nodes /\ pcaps' = pcaps /\ pc' = "classify"
  BY DEF HashEnd
<1>3. /\ CaptureTypes' /\ PcapsAreFlows' /\ FiledIn(nodes, Captured)'
      /\ ChainedIn(nodes, Captured, slot)' /\ AllOneSided(nodes, Captured)'
  BY <1>1, <1>2, Unchanging
<1>4. TableTypes'
  BY <1>1, <1>2 DEF TableTypes, Phases
<1>5. \A s \in AllSlots : ~(s < nindex')
  BY <1>1, <1>2, SlotsAssumption DEF AllSlots
<1> QED
  BY <1>2, <1>3, <1>4, <1>5 DEF IInv, Phased

\* The place of a step of a walk, and what such a step leaves as it is.
LEMMA WalkStep ==
    ASSUME IInv, NEW phase, WalkOn(phase)
    PROVE  /\ TableTypes /\ cindex \in AllSlots /\ cindex \in Nat /\ nodes[cindex] # <<>>
           /\ nodes[cindex] \in Lists /\ nindex <= cindex
           /\ \A s \in AllSlots : s < cindex + 1 /\ nodes[s] # <<>> => s < nindex \/ s = cindex
           /\ pc = phase /\ pc' = pc /\ nindex' = cindex + 1 /\ cindex + 1 < Size
           /\ capture' = capture /\ read' = read /\ slot' = slot
<1>1. TableTypes /\ cindex + 1 < Size
  BY DEF IInv, WalkOn
<1>2. /\ pc = phase /\ pc' = pc /\ nindex' = cindex + 1
      /\ capture' = capture /\ read' = read /\ slot' = slot
  BY DEF WalkOn
<1> QED
  BY <1>1, <1>2, WalkStands

LEMMA ClassifyChainKeeps == IInv /\ ClassifyChain => IInv'
<1> SUFFICES ASSUME IInv, ClassifyChain PROVE IInv'
  OBVIOUS
<1> DEFINE i == cindex
           M == With(nodes, i, SortPackets(nodes[i]))
<1>1. WalkOn("classify") /\ pcaps' = pcaps /\ nodes' = [nodes EXCEPT ![i] = SortPackets(@)]
  BY DEF ClassifyChain
<1>2. /\ TableTypes /\ i \in AllSlots /\ i \in Nat /\ nodes[i] # <<>>
      /\ nodes[i] \in Lists /\ nindex <= i
      /\ \A s \in AllSlots : s < i + 1 /\ nodes[s] # <<>> => s < nindex \/ s = i
      /\ pc = "classify" /\ pc' = pc /\ nindex' = i + 1
      /\ capture' = capture /\ read' = read /\ slot' = slot
  BY <1>1, WalkStep
<1>3. nodes' = M
  BY <1>1 DEF With
<1> HIDE DEF i
<1>4. /\ AllOneSided(nodes, Captured) /\ FiledIn(nodes, Captured)
      /\ ChainedIn(nodes, Captured, slot) /\ nodes \in Tables
      /\ \A s \in AllSlots : s < nindex => Ordered(nodes[s])
  BY <1>2 DEF IInv, Phased, TableTypes
<1>5. /\ CaptureTypes' /\ Captured' = Captured /\ PcapsAreFlows'
  BY <1>1, <1>2, Unchanging
<1>6. /\ M \in Tables /\ FiledIn(M, Captured) /\ ChainedIn(M, Captured, slot)
      /\ AllOneSided(M, Captured)
  <2>1. M = With(nodes, i, SortPackets(nodes[i]))
    OBVIOUS
  <2> HIDE DEF M
  <2> QED
    BY <1>2, <1>4, <2>1, SortChain
<1>7. \A s \in AllSlots : s < i + 1 => Ordered(M[s])
  <2> SUFFICES ASSUME NEW s \in AllSlots, s < i + 1 PROVE Ordered(M[s])
    OBVIOUS
  <2>1. SortPackets(nodes[i]) \in Lists /\ Ordered(SortPackets(nodes[i]))
    BY <1>2, SortedOneEach
  <2>2. M[i] = SortPackets(nodes[i]) /\ (s # i => M[s] = nodes[s])
    BY <1>2, <1>4, <2>1, Replaced
  <2>3. CASE s = i
    BY <2>1, <2>2, <2>3
  <2>4. CASE s # i /\ nodes[s] # <<>>
    BY <1>2, <1>4, <2>2, <2>4
  <2>5. CASE s # i /\ nodes[s] = <<>>
    <3>1. DOMAIN nodes[s] = {}
      BY <2>5
    <3> QED
      BY <2>2, <2>5, <3>1 DEF Ordered, InOrder
  <2> QED
    BY <2>3, <2>4, <2>5
<1> HIDE DEF M
<1>8. /\ FiledIn(nodes, Captured)' /\ ChainedIn(nodes, Captured, slot)'
      /\ AllOneSided(nodes, Captured)'
  BY <1>2, <1>3, <1>5, <1>6, NextFiled, NextChained, NextOneSided
<1>9. TableTypes'
  BY <1>2, <1>3, <1>6 DEF TableTypes
<1>10. (\A s \in AllSlots : s < nindex => Ordered(nodes[s]))'
  BY <1>2, <1>3, <1>7 DEF Ordered
<1> QED
  BY <1>2, <1>5, <1>8, <1>9, <1>10 DEF IInv, Phased

LEMMA DumpChainKeeps == IInv /\ DumpChain => IInv'
<1> SUFFICES ASSUME IInv, DumpChain PROVE IInv'
  OBVIOUS
<1> DEFINE i == cindex
           c == nodes[i]
           k == Head(c).key
<1>1. /\ WalkOn("dump") /\ nodes' = nodes
      /\ pcaps' = pcaps \cup {[key |-> k, packets |-> c]}
  BY DEF DumpChain
<1>2. /\ TableTypes /\ i \in AllSlots /\ i \in Nat /\ c # <<>> /\ c \in Lists /\ i + 1 < Size
      /\ pc = "dump" /\ pc' = pc /\ nindex' = i + 1
      /\ capture' = capture /\ read' = read /\ slot' = slot
  BY <1>1, WalkStep
<1> HIDE DEF i
<1>3. /\ AllOneSided(nodes, Captured) /\ FiledIn(nodes, Captured) /\ OneChainPerKey(nodes)
      /\ Known(Captured, slot) /\ PcapsAreFlows
      /\ \A s \in AllSlots : s + 1 < Size => Ordered(nodes[s])
  BY <1>2, CapturedKnown DEF IInv, Phased, ChainedIn
<1>4. /\ CaptureTypes' /\ Captured' = Captured /\ FiledIn(nodes, Captured)'
      /\ ChainedIn(nodes, Captured, slot)' /\ AllOneSided(nodes, Captured)'
  BY <1>1, <1>2, <1>3, Unchanging
<1>5. TableTypes'
  BY <1>1, <1>2 DEF TableTypes
<1>6. (\A s \in AllSlots : s + 1 < Size => Ordered(nodes[s]))'
  BY <1>1, <1>3 DEF Ordered
<1>7. ToSet(c) = {p \in Captured : p.key = k}
  <2>1. ASSUME NEW e \in ToSet(c) PROVE e \in Captured /\ e.key = k
    BY <1>2, <1>3 DEF AllOneSided, OneSided
  <2>2. ASSUME NEW p \in Captured, p.key = k PROVE p \in ToSet(c)
    <3>1. PICK s \in AllSlots : \E e \in ToSet(nodes[s]) : e.n = p.n
      BY <1>3 DEF FiledIn
    <3>2. PICK e \in ToSet(nodes[s]) : e.n = p.n
      BY <3>1
    <3>3. e = p
      BY <1>3, <3>2 DEF AllOneSided, OneSided, Known
    <3>4. Head(c) \in ToSet(c)
      BY <1>2, HeadIn
    <3>5. s = i
      BY <1>2, <1>3, <2>2, <3>3, <3>4 DEF OneChainPerKey
    <3> QED
      BY <3>3, <3>5
  <2> QED
    BY <2>1, <2>2
<1>8. InWindow(c) => InOrder(c)
  BY <1>2, <1>3 DEF Ordered
<1>9. PcapsAreFlows'
  <2> SUFFICES ASSUME NEW f \in pcaps'
               PROVE  /\ ToSet(f.packets) = {p \in Captured : p.key = f.key}
                      /\ InWindow(f.packets) => InOrder(f.packets)
    BY <1>4 DEF PcapsAreFlows
  <2>1. CASE f \in pcaps
    BY <1>3, <2>1 DEF PcapsAreFlows
  <2>2. CASE f = [key |-> k, packets |-> c]
    BY <1>7, <1>8, <2>2
  <2> QED
    BY <1>1, <2>1, <2>2
<1> QED
  BY <1>2, <1>4, <1>5, <1>6, <1>9 DEF IInv, Phased

LEMMA WriteChainKeeps == IInv /\ WriteChain => IInv'
<1> SUFFICES ASSUME IInv, WriteChain PROVE IInv'
  OBVIOUS
<1>1. WalkOn("write") /\ nodes' = nodes /\ pcaps' = pcaps
  BY DEF WriteChain
<1>2. /\ TableTypes /\ cindex \in Nat /\ pc = "write" /\ pc' = pc /\ nindex' = cindex + 1
      /\ capture' = capture /\ read' = read /\ slot' = slot
  BY <1>1, WalkStep
<1> HIDE DEF cindex
<1>3. /\ CaptureTypes' /\ PcapsAreFlows' /\ FiledIn(nodes, Captured)'
      /\ ChainedIn(nodes, Captured, slot)'
  BY <1>1, <1>2, Unchanging
<1>4. TableTypes'
  BY <1>1, <1>2 DEF TableTypes
<1>5. PairedBelow(nodes, Size)'
  BY <1>1, <1>2, NextPaired DEF IInv, Phased
<1> QED
  BY <1>2, <1>3, <1>4, <1>5 DEF IInv, Phased

LEMMA TidySingleKeeps == IInv /\ TidySingle => IInv'
<1> SUFFICES ASSUME IInv, TidySingle PROVE IInv'
  OBVIOUS
<1> DEFINE i == cindex
<1>1. WalkOn("tidy") /\ nodes' = nodes /\ pcaps' = pcaps
  BY DEF TidySingle
<1>2. /\ TableTypes /\ i \in AllSlots /\ i \in Nat /\ nodes[i] # <<>> /\ nodes[i] \in Lists
      /\ \A s \in AllSlots : s < i + 1 /\ nodes[s] # <<>> => s < nindex \/ s = i
      /\ pc = "tidy" /\ pc' = pc /\ nindex' = i + 1
      /\ capture' = capture /\ read' = read /\ slot' = slot
  BY <1>1, WalkStep
<1>3. key1 = Head(nodes[i]).key /\ key2 = Reversed(key1) /\ ~(Stored(key1) /\ Stored(key2))
  BY DEF key1, key2, TidySingle
<1> HIDE DEF i
<1>4. /\ CaptureTypes' /\ PcapsAreFlows' /\ FiledIn(nodes, Captured)'
      /\ ChainedIn(nodes, Captured, slot)'
  BY <1>1, <1>2, Unchanging
<1>5. TableTypes'
  BY <1>1, <1>2 DEF TableTypes
<1>6. /\ PairedBelow(nodes, nindex) /\ nodes \in Tables
      /\ \A s \in AllSlots : nodes[s] # <<>> => slot[Head(nodes[s]).key] = s
  BY <1>2 DEF IInv, Phased, TableTypes, ChainedIn, AtHome
<1>7. ~Stored(key2)
  <2>1. Stored(key1)
    BY <1>2, <1>3, <1>6 DEF Stored
  <2> QED
    BY <1>3, <2>1
<1>8. ASSUME NEW t \in AllSlots, nodes[t] # <<>> PROVE Head(nodes[t]).key # key2
  <2> SUFFICES ASSUME Head(nodes[t]).key = key2 PROVE FALSE
    OBVIOUS
  <2>1. slot[key2] = t
    BY <1>6, <1>8
  <2> QED
    BY <1>7, <1>8, <2>1 DEF Stored
<1>9. PairedBelow(nodes, i + 1)
  <2> SUFFICES ASSUME NEW s \in AllSlots, NEW t \in AllSlots, s < i + 1 \/ t < i + 1,
                      Opposite(nodes[s], nodes[t])
               PROVE  s = t
    BY DEF PairedBelow
  <2>1. /\ nodes[s] # <<>> /\ nodes[t] # <<>> /\ nodes[s] \in Lists /\ nodes[t] \in Lists
        /\ Head(nodes[s]).key = Reversed(Head(nodes[t]).key)
    BY <1>6 DEF Opposite, Tables
  <2>2. t # i
    BY <1>3, <1>8, <2>1
  <2>3. s # i
    <3>1. Head(nodes[t]).key = Reversed(Head(nodes[s]).key)
      BY <2>1, HeadIn, KeysAssumption
    <3> QED
      BY <1>3, <1>8, <2>1, <3>1
  <2>4. s < nindex \/ t < nindex
    BY <1>2, <2>1, <2>2, <2>3
  <2> QED
    BY <1>6, <2>4 DEF PairedBelow
<1>10. PairedBelow(nodes, nindex)'
  BY <1>1, <1>2, <1>9, NextPaired
<1> QED
  BY <1>2, <1>4, <1>5, <1>10 DEF IInv, Phased

\* The run comes to its end, or stays in a chain that has become a cycle.
LEMMA StopKeeps ==
    ASSUME IInv, UNCHANGED <<capture, read, slot, nodes, nindex, pcaps>>,
           pc' \in {"hang", "exit", "crash"}
    PROVE  IInv'
<1>1. /\ CaptureTypes' /\ PcapsAreFlows' /\ FiledIn(nodes, Captured)'
      /\ ChainedIn(nodes, Captured, slot)'
  BY Unchanging
<1>2. TableTypes'
  BY DEF IInv, TableTypes, Phases
<1> QED
  BY <1>1, <1>2 DEF IInv, Phased

LEMMA StutterKeeps == IInv /\ UNCHANGED vars => IInv'
<1> SUFFICES ASSUME IInv, UNCHANGED vars PROVE IInv'
  OBVIOUS
<1>1. /\ capture' = capture /\ read' = read /\ slot' = slot /\ nodes' = nodes
      /\ nindex' = nindex /\ pcaps' = pcaps /\ pc' = pc
  BY DEF vars
<1>2. /\ CaptureTypes' /\ PcapsAreFlows' /\ FiledIn(nodes, Captured)'
      /\ ChainedIn(nodes, Captured, slot)'
      /\ AllOneSided(nodes, Captured) => AllOneSided(nodes, Captured)'
  BY <1>1, Unchanging
<1>3. TableTypes'
  BY <1>1 DEF IInv, TableTypes
<1>4. /\ PairedBelow(nodes, nindex) => PairedBelow(nodes, nindex)'
      /\ PairedBelow(nodes, Size) => PairedBelow(nodes, Size)'
  BY <1>1, NextPaired
<1>5. /\ (\A s \in AllSlots : s < nindex => Ordered(nodes[s])) =>
             (\A s \in AllSlots : s < nindex => Ordered(nodes[s]))'
      /\ (\A s \in AllSlots : s + 1 < Size => Ordered(nodes[s])) =>
             (\A s \in AllSlots : s + 1 < Size => Ordered(nodes[s]))'
  BY <1>1 DEF Ordered
<1> QED
  BY <1>1, <1>2, <1>3, <1>4, <1>5 DEF IInv, Phased

LEMMA WalkEndKeeps == IInv /\ WalkEnd => IInv'
<1> SUFFICES ASSUME IInv, WalkEnd PROVE IInv'
  OBVIOUS
<1>1. /\ TableTypes /\ pc \in {"classify", "dump", "tidy", "write"} /\ cindex + 1 >= Size
      /\ nindex' = 0 /\ pc' = NextPass /\ nodes' = nodes /\ pcaps' = pcaps
      /\ capture' = capture /\ read' = read /\ slot' = slot
  BY DEF IInv, WalkEnd
<1>2. \/ pc = "classify" /\ pc' = "dump"
      \/ pc = "dump" /\ pc' = "tidy"
      \/ pc = "tidy" /\ pc' = "write"
      \/ pc = "write" /\ pc' = "end"
  BY <1>1, PassAfter
<1>3. /\ CaptureTypes' /\ PcapsAreFlows' /\ FiledIn(nodes, Captured)'
      /\ ChainedIn(nodes, Captured, slot)'
      /\ AllOneSided(nodes, Captured) => AllOneSided(nodes, Captured)'
  BY <1>1, Unchanging
<1>4. \A s \in AllSlots : nodes[s] # <<>> => s < nindex \/ s = Size - 1
  BY <1>1, WalkEnds
<1>5. Size \in Nat /\ nindex \in Nat /\ \A s \in AllSlots : s \in Nat /\ s < Size
  BY <1>1, SlotsAssumption DEF TableTypes, AllSlots
<1> HIDE DEF cindex
<1>6. TableTypes'
  BY <1>1, <1>2 DEF TableTypes, Phases
<1>7. CASE pc = "classify"
  <2>1. ASSUME NEW s \in AllSlots, s + 1 < Size PROVE Ordered(nodes[s])
    <3>1. CASE nodes[s] = <<>>
      BY <3>1 DEF Ordered, InOrder
    <3>2. CASE nodes[s] # <<>>
      <4>1. s < nindex
        BY <1>4, <1>5, <2>1, <3>2
      <4> QED
        BY <1>7, <4>1 DEF IInv, Phased
    <3> QED
      BY <3>1, <3>2
  <2>2. (\A s \in AllSlots : s + 1 < Size => Ordered(nodes[s]))'
    BY <1>1, <2>1 DEF Ordered
  <2>3. pc' = "dump" /\ AllOneSided(nodes, Captured)
    BY <1>2, <1>7 DEF IInv, Phased
  <2> QED
    BY <1>3, <1>6, <2>2, <2>3 DEF IInv, Phased
<1>8. CASE pc = "dump"
  <2>1. PairedBelow(nodes, 0)
    BY <1>5 DEF PairedBelow
  <2>2. PairedBelow(nodes, nindex)'
    BY <1>1, <2>1, NextPaired
  <2>3. pc' = "tidy"
    BY <1>2, <1>8
  <2> QED
    BY <1>3, <1>6, <2>2, <2>3 DEF IInv, Phased
<1>9. CASE pc = "tidy"
  <2>1. PairedBelow(nodes, Size)
    <3> SUFFICES ASSUME NEW s \in AllSlots, NEW t \in AllSlots, Opposite(nodes[s], nodes[t])
                 PROVE  s = t
      BY DEF PairedBelow
    <3>1. (s < nindex \/ s = Size - 1) /\ (t < nindex \/ t = Size - 1)
      BY <1>4 DEF Opposite
    <3> QED
      BY <1>9, <3>1 DEF IInv, Phased, PairedBelow
  <2>2. PairedBelow(nodes, Size)'
    BY <1>1, <2>1, NextPaired
  <2>3. pc' = "write"
    BY <1>2, <1>9
  <2> QED
    BY <1>3, <1>6, <2>2, <2>3 DEF IInv, Phased
<1>10. CASE pc = "write"
  <2>1. PairedBelow(nodes, Size)'
    BY <1>1, <1>10, NextPaired DEF IInv, Phased
  <2>2. pc' = "end"
    BY <1>2, <1>10
  <2> QED
    BY <1>3, <1>6, <2>1, <2>2 DEF IInv, Phased
<1> QED
  BY <1>1, <1>7, <1>8, <1>9, <1>10

\* The two chains combine_tcp_nodes joins: each is the whole of a direction,
\* as it was captured.
LEMMA PairToJoin ==
    ASSUME IInv, TidyPair
    PROVE  /\ TableTypes /\ cindex \in Nat /\ cindex \in AllSlots
           /\ key1 \in Keys /\ key2 \in Keys /\ key1 # key2
           /\ key2 = Reversed(key1) /\ key1 = Reversed(key2)
           /\ slot[key1] = cindex /\ slot[key1] # slot[key2]
           /\ \/ ~Swapped /\ hash1 = slot[key1] /\ hash2 = slot[key2]
              \/ Swapped /\ hash1 = slot[key2] /\ hash2 = slot[key1]
           /\ \A k \in {key1, key2} :
                 /\ slot[k] \in AllSlots /\ nodes[slot[k]] \in Lists /\ nodes[slot[k]] # <<>>
                 /\ Head(nodes[slot[k]]).key = k /\ OneSided(nodes[slot[k]], Captured)
           /\ ToJoin(nodes[hash1], nodes[hash2], Captured)
<1>1. /\ WalkOn("tidy") /\ Stored(key1) /\ Stored(key2) /\ key1 # key2
  BY DEF TidyPair
<1>2. /\ TableTypes /\ cindex \in AllSlots /\ cindex \in Nat /\ nodes[cindex] # <<>>
      /\ nodes[cindex] \in Lists
  BY <1>1, WalkStep
<1>3. key1 = Head(nodes[cindex]).key /\ key2 = Reversed(key1)
  BY DEF key1, key2
<1>4. /\ FiledIn(nodes, Captured) /\ OneChainPerKey(nodes) /\ Known(Captured, slot)
      /\ \A s \in AllSlots : AtHome(nodes[s], s, Captured, slot)
      /\ nodes \in Tables
  BY <1>2, CapturedKnown DEF IInv, ChainedIn, TableTypes
<1>5. key1 \in Keys /\ key2 \in Keys /\ key1 = Reversed(key2)
  BY <1>2, <1>3, HeadIn, KeysAssumption
<1>6. slot[key1] = cindex
  BY <1>2, <1>3, <1>4 DEF AtHome
<1> HIDE DEF cindex, key1, key2
<1>7. ASSUME NEW k \in {key1, key2}
      PROVE  /\ slot[k] \in AllSlots /\ nodes[slot[k]] \in Lists /\ nodes[slot[k]] # <<>>
             /\ Head(nodes[slot[k]]).key = k
  BY <1>1, <1>4, <1>5 DEF Stored, Known, Tables
<1>8. slot[key1] # slot[key2]
  BY <1>1, <1>7
<1>9. ASSUME NEW k \in {key1, key2} PROVE OneSided(nodes[slot[k]], Captured)
  <2> SUFFICES ASSUME TwoSided(nodes[slot[k]], Captured) PROVE FALSE
    BY <1>4, <1>7 DEF AtHome
  <2>1. PICK e \in ToSet(nodes[slot[k]]) : e.key = Reversed(k)
    BY <1>7 DEF TwoSided
  <2>2. PICK r \in {key1, key2} : r # k /\ r = Reversed(k)
    BY <1>1, <1>3, <1>5
  <2>3. Head(nodes[slot[r]]) \in ToSet(nodes[slot[r]]) /\ Head(nodes[slot[r]]).key = r
    BY <1>7, HeadIn
  <2>4. slot[k] = slot[r]
    BY <1>4, <1>7, <2>1, <2>2, <2>3 DEF OneChainPerKey
  <2> QED
    BY <1>8, <2>2, <2>4
<1>10. \/ ~Swapped /\ hash1 = slot[key1] /\ hash2 = slot[key2]
       \/ Swapped /\ hash1 = slot[key2] /\ hash2 = slot[key1]
  BY DEF hash1, hash2
<1>11. ASSUME NEW x \in {key1, key2}, NEW y \in {key1, key2}, x # y
       PROVE  ToJoin(nodes[slot[x]], nodes[slot[y]], Captured)
  <2> DEFINE a == nodes[slot[x]]
             b == nodes[slot[y]]
  <2>1. /\ a \in Lists /\ b \in Lists /\ a # <<>> /\ b # <<>>
        /\ Head(a).key = x /\ Head(b).key = y
        /\ slot[x] \in AllSlots /\ slot[y] \in AllSlots
    BY <1>7
  <2>2. OneSided(a, Captured) /\ OneSided(b, Captured)
    BY <1>9
  <2>3. OneEach(a) /\ OneEach(b)
    BY <1>4, <2>1 DEF FiledIn
  <2>4. \A e \in ToSet(a), d \in ToSet(b) : e.n # d.n
    BY <1>4, <1>8, <1>11, <2>1 DEF FiledIn
  <2>5. x = Reversed(y) /\ y = Reversed(x)
    BY <1>3, <1>5, <1>11
  <2>6. Captured \subseteq Packet
    BY <1>4 DEF Known
  <2> QED
    BY <1>11, <2>1, <2>2, <2>3, <2>4, <2>5, <2>6 DEF ToJoin, Opposite
<1>12. ToJoin(nodes[hash1], nodes[hash2], Captured)
  BY <1>1, <1>10, <1>11
<1> QED
  BY <1>1, <1>2, <1>3, <1>5, <1>6, <1>7, <1>8, <1>9, <1>10, <1>12

\* What it makes of them.
JoinedPair == TurnedIn(Joined(nodes[hash1], nodes[hash2]), {key2})

LEMMA PairJoined ==
    ASSUME IInv, TidyPair
    PROVE  LET a == nodes[hash1]
               b == nodes[hash2]
               c == JoinedPair
           IN  /\ c \in Lists /\ OneEach(c) /\ TwoSided(c, Captured) /\ c # <<>>
               /\ Recasts(c, ToSet(a) \cup ToSet(b))
               /\ Head(c).key \in {key1, key2}
               /\ {Head(a).key, Head(b).key} = {key1, key2}
               /\ Merged(nodes, nodes', hash1, hash2, slot[Head(c).key], c)
<1> DEFINE a == nodes[hash1]
           b == nodes[hash2]
           c == JoinedPair
           h == slot[Head(c).key]
<1>1. /\ nodes \in Tables /\ ToJoin(a, b, Captured)
      /\ hash1 \in AllSlots /\ hash2 \in AllSlots /\ hash1 # hash2
      /\ a \in Lists /\ b \in Lists
      /\ {Head(a).key, Head(b).key} = {key1, key2}
      /\ {hash1, hash2} = {slot[key1], slot[key2]}
  BY PairToJoin DEF IInv, TableTypes
<1>2. Recovered(Joined(a, b)) = c
  BY DEF Recovered, JoinedPair, TurnedIn, Turn
<1>3. nodes' = [nodes EXCEPT ![hash1] = <<>>, ![hash2] = <<>>, ![h] = c]
  BY <1>2 DEF TidyPair, Home
<1>4. c = TurnedIn(Joined(a, b), {key2})
  BY DEF JoinedPair
<1> HIDE DEF a, b, c
<1>5. /\ c \in Lists /\ OneEach(c) /\ TwoSided(c, Captured) /\ c # <<>>
      /\ Recasts(c, ToSet(a) \cup ToSet(b))
      /\ Head(c).key \in {Head(a).key, Head(b).key}
  <2>1. key2 \in {Head(a).key, Head(b).key}
    BY <1>1
  <2> HIDE DEF key2
  <2>2. Rejoins(a, b, Captured, key2, c)
    BY <1>1, <1>4, <2>1 DEF Rejoins
  <2> QED
    BY <1>1, <2>2, RecoveredKeeps
<1>6. h \in {hash1, hash2}
  BY <1>1, <1>5
<1> HIDE DEF h
<1>7. Merged(nodes, nodes', hash1, hash2, h, c)
  <2> DEFINE i == hash1
             j == hash2
  <2>1. /\ nodes' = [nodes EXCEPT ![i] = <<>>, ![j] = <<>>, ![h] = c]
        /\ nodes \in Tables /\ i \in AllSlots /\ j \in AllSlots /\ h \in {i, j}
        /\ <<>> \in Lists /\ c \in Lists
    BY <1>1, <1>3, <1>5, <1>6, NoPackets
  <2> HIDE DEF i, j
  <2>2. Merged(nodes, nodes', i, j, h, c)
    BY <2>1 DEF Merged, Tables
  <2> QED
    BY <2>2 DEF i, j
<1> QED
  BY <1>1, <1>5, <1>7 DEF a, b, c, h

LEMMA TidyPairKeeps == IInv /\ TidyPair => IInv'
<1> SUFFICES ASSUME IInv, TidyPair PROVE IInv'
  OBVIOUS
<1> DEFINE i == hash1
           j == hash2
           c == JoinedPair
           h == slot[Head(c).key]
           M == nodes'
<1>1. /\ WalkOn("tidy") /\ pcaps' = pcaps
  BY DEF TidyPair
<1>2. /\ TableTypes
      /\ \A s \in AllSlots : s < cindex + 1 /\ nodes[s] # <<>> => s < nindex \/ s = cindex
      /\ pc = "tidy" /\ pc' = pc /\ nindex' = cindex + 1
      /\ capture' = capture /\ read' = read /\ slot' = slot
  BY <1>1, WalkStep
<1>3. /\ cindex \in Nat /\ cindex \in {i, j} /\ ToJoin(nodes[i], nodes[j], Captured)
  BY PairToJoin
<1>4. /\ c \in Lists /\ OneEach(c) /\ TwoSided(c, Captured) /\ c # <<>>
      /\ Recasts(c, ToSet(nodes[i]) \cup ToSet(nodes[j]))
      /\ Head(c).key \in {Head(nodes[i]).key, Head(nodes[j]).key}
      /\ Merged(nodes, M, i, j, h, c)
  BY PairJoined
<1>5. h = slot[Head(c).key]
  OBVIOUS
<1> HIDE DEF cindex, i, j, c, h
<1>6. /\ nodes \in Tables /\ FiledIn(nodes, Captured) /\ ChainedIn(nodes, Captured, slot)
      /\ OneChainPerKey(nodes) /\ nindex \in Nat /\ PairedBelow(nodes, nindex)
  BY <1>2 DEF IInv, TableTypes, ChainedIn, Phased
<1>7. /\ CaptureTypes' /\ Captured' = Captured /\ PcapsAreFlows'
  BY <1>1, <1>2, Unchanging
<1>8. M \in Tables
  BY <1>4 DEF Merged
<1>9. PICK T : T = M
  OBVIOUS
<1>10. FiledIn(T, Captured) /\ ChainedIn(T, Captured, slot)
  <2>1. Merged(nodes, T, i, j, h, c)
    BY <1>4, <1>9
  <2> QED
    BY <1>4, <1>5, <1>6, <2>1, JoinChains
<1>11. PairedBelow(T, cindex + 1)
  <2>1. Merged(nodes, T, i, j, h, c)
    BY <1>4, <1>9
  <2>2. Opposite(nodes[i], nodes[j]) /\ Opposite(nodes[j], nodes[i])
    BY <1>3 DEF ToJoin
  <2>3. \A s \in AllSlots : s < cindex + 1 /\ nodes[s] # <<>> => s < nindex \/ s \in {i, j}
    BY <1>2, <1>3
  <2>4. cindex + 1 \in Nat
    BY <1>3
  <2> QED
    BY <1>4, <1>6, <2>1, <2>2, <2>3, <2>4, JoinedStayPaired
<1>12. FiledIn(nodes, Captured)' /\ ChainedIn(nodes, Captured, slot)'
  BY <1>2, <1>7, <1>9, <1>10, NextFiled, NextChained
<1>13. PairedBelow(nodes, nindex)'
  BY <1>2, <1>9, <1>11, NextPaired
<1>14. TableTypes'
  BY <1>2, <1>3, <1>8 DEF TableTypes
<1> QED
  BY <1>2, <1>7, <1>12, <1>13, <1>14 DEF IInv, Phased

\* Writing a text that fails, and a header that is read through NULL, end
\* the process.
LEMMA BreakOffKeeps == IInv /\ BreakOff => IInv'
<1> SUFFICES ASSUME IInv, BreakOff PROVE IInv'
  OBVIOUS
<1>1. wpc' \in {"exit", "crash"}
  BY DEF BreakOff, R!WriteFails, R!JudgeThroughNull
<1>2. /\ UNCHANGED <<capture, read, slot, nodes, nindex, pcaps>>
      /\ pc' \in {"hang", "exit", "crash"}
  BY <1>1 DEF BreakOff
<1> QED
  BY <1>2, StopKeeps

LEMMA StepKeeps == IInv /\ [ProgramNext]_allVars => IInv'
<1> SUFFICES ASSUME IInv, [ProgramNext]_allVars PROVE IInv'
  OBVIOUS
<1>1. CASE HashPacket
  BY <1>1, HashPacketKeeps
<1>2. CASE HashEnd
  BY <1>2, HashEndKeeps
<1>3. CASE ClassifyChain
  BY <1>3, ClassifyChainKeeps
<1>4. CASE DumpChain
  BY <1>4, DumpChainKeeps
<1>5. CASE DumpFails
  BY <1>5, StopKeeps DEF DumpFails
<1>6. CASE TidySingle
  BY <1>6, TidySingleKeeps
<1>7. CASE TidyPair
  BY <1>7, TidyPairKeeps
<1>8. CASE TidySelf \/ OutOfMemory
  BY <1>8, StopKeeps DEF TidySelf, OutOfMemory
<1>9. CASE WalkEnd
  BY <1>9, WalkEndKeeps
<1>10. CASE OpenText
  BY <1>10, WriteChainKeeps DEF OpenText
<1>11. CASE TextStep \/ CloseText \/ UNCHANGED allVars
  <2>1. UNCHANGED vars
    BY <1>11 DEF TextStep, CloseText, allVars
  <2> QED
    BY <2>1, StutterKeeps
<1>12. CASE BreakOff
  BY <1>12, BreakOffKeeps
<1> QED
  BY <1>1, <1>2, <1>3, <1>4, <1>5, <1>6, <1>7, <1>8, <1>9, <1>10, <1>11, <1>12
     DEF ProgramNext, PassStep, Prepare

LEMMA AlwaysIInv == ProgramSpec => []IInv
<1>1. ProgramInit => IInv
  BY Initially DEF ProgramInit
<1> QED
  BY <1>1, StepKeeps, PTL DEF ProgramSpec

-----------------------------------------------------------------------------
(* What follows from it.                                                   *)

\* Every chain starts with a packet whose key has this slot, so that
\* get_hash_index finds the chain, also after combine_tcp_nodes has moved it.
THEOREM ChainsFound == ProgramSpec => []ChainsAtHome
<1>1. IInv => ChainsAtHome
  BY DEF IInv, ChainedIn, AtHome, ChainsAtHome, Filled, Slots, TableTypes, Tables
<1> QED
  BY <1>1, AlwaysIInv, PTL

\* Each pcap file holds all packets of one direction and no others, with the
\* headers they were captured with, in TCP's order where there is one.
THEOREM PcapsComplete == ProgramSpec => []PcapsAreFlows
<1>1. IInv => PcapsAreFlows
  BY DEF IInv
<1> QED
  BY <1>1, AlwaysIInv, PTL

\* When texts are written no two chains are the directions of one
\* connection, although the walk that joins them stops before the last slot.
THEOREM DirectionsJoined == ProgramSpec => []PairsJoined
<1>1. IInv => PairsJoined
  <2> SUFFICES ASSUME IInv, pc \in {"write", "end"}, NEW s \in Filled, NEW t \in Filled,
                      Head(nodes[s]).key = Reversed(Head(nodes[t]).key)
               PROVE  s = t
    BY DEF PairsJoined
  <2>1. s \in AllSlots /\ t \in AllSlots /\ Opposite(nodes[s], nodes[t])
    BY DEF IInv, TableTypes, Tables, Filled, Slots, Opposite
  <2>2. s < Size
    BY <2>1, SlotsAssumption DEF AllSlots
  <2> QED
    BY <2>1, <2>2 DEF IInv, Phased, PairedBelow
<1> QED
  BY <1>1, AlwaysIInv, PTL

\* The exchange of sequence and acknowledgement numbers is undone for the
\* same packets it was done for: no chain mixes the two.
THEOREM HeadersNeverMixed == ProgramSpec => []HeadersConsistent
<1>1. IInv => HeadersConsistent
  <2> SUFFICES ASSUME IInv, NEW s \in Filled
               PROVE  \/ \A j \in DOMAIN nodes[s] : nodes[s][j] \in Captured
                      \/ \A j \in DOMAIN nodes[s] : Exchange(nodes[s][j]) \in Captured
    BY DEF HeadersConsistent
  <2>1. /\ s \in AllSlots /\ nodes[s] \in Lists /\ nodes[s] # <<>>
    BY DEF IInv, TableTypes, Tables, Filled, Slots
  <2>2. OneSided(nodes[s], Captured) \/ TwoSided(nodes[s], Captured)
    BY <2>1 DEF IInv, ChainedIn, AtHome
  <2>3. \A j \in DOMAIN nodes[s] : nodes[s][j] \in ToSet(nodes[s])
    BY <2>1, Members
  <2> QED
    BY <2>2, <2>3 DEF OneSided, TwoSided
<1> QED
  BY <1>1, AlwaysIInv, PTL

-----------------------------------------------------------------------------
(* Packets are counted.                                                    *)

LEMMA CapturedFinite ==
    CaptureTypes /\ TableTypes => IsFiniteSet(Captured) /\ Cardinality(Captured) <= read
<1> DEFINE S == {l \in 1..read : IsTcp(capture[l])}
           f == [l \in S |-> capture[l]]
<1> SUFFICES ASSUME CaptureTypes, TableTypes
             PROVE  IsFiniteSet(Captured) /\ Cardinality(Captured) <= read
  OBVIOUS
<1>1. read \in Nat
  BY DEF TableTypes
<1>2. IsFiniteSet(1..read) /\ Cardinality(1..read) = IF 1 > read THEN 0 ELSE read - 1 + 1
  BY <1>1, FS_Interval
<1>3. Cardinality(1..read) = read
  BY <1>1, <1>2
<1>4. S \in SUBSET (1..read)
  OBVIOUS
<1>5. IsFiniteSet(S) /\ Cardinality(S) <= read
  <2> HIDE DEF S
  <2> QED
    BY <1>2, <1>3, <1>4, FS_Subset
<1>6. f \in Surjection(S, Captured)
  <2>1. Captured = {capture[l] : l \in S}
    BY DEF Captured
  <2> HIDE DEF S
  <2> QED
    BY <2>1 DEF Surjection
<1>7. IsFiniteSet(Captured) /\ Cardinality(Captured) <= Cardinality(S)
  <2> HIDE DEF S, f
  <2> QED
    BY <1>5, <1>6, FS_Surjection
<1>8. Cardinality(Captured) \in Nat /\ Cardinality(S) \in Nat
  <2> HIDE DEF S
  <2> QED
    BY <1>5, <1>7, FS_CardinalityType
<1> QED
  <2> HIDE DEF S
  <2> QED
    BY <1>1, <1>5, <1>7, <1>8

\* A chain is no longer than the capture.
LEMMA ChainFits ==
    ASSUME NEW c \in Lists, OneEach(c), NEW C, IsFiniteSet(C),
           \A e \in ToSet(c) : \E p \in C : p.n = e.n
    PROVE  Len(c) <= Cardinality(C)
<1> DEFINE n == Len(c)
           S == 1..n
           f == [j \in S |-> CHOOSE p \in C : p.n = c[j].n]
<1>1. n \in Nat
  BY Members
<1>2. \A j \in S : f[j] \in C /\ f[j].n = c[j].n
  <2>1. \A j \in S : c[j] \in ToSet(c)
    BY Members
  <2>2. \A j \in S : \E p \in C : p.n = c[j].n
    BY <2>1
  <2> HIDE DEF S
  <2> QED
    BY <2>2
<1>3. \A j, k \in S : c[j].n = c[k].n => j = k
  BY DEF OneEach
<1>4. f \in Injection(S, C)
  <2>1. f \in [S -> C]
    <3> HIDE DEF S
    <3> QED
      BY <1>2
  <2>2. \A j, k \in S : f[j] = f[k] => j = k
    <3> HIDE DEF S, f
    <3> QED
      BY <1>2, <1>3
  <2> HIDE DEF S, f
  <2> QED
    BY <2>1, <2>2 DEF Injection, IsInjective
<1>5. Cardinality(S) <= Cardinality(C)
  <2> HIDE DEF S, f
  <2> QED
    BY <1>4, FS_Injection
<1>6. Cardinality(S) = n
  <2> HIDE DEF n
  <2>1. Cardinality(1..n) = IF 1 > n THEN 0 ELSE n - 1 + 1
    BY <1>1, FS_Interval
  <2> QED
    BY <1>1, <2>1
<1> QED
  BY <1>5, <1>6

\* What a packet of C and a place of H share is a number.
LEMMA OnePlaceEach ==
    ASSUME NEW H, NEW C, IsFiniteSet(C), NEW num,
           \A p, q \in C : p.n = q.n => p = q,
           \A h, k \in H : num[h] = num[k] => h = k,
           \A h \in H : \E p \in C : p.n = num[h],
           \A p \in C : \E h \in H : num[h] = p.n
    PROVE  /\ {num[h] : h \in H} = {p.n : p \in C}
           /\ Cardinality(H) = Cardinality(C)
<1> DEFINE f == [p \in C |-> CHOOSE h \in H : num[h] = p.n]
<1>1. \A p \in C : f[p] \in H /\ num[f[p]] = p.n
  OBVIOUS
<1>2. f \in [C -> H]
  BY <1>1
<1> HIDE DEF f
<1>3. \A p, q \in C : f[p] = f[q] => p = q
  BY <1>1
<1>4. \A h \in H : \E p \in C : f[p] = h
  BY <1>1
<1>5. f \in Bijection(C, H)
  BY <1>2, <1>3, <1>4 DEF Bijection, Injection, IsInjective, Surjection
<1>6. ExistsBijection(C, H)
  BY <1>5 DEF ExistsBijection
<1> QED
  BY <1>6, FS_Bijection

\* Prepending, sorting, joining and moving chains neither lose nor double a
\* packet: between any two steps of the program the table holds every packet
\* read once.
THEOREM PacketsNeverLost == ProgramSpec => []PacketsKept
<1>1. IInv => PacketsKept
  <2> DEFINE H == {h \in Slots \X (1..read) : h[2] \in DOMAIN nodes[h[1]]}
             num == [h \in H |-> nodes[h[1]][h[2]].n]
  <2> SUFFICES ASSUME IInv PROVE PacketsKept
    OBVIOUS
  <2>1. /\ CaptureTypes /\ TableTypes /\ FiledIn(nodes, Captured)
        /\ Known(Captured, slot)
    BY CapturedKnown DEF IInv
  <2>2. IsFiniteSet(Captured) /\ Cardinality(Captured) <= read
    BY <2>1, CapturedFinite
  <2>3. /\ Slots = AllSlots /\ read \in Nat
        /\ \A s \in AllSlots : nodes[s] \in Lists /\ OneEach(nodes[s])
    BY <2>1 DEF Slots, TableTypes, Tables, FiledIn
  <2>4. ASSUME NEW s \in AllSlots
        PROVE  /\ DOMAIN nodes[s] = 1..Len(nodes[s])
               /\ \A j \in DOMAIN nodes[s] : nodes[s][j] \in ToSet(nodes[s])
               /\ \A e \in ToSet(nodes[s]) : \E j \in DOMAIN nodes[s] : nodes[s][j] = e
    BY <2>3, Members
  <2>5. ASSUME NEW s \in AllSlots, NEW j \in DOMAIN nodes[s] PROVE j \in 1..read
    <3> DEFINE n == Len(nodes[s])
    <3>1. \A e \in ToSet(nodes[s]) : \E p \in Captured : p.n = e.n
      BY <2>1 DEF FiledIn
    <3>2. n <= Cardinality(Captured)
      BY <2>2, <2>3, <3>1, ChainFits
    <3>3. n \in Nat /\ Cardinality(Captured) \in Nat
      BY <2>2, <2>3, Members, FS_CardinalityType
    <3>4. j \in 1..n
      BY <2>4
    <3> HIDE DEF n
    <3> QED
      BY <2>2, <2>3, <3>2, <3>3, <3>4
  <2>6. \A h \in H : /\ h[1] \in AllSlots /\ h[2] \in DOMAIN nodes[h[1]]
                     /\ h = <<h[1], h[2]>>
    BY <2>3
  <2>7. \A h \in H : nodes[h[1]][h[2]] \in ToSet(nodes[h[1]]) /\ num[h] = nodes[h[1]][h[2]].n
    BY <2>4, <2>6
  <2>8. \A s \in AllSlots : \A j \in DOMAIN nodes[s] :
            <<s, j>> \in H /\ num[<<s, j>>] = nodes[s][j].n
    BY <2>3, <2>5
  <2>9. PacketsKept <=> /\ {num[h] : h \in H} = {p.n : p \in Captured}
                        /\ Cardinality(H) = Cardinality(Captured)
    <3>1. {num[h] : h \in H} = {nodes[h[1]][h[2]].n : h \in H}
      OBVIOUS
    <3> QED
      BY <3>1 DEF PacketsKept
  <2> HIDE DEF H, num
  <2>10. ASSUME NEW h \in H, NEW k \in H, num[h] = num[k] PROVE h = k
    <3>1. h[1] = k[1]
      BY <2>1, <2>6, <2>7, <2>10 DEF FiledIn
    <3>2. h[2] \in 1..Len(nodes[h[1]]) /\ k[2] \in 1..Len(nodes[h[1]])
      BY <2>4, <2>6, <3>1
    <3>3. h[2] = k[2]
      BY <2>3, <2>6, <2>7, <2>10, <3>1, <3>2 DEF OneEach
    <3> QED
      BY <2>6, <3>1, <3>3
  <2>11. \A h \in H : \E p \in Captured : p.n = num[h]
    BY <2>1, <2>6, <2>7 DEF FiledIn
  <2>12. ASSUME NEW p \in Captured PROVE \E h \in H : num[h] = p.n
    <3>1. PICK s \in AllSlots : \E e \in ToSet(nodes[s]) : e.n = p.n
      BY <2>1 DEF FiledIn
    <3>2. PICK e \in ToSet(nodes[s]) : e.n = p.n
      BY <3>1
    <3>3. PICK j \in DOMAIN nodes[s] : nodes[s][j] = e
      BY <2>4
    <3> QED
      BY <2>8, <3>2, <3>3
  <2>13. \A p, q \in Captured : p.n = q.n => p = q
    BY <2>1 DEF Known
  <2> QED
    BY <2>2, <2>9, <2>10, <2>11, <2>12, <2>13, OnePlaceEach
<1> QED
  BY <1>1, AlwaysIInv, PTL

-----------------------------------------------------------------------------
(* Conversations in order.                                                 *)

\* Numbers that fit in half the space still do if some are left out.
LEMMA FewerInHalf ==
    ASSUME NEW B \in SUBSET SeqNumbers, NEW A \in SUBSET B, A # {}, InHalf(B)
    PROVE  InHalf(A)
<1>1. PICK base \in B : \A x \in B : SeqDiff(x, base) >= 0
  BY DEF InHalf
<1> DEFINE D == {SeqDiff(x, base) : x \in A}
<1>2. ASSUME NEW x \in A, NEW y \in A
      PROVE  /\ SeqDiff(x, base) \in Nat /\ SeqDiff(y, base) \in Nat
             /\ SeqDiff(x, y) = SeqDiff(x, base) - SeqDiff(y, base)
  <2>1. /\ base \in SeqNumbers /\ x \in SeqNumbers /\ y \in SeqNumbers
        /\ SeqDiff(x, base) >= 0 /\ SeqDiff(y, base) >= 0
    BY <1>1
  <2> QED
    BY <2>1, DiffFromBase
<1>3. D \in SUBSET Nat /\ D # {}
  BY <1>2
<1>4. Min(D) \in D /\ \A d \in D : Min(D) <= d
  <2> HIDE DEF D
  <2> QED
    BY <1>3, MinIsLeast
<1>5. PICK y \in A : Min(D) = SeqDiff(y, base)
  BY <1>4
<1>6. ASSUME NEW x \in A PROVE SeqDiff(x, y) >= 0
  <2>1. SeqDiff(x, base) >= SeqDiff(y, base)
    BY <1>4, <1>5
  <2> QED
    BY <1>2, <2>1
<1> QED
  BY <1>6 DEF InHalf

\* So do those of some of the packets, seen from the other side.
LEMMA OtherSideInWindow ==
    ASSUME NEW a \in Lists, NEW t \in Lists, InWindow(t),
           \A e \in ToSet(a) : Exchange(e) \in ToSet(t)
    PROVE  InWindow(a)
<1> DEFINE Seqs(c) == {c[j].seq : j \in DOMAIN c}
           Acks(c) == {c[j].ack : j \in DOMAIN c}
<1> SUFFICES ASSUME a # <<>> PROVE InHalf(Seqs(a)) /\ InHalf(Acks(a))
  BY DEF InWindow
<1>1. ASSUME NEW c \in Lists
      PROVE  Seqs(c) = {e.seq : e \in ToSet(c)} /\ Acks(c) = {e.ack : e \in ToSet(c)}
  BY Members, ZenonT(40)
<1>2. Head(a) \in ToSet(a)
  BY HeadIn
<1>3. \A e \in ToSet(a) : Exchange(e).seq = e.ack /\ Exchange(e).ack = e.seq
  BY Members, Exchanged
<1>4. InHalf(Seqs(t)) /\ InHalf(Acks(t))
  BY <1>2, Filled1 DEF InWindow
<1>5. Seqs(t) \subseteq SeqNumbers /\ Acks(t) \subseteq SeqNumbers
  <2>1. \A e \in ToSet(t) : e.seq \in SeqNumbers /\ e.ack \in SeqNumbers
    BY Members DEF Packet
  <2>2. Seqs(t) = {e.seq : e \in ToSet(t)} /\ Acks(t) = {e.ack : e \in ToSet(t)}
    BY <1>1
  <2> HIDE DEF Seqs, Acks
  <2> QED
    BY <2>1, <2>2
<1>6. /\ Seqs(a) \subseteq Acks(t) /\ Seqs(a) # {}
      /\ Acks(a) \subseteq Seqs(t) /\ Acks(a) # {}
  <2>1. /\ Seqs(a) = {e.seq : e \in ToSet(a)} /\ Acks(a) = {e.ack : e \in ToSet(a)}
        /\ Seqs(t) = {e.seq : e \in ToSet(t)} /\ Acks(t) = {e.ack : e \in ToSet(t)}
    BY <1>1
  <2> HIDE DEF Seqs, Acks
  <2> QED
    BY <1>2, <1>3, <2>1
<1> HIDE DEF Seqs, Acks
<1> QED
  BY <1>4, <1>5, <1>6, FewerInHalf

LEMMA AsCapturedIs ==
    ASSUME Known(Captured, slot), NEW p \in Captured, NEW e, e.n = p.n
    PROVE  AsCaptured(e) = p
BY DEF AsCaptured, Known

\* A chain of the table, each packet as it was captured.
LEMMA SeenFromIs ==
    ASSUME Known(Captured, slot), NEW c \in Lists, NEW k,
           \A e \in ToSet(c) : \E p \in Captured : p.n = e.n /\ p.key = e.key
    PROVE  /\ SeenFrom(c, k) \in Lists /\ Len(SeenFrom(c, k)) = Len(c)
           /\ DOMAIN SeenFrom(c, k) = 1..Len(c)
           /\ \A i \in 1..Len(c) :
                 /\ AsCaptured(c[i]) \in Captured /\ AsCaptured(c[i]) \in Packet
                 /\ AsCaptured(c[i]).n = c[i].n /\ AsCaptured(c[i]).key = c[i].key
                 /\ SeenFrom(c, k)[i] = IF c[i].key = k THEN AsCaptured(c[i])
                                                        ELSE Exchange(AsCaptured(c[i]))
<1>1. DOMAIN c = 1..Len(c) /\ Len(c) \in Nat
  BY Members
<1>2. ASSUME NEW i \in 1..Len(c)
      PROVE  /\ AsCaptured(c[i]) \in Captured /\ AsCaptured(c[i]) \in Packet
             /\ AsCaptured(c[i]).n = c[i].n /\ AsCaptured(c[i]).key = c[i].key
  <2>1. PICK p \in Captured : p.n = c[i].n /\ p.key = c[i].key
    BY Members
  <2>2. AsCaptured(c[i]) = p
    BY <2>1, AsCapturedIs
  <2> QED
    BY <2>1, <2>2 DEF Known
<1>3. \A i \in 1..Len(c) : SeenFrom(c, k)[i] = IF c[i].key = k THEN AsCaptured(c[i])
                                                        ELSE Exchange(AsCaptured(c[i]))
  BY <1>1, <1>2 DEF SeenFrom
<1>4. DOMAIN SeenFrom(c, k) = 1..Len(c)
  BY <1>1 DEF SeenFrom
<1>5. SeenFrom(c, k) = [i \in 1..Len(c) |-> SeenFrom(c, k)[i]]
  BY <1>1 DEF SeenFrom
<1>6. \A i \in 1..Len(c) : SeenFrom(c, k)[i] \in Packet
  BY <1>2, <1>3, Exchanged
<1>7. SeenFrom(c, k) \in Lists /\ Len(SeenFrom(c, k)) = Len(c)
  <2> DEFINE e == SeenFrom(c, k)
  <2>1. /\ e = [i \in 1..Len(c) |-> e[i]] /\ \A i \in 1..Len(c) : e[i] \in Packet
    BY <1>5, <1>6
  <2> HIDE DEF e
  <2>2. e \in Lists /\ Len(e) = Len(c)
    BY <1>1, <2>1 DEF Lists
  <2> QED
    BY <2>2 DEF e
<1> QED
  BY <1>2, <1>3, <1>4, <1>7

\* As `base' sees it, the joined chain is what was sorted.
LEMMA JoinedFrom ==
    ASSUME Known(Captured, slot), NEW a \in Lists, NEW b \in Lists, NEW k, NEW c,
           Rejoins(a, b, Captured, k, c)
    PROVE  /\ c \in Lists /\ c # <<>>
           /\ \A i \in 1..Len(c) :
                 /\ AsCaptured(c[i]) \in ToSet(a) \cup ToSet(b)
                 /\ AsCaptured(c[i]).key = c[i].key
                 /\ AsCaptured(c[i]).syn = c[i].syn
                 /\ AsCaptured(c[i]).ackflag = c[i].ackflag
           /\ \A e \in ToSet(a) \cup ToSet(b) : \E i \in 1..Len(c) : AsCaptured(c[i]) = e
           /\ SeenFrom(c, Head(a).key) = Joined(a, b)
<1> DEFINE u == Joined(a, b)
           ka == Head(a).key
           kb == Head(b).key
<1>1. ToJoin(a, b, Captured) /\ k \in {ka, kb} /\ c = TurnedIn(u, {k})
  BY DEF Rejoins
<1>2. c \in Lists /\ c # <<>>
  BY RecoveredKeeps
<1>3. /\ u \in Lists /\ ToSet(u) = ToSet(a) \cup {Exchange(e) : e \in ToSet(b)}
      /\ ka # kb
  BY <1>1, JoinedKeeps DEF ToJoin
<1>4. /\ \A e \in ToSet(a) : e \in Packet /\ e \in Captured /\ e.key = ka
      /\ \A e \in ToSet(b) : e \in Packet /\ e \in Captured /\ e.key = kb
  BY <1>1 DEF OneSided, ToJoin
<1> HIDE DEF ka, kb, u
<1>5. /\ DOMAIN u = 1..Len(u) /\ Len(u) \in Nat
      /\ DOMAIN c = DOMAIN u /\ DOMAIN c = 1..Len(c)
      /\ \A i \in DOMAIN u : c[i] = Turn(u[i], {k})
  BY <1>1, <1>2, <1>3, Members DEF TurnedIn
<1>6. ASSUME NEW i \in 1..Len(c), NEW e \in ToSet(a) \cup ToSet(b),
             \/ e \in ToSet(a) /\ u[i] = e
             \/ e \in ToSet(b) /\ u[i] = Exchange(e)
      PROVE  /\ AsCaptured(c[i]) = e
             /\ e.key = c[i].key /\ e.syn = c[i].syn /\ e.ackflag = c[i].ackflag
             /\ u[i] = IF c[i].key = ka THEN e ELSE Exchange(e)
  <2>1. e \in Packet /\ e \in Captured
    BY <1>4
  <2>2. /\ u[i].n = e.n /\ u[i].key = e.key /\ u[i].syn = e.syn /\ u[i].ackflag = e.ackflag
        /\ u[i] \in Packet
    BY <1>6, <2>1, Exchanged
  <2>3. c[i] = u[i] \/ c[i] = Exchange(u[i])
    BY <1>5 DEF Turn
  <2>4. c[i].n = e.n /\ e.key = c[i].key /\ e.syn = c[i].syn /\ e.ackflag = c[i].ackflag
    BY <2>2, <2>3, Exchanged
  <2>5. AsCaptured(c[i]) = e
    BY <2>1, <2>4, AsCapturedIs
  <2>6. u[i] = IF c[i].key = ka THEN e ELSE Exchange(e)
    BY <1>3, <1>4, <1>6, <2>4
  <2> QED
    BY <2>4, <2>5, <2>6
<1>7. ASSUME NEW i \in 1..Len(c)
      PROVE  \E e \in ToSet(a) \cup ToSet(b) : \/ e \in ToSet(a) /\ u[i] = e
                                               \/ e \in ToSet(b) /\ u[i] = Exchange(e)
  <2>1. u[i] \in ToSet(u)
    BY <1>3, <1>5, Members
  <2> QED
    BY <1>3, <2>1
<1>8. ASSUME NEW e \in ToSet(a) \cup ToSet(b)
      PROVE  \E i \in 1..Len(c) : AsCaptured(c[i]) = e
  <2>1. PICK i \in 1..Len(c) : \/ e \in ToSet(a) /\ u[i] = e
                               \/ e \in ToSet(b) /\ u[i] = Exchange(e)
    <3>1. CASE e \in ToSet(a)
      <4>1. e \in ToSet(u)
        BY <1>3, <3>1
      <4>2. \E i \in 1..Len(u) : u[i] = e
        BY <1>3, <4>1, Members
      <4>3. 1..Len(u) = 1..Len(c)
        BY <1>5
      <4> QED
        BY <3>1, <4>2, <4>3
    <3>2. CASE e \in ToSet(b)
      <4>1. Exchange(e) \in ToSet(u)
        BY <1>3, <3>2
      <4>2. \E i \in 1..Len(u) : u[i] = Exchange(e)
        BY <1>3, <4>1, Members
      <4>3. 1..Len(u) = 1..Len(c)
        BY <1>5
      <4> QED
        BY <3>2, <4>2, <4>3
    <3> QED
      BY <3>1, <3>2
  <2> QED
    BY <1>6, <2>1
<1>9. ASSUME NEW i \in 1..Len(c)
      PROVE  /\ AsCaptured(c[i]) \in ToSet(a) \cup ToSet(b)
             /\ AsCaptured(c[i]).key = c[i].key
             /\ AsCaptured(c[i]).syn = c[i].syn
             /\ AsCaptured(c[i]).ackflag = c[i].ackflag
             /\ u[i] = IF c[i].key = ka THEN AsCaptured(c[i]) ELSE Exchange(AsCaptured(c[i]))
  <2>1. PICK e \in ToSet(a) \cup ToSet(b) : \/ e \in ToSet(a) /\ u[i] = e
                                            \/ e \in ToSet(b) /\ u[i] = Exchange(e)
    BY <1>7
  <2> QED
    BY <1>6, <2>1
<1>10. SeenFrom(c, ka) = u
  <2>1. u = [i \in 1..Len(c) |-> u[i]]
    BY <1>3, <1>5 DEF Lists
  <2>2. \A i \in 1..Len(c) :
            u[i] = LET p == AsCaptured(c[i]) IN IF p.key = ka THEN p ELSE Exchange(p)
    BY <1>9
  <2>3. SeenFrom(c, ka) =
            [i \in 1..Len(c) |-> LET p == AsCaptured(c[i]) IN IF p.key = ka THEN p ELSE Exchange(p)]
    BY <1>5 DEF SeenFrom
  <2> QED
    BY <2>1, <2>2, <2>3
<1> QED
  BY <1>2, <1>8, <1>9, <1>10 DEF u, ka

\* The walk is at chain d: its first packet tells whether it is the added one.
WalkedAt(d, a, b) == d \in {a, b} /\ Ordered(d) /\ (IsSynAck(Head(d)) <=> d = b)

\* The side that sent the SYN is not the one that was added.
LEMMA RequesterIsBase ==
    ASSUME Known(Captured, slot), NEW a \in Lists, NEW b \in Lists, NEW k, NEW c,
           Rejoins(a, b, Captured, k, c), NEW d, WalkedAt(d, a, b),
           NEW j \in 1..Len(c), NEW m \in 1..Len(c), Opens(c, j, m),
           InWindow(SeenFrom(c, c[j].key))
    PROVE  c[j].key = Head(a).key
<1> DEFINE ka == Head(a).key
           kb == Head(b).key
           r  == c[j].key
           t  == SeenFrom(c, r)
<1>1. ToJoin(a, b, Captured)
  BY DEF Rejoins
<1>2. /\ a # <<>> /\ b # <<>> /\ ka # kb
      /\ \A e \in ToSet(a) : e \in Packet /\ e \in Captured /\ e.key = ka
      /\ \A e \in ToSet(b) : e \in Packet /\ e \in Captured /\ e.key = kb
  BY <1>1 DEF ToJoin, Opposite, OneSided
<1>3. /\ c \in Lists /\ c # <<>>
      /\ \A i \in 1..Len(c) : /\ AsCaptured(c[i]) \in ToSet(a) \cup ToSet(b)
                              /\ AsCaptured(c[i]).key = c[i].key
                              /\ AsCaptured(c[i]).syn = c[i].syn
                              /\ AsCaptured(c[i]).ackflag = c[i].ackflag
      /\ \A e \in ToSet(a) \cup ToSet(b) : \E i \in 1..Len(c) : AsCaptured(c[i]) = e
  BY JoinedFrom
<1>4. /\ Head(a) \in ToSet(a) /\ a[1] = Head(a) /\ Head(b) \in ToSet(b)
  BY <1>2, HeadIn
<1>5. /\ IsSynAck(c[m]) /\ c[m].key # r
      /\ \A i \in 1..Len(c) :
            IF c[i].key = r THEN ~IsSynAck(c[i])
            ELSE IsSynAck(c[i]) \/ Compare(AsCaptured(c[m]), AsCaptured(c[i])) < 0
  <2>1. DOMAIN c = 1..Len(c)
    BY <1>3, Members
  <2> QED
    BY <2>1 DEF Opens
<1> SUFFICES ASSUME r # ka PROVE FALSE
  OBVIOUS
<1>6. r = kb
  BY <1>2, <1>3
<1>7. InWindow(t)
  OBVIOUS
<1>8. /\ t \in Lists
      /\ \A i \in 1..Len(c) : c[i].key # r => Exchange(AsCaptured(c[i])) \in ToSet(t)
  <2>1. \A e \in ToSet(c) : \E p \in Captured : p.n = e.n /\ p.key = e.key
    <3>1. \A e \in ToSet(a) \cup ToSet(b) : e \in Captured
      BY <1>2
    <3>2. Recasts(c, ToSet(a) \cup ToSet(b))
      BY RecoveredKeeps
    <3> QED
      BY <3>1, <3>2 DEF Recasts
  <2>2. /\ t \in Lists /\ Len(t) = Len(c)
        /\ \A i \in 1..Len(c) : t[i] = IF c[i].key = r THEN AsCaptured(c[i])
                                                       ELSE Exchange(AsCaptured(c[i]))
    BY <1>3, <2>1, SeenFromIs
  <2> HIDE DEF t, r
  <2> QED
    BY <2>2, Members
<1> HIDE DEF t, r, ka, kb
<1>9. CASE d = b
  <2>1. IsSynAck(Head(b))
    BY <1>9 DEF WalkedAt
  <2>2. PICK i \in 1..Len(c) : AsCaptured(c[i]) = Head(b)
    BY <1>3, <1>4
  <2>3. c[i].key = r /\ IsSynAck(c[i])
    BY <1>2, <1>3, <1>4, <1>6, <2>1, <2>2 DEF IsSynAck
  <2> QED
    BY <1>5, <2>3
<1>10. CASE d = a /\ d # b
  <2>1. ~IsSynAck(Head(a)) /\ Ordered(a)
    BY <1>10 DEF WalkedAt
  <2>2. PICK i \in 1..Len(c) : AsCaptured(c[i]) = Head(a)
    BY <1>3, <1>4
  <2>3. c[i].key # r /\ ~IsSynAck(c[i])
    BY <1>2, <1>3, <1>4, <1>6, <2>1, <2>2 DEF IsSynAck
  <2> DEFINE x == Head(a)
             y == AsCaptured(c[m])
  <2>4. Compare(y, x) < 0
    BY <1>5, <2>2, <2>3
  <2>5. y \in ToSet(a) /\ IsSynAck(y)
    BY <1>2, <1>3, <1>5, <1>6 DEF IsSynAck
  <2>6. \A e \in ToSet(a) : Exchange(e) \in ToSet(t)
    <3> SUFFICES ASSUME NEW e \in ToSet(a) PROVE Exchange(e) \in ToSet(t)
      OBVIOUS
    <3>1. PICK q \in 1..Len(c) : AsCaptured(c[q]) = e
      BY <1>3
    <3>2. c[q].key # r
      BY <1>2, <1>3, <1>6, <3>1
    <3> QED
      BY <1>8, <3>1, <3>2
  <2>7. InWindow(a)
    BY <1>7, <1>8, <2>6, OtherSideInWindow
  <2>8. PICK q \in 1..Len(a) : a[q] = y
    BY <2>5, Members
  <2>9. q # 1
    BY <1>4, <2>1, <2>5, <2>8
  <2>10. 1 \in DOMAIN a /\ q \in DOMAIN a /\ 1 < q
    <3>1. DOMAIN a = 1..Len(a) /\ Len(a) \in Nat
      BY Members
    <3> QED
      BY <2>8, <2>9, <3>1
  <2>11. Compare(x, y) <= 0
    BY <1>4, <2>1, <2>7, <2>8, <2>10 DEF Ordered, InOrder
  <2>12. Compare(x, y) \in Int /\ Compare(y, x) = 0 - Compare(x, y)
    BY <1>4, <2>5, <2>7, CompareOrders
  <2> HIDE DEF x, y
  <2> QED
    BY <2>4, <2>11, <2>12
<1> QED
  BY <1>9, <1>10 DEF WalkedAt

SeenInOrder(c) ==
    \A j, k \in DOMAIN c : Opens(c, j, k) /\ InWindow(SeenFrom(c, c[j].key)) =>
                               InOrder(SeenFrom(c, c[j].key))

LEMMA RejoinedInOrder ==
    ASSUME Known(Captured, slot), NEW a \in Lists, NEW b \in Lists, NEW k, NEW c,
           Rejoins(a, b, Captured, k, c), NEW d, WalkedAt(d, a, b)
    PROVE  SeenInOrder(c)
<1> SUFFICES ASSUME NEW j \in DOMAIN c, NEW m \in DOMAIN c, Opens(c, j, m),
                    InWindow(SeenFrom(c, c[j].key))
             PROVE  InOrder(SeenFrom(c, c[j].key))
  BY DEF SeenInOrder
<1>1. c \in Lists /\ SeenFrom(c, Head(a).key) = Joined(a, b)
  BY JoinedFrom
<1>2. j \in 1..Len(c) /\ m \in 1..Len(c)
  BY <1>1, Members
<1>3. c[j].key = Head(a).key
  BY <1>2, RequesterIsBase
<1>4. Ordered(Joined(a, b))
  BY JoinedKeeps DEF Rejoins, ToJoin
<1> QED
  BY <1>1, <1>3, <1>4 DEF Ordered

\* A chain of one direction has no answer to its SYN.
LEMMA OneSidedSeen ==
    ASSUME NEW c \in Lists, OneSided(c, Captured)
    PROVE  SeenInOrder(c)
<1>1. \A j \in DOMAIN c : c[j].key = Head(c).key
  BY Members DEF OneSided
<1> QED
  BY <1>1 DEF SeenInOrder, Opens

\* The chain that combine_tcp_nodes makes.
LEMMA PairInOrder ==
    ASSUME IInv, TidyPair, Ordered(nodes[cindex])
    PROVE  SeenInOrder(JoinedPair)
<1> DEFINE a == nodes[hash1]
           b == nodes[hash2]
           d == nodes[slot[key1]]
           c == JoinedPair
<1>1. /\ nodes \in Tables /\ ToJoin(a, b, Captured) /\ Known(Captured, slot)
      /\ slot[key1] \in AllSlots /\ slot[key2] \in AllSlots
      /\ \/ ~Swapped /\ hash1 = slot[key1] /\ hash2 = slot[key2]
         \/ Swapped /\ hash1 = slot[key2] /\ hash2 = slot[key1]
      /\ slot[key1] = cindex
      /\ key1 # key2
      /\ Head(nodes[slot[key1]]).key = key1 /\ Head(nodes[slot[key2]]).key = key2
  BY PairToJoin, CapturedKnown DEF IInv, TableTypes
<1>2. a \in Lists /\ b \in Lists
  BY <1>1 DEF Tables
<1>3. Rejoins(a, b, Captured, key2, c)
  <2>1. key2 \in {Head(a).key, Head(b).key}
    BY <1>1
  <2> QED
    BY <1>1, <2>1 DEF Rejoins, JoinedPair
<1>4. Swapped <=> IsSynAck(Head(d))
  BY DEF Swapped, IsSynAck
<1>5. nodes[slot[key1]] # nodes[slot[key2]]
  BY <1>1
<1>6. WalkedAt(d, a, b)
  BY <1>1, <1>4, <1>5 DEF WalkedAt
<1> HIDE DEF a, b, c, d, key2
<1> QED
  BY <1>1, <1>2, <1>3, <1>6, RejoinedInOrder DEF c

-----------------------------------------------------------------------------
(* The chains handed out are in the requester's order.                     *)

Early == {"hash", "classify", "dump", "tidy"}

\* What the walk that joins chains finds below the last slot is sorted.
ToTidy == \A s \in AllSlots : s + 1 < Size /\ OneSided(nodes[s], Captured) => Ordered(nodes[s])

TableSeen  == \A s \in AllSlots : SeenInOrder(nodes[s])
FromTable  == /\ handed \in Seq(Lists)
              /\ \A m \in 1..Len(handed) : \E s \in AllSlots : handed[m] = nodes[s]

SeenInv == /\ pc = "tidy" => ToTidy
           /\ TableSeen /\ FromTable
           /\ pc \in Early => handed = <<>>

LEMMA OneSidedTable == TableTypes /\ AllOneSided(nodes, Captured) => TableSeen
BY OneSidedSeen DEF TableTypes, Tables, AllOneSided, TableSeen

LEMMA OneSidedTableNext == (TableTypes /\ AllOneSided(nodes, Captured))' => TableSeen'
BY OneSidedTable, PTL

LEMMA NextSeen ==
    ASSUME NEW M, nodes' = M, Captured' = Captured
    PROVE  /\ (\A s \in AllSlots : SeenInOrder(M[s])) => TableSeen'
           /\ (\A s \in AllSlots : s + 1 < Size /\ OneSided(M[s], Captured) => Ordered(M[s]))
                 => ToTidy'
<1>1. ASSUME NEW s \in AllSlots, SeenInOrder(M[s]) PROVE SeenInOrder(nodes[s])'
  <2>1. PICK C : C = Captured
    OBVIOUS
  <2>2. Captured' = C /\ nodes'[s] = M[s]
    BY <2>1
  <2> DEFINE as(p) == CHOOSE x \in C : x.n = p.n
             e(c, k) == [i \in DOMAIN c |-> LET p == as(c[i]) IN IF p.key = k THEN p ELSE Exchange(p)]
             opens(c, j, k) ==
                /\ IsSyn(c[j]) /\ IsSynAck(c[k]) /\ c[j].key # c[k].key
                /\ \A i \in DOMAIN c :
                      IF c[i].key = c[j].key THEN ~IsSynAck(c[i])
                      ELSE IsSynAck(c[i]) \/ Compare(as(c[k]), as(c[i])) < 0
             inOrder(c) == \A j, k \in DOMAIN c :
                opens(c, j, k) /\ InWindow(e(c, c[j].key)) => InOrder(e(c, c[j].key))
  <2>3. SeenInOrder(M[s]) <=> inOrder(M[s])
    BY <2>1 DEF SeenInOrder, Opens, SeenFrom, AsCaptured
  <2>4. SeenInOrder(nodes[s])' <=> inOrder(nodes'[s])
    BY <2>2 DEF SeenInOrder, Opens, SeenFrom, AsCaptured
  <2> HIDE DEF inOrder
  <2> QED
    BY <1>1, <2>2, <2>3, <2>4
<1>2. (\A s \in AllSlots : s + 1 < Size /\ OneSided(M[s], Captured) => Ordered(M[s])) => ToTidy'
  BY DEF ToTidy, OneSided, Ordered
<1> QED
  BY <1>1, <1>2 DEF TableSeen

LEMMA NothingHanded == <<>> \in Seq(Lists) /\ Len(<<>>) = 0 /\ 1..0 = {}
OBVIOUS

\* The steps that leave the chains alone, or that come before the tidying.
LEMMA SeenStays ==
    ASSUME SeenInv, nodes' = nodes, Captured' = Captured, handed' = handed,
           pc' = "tidy" => ToTidy, pc' \in Early => handed = <<>>
    PROVE  SeenInv'
<1>1. TableSeen' /\ (ToTidy => ToTidy')
  BY NextSeen DEF SeenInv, TableSeen, ToTidy
<1>2. FromTable'
  BY DEF SeenInv, FromTable
<1> QED
  BY <1>1, <1>2 DEF SeenInv

LEMMA SeenEarly ==
    ASSUME IInv', handed' = <<>>, pc' \in {"hash", "classify", "dump"}
    PROVE  SeenInv'
<1>1. TableSeen'
  BY OneSidedTableNext DEF IInv, Phased
<1>2. FromTable'
  BY NothingHanded DEF FromTable
<1> QED
  BY <1>1, <1>2 DEF SeenInv

LEMMA SeenTidyPair == IInv /\ SeenInv /\ TidyPair => SeenInv'
<1> SUFFICES ASSUME IInv, SeenInv, TidyPair PROVE SeenInv'
  OBVIOUS
<1> DEFINE i == hash1
           j == hash2
           c == JoinedPair
           h == slot[Head(c).key]
           kc == Head(c).key
<1>1. /\ WalkOn("tidy") /\ handed' = handed
  BY DEF TidyPair
<1>2. /\ pc = "tidy" /\ pc' = pc /\ cindex + 1 < Size /\ cindex \in AllSlots
      /\ capture' = capture /\ read' = read
  BY <1>1, WalkStep
<1>3. Captured' = Captured
  BY <1>2, CapturedStays
<1>4. SeenInOrder(c)
  <2>1. slot[key1] = cindex /\ OneSided(nodes[slot[key1]], Captured)
    BY PairToJoin
  <2>2. Ordered(nodes[cindex])
    BY <1>2, <2>1 DEF SeenInv, ToTidy
  <2> QED
    BY <2>2, PairInOrder
<1>5. /\ TwoSided(c, Captured) /\ kc \in {key1, key2}
      /\ Merged(nodes, nodes', i, j, h, c)
  BY PairJoined
<1>6. key1 # key2 /\ key2 = Reversed(key1) /\ key1 = Reversed(key2)
  BY PairToJoin
<1> HIDE DEF i, j, c, h, kc, key1, key2, cindex
<1>7. PICK M : M = nodes'
  OBVIOUS
<1>8. /\ M[h] = c
      /\ \A s \in AllSlots : s = h \/ M[s] = <<>> \/ M[s] = nodes[s]
  BY <1>5, <1>7 DEF Merged
<1>9. ~OneSided(c, Captured)
  <2>1. PICK e \in ToSet(c) : e.key = Reversed(kc)
    BY <1>5 DEF TwoSided, kc
  <2> QED
    BY <1>5, <1>6, <2>1 DEF OneSided, kc
<1>10. Ordered(<<>>) /\ SeenInOrder(<<>>)
  <2>1. DOMAIN <<>> = {}
    OBVIOUS
  <2> QED
    BY <2>1 DEF Ordered, InOrder, SeenInOrder
<1>11. ASSUME NEW s \in AllSlots PROVE SeenInOrder(M[s])
  BY <1>4, <1>8, <1>10 DEF SeenInv, TableSeen
<1>12. ASSUME NEW s \in AllSlots, s + 1 < Size, OneSided(M[s], Captured) PROVE Ordered(M[s])
  BY <1>2, <1>8, <1>9, <1>10, <1>12 DEF SeenInv, ToTidy
<1>13. TableSeen' /\ ToTidy'
  BY <1>3, <1>7, <1>11, <1>12, NextSeen
<1>14. handed' = <<>>
  BY <1>1, <1>2 DEF SeenInv, Early
<1>15. FromTable'
  BY <1>14, NothingHanded DEF FromTable
<1> QED
  BY <1>13, <1>14, <1>15 DEF SeenInv

LEMMA SeenWriteChain == IInv /\ SeenInv /\ WriteChain => SeenInv'
<1> SUFFICES ASSUME IInv, SeenInv, WriteChain PROVE SeenInv'
  OBVIOUS
<1> DEFINE c == nodes[cindex]
<1>1. WalkOn("write") /\ nodes' = nodes /\ handed' = Append(handed, c)
  BY DEF WriteChain
<1>2. /\ pc = "write" /\ pc' = pc /\ cindex \in AllSlots /\ c \in Lists
      /\ capture' = capture /\ read' = read
  BY <1>1, WalkStep
<1>3. TableSeen'
  BY <1>1, <1>2, CapturedStays, NextSeen DEF SeenInv, TableSeen
<1>4. FromTable'
  <2>1. /\ handed \in Seq(Lists)
        /\ \A m \in 1..Len(handed) : \E s \in AllSlots : handed[m] = nodes[s]
    BY DEF SeenInv, FromTable
  <2>2. \E s \in AllSlots : c = nodes[s]
    BY <1>2
  <2> HIDE DEF c
  <2>3. /\ handed' \in Seq(Lists) /\ Len(handed') = Len(handed) + 1
        /\ \A m \in 1..Len(handed) : handed'[m] = handed[m]
        /\ handed'[Len(handed) + 1] = c
    BY <1>1, <1>2, <2>1
  <2>4. \A m \in 1..Len(handed') : m \in 1..Len(handed) \/ m = Len(handed) + 1
    BY <2>1, <2>3
  <2> QED
    BY <1>1, <2>1, <2>2, <2>3, <2>4 DEF FromTable
<1> QED
  BY <1>2, <1>3, <1>4 DEF SeenInv, Early

LEMMA SeenWalkEnd == IInv /\ SeenInv /\ WalkEnd => SeenInv'
<1> SUFFICES ASSUME IInv, SeenInv, WalkEnd PROVE SeenInv'
  OBVIOUS
<1>1. /\ pc' = NextPass /\ nodes' = nodes /\ handed' = handed
      /\ capture' = capture /\ read' = read
      /\ pc \in {"classify", "dump", "tidy", "write"}
  BY DEF WalkEnd
<1>2. \/ pc = "classify" /\ pc' = "dump"
      \/ pc = "dump" /\ pc' = "tidy"
      \/ pc = "tidy" /\ pc' = "write"
      \/ pc = "write" /\ pc' = "end"
  BY <1>1, PassAfter
<1>3. Captured' = Captured
  BY <1>1, CapturedStays
<1>4. pc = "dump" => ToTidy
  BY DEF IInv, Phased, ToTidy
<1> QED
  BY <1>1, <1>2, <1>3, <1>4, SeenStays DEF SeenInv, Early

LEMMA SeenStep == IInv /\ IInv' /\ SeenInv /\ [ProgramNext]_allVars => SeenInv'
<1> SUFFICES ASSUME IInv, IInv', SeenInv, [ProgramNext]_allVars PROVE SeenInv'
  OBVIOUS
<1>1. CASE HashPacket \/ HashEnd
  <2>1. handed' = handed /\ pc = "hash" /\ pc' \in {"hash", "classify"}
    BY <1>1 DEF HashPacket, HashEnd
  <2> QED
    BY <2>1, SeenEarly DEF SeenInv, Early
<1>2. CASE ClassifyChain \/ DumpChain
  <2>1. handed' = handed /\ pc \in {"classify", "dump"} /\ pc' = pc
    BY <1>2 DEF ClassifyChain, DumpChain, WalkOn
  <2> QED
    BY <2>1, SeenEarly DEF SeenInv, Early
<1>3. CASE TidySingle
  <2>1. /\ handed' = handed /\ pc' = pc /\ nodes' = nodes /\ capture' = capture /\ read' = read
    BY <1>3 DEF TidySingle, WalkOn
  <2> QED
    BY <2>1, CapturedStays, SeenStays DEF SeenInv
<1>4. CASE TidyPair
  BY <1>4, SeenTidyPair
<1>5. CASE WalkEnd
  BY <1>5, SeenWalkEnd
<1>6. CASE OpenText
  BY <1>6, SeenWriteChain DEF OpenText
<1>7. CASE DumpFails \/ OutOfMemory \/ TidySelf \/ BreakOff
  <2>1. /\ handed' = handed /\ nodes' = nodes /\ capture' = capture /\ read' = read
    BY <1>7 DEF DumpFails, OutOfMemory, TidySelf, BreakOff
  <2>2. pc' \in {"hang", "exit", "crash"}
    <3>1. BreakOff => wpc' \in {"exit", "crash"} /\ pc' = wpc'
      BY DEF BreakOff, R!WriteFails, R!JudgeThroughNull
    <3> QED
      BY <1>7, <3>1 DEF DumpFails, OutOfMemory, TidySelf
  <2> QED
    BY <2>1, <2>2, CapturedStays, SeenStays DEF Early
<1>8. CASE TextStep \/ CloseText \/ UNCHANGED allVars
  <2>1. UNCHANGED vars
    BY <1>8 DEF TextStep, CloseText, allVars
  <2>2. /\ handed' = handed /\ pc' = pc /\ nodes' = nodes /\ capture' = capture /\ read' = read
    BY <2>1 DEF vars
  <2> QED
    BY <2>2, CapturedStays, SeenStays DEF SeenInv
<1> QED
  BY <1>1, <1>2, <1>3, <1>4, <1>5, <1>6, <1>7, <1>8 DEF ProgramNext, PassStep, Prepare

LEMMA AlwaysSeenInv == ProgramSpec => []SeenInv
<1>1. ProgramInit => SeenInv
  <2> SUFFICES ASSUME ProgramInit PROVE SeenInv
    OBVIOUS
  <2>1. IInv /\ handed = <<>> /\ pc = "hash"
    BY Initially DEF ProgramInit, Init
  <2>2. TableSeen
    BY <2>1, OneSidedTable DEF IInv, Phased
  <2>3. FromTable
    BY <2>1, NothingHanded DEF FromTable
  <2> QED
    BY <2>1, <2>2, <2>3 DEF SeenInv
<1> QED
  BY <1>1, SeenStep, AlwaysIInv, PTL DEF ProgramSpec

\* When texts are written, a connection whose SYN and SYN+ACK were captured
\* stands in the order in which the requester saw it, whichever slot the walk
\* of tidy_flow came to first and wherever the other one is.
THEOREM RequesterSeesOrder == ProgramSpec => []RequesterOrder
<1>1. IInv => Slots = AllSlots
  BY DEF IInv, TableTypes, Tables, Slots
<1>2. IInv /\ SeenInv => RequesterOrder
  BY <1>1 DEF SeenInv, TableSeen, SeenInOrder, RequesterOrder, Filled
<1> QED
  BY <1>2, AlwaysIInv, AlwaysSeenInv, PTL

-----------------------------------------------------------------------------
(* The handshake is found.                                                 *)

\* One number follows another, also over the wrap.
LEMMA OneBehind ==
    ASSUME NEW x \in SeqNumbers
    PROVE  /\ (x + 1) % SeqSpace \in SeqNumbers /\ SeqDiff(x, (x + 1) % SeqSpace) < 0
           /\ SeqDiff(x, x) = 0
<1>1. /\ HalfSpace \in Nat \ {0} /\ SeqSpace = 2 * HalfSpace /\ x \in Nat /\ x < SeqSpace
  BY HalfOfSpace DEF SeqNumbers
<1>2. CASE x + 1 < SeqSpace
  <2>1. (x + 1) % SeqSpace = x + 1
    BY <1>1, <1>2
  <2>2. SeqDiff(x, x + 1) = 0 - 1
    BY <1>1 DEF SeqDiff
  <2> QED
    BY <1>1, <1>2, <2>1, <2>2 DEF SeqNumbers, SeqDiff
<1>3. CASE x + 1 = SeqSpace
  <2>1. SeqSpace % SeqSpace = 0
    BY <1>1
  <2>2. (x + 1) % SeqSpace = 0
    BY <1>3, <2>1
  <2>3. SeqDiff(x, 0) = 0 - 1
    BY <1>1, <1>3 DEF SeqDiff
  <2> QED
    BY <1>1, <2>2, <2>3 DEF SeqNumbers, SeqDiff
<1> QED
  BY <1>1, <1>2, <1>3

LEMMA NoDifference ==
    ASSUME NEW x \in SeqNumbers, NEW y \in SeqNumbers, SeqDiff(x, y) = 0
    PROVE  x = y
<1>1. /\ HalfSpace \in Nat \ {0} /\ SeqSpace = 2 * HalfSpace /\ x \in Nat /\ x < SeqSpace
      /\ y \in Nat /\ y < SeqSpace
  BY HalfOfSpace DEF SeqNumbers
<1> QED
  BY <1>1 DEF SeqDiff

LEMMA Tied ==
    ASSUME NEW p \in Packet, NEW q \in Packet, Compare(p, q) = 0
    PROVE  p.seq = q.seq /\ p.ack = q.ack
<1>1. /\ p.seq \in SeqNumbers /\ p.ack \in SeqNumbers
      /\ q.seq \in SeqNumbers /\ q.ack \in SeqNumbers
  BY DEF Packet
<1>2. SeqDiff(p.seq, q.seq) = 0 /\ SeqDiff(p.ack, q.ack) = 0
  BY DEF Compare
<1> QED
  BY <1>1, <1>2, NoDifference

\* The packets of a handshake, the second seen from the requester.
LEMMA HandshakeAscends ==
    ASSUME NEW p \in Packet, NEW q \in Packet, NEW r \in Packet, Handshake(<<p, q, r>>)
    PROVE  Compare(p, Exchange(q)) < 0 /\ Compare(Exchange(q), r) < 0
<1>1. /\ q.ack = (p.seq + 1) % SeqSpace /\ q.ack = r.seq /\ r.ack = (q.seq + 1) % SeqSpace
  BY DEF Handshake
<1>2. p.seq \in SeqNumbers /\ q.seq \in SeqNumbers /\ q.ack \in SeqNumbers
  BY DEF Packet
<1>3. Exchange(q).seq = q.ack /\ Exchange(q).ack = q.seq
  BY Exchanged
<1>4. Compare(p, Exchange(q)) < 0
  <2>1. SeqDiff(p.seq, Exchange(q).seq) < 0
    BY <1>1, <1>2, <1>3, OneBehind
  <2> QED
    BY <2>1 DEF Compare
<1>5. Compare(Exchange(q), r) < 0
  <2>1. SeqDiff(Exchange(q).seq, r.seq) = 0
    BY <1>1, <1>2, <1>3, OneBehind
  <2>2. SeqDiff(Exchange(q).ack, r.ack) < 0
    BY <1>1, <1>2, <1>3, OneBehind
  <2> QED
    BY <2>1, <2>2 DEF Compare
<1> QED
  BY <1>4, <1>5

\* In order, a packet that is before all others is the first; one that is
\* before all but that is the second; one that none of the rest is before,
\* ties with the third.
LEMMA FirstThree ==
    ASSUME NEW e \in Lists, InWindow(e), InOrder(e),
           NEW j \in 1..Len(e), NEW k \in 1..Len(e), NEW l \in 1..Len(e),
           Compare(e[j], e[k]) < 0, Compare(e[k], e[l]) < 0,
           \A i \in 1..Len(e) \ {j, k, l} : Compare(e[l], e[i]) <= 0
    PROVE  /\ Len(e) >= 3 /\ j = 1 /\ k = 2
           /\ 3 # l => 3 \in 1..Len(e) \ {j, k, l} /\ Compare(e[l], e[3]) = 0
<1> DEFINE n == Len(e)
<1>1. DOMAIN e = 1..n /\ n \in Nat /\ \A i \in 1..n : e[i] \in ToSet(e)
  BY Members
<1>2. \A x, y \in 1..n : /\ Compare(e[x], e[y]) \in Int
                         /\ Compare(e[y], e[x]) = 0 - Compare(e[x], e[y])
  BY <1>1, CompareOrders
<1>3. ASSUME NEW x \in 1..n, NEW y \in 1..n, NEW z \in 1..n
      PROVE  Compare(e[x], e[y]) < 0 /\ Compare(e[y], e[z]) <= 0 => Compare(e[x], e[z]) < 0
  BY <1>1, CompareOrders
<1> HIDE DEF n
<1>4. j \in 1..n /\ k \in 1..n /\ l \in 1..n
  BY DEF n
<1>5. ASSUME NEW x \in 1..n, NEW y \in 1..n, Compare(e[x], e[y]) < 0 PROVE x < y
  <2>1. ~(y < x)
    <3>1. Compare(e[x], e[y]) \in Int /\ Compare(e[y], e[x]) = 0 - Compare(e[x], e[y])
      BY <1>2
    <3>2. ~(Compare(e[y], e[x]) <= 0)
      BY <1>5, <3>1
    <3> QED
      BY <1>1, <3>2 DEF InOrder
  <2>2. x # y
    <3>1. Compare(e[x], e[x]) = 0 - Compare(e[x], e[x]) /\ Compare(e[x], e[x]) \in Int
      BY <1>2
    <3> QED
      BY <1>5, <3>1
  <2> QED
    BY <1>1, <2>1, <2>2
<1>6. Compare(e[j], e[l]) < 0
  <2>1. Compare(e[k], e[l]) <= 0
    <3>1. Compare(e[k], e[l]) \in Int
      BY <1>2, <1>4
    <3> QED
      BY <3>1
  <2> QED
    BY <1>3, <1>4, <2>1
<1>7. ASSUME NEW i \in 1..n, i # j PROVE j < i
  <2>1. CASE i = k
    BY <1>4, <1>5, <2>1
  <2>2. CASE i = l
    BY <1>4, <1>5, <1>6, <2>2
  <2>3. CASE i \notin {j, k, l}
    <3>1. Compare(e[l], e[i]) <= 0
      BY <2>3 DEF n
    <3>2. Compare(e[j], e[i]) < 0
      BY <1>3, <1>4, <1>6, <3>1
    <3> QED
      BY <1>4, <1>5, <3>2
  <2> QED
    BY <1>7, <2>1, <2>2, <2>3
<1>8. ASSUME NEW i \in 1..n, i # j, i # k PROVE k < i
  <2>1. CASE i = l
    BY <1>4, <1>5, <2>1
  <2>2. CASE i # l
    <3>1. Compare(e[l], e[i]) <= 0
      BY <1>8, <2>2 DEF n
    <3>2. Compare(e[k], e[i]) < 0
      BY <1>3, <1>4, <3>1
    <3> QED
      BY <1>4, <1>5, <3>2
  <2> QED
    BY <2>1, <2>2
<1>9. j = 1
  <2>1. 1 \in 1..n
    BY <1>1, <1>4
  <2>2. CASE j # 1
    BY <1>4, <1>7, <2>1, <2>2
  <2> QED
    BY <2>2
<1>10. k < l
  BY <1>4, <1>5
<1>11. j < k
  BY <1>4, <1>5
<1>12. k = 2
  <2>1. 2 \in 1..n
    BY <1>1, <1>4, <1>9, <1>11
  <2>2. CASE k # 2
    BY <1>4, <1>8, <1>9, <1>11, <2>1, <2>2
  <2> QED
    BY <2>2
<1>13. n >= 3
  BY <1>1, <1>4, <1>10, <1>12
<1>14. ASSUME 3 # l PROVE 3 \in 1..n \ {j, k, l} /\ Compare(e[l], e[3]) = 0
  <2>1. 3 \in 1..n /\ 3 < l
    BY <1>1, <1>4, <1>10, <1>12, <1>13, <1>14
  <2>2. Compare(e[3], e[l]) <= 0
    BY <1>1, <1>4, <2>1 DEF InOrder
  <2>3. 3 \in 1..n \ {j, k, l}
    BY <1>9, <1>12, <1>14, <2>1
  <2>4. Compare(e[l], e[3]) <= 0
    BY <2>3 DEF n
  <2>5. Compare(e[l], e[3]) \in Int /\ Compare(e[3], e[l]) = 0 - Compare(e[l], e[3])
    BY <1>2, <1>4, <2>1
  <2> QED
    BY <2>2, <2>3, <2>4, <2>5
<1> QED
  BY <1>9, <1>12, <1>13, <1>14 DEF n

\* A handshake that is told apart from the rest of its connection.
LEMMA HandshakeInFront ==
    ASSUME Known(Captured, slot), NEW c \in Lists,
           NEW j \in DOMAIN c, NEW k \in DOMAIN c, NEW l \in DOMAIN c,
           PlainOpening(c, j, k, l), InWindow(SeenFrom(c, c[j].key)),
           InOrder(SeenFrom(c, c[j].key))
    PROVE  Handshake(c) /\ j = 1 /\ k = 2
<1> DEFINE e == SeenFrom(c, c[j].key)
<1>1. /\ ToSet(c) \subseteq Captured /\ Opens(c, j, k)
      /\ c[l].key = c[j].key /\ Handshake(<<c[j], c[k], c[l]>>)
      /\ \A i \in DOMAIN c \ {j, k, l} :
              \/ Compare(e[l], e[i]) < 0
              \/ Compare(e[l], e[i]) = 0 /\ c[i].key = c[l].key /\ c[i].ackflag
  BY DEF PlainOpening
<1>2. /\ DOMAIN c = 1..Len(c) /\ Len(c) \in Nat
      /\ \A i \in 1..Len(c) : c[i] \in Packet /\ c[i] \in Captured
  BY <1>1, Members
<1>3. \A i \in 1..Len(c) : AsCaptured(c[i]) = c[i]
  BY <1>2, AsCapturedIs
<1>4. /\ e \in Lists /\ Len(e) = Len(c)
      /\ \A i \in 1..Len(c) : e[i] = IF c[i].key = c[j].key THEN c[i] ELSE Exchange(c[i])
  <2>1. \A x \in ToSet(c) : \E p \in Captured : p.n = x.n /\ p.key = x.key
    BY <1>1
  <2> QED
    BY <1>3, <2>1, SeenFromIs
<1>5. InWindow(e) /\ InOrder(e)
  OBVIOUS
<1> HIDE DEF e
<1>6. e[j] = c[j] /\ e[k] = Exchange(c[k]) /\ e[l] = c[l]
  BY <1>1, <1>2, <1>4 DEF Opens
<1>7. Compare(e[j], e[k]) < 0 /\ Compare(e[k], e[l]) < 0
  BY <1>1, <1>2, <1>6, HandshakeAscends
<1>8. \A i \in 1..Len(e) \ {j, k, l} : Compare(e[l], e[i]) <= 0
  <2> SUFFICES ASSUME NEW i \in 1..Len(c) \ {j, k, l} PROVE Compare(e[l], e[i]) <= 0
    BY <1>4
  <2>1. Compare(e[l], e[i]) \in Int
    BY <1>2, <1>4, <1>5, Members, CompareOrders
  <2> QED
    BY <1>1, <1>2, <2>1
<1>9. /\ Len(c) >= 3 /\ j = 1 /\ k = 2
      /\ 3 # l => 3 \in 1..Len(c) \ {j, k, l} /\ Compare(e[l], e[3]) = 0
  <2>1. j \in 1..Len(e) /\ k \in 1..Len(e) /\ l \in 1..Len(e)
    BY <1>2, <1>4
  <2>2. /\ Len(e) >= 3 /\ j = 1 /\ k = 2
        /\ 3 # l => 3 \in 1..Len(e) \ {j, k, l} /\ Compare(e[l], e[3]) = 0
    BY <1>4, <1>5, <1>7, <1>8, <2>1, FirstThree
  <2> QED
    BY <1>4, <2>2
<1>10. /\ c[1].syn /\ c[2].syn /\ c[2].ackflag /\ c[l].ackflag
       /\ c[2].ack = (c[1].seq + 1) % SeqSpace
       /\ c[2].ack = c[l].seq
       /\ c[l].ack = (c[2].seq + 1) % SeqSpace
  BY <1>1, <1>9 DEF Handshake
<1>11. c[3].ackflag /\ c[3].seq = c[l].seq /\ c[3].ack = c[l].ack
  <2>1. CASE 3 = l
    BY <1>10, <2>1
  <2>2. CASE 3 # l
    <3>1. c[3].key = c[l].key /\ c[3].ackflag
      BY <1>1, <1>2, <1>9, <2>2
    <3>2. e[3] = c[3]
      BY <1>1, <1>4, <1>9, <2>2, <3>1
    <3>3. e[l] \in Packet /\ e[3] \in Packet
      BY <1>2, <1>6, <1>9, <2>2, <3>2
    <3>4. e[l].seq = e[3].seq /\ e[l].ack = e[3].ack
      BY <1>9, <2>2, <3>3, Tied
    <3> QED
      BY <1>6, <3>1, <3>2, <3>4
  <2> QED
    BY <2>1, <2>2
<1> QED
  BY <1>9, <1>10, <1>11 DEF Handshake

\* A connection whose handshake is complete before anything else comes is
\* handed to write_tcp_data_to_file with that handshake in front, so that its
\* text is written.
THEOREM PlainHandshakesPass == ProgramSpec => []PlainHandshakeFound
<1>1. IInv /\ SeenInv => PlainHandshakeFound
  <2> SUFFICES ASSUME IInv, SeenInv, NEW m \in DOMAIN handed,
                      NEW j \in DOMAIN handed[m], NEW k \in DOMAIN handed[m],
                      NEW l \in DOMAIN handed[m],
                      PlainOpening(handed[m], j, k, l),
                      InWindow(SeenFrom(handed[m], handed[m][j].key))
               PROVE  Handshake(handed[m])
    BY DEF PlainHandshakeFound
  <2> DEFINE c == handed[m]
  <2>1. PICK s \in AllSlots : c = nodes[s]
    BY DEF SeenInv, FromTable
  <2>2. c \in Lists /\ SeenInOrder(c) /\ Known(Captured, slot)
    BY <2>1, CapturedKnown DEF IInv, TableTypes, Tables, SeenInv, TableSeen
  <2>3. /\ j \in DOMAIN c /\ k \in DOMAIN c /\ l \in DOMAIN c
        /\ PlainOpening(c, j, k, l) /\ InWindow(SeenFrom(c, c[j].key))
    OBVIOUS
  <2> HIDE DEF c
  <2>4. InOrder(SeenFrom(c, c[j].key))
    BY <2>2, <2>3 DEF SeenInOrder, PlainOpening
  <2>5. Handshake(c)
    BY <2>2, <2>3, <2>4, HandshakeInFront
  <2> QED
    BY <2>5 DEF c
<1> QED
  BY <1>1, AlwaysIInv, AlwaysSeenInv, PTL


-----------------------------------------------------------------------------
(* Headers as captured: they are when the walk has come to the requester   *)
(* first.                                                                  *)

\* The side whose slot comes first has sent no SYN+ACK.
Faithful(c, C, sl) ==
    \A k \in Keys :
        /\ sl[k] < sl[Reversed(k)]
        /\ \E e \in ToSet(c) : e.key = k
        /\ \A e \in ToSet(c) : e.key = k => ~IsSynAck(e)
        => ToSet(c) \subseteq C

FaithInv == \A s \in AllSlots : Faithful(nodes[s], Captured, slot)

LEMMA FaithStays ==
    ASSUME NEW M, nodes' = M, Captured' = Captured, slot' = slot,
           \A s \in AllSlots : Faithful(M[s], Captured, slot)
    PROVE  FaithInv'
BY DEF FaithInv, Faithful

LEMMA OneSidedFaithful ==
    ASSUME NEW c, NEW C, NEW sl, OneSided(c, C) PROVE Faithful(c, C, sl)
BY DEF OneSided, Faithful

LEMMA FaithEarly == IInv /\ pc \in {"hash", "classify", "dump"} => FaithInv
BY OneSidedFaithful DEF IInv, Phased, AllOneSided, FaithInv

\* combine_tcp_nodes is called for the direction whose slot comes first.
LEMMA FirstOfPair == ASSUME IInv, TidyPair PROVE slot[key1] < slot[key2]
<1>1. /\ TableTypes /\ cindex \in Nat /\ slot[key1] = cindex /\ slot[key1] # slot[key2]
      /\ slot[key1] \in AllSlots /\ slot[key2] \in AllSlots
      /\ key1 = Reversed(key2)
      /\ nodes[slot[key1]] # <<>> /\ nodes[slot[key2]] # <<>>
      /\ Head(nodes[slot[key1]]).key = key1 /\ Head(nodes[slot[key2]]).key = key2
  BY PairToJoin
<1>2. pc = "tidy"
  BY DEF TidyPair, WalkOn
<1>3. PairedBelow(nodes, nindex)
  BY <1>2 DEF IInv, Phased
<1> HIDE DEF cindex, key1, key2
<1>4. Opposite(nodes[slot[key1]], nodes[slot[key2]])
  BY <1>1 DEF Opposite
<1>5. ~(slot[key2] < nindex)
  BY <1>1, <1>3, <1>4 DEF PairedBelow
<1>6. slot[key2] \in Nat /\ nindex \in Nat
  BY <1>1, SlotsAssumption DEF AllSlots, TableTypes
<1>7. cindex <= slot[key2]
  BY <1>1, <1>5, <1>6, WalkPlace
<1> QED
  BY <1>1, <1>6, <1>7

LEMMA JoinedFaithful ==
    ASSUME IInv, TidyPair PROVE Faithful(JoinedPair, Captured, slot)
<1> DEFINE a == nodes[hash1]
           b == nodes[hash2]
           c == JoinedPair
<1>1. /\ nodes \in Tables /\ ToJoin(a, b, Captured) /\ Known(Captured, slot)
      /\ slot[key1] \in AllSlots /\ slot[key2] \in AllSlots
      /\ \/ ~Swapped /\ hash1 = slot[key1] /\ hash2 = slot[key2]
         \/ Swapped /\ hash1 = slot[key2] /\ hash2 = slot[key1]
      /\ key1 # key2 /\ key2 = Reversed(key1) /\ key1 = Reversed(key2)
      /\ nodes[slot[key1]] # <<>>
      /\ Head(nodes[slot[key1]]).key = key1 /\ Head(nodes[slot[key2]]).key = key2
  BY PairToJoin, CapturedKnown DEF IInv, TableTypes
<1>2. a \in Lists /\ b \in Lists
  BY <1>1 DEF Tables
<1>3. Rejoins(a, b, Captured, key2, c)
  <2>1. key2 \in {Head(a).key, Head(b).key}
    BY <1>1
  <2> QED
    BY <1>1, <2>1 DEF Rejoins, JoinedPair
<1>4. Swapped <=> IsSynAck(Head(nodes[slot[key1]]))
  BY DEF Swapped, IsSynAck
<1>5. slot[key1] < slot[key2] /\ slot[key1] \in Nat /\ slot[key2] \in Nat
  BY <1>1, FirstOfPair, SlotsAssumption DEF AllSlots
<1>6. /\ TwoSided(c, Captured) /\ Head(c).key \in {key1, key2} /\ c \in Lists
  BY PairJoined
<1> HIDE DEF c, key1, key2
<1> SUFFICES ASSUME NEW k \in Keys, slot[k] < slot[Reversed(k)],
                    \E e \in ToSet(c) : e.key = k,
                    \A e \in ToSet(c) : e.key = k => ~IsSynAck(e)
             PROVE  ToSet(c) \subseteq Captured
  BY DEF Faithful, c
<1>7. k = key1
  <2>1. k \in {key1, key2}
    BY <1>1, <1>6 DEF TwoSided
  <2>2. k # key2
    BY <1>1, <1>5
  <2> QED
    BY <2>1, <2>2
<1>8. ~Swapped
  <2> SUFFICES ASSUME Swapped PROVE FALSE
    OBVIOUS
  <2>1. b = nodes[slot[key1]] /\ b # <<>> /\ Head(b).key = key1
    BY <1>1
  <2>2. IsSynAck(Head(b))
    BY <1>4, <2>1
  <2> HIDE DEF a, b
  <2>3. Head(b) \in ToSet(b)
    BY <1>2, <2>1, HeadIn
  <2>4. PICK i \in 1..Len(c) : AsCaptured(c[i]) = Head(b)
    BY <1>1, <1>2, <1>3, <2>3, JoinedFrom
  <2>5. c[i].key = key1 /\ IsSynAck(c[i])
    <3>1. /\ AsCaptured(c[i]).key = c[i].key /\ AsCaptured(c[i]).syn = c[i].syn
          /\ AsCaptured(c[i]).ackflag = c[i].ackflag
      BY <1>1, <1>2, <1>3, JoinedFrom
    <3> QED
      BY <2>1, <2>2, <2>4, <3>1 DEF IsSynAck
  <2>6. c[i] \in ToSet(c)
    BY <1>6, Members
  <2> QED
    BY <1>7, <2>5, <2>6
<1>9. key2 = Head(b).key
  BY <1>1, <1>8
<1> HIDE DEF a, b
<1> QED
  BY <1>2, <1>3, <1>9, RecoveredKeeps

LEMMA FaithTidyPair == IInv /\ FaithInv /\ TidyPair => FaithInv'
<1> SUFFICES ASSUME IInv, FaithInv, TidyPair PROVE FaithInv'
  OBVIOUS
<1> DEFINE i == hash1
           j == hash2
           c == JoinedPair
           h == slot[Head(c).key]
<1>1. capture' = capture /\ read' = read /\ slot' = slot
  BY DEF TidyPair, WalkOn
<1>2. Captured' = Captured
  BY <1>1, CapturedStays
<1>3. Faithful(c, Captured, slot)
  BY JoinedFaithful
<1>4. Merged(nodes, nodes', i, j, h, c)
  BY PairJoined
<1> HIDE DEF i, j, c, h
<1>5. PICK M : M = nodes'
  OBVIOUS
<1>6. /\ M[h] = c
      /\ \A s \in AllSlots : s = h \/ M[s] = <<>> \/ M[s] = nodes[s]
  BY <1>4, <1>5 DEF Merged
<1>7. Faithful(<<>>, Captured, slot)
  BY NoPackets DEF Faithful
<1>8. ASSUME NEW s \in AllSlots PROVE Faithful(M[s], Captured, slot)
  BY <1>3, <1>6, <1>7 DEF FaithInv
<1> QED
  BY <1>1, <1>2, <1>5, <1>8, FaithStays

LEMMA FaithStep == IInv /\ IInv' /\ FaithInv /\ [ProgramNext]_allVars => FaithInv'
<1> SUFFICES ASSUME IInv, IInv', FaithInv, [ProgramNext]_allVars PROVE FaithInv'
  OBVIOUS
<1>1. ASSUME nodes' = nodes, capture' = capture, read' = read, slot' = slot PROVE FaithInv'
  BY <1>1, CapturedStays, FaithStays DEF FaithInv
<1>2. CASE HashPacket \/ HashEnd \/ ClassifyChain \/ DumpChain
  <2>1. pc' \in {"hash", "classify", "dump"}
    BY <1>2 DEF HashPacket, HashEnd, ClassifyChain, DumpChain, WalkOn
  <2>2. (IInv /\ pc \in {"hash", "classify", "dump"} => FaithInv)'
    BY FaithEarly, PTL
  <2> QED
    BY <2>1, <2>2
<1>3. CASE TidyPair
  BY <1>3, FaithTidyPair
<1>4. CASE TidySingle \/ WalkEnd \/ OpenText
  BY <1>1, <1>4 DEF TidySingle, WalkOn, WalkEnd, OpenText, WriteChain
<1>5. CASE DumpFails \/ OutOfMemory \/ TidySelf \/ BreakOff
  BY <1>1, <1>5 DEF DumpFails, OutOfMemory, TidySelf, BreakOff
<1>6. CASE TextStep \/ CloseText \/ UNCHANGED allVars
  <2>1. UNCHANGED vars
    BY <1>6 DEF TextStep, CloseText, allVars
  <2> QED
    BY <1>1, <2>1 DEF vars
<1> QED
  BY <1>2, <1>3, <1>4, <1>5, <1>6 DEF ProgramNext, PassStep, Prepare

LEMMA AlwaysFaithful == ProgramSpec => []FaithInv
<1>1. ProgramInit => FaithInv
  BY Initially, FaithEarly DEF ProgramInit, Init
<1> QED
  BY <1>1, FaithStep, AlwaysIInv, PTL DEF ProgramSpec

\* The condition under which main.c:290 keeps its promise ("recovery seq and
\* ack in original node2"), which HeadersRestored shows it does not always do:
\* if a side has the lower slot of the two and has sent no SYN+ACK, every header
\* of its chain is as captured, at any time.
THEOREM RestoredRequesterFirst ==
    ProgramSpec => [](\A s \in AllSlots, k \in Keys :
                          /\ slot[k] < slot[Reversed(k)]
                          /\ \E e \in ToSet(nodes[s]) : e.key = k
                          /\ \A e \in ToSet(nodes[s]) : e.key = k => ~IsSynAck(e)
                          => ToSet(nodes[s]) \subseteq Captured)
<1>1. FaithInv => \A s \in AllSlots, k \in Keys :
                      /\ slot[k] < slot[Reversed(k)]
                      /\ \E e \in ToSet(nodes[s]) : e.key = k
                      /\ \A e \in ToSet(nodes[s]) : e.key = k => ~IsSynAck(e)
                      => ToSet(nodes[s]) \subseteq Captured
  BY DEF FaithInv, Faithful
<1> QED
  BY <1>1, AlwaysFaithful, PTL

-----------------------------------------------------------------------------
(* The texts.  What is proved about Reassembly holds of the chain at hand: *)
(* it is of two directions.                                                *)

TwoKeyed == {c \in Seq(Packet) : \A j, k, l \in DOMAIN c : \/ c[j].key = c[k].key
                                                           \/ c[k].key = c[l].key
                                                           \/ c[j].key = c[l].key}

RP == INSTANCE Reassembly_proofs WITH pc <- wpc, Chains <- TwoKeyed

LEMMA SamePacket == RP!Packet = Packet
BY DEF RP!Packet, Packet, RP!SeqNumbers, SeqNumbers

LEMMA TextInit == RP!Init => RP!FileInv /\ RP!OrderInv
<1>1. \A c \in TwoKeyed : /\ c \in Seq(RP!Packet)
                          /\ \A j, k, l \in DOMAIN c : \/ c[j].key = c[k].key
                                                       \/ c[k].key = c[l].key
                                                       \/ c[j].key = c[l].key
  BY SamePacket DEF TwoKeyed
<1> QED
  BY <1>1, SeqSpaceAssumption, RP!InitFile, RP!InitOrder

LEMMA TextNext == RP!FileInv /\ RP!OrderInv /\ [RP!Next]_(RP!vars) => RP!FileInv' /\ RP!OrderInv'
<1>1. \A c \in TwoKeyed : /\ c \in Seq(RP!Packet)
                          /\ \A j, k, l \in DOMAIN c : \/ c[j].key = c[k].key
                                                       \/ c[k].key = c[l].key
                                                       \/ c[j].key = c[l].key
  BY SamePacket DEF TwoKeyed
<1> QED
  BY <1>1, SeqSpaceAssumption, RP!NextFile, RP!NextOrder

\* A step of the text is one of Reassembly.
LEMMA TextMoves ==
    /\ R!WriteData \/ R!NothingToWrite \/ R!JudgeContinuing \/ R!JudgeOther => RP!Next
    /\ R!WriteFails \/ R!JudgeThroughNull \/ R!Close => RP!Next
    /\ UNCHANGED textVars => UNCHANGED RP!vars
<1>1. R!null = RP!null /\ R!next = RP!next /\ R!WriteLen = RP!WriteLen /\ R!Gap = RP!Gap
  BY DEF R!null, RP!null, R!next, RP!next, R!WriteLen, RP!WriteLen, R!Gap, RP!Gap
<1>2. \A a, b : R!Same(a, b) <=> RP!Same(a, b)
  BY <1>1 DEF R!Same, RP!Same
<1>3. R!Judge = RP!Judge /\ R!Recorded = RP!Recorded /\ R!Delimiter = RP!Delimiter
  BY <1>1, <1>2 DEF R!Judge, RP!Judge, R!Recorded, RP!Recorded, R!Delimiter, RP!Delimiter
<1>4. R!Overlap = RP!Overlap /\ (R!Continues <=> RP!Continues) /\ (R!Advance <=> RP!Advance)
  BY <1>1, <1>3 DEF R!Overlap, RP!Overlap, R!Continues, RP!Continues, R!JudgeAck, RP!JudgeAck,
                    R!Advance, RP!Advance
<1>5. /\ R!WriteData => RP!WriteData
      /\ R!NothingToWrite => RP!NothingToWrite
      /\ R!WriteFails => RP!WriteFails
      /\ R!Close => RP!Close
  BY <1>1 DEF R!WriteData, R!NothingToWrite, R!WriteFails, R!Close, R!cursors,
              RP!WriteData, RP!NothingToWrite, RP!WriteFails, RP!Close, RP!cursors
<1>6. /\ R!JudgeContinuing => RP!JudgeContinuing
      /\ R!JudgeOther => RP!JudgeOther
      /\ R!JudgeThroughNull => RP!JudgeThroughNull
  BY <1>1, <1>3, <1>4 DEF R!JudgeContinuing, RP!JudgeContinuing, R!JudgeOther, RP!JudgeOther,
         R!JudgeThroughNull, RP!JudgeThroughNull, R!cursors, RP!cursors
<1>7. UNCHANGED textVars => UNCHANGED RP!vars
  BY DEF textVars, RP!vars, RP!cursors
<1> QED
  BY <1>5, <1>6, <1>7 DEF RP!Next

\* A chain of the table is one write_tcp_data_to_file may be given.
LEMMA ChainOfTwo ==
    ASSUME NEW c \in Lists, NEW C, c # <<>>, OneSided(c, C) \/ TwoSided(c, C)
    PROVE  c \in TwoKeyed
<1>1. c \in Seq(Packet) /\ \A j \in DOMAIN c : c[j] \in ToSet(c)
  BY Members DEF Lists
<1>2. \A j \in DOMAIN c : c[j].key \in {Head(c).key, Reversed(Head(c).key)}
  BY <1>1 DEF OneSided, TwoSided
<1> QED
  BY <1>1, <1>2 DEF TwoKeyed

-----------------------------------------------------------------------------
(* What a finished text says.                                              *)

Ascending(c) == \A j, k \in 3..Len(c) :
    j < k /\ c[j].key = c[k].key /\ c[j].ack = c[k].ack => c[j].seq <= c[k].seq
Apart(c) == \A j, k \in 3..Len(c) : c[j].key # c[k].key => c[j].ack # c[k].ack

PiecesIn(f) == {m \in DOMAIN f : f[m].node # R!null}

InText(c, f, k, x) == \E m \in PiecesIn(f) : /\ c[f[m].node].key = k
                                             /\ c[f[m].node].seq + f[m].from <= x
                                             /\ x < c[f[m].node].seq + c[f[m].node].len

\* All bytes behind the handshake are in it, and its pieces stand in the
\* order of the chain.
Whole(c, f) == Handshake(c) /\ Ascending(c) /\ Apart(c) =>
    \A j \in 3..Len(c) : \A x \in c[j].seq..(c[j].seq + c[j].len - 1) : InText(c, f, c[j].key, x)
InSteps(c, f) ==
    /\ PiecesIn(f) \subseteq Nat /\ \A m \in PiecesIn(f) : f[m].node \in 3..Len(c)
    /\ \A m, l \in PiecesIn(f) : m < l => f[m].node < f[l].node

LEMMA TextDone ==
    ASSUME RP!FileInv, RP!OrderInv, wpc = "judge", node = Len(chain)
    PROVE  Whole(chain, file) /\ InSteps(chain, file)
<1>1. /\ RP!TypeOK /\ RP!NoByteLost /\ RP!PiecesSeen
      /\ RP!Handshake(chain) /\ (RP!Handshake(chain) <=> Handshake(chain))
  BY DEF RP!FileInv, RP!OrderInv, RP!TypeOK, RP!Handshake, Handshake
<1>2. RP!Pieces = PiecesIn(file)
  BY DEF RP!Pieces, PiecesIn, R!null, RP!null
<1>3. InSteps(chain, file)
  <2>1. PiecesIn(file) \subseteq Nat
    BY <1>1 DEF RP!TypeOK, PiecesIn
  <2> QED
    BY <1>1, <1>2, <2>1 DEF RP!PiecesSeen, InSteps
<1>4. RP!Seen = 3..Len(chain)
  <2>1. \A j \in 3..node : j < node \/ wpc \in {"judge", "done", "crash"}
    OBVIOUS
  <2> QED
    BY <2>1 DEF RP!Seen
<1>5. RP!NumbersAscend <=> Ascending(chain)
  BY DEF RP!NumbersAscend, Ascending
<1>6. RP!AcksApart <=> Apart(chain)
  BY DEF RP!AcksApart, Apart
<1>7. \A j : RP!DataEnd(j) = chain[j].seq + chain[j].len
  BY DEF RP!DataEnd
<1>8. \A k, x : RP!Written(k, x) => InText(chain, file, k, x)
  BY <1>2, <1>7 DEF RP!Written, InText, RP!Sender, RP!First, RP!Past
<1>9. Whole(chain, file)
  <2> SUFFICES ASSUME Handshake(chain), Ascending(chain), Apart(chain), NEW j \in 3..Len(chain),
                      NEW x \in chain[j].seq..(chain[j].seq + chain[j].len - 1)
               PROVE  InText(chain, file, chain[j].key, x)
    BY DEF Whole
  <2>1. \A b \in chain[j].seq..(RP!DataEnd(j) - 1) : RP!Written(chain[j].key, b)
    BY <1>1, <1>4, <1>5, <1>6 DEF RP!NoByteLost
  <2>2. x \in chain[j].seq..(RP!DataEnd(j) - 1)
    <3>1. chain \in Seq(Packet) /\ j \in 1..Len(chain)
      BY <1>1, SamePacket DEF RP!TypeOK
    <3>2. chain[j] \in Packet
      BY <3>1
    <3>3. chain[j].seq \in Nat /\ chain[j].len \in Nat
      BY <3>2, SeqSpaceAssumption DEF Packet, SeqNumbers
    <3> QED
      BY <3>3 DEF RP!DataEnd
  <2> QED
    BY <1>8, <2>1, <2>2
<1> QED
  BY <1>3, <1>9


-----------------------------------------------------------------------------
(* Every chain handed out has its text.                                    *)

\* The chain in slot s has nothing to write, is being written, or has been.
CoveredBy(s, N, T, w, c) ==
    \/ N[s] = <<>> \/ Whole(N[s], <<>>)
    \/ w \in {"write", "judge"} /\ c = N[s]
    \/ \E t \in T : t.chain = N[s] /\ t.key = Head(N[s]).key /\ Whole(t.chain, t.file)

TextsFrom(T, N) == \A t \in T : \E s \in AllSlots :
    N[s] # <<>> /\ t.chain = N[s] /\ t.key = Head(N[s]).key /\ InSteps(t.chain, t.file)

AllCovered(n, N, T, w, c) == \A s \in AllSlots : s < n => CoveredBy(s, N, T, w, c)

TextsInv ==
    /\ wpc # "none" => RP!FileInv /\ RP!OrderInv
    /\ pc \in Early => wpc = "none" /\ texts = {}
    /\ Writing => pc = "write" /\ \E s \in AllSlots : nodes[s] # <<>> /\ chain = nodes[s]
    /\ TextsFrom(texts, nodes)
    /\ pc = "write" => AllCovered(nindex, nodes, texts, wpc, chain)
    /\ pc = "end" => ~Writing /\ AllCovered(Size - 1, nodes, texts, wpc, chain)

LEMMA NextTexts ==
    ASSUME NEW N, nodes' = N, NEW T, texts' = T, NEW w, wpc' = w, NEW c, chain' = c
    PROVE  /\ TextsFrom(T, N) => TextsFrom(texts, nodes)'
           /\ AllCovered(nindex', N, T, w, c) => AllCovered(nindex, nodes, texts, wpc, chain)'
           /\ AllCovered(Size - 1, N, T, w, c) => AllCovered(Size - 1, nodes, texts, wpc, chain)'
<1>1. TextsFrom(T, N) => TextsFrom(texts, nodes)'
  BY DEF TextsFrom, InSteps, PiecesIn, R!null, AllSlots
<1>2. ASSUME NEW s, CoveredBy(s, N, T, w, c) PROVE CoveredBy(s, nodes, texts, wpc, chain)'
  BY <1>2 DEF CoveredBy, Whole, Handshake, Ascending, Apart, InText, PiecesIn, R!null
<1> QED
  BY <1>1, <1>2 DEF AllCovered, AllSlots

\* The passes before, and the end of the last one.
LEMMA TextsPass == IInv /\ TextsInv /\ PassStep => TextsInv'
<1> SUFFICES ASSUME IInv, TextsInv, PassStep PROVE TextsInv'
  OBVIOUS
<1>1. ~Writing /\ UNCHANGED textVars /\ texts' = texts /\ (Prepare \/ WalkEnd)
  BY DEF PassStep
<1>2. wpc' = wpc /\ chain' = chain /\ (Writing' <=> Writing)
  BY <1>1 DEF textVars, Writing
<1>3. wpc' # "none" => RP!FileInv' /\ RP!OrderInv'
  BY <1>1, <1>2, TextNext, TextMoves DEF TextsInv
<1>4. CASE Prepare /\ ~OutOfMemory
  <2>1. pc \in Early /\ (pc' \in Early \/ pc' \in {"hang", "exit"})
    BY <1>4 DEF Prepare, HashPacket, HashEnd, ClassifyChain, DumpChain, DumpFails,
                TidySingle, TidyPair, TidySelf, WalkOn, Early
  <2>2. texts' = {}
    BY <1>1, <2>1 DEF TextsInv
  <2>3. TextsFrom(texts, nodes)'
    BY <2>2 DEF TextsFrom
  <2> QED
    BY <1>1, <1>2, <1>3, <2>1, <2>2, <2>3 DEF TextsInv, Early
<1>5. CASE WalkEnd
  <2>1. /\ nodes' = nodes /\ nindex' = 0 /\ pc' = NextPass /\ cindex + 1 >= Size
        /\ pc \in {"classify", "dump", "tidy", "write"}
    BY <1>5 DEF WalkEnd
  <2>2. \/ pc \in Early /\ pc' \in {"dump", "tidy", "write"}
        \/ pc = "write" /\ pc' = "end"
    BY <2>1, PassAfter DEF Early
  <2>3. TextsFrom(texts, nodes)'
    BY <1>1, <1>2, <2>1, NextTexts DEF TextsInv
  <2>4. ASSUME pc' = "write" PROVE AllCovered(nindex, nodes, texts, wpc, chain)'
    <3>1. AllCovered(nindex', nodes, texts, wpc, chain)
      BY <2>1, SlotsAssumption DEF AllCovered, AllSlots
    <3> QED
      BY <1>1, <1>2, <2>1, <3>1, NextTexts
  <2>5. ASSUME pc' = "end" PROVE AllCovered(Size - 1, nodes, texts, wpc, chain)'
    <3>1. AllCovered(Size - 1, nodes, texts, wpc, chain)
      <4> SUFFICES ASSUME NEW s \in AllSlots, s < Size - 1, nodes[s] # <<>>
                   PROVE  CoveredBy(s, nodes, texts, wpc, chain)
        BY DEF AllCovered, CoveredBy
      <4>1. s < nindex
        <5>1. s < nindex \/ s = Size - 1
          BY <2>1, WalkEnds DEF IInv
        <5>2. s # Size - 1
          BY SlotsAssumption DEF AllSlots
        <5> QED
          BY <5>1, <5>2
      <4>2. pc = "write"
        BY <2>2, <2>5
      <4> QED
        BY <4>1, <4>2 DEF TextsInv, AllCovered
    <3> QED
      BY <1>1, <1>2, <2>1, <3>1, NextTexts
  <2> QED
    BY <1>1, <1>2, <1>3, <2>2, <2>3, <2>4, <2>5 DEF TextsInv, Early
<1>6. CASE OutOfMemory
  <2>1. nodes' = nodes /\ pc' = "exit"
    BY <1>6 DEF OutOfMemory
  <2>2. TextsFrom(texts, nodes)'
    BY <1>1, <1>2, <2>1, NextTexts DEF TextsInv
  <2> QED
    BY <1>1, <1>2, <1>3, <2>1, <2>2 DEF TextsInv, Early
<1> QED
  BY <1>1, <1>4, <1>5, <1>6

\* A chain is handed out.
LEMMA TextsOpen == IInv /\ TextsInv /\ OpenText => TextsInv'
<1> SUFFICES ASSUME IInv, TextsInv, OpenText PROVE TextsInv'
  OBVIOUS
<1> DEFINE i == cindex
           c == nodes[i]
<1>1. /\ ~Writing /\ WalkOn("write") /\ nodes' = nodes /\ texts' = texts /\ chain' = c
      /\ wpc' = IF Handshake(c) THEN "write" ELSE "done"
  BY DEF OpenText, WriteChain
<1>2. /\ pc = "write" /\ pc' = pc /\ i \in AllSlots /\ i \in Nat /\ c # <<>> /\ c \in Lists
      /\ nindex' = i + 1
      /\ \A s \in AllSlots : s < i + 1 /\ nodes[s] # <<>> => s < nindex \/ s = i
  BY <1>1, WalkStep
<1>3. RP!FileInv' /\ RP!OrderInv'
  <2>1. c \in TwoKeyed
    <3>1. OneSided(c, Captured) \/ TwoSided(c, Captured)
      <4> HIDE DEF i
      <4> QED
        BY <1>2 DEF IInv, ChainedIn, AtHome
    <3> HIDE DEF c
    <3> QED
      BY <1>2, <3>1, ChainOfTwo
  <2>2. (RP!Init => RP!FileInv /\ RP!OrderInv)'
    BY TextInit, PTL
  <2>3. PICK d : d = c
    OBVIOUS
  <2>4. chain' = d /\ wpc' = IF Handshake(d) THEN "write" ELSE "done"
    BY <1>1, <2>3
  <2>5. RP!Init'
    <3>1. /\ node' = 3 /\ offset' = 0
          /\ hdr1' = 3 /\ hdr2' = R!null /\ pip' = R!null /\ last' = R!null /\ file' = <<>>
      BY DEF OpenText
    <3>2. RP!Handshake(chain)' <=> Handshake(d)
      BY <2>4 DEF RP!Handshake, Handshake
    <3>3. chain' \in TwoKeyed'
      BY <2>1, <2>3, <2>4 DEF TwoKeyed
    <3> QED
      BY <2>4, <3>1, <3>2, <3>3 DEF RP!Init, R!null, RP!null
  <2> QED
    BY <2>2, <2>5
<1> HIDE DEF i, c
<1>4. TextsFrom(texts, nodes)'
  BY <1>1, NextTexts DEF TextsInv
<1>5. c = nodes[i]
  BY DEF c
<1>6. PICK w : w = wpc'
  OBVIOUS
<1>7. AllCovered(i + 1, nodes, texts, w, c)
  <2> SUFFICES ASSUME NEW s \in AllSlots, s < i + 1, nodes[s] # <<>>
               PROVE  CoveredBy(s, nodes, texts, w, c)
    BY DEF AllCovered, CoveredBy
  <2>1. CASE s = i
    <3>1. CASE Handshake(c)
      BY <1>1, <1>5, <1>6, <2>1, <3>1 DEF CoveredBy
    <3>2. CASE ~Handshake(c)
      BY <1>5, <2>1, <3>2 DEF CoveredBy, Whole
    <3> QED
      BY <3>1, <3>2
  <2>2. CASE s < nindex
    BY <1>1, <1>2, <2>2 DEF TextsInv, AllCovered, CoveredBy, Writing
  <2> QED
    BY <1>2, <2>1, <2>2
<1>8. AllCovered(nindex, nodes, texts, wpc, chain)'
  <2>1. AllCovered(nindex', nodes, texts, w, c)
    BY <1>2, <1>7
  <2> QED
    BY <1>1, <1>6, <2>1, NextTexts
<1>9. \E s \in AllSlots : nodes'[s] # <<>> /\ chain' = nodes'[s]
  BY <1>1, <1>2, <1>5
<1> QED
  BY <1>2, <1>3, <1>4, <1>8, <1>9 DEF TextsInv, Early, AllSlots

\* A packet is dealt with; writing fails; nothing happens.
LEMMA TextsMove ==
    ASSUME TextsInv, [RP!Next]_(RP!vars), chain' = chain, nodes' = nodes, texts' = texts,
           nindex' = nindex, wpc' # "none" => wpc # "none",
           \/ pc = "write" /\ Writing /\ Writing' /\ pc' = pc
           \/ pc' \in {"exit", "crash"} /\ ~Writing'
           \/ UNCHANGED <<pc, wpc>>
    PROVE  TextsInv'
<1>1. wpc' # "none" => RP!FileInv' /\ RP!OrderInv'
  BY TextNext DEF TextsInv
<1>2. TextsFrom(texts, nodes)'
  BY NextTexts DEF TextsInv
<1>3. ASSUME UNCHANGED <<pc, wpc>> PROVE TextsInv'
  <2>1. /\ pc' = "write" => AllCovered(nindex, nodes, texts, wpc, chain)'
        /\ pc' = "end" => AllCovered(Size - 1, nodes, texts, wpc, chain)'
    BY <1>3, NextTexts DEF TextsInv
  <2> QED
    BY <1>1, <1>2, <1>3, <2>1 DEF TextsInv, Writing, Early, AllSlots
<1>4. ASSUME pc = "write", Writing, Writing', pc' = pc PROVE TextsInv'
  <2>1. PICK w : w = wpc'
    OBVIOUS
  <2>2. w \in {"write", "judge"}
    BY <1>4, <2>1 DEF Writing
  <2>3. AllCovered(nindex, nodes, texts, w, chain)
    BY <1>4, <2>2 DEF TextsInv, AllCovered, CoveredBy
  <2>4. AllCovered(nindex, nodes, texts, wpc, chain)'
    BY <2>1, <2>3, NextTexts
  <2> QED
    BY <1>1, <1>2, <1>4, <2>4 DEF TextsInv, Early, AllSlots
<1>5. ASSUME pc' \in {"exit", "crash"}, ~Writing' PROVE TextsInv'
  BY <1>1, <1>2, <1>5 DEF TextsInv, Early
<1> QED
  BY <1>3, <1>4, <1>5

\* A chain is finished: its text is there if anything was written.
LEMMA TextsClose == TextsInv /\ CloseText => TextsInv'
<1> SUFFICES ASSUME TextsInv, CloseText PROVE TextsInv'
  OBVIOUS
<1> DEFINE r == [key |-> Head(chain).key, chain |-> chain, file |-> file]
<1>1. /\ wpc = "judge" /\ node = Len(chain) /\ wpc' = "done" /\ chain' = chain
      /\ UNCHANGED vars /\ R!Close
      /\ file # <<>> => texts' = texts \cup {r}
      /\ file = <<>> => texts' = texts
  BY DEF CloseText, R!Close
<1>2. /\ RP!FileInv /\ RP!OrderInv /\ pc = "write" /\ ~Writing'
      /\ TextsFrom(texts, nodes) /\ AllCovered(nindex, nodes, texts, wpc, chain)
  BY <1>1 DEF TextsInv, Writing
<1>3. PICK s \in AllSlots : nodes[s] # <<>> /\ chain = nodes[s]
  BY <1>1 DEF TextsInv, Writing
<1>4. wpc' # "none" => RP!FileInv' /\ RP!OrderInv'
  BY <1>1, <1>2, TextNext, TextMoves
<1>5. Whole(chain, file) /\ InSteps(chain, file)
  BY <1>1, <1>2, TextDone
<1>6. PICK T : T = texts'
  OBVIOUS
<1>7. /\ texts \subseteq T /\ \A t \in T : t \in texts \/ t = r
      /\ file # <<>> => r \in T
  BY <1>1, <1>6
<1>8. r.key = Head(chain).key /\ r.chain = chain /\ r.file = file
  OBVIOUS
<1> HIDE DEF r
<1>9. TextsFrom(T, nodes)
  BY <1>2, <1>3, <1>5, <1>7, <1>8 DEF TextsFrom
<1>10. AllCovered(nindex, nodes, T, "done", chain)
  <2> SUFFICES ASSUME NEW q \in AllSlots, q < nindex PROVE CoveredBy(q, nodes, T, "done", chain)
    BY DEF AllCovered
  <2>1. CoveredBy(q, nodes, texts, wpc, chain)
    BY <1>2 DEF AllCovered
  <2>2. CASE chain = nodes[q]
    BY <1>5, <1>7, <1>8, <2>2 DEF CoveredBy
  <2>3. CASE chain # nodes[q]
    BY <1>7, <2>1, <2>3 DEF CoveredBy
  <2> QED
    BY <2>2, <2>3
<1>11. nodes' = nodes /\ nindex' = nindex /\ pc' = pc
  BY <1>1 DEF vars
<1>12. TextsFrom(texts, nodes)' /\ AllCovered(nindex, nodes, texts, wpc, chain)'
  BY <1>1, <1>6, <1>9, <1>10, <1>11, NextTexts
<1> QED
  BY <1>2, <1>4, <1>11, <1>12 DEF TextsInv, Early

LEMMA TextsStep == IInv /\ TextsInv /\ [ProgramNext]_allVars => TextsInv'
<1> SUFFICES ASSUME IInv, TextsInv, [ProgramNext]_allVars PROVE TextsInv'
  OBVIOUS
<1>1. CASE PassStep
  BY <1>1, TextsPass
<1>2. CASE OpenText
  BY <1>2, TextsOpen
<1>3. CASE CloseText
  BY <1>3, TextsClose
<1>4. CASE TextStep
  <2>1. [RP!Next]_(RP!vars)
    BY <1>4, TextMoves DEF TextStep
  <2>2. /\ Writing /\ nodes' = nodes /\ texts' = texts /\ nindex' = nindex /\ pc' = pc
    BY <1>4 DEF TextStep, vars
  <2>3. chain' = chain /\ wpc' \in {"write", "judge"}
    BY <1>4 DEF TextStep, R!WriteData, R!NothingToWrite, R!JudgeContinuing, R!JudgeOther,
                R!Advance
  <2>4. pc = "write" /\ Writing' /\ wpc # "none"
    BY <2>2, <2>3 DEF TextsInv, Writing
  <2> QED
    BY <2>1, <2>2, <2>3, <2>4, TextsMove
<1>5. CASE BreakOff
  <2>1. [RP!Next]_(RP!vars)
    BY <1>5, TextMoves DEF BreakOff
  <2>2. /\ nodes' = nodes /\ texts' = texts /\ nindex' = nindex /\ pc' = wpc'
    BY <1>5 DEF BreakOff
  <2>3. chain' = chain /\ wpc' \in {"exit", "crash"} /\ wpc \in {"write", "judge"}
    BY <1>5 DEF BreakOff, R!WriteFails, R!JudgeThroughNull
  <2>4. pc = "write" /\ Writing /\ ~Writing' /\ wpc # "none"
    BY <2>3 DEF TextsInv, Writing
  <2> QED
    BY <2>1, <2>2, <2>3, <2>4, TextsMove
<1>6. CASE UNCHANGED allVars
  <2>1. UNCHANGED textVars /\ UNCHANGED vars /\ texts' = texts
    BY <1>6 DEF allVars
  <2>2. [RP!Next]_(RP!vars)
    BY <2>1, TextMoves
  <2>3. /\ nodes' = nodes /\ nindex' = nindex /\ UNCHANGED <<pc, wpc>> /\ chain' = chain
    BY <2>1 DEF vars, textVars
  <2> QED
    BY <2>1, <2>2, <2>3, TextsMove
<1> QED
  BY <1>1, <1>2, <1>3, <1>4, <1>5, <1>6 DEF ProgramNext

LEMMA AlwaysTexts == ProgramSpec => []TextsInv
<1>1. ProgramInit => TextsInv
  <2> SUFFICES ASSUME ProgramInit PROVE TextsInv
    OBVIOUS
  <2>1. wpc = "none" /\ texts = {} /\ pc = "hash"
    BY DEF ProgramInit, Init
  <2> QED
    BY <2>1 DEF TextsInv, Writing, TextsFrom
<1> QED
  BY <1>1, TextsStep, AlwaysIInv, PTL DEF ProgramSpec

-----------------------------------------------------------------------------
(* The chain of a connection that can be put together.                     *)

Both(k) == {p \in Captured : p.key \in {k, Reversed(k)}}

LEMMA ConversationIs ==
    ASSUME NEW k
    PROVE  /\ ToSet(Conversation(k)) = Both(k)
           /\ \A j \in DOMAIN Conversation(k) : Conversation(k)[j] \in Both(k)
<1> DEFINE J == {l \in 1..read : IsTcp(capture[l]) /\ capture[l].key \in {k, Reversed(k)}}
<1>1. DOMAIN Conversation(k) = J /\ \A j \in J : Conversation(k)[j] = capture[j]
  BY DEF Conversation
<1>2. ToSet(Conversation(k)) = {Conversation(k)[j] : j \in J}
  BY <1>1 DEF ToSet
<1>3. \A p : p \in Both(k) <=> \E j \in J : p = capture[j]
  BY DEF Both, Captured
<1> HIDE DEF J
<1> QED
  BY <1>1, <1>2, <1>3

\* A chain with packets of both directions has all of them.
LEMMA AllOfBoth ==
    ASSUME IInv, NEW k \in Keys, NEW s \in AllSlots, ToSet(nodes[s]) \subseteq Captured,
           NEW e \in ToSet(nodes[s]), e.key = k,
           NEW f \in ToSet(nodes[s]), f.key = Reversed(k)
    PROVE  ToSet(nodes[s]) = Both(k)
<1>1. nodes[s] \in Lists /\ Known(Captured, slot)
  BY CapturedKnown DEF IInv, TableTypes, Tables
<1>2. nodes[s] # <<>>
  BY <1>1, Filled1
<1>3. OneSided(nodes[s], Captured) \/ TwoSided(nodes[s], Captured)
  BY <1>2 DEF IInv, ChainedIn, AtHome
<1>4. Reversed(Reversed(k)) = k
  BY KeysAssumption
<1>5. ASSUME NEW d \in ToSet(nodes[s]) PROVE d \in Both(k)
  <2>1. CASE OneSided(nodes[s], Captured)
    BY <1>5, <2>1 DEF OneSided, Both
  <2>2. CASE TwoSided(nodes[s], Captured)
    <3>1. /\ k \in {Head(nodes[s]).key, Reversed(Head(nodes[s]).key)}
          /\ d.key \in {Head(nodes[s]).key, Reversed(Head(nodes[s]).key)}
      BY <1>5, <2>2 DEF TwoSided
    <3>2. Head(nodes[s]).key \in Keys
      BY <1>1, <1>2, HeadIn
    <3>3. Reversed(Reversed(Head(nodes[s]).key)) = Head(nodes[s]).key
      BY <3>2, KeysAssumption
    <3> QED
      BY <1>4, <1>5, <3>1, <3>3 DEF Both
  <2> QED
    BY <1>3, <2>1, <2>2
<1>6. ASSUME NEW p \in Both(k) PROVE p \in ToSet(nodes[s])
  <2>1. p \in Captured /\ p.key \in {k, Reversed(k)}
    BY <1>6 DEF Both
  <2>2. PICK t \in AllSlots : \E d \in ToSet(nodes[t]) : d.n = p.n
    BY <2>1 DEF IInv, FiledIn
  <2>3. PICK d \in ToSet(nodes[t]) : d.n = p.n
    BY <2>2
  <2>4. PICK q \in Captured : q.n = d.n /\ q.key = d.key
    BY <2>3 DEF IInv, FiledIn
  <2>5. q = p
    BY <1>1, <2>1, <2>3, <2>4 DEF Known
  <2>6. t = s
    BY <2>1, <2>4, <2>5 DEF IInv, ChainedIn, OneChainPerKey
  <2>7. d = p
    BY <1>1, <2>1, <2>3, <2>6 DEF Known
  <2> QED
    BY <2>6, <2>7
<1> QED
  BY <1>5, <1>6

\* Once the flows are tidied there is such a chain.
LEMMA BothInOne ==
    ASSUME IInv, pc \in {"write", "end"}, NEW k \in Keys,
           NEW p \in Captured, p.key = k, NEW q \in Captured, q.key = Reversed(k)
    PROVE  \E s \in AllSlots : \E e, f \in ToSet(nodes[s]) : e.key = k /\ f.key = Reversed(k)
<1>1. \A s \in AllSlots : nodes[s] \in Lists
  BY DEF IInv, TableTypes, Tables
<1>2. Known(Captured, slot)
  BY CapturedKnown DEF IInv
<1>3. ASSUME NEW r \in Captured
      PROVE  \E s \in AllSlots : \E e \in ToSet(nodes[s]) : e.key = r.key
  BY <1>2 DEF IInv, FiledIn, Known
<1>4. PICK s \in AllSlots : \E e \in ToSet(nodes[s]) : e.key = k
  BY <1>3
<1>5. PICK t \in AllSlots : \E f \in ToSet(nodes[t]) : f.key = Reversed(k)
  BY <1>3
<1>6. nodes[s] # <<>> /\ nodes[t] # <<>>
  BY <1>1, <1>4, <1>5, Filled1
<1>7. /\ OneSided(nodes[s], Captured) \/ TwoSided(nodes[s], Captured)
      /\ OneSided(nodes[t], Captured) \/ TwoSided(nodes[t], Captured)
  BY <1>6 DEF IInv, ChainedIn, AtHome
<1>8. Head(nodes[s]).key \in Keys /\ Head(nodes[t]).key \in Keys
  BY <1>1, <1>6, HeadIn
<1>9. /\ Reversed(Reversed(k)) = k
      /\ Reversed(Reversed(Head(nodes[s]).key)) = Head(nodes[s]).key
      /\ Reversed(Reversed(Head(nodes[t]).key)) = Head(nodes[t]).key
      /\ Head(nodes[s]) \in ToSet(nodes[s]) /\ Head(nodes[t]) \in ToSet(nodes[t])
  BY <1>1, <1>6, <1>8, HeadIn, KeysAssumption
<1>10. CASE TwoSided(nodes[s], Captured)
  <2>1. \E f \in ToSet(nodes[s]) : f.key = Reversed(k)
    BY <1>4, <1>9, <1>10 DEF TwoSided
  <2> QED
    BY <1>4, <2>1
<1>11. CASE TwoSided(nodes[t], Captured)
  <2>1. \E e \in ToSet(nodes[t]) : e.key = k
    BY <1>5, <1>9, <1>11 DEF TwoSided
  <2> QED
    BY <1>5, <2>1
<1>12. CASE OneSided(nodes[s], Captured) /\ OneSided(nodes[t], Captured)
  <2>1. Head(nodes[s]).key = k /\ Head(nodes[t]).key = Reversed(k)
    BY <1>4, <1>5, <1>12 DEF OneSided
  <2>2. Opposite(nodes[s], nodes[t])
    BY <1>6, <1>9, <2>1 DEF Opposite
  <2>3. PairedBelow(nodes, Size)
    BY DEF IInv, Phased
  <2>4. s < Size
    BY SlotsAssumption DEF AllSlots
  <2>5. s = t
    BY <2>2, <2>3, <2>4 DEF PairedBelow
  <2> QED
    BY <1>4, <1>5, <2>5
<1> QED
  BY <1>7, <1>10, <1>11, <1>12

\* A packet as the side with key k sees it.
SeenBy(p, k) == IF p.key = k THEN p ELSE Exchange(p)

LEMMA SeenOfCaptured ==
    ASSUME Known(Captured, slot), NEW c, ToSet(c) \subseteq Captured, NEW k
    PROVE  /\ DOMAIN SeenFrom(c, k) = DOMAIN c
           /\ \A i \in DOMAIN c : /\ c[i] \in Captured /\ c[i] \in Packet
                                  /\ AsCaptured(c[i]) = c[i]
                                  /\ SeenFrom(c, k)[i] = SeenBy(c[i], k)
<1>1. \A i \in DOMAIN c : c[i] \in Captured /\ c[i] \in Packet
  BY DEF ToSet, Known
<1>2. \A i \in DOMAIN c : AsCaptured(c[i]) = c[i]
  BY <1>1, AsCapturedIs
<1> QED
  BY <1>1, <1>2 DEF SeenFrom, SeenBy

\* The packets of a conversation, in another order.
LEMMA Rearranged ==
    ASSUME Known(Captured, slot), NEW c, NEW d \in Lists, OneEach(d),
           ToSet(c) = ToSet(d), ToSet(c) \subseteq Captured,
           NEW k, InWindow(SeenFrom(c, k)),
           NEW h \in DOMAIN c, NEW i \in DOMAIN c, NEW j \in DOMAIN c,
           c[h].key = k, PlainOpening(c, h, i, j)
    PROVE  /\ InWindow(SeenFrom(d, k))
           /\ \E x, y, z \in DOMAIN d : d[x] = c[h] /\ d[y] = c[i] /\ PlainOpening(d, x, y, z)
<1> DEFINE F(p) == SeenBy(p, k)
           e == SeenFrom(c, k)
           f == SeenFrom(d, k)
<1>1. /\ DOMAIN e = DOMAIN c
      /\ \A m \in DOMAIN c : /\ c[m] \in Packet /\ AsCaptured(c[m]) = c[m]
                             /\ e[m] = F(c[m])
  BY SeenOfCaptured
<1>2. /\ DOMAIN f = DOMAIN d
      /\ \A m \in DOMAIN d : /\ d[m] \in Packet /\ AsCaptured(d[m]) = d[m]
                             /\ f[m] = F(d[m])
  BY SeenOfCaptured
<1>3. /\ \A m \in DOMAIN d : \E l \in DOMAIN c : c[l] = d[m]
      /\ \A l \in DOMAIN c : \E m \in DOMAIN d : c[l] = d[m]
  BY DEF ToSet
<1>4. InWindow(f)
  <2> HIDE DEF F, f, e
  <2>1. /\ {f[m].seq : m \in DOMAIN f} = {e[m].seq : m \in DOMAIN e}
        /\ {f[m].ack : m \in DOMAIN f} = {e[m].ack : m \in DOMAIN e}
    BY <1>1, <1>2, <1>3
  <2>2. e # <<>>
    BY <1>1
  <2>3. InWindow(e)
    BY DEF e
  <2> QED
    BY <2>1, <2>2, <2>3 DEF InWindow
<1>5. PICK x \in DOMAIN d : d[x] = c[h]
  BY <1>3
<1>6. PICK y \in DOMAIN d : d[y] = c[i]
  BY <1>3
<1>7. PICK z \in DOMAIN d : d[z] = c[j]
  BY <1>3
<1>8. d[x].key = k
  BY <1>5
<1>9. /\ Opens(c, h, i) /\ c[j].key = k /\ Handshake(<<c[h], c[i], c[j]>>)
      /\ \A m \in DOMAIN c \ {h, i, j} :
              \/ Compare(e[j], e[m]) < 0
              \/ Compare(e[j], e[m]) = 0 /\ c[m].key = c[j].key /\ c[m].ackflag
  BY DEF PlainOpening
<1>10. \A m \in DOMAIN d \ {x, y, z} : \E l \in DOMAIN c \ {h, i, j} : c[l] = d[m]
  <2> SUFFICES ASSUME NEW m \in DOMAIN d, m \notin {x, y, z}
               PROVE  \E l \in DOMAIN c \ {h, i, j} : c[l] = d[m]
    OBVIOUS
  <2>1. PICK l \in DOMAIN c : c[l] = d[m]
    BY <1>3
  <2>2. DOMAIN d = 1..Len(d)
    BY Members
  <2>3. d[m].n # d[x].n /\ d[m].n # d[y].n /\ d[m].n # d[z].n
    BY <2>2 DEF OneEach
  <2> QED
    BY <1>5, <1>6, <1>7, <2>1, <2>3
<1>11. Opens(d, x, y)
  BY <1>1, <1>2, <1>3, <1>5, <1>6, <1>9 DEF Opens
<1>12. \A m \in DOMAIN d \ {x, y, z} :
              \/ Compare(f[z], f[m]) < 0
              \/ Compare(f[z], f[m]) = 0 /\ d[m].key = d[z].key /\ d[m].ackflag
  <2> SUFFICES ASSUME NEW m \in DOMAIN d \ {x, y, z}
               PROVE  \/ Compare(f[z], f[m]) < 0
                      \/ Compare(f[z], f[m]) = 0 /\ d[m].key = d[z].key /\ d[m].ackflag
    OBVIOUS
  <2>1. PICK l \in DOMAIN c \ {h, i, j} : c[l] = d[m]
    BY <1>10
  <2>2. e[l] = f[m] /\ e[j] = f[z]
    BY <1>1, <1>2, <1>7, <2>1
  <2> QED
    BY <1>7, <1>9, <2>1, <2>2
<1>13. PlainOpening(d, x, y, z)
  BY <1>5, <1>6, <1>7, <1>8, <1>9, <1>11, <1>12 DEF PlainOpening
<1> QED
  BY <1>4, <1>5, <1>6, <1>13

\* Put in order, a conversation starts with its SYN and SYN+ACK.
LEMMA OpenedChain ==
    ASSUME Known(Captured, slot), NEW c, NEW d \in Lists, OneEach(d), SeenInOrder(d),
           ToSet(c) = ToSet(d), ToSet(c) \subseteq Captured,
           NEW k, InWindow(SeenFrom(c, k)),
           NEW h \in DOMAIN c, NEW i \in DOMAIN c, NEW j \in DOMAIN c,
           c[h].key = k, PlainOpening(c, h, i, j)
    PROVE  /\ Handshake(d) /\ d[1] = c[h] /\ d[2] = c[i]
           /\ InWindow(SeenFrom(d, k)) /\ InOrder(SeenFrom(d, k))
<1>1. InWindow(SeenFrom(d, k))
  BY Rearranged
<1>2. PICK x \in DOMAIN d : \E y, z \in DOMAIN d :
          d[x] = c[h] /\ d[y] = c[i] /\ PlainOpening(d, x, y, z)
  BY Rearranged
<1>3. PICK y \in DOMAIN d : \E z \in DOMAIN d :
          d[x] = c[h] /\ d[y] = c[i] /\ PlainOpening(d, x, y, z)
  BY <1>2
<1>4. PICK z \in DOMAIN d : d[x] = c[h] /\ d[y] = c[i] /\ PlainOpening(d, x, y, z)
  BY <1>3
<1>5. InOrder(SeenFrom(d, k)) /\ d[x].key = k
  BY <1>1, <1>4 DEF SeenInOrder, PlainOpening
<1>6. Handshake(d) /\ x = 1 /\ y = 2
  BY <1>1, <1>4, <1>5, HandshakeInFront
<1> QED
  BY <1>1, <1>4, <1>5, <1>6

\* Data that acknowledges other data stands behind it.
RepliesBehind(d, k) ==
    \A x, y \in 3..Len(d) : d[x].key = k /\ d[y].key # k /\ d[x].seq < d[y].ack => x < y

LEMMA Difference ==
    ASSUME NEW x \in SeqNumbers, NEW y \in SeqNumbers
    PROVE  /\ SeqDiff(x, y) \in Int
           /\ x < y /\ SeqDiff(y, x) >= 0 => \A z \in SeqNumbers : x <= z /\ z < y => SeqDiff(y, z) > 0
<1>1. /\ HalfSpace \in Nat \ {0} /\ SeqSpace = 2 * HalfSpace /\ x \in Nat /\ x < SeqSpace
      /\ y \in Nat /\ y < SeqSpace
  BY HalfOfSpace DEF SeqNumbers
<1>2. SeqDiff(x, y) \in Int
  BY <1>1 DEF SeqDiff
<1>3. ASSUME x < y, SeqDiff(y, x) >= 0, NEW z \in SeqNumbers, x <= z, z < y
      PROVE  SeqDiff(y, z) > 0
  <2>1. z \in Int
    BY SeqSpaceAssumption DEF SeqNumbers
  <2>2. y - x < HalfSpace
    BY <1>1, <1>3 DEF SeqDiff
  <2>3. SeqDiff(y, z) = y - z
    BY <1>1, <1>3, <2>1, <2>2 DEF SeqDiff
  <2> QED
    BY <1>1, <1>3, <2>1, <2>3
<1> QED
  BY <1>2, <1>3

\* Unambiguous numbers of a conversation, put in order from its SYN on.
LEMMA NumbersInChain ==
    ASSUME Known(Captured, slot), NEW c, NEW d \in Lists, OneEach(d),
           ToSet(c) = ToSet(d), ToSet(c) \subseteq Captured,
           NEW k, InWindow(SeenFrom(d, k)), InOrder(SeenFrom(d, k)),
           NEW h \in DOMAIN c, NEW i \in DOMAIN c, NumbersTell(c, {h, i}),
           Len(d) >= 3, d[1] = c[h], d[2] = c[i], d[1].key = k
    PROVE  Ascending(d) /\ Apart(d) /\ RepliesBehind(d, k)
<1> DEFINE f == SeenFrom(d, k)
           n == Len(d)
<1>1. /\ f \in Lists /\ DOMAIN f = 1..n /\ DOMAIN d = 1..n /\ n \in Nat
      /\ \A m \in 1..n : /\ d[m] \in Packet /\ d[m] \in ToSet(d)
                         /\ f[m] = SeenBy(d[m], k) /\ f[m] \in ToSet(f) /\ f[m] \in Packet
  <2>1. \A e \in ToSet(d) : \E p \in Captured : p.n = e.n /\ p.key = e.key
    OBVIOUS
  <2>2. f \in Lists /\ DOMAIN f = 1..n /\ Len(f) = n
    BY <2>1, SeenFromIs
  <2>3. \A m \in 1..n : f[m] = SeenBy(d[m], k)
    BY <2>2, SeenOfCaptured
  <2> QED
    BY <2>2, <2>3, Members
<1>2. /\ InWindow(f) /\ InOrder(f) /\ n >= 3 /\ OneEach(d)
  OBVIOUS
<1>3. \A m \in 1..n : \E l \in DOMAIN c : c[l] = d[m]
  BY <1>1 DEF ToSet
<1> HIDE DEF f
<1>4. \A m \in 3..n : \E l \in DOMAIN c \ {h, i} : c[l] = d[m]
  <2> SUFFICES ASSUME NEW m \in 3..n PROVE \E l \in DOMAIN c \ {h, i} : c[l] = d[m]
    OBVIOUS
  <2>1. m \in 1..n /\ m # 1 /\ m # 2 /\ 1 \in 1..n /\ 2 \in 1..n
    BY <1>1, <1>2
  <2>2. d[m].n # d[1].n /\ d[m].n # d[2].n
    BY <2>1 DEF OneEach
  <2>3. PICK l \in DOMAIN c : c[l] = d[m]
    BY <1>3, <2>1
  <2> QED
    BY <2>2, <2>3
<1>5. \A x \in 3..n : x \in 1..n /\ 1 < x
  BY <1>1
<1>6. Apart(d)
  <2> SUFFICES ASSUME NEW x \in 3..n, NEW y \in 3..n, d[x].key # d[y].key
               PROVE  d[x].ack # d[y].ack
    BY DEF Apart
  <2>1. PICK p \in DOMAIN c \ {h, i} : c[p] = d[x]
    BY <1>4
  <2>2. PICK q \in DOMAIN c \ {h, i} : c[q] = d[y]
    BY <1>4
  <2> QED
    BY <2>1, <2>2 DEF NumbersTell
<1>7. \A x, y \in 1..n : d[x].key = d[y].key /\ Compare(d[x], d[y]) < 0 => d[x].seq <= d[y].seq
  <2> SUFFICES ASSUME NEW x \in 1..n, NEW y \in 1..n, d[x].key = d[y].key,
                      Compare(d[x], d[y]) < 0
               PROVE  d[x].seq <= d[y].seq
    OBVIOUS
  <2>1. PICK p \in DOMAIN c : c[p] = d[x]
    BY <1>3
  <2>2. PICK q \in DOMAIN c : c[q] = d[y]
    BY <1>3
  <2> QED
    BY <2>1, <2>2 DEF NumbersTell
<1>8. \A x \in 1..n : d[x].seq \in SeqNumbers /\ d[x].ack \in SeqNumbers
  BY <1>1 DEF Packet
<1>9. SeqNumbers \subseteq Nat
  BY SeqSpaceAssumption DEF SeqNumbers
<1>10. ASSUME NEW x \in 1..n, NEW y \in 1..n, x < y
       PROVE  Compare(f[x], f[y]) <= 0 /\ Compare(f[x], f[y]) \in Int
                /\ Compare(f[y], f[x]) = 0 - Compare(f[x], f[y])
  BY <1>1, <1>2, <1>10, CompareOrders DEF InOrder
<1>11. ASSUME NEW x \in 1..n, NEW y \in 1..n, x < y, d[x].key = k, d[y].key = k
       PROVE  d[x].seq <= d[y].seq
  <2>1. f[x] = d[x] /\ f[y] = d[y]
    BY <1>1, <1>11 DEF SeenBy
  <2>2. CASE Compare(d[x], d[y]) < 0
    BY <1>7, <1>11, <2>2
  <2>3. CASE Compare(d[x], d[y]) = 0
    <3>1. d[x].seq = d[y].seq
      BY <1>1, <2>3, Tied
    <3>2. d[x].seq \in Nat
      BY <1>8, <1>9
    <3> QED
      BY <3>1, <3>2
  <2> QED
    BY <1>10, <1>11, <2>1, <2>2, <2>3
<1>12. ASSUME NEW x \in 1..n, NEW y \in 1..n, x < y, d[x].key # k, d[y].key = d[x].key,
              d[x].ack = d[y].ack
       PROVE  d[x].seq <= d[y].seq
  <2>1. f[x] = Exchange(d[x]) /\ f[y] = Exchange(d[y])
    BY <1>1, <1>12 DEF SeenBy
  <2>2. /\ f[x].seq = d[x].ack /\ f[x].ack = d[x].seq
        /\ f[y].seq = d[y].ack /\ f[y].ack = d[y].seq
    BY <1>1, <2>1, Exchanged
  <2>3. SeqDiff(d[x].ack, d[y].ack) = 0
    BY <1>8, <1>12, OneBehind
  <2>4. SeqDiff(d[x].seq, d[y].seq) \in Int
    BY <1>8, Difference
  <2>5. SeqDiff(d[x].seq, d[y].seq) <= 0
    BY <1>10, <1>12, <2>2, <2>3 DEF Compare
  <2>6. CASE SeqDiff(d[x].seq, d[y].seq) < 0
    <3>1. Compare(d[x], d[y]) < 0
      BY <2>6 DEF Compare
    <3> QED
      BY <1>7, <1>12, <3>1
  <2>7. CASE SeqDiff(d[x].seq, d[y].seq) = 0
    <3>1. d[x].seq = d[y].seq
      BY <1>8, <2>7, NoDifference
    <3>2. d[x].seq \in Nat
      BY <1>8, <1>9
    <3> QED
      BY <3>1, <3>2
  <2> QED
    BY <2>4, <2>5, <2>6, <2>7
<1>13. Ascending(d)
  BY <1>5, <1>11, <1>12 DEF Ascending
<1>14. RepliesBehind(d, k)
  <2> SUFFICES ASSUME NEW x \in 3..n, NEW y \in 3..n, d[x].key = k, d[y].key # k,
                      d[x].seq < d[y].ack, ~(x < y)
               PROVE  FALSE
    BY DEF RepliesBehind
  <2>1. /\ x \in 1..n /\ y \in 1..n /\ 1 \in 1..n /\ 1 < x /\ 1 < y /\ y < x
        /\ x \in Nat /\ y \in Nat
    <3>1. x # y
      OBVIOUS
    <3> QED
      BY <1>1, <1>2, <1>5, <3>1
  <2>2. /\ f[1] = d[1] /\ f[x] = d[x] /\ f[y] = Exchange(d[y])
    BY <1>1, <2>1 DEF SeenBy
  <2>3. f[y].seq = d[y].ack
    BY <1>1, <2>1, <2>2, Exchanged
  <2>4. d[1].seq <= d[x].seq
    BY <1>11, <2>1
  <2>5. Compare(f[y], f[1]) >= 0
    BY <1>10, <2>1
  <2>6. SeqDiff(d[y].ack, d[1].seq) >= 0
    <3>1. SeqDiff(d[y].ack, d[1].seq) \in Int
      BY <1>8, <2>1, Difference
    <3> QED
      BY <2>2, <2>3, <2>5, <3>1 DEF Compare
  <2>7. SeqDiff(d[y].ack, d[x].seq) > 0
    <3>1. d[1].seq < d[y].ack
      BY <1>8, <1>9, <2>1, <2>4
    <3> QED
      BY <1>8, <2>1, <2>4, <2>6, <3>1, Difference
  <2>8. Compare(f[y], f[x]) > 0
    BY <2>2, <2>3, <2>7 DEF Compare
  <2> QED
    BY <1>10, <2>1, <2>8
<1> QED
  BY <1>6, <1>13, <1>14

\* What the table has of a connection that can be put together.
Opened(s, k) ==
    LET d == nodes[s]
    IN  /\ ToSet(d) = Both(k) /\ Head(d).key = k /\ slot[k] = s
        /\ Handshake(d) /\ d[1].len = 0 /\ d[2].len = 0
        /\ Ascending(d) /\ Apart(d) /\ RepliesBehind(d, k)

\* The requester's slot comes first, so that the headers are as captured.
LEMMA PromisedAsCaptured ==
    ASSUME IInv, FaithInv, NEW k \in Keys, Promised(k), NEW s \in AllSlots,
           NEW e \in ToSet(nodes[s]), e.key = k
    PROVE  ToSet(nodes[s]) \subseteq Captured
<1> DEFINE c == Conversation(k)
<1>1. nodes[s] \in Lists /\ nodes[s] # <<>>
  BY Filled1 DEF IInv, TableTypes, Tables
<1>2. OneSided(nodes[s], Captured) \/ TwoSided(nodes[s], Captured)
  BY <1>1 DEF IInv, ChainedIn, AtHome
<1>3. ToSet(c) = Both(k)
  BY ConversationIs
<1>4. /\ slot[k] < slot[Reversed(k)]
      /\ \E h, i \in DOMAIN c : c[h].key = k /\ Opens(c, h, i)
  BY DEF Promised, PlainOpening
<1>5. \A m \in DOMAIN c : c[m].key = k => ~IsSynAck(c[m])
  BY <1>4 DEF Opens
<1>6. \A p \in Captured : p.key = k => ~IsSynAck(p)
  BY <1>3, <1>5 DEF Both, ToSet
<1>7. \A f \in ToSet(nodes[s]) : f.key = k => ~IsSynAck(f)
  <2> SUFFICES ASSUME NEW f \in ToSet(nodes[s]), f.key = k PROVE ~IsSynAck(f)
    OBVIOUS
  <2>1. /\ Exchange(f).key = f.key /\ Exchange(f).syn = f.syn
        /\ Exchange(f).ackflag = f.ackflag
    BY <1>1, Members, Exchanged
  <2>2. f \in Captured \/ Exchange(f) \in Captured
    BY <1>2 DEF OneSided, TwoSided
  <2> QED
    BY <1>6, <2>1, <2>2 DEF IsSynAck
<1> QED
  BY <1>4, <1>7 DEF FaithInv, Faithful

LEMMA PromisedChain ==
    ASSUME IInv, SeenInv, FaithInv, NEW k \in Keys, Promised(k), NEW s \in AllSlots,
           NEW e \in ToSet(nodes[s]), e.key = k,
           NEW f \in ToSet(nodes[s]), f.key = Reversed(k)
    PROVE  Opened(s, k)
<1> DEFINE c == Conversation(k)
           d == nodes[s]
<1>1. ToSet(d) \subseteq Captured
  BY PromisedAsCaptured
<1>2. ToSet(d) = Both(k)
  BY <1>1, AllOfBoth
<1>3. ToSet(c) = ToSet(d)
  BY <1>2, ConversationIs
<1>4. d \in Lists /\ OneEach(d) /\ SeenInOrder(d) /\ Known(Captured, slot)
  BY CapturedKnown DEF IInv, TableTypes, Tables, FiledIn, SeenInv, TableSeen
<1>5. InWindow(SeenFrom(c, k))
  BY DEF Promised
<1>6. PICK h \in DOMAIN c : \E i, j \in DOMAIN c :
          /\ c[h].key = k /\ PlainOpening(c, h, i, j)
          /\ c[h].len = 0 /\ c[i].len = 0 /\ NumbersTell(c, {h, i})
  BY DEF Promised
<1>7. PICK i \in DOMAIN c : \E j \in DOMAIN c :
          /\ c[h].key = k /\ PlainOpening(c, h, i, j)
          /\ c[h].len = 0 /\ c[i].len = 0 /\ NumbersTell(c, {h, i})
  BY <1>6
<1>8. PICK j \in DOMAIN c :
          /\ c[h].key = k /\ PlainOpening(c, h, i, j)
          /\ c[h].len = 0 /\ c[i].len = 0 /\ NumbersTell(c, {h, i})
  BY <1>7
<1> HIDE DEF c, d
<1>9. /\ Handshake(d) /\ d[1] = c[h] /\ d[2] = c[i]
      /\ InWindow(SeenFrom(d, k)) /\ InOrder(SeenFrom(d, k))
  BY <1>1, <1>3, <1>4, <1>5, <1>8, OpenedChain
<1>10. Len(d) >= 3 /\ d[1].key = k
  BY <1>8, <1>9 DEF Handshake
<1>11. Ascending(d) /\ Apart(d) /\ RepliesBehind(d, k)
  BY <1>1, <1>3, <1>4, <1>8, <1>9, <1>10, NumbersInChain
<1>12. d # <<>> /\ d[1] = Head(d)
  <2>1. d # <<>>
    BY <1>10
  <2> QED
    BY <1>4, <2>1, HeadIn
<1>13. slot[k] = s
  BY <1>10, <1>12 DEF IInv, ChainedIn, AtHome, d
<1> QED
  BY <1>2, <1>8, <1>9, <1>10, <1>11, <1>12, <1>13 DEF Opened, d

\* The purpose of the program: of a connection that can be put together -
\* requester's slot first, a plain handshake, numbers that neither wrap nor
\* mix - every byte of both directions is in the requester's text when the
\* program has ended, in whatever order its packets were captured, and
\* whatever else was.
THEOREM TextsAreComplete == ProgramSpec => []TextsComplete
<1>1. IInv /\ SeenInv /\ FaithInv /\ TextsInv => TextsComplete
  <2> SUFFICES ASSUME IInv, SeenInv, FaithInv, TextsInv, pc = "end",
                      NEW k \in Keys, Promised(k),
                      NEW j \in DOMAIN Conversation(k),
                      NEW x \in Conversation(k)[j].seq..
                                   (Conversation(k)[j].seq + Conversation(k)[j].len - 1)
               PROVE  \E t \in texts : /\ t.key = k
                                       /\ \E m \in Pieces(t) :
                                              Holds(t, m, Conversation(k)[j].key, x)
    BY DEF TextsComplete
  <2> DEFINE p == Conversation(k)[j]
  <2>1. p \in Both(k) /\ x \in p.seq..(p.seq + p.len - 1)
    BY ConversationIs
  <2> HIDE DEF p
  <2>2. PICK s \in AllSlots : \E e, f \in ToSet(nodes[s]) : e.key = k /\ f.key = Reversed(k)
    <3>1. \E h, i \in DOMAIN Conversation(k) :
              Conversation(k)[h].key = k /\ Conversation(k)[i].key # k
      BY DEF Promised, PlainOpening, Opens
    <3>2. \E h, i \in Both(k) : h.key = k /\ i.key = Reversed(k)
      BY <3>1, ConversationIs DEF Both
    <3> QED
      BY <3>2, BothInOne DEF Both
  <2>3. Opened(s, k)
    BY <2>2, PromisedChain
  <2> DEFINE d == nodes[s]
  <2>4. /\ p \in ToSet(d) /\ Head(d).key = k /\ slot[k] = s /\ Handshake(d)
        /\ d[1].len = 0 /\ d[2].len = 0 /\ Ascending(d) /\ Apart(d) /\ d \in Lists
    BY <2>1, <2>3 DEF Opened, IInv, TableTypes, Tables
  <2>5. s < Size - 1
    <3>1. slot[k] < slot[Reversed(k)] /\ slot \in [Keys -> AllSlots] /\ Reversed(k) \in Keys
      BY KeysAssumption DEF Promised, IInv, CaptureTypes
    <3>2. slot[Reversed(k)] \in 0..(Size - 1) /\ s \in 0..(Size - 1)
      BY <3>1 DEF AllSlots
    <3> QED
      BY <2>4, <3>1, <3>2, SlotsAssumption
  <2>6. CoveredBy(s, nodes, texts, wpc, chain) /\ ~Writing
    BY <2>5 DEF TextsInv, AllCovered
  <2> HIDE DEF d
  <2>7. PICK y \in 1..Len(d) : d[y] = p
    BY <2>4, Members
  <2>8. y \in 3..Len(d)
    <3>1. p.len \in Nat /\ p.seq \in Nat
      BY <2>4, <2>7, Members, SeqSpaceAssumption DEF Packet, SeqNumbers
    <3>2. p.len # 0
      BY <2>1, <3>1
    <3>3. Len(d) \in Nat
      BY <2>4, Members
    <3> QED
      BY <2>4, <2>7, <3>2, <3>3
  <2>9. ASSUME NEW g, Whole(d, g) PROVE InText(d, g, p.key, x)
    BY <2>1, <2>4, <2>7, <2>8, <2>9 DEF Whole
  <2>10. PICK t \in texts : t.chain = d /\ t.key = k /\ InText(d, t.file, p.key, x)
    <3>1. ~InText(d, <<>>, p.key, x)
      BY DEF InText, PiecesIn
    <3>2. d # <<>>
      BY <2>4 DEF Handshake
    <3>3. PICK t \in texts : t.chain = d /\ t.key = Head(d).key /\ Whole(t.chain, t.file)
      BY <2>6, <2>9, <3>1, <3>2 DEF CoveredBy, Writing, d
    <3> QED
      BY <2>4, <2>9, <3>3
  <2>11. \E m \in Pieces(t) : Holds(t, m, p.key, x)
    BY <2>10 DEF InText, Pieces, PiecesIn, Holds, Sender
  <2> QED
    BY <2>10, <2>11 DEF p
<1> QED
  BY <1>1, AlwaysIInv, AlwaysSeenInv, AlwaysFaithful, AlwaysTexts, PTL

\* No text mixes connections; in that of a connection that can be put
\* together, data stands behind the data that it acknowledges.
THEOREM RepliesFollow == ProgramSpec => []RepliesFollowRequests
<1>1. IInv /\ SeenInv /\ FaithInv /\ TextsInv => RepliesFollowRequests
  <2> SUFFICES ASSUME IInv, SeenInv, FaithInv, TextsInv, NEW t \in texts,
                      NEW m \in Pieces(t), NEW l \in Pieces(t)
               PROVE  /\ Sender(t, m).key \in {t.key, Reversed(t.key)}
                      /\ /\ Promised(t.key) /\ Sender(t, m).key = t.key
                         /\ Sender(t, l).key # t.key /\ Sender(t, m).seq < Sender(t, l).ack
                         => m < l
    BY DEF RepliesFollowRequests
  <2>1. PICK s \in AllSlots : /\ nodes[s] # <<>> /\ t.chain = nodes[s]
                              /\ t.key = Head(nodes[s]).key /\ InSteps(t.chain, t.file)
    BY DEF TextsInv, TextsFrom
  <2> DEFINE d == nodes[s]
             x == t.file[m].node
             y == t.file[l].node
  <2>2. /\ x \in 3..Len(d) /\ y \in 3..Len(d) /\ Sender(t, m) = d[x] /\ Sender(t, l) = d[y]
        /\ m \in Nat /\ l \in Nat /\ (l < m => y < x) /\ (l = m => x = y)
    BY <2>1 DEF InSteps, Pieces, PiecesIn, Sender
  <2>3. d \in Lists /\ (OneSided(d, Captured) \/ TwoSided(d, Captured)) /\ Head(d).key \in Keys
    BY <2>1, HeadIn DEF IInv, TableTypes, Tables, ChainedIn, AtHome
  <2> HIDE DEF d, x, y
  <2>4. d[x] \in ToSet(d) /\ d[y] \in ToSet(d)
    BY <2>2, <2>3, Members
  <2>5. d[x].key \in {Head(d).key, Reversed(Head(d).key)}
        /\ d[y].key \in {Head(d).key, Reversed(Head(d).key)}
    BY <2>3, <2>4 DEF OneSided, TwoSided
  <2>6. ASSUME Promised(t.key), d[x].key = t.key, d[y].key # t.key, d[x].seq < d[y].ack
        PROVE  m < l
    <3>1. Opened(s, t.key)
      BY <2>1, <2>3, <2>4, <2>5, <2>6, PromisedChain DEF d
    <3>2. x < y
      BY <2>2, <2>6, <3>1 DEF Opened, RepliesBehind, d
    <3>3. x \in Nat /\ y \in Nat
      BY <2>2
    <3> QED
      BY <2>2, <3>2, <3>3
  <2> QED
    BY <2>1, <2>2, <2>5, <2>6 DEF d
<1> QED
  BY <1>1, AlwaysIInv, AlwaysSeenInv, AlwaysFaithful, AlwaysTexts, PTL

-----------------------------------------------------------------------------
(* The program ends: every step leaves less to do.                         *)

\* hashtbl_next never leaves the iterator at the table's end.
WithinTable == nindex < Size

LEMMA WithinTableStep == WithinTable /\ [ProgramNext]_allVars => WithinTable'
<1> SUFFICES ASSUME WithinTable, [ProgramNext]_allVars PROVE nindex' < Size
  BY DEF WithinTable
<1>1. nindex' = nindex \/ nindex' = 0 \/ (nindex' = cindex + 1 /\ cindex + 1 < Size)
  BY DEF ProgramNext, PassStep, Prepare, HashPacket, HashEnd, ClassifyChain, DumpChain, DumpFails,
         OutOfMemory, TidySingle, TidyPair, TidySelf, WalkEnd, OpenText, WriteChain, TextStep, CloseText,
         BreakOff, WalkOn, vars, allVars
<1> HIDE DEF cindex
<1>2. 0 < Size
  BY SlotsAssumption
<1> QED
  BY <1>1, <1>2 DEF WithinTable

\* What the passes have to do yet: packets to be read, slots to be walked.
\* Where the sort of a chain that is a cycle has begun, nothing is done.
PassToDo == IF pc = "hash" THEN 4 * Size + 1 + (Len(capture) - read)
            ELSE IF pc = "classify" THEN 4 * Size - nindex
            ELSE IF pc = "dump" THEN 3 * Size - nindex
            ELSE IF pc \in {"tidy", "hang"} THEN 2 * Size - nindex
            ELSE IF pc = "write" THEN Size - nindex
            ELSE 0

\* And the text at hand: two steps for each packet.
TextToDo == IF Writing THEN 2 * (Len(chain) - node) + (IF wpc = "write" THEN 2 ELSE 1) ELSE 0

\* More than there can be to do for one text.
Room == 2 * Len(capture) + 1
ToDo == PassToDo * Room + TextToDo

Numbers == /\ Size \in Nat /\ nindex \in Nat /\ nindex < Size
           /\ read \in Nat /\ Len(capture) \in Nat /\ read <= Len(capture)

LEMMA NumbersAre == IInv /\ WithinTable => Numbers
<1> SUFFICES ASSUME IInv, WithinTable PROVE Numbers
  OBVIOUS
<1>1. Len(capture) \in Nat
  BY DEF IInv, CaptureTypes
<1> QED
  BY <1>1, SlotsAssumption DEF Numbers, WithinTable, IInv, TableTypes

LEMMA PassToDoTypes ==
    ASSUME Numbers
    PROVE  PassToDo \in Nat /\ (pc \in Early \cup {"write"} => PassToDo > 0) /\ Room \in Nat
<1> DEFINE l == Len(capture)
<1>1. Size \in Nat /\ nindex \in Nat /\ nindex < Size /\ read \in Nat /\ l \in Nat /\ read <= l
  BY DEF Numbers
<1> HIDE DEF l
<1>2. PassToDo = IF pc = "hash" THEN 4 * Size + 1 + (l - read)
                 ELSE IF pc = "classify" THEN 4 * Size - nindex
                 ELSE IF pc = "dump" THEN 3 * Size - nindex
                 ELSE IF pc \in {"tidy", "hang"} THEN 2 * Size - nindex
                 ELSE IF pc = "write" THEN Size - nindex
                 ELSE 0
  BY DEF PassToDo, l
<1>3. Room \in Nat
  BY <1>1 DEF Room, l
<1> QED
  BY <1>1, <1>2, <1>3 DEF Early

\* A chain holds no packet twice, and so no more than were captured.
LEMMA ChainsFitCapture ==
    ASSUME IInv, NEW s \in AllSlots
    PROVE  Len(nodes[s]) \in Nat /\ Len(nodes[s]) <= Len(capture)
<1> DEFINE n == Cardinality(Captured)
           c == nodes[s]
           l == Len(capture)
<1>1. c \in Lists /\ read \in Nat /\ l \in Nat /\ read <= l
  BY DEF IInv, TableTypes, CaptureTypes, Tables
<1>2. IsFiniteSet(Captured) /\ n <= read /\ n \in Nat
  BY CapturedFinite, FS_CardinalityType DEF IInv
<1>3. OneEach(c) /\ \A e \in ToSet(c) : \E p \in Captured : p.n = e.n
  BY DEF IInv, FiledIn
<1>4. Len(c) \in Nat
  BY <1>1, Members
<1> HIDE DEF c, l
<1>5. Len(c) <= n
  BY <1>1, <1>2, <1>3, ChainFits
<1> DEFINE m == Len(c)
<1> HIDE DEF n, m
<1>6. m <= l
  BY <1>1, <1>2, <1>4, <1>5 DEF m
<1> QED
  BY <1>4, <1>6 DEF m, c, l

\* The walk along a chain while its text is written.
LEMMA TextPlace ==
    ASSUME IInv, TextsInv, Writing
    PROVE  /\ Len(chain) \in Nat /\ Len(chain) <= Len(capture) /\ node \in 3..Len(chain)
           /\ pc = "write"
<1>1. PICK s \in AllSlots : chain = nodes[s]
  BY DEF TextsInv
<1>2. Len(chain) \in Nat /\ Len(chain) <= Len(capture)
  BY <1>1, ChainsFitCapture
<1>3. node \in 3..Len(chain)
  <2>1. RP!TypeOK /\ wpc # "done"
    BY DEF TextsInv, RP!FileInv, Writing
  <2> QED
    BY <2>1 DEF RP!TypeOK
<1> QED
  BY <1>2, <1>3 DEF TextsInv

LEMMA TextToDoFits ==
    ASSUME IInv, TextsInv, WithinTable
    PROVE  TextToDo \in Nat /\ TextToDo < Room
<1> DEFINE l == Len(capture)
           m == Len(chain)
<1>1. l \in Nat /\ Room = 2 * l + 1
  BY NumbersAre DEF Numbers, Room
<1>2. CASE ~Writing
  BY <1>1, <1>2 DEF TextToDo
<1>3. CASE Writing
  <2>1. m \in Nat /\ m <= l /\ node \in 3..m
    BY <1>3, TextPlace
  <2>2. TextToDo = 2 * (m - node) + (IF wpc = "write" THEN 2 ELSE 1)
    BY <1>3 DEF TextToDo
  <2> HIDE DEF l, m
  <2> QED
    BY <1>1, <2>1, <2>2
<1> QED
  BY <1>2, <1>3

LEMMA ToDoNat ==
    ASSUME IInv, TextsInv, WithinTable
    PROVE  ToDo \in Nat
<1>1. PassToDo \in Nat /\ Room \in Nat /\ TextToDo \in Nat
  BY NumbersAre, PassToDoTypes, TextToDoFits
<1> HIDE DEF PassToDo, Room, TextToDo
<1> QED
  BY <1>1 DEF ToDo

\* A step of the passes brings them on.
LEMMA PassMoves ==
    ASSUME IInv, WithinTable, Prepare \/ WriteChain \/ WalkEnd, pc' # "hang"
    PROVE  PassToDo' < PassToDo
<1> DEFINE l == Len(capture)
           m == 4 * Size
<1>1. Numbers /\ l' = l
  BY NumbersAre DEF Prepare, HashPacket, HashEnd, ClassifyChain, DumpChain, DumpFails,
         OutOfMemory, TidySingle, TidyPair, TidySelf, WalkEnd, WriteChain, WalkOn
<1>2. Size \in Nat /\ nindex \in Nat /\ nindex < Size /\ read \in Nat /\ l \in Nat /\ read <= l
  BY <1>1 DEF Numbers
<1>3. CASE pc = "hash" /\ (HashPacket \/ HashEnd)
  <2>1. PassToDo = m + 1 + (l - read) /\ m \in Nat
    BY <1>2, <1>3 DEF PassToDo
  <2>2. CASE HashPacket
    <3>1. pc' = "hash" /\ read' = read + 1
      BY <2>2 DEF HashPacket
    <3>2. PassToDo' = m + 1 + (l - (read + 1))
      BY <1>1, <3>1 DEF PassToDo
    <3> HIDE DEF l, m
    <3> QED
      BY <1>2, <2>1, <3>2
  <2>3. CASE HashEnd
    <3>1. pc' = "classify" /\ nindex' = nindex
      BY <2>3 DEF HashEnd
    <3>2. PassToDo' = m - nindex
      BY <3>1 DEF PassToDo
    <3> HIDE DEF l, m
    <3> QED
      BY <1>2, <2>1, <3>2
  <2> QED
    BY <1>3, <2>2, <2>3
<1>4. ASSUME NEW phase, WalkOn(phase), phase \in {"classify", "dump", "tidy", "write"}
      PROVE  PassToDo' < PassToDo
  <2>1. pc = phase /\ pc' = pc /\ nindex' = cindex + 1 /\ cindex \in Nat /\ nindex <= cindex
    BY <1>4, WalkStep
  <2> HIDE DEF cindex
  <2> QED
    BY <1>2, <1>4, <2>1 DEF PassToDo
<1>5. CASE WalkEnd
  <2>1. pc \in {"classify", "dump", "tidy", "write"} /\ pc' = NextPass /\ nindex' = 0
    BY <1>5 DEF WalkEnd
  <2>2. \/ pc = "classify" /\ pc' = "dump"
        \/ pc = "dump" /\ pc' = "tidy"
        \/ pc = "tidy" /\ pc' = "write"
        \/ pc = "write" /\ pc' = "end"
    BY <2>1, PassAfter
  <2> QED
    BY <1>2, <2>1, <2>2 DEF PassToDo
<1>6. CASE DumpFails \/ OutOfMemory
  <2>1. pc \in {"hash", "dump", "tidy", "write"} /\ pc' = "exit"
    BY <1>6 DEF DumpFails, OutOfMemory
  <2>2. PassToDo' = 0 /\ PassToDo > 0
    BY <1>1, <2>1, PassToDoTypes DEF PassToDo, Early
  <2> QED
    BY <2>2
<1> QED
  BY <1>3, <1>4, <1>5, <1>6 DEF Prepare, HashPacket, HashEnd, ClassifyChain, DumpChain,
     TidySingle, TidyPair, TidySelf, WriteChain

\* A step of the text at hand brings that on.
LEMMA TextMovesOn ==
    ASSUME IInv, TextsInv, TextStep \/ CloseText
    PROVE  TextToDo' < TextToDo /\ PassToDo' = PassToDo /\ Room' = Room
<1>1. Writing /\ UNCHANGED vars /\ chain' = chain
  BY DEF TextStep, CloseText, Writing, R!WriteData, R!NothingToWrite, R!JudgeContinuing,
         R!JudgeOther, R!Advance, R!Close
<1>2. PassToDo' = PassToDo /\ Room' = Room
  BY <1>1 DEF PassToDo, Room, vars
<1>3. Len(chain) \in Nat /\ node \in 3..Len(chain)
  BY <1>1, TextPlace
<1>4. \/ wpc = "write" /\ wpc' = "judge" /\ node' = node
      \/ wpc = "judge" /\ wpc' = "write" /\ node' = node + 1
      \/ wpc = "judge" /\ wpc' = "done"
  BY DEF TextStep, CloseText, R!WriteData, R!NothingToWrite, R!JudgeContinuing, R!JudgeOther,
         R!Advance, R!Close, R!next
<1>5. TextToDo' < TextToDo
  <2> DEFINE m == Len(chain)
  <2>1. m' = m /\ m \in Nat /\ node \in Nat /\ node <= m
    BY <1>1, <1>3
  <2>2. TextToDo = 2 * (m - node) + (IF wpc = "write" THEN 2 ELSE 1)
    BY <1>1 DEF TextToDo
  <2>3. CASE wpc' = "done"
    <3>1. TextToDo' = 0
      BY <2>3 DEF TextToDo, Writing
    <3> HIDE DEF m
    <3> QED
      BY <2>1, <2>2, <3>1
  <2>4. CASE wpc' # "done"
    <3>1. TextToDo' = 2 * (m - node') + (IF wpc' = "write" THEN 2 ELSE 1)
      BY <1>4, <2>1, <2>4 DEF TextToDo, Writing
    <3> HIDE DEF m
    <3> QED
      BY <1>4, <2>1, <2>2, <2>4, <3>1
  <2> QED
    BY <2>3, <2>4
<1> QED
  BY <1>2, <1>5

LEMMA LessToDo ==
    ASSUME IInv, TextsInv, WithinTable, (IInv /\ TextsInv /\ WithinTable)', ProgramNext,
           pc' # "hang"
    PROVE  ToDo' < ToDo
<1> DEFINE p == PassToDo
           t == TextToDo
           k == Room
<1>1. p \in Nat /\ t \in Nat /\ k \in Nat
  BY NumbersAre, PassToDoTypes, TextToDoFits
<1>2. p' \in Nat /\ t' \in Nat /\ t' < k'
  <2>1. (IInv /\ TextsInv /\ WithinTable => p \in Nat /\ t \in Nat /\ t < k)'
    BY NumbersAre, PassToDoTypes, TextToDoFits, PTL
  <2> QED
    BY <2>1
<1>3. ToDo = p * k + t /\ ToDo' = p' * k' + t'
  BY DEF ToDo
<1>4. CASE PassStep \/ OpenText \/ BreakOff
  <2>1. capture' = capture
    BY <1>4 DEF PassStep, Prepare, HashPacket, HashEnd, ClassifyChain, DumpChain, DumpFails,
         OutOfMemory, TidySingle, TidyPair, TidySelf, WalkEnd, OpenText, WriteChain, WalkOn,
         BreakOff
  <2>2. k' = k
    BY <2>1 DEF Room
  <2>3. p' < p
    <3>1. CASE PassStep \/ OpenText
      BY <3>1, PassMoves DEF PassStep, OpenText
    <3>2. CASE BreakOff
      <4>1. Writing /\ pc' \in {"exit", "crash"}
        BY <3>2 DEF BreakOff, Writing, R!WriteFails, R!JudgeThroughNull
      <4>2. p' = 0
        BY <4>1 DEF PassToDo
      <4>3. p > 0
        BY <4>1, NumbersAre, PassToDoTypes DEF TextsInv
      <4> QED
        BY <4>2, <4>3
    <3> QED
      BY <1>4, <3>1, <3>2
  <2> HIDE DEF p, t, k
  <2>4. p' * k + t' < p * k + t
    BY <1>1, <1>2, <2>2, <2>3, FurtherOn
  <2> QED
    BY <1>3, <2>2, <2>4
<1>5. CASE TextStep \/ CloseText
  <2>1. t' < t /\ p' = p /\ k' = k
    BY <1>5, TextMovesOn
  <2> DEFINE x == p * k
  <2>2. x \in Nat /\ ToDo = x + t /\ ToDo' = x + t'
    BY <1>1, <1>3, <2>1
  <2>3. \A a, u, v \in Nat : u < v => a + u < a + v
    OBVIOUS
  <2> HIDE DEF p, t, k, x
  <2>4. x + t' < x + t
    BY <1>1, <1>2, <2>1, <2>2, <2>3
  <2> QED
    BY <2>2, <2>4
<1> QED
  BY <1>4, <1>5 DEF ProgramNext

\* Every step but one leaves less to do, by a natural number that only falls:
\* whatever was captured, the loops over packets, slots and the nodes of a
\* chain come on (main.c:217-313 and 372-473).  The one step is into
\* "hang", which stands for the sort of a self-flow's cyclic chain: that loop
\* goes on for ever.  The sort of any other chain is one step here, and
\* MergeSort's EveryStepSorts is about the loops in it.
THEOREM EveryStepEnds ==
    ProgramSpec => [](ToDo \in Nat) /\ [][pc' # "hang" => ToDo' < ToDo]_allVars
<1>1. ProgramInit => WithinTable
  BY SlotsAssumption DEF ProgramInit, Init, WithinTable
<1>2. ProgramSpec => []WithinTable
  BY <1>1, WithinTableStep, PTL DEF ProgramSpec
<1>3. IInv /\ TextsInv /\ WithinTable /\ (IInv /\ TextsInv /\ WithinTable)' /\ [ProgramNext]_allVars
         => [pc' # "hang" => ToDo' < ToDo]_allVars
  BY LessToDo
<1>4. IInv /\ TextsInv /\ WithinTable => ToDo \in Nat
  BY ToDoNat
<1> QED
  BY <1>2, <1>3, <1>4, AlwaysIInv, AlwaysTexts, PTL DEF ProgramSpec

-----------------------------------------------------------------------------
(* The table under the passes.  HashTable implements KeyedStore; here the  *)
(* first pass is shown to do with its chains what KeyedStore does, so that *)
(* both modules speak of one table.                                        *)

\* The chain c as nodes of a table: every packet under the key k.
NodesOf(k, c) == [j \in DOMAIN c |-> [key |-> k, data |-> c[j]]]

FlowChains == [k \in Keys |-> IF Stored(k) THEN NodesOf(k, nodes[slot[k]]) ELSE <<>>]

FlowStore == INSTANCE KeyedStore WITH Items   <- Packet,
                                      chain   <- FlowChains,
                                      stopped <- FALSE

LEMMA NodesInFront ==
    ASSUME NEW k, NEW p \in Packet, NEW c \in Lists
    PROVE  NodesOf(k, <<p>> \o c) = <<[key |-> k, data |-> p]>> \o NodesOf(k, c)
<1> DEFINE a == [key |-> k, data |-> p]
           f == NodesOf(k, c)
           d == <<p>> \o c
<1>1. Len(c) \in Nat /\ DOMAIN c = 1..Len(c)
  BY Members
<1>2. /\ d \in Seq(Packet) /\ Len(d) = Len(c) + 1 /\ DOMAIN d = 1..(Len(c) + 1)
      /\ d[1] = p /\ \A j \in 1..Len(c) : d[j + 1] = c[j]
  BY <1>1 DEF Lists
<1>3. f \in Seq({a} \cup {f[j] : j \in 1..Len(c)}) /\ Len(f) = Len(c)
  BY <1>1 DEF NodesOf
<1>4. \A j \in 1..Len(c) : f[j] = [key |-> k, data |-> c[j]]
  BY <1>1 DEF NodesOf
<1> HIDE DEF a, f
<1>5. /\ DOMAIN (<<a>> \o f) = 1..(Len(c) + 1) /\ (<<a>> \o f)[1] = a
      /\ \A j \in 1..Len(c) : (<<a>> \o f)[j + 1] = f[j]
      /\ <<a>> \o f = [j \in 1..(Len(c) + 1) |-> (<<a>> \o f)[j]]
  BY <1>1, <1>3
<1> HIDE DEF d
<1>6. ASSUME NEW j \in 1..(Len(c) + 1)
      PROVE  [key |-> k, data |-> d[j]] = (<<a>> \o f)[j]
  <2>1. CASE j = 1
    BY <1>2, <1>5, <2>1 DEF a
  <2>2. CASE j # 1
    <3>1. j - 1 \in 1..Len(c) /\ (j - 1) + 1 = j
      BY <1>1, <2>2
    <3>2. d[j] = c[j - 1] /\ (<<a>> \o f)[j] = f[j - 1]
      BY <1>2, <1>5, <3>1
    <3> QED
      BY <1>4, <3>1, <3>2
  <2> QED
    BY <2>1, <2>2
<1>7. NodesOf(k, d) = [j \in 1..(Len(c) + 1) |-> [key |-> k, data |-> d[j]]]
  BY <1>2 DEF NodesOf
<1>8. NodesOf(k, d) = <<a>> \o f
  BY <1>5, <1>6, <1>7
<1> QED
  BY <1>8 DEF d, a, f

\* In the first pass a chain that is not empty is found under the key of any
\* captured packet that has its slot.
LEMMA FoundUnder ==
    ASSUME IInv, AllOneSided(nodes, Captured),
           NEW p \in Packet, Known(Captured \cup {p}, slot),
           NEW k \in Keys, slot[k] = slot[p.key], nodes[slot[k]] # <<>>
    PROVE  Stored(k) <=> k = p.key
<1> DEFINE c == nodes[slot[k]]
<1>1. p.key \in Keys /\ slot[k] \in AllSlots /\ c \in Lists /\ c # <<>>
  BY Exchanged DEF IInv, TableTypes, Tables, Known
<1>2. Head(c) \in Captured /\ slot[Head(c).key] = slot[k]
  <2>1. Head(c) \in ToSet(c)
    BY <1>1, HeadIn
  <2>2. AtHome(c, slot[k], Captured, slot) /\ OneSided(c, Captured)
    BY <1>1 DEF IInv, ChainedIn, AllOneSided
  <2> HIDE DEF c
  <2> QED
    BY <1>1, <2>1, <2>2 DEF AtHome, OneSided
<1> HIDE DEF c
<1>3. Head(c).key = p.key
  BY <1>2 DEF Known
<1> QED
  BY <1>1, <1>3 DEF Stored, c

LEMMA HashPacketInserts ==
    ASSUME IInv, HashPacket, NEW p \in Packet, p = capture[read + 1]
    PROVE  FlowStore!Insert(p.key, p)
<1>1. /\ CaptureTypes /\ TableTypes /\ read \in Nat /\ read < Len(capture)
      /\ AllOneSided(nodes, Captured) /\ nodes \in Tables
  BY DEF IInv, HashPacket, TableTypes, Phased
<1>2. Known(Captured \cup {p}, slot) /\ IsTcp(p)
  <2>1. p # Other
    BY CapturesAssumption
  <2>2. read + 1 \in Nat /\ read + 1 <= Len(capture)
    <3>1. capture \in Seq(Packet \cup {Other})
      BY <1>1 DEF CaptureTypes
    <3> QED
      BY <1>1, <3>1
  <2>3. Known(ReadUpTo(read + 1), slot)
    BY <1>1, <2>2, ReadIsKnown
  <2>4. Captured \cup {p} \subseteq ReadUpTo(read + 1)
    <3>1. \A j \in 1..read : j \in 1..(read + 1)
      BY <1>1
    <3>2. read + 1 \in 1..(read + 1)
      BY <1>1
    <3> QED
      BY <2>1, <3>1, <3>2 DEF Captured, ReadUpTo, IsTcp
  <2> QED
    BY <2>1, <2>3, <2>4 DEF Known, IsTcp
<1> DEFINE h == slot[p.key]
           d == <<p>> \o nodes[h]
<1>3. /\ p.key \in Keys /\ slot \in [Keys -> AllSlots] /\ h \in AllSlots /\ nodes[h] \in Lists
  BY <1>1, <1>2, Exchanged DEF Known, Tables
<1>4. slot' = slot /\ nodes' = [nodes EXCEPT ![h] = d]
  BY <1>2 DEF HashPacket
<1>5. d \in Lists /\ d # <<>> /\ Head(d) = p /\ nodes'[h] = d
      /\ \A s \in AllSlots : s # h => nodes'[s] = nodes[s]
  <2>1. d \in Lists /\ d # <<>> /\ Head(d) = p
    BY <1>3 DEF Lists
  <2> HIDE DEF d, h
  <2> QED
    BY <1>1, <1>3, <1>4, <2>1 DEF Tables
<1>6. ASSUME NEW k \in Keys, k # p.key
      PROVE  FlowChains'[k] = FlowChains[k]
  <2>1. slot[k] \in AllSlots
    BY <1>3
  <2>2. CASE slot[k] = h
    <3>1. ~Stored(k)
      <4>1. CASE nodes[slot[k]] = <<>>
        BY <4>1 DEF Stored
      <4>2. CASE nodes[slot[k]] # <<>>
        BY <1>1, <1>2, <1>6, <2>2, <4>2, FoundUnder
      <4> QED
        BY <4>1, <4>2
    <3>2. ~Stored(k)'
      BY <1>4, <1>5, <1>6, <2>2 DEF Stored
    <3> QED
      BY <3>1, <3>2 DEF FlowChains
  <2>3. CASE slot[k] # h
    <3>1. nodes'[slot'[k]] = nodes[slot[k]]
      BY <1>4, <1>5, <2>1, <2>3
    <3>2. Stored(k)' = Stored(k)
      BY <3>1 DEF Stored
    <3> QED
      BY <3>1, <3>2 DEF FlowChains
  <2> QED
    BY <2>2, <2>3
<1>7. FlowChains'[p.key] = <<[key |-> p.key, data |-> p]>> \o FlowChains[p.key]
  <2>1. FlowChains[p.key] = NodesOf(p.key, nodes[h])
    <3>1. CASE nodes[h] = <<>>
      <4>1. NodesOf(p.key, nodes[h]) = <<>>
        BY <3>1 DEF NodesOf
      <4>2. ~Stored(p.key)
        BY <3>1 DEF Stored
      <4> QED
        BY <1>3, <4>1, <4>2 DEF FlowChains
    <3>2. CASE nodes[h] # <<>>
      <4>1. Stored(p.key)
        BY <1>1, <1>2, <1>3, <3>2, FoundUnder
      <4> QED
        BY <1>3, <4>1 DEF FlowChains
    <3> QED
      BY <3>1, <3>2
  <2>2. FlowChains'[p.key] = NodesOf(p.key, d)
    <3>1. nodes'[slot'[p.key]] = d
      BY <1>4, <1>5
    <3> HIDE DEF d
    <3>2. Stored(p.key)'
      BY <1>5, <3>1 DEF Stored
    <3> QED
      BY <1>3, <3>1, <3>2 DEF FlowChains
  <2> DEFINE c == nodes[h]
             q == p.key
  <2>3. c \in Lists /\ q \in Keys
    BY <1>3
  <2> HIDE DEF c, q
  <2>4. NodesOf(q, <<p>> \o c) = <<[key |-> q, data |-> p]>> \o NodesOf(q, c)
    BY <2>3, NodesInFront
  <2> QED
    BY <2>1, <2>2, <2>4, Zenon DEF c, q
<1>8. FlowChains' = [FlowChains EXCEPT ![p.key] = <<[key |-> p.key, data |-> p]>> \o @]
  <2> DEFINE a == <<[key |-> p.key, data |-> p]>> \o FlowChains[p.key]
             f == FlowChains
             g == FlowChains'
             q == p.key
  <2>1. f = [k \in Keys |-> f[k]] /\ g = [k \in Keys |-> g[k]]
    BY DEF FlowChains
  <2>2. q \in Keys /\ g[q] = a /\ \A k \in Keys : k # q => g[k] = f[k]
    BY <1>3, <1>6, <1>7
  <2> HIDE DEF a, f, g, q
  <2>3. g = [f EXCEPT ![q] = a]
    BY <2>1, <2>2
  <2> QED
    BY <2>3 DEF a, f, g, q
<1> QED
  BY <1>8 DEF FlowStore!Insert

\* The chain an insertion into HashTable leaves for a key is the one the
\* passes start from: the turns of hash_all_pcap_item (main.c:155-178) are
\* insertions of KeyedStore, which HashTable implements (TableImplementsStore
\* in HashTable_proofs), each of the packet just read under its own key.
\* Every other step of the first pass leaves the chains as they are.
THEOREM HashPassFillsStore ==
    ProgramSpec => /\ FlowStore!Init
                   /\ [][pc = "hash" =>
                           LET p == capture[read + 1]
                           IN  IF read' # read /\ IsTcp(p)
                               THEN FlowStore!Insert(p.key, p)
                               ELSE UNCHANGED FlowChains]_allVars
<1> DEFINE p == capture[read + 1]
           Turn1 == pc = "hash" => IF read' # read /\ IsTcp(p)
                                   THEN FlowStore!Insert(p.key, p)
                                   ELSE UNCHANGED FlowChains
<1>1. ProgramInit => FlowStore!Init
  <2> SUFFICES ASSUME ProgramInit PROVE FlowChains = [k \in Keys |-> <<>>]
    BY DEF FlowStore!Init
  <2>1. slot \in [Keys -> AllSlots] /\ nodes = [s \in AllSlots |-> <<>>]
    BY SlotsAssumption DEF ProgramInit, Init, AllSlots
  <2>2. \A k \in Keys : ~Stored(k)
    BY <2>1 DEF Stored
  <2> QED
    BY <2>2 DEF FlowChains
<1>2. IInv /\ [ProgramNext]_allVars => [Turn1]_allVars
  <2> SUFFICES ASSUME IInv, ProgramNext, pc = "hash"
               PROVE  IF read' # read /\ IsTcp(p) THEN FlowStore!Insert(p.key, p)
                                                  ELSE UNCHANGED FlowChains
    BY DEF Turn1
  <2>1. CASE HashPacket
    <3>1. p \in Packet \cup {Other} /\ read' = read + 1 /\ read' # read
      <4>1. capture \in Seq(Packet \cup {Other}) /\ read \in Nat /\ read < Len(capture)
        BY <2>1 DEF IInv, CaptureTypes, TableTypes, HashPacket
      <4> QED
        BY <2>1, <4>1 DEF HashPacket
    <3>2. CASE IsTcp(p)
      <4>1. p \in Packet
        BY <3>1, <3>2 DEF IsTcp
      <4> QED
        BY <2>1, <3>1, <3>2, <4>1, HashPacketInserts
    <3>3. CASE ~IsTcp(p)
      <4>1. nodes' = nodes /\ slot' = slot
        BY <2>1, <3>3 DEF HashPacket
      <4> QED
        BY <3>3, <4>1 DEF FlowChains, Stored
    <3> QED
      BY <3>2, <3>3
  <2>2. CASE ~HashPacket
    <3>1. nodes' = nodes /\ slot' = slot /\ read' = read
      BY <2>2 DEF ProgramNext, PassStep, Prepare, HashEnd, ClassifyChain, DumpChain,
         DumpFails, OutOfMemory, TidySingle, TidyPair, TidySelf, WalkEnd, OpenText,
         WriteChain, TextStep, CloseText, BreakOff, WalkOn, vars
    <3> QED
      BY <3>1 DEF FlowChains, Stored
  <2> QED
    BY <2>1, <2>2
<1> QED
  BY <1>1, <1>2, AlwaysIInv, PTL DEF ProgramSpec
=============================================================================
