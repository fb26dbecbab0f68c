-------------------------- MODULE MergeSort_proofs --------------------------
(***************************************************************************)
(* Proofs about sort_pcap_packets: its loops compute SortPackets, whatever *)
(* cmp_pcap_packet answers, and lose no packet on the way.                 *)
(***************************************************************************)
EXTENDS MergeSort, TcpPackets_proofs, SequenceTheorems

-----------------------------------------------------------------------------
(* The parts of q that the loops tell apart.                               *)

\* The first m packets of a list, and what follows them.
FirstOf(t, m) == SubSeq(t, 1, Min({m, Len(t)}))
After(t, m)   == SubSeq(t, m + 1, Len(t))

LEMMA FirstAndAfter ==
    ASSUME NEW t \in Lists, NEW m \in Nat
    PROVE  /\ FirstOf(t, m) \in Lists /\ After(t, m) \in Lists /\ Len(t) \in Nat
           /\ Len(FirstOf(t, m)) = IF m <= Len(t) THEN m ELSE Len(t)
           /\ Len(After(t, m)) = IF m <= Len(t) THEN Len(t) - m ELSE 0
           /\ \A j \in 1..Len(FirstOf(t, m)) : FirstOf(t, m)[j] = t[j]
           /\ \A j \in 1..Len(After(t, m)) : After(t, m)[j] = t[m + j]
<1> DEFINE n == Len(t)
           e == Min({m, n})
<1>1. n \in Nat
  BY Members
<1>2. e \in Nat /\ e <= n /\ e = (IF m <= n THEN m ELSE n)
  <2>1. {m, n} \in SUBSET Nat /\ {m, n} # {}
    BY <1>1
  <2>2. e \in {m, n} /\ \A y \in {m, n} : e <= y
    BY <2>1, MinIsLeast
  <2>3. e \in {m, n} /\ e <= m /\ e <= n
    BY <2>2
  <2> HIDE DEF e, n
  <2> QED
    BY <1>1, <2>3
<1> DEFINE a == SubSeq(t, 1, e)
           b == SubSeq(t, m + 1, n)
<1>3. a = SubSeq(t, 0 + 1, e) /\ 0 \in Nat
  OBVIOUS
<1>4. /\ a \in Lists /\ Len(a) = IF 0 <= e THEN e - 0 ELSE 0
      /\ \A j \in 1..Len(a) : a[j] = t[0 + j]
  <2> DEFINE lo == 0
  <2>1. lo \in Nat /\ e \in Nat /\ e <= Len(t)
    BY <1>2
  <2> HIDE DEF e, lo
  <2>2. /\ SubSeq(t, lo + 1, e) \in Lists
        /\ Len(SubSeq(t, lo + 1, e)) = IF lo <= e THEN e - lo ELSE 0
        /\ \A j \in 1..Len(SubSeq(t, lo + 1, e)) :
              SubSeq(t, lo + 1, e)[j] = t[lo + j] /\ lo + j \in 1..Len(t)
    BY <2>1, Part
  <2> HIDE DEF a
  <2> QED
    BY <1>3, <2>2 DEF lo
<1>5. /\ b \in Lists /\ Len(b) = IF m <= n THEN n - m ELSE 0
      /\ \A j \in 1..Len(b) : b[j] = t[m + j]
  BY <1>1, Part
<1>6. Len(a) = IF m <= n THEN m ELSE n
  <2> HIDE DEF a, e, n
  <2> QED
    BY <1>1, <1>2, <1>4
<1>7. \A j \in 1..Len(a) : a[j] = t[j]
  <2> DEFINE la == Len(a)
  <2>1. la \in Int
    <3> HIDE DEF a
    <3> QED
      BY <1>4, Members
  <2>2. \A j \in 1..la : 0 + j = j
    <3> HIDE DEF la
    <3> QED
      BY <2>1
  <2> QED
    BY <1>4, <2>2
<1>8. a = FirstOf(t, m) /\ b = After(t, m)
  BY DEF FirstOf, After
<1> HIDE DEF a, b
<1> QED
  BY <1>1, <1>4, <1>5, <1>6, <1>7, <1>8

\* Together they are the list.
LEMMA FirstThenAfter ==
    ASSUME NEW t \in Lists, NEW m \in Nat
    PROVE  /\ Len(t) = Len(FirstOf(t, m)) + Len(After(t, m))
           /\ ToSet(t) = ToSet(FirstOf(t, m)) \cup ToSet(After(t, m))
<1> DEFINE a == FirstOf(t, m)
           b == After(t, m)
           n == Len(t)
           la == Len(a)
           lb == Len(b)
<1>1. /\ a \in Lists /\ b \in Lists /\ n \in Nat
      /\ la = IF m <= n THEN m ELSE n
      /\ lb = IF m <= n THEN n - m ELSE 0
      /\ \A j \in 1..la : a[j] = t[j]
      /\ \A j \in 1..lb : b[j] = t[m + j]
  BY FirstAndAfter
<1>2. n = la + lb
  <2> HIDE DEF n, la, lb
  <2> QED
    BY <1>1
<1>3. /\ \A j \in 1..la : j \in 1..n
      /\ \A j \in 1..lb : m + j \in 1..n
      /\ \A j \in 1..n : j \in 1..la \/ (j - m \in 1..lb /\ m + (j - m) = j)
  <2> HIDE DEF n, la, lb
  <2> QED
    BY <1>1
<1>4. ToSet(a) \subseteq ToSet(t)
  <2>1. \A j \in 1..la : \E i \in 1..n : a[j] = t[i]
    BY <1>1, <1>3
  <2> QED
    BY <1>1, <2>1, Within
<1>5. ToSet(b) \subseteq ToSet(t)
  <2>1. \A j \in 1..lb : \E i \in 1..n : b[j] = t[i]
    BY <1>1, <1>3
  <2> QED
    BY <1>1, <2>1, Within
<1>6. ASSUME NEW j \in 1..n PROVE t[j] \in ToSet(a) \cup ToSet(b)
  <2>1. CASE j \in 1..la
    BY <1>1, <2>1, Members
  <2>2. CASE j - m \in 1..lb /\ m + (j - m) = j
    <3>1. b[j - m] = t[j]
      BY <1>1, <2>2
    <3> QED
      BY <1>1, <2>2, <3>1, Members
  <2> QED
    BY <1>3, <2>1, <2>2
<1>7. ToSet(t) \subseteq ToSet(a) \cup ToSet(b)
  BY <1>6, Members
<1> QED
  BY <1>2, <1>4, <1>5, <1>7

LEMMA Same ==
    ASSUME NEW t \in Lists, NEW u \in Lists, Len(t) = Len(u),
           \A j \in 1..Len(t) : t[j] = u[j]
    PROVE  t = u
BY SeqEqual DEF Lists

LEMMA None == /\ <<>> \in Lists /\ Len(<<>>) = 0 /\ ToSet(<<>>) = {}
              /\ \A t \in Lists : /\ <<>> \o t = t /\ t \o <<>> = t
                                  /\ t # <<>> <=> Len(t) # 0
<1>1. <<>> \in Lists /\ Len(<<>>) = 0 /\ ToSet(<<>>) = {}
  BY DEF Lists, ToSet
<1>2. ASSUME NEW t \in Lists PROVE <<>> \o t = t /\ t \o <<>> = t
  BY ConcatEmptySeq DEF Lists
<1>3. ASSUME NEW t \in Lists PROVE t # <<>> <=> Len(t) # 0
  BY EmptySeq DEF Lists
<1> QED
  BY <1>1, <1>2, <1>3

\* The runs a pass takes apart.
LEMMA RunsAreParts ==
    ASSUME NEW t \in Lists, NEW w \in Widths
    PROVE  /\ FirstRun(t, w) = FirstOf(t, w)
           /\ SecondRun(t, w) = FirstOf(After(t, w), w)
           /\ Remaining(t, w) = After(After(t, w), w)
<1> DEFINE n == Len(t)
           d == After(t, w)
           a == FirstOf(t, w)
           b == FirstOf(d, w)
           c == After(d, w)
           f == FirstRun(t, w)
           s == SecondRun(t, w)
           r == Remaining(t, w)
<1>0. w \in Nat /\ w # 0
  BY DEF Widths
<1>1. /\ a \in Lists /\ d \in Lists /\ n \in Nat
      /\ Len(a) = IF w <= n THEN w ELSE n
      /\ Len(d) = IF w <= n THEN n - w ELSE 0
      /\ \A j \in 1..Len(a) : a[j] = t[j]
      /\ \A j \in 1..Len(d) : d[j] = t[w + j]
  BY <1>0, FirstAndAfter
<1> HIDE DEF d
<1>2. /\ b \in Lists /\ c \in Lists
      /\ Len(b) = IF w <= Len(d) THEN w ELSE Len(d)
      /\ Len(c) = IF w <= Len(d) THEN Len(d) - w ELSE 0
      /\ \A j \in 1..Len(b) : b[j] = d[j]
      /\ \A j \in 1..Len(c) : c[j] = d[w + j]
  BY <1>0, <1>1, FirstAndAfter
<1>3. /\ f \in Lists /\ s \in Lists /\ r \in Lists
      /\ Len(f) = IF w <= n THEN w ELSE n
      /\ Len(s) = IF 2 * w <= n THEN w ELSE IF w <= n THEN n - w ELSE 0
      /\ Len(r) = IF 2 * w <= n THEN n - 2 * w ELSE 0
      /\ \A j \in 1..Len(f) : f[j] = t[j]
      /\ \A j \in 1..Len(s) : s[j] = t[w + j]
      /\ \A j \in 1..Len(r) : r[j] = t[2 * w + j]
  BY RunParts
<1> DEFINE ld == Len(d)
           lb == Len(b)
           lc == Len(c)
           ls == Len(s)
           lr == Len(r)
<1>4. /\ ls = lb /\ lr = lc
      /\ \A j \in 1..lb : j \in 1..ld
      /\ \A j \in 1..lc : w + j \in 1..ld /\ w + (w + j) = 2 * w + j
  <2>1. /\ ld = IF w <= n THEN n - w ELSE 0
        /\ lb = IF w <= ld THEN w ELSE ld
        /\ lc = IF w <= ld THEN ld - w ELSE 0
        /\ ls = IF 2 * w <= n THEN w ELSE IF w <= n THEN n - w ELSE 0
        /\ lr = IF 2 * w <= n THEN n - 2 * w ELSE 0
    BY <1>1, <1>2, <1>3
  <2> HIDE DEF n, ld, lb, lc, ls, lr
  <2>2. ls = lb /\ lr = lc
    <3>1. CASE 2 * w <= n
      BY <1>0, <1>1, <2>1, <3>1
    <3>2. CASE ~(2 * w <= n)
      BY <1>0, <1>1, <2>1, <3>2
    <3> QED
      BY <3>1, <3>2
  <2>3. /\ \A j \in 1..lb : j \in 1..ld
        /\ \A j \in 1..lc : w + j \in 1..ld /\ w + (w + j) = 2 * w + j
    BY <1>0, <1>1, <2>1
  <2> QED
    BY <2>2, <2>3
<1>5. f = a
  BY <1>1, <1>3, Same
<1>6. s = b
  <2>1. \A j \in 1..Len(s) : s[j] = b[j]
    BY <1>1, <1>2, <1>3, <1>4
  <2> QED
    BY <1>2, <1>3, <1>4, <2>1, Same
<1>7. r = c
  <2>1. ASSUME NEW j \in 1..Len(r) PROVE r[j] = c[j]
    <3>1. j \in 1..lc /\ r[j] = t[2 * w + j]
      BY <1>3, <1>4
    <3>2. w + j \in 1..ld /\ w + (w + j) = 2 * w + j
      BY <1>4, <3>1
    <3>3. c[j] = d[w + j] /\ d[w + j] = t[w + (w + j)]
      BY <1>1, <1>2, <3>1, <3>2
    <3> QED
      BY <3>1, <3>2, <3>3
  <2> QED
    BY <1>2, <1>3, <1>4, <2>1, Same
<1> QED
  BY <1>5, <1>6, <1>7 DEF d

\* Merging with nothing changes nothing, and so does a pass over one run.
LEMMA MergeWithNone == \A a \in Lists : merge[<<a, <<>>>>] = a
<1> DEFINE Good == {ab \in ListPairs : ab[2] = <<>> => merge[ab] = ab[1]}
<1>0. ASSUME NEW a \in Lists, NEW b \in Lists
      PROVE  <<a, b>> \in Good <=> (b = <<>> => merge[<<a, b>>] = a)
  BY PairSize
<1> HIDE DEF Good
<1>1. ASSUME NEW a \in Lists, NEW b \in Lists,
             a # <<>> => <<Tail(a), b>> \in Good,
             b # <<>> => <<a, Tail(b)>> \in Good
      PROVE  <<a, b>> \in Good
  <2> SUFFICES ASSUME b = <<>> PROVE merge[<<a, b>>] = a
    BY <1>0
  <2>1. CASE a # <<>>
    <3>1. Tail(a) \in Lists /\ a = <<Head(a)>> \o Tail(a)
      BY <2>1, HeadAndTail
    <3>2. merge[<<Tail(a), b>>] = Tail(a)
      BY <1>0, <1>1, <2>1, <3>1
    <3>3. merge[<<a, b>>] = <<Head(a)>> \o merge[<<Tail(a), b>>]
      BY <2>1, MergeSteps
    <3> QED
      BY <3>1, <3>2, <3>3
  <2>2. CASE a = <<>>
    BY <2>2, MergeSteps
  <2> QED
    BY <2>1, <2>2
<1>2. \A a, b \in Lists : <<a, b>> \in Good
  BY <1>1, MergeInduction
<1> QED
  BY <1>0, <1>2, None

LEMMA WholeRun ==
    ASSUME NEW t \in Lists, NEW w \in Widths, Len(t) <= w
    PROVE  pass[<<t, w>>] = t
<1> DEFINE a == FirstRun(t, w)
           b == SecondRun(t, w)
           c == Remaining(t, w)
           n == Len(t)
           la == Len(a)
           lb == Len(b)
           lc == Len(c)
<1>1. /\ a \in Lists /\ b \in Lists /\ c \in Lists /\ n \in Nat
      /\ la = IF w <= n THEN w ELSE n
      /\ lb = IF 2 * w <= n THEN w ELSE IF w <= n THEN n - w ELSE 0
      /\ lc = IF 2 * w <= n THEN n - 2 * w ELSE 0
      /\ \A j \in 1..la : a[j] = t[j]
  BY RunParts
<1>2. la = n /\ lb = 0 /\ lc = 0
  <2>1. w \in Nat /\ w # 0 /\ n <= w
    BY DEF Widths
  <2> HIDE DEF n, la, lb, lc
  <2> QED
    BY <1>1, <2>1
<1> HIDE DEF a, b, c
<1>3. a = t
  BY <1>1, <1>2, Same
<1>4. b = <<>> /\ c = <<>>
  BY <1>1, <1>2, None
<1>5. CASE t # <<>>
  <2>1. pass[<<t, w>>] = merge[<<a, b>>] \o pass[<<c, w>>]
    BY <1>5, PassSteps DEF a, b, c
  <2>2. pass[<<c, w>>] = <<>>
    BY <1>1, <1>4, PassSteps
  <2>3. merge[<<a, b>>] = t
    BY <1>3, <1>4, MergeWithNone
  <2> QED
    BY <2>1, <2>2, <2>3, None
<1>6. CASE t = <<>>
  BY <1>6, PassSteps
<1> QED
  BY <1>5, <1>6

\* Taking the first packet of a run.
LEMMA FirstTaken ==
    ASSUME NEW t \in Lists, NEW m \in Nat, m # 0, t # <<>>
    PROVE  /\ Tail(t) \in Lists /\ m - 1 \in Nat
           /\ FirstOf(t, m) # <<>> /\ Head(FirstOf(t, m)) = Head(t)
           /\ Tail(FirstOf(t, m)) = FirstOf(Tail(t), m - 1)
           /\ After(t, m) = After(Tail(t), m - 1)
<1> DEFINE n == Len(t)
           u == Tail(t)
           a == FirstOf(t, m)
           d == After(t, m)
           b == FirstOf(u, m - 1)
           c == After(u, m - 1)
<1>0. m - 1 \in Nat
  OBVIOUS
<1>1. /\ u \in Lists /\ n \in Nat /\ n # 0 /\ Len(u) = n - 1 /\ Head(t) = t[1]
      /\ \A j \in 1..(n - 1) : u[j] = t[j + 1]
  BY DEF Lists
<1> HIDE DEF u
<1>2. /\ a \in Lists /\ d \in Lists
      /\ Len(a) = IF m <= n THEN m ELSE n
      /\ Len(d) = IF m <= n THEN n - m ELSE 0
      /\ \A j \in 1..Len(a) : a[j] = t[j]
      /\ \A j \in 1..Len(d) : d[j] = t[m + j]
  BY FirstAndAfter
<1>3. /\ b \in Lists /\ c \in Lists
      /\ Len(b) = IF m - 1 <= Len(u) THEN m - 1 ELSE Len(u)
      /\ Len(c) = IF m - 1 <= Len(u) THEN Len(u) - (m - 1) ELSE 0
      /\ \A j \in 1..Len(b) : b[j] = u[j]
      /\ \A j \in 1..Len(c) : c[j] = u[(m - 1) + j]
  BY <1>0, <1>1, FirstAndAfter
<1> DEFINE la == Len(a)
           lb == Len(b)
           lc == Len(c)
           ld == Len(d)
<1>4. /\ la \in Nat /\ la # 0 /\ lb = la - 1 /\ ld = lc
      /\ 1 \in 1..la
      /\ \A j \in 1..lb : j \in 1..(n - 1) /\ j + 1 \in 1..la
      /\ \A j \in 1..lc : (m - 1) + j \in 1..(n - 1) /\ ((m - 1) + j) + 1 = m + j
  <2>1. /\ la = IF m <= n THEN m ELSE n
        /\ ld = IF m <= n THEN n - m ELSE 0
        /\ lb = IF m - 1 <= n - 1 THEN m - 1 ELSE n - 1
        /\ lc = IF m - 1 <= n - 1 THEN (n - 1) - (m - 1) ELSE 0
    BY <1>1, <1>2, <1>3
  <2> HIDE DEF n, la, lb, lc, ld
  <2>2. la \in Nat /\ la # 0 /\ lb = la - 1 /\ ld = lc /\ 1 \in 1..la
    BY <1>1, <2>1
  <2>3. \A j \in 1..lb : j \in 1..(n - 1) /\ j + 1 \in 1..la
    BY <1>1, <2>1
  <2>4. \A j \in 1..lc : (m - 1) + j \in 1..(n - 1) /\ ((m - 1) + j) + 1 = m + j
    BY <1>1, <2>1
  <2> QED
    BY <2>2, <2>3, <2>4
<1>5. a # <<>> /\ Head(a) = Head(t)
  <2>1. a # <<>>
    BY <1>2, <1>4, None
  <2>2. Head(a) = a[1]
    BY <1>2, <2>1 DEF Lists
  <2> QED
    BY <1>1, <1>2, <1>4, <2>1, <2>2
<1>6. Tail(a) = b
  <2> DEFINE e == Tail(a)
  <2>1. e \in Lists /\ Len(e) = la - 1 /\ \A j \in 1..(la - 1) : e[j] = a[j + 1]
    BY <1>2, <1>5 DEF Lists
  <2> HIDE DEF e
  <2>2. ASSUME NEW j \in 1..Len(e) PROVE e[j] = b[j]
    <3>1. j \in 1..lb
      BY <1>4, <2>1
    <3>2. e[j] = a[j + 1] /\ a[j + 1] = t[j + 1]
      BY <1>2, <1>4, <2>1, <3>1
    <3>3. b[j] = u[j] /\ u[j] = t[j + 1]
      BY <1>1, <1>3, <1>4, <3>1
    <3> QED
      BY <3>2, <3>3
  <2>3. e = b
    BY <1>3, <1>4, <2>1, <2>2, Same
  <2> QED
    BY <2>3 DEF e
<1>7. d = c
  <2>1. ASSUME NEW j \in 1..Len(d) PROVE d[j] = c[j]
    <3>1. j \in 1..lc /\ d[j] = t[m + j]
      BY <1>2, <1>4
    <3>2. c[j] = u[(m - 1) + j] /\ u[(m - 1) + j] = t[((m - 1) + j) + 1]
      BY <1>1, <1>3, <1>4, <3>1
    <3>3. ((m - 1) + j) + 1 = m + j
      BY <1>4, <3>1
    <3> QED
      BY <3>1, <3>2, <3>3
  <2> QED
    BY <1>2, <1>3, <1>4, <2>1, Same
<1> QED
  BY <1>0, <1>1, <1>5, <1>6, <1>7 DEF u

\* Nothing more to take.
LEMMA NothingTaken ==
    ASSUME NEW t \in Lists, NEW m \in Nat
    PROVE  /\ FirstOf(t, m) = <<>> <=> m = 0 \/ t = <<>>
           /\ m = 0 \/ t = <<>> => After(t, m) = t
<1> DEFINE n == Len(t)
           a == FirstOf(t, m)
           d == After(t, m)
           la == Len(a)
           ld == Len(d)
<1>1. /\ a \in Lists /\ d \in Lists /\ n \in Nat
      /\ la = IF m <= n THEN m ELSE n
      /\ ld = IF m <= n THEN n - m ELSE 0
      /\ \A j \in 1..ld : d[j] = t[m + j]
  BY FirstAndAfter
<1>2. (a = <<>> <=> la = 0) /\ (t = <<>> <=> n = 0)
  BY <1>1, None
<1>3. /\ la = 0 <=> m = 0 \/ n = 0
      /\ m = 0 \/ n = 0 => ld = n /\ \A j \in 1..ld : m + j = j
  <2> HIDE DEF n, la, ld
  <2> QED
    BY <1>1
<1>4. ASSUME m = 0 \/ n = 0 PROVE d = t
  <2>1. \A j \in 1..Len(d) : d[j] = t[j]
    BY <1>1, <1>3, <1>4
  <2> QED
    BY <1>1, <1>3, <1>4, <2>1, Same
<1> QED
  BY <1>2, <1>3, <1>4

-----------------------------------------------------------------------------
(* More about lists and packets.                                           *)

LEMMA Appended ==
    ASSUME NEW t \in Lists, NEW x \in Packet
    PROVE  /\ Append(t, x) \in Lists /\ <<x>> \in Lists /\ Append(t, x) = t \o <<x>>
           /\ Len(Append(t, x)) = Len(t) + 1
           /\ ToSet(Append(t, x)) = ToSet(t) \cup {x}
<1>1. /\ <<x>> \in Lists /\ <<>> \in Lists /\ <<x>> = <<x>> \o <<>> /\ Len(<<x>>) = 1
      /\ Append(t, x) = t \o <<x>>
  BY DEF Lists
<1>2. ToSet(<<x>>) = {x}
  <2>1. ToSet(<<x>> \o <<>>) = {x} \cup ToSet(<<>>)
    BY <1>1, InFront
  <2> QED
    BY <1>1, <2>1, None
<1>3. /\ t \o <<x>> \in Lists /\ Len(t \o <<x>>) = Len(t) + Len(<<x>>)
      /\ ToSet(t \o <<x>>) = ToSet(t) \cup ToSet(<<x>>)
  BY <1>1, Joining
<1> QED
  BY <1>1, <1>2, <1>3

LEMMA Regrouped ==
    ASSUME NEW a \in Lists, NEW b \in Lists, NEW c \in Lists, NEW d \in Lists
    PROVE  a \o ((b \o c) \o d) = (a \o b) \o (c \o d)
<1> DEFINE e == c \o d
           f == (b \o c) \o d
<1>1. f = b \o e
  BY ConcatAssociative, SMTT(20) DEF Lists
<1>2. e \in Lists
  BY Joining
<1> HIDE DEF e, f
<1>3. (a \o b) \o e = a \o (b \o e)
  BY <1>2, ConcatAssociative, SMTT(40) DEF Lists
<1>4. a \o f = (a \o b) \o e
  BY <1>1, <1>3
<1> QED
  BY <1>4 DEF e, f

LEMMA CompareIsInt == \A x, y \in Packet : Compare(x, y) \in Int
<1>1. ASSUME NEW a \in SeqNumbers, NEW b \in SeqNumbers PROVE SeqDiff(a, b) \in Int
  <2>1. a \in Int /\ b \in Int /\ SeqSpace \in Int /\ HalfSpace \in Int
    BY HalfOfSpace DEF SeqNumbers
  <2>2. CASE a - b >= HalfSpace
    BY <2>1, <2>2 DEF SeqDiff
  <2>3. CASE ~(a - b >= HalfSpace) /\ a - b < 0 - HalfSpace
    BY <2>1, <2>3 DEF SeqDiff
  <2>4. CASE ~(a - b >= HalfSpace) /\ ~(a - b < 0 - HalfSpace)
    BY <2>1, <2>4 DEF SeqDiff
  <2> QED
    BY <2>2, <2>3, <2>4
<1> QED
  BY <1>1 DEF Packet, Compare

-----------------------------------------------------------------------------
(* The invariant of the loops.                                             *)

SortTypes ==
    /\ input \in Lists /\ input # <<>> /\ Distinct(input)
    /\ list \in Lists /\ p \in Lists /\ q \in Lists
    /\ qsize \in Nat /\ insize \in Widths /\ nmerges \in Nat
    /\ pc \in {"pass", "merge", "sorted"}
    /\ pc # "merge" => p = <<>>

Kept == /\ Len(list) + Len(p) + Len(q) = Len(input)
        /\ (ToSet(list) \cup ToSet(p)) \cup ToSet(q) = ToSet(input)

\* A pass with runs of w packets that is to sort s starts from t.
StartsFrom(t, w, s) ==
    t \in Lists /\ Len(t) = Len(s) /\ passes[<<t, w>>] = SortPackets(s)

\* What has been merged, followed by what the loops are about to merge, is
\* what pass makes from the list the pass started from.
PassInv ==
    /\ pc = "pass" => \E t : /\ StartsFrom(t, insize, input)
                             /\ pass[<<t, insize>>] = list \o pass[<<q, insize>>]
    /\ pc = "merge" => \E t : /\ StartsFrom(t, insize, input)
                              /\ pass[<<t, insize>>] =
                                    list \o (merge[<<p, FirstOf(q, qsize)>>]
                                               \o pass[<<After(q, qsize), insize>>])
    /\ pc = "sorted" => list = SortPackets(input)

\* nmerges tells one merge, which made the list whole, from several.
CountInv ==
    /\ pc = "pass" => /\ nmerges = 0 => list = <<>>
                      /\ nmerges = 1 => /\ Len(list) <= 2 * insize
                                        /\ q # <<>> => Len(list) = 2 * insize
    /\ pc = "merge" => /\ nmerges # 0
                       /\ nmerges = 1 =>
                            /\ Len(list) + Len(p) + qsize <= 2 * insize
                            /\ qsize < Len(q) => Len(list) + Len(p) + qsize = 2 * insize
    /\ nmerges > 1 => 2 * insize < Len(input)

IInv == SortTypes /\ Kept /\ PassInv /\ CountInv

LEMMA InputStays ==
    ASSUME SortTypes, input' = input PROVE (input # <<>> /\ Distinct(input))'
BY DEF SortTypes, Distinct

LEMMA Initially == Init => IInv
<1> SUFFICES ASSUME Init PROVE IInv
  OBVIOUS
<1>1. /\ list = <<>> /\ p = <<>> /\ q = input /\ qsize = 0 /\ insize = 1 /\ nmerges = 0
      /\ pc = "pass"
  BY DEF Init
<1>2. PICK m \in 1..MaxLength : input \in [1..m -> Packets] /\ IsInjective(input)
  BY DEF Init, Chains
<1>3. m \in Nat /\ m # 0
  BY ChainsAssumption
<1>4. input \in Lists /\ Len(input) = m
  BY <1>2, <1>3, ChainsAssumption DEF Lists
<1>5. Distinct(input) /\ input # <<>>
  <2>1. DOMAIN input = 1..Len(input)
    BY <1>4, Members
  <2>2. input # <<>>
    BY <1>3, <1>4, None
  <2> QED
    BY <1>2, <2>1, <2>2 DEF Distinct, IsInjective
<1>6. SortTypes
  BY <1>1, <1>4, <1>5, None DEF SortTypes, Widths
<1>7. Kept
  <2>1. Len(input) \in Nat
    BY <1>4, Members
  <2> QED
    BY <1>1, <2>1, None DEF Kept
<1>8. PassInv
  <2>1. StartsFrom(input, 1, input)
    BY <1>4 DEF StartsFrom, SortPackets
  <2>2. pass[<<input, 1>>] = <<>> \o pass[<<input, 1>>]
    <3>1. pass[<<input, 1>>] \in Lists
      <4>1. 1 \in Widths
        BY DEF Widths
      <4> QED
        BY <1>4, <4>1, PassSteps
    <3> QED
      BY <3>1, None
  <2> QED
    BY <1>1, <2>1, <2>2 DEF PassInv
<1>9. CountInv
  BY <1>1 DEF CountInv
<1> QED
  BY <1>6, <1>7, <1>8, <1>9 DEF IInv

LEMMA SplitOffKeeps == IInv /\ SplitOff => IInv'
<1> SUFFICES ASSUME IInv, SplitOff PROVE IInv'
  OBVIOUS
<1> DEFINE w == insize
           a == FirstOf(q, w)
           b == After(q, w)
<1>1. /\ SortTypes /\ Kept /\ PassInv /\ CountInv
      /\ input \in Lists /\ list \in Lists /\ q \in Lists /\ q # <<>> /\ p = <<>>
      /\ w \in Widths /\ w \in Nat /\ w # 0 /\ nmerges \in Nat
      /\ pc = "pass"
  BY DEF IInv, SortTypes, SplitOff, Widths
<1>2. /\ nmerges' = nmerges + 1 /\ p' = a /\ q' = b /\ qsize' = w /\ pc' = "merge"
      /\ input' = input /\ list' = list /\ insize' = w
  BY DEF SplitOff, Behind, FirstOf, After
<1>3. /\ a \in Lists /\ b \in Lists /\ Len(q) \in Nat
      /\ Len(a) = IF w <= Len(q) THEN w ELSE Len(q)
      /\ Len(b) = IF w <= Len(q) THEN Len(q) - w ELSE 0
      /\ Len(q) = Len(a) + Len(b) /\ ToSet(q) = ToSet(a) \cup ToSet(b)
  BY <1>1, FirstAndAfter, FirstThenAfter
<1>4. /\ Len(list) \in Nat /\ Len(input) \in Nat /\ Len(a) \in Nat /\ Len(b) \in Nat
      /\ Len(p) = 0 /\ ToSet(p) = {} /\ Len(q) # 0
  BY <1>1, <1>3, Members, None
<1> HIDE DEF a, b
<1>5. SortTypes'
  <2>1. (input # <<>> /\ Distinct(input))'
    BY <1>1, <1>2, InputStays
  <2>2. nmerges' \in Nat /\ qsize' \in Nat /\ insize' \in Widths
    BY <1>1, <1>2
  <2>3. input' \in Lists /\ list' \in Lists /\ p' \in Lists /\ q' \in Lists
    BY <1>1, <1>2, <1>3
  <2> QED
    BY <1>2, <2>1, <2>2, <2>3 DEF SortTypes
<1>6. Len(list) + Len(q) = Len(input)
  <2> DEFINE l == Len(list)
             m == Len(p)
             n == Len(q)
  <2>1. l + m + n = Len(input) /\ l \in Nat /\ m = 0 /\ n \in Nat
    BY <1>1, <1>3, <1>4 DEF Kept
  <2> HIDE DEF l, m, n
  <2>2. l + n = Len(input)
    BY <2>1
  <2> QED
    BY <2>2 DEF l, n
<1>7. Kept'
  <2>1. Len(list) + Len(q) = Len(input)
    BY <1>6
  <2>2. Len(list) + Len(a) + Len(b) = Len(input)
    BY <1>3, <1>4, <2>1
  <2>3. (ToSet(list) \cup ToSet(a)) \cup ToSet(b) = ToSet(input)
    BY <1>1, <1>3, <1>4 DEF Kept
  <2> QED
    BY <1>2, <2>2, <2>3 DEF Kept
<1>8. PassInv'
  <2>1. PICK t : StartsFrom(t, w, input) /\ pass[<<t, w>>] = list \o pass[<<q, w>>]
    BY <1>1 DEF PassInv
  <2>2. pass[<<q, w>>] = merge[<<a, FirstOf(b, w)>>] \o pass[<<After(b, w), w>>]
    BY <1>1, PassSteps, RunsAreParts DEF a, b
  <2> QED
    BY <1>2, <2>1, <2>2 DEF PassInv
<1>9. CountInv'
  <2> DEFINE l == Len(list)
             n == Len(q)
             la == Len(a)
             lb == Len(b)
  <2>1. /\ l \in Nat /\ n \in Nat /\ n # 0
        /\ la = IF w <= n THEN w ELSE n
        /\ lb = IF w <= n THEN n - w ELSE 0
        /\ l + n = Len(input)
    BY <1>3, <1>4, <1>6
  <2>2. /\ nmerges = 0 => l = 0
        /\ nmerges = 1 => l = 2 * w
        /\ nmerges > 1 => 2 * w < l + n
    BY <1>1, <2>1, None DEF CountInv
  <2>3. /\ nmerges + 1 # 0
        /\ nmerges + 1 = 1 => /\ l + la + w <= 2 * w
                              /\ w < lb => l + la + w = 2 * w
        /\ nmerges + 1 > 1 => 2 * w < l + n
    <3> HIDE DEF l, n, la, lb
    <3> QED
      BY <1>1, <2>1, <2>2
  <2> QED
    BY <1>2, <2>1, <2>3 DEF CountInv
<1> QED
  BY <1>5, <1>7, <1>8, <1>9 DEF IInv

LEMMA TakePKeeps == IInv /\ TakeP => IInv'
<1> SUFFICES ASSUME IInv, TakeP PROVE IInv'
  OBVIOUS
<1> DEFINE x == Head(p)
           u == Tail(p)
           f == FirstOf(q, qsize)
           r == pass[<<After(q, qsize), insize>>]
<1>1. /\ SortTypes /\ Kept /\ PassInv /\ CountInv
      /\ input \in Lists /\ list \in Lists /\ q \in Lists /\ p \in Lists /\ p # <<>>
      /\ insize \in Widths /\ insize \in Nat /\ nmerges \in Nat /\ qsize \in Nat
      /\ pc = "merge"
  BY DEF IInv, SortTypes, TakeP, Widths
<1>2. /\ list' = Append(list, x) /\ p' = u
      /\ input' = input /\ q' = q /\ qsize' = qsize /\ insize' = insize
      /\ nmerges' = nmerges /\ pc' = pc
  BY DEF TakeP
<1>3. /\ x \in Packet /\ u \in Lists /\ Len(u) = Len(p) - 1
      /\ ToSet(p) = {x} \cup ToSet(u)
  BY <1>1, HeadAndTail
<1>4. /\ Append(list, x) \in Lists /\ <<x>> \in Lists /\ Append(list, x) = list \o <<x>>
      /\ Len(Append(list, x)) = Len(list) + 1
      /\ ToSet(Append(list, x)) = ToSet(list) \cup {x}
  BY <1>1, <1>3, Appended
<1>5. /\ f \in Lists /\ After(q, qsize) \in Lists /\ r \in Lists
      /\ f # <<>> => ~QEmpty /\ Head(f) = Head(q)
  <2>1. f \in Lists /\ After(q, qsize) \in Lists
    BY <1>1, FirstAndAfter
  <2>2. r \in Lists
    BY <1>1, <2>1, PassSteps
  <2>3. f # <<>> => qsize # 0 /\ q # <<>>
    BY <1>1, NothingTaken
  <2>4. f # <<>> => Head(f) = Head(q)
    BY <1>1, <2>3, FirstTaken
  <2> QED
    BY <2>1, <2>2, <2>3, <2>4 DEF QEmpty
<1>6. merge[<<p, f>>] = <<x>> \o merge[<<u, f>>] /\ merge[<<u, f>>] \in Lists
  <2>1. f # <<>> => Compare(Head(p), Head(f)) <= 0
    BY <1>5 DEF TakeP
  <2>2. p \in Lists /\ f \in Lists /\ p # <<>>
    BY <1>1, <1>5
  <2>3. merge[<<p, f>>] = <<Head(p)>> \o merge[<<Tail(p), f>>]
    <3> HIDE DEF x, u, f, r
    <3> QED
      BY <2>1, <2>2, MergeSteps, ZenonT(30)
  <2>4. merge[<<u, f>>] \in Lists
    BY <1>3, <1>5, MergeSteps
  <2> QED
    BY <2>3, <2>4
<1>7. /\ Len(list) \in Nat /\ Len(input) \in Nat /\ Len(p) \in Nat /\ Len(q) \in Nat
  BY <1>1, Members
<1> HIDE DEF x, u, f, r
<1>8. SortTypes'
  <2>1. (input # <<>> /\ Distinct(input))'
    BY <1>1, <1>2, InputStays
  <2> QED
    BY <1>1, <1>2, <1>3, <1>4, <2>1 DEF SortTypes
<1>9. ASSUME NEW k \in Nat
      PROVE  (Len(list) + 1) + Len(u) + k = Len(list) + Len(p) + k
  <2> DEFINE l == Len(list)
             m == Len(p)
             n == Len(u)
  <2>1. l \in Nat /\ m \in Nat /\ n = m - 1
    BY <1>3, <1>7
  <2> HIDE DEF l, m, n
  <2>2. (l + 1) + n + k = l + m + k
    BY <2>1
  <2> QED
    BY <2>2 DEF l, m, n
<1>10. Kept'
  <2>1. (Len(list) + 1) + Len(u) + Len(q) = Len(input)
    BY <1>1, <1>7, <1>9 DEF Kept
  <2>2. ((ToSet(list) \cup {x}) \cup ToSet(u)) \cup ToSet(q) = ToSet(input)
    BY <1>1, <1>3 DEF Kept
  <2> QED
    BY <1>2, <1>4, <2>1, <2>2 DEF Kept
<1>11. PassInv'
  <2>1. PICK t : /\ StartsFrom(t, insize, input)
                 /\ pass[<<t, insize>>] = list \o (merge[<<p, f>>] \o r)
    BY <1>1 DEF PassInv, f, r
  <2>2. list \o (merge[<<p, f>>] \o r) = Append(list, x) \o (merge[<<u, f>>] \o r)
    <3> DEFINE m == merge[<<u, f>>]
               e == <<x>>
    <3>1. m \in Lists /\ r \in Lists /\ list \in Lists /\ e \in Lists
      BY <1>1, <1>4, <1>5, <1>6
    <3> HIDE DEF m, e
    <3>2. list \o ((e \o m) \o r) = (list \o e) \o (m \o r)
      BY <3>1, Regrouped, ZenonT(100)
    <3>3. merge[<<p, f>>] = e \o m
      BY <1>6 DEF m, e
    <3>4. Append(list, x) = list \o e
      BY <1>4 DEF e
    <3>5. list \o (merge[<<p, f>>] \o r) = Append(list, x) \o (m \o r)
      BY <3>2, <3>3, <3>4, Zenon
    <3> QED
      BY <3>5 DEF m
  <2> QED
    BY <1>1, <1>2, <2>1, <2>2 DEF PassInv, f, r
<1>12. CountInv'
  <2>1. nmerges # 0 /\ (nmerges > 1 => 2 * insize < Len(input))
    BY <1>1 DEF CountInv
  <2>2. nmerges = 1 =>
            /\ (Len(list) + 1) + Len(u) + qsize <= 2 * insize
            /\ qsize < Len(q) => (Len(list) + 1) + Len(u) + qsize = 2 * insize
    BY <1>1, <1>9 DEF CountInv
  <2> QED
    BY <1>1, <1>2, <1>4, <2>1, <2>2 DEF CountInv
<1> QED
  BY <1>8, <1>10, <1>11, <1>12 DEF IInv

LEMMA TakeQKeeps == IInv /\ TakeQ => IInv'
<1> SUFFICES ASSUME IInv, TakeQ PROVE IInv'
  OBVIOUS
<1> DEFINE x == Head(q)
           u == Tail(q)
           f == FirstOf(q, qsize)
           g == FirstOf(u, qsize - 1)
           r == pass[<<After(q, qsize), insize>>]
<1>1. /\ SortTypes /\ Kept /\ PassInv /\ CountInv
      /\ input \in Lists /\ list \in Lists /\ q \in Lists /\ p \in Lists /\ q # <<>>
      /\ insize \in Widths /\ insize \in Nat /\ nmerges \in Nat /\ qsize \in Nat
      /\ pc = "merge" /\ qsize # 0
  BY DEF IInv, SortTypes, TakeQ, QEmpty, Widths
<1>2. /\ list' = Append(list, x) /\ q' = u /\ qsize' = qsize - 1
      /\ input' = input /\ p' = p /\ insize' = insize /\ nmerges' = nmerges /\ pc' = pc
  BY DEF TakeQ
<1>3. /\ x \in Packet /\ u \in Lists /\ Len(u) = Len(q) - 1
      /\ ToSet(q) = {x} \cup ToSet(u)
  BY <1>1, HeadAndTail
<1>4. /\ Append(list, x) \in Lists /\ <<x>> \in Lists /\ Append(list, x) = list \o <<x>>
      /\ Len(Append(list, x)) = Len(list) + 1
      /\ ToSet(Append(list, x)) = ToSet(list) \cup {x}
  BY <1>1, <1>3, Appended
<1>5. /\ f \in Lists /\ f # <<>> /\ Head(f) = x /\ Tail(f) = g /\ g \in Lists
      /\ qsize - 1 \in Nat /\ After(q, qsize) = After(u, qsize - 1)
  <2>1. /\ qsize - 1 \in Nat /\ u \in Lists /\ f # <<>> /\ Head(f) = x /\ Tail(f) = g
        /\ After(q, qsize) = After(u, qsize - 1)
    BY <1>1, FirstTaken
  <2>2. f \in Lists /\ g \in Lists
    BY <1>1, <2>1, FirstAndAfter
  <2> QED
    BY <2>1, <2>2
<1>6. r \in Lists
  <2>1. After(q, qsize) \in Lists
    BY <1>1, FirstAndAfter
  <2> QED
    BY <1>1, <2>1, PassSteps
<1>7. merge[<<p, f>>] = <<x>> \o merge[<<p, g>>] /\ merge[<<p, g>>] \in Lists
  <2>1. ~(p # <<>> /\ Compare(Head(p), Head(f)) <= 0)
    <3> SUFFICES ASSUME p # <<>> PROVE ~(Compare(Head(p), Head(f)) <= 0)
      OBVIOUS
    <3>1. Head(p) \in Packet /\ Head(f) \in Packet
      BY <1>1, <1>3, <1>5, HeadAndTail
    <3>2. Compare(Head(p), Head(f)) \in Int /\ Compare(Head(p), Head(f)) > 0
      BY <1>5, <3>1, CompareIsInt DEF TakeQ
    <3> QED
      BY <3>2
  <2> HIDE DEF f, g, x
  <2>2. merge[<<p, f>>] = <<Head(f)>> \o merge[<<p, Tail(f)>>]
    BY <1>1, <1>5, <2>1, MergeSteps
  <2>3. merge[<<p, g>>] \in Lists
    BY <1>1, <1>5, MergeSteps
  <2> QED
    BY <1>5, <2>2, <2>3
<1>8. /\ Len(list) \in Nat /\ Len(input) \in Nat /\ Len(p) \in Nat /\ Len(q) \in Nat
  BY <1>1, Members
<1> HIDE DEF x, u, f, g, r
<1>9. SortTypes'
  <2>1. (input # <<>> /\ Distinct(input))'
    BY <1>1, <1>2, InputStays
  <2> QED
    BY <1>1, <1>2, <1>3, <1>4, <1>5, <2>1 DEF SortTypes
<1>10. /\ (Len(list) + 1) + Len(p) + Len(u) = Len(list) + Len(p) + Len(q)
       /\ (Len(list) + 1) + Len(p) + (qsize - 1) = Len(list) + Len(p) + qsize
       /\ qsize - 1 < Len(u) => qsize < Len(q)
  <2> DEFINE l == Len(list)
             m == Len(p)
             n == Len(q)
             k == Len(u)
  <2>1. l \in Nat /\ m \in Nat /\ n \in Nat /\ k = n - 1
    BY <1>3, <1>8
  <2> HIDE DEF l, m, n, k
  <2>2. /\ (l + 1) + m + k = l + m + n
        /\ (l + 1) + m + (qsize - 1) = l + m + qsize
        /\ qsize - 1 < k => qsize < n
    BY <1>1, <2>1
  <2> QED
    BY <2>2 DEF l, m, n, k
<1>11. Kept'
  <2>1. (Len(list) + 1) + Len(p) + Len(u) = Len(input)
    BY <1>1, <1>10 DEF Kept
  <2>2. ((ToSet(list) \cup {x}) \cup ToSet(p)) \cup ToSet(u) = ToSet(input)
    BY <1>1, <1>3 DEF Kept
  <2> QED
    BY <1>2, <1>4, <2>1, <2>2 DEF Kept
<1>12. PassInv'
  <2>1. PICK t : /\ StartsFrom(t, insize, input)
                 /\ pass[<<t, insize>>] = list \o (merge[<<p, f>>] \o r)
    BY <1>1 DEF PassInv, f, r
  <2>2. list \o (merge[<<p, f>>] \o r) = Append(list, x) \o (merge[<<p, g>>] \o r)
    <3> DEFINE m == merge[<<p, g>>]
               e == <<x>>
    <3>1. m \in Lists /\ r \in Lists /\ list \in Lists /\ e \in Lists
      BY <1>1, <1>4, <1>6, <1>7
    <3> HIDE DEF m, e
    <3>2. list \o ((e \o m) \o r) = (list \o e) \o (m \o r)
      BY <3>1, Regrouped, ZenonT(100)
    <3>3. merge[<<p, f>>] = e \o m
      BY <1>7 DEF m, e
    <3>4. Append(list, x) = list \o e
      BY <1>4 DEF e
    <3>5. list \o (merge[<<p, f>>] \o r) = Append(list, x) \o (m \o r)
      BY <3>2, <3>3, <3>4, Zenon
    <3> QED
      BY <3>5 DEF m
  <2>3. r = pass[<<After(u, qsize - 1), insize>>]
    BY <1>5 DEF r
  <2> QED
    BY <1>1, <1>2, <2>1, <2>2, <2>3 DEF PassInv, g
<1>13. CountInv'
  <2>1. nmerges # 0 /\ (nmerges > 1 => 2 * insize < Len(input))
    BY <1>1 DEF CountInv
  <2>2. nmerges = 1 =>
            /\ (Len(list) + 1) + Len(p) + (qsize - 1) <= 2 * insize
            /\ qsize - 1 < Len(u) =>
                  (Len(list) + 1) + Len(p) + (qsize - 1) = 2 * insize
    BY <1>1, <1>10 DEF CountInv
  <2> QED
    BY <1>1, <1>2, <1>4, <2>1, <2>2 DEF CountInv
<1> QED
  BY <1>9, <1>11, <1>12, <1>13 DEF IInv

LEMMA EndMergeKeeps == IInv /\ EndMerge => IInv'
<1> SUFFICES ASSUME IInv, EndMerge PROVE IInv'
  OBVIOUS
<1>1. /\ SortTypes /\ Kept /\ PassInv /\ CountInv
      /\ input \in Lists /\ list \in Lists /\ q \in Lists /\ p = <<>>
      /\ insize \in Widths /\ insize \in Nat /\ nmerges \in Nat /\ qsize \in Nat
      /\ pc = "merge" /\ (qsize = 0 \/ q = <<>>)
  BY DEF IInv, SortTypes, EndMerge, QEmpty, Widths
<1>2. /\ pc' = "pass" /\ input' = input /\ list' = list /\ p' = p /\ q' = q
      /\ qsize' = qsize /\ insize' = insize /\ nmerges' = nmerges
  BY DEF EndMerge
<1>3. /\ Len(list) \in Nat /\ Len(input) \in Nat /\ Len(q) \in Nat /\ Len(p) = 0
      /\ q # <<>> <=> Len(q) # 0
  BY <1>1, Members, None
<1>4. SortTypes'
  <2>1. (input # <<>> /\ Distinct(input))'
    BY <1>1, <1>2, InputStays
  <2> QED
    BY <1>1, <1>2, <2>1 DEF SortTypes
<1>5. Kept'
  <2>1. /\ Len(list) + Len(p) + Len(q) = Len(input)
        /\ (ToSet(list) \cup ToSet(p)) \cup ToSet(q) = ToSet(input)
    BY <1>1 DEF Kept
  <2> QED
    BY <1>2, <2>1 DEF Kept
<1>6. PassInv'
  <2>1. PICK t : /\ StartsFrom(t, insize, input)
                 /\ pass[<<t, insize>>] =
                       list \o (merge[<<p, FirstOf(q, qsize)>>]
                                  \o pass[<<After(q, qsize), insize>>])
    BY <1>1 DEF PassInv
  <2>2. FirstOf(q, qsize) = <<>> /\ After(q, qsize) = q
    BY <1>1, NothingTaken
  <2>3. merge[<<p, FirstOf(q, qsize)>>] = <<>>
    BY <1>1, <2>2, None, MergeWithNone
  <2>4. pass[<<q, insize>>] \in Lists
    BY <1>1, PassSteps
  <2>5. pass[<<t, insize>>] = list \o pass[<<q, insize>>]
    BY <2>1, <2>2, <2>3, <2>4, None
  <2> QED
    BY <1>2, <2>1, <2>5 DEF PassInv
<1>7. CountInv'
  <2> DEFINE l == Len(list)
             n == Len(q)
             w == 2 * insize
  <2>1. /\ l \in Nat /\ n \in Nat /\ (q # <<>> <=> n # 0) /\ (qsize = 0 \/ n = 0)
        /\ w \in Nat /\ qsize \in Nat /\ Len(p) = 0
    BY <1>1, <1>3
  <2>2. /\ nmerges # 0
        /\ nmerges = 1 => /\ l + Len(p) + qsize <= w
                          /\ qsize < n => l + Len(p) + qsize = w
        /\ nmerges > 1 => w < Len(input)
    BY <1>1 DEF CountInv
  <2> HIDE DEF l, n, w
  <2>3. nmerges = 1 => l <= w /\ (q # <<>> => l = w)
    BY <2>1, <2>2
  <2> QED
    BY <1>2, <2>2, <2>3 DEF CountInv, l, n, w
<1> QED
  BY <1>4, <1>5, <1>6, <1>7 DEF IInv

LEMMA EndPassKeeps == IInv /\ EndPass => IInv'
<1> SUFFICES ASSUME IInv, EndPass PROVE IInv'
  OBVIOUS
<1> DEFINE w == insize
           n == Len(input)
<1>1. /\ SortTypes /\ Kept /\ PassInv /\ CountInv
      /\ input \in Lists /\ input # <<>> /\ list \in Lists /\ q = <<>> /\ p = <<>>
      /\ w \in Widths /\ w \in Nat /\ w # 0 /\ nmerges \in Nat /\ qsize \in Nat
      /\ pc = "pass" /\ 2 * w \in Widths
  BY DEF IInv, SortTypes, EndPass, Widths
<1>2. input' = input /\ p' = p /\ qsize' = qsize
  BY DEF EndPass
<1>3. Len(list) = n /\ n \in Nat /\ n # 0 /\ ToSet(list) = ToSet(input)
  <2>1. n \in Nat /\ n # 0 /\ Len(list) \in Nat
    BY <1>1, Members, None
  <2>2. Len(list) + 0 + 0 = n /\ ToSet(list) = ToSet(input)
    BY <1>1, None DEF Kept
  <2> DEFINE l == Len(list)
  <2>3. l = n
    <3> HIDE DEF l, n
    <3>1. l + 0 + 0 = n /\ l \in Nat
      BY <2>1, <2>2 DEF l
    <3> QED
      BY <3>1
  <2> QED
    BY <2>1, <2>2, <2>3
<1>4. PICK t : StartsFrom(t, w, input) /\ pass[<<t, w>>] = list
  <2>1. PICK t : StartsFrom(t, w, input) /\ pass[<<t, w>>] = list \o pass[<<q, w>>]
    BY <1>1 DEF PassInv
  <2>2. pass[<<q, w>>] = <<>>
    BY <1>1, None, PassSteps
  <2>3. pass[<<t, w>>] = list
    BY <1>1, <2>1, <2>2, None
  <2> QED
    BY <2>1, <2>3
<1>5. t \in Lists /\ Len(t) = n /\ passes[<<t, w>>] = SortPackets(input)
  BY <1>4 DEF StartsFrom
<1>6. (input # <<>> /\ Distinct(input))'
  BY <1>1, <1>2, InputStays
<1>7. /\ nmerges # 0
      /\ nmerges = 1 => n <= 2 * w
      /\ nmerges > 1 => 2 * w < n
  BY <1>1, <1>3, None DEF CountInv
<1>8. CASE LastPass
  <2>1. pc' = "sorted" /\ list' = list /\ q' = q /\ insize' = insize /\ nmerges' = nmerges
    BY <1>8 DEF EndPass
  <2>2. nmerges = 1
    BY <1>1, <1>7, <1>8 DEF LastPass
  <2>3. SortTypes'
    BY <1>1, <1>2, <1>6, <2>1, None DEF SortTypes
  <2>4. Kept'
    <3>1. /\ Len(list) + Len(p) + Len(q) = Len(input)
          /\ (ToSet(list) \cup ToSet(p)) \cup ToSet(q) = ToSet(input)
      BY <1>1 DEF Kept
    <3> QED
      BY <1>2, <2>1, <3>1 DEF Kept
  <2>5. list = SortPackets(input)
    <3>1. CASE w >= n
      <4> DEFINE l == Len(t)
                 k == passes[<<t, w>>]
                 j == passes[<<pass[<<t, w>>], 2 * w>>]
      <4>0. l = n /\ l \in Nat /\ ((w >= l /\ k = t) \/ (w < l /\ k = j))
        BY <1>1, <1>5, PassesSteps
      <4>1. passes[<<t, w>>] = t
        <5> HIDE DEF l, k, j, n, w
        <5>1. w \in Nat
          BY <1>1 DEF w
        <5> QED
          BY <3>1, <4>0, <5>1 DEF k
      <4>2. n <= w
        BY <1>1, <1>3, <3>1
      <4>3. pass[<<t, w>>] = t
        BY <1>1, <1>5, <4>2, WholeRun
      <4> QED
        BY <1>4, <1>5, <4>1, <4>3
    <3>2. CASE ~(w >= n)
      <4>1. passes[<<t, w>>] = passes[<<list, 2 * w>>]
        BY <1>1, <1>3, <1>4, <1>5, <3>2, PassesSteps
      <4>2. 2 * w >= Len(list)
        BY <1>1, <1>3, <1>7, <2>2
      <4>3. passes[<<list, 2 * w>>] = list
        BY <1>1, <4>2, PassesDefined
      <4> QED
        BY <1>5, <4>1, <4>3
    <3> QED
      BY <3>1, <3>2
  <2>6. PassInv'
    <3>1. SortPackets(input)' = SortPackets(input)
      BY <1>2
    <3> QED
      BY <2>1, <2>5, <3>1 DEF PassInv
  <2>7. CountInv'
    <3>1. nmerges' = 1 /\ pc' = "sorted"
      BY <2>1, <2>2
    <3> QED
      BY <3>1 DEF CountInv
  <2> QED
    BY <2>3, <2>4, <2>6, <2>7 DEF IInv
<1>9. CASE ~LastPass
  <2>1. /\ q' = list /\ list' = <<>> /\ insize' = 2 * w /\ nmerges' = 0 /\ pc' = pc
    BY <1>9 DEF EndPass, Doubled
  <2>2. nmerges > 1
    BY <1>1, <1>9 DEF LastPass
  <2>3. SortTypes'
    BY <1>1, <1>2, <1>6, <2>1, None DEF SortTypes
  <2>4. Kept'
    <3>1. 0 + 0 + Len(list) = Len(input)
      BY <1>3
    <3>2. /\ Len(<<>>) + Len(p) + Len(list) = Len(input)
          /\ (ToSet(<<>>) \cup ToSet(p)) \cup ToSet(list) = ToSet(input)
      BY <1>1, <1>3, <3>1, None
    <3> QED
      BY <1>2, <2>1, <3>2 DEF Kept
  <2>5. PassInv'
    <3>1. passes[<<t, w>>] = passes[<<list, 2 * w>>]
      <4>1. w < n
        BY <1>1, <1>3, <1>7, <2>2
      <4>2. ~(w >= n)
        BY <1>1, <1>3, <4>1
      <4> QED
        BY <1>1, <1>4, <1>5, <4>2, PassesDefined
    <3>2. StartsFrom(list, 2 * w, input)
      BY <1>1, <1>3, <1>5, <3>1 DEF StartsFrom
    <3>3. pass[<<list, 2 * w>>] = <<>> \o pass[<<list, 2 * w>>]
      <4>1. pass[<<list, 2 * w>>] \in Lists
        BY <1>1, PassSteps
      <4> QED
        BY <4>1, None
    <3> QED
      BY <1>1, <1>2, <2>1, <3>2, <3>3 DEF PassInv
  <2>6. CountInv'
    BY <1>1, <2>1 DEF CountInv
  <2> QED
    BY <2>3, <2>4, <2>5, <2>6 DEF IInv
<1> QED
  BY <1>8, <1>9

-----------------------------------------------------------------------------
LEMMA InvariantKept == IInv /\ [Next]_vars => IInv'
<1> SUFFICES ASSUME IInv, [Next]_vars PROVE IInv'
  OBVIOUS
<1>1. CASE UNCHANGED vars
  <2> USE <1>1 DEF vars
  <2>1. SortTypes'
    BY InputStays DEF IInv, SortTypes
  <2>2. Kept'
    BY DEF IInv, Kept
  <2>3. PassInv'
    BY DEF IInv, PassInv
  <2>4. CountInv'
    BY DEF IInv, CountInv
  <2> QED
    BY <2>1, <2>2, <2>3, <2>4 DEF IInv
<1>2. CASE Next
  BY <1>2, SplitOffKeeps, TakePKeeps, TakeQKeeps, EndMergeKeeps, EndPassKeeps DEF Next
<1> QED
  BY <1>1, <1>2

LEMMA Invariant == Spec => []IInv
BY Initially, InvariantKept, PTL DEF Spec

\* Relinking the cells neither drops nor doubles one, at any moment and
\* whatever cmp_pcap_packet answers.
THEOREM NoneLost == Spec => []NoPacketLost
<1>1. IInv => NoPacketLost
  <2> SUFFICES ASSUME IInv PROVE NoPacketLost
    OBVIOUS
  <2>1. list \in Lists /\ p \in Lists /\ q \in Lists /\ Kept
    BY DEF IInv, SortTypes
  <2>2. list \o p \in Lists /\ ToSet(list \o p) = ToSet(list) \cup ToSet(p)
    BY <2>1, Joining
  <2>3. ToSet((list \o p) \o q) = (ToSet(list) \cup ToSet(p)) \cup ToSet(q)
    BY <2>1, <2>2, Joining
  <2> QED
    BY <2>1, <2>3 DEF NoPacketLost, Kept
<1> QED
  BY <1>1, Invariant, PTL

\* The loops of sort_pcap_packets compute SortPackets, the function by which
\* the flow passes sort their chains.
THEOREM LoopsComputeSort == Spec => []ComputesSortPackets
<1>1. IInv => ComputesSortPackets
  BY DEF IInv, PassInv, ComputesSortPackets
<1> QED
  BY <1>1, Invariant, PTL

\* What the sort returns is in TCP's order, and packets that compare equal
\* stand in it as they stood in the chain.
THEOREM SortedAndStable == Spec => []SortedStably
<1>1. IInv => SortedStably
  <2> SUFFICES ASSUME IInv, pc = "sorted", InWindow(input)
               PROVE  /\ InOrder(list)
                      /\ \A j, k \in DOMAIN input :
                            j < k /\ Compare(input[j], input[k]) = 0 =>
                               Place(list, input[j]) < Place(list, input[k])
    BY DEF SortedStably
  <2>1. /\ input \in Lists /\ Distinct(input) /\ list = SortPackets(input)
        /\ DOMAIN input = 1..Len(input)
    BY Members DEF IInv, SortTypes, PassInv
  <2>2. InOrder(list)
    BY <2>1, SortPutsInOrder DEF Lists
  <2>3. list \in Lists /\ ToSet(list) = ToSet(input)
    BY <2>1, SortKeepsPackets DEF SamePackets, Lists
  <2>4. ASSUME NEW e \in ToSet(input)
        PROVE  Place(list, e) \in 1..Len(list) /\ list[Place(list, e)] = e
    <3> DEFINE I == {i \in 1..Len(list) : list[i] = e}
    <3>1. I # {}
      BY <2>3, Members
    <3>2. I \in SUBSET Nat
      OBVIOUS
    <3>3. Place(list, e) = Min(I)
      BY <3>1 DEF Place, SelectInSeq
    <3>4. Min(I) \in I
      <4> HIDE DEF I
      <4> QED
        BY <3>1, <3>2, MinIsLeast
    <3> QED
      BY <3>3, <3>4
  <2>5. ASSUME NEW j \in 1..Len(input), NEW k \in 1..Len(input),
               j < k, Compare(input[j], input[k]) = 0
        PROVE  Place(list, input[j]) < Place(list, input[k])
    <3>1. input[j] \in ToSet(input) /\ input[k] \in ToSet(input)
      BY <2>1, Members
    <3>2. \A a, b \in 1..Len(list) : list[a] = input[j] /\ list[b] = input[k] => a < b
      BY <2>1, <2>5, SortIsStable DEF Lists
    <3> QED
      BY <2>4, <3>1, <3>2
  <2> QED
    BY <2>1, <2>2, <2>5
<1> QED
  BY <1>1, Invariant, PTL

-----------------------------------------------------------------------------
(* The sort ends.                                                          *)

\* What is left to do: passes with longer runs, packets to merge in this one,
\* and what lies between two merges.
Stage == IF pc = "pass" THEN 1
         ELSE IF pc = "merge" /\ p = <<>> /\ QEmpty THEN 2 ELSE 0
InPass    == 3 * (Len(p) + Len(q)) + Stage
ToDo == (Len(input) - insize) * (3 * Len(input) + 3) + InPass

\* A run is no longer than the chain.
RunsFit == insize <= Len(input)

ToDoTypes == /\ Len(input) \in Nat /\ Len(p) \in Nat /\ Len(q) \in Nat /\ insize \in Nat
             /\ Len(input) - insize \in Nat
             /\ InPass \in Nat /\ InPass < 3 * Len(input) + 3
             /\ ToDo \in Nat

LEMMA StageTypes == Stage \in 0..2 /\ Stage' \in 0..2
BY DEF Stage

LEMMA RunsFitKept == IInv /\ RunsFit /\ [Next]_vars => RunsFit'
<1> SUFFICES ASSUME IInv, RunsFit, [Next]_vars PROVE RunsFit'
  OBVIOUS
<1>1. input' = input /\ (insize' = insize \/ (EndPass /\ ~LastPass /\ insize' = 2 * insize))
  BY DEF Next, vars, SplitOff, TakeP, TakeQ, EndMerge, EndPass, Doubled
<1>2. CASE insize' = insize
  BY <1>1, <1>2 DEF RunsFit
<1>3. CASE EndPass /\ ~LastPass /\ insize' = 2 * insize
  <2>1. 2 * insize < Len(input)
    BY <1>3 DEF IInv, CountInv, SortTypes, LastPass
  <2>2. insize' <= Len(input)
    <3>1. insize \in Nat /\ Len(input) \in Nat
      BY Members DEF IInv, SortTypes, Widths
    <3> QED
      BY <1>3, <2>1, <3>1
  <2> QED
    BY <1>1, <2>2 DEF RunsFit
<1> QED
  BY <1>1, <1>2, <1>3

LEMMA ToDoTyped ==
    ASSUME IInv, RunsFit PROVE ToDoTypes
<1>1. /\ Len(input) \in Nat /\ Len(p) \in Nat /\ Len(q) \in Nat /\ Len(list) \in Nat
      /\ insize \in Nat
  BY Members DEF IInv, SortTypes, Widths
<1> DEFINE n == Len(input)
           a == Len(p)
           b == Len(q)
           l == Len(list)
           g == Stage
<1>2. /\ n \in Nat /\ a \in Nat /\ b \in Nat /\ l \in Nat /\ l + a + b = n
      /\ g \in 0..2 /\ insize <= n
  BY <1>1, StageTypes DEF IInv, Kept, RunsFit
<1>3. InPass = 3 * (a + b) + g
  BY DEF InPass
<1> HIDE DEF n, a, b, l, g
<1>4. /\ a + b <= n /\ n - insize \in Nat /\ InPass \in Nat /\ InPass < 3 * n + 3
      /\ 3 * n + 3 \in Nat
  BY <1>1, <1>2, <1>3
<1>5. (n - insize) * (3 * n + 3) \in Nat
  <2> DEFINE x == n - insize
             k == 3 * n + 3
  <2>1. x \in Nat /\ k \in Nat
    BY <1>4
  <2> HIDE DEF x, k
  <2>2. x * k \in Nat
    BY <2>1
  <2> QED
    BY <2>2 DEF x, k
<1>6. ToDo \in Nat
  <2> DEFINE y == (n - insize) * (3 * n + 3)
  <2>1. ToDo = y + InPass
    BY DEF ToDo, n
  <2> HIDE DEF y
  <2>2. y \in Nat
    BY <1>5 DEF y
  <2> QED
    BY <1>4, <2>1, <2>2
<1> QED
  BY <1>1, <1>4, <1>6 DEF n, a, b, ToDoTypes

\* Within a pass.
LEMMA LessInPass ==
    ASSUME ToDoTypes, ToDoTypes', input' = input, insize' = insize, InPass' < InPass
    PROVE  ToDo' < ToDo
<1> DEFINE y == (Len(input) - insize) * (3 * Len(input) + 3)
           m == InPass
           n == InPass'
<1>1. ToDo = y + m /\ ToDo' = y + n
  BY DEF ToDo
<1>2. y \in Int
  <2> DEFINE x == Len(input) - insize
             k == 3 * Len(input) + 3
  <2>1. x \in Int /\ k \in Int
    BY DEF ToDoTypes
  <2> HIDE DEF x, k
  <2>2. x * k \in Int
    BY <2>1
  <2> QED
    BY <2>2 DEF x, k
<1>3. m \in Nat /\ n \in Nat /\ n < m
  BY DEF ToDoTypes
<1> HIDE DEF y, m, n
<1> QED
  BY <1>1, <1>2, <1>3

LEMMA StepAdvances ==
    ASSUME IInv, ToDoTypes, ToDoTypes', Next PROVE ToDo' < ToDo
<1>1. /\ Len(input) \in Nat /\ Len(p) \in Nat /\ Len(q) \in Nat /\ insize \in Nat
      /\ p \in Lists /\ q \in Lists /\ insize # 0
  BY DEF ToDoTypes, IInv, SortTypes, Widths
<1>2. CASE SplitOff
  <2>1. p = <<>> /\ q # <<>> /\ pc = "pass" /\ pc' = "merge" /\ input' = input /\ insize' = insize
    BY <1>2 DEF SplitOff, IInv, SortTypes
  <2>2. Len(p) = 0 /\ Len(p') + Len(q') = Len(q) /\ p' # <<>>
    <3>1. p' = FirstOf(q, insize) /\ q' = After(q, insize)
      BY <1>2 DEF SplitOff, Behind, FirstOf, After
    <3>2. /\ Len(q) = Len(p') + Len(q')
          /\ Len(p') = IF insize <= Len(q) THEN insize ELSE Len(q)
      BY <1>1, <3>1, FirstAndAfter, FirstThenAfter DEF IInv, SortTypes
    <3>3. Len(q) # 0 /\ Len(p) = 0 /\ Len(<<>>) = 0
      BY <1>1, <2>1, None
    <3>4. Len(p') # 0
      BY <1>1, <3>2, <3>3
    <3> QED
      BY <1>1, <3>2, <3>3, <3>4
  <2>3. Stage = 1 /\ Stage' = 0
    BY <2>1, <2>2 DEF Stage
  <2>4. InPass' < InPass
    BY <1>1, <2>2, <2>3 DEF InPass
  <2> QED
    BY <2>1, <2>4, LessInPass
<1>3. CASE TakeP
  <2>1. /\ p # <<>> /\ p' = Tail(p) /\ q' = q /\ input' = input /\ insize' = insize
    BY <1>3 DEF TakeP
  <2>2. Len(p') = Len(p) - 1
    BY <1>1, <2>1, HeadAndTail
  <2>3. InPass' < InPass
    <3>1. Stage \in 0..2 /\ Stage' \in 0..2
      BY StageTypes
    <3> QED
      BY <1>1, <2>1, <2>2, <3>1 DEF InPass
  <2> QED
    BY <2>1, <2>3, LessInPass
<1>4. CASE TakeQ
  <2>1. /\ q # <<>> /\ q' = Tail(q) /\ p' = p /\ input' = input /\ insize' = insize
    BY <1>4 DEF TakeQ, QEmpty
  <2>2. Len(q') = Len(q) - 1
    BY <1>1, <2>1, HeadAndTail
  <2>3. InPass' < InPass
    <3>1. Stage \in 0..2 /\ Stage' \in 0..2
      BY StageTypes
    <3> QED
      BY <1>1, <2>1, <2>2, <3>1 DEF InPass
  <2> QED
    BY <2>1, <2>3, LessInPass
<1>5. CASE EndMerge
  <2>1. /\ pc = "merge" /\ p = <<>> /\ QEmpty /\ pc' = "pass"
        /\ input' = input /\ insize' = insize /\ p' = p /\ q' = q
    BY <1>5 DEF EndMerge
  <2>2. Stage = 2 /\ Stage' = 1
    BY <2>1 DEF Stage
  <2>3. InPass' < InPass
    BY <1>1, <2>1, <2>2 DEF InPass
  <2> QED
    BY <2>1, <2>3, LessInPass
<1>6. CASE EndPass /\ LastPass
  <2>1. /\ pc = "pass" /\ pc' = "sorted"
        /\ input' = input /\ insize' = insize /\ p' = p /\ q' = q
    BY <1>6 DEF EndPass
  <2>2. Stage = 1 /\ Stage' = 0
    BY <2>1 DEF Stage
  <2>3. InPass' < InPass
    BY <1>1, <2>1, <2>2 DEF InPass
  <2> QED
    BY <2>1, <2>3, LessInPass
<1>7. CASE EndPass /\ ~LastPass
  <2> DEFINE n == Len(input)
             k == 3 * n + 3
             a == n - 2 * insize
             b == n - insize
             r == InPass'
             s == InPass
  <2>1. input' = input /\ insize' = 2 * insize
    BY <1>7 DEF EndPass, Doubled
  <2>2. n \in Nat /\ k \in Nat /\ a \in Nat /\ b \in Nat /\ a < b
    <3>1. Len(input') - insize' \in Nat
      BY DEF ToDoTypes
    <3>2. n - 2 * insize \in Nat
      BY <2>1, <3>1
    <3> QED
      BY <1>1, <3>2
  <2>3. s \in Nat
    BY DEF ToDoTypes
  <2>4. r \in Nat /\ r < k
    <3>1. InPass' \in Nat /\ InPass' < 3 * Len(input') + 3
      BY DEF ToDoTypes
    <3> QED
      BY <2>1, <3>1
  <2>5. ToDo' = a * k + r /\ ToDo = b * k + s
    BY <2>1 DEF ToDo
  <2> HIDE DEF n, k, a, b, r, s
  <2> QED
    BY <2>2, <2>3, <2>4, <2>5, FurtherOn
<1> QED
  BY <1>2, <1>3, <1>4, <1>5, <1>6, <1>7 DEF Next

\* Every step of sort_pcap_packets leaves less to be done, whatever
\* cmp_pcap_packet answers: at most about 3 * n * n steps for n packets, and
\* the sort cannot go round for ever where the comparison is cyclic.
THEOREM EveryStepSorts == Spec => [](ToDo \in Nat) /\ [][ToDo' < ToDo]_vars
<1>1. Init => RunsFit
  <2> SUFFICES ASSUME Init PROVE insize <= Len(input)
    BY DEF RunsFit
  <2>1. IInv /\ insize = 1
    BY Initially DEF Init
  <2>2. input \in Lists /\ input # <<>>
    BY <2>1 DEF IInv, SortTypes
  <2>3. Len(input) \in Nat /\ Len(input) # 0
    BY <2>2, Members, None
  <2> QED
    BY <2>1, <2>3
<1>2. Spec => []RunsFit
  BY <1>1, Invariant, RunsFitKept, PTL DEF Spec
<1>3. IInv /\ RunsFit => ToDoTypes
  BY ToDoTyped
<1>4. ToDoTypes => ToDo \in Nat
  BY DEF ToDoTypes
<1>5. IInv /\ ToDoTypes /\ ToDoTypes' /\ [Next]_vars => [ToDo' < ToDo]_vars
  BY StepAdvances
<1> QED
  BY <1>2, <1>3, <1>4, <1>5, Invariant, PTL DEF Spec
=============================================================================
