-------------------------- MODULE TcpPackets_proofs --------------------------
(***************************************************************************)
(* Proofs about SortPackets for every list of packets: it ends, it keeps   *)
(* the packets, and it puts them in order wherever there is one.           *)
(***************************************************************************)
EXTENDS TcpPackets, WellFoundedInduction, FiniteSetTheorems, TLAPS

-----------------------------------------------------------------------------
(* What the proofs about recursive functions rest on: a set of natural     *)
(* numbers has a least element, and a recursion whose measure falls        *)
(* defines a function.                                                     *)

\* The natural numbers are well-founded.
LEMMA Least ==
    ASSUME NEW T \in SUBSET Nat, T # {} PROVE \E x \in T : \A y \in T : x <= y
<1> DEFINE R == {ss \in Nat \X Nat : ss[1] < ss[2]}
<1>1. IsWellFoundedOn(R, Nat)
  BY NatLessThanWellFounded DEF OpToRel
<1>2. \E x \in T : \A y \in T : ~(<<y, x>> \in R)
  <2> HIDE DEF R
  <2> QED
    BY <1>1, WFMin
<1>3. PICK x \in T : \A y \in T : ~(<<y, x>> \in R)
  BY <1>2
<1>4. \A y \in T : ~(y < x)
  BY <1>3
<1> QED
  BY <1>4

\* Min is what its name says.
LEMMA MinIsLeast ==
    ASSUME NEW T \in SUBSET Nat, T # {}
    PROVE  Min(T) \in T /\ \A y \in T : Min(T) <= y
<1>1. \E x \in T : \A y \in T : x <= y
  BY Least
<1> QED
  BY <1>1 DEF Min

\* Induction over a measure, for the property of being in Good.
LEMMA MeasureInduction ==
    ASSUME NEW S, NEW measure \in [S -> Nat], NEW Good,
           \A x \in S : (\A y \in S : measure[y] < measure[x] => y \in Good) => x \in Good
    PROVE  S \subseteq Good
<1> DEFINE Bad == {k \in Nat : \E x \in S : measure[x] = k /\ x \notin Good}
<1>1. Bad = {}
  <2> SUFFICES ASSUME Bad # {} PROVE FALSE
    OBVIOUS
  <2>1. PICK k \in Bad : \A l \in Bad : k <= l
    BY Least
  <2>2. PICK x \in S : measure[x] = k /\ x \notin Good
    BY <2>1
  <2>3. ASSUME NEW y \in S, measure[y] < k PROVE y \in Good
    <3>1. measure[y] \in Nat /\ ~(k <= measure[y])
      BY <2>3
    <3> QED
      BY <2>1, <3>1
  <2> QED
    BY <2>2, <2>3
<1>2. \A x \in S : measure[x] \notin Bad /\ measure[x] \in Nat
  BY <1>1
<1> QED
  BY <1>2

-----------------------------------------------------------------------------
\* D makes the value at x from the values at points of smaller measure.
Falls(S, T, measure, D) ==
    \A f, g \in [S -> T] : \A x \in S :
        (\A y \in S : measure[y] < measure[x] => f[y] = g[y]) => D[f][x] = D[g][x]

\* f obeys the recursion as far as the points of measure below m go.
Obeys(S, measure, D, f, m) ==
    \A x \in S : measure[x] < m => f[x] = D[f][x]

\* Two such functions agree there.
LEMMA ObeyingAgree ==
    ASSUME NEW S, NEW T, NEW measure \in [S -> Nat], NEW D, Falls(S, T, measure, D),
           NEW f \in [S -> T], NEW g \in [S -> T], NEW m \in Nat,
           Obeys(S, measure, D, f, m), Obeys(S, measure, D, g, m),
           NEW x \in S, measure[x] < m
    PROVE  f[x] = g[x]
<1> DEFINE Bad == {k \in Nat : \E y \in S : measure[y] = k /\ k < m /\ f[y] # g[y]}
<1>1. Bad = {}
  <2> SUFFICES ASSUME Bad # {} PROVE FALSE
    OBVIOUS
  <2>1. PICK k \in Bad : \A l \in Bad : k <= l
    BY Least
  <2>2. PICK y \in S : measure[y] = k /\ k < m /\ f[y] # g[y]
    BY <2>1
  <2>3. ASSUME NEW z \in S, measure[z] < measure[y] PROVE f[z] = g[z]
    <3>1. measure[z] \in Nat /\ measure[z] < m /\ ~(k <= measure[z])
      BY <2>2, <2>3
    <3> QED
      BY <2>1, <3>1
  <2>4. D[f][y] = D[g][y]
    BY <2>3 DEF Falls
  <2> QED
    BY <2>2, <2>4 DEF Obeys
<1>2. measure[x] \notin Bad
  BY <1>1
<1> QED
  BY <1>2

\* However far one goes, there is a function that obeys the recursion so far.
LEMMA ObeyingExist ==
    ASSUME NEW S, NEW T, NEW t0 \in T, NEW measure \in [S -> Nat],
           NEW D \in [[S -> T] -> [S -> T]], Falls(S, T, measure, D), NEW m \in Nat
    PROVE  \E f \in [S -> T] : Obeys(S, measure, D, f, m)
<1> DEFINE Bad == {k \in Nat : ~ \E f \in [S -> T] : Obeys(S, measure, D, f, k)}
<1>1. Bad = {}
  <2> SUFFICES ASSUME Bad # {} PROVE FALSE
    OBVIOUS
  <2>1. PICK k \in Bad : \A l \in Bad : k <= l
    BY Least
  <2>2. k # 0
    <3> DEFINE f == [x \in S |-> t0]
    <3>1. Obeys(S, measure, D, f, 0)
      BY DEF Obeys
    <3> QED
      BY <2>1, <3>1
  <2>3. k - 1 \in Nat /\ k - 1 \notin Bad
    BY <2>1, <2>2
  <2>4. PICK f \in [S -> T] : Obeys(S, measure, D, f, k - 1)
    BY <2>3
  <2> DEFINE g == [x \in S |-> D[f][x]]
  <2>5. g \in [S -> T]
    OBVIOUS
  <2>6. ASSUME NEW x \in S, measure[x] < k PROVE g[x] = D[g][x]
    <3>1. ASSUME NEW y \in S, measure[y] < measure[x] PROVE f[y] = g[y]
      <4>1. measure[y] < k - 1
        BY <2>6, <3>1
      <4> QED
        BY <2>4, <4>1 DEF Obeys
    <3>2. D[f][x] = D[g][x]
      <4> HIDE DEF g
      <4> QED
        BY <2>5, <3>1 DEF Falls
    <3> QED
      BY <3>2
  <2>7. Obeys(S, measure, D, g, k)
    <3> HIDE DEF g
    <3> QED
      BY <2>6 DEF Obeys
  <2> HIDE DEF g
  <2> QED
    BY <2>1, <2>5, <2>7
<1> QED
  BY <1>1

\* What a recursion must be like, and what it defines.
Recursion(S, T, measure, D) == /\ T # {}
                               /\ measure \in [S -> Nat]
                               /\ D \in [[S -> T] -> [S -> T]]
                               /\ Falls(S, T, measure, D)
Solvable(S, T, D) == \E f \in [S -> T] : f = D[f]

\* A recursion whose measure falls has a solution.
LEMMA RecursionSolved ==
    ASSUME NEW S, NEW T, NEW measure, NEW D, Recursion(S, T, measure, D)
    PROVE  Solvable(S, T, D)
<1> USE DEF Recursion
<1>0. PICK t0 : t0 \in T
  OBVIOUS
<1> DEFINE Upto(m) == {f \in [S -> T] : Obeys(S, measure, D, f, m)}
           part == [x \in S |-> CHOOSE f : f \in Upto(measure[x] + 1)]
           F == [x \in S |-> part[x][x]]
<1>1. ASSUME NEW x \in S
      PROVE  part[x] \in [S -> T] /\ Obeys(S, measure, D, part[x], measure[x] + 1)
  <2>0. measure[x] + 1 \in Nat
    OBVIOUS
  <2>1. \E f : f \in Upto(measure[x] + 1)
    BY <2>0, ObeyingExist
  <2>2. part[x] \in Upto(measure[x] + 1)
    BY <2>1
  <2> QED
    BY <2>2
<1> HIDE DEF part
<1>2. F \in [S -> T]
  BY <1>1
<1>3. ASSUME NEW x \in S, NEW y \in S, measure[y] <= measure[x] PROVE F[y] = part[x][y]
  <2>1. measure[y] + 1 \in Nat /\ measure[y] < measure[y] + 1
    OBVIOUS
  <2>2. Obeys(S, measure, D, part[x], measure[y] + 1)
    <3>1. ASSUME NEW z \in S, measure[z] < measure[y] + 1 PROVE measure[z] < measure[x] + 1
      <4>1. measure[x] \in Nat /\ measure[y] \in Nat /\ measure[z] \in Nat
        OBVIOUS
      <4> QED
        BY <1>3, <3>1, <4>1
    <3> QED
      BY <1>1, <3>1 DEF Obeys
  <2>3. part[y][y] = part[x][y]
    BY <1>1, <2>1, <2>2, ObeyingAgree
  <2> QED
    BY <2>3
<1>4. ASSUME NEW x \in S PROVE F[x] = D[F][x]
  <2>1. part[x][x] = D[part[x]][x]
    <3>1. measure[x] \in Nat /\ measure[x] < measure[x] + 1
      OBVIOUS
    <3> QED
      BY <1>1, <3>1 DEF Obeys
  <2>2. \A y \in S : measure[y] < measure[x] => F[y] = part[x][y]
    BY <1>3
  <2>3. D[F][x] = D[part[x]][x]
    <3> HIDE DEF F
    <3> QED
      BY <1>1, <1>2, <2>2 DEF Falls
  <2> QED
    BY <2>1, <2>3
<1> HIDE DEF F
<1>5. D[F] \in [S -> T]
  BY <1>2
<1> QED
  BY <1>2, <1>4, <1>5 DEF Solvable

-----------------------------------------------------------------------------

Lists     == Seq(Packet)
ListPairs == Lists \X Lists

-----------------------------------------------------------------------------
(* What the recursive definitions of TcpPackets define.                    *)

\* Both halves of a step of merge are defined by shorter lists.
LEMMA HeadAndTail ==
    ASSUME NEW a \in Lists, a # <<>>
    PROVE  /\ Head(a) \in Packet /\ Tail(a) \in Lists
           /\ Len(a) \in Nat \ {0} /\ Len(Tail(a)) = Len(a) - 1
           /\ <<Head(a)>> \in Lists /\ a = <<Head(a)>> \o Tail(a)
           /\ ToSet(a) = {Head(a)} \cup ToSet(Tail(a))
<1> USE DEF Lists
<1>1. /\ Head(a) \in Packet /\ Tail(a) \in Lists
      /\ Len(a) \in Nat \ {0} /\ Len(Tail(a)) = Len(a) - 1
      /\ <<Head(a)>> \in Lists /\ a = <<Head(a)>> \o Tail(a)
  OBVIOUS
<1>2. ToSet(a) = {Head(a)} \cup ToSet(Tail(a))
  <2>1. /\ DOMAIN a = 1..Len(a) /\ DOMAIN Tail(a) = 1..(Len(a) - 1)
        /\ a[1] = Head(a) /\ \A j \in 1..(Len(a) - 1) : Tail(a)[j] = a[j + 1]
    OBVIOUS
  <2>2. ASSUME NEW j \in 1..Len(a) PROVE a[j] \in {Head(a)} \cup ToSet(Tail(a))
    <3>1. CASE j = 1
      BY <2>1, <3>1
    <3>2. CASE j # 1
      <4>1. j - 1 \in 1..(Len(a) - 1) /\ a[j] = Tail(a)[j - 1]
        BY <1>1, <2>1, <3>2
      <4> QED
        BY <2>1, <4>1 DEF ToSet
    <3> QED
      BY <3>1, <3>2
  <2>3. ASSUME NEW j \in 1..(Len(a) - 1) PROVE Tail(a)[j] \in ToSet(a)
    <3>1. j + 1 \in 1..Len(a) /\ a[j + 1] = Tail(a)[j]
      BY <1>1, <2>1
    <3> QED
      BY <2>1, <3>1 DEF ToSet
  <2>4. Head(a) \in ToSet(a)
    <3>1. 1 \in 1..Len(a)
      BY <1>1
    <3> QED
      BY <2>1, <3>1 DEF ToSet
  <2> QED
    BY <2>1, <2>2, <2>3, <2>4 DEF ToSet
<1> QED
  BY <1>1, <1>2

\* A step of merge leaves less to merge.
ListSizes == [ab \in ListPairs |-> Len(ab[1]) + Len(ab[2])]

LEMMA PairSize ==
    ASSUME NEW a \in Lists, NEW b \in Lists
    PROVE  /\ <<a, b>> \in ListPairs /\ ListSizes[<<a, b>>] = Len(a) + Len(b)
           /\ Len(a) \in Nat /\ Len(b) \in Nat
BY DEF ListSizes, ListPairs, Lists

LEMMA PairParts ==
    ASSUME NEW ab \in ListPairs
    PROVE  ab[1] \in Lists /\ ab[2] \in Lists /\ ab = <<ab[1], ab[2]>>
BY DEF ListPairs

LEMMA ListSizesType == ListSizes \in [ListPairs -> Nat]
<1> SUFFICES ASSUME NEW ab \in ListPairs PROVE Len(ab[1]) + Len(ab[2]) \in Nat
  BY DEF ListSizes
<1>1. ab[1] \in Lists /\ ab[2] \in Lists
  BY PairParts
<1> DEFINE m == Len(ab[1])
           n == Len(ab[2])
<1>2. m \in Nat /\ n \in Nat
  BY <1>1, PairSize
<1> HIDE DEF m, n
<1>3. m + n \in Nat
  BY <1>2
<1> QED
  BY <1>3 DEF m, n

LEMMA Shorter ==
    ASSUME NEW a \in Lists, NEW b \in Lists
    PROVE  /\ a # <<>> => /\ <<Tail(a), b>> \in ListPairs
                          /\ ListSizes[<<Tail(a), b>>] < ListSizes[<<a, b>>]
           /\ b # <<>> => /\ <<a, Tail(b)>> \in ListPairs
                          /\ ListSizes[<<a, Tail(b)>>] < ListSizes[<<a, b>>]
<1>0. ListSizes[<<a, b>>] = Len(a) + Len(b) /\ Len(a) \in Nat /\ Len(b) \in Nat
  BY PairSize
<1>1. ASSUME a # <<>> PROVE /\ <<Tail(a), b>> \in ListPairs
                            /\ ListSizes[<<Tail(a), b>>] < ListSizes[<<a, b>>]
  <2>1. Tail(a) \in Lists /\ Len(Tail(a)) = Len(a) - 1
    BY <1>1, HeadAndTail
  <2>2. /\ <<Tail(a), b>> \in ListPairs
        /\ ListSizes[<<Tail(a), b>>] = Len(Tail(a)) + Len(b)
    BY <2>1, PairSize
  <2>3. Len(Tail(a)) + Len(b) < Len(a) + Len(b)
    <3> DEFINE n == Len(Tail(a))
    <3>1. n = Len(a) - 1
      BY <2>1
    <3> HIDE DEF n
    <3>2. n + Len(b) < Len(a) + Len(b)
      BY <1>0, <3>1
    <3> QED
      BY <3>2 DEF n
  <2> QED
    BY <1>0, <2>2, <2>3
<1>2. ASSUME b # <<>> PROVE /\ <<a, Tail(b)>> \in ListPairs
                            /\ ListSizes[<<a, Tail(b)>>] < ListSizes[<<a, b>>]
  <2>1. Tail(b) \in Lists /\ Len(Tail(b)) = Len(b) - 1
    BY <1>2, HeadAndTail
  <2>2. /\ <<a, Tail(b)>> \in ListPairs
        /\ ListSizes[<<a, Tail(b)>>] = Len(a) + Len(Tail(b))
    BY <2>1, PairSize
  <2>3. Len(a) + Len(Tail(b)) < Len(a) + Len(b)
    <3> DEFINE n == Len(Tail(b))
    <3>1. n = Len(b) - 1
      BY <2>1
    <3> HIDE DEF n
    <3>2. Len(a) + n < Len(a) + Len(b)
      BY <1>0, <3>1
    <3> QED
      BY <3>2 DEF n
  <2> QED
    BY <1>0, <2>2, <2>3
<1> QED
  BY <1>1, <1>2

\* Induction over the steps of merge.
LEMMA MergeInduction ==
    ASSUME NEW Good,
           \A a, b \in Lists : /\ a # <<>> => <<Tail(a), b>> \in Good
                               /\ b # <<>> => <<a, Tail(b)>> \in Good
                               => <<a, b>> \in Good
    PROVE  \A a, b \in Lists : <<a, b>> \in Good
<1>1. ASSUME NEW x \in ListPairs,
             \A y \in ListPairs : ListSizes[y] < ListSizes[x] => y \in Good
      PROVE  x \in Good
  <2>1. x[1] \in Lists /\ x[2] \in Lists /\ x = <<x[1], x[2]>>
    BY PairParts
  <2>2. /\ x[1] # <<>> => <<Tail(x[1]), x[2]>> \in Good
        /\ x[2] # <<>> => <<x[1], Tail(x[2])>> \in Good
    BY <1>1, <2>1, Shorter
  <2> QED
    BY <2>1, <2>2
<1>2. ListPairs \subseteq Good
  BY <1>1, ListSizesType, MeasureInduction
<1> QED
  BY <1>2, PairSize

LEMMA MergeDefined ==
    /\ merge \in [ListPairs -> Lists]
    /\ \A a, b \in Lists :
          merge[<<a, b>>] =
             IF a # <<>> /\ (b # <<>> => Compare(Head(a), Head(b)) <= 0)
             THEN <<Head(a)>> \o merge[<<Tail(a), b>>]
             ELSE IF b # <<>> THEN <<Head(b)>> \o merge[<<a, Tail(b)>>] ELSE <<>>
<1> DEFINE Body(f, ab) == LET a == ab[1]
                              b == ab[2]
                          IN  IF a # <<>> /\ (b # <<>> => Compare(Head(a), Head(b)) <= 0)
                              THEN <<Head(a)>> \o f[<<Tail(a), b>>]
                              ELSE IF b # <<>> THEN <<Head(b)>> \o f[<<a, Tail(b)>>] ELSE <<>>
           D == [f \in [ListPairs -> Lists] |-> [ab \in ListPairs |-> Body(f, ab)]]
<1>1. <<>> \in Lists
  BY DEF Lists
<1>2. ASSUME NEW f \in [ListPairs -> Lists], NEW ab \in ListPairs PROVE Body(f, ab) \in Lists
  <2>1. ab[1] \in Lists /\ ab[2] \in Lists
    BY DEF ListPairs
  <2>2. CASE ab[1] # <<>> /\ (ab[2] # <<>> => Compare(Head(ab[1]), Head(ab[2])) <= 0)
    <3>1. <<Head(ab[1])>> \in Lists /\ <<Tail(ab[1]), ab[2]>> \in ListPairs
      BY <2>1, <2>2, HeadAndTail DEF ListPairs
    <3>2. f[<<Tail(ab[1]), ab[2]>>] \in Lists
      BY <3>1
    <3>3. <<Head(ab[1])>> \o f[<<Tail(ab[1]), ab[2]>>] \in Lists
      BY <3>1, <3>2 DEF Lists
    <3> QED
      BY <2>2, <3>3
  <2>3. CASE ~(ab[1] # <<>> /\ (ab[2] # <<>> => Compare(Head(ab[1]), Head(ab[2])) <= 0))
             /\ ab[2] # <<>>
    <3>1. <<Head(ab[2])>> \in Lists /\ <<ab[1], Tail(ab[2])>> \in ListPairs
      BY <2>1, <2>3, HeadAndTail DEF ListPairs
    <3>2. f[<<ab[1], Tail(ab[2])>>] \in Lists
      BY <3>1
    <3>3. <<Head(ab[2])>> \o f[<<ab[1], Tail(ab[2])>>] \in Lists
      BY <3>1, <3>2 DEF Lists
    <3> QED
      BY <2>3, <3>3
  <2> QED
    BY <1>1, <2>2, <2>3
<1>3. D \in [[ListPairs -> Lists] -> [ListPairs -> Lists]]
  <2> HIDE DEF Body
  <2> QED
    BY <1>2
<1>4. Falls(ListPairs, Lists, ListSizes, D)
  <2> SUFFICES ASSUME NEW f \in [ListPairs -> Lists], NEW g \in [ListPairs -> Lists],
                      NEW a \in Lists, NEW b \in Lists,
                      \A y \in ListPairs : ListSizes[y] < ListSizes[<<a, b>>] => f[y] = g[y]
               PROVE  Body(f, <<a, b>>) = Body(g, <<a, b>>)
    <3> HIDE DEF Body
    <3>1. \A f \in [ListPairs -> Lists], ab \in ListPairs : D[f][ab] = Body(f, ab)
      OBVIOUS
    <3> HIDE DEF D
    <3> QED
      BY PairParts, <3>1 DEF Falls
  <2>1. a # <<>> => f[<<Tail(a), b>>] = g[<<Tail(a), b>>]
    BY Shorter
  <2>2. b # <<>> => f[<<a, Tail(b)>>] = g[<<a, Tail(b)>>]
    BY Shorter
  <2> QED
    BY <2>1, <2>2
<1>5. PICK f \in [ListPairs -> Lists] : f = D[f]
  <2>1. Recursion(ListPairs, Lists, ListSizes, D)
    <3> HIDE DEF D
    <3> QED
      BY <1>1, <1>3, <1>4, ListSizesType DEF Recursion
  <2> HIDE DEF D
  <2> QED
    BY <2>1, RecursionSolved DEF Solvable
<1>6. f = [ab \in ListPairs |-> Body(f, ab)]
  <2> HIDE DEF Body
  <2> QED
    BY <1>5
<1>7. merge = [ab \in ListPairs |-> Body(merge, ab)]
  <2> HIDE DEF D
  <2> QED
    BY <1>6 DEF merge, ListPairs, Lists
<1>8. ASSUME NEW a \in Lists, NEW b \in Lists
      PROVE  merge[<<a, b>>] =
                IF a # <<>> /\ (b # <<>> => Compare(Head(a), Head(b)) <= 0)
                THEN <<Head(a)>> \o merge[<<Tail(a), b>>]
                ELSE IF b # <<>> THEN <<Head(b)>> \o merge[<<a, Tail(b)>>] ELSE <<>>
  <2>1. <<a, b>> \in ListPairs
    BY PairSize
  <2>2. merge[<<a, b>>] = Body(merge, <<a, b>>)
    <3> HIDE DEF Body
    <3> QED
      BY <1>7, <2>1
  <2> QED
    BY <2>2
<1>9. \A a, b \in Lists : merge[<<a, b>>] \in Lists
  <2> DEFINE Good == {ab \in ListPairs : merge[ab] \in Lists}
  <2>1. ASSUME NEW a \in Lists, NEW b \in Lists,
               a # <<>> => <<Tail(a), b>> \in Good,
               b # <<>> => <<a, Tail(b)>> \in Good
        PROVE  <<a, b>> \in Good
    <3>1. ASSUME a # <<>> PROVE <<Head(a)>> \o merge[<<Tail(a), b>>] \in Lists
      <4>1. <<Head(a)>> \in Lists /\ merge[<<Tail(a), b>>] \in Lists
        BY <2>1, <3>1, HeadAndTail
      <4> QED
        BY <4>1 DEF Lists
    <3>2. ASSUME b # <<>> PROVE <<Head(b)>> \o merge[<<a, Tail(b)>>] \in Lists
      <4>1. <<Head(b)>> \in Lists /\ merge[<<a, Tail(b)>>] \in Lists
        BY <2>1, <3>2, HeadAndTail
      <4> QED
        BY <4>1 DEF Lists
    <3>3. \/ a # <<>> /\ merge[<<a, b>>] = <<Head(a)>> \o merge[<<Tail(a), b>>]
          \/ b # <<>> /\ merge[<<a, b>>] = <<Head(b)>> \o merge[<<a, Tail(b)>>]
          \/ merge[<<a, b>>] = <<>>
      BY <1>8
    <3> QED
      BY <1>1, <3>1, <3>2, <3>3, PairSize
  <2> HIDE DEF Good
  <2>2. \A a, b \in Lists : <<a, b>> \in Good
    BY <2>1, MergeInduction
  <2> QED
    BY <2>2 DEF Good
<1>10. merge \in [ListPairs -> Lists]
  <2>1. \A ab \in ListPairs : merge[ab] \in Lists
    BY <1>9, PairParts
  <2> HIDE DEF Body
  <2> QED
    BY <1>7, <2>1
<1> QED
  BY <1>8, <1>10

\* The cases of a merge, as its steps.
LEMMA MergeSteps ==
    ASSUME NEW a \in Lists, NEW b \in Lists
    PROVE  /\ merge[<<a, b>>] \in Lists
           /\ \/ /\ a # <<>> /\ (b # <<>> => Compare(Head(a), Head(b)) <= 0)
                 /\ merge[<<a, b>>] = <<Head(a)>> \o merge[<<Tail(a), b>>]
              \/ /\ b # <<>> /\ ~(a # <<>> /\ Compare(Head(a), Head(b)) <= 0)
                 /\ merge[<<a, b>>] = <<Head(b)>> \o merge[<<a, Tail(b)>>]
              \/ a = <<>> /\ b = <<>> /\ merge[<<a, b>>] = <<>>
BY MergeDefined, PairSize

\* A list with one more packet in front.
LEMMA InFront ==
    ASSUME NEW p \in Packet, NEW t \in Lists
    PROVE  /\ <<p>> \o t \in Lists /\ <<p>> \o t # <<>>
           /\ Head(<<p>> \o t) = p /\ Tail(<<p>> \o t) = t
           /\ Len(t) \in Nat /\ Len(<<p>> \o t) = 1 + Len(t)
           /\ ToSet(<<p>> \o t) = {p} \cup ToSet(t)
<1>1. /\ <<p>> \o t \in Lists /\ <<p>> \o t # <<>>
      /\ Head(<<p>> \o t) = p /\ Tail(<<p>> \o t) = t
      /\ Len(t) \in Nat /\ Len(<<p>> \o t) = 1 + Len(t)
  BY DEF Lists
<1> QED
  BY <1>1, HeadAndTail

\* Merging keeps what is merged.
LEMMA MergeKeeps ==
    \A a, b \in Lists : /\ merge[<<a, b>>] \in Lists
                        /\ Len(merge[<<a, b>>]) = Len(a) + Len(b)
                        /\ ToSet(merge[<<a, b>>]) = ToSet(a) \cup ToSet(b)
<1> DEFINE Good == {ab \in ListPairs : /\ Len(merge[ab]) = Len(ab[1]) + Len(ab[2])
                                       /\ ToSet(merge[ab]) = ToSet(ab[1]) \cup ToSet(ab[2])}
<1>1. ASSUME NEW a \in Lists, NEW b \in Lists
      PROVE  <<a, b>> \in Good <=> /\ Len(merge[<<a, b>>]) = Len(a) + Len(b)
                                   /\ ToSet(merge[<<a, b>>]) = ToSet(a) \cup ToSet(b)
  BY PairSize
<1>2. ASSUME NEW a \in Lists, NEW b \in Lists,
             a # <<>> => <<Tail(a), b>> \in Good,
             b # <<>> => <<a, Tail(b)>> \in Good
      PROVE  <<a, b>> \in Good
  <2> HIDE DEF Good
  <2> DEFINE m == merge[<<a, b>>]
  <2>1. CASE a # <<>> /\ m = <<Head(a)>> \o merge[<<Tail(a), b>>]
    <3> DEFINE r == merge[<<Tail(a), b>>]
    <3>1. /\ Head(a) \in Packet /\ Tail(a) \in Lists /\ Len(Tail(a)) = Len(a) - 1
          /\ ToSet(a) = {Head(a)} \cup ToSet(Tail(a)) /\ r \in Lists
      BY <2>1, HeadAndTail, MergeSteps
    <3>2. Len(r) = Len(Tail(a)) + Len(b) /\ ToSet(r) = ToSet(Tail(a)) \cup ToSet(b)
      BY <1>1, <1>2, <2>1, <3>1
    <3>3. /\ Len(m) = 1 + Len(r) /\ ToSet(m) = {Head(a)} \cup ToSet(r)
          /\ Len(a) \in Nat /\ Len(b) \in Nat
      <4> HIDE DEF r
      <4> QED
        BY <2>1, <3>1, InFront, PairSize DEF r
    <3>4. Len(m) = Len(a) + Len(b)
      <4> DEFINE n == Len(Tail(a))
      <4>1. n = Len(a) - 1 /\ Len(m) = 1 + (n + Len(b))
        BY <3>1, <3>2, <3>3
      <4> HIDE DEF n, m
      <4> QED
        BY <3>3, <4>1
    <3> QED
      BY <1>1, <3>1, <3>2, <3>3, <3>4
  <2>2. CASE b # <<>> /\ m = <<Head(b)>> \o merge[<<a, Tail(b)>>]
    <3> DEFINE r == merge[<<a, Tail(b)>>]
    <3>1. /\ Head(b) \in Packet /\ Tail(b) \in Lists /\ Len(Tail(b)) = Len(b) - 1
          /\ ToSet(b) = {Head(b)} \cup ToSet(Tail(b)) /\ r \in Lists
      BY <2>2, HeadAndTail, MergeSteps
    <3>2. Len(r) = Len(a) + Len(Tail(b)) /\ ToSet(r) = ToSet(a) \cup ToSet(Tail(b))
      BY <1>1, <1>2, <2>2, <3>1
    <3>3. /\ Len(m) = 1 + Len(r) /\ ToSet(m) = {Head(b)} \cup ToSet(r)
          /\ Len(a) \in Nat /\ Len(b) \in Nat
      <4> HIDE DEF r
      <4> QED
        BY <2>2, <3>1, InFront, PairSize DEF r
    <3>4. Len(m) = Len(a) + Len(b)
      <4> DEFINE n == Len(Tail(b))
      <4>1. n = Len(b) - 1 /\ Len(m) = 1 + (Len(a) + n)
        BY <3>1, <3>2, <3>3
      <4> HIDE DEF n, m
      <4> QED
        BY <3>3, <4>1
    <3> QED
      BY <1>1, <3>1, <3>2, <3>3, <3>4
  <2>3. CASE a = <<>> /\ b = <<>> /\ m = <<>>
    <3>1. Len(<<>>) = 0 /\ ToSet(<<>>) = {}
      BY DEF ToSet
    <3> QED
      BY <1>1, <2>3, <3>1
  <2> QED
    BY <2>1, <2>2, <2>3, MergeSteps
<1> HIDE DEF Good
<1>3. \A a, b \in Lists : <<a, b>> \in Good
  BY <1>2, MergeInduction
<1> QED
  BY <1>1, <1>3, MergeSteps

-----------------------------------------------------------------------------
(* The runs a pass merges first, and what it leaves for later.             *)

FirstRun(t, w)  == SubSeq(t, 1, Min({w, Len(t)}))
SecondRun(t, w) == SubSeq(t, w + 1, Min({2 * w, Len(t)}))
Remaining(t, w) == SubSeq(t, 2 * w + 1, Len(t))
Widths          == Nat \ {0}

\* A part of a list.
LEMMA Part ==
    ASSUME NEW t \in Lists, NEW lo \in Nat, NEW hi \in Nat, hi <= Len(t)
    PROVE  /\ SubSeq(t, lo + 1, hi) \in Lists
           /\ Len(SubSeq(t, lo + 1, hi)) = IF lo <= hi THEN hi - lo ELSE 0
           /\ \A j \in 1..Len(SubSeq(t, lo + 1, hi)) :
                 SubSeq(t, lo + 1, hi)[j] = t[lo + j] /\ lo + j \in 1..Len(t)
<1> USE DEF Lists
<1> DEFINE u == SubSeq(t, lo + 1, hi)
<1>1. u \in Lists
  OBVIOUS
<1>2. Len(u) = IF lo <= hi THEN hi - lo ELSE 0
  OBVIOUS
<1>3. ASSUME NEW j \in 1..Len(u) PROVE u[j] = t[lo + j] /\ lo + j \in 1..Len(t)
  <2>1. lo <= hi /\ j \in 1..(hi - lo)
    BY <1>2, <1>3
  <2>2. u[j] = t[lo + 1 + j - 1]
    BY <2>1
  <2>3. lo + 1 + j - 1 = lo + j /\ lo + j \in 1..Len(t)
    BY <2>1
  <2> QED
    BY <2>2, <2>3
<1> QED
  BY <1>1, <1>2, <1>3

\* Lengths and elements of the three parts.
LEMMA RunParts ==
    ASSUME NEW t \in Lists, NEW w \in Widths
    PROVE  /\ FirstRun(t, w) \in Lists
           /\ Len(FirstRun(t, w)) = IF w <= Len(t) THEN w ELSE Len(t)
           /\ \A j \in 1..Len(FirstRun(t, w)) :
                 FirstRun(t, w)[j] = t[j] /\ j \in 1..Len(t)
           /\ SecondRun(t, w) \in Lists
           /\ Len(SecondRun(t, w)) = IF 2 * w <= Len(t) THEN w
                                     ELSE IF w <= Len(t) THEN Len(t) - w ELSE 0
           /\ \A j \in 1..Len(SecondRun(t, w)) :
                 SecondRun(t, w)[j] = t[w + j] /\ w + j \in 1..Len(t)
           /\ Remaining(t, w) \in Lists
           /\ Len(Remaining(t, w)) = IF 2 * w <= Len(t) THEN Len(t) - 2 * w ELSE 0
           /\ \A j \in 1..Len(Remaining(t, w)) :
                 Remaining(t, w)[j] = t[2 * w + j] /\ 2 * w + j \in 1..Len(t)
           /\ Len(t) \in Nat
<1> DEFINE n == Len(t)
<1>1. n \in Nat /\ w \in Nat /\ 1 <= w
  BY DEF Lists, Widths
<1>2. ASSUME NEW v \in Nat PROVE Min({v, n}) = IF v <= n THEN v ELSE n
  <2>1. {v, n} \in SUBSET Nat /\ {v, n} # {}
    BY <1>1
  <2>2. Min({v, n}) \in {v, n} /\ \A y \in {v, n} : Min({v, n}) <= y
    BY <2>1, MinIsLeast
  <2> DEFINE m == Min({v, n})
  <2>3. m \in {v, n} /\ m <= v /\ m <= n
    BY <2>2
  <2> HIDE DEF m, n
  <2>4. m = IF v <= n THEN v ELSE n
    BY <1>1, <2>3
  <2> QED
    BY <2>4 DEF m
<1>3. 2 * w \in Nat /\ w <= 2 * w
  BY <1>1
<1> DEFINE e1 == Min({w, n})
           e2 == Min({2 * w, n})
<1>4. /\ e1 = (IF w <= n THEN w ELSE n) /\ e2 = (IF 2 * w <= n THEN 2 * w ELSE n)
  BY <1>1, <1>2, <1>3
<1>5. e1 \in Nat /\ e1 <= n /\ e2 \in Nat /\ e2 <= n /\ 0 \in Nat
  <2> HIDE DEF e1, e2, n
  <2> QED
    BY <1>1, <1>3, <1>4
<1> DEFINE a == SubSeq(t, 1, e1)
           b == SubSeq(t, w + 1, e2)
           c == SubSeq(t, 2 * w + 1, n)
<1>6. a = SubSeq(t, 0 + 1, e1)
  OBVIOUS
<1>7. /\ a \in Lists
      /\ Len(a) = IF 0 <= e1 THEN e1 - 0 ELSE 0
      /\ \A j \in 1..Len(a) : a[j] = t[0 + j] /\ 0 + j \in 1..Len(t)
  <2>1. 0 \in Nat /\ e1 \in Nat /\ e1 <= Len(t)
    BY <1>5
  <2> HIDE DEF e1, a, n
  <2> QED
    BY <1>6, <2>1, Part
<1>8. /\ b \in Lists
      /\ Len(b) = IF w <= e2 THEN e2 - w ELSE 0
      /\ \A j \in 1..Len(b) : b[j] = t[w + j] /\ w + j \in 1..Len(t)
  <2> HIDE DEF e2
  <2> QED
    BY <1>1, <1>5, Part
<1>9. /\ c \in Lists
      /\ Len(c) = IF 2 * w <= n THEN n - 2 * w ELSE 0
      /\ \A j \in 1..Len(c) : c[j] = t[2 * w + j] /\ 2 * w + j \in 1..Len(t)
  <2> DEFINE v == 2 * w
  <2>1. v \in Nat /\ Len(t) \in Nat /\ Len(t) <= Len(t)
    BY <1>1, <1>3
  <2> HIDE DEF v
  <2>2. /\ SubSeq(t, v + 1, Len(t)) \in Lists
        /\ Len(SubSeq(t, v + 1, Len(t))) = IF v <= Len(t) THEN Len(t) - v ELSE 0
        /\ \A j \in 1..Len(SubSeq(t, v + 1, Len(t))) :
              SubSeq(t, v + 1, Len(t))[j] = t[v + j] /\ v + j \in 1..Len(t)
    BY <2>1, Part
  <2> QED
    BY <2>2 DEF v
<1>10. a = FirstRun(t, w) /\ b = SecondRun(t, w) /\ c = Remaining(t, w)
  BY DEF FirstRun, SecondRun, Remaining
<1> HIDE DEF a, b, c
<1>11. Len(a) = IF w <= n THEN w ELSE n
  <2> HIDE DEF e1, n
  <2> QED
    BY <1>1, <1>4, <1>5, <1>7
<1>12. Len(b) = IF 2 * w <= n THEN w ELSE IF w <= n THEN n - w ELSE 0
  <2> DEFINE lb == Len(b)
  <2>1. lb = IF w <= e2 THEN e2 - w ELSE 0
    BY <1>8
  <2> HIDE DEF e2, n, lb
  <2>2. lb = IF 2 * w <= n THEN w ELSE IF w <= n THEN n - w ELSE 0
    <3>1. CASE 2 * w <= n
      BY <1>1, <1>3, <1>4, <2>1, <3>1
    <3>2. CASE ~(2 * w <= n)
      BY <1>1, <1>3, <1>4, <2>1, <3>2
    <3> QED
      BY <3>1, <3>2
  <2> QED
    BY <2>2 DEF lb
<1>13. \A j \in 1..Len(a) : a[j] = t[j] /\ j \in 1..Len(t)
  <2> DEFINE la == Len(a)
  <2>1. \A j \in 1..la : j \in Int /\ 0 + j = j
    <3>1. la \in Int
      BY <1>7 DEF Lists
    <3> HIDE DEF la
    <3> QED
      BY <3>1
  <2> QED
    BY <1>7, <2>1
<1> QED
  BY <1>1, <1>7, <1>8, <1>9, <1>10, <1>11, <1>12, <1>13

PassArgs  == Lists \X Widths
PassSizes == [tw \in PassArgs |-> Len(tw[1])]

LEMMA PassArg ==
    ASSUME NEW t \in Lists, NEW w \in Widths
    PROVE  <<t, w>> \in PassArgs /\ PassSizes[<<t, w>>] = Len(t) /\ Len(t) \in Nat
BY DEF PassSizes, PassArgs, Lists

LEMMA PassArgParts ==
    ASSUME NEW tw \in PassArgs
    PROVE  tw[1] \in Lists /\ tw[2] \in Widths /\ tw = <<tw[1], tw[2]>>
BY DEF PassArgs

LEMMA PassSizesType == PassSizes \in [PassArgs -> Nat]
<1> SUFFICES ASSUME NEW tw \in PassArgs PROVE Len(tw[1]) \in Nat
  BY DEF PassSizes
<1> QED
  BY PassArgParts, PassArg

\* A step of a pass leaves a shorter list.
LEMMA RemainingShorter ==
    ASSUME NEW t \in Lists, NEW w \in Widths, t # <<>>
    PROVE  /\ Remaining(t, w) \in Lists /\ Len(Remaining(t, w)) < Len(t)
           /\ <<Remaining(t, w), w>> \in PassArgs
           /\ PassSizes[<<Remaining(t, w), w>>] < PassSizes[<<t, w>>]
<1>1. /\ Remaining(t, w) \in Lists
      /\ Len(Remaining(t, w)) = IF 2 * w <= Len(t) THEN Len(t) - 2 * w ELSE 0
  BY RunParts
<1> DEFINE n == Len(t)
           r == Len(Remaining(t, w))
<1>2. n \in Nat \ {0} /\ w \in Nat \ {0}
  BY DEF Lists, Widths
<1>3. r < n
  <2>1. r = IF 2 * w <= n THEN n - 2 * w ELSE 0
    BY <1>1
  <2> HIDE DEF r, n
  <2> QED
    BY <1>2, <2>1
<1> QED
  BY <1>1, <1>3, PassArg

LEMMA PassInduction ==
    ASSUME NEW Good, NEW w \in Widths,
           \A t \in Lists : (t # <<>> => Remaining(t, w) \in Good) => t \in Good
    PROVE  Lists \subseteq Good
<1> DEFINE lengths == [t \in Lists |-> Len(t)]
<1>1. lengths \in [Lists -> Nat]
  BY DEF Lists
<1>2. ASSUME NEW x \in Lists, \A y \in Lists : lengths[y] < lengths[x] => y \in Good
      PROVE  x \in Good
  <2>1. x # <<>> => Remaining(x, w) \in Good
    BY <1>2, RemainingShorter
  <2> QED
    BY <2>1
<1> HIDE DEF lengths
<1> QED
  BY <1>1, <1>2, MeasureInduction

LEMMA PassDefined ==
    /\ pass \in [PassArgs -> Lists]
    /\ \A t \in Lists, w \in Widths :
          pass[<<t, w>>] =
             IF t = <<>> THEN <<>>
             ELSE merge[<<FirstRun(t, w), SecondRun(t, w)>>]
                     \o pass[<<Remaining(t, w), w>>]
<1> DEFINE Body(f, tw) == LET t == tw[1]
                              w == tw[2]
                          IN  IF t = <<>> THEN <<>>
                              ELSE merge[<<FirstRun(t, w), SecondRun(t, w)>>]
                                      \o f[<<Remaining(t, w), w>>]
           D == [f \in [PassArgs -> Lists] |-> [tw \in PassArgs |-> Body(f, tw)]]
<1>1. <<>> \in Lists
  BY DEF Lists
<1>2. ASSUME NEW t \in Lists, NEW w \in Widths, NEW r \in Lists
      PROVE  merge[<<FirstRun(t, w), SecondRun(t, w)>>] \o r \in Lists
  <2>1. merge[<<FirstRun(t, w), SecondRun(t, w)>>] \in Lists
    BY RunParts, MergeKeeps
  <2> QED
    BY <2>1 DEF Lists
<1>3. ASSUME NEW f \in [PassArgs -> Lists], NEW tw \in PassArgs PROVE Body(f, tw) \in Lists
  <2>1. tw[1] \in Lists /\ tw[2] \in Widths
    BY PassArgParts
  <2>2. CASE tw[1] # <<>>
    <3>1. f[<<Remaining(tw[1], tw[2]), tw[2]>>] \in Lists
      BY <2>1, <2>2, RemainingShorter
    <3> QED
      BY <1>2, <2>1, <2>2, <3>1
  <2> QED
    BY <1>1, <2>2
<1>4. D \in [[PassArgs -> Lists] -> [PassArgs -> Lists]]
  <2> HIDE DEF Body
  <2> QED
    BY <1>3
<1>5. Falls(PassArgs, Lists, PassSizes, D)
  <2> SUFFICES ASSUME NEW f \in [PassArgs -> Lists], NEW g \in [PassArgs -> Lists],
                      NEW t \in Lists, NEW w \in Widths,
                      \A y \in PassArgs : PassSizes[y] < PassSizes[<<t, w>>] => f[y] = g[y]
               PROVE  Body(f, <<t, w>>) = Body(g, <<t, w>>)
    <3> HIDE DEF Body
    <3>1. \A f \in [PassArgs -> Lists], tw \in PassArgs : D[f][tw] = Body(f, tw)
      OBVIOUS
    <3> HIDE DEF D
    <3> QED
      BY PassArgParts, <3>1 DEF Falls
  <2>1. t # <<>> => f[<<Remaining(t, w), w>>] = g[<<Remaining(t, w), w>>]
    BY RemainingShorter
  <2> QED
    BY <2>1
<1>6. PICK f \in [PassArgs -> Lists] : f = D[f]
  <2>1. Recursion(PassArgs, Lists, PassSizes, D)
    <3> HIDE DEF D
    <3> QED
      BY <1>1, <1>4, <1>5, PassSizesType DEF Recursion
  <2> HIDE DEF D
  <2> QED
    BY <2>1, RecursionSolved DEF Solvable
<1>7. f = [tw \in PassArgs |-> Body(f, tw)]
  <2> HIDE DEF Body
  <2> QED
    BY <1>6
<1>8. pass = [tw \in PassArgs |-> Body(pass, tw)]
  <2> HIDE DEF D
  <2> QED
    BY <1>7 DEF pass, PassArgs, Lists, Widths, FirstRun, SecondRun, Remaining
<1>9. ASSUME NEW t \in Lists, NEW w \in Widths
      PROVE  pass[<<t, w>>] = IF t = <<>> THEN <<>>
                              ELSE merge[<<FirstRun(t, w), SecondRun(t, w)>>]
                                      \o pass[<<Remaining(t, w), w>>]
  <2>1. <<t, w>> \in PassArgs
    BY PassArg
  <2>2. pass[<<t, w>>] = Body(pass, <<t, w>>)
    <3> HIDE DEF Body
    <3> QED
      BY <1>8, <2>1
  <2> QED
    BY <2>2
<1>10. ASSUME NEW w \in Widths, NEW t \in Lists PROVE pass[<<t, w>>] \in Lists
  <2> DEFINE Good == {u \in Lists : pass[<<u, w>>] \in Lists}
  <2>1. ASSUME NEW u \in Lists, u # <<>> => Remaining(u, w) \in Good PROVE u \in Good
    <3>1. CASE u = <<>>
      BY <1>1, <1>9, <3>1
    <3>2. CASE u # <<>>
      <4>1. pass[<<Remaining(u, w), w>>] \in Lists
        BY <2>1, <3>2
      <4> QED
        BY <1>2, <1>9, <3>2, <4>1
    <3> QED
      BY <3>1, <3>2
  <2> HIDE DEF Good
  <2>2. Lists \subseteq Good
    BY <2>1, PassInduction
  <2> QED
    BY <2>2 DEF Good
<1>11. pass \in [PassArgs -> Lists]
  <2>1. \A tw \in PassArgs : pass[tw] \in Lists
    BY <1>10, PassArgParts
  <2> HIDE DEF Body
  <2> QED
    BY <1>8, <2>1
<1> QED
  BY <1>9, <1>11

\* The cases of a pass, as its steps.
LEMMA PassSteps ==
    ASSUME NEW t \in Lists, NEW w \in Widths
    PROVE  /\ pass[<<t, w>>] \in Lists
           /\ t = <<>> => pass[<<t, w>>] = <<>>
           /\ t # <<>> => pass[<<t, w>>] =
                 merge[<<FirstRun(t, w), SecondRun(t, w)>>] \o pass[<<Remaining(t, w), w>>]
BY PassDefined, PassArg

-----------------------------------------------------------------------------
(* Sorting keeps the packets.                                              *)

LEMMA Members ==
    ASSUME NEW t \in Lists
    PROVE  /\ \A e : e \in ToSet(t) <=> \E j \in 1..Len(t) : t[j] = e
           /\ \A j \in 1..Len(t) : t[j] \in ToSet(t) /\ t[j] \in Packet
           /\ ToSet(t) \subseteq Packet /\ Len(t) \in Nat /\ DOMAIN t = 1..Len(t)
<1>1. DOMAIN t = 1..Len(t) /\ Len(t) \in Nat /\ \A j \in 1..Len(t) : t[j] \in Packet
  BY DEF Lists
<1> QED
  BY <1>1 DEF ToSet

\* A list whose packets all stand in another one.
LEMMA Within ==
    ASSUME NEW t \in Lists, NEW u \in Lists,
           \A j \in 1..Len(u) : \E i \in 1..Len(t) : u[j] = t[i]
    PROVE  ToSet(u) \subseteq ToSet(t)
<1> SUFFICES ASSUME NEW e \in ToSet(u) PROVE e \in ToSet(t)
  OBVIOUS
<1>1. PICK j \in 1..Len(u) : u[j] = e
  BY Members
<1>2. PICK i \in 1..Len(t) : u[j] = t[i]
  OBVIOUS
<1> QED
  BY <1>1, <1>2, Members

\* Two lists one after the other.
LEMMA Joining ==
    ASSUME NEW u \in Lists, NEW v \in Lists
    PROVE  /\ u \o v \in Lists /\ Len(u \o v) = Len(u) + Len(v)
           /\ \A j \in 1..Len(u) : (u \o v)[j] = u[j] /\ j \in 1..Len(u \o v)
           /\ \A j \in 1..Len(v) : (u \o v)[Len(u) + j] = v[j]
                                   /\ Len(u) + j \in 1..Len(u \o v)
           /\ ToSet(u \o v) = ToSet(u) \cup ToSet(v)
<1>1. u \o v \in Lists /\ Len(u \o v) = Len(u) + Len(v)
  BY DEF Lists
<1>2. Len(u) \in Nat /\ Len(v) \in Nat
  BY Members
<1>3. ASSUME NEW j \in 1..Len(u) PROVE (u \o v)[j] = u[j] /\ j \in 1..Len(u \o v)
  <2>1. j \in 1..(Len(u) + Len(v))
    <3> DEFINE m == Len(u)
               n == Len(v)
    <3>1. j \in 1..m
      BY <1>3
    <3> HIDE DEF m, n
    <3>2. j \in 1..(m + n)
      BY <1>2, <3>1 DEF m, n
    <3> QED
      BY <3>2 DEF m, n
  <2> QED
    BY <1>1, <2>1 DEF Lists
<1>4. ASSUME NEW j \in 1..Len(v)
      PROVE  (u \o v)[Len(u) + j] = v[j] /\ Len(u) + j \in 1..Len(u \o v)
  <2>1. Len(u) + j \in 1..(Len(u) + Len(v)) /\ ~(Len(u) + j <= Len(u))
        /\ (Len(u) + j) - Len(u) = j
    <3> DEFINE m == Len(u)
               n == Len(v)
    <3>1. j \in 1..n
      BY <1>4
    <3> HIDE DEF m, n
    <3>2. m + j \in 1..(m + n) /\ ~(m + j <= m) /\ (m + j) - m = j
      BY <1>2, <3>1 DEF m, n
    <3> QED
      BY <3>2 DEF m, n
  <2> QED
    BY <1>1, <2>1 DEF Lists
<1>5. ASSUME NEW e PROVE e \in ToSet(u \o v) <=> e \in ToSet(u) \cup ToSet(v)
  <2>1. e \in ToSet(u) => e \in ToSet(u \o v)
    <3>1. \A j \in 1..Len(u) : \E i \in 1..Len(u \o v) : u[j] = (u \o v)[i]
      BY <1>3
    <3>2. ToSet(u) \subseteq ToSet(u \o v)
      BY <1>1, <3>1, Within
    <3> QED
      BY <3>2
  <2>2. e \in ToSet(v) => e \in ToSet(u \o v)
    <3>1. \A j \in 1..Len(v) : \E i \in 1..Len(u \o v) : v[j] = (u \o v)[i]
      BY <1>4
    <3>2. ToSet(v) \subseteq ToSet(u \o v)
      BY <1>1, <3>1, Within
    <3> QED
      BY <3>2
  <2>3. ASSUME e \in ToSet(u \o v) PROVE e \in ToSet(u) \cup ToSet(v)
    <3>1. PICK j \in 1..(Len(u) + Len(v)) : (u \o v)[j] = e
      BY <1>1, <2>3, Members
    <3>2. CASE j <= Len(u)
      <4>1. j \in 1..Len(u)
        BY <1>2, <3>1, <3>2
      <4> QED
        BY <1>3, <3>1, <4>1, Members
    <3>3. CASE ~(j <= Len(u))
      <4> DEFINE m == Len(u)
                 n == Len(v)
                 i == j - m
      <4>1. i \in 1..n /\ m + i = j
        <5>1. j \in 1..(m + n) /\ ~(j <= m)
          BY <3>1, <3>3
        <5> HIDE DEF m, n
        <5> QED
          BY <1>2, <5>1 DEF m, n
      <4>2. v[i] = e
        BY <1>4, <3>1, <4>1
      <4> HIDE DEF i
      <4> QED
        BY <4>1, <4>2, Members
    <3> QED
      BY <3>2, <3>3
  <2> QED
    BY <2>1, <2>2, <2>3
<1> QED
  BY <1>1, <1>3, <1>4, <1>5

\* The three parts are the whole list.
LEMMA PartsAreAll ==
    ASSUME NEW t \in Lists, NEW w \in Widths
    PROVE  /\ Len(t) = (Len(FirstRun(t, w)) + Len(SecondRun(t, w))) + Len(Remaining(t, w))
           /\ ToSet(t) = (ToSet(FirstRun(t, w)) \cup ToSet(SecondRun(t, w)))
                            \cup ToSet(Remaining(t, w))
<1> DEFINE a == FirstRun(t, w)
           b == SecondRun(t, w)
           c == Remaining(t, w)
           n == Len(t)
           la == Len(a)
           lb == Len(b)
           lc == Len(c)
<1>1. /\ a \in Lists /\ b \in Lists /\ c \in Lists
      /\ n \in Nat /\ w \in Nat /\ w # 0
      /\ la = IF w <= n THEN w ELSE n
      /\ lb = IF 2 * w <= n THEN w ELSE IF w <= n THEN n - w ELSE 0
      /\ lc = IF 2 * w <= n THEN n - 2 * w ELSE 0
  BY RunParts DEF Widths
<1>2. /\ \A j \in 1..la : a[j] = t[j] /\ j \in 1..n
      /\ \A j \in 1..lb : b[j] = t[w + j] /\ w + j \in 1..n
      /\ \A j \in 1..lc : c[j] = t[2 * w + j] /\ 2 * w + j \in 1..n
  BY RunParts
<1>3. n = (la + lb) + lc
  <2> HIDE DEF la, lb, lc, n
  <2>1. CASE 2 * w <= n
    BY <1>1, <2>1
  <2>2. CASE ~(2 * w <= n)
    BY <1>1, <2>2
  <2> QED
    BY <2>1, <2>2
<1>4. ASSUME NEW j \in 1..n
      PROVE  \/ j \in 1..la
             \/ j - w \in 1..lb /\ w + (j - w) = j
             \/ j - 2 * w \in 1..lc /\ 2 * w + (j - 2 * w) = j
  <2> HIDE DEF la, lb, lc, n
  <2>1. CASE 2 * w <= n
    BY <1>1, <2>1
  <2>2. CASE ~(2 * w <= n)
    BY <1>1, <2>2
  <2> QED
    BY <2>1, <2>2
<1>5. ToSet(t) \subseteq (ToSet(a) \cup ToSet(b)) \cup ToSet(c)
  <2> SUFFICES ASSUME NEW j \in 1..n PROVE t[j] \in (ToSet(a) \cup ToSet(b)) \cup ToSet(c)
    BY Members
  <2>1. CASE j \in 1..la
    BY <1>1, <1>2, <2>1, Members
  <2>2. CASE j - w \in 1..lb /\ w + (j - w) = j
    <3>1. b[j - w] = t[j]
      BY <1>2, <2>2
    <3> QED
      BY <1>1, <2>2, <3>1, Members
  <2>3. CASE j - 2 * w \in 1..lc /\ 2 * w + (j - 2 * w) = j
    <3>1. c[j - 2 * w] = t[j]
      BY <1>2, <2>3
    <3> QED
      BY <1>1, <2>3, <3>1, Members
  <2> QED
    BY <1>4, <2>1, <2>2, <2>3
<1>6. ToSet(a) \subseteq ToSet(t) /\ ToSet(b) \subseteq ToSet(t) /\ ToSet(c) \subseteq ToSet(t)
  <2>1. ToSet(a) \subseteq ToSet(t)
    <3>1. \A j \in 1..la : \E i \in 1..n : a[j] = t[i]
      BY <1>2
    <3> QED
      BY <1>1, <3>1, Within
  <2>2. ToSet(b) \subseteq ToSet(t)
    <3>1. \A j \in 1..lb : \E i \in 1..n : b[j] = t[i]
      BY <1>2
    <3> QED
      BY <1>1, <3>1, Within
  <2>3. ToSet(c) \subseteq ToSet(t)
    <3>1. \A j \in 1..lc : \E i \in 1..n : c[j] = t[i]
      BY <1>2
    <3> QED
      BY <1>1, <3>1, Within
  <2> QED
    BY <2>1, <2>2, <2>3
<1> QED
  BY <1>3, <1>5, <1>6

\* Another list of the same packets.
SamePackets(t, u) == u \in Lists /\ Len(u) = Len(t) /\ ToSet(u) = ToSet(t)

LEMMA PassKeeps ==
    ASSUME NEW w \in Widths
    PROVE  \A t \in Lists : SamePackets(t, pass[<<t, w>>])
<1> DEFINE Good == {t \in Lists : SamePackets(t, pass[<<t, w>>])}
<1>1. ASSUME NEW t \in Lists, t # <<>> => Remaining(t, w) \in Good PROVE t \in Good
  <2>1. CASE t = <<>>
    <3>1. pass[<<t, w>>] = t
      BY <2>1, PassSteps
    <3> QED
      BY <3>1 DEF SamePackets
  <2>2. CASE t # <<>>
    <3> DEFINE a == FirstRun(t, w)
               b == SecondRun(t, w)
               c == Remaining(t, w)
               m == merge[<<a, b>>]
               r == pass[<<c, w>>]
    <3>1. /\ a \in Lists /\ b \in Lists /\ c \in Lists
          /\ m \in Lists /\ Len(m) = Len(a) + Len(b) /\ ToSet(m) = ToSet(a) \cup ToSet(b)
      BY RunParts, MergeKeeps
    <3>2. r \in Lists /\ Len(r) = Len(c) /\ ToSet(r) = ToSet(c)
      BY <1>1, <2>2 DEF SamePackets
    <3>3. pass[<<t, w>>] = m \o r
      BY <2>2, PassSteps
    <3> HIDE DEF m, r
    <3>4. m \o r \in Lists /\ Len(m \o r) = Len(m) + Len(r) /\ ToSet(m \o r) = ToSet(m) \cup ToSet(r)
      BY <3>1, <3>2, Joining
    <3>5. Len(t) = (Len(a) + Len(b)) + Len(c) /\ ToSet(t) = (ToSet(a) \cup ToSet(b)) \cup ToSet(c)
      BY PartsAreAll
    <3>6. Len(m \o r) = Len(t) /\ ToSet(m \o r) = ToSet(t)
      BY <3>1, <3>2, <3>4, <3>5
    <3> QED
      BY <3>3, <3>4, <3>6 DEF SamePackets
  <2> QED
    BY <2>1, <2>2
<1> HIDE DEF Good
<1>2. Lists \subseteq Good
  BY <1>1, PassInduction
<1> QED
  BY <1>2 DEF Good

\* How far a run is from being the whole list.
Missing == [tw \in PassArgs |-> IF tw[2] >= Len(tw[1]) THEN 0 ELSE Len(tw[1]) - tw[2]]

LEMMA MissingType ==
    /\ Missing \in [PassArgs -> Nat]
    /\ \A t \in Lists, w \in Widths :
          Missing[<<t, w>>] = IF w >= Len(t) THEN 0 ELSE Len(t) - w
<1>1. ASSUME NEW t \in Lists, NEW w \in Widths
      PROVE  (IF w >= Len(t) THEN 0 ELSE Len(t) - w) \in Nat
  <2> DEFINE n == Len(t)
  <2>1. n \in Nat /\ w \in Nat
    BY Members DEF Widths
  <2> HIDE DEF n
  <2>2. (IF w >= n THEN 0 ELSE n - w) \in Nat
    BY <2>1
  <2> QED
    BY <2>2 DEF n
<1>2. \A t \in Lists, w \in Widths :
          Missing[<<t, w>>] = IF w >= Len(t) THEN 0 ELSE Len(t) - w
  BY PassArg DEF Missing
<1>3. \A tw \in PassArgs : (IF tw[2] >= Len(tw[1]) THEN 0 ELSE Len(tw[1]) - tw[2]) \in Nat
  BY <1>1, PassArgParts
<1> QED
  BY <1>2, <1>3 DEF Missing

\* The runs of the next pass are longer.
LEMMA NextRuns ==
    ASSUME NEW t \in Lists, NEW w \in Widths, w < Len(t)
    PROVE  /\ pass[<<t, w>>] \in Lists /\ 2 * w \in Widths
           /\ <<pass[<<t, w>>], 2 * w>> \in PassArgs
           /\ Missing[<<pass[<<t, w>>], 2 * w>>] < Missing[<<t, w>>]
<1> DEFINE u == pass[<<t, w>>]
           n == Len(t)
<1>1. u \in Lists /\ Len(u) = n
  BY PassKeeps DEF SamePackets
<1>2. n \in Nat /\ w \in Nat \ {0} /\ w < n /\ 2 * w \in Nat \ {0}
  BY Members DEF Widths
<1>3. Missing[<<u, 2 * w>>] = IF 2 * w >= n THEN 0 ELSE n - 2 * w
  <2> HIDE DEF u
  <2>1. 2 * w \in Widths
    BY <1>2 DEF Widths
  <2>2. Missing[<<u, 2 * w>>] = IF 2 * w >= Len(u) THEN 0 ELSE Len(u) - 2 * w
    BY <1>1, <2>1, MissingType
  <2> QED
    BY <1>1, <2>2
<1>4. Missing[<<t, w>>] = IF w >= n THEN 0 ELSE n - w
  BY MissingType
<1>5. Missing[<<u, 2 * w>>] < Missing[<<t, w>>]
  <2> HIDE DEF n, u
  <2>1. CASE 2 * w >= n
    BY <1>2, <1>3, <1>4, <2>1
  <2>2. CASE ~(2 * w >= n)
    BY <1>2, <1>3, <1>4, <2>2
  <2> QED
    BY <2>1, <2>2
<1> QED
  BY <1>1, <1>2, <1>5, PassArg DEF Widths

LEMMA PassesInduction ==
    ASSUME NEW Good,
           \A t \in Lists, w \in Widths :
              (w < Len(t) => <<pass[<<t, w>>], 2 * w>> \in Good) => <<t, w>> \in Good
    PROVE  \A t \in Lists, w \in Widths : <<t, w>> \in Good
<1>1. ASSUME NEW x \in PassArgs,
             \A y \in PassArgs : Missing[y] < Missing[x] => y \in Good
      PROVE  x \in Good
  <2>1. x[1] \in Lists /\ x[2] \in Widths /\ x = <<x[1], x[2]>>
    BY PassArgParts
  <2>2. x[2] < Len(x[1]) => <<pass[<<x[1], x[2]>>], 2 * x[2]>> \in Good
    BY <1>1, <2>1, NextRuns
  <2> QED
    BY <2>1, <2>2
<1>2. PassArgs \subseteq Good
  BY <1>1, MissingType, MeasureInduction
<1> QED
  BY <1>2, PassArg

LEMMA PassesDefined ==
    /\ passes \in [PassArgs -> Lists]
    /\ \A t \in Lists, w \in Widths :
          passes[<<t, w>>] = IF w >= Len(t) THEN t ELSE passes[<<pass[<<t, w>>], 2 * w>>]
<1> DEFINE Body(f, tw) == LET t == tw[1]
                              w == tw[2]
                          IN  IF w >= Len(t) THEN t ELSE f[<<pass[<<t, w>>], 2 * w>>]
           D == [f \in [PassArgs -> Lists] |-> [tw \in PassArgs |-> Body(f, tw)]]
<1>1. Lists # {}
  <2>1. <<>> \in Lists
    BY DEF Lists
  <2> QED
    BY <2>1
<1>2. ASSUME NEW t \in Lists, NEW w \in Widths, ~(w >= Len(t)) PROVE w < Len(t)
  <2> DEFINE n == Len(t)
  <2>1. n \in Nat /\ w \in Nat /\ ~(w >= n)
    BY <1>2, Members DEF Widths
  <2> HIDE DEF n
  <2>2. w < n
    BY <2>1
  <2> QED
    BY <2>2 DEF n
<1>3. ASSUME NEW f \in [PassArgs -> Lists], NEW tw \in PassArgs PROVE Body(f, tw) \in Lists
  <2>1. tw[1] \in Lists /\ tw[2] \in Widths
    BY PassArgParts
  <2>2. CASE ~(tw[2] >= Len(tw[1]))
    <3>1. f[<<pass[<<tw[1], tw[2]>>], 2 * tw[2]>>] \in Lists
      BY <1>2, <2>1, <2>2, NextRuns
    <3> QED
      BY <2>2, <3>1
  <2> QED
    BY <2>1, <2>2
<1>4. D \in [[PassArgs -> Lists] -> [PassArgs -> Lists]]
  <2> HIDE DEF Body
  <2> QED
    BY <1>3
<1>5. Falls(PassArgs, Lists, Missing, D)
  <2> SUFFICES ASSUME NEW f \in [PassArgs -> Lists], NEW g \in [PassArgs -> Lists],
                      NEW t \in Lists, NEW w \in Widths,
                      \A y \in PassArgs : Missing[y] < Missing[<<t, w>>] => f[y] = g[y]
               PROVE  Body(f, <<t, w>>) = Body(g, <<t, w>>)
    <3> HIDE DEF Body
    <3>1. \A f \in [PassArgs -> Lists], tw \in PassArgs : D[f][tw] = Body(f, tw)
      OBVIOUS
    <3> HIDE DEF D
    <3> QED
      BY PassArgParts, <3>1 DEF Falls
  <2>1. ~(w >= Len(t)) => f[<<pass[<<t, w>>], 2 * w>>] = g[<<pass[<<t, w>>], 2 * w>>]
    BY <1>2, NextRuns
  <2> QED
    BY <2>1
<1>6. PICK f \in [PassArgs -> Lists] : f = D[f]
  <2>1. Recursion(PassArgs, Lists, Missing, D)
    <3> HIDE DEF D
    <3> QED
      BY <1>1, <1>4, <1>5, MissingType DEF Recursion
  <2> HIDE DEF D
  <2> QED
    BY <2>1, RecursionSolved DEF Solvable
<1>7. f = [tw \in PassArgs |-> Body(f, tw)]
  <2> HIDE DEF Body
  <2> QED
    BY <1>6
<1>8. passes = [tw \in PassArgs |-> Body(passes, tw)]
  <2> HIDE DEF D
  <2> QED
    BY <1>7 DEF passes, PassArgs, Lists, Widths
<1>9. ASSUME NEW t \in Lists, NEW w \in Widths
      PROVE  passes[<<t, w>>] = IF w >= Len(t) THEN t ELSE passes[<<pass[<<t, w>>], 2 * w>>]
  <2>1. <<t, w>> \in PassArgs
    BY PassArg
  <2>2. passes[<<t, w>>] = Body(passes, <<t, w>>)
    <3> HIDE DEF Body
    <3> QED
      BY <1>8, <2>1
  <2> QED
    BY <2>2
<1>10. \A t \in Lists, w \in Widths : passes[<<t, w>>] \in Lists
  <2> DEFINE Good == {tw \in PassArgs : passes[tw] \in Lists}
  <2>1. ASSUME NEW t \in Lists, NEW w \in Widths,
               w < Len(t) => <<pass[<<t, w>>], 2 * w>> \in Good
        PROVE  <<t, w>> \in Good
    <3>1. CASE w >= Len(t)
      BY <1>9, <3>1, PassArg
    <3>2. CASE ~(w >= Len(t))
      <4>1. passes[<<pass[<<t, w>>], 2 * w>>] \in Lists
        BY <1>2, <2>1, <3>2
      <4> QED
        BY <1>9, <3>2, <4>1, PassArg
    <3> QED
      BY <3>1, <3>2
  <2> HIDE DEF Good
  <2>2. \A t \in Lists, w \in Widths : <<t, w>> \in Good
    BY <2>1, PassesInduction
  <2> QED
    BY <2>2 DEF Good
<1>11. passes \in [PassArgs -> Lists]
  <2>1. \A tw \in PassArgs : passes[tw] \in Lists
    BY <1>10, PassArgParts
  <2> HIDE DEF Body
  <2> QED
    BY <1>8, <2>1
<1> QED
  BY <1>9, <1>11

\* The cases of the passes, as their steps.
LEMMA PassesSteps ==
    ASSUME NEW t \in Lists, NEW w \in Widths
    PROVE  /\ passes[<<t, w>>] \in Lists /\ w \in Nat /\ Len(t) \in Nat
           /\ \/ w >= Len(t) /\ passes[<<t, w>>] = t
              \/ w < Len(t) /\ passes[<<t, w>>] = passes[<<pass[<<t, w>>], 2 * w>>]
<1>1. passes[<<t, w>>] \in Lists
  BY PassesDefined, PassArg
<1>2. passes[<<t, w>>] = IF w >= Len(t) THEN t ELSE passes[<<pass[<<t, w>>], 2 * w>>]
  BY PassesDefined
<1>3. w \in Nat /\ Len(t) \in Nat
  BY Members DEF Widths
<1>4. w >= Len(t) \/ w < Len(t)
  BY <1>3
<1> QED
  BY <1>1, <1>2, <1>3, <1>4

LEMMA PassesKeep == \A t \in Lists, w \in Widths : SamePackets(t, passes[<<t, w>>])
<1> DEFINE Good == {tw \in PassArgs : SamePackets(tw[1], passes[tw])}
<1>1. ASSUME NEW t \in Lists, NEW w \in Widths,
             w < Len(t) => <<pass[<<t, w>>], 2 * w>> \in Good
      PROVE  <<t, w>> \in Good
  <2>1. CASE w >= Len(t) /\ passes[<<t, w>>] = t
    <3>1. SamePackets(t, passes[<<t, w>>])
      BY <2>1 DEF SamePackets
    <3> QED
      BY <3>1, PassArg
  <2>2. CASE w < Len(t) /\ passes[<<t, w>>] = passes[<<pass[<<t, w>>], 2 * w>>]
    <3>1. SamePackets(pass[<<t, w>>], passes[<<pass[<<t, w>>], 2 * w>>])
      BY <1>1, <2>2
    <3>2. SamePackets(t, pass[<<t, w>>])
      BY PassKeeps
    <3>3. SamePackets(t, passes[<<t, w>>])
      BY <2>2, <3>1, <3>2 DEF SamePackets
    <3> QED
      BY <3>3, PassArg
  <2> QED
    BY <2>1, <2>2, PassesSteps
<1> HIDE DEF Good
<1>2. \A t \in Lists, w \in Widths : <<t, w>> \in Good
  BY <1>1, PassesInduction
<1> QED
  BY <1>2, PassArg DEF Good

\* sort_pcap_packets returns the packets it was given, whatever
\* cmp_pcap_packet answers: none is lost, none is there twice.
THEOREM SortKeepsPackets ==
    \A s \in Seq(Packet) : SamePackets(s, SortPackets(s))
<1>1. 1 \in Widths
  BY DEF Widths
<1> QED
  BY <1>1, PassesKeep DEF SortPackets, Lists

-----------------------------------------------------------------------------
(* Sorting puts the packets in order.  R is an order the result is to be   *)
(* in, as a set of pairs.                                                  *)

Ascends(t, R) == \A j, k \in 1..Len(t) : j < k => <<t[j], t[k]>> \in R

\* A merge that compares x, which stands before y, with y puts them into R.
Agrees(x, y, R) == /\ Compare(x, y) <= 0 => <<x, y>> \in R
                   /\ ~(Compare(x, y) <= 0) => <<y, x>> \in R

\* R is an order, and one that cmp_pcap_packet does not contradict.
Orders(R) == /\ \A x, y, z : <<x, y>> \in R /\ <<y, z>> \in R => <<x, z>> \in R
             /\ \A x, y : <<x, y>> \in R => Compare(x, y) <= 0

\* An ascending list with a packet in front that belongs there.
LEMMA AscendsInFront ==
    ASSUME NEW R, NEW p \in Packet, NEW t \in Lists, Ascends(t, R),
           \A x \in ToSet(t) : <<p, x>> \in R
    PROVE  Ascends(<<p>> \o t, R)
<1> DEFINE u == <<p>> \o t
           n == Len(t)
<1>1. n \in Nat /\ Len(u) = 1 + n /\ u[1] = p /\ \A j \in 1..n : u[1 + j] = t[j]
  <2>1. <<p>> \in Lists /\ Len(<<p>>) = 1 /\ <<p>>[1] = p
    BY DEF Lists
  <2>2. /\ Len(u) = Len(<<p>>) + Len(t)
        /\ \A j \in 1..Len(<<p>>) : u[j] = <<p>>[j]
        /\ \A j \in 1..Len(t) : u[Len(<<p>>) + j] = t[j]
    BY <2>1, Joining
  <2>3. 1 \in 1..1
    OBVIOUS
  <2> HIDE DEF u
  <2> QED
    BY <2>1, <2>2, <2>3, Members
<1> HIDE DEF u
<1> SUFFICES ASSUME NEW j \in 1..(1 + n), NEW k \in 1..(1 + n), j < k
             PROVE  <<u[j], u[k]>> \in R
  BY <1>1 DEF Ascends, u
<1>2. k - 1 \in 1..n /\ 1 + (k - 1) = k
  <2> HIDE DEF n
  <2> QED
    BY <1>1
<1>3. u[k] = t[k - 1]
  BY <1>1, <1>2
<1>4. CASE j = 1
  BY <1>1, <1>2, <1>3, <1>4, Members
<1>5. CASE j # 1
  <2>1. j - 1 \in 1..n /\ 1 + (j - 1) = j /\ j - 1 < k - 1
    <3> HIDE DEF n
    <3> QED
      BY <1>1, <1>5
  <2>2. u[j] = t[j - 1]
    BY <1>1, <2>1
  <2> QED
    BY <1>2, <1>3, <2>1, <2>2 DEF Ascends
<1> QED
  BY <1>4, <1>5

\* The head of an ascending list belongs before the rest, which ascends.
LEMMA AscendsBehind ==
    ASSUME NEW R, NEW t \in Lists, t # <<>>, Ascends(t, R)
    PROVE  Ascends(Tail(t), R) /\ \A x \in ToSet(Tail(t)) : <<Head(t), x>> \in R
<1> DEFINE n == Len(t)
           u == Tail(t)
<1>1. /\ n \in Nat \ {0} /\ u \in Lists /\ Len(u) = n - 1 /\ Head(t) = t[1]
      /\ \A j \in 1..(n - 1) : u[j] = t[j + 1]
  BY DEF Lists
<1> HIDE DEF u
<1>2. ASSUME NEW j \in 1..(n - 1)
      PROVE  1 \in 1..n /\ j + 1 \in 1..n /\ 1 < j + 1 /\ j \in Int
  <2> HIDE DEF n
  <2> QED
    BY <1>1
<1>3. Ascends(u, R)
  <2> SUFFICES ASSUME NEW j \in 1..(n - 1), NEW k \in 1..(n - 1), j < k
               PROVE  <<u[j], u[k]>> \in R
    BY <1>1 DEF Ascends
  <2>1. j + 1 < k + 1
    BY <1>2
  <2> QED
    BY <1>1, <1>2, <2>1 DEF Ascends
<1>4. ASSUME NEW x \in ToSet(u) PROVE <<Head(t), x>> \in R
  <2>1. PICK j \in 1..(n - 1) : u[j] = x
    BY <1>1, Members
  <2> QED
    BY <1>1, <1>2, <2>1 DEF Ascends
<1> QED
  BY <1>3, <1>4 DEF u

\* Two ascending lists are merged into one.
LEMMA MergeAscends ==
    ASSUME NEW R, Orders(R)
    PROVE  \A a, b \in Lists :
              /\ Ascends(a, R) /\ Ascends(b, R)
              /\ \A x \in ToSet(a), y \in ToSet(b) : Agrees(x, y, R)
              => Ascends(merge[<<a, b>>], R)
<1> DEFINE Fit(a, b) == /\ Ascends(a, R) /\ Ascends(b, R)
                        /\ \A x \in ToSet(a), y \in ToSet(b) : Agrees(x, y, R)
           Good == {ab \in ListPairs : Fit(ab[1], ab[2]) => Ascends(merge[ab], R)}
<1>0. ASSUME NEW a \in Lists, NEW b \in Lists
      PROVE  <<a, b>> \in Good <=> (Fit(a, b) => Ascends(merge[<<a, b>>], R))
  <2> HIDE DEF Fit
  <2> QED
    BY PairSize
<1> HIDE DEF Good
<1>1. ASSUME NEW a \in Lists, NEW b \in Lists,
             a # <<>> => <<Tail(a), b>> \in Good,
             b # <<>> => <<a, Tail(b)>> \in Good
      PROVE  <<a, b>> \in Good
  <2> SUFFICES ASSUME Fit(a, b) PROVE Ascends(merge[<<a, b>>], R)
    BY <1>0
  <2>1. CASE /\ a # <<>> /\ (b # <<>> => Compare(Head(a), Head(b)) <= 0)
             /\ merge[<<a, b>>] = <<Head(a)>> \o merge[<<Tail(a), b>>]
    <3>1. /\ Head(a) \in Packet /\ Tail(a) \in Lists /\ Head(a) \in ToSet(a)
          /\ ToSet(Tail(a)) \subseteq ToSet(a)
      BY <2>1, HeadAndTail
    <3>2. Ascends(Tail(a), R) /\ \A x \in ToSet(Tail(a)) : <<Head(a), x>> \in R
      BY <2>1, AscendsBehind
    <3>3. Ascends(merge[<<Tail(a), b>>], R)
      <4>1. Fit(Tail(a), b)
        BY <3>1, <3>2
      <4> HIDE DEF Fit
      <4> QED
        BY <1>0, <1>1, <2>1, <3>1, <4>1
    <3>4. ASSUME NEW y \in ToSet(b) PROVE <<Head(a), y>> \in R
      <4>1. b # <<>>
        BY Members DEF Lists
      <4>2. Head(b) \in ToSet(b) /\ ToSet(b) = {Head(b)} \cup ToSet(Tail(b))
        BY <4>1, HeadAndTail
      <4>3. <<Head(a), Head(b)>> \in R
        BY <2>1, <3>1, <4>1, <4>2 DEF Agrees
      <4>4. y # Head(b) => <<Head(b), y>> \in R
        BY <4>1, <4>2, AscendsBehind
      <4> QED
        BY <4>3, <4>4 DEF Orders
    <3>5. ASSUME NEW x \in ToSet(merge[<<Tail(a), b>>]) PROVE <<Head(a), x>> \in R
      <4>1. x \in ToSet(Tail(a)) \cup ToSet(b)
        BY <3>1, MergeKeeps
      <4> QED
        BY <3>2, <3>4, <4>1
    <3> QED
      BY <2>1, <3>1, <3>3, <3>5, AscendsInFront, MergeKeeps
  <2>2. CASE /\ b # <<>> /\ ~(a # <<>> /\ Compare(Head(a), Head(b)) <= 0)
             /\ merge[<<a, b>>] = <<Head(b)>> \o merge[<<a, Tail(b)>>]
    <3>1. /\ Head(b) \in Packet /\ Tail(b) \in Lists /\ Head(b) \in ToSet(b)
          /\ ToSet(Tail(b)) \subseteq ToSet(b)
      BY <2>2, HeadAndTail
    <3>2. Ascends(Tail(b), R) /\ \A x \in ToSet(Tail(b)) : <<Head(b), x>> \in R
      BY <2>2, AscendsBehind
    <3>3. Ascends(merge[<<a, Tail(b)>>], R)
      <4>1. Fit(a, Tail(b))
        BY <3>1, <3>2
      <4> HIDE DEF Fit
      <4> QED
        BY <1>0, <1>1, <2>2, <3>1, <4>1
    <3>4. ASSUME NEW x \in ToSet(a) PROVE <<Head(b), x>> \in R
      <4>1. a # <<>>
        BY Members DEF Lists
      <4>2. Head(a) \in ToSet(a) /\ ToSet(a) = {Head(a)} \cup ToSet(Tail(a))
        BY <4>1, HeadAndTail
      <4>3. <<Head(b), Head(a)>> \in R
        BY <2>2, <3>1, <4>1, <4>2 DEF Agrees
      <4>4. x # Head(a) => <<Head(a), x>> \in R
        BY <4>1, <4>2, AscendsBehind
      <4> QED
        BY <4>3, <4>4 DEF Orders
    <3>5. ASSUME NEW x \in ToSet(merge[<<a, Tail(b)>>]) PROVE <<Head(b), x>> \in R
      <4>1. x \in ToSet(a) \cup ToSet(Tail(b))
        BY <3>1, MergeKeeps
      <4> QED
        BY <3>2, <3>4, <4>1
    <3> QED
      BY <2>2, <3>1, <3>3, <3>5, AscendsInFront, MergeKeeps
  <2>3. CASE a = <<>> /\ b = <<>> /\ merge[<<a, b>>] = <<>>
    BY <2>3 DEF Ascends
  <2> QED
    BY <2>1, <2>2, <2>3, MergeSteps
<1>2. \A a, b \in Lists : <<a, b>> \in Good
  BY <1>1, MergeInduction
<1> QED
  BY <1>0, <1>2

\* The runs of w packets of a list ascend; each packet may be compared with
\* those behind it.
RunsAscend(t, w, R) ==
    \A m \in Nat : \A j, k \in 1..Len(t) :
        m * w < j /\ j < k /\ k <= m * w + w => <<t[j], t[k]>> \in R
AllAgree(t, R) == \A j, k \in 1..Len(t) : j < k => Agrees(t[j], t[k], R)

LEMMA BlockStart ==
    ASSUME NEW m \in Nat, NEW v \in Widths
    PROVE  /\ m * v \in Nat /\ v \in Nat
           /\ m = 0 => m * v = 0
           /\ m # 0 => m - 1 \in Nat /\ m * v = (m - 1) * v + v /\ v <= m * v
           /\ (m + 2) * v = m * v + 2 * v /\ m + 2 \in Nat
<1>1. v \in Nat /\ m * v \in Nat /\ (m = 0 => m * v = 0)
  BY DEF Widths
<1>2. (m + 2) * v = m * v + 2 * v
  BY <1>1
<1>3. ASSUME m # 0 PROVE m - 1 \in Nat /\ m * v = (m - 1) * v + v /\ v <= m * v
  <2>1. m - 1 \in Nat
    BY <1>3
  <2>2. m * v = (m - 1) * v + v
    BY <1>1, <2>1
  <2>3. (m - 1) * v \in Nat
    BY <1>1, <2>1
  <2> QED
    BY <1>1, <2>1, <2>2, <2>3
<1> QED
  BY <1>1, <1>2, <1>3

\* The parts of a list whose runs ascend.
LEMMA PartsAscend ==
    ASSUME NEW R, NEW w \in Widths, NEW t \in Lists,
           AllAgree(t, R), RunsAscend(t, w, R)
    PROVE  /\ Ascends(FirstRun(t, w), R) /\ Ascends(SecondRun(t, w), R)
           /\ RunsAscend(Remaining(t, w), w, R) /\ AllAgree(Remaining(t, w), R)
           /\ \A x \in ToSet(FirstRun(t, w)), y \in ToSet(SecondRun(t, w)) : Agrees(x, y, R)
           /\ \A x \in ToSet(FirstRun(t, w)) \cup ToSet(SecondRun(t, w)),
                 y \in ToSet(Remaining(t, w)) : Agrees(x, y, R)
<1> DEFINE a == FirstRun(t, w)
           b == SecondRun(t, w)
           c == Remaining(t, w)
           n == Len(t)
           la == Len(a)
           lb == Len(b)
           lc == Len(c)
<1>1. /\ a \in Lists /\ b \in Lists /\ c \in Lists
      /\ n \in Nat /\ w \in Nat /\ w # 0
      /\ la = IF w <= n THEN w ELSE n
      /\ lb = IF 2 * w <= n THEN w ELSE IF w <= n THEN n - w ELSE 0
      /\ lc = IF 2 * w <= n THEN n - 2 * w ELSE 0
  BY RunParts DEF Widths
<1>2. /\ \A j \in 1..la : a[j] = t[j] /\ j \in 1..n
      /\ \A j \in 1..lb : b[j] = t[w + j] /\ w + j \in 1..n
      /\ \A j \in 1..lc : c[j] = t[2 * w + j] /\ 2 * w + j \in 1..n
  BY RunParts
<1>3. la \in Nat /\ lb \in Nat /\ lc \in Nat /\ la <= w /\ lb <= w
  <2>1. la \in Nat /\ lb \in Nat /\ lc \in Nat
    BY <1>1, Members
  <2> HIDE DEF la, lb, lc, n
  <2> QED
    BY <1>1, <2>1
<1> HIDE DEF a, b, c, la, lb, lc, n
<1>4. Ascends(a, R)
  <2> SUFFICES ASSUME NEW j \in 1..la, NEW k \in 1..la, j < k PROVE <<a[j], a[k]>> \in R
    BY DEF Ascends, la
  <2>1. 0 * w = 0 /\ 0 \in Nat
    BY <1>1
  <2>2. 0 * w < j /\ k <= 0 * w + w
    BY <1>1, <1>3, <2>1
  <2>3. j \in 1..n /\ k \in 1..n /\ a[j] = t[j] /\ a[k] = t[k]
    BY <1>2
  <2> QED
    BY <2>1, <2>2, <2>3 DEF RunsAscend, n
<1>5. Ascends(b, R)
  <2> SUFFICES ASSUME NEW j \in 1..lb, NEW k \in 1..lb, j < k PROVE <<b[j], b[k]>> \in R
    BY DEF Ascends, lb
  <2>1. 1 * w = w /\ 1 \in Nat
    BY <1>1
  <2>2. 1 * w < w + j /\ w + j < w + k /\ w + k <= 1 * w + w
    BY <1>1, <1>3, <2>1
  <2>3. w + j \in 1..n /\ w + k \in 1..n /\ b[j] = t[w + j] /\ b[k] = t[w + k]
    BY <1>2
  <2> QED
    BY <2>1, <2>2, <2>3 DEF RunsAscend, n
<1>6. RunsAscend(c, w, R)
  <2> SUFFICES ASSUME NEW m \in Nat, NEW j \in 1..lc, NEW k \in 1..lc,
                      m * w < j, j < k, k <= m * w + w
               PROVE  <<c[j], c[k]>> \in R
    BY DEF RunsAscend, lc
  <2>1. (m + 2) * w = m * w + 2 * w /\ m + 2 \in Nat /\ m * w \in Nat
    BY BlockStart
  <2> DEFINE e == (m + 2) * w
             d == m * w
  <2>2. e < 2 * w + j /\ 2 * w + j < 2 * w + k /\ 2 * w + k <= e + w
    <3>1. e = d + 2 * w /\ d \in Nat /\ d < j /\ k <= d + w
      BY <2>1
    <3> HIDE DEF d, e
    <3> QED
      BY <1>1, <1>3, <3>1
  <2>3. /\ 2 * w + j \in 1..n /\ 2 * w + k \in 1..n
        /\ c[j] = t[2 * w + j] /\ c[k] = t[2 * w + k]
    BY <1>2
  <2> QED
    BY <2>1, <2>2, <2>3 DEF RunsAscend, n
<1>7. AllAgree(c, R)
  <2> SUFFICES ASSUME NEW j \in 1..lc, NEW k \in 1..lc, j < k PROVE Agrees(c[j], c[k], R)
    BY DEF AllAgree, lc
  <2>1. 2 * w + j < 2 * w + k
    BY <1>1, <1>3
  <2>2. /\ 2 * w + j \in 1..n /\ 2 * w + k \in 1..n
        /\ c[j] = t[2 * w + j] /\ c[k] = t[2 * w + k]
    BY <1>2
  <2> QED
    BY <2>1, <2>2 DEF AllAgree, n
<1>8. ASSUME NEW x \in ToSet(a), NEW y \in ToSet(b) PROVE Agrees(x, y, R)
  <2>1. PICK j \in 1..la : a[j] = x
    BY <1>1, Members DEF la
  <2>2. PICK k \in 1..lb : b[k] = y
    BY <1>1, Members DEF lb
  <2>3. j < w + k
    BY <1>1, <1>3
  <2>4. j \in 1..n /\ w + k \in 1..n /\ x = t[j] /\ y = t[w + k]
    BY <1>2, <2>1, <2>2
  <2> QED
    BY <2>3, <2>4 DEF AllAgree, n
<1>9. ASSUME NEW x \in ToSet(a) \cup ToSet(b), NEW y \in ToSet(c) PROVE Agrees(x, y, R)
  <2>1. PICK k \in 1..lc : c[k] = y
    BY <1>1, Members DEF lc
  <2>2. 2 * w + k \in 1..n /\ y = t[2 * w + k]
    BY <1>2, <2>1
  <2>3. CASE x \in ToSet(a)
    <3>1. PICK j \in 1..la : a[j] = x
      BY <1>1, <2>3, Members DEF la
    <3>2. j < 2 * w + k
      BY <1>1, <1>3
    <3>3. j \in 1..n /\ x = t[j]
      BY <1>2, <3>1
    <3> QED
      BY <2>2, <3>2, <3>3 DEF AllAgree, n
  <2>4. CASE x \in ToSet(b)
    <3>1. PICK j \in 1..lb : b[j] = x
      BY <1>1, <2>4, Members DEF lb
    <3>2. w + j < 2 * w + k
      BY <1>1, <1>3
    <3>3. w + j \in 1..n /\ x = t[w + j]
      BY <1>2, <3>1
    <3> QED
      BY <2>2, <3>2, <3>3 DEF AllAgree, n
  <2> QED
    BY <2>3, <2>4
<1> QED
  BY <1>4, <1>5, <1>6, <1>7, <1>8, <1>9 DEF a, b, c

\* A run of v packets before a list with runs of v packets.
LEMMA RunInFront ==
    ASSUME NEW R, Orders(R), NEW v \in Widths, NEW u \in Lists, NEW r \in Lists,
           Ascends(u, R), Len(u) <= v, r # <<>> => Len(u) = v,
           RunsAscend(r, v, R), AllAgree(r, R),
           \A x \in ToSet(u), y \in ToSet(r) : Agrees(x, y, R)
    PROVE  RunsAscend(u \o r, v, R) /\ AllAgree(u \o r, R)
<1> DEFINE s == u \o r
           m == Len(u)
           n == Len(r)
<1>1. /\ m \in Nat /\ n \in Nat /\ v \in Nat \ {0} /\ Len(s) = m + n
      /\ m <= v /\ (n # 0 => m = v)
  <2>1. n # 0 => r # <<>>
    OBVIOUS
  <2> QED
    BY <2>1, Members, Joining DEF Widths
<1>2. (\A j \in 1..m : s[j] = u[j]) /\ (\A j \in 1..n : s[m + j] = r[j])
  BY Joining
<1> HIDE DEF s
<1>3. ASSUME NEW j \in 1..(m + n), NEW k \in 1..(m + n), j < k
      PROVE  \/ j \in 1..m /\ k \in 1..m /\ s[j] = u[j] /\ s[k] = u[k]
             \/ /\ j \in 1..m /\ ~(k <= m) /\ m = v
                /\ k - m \in 1..n /\ s[j] = u[j] /\ s[k] = r[k - m]
             \/ /\ ~(j <= m) /\ m = v /\ j - m \in 1..n /\ k - m \in 1..n
                /\ s[j] = r[j - m] /\ s[k] = r[k - m]
  <2>1. \/ j \in 1..m /\ k \in 1..m
        \/ j \in 1..m /\ ~(k <= m) /\ m = v /\ k - m \in 1..n /\ m + (k - m) = k
        \/ /\ ~(j <= m) /\ m = v /\ j - m \in 1..n /\ k - m \in 1..n
           /\ m + (j - m) = j /\ m + (k - m) = k
    <3> HIDE DEF m, n
    <3> QED
      BY <1>1, <1>3
  <2> QED
    BY <1>2, <2>1
<1>4. RunsAscend(s, v, R)
  <2> SUFFICES ASSUME NEW i \in Nat, NEW j \in 1..(m + n), NEW k \in 1..(m + n),
                      i * v < j, j < k, k <= i * v + v
               PROVE  <<s[j], s[k]>> \in R
    BY <1>1 DEF RunsAscend
  <2> DEFINE d == i * v
  <2>1. /\ d \in Nat /\ (i = 0 => d = 0)
        /\ i # 0 => i - 1 \in Nat /\ d = (i - 1) * v + v /\ v <= d
    BY BlockStart
  <2>2. d < j /\ k <= d + v
    OBVIOUS
  <2>3. CASE j \in 1..m /\ k \in 1..m /\ s[j] = u[j] /\ s[k] = u[k]
    BY <2>3 DEF Ascends
  <2>4. ~(j \in 1..m /\ ~(k <= m) /\ m = v)
    <3> HIDE DEF d, m, n
    <3> QED
      BY <1>1, <2>1, <2>2
  <2>5. CASE /\ ~(j <= m) /\ m = v /\ j - m \in 1..n /\ k - m \in 1..n
             /\ s[j] = r[j - m] /\ s[k] = r[k - m]
    <3> DEFINE c == (i - 1) * v
    <3>1. i # 0 /\ c \in Nat /\ c < j - m /\ j - m < k - m /\ k - m <= c + v
      <4>1. i # 0
        <5> HIDE DEF d, m, n
        <5> QED
          BY <1>1, <2>1, <2>2, <2>5
      <4>2. c \in Nat /\ d = c + v
        BY <2>1, <4>1, BlockStart
      <4> HIDE DEF c, d, m, n
      <4> QED
        BY <1>1, <2>2, <2>5, <4>1, <4>2
    <3>2. i - 1 \in Nat
      BY <2>1, <3>1
    <3> QED
      BY <2>5, <3>1, <3>2 DEF RunsAscend
  <2> QED
    BY <1>3, <2>3, <2>4, <2>5
<1>5. AllAgree(s, R)
  <2> SUFFICES ASSUME NEW j \in 1..(m + n), NEW k \in 1..(m + n), j < k
               PROVE  Agrees(s[j], s[k], R)
    BY <1>1 DEF AllAgree
  <2>1. CASE j \in 1..m /\ k \in 1..m /\ s[j] = u[j] /\ s[k] = u[k]
    <3>1. <<s[j], s[k]>> \in R
      BY <2>1 DEF Ascends
    <3>2. Compare(s[j], s[k]) <= 0
      BY <3>1 DEF Orders
    <3> QED
      BY <3>1, <3>2 DEF Agrees
  <2>2. CASE /\ j \in 1..m /\ ~(k <= m) /\ m = v
             /\ k - m \in 1..n /\ s[j] = u[j] /\ s[k] = r[k - m]
    BY <2>2, Members
  <2>3. CASE /\ ~(j <= m) /\ m = v /\ j - m \in 1..n /\ k - m \in 1..n
             /\ s[j] = r[j - m] /\ s[k] = r[k - m]
    <3>1. j - m < k - m
      <4> HIDE DEF m, n
      <4> QED
        BY <1>1
    <3> QED
      BY <2>3, <3>1 DEF AllAgree
  <2> QED
    BY <1>3, <2>1, <2>2, <2>3
<1> QED
  BY <1>4, <1>5 DEF s

\* A pass makes ascending runs of twice the width.
LEMMA PassAscends ==
    ASSUME NEW R, Orders(R), NEW w \in Widths
    PROVE  \A t \in Lists : AllAgree(t, R) /\ RunsAscend(t, w, R) =>
              AllAgree(pass[<<t, w>>], R) /\ RunsAscend(pass[<<t, w>>], 2 * w, R)
<1> DEFINE Fit(t) == AllAgree(t, R) /\ RunsAscend(t, w, R)
           Fits(u) == AllAgree(u, R) /\ RunsAscend(u, 2 * w, R)
           Good == {t \in Lists : Fit(t) => Fits(pass[<<t, w>>])}
<1>0. 2 * w \in Widths /\ w \in Nat
  BY DEF Widths
<1>1. ASSUME NEW t \in Lists, t # <<>> => Remaining(t, w) \in Good PROVE t \in Good
  <2> SUFFICES ASSUME Fit(t) PROVE Fits(pass[<<t, w>>])
    OBVIOUS
  <2>1. CASE t = <<>>
    <3>1. pass[<<t, w>>] = <<>>
      BY <2>1, PassSteps
    <3>2. \A j, k \in 1..Len(<<>>) : FALSE
      OBVIOUS
    <3> QED
      BY <3>1, <3>2 DEF AllAgree, RunsAscend
  <2>2. CASE t # <<>>
    <3> DEFINE a == FirstRun(t, w)
               b == SecondRun(t, w)
               c == Remaining(t, w)
               u == merge[<<a, b>>]
               r == pass[<<c, w>>]
    <3>1. /\ a \in Lists /\ b \in Lists /\ c \in Lists
          /\ u \in Lists /\ Len(u) = Len(a) + Len(b) /\ ToSet(u) = ToSet(a) \cup ToSet(b)
      BY RunParts, MergeKeeps
    <3>2. r \in Lists /\ Len(r) = Len(c) /\ ToSet(r) = ToSet(c)
      BY <3>1, PassKeeps DEF SamePackets
    <3>3. /\ Ascends(a, R) /\ Ascends(b, R) /\ Fit(c)
          /\ \A x \in ToSet(a), y \in ToSet(b) : Agrees(x, y, R)
          /\ \A x \in ToSet(a) \cup ToSet(b), y \in ToSet(c) : Agrees(x, y, R)
      BY PartsAscend
    <3>4. Fits(r)
      BY <1>1, <2>2, <3>3
    <3>5. Ascends(u, R)
      BY <3>1, <3>3, MergeAscends
    <3>6. Len(u) <= 2 * w /\ (r # <<>> => Len(u) = 2 * w)
      <4> DEFINE n == Len(t)
                 la == Len(a)
                 lb == Len(b)
                 lc == Len(c)
      <4>1. /\ n \in Nat
            /\ la = IF w <= n THEN w ELSE n
            /\ lb = IF 2 * w <= n THEN w ELSE IF w <= n THEN n - w ELSE 0
            /\ lc = IF 2 * w <= n THEN n - 2 * w ELSE 0
        BY RunParts
      <4>2. r # <<>> => lc # 0
        BY <3>2 DEF Lists
      <4>3. la + lb <= 2 * w /\ (lc # 0 => la + lb = 2 * w)
        <5> HIDE DEF n, la, lb, lc
        <5> QED
          BY <1>0, <4>1
      <4> QED
        BY <3>1, <4>2, <4>3
    <3>7. pass[<<t, w>>] = u \o r
      BY <2>2, PassSteps
    <3> HIDE DEF u, r, a, b, c
    <3>8. \A x \in ToSet(u), y \in ToSet(r) : Agrees(x, y, R)
      BY <3>1, <3>2, <3>3
    <3>9. RunsAscend(u \o r, 2 * w, R) /\ AllAgree(u \o r, R)
      BY <1>0, <3>1, <3>2, <3>4, <3>5, <3>6, <3>8, RunInFront
    <3> QED
      BY <3>7, <3>9
  <2> QED
    BY <2>1, <2>2
<1> HIDE DEF Good
<1>2. Lists \subseteq Good
  BY <1>1, PassInduction
<1> QED
  BY <1>2 DEF Good

LEMMA PassesAscend ==
    ASSUME NEW R, Orders(R)
    PROVE  \A t \in Lists, w \in Widths :
              AllAgree(t, R) /\ RunsAscend(t, w, R) => Ascends(passes[<<t, w>>], R)
<1> DEFINE Good == {tw \in PassArgs : AllAgree(tw[1], R) /\ RunsAscend(tw[1], tw[2], R) =>
                                         Ascends(passes[tw], R)}
<1>0. ASSUME NEW t \in Lists, NEW w \in Widths
      PROVE  <<t, w>> \in Good <=> (AllAgree(t, R) /\ RunsAscend(t, w, R) =>
                                       Ascends(passes[<<t, w>>], R))
  BY PassArg
<1> HIDE DEF Good
<1>1. ASSUME NEW t \in Lists, NEW w \in Widths,
             w < Len(t) => <<pass[<<t, w>>], 2 * w>> \in Good
      PROVE  <<t, w>> \in Good
  <2> SUFFICES ASSUME AllAgree(t, R), RunsAscend(t, w, R)
               PROVE  Ascends(passes[<<t, w>>], R)
    BY <1>0
  <2>1. CASE w >= Len(t) /\ passes[<<t, w>>] = t
    <3> SUFFICES ASSUME NEW j \in 1..Len(t), NEW k \in 1..Len(t), j < k
                 PROVE  <<t[j], t[k]>> \in R
      BY <2>1 DEF Ascends
    <3>1. 0 \in Nat /\ 0 * w < j /\ k <= 0 * w + w
      <4> DEFINE n == Len(t)
      <4>1. n \in Nat /\ w \in Nat /\ w >= n
        BY <2>1, PassesSteps
      <4> HIDE DEF n
      <4>2. 0 * w = 0
        BY <4>1
      <4>3. 1 <= j /\ j \in Int /\ k \in Int /\ k <= n
        <5>1. n \in Int
          BY <4>1
        <5> QED
          BY <5>1 DEF n
      <4> QED
        BY <4>1, <4>2, <4>3
    <3> QED
      BY <3>1 DEF RunsAscend
  <2>2. CASE w < Len(t) /\ passes[<<t, w>>] = passes[<<pass[<<t, w>>], 2 * w>>]
    <3> DEFINE u == pass[<<t, w>>]
    <3>1. u \in Lists /\ 2 * w \in Widths
      BY <2>2, NextRuns
    <3>2. AllAgree(u, R) /\ RunsAscend(u, 2 * w, R)
      BY PassAscends
    <3> HIDE DEF u
    <3>3. <<u, 2 * w>> \in Good
      BY <1>1, <2>2 DEF u
    <3> QED
      BY <1>0, <2>2, <3>1, <3>2, <3>3 DEF u
  <2> QED
    BY <2>1, <2>2, PassesSteps
<1>2. \A t \in Lists, w \in Widths : <<t, w>> \in Good
  BY <1>1, PassesInduction
<1> QED
  BY <1>0, <1>2

\* Sorting arrives at every order cmp_pcap_packet does not contradict.
LEMMA SortAscends ==
    ASSUME NEW R, Orders(R), NEW s \in Lists, AllAgree(s, R)
    PROVE  Ascends(SortPackets(s), R)
<1>1. 1 \in Widths
  BY DEF Widths
<1>2. RunsAscend(s, 1, R)
  <2> SUFFICES ASSUME NEW m \in Nat, NEW j \in 1..Len(s), NEW k \in 1..Len(s),
                      m * 1 < j, j < k, k <= m * 1 + 1
               PROVE  FALSE
    BY DEF RunsAscend
  <2>1. j \in Int /\ k \in Int
    BY Members
  <2>2. m * 1 = m
    OBVIOUS
  <2> QED
    BY <2>1, <2>2
<1> QED
  BY <1>1, <1>2, PassesAscend DEF SortPackets

-----------------------------------------------------------------------------
(* Where numbers fit in half the number space, SeqDiff is a difference.    *)

LEMMA HalfOfSpace == HalfSpace \in Nat \ {0} /\ SeqSpace = 2 * HalfSpace /\ SeqSpace \in Nat
BY SeqSpaceAssumption DEF HalfSpace

LEMMA DiffFromBase ==
    ASSUME NEW base \in SeqNumbers, NEW x \in SeqNumbers, NEW y \in SeqNumbers,
           SeqDiff(x, base) >= 0, SeqDiff(y, base) >= 0
    PROVE  /\ SeqDiff(x, base) \in Int /\ SeqDiff(y, base) \in Int
           /\ SeqDiff(x, y) = SeqDiff(x, base) - SeqDiff(y, base)
<1>1. /\ HalfSpace \in Nat \ {0} /\ SeqSpace = 2 * HalfSpace
      /\ base \in Int /\ x \in Int /\ y \in Int
      /\ 0 <= base /\ base < SeqSpace /\ 0 <= x /\ x < SeqSpace /\ 0 <= y /\ y < SeqSpace
  BY HalfOfSpace DEF SeqNumbers
<1>2. ASSUME NEW a \in Int, NEW b \in Int
      PROVE  /\ SeqDiff(a, b) \in Int
             /\ a - b >= HalfSpace => SeqDiff(a, b) = a - b - SeqSpace
             /\ a - b < 0 - HalfSpace => SeqDiff(a, b) = a - b + SeqSpace
             /\ ~(a - b >= HalfSpace) /\ ~(a - b < 0 - HalfSpace) => SeqDiff(a, b) = a - b
  <2>1. CASE a - b >= HalfSpace
    BY <1>1, <2>1 DEF SeqDiff
  <2>2. CASE a - b < 0 - HalfSpace
    BY <1>1, <2>2 DEF SeqDiff
  <2>3. CASE ~(a - b >= HalfSpace) /\ ~(a - b < 0 - HalfSpace)
    BY <1>1, <2>3 DEF SeqDiff
  <2> QED
    BY <2>1, <2>2, <2>3
<1> DEFINE dx == SeqDiff(x, base)
           dy == SeqDiff(y, base)
           d  == SeqDiff(x, y)
<1>3. /\ dx \in Int /\ dy \in Int /\ d \in Int
      /\ dx = x - base \/ dx = x - base + SeqSpace
      /\ dy = y - base \/ dy = y - base + SeqSpace
      /\ 0 <= dx /\ dx < HalfSpace /\ 0 <= dy /\ dy < HalfSpace
  <2>1. /\ dx \in Int /\ dy \in Int /\ d \in Int
    BY <1>1, <1>2
  <2>2. (dx = x - base \/ dx = x - base + SeqSpace) /\ 0 <= dx /\ dx < HalfSpace
    <3>1. /\ x - base >= HalfSpace => dx = x - base - SeqSpace
          /\ x - base < 0 - HalfSpace => dx = x - base + SeqSpace
          /\ ~(x - base >= HalfSpace) /\ ~(x - base < 0 - HalfSpace) => dx = x - base
          /\ dx >= 0
      BY <1>1, <1>2
    <3> HIDE DEF dx
    <3> QED
      BY <1>1, <2>1, <3>1
  <2>3. (dy = y - base \/ dy = y - base + SeqSpace) /\ 0 <= dy /\ dy < HalfSpace
    <3>1. /\ y - base >= HalfSpace => dy = y - base - SeqSpace
          /\ y - base < 0 - HalfSpace => dy = y - base + SeqSpace
          /\ ~(y - base >= HalfSpace) /\ ~(y - base < 0 - HalfSpace) => dy = y - base
          /\ dy >= 0
      BY <1>1, <1>2
    <3> HIDE DEF dy
    <3> QED
      BY <1>1, <2>1, <3>1
  <2> QED
    BY <2>1, <2>2, <2>3
<1>4. /\ x - y >= HalfSpace => d = x - y - SeqSpace
      /\ x - y < 0 - HalfSpace => d = x - y + SeqSpace
      /\ ~(x - y >= HalfSpace) /\ ~(x - y < 0 - HalfSpace) => d = x - y
  BY <1>1, <1>2
<1>5. d = dx - dy
  <2> HIDE DEF d, dx, dy
  <2> QED
    BY <1>1, <1>3, <1>4
<1> QED
  BY <1>3, <1>5

\* Differences of pairs, the first number counting first.
Differences(sx, sy, sz, ax, ay, az, xy, yx, yz, xz) ==
    /\ sx \in Int /\ sy \in Int /\ sz \in Int /\ ax \in Int /\ ay \in Int /\ az \in Int
    /\ sx # sy => xy = sx - sy /\ yx = sy - sx
    /\ sx = sy => xy = ax - ay /\ yx = ay - ax
    /\ sy # sz => yz = sy - sz
    /\ sy = sz => yz = ay - az
    /\ sx # sz => xz = sx - sz
    /\ sx = sz => xz = ax - az

LEMMA Lexicographic ==
    ASSUME NEW sx, NEW sy, NEW sz, NEW ax, NEW ay, NEW az,
           NEW xy, NEW yx, NEW yz, NEW xz,
           Differences(sx, sy, sz, ax, ay, az, xy, yx, yz, xz)
    PROVE  /\ xy \in Int /\ yz \in Int /\ xz \in Int /\ yx = 0 - xy
           /\ xy <= 0 /\ yz <= 0 => xz <= 0
           /\ xy < 0 /\ yz <= 0 => xz < 0
           /\ xy <= 0 /\ yz < 0 => xz < 0
<1> USE DEF Differences
<1>1. xy \in Int /\ yx = 0 - xy /\ yz \in Int /\ xz \in Int
  <2>1. xy \in Int /\ yx = 0 - xy
    <3>1. CASE sx = sy
      BY <3>1
    <3>2. CASE sx # sy
      BY <3>2
    <3> QED
      BY <3>1, <3>2
  <2>2. yz \in Int
    BY sy = sz \/ sy # sz
  <2>3. xz \in Int
    BY sx = sz \/ sx # sz
  <2> QED
    BY <2>1, <2>2, <2>3
<1>2. CASE sx = sy /\ sy = sz
  <2>1. xy = ax - ay /\ yz = ay - az /\ xz = ax - az
    BY <1>2
  <2> QED
    BY <1>1, <2>1
<1>3. CASE sx = sy /\ sy # sz
  <2>1. yz = sy - sz /\ xz = sy - sz
    BY <1>3
  <2> QED
    BY <1>1, <1>3, <2>1
<1>4. CASE sx # sy /\ sy = sz
  <2>1. xy = sx - sy /\ xz = sx - sy
    BY <1>4
  <2> QED
    BY <1>1, <1>4, <2>1
<1>5. CASE sx # sy /\ sy # sz
  <2>1. xy = sx - sy /\ yz = sy - sz
    BY <1>5
  <2>2. CASE sx = sz
    BY <1>1, <1>5, <2>1, <2>2
  <2>3. CASE sx # sz
    <3>1. xz = sx - sz
      BY <2>3
    <3> QED
      BY <1>1, <1>5, <2>1, <3>1
  <2> QED
    BY <2>2, <2>3
<1> QED
  BY <1>1, <1>2, <1>3, <1>4, <1>5

\* There cmp_pcap_packet is a total order, up to ties.
LEMMA CompareOrders ==
    ASSUME NEW s \in Lists, InWindow(s),
           NEW x \in ToSet(s), NEW y \in ToSet(s), NEW z \in ToSet(s)
    PROVE  /\ Compare(x, y) \in Int /\ Compare(y, z) \in Int /\ Compare(x, z) \in Int
           /\ Compare(y, x) = 0 - Compare(x, y)
           /\ Compare(x, y) <= 0 /\ Compare(y, z) <= 0 => Compare(x, z) <= 0
           /\ Compare(x, y) < 0 /\ Compare(y, z) <= 0 => Compare(x, z) < 0
           /\ Compare(x, y) <= 0 /\ Compare(y, z) < 0 => Compare(x, z) < 0
<1>1. PICK e \in 1..Len(s) : s[e] = x
  BY Members
<1>2. s # <<>>
  BY <1>1 DEF Lists
<1>3. ToSet(s) \subseteq Packet /\ \A v \in ToSet(s) : \E j \in DOMAIN s : s[j] = v
  BY Members
<1>4. \A v \in ToSet(s) : v.seq \in SeqNumbers /\ v.ack \in SeqNumbers
  BY <1>3 DEF Packet
<1>5. PICK bs \in SeqNumbers : \A v \in ToSet(s) : SeqDiff(v.seq, bs) >= 0
  <2>1. PICK b \in {s[j].seq : j \in DOMAIN s} :
           \A v \in {s[j].seq : j \in DOMAIN s} : SeqDiff(v, b) >= 0
    BY <1>2 DEF InWindow, InHalf
  <2>2. b \in SeqNumbers
    BY <1>4, Members
  <2>3. \A v \in ToSet(s) : v.seq \in {s[j].seq : j \in DOMAIN s}
    BY <1>3
  <2> QED
    BY <2>1, <2>2, <2>3
<1>6. PICK ba \in SeqNumbers : \A v \in ToSet(s) : SeqDiff(v.ack, ba) >= 0
  <2>1. PICK b \in {s[j].ack : j \in DOMAIN s} :
           \A v \in {s[j].ack : j \in DOMAIN s} : SeqDiff(v, b) >= 0
    BY <1>2 DEF InWindow, InHalf
  <2>2. b \in SeqNumbers
    BY <1>4, Members
  <2>3. \A v \in ToSet(s) : v.ack \in {s[j].ack : j \in DOMAIN s}
    BY <1>3
  <2> QED
    BY <2>1, <2>2, <2>3
<1> DEFINE sq(v) == SeqDiff(v.seq, bs)
           ac(v) == SeqDiff(v.ack, ba)
<1>7. ASSUME NEW u \in ToSet(s), NEW v \in ToSet(s)
      PROVE  /\ sq(u) \in Int /\ ac(u) \in Int
             /\ SeqDiff(u.seq, v.seq) = sq(u) - sq(v)
             /\ SeqDiff(u.ack, v.ack) = ac(u) - ac(v)
  BY <1>4, <1>5, <1>6, DiffFromBase
<1> HIDE DEF sq, ac
<1>8. ASSUME NEW u \in ToSet(s), NEW v \in ToSet(s)
      PROVE  /\ sq(u) # sq(v) => Compare(u, v) = sq(u) - sq(v)
             /\ sq(u) = sq(v) => Compare(u, v) = ac(u) - ac(v)
  <2>1. sq(u) \in Int /\ sq(v) \in Int
    BY <1>7
  <2>2. CASE sq(u) # sq(v)
    <3>1. sq(u) - sq(v) # 0
      BY <2>1, <2>2
    <3> QED
      BY <1>7, <2>2, <3>1 DEF Compare
  <2>3. CASE sq(u) = sq(v)
    <3>1. sq(u) - sq(v) = 0
      BY <2>1, <2>3
    <3> QED
      BY <1>7, <2>3, <3>1 DEF Compare
  <2> QED
    BY <2>2, <2>3
<1>9. /\ sq(x) \in Int /\ sq(y) \in Int /\ sq(z) \in Int
      /\ ac(x) \in Int /\ ac(y) \in Int /\ ac(z) \in Int
  BY <1>7
<1> DEFINE xy == Compare(x, y)
           yx == Compare(y, x)
           yz == Compare(y, z)
           xz == Compare(x, z)
<1>10. /\ sq(x) # sq(y) => xy = sq(x) - sq(y) /\ yx = sq(y) - sq(x)
       /\ sq(x) = sq(y) => xy = ac(x) - ac(y) /\ yx = ac(y) - ac(x)
       /\ sq(y) # sq(z) => yz = sq(y) - sq(z)
       /\ sq(y) = sq(z) => yz = ac(y) - ac(z)
       /\ sq(x) # sq(z) => xz = sq(x) - sq(z)
       /\ sq(x) = sq(z) => xz = ac(x) - ac(z)
  BY <1>8
<1> HIDE DEF xy, yx, yz, xz
<1>11. /\ xy \in Int /\ yz \in Int /\ xz \in Int /\ yx = 0 - xy
       /\ xy <= 0 /\ yz <= 0 => xz <= 0
       /\ xy < 0 /\ yz <= 0 => xz < 0
       /\ xy <= 0 /\ yz < 0 => xz < 0
  <2>1. Differences(sq(x), sq(y), sq(z), ac(x), ac(y), ac(z), xy, yx, yz, xz)
    BY <1>9, <1>10 DEF Differences
  <2> QED
    BY <2>1, Lexicographic
<1> QED
  BY <1>11 DEF xy, yx, yz, xz

\* A chain whose sequence and acknowledgement numbers each fit in half the
\* number space comes out of sort_pcap_packets in TCP's order.
THEOREM SortPutsInOrder ==
    \A s \in Seq(Packet) : InWindow(s) => InOrder(SortPackets(s))
<1> SUFFICES ASSUME NEW s \in Lists, InWindow(s) PROVE InOrder(SortPackets(s))
  BY DEF Lists
<1> DEFINE R == {xy \in ToSet(s) \X ToSet(s) : Compare(xy[1], xy[2]) <= 0}
           t == SortPackets(s)
<1>1. \A x, y : <<x, y>> \in R <=> x \in ToSet(s) /\ y \in ToSet(s) /\ Compare(x, y) <= 0
  OBVIOUS
<1> HIDE DEF R
<1>2. Orders(R)
  BY <1>1, CompareOrders DEF Orders
<1>3. AllAgree(s, R)
  <2> SUFFICES ASSUME NEW x \in ToSet(s), NEW y \in ToSet(s) PROVE Agrees(x, y, R)
    BY Members DEF AllAgree
  <2>1. Compare(x, y) \in Int /\ Compare(y, x) = 0 - Compare(x, y)
    BY CompareOrders
  <2>2. ~(Compare(x, y) <= 0) => Compare(y, x) <= 0
    BY <2>1
  <2> QED
    BY <1>1, <2>2 DEF Agrees
<1>4. Ascends(t, R) /\ t \in Lists
  BY <1>2, <1>3, SortAscends, SortKeepsPackets DEF SamePackets, Lists
<1> HIDE DEF t
<1>5. InOrder(t)
  <2>1. DOMAIN t = 1..Len(t)
    BY <1>4, Members
  <2> QED
    BY <1>1, <1>4, <2>1 DEF InOrder, Ascends
<1> QED
  BY <1>5 DEF t

-----------------------------------------------------------------------------
(* Packets that tie.                                                       *)

\* No packet stands twice in the list.
Distinct(s) == \A j, k \in 1..Len(s) : s[j] = s[k] => j = k

\* x stands before y in the list.
Stands(s, x, y) == \E j, k \in 1..Len(s) : j < k /\ s[j] = x /\ s[k] = y

\* The sort is stable: packets that cmp_pcap_packet cannot tell apart keep
\* the order they had, wherever they end up.
THEOREM SortIsStable ==
    ASSUME NEW s \in Seq(Packet), InWindow(s), Distinct(s),
           NEW j \in 1..Len(s), NEW k \in 1..Len(s), j < k, Compare(s[j], s[k]) = 0
    PROVE  \A a, b \in 1..Len(SortPackets(s)) :
              SortPackets(s)[a] = s[j] /\ SortPackets(s)[b] = s[k] => a < b
<1>0. s \in Lists
  BY DEF Lists
<1> DEFINE Put(x, y) == \/ Compare(x, y) < 0
                        \/ Compare(x, y) = 0 /\ Stands(s, x, y)
           R == {xy \in ToSet(s) \X ToSet(s) : Put(xy[1], xy[2])}
           t == SortPackets(s)
<1>1. \A x, y : <<x, y>> \in R <=> x \in ToSet(s) /\ y \in ToSet(s) /\ Put(x, y)
  <2> HIDE DEF Put
  <2> QED
    OBVIOUS
<1> HIDE DEF R
<1>2. ASSUME NEW x, NEW y, NEW z, Stands(s, x, y), Stands(s, y, z) PROVE Stands(s, x, z)
  <2>1. PICK a \in 1..Len(s) : \E b \in 1..Len(s) : a < b /\ s[a] = x /\ s[b] = y
    BY <1>2 DEF Stands
  <2>2. PICK b \in 1..Len(s) : a < b /\ s[a] = x /\ s[b] = y
    BY <2>1
  <2>3. PICK c \in 1..Len(s) : \E d \in 1..Len(s) : c < d /\ s[c] = y /\ s[d] = z
    BY <1>2 DEF Stands
  <2>4. PICK d \in 1..Len(s) : c < d /\ s[c] = y /\ s[d] = z
    BY <2>3
  <2>5. b = c
    BY <2>2, <2>4 DEF Distinct
  <2>6. a < d
    <3>1. a \in Int /\ b \in Int /\ d \in Int
      BY <1>0, Members
    <3> QED
      BY <2>2, <2>4, <2>5, <3>1
  <2> QED
    BY <2>2, <2>4, <2>6 DEF Stands
<1>3. Orders(R)
  <2>1. ASSUME NEW x, NEW y, NEW z, <<x, y>> \in R, <<y, z>> \in R PROVE <<x, z>> \in R
    <3>1. /\ x \in ToSet(s) /\ y \in ToSet(s) /\ z \in ToSet(s) /\ Put(x, y) /\ Put(y, z)
      BY <1>1, <2>1
    <3>2. Put(x, z)
      <4> DEFINE xy == Compare(x, y)
                 yz == Compare(y, z)
                 xz == Compare(x, z)
      <4>1. /\ xy \in Int /\ yz \in Int /\ xz \in Int
            /\ xy <= 0 /\ yz <= 0 => xz <= 0
            /\ xy < 0 /\ yz <= 0 => xz < 0
            /\ xy <= 0 /\ yz < 0 => xz < 0
        BY <1>0, <3>1, CompareOrders
      <4> HIDE DEF xy, yz, xz
      <4>2. /\ xy < 0 \/ (xy = 0 /\ Stands(s, x, y))
            /\ yz < 0 \/ (yz = 0 /\ Stands(s, y, z))
        BY <3>1 DEF xy, yz
      <4>3. xz < 0 \/ (xz = 0 /\ Stands(s, x, z))
        BY <1>2, <4>1, <4>2
      <4> QED
        BY <4>3 DEF xz
    <3> HIDE DEF Put
    <3> QED
      BY <1>1, <3>1, <3>2
  <2>2. ASSUME NEW x, NEW y, <<x, y>> \in R PROVE Compare(x, y) <= 0
    <3>1. Put(x, y) /\ Compare(x, y) \in Int
      BY <1>0, <1>1, <2>2, CompareOrders
    <3> QED
      BY <3>1
  <2> QED
    BY <2>1, <2>2 DEF Orders
<1>4. AllAgree(s, R)
  <2> SUFFICES ASSUME NEW a \in 1..Len(s), NEW b \in 1..Len(s), a < b
               PROVE  Agrees(s[a], s[b], R)
    BY DEF AllAgree
  <2>1. s[a] \in ToSet(s) /\ s[b] \in ToSet(s)
    BY <1>0, Members
  <2>2. Compare(s[a], s[b]) \in Int /\ Compare(s[b], s[a]) = 0 - Compare(s[a], s[b])
    BY <1>0, <2>1, CompareOrders
  <2>3. Stands(s, s[a], s[b])
    BY DEF Stands
  <2>4. Compare(s[a], s[b]) <= 0 => Put(s[a], s[b])
    BY <2>2, <2>3
  <2>5. ~(Compare(s[a], s[b]) <= 0) => Put(s[b], s[a])
    BY <2>2
  <2> HIDE DEF Put
  <2> QED
    BY <1>1, <2>1, <2>4, <2>5 DEF Agrees
<1>5. Ascends(t, R) /\ t \in Lists
  BY <1>0, <1>3, <1>4, SortAscends, SortKeepsPackets DEF SamePackets, Lists
<1> HIDE DEF t
<1> SUFFICES ASSUME NEW a \in 1..Len(t), NEW b \in 1..Len(t), t[a] = s[j], t[b] = s[k]
             PROVE  a < b
  BY DEF t
<1>6. a \in Int /\ b \in Int /\ j \in Int /\ k \in Int
  BY <1>0, <1>5, Members
<1>7. a # b
  <2>1. s[j] # s[k]
    BY <1>6 DEF Distinct
  <2> QED
    BY <2>1
<1>8. ~(b < a)
  <2> SUFFICES ASSUME b < a PROVE FALSE
    OBVIOUS
  <2>1. <<s[k], s[j]>> \in R
    BY <1>5 DEF Ascends
  <2>2. Compare(s[k], s[j]) = 0
    <3>1. Compare(s[k], s[j]) = 0 - Compare(s[j], s[k])
      BY <1>0, Members, CompareOrders
    <3> QED
      BY <3>1
  <2>3. Stands(s, s[k], s[j])
    BY <1>1, <2>1, <2>2
  <2>4. PICK c \in 1..Len(s) : \E d \in 1..Len(s) : c < d /\ s[c] = s[k] /\ s[d] = s[j]
    BY <2>3 DEF Stands
  <2>5. PICK d \in 1..Len(s) : c < d /\ s[c] = s[k] /\ s[d] = s[j]
    BY <2>4
  <2>6. c = k /\ d = j
    BY <2>5 DEF Distinct
  <2> QED
    BY <1>6, <2>5, <2>6
<1> QED
  BY <1>6, <1>7, <1>8

\* A list has as many places as packets just if no packet stands twice.
LEMMA PlacesAndPackets ==
    ASSUME NEW t \in Lists
    PROVE  /\ IsFiniteSet(ToSet(t)) /\ Cardinality(ToSet(t)) <= Len(t)
           /\ Distinct(t) <=> Cardinality(ToSet(t)) = Len(t)
<1> DEFINE n == Len(t)
           S == 1..n
           T == ToSet(t)
           f == [j \in S |-> t[j]]
<1>1. n \in Nat
  BY Members
<1>2. IsFiniteSet(S) /\ Cardinality(S) = n
  <2> HIDE DEF n
  <2>1. IsFiniteSet(1..n) /\ Cardinality(1..n) = IF 1 > n THEN 0 ELSE n - 1 + 1
    BY <1>1, FS_Interval
  <2> QED
    BY <1>1, <2>1
<1>3. f \in [S -> T] /\ \A e \in T : \E j \in S : f[j] = e
  BY Members
<1>4. f \in Surjection(S, T)
  <2> HIDE DEF f, S, T
  <2> QED
    BY <1>3 DEF Surjection
<1>5. /\ IsFiniteSet(T) /\ Cardinality(T) <= Cardinality(S)
      /\ Cardinality(T) = Cardinality(S) <=> f \in Injection(S, T)
  <2> HIDE DEF f, S, T
  <2> QED
    BY <1>2, <1>4, FS_Surjection
<1>6. f \in Injection(S, T) <=> \A j, k \in S : f[j] = f[k] => j = k
  <2> HIDE DEF f, S, T
  <2> QED
    BY <1>3 DEF Injection, IsInjective
<1>7. (\A j, k \in S : f[j] = f[k] => j = k) <=> Distinct(t)
  BY DEF Distinct
<1> HIDE DEF f, S, T
<1> QED
  BY <1>2, <1>5, <1>6, <1>7 DEF T

LEMMA DistinctKept ==
    ASSUME NEW t \in Lists, NEW u, SamePackets(t, u), Distinct(t)
    PROVE  Distinct(u)
<1>1. u \in Lists /\ Len(u) = Len(t) /\ ToSet(u) = ToSet(t)
  BY DEF SamePackets
<1>2. Cardinality(ToSet(t)) = Len(t)
  BY PlacesAndPackets
<1> QED
  BY <1>1, <1>2, PlacesAndPackets

-----------------------------------------------------------------------------
(* Measures of what is left to do: a rest of a's worth k each, and r.      *)

LEMMA ProductGrows ==
    ASSUME NEW a \in Nat, NEW b \in Nat, NEW k \in Nat, a < b
    PROVE  a * k \in Nat /\ b * k \in Nat /\ a * k + k <= b * k
<1> DEFINE d == b - a - 1
<1>1. d \in Nat /\ b = (a + 1) + d
  OBVIOUS
<1> HIDE DEF d
<1>2. b * k = (a * k + k) + d * k
  BY <1>1
<1>3. d * k \in Nat /\ a * k \in Nat
  BY <1>1
<1> QED
  BY <1>2, <1>3

LEMMA FurtherOn ==
    ASSUME NEW a \in Nat, NEW b \in Nat, NEW k \in Nat, NEW r \in Nat, NEW s \in Nat,
           a < b, r < k
    PROVE  a * k + r < b * k + s
<1> DEFINE x == a * k
           y == b * k
<1>1. x \in Nat /\ y \in Nat /\ x + k <= y
  BY ProductGrows
<1> HIDE DEF x, y
<1>2. x + r < y + s
  BY <1>1
<1> QED
  BY <1>2 DEF x, y
=============================================================================
