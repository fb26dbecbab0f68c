------------------------- MODULE AddressText_proofs -------------------------
(***************************************************************************)
(* Proofs about AddressText for all words, bytes and ports.                *)
(***************************************************************************)
EXTENDS AddressText, FiniteSetTheorems, SequenceTheorems, TLAPS

-----------------------------------------------------------------------------
(* The scan for the longest run of zero words.                             *)

AddrType == /\ addr \in [0..3 -> Bytes] \cup [0..7 -> Words]
            /\ pc \in {"v4", "scan", "format", "text", "null", "key"}
            /\ pc = "v4" => addr \in [0..3 -> Bytes]
            /\ pc \in {"scan", "format"} => addr \in [0..7 -> Words]

ScanType == /\ i \in 0..8
            /\ cur \in [base : (0 - 1)..7, len : 0..8]
            /\ best \in [base : (0 - 1)..7, len : 0..8]

\* All runs of zero words that end before word i, long or short.
ZeroRuns == {r \in [base : 0..7, len : 1..8] :
                /\ r.base + r.len <= i
                /\ \A k \in r.base..(r.base + r.len - 1) : addr[k] = 0}

\* The current run ends here, and begins after a word that is not zero.
CurrentRun == IF cur.base >= 0
              THEN /\ cur \in ZeroRuns /\ cur.base + cur.len = i
                   /\ cur.base > 0 => addr[cur.base - 1] # 0
                   /\ best.base < cur.base
              ELSE i > 0 => addr[i - 1] # 0

\* Every run before the current one has been weighed against the best.
BestSoFar == /\ IF best.base >= 0 THEN best \in ZeroRuns ELSE best.len = 0
             /\ \A r \in ZeroRuns :
                   \/ cur.base >= 0 /\ r.base >= cur.base
                   \/ /\ best.base >= 0
                      /\ r.len < best.len \/ (r.len = best.len /\ r.base >= best.base)

ScanInv == pc = "scan" => ScanType /\ CurrentRun /\ BestSoFar

\* What ScanEnd leaves.
Shortened == IF best.base >= 0
             THEN /\ best \in [base : 0..7, len : 2..8] /\ best.base + best.len <= 8
                  /\ \A k \in best.base..(best.base + best.len - 1) : addr[k] = 0
             ELSE best.len \in {0, 1}

LongestInv == AddrType /\ ScanInv /\ BestIsLongest
              /\ (pc = "format" => i \in 0..8 /\ best \in [base : (0 - 1)..7, len : 0..8] /\ Shortened)

LEMMA InitLongest == Init => LongestInv
<1> SUFFICES ASSUME Init PROVE LongestInv
  OBVIOUS
<1> USE DEF Init
<1>1. AddrType
  <2>1. CASE addr \in [0..3 -> Bytes]
    BY <2>1 DEF AddrType, IsIPv4
  <2>2. CASE addr \in [0..7 -> Words]
    <3>1. DOMAIN addr = 0..7 /\ 7 \in 0..7 /\ 7 \notin 0..3
      BY <2>2
    <3> QED
      BY <2>2, <3>1 DEF AddrType, IsIPv4
  <2> QED
    BY <2>1, <2>2
<1>2. ScanInv
  BY DEF ScanInv, ScanType, CurrentRun, BestSoFar, NoRun, ZeroRuns
<1>3. pc # "format"
  OBVIOUS
<1> QED
  BY <1>1, <1>2, <1>3 DEF LongestInv, BestIsLongest

LEMMA ScanZeroKeeps == ASSUME LongestInv, ScanZero PROVE LongestInv'
<1> USE DEF ScanZero
<1>1. pc = "scan" /\ pc' = "scan" /\ addr' = addr /\ best' = best /\ i' = i + 1 /\ addr \in [0..7 -> Words]
  BY DEF LongestInv, AddrType
<1>2. ScanType /\ CurrentRun /\ BestSoFar /\ i \in 0..7 /\ addr[i] = 0
  BY <1>1 DEF LongestInv, ScanInv, ScanType
<1>3. AddrType'
  BY <1>1 DEF LongestInv, AddrType
<1>4. /\ cur' \in [base : 0..7, len : 1..8] /\ cur'.base + cur'.len = i'
      /\ cur'.base = IF cur.base < 0 THEN i ELSE cur.base
  <2>1. CASE cur.base < 0
    BY <2>1, <1>2, <1>1
  <2>2. CASE cur.base >= 0
    BY <2>2, <1>2, <1>1 DEF CurrentRun, ScanType, ZeroRuns
  <2> QED
    BY <2>1, <2>2, <1>2 DEF ScanType
<1>5. ScanType'
  BY <1>1, <1>2, <1>4 DEF ScanType
<1>6. \A k \in cur'.base..i : addr[k] = 0
  BY <1>2, <1>4 DEF CurrentRun, ScanType, ZeroRuns
<1>7. cur' \in ZeroRuns'
  BY <1>1, <1>4, <1>6, <1>2 DEF ZeroRuns
<1>8. ZeroRuns \subseteq ZeroRuns'
  BY <1>1, <1>2 DEF ZeroRuns
<1>9. CurrentRun'
  BY <1>1, <1>2, <1>4, <1>7, <1>8 DEF CurrentRun, BestSoFar, ScanType, ZeroRuns
<1>10. ASSUME NEW r \in ZeroRuns', r.base < cur'.base PROVE r \in ZeroRuns
  <2>1. r.base + r.len # i + 1
    <3>1. SUFFICES ASSUME r.base + r.len = i + 1 PROVE FALSE
      OBVIOUS
    <3>2. r.base \in 0..7 /\ r.len \in 1..8 /\ \A k \in r.base..(r.base + r.len - 1) : addr[k] = 0
      BY <1>1 DEF ZeroRuns
    <3>3. cur'.base - 1 \in r.base..(r.base + r.len - 1)
      BY <3>1, <3>2, <1>4, <1>10, <1>2
    <3>4. addr[cur'.base - 1] # 0
      BY <1>2, <1>4, <1>10, <3>2 DEF CurrentRun, ScanType
    <3> QED
      BY <3>2, <3>3, <3>4
  <2> QED
    BY <2>1, <1>1, <1>2 DEF ZeroRuns
<1>11. BestSoFar'
  <2>1. IF best'.base >= 0 THEN best' \in ZeroRuns' ELSE best'.len = 0
    BY <1>1, <1>2, <1>8 DEF BestSoFar
  <2>2. ASSUME NEW r \in ZeroRuns', r.base < cur'.base
        PROVE  /\ best'.base >= 0
               /\ r.len < best'.len \/ (r.len = best'.len /\ r.base >= best'.base)
    <3>1. r \in ZeroRuns
      BY <1>10, <2>2
    <3>2. ~(cur.base >= 0 /\ r.base >= cur.base)
      BY <2>2, <1>4, <3>1, <1>2 DEF ZeroRuns, ScanType
    <3> QED
      BY <3>1, <3>2, <1>1, <1>2 DEF BestSoFar
  <2>3. \A r \in ZeroRuns' : r.base < cur'.base \/ (cur'.base >= 0 /\ r.base >= cur'.base)
    BY <1>4 DEF ZeroRuns
  <2> QED
    BY <2>1, <2>2, <2>3 DEF BestSoFar
<1> QED
  BY <1>1, <1>3, <1>5, <1>9, <1>11 DEF LongestInv, ScanInv, BestIsLongest

\* The best run once the current one has ended is the best of all so far.
LEMMA LongerIsBest ==
    ASSUME ScanType, CurrentRun, BestSoFar
    PROVE  /\ Longer \in [base : (0 - 1)..7, len : 0..8]
           /\ IF Longer.base >= 0 THEN Longer \in ZeroRuns ELSE Longer.len = 0
           /\ \A r \in ZeroRuns :
                 /\ Longer.base >= 0
                 /\ r.len < Longer.len \/ (r.len = Longer.len /\ r.base >= Longer.base)
<1>1. CASE cur.base >= 0 /\ (best.base < 0 \/ cur.len > best.len)
  <2>1. Longer = cur /\ cur \in ZeroRuns
    BY <1>1 DEF Longer, CurrentRun
  <2>2. ASSUME NEW r \in ZeroRuns
        PROVE r.len < cur.len \/ (r.len = cur.len /\ r.base >= cur.base)
    BY <1>1, <2>1 DEF CurrentRun, BestSoFar, ZeroRuns, ScanType
  <2> QED
    BY <1>1, <2>1, <2>2 DEF ScanType
<1>2. CASE ~(cur.base >= 0 /\ (best.base < 0 \/ cur.len > best.len))
  <2>1. Longer = best
    BY <1>2 DEF Longer
  <2>2. ASSUME NEW r \in ZeroRuns
        PROVE /\ best.base >= 0
              /\ r.len < best.len \/ (r.len = best.len /\ r.base >= best.base)
    BY <1>2, <2>1 DEF CurrentRun, BestSoFar, ZeroRuns, ScanType
  <2> QED
    BY <2>1, <2>2 DEF BestSoFar, ScanType
<1> QED
  BY <1>1, <1>2

LEMMA ScanWordKeeps == ASSUME LongestInv, ScanWord PROVE LongestInv'
<1> USE DEF ScanWord
<1>1. pc = "scan" /\ pc' = "scan" /\ addr' = addr /\ best' = Longer /\ i' = i + 1 /\ addr \in [0..7 -> Words]
  BY DEF LongestInv, AddrType
<1>2. ScanType /\ CurrentRun /\ BestSoFar /\ i \in 0..7 /\ addr[i] # 0
  BY <1>1 DEF LongestInv, ScanInv, ScanType
<1>3. AddrType'
  BY <1>1 DEF LongestInv, AddrType
<1>4. cur' \in [base : (0 - 1)..7, len : 0..8] /\ cur'.base = 0 - 1
  BY <1>2 DEF ScanType, NoRun
<1>5. ScanType' /\ CurrentRun'
  BY <1>1, <1>2, <1>4, LongerIsBest DEF ScanType, CurrentRun
<1>6. ZeroRuns' = ZeroRuns
  <2>1. ASSUME NEW r \in ZeroRuns' PROVE r \in ZeroRuns
    <3>1. r.base \in 0..7 /\ r.len \in 1..8 /\ \A k \in r.base..(r.base + r.len - 1) : addr[k] = 0
      BY <1>1 DEF ZeroRuns
    <3>2. i \notin r.base..(r.base + r.len - 1)
      BY <3>1, <1>2
    <3> QED
      BY <3>1, <3>2, <1>1, <1>2 DEF ZeroRuns
  <2>2. ZeroRuns \subseteq ZeroRuns'
    BY <1>1, <1>2 DEF ZeroRuns
  <2> QED
    BY <2>1, <2>2
<1>7. BestSoFar'
  BY <1>1, <1>2, <1>6, LongerIsBest DEF BestSoFar
<1> QED
  BY <1>1, <1>3, <1>5, <1>7 DEF LongestInv, ScanInv, BestIsLongest

LEMMA ScanEndKeeps == ASSUME LongestInv, ScanEnd PROVE LongestInv'
<1> USE DEF ScanEnd
<1>1. pc = "scan" /\ pc' = "format" /\ addr' = addr /\ i = 8 /\ i' = 0 /\ addr \in [0..7 -> Words]
  BY DEF LongestInv, AddrType
<1>2. ScanType /\ CurrentRun /\ BestSoFar
  BY <1>1 DEF LongestInv, ScanInv
<1>3. AddrType'
  BY <1>1 DEF LongestInv, AddrType
<1> DEFINE Runs == {r \in [base : 0..7, len : 2..8] :
                        /\ r.base + r.len <= 8
                        /\ \A k \in r.base..(r.base + r.len - 1) : addr[k] = 0}
<1>4. Runs \subseteq ZeroRuns
  BY <1>1 DEF ZeroRuns
<1>5. CASE Longer.len < 2
  <2>1. best' = [Longer EXCEPT !.base = 0 - 1]
    BY <1>5 DEF NoRun
  <2>2. best'.base = 0 - 1 /\ best'.len \in {0, 1} /\ best' \in [base : (0 - 1)..7, len : 0..8]
    BY <2>1, <1>5, <1>2, LongerIsBest
  <2>3. \A r \in Runs : FALSE
    BY <1>2, <1>4, <1>5, LongerIsBest DEF ZeroRuns
  <2> QED
    BY <1>1, <1>3, <2>2, <2>3 DEF LongestInv, ScanInv, BestIsLongest, Shortened
<1>6. CASE Longer.len >= 2
  <2>1. best' = Longer
    BY <1>6, <1>2, LongerIsBest
  <2>2. best' \in Runs /\ best' \in [base : (0 - 1)..7, len : 0..8]
    BY <2>1, <1>1, <1>6, <1>2, LongerIsBest DEF ZeroRuns
  <2>3. \A r \in Runs : r.len < best'.len \/ (r.len = best'.len /\ r.base >= best'.base)
    BY <2>1, <1>2, <1>4, LongerIsBest
  <2> QED
    BY <1>1, <1>3, <2>2, <2>3 DEF LongestInv, ScanInv, BestIsLongest, Shortened
<1> QED
  BY <1>5, <1>6, <1>2, LongerIsBest

\* Writing leaves the address and the best run alone.
LEMMA WritingKeeps ==
    ASSUME LongestInv, FormatIPv4 \/ WriteRun \/ WriteWord \/ WriteIPv4 \/ FormatEnd \/ MakeKey
    PROVE  LongestInv'
<1> USE DEF FormatIPv4, WriteRun, WriteWord, WriteIPv4, Formatting, FormatEnd, MakeKey
<1>1. addr' = addr /\ best' = best /\ pc' # "scan" /\ pc' # "v4"
      /\ pc' \in {"format", "text", "null", "key"} /\ (pc' = "format" => pc = "format")
      /\ (pc = "format" /\ pc' = "format" => i' = 8 \/ (i' = i + 1 /\ i < 8))
  OBVIOUS
<1>2. AddrType'
  BY <1>1 DEF LongestInv, AddrType
<1>3. ScanInv'
  BY <1>1 DEF ScanInv
<1>4. BestIsLongest'
  BY <1>1 DEF BestIsLongest, LongestInv
<1>5. pc' = "format" => i' \in 0..8 /\ best' \in [base : (0 - 1)..7, len : 0..8] /\ Shortened'
  BY <1>1 DEF LongestInv, Shortened
<1> QED
  BY <1>2, <1>3, <1>4, <1>5 DEF LongestInv

LEMMA StepLongest == LongestInv /\ [Next]_vars => LongestInv'
<1> SUFFICES ASSUME LongestInv, [Next]_vars PROVE LongestInv'
  OBVIOUS
<1>1. CASE UNCHANGED vars
  BY <1>1 DEF vars, LongestInv, AddrType, ScanInv, BestIsLongest, Shortened,
              ScanType, CurrentRun, BestSoFar, ZeroRuns
<1>2. CASE Next
  BY <1>2, ScanZeroKeeps, ScanWordKeeps, ScanEndKeeps, WritingKeeps DEF Next
<1> QED
  BY <1>1, <1>2

LEMMA LongestAlways == Spec => []LongestInv
BY InitLongest, StepLongest, PTL DEF Spec

\* For every address: the run that is shortened to "::" is the longest, and the
\* first of the longest, of its runs of two zero words or more (inet_ntop_v6).
THEOREM LongestRunShortened == Spec => []BestIsLongest
<1>1. LongestInv => BestIsLongest
  BY DEF LongestInv
<1> QED
  BY <1>1, LongestAlways, PTL

-----------------------------------------------------------------------------
(* The characters of a text.                                               *)

Cells(s) == {c \in (DOMAIN s) \X (0..4) : c[2] = 0 \/ s[c[1]] >= Places[c[2]]}

LEMMA CharsFinite ==
    ASSUME NEW S, NEW s \in Seq(S)
    PROVE  IsFiniteSet(Cells(s)) /\ Chars(s) = Cardinality(Cells(s)) /\ Chars(s) \in Nat
<1>1. IsFiniteSet(DOMAIN s) /\ IsFiniteSet(0..4)
  <2>1. DOMAIN s = 1..Len(s) /\ Len(s) \in Nat
    BY LenProperties
  <2> QED
    BY <2>1, FS_Interval, 0 \in Int, 1 \in Int, 4 \in Int, Len(s) \in Int
<1>2. IsFiniteSet((DOMAIN s) \X (0..4)) /\ Cells(s) \in SUBSET ((DOMAIN s) \X (0..4))
  BY <1>1, FS_Product DEF Cells
<1>3. IsFiniteSet(Cells(s))
  BY <1>2, FS_Subset
<1> QED
  BY <1>3, FS_CardinalityType DEF Chars, Cells

\* A bound on the characters of a text from a set its characters are in.
LEMMA CharsAtMost ==
    ASSUME NEW S, NEW s \in Seq(S), NEW T, IsFiniteSet(T), Cells(s) \subseteq T
    PROVE  Chars(s) <= Cardinality(T)
BY CharsFinite, FS_Subset

LEMMA CharsConcat ==
    ASSUME NEW S, NEW s \in Seq(S), NEW t \in Seq(S)
    PROVE  Chars(s \o t) = Chars(s) + Chars(t)
<1> DEFINE m == Len(s)
           n == Len(t)
           u == s \o t
<1>1. m \in Nat /\ n \in Nat /\ DOMAIN s = 1..m /\ DOMAIN t = 1..n
  BY LenProperties
<1>2. u \in Seq(S) /\ Len(u) = m + n /\ DOMAIN u = 1..(m + n)
      /\ \A k \in 1..(m + n) : u[k] = IF k <= m THEN s[k] ELSE t[k - m]
  BY ConcatProperties, LenProperties
<1> DEFINE Late == {c \in Cells(u) : c[1] > m}
           F == [c \in Cells(t) |-> <<m + c[1], c[2]>>]
<1> HIDE DEF m, n, u
<1>3. Cells(u) = Cells(s) \cup Late /\ Cells(s) \cap Late = {}
  <2>1. ASSUME NEW c \in Cells(s) PROVE c \in Cells(u) /\ c \notin Late
    <3>1. c \in (1..m) \X (0..4) /\ (c[2] = 0 \/ s[c[1]] >= Places[c[2]])
      BY <1>1 DEF Cells
    <3>2. c \in (1..(m + n)) \X (0..4) /\ u[c[1]] = s[c[1]] /\ ~(c[1] > m)
      BY <3>1, <1>1, <1>2
    <3> QED
      BY <3>1, <3>2, <1>2 DEF Cells
  <2>2. ASSUME NEW c \in Cells(u), ~(c[1] > m) PROVE c \in Cells(s)
    <3>1. c \in (1..(m + n)) \X (0..4) /\ (c[2] = 0 \/ u[c[1]] >= Places[c[2]])
      BY <1>2 DEF Cells
    <3>2. c \in (1..m) \X (0..4) /\ u[c[1]] = s[c[1]]
      BY <3>1, <1>1, <1>2, <2>2
    <3> QED
      BY <3>1, <3>2, <1>1 DEF Cells
  <2> QED
    BY <2>1, <2>2
<1>4. F \in Bijection(Cells(t), Late)
  <2>1. ASSUME NEW c \in Cells(t) PROVE F[c] \in Late
    <3>1. c \in (1..n) \X (0..4) /\ (c[2] = 0 \/ t[c[1]] >= Places[c[2]])
      BY <1>1 DEF Cells
    <3>2. m + c[1] \in 1..(m + n) /\ m + c[1] > m /\ u[m + c[1]] = t[c[1]]
      BY <3>1, <1>1, <1>2
    <3> QED
      BY <3>1, <3>2, <1>2 DEF Cells
  <2>2. ASSUME NEW c \in Cells(t), NEW d \in Cells(t), F[c] = F[d] PROVE c = d
    <3>1. c \in (1..n) \X (0..4) /\ d \in (1..n) \X (0..4)
      BY <1>1 DEF Cells
    <3>2. m + c[1] = m + d[1] /\ c[2] = d[2]
      BY <2>2
    <3>3. c[1] = d[1]
      BY <3>1, <3>2, <1>1
    <3> QED
      BY <3>1, <3>2, <3>3
  <2>3. ASSUME NEW e \in Late PROVE \E c \in Cells(t) : F[c] = e
    <3>1. e \in (1..(m + n)) \X (0..4) /\ e[1] > m /\ (e[2] = 0 \/ u[e[1]] >= Places[e[2]])
      BY <1>2 DEF Cells
    <3>2. e[1] - m \in 1..n /\ u[e[1]] = t[e[1] - m] /\ m + (e[1] - m) = e[1] /\ e = <<e[1], e[2]>>
      BY <3>1, <1>1, <1>2
    <3>3. <<e[1] - m, e[2]>> \in Cells(t)
      BY <3>1, <3>2, <1>1 DEF Cells
    <3> QED
      BY <3>2, <3>3
  <2> QED
    BY <2>1, <2>2, <2>3 DEF Bijection, Injection, Surjection, IsInjective
<1> HIDE DEF F, Late
<1>5. IsFiniteSet(Late) /\ Cardinality(Late) = Cardinality(Cells(t))
  BY <1>4, CharsFinite, FS_Bijection DEF ExistsBijection
<1>6. Cardinality(Cells(u)) = Cardinality(Cells(s)) + Cardinality(Late) - Cardinality({})
  BY <1>3, <1>5, CharsFinite, FS_Union
<1>7. Cardinality({}) = 0 /\ u \in Seq(S)
  BY <1>2, FS_EmptySet
<1>8. /\ Chars(u) = Cardinality(Cells(u)) /\ Chars(s) = Cardinality(Cells(s)) /\ Chars(s) \in Nat
      /\ Chars(t) = Cardinality(Cells(t)) /\ Chars(t) \in Nat
  BY <1>7, CharsFinite
<1>9. Chars(u) = Chars(s) + Chars(t)
  BY <1>5, <1>6, <1>7, <1>8
<1> QED
  BY <1>9 DEF u

\* One more token: a separator takes one character, a word at most four, and
\* whatever it is, at most five.
LEMMA CharsAppend ==
    ASSUME NEW S, NEW s \in Seq(S), NEW e \in S
    PROVE  /\ Append(s, e) \in Seq(S)
           /\ Chars(Append(s, e)) \in Nat
           /\ Chars(Append(s, e)) <= Chars(s) + 5
           /\ e \in Int /\ e < 65536 => Chars(Append(s, e)) <= Chars(s) + 4
           /\ e \in Int /\ e < 16    => Chars(Append(s, e)) <= Chars(s) + 1
<1>1. <<e>> \in Seq(S) /\ Append(s, e) = s \o <<e>> /\ Append(s, e) \in Seq(S)
  BY AppendIsConcat, AppendProperties
<1>2. Chars(Append(s, e)) = Chars(s) + Chars(<<e>>) /\ Chars(s) \in Nat /\ Chars(<<e>>) \in Nat
  BY <1>1, CharsConcat, CharsFinite
<1>3. DOMAIN <<e>> = {1} /\ <<e>>[1] = e
  OBVIOUS
<1>4. \A n \in Nat : IsFiniteSet({1} \X (0..n)) /\ Cardinality({1} \X (0..n)) = n + 1
  <2>1. ASSUME NEW n \in Nat PROVE IsFiniteSet({1} \X (0..n)) /\ Cardinality({1} \X (0..n)) = n + 1
    <3>1. IsFiniteSet(0..n) /\ Cardinality(0..n) = n + 1
      BY FS_Interval, 0 \in Int, n \in Int
    <3>2. IsFiniteSet({1}) /\ Cardinality({1}) = 1
      BY FS_Singleton
    <3> QED
      BY <3>1, <3>2, FS_Product, 1 * (n + 1) = n + 1
  <2> QED
    BY <2>1
<1>5. Cells(<<e>>) \subseteq {1} \X (0..4)
  BY <1>3 DEF Cells
<1>c. ASSUME NEW n \in Nat, Cells(<<e>>) \subseteq {1} \X (0..n) PROVE Chars(<<e>>) <= n + 1
  <2> DEFINE q == <<e>>
             T == {1} \X (0..n)
  <2>1. q \in Seq(S) /\ IsFiniteSet(T) /\ Cardinality(T) = n + 1 /\ Cells(q) \subseteq T
    BY <1>1, <1>4, <1>c
  <2> HIDE DEF q, T
  <2>2. Chars(q) <= Cardinality(T)
    BY <2>1, CharsAtMost
  <2> QED
    BY <2>1, <2>2 DEF q
<1>6. Chars(<<e>>) <= 5
  BY <1>5, <1>c, 4 + 1 = 5
<1>7. ASSUME e \in Int, e < 65536 PROVE Chars(<<e>>) <= 4
  <2>1. Cells(<<e>>) \subseteq {1} \X (0..3)
    BY <1>7, <1>3 DEF Cells, Places
  <2> QED
    BY <1>c, <2>1, 3 + 1 = 4
<1>8. ASSUME e \in Int, e < 16 PROVE Chars(<<e>>) <= 1
  <2>1. Cells(<<e>>) \subseteq {1} \X (0..0)
    <3>1. ASSUME NEW c \in Cells(<<e>>) PROVE c[2] = 0
      BY <3>1, <1>8, <1>3 DEF Cells, Places
    <3> QED
      BY <3>1, <1>3 DEF Cells
  <2> QED
    BY <1>c, <2>1, 0 + 1 = 1
<1> QED
  BY <1>1, <1>2, <1>6, <1>7, <1>8

LEMMA CharsAppendSeparator ==
    ASSUME NEW s \in Seq(Int), NEW e \in Int, e < 16
    PROVE  /\ Append(s, e) \in Seq(Int)
           /\ Chars(Append(s, e)) \in Nat
           /\ Chars(Append(s, e)) <= Chars(s) + 1
BY CharsAppend

LEMMA CharsAppendWord ==
    ASSUME NEW s \in Seq(Int), NEW e \in Int, e < 65536
    PROVE  /\ Append(s, e) \in Seq(Int)
           /\ Chars(Append(s, e)) \in Nat
           /\ Chars(Append(s, e)) <= Chars(s) + 4
BY CharsAppend

LEMMA CharsOfNone == Chars(<<>>) = 0
<1>1. Cells(<<>>) = {}
  BY DEF Cells
<1> QED
  BY <1>1, FS_EmptySet DEF Chars, Cells

LEMMA DecimalRange ==
    ASSUME NEW n \in 0..MaxByte
    PROVE  Decimal(n) \in Nat /\ Decimal(n) < 4096 /\ InDecimal(Decimal(n)) = n
<1> DEFINE h == n \div 100
           u == n % 100
<1>1. h \in 0..2 /\ u \in 0..99 /\ n = 100 * h + u
  BY DEF MaxByte
<1> DEFINE t == u \div 10
           v == n % 10
<1>2. t \in 0..9 /\ v \in 0..9 /\ u = 10 * t + v
  BY <1>1
<1> HIDE DEF h, u, t, v
<1>3. Decimal(n) = h * 256 + t * 16 + v
  BY DEF Decimal, h, u, t, v
<1> DEFINE d == h * 256 + t * 16 + v
<1>4. d \in Nat /\ d < 4096 /\ d \div 256 = h /\ d \div 16 = 16 * h + t /\ d % 16 = v
  BY <1>1, <1>2
<1>5. (16 * h + t) % 16 = t
  BY <1>1, <1>2
<1>6. (d \div 256) * 100 + ((d \div 16) % 16) * 10 + (d % 16) = n
  BY <1>1, <1>2, <1>4, <1>5
<1> HIDE DEF d
<1>7. Decimal(n) = d
  BY <1>3 DEF d
<1> QED
  BY <1>4, <1>6, <1>7 DEF InDecimal

LEMMA OddPlaces == IsFiniteSet({1, 3, 5, 7}) /\ Cardinality({1, 3, 5, 7}) = 4
<1>1. IsFiniteSet({1}) /\ Cardinality({1}) = 1
  BY FS_Singleton
<1>2. IsFiniteSet({1} \cup {3}) /\ Cardinality({1} \cup {3}) = 2
  BY <1>1, FS_AddElement, 3 \notin {1}
<1>3. IsFiniteSet({1, 3} \cup {5}) /\ Cardinality({1, 3} \cup {5}) = 3
  BY <1>2, FS_AddElement, 5 \notin {1, 3}, {1} \cup {3} = {1, 3}
<1>4. IsFiniteSet({1, 3, 5} \cup {7}) /\ Cardinality({1, 3, 5} \cup {7}) = 4
  BY <1>3, FS_AddElement, 7 \notin {1, 3, 5}, {1, 3} \cup {5} = {1, 3, 5}
<1> QED
  BY <1>4, {1, 3, 5} \cup {7} = {1, 3, 5, 7}

\* Four numbers of at most three digits, and three dots.
LEMMA DottedChars ==
    ASSUME NEW a \in 0..MaxByte, NEW b \in 0..MaxByte, NEW c \in 0..MaxByte, NEW d \in 0..MaxByte
    PROVE  Dotted(a, b, c, d) \in Seq(Int) /\ Chars(Dotted(a, b, c, d)) <= 15
<1> DEFINE s == Dotted(a, b, c, d)
           Odd  == {1, 3, 5, 7}
           Each == (1..7) \X (0..0)
           More == Odd \X (1..2)
<1>1. \A n \in 0..MaxByte : Decimal(n) \in Nat /\ Decimal(n) < 4096
  BY DecimalRange
<1>2. /\ s \in Seq(Int)
      /\ DOMAIN s = 1..7
      /\ \A k \in {1, 3, 5, 7} : s[k] \in Nat /\ s[k] < 4096
      /\ \A k \in {2, 4, 6} : s[k] = Dot
  <2> DEFINE A == Decimal(a)
             B == Decimal(b)
             C == Decimal(c)
             D == Decimal(d)
             E == Dot
  <2>1. /\ A \in Nat /\ A < 4096 /\ B \in Nat /\ B < 4096
        /\ C \in Nat /\ C < 4096 /\ D \in Nat /\ D < 4096 /\ E \in Int
    BY <1>1 DEF Dot
  <2>2. s = <<A, E, B, E, C, E, D>>
    BY DEF Dotted
  <2> HIDE DEF A, B, C, D, E, s
  <2>3. s \in Seq(Int) /\ Len(s) = 7
    BY <2>1, <2>2
  <2>4. DOMAIN s = 1..7
    BY <2>3, LenProperties
  <2>5. s[1] = A /\ s[2] = E /\ s[3] = B /\ s[4] = E /\ s[5] = C /\ s[6] = E /\ s[7] = D
    BY <2>2
  <2>6. ASSUME NEW k \in {1, 3, 5, 7} PROVE s[k] \in Nat /\ s[k] < 4096
    <3>1. s[k] \in {A, B, C, D}
      BY <2>5, <2>6
    <3> QED
      BY <3>1, <2>1
  <2>7. ASSUME NEW k \in {2, 4, 6} PROVE s[k] = Dot
    BY <2>5, <2>7 DEF E
  <2> QED
    BY <2>3, <2>4, <2>6, <2>7
<1> HIDE DEF s
<1>3. ASSUME NEW x \in Cells(s) PROVE x \in Each \cup More
  <2>1. x \in (1..7) \X (0..4) /\ (x[2] = 0 \/ s[x[1]] >= Places[x[2]])
    BY <1>2 DEF Cells
  <2>2. CASE x[2] = 0
    BY <2>1, <2>2
  <2>3. CASE x[2] # 0
    <3>1. x[2] \in 1..4 /\ s[x[1]] >= Places[x[2]]
      BY <2>1, <2>3
    <3>2. Places[1] = 16 /\ Places[2] = 256 /\ Places[3] = 4096 /\ Places[4] = 65536
      BY DEF Places
    <3>3. x[2] = 1 \/ x[2] = 2 \/ x[2] = 3 \/ x[2] = 4
      BY <3>1
    <3> DEFINE y == Places[x[2]]
               z == s[x[1]]
    <3>4. CASE x[1] \in {2, 4, 6}
      <4>1. z = 0 - 2
        <5> DEFINE k == x[1]
        <5>1. k \in {2, 4, 6} /\ \A j \in {2, 4, 6} : s[j] = Dot
          BY <3>4, <1>2
        <5> HIDE DEF k
        <5>2. s[k] = Dot
          BY <5>1
        <5> QED
          BY <5>2 DEF k, Dot
      <4>2. y \in Nat
        BY <3>2, <3>3
      <4>3. z >= y
        BY <3>1
      <4> HIDE DEF y, z
      <4>4. FALSE
        BY <4>1, <4>2, <4>3
      <4> QED
        BY <4>4
    <3>5. CASE x[1] \in Odd
      <4>1. s[x[1]] \in Nat /\ s[x[1]] < 4096
        <5> DEFINE k == x[1]
        <5>1. k \in {1, 3, 5, 7} /\ \A j \in {1, 3, 5, 7} : s[j] \in Nat /\ s[j] < 4096
          BY <3>5, <1>2
        <5> HIDE DEF k
        <5>2. s[k] \in Nat /\ s[k] < 4096
          BY <5>1
        <5> QED
          BY <5>2 DEF k
      <4>2. x[2] = 1 \/ x[2] = 2
        <5>1. x[2] = 3 => y = 4096
          BY <3>2
        <5>2. x[2] = 4 => y = 65536
          BY <3>2
        <5>3. z \in Nat /\ z < 4096 /\ z >= y
          BY <4>1, <3>1
        <5> HIDE DEF y, z
        <5>4. y # 4096 /\ y # 65536
          BY <5>3
        <5> QED
          BY <5>1, <5>2, <5>4, <3>3
      <4>3. x \in (1..7) \X (0..4) /\ x[1] \in Odd /\ x[2] \in 1..2
        BY <2>1, <3>5, <4>2
      <4> HIDE DEF Odd
      <4>4. x \in More
        BY <4>3
      <4> QED
        BY <4>4
    <3>6. x[1] \in {2, 4, 6} \/ x[1] \in Odd
      BY <2>1
    <3> QED
      BY <3>4, <3>5, <3>6
  <2> QED
    BY <2>2, <2>3
<1>4. /\ IsFiniteSet(1..2) /\ Cardinality(1..2) = 2
      /\ IsFiniteSet(1..7) /\ Cardinality(1..7) = 7
      /\ IsFiniteSet(0..0) /\ Cardinality(0..0) = 1
  <2>1. \A x, y \in Nat : x <= y => IsFiniteSet(x..y) /\ Cardinality(x..y) = y - x + 1
    BY FS_Interval, Nat \subseteq Int
  <2>2. \A x, y, n \in Nat : x <= y /\ n = y - x + 1 => IsFiniteSet(x..y) /\ Cardinality(x..y) = n
    BY <2>1
  <2>3. 1 <= 2 /\ 2 = 2 - 1 + 1 /\ 1 <= 7 /\ 7 = 7 - 1 + 1 /\ 0 <= 0 /\ 1 = 0 - 0 + 1
        /\ 0 \in Nat /\ 1 \in Nat /\ 2 \in Nat /\ 7 \in Nat
    OBVIOUS
  <2>4. IsFiniteSet(1..2) /\ Cardinality(1..2) = 2
    BY <2>2, <2>3, Zenon
  <2>5. IsFiniteSet(1..7) /\ Cardinality(1..7) = 7
    BY <2>2, <2>3, Zenon
  <2>6. IsFiniteSet(0..0) /\ Cardinality(0..0) = 1
    BY <2>2, <2>3, Zenon
  <2> QED
    BY <2>4, <2>5, <2>6
<1>5. IsFiniteSet(Odd) /\ Cardinality(Odd) = 4
  BY OddPlaces
<1> HIDE DEF Odd
<1>6. IsFiniteSet(Each) /\ Cardinality(Each) = 7 * 1 /\ IsFiniteSet(More) /\ Cardinality(More) = 4 * 2
  <2>1. IsFiniteSet(Each) /\ Cardinality(Each) = Cardinality(1..7) * Cardinality(0..0)
    BY <1>4, FS_Product
  <2>2. IsFiniteSet(More) /\ Cardinality(More) = Cardinality(Odd) * Cardinality(1..2)
    BY <1>4, <1>5, FS_Product
  <2> QED
    BY <1>4, <1>5, <2>1, <2>2
<1> HIDE DEF Each, More
<1>7. /\ IsFiniteSet(Each \cup More)
      /\ Cardinality(Each \cup More) = Cardinality(Each) + Cardinality(More) - Cardinality(Each \cap More)
      /\ Cardinality(Each \cap More) \in Nat
  BY <1>6, FS_Union, FS_Subset, FS_CardinalityType, Each \cap More \in SUBSET Each
<1>8. Cardinality(Each \cup More) \in Nat /\ Cardinality(Each \cup More) <= 15
  <2>1. Cardinality(Each \cup More) \in Nat
    BY <1>7, FS_CardinalityType
  <2> QED
    BY <2>1, <1>6, <1>7
<1>9. Chars(s) <= Cardinality(Each \cup More) /\ Chars(s) \in Nat
  <2>1. s \in Seq(Int) /\ Cells(s) \subseteq Each \cup More
    BY <1>2, <1>3
  <2>2. IsFiniteSet(Each \cup More)
    BY <1>7
  <2> QED
    BY <2>1, <2>2, CharsAtMost, CharsFinite
<1>10. s \in Seq(Int) /\ Chars(s) <= 15
  <2>1. s \in Seq(Int)
    BY <1>2
  <2> DEFINE n == Cardinality(Each \cup More)
             k == Chars(s)
  <2>2. n \in Nat /\ n <= 15 /\ k \in Nat /\ k <= n
    BY <1>8, <1>9
  <2> HIDE DEF n, k
  <2>3. k <= 15
    BY <2>2
  <2> QED
    BY <2>1, <2>3 DEF k
<1> QED
  BY <1>10 DEF s

-----------------------------------------------------------------------------
(* No text is too long.                                                    *)

\* An IPv4 address follows in the place of the last two words.
Embeds == best.base = 0 /\ (best.len = 6 \/ (best.len = 5 /\ addr[5] = MaxWord))

\* Five characters for a word and its separator; but the run that comes before
\* an IPv4 address takes only one.
FormatFits == /\ text \in Seq(Int) /\ Chars(text) <= 5 * i
              /\ best.base = 0 /\ best.len >= 5 /\ i <= 6 =>
                    Chars(text) <= IF i <= 5 THEN 1 ELSE 6
              /\ i = 8 /\ Embeds => Chars(text) + 1 <= 45

FitsInv == /\ pc # "null"
           /\ pc \in {"v4", "scan"} => text = <<>>
           /\ pc = "format" => FormatFits
           /\ pc = "text" => text \in Seq(Int) /\ Chars(text) + 1 <= AddrLen
           /\ pc = "key"  => 2 * Chars(text) + 2 <= 2 * (AddrLen + 5) + 5

LEMMA WordRange ==
    ASSUME addr \in [0..7 -> Words], NEW k \in 0..7
    PROVE  addr[k] \in Nat /\ addr[k] < 65536
<1>1. \A n \in Nat : \A x \in 0..n : x \in Nat /\ x <= n
  OBVIOUS
<1>2. MaxWord \in Nat /\ MaxWord < 65536
  BY DEF MaxWord
<1>3. addr[k] \in 0..MaxWord
  BY NumbersAssumption
<1> QED
  BY <1>1, <1>2, <1>3

LEMMA WordBytes ==
    ASSUME addr \in [0..7 -> Words], NEW k \in 0..7
    PROVE  /\ addr[k] \div 256 \in 0..MaxByte /\ addr[k] % 256 \in 0..MaxByte
           /\ 256 * (addr[k] \div 256) + (addr[k] % 256) = addr[k]
<1>1. \A n \in Nat : n < 65536 => /\ n \div 256 \in 0..MaxByte /\ n % 256 \in 0..MaxByte
                                   /\ 256 * (n \div 256) + (n % 256) = n
  BY DEF MaxByte
<1> DEFINE w == addr[k]
<1>2. w \in Nat /\ w < 65536
  BY WordRange
<1> HIDE DEF w
<1>3. w \div 256 \in 0..MaxByte /\ w % 256 \in 0..MaxByte /\ 256 * (w \div 256) + (w % 256) = w
  BY <1>1, <1>2
<1> QED
  BY <1>3 DEF w

LEMMA ByteRange ==
    ASSUME addr \in [0..3 -> Bytes], NEW k \in 0..3
    PROVE  addr[k] \in 0..MaxByte
BY NumbersAssumption

LEMMA FormatIPv4Fits == ASSUME AddrType, FitsInv, FormatIPv4 PROVE FitsInv'
<1>1. addr \in [0..3 -> Bytes] /\ pc = "v4"
  BY DEF FormatIPv4, AddrType
<1>2. \A k \in 0..3 : addr[k] \in 0..MaxByte
  BY <1>1, ByteRange
<1>3. IsIPv4 /\ AddrLen = 16
  BY <1>1 DEF IsIPv4, AddrLen
<1>4. pc' = "text" /\ text' = Dotted(addr[0], addr[1], addr[2], addr[3]) /\ addr' = addr
  BY <1>3 DEF FormatIPv4
<1>5. text' \in Seq(Int) /\ Chars(Dotted(addr[0], addr[1], addr[2], addr[3])) <= 15
  <2>1. addr[0] \in 0..MaxByte /\ addr[1] \in 0..MaxByte /\ addr[2] \in 0..MaxByte /\ addr[3] \in 0..MaxByte
    BY <1>2
  <2> QED
    BY <2>1, <1>4, DottedChars
<1> DEFINE d == Dotted(addr[0], addr[1], addr[2], addr[3])
<1>d. d \in Seq(Int) /\ Chars(d) <= 15 /\ Chars(d) \in Nat
  BY <1>4, <1>5, CharsFinite
<1> HIDE DEF d
<1>6. Chars(text') \in Nat /\ Chars(text') <= 15
  BY <1>4, <1>d DEF d
<1>7. AddrLen' = 16
  BY <1>3, <1>4 DEF AddrLen, IsIPv4
<1> QED
  BY <1>4, <1>5, <1>6, <1>7 DEF FitsInv

LEMMA ScanFits == ASSUME FitsInv, ScanZero \/ ScanWord \/ ScanEnd PROVE FitsInv'
<1>1. pc = "scan" /\ text = <<>> /\ text' = text /\ (pc' = "scan" \/ (pc' = "format" /\ i' = 0))
  BY DEF FitsInv, ScanZero, ScanWord, ScanEnd
<1>2. text \in Seq(Int) /\ Chars(text) = 0
  BY <1>1, CharsOfNone
<1>3. pc' = "format" => FormatFits'
  BY <1>1, <1>2 DEF FormatFits
<1> QED
  BY <1>1, <1>3 DEF FitsInv

LEMMA Separating ==
    ASSUME FormatFits, i \in 0..7
    PROVE  /\ Separated \in Seq(Int) /\ Chars(Separated) \in Nat
           /\ Chars(Separated) <= IF i = 0 THEN 0 ELSE Chars(text) + 1
<1>1. text \in Seq(Int) /\ Chars(text) \in Nat /\ (i = 0 => Chars(text) = 0)
  BY CharsFinite DEF FormatFits
<1>2. CASE i = 0
  BY <1>1, <1>2 DEF Separated
<1>3. CASE i # 0
  <2>1. Colon \in Int /\ Colon < 16
    BY DEF Colon
  <2>2. Append(text, Colon) \in Seq(Int) /\ Chars(Append(text, Colon)) <= Chars(text) + 1
    BY <1>1, <2>1, CharsAppendSeparator
  <2>3. Chars(Append(text, Colon)) \in Nat
    BY <2>2, CharsFinite
  <2> QED
    BY <1>3, <2>2, <2>3 DEF Separated
<1> QED
  BY <1>2, <1>3

LEMMA WriteRunFits == ASSUME AddrType, LongestInv, FitsInv, WriteRun PROVE FitsInv'
<1> USE DEF WriteRun, Formatting
<1>1. pc = "format" /\ pc' = "format" /\ FormatFits /\ i \in 0..7 /\ i' = i + 1
      /\ best' = best /\ addr' = addr /\ best \in [base : (0 - 1)..7, len : 0..8]
  BY DEF FitsInv, LongestInv
<1>2. text \in Seq(Int) /\ Chars(text) \in Nat
  BY <1>1, CharsFinite DEF FormatFits
<1>3. text' \in Seq(Int) /\ Chars(text') \in Nat
      /\ Chars(text') <= Chars(text) + (IF i = best.base THEN 1 ELSE 0)
  <2>1. Colon \in Int /\ Colon < 16
    BY DEF Colon
  <2> DEFINE a == Append(text, Colon)
  <2>2. a \in Seq(Int) /\ Chars(a) <= Chars(text) + 1
    BY <1>2, <2>1, CharsAppendSeparator
  <2>3. Chars(a) \in Nat
    BY <2>2, CharsFinite
  <2>4. text' = IF i = best.base THEN a ELSE text
    OBVIOUS
  <2> HIDE DEF a, WriteRun, Formatting
  <2> QED
    BY <1>2, <2>2, <2>3, <2>4
<1>4. InRun
  OBVIOUS
<1>5. FormatFits'
  <2> HIDE DEF WriteRun, Formatting
  <2>1. Chars(text) <= 5 * i /\ (best.base = 0 /\ best.len >= 5 /\ i <= 6 => Chars(text) <= IF i <= 5 THEN 1 ELSE 6)
    BY <1>1 DEF FormatFits
  <2>2. Chars(text') <= 5 * i'
    BY <1>1, <1>2, <1>3, <2>1
  <2>3. best'.base = 0 /\ best'.len >= 5 /\ i' <= 6 => Chars(text') <= IF i' <= 5 THEN 1 ELSE 6
    BY <1>1, <1>2, <1>3, <2>1
  <2>4. ~(i' = 8 /\ Embeds')
    BY <1>1, <1>4 DEF Embeds, InRun
  <2> QED
    BY <1>3, <2>2, <2>3, <2>4 DEF FormatFits
<1> QED
  BY <1>1, <1>5 DEF FitsInv

LEMMA WriteWordFits == ASSUME AddrType, LongestInv, FitsInv, WriteWord PROVE FitsInv'
<1> USE DEF WriteWord, Formatting
<1>1. pc = "format" /\ pc' = "format" /\ FormatFits /\ i \in 0..7 /\ i' = i + 1
      /\ best' = best /\ addr' = addr /\ best \in [base : (0 - 1)..7, len : 0..8]
      /\ ~InRun /\ ~Encapsulated
  BY DEF FitsInv, LongestInv
<1>2. text \in Seq(Int) /\ Chars(text) \in Nat
  BY <1>1, CharsFinite DEF FormatFits
<1>3. Separated \in Seq(Int) /\ Chars(Separated) \in Nat
      /\ Chars(Separated) <= IF i = 0 THEN 0 ELSE Chars(text) + 1
  BY <1>1, Separating
<1>4. addr[i] \in Int /\ addr[i] < 65536
  <2>1. addr \in [0..7 -> Words]
    BY <1>1 DEF AddrType
  <2>2. i \in 0..7
    BY <1>1
  <2> HIDE DEF WriteWord, Formatting
  <2>3. addr[i] \in Nat /\ addr[i] < 65536
    BY <2>1, <2>2, WordRange
  <2> QED
    BY <2>3
<1>5. text' \in Seq(Int) /\ Chars(text') \in Nat /\ Chars(text') <= Chars(Separated) + 4
  <2> DEFINE a == Append(Separated, addr[i])
  <2>1. a \in Seq(Int) /\ Chars(a) <= Chars(Separated) + 4
    BY <1>3, <1>4, CharsAppendWord
  <2>2. Chars(a) \in Nat
    BY <2>1, CharsFinite
  <2>3. text' = a
    OBVIOUS
  <2> HIDE DEF a
  <2> QED
    BY <2>1, <2>2, <2>3
<1>6. FormatFits'
  <2> HIDE DEF WriteWord, Formatting
  <2>1. Chars(text) <= 5 * i /\ (best.base = 0 /\ best.len >= 5 /\ i <= 6 => Chars(text) <= IF i <= 5 THEN 1 ELSE 6)
        /\ (i = 8 /\ Embeds => Chars(text) + 1 <= 45)
    BY <1>1 DEF FormatFits
  <2>2. Chars(text') <= 5 * i'
    BY <1>1, <1>2, <1>3, <1>5, <2>1
  <2>3. best.base = 0 /\ best.len >= 5 => i >= 5
    BY <1>1 DEF InRun
  <2>4. best'.base = 0 /\ best'.len >= 5 /\ i' <= 6 => Chars(text') <= IF i' <= 5 THEN 1 ELSE 6
    BY <1>1, <1>2, <1>3, <1>5, <2>1, <2>3
  <2>5. i' = 8 /\ Embeds' => Chars(text') + 1 <= 45
    BY <1>1, <2>2, <1>5
  <2> QED
    BY <1>5, <2>2, <2>4, <2>5 DEF FormatFits
<1> QED
  BY <1>1, <1>6 DEF FitsInv

LEMMA WriteIPv4Fits == ASSUME AddrType, LongestInv, FitsInv, WriteIPv4 PROVE FitsInv'
<1> USE DEF WriteIPv4, Formatting
<1>1. pc = "format" /\ FormatFits /\ i = 6 /\ Encapsulated
      /\ best' = best /\ addr' = addr /\ best \in [base : (0 - 1)..7, len : 0..8]
  BY DEF FitsInv, LongestInv, Encapsulated
<1>2. text \in Seq(Int) /\ Chars(text) \in Nat /\ Chars(text) <= 6
  BY <1>1, CharsFinite DEF FormatFits, Encapsulated
<1>3. Separated \in Seq(Int) /\ Chars(Separated) \in Nat /\ Chars(Separated) <= 7
  BY <1>1, <1>2, Separating
<1> DEFINE d == Dotted(addr[6] \div 256, addr[6] % 256, addr[7] \div 256, addr[7] % 256)
<1>4. d \in Seq(Int) /\ Chars(d) <= 15
  <2> HIDE DEF WriteIPv4, Formatting
  <2>1. addr \in [0..7 -> Words]
    BY <1>1 DEF AddrType
  <2>2. addr[6] \div 256 \in 0..MaxByte /\ addr[6] % 256 \in 0..MaxByte
    BY <2>1, WordBytes, 6 \in 0..7
  <2>3. addr[7] \div 256 \in 0..MaxByte /\ addr[7] % 256 \in 0..MaxByte
    BY <2>1, WordBytes, 7 \in 0..7
  <2> QED
    BY <2>2, <2>3, DottedChars
<1>5. Chars(d) \in Nat /\ Chars(Separated \o d) = Chars(Separated) + Chars(d) /\ Separated \o d \in Seq(Int)
  BY <1>3, <1>4, CharsFinite, CharsConcat, ConcatProperties
<1>6. ~(TmpLen - Chars(Separated) < 16)
  BY <1>3 DEF TmpLen
<1>7. text' = Separated \o d /\ pc' = "format" /\ i' = 8
  <2> HIDE DEF d
  <2>1. IF TmpLen - Chars(Separated) < 16
        THEN pc' = "null" /\ text' = Separated
        ELSE text' = Separated \o d /\ pc' = pc
    BY DEF d
  <2>2. i' = 8
    OBVIOUS
  <2> HIDE DEF WriteIPv4, Formatting
  <2> QED
    BY <2>1, <2>2, <1>6, <1>1
<1> HIDE DEF d, WriteIPv4, Formatting
<1>8. text' \in Seq(Int) /\ Chars(text') <= 22 /\ Chars(text') \in Nat
  BY <1>3, <1>4, <1>5, <1>7
<1>9. FormatFits'
  BY <1>7, <1>8 DEF FormatFits
<1> QED
  BY <1>7, <1>9 DEF FitsInv

LEMMA FormatEndFits == ASSUME AddrType, LongestInv, FitsInv, FormatEnd PROVE FitsInv'
<1> USE DEF FormatEnd
<1>1. pc = "format" /\ FormatFits /\ i = 8 /\ addr' = addr
      /\ text' = Ended /\ pc' = IF Chars(Ended) + 1 > AddrLen THEN "null" ELSE "text"
  BY DEF FitsInv
<1>2. text \in Seq(Int) /\ Chars(text) \in Nat /\ Chars(text) <= 40
  BY <1>1, CharsFinite DEF FormatFits
<1>3. Ended \in Seq(Int) /\ Chars(Ended) <= Chars(text) + 1
  <2>1. Colon \in Int /\ Colon < 16
    BY DEF Colon
  <2> DEFINE a == Append(text, Colon)
  <2>2. a \in Seq(Int) /\ Chars(a) <= Chars(text) + 1
    BY <1>2, <2>1, CharsAppendSeparator
  <2>3. Ended = a \/ Ended = text
    BY DEF Ended
  <2> HIDE DEF a
  <2> QED
    BY <1>2, <2>2, <2>3
<1>4. Chars(Ended) \in Nat
  BY <1>3, CharsFinite
<1>5. AddrLen = 46 /\ AddrLen' = 46
  <2>1. DOMAIN addr = 0..7
    BY <1>1 DEF AddrType
  <2>2. 7 \in 0..7 /\ 7 \notin 0..3
    OBVIOUS
  <2>3. 0..7 # 0..3
    BY <2>2
  <2> QED
    BY <1>1, <2>1, <2>3 DEF AddrLen, IsIPv4
<1>6. pc' = "text"
  BY <1>1, <1>2, <1>3, <1>4, <1>5
<1> QED
  BY <1>1, <1>2, <1>3, <1>4, <1>5, <1>6 DEF FitsInv

LEMMA MakeKeyFits == ASSUME AddrType, FitsInv, MakeKey PROVE FitsInv'
<1>1. pc = "text" /\ pc' = "key" /\ addr' = addr /\ text \in Seq(Int) /\ Chars(text) + 1 <= AddrLen
  BY DEF MakeKey, FitsInv
<1>2. PICK port \in Ports :
         text' = [x \in DOMAIN text |-> IF text[x] = Colon THEN Dot ELSE text[x]] \o <<Dot, DigitsOf[port]>>
  BY DEF MakeKey
<1> DEFINE S == Int \cup {DigitsOf[port]}
           d == DigitsOf[port]
           t == [x \in DOMAIN text |-> IF text[x] = Colon THEN Dot ELSE text[x]]
<1>3. t \in Seq(S) /\ DOMAIN t = DOMAIN text /\ Chars(t) = Chars(text)
  <2>1. DOMAIN text = 1..Len(text) /\ Len(text) \in Nat /\ \A x \in 1..Len(text) : text[x] \in Int
    BY <1>1, LenProperties, ElementOfSeq
  <2>2. t \in [1..Len(text) -> S]
    BY <2>1 DEF Dot
  <2>3. t \in Seq(S)
    BY <2>1, <2>2
  <2>4. Cells(t) = Cells(text)
    <3>1. ASSUME NEW x \in DOMAIN text, NEW k \in 1..4
          PROVE  (t[x] >= Places[k]) <=> (text[x] >= Places[k])
      <4>1. CASE text[x] = Colon
        BY <4>1 DEF Colon, Dot, Places
      <4>2. CASE text[x] # Colon
        BY <4>2
      <4> QED
        BY <4>1, <4>2
    <3>2. DOMAIN t = DOMAIN text
      OBVIOUS
    <3> HIDE DEF t
    <3>3. \A c \in (DOMAIN text) \X (0..4) :
            (c[2] = 0 \/ t[c[1]] >= Places[c[2]]) <=> (c[2] = 0 \/ text[c[1]] >= Places[c[2]])
      BY <3>1
    <3> QED
      BY <3>2, <3>3 DEF Cells
  <2> QED
    BY <1>1, <2>3, <2>4, CharsFinite
<1>4. Dot \in S /\ d \in S /\ Dot \in Int /\ Dot < 16
  BY DEF Dot
<1> HIDE DEF S, t, d
<1> DEFINE u == Append(t, Dot)
           v == Append(u, d)
<1>5. u \in Seq(S) /\ Chars(u) <= Chars(t) + 1 /\ Chars(u) \in Nat
  BY <1>3, <1>4, CharsAppend
<1> HIDE DEF u
<1>e. v \in Seq(S) /\ Chars(v) <= Chars(u) + 5 /\ Chars(v) \in Nat
  BY <1>5, <1>4, CharsAppend
<1> HIDE DEF v
<1>6. t \o <<Dot, d>> = v
  BY <1>3, <1>4 DEF u, v
<1>7. Chars(text) \in Nat
  BY <1>1, CharsFinite
<1>8. text' = v
  BY <1>2, <1>6 DEF t, d
<1>9. AddrLen' = AddrLen /\ AddrLen \in Nat
  BY <1>1 DEF AddrLen, IsIPv4
<1>10. 2 * Chars(text') + 2 <= 2 * (AddrLen + 5) + 5
  BY <1>1, <1>3, <1>5, <1>e, <1>7, <1>8, <1>9
<1> QED
  BY <1>1, <1>9, <1>10 DEF FitsInv

LEMMA StepFits == LongestInv /\ FitsInv /\ [Next]_vars => FitsInv'
<1> SUFFICES ASSUME LongestInv, FitsInv, [Next]_vars PROVE FitsInv'
  OBVIOUS
<1>1. AddrType
  BY DEF LongestInv
<1>2. CASE UNCHANGED vars
  BY <1>2 DEF vars, FitsInv, FormatFits, Embeds, AddrLen, IsIPv4
<1>3. CASE Next
  BY <1>1, <1>3, FormatIPv4Fits, ScanFits, WriteRunFits, WriteWordFits, WriteIPv4Fits,
     FormatEndFits, MakeKeyFits DEF Next
<1> QED
  BY <1>2, <1>3

LEMMA FitsAlways == Spec => []FitsInv
<1>1. Init => FitsInv
  BY DEF Init, FitsInv
<1> QED
  BY <1>1, StepFits, LongestAlways, PTL DEF Spec

\* For every address and port: no text is too long for its buffer, and two
\* halves of a key fit what get_ip_port_pair allocates for them.
THEOREM NoTextTooLong == Spec => []TextFits
<1>1. FitsInv => TextFits
  BY DEF FitsInv, TextFits
<1> QED
  BY <1>1, FitsAlways, PTL

-----------------------------------------------------------------------------
(* Reading a text: numbers that alternate with separators.                 *)

Width(n) == IF n = 0 THEN 0 ELSE 2 * n - 1

\* s has the numbers of w, with one separator between two of them.
Alternates(s, w) == /\ Len(s) = Width(Len(w))
                    /\ \A k \in 1..Len(w) : s[2 * k - 1] = w[k]
                    /\ \A k \in 1..(Len(w) - 1) : s[2 * k] < 0

LEMMA NumbersPlaces ==
    ASSUME NEW s \in Seq(Int), NEW w \in Seq(Nat), Alternates(s, w)
    PROVE  NumbersAt(s) = {2 * k - 1 : k \in 1..Len(w)}
<1> DEFINE n == Len(w)
<1>1. n \in Nat /\ \A k \in 1..n : w[k] \in Nat
  BY LenProperties, ElementOfSeq
<1>2. DOMAIN s = 1..Width(n) /\ \A x \in 1..Width(n) : s[x] \in Int
  <2>1. Len(s) = Width(n)
    BY DEF Alternates
  <2> HIDE DEF n
  <2> QED
    BY <2>1, LenProperties, ElementOfSeq
<1>3. /\ \A k \in 1..n : s[2 * k - 1] = w[k]
      /\ \A k \in 1..(n - 1) : s[2 * k] < 0
  BY DEF Alternates
<1> HIDE DEF n
<1>4. ASSUME NEW x \in 1..Width(n), s[x] >= 0 PROVE \E k \in 1..n : x = 2 * k - 1
  <2>1. n # 0 /\ x \in 1..(2 * n - 1)
    BY <1>1 DEF Width
  <2> DEFINE h == x \div 2
  <2>2. h \in Nat /\ (x = 2 * h \/ x = 2 * h + 1)
    BY <2>1, <1>1
  <2> HIDE DEF h
  <2>3. CASE x = 2 * h
    <3>1. h \in 1..(n - 1)
      BY <2>1, <2>2, <2>3, <1>1
    <3>2. s[x] < 0
      BY <3>1, <2>3, <1>3
    <3> QED
      BY <3>2, <1>2, <1>4
  <2>4. CASE x = 2 * h + 1
    <3>1. h + 1 \in 1..n /\ x = 2 * (h + 1) - 1
      BY <2>1, <2>2, <2>4, <1>1
    <3> QED
      BY <3>1
  <2> QED
    BY <2>2, <2>3, <2>4
<1>5. ASSUME NEW k \in 1..n PROVE 2 * k - 1 \in 1..Width(n) /\ s[2 * k - 1] >= 0
  <2>1. 2 * k - 1 \in 1..(2 * n - 1) /\ n # 0
    BY <1>1
  <2>2. w[k] >= 0
    BY <1>1
  <2> QED
    BY <2>1, <2>2, <1>3 DEF Width
<1>6. \A x : x \in NumbersAt(s) <=> x \in 1..Width(n) /\ s[x] >= 0
  BY <1>2 DEF NumbersAt
<1>7. NumbersAt(s) = {2 * k - 1 : k \in 1..n}
  BY <1>4, <1>5, <1>6
<1> QED
  BY <1>7 DEF n

\* The first n odd places are n places.
Odds(n) == {2 * j - 1 : j \in 1..n}

LEMMA CountOdds ==
    ASSUME NEW n \in Nat
    PROVE  IsFiniteSet(Odds(n)) /\ Cardinality(Odds(n)) = n
<1> DEFINE Q == Odds(n)
           F == [j \in 1..n |-> 2 * j - 1]
<1>1. IsFiniteSet(1..n) /\ Cardinality(1..n) = n
  BY FS_Interval, 1 \in Int, n \in Int
<1>2. F \in Bijection(1..n, Q)
  <2>1. \A i1, j1 \in 1..n : F[i1] = F[j1] => i1 = j1
    OBVIOUS
  <2>2. \A q \in Q : \E j \in 1..n : F[j] = q
    BY DEF Odds
  <2>3. F \in [1..n -> Q]
    BY DEF Odds
  <2> HIDE DEF F, Q
  <2> QED
    BY <2>1, <2>2, <2>3 DEF Bijection, Injection, Surjection, IsInjective
<1> HIDE DEF F, Q
<1>3. IsFiniteSet(Q) /\ Cardinality(Q) = n
  BY <1>1, <1>2, FS_Bijection DEF ExistsBijection
<1> QED
  BY <1>3 DEF Q

LEMMA AlternatingNumbers ==
    ASSUME NEW s \in Seq(Int), NEW w \in Seq(Nat), Alternates(s, w)
    PROVE  Numbers(s) = w
<1> DEFINE n == Len(w)
           P == NumbersAt(s)
           At(k) == CHOOSE x \in P : Cardinality(P \cap 1..x) = k
<1>1. n \in Nat /\ w \in [1..n -> Nat]
  BY LenProperties
<1>2. P = Odds(n)
  BY NumbersPlaces DEF Odds
<1>3. \A k \in 1..n : s[2 * k - 1] = w[k]
  BY DEF Alternates
<1> HIDE DEF n
<1>4. Cardinality(P) = n
  BY <1>1, <1>2, CountOdds
<1>5. ASSUME NEW k \in 1..n PROVE Cardinality(P \cap 1..(2 * k - 1)) = k
  <2>1. Odds(n) \cap 1..(2 * k - 1) = Odds(k)
    <3>1. \A j \in 1..n : 2 * j - 1 \in 1..(2 * k - 1) <=> j \in 1..k
      BY <1>1
    <3>2. 1..k \subseteq 1..n
      BY <1>1
    <3> QED
      BY <3>1, <3>2 DEF Odds
  <2>2. k \in Nat
    BY <1>1
  <2> HIDE DEF P
  <2> QED
    BY <2>1, <2>2, <1>2, CountOdds
<1>6. ASSUME NEW k \in 1..n PROVE At(k) = 2 * k - 1
  <2> HIDE DEF P
  <2>1. 2 * k - 1 \in P /\ Cardinality(P \cap 1..(2 * k - 1)) = k
    BY <1>2, <1>5 DEF Odds
  <2>2. ASSUME NEW x \in P, Cardinality(P \cap 1..x) = k PROVE x = 2 * k - 1
    <3>1. PICK j \in 1..n : x = 2 * j - 1
      BY <1>2, <2>2 DEF Odds
    <3>2. j = k
      BY <2>2, <3>1, <1>5
    <3> QED
      BY <3>1, <3>2
  <2> QED
    BY <2>1, <2>2
<1>7. Numbers(s) = [k \in 1..Cardinality(P) |-> s[At(k)]]
  BY DEF Numbers
<1> HIDE DEF At, P
<1>8. [k \in 1..n |-> s[At(k)]] = [k \in 1..n |-> w[k]]
  BY <1>6, <1>3
<1> QED
  BY <1>1, <1>4, <1>7, <1>8

\* No two separators follow each other.
LEMMA AlternatingGaps ==
    ASSUME NEW s \in Seq(Int), NEW w \in Seq(Nat), Alternates(s, w), NEW x \in 1..(Len(s) - 1)
    PROVE  ~(s[x] < 0 /\ s[x + 1] < 0)
<1> DEFINE n == Len(w)
<1>1. n \in Nat /\ \A k \in 1..n : w[k] \in Nat
  BY LenProperties, ElementOfSeq
<1>2. Len(s) = Width(n) /\ \A k \in 1..n : s[2 * k - 1] = w[k]
  BY DEF Alternates
<1> HIDE DEF n
<1>3. n # 0 /\ x \in 1..(2 * n - 2)
  BY <1>1, <1>2 DEF Width
<1> DEFINE h == x \div 2
<1>4. h \in Nat /\ (x = 2 * h \/ x = 2 * h + 1)
  BY <1>3, <1>1
<1> HIDE DEF h
<1>5. ASSUME NEW g \in 1..n PROVE s[2 * g - 1] \in Nat
  BY <1>1, <1>2
<1>6. CASE x = 2 * h
  <2>1. h + 1 \in 1..n /\ x + 1 = 2 * (h + 1) - 1
    BY <1>1, <1>3, <1>4, <1>6
  <2>2. s[x + 1] \in Nat
    BY <2>1, <1>5
  <2> QED
    BY <2>2
<1>7. CASE x = 2 * h + 1
  <2>1. h + 1 \in 1..n /\ x = 2 * (h + 1) - 1
    BY <1>1, <1>3, <1>4, <1>7
  <2>2. s[x] \in Nat
    BY <2>1, <1>5
  <2> QED
    BY <2>2
<1> QED
  BY <1>4, <1>6, <1>7

\* A part of a text that is not doubled anywhere.
LEMMA NoGap ==
    ASSUME NEW s \in Seq(Int), NEW w \in Seq(Nat), Alternates(s, w), NEW sep \in Int, sep < 0
    PROVE  Gaps(s, sep) = {}
BY AlternatingGaps DEF Gaps

\* l, a doubled separator, r.
Doubled(s, sep, l, r) ==
    /\ Len(s) = Width(Len(l)) + 2 + Width(Len(r))
    /\ s[Width(Len(l)) + 1] = sep /\ s[Width(Len(l)) + 2] = sep
    /\ Alternates(SubSeq(s, 1, Width(Len(l))), l)
    /\ Alternates(SubSeq(s, Width(Len(l)) + 3, Len(s)), r)

LEMMA OneGap ==
    ASSUME NEW s \in Seq(Int), NEW l \in Seq(Nat), NEW r \in Seq(Nat),
           NEW sep \in Int, sep < 0, Doubled(s, sep, l, r)
    PROVE  Gaps(s, sep) = {Width(Len(l)) + 1}
<1> DEFINE p == Width(Len(l))
           q == Width(Len(r))
           a == SubSeq(s, 1, p)
           b == SubSeq(s, p + 3, Len(s))
<1>1. p \in Nat /\ q \in Nat
  BY LenProperties DEF Width
<1>2. /\ Len(s) = p + 2 + q /\ s[p + 1] = sep /\ s[p + 2] = sep
      /\ Alternates(a, l) /\ Alternates(b, r)
  BY DEF Doubled
<1>3. \A x \in 1..Len(s) : s[x] \in Int
  BY ElementOfSeq
<1>4. Len(a) = p /\ Len(b) = q
  BY <1>2 DEF Alternates
<1> HIDE DEF p, q
<1>5. a \in Seq(Int) /\ \A x \in 1..p : a[x] = s[x]
  <2>1. \A x \in 1..p : s[x] \in Int
    BY <1>1, <1>2, <1>3
  <2>2. a \in Seq(Int) /\ \A x \in 1..(p - 1 + 1) : a[x] = s[1 + x - 1]
    BY <1>1, <2>1, SubSeqProperties, 1 \in Int, p \in Int
  <2> HIDE DEF a
  <2> QED
    BY <1>1, <2>2
<1>6. b \in Seq(Int) /\ \A x \in 1..q : b[x] = s[p + 2 + x]
  <2> DEFINE n == Len(s)
  <2>0. n = p + 2 + q /\ \A x \in 1..n : s[x] \in Int
    BY <1>2, <1>3
  <2> HIDE DEF n
  <2>1. n \in Int /\ p + 3 \in Int /\ \A x \in (p + 3)..n : s[x] \in Int
    BY <2>0, <1>1
  <2>2. b \in Seq(Int) /\ \A x \in 1..(n - (p + 3) + 1) : b[x] = s[p + 3 + x - 1]
    BY <2>1, SubSeqProperties DEF n
  <2>3. n - (p + 3) + 1 = q
    BY <1>1, <2>0
  <2> HIDE DEF b
  <2> QED
    BY <1>1, <2>2, <2>3
<1> HIDE DEF a, b
<1>7. \A x \in 1..(p - 1) : ~(s[x] < 0 /\ s[x + 1] < 0)
  <2>1. \A x \in 1..(p - 1) : ~(a[x] < 0 /\ a[x + 1] < 0)
    BY <1>2, <1>4, <1>5, AlternatingGaps
  <2>2. ASSUME NEW x \in 1..(p - 1) PROVE a[x] = s[x] /\ a[x + 1] = s[x + 1]
    <3>1. x \in 1..p /\ x + 1 \in 1..p
      BY <1>1
    <3> QED
      BY <3>1, <1>5
  <2> QED
    BY <2>1, <2>2
<1>8. \A x \in 1..(q - 1) : ~(s[p + 2 + x] < 0 /\ s[p + 2 + x + 1] < 0)
  <2>1. \A x \in 1..(q - 1) : ~(b[x] < 0 /\ b[x + 1] < 0)
    BY <1>2, <1>4, <1>6, AlternatingGaps
  <2>2. ASSUME NEW x \in 1..(q - 1)
        PROVE  b[x] = s[p + 2 + x] /\ b[x + 1] = s[p + 2 + x + 1]
    <3>1. x \in 1..q /\ x + 1 \in 1..q /\ p + 2 + (x + 1) = p + 2 + x + 1
      BY <1>1
    <3> QED
      BY <3>1, <1>6
  <2> QED
    BY <2>1, <2>2
<1>9. p > 0 => s[p] >= 0
  <2>1. SUFFICES ASSUME p > 0 PROVE s[p] >= 0
    OBVIOUS
  <2> DEFINE n == Len(l)
  <2>2. n \in Nat /\ p = Width(n) /\ \A k \in 1..n : a[2 * k - 1] = l[k] /\ l[k] \in Nat
    BY <1>2, LenProperties, ElementOfSeq DEF Alternates, p
  <2> HIDE DEF n
  <2>3. n \in 1..n /\ p = 2 * n - 1 /\ p \in 1..p
    BY <2>1, <2>2 DEF Width
  <2>4. a[2 * n - 1] = l[n] /\ l[n] \in Nat
    BY <2>2, <2>3
  <2>5. a[p] = s[p]
    BY <2>3, <1>5
  <2> QED
    BY <2>3, <2>4, <2>5
<1>10. q > 0 => s[p + 3] >= 0
  <2>1. SUFFICES ASSUME q > 0 PROVE s[p + 3] >= 0
    OBVIOUS
  <2> DEFINE n == Len(r)
  <2>2. n \in Nat /\ q = Width(n) /\ \A k \in 1..n : b[2 * k - 1] = r[k] /\ r[k] \in Nat
    BY <1>2, LenProperties, ElementOfSeq DEF Alternates, q
  <2> HIDE DEF n
  <2>3. 1 \in 1..n /\ 1 \in 1..q /\ 2 * 1 - 1 = 1 /\ p + 2 + 1 = p + 3
    BY <2>1, <2>2, <1>1 DEF Width
  <2>4. b[1] = r[1] /\ r[1] \in Nat
    BY <2>2, <2>3
  <2>5. b[1] = s[p + 2 + 1]
    BY <2>3, <1>6
  <2> QED
    BY <2>3, <2>4, <2>5
<1>11. ASSUME NEW x \in 1..(Len(s) - 1), s[x] = sep, s[x + 1] = sep PROVE x = p + 1
  <2>1. x \notin 1..(p - 1)
    BY <1>7, <1>11
  <2>2. x # p
    BY <1>1, <1>9, <1>11
  <2>3. x # p + 2
    <3>1. SUFFICES ASSUME x = p + 2 PROVE FALSE
      OBVIOUS
    <3>2. q > 0 /\ x + 1 = p + 3
      BY <3>1, <1>1, <1>2
    <3> QED
      BY <3>2, <1>10, <1>11
  <2>4. x <= p + 2
    <3>1. SUFFICES ASSUME x > p + 2 PROVE FALSE
      BY <1>1
    <3>2. x - (p + 2) \in 1..(q - 1) /\ p + 2 + (x - (p + 2)) = x
      BY <3>1, <1>1, <1>2
    <3> QED
      BY <3>2, <1>8, <1>11
  <2> QED
    BY <1>1, <2>1, <2>2, <2>3, <2>4
<1>12. p + 1 \in 1..(Len(s) - 1) /\ s[p + 1] = sep /\ s[p + 1 + 1] = sep
  BY <1>1, <1>2
<1>13. Gaps(s, sep) = {p + 1}
  BY <1>11, <1>12 DEF Gaps
<1> QED
  BY <1>13 DEF p

LEMMA ReadWhole ==
    ASSUME NEW s, NEW sep, NEW ipv4, Gaps(s, sep) = {}
    PROVE  Reading(s, sep, ipv4) = PartWords(s, ipv4)
BY DEF Reading

LEMMA ReadDoubled ==
    ASSUME NEW s, NEW sep, NEW ipv4, NEW g, Gaps(s, sep) = {g}
    PROVE  LET l == PartWords(SubSeq(s, 1, g - 1), ipv4)
               r == PartWords(SubSeq(s, g + 2, Len(s)), ipv4)
           IN  Reading(s, sep, ipv4) = l \o [z \in 1..(8 - Len(l) - Len(r)) |-> 0] \o r
<1> DEFINE h == CHOOSE x \in Gaps(s, sep) : TRUE
<1>1. h = g
  OBVIOUS
<1>2. Gaps(s, sep) # {}
  OBVIOUS
<1>3. LET l == PartWords(SubSeq(s, 1, h - 1), ipv4)
          r == PartWords(SubSeq(s, h + 2, Len(s)), ipv4)
      IN  Reading(s, sep, ipv4) = l \o [z \in 1..(8 - Len(l) - Len(r)) |-> 0] \o r
  BY <1>2, Zenon DEF Reading
<1> HIDE DEF h
<1> QED
  BY <1>1, <1>3, Zenon

-----------------------------------------------------------------------------
(* How a whole text is laid out, and that it is read back.                 *)

\* The text of an address, or the half of a key without its port.
Body == IF pc = "key" THEN SubSeq(text, 1, Len(text) - 2) ELSE text
Sep  == IF pc = "key" THEN Dot ELSE Colon

\* The numbers written after the run.
IPv4Numbers == <<Decimal(addr[6] \div 256), Decimal(addr[6] % 256),
                 Decimal(addr[7] \div 256), Decimal(addr[7] % 256)>>
RestNumbers == IF Embeds
               THEN IF best.len = 6 THEN IPv4Numbers
                    ELSE <<addr[5], IPv4Numbers[1], IPv4Numbers[2], IPv4Numbers[3], IPv4Numbers[4]>>
               ELSE [m \in 1..(8 - best.base - best.len) |-> addr[best.base + best.len + m - 1]]

IPv4Laid == /\ Len(Body) = 7
            /\ \A k \in 0..3 : Body[2 * k + 1] = Decimal(addr[k])
            /\ \A k \in 1..3 : Body[2 * k] < 0

WholeLaid == /\ Len(Body) = 15
             /\ \A k \in 1..8 : Body[2 * k - 1] = addr[k - 1]
             /\ \A k \in 1..7 : Body[2 * k] < 0

Start == Width(best.base)

RunLaid == /\ Len(Body) = Start + 2 + Width(Len(RestNumbers))
           /\ \A k \in 1..best.base : Body[2 * k - 1] = addr[k - 1]
           /\ \A k \in 1..(best.base - 1) : Body[2 * k] < 0
           /\ Body[Start + 1] = Sep /\ Body[Start + 2] = Sep
           /\ \A m \in 1..Len(RestNumbers) : Body[Start + 1 + 2 * m] = RestNumbers[m]
           /\ \A m \in 1..(Len(RestNumbers) - 1) : Body[Start + 2 + 2 * m] < 0

BestKept == /\ best \in [base : (0 - 1)..7, len : 0..8] /\ Shortened
            /\ EmbedsIPv4 <=> Embeds

Final == /\ Body \in Seq(Int)
         /\ addr \in [0..3 -> Bytes] => IPv4Laid
         /\ addr \in [0..7 -> Words] =>
               /\ BestKept
               /\ IF best.base < 0 THEN WholeLaid ELSE RunLaid
               /\ pc = "text" => (Dot \in {text[x] : x \in DOMAIN text} <=> Embeds)

LEMMA SepNegative == Sep \in Int /\ Sep < 0
BY DEF Sep, Dot, Colon

LEMMA AddressSeq ==
    /\ addr \in [0..3 -> Bytes] => AsSeq(addr) = [x \in 1..4 |-> addr[x - 1]]
    /\ addr \in [0..7 -> Words] => AsSeq(addr) = [x \in 1..8 |-> addr[x - 1]]
<1>1. \A n \in Nat : Cardinality(0..n) = n + 1
  <2>1. ASSUME NEW n \in Nat PROVE Cardinality(0..n) = n + 1
    BY FS_Interval, 0 \in Int, n \in Int
  <2> QED
    BY <2>1
<1>2. ASSUME NEW n \in Nat, DOMAIN addr = 0..n
      PROVE  AsSeq(addr) = [x \in 1..(n + 1) |-> addr[x - 1]]
  BY <1>1, <1>2 DEF AsSeq
<1>3. ASSUME addr \in [0..3 -> Bytes] PROVE AsSeq(addr) = [x \in 1..4 |-> addr[x - 1]]
  <2>1. DOMAIN addr = 0..3 /\ 3 \in Nat
    BY <1>3
  <2>2. AsSeq(addr) = [x \in 1..(3 + 1) |-> addr[x - 1]]
    BY <2>1, <1>2
  <2> QED
    BY <2>2, 3 + 1 = 4
<1>4. ASSUME addr \in [0..7 -> Words] PROVE AsSeq(addr) = [x \in 1..8 |-> addr[x - 1]]
  <2>1. DOMAIN addr = 0..7 /\ 7 \in Nat
    BY <1>4
  <2>2. AsSeq(addr) = [x \in 1..(7 + 1) |-> addr[x - 1]]
    BY <2>1, <1>2
  <2> QED
    BY <2>2, 7 + 1 = 8
<1> QED
  BY <1>3, <1>4

LEMMA ReadIPv4 ==
    ASSUME Final, addr \in [0..3 -> Bytes]
    PROVE  /\ Gaps(Body, Sep) = {} /\ Len(Numbers(Body)) = 4
           /\ Decimals(Body) = AsSeq(addr)
<1> DEFINE s == Body
           w == [x \in 1..4 |-> Decimal(addr[x - 1])]
<1>1. s \in Seq(Int) /\ IPv4Laid
  BY DEF Final
<1>2. \A x \in 1..4 : addr[x - 1] \in 0..MaxByte
  <2>1. ASSUME NEW x \in 1..4 PROVE addr[x - 1] \in 0..MaxByte
    <3>1. x - 1 \in 0..3
      OBVIOUS
    <3> QED
      BY <3>1, ByteRange
  <2> QED
    BY <2>1
<1>3. \A x \in 1..4 : Decimal(addr[x - 1]) \in Nat /\ InDecimal(Decimal(addr[x - 1])) = addr[x - 1]
  BY <1>2, DecimalRange
<1>4. w \in Seq(Nat) /\ Len(w) = 4 /\ DOMAIN w = 1..4
  <2>1. w \in [1..4 -> Nat]
    BY <1>3
  <2> QED
    BY <2>1
<1>5. Alternates(s, w)
  <2>1. Width(4) = 7
    BY DEF Width
  <2>2. ASSUME NEW k \in 1..4 PROVE s[2 * k - 1] = w[k]
    <3>1. k - 1 \in 0..3 /\ 2 * (k - 1) + 1 = 2 * k - 1
      OBVIOUS
    <3>2. s[2 * (k - 1) + 1] = Decimal(addr[k - 1])
      BY <3>1, <1>1 DEF IPv4Laid
    <3> QED
      BY <3>1, <3>2
  <2> HIDE DEF w, s
  <2>3. Len(s) = 7 /\ \A k \in 1..3 : s[2 * k] < 0
    BY <1>1 DEF IPv4Laid, s
  <2> QED
    BY <2>1, <2>2, <2>3, <1>4, 4 - 1 = 3 DEF Alternates
<1> HIDE DEF s
<1>6. Numbers(s) = w /\ Gaps(s, Sep) = {}
  <2> HIDE DEF w
  <2> QED
    BY <1>1, <1>4, <1>5, AlternatingNumbers, NoGap, SepNegative
<1>7. Decimals(s) = [x \in 1..4 |-> InDecimal(w[x])]
  <2> HIDE DEF w
  <2> QED
    BY <1>6, <1>4 DEF Decimals
<1>8. [x \in 1..4 |-> InDecimal(w[x])] = [x \in 1..4 |-> addr[x - 1]]
  BY <1>3
<1>9. Len(Numbers(s)) = 4
  BY <1>6, <1>4
<1> QED
  BY <1>6, <1>7, <1>8, <1>9, AddressSeq DEF s

LEMMA ReadNoRun ==
    ASSUME Final, addr \in [0..7 -> Words], best.base < 0
    PROVE  /\ Gaps(Body, Sep) = {} /\ Len(Numbers(Body)) = 8
           /\ Reading(Body, Sep, FALSE) = AsSeq(addr)
           /\ ~Embeds
<1> DEFINE s == Body
           w == [x \in 1..8 |-> addr[x - 1]]
<1>1. s \in Seq(Int) /\ WholeLaid /\ BestKept
  BY DEF Final
<1>2. \A x \in 1..8 : addr[x - 1] \in Nat
  <2>1. ASSUME NEW x \in 1..8 PROVE addr[x - 1] \in Nat
    <3>1. x - 1 \in 0..7
      OBVIOUS
    <3> QED
      BY <3>1, WordRange
  <2> QED
    BY <2>1
<1>3. w \in Seq(Nat) /\ Len(w) = 8 /\ DOMAIN w = 1..8
  <2>1. w \in [1..8 -> Nat]
    BY <1>2
  <2> QED
    BY <2>1
<1>4. Alternates(s, w)
  <2>1. Width(8) = 15
    BY DEF Width
  <2>2. Len(s) = 15 /\ (\A k \in 1..7 : s[2 * k] < 0) /\ \A k \in 1..8 : s[2 * k - 1] = w[k]
    BY <1>1 DEF WholeLaid
  <2> HIDE DEF w, s
  <2> QED
    BY <2>1, <2>2, <1>3, 8 - 1 = 7 DEF Alternates
<1> HIDE DEF s
<1>5. Numbers(s) = w /\ Gaps(s, Sep) = {}
  <2> HIDE DEF w
  <2> QED
    BY <1>1, <1>3, <1>4, AlternatingNumbers, NoGap, SepNegative
<1>6. Reading(s, Sep, FALSE) = Numbers(s)
  BY <1>5, ReadWhole DEF PartWords
<1>7. ~Embeds
  BY <1>1 DEF Embeds, BestKept
<1>8. Len(Numbers(s)) = 8
  <2> HIDE DEF w
  <2> QED
    BY <1>3, <1>5
<1> QED
  BY <1>5, <1>6, <1>7, <1>8, AddressSeq DEF s

LEMMA ConcatAt ==
    ASSUME NEW S, NEW s \in Seq(S), NEW t \in Seq(S)
    PROVE  /\ s \o t \in Seq(S) /\ Len(s \o t) = Len(s) + Len(t)
           /\ \A x \in 1..Len(s) : (s \o t)[x] = s[x]
           /\ \A x \in 1..Len(t) : (s \o t)[Len(s) + x] = t[x]
<1> DEFINE m == Len(s)
           n == Len(t)
           u == s \o t
<1>1. m \in Nat /\ n \in Nat
  BY LenProperties
<1>2. /\ u \in Seq(S) /\ Len(u) = m + n
      /\ \A x \in 1..(m + n) : u[x] = IF x <= m THEN s[x] ELSE t[x - m]
  BY ConcatProperties
<1> HIDE DEF u, m, n
<1>3. ASSUME NEW x \in 1..m PROVE u[x] = s[x]
  <2>1. x \in 1..(m + n) /\ x <= m
    BY <1>1
  <2> QED
    BY <2>1, <1>2
<1>4. ASSUME NEW x \in 1..n PROVE u[m + x] = t[x]
  <2>1. m + x \in 1..(m + n) /\ ~(m + x <= m) /\ (m + x) - m = x
    BY <1>1
  <2> QED
    BY <2>1, <1>2
<1> QED
  BY <1>2, <1>3, <1>4 DEF u, m, n

\* The words before a run, its zeros and the words after it are the address.
LEMMA Glued ==
    ASSUME addr \in [0..7 -> Words], NEW b \in 0..7, NEW n \in 1..8, b + n <= 8,
           \A k \in b..(b + n - 1) : addr[k] = 0
    PROVE  [k \in 1..b |-> addr[k - 1]] \o [z \in 1..n |-> 0]
              \o [m \in 1..(8 - b - n) |-> addr[b + n + m - 1]] = [x \in 1..8 |-> addr[x - 1]]
<1> DEFINE l == [k \in 1..b |-> addr[k - 1]]
           o == [z \in 1..n |-> 0]
           c == 8 - b - n
           r == [m \in 1..c |-> addr[b + n + m - 1]]
           w == [x \in 1..8 |-> addr[x - 1]]
<1>1. \A k \in 0..7 : addr[k] \in Int
  BY WordRange
<1>2. c \in Nat /\ b \in Nat /\ n \in Nat /\ b + n + c = 8
  OBVIOUS
<1> HIDE DEF c
<1>a. ASSUME NEW k \in 1..b PROVE addr[k - 1] \in Int
  <2>1. k - 1 \in 0..7
    BY <1>2
  <2> QED
    BY <2>1, <1>1
<1>3. l \in Seq(Int) /\ Len(l) = b /\ \A k \in 1..b : l[k] = addr[k - 1]
  <2>1. l \in [1..b -> Int]
    BY <1>a
  <2> QED
    BY <2>1, <1>2
<1>4. o \in Seq(Int) /\ Len(o) = n /\ \A k \in 1..n : o[k] = 0
  <2>1. o \in [1..n -> Int]
    OBVIOUS
  <2> QED
    BY <2>1, <1>2
<1>b. ASSUME NEW k \in 1..c PROVE addr[b + n + k - 1] \in Int
  <2>1. b + n + k - 1 \in 0..7
    BY <1>2
  <2> QED
    BY <2>1, <1>1
<1>5. r \in Seq(Int) /\ Len(r) = c /\ \A k \in 1..c : r[k] = addr[b + n + k - 1]
  <2>1. r \in [1..c -> Int]
    BY <1>b
  <2> QED
    BY <2>1, <1>2
<1>6. w \in Seq(Int) /\ Len(w) = 8 /\ \A k \in 1..8 : w[k] = addr[k - 1]
  <2>1. \A k \in 1..8 : addr[k - 1] \in Int
    BY <1>1
  <2> QED
    BY <2>1
<1> HIDE DEF l, o, r, w
<1> DEFINE lo == l \o o
           s  == lo \o r
<1>7. /\ lo \in Seq(Int) /\ Len(lo) = b + n
      /\ \A x \in 1..b : lo[x] = l[x]
      /\ \A x \in 1..n : lo[b + x] = o[x]
  <2>1. /\ lo \in Seq(Int) /\ Len(lo) = Len(l) + Len(o)
        /\ \A x \in 1..Len(l) : lo[x] = l[x]
        /\ \A x \in 1..Len(o) : lo[Len(l) + x] = o[x]
    <3>1. l \in Seq(Int) /\ o \in Seq(Int)
      BY <1>3, <1>4
    <3> QED
      BY <3>1, ConcatAt
  <2>2. Len(l) = b /\ Len(o) = n
    BY <1>3, <1>4
  <2> HIDE DEF lo
  <2> QED
    BY <2>1, <2>2
<1> HIDE DEF lo
<1>8. /\ s \in Seq(Int) /\ Len(s) = b + n + c
      /\ \A x \in 1..(b + n) : s[x] = lo[x]
      /\ \A x \in 1..c : s[b + n + x] = r[x]
  <2>1. /\ s \in Seq(Int) /\ Len(s) = Len(lo) + Len(r)
        /\ \A x \in 1..Len(lo) : s[x] = lo[x]
        /\ \A x \in 1..Len(r) : s[Len(lo) + x] = r[x]
    <3>1. lo \in Seq(Int) /\ r \in Seq(Int)
      BY <1>5, <1>7
    <3> QED
      BY <3>1, ConcatAt
  <2>2. Len(lo) = b + n /\ Len(r) = c
    BY <1>5, <1>7
  <2> HIDE DEF s
  <2> QED
    BY <2>1, <2>2
<1> HIDE DEF s
<1>9. ASSUME NEW x \in 1..8 PROVE s[x] = w[x]
  <2>1. CASE x <= b
    <3>1. x \in 1..b /\ x \in 1..(b + n)
      BY <2>1, <1>2
    <3>2. s[x] = lo[x] /\ lo[x] = l[x] /\ l[x] = addr[x - 1]
      BY <3>1, <1>3, <1>7, <1>8
    <3> QED
      BY <3>2, <1>6
  <2>2. CASE x > b /\ x <= b + n
    <3> DEFINE y == x - b
    <3>1. y \in 1..n /\ b + y = x /\ x \in 1..(b + n) /\ x - 1 \in b..(b + n - 1)
      BY <2>2, <1>2
    <3> HIDE DEF y
    <3>2. s[x] = lo[x] /\ lo[b + y] = o[y] /\ o[y] = 0 /\ addr[x - 1] = 0
      BY <3>1, <1>4, <1>7, <1>8
    <3> QED
      BY <3>1, <3>2, <1>6
  <2>3. CASE x > b + n
    <3> DEFINE y == x - (b + n)
    <3>1. y \in 1..c /\ b + n + y = x
      BY <2>3, <1>2
    <3> HIDE DEF y
    <3>2. s[b + n + y] = r[y] /\ r[y] = addr[b + n + y - 1]
      BY <3>1, <1>5, <1>8
    <3> QED
      BY <3>1, <3>2, <1>6
  <2> QED
    BY <2>1, <2>2, <2>3, <1>2
<1>10. s = w
  <2>1. s \in Seq(Int) /\ w \in Seq(Int) /\ Len(s) = 8 /\ Len(w) = 8
    BY <1>2, <1>6, <1>8
  <2> HIDE DEF w
  <2> QED
    BY <2>1, <1>9, SeqEqual
<1> QED
  BY <1>10 DEF s, lo, l, o, r, w, c

RestWords == [m \in 1..(8 - best.base - best.len) |-> addr[best.base + best.len + m - 1]]

LEMMA IPv4NumbersRead ==
    ASSUME addr \in [0..7 -> Words]
    PROVE  /\ IPv4Numbers \in Seq(Nat) /\ Len(IPv4Numbers) = 4
           /\ 256 * InDecimal(IPv4Numbers[1]) + InDecimal(IPv4Numbers[2]) = addr[6]
           /\ 256 * InDecimal(IPv4Numbers[3]) + InDecimal(IPv4Numbers[4]) = addr[7]
<1>1. /\ addr[6] \div 256 \in 0..MaxByte /\ addr[6] % 256 \in 0..MaxByte
      /\ 256 * (addr[6] \div 256) + (addr[6] % 256) = addr[6]
  BY WordBytes, 6 \in 0..7
<1>2. /\ addr[7] \div 256 \in 0..MaxByte /\ addr[7] % 256 \in 0..MaxByte
      /\ 256 * (addr[7] \div 256) + (addr[7] % 256) = addr[7]
  BY WordBytes, 7 \in 0..7
<1> DEFINE A == Decimal(addr[6] \div 256)
           B == Decimal(addr[6] % 256)
           C == Decimal(addr[7] \div 256)
           D == Decimal(addr[7] % 256)
<1>3. /\ addr[6] \div 256 \in 0..MaxByte /\ addr[6] % 256 \in 0..MaxByte
      /\ addr[7] \div 256 \in 0..MaxByte /\ addr[7] % 256 \in 0..MaxByte
  BY <1>1, <1>2
<1>4. /\ A \in Nat /\ InDecimal(A) = addr[6] \div 256 /\ B \in Nat /\ InDecimal(B) = addr[6] % 256
      /\ C \in Nat /\ InDecimal(C) = addr[7] \div 256 /\ D \in Nat /\ InDecimal(D) = addr[7] % 256
  BY <1>3, DecimalRange
<1>5. IPv4Numbers = <<A, B, C, D>>
  BY DEF IPv4Numbers
<1> HIDE DEF A, B, C, D
<1>6. /\ IPv4Numbers \in Seq(Nat) /\ Len(IPv4Numbers) = 4
      /\ IPv4Numbers[1] = A /\ IPv4Numbers[2] = B /\ IPv4Numbers[3] = C /\ IPv4Numbers[4] = D
  BY <1>4, <1>5
<1>7. 256 * InDecimal(A) + InDecimal(B) = addr[6] /\ 256 * InDecimal(C) + InDecimal(D) = addr[7]
  BY <1>1, <1>2, <1>4
<1> QED
  BY <1>6, <1>7

\* What the numbers after the run say.
LEMMA RestRead ==
    ASSUME addr \in [0..7 -> Words], BestKept, best.base >= 0
    PROVE  /\ RestNumbers \in Seq(Nat)
           /\ RestWords \in Seq(Int) /\ Len(RestWords) = 8 - best.base - best.len
           /\ \A s : Numbers(s) = RestNumbers => PartWords(s, Embeds) = RestWords
<1> DEFINE b == best.base
           n == best.len
           c == 8 - b - n
<1>1. b \in 0..7 /\ n \in 2..8 /\ b + n <= 8 /\ c \in Nat
  BY DEF BestKept, Shortened
<1>2. \A m \in 1..c : addr[b + n + m - 1] \in Nat
  <2>1. ASSUME NEW m \in 1..c PROVE addr[b + n + m - 1] \in Nat
    <3> HIDE DEF b, n
    <3>1. b + n + m - 1 \in 0..7
      BY <1>1
    <3> QED
      BY <3>1, WordRange
  <2> QED
    BY <2>1
<1> HIDE DEF b, n, c
<1>3. RestWords = [m \in 1..c |-> addr[b + n + m - 1]]
  BY DEF RestWords, b, n, c
<1>4. RestWords \in Seq(Nat) /\ RestWords \in Seq(Int) /\ Len(RestWords) = c
  <2>1. RestWords \in [1..c -> Nat] /\ RestWords \in [1..c -> Int]
    BY <1>2, <1>3
  <2> QED
    BY <2>1, <1>1
<1>5. CASE ~Embeds
  <2>1. RestNumbers = RestWords
    BY <1>5 DEF RestNumbers, RestWords
  <2>2. \A s : Numbers(s) = RestNumbers => PartWords(s, Embeds) = RestWords
    BY <1>5, <2>1 DEF PartWords
  <2> QED
    BY <1>4, <2>1, <2>2 DEF b, n, c
<1> DEFINE q == IPv4Numbers
<1>6. /\ q \in Seq(Nat) /\ Len(q) = 4
      /\ 256 * InDecimal(q[1]) + InDecimal(q[2]) = addr[6]
      /\ 256 * InDecimal(q[3]) + InDecimal(q[4]) = addr[7]
  BY IPv4NumbersRead
<1> HIDE DEF q
<1>7. CASE Embeds /\ n = 6
  <2>1. b = 0 /\ c = 2 /\ RestNumbers = q
    BY <1>7, <1>1 DEF RestNumbers, Embeds, b, n, c, q
  <2>2. RestWords = <<addr[6], addr[7]>>
    <3>1. RestWords[1] = addr[6] /\ RestWords[2] = addr[7] /\ Len(RestWords) = 2
      BY <1>3, <1>4, <1>7, <2>1
    <3> QED
      BY <3>1, <1>4
  <2>3. ASSUME NEW s, Numbers(s) = RestNumbers PROVE PartWords(s, Embeds) = RestWords
    <3> DEFINE d == Decimals(s)
    <3>1. Numbers(s) = q /\ PartWords(s, Embeds) = WordsWithIPv4(s)
      <4>1. Numbers(s) = q
        BY <2>1, <2>3
      <4>2. Len(Numbers(s)) >= 4
        BY <4>1, <1>6
      <4> QED
        BY <4>1, <4>2, <1>7 DEF PartWords
    <3>2. d = [x \in 1..4 |-> InDecimal(q[x])]
      BY <1>6, <3>1 DEF Decimals
    <3>3. d[1] = InDecimal(q[1]) /\ d[2] = InDecimal(q[2]) /\ d[3] = InDecimal(q[3]) /\ d[4] = InDecimal(q[4])
      BY <3>2
    <3> HIDE DEF d
    <3> DEFINE k == Len(Numbers(s)) - 3
    <3>4. WordsWithIPv4(s) = SubSeq(Numbers(s), 1, k - 1)
                                 \o <<256 * d[k] + d[k + 1], 256 * d[k + 2] + d[k + 3]>>
      BY DEF WordsWithIPv4, d
    <3>5. k = 1 /\ k - 1 = 0 /\ k + 1 = 2 /\ k + 2 = 3 /\ k + 3 = 4
      BY <3>1, <1>6
    <3> HIDE DEF k
    <3>6. SubSeq(Numbers(s), 1, 0) = <<>>
      BY SubSeqEmpty, 0 \in Int, 1 \in Int
    <3>7. WordsWithIPv4(s) = <<>> \o <<256 * d[1] + d[2], 256 * d[3] + d[4]>>
      <4>1. SubSeq(Numbers(s), 1, k - 1) = <<>>
        BY <3>5, <3>6
      <4>2. d[k] = d[1] /\ d[k + 1] = d[2] /\ d[k + 2] = d[3] /\ d[k + 3] = d[4]
        BY <3>5
      <4> DEFINE v == <<256 * d[k] + d[k + 1], 256 * d[k + 2] + d[k + 3]>>
                 w == <<256 * d[1] + d[2], 256 * d[3] + d[4]>>
      <4>3. v = w
        BY <4>2
      <4>4. WordsWithIPv4(s) = SubSeq(Numbers(s), 1, k - 1) \o v
        BY <3>4
      <4> HIDE DEF v, w
      <4>5. WordsWithIPv4(s) = <<>> \o w
        BY <4>1, <4>3, <4>4
      <4> QED
        BY <4>5 DEF w
    <3>8. WordsWithIPv4(s) = <<>> \o <<addr[6], addr[7]>>
      BY <3>7, <3>3, <1>6
    <3>9. addr[6] \in Int /\ addr[7] \in Int
      BY WordRange, 6 \in 0..7, 7 \in 0..7
    <3> QED
      BY <3>1, <3>8, <3>9, <2>2
  <2> QED
    BY <1>4, <1>6, <2>1, <2>3 DEF b, n, c
<1>8. CASE Embeds /\ n = 5
  <2> DEFINE t == <<addr[5], q[1], q[2], q[3], q[4]>>
  <2>1. b = 0 /\ c = 3 /\ RestNumbers = t
    BY <1>8, <1>1 DEF RestNumbers, Embeds, b, n, c, q
  <2>2. addr[5] \in Nat /\ addr[6] \in Nat /\ addr[7] \in Nat
    BY WordRange, 5 \in 0..7, 6 \in 0..7, 7 \in 0..7
  <2>3. RestWords = <<addr[5], addr[6], addr[7]>>
    <3>1. RestWords[1] = addr[5] /\ RestWords[2] = addr[6] /\ RestWords[3] = addr[7] /\ Len(RestWords) = 3
      BY <1>3, <1>4, <1>8, <2>1
    <3> QED
      BY <3>1, <1>4
  <2>4. /\ t \in Seq(Nat) /\ Len(t) = 5 /\ t[1] = addr[5]
        /\ t[2] = q[1] /\ t[3] = q[2] /\ t[4] = q[3] /\ t[5] = q[4]
    <3>1. q[1] \in Nat /\ q[2] \in Nat /\ q[3] \in Nat /\ q[4] \in Nat
      <4>1. Len(q) = 4 /\ \A x \in 1..Len(q) : q[x] \in Nat
        BY <1>6, ElementOfSeq
      <4>2. \A x \in 1..4 : q[x] \in Nat
        BY <4>1
      <4> QED
        BY <4>2
    <3>2. t \in Seq(Nat)
      BY <3>1, <2>2
    <3> QED
      BY <3>2
  <2> HIDE DEF t
  <2>5. ASSUME NEW s, Numbers(s) = RestNumbers PROVE PartWords(s, Embeds) = RestWords
    <3> DEFINE d == Decimals(s)
    <3>1. Numbers(s) = t /\ PartWords(s, Embeds) = WordsWithIPv4(s)
      <4>1. Numbers(s) = t
        BY <2>1, <2>5 DEF t
      <4>2. Len(Numbers(s)) >= 4
        BY <4>1, <2>4
      <4> QED
        BY <4>1, <4>2, <1>8 DEF PartWords
    <3>2. d = [x \in 1..5 |-> InDecimal(t[x])]
      BY <2>4, <3>1 DEF Decimals
    <3>3. d[2] = InDecimal(q[1]) /\ d[3] = InDecimal(q[2]) /\ d[4] = InDecimal(q[3]) /\ d[5] = InDecimal(q[4])
      BY <3>2, <2>4
    <3> HIDE DEF d
    <3> DEFINE k == Len(Numbers(s)) - 3
    <3>4. WordsWithIPv4(s) = SubSeq(Numbers(s), 1, k - 1)
                                 \o <<256 * d[k] + d[k + 1], 256 * d[k + 2] + d[k + 3]>>
      BY DEF WordsWithIPv4, d
    <3>5. k = 2 /\ k - 1 = 1 /\ k + 1 = 3 /\ k + 2 = 4 /\ k + 3 = 5
      BY <3>1, <2>4
    <3> HIDE DEF k
    <3> DEFINE f == SubSeq(t, 1, 1)
    <3>6. f \in Seq(Nat) /\ Len(f) = 1 /\ f[1] = addr[5]
      BY <2>2, <2>4, SubSeqProperties, 1 \in Int, \A x \in 1..1 : t[x] \in Nat
    <3> HIDE DEF f
    <3>7. WordsWithIPv4(s) = f \o <<256 * d[2] + d[3], 256 * d[4] + d[5]>>
      BY <3>1, <3>4, <3>5 DEF f
    <3> DEFINE e == <<addr[6], addr[7]>>
               v == f \o e
    <3>8. WordsWithIPv4(s) = v
      <4>1. 256 * d[2] + d[3] = addr[6] /\ 256 * d[4] + d[5] = addr[7]
        BY <3>3, <1>6
      <4>2. <<256 * d[2] + d[3], 256 * d[4] + d[5]>> = e
        BY <4>1
      <4> HIDE DEF e
      <4> QED
        BY <3>7, <4>2
    <3>9. e \in Seq(Nat) /\ Len(e) = 2 /\ e[1] = addr[6] /\ e[2] = addr[7]
      BY <2>2
    <3> HIDE DEF e
    <3>10. v \in Seq(Nat) /\ Len(v) = 3 /\ v[1] = addr[5] /\ v[1 + 1] = addr[6] /\ v[1 + 2] = addr[7]
      <4> DEFINE j == Len(f)
                 z == Len(e)
      <4>1. /\ v \in Seq(Nat) /\ Len(v) = j + z /\ \A x \in 1..j : v[x] = f[x]
            /\ \A x \in 1..z : v[j + x] = e[x]
        <5>1. f \in Seq(Nat) /\ e \in Seq(Nat)
          BY <3>6, <3>9
        <5> QED
          BY <5>1, ConcatAt
      <4>2. j = 1 /\ z = 2
        BY <3>6, <3>9
      <4> HIDE DEF v, j, z
      <4>3. v[1] = f[1] /\ v[1 + 1] = e[1] /\ v[1 + 2] = e[2]
        BY <4>1, <4>2
      <4> QED
        BY <4>1, <4>2, <4>3, <3>6, <3>9
    <3> HIDE DEF v
    <3>11. v = <<addr[5], addr[6], addr[7]>>
      BY <3>10, <2>2
    <3> QED
      BY <3>1, <3>8, <3>11, <2>3
  <2> QED
    BY <1>4, <2>1, <2>4, <2>5 DEF b, n, c, t
<1>9. Embeds => n = 6 \/ n = 5
  BY DEF Embeds, n
<1> QED
  BY <1>5, <1>7, <1>8, <1>9

StartWords == [k \in 1..best.base |-> addr[k - 1]]

LEMMA StartRead ==
    ASSUME addr \in [0..7 -> Words], BestKept, best.base >= 0
    PROVE  /\ StartWords \in Seq(Nat) /\ Len(StartWords) = best.base
           /\ \A s : Numbers(s) = StartWords => PartWords(s, Embeds) = StartWords
<1> DEFINE b == best.base
<1>1. b \in 0..7
  BY DEF BestKept, Shortened
<1> HIDE DEF b
<1>2. \A k \in 1..b : addr[k - 1] \in Nat
  <2>1. ASSUME NEW k \in 1..b PROVE addr[k - 1] \in Nat
    <3>1. k - 1 \in 0..7
      BY <1>1
    <3> QED
      BY <3>1, WordRange
  <2> QED
    BY <2>1
<1>3. StartWords = [k \in 1..b |-> addr[k - 1]]
  BY DEF StartWords, b
<1>4. StartWords \in Seq(Nat) /\ Len(StartWords) = b
  <2>1. StartWords \in [1..b -> Nat]
    BY <1>2, <1>3
  <2>2. b \in Nat
    BY <1>1
  <2> QED
    BY <2>1, <2>2
<1>5. ASSUME NEW s, Numbers(s) = StartWords PROVE PartWords(s, Embeds) = StartWords
  <2>1. Embeds => Len(Numbers(s)) = 0
    BY <1>4, <1>5 DEF Embeds, b
  <2>2. ~(Embeds /\ Len(Numbers(s)) >= 4)
    BY <2>1
  <2> QED
    BY <2>2, <1>5 DEF PartWords
<1> QED
  BY <1>4, <1>5 DEF b

LEMMA RunIsDoubled ==
    ASSUME Final, addr \in [0..7 -> Words], best.base >= 0
    PROVE  Doubled(Body, Sep, StartWords, RestNumbers)
<1> DEFINE s == Body
           l == StartWords
           r == RestNumbers
           b == best.base
           c == Len(RestNumbers)
           p == Width(b)
           q == Width(c)
           e == Len(Body)
<1>1. s \in Seq(Int) /\ BestKept /\ RunLaid
  <2>1. s \in Seq(Int) /\ BestKept /\ (~(best.base < 0) => RunLaid)
    BY DEF Final
  <2>2. ~(best.base < 0)
    BY <2>1 DEF BestKept
  <2> QED
    BY <2>1, <2>2
<1>2. l \in Seq(Nat) /\ Len(l) = b /\ r \in Seq(Nat) /\ b \in Nat /\ c \in Nat
  BY <1>1, StartRead, RestRead, LenProperties
<1>3. \A k \in 1..b : l[k] = addr[k - 1]
  BY DEF StartWords
<1>4. /\ e = p + 2 + q
      /\ \A k \in 1..b : s[2 * k - 1] = addr[k - 1]
      /\ \A k \in 1..(b - 1) : s[2 * k] < 0
      /\ s[p + 1] = Sep /\ s[p + 2] = Sep
      /\ \A m \in 1..c : s[p + 1 + 2 * m] = r[m]
      /\ \A m \in 1..(c - 1) : s[p + 2 + 2 * m] < 0
  BY <1>1 DEF RunLaid, Start
<1> HIDE DEF s, l, r, b, c, e
<1>5. \A x \in 1..e : s[x] \in Int
  BY <1>1, ElementOfSeq DEF s, e
<1>6. p \in Nat /\ q \in Nat /\ (b > 0 => p = 2 * b - 1) /\ (c > 0 => q = 2 * c - 1)
  BY <1>2 DEF Width
<1> HIDE DEF p, q
<1> DEFINE u == SubSeq(s, 1, p)
           v == SubSeq(s, p + 3, e)
<1>7. u \in Seq(Int) /\ Len(u) = p /\ \A x \in 1..p : u[x] = s[x]
  <2>1. \A x \in 1..p : s[x] \in Int
    BY <1>4, <1>5, <1>6
  <2>2. /\ u \in Seq(Int) /\ Len(u) = IF 1 <= p THEN p - 1 + 1 ELSE 0
        /\ \A x \in 1..(p - 1 + 1) : u[x] = s[1 + x - 1]
    BY <1>6, <2>1, SubSeqProperties, 1 \in Int, p \in Int
  <2> HIDE DEF u
  <2> QED
    BY <1>6, <2>2
<1>8. v \in Seq(Int) /\ Len(v) = q /\ \A x \in 1..q : v[x] = s[p + 2 + x]
  <2>1. e \in Int /\ p + 3 \in Int /\ \A x \in (p + 3)..e : s[x] \in Int
    BY <1>4, <1>5, <1>6
  <2>2. /\ v \in Seq(Int) /\ Len(v) = IF p + 3 <= e THEN e - (p + 3) + 1 ELSE 0
        /\ \A x \in 1..(e - (p + 3) + 1) : v[x] = s[p + 3 + x - 1]
    BY <2>1, SubSeqProperties
  <2>3. e - (p + 3) + 1 = q /\ (p + 3 <= e <=> q > 0)
    BY <1>4, <1>6
  <2> HIDE DEF v
  <2> QED
    BY <1>6, <2>2, <2>3
<1> HIDE DEF u, v
<1>9. Alternates(u, l)
  <2>1. ASSUME NEW k \in 1..b PROVE u[2 * k - 1] = l[k]
    <3>1. 2 * k - 1 \in 1..p
      BY <1>2, <1>6
    <3> QED
      BY <3>1, <1>3, <1>4, <1>7
  <2>2. ASSUME NEW k \in 1..(b - 1) PROVE u[2 * k] < 0
    <3>1. 2 * k \in 1..p
      BY <1>2, <1>6
    <3> QED
      BY <3>1, <1>4, <1>7
  <2> QED
    BY <2>1, <2>2, <1>2, <1>7 DEF Alternates, p
<1>10. Alternates(v, r)
  <2>1. ASSUME NEW k \in 1..c PROVE v[2 * k - 1] = r[k]
    <3>1. 2 * k - 1 \in 1..q /\ p + 2 + (2 * k - 1) = p + 1 + 2 * k
      BY <1>2, <1>6
    <3>2. v[2 * k - 1] = s[p + 2 + (2 * k - 1)]
      BY <3>1, <1>8
    <3> QED
      BY <3>1, <3>2, <1>4
  <2>2. ASSUME NEW k \in 1..(c - 1) PROVE v[2 * k] < 0
    <3>1. 2 * k \in 1..q
      BY <1>2, <1>6
    <3> QED
      BY <3>1, <1>4, <1>8
  <2> QED
    BY <2>1, <2>2, <1>8 DEF Alternates, q, c, r
<1>11. /\ e = p + 2 + q /\ s[p + 1] = Sep /\ s[p + 2] = Sep
       /\ p = Width(Len(l)) /\ q = Width(Len(r))
  BY <1>4, <1>2 DEF p, q, c, r
<1> QED
  BY <1>9, <1>10, <1>11 DEF Doubled, u, v, s, l, r, e

LEMMA ReadRun ==
    ASSUME Final, addr \in [0..7 -> Words], best.base >= 0
    PROVE  /\ Gaps(Body, Sep) = {Start + 1}
           /\ Reading(Body, Sep, Embeds) = AsSeq(addr)
<1> DEFINE s == Body
           l == StartWords
           r == RestNumbers
           b == best.base
           n == best.len
           p == Width(Len(l))
<1>1. s \in Seq(Int) /\ BestKept /\ RunLaid
  <2>1. s \in Seq(Int) /\ BestKept /\ (~(best.base < 0) => RunLaid)
    BY DEF Final
  <2>2. ~(best.base < 0)
    BY <2>1 DEF BestKept
  <2> QED
    BY <2>1, <2>2
<1>2. /\ l \in Seq(Nat) /\ Len(l) = b /\ r \in Seq(Nat) /\ RestWords \in Seq(Int) /\ Len(RestWords) = 8 - b - n
      /\ \A x : Numbers(x) = l => PartWords(x, Embeds) = l
      /\ \A x : Numbers(x) = r => PartWords(x, Embeds) = RestWords
  BY <1>1, StartRead, RestRead
<1>3. b \in 0..7 /\ n \in 2..8 /\ b + n <= 8 /\ \A k \in b..(b + n - 1) : addr[k] = 0
  BY <1>1 DEF BestKept, Shortened
<1>4. Doubled(s, Sep, l, r)
  BY RunIsDoubled
<1>5. Start + 1 = p + 1 /\ p \in Nat
  <2>1. Len(l) = b
    BY <1>2
  <2>2. b \in Nat
    BY <1>3
  <2> HIDE DEF l
  <2>3. p = Start
    BY <2>1 DEF Start, Width
  <2>4. Start \in Nat
    BY <2>2 DEF Start, Width
  <2> HIDE DEF p
  <2> QED
    BY <2>3, <2>4
<1> HIDE DEF s, l, r, b, n
<1>6. Gaps(s, Sep) = {p + 1}
  BY <1>1, <1>2, <1>4, OneGap, SepNegative
<1> DEFINE u == SubSeq(s, 1, p)
           v == SubSeq(s, p + 3, Len(s))
<1>7. u \in Seq(Int) /\ v \in Seq(Int) /\ Alternates(u, l) /\ Alternates(v, r)
  <2>1. Alternates(u, l) /\ Alternates(v, r) /\ Len(s) = p + 2 + Width(Len(r))
    BY <1>4 DEF Doubled
  <2>2. Width(Len(r)) \in Nat
    BY <1>2, LenProperties DEF Width
  <2> DEFINE e == Len(s)
             q == Width(Len(r))
  <2>3. \A x \in 1..e : s[x] \in Int
    BY <1>1, ElementOfSeq DEF s
  <2> HIDE DEF e, p, q
  <2>4. e \in Int /\ p \in Int /\ 1 \in Int /\ p + 3 \in Int
        /\ (\A x \in 1..p : s[x] \in Int) /\ (\A x \in (p + 3)..e : s[x] \in Int)
    <3>1. e = p + 2 + q /\ p \in Nat /\ q \in Nat
      BY <2>1, <2>2, <1>5 DEF e, q
    <3> QED
      BY <3>1, <2>3
  <2>5. SubSeq(s, 1, p) \in Seq(Int)
    BY <2>4, SubSeqProperties
  <2>6. SubSeq(s, p + 3, e) \in Seq(Int)
    BY <2>4, SubSeqProperties
  <2> QED
    BY <2>1, <2>5, <2>6 DEF e
<1>8. PartWords(u, Embeds) = l /\ PartWords(v, Embeds) = RestWords
  <2> HIDE DEF u, v
  <2>1. Numbers(u) = l /\ Numbers(v) = r
    BY <1>2, <1>7, AlternatingNumbers
  <2> QED
    BY <2>1, <1>2
<1> HIDE DEF p, u, v
<1>9. LET ll == PartWords(u, Embeds)
          rr == PartWords(v, Embeds)
      IN  Reading(s, Sep, Embeds) = ll \o [z \in 1..(8 - Len(ll) - Len(rr)) |-> 0] \o rr
  <2> DEFINE g == p + 1
  <2>1. Gaps(s, Sep) = {g} /\ g - 1 = p /\ g + 2 = p + 3
    BY <1>5, <1>6
  <2> HIDE DEF g
  <2>2. LET ll == PartWords(SubSeq(s, 1, g - 1), Embeds)
            rr == PartWords(SubSeq(s, g + 2, Len(s)), Embeds)
        IN  Reading(s, Sep, Embeds) = ll \o [z \in 1..(8 - Len(ll) - Len(rr)) |-> 0] \o rr
    BY <2>1, ReadDoubled
  <2>3. SubSeq(s, 1, g - 1) = u /\ SubSeq(s, g + 2, Len(s)) = v
    BY <2>1 DEF u, v
  <2> QED
    BY <2>2, <2>3
<1>11. Reading(s, Sep, Embeds) = l \o [z \in 1..(8 - Len(l) - Len(RestWords)) |-> 0] \o RestWords
  BY <1>8, <1>9
<1>12. 8 - Len(l) - Len(RestWords) = n
  BY <1>2, <1>3
<1>13. l = [k \in 1..b |-> addr[k - 1]] /\ RestWords = [m \in 1..(8 - b - n) |-> addr[b + n + m - 1]]
  BY DEF StartWords, RestWords, l, b, n
<1>14. Reading(s, Sep, Embeds) = [x \in 1..8 |-> addr[x - 1]]
  <2>1. n \in 1..8
    BY <1>3
  <2>2. [k \in 1..b |-> addr[k - 1]] \o [z \in 1..n |-> 0]
              \o [m \in 1..(8 - b - n) |-> addr[b + n + m - 1]] = [x \in 1..8 |-> addr[x - 1]]
    BY <1>3, <2>1, Glued
  <2> QED
    BY <2>2, <1>11, <1>12, <1>13
<1> QED
  BY <1>5, <1>6, <1>14, AddressSeq DEF s

LEMMA FinalReadsBack == ASSUME AddrType, Final PROVE TextReadsBack /\ KeyTellsApart
<1>1. CASE addr \in [0..3 -> Bytes]
  <2>1. IsIPv4
    BY <1>1 DEF IsIPv4
  <2>2. Gaps(Body, Sep) = {} /\ Len(Numbers(Body)) = 4 /\ Decimals(Body) = AsSeq(addr)
    BY <1>1, ReadIPv4
  <2>3. TextReadsBack
    BY <2>1, <2>2 DEF TextReadsBack, Body
  <2>4. KeyTellsApart
    BY <2>2 DEF KeyTellsApart, Body, Sep
  <2> QED
    BY <2>3, <2>4
<1>2. CASE addr \in [0..7 -> Words]
  <2>1. ~IsIPv4
    <3>1. 7 \in 0..7 /\ 7 \notin 0..3
      OBVIOUS
    <3> QED
      BY <1>2, <3>1 DEF IsIPv4
  <2>2. BestKept /\ (pc = "text" => (Dot \in {text[x] : x \in DOMAIN text} <=> Embeds))
    BY <1>2 DEF Final
  <2>3. EmbedsIPv4 <=> Embeds
    BY <2>2 DEF BestKept
  <2>4. /\ Cardinality(Gaps(Body, Sep)) <= 1
        /\ Reading(Body, Sep, Embeds) = AsSeq(addr)
        /\ ~(Gaps(Body, Sep) = {} /\ Len(Numbers(Body)) = 4)
    <3>1. CASE best.base < 0
      <4>1. Gaps(Body, Sep) = {} /\ Len(Numbers(Body)) = 8 /\ Reading(Body, Sep, FALSE) = AsSeq(addr) /\ ~Embeds
        BY <1>2, <3>1, ReadNoRun
      <4>2. Cardinality(Gaps(Body, Sep)) = 0
        BY <4>1, FS_EmptySet
      <4>3. Embeds = FALSE
        BY <4>1 DEF Embeds
      <4>4. Reading(Body, Sep, Embeds) = AsSeq(addr)
        BY <4>1, <4>3, Zenon
      <4>5. Len(Numbers(Body)) # 4
        BY <4>1
      <4> QED
        BY <4>2, <4>4, <4>5
    <3>2. CASE best.base >= 0
      <4>1. Gaps(Body, Sep) = {Start + 1} /\ Reading(Body, Sep, Embeds) = AsSeq(addr)
        BY <1>2, <3>2, ReadRun
      <4>2. Cardinality(Gaps(Body, Sep)) = 1
        BY <4>1, FS_Singleton
      <4> QED
        BY <4>1, <4>2
    <3>3. best.base \in Int
      BY <2>2 DEF BestKept
    <3> QED
      BY <3>1, <3>2, <3>3
  <2>5. TextReadsBack
    <3>1. SUFFICES ASSUME pc = "text"
                   PROVE /\ Cardinality(Gaps(text, Colon)) <= 1
                         /\ Reading(text, Colon, Dot \in {text[x] : x \in DOMAIN text}) = AsSeq(addr)
      BY <2>1 DEF TextReadsBack
    <3>2. Body = text /\ Sep = Colon
      BY <3>1 DEF Body, Sep
    <3> DEFINE f == Dot \in {text[x] : x \in DOMAIN text}
    <3>3. f = Embeds
      BY <3>1, <2>2 DEF Embeds
    <3> HIDE DEF f
    <3>4. Cardinality(Gaps(text, Colon)) <= 1 /\ Reading(text, Colon, f) = AsSeq(addr)
      BY <2>4, <3>2, <3>3
    <3> QED
      BY <3>4 DEF f
  <2>6. KeyTellsApart
    <3>1. SUFFICES ASSUME pc = "key"
                   PROVE  KeyTellsApart
      BY DEF KeyTellsApart
    <3>2. Body = SubSeq(text, 1, Len(text) - 2) /\ Sep = Dot
      BY <3>1 DEF Body, Sep
    <3>3. EmbedsIPv4 = Embeds
      BY <2>3 DEF EmbedsIPv4, Embeds
    <3> QED
      BY <2>4, <3>2, <3>3 DEF KeyTellsApart
  <2> QED
    BY <2>5, <2>6
<1> QED
  BY <1>1, <1>2 DEF AddrType

-----------------------------------------------------------------------------
(* How a text is laid out while it is written.                             *)

\* The words from the end of the run to word i.
PartlyWritten ==
    /\ Len(text) = Start + 1 + 2 * (i - best.base - best.len)
    /\ \A m \in 1..(i - best.base - best.len) :
          /\ text[Start + 2 * m] = Colon
          /\ text[Start + 1 + 2 * m] = addr[best.base + best.len + m - 1]

\* The end of the text is an IPv4 address.
IPv4Written ==
    /\ Len(text) = Start + 2 + Width(Len(RestNumbers))
    /\ text[Start + 2] = Colon
    /\ \A m \in 1..Len(RestNumbers) : text[Start + 1 + 2 * m] = RestNumbers[m]
    /\ \A m \in 1..(Len(RestNumbers) - 1) : text[Start + 2 + 2 * m] < 0
    /\ \E x \in 1..Len(text) : text[x] = Dot

\* Words before the run, or all of them if there is none.
WordsWritten(n) == /\ \A k \in 1..n : text[2 * k - 1] = addr[k - 1]
                   /\ \A k \in 1..(n - 1) : text[2 * k] = Colon

FormatLaid ==
    /\ Embeds => i # 7
    /\ ~(Embeds /\ i = 8) => \A x \in 1..Len(text) : text[x] # Dot
    /\ IF best.base < 0 \/ i <= best.base
       THEN Len(text) = Width(i) /\ WordsWritten(i)
       ELSE /\ WordsWritten(best.base) /\ text[Start + 1] = Colon
            /\ IF i <= best.base + best.len THEN Len(text) = Start + 1
               ELSE IF Embeds /\ i = 8 THEN IPv4Written ELSE PartlyWritten

LayoutInv == /\ pc = "format" => FormatLaid /\ (EmbedsIPv4 <=> Embeds)
             /\ pc \in {"text", "key"} => Final

\* The longest run tells whether an IPv4 address is embedded.
LEMMA EmbedsIff ==
    ASSUME addr \in [0..7 -> Words], pc = "format", BestIsLongest, Shortened,
           best \in [base : (0 - 1)..7, len : 0..8]
    PROVE  EmbedsIPv4 <=> Embeds
<1> DEFINE Runs == {r \in [base : 0..7, len : 2..8] :
                        /\ r.base + r.len <= 8
                        /\ \A k \in r.base..(r.base + r.len - 1) : addr[k] = 0}
<1>1. ~IsIPv4
  <2>1. 7 \in 0..7 /\ 7 \notin 0..3
    OBVIOUS
  <2> QED
    BY <2>1 DEF IsIPv4
<1>2. IF Runs = {} THEN best.base < 0
      ELSE best \in Runs /\ \A r \in Runs : r.len < best.len \/ (r.len = best.len /\ r.base >= best.base)
  BY DEF BestIsLongest
<1>3. MaxWord # 0
  BY DEF MaxWord
<1>4. ASSUME NEW n \in 2..8, \A k \in 0..(n - 1) : addr[k] = 0
      PROVE  /\ best.base \in 0..7 /\ best.len \in 2..8 /\ best.base + best.len <= 8
             /\ \A k \in best.base..(best.base + best.len - 1) : addr[k] = 0
             /\ n < best.len \/ (n = best.len /\ best.base = 0)
  <2> DEFINE r == [base |-> 0, len |-> n]
  <2>1. r \in Runs /\ r.base = 0 /\ r.len = n
    BY <1>4
  <2>2. best \in Runs /\ (r.len < best.len \/ (r.len = best.len /\ r.base >= best.base))
    BY <1>2, <2>1
  <2>3. best.base \in 0..7 /\ best.len \in 2..8 /\ best.base + best.len <= 8
        /\ \A k \in best.base..(best.base + best.len - 1) : addr[k] = 0
    BY <2>2
  <2> HIDE DEF r, Runs
  <2> QED
    BY <2>1, <2>2, <2>3
<1>5. ASSUME Embeds PROVE EmbedsIPv4
  <2>1. best.base = 0 /\ best.len \in {5, 6} /\ \A k \in 0..(best.len - 1) : addr[k] = 0
    BY <1>5 DEF Embeds, Shortened
  <2>2. \A k \in 0..4 : addr[k] = 0
    BY <2>1
  <2>3. ASSUME best.len = 6 PROVE addr[5] = 0 /\ addr[6] # 0
    <3>1. addr[5] = 0 /\ \A k \in 0..5 : addr[k] = 0
      BY <2>1, <2>3
    <3>2. SUFFICES ASSUME addr[6] = 0 PROVE FALSE
      BY <3>1
    <3>3. \A k \in 0..(7 - 1) : addr[k] = 0
      BY <3>1, <3>2
    <3> QED
      BY <1>4, <2>3, <3>3, 7 \in 2..8
  <2>4. best.len = 6 \/ addr[5] = MaxWord
    BY <1>5 DEF Embeds
  <2> QED
    BY <1>1, <2>2, <2>3, <2>4 DEF EmbedsIPv4
<1>6. ASSUME EmbedsIPv4 PROVE Embeds
  <2>1. (\A k \in 0..4 : addr[k] = 0) /\ (addr[5] = MaxWord \/ (addr[5] = 0 /\ addr[6] # 0))
    BY <1>6 DEF EmbedsIPv4
  <2>2. CASE addr[5] = MaxWord
    <3>1. \A k \in 0..(5 - 1) : addr[k] = 0
      BY <2>1
    <3>2. /\ best.base \in 0..7 /\ best.len \in 2..8 /\ best.base + best.len <= 8
          /\ \A k \in best.base..(best.base + best.len - 1) : addr[k] = 0
          /\ 5 < best.len \/ (5 = best.len /\ best.base = 0)
      BY <3>1, <1>4, 5 \in 2..8
    <3>3. ~(5 < best.len)
      <4>1. SUFFICES ASSUME 5 < best.len PROVE FALSE
        OBVIOUS
      <4>2. 5 \in best.base..(best.base + best.len - 1)
        BY <4>1, <3>2
      <4>3. addr[5] = 0
        BY <4>2, <3>2
      <4> QED
        BY <4>3, <2>2, <1>3
    <3> QED
      BY <3>2, <3>3, <2>2 DEF Embeds
  <2>3. CASE addr[5] = 0 /\ addr[6] # 0
    <3>1. \A k \in 0..(6 - 1) : addr[k] = 0
      BY <2>1, <2>3
    <3>2. /\ best.base \in 0..7 /\ best.len \in 2..8 /\ best.base + best.len <= 8
          /\ \A k \in best.base..(best.base + best.len - 1) : addr[k] = 0
          /\ 6 < best.len \/ (6 = best.len /\ best.base = 0)
      BY <3>1, <1>4, 6 \in 2..8
    <3>3. ~(6 < best.len)
      <4>1. SUFFICES ASSUME 6 < best.len PROVE FALSE
        OBVIOUS
      <4>2. 6 \in best.base..(best.base + best.len - 1)
        BY <4>1, <3>2
      <4> QED
        BY <4>2, <3>2, <2>3
    <3> QED
      BY <3>2, <3>3 DEF Embeds
  <2> QED
    BY <2>1, <2>2, <2>3
<1> QED
  BY <1>5, <1>6

LEMMA ScanLaid ==
    ASSUME LongestInv, LongestInv', FitsInv, ScanZero \/ ScanWord \/ ScanEnd
    PROVE  LayoutInv'
<1>1. CASE ScanZero \/ ScanWord
  <2>1. pc' = "scan"
    BY <1>1 DEF ScanZero, ScanWord
  <2> QED
    BY <2>1 DEF LayoutInv
<1>2. CASE ScanEnd
  <2>1. pc' = "format" /\ i' = 0 /\ text' = <<>> /\ addr' = addr /\ pc = "scan"
    BY <1>2 DEF ScanEnd, FitsInv
  <2>2. addr' \in [0..7 -> Words] /\ BestIsLongest' /\ Shortened' /\ best' \in [base : (0 - 1)..7, len : 0..8]
    BY <2>1 DEF LongestInv, AddrType
  <2>3. (EmbedsIPv4 <=> Embeds)'
    <3>1. (addr \in [0..7 -> Words] /\ pc = "format" /\ BestIsLongest /\ Shortened
             /\ best \in [base : (0 - 1)..7, len : 0..8])'
      BY <2>1, <2>2
    <3> QED
      BY <3>1, EmbedsIff, PTL
  <2>4. best'.base < 0 \/ i' <= best'.base
    BY <2>1, <2>2
  <2>5. Len(text') = 0 /\ Width(i') = 0
    BY <2>1 DEF Width
  <2>6. WordsWritten(i)'
    BY <2>1 DEF WordsWritten
  <2>7. FormatLaid'
    BY <2>1, <2>4, <2>5, <2>6 DEF FormatLaid
  <2> QED
    BY <2>1, <2>3, <2>7 DEF LayoutInv
<1> QED
  BY <1>1, <1>2

LEMMA FormatIPv4Laid == ASSUME AddrType, FitsInv, FitsInv', FormatIPv4 PROVE LayoutInv'
<1>1. addr \in [0..3 -> Bytes] /\ addr' = addr
  BY DEF FormatIPv4, AddrType
<1>2. pc' = "text" /\ text' = Dotted(addr[0], addr[1], addr[2], addr[3])
  BY <1>1 DEF FormatIPv4, FitsInv, AddrLen, IsIPv4
<1>3. text' \in Seq(Int)
  BY <1>2 DEF FitsInv
<1>4. Body' = text'
  BY <1>2 DEF Body
<1>5. IPv4Laid'
  <2> DEFINE A == Decimal(addr[0])
             B == Decimal(addr[1])
             C == Decimal(addr[2])
             D == Decimal(addr[3])
             E == Dot
  <2>1. text' = <<A, E, B, E, C, E, D>>
    BY <1>2 DEF Dotted
  <2>2. E \in Int /\ E < 0
    BY DEF Dot
  <2>3. ASSUME NEW k \in 0..3 PROVE text'[2 * k + 1] = Decimal(addr[k])
    <3>1. k = 0 \/ k = 1 \/ k = 2 \/ k = 3
      OBVIOUS
    <3>2. k = 0 => text'[2 * k + 1] = A
      BY <2>1
    <3>3. k = 1 => text'[2 * k + 1] = B
      BY <2>1
    <3>4. k = 2 => text'[2 * k + 1] = C
      BY <2>1
    <3>5. k = 3 => text'[2 * k + 1] = D
      BY <2>1
    <3> QED
      BY <3>1, <3>2, <3>3, <3>4, <3>5
  <2> HIDE DEF A, B, C, D, E
  <2>4. Len(text') = 7
    BY <2>1
  <2>5. ASSUME NEW k \in 1..3 PROVE text'[2 * k] < 0
    <3>1. k = 1 \/ k = 2 \/ k = 3
      OBVIOUS
    <3>2. text'[2 * k] = E
      BY <2>1, <3>1
    <3> QED
      BY <3>2, <2>2
  <2> QED
    BY <1>1, <1>4, <2>3, <2>4, <2>5 DEF IPv4Laid
<1>6. ~(addr' \in [0..7 -> Words])
  <2>1. 7 \in 0..7 /\ 7 \notin 0..3
    OBVIOUS
  <2>2. DOMAIN addr' = 0..3
    BY <1>1
  <2> QED
    BY <2>1, <2>2
<1>7. Final'
  BY <1>3, <1>4, <1>5, <1>6 DEF Final
<1> QED
  BY <1>2, <1>7 DEF LayoutInv

LEMMA AppendAt ==
    ASSUME NEW S, NEW s \in Seq(S), NEW e \in S
    PROVE  /\ Append(s, e) \in Seq(S) /\ Len(Append(s, e)) = Len(s) + 1
           /\ \A x \in 1..Len(s) : Append(s, e)[x] = s[x]
           /\ Append(s, e)[Len(s) + 1] = e
BY AppendProperties, LenProperties

\* What a step that writes leaves alone.
LEMMA WritingSame ==
    ASSUME addr' = addr, best' = best
    PROVE  /\ Start' = Start /\ (Embeds' <=> Embeds) /\ (EmbedsIPv4' <=> EmbedsIPv4)
           /\ RestNumbers' = RestNumbers
<1>1. Start' = Start
  BY DEF Start, Width
<1>2. Embeds' <=> Embeds
  BY DEF Embeds
<1>3. EmbedsIPv4' <=> EmbedsIPv4
  BY DEF EmbedsIPv4, IsIPv4
<1>4. IPv4Numbers' = IPv4Numbers
  BY DEF IPv4Numbers, Decimal
<1>5. RestNumbers' = RestNumbers
  BY <1>2, <1>4 DEF RestNumbers
<1> QED
  BY <1>1, <1>2, <1>3, <1>5

\* The state in which a token is written.
LEMMA WritingState ==
    ASSUME LongestInv, FitsInv, LayoutInv, pc = "format"
    PROVE  /\ FormatLaid /\ (EmbedsIPv4 <=> Embeds) /\ text \in Seq(Int)
           /\ addr \in [0..7 -> Words] /\ i \in 0..8 /\ Shortened
           /\ best \in [base : (0 - 1)..7, len : 0..8]
BY DEF LongestInv, AddrType, FitsInv, FormatFits, LayoutInv

LEMMA WriteRunLaid == ASSUME LongestInv, FitsInv, LayoutInv, WriteRun PROVE LayoutInv'
<1>1. pc = "format" /\ pc' = "format" /\ i < 8 /\ i' = i + 1 /\ addr' = addr /\ best' = best
      /\ text' = IF i = best.base THEN Append(text, Colon) ELSE text
  BY DEF WriteRun, Formatting
<1>2. /\ FormatLaid /\ (EmbedsIPv4 <=> Embeds) /\ text \in Seq(Int) /\ Len(text) \in Nat
      /\ i \in 0..7 /\ Shortened
      /\ best \in [base : (0 - 1)..7, len : 0..8]
  BY <1>1, WritingState
<1>3. best.base \in 0..7 /\ best.len \in 2..8 /\ i \in best.base..(best.base + best.len - 1)
  BY <1>2 DEF WriteRun, InRun, Shortened
<1>4. Start' = Start /\ (Embeds' <=> Embeds) /\ (EmbedsIPv4' <=> EmbedsIPv4)
  BY <1>1, WritingSame
<1>5. Embeds => i <= 5
  BY <1>3 DEF Embeds
<1>6. \A x \in 1..Len(text) : text[x] # Dot
  BY <1>2, <1>5 DEF FormatLaid
<1>7. CASE i = best.base
  <2>1. Len(text) = Start /\ WordsWritten(best.base)
    BY <1>2, <1>7 DEF FormatLaid, Start
  <2>2. /\ text' = Append(text, Colon) /\ Colon \in Int /\ Colon # Dot
    BY <1>1, <1>7 DEF Colon, Dot
  <2>3. /\ Len(text') = Start + 1 /\ text'[Start + 1] = Colon
        /\ \A x \in 1..Start : text'[x] = text[x]
    BY <1>2, <2>1, <2>2, AppendAt
  <2>4. \A k \in 1..best.base : 2 * k - 1 \in 1..Start
    BY <1>3 DEF Start, Width
  <2>5. \A k \in 1..(best.base - 1) : 2 * k \in 1..Start
    BY <1>3 DEF Start, Width
  <2>6. WordsWritten(best.base)'
    BY <1>1, <2>1, <2>3, <2>4, <2>5 DEF WordsWritten
  <2>7. \A x \in 1..Len(text') : text'[x] # Dot
    <3>1. ASSUME NEW x \in 1..(Start + 1) PROVE text'[x] # Dot
      <4>1. x \in 1..Start \/ x = Start + 1
        BY <1>2, <2>1
      <4> QED
        BY <4>1, <2>1, <2>2, <2>3, <1>6
    <3> QED
      BY <3>1, <2>3
  <2>8. ~(best'.base < 0 \/ i' <= best'.base) /\ i' <= best'.base + best'.len /\ (Embeds => i' # 7)
    BY <1>1, <1>2, <1>3, <1>5, <1>7
  <2>9. FormatLaid'
    BY <1>4, <2>3, <2>6, <2>7, <2>8 DEF FormatLaid
  <2> QED
    BY <1>1, <1>2, <1>4, <2>9 DEF LayoutInv
<1>8. CASE i # best.base
  <2>1. text' = text /\ i > best.base /\ i <= best.base + best.len
    BY <1>1, <1>3, <1>8
  <2>2. WordsWritten(best.base) /\ text[Start + 1] = Colon /\ Len(text) = Start + 1
    BY <1>2, <1>3, <2>1 DEF FormatLaid
  <2>3. WordsWritten(best.base)'
    BY <1>1, <2>1, <2>2 DEF WordsWritten
  <2>4. ~(best'.base < 0 \/ i' <= best'.base) /\ i' <= best'.base + best'.len /\ (Embeds => i' # 7)
    BY <1>1, <1>2, <1>3, <1>5, <2>1
  <2>5. FormatLaid'
    BY <1>4, <1>6, <2>1, <2>2, <2>3, <2>4 DEF FormatLaid
  <2> QED
    BY <1>1, <1>2, <1>4, <2>5 DEF LayoutInv
<1> QED
  BY <1>7, <1>8

LEMMA AppendTwo ==
    ASSUME NEW S, NEW s \in Seq(S), NEW e \in S, NEW f \in S
    PROVE  LET t == Append(Append(s, e), f)
           IN  /\ t \in Seq(S) /\ Len(t) = Len(s) + 2
               /\ \A x \in 1..Len(s) : t[x] = s[x]
               /\ t[Len(s) + 1] = e /\ t[Len(s) + 2] = f
<1> DEFINE r == Append(s, e)
           t == Append(r, f)
           m == Len(s)
<1>1. /\ r \in Seq(S) /\ Len(r) = m + 1 /\ m \in Nat
      /\ \A x \in 1..m : r[x] = s[x]
      /\ r[m + 1] = e
  BY AppendAt, LenProperties
<1> HIDE DEF r
<1>2. /\ t \in Seq(S) /\ Len(t) = Len(r) + 1
      /\ \A x \in 1..Len(r) : t[x] = r[x]
      /\ t[Len(r) + 1] = f
  BY <1>1, AppendAt
<1> HIDE DEF t, m
<1>3. Len(t) = m + 2 /\ t[m + 1] = e /\ t[m + 2] = f
  BY <1>1, <1>2
<1>4. \A x \in 1..m : t[x] = s[x]
  BY <1>1, <1>2
<1> QED
  BY <1>2, <1>3, <1>4 DEF t, r, m

LEMMA WriteWordLaid == ASSUME LongestInv, FitsInv, LayoutInv, WriteWord PROVE LayoutInv'
<1>1. pc = "format" /\ pc' = "format" /\ i < 8 /\ i' = i + 1 /\ addr' = addr /\ best' = best
      /\ ~InRun /\ ~Encapsulated /\ text' = Append(Separated, addr[i])
  BY DEF WriteWord, Formatting
<1>2. /\ FormatLaid /\ (EmbedsIPv4 <=> Embeds) /\ text \in Seq(Int) /\ Len(text) \in Nat
      /\ addr \in [0..7 -> Words] /\ i \in 0..7 /\ Shortened
      /\ best \in [base : (0 - 1)..7, len : 0..8]
  BY <1>1, WritingState
<1>3. Start' = Start /\ (Embeds' <=> Embeds) /\ (EmbedsIPv4' <=> EmbedsIPv4)
  BY <1>1, WritingSame
<1>4. addr[i] \in Int /\ addr[i] # Dot
  <2>1. addr \in [0..7 -> Words] /\ i \in 0..7
    BY <1>2
  <2>2. addr[i] \in Nat
    BY <2>1, WordRange
  <2> QED
    BY <2>2 DEF Dot
<1>5. Colon \in Int /\ Colon # Dot
  BY DEF Colon, Dot
<1>6. \A x \in 1..Len(text) : text[x] # Dot
  BY <1>1, <1>2 DEF FormatLaid
<1>7. CASE i = 0
  <2>1. best.base < 0 \/ best.base > 0
    BY <1>1, <1>2, <1>7 DEF InRun, Shortened
  <2>2. Len(text) = 0
    BY <1>2, <2>1, <1>7 DEF FormatLaid, Width
  <2>3. Len(text') = 1 /\ text'[1] = addr[0]
    <3>1. text' = Append(text, addr[i])
      BY <1>1, <1>7 DEF Separated
    <3> QED
      BY <3>1, <2>2, <1>2, <1>4, <1>7, AppendAt
  <2>4. i' = 1 /\ (best'.base < 0 \/ i' <= best'.base) /\ Width(i') = 1
    BY <1>1, <1>2, <1>7, <2>1 DEF Width
  <2>5. WordsWritten(i)'
    BY <1>1, <2>3, <2>4 DEF WordsWritten
  <2>6. \A x \in 1..Len(text') : text'[x] # Dot
    BY <2>3, <1>4, <1>7
  <2>7. FormatLaid'
    BY <2>3, <2>4, <2>5, <2>6 DEF FormatLaid
  <2> QED
    BY <1>1, <1>2, <1>3, <2>7 DEF LayoutInv
<1>8. CASE i > 0
  <2> DEFINE m == Len(text)
  <2>1. /\ Len(text') = m + 2 /\ text'[m + 1] = Colon /\ text'[m + 2] = addr[i]
        /\ \A x \in 1..m : text'[x] = text[x]
    <3>1. text' = Append(Append(text, Colon), addr[i])
      BY <1>1, <1>8 DEF Separated
    <3> QED
      BY <3>1, <1>2, <1>4, <1>5, AppendTwo
  <2> HIDE DEF m
  <2>2. \A x \in 1..Len(text') : text'[x] # Dot
    <3>1. ASSUME NEW x \in 1..(m + 2) PROVE text'[x] # Dot
      <4>1. x \in 1..m \/ x = m + 1 \/ x = m + 2
        <5>1. m \in Nat
          BY <1>2 DEF m
        <5> QED
          BY <5>1
      <4>2. \A y \in 1..m : text[y] # Dot
        BY <1>6 DEF m
      <4> QED
        BY <4>1, <4>2, <2>1, <1>4, <1>5
    <3> QED
      BY <3>1, <2>1
  <2>3. CASE best.base < 0 \/ i < best.base
    <3>1. m = 2 * i - 1 /\ WordsWritten(i)
      BY <1>2, <1>8, <2>3 DEF FormatLaid, Width, m
    <3>2. ~Embeds
      BY <1>2, <2>3 DEF Embeds
    <3>3. (best'.base < 0 \/ i' <= best'.base) /\ Len(text') = Width(i') /\ i' = i + 1
      BY <1>1, <1>2, <1>8, <2>1, <2>3, <3>1 DEF Width
    <3>4. ASSUME NEW k \in 1..(i + 1) PROVE text'[2 * k - 1] = addr[k - 1]
      <4>1. CASE k \in 1..i
        <5>1. 2 * k - 1 \in 1..m
          BY <4>1, <1>2, <3>1
        <5> QED
          BY <5>1, <4>1, <2>1, <3>1 DEF WordsWritten
      <4>2. CASE k = i + 1
        <5>1. 2 * k - 1 = m + 2 /\ k - 1 = i
          BY <4>2, <1>2, <3>1
        <5> QED
          BY <5>1, <2>1
      <4> QED
        BY <4>1, <4>2, <1>2
    <3>5. ASSUME NEW k \in 1..i PROVE text'[2 * k] = Colon
      <4>1. CASE k \in 1..(i - 1)
        <5>1. 2 * k \in 1..m
          BY <4>1, <1>2, <3>1
        <5> QED
          BY <5>1, <4>1, <2>1, <3>1 DEF WordsWritten
      <4>2. CASE k = i
        <5>1. 2 * k = m + 1
          BY <4>2, <1>2, <3>1
        <5> QED
          BY <5>1, <2>1
      <4> QED
        BY <4>1, <4>2, <1>2
    <3>6. WordsWritten(i)'
      <4>1. (i + 1) - 1 = i
        BY <1>2
      <4> QED
        BY <1>1, <3>4, <3>5, <4>1 DEF WordsWritten
    <3>7. FormatLaid'
      BY <1>3, <2>2, <3>2, <3>3, <3>6 DEF FormatLaid
    <3> QED
      BY <1>1, <1>2, <1>3, <3>7 DEF LayoutInv
  <2>4. CASE ~(best.base < 0 \/ i < best.base)
    <3> DEFINE e == best.base + best.len
               d == i - e
    <3>1. best.base \in 0..7 /\ best.len \in 2..8 /\ e \in 2..8 /\ i >= e /\ d \in 0..7 /\ e + d = i
      <4>1. best.base \in 0..7
        BY <1>2, <2>4
      <4>2. best.len \in 2..8 /\ best.base + best.len <= 8
        BY <1>2, <4>1 DEF Shortened
      <4>3. ~(i \in best.base..(best.base + best.len - 1))
        BY <1>1, <4>1 DEF InRun
      <4> QED
        BY <4>1, <4>2, <4>3, <1>2, <2>4
    <3>2. Embeds => i # 6 /\ i # 7
      BY <1>1, <1>2 DEF Encapsulated, Embeds, FormatLaid
    <3>3. WordsWritten(best.base) /\ text[Start + 1] = Colon /\ PartlyWritten
      <4>1. WordsWritten(best.base) /\ text[Start + 1] = Colon
            /\ IF i <= best.base + best.len THEN Len(text) = Start + 1 ELSE PartlyWritten
        <5>1. FormatLaid /\ ~(best.base < 0 \/ i <= best.base) /\ ~(Embeds /\ i = 8)
          <6>1. FormatLaid /\ i \in 0..7 /\ best.base \in 0..7 /\ best.len \in 2..8
                /\ i >= best.base + best.len
            BY <1>2, <3>1
          <6>2. ~(best.base < 0) /\ ~(i <= best.base) /\ i # 8
            BY <6>1
          <6> QED
            BY <6>1, <6>2
        <5> QED
          BY <5>1 DEF FormatLaid
      <4>2. CASE i <= best.base + best.len
        <5>1. i - best.base - best.len = 0 /\ Len(text) = Start + 1
          <6>1. i \in Int /\ i <= e /\ i >= e /\ best.base \in Int /\ best.len \in Int
            BY <4>2, <3>1, <1>2
          <6>2. i - best.base - best.len = 0
            BY <6>1
          <6> QED
            BY <6>2, <4>1, <4>2
        <5>2. Start \in Int
          BY <3>1 DEF Start, Width
        <5> QED
          BY <4>1, <5>1, <5>2 DEF PartlyWritten
      <4> QED
        BY <4>1, <4>2
    <3>4. Start \in Nat /\ i - best.base - best.len = d /\ m = Start + 1 + 2 * d
      <4>1. Start \in Nat
        BY <3>1 DEF Start, Width
      <4>2. i - best.base - best.len = d
        <5>1. i \in Int /\ best.base \in Int /\ best.len \in Int
          BY <3>1, <1>2
        <5> QED
          BY <5>1
      <4> QED
        BY <4>1, <4>2, <3>3 DEF PartlyWritten, m
    <3>5. \A x \in 1..d : /\ text[Start + 2 * x] = Colon
                          /\ text[Start + 1 + 2 * x] = addr[e + x - 1]
      BY <3>3, <3>4 DEF PartlyWritten
    <3>6. i' - best'.base - best'.len = d + 1 /\ best'.base + best'.len = e
      <4>1. i \in Int /\ best.base \in Int /\ best.len \in Int
        BY <3>1, <1>2
      <4>2. (i + 1) - best.base - best.len = d + 1
        BY <4>1
      <4> QED
        BY <1>1, <4>2
    <3> HIDE DEF d, e
    <3>7. ASSUME NEW x \in 1..(d + 1)
          PROVE  text'[Start + 2 * x] = Colon /\ text'[Start + 1 + 2 * x] = addr[e + x - 1]
      <4>1. CASE x \in 1..d
        <5>1. Start + 2 * x \in 1..m /\ Start + 1 + 2 * x \in 1..m
          BY <4>1, <3>1, <3>4
        <5> QED
          BY <5>1, <4>1, <3>5, <2>1
      <4>2. CASE x = d + 1
        <5>1. Start + 2 * x = m + 1 /\ Start + 1 + 2 * x = m + 2 /\ e + x - 1 = i
          BY <4>2, <3>1, <3>4
        <5> QED
          BY <5>1, <2>1
      <4> QED
        BY <4>1, <4>2, <3>1
    <3>8. PartlyWritten'
      <4>1. Len(text') = Start + 1 + 2 * (d + 1)
        BY <2>1, <3>1, <3>4
      <4> QED
        BY <4>1, <3>6, <3>7, <1>1, <1>3 DEF PartlyWritten
    <3>9. \A k \in 1..best.base : 2 * k - 1 \in 1..m
      BY <3>1, <3>4 DEF Start, Width
    <3>10. \A k \in 1..(best.base - 1) : 2 * k \in 1..m
      BY <3>1, <3>4 DEF Start, Width
    <3>11. WordsWritten(best.base)'
      BY <1>1, <3>3, <2>1, <3>9, <3>10 DEF WordsWritten
    <3>12. text'[Start + 1] = Colon
      <4>1. Start + 1 \in 1..m
        BY <3>1, <3>4
      <4> QED
        BY <4>1, <3>3, <2>1
    <3>13. /\ ~(best'.base < 0 \/ i' <= best'.base) /\ ~(i' <= best'.base + best'.len)
           /\ (Embeds => i' # 7 /\ i' # 8)
      <4>1. best'.base = best.base /\ best'.len = best.len /\ i' = i + 1
        BY <1>1
      <4>2. best.base \in 0..7 /\ best.len \in 2..8 /\ i \in 0..7 /\ i >= best.base + best.len
        BY <1>2, <3>1 DEF e
      <4>3. ~(best.base < 0 \/ i + 1 <= best.base) /\ ~(i + 1 <= best.base + best.len)
        BY <4>2
      <4>4. Embeds => i + 1 # 7 /\ i + 1 # 8
        BY <4>2, <3>2
      <4> QED
        BY <4>1, <4>3, <4>4
    <3>14. FormatLaid'
      BY <1>3, <2>2, <3>8, <3>11, <3>12, <3>13 DEF FormatLaid
    <3> QED
      BY <1>1, <1>2, <1>3, <3>14 DEF LayoutInv
  <2> QED
    BY <2>3, <2>4
<1> QED
  BY <1>2, <1>7, <1>8

LEMMA DottedLaid ==
    ASSUME addr \in [0..7 -> Words]
    PROVE  LET d == Dotted(addr[6] \div 256, addr[6] % 256, addr[7] \div 256, addr[7] % 256)
           IN  /\ d \in Seq(Int) /\ Len(d) = 7
               /\ \A k \in 1..4 : d[2 * k - 1] = IPv4Numbers[k]
               /\ \A k \in 1..3 : d[2 * k] = Dot
<1> DEFINE A == Decimal(addr[6] \div 256)
           B == Decimal(addr[6] % 256)
           C == Decimal(addr[7] \div 256)
           D == Decimal(addr[7] % 256)
           E == Dot
           d == Dotted(addr[6] \div 256, addr[6] % 256, addr[7] \div 256, addr[7] % 256)
<1>1. d \in Seq(Int)
  <2>1. addr[6] \div 256 \in 0..MaxByte /\ addr[6] % 256 \in 0..MaxByte
    BY WordBytes, 6 \in 0..7
  <2>2. addr[7] \div 256 \in 0..MaxByte /\ addr[7] % 256 \in 0..MaxByte
    BY WordBytes, 7 \in 0..7
  <2> QED
    BY <2>1, <2>2, DottedChars
<1>2. d = <<A, E, B, E, C, E, D>> /\ IPv4Numbers = <<A, B, C, D>>
  BY DEF Dotted, IPv4Numbers
<1> HIDE DEF A, B, C, D, d
<1>3. Len(d) = 7
  BY <1>2
<1>4. ASSUME NEW k \in 1..4 PROVE d[2 * k - 1] = IPv4Numbers[k]
  <2>1. k = 1 \/ k = 2 \/ k = 3 \/ k = 4
    OBVIOUS
  <2>2. d[1] = A /\ d[3] = B /\ d[5] = C /\ d[7] = D
    BY <1>2
  <2>3. IPv4Numbers[1] = A /\ IPv4Numbers[2] = B /\ IPv4Numbers[3] = C /\ IPv4Numbers[4] = D
    BY <1>2
  <2> QED
    BY <2>1, <2>2, <2>3
<1>5. ASSUME NEW k \in 1..3 PROVE d[2 * k] = Dot
  <2>1. k = 1 \/ k = 2 \/ k = 3
    OBVIOUS
  <2>2. d[2] = E /\ d[4] = E /\ d[6] = E
    BY <1>2
  <2> QED
    BY <2>1, <2>2
<1> QED
  BY <1>1, <1>3, <1>4, <1>5 DEF d

LEMMA WriteIPv4Laid == ASSUME LongestInv, FitsInv, FitsInv', LayoutInv, WriteIPv4 PROVE LayoutInv'
<1> DEFINE s == Separated
           d == Dotted(addr[6] \div 256, addr[6] % 256, addr[7] \div 256, addr[7] % 256)
           r == RestNumbers
           Rest == /\ Len(text') = 2 + Width(Len(r)) /\ text'[1] = Colon /\ text'[2] = Colon
                   /\ \A m \in 1..Len(r) : text'[1 + 2 * m] = r[m]
                   /\ \A m \in 1..(Len(r) - 1) : text'[2 + 2 * m] < 0
                   /\ \E x \in 1..Len(text') : text'[x] = Dot
<1>1. pc = "format" /\ i = 6 /\ i' = 8 /\ addr' = addr /\ best' = best /\ best.base = 0
      /\ (best.len = 6 \/ (best.len = 5 /\ addr[5] = MaxWord))
  BY DEF WriteIPv4, Formatting, Encapsulated
<1>2. pc' = "format" /\ text' = s \o d
  <2>1. pc' # "null"
    BY DEF FitsInv
  <2>2. IF TmpLen - Chars(Separated) < 16
        THEN pc' = "null" /\ text' = Separated
        ELSE text' = s \o d /\ pc' = pc
    BY DEF WriteIPv4
  <2> HIDE DEF s, d
  <2> QED
    BY <2>1, <2>2, <1>1
<1>3. /\ FormatLaid /\ (EmbedsIPv4 <=> Embeds) /\ text \in Seq(Int) /\ Len(text) \in Nat
      /\ addr \in [0..7 -> Words]
  BY <1>1, WritingState
<1>4. Start' = Start /\ (Embeds' <=> Embeds) /\ (EmbedsIPv4' <=> EmbedsIPv4) /\ RestNumbers' = r
  BY <1>1, WritingSame
<1>5. Embeds /\ Start = 0
  BY <1>1 DEF Embeds, Start, Width
<1>6. /\ d \in Seq(Int) /\ Len(d) = 7
      /\ \A k \in 1..4 : d[2 * k - 1] = IPv4Numbers[k]
      /\ \A k \in 1..3 : d[2 * k] = Dot
  BY <1>3, DottedLaid
<1>7. s = Append(text, Colon) /\ Colon \in Int /\ Colon < 0 /\ Dot < 0
  BY <1>1 DEF Separated, Colon, Dot
<1>8. s \in Seq(Int) /\ Len(s) = Len(text) + 1 /\ s[Len(text) + 1] = Colon
      /\ \A x \in 1..Len(text) : s[x] = text[x]
  BY <1>3, <1>7, AppendAt
<1> HIDE DEF s, d, r, Rest
<1>9. /\ Len(text') = Len(s) + 7
      /\ \A x \in 1..Len(s) : text'[x] = s[x]
      /\ \A x \in 1..7 : text'[Len(s) + x] = d[x]
  <2>1. s \in Seq(Int) /\ d \in Seq(Int)
    BY <1>6, <1>8
  <2>2. /\ Len(s \o d) = Len(s) + Len(d)
        /\ \A x \in 1..Len(s) : (s \o d)[x] = s[x]
        /\ \A x \in 1..Len(d) : (s \o d)[Len(s) + x] = d[x]
    BY <2>1, ConcatAt
  <2>3. Len(d) = 7
    BY <1>6
  <2> QED
    BY <2>2, <2>3, <1>2
<1>10. text[1] = Colon
  BY <1>1, <1>3, <1>5 DEF FormatLaid
<1>11. ASSUME best.len = 6 PROVE Rest
  <2>1. Len(text) = 1
    BY <1>1, <1>3, <1>5, <1>11 DEF FormatLaid
  <2>2. /\ Len(text') = 9 /\ text'[1] = Colon /\ text'[2] = Colon
        /\ \A x \in 1..7 : text'[2 + x] = d[x]
    BY <1>8, <1>9, <1>10, <2>1
  <2>3. r = IPv4Numbers /\ Len(r) = 4
    BY <1>5, <1>11 DEF RestNumbers, IPv4Numbers, r
  <2>4. ASSUME NEW m \in 1..4 PROVE text'[1 + 2 * m] = r[m]
    <3>1. 2 * m - 1 \in 1..7 /\ 2 + (2 * m - 1) = 1 + 2 * m
      OBVIOUS
    <3>2. text'[2 + (2 * m - 1)] = d[2 * m - 1]
      BY <3>1, <2>2
    <3> QED
      BY <3>1, <3>2, <2>3, <1>6
  <2>5. ASSUME NEW m \in 1..3 PROVE text'[2 + 2 * m] = Dot
    BY <2>2, <1>6
  <2>6. Width(4) = 7
    BY DEF Width
  <2>7. \A m \in 1..(4 - 1) : text'[2 + 2 * m] < 0
    BY <2>5, <1>7
  <2>8. text'[2 + 2 * 1] = Dot /\ 2 + 2 * 1 \in 1..9
    BY <2>5, 1 \in 1..3
  <2> QED
    BY <2>2, <2>3, <2>4, <2>6, <2>7, <2>8 DEF Rest
<1>12. ASSUME best.len = 5 PROVE Rest
  <2>1. Len(text) = 3 /\ text[2] = Colon /\ text[3] = addr[5]
    <3>1. i - best.base - best.len = 1 /\ ~(best.base < 0 \/ i <= best.base)
          /\ ~(i <= best.base + best.len) /\ ~(Embeds /\ i = 8)
      BY <1>1, <1>12
    <3>2. PartlyWritten
      BY <1>3, <3>1 DEF FormatLaid
    <3>3. /\ Len(text) = 0 + 1 + 2 * 1
          /\ text[0 + 2 * 1] = Colon /\ text[0 + 1 + 2 * 1] = addr[0 + 5 + 1 - 1]
      BY <3>1, <3>2, <1>1, <1>5, <1>12, 1 \in 1..1 DEF PartlyWritten
    <3> QED
      BY <3>3
  <2>2. /\ Len(text') = 11 /\ text'[1] = Colon /\ text'[2] = Colon
        /\ text'[3] = addr[5] /\ text'[4] = Colon
        /\ \A x \in 1..7 : text'[4 + x] = d[x]
    BY <1>8, <1>9, <1>10, <2>1
  <2>3. r = <<addr[5], IPv4Numbers[1], IPv4Numbers[2], IPv4Numbers[3], IPv4Numbers[4]>>
    BY <1>5, <1>12 DEF RestNumbers, r
  <2>4. Len(r) = 5 /\ r[1] = addr[5] /\ \A k \in 1..4 : r[k + 1] = IPv4Numbers[k]
    <3> DEFINE F == addr[5]
               G == IPv4Numbers[1]
               H == IPv4Numbers[2]
               J == IPv4Numbers[3]
               K == IPv4Numbers[4]
    <3>1. r = <<F, G, H, J, K>>
      BY <2>3
    <3> HIDE DEF F, G, H, J, K
    <3>2. Len(r) = 5 /\ r[1] = F /\ r[2] = G /\ r[3] = H /\ r[4] = J /\ r[5] = K
      BY <3>1
    <3>3. ASSUME NEW k \in 1..4 PROVE r[k + 1] = IPv4Numbers[k]
      <4>1. k = 1 \/ k = 2 \/ k = 3 \/ k = 4
        OBVIOUS
      <4> QED
        BY <4>1, <3>2 DEF G, H, J, K
    <3> QED
      BY <3>2, <3>3 DEF F
  <2>5. ASSUME NEW m \in 1..5 PROVE text'[1 + 2 * m] = r[m]
    <3>1. CASE m = 1
      BY <3>1, <2>2, <2>4
    <3>2. CASE m \in 2..5
      <4>1. m - 1 \in 1..4 /\ (m - 1) + 1 = m /\ 2 * (m - 1) - 1 \in 1..7 /\ 4 + (2 * (m - 1) - 1) = 1 + 2 * m
        BY <3>2
      <4>2. text'[4 + (2 * (m - 1) - 1)] = d[2 * (m - 1) - 1]
        BY <4>1, <2>2
      <4>3. d[2 * (m - 1) - 1] = IPv4Numbers[m - 1] /\ r[(m - 1) + 1] = IPv4Numbers[m - 1]
        BY <4>1, <1>6, <2>4
      <4> QED
        BY <4>1, <4>2, <4>3
    <3> QED
      BY <3>1, <3>2
  <2>6. ASSUME NEW m \in 1..4 PROVE text'[2 + 2 * m] < 0 /\ (m = 4 => text'[2 + 2 * m] = Dot)
    <3>1. CASE m = 1
      BY <3>1, <2>2, <1>7
    <3>2. CASE m \in 2..4
      <4>1. m - 1 \in 1..3 /\ 2 * (m - 1) \in 1..7 /\ 4 + 2 * (m - 1) = 2 + 2 * m
        BY <3>2
      <4>2. text'[4 + 2 * (m - 1)] = d[2 * (m - 1)] /\ d[2 * (m - 1)] = Dot
        BY <4>1, <2>2, <1>6
      <4> QED
        BY <4>1, <4>2, <1>7
    <3> QED
      BY <3>1, <3>2
  <2>7. Width(5) = 9
    BY DEF Width
  <2>8. text'[2 + 2 * 4] = Dot /\ 2 + 2 * 4 \in 1..11
    BY <2>6, 4 \in 1..4
  <2>9. \A m \in 1..(5 - 1) : text'[2 + 2 * m] < 0
    BY <2>6
  <2> QED
    BY <2>2, <2>4, <2>5, <2>7, <2>8, <2>9 DEF Rest
<1>13. Rest
  BY <1>1, <1>11, <1>12
<1>14. IPv4Written'
  <2>1. \A x \in Int : 0 + x = x
    OBVIOUS
  <2>2. Start' = 0 /\ RestNumbers' = r
    BY <1>4, <1>5
  <2>3. Len(text') = Start' + 2 + Width(Len(RestNumbers')) /\ text'[Start' + 2] = Colon
    BY <1>13, <2>2 DEF Rest
  <2>4. \A m \in 1..Len(RestNumbers') : text'[Start' + 1 + 2 * m] = RestNumbers'[m]
    BY <1>13, <2>2 DEF Rest
  <2>5. \A m \in 1..(Len(RestNumbers') - 1) : text'[Start' + 2 + 2 * m] < 0
    BY <1>13, <2>2 DEF Rest
  <2>6. \E x \in 1..Len(text') : text'[x] = Dot
    BY <1>13 DEF Rest
  <2>7. Width(Len(RestNumbers))' = Width(Len(RestNumbers'))
    BY DEF Width
  <2> QED
    BY <2>3, <2>4, <2>5, <2>6, <2>7 DEF IPv4Written
<1>15. WordsWritten(best.base)' /\ text'[Start' + 1] = Colon
  BY <1>1, <1>4, <1>5, <1>13 DEF WordsWritten, Rest
<1>16. /\ ~(best'.base < 0 \/ i' <= best'.base) /\ ~(i' <= best'.base + best'.len)
       /\ Embeds' /\ i' = 8
  BY <1>1, <1>4, <1>5
<1>17. FormatLaid'
  BY <1>14, <1>15, <1>16 DEF FormatLaid
<1> QED
  BY <1>2, <1>3, <1>4, <1>17 DEF LayoutInv

LEMMA FormatEndLaid == ASSUME LongestInv, FitsInv, FitsInv', LayoutInv, FormatEnd PROVE LayoutInv'
<1> DEFINE b == best.base
           n == best.len
           r == RestNumbers
           Dots == Dot \in {text'[x] : x \in DOMAIN text'}
<1>1. pc = "format" /\ i = 8 /\ text' = Ended /\ addr' = addr /\ best' = best /\ pc' = "text"
  BY DEF FormatEnd, FitsInv
<1>2. /\ FormatLaid /\ (EmbedsIPv4 <=> Embeds) /\ text \in Seq(Int) /\ Len(text) \in Nat
      /\ addr \in [0..7 -> Words] /\ Shortened
      /\ best \in [base : (0 - 1)..7, len : 0..8]
  BY <1>1, WritingState
<1>3. Start' = Start /\ (Embeds' <=> Embeds) /\ (EmbedsIPv4' <=> EmbedsIPv4) /\ RestNumbers' = r
  BY <1>1, WritingSame
<1>4. Body' = text' /\ Sep' = Colon /\ text' \in Seq(Int)
  BY <1>1 DEF Body, Sep, FitsInv
<1>5. BestKept'
  BY <1>1, <1>2, <1>3 DEF BestKept, Shortened
<1>6. ~(addr' \in [0..3 -> Bytes])
  <2>1. 7 \in 0..7 /\ 7 \notin 0..3
    OBVIOUS
  <2>2. DOMAIN addr' = 0..7
    BY <1>1, <1>2
  <2> QED
    BY <2>1, <2>2
<1>7. SUFFICES /\ IF b < 0 THEN WholeLaid' ELSE RunLaid'
               /\ Dots <=> Embeds
  BY <1>1, <1>3, <1>4, <1>5, <1>6 DEF LayoutInv, Final
<1>8. Colon \in Int /\ Colon < 0 /\ Colon # Dot
  BY DEF Colon, Dot
<1>9. ASSUME NEW s \in Seq(Int), \A x \in 1..Len(s) : s[x] # Dot PROVE Dot \notin {s[x] : x \in DOMAIN s}
  BY <1>9, LenProperties
<1>10. CASE b < 0
  <2>1. ~Embeds
    BY <1>10 DEF Embeds
  <2>2. text' = text /\ Len(text) = 15 /\ WordsWritten(8)
    BY <1>1, <1>2, <1>10 DEF Ended, FormatLaid, Width
  <2>3. \A x \in 1..Len(text) : text[x] # Dot
    BY <1>2, <2>1 DEF FormatLaid
  <2>4. WholeLaid'
    BY <1>1, <1>4, <1>8, <2>2 DEF WholeLaid, WordsWritten
  <2> QED
    BY <1>2, <1>9, <1>10, <2>1, <2>2, <2>3, <2>4
<1>11. ASSUME ~(b < 0) PROVE /\ b \in 0..7 /\ n \in 2..8 /\ b + n <= 8 /\ b + n \in 2..8
                             /\ WordsWritten(b) /\ text[Start + 1] = Colon
                             /\ Start \in Nat /\ Start = Width(b)
                             /\ \A k \in 1..b : 2 * k - 1 \in 1..Start
                             /\ \A k \in 1..(b - 1) : 2 * k \in 1..Start
  <2>1. b \in 0..7
    BY <1>2, <1>11
  <2>2. n \in 2..8 /\ b + n <= 8
    BY <1>2, <1>11 DEF Shortened
  <2>3. WordsWritten(b) /\ text[Start + 1] = Colon
    BY <1>1, <1>2, <2>1 DEF FormatLaid
  <2>4. Start \in Nat /\ Start = Width(b)
        /\ (\A k \in 1..b : 2 * k - 1 \in 1..Start) /\ (\A k \in 1..(b - 1) : 2 * k \in 1..Start)
    BY <2>1 DEF Start, Width
  <2> QED
    BY <2>1, <2>2, <2>3, <2>4
<1>12. ASSUME ~Embeds, ~(b < 0)
       PROVE  Len(r) = 8 - b - n /\ \A m \in 1..(8 - b - n) : r[m] = addr[b + n + m - 1]
  <2> DEFINE c == 8 - b - n
  <2>1. r = [m \in 1..c |-> addr[b + n + m - 1]]
    BY <1>12 DEF RestNumbers
  <2>2. c \in Nat /\ b + n + c = 8 /\ b + n \in 2..8
    <3>1. b \in 0..7 /\ n \in 2..8 /\ b + n <= 8
      BY <1>11, <1>12
    <3>2. \A x \in 0..7 : \A y \in 2..8 :
             x + y <= 8 => 8 - x - y \in Nat /\ x + y + (8 - x - y) = 8 /\ x + y \in 2..8
      OBVIOUS
    <3> QED
      BY <3>1, <3>2
  <2>3. ASSUME NEW m \in 1..c PROVE addr[b + n + m - 1] \in Words
    <3>1. b + n + m - 1 \in 0..7
      BY <2>2
    <3> QED
      BY <3>1, <1>2
  <2> HIDE DEF c, r
  <2>4. r \in [1..c -> Words]
    BY <2>1, <2>3
  <2>5. Len(r) = c
    BY <2>2, <2>4
  <2> QED
    BY <2>1, <2>5 DEF c
<1>13. ASSUME ~(b < 0), text' = text \/ text' = Append(text, Colon), Start + 1 <= Len(text)
       PROVE  /\ \A k \in 1..b : text'[2 * k - 1] = addr[k - 1]
              /\ \A k \in 1..(b - 1) : text'[2 * k] < 0
              /\ text'[Start + 1] = Colon
  <2>1. \A x \in 1..Len(text) : text'[x] = text[x]
    <3>1. \A x \in 1..Len(text) : Append(text, Colon)[x] = text[x]
      BY <1>2, <1>8, AppendAt
    <3> QED
      BY <3>1, <1>13
  <2>2. \A x \in 1..(Start + 1) : text'[x] = text[x]
    BY <2>1, <1>11, <1>2, <1>13
  <2>3. \A k \in 1..b : 2 * k - 1 \in 1..(Start + 1)
    BY <1>11, <1>13
  <2>4. \A k \in 1..(b - 1) : 2 * k \in 1..(Start + 1)
    BY <1>11, <1>13
  <2>5. WordsWritten(b) /\ text[Start + 1] = Colon /\ Start + 1 \in 1..(Start + 1)
    BY <1>11, <1>13
  <2> QED
    BY <2>2, <2>3, <2>4, <2>5, <1>8 DEF WordsWritten
<1>14. CASE ~(b < 0) /\ b + n = 8
  <2>1. ~Embeds
    BY <1>14 DEF Embeds
  <2>2. text' = Append(text, Colon) /\ Len(text) = Start + 1
    <3>1. b \in 0..7 /\ ~(b < 0 \/ i <= b) /\ i <= b + n /\ b >= 0
      <4>1. b \in 0..7 /\ n \in 2..8
        BY <1>11, <1>14
      <4> QED
        BY <4>1, <1>1, <1>14
    <3> QED
      BY <3>1, <1>1, <1>2, <1>14 DEF Ended, FormatLaid
  <2>3. Len(text') = Start + 2 /\ text'[Start + 2] = Colon /\ \A x \in 1..(Start + 1) : text'[x] = text[x]
    BY <1>2, <1>8, <1>11, <1>14, <2>2, AppendAt
  <2>4. \A x \in 1..Len(text') : text'[x] # Dot
    <3>1. \A x \in 1..(Start + 1) : text[x] # Dot
      BY <1>2, <2>1, <2>2 DEF FormatLaid
    <3>2. \A x \in 1..(Start + 2) : x \in 1..(Start + 1) \/ x = Start + 2
      BY <1>11, <1>14
    <3> QED
      BY <3>1, <3>2, <2>3, <1>8
  <2>5. Len(r) = 0
    <3>1. Len(r) = 8 - b - n /\ b \in 0..7 /\ n \in 2..8
      BY <1>11, <1>12, <1>14, <2>1
    <3>2. 8 - b - n = 0
      <4>1. \A x \in 0..7 : \A y \in 2..8 : x + y = 8 => 8 - x - y = 0
        OBVIOUS
      <4> QED
        BY <4>1, <3>1, <1>14
    <3> QED
      BY <3>1, <3>2
  <2>6. RunLaid'
    <3>1. /\ \A k \in 1..b : text'[2 * k - 1] = addr[k - 1]
          /\ \A k \in 1..(b - 1) : text'[2 * k] < 0
          /\ text'[Start + 1] = Colon
      BY <1>13, <1>11, <1>14, <2>2
    <3>2. Width(0) = 0 /\ Start \in Nat
      BY <1>11, <1>14 DEF Width
    <3> HIDE DEF r
    <3> QED
      BY <3>1, <3>2, <1>1, <1>3, <1>4, <2>3, <2>5 DEF RunLaid, Width
  <2> QED
    BY <1>4, <1>9, <1>14, <2>1, <2>4, <2>6
<1>15. CASE ~(b < 0) /\ b + n # 8 /\ Embeds
  <2>1. text' = text /\ IPv4Written
    <3>1. ~(b < 0 \/ i <= b) /\ ~(i <= b + n)
      BY <1>1, <1>11, <1>15
    <3> QED
      BY <1>1, <1>2, <1>15, <3>1 DEF Ended, FormatLaid
  <2>2. Dots
    BY <2>1, <1>2, LenProperties DEF IPv4Written
  <2>3. Start + 1 <= Len(text)
    <3>1. Start \in Nat /\ Len(text) = Start + 2 + Width(Len(RestNumbers))
      BY <1>11, <1>15, <2>1 DEF IPv4Written
    <3>2. Len(RestNumbers) \in {4, 5}
      BY <1>15 DEF RestNumbers, IPv4Numbers, Embeds
    <3>3. Width(Len(RestNumbers)) \in {7, 9}
      <4>1. \A x \in {4, 5} : Width(x) \in {7, 9}
        BY DEF Width
      <4> QED
        BY <3>2, <4>1
    <3> QED
      BY <3>1, <3>3
  <2>4. /\ \A k \in 1..b : text'[2 * k - 1] = addr[k - 1]
        /\ \A k \in 1..(b - 1) : text'[2 * k] < 0
        /\ text'[Start + 1] = Colon
    BY <1>13, <1>15, <2>1, <2>3
  <2>5. RunLaid'
    <3> HIDE DEF r
    <3> QED
      BY <1>1, <1>3, <1>4, <2>1, <2>4 DEF RunLaid, IPv4Written, Width, r
  <2> QED
    BY <1>15, <2>2, <2>5
<1>16. CASE ~(b < 0) /\ b + n # 8 /\ ~Embeds
  <2> DEFINE c == 8 - b - n
  <2>1. c \in 1..6 /\ Start \in Nat
    BY <1>11, <1>16
  <2>2. text' = text /\ PartlyWritten
    <3>1. ~(b < 0 \/ i <= b) /\ ~(i <= b + n)
      BY <1>1, <1>11, <1>16
    <3> QED
      BY <1>1, <1>2, <1>16, <3>1 DEF Ended, FormatLaid
  <2>3. /\ Len(text) = Start + 1 + 2 * c
        /\ \A m \in 1..c : /\ text[Start + 2 * m] = Colon
                           /\ text[Start + 1 + 2 * m] = addr[b + n + m - 1]
    BY <1>1, <2>2 DEF PartlyWritten
  <2>4. Len(r) = c /\ \A m \in 1..c : r[m] = addr[b + n + m - 1]
    BY <1>12, <1>16
  <2> HIDE DEF c, r
  <2>5. /\ \A k \in 1..b : text'[2 * k - 1] = addr[k - 1]
        /\ \A k \in 1..(b - 1) : text'[2 * k] < 0
        /\ text'[Start + 1] = Colon
    <3>1. Start + 1 <= Len(text)
      BY <2>1, <2>3
    <3> QED
      BY <3>1, <1>13, <1>16, <2>2
  <2>6. text'[Start + 2] = Colon
    <3>1. 1 \in 1..c
      BY <2>1
    <3>2. text[Start + 2 * 1] = Colon
      BY <3>1, <2>3
    <3> QED
      BY <3>2, <2>2
  <2>7. ASSUME NEW m \in 1..(c - 1) PROVE text'[Start + 2 + 2 * m] < 0
    <3>1. m + 1 \in 1..c /\ Start + 2 + 2 * m = Start + 2 * (m + 1)
      BY <2>1
    <3> QED
      BY <3>1, <2>2, <2>3, <1>8
  <2>8. Width(c) = 2 * c - 1 /\ Len(text') = Start + 2 + Width(c)
    <3>1. Width(c) = 2 * c - 1
      BY <2>1 DEF Width
    <3> QED
      BY <3>1, <2>1, <2>2, <2>3
  <2>9. \A m \in 1..c : text'[Start + 1 + 2 * m] = r[m]
    BY <2>2, <2>3, <2>4
  <2>10. RunLaid'
    <3>1. Width(Len(r)) = Width(c) /\ Width(Len(RestNumbers))' = Width(Len(r))
      BY <2>4, <1>3 DEF Width
    <3> QED
      BY <3>1, <1>1, <1>3, <1>4, <2>4, <2>5, <2>6, <2>7, <2>8, <2>9 DEF RunLaid
  <2>11. \A x \in 1..Len(text) : text[x] # Dot
    BY <1>2, <1>16 DEF FormatLaid
  <2> QED
    BY <1>2, <1>9, <1>16, <2>2, <2>10, <2>11
<1> QED
  BY <1>10, <1>14, <1>15, <1>16

\* The half of a key keeps the numbers and puts its own separator everywhere.
LEMMA MakeKeyBody ==
    ASSUME pc = "text", text \in Seq(Int), MakeKey
    PROVE  /\ pc' = "key" /\ addr' = addr /\ best' = best /\ Body = text
           /\ Body' \in Seq(Int) /\ Len(Body') = Len(Body)
           /\ \A x \in 1..Len(Body) : Body'[x] = IF Body[x] = Colon THEN Dot ELSE Body[x]
<1> DEFINE n == Len(text)
           u == [x \in DOMAIN text |-> IF text[x] = Colon THEN Dot ELSE text[x]]
<1>1. pc' = "key" /\ addr' = addr /\ best' = best /\ Body = text
  BY DEF MakeKey, Body
<1>2. PICK port \in Ports : text' = u \o <<Dot, DigitsOf[port]>>
  BY DEF MakeKey
<1> DEFINE g == DigitsOf[port]
           S == Int \cup {g}
           v == <<Dot, g>>
<1>3. n \in Nat /\ DOMAIN text = 1..n /\ \A x \in 1..n : text[x] \in Int
  BY LenProperties, ElementOfSeq
<1>4. u \in [1..n -> Int] /\ \A x \in 1..n : u[x] = IF text[x] = Colon THEN Dot ELSE text[x]
  <2>1. Dot \in Int
    BY DEF Dot
  <2> HIDE DEF n
  <2> QED
    BY <1>3, <2>1
<1>5. u \in Seq(S) /\ Len(u) = n
  <2> HIDE DEF u, n
  <2>1. u \in Seq(Int) /\ Len(u) = n
    BY <1>3, <1>4
  <2> QED
    BY <2>1, <1>3, <1>4
<1>6. v \in Seq(S) /\ Len(v) = 2
  <2>1. Dot \in S /\ g \in S
    BY DEF Dot
  <2> HIDE DEF S, g
  <2> QED
    BY <2>1
<1> HIDE DEF u, v, S, n
<1>7. text' = u \o v
  BY <1>2 DEF v
<1>8. Len(text') = n + 2 /\ \A x \in 1..n : text'[x] = u[x]
  <2>1. Len(u \o v) = Len(u) + Len(v) /\ \A x \in 1..Len(u) : (u \o v)[x] = u[x]
    <3>1. u \in Seq(S) /\ v \in Seq(S)
      BY <1>5, <1>6
    <3> QED
      BY <3>1, ConcatAt
  <2> QED
    BY <2>1, <1>5, <1>6, <1>7
<1>9. Body' = SubSeq(text', 1, n)
  <2>1. Len(text') - 2 = n
    BY <1>3, <1>8
  <2>2. Body' = SubSeq(text', 1, Len(text') - 2)
    BY <1>1 DEF Body
  <2> QED
    BY <2>1, <2>2
<1>10. \A x \in 1..n : text'[x] \in Int
  BY <1>4, <1>8
<1>11. n \in Int /\ 1 \in Int
  BY <1>3
<1>12. /\ Body' \in Seq(Int) /\ Len(Body') = IF 1 <= n THEN n - 1 + 1 ELSE 0
       /\ \A x \in 1..(n - 1 + 1) : Body'[x] = text'[1 + x - 1]
  BY <1>9, <1>10, <1>11, SubSeqProperties
<1>13. Len(Body') = n
  BY <1>12, <1>3
<1>14. ASSUME NEW x \in 1..n PROVE Body'[x] = text'[x]
  <2>1. x \in 1..(n - 1 + 1) /\ 1 + x - 1 = x
    BY <1>3
  <2> QED
    BY <2>1, <1>12
<1> QED
  BY <1>1, <1>4, <1>8, <1>12, <1>13, <1>14 DEF n

LEMMA MakeKeyLaid == ASSUME AddrType, FitsInv, LayoutInv, MakeKey PROVE LayoutInv'
<1> DEFINE s == Body
           e == Len(Body)
           r == RestNumbers
<1>1. pc = "text" /\ Final /\ text \in Seq(Int)
  BY DEF MakeKey, LayoutInv, FitsInv
<1>2. /\ pc' = "key" /\ addr' = addr /\ best' = best
      /\ Body' \in Seq(Int) /\ Len(Body') = e
      /\ \A x \in 1..e : Body'[x] = IF s[x] = Colon THEN Dot ELSE s[x]
  BY <1>1, MakeKeyBody
<1>3. Start' = Start /\ (Embeds' <=> Embeds) /\ (EmbedsIPv4' <=> EmbedsIPv4) /\ RestNumbers' = r
  BY <1>2, WritingSame
<1>4. Sep = Colon /\ Sep' = Dot /\ Colon < 0 /\ Dot < 0
  BY <1>1, <1>2 DEF Sep, Colon, Dot
<1>5. s \in Seq(Int) /\ e \in Nat /\ \A x \in 1..e : s[x] \in Int
  BY <1>1, LenProperties, ElementOfSeq DEF Final
<1> HIDE DEF s, e, r
<1>6. ASSUME NEW x \in 1..e PROVE /\ s[x] >= 0 => Body'[x] = s[x]
                                  /\ s[x] < 0 => Body'[x] < 0
                                  /\ s[x] = Sep => Body'[x] = Sep'
  BY <1>2, <1>4, <1>5
<1>7. CASE addr \in [0..3 -> Bytes]
  <2>1. e = 7 /\ (\A k \in 0..3 : s[2 * k + 1] = Decimal(addr[k])) /\ \A k \in 1..3 : s[2 * k] < 0
    BY <1>1, <1>7 DEF Final, IPv4Laid, s, e
  <2>2. ASSUME NEW k \in 0..3 PROVE Body'[2 * k + 1] = Decimal(addr[k])
    <3>1. Decimal(addr[k]) \in Nat
      BY <1>7, ByteRange, DecimalRange
    <3>2. 2 * k + 1 \in 1..e
      BY <2>1
    <3> QED
      BY <3>1, <3>2, <2>1, <1>6
  <2>3. ASSUME NEW k \in 1..3 PROVE Body'[2 * k] < 0
    <3>1. 2 * k \in 1..e
      BY <2>1
    <3> QED
      BY <3>1, <2>1, <1>6
  <2>4. IPv4Laid'
    <3>1. \A k \in 0..3 : Body'[2 * k + 1] = Decimal(addr'[k])
      BY <2>2, <1>2
    <3> QED
      BY <1>2, <2>1, <2>3, <3>1 DEF IPv4Laid, Decimal
  <2>5. ~(addr' \in [0..7 -> Words])
    <3>1. 7 \in 0..7 /\ 7 \notin 0..3
      OBVIOUS
    <3>2. DOMAIN addr' = 0..3
      BY <1>2, <1>7
    <3> QED
      BY <3>1, <3>2
  <2> QED
    BY <1>2, <2>4, <2>5 DEF LayoutInv, Final
<1>8. CASE addr \in [0..7 -> Words]
  <2>1. BestKept /\ IF best.base < 0 THEN WholeLaid ELSE RunLaid
    BY <1>1, <1>8 DEF Final
  <2>2. BestKept'
    BY <1>2, <1>3, <2>1 DEF BestKept, Shortened
  <2>3. ~(addr' \in [0..3 -> Bytes])
    <3>1. 7 \in 0..7 /\ 7 \notin 0..3
      OBVIOUS
    <3>2. DOMAIN addr' = 0..7
      BY <1>2, <1>8
    <3> QED
      BY <3>1, <3>2
  <2>4. \A k \in 0..7 : addr[k] >= 0
    <3>1. ASSUME NEW k \in 0..7 PROVE addr[k] >= 0
      <4>1. addr[k] \in Nat
        BY <1>8, WordRange
      <4> QED
        BY <4>1
    <3> QED
      BY <3>1
  <2>5. SUFFICES IF best.base < 0 THEN WholeLaid' ELSE RunLaid'
    BY <1>2, <2>2, <2>3 DEF LayoutInv, Final
  <2>6. CASE best.base < 0
    <3>1. e = 15 /\ (\A k \in 1..8 : s[2 * k - 1] = addr[k - 1]) /\ \A k \in 1..7 : s[2 * k] < 0
      BY <2>1, <2>6 DEF WholeLaid, s, e
    <3>2. ASSUME NEW k \in 1..8 PROVE Body'[2 * k - 1] = addr[k - 1]
      <4>1. 2 * k - 1 \in 1..e /\ k - 1 \in 0..7
        BY <3>1
      <4> QED
        BY <4>1, <3>1, <2>4, <1>6
    <3>3. ASSUME NEW k \in 1..7 PROVE Body'[2 * k] < 0
      <4>1. 2 * k \in 1..e
        BY <3>1
      <4> QED
        BY <4>1, <3>1, <1>6
    <3> QED
      BY <1>2, <2>6, <3>1, <3>2, <3>3 DEF WholeLaid
  <2>7. CASE ~(best.base < 0)
    <3> DEFINE b == best.base
               c == Len(r)
    <3>1. /\ e = Start + 2 + Width(c)
          /\ \A k \in 1..b : s[2 * k - 1] = addr[k - 1]
          /\ \A k \in 1..(b - 1) : s[2 * k] < 0
          /\ s[Start + 1] = Sep /\ s[Start + 2] = Sep
          /\ \A m \in 1..c : s[Start + 1 + 2 * m] = r[m]
          /\ \A m \in 1..(c - 1) : s[Start + 2 + 2 * m] < 0
      BY <2>1, <2>7 DEF RunLaid, s, e, r
    <3>2. b \in 0..7
      BY <2>1, <2>7 DEF BestKept
    <3>3. r \in Seq(Nat)
      <4>1. best.base >= 0
        BY <3>2
      <4> QED
        BY <4>1, <1>8, <2>1, RestRead DEF r
    <3>4. c \in Nat /\ \A m \in 1..c : r[m] \in Nat
      BY <3>3, LenProperties, ElementOfSeq
    <3>5. /\ Start \in Nat /\ Width(c) \in Nat /\ Start = Width(b)
          /\ \A k \in 1..b : 2 * k - 1 \in 1..Start
          /\ \A k \in 1..(b - 1) : 2 * k \in 1..Start
          /\ \A m \in 1..c : 2 * m - 1 \in 1..Width(c)
          /\ \A m \in 1..(c - 1) : 2 * m \in 1..Width(c)
      <4> HIDE DEF c
      <4>1. /\ Start \in Nat /\ Start = Width(b)
            /\ \A k \in 1..b : 2 * k - 1 \in 1..Start
            /\ \A k \in 1..(b - 1) : 2 * k \in 1..Start
        BY <3>2 DEF Start, Width
      <4>2. /\ Width(c) \in Nat
            /\ \A m \in 1..c : 2 * m - 1 \in 1..Width(c)
            /\ \A m \in 1..(c - 1) : 2 * m \in 1..Width(c)
        BY <3>4 DEF Width
      <4> QED
        BY <4>1, <4>2
    <3> HIDE DEF c
    <3>6. ASSUME NEW k \in 1..b PROVE Body'[2 * k - 1] = addr[k - 1]
      <4>1. 2 * k - 1 \in 1..Start /\ k - 1 \in 0..7
        BY <3>2, <3>5
      <4>2. 2 * k - 1 \in 1..e
        BY <4>1, <3>1, <3>5
      <4> QED
        BY <4>1, <4>2, <3>1, <2>4, <1>6
    <3>7. ASSUME NEW k \in 1..(b - 1) PROVE Body'[2 * k] < 0
      <4>1. 2 * k \in 1..Start
        BY <3>5
      <4>2. 2 * k \in 1..e
        BY <4>1, <3>1, <3>5
      <4> QED
        BY <4>2, <3>1, <1>6
    <3>8. Body'[Start + 1] = Sep' /\ Body'[Start + 2] = Sep'
      <4>1. Start + 1 \in 1..e /\ Start + 2 \in 1..e
        BY <3>1, <3>5
      <4> QED
        BY <4>1, <3>1, <1>6
    <3>9. ASSUME NEW m \in 1..c PROVE Body'[Start + 1 + 2 * m] = r[m]
      <4>1. 2 * m - 1 \in 1..Width(c)
        BY <3>5
      <4>2. Start + 1 + 2 * m \in 1..e
        BY <4>1, <3>1, <3>4, <3>5
      <4>3. r[m] \in Nat /\ s[Start + 1 + 2 * m] = r[m]
        BY <3>1, <3>4
      <4> QED
        BY <4>2, <4>3, <1>6
    <3>10. ASSUME NEW m \in 1..(c - 1) PROVE Body'[Start + 2 + 2 * m] < 0
      <4>1. 2 * m \in 1..Width(c)
        BY <3>5
      <4>2. Start + 2 + 2 * m \in 1..e
        BY <4>1, <3>1, <3>4, <3>5
      <4> QED
        BY <4>2, <3>1, <1>6
    <3>11. RunLaid'
      <4>1. Len(RestNumbers') = c /\ Width(Len(RestNumbers))' = Width(c)
        BY <1>3 DEF Width, c
      <4> QED
        BY <1>2, <1>3, <3>1, <3>6, <3>7, <3>8, <3>9, <3>10, <4>1 DEF RunLaid
    <3> QED
      BY <2>7, <3>11
  <2> QED
    BY <2>6, <2>7
<1> QED
  BY <1>7, <1>8 DEF AddrType

LEMMA InitLaid == Init => LayoutInv
<1>1. Init => pc \in {"v4", "scan"}
  BY DEF Init
<1> QED
  BY <1>1 DEF LayoutInv

LEMMA StepLaid == LongestInv /\ LongestInv' /\ FitsInv /\ FitsInv' /\ LayoutInv /\ [Next]_vars => LayoutInv'
<1> SUFFICES ASSUME LongestInv, LongestInv', FitsInv, FitsInv', LayoutInv, [Next]_vars PROVE LayoutInv'
  OBVIOUS
<1>1. AddrType
  BY DEF LongestInv
<1>2. CASE UNCHANGED vars
  <2>1. /\ pc' = pc /\ addr' = addr /\ best' = best /\ text' = text /\ i' = i
    BY <1>2 DEF vars
  <2>2. Start' = Start /\ (Embeds' <=> Embeds) /\ (EmbedsIPv4' <=> EmbedsIPv4) /\ RestNumbers' = RestNumbers
    BY <2>1, WritingSame
  <2>3. Body' = Body /\ Sep' = Sep
    BY <2>1 DEF Body, Sep
  <2>4. Width(Len(RestNumbers))' = Width(Len(RestNumbers)) /\ Width(i)' = Width(i)
    BY <2>1, <2>2 DEF Width
  <2>5. WordsWritten(i)' = WordsWritten(i) /\ WordsWritten(best.base)' = WordsWritten(best.base)
    BY <2>1 DEF WordsWritten
  <2>6. PartlyWritten' <=> PartlyWritten
    BY <2>1, <2>2 DEF PartlyWritten
  <2>7. IPv4Written' <=> IPv4Written
    BY <2>1, <2>2, <2>4 DEF IPv4Written
  <2>8. FormatLaid' <=> FormatLaid
    BY <2>1, <2>2, <2>4, <2>5, <2>6, <2>7 DEF FormatLaid
  <2>9. IPv4Laid' <=> IPv4Laid
    BY <2>1, <2>3 DEF IPv4Laid, Decimal
  <2>10. (WholeLaid' <=> WholeLaid) /\ (BestKept' <=> BestKept)
    BY <2>1, <2>2, <2>3 DEF WholeLaid, BestKept, Shortened
  <2>11. RunLaid' <=> RunLaid
    BY <2>1, <2>2, <2>3, <2>4 DEF RunLaid
  <2>12. Final' <=> Final
    BY <2>1, <2>2, <2>3, <2>9, <2>10, <2>11 DEF Final
  <2> QED
    BY <2>1, <2>2, <2>8, <2>12 DEF LayoutInv
<1>3. CASE Next
  BY <1>1, <1>3, FormatIPv4Laid, ScanLaid, WriteRunLaid, WriteWordLaid, WriteIPv4Laid,
     FormatEndLaid, MakeKeyLaid DEF Next
<1> QED
  BY <1>2, <1>3

LEMMA LaidAlways == Spec => []LayoutInv
BY InitLaid, StepLaid, LongestAlways, FitsAlways, PTL DEF Spec

LEMMA LaidReadsBack == LongestInv /\ LayoutInv => TextReadsBack /\ KeyTellsApart
<1> SUFFICES ASSUME LongestInv, LayoutInv PROVE TextReadsBack /\ KeyTellsApart
  OBVIOUS
<1>1. CASE pc \in {"text", "key"}
  BY <1>1, FinalReadsBack DEF LayoutInv, LongestInv
<1>2. CASE pc \notin {"text", "key"}
  BY <1>2 DEF TextReadsBack, KeyTellsApart
<1> QED
  BY <1>1, <1>2

\* For every address: its text, read as RFC 4291 reads it, says the address
\* again, whatever zeros it has and wherever they are (_inet_ntop).
THEOREM TextsReadBack == Spec => []TextReadsBack
BY LaidReadsBack, LongestAlways, LaidAlways, PTL

\* For every address and port: the address can be told from its half of a flow
\* key, where '.' stands for ':' (get_ip_port_pair), once one knows whether it
\* embeds an IPv4 address.
THEOREM KeysTellApart == Spec => []KeyTellsApart
BY LaidReadsBack, LongestAlways, LaidAlways, PTL
=============================================================================
