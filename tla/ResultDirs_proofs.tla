-------------------------- MODULE ResultDirs_proofs --------------------------
(***************************************************************************)
(* Proofs about ResultDirs for all file systems, with any number of links  *)
(* that lead anywhere, any locked directory, and any limit on links.       *)
(***************************************************************************)
EXTENDS ResultDirs, SequenceTheorems, FiniteSetTheorems, TLAPS

Path == Seq(Names)

-----------------------------------------------------------------------------
(* Paths.                                                                  *)

LEMMA ParentPath ==
    ASSUME NEW p \in Path, p # Root
    PROVE  Len(p) \in Nat \ {0} /\ Parent(p) \in Path /\ Len(Parent(p)) = Len(p) - 1
<1>1. Len(p) \in Nat \ {0} /\ \A i \in 1..(Len(p) - 1) : p[i] \in Names
  BY EmptySeq DEF Path, Root
<1>2. /\ SubSeq(p, 1, Len(p) - 1) \in Seq(Names)
      /\ Len(SubSeq(p, 1, Len(p) - 1)) = IF 1 <= Len(p) - 1 THEN Len(p) - 1 - 1 + 1 ELSE 0
  BY <1>1, SubSeqProperties
<1> DEFINE l == Len(p)
           q == SubSeq(p, 1, Len(p) - 1)
<1> HIDE DEF l, q
<1>3. l \in Nat \ {0} /\ q \in Path /\ Len(q) = IF 1 <= l - 1 THEN l - 1 - 1 + 1 ELSE 0
  BY <1>1, <1>2 DEF l, q, Path
<1>4. Len(q) = l - 1
  BY <1>3
<1> QED
  BY <1>3, <1>4 DEF Parent, l, q

LEMMA UnderItself ==
    ASSUME NEW p \in Path
    PROVE  Under(p, p)
BY SubSeqFull, LenProperties DEF Under, Path

\* What is in a directory under d is under d, and deeper by one.
LEMMA ChildUnder ==
    ASSUME NEW p \in Path, NEW d \in Path, p # Root, Under(Parent(p), d)
    PROVE  Under(p, d) /\ Len(p) > Len(d)
<1>1. Len(p) \in Nat \ {0} /\ Parent(p) \in Path /\ Len(Parent(p)) = Len(p) - 1 /\ Len(d) \in Nat
  BY ParentPath, LenProperties DEF Path
<1>2. Len(d) <= Len(p) - 1 /\ SubSeq(Parent(p), 1, Len(d)) = d
  BY <1>1 DEF Under
<1>3. SubSeq(p, 1, Len(d)) = d
  <2>1. CASE Len(d) = 0
    BY <2>1, SubSeqEmpty, EmptySeq DEF Path
  <2>2. CASE Len(d) # 0
    <3> DEFINE n == Len(d)
               l == Len(p)
    <3>1. l \in Nat /\ n \in 1..(l - 1) /\ 1 \in 1..l /\ l - 1 \in 1..l /\ 1 \in 1..((l - 1) - 1 + 1)
          /\ n \in 1..((l - 1) - 1 + 1) /\ 1 + n - 1 = n /\ 1 + 1 - 1 = 1
      BY <1>1, <1>2, <2>2
    <3> HIDE DEF n
    <3>2. SubSeq(SubSeq(p, 1, l - 1), 1, n) = SubSeq(p, 1 + 1 - 1, 1 + n - 1)
      BY <3>1, SubSeqOfSubSeq, p \in Seq(Names) DEF Path
    <3> QED
      BY <3>1, <3>2, <1>2 DEF Parent, n
  <2> QED
    BY <2>1, <2>2
<1> QED
  BY <1>1, <1>2, <1>3 DEF Under

\* The paths init_environment makes.
LEMMA ResultPaths ==
    ASSUME home \in Path
    PROVE  \A d \in {Pcaps, Reqts} : d \in Path /\ d # Root /\ Parent(d) = home
<1>1. "pcaps" \in Names /\ "reqts" \in Names
  BY TreesAssumption
<1>2. ASSUME NEW x \in Names
      PROVE  Append(home, x) \in Path /\ Append(home, x) # Root /\ Parent(Append(home, x)) = home
  <2>1. /\ Append(home, x) \in Seq(Names) /\ Append(home, x) # <<>>
        /\ Len(Append(home, x)) = Len(home) + 1
        /\ \A i \in 1..Len(home) : Append(home, x)[i] = home[i]
    BY AppendProperties DEF Path
  <2> DEFINE a == Append(home, x)
             n == Len(home)
  <2>2. n \in Nat /\ Len(a) = n + 1
    BY <2>1, LenProperties DEF Path
  <2> HIDE DEF a, n
  <2>3. a \in Path /\ Len(a) - 1 = n /\ \A i \in 1..n : a[i] = home[i]
    BY <2>1, <2>2 DEF a, n, Path
  <2>4. \A i \in 1..n : a[i] \in Names
    BY <2>2, <2>3, LenProperties DEF n, Path
  <2>5. /\ SubSeq(a, 1, n) \in Seq(Names)
        /\ Len(SubSeq(a, 1, n)) = IF 1 <= n THEN n - 1 + 1 ELSE 0
        /\ \A i \in 1..n - 1 + 1 : SubSeq(a, 1, n)[i] = a[1 + i - 1]
    BY <2>2, <2>4, SubSeqProperties
  <2>6. Len(SubSeq(a, 1, n)) = n /\ \A i \in 1..n : SubSeq(a, 1, n)[i] = home[i]
    BY <2>2, <2>3, <2>5
  <2>7. SubSeq(a, 1, n) = home
    BY <2>5, <2>6, SeqEqual DEF n, Path
  <2> QED
    BY <2>1, <2>3, <2>7 DEF Parent, Path, Root, a
<1> QED
  BY <1>1, <1>2 DEF Pcaps, Reqts

-----------------------------------------------------------------------------
(* Sequences of frames.                                                    *)

LEMMA WithoutLast ==
    ASSUME NEW S, NEW s \in Seq(S), s # <<>>
    PROVE  /\ Len(s) \in Nat \ {0} /\ s[Len(s)] \in S
           /\ SubSeq(s, 1, Len(s) - 1) \in Seq(S)
           /\ Len(SubSeq(s, 1, Len(s) - 1)) = Len(s) - 1
           /\ \A i \in 1..(Len(s) - 1) : SubSeq(s, 1, Len(s) - 1)[i] = s[i]
<1> DEFINE n == Len(s)
           t == SubSeq(s, 1, n - 1)
<1>1. n \in Nat \ {0} /\ \A i \in 1..n : s[i] \in S
  BY EmptySeq, LenProperties
<1> HIDE DEF n
<1>2. /\ t \in Seq(S) /\ Len(t) = IF 1 <= n - 1 THEN n - 1 - 1 + 1 ELSE 0
      /\ \A i \in 1..n - 1 - 1 + 1 : t[i] = s[1 + i - 1]
  BY <1>1, SubSeqProperties
<1>3. Len(t) = n - 1 /\ \A i \in 1..(n - 1) : t[i] = s[i]
  BY <1>1, <1>2
<1> QED
  BY <1>1, <1>2, <1>3 DEF n

LEMMA LastReplaced ==
    ASSUME NEW S, NEW s \in Seq(S), s # <<>>, NEW x \in S
    PROVE  LET t == Append(SubSeq(s, 1, Len(s) - 1), x)
           IN  /\ t \in Seq(S) /\ t # <<>> /\ Len(t) = Len(s) /\ t[Len(s)] = x
               /\ \A i \in 1..(Len(s) - 1) : t[i] = s[i]
<1> DEFINE n == Len(s)
           c == SubSeq(s, 1, Len(s) - 1)
           t == Append(c, x)
<1>1. n \in Nat \ {0} /\ c \in Seq(S) /\ Len(c) = n - 1 /\ \A i \in 1..(n - 1) : c[i] = s[i]
  BY WithoutLast
<1> HIDE DEF n, c
<1>2. /\ t \in Seq(S) /\ t # <<>> /\ Len(t) = Len(c) + 1
      /\ \A i \in 1..Len(c) : t[i] = c[i]
      /\ t[Len(c) + 1] = x
  BY <1>1, AppendProperties
<1>3. Len(t) = n /\ t[n] = x /\ \A i \in 1..(n - 1) : t[i] = s[i]
  BY <1>1, <1>2
<1> QED
  BY <1>2, <1>3 DEF n, c

-----------------------------------------------------------------------------
(* What is removed.                                                        *)

\* removedir only takes away, and never what has something below it.
Shrunk == /\ DOMAIN tree \subseteq DOMAIN before
          /\ \A p \in DOMAIN tree : tree[p] = before[p]
          /\ \A p \in DOMAIN tree : \A k \in 0..(Len(p) - 1) : SubSeq(p, 1, k) \in DOMAIN tree

\* What the removal of Target may come to, and the frames that do no more.
MayGo  == {p \in DOMAIN before :
              Under(p, Target) \/ \E t \in LinkedFrom(Target) : Under(p, t) /\ p # t}
Frames == [path : MayGo, dir : DOMAIN before, unread : SUBSET MayGo, r : {0, 0 - 1}, links : Nat]

PlacesOK == /\ before \in Trees /\ home \in {Root, Parent(Capture)}
            /\ pc \in {"start", "pcaps", "reqts", "make", "open", "opened", "exit"}

KeptInv ==
    /\ PlacesOK
    /\ pc = "start" => tree = before
    /\ pc \in {"start", "pcaps", "reqts", "make"} => Shrunk
    /\ ~Removing => stack = <<>>
    /\ Removing => stack \in Seq(Frames)
    /\ OthersKept

LEMMA Places ==
    ASSUME PlacesOK
    PROVE  /\ IsTree(before) /\ home \in Path
           /\ \A d \in {Pcaps, Reqts} : d \in Path /\ d # Root /\ Parent(d) = home
<1>1. home \in Path
  BY TreesAssumption, ParentPath, EmptySeq DEF PlacesOK, Path, Root
<1> QED
  BY <1>1, ResultPaths, TreesAssumption DEF PlacesOK

\* The least set is closed itself.
LEMMA LinksLead ==
    ASSUME NEW d, NEW p \in OldLinks,
           Under(p, d) \/ \E t \in LinkedFrom(d) : Under(p, t)
    PROVE  before[p].to \in LinkedFrom(d)
<1> DEFINE all == {before[q].to : q \in OldLinks}
<1>1. before[p].to \in all
  OBVIOUS
<1>2. ASSUME NEW ts \in SUBSET all, ClosedUnder(d, ts)
      PROVE  before[p].to \in ts
  <2>1. CASE Under(p, d)
    BY <1>2, <2>1 DEF ClosedUnder
  <2>2. CASE \E t \in LinkedFrom(d) : Under(p, t)
    <3>1. PICK t \in LinkedFrom(d) : Under(p, t)
      BY <2>2
    <3>2. t \in ts
      BY <1>2, <3>1 DEF LinkedFrom
    <3> QED
      BY <1>2, <3>1, <3>2 DEF ClosedUnder
  <2> QED
    BY <2>1, <2>2
<1> HIDE DEF all
<1>3. before[p].to \in {t \in all : \A ts \in SUBSET all : ClosedUnder(d, ts) => t \in ts}
  BY <1>1, <1>2
<1> QED
  BY <1>3 DEF LinkedFrom, all

\* A directory that is opened has nothing in it but what may go.
LEMMA FrameMade ==
    ASSUME PlacesOK, Shrunk, Removing, NEW p \in MayGo, NEW n \in Nat, Finds(p, n, TRUE)
    PROVE  Frame(p, n) \in Frames
<1>1. IsTree(before) /\ Target \in Path /\ Target # Root
  BY Places DEF Target
<1> DEFINE d == Follow(p, n)[1]
<1>2. /\ p \in DOMAIN tree /\ d \in DOMAIN tree
      /\ d = p \/ (tree[p].kind = "link" /\ d = tree[p].to)
  BY DEF Finds, Follow
<1>3. tree[p] = before[p] /\ p \in Path /\ d \in Path /\ d \in DOMAIN before
  BY <1>1, <1>2 DEF Shrunk, IsTree, Path
<1>4. d = p \/ d \in LinkedFrom(Target)
  <2>1. CASE d # p
    <3>1. p \in OldLinks /\ d = before[p].to
      BY <1>2, <1>3, <2>1 DEF OldLinks, Shrunk
    <3>2. Under(p, Target) \/ \E t \in LinkedFrom(Target) : Under(p, t)
      BY DEF MayGo
    <3> QED
      BY <3>1, <3>2, LinksLead
  <2> QED
    BY <2>1
<1>5. ASSUME NEW q \in Children(d)
      PROVE  q \in MayGo
  <2>1. q \in DOMAIN before /\ q \in Path /\ q # Root /\ Parent(q) = d
    BY <1>1 DEF Children, Shrunk, IsTree, Path
  <2>2. CASE d \in LinkedFrom(Target)
    <3>1. Under(q, d) /\ Len(q) > Len(d)
      BY <1>3, <2>1, UnderItself, ChildUnder
    <3>2. q # d
      BY <3>1, <1>3, LenProperties DEF Path
    <3> QED
      BY <2>1, <2>2, <3>1, <3>2 DEF MayGo
  <2>3. CASE d = p /\ Under(p, Target)
    BY <1>1, <2>1, <2>3, ChildUnder DEF MayGo
  <2>4. CASE d = p /\ \E t \in LinkedFrom(Target) : Under(p, t) /\ p # t
    <3>1. PICK t \in LinkedFrom(Target) : Under(p, t)
      BY <2>4
    <3>2. t \in Path
      BY <3>1, <1>1 DEF LinkedFrom, OldLinks, IsTree, Path
    <3>3. Under(q, t) /\ Len(q) > Len(t)
      BY <2>1, <2>4, <3>1, <3>2, ChildUnder
    <3>4. q # t
      BY <3>2, <3>3, LenProperties DEF Path
    <3> QED
      BY <2>1, <3>1, <3>3, <3>4 DEF MayGo
  <2> QED
    BY <1>4, <2>2, <2>3, <2>4 DEF MayGo
<1>6. Links(p) \in Nat
  BY DEF Links
<1> QED
  BY <1>3, <1>5, <1>6 DEF Frame, Frames

\* The beginnings of a path lie above each other.
LEMMA Beginning ==
    ASSUME NEW q \in Path, NEW k \in 0..(Len(q) - 1)
    PROVE  LET r == SubSeq(q, 1, k + 1)
           IN  r \in Path /\ r # Root /\ Parent(r) = SubSeq(q, 1, k) /\ Len(r) = k + 1
<1> DEFINE n == Len(q)
           r == SubSeq(q, 1, k + 1)
<1>1. n \in Nat /\ \A i \in 1..n : q[i] \in Names
  BY LenProperties DEF Path
<1> HIDE DEF n
<1>2. k \in 0..(n - 1)
  BY DEF n
<1>3. /\ r \in Seq(Names) /\ Len(r) = IF 1 <= k + 1 THEN k + 1 - 1 + 1 ELSE 0
  BY <1>1, <1>2, SubSeqProperties
<1>4. Len(r) = k + 1 /\ r # Root
  BY <1>2, <1>3, EmptySeq DEF Root
<1>5. Parent(r) = SubSeq(r, 1, k)
  BY <1>2, <1>4 DEF Parent
<1>6. SubSeq(r, 1, k) = SubSeq(q, 1, k)
  <2>1. CASE k = 0
    BY <2>1, SubSeqEmpty
  <2>2. CASE k # 0
    <3>1. /\ n \in Nat /\ 1 \in 1..n /\ k + 1 \in 1..n /\ 1 \in 1..((k + 1) - 1 + 1)
          /\ k \in 1..((k + 1) - 1 + 1) /\ 1 + 1 - 1 = 1 /\ 1 + k - 1 = k
      BY <1>1, <1>2, <2>2
    <3>2. SubSeq(SubSeq(q, 1, k + 1), 1, k) = SubSeq(q, 1 + 1 - 1, 1 + k - 1)
      BY <3>1, <1>3, SubSeqOfSubSeq, q \in Seq(Names) DEF Path, n
    <3> QED
      BY <3>1, <3>2
  <2> QED
    BY <2>1, <2>2
<1> QED
  BY <1>3, <1>4, <1>5, <1>6 DEF Path

LEMMA SameDisposable ==
    ASSUME UNCHANGED <<before, home>>, NEW q
    PROVE  Disposable(q) <=> Disposable(q)'
<1>1. ASSUME NEW d PROVE LinkedFrom(d)' = LinkedFrom(d)
  BY DEF LinkedFrom, ClosedUnder, OldLinks
<1>2. Pcaps' = Pcaps /\ Reqts' = Reqts
  BY DEF Pcaps, Reqts
<1> QED
  BY <1>1, <1>2 DEF Disposable

\* Removing what may go and has nothing in it.
LEMMA Removed ==
    ASSUME PlacesOK, Shrunk, Removing, OthersKept, UNCHANGED <<before, home>>,
           NEW p \in MayGo, p \in DOMAIN tree, Children(p) = {}, tree' = Without(p)
    PROVE  Shrunk' /\ OthersKept'
<1>1. IsTree(before) /\ DOMAIN tree' = DOMAIN tree \ {p} /\ \A q \in DOMAIN tree' : tree'[q] = tree[q]
  BY Places DEF Without
<1>2. ASSUME NEW q \in DOMAIN tree', NEW k \in 0..(Len(q) - 1)
      PROVE  SubSeq(q, 1, k) \in DOMAIN tree'
  <2>1. q \in DOMAIN tree /\ q \in Path /\ SubSeq(q, 1, k) \in DOMAIN tree
    BY <1>1, <1>2 DEF Shrunk, IsTree, Path
  <2>2. CASE SubSeq(q, 1, k) = p
    <3> DEFINE r == SubSeq(q, 1, k + 1)
    <3>1. r # Root /\ Parent(r) = p
      BY <1>2, <2>1, <2>2, Beginning
    <3>2. r \in DOMAIN tree
      <4>1. Len(q) \in Nat /\ SubSeq(q, 1, Len(q)) = q
        BY <2>1, LenProperties, SubSeqFull DEF Path
      <4>2. CASE k + 1 = Len(q)
        BY <2>1, <4>1, <4>2
      <4>3. CASE k + 1 # Len(q)
        <5> DEFINE j == k + 1
                   n == Len(q)
        <5>1. n \in Nat /\ n # k + 1 /\ k \in 0..(n - 1)
          BY <1>2, <4>1, <4>3
        <5> HIDE DEF n
        <5>2. j \in 0..(n - 1)
          BY <5>1
        <5> HIDE DEF j
        <5>3. SubSeq(q, 1, j) \in DOMAIN tree
          BY <2>1, <5>2 DEF Shrunk, n
        <5> QED
          BY <5>3 DEF j
      <4> QED
        BY <4>2, <4>3
    <3> QED
      BY <3>1, <3>2 DEF Children
  <2> QED
    BY <1>1, <2>1, <2>2
<1>3. Shrunk'
  BY <1>1, <1>2 DEF Shrunk
<1>4. Disposable(p)
  BY DEF MayGo, Disposable, Target
<1>5. \A q : Disposable(q) <=> Disposable(q)'
  BY SameDisposable
<1> QED
  BY <1>1, <1>3, <1>4, <1>5 DEF OthersKept

\* What cannot be opened has nothing in it.
LEMMA NoDirNoEntries ==
    ASSUME PlacesOK, Shrunk, NEW p \in DOMAIN tree, tree[p] # Dir
    PROVE  Children(p) = {}
<1>1. SUFFICES ASSUME NEW q \in Children(p) PROVE FALSE
  OBVIOUS
<1>2. q \in DOMAIN before /\ q \in Path /\ q # Root /\ Parent(q) = p /\ IsTree(before)
  BY Places DEF Children, Shrunk, IsTree, Path
<1>3. Len(q) \in Nat \ {0}
  BY <1>2, ParentPath
<1>4. Len(q) - 1 \in 0..(Len(q) - 1)
  BY <1>3
<1>5. before[p] = Dir
  BY <1>2, <1>4 DEF IsTree, Parent
<1> QED
  BY <1>5 DEF Shrunk

LEMMA FilesFound ==
    ASSUME NEW p, NEW n, Finds(p, n, FALSE)
    PROVE  p \in DOMAIN tree /\ tree[p] # Dir
BY DEF Finds, Follow, Dir

-----------------------------------------------------------------------------
(* Each step removes only what may go.                                     *)

LEMMA SameFrames ==
    ASSUME UNCHANGED <<before, home, pc>>
    PROVE  /\ Frames' = Frames /\ (Removing <=> Removing') /\ Target' = Target
           /\ (PlacesOK => PlacesOK') 
<1>1. Target' = Target
  BY DEF Target, Pcaps, Reqts
<1>2. ASSUME NEW d PROVE LinkedFrom(d)' = LinkedFrom(d)
  BY DEF LinkedFrom, ClosedUnder, OldLinks
<1>3. MayGo' = MayGo
  BY <1>1, <1>2 DEF MayGo
<1> QED
  BY <1>1, <1>3 DEF Frames, Removing, PlacesOK

\* The frame of the directory that is being read.
LEMMA TopFrame ==
    ASSUME KeptInv, Removing, stack # <<>>
    PROVE  /\ Top \in Frames /\ Callers \in Seq(Frames)
           /\ \A e \in Entries : e \in MayGo /\ e \in DOMAIN tree
           /\ \A e \in Entries, x \in {0, 0 - 1} :
                 WithRead(e, x) \in Seq(Frames)
<1>1. Top \in Frames /\ Callers \in Seq(Frames)
  BY WithoutLast DEF KeptInv, Top, Callers
<1>2. \A e \in Entries : e \in MayGo /\ e \in DOMAIN tree
  BY <1>1 DEF Entries, Frames
<1>3. ASSUME NEW e \in Entries, NEW x \in {0, 0 - 1}
      PROVE  WithRead(e, x) \in Seq(Frames)
  <2>1. [Top EXCEPT !.unread = @ \ {e}, !.r = x] \in Frames
    BY <1>1 DEF Frames
  <2> QED
    BY <1>1, <2>1, AppendProperties DEF WithRead
<1> QED
  BY <1>1, <1>2, <1>3

LEMMA KeptStill ==
    ASSUME PlacesOK, Shrunk, OthersKept, UNCHANGED <<before, home, tree>>
    PROVE  Shrunk' /\ OthersKept'
<1>1. \A q : Disposable(q) <=> Disposable(q)'
  BY SameDisposable
<1> QED
  BY <1>1 DEF Shrunk, OthersKept

LEMMA KeptReadFile ==
    ASSUME KeptInv, ReadFile
    PROVE  KeptInv'
<1>1. PICK e \in Entries :
        /\ Finds(e, Top.links, FALSE)
        /\ IF Top.dir \in locked
           THEN tree' = tree /\ stack' = WithRead(e, 0 - 1)
           ELSE tree' = Without(e) /\ stack' = WithRead(e, 0)
  BY DEF ReadFile
<1>2. stack # <<>> /\ Removing /\ UNCHANGED <<before, home, pc>>
  BY <1>1 DEF Entries, KeptInv, ReadFile, given
<1>3. e \in MayGo /\ e \in DOMAIN tree /\ stack' \in Seq(Frames)
  BY <1>1, <1>2, TopFrame
<1>4. Shrunk /\ PlacesOK /\ OthersKept /\ pc \in {"pcaps", "reqts"}
  BY <1>2 DEF KeptInv, Removing
<1>5. Shrunk' /\ OthersKept'
  <2>1. CASE tree' = Without(e)
    BY <1>2, <1>3, <1>4, <1>1, <2>1, FilesFound, NoDirNoEntries, Removed
  <2>2. CASE tree' = tree
    BY <1>2, <1>4, <2>2, KeptStill
  <2> QED
    BY <1>1, <2>1, <2>2
<1> QED
  BY <1>2, <1>3, <1>4, <1>5, SameFrames DEF KeptInv

LEMMA KeptReadDir ==
    ASSUME KeptInv, ReadDir
    PROVE  KeptInv'
<1>1. PICK e \in Entries :
        /\ Finds(e, Top.links, TRUE)
        /\ stack' = Append(WithRead(e, 0), Frame(e, Top.links))
  BY DEF ReadDir
<1>2. stack # <<>> /\ Removing /\ UNCHANGED <<before, home, pc, tree>>
  BY <1>1 DEF Entries, KeptInv, ReadDir, given
<1>3. e \in MayGo /\ WithRead(e, 0) \in Seq(Frames) /\ Top.links \in Nat
  BY <1>1, <1>2, TopFrame DEF Frames
<1>4. Shrunk /\ PlacesOK /\ OthersKept /\ pc \in {"pcaps", "reqts"}
  BY <1>2 DEF KeptInv, Removing
<1>5. stack' \in Seq(Frames)
  BY <1>1, <1>2, <1>3, <1>4, FrameMade, AppendProperties
<1> QED
  BY <1>2, <1>4, <1>5, SameFrames, KeptStill DEF KeptInv

LEMMA KeptUnremoved ==
    ASSUME KeptInv, ReadDangling \/ ReadRefused
    PROVE  KeptInv'
<1>1. PICK e \in Entries : stack' = WithRead(e, 0 - 1)
  BY DEF ReadDangling, ReadRefused
<1>2. stack # <<>> /\ Removing /\ UNCHANGED <<before, home, pc, tree>>
  BY <1>1 DEF Entries, KeptInv, ReadDangling, ReadRefused, given
<1>3. stack' \in Seq(Frames)
  BY <1>1, <1>2, TopFrame
<1>4. Shrunk /\ PlacesOK /\ OthersKept /\ pc \in {"pcaps", "reqts"}
  BY <1>2 DEF KeptInv, Removing
<1> QED
  BY <1>2, <1>3, <1>4, SameFrames, KeptStill DEF KeptInv

\* What Return does with the calls below it.
LEMMA Answered ==
    ASSUME NEW S, NEW s \in Seq(S), s # <<>>, NEW x,
           \A f \in S : [f EXCEPT !.r = x] \in S
    PROVE  LET t == [s EXCEPT ![Len(s)].r = x]
           IN  /\ t \in Seq(S) /\ Len(t) = Len(s) /\ t[Len(s)] = [s[Len(s)] EXCEPT !.r = x]
               /\ \A i \in 1..(Len(s) - 1) : t[i] = s[i]
<1> DEFINE n == Len(s)
           y == [s[n] EXCEPT !.r = x]
           t == [s EXCEPT ![n] = y]
<1>1. n \in Nat \ {0} /\ \A i \in 1..n : s[i] \in S
  BY EmptySeq, LenProperties
<1> HIDE DEF n
<1>2. n \in 1..Len(s) /\ Len(s) = n
  BY <1>1 DEF n
<1>3. y \in S
  BY <1>1
<1> HIDE DEF y
<1>4. /\ t \in Seq(S) /\ Len(t) = Len(s)
      /\ \A i \in 1..Len(s) : t[i] = IF i = n THEN y ELSE s[i]
  BY <1>2, <1>3, ExceptSeq
<1>5. t[n] = y /\ \A i \in 1..(n - 1) : t[i] = s[i]
  BY <1>1, <1>2, <1>4
<1> QED
  BY <1>4, <1>5 DEF n, y

LEMMA KeptReturn ==
    ASSUME KeptInv, Return
    PROVE  KeptInv'
<1>1. PICK gone \in {FALSE, CanGo} :
        /\ tree' = IF gone THEN Without(Top.path) ELSE tree
        /\ IF Callers = <<>>
           THEN stack' = <<>> /\ pc' = NextCall
           ELSE /\ stack' = [Callers EXCEPT ![Len(Callers)].r = IF gone THEN 0 ELSE 0 - 1]
                /\ pc' = pc
  BY DEF Return, RmdirTop
<1>2. stack # <<>> /\ Removing /\ UNCHANGED <<before, home>>
  BY DEF KeptInv, Return, given
<1>3. Shrunk /\ PlacesOK /\ OthersKept /\ pc \in {"pcaps", "reqts"}
  BY <1>2 DEF KeptInv, Removing
<1>4. Top.path \in MayGo /\ Callers \in Seq(Frames)
  BY <1>2, TopFrame DEF Frames
<1>5. Shrunk' /\ OthersKept'
  <2>1. CASE gone
    <3>1. Rmdir(Top.path) /\ tree' = Without(Top.path)
      BY <1>1, <2>1 DEF CanGo
    <3> QED
      BY <1>2, <1>3, <1>4, <3>1, Removed DEF Rmdir
  <2>2. CASE ~gone
    BY <1>1, <1>2, <1>3, <2>2, KeptStill
  <2> QED
    BY <2>1, <2>2
<1>6. CASE Callers = <<>>
  <2>1. stack' = <<>> /\ pc' \in {"reqts", "make"}
    BY <1>1, <1>3, <1>6 DEF NextCall
  <2>2. <<>> \in Seq(Frames')
    BY EmptySeq
  <2> QED
    BY <1>2, <1>3, <1>5, <2>1, <2>2 DEF KeptInv, PlacesOK
<1>7. CASE Callers # <<>>
  <2> DEFINE x == IF gone THEN 0 ELSE 0 - 1
  <2>1. x \in {0, 0 - 1}
    OBVIOUS
  <2>2. stack' = [Callers EXCEPT ![Len(Callers)].r = x] /\ pc' = pc
    BY <1>1, <1>7
  <2> HIDE DEF x
  <2>3. \A f \in Frames : [f EXCEPT !.r = x] \in Frames
    BY <2>1 DEF Frames
  <2>4. stack' \in Seq(Frames)
    BY <1>4, <1>7, <2>2, <2>3, Answered
  <2> QED
    BY <1>2, <1>3, <1>5, <2>2, <2>4, SameFrames DEF KeptInv
<1> QED
  BY <1>6, <1>7

LEMMA KeptRemoveDir ==
    ASSUME KeptInv, RemoveDir
    PROVE  KeptInv'
<1>1. /\ Removing /\ UNCHANGED <<before, home, pc, tree>>
      /\ stack' = <<Frame(Target, 0)>> /\ Finds(Target, 0, TRUE)
  BY DEF RemoveDir, given
<1>2. Shrunk /\ PlacesOK /\ OthersKept /\ pc \in {"pcaps", "reqts"}
  BY <1>1 DEF KeptInv, Removing
<1>3. Target \in MayGo
  <2>1. Target \in Path
    BY <1>2, Places DEF Target
  <2>2. Target \in DOMAIN before
    BY <1>1, <1>2 DEF Finds, Follow, Shrunk
  <2> QED
    BY <2>1, <2>2, UnderItself DEF MayGo
<1>4. Frame(Target, 0) \in Frames
  BY <1>1, <1>2, <1>3, FrameMade
<1>5. stack' \in Seq(Frames)
  BY <1>1, <1>4
<1> QED
  BY <1>1, <1>2, <1>5, SameFrames, KeptStill DEF KeptInv

\* Making directories takes nothing away.
LEMMA KeptRest ==
    ASSUME KeptInv, Locate \/ NoDir \/ RemoveRefused \/ MakeDirs \/ Open \/ OutOfMemory
    PROVE  KeptInv'
<1>1. <<>> \in Seq(Frames')
  BY EmptySeq
<1>2. before' = before /\ PlacesOK
  BY DEF Locate, NoDir, RemoveRefused, MakeDirs, Open, OutOfMemory, given, KeptInv
<1>3. CASE Locate
  <2>1. home' \in {Root, Parent(Capture)} /\ pc' = "pcaps" /\ tree' = tree /\ stack' = stack
    BY <1>3 DEF Locate
  <2>2. Shrunk /\ tree = before /\ stack = <<>>
    BY <1>3 DEF Locate, KeptInv, Removing
  <2>3. Shrunk'
    BY <2>1, <2>2, <1>2 DEF Shrunk
  <2> QED
    BY <1>1, <1>2, <2>1, <2>2, <2>3 DEF KeptInv, PlacesOK, Removing, OthersKept
<1>4. CASE NoDir \/ RemoveRefused
  <2>1. home' = home /\ pc' \in {"reqts", "make"} /\ tree' = tree /\ stack' = <<>> /\ Removing
    BY <1>4 DEF NoDir, RemoveRefused, NextCall, given
  <2>2. Shrunk /\ OthersKept
    BY <2>1 DEF KeptInv, Removing
  <2>3. Shrunk' /\ OthersKept'
    BY <1>2, <2>1, <2>2, KeptStill
  <2> QED
    BY <1>1, <1>2, <2>1, <2>3 DEF KeptInv, PlacesOK, Removing
<1>5. CASE MakeDirs
  <2>1. home' = home /\ pc' = "open" /\ stack' = stack /\ DOMAIN tree \subseteq DOMAIN tree'
    BY <1>5 DEF MakeDirs, given
  <2>2. OthersKept /\ stack = <<>>
    BY <1>5 DEF KeptInv, MakeDirs, Removing
  <2>3. \A q : Disposable(q) <=> Disposable(q)'
    BY <1>2, <2>1, SameDisposable
  <2>4. OthersKept'
    BY <1>2, <2>1, <2>2, <2>3 DEF OthersKept
  <2> QED
    BY <1>2, <2>1, <2>2, <2>4 DEF KeptInv, PlacesOK, Removing
<1>6. CASE Open \/ OutOfMemory
  <2>1. home' = home /\ pc' \in {"opened", "exit"} /\ stack' = <<>> /\ tree' = tree
    BY <1>6 DEF Open, OutOfMemory, given, KeptInv, Removing
  <2>2. OthersKept
    BY DEF KeptInv
  <2>3. \A q : Disposable(q) <=> Disposable(q)'
    BY <1>2, <2>1, SameDisposable
  <2>4. OthersKept'
    BY <1>2, <2>1, <2>2, <2>3 DEF OthersKept
  <2> QED
    BY <1>2, <2>1, <2>2, <2>4 DEF KeptInv, PlacesOK, Removing
<1> QED
  BY <1>3, <1>4, <1>5, <1>6

LEMMA KeptInit ==
    ASSUME Init
    PROVE  KeptInv
<1>1. before \in Trees /\ tree = before /\ home = Root /\ stack = <<>> /\ pc = "start"
  BY DEF Init
<1>2. IsTree(before)
  BY <1>1, TreesAssumption
<1>3. Shrunk
  BY <1>1, <1>2 DEF Shrunk, IsTree
<1> QED
  BY <1>1, <1>3 DEF KeptInv, PlacesOK, Removing, OthersKept

LEMMA KeptStep ==
    ASSUME KeptInv, [Next]_vars
    PROVE  KeptInv'
<1>1. CASE UNCHANGED vars
  <2>1. UNCHANGED <<tree, before, home, stack, pc>>
    BY <1>1 DEF vars, given
  <2>2. \A q : Disposable(q) <=> Disposable(q)'
    BY <2>1, SameDisposable
  <2>3. OthersKept'
    BY <2>1, <2>2 DEF KeptInv, OthersKept
  <2> QED
    BY <2>1, <2>3, SameFrames DEF KeptInv, Shrunk
<1>2. CASE Next
  BY <1>2, KeptReadFile, KeptReadDir, KeptUnremoved, KeptReturn, KeptRemoveDir, KeptRest
     DEF Next
<1> QED
  BY <1>1, <1>2

\* For every file system, with links that lead anywhere: the start of the
\* program removes nothing but earlier results and what links among them
\* lead to (init_environment, main.c:498-499, and removedir,
\* mydirent.c:588-623).
THEOREM NothingElseRemoved == Spec => []OthersKept
<1>1. KeptInv => OthersKept
  BY DEF KeptInv
<1> QED
  BY KeptInit, KeptStep, <1>1, PTL DEF Spec

-----------------------------------------------------------------------------
(* Earlier results go.                                                     *)

\* The call of removedir that is the i-th from the first, where it meets no
\* obstacle: it has failed at nothing, is at a directory below its caller's,
\* and what is left there is to be read, or is what the next call is at.
Unhindered(i) ==
    /\ stack[i].r = 0 /\ stack[i].links = 0 /\ stack[i].path = stack[i].dir
    /\ stack[i].dir \in DOMAIN tree /\ tree[stack[i].dir] = Dir
    /\ Under(stack[i].dir, Target) /\ Len(stack[i].dir) = Len(Target) + i - 1
    /\ IF i = 1 THEN stack[i].dir = Target ELSE Parent(stack[i].dir) = stack[i - 1].dir
    /\ \A e \in stack[i].unread : e # Root /\ Parent(e) = stack[i].dir
    /\ \A q \in Children(stack[i].dir) :
          q \in stack[i].unread \/ (i < Len(stack) /\ q = stack[i + 1].dir)

Proceeds == Removing /\ ~Obstacle(Target) => \A i \in 1..Len(stack) : Unhindered(i)

RemovedSoFar ==
    /\ pc \in {"reqts", "make"} /\ ~Obstacle(Pcaps) => Pcaps \notin DOMAIN tree
    /\ pc = "make" /\ ~Obstacle(Reqts) => Reqts \notin DOMAIN tree

MadeAnew ==
    pc \in {"open", "opened"} =>
        /\ Capture \in DOMAIN tree => home \in DOMAIN tree
        /\ home \in DOMAIN tree => \A d \in {Pcaps, Reqts} :
              Obstacle(d) \/ (d \in DOMAIN tree /\ tree[d] = Dir /\ Children(d) = {})

GoneInv == Proceeds /\ RemovedSoFar /\ MadeAnew

\* No obstacle goes away.
LEMMA ObstaclesStay ==
    ASSUME UNCHANGED <<before, home, locked>>, refused \subseteq refused', NEW d
    PROVE  Obstacle(d) => Obstacle(d)'
<1>1. \A q : Disposable(q) <=> Disposable(q)'
  BY SameDisposable
<1> QED
  BY <1>1 DEF Obstacle, OldLinks

\* Below a target without obstacles stat fails for nothing, leads into no
\* other directory, and nothing holds what is there.
LEMMA NoObstacle ==
    ASSUME KeptInv, Removing, ~Obstacle(Target), NEW e \in DOMAIN tree, Under(e, Target)
    PROVE  /\ home \notin locked
           /\ Follow(e, 0) # <<>> /\ (Finds(e, 0, TRUE) => tree[e] = Dir)
           /\ e \in locked => ~ \E q \in DOMAIN before : Len(q) > Len(e) /\ Under(q, e)
<1>1. Shrunk /\ OthersKept
  BY DEF KeptInv, Removing
<1>2. e \in DOMAIN before /\ tree[e] = before[e]
  BY <1>1 DEF Shrunk
<1>3. home \notin locked /\ (e \in locked => ~ \E q \in DOMAIN before : Len(q) > Len(e) /\ Under(q, e))
  BY <1>2 DEF Obstacle
<1>4. CASE tree[e].kind # "link"
  BY <1>3, <1>4 DEF Follow, Finds
<1>5. CASE tree[e].kind = "link"
  <2>1. e \in OldLinks
    BY <1>2, <1>5 DEF OldLinks
  <2>2. /\ before[e].to \in DOMAIN before /\ before[before[e].to] # Dir
        /\ ~Disposable(before[e].to)
    BY <1>2, <2>1 DEF Obstacle
  <2>3. before[e].to \in DOMAIN tree
    BY <1>1, <2>2 DEF OthersKept
  <2>4. tree[e].to \in DOMAIN tree /\ tree[tree[e].to] # Dir
    BY <1>1, <1>2, <2>2, <2>3 DEF Shrunk
  <2>5. Follow(e, 0) = <<tree[e].to>>
    BY <1>5, <2>4, LinksAssumption DEF Follow
  <2> QED
    BY <1>3, <2>4, <2>5 DEF Finds
<1> QED
  BY <1>4, <1>5

\* The directory being read, and its entries.
LEMMA Unread ==
    ASSUME KeptInv, Removing, ~Obstacle(Target), Proceeds, stack # <<>>
    PROVE  /\ Len(stack) \in Nat \ {0} /\ Unhindered(Len(stack)) /\ Top = stack[Len(stack)]
           /\ Top.dir \in Path /\ Target \in Path /\ Target # Root
           /\ \A e \in Entries : /\ e \in DOMAIN tree /\ e \in Path /\ e # Root
                                 /\ Parent(e) = Top.dir /\ Under(e, Target)
                                 /\ Under(e, Top.dir) /\ Len(e) > Len(Top.dir)
<1>1. Len(stack) \in Nat \ {0} /\ Top \in Frames
  BY WithoutLast DEF KeptInv, Top
<1>2. Unhindered(Len(stack)) /\ Top = stack[Len(stack)]
  <2>1. Len(stack) \in 1..Len(stack)
    BY <1>1
  <2> QED
    BY <2>1 DEF Proceeds, Top
<1>3. Target \in Path /\ Target # Root /\ IsTree(before) /\ Shrunk
  BY Places DEF Target, KeptInv, Removing
<1>4. Top.dir \in Path
  BY <1>1, <1>3 DEF Frames, IsTree, Path
<1>5. ASSUME NEW e \in Entries
      PROVE  /\ e \in DOMAIN tree /\ e \in Path /\ e # Root
             /\ Parent(e) = Top.dir /\ Under(e, Target)
             /\ Under(e, Top.dir) /\ Len(e) > Len(Top.dir)
  <2>1. e \in DOMAIN tree /\ e \in Path
    BY <1>3 DEF Entries, Shrunk, IsTree, Path
  <2>2. e # Root /\ Parent(e) = Top.dir /\ Under(Top.dir, Target)
    BY <1>2 DEF Unhindered, Entries
  <2> QED
    BY <1>3, <1>4, <2>1, <2>2, ChildUnder, UnderItself
<1> QED
  BY <1>1, <1>2, <1>3, <1>4, <1>5

\* What the steps of one target do not touch.
LEMMA GoneStays ==
    ASSUME Removing, RemovedSoFar, UNCHANGED <<before, home, locked, pc>>,
           refused \subseteq refused', DOMAIN tree' \subseteq DOMAIN tree
    PROVE  RemovedSoFar' /\ MadeAnew'
<1>1. \A d : Obstacle(d) => Obstacle(d)'
  BY ObstaclesStay
<1>2. Pcaps' = Pcaps /\ Reqts' = Reqts
  BY DEF Pcaps, Reqts
<1> QED
  BY <1>1, <1>2 DEF RemovedSoFar, MadeAnew, Removing

LEMMA SameTarget ==
    ASSUME UNCHANGED <<before, home, locked, pc>>, refused \subseteq refused'
    PROVE  /\ Target' = Target /\ (Removing <=> Removing')
           /\ \A d : Obstacle(d) => Obstacle(d)'
BY ObstaclesStay DEF Target, Removing, Pcaps, Reqts

LEMMA GoneReadFile ==
    ASSUME KeptInv, GoneInv, ReadFile
    PROVE  GoneInv'
<1>1. PICK e \in Entries :
        /\ Finds(e, Top.links, FALSE)
        /\ IF Top.dir \in locked
           THEN tree' = tree /\ stack' = WithRead(e, 0 - 1)
           ELSE tree' = Without(e) /\ stack' = WithRead(e, 0)
  BY DEF ReadFile
<1>2. stack # <<>> /\ Removing /\ UNCHANGED <<before, home, locked, refused, pc>>
  BY <1>1 DEF Entries, KeptInv, ReadFile, given
<1>3. RemovedSoFar' /\ MadeAnew'
  BY <1>1, <1>2, GoneStays DEF GoneInv, Without
<1>4. ASSUME ~Obstacle(Target), NEW i \in 1..Len(stack')
      PROVE  Unhindered(i)'
  <2> DEFINE n == Len(stack)
  <2>1. /\ n \in Nat \ {0} /\ Unhindered(n) /\ Top = stack[n] /\ Top.dir \in Path
        /\ e \in DOMAIN tree /\ Under(e, Top.dir) /\ Len(e) > Len(Top.dir)
        /\ Parent(e) = Top.dir
    BY <1>1, <1>2, <1>4, Unread DEF GoneInv
  <2>2. Top.dir \notin locked
    <3>1. Top.dir \in DOMAIN tree /\ Under(Top.dir, Target) /\ e \in DOMAIN before
      BY <2>1, <1>2 DEF Unhindered, KeptInv, Removing, Shrunk
    <3> QED
      BY <1>2, <1>4, <2>1, <3>1, NoObstacle
  <2>3. tree' = Without(e) /\ stack' = WithRead(e, 0) /\ tree[e] # Dir
    BY <1>1, <2>2, FilesFound
  <2>4. Top \in Frames /\ stack \in Seq(Frames)
    BY <1>2, TopFrame DEF KeptInv
  <2> DEFINE x == [Top EXCEPT !.unread = @ \ {e}, !.r = 0]
  <2>5. x \in Frames /\ x.unread = Top.unread \ {e} /\ x.r = 0 /\ x.links = Top.links
        /\ x.path = Top.path /\ x.dir = Top.dir
    BY <2>4 DEF Frames
  <2> HIDE DEF x
  <2>6. stack' = Append(SubSeq(stack, 1, n - 1), x)
    BY <2>3 DEF WithRead, Callers, x
  <2>7. Len(stack') = n /\ stack'[n] = x /\ \A j \in 1..(n - 1) : stack'[j] = stack[j]
    BY <1>2, <2>4, <2>5, <2>6, LastReplaced
  <2> HIDE DEF n
  <2>8. ASSUME NEW j \in 1..n
        PROVE  /\ stack'[j].dir = stack[j].dir /\ stack'[j].path = stack[j].path
               /\ stack'[j].links = stack[j].links
               /\ stack'[j].r = 0 \/ stack'[j].r = stack[j].r
               /\ stack'[j].unread = IF j = n THEN stack[j].unread \ {e} ELSE stack[j].unread
    <3>1. CASE j = n
      BY <2>1, <2>5, <2>7, <3>1
    <3>2. CASE j # n
      <4>1. j \in 1..(n - 1)
        BY <2>1, <2>8, <3>2
      <4> QED
        BY <2>7, <3>2, <4>1
    <3> QED
      BY <3>1, <3>2
  <2>9. Unhindered(i) /\ i \in 1..n
    BY <1>2, <1>4, <2>7 DEF GoneInv, Proceeds, n
  <2>10. DOMAIN tree' = DOMAIN tree \ {e} /\ \A q \in DOMAIN tree' : tree'[q] = tree[q]
    BY <2>3 DEF Without
  <2>11. Target' = Target
    BY <1>2, SameTarget
  <2>12. stack[i].dir \in DOMAIN tree' /\ tree'[stack[i].dir] = Dir
    BY <2>3, <2>9, <2>10 DEF Unhindered
  <2>13. IF i = 1 THEN stack'[i].dir = Target' ELSE Parent(stack'[i].dir) = stack'[i - 1].dir
    <3>1. CASE i = 1
      BY <2>8, <2>9, <2>11, <3>1 DEF Unhindered
    <3>2. CASE i # 1
      <4>1. i - 1 \in 1..n
        BY <2>1, <2>9, <3>2
      <4> QED
        BY <2>8, <2>9, <3>2, <4>1 DEF Unhindered
    <3> QED
      BY <3>1, <3>2
  <2>14. ASSUME NEW q \in Children(stack[i].dir)'
         PROVE  q \in stack'[i].unread \/ (i < Len(stack') /\ q = stack'[i + 1].dir)
    <3>1. q \in DOMAIN tree /\ q # e /\ q # Root /\ Parent(q) = stack'[i].dir
      BY <2>8, <2>9, <2>10, <2>14 DEF Children
    <3>2. q \in stack[i].unread \/ (i < n /\ q = stack[i + 1].dir)
      BY <2>8, <2>9, <3>1 DEF Unhindered, Children, n
    <3>3. i < n => i + 1 \in 1..n
      BY <2>1, <2>9
    <3> QED
      BY <2>7, <2>8, <2>9, <3>1, <3>2, <3>3
  <2>15. /\ stack'[i].r = 0 /\ stack'[i].links = 0 /\ stack'[i].path = stack'[i].dir
         /\ stack'[i].dir = stack[i].dir /\ stack'[i].unread \subseteq stack[i].unread
    BY <2>8, <2>9 DEF Unhindered
  <2>16. /\ Under(stack'[i].dir, Target') /\ Len(stack'[i].dir) = Len(Target') + i - 1
         /\ \A q \in stack'[i].unread : q # Root /\ Parent(q) = stack'[i].dir
    BY <2>9, <2>11, <2>15 DEF Unhindered
  <2> QED
    BY <2>12, <2>13, <2>14, <2>15, <2>16 DEF Unhindered
<1>5. Proceeds'
  BY <1>2, <1>4, SameTarget DEF Proceeds
<1> QED
  BY <1>3, <1>5 DEF GoneInv

LEMMA GoneReadDir ==
    ASSUME KeptInv, GoneInv, ReadDir
    PROVE  GoneInv'
<1>1. PICK e \in Entries :
        /\ Finds(e, Top.links, TRUE)
        /\ stack' = Append(WithRead(e, 0), Frame(e, Top.links))
  BY DEF ReadDir
<1>2. stack # <<>> /\ Removing /\ UNCHANGED <<before, home, locked, refused, pc, tree>>
  BY <1>1 DEF Entries, KeptInv, ReadDir, given
<1>3. RemovedSoFar' /\ MadeAnew'
  BY <1>1, <1>2, GoneStays DEF GoneInv
<1>4. ASSUME ~Obstacle(Target), NEW i \in 1..Len(stack')
      PROVE  Unhindered(i)'
  <2> DEFINE n == Len(stack)
             w == WithRead(e, 0)
             y == Frame(e, Top.links)
  <2>1. /\ n \in Nat \ {0} /\ Unhindered(n) /\ Top = stack[n] /\ Top.dir \in Path
        /\ e \in DOMAIN tree /\ Under(e, Target) /\ e \in Path /\ e # Root
        /\ Parent(e) = Top.dir
    BY <1>1, <1>2, <1>4, Unread DEF GoneInv
  <2>2. tree[e] = Dir /\ Top.links = 0
    BY <1>1, <1>2, <1>4, <2>1, NoObstacle DEF Unhindered
  <2>3. Top \in Frames /\ stack \in Seq(Frames) /\ e \in MayGo /\ Shrunk /\ PlacesOK
    BY <1>1, <1>2, TopFrame DEF KeptInv, Removing
  <2>4. /\ y \in Frames /\ y.path = e /\ y.dir = e /\ y.r = 0 /\ y.links = 0
        /\ y.unread = Children(e)
    <3>1. Follow(e, 0) = <<e>> /\ Links(e) = 0
      BY <2>1, <2>2 DEF Follow, Links, Dir
    <3>2. y \in Frames
      <4>1. Finds(e, 0, TRUE) /\ 0 \in Nat /\ Removing
        BY <1>1, <1>2, <2>2
      <4>2. Frame(e, 0) \in Frames
        BY <2>3, <4>1, FrameMade
      <4> QED
        BY <2>2, <4>2
    <3> QED
      BY <2>2, <3>1, <3>2 DEF Frame
  <2> DEFINE x == [Top EXCEPT !.unread = @ \ {e}, !.r = 0]
  <2>5. x \in Frames /\ x.unread = Top.unread \ {e} /\ x.r = 0 /\ x.links = Top.links
        /\ x.path = Top.path /\ x.dir = Top.dir
    BY <2>3 DEF Frames
  <2> HIDE DEF x, y
  <2>6. w = Append(SubSeq(stack, 1, n - 1), x)
    BY DEF WithRead, Callers, x
  <2> HIDE DEF w
  <2>7. w \in Seq(Frames) /\ Len(w) = n /\ w[n] = x /\ \A j \in 1..(n - 1) : w[j] = stack[j]
    BY <1>2, <2>3, <2>5, <2>6, LastReplaced
  <2>8. /\ Len(stack') = Len(w) + 1 /\ stack'[Len(w) + 1] = y
        /\ \A j \in 1..Len(w) : stack'[j] = w[j]
    <3>1. stack' = Append(w, y)
      BY <1>1 DEF w, y
    <3>2. w \in Seq(Frames) /\ y \in Frames
      BY <2>4, <2>7
    <3> QED
      BY <3>1, <3>2, AppendProperties
  <2>9. Target' = Target
    BY <1>2, SameTarget
  <2> HIDE DEF n
  <2>10. /\ Len(stack') = n + 1 /\ stack'[n + 1] = y /\ stack'[n] = x
         /\ \A j \in 1..(n - 1) : stack'[j] = stack[j]
    BY <2>1, <2>7, <2>8
  <2>11. ASSUME NEW j \in 1..n
         PROVE  /\ stack'[j].dir = stack[j].dir /\ stack'[j].path = stack[j].path
                /\ stack'[j].links = stack[j].links
                /\ stack'[j].r = 0 \/ stack'[j].r = stack[j].r
                /\ stack'[j].unread = IF j = n THEN stack[j].unread \ {e} ELSE stack[j].unread
    <3>1. CASE j = n
      BY <2>1, <2>5, <2>10, <3>1
    <3>2. CASE j # n
      <4>1. j \in 1..(n - 1)
        BY <2>1, <2>11, <3>2
      <4> QED
        BY <2>10, <3>2, <4>1
    <3> QED
      BY <3>1, <3>2
  <2>12. CASE i = n + 1
    <3>1. /\ stack'[i].r = 0 /\ stack'[i].links = 0 /\ stack'[i].path = e /\ stack'[i].dir = e
          /\ stack'[i].unread = Children(e)
      BY <2>4, <2>10, <2>12
    <3>2. Len(e) = Len(Target) + i - 1
      <4>1. Len(Top.dir) = Len(Target) + n - 1 /\ Len(Top.dir) = Len(e) - 1
        BY <2>1, ParentPath DEF Unhindered
      <4>2. Len(Target) \in Nat /\ Len(e) \in Nat
        BY <1>2, <1>4, <2>1, Unread, LenProperties DEF Path, GoneInv
      <4> QED
        BY <2>1, <2>12, <4>1, <4>2
    <3>3. i # 1 /\ i - 1 = n /\ stack'[i - 1].dir = Top.dir
      BY <2>1, <2>5, <2>10, <2>12
    <3>4. \A q \in Children(e) : q # Root /\ Parent(q) = e
      BY DEF Children
    <3>5. Children(e)' = Children(e)
      BY <1>2 DEF Children
    <3>6. /\ e \in DOMAIN tree' /\ tree'[e] = Dir /\ Under(e, Target')
          /\ Len(e) = Len(Target') + i - 1
      BY <1>2, <2>1, <2>2, <2>9, <3>2
    <3>7. Children(stack[i].dir)' = Children(e)
      BY <1>2, <3>1 DEF Children
    <3> QED
      BY <2>1, <3>1, <3>3, <3>4, <3>6, <3>7 DEF Unhindered
  <2>13. CASE i # n + 1
    <3>1. i \in 1..n /\ Unhindered(i)
      <4>1. i \in 1..n
        BY <1>4, <2>1, <2>10, <2>13
      <4> QED
        BY <1>2, <1>4, <4>1 DEF GoneInv, Proceeds, n
    <3>2. /\ stack'[i].r = 0 /\ stack'[i].links = 0 /\ stack'[i].path = stack'[i].dir
          /\ stack'[i].dir = stack[i].dir /\ stack'[i].unread \subseteq stack[i].unread
      BY <2>11, <3>1 DEF Unhindered
    <3>3. /\ Under(stack'[i].dir, Target') /\ Len(stack'[i].dir) = Len(Target') + i - 1
          /\ \A q \in stack'[i].unread : q # Root /\ Parent(q) = stack'[i].dir
          /\ stack'[i].dir \in DOMAIN tree' /\ tree'[stack'[i].dir] = Dir
      BY <1>2, <2>9, <3>1, <3>2 DEF Unhindered
    <3>4. IF i = 1 THEN stack'[i].dir = Target' ELSE Parent(stack'[i].dir) = stack'[i - 1].dir
      <4>1. CASE i = 1
        BY <2>9, <3>1, <3>2, <4>1 DEF Unhindered
      <4>2. CASE i # 1
        <5>1. i - 1 \in 1..n
          BY <2>1, <3>1, <4>2
        <5> QED
          BY <2>11, <3>1, <3>2, <4>2, <5>1 DEF Unhindered
      <4> QED
        BY <4>1, <4>2
    <3>5. ASSUME NEW q \in Children(stack[i].dir)'
          PROVE  q \in stack'[i].unread \/ (i < Len(stack') /\ q = stack'[i + 1].dir)
      <4>1. q \in Children(stack[i].dir)
        BY <1>2, <3>2, <3>5 DEF Children
      <4>2. q \in stack[i].unread \/ (i < n /\ q = stack[i + 1].dir)
        BY <3>1, <4>1 DEF Unhindered, n
      <4>3. CASE i = n
        <5>1. q \in stack[i].unread /\ n < n + 1
          BY <2>1, <4>2, <4>3
        <5> QED
          BY <2>4, <2>10, <2>11, <3>1, <4>3, <5>1
      <4>4. CASE i # n
        <5>1. i + 1 \in 1..n /\ i < n + 1
          BY <2>1, <3>1, <4>4
        <5> QED
          BY <2>10, <2>11, <3>1, <4>2, <4>4, <5>1
      <4> QED
        BY <4>3, <4>4
    <3> QED
      BY <3>2, <3>3, <3>4, <3>5 DEF Unhindered
  <2> QED
    BY <2>12, <2>13
<1>5. Proceeds'
  BY <1>2, <1>4, SameTarget DEF Proceeds
<1> QED
  BY <1>3, <1>5 DEF GoneInv

\* Where there is no obstacle stat does not fail.
LEMMA GoneReadDangling ==
    ASSUME KeptInv, GoneInv, ReadDangling
    PROVE  GoneInv'
<1>1. PICK e \in Entries : Follow(e, Top.links) = <<>> /\ stack' = WithRead(e, 0 - 1)
  BY DEF ReadDangling
<1>2. stack # <<>> /\ Removing /\ UNCHANGED <<before, home, locked, refused, pc, tree>>
  BY <1>1 DEF Entries, KeptInv, ReadDangling, given
<1>3. RemovedSoFar' /\ MadeAnew'
  BY <1>1, <1>2, GoneStays DEF GoneInv
<1>4. ASSUME ~Obstacle(Target) PROVE FALSE
  <2>1. e \in DOMAIN tree /\ Under(e, Target) /\ Top.links = 0
    BY <1>1, <1>2, <1>4, Unread DEF GoneInv, Unhindered
  <2> QED
    BY <1>1, <1>2, <1>4, <2>1, NoObstacle
<1>5. Proceeds'
  BY <1>2, <1>4, SameTarget DEF Proceeds
<1> QED
  BY <1>3, <1>5 DEF GoneInv

\* A call refused at an entry is an obstacle.
LEMMA GoneReadRefused ==
    ASSUME KeptInv, GoneInv, ReadRefused
    PROVE  GoneInv'
<1>1. PICK e \in Entries : refused' = refused \cup {e} /\ stack' = WithRead(e, 0 - 1)
  BY DEF ReadRefused, Refuse
<1>2. stack # <<>> /\ Removing /\ UNCHANGED <<before, home, locked, pc, tree>>
  BY <1>1 DEF Entries, KeptInv, ReadRefused, given
<1>3. RemovedSoFar' /\ MadeAnew'
  BY <1>1, <1>2, GoneStays DEF GoneInv
<1>4. ASSUME NEW d, d = Target, ~Obstacle(d)' PROVE FALSE
  <2>1. ~Obstacle(Target)
    BY <1>1, <1>2, <1>4, SameTarget
  <2>2. Under(e, d)
    BY <1>1, <1>2, <1>4, <2>1, Unread DEF GoneInv
  <2> QED
    BY <1>1, <1>4, <2>2 DEF Obstacle
<1>5. Proceeds'
  BY <1>1, <1>2, <1>4, SameTarget DEF Proceeds
<1> QED
  BY <1>3, <1>5 DEF GoneInv

\* A removal without obstacles does not fail: what was opened is empty and in
\* a directory that can be changed.
LEMMA ReturnRemoves ==
    ASSUME KeptInv, Removing, ~Obstacle(Target), Proceeds, stack # <<>>,
           Top.r # 0 \/ Entries = {}
    PROVE  Top.r = 0 /\ Rmdir(Top.path)
<1> DEFINE n == Len(stack)
<1>1. /\ n \in Nat \ {0} /\ Unhindered(n) /\ Top = stack[n] /\ Top.dir \in Path
      /\ Target \in Path /\ Target # Root
  BY Unread
<1>2. Shrunk /\ PlacesOK
  BY DEF KeptInv, Removing
<1>3. Top.r = 0 /\ Top.path = Top.dir /\ Top.dir \in DOMAIN tree /\ tree[Top.dir] = Dir
  BY <1>1 DEF Unhindered
<1>4. Children(Top.dir) = {}
  <2>1. ASSUME NEW q \in Children(Top.dir) PROVE FALSE
    <3>1. q \in Top.unread
      BY <1>1, <2>1 DEF Unhindered
    <3> QED
      BY <1>3, <2>1, <3>1 DEF Entries, Children
  <2> QED
    BY <2>1
<1>5. Parent(Top.dir) \notin locked
  <2>1. CASE n = 1
    <3>1. Top.dir = Target /\ Parent(Target) = home
      BY <1>1, <1>2, <2>1, Places DEF Unhindered, Target
    <3>2. Target \in DOMAIN tree /\ Under(Target, Target)
      BY <1>1, <1>3, <3>1, UnderItself
    <3> QED
      BY <3>1, <3>2, NoObstacle
  <2>2. CASE n # 1
    <3> DEFINE d == stack[n - 1].dir
    <3>1. n - 1 \in 1..Len(stack)
      <4>1. n \in Nat \ {0} /\ n # 1
        BY <1>1, <2>2
      <4> HIDE DEF n
      <4>2. n - 1 \in 1..n
        BY <4>1
      <4> QED
        BY <4>2 DEF n
    <3>2. Unhindered(n - 1) /\ Parent(Top.dir) = d
      <4>1. Unhindered(n - 1)
        BY <3>1 DEF Proceeds
      <4>2. Parent(Top.dir) = d
        BY <1>1, <2>2 DEF Unhindered
      <4> QED
        BY <4>1, <4>2
    <3>3. d \in DOMAIN tree /\ Under(d, Target)
      BY <3>2 DEF Unhindered
    <3>4. Top.dir # Root
      <4>1. Len(Top.dir) = Len(Target) + n - 1 /\ Len(Target) \in Nat \ {0}
        BY <1>1, EmptySeq DEF Unhindered, Path, Root
      <4>2. Len(Top.dir) # 0
        BY <1>1, <4>1
      <4> QED
        BY <4>2, EmptySeq DEF Root
    <3>5. d \in Path
      BY <1>1, <3>2, <3>4, ParentPath
    <3>6. Under(Top.dir, d) /\ Len(Top.dir) > Len(d)
      BY <1>1, <3>2, <3>4, <3>5, UnderItself, ChildUnder
    <3>7. Top.dir \in DOMAIN before
      BY <1>2, <1>3 DEF Shrunk
    <3>8. d \notin locked
      BY <3>3, <3>6, <3>7, NoObstacle
    <3> QED
      BY <3>2, <3>8
  <2> QED
    BY <2>1, <2>2
<1> QED
  BY <1>3, <1>4, <1>5 DEF Rmdir

LEMMA GoneReturn ==
    ASSUME KeptInv, GoneInv, Return
    PROVE  GoneInv'
<1>1. PICK gone \in {FALSE, CanGo} :
        /\ tree' = IF gone THEN Without(Top.path) ELSE tree
        /\ refused' = IF CanGo /\ ~gone THEN refused \cup {Top.path} ELSE refused
        /\ IF Callers = <<>>
           THEN stack' = <<>> /\ pc' = NextCall
           ELSE /\ stack' = [Callers EXCEPT ![Len(Callers)].r = IF gone THEN 0 ELSE 0 - 1]
                /\ pc' = pc
  BY DEF Return, RmdirTop, Refuse
<1>2. /\ stack # <<>> /\ Removing /\ UNCHANGED <<before, home, locked>>
      /\ Top.r # 0 \/ Entries = {}
  BY DEF KeptInv, Return, given
<1>3. DOMAIN tree' \subseteq DOMAIN tree /\ \A d : Obstacle(d) => Obstacle(d)'
  BY <1>1, <1>2, ObstaclesStay DEF Without
<1>4. ASSUME NEW d, d = Target, ~Obstacle(d)'
      PROVE  /\ gone /\ Len(stack) \in Nat \ {0} /\ Unhindered(Len(stack))
             /\ Top = stack[Len(stack)] /\ Target \in Path
             /\ Top.path = Top.dir /\ tree' = Without(Top.dir) /\ ~Obstacle(Target)
  <2>1. ~Obstacle(Target)
    BY <1>3, <1>4
  <2>2. /\ Len(stack) \in Nat \ {0} /\ Unhindered(Len(stack)) /\ Top = stack[Len(stack)]
        /\ Target \in Path
    BY <1>2, <2>1, Unread DEF GoneInv
  <2>3. Top.path = Top.dir /\ Under(Top.dir, d)
    BY <1>4, <2>2 DEF Unhindered
  <2>4. CanGo
    BY <1>2, <2>1, ReturnRemoves DEF GoneInv, CanGo
  <2>5. ASSUME ~gone PROVE FALSE
    <3>1. Top.dir \in refused'
      BY <1>1, <2>3, <2>4, <2>5
    <3> QED
      BY <1>4, <2>3, <3>1 DEF Obstacle
  <2> QED
    BY <1>1, <2>1, <2>2, <2>3, <2>5
<1>5. Callers \in Seq(Frames) /\ Len(Callers) = Len(stack) - 1 /\ Len(stack) \in Nat \ {0}
      /\ \A i \in 1..(Len(stack) - 1) : Callers[i] = stack[i]
  BY <1>2, WithoutLast DEF KeptInv, Callers
<1>6. CASE Callers = <<>>
  <2>1. stack' = <<>> /\ pc' = NextCall
    BY <1>1, <1>6
  <2>2. Proceeds'
    BY <2>1, EmptySeq DEF Proceeds
  <2>3. \A d : d = Target /\ ~Obstacle(d)' => Target \notin DOMAIN tree'
    <3>1. ASSUME NEW d, d = Target, ~Obstacle(d)' PROVE Target \notin DOMAIN tree'
      <4>1. Len(stack) = 1
        BY <1>5, <1>6, EmptySeq
      <4>2. Top.dir = Target
        BY <1>4, <3>1, <4>1 DEF Unhindered
      <4> QED
        BY <1>4, <3>1, <4>2 DEF Without
    <3> QED
      BY <3>1
  <2>4. Pcaps' = Pcaps /\ Reqts' = Reqts
    BY <1>2 DEF Pcaps, Reqts
  <2>5. RemovedSoFar' /\ MadeAnew'
    BY <1>2, <1>3, <2>1, <2>3, <2>4 DEF GoneInv, RemovedSoFar, MadeAnew, Removing, NextCall, Target
  <2> QED
    BY <2>2, <2>5 DEF GoneInv
<1>7. CASE Callers # <<>>
  <2> DEFINE x == IF gone THEN 0 ELSE 0 - 1
             m == Len(Callers)
  <2>1. pc' = pc /\ stack' = [Callers EXCEPT ![m].r = x]
    BY <1>1, <1>7
  <2>2. RemovedSoFar' /\ MadeAnew' /\ Target' = Target
    BY <1>1, <1>2, <1>3, <2>1, GoneStays, SameTarget DEF GoneInv
  <2>3. ASSUME NEW d, d = Target, ~Obstacle(d)', NEW i \in 1..Len(stack')
        PROVE  Unhindered(i)'
    <3> HIDE DEF x
    <3>1. x = 0
      BY <1>4, <2>3 DEF x
    <3>2. \A f \in Frames : [f EXCEPT !.r = x] \in Frames
      BY <3>1 DEF Frames
    <3>3. m \in Nat \ {0} /\ Len(stack) = m + 1 /\ \A j \in 1..m : Callers[j] \in Frames
      BY <1>5, <1>7, EmptySeq, LenProperties
    <3>4. /\ Len(stack') = m /\ stack'[m] = [Callers[m] EXCEPT !.r = x]
          /\ \A j \in 1..(m - 1) : stack'[j] = Callers[j]
      BY <1>5, <1>7, <2>1, <3>2, Answered
    <3> HIDE DEF m
    <3>5. ASSUME NEW j \in 1..m
          PROVE  /\ stack'[j].dir = stack[j].dir /\ stack'[j].path = stack[j].path
                 /\ stack'[j].links = stack[j].links /\ stack'[j].unread = stack[j].unread
                 /\ stack'[j].r = 0 \/ stack'[j].r = stack[j].r
      <4>1. Callers[j] = stack[j] /\ Callers[j] \in Frames
        <5>1. j \in 1..(Len(stack) - 1)
          BY <3>3, <3>5
        <5> QED
          BY <1>5, <3>3, <3>5, <5>1
      <4>2. CASE j = m
        BY <3>1, <3>4, <4>1, <4>2 DEF Frames
      <4>3. CASE j # m
        <5>1. j \in 1..(m - 1)
          BY <3>3, <3>5, <4>3
        <5> QED
          BY <3>4, <4>1, <5>1
      <4> QED
        BY <4>2, <4>3
    <3>6. i \in 1..m /\ Unhindered(i)
      <4>1. i \in 1..m /\ i \in 1..Len(stack)
        BY <2>3, <3>3, <3>4
      <4> QED
        BY <1>2, <1>4, <2>3, <4>1 DEF GoneInv, Proceeds
    <3>7. DOMAIN tree' = DOMAIN tree \ {Top.dir} /\ \A q \in DOMAIN tree' : tree'[q] = tree[q]
      BY <1>4, <2>3 DEF Without
    <3>8. stack[i].dir # Top.dir
      <4>1. Len(stack[i].dir) = Len(Target) + i - 1 /\ Len(Top.dir) = Len(Target) + (m + 1) - 1
        BY <1>4, <2>3, <3>3, <3>6 DEF Unhindered
      <4>2. Len(Target) \in Nat
        BY <1>4, <2>3, LenProperties DEF Path
      <4>3. i # m + 1
        BY <3>3, <3>6
      <4>4. Len(stack[i].dir) # Len(Top.dir)
        BY <3>3, <3>6, <4>1, <4>2, <4>3
      <4> QED
        BY <4>4
    <3>9. stack[i].dir \in DOMAIN tree' /\ tree'[stack[i].dir] = Dir
      BY <3>6, <3>7, <3>8 DEF Unhindered
    <3>10. IF i = 1 THEN stack'[i].dir = Target' ELSE Parent(stack'[i].dir) = stack'[i - 1].dir
      <4>1. CASE i = 1
        BY <2>2, <3>5, <3>6, <4>1 DEF Unhindered
      <4>2. CASE i # 1
        <5>1. i - 1 \in 1..m
          BY <3>3, <3>6, <4>2
        <5> QED
          BY <3>5, <3>6, <4>2, <5>1 DEF Unhindered
      <4> QED
        BY <4>1, <4>2
    <3>11. ASSUME NEW q \in Children(stack[i].dir)'
           PROVE  q \in stack'[i].unread \/ (i < Len(stack') /\ q = stack'[i + 1].dir)
      <4>1. q \in Children(stack[i].dir) /\ q # Top.dir
        BY <3>5, <3>6, <3>7, <3>11 DEF Children
      <4>2. q \in stack[i].unread \/ q = stack[i + 1].dir
        BY <3>6, <4>1 DEF Unhindered
      <4>3. CASE i = m
        <5>1. stack[i + 1] = Top
          BY <1>4, <2>3, <3>3, <4>3
        <5> QED
          BY <3>5, <3>6, <4>1, <4>2, <5>1
      <4>4. CASE i # m
        <5>1. i + 1 \in 1..m /\ i < m
          BY <3>3, <3>6, <4>4
        <5> QED
          BY <3>4, <3>5, <3>6, <4>2, <5>1
      <4> QED
        BY <4>3, <4>4
    <3>12. /\ stack'[i].r = 0 /\ stack'[i].links = 0 /\ stack'[i].path = stack'[i].dir
           /\ stack'[i].dir = stack[i].dir /\ stack'[i].unread = stack[i].unread
      BY <3>5, <3>6 DEF Unhindered
    <3>13. /\ Under(stack'[i].dir, Target') /\ Len(stack'[i].dir) = Len(Target') + i - 1
           /\ \A q \in stack'[i].unread : q # Root /\ Parent(q) = stack'[i].dir
      BY <2>2, <3>6, <3>12 DEF Unhindered
    <3> QED
      BY <3>9, <3>10, <3>11, <3>12, <3>13 DEF Unhindered
  <2>4. Proceeds'
    BY <1>1, <1>2, <2>1, <2>3, SameTarget DEF Proceeds
  <2> QED
    BY <2>2, <2>4 DEF GoneInv
<1> QED
  BY <1>6, <1>7

LEMMA GoneRemoveDir ==
    ASSUME KeptInv, GoneInv, RemoveDir
    PROVE  GoneInv'
<1>1. /\ Removing /\ UNCHANGED <<before, home, locked, refused, pc, tree>>
      /\ stack' = <<Frame(Target, 0)>> /\ Finds(Target, 0, TRUE)
  BY DEF RemoveDir, given
<1>2. RemovedSoFar' /\ MadeAnew'
  BY <1>1, GoneStays DEF GoneInv
<1>3. ASSUME ~Obstacle(Target), NEW i \in 1..Len(stack')
      PROVE  Unhindered(i)'
  <2> DEFINE x == Frame(Target, 0)
  <2>1. Target \in DOMAIN tree /\ Target \in Path /\ Under(Target, Target) /\ Target' = Target
    BY <1>1, Places, UnderItself, SameTarget DEF KeptInv, Target, Finds, Follow
  <2>2. tree[Target] = Dir
    BY <1>1, <1>3, <2>1, NoObstacle
  <2>3. x.path = Target /\ x.dir = Target /\ x.unread = Children(Target) /\ x.r = 0 /\ x.links = 0
    <3>1. Follow(Target, 0) = <<Target>> /\ Links(Target) = 0
      BY <2>1, <2>2 DEF Follow, Links, Dir
    <3> QED
      BY <3>1 DEF Frame
  <2> HIDE DEF x
  <2>4. stack' = <<x>> /\ i = 1
    BY <1>1, <1>3 DEF x
  <2>5. stack'[i] = x /\ Len(Target) = Len(Target) + i - 1
    <3>1. Len(Target) \in Nat
      BY <2>1, LenProperties DEF Path
    <3> QED
      BY <2>4, <3>1
  <2>6. Children(stack[i].dir)' = Children(Target)
    BY <1>1, <2>3, <2>5 DEF Children
  <2>7. \A q \in Children(Target) : q # Root /\ Parent(q) = Target
    BY DEF Children
  <2>8. stack'[i].dir \in DOMAIN tree' /\ tree'[stack'[i].dir] = Dir
    BY <1>1, <2>1, <2>2, <2>3, <2>5
  <2>9. /\ stack'[i].r = 0 /\ stack'[i].links = 0 /\ stack'[i].path = stack'[i].dir
        /\ Under(stack'[i].dir, Target') /\ Len(stack'[i].dir) = Len(Target') + i - 1
        /\ stack'[i].dir = Target'
    BY <2>1, <2>3, <2>5
  <2>10. /\ \A e \in stack'[i].unread : e # Root /\ Parent(e) = stack'[i].dir
         /\ \A q \in Children(stack[i].dir)' : q \in stack'[i].unread
    BY <2>1, <2>3, <2>5, <2>6, <2>7
  <2> QED
    BY <2>4, <2>8, <2>9, <2>10 DEF Unhindered
<1>4. Proceeds'
  BY <1>1, <1>3, SameTarget DEF Proceeds
<1> QED
  BY <1>2, <1>4 DEF GoneInv

\* What opendir cannot open, and is no obstacle, is not there.
LEMMA GoneNoDir ==
    ASSUME KeptInv, GoneInv, NoDir
    PROVE  GoneInv'
<1>1. /\ Removing /\ UNCHANGED <<before, home, locked, refused, tree>> /\ stack' = <<>>
      /\ ~Finds(Target, 0, TRUE) /\ pc' = NextCall
  BY DEF NoDir, given
<1>2. ~Obstacle(Target) => Target \notin DOMAIN tree'
  <2>1. ASSUME ~Obstacle(Target), Target \in DOMAIN tree PROVE FALSE
    <3>1. tree[Target] = Dir
      BY <1>1, <2>1 DEF Obstacle, KeptInv, Shrunk, Removing
    <3> QED
      BY <1>1, <2>1, <3>1 DEF Finds, Follow, Dir
  <2> QED
    BY <1>1, <2>1
<1>3. /\ Pcaps' = Pcaps /\ Reqts' = Reqts /\ DOMAIN tree' = DOMAIN tree
      /\ \A d : Obstacle(d) => Obstacle(d)'
  BY <1>1, ObstaclesStay DEF Pcaps, Reqts
<1>4. RemovedSoFar' /\ MadeAnew'
  BY <1>1, <1>2, <1>3 DEF GoneInv, RemovedSoFar, MadeAnew, Removing, NextCall, Target
<1>5. Proceeds'
  BY <1>1, EmptySeq DEF Proceeds
<1> QED
  BY <1>4, <1>5 DEF GoneInv

\* A target that cannot be opened has an obstacle.
LEMMA GoneRemoveRefused ==
    ASSUME KeptInv, GoneInv, RemoveRefused
    PROVE  GoneInv'
<1>1. /\ Removing /\ UNCHANGED <<before, home, locked, tree>> /\ stack' = <<>>
      /\ refused' = refused \cup {Target} /\ pc' = NextCall
  BY DEF RemoveRefused, Refuse, given
<1>2. \A d : d = Target => Obstacle(d)'
  <2>1. Under(Target, Target)
    BY <1>1, Places, UnderItself DEF KeptInv, Target
  <2> QED
    BY <1>1, <2>1 DEF Obstacle
<1>3. /\ Pcaps' = Pcaps /\ Reqts' = Reqts /\ DOMAIN tree' = DOMAIN tree
      /\ \A d : Obstacle(d) => Obstacle(d)'
  BY <1>1, ObstaclesStay DEF Pcaps, Reqts
<1>4. RemovedSoFar' /\ MadeAnew'
  BY <1>1, <1>2, <1>3 DEF GoneInv, RemovedSoFar, MadeAnew, Removing, NextCall, Target
<1>5. Proceeds'
  BY <1>1, EmptySeq DEF Proceeds
<1> QED
  BY <1>4, <1>5 DEF GoneInv

\* Above what is there, everything is there: the directory of the capture is.
LEMMA HomeAbove ==
    ASSUME PlacesOK, Shrunk, Capture \in DOMAIN tree
    PROVE  home \in DOMAIN tree
<1>1. Capture \in Path /\ Capture # Root
  BY TreesAssumption DEF Path
<1>2. Len(Capture) \in Nat \ {0}
  BY <1>1, ParentPath
<1>3. 0 \in 0..(Len(Capture) - 1) /\ Len(Capture) - 1 \in 0..(Len(Capture) - 1)
  BY <1>2
<1>4. SubSeq(Capture, 1, 0) \in DOMAIN tree /\ Parent(Capture) \in DOMAIN tree
  BY <1>3 DEF Shrunk, Parent
<1>5. SubSeq(Capture, 1, 0) = Root
  BY SubSeqEmpty DEF Root
<1> QED
  BY <1>4, <1>5 DEF PlacesOK

LEMMA GoneMakeDirs ==
    ASSUME KeptInv, GoneInv, MakeDirs
    PROVE  GoneInv'
<1>1. PICK no \in SUBSET Made :
        /\ DOMAIN tree' = DOMAIN tree \cup (Made \ no)
        /\ \A p \in DOMAIN tree' : tree'[p] = IF p \in DOMAIN tree THEN tree[p] ELSE Dir
        /\ refused' = refused \cup no
  BY DEF MakeDirs
<1>2. /\ pc = "make" /\ pc' = "open" /\ UNCHANGED <<before, home, locked, stack>>
      /\ Shrunk /\ PlacesOK /\ IsTree(before)
  BY Places DEF MakeDirs, given, KeptInv
<1>3. /\ Pcaps' = Pcaps /\ Reqts' = Reqts /\ \A d : Obstacle(d) => Obstacle(d)'
  BY <1>1, <1>2, ObstaclesStay DEF Pcaps, Reqts
<1>4. \A d \in {Pcaps, Reqts} : Obstacle(d) \/ d \notin DOMAIN tree
  BY <1>2 DEF GoneInv, RemovedSoFar
<1>5. ASSUME Capture \in DOMAIN tree' PROVE home' \in DOMAIN tree'
  <2>1. CASE home \in DOMAIN tree
    BY <1>1, <1>2, <2>1
  <2>2. CASE home \notin DOMAIN tree
    BY <1>1, <1>2, <1>5, <2>2, HomeAbove DEF Made
  <2> QED
    BY <2>1, <2>2
<1>6. ASSUME home \in DOMAIN tree', NEW d \in {Pcaps, Reqts}, ~Obstacle(d)'
      PROVE  d \in DOMAIN tree' /\ tree'[d] = Dir /\ Children(d)' = {}
  <2>1. d \notin DOMAIN tree /\ home \notin locked
    BY <1>3, <1>4, <1>6 DEF Obstacle
  <2>2. home \in DOMAIN tree
    BY <1>1, <1>6 DEF Made
  <2>3. d \in Made /\ Made \subseteq {Pcaps, Reqts}
    BY <1>6, <2>1, <2>2 DEF Made
  <2>4. d \in DOMAIN tree' /\ tree'[d] = Dir
    <3>1. Under(d, d)
      BY <1>2, <1>6, Places, UnderItself
    <3>2. d \notin no
      BY <1>1, <1>6, <3>1 DEF Obstacle
    <3> QED
      BY <1>1, <2>1, <2>3, <3>2
  <2>5. ASSUME NEW q \in Children(d)' PROVE FALSE
    <3>1. q \in DOMAIN tree' /\ q # Root /\ Parent(q) = d
      BY <2>5 DEF Children
    <3>2. CASE q \in DOMAIN tree
      <4>1. q \in Path
        BY <1>2, <3>2 DEF Shrunk, IsTree, Path
      <4>2. Len(q) \in Nat \ {0}
        BY <3>1, <4>1, ParentPath
      <4>3. Len(q) - 1 \in 0..(Len(q) - 1)
        BY <4>2
      <4> QED
        BY <1>2, <2>1, <3>1, <3>2, <4>3 DEF Shrunk, Parent
    <3>3. CASE q \in {Pcaps, Reqts}
      <4>1. Parent(q) = home /\ d \in Path /\ d # Root /\ Parent(d) = home
        BY <1>2, <1>6, <3>3, Places
      <4>2. Len(home) = Len(d) - 1 /\ Len(d) \in Nat
        BY <4>1, ParentPath
      <4> QED
        BY <3>1, <4>1, <4>2
    <3> QED
      BY <1>1, <2>3, <3>1, <3>2, <3>3
  <2> QED
    BY <2>4, <2>5
<1>7. MadeAnew'
  BY <1>2, <1>3, <1>5, <1>6 DEF MadeAnew
<1> QED
  BY <1>2, <1>7 DEF GoneInv, Proceeds, RemovedSoFar, Removing

LEMMA GoneRest ==
    ASSUME KeptInv, GoneInv, Locate \/ Open \/ OutOfMemory
    PROVE  GoneInv'
<1>1. CASE Locate
  <2>1. pc' = "pcaps" /\ stack' = <<>>
    BY <1>1 DEF Locate, KeptInv, Removing
  <2> QED
    BY <2>1, EmptySeq DEF GoneInv, Proceeds, RemovedSoFar, MadeAnew
<1>2. CASE Open
  <2>1. pc = "open" /\ pc' \in {"opened", "exit"} /\ UNCHANGED <<before, home, locked, refused, tree, stack>>
    BY <1>2 DEF Open, given
  <2>2. /\ Pcaps' = Pcaps /\ Reqts' = Reqts /\ \A d : Obstacle(d) => Obstacle(d)'
        /\ \A d : Children(d)' = Children(d)
    BY <2>1, ObstaclesStay DEF Pcaps, Reqts, Children
  <2> QED
    BY <2>1, <2>2 DEF GoneInv, Proceeds, RemovedSoFar, MadeAnew, Removing
<1>3. CASE OutOfMemory
  <2>1. pc' = "exit" /\ stack' = <<>>
    BY <1>3 DEF OutOfMemory
  <2> QED
    BY <2>1 DEF GoneInv, Proceeds, RemovedSoFar, MadeAnew, Removing
<1> QED
  BY <1>1, <1>2, <1>3

LEMMA GoneStep ==
    ASSUME KeptInv, GoneInv, [Next]_vars
    PROVE  GoneInv'
<1>1. CASE UNCHANGED vars
  <2>1. UNCHANGED <<before, home, locked, refused, pc, tree, stack>>
    BY <1>1 DEF vars, given
  <2>2. /\ Pcaps' = Pcaps /\ Reqts' = Reqts /\ \A d : Obstacle(d) => Obstacle(d)'
        /\ Target' = Target /\ (Removing <=> Removing')
        /\ \A d : Children(d)' = Children(d)
    BY <2>1, SameTarget DEF Pcaps, Reqts, Children
  <2>3. \A i : Unhindered(i)' <=> Unhindered(i)
    BY <2>1, <2>2 DEF Unhindered
  <2>4. Proceeds'
    BY <2>1, <2>2, <2>3 DEF GoneInv, Proceeds
  <2> QED
    BY <2>1, <2>2, <2>4 DEF GoneInv, RemovedSoFar, MadeAnew
<1>2. CASE Next
  BY <1>2, GoneReadFile, GoneReadDir, GoneReadDangling, GoneReadRefused, GoneReturn,
     GoneRemoveDir, GoneNoDir, GoneRemoveRefused, GoneMakeDirs, GoneRest DEF Next
<1> QED
  BY <1>1, <1>2

\* When the capture has been opened, it is there, and so is its directory.
OpenedInv == pc = "opened" => Capture \in DOMAIN tree

\* For every file system, and whichever system calls are refused: when the
\* capture is open, two empty directories stand where the results go, unless
\* removedir or mkdir met one of the obstacles: a call refused below that
\* directory, a locked directory, a link that leads nowhere or to a directory
\* (init_environment, main.c:498-502, and removedir, mydirent.c:588-623).
THEOREM NoOldAmongNew == Spec => []OldResultsGone
<1>1. Init => GoneInv /\ OpenedInv
  BY DEF Init, GoneInv, Proceeds, RemovedSoFar, MadeAnew, Removing, OpenedInv
<1>2. KeptInv /\ GoneInv /\ [Next]_vars => GoneInv'
  BY GoneStep
<1>3. KeptInv /\ OpenedInv /\ [Next]_vars => OpenedInv'
  <2>1. SUFFICES ASSUME KeptInv, OpenedInv, [Next]_vars, pc' = "opened"
                 PROVE  Capture \in DOMAIN tree'
    BY DEF OpenedInv
  <2>2. CASE pc = "opened"
    <3>1. stack = <<>>
      BY <2>1, <2>2 DEF KeptInv, Removing
    <3>2. tree' = tree
      BY <2>1, <2>2, <3>1 DEF Next, vars, Locate, RemoveDir, NoDir, ReadFile, ReadDir,
                              ReadDangling, Return, MakeDirs, Open, Removing, Entries,
                              RemoveRefused, ReadRefused, OutOfMemory
    <3> QED
      BY <2>1, <2>2, <3>2 DEF OpenedInv
  <2>3. CASE pc # "opened"
    <3>1. Open
      BY <2>1, <2>3 DEF Next, vars, Locate, RemoveDir, NoDir, ReadFile, ReadDir,
                        ReadDangling, Return, MakeDirs, NextCall,
                        RemoveRefused, ReadRefused, OutOfMemory
    <3> QED
      BY <2>1, <3>1 DEF Open
  <2> QED
    BY <2>2, <2>3
<1>4. GoneInv /\ OpenedInv => OldResultsGone
  BY DEF GoneInv, MadeAnew, OpenedInv, OldResultsGone
<1> QED
  BY KeptInit, KeptStep, <1>1, <1>2, <1>3, <1>4, PTL DEF Spec

-----------------------------------------------------------------------------
(* The recursion is bounded, and ends.                                     *)

\* Everything there was; removedir never holds more directories open than
\* that, once for each number of links it has come through.
Population == Cardinality(DOMAIN before)
Deepest    == (MaxLinks + 1) * Population

\* Frames lie ever deeper, or behind more links.
Level(f) == f.links * Population + Len(f.dir)

FrameFits(f, i) ==
    /\ f.links \in 0..MaxLinks
    /\ \A e \in f.unread : e # Root /\ Parent(e) = f.dir
    /\ i <= Level(f) + 1

DepthInv == \A i \in 1..Len(stack) : FrameFits(stack[i], i)

LEMMA PopulationFinite ==
    ASSUME PlacesOK
    PROVE  IsFiniteSet(DOMAIN before) /\ Population \in Nat
<1>1. IsFiniteSet(DOMAIN before)
  BY FiniteTreesAssumption DEF PlacesOK
<1> QED
  BY <1>1, FS_CardinalityType DEF Population

\* A path has as many entries above it as it has names.
LEMMA PathShort ==
    ASSUME PlacesOK, NEW p \in DOMAIN before
    PROVE  p \in Path /\ Len(p) \in Nat /\ Len(p) < Population
<1> DEFINE n == Len(p)
           S == 0..n
           T == DOMAIN before
           f == [k \in S |-> SubSeq(p, 1, k)]
<1>1. IsTree(before) /\ p \in Path /\ n \in Nat
  BY Places, LenProperties DEF IsTree, Path
<1>2. ASSUME NEW k \in S PROVE f[k] \in T /\ Len(f[k]) = k
  <2>1. CASE k = n
    BY <1>1, <2>1, SubSeqFull DEF Path
  <2>2. CASE k # n
    <3>1. k \in 0..(n - 1)
      BY <1>1, <2>2
    <3>2. f[k] \in T
      BY <1>1, <3>1 DEF IsTree
    <3>3. \A i \in 1..k : p[i] \in Names
      BY <1>1, <3>1, LenProperties DEF Path
    <3>4. Len(SubSeq(p, 1, k)) = IF 1 <= k THEN k - 1 + 1 ELSE 0
      BY <3>1, <3>3, SubSeqProperties
    <3>5. Len(SubSeq(p, 1, k)) = k
      BY <3>1, <3>4
    <3> QED
      BY <3>2, <3>5
  <2> QED
    BY <2>1, <2>2
<1>3. f \in Injection(S, T)
  <2>1. f \in [S -> T]
    <3> HIDE DEF S, T
    <3> QED
      BY <1>2
  <2>2. \A j, k \in S : f[j] = f[k] => j = k
    <3> HIDE DEF S, T, f
    <3> QED
      BY <1>2
  <2> HIDE DEF S, T, f
  <2> QED
    BY <2>1, <2>2 DEF Injection, IsInjective
<1>4. IsFiniteSet(T) /\ Population \in Nat /\ Population = Cardinality(T)
  BY PopulationFinite DEF Population
<1>5. Cardinality(S) <= Cardinality(T)
  <2> HIDE DEF S, T, f
  <2> QED
    BY <1>3, <1>4, FS_Injection
<1>6. Cardinality(S) = n + 1
  <2> HIDE DEF n
  <2>1. Cardinality(0..n) = IF 0 > n THEN 0 ELSE n - 0 + 1
    BY <1>1, FS_Interval
  <2> QED
    BY <1>1, <2>1
<1> QED
  <2> HIDE DEF n, S, T
  <2> QED
    BY <1>1, <1>4, <1>5, <1>6 DEF n

\* opendir at p, after n links.
LEMMA FrameAt ==
    ASSUME PlacesOK, Shrunk, NEW p, NEW n \in 0..MaxLinks, Finds(p, n, TRUE),
           Links(p) = 1 => n < MaxLinks, NEW i \in Nat,
           \/ i = 1
           \/ \E l \in Nat : l < Population /\ i = n * Population + l + 2 /\ Len(p) = l + 1
    PROVE  FrameFits(Frame(p, n), i)
<1> DEFINE d == Follow(p, n)[1]
           g == Population
<1>1. p \in DOMAIN tree /\ d \in DOMAIN tree /\ (d = p \/ Links(p) = 1) /\ Links(p) \in {0, 1}
  BY DEF Finds, Follow, Links
<1>2. d \in DOMAIN before
  BY <1>1 DEF Shrunk
<1>3. Len(d) \in Nat /\ g \in Nat /\ n \in Nat /\ MaxLinks \in Nat /\ n <= MaxLinks
  BY <1>2, PathShort, PopulationFinite, LinksAssumption
<1>4. \A e \in Children(d) : e # Root /\ Parent(e) = d
  BY DEF Children
<1> DEFINE m == n + Links(p)
<1>5. m \in 0..MaxLinks
  BY <1>1, <1>3
<1>6. i <= m * g + Len(d) + 1
  <2> DEFINE u == n * g
             v == m * g
             h == Len(d)
  <2>1. u \in Nat /\ v \in Nat
    BY <1>3, <1>5
  <2>2. Links(p) = 1 => v = u + g
    <3>1. (n + 1) * g = n * g + g
      BY <1>3
    <3> QED
      BY <3>1
  <2>3. Links(p) = 0 => v = u
    BY <1>3
  <2>4. d = p => h = Len(p)
    OBVIOUS
  <2>5. i = 1 \/ \E l \in Nat : l < g /\ i = u + l + 2 /\ Len(p) = l + 1
    OBVIOUS
  <2> HIDE DEF d, g, m, u, v, h
  <2>6. h \in Nat /\ g \in Nat
    BY <1>3 DEF h
  <2>7. CASE i = 1
    <3>1. 1 <= v + h + 1
      BY <2>1, <2>6
    <3> QED
      BY <2>7, <3>1 DEF v, h
  <2>8. CASE i # 1
    <3>1. PICK l \in Nat : l < g /\ i = u + l + 2 /\ Len(p) = l + 1
      BY <2>5, <2>8
    <3>2. (v = u /\ h = l + 1) \/ v = u + g
      BY <1>1, <2>2, <2>3, <2>4, <3>1
    <3>3. i <= v + h + 1
      BY <2>1, <2>6, <3>1, <3>2
    <3> QED
      BY <3>3 DEF v, h
  <2> QED
    BY <2>7, <2>8
<1>7. Frame(p, n).links = m /\ Frame(p, n).dir = d /\ Frame(p, n).unread = Children(d)
  BY DEF Frame
<1> HIDE DEF d, m, g
<1> QED
  BY <1>4, <1>5, <1>6, <1>7 DEF FrameFits, Level, g

\* A frame of which less is to be read, or to which a call has returned.
LEMMA FrameStill ==
    ASSUME NEW f, NEW h, NEW i, FrameFits(f, i),
           h.dir = f.dir, h.links = f.links, h.unread \subseteq f.unread
    PROVE  FrameFits(h, i)
BY DEF FrameFits, Level

\* The frames after a step, judged as before it.
LEMMA DepthAfter ==
    ASSUME before' = before, \A i \in 1..Len(stack') : FrameFits(stack'[i], i)
    PROVE  DepthInv'
<1>1. Population' = Population
  BY DEF Population
<1> QED
  BY <1>1 DEF DepthInv, FrameFits, Level

\* The frame being read, e taken from what is left.
LEMMA ReadOn ==
    ASSUME KeptInv, stack # <<>>, NEW e \in Entries, NEW x \in {0, 0 - 1}
    PROVE  LET s == WithRead(e, x)
               n == Len(stack)
           IN  /\ s \in Seq(Frames) /\ n \in Nat \ {0} /\ Len(s) = n /\ stack \in Seq(Frames)
               /\ stack[n] = Top /\ e \in Top.unread /\ Top \in Frames
               /\ s[n] = [Top EXCEPT !.unread = @ \ {e}, !.r = x]
               /\ \A i \in 1..(n - 1) : s[i] = stack[i]
<1>1. stack \in Seq(Frames)
  BY DEF KeptInv
<1>2. Len(stack) \in Nat \ {0} /\ Top \in Frames /\ Top = stack[Len(stack)]
  BY <1>1, WithoutLast DEF Top
<1> DEFINE y == [Top EXCEPT !.unread = @ \ {e}, !.r = x]
<1>3. y \in Frames
  BY <1>2 DEF Frames
<1>4. WithRead(e, x) = Append(SubSeq(stack, 1, Len(stack) - 1), y) /\ e \in Top.unread
  BY DEF WithRead, Callers, Entries
<1> HIDE DEF y
<1>5. LET t == Append(SubSeq(stack, 1, Len(stack) - 1), y)
      IN  /\ t \in Seq(Frames) /\ Len(t) = Len(stack) /\ t[Len(stack)] = y
          /\ \A i \in 1..(Len(stack) - 1) : t[i] = stack[i]
  BY <1>1, <1>3, LastReplaced
<1> QED
  BY <1>1, <1>2, <1>4, <1>5 DEF y

LEMMA ReadFits ==
    ASSUME KeptInv, DepthInv, stack # <<>>, NEW e \in Entries, NEW x \in {0, 0 - 1}
    PROVE  \A i \in 1..Len(WithRead(e, x)) : FrameFits(WithRead(e, x)[i], i)
<1> DEFINE n == Len(stack)
           s == WithRead(e, x)
<1>1. /\ n \in Nat \ {0} /\ Len(s) = n /\ stack[n] = Top /\ Top \in Frames
      /\ s[n] = [Top EXCEPT !.unread = @ \ {e}, !.r = x]
      /\ \A i \in 1..(n - 1) : s[i] = stack[i]
  BY ReadOn
<1>2. \A i \in 1..n : FrameFits(stack[i], i)
  BY DEF DepthInv
<1> HIDE DEF n, s
<1>3. FrameFits(s[n], n)
  <2>1. FrameFits(Top, n)
    BY <1>1, <1>2
  <2>2. /\ s[n].dir = Top.dir /\ s[n].links = Top.links
        /\ s[n].unread = Top.unread \ {e}
    BY <1>1 DEF Frames
  <2> QED
    BY <2>1, <2>2, FrameStill
<1>4. ASSUME NEW i \in 1..n PROVE FrameFits(s[i], i)
  <2>1. CASE i = n
    BY <1>3, <2>1
  <2>2. CASE i # n
    <3>1. i \in 1..(n - 1)
      BY <1>1, <2>2
    <3> QED
      BY <1>1, <1>2, <3>1
  <2> QED
    BY <2>1, <2>2
<1> QED
  BY <1>1, <1>4 DEF s

LEMMA DepthStep ==
    ASSUME KeptInv, DepthInv, [Next]_vars
    PROVE  DepthInv'
<1>1. before' = before
  BY DEF Next, vars, given, Locate, RemoveDir, NoDir, RemoveRefused, ReadFile, ReadDir,
         ReadDangling, ReadRefused, Return, MakeDirs, Open, OutOfMemory
<1>2. CASE ReadFile \/ ReadDangling \/ ReadRefused
  <2>1. PICK e \in Entries, x \in {0, 0 - 1} : stack' = WithRead(e, x)
    BY <1>2 DEF ReadFile, ReadDangling, ReadRefused
  <2>2. stack # <<>>
    BY <2>1 DEF Entries
  <2> QED
    BY <1>1, <2>1, <2>2, ReadFits, DepthAfter
<1>3. CASE ReadDir
  <2>1. PICK e \in Entries :
          Finds(e, Top.links, TRUE) /\ stack' = Append(WithRead(e, 0), Frame(e, Top.links))
    BY <1>3 DEF ReadDir
  <2> DEFINE n == Len(stack)
             s == WithRead(e, 0)
             y == Frame(e, Top.links)
  <2>2. stack # <<>>
    BY <2>1 DEF Entries
  <2>3. Removing /\ Shrunk /\ PlacesOK
    BY <2>2 DEF KeptInv, Removing
  <2>4. /\ n \in Nat \ {0} /\ Len(s) = n /\ stack[n] = Top /\ Top \in Frames /\ s \in Seq(Frames)
        /\ e \in Top.unread
    BY <2>2, ReadOn
  <2>5. \A i \in 1..n : FrameFits(s[i], i)
    BY <2>2, <2>4, ReadFits
  <2>6. FrameFits(Top, n)
    BY <2>4 DEF DepthInv
  <2>7. y \in Frames
    BY <2>1, <2>3, <2>4, FrameMade DEF Frames
  <2>8. FrameFits(y, n + 1)
    <3> DEFINE l == Len(Top.dir)
               g == Population
               m == Top.links
               w == m * g
    <3>1. l \in Nat /\ l < g /\ g \in Nat
      BY <2>3, <2>4, PathShort, PopulationFinite DEF Frames
    <3>2. m \in 0..MaxLinks /\ n <= w + l + 1 /\ e # Root /\ Parent(e) = Top.dir
      BY <2>4, <2>6 DEF FrameFits, Level
    <3>3. e \in Path /\ e \in DOMAIN tree /\ Links(e) \in {0, 1}
      BY <2>1, <2>3, PathShort DEF Finds, Follow, Shrunk, Links
    <3>4. Len(e) = l + 1
      BY <3>2, <3>3, ParentPath
    <3>5. Links(e) = 1 => m < MaxLinks
      BY <2>1 DEF Finds, Follow, Links
    <3>6. m \in Nat /\ w \in Nat
      BY <3>1, <3>2, LinksAssumption
    <3> DEFINE j == w + l + 2
    <3>7. FrameFits(y, j)
      <4>1. j \in Nat
        BY <3>1, <3>6
      <4>2. l < Population /\ j = Top.links * Population + l + 2 /\ Len(e) = l + 1
        BY <3>1, <3>4
      <4> HIDE DEF j, l, w
      <4> QED
        BY <2>1, <2>3, <3>1, <3>2, <3>5, <4>1, <4>2, FrameAt
    <3>8. n + 1 <= j
      <4> HIDE DEF l, w, n
      <4> QED
        BY <2>4, <3>1, <3>2, <3>6
    <3>9. j <= Level(y) + 1 /\ Level(y) \in Nat
      <4>1. y.links \in 0..MaxLinks /\ j <= Level(y) + 1
        BY <3>7 DEF FrameFits
      <4>2. Len(y.dir) \in Nat
        BY <2>3, <2>7, PathShort DEF Frames
      <4>3. Level(y) \in Nat
        <5>1. y.links \in Nat
          BY <4>1, LinksAssumption
        <5> HIDE DEF y
        <5>2. y.links * g \in Nat
          BY <3>1, <5>1
        <5> QED
          BY <4>2, <5>2 DEF Level
      <4> QED
        BY <4>1, <4>3
    <3>10. n + 1 <= Level(y) + 1
      <4> DEFINE v == Level(y)
      <4>1. j \in Nat
        <5> HIDE DEF l, w
        <5> QED
          BY <3>1, <3>6
      <4> HIDE DEF v, j, n, y
      <4>2. v \in Nat /\ j <= v + 1
        BY <3>9 DEF v
      <4>3. n + 1 <= v + 1
        BY <2>4, <3>8, <4>1, <4>2
      <4> QED
        BY <4>3 DEF v
    <3> QED
      BY <3>7, <3>10 DEF FrameFits
  <2>9. /\ Len(stack') = n + 1 /\ stack'[n + 1] = y
        /\ \A i \in 1..n : stack'[i] = s[i]
    <3> HIDE DEF s, y
    <3> QED
      BY <2>1, <2>4, <2>7, AppendProperties DEF s, y
  <2>10. ASSUME NEW i \in 1..(n + 1) PROVE FrameFits(stack'[i], i)
    <3> HIDE DEF n, s, y
    <3>1. CASE i = n + 1
      BY <2>8, <2>9, <3>1
    <3>2. CASE i # n + 1
      <4>1. i \in 1..n
        BY <2>4, <3>2
      <4> QED
        BY <2>5, <2>9, <4>1
    <3> QED
      BY <3>1, <3>2
  <2> QED
    BY <1>1, <2>9, <2>10, DepthAfter
<1>4. CASE Return
  <2>1. PICK x : IF Callers = <<>> THEN stack' = <<>>
                 ELSE stack' = [Callers EXCEPT ![Len(Callers)].r = x] /\ x \in {0, 0 - 1}
    BY <1>4 DEF Return
  <2>2. stack # <<>> /\ stack \in Seq(Frames)
    BY <1>4 DEF Return, KeptInv
  <2>3. /\ Callers \in Seq(Frames) /\ Len(stack) \in Nat \ {0} /\ Len(Callers) = Len(stack) - 1
        /\ \A i \in 1..(Len(stack) - 1) : Callers[i] = stack[i]
    BY <2>2, WithoutLast DEF Callers
  <2>4. CASE Callers = <<>>
    BY <2>1, <2>4, EmptySeq DEF DepthInv
  <2>5. CASE Callers # <<>>
    <3> DEFINE m == Len(Callers)
    <3>1. stack' = [Callers EXCEPT ![m].r = x] /\ x \in {0, 0 - 1}
      BY <2>1, <2>5
    <3>2. \A f \in Frames : [f EXCEPT !.r = x] \in Frames
      BY <3>1 DEF Frames
    <3>3. m \in Nat \ {0} /\ m < Len(stack) /\ \A j \in 1..m : Callers[j] \in Frames
      BY <2>3, <2>5, EmptySeq, LenProperties
    <3>4. /\ Len(stack') = m /\ stack'[m] = [Callers[m] EXCEPT !.r = x]
          /\ \A j \in 1..(m - 1) : stack'[j] = Callers[j]
      BY <2>3, <2>5, <3>1, <3>2, Answered
    <3>5. ASSUME NEW j \in 1..m PROVE FrameFits(Callers[j], j)
      <4>1. j \in 1..(Len(stack) - 1) /\ j \in 1..Len(stack)
        BY <2>3, <3>3
      <4> QED
        BY <2>3, <4>1 DEF DepthInv
    <3> HIDE DEF m
    <3>6. ASSUME NEW j \in 1..m PROVE FrameFits(stack'[j], j)
      <4>1. CASE j = m
        <5>1. /\ stack'[m].dir = Callers[m].dir /\ stack'[m].links = Callers[m].links
              /\ stack'[m].unread = Callers[m].unread
          BY <3>3, <3>4 DEF Frames
        <5>2. FrameFits(Callers[m], m)
          BY <3>3, <3>5
        <5> QED
          BY <4>1, <5>1, <5>2, FrameStill
      <4>2. CASE j # m
        <5>1. j \in 1..(m - 1)
          BY <3>3, <4>2
        <5> QED
          BY <3>4, <3>5, <5>1
      <4> QED
        BY <4>1, <4>2
    <3> QED
      BY <1>1, <3>4, <3>6, DepthAfter
  <2> QED
    BY <2>4, <2>5
<1>5. CASE RemoveDir
  <2>1. stack' = <<Frame(Target, 0)>> /\ Finds(Target, 0, TRUE) /\ Removing
    BY <1>5 DEF RemoveDir
  <2>2. PlacesOK /\ Shrunk /\ 0 \in 0..MaxLinks /\ 0 < MaxLinks
    BY <2>1, LinksAssumption DEF KeptInv, Removing
  <2>3. FrameFits(Frame(Target, 0), 1)
    BY <2>1, <2>2, FrameAt
  <2>4. Len(stack') = 1 /\ stack'[1] = Frame(Target, 0)
    BY <2>1
  <2> QED
    BY <1>1, <2>3, <2>4, DepthAfter
<1>6. CASE Locate \/ NoDir \/ RemoveRefused \/ MakeDirs \/ Open \/ UNCHANGED vars
  <2>1. stack' = stack
    BY <1>6 DEF Locate, NoDir, RemoveRefused, MakeDirs, Open, vars
  <2> QED
    BY <1>1, <2>1, DepthAfter DEF DepthInv
<1>7. CASE OutOfMemory
  <2>1. stack' = <<>>
    BY <1>7 DEF OutOfMemory
  <2> QED
    BY <1>1, <2>1, EmptySeq, DepthAfter
<1> QED
  BY <1>2, <1>3, <1>4, <1>5, <1>6, <1>7 DEF Next

LEMMA NotTooDeep ==
    ASSUME KeptInv, DepthInv
    PROVE  Len(stack) \in Nat /\ Len(stack) <= Deepest /\ Deepest \in Nat
<1> DEFINE n == Len(stack)
           g == Population
<1>1. g \in Nat /\ MaxLinks \in Nat /\ PlacesOK
  BY PopulationFinite, LinksAssumption DEF KeptInv
<1>2. Deepest \in Nat /\ Deepest = MaxLinks * g + g /\ MaxLinks * g \in Nat
  BY <1>1 DEF Deepest
<1>3. CASE stack = <<>>
  BY <1>2, <1>3
<1>4. CASE stack # <<>>
  <2> DEFINE f == stack[n]
             l == Len(f.dir)
             m == f.links
             u == m * g
             v == MaxLinks * g
  <2>1. n \in Nat \ {0} /\ f \in Frames
    BY <1>4, WithoutLast DEF KeptInv
  <2>2. l \in Nat /\ l < g
    BY <1>1, <2>1, PathShort DEF Frames
  <2>3. m \in 0..MaxLinks /\ n <= u + l + 1
    BY <2>1 DEF DepthInv, FrameFits, Level
  <2>4. u \in Nat /\ u <= v
    <3> DEFINE d == MaxLinks - m
    <3>1. d \in Nat /\ m \in Nat /\ MaxLinks = m + d
      BY <1>1, <2>3
    <3> HIDE DEF d, m, g
    <3>2. (m + d) * g = m * g + d * g /\ m * g \in Nat /\ d * g \in Nat
      BY <1>1, <3>1
    <3> DEFINE w == d * g
    <3>3. v = u + w /\ u \in Nat /\ w \in Nat
      BY <3>1, <3>2
    <3> HIDE DEF u, v, w
    <3> QED
      BY <3>3
  <2> HIDE DEF n, g, f, l, m, u
  <2>5. v \in Nat /\ Deepest = v + g
    BY <1>2
  <2> HIDE DEF v
  <2>6. n <= Deepest
    BY <1>1, <2>1, <2>2, <2>3, <2>4, <2>5
  <2> QED
    BY <1>2, <2>1, <2>6 DEF n
<1> QED
  BY <1>3, <1>4

LEMMA DepthInit == Init => DepthInv
BY EmptySeq DEF Init, DepthInv

LEMMA AlwaysDeep == Spec => []KeptInv /\ []DepthInv
BY KeptInit, KeptStep, DepthInit, DepthStep, PTL DEF Spec

\* removedir calls itself no deeper than there are entries in the file
\* system, once for each number of links on the way - also where a link leads
\* back up into what is being removed (mydirent.c:598-616).
THEOREM RecursionIsBounded == Spec => [](Len(stack) <= (MaxLinks + 1) * Population)
<1>1. KeptInv /\ DepthInv => Len(stack) <= (MaxLinks + 1) * Population
  BY NotTooDeep DEF Deepest
<1> QED
  BY <1>1, AlwaysDeep, PTL

\* What the program has to do yet before the capture is open, removals apart.
CallsLeft == IF pc = "start" THEN 7
             ELSE IF pc = "pcaps" THEN IF stack = <<>> THEN 6 ELSE 5
             ELSE IF pc = "reqts" THEN IF stack = <<>> THEN 4 ELSE 3
             ELSE IF pc = "make" THEN 2
             ELSE IF pc = "open" THEN 1
             ELSE 0

\* What the i-th call of removedir has: its entries, and to return.
CallHas(s, i) == IF i <= Len(s) THEN Cardinality(s[i].unread) + 1 ELSE 0

\* All that is left, the outer calls first.
Remaining == [i \in 0..Deepest |-> IF i = 0 THEN CallsLeft ELSE CallHas(stack, i)]

\* The order of such lists by the first place in which they differ.
Below(v, w) == \E i \in DOMAIN w : v[i] < w[i] /\ \A j \in DOMAIN w : j < i => v[j] = w[j]

LEMMA RemainingTypes ==
    ASSUME KeptInv, DepthInv
    PROVE  Remaining \in [0..Deepest -> Nat]
<1>1. CallsLeft \in Nat
  BY DEF CallsLeft
<1>2. ASSUME NEW i \in 1..Deepest PROVE CallHas(stack, i) \in Nat
  <2>1. CASE i <= Len(stack)
    <3>1. Deepest \in Nat /\ Len(stack) \in Nat
      BY NotTooDeep
    <3>2. i \in 1..Len(stack) /\ stack # <<>>
      BY <2>1, <3>1
    <3>3. stack[i] \in Frames /\ IsFiniteSet(DOMAIN before)
      BY <3>2, PopulationFinite, LenProperties DEF KeptInv
    <3>4. stack[i].unread \in SUBSET DOMAIN before
      BY <3>3 DEF Frames, MayGo
    <3>5. Cardinality(stack[i].unread) \in Nat
      BY <3>3, <3>4, FS_Subset, FS_CardinalityType
    <3> QED
      BY <2>1, <3>5 DEF CallHas
  <2> QED
    BY <2>1 DEF CallHas
<1>3. Deepest \in Nat
  BY NotTooDeep
<1> HIDE DEF CallsLeft, CallHas
<1> QED
  BY <1>1, <1>2, <1>3 DEF Remaining

\* The call at place n has less left, and the calls outside it as much.
LEMMA LessAt ==
    ASSUME Deepest' = Deepest, NEW n \in 1..Deepest, Deepest \in Nat, CallsLeft' = CallsLeft,
           CallHas(stack', n) < CallHas(stack, n),
           \A i \in 1..(n - 1) : CallHas(stack', i) = CallHas(stack, i)
    PROVE  Below(Remaining', Remaining)
<1> DEFINE D == 0..Deepest
           v == Remaining'
           w == Remaining
<1>1. v = [i \in D |-> IF i = 0 THEN CallsLeft' ELSE CallHas(stack', i)]
  BY DEF Remaining, CallHas
<1>2. w = [i \in D |-> IF i = 0 THEN CallsLeft ELSE CallHas(stack, i)]
  BY DEF Remaining
<1>3. n \in D /\ n # 0 /\ \A j \in D : j < n => j = 0 \/ j \in 1..(n - 1)
  OBVIOUS
<1> HIDE DEF v, w, D
<1>4. v[n] < w[n] /\ \A j \in D : j < n => v[j] = w[j]
  BY <1>1, <1>2, <1>3
<1>5. DOMAIN w = D
  BY <1>2
<1> QED
  BY <1>3, <1>4, <1>5 DEF Below, v, w

LEMMA LessRead ==
    ASSUME KeptInv, stack # <<>>, NEW e \in Entries, NEW x \in {0, 0 - 1}
    PROVE  LET s == WithRead(e, x)
               n == Len(stack)
           IN  /\ CallHas(s, n) < CallHas(stack, n)
               /\ \A i \in 1..(n - 1) : CallHas(s, i) = CallHas(stack, i)
<1> DEFINE s == WithRead(e, x)
           n == Len(stack)
           u == Top.unread
<1>1. /\ n \in Nat \ {0} /\ Len(s) = n /\ stack[n] = Top /\ e \in u /\ Top \in Frames
      /\ s[n] = [Top EXCEPT !.unread = @ \ {e}, !.r = x]
      /\ \A i \in 1..(n - 1) : s[i] = stack[i]
  BY ReadOn
<1>2. s[n].unread = u \ {e} /\ u \in SUBSET DOMAIN before
  BY <1>1 DEF Frames, MayGo
<1>3. IsFiniteSet(DOMAIN before)
  BY PopulationFinite DEF KeptInv
<1> HIDE DEF s, n, u
<1>4. IsFiniteSet(u) /\ Cardinality(u) \in Nat
  BY <1>2, <1>3, FS_Subset, FS_CardinalityType
<1>5. Cardinality(u \ {e}) = Cardinality(u) - 1
  BY <1>1, <1>4, FS_RemoveElement
<1>6. CallHas(s, n) = Cardinality(u \ {e}) + 1 /\ CallHas(stack, n) = Cardinality(u) + 1
  BY <1>1, <1>2 DEF CallHas, n, u
<1>7. \A i \in 1..(n - 1) : CallHas(s, i) = CallHas(stack, i)
  <2>1. Len(stack) = n
    BY DEF n
  <2> QED
    BY <1>1, <2>1 DEF CallHas
<1> QED
  BY <1>4, <1>5, <1>6, <1>7 DEF s, n

LEMMA StepDescends ==
    ASSUME KeptInv, DepthInv, KeptInv', DepthInv', Next
    PROVE  Deepest' = Deepest /\ Below(Remaining', Remaining)
<1> DEFINE n == Len(stack)
<1>1. before' = before
  BY DEF Next, given, Locate, RemoveDir, NoDir, RemoveRefused, ReadFile, ReadDir,
         ReadDangling, ReadRefused, Return, MakeDirs, Open, OutOfMemory
<1>2. Deepest' = Deepest /\ Deepest \in Nat /\ n \in Nat /\ n <= Deepest
  BY <1>1, NotTooDeep DEF Deepest, Population
<1> SUFFICES Below(Remaining', Remaining)
  BY <1>2
<1>3. ASSUME CallsLeft' < CallsLeft PROVE Below(Remaining', Remaining)
  <2>1. 0 \in 0..Deepest /\ \A j \in 0..Deepest : ~(j < 0)
    BY <1>2
  <2>2. Remaining[0] = CallsLeft /\ Remaining'[0] = CallsLeft' /\ DOMAIN Remaining = 0..Deepest
    BY <1>2, <2>1 DEF Remaining
  <2> QED
    BY <1>3, <2>1, <2>2 DEF Below
<1>4. ASSUME stack # <<>>, pc' = pc, stack' # <<>>,
             CallHas(stack', n) < CallHas(stack, n),
             \A i \in 1..(n - 1) : CallHas(stack', i) = CallHas(stack, i)
      PROVE  Below(Remaining', Remaining)
  <2>1. n \in 1..Deepest
    BY <1>2, <1>4, EmptySeq, LenProperties DEF KeptInv
  <2>2. CallsLeft' = CallsLeft
    BY <1>4 DEF CallsLeft
  <2> QED
    BY <1>2, <1>4, <2>1, <2>2, LessAt
<1>5. CASE ReadFile \/ ReadDangling \/ ReadRefused
  <2>1. PICK e \in Entries, x \in {0, 0 - 1} : stack' = WithRead(e, x)
    BY <1>5 DEF ReadFile, ReadDangling, ReadRefused
  <2>2. stack # <<>> /\ pc' = pc
    BY <1>5 DEF Entries, ReadFile, ReadDangling, ReadRefused
  <2>3. stack' # <<>>
    BY <2>1, <2>2, ReadOn
  <2> QED
    BY <1>4, <2>1, <2>2, <2>3, LessRead
<1>6. CASE ReadDir
  <2>1. PICK e \in Entries :
          Finds(e, Top.links, TRUE) /\ stack' = Append(WithRead(e, 0), Frame(e, Top.links))
    BY <1>6 DEF ReadDir
  <2> DEFINE s == WithRead(e, 0)
             y == Frame(e, Top.links)
  <2>2. stack # <<>> /\ pc' = pc
    BY <1>6, <2>1 DEF Entries, ReadDir
  <2>3. s \in Seq(Frames) /\ n \in Nat \ {0} /\ Len(s) = n /\ Top \in Frames /\ e \in Top.unread
    BY <2>2, ReadOn
  <2>4. y \in Frames
    <3>1. Removing /\ Shrunk /\ PlacesOK
      BY <2>2 DEF KeptInv, Removing
    <3> QED
      BY <2>1, <2>3, <3>1, FrameMade DEF Frames
  <2>5. /\ stack' # <<>> /\ Len(stack') = n + 1 /\ \A i \in 1..n : stack'[i] = s[i]
    <3> HIDE DEF s, y
    <3> QED
      BY <2>1, <2>3, <2>4, AppendProperties DEF s, y
  <2>6. \A i \in 1..n : CallHas(stack', i) = CallHas(s, i)
    <3> HIDE DEF s, n
    <3> QED
      BY <2>3, <2>5 DEF CallHas
  <2>7. /\ CallHas(s, n) < CallHas(stack, n)
        /\ \A i \in 1..(n - 1) : CallHas(s, i) = CallHas(stack, i)
    BY <2>2, LessRead
  <2>8. /\ CallHas(stack', n) < CallHas(stack, n)
        /\ \A i \in 1..(n - 1) : CallHas(stack', i) = CallHas(stack, i)
    <3> HIDE DEF s, n
    <3> QED
      BY <2>3, <2>6, <2>7
  <2> QED
    BY <1>4, <2>2, <2>5, <2>8
<1>7. CASE Return
  <2>1. PICK x \in {0, 0 - 1} :
          IF Callers = <<>> THEN stack' = <<>> /\ pc' = NextCall
          ELSE stack' = [Callers EXCEPT ![Len(Callers)].r = x] /\ pc' = pc
    BY <1>7 DEF Return, RmdirTop
  <2>2. stack # <<>> /\ stack \in Seq(Frames) /\ pc \in {"pcaps", "reqts"}
    BY <1>7 DEF Return, KeptInv, Removing
  <2>3. /\ Callers \in Seq(Frames) /\ n \in Nat \ {0} /\ Len(Callers) = n - 1
        /\ \A i \in 1..(n - 1) : Callers[i] = stack[i]
    BY <2>2, WithoutLast DEF Callers
  <2>4. CASE Callers = <<>>
    <3>1. pc' = NextCall /\ stack' = <<>>
      BY <2>1, <2>4
    <3>2. CallsLeft' < CallsLeft
      BY <2>2, <3>1 DEF CallsLeft, NextCall
    <3> QED
      BY <1>3, <3>2
  <2>5. CASE Callers # <<>>
    <3> DEFINE m == Len(Callers)
    <3>1. stack' = [Callers EXCEPT ![m].r = x] /\ pc' = pc
      BY <2>1, <2>5
    <3>2. \A f \in Frames : [f EXCEPT !.r = x] \in Frames
      BY DEF Frames
    <3>3. m \in Nat \ {0} /\ m = n - 1 /\ \A j \in 1..m : Callers[j] \in Frames
      BY <2>3, <2>5, EmptySeq, LenProperties
    <3>4. /\ Len(stack') = m /\ stack'[m] = [Callers[m] EXCEPT !.r = x]
          /\ \A j \in 1..(m - 1) : stack'[j] = Callers[j]
      BY <2>3, <2>5, <3>1, <3>2, Answered
    <3> HIDE DEF m
    <3>5. ASSUME NEW j \in 1..(n - 1) PROVE stack'[j].unread = stack[j].unread
      <4>1. CASE j = m
        BY <2>3, <3>3, <3>4, <4>1 DEF Frames
      <4>2. CASE j # m
        <5>1. j \in 1..(m - 1)
          BY <2>3, <3>3, <4>2
        <5> QED
          BY <2>3, <3>4, <5>1
      <4> QED
        BY <4>1, <4>2
    <3>6. \A j \in 1..(n - 1) : CallHas(stack', j) = CallHas(stack, j)
      <4>1. Len(stack) = n
        OBVIOUS
      <4> HIDE DEF n
      <4> QED
        BY <2>3, <3>3, <3>4, <3>5, <4>1 DEF CallHas
    <3>7. CallHas(stack', n) < CallHas(stack, n)
      <4>1. n \in 1..Deepest
        BY <1>2, <2>3
      <4>2. Remaining \in [0..Deepest -> Nat]
        BY RemainingTypes
      <4>3. CallHas(stack, n) \in Nat
        <5>1. n \in 0..Deepest /\ n # 0
          BY <1>2, <4>1
        <5>2. Remaining[n] = CallHas(stack, n)
          BY <5>1 DEF Remaining
        <5> QED
          BY <4>2, <5>1, <5>2
      <4>4. CallHas(stack', n) = 0
        <5> HIDE DEF n
        <5> QED
          BY <2>3, <3>3, <3>4 DEF CallHas
      <4>5. CallHas(stack, n) # 0
        <5>1. Top \in Frames /\ Top = stack[n]
          BY <2>2, WithoutLast DEF Top
        <5>2. Cardinality(Top.unread) \in Nat
          <6>1. Top.unread \in SUBSET DOMAIN before /\ IsFiniteSet(DOMAIN before)
            BY <5>1, PopulationFinite DEF Frames, MayGo, KeptInv
          <6> QED
            BY <6>1, FS_Subset, FS_CardinalityType
        <5>3. CallHas(stack, n) = Cardinality(Top.unread) + 1
          BY <2>3, <5>1 DEF CallHas
        <5> QED
          BY <5>2, <5>3
      <4> QED
        BY <4>3, <4>4, <4>5
    <3>8. stack' # <<>>
      BY <3>3, <3>4, EmptySeq
    <3> QED
      BY <1>4, <2>2, <3>1, <3>6, <3>7, <3>8
  <2> QED
    BY <2>4, <2>5
<1>8. CASE Locate \/ RemoveDir \/ NoDir \/ RemoveRefused \/ MakeDirs \/ Open \/ OutOfMemory
  <2>1. CASE Locate
    <3>1. pc = "start" /\ pc' = "pcaps"
      BY <2>1 DEF Locate
    <3> QED
      BY <1>3, <3>1 DEF CallsLeft
  <2>2. CASE RemoveDir
    <3>1. pc \in {"pcaps", "reqts"} /\ pc' = pc /\ stack = <<>> /\ Len(stack') = 1
      BY <2>2 DEF RemoveDir, Removing
    <3>2. stack' # <<>>
      BY <3>1, EmptySeq
    <3> QED
      BY <1>3, <3>1, <3>2 DEF CallsLeft
  <2>3. CASE NoDir \/ RemoveRefused
    <3>1. pc \in {"pcaps", "reqts"} /\ pc' = NextCall /\ stack = <<>> /\ stack' = <<>>
      BY <2>3 DEF NoDir, RemoveRefused, Removing
    <3> QED
      BY <1>3, <3>1 DEF CallsLeft, NextCall
  <2>4. CASE MakeDirs \/ Open
    <3>1. \/ pc = "make" /\ pc' = "open"
          \/ pc = "open" /\ pc' \in {"opened", "exit"}
      BY <2>4 DEF MakeDirs, Open
    <3> QED
      BY <1>3, <3>1 DEF CallsLeft
  <2>5. CASE OutOfMemory
    <3>1. pc' = "exit" /\ (pc = "start" \/ pc \in {"pcaps", "reqts"})
      BY <2>5 DEF OutOfMemory, Entries, KeptInv, Removing
    <3> QED
      BY <1>3, <3>1 DEF CallsLeft
  <2> QED
    BY <1>8, <2>1, <2>2, <2>3, <2>4, <2>5
<1> QED
  BY <1>5, <1>6, <1>7, <1>8 DEF Next

\* Every step of the removal leaves less to do, in an order in which nothing
\* falls for ever: that of lists of one fixed length of natural numbers.  No
\* file system makes it go round (mydirent.c:588-623), with a link back up
\* and with a directory in which nothing can be removed as with any other.
THEOREM RemovalDescends ==
    Spec => /\ [](Remaining \in [0..Deepest -> Nat])
            /\ [][Deepest' = Deepest /\ Below(Remaining', Remaining)]_vars
<1>1. KeptInv /\ DepthInv /\ (KeptInv /\ DepthInv)' /\ [Next]_vars =>
          [Deepest' = Deepest /\ Below(Remaining', Remaining)]_vars
  BY StepDescends
<1>2. KeptInv /\ DepthInv => Remaining \in [0..Deepest -> Nat]
  BY RemainingTypes
<1> QED
  BY <1>1, <1>2, AlwaysDeep, PTL DEF Spec
=============================================================================
