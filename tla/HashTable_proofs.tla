-------------------------- MODULE HashTable_proofs --------------------------
(***************************************************************************)
(* Proofs about HashTable, TableWalk's walk over the table and TableLife's *)
(* interface to it, for every set of keys, every hash function the program *)
(* may set, every size of the table and every order of calls.              *)
(***************************************************************************)
EXTENDS TableWalk, TableLife, FiniteSetTheorems, WellFoundedInduction, TLAPS

-----------------------------------------------------------------------------
(* The remainder of a division, as far as the table needs it.              *)

\* Quotient and remainder are determined by the division's equation.
LEMMA RemainderUnique ==
    ASSUME NEW n \in Nat \ {0}, NEW q \in Int, NEW r \in 0..(n - 1)
    PROVE  (n * q + r) % n = r
OBVIOUS

LEMMA Division ==
    ASSUME NEW n \in Nat \ {0}, NEW a \in Nat
    PROVE  /\ a = (n * (a \div n)) + (a % n)
           /\ a % n \in 0..(n - 1)
           /\ a \div n \in Nat
OBVIOUS

\* The slot in a table of half the size follows from the slot in the table.
LEMMA HalfRemainder ==
    ASSUME NEW n \in Nat \ {0}, NEW a \in Nat
    PROVE  a % n = IF a % (2 * n) < n THEN a % (2 * n) ELSE (a % (2 * n)) - n
<1> DEFINE m == 2 * n
           q == a \div m
           r == a % m
<1>0. m \in Nat \ {0}
  OBVIOUS
<1>1. a = m * q + r /\ r \in 0..(m - 1) /\ q \in Nat
  BY <1>0, Division
<1>2. SUFFICES a % n = IF r < n THEN r ELSE r - n
  OBVIOUS
<1> HIDE DEF q, r
<1>3. CASE r < n
  <2>1. a = n * (2 * q) + r /\ 2 * q \in Int /\ r \in 0..(n - 1)
    BY <1>1, <1>3
  <2> QED
    BY <2>1, <1>3, RemainderUnique
<1>4. CASE r >= n
  <2>1. a = n * (2 * q + 1) + (r - n)
    BY <1>1
  <2>2. 2 * q + 1 \in Int /\ r - n \in 0..(n - 1)
    BY <1>1, <1>4
  <2>3. a % n = r - n
    BY <2>1, <2>2, RemainderUnique
  <2> QED
    BY <2>3, <1>1, <1>4
<1> QED
  BY <1>1, <1>3, <1>4

\* Keys that share a slot after a doubling shared one before it.
LEMMA DoublingSeparates ==
    ASSUME NEW n \in Nat \ {0}, NEW a \in Nat, NEW b \in Nat,
           a % (2 * n) = b % (2 * n)
    PROVE  a % n = b % n
BY HalfRemainder

\* A cast to int never makes a size bigger, and leaves it alone below 2^31.
LEMMA CastToInt ==
    ASSUME NEW n \in Nat
    PROVE  /\ AsInt(n) \in Int
           /\ AsInt(n) <= n
           /\ n < IntLimit => AsInt(n) = n
<1> DEFINE w == 2 * IntLimit
           m == n % w
<1>1. w \in Nat \ {0} /\ IntLimit \in Nat \ {0}
  BY SizesAssumption
<1>2. n = (w * (n \div w)) + m /\ m \in 0..(w - 1) /\ n \div w \in Nat
  BY <1>1, Division
<1>3. w * (n \div w) \in Nat
  BY <1>1, <1>2
<1>4. m <= n
  BY <1>2, <1>3
<1>5. ASSUME n < IntLimit PROVE m = n
  <2>1. n = w * 0 + n /\ n \in 0..(w - 1)
    BY <1>1, <1>5
  <2> QED
    BY <2>1, <1>1, RemainderUnique
<1>6. AsInt(n) = IF m >= IntLimit THEN m - w ELSE m
  BY DEF AsInt
<1> HIDE DEF m, w
<1> QED
  BY <1>1, <1>2, <1>4, <1>5, <1>6

-----------------------------------------------------------------------------
(* Type correctness.                                                       *)

LEMMA IndexInRange ==
    ASSUME TypeOK, NEW k \in Keys, NEW n \in Nat \ {0}
    PROVE  Index(k, n) \in 0..(n - 1)
<1>1. hashfunc[k] \in Nat
  BY HashAssumption DEF TypeOK
<1> QED
  BY <1>1, Division DEF Index

\* A filled slot's first node is a node, so that its key is a key.
LEMMA FirstNode ==
    ASSUME NEW c \in Seq(Node), c # <<>>
    PROVE  Len(c) \in Nat \ {0} /\ Head(c) = c[1] /\ Head(c) \in Node /\ Head(c).key \in Keys
<1>1. Len(c) \in Nat \ {0} /\ c \in [1..Len(c) -> Node]
  OBVIOUS
<1>2. c[1] \in Node
  BY <1>1
<1>3. Head(c) = c[1]
  BY <1>1
<1> QED
  BY <1>1, <1>2, <1>3 DEF Node

LEMMA InitType == Init => TypeOK
<1> SUFFICES ASSUME Init PROVE TypeOK
  OBVIOUS
<1>1. InitSize \in Nat \ {0}
  BY SizesAssumption
<1> QED
  BY <1>1 DEF Init, TypeOK, EmptySlots, Phase, Node

LEMMA NextType == TypeOK /\ [Next]_vars => TypeOK'
<1> SUFFICES ASSUME TypeOK, [Next]_vars PROVE TypeOK'
  OBVIOUS
<1> USE DEF TypeOK, Phase
<1>0. /\ AsInt(size) \in Int /\ AsInt(size) <= size
      /\ pc = "rehash" /\ i < AsInt(size) => i \in 0..(size - 1) /\ i + 1 \in 0..size
  <2>1. AsInt(size) \in Int /\ AsInt(size) <= size
    BY CastToInt
  <2> QED
    BY <2>1
<1>1. ASSUME NEW k \in Keys, NEW d \in Items, InsertCall(k, d) PROVE TypeOK'
  BY <1>1 DEF InsertCall, Node, tableVars, rehashVars
<1>2. CASE StartRehash
  <2>1. 2 * size \in Nat \ {0} /\ 0 \in 0..size
    OBVIOUS
  <2>2. EmptySlots(2 * size) \in [0..(2 * size - 1) -> Seq(Node)]
    BY <2>1 DEF EmptySlots
  <2> QED
    BY <1>2, <2>1, <2>2 DEF StartRehash, AllocateNew, tableVars
<1>3. CASE SkipEmpty
  <2>1. i + 1 \in 0..size
    BY <1>0, <1>3 DEF SkipEmpty
  <2> QED
    BY <1>3, <2>1 DEF SkipEmpty, tableVars
<1>4. CASE MoveChain
  <2>1. i \in 0..(size - 1) /\ i + 1 \in 0..size
    BY <1>0, <1>4 DEF MoveChain
  <2>2. nodes[i] \in Seq(Node) /\ nodes[i] # <<>>
    BY <1>4, <2>1 DEF MoveChain
  <2>3. newnodes' = [newnodes EXCEPT ![Target] = nodes[i]]
    BY <1>4 DEF MoveChain
  <2>4. newnodes' \in [0..(newsize - 1) -> Seq(Node)]
    BY <1>4, <2>2, <2>3 DEF MoveChain
  <2> QED
    BY <1>4, <2>1, <2>4 DEF MoveChain, tableVars
<1>5. CASE RestartRehash
  <2>1. 2 * newsize \in Nat \ {0} /\ 0 \in 0..size
    BY <1>5 DEF RestartRehash
  <2>2. EmptySlots(2 * newsize) \in [0..(2 * newsize - 1) -> Seq(Node)]
    BY <2>1 DEF EmptySlots
  <2> QED
    BY <1>5, <2>1, <2>2 DEF RestartRehash, AllocateNew, tableVars
<1>6. CASE FinishRehash
  BY <1>6 DEF FinishRehash
<1>7. CASE LinkNode
  <2>1. pending \in Node /\ pending.key \in Keys
    BY <1>7 DEF LinkNode, Node
  <2>2. Index(pending.key, size) \in 0..(size - 1)
    BY <2>1, IndexInRange
  <2>3. <<pending>> \o nodes[Index(pending.key, size)] \in Seq(Node)
    BY <2>1, <2>2
  <2> QED
    BY <1>7, <2>2, <2>3 DEF LinkNode, rehashVars
<1>9. CASE LinkFails
  BY <1>9 DEF LinkFails, tableVars
<1>8. CASE UNCHANGED vars
  BY <1>8 DEF vars, tableVars, rehashVars
<1> QED
  BY <1>1, <1>2, <1>3, <1>4, <1>5, <1>6, <1>7, <1>8, <1>9 DEF Next, Step

\* The table's arrays keep the size the table says they have, through every
\* insertion and every rehash.
THEOREM TypeCorrect == Spec => []TypeOK
BY InitType, NextType, PTL DEF Spec

-----------------------------------------------------------------------------
(* One key per slot, and one doubling per rehash.  Neither is inductive:   *)
(* a rehash keeps keys apart because the new array holds what the old one  *)
(* held, and RehashedSoFar says how far it has come.                       *)

IInv == TypeOK /\ OneKeyPerSlot /\ RehashedSoFar

LEMMA HomeSlot ==
    ASSUME TypeOK, OneKeyPerSlot, NEW s \in 0..(size - 1), nodes[s] # <<>>
    PROVE  /\ Head(nodes[s]) = nodes[s][1]
           /\ Head(nodes[s]).key \in Keys
           /\ Index(Head(nodes[s]).key, size) = s
<1>1. nodes[s] \in Seq(Node) /\ s \in DOMAIN nodes
  BY DEF TypeOK
<1>2. Len(nodes[s]) \in Nat \ {0} /\ Head(nodes[s]) = nodes[s][1] /\ Head(nodes[s]).key \in Keys
  BY <1>1, FirstNode
<1>3. 1 \in DOMAIN nodes[s]
  BY <1>1, <1>2
<1> QED
  BY <1>1, <1>2, <1>3 DEF OneKeyPerSlot

\* The slot the running copy is about to fill is empty.
LEMMA TargetFree == IInv => OneDoublingSuffices
<1> SUFFICES ASSUME IInv, pc = "rehash", i < size, nodes[i] # <<>>, newnodes[Target] # <<>>
             PROVE  FALSE
  BY DEF OneDoublingSuffices
<1>1. /\ TypeOK /\ OneKeyPerSlot
      /\ size \in Nat \ {0} /\ i \in 0..(size - 1) /\ newsize = 2 * size
      /\ newnodes \in [0..(newsize - 1) -> Seq(Node)]
  BY DEF IInv, TypeOK, RehashedSoFar
<1>2. Head(nodes[i]).key \in Keys /\ Index(Head(nodes[i]).key, size) = i
  BY <1>1, HomeSlot
<1>3. Target \in 0..(newsize - 1)
  BY <1>1, <1>2, IndexInRange DEF Target
<1>4. PICK s \in 0..(i - 1) : /\ newnodes[Target] = nodes[s]
                              /\ Index(Head(nodes[s]).key, newsize) = Target
  BY <1>1, <1>3 DEF IInv, RehashedSoFar
<1>5. s \in 0..(size - 1) /\ nodes[s] # <<>>
  BY <1>1, <1>4
<1>6. Head(nodes[s]).key \in Keys /\ Index(Head(nodes[s]).key, size) = s
  BY <1>1, <1>5, HomeSlot
<1>7. hashfunc[Head(nodes[s]).key] \in Nat /\ hashfunc[Head(nodes[i]).key] \in Nat
  BY <1>1, <1>2, <1>6, HashAssumption DEF TypeOK
<1>8. hashfunc[Head(nodes[s]).key] % (2 * size) = hashfunc[Head(nodes[i]).key] % (2 * size)
  BY <1>1, <1>4 DEF Index, Target
<1>9. Index(Head(nodes[s]).key, size) = Index(Head(nodes[i]).key, size)
  BY <1>1, <1>7, <1>8, DoublingSeparates DEF Index
<1> QED
  BY <1>1, <1>2, <1>4, <1>6, <1>9

LEMMA InitInv == Init => IInv
<1> SUFFICES ASSUME Init PROVE IInv
  OBVIOUS
<1>1. OneKeyPerSlot
  BY DEF Init, EmptySlots, OneKeyPerSlot
<1>2. RehashedSoFar
  BY DEF Init, RehashedSoFar
<1> QED
  BY <1>1, <1>2, InitType DEF IInv

\* The steps that leave the table and the copy alone.
LEMMA QuietStep ==
    ASSUME IInv, UNCHANGED tableVars, pc' # "rehash"
    PROVE  OneKeyPerSlot' /\ RehashedSoFar'
<1>1. nodes' = nodes /\ hashfunc' = hashfunc /\ size' = size
  BY DEF tableVars
<1> QED
  BY <1>1 DEF IInv, OneKeyPerSlot, RehashedSoFar, Index

LEMMA StartRehashInv ==
    ASSUME IInv, StartRehash PROVE OneKeyPerSlot' /\ RehashedSoFar'
<1>1. UNCHANGED tableVars /\ (pc' = "exit" \/ pc' = "rehash")
  BY DEF StartRehash, AllocateNew
<1>2. CASE pc' = "exit"
  BY <1>1, <1>2, QuietStep
<1>3. CASE pc' = "rehash"
  <2>1. /\ newsize' = 2 * size /\ i' = 0 /\ newnodes' = EmptySlots(2 * size)
        /\ nodes' = nodes /\ size' = size /\ hashfunc' = hashfunc
    BY <1>3 DEF StartRehash, AllocateNew, tableVars
  <2>2. OneKeyPerSlot'
    BY <2>1 DEF IInv, OneKeyPerSlot, Index
  <2>3. RehashedSoFar'
    BY <2>1 DEF EmptySlots, RehashedSoFar
  <2> QED
    BY <2>2, <2>3
<1> QED
  BY <1>1, <1>2, <1>3

LEMMA SkipEmptyInv ==
    ASSUME IInv, SkipEmpty PROVE OneKeyPerSlot' /\ RehashedSoFar'
<1>1. /\ nodes' = nodes /\ size' = size /\ hashfunc' = hashfunc
      /\ newsize' = newsize /\ newnodes' = newnodes /\ i' = i + 1
      /\ pc = "rehash" /\ nodes[i] = <<>> /\ i \in Nat
  BY DEF IInv, TypeOK, SkipEmpty, tableVars
<1>2. OneKeyPerSlot'
  BY <1>1 DEF IInv, OneKeyPerSlot, Index
<1>3. ASSUME NEW s \in 0..i, nodes[s] # <<>>
      PROVE  newnodes[Index(Head(nodes[s]).key, newsize)] = nodes[s]
  BY <1>1, <1>3 DEF IInv, RehashedSoFar
<1>4. ASSUME NEW t \in DOMAIN newnodes, newnodes[t] # <<>>
      PROVE  \E s \in 0..i : newnodes[t] = nodes[s] /\ Index(Head(nodes[s]).key, newsize) = t
  BY <1>1, <1>4 DEF IInv, RehashedSoFar
<1>5. newsize = 2 * size
  BY <1>1 DEF IInv, RehashedSoFar
<1>6. RehashedSoFar'
  BY <1>1, <1>3, <1>4, <1>5 DEF RehashedSoFar, Index
<1> QED
  BY <1>2, <1>6

LEMMA MoveChainInv ==
    ASSUME IInv, MoveChain PROVE OneKeyPerSlot' /\ RehashedSoFar'
<1>1. /\ nodes' = nodes /\ size' = size /\ hashfunc' = hashfunc
      /\ newsize' = newsize /\ newnodes' = [newnodes EXCEPT ![Target] = nodes[i]]
      /\ i' = i + 1
      /\ pc = "rehash" /\ nodes[i] # <<>> /\ newnodes[Target] = <<>>
      /\ newnodes \in [0..(newsize - 1) -> Seq(Node)] /\ newsize \in Nat \ {0}
      /\ newsize = 2 * size
      /\ i < AsInt(size)
  BY DEF IInv, TypeOK, RehashedSoFar, MoveChain, tableVars
<1>2. i \in 0..(size - 1)
  <2>1. AsInt(size) \in Int /\ AsInt(size) <= size /\ i \in Nat /\ size \in Nat
    BY <1>1, CastToInt DEF IInv, TypeOK
  <2> QED
    BY <1>1, <2>1
<1>3. Head(nodes[i]).key \in Keys
  BY <1>1, <1>2, HomeSlot DEF IInv
<1>4. Target \in 0..(newsize - 1)
  BY <1>1, <1>3, IndexInRange DEF IInv, Target
<1>5. OneKeyPerSlot'
  BY <1>1 DEF IInv, OneKeyPerSlot, Index
<1>6. ASSUME NEW s \in 0..i, nodes[s] # <<>>
      PROVE  newnodes'[Index(Head(nodes[s]).key, newsize)] = nodes[s]
  <2>1. CASE s = i
    BY <1>1, <1>4, <2>1 DEF Target
  <2>2. CASE s # i
    <3>0. size \in Nat /\ i \in Nat /\ s \in 0..(i - 1) /\ s \in 0..(size - 1)
      <4>1. size \in Nat /\ i \in Nat
        BY <1>1 DEF IInv, TypeOK
      <4> QED
        BY <1>2, <2>2, <4>1
    <3>1. newnodes[Index(Head(nodes[s]).key, newsize)] = nodes[s]
      <4>1. \A x \in 0..(i - 1) : nodes[x] # <<>> =>
                newnodes[Index(Head(nodes[x]).key, newsize)] = nodes[x]
        BY <1>1 DEF IInv, RehashedSoFar
      <4> QED
        BY <1>6, <3>0, <4>1
    <3>2. Index(Head(nodes[s]).key, newsize) # Target
      <4>1. nodes[s] # <<>> /\ newnodes[Target] = <<>>
        BY <1>1, <1>6
      <4> QED
        BY <3>1, <4>1, Zenon
    <3>3. Head(nodes[s]).key \in Keys
      <4>1. TypeOK /\ OneKeyPerSlot /\ nodes[s] # <<>>
        BY <1>6 DEF IInv
      <4> QED
        BY <3>0, <4>1, HomeSlot
    <3>4. Index(Head(nodes[s]).key, newsize) \in 0..(newsize - 1)
      BY <1>1, <3>3, IndexInRange DEF IInv
    <3> QED
      BY <1>1, <3>1, <3>2, <3>4
  <2> QED
    BY <2>1, <2>2
<1>7. ASSUME NEW t \in 0..(newsize - 1), newnodes'[t] # <<>>
      PROVE  \E s \in 0..i : newnodes'[t] = nodes[s] /\ Index(Head(nodes[s]).key, newsize) = t
  <2>1. CASE t = Target
    <3>1. newnodes'[t] = nodes[i] /\ Index(Head(nodes[i]).key, newsize) = t
      BY <1>1, <1>4, <2>1 DEF Target
    <3> QED
      BY <1>2, <3>1
  <2>2. CASE t # Target
    <3>1. newnodes'[t] = newnodes[t] /\ t \in DOMAIN newnodes
      BY <1>1, <1>7, <2>2
    <3>2. PICK s \in 0..(i - 1) : /\ newnodes[t] = nodes[s]
                                  /\ Index(Head(nodes[s]).key, newsize) = t
      BY <1>1, <1>7, <3>1 DEF IInv, RehashedSoFar
    <3>3. s \in 0..i
      BY <1>2, <3>2
    <3> QED
      BY <3>1, <3>2, <3>3
  <2> QED
    BY <2>1, <2>2
<1>8. DOMAIN newnodes' = 0..(newsize - 1) /\ i' - 1 = i
  BY <1>1, <1>2
<1>9. RehashedSoFar'
  BY <1>1, <1>6, <1>7, <1>8 DEF RehashedSoFar, Index
<1> QED
  BY <1>5, <1>9

\* The branch of hashtbl_rehash that starts over is never taken.
LEMMA NoRestart == IInv => ~RestartRehash
<1> SUFFICES ASSUME IInv, RestartRehash PROVE FALSE
  OBVIOUS
<1>1. /\ pc = "rehash" /\ nodes[i] # <<>> /\ newnodes[Target] # <<>> /\ i < AsInt(size)
      /\ i \in Nat /\ size \in Nat
  BY DEF IInv, TypeOK, RestartRehash
<1>2. AsInt(size) \in Int /\ AsInt(size) <= size
  BY <1>1, CastToInt
<1>3. i < size
  BY <1>1, <1>2
<1> QED
  BY <1>1, <1>3, TargetFree DEF OneDoublingSuffices

LEMMA FinishRehashInv ==
    ASSUME IInv, FinishRehash PROVE OneKeyPerSlot' /\ RehashedSoFar'
<1>1. /\ nodes' = newnodes /\ size' = newsize /\ hashfunc' = hashfunc
      /\ pc = "rehash" /\ pc' = "probe"
      /\ newnodes \in [0..(newsize - 1) -> Seq(Node)]
      /\ i \in 0..size /\ size \in Nat
  BY DEF IInv, TypeOK, FinishRehash
<1>2. ASSUME NEW t \in DOMAIN newnodes, NEW j \in DOMAIN newnodes[t]
      PROVE  newnodes[t][j].key = newnodes[t][1].key /\ Index(newnodes[t][j].key, newsize) = t
  <2>1. newnodes[t] # <<>>
    BY <1>1, <1>2
  <2>2. PICK s \in 0..(i - 1) : /\ newnodes[t] = nodes[s]
                                /\ Index(Head(nodes[s]).key, newsize) = t
    BY <1>1, <2>1 DEF IInv, RehashedSoFar
  <2>3. s \in 0..(size - 1) /\ nodes[s] # <<>> /\ s \in DOMAIN nodes
    BY <1>1, <2>1, <2>2 DEF IInv, TypeOK
  <2>4. Head(nodes[s]) = nodes[s][1]
    BY <2>3, HomeSlot DEF IInv
  <2>5. nodes[s][j].key = nodes[s][1].key
    BY <2>2, <2>3 DEF IInv, OneKeyPerSlot
  <2> QED
    BY <2>2, <2>4, <2>5
<1>3. OneKeyPerSlot'
  BY <1>1, <1>2 DEF OneKeyPerSlot, Index
<1>4. RehashedSoFar'
  BY <1>1 DEF RehashedSoFar
<1> QED
  BY <1>3, <1>4

\* What LinkNode does, slot by slot.
LEMMA LinkedSlot ==
    ASSUME IInv, LinkNode
    PROVE  LET k == pending.key
               h == Index(k, size)
           IN  /\ pending \in Node /\ k \in Keys /\ h \in 0..(size - 1)
               /\ nodes[h] \in Seq(Node)
               /\ nodes[h] # <<>> => Head(nodes[h]).key = k
               /\ nodes' = [nodes EXCEPT ![h] = <<pending>> \o nodes[h]]
               /\ size' = size /\ hashfunc' = hashfunc
               /\ nodes \in [0..(size - 1) -> Seq(Node)] /\ size \in Nat \ {0}
<1>1. pending \in Node /\ pending.key \in Keys
  BY DEF IInv, TypeOK, LinkNode, Node
<1>2. Index(pending.key, size) \in 0..(size - 1)
  BY <1>1, IndexInRange DEF IInv, TypeOK
<1> QED
  BY <1>1, <1>2 DEF IInv, TypeOK, LinkNode, Foreign

LEMMA LinkNodeInv ==
    ASSUME IInv, LinkNode PROVE OneKeyPerSlot' /\ RehashedSoFar'
<1> DEFINE k == pending.key
           h == Index(k, size)
           c == <<pending>> \o nodes[h]
<1>1. /\ pending \in Node /\ k \in Keys /\ h \in 0..(size - 1)
      /\ nodes[h] \in Seq(Node)
      /\ nodes[h] # <<>> => Head(nodes[h]).key = k
      /\ nodes' = [nodes EXCEPT ![h] = c]
      /\ size' = size /\ hashfunc' = hashfunc
      /\ nodes \in [0..(size - 1) -> Seq(Node)] /\ size \in Nat \ {0}
  BY LinkedSlot
<1>2. h = Index(k, size) /\ h = Index(k, size')
  BY <1>1
<1>3. ASSUME NEW j \in DOMAIN c PROVE c[j].key = k
  <2>1. CASE j = 1
    BY <1>1, <2>1
  <2>2. CASE j # 1
    <3>1. j - 1 \in DOMAIN nodes[h] /\ c[j] = nodes[h][j - 1]
      BY <1>1, <1>3, <2>2
    <3>2. nodes[h] # <<>>
      BY <1>1, <3>1
    <3>3. Head(nodes[h]) = nodes[h][1]
      BY <1>1, <3>2, FirstNode
    <3>4. nodes[h][j - 1].key = nodes[h][1].key
      BY <1>1, <3>1 DEF IInv, OneKeyPerSlot
    <3> QED
      BY <1>1, <3>1, <3>2, <3>3, <3>4
  <2> QED
    BY <2>1, <2>2
<1>4. 1 \in DOMAIN c
  BY <1>1
<1> HIDE DEF c, h, k
<1>5. ASSUME NEW s \in DOMAIN nodes', NEW j \in DOMAIN nodes'[s]
      PROVE  nodes'[s][j].key = nodes'[s][1].key /\ Index(nodes'[s][j].key, size) = s
  <2>1. CASE s = h
    <3>1. nodes'[s] = c
      BY <1>1, <2>1
    <3> QED
      BY <1>2, <1>3, <1>4, <1>5, <2>1, <3>1
  <2>2. CASE s # h
    <3>1. s \in DOMAIN nodes /\ nodes'[s] = nodes[s]
      BY <1>1, <1>5, <2>2
    <3> QED
      BY <1>5, <3>1 DEF IInv, OneKeyPerSlot
  <2> QED
    BY <2>1, <2>2
<1>6. OneKeyPerSlot'
  BY <1>1, <1>5 DEF OneKeyPerSlot, Index
<1>7. RehashedSoFar'
  BY DEF LinkNode, RehashedSoFar
<1> QED
  BY <1>6, <1>7

LEMMA NextInv == IInv /\ [Next]_vars => IInv'
<1> SUFFICES ASSUME IInv, [Next]_vars PROVE IInv'
  OBVIOUS
<1>1. TypeOK'
  BY NextType DEF IInv
<1>2. OneKeyPerSlot' /\ RehashedSoFar'
  <2>1. ASSUME NEW k \in Keys, NEW d \in Items, InsertCall(k, d)
        PROVE  OneKeyPerSlot' /\ RehashedSoFar'
    BY <2>1, QuietStep DEF InsertCall
  <2>2. CASE StartRehash
    BY <2>2, StartRehashInv
  <2>3. CASE SkipEmpty
    BY <2>3, SkipEmptyInv
  <2>4. CASE MoveChain
    BY <2>4, MoveChainInv
  <2>5. CASE RestartRehash
    BY <2>5, NoRestart
  <2>6. CASE FinishRehash
    BY <2>6, FinishRehashInv
  <2>7. CASE LinkNode
    BY <2>7, LinkNodeInv
  <2>9. CASE LinkFails
    BY <2>9, QuietStep DEF LinkFails
  <2>8. CASE UNCHANGED vars
    BY <2>8 DEF IInv, OneKeyPerSlot, RehashedSoFar, Index, vars, tableVars, rehashVars
  <2> QED
    BY <2>1, <2>2, <2>3, <2>4, <2>5, <2>6, <2>7, <2>8, <2>9 DEF Next, Step
<1> QED
  BY <1>1, <1>2 DEF IInv

LEMMA Invariance == Spec => []IInv
BY InitInv, NextInv, PTL DEF Spec

\* No slot ever holds nodes of two keys, or a chain that does not belong
\* there: hashtbl_index may compare the first node's key and no other.
THEOREM SlotsHoldOneKey == Spec => []OneKeyPerSlot
<1>1. IInv => OneKeyPerSlot
  BY DEF IInv
<1> QED
  BY <1>1, Invariance, PTL

\* hashtbl_rehash has copied the slots before i to where their keys hash to
\* in an array exactly twice as big, and has put nothing else there.
THEOREM RehashCopies == Spec => []RehashedSoFar
<1>1. IInv => RehashedSoFar
  BY DEF IInv
<1> QED
  BY <1>1, Invariance, PTL

\* The branch of hashtbl_rehash for a collision in the new array is dead code
\* whatever the keys and the hash function, even where the cast of the size
\* to int wraps.
THEOREM RestartIsDead == Spec => []OneDoublingSuffices
BY TargetFree, Invariance, PTL

-----------------------------------------------------------------------------
(* The table implements the store of chains per key, as long as no size    *)
(* of the table wraps when it is cast to int.                              *)

SizesFit == size < IntLimit /\ (pc = "rehash" => newsize < IntLimit)

LEMMA SizesFitInit ==
    ASSUME InitSize < IntLimit PROVE Init => SizesFit
BY SizesAssumption DEF Init, SizesFit

LEMMA SizesFitNext ==
    ASSUME MaxSize < IntLimit, IInv, SizesFit, [Next]_vars PROVE SizesFit'
<1>1. ASSUME NEW n \in Nat, AllocateNew(n) PROVE SizesFit'
  <2>1. MaxSize \in Nat /\ IntLimit \in Nat
    BY SizesAssumption
  <2>2. size' = size /\ (pc' = "rehash" => newsize' = n /\ n <= MaxSize)
    BY <1>1 DEF AllocateNew, tableVars
  <2> QED
    BY <2>1, <2>2, <1>1 DEF SizesFit
<1>2. CASE StartRehash
  BY <1>1, <1>2 DEF StartRehash, IInv, TypeOK
<1>3. CASE RestartRehash
  BY <1>1, <1>3 DEF RestartRehash, IInv, TypeOK
<1>4. ASSUME NEW k \in Keys, NEW d \in Items, InsertCall(k, d) PROVE SizesFit'
  BY <1>4 DEF InsertCall, SizesFit, tableVars
<1>5. CASE SkipEmpty \/ MoveChain
  BY <1>5 DEF SkipEmpty, MoveChain, SizesFit, tableVars
<1>6. CASE FinishRehash \/ LinkNode \/ LinkFails
  BY <1>6 DEF FinishRehash, LinkNode, LinkFails, SizesFit, tableVars
<1>7. CASE UNCHANGED vars
  BY <1>7 DEF vars, tableVars, rehashVars, SizesFit
<1> QED
  BY <1>2, <1>3, <1>4, <1>5, <1>6, <1>7 DEF Next, Step

LEMMA StoreInit == Init => Store!Init
<1> SUFFICES ASSUME Init PROVE Store!Init
  OBVIOUS
<1>1. TypeOK
  BY InitType
<1>2. ASSUME NEW k \in Keys PROVE Get(k) = <<>>
  <2>1. Index(k, size) \in 0..(InitSize - 1)
    BY <1>1, IndexInRange DEF Init, TypeOK
  <2> QED
    BY <2>1 DEF Init, EmptySlots, Get
<1> QED
  BY <1>2 DEF Init, Store!Init

\* A step that leaves the table alone leaves every chain alone.
LEMMA SameTable ==
    ASSUME UNCHANGED tableVars PROVE \A k \in Keys : Get(k)' = Get(k)
BY DEF tableVars, Get, Index

LEMMA FinishKeepsChains ==
    ASSUME IInv, SizesFit, FinishRehash, NEW k \in Keys PROVE Get(k)' = Get(k)
<1>1. /\ nodes' = newnodes /\ size' = newsize /\ hashfunc' = hashfunc
      /\ pc = "rehash" /\ i >= AsInt(size) /\ i \in 0..size
      /\ newnodes \in [0..(newsize - 1) -> Seq(Node)] /\ newsize \in Nat \ {0}
      /\ size \in Nat \ {0} /\ size < IntLimit /\ TypeOK /\ OneKeyPerSlot
      /\ nodes \in [0..(size - 1) -> Seq(Node)]
  BY DEF IInv, TypeOK, FinishRehash, SizesFit
<1>2. i = size
  <2>1. AsInt(size) = size
    BY <1>1, CastToInt
  <2> QED
    BY <1>1, <2>1
<1> DEFINE s == Index(k, size)
           t == Index(k, newsize)
<1>3. s \in 0..(size - 1) /\ t \in 0..(newsize - 1)
  BY <1>1, IndexInRange
<1>4. Get(k)' = IF newnodes[t] # <<>> /\ Head(newnodes[t]).key = k THEN newnodes[t] ELSE <<>>
  BY <1>1 DEF Get, Index
<1>5. Get(k) = IF nodes[s] # <<>> /\ Head(nodes[s]).key = k THEN nodes[s] ELSE <<>>
  BY DEF Get
<1>6. s = Index(k, size) /\ t = Index(k, newsize)
  OBVIOUS
<1> HIDE DEF s, t
<1>7. CASE nodes[s] # <<>> /\ Head(nodes[s]).key = k
  <2>1. newnodes[t] = nodes[s]
    BY <1>1, <1>2, <1>3, <1>6, <1>7 DEF IInv, RehashedSoFar
  <2> QED
    BY <1>4, <1>5, <1>7, <2>1
<1>8. CASE newnodes[t] # <<>> /\ Head(newnodes[t]).key = k
  <2>1. PICK j \in 0..(i - 1) : newnodes[t] = nodes[j]
    BY <1>1, <1>3, <1>8 DEF IInv, RehashedSoFar
  <2>2. j \in 0..(size - 1) /\ nodes[j] # <<>> /\ Head(nodes[j]).key = k
    BY <1>1, <1>2, <1>8, <2>1
  <2>3. j = s
    BY <1>1, <1>6, <2>2, HomeSlot
  <2> QED
    BY <1>4, <1>5, <1>8, <2>1, <2>2, <2>3
<1> QED
  BY <1>4, <1>5, <1>7, <1>8

LEMMA LinkInsertsOne ==
    ASSUME IInv, LinkNode, NEW k \in Keys
    PROVE  Get(k)' = IF k = pending.key THEN <<pending>> \o Get(k) ELSE Get(k)
<1> DEFINE h == Index(pending.key, size)
           c == <<pending>> \o nodes[h]
           s == Index(k, size)
<1>1. /\ pending \in Node /\ pending.key \in Keys /\ h \in 0..(size - 1)
      /\ nodes[h] \in Seq(Node)
      /\ nodes[h] # <<>> => Head(nodes[h]).key = pending.key
      /\ nodes' = [nodes EXCEPT ![h] = c]
      /\ size' = size /\ hashfunc' = hashfunc
      /\ nodes \in [0..(size - 1) -> Seq(Node)] /\ size \in Nat \ {0}
  BY LinkedSlot
<1>2. s \in 0..(size - 1)
  BY <1>1, IndexInRange DEF IInv
<1>3. Get(k)' = IF nodes'[s] # <<>> /\ Head(nodes'[s]).key = k THEN nodes'[s] ELSE <<>>
  BY <1>1 DEF Get, Index
<1>4. Get(k) = IF nodes[s] # <<>> /\ Head(nodes[s]).key = k THEN nodes[s] ELSE <<>>
  BY DEF Get
<1>5. c # <<>> /\ Head(c) = pending
  BY <1>1
<1>6. k = pending.key => s = h
  OBVIOUS
<1>7. nodes[h] = <<>> => c = <<pending>>
  BY <1>1
<1>8. <<pending>> \o <<>> = <<pending>>
  BY <1>1
<1>9. c = <<pending>> \o nodes[h]
  OBVIOUS
<1> HIDE DEF s, h, c
<1>10. CASE k = pending.key
  <2>1. nodes'[s] = c
    BY <1>1, <1>6, <1>10
  <2>2. Get(k)' = c
    BY <1>3, <1>5, <1>10, <2>1
  <2>3. Get(k) = nodes[h]
    BY <1>1, <1>4, <1>6, <1>10
  <2> QED
    BY <1>9, <1>10, <2>2, <2>3
<1>11. CASE k # pending.key /\ s = h
  <2>1. Get(k)' = <<>>
    BY <1>1, <1>3, <1>5, <1>11
  <2>2. Get(k) = <<>>
    BY <1>1, <1>4, <1>11
  <2> QED
    BY <1>11, <2>1, <2>2
<1>12. CASE k # pending.key /\ s # h
  BY <1>1, <1>2, <1>3, <1>4, <1>12
<1> QED
  BY <1>10, <1>11, <1>12

LEMMA StoreStep ==
    ASSUME IInv, SizesFit, [Next]_vars
    PROVE  [Store!Next]_(Store!storeVars)
<1> DEFINE chain == [k \in Keys |-> Get(k)]
<1>1. ASSUME \A k \in Keys : Get(k)' = Get(k), (pc = "exit") = (pc' = "exit")
      PROVE  UNCHANGED Store!storeVars
  BY <1>1 DEF Store!storeVars
<1>2. ASSUME NEW n, AllocateNew(n), pc \in {"probe", "rehash"}
      PROVE  [Store!Next]_(Store!storeVars)
  <2>1. \A k \in Keys : Get(k)' = Get(k)
    BY <1>2, SameTable DEF AllocateNew
  <2>2. chain' = chain
    BY <2>1
  <2>3. CASE pc' = "rehash"
    BY <1>1, <1>2, <2>1, <2>3
  <2>4. CASE pc' = "exit"
    BY <1>2, <2>2, <2>4 DEF Store!Next, Store!GiveUp
  <2> QED
    BY <1>2, <2>3, <2>4 DEF AllocateNew
<1>3. ASSUME NEW k \in Keys, NEW d \in Items, InsertCall(k, d)
      PROVE  UNCHANGED Store!storeVars
  BY <1>1, <1>3, SameTable DEF InsertCall
<1>4. CASE StartRehash
  BY <1>2, <1>4 DEF StartRehash
<1>5. CASE RestartRehash
  BY <1>2, <1>5 DEF RestartRehash
<1>6. CASE SkipEmpty \/ MoveChain
  BY <1>1, <1>6, SameTable DEF SkipEmpty, MoveChain
<1>7. CASE FinishRehash
  BY <1>1, <1>7, FinishKeepsChains DEF FinishRehash
<1>8. CASE LinkNode
  <2>1. pending \in Node
    BY <1>8, LinkedSlot
  <2>2. /\ pending.key \in Keys /\ pending.data \in Items
        /\ pending = [key |-> pending.key, data |-> pending.data]
    BY <2>1 DEF Node
  <2>3. \A k \in Keys : Get(k)' = IF k = pending.key THEN <<pending>> \o Get(k) ELSE Get(k)
    BY <1>8, LinkInsertsOne
  <2>4. chain' = [chain EXCEPT ![pending.key] = <<pending>> \o @]
    BY <2>2, <2>3
  <2>5. pc = "probe" /\ pc' = "idle"
    BY <1>8 DEF LinkNode
  <2>6. Store!Insert(pending.key, pending.data)
    BY <2>2, <2>4, <2>5 DEF Store!Insert
  <2> QED
    BY <2>2, <2>6 DEF Store!Next
<1>9. CASE LinkFails
  <2>1. chain' = chain
    BY <1>9, SameTable DEF LinkFails
  <2> QED
    BY <1>9, <2>1 DEF LinkFails, Store!Next, Store!GiveUp
<1>10. CASE UNCHANGED vars
  BY <1>1, <1>10, SameTable DEF vars
<1> QED
  BY <1>3, <1>4, <1>5, <1>6, <1>7, <1>8, <1>9, <1>10 DEF Next, Step

\* Below 2^31 slots, insertions and rehashes lose, reorder and relabel no
\* node of any key: the table behaves as one chain per key.
THEOREM TableImplementsStore ==
    ASSUME InitSize < IntLimit, MaxSize < IntLimit
    PROVE  Spec => ImplementsStore
<1>1. Init => IInv /\ SizesFit
  BY InitInv, SizesFitInit
<1>2. IInv /\ SizesFit /\ [Next]_vars => (IInv /\ SizesFit)'
  BY NextInv, SizesFitNext
<1>3. IInv /\ SizesFit /\ [Next]_vars => [Store!Next]_(Store!storeVars)
  BY StoreStep
<1> QED
  BY <1>1, <1>2, <1>3, StoreInit, PTL DEF Spec, ImplementsStore, Store!Spec

-----------------------------------------------------------------------------
(* hashtbl_rehash gives up only when no array that fits tells two keys     *)
(* apart: the next doubling does not fit, all sizes up to the present one divide  *)
(* it, and keys that meet in this table meet in every smaller one.         *)

\* A size is the first one or the double of another.
LEMMA SizeBefore ==
    ASSUME NEW n \in Sizes
    PROVE  /\ n \in Nat \ {0} /\ n <= MaxSize
           /\ n = InitSize \/ \E m \in Sizes : n = 2 * m
<1>1. MaxSize \in Nat /\ InitSize \in Nat \ {0}
  BY SizesAssumption
<1>2. n \in 1..MaxSize /\ Sizes \in SUBSET (1..MaxSize)
  BY DEF Sizes
<1>3. Doubling(Sizes)
  <2> SUFFICES ASSUME NEW l \in {InitSize} \cup {2 * m : m \in Sizes}, l <= MaxSize
               PROVE  l \in Sizes
    BY DEF Doubling
  <2>1. l \in 1..MaxSize
    BY <1>1, <1>2
  <2>2. ASSUME NEW S \in SUBSET (1..MaxSize), Doubling(S) PROVE l \in S
    <3>1. Sizes \subseteq S
      BY <2>2 DEF Sizes
    <3>2. l \in {InitSize} \cup {2 * m : m \in S}
      BY <3>1
    <3> QED
      BY <2>2, <3>2 DEF Doubling
  <2> QED
    BY <2>1, <2>2 DEF Sizes
<1>4. ASSUME n # InitSize, \A m \in Sizes : n # 2 * m PROVE FALSE
  <2>1. Doubling(Sizes \ {n})
    BY <1>3, <1>4 DEF Doubling
  <2>2. Sizes \ {n} \in SUBSET (1..MaxSize)
    BY <1>2
  <2>3. n \in Sizes \ {n}
    BY <2>1, <2>2 DEF Sizes
  <2> QED
    BY <2>3
<1> QED
  BY <1>1, <1>2, <1>4

\* What the array does not tell apart, no smaller one does.
LEMMA SmallerCollide ==
    ASSUME NEW n \in Nat \ {0}, NEW q \in Nat \ {0}, NEW a \in Nat, NEW b \in Nat,
           a % (n * q) = b % (n * q)
    PROVE  a % n = b % n
<1> DEFINE N == n * q
<1>1. N \in Nat \ {0}
  OBVIOUS
<1>2. ASSUME NEW x \in Nat PROVE (x % N) % n = x % n
  <2>1. PICK d \in Nat : x = (N * d) + (x % N)
    BY <1>1, Division
  <2>2. x % N \in Nat
    <3> HIDE DEF N
    <3> QED
      BY <1>1, Division
  <2>3. PICK e \in Nat : x % N = (n * e) + ((x % N) % n) /\ (x % N) % n \in 0..(n - 1)
    BY <2>2, Division
  <2>4. N * d = n * (q * d)
    OBVIOUS
  <2> DEFINE r == (x % N) % n
  <2>5. x = n * ((q * d) + e) + r
    <3>1. n * ((q * d) + e) = n * (q * d) + n * e
      OBVIOUS
    <3> HIDE DEF N, r
    <3> QED
      BY <2>1, <2>3, <2>4, <3>1 DEF r
  <2>6. (q * d) + e \in Int /\ r \in 0..(n - 1)
    BY <2>3
  <2> HIDE DEF r
  <2>7. x % n = r
    BY <2>5, <2>6, RemainderUnique
  <2> QED
    BY <2>7 DEF r
<1> QED
  BY <1>2

\* Sizes up to s divide it, the others are twice as big at least.
Between(s) ==
    /\ InitSize <= s
    /\ \A n \in Sizes : IF n <= s THEN \E q \in Nat \ {0} : s = n * q ELSE 2 * s <= n

LEMMA FirstBetween == Between(InitSize)
<1>1. MaxSize \in Nat /\ InitSize \in Nat \ {0}
  BY SizesAssumption
<1> DEFINE T == {n \in 1..MaxSize : InitSize <= n}
<1>2. T \in SUBSET (1..MaxSize) /\ Doubling(T)
  BY <1>1 DEF Doubling
<1>3. \A n \in Sizes : n \in Nat /\ InitSize <= n
  <2> HIDE DEF T
  <2>1. Sizes \subseteq T
    BY <1>2 DEF Sizes
  <2> QED
    BY <2>1, <1>1 DEF T
<1>4. ASSUME NEW n \in Sizes
      PROVE  IF n <= InitSize THEN \E q \in Nat \ {0} : InitSize = n * q ELSE 2 * InitSize <= n
  <2>1. CASE n = InitSize
    <3>1. InitSize = n * 1 /\ 1 \in Nat \ {0}
      BY <1>1, <2>1
    <3> QED
      BY <1>1, <2>1, <3>1
  <2>2. CASE n # InitSize
    <3>1. PICK m \in Sizes : n = 2 * m
      BY <2>2, SizeBefore
    <3>2. m \in Nat /\ InitSize <= m
      BY <1>3
    <3> QED
      BY <1>1, <3>1, <3>2
  <2> QED
    BY <2>1, <2>2
<1> QED
  BY <1>1, <1>4 DEF Between

LEMMA NextBetween == ASSUME NEW s \in Nat \ {0}, Between(s) PROVE Between(2 * s)
<1> SUFFICES ASSUME NEW n \in Sizes
             PROVE  IF n <= 2 * s THEN \E q \in Nat \ {0} : 2 * s = n * q ELSE 2 * (2 * s) <= n
  BY SizesAssumption DEF Between
<1>1. n \in Nat \ {0} /\ (n = InitSize \/ \E m \in Sizes : n = 2 * m)
  BY SizeBefore
<1>2. CASE n <= s
  <2>1. PICK q \in Nat \ {0} : s = n * q
    BY <1>2 DEF Between
  <2>2. 2 * s = n * (2 * q) /\ 2 * q \in Nat \ {0}
    BY <1>1, <2>1
  <2> DEFINE p == 2 * q
  <2>3. 2 * s = n * p /\ p \in Nat \ {0} /\ n <= 2 * s
    BY <1>1, <1>2, <2>2
  <2> HIDE DEF p
  <2> QED
    BY <2>3
<1>3. CASE ~(n <= s) /\ n = 2 * s
  <2>1. 2 * s = n * 1 /\ 1 \in Nat \ {0}
    BY <1>3
  <2> QED
    BY <1>3, <2>1
<1>4. CASE ~(n <= s) /\ n # 2 * s
  <2>1. 2 * s <= n /\ n > 2 * s
    BY <1>1, <1>4 DEF Between
  <2>2. n # InitSize
    BY <1>1, <1>4 DEF Between
  <2>3. PICK m \in Sizes : n = 2 * m
    BY <1>1, <2>2
  <2>4. m \in Nat /\ m > s
    BY <2>1, <2>3, SizeBefore
  <2>5. 2 * s <= m
    BY <2>4 DEF Between
  <2> QED
    BY <2>1, <2>3, <2>4, <2>5
<1> QED
  BY <1>2, <1>3, <1>4

ExitInv == /\ Between(size)
           /\ pc = "exit" => pending \in Node /\ (Foreign => 2 * size > MaxSize)

GiveUpInv == IInv /\ ExitInv

LEMMA InitGiveUp == Init => GiveUpInv
BY InitInv, FirstBetween DEF Init, GiveUpInv, ExitInv

LEMMA BetweenNext == ASSUME NEW s, Between(s) PROVE size' = s => Between(size)'
BY DEF Between

LEMMA NextGiveUp == GiveUpInv /\ [Next]_vars => GiveUpInv'
<1> SUFFICES ASSUME GiveUpInv, [Next]_vars PROVE ExitInv'
  BY NextInv DEF GiveUpInv
<1>1. IInv /\ TypeOK /\ ExitInv
  BY DEF GiveUpInv, IInv
<1>2. CASE StartRehash
  <2>1. pc = "probe" /\ Foreign /\ AllocateNew(2 * size) /\ pending \in Node
    BY <1>1, <1>2 DEF StartRehash, TypeOK
  <2>2. UNCHANGED <<tableVars, pending>> /\ (pc' = "exit" => 2 * size > MaxSize)
    <3>1. size \in Nat /\ MaxSize \in Nat
      BY <1>1, SizesAssumption DEF TypeOK
    <3> QED
      BY <2>1, <3>1 DEF AllocateNew
  <2> QED
    BY <1>1, <2>1, <2>2, BetweenNext DEF ExitInv, tableVars, Foreign, Index
<1>3. CASE FinishRehash
  <2>1. size' = newsize /\ pc' = "probe" /\ newsize = 2 * size
    BY <1>1, <1>3 DEF FinishRehash, IInv, RehashedSoFar
  <2>2. Between(2 * size)
    BY <1>1, NextBetween DEF ExitInv, TypeOK
  <2> QED
    BY <2>1, <2>2, BetweenNext DEF ExitInv
<1>4. CASE RestartRehash
  BY <1>1, <1>4, NoRestart
<1>5. CASE SkipEmpty \/ MoveChain \/ LinkNode \/ \E k \in Keys, d \in Items : InsertCall(k, d)
  <2>1. size' = size /\ pc' # "exit"
    BY <1>5 DEF SkipEmpty, MoveChain, LinkNode, InsertCall, tableVars
  <2> QED
    BY <1>1, <2>1, BetweenNext DEF ExitInv
<1>6. CASE LinkFails
  <2>1. ~Foreign /\ UNCHANGED <<tableVars, pending>> /\ pending \in Node
    BY <1>1, <1>6 DEF LinkFails, TypeOK
  <2> QED
    BY <1>1, <2>1, BetweenNext DEF ExitInv, tableVars, Foreign, Index
<1>7. CASE UNCHANGED vars
  BY <1>1, <1>7, BetweenNext DEF ExitInv, vars, tableVars, Foreign, Index
<1> QED
  BY <1>2, <1>3, <1>4, <1>5, <1>6, <1>7 DEF Next, Step

LEMMA NothingFits == GiveUpInv => RehashGivesUpOnlyWhenNothingFits
<1> SUFFICES ASSUME GiveUpInv, pc = "exit", Foreign
             PROVE  \E k \in Stored \ {pending.key} : \A n \in Sizes :
                        Index(k, n) = Index(pending.key, n)
  BY DEF RehashGivesUpOnlyWhenNothingFits
<1> DEFINE s == Index(pending.key, size)
           k == Head(nodes[s]).key
<1>1. /\ TypeOK /\ OneKeyPerSlot /\ pending \in Node /\ pending.key \in Keys
      /\ Foreign /\ 2 * size > MaxSize /\ size \in Nat \ {0}
  BY DEF GiveUpInv, IInv, ExitInv, Node, TypeOK
<1>2. s \in 0..(size - 1) /\ DOMAIN nodes = 0..(size - 1)
  BY <1>1, IndexInRange DEF TypeOK
<1>3. nodes[s] # <<>> /\ k # pending.key
  BY <1>1 DEF Foreign
<1>4. k = nodes[s][1].key /\ k \in Keys /\ Index(k, size) = s
  <2> HIDE DEF s
  <2> QED
    BY <1>1, <1>2, <1>3, HomeSlot
<1>5. k \in Stored
  BY <1>2, <1>3, <1>4 DEF Stored
<1>6. hashfunc[k] \in Nat /\ hashfunc[pending.key] \in Nat
  BY <1>1, <1>4, HashAssumption DEF TypeOK
<1>7. ASSUME NEW n \in Sizes PROVE Index(k, n) = Index(pending.key, n)
  <2>1. n \in Nat \ {0} /\ n <= MaxSize /\ MaxSize \in Nat
    BY SizeBefore, SizesAssumption
  <2>2. Between(size)
    BY DEF GiveUpInv, ExitInv
  <2>3. PICK q \in Nat \ {0} : size = n * q
    BY <1>1, <2>1, <2>2 DEF Between
  <2>4. hashfunc[k] % size = hashfunc[pending.key] % size
    BY <1>4 DEF Index
  <2> DEFINE x == hashfunc[k]
             y == hashfunc[pending.key]
  <2>5. x \in Nat /\ y \in Nat /\ x % size = y % size
    BY <1>6, <2>4
  <2> HIDE DEF x, y
  <2>6. x % (n * q) = y % (n * q)
    BY <2>3, <2>5
  <2>7. \A a \in Nat, b \in Nat : a % (n * q) = b % (n * q) => a % n = b % n
    <3>1. n \in Nat \ {0} /\ q \in Nat \ {0}
      BY <2>1, <2>3
    <3> QED
      BY <3>1, SmallerCollide
  <2>8. x % n = y % n
    BY <2>5, <2>6, <2>7, Zenon
  <2> QED
    BY <2>8 DEF Index, x, y
<1> QED
  BY <1>3, <1>5, <1>7

\* hashtbl_rehash gives up only when no array that fits in memory can tell
\* the new key from the stored one in its slot.  The other exit of an
\* insertion, LinkFails, is for want of a node and needs no such reason.
THEOREM RehashExitIsJustified == Spec => []RehashGivesUpOnlyWhenNothingFits
BY InitGiveUp, NextGiveUp, NothingFits, PTL DEF Spec

-----------------------------------------------------------------------------
(* The walk over a filled table.  What has been handed out are the filled  *)
(* slots before nindex, which only the first step can move past the end of *)
(* the array: then there are no filled slots.                              *)
Walked == /\ nindex \in 0..size
          /\ yielded \in Seq(Nat)
          /\ Handed = {s \in Filled : s < nindex}
          /\ size - 1 \notin Handed
          /\ IsFiniteSet(Handed) /\ Len(yielded) = Cardinality(Handed)

WalkInv == /\ TypeOK
           /\ walk \in {"none", "on", "over"}
           /\ walk = "none" => yielded = <<>>
           /\ walk = "on" => Walked
           /\ WalkMissesOnlyTheLastSlot

\* Min is what its name says, the natural numbers being well-founded.
LEMMA MinIsLeast ==
    ASSUME NEW T \in SUBSET Nat, T # {}
    PROVE  Min(T) \in T /\ \A y \in T : Min(T) <= y
<1> DEFINE R == {ss \in Nat \X Nat : ss[1] < ss[2]}
<1>1. IsWellFoundedOn(R, Nat)
  BY NatLessThanWellFounded DEF OpToRel
<1>2. \E x \in T : \A y \in T : ~(<<y, x>> \in R)
  <2> HIDE DEF R
  <2> QED
    BY <1>1, WFMin
<1>3. PICK x \in T : \A y \in T : ~(<<y, x>> \in R)
  BY <1>2
<1>4. \A y \in T : ~(y < x)
  BY <1>3
<1>5. \E z \in T : \A y \in T : z <= y
  BY <1>4
<1> QED
  BY <1>5 DEF Min

\* FirstFilled is the first filled slot from a position on, if there is one.
LEMMA FirstFilledFound ==
    ASSUME TypeOK, NEW from \in 0..size
    PROVE  /\ FirstFilled(from) \in from..size
           /\ FirstFilled(from) < size => FirstFilled(from) \in Filled
           /\ \A s \in Filled : s >= from => FirstFilled(from) <= s
<1> DEFINE T == {s \in from..(size - 1) : nodes[s] # <<>>} \cup {size}
<1>1. size \in Nat /\ from \in Nat /\ DOMAIN nodes = 0..(size - 1)
  BY DEF TypeOK
<1>2. T \in SUBSET Nat /\ T # {}
  BY <1>1
<1>3. Min(T) \in T /\ \A y \in T : Min(T) <= y
  <2> HIDE DEF T
  <2> QED
    BY <1>2, MinIsLeast
<1>4. FirstFilled(from) = Min(T)
  BY DEF FirstFilled
<1>5. \A s \in Filled : s >= from => s \in T
  BY <1>1 DEF Filled
<1>6. \A t \in T : t \in from..size /\ (t < size => t \in Filled)
  BY <1>1 DEF Filled
<1> QED
  BY <1>3, <1>4, <1>5, <1>6

\* Whatever is handed out last is the one more slot handed out.
LEMMA HandedOneMore ==
    ASSUME yielded \in Seq(Nat), NEW s \in Nat, yielded' = Append(yielded, s)
    PROVE  /\ yielded' \in Seq(Nat) /\ Len(yielded') = Len(yielded) + 1
           /\ Handed' = Handed \cup {s}
<1>1. /\ yielded' \in Seq(Nat) /\ Len(yielded) \in Nat /\ Len(yielded') = Len(yielded) + 1
      /\ DOMAIN yielded = 1..Len(yielded) /\ DOMAIN yielded' = 1..(Len(yielded) + 1)
      /\ \A j \in 1..Len(yielded) : yielded'[j] = yielded[j]
      /\ yielded'[Len(yielded) + 1] = s
  OBVIOUS
<1>2. 1..(Len(yielded) + 1) = (1..Len(yielded)) \cup {Len(yielded) + 1}
  BY <1>1
<1> QED
  BY <1>1, <1>2 DEF Handed

LEMMA InitWalk == WalkInit => WalkInv
BY InitType DEF WalkInit, WalkInv, WalkMissesOnlyTheLastSlot

LEMMA NextWalk == WalkInv /\ [Filling \/ WalkStep]_walkVars => WalkInv'
<1> SUFFICES ASSUME WalkInv, [Filling \/ WalkStep]_walkVars PROVE WalkInv'
  OBVIOUS
<1>1. TypeOK /\ size \in Nat \ {0}
  BY DEF WalkInv, TypeOK
<1>2. CASE Filling
  <2>1. TypeOK'
    BY <1>1, <1>2, NextType DEF Filling
  <2> QED
    BY <1>2, <2>1 DEF Filling, WalkInv, WalkMissesOnlyTheLastSlot
<1>3. TypeOK' /\ (~Filling => size' = size /\ Filled' = Filled)
  <2>1. CASE Filling
    BY <1>1, <2>1, NextType DEF Filling
  <2>2. CASE UNCHANGED vars
    <3>1. [Next]_vars
      BY <2>2
    <3>2. size' = size /\ nodes' = nodes
      BY <2>2 DEF vars, tableVars
    <3> QED
      BY <1>1, <3>1, <3>2, NextType DEF Filled
  <2> QED
    BY <2>1, <2>2 DEF WalkStep, WalkBegin, WalkNext, WalkEnd, walkVars
<1>4. CASE WalkBegin /\ ~Filling
  <2>1. walk = "none" /\ walk' = "on" /\ nindex' = FirstFilled(0) /\ yielded' = <<>>
    BY <1>4 DEF WalkBegin, WalkInv
  <2>2. nindex' \in 0..size /\ \A s \in Filled : nindex' <= s
    <3>1. 0 \in 0..size /\ \A s \in Filled : s >= 0
      BY <1>1 DEF Filled, TypeOK
    <3> QED
      BY <1>1, <2>1, <3>1, FirstFilledFound
  <2>3. Handed' = {} /\ {s \in Filled : s < nindex'} = {} /\ Len(yielded') = 0
        /\ yielded' \in Seq(Nat)
    <3>1. \A s \in Filled : s \in Nat
      BY <1>1 DEF Filled, TypeOK
    <3>2. {s \in Filled : s < nindex'} = {}
      BY <2>2, <3>1
    <3> QED
      BY <2>1, <3>2 DEF Handed
  <2>4. IsFiniteSet({}) /\ Cardinality({}) = 0
    BY FS_EmptySet
  <2>5. Walked'
    BY <1>3, <1>4, <2>2, <2>3, <2>4 DEF Walked
  <2> QED
    BY <1>3, <2>1, <2>5 DEF WalkInv, WalkMissesOnlyTheLastSlot
<1>5. CASE WalkNext /\ ~Filling
  <2> DEFINE s == FirstFilled(nindex)
  <2>1. /\ walk = "on" /\ walk' = "on" /\ s + 1 < size /\ nindex' = s + 1
        /\ yielded' = Append(yielded, s) /\ Walked
    BY <1>5 DEF WalkNext, WalkInv
  <2>2. /\ s \in nindex..size /\ (s < size => s \in Filled)
        /\ \A t \in Filled : t >= nindex => s <= t
    BY <1>1, <2>1, FirstFilledFound DEF Walked
  <2> HIDE DEF s
  <2>3. \A t \in Filled : t \in Nat
    BY <1>1 DEF Filled, TypeOK
  <2>4. nindex \in Nat /\ s \in Nat /\ nindex <= s /\ s \in Filled
    BY <1>1, <2>1, <2>2 DEF Walked
  <2>5. /\ yielded' \in Seq(Nat) /\ Len(yielded') = Len(yielded) + 1
        /\ Handed' = Handed \cup {s}
    BY <2>1, <2>4, HandedOneMore DEF Walked
  <2>6. Handed = {t \in Filled : t < nindex} /\ size - 1 \notin Handed
    BY <2>1 DEF Walked
  <2>7. Handed \cup {s} = {t \in Filled : t < s + 1}
    <3>1. \A t \in Filled : t < s + 1 <=> t < nindex \/ t = s
      BY <2>2, <2>3, <2>4
    <3> QED
      BY <2>4, <2>6, <3>1
  <2>8. s \notin Handed /\ s # size - 1
    BY <1>1, <2>1, <2>4, <2>6
  <2>9. IsFiniteSet(Handed \cup {s}) /\ Cardinality(Handed \cup {s}) = Cardinality(Handed) + 1
    BY <2>1, <2>8, FS_AddElement DEF Walked
  <2>10. nindex' \in 0..size
    BY <1>1, <2>1, <2>4
  <2>11. Walked'
    BY <1>3, <1>5, <2>1, <2>5, <2>6, <2>7, <2>8, <2>9, <2>10 DEF Walked
  <2> QED
    BY <1>3, <2>1, <2>11 DEF WalkInv, WalkMissesOnlyTheLastSlot
<1>6. CASE WalkEnd /\ ~Filling
  <2> DEFINE s == FirstFilled(nindex)
  <2>1. /\ walk = "on" /\ walk' = "over" /\ s + 1 >= size /\ yielded' = yielded /\ Walked
    BY <1>6 DEF WalkEnd, WalkInv
  <2>2. /\ s \in nindex..size /\ \A t \in Filled : t >= nindex => s <= t
    BY <1>1, <2>1, FirstFilledFound DEF Walked
  <2> HIDE DEF s
  <2>3. \A t \in Filled : t \in 0..(size - 1)
    BY <1>1 DEF Filled, TypeOK
  <2>4. nindex \in Nat /\ s \in Nat
    BY <1>1, <2>1, <2>2 DEF Walked
  <2>5. Handed = {t \in Filled : t < nindex} /\ size - 1 \notin Handed
        /\ Len(yielded) = Cardinality(Handed)
    BY <2>1 DEF Walked
  <2>6. \A t \in Filled : t # size - 1 => t < nindex
    <3> SUFFICES ASSUME NEW t \in Filled, t >= nindex PROVE t = size - 1
      BY <2>3, <2>4
    <3> QED
      BY <1>1, <2>1, <2>2, <2>3, <2>4
  <2>7. Handed = Filled \ {size - 1}
    BY <2>5, <2>6
  <2>8. Handed' = Handed
    BY <2>1 DEF Handed
  <2> QED
    BY <1>3, <1>6, <2>1, <2>5, <2>7, <2>8 DEF WalkInv, WalkMissesOnlyTheLastSlot
<1>7. CASE UNCHANGED walkVars /\ ~Filling
  <2>1. walk' = walk /\ nindex' = nindex /\ yielded' = yielded
    BY <1>7 DEF walkVars
  <2>2. Handed' = Handed
    BY <2>1 DEF Handed
  <2> QED
    BY <1>3, <1>7, <2>1, <2>2 DEF WalkInv, Walked, WalkMissesOnlyTheLastSlot
<1> QED
  BY <1>2, <1>4, <1>5, <1>6, <1>7 DEF WalkStep

\* However the slots are filled, a finished walk has handed out each filled
\* slot once, except for the array's last one, which it never hands out.
THEOREM WalkIsComplete == WalkSpec => []WalkMissesOnlyTheLastSlot
<1>1. WalkInv => WalkMissesOnlyTheLastSlot
  BY DEF WalkInv
<1> QED
  BY <1>1, InitWalk, NextWalk, PTL DEF WalkSpec

-----------------------------------------------------------------------------
(* Chains, as far as the interface cares: the data pointers and the keys.  *)

OneKey(c)   == \A j \in DOMAIN c : c[j].key = c[1].key
DataIn(N)   == UNION {Removed(N[s]) : s \in DOMAIN N}
Apart(N)    == \A s, t \in DOMAIN N : Removed(N[s]) \cap Removed(N[t]) # {} => s = t

LEMMA ChainData ==
    ASSUME NEW c \in Seq(Node)
    PROVE  Removed(c) \subseteq Items /\ (c # <<>> => Removed(c) # {})
<1>1. ASSUME NEW j \in DOMAIN c PROVE c[j].data \in Items
  <2>1. c[j] \in Node
    OBVIOUS
  <2> QED
    BY <2>1 DEF Node
<1>2. c # <<>> => 1 \in DOMAIN c
  OBVIOUS
<1> QED
  BY <1>1, <1>2 DEF Removed

LEMMA EmptyChain == Removed(<<>>) = {} /\ OneKey(<<>>)
BY DEF Removed, OneKey

\* A node put before a chain.
LEMMA LongerChain ==
    ASSUME NEW n \in Node, NEW c \in Seq(Node)
    PROVE  /\ Removed(<<n>> \o c) = {n.data} \cup Removed(c)
           /\ OneKey(c) /\ (c # <<>> => Head(c).key = n.key) => OneKey(<<n>> \o c)
<1> DEFINE d == <<n>> \o c
<1>1. /\ d \in Seq(Node) /\ Len(d) = Len(c) + 1 /\ d[1] = n
      /\ \A j \in DOMAIN c : j + 1 \in DOMAIN d /\ d[j + 1] = c[j]
      /\ \A j \in DOMAIN d : j = 1 \/ (j - 1 \in DOMAIN c /\ d[j] = c[j - 1])
  OBVIOUS
<1>2. Len(c) \in Nat /\ DOMAIN c = 1..Len(c) /\ DOMAIN d = 1..Len(d)
  BY <1>1
<1> HIDE DEF d
<1>3. Removed(d) = {n.data} \cup Removed(c)
  <2>1. ASSUME NEW x \in Removed(d) PROVE x \in {n.data} \cup Removed(c)
    <3>1. PICK j \in DOMAIN d : x = d[j].data
      BY <2>1 DEF Removed
    <3>2. CASE j = 1
      BY <1>1, <3>1, <3>2
    <3>3. CASE j # 1
      <4>1. j - 1 \in DOMAIN c /\ x = c[j - 1].data
        BY <1>1, <3>1, <3>3
      <4> QED
        BY <4>1 DEF Removed
    <3> QED
      BY <3>2, <3>3
  <2>2. ASSUME NEW x \in {n.data} \cup Removed(c) PROVE x \in Removed(d)
    <3>1. 1 \in DOMAIN d
      BY <1>1, <1>2
    <3> QED
      BY <1>1, <2>2, <3>1 DEF Removed
  <2> QED
    BY <2>1, <2>2
<1>4. ASSUME OneKey(c), c # <<>> => Head(c).key = n.key
      PROVE  OneKey(d)
  <2> SUFFICES ASSUME NEW j \in DOMAIN d, j # 1 PROVE d[j].key = n.key
    BY <1>1 DEF OneKey
  <2>1. j - 1 \in DOMAIN c /\ d[j] = c[j - 1]
    BY <1>1
  <2>2. c # <<>> /\ Head(c) = c[1]
    BY <2>1
  <2> QED
    BY <1>4, <2>1, <2>2 DEF OneKey
<1> QED
  BY <1>3, <1>4 DEF d

-----------------------------------------------------------------------------
(* Type correctness of the table between its first and its last call.      *)

LifeType == /\ size \in Nat /\ (size # 0 => TypeOK)
            /\ pc \notin {"idle", "exit"} => size # 0
            /\ nodes \in [0..(size - 1) -> Seq(Node)]
            /\ hashfunc \in [Keys -> HashValues]
            /\ pc \in Phase
            /\ IF pc = "idle" THEN pending = NoNode
               ELSE pending \in Node \/ (pc = "exit" /\ pending = NoNode)
            /\ freefunc \in FreeFuncs
            /\ stored \subseteq Items
            /\ freed \in [Items -> Seq(FreeFuncs)]

LEMMA LifeInitType == LifeInit => LifeType
<1> SUFFICES ASSUME LifeInit PROVE LifeType
  OBVIOUS
<1>1. TypeOK
  BY InitType DEF LifeInit
<1>2. /\ pc = "idle" /\ pending = NoNode /\ freefunc \in FreeFuncs /\ stored = {}
      /\ freed = [d \in Items |-> <<>>]
  BY NullFuncAssumption DEF LifeInit, Init
<1> QED
  BY <1>1, <1>2 DEF LifeType, TypeOK

LEMMA EmptyArray == EmptySlots(0) \in [0..(0 - 1) -> Seq(Node)] /\ DataIn(EmptySlots(0)) = {}
<1>1. 0..(0 - 1) = {}
  OBVIOUS
<1> QED
  BY <1>1 DEF EmptySlots, DataIn

LEMMA FreeType ==
    ASSUME LifeType, NEW S, Free(S)
    PROVE  freed' \in [Items -> Seq(FreeFuncs)]
BY DEF LifeType, Free

\* A step of an insertion is one of HashTable.
LEMMA InsertStepType ==
    ASSUME LifeType, InsertStep PROVE LifeType'
<1>1. Step /\ UNCHANGED lifeVars
  BY DEF InsertStep
<1>2. pc \in {"probe", "rehash"} /\ TypeOK
  BY <1>1 DEF LifeType, Step, StartRehash, SkipEmpty, MoveChain, RestartRehash,
              FinishRehash, LinkNode, LinkFails
<1>3. TypeOK'
  BY <1>1, <1>2, NextType DEF Next
<1>4. IF pc' = "idle" THEN pending' = NoNode ELSE pending' = pending
  BY <1>1, <1>2 DEF Step, StartRehash, SkipEmpty, MoveChain, RestartRehash,
              FinishRehash, LinkNode, LinkFails, AllocateNew
<1> QED
  BY <1>1, <1>2, <1>3, <1>4 DEF LifeType, TypeOK, lifeVars

LEMMA LifeNextType == LifeType /\ [ApiNext]_allVars => LifeType'
<1> SUFFICES ASSUME LifeType, [ApiNext]_allVars PROVE LifeType'
  OBVIOUS
<1>1. CASE Recreate
  <2>1. InitSize \in Nat \ {0}
    BY SizesAssumption
  <2>2. EmptySlots(InitSize) \in [0..(InitSize - 1) -> Seq(Node)]
    BY <2>1 DEF EmptySlots
  <2> QED
    BY <1>1, <2>1, <2>2 DEF LifeType, TypeOK, Recreate, RecreatedFunc, rehashVars
<1>2. CASE InsertStep
  BY <1>2, InsertStepType
<1>3. CASE Empty \/ Destroy
  <2>1. /\ FreeAll /\ pc' = pc /\ pc = "idle" /\ pending' = pending
        /\ size' = 0 /\ nodes' = EmptySlots(0)
        /\ UNCHANGED <<hashfunc, freefunc, stored>>
    BY <1>3 DEF Empty, Destroy, FreeAll, Ready
  <2>2. freed' \in [Items -> Seq(FreeFuncs)]
    BY <2>1, FreeType DEF FreeAll
  <2> QED
    BY <2>1, <2>2, EmptyArray DEF LifeType
<1>4. ASSUME NEW k \in Keys, NEW d \in Items, Insert(k, d) PROVE LifeType'
  <2>1. InsertCall(k, d) /\ size # 0 /\ UNCHANGED <<freefunc, freed>>
        /\ stored' = stored \cup {d}
    BY <1>4 DEF Insert, Ready
  <2>2. TypeOK'
    BY <2>1, NextType DEF LifeType, Next
  <2>3. UNCHANGED tableVars /\ pc' = "probe"
    BY <2>1 DEF InsertCall
  <2>4. pending' \in Node
    BY <2>1 DEF InsertCall, Node
  <2> QED
    BY <2>1, <2>2, <2>3, <2>4 DEF LifeType, tableVars, Phase
<1>5. ASSUME NEW k \in Keys, Remove(k) PROVE LifeType'
  <2>1. freed' \in [Items -> Seq(FreeFuncs)]
    BY <1>5, FreeType DEF Remove
  <2>2. nodes' \in [0..(size - 1) -> Seq(Node)]
    <3>1. <<>> \in Seq(Node) /\ nodes \in [0..(size - 1) -> Seq(Node)]
      BY DEF LifeType
    <3>2. nodes' = [nodes EXCEPT ![RemovalSlot(k)] = <<>>]
      BY <1>5 DEF Remove
    <3> QED
      BY <3>1, <3>2
  <2>3. UNCHANGED <<size, hashfunc, pc, pending, rehashVars, freefunc, stored>> /\ pc = "idle"
    BY <1>5 DEF Remove, Ready
  <2> QED
    BY <2>1, <2>2, <2>3 DEF LifeType, TypeOK, rehashVars
<1>6. ASSUME NEW k \in Keys, RemoveNode(k) PROVE LifeType'
  <2>1. freed' \in [Items -> Seq(FreeFuncs)]
    BY <1>6, FreeType DEF RemoveNode
  <2> QED
    BY <1>6, <2>1 DEF RemoveNode, LifeType, TypeOK, vars, tableVars, rehashVars
<1>7. ASSUME NEW f \in [Keys -> HashValues], NEW g \in FreeFuncs, SetFunctions(f, g)
      PROVE  LifeType'
  BY <1>7 DEF SetFunctions, LifeType, TypeOK, rehashVars
<1>8. CASE UNCHANGED allVars
  BY <1>8 DEF allVars, vars, tableVars, rehashVars, lifeVars, LifeType, TypeOK
<1>9. freefunc \in FreeFuncs /\ hashfunc \in [Keys -> HashValues]
  BY DEF LifeType
<1>10. CASE RecreateFails
  BY <1>10 DEF RecreateFails, LifeType, Phase, tableVars, rehashVars, lifeVars
<1> QED
  BY <1>1, <1>2, <1>3, <1>4, <1>5, <1>6, <1>7, <1>8, <1>9, <1>10 DEF ApiNext

-----------------------------------------------------------------------------
(* What the interface keeps true.  An item can only be freed twice, or not *)
(* at all, if it is in two chains or in none; so the invariant says that   *)
(* the chains share no item, also while a rehash has copied some of them.  *)

\* The array under construction holds the chains before i, each once.
CopySoFar ==
    pc = "rehash" =>
        /\ \A s \in 0..(i - 1) : nodes[s] # <<>> =>
              \E t \in DOMAIN newnodes : newnodes[t] = nodes[s]
        /\ \A t \in DOMAIN newnodes : newnodes[t] # <<>> =>
              \E s \in 0..(i - 1) : newnodes[t] = nodes[s]
        /\ \A t, u \in DOMAIN newnodes : newnodes[t] # <<>> /\ newnodes[t] = newnodes[u] => t = u

TableInv == /\ \A s \in DOMAIN nodes : OneKey(nodes[s])
            /\ Apart(nodes)
            /\ pc # "idle" => pending.data \notin DataIn(nodes)
            /\ CopySoFar

LEMMA TableInvInit == LifeInit => TableInv
<1> SUFFICES ASSUME LifeInit PROVE TableInv
  OBVIOUS
<1>1. nodes = EmptySlots(InitSize) /\ pc = "idle"
  BY DEF LifeInit, Init
<1>2. \A s \in DOMAIN nodes : nodes[s] = <<>>
  BY <1>1 DEF EmptySlots
<1> QED
  BY <1>1, <1>2, EmptyChain DEF TableInv, Apart, CopySoFar

\* Steps that leave the chains and the copy alone.
LEMMA TableInvQuiet ==
    ASSUME TableInv, UNCHANGED <<nodes, pc, pending, newnodes, i>>
    PROVE  TableInv'
BY DEF TableInv, CopySoFar

\* Steps after which there is no copy.
LEMMA TableInvNoCopy ==
    ASSUME TableInv, nodes' = nodes, pc' # "rehash",
           pc' # "idle" => pending'.data \notin DataIn(nodes)
    PROVE  TableInv'
BY DEF TableInv, CopySoFar

\* Steps that empty chains.
LEMMA TableInvFewer ==
    ASSUME TableInv, pc' = "idle",
           \A s \in DOMAIN nodes' : nodes'[s] = <<>> \/ (s \in DOMAIN nodes /\ nodes'[s] = nodes[s])
    PROVE  TableInv'
<1>1. ASSUME NEW s \in DOMAIN nodes' PROVE OneKey(nodes'[s])
  BY <1>1, EmptyChain DEF TableInv
<1>2. ASSUME NEW s \in DOMAIN nodes', NEW t \in DOMAIN nodes',
             Removed(nodes'[s]) \cap Removed(nodes'[t]) # {}
      PROVE  s = t
  <2>1. nodes'[s] # <<>> /\ nodes'[t] # <<>>
    BY <1>2, EmptyChain
  <2> QED
    BY <1>2, <2>1 DEF TableInv, Apart
<1>3. CopySoFar'
  BY DEF CopySoFar
<1> QED
  BY <1>1, <1>2, <1>3 DEF TableInv, Apart

LEMMA TableInvAllocate ==
    ASSUME LifeType, TableInv, pc # "idle", NEW n, AllocateNew(n)
    PROVE  TableInv'
<1>1. nodes' = nodes /\ pending' = pending
  BY DEF AllocateNew, tableVars
<1>2. CASE n <= MaxSize
  <2>1. newnodes' = EmptySlots(n) /\ i' = 0 /\ pc' = "rehash"
    BY <1>2 DEF AllocateNew
  <2>2. \A t \in DOMAIN newnodes' : newnodes'[t] = <<>>
    BY <2>1 DEF EmptySlots
  <2>3. CopySoFar'
    BY <2>1, <2>2 DEF CopySoFar
  <2> QED
    BY <1>1, <2>3 DEF TableInv
<1>3. CASE ~(n <= MaxSize)
  <2>1. pc' = "exit"
    BY <1>3 DEF AllocateNew
  <2> QED
    BY <1>1, <2>1, TableInvNoCopy DEF TableInv
<1> QED
  BY <1>2, <1>3

LEMMA TableInvSkip ==
    ASSUME LifeType, TableInv, SkipEmpty PROVE TableInv'
<1>1. /\ UNCHANGED <<nodes, pc, pending, newnodes>> /\ i' = i + 1
      /\ pc = "rehash" /\ nodes[i] = <<>> /\ i \in Nat
  BY DEF LifeType, TypeOK, SkipEmpty, tableVars
<1>2. \A s \in 0..i : s \in 0..(i - 1) \/ s = i
  BY <1>1
<1>3. \A s \in 0..(i - 1) : s \in 0..i
  BY <1>1
<1>4. 0..(i' - 1) = 0..i
  BY <1>1
<1> QED
  BY <1>1, <1>2, <1>3, <1>4 DEF TableInv, CopySoFar

LEMMA TableInvMove ==
    ASSUME LifeType, TableInv, MoveChain PROVE TableInv'
<1>1. /\ UNCHANGED <<nodes, pc, pending>> /\ i' = i + 1
      /\ pc = "rehash" /\ nodes[i] # <<>> /\ newnodes[Target] = <<>>
      /\ newnodes' = [newnodes EXCEPT ![Target] = nodes[i]]
  BY DEF MoveChain, tableVars
<1>2. /\ TypeOK /\ size \in Nat \ {0} /\ i \in 0..(size - 1) /\ i < AsInt(size)
      /\ nodes \in [0..(size - 1) -> Seq(Node)]
      /\ newnodes \in [0..(newsize - 1) -> Seq(Node)] /\ newsize \in Nat \ {0}
  <2>1. TypeOK /\ size \in Nat \ {0} /\ i \in 0..size /\ i < AsInt(size)
    BY <1>1 DEF LifeType, TypeOK, MoveChain
  <2>2. AsInt(size) \in Int /\ AsInt(size) <= size
    BY <2>1, CastToInt
  <2>3. i \in 0..(size - 1)
    BY <2>1, <2>2
  <2> QED
    BY <1>1, <2>1, <2>3 DEF TypeOK
<1>3. Target \in DOMAIN newnodes
  <2>1. Head(nodes[i]).key \in Keys
    BY <1>1, <1>2, FirstNode
  <2>2. Target \in 0..(newsize - 1)
    BY <1>2, <2>1, IndexInRange DEF Target
  <2> QED
    BY <1>2, <2>2
<1>4. 0..(i' - 1) = 0..i /\ \A s \in 0..i : s \in 0..(i - 1) \/ s = i
  BY <1>1, <1>2
<1>5. /\ newnodes'[Target] = nodes[i] /\ DOMAIN newnodes' = DOMAIN newnodes
      /\ \A t \in DOMAIN newnodes : t # Target => newnodes'[t] = newnodes[t]
  BY <1>1, <1>2, <1>3
<1>6. ASSUME NEW s \in 0..i, nodes[s] # <<>>
      PROVE  \E t \in DOMAIN newnodes : newnodes'[t] = nodes[s]
  <2>1. CASE s = i
    BY <1>3, <1>5, <2>1
  <2>2. CASE s # i
    <3>1. PICK t \in DOMAIN newnodes : newnodes[t] = nodes[s]
      BY <1>1, <1>4, <1>6, <2>2 DEF TableInv, CopySoFar
    <3>2. t # Target
      BY <1>1, <1>6, <3>1
    <3> QED
      BY <1>5, <3>1, <3>2
  <2> QED
    BY <2>1, <2>2
<1>7. ASSUME NEW t \in DOMAIN newnodes, newnodes'[t] # <<>>
      PROVE  \E s \in 0..i : newnodes'[t] = nodes[s]
  <2>1. i \in 0..i /\ \A s \in 0..(i - 1) : s \in 0..i
    BY <1>2
  <2>2. CASE t = Target
    BY <1>5, <2>1, <2>2
  <2>3. CASE t # Target
    BY <1>1, <1>5, <1>7, <2>1, <2>3 DEF TableInv, CopySoFar
  <2> QED
    BY <2>2, <2>3
<1>8. ASSUME NEW t \in DOMAIN newnodes, t # Target PROVE newnodes[t] # nodes[i]
  <2> SUFFICES ASSUME newnodes[t] = nodes[i] PROVE FALSE
    OBVIOUS
  <2>1. PICK s \in 0..(i - 1) : nodes[i] = nodes[s]
    BY <1>1, <1>8 DEF TableInv, CopySoFar
  <2>2. s \in DOMAIN nodes /\ i \in DOMAIN nodes /\ s # i
    BY <1>2, <2>1
  <2>3. Removed(nodes[i]) # {}
    BY <1>1, <1>2, <2>2, ChainData
  <2> QED
    BY <2>1, <2>2, <2>3 DEF TableInv, Apart
<1>9. ASSUME NEW t \in DOMAIN newnodes, NEW u \in DOMAIN newnodes,
             newnodes'[t] # <<>>, newnodes'[t] = newnodes'[u]
      PROVE  t = u
  <2>1. CASE t = Target
    BY <1>5, <1>8, <1>9, <2>1
  <2>2. CASE u = Target
    BY <1>5, <1>8, <1>9, <2>2
  <2>3. CASE t # Target /\ u # Target
    <3>1. newnodes'[t] = newnodes[t] /\ newnodes'[u] = newnodes[u]
      BY <1>5, <2>3
    <3>2. \A v, x \in DOMAIN newnodes : newnodes[v] # <<>> /\ newnodes[v] = newnodes[x] => v = x
      BY <1>1 DEF TableInv, CopySoFar
    <3> QED
      BY <1>9, <3>1, <3>2
  <2> QED
    BY <2>1, <2>2, <2>3
<1>10. CopySoFar'
  <2> DEFINE old == 0..(i' - 1)
             new == DOMAIN newnodes'
  <2>0. nodes' = nodes /\ old = 0..i /\ new = DOMAIN newnodes
    BY <1>1, <1>4, <1>5
  <2> HIDE DEF old, new
  <2>1. \A s \in old : nodes'[s] # <<>> => \E t \in new : newnodes'[t] = nodes'[s]
    BY <2>0, <1>6
  <2>2. \A t \in new : newnodes'[t] # <<>> => \E s \in old : newnodes'[t] = nodes'[s]
    BY <2>0, <1>7
  <2>3. \A t, u \in new : newnodes'[t] # <<>> /\ newnodes'[t] = newnodes'[u] => t = u
    BY <2>0, <1>9
  <2> USE DEF old, new
  <2> QED
    BY <2>1, <2>2, <2>3 DEF CopySoFar
<1> QED
  BY <1>1, <1>10 DEF TableInv

LEMMA TableInvFinish ==
    ASSUME LifeType, TableInv, FinishRehash PROVE TableInv'
<1>1. nodes' = newnodes /\ pc = "rehash" /\ pc' = "probe" /\ pending' = pending
  BY DEF FinishRehash
<1>2. i \in 0..size /\ size \in Nat /\ DOMAIN nodes = 0..(size - 1)
  BY <1>1 DEF LifeType, TypeOK
<1>3. ASSUME NEW t \in DOMAIN newnodes, newnodes[t] # <<>>
      PROVE  \E s \in DOMAIN nodes : newnodes[t] = nodes[s]
  <2>1. PICK s \in 0..(i - 1) : newnodes[t] = nodes[s]
    BY <1>1, <1>3 DEF TableInv, CopySoFar
  <2>2. s \in DOMAIN nodes
    BY <1>2
  <2> QED
    BY <2>1, <2>2
<1>4. ASSUME NEW t \in DOMAIN newnodes PROVE OneKey(newnodes[t])
  BY <1>3, EmptyChain DEF TableInv
<1>5. ASSUME NEW t \in DOMAIN newnodes, NEW u \in DOMAIN newnodes,
             Removed(newnodes[t]) \cap Removed(newnodes[u]) # {}
      PROVE  t = u
  <2>1. newnodes[t] # <<>> /\ newnodes[u] # <<>>
    BY <1>5, EmptyChain
  <2>2. PICK r \in DOMAIN nodes : newnodes[t] = nodes[r]
    BY <1>3, <2>1
  <2>3. PICK s \in DOMAIN nodes : newnodes[u] = nodes[s]
    BY <1>3, <2>1
  <2>4. r = s
    BY <1>5, <2>2, <2>3 DEF TableInv, Apart
  <2> QED
    BY <1>1, <2>1, <2>2, <2>3, <2>4 DEF TableInv, CopySoFar
<1>6. pending.data \notin DataIn(newnodes)
  <2> SUFFICES ASSUME NEW t \in DOMAIN newnodes, pending.data \in Removed(newnodes[t])
               PROVE  FALSE
    BY DEF DataIn
  <2>1. newnodes[t] # <<>>
    BY EmptyChain
  <2>2. PICK s \in DOMAIN nodes : newnodes[t] = nodes[s]
    BY <1>3, <2>1
  <2> QED
    BY <1>1, <2>2 DEF TableInv, DataIn
<1> QED
  BY <1>1, <1>4, <1>5, <1>6 DEF TableInv, Apart, CopySoFar

\* What LinkNode does to the chains and to the items in them.
LEMMA LinkedData ==
    ASSUME LifeType, TableInv, LinkNode
    PROVE  /\ pc' = "idle" /\ pending' = NoNode /\ pending \in Node
           /\ \E h \in DOMAIN nodes :
                /\ nodes' = [nodes EXCEPT ![h] = <<pending>> \o nodes[h]]
                /\ OneKey(nodes'[h])
                /\ Removed(nodes'[h]) = {pending.data} \cup Removed(nodes[h])
<1> DEFINE h == Index(pending.key, size)
<1>1. /\ pc = "probe" /\ ~Foreign /\ pc' = "idle" /\ pending' = NoNode
      /\ nodes' = [nodes EXCEPT ![h] = <<pending>> \o nodes[h]]
  BY DEF LinkNode
<1>2. TypeOK /\ pending \in Node /\ pending.key \in Keys /\ size \in Nat \ {0}
      /\ nodes \in [0..(size - 1) -> Seq(Node)]
  <2>1. TypeOK /\ pending \in Node
    BY <1>1 DEF LifeType
  <2> QED
    BY <2>1 DEF TypeOK, Node
<1>3. h \in DOMAIN nodes /\ nodes[h] \in Seq(Node)
  <2>1. h \in 0..(size - 1)
    BY <1>2, IndexInRange
  <2> QED
    BY <1>2, <2>1
<1>4. nodes[h] # <<>> => Head(nodes[h]).key = pending.key
  BY <1>1 DEF Foreign
<1>5. nodes'[h] = <<pending>> \o nodes[h]
  BY <1>1, <1>2, <1>3
<1>6. OneKey(nodes[h])
  BY <1>3 DEF TableInv
<1> HIDE DEF h
<1>7. OneKey(nodes'[h]) /\ Removed(nodes'[h]) = {pending.data} \cup Removed(nodes[h])
  BY <1>2, <1>3, <1>4, <1>5, <1>6, LongerChain
<1> QED
  BY <1>1, <1>2, <1>3, <1>7

LEMMA TableInvLink ==
    ASSUME LifeType, TableInv, LinkNode PROVE TableInv'
<1>1. pc' = "idle" /\ pc = "probe" /\ nodes \in [0..(size - 1) -> Seq(Node)]
  BY DEF LifeType, LinkNode
<1>2. PICK h \in DOMAIN nodes :
        /\ nodes' = [nodes EXCEPT ![h] = <<pending>> \o nodes[h]]
        /\ OneKey(nodes'[h])
        /\ Removed(nodes'[h]) = {pending.data} \cup Removed(nodes[h])
  BY LinkedData
<1>3. DOMAIN nodes' = DOMAIN nodes /\ \A s \in DOMAIN nodes : s # h => nodes'[s] = nodes[s]
  BY <1>1, <1>2
<1>4. \A s \in DOMAIN nodes : pending.data \notin Removed(nodes[s])
  BY <1>1 DEF TableInv, DataIn
<1>5. ASSUME NEW s \in DOMAIN nodes PROVE OneKey(nodes'[s])
  BY <1>2, <1>3 DEF TableInv
<1>6. ASSUME NEW s \in DOMAIN nodes, NEW t \in DOMAIN nodes,
             Removed(nodes'[s]) \cap Removed(nodes'[t]) # {}
      PROVE  s = t
  <2>1. CASE s = h /\ t # h
    BY <1>2, <1>3, <1>4, <1>6, <2>1 DEF TableInv, Apart
  <2>2. CASE s # h /\ t = h
    BY <1>2, <1>3, <1>4, <1>6, <2>2 DEF TableInv, Apart
  <2>3. CASE s # h /\ t # h
    BY <1>3, <1>6, <2>3 DEF TableInv, Apart
  <2> QED
    BY <2>1, <2>2, <2>3
<1> QED
  BY <1>1, <1>3, <1>5, <1>6 DEF TableInv, Apart, CopySoFar

LEMMA TableInvNext == LifeType /\ TableInv /\ [ApiNext]_allVars => TableInv'
<1> SUFFICES ASSUME LifeType, TableInv, [ApiNext]_allVars PROVE TableInv'
  OBVIOUS
<1>1. CASE Recreate
  <2>1. nodes' = EmptySlots(InitSize) /\ pc' = "idle"
    BY <1>1 DEF Recreate
  <2>2. \A s \in DOMAIN nodes' : nodes'[s] = <<>>
    BY <2>1 DEF EmptySlots
  <2> QED
    BY <2>1, <2>2, TableInvFewer
<1>2. CASE InsertStep
  <2>1. CASE StartRehash
    BY <2>1, TableInvAllocate DEF StartRehash
  <2>2. CASE RestartRehash
    BY <2>2, TableInvAllocate DEF RestartRehash
  <2>3. CASE LinkFails
    <3>1. nodes' = nodes /\ pc' = "exit" /\ pending' = pending /\ pc = "probe"
      BY <2>3 DEF LinkFails, tableVars
    <3> QED
      BY <3>1, TableInvNoCopy DEF TableInv
  <2> QED
    BY <1>2, <2>1, <2>2, <2>3, TableInvSkip, TableInvMove, TableInvFinish, TableInvLink
       DEF InsertStep, Step
<1>3. CASE Empty \/ Destroy
  <2>1. nodes' = EmptySlots(0) /\ pc' = "idle"
    BY <1>3 DEF Empty, Destroy, FreeAll, Ready
  <2>2. \A s \in DOMAIN nodes' : nodes'[s] = <<>>
    BY <2>1 DEF EmptySlots
  <2> QED
    BY <2>1, <2>2, TableInvFewer
<1>4. ASSUME NEW k \in Keys, NEW d \in Items, Insert(k, d) PROVE TableInv'
  <2>1. Fresh(d) /\ nodes' = nodes /\ pc' = "probe" /\ pending' = [key |-> k, data |-> d]
    BY <1>4 DEF Insert, InsertCall, tableVars
  <2>2. d \notin DataIn(nodes)
    BY <2>1 DEF Fresh, DataIn, Removed
  <2> QED
    BY <2>1, <2>2, TableInvNoCopy
<1>5. ASSUME NEW k \in Keys, Remove(k) PROVE TableInv'
  <2>1. nodes' = [nodes EXCEPT ![RemovalSlot(k)] = <<>>] /\ pc' = "idle"
    BY <1>5 DEF Remove, Ready
  <2>2. \A s \in DOMAIN nodes' :
           nodes'[s] = <<>> \/ (s \in DOMAIN nodes /\ nodes'[s] = nodes[s])
    BY <2>1
  <2> QED
    BY <2>1, <2>2, TableInvFewer
<1>6. ASSUME NEW k \in Keys, RemoveNode(k) PROVE TableInv'
  BY <1>6, TableInvQuiet DEF RemoveNode, vars, tableVars, rehashVars
<1>7. ASSUME NEW f, NEW g, SetFunctions(f, g) PROVE TableInv'
  BY <1>7, TableInvQuiet DEF SetFunctions, rehashVars
<1>8. CASE UNCHANGED allVars
  BY <1>8, TableInvQuiet DEF allVars, vars, tableVars, rehashVars
<1>9. CASE RecreateFails
  <2>1. size = 0 /\ nodes' = nodes /\ pc' = "exit"
    BY <1>9 DEF RecreateFails, tableVars
  <2>2. DataIn(nodes) = {}
    BY <2>1 DEF DataIn, LifeType
  <2> QED
    BY <2>1, <2>2, TableInvNoCopy
<1> QED
  BY <1>1, <1>2, <1>3, <1>4, <1>5, <1>6, <1>7, <1>8, <1>9 DEF ApiNext

LEMMA TableInvariance == ApiSpec => [](LifeType /\ TableInv)
BY LifeInitType, LifeNextType, TableInvInit, TableInvNext, PTL DEF ApiSpec

\* Whatever hash functions are set on a filled table, and whatever is
\* removed in between, a chain never holds the nodes of two keys.
THEOREM ChainsHoldOneKey == ApiSpec => []OneKeyPerChain
<1>1. TableInv => OneKeyPerChain
  BY DEF TableInv, OneKeyPerChain, OneKey
<1> QED
  BY <1>1, TableInvariance, PTL

-----------------------------------------------------------------------------
(* Each item is freed once.  No size may wrap when it is cast to int: a    *)
(* rehash of such a table stops before it has copied every chain.          *)

LifeSizesFit == size < IntLimit /\ (pc = "rehash" => newsize < IntLimit)

LEMMA LifeSizesNext ==
    ASSUME InitSize < IntLimit, MaxSize < IntLimit, LifeType, LifeSizesFit, [ApiNext]_allVars
    PROVE  LifeSizesFit'
<1>0. InitSize \in Nat /\ MaxSize \in Nat /\ IntLimit \in Nat \ {0}
  BY SizesAssumption
<1>1. ASSUME NEW n \in Nat, AllocateNew(n) PROVE LifeSizesFit'
  <2>1. size' = size /\ (pc' = "rehash" => newsize' = n /\ n <= MaxSize)
    BY <1>1 DEF AllocateNew, tableVars
  <2> QED
    BY <1>0, <2>1, <1>1 DEF LifeSizesFit
<1>2. CASE InsertStep
  <2>1. Step /\ TypeOK
    BY <1>2 DEF InsertStep, LifeType, Step, StartRehash, SkipEmpty, MoveChain,
                RestartRehash, FinishRehash, LinkNode, LinkFails
  <2>2. CASE StartRehash
    BY <1>1, <2>1, <2>2 DEF StartRehash, TypeOK
  <2>3. CASE RestartRehash
    BY <1>1, <2>1, <2>3 DEF RestartRehash, TypeOK
  <2>4. CASE SkipEmpty \/ MoveChain
    BY <2>4 DEF SkipEmpty, MoveChain, LifeSizesFit, tableVars
  <2>5. CASE FinishRehash \/ LinkNode \/ LinkFails
    BY <2>5 DEF FinishRehash, LinkNode, LinkFails, LifeSizesFit, tableVars
  <2> QED
    BY <2>1, <2>2, <2>3, <2>4, <2>5 DEF Step
<1>3. CASE Recreate \/ RecreateFails
  BY <1>3 DEF Recreate, RecreateFails, LifeSizesFit, tableVars
<1>4. CASE Empty \/ Destroy
  BY <1>0, <1>4 DEF Empty, Destroy, FreeAll, Ready, LifeSizesFit
<1>5. CASE \E k \in Keys, d \in Items : Insert(k, d)
  BY <1>5 DEF Insert, InsertCall, tableVars, LifeSizesFit
<1>6. CASE \E k \in Keys : Remove(k) \/ RemoveNode(k)
  BY <1>6 DEF Remove, RemoveNode, vars, tableVars, rehashVars, LifeSizesFit
<1>7. ASSUME NEW f, NEW g, SetFunctions(f, g) PROVE LifeSizesFit'
  BY <1>7 DEF SetFunctions, rehashVars, LifeSizesFit
<1>8. CASE UNCHANGED allVars
  BY <1>8 DEF allVars, vars, tableVars, rehashVars, LifeSizesFit
<1> QED
  BY <1>2, <1>3, <1>4, <1>5, <1>6, <1>7, <1>8 DEF ApiNext

\* The items in the table, and with them the one whose insertion is running.
HeldIs == Held = DataIn(nodes) \cup (IF pending = NoNode THEN {} ELSE {pending.data})

LEMMA HeldItems == LifeType => HeldIs
<1> SUFFICES ASSUME LifeType PROVE HeldIs
  OBVIOUS
<1>1. ASSUME NEW s \in DOMAIN nodes PROVE Removed(nodes[s]) \subseteq Items
  <2>1. nodes[s] \in Seq(Node)
    BY DEF LifeType
  <2> QED
    BY <2>1, ChainData
<1>2. DataIn(nodes) \subseteq Items
  BY <1>1 DEF DataIn
<1>3. {d \in Items : ~Fresh(d)} = DataIn(nodes)
  BY <1>2 DEF Fresh, DataIn, Removed
<1> QED
  BY <1>3 DEF Held, HeldIs

LEMMA HeldItemsNext == LifeType' => HeldIs'
BY HeldItems, PTL

\* Only what was inserted is held, and only what is no longer held is freed.
FreedInv ==
    dangling # "slot" =>
        /\ Held \subseteq stored
        /\ \A d \in Items : Len(freed[d]) = IF d \in stored \ Held THEN 1 ELSE 0

LEMMA FreedInit == LifeInit => FreedInv
<1> SUFFICES ASSUME LifeInit PROVE FreedInv
  OBVIOUS
<1>1. LifeType /\ pending = NoNode /\ nodes = EmptySlots(InitSize)
  BY LifeInitType DEF LifeInit, Init
<1>2. DataIn(nodes) = {}
  BY <1>1, EmptyChain DEF DataIn, EmptySlots
<1>3. Held = {}
  BY <1>1, <1>2, HeldItems DEF HeldIs
<1> QED
  BY <1>3 DEF LifeInit, FreedInv

\* Freeing what is dropped from the table, and nothing else.
LEMMA FreedDrop ==
    ASSUME LifeType, FreedInv, LifeType', dangling # "slot", pending = NoNode,
           NEW S, Free(S), S \subseteq DataIn(nodes), DataIn(nodes)' = DataIn(nodes) \ S,
           UNCHANGED <<pending, stored>>
    PROVE  FreedInv'
<1>1. Held = DataIn(nodes)
  BY HeldItems DEF HeldIs
<1>2. Held' = DataIn(nodes) \ S
  BY HeldItemsNext DEF HeldIs
<1>3. ASSUME NEW d \in Items
      PROVE  Len(freed'[d]) = IF d \in stored \ (DataIn(nodes) \ S) THEN 1 ELSE 0
  <2>1. freed[d] \in Seq(FreeFuncs)
    BY DEF LifeType
  <2>2. freed'[d] = IF d \in S THEN Append(freed[d], freefunc) ELSE freed[d]
    BY DEF Free
  <2>3. Len(freed[d]) = IF d \in stored \ DataIn(nodes) THEN 1 ELSE 0
    BY <1>1 DEF FreedInv
  <2>4. DataIn(nodes) \subseteq stored
    BY <1>1 DEF FreedInv
  <2>5. CASE d \in S
    BY <2>1, <2>2, <2>3, <2>4, <2>5
  <2>6. CASE d \notin S
    BY <2>2, <2>3, <2>6
  <2> QED
    BY <2>5, <2>6
<1>4. Held' \subseteq stored'
  BY <1>1, <1>2 DEF FreedInv
<1>5. \A d \in Items : Len(freed'[d]) = IF d \in stored' \ Held' THEN 1 ELSE 0
  BY <1>2, <1>3
<1> QED
  BY <1>4, <1>5 DEF FreedInv

\* Steps that move items, but free none and lose none.
LEMMA FreedKept ==
    ASSUME FreedInv, Held' = Held, UNCHANGED <<stored, freed, dangling>> PROVE FreedInv'
BY DEF FreedInv

\* A rehash that has come to the end of the table has copied every chain.
LEMMA FinishKeepsItems ==
    ASSUME LifeType, TableInv, LifeSizesFit, FinishRehash
    PROVE  DataIn(nodes)' = DataIn(nodes)
<1>1. /\ nodes' = newnodes /\ pc = "rehash" /\ i >= AsInt(size)
      /\ i \in 0..size /\ size \in Nat /\ DOMAIN nodes = 0..(size - 1)
  BY DEF FinishRehash, LifeType, TypeOK
<1>2. AsInt(size) = size
  BY <1>1, CastToInt DEF LifeSizesFit
<1>3. 0..(i - 1) = DOMAIN nodes
  BY <1>1, <1>2
<1>4. DataIn(newnodes) \subseteq DataIn(nodes)
  <2> SUFFICES ASSUME NEW t \in DOMAIN newnodes, NEW d \in Removed(newnodes[t])
               PROVE  d \in DataIn(nodes)
    BY DEF DataIn
  <2>1. newnodes[t] # <<>>
    BY EmptyChain
  <2>2. PICK s \in DOMAIN nodes : newnodes[t] = nodes[s]
    BY <1>1, <1>3, <2>1 DEF TableInv, CopySoFar
  <2> QED
    BY <2>2 DEF DataIn
<1>5. DataIn(nodes) \subseteq DataIn(newnodes)
  <2> SUFFICES ASSUME NEW s \in DOMAIN nodes, NEW d \in Removed(nodes[s])
               PROVE  d \in DataIn(newnodes)
    BY DEF DataIn
  <2>1. nodes[s] # <<>>
    BY EmptyChain
  <2>2. PICK t \in DOMAIN newnodes : newnodes[t] = nodes[s]
    BY <1>1, <1>3, <2>1 DEF TableInv, CopySoFar
  <2> QED
    BY <2>2 DEF DataIn
<1> QED
  BY <1>1, <1>4, <1>5

LEMMA LinkKeepsHeld ==
    ASSUME LifeType, LifeType', TableInv, LinkNode PROVE Held' = Held
<1>1. /\ pc' = "idle" /\ pending' = NoNode /\ pending \in Node
      /\ nodes \in [0..(size - 1) -> Seq(Node)]
  BY LinkedData DEF LifeType
<1>2. PICK h \in DOMAIN nodes :
        /\ nodes' = [nodes EXCEPT ![h] = <<pending>> \o nodes[h]]
        /\ Removed(nodes'[h]) = {pending.data} \cup Removed(nodes[h])
  BY LinkedData
<1>3. DOMAIN nodes' = DOMAIN nodes /\ \A s \in DOMAIN nodes : s # h => nodes'[s] = nodes[s]
  BY <1>1, <1>2
<1>4. DataIn(nodes)' = DataIn(nodes) \cup {pending.data}
  <2>1. \A d : (\E s \in DOMAIN nodes : d \in Removed(nodes'[s])) <=>
               (\E s \in DOMAIN nodes : d \in Removed(nodes[s])) \/ d = pending.data
    BY <1>2, <1>3
  <2>2. \A d : d \in DataIn(nodes)' <=> \E s \in DOMAIN nodes : d \in Removed(nodes'[s])
    BY <1>3 DEF DataIn
  <2>3. \A d : d \in DataIn(nodes) <=> \E s \in DOMAIN nodes : d \in Removed(nodes[s])
    BY DEF DataIn
  <2> QED
    BY <2>1, <2>2, <2>3
<1>5. Held' = DataIn(nodes)'
  BY <1>1, HeldItemsNext DEF HeldIs
<1>6. Held = DataIn(nodes) \cup {pending.data}
  <2>1. pending # NoNode
    <3>1. DOMAIN pending = {"key", "data"}
      BY <1>1 DEF Node
    <3>2. DOMAIN <<>> = {}
      OBVIOUS
    <3> QED
      BY <3>1, <3>2 DEF NoNode
  <2> QED
    BY <2>1, HeldItems DEF HeldIs
<1> QED
  BY <1>4, <1>5, <1>6

LEMMA FreedNext ==
    ASSUME LifeType, TableInv, LifeSizesFit, FreedInv, LifeType', [ApiNext]_allVars
    PROVE  FreedInv'
<1>0. /\ Held = DataIn(nodes) \cup (IF pending = NoNode THEN {} ELSE {pending.data})
      /\ Held' = DataIn(nodes)' \cup (IF pending' = NoNode THEN {} ELSE {pending'.data})
  BY HeldItems, HeldItemsNext DEF HeldIs
<1>1. CASE Recreate
  <2>1. size = 0 /\ nodes' = EmptySlots(InitSize) /\ UNCHANGED <<pending, stored, freed, dangling>>
    BY <1>1 DEF Recreate
  <2>2. DataIn(nodes) = {}
    BY <2>1 DEF DataIn, LifeType
  <2>3. DataIn(nodes)' = {}
    BY <2>1, EmptyChain DEF DataIn, EmptySlots
  <2>4. Held' = Held
    BY <1>0, <2>1, <2>2, <2>3
  <2> QED
    BY <2>1, <2>4, FreedKept
<1>2. CASE InsertStep
  <2>1. Step /\ UNCHANGED <<stored, freed, dangling>>
    BY <1>2 DEF InsertStep, lifeVars
  <2>2. CASE FinishRehash
    <3>1. pending' = pending
      BY <2>2 DEF FinishRehash
    <3> QED
      BY <1>0, <2>1, <2>2, <3>1, FinishKeepsItems, FreedKept
  <2>3. CASE LinkNode
    BY <2>1, <2>3, LinkKeepsHeld, FreedKept
  <2>4. CASE ~FinishRehash /\ ~LinkNode
    <3>1. nodes' = nodes /\ pending' = pending
      BY <2>1, <2>4 DEF Step, StartRehash, SkipEmpty, MoveChain, RestartRehash, LinkFails,
                        AllocateNew, tableVars
    <3> QED
      BY <1>0, <2>1, <3>1, FreedKept
  <2> QED
    BY <2>2, <2>3, <2>4
<1>3. CASE Empty \/ Destroy
  <2>1. /\ Free(DataIn(nodes)) /\ nodes' = EmptySlots(0) /\ dangling # "slot"
        /\ pc = "idle" /\ UNCHANGED <<pending, stored>>
    BY <1>3 DEF Empty, Destroy, FreeAll, Ready, DataIn
  <2>2. DataIn(nodes)' = DataIn(nodes) \ DataIn(nodes) /\ pending = NoNode
    BY <2>1, EmptyArray DEF LifeType
  <2> QED
    BY <2>1, <2>2, FreedDrop
<1>4. ASSUME NEW k \in Keys, NEW d \in Items, Insert(k, d) PROVE FreedInv'
  <2>1. /\ pc = "idle" /\ d \notin stored /\ dangling # "slot"
        /\ nodes' = nodes /\ pending' = [key |-> k, data |-> d]
        /\ stored' = stored \cup {d} /\ freed' = freed
    BY <1>4 DEF Insert, InsertCall, tableVars, Ready
  <2>2. pending = NoNode /\ pending' # NoNode
    BY <2>1 DEF LifeType, NoNode
  <2>3. Held' = Held \cup {d}
    BY <1>0, <2>1, <2>2
  <2>4. Held \subseteq stored /\ \A e \in Items : Len(freed[e]) = IF e \in stored \ Held THEN 1 ELSE 0
    BY <2>1 DEF FreedInv
  <2>5. stored' \ Held' = stored \ Held
    BY <2>1, <2>3
  <2> QED
    BY <2>1, <2>3, <2>4, <2>5 DEF FreedInv
<1>5. ASSUME NEW k \in Keys, Remove(k) PROVE FreedInv'
  <2> DEFINE h == RemovalSlot(k)
             S == Removed(nodes[h])
  <2>1. /\ Free(S) /\ nodes' = [nodes EXCEPT ![h] = <<>>] /\ dangling # "slot"
        /\ pc = "idle" /\ size # 0 /\ UNCHANGED <<pending, stored>>
    BY <1>5 DEF Remove, Ready
  <2>2. TypeOK /\ size \in Nat \ {0} /\ pending = NoNode
        /\ nodes \in [0..(size - 1) -> Seq(Node)]
    BY <2>1 DEF LifeType
  <2>3. h \in DOMAIN nodes
    BY <2>2, IndexInRange DEF RemovalSlot
  <2> HIDE DEF h
  <2>4. /\ DOMAIN nodes' = DOMAIN nodes /\ nodes'[h] = <<>>
        /\ \A s \in DOMAIN nodes : s # h => nodes'[s] = nodes[s]
    BY <2>1, <2>2, <2>3
  <2>5. S \subseteq DataIn(nodes)
    BY <2>3 DEF DataIn
  <2>6. DataIn(nodes)' = DataIn(nodes) \ S
    <3>1. \A s \in DOMAIN nodes : s # h => Removed(nodes[s]) \cap S = {}
      BY <2>3 DEF TableInv, Apart
    <3>2. \A e : (\E s \in DOMAIN nodes : e \in Removed(nodes'[s])) <=>
                 (\E s \in DOMAIN nodes : e \in Removed(nodes[s])) /\ e \notin S
      BY <2>3, <2>4, <3>1, EmptyChain
    <3>3. \A e : e \in DataIn(nodes)' <=> \E s \in DOMAIN nodes : e \in Removed(nodes'[s])
      BY <2>4 DEF DataIn
    <3>4. \A e : e \in DataIn(nodes) <=> \E s \in DOMAIN nodes : e \in Removed(nodes[s])
      BY DEF DataIn
    <3> QED
      BY <3>2, <3>3, <3>4
  <2> QED
    BY <2>1, <2>2, <2>5, <2>6, FreedDrop
<1>6. ASSUME NEW k \in Keys, RemoveNode(k) PROVE FreedInv'
  BY <1>6 DEF RemoveNode, FreedInv
<1>7. ASSUME NEW f, NEW g, SetFunctions(f, g) PROVE FreedInv'
  <2>1. UNCHANGED <<nodes, pending, stored, freed, dangling>>
    BY <1>7 DEF SetFunctions
  <2> QED
    BY <1>0, <2>1, FreedKept
<1>8. CASE UNCHANGED allVars
  <2>1. UNCHANGED <<nodes, pending, stored, freed, dangling>>
    BY <1>8 DEF allVars, vars, tableVars, lifeVars
  <2> QED
    BY <1>0, <2>1, FreedKept
<1>9. CASE RecreateFails
  <2>1. UNCHANGED <<nodes, pending, stored, freed, dangling>>
    BY <1>9 DEF RecreateFails, tableVars, lifeVars
  <2> QED
    BY <1>0, <2>1, FreedKept
<1> QED
  BY <1>1, <1>2, <1>3, <1>4, <1>5, <1>6, <1>7, <1>8, <1>9 DEF ApiNext

\* Every item inserted is in the table or has been freed, and that once,
\* after any sequence of calls: removals, rehashes, emptying and destroying
\* leak nothing and free nothing twice, unless remove_hash_node was called.
THEOREM EachItemFreedOnce ==
    ASSUME InitSize < IntLimit, MaxSize < IntLimit
    PROVE  ApiSpec => []ItemsFreedOnce
<1>1. LifeInit => LifeSizesFit
  BY SizesAssumption DEF LifeInit, Init, LifeSizesFit
<1>2. LifeType /\ LifeSizesFit /\ [ApiNext]_allVars => LifeSizesFit'
  BY LifeSizesNext
<1>3. LifeType /\ TableInv /\ LifeSizesFit /\ FreedInv /\ [ApiNext]_allVars => FreedInv'
  BY LifeNextType, FreedNext
<1>4. LifeType /\ FreedInv => ItemsFreedOnce
  BY DEF LifeType, FreedInv, ItemsFreedOnce
<1> QED
  BY <1>1, <1>2, <1>3, <1>4, LifeInitType, LifeNextType, TableInvInit, TableInvNext, FreedInit,
     PTL DEF ApiSpec

-----------------------------------------------------------------------------
(* What single calls do.                                                   *)

\* Each table that get_hash_table makes anew has the old one's functions.
LEMMA AskedIsSet == ApiSpec => [](freefunc = asked)
<1>1. LifeInit => freefunc = asked
  BY DEF LifeInit
<1>2. freefunc = asked /\ [ApiNext]_allVars => (freefunc = asked)'
  <2> SUFFICES ASSUME freefunc = asked, [ApiNext]_allVars PROVE freefunc' = asked'
    OBVIOUS
  <2>1. CASE Recreate \/ RecreateFails
    BY <2>1 DEF Recreate, RecreateFails, RecreatedFunc, lifeVars
  <2>2. CASE InsertStep \/ UNCHANGED allVars
    BY <2>2 DEF InsertStep, allVars, lifeVars
  <2>3. CASE Empty \/ Destroy
    BY <2>3 DEF Empty, Destroy, FreeAll
  <2>4. CASE \E k \in Keys, d \in Items : Insert(k, d)
    BY <2>4 DEF Insert
  <2>5. CASE \E k \in Keys : Remove(k) \/ RemoveNode(k)
    BY <2>5 DEF Remove, RemoveNode
  <2>6. ASSUME NEW f, NEW g, SetFunctions(f, g) PROVE freefunc' = asked'
    BY <2>6 DEF SetFunctions
  <2> QED
    BY <2>1, <2>2, <2>3, <2>4, <2>5, <2>6 DEF ApiNext
<1> QED
  BY <1>1, <1>2, PTL DEF ApiSpec

\* An item is freed with the function the program set last, in whichever of
\* the tables made since it lies.
THEOREM FreedWithAskedFunc == ApiSpec => FreedAsAsked
<1> DEFINE A == \A d \in Items : freed'[d] # freed[d] => freed'[d][Len(freed'[d])] = asked
<1>1. ASSUME LifeType, freefunc = asked, NEW S, Free(S) PROVE A
  <2> SUFFICES ASSUME NEW d \in Items, freed'[d] # freed[d]
               PROVE  freed'[d][Len(freed'[d])] = asked
    OBVIOUS
  <2>1. freed[d] \in Seq(FreeFuncs) /\ freed'[d] = Append(freed[d], freefunc)
    BY <1>1 DEF LifeType, Free
  <2> QED
    BY <1>1, <2>1
<1>2. LifeType /\ freefunc = asked /\ [ApiNext]_allVars => [A]_allVars
  <2> SUFFICES ASSUME LifeType, freefunc = asked, [ApiNext]_allVars PROVE A
    OBVIOUS
  <2>1. CASE freed' = freed
    BY <2>1
  <2>2. CASE freed' # freed
    <3>1. \E S : Free(S)
      BY <2>2 DEF ApiNext, Recreate, RecreateFails, InsertStep, Empty, Destroy, FreeAll,
                  Insert, Remove, RemoveNode, SetFunctions, allVars, lifeVars
    <3> QED
      BY <1>1, <3>1
  <2> QED
    BY <2>1, <2>2
<1> QED
  BY <1>2, AskedIsSet, TableInvariance, PTL DEF ApiSpec, FreedAsAsked

\* Removing a stored key leaves every other key's chain as it was, whatever
\* the table's size: hashtbl_remove and hashtbl_get look at one slot.
THEOREM RemovalsArePrivate == ApiSpec => RemovalIsPrivate
<1> DEFINE A == Ready => \A k \in Keys : Get(k) # <<>> /\ Remove(k) =>
                             \A o \in Keys \ {k} : Get(o)' = Get(o)
<1>1. LifeType => A
  <2> SUFFICES ASSUME LifeType, Ready, NEW k \in Keys, Get(k) # <<>>, Remove(k),
                      NEW o \in Keys \ {k}
               PROVE  Get(o)' = Get(o)
    OBVIOUS
  <2>1. /\ size \in Nat \ {0} /\ TypeOK /\ nodes \in [0..(size - 1) -> Seq(Node)]
        /\ UNCHANGED <<size, hashfunc>>
        /\ nodes' = [nodes EXCEPT ![Index(k, size)] = <<>>]
    BY DEF Ready, LifeType, Remove, RemovalSlot
  <2>2. Index(k, size) \in DOMAIN nodes /\ Index(o, size) \in DOMAIN nodes
    BY <2>1, IndexInRange
  <2>3. Head(nodes[Index(k, size)]).key = k
    BY DEF Get
  <2>4. Index(o, size)' = Index(o, size)
    BY <2>1 DEF Index
  <2>5. CASE Index(o, size) = Index(k, size)
    <3>1. nodes'[Index(o, size)] = <<>>
      BY <2>1, <2>2, <2>5
    <3> QED
      BY <2>1, <2>3, <2>4, <2>5, <3>1 DEF Get
  <2>6. CASE Index(o, size) # Index(k, size)
    <3>1. nodes'[Index(o, size)] = nodes[Index(o, size)]
      BY <2>1, <2>2, <2>6
    <3> QED
      BY <2>1, <2>4, <3>1 DEF Get
  <2> QED
    BY <2>5, <2>6
<1> QED
  BY <1>1, TableInvariance, PTL DEF RemovalIsPrivate

-----------------------------------------------------------------------------
(* An insertion comes to its end: what is left of it is a number, and each *)
(* turn of its loops lowers it.                                            *)

\* No array has more slots than there is memory for, save the first.
Widest == IF InitSize > MaxSize THEN InitSize ELSE MaxSize
WithinMemory == size <= Widest /\ (pc = "rehash" => newsize <= Widest)

\* Room for longer arrays, and the turns of the copying loop.
Width == IF pc = "rehash" THEN newsize ELSE size
Turns == IF pc = "rehash" THEN 2 + (size - i) ELSE 1
ToDo  == IF pc \in {"probe", "rehash"} THEN (Widest - Width) * (Widest + 3) + Turns ELSE 0

LEMMA ProductGrows ==
    ASSUME NEW a \in Nat, NEW b \in Nat, NEW k \in Nat, a < b
    PROVE  a * k \in Nat /\ b * k \in Nat /\ a * k + k <= b * k
<1> DEFINE d == b - a - 1
<1>1. d \in Nat /\ b = (a + 1) + d
  OBVIOUS
<1> HIDE DEF d
<1>2. b * k = (a * k + k) + d * k
  BY <1>1
<1>3. d * k \in Nat /\ a * k \in Nat
  BY <1>1
<1> QED
  BY <1>2, <1>3

LEMMA FurtherOn ==
    ASSUME NEW a \in Nat, NEW b \in Nat, NEW k \in Nat, NEW r \in Nat, NEW s \in Nat,
           a < b, r < k
    PROVE  a * k + r < b * k + s
<1> DEFINE x == a * k
           y == b * k
<1>1. x \in Nat /\ y \in Nat /\ x + k <= y
  BY ProductGrows
<1> HIDE DEF x, y
<1>2. x + r < y + s
  BY <1>1
<1> QED
  BY <1>2 DEF x, y

LEMMA WidestTypes == Widest \in Nat /\ InitSize <= Widest /\ MaxSize <= Widest
BY SizesAssumption DEF Widest

LEMMA WithinMemoryInit == Init => WithinMemory
BY WidestTypes DEF Init, WithinMemory

LEMMA AllocateWithin ==
    ASSUME WithinMemory, NEW n \in Nat, AllocateNew(n) PROVE WithinMemory'
<1>1. size' = size /\ newsize' = n
  BY DEF AllocateNew, tableVars
<1>2. CASE n <= MaxSize
  BY <1>1, <1>2, SizesAssumption, WidestTypes DEF WithinMemory, Widest
<1>3. CASE ~(n <= MaxSize)
  BY <1>1, <1>3 DEF WithinMemory, AllocateNew, Widest
<1> QED
  BY <1>2, <1>3

LEMMA StepWithin ==
    ASSUME TypeOK, WithinMemory, Step PROVE WithinMemory'
<1>1. CASE StartRehash
  <2>1. 2 * size \in Nat /\ AllocateNew(2 * size)
    BY <1>1 DEF StartRehash, TypeOK
  <2> QED
    BY <2>1, AllocateWithin
<1>2. CASE RestartRehash
  <2>1. 2 * newsize \in Nat /\ AllocateNew(2 * newsize)
    BY <1>2 DEF RestartRehash, TypeOK
  <2> QED
    BY <2>1, AllocateWithin
<1>3. CASE SkipEmpty \/ MoveChain
  BY <1>3 DEF SkipEmpty, MoveChain, WithinMemory, tableVars, Widest
<1>4. CASE FinishRehash
  BY <1>4 DEF FinishRehash, WithinMemory, Widest
<1>5. CASE LinkNode \/ LinkFails
  BY <1>5 DEF LinkNode, LinkFails, WithinMemory, Widest, tableVars
<1> QED
  BY <1>1, <1>2, <1>3, <1>4, <1>5 DEF Step

\* In the middle of an insertion.
LEMMA ToDoTypes ==
    ASSUME TypeOK, WithinMemory, pc \in {"probe", "rehash"}
    PROVE  /\ Widest - Width \in Nat /\ Turns \in Nat /\ Turns >= 1 /\ Widest + 3 \in Nat
           /\ (Widest - Width) * (Widest + 3) \in Nat
           /\ ToDo = (Widest - Width) * (Widest + 3) + Turns
<1>1. Widest - Width \in Nat /\ Widest + 3 \in Nat
  BY WidestTypes DEF TypeOK, WithinMemory, Width
<1>2. Turns \in Nat /\ Turns >= 1
  BY DEF TypeOK, Turns
<1>3. (Widest - Width) * (Widest + 3) \in Nat
  <2> DEFINE x == Widest - Width
             k == Widest + 3
  <2>1. x \in Nat /\ k \in Nat
    BY <1>1
  <2> HIDE DEF x, k
  <2>2. x * k \in Nat
    BY <2>1
  <2> QED
    BY <2>2 DEF x, k
<1> QED
  BY <1>1, <1>2, <1>3 DEF ToDo

LEMMA ToDoIsNat == TypeOK /\ WithinMemory => ToDo \in Nat
<1> SUFFICES ASSUME TypeOK, WithinMemory PROVE ToDo \in Nat
  OBVIOUS
<1>1. CASE pc \in {"probe", "rehash"}
  <2> DEFINE y == (Widest - Width) * (Widest + 3)
  <2>1. y \in Nat /\ Turns \in Nat /\ ToDo = y + Turns
    BY <1>1, ToDoTypes
  <2> HIDE DEF y
  <2> QED
    BY <2>1
<1>2. CASE pc \notin {"probe", "rehash"}
  BY <1>2 DEF ToDo
<1> QED
  BY <1>1, <1>2

\* With the width as it is, fewer turns are left.
LEMMA FewerTurns ==
    ASSUME TypeOK, WithinMemory, pc \in {"probe", "rehash"}, pc' \in {"probe", "rehash"},
           Width' = Width, Turns' \in Nat, Turns' < Turns
    PROVE  ToDo' < ToDo
<1> DEFINE y == (Widest - Width) * (Widest + 3)
           m == Turns
           n == Turns'
<1>1. y \in Nat /\ m \in Nat /\ ToDo = y + m /\ n \in Nat /\ n < m
  BY ToDoTypes
<1>2. ToDo' = y + n
  BY DEF ToDo, Widest
<1> HIDE DEF y, m, n
<1> QED
  BY <1>1, <1>2

\* A longer array is allocated, or the process exits.
LEMMA LongerArray ==
    ASSUME TypeOK, WithinMemory, pc \in {"probe", "rehash"},
           NEW n \in Nat, Width < n, AllocateNew(n)
    PROVE  ToDo' < ToDo
<1> DEFINE k == Widest + 3
           b == Widest - Width
<1>1. /\ k \in Nat /\ b \in Nat /\ Turns \in Nat /\ Turns >= 1 /\ b * k \in Nat
      /\ ToDo = b * k + Turns
  BY ToDoTypes
<1>2. size \in Nat /\ size <= Widest /\ Widest \in Nat /\ MaxSize <= Widest
  BY WidestTypes DEF TypeOK, WithinMemory
<1>3. CASE n <= MaxSize
  <2> DEFINE a == Widest - n
             r == 2 + size
  <2>1. pc' = "rehash" /\ newsize' = n /\ size' = size /\ i' = 0
    BY <1>3 DEF AllocateNew, tableVars
  <2>2. Width' = n /\ Turns' = r /\ Widest' = Widest
    BY <1>2, <2>1 DEF Width, Turns, Widest
  <2>3. ToDo' = a * k + r
    BY <2>1, <2>2 DEF ToDo
  <2>4. a \in Nat /\ r \in Nat /\ r < k /\ a < b
    <3>1. n <= Widest
      BY <1>2, <1>3, SizesAssumption
    <3>2. Width \in Int
      BY DEF TypeOK, Width
    <3> QED
      BY <1>2, <3>1, <3>2
  <2> HIDE DEF a, b, k, r
  <2> QED
    BY <1>1, <2>3, <2>4, FurtherOn
<1>4. CASE ~(n <= MaxSize)
  <2>1. ToDo' = 0
    BY <1>4 DEF AllocateNew, ToDo
  <2> DEFINE y == b * k
  <2>2. y \in Nat /\ Turns \in Nat /\ Turns >= 1 /\ ToDo = y + Turns
    BY <1>1
  <2> HIDE DEF y
  <2>3. ToDo >= 1
    BY <2>2
  <2> QED
    BY <2>1, <2>2, <2>3
<1> QED
  BY <1>3, <1>4

LEMMA StepAdvances ==
    ASSUME TypeOK, WithinMemory, Step PROVE ToDo' < ToDo
<1>1. CASE StartRehash
  <2>1. pc = "probe" /\ 2 * size \in Nat /\ size < 2 * size /\ AllocateNew(2 * size)
    BY <1>1 DEF StartRehash, TypeOK
  <2>2. Width = size
    BY <2>1 DEF Width
  <2> DEFINE n == 2 * size
  <2>3. pc \in {"probe", "rehash"} /\ n \in Nat /\ Width < n /\ AllocateNew(n)
    BY <2>1, <2>2
  <2> HIDE DEF n
  <2> QED
    BY <2>3, LongerArray
<1>2. CASE RestartRehash
  <2>1. pc = "rehash" /\ 2 * newsize \in Nat /\ newsize < 2 * newsize /\ AllocateNew(2 * newsize)
    BY <1>2 DEF RestartRehash, TypeOK
  <2>2. Width = newsize
    BY <2>1 DEF Width
  <2> DEFINE n == 2 * newsize
  <2>3. pc \in {"probe", "rehash"} /\ n \in Nat /\ Width < n /\ AllocateNew(n)
    BY <2>1, <2>2
  <2> HIDE DEF n
  <2> QED
    BY <2>3, LongerArray
<1>3. CASE SkipEmpty \/ MoveChain
  <2>1. /\ pc = "rehash" /\ pc' = "rehash" /\ size' = size /\ newsize' = newsize /\ i' = i + 1
        /\ i < AsInt(size)
    BY <1>3 DEF SkipEmpty, MoveChain, tableVars
  <2>2. size \in Nat /\ i \in Nat /\ i < size
    <3>1. size \in Nat /\ i \in Nat
      BY <2>1 DEF TypeOK
    <3>2. AsInt(size) \in Int /\ AsInt(size) <= size
      BY <3>1, CastToInt
    <3> QED
      BY <2>1, <3>1, <3>2
  <2>3. Turns' \in Nat /\ Turns' < Turns
    BY <2>1, <2>2 DEF Turns
  <2>4. Width' = Width
    BY <2>1 DEF Width
  <2> QED
    BY <2>1, <2>3, <2>4, FewerTurns
<1>4. CASE FinishRehash
  <2>1. pc = "rehash" /\ pc' = "probe" /\ size' = newsize
    BY <1>4 DEF FinishRehash
  <2>2. Width' = Width /\ Turns' = 1
    BY <2>1 DEF Width, Turns
  <2>3. Turns = 2 + (size - i) /\ size \in Nat /\ i \in 0..size
    BY <2>1 DEF Turns, TypeOK
  <2> QED
    BY <2>1, <2>2, <2>3, FewerTurns
<1>5. CASE LinkNode \/ LinkFails
  <2>1. pc = "probe" /\ ToDo' = 0
    BY <1>5 DEF LinkNode, LinkFails, ToDo
  <2> DEFINE y == (Widest - Width) * (Widest + 3)
  <2>2. y \in Nat /\ Turns \in Nat /\ Turns >= 1 /\ ToDo = y + Turns
    BY <2>1, ToDoTypes
  <2> HIDE DEF y
  <2> QED
    BY <2>1, <2>2
<1> QED
  BY <1>1, <1>2, <1>3, <1>4, <1>5 DEF Step

\* Every turn of the loops of hashtbl_insert and hashtbl_rehash brings the
\* call closer to its end: the doubling cannot go on for ever, whatever the
\* keys hash to.
THEOREM EveryTurnInserts ==
    Spec => [](ToDo \in Nat) /\ [][Step => ToDo' < ToDo]_vars
<1>1. TypeOK /\ WithinMemory /\ [Next]_vars => WithinMemory'
  <2> SUFFICES ASSUME TypeOK, WithinMemory, [Next]_vars PROVE WithinMemory'
    OBVIOUS
  <2>1. CASE Step
    BY <2>1, StepWithin
  <2>2. ASSUME NEW k \in Keys, NEW d \in Items, InsertCall(k, d) PROVE WithinMemory'
    BY <2>2 DEF InsertCall, WithinMemory, tableVars, Widest
  <2>3. CASE UNCHANGED vars
    BY <2>3 DEF vars, tableVars, rehashVars, WithinMemory, Widest
  <2> QED
    BY <2>1, <2>2, <2>3 DEF Next
<1>2. Spec => []WithinMemory
  BY <1>1, TypeCorrect, WithinMemoryInit, PTL DEF Spec
<1>3. TypeOK /\ WithinMemory /\ [Next]_vars => [Step => ToDo' < ToDo]_vars
  BY StepAdvances
<1> QED
  BY <1>2, <1>3, TypeCorrect, ToDoIsNat, PTL DEF Spec

\* The same over all calls of the interface: it holds also where the hash
\* function has been exchanged and hashtbl_rehash starts over.
THEOREM EveryTurnInsertsStill ==
    ApiSpec => [][Step => ToDo \in Nat /\ ToDo' < ToDo]_allVars
<1>1. LifeType /\ Step => TypeOK
  BY DEF LifeType, Step, StartRehash, SkipEmpty, MoveChain, RestartRehash,
         FinishRehash, LinkNode, LinkFails
<1>2. LifeType /\ WithinMemory /\ [ApiNext]_allVars => WithinMemory'
  <2> SUFFICES ASSUME LifeType, WithinMemory, [ApiNext]_allVars PROVE WithinMemory'
    OBVIOUS
  <2>1. CASE InsertStep
    BY <1>1, <2>1, StepWithin DEF InsertStep
  <2>2. ASSUME NEW k \in Keys, NEW d \in Items, Insert(k, d) PROVE WithinMemory'
    BY <2>2 DEF Insert, InsertCall, WithinMemory, tableVars, Widest
  <2>3. CASE Recreate \/ RecreateFails
    BY <2>3, WidestTypes DEF Recreate, RecreateFails, WithinMemory, Widest, tableVars
  <2>4. CASE Empty \/ Destroy
    <3>1. size' = 0 /\ pc' = "idle"
      BY <2>4 DEF Empty, Destroy, FreeAll, Ready
    <3> QED
      BY <3>1, WidestTypes DEF WithinMemory, Widest
  <2>5. ASSUME NEW k \in Keys, Remove(k) \/ RemoveNode(k) PROVE WithinMemory'
    BY <2>5 DEF Remove, RemoveNode, WithinMemory, rehashVars, tableVars, vars, Widest
  <2>6. ASSUME NEW f, NEW g, SetFunctions(f, g) PROVE WithinMemory'
    BY <2>6 DEF SetFunctions, WithinMemory, rehashVars, Widest
  <2>7. CASE UNCHANGED allVars
    BY <2>7 DEF allVars, vars, tableVars, rehashVars, WithinMemory, Widest
  <2> QED
    BY <2>1, <2>2, <2>3, <2>4, <2>5, <2>6, <2>7 DEF ApiNext
<1>3. LifeInit => WithinMemory
  BY WithinMemoryInit DEF LifeInit
<1>4. ApiSpec => []WithinMemory
  BY <1>2, <1>3, TableInvariance, PTL DEF ApiSpec
<1>5. LifeType /\ WithinMemory => [Step => ToDo \in Nat /\ ToDo' < ToDo]_allVars
  BY <1>1, StepAdvances, ToDoIsNat
<1> QED
  BY <1>4, <1>5, TableInvariance, PTL DEF ApiSpec
=============================================================================
