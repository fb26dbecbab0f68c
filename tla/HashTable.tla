----------------------------- MODULE HashTable ------------------------------
(***************************************************************************)
(* The hash table of lib/hash.c.  A slot holds the chain of ONE key: two   *)
(* different keys never share a slot, and an insertion that meets a        *)
(* foreign chain doubles the table, again and again, until every stored    *)
(* chain and the new key have slots of their own.  One action is one       *)
(* iteration of a loop of hashtbl_insert or hashtbl_rehash.                *)
(***************************************************************************)
EXTENDS Integers, Sequences

CONSTANTS Keys,        \* flow keys
          Items,       \* data pointers, each from a fresh allocation
          HashValues,  \* what a hash function can return
          InitSize,    \* DEFAULT_HASH_SIZE
          MaxSize,     \* the largest slot array calloc can still serve
          IntLimit     \* 2^31: casts to int wrap from here on

ASSUME SizesAssumption == /\ InitSize \in Nat \ {0}
                          /\ MaxSize \in Nat
                          /\ IntLimit \in Nat \ {0}
ASSUME HashAssumption  == HashValues \subseteq Nat

VARIABLES size, nodes, hashfunc,  \* the fields of HASHTBL
          pc,                     \* where the program's only thread is
          pending,                \* key and data of the running insertion
          newsize, newnodes, i    \* the locals of hashtbl_rehash

tableVars  == <<size, nodes, hashfunc>>
rehashVars == <<newsize, newnodes, i>>
vars       == <<tableVars, pc, pending, rehashVars>>

Node   == [key : Keys, data : Items]
NoNode == <<>>                    \* no insertion is running

\* Mutant of EmptySlots: one slot too many.
OneSlotMore(n) == [s \in 0..n |-> <<>>]

EmptySlots(n) == [s \in 0..(n - 1) |-> <<>>]

Index(k, n) == hashfunc[k] % n

\* hashtbl_index and hashtbl_get: the slot's chain counts only if its FIRST
\* node has the key.
Get(k) == LET c == nodes[Index(k, size)]
          IN  IF c # <<>> /\ Head(c).key = k THEN c ELSE <<>>

\* (int)hashtbl->size, the bound of the loop of hashtbl_rehash.
AsInt(n) == LET m == n % (2 * IntLimit)
            IN  IF m >= IntLimit THEN m - 2 * IntLimit ELSE m

\* Mutants of Foreign: keys are never compared; any filled slot is foreign.
NeverForeign  == FALSE
FilledForeign == nodes[Index(pending.key, size)] # <<>>

Foreign == LET c == nodes[Index(pending.key, size)]
           IN  c # <<>> /\ Head(c).key # pending.key

Init == /\ size = InitSize
        /\ nodes = EmptySlots(InitSize)
        /\ hashfunc \in [Keys -> HashValues]
        /\ pc = "idle"
        /\ pending = NoNode
        /\ newsize = 0 /\ newnodes = <<>> /\ i = 0

-----------------------------------------------------------------------------
\* Every insertion brings a data pointer that no node holds yet.
Fresh(d) == \A s \in DOMAIN nodes : \A j \in DOMAIN nodes[s] : nodes[s][j].data # d

\* hashtbl_insert is entered.
InsertCall(k, d) ==
    /\ pc = "idle"
    /\ Fresh(d)
    /\ pending' = [key |-> k, data |-> d]
    /\ pc' = "probe"
    /\ UNCHANGED <<tableVars, rehashVars>>

\* calloc of n slots and the restart of the copying loop, or exit when the
\* memory is not there (mycalloc calls myerror).
AllocateNew(n) ==
    /\ newsize' = n
    /\ IF n <= MaxSize
       THEN newnodes' = EmptySlots(n) /\ i' = 0 /\ pc' = "rehash"
       ELSE UNCHANGED <<newnodes, i>> /\ pc' = "exit"
    /\ UNCHANGED <<tableVars, pending>>

\* Mutants of StartRehash: the new array is one slot longer; just as long.
RehashByOne == pc = "probe" /\ Foreign /\ AllocateNew(size + 1)
RehashSame  == pc = "probe" /\ Foreign /\ AllocateNew(size)

\* The probed slot holds another key's chain: hashtbl_rehash is called.
StartRehash == pc = "probe" /\ Foreign /\ AllocateNew(2 * size)

SkipEmpty ==
    /\ pc = "rehash" /\ i < AsInt(size)
    /\ nodes[i] = <<>>
    /\ i' = i + 1
    /\ UNCHANGED <<tableVars, pc, pending, newsize, newnodes>>

\* Mutant of Target: the slot in the old array.
OldTarget == Index(Head(nodes[i]).key, size)

Target == Index(Head(nodes[i]).key, newsize)

MoveChain ==
    /\ pc = "rehash" /\ i < AsInt(size)
    /\ nodes[i] # <<>>
    /\ newnodes[Target] = <<>>
    /\ newnodes' = [newnodes EXCEPT ![Target] = nodes[i]]
    /\ i' = i + 1
    /\ UNCHANGED <<tableVars, pc, pending, newsize>>

\* Two stored chains meet in the new array: start over with one twice as big.
RestartRehash ==
    /\ pc = "rehash" /\ i < AsInt(size)
    /\ nodes[i] # <<>>
    /\ newnodes[Target] # <<>>
    /\ AllocateNew(2 * newsize)

FinishRehash ==
    /\ pc = "rehash" /\ i >= AsInt(size)
    /\ nodes' = newnodes
    /\ size' = newsize
    /\ pc' = "probe"
    /\ newsize' = 0 /\ newnodes' = <<>> /\ i' = 0
    /\ UNCHANGED <<hashfunc, pending>>

\* The slot is free or already the key's own: the node becomes its first.
LinkNode ==
    /\ pc = "probe" /\ ~Foreign
    /\ nodes' = [nodes EXCEPT ![Index(pending.key, size)] = <<pending>> \o @]
    /\ pc' = "idle"
    /\ pending' = NoNode
    /\ UNCHANGED <<size, hashfunc, rehashVars>>

\* mymalloc or mystrdup has no memory for the node or its key: exit.
LinkFails ==
    /\ pc = "probe" /\ ~Foreign
    /\ pc' = "exit"
    /\ UNCHANGED <<tableVars, pending, rehashVars>>

-----------------------------------------------------------------------------
\* What is left of a call once it is entered; the thread that runs it is the
\* only one and nothing in it blocks.
Step == \/ StartRehash \/ SkipEmpty \/ MoveChain \/ RestartRehash
        \/ FinishRehash \/ LinkNode \/ LinkFails

\* The program's own use of the table: it inserts, it never removes.
Next == Step \/ \E k \in Keys, d \in Items : InsertCall(k, d)
Spec == Init /\ [][Next]_vars /\ WF_vars(Step)

-----------------------------------------------------------------------------
Phase == {"idle", "probe", "rehash", "exit"}

\* The slot array has exactly `size' slots, in the table and, while it is
\* rehashed, in the array under construction.
TypeOK == /\ size \in Nat \ {0}
          /\ nodes \in [0..(size - 1) -> Seq(Node)]
          /\ hashfunc \in [Keys -> HashValues]
          /\ pc \in Phase
          /\ pc \in {"probe", "rehash"} => pending \in Node
          /\ pc = "rehash" => /\ newsize \in Nat \ {0}
                              /\ newnodes \in [0..(newsize - 1) -> Seq(Node)]
                              /\ i \in 0..size

\* A chain holds the nodes of one key only, and hangs off the slot that key
\* hashes to: hashtbl_index compares the first node's key and no other.
OneKeyPerSlot ==
    \A s \in DOMAIN nodes : \A j \in DOMAIN nodes[s] :
        /\ nodes[s][j].key = nodes[s][1].key
        /\ Index(nodes[s][j].key, size) = s

\* While the table is rehashed, the new array holds the chains of the old
\* slots before i, each where its key now hashes to, and nothing else.
RehashedSoFar ==
    pc = "rehash" =>
        /\ newsize = 2 * size
        /\ \A s \in 0..(i - 1) : nodes[s] # <<>> =>
              newnodes[Index(Head(nodes[s]).key, newsize)] = nodes[s]
        /\ \A t \in DOMAIN newnodes : newnodes[t] # <<>> =>
              \E s \in 0..(i - 1) : /\ newnodes[t] = nodes[s]
                                   /\ Index(Head(nodes[s]).key, newsize) = t

\* One doubling always separates what was separate before, so the branch of
\* hashtbl_rehash that starts over with a bigger array is never taken as
\* long as the hash function stays the same.
OneDoublingSuffices ==
    pc = "rehash" /\ i < size /\ nodes[i] # <<>> => newnodes[Target] = <<>>

Stored == {nodes[s][1].key : s \in {t \in DOMAIN nodes : nodes[t] # <<>>}}

\* The sizes that doubling leads to and that there is memory for: what every
\* set has that has the first and with each also the next.
Doubling(S) == \A n \in {InitSize} \cup {2 * m : m \in S} : n <= MaxSize => n \in S
Sizes == {n \in 1..MaxSize : \A S \in SUBSET (1..MaxSize) : Doubling(S) => n \in S}

\* hashtbl_rehash gives up only when no array that fits in memory can tell
\* the new key from a stored one.  (With a place for the key the process ends
\* only for want of a node, hash.c:159-160, however small the table.)
RehashGivesUpOnlyWhenNothingFits ==
    pc = "exit" /\ Foreign => \E k \in Stored \ {pending.key} : \A n \in Sizes :
                                  Index(k, n) = Index(pending.key, n)

\* Every call of hashtbl_insert comes back, or exits the process: the
\* doubling does not go on for ever.
InsertReturns == pc = "probe" ~> pc \in {"idle", "exit"}

\* The table implements the store of chains per key; in particular no
\* insertion and no rehash loses, reorders or relabels a node of any key.
Store == INSTANCE KeyedStore WITH chain   <- [k \in Keys |-> Get(k)],
                                  stopped <- (pc = "exit")
ImplementsStore == Store!Spec
=============================================================================
