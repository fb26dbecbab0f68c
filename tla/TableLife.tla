----------------------------- MODULE TableLife ------------------------------
(***************************************************************************)
(* The program's one hash table from get_hash_table to                     *)
(* destroy_hash_table, with the whole interface of lib/hash.h that changes *)
(* it.  An emptied table has no slots: whatever is called next first makes *)
(* a new one, with the functions of the old.                               *)
(***************************************************************************)
EXTENDS HashTable

CONSTANT FreeFuncs    \* what `freefunc' may be
CONSTANT NullFunc     \* NULL, which stands for free

ASSUME NullFuncAssumption == NullFunc \in FreeFuncs

VARIABLES freefunc,   \* the field of HASHTBL
          dangling,   \* what points at freed memory: nothing, the static
                      \* pointer of get_hash_table, a slot
          asked,      \* the function the program set last
          stored,     \* the data pointers inserted so far
          freed       \* freed[d]: the functions d has been freed with

lifeVars == <<freefunc, dangling, asked, stored, freed>>
allVars  == <<vars, lifeVars>>

LifeInit == /\ Init
            /\ freefunc = NullFunc /\ asked = NullFunc
            /\ dangling = "nothing"
            /\ stored = {}
            /\ freed = [d \in Items |-> <<>>]

-----------------------------------------------------------------------------
\* A call finds the table at hand: get_hash_table has nothing to do.
Ready == pc = "idle" /\ size # 0 /\ dangling = "nothing"

\* Mutant of RecreatedFunc: the new table is made like the first one.
FirstFunc == NullFunc

RecreatedFunc == freefunc

\* get_hash_table makes a new table because the old one has been emptied.
Recreate ==
    /\ pc = "idle" /\ size = 0 /\ dangling = "nothing"
    /\ size' = InitSize /\ nodes' = EmptySlots(InitSize)
    /\ freefunc' = RecreatedFunc
    /\ UNCHANGED <<hashfunc, pc, pending, rehashVars, dangling, asked, stored, freed>>

\* hashtbl_create has no memory for it: exit.
RecreateFails ==
    /\ pc = "idle" /\ size = 0 /\ dangling = "nothing"
    /\ pc' = "exit"
    /\ UNCHANGED <<tableVars, pending, rehashVars, lifeVars>>

\* set_hash_table, set_hash_hashfunc and set_hash_freefunc: chains already
\* there stay where they are.
SetFunctions(f, g) ==
    /\ Ready
    /\ hashfunc' = f /\ freefunc' = g /\ asked' = g
    /\ UNCHANGED <<size, nodes, pc, pending, rehashVars, dangling, stored, freed>>

Insert(k, d) ==
    /\ Ready
    /\ d \notin stored
    /\ InsertCall(k, d)
    /\ stored' = stored \cup {d}
    /\ UNCHANGED <<freefunc, dangling, asked, freed>>

InsertStep == Step /\ UNCHANGED lifeVars

\* Mutant of Removed: the count is tested before it is decremented.
RemovedFirst(c) == IF c = <<>> THEN {} ELSE {Head(c).data}

\* hashtbl_remove_n with count 0: the count wraps before it is tested, and
\* the chain is freed to its end.
Removed(c) == {c[j].data : j \in DOMAIN c}

Free(S) == freed' = [d \in Items |-> IF d \in S THEN Append(freed[d], freefunc)
                                                ELSE freed[d]]

\* Mutant of RemovalSlot: the slot in a table that has not grown.
OldSlot(k) == Index(k, InitSize)

RemovalSlot(k) == Index(k, size)

\* hashtbl_remove: whatever chain the key's slot holds is freed.
Remove(k) ==
    /\ Ready
    /\ Free(Removed(nodes[RemovalSlot(k)]))
    /\ nodes' = [nodes EXCEPT ![RemovalSlot(k)] = <<>>]
    /\ UNCHANGED <<size, hashfunc, pc, pending, rehashVars, freefunc, dangling, asked, stored>>

\* remove_hash_node on a chain's first node: the slot goes on pointing at
\* it, and whatever looks there next reads freed memory.  Nothing calls it.
RemoveNode(k) ==
    /\ Ready /\ Get(k) # <<>>
    /\ Free({Head(Get(k)).data})
    /\ dangling' = "slot"
    /\ UNCHANGED <<vars, freefunc, asked, stored>>

FreeAll == /\ Free(UNION {Removed(nodes[s]) : s \in DOMAIN nodes})
           /\ size' = 0 /\ nodes' = EmptySlots(0)
           /\ UNCHANGED <<hashfunc, pc, pending, rehashVars, freefunc, asked, stored>>

\* empty_hash_table: every chain and the array are freed.
Empty == Ready /\ FreeAll /\ UNCHANGED dangling

\* destroy_hash_table: the table is emptied, get_hash_table makes another
\* one, and that is freed.  Its array and the old HASHTBL are lost.
Destroy == Ready /\ FreeAll /\ dangling' = "table"

ApiNext == \/ Recreate \/ RecreateFails \/ InsertStep \/ Empty \/ Destroy
           \/ \E k \in Keys, d \in Items : Insert(k, d)
           \/ \E k \in Keys : Remove(k) \/ RemoveNode(k)
           \/ \E f \in [Keys -> HashValues] : SetFunctions(f, freefunc)
           \/ \E g \in FreeFuncs : SetFunctions(hashfunc, g)
ApiSpec == LifeInit /\ [][ApiNext]_allVars /\ WF_allVars(InsertStep)

-----------------------------------------------------------------------------
\* What remains of HashTable!OneKeyPerSlot once the hash function may be
\* changed on a filled table: a chain holds the nodes of one key only.
OneKeyPerChain ==
    \A s \in DOMAIN nodes : \A j \in DOMAIN nodes[s] :
        nodes[s][j].key = nodes[s][1].key

Held == {d \in Items : ~Fresh(d)}
           \cup (IF pending = NoNode THEN {} ELSE {pending.data})

\* A data pointer is in the table or has been freed, and that once: neither
\* a removal, a rehash, the emptying nor the destruction of the table leaks
\* an item, frees one twice or keeps one that is freed; remove_hash_node
\* does keep it, as its own comment says.
ItemsFreedOnce ==
    dangling # "slot" =>
        \A d \in stored : Len(freed[d]) = IF d \in Held THEN 0 ELSE 1

\* An item is freed with the function the program set last, in whichever of
\* the tables made since it lies (main.c sets free_pcap_item once).
FreedAsAsked ==
    [][\A d \in Items : freed'[d] # freed[d] => freed'[d][Len(freed'[d])] = asked]_allVars

\* Removing a key that is stored leaves the other keys' chains alone, also
\* in a table that has grown.  (Of a key that is not, main.c never asks it.)
RemovalIsPrivate ==
    [][Ready => \A k \in Keys : Get(k) # <<>> /\ Remove(k) =>
           \A o \in Keys \ {k} : Get(o)' = Get(o)]_allVars
=============================================================================
