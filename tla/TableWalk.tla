------------------------------ MODULE TableWalk -----------------------------
(***************************************************************************)
(* hashtbl_iterator and hashtbl_next of lib/hash.c over a table that       *)
(* insertions have filled.  Every pass of main.c over the flows - sorting, *)
(* dumping, pairing, writing - is one such walk.                           *)
(***************************************************************************)
EXTENDS HashTable, FiniteSetsExt

VARIABLES walk,     \* whether the walk is yet to begin, on, or over
          nindex,   \* HASHITR.nindex: the first slot not yet looked at
          yielded   \* the slots (HASHITR.cindex) handed out so far

walkVars == <<vars, walk, nindex, yielded>>

WalkInit == Init /\ walk = "none" /\ nindex = 0 /\ yielded = <<>>

\* Mutant of FirstFilled: empty slots are not skipped.
AnySlot(from) == Min({from, size})

\* The first filled slot at or after a position, or the end of the array.
FirstFilled(from) ==
    Min({s \in from..(size - 1) : nodes[s] # <<>>} \cup {size})

Filling == walk = "none" /\ Next /\ UNCHANGED <<walk, nindex, yielded>>

\* hashtbl_iterator: both indices start at the first filled slot.
WalkBegin ==
    /\ pc = "idle" /\ walk = "none"
    /\ walk' = "on"
    /\ nindex' = FirstFilled(0)
    /\ UNCHANGED <<vars, yielded>>

\* hashtbl_next handing out the chain of the slot it found.
WalkNext ==
    LET s == FirstFilled(nindex)
    IN  /\ walk = "on"
        /\ s + 1 < size
        /\ nindex' = s + 1
        /\ yielded' = Append(yielded, s)
        /\ UNCHANGED <<vars, walk>>

\* hashtbl_next returning NULL: its test is made on the advanced index.
WalkEnd ==
    LET s == FirstFilled(nindex)
    IN  /\ walk = "on"
        /\ s + 1 >= size
        /\ nindex' = s + 1
        /\ walk' = "over"
        /\ UNCHANGED <<vars, yielded>>

WalkStep == WalkBegin \/ WalkNext \/ WalkEnd
WalkSpec == /\ WalkInit
            /\ [][Filling \/ WalkStep]_walkVars
            /\ WF_vars(Step)

-----------------------------------------------------------------------------
Filled == {s \in DOMAIN nodes : nodes[s] # <<>>}
Handed == {yielded[j] : j \in DOMAIN yielded}

\* A finished walk has handed out every filled slot but the array's last
\* one, each exactly once, whatever the slots' layout.
WalkMissesOnlyTheLastSlot ==
    walk = "over" => /\ Handed = Filled \ {size - 1}
                     /\ Len(yielded) = Cardinality(Handed)

\* Every flow is processed: what README.md says the program delivers for
\* each uni-flow needs its chain to be handed out.
WalkHandsOutEveryChain == walk = "over" => Handed = Filled
=============================================================================
