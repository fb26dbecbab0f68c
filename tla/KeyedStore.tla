----------------------------- MODULE KeyedStore -----------------------------
(***************************************************************************)
(* What a caller of lib/hash.h relies on, with no slots, no hash values    *)
(* and no rehashing: every key owns one chain of nodes, newest first, and  *)
(* an insertion changes the chain of its own key and no other.  The        *)
(* process may give up (myerror calls exit) and then nothing happens any   *)
(* more.                                                                   *)
(***************************************************************************)
EXTENDS Sequences

CONSTANTS Keys,    \* flow keys, "srcip.srcport-dstip.dstport"
          Items    \* the data pointers stored under the keys

VARIABLES chain,   \* chain[k]: the nodes stored under k, newest first
          stopped  \* the process has exited

storeVars == <<chain, stopped>>

Init == /\ chain = [k \in Keys |-> <<>>]
        /\ stopped = FALSE

Insert(k, d) ==
    /\ ~stopped
    /\ chain' = [chain EXCEPT ![k] = <<[key |-> k, data |-> d]>> \o @]
    /\ UNCHANGED stopped

GiveUp == /\ ~stopped
          /\ stopped' = TRUE
          /\ UNCHANGED chain

Next == GiveUp \/ \E k \in Keys, d \in Items : Insert(k, d)

Spec == Init /\ [][Next]_storeVars
=============================================================================
