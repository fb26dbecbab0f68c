---------------------------- MODULE MCResultDirs ----------------------------
(***************************************************************************)
(* A capture in /dir beside earlier results: files, a directory with a     *)
(* file, and perhaps a link among them: to a file elsewhere or among the   *)
(* results, to nothing, back up, or to a directory elsewhere, in which     *)
(* there may be another link.                                              *)
(***************************************************************************)
EXTENDS ResultDirs

MCNames   == {"dir", "capture", "etc", "keep", "on", "pcaps", "mine", "reqts", "sub",
              "old", "link", "nothing"}
MCCapture == <<"dir", "capture">>
File    == [kind |-> "file"]
Link(p) == [kind |-> "link", to |-> p]

Fixed   == { <<>>, <<"etc">>, <<"etc", "keep">>, <<"pcaps">>, <<"pcaps", "mine">> }
OldDirs == { <<"dir">>, <<"dir", "pcaps">>, <<"dir", "reqts">>, <<"dir", "pcaps", "sub">> }
Some    == { MCCapture, <<"dir", "pcaps", "old">>, <<"dir", "pcaps", "sub", "old">>,
             <<"dir", "reqts", "old">> }
Files   == Some \cup { <<"etc", "keep">>, <<"pcaps", "mine">> }
LinkAt  == { <<"dir", "pcaps", "sub", "link">>, <<"dir", "reqts">> }
Targets == { <<"etc">>, <<"etc", "keep">>, <<"nothing">>, <<"dir">>,
             <<"dir", "pcaps", "old">> }
Onward  == <<"etc", "on">>

Closed(ps) == \A p \in ps \ {Root} : Parent(p) \in ps

Plain == { [p \in ps |-> IF p \in Files THEN File ELSE Dir] :
           ps \in {Fixed \cup s : s \in SUBSET (OldDirs \cup Some)} }
Good  == { t \in Plain : Closed(DOMAIN t) }
Linked(t, at, to) == [p \in DOMAIN t \cup {at} |-> IF p = at THEN Link(to) ELSE t[p]]

WithLink == { t \in { Linked(g, at, to) : g \in Good, at \in LinkAt, to \in Targets } :
                /\ Closed(DOMAIN t)
                /\ \A p \in DOMAIN t \ {Root} : t[Parent(p)] = Dir }

MCTrees == Good \cup WithLink \cup
           { Linked(t, Onward, <<"pcaps">>) :
                t \in {u \in WithLink : \E at \in LinkAt : at \in DOMAIN u /\ u[at] = Link(<<"etc">>)} }
=============================================================================
