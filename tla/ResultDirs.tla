----------------------------- MODULE ResultDirs -----------------------------
(***************************************************************************)
(* init_environment of main.c: earlier results are removed and the result  *)
(* directories made again before the capture is opened.  removedir of      *)
(* lib/mydirent.c is recursive; stack holds its frames.  It stops at the   *)
(* first entry it cannot remove, it judges entries by stat, which follows  *)
(* links, and nobody looks at its result.                                  *)
(*                                                                         *)
(* A path is the sequence of its names, and tree a function from the paths *)
(* there are to what is there.  Nothing is removed in a locked directory,  *)
(* and any system call may be refused for a reason that no tree shows: no  *)
(* right to read, no descriptor or memory left, a busy directory, a full   *)
(* disk.                                                                   *)
(***************************************************************************)
EXTENDS Integers, Sequences, FiniteSets

CONSTANTS Names,    \* what an entry of a directory can be called
          Trees,    \* file systems the program may start in
          Capture,  \* path of the pcap file
          MaxLinks  \* links the system follows in a path (ELOOP)

ASSUME LinksAssumption == MaxLinks \in Nat \ {0}

Root == <<>>
Dir  == [kind |-> "dir"]

\* What holds of every file system: all that is above an entry is a directory.
\* A link's "to" is where it leads in the end, which is no link.
IsTree(t) ==
    /\ DOMAIN t \subseteq Seq(Names)
    /\ \A p \in DOMAIN t : \A k \in 0..(Len(p) - 1) :
          SubSeq(p, 1, k) \in DOMAIN t /\ t[SubSeq(p, 1, k)] = Dir
    /\ \A p \in DOMAIN t : t[p].kind = "link" =>
          /\ t[p].to \in Seq(Names)
          /\ t[p].to \in DOMAIN t => t[t[p].to].kind # "link"

ASSUME TreesAssumption == /\ {"pcaps", "reqts"} \subseteq Names
                          /\ Capture \in Seq(Names) \ {Root}
                          /\ \A t \in Trees : IsTree(t)

ASSUME FiniteTreesAssumption == \A t \in Trees : IsFiniteSet(DOMAIN t)

VARIABLES tree,
          before,   \* the tree the program started with
          locked,   \* directories in which nothing can be changed
          plain,    \* the capture is named without a directory
          refused,  \* where system calls have been refused
          home,     \* where the result directories are
          stack,    \* calls of removedir that have not returned
          pc

given == <<before, locked, plain>>
vars  == <<given, tree, refused, home, stack, pc>>

Parent(p) == SubSeq(p, 1, Len(p) - 1)
Under(p, d) == Len(d) <= Len(p) /\ SubSeq(p, 1, Len(d)) = d

Pcaps == Append(home, "pcaps")
Reqts == Append(home, "reqts")

Init == /\ tree \in Trees /\ before = tree
        /\ locked \in {{}} \cup {{d} : d \in {p \in DOMAIN tree : tree[p] = Dir}}
        /\ plain \in BOOLEAN
        /\ refused = {}
        /\ home = Root /\ stack = <<>> /\ pc = "start"

\* getdirname gives "" for a name without '/'.  pathcat then looks at the
\* byte before the empty string: if it happens to be '/', the results go to
\* the working directory, which the capture is in, and otherwise to "/".
Locate == /\ pc = "start"
          /\ home' \in {Parent(Capture)} \cup (IF plain THEN {Root} ELSE {})
          /\ pc' = "pcaps"
          /\ UNCHANGED <<given, tree, refused, stack>>

-----------------------------------------------------------------------------
\* What stat and opendir find at p on a way through n links: <<>> or <<path>>.
Follow(p, n) ==
    IF p \notin DOMAIN tree THEN <<>>
    ELSE IF tree[p].kind # "link" THEN <<p>>
    ELSE IF n < MaxLinks /\ tree[p].to \in DOMAIN tree THEN <<tree[p].to>>
    ELSE <<>>

Finds(p, n, isdir) == Follow(p, n) # <<>> /\ (tree[Follow(p, n)[1]] = Dir) = isdir

Links(p) == IF tree[p].kind = "link" THEN 1 ELSE 0

Children(d) == {p \in DOMAIN tree : p # Root /\ Parent(p) = d}
Without(p)  == [q \in DOMAIN tree \ {p} |-> tree[q]]

\* Mutant of Frame: ".." is an entry like any other.
FrameWithParent(p, n) ==
    LET d == Follow(p, n)[1]
    IN  [path |-> p, dir |-> d, unread |-> Children(d) \cup {Parent(d)}, r |-> 0,
         links |-> n + Links(p)]

\* removedir is called with p and opendir succeeds.
Frame(p, n) == LET d == Follow(p, n)[1]
               IN  [path |-> p, dir |-> d, unread |-> Children(d), r |-> 0,
                    links |-> n + Links(p)]

Removing == pc \in {"pcaps", "reqts"}
Target   == IF pc = "pcaps" THEN Pcaps ELSE Reqts
NextCall == IF pc = "pcaps" THEN "reqts" ELSE "make"

RemoveDir == /\ Removing /\ stack = <<>> /\ Finds(Target, 0, TRUE)
             /\ stack' = <<Frame(Target, 0)>>
             /\ UNCHANGED <<given, tree, refused, home, pc>>

\* opendir fails and nothing is removed: there is no such directory.
NoDir == /\ Removing /\ stack = <<>> /\ ~Finds(Target, 0, TRUE)
         /\ pc' = NextCall
         /\ UNCHANGED <<given, tree, refused, home, stack>>

Refuse(p) == refused' = refused \cup {p}

\* opendir fails and nothing is removed: the directory is there, but it
\* cannot be read or no descriptor is left.
RemoveRefused == /\ Removing /\ stack = <<>> /\ Finds(Target, 0, TRUE)
                 /\ Refuse(Target)
                 /\ pc' = NextCall
                 /\ UNCHANGED <<given, tree, home, stack>>

Top     == stack[Len(stack)]
Callers == SubSeq(stack, 1, Len(stack) - 1)

\* What readdir can return next.
Entries == IF stack = <<>> THEN {} ELSE Top.unread \cap DOMAIN tree

WithRead(e, result) == Append(Callers, [Top EXCEPT !.unread = @ \ {e}, !.r = result])

\* A file, or a link to one: the link goes and the file stays.
ReadFile == \E e \in Entries :
    /\ Top.r = 0 /\ Finds(e, Top.links, FALSE)
    /\ IF Top.dir \in locked
       THEN tree' = tree /\ stack' = WithRead(e, 0 - 1)
       ELSE tree' = Without(e) /\ stack' = WithRead(e, 0)
    /\ UNCHANGED <<given, refused, home, pc>>

\* Mutant of ReadDir: unlink is tried on directories too.
ReadDirFlat == \E e \in Entries :
    /\ Top.r = 0 /\ Finds(e, Top.links, TRUE)
    /\ stack' = WithRead(e, 0 - 1)
    /\ UNCHANGED <<given, tree, refused, home, pc>>

\* A directory, or a link to one, which is emptied like a directory.
ReadDir == \E e \in Entries :
    /\ Top.r = 0 /\ Finds(e, Top.links, TRUE)
    /\ stack' = Append(WithRead(e, 0), Frame(e, Top.links))
    /\ UNCHANGED <<given, tree, refused, home, pc>>

\* stat fails: a link to nothing, or one link too many.
ReadDangling == \E e \in Entries :
    /\ Top.r = 0 /\ Follow(e, Top.links) = <<>>
    /\ stack' = WithRead(e, 0 - 1)
    /\ UNCHANGED <<given, tree, refused, home, pc>>

\* stat, unlink or the opendir of the next call is refused at an entry: that
\* call returns -1 with nothing removed.  Every level of the recursion keeps
\* a descriptor, so that the deeper ones may find none left.
ReadRefused == \E e \in Entries :
    /\ Top.r = 0
    /\ Refuse(e)
    /\ stack' = WithRead(e, 0 - 1)
    /\ UNCHANGED <<given, tree, home, pc>>

\* getdirname or pathcat has no memory for a path: exit.
OutOfMemory == /\ pc = "start" \/ \E e \in Entries : Top.r = 0
               /\ pc' = "exit" /\ stack' = <<>>
               /\ UNCHANGED <<given, tree, refused, home>>

\* The entries are read, or one could not be removed: rmdir, which fails for
\* a link, and back to the caller.
Rmdir(p) == /\ p \in DOMAIN tree /\ tree[p] = Dir /\ Children(p) = {}
            /\ Parent(p) \notin locked

CanGo == Top.r = 0 /\ Rmdir(Top.path)

\* What rmdir does at Top.path, where it may be refused.
RmdirTop(gone) ==
    /\ tree' = IF gone THEN Without(Top.path) ELSE tree
    /\ IF CanGo /\ ~gone THEN Refuse(Top.path) ELSE UNCHANGED refused

\* Mutant of Return: a removal that failed is tried again.
ReturnRetry ==
    /\ stack # <<>>
    /\ Top.r # 0 \/ Entries = {}
    /\ \E gone \in {FALSE, CanGo} :
          /\ RmdirTop(gone)
          /\ IF Callers = <<>>
             THEN stack' = <<>> /\ pc' = IF gone THEN NextCall ELSE pc
             ELSE /\ stack' = [Callers EXCEPT ![Len(Callers)].r = IF gone THEN 0 ELSE 0 - 1]
                  /\ pc' = pc
    /\ UNCHANGED <<given, home>>

Return ==
    /\ stack # <<>>
    /\ Top.r # 0 \/ Entries = {}
    /\ \E gone \in {FALSE, CanGo} :
          /\ RmdirTop(gone)
          /\ IF Callers = <<>>
             THEN stack' = <<>> /\ pc' = NextCall
             ELSE /\ stack' = [Callers EXCEPT ![Len(Callers)].r = IF gone THEN 0 ELSE 0 - 1]
                  /\ pc' = pc
    /\ UNCHANGED <<given, home>>

\* mkdir of both directories, with the results ignored; the third mkdir, of
\* a path that is NULL, fails.
Made == IF home \in DOMAIN tree \ locked THEN {Pcaps, Reqts} \ DOMAIN tree ELSE {}

MakeDirs ==
    /\ pc = "make"
    /\ \E no \in SUBSET Made :
          /\ tree' = [p \in DOMAIN tree \cup (Made \ no) |->
                        IF p \in DOMAIN tree THEN tree[p] ELSE Dir]
          /\ refused' = refused \cup no
    /\ pc' = "open"
    /\ UNCHANGED <<given, home, stack>>

\* get_pcap_handle, which ends the process if the capture is not there, not
\* readable or no pcap file.
Open == /\ pc = "open"
        /\ pc' \in {"exit"} \cup (IF Capture \in DOMAIN tree THEN {"opened"} ELSE {})
        /\ UNCHANGED <<given, tree, refused, home, stack>>

Next == \/ Locate \/ RemoveDir \/ NoDir \/ RemoveRefused
        \/ ReadFile \/ ReadDir \/ ReadDangling \/ ReadRefused \/ Return
        \/ MakeDirs \/ Open \/ OutOfMemory
Spec == Init /\ [][Next]_vars /\ WF_vars(Next)

-----------------------------------------------------------------------------
OldLinks == {p \in DOMAIN before : before[p].kind = "link"}

\* With the places in ts, a removal that starts at d can be at a link only if
\* its target is in ts too.
ClosedUnder(d, ts) == \A p \in OldLinks :
    Under(p, d) \/ (\E t \in ts : Under(p, t)) => before[p].to \in ts

\* Where links lead from d on, one link after the other: the least such set.
LinkedFrom(d) == LET all == {before[p].to : p \in OldLinks}
                 IN  {t \in all : \A ts \in SUBSET all : ClosedUnder(d, ts) => t \in ts}

\* What the removal of earlier results may remove.  Where a link leads to
\* stays itself.
Disposable(p) == \E d \in {Pcaps, Reqts} :
    Under(p, d) \/ \E t \in LinkedFrom(d) : Under(p, t) /\ p # t

\* What removedir cannot deal with, below one of the result directories or in
\* its place: a call refused there, a directory in which nothing can be
\* changed, a link that leads nowhere or to a directory.  A link to a file
\* that is removed before it is one that leads nowhere.
Obstacle(d) ==
    \/ \E p \in refused : Under(p, d)
    \/ home \in locked
    \/ d \in DOMAIN before /\ before[d] # Dir
    \/ \E p \in DOMAIN before :
          /\ Under(p, d)
          /\ \/ p \in locked /\ \E q \in DOMAIN before : Len(q) > Len(p) /\ Under(q, p)
             \/ /\ p \in OldLinks
                /\ \/ before[p].to \notin DOMAIN before
                   \/ before[before[p].to] = Dir
                   \/ Disposable(before[p].to)

\* New results never stand among old ones, although nobody looks at what
\* removedir returns: when the capture is open there are two empty
\* directories, unless one had an obstacle (main.c:498-502).  In particular
\* what cannot be removed under one of them never keeps old results under the
\* other, and nothing is left over where every call was answered.
OldResultsGone ==
    pc = "opened" =>
        \A d \in {Pcaps, Reqts} :
            Obstacle(d) \/ (d \in DOMAIN tree /\ tree[d] = Dir /\ Children(d) = {})

\* The recursion removes nothing but earlier results - and whatever a link
\* among them leads to, since stat follows it (mydirent.c:607-612).
OthersKept == \A p \in DOMAIN before \ DOMAIN tree : Disposable(p)

\* The removal comes to its end, even where a link leads back up into the
\* tree that is being removed (mydirent.c:598-616).
RemovalEnds == <>(pc \in {"opened", "exit"})
=============================================================================
