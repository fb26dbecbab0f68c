------------------------------ MODULE Program -------------------------------
(***************************************************************************)
(* The whole program on a capture: FlowTable's passes with, for each chain *)
(* the last of them hands out, Reassembly's loop that writes its text.     *)
(***************************************************************************)
EXTENDS FlowTable

VARIABLES chain, node, offset, hdr1, hdr2, pip, last, file,  \* Reassembly's
          wpc,      \* its pc; "none" before there is a first chain
          texts     \* the text files: key of the name, chain, pieces

R == INSTANCE Reassembly WITH pc <- wpc, Chains <- {}

textVars == <<chain, node, offset, hdr1, hdr2, pip, last, file, wpc>>
allVars  == <<vars, textVars, texts>>

ProgramInit == /\ Init
               /\ chain = <<>> /\ node = 3 /\ offset = 0
               /\ hdr1 = 3 /\ hdr2 = R!null /\ pip = R!null /\ last = R!null
               /\ file = <<>> /\ wpc = "none"
               /\ texts = {}

-----------------------------------------------------------------------------
\* write_tcp_data_to_file is running: the walk that called it waits.
Writing == wpc \in {"write", "judge"}

\* write_tcp_data_to_file is called: R!Init for the chain at hand.
OpenText ==
    /\ ~Writing
    /\ WriteChain
    /\ chain' = nodes[cindex]
    /\ node' = 3 /\ offset' = 0
    /\ hdr1' = 3 /\ hdr2' = R!null /\ pip' = R!null /\ last' = R!null
    /\ file' = <<>>
    /\ wpc' = IF Handshake(nodes[cindex]) THEN "write" ELSE "done"
    /\ UNCHANGED texts

TextStep ==
    /\ Writing
    /\ R!WriteData \/ R!NothingToWrite \/ R!JudgeContinuing \/ R!JudgeOther
    /\ UNCHANGED <<vars, texts>>

\* The loop is left; there is a file if anything was written.
CloseText ==
    /\ R!Close
    /\ texts' = texts \cup {[key |-> Head(chain).key, chain |-> chain, file |-> x] :
                               x \in {file} \ {<<>>}}
    /\ UNCHANGED vars

\* The process ends in the middle of a text: writing fails, or NULL is read
\* through.
BreakOff == /\ R!WriteFails \/ R!JudgeThroughNull
            /\ pc' = wpc'
            /\ UNCHANGED <<capture, read, slot, nodes, nindex, pcaps, handed, texts>>

PassStep == /\ ~Writing
            /\ Prepare \/ WalkEnd
            /\ UNCHANGED <<textVars, texts>>

ProgramNext == PassStep \/ OpenText \/ TextStep \/ CloseText \/ BreakOff
ProgramSpec == ProgramInit /\ [][ProgramNext]_allVars /\ WF_allVars(ProgramNext)

-----------------------------------------------------------------------------
\* The captured packets of a connection, by their place in the capture.
Conversation(k) ==
    [j \in {l \in 1..read : IsTcp(capture[l]) /\ capture[l].key \in {k, Reversed(k)}} |->
        capture[j]]

\* No number of the connection wraps, and its two directions acknowledge
\* different numbers behind their SYNs: what the overlap computation takes
\* for granted.
NumbersTell(c, syns) ==
    /\ \A j, l \in DOMAIN c : c[j].key = c[l].key /\ Compare(c[j], c[l]) < 0 =>
                                  c[j].seq <= c[l].seq
    /\ \A j, l \in DOMAIN c \ syns : c[j].key # c[l].key => c[j].ack # c[l].ack

\* A connection the program can put together, k being its requester's key:
\* its plain handshake, with no data in the SYNs, and unambiguous numbers were
\* captured, in whatever order, and the walk comes to the requester's slot
\* first (see HeadersRestored).
Promised(k) ==
    LET c == Conversation(k)
    IN  /\ slot[k] < slot[Reversed(k)]
        /\ InWindow(SeenFrom(c, k))
        /\ \E h, i, j \in DOMAIN c :
              /\ c[h].key = k /\ PlainOpening(c, h, i, j)
              /\ c[h].len = 0 /\ c[i].len = 0
              /\ NumbersTell(c, {h, i})

Sender(t, m) == t.chain[t.file[m].node]
Pieces(t)    == {m \in DOMAIN t.file : t.file[m].node # R!null}

\* The bytes x of the sender with key k stand in a piece of the text.
Holds(t, m, k, x) ==
    /\ Sender(t, m).key = k
    /\ Sender(t, m).seq + t.file[m].from <= x
    /\ x < Sender(t, m).seq + Sender(t, m).len

\* The program's purpose: when it has ended, every byte of both directions
\* of such a connection is in the one text with the requester's key, however
\* its segments were captured.
TextsComplete ==
    pc = "end" => \A k \in {x \in Keys : Promised(x)} :
        LET c == Conversation(k)
        IN  \A j \in DOMAIN c : \A x \in c[j].seq..(c[j].seq + c[j].len - 1) :
                \E t \in texts : t.key = k /\ \E m \in Pieces(t) : Holds(t, m, c[j].key, x)

\* A text has data of one connection only, and data that acknowledges other
\* data of the text stands behind it: a reply follows its request.
RepliesFollowRequests ==
    \A t \in texts : \A m, l \in Pieces(t) :
        /\ Sender(t, m).key \in {t.key, Reversed(t.key)}
        /\ Promised(t.key) /\ Sender(t, m).key = t.key /\ Sender(t, l).key # t.key
              /\ Sender(t, m).seq < Sender(t, l).ack => m < l
=============================================================================
