----------------------------- MODULE FlowTable ------------------------------
(***************************************************************************)
(* The passes of main.c over the flows of a capture: packets are stored    *)
(* under the key of their direction, every chain is sorted and dumped to a *)
(* pcap file, the two directions of a connection are joined in one chain,  *)
(* and every chain is handed to write_tcp_data_to_file.                    *)
(* The hash table is taken as HashTable leaves it: each captured key has a *)
(* slot of its own.  What a chain's text file gets is module Program's.    *)
(***************************************************************************)
EXTENDS TcpPackets

CONSTANTS Size,        \* slots of the table after the last insertion
          SlotMaps,    \* what hashfunc(k) % size may be for the keys k
          Captures     \* what pcap_next may deliver: sequences of packets

VARIABLES capture,     \* the packets of the pcap file
          read,        \* how many of them have been read
          slot,        \* slot[k]: hashfunc(k) % size
          nodes,       \* the chains
          nindex,      \* HASHITR.nindex of the running walk
          pcaps,       \* the pcap files written
          handed,      \* the chains handed to write_tcp_data_to_file
          pc           \* which pass is running

vars == <<capture, read, slot, nodes, nindex, pcaps, handed, pc>>

\* A key is a record [src, dst]; reverse_ip_port_pair changes the two.
Reversed(k) == [src |-> k.dst, dst |-> k.src]

\* What pcap_next delivers that is not a TCP segment over IPv4 or IPv6.
Other == [key |-> "none"]
IsTcp(p) == p # Other

\* A direction has an opposite, a bucket is below the table's size, and no
\* packet is captured twice.
ASSUME KeysAssumption ==
    \A k \in Keys : Reversed(k) \in Keys /\ Reversed(Reversed(k)) = k
ASSUME SlotsAssumption ==
    Size \in Nat \ {0} /\ SlotMaps \subseteq [Keys -> 0..(Size - 1)]
ASSUME CapturesAssumption ==
    /\ Captures \subseteq Seq(Packet \cup {Other}) /\ Other \notin Packet
    /\ \A c \in Captures : \A j, l \in DOMAIN c :
          IsTcp(c[j]) /\ IsTcp(c[l]) /\ c[j].n = c[l].n => j = l

Captured == {capture[j] : j \in {l \in 1..read : IsTcp(capture[l])}}

Passes == <<"hash", "classify", "dump", "tidy", "write", "end">>

Init == /\ capture \in Captures
        /\ read = 0
        /\ slot \in SlotMaps
        /\ \A j, l \in {i \in DOMAIN capture : IsTcp(capture[i])} :
              slot[capture[j].key] = slot[capture[l].key] =>
                  capture[j].key = capture[l].key
        /\ nodes = [s \in 0..(Size - 1) |-> <<>>]
        /\ nindex = 0 /\ pcaps = {} /\ handed = <<>>
        /\ pc = "hash"

-----------------------------------------------------------------------------
\* hash_all_pcap_item: one turn of its loop.  The new node becomes the first
\* of its chain.
HashPacket ==
    /\ pc = "hash" /\ read < Len(capture)
    /\ read' = read + 1
    /\ LET p == capture[read + 1]
       IN  nodes' = IF IsTcp(p) THEN [nodes EXCEPT ![slot[p.key]] = <<p>> \o @]
                                ELSE nodes
    /\ UNCHANGED <<capture, slot, nindex, pcaps, handed, pc>>

HashEnd ==
    /\ pc = "hash" /\ read = Len(capture)
    /\ pc' = "classify"
    /\ UNCHANGED <<capture, read, slot, nodes, nindex, pcaps, handed>>

-----------------------------------------------------------------------------
\* A walk over the chains, as TableWalk has it.
FirstFilled(from) == Min({s \in from..(Size - 1) : nodes[s] # <<>>} \cup {Size})
cindex == FirstFilled(nindex)

WalkOn(phase) == /\ pc = phase
                 /\ cindex + 1 < Size
                 /\ nindex' = cindex + 1
                 /\ UNCHANGED <<capture, read, slot, pc>>

\* Mutant of NextPass: the pass starts over.
SamePass == pc

NextPass == Passes[SelectInSeq(Passes, LAMBDA x : x = pc) + 1]

WalkEnd == /\ pc \in {"classify", "dump", "tidy", "write"}
           /\ cindex + 1 >= Size
           /\ nindex' = 0
           /\ pc' = NextPass
           /\ UNCHANGED <<capture, read, slot, nodes, pcaps, handed>>

ClassifyChain ==
    /\ WalkOn("classify")
    /\ nodes' = [nodes EXCEPT ![cindex] = SortPackets(@)]
    /\ UNCHANGED <<pcaps, handed>>

DumpChain ==
    /\ WalkOn("dump")
    /\ pcaps' = pcaps \cup {[key |-> Head(nodes[cindex]).key, packets |-> nodes[cindex]]}
    /\ UNCHANGED <<nodes, handed>>

WriteChain ==
    /\ WalkOn("write")
    /\ handed' = Append(handed, nodes[cindex])
    /\ UNCHANGED <<nodes, pcaps>>

-----------------------------------------------------------------------------
key1 == Head(nodes[cindex]).key
key2 == Reversed(key1)

\* Mutant of Stored: slot 0 is taken for "not found".
StoredAboveZero(k) == LET c == nodes[slot[k]] IN slot[k] # 0 /\ c # <<>> /\ Head(c).key = k

\* get_hash_index: the slot of a key counts only if its chain starts with it.
Stored(k) == LET c == nodes[slot[k]] IN c # <<>> /\ Head(c).key = k

\* combine_tcp_nodes returns early: one direction is all there is.
TidySingle ==
    /\ WalkOn("tidy")
    /\ ~(Stored(key1) /\ Stored(key2))
    /\ UNCHANGED <<nodes, pcaps, handed>>

\* Mutants of Swapped and hash2: the responder is taken for the requester;
\* one of the two variables is not swapped.
NeverSwapped == FALSE
hash2Unswapped == slot[key2]

\* The slots are swapped if the walk has come to the responder first.
Swapped == LET t == Head(nodes[slot[key1]]) IN t.syn /\ t.ackflag
hash1 == IF Swapped THEN slot[key2] ELSE slot[key1]
hash2 == IF Swapped THEN slot[key1] ELSE slot[key2]

\* Mutants of Recovered and Home: no recovery; a swap by addition, left half
\* way; the slot of the wrong side.
Unrecovered(c) == c
HalfRecovered(c) ==
    [j \in DOMAIN c |-> IF c[j].key = key2 THEN [c[j] EXCEPT !.seq = @ + c[j].ack] ELSE c[j]]
WrongHome(c)   == hash2

\* The recovery looks for packets of key2, which is not swapped.
Recovered(c) == [j \in DOMAIN c |-> IF c[j].key = key2 THEN Exchange(c[j]) ELSE c[j]]

\* The joined chain goes to the slot of the key of its first packet.
Home(c) == slot[Head(c).key]

TidyPair ==
    /\ WalkOn("tidy")
    /\ Stored(key1) /\ Stored(key2)
    /\ key1 # key2
    /\ \E c \in {Recovered(Joined(nodes[hash1], nodes[hash2]))} :
           nodes' = [nodes EXCEPT ![hash1] = <<>>, ![hash2] = <<>>,
                                  ![Home(c)] = c]
    /\ UNCHANGED <<pcaps, handed>>

\* Both ends of the connection are one endpoint: the chain is put in front of
\* itself, and sort_pcap_packets runs round the cycle without end.
TidySelf ==
    /\ pc = "tidy" /\ cindex + 1 < Size
    /\ Stored(key1)
    /\ key1 = key2
    /\ pc' = "hang"
    /\ UNCHANGED <<capture, read, slot, nodes, nindex, pcaps, handed>>

\* The file's name or pcap_dump_open fails: the process exits.
DumpFails ==
    /\ pc = "dump" /\ cindex + 1 < Size
    /\ pc' = "exit"
    /\ UNCHANGED <<capture, read, slot, nodes, nindex, pcaps, handed>>

\* There is no memory for the copy of a packet, its key or its node, for the
\* key of the other direction or for the name of a text: the process exits.
OutOfMemory ==
    /\ \/ pc = "hash" /\ read < Len(capture) /\ IsTcp(capture[read + 1])
       \/ pc \in {"tidy", "write"} /\ cindex + 1 < Size
    /\ pc' = "exit"
    /\ UNCHANGED <<capture, read, slot, nodes, nindex, pcaps, handed>>

\* All but the walk that hands chains out.
Prepare == \/ HashPacket \/ HashEnd \/ ClassifyChain \/ DumpChain \/ DumpFails
           \/ TidySingle \/ TidyPair \/ TidySelf \/ OutOfMemory
Next == Prepare \/ WriteChain \/ WalkEnd
Spec == Init /\ [][Next]_vars /\ WF_vars(Next)

-----------------------------------------------------------------------------
Slots  == DOMAIN nodes
Filled == {s \in Slots : nodes[s] # <<>>}
AsCaptured(p) == CHOOSE c \in Captured : c.n = p.n

\* Prepending, sorting, joining and moving chains neither lose nor double a
\* packet: each packet read is in the table once.
PacketsKept ==
    LET held == {h \in Slots \X (1..read) : h[2] \in DOMAIN nodes[h[1]]}
        id(h) == nodes[h[1]][h[2]].n
    IN  /\ {id(h) : h \in held} = {p.n : p \in Captured}
        /\ Cardinality(held) = Cardinality(Captured)

\* Every chain hangs where get_hash_index looks for the key of its first
\* node, also after the joined chain has been moved.
ChainsAtHome == \A s \in Filled : slot[Head(nodes[s]).key] = s

\* A pcap file is the whole of one direction, headers untouched, in TCP's
\* order.
PcapsAreFlows ==
    \A f \in pcaps :
        /\ ToSet(f.packets) = {p \in Captured : p.key = f.key}
        /\ InWindow(f.packets) => InOrder(f.packets)

\* Once the flows are tidied, the two directions of a connection are in one
\* chain.
PairsJoined ==
    pc \in {"write", "end"} =>
        \A s, t \in Filled : Head(nodes[s]).key = Reversed(Head(nodes[t]).key) => s = t

\* The headers of a chain are as captured, or the numbers of all of them are
\* exchanged; in no chain they are mixed.
HeadersConsistent ==
    pc \in {"write", "end"} => \A s \in Filled :
        \/ \A j \in DOMAIN nodes[s] : nodes[s][j] \in Captured
        \/ \A j \in DOMAIN nodes[s] : Exchange(nodes[s][j]) \in Captured

IsSyn(p)    == p.syn /\ ~p.ackflag
IsSynAck(p) == p.syn /\ p.ackflag

\* The packets of a chain with the numbers they were captured with, those of
\* the other direction exchanged: what orders a conversation for one side.
SeenFrom(c, k) == [j \in DOMAIN c |-> LET p == AsCaptured(c[j])
                                     IN  IF p.key = k THEN p ELSE Exchange(p)]

\* A SYN and the SYN+ACK of the other side.  The requester sends no SYN+ACK,
\* and nothing the responder sends comes before its own: combine_tcp_nodes
\* takes the side whose chain starts with a SYN+ACK for the responder.
Opens(c, j, k) ==
    /\ IsSyn(c[j]) /\ IsSynAck(c[k]) /\ c[j].key # c[k].key
    /\ \A i \in DOMAIN c :
          IF c[i].key = c[j].key THEN ~IsSynAck(c[i])
          ELSE IsSynAck(c[i]) \/ Compare(AsCaptured(c[k]), AsCaptured(c[i])) < 0

\* A connection whose SYN and SYN+ACK were captured is in the order in which
\* the requester saw it, whichever of its slots comes first.
RequesterOrder ==
    pc \in {"write", "end"} => \A s \in Filled :
        LET c == nodes[s]
        IN  \A j, k \in DOMAIN c :
                Opens(c, j, k) /\ InWindow(SeenFrom(c, c[j].key)) =>
                    InOrder(SeenFrom(c, c[j].key))

\* A chain that holds the three packets of a handshake, untouched.
HoldsHandshake(c) ==
    /\ ToSet(c) \subseteq Captured
    /\ \E j, k, l \in DOMAIN c :
          /\ IsSyn(c[j]) /\ c[j].key = c[l].key /\ c[k].key = Reversed(c[j].key)
          /\ j # l /\ Handshake(<<c[j], c[k], c[l]>>)

\* Nothing of the connection comes before the handshake is complete, and what
\* ties with the packet that completes it would complete it as well.
PlainOpening(c, j, k, l) ==
    LET e == SeenFrom(c, c[j].key)
    IN  /\ ToSet(c) \subseteq Captured
        /\ Opens(c, j, k) /\ c[l].key = c[j].key /\ Handshake(<<c[j], c[k], c[l]>>)
        /\ \A i \in DOMAIN c \ {j, k, l} :
              \/ Compare(e[l], e[i]) < 0
              \/ Compare(e[l], e[i]) = 0 /\ c[i].key = c[l].key /\ c[i].ackflag

\* Then the first three packets of the chain are a handshake.
PlainHandshakeFound ==
    \A m \in DOMAIN handed :
        LET c == handed[m]
        IN  \A j, k, l \in DOMAIN c :
                PlainOpening(c, j, k, l) /\ InWindow(SeenFrom(c, c[j].key)) => Handshake(c)

NoSelfFlow == \A j \in DOMAIN capture :
                IsTcp(capture[j]) => capture[j].key # Reversed(capture[j].key)

\* Without a connection of an endpoint with itself all passes come to an end.
Ends == NoSelfFlow => <>(pc \in {"end", "exit", "crash"})

-----------------------------------------------------------------------------
\* main.c:290 "recovery seq and ack in original node2": what the text files
\* are made from has the headers that were captured.
HeadersRestored ==
    pc \in {"write", "end"} =>
        \A s \in Filled : ToSet(nodes[s]) \subseteq Captured

\* main.c:328 "check three handshake and return last handshake node".
HandshakeFound ==
    \A m \in DOMAIN handed : HoldsHandshake(handed[m]) => Handshake(handed[m])
=============================================================================
