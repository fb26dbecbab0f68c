# TCP-Reassembler in TLA+

TCP-Reassembler reads a pcap file and writes two directories: `pcaps`, one pcap
file per direction of a connection, and `reqts`, one text file per connection
with the data both sides sent. This directory models what the program does
between reading a packet and writing a byte, checks it with TLC on small
instances, and proves every safety property among them for all instances with
TLAPS.

Line numbers are those of `src/src/` (`main.c`, `lib/hash.c`, ...).

## The system

| Component | State | Operations | Modules |
|---|---|---|---|
| Hash table (`lib/hash.c`) | slot array, size, hash function | insert, rehash, get | `KeyedStore`, `HashTable` |
| The program's one table (`hash.c:37-92, 169-194, 228-301`) | the static pointer, the functions set | make, set functions, remove, empty, make anew, destroy | `TableLife` |
| Table walk (`lib/hash.c:196-221`) | iterator index | begin, next | `TableWalk` |
| Packet order (`main.c:115-212`) | the lists of a merge sort | compare, sort | `TcpPackets`, `MergeSort` |
| Flow passes (`main.c:214-324, 465-549`) | the chains, the running walk | store, sort, dump, join directions, hand over | `FlowTable` |
| Reassembly (`main.c:330-463`) | position, offset, two headers, the file | write, judge the next packet, close | `Reassembly` |
| Packet headers (`ip.c`, `tcp.c`, `main.c:35-64, 516-529`) | none | find headers, choose TCP, position and length of the data | `Frames`; elsewhere as data of a packet |
| Address text (`network.c`, `ip.c:118-160`) | the loops' counters and runs | address to text, flow key | `AddressText` |
| Result directories (`main.c:483-506`, `lib/mydirent.c:588-623`) | file tree, recursion | locate, remove, make | `ResultDirs` |
| The program (`main.c:465-549`) | all of it | from the capture to the text files | `Program` |
| Utilities (`lib/util.c`, `lib/file.c`) | none | allocate, open, report | their failures, in the modules that use them |
| Windows `dirent`, libpcap | | | vendored, external |

`Frames` stands before the passes: it says which packet a frame becomes. One
thread runs the passes one after another. `hash_all_pcap_item` puts every
TCP packet in front of the chain of its flow key. `classify_...` sorts each
chain, `write_pcaps_to_files` dumps it. `tidy_...` joins the two directions of
a connection: it exchanges the sequence and acknowledgement numbers of one
side's headers *in place*, puts its nodes in front of the other chain, sorts
and undoes the exchange. `write_tcp_data_to_files` writes each chain's data.
All passes use the same walk, and they communicate through the chains only.

There is no concurrency. What is hard is the data: segments in any order,
repeated and overlapping; sequence numbers that wrap; the order in which equal
packets end up; which direction's slot is met first; a table that is rebuilt in
the middle of an insertion and changed during a walk; failures that exit the
process. What makes each component correct:

* the table: no insertion or rehash loses a packet or mixes two keys, and an
  insertion comes back or the process exits because no memory is left;
* the walk: every chain once;
* the sort: the same packets, in TCP's order, ties in the order they had;
* the passes: packets kept, headers as captured, the two directions in one
  chain, in the requester's order, with the handshake first;
* the headers: exactly the bytes the sender put into the segment, whatever
  surrounds them;
* the life of the table: each item freed once, with the function asked for;
* the reassembly: no byte lost, no byte twice, in order, messages delimited,
  and no read outside a packet;
* the whole: what was captured of a connection is in its text, replies behind
  their requests.

`PROJECT.json` lists the hazards line by line.

## Modules

**`KeyedStore`** is the abstract specification of the table: a chain per key,
insertion in front, and stopping for good. **`HashTable`** is `hashtbl_insert`
and `hashtbl_rehash`, one action per loop iteration: `InsertCall` enters the
call, `StartRehash` is the call of `hashtbl_rehash` when the slot holds a
foreign chain, `SkipEmpty`/`MoveChain`/`RestartRehash` are the iterations of
the copying loop, `FinishRehash` its end and the next turn of the `while` loop,
`LinkNode` the tail. `calloc` above `MaxSize` slots fails and exits, and so does
the tail when there is no memory for the node or its key (`LinkFails`). The
program only inserts while it fills the table (`Spec`). `AsInt` is the cast in line 123. A hash function is a function
from keys to `HashValues`, chosen in `Init`, so every collision pattern occurs.
**`HashTable_proofs`** holds its theorems and those of the walk.

**`TableLife`** extends `HashTable` with the rest of `lib/hash.h` and the
instance `get_hash_table` keeps: `SetFunctions` (the three setters), `Remove`,
`Empty`, after which the table has no slots and the next call makes one anew
(`Recreate`, or `RecreateFails` and exit without memory), `Destroy`, and `RemoveNode`, which leaves a slot pointing at a
freed node and so ends the model. `freed` is the history of the data pointers,
`asked` the function the program set last. Its theorems are in `HashTable_proofs`
too.

**`TableWalk`** extends `HashTable` with the iterator: first any filling of the
table, then one walk, with the slots handed out as a history. The properties of `HashTable` are checked on it
too, during the filling and the walk.

**`TcpPackets`** has the packet as a record (key, SYN and ACK flags, numbers,
length of the data, and `n`, which tells equal packets apart) and the pure
functions: `SeqDiff`, `Compare`, the sort as a recursive function
`SortPackets`, the joining `Joined` and the test `Handshake`. **`MergeSort`**
is the sort as the loops of `sort_pcap_packets`: the cells are in the merged
list, the run at `p`, or the rest from `q` on, and each action moves one cell
or ends a merge or a pass. **`TcpPackets_proofs`** says what the functions
compute, and what that takes to know about recursive functions;
**`MergeSort_proofs`** says that the loops compute the same.

**`FlowTable`** runs the passes. It takes the table as `HashTable` leaves it,
every captured key in a slot of its own (`OneKeyPerSlot` is what allows that),
and a key that was not captured in any slot. `Swapped`, `hash1`, `hash2`,
`Recovered` and `Home` are the steps of `combine_tcp_nodes`. Allocations and
`pcap_dump_open` may fail at any chain or packet (`OutOfMemory`, `DumpFails`) and
end the process.

**`Frames`** follows the headers of one frame. The frame is described by what
its sender put in (tags, IP and TCP options, fragment, padding, data) and how
much the capture left out; reading a header where none begins, or behind the
captured bytes, gives any of the constants `NoiseIp` and `NoiseTcp`, a new
choice at every read. `LocateIp`, `Select` and `Write` are `get_ip_header`,
`is_tcp` and the two functions that give the position and the length of the
data.

**`Reassembly`** is `write_tcp_data_to_file` on one chain. `WriteData` or
`NothingToWrite` is the first half of a loop turn; `JudgeContinuing`,
`JudgeOther` or `JudgeThroughNull` the second, which chooses the header to
judge by, computes the offset and writes the delimiter. Header pointers are
positions in the chain. The file is a sequence of pieces, a piece being the
data of a packet from an offset on. **`Reassembly_proofs`** holds its theorems.

**`Program`** composes the two: it extends `FlowTable` and instantiates
`Reassembly` on variables of its own. `OpenText` is the call of
`write_tcp_data_to_file` for the chain `WriteChain` hands out; while the text is
written the passes wait, `CloseText` keeps the finished file under the chain's
key, and a write that fails, or the null header, ends the process (`BreakOff`).
**`Program_proofs`** holds the theorems about `FlowTable` and `Program`.

**`AddressText`** is `_inet_ntop` and the half of a flow key made of its text.
The scan for the longest run of zero words and the writing of the words are one
action per loop turn (`ScanZero`/`ScanWord`/`ScanEnd`, `WriteRun`/`WriteWord`/
`WriteIPv4`/`FormatEnd`); the IPv4 text has no state between its bytes and is one
action. A text is a sequence of separators and numbers, a number being what its
digits say in base 16. `Reading` is the reference: how RFC 4291 reads a text, one
part (`PartWords`) on each side of the `::`. **`AddressText_proofs`** holds its
theorems.

**`ResultDirs`** is `init_environment`. The recursion of `removedir` is a stack
of frames with the entries not read yet; an action reads an entry, opens a
directory or returns. `Locate` is `getdirname` and `pathcat`, whose read before
an empty string is a choice. Links, `ELOOP` (`MaxLinks`) and directories in which
nothing can be removed are the environment's; `IsTree` says what holds of every
file system, and that a link is given with where it leads in the end. Beyond what
the tree explains any `opendir`, `stat`, `unlink`, `rmdir` or `mkdir` may be refused
(`RemoveRefused`, `ReadRefused`, `Return`, `MakeDirs`), for want of a right, of
memory or of a descriptor, of which every level of the recursion keeps one;
`refused` is where that happened. A path may lack memory, which exits
(`OutOfMemory`), and `Open` may fail for a capture that is there.
**`ResultDirs_proofs`** holds its theorems.

A definition introduced as a *mutant* is a wrong variant of the definition
after it: with it in place the property it is listed with in `PROJECT.json`
fails. Nothing else uses it.

## Runs

| Run | Shows |
|---|---|
| `table` | slots never mix keys; one doubling is always enough; a rehash gives up only if no array that fits tells the keys apart; `HashTable` implements `KeyedStore`, so that no rehash loses or mixes a chain; a walk hands out all filled slots but the last, each once |
| `hash_table_api` | the interface in any order: chains hold one key, insertions return, removing a stored key touches no other, every item is freed once and with the function set last, over any number of tables made anew |
| `walk_all`* | the last slot's flow is never processed |
| `merge_sort` | no packet is lost at any step; sorted and stable in a window; equals `SortPackets`; ends even where the comparison is cyclic |
| `reassembly` | nothing skipped that is not written; one exchange written once and in order; messages delimited; positions and offsets in range |
| `wraparound`* | data behind a wrap of the sequence number is left out |
| `frames` | of a frame with at most one tag, its headers captured, exactly the data sent is written, and it is skipped only if there is no TCP header behind its IP header; bytes that were not captured are taken for data only in the cases the property names |
| `program` | packets kept; pcap files are whole flows in order; chains where `get_hash_index` finds them; directions joined, in the requester's order; headers never mixed; plain handshakes found; every byte of a connection the program can put together is in its text; replies stand behind their requests; the program ends |
| `headers_restored`* | the requester's slot behind the responder's: headers stay exchanged |
| `handshake`* | a handshake that is there is not found |
| `address_text` | the shortened run is the longest; a text reads back as its address; texts and keys fit their buffers; only an address that embeds an IPv4 address can share a key with one that does not |
| `result_dirs` | old results never stand among new ones unless `removedir` met something it cannot remove or a call it makes was refused; nothing else is removed, except behind a link; the recursion ends even where a link leads back up |

Runs with * end in a violation: they check what a comment or the README of the
repository says and the code does not do. `PROJECT.json` quotes the line with
each. The built program was run on small captures made for these traces and
behaves as the counterexamples say, except for `walk_all`, which rests on the
code alone.

Some defects show in a passing property as its limit. `NullOnlyAfterHandshake`
says when the null `ptcp_pkt` is followed: if the packet right after the handshake
is the responder's and acknowledges number 0. Outside `OneExchange` a repeated
segment can be written twice, because `ip_hdr1` stays behind when the
acknowledgement number changes (`main.c:450-452`). `KeyTellsApart` leaves
`::FFFF:1.2.3.4` and `::FFFF:1:2:3:4` with one key. `OthersKept` leaves a link
among old results to empty the directory it leads to, and the directories links
in there lead to (`LinkedFrom`). `Obstacle` lists what makes `removedir` give up
and old results stay: refused calls, locked directories, and links that lead nowhere
or to a directory. `Ends` leaves out a
connection of an endpoint with itself: its chain is put in front of itself and
the sort never returns (`TidySelf`). `ReadsWhatWasCaptured` names the frames of
which too much is written: those cut off by the snap length, with a length field
of 0, with a second tag, and short last fragments; `ip_off` is never looked at.

Two more defects of `lib/hash.c` have no run because the program does not meet
them: `hashtbl_remove` of a key
that is not stored frees the chain that has its slot (`RemovalIsPrivate` is
about stored keys), and from 2^31 slots on the cast to `int` makes a rehash copy
nothing (set `IntLimit` to 4 in `MCTableWalk.cfg`, and `ImplementsStore` fails).

Properties are conditional where the code cannot do better, and the conditions
are themselves definitions: `NumbersAscend` and `AcksApart` (no wrap; the
directions acknowledge different numbers), `OneExchange` (one request and one
reply), `InWindow` (numbers within half the number space), `Opens` and
`PlainOpening` (nothing of the responder stands before its SYN+ACK, nothing at
all before the handshake is complete), `Promised` (the connections `Program`
answers for).
The violated runs show what happens outside them.

### Bounds

* `table`: three keys, three insertions, initial size 2, five
  hash values, at most 8 slots. Two keys that collide once, twice or for ever,
  a third stored already, and the failing `calloc` all occur. `IntLimit` is 16,
  out of reach.
* `hash_table_api`: two keys, three items, two free functions; every order of
  calls, so that the table is emptied and made anew up to the last item.
* `frames`: all combinations of no, one and two tags, three protocols, no or the
  most IP options, three lengths of TCP options, data that needs padding and data
  longer than one byte of a length counts, whole packets and both kinds of
  fragments, offloading, and a capture that lacks the data or the headers.
  `SizeSpace` is 2^20: larger than any packet is all that matters.
* `merge_sort`: chains of up to five out of six packets: three passes, runs that
  end early, ties, and a cycle of the comparison. `SeqSpace` is 8.
* `reassembly`: three handshake packets and every arrangement of up to four
  out of eleven: two segments of a request, both in one, an overlapping one, a
  second request and its repetition, an overlapping reply, a bare
  acknowledgement and a reset with acknowledgement number 0. Chains come from
  captures in every order through `Joined`, as the passes make them. `SeqSpace`
  is 64 and the requester's first number 50, so that a wrap is close, or 60 in
  `wraparound`.
* `program`: a handshake, a request, an overlapping repetition of a part of it
  and a reply, in every order behind the SYN, or with any one of them missing; the
  SYN last; a second connection, a packet that is not TCP, one to itself; a
  reset across the wrap of the numbers, which leads to the null header; the same
  endpoints with a second connection; a packet the responder sent before its
  SYN+ACK. Four slots, the two of the connection
  placed anywhere, the last one included. `SeqSpace` is 16.
* `headers_restored`, `handshake`: the same connection without the repetition;
  in `handshake` the responder speaks first.
* `address_text`: all IPv6 addresses over a zero, a three-digit and a four-digit
  word, and all IPv4 addresses over seven bytes of one, two and three digits
  with zeros inside. Every arrangement of zero words occurs.
* `result_dirs`: `/dir` with the capture and two result directories, files and a
  subdirectory among the results, each there or not, and at most one link (in the
  subdirectory or in place of `reqts`) to a file elsewhere or among the results, a
  directory elsewhere, nothing, or back up; in the directory elsewhere perhaps a
  second link to a third directory; any one directory locked; any call refused, in
  any of these trees. `MaxLinks` is 2 instead of 40.

`CHECK_DEADLOCK FALSE` is in every cfg because a finished program stops.

### Fairness

Weak fairness of the program's own next step, nowhere more: one thread, nothing
in it blocks. In `HashTable` only the steps inside a call are fair (`Step`);
nobody has to call `hashtbl_insert`, in `TableLife` any other function.

## Proofs

All proofs are of the specifications TLC checks, for every value of the
constants that meets the named assumptions of the modules:

* `HashTable`: sizes are positive, hash values natural. Two theorems also assume
  `InitSize < IntLimit` and `MaxSize < IntLimit`, where the cast to `int` changes
  nothing.
* `TcpPackets`: `SeqSpace` is even. `MergeSort`, `Reassembly`: chains consist of
  packets; those `write_tcp_data_to_file` gets have at most two keys, which is
  what `AtHome` proves of the chains of `FlowTable`.
* `FlowTable`: reversing a key twice gives the key, slots are below the size, and
  a number names one packet of a capture.
* `AddressText`: words and ports have 16 bits, bytes 8 (`NumbersAssumption`).
* `ResultDirs`: whatever is above an entry is a directory, a link is given with its
  final target, and the capture has a name (`TreesAssumption`); a file system has
  finitely many entries (`FiniteTreesAssumption`).
* `Frames`: a header length read where no header begins has four bits, and no
  packet is as long as an unsigned difference that wraps.

### What is proved

* **The table** (`HashTable_proofs`). The invariant is the conjunction of the
  type invariant, one key per slot, the copied part of a running rehash
  (`RehashedSoFar`), and that an insertion under way has a key. The heart is
  arithmetic: if `a % n` and `b % n` differ, so do `a % (2n)` and `b % (2n)`;
  chains that had different slots never meet in the new array (`SlotsHoldOneKey`,
  `RestartIsDead`). `TableImplementsStore` is the refinement of `KeyedStore`:
  `RehashedSoFar` is what makes `FinishRehash` a stutter. For `RehashExitIsJustified`
  the invariant is that the size lies `Between` the sizes a table can have: each of
  those up to it divides it, so that keys that collide now collided in each of
  them, and the next one is too large for `calloc`. `WalkIsComplete` counts the filled slots behind the
  iterator.
* **Its life** (`HashTable_proofs`). That every item is freed once needs to be
  said of the items in the table, in the arrays of a rehash and in the history
  at once; the free function of an emptied table is the one its successor gets.
* **The sort** (`TcpPackets_proofs`, `MergeSort_proofs`). `SortPutsInOrder`,
  `SortKeepsPackets` and `SortIsStable` are proved of the recursive functions,
  for lists of any length. The library's induction theorems take an operator as
  a parameter, which the provers cannot instantiate; here induction is a step of
  first-order logic instead: a set of numbers that is not empty has a least one
  (`MinIsLeast`), so that a set of arguments of which each is in it once the
  smaller ones are is the whole set (`MeasureInduction`), and a recursive function
  obeys its equation (`RecursionSolved`). `LoopsComputeSort` carries through the
  loops that what is merged so far, together with what the functions make of the
  rest, is the result.
* **The passes** (`Program_proofs`). `IInv` says of every chain that it holds
  packets of one key, or of both directions with the headers all as captured or
  all exchanged (`AtHome`); that a packet is in one chain once (`FiledIn`); that
  all packets of a key are in one chain (`OneChainPerKey`); and, by pass, which
  chains are sorted and which are joined (`Phased`). Without it none of the
  properties is inductive: `TidyPair` relies on both chains being one-sided and
  in order. `SeenInv` adds for the order of a conversation that a chain with both
  directions is in the requester's order (`TableSeen`). Because the last slot is
  never sorted, `ToTidy` leaves it out, and joining sorts it after all.
* **The reassembly** (`Reassembly_proofs`). `TypeCorrect`: the overlap never
  exceeds the data of the packet it is applied to. `AllBytesWritten` and
  `OffsetIsRight`: `NoByteLost` alone is not inductive, since a write that begins
  at an offset relies on the bytes before it. Together with `SkippedWritten` it
  is: an offset is measured against a packet of the same key (`AcksApart`) that
  begins no later (`NumbersAscend`), so that the bytes skipped are bytes of that
  packet, which has been dealt with; and the file only grows. `ExchangeInOrder`
  follows the furthest byte each direction has written.
* **The texts** (`Program_proofs`). `TextsComplete` joins the two: `FaithInv` says
  that a chain whose requester's slot comes first holds its headers as captured, and
  `IInv` that none is missing; the invariants of `Reassembly` hold of the text
  being written, by instance; and `TextsInv` says that every chain the walk has
  passed has a text, each made of such a chain. `Promised` asks that SYN packets
  carry no data because the program writes none of theirs.
* **The headers** (`Frames_proofs`). One state per function; the work is the
  arithmetic of the lengths.
* **The addresses** (`AddressText_proofs`). `LongestInv`: every run of zeros
  that has ended is weighed against the best one, and the current run begins
  behind a word that is not zero. `FitsInv`: five characters per word, one for a
  run before an embedded IPv4 address; so that 45 is the most. `LayoutInv` says
  at which place of the text each word and separator stands, with the three ways
  a text can end (`PartlyWritten`, `IPv4Written`, a run up to the end); `Final`
  is what is left of it at the end, and `FinalReadsBack` that `Reading` then
  gives the address: a text in which numbers and separators alternate
  (`Alternates`) has no doubled separator and those numbers, and a shortened one
  has just one doubled separator between two such parts (`Doubled`). `EmbedsIff`
  ties what the loop tests to the definition of an address that embeds another.
* **The result directories** (`ResultDirs_proofs`). `KeptInv`: until directories
  are made the tree only shrinks (`Shrunk`), and every frame of the recursion has a
  path, and entries to read, that are at or below a result directory or below a
  place links lead to (`MayGo`). `GoneInv`: while the target has no obstacle - and so no call below
  it was refused - each directory being removed still has its children in `unread` or in the frame above it, and no
  result was -1 (`Unhindered`); so its frame ends with an empty directory that
  `rmdir` takes.

* **The first pass and the table** (`Program_proofs`). `FlowTable` takes the table
  as `HashTable` leaves it. `HashPassFillsStore` says that this is the same table:
  seen as the chains of the keys, the turns of `hash_all_pcap_item` are insertions of
  `KeyedStore`, the specification `HashTable` implements. It needs that a chain
  in the slot of a captured key is that key's (`FoundUnder`).
* **The exchanged headers** (`Program_proofs`). `HeadersRestored` is violated;
  `RestoredRequesterFirst` is the condition under which it holds for a chain, which
  `TextsComplete` rests on.
* **Nothing goes on for ever.** A variant is proved to fall with every step, for any
  input: a natural number for the sort (`EveryStepSorts`), for an insertion
  (`EveryTurnInserts`; `EveryTurnInsertsStill` where the hash function has been
  exchanged and `hashtbl_rehash` starts over) and for the whole program
  (`EveryStepEnds`: what is left of the passes, times the room a text takes, plus what
  is left of the text). There a sort is a single step, with its own variant, and the
  step of a self-flow into the sort that never ends (`TidySelf`) is left out: of it
  nothing falls. The sort's does not use the comparison, since a cyclic one must
  not keep it going. For the insertion, memory bounds the doublings. For the removal a number is not enough, because
  a directory that is opened brings new entries: `RemovalDescends` counts, for each depth of
  the recursion, what is left there, and compares the lists lexicographically. That
  the lists have one length is `RecursionIsBounded`: each call is one entry below its
  caller or one link further, and paths with too many links fail.

Some properties were false as first stated, and the attempt to prove them showed
it. `RequesterOrder` and `PlainHandshakeFound` fail if the responder has a
packet before its SYN+ACK, since `combine_tcp_nodes` tells the sides apart by
the first packet of a chain; `Opens` and `PlainOpening` are the conditions under
which they hold. `TextsComplete` cannot hold of data in a SYN packet, which
`Promised` therefore leaves out. `OldResultsGone` failed for a link among the
results to another file among them: once that file is removed the link leads
nowhere, `stat` fails and the removal stops. `OthersKept` failed for a link that
leads to a directory with a link in it, which is followed as well.

### What is model-checked only

* Liveness (`InsertReturns`, `Terminates`, `Ends`, `RemovalEnds`): ENABLED and
  fairness are outside the prover's reach. What is proved is that no behaviour can
  take steps for ever, but for the sort of a self-flow; that the program does not stop half way, with no step
  enabled, is TLC's part.

Every other property of a passing run is a theorem. The value of `DigitsOf`, which
is recursive, is not used in any proof: the port is one token behind the address.

## Not modelled

* Header fields nothing reads (checksums, windows), big-endian machines, and
  length fields that contradict the packet other than as `Frames` has them.
* The table under the passes is that of `HashTable` after its last insertion; its
  rehashing does not interleave with them.
* In `FlowTable` and `Reassembly` keys are values that are equal exactly when the
  endpoints are; `KeyTellsApart` says for which addresses that is so.
* What other processes do to the result directories meanwhile.
* Memory that is leaked: the `HASHTBL` an emptied table leaves behind, keys.
* `http_path` beyond `MakeDirs`, the counting functions of `lib/hash.c`, and the
  text and file helpers of `lib/util.c` and `lib/file.c`, which nothing calls;
  `def_hashfunc` is any hash function.
* The vendored `dirent` for Windows and libpcap's own code.

## Plan

Done: the modules above and the proofs listed.

Next:

1. Proofs: what `DigitsOf` computes; composing `HashTable` with the passes, of which
   `TableImplementsStore` and `HashPassFillsStore` are the two halves.
2. Traffic: two endpoints that send, lose, repeat and reorder, as the source of
   captures instead of enumerated ones.
