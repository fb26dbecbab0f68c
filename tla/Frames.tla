------------------------------- MODULE Frames -------------------------------
(***************************************************************************)
(* From the bytes of a captured frame to the data of its TCP segment: ip.c *)
(* and tcp.c follow the headers by their offsets, for is_tcp when a packet *)
(* is stored and for the data when it is written.  A frame is described by *)
(* what its sender put into it; a read at an offset where no header of the *)
(* kind begins, or of bytes that were not captured, may find anything.     *)
(***************************************************************************)
EXTENDS Integers

CONSTANTS Sent,       \* frames on the wire
          NoiseIp,    \* what may be read where there is no IP header
          NoiseTcp,   \* and what th_off may be where there is no TCP header
          SizeSpace   \* 2^64 in the code: how many values size_t has

\* A frame as its sender made it.  Only IPv4 has options; "extension" stands
\* for what else than a transport protocol may follow an IPv6 header.
OptionLens == {4 * w : w \in 0..10}
MostData   == 65000
Frame == [net : {"ip4", "ip6", "arp"}, tags : Nat, ipopts : OptionLens,
          proto : {"tcp", "udp", "extension", "none"}, tcpopts : OptionLens,
          fragment : {"none", "first", "later"}, offloaded : BOOLEAN,
          data : 0..MostData, padding : Nat, cut : Nat]

ASSUME SentAssumption == /\ Sent \subseteq Frame
                         /\ \A f \in Sent : f.net = "arp" => f.proto = "none"
\* th_off has four bits.
ASSUME NoiseAssumption == NoiseTcp \subseteq 0..15
\* An unsigned difference that wraps exceeds every packet.
ASSUME SizeSpaceAssumption == SizeSpace \in Nat /\ SizeSpace > 65535 + 120

VARIABLES frame,      \* the frame at hand
          ip,         \* where get_ip_header says its IP header is
          from, len,  \* the data that is written: first byte and length
          pc

vars == <<frame, ip, from, len, pc>>

-----------------------------------------------------------------------------
\* A frame on the wire: the Ethernet header, tags of type 0x8100, the IP
\* header, and the TCP header and data, another protocol, or only the data
\* of a later fragment; then padding.  `cut' bytes of it are not captured.
EtherLen(f)  == 14 + 4 * f.tags
IpLen(f)     == IF f.net = "ip4" THEN 20 + f.ipopts ELSE 40
TcpLen(f)    == IF f.fragment = "later" THEN 0 ELSE 20 + f.tcpopts
DataFrom(f)  == EtherLen(f) + IpLen(f) + TcpLen(f)
DataPast(f)  == DataFrom(f) + f.data
Captured(f)  == DataPast(f) + f.padding - f.cut

\* A two-byte field as a little-endian machine reads it: htons, ntohs.
Swapped(x) == (x % 256) * 256 + x \div 256

\* What ip_len and ip6_plen count.  A segmenting network card leaves 0.
Length(f) == IF f.offloaded THEN 0
             ELSE DataPast(f) - EtherLen(f) - (IF f.net = "ip4" THEN 0 ELSE 40)

Ip4Header(hl, proto, length) == [version |-> 4, hl |-> hl, proto |-> proto, length |-> length]
Ip6Header(proto, length)     == [version |-> 6, hl |-> 0, proto |-> proto, length |-> length]

IpHeader(f) == IF f.net = "ip4"
               THEN Ip4Header(IpLen(f) \div 4, f.proto, Swapped(Length(f)))
               ELSE Ip6Header(f.proto, Swapped(Length(f)))

\* What a read of the IP header at an offset, of the TCP header's th_off may
\* find.  ARP begins with two bytes whose version nibble is 0.
IpHeaders(f, at) ==
    IF at # EtherLen(f) \/ at + IpLen(f) > Captured(f) THEN NoiseIp
    ELSE IF f.net = "arp" THEN {[version |-> 0, hl |-> 0, proto |-> "none", length |-> 0]}
    ELSE {IpHeader(f)}
TcpOffsets(f, at) ==
    IF at # EtherLen(f) + IpLen(f) \/ f.proto # "tcp" \/ f.fragment = "later"
          \/ at + 20 > Captured(f)
    THEN NoiseTcp ELSE {TcpLen(f) \div 4}

Init == /\ frame \in Sent
        /\ ip = 0 /\ from = 0 /\ len = 0
        /\ pc = "read"

-----------------------------------------------------------------------------
\* get_ip_header: one tag is skipped, whatever stands behind it.
EtherOffset(f) == IF f.tags > 0 THEN 18 ELSE 14

\* hash_all_pcap_item: the frame is neither tagged nor IPv4 nor IPv6.
SkipUnknown ==
    /\ pc = "read"
    /\ frame.tags = 0 /\ frame.net \notin {"ip4", "ip6"}
    /\ pc' = "skipped"
    /\ UNCHANGED <<frame, ip, from, len>>

LocateIp ==
    /\ pc = "read"
    /\ frame.tags > 0 \/ frame.net \in {"ip4", "ip6"}
    /\ ip' = EtherOffset(frame)
    /\ pc' = "located"
    /\ UNCHANGED <<frame, from, len>>

\* is_tcp: the version chooses where the protocol is read.  Fragments are
\* not told from whole packets.
IsTcp(h) == h.version \in {4, 6} /\ h.proto = "tcp"

Select ==
    /\ pc = "located"
    /\ \E h \in IpHeaders(frame, ip) : pc' = IF IsTcp(h) THEN "stored" ELSE "skipped"
    /\ UNCHANGED <<frame, ip, from, len>>

\* Mutant of HeaderLen: no options.
HeaderLenFixed(h) == IF h.version = 4 THEN 20 ELSE 40

\* get_transport_layer_header.
HeaderLen(h) == IF h.version = 4 THEN h.hl * 4 ELSE 40

\* Mutant of DataLength: the IPv6 header is taken off its payload's length.
DataLengthAlike(h, off) ==
    (Swapped(h.length) - (HeaderLen(h) + off * 4)) % SizeSpace

\* get_tcp_data_length: an unsigned difference.
DataLength(h, off) ==
    (Swapped(h.length) - ((IF h.version = 4 THEN h.hl * 4 ELSE 0) + off * 4)) % SizeSpace

\* get_tcp_data_n and get_tcp_data_length_n, on the copy of the captured
\* bytes that create_pcap_item made.  Version and protocol are as they were
\* when the packet was selected; what lies behind the copy need not be.
Write ==
    /\ pc = "stored"
    /\ \E h \in {x \in IpHeaders(frame, ip) : IsTcp(x)} :
          \E off \in TcpOffsets(frame, ip + HeaderLen(h)) :
              /\ from' = ip + HeaderLen(h) + off * 4
              /\ len' = DataLength(h, off)
    /\ pc' = "written"
    /\ UNCHANGED <<frame, ip>>

Next == SkipUnknown \/ LocateIp \/ Select \/ Write
Spec == Init /\ [][Next]_vars

-----------------------------------------------------------------------------
Ended == pc \in {"skipped", "written"}

\* The headers were captured, the frame has at most one tag, its length
\* field is filled in, and a TCP header follows the IP header.
Plain == /\ frame.tags <= 1 /\ ~frame.offloaded /\ frame.fragment # "later"
         /\ Captured(frame) >= DataFrom(frame)

\* Of a plain frame exactly the data its sender put in is written, whatever
\* the headers' options and the padding behind it; and a plain frame is
\* skipped only if it carries no TCP segment right behind its IP header.
DissectsAsSent ==
    Ended /\ Plain =>
        IF frame.net \in {"ip4", "ip6"} /\ frame.proto = "tcp"
        THEN pc = "written" /\ from = DataFrom(frame) /\ len = frame.data
        ELSE pc = "skipped"

\* Nothing behind the captured bytes is taken for data - unless the frame
\* was cut off, has a second tag, or its length field does not cover what
\* is taken for a TCP header: a segmenting card's 0, a short last fragment.
ReadsWhatWasCaptured ==
    pc = "written" /\ frame.cut = 0 /\ frame.tags <= 1 /\ ~frame.offloaded
          /\ (frame.fragment = "later" => frame.data >= 60) =>
        from + len <= Captured(frame)
=============================================================================
