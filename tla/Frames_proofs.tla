---------------------------- MODULE Frames_proofs ----------------------------
(***************************************************************************)
(* Proofs about Frames for all frames: any number of tags, any options,    *)
(* any data, padding and cut, and whatever else memory holds.              *)
(***************************************************************************)
EXTENDS Frames, TLAPS

-----------------------------------------------------------------------------
(* Reading the fields that a sender filled in.                             *)

\* A length survives htons and ntohs.
LEMMA SwapTwice ==
    ASSUME NEW x \in Nat, x <= 65535
    PROVE  Swapped(Swapped(x)) = x
<1> DEFINE hi == x \div 256
           lo == x % 256
           y  == lo * 256 + hi
<1>1. hi \in 0..255 /\ lo \in 0..255 /\ x = hi * 256 + lo
  BY SMT
<1>2. Swapped(x) = y
  BY DEF Swapped
<1> HIDE DEF hi, lo
<1>3. y \div 256 = lo /\ y % 256 = hi
  BY <1>1, SMT
<1> QED
  BY <1>1, <1>2, <1>3 DEF Swapped

\* The lengths of a frame's headers are what its fields can say.
LEMMA HeaderLengths ==
    ASSUME NEW f \in Frame
    PROVE  /\ IpLen(f) \in 20..60 /\ (IpLen(f) \div 4) * 4 = IpLen(f)
           /\ TcpLen(f) \in 0..60 /\ (TcpLen(f) \div 4) * 4 = TcpLen(f)
           /\ f.fragment # "later" => TcpLen(f) >= 20
           /\ f.fragment = "later" => TcpLen(f) = 0
           /\ f.data \in Nat /\ f.data <= 65000 /\ f.tags \in Nat /\ f.padding \in Nat /\ f.cut \in Nat
<1>1. PICK v \in 0..10, w \in 0..10 : f.ipopts = 4 * v /\ f.tcpopts = 4 * w
  <2>1. f.ipopts \in OptionLens /\ f.tcpopts \in OptionLens
    BY DEF Frame
  <2> QED
    BY <2>1 DEF OptionLens
<1>2. /\ f.data \in Nat /\ f.data <= 65000
      /\ f.tags \in Nat /\ f.padding \in Nat /\ f.cut \in Nat
  <2>1. f.data \in 0..MostData /\ f.tags \in Nat /\ f.padding \in Nat /\ f.cut \in Nat
    BY DEF Frame
  <2>2. MostData \in Nat /\ MostData <= 65000
    BY SMT DEF MostData
  <2> QED
    BY <2>1, <2>2, SMT
<1>3. IpLen(f) \in {20 + 4 * v, 40}
  BY <1>1 DEF IpLen
<1>4. TcpLen(f) \in {20 + 4 * w, 0} /\ (f.fragment # "later" => TcpLen(f) = 20 + 4 * w)
  BY <1>1 DEF TcpLen
<1>5. f.fragment = "later" => TcpLen(f) = 0
  BY DEF TcpLen
<1> QED
  BY <1>2, <1>3, <1>4, <1>5

\* The length field of a frame is what ip_len and ip6_plen count, unless a
\* segmenting card left it empty.
LEMMA LengthField ==
    ASSUME NEW f \in Frame
    PROVE  /\ Swapped(Swapped(Length(f))) = Length(f)
           /\ ~f.offloaded /\ f.net = "ip4" => Length(f) = IpLen(f) + TcpLen(f) + f.data
           /\ ~f.offloaded /\ f.net # "ip4" => Length(f) = TcpLen(f) + f.data
<1>1. /\ IpLen(f) \in 20..60 /\ TcpLen(f) \in 0..60
      /\ f.data \in Nat /\ f.data <= 65000 /\ f.tags \in Nat
  BY HeaderLengths
<1>2. f.net # "ip4" => IpLen(f) = 40
  BY DEF IpLen
<1>3. EtherLen(f) \in Nat
  BY <1>1 DEF EtherLen
<1>4. DataPast(f) - EtherLen(f) = IpLen(f) + TcpLen(f) + f.data
  BY <1>1, <1>3 DEF DataPast, DataFrom
<1>5. ~f.offloaded /\ f.net = "ip4" => Length(f) = IpLen(f) + TcpLen(f) + f.data
  BY <1>1, <1>4 DEF Length
<1>6. ~f.offloaded /\ f.net # "ip4" => Length(f) = TcpLen(f) + f.data
  BY <1>1, <1>2, <1>4 DEF Length
<1>7. f.offloaded => Length(f) = 0
  BY DEF Length
<1>8. Length(f) \in Nat /\ Length(f) <= 65535
  <2>1. IpLen(f) + TcpLen(f) + f.data \in Nat /\ IpLen(f) + TcpLen(f) + f.data <= 65535
    BY <1>1, SMT
  <2>2. TcpLen(f) + f.data \in Nat /\ TcpLen(f) + f.data <= 65535
    BY <1>1, SMT
  <2> QED
    BY <1>5, <1>6, <1>7, <2>1, <2>2, SMT
<1> QED
  BY <1>5, <1>6, <1>8, SwapTwice

-----------------------------------------------------------------------------
(* Where the steps have got to.                                            *)

\* What has been read of the frame, and from where.
IInv == /\ frame \in Sent
        /\ pc \in {"read", "located", "stored", "skipped", "written"}
        /\ pc \in {"located", "stored", "written"} =>
              /\ ip = EtherOffset(frame)
              /\ frame.tags > 0 \/ frame.net \in {"ip4", "ip6"}
        /\ pc \in {"stored", "written"} => \E h \in IpHeaders(frame, ip) : IsTcp(h)
        /\ pc = "skipped" =>
              \/ frame.tags = 0 /\ frame.net \notin {"ip4", "ip6"}
              \/ \E h \in IpHeaders(frame, EtherOffset(frame)) : ~IsTcp(h)
        /\ pc = "written" =>
              \E h \in {x \in IpHeaders(frame, ip) : IsTcp(x)} :
                 \E off \in TcpOffsets(frame, ip + HeaderLen(h)) :
                     /\ from = ip + HeaderLen(h) + off * 4
                     /\ len = DataLength(h, off)

LEMMA InitInv == Init => IInv
BY DEF Init, IInv

LEMMA NextInv == IInv /\ [Next]_vars => IInv'
<1> SUFFICES ASSUME IInv, [Next]_vars PROVE IInv'
  OBVIOUS
<1> USE DEF IInv
<1>1. CASE SkipUnknown
  BY <1>1 DEF SkipUnknown
<1>2. CASE LocateIp
  BY <1>2 DEF LocateIp
<1>3. CASE Select
  <2>1. PICK h \in IpHeaders(frame, ip) : pc' = IF IsTcp(h) THEN "stored" ELSE "skipped"
    BY <1>3 DEF Select
  <2>2. pc = "located" /\ ip = EtherOffset(frame) /\ UNCHANGED <<frame, ip, from, len>>
    BY <1>3 DEF Select
  <2> QED
    BY <2>1, <2>2
<1>4. CASE Write
  <2>1. PICK h \in {x \in IpHeaders(frame, ip) : IsTcp(x)} :
           \E off \in TcpOffsets(frame, ip + HeaderLen(h)) :
              /\ from' = ip + HeaderLen(h) + off * 4
              /\ len' = DataLength(h, off)
    BY <1>4 DEF Write
  <2>2. pc = "stored" /\ pc' = "written" /\ UNCHANGED <<frame, ip>>
    BY <1>4 DEF Write
  <2> QED
    BY <2>1, <2>2
<1>5. CASE UNCHANGED vars
  BY <1>5 DEF vars
<1> QED
  BY <1>1, <1>2, <1>3, <1>4, <1>5 DEF Next

LEMMA Invariance == Spec => []IInv
BY InitInv, NextInv, PTL DEF Spec

-----------------------------------------------------------------------------
(* With at most one tag the IP header is read where it begins.             *)

LEMMA HeaderFound ==
    ASSUME NEW f \in Sent, f.tags <= 1,
           EtherLen(f) + IpLen(f) <= Captured(f),
           NEW h \in IpHeaders(f, EtherOffset(f))
    PROVE  /\ EtherOffset(f) = EtherLen(f)
           /\ IsTcp(h) <=> f.net \in {"ip4", "ip6"} /\ f.proto = "tcp"
           /\ IsTcp(h) => h = IpHeader(f)
<1>1. f \in Frame
  BY SentAssumption
<1>2. EtherOffset(f) = EtherLen(f) /\ EtherLen(f) \in Int
  <2>1. f.tags \in Nat
    BY <1>1, HeaderLengths
  <2> QED
    BY <2>1 DEF EtherOffset, EtherLen
<1>3. f.net \in {"ip4", "ip6", "arp"}
  BY <1>1 DEF Frame
<1>4. h \in IF f.net = "arp" THEN {[version |-> 0, hl |-> 0, proto |-> "none", length |-> 0]}
            ELSE {IpHeader(f)}
  <2>1. Captured(f) \in Int /\ IpLen(f) \in Int
    BY <1>1, <1>2, HeaderLengths DEF Captured, DataPast, DataFrom
  <2>2. ~(EtherOffset(f) # EtherLen(f) \/ EtherOffset(f) + IpLen(f) > Captured(f))
    BY <1>2, <2>1
  <2> QED
    BY <2>2 DEF IpHeaders
<1>5. CASE f.net = "arp"
  BY <1>2, <1>4, <1>5 DEF IsTcp
<1>6. CASE f.net # "arp"
  <2>1. h = IpHeader(f)
    BY <1>4, <1>6
  <2>2. h.version \in {4, 6} /\ h.proto = f.proto
    BY <2>1 DEF IpHeader, Ip4Header, Ip6Header
  <2> QED
    BY <1>2, <1>3, <1>6, <2>1, <2>2 DEF IsTcp
<1> QED
  BY <1>5, <1>6

\* From the header of a frame follows where its payload is, and what length
\* its data is taken to have.
LEMMA HeaderRead ==
    ASSUME NEW f \in Sent, f.net \in {"ip4", "ip6"}, NEW off \in 0..15
    PROVE  /\ HeaderLen(IpHeader(f)) = IpLen(f)
           /\ ~f.offloaded /\ TcpLen(f) + f.data >= off * 4 =>
                 DataLength(IpHeader(f), off) = TcpLen(f) + f.data - off * 4
<1>1. f \in Frame
  BY SentAssumption
<1>2. /\ IpLen(f) \in 20..60 /\ (IpLen(f) \div 4) * 4 = IpLen(f)
      /\ TcpLen(f) \in 0..60 /\ f.data \in Nat /\ f.data <= 65000
  BY <1>1, HeaderLengths
<1>3. HeaderLen(IpHeader(f)) = IpLen(f)
  BY <1>2 DEF HeaderLen, IpHeader, Ip4Header, Ip6Header, IpLen
<1>4. ASSUME ~f.offloaded, TcpLen(f) + f.data >= off * 4
      PROVE  DataLength(IpHeader(f), off) = TcpLen(f) + f.data - off * 4
  <2> DEFINE n == TcpLen(f) + f.data - off * 4
  <2>1. DataLength(IpHeader(f), off) = n % SizeSpace
    <3>1. CASE f.net = "ip4"
      <4>1. /\ IpHeader(f).version = 4 /\ IpHeader(f).hl = IpLen(f) \div 4
            /\ IpHeader(f).length = Swapped(Length(f))
        BY <3>1 DEF IpHeader, Ip4Header
      <4>2. Swapped(Swapped(Length(f))) = IpLen(f) + TcpLen(f) + f.data
        BY <1>1, <1>4, <3>1, LengthField
      <4>3. IpLen(f) + TcpLen(f) + f.data - (IpLen(f) + off * 4) = n
        BY <1>2
      <4>4. DataLength(IpHeader(f), off) =
               (Swapped(Swapped(Length(f))) - ((IpLen(f) \div 4) * 4 + off * 4)) % SizeSpace
        BY <4>1 DEF DataLength
      <4> HIDE DEF n
      <4> QED
        BY <1>2, <4>2, <4>3, <4>4
    <3>2. CASE f.net = "ip6"
      <4>1. IpHeader(f).version = 6 /\ IpHeader(f).length = Swapped(Length(f))
        BY <3>2 DEF IpHeader, Ip6Header
      <4>2. Swapped(Swapped(Length(f))) = TcpLen(f) + f.data
        BY <1>1, <1>4, <3>2, LengthField
      <4>3. TcpLen(f) + f.data - (0 + off * 4) = n
        BY <1>2
      <4>4. DataLength(IpHeader(f), off) =
               (Swapped(Swapped(Length(f))) - (0 + off * 4)) % SizeSpace
        BY <4>1 DEF DataLength
      <4> HIDE DEF n
      <4> QED
        BY <1>2, <4>2, <4>3, <4>4
    <3> QED
      BY <3>1, <3>2
  <2>2. n \in 0..(SizeSpace - 1) /\ SizeSpace \in Nat \ {0}
    BY <1>2, <1>4, SizeSpaceAssumption
  <2> HIDE DEF n
  <2>3. n % SizeSpace = n
    BY <2>2
  <2> QED
    BY <2>1, <2>3 DEF n
<1> QED
  BY <1>3, <1>4

-----------------------------------------------------------------------------
(* The theorems.                                                           *)

\* A frame whose headers are there, with at most one tag, is stored exactly
\* if it carries a TCP segment, and then exactly its data is written,
\* whatever its options, its padding and its length: the offsets that
\* is_tcp, get_tcp_data_n and get_tcp_data_length_n follow are right.
THEOREM DataDissected == Spec => []DissectsAsSent
<1>1. IInv => DissectsAsSent
  <2> SUFFICES ASSUME IInv, Ended, Plain
               PROVE  IF frame.net \in {"ip4", "ip6"} /\ frame.proto = "tcp"
                      THEN pc = "written" /\ from = DataFrom(frame) /\ len = frame.data
                      ELSE pc = "skipped"
    BY DEF DissectsAsSent
  <2>1. frame \in Sent /\ frame \in Frame /\ frame.tags <= 1
    BY SentAssumption DEF IInv, Plain
  <2>2. /\ IpLen(frame) \in 20..60
        /\ TcpLen(frame) \in 20..60 /\ (TcpLen(frame) \div 4) * 4 = TcpLen(frame)
        /\ frame.data \in Nat /\ frame.data <= 65000
    BY <2>1, HeaderLengths DEF Plain
  <2>3. EtherLen(frame) \in Int /\ Captured(frame) \in Int
    BY <2>1, <2>2, HeaderLengths DEF EtherLen, Captured, DataPast, DataFrom
  <2>4. EtherLen(frame) + IpLen(frame) + 20 <= Captured(frame)
    BY <2>2, <2>3 DEF Plain, DataFrom
  <2>5. EtherLen(frame) + IpLen(frame) <= Captured(frame)
    BY <2>2, <2>3, <2>4
  <2>6. CASE pc = "skipped"
    <3>1. CASE frame.tags = 0 /\ frame.net \notin {"ip4", "ip6"}
      BY <2>6, <3>1
    <3>2. ASSUME NEW h \in IpHeaders(frame, EtherOffset(frame)), ~IsTcp(h)
          PROVE  ~(frame.net \in {"ip4", "ip6"} /\ frame.proto = "tcp")
      BY <2>1, <2>5, <3>2, HeaderFound
    <3> QED
      BY <2>6, <3>1, <3>2 DEF IInv
  <2>7. CASE pc = "written"
    <3>0. PICK h \in IpHeaders(frame, ip) :
             /\ IsTcp(h)
             /\ \E off \in TcpOffsets(frame, ip + HeaderLen(h)) :
                   from = ip + HeaderLen(h) + off * 4 /\ len = DataLength(h, off)
      BY <2>7 DEF IInv
    <3>1. PICK off \in TcpOffsets(frame, ip + HeaderLen(h)) :
             from = ip + HeaderLen(h) + off * 4 /\ len = DataLength(h, off)
      BY <3>0
    <3>2. ip = EtherOffset(frame)
      BY <2>7 DEF IInv
    <3>3. /\ ip = EtherLen(frame) /\ h = IpHeader(frame)
          /\ frame.net \in {"ip4", "ip6"} /\ frame.proto = "tcp"
      BY <2>1, <2>5, <3>0, <3>2, HeaderFound
    <3>4. HeaderLen(h) = IpLen(frame)
      BY <2>1, <3>3, HeaderRead
    <3>5. off = TcpLen(frame) \div 4 /\ off \in 0..15
      <4>1. ~(\/ ip + HeaderLen(h) # EtherLen(frame) + IpLen(frame) \/ frame.proto # "tcp"
              \/ frame.fragment = "later" \/ ip + HeaderLen(h) + 20 > Captured(frame))
        BY <2>2, <2>3, <2>4, <3>3, <3>4 DEF Plain
      <4>2. off = TcpLen(frame) \div 4
        BY <4>1 DEF TcpOffsets
      <4> QED
        BY <2>2, <4>2
    <3>6. len = frame.data
      BY <2>1, <2>2, <3>1, <3>3, <3>5, HeaderRead DEF Plain
    <3>7. from = DataFrom(frame)
      BY <2>2, <2>3, <3>1, <3>3, <3>4, <3>5 DEF DataFrom
    <3> QED
      BY <2>7, <3>3, <3>6, <3>7
  <2> QED
    BY <2>6, <2>7 DEF Ended
<1> QED
  BY <1>1, Invariance, PTL

\* No byte behind the captured ones is taken for data, of any frame that was
\* captured whole, has at most one tag, fills in its length field and is no
\* later fragment with fewer than 60 bytes of data.  Of a longer one what is
\* taken for a TCP header is data, and yet within the capture (main.c:40-64).
THEOREM ReadsInBounds == Spec => []ReadsWhatWasCaptured
<1>1. IInv => ReadsWhatWasCaptured
  <2> SUFFICES ASSUME IInv, pc = "written", frame.cut = 0, frame.tags <= 1,
                      ~frame.offloaded, frame.fragment = "later" => frame.data >= 60
               PROVE  from + len <= Captured(frame)
    BY DEF ReadsWhatWasCaptured
  <2>1. frame \in Sent /\ frame \in Frame /\ ip = EtherOffset(frame)
    BY SentAssumption DEF IInv
  <2>2. /\ IpLen(frame) \in 20..60
        /\ TcpLen(frame) \in 0..60 /\ (TcpLen(frame) \div 4) * 4 = TcpLen(frame)
        /\ frame.fragment # "later" => TcpLen(frame) >= 20
        /\ frame.data \in Nat /\ frame.data <= 65000 /\ frame.padding \in Nat /\ frame.tags \in Nat
    BY <2>1, HeaderLengths
  <2>3. EtherLen(frame) \in Nat
    BY <2>2 DEF EtherLen
  <2>4. Captured(frame) = EtherLen(frame) + IpLen(frame) + TcpLen(frame)
                             + frame.data + frame.padding
    BY <2>2, <2>3 DEF Captured, DataPast, DataFrom
  <2>5. EtherLen(frame) + IpLen(frame) <= Captured(frame)
    BY <2>2, <2>3, <2>4
  <2>0. PICK h \in IpHeaders(frame, ip) :
           /\ IsTcp(h)
           /\ \E off \in TcpOffsets(frame, ip + HeaderLen(h)) :
                 from = ip + HeaderLen(h) + off * 4 /\ len = DataLength(h, off)
    BY DEF IInv
  <2>6. PICK off \in TcpOffsets(frame, ip + HeaderLen(h)) :
           from = ip + HeaderLen(h) + off * 4 /\ len = DataLength(h, off)
    BY <2>0
  <2>7. /\ ip = EtherLen(frame) /\ h = IpHeader(frame)
        /\ frame.net \in {"ip4", "ip6"} /\ frame.proto = "tcp"
    BY <2>0, <2>1, <2>5, HeaderFound
  <2>8. HeaderLen(h) = IpLen(frame)
    BY <2>1, <2>7, HeaderRead
  <2>9. off \in 0..15 /\ off * 4 <= TcpLen(frame) + frame.data
    <3>1. CASE frame.fragment = "later"
      <4>1. TcpOffsets(frame, ip + HeaderLen(h)) = NoiseTcp
        BY <3>1 DEF TcpOffsets
      <4>2. off \in 0..15
        BY <2>6, <4>1, NoiseAssumption
      <4> QED
        BY <2>2, <3>1, <4>2
    <3>2. CASE frame.fragment # "later"
      <4>1. ~(\/ ip + HeaderLen(h) # EtherLen(frame) + IpLen(frame) \/ frame.proto # "tcp"
              \/ frame.fragment = "later" \/ ip + HeaderLen(h) + 20 > Captured(frame))
        BY <2>2, <2>3, <2>4, <2>7, <2>8, <3>2
      <4>2. off = TcpLen(frame) \div 4
        BY <2>6, <4>1 DEF TcpOffsets
      <4> QED
        BY <2>2, <4>2
    <3> QED
      BY <3>1, <3>2
  <2>10. len = TcpLen(frame) + frame.data - off * 4
    BY <2>1, <2>6, <2>7, <2>9, HeaderRead
  <2> QED
    BY <2>2, <2>3, <2>4, <2>6, <2>7, <2>8, <2>9, <2>10
<1> QED
  BY <1>1, Invariance, PTL
=============================================================================
