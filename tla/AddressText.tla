----------------------------- MODULE AddressText -----------------------------
(***************************************************************************)
(* From an address in a header to its part of a flow key: _inet_ntop of    *)
(* network.c writes the address as text and get_ip_port_pair of ip.c makes *)
(* it, with a port, one half of the key.  inet_ntop_v6 first looks for the *)
(* longest run of zero words, then writes word by word.                    *)
(*                                                                         *)
(* A text is a sequence of tokens: separators and numbers.  A number is    *)
(* what its digits say in base 16, in which addresses of IPv6 are written; *)
(* so the decimal 105 of IPv4 is the token 16^2 + 5.                       *)
(***************************************************************************)
EXTENDS Integers, Sequences, FiniteSets

CONSTANTS Words,   \* words of IPv6 addresses
          Bytes,   \* bytes of IPv4 addresses
          Ports

MaxByte == 255
MaxWord == 65535

ASSUME NumbersAssumption == /\ Words \subseteq 0..MaxWord /\ Ports \subseteq 0..MaxWord
                            /\ Bytes \subseteq 0..MaxByte

VARIABLES addr,       \* the address, a function on 0..3 or on 0..7
          i,          \* the loop counter of inet_ntop_v6
          cur, best,  \* runs of zero words: the current one and the longest
          text,       \* what has been written so far
          pc

vars == <<addr, i, cur, best, text, pc>>

Colon == 0 - 1
Dot   == 0 - 2

IsIPv4 == DOMAIN addr = 0..3

NoRun == [base |-> 0 - 1, len |-> 0]

Init == /\ addr \in [0..3 -> Bytes] \cup [0..7 -> Words]
        /\ i = 0 /\ cur = NoRun /\ best = NoRun /\ text = <<>>
        /\ pc = IF IsIPv4 THEN "v4" ELSE "scan"

-----------------------------------------------------------------------------
\* The characters of a text, at most five for a number.
Places   == <<16, 256, 4096, 65536>>
Chars(s) == Cardinality({c \in (DOMAIN s) \X (0..4) : c[2] = 0 \/ s[c[1]] >= Places[c[2]]})

\* Mutant of AddrLen: the size of an IPv4 text for either family.
AddrLenShort == 16

\* addr_str_len: INET_ADDRSTRLEN or INET6_ADDRSTRLEN.
AddrLen == IF IsIPv4 THEN 16 ELSE 46
TmpLen  == 46 + 1

\* Mutant of Decimal: the zero after a leading digit is suppressed as well.
DecimalShort(n) == IF n >= 100 /\ n % 100 < 10 THEN (n \div 100) * 16 + (n % 10)
                   ELSE (n \div 100) * 256 + ((n % 100) \div 10) * 16 + (n % 10)

\* The digits of a byte, leading zeros suppressed.
Decimal(n) == (n \div 100) * 256 + ((n % 100) \div 10) * 16 + (n % 10)

\* inet_ntop_v4.
Dotted(a, b, c, d) == <<Decimal(a), Dot, Decimal(b), Dot, Decimal(c), Dot, Decimal(d)>>

FormatIPv4 ==
    /\ pc = "v4"
    /\ IF AddrLen < 16
       THEN pc' = "null" /\ text' = text
       ELSE pc' = "text" /\ text' = Dotted(addr[0], addr[1], addr[2], addr[3])
    /\ UNCHANGED <<addr, i, cur, best>>

\* Mutant of Longer: a later run of the same length wins.
LongerOrLast == IF cur.base >= 0 /\ (best.base < 0 \/ cur.len >= best.len)
                THEN cur ELSE best

\* best once the current run has ended.
Longer == IF cur.base >= 0 /\ (best.base < 0 \/ cur.len > best.len)
          THEN cur ELSE best

ScanZero == /\ pc = "scan" /\ i < 8 /\ addr[i] = 0
            /\ cur' = IF cur.base < 0 THEN [base |-> i, len |-> 1]
                      ELSE [cur EXCEPT !.len = @ + 1]
            /\ i' = i + 1
            /\ UNCHANGED <<addr, best, text, pc>>

ScanWord == /\ pc = "scan" /\ i < 8 /\ addr[i] # 0
            /\ best' = Longer
            /\ cur' = [cur EXCEPT !.base = NoRun.base]
            /\ i' = i + 1
            /\ UNCHANGED <<addr, text, pc>>

\* The last run counts as well; a single zero is not shortened.
ScanEnd == /\ pc = "scan" /\ i = 8
           /\ best' = IF Longer.len < 2 THEN [Longer EXCEPT !.base = NoRun.base]
                      ELSE Longer
           /\ i' = 0 /\ pc' = "format"
           /\ UNCHANGED <<addr, cur, text>>

-----------------------------------------------------------------------------
InRun == best.base >= 0 /\ i \in best.base..(best.base + best.len - 1)

\* Mutant of Encapsulated: the word before the IPv4 address is not looked at.
EncapsulatedAny == i = 6 /\ best.base = 0 /\ best.len \in {5, 6}

\* The rest of the address is written as an IPv4 address.
Encapsulated == /\ i = 6 /\ best.base = 0
                /\ best.len = 6 \/ (best.len = 5 /\ addr[5] = MaxWord)

Separated == IF i = 0 THEN text ELSE Append(text, Colon)

Formatting == pc = "format" /\ i < 8 /\ UNCHANGED <<addr, cur, best>>

WriteRun == /\ Formatting /\ InRun
            /\ text' = IF i = best.base THEN Append(text, Colon) ELSE text
            /\ i' = i + 1 /\ pc' = pc

WriteWord == /\ Formatting /\ ~InRun /\ ~Encapsulated
             /\ text' = Append(Separated, addr[i])
             /\ i' = i + 1 /\ pc' = pc

WriteIPv4 ==
    /\ Formatting /\ ~InRun /\ Encapsulated
    /\ IF TmpLen - Chars(Separated) < 16
       THEN pc' = "null" /\ text' = Separated
       ELSE /\ text' = Separated \o Dotted(addr[6] \div 256, addr[6] % 256,
                                           addr[7] \div 256, addr[7] % 256)
            /\ pc' = pc
    /\ i' = 8

\* The text with the colon of a run that reaches the end.
Ended == IF best.base >= 0 /\ best.base + best.len = 8 THEN Append(text, Colon) ELSE text

FormatEnd == /\ pc = "format" /\ i = 8
             /\ text' = Ended
             /\ pc' = IF Chars(Ended) + 1 > AddrLen THEN "null" ELSE "text"
             /\ UNCHANGED <<addr, i, cur, best>>

\* sprintf of %d.
DigitsOf[n \in Nat] == IF n < 10 THEN n ELSE 16 * DigitsOf[n \div 10] + (n % 10)

\* Half a key: ':' gives way to '.', which also separates the port.
MakeKey == /\ pc = "text"
           /\ \E port \in Ports :
                 text' = [x \in DOMAIN text |-> IF text[x] = Colon THEN Dot ELSE text[x]]
                             \o <<Dot, DigitsOf[port]>>
           /\ pc' = "key"
           /\ UNCHANGED <<addr, i, cur, best>>

Next == \/ FormatIPv4 \/ ScanZero \/ ScanWord \/ ScanEnd
        \/ WriteRun \/ WriteWord \/ WriteIPv4 \/ FormatEnd \/ MakeKey
Spec == Init /\ [][Next]_vars

-----------------------------------------------------------------------------
(* How the text of an address is read (RFC 4291, section 2.2), which knows *)
(* nothing of the loops above: a doubled separator stands for the zeros    *)
(* that are missing, and the last four numbers may be an IPv4 address.     *)

AsSeq(a) == [x \in 1..Cardinality(DOMAIN a) |-> a[x - 1]]

\* The numbers of a text, in their order.
NumbersAt(s) == {x \in DOMAIN s : s[x] >= 0}
Numbers(s)   == [k \in 1..Cardinality(NumbersAt(s)) |->
                    s[CHOOSE x \in NumbersAt(s) : Cardinality(NumbersAt(s) \cap 1..x) = k]]

Gaps(s, sep) == {x \in 1..(Len(s) - 1) : s[x] = sep /\ s[x + 1] = sep}

InDecimal(t) == (t \div 256) * 100 + ((t \div 16) % 16) * 10 + (t % 16)
Decimals(s)  == LET n == Numbers(s) IN [x \in DOMAIN n |-> InDecimal(n[x])]

\* The words a part of a text writes, the last ones as an IPv4 address.
WordsWithIPv4(s) ==
    LET n == Numbers(s)
        d == Decimals(s)
        k == Len(n) - 3
    IN  SubSeq(n, 1, k - 1) \o <<256 * d[k] + d[k + 1], 256 * d[k + 2] + d[k + 3]>>

PartWords(s, ipv4) == IF ipv4 /\ Len(Numbers(s)) >= 4 THEN WordsWithIPv4(s) ELSE Numbers(s)

Reading(s, sep, ipv4) ==
    IF Gaps(s, sep) = {} THEN PartWords(s, ipv4)
    ELSE LET g == CHOOSE x \in Gaps(s, sep) : TRUE
             l == PartWords(SubSeq(s, 1, g - 1), ipv4)
             r == PartWords(SubSeq(s, g + 2, Len(s)), ipv4)
         IN  l \o [z \in 1..(8 - Len(l) - Len(r)) |-> 0] \o r

\* IPv4-compatible and IPv4-mapped addresses.
EmbedsIPv4 == /\ ~IsIPv4
              /\ \A k \in 0..4 : addr[k] = 0
              /\ addr[5] = MaxWord \/ (addr[5] = 0 /\ addr[6] # 0)

\* The run that is shortened to "::" is the longest of the address, the first
\* one if there are several, and has two words at least (network.c:127-147).
BestIsLongest ==
    pc = "format" =>
        LET Runs == {r \in [base : 0..7, len : 2..8] :
                        /\ r.base + r.len <= 8
                        /\ \A k \in r.base..(r.base + r.len - 1) : addr[k] = 0}
        IN  IF Runs = {} THEN best.base < 0
            ELSE /\ best \in Runs
                 /\ \A r \in Runs : \/ r.len < best.len
                                    \/ r.len = best.len /\ r.base >= best.base

\* Whatever zeros an address has, and wherever, its text says what it was.
TextReadsBack ==
    pc = "text" =>
        IF IsIPv4 THEN Decimals(text) = AsSeq(addr)
        ELSE /\ Cardinality(Gaps(text, Colon)) <= 1
             /\ Reading(text, Colon, Dot \in {text[x] : x \in DOMAIN text}) = AsSeq(addr)

\* Flow keys keep addresses apart although ':' has become '.' (ip.c:154-157):
\* an address can be told from its half of a key, once one knows whether it
\* embeds an IPv4 address.  So only an address that does and one that does not
\* can share a key, as ::FFFF:1.2.3.4 and ::FFFF:1:2:3:4 do.
KeyTellsApart ==
    pc = "key" =>
        LET half == SubSeq(text, 1, Len(text) - 2)
            four == Gaps(half, Dot) = {} /\ Len(Numbers(half)) = 4
        IN  AsSeq(addr) = IF four THEN Decimals(half) ELSE Reading(half, Dot, EmbedsIPv4)

\* get_ip_port_pair ignores whether _inet_ntop returned NULL, and sizes the
\* key by hand (ip.c:140-152): no text is too long for its buffer, and two
\* halves fit the memory allocated.
TextFits == /\ pc # "null"
            /\ pc = "text" => Chars(text) + 1 <= AddrLen
            /\ pc = "key"  => 2 * Chars(text) + 2 <= 2 * (AddrLen + 5) + 5
=============================================================================
