------------------------------ MODULE MCFrames ------------------------------
(***************************************************************************)
(* Frames with no, one and two tags, with and without options, small and   *)
(* padded or longer than one byte counts, fragments, extension headers,    *)
(* offloaded segments and captures that were cut off.                      *)
(***************************************************************************)
EXTENDS Frames

Padding(f) == IF DataPast(f) < 60 THEN 60 - DataPast(f) ELSE 0

\* How much of a frame the capture leaves out: nothing, the data, the headers.
CutBy(f, what) == CASE what = "data"    -> f.data + Padding(f)
                    [] what = "headers" -> DataPast(f) + Padding(f) - EtherLen(f)
                    [] OTHER -> 0
Cuts == {"nothing", "data", "headers"}

Make(net, tags, proto, ipopts, tcpopts, data, fragment, offloaded, cut) ==
    LET f == [net |-> net, tags |-> tags, proto |-> proto, ipopts |-> ipopts,
              tcpopts |-> tcpopts, data |-> data, fragment |-> fragment,
              offloaded |-> offloaded, padding |-> 0, cut |-> 0]
    IN  [f EXCEPT !.padding = Padding(f), !.cut = CutBy(f, cut)]

MCSent ==
    {Make("ip4", t, p, io, to, d, fr, off, cut) :
        t \in 0..2, p \in {"tcp", "udp"}, io \in {0, 40}, to \in {0, 12, 40},
        d \in {0, 6, 300}, fr \in {"none", "first", "later"},
        off \in BOOLEAN, cut \in Cuts}
    \cup {Make("ip6", t, p, 0, to, d, "none", off, cut) :
        t \in 0..2, p \in {"tcp", "extension"}, to \in {0, 12, 40}, d \in {0, 6, 300},
        off \in BOOLEAN, cut \in Cuts}
    \cup {Make("arp", t, "none", 0, 0, 0, "none", FALSE, "nothing") : t \in 0..2}

MCNoiseIp   == {Ip4Header(hl, "tcp", n) : hl \in {0, 15}, n \in {0, 1281}}
                 \cup {Ip6Header("tcp", 1281), Ip4Header(5, "udp", 0)}
MCNoiseTcp == {0, 5, 15}
=============================================================================
