------------------------------ MODULE MCMsgPack ------------------------------
(***************************************************************************)
(* Model checking MsgPack: integers and sizes at the limits of every       *)
(* format, and small objects that contain others.                          *)
(***************************************************************************)
EXTENDS MsgPack

\* The limits of the formats, and their neighbours.
Numbers ==
    {num(n) : n \in {0, 1, 127, 128, 255, 256, 32767, 32768, 65535, 65536, -1, -32, -33, -128, -129, -32768, -32769}}
    \cup {halfMax(4), halfMin(4), halfMax(8), halfMin(8), ones(4), ones(8)}
    \cup {unsigned(<<128, 0, 0, 0>>), unsigned(<<1, 0, 0, 0, 0>>), unsigned(<<128, 0, 0, 0, 0, 0, 0, 0>>),
          signed(<<255, 127, 255, 255, 255>>)}
Sizes == {num(n) : n \in {0, 1, 15, 16, 31, 32, 255, 256, 65535, 65536}} \cup {ones(4)}

call(op, t, v, data) == [op |-> op, t |-> t, v |-> v, data |-> data]
Integral == {v \in Numbers : atMost(halfMin(8), v)}
Holds(t) == {v \in Integral : v = IF t \in Range(Sint) THEN signed(be(v, Width[t])) ELSE unsigned(be(v, Width[t]))}
Texts == {<<>>, <<193>>, <<193, 193>>}

SingleCalls ==
    {call("integer", "", v, <<>>) : v \in {x \in Integral : atMost(x, halfMax(8))}}
    \cup {call("uinteger", "", v, <<>>) : v \in {x \in Integral : ~negative(x)}}
    \cup {call("sfix", "", v, <<>>) : v \in Holds("SINT8")}
    \cup UNION {{call("sized", t, v, <<>>) : v \in Holds(t)} : t \in DOMAIN Width}
    \cup {call("decimal", "", num(0), d) : d \in {<<64, 9, 0, 0, 0, 0, 0, 0>>, <<64, 9, 33, 251, 84, 68, 45, 24>>}}
    \cup {call("nil", "", num(0), <<>>)} \cup {call("bool", "", num(b), <<>>) : b \in {0, 1}}
    \cup {call("str", t, num(0), d) : t \in Strs, d \in Texts}
    \cup {call("bin", t, num(0), d) : t \in Bins, d \in Texts}
    \cup {call("ext", t, num(0), d) : t \in {"EXT8", "EXT16", "EXT32"}, d \in Texts}
    \cup {call("ext", "FIXEXT1", num(0), <<193>>), call("ext", "FIXEXT2", num(0), <<193, 193>>)}
    \cup {call("str_marker", strType(v), v, <<>>) : v \in Sizes} \cup {call("str_marker", strTypeV4(v), v, <<>>) : v \in Sizes}
    \cup {call("bin_marker", binType(v), v, <<>>) : v \in Sizes}
    \cup {call("ext_marker", extType(v), v, <<>>) : v \in Sizes}
    \cup {call("array", "", v, <<>>) : v \in Sizes} \cup {call("map", "", v, <<>>) : v \in Sizes}

\* Objects of up to five parts: every part but the last leaves something open.
Parts == {call("array", "", num(n), <<>>) : n \in 0 .. 2} \cup {call("map", "", num(1), <<>>)}
         \cup {call("integer", "", num(300), <<>>), call("str", "FIXSTR", num(0), <<193>>),
               call("ext", "FIXEXT1", num(0), <<193>>), call("ext_marker", "EXT8", num(0), <<>>),
               call("bin", "BIN16", num(0), <<193, 193>>)}
Open(calls) == FoldLeft(LAMBDA n, c : n - 1 + Contained(c), 1, calls)
Whole(calls) == Open(calls) = 0 /\ \A i \in 1 .. Len(calls) - 1 : Open(SubSeq(calls, 1, i)) > 0
Nested == {calls \in UNION {[1 .. n -> Parts] : n \in 2 .. 4} : Whole(calls)}

MCStreams == {<<c>> : c \in SingleCalls} \cup Nested
             \cup {<<call("array", "", num(2), <<>>), call("array", "", num(1), <<>>), call("nil", "", num(0), <<>>),
                     call("array", "", num(1), <<>>), call("nil", "", num(0), <<>>)>>}
MCRooms == {0, 1, 2, 3, 5, 8, 30}

text(n) == [i \in 1 .. n |-> 97]
MCMessages ==
    [stored : BOOLEAN, resized : BOOLEAN, ttl : {num(0), num(1), num(3600), num(70000)}, time : {num(1700000000)},
     tag : {num(0), num(300)}, prev_time : {num(0), num(1699999999)}, prev_tag : {num(1)},
     data : {<<>>, text(3), text(40), text(300)}, content_type : {<<>>, text(255), text(256)},
     event : {<<>>, text(2), text(256)}, compression : {0, 1}]
===============================================================================
