-------------------------------- MODULE MsgPack --------------------------------
(***************************************************************************)
(* MessagePack, as cmp.c writes and reads it, and the messages that        *)
(* rdsstore.c packs and unpacks with it.                                   *)
(*                                                                         *)
(* An integer is nine bytes, two's complement, the most significant first: *)
(* wide enough for int64_t and uint64_t.  Narrowing keeps the last bytes,  *)
(* widening copies the sign or puts zeros.  What is written is a sequence  *)
(* of bytes.                                                               *)
(***************************************************************************)
EXTENDS Integers, FiniteSets, SequencesExt

CONSTANTS CmpStreams,      \* sequences of calls of cmp_write_*: one object, with what it contains
          Rooms,        \* how many bytes the buffer written to has room for
          Messages      \* messages that are published

-------------------------------------------------------------------------------
\* Numbers

widened(b, fill) == [i \in 1 .. 9 |-> IF i > 9 - Len(b) THEN b[i - 9 + Len(b)] ELSE fill]
unsigned(b) == widened(b, 0)
signed(b) == widened(b, IF b[1] >= 128 THEN 255 ELSE 0)

\* The bytes of an integer of w bytes in the order they are written.
be(v, w) == SubSeq(v, 10 - w, 9)

num(n) == signed(<<(n \div 2^24) % 256, (n \div 2^16) % 256, (n \div 2^8) % 256, n % 256>>)
ones(w) == unsigned([i \in 1 .. w |-> 255])
halfMax(w) == unsigned([i \in 1 .. w |-> IF i = 1 THEN 127 ELSE 255])
halfMin(w) == signed([i \in 1 .. w |-> IF i = 1 THEN 128 ELSE 0])

negative(v) == v[1] >= 128
atMost(u, v) ==
    LET shifted(x) == [x EXCEPT ![1] = (@ + 128) % 256]
    IN \/ u = v
       \/ \E i \in 1 .. 9 : shifted(u)[i] < shifted(v)[i] /\ \A j \in 1 .. i - 1 : u[j] = v[j]

\* A size as a number of bytes of a buffer that has no more than n bytes.
within(v, n) == IF atMost(v, num(n)) THEN v[9] + 256 * v[8] ELSE n

-------------------------------------------------------------------------------
\* Types and their markers

Marker == [NIL |-> 192, FALSE |-> 194, TRUE |-> 195, BIN8 |-> 196, BIN16 |-> 197, BIN32 |-> 198,
           EXT8 |-> 199, EXT16 |-> 200, EXT32 |-> 201, FLOAT |-> 202, DOUBLE |-> 203,
           UINT8 |-> 204, UINT16 |-> 205, UINT32 |-> 206, UINT64 |-> 207,
           SINT8 |-> 208, SINT16 |-> 209, SINT32 |-> 210, SINT64 |-> 211,
           FIXEXT1 |-> 212, FIXEXT2 |-> 213, FIXEXT4 |-> 214, FIXEXT8 |-> 215, FIXEXT16 |-> 216,
           STR8 |-> 217, STR16 |-> 218, STR32 |-> 219,
           ARRAY16 |-> 220, ARRAY32 |-> 221, MAP16 |-> 222, MAP32 |-> 223]

type_marker_to_cmp_type(m) ==
    CASE m <= 127 -> "POSITIVE_FIXNUM"
      [] m \in 128 .. 143 -> "FIXMAP"
      [] m \in 144 .. 159 -> "FIXARRAY"
      [] m \in 160 .. 191 -> "FIXSTR"
      [] m >= 224 -> "NEGATIVE_FIXNUM"
      [] m \in {Marker.FALSE, Marker.TRUE} -> "BOOLEAN"
      [] m = 193 -> "INVALID"
      [] OTHER -> CHOOSE t \in DOMAIN Marker : Marker[t] = m

Strs == {"FIXSTR", "STR8", "STR16", "STR32"}
Bins == {"BIN8", "BIN16", "BIN32"}
Arrays == {"FIXARRAY", "ARRAY16", "ARRAY32"}
Maps == {"FIXMAP", "MAP16", "MAP32"}
Exts == {"FIXEXT1", "FIXEXT2", "FIXEXT4", "FIXEXT8", "FIXEXT16", "EXT8", "EXT16", "EXT32"}

\* CmpBytes of the length that follows the marker, and bytes of what has no length.
lengthBytes(t) ==
    CASE t \in {"BIN8", "EXT8", "STR8"} -> 1
      [] t \in {"BIN16", "EXT16", "STR16", "ARRAY16", "MAP16"} -> 2
      [] t \in {"BIN32", "EXT32", "STR32", "ARRAY32", "MAP32"} -> 4
      [] OTHER -> 0
fixedSize(t) ==
    CASE t \in {"UINT8", "SINT8", "FIXEXT1"} -> 1
      [] t \in {"UINT16", "SINT16", "FIXEXT2"} -> 2
      [] t \in {"UINT32", "SINT32", "FIXEXT4", "FLOAT"} -> 4
      [] t \in {"UINT64", "SINT64", "FIXEXT8", "DOUBLE"} -> 8
      [] t = "FIXEXT16" -> 16
      [] OTHER -> 0

-------------------------------------------------------------------------------
\* Writing.  The writer takes all the bytes of a call or none; it returns how many it took, and that none
\* were taken is an error, so nothing of size 0 can be written.

put(ctx, b, err) ==
    CASE ~ctx.ok -> ctx
      [] b = <<>> \/ Len(ctx.buf) + Len(b) > ctx.room -> [ctx EXCEPT !.ok = FALSE, !.error = err]
      [] OTHER -> [ctx EXCEPT !.buf = @ \o b]
refuse(ctx, err) == IF ctx.ok THEN [ctx EXCEPT !.ok = FALSE, !.error = err] ELSE ctx

write_type_marker(ctx, t) == put(ctx, <<Marker[t]>>, "TYPE_MARKER_WRITING")
write_fixed_value(ctx, m) == put(ctx, <<m>>, "FIXED_VALUE_WRITING")

\* A number after its marker: that it could not be written sets no error.
write_number(ctx, t, b) == LET c == write_type_marker(ctx, t) IN put(c, b, c.error)

cmp_write_pfix(ctx, v) ==
    IF atMost(v, num(127)) THEN write_fixed_value(ctx, v[9]) ELSE refuse(ctx, "INPUT_VALUE_TOO_LARGE")
cmp_write_nfix(ctx, v) ==
    IF atMost(num(-32), v) /\ atMost(v, num(-1)) THEN write_fixed_value(ctx, v[9])
    ELSE refuse(ctx, "INPUT_VALUE_TOO_LARGE")
cmp_write_sfix(ctx, v) == IF negative(v) THEN cmp_write_nfix(ctx, v) ELSE cmp_write_pfix(ctx, v)

Width == [SINT8 |-> 1, SINT16 |-> 2, SINT32 |-> 4, SINT64 |-> 8,
          UINT8 |-> 1, UINT16 |-> 2, UINT32 |-> 4, UINT64 |-> 8]
cmp_write_s(ctx, t, v) == write_number(ctx, t, be(v, Width[t]))
cmp_write_u(ctx, t, v) == write_number(ctx, t, be(v, Width[t]))

cmp_write_uinteger(ctx, u) ==
    CASE atMost(u, num(127)) -> cmp_write_pfix(ctx, u)
      [] atMost(u, ones(1)) -> cmp_write_u(ctx, "UINT8", u)
      [] atMost(u, ones(2)) -> cmp_write_u(ctx, "UINT16", u)
      [] atMost(u, ones(4)) -> cmp_write_u(ctx, "UINT32", u)
      [] OTHER -> cmp_write_u(ctx, "UINT64", u)

cmp_write_integer(ctx, d) ==
    CASE ~negative(d) -> cmp_write_uinteger(ctx, d)
      [] atMost(num(-32), d) -> cmp_write_nfix(ctx, d)
      [] atMost(num(-128), d) -> cmp_write_s(ctx, "SINT8", d)
      [] atMost(num(-32768), d) -> cmp_write_s(ctx, "SINT16", d)
      [] atMost(halfMin(4), d) -> cmp_write_s(ctx, "SINT32", d)
      [] OTHER -> cmp_write_s(ctx, "SINT64", d)

\* A double is eight bytes; the floats are the doubles whose last four bytes are 0.
cmp_write_float(ctx, f) == write_number(ctx, "FLOAT", f)
cmp_write_double(ctx, d) == write_number(ctx, "DOUBLE", d)
cmp_write_decimal(ctx, d) ==
    IF SubSeq(d, 5, 8) = <<0, 0, 0, 0>> THEN cmp_write_float(ctx, SubSeq(d, 1, 4)) ELSE cmp_write_double(ctx, d)

cmp_write_nil(ctx) == write_type_marker(ctx, "NIL")
cmp_write_bool(ctx, b) == write_type_marker(ctx, IF b THEN "TRUE" ELSE "FALSE")

\* The marker of a str, bin, array or map, with its length.
write_fix_marker(ctx, base, max, size) ==
    IF atMost(size, num(max)) THEN write_fixed_value(ctx, base + size[9]) ELSE refuse(ctx, "INPUT_VALUE_TOO_LARGE")
write_sized_marker(ctx, t, size) ==
    put(write_type_marker(ctx, t), be(size, lengthBytes(t)), "LENGTH_WRITING")

cmp_write_fixstr_marker(ctx, size) == write_fix_marker(ctx, 160, 31, size)
str_marker(ctx, t, size) ==
    IF t = "FIXSTR" THEN cmp_write_fixstr_marker(ctx, size) ELSE write_sized_marker(ctx, t, size)

strType(size) ==
    CASE atMost(size, num(31)) -> "FIXSTR" [] atMost(size, ones(1)) -> "STR8"
      [] atMost(size, ones(2)) -> "STR16" [] OTHER -> "STR32"
strTypeV4(size) == IF strType(size) = "STR8" THEN "STR16" ELSE strType(size)
binType(size) ==
    CASE atMost(size, ones(1)) -> "BIN8" [] atMost(size, ones(2)) -> "BIN16" [] OTHER -> "BIN32"

\* What is empty is written by its marker alone.
write_data(ctx, data) == IF data = <<>> THEN ctx ELSE put(ctx, data, "DATA_WRITING")
cmp_write_str(ctx, t, data) == write_data(str_marker(ctx, t, num(Len(data))), data)
cmp_write_bin(ctx, t, data) == write_data(write_sized_marker(ctx, t, num(Len(data))), data)

cmp_write_fixarray(ctx, size) == write_fix_marker(ctx, 144, 15, size)
cmp_write_array(ctx, size) ==
    CASE atMost(size, num(15)) -> cmp_write_fixarray(ctx, size)
      [] atMost(size, ones(2)) -> write_sized_marker(ctx, "ARRAY16", size)
      [] OTHER -> write_sized_marker(ctx, "ARRAY32", size)
cmp_write_fixmap(ctx, size) == write_fix_marker(ctx, 128, 15, size)
cmp_write_map(ctx, size) ==
    CASE atMost(size, num(15)) -> cmp_write_fixmap(ctx, size)
      [] atMost(size, ones(2)) -> write_sized_marker(ctx, "MAP16", size)
      [] OTHER -> write_sized_marker(ctx, "MAP32", size)

\* An ext has a type, of one byte, after its length.
cmp_write_fixext_marker(ctx, t, type) == put(write_type_marker(ctx, t), <<type>>, "EXT_TYPE_WRITING")
cmp_write_ext_sized_marker(ctx, t, type, size) == put(write_sized_marker(ctx, t, size), <<type>>, "EXT_TYPE_WRITING")
ext_marker(ctx, t, type, size) ==
    IF lengthBytes(t) = 0 THEN cmp_write_fixext_marker(ctx, t, type)
    ELSE cmp_write_ext_sized_marker(ctx, t, type, size)
extType(size) ==
    CASE size = num(1) -> "FIXEXT1" [] size = num(2) -> "FIXEXT2" [] size = num(4) -> "FIXEXT4"
      [] size = num(8) -> "FIXEXT8" [] size = num(16) -> "FIXEXT16"
      [] atMost(size, ones(1)) -> "EXT8" [] atMost(size, ones(2)) -> "EXT16" [] OTHER -> "EXT32"
cmp_write_ext(ctx, t, type, data) == put(ext_marker(ctx, t, type, num(Len(data))), data, "DATA_WRITING")

\* An object that was read is written by its marker, with its length and type but without its data.
cmp_write_object(ctx, obj) ==
    CASE obj.type = "POSITIVE_FIXNUM" -> cmp_write_pfix(ctx, unsigned(obj.as))
      [] obj.type = "NEGATIVE_FIXNUM" -> cmp_write_nfix(ctx, signed(obj.as))
      [] obj.type = "NIL" -> cmp_write_nil(ctx)
      [] obj.type = "BOOLEAN" -> cmp_write_bool(ctx, obj.as = <<1>>)
      [] obj.type \in {"FLOAT", "DOUBLE"} \cup DOMAIN Width -> write_number(ctx, obj.type, obj.as)
      [] obj.type = "FIXMAP" -> cmp_write_fixmap(ctx, obj.size)
      [] obj.type = "FIXARRAY" -> cmp_write_fixarray(ctx, obj.size)
      [] obj.type = "FIXSTR" -> cmp_write_fixstr_marker(ctx, obj.size)
      [] obj.type \in Exts -> ext_marker(ctx, obj.type, obj.as[1], obj.size)
      [] OTHER -> write_sized_marker(ctx, obj.type, obj.size)

\* The older format has neither bin nor str8.
cmp_write_object_v4(ctx, obj) ==
    IF obj.type \in Bins \cup {"STR8"} THEN refuse(ctx, "INVALID_TYPE") ELSE cmp_write_object(ctx, obj)

-------------------------------------------------------------------------------
\* Reading.  What a call found: the object, or the error; and what is left of the buffer.

gotError(buf, err) == [ok |-> FALSE, error |-> err, buf |-> buf]
got(buf, t, as, size) == [ok |-> TRUE, error |-> "NONE", buf |-> buf, type |-> t, as |-> as, size |-> size]

\* The reader gives all the bytes that are asked for, or none.
ngx_buf_reader(buf, n) == n <= Len(buf)
skipped(buf, n) == SubSeq(buf, n + 1, Len(buf))

read_type_size(buf, m, t) ==
    LET n == lengthBytes(t)
    IN CASE t \in {"FIXMAP", "FIXARRAY"} -> got(buf, t, <<>>, num(m % 16))
         [] t = "FIXSTR" -> got(buf, t, <<>>, num(m % 32))
         [] n = 0 -> got(buf, t, <<>>, num(fixedSize(t)))
         [] ~ngx_buf_reader(buf, n) -> gotError(buf, IF t \in Bins \cup Exts THEN "LENGTH_READING" ELSE "DATA_READING")
         [] OTHER -> got(skipped(buf, n), t, <<>>, unsigned(SubSeq(buf, 1, n)))

\* The value of a number: the marker itself, or the bytes after it.
read_obj_number(buf, m, t) ==
    LET n == fixedSize(t)
    IN CASE t \in {"POSITIVE_FIXNUM", "NEGATIVE_FIXNUM"} -> got(buf, t, <<m>>, num(0))
         [] t = "NIL" -> got(buf, t, <<0>>, num(0))
         [] t = "BOOLEAN" -> got(buf, t, <<IF m = Marker.TRUE THEN 1 ELSE 0>>, num(0))
         [] ~ngx_buf_reader(buf, n) -> gotError(buf, "DATA_READING")
         [] OTHER -> got(skipped(buf, n), t, SubSeq(buf, 1, n), num(0))

\* The length of an ext, then its type.
read_obj_ext(buf, m, t) ==
    LET typed(sized) ==
            CASE ~sized.ok -> sized
              [] ~ngx_buf_reader(sized.buf, 1) -> gotError(sized.buf, "EXT_TYPE_READING")
              [] OTHER -> got(skipped(sized.buf, 1), t, <<sized.buf[1]>>, sized.size)
    IN typed(read_type_size(buf, m, t))

read_obj_data(buf, m, t) ==
    CASE t \in Strs \cup Bins \cup Arrays \cup Maps -> read_type_size(buf, m, t)
      [] t \in Exts -> read_obj_ext(buf, m, t)
      [] OTHER -> read_obj_number(buf, m, t)

cmp_read_object(buf) ==
    CASE buf = <<>> -> gotError(buf, "TYPE_MARKER_READING")
      [] type_marker_to_cmp_type(buf[1]) = "INVALID" -> gotError(Tail(buf), "INVALID_TYPE")
      [] OTHER -> read_obj_data(Tail(buf), buf[1], type_marker_to_cmp_type(buf[1]))

\* What a function for one type returns of the object read: the error of reading it, or val where the
\* type is the one it is for.
returned(obj, fits, val) ==
    CASE ~obj.ok -> obj
      [] ~fits -> gotError(obj.buf, "INVALID_TYPE")
      [] OTHER -> [ok |-> TRUE, error |-> "NONE", buf |-> obj.buf, val |-> val]

s8(obj) == signed(SubSeq(obj.as, 1, 1))
u8(obj) == unsigned(SubSeq(obj.as, 1, 1))

\* The readers of one format.
cmp_read_sexact(buf, t) ==
    LET take(obj) == returned(obj, obj.type = t, signed(obj.as)) IN take(cmp_read_object(buf))
cmp_read_uexact(buf, t) ==
    LET take(obj) == returned(obj, obj.type = t, unsigned(obj.as)) IN take(cmp_read_object(buf))

Sint == <<"SINT8", "SINT16", "SINT32", "SINT64">>
Uint == <<"UINT8", "UINT16", "UINT32", "UINT64">>
CmpBytes == <<1, 2, 4, 8>>

\* cmp_object_as_char, short, int and long, for n = 1 to 4: the signed formats up to that width, the
\* unsigned ones below it, and of that width those that fit.
as_signed(obj, n) ==
    CASE ~obj.ok -> obj
      [] obj.ok /\ obj.type \in {"POSITIVE_FIXNUM", "NEGATIVE_FIXNUM", "SINT8"} -> returned(obj, TRUE, s8(obj))
      [] obj.ok /\ \E i \in 1 .. n : obj.type = Sint[i] -> returned(obj, TRUE, signed(obj.as))
      [] obj.ok /\ \E i \in 1 .. n : obj.type = Uint[i] ->
           returned(obj, obj.type = Uint[n] => atMost(unsigned(obj.as), halfMax(CmpBytes[n])), unsigned(obj.as))
      [] OTHER -> returned(obj, FALSE, num(0))

\* Fault: the unsigned value of the same width is taken for a signed one.
read_signed_unchecked(buf, n) ==
    LET take(obj) == IF obj.ok /\ obj.type = Uint[n] THEN returned(obj, TRUE, signed(obj.as)) ELSE as_signed(obj, n)
    IN take(cmp_read_object(buf))

cmp_read_signed(buf, n) == as_signed(cmp_read_object(buf), n)

\* cmp_object_as_uchar, ushort, uint and ulong: the unsigned formats only.
as_unsigned(obj, n) ==
    CASE ~obj.ok -> obj
      [] obj.ok /\ obj.type \in {"POSITIVE_FIXNUM", "UINT8"} -> returned(obj, TRUE, u8(obj))
      [] OTHER -> returned(obj, \E i \in 1 .. n : obj.type = Uint[i], unsigned(obj.as))

\* The readers also take a signed format with a value that is not negative.
cmp_read_unsigned(buf, n) ==
    LET positive(obj, v) == returned(obj, ~negative(v), v)
        take(obj) == CASE obj.ok /\ obj.type \in {"NEGATIVE_FIXNUM", "SINT8"} -> positive(obj, s8(obj))
                       [] obj.ok /\ \E i \in 1 .. n : obj.type = Sint[i] -> positive(obj, signed(obj.as))
                       [] OTHER -> as_unsigned(obj, n)
    IN take(cmp_read_object(buf))

cmp_read_decimal(buf) ==
    LET take(obj) == returned(obj, obj.type \in {"FLOAT", "DOUBLE"},
                              IF obj.type = "FLOAT" THEN obj.as \o <<0, 0, 0, 0>> ELSE obj.as)
    IN take(cmp_read_object(buf))
cmp_read_bool(buf) == LET take(obj) == returned(obj, obj.type = "BOOLEAN", obj.as) IN take(cmp_read_object(buf))
cmp_read_nil(buf) == LET take(obj) == returned(obj, obj.type = "NIL", obj.as) IN take(cmp_read_object(buf))

read_size(buf, types) ==
    LET take(obj) == returned(obj, obj.type \in types, obj.size) IN take(cmp_read_object(buf))
cmp_read_str_size(buf) == read_size(buf, Strs)
cmp_read_bin_size(buf) == read_size(buf, Bins)
cmp_read_array(buf) == read_size(buf, Arrays)
cmp_read_map(buf) == read_size(buf, Maps)

\* n bytes of data, after what was read before them.
read_contents(call, size) ==
    LET n == within(size, Len(call.buf) + 1)
    IN IF ~ngx_buf_reader(call.buf, n) THEN gotError(call.buf, "DATA_READING")
       ELSE [ok |-> TRUE, error |-> "NONE", buf |-> skipped(call.buf, n), val |-> SubSeq(call.buf, 1, n)]

\* A string needs room for its terminator too; the sum is of 32 bits.
cmp_read_str(buf, capacity) ==
    LET needed(size) == IF size = ones(4) THEN 0 ELSE within(size, capacity) + 1
        take(call) == CASE ~call.ok -> call
                        [] call.ok /\ needed(call.val) > capacity -> gotError(call.buf, "STR_DATA_LENGTH_TOO_LONG")
                        [] OTHER -> read_contents(call, call.val)
    IN take(cmp_read_str_size(buf))
cmp_read_bin(buf, capacity) ==
    LET take(call) == CASE ~call.ok -> call
                        [] call.ok /\ ~atMost(call.val, num(capacity)) -> gotError(call.buf, "BIN_DATA_LENGTH_TOO_LONG")
                        [] OTHER -> read_contents(call, call.val)
    IN take(cmp_read_bin_size(buf))

cmp_read_ext_marker(buf, types) ==
    LET take(obj) == returned(obj, obj.type \in types, <<obj.as[1], obj.size>>) IN take(cmp_read_object(buf))
cmp_read_ext(buf, types) ==
    LET take(call) == IF ~call.ok THEN call ELSE read_contents(call, call.val[2])
    IN take(cmp_read_ext_marker(buf, types))

\* What cmp_object_is_* say of an object, and cmp_object_as_* take from it.
isSigned(obj, n) == obj.type = "NEGATIVE_FIXNUM" \/ \E i \in 1 .. n : obj.type = Sint[i]
isUnsigned(obj, n) == obj.type = "POSITIVE_FIXNUM" \/ \E i \in 1 .. n : obj.type = Uint[i]

Groups == [float |-> {"FLOAT"}, double |-> {"DOUBLE"}, nil |-> {"NIL"}, bool |-> {"BOOLEAN"},
           str |-> Strs, bin |-> Bins, array |-> Arrays, map |-> Maps, ext |-> Exts]
isGroup(obj, g) == obj.type \in Groups[g]

-------------------------------------------------------------------------------
\* Skipping an object with all it contains.  That there is less to skip than there should be is not an error.

skip_bytes(buf, size) == skipped(buf, within(size, Len(buf)))

contents(t, size, buf) == within(size, Len(buf) + 1) * (IF t \in Maps THEN 2 ELSE 1)

RECURSIVE skip_elements(_, _, _, _)
skip_elements(buf, count, depth, limit) ==
    LET m == buf[1]
        t == type_marker_to_cmp_type(m)
        sized == read_type_size(Tail(buf), m, t)
    IN CASE count = 0 -> [ok |-> TRUE, error |-> "NONE", buf |-> buf]
         [] buf = <<>> -> gotError(buf, "TYPE_MARKER_READING")
         [] t = "INVALID" -> gotError(Tail(buf), "INVALID_TYPE")
         [] ~sized.ok -> sized
         [] t \in Arrays \cup Maps /\ depth + 1 > limit -> gotError(sized.buf, "SKIP_DEPTH_LIMIT_EXCEEDED")
         [] t \in Arrays \cup Maps ->
              skip_elements(sized.buf, count - 1 + contents(t, sized.size, sized.buf), depth + 1, limit)
         [] OTHER ->
              LET size == IF t \in Exts /\ sized.size # num(0)
                          THEN num(within(sized.size, Len(sized.buf)) + 1) ELSE sized.size
              IN skip_elements(skip_bytes(sized.buf, size), count - 1, depth, limit)

cmp_skip_object_limit(buf, limit) == skip_elements(buf, 1, 0, limit)
cmp_skip_object_no_limit(buf) == skip_elements(buf, 1, 0, Len(buf) + 1)

-------------------------------------------------------------------------------
\* Messages between the workers over Redis.  Strings are sequences of bytes.

text_msg == <<109, 115, 103>>                                       \* "msg"
text_max_msgs == <<109, 97, 120, 95, 109, 115, 103, 115, 43>>       \* "max_msgs+"

\* Fault: the hand-rolled message has its time before its ttl.
publish_send_swapped(msg) ==
    LET capped(str) == IF Len(str) > 255 THEN 255 ELSE Len(str)
    IN <<154, 163>> \o text_msg \o <<206>> \o be(msg.time, 4) \o <<206>> \o be(msg.ttl, 4) \o <<0, 0, 0>>
       \o <<219>> \o be(num(Len(msg.data)), 4) \o msg.data
       \o <<217, capped(msg.content_type)>> \o msg.content_type
       \o <<217, capped(msg.event)>> \o msg.event \o <<msg.compression>>

\* redis_publish_message_send packs the message by hand where Redis stores nothing: the lengths of the
\* content type and the event are capped, the strings are not.
redis_publish_message_send(msg) ==
    LET capped(str) == IF Len(str) > 255 THEN 255 ELSE Len(str)
    IN <<154, 163>> \o text_msg \o <<206>> \o be(msg.ttl, 4) \o <<206>> \o be(msg.time, 4) \o <<0, 0, 0>>
       \o <<219>> \o be(num(Len(msg.data)), 4) \o msg.data
       \o <<217, capped(msg.content_type)>> \o msg.content_type
       \o <<217, capped(msg.event)>> \o msg.event \o <<msg.compression>>

\* publish.lua packs it in Redis, with the size of the channel's buffer before it when that changed.
publish_lua(msg) ==
    LET ample == [ok |-> TRUE, error |-> "NONE", buf |-> <<>>, room |-> 2000]
        str(ctx, data) == cmp_write_str(ctx, strType(num(Len(data))), data)
        ttl == IF msg.ttl = num(0) THEN num(126144000) ELSE msg.ttl
        head == IF msg.resized
                THEN cmp_write_integer(str(cmp_write_array(ample, num(11)), text_max_msgs \o text_msg), num(5))
                ELSE str(cmp_write_array(ample, num(10)), text_msg)
        ids == FoldLeft(cmp_write_uinteger, cmp_write_integer(head, ttl),
                        <<msg.time, msg.tag, msg.prev_time, msg.prev_tag>>)
    IN cmp_write_uinteger(str(str(str(ids, msg.data), msg.content_type), msg.event), num(msg.compression)).buf

\* Steps of a parser: each takes the record of the earlier ones, and does nothing once one has failed.
parse_number(p, field, call(_)) ==
    LET take(c) == IF c.ok THEN [p EXCEPT ![field] = c.val, !.buf = c.buf] ELSE [p EXCEPT !.ok = FALSE]
    IN IF p.ok THEN take(call(p.buf)) ELSE p

\* A string is a piece of the buffer; its size is not held against the buffer's.
cmp_to_str(p, field) ==
    LET cut(c, n) == [p EXCEPT ![field] = SubSeq(c.buf, 1, n), !.buf = skipped(c.buf, n)]
        take(c) == IF c.ok THEN cut(c, within(c.val, Len(c.buf))) ELSE [p EXCEPT !.ok = FALSE]
    IN IF p.ok THEN take(cmp_read_str_size(p.buf)) ELSE p

read_int(buf) == cmp_read_signed(buf, 3)
read_integer(buf) == cmp_read_signed(buf, 4)
read_uinteger(buf) == cmp_read_unsigned(buf, 4)

\* That the compression could not be read is no error, and a message without a time to live has a second.
cmp_to_msg(p) ==
    LET ids(q) == FoldLeft(LAMBDA a, field : parse_number(a, field, read_uinteger), q,
                           <<"time", "tag", "prev_time", "prev_tag">>)
        strings(q) == FoldLeft(cmp_to_str, q, <<"data", "content_type", "event">>)
        last(q) == IF ~q.ok THEN q
                   ELSE [parse_number(q, "compression", read_int) EXCEPT !.ttl = IF @ = num(0) THEN num(1) ELSE @,
                                                                         !.ok = TRUE]
    IN last(strings(ids(parse_number(p, "ttl", read_int))))

Parsed0(buf) == [ok |-> TRUE, buf |-> buf, kind |-> <<>>, buffer |-> num(0),
                 ttl |-> num(0), time |-> num(0), tag |-> num(0), prev_time |-> num(0), prev_tag |-> num(0),
                 data |-> <<>>, content_type |-> <<>>, event |-> <<>>, compression |-> num(0)]

\* What redis_subscriber_callback does with the bytes of a message.
pubsub_parse(buf) ==
    LET sized(q) == IF ~IsStrictPrefix(text_max_msgs, q.kind) THEN q
                    ELSE parse_number([q EXCEPT !.kind = skipped(@, Len(text_max_msgs))], "buffer", read_integer)
        body(q) == IF q.ok /\ q.kind = text_msg THEN cmp_to_msg(q) ELSE [q EXCEPT !.ok = FALSE]
        fields(array) == IF ~array.ok \/ array.val = num(0) THEN [Parsed0(buf) EXCEPT !.ok = FALSE]
                         ELSE body(sized(cmp_to_str(Parsed0(array.buf), "kind")))
    IN fields(cmp_read_array(buf))

-------------------------------------------------------------------------------
\* A program writes an object, with calls of cmp_write_*, into a buffer of some room, and another reads it.

VARIABLE mp
mpVars == <<mp>>

cmp_write(ctx, c) ==
    CASE c.op = "integer" -> cmp_write_integer(ctx, c.v)
      [] c.op = "uinteger" -> cmp_write_uinteger(ctx, c.v)
      [] c.op = "sfix" -> cmp_write_sfix(ctx, c.v)
      [] c.op = "sized" -> IF c.t \in Range(Sint) THEN cmp_write_s(ctx, c.t, c.v) ELSE cmp_write_u(ctx, c.t, c.v)
      [] c.op = "decimal" -> cmp_write_decimal(ctx, c.data)
      [] c.op = "nil" -> cmp_write_nil(ctx)
      [] c.op = "bool" -> cmp_write_bool(ctx, c.v # num(0))
      [] c.op = "str" -> cmp_write_str(ctx, c.t, c.data)
      [] c.op = "bin" -> cmp_write_bin(ctx, c.t, c.data)
      [] c.op = "ext" -> cmp_write_ext(ctx, c.t, 7, c.data)
      [] c.op = "str_marker" -> str_marker(ctx, c.t, c.v)
      [] c.op = "bin_marker" -> write_sized_marker(ctx, c.t, c.v)
      [] c.op = "ext_marker" -> ext_marker(ctx, c.t, 7, c.v)
      [] c.op = "array" -> cmp_write_array(ctx, c.v)
      [] c.op = "map" -> cmp_write_map(ctx, c.v)

cmp_read(buf, r) ==
    CASE r.op = "sexact" -> cmp_read_sexact(buf, r.t)
      [] r.op = "uexact" -> cmp_read_uexact(buf, r.t)
      [] r.op = "signed" -> cmp_read_signed(buf, r.n)
      [] r.op = "unsigned" -> cmp_read_unsigned(buf, r.n)
      [] r.op = "decimal" -> cmp_read_decimal(buf)
      [] r.op = "nil" -> cmp_read_nil(buf)
      [] r.op = "bool" -> cmp_read_bool(buf)
      [] r.op = "str" -> cmp_read_str(buf, r.n)
      [] r.op = "bin" -> cmp_read_bin(buf, r.n)
      [] r.op = "ext" -> cmp_read_ext(buf, Exts)
      [] r.op = "str_size" -> cmp_read_str_size(buf)
      [] r.op = "bin_size" -> cmp_read_bin_size(buf)
      [] r.op = "ext_size" -> cmp_read_ext_marker(buf, Exts)
      [] r.op = "array" -> cmp_read_array(buf)
      [] r.op = "map" -> cmp_read_map(buf)
      [] r.op = "skip" -> cmp_skip_object_no_limit(buf)
      [] r.op = "skip_limit" -> cmp_skip_object_limit(buf, r.n)

Reader(ops, ts, ns) == [op : ops, t : ts, n : ns]
CmpReaders ==
    Reader({"sexact"}, {"NEGATIVE_FIXNUM"} \cup Range(Sint), {0})
    \cup Reader({"uexact"}, {"POSITIVE_FIXNUM"} \cup Range(Uint), {0})
    \cup Reader({"signed", "unsigned"}, {""}, 1 .. 4)
    \cup Reader({"str", "bin", "skip_limit"}, {""}, 0 .. 3)
    \cup Reader({"decimal", "nil", "bool", "ext", "str_size", "bin_size", "ext_size", "array", "map", "skip"}, {""}, {0})

NoCall == [op |-> "none", t |-> "", n |-> 0]
Sink(room) == [ok |-> TRUE, error |-> "NONE", buf |-> <<>>, room |-> room]
cmp_init ==
    \/ \E calls \in CmpStreams, room \in Rooms :
         mp = [calls |-> calls, done |-> 0, ctx |-> Sink(room), msg |-> <<>>, reader |-> NoCall, result |-> <<>>]
    \/ \E msg \in Messages :
         mp = [calls |-> <<>>, done |-> 0, ctx |-> Sink(0), msg |-> <<msg>>, reader |-> NoCall, result |-> <<>>]

Written == mp.msg = <<>> /\ (mp.done = Len(mp.calls) \/ ~mp.ctx.ok)

writes ==
    /\ mp.msg = <<>> /\ ~Written
    /\ mp' = [mp EXCEPT !.ctx = cmp_write(@, mp.calls[mp.done + 1]), !.done = @ + 1]
reads ==
    /\ Written /\ mp.result = <<>>
    /\ \E r \in CmpReaders : mp' = [mp EXCEPT !.reader = r, !.result = <<cmp_read(mp.ctx.buf, r)>>]

\* A message is packed by the worker or by Redis, and unpacked by the workers that subscribed.
sends ==
    /\ mp.msg # <<>> /\ mp.done = 0
    /\ mp' = [mp EXCEPT !.done = 1, !.ctx.buf = IF mp.msg[1].stored THEN publish_lua(mp.msg[1])
                                                ELSE redis_publish_message_send(mp.msg[1])]
receives ==
    /\ mp.msg # <<>> /\ mp.done = 1 /\ mp.result = <<>>
    /\ mp' = [mp EXCEPT !.result = <<pubsub_parse(mp.ctx.buf)>>]

CmpNext == writes \/ reads \/ sends \/ receives
CmpSpec == cmp_init /\ [][CmpNext]_mpVars

-------------------------------------------------------------------------------
\* Properties

\* What is written and read are bytes, and no more of them than there is room for.
CmpTypeOK ==
    /\ \A i \in DOMAIN mp.ctx.buf : mp.ctx.buf[i] \in 0 .. 255
    /\ mp.msg = <<>> => Len(mp.ctx.buf) <= mp.ctx.room
    /\ mp.result # <<>> => \E i \in 0 .. Len(mp.ctx.buf) : mp.result[1].buf = skipped(mp.ctx.buf, i)

IntOps == {"integer", "uinteger", "sfix", "sized"}
IntReads == {"sexact", "uexact", "signed", "unsigned"}
fitsReader(v, r) ==
    IF r.op = "signed" THEN atMost(halfMin(CmpBytes[r.n]), v) /\ atMost(v, halfMax(CmpBytes[r.n]))
    ELSE ~negative(v) /\ atMost(v, ones(CmpBytes[r.n]))

One(ops) == Len(mp.calls) = 1 /\ mp.ctx.ok /\ mp.done = 1 /\ mp.calls[1].op \in ops
Call == mp.calls[1]
Result == mp.result[1]

\* At the limits of every width: an integer that some function wrote is read by no function as another
\* one, and what the functions that choose the format wrote is read by every function it fits.
IntegersReadBack ==
    One(IntOps) /\ mp.result # <<>> /\ mp.reader.op \in IntReads =>
        /\ Result.ok => Result.val = Call.v /\ Result.buf = <<>>
        /\ Call.op \in {"integer", "uinteger"} /\ mp.reader.op \in {"signed", "unsigned"} =>
              (Result.ok <=> fitsReader(Call.v, mp.reader))

\* A string, bin or ext is read back when there is room for it, with the room for its terminator for a
\* string, and every size is read back whatever its format.
DataReadBack ==
    One({"str", "bin", "ext", "decimal", "array", "map", "str_marker", "bin_marker", "ext_marker"})
    /\ mp.result # <<>> =>
        /\ Call.op = mp.reader.op /\ Call.op \in {"str", "bin", "ext", "decimal"} /\ Result.ok =>
              Result.val = Call.data /\ Result.buf = <<>>
        /\ Call.op = "str" /\ mp.reader.op = "str" => (Result.ok <=> Len(Call.data) + 1 <= mp.reader.n)
        /\ Call.op = "bin" /\ mp.reader.op = "bin" => (Result.ok <=> Len(Call.data) <= mp.reader.n)
        /\ \/ Call.op = mp.reader.op /\ Call.op \in {"array", "map"}
           \/ Call.op = "str_marker" /\ mp.reader.op = "str_size"
           \/ Call.op = "bin_marker" /\ mp.reader.op = "bin_size"
           => Result.ok /\ Result.val = Call.v
        /\ Call.op = "ext_marker" /\ mp.reader.op = "ext_size" => Result.ok /\ Result.val = <<7, Call.v>>

\* Of an object that the buffer had no room for, no function that takes a value says that it read one.
TruncatedRefused ==
    /\ Len(mp.calls) = 1 /\ ~mp.ctx.ok /\ cmp_write(Sink(2000), Call).ok /\ mp.result # <<>>
    /\ mp.reader.op \in IntReads \cup {"decimal", "nil", "bool", "str", "bin", "ext"}
    => ~Result.ok

\* cmp_write_integer chooses the shortest of the formats that hold the value.
ShortestFormat ==
    One({"integer", "uinteger"}) =>
        \A t \in DOMAIN Width :
            LET v == IF t \in Range(Sint) THEN signed(be(Call.v, Width[t])) ELSE unsigned(be(Call.v, Width[t]))
            IN v = Call.v => Len(mp.ctx.buf) <= Width[t] + 1

\* An object that is read and written again is the same bytes; in the older format too, unless refused.
RewrittenSame ==
    One({Call.op}) =>
        LET obj == cmp_read_object(mp.ctx.buf)
            again == cmp_write_object(Sink(20), obj)
            v4 == cmp_write_object_v4(Sink(20), obj)
        IN /\ obj.ok /\ again.ok /\ again.buf \o obj.buf = mp.ctx.buf
           /\ v4.ok => v4.buf = again.buf
           /\ v4.ok <=> obj.type \notin Bins \cup {"STR8"}

\* cmp_object_is_*, cmp_object_as_* and cmp_read_* agree: what is of a type is taken as that type, and
\* what is taken from an object is what is read.
AsAgreesWithRead ==
    One({Call.op}) =>
        LET obj == cmp_read_object(mp.ctx.buf)
        IN \A n \in 1 .. 4 :
             /\ isSigned(obj, n) => as_signed(obj, n).ok
             /\ isUnsigned(obj, n) => as_unsigned(obj, n).ok
             /\ as_unsigned(obj, n).ok => as_unsigned(obj, n) = cmp_read_unsigned(mp.ctx.buf, n)
             /\ isSigned(obj, n) => as_signed(obj, n) = cmp_read_signed(mp.ctx.buf, n)
             /\ Cardinality({g \in DOMAIN Groups : isGroup(obj, g)}) + (IF isSigned(obj, 4) \/ isUnsigned(obj, 4) THEN 1 ELSE 0) = 1

EmptyExt == \E i \in DOMAIN mp.calls : mp.calls[i].op = "ext_marker" /\ mp.calls[i].v = num(0)

\* Skipping an object leaves what comes after it, whatever the object contains: unless it contains an
\* ext without data, whose type is not skipped.
SkipsWhole ==
    /\ mp.result # <<>> /\ mp.ctx.ok /\ mp.reader.op \in {"skip", "skip_limit"}
    /\ Len(mp.calls) > 1 /\ ~EmptyExt
    => /\ Result.ok => Result.buf = <<>>
       /\ mp.reader.op = "skip" => Result.ok
       /\ ~Result.ok => Result.error = "SKIP_DEPTH_LIMIT_EXCEEDED"

\* What is written is read back the same, by every function that reads it, or refused: at the limits of
\* every format, from a buffer that ends too early, as a value or as an object.
ReadsBack == /\ CmpTypeOK /\ IntegersReadBack /\ DataReadBack /\ TruncatedRefused /\ ShortestFormat
             /\ RewrittenSame /\ AsAgreesWithRead /\ SkipsWhole

\* How deep the containers of a written object are nested.
Contained(c) == IF c.op = "array" THEN c.v[9] ELSE IF c.op = "map" THEN 2 * c.v[9] ELSE 0
Nesting(calls) ==
    LET open(stack, c) ==
            [stack EXCEPT ![Len(stack)] = @ - 1] \o (IF c.op \in {"array", "map"} THEN <<Contained(c)>> ELSE <<>>)
        levels(stack) == SubSeq(stack, 1, Max({0} \cup {i \in DOMAIN stack : stack[i] > 0}))
        stacks == FoldLeft(LAMBDA acc, c : Append(acc, open(levels(Last(acc)), c)), <<<<1>>>>, calls)
    IN Max({Len(stacks[i]) - 1 : i \in DOMAIN stacks})

\* cmp.h: the limit of cmp_skip_object_limit is of depth, so an object is skipped whose containers are
\* nested no deeper.  The code counts groups of containers instead and refuses some of them.
SkipsByDepth ==
    /\ mp.result # <<>> /\ mp.ctx.ok /\ Len(mp.calls) > 1 /\ ~EmptyExt
    /\ mp.reader.op = "skip_limit" /\ mp.reader.n >= Nesting(mp.calls)
    => Result.ok

\* A message that one worker publishes is the message that another receives, however it was packed, if
\* its content type and its event have at most 255 bytes: with a second to live if it had none.
MessageSurvives ==
    mp.msg # <<>> /\ mp.result # <<>> =>
        LET msg == mp.msg[1]
            lost == ~msg.stored /\ (Len(msg.content_type) > 255 \/ Len(msg.event) > 255)
        IN ~lost =>
             /\ Result.ok /\ Result.buf = <<>>
             /\ Result.time = msg.time /\ Result.data = msg.data
             /\ Result.content_type = msg.content_type /\ Result.event = msg.event
             /\ Result.compression = num(msg.compression)
             /\ msg.ttl # num(0) => Result.ttl = msg.ttl
             /\ Result.ttl # num(0)
             /\ msg.stored => /\ Result.tag = msg.tag /\ Result.prev_time = msg.prev_time
                              /\ Result.prev_tag = msg.prev_tag
===============================================================================
