-------------------------------- MODULE Wire --------------------------------
(***************************************************************************)
(* The msgpack encoding: the calls that write a value makes on its output, *)
(* and what reads make of bytes. A number is a word of 8 bytes, the most   *)
(* significant first, a negative one in two's complement; a size is a      *)
(* word, too. Strings are sequences of bytes.                              *)
(***************************************************************************)
EXTENDS Integers, SequencesExt, FiniteSetsExt

Byte == 0..255
Word == [1..8 -> Byte]

Ints == <<"INT_8", "INT_16", "INT_32", "INT_64">>
Uints == <<"UINT_8", "UINT_16", "UINT_32", "UINT_64">>
NReserved(n) == [k \in 1..n |-> "RESERVED"]

(* TABLE, from the first header that is not a whole range.                 *)
Others ==
  <<"NIL", "RESERVED", "FALSE", "TRUE">> \o NReserved(6) \o <<"FLOAT", "DOUBLE">>
    \o Uints \o Ints \o NReserved(6)
    \o <<"RAW_16", "RAW_32", "ARRAY_16", "ARRAY_32", "MAP_16", "MAP_32">>

header_type(h) ==
  CASE h \in 0..127   -> "FIXNUM_POSITIVE"
    [] h \in 128..143 -> "MAP_FIXED"
    [] h \in 144..159 -> "ARRAY_FIXED"
    [] h \in 160..191 -> "RAW_FIXED"
    [] h \in 192..223 -> Others[h - 191]
    [] h \in 224..255 -> "FIXNUM_NEGATIVE"

header ==
  [MAP_FIXED |-> 128, ARRAY_FIXED |-> 144, RAW_FIXED |-> 160, NIL |-> 192,
   FALSE |-> 194, TRUE |-> 195,
   FLOAT |-> 202, DOUBLE |-> 203,
   UINT_8 |-> 204, UINT_16 |-> 205, UINT_32 |-> 206, UINT_64 |-> 207,
   INT_8 |-> 208, INT_16 |-> 209, INT_32 |-> 210, INT_64 |-> 211,
   RAW_16 |-> 218, RAW_32 |-> 219, ARRAY_16 |-> 220, ARRAY_32 |-> 221,
   MAP_16 |-> 222, MAP_32 |-> 223]

(* The number of bytes that follow a header of the type.                   *)
Width(type) ==
  CASE type \in {"INT_8", "UINT_8"} -> 1
    [] type \in {"INT_16", "UINT_16", "RAW_16", "ARRAY_16", "MAP_16"} -> 2
    [] type \in {"INT_32", "UINT_32", "RAW_32", "ARRAY_32", "MAP_32", "FLOAT"} -> 4
    [] type \in {"INT_64", "UINT_64", "DOUBLE"} -> 8
    [] OTHER -> 0

-----------------------------------------------------------------------------
(* Conversions between widths. *)

Low(x, n) == SubSeq(x, 9 - n, 8)
Filled(bytes, with) == [k \in 1..(8 - Len(bytes)) |-> with] \o bytes
ZeroExtended(bytes) == Filled(bytes, 0)
SignExtended(bytes) == Filled(bytes, IF bytes[1] >= 128 THEN 255 ELSE 0)

IsUnsigned(x, n) == x = ZeroExtended(Low(x, n))
IsSigned(x, n)   == x = SignExtended(Low(x, n))

Small(x, max) == IsUnsigned(x, 1) /\ x[8] <= max

(* Sizes, which are below 2^24 here; a word of no more than 31 bits.        *)
ToWord(n) == ZeroExtended(<<n \div 65536, (n \div 256) % 256, n % 256>>)
ToNat(x) == (x[5] * 16777216) + (x[6] * 65536) + (x[7] * 256) + x[8]

-----------------------------------------------------------------------------
(* Writing: sequences of calls. *)

(* One call of a method of the output, which gets data.                    *)
Call(method, data) == <<[method |-> method, data |-> data]>>

(* The widths of the types in Uints and Ints.                              *)
Widths == <<1, 2, 4, 8>>

Numbered(types, k, x) == Call("put", <<header[types[k]]>>) \o Call("write", Low(x, Widths[k]))

write_uint_fixed(byte) == Call("write", <<byte % 128>>)

(* ~x & 0xE0 *)
write_int_fixed(byte) == Call("write", <<((255 - byte) \div 32) * 32>>)

(* The narrowest of the four widths that holds x.                          *)
Unsigned(x) == Min({k \in 1..4 : IsUnsigned(x, Widths[k])})
Signed(x)   == Min({k \in 1..4 : IsSigned(x, Widths[k])})

write_uint_128(x) ==
  IF Small(x, 128) THEN write_uint_fixed(x[8]) ELSE Numbered(Uints, Unsigned(x), x)

write_uint(x) ==
  IF Small(x, 127) THEN write_uint_fixed(x[8]) ELSE Numbered(Uints, Unsigned(x), x)

FixedNegative(x) == IsSigned(x, 1) /\ x[8] >= 224

write_int(x) ==
  IF FixedNegative(x) THEN write_int_fixed(x[8])
  ELSE IF Small(x, 127) THEN write_uint_fixed(x[8])
  ELSE Numbered(Ints, Signed(x), x)

(* The sizes of arrays, maps and strings.                                  *)
WriteSize(size, max, fixed, header16, header32) ==
  IF Small(size, max) THEN Call("put", <<fixed + size[8]>>)
  ELSE IF IsUnsigned(size, 2) THEN Call("put", <<header16>>) \o Call("write", Low(size, 2))
  ELSE Call("put", <<header32>>) \o Call("write", Low(size, 4))

write_array_size(size) ==
  WriteSize(size, 15, header.ARRAY_FIXED, header.ARRAY_16, header.ARRAY_32)
write_map_size(size) ==
  WriteSize(size, 15, header.MAP_FIXED, header.MAP_16, header.MAP_32)
write_raw(data) ==
  WriteSize(ToWord(Len(data)), 31, header.RAW_FIXED, header.RAW_16, header.RAW_32)
    \o Call("write_zerocopy", data)

(* A value and what it consists of: a word, bytes, or a size.              *)
Value(kind, x) == [kind |-> kind, x |-> x]

Values ==
  [kind : {"uint", "int", "array", "map"}, x : Word]
    \cup [kind : {"nil", "bool", "float", "double", "raw"}, x : Seq(Byte)]

Written(v) ==
  CASE v.kind = "uint"   -> write_uint(v.x)
    [] v.kind = "int"    -> write_int(v.x)
    [] v.kind = "nil"    -> Call("put", <<header.NIL>>)
    [] v.kind = "bool"   -> Call("put", <<IF v.x = <<1>> THEN header.TRUE ELSE header.FALSE>>)
    [] v.kind = "float"  -> Call("put", <<header.FLOAT>>) \o Call("write", v.x)
    [] v.kind = "double" -> Call("put", <<header.DOUBLE>>) \o Call("write", v.x)
    [] v.kind = "array"  -> write_array_size(v.x)
    [] v.kind = "map"    -> write_map_size(v.x)
    [] v.kind = "raw"    -> write_raw(v.x)

(* The bytes that calls put on a plain stream.                             *)
Encoded(calls) == FlattenSeq([k \in DOMAIN calls |-> calls[k].data])

-----------------------------------------------------------------------------
(* Reading: what is read, and what is left. An exception or an assertion   *)
(* that fails is a read that is not ok.                                    *)

Result(x, rest) == [ok |-> TRUE, x |-> x, rest |-> rest]
Failed(in) == [ok |-> FALSE, x |-> <<>>, rest |-> in]
After(in, n) == SubSeq(in, n + 1, Len(in))
Payload(in) == SubSeq(in, 2, 1 + Width(header_type(in[1])))
AfterPayload(in) == After(in, 1 + Width(header_type(in[1])))

read_uint(in) ==
  LET type == header_type(in[1])
  IN  IF type = "FIXNUM_POSITIVE" THEN Result(ZeroExtended(<<in[1] % 128>>), After(in, 1))
      ELSE IF type \in ToSet(Uints) THEN Result(ZeroExtended(Payload(in)), AfterPayload(in))
      ELSE Failed(in)

read_int(in) ==
  LET type == header_type(in[1])
  IN  IF type = "FIXNUM_NEGATIVE" THEN Result(SignExtended(<<in[1] % 32>>), After(in, 1))
      ELSE IF type \in ToSet(Ints) THEN Result(SignExtended(Payload(in)), AfterPayload(in))
      ELSE read_uint(in)

ReadSize(in, fixed, mask, others) ==
  LET type == header_type(in[1])
  IN  IF type = fixed THEN Result(ZeroExtended(<<in[1] % mask>>), After(in, 1))
      ELSE IF type \in others THEN Result(ZeroExtended(Payload(in)), AfterPayload(in))
      ELSE Failed(in)

read_array_size(in) == ReadSize(in, "ARRAY_FIXED", 16, {"ARRAY_16", "ARRAY_32"})
read_map_size(in) == ReadSize(in, "MAP_FIXED", 16, {"MAP_16", "MAP_32"})
RawSize(in) == ReadSize(in, "RAW_FIXED", 32, {"RAW_16", "RAW_32"})

read_raw(in) ==
  LET size == RawSize(in)
  IN  IF size.ok THEN Result(SubSeq(size.rest, 1, ToNat(size.x)), After(size.rest, ToNat(size.x)))
      ELSE size

ReadAs(kind, in) ==
  LET type == header_type(in[1])
  IN  CASE kind = "uint"  -> read_uint(in)
        [] kind = "int"   -> read_int(in)
        [] kind = "array" -> read_array_size(in)
        [] kind = "map"   -> read_map_size(in)
        [] kind = "raw"   -> read_raw(in)
        [] kind = "nil" /\ type = "NIL" -> Result(<<>>, After(in, 1))
        [] kind = "bool" /\ type \in {"FALSE", "TRUE"} ->
             Result(<<IF type = "TRUE" THEN 1 ELSE 0>>, After(in, 1))
        [] \/ kind = "float" /\ type = "FLOAT"
           \/ kind = "double" /\ type = "DOUBLE" -> Result(Payload(in), AfterPayload(in))
        [] OTHER -> Failed(in)

-----------------------------------------------------------------------------
(* Reading a value of any type, with all the values inside it.             *)

(* The size that is in the header or follows it from position at.          *)
SizeAt(in, pos, at) ==
  LET type == header_type(in[pos])
  IN  CASE type \in {"ARRAY_FIXED", "MAP_FIXED"} -> in[pos] % 16
        [] type = "RAW_FIXED" -> in[pos] % 32
        [] type \in {"ARRAY_16", "MAP_16", "RAW_16", "ARRAY_32", "MAP_32", "RAW_32"} ->
             ToNat(ZeroExtended(SubSeq(in, at, at + Width(type) - 1)))
        [] OTHER -> 0

Children_KeysOnly(type, size) ==
  IF type \in {"ARRAY_FIXED", "ARRAY_16", "ARRAY_32", "MAP_FIXED", "MAP_16", "MAP_32"}
  THEN size ELSE 0

(* How many values the one with the header has inside it.                  *)
Children(type, size) ==
  CASE type \in {"ARRAY_FIXED", "ARRAY_16", "ARRAY_32"} -> size
    [] type \in {"MAP_FIXED", "MAP_16", "MAP_32"} -> 2 * size
    [] OTHER -> 0

RawBytes(type, size) == IF type \in {"RAW_FIXED", "RAW_16", "RAW_32"} THEN size ELSE 0

Failure == 0

(* Where in stands after read_lazy, which copies what it passes: the value *)
(* and those inside it are read one after the other, pending are left.     *)
read_lazy(in) ==
  LET End[pos \in Nat, pending \in Nat] ==
        IF pending = 0 THEN pos
        ELSE IF pos > Len(in) THEN Failure
        ELSE LET type == header_type(in[pos])
                 size == SizeAt(in, pos, pos + 1)
             IN  End[pos + 1 + Width(type) + RawBytes(type, size),
                     (pending - 1) + Children(type, size)]
  IN  End[1, 1]

(* The same of read_dynamic. It only peeks at the header of a value and    *)
(* each case takes it, but that of MAP_16; and the end of the input gives  *)
(* no value and is no error.                                               *)
read_dynamic(in) ==
  LET End[pos \in Nat, pending \in Nat] ==
        IF pending = 0 \/ pos > Len(in) THEN pos
        ELSE LET type == header_type(in[pos])
                 start == IF type = "MAP_16" THEN pos ELSE pos + 1
                 size == SizeAt(in, pos, start)
             IN  End[start + Width(type) + RawBytes(type, size),
                     (pending - 1) + Children(type, size)]
  IN  End[1, 1]
=============================================================================
