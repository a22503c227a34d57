----------------------------- MODULE StoreWriter -----------------------------
(***************************************************************************)
(* How Writer::write puts the instances of a store on the stream: msgpack  *)
(* into one WriteBuffer for each instance's fields and one for all the     *)
(* instances, whose size goes ahead of them. As Reader relies on, the      *)
(* stream must read back in the same order and pieces.                     *)
(***************************************************************************)
EXTENDS WriteBuffer, Wire

CONSTANTS
  MaxFields,      \* bound: declared fields that are written in all
  MaxInstances,   \* bound: instances of the store
  FieldValues,    \* what a field may hold: values and those inside them
  LazyFields      \* the fields that an instance may have kept lazily

ASSUME FieldsAssumption ==
  /\ MaxFields \in Nat /\ MaxInstances \in Nat
  /\ FieldValues \subseteq Seq(Values)
  /\ LazyFields \subseteq Seq(Seq(Values))

VARIABLES
  fields,      \* buf of write_instance
  nfields,     \* nfields_new
  instances,   \* buf of Writer::write
  left,        \* how many instances are still to be written
  out,         \* the stream
  told         \* history: the values in the order in which they must be read

vars == <<fields, nfields, instances, left, out, told>>

Closed == -1      \* the store is not open

Number(kind, n) == Value(kind, ToWord(n))
Field(id, value) == <<Number("uint", id)>> \o value
Calls(values) == FlattenSeq([k \in DOMAIN values |-> Written(values[k])])

Called(b, call) ==
  IF call.method = "put" THEN put(b, call.data[1])
  ELSE IF call.method = "write" THEN write(b, call.data)
  ELSE write_zerocopy(b, call.data)

(* The calls on a buffer, in their order.                                  *)
Do(buffer, calls) ==
  LET done[n \in 0..Len(calls)] ==
        IF n = 0 THEN buffer ELSE Called(done[n - 1], calls[n])
  IN  done[Len(calls)]

Init ==
  /\ fields = Constructed
  /\ nfields = 0
  /\ instances = Constructed
  /\ left = Closed
  /\ out = <<>>
  /\ told = [nfields |-> 0, fields |-> <<>>, instances |-> <<>>]

(* One store is written. *)
Open(n) ==
  /\ left = Closed
  /\ out = <<>>
  /\ instances' = Do(instances, write_array_size(ToWord(n)))
  /\ left' = n
  /\ told' = [told EXCEPT !.instances = <<Number("array", n)>>]
  /\ UNCHANGED <<fields, nfields, out>>

(* write_field returns true: the field's id, which is its position here,   *)
(* and its value.                                                          *)
WriteField(value) ==
  /\ left > 0
  /\ told.nfields < MaxFields
  /\ fields' = Do(fields, Calls(Field(nfields, value)))
  /\ nfields' = nfields + 1
  /\ told' = [told EXCEPT !.nfields = @ + 1,
                         !.fields = @ \o Field(nfields, value)]
  /\ UNCHANGED <<instances, left, out>>

write_lazy(lazy) ==
  LET n      == nfields + Len(lazy)
      counted == Do(instances, write_map_size(ToWord(n)))
      bytes  == Encoded(Calls(FlattenSeq(lazy)))
  IN  IF n = 0 THEN counted
      ELSE copy_from(IF bytes # <<>> THEN write(counted, bytes) ELSE counted, fields)

(* The next instance gets a buffer of its own for its fields.              *)
CloseInstance(lazy) ==
  /\ left > 0
  /\ instances' = write_lazy(lazy)
  /\ fields' = Constructed
  /\ nfields' = 0
  /\ left' = left - 1
  /\ told' = [told EXCEPT !.fields = <<>>,
                          !.instances = @ \o <<Number("map", nfields + Len(lazy))>>
                                          \o FlattenSeq(lazy) \o told.fields]
  /\ UNCHANGED out

CloseStore ==
  /\ left = 0
  /\ out' = out \o Encoded(write_uint(ToWord(instances.size))) \o Contents(instances)
  /\ instances' = Constructed
  /\ left' = Closed
  /\ UNCHANGED <<fields, nfields, told>>

Next ==
  \/ \E n \in 0..MaxInstances : Open(n)
  \/ \E value \in FieldValues : WriteField(value)
  \/ \E lazy \in LazyFields : CloseInstance(lazy)
  \/ CloseStore

Spec == Init /\ [][Next]_vars
-----------------------------------------------------------------------------
(* After any calls the blocks of both buffers lie in their pools, one      *)
(* beside the other, and none holds more than it has room for.             *)
BuffersSound == Sound(fields) /\ Sound(instances)

(* Whatever is written in pieces of whatever sizes, with strings lent to   *)
(* the buffer between them, a buffer holds what was written in its order,  *)
(* and the size that is announced is that of the bytes that follow.        *)
Strings == INSTANCE StoreText WITH fields <- Contents(fields),
                                   instances <- Contents(instances)
ImplementsText == Strings!Spec

Negative(v) == v.kind = "int" /\ FixedNegative(v.x)

(* What a typed read of the value must give. Negative numbers that should  *)
(* fit in the header lose their bits on the way: they are read as 0.       *)
Expected(v) == IF Negative(v) THEN ToWord(0) ELSE v.x

(* Reads of the types that were written, one after the other, give the     *)
(* values that were written, and nothing is left.                          *)
ReadsBack ==
  out # <<>> =>
    LET group == read_uint(out)
        Read(r, v) ==
          IF ~r.ok \/ r.rest = <<>> THEN Failed(<<>>)
          ELSE LET next == ReadAs(v.kind, r.rest)
               IN  [next EXCEPT !.ok = @ /\ next.x = Expected(v)]
        end == FoldLeft(Read, group, told.instances)
    IN  /\ group.ok
        /\ ToNat(group.x) = Len(group.rest)
        /\ end.ok /\ end.rest = <<>>

(* Objects whose size is written behind MAP_16.                            *)
Manifold(v) == v.kind = "map" /\ ~Small(v.x, 15) /\ IsUnsigned(v.x, 2)

(* The instances are one value: in a stream that goes on after it,         *)
(* read_lazy, which knows no types, ends with the last byte that was       *)
(* announced; and so does read_dynamic exactly if no object is manifold.   *)
(* Otherwise it also takes what follows the value.                         *)
EndsWithItsValue ==
  out # <<>> =>
    LET group == read_uint(out).rest
        stream == Append(group, header.NIL)
    IN  /\ read_lazy(stream) = Len(group) + 1
        /\ read_dynamic(stream) = Len(group) + 1 <=>
             \A k \in DOMAIN told.instances : ~Manifold(told.instances[k])
=============
