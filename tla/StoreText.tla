------------------------------ MODULE StoreText ------------------------------
(***************************************************************************)
(* What writing the instances of a store puts on the stream, if buffers    *)
(* were strings of bytes: the fields of an instance are collected, go      *)
(* after a count of them and what was kept lazily, and the instances go    *)
(* after a count of their bytes. StoreWriter implements this module.       *)
(***************************************************************************)
EXTENDS Wire

CONSTANTS
  MaxFields,      \* bound: declared fields that are written in all
  MaxInstances,   \* bound: instances of the store
  FieldValues,    \* what a field may hold: values and those inside them
  LazyFields      \* the fields that an instance may have kept lazily

VARIABLES
  fields,      \* the fields of the instance being written
  nfields,     \* how many they are
  instances,   \* the array of the instances before it
  left,        \* how many instances are still to be written
  out          \* the stream

textVars == <<fields, nfields, instances, left, out>>

Closed == -1      \* the store is not open

(* A value in the form in which it is read: itself and those inside it.    *)
Calls(values) == FlattenSeq([k \in DOMAIN values |-> Written(values[k])])
Text(values) == Encoded(Calls(values))

Number(kind, n) == Value(kind, ToWord(n))

(* A field is its id and its value.                                        *)
Field(id, value) == <<Number("uint", id)>> \o value

Init ==
  /\ fields = <<>>
  /\ nfields = 0
  /\ instances = <<>>
  /\ left = Closed
  /\ out = <<>>

Open(n) ==
  /\ left = Closed
  /\ out = <<>>
  /\ instances' = instances \o Text(<<Number("array", n)>>)
  /\ left' = n
  /\ UNCHANGED <<fields, nfields, out>>

WriteField(value) ==
  /\ left > 0
  /\ nfields < MaxFields
  /\ fields' = fields \o Text(Field(nfields, value))
  /\ nfields' = nfields + 1
  /\ UNCHANGED <<instances, left, out>>

(* lazy is a sequence of fields.                                           *)
CloseInstance(lazy) ==
  /\ left > 0
  /\ instances' = instances \o Text(<<Number("map", nfields + Len(lazy))>>)
                            \o Text(FlattenSeq(lazy)) \o fields
  /\ fields' = <<>>
  /\ nfields' = 0
  /\ left' = left - 1
  /\ UNCHANGED out

CloseStore ==
  /\ left = 0
  /\ out' = out \o Text(<<Number("uint", Len(instances))>>) \o instances
  /\ instances' = <<>>
  /\ left' = Closed
  /\ UNCHANGED <<fields, nfields>>

Next ==
  \/ \E n \in 0..MaxInstances : Open(n)
  \/ \E value \in FieldValues : WriteField(value)
  \/ \E lazy \in LazyFields : CloseInstance(lazy)
  \/ CloseStore

Spec == Init /\ [][Next]_textVars
=============================================================================
