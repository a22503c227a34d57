------------------------------- MODULE Docrep -------------------------------
(***************************************************************************)
(* A docrep document that passes through a pipeline of tools. Each tool    *)
(* reads the document with a schema of its own, which may declare only     *)
(* part of what is on the stream, changes it in memory and writes it. What *)
(* a tool does not declare is kept lazily, as it was read, and written     *)
(* back: dr::Reader, dr::Writer and the merge of the runtime's and the     *)
(* schema's view of the document (merge_rt).                               *)
(*                                                                         *)
(* On the stream a klass, store or field is referred to by its position,   *)
(* from 0; the runtime's klass_id, store_id and field_id are the positions *)
(* in its vectors. Bytes are abstracted: an object on the stream is a      *)
(* sequence of <<field id, value>> pairs.                                  *)
(***************************************************************************)
EXTENDS Integers, Sequences, SequencesExt

CONSTANTS
  Pipelines,  \* the sequences of tools a document may pass through
  Values,     \* the values of a field that is not a pointer
  Unset,      \* an empty string, a null pointer: a value that is not written
  NoDef,      \* the nullptr def of what the schema does not declare
  NoStore,    \* "to" of a field that does not point into a store
  NoDoc,      \* no document (or no lazily kept __meta__ instance)
  MaxAnns,    \* bound on the annotations in a store
  MaxEdits    \* bound on the changes the tools make to a document

(* A schema declares the fields of the document, klasses (the annotation   *)
(* types) and stores. A declaration has a name, fixed by the program, and  *)
(* a serial, its name on the stream. A tool reads with one schema and      *)
(* writes with another that declares the same names.                       *)
Modes == {"READ_WRITE", "READ_ONLY", "DELETE"}

Names(defs) == {d.name : d \in ToSet(defs)}
Serials(defs) == {d.serial : d \in ToSet(defs)}
Tools == UNION {ToSet(p) : p \in Pipelines}

FieldDefs == [name : STRING, serial : STRING, mode : Modes, init : Values \cup {Unset},
              to : STRING \cup {NoStore}, kind : STRING]
KlassDefs == [name : STRING, serial : STRING, fields : Seq(FieldDefs)]
StoreDefs == [name : STRING, serial : STRING, klass : STRING]
Schemas   == [doc : Seq(FieldDefs), klasses : Seq(KlassDefs), stores : Seq(StoreDefs)]

AllFields(S) == {S.doc} \cup {k.fields : k \in ToSet(S.klasses)}

Unambiguous(defs) ==
  \A i, j \in DOMAIN defs :
    i # j => defs[i].name # defs[j].name /\ defs[i].serial # defs[j].serial

(* The names and the serials in a schema differ, those of its klasses from *)
(* those of the document; what points, points into a store of the schema   *)
(* and is null at first; a store holds objects of a klass of the schema.   *)
SchemaOK(S) ==
  /\ \A defs \in {S.stores, S.klasses} \cup AllFields(S) : Unambiguous(defs)
  /\ "Doc" \notin Names(S.klasses) /\ "__meta__" \notin Serials(S.klasses)
  /\ \A defs \in AllFields(S) : \A f \in ToSet(defs) :
       f.to # NoStore => f.to \in Names(S.stores) /\ f.init = Unset
  /\ \A s \in ToSet(S.stores) : s.klass \in Names(S.klasses)

(* Everything but the serials of a declaration is const, fixed by its type *)
(* in the program: what a tool reads with and what it writes with differ   *)
(* in the serials only.                                                    *)
Alike(d, e) == e = [d EXCEPT !.serial = e.serial]
SameButSerials(defs, others) ==
  Len(defs) = Len(others) /\ \A i \in DOMAIN defs : Alike(defs[i], others[i])

ASSUME SchemasAssumption ==
  /\ Pipelines \subseteq Seq([in : Schemas, out : Schemas])
  /\ \A t \in Tools :
       /\ SchemaOK(t.in) /\ SchemaOK(t.out)
       /\ SameButSerials(t.in.doc, t.out.doc)
       /\ SameButSerials(t.in.stores, t.out.stores)
       /\ Len(t.in.klasses) = Len(t.out.klasses)
       /\ \A k \in DOMAIN t.in.klasses :
            /\ t.in.klasses[k].name = t.out.klasses[k].name
            /\ SameButSerials(t.in.klasses[k].fields, t.out.klasses[k].fields)

ASSUME BoundsAssumption == MaxAnns \in Nat /\ MaxEdits \in Nat

(* A document on the stream: its klasses, its stores, its own values and,  *)
(* for each store, the annotations. An object is a sequence of pairs of a  *)
(* field id and a value.                                                   *)
Data  == Values \cup Nat \cup {Unset}
Items == Seq(Nat \X (Data \ {Unset}))

WireFields  == [serial : STRING, to : Nat, kind : STRING]
WireKlasses == [serial : STRING, fields : Seq(WireFields)]
WireStores  == [serial : STRING, klass : Nat, nelem : Nat]
Wires == [klasses : Seq(WireKlasses), stores : Seq(WireStores), doc : Items,
          groups : Seq(Seq(Items))]

(* The runtime of a document, RTManager.                                   *)
RTFields  == [serial : STRING, to : Nat, kind : STRING, def : FieldDefs \cup {NoDef}]
RTKlasses == [serial : STRING, def : KlassDefs \cup {NoDef}, fields : Seq(RTFields)]
RTStores  == [serial : STRING, klass : Nat, def : StoreDefs \cup {NoDef}, nelem : Nat,
              lazy : Seq(Items)]
RTs == [klasses : Seq(RTKlasses), stores : Seq(RTStores), doc : Nat,
        docLazy : Items \cup {NoDoc}]

(* The two names that the runtime itself gives are strings.                *)
ASSUME StringsAssumption == {"Doc", "__meta__"} \subseteq STRING

(* The values that stand for nothing are none of the others.               *)
ASSUME NothingAssumption ==
  /\ Unset \notin Values \cup Nat
  /\ NoDef \notin FieldDefs \cup KlassDefs \cup StoreDefs
  /\ NoStore \notin STRING
  /\ NoDoc \notin Items \cup Wires \cup RTs

VARIABLES
  pipeline,  \* the tools that have not run yet
  tool,      \* the tool that is running
  pc,        \* "start", "edit", "written" or "rejected"
  edits,     \* the changes the tools have made
  wire,      \* the document as it was last written
  rt,        \* the tool's RTManager
  mem        \* the tool's document: its fields and its stores

vars == <<pipeline, tool, pc, edits, wire, rt, mem>>

-----------------------------------------------------------------------------
(* The runtime. RTSchema, RTStoreDef and RTFieldDef keep the declaration   *)
(* (def) when the tool's schema has one; without it they are lazy. A       *)
(* field's "to" is 0 or one more than the id of the store it points into.  *)

is_lazy(x) == x.def = NoDef

MetaDef(S) == [name |-> "Doc", serial |-> "__meta__", fields |-> S.doc]

FindSerial(defs, serial) ==
  IF \E i \in DOMAIN defs : defs[i].serial = serial
  THEN CHOOSE d \in ToSet(defs) : d.serial = serial
  ELSE NoDef

Named(defs, name) == CHOOSE d \in ToSet(defs) : d.name = name

(* The position of the entry of the runtime that has the declaration of    *)
(* that name, if there is one.                                             *)
Known(entries, name) ==
  \E i \in DOMAIN entries : ~is_lazy(entries[i]) /\ entries[i].def.name = name
At(entries, name) ==
  CHOOSE i \in DOMAIN entries : ~is_lazy(entries[i]) /\ entries[i].def.name = name

(* The elements of s at the positions in T, in their order.                *)
Among(s, T) == FlattenSeq([i \in DOMAIN s |-> IF i \in T THEN <<s[i]>> ELSE <<>>])

(* A freshly constructed object of a declared type.                        *)
Fresh(defs) == [val |-> [n \in Names(defs) |-> Named(defs, n).init], lazy |-> <<>>]

-----------------------------------------------------------------------------
(* Reading. *)

ReadField(f, klassDef) ==
  [serial |-> f.serial, to |-> f.to, kind |-> f.kind,
   def |-> IF klassDef = NoDef THEN NoDef ELSE FindSerial(klassDef.fields, f.serial)]

ReadKlass(k, S) ==
  LET def == FindSerial(<<MetaDef(S)>> \o S.klasses, k.serial)
  IN  [serial |-> k.serial, def |-> def,
       fields |-> [i \in DOMAIN k.fields |-> ReadField(k.fields[i], def)]]

(* A store the schema declares is read into the document's own store, one  *)
(* it does not declare is kept as it is.                                   *)
ReadStore(w, i, S) ==
  LET def == FindSerial(S.stores, w.stores[i].serial)
  IN  [serial |-> w.stores[i].serial, klass |-> w.stores[i].klass, def |-> def,
       nelem |-> IF def = NoDef THEN w.stores[i].nelem ELSE 0,
       lazy |-> IF def = NoDef THEN w.groups[i] ELSE <<>>]

ReadRT(w, S) ==
  [klasses |-> [k \in DOMAIN w.klasses |-> ReadKlass(w.klasses[k], S)],
   stores  |-> [i \in DOMAIN w.stores |-> ReadStore(w, i, S)],
   doc     |-> CHOOSE k \in DOMAIN w.klasses : w.klasses[k].serial = "__meta__",
   docLazy |-> IF S.doc = <<>> THEN w.doc ELSE NoDoc]

(* The checks of the read: each failure is a ReaderException, or an assert *)
(* for a pointer into a store that the schema does not declare.            *)
BadField(r, f) ==
  \/ ~is_lazy(f) /\ ((f.to # 0) # (f.def.to # NoStore) \/ f.kind # f.def.kind)
  \/ f.to > Len(r.stores)
  \/ ~is_lazy(f) /\ f.to # 0
       /\ (is_lazy(r.stores[f.to]) \/ r.stores[f.to].def.name # f.def.to)

BadStore(r, s) ==
  \/ s.klass >= Len(r.klasses)
  \/ ~is_lazy(s) /\ (is_lazy(r.klasses[s.klass + 1])
                      \/ r.klasses[s.klass + 1].def.name # s.def.klass)

Rejects(w, S) ==
  LET r == ReadRT(w, S)
  IN  \/ \A k \in DOMAIN w.klasses : w.klasses[k].serial # "__meta__"
      \/ \E k \in ToSet(r.klasses) : \E f \in ToSet(k.fields) : BadField(r, f)
      \/ \E s \in ToSet(r.stores) : BadStore(r, s)

KeptLazily_NotReadOnly(f) == is_lazy(f)

(* A lazy copy is kept of what is not declared and of what is READ_ONLY.   *)
KeptLazily(f) == is_lazy(f) \/ f.def.mode = "READ_ONLY"

ReadObject(items, fields, defs) ==
  LET InItems(n) == \E i \in DOMAIN items :
        ~is_lazy(fields[items[i][1] + 1]) /\ fields[items[i][1] + 1].def.name = n
      Item(n) == CHOOSE i \in DOMAIN items :
        ~is_lazy(fields[items[i][1] + 1]) /\ fields[items[i][1] + 1].def.name = n
      kept == {i \in DOMAIN items : KeptLazily(fields[items[i][1] + 1])}
  IN  [val |-> [n \in Names(defs) |-> IF InItems(n) THEN items[Item(n)][2]
                                      ELSE Named(defs, n).init],
       lazy |-> Among(items, kept)]

ReadObjects(w, r, name) ==
  IF Known(r.stores, name)
  THEN LET i == At(r.stores, name)
           k == r.klasses[r.stores[i].klass + 1]
       IN  [a \in DOMAIN w.groups[i] |-> ReadObject(w.groups[i][a], k.fields, k.def.fields)]
  ELSE <<>>

ReadMem(w, S) ==
  LET r == ReadRT(w, S)
  IN  [doc    |-> IF S.doc = <<>> THEN Fresh(<<>>)
                  ELSE ReadObject(w.doc, r.klasses[r.doc].fields, S.doc),
       stores |-> [n \in Names(S.stores) |-> ReadObjects(w, r, n)]]

-----------------------------------------------------------------------------
(* The merge: what the schema declares and the runtime does not know is    *)
(* appended; what it knows takes the declaration of this schema.           *)

EmptyRT(S) ==
  [klasses |-> <<[serial |-> "__meta__", def |-> MetaDef(S), fields |-> <<>>]>>,
   stores |-> <<>>, doc |-> 1, docLazy |-> NoDoc]

Redefined(x, defs) ==
  IF ~is_lazy(x) /\ x.def.name \in Names(defs)
  THEN [x EXCEPT !.def = Named(defs, x.def.name)] ELSE x

NewDefs_All(entries, defs) == defs

NewDefs(entries, defs) ==
  Among(defs, {i \in DOMAIN defs : ~Known(entries, defs[i].name)})

NewField(d, stores) ==
  [serial |-> d.serial, def |-> d, kind |-> d.kind,
   to |-> IF d.to = NoStore THEN 0 ELSE At(stores, d.to)]

merge_rtschema_fields(fields, defs, stores) ==
  LET new == NewDefs(fields, defs)
  IN  [i \in DOMAIN fields |-> Redefined(fields[i], defs)]
        \o [i \in DOMAIN new |-> NewField(new[i], stores)]

NewStore(d) == [serial |-> d.serial, def |-> d, klass |-> -1, nelem |-> 0, lazy |-> <<>>]

MergeStores(r, S) ==
  LET new == NewDefs(r.stores, S.stores)
  IN  [i \in DOMAIN r.stores |-> Redefined(r.stores[i], S.stores)]
        \o [i \in DOMAIN new |-> NewStore(new[i])]

MergeKlass(k, isDoc, S, stores) ==
  IF isDoc
  THEN [k EXCEPT !.fields = merge_rtschema_fields(k.fields, S.doc, stores)]
  ELSE IF ~is_lazy(k) /\ k.def.name \in Names(S.klasses)
  THEN [Redefined(k, S.klasses) EXCEPT !.fields =
          merge_rtschema_fields(k.fields, Named(S.klasses, k.def.name).fields, stores)]
  ELSE k

NewKlass(d, stores) ==
  [serial |-> d.serial, def |-> d,
   fields |-> merge_rtschema_fields(<<>>, d.fields, stores)]

MergeKlasses(r, S, stores) ==
  LET new == NewDefs(r.klasses, S.klasses)
  IN  [i \in DOMAIN r.klasses |-> MergeKlass(r.klasses[i], i = r.doc, S, stores)]
        \o [i \in DOMAIN new |-> NewKlass(new[i], stores)]

BackFilled_KeepsUnset(s, klasses) == s

(* A new store gets the klass of its declaration once the klasses exist.   *)
BackFilled(s, klasses) ==
  IF s.klass = -1 THEN [s EXCEPT !.klass = At(klasses, s.def.klass) - 1] ELSE s

merge_rt(r, S) ==
  LET stores  == MergeStores(r, S)
      klasses == MergeKlasses(r, S, stores)
  IN  [r EXCEPT !.klasses = klasses,
                !.stores = [i \in DOMAIN stores |-> BackFilled(stores[i], klasses)]]

-----------------------------------------------------------------------------
(* Writing. *)

Serial(x) == IF is_lazy(x) THEN x.serial ELSE x.def.serial

(* The fields that are written from memory.                                *)
Written(f) == ~is_lazy(f) /\ f.def.mode = "READ_WRITE"

(* The positions of the fields that are written of an object.              *)
Sent(object, fields) ==
  Among([i \in DOMAIN fields |-> i],
        {i \in DOMAIN fields : Written(fields[i]) /\ object.val[fields[i].def.name] # Unset})

WriteObject_Renumbers(object, fields) ==
  LET ids == Sent(object, fields)
  IN  object.lazy \o
        [j \in DOMAIN ids |-> <<j - 1, object.val[fields[ids[j]].def.name]>>]

(* The lazy fields first, as they were read, then what memory holds.       *)
WriteObject(object, fields) ==
  LET ids == Sent(object, fields)
  IN  object.lazy \o
        [j \in DOMAIN ids |-> <<ids[j] - 1, object.val[fields[ids[j]].def.name]>>]

DocInstance_FromMemory(r, m) == WriteObject(m.doc, r.klasses[r.doc].fields)

(* The __meta__ instance is written from memory unless it was kept whole.  *)
DocInstance(r, m) ==
  IF r.docLazy # NoDoc THEN r.docLazy ELSE WriteObject(m.doc, r.klasses[r.doc].fields)

WriteFields(fields) ==
  [i \in DOMAIN fields |->
     [serial |-> Serial(fields[i]), to |-> fields[i].to, kind |-> fields[i].kind]]

WriteObjects(s, r, m) ==
  IF is_lazy(s) THEN s.lazy
  ELSE [a \in DOMAIN m.stores[s.def.name] |->
          WriteObject(m.stores[s.def.name][a], r.klasses[s.klass + 1].fields)]

NElem(s, m) == IF is_lazy(s) THEN s.nelem ELSE Len(m.stores[s.def.name])

WriteDoc(r, m) ==
  [klasses |-> [k \in DOMAIN r.klasses |->
                  [serial |-> IF k = r.doc THEN "__meta__" ELSE Serial(r.klasses[k]),
                   fields |-> WriteFields(r.klasses[k].fields)]],
   stores  |-> [i \in DOMAIN r.stores |->
                  [serial |-> Serial(r.stores[i]), klass |-> r.stores[i].klass,
                   nelem |-> NElem(r.stores[i], m)]],
   doc     |-> DocInstance(r, m),
   groups  |-> [i \in DOMAIN r.stores |-> WriteObjects(r.stores[i], r, m)]]

-----------------------------------------------------------------------------
Init ==
  /\ pipeline \in Pipelines
  /\ tool = NoDef
  /\ pc = "start"
  /\ edits = 0
  /\ wire = NoDoc /\ rt = NoDoc /\ mem = NoDoc

(* The next tool of the pipeline starts; the first one has nothing to read *)
(* and works on a new document, which has no runtime until it is written.  *)
Create ==
  /\ pc = "start" /\ wire = NoDoc /\ pipeline # <<>>
  /\ tool' = Head(pipeline)
  /\ pipeline' = Tail(pipeline)
  /\ rt' = NoDoc
  /\ mem' = [doc |-> Fresh(Head(pipeline).in.doc),
             stores |-> [n \in Names(Head(pipeline).in.stores) |-> <<>>]]
  /\ pc' = "edit"
  /\ UNCHANGED <<edits, wire>>

Read ==
  /\ pc \in {"start", "written"} /\ wire # NoDoc /\ pipeline # <<>>
  /\ ~Rejects(wire, Head(pipeline).in)
  /\ tool' = Head(pipeline)
  /\ pipeline' = Tail(pipeline)
  /\ rt' = ReadRT(wire, Head(pipeline).in)
  /\ mem' = ReadMem(wire, Head(pipeline).in)
  /\ pc' = "edit"
  /\ UNCHANGED <<edits, wire>>

(* The exception ends the tool, and the pipeline with it.                  *)
ReadFails ==
  /\ pc \in {"start", "written"} /\ wire # NoDoc /\ pipeline # <<>>
  /\ Rejects(wire, Head(pipeline).in)
  /\ pc' = "rejected"
  /\ tool' = Head(pipeline)
  /\ pipeline' = Tail(pipeline)
  /\ UNCHANGED <<edits, wire, rt, mem>>

(* The values a program may give a field of the tool's document: a number  *)
(* that starts with a value always has one; a string that a constructor    *)
(* fills is not emptied here, as an empty one is not written (wire.h:64).  *)
Assignable(def) ==
  IF def.to # NoStore THEN {Unset} \cup {i - 1 : i \in DOMAIN mem.stores[def.to]}
  ELSE Values \cup {def.init}

Edit ==
  /\ pc = "edit" /\ edits < MaxEdits
  /\ edits' = edits + 1
  /\ UNCHANGED <<pipeline, tool, pc, wire, rt>>

KlassFields(s) == Named(tool.in.klasses, Named(tool.in.stores, s).klass).fields

SetDocField(d) ==
  /\ Edit
  /\ \E v \in Assignable(d) : mem' = [mem EXCEPT !.doc.val[d.name] = v]

(* A program may also change a field it declared READ_ONLY or DELETE.      *)
SetField(s, a, d) ==
  /\ Edit
  /\ \E v \in Assignable(d) : mem' = [mem EXCEPT !.stores[s][a].val[d.name] = v]

CreateAnn(s) ==
  /\ Edit
  /\ Len(mem.stores[s]) < MaxAnns
  /\ mem' = [mem EXCEPT !.stores[s] = Append(@, Fresh(KlassFields(s)))]

(* The document's own runtime is merged in place; one built for a document *)
(* that has none is deleted after the write.                               *)
Write ==
  /\ pc = "edit"
  /\ LET r == merge_rt(IF rt = NoDoc THEN EmptyRT(tool.out) ELSE rt, tool.out)
     IN  /\ wire' = WriteDoc(r, mem)
         /\ rt' = IF rt = NoDoc THEN NoDoc ELSE r
  /\ pc' = "written"
  /\ UNCHANGED <<pipeline, tool, edits, mem>>

EditNext ==
  /\ pc = "edit"
  /\ \/ \E d \in ToSet(tool.in.doc) : SetDocField(d)
     \/ \E s \in Names(tool.in.stores) :
          \/ CreateAnn(s)
          \/ \E a \in DOMAIN mem.stores[s], d \in ToSet(KlassFields(s)) : SetField(s, a, d)

Next == Create \/ Read \/ ReadFails \/ EditNext \/ Write

Spec == Init /\ [][Next]_vars
-----------------------------------------------------------------------------
(* The document on the stream by names instead of ids.                     *)
View(w) ==
  LET KlassOf(i) == w.klasses[w.stores[i].klass + 1]
      FieldInfo(f) == [kind |-> f.kind, to |-> IF f.to = 0 THEN NoStore
                                               ELSE w.stores[f.to].serial]
      Fields(k) == [n \in {f.serial : f \in ToSet(k.fields)} |->
                      FieldInfo(FindSerial(k.fields, n))]
      Object(items, k) ==
        [n \in {k.fields[item[1] + 1].serial : item \in ToSet(items)} |->
           (CHOOSE item \in ToSet(items) : k.fields[item[1] + 1].serial = n)[2]]
      Store(n) == CHOOSE i \in DOMAIN w.stores : w.stores[i].serial = n
  IN  [klasses |-> [n \in {k.serial : k \in ToSet(w.klasses)} |->
                      Fields(FindSerial(w.klasses, n))],
       stores  |-> [n \in {s.serial : s \in ToSet(w.stores)} |->
                      [klass |-> KlassOf(Store(n)).serial,
                       anns  |-> [a \in DOMAIN w.groups[Store(n)] |->
                                    Object(w.groups[Store(n)][a], KlassOf(Store(n)))]]],
       meta    |-> Object(w.doc, FindSerial(w.klasses, "__meta__"))]

(* What is written can be read: ids refer to what exists, no two klasses,  *)
(* stores, fields of a klass or values of an object have one name, a       *)
(* store holds as many annotations as it announces, and a pointer is the   *)
(* index of an annotation.                                                 *)
WireWellFormed ==
  LET Distinct(defs) == \A i, j \in DOMAIN defs : i # j => defs[i].serial # defs[j].serial
      Object(items, k) ==
        /\ \A i, j \in DOMAIN items : i # j => items[i][1] # items[j][1]
        /\ \A item \in ToSet(items) :
             /\ item[1] < Len(k.fields)
             /\ LET to == k.fields[item[1] + 1].to
                IN  to # 0 => item[2] < wire.stores[to].nelem
  IN  wire # NoDoc =>
        /\ Distinct(wire.klasses) /\ Distinct(wire.stores)
        /\ \A k \in ToSet(wire.klasses) :
             /\ Distinct(k.fields)
             /\ \A f \in ToSet(k.fields) : f.to <= Len(wire.stores)
        /\ Object(wire.doc, FindSerial(wire.klasses, "__meta__"))
        /\ \A i \in DOMAIN wire.stores :
             /\ wire.stores[i].klass \in 0..(Len(wire.klasses) - 1)
             /\ wire.stores[i].nelem = Len(wire.groups[i])
             /\ \A items \in ToSet(wire.groups[i]) :
                  Object(items, wire.klasses[wire.stores[i].klass + 1])

(* The names on the stream that a tool writes with and does not read with. *)
AddedKlasses(t) == Serials(t.out.klasses) \ Serials(t.in.klasses)
AddedStores(t) == Serials(t.out.stores) \ Serials(t.in.stores)
AddedFields(t) ==
  (Serials(t.out.doc) \ Serials(t.in.doc)) \cup
  UNION {Serials(Named(t.out.klasses, n).fields) \ Serials(Named(t.in.klasses, n).fields) :
           n \in Names(t.in.klasses)}

(* A tool adds no name that a tool before it has written with: it does not *)
(* know of what it keeps lazily, and nothing in the code tells it.         *)
AddsNoNameOf(t, s) ==
  /\ AddedKlasses(t) \cap Serials(s.out.klasses) = {}
  /\ AddedStores(t) \cap Serials(s.out.stores) = {}
  /\ AddedFields(t) \cap UNION {Serials(defs) : defs \in AllFields(s.out)} = {}
FreshNames == \A p \in Pipelines : \A i, j \in DOMAIN p : i < j => AddsNoNameOf(p[j], p[i])

(* Writing a document leaves it such that writing it again gives the same: *)
(* the merge into the document's own runtime declares nothing twice.       *)
WritingAgainIsTheSame ==
  pc = "written" =>
    WriteDoc(merge_rt(IF rt = NoDoc THEN EmptyRT(tool.out) ELSE rt, tool.out), mem) = wire

(* A tool that reads what another one with its schema has written finds    *)
(* every READ_WRITE field as it was in the memory of the writer.           *)
ReadsBackWhatWasWritten ==
  pc = "written" =>
    /\ ~Rejects(wire, tool.out)
    /\ LET back == ReadMem(wire, tool.out)
           Same(o, p, defs) ==
             \A d \in ToSet(defs) : d.mode = "READ_WRITE" => o.val[d.name] = p.val[d.name]
       IN  /\ Same(back.doc, mem.doc, tool.out.doc)
           /\ \A s \in ToSet(tool.out.stores) :
                /\ Len(back.stores[s.name]) = Len(mem.stores[s.name])
                /\ \A a \in DOMAIN mem.stores[s.name] :
                     Same(back.stores[s.name][a], mem.stores[s.name][a],
                          Named(tool.out.klasses, s.klass).fields)

(* "Reads ... into a document where all data is kept lazily then ensures   *)
(* that writing the document replicates" the stream: a tool that declares  *)
(* nothing copies the document, id for id.                                 *)
DeclaresNothing(t) == t.in.doc = <<>> /\ t.in.stores = <<>> /\ t.in.klasses = <<>>
LazyCopyIsIdentical ==
  [][Write /\ rt # NoDoc /\ DeclaresNothing(tool) => wire' = wire]_vars

(* A pipeline is a sequence of such changes of the annotated document:     *)
(* what a tool does not declare, or declares READ_ONLY, survives it.       *)
Annotated == INSTANCE AnnotatedDoc
               WITH doc  <- IF wire = NoDoc THEN NoDoc ELSE View(wire),
                    left <- IF pc \in {"edit", "rejected"} THEN <<tool>> \o pipeline
                            ELSE pipeline
ImplementsAnnotated == Annotated!Spec
=============================================================================
