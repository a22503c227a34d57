----------------------------- MODULE AnnotatedDoc -----------------------------
(***************************************************************************)
(* What a docrep pipeline promises about the document that goes through    *)
(* it, with no ids, schemas held at run time or lazy buffers: a tool       *)
(* changes what it declares and nothing else. A document is a function     *)
(* from klass names to their fields, one from store names to a klass and   *)
(* the annotations in order, and the fields of the document itself; an     *)
(* object is a function from the names of the fields it has to values.     *)
(* Docrep implements this module.                                          *)
(***************************************************************************)
EXTENDS Integers, Sequences

CONSTANTS Pipelines, NoDoc

VARIABLES
  doc,      \* the document
  left      \* the tools that it has still to pass through

(* The name a tool that reads n with defsIn writes with defsOut; what it   *)
(* does not declare keeps its name.                                        *)
Declared(defs, n) == \E i \in DOMAIN defs : defs[i].serial = n
DefOf(defs, n) == defs[CHOOSE i \in DOMAIN defs : defs[i].serial = n]
Renamed(defsIn, defsOut, n) ==
  IF Declared(defsIn, n)
  THEN defsOut[CHOOSE i \in DOMAIN defsOut :
                 defsOut[i].name = DefOf(defsIn, n).name].serial
  ELSE n

(* A tool's declarations of the fields of the klass named k.               *)
FieldsOf(S, k) ==
  IF k = "__meta__" THEN S.doc
  ELSE IF Declared(S.klasses, k) THEN DefOf(S.klasses, k).fields
  ELSE <<>>

KlassAfter(t, k) == Renamed(t.in.klasses, t.out.klasses, k)
StoreAfter(t, s) == Renamed(t.in.stores, t.out.stores, s)
FieldAfter(t, k, f) ==
  Renamed(FieldsOf(t.in, k), FieldsOf(t.out, KlassAfter(t, k)), f)

(* The tool may not change the field in an object it reads.                *)
ReadOnly(t, k, f) ==
  \/ ~Declared(FieldsOf(t.in, k), f)
  \/ DefOf(FieldsOf(t.out, KlassAfter(t, k)), FieldAfter(t, k, f)).mode = "READ_ONLY"
Deleted(t, k, f) ==
  /\ Declared(FieldsOf(t.in, k), f)
  /\ DefOf(FieldsOf(t.out, KlassAfter(t, k)), FieldAfter(t, k, f)).mode = "DELETE"

(* An object of klass k before and after the tool: what the tool may not   *)
(* change is there with its value or is still missing, what it deletes is  *)
(* gone.                                                                   *)
Respects(t, k, before, after) ==
  \A f \in DOMAIN doc.klasses[k] :
    LET g == FieldAfter(t, k, f)
    IN  /\ ReadOnly(t, k, f) =>
             /\ f \in DOMAIN before <=> g \in DOMAIN after
             /\ f \in DOMAIN before => after[g] = before[f]
        /\ Deleted(t, k, f) => g \notin DOMAIN after

(* Every klass, field and store is still declared, pointers still go into  *)
(* the same store.                                                         *)
KeepsDeclarations(t, after) ==
  /\ \A k \in DOMAIN doc.klasses :
       /\ KlassAfter(t, k) \in DOMAIN after.klasses
       /\ \A f \in DOMAIN doc.klasses[k] :
            /\ FieldAfter(t, k, f) \in DOMAIN after.klasses[KlassAfter(t, k)]
            /\ LET old == doc.klasses[k][f]
                   new == after.klasses[KlassAfter(t, k)][FieldAfter(t, k, f)]
               IN  new = [old EXCEPT !.to = StoreAfter(t, old.to)]
  /\ \A s \in DOMAIN doc.stores :
       /\ StoreAfter(t, s) \in DOMAIN after.stores
       /\ after.stores[StoreAfter(t, s)].klass = KlassAfter(t, doc.stores[s].klass)

(* In a store the tool does not declare, the annotations are those that    *)
(* were there; in one it does declare, they come first and in their order. *)
KeepsAnnotations(t, after) ==
  \A s \in DOMAIN doc.stores :
    LET old == doc.stores[s].anns
        new == after.stores[StoreAfter(t, s)].anns
        k   == doc.stores[s].klass
    IN  /\ Len(old) <= Len(new)
        /\ IF Declared(t.in.stores, s)
           THEN \A a \in DOMAIN old : Respects(t, k, old[a], new[a])
           ELSE /\ Len(old) = Len(new)
                /\ \A a \in DOMAIN old :
                     /\ DOMAIN new[a] = {FieldAfter(t, k, f) : f \in DOMAIN old[a]}
                     /\ \A f \in DOMAIN old[a] : new[a][FieldAfter(t, k, f)] = old[a][f]

Init == doc = NoDoc /\ left \in Pipelines

Create == doc = NoDoc /\ doc' # NoDoc

Apply(t) ==
  /\ doc # NoDoc
  /\ KeepsDeclarations(t, doc')
  /\ KeepsAnnotations(t, doc')
  /\ Respects(t, "__meta__", doc.meta, doc'.meta)

Next ==
  /\ left # <<>>
  /\ left' = Tail(left)
  /\ Create \/ Apply(Head(left))

Spec == Init /\ [][Next]_<<doc, left>>
=============================================================================
