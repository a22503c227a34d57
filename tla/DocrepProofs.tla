---------------------------- MODULE DocrepProofs ----------------------------
(***************************************************************************)
(* Theorems about Docrep, for any pipelines of any tools, any schemas,     *)
(* values and bounds: writing a document again gives the same, a tool that *)
(* declares nothing copies the document, and, where no tool adds a name    *)
(* that one before it writes with, what is on the stream is well formed    *)
(* after every tool and a tool with the writer's schema reads what was in  *)
(* the writer's memory.                                                    *)
(***************************************************************************)
EXTENDS Docrep, DataInduction

-----------------------------------------------------------------------------
(* Sequences. *)

LEMMA ToSetIs ==
  ASSUME NEW S, NEW s \in Seq(S)
  PROVE  /\ \A i \in 1..Len(s) : s[i] \in ToSet(s) /\ s[i] \in S
         /\ \A x \in ToSet(s) : x \in S /\ \E i \in 1..Len(s) : s[i] = x
<1>1. DOMAIN s = 1..Len(s) /\ \A i \in 1..Len(s) : s[i] \in S
  BY LenProperties, ElementOfSeq
<1> QED BY <1>1 DEF ToSet

(* f[k] is the position in s of the k-th of those that t has of s.         *)
Picks(f, t, s, n, T) ==
  /\ f \in [1..Len(t) -> {i \in 1..n : i \in T}]
  /\ \A k \in 1..Len(t) : t[k] = s[f[k]]
  /\ \A j, k \in 1..Len(t) : j # k => f[j] # f[k]
  /\ \A i \in 1..n : i \in T => \E k \in 1..Len(t) : f[k] = i

(* The first n of s, with one more.                                        *)
LEMMA PicksOneMore ==
  ASSUME NEW S, NEW s \in Seq(S), NEW T, NEW n \in Nat, n + 1 \in 1..Len(s),
         NEW t \in Seq(S), NEW f, Picks(f, t, s, n, T),
         NEW u, u = t \o (IF n + 1 \in T THEN <<s[n + 1]>> ELSE <<>>)
  PROVE  \E g : Picks(g, u, s, n + 1, T)
<1>1. Len(t) \in Nat /\ s[n + 1] \in S
  BY LenProperties, ElementOfSeq
<1>2. CASE n + 1 \notin T
  <2>1. u = t
    BY <1>2, ConcatEmptySeq
  <2>2. {i \in 1..(n + 1) : i \in T} = {i \in 1..n : i \in T}
    BY <1>2
  <2>3. Picks(f, u, s, n + 1, T)
    <3>1. \A i \in 1..(n + 1) : i \in T => \E k \in 1..Len(t) : f[k] = i
      <4> SUFFICES ASSUME NEW i \in 1..(n + 1), i \in T PROVE \E k \in 1..Len(t) : f[k] = i
        OBVIOUS
      <4>1. i \in 1..n
        BY <2>2
      <4> QED BY <4>1 DEF Picks
    <3> QED BY <2>1, <2>2, <3>1 DEF Picks
  <2> QED BY <2>3
<1>3. CASE n + 1 \in T
  <2>1. PICK m \in Nat : m = Len(t)
    BY <1>1
  <2>2. <<s[n + 1]>> \in Seq(S) /\ Len(<<s[n + 1]>>) = 1 /\ <<s[n + 1]>>[1] = s[n + 1]
    BY <1>1
  <2>3. Len(u) = m + 1 /\ (\A k \in 1..m : u[k] = t[k]) /\ u[m + 1] = s[n + 1]
    <3>1. u = t \o <<s[n + 1]>>
      BY <1>3
    <3>2. Len(u) = m + 1
      BY <2>1, <2>2, <3>1, ConcatProperties
    <3>3. \A i \in 1..(m + 1) : u[i] = IF i <= m THEN t[i] ELSE <<s[n + 1]>>[i - m]
      BY <2>1, <2>2, <3>1, ConcatProperties
    <3> QED BY <1>1, <2>1, <2>2, <3>2, <3>3
  <2> DEFINE g == [k \in 1..(m + 1) |-> IF k <= m THEN f[k] ELSE n + 1]
  <2>4. f \in [1..m -> {i \in 1..n : i \in T}]
    BY <2>1 DEF Picks
  <2>5. \A k \in 1..m : f[k] \in 1..n /\ f[k] \in T
    BY <2>4
  <2>6. (\A k \in 1..m : k \in 1..(m + 1) /\ g[k] = f[k]) /\ g[m + 1] = n + 1
    BY <2>1
  <2>7. g \in [1..(m + 1) -> {i \in 1..(n + 1) : i \in T}]
    <3>1. \A k \in 1..(m + 1) : (IF k <= m THEN f[k] ELSE n + 1) \in {i \in 1..(n + 1) : i \in T}
      <4> TAKE k \in 1..(m + 1)
      <4>1. CASE k <= m
        <5>1. k \in 1..m
          BY <2>1, <4>1
        <5>2. f[k] \in 1..n /\ f[k] \in T
          BY <2>5, <5>1
        <5> QED BY <4>1, <5>2
      <4>2. CASE ~(k <= m)
        BY <1>3, <4>2
      <4> QED BY <4>1, <4>2
    <3> QED BY <3>1
  <2> HIDE DEF g
  <2>8. \A k \in 1..(m + 1) : u[k] = s[g[k]]
    BY <2>1, <2>3, <2>6 DEF Picks
  <2>9. \A j, k \in 1..(m + 1) : j # k => g[j] # g[k]
    <3>1. \A j, k \in 1..m : j # k => f[j] # f[k]
      BY <2>1 DEF Picks
    <3>2. ASSUME NEW j \in 1..(m + 1), NEW k \in 1..(m + 1), j < k PROVE g[j] # g[k]
      <4>1. j \in 1..m /\ (k \in 1..m \/ k = m + 1)
        BY <2>1, <3>2
      <4>2. CASE k \in 1..m
        BY <2>6, <3>1, <3>2, <4>1, <4>2
      <4>3. CASE k = m + 1
        <5>1. g[j] \in 1..n /\ g[k] = n + 1
          BY <2>5, <2>6, <4>1, <4>3
        <5> QED BY <5>1
      <4> QED BY <4>1, <4>2, <4>3
    <3> QED BY <2>1, <3>2
  <2>10. \A i \in 1..(n + 1) : i \in T => \E k \in 1..(m + 1) : g[k] = i
    <3> SUFFICES ASSUME NEW i \in 1..(n + 1), i \in T PROVE \E k \in 1..(m + 1) : g[k] = i
      OBVIOUS
    <3>1. CASE i = n + 1
      BY <2>1, <2>6, <3>1
    <3>2. CASE i # n + 1
      <4>1. PICK k \in 1..m : f[k] = i
        <5>1. i \in 1..n
          BY <3>2
        <5> QED BY <2>1, <5>1 DEF Picks
      <4> QED BY <2>1, <2>6, <4>1
    <3> QED BY <3>1, <3>2
  <2>11. Picks(g, u, s, n + 1, T)
    BY <2>1, <2>3, <2>7, <2>8, <2>9, <2>10 DEF Picks
  <2> QED BY <2>11
<1> QED BY <1>2, <1>3

(* What Among makes of a sequence.                                         *)
LEMMA AmongIs ==
  ASSUME NEW S, NEW s \in Seq(S), NEW T
  PROVE  Among(s, T) \in Seq(S) /\ \E f : Picks(f, Among(s, T), s, Len(s), T)
<1> DEFINE parts == [i \in 1..Len(s) |-> IF i \in T THEN <<s[i]>> ELSE <<>>]
           F(k) == FlattenSeq(SubSeq(parts, 1, k))
           G == {k \in Nat : k <= Len(s) => \E f : Picks(f, F(k), s, k, T)}
<1>1. Len(s) \in Nat /\ DOMAIN s = 1..Len(s) /\ \A i \in 1..Len(s) : s[i] \in S
  BY LenProperties, ElementOfSeq
<1>2. parts \in Seq(Seq(S)) /\ Len(parts) = Len(s)
  <2>1. \A i \in 1..Len(s) : (IF i \in T THEN <<s[i]>> ELSE <<>>) \in Seq(S)
    BY <1>1
  <2> QED BY <1>1, <2>1
<1>3. \A k \in 1..Len(s) : parts[k] = IF k \in T THEN <<s[k]>> ELSE <<>>
  OBVIOUS
<1>4. Among(s, T) = FlattenSeq(parts)
  BY <1>1 DEF Among
<1> HIDE DEF parts
<1>5. 0 \in G
  <2>1. F(0) = <<>>
    BY FlattenNone
  <2>2. Picks([k \in 1..0 |-> k], <<>>, s, 0, T)
    BY DEF Picks
  <2> QED BY <2>1, <2>2
<1>6. ASSUME NEW n \in Nat, n \in G PROVE n + 1 \in G
  <2> SUFFICES ASSUME n + 1 <= Len(s) PROVE \E f : Picks(f, F(n + 1), s, n + 1, T)
    OBVIOUS
  <2>1. n \in 0..(Len(parts) - 1) /\ n \in 0..Len(parts) /\ n <= Len(s) /\ n + 1 \in 1..Len(s)
    BY <1>1, <1>2
  <2>2. PICK f : Picks(f, F(n), s, n, T)
    BY <1>6, <2>1
  <2>3. F(n) \in Seq(S)
    BY <1>2, <2>1, FlattenType
  <2>4. F(n + 1) = F(n) \o parts[n + 1]
    BY <1>2, <2>1, FlattenOneMore
  <2>5. F(n + 1) = F(n) \o (IF n + 1 \in T THEN <<s[n + 1]>> ELSE <<>>)
    BY <1>3, <2>1, <2>4
  <2> HIDE DEF F
  <2> QED BY <2>1, <2>2, <2>3, <2>5, PicksOneMore
<1> HIDE DEF G
<1>7. Len(s) \in G
  BY <1>1, <1>5, <1>6, InductionOnNat
<1>8. F(Len(s)) = FlattenSeq(parts)
  BY <1>2, SubSeqFull
<1>9. FlattenSeq(parts) \in Seq(S)
  BY <1>2, FlattenAll
<1> QED BY <1>1, <1>4, <1>7, <1>8, <1>9 DEF G

LEMMA AmongNone ==
  ASSUME NEW S, NEW s \in Seq(S), NEW T, \A i \in 1..Len(s) : i \notin T
  PROVE  Among(s, T) = <<>>
<1>1. PICK f : Picks(f, Among(s, T), s, Len(s), T)
  BY AmongIs
<1>2. Among(s, T) \in Seq(S) /\ Len(Among(s, T)) \in Nat
  BY AmongIs, LenProperties
<1>3. Len(Among(s, T)) = 0
  <2> SUFFICES ASSUME Len(Among(s, T)) # 0 PROVE FALSE
    OBVIOUS
  <2>1. 1 \in 1..Len(Among(s, T))
    BY <1>2
  <2>2. f[1] \in {i \in 1..Len(s) : i \in T}
    BY <1>1, <2>1 DEF Picks
  <2> QED BY <2>2
<1> QED BY <1>2, <1>3, EmptySeq

-----------------------------------------------------------------------------
(* Declarations. *)

LEMMA NamedOf ==
  ASSUME NEW D, NEW defs \in Seq(D), NEW n \in Names(defs)
  PROVE  Named(defs, n) \in ToSet(defs) /\ Named(defs, n) \in D /\ Named(defs, n).name = n
<1>1. \E d \in ToSet(defs) : d.name = n
  BY DEF Names
<1>2. Named(defs, n) \in ToSet(defs) /\ Named(defs, n).name = n
  BY <1>1 DEF Named
<1> QED BY <1>2, ToSetIs

LEMMA OneOfAName ==
  ASSUME NEW D, NEW defs \in Seq(D), Unambiguous(defs),
         NEW d \in ToSet(defs), NEW e \in ToSet(defs), d.name = e.name \/ d.serial = e.serial
  PROVE  d = e
<1>1. DOMAIN defs = 1..Len(defs)
  BY LenProperties
<1>2. PICK i \in 1..Len(defs) : defs[i] = d
  BY ToSetIs
<1>3. PICK j \in 1..Len(defs) : defs[j] = e
  BY ToSetIs
<1> QED BY <1>1, <1>2, <1>3 DEF Unambiguous

LEMMA NamedIs ==
  ASSUME NEW D, NEW defs \in Seq(D), Unambiguous(defs), NEW d \in ToSet(defs)
  PROVE  d.name \in Names(defs) /\ Named(defs, d.name) = d
<1>1. d.name \in Names(defs)
  BY DEF Names
<1>2. Named(defs, d.name) \in ToSet(defs) /\ Named(defs, d.name).name = d.name
  BY <1>1, NamedOf
<1> QED BY <1>1, <1>2, OneOfAName

LEMMA FoundIs ==
  ASSUME NEW D, NEW defs \in Seq(D), NEW serial, NoDef \notin D
  PROVE  LET d == FindSerial(defs, serial)
         IN  /\ d \in D \cup {NoDef}
             /\ d # NoDef => d \in ToSet(defs) /\ d.serial = serial
             /\ d = NoDef => serial \notin Serials(defs)
<1>1. CASE \E i \in DOMAIN defs : defs[i].serial = serial
  <2>1. \E d \in ToSet(defs) : d.serial = serial
    BY <1>1 DEF ToSet
  <2>2. FindSerial(defs, serial) = CHOOSE d \in ToSet(defs) : d.serial = serial
    BY <1>1 DEF FindSerial
  <2>3. FindSerial(defs, serial) \in ToSet(defs) /\ FindSerial(defs, serial).serial = serial
    BY <2>1, <2>2
  <2>4. FindSerial(defs, serial) \in D
    BY <2>3, ToSetIs
  <2> QED BY <2>3, <2>4
<1>2. CASE ~ \E i \in DOMAIN defs : defs[i].serial = serial
  <2>1. FindSerial(defs, serial) = NoDef
    BY <1>2 DEF FindSerial
  <2>2. serial \notin Serials(defs)
    BY <1>2 DEF Serials, ToSet
  <2> QED BY <2>1, <2>2
<1> QED BY <1>1, <1>2

LEMMA FoundBack ==
  ASSUME NEW D, NEW defs \in Seq(D), NoDef \notin D, Unambiguous(defs), NEW d \in ToSet(defs)
  PROVE  FindSerial(defs, d.serial) = d
<1>1. d.serial \in Serials(defs)
  BY DEF Serials
<1>2. FindSerial(defs, d.serial) \in ToSet(defs) /\ FindSerial(defs, d.serial).serial = d.serial
  BY <1>1, FoundIs
<1> QED BY <1>2, OneOfAName

LEMMA KnownAt ==
  ASSUME NEW e, NEW n, Known(e, n)
  PROVE  /\ At(e, n) \in DOMAIN e
         /\ ~is_lazy(e[At(e, n)]) /\ e[At(e, n)].def.name = n
BY DEF Known, At

-----------------------------------------------------------------------------
(* Schemas. *)

GoodSchema(S) == S \in Schemas /\ SchemaOK(S)

SameSchema(S, T) ==
  /\ SameButSerials(S.doc, T.doc)
  /\ SameButSerials(S.stores, T.stores)
  /\ Len(S.klasses) = Len(T.klasses)
  /\ \A k \in DOMAIN S.klasses :
       S.klasses[k].name = T.klasses[k].name /\ SameButSerials(S.klasses[k].fields, T.klasses[k].fields)

LEMMA ToolFacts ==
  ASSUME NEW t \in Tools
  PROVE  /\ GoodSchema(t.in) /\ GoodSchema(t.out) /\ SameSchema(t.in, t.out)
         /\ t \in [in : Schemas, out : Schemas]
<1>1. PICK p \in Pipelines : t \in ToSet(p)
  BY DEF Tools
<1>2. p \in Seq([in : Schemas, out : Schemas])
  BY SchemasAssumption
<1>3. t \in [in : Schemas, out : Schemas]
  BY <1>1, <1>2, ToSetIs
<1> QED BY <1>3, SchemasAssumption DEF GoodSchema, SameSchema

LEMMA DocFacts ==
  ASSUME NEW S, GoodSchema(S)
  PROVE  /\ S.doc \in Seq(FieldDefs) /\ Unambiguous(S.doc)
         /\ \A f \in ToSet(S.doc) : f.to # NoStore => f.to \in Names(S.stores) /\ f.init = Unset
         /\ MetaDef(S) \in KlassDefs
<1>1. S.doc \in Seq(FieldDefs)
  BY DEF GoodSchema, Schemas
<1>2. S.doc \in AllFields(S)
  BY DEF AllFields
<1>3. MetaDef(S) \in KlassDefs
  <2>1. "Doc" \in STRING /\ "__meta__" \in STRING
    BY StringsAssumption
  <2> QED BY <1>1, <2>1 DEF MetaDef, KlassDefs
<1> QED BY <1>1, <1>2, <1>3 DEF GoodSchema, SchemaOK

LEMMA KlassFacts ==
  ASSUME NEW S, GoodSchema(S)
  PROVE  /\ S.klasses \in Seq(KlassDefs) /\ Unambiguous(S.klasses)
         /\ "Doc" \notin Names(S.klasses) /\ "__meta__" \notin Serials(S.klasses)
         /\ \A k \in ToSet(S.klasses) :
              /\ k \in KlassDefs /\ k.name # "Doc" /\ k.serial # "__meta__"
              /\ k.fields \in Seq(FieldDefs) /\ Unambiguous(k.fields)
              /\ \A f \in ToSet(k.fields) :
                   f.to # NoStore => f.to \in Names(S.stores) /\ f.init = Unset
<1>1. S.klasses \in Seq(KlassDefs)
  BY DEF GoodSchema, Schemas
<1>2. "Doc" \notin Names(S.klasses) /\ "__meta__" \notin Serials(S.klasses)
  BY DEF GoodSchema, SchemaOK
<1>3. Unambiguous(S.klasses)
  BY DEF GoodSchema, SchemaOK
<1>4. ASSUME NEW k \in ToSet(S.klasses)
      PROVE  /\ k \in KlassDefs /\ k.name # "Doc" /\ k.serial # "__meta__"
             /\ k.fields \in Seq(FieldDefs) /\ Unambiguous(k.fields)
             /\ \A f \in ToSet(k.fields) :
                  f.to # NoStore => f.to \in Names(S.stores) /\ f.init = Unset
  <2>1. k \in KlassDefs
    BY <1>1, ToSetIs
  <2>2. k.name \in Names(S.klasses) /\ k.serial \in Serials(S.klasses)
    BY DEF Names, Serials
  <2>3. k.fields \in AllFields(S)
    BY DEF AllFields
  <2>4. k.fields \in Seq(FieldDefs)
    BY <2>1 DEF KlassDefs
  <2> QED BY <1>2, <2>1, <2>2, <2>3, <2>4 DEF GoodSchema, SchemaOK
<1> QED BY <1>1, <1>2, <1>3, <1>4

LEMMA StoreFacts ==
  ASSUME NEW S, GoodSchema(S)
  PROVE  /\ S.stores \in Seq(StoreDefs) /\ Unambiguous(S.stores)
         /\ \A s \in ToSet(S.stores) : s \in StoreDefs /\ s.klass \in Names(S.klasses)
<1>1. S.stores \in Seq(StoreDefs)
  BY DEF GoodSchema, Schemas
<1> QED BY <1>1, ToSetIs DEF GoodSchema, SchemaOK

LEMMA SameFields ==
  ASSUME NEW defs \in Seq(FieldDefs), NEW others \in Seq(FieldDefs),
         Unambiguous(defs), Unambiguous(others), SameButSerials(defs, others)
  PROVE  /\ Names(others) = Names(defs)
         /\ \A n \in Names(defs) : LET d == Named(defs, n)
                                       e == Named(others, n)
                                   IN  /\ e.mode = d.mode /\ e.init = d.init
                                       /\ e.to = d.to /\ e.kind = d.kind
<1>1. /\ Len(others) = Len(defs) /\ DOMAIN defs = 1..Len(defs)
      /\ DOMAIN others = 1..Len(defs)
  BY LenProperties DEF SameButSerials
<1>2. ASSUME NEW i \in 1..Len(defs)
      PROVE  /\ defs[i] \in ToSet(defs) /\ others[i] \in ToSet(others)
             /\ LET d == defs[i]
                    e == others[i]
                IN  /\ e.name = d.name /\ e.mode = d.mode /\ e.init = d.init
                    /\ e.to = d.to /\ e.kind = d.kind
  <2>1. defs[i] \in ToSet(defs) /\ others[i] \in ToSet(others) /\ defs[i] \in FieldDefs
    BY <1>1, ToSetIs
  <2>2. others[i] = [defs[i] EXCEPT !.serial = others[i].serial]
    BY <1>1 DEF SameButSerials, Alike
  <2>3. PICK d \in FieldDefs : d = defs[i]
    BY <2>1
  <2>4. others[i] = [d EXCEPT !.serial = others[i].serial]
    BY <2>2, <2>3
  <2>5. LET e == others[i] IN e.name = d.name /\ e.mode = d.mode /\ e.init = d.init
                              /\ e.to = d.to /\ e.kind = d.kind
    BY <2>4 DEF FieldDefs
  <2> QED BY <2>1, <2>3, <2>5
<1>3. ASSUME NEW n PROVE n \in Names(defs) <=> n \in Names(others)
  <2>1. ASSUME n \in Names(defs) PROVE n \in Names(others)
    <3>1. PICK d \in ToSet(defs) : d.name = n
      BY <2>1 DEF Names
    <3>2. PICK i \in 1..Len(defs) : defs[i] = d
      BY ToSetIs
    <3> QED BY <1>2, <3>1, <3>2 DEF Names
  <2>2. ASSUME n \in Names(others) PROVE n \in Names(defs)
    <3>1. PICK d \in ToSet(others) : d.name = n
      BY <2>2 DEF Names
    <3>2. PICK i \in 1..Len(defs) : others[i] = d
      BY <1>1, ToSetIs
    <3> QED BY <1>2, <3>1, <3>2 DEF Names
  <2> QED BY <2>1, <2>2
<1>4. Names(defs) = Names(others)
  BY <1>3
<1>5. ASSUME NEW n \in Names(defs)
      PROVE  LET d == Named(defs, n)
                 e == Named(others, n)
             IN  e.mode = d.mode /\ e.init = d.init /\ e.to = d.to /\ e.kind = d.kind
  <2>1. PICK d \in ToSet(defs) : d.name = n
    BY DEF Names
  <2>2. PICK i \in 1..Len(defs) : defs[i] = d
    BY ToSetIs
  <2>3. Named(defs, n) = defs[i] /\ Named(others, n) = others[i]
    BY <1>2, <2>1, <2>2, NamedIs
  <2> QED BY <1>2, <2>3
<1> QED BY <1>4, <1>5

LEMMA SameStores ==
  ASSUME NEW S, NEW T, GoodSchema(S), GoodSchema(T), SameSchema(S, T)
  PROVE  /\ Names(T.stores) = Names(S.stores)
         /\ \A n \in Names(S.stores) : Named(T.stores, n).klass = Named(S.stores, n).klass
<1> DEFINE defs == S.stores
           others == T.stores
<1>1. /\ defs \in Seq(StoreDefs) /\ others \in Seq(StoreDefs)
      /\ Unambiguous(defs) /\ Unambiguous(others)
  BY StoreFacts
<1>2. Len(others) = Len(defs) /\ DOMAIN defs = 1..Len(defs) /\ DOMAIN others = 1..Len(defs)
  BY <1>1, LenProperties DEF SameSchema, SameButSerials
<1>3. ASSUME NEW i \in 1..Len(defs)
      PROVE  /\ defs[i] \in ToSet(defs) /\ others[i] \in ToSet(others)
             /\ others[i].name = defs[i].name /\ others[i].klass = defs[i].klass
  <2>1. defs[i] \in ToSet(defs) /\ others[i] \in ToSet(others) /\ defs[i] \in StoreDefs
    BY <1>1, <1>2, ToSetIs
  <2>2. others[i] = [defs[i] EXCEPT !.serial = others[i].serial]
    BY <1>2 DEF SameSchema, SameButSerials, Alike
  <2>3. PICK d \in StoreDefs : d = defs[i]
    BY <2>1
  <2>4. others[i] = [d EXCEPT !.serial = others[i].serial]
    BY <2>2, <2>3
  <2>5. others[i].name = d.name /\ others[i].klass = d.klass
    BY <2>4 DEF StoreDefs
  <2> QED BY <2>1, <2>3, <2>5
<1> HIDE DEF defs, others
<1>4. ASSUME NEW n PROVE n \in Names(defs) <=> n \in Names(others)
  <2>1. ASSUME n \in Names(defs) PROVE n \in Names(others)
    <3>1. PICK d \in ToSet(defs) : d.name = n
      BY <2>1 DEF Names
    <3>2. PICK i \in 1..Len(defs) : defs[i] = d
      BY <1>1, ToSetIs
    <3> QED BY <1>3, <3>1, <3>2 DEF Names
  <2>2. ASSUME n \in Names(others) PROVE n \in Names(defs)
    <3>1. PICK d \in ToSet(others) : d.name = n
      BY <2>2 DEF Names
    <3>2. PICK i \in 1..Len(defs) : others[i] = d
      BY <1>1, <1>2, ToSetIs
    <3> QED BY <1>3, <3>1, <3>2 DEF Names
  <2> QED BY <2>1, <2>2
<1>5. ASSUME NEW n \in Names(defs) PROVE Named(others, n).klass = Named(defs, n).klass
  <2>1. PICK d \in ToSet(defs) : d.name = n
    BY DEF Names
  <2>2. PICK i \in 1..Len(defs) : defs[i] = d
    BY <1>1, ToSetIs
  <2>3. Named(defs, n) = defs[i] /\ Named(others, n) = others[i]
    BY <1>1, <1>3, <2>1, <2>2, NamedIs
  <2> QED BY <1>3, <2>3
<1> QED BY <1>4, <1>5 DEF defs, others

LEMMA SameKlasses ==
  ASSUME NEW S, NEW T, GoodSchema(S), GoodSchema(T), SameSchema(S, T)
  PROVE  /\ Names(T.klasses) = Names(S.klasses)
         /\ \A n \in Names(S.klasses) :
              SameButSerials(Named(S.klasses, n).fields, Named(T.klasses, n).fields)
<1> DEFINE defs == S.klasses
           others == T.klasses
<1>1. /\ defs \in Seq(KlassDefs) /\ others \in Seq(KlassDefs)
      /\ Unambiguous(defs) /\ Unambiguous(others)
  BY KlassFacts
<1>2. Len(others) = Len(defs) /\ DOMAIN defs = 1..Len(defs) /\ DOMAIN others = 1..Len(defs)
  BY <1>1, LenProperties DEF SameSchema
<1>3. ASSUME NEW i \in 1..Len(defs)
      PROVE  /\ defs[i] \in ToSet(defs) /\ others[i] \in ToSet(others)
             /\ others[i].name = defs[i].name
             /\ SameButSerials(defs[i].fields, others[i].fields)
  BY <1>1, <1>2, ToSetIs DEF SameSchema
<1> HIDE DEF defs, others
<1>4. ASSUME NEW n PROVE n \in Names(defs) <=> n \in Names(others)
  <2>1. ASSUME n \in Names(defs) PROVE n \in Names(others)
    <3>1. PICK d \in ToSet(defs) : d.name = n
      BY <2>1 DEF Names
    <3>2. PICK i \in 1..Len(defs) : defs[i] = d
      BY <1>1, ToSetIs
    <3> QED BY <1>3, <3>1, <3>2 DEF Names
  <2>2. ASSUME n \in Names(others) PROVE n \in Names(defs)
    <3>1. PICK d \in ToSet(others) : d.name = n
      BY <2>2 DEF Names
    <3>2. PICK i \in 1..Len(defs) : others[i] = d
      BY <1>1, <1>2, ToSetIs
    <3> QED BY <1>3, <3>1, <3>2 DEF Names
  <2> QED BY <2>1, <2>2
<1>5. ASSUME NEW n \in Names(defs)
      PROVE  SameButSerials(Named(defs, n).fields, Named(others, n).fields)
  <2>1. PICK d \in ToSet(defs) : d.name = n
    BY DEF Names
  <2>2. PICK i \in 1..Len(defs) : defs[i] = d
    BY <1>1, ToSetIs
  <2>3. Named(defs, n) = defs[i] /\ Named(others, n) = others[i]
    BY <1>1, <1>3, <2>1, <2>2, NamedIs
  <2> QED BY <1>3, <2>3
<1> QED BY <1>4, <1>5 DEF defs, others

-----------------------------------------------------------------------------
(* Reading. *)

IsMeta(d) == d.name = "Doc" /\ d.serial = "__meta__"

(* The declarations that a tool with the schema S reads a klass with.      *)
KlassesOf(S) == <<MetaDef(S)>> \o S.klasses

LEMMA KlassesOfFacts ==
  ASSUME NEW S, GoodSchema(S)
  PROVE  /\ KlassesOf(S) \in Seq(KlassDefs) /\ Unambiguous(KlassesOf(S))
         /\ ToSet(KlassesOf(S)) = {MetaDef(S)} \cup ToSet(S.klasses)
         /\ IsMeta(MetaDef(S))
<1> DEFINE ks == S.klasses
           all == KlassesOf(S)
           m == MetaDef(S)
<1>1. m \in KlassDefs /\ m.name = "Doc" /\ m.serial = "__meta__" /\ IsMeta(m)
  BY DocFacts DEF MetaDef, IsMeta
<1>2. ks \in Seq(KlassDefs) /\ Unambiguous(ks)
      /\ \A k \in ToSet(ks) : k.name # "Doc" /\ k.serial # "__meta__"
  BY KlassFacts
<1>3. /\ <<m>> \in Seq(KlassDefs) /\ Len(<<m>>) = 1 /\ <<m>>[1] = m
      /\ Len(ks) \in Nat /\ DOMAIN ks = 1..Len(ks)
  BY <1>1, <1>2, LenProperties
<1>4. all = <<m>> \o ks
  BY DEF KlassesOf
<1> HIDE DEF ks, all, m
<1>5. all \in Seq(KlassDefs) /\ Len(all) = Len(ks) + 1
      /\ \A i \in 1..(Len(ks) + 1) : all[i] = IF i <= 1 THEN <<m>>[i] ELSE ks[i - 1]
  BY <1>2, <1>3, <1>4, ConcatProperties
<1>6. DOMAIN all = 1..(Len(ks) + 1) /\ all[1] = m
      /\ \A i \in 2..(Len(ks) + 1) : i - 1 \in 1..Len(ks) /\ all[i] = ks[i - 1]
  BY <1>3, <1>5, LenProperties
<1>7. Unambiguous(all)
  <2>1. ASSUME NEW i \in 1..(Len(ks) + 1), NEW j \in 1..(Len(ks) + 1), i < j
        PROVE  all[i].name # all[j].name /\ all[i].serial # all[j].serial
    <3>1. j \in 2..(Len(ks) + 1) /\ j - 1 \in 1..Len(ks) /\ all[j] = ks[j - 1] /\ ks[j - 1] \in ToSet(ks)
      <4>1. j \in 2..(Len(ks) + 1)
        BY <1>3, <2>1
      <4> QED BY <1>2, <1>6, <4>1, ToSetIs
    <3>2. CASE i = 1
      BY <1>1, <1>2, <1>6, <3>1, <3>2
    <3>3. CASE i # 1
      <4>1. i \in 2..(Len(ks) + 1) /\ i - 1 \in 1..Len(ks) /\ all[i] = ks[i - 1] /\ i - 1 # j - 1
        <5>1. i \in 2..(Len(ks) + 1)
          BY <1>3, <3>3
        <5>2. i - 1 # j - 1
          BY <1>3, <2>1
        <5> QED BY <1>6, <5>1, <5>2
      <4> QED BY <1>2, <1>3, <3>1, <4>1 DEF Unambiguous
    <3> QED BY <3>2, <3>3
  <2> QED BY <1>3, <1>6, <2>1 DEF Unambiguous
<1>8. ToSet(all) = {m} \cup ToSet(ks)
  <2>1. ASSUME NEW x \in ToSet(all) PROVE x \in {m} \cup ToSet(ks)
    <3>1. PICK i \in 1..(Len(ks) + 1) : x = all[i]
      BY <1>6 DEF ToSet
    <3>2. i = 1 \/ i \in 2..(Len(ks) + 1)
      BY <1>3
    <3>3. i \in 2..(Len(ks) + 1) => ks[i - 1] \in ToSet(ks)
      BY <1>2, <1>6, ToSetIs
    <3> QED BY <1>6, <3>1, <3>2, <3>3
  <2>2. m \in ToSet(all)
    BY <1>3, <1>6 DEF ToSet
  <2>3. ASSUME NEW x \in ToSet(ks) PROVE x \in ToSet(all)
    <3>1. PICK i \in 1..Len(ks) : ks[i] = x
      BY <1>2, ToSetIs
    <3>2. i + 1 \in 2..(Len(ks) + 1) /\ (i + 1) - 1 = i
      BY <1>3
    <3>3. all[i + 1] = x /\ i + 1 \in DOMAIN all
      BY <1>3, <1>6, <3>1, <3>2
    <3> QED BY <3>3 DEF ToSet
  <2> QED BY <2>1, <2>2, <2>3
<1> QED BY <1>1, <1>5, <1>7, <1>8 DEF all, m, ks

LEMMA ReadFieldIs ==
  ASSUME NEW f \in WireFields, NEW def, def = NoDef \/ def.fields \in Seq(FieldDefs)
  PROVE  LET g == ReadField(f, def)
         IN  /\ g \in RTFields
             /\ g.serial = f.serial /\ g.to = f.to /\ g.kind = f.kind
             /\ ~is_lazy(g) => def # NoDef /\ g.def \in ToSet(def.fields) /\ g.def.serial = f.serial
             /\ is_lazy(g) => def = NoDef \/ f.serial \notin Serials(def.fields)
<1> DEFINE g == ReadField(f, def)
           d == IF def = NoDef THEN NoDef ELSE FindSerial(def.fields, f.serial)
<1>1. /\ d \in FieldDefs \cup {NoDef}
      /\ d # NoDef => def # NoDef /\ d \in ToSet(def.fields) /\ d.serial = f.serial
      /\ d = NoDef => def = NoDef \/ f.serial \notin Serials(def.fields)
  <2>1. NoDef \notin FieldDefs
    BY NothingAssumption
  <2>2. CASE def = NoDef
    BY <2>2
  <2>3. CASE def # NoDef
    BY <2>1, <2>3, FoundIs
  <2> QED BY <2>2, <2>3
<1>2. g = [serial |-> f.serial, to |-> f.to, kind |-> f.kind, def |-> d]
  BY DEF ReadField
<1> HIDE DEF d, g
<1>3. g \in RTFields /\ g.serial = f.serial /\ g.to = f.to /\ g.kind = f.kind /\ g.def = d
  BY <1>1, <1>2 DEF RTFields, WireFields
<1> QED BY <1>1, <1>3 DEF is_lazy, g

LEMMA ReadKlassIs ==
  ASSUME NEW k \in WireKlasses, NEW S, GoodSchema(S)
  PROVE  LET K == ReadKlass(k, S)
         IN  /\ K \in RTKlasses
             /\ K.serial = k.serial
             /\ ~is_lazy(K) => K.def \in ToSet(KlassesOf(S)) /\ K.def.serial = k.serial
             /\ is_lazy(K) => k.serial \notin Serials(KlassesOf(S))
             /\ Len(K.fields) = Len(k.fields)
             /\ \A i \in 1..Len(k.fields) : K.fields[i] = ReadField(k.fields[i], K.def)
             /\ K.def # NoDef => K.def.fields \in Seq(FieldDefs)
<1> DEFINE K == ReadKlass(k, S)
           def == FindSerial(KlassesOf(S), k.serial)
           fields == [i \in DOMAIN k.fields |-> ReadField(k.fields[i], def)]
<1>1. /\ def \in KlassDefs \cup {NoDef}
      /\ def # NoDef => def \in ToSet(KlassesOf(S)) /\ def.serial = k.serial
      /\ def = NoDef => k.serial \notin Serials(KlassesOf(S))
  BY NothingAssumption, KlassesOfFacts, FoundIs
<1>2. K = [serial |-> k.serial, def |-> def, fields |-> fields]
  BY DEF ReadKlass, KlassesOf
<1>3. def # NoDef => def.fields \in Seq(FieldDefs)
  BY <1>1 DEF KlassDefs
<1> HIDE DEF def
<1>4. k.fields \in Seq(WireFields) /\ Len(k.fields) \in Nat /\ DOMAIN k.fields = 1..Len(k.fields)
      /\ k.serial \in STRING
  BY LenProperties DEF WireKlasses
<1>5. ASSUME NEW i \in 1..Len(k.fields) PROVE ReadField(k.fields[i], def) \in RTFields
  BY <1>3, <1>4, ElementOfSeq, ReadFieldIs
<1>6. /\ fields \in Seq(RTFields) /\ Len(fields) = Len(k.fields)
      /\ \A i \in 1..Len(k.fields) : fields[i] = ReadField(k.fields[i], def)
  BY <1>4, <1>5
<1> HIDE DEF fields, K
<1>7. K \in RTKlasses /\ K.serial = k.serial /\ K.def = def /\ K.fields = fields
  BY <1>1, <1>2, <1>4, <1>6 DEF RTKlasses
<1> QED BY <1>1, <1>3, <1>6, <1>7 DEF is_lazy, K

LEMMA ReadStoreIs ==
  ASSUME NEW w \in Wires, Len(w.groups) = Len(w.stores), NEW i \in 1..Len(w.stores),
         NEW S, GoodSchema(S)
  PROVE  LET s == ReadStore(w, i, S)
         IN  /\ s \in RTStores
             /\ s.serial = w.stores[i].serial /\ s.klass = w.stores[i].klass
             /\ ~is_lazy(s) => /\ s.def \in ToSet(S.stores) /\ s.def.serial = w.stores[i].serial
                               /\ s.nelem = 0 /\ s.lazy = <<>>
             /\ is_lazy(s) => /\ w.stores[i].serial \notin Serials(S.stores)
                              /\ s.nelem = w.stores[i].nelem /\ s.lazy = w.groups[i]
<1> DEFINE s == ReadStore(w, i, S)
           def == FindSerial(S.stores, w.stores[i].serial)
<1>1. /\ def \in StoreDefs \cup {NoDef}
      /\ def # NoDef => def \in ToSet(S.stores) /\ def.serial = w.stores[i].serial
      /\ def = NoDef => w.stores[i].serial \notin Serials(S.stores)
  BY NothingAssumption, StoreFacts, FoundIs
<1>2. w.stores \in Seq(WireStores) /\ w.groups \in Seq(Seq(Items))
  BY DEF Wires
<1>3. w.stores[i] \in WireStores /\ w.groups[i] \in Seq(Items)
  BY <1>2, ElementOfSeq
<1>4. s = [serial |-> w.stores[i].serial, klass |-> w.stores[i].klass, def |-> def,
           nelem |-> IF def = NoDef THEN w.stores[i].nelem ELSE 0,
           lazy |-> IF def = NoDef THEN w.groups[i] ELSE <<>>]
  BY DEF ReadStore
<1>5. <<>> \in Seq(Items)
  BY EmptySeq
<1> HIDE DEF def, s
<1>6. s \in RTStores /\ s.def = def /\ s.serial = w.stores[i].serial /\ s.klass = w.stores[i].klass
  BY <1>1, <1>3, <1>4, <1>5 DEF RTStores, WireStores
<1>7. (def # NoDef => s.nelem = 0 /\ s.lazy = <<>>)
      /\ (def = NoDef => s.nelem = w.stores[i].nelem /\ s.lazy = w.groups[i])
  BY <1>4
<1> QED BY <1>1, <1>6, <1>7 DEF is_lazy, s

(* A document on the stream has the annotations of each store.             *)
WireShape(w) == w \in Wires /\ Len(w.groups) = Len(w.stores)

LEMMA WireFacts ==
  ASSUME NEW w, WireShape(w)
  PROVE  /\ w.klasses \in Seq(WireKlasses) /\ DOMAIN w.klasses = 1..Len(w.klasses)
         /\ \A k \in 1..Len(w.klasses) :
              /\ w.klasses[k] \in WireKlasses /\ w.klasses[k].fields \in Seq(WireFields)
              /\ DOMAIN w.klasses[k].fields = 1..Len(w.klasses[k].fields)
         /\ w.stores \in Seq(WireStores) /\ DOMAIN w.stores = 1..Len(w.stores)
         /\ \A i \in 1..Len(w.stores) :
              /\ w.stores[i] \in WireStores /\ w.stores[i].klass \in Nat /\ w.stores[i].nelem \in Nat
              /\ w.groups[i] \in Seq(Items) /\ DOMAIN w.groups[i] = 1..Len(w.groups[i])
         /\ w.groups \in Seq(Seq(Items)) /\ DOMAIN w.groups = 1..Len(w.stores)
         /\ w.doc \in Items
         /\ Len(w.klasses) \in Nat /\ Len(w.stores) \in Nat
<1>1. /\ w.klasses \in Seq(WireKlasses) /\ w.stores \in Seq(WireStores)
      /\ w.groups \in Seq(Seq(Items)) /\ w.doc \in Items /\ Len(w.groups) = Len(w.stores)
  BY DEF WireShape, Wires
<1>2. /\ DOMAIN w.klasses = 1..Len(w.klasses) /\ DOMAIN w.stores = 1..Len(w.stores)
      /\ DOMAIN w.groups = 1..Len(w.stores) /\ Len(w.klasses) \in Nat /\ Len(w.stores) \in Nat
  BY <1>1, LenProperties
<1>3. ASSUME NEW k \in 1..Len(w.klasses)
      PROVE  /\ w.klasses[k] \in WireKlasses /\ w.klasses[k].fields \in Seq(WireFields)
             /\ DOMAIN w.klasses[k].fields = 1..Len(w.klasses[k].fields)
  <2>1. w.klasses[k] \in WireKlasses
    BY <1>1, ElementOfSeq
  <2>2. w.klasses[k].fields \in Seq(WireFields)
    BY <2>1 DEF WireKlasses
  <2> QED BY <2>1, <2>2, LenProperties
<1>4. ASSUME NEW i \in 1..Len(w.stores)
      PROVE  /\ w.stores[i] \in WireStores /\ w.stores[i].klass \in Nat /\ w.stores[i].nelem \in Nat
             /\ w.groups[i] \in Seq(Items) /\ DOMAIN w.groups[i] = 1..Len(w.groups[i])
  <2>1. w.stores[i] \in WireStores /\ w.groups[i] \in Seq(Items)
    BY <1>1, ElementOfSeq
  <2>2. w.stores[i].klass \in Nat /\ w.stores[i].nelem \in Nat
    BY <2>1 DEF WireStores
  <2> QED BY <2>1, <2>2, LenProperties
<1> QED BY <1>1, <1>2, <1>3, <1>4

LEMMA ReadRTIs ==
  ASSUME NEW w, WireShape(w), NEW S, GoodSchema(S),
         \E k \in DOMAIN w.klasses : w.klasses[k].serial = "__meta__"
  PROVE  LET r == ReadRT(w, S)
         IN  /\ r \in RTs
             /\ Len(r.klasses) = Len(w.klasses) /\ Len(r.stores) = Len(w.stores)
             /\ \A k \in 1..Len(w.klasses) : r.klasses[k] = ReadKlass(w.klasses[k], S)
             /\ \A i \in 1..Len(w.stores) : r.stores[i] = ReadStore(w, i, S)
             /\ r.doc \in 1..Len(w.klasses) /\ w.klasses[r.doc].serial = "__meta__"
             /\ r.docLazy = IF S.doc = <<>> THEN w.doc ELSE NoDoc
<1> DEFINE r == ReadRT(w, S)
           ks == [k \in DOMAIN w.klasses |-> ReadKlass(w.klasses[k], S)]
           ss == [i \in DOMAIN w.stores |-> ReadStore(w, i, S)]
           doc == CHOOSE k \in DOMAIN w.klasses : w.klasses[k].serial = "__meta__"
           docLazy == IF S.doc = <<>> THEN w.doc ELSE NoDoc
<1>1. ASSUME NEW k \in 1..Len(w.klasses) PROVE ReadKlass(w.klasses[k], S) \in RTKlasses
  BY WireFacts, ReadKlassIs
<1>2. ASSUME NEW i \in 1..Len(w.stores) PROVE ReadStore(w, i, S) \in RTStores
  BY ReadStoreIs DEF WireShape
<1>3. /\ ks \in Seq(RTKlasses) /\ Len(ks) = Len(w.klasses)
      /\ \A k \in 1..Len(w.klasses) : ks[k] = ReadKlass(w.klasses[k], S)
  <2>1. DOMAIN w.klasses = 1..Len(w.klasses) /\ Len(w.klasses) \in Nat
    BY WireFacts
  <2> QED BY <1>1, <2>1
<1>4. /\ ss \in Seq(RTStores) /\ Len(ss) = Len(w.stores)
      /\ \A i \in 1..Len(w.stores) : ss[i] = ReadStore(w, i, S)
  <2>1. DOMAIN w.stores = 1..Len(w.stores) /\ Len(w.stores) \in Nat
    BY WireFacts
  <2> QED BY <1>2, <2>1
<1>5. doc \in 1..Len(w.klasses) /\ doc \in Nat /\ w.klasses[doc].serial = "__meta__"
  BY WireFacts
<1>6. docLazy \in Items \cup {NoDoc}
  BY WireFacts
<1>7. r = [klasses |-> ks, stores |-> ss, doc |-> doc, docLazy |-> docLazy]
  BY DEF ReadRT
<1> HIDE DEF r, ks, ss, doc, docLazy
<1>8. r \in RTs
  BY <1>3, <1>4, <1>5, <1>6, <1>7 DEF RTs
<1>9. r.klasses = ks /\ r.stores = ss /\ r.doc = doc /\ r.docLazy = docLazy
  BY <1>7
<1> QED BY <1>3, <1>4, <1>5, <1>8, <1>9 DEF r, docLazy

-----------------------------------------------------------------------------
(* What holds of a runtime of a tool with the schema S.                    *)

(* A field is what its declaration says it is.                             *)
FieldShape(r, f) ==
  /\ f.to <= Len(r.stores)
  /\ ~is_lazy(f) =>
       /\ f.to # 0 <=> f.def.to # NoStore
       /\ f.kind = f.def.kind
       /\ f.to # 0 => ~is_lazy(r.stores[f.to]) /\ r.stores[f.to].def.name = f.def.to

(* Fields of a klass whose fields are declared by defs.                    *)
FieldsShape(r, fields, defs) ==
  /\ fields \in Seq(RTFields)
  /\ \A i \in 1..Len(fields) :
       /\ FieldShape(r, fields[i])
       /\ ~is_lazy(fields[i]) => fields[i].def \in ToSet(defs)

(* The schema's declarations of the fields of the klass at k.              *)
DefsOf(r, S, k) ==
  IF k = r.doc THEN S.doc
  ELSE IF is_lazy(r.klasses[k]) THEN <<>> ELSE r.klasses[k].def.fields

KlassShape(r, S, k) ==
  LET K == r.klasses[k]
  IN  /\ k = r.doc => ~is_lazy(K) /\ IsMeta(K.def)
      /\ ~is_lazy(K) => K.def \in ToSet(S.klasses) \/ IsMeta(K.def)
      /\ FieldsShape(r, K.fields, DefsOf(r, S, k))

(* A store holds objects of a klass, a declared one of the one declared.   *)
StoreShape(r, S, i) ==
  LET s == r.stores[i]
      K == r.klasses[s.klass + 1]
  IN  /\ s.klass < Len(r.klasses)
      /\ ~is_lazy(s) => s.def \in ToSet(S.stores) /\ ~is_lazy(K) /\ K.def.name = s.def.klass

RTShape(r, S) ==
  /\ r \in RTs
  /\ r.doc \in 1..Len(r.klasses)
  /\ \A k \in 1..Len(r.klasses) : KlassShape(r, S, k)
  /\ \A i \in 1..Len(r.stores) : StoreShape(r, S, i)

LEMMA RTFacts ==
  ASSUME NEW r \in RTs
  PROVE  /\ r.klasses \in Seq(RTKlasses) /\ DOMAIN r.klasses = 1..Len(r.klasses)
         /\ \A k \in 1..Len(r.klasses) :
              /\ r.klasses[k] \in RTKlasses /\ r.klasses[k].serial \in STRING
              /\ r.klasses[k].fields \in Seq(RTFields)
              /\ DOMAIN r.klasses[k].fields = 1..Len(r.klasses[k].fields)
              /\ \A f \in 1..Len(r.klasses[k].fields) : r.klasses[k].fields[f] \in RTFields
         /\ r.stores \in Seq(RTStores) /\ DOMAIN r.stores = 1..Len(r.stores)
         /\ \A i \in 1..Len(r.stores) :
              r.stores[i] \in RTStores /\ r.stores[i].klass \in Nat /\ r.stores[i].nelem \in Nat
         /\ Len(r.klasses) \in Nat /\ Len(r.stores) \in Nat
         /\ r.docLazy \in Items \cup {NoDoc}
<1>1. r.klasses \in Seq(RTKlasses) /\ r.stores \in Seq(RTStores) /\ r.docLazy \in Items \cup {NoDoc}
  BY DEF RTs
<1>2. /\ DOMAIN r.klasses = 1..Len(r.klasses) /\ DOMAIN r.stores = 1..Len(r.stores)
      /\ Len(r.klasses) \in Nat /\ Len(r.stores) \in Nat
  BY <1>1, LenProperties
<1>3. ASSUME NEW k \in 1..Len(r.klasses)
      PROVE  /\ r.klasses[k] \in RTKlasses /\ r.klasses[k].serial \in STRING
             /\ r.klasses[k].fields \in Seq(RTFields)
             /\ DOMAIN r.klasses[k].fields = 1..Len(r.klasses[k].fields)
             /\ \A f \in 1..Len(r.klasses[k].fields) : r.klasses[k].fields[f] \in RTFields
  <2>1. r.klasses[k] \in RTKlasses
    BY <1>1, ElementOfSeq
  <2>2. r.klasses[k].fields \in Seq(RTFields) /\ r.klasses[k].serial \in STRING
    BY <2>1 DEF RTKlasses
  <2> QED BY <2>1, <2>2, LenProperties, ElementOfSeq
<1>4. ASSUME NEW i \in 1..Len(r.stores)
      PROVE  r.stores[i] \in RTStores /\ r.stores[i].klass \in Nat /\ r.stores[i].nelem \in Nat
  <2>1. r.stores[i] \in RTStores
    BY <1>1, ElementOfSeq
  <2> QED BY <2>1 DEF RTStores
<1> QED BY <1>1, <1>2, <1>3, <1>4

(* What is read and not rejected has that shape.                           *)
LEMMA ReadShape ==
  ASSUME NEW w, WireShape(w), NEW S, GoodSchema(S), ~Rejects(w, S)
  PROVE  RTShape(ReadRT(w, S), S)
<1> DEFINE r == ReadRT(w, S)
<1>1. \E k \in DOMAIN w.klasses : w.klasses[k].serial = "__meta__"
  BY DEF Rejects
<1>2. \A k \in ToSet(r.klasses) : \A f \in ToSet(k.fields) : ~BadField(r, f)
  BY DEF Rejects
<1>3. \A s \in ToSet(r.stores) : ~BadStore(r, s)
  BY DEF Rejects
<1>4. /\ r \in RTs
      /\ Len(r.klasses) = Len(w.klasses) /\ Len(r.stores) = Len(w.stores)
      /\ \A k \in 1..Len(w.klasses) : r.klasses[k] = ReadKlass(w.klasses[k], S)
      /\ \A i \in 1..Len(w.stores) : r.stores[i] = ReadStore(w, i, S)
      /\ r.doc \in 1..Len(w.klasses) /\ w.klasses[r.doc].serial = "__meta__"
  BY <1>1, ReadRTIs
<1> HIDE DEF r
<1>5. ASSUME NEW k \in 1..Len(r.klasses) PROVE KlassShape(r, S, k)
  <2> DEFINE K == r.klasses[k]
  <2>1. /\ w.klasses[k] \in WireKlasses /\ w.klasses[k].fields \in Seq(WireFields)
        /\ K = ReadKlass(w.klasses[k], S)
    BY <1>4, WireFacts
  <2>2. /\ K \in RTKlasses
        /\ ~is_lazy(K) => K.def \in ToSet(KlassesOf(S)) /\ K.def.serial = w.klasses[k].serial
        /\ is_lazy(K) => w.klasses[k].serial \notin Serials(KlassesOf(S))
        /\ Len(K.fields) = Len(w.klasses[k].fields)
        /\ \A i \in 1..Len(w.klasses[k].fields) : K.fields[i] = ReadField(w.klasses[k].fields[i], K.def)
        /\ K.def # NoDef => K.def.fields \in Seq(FieldDefs)
    BY <2>1, ReadKlassIs
  <2>3. K \in ToSet(r.klasses) /\ K.fields \in Seq(RTFields)
    BY <1>4, RTFacts, ToSetIs
  <2> HIDE DEF K
  <2>4. ~is_lazy(K) => K.def = MetaDef(S) \/ K.def \in ToSet(S.klasses)
    BY <2>2, KlassesOfFacts
  <2>5. k = r.doc => ~is_lazy(K) /\ K.def = MetaDef(S)
    <3> SUFFICES ASSUME k = r.doc PROVE ~is_lazy(K) /\ K.def = MetaDef(S)
      OBVIOUS
    <3>1. w.klasses[k].serial = "__meta__"
      BY <1>4
    <3>2. "__meta__" \in Serials(KlassesOf(S))
      BY KlassesOfFacts DEF Serials, IsMeta
    <3>3. ~is_lazy(K) /\ K.def.serial = "__meta__"
      BY <2>2, <3>1, <3>2
    <3>4. \A d \in ToSet(S.klasses) : d.serial # "__meta__"
      BY KlassFacts
    <3> QED BY <2>4, <3>3, <3>4
  <2>6. ASSUME NEW i \in 1..Len(K.fields)
        PROVE  /\ FieldShape(r, K.fields[i])
               /\ ~is_lazy(K.fields[i]) => K.fields[i].def \in ToSet(DefsOf(r, S, k))
    <3> DEFINE f == w.klasses[k].fields[i]
               g == K.fields[i]
    <3>1. f \in WireFields /\ g = ReadField(f, K.def)
      BY <2>1, <2>2, ElementOfSeq
    <3>2. /\ g \in RTFields
          /\ ~is_lazy(g) => K.def # NoDef /\ g.def \in ToSet(K.def.fields)
      BY <2>2, <3>1, ReadFieldIs
    <3>3. ~BadField(r, g)
      BY <1>2, <2>3, ToSetIs
    <3>4. FieldShape(r, g)
      <4>1. g.to \in Nat /\ Len(r.stores) \in Nat
        BY <1>4, <3>2, RTFacts DEF RTFields
      <4> QED BY <3>3, <4>1 DEF BadField, FieldShape
    <3>5. ~is_lazy(g) => g.def \in ToSet(DefsOf(r, S, k))
      <4>1. k = r.doc => K.def.fields = S.doc
        BY <2>5 DEF MetaDef
      <4> QED BY <3>2, <4>1 DEF DefsOf, is_lazy, K
    <3> QED BY <3>4, <3>5
  <2>7. FieldsShape(r, K.fields, DefsOf(r, S, k))
    BY <2>3, <2>6 DEF FieldsShape
  <2> QED BY <2>4, <2>5, <2>7, KlassesOfFacts DEF KlassShape, K
<1>6. ASSUME NEW i \in 1..Len(r.stores) PROVE StoreShape(r, S, i)
  <2>1. r.stores[i] \in ToSet(r.stores) /\ r.stores[i].klass \in Nat /\ Len(r.klasses) \in Nat
    BY <1>4, RTFacts, ToSetIs
  <2>2. ~BadStore(r, r.stores[i])
    BY <1>3, <2>1
  <2>3. ~is_lazy(r.stores[i]) => r.stores[i].def \in ToSet(S.stores)
    <3>1. PICK s : s = ReadStore(w, i, S)
      OBVIOUS
    <3>2. ~is_lazy(s) => s.def \in ToSet(S.stores)
      <4>1. w \in Wires /\ Len(w.groups) = Len(w.stores) /\ i \in 1..Len(w.stores)
        BY <1>4 DEF WireShape
      <4> QED BY <3>1, <4>1, ReadStoreIs
    <3> QED BY <1>4, <3>1, <3>2
  <2>4. r.stores[i].klass < Len(r.klasses)
    BY <2>1, <2>2 DEF BadStore
  <2>5. ~is_lazy(r.stores[i]) =>
          /\ ~is_lazy(r.klasses[r.stores[i].klass + 1])
          /\ r.klasses[r.stores[i].klass + 1].def.name = r.stores[i].def.klass
    BY <2>2 DEF BadStore
  <2> QED BY <2>3, <2>4, <2>5 DEF StoreShape
<1> QED BY <1>4, <1>5, <1>6 DEF RTShape, r

-----------------------------------------------------------------------------
(* The merge. *)

LEMMA NewDefsIs ==
  ASSUME NEW D, NEW defs \in Seq(D), NEW e
  PROVE  LET new == NewDefs(e, defs)
         IN  /\ new \in Seq(D) /\ Len(new) \in Nat /\ DOMAIN new = 1..Len(new)
             /\ \A k \in 1..Len(new) :
                  new[k] \in D /\ new[k] \in ToSet(defs) /\ ~Known(e, new[k].name)
             /\ \A d \in ToSet(defs) : ~Known(e, d.name) => \E k \in 1..Len(new) : new[k] = d
             /\ Unambiguous(defs) => Unambiguous(new)
<1> DEFINE T == {i \in DOMAIN defs : ~Known(e, defs[i].name)}
           new == NewDefs(e, defs)
<1>1. new \in Seq(D)
  BY AmongIs DEF NewDefs
<1>2. PICK f : Picks(f, new, defs, Len(defs), T)
  BY AmongIs DEF NewDefs
<1>3. DOMAIN defs = 1..Len(defs) /\ Len(defs) \in Nat
  BY LenProperties
<1> HIDE DEF new
<1>4. Len(new) \in Nat /\ DOMAIN new = 1..Len(new)
  BY <1>1, LenProperties
<1>5. ASSUME NEW k \in 1..Len(new)
      PROVE  /\ f[k] \in 1..Len(defs) /\ new[k] = defs[f[k]]
             /\ new[k] \in D /\ new[k] \in ToSet(defs) /\ ~Known(e, new[k].name)
  <2>1. f[k] \in 1..Len(defs) /\ f[k] \in T /\ new[k] = defs[f[k]]
    BY <1>2 DEF Picks
  <2> QED BY <2>1, ToSetIs
<1>6. ASSUME NEW d \in ToSet(defs), ~Known(e, d.name) PROVE \E k \in 1..Len(new) : new[k] = d
  <2>1. PICK i \in 1..Len(defs) : defs[i] = d
    BY ToSetIs
  <2>2. i \in T
    BY <1>3, <1>6, <2>1
  <2>3. PICK k \in 1..Len(new) : f[k] = i
    BY <1>2, <2>2 DEF Picks
  <2> QED BY <1>5, <2>1, <2>3
<1>7. ASSUME Unambiguous(defs) PROVE Unambiguous(new)
  <2> SUFFICES ASSUME NEW j \in 1..Len(new), NEW k \in 1..Len(new), j # k
               PROVE  new[j].name # new[k].name /\ new[j].serial # new[k].serial
    BY <1>4 DEF Unambiguous
  <2>1. f[j] # f[k]
    BY <1>2 DEF Picks
  <2> QED BY <1>3, <1>5, <1>7, <2>1 DEF Unambiguous
<1> QED BY <1>1, <1>4, <1>5, <1>6, <1>7 DEF new

LEMMA NoNewDefs ==
  ASSUME NEW D, NEW defs \in Seq(D), NEW e, \A d \in ToSet(defs) : Known(e, d.name)
  PROVE  NewDefs(e, defs) = <<>>
<1> DEFINE new == NewDefs(e, defs)
<1>1. /\ new \in Seq(D) /\ Len(new) \in Nat
      /\ \A k \in 1..Len(new) : new[k] \in ToSet(defs) /\ ~Known(e, new[k].name)
  BY NewDefsIs
<1> HIDE DEF new
<1>2. Len(new) = 0
  BY <1>1
<1>3. new = <<>>
  BY <1>1, <1>2, EmptySeq
<1> QED BY <1>3 DEF new

(* The declaration that an entry has once it is merged.                    *)
DefAfter(x, defs) ==
  IF ~is_lazy(x) /\ x.def.name \in Names(defs) THEN Named(defs, x.def.name) ELSE x.def

LEMMA DefAfterIs ==
  ASSUME NEW D, NEW defs \in Seq(D), NoDef \notin D, NEW x, x.def \in D \cup {NoDef}
  PROVE  /\ DefAfter(x, defs) \in D \cup {NoDef}
         /\ DefAfter(x, defs) = NoDef <=> is_lazy(x)
         /\ ~is_lazy(x) => DefAfter(x, defs).name = x.def.name
         /\ ~is_lazy(x) /\ x.def.name \in Names(defs) => DefAfter(x, defs) \in ToSet(defs)
<1>1. CASE ~is_lazy(x) /\ x.def.name \in Names(defs)
  <2>1. /\ Named(defs, x.def.name) \in ToSet(defs) /\ Named(defs, x.def.name) \in D
        /\ Named(defs, x.def.name).name = x.def.name
    BY <1>1, NamedOf
  <2> QED BY <1>1, <2>1 DEF DefAfter
<1>2. CASE ~(~is_lazy(x) /\ x.def.name \in Names(defs))
  BY <1>2 DEF DefAfter, is_lazy
<1> QED BY <1>1, <1>2

LEMMA RedefinedField ==
  ASSUME NEW x \in RTFields, NEW defs \in Seq(FieldDefs)
  PROVE  LET y == Redefined(x, defs)
         IN  y \in RTFields /\ y.serial = x.serial /\ y.to = x.to /\ y.kind = x.kind
             /\ y.def = DefAfter(x, defs)
<1>1. DefAfter(x, defs) \in FieldDefs \cup {NoDef}
  BY NothingAssumption, DefAfterIs DEF RTFields
<1>2. CASE ~is_lazy(x) /\ x.def.name \in Names(defs)
  <2>1. Redefined(x, defs) = [x EXCEPT !.def = DefAfter(x, defs)]
    BY <1>2 DEF Redefined, DefAfter
  <2> HIDE DEF DefAfter
  <2> QED BY <1>1, <2>1 DEF RTFields
<1>3. CASE ~(~is_lazy(x) /\ x.def.name \in Names(defs))
  BY <1>3 DEF Redefined, DefAfter
<1> QED BY <1>2, <1>3

LEMMA RedefinedKlass ==
  ASSUME NEW x \in RTKlasses, NEW defs \in Seq(KlassDefs)
  PROVE  LET y == Redefined(x, defs)
         IN  y \in RTKlasses /\ y.serial = x.serial /\ y.fields = x.fields
             /\ y.def = DefAfter(x, defs)
<1>1. DefAfter(x, defs) \in KlassDefs \cup {NoDef}
  BY NothingAssumption, DefAfterIs DEF RTKlasses
<1>2. CASE ~is_lazy(x) /\ x.def.name \in Names(defs)
  <2>1. Redefined(x, defs) = [x EXCEPT !.def = DefAfter(x, defs)]
    BY <1>2 DEF Redefined, DefAfter
  <2> HIDE DEF DefAfter
  <2> QED BY <1>1, <2>1 DEF RTKlasses
<1>3. CASE ~(~is_lazy(x) /\ x.def.name \in Names(defs))
  BY <1>3 DEF Redefined, DefAfter
<1> QED BY <1>2, <1>3

LEMMA RedefinedStore ==
  ASSUME NEW x \in RTStores, NEW defs \in Seq(StoreDefs)
  PROVE  LET y == Redefined(x, defs)
         IN  y \in RTStores /\ y.serial = x.serial /\ y.klass = x.klass /\ y.nelem = x.nelem
             /\ y.lazy = x.lazy /\ y.def = DefAfter(x, defs)
<1>1. DefAfter(x, defs) \in StoreDefs \cup {NoDef}
  BY NothingAssumption, DefAfterIs DEF RTStores
<1>2. CASE ~is_lazy(x) /\ x.def.name \in Names(defs)
  <2>1. Redefined(x, defs) = [x EXCEPT !.def = DefAfter(x, defs)]
    BY <1>2 DEF Redefined, DefAfter
  <2> HIDE DEF DefAfter
  <2> QED BY <1>1, <2>1 DEF RTStores
<1>3. CASE ~(~is_lazy(x) /\ x.def.name \in Names(defs))
  BY <1>3 DEF Redefined, DefAfter
<1> QED BY <1>2, <1>3

(* Two sequences, one after the other.                                     *)
LEMMA Appended ==
  ASSUME NEW D, NEW s \in Seq(D), NEW t \in Seq(D)
  PROVE  /\ s \o t \in Seq(D) /\ Len(s \o t) = Len(s) + Len(t)
         /\ DOMAIN (s \o t) = 1..(Len(s) + Len(t))
         /\ \A i \in 1..Len(s) : (s \o t)[i] = s[i]
         /\ \A j \in 1..Len(t) : (s \o t)[Len(s) + j] = t[j]
         /\ \A i \in 1..(Len(s) + Len(t)) :
              i \in 1..Len(s) \/ \E j \in 1..Len(t) : i = Len(s) + j
<1>1. Len(s) \in Nat /\ Len(t) \in Nat
  BY LenProperties
<1>2. /\ s \o t \in Seq(D) /\ Len(s \o t) = Len(s) + Len(t)
      /\ \A i \in 1..(Len(s) + Len(t)) :
           (s \o t)[i] = IF i <= Len(s) THEN s[i] ELSE t[i - Len(s)]
  BY ConcatProperties
<1>3. PICK m \in Nat, n \in Nat : m = Len(s) /\ n = Len(t)
  BY <1>1
<1>4. ASSUME NEW i \in 1..m PROVE (s \o t)[i] = s[i]
  BY <1>2, <1>3
<1>5. ASSUME NEW j \in 1..n PROVE (s \o t)[m + j] = t[j]
  <2>1. m + j \in 1..(m + n) /\ ~(m + j <= m) /\ (m + j) - m = j
    OBVIOUS
  <2> QED BY <1>2, <1>3, <2>1
<1>6. ASSUME NEW i \in 1..(m + n) PROVE i \in 1..m \/ \E j \in 1..n : i = m + j
  <2>1. ~(i \in 1..m) => i - m \in 1..n /\ i = m + (i - m)
    OBVIOUS
  <2> QED BY <2>1
<1> QED BY <1>2, <1>3, <1>4, <1>5, <1>6, LenProperties

(* The stores that the schema declares are known.                          *)
StoresKnown(stores, S) ==
  \A n \in Names(S.stores) : Known(stores, n) /\ At(stores, n) \in Nat

LEMMA MergedFields ==
  ASSUME NEW fields \in Seq(RTFields), NEW defs \in Seq(FieldDefs), NEW stores, NEW S,
         \A d \in ToSet(defs) : d.to # NoStore => d.to \in Names(S.stores),
         StoresKnown(stores, S)
  PROVE  LET m == merge_rtschema_fields(fields, defs, stores)
             new == NewDefs(fields, defs)
         IN  /\ m \in Seq(RTFields) /\ Len(m) = Len(fields) + Len(new)
             /\ \A i \in 1..Len(fields) : m[i] = Redefined(fields[i], defs)
             /\ \A j \in 1..Len(new) : m[Len(fields) + j] = NewField(new[j], stores)
             /\ \A i \in 1..Len(m) :
                  i \in 1..Len(fields) \/ \E j \in 1..Len(new) : i = Len(fields) + j
<1> DEFINE new == NewDefs(fields, defs)
           a == [i \in DOMAIN fields |-> Redefined(fields[i], defs)]
           b == [i \in DOMAIN new |-> NewField(new[i], stores)]
<1>1. Len(fields) \in Nat /\ DOMAIN fields = 1..Len(fields)
  BY LenProperties
<1>2. /\ Len(new) \in Nat /\ DOMAIN new = 1..Len(new)
      /\ \A k \in 1..Len(new) : new[k] \in FieldDefs /\ new[k] \in ToSet(defs)
  BY NewDefsIs
<1> HIDE DEF new
<1>3. \A i \in 1..Len(fields) : Redefined(fields[i], defs) \in RTFields
  BY ElementOfSeq, RedefinedField
<1>4. ASSUME NEW k \in 1..Len(new) PROVE NewField(new[k], stores) \in RTFields
  <2>1. PICK d \in FieldDefs : d = new[k] /\ d \in ToSet(defs)
    BY <1>2
  <2>2. d.serial \in STRING /\ d.kind \in STRING
    BY DEF FieldDefs
  <2>3. (IF d.to = NoStore THEN 0 ELSE At(stores, d.to)) \in Nat
    BY <2>1 DEF StoresKnown
  <2>4. NewField(d, stores) \in RTFields
    BY <2>2, <2>3 DEF NewField, RTFields
  <2> QED BY <2>1, <2>4
<1>5. /\ a \in Seq(RTFields) /\ Len(a) = Len(fields)
      /\ \A i \in 1..Len(fields) : a[i] = Redefined(fields[i], defs)
  BY <1>1, <1>3
<1>6. /\ b \in Seq(RTFields) /\ Len(b) = Len(new)
      /\ \A j \in 1..Len(new) : b[j] = NewField(new[j], stores)
  BY <1>2, <1>4
<1>7. merge_rtschema_fields(fields, defs, stores) = a \o b
  BY DEF merge_rtschema_fields, new
<1> HIDE DEF a, b
<1>8. /\ a \o b \in Seq(RTFields) /\ Len(a \o b) = Len(a) + Len(b)
      /\ \A i \in 1..Len(a) : (a \o b)[i] = a[i]
      /\ \A j \in 1..Len(b) : (a \o b)[Len(a) + j] = b[j]
      /\ \A i \in 1..(Len(a) + Len(b)) :
           i \in 1..Len(a) \/ \E j \in 1..Len(b) : i = Len(a) + j
  <2>1. a \in Seq(RTFields) /\ b \in Seq(RTFields)
    BY <1>5, <1>6
  <2>2. PICK x \in Seq(RTFields), y \in Seq(RTFields) : x = a /\ y = b
    BY <2>1
  <2>3. /\ x \o y \in Seq(RTFields) /\ Len(x \o y) = Len(x) + Len(y)
        /\ \A i \in 1..Len(x) : (x \o y)[i] = x[i]
        /\ \A j \in 1..Len(y) : (x \o y)[Len(x) + j] = y[j]
        /\ \A i \in 1..(Len(x) + Len(y)) :
             i \in 1..Len(x) \/ \E j \in 1..Len(y) : i = Len(x) + j
    BY Appended
  <2> QED BY <2>2, <2>3
<1>9. PICK c : c = a \o b
  OBVIOUS
<1>10. /\ c \in Seq(RTFields) /\ Len(c) = Len(fields) + Len(new)
       /\ \A i \in 1..Len(fields) : c[i] = Redefined(fields[i], defs)
       /\ \A j \in 1..Len(new) : c[Len(fields) + j] = NewField(new[j], stores)
       /\ \A i \in 1..Len(c) :
            i \in 1..Len(fields) \/ \E j \in 1..Len(new) : i = Len(fields) + j
  BY <1>5, <1>6, <1>8, <1>9
<1> QED BY <1>7, <1>9, <1>10 DEF new

(* The entries e of the runtime, merged with the declarations defs.        *)
Extends(m, e, defs) ==
  LET new == NewDefs(e, defs)
  IN  /\ Len(e) \in Nat /\ DOMAIN e = 1..Len(e)
      /\ Len(new) \in Nat
      /\ Len(m) = Len(e) + Len(new) /\ DOMAIN m = 1..(Len(e) + Len(new))
      /\ \A i \in 1..Len(e) : m[i].def = DefAfter(e[i], defs) /\ m[i].serial = e[i].serial
      /\ \A j \in 1..Len(new) :
           m[Len(e) + j].def = new[j] /\ m[Len(e) + j].serial = new[j].serial
      /\ \A i \in 1..(Len(e) + Len(new)) :
           i \in 1..Len(e) \/ \E j \in 1..Len(new) : i = Len(e) + j

LEMMA ExtendsLen ==
  ASSUME NEW m, NEW e, NEW defs, Extends(m, e, defs)
  PROVE  /\ Len(e) \in Nat /\ DOMAIN e = 1..Len(e)
         /\ Len(m) \in Nat /\ DOMAIN m = 1..Len(m) /\ Len(e) <= Len(m)
         /\ Len(m) = Len(e) + Len(NewDefs(e, defs)) /\ Len(NewDefs(e, defs)) \in Nat
<1>1. PICK a \in Nat, b \in Nat : a = Len(e) /\ b = Len(NewDefs(e, defs))
  BY DEF Extends
<1>2. DOMAIN e = 1..a /\ Len(m) = a + b /\ DOMAIN m = 1..(a + b)
  BY <1>1 DEF Extends
<1> QED BY <1>1, <1>2

(* They know every declaration.                                            *)
LEMMA ExtendsKnows ==
  ASSUME NEW D, NEW defs \in Seq(D), NoDef \notin D, NEW e, NEW m, Extends(m, e, defs),
         \A i \in 1..Len(e) : e[i].def \in D \cup {NoDef},
         NEW n \in Names(defs)
  PROVE  Known(m, n) /\ At(m, n) \in 1..Len(m)
<1> DEFINE new == NewDefs(e, defs)
<1>1. /\ Len(e) \in Nat /\ DOMAIN e = 1..Len(e) /\ Len(new) \in Nat
      /\ DOMAIN m = 1..(Len(e) + Len(new)) /\ Len(m) = Len(e) + Len(new)
  BY DEF Extends
<1>2. PICK d \in ToSet(defs) : d.name = n
  BY DEF Names
<1>3. d \in D
  BY <1>2, ToSetIs
<1>4. CASE Known(e, n)
  <2>1. PICK i \in 1..Len(e) : ~is_lazy(e[i]) /\ e[i].def.name = n
    BY <1>1, <1>4 DEF Known
  <2>2. m[i].def = DefAfter(e[i], defs)
    BY <2>1 DEF Extends
  <2>3. ~is_lazy(m[i]) /\ m[i].def.name = n
    <3>1. e[i].def \in D \cup {NoDef}
      OBVIOUS
    <3> QED BY <2>1, <2>2, <3>1, DefAfterIs DEF is_lazy
  <2>4. i \in DOMAIN m
    BY <1>1
  <2> QED BY <1>1, <2>3, <2>4, KnownAt DEF Known
<1>5. CASE ~Known(e, n)
  <2>1. PICK j \in 1..Len(new) : new[j] = d
    BY <1>2, <1>5, NewDefsIs
  <2>2. m[Len(e) + j].def = d
    BY <2>1 DEF Extends
  <2>3. ~is_lazy(m[Len(e) + j]) /\ m[Len(e) + j].def.name = n
    BY <1>2, <1>3, <2>2 DEF is_lazy
  <2>4. Len(e) + j \in DOMAIN m
    BY <1>1
  <2> QED BY <1>1, <2>3, <2>4, KnownAt DEF Known
<1> QED BY <1>4, <1>5

OpenStores == [serial : STRING, klass : Nat \cup {-1}, def : StoreDefs \cup {NoDef},
               nelem : Nat, lazy : Seq(Items)]

LEMMA MergedStores ==
  ASSUME NEW r \in RTs, NEW S, GoodSchema(S)
  PROVE  LET m == MergeStores(r, S)
             new == NewDefs(r.stores, S.stores)
         IN  /\ m \in Seq(OpenStores)
             /\ \A i \in 1..Len(r.stores) : m[i] = Redefined(r.stores[i], S.stores)
             /\ \A j \in 1..Len(new) : m[Len(r.stores) + j] = NewStore(new[j])
             /\ Extends(m, r.stores, S.stores)
             /\ StoresKnown(m, S)
<1> DEFINE e == r.stores
           defs == S.stores
           m == MergeStores(r, S)
           new == NewDefs(e, defs)
           a == [i \in DOMAIN e |-> Redefined(e[i], defs)]
           b == [i \in DOMAIN new |-> NewStore(new[i])]
<1>1. /\ e \in Seq(RTStores) /\ Len(e) \in Nat /\ DOMAIN e = 1..Len(e)
      /\ \A i \in 1..Len(e) : e[i] \in RTStores
  BY RTFacts
<1>2. defs \in Seq(StoreDefs)
  BY StoreFacts
<1>3. m = a \o b
  BY DEF MergeStores
<1> HIDE DEF e, defs, m
<1>4. /\ Len(new) \in Nat /\ DOMAIN new = 1..Len(new)
      /\ \A k \in 1..Len(new) : new[k] \in StoreDefs
  BY <1>2, NewDefsIs
<1> HIDE DEF new
<1>5. ASSUME NEW i \in 1..Len(e)
      PROVE  LET y == Redefined(e[i], defs)
             IN  y \in OpenStores /\ y.serial = e[i].serial /\ y.def = DefAfter(e[i], defs)
  <2>1. PICK x \in RTStores : x = e[i]
    BY <1>1
  <2>2. LET y == Redefined(x, defs)
        IN  y \in RTStores /\ y.serial = x.serial /\ y.def = DefAfter(x, defs)
    BY <1>2, RedefinedStore
  <2>3. PICK y : y = Redefined(x, defs)
    OBVIOUS
  <2>4. y \in OpenStores
    BY <2>2, <2>3 DEF RTStores, OpenStores
  <2> QED BY <2>1, <2>2, <2>3, <2>4
<1>6. ASSUME NEW k \in 1..Len(new)
      PROVE  LET y == NewStore(new[k])
             IN  y \in OpenStores /\ y.serial = new[k].serial /\ y.def = new[k]
  <2>1. PICK d \in StoreDefs : d = new[k]
    BY <1>4
  <2>2. <<>> \in Seq(Items)
    BY EmptySeq
  <2>3. NewStore(d) \in OpenStores
    BY <2>2 DEF NewStore, OpenStores, StoreDefs
  <2>4. NewStore(d).serial = d.serial /\ NewStore(d).def = d
    BY DEF NewStore
  <2> QED BY <2>1, <2>3, <2>4
<1>7. /\ a \in Seq(OpenStores) /\ Len(a) = Len(e)
      /\ \A i \in 1..Len(e) : a[i] = Redefined(e[i], defs)
  BY <1>1, <1>5
<1>8. /\ b \in Seq(OpenStores) /\ Len(b) = Len(new)
      /\ \A j \in 1..Len(new) : b[j] = NewStore(new[j])
  BY <1>4, <1>6
<1> HIDE DEF a, b
<1>9. /\ a \o b \in Seq(OpenStores) /\ Len(a \o b) = Len(a) + Len(b)
      /\ DOMAIN (a \o b) = 1..(Len(a) + Len(b))
      /\ \A i \in 1..Len(a) : (a \o b)[i] = a[i]
      /\ \A j \in 1..Len(b) : (a \o b)[Len(a) + j] = b[j]
      /\ \A i \in 1..(Len(a) + Len(b)) :
           i \in 1..Len(a) \/ \E j \in 1..Len(b) : i = Len(a) + j
  <2>1. a \in Seq(OpenStores) /\ b \in Seq(OpenStores)
    BY <1>7, <1>8
  <2> QED BY <2>1, Appended
<1>10. /\ m \in Seq(OpenStores) /\ Len(m) = Len(e) + Len(new)
       /\ DOMAIN m = 1..(Len(e) + Len(new))
       /\ \A i \in 1..Len(e) : m[i] = Redefined(e[i], defs)
       /\ \A j \in 1..Len(new) : m[Len(e) + j] = NewStore(new[j])
       /\ \A i \in 1..(Len(e) + Len(new)) :
            i \in 1..Len(e) \/ \E j \in 1..Len(new) : i = Len(e) + j
  BY <1>3, <1>7, <1>8, <1>9
<1>11. Extends(m, e, defs)
  BY <1>1, <1>4, <1>5, <1>6, <1>10 DEF Extends, new
<1>12. StoresKnown(m, S)
  <2>1. \A i \in 1..Len(e) : e[i].def \in StoreDefs \cup {NoDef}
    BY <1>1 DEF RTStores
  <2>2. ASSUME NEW n \in Names(defs) PROVE Known(m, n) /\ At(m, n) \in 1..Len(m)
    BY <1>2, <1>11, <2>1, NothingAssumption, ExtendsKnows
  <2>3. Len(m) \in Nat
    BY <1>1, <1>4, <1>10
  <2> QED BY <2>2, <2>3 DEF StoresKnown, defs
<1> QED BY <1>10, <1>11, <1>12 DEF m, e, defs, new

LEMMA MergeKlassIs ==
  ASSUME NEW k \in RTKlasses, NEW isDoc \in BOOLEAN, NEW S, GoodSchema(S),
         NEW stores, StoresKnown(stores, S),
         isDoc => ~is_lazy(k) /\ IsMeta(k.def)
  PROVE  LET q == MergeKlass(k, isDoc, S, stores)
         IN  /\ q \in RTKlasses /\ q.serial = k.serial /\ q.def = DefAfter(k, S.klasses)
             /\ q.fields = IF isDoc THEN merge_rtschema_fields(k.fields, S.doc, stores)
                           ELSE IF ~is_lazy(k) /\ k.def.name \in Names(S.klasses)
                           THEN merge_rtschema_fields(k.fields, DefAfter(k, S.klasses).fields, stores)
                           ELSE k.fields
<1> DEFINE q == MergeKlass(k, isDoc, S, stores)
<1>1. k.fields \in Seq(RTFields)
  BY DEF RTKlasses
<1>2. S.klasses \in Seq(KlassDefs) /\ "Doc" \notin Names(S.klasses)
  BY KlassFacts
<1>3. CASE isDoc
  <2> DEFINE fs == merge_rtschema_fields(k.fields, S.doc, stores)
  <2>1. fs \in Seq(RTFields)
    BY <1>1, DocFacts, MergedFields
  <2>2. q = [k EXCEPT !.fields = fs]
    BY <1>3 DEF MergeKlass
  <2> HIDE DEF fs, q
  <2>3. q \in RTKlasses /\ q.serial = k.serial /\ q.def = k.def /\ q.fields = fs
    BY <2>1, <2>2 DEF RTKlasses
  <2>4. DefAfter(k, S.klasses) = k.def
    BY <1>2, <1>3 DEF DefAfter, IsMeta
  <2> QED BY <1>3, <2>3, <2>4 DEF fs, q
<1>4. CASE ~isDoc /\ ~is_lazy(k) /\ k.def.name \in Names(S.klasses)
  <2> DEFINE d == DefAfter(k, S.klasses)
             fs == merge_rtschema_fields(k.fields, d.fields, stores)
             x == Redefined(k, S.klasses)
  <2>1. d \in ToSet(S.klasses) /\ d = Named(S.klasses, k.def.name)
    <3>1. k.def \in KlassDefs \cup {NoDef}
      BY DEF RTKlasses
    <3> QED BY <1>2, <1>4, <3>1, NothingAssumption, DefAfterIs DEF DefAfter
  <2>2. x \in RTKlasses /\ x.serial = k.serial /\ x.def = d
    BY <1>2, RedefinedKlass
  <2>3. q = [x EXCEPT !.fields = fs]
    BY <1>4, <2>1 DEF MergeKlass
  <2> HIDE DEF d
  <2>4. fs \in Seq(RTFields)
    <3>1. d.fields \in Seq(FieldDefs)
          /\ \A f \in ToSet(d.fields) : f.to # NoStore => f.to \in Names(S.stores)
      BY <2>1, KlassFacts
    <3> QED BY <1>1, <3>1, MergedFields
  <2> HIDE DEF fs, x, q
  <2>5. q \in RTKlasses /\ q.serial = k.serial /\ q.def = d /\ q.fields = fs
    BY <2>2, <2>3, <2>4 DEF RTKlasses
  <2> QED BY <1>4, <2>5 DEF d, fs, q
<1>5. CASE ~isDoc /\ ~(~is_lazy(k) /\ k.def.name \in Names(S.klasses))
  <2>1. q = k
    BY <1>5 DEF MergeKlass
  <2>2. DefAfter(k, S.klasses) = k.def
    BY <1>5 DEF DefAfter
  <2> HIDE DEF q
  <2>3. q \in RTKlasses /\ q.serial = k.serial /\ q.def = DefAfter(k, S.klasses) /\ q.fields = k.fields
    BY <2>1, <2>2
  <2> QED BY <1>5, <2>3 DEF q
<1> QED BY <1>3, <1>4, <1>5

LEMMA NewKlassIs ==
  ASSUME NEW S, GoodSchema(S), NEW d \in ToSet(S.klasses), NEW stores, StoresKnown(stores, S)
  PROVE  LET q == NewKlass(d, stores)
         IN  /\ q \in RTKlasses /\ q.serial = d.serial /\ q.def = d
             /\ q.fields = merge_rtschema_fields(<<>>, d.fields, stores)
<1> DEFINE fs == merge_rtschema_fields(<<>>, d.fields, stores)
           q == NewKlass(d, stores)
<1>1. /\ d \in KlassDefs /\ d.fields \in Seq(FieldDefs) /\ d.serial \in STRING
      /\ \A f \in ToSet(d.fields) : f.to # NoStore => f.to \in Names(S.stores)
  BY KlassFacts DEF KlassDefs
<1>2. fs \in Seq(RTFields)
  <2>1. <<>> \in Seq(RTFields)
    BY EmptySeq
  <2> QED BY <1>1, <2>1, MergedFields
<1>3. q = [serial |-> d.serial, def |-> d, fields |-> fs]
  BY DEF NewKlass
<1> HIDE DEF fs, q
<1>4. q \in RTKlasses /\ q.serial = d.serial /\ q.def = d /\ q.fields = fs
  BY <1>1, <1>2, <1>3 DEF RTKlasses
<1> QED BY <1>4 DEF fs, q

LEMMA MergedKlasses ==
  ASSUME NEW r \in RTs, NEW S, GoodSchema(S), NEW stores, StoresKnown(stores, S),
         r.doc \in 1..Len(r.klasses),
         ~is_lazy(r.klasses[r.doc]) /\ IsMeta(r.klasses[r.doc].def)
  PROVE  LET m == MergeKlasses(r, S, stores)
             new == NewDefs(r.klasses, S.klasses)
         IN  /\ m \in Seq(RTKlasses)
             /\ \A i \in 1..Len(r.klasses) : m[i] = MergeKlass(r.klasses[i], i = r.doc, S, stores)
             /\ \A j \in 1..Len(new) : m[Len(r.klasses) + j] = NewKlass(new[j], stores)
             /\ Extends(m, r.klasses, S.klasses)
             /\ \A n \in Names(S.klasses) : Known(m, n) /\ At(m, n) \in 1..Len(m)
<1> DEFINE e == r.klasses
           defs == S.klasses
           m == MergeKlasses(r, S, stores)
           new == NewDefs(e, defs)
           a == [i \in DOMAIN e |-> MergeKlass(e[i], i = r.doc, S, stores)]
           b == [i \in DOMAIN new |-> NewKlass(new[i], stores)]
<1>1. /\ e \in Seq(RTKlasses) /\ Len(e) \in Nat /\ DOMAIN e = 1..Len(e)
      /\ \A i \in 1..Len(e) : e[i] \in RTKlasses
  BY RTFacts
<1>2. defs \in Seq(KlassDefs)
  BY KlassFacts
<1>3. m = a \o b
  BY DEF MergeKlasses
<1>4. /\ Len(new) \in Nat /\ DOMAIN new = 1..Len(new)
      /\ \A k \in 1..Len(new) : new[k] \in ToSet(defs)
  BY <1>2, NewDefsIs
<1> HIDE DEF m, new
<1>5. ASSUME NEW i \in 1..Len(e)
      PROVE  LET y == MergeKlass(e[i], i = r.doc, S, stores)
             IN  y \in RTKlasses /\ y.serial = e[i].serial /\ y.def = DefAfter(e[i], defs)
  <2>1. PICK k \in RTKlasses, isDoc \in BOOLEAN : k = e[i] /\ isDoc = (i = r.doc)
    BY <1>1
  <2>2. isDoc => ~is_lazy(k) /\ IsMeta(k.def)
    BY <2>1
  <2>3. LET y == MergeKlass(k, isDoc, S, stores)
        IN  y \in RTKlasses /\ y.serial = k.serial /\ y.def = DefAfter(k, defs)
    BY <2>2, MergeKlassIs
  <2> QED BY <2>1, <2>3
<1>6. ASSUME NEW k \in 1..Len(new)
      PROVE  LET y == NewKlass(new[k], stores)
             IN  y \in RTKlasses /\ y.serial = new[k].serial /\ y.def = new[k]
  BY <1>4, NewKlassIs
<1> HIDE DEF e, defs
<1>7. /\ a \in Seq(RTKlasses) /\ Len(a) = Len(e)
      /\ \A i \in 1..Len(e) : a[i] = MergeKlass(e[i], i = r.doc, S, stores)
  BY <1>1, <1>5
<1>8. /\ b \in Seq(RTKlasses) /\ Len(b) = Len(new)
      /\ \A j \in 1..Len(new) : b[j] = NewKlass(new[j], stores)
  BY <1>4, <1>6
<1> HIDE DEF a, b
<1>9. /\ a \o b \in Seq(RTKlasses) /\ Len(a \o b) = Len(a) + Len(b)
      /\ DOMAIN (a \o b) = 1..(Len(a) + Len(b))
      /\ \A i \in 1..Len(a) : (a \o b)[i] = a[i]
      /\ \A j \in 1..Len(b) : (a \o b)[Len(a) + j] = b[j]
      /\ \A i \in 1..(Len(a) + Len(b)) :
           i \in 1..Len(a) \/ \E j \in 1..Len(b) : i = Len(a) + j
  <2>1. a \in Seq(RTKlasses) /\ b \in Seq(RTKlasses)
    BY <1>7, <1>8
  <2> QED BY <2>1, Appended
<1>10. /\ m \in Seq(RTKlasses) /\ Len(m) = Len(e) + Len(new)
       /\ DOMAIN m = 1..(Len(e) + Len(new))
       /\ \A i \in 1..Len(e) : m[i] = MergeKlass(e[i], i = r.doc, S, stores)
       /\ \A j \in 1..Len(new) : m[Len(e) + j] = NewKlass(new[j], stores)
       /\ \A i \in 1..(Len(e) + Len(new)) :
            i \in 1..Len(e) \/ \E j \in 1..Len(new) : i = Len(e) + j
  <2>1. /\ m \in Seq(RTKlasses) /\ Len(m) = Len(e) + Len(new)
        /\ DOMAIN m = 1..(Len(e) + Len(new))
        /\ \A i \in 1..(Len(e) + Len(new)) :
             i \in 1..Len(e) \/ \E j \in 1..Len(new) : i = Len(e) + j
    BY <1>3, <1>7, <1>8, <1>9
  <2>2. ASSUME NEW i \in 1..Len(e) PROVE m[i] = a[i] /\ i \in 1..Len(a)
    BY <1>3, <1>7, <1>9
  <2>3. ASSUME NEW j \in 1..Len(new) PROVE m[Len(e) + j] = b[j]
    BY <1>3, <1>7, <1>8, <1>9
  <2>4. \A i \in 1..Len(e) : m[i] = MergeKlass(e[i], i = r.doc, S, stores)
    BY <1>7, <2>2
  <2>5. \A j \in 1..Len(new) : m[Len(e) + j] = NewKlass(new[j], stores)
    BY <1>8, <2>3
  <2> QED BY <2>1, <2>4, <2>5
<1>11. Extends(m, e, defs)
  BY <1>1, <1>4, <1>5, <1>6, <1>10 DEF Extends, new
<1>12. ASSUME NEW n \in Names(defs) PROVE Known(m, n) /\ At(m, n) \in 1..Len(m)
  <2>1. \A i \in 1..Len(e) : e[i].def \in KlassDefs \cup {NoDef}
    BY <1>1 DEF RTKlasses
  <2> QED BY <1>2, <1>11, <2>1, NothingAssumption, ExtendsKnows
<1> QED BY <1>10, <1>11, <1>12 DEF m, e, defs, new

(* What the merge makes of a runtime.                                      *)
LEMMA MergeIs ==
  ASSUME NEW r \in RTs, NEW S, GoodSchema(S),
         r.doc \in 1..Len(r.klasses),
         ~is_lazy(r.klasses[r.doc]) /\ IsMeta(r.klasses[r.doc].def)
  PROVE  LET q == merge_rt(r, S)
             stores == MergeStores(r, S)
             newK == NewDefs(r.klasses, S.klasses)
             newS == NewDefs(r.stores, S.stores)
         IN  /\ q \in RTs /\ q.doc = r.doc /\ q.docLazy = r.docLazy
             /\ StoresKnown(stores, S) /\ Extends(stores, r.stores, S.stores)
             /\ q.klasses = MergeKlasses(r, S, stores)
             /\ \A k \in 1..Len(r.klasses) :
                  q.klasses[k] = MergeKlass(r.klasses[k], k = r.doc, S, stores)
             /\ \A j \in 1..Len(newK) : q.klasses[Len(r.klasses) + j] = NewKlass(newK[j], stores)
             /\ Extends(q.klasses, r.klasses, S.klasses)
             /\ \A n \in Names(S.klasses) : Known(q.klasses, n) /\ At(q.klasses, n) \in 1..Len(q.klasses)
             /\ Extends(q.stores, r.stores, S.stores)
             /\ \A i \in 1..Len(r.stores) : q.stores[i] = Redefined(r.stores[i], S.stores)
             /\ \A j \in 1..Len(newS) :
                  LET s == q.stores[Len(r.stores) + j]
                  IN  s.klass = At(q.klasses, newS[j].klass) - 1 /\ s.nelem = 0 /\ s.lazy = <<>>
             /\ \A i \in 1..Len(q.stores) : stores[i].def = q.stores[i].def
<1> DEFINE q == merge_rt(r, S)
           ss == MergeStores(r, S)
           ks == MergeKlasses(r, S, ss)
           e == r.stores
           new == NewDefs(e, S.stores)
           bs == [i \in DOMAIN ss |-> BackFilled(ss[i], ks)]
<1>1. /\ ss \in Seq(OpenStores) /\ Extends(ss, e, S.stores) /\ StoresKnown(ss, S)
      /\ \A i \in 1..Len(e) : ss[i] = Redefined(e[i], S.stores)
      /\ \A j \in 1..Len(new) : ss[Len(e) + j] = NewStore(new[j])
  BY MergedStores
<1>2. /\ ks \in Seq(RTKlasses)
      /\ \A i \in 1..Len(r.klasses) : ks[i] = MergeKlass(r.klasses[i], i = r.doc, S, ss)
      /\ \A j \in 1..Len(NewDefs(r.klasses, S.klasses)) :
           ks[Len(r.klasses) + j] = NewKlass(NewDefs(r.klasses, S.klasses)[j], ss)
      /\ Extends(ks, r.klasses, S.klasses)
      /\ \A n \in Names(S.klasses) : Known(ks, n) /\ At(ks, n) \in 1..Len(ks)
  BY <1>1, MergedKlasses
<1>3. q = [r EXCEPT !.klasses = ks, !.stores = bs]
  BY DEF merge_rt
<1>4. /\ e \in Seq(RTStores) /\ Len(e) \in Nat /\ DOMAIN e = 1..Len(e)
      /\ \A i \in 1..Len(e) : e[i] \in RTStores /\ e[i].klass \in Nat
  BY RTFacts
<1>5. /\ Len(new) \in Nat
      /\ \A j \in 1..Len(new) : new[j] \in StoreDefs /\ new[j] \in ToSet(S.stores)
  BY StoreFacts, NewDefsIs
<1> HIDE DEF q, ss, ks, new
<1>6. /\ Len(ss) = Len(e) + Len(new) /\ DOMAIN ss = 1..(Len(e) + Len(new))
      /\ \A i \in 1..(Len(e) + Len(new)) :
           i \in 1..Len(e) \/ \E j \in 1..Len(new) : i = Len(e) + j
  BY <1>1 DEF Extends, new
<1>7. ASSUME NEW i \in 1..Len(e)
      PROVE  BackFilled(ss[i], ks) = Redefined(e[i], S.stores) /\ BackFilled(ss[i], ks) \in RTStores
             /\ ss[i].def = BackFilled(ss[i], ks).def /\ ss[i].serial = BackFilled(ss[i], ks).serial
  <2>1. ss[i] = Redefined(e[i], S.stores)
    BY <1>1
  <2>2. ss[i] \in RTStores /\ ss[i].klass = e[i].klass /\ e[i].klass \in Nat
    BY <1>4, <2>1, StoreFacts, RedefinedStore
  <2>3. ss[i].klass # -1
    BY <2>2
  <2> QED BY <2>1, <2>2, <2>3 DEF BackFilled
<1>8. ASSUME NEW j \in 1..Len(new)
      PROVE  LET s == BackFilled(ss[Len(e) + j], ks)
             IN  /\ s \in RTStores /\ s.def = new[j] /\ s.serial = new[j].serial
                 /\ s.klass = At(ks, new[j].klass) - 1 /\ s.nelem = 0 /\ s.lazy = <<>>
  <2>1. PICK d \in StoreDefs : d = new[j] /\ d \in ToSet(S.stores)
    BY <1>5
  <2>2. PICK x : x = NewStore(d)
    OBVIOUS
  <2>3. x = [serial |-> d.serial, def |-> d, klass |-> -1, nelem |-> 0, lazy |-> <<>>]
    BY <2>2 DEF NewStore
  <2>4. ss[Len(e) + j] = x
    BY <1>1, <2>1, <2>2
  <2>5. At(ks, d.klass) \in 1..Len(ks)
    BY <1>2, <2>1, StoreFacts
  <2>6. Len(ks) \in Nat
    BY <1>2, LenProperties
  <2>7. At(ks, d.klass) - 1 \in Nat
    BY <2>5, <2>6
  <2>8. BackFilled(x, ks) = [x EXCEPT !.klass = At(ks, d.klass) - 1]
    BY <2>3 DEF BackFilled
  <2>9. BackFilled(x, ks) = [serial |-> d.serial, def |-> d, klass |-> At(ks, d.klass) - 1,
                             nelem |-> 0, lazy |-> <<>>]
    BY <2>3, <2>8
  <2>10. PICK s : s = BackFilled(x, ks)
    OBVIOUS
  <2>11. <<>> \in Seq(Items) /\ d.serial \in STRING
    BY EmptySeq DEF StoreDefs
  <2>12. /\ s \in RTStores /\ s.def = d /\ s.serial = d.serial
         /\ s.klass = At(ks, d.klass) - 1 /\ s.nelem = 0 /\ s.lazy = <<>>
    BY <2>7, <2>9, <2>10, <2>11 DEF RTStores
  <2> QED BY <2>1, <2>4, <2>10, <2>12
<1>9. \A i \in 1..(Len(e) + Len(new)) : BackFilled(ss[i], ks) \in RTStores
  BY <1>6, <1>7, <1>8
<1>10. /\ bs \in Seq(RTStores) /\ Len(bs) = Len(e) + Len(new) /\ DOMAIN bs = 1..(Len(e) + Len(new))
       /\ \A i \in 1..(Len(e) + Len(new)) : bs[i] = BackFilled(ss[i], ks)
  BY <1>4, <1>5, <1>6, <1>9
<1> HIDE DEF bs
<1>11. q.klasses = ks /\ q.stores = bs /\ q.doc = r.doc /\ q.docLazy = r.docLazy /\ q \in RTs
  BY <1>2, <1>3, <1>10 DEF RTs
<1>12. \A i \in 1..Len(e) : i \in 1..(Len(e) + Len(new)) /\ bs[i] = Redefined(e[i], S.stores)
                            /\ bs[i].def = ss[i].def /\ bs[i].serial = ss[i].serial
  BY <1>4, <1>5, <1>7, <1>10
<1>13. ASSUME NEW j \in 1..Len(new)
       PROVE  LET s == bs[Len(e) + j]
              IN  /\ s.def = new[j] /\ s.serial = new[j].serial
                  /\ s.klass = At(ks, new[j].klass) - 1 /\ s.nelem = 0 /\ s.lazy = <<>>
  <2>1. Len(e) + j \in 1..(Len(e) + Len(new))
    BY <1>4, <1>5
  <2> QED BY <1>8, <1>10, <2>1
<1>14. Extends(bs, e, S.stores)
  BY <1>1, <1>10, <1>12, <1>13 DEF Extends, new
<1>15. ASSUME NEW i \in 1..Len(bs) PROVE ss[i].def = bs[i].def
  <2>1. i \in 1..(Len(e) + Len(new))
    BY <1>10
  <2>2. CASE i \in 1..Len(e)
    BY <1>12, <2>2
  <2>3. CASE \E j \in 1..Len(new) : i = Len(e) + j
    <3>1. PICK j \in 1..Len(new) : i = Len(e) + j
      BY <2>3
    <3>2. ss[i].def = new[j]
      BY <1>1, <3>1 DEF Extends, new
    <3> QED BY <1>13, <3>1, <3>2
  <2> QED BY <1>6, <2>1, <2>2, <2>3
<1>16. \A i \in 1..Len(q.stores) : ss[i].def = q.stores[i].def
  BY <1>11, <1>15
<1> QED BY <1>1, <1>2, <1>11, <1>12, <1>13, <1>14, <1>16, Zenon DEF ss, ks, q, new

(* The stores of r are those of q, which may have more.                    *)
Grown(r, q) ==
  /\ Len(r.stores) \in Nat /\ Len(q.stores) \in Nat /\ Len(r.stores) <= Len(q.stores)
  /\ \A i \in 1..Len(r.stores) :
       /\ is_lazy(q.stores[i]) <=> is_lazy(r.stores[i])
       /\ ~is_lazy(r.stores[i]) => q.stores[i].def.name = r.stores[i].def.name

LEMMA GrownField ==
  ASSUME NEW r, NEW q, Grown(r, q), NEW f \in RTFields, FieldShape(r, f),
         NEW g \in RTFields, g.to = f.to, g.kind = f.kind,
         is_lazy(g) <=> is_lazy(f),
         ~is_lazy(f) => g.def.to = f.def.to /\ g.def.kind = f.def.kind
  PROVE  FieldShape(q, g)
<1>1. f.to \in Nat /\ f.to <= Len(r.stores)
  BY DEF RTFields, FieldShape
<1>2. f.to # 0 => f.to \in 1..Len(r.stores)
  BY <1>1 DEF Grown
<1>3. g.to <= Len(q.stores)
  BY <1>1 DEF Grown
<1>4. ASSUME ~is_lazy(g)
      PROVE  /\ g.to # 0 <=> g.def.to # NoStore
             /\ g.kind = g.def.kind
             /\ g.to # 0 => ~is_lazy(q.stores[g.to]) /\ q.stores[g.to].def.name = g.def.to
  BY <1>2, <1>4 DEF FieldShape, Grown
<1> QED BY <1>3, <1>4 DEF FieldShape

(* The stores that the merge gives to the new fields.                      *)
StoresIn(stores, q) ==
  /\ Len(stores) \in Nat /\ DOMAIN stores = 1..Len(stores) /\ Len(stores) = Len(q.stores)
  /\ \A i \in 1..Len(stores) : stores[i].def = q.stores[i].def

LEMMA MergedFieldShape ==
  ASSUME NEW r, NEW q, Grown(r, q), NEW S, NEW stores, StoresKnown(stores, S), StoresIn(stores, q),
         NEW fields, NEW before \in Seq(FieldDefs), NEW after \in Seq(FieldDefs),
         FieldsShape(r, fields, before),
         Unambiguous(before), Unambiguous(after), SameButSerials(before, after),
         \A d \in ToSet(after) : d.to # NoStore => d.to \in Names(S.stores)
  PROVE  LET m == merge_rtschema_fields(fields, after, stores)
         IN  /\ FieldsShape(q, m, after)
             /\ Extends(m, fields, after)
             /\ \A n \in Names(after) : Known(m, n)
<1> DEFINE m == merge_rtschema_fields(fields, after, stores)
           new == NewDefs(fields, after)
<1>1. /\ fields \in Seq(RTFields)
      /\ \A i \in 1..Len(fields) : /\ FieldShape(r, fields[i])
                                   /\ ~is_lazy(fields[i]) => fields[i].def \in ToSet(before)
  BY DEF FieldsShape
<1>2. /\ m \in Seq(RTFields) /\ Len(m) = Len(fields) + Len(new)
      /\ \A i \in 1..Len(fields) : m[i] = Redefined(fields[i], after)
      /\ \A j \in 1..Len(new) : m[Len(fields) + j] = NewField(new[j], stores)
      /\ \A i \in 1..Len(m) :
           i \in 1..Len(fields) \/ \E j \in 1..Len(new) : i = Len(fields) + j
  BY <1>1, MergedFields
<1>3. /\ Len(new) \in Nat
      /\ \A j \in 1..Len(new) : new[j] \in FieldDefs /\ new[j] \in ToSet(after)
  BY NewDefsIs
<1>4. /\ Len(fields) \in Nat /\ DOMAIN fields = 1..Len(fields)
      /\ \A i \in 1..Len(fields) : fields[i] \in RTFields /\ fields[i].def \in FieldDefs \cup {NoDef}
  <2>1. \A i \in 1..Len(fields) : fields[i] \in RTFields
    BY <1>1, ElementOfSeq
  <2> QED BY <1>1, <2>1, LenProperties DEF RTFields
<1> HIDE DEF m, new
<1>5. ASSUME NEW i \in 1..Len(fields)
      PROVE  /\ FieldShape(q, m[i])
             /\ ~is_lazy(m[i]) => m[i].def \in ToSet(after)
             /\ m[i].def = DefAfter(fields[i], after) /\ m[i].serial = fields[i].serial
  <2>1. PICK f \in RTFields : f = fields[i]
    BY <1>4
  <2>2. PICK g : g = m[i]
    OBVIOUS
  <2>3. /\ g \in RTFields /\ g.serial = f.serial /\ g.to = f.to /\ g.kind = f.kind
        /\ g.def = DefAfter(f, after)
    BY <1>2, <2>1, <2>2, RedefinedField
  <2>4. FieldShape(r, f) /\ (~is_lazy(f) => f.def \in ToSet(before))
    <3>1. FieldShape(r, fields[i]) /\ (~is_lazy(fields[i]) => fields[i].def \in ToSet(before))
      BY <1>1
    <3> QED BY <2>1, <3>1
  <2>5. ASSUME ~is_lazy(f)
        PROVE  g.def \in ToSet(after) /\ g.def.to = f.def.to /\ g.def.kind = f.def.kind
    <3>1. f.def.name \in Names(before) /\ Named(before, f.def.name) = f.def
      BY <2>4, <2>5, NamedIs
    <3>2. f.def.name \in Names(after) /\ g.def = Named(after, f.def.name)
      BY <2>3, <2>5, <3>1, SameFields DEF DefAfter
    <3>3. g.def.to = f.def.to /\ g.def.kind = f.def.kind
      BY <3>1, <3>2, SameFields
    <3> QED BY <3>2, <3>3, NamedOf
  <2>6. is_lazy(g) <=> is_lazy(f)
    BY <1>4, <2>1, <2>3, NothingAssumption, DefAfterIs DEF is_lazy
  <2>7. FieldShape(q, g)
    BY <2>3, <2>4, <2>5, <2>6, GrownField
  <2> QED BY <2>1, <2>2, <2>3, <2>5, <2>6, <2>7
<1>6. ASSUME NEW j \in 1..Len(new)
      PROVE  LET g == m[Len(fields) + j]
             IN  /\ FieldShape(q, g) /\ g.def = new[j] /\ g.serial = new[j].serial
                 /\ g.def \in ToSet(after)
  <2>1. PICK d \in FieldDefs : d = new[j] /\ d \in ToSet(after)
    BY <1>3
  <2>2. PICK g : g = NewField(d, stores)
    OBVIOUS
  <2>3. /\ g.def = d /\ g.serial = d.serial /\ g.kind = d.kind
        /\ g.to = IF d.to = NoStore THEN 0 ELSE At(stores, d.to)
    BY <2>2 DEF NewField
  <2>4. FieldShape(q, g)
    <3>1. CASE d.to = NoStore
      BY <2>3, <3>1 DEF FieldShape, StoresIn
    <3>2. CASE d.to # NoStore
      <4>1. Known(stores, d.to)
        BY <2>1, <3>2 DEF StoresKnown
      <4>2. PICK t : t = At(stores, d.to)
        OBVIOUS
      <4>3. t \in 1..Len(stores) /\ ~is_lazy(stores[t]) /\ stores[t].def.name = d.to
        BY <4>1, <4>2, KnownAt DEF StoresIn
      <4>4. g.to = t /\ t <= Len(q.stores) /\ t # 0
            /\ ~is_lazy(q.stores[t]) /\ q.stores[t].def.name = d.to
        BY <2>3, <3>2, <4>2, <4>3 DEF StoresIn, is_lazy
      <4> QED BY <2>3, <3>2, <4>4 DEF FieldShape
    <3> QED BY <3>1, <3>2
  <2> QED BY <1>2, <2>1, <2>2, <2>3, <2>4
<1>7. ASSUME NEW i \in 1..Len(m)
      PROVE  FieldShape(q, m[i]) /\ (~is_lazy(m[i]) => m[i].def \in ToSet(after))
  BY <1>2, <1>5, <1>6
<1>8. Extends(m, fields, after)
  <2>1. Len(m) = Len(fields) + Len(new) /\ DOMAIN m = 1..(Len(fields) + Len(new))
    BY <1>2, LenProperties
  <2> QED BY <1>2, <1>3, <1>4, <1>5, <1>6, <2>1 DEF Extends, new
<1>9. ASSUME NEW n \in Names(after) PROVE Known(m, n)
  BY <1>4, <1>8, NothingAssumption, ExtendsKnows
<1> QED BY <1>2, <1>7, <1>8, <1>9 DEF m, FieldsShape

(* Every declaration of the schema is known.                               *)
IsDeclared(r, S, k) ==
  k = r.doc \/ (~is_lazy(r.klasses[k]) /\ r.klasses[k].def \in ToSet(S.klasses))

AllKnown(r, S) ==
  /\ \A n \in Names(S.stores) : Known(r.stores, n)
  /\ \A n \in Names(S.klasses) : Known(r.klasses, n)
  /\ \A k \in 1..Len(r.klasses) :
       IsDeclared(r, S, k) => \A n \in Names(DefsOf(r, S, k)) : Known(r.klasses[k].fields, n)

LEMMA MergeGrows ==
  ASSUME NEW r, NEW S, RTShape(r, S), NEW T, GoodSchema(T)
  PROVE  LET q == merge_rt(r, T)
         IN  /\ Grown(r, q)
             /\ StoresIn(MergeStores(r, T), q) /\ StoresKnown(MergeStores(r, T), T)
             /\ Len(r.klasses) <= Len(q.klasses)
             /\ \A k \in 1..Len(r.klasses) :
                  /\ is_lazy(q.klasses[k]) <=> is_lazy(r.klasses[k])
                  /\ ~is_lazy(r.klasses[k]) => q.klasses[k].def.name = r.klasses[k].def.name
<1> DEFINE q == merge_rt(r, T)
           stores == MergeStores(r, T)
<1>1. r \in RTs /\ r.doc \in 1..Len(r.klasses)
      /\ ~is_lazy(r.klasses[r.doc]) /\ IsMeta(r.klasses[r.doc].def)
  BY DEF RTShape, KlassShape
<1>2. /\ StoresKnown(stores, T) /\ Extends(stores, r.stores, T.stores)
      /\ Extends(q.klasses, r.klasses, T.klasses) /\ Extends(q.stores, r.stores, T.stores)
      /\ \A i \in 1..Len(q.stores) : stores[i].def = q.stores[i].def
  BY <1>1, MergeIs
<1> HIDE DEF q, stores
<1>3. StoresIn(stores, q)
  BY <1>2, ExtendsLen DEF StoresIn
<1>4. T.stores \in Seq(StoreDefs) /\ T.klasses \in Seq(KlassDefs)
  BY StoreFacts, KlassFacts
<1>5. Grown(r, q)
  <2>1. ASSUME NEW i \in 1..Len(r.stores)
        PROVE  /\ is_lazy(q.stores[i]) <=> is_lazy(r.stores[i])
               /\ ~is_lazy(r.stores[i]) => q.stores[i].def.name = r.stores[i].def.name
    <3>1. q.stores[i].def = DefAfter(r.stores[i], T.stores)
      BY <1>2 DEF Extends
    <3>2. r.stores[i].def \in StoreDefs \cup {NoDef}
      BY <1>1, RTFacts DEF RTStores
    <3> QED BY <1>4, <3>1, <3>2, NothingAssumption, DefAfterIs DEF is_lazy
  <2> QED BY <1>2, <2>1, ExtendsLen DEF Grown
<1>6. ASSUME NEW k \in 1..Len(r.klasses)
      PROVE  /\ is_lazy(q.klasses[k]) <=> is_lazy(r.klasses[k])
             /\ ~is_lazy(r.klasses[k]) => q.klasses[k].def.name = r.klasses[k].def.name
  <2>1. q.klasses[k].def = DefAfter(r.klasses[k], T.klasses)
    BY <1>2 DEF Extends
  <2>2. r.klasses[k].def \in KlassDefs \cup {NoDef}
    BY <1>1, RTFacts DEF RTKlasses
  <2> QED BY <1>4, <2>1, <2>2, NothingAssumption, DefAfterIs DEF is_lazy
<1>7. Len(r.klasses) <= Len(q.klasses)
  BY <1>2, ExtendsLen
<1> QED BY <1>2, <1>3, <1>5, <1>6, <1>7 DEF q, stores

(* What a tool with one schema has read has, merged with the schema it     *)
(* writes with, the shape of that.                                         *)
LEMMA MergeShape ==
  ASSUME NEW r, NEW S, NEW T, GoodSchema(S), GoodSchema(T), SameSchema(S, T), RTShape(r, S)
  PROVE  RTShape(merge_rt(r, T), T) /\ AllKnown(merge_rt(r, T), T)
<1> DEFINE q == merge_rt(r, T)
           stores == MergeStores(r, T)
           newK == NewDefs(r.klasses, T.klasses)
           newS == NewDefs(r.stores, T.stores)
<1>1. r \in RTs /\ r.doc \in 1..Len(r.klasses)
      /\ ~is_lazy(r.klasses[r.doc]) /\ IsMeta(r.klasses[r.doc].def)
      /\ (\A k \in 1..Len(r.klasses) : KlassShape(r, S, k))
      /\ (\A i \in 1..Len(r.stores) : StoreShape(r, S, i))
  BY DEF RTShape, KlassShape
<1>2. /\ q \in RTs /\ q.doc = r.doc
      /\ Extends(q.klasses, r.klasses, T.klasses) /\ Extends(q.stores, r.stores, T.stores)
      /\ \A n \in Names(T.klasses) : Known(q.klasses, n) /\ At(q.klasses, n) \in 1..Len(q.klasses)
      /\ \A i \in 1..Len(r.stores) : q.stores[i] = Redefined(r.stores[i], T.stores)
  <2>1. /\ q \in RTs /\ q.doc = r.doc
        /\ Extends(q.klasses, r.klasses, T.klasses) /\ Extends(q.stores, r.stores, T.stores)
    BY <1>1, MergeIs
  <2>2. \A n \in Names(T.klasses) : Known(q.klasses, n) /\ At(q.klasses, n) \in 1..Len(q.klasses)
    BY <1>1, MergeIs
  <2>3. \A i \in 1..Len(r.stores) : q.stores[i] = Redefined(r.stores[i], T.stores)
    BY <1>1, MergeIs
  <2> QED BY <2>1, <2>2, <2>3
<1>3. /\ \A k \in 1..Len(r.klasses) :
          q.klasses[k] = MergeKlass(r.klasses[k], k = r.doc, T, stores)
      /\ \A j \in 1..Len(newK) : q.klasses[Len(r.klasses) + j] = NewKlass(newK[j], stores)
  BY <1>1, MergeIs
<1>4. \A j \in 1..Len(newS) : q.stores[Len(r.stores) + j].klass = At(q.klasses, newS[j].klass) - 1
  BY <1>1, MergeIs
<1>5. /\ Grown(r, q) /\ StoresIn(stores, q) /\ StoresKnown(stores, T)
      /\ Len(r.klasses) <= Len(q.klasses)
      /\ \A k \in 1..Len(r.klasses) :
           /\ is_lazy(q.klasses[k]) <=> is_lazy(r.klasses[k])
           /\ ~is_lazy(r.klasses[k]) => q.klasses[k].def.name = r.klasses[k].def.name
  BY MergeGrows
<1>6. /\ \A j \in 1..Len(newK) : newK[j] \in ToSet(T.klasses)
      /\ \A j \in 1..Len(newS) : newS[j] \in ToSet(T.stores)
  BY StoreFacts, KlassFacts, NewDefsIs
<1>7. /\ Len(q.klasses) = Len(r.klasses) + Len(newK)
      /\ \A k \in 1..Len(q.klasses) :
           k \in 1..Len(r.klasses) \/ \E j \in 1..Len(newK) : k = Len(r.klasses) + j
      /\ Len(r.klasses) \in Nat /\ Len(newK) \in Nat
  BY <1>2 DEF Extends
<1>8. /\ Len(q.stores) = Len(r.stores) + Len(newS)
      /\ \A i \in 1..Len(q.stores) :
           i \in 1..Len(r.stores) \/ \E j \in 1..Len(newS) : i = Len(r.stores) + j
      /\ Len(r.stores) \in Nat /\ Len(newS) \in Nat
  BY <1>2 DEF Extends
<1> HIDE DEF q, stores, newK, newS
<1> DEFINE FieldsKnown(k) ==
             IsDeclared(q, T, k) => \A n \in Names(DefsOf(q, T, k)) : Known(q.klasses[k].fields, n)
<1> HIDE DEF FieldsKnown
<1>9. ASSUME NEW k \in 1..Len(r.klasses) PROVE KlassShape(q, T, k) /\ FieldsKnown(k)
  <2> DEFINE K == r.klasses[k]
             L == q.klasses[k]
  <2>1. /\ K \in RTKlasses
        /\ FieldsShape(r, K.fields, DefsOf(r, S, k))
        /\ ~is_lazy(K) => K.def \in ToSet(S.klasses) \/ IsMeta(K.def)
        /\ k = r.doc => ~is_lazy(K) /\ IsMeta(K.def)
    BY <1>1, RTFacts DEF KlassShape
  <2>2. /\ L \in RTKlasses /\ L.def = DefAfter(K, T.klasses)
        /\ L.fields = IF k = r.doc THEN merge_rtschema_fields(K.fields, T.doc, stores)
                      ELSE IF ~is_lazy(K) /\ K.def.name \in Names(T.klasses)
                      THEN merge_rtschema_fields(K.fields, L.def.fields, stores)
                      ELSE K.fields
    <3>1. PICK x \in RTKlasses, isDoc \in BOOLEAN : x = K /\ isDoc = (k = r.doc)
      BY <2>1
    <3>2. isDoc => ~is_lazy(x) /\ IsMeta(x.def)
      BY <2>1, <3>1
    <3>3. LET y == MergeKlass(x, isDoc, T, stores)
          IN  /\ y \in RTKlasses /\ y.def = DefAfter(x, T.klasses)
              /\ y.fields = IF isDoc THEN merge_rtschema_fields(x.fields, T.doc, stores)
                            ELSE IF ~is_lazy(x) /\ x.def.name \in Names(T.klasses)
                            THEN merge_rtschema_fields(x.fields, DefAfter(x, T.klasses).fields, stores)
                            ELSE x.fields
      BY <1>5, <3>2, MergeKlassIs
    <3>4. L = MergeKlass(x, isDoc, T, stores)
      BY <1>3, <3>1
    <3> HIDE DEF K, L
    <3> QED BY <3>1, <3>3, <3>4
  <2>3. is_lazy(L) <=> is_lazy(K)
    BY <1>5
  <2>4. DefsOf(q, T, k) = IF k = r.doc THEN T.doc ELSE IF is_lazy(L) THEN <<>> ELSE L.def.fields
    BY <1>2 DEF DefsOf
  <2>5. DefsOf(r, S, k) = IF k = r.doc THEN S.doc ELSE IF is_lazy(K) THEN <<>> ELSE K.def.fields
    BY DEF DefsOf
  <2>6. IsDeclared(q, T, k) <=> k = r.doc \/ (~is_lazy(L) /\ L.def \in ToSet(T.klasses))
    BY <1>2 DEF IsDeclared
  <2> DEFINE Goal == /\ FieldsShape(q, L.fields, DefsOf(q, T, k))
                     /\ FieldsKnown(k)
                     /\ k = r.doc => ~is_lazy(L) /\ IsMeta(L.def)
                     /\ ~is_lazy(L) => L.def \in ToSet(T.klasses) \/ IsMeta(L.def)
  <2> HIDE DEF K, L
  <2>7. ASSUME k = r.doc PROVE Goal
    <3>1. /\ S.doc \in Seq(FieldDefs) /\ Unambiguous(S.doc)
          /\ T.doc \in Seq(FieldDefs) /\ Unambiguous(T.doc) /\ SameButSerials(S.doc, T.doc)
          /\ \A d \in ToSet(T.doc) : d.to # NoStore => d.to \in Names(T.stores)
      BY DocFacts DEF SameSchema
    <3>2. L.fields = merge_rtschema_fields(K.fields, T.doc, stores)
      BY <2>2, <2>7
    <3>3. FieldsShape(r, K.fields, S.doc)
      BY <2>1, <2>5, <2>7
    <3>4. /\ FieldsShape(q, L.fields, T.doc)
          /\ \A n \in Names(T.doc) : Known(L.fields, n)
      BY <1>5, <3>1, <3>2, <3>3, MergedFieldShape
    <3>5. L.def = K.def
      BY <2>1, <2>2, <2>7, KlassFacts DEF DefAfter, IsMeta
    <3>6. ~is_lazy(L) /\ IsMeta(L.def)
      BY <2>1, <2>3, <2>7, <3>5
    <3>7. FieldsKnown(k)
      BY <2>4, <2>7, <3>4 DEF L, FieldsKnown
    <3>8. FieldsShape(q, L.fields, DefsOf(q, T, k))
      BY <2>4, <2>7, <3>4
    <3> QED BY <2>7, <3>6, <3>7, <3>8
  <2>8. ASSUME k # r.doc /\ ~is_lazy(K) /\ K.def \in ToSet(S.klasses) PROVE Goal
    <3>1. /\ K.def.name \in Names(S.klasses) /\ K.def = Named(S.klasses, K.def.name)
          /\ K.def.fields \in Seq(FieldDefs) /\ Unambiguous(K.def.fields)
      BY <2>8, KlassFacts, NamedIs
    <3>2. K.def.name \in Names(T.klasses) /\ L.def = Named(T.klasses, K.def.name)
      BY <2>2, <2>8, <3>1, SameKlasses DEF DefAfter
    <3>3. L.def \in ToSet(T.klasses)
      BY <3>2, KlassFacts, NamedOf
    <3>4. /\ L.def.fields \in Seq(FieldDefs) /\ Unambiguous(L.def.fields)
          /\ \A d \in ToSet(L.def.fields) : d.to # NoStore => d.to \in Names(T.stores)
      BY <3>3, KlassFacts
    <3>5. SameButSerials(K.def.fields, L.def.fields)
      BY <3>1, <3>2, SameKlasses
    <3>6. L.fields = merge_rtschema_fields(K.fields, L.def.fields, stores)
      BY <2>2, <2>8, <3>2
    <3>7. FieldsShape(r, K.fields, K.def.fields)
      BY <2>1, <2>5, <2>8
    <3>8. /\ FieldsShape(q, L.fields, L.def.fields)
          /\ \A n \in Names(L.def.fields) : Known(L.fields, n)
      BY <1>5, <3>1, <3>4, <3>5, <3>6, <3>7, MergedFieldShape
    <3>9. FieldsKnown(k)
      BY <2>3, <2>4, <2>8, <3>8 DEF L, FieldsKnown
    <3>10. FieldsShape(q, L.fields, DefsOf(q, T, k))
      BY <2>3, <2>4, <2>8, <3>8
    <3> QED BY <2>3, <2>8, <3>3, <3>9, <3>10
  <2>9. ASSUME k # r.doc /\ ~(~is_lazy(K) /\ K.def \in ToSet(S.klasses)) PROVE Goal
    <3>1. ~is_lazy(K) => IsMeta(K.def)
      BY <2>1, <2>9
    <3>2. ~is_lazy(K) => K.def.name \notin Names(T.klasses)
      BY <3>1, KlassFacts DEF IsMeta
    <3>3. L.def = K.def /\ L.fields = K.fields
      BY <2>2, <2>9, <3>2 DEF DefAfter
    <3>4. FieldsShape(q, K.fields, DefsOf(q, T, k))
      <4>1. DefsOf(q, T, k) = DefsOf(r, S, k)
        BY <2>3, <2>4, <2>5, <2>9, <3>3
      <4>2. K.fields \in Seq(RTFields)
        BY <2>1 DEF FieldsShape
      <4>3. ASSUME NEW i \in 1..Len(K.fields) PROVE FieldShape(q, K.fields[i])
        <5>1. K.fields[i] \in RTFields /\ FieldShape(r, K.fields[i])
          BY <2>1, <4>2, ElementOfSeq DEF FieldsShape
        <5> QED BY <1>5, <5>1, GrownField
      <4> QED BY <2>1, <4>1, <4>2, <4>3 DEF FieldsShape
    <3>5. ~IsDeclared(q, T, k)
      <4>1. \A d \in ToSet(T.klasses) : d.name # "Doc"
        BY KlassFacts
      <4> QED BY <2>3, <2>6, <2>9, <3>1, <3>3, <4>1 DEF IsMeta
    <3>6. FieldsKnown(k)
      BY <3>5 DEF FieldsKnown
    <3>7. FieldsShape(q, L.fields, DefsOf(q, T, k))
      BY <3>3, <3>4
    <3> QED BY <2>3, <2>9, <3>1, <3>3, <3>6, <3>7
  <2>10. Goal
    BY <2>7, <2>8, <2>9
  <2>11. KlassShape(q, T, k)
    BY <1>2, <2>10 DEF KlassShape, L
  <2> QED BY <2>10, <2>11
<1>10. ASSUME NEW j \in 1..Len(newK)
       PROVE  KlassShape(q, T, Len(r.klasses) + j) /\ FieldsKnown(Len(r.klasses) + j)
  <2> DEFINE k == Len(r.klasses) + j
             L == q.klasses[k]
  <2>1. PICK d : d = newK[j] /\ d \in ToSet(T.klasses)
    BY <1>6
  <2>2. /\ L.def = d /\ L.fields = merge_rtschema_fields(<<>>, d.fields, stores)
    BY <1>3, <1>5, <2>1, NewKlassIs
  <2>3. k # q.doc
    BY <1>1, <1>2, <1>7
  <2>4. /\ d.fields \in Seq(FieldDefs) /\ Unambiguous(d.fields) /\ d \in KlassDefs
        /\ \A f \in ToSet(d.fields) : f.to # NoStore => f.to \in Names(T.stores)
    BY <2>1, KlassFacts
  <2>5. SameButSerials(d.fields, d.fields)
    <3>1. \A i \in 1..Len(d.fields) : d.fields[i] \in FieldDefs
      BY <2>4, ElementOfSeq
    <3>2. ASSUME NEW f \in FieldDefs PROVE Alike(f, f)
      BY DEF Alike, FieldDefs
    <3>3. DOMAIN d.fields = 1..Len(d.fields)
      BY <2>4, LenProperties
    <3> QED BY <3>1, <3>2, <3>3 DEF SameButSerials
  <2>6. <<>> \in Seq(RTFields) /\ Len(<<>>) = 0
    BY EmptySeq
  <2> HIDE DEF L
  <2>7. /\ FieldsShape(q, L.fields, d.fields)
        /\ \A n \in Names(d.fields) : Known(L.fields, n)
    <3>1. FieldsShape(r, <<>>, d.fields)
      BY <2>6 DEF FieldsShape
    <3> QED BY <1>5, <2>2, <2>4, <2>5, <3>1, MergedFieldShape
  <2>8. ~is_lazy(L)
    BY <2>2, <2>4, NothingAssumption DEF is_lazy
  <2>9. DefsOf(q, T, k) = d.fields
    BY <2>2, <2>3, <2>8 DEF DefsOf, L
  <2>10. KlassShape(q, T, k)
    BY <2>1, <2>2, <2>3, <2>7, <2>8, <2>9 DEF KlassShape, L
  <2>11. FieldsKnown(k)
    BY <2>7, <2>9 DEF L, FieldsKnown
  <2> QED BY <2>10, <2>11
<1>11. ASSUME NEW k \in 1..Len(q.klasses) PROVE KlassShape(q, T, k) /\ FieldsKnown(k)
  BY <1>7, <1>9, <1>10
<1>12. ASSUME NEW i \in 1..Len(r.stores) PROVE StoreShape(q, T, i)
  <2> DEFINE s == r.stores[i]
             t == q.stores[i]
  <2>1. /\ s \in RTStores /\ s.klass \in Nat /\ s.klass < Len(r.klasses)
        /\ ~is_lazy(s) => /\ s.def \in ToSet(S.stores) /\ ~is_lazy(r.klasses[s.klass + 1])
                          /\ r.klasses[s.klass + 1].def.name = s.def.klass
    BY <1>1, RTFacts DEF StoreShape
  <2>2. t.klass = s.klass /\ t.def = DefAfter(s, T.stores)
    BY <1>2, <2>1, StoreFacts, RedefinedStore
  <2>3. is_lazy(t) <=> is_lazy(s)
    BY <1>5 DEF Grown
  <2> HIDE DEF s, t
  <2>4. t.klass < Len(q.klasses) /\ t.klass + 1 \in 1..Len(r.klasses)
    <3>1. Len(q.klasses) \in Nat
      BY <1>7
    <3> QED BY <1>5, <1>7, <2>1, <2>2, <3>1
  <2>5. ASSUME ~is_lazy(t)
        PROVE  /\ t.def \in ToSet(T.stores) /\ ~is_lazy(q.klasses[t.klass + 1])
               /\ q.klasses[t.klass + 1].def.name = t.def.klass
    <3>1. s.def \in ToSet(S.stores) /\ ~is_lazy(s)
      BY <2>1, <2>3, <2>5
    <3>2. s.def.name \in Names(S.stores) /\ Named(S.stores, s.def.name) = s.def
      BY <3>1, StoreFacts, NamedIs
    <3>3. s.def.name \in Names(T.stores) /\ t.def = Named(T.stores, s.def.name)
      BY <2>2, <3>1, <3>2, SameStores DEF DefAfter
    <3>4. t.def \in ToSet(T.stores)
      BY <3>3, StoreFacts, NamedOf
    <3>5. t.def.klass = s.def.klass
      BY <3>2, <3>3, SameStores
    <3>6. ~is_lazy(r.klasses[t.klass + 1]) /\ r.klasses[t.klass + 1].def.name = t.def.klass
      BY <2>1, <2>2, <3>1, <3>5
    <3> QED BY <1>5, <2>4, <3>4, <3>6
  <2> QED BY <2>4, <2>5 DEF StoreShape, t
<1>13. ASSUME NEW j \in 1..Len(newS) PROVE StoreShape(q, T, Len(r.stores) + j)
  <2> DEFINE t == q.stores[Len(r.stores) + j]
  <2>1. PICK d : d = newS[j] /\ d \in ToSet(T.stores)
    BY <1>6
  <2>2. t.def = d /\ t.klass = At(q.klasses, d.klass) - 1
    <3>1. t.def = newS[j]
      BY <1>2 DEF Extends, newS
    <3> QED BY <1>4, <2>1, <3>1
  <2> HIDE DEF t
  <2>3. d.klass \in Names(T.klasses)
    BY <2>1, StoreFacts
  <2>4. PICK a : a = At(q.klasses, d.klass)
    OBVIOUS
  <2>5. a \in 1..Len(q.klasses) /\ ~is_lazy(q.klasses[a]) /\ q.klasses[a].def.name = d.klass
    BY <1>2, <2>3, <2>4, KnownAt
  <2>6. t.klass + 1 = a /\ t.klass < Len(q.klasses)
    BY <1>7, <2>2, <2>4, <2>5
  <2> QED BY <2>1, <2>2, <2>5, <2>6 DEF StoreShape, t
<1>14. ASSUME NEW i \in 1..Len(q.stores) PROVE StoreShape(q, T, i)
  BY <1>8, <1>12, <1>13
<1>15. q.doc \in 1..Len(q.klasses)
  BY <1>1, <1>2, <1>5, <1>7
<1>16. RTShape(q, T)
  BY <1>2, <1>11, <1>14, <1>15 DEF RTShape
<1>17. \A n \in Names(T.stores) : Known(q.stores, n)
  <2>1. \A i \in 1..Len(r.stores) : r.stores[i].def \in StoreDefs \cup {NoDef}
    BY <1>1, RTFacts DEF RTStores
  <2> QED BY <1>2, <2>1, StoreFacts, NothingAssumption, ExtendsKnows
<1>18. AllKnown(q, T)
  BY <1>2, <1>11, <1>17 DEF AllKnown, FieldsKnown
<1> QED BY <1>16, <1>18 DEF q

-----------------------------------------------------------------------------
(* The merge of what is merged. *)

LEMMA RedefinedSame ==
  ASSUME NEW D, NEW defs \in Seq(D), Unambiguous(defs),
         NEW x \in RTFields \cup RTKlasses \cup RTStores,
         ~is_lazy(x) => x.def \in ToSet(defs) \/ x.def.name \notin Names(defs)
  PROVE  Redefined(x, defs) = x /\ DefAfter(x, defs) = x.def
<1>1. CASE ~is_lazy(x) /\ x.def.name \in Names(defs)
  <2>1. Named(defs, x.def.name) = x.def
    BY <1>1, NamedIs
  <2>2. Redefined(x, defs) = [x EXCEPT !.def = x.def]
    BY <1>1, <2>1 DEF Redefined
  <2>3. [x EXCEPT !.def = x.def] = x
    BY DEF RTFields, RTKlasses, RTStores
  <2> QED BY <1>1, <2>1, <2>2, <2>3 DEF DefAfter
<1>2. CASE ~(~is_lazy(x) /\ x.def.name \in Names(defs))
  BY <1>2 DEF Redefined, DefAfter
<1> QED BY <1>1, <1>2

LEMMA FieldsAgain ==
  ASSUME NEW r, NEW fields, NEW defs \in Seq(FieldDefs), Unambiguous(defs),
         FieldsShape(r, fields, defs), \A n \in Names(defs) : Known(fields, n),
         NEW S, NEW stores, StoresKnown(stores, S),
         \A d \in ToSet(defs) : d.to # NoStore => d.to \in Names(S.stores)
  PROVE  merge_rtschema_fields(fields, defs, stores) = fields
<1> DEFINE m == merge_rtschema_fields(fields, defs, stores)
<1>1. fields \in Seq(RTFields)
  BY DEF FieldsShape
<1>2. NewDefs(fields, defs) = <<>>
  <2>1. \A d \in ToSet(defs) : Known(fields, d.name)
    BY DEF Names
  <2> QED BY <2>1, NoNewDefs
<1>3. /\ m \in Seq(RTFields) /\ Len(m) = Len(fields) + Len(NewDefs(fields, defs))
      /\ \A i \in 1..Len(fields) : m[i] = Redefined(fields[i], defs)
  BY <1>1, MergedFields
<1> HIDE DEF m
<1>4. Len(m) = Len(fields) /\ Len(fields) \in Nat
  BY <1>1, <1>2, <1>3, LenProperties
<1>5. ASSUME NEW i \in 1..Len(fields) PROVE m[i] = fields[i]
  <2>1. fields[i] \in RTFields
    BY <1>1, ElementOfSeq
  <2>2. ~is_lazy(fields[i]) => fields[i].def \in ToSet(defs)
    BY DEF FieldsShape
  <2> QED BY <1>3, <2>1, <2>2, RedefinedSame
<1>6. m = fields
  BY <1>1, <1>3, <1>4, <1>5, SeqEqual
<1> QED BY <1>6 DEF m

LEMMA MergeAgain ==
  ASSUME NEW q, NEW T, GoodSchema(T), RTShape(q, T), AllKnown(q, T)
  PROVE  merge_rt(q, T) = q
<1> DEFINE p == merge_rt(q, T)
           stores == MergeStores(q, T)
           ks == MergeKlasses(q, T, stores)
           bs == [i \in DOMAIN stores |-> BackFilled(stores[i], ks)]
<1>1. q \in RTs /\ q.doc \in 1..Len(q.klasses)
      /\ ~is_lazy(q.klasses[q.doc]) /\ IsMeta(q.klasses[q.doc].def)
      /\ (\A k \in 1..Len(q.klasses) : KlassShape(q, T, k))
      /\ (\A i \in 1..Len(q.stores) : StoreShape(q, T, i))
  BY DEF RTShape, KlassShape
<1>2. NewDefs(q.klasses, T.klasses) = <<>> /\ NewDefs(q.stores, T.stores) = <<>>
  <2>1. \A d \in ToSet(T.klasses) : Known(q.klasses, d.name)
    BY DEF AllKnown, Names
  <2>2. \A d \in ToSet(T.stores) : Known(q.stores, d.name)
    BY DEF AllKnown, Names
  <2> QED BY <2>1, <2>2, StoreFacts, KlassFacts, NoNewDefs
<1>3. /\ p \in RTs /\ p.klasses = ks
      /\ StoresKnown(stores, T)
      /\ Extends(p.klasses, q.klasses, T.klasses) /\ Extends(p.stores, q.stores, T.stores)
  BY <1>1, MergeIs
<1>4. /\ \A k \in 1..Len(q.klasses) : p.klasses[k] = MergeKlass(q.klasses[k], k = q.doc, T, stores)
      /\ \A i \in 1..Len(q.stores) : p.stores[i] = Redefined(q.stores[i], T.stores)
  BY <1>1, MergeIs
<1>5. p = [q EXCEPT !.klasses = ks, !.stores = bs]
  BY DEF merge_rt
<1> HIDE DEF p, stores, ks, bs
<1>6. ASSUME NEW i \in 1..Len(q.stores) PROVE p.stores[i] = q.stores[i]
  <2>1. q.stores[i] \in RTStores /\ (~is_lazy(q.stores[i]) => q.stores[i].def \in ToSet(T.stores))
    BY <1>1, RTFacts DEF StoreShape
  <2> QED BY <1>4, <2>1, StoreFacts, RedefinedSame
<1>7. ASSUME NEW k \in 1..Len(q.klasses) PROVE p.klasses[k] = q.klasses[k]
  <2> DEFINE K == q.klasses[k]
  <2>1. PICK isDoc \in BOOLEAN : isDoc = (k = q.doc)
    OBVIOUS
  <2>2. /\ K \in RTKlasses /\ FieldsShape(q, K.fields, DefsOf(q, T, k))
        /\ ~is_lazy(K) => K.def \in ToSet(T.klasses) \/ IsMeta(K.def)
        /\ isDoc => ~is_lazy(K) /\ IsMeta(K.def)
    BY <1>1, <2>1, RTFacts DEF KlassShape
  <2>3. p.klasses[k] = MergeKlass(K, isDoc, T, stores)
    BY <1>4, <2>1
  <2>4. /\ IsDeclared(q, T, k) => \A n \in Names(DefsOf(q, T, k)) : Known(K.fields, n)
        /\ IsDeclared(q, T, k) <=> k = q.doc \/ (~is_lazy(K) /\ K.def \in ToSet(T.klasses))
        /\ DefsOf(q, T, k) = IF isDoc THEN T.doc ELSE IF is_lazy(K) THEN <<>> ELSE K.def.fields
    BY <2>1 DEF AllKnown, IsDeclared, DefsOf
  <2> HIDE DEF K
  <2>5. ~is_lazy(K) => K.def \in ToSet(T.klasses) \/ K.def.name \notin Names(T.klasses)
    BY <2>2, KlassFacts DEF IsMeta
  <2>6. Redefined(K, T.klasses) = K /\ DefAfter(K, T.klasses) = K.def
    BY <2>2, <2>5, KlassFacts, RedefinedSame
  <2>7. [K EXCEPT !.fields = K.fields] = K
    BY <2>2 DEF RTKlasses
  <2>8. CASE isDoc
    <3>1. merge_rtschema_fields(K.fields, T.doc, stores) = K.fields
      <4>1. FieldsShape(q, K.fields, T.doc) /\ \A n \in Names(T.doc) : Known(K.fields, n)
        BY <2>1, <2>2, <2>4, <2>8
      <4> QED BY <1>3, <4>1, DocFacts, FieldsAgain
    <3> QED BY <2>3, <2>7, <2>8, <3>1 DEF MergeKlass, K
  <2>9. CASE ~isDoc /\ ~is_lazy(K) /\ K.def.name \in Names(T.klasses)
    <3>1. K.def \in ToSet(T.klasses)
      BY <2>5, <2>9
    <3>2. merge_rtschema_fields(K.fields, K.def.fields, stores) = K.fields
      <4>1. FieldsShape(q, K.fields, K.def.fields) /\ \A n \in Names(K.def.fields) : Known(K.fields, n)
        BY <2>2, <2>4, <2>9, <3>1
      <4>2. /\ K.def.fields \in Seq(FieldDefs) /\ Unambiguous(K.def.fields)
            /\ \A d \in ToSet(K.def.fields) : d.to # NoStore => d.to \in Names(T.stores)
        BY <3>1, KlassFacts
      <4> QED BY <1>3, <4>1, <4>2, FieldsAgain
    <3>3. Named(T.klasses, K.def.name) = K.def
      BY <3>1, KlassFacts, NamedIs
    <3> QED BY <2>3, <2>6, <2>7, <2>9, <3>2, <3>3 DEF MergeKlass, K
  <2>10. CASE ~isDoc /\ ~(~is_lazy(K) /\ K.def.name \in Names(T.klasses))
    BY <2>3, <2>10 DEF MergeKlass, K
  <2> QED BY <2>8, <2>9, <2>10
<1>8. p.stores = q.stores
  <2>1. p.stores \in Seq(RTStores) /\ q.stores \in Seq(RTStores)
    BY <1>1, <1>3, RTFacts
  <2>2. Len(p.stores) = Len(q.stores) /\ Len(q.stores) \in Nat
    BY <1>2, <1>3, ExtendsLen
  <2> QED BY <1>6, <2>1, <2>2, SeqEqual
<1>9. p.klasses = q.klasses
  <2>1. p.klasses \in Seq(RTKlasses) /\ q.klasses \in Seq(RTKlasses)
    BY <1>1, <1>3, RTFacts
  <2>2. Len(p.klasses) = Len(q.klasses) /\ Len(q.klasses) \in Nat
    BY <1>2, <1>3, ExtendsLen
  <2> QED BY <1>7, <2>1, <2>2, SeqEqual
<1>10. ks = q.klasses /\ bs = q.stores
  <2>1. p.stores = bs
    BY <1>1, <1>5 DEF RTs
  <2> QED BY <1>3, <1>8, <1>9, <2>1
<1>11. p = q
  BY <1>1, <1>5, <1>10 DEF RTs
<1> QED BY <1>11 DEF p

(* The runtime of a new document.                                          *)
LEMMA EmptyShape ==
  ASSUME NEW S, GoodSchema(S)
  PROVE  RTShape(EmptyRT(S), S)
<1> DEFINE r == EmptyRT(S)
           K == [serial |-> "__meta__", def |-> MetaDef(S), fields |-> <<>>]
<1>1. MetaDef(S) \in KlassDefs /\ IsMeta(MetaDef(S)) /\ MetaDef(S) # NoDef
  BY DocFacts, KlassesOfFacts, NothingAssumption
<1>2. <<>> \in Seq(RTFields) /\ <<>> \in Seq(RTStores) /\ "__meta__" \in STRING
  BY EmptySeq, StringsAssumption
<1>3. K \in RTKlasses /\ ~is_lazy(K) /\ K.def = MetaDef(S) /\ K.fields = <<>>
  BY <1>1, <1>2 DEF RTKlasses, is_lazy
<1>4. r = [klasses |-> <<K>>, stores |-> <<>>, doc |-> 1, docLazy |-> NoDoc]
  BY DEF EmptyRT
<1> HIDE DEF r, K
<1>5. r \in RTs
  BY <1>2, <1>3, <1>4 DEF RTs
<1>6. Len(r.klasses) = 1 /\ r.klasses[1] = K /\ r.doc = 1 /\ Len(r.stores) = 0
  BY <1>4
<1>7. KlassShape(r, S, 1)
  <2>1. FieldsShape(r, K.fields, DefsOf(r, S, 1))
    BY <1>2, <1>3 DEF FieldsShape
  <2> QED BY <1>1, <1>3, <1>6, <2>1 DEF KlassShape
<1>8. RTShape(r, S)
  BY <1>5, <1>6, <1>7 DEF RTShape
<1> QED BY <1>8 DEF r

-----------------------------------------------------------------------------
(* The document in memory. *)

ObjectsOf(defs) == [val : [Names(defs) -> Data], lazy : Items]

(* The declarations of the fields of the objects in the store n.           *)
FieldsIn(S, n) == Named(S.klasses, Named(S.stores, n).klass).fields

MemShape(m, S) ==
  /\ m = [doc |-> m.doc, stores |-> m.stores]
  /\ m.doc \in ObjectsOf(S.doc)
  /\ m.stores = [n \in Names(S.stores) |-> m.stores[n]]
  /\ \A n \in Names(S.stores) : m.stores[n] \in Seq(ObjectsOf(FieldsIn(S, n)))

LEMMA FieldsInFacts ==
  ASSUME NEW S, GoodSchema(S), NEW n \in Names(S.stores)
  PROVE  /\ Named(S.stores, n) \in ToSet(S.stores) /\ Named(S.stores, n).name = n
         /\ Named(S.klasses, Named(S.stores, n).klass) \in ToSet(S.klasses)
         /\ FieldsIn(S, n) \in Seq(FieldDefs) /\ Unambiguous(FieldsIn(S, n))
         /\ \A f \in ToSet(FieldsIn(S, n)) : f.to # NoStore => f.to \in Names(S.stores) /\ f.init = Unset
<1>1. Named(S.stores, n) \in ToSet(S.stores) /\ Named(S.stores, n).name = n
  BY StoreFacts, NamedOf
<1>2. Named(S.stores, n).klass \in Names(S.klasses)
  BY <1>1, StoreFacts
<1>3. Named(S.klasses, Named(S.stores, n).klass) \in ToSet(S.klasses)
  BY <1>2, KlassFacts, NamedOf
<1> QED BY <1>1, <1>3, KlassFacts DEF FieldsIn

LEMMA SameFieldsIn ==
  ASSUME NEW S, NEW T, GoodSchema(S), GoodSchema(T), SameSchema(S, T), NEW n \in Names(S.stores)
  PROVE  n \in Names(T.stores) /\ SameButSerials(FieldsIn(S, n), FieldsIn(T, n))
<1>1. n \in Names(T.stores) /\ Named(T.stores, n).klass = Named(S.stores, n).klass
  BY SameStores
<1>2. Named(S.stores, n).klass \in Names(S.klasses)
  BY FieldsInFacts, StoreFacts
<1> QED BY <1>1, <1>2, SameKlasses DEF FieldsIn

LEMMA SameMemShape ==
  ASSUME NEW S, NEW T, GoodSchema(S), GoodSchema(T), SameSchema(S, T), NEW m, MemShape(m, S)
  PROVE  MemShape(m, T)
<1>1. Names(T.doc) = Names(S.doc)
  BY DocFacts, SameFields DEF SameSchema
<1>2. Names(T.stores) = Names(S.stores)
  BY SameStores
<1>3. ASSUME NEW n \in Names(S.stores) PROVE Names(FieldsIn(T, n)) = Names(FieldsIn(S, n))
  BY <1>2, FieldsInFacts, SameFieldsIn, SameFields
<1> QED BY <1>1, <1>2, <1>3 DEF MemShape, ObjectsOf

(* A declared store holds objects of the klass that the schema says.       *)
LEMMA StoreKlass ==
  ASSUME NEW r, NEW S, GoodSchema(S), RTShape(r, S), NEW i \in 1..Len(r.stores),
         ~is_lazy(r.stores[i])
  PROVE  LET n == r.stores[i].def.name
             k == r.stores[i].klass + 1
         IN  /\ n \in Names(S.stores) /\ r.stores[i].def = Named(S.stores, n)
             /\ k \in 1..Len(r.klasses) /\ k # r.doc
             /\ ~is_lazy(r.klasses[k]) /\ r.klasses[k].def \in ToSet(S.klasses)
             /\ r.klasses[k].def.fields = FieldsIn(S, n)
             /\ DefsOf(r, S, k) = FieldsIn(S, n)
             /\ FieldsShape(r, r.klasses[k].fields, FieldsIn(S, n))
<1> DEFINE s == r.stores[i]
           n == s.def.name
           k == s.klass + 1
           K == r.klasses[k]
<1>1. /\ s.klass \in Nat /\ s.klass < Len(r.klasses) /\ Len(r.klasses) \in Nat
      /\ s.def \in ToSet(S.stores) /\ ~is_lazy(K) /\ K.def.name = s.def.klass
  BY RTFacts DEF RTShape, StoreShape
<1>2. n \in Names(S.stores) /\ s.def = Named(S.stores, n)
  BY <1>1, StoreFacts, NamedIs
<1>3. k \in 1..Len(r.klasses)
  BY <1>1
<1>4. KlassShape(r, S, k)
  BY <1>3 DEF RTShape
<1> HIDE DEF k, n
<1>5. K.def.name \in Names(S.klasses)
  BY <1>1, StoreFacts
<1>6. K.def.name # "Doc"
  BY <1>5, KlassFacts
<1>7. K.def \in ToSet(S.klasses) /\ k # r.doc
  BY <1>1, <1>4, <1>6 DEF KlassShape, IsMeta
<1>8. K.def = Named(S.klasses, s.def.klass)
  BY <1>1, <1>7, KlassFacts, NamedIs
<1>9. K.def.fields = FieldsIn(S, n)
  BY <1>2, <1>8 DEF FieldsIn
<1>10. DefsOf(r, S, k) = FieldsIn(S, n)
  BY <1>1, <1>7, <1>9 DEF DefsOf
<1>11. FieldsShape(r, K.fields, FieldsIn(S, n))
  BY <1>4, <1>10 DEF KlassShape
<1> QED BY <1>1, <1>2, <1>3, <1>7, <1>9, <1>10, <1>11 DEF k, n

LEMMA InitIs ==
  ASSUME NEW defs \in Seq(FieldDefs), NEW n \in Names(defs)
  PROVE  Named(defs, n).init \in Values \cup {Unset}
<1>1. PICK d \in FieldDefs : d = Named(defs, n)
  BY NamedOf
<1>2. d.init \in Values \cup {Unset}
  BY DEF FieldDefs
<1> QED BY <1>1, <1>2

LEMMA FreshIs ==
  ASSUME NEW defs \in Seq(FieldDefs)
  PROVE  /\ Fresh(defs) \in ObjectsOf(defs) /\ Fresh(defs).lazy = <<>>
         /\ \A n \in Names(defs) : Fresh(defs).val[n] = Named(defs, n).init
<1>1. ASSUME NEW n \in Names(defs) PROVE Named(defs, n).init \in Data
  BY InitIs DEF Data
<1>2. <<>> \in Items
  BY EmptySeq DEF Items
<1> QED BY <1>1, <1>2 DEF Fresh, ObjectsOf

LEMMA ItemsAre ==
  ASSUME NEW items \in Items
  PROVE  /\ Len(items) \in Nat /\ DOMAIN items = 1..Len(items)
         /\ \A i \in 1..Len(items) : items[i][1] \in Nat /\ items[i][2] \in Data \ {Unset}
                                     /\ items[i] = <<items[i][1], items[i][2]>>
<1>1. items \in Seq(Nat \X (Data \ {Unset}))
  BY DEF Items
<1>2. \A i \in 1..Len(items) : items[i] \in Nat \X (Data \ {Unset})
  BY <1>1, ElementOfSeq
<1> QED BY <1>1, <1>2, LenProperties

(* The pair is a value of the field that is declared under that name.      *)
Carries(item, fields, n) ==
  ~is_lazy(fields[item[1] + 1]) /\ fields[item[1] + 1].def.name = n

(* What is read of an object: of a field that it has, the value.           *)
LEMMA ReadObjectIs ==
  ASSUME NEW items \in Items, NEW fields, NEW defs \in Seq(FieldDefs)
  PROVE  LET o == ReadObject(items, fields, defs)
             kept == {i \in DOMAIN items : KeptLazily(fields[items[i][1] + 1])}
         IN  /\ o \in ObjectsOf(defs)
             /\ \E f : Picks(f, o.lazy, items, Len(items), kept)
             /\ \A n \in Names(defs) :
                  \/ \E i \in 1..Len(items) : Carries(items[i], fields, n) /\ o.val[n] = items[i][2]
                  \/ /\ \A i \in 1..Len(items) : ~Carries(items[i], fields, n)
                     /\ o.val[n] = Named(defs, n).init
<1> DEFINE o == ReadObject(items, fields, defs)
           Of(i, n) == Carries(items[i], fields, n)
           kept == {i \in DOMAIN items : KeptLazily(fields[items[i][1] + 1])}
           Value(n) == IF \E i \in DOMAIN items : Of(i, n)
                       THEN items[CHOOSE i \in DOMAIN items : Of(i, n)][2]
                       ELSE Named(defs, n).init
<1>1. /\ Len(items) \in Nat /\ DOMAIN items = 1..Len(items)
      /\ \A i \in 1..Len(items) : items[i][2] \in Data
  BY ItemsAre
<1>2. o = [val |-> [n \in Names(defs) |-> Value(n)], lazy |-> Among(items, kept)]
  BY DEF ReadObject, Carries
<1> HIDE DEF o, Of, kept
<1>3. ASSUME NEW n \in Names(defs)
      PROVE  /\ Value(n) \in Data
             /\ \/ \E i \in 1..Len(items) : Of(i, n) /\ Value(n) = items[i][2]
                \/ (\A i \in 1..Len(items) : ~Of(i, n)) /\ Value(n) = Named(defs, n).init
  <2>1. CASE \E i \in DOMAIN items : Of(i, n)
    <3>1. PICK j : j = CHOOSE i \in DOMAIN items : Of(i, n)
      OBVIOUS
    <3>2. j \in 1..Len(items) /\ Of(j, n)
      BY <1>1, <2>1, <3>1
    <3>3. Value(n) = items[j][2]
      BY <2>1, <3>1
    <3> QED BY <1>1, <3>2, <3>3
  <2>2. CASE ~ \E i \in DOMAIN items : Of(i, n)
    <3>1. Value(n) = Named(defs, n).init
      BY <2>2
    <3>2. Named(defs, n).init \in Data
      BY InitIs DEF Data
    <3> QED BY <1>1, <2>2, <3>1, <3>2
  <2> QED BY <2>1, <2>2
<1> HIDE DEF Value
<1>4. Among(items, kept) \in Items /\ \E f : Picks(f, Among(items, kept), items, Len(items), kept)
  BY AmongIs DEF Items
<1>5. o \in ObjectsOf(defs) /\ o.lazy = Among(items, kept)
      /\ \A n \in Names(defs) : o.val[n] = Value(n)
  BY <1>2, <1>3, <1>4 DEF ObjectsOf
<1> QED BY <1>3, <1>4, <1>5 DEF o, Of, kept

LEMMA ReadMemIs ==
  ASSUME NEW w, WireShape(w), NEW S, GoodSchema(S), ~Rejects(w, S)
  PROVE  LET m == ReadMem(w, S)
             r == ReadRT(w, S)
         IN  /\ MemShape(m, S)
             /\ m.doc = IF S.doc = <<>> THEN Fresh(<<>>)
                        ELSE ReadObject(w.doc, r.klasses[r.doc].fields, S.doc)
             /\ \A n \in Names(S.stores) :
                  /\ ~Known(r.stores, n) => m.stores[n] = <<>>
                  /\ Known(r.stores, n) =>
                       LET i == At(r.stores, n)
                           k == r.stores[i].klass + 1
                       IN  /\ i \in 1..Len(r.stores) /\ ~is_lazy(r.stores[i]) /\ r.stores[i].def.name = n
                           /\ Len(m.stores[n]) = Len(w.groups[i])
                           /\ \A a \in 1..Len(w.groups[i]) :
                                m.stores[n][a] = ReadObject(w.groups[i][a], r.klasses[k].fields,
                                                            FieldsIn(S, n))
<1> DEFINE m == ReadMem(w, S)
           r == ReadRT(w, S)
<1>1. RTShape(r, S) /\ r \in RTs
  BY ReadShape DEF RTShape
<1>2. Len(r.stores) = Len(w.stores) /\ DOMAIN r.stores = 1..Len(r.stores)
  <2>1. \E k \in DOMAIN w.klasses : w.klasses[k].serial = "__meta__"
    BY DEF Rejects
  <2> QED BY <1>1, <2>1, ReadRTIs, RTFacts
<1>3. m = [doc |-> IF S.doc = <<>> THEN Fresh(<<>>)
                   ELSE ReadObject(w.doc, r.klasses[r.doc].fields, S.doc),
           stores |-> [n \in Names(S.stores) |-> ReadObjects(w, r, n)]]
  BY DEF ReadMem
<1> HIDE DEF m, r
<1>4. m.doc \in ObjectsOf(S.doc)
  <2>1. CASE S.doc = <<>>
    BY <1>3, <2>1, FreshIs, EmptySeq
  <2>2. CASE S.doc # <<>>
    <3>1. m.doc = ReadObject(w.doc, r.klasses[r.doc].fields, S.doc)
      BY <1>3, <2>2
    <3> QED BY <3>1, WireFacts, DocFacts, ReadObjectIs
  <2> QED BY <2>1, <2>2
<1>5. ASSUME NEW n \in Names(S.stores), Known(r.stores, n)
      PROVE  LET i == At(r.stores, n)
                 k == r.stores[i].klass + 1
                 os == ReadObjects(w, r, n)
             IN  /\ i \in 1..Len(r.stores) /\ ~is_lazy(r.stores[i]) /\ r.stores[i].def.name = n
                 /\ Len(os) = Len(w.groups[i])
                 /\ \A a \in 1..Len(w.groups[i]) :
                      os[a] = ReadObject(w.groups[i][a], r.klasses[k].fields, FieldsIn(S, n))
                 /\ os \in Seq(ObjectsOf(FieldsIn(S, n)))
  <2> DEFINE os == ReadObjects(w, r, n)
  <2>1. PICK i : i = At(r.stores, n)
    OBVIOUS
  <2>2. i \in 1..Len(r.stores) /\ ~is_lazy(r.stores[i]) /\ r.stores[i].def.name = n
    BY <1>2, <1>5, <2>1, KnownAt
  <2>3. PICK K : K = r.klasses[r.stores[i].klass + 1]
    OBVIOUS
  <2>4. K.def.fields = FieldsIn(S, n)
    BY <1>1, <2>2, <2>3, StoreKlass
  <2>5. PICK g : g = w.groups[i]
    OBVIOUS
  <2>6. os = [a \in DOMAIN g |-> ReadObject(g[a], K.fields, FieldsIn(S, n))]
    BY <1>5, <2>1, <2>3, <2>4, <2>5 DEF ReadObjects
  <2>7. g \in Seq(Items) /\ DOMAIN g = 1..Len(g) /\ Len(g) \in Nat
    BY <1>2, <2>2, <2>5, WireFacts, LenProperties
  <2>8. ASSUME NEW a \in 1..Len(g)
        PROVE  ReadObject(g[a], K.fields, FieldsIn(S, n)) \in ObjectsOf(FieldsIn(S, n))
    <3>1. g[a] \in Items
      BY <2>7, ElementOfSeq
    <3> QED BY <3>1, FieldsInFacts, ReadObjectIs
  <2> HIDE DEF os
  <2>9. /\ os \in Seq(ObjectsOf(FieldsIn(S, n))) /\ Len(os) = Len(g)
        /\ \A a \in 1..Len(g) : os[a] = ReadObject(g[a], K.fields, FieldsIn(S, n))
    BY <2>6, <2>7, <2>8
  <2> QED BY <2>1, <2>2, <2>3, <2>5, <2>9 DEF os
<1>6. ASSUME NEW n \in Names(S.stores), ~Known(r.stores, n) PROVE ReadObjects(w, r, n) = <<>>
  BY <1>6 DEF ReadObjects
<1>7. ASSUME NEW n \in Names(S.stores)
      PROVE  m.stores[n] = ReadObjects(w, r, n) /\ m.stores[n] \in Seq(ObjectsOf(FieldsIn(S, n)))
  <2>1. m.stores[n] = ReadObjects(w, r, n)
    BY <1>3
  <2>2. CASE Known(r.stores, n)
    BY <1>5, <2>1, <2>2
  <2>3. CASE ~Known(r.stores, n)
    BY <1>6, <2>1, <2>3, EmptySeq
  <2> QED BY <2>1, <2>2, <2>3
<1>8. MemShape(m, S)
  <2>1. m = [doc |-> m.doc, stores |-> m.stores] /\ m.stores = [n \in Names(S.stores) |-> m.stores[n]]
    BY <1>3
  <2> QED BY <1>4, <1>7, <2>1 DEF MemShape
<1>9. m.doc = IF S.doc = <<>> THEN Fresh(<<>>)
              ELSE ReadObject(w.doc, r.klasses[r.doc].fields, S.doc)
  BY <1>3
<1> QED BY <1>5, <1>6, <1>7, <1>8, <1>9 DEF m, r


-----------------------------------------------------------------------------
(* Writing. *)

(* The fields that are written of an object, in their order.               *)
LEMMA SentIs ==
  ASSUME NEW o, NEW fields \in Seq(RTFields)
  PROVE  LET ids == Sent(o, fields)
             Goes(i) == Written(fields[i]) /\ o.val[fields[i].def.name] # Unset
         IN  /\ ids \in Seq(Nat) /\ Len(ids) \in Nat
             /\ \A j \in 1..Len(ids) : ids[j] \in 1..Len(fields) /\ Goes(ids[j])
             /\ \A j, k \in 1..Len(ids) : j # k => ids[j] # ids[k]
             /\ \A i \in 1..Len(fields) : Goes(i) => \E j \in 1..Len(ids) : ids[j] = i
<1> DEFINE ids == Sent(o, fields)
           Goes(i) == Written(fields[i]) /\ o.val[fields[i].def.name] # Unset
           T == {i \in DOMAIN fields : Goes(i)}
           all == [i \in DOMAIN fields |-> i]
<1>1. DOMAIN fields = 1..Len(fields) /\ Len(fields) \in Nat
  BY LenProperties
<1>2. all \in Seq(Nat) /\ Len(all) = Len(fields) /\ \A i \in 1..Len(fields) : all[i] = i
  BY <1>1
<1>3. ids = Among(all, T)
  BY DEF Sent
<1>4. \A i : i \in T <=> i \in 1..Len(fields) /\ Goes(i)
  BY <1>1
<1> HIDE DEF ids, all, T, Goes
<1>5. ids \in Seq(Nat) /\ \E f : Picks(f, ids, all, Len(all), T)
  BY <1>2, <1>3, AmongIs
<1>6. Len(ids) \in Nat
  BY <1>5, LenProperties
<1>7. PICK f : Picks(f, ids, all, Len(all), T)
  BY <1>5
<1>8. \A k \in 1..Len(ids) : f[k] \in 1..Len(fields) /\ f[k] \in T /\ ids[k] = f[k]
  BY <1>2, <1>7 DEF Picks
<1>9. \A j, k \in 1..Len(ids) : j # k => ids[j] # ids[k]
  BY <1>7, <1>8 DEF Picks
<1>10. \A i \in 1..Len(fields) : Goes(i) => \E j \in 1..Len(ids) : ids[j] = i
  BY <1>2, <1>4, <1>7, <1>8 DEF Picks
<1> QED BY <1>4, <1>5, <1>6, <1>8, <1>9, <1>10 DEF ids, Goes

(* What is written of an object: what was kept of it, then those fields.   *)
LEMMA WriteObjectIs ==
  ASSUME NEW defs \in Seq(FieldDefs), NEW o \in ObjectsOf(defs), NEW r, NEW fields,
         FieldsShape(r, fields, defs)
  PROVE  LET x == WriteObject(o, fields)
             ids == Sent(o, fields)
             n == Len(o.lazy)
         IN  /\ x \in Items /\ n \in Nat /\ Len(ids) \in Nat
             /\ Len(x) = n + Len(ids)
             /\ \A i \in 1..n : x[i] = o.lazy[i]
             /\ \A j \in 1..Len(ids) :
                  x[n + j] = <<ids[j] - 1, o.val[fields[ids[j]].def.name]>>
             /\ \A i \in 1..(n + Len(ids)) : i \in 1..n \/ \E j \in 1..Len(ids) : i = n + j
<1> DEFINE ids == Sent(o, fields)
           pairs == [j \in DOMAIN ids |-> <<ids[j] - 1, o.val[fields[ids[j]].def.name]>>]
<1>1. fields \in Seq(RTFields) /\ \A i \in 1..Len(fields) : ~is_lazy(fields[i]) => fields[i].def \in ToSet(defs)
  BY DEF FieldsShape
<1>2. ids \in Seq(Nat) /\ Len(ids) \in Nat /\ DOMAIN ids = 1..Len(ids)
  BY <1>1, SentIs, LenProperties
<1>3. \A j \in 1..Len(ids) : /\ ids[j] \in 1..Len(fields) /\ Written(fields[ids[j]])
                             /\ o.val[fields[ids[j]].def.name] # Unset
  BY <1>1, SentIs
<1>4. WriteObject(o, fields) = o.lazy \o pairs
  BY DEF WriteObject
<1> HIDE DEF ids
<1>5. ASSUME NEW j \in 1..Len(ids)
      PROVE  <<ids[j] - 1, o.val[fields[ids[j]].def.name]>> \in Nat \X (Data \ {Unset})
  <2>1. ids[j] - 1 \in Nat
    BY <1>3
  <2>2. fields[ids[j]].def \in ToSet(defs)
    BY <1>1, <1>3 DEF Written
  <2>3. fields[ids[j]].def.name \in Names(defs)
    BY <2>2 DEF Names
  <2>4. o.val[fields[ids[j]].def.name] \in Data
    BY <2>3 DEF ObjectsOf
  <2> QED BY <1>3, <2>1, <2>4
<1>6. pairs \in Items /\ Len(pairs) = Len(ids)
      /\ \A j \in 1..Len(ids) : pairs[j] = <<ids[j] - 1, o.val[fields[ids[j]].def.name]>>
  <2>1. pairs \in Seq(Nat \X (Data \ {Unset}))
    BY <1>2, <1>5
  <2>2. Len(pairs) = Len(ids)
    BY <1>2
  <2> QED BY <1>2, <2>1, <2>2 DEF Items
<1>7. o.lazy \in Items
  BY DEF ObjectsOf
<1> HIDE DEF pairs
<1>8. PICK D : D = Nat \X (Data \ {Unset})
  OBVIOUS
<1>9. o.lazy \in Seq(D) /\ pairs \in Seq(D)
  BY <1>6, <1>7, <1>8 DEF Items
<1>10. /\ o.lazy \o pairs \in Seq(D) /\ Len(o.lazy \o pairs) = Len(o.lazy) + Len(pairs)
       /\ \A i \in 1..Len(o.lazy) : (o.lazy \o pairs)[i] = o.lazy[i]
       /\ \A j \in 1..Len(pairs) : (o.lazy \o pairs)[Len(o.lazy) + j] = pairs[j]
       /\ \A i \in 1..(Len(o.lazy) + Len(pairs)) :
            i \in 1..Len(o.lazy) \/ \E j \in 1..Len(pairs) : i = Len(o.lazy) + j
  BY <1>9, Appended
<1>11. Len(o.lazy) \in Nat
  BY <1>9, LenProperties
<1>12. WriteObject(o, fields) \in Items
  BY <1>4, <1>8, <1>10 DEF Items
<1> QED BY <1>2, <1>4, <1>6, <1>10, <1>11, <1>12 DEF ids

LEMMA SerialIs ==
  ASSUME NEW x \in RTFields \cup RTKlasses \cup RTStores
  PROVE  Serial(x) \in STRING
<1>1. CASE x \in RTFields
  <2>1. x.serial \in STRING /\ x.def \in FieldDefs \cup {NoDef}
    BY <1>1 DEF RTFields
  <2>2. x.def \in FieldDefs => x.def.serial \in STRING
    BY DEF FieldDefs
  <2> QED BY <2>1, <2>2 DEF Serial, is_lazy
<1>2. CASE x \in RTKlasses
  <2>1. x.serial \in STRING /\ x.def \in KlassDefs \cup {NoDef}
    BY <1>2 DEF RTKlasses
  <2>2. x.def \in KlassDefs => x.def.serial \in STRING
    BY DEF KlassDefs
  <2> QED BY <2>1, <2>2 DEF Serial, is_lazy
<1>3. CASE x \in RTStores
  <2>1. x.serial \in STRING /\ x.def \in StoreDefs \cup {NoDef}
    BY <1>3 DEF RTStores
  <2>2. x.def \in StoreDefs => x.def.serial \in STRING
    BY DEF StoreDefs
  <2> QED BY <2>1, <2>2 DEF Serial, is_lazy
<1> QED BY <1>1, <1>2, <1>3

LEMMA WriteFieldsIs ==
  ASSUME NEW fields \in Seq(RTFields)
  PROVE  LET w == WriteFields(fields)
         IN  /\ w \in Seq(WireFields) /\ Len(w) = Len(fields)
             /\ \A i \in 1..Len(fields) :
                  /\ w[i].serial = Serial(fields[i])
                  /\ w[i].to = fields[i].to /\ w[i].kind = fields[i].kind
<1> DEFINE One(f) == [serial |-> Serial(f), to |-> f.to, kind |-> f.kind]
<1>1. DOMAIN fields = 1..Len(fields) /\ Len(fields) \in Nat
  BY LenProperties
<1>2. ASSUME NEW i \in 1..Len(fields) PROVE One(fields[i]) \in WireFields
  <2>1. PICK f \in RTFields : f = fields[i]
    BY ElementOfSeq
  <2>2. Serial(f) \in STRING /\ f.to \in Nat /\ f.kind \in STRING
    BY SerialIs DEF RTFields
  <2> QED BY <2>1, <2>2 DEF WireFields
<1>3. WriteFields(fields) = [i \in 1..Len(fields) |-> One(fields[i])]
  BY <1>1 DEF WriteFields
<1>4. WriteFields(fields) \in Seq(WireFields) /\ Len(WriteFields(fields)) = Len(fields)
  BY <1>1, <1>2, <1>3
<1> QED BY <1>3, <1>4

(* What is written of a store.                                             *)
LEMMA WriteObjectsIs ==
  ASSUME NEW r, NEW S, GoodSchema(S), RTShape(r, S), NEW m, MemShape(m, S),
         NEW i \in 1..Len(r.stores)
  PROVE  LET s == r.stores[i]
             n == s.def.name
             os == WriteObjects(s, r, m)
         IN  /\ os \in Seq(Items) /\ NElem(s, m) \in Nat
             /\ is_lazy(s) => os = s.lazy /\ NElem(s, m) = s.nelem
             /\ ~is_lazy(s) =>
                  /\ n \in Names(S.stores) /\ m.stores[n] \in Seq(ObjectsOf(FieldsIn(S, n)))
                  /\ NElem(s, m) = Len(m.stores[n]) /\ Len(os) = Len(m.stores[n])
                  /\ \A a \in 1..Len(m.stores[n]) :
                       os[a] = WriteObject(m.stores[n][a], r.klasses[s.klass + 1].fields)
<1> DEFINE s == r.stores[i]
           n == s.def.name
           os == WriteObjects(s, r, m)
           fields == r.klasses[s.klass + 1].fields
<1>1. s \in RTStores
  BY RTFacts DEF RTShape
<1>2. s.lazy \in Seq(Items) /\ s.nelem \in Nat
  BY <1>1 DEF RTStores
<1>3. CASE is_lazy(s)
  BY <1>2, <1>3, Zenon DEF WriteObjects, NElem
<1>4. CASE ~is_lazy(s)
  <2>1. n \in Names(S.stores) /\ FieldsShape(r, fields, FieldsIn(S, n))
    BY <1>4, StoreKlass
  <2>2. PICK objects : objects = m.stores[n]
    OBVIOUS
  <2>3. objects \in Seq(ObjectsOf(FieldsIn(S, n)))
    BY <2>1, <2>2 DEF MemShape
  <2>4. DOMAIN objects = 1..Len(objects) /\ Len(objects) \in Nat
    BY <2>3, LenProperties
  <2>5. NElem(s, m) = Len(objects) /\ os = [a \in 1..Len(objects) |-> WriteObject(objects[a], fields)]
    BY <1>4, <2>2, <2>4 DEF NElem, WriteObjects
  <2> HIDE DEF os, fields, n, s
  <2>6. ASSUME NEW a \in 1..Len(objects) PROVE WriteObject(objects[a], fields) \in Items
    <3>1. objects[a] \in ObjectsOf(FieldsIn(S, n))
      BY <2>3, ElementOfSeq
    <3>2. FieldsIn(S, n) \in Seq(FieldDefs)
      BY <2>1, FieldsInFacts
    <3> QED BY <2>1, <3>1, <3>2, WriteObjectIs
  <2>7. os \in Seq(Items) /\ Len(os) = Len(objects)
        /\ \A a \in 1..Len(objects) : os[a] = WriteObject(objects[a], fields)
    BY <2>4, <2>5, <2>6
  <2> QED BY <1>4, <2>1, <2>2, <2>3, <2>4, <2>5, <2>7, Zenon DEF os, fields, n, s
<1> QED BY <1>3, <1>4

LEMMA DocInstanceIs ==
  ASSUME NEW r, NEW S, GoodSchema(S), RTShape(r, S), NEW m, MemShape(m, S)
  PROVE  /\ DocInstance(r, m) \in Items
         /\ FieldsShape(r, r.klasses[r.doc].fields, S.doc)
<1>1. FieldsShape(r, r.klasses[r.doc].fields, S.doc)
  BY DEF RTShape, KlassShape, DefsOf
<1>2. WriteObject(m.doc, r.klasses[r.doc].fields) \in Items
  BY <1>1, DocFacts, WriteObjectIs DEF MemShape
<1>3. r.docLazy \in Items \cup {NoDoc}
  BY RTFacts DEF RTShape
<1> QED BY <1>1, <1>2, <1>3 DEF DocInstance

(* What is written is a document on the stream.                            *)
LEMMA WriteDocIs ==
  ASSUME NEW r, NEW S, GoodSchema(S), RTShape(r, S), NEW m, MemShape(m, S)
  PROVE  LET w == WriteDoc(r, m)
         IN  /\ WireShape(w)
             /\ Len(w.klasses) = Len(r.klasses) /\ Len(w.stores) = Len(r.stores)
             /\ \A k \in 1..Len(r.klasses) :
                  /\ w.klasses[k].serial = IF k = r.doc THEN "__meta__" ELSE Serial(r.klasses[k])
                  /\ w.klasses[k].fields = WriteFields(r.klasses[k].fields)
             /\ \A i \in 1..Len(r.stores) :
                  /\ w.stores[i].serial = Serial(r.stores[i])
                  /\ w.stores[i].klass = r.stores[i].klass
                  /\ w.stores[i].nelem = NElem(r.stores[i], m)
                  /\ w.groups[i] = WriteObjects(r.stores[i], r, m)
             /\ w.doc = DocInstance(r, m)
<1> DEFINE w == WriteDoc(r, m)
           Klass(k) == [serial |-> IF k = r.doc THEN "__meta__" ELSE Serial(r.klasses[k]),
                        fields |-> WriteFields(r.klasses[k].fields)]
           Store(i) == [serial |-> Serial(r.stores[i]), klass |-> r.stores[i].klass,
                        nelem |-> NElem(r.stores[i], m)]
           Group(i) == WriteObjects(r.stores[i], r, m)
<1>1. /\ r.klasses \in Seq(RTKlasses) /\ DOMAIN r.klasses = 1..Len(r.klasses)
      /\ r.stores \in Seq(RTStores) /\ DOMAIN r.stores = 1..Len(r.stores)
      /\ Len(r.klasses) \in Nat /\ Len(r.stores) \in Nat
  BY RTFacts DEF RTShape
<1>2. w = [klasses |-> [k \in 1..Len(r.klasses) |-> Klass(k)],
           stores |-> [i \in 1..Len(r.stores) |-> Store(i)],
           doc |-> DocInstance(r, m),
           groups |-> [i \in 1..Len(r.stores) |-> Group(i)]]
  BY <1>1 DEF WriteDoc
<1>3. ASSUME NEW k \in 1..Len(r.klasses) PROVE Klass(k) \in WireKlasses
  <2>1. PICK K \in RTKlasses : K = r.klasses[k]
    BY <1>1, ElementOfSeq
  <2>2. K.fields \in Seq(RTFields) /\ Serial(K) \in STRING
    BY SerialIs DEF RTKlasses
  <2>3. WriteFields(K.fields) \in Seq(WireFields)
    BY <2>2, WriteFieldsIs
  <2>4. "__meta__" \in STRING
    BY StringsAssumption
  <2> QED BY <2>1, <2>2, <2>3, <2>4 DEF WireKlasses
<1>4. ASSUME NEW i \in 1..Len(r.stores) PROVE Store(i) \in WireStores /\ Group(i) \in Seq(Items)
  <2>1. PICK s \in RTStores : s = r.stores[i]
    BY <1>1, ElementOfSeq
  <2>2. s.klass \in Nat /\ Serial(s) \in STRING
    BY SerialIs DEF RTStores
  <2>3. NElem(s, m) \in Nat /\ Group(i) \in Seq(Items)
    BY <2>1, WriteObjectsIs
  <2> QED BY <2>1, <2>2, <2>3 DEF WireStores
<1>5. DocInstance(r, m) \in Items
  BY DocInstanceIs
<1> HIDE DEF w, Klass, Store, Group
<1>6. /\ w.klasses \in Seq(WireKlasses) /\ Len(w.klasses) = Len(r.klasses)
      /\ \A k \in 1..Len(r.klasses) : w.klasses[k] = Klass(k)
  <2>1. PICK n \in Nat : n = Len(r.klasses)
    BY <1>1
  <2>2. w.klasses = [k \in 1..n |-> Klass(k)]
    BY <1>2, <2>1
  <2> QED BY <1>3, <2>1, <2>2
<1>7. /\ w.stores \in Seq(WireStores) /\ Len(w.stores) = Len(r.stores)
      /\ \A i \in 1..Len(r.stores) : w.stores[i] = Store(i)
  <2>1. PICK n \in Nat : n = Len(r.stores)
    BY <1>1
  <2>2. w.stores = [i \in 1..n |-> Store(i)]
    BY <1>2, <2>1
  <2> QED BY <1>4, <2>1, <2>2
<1>8. /\ w.groups \in Seq(Seq(Items)) /\ Len(w.groups) = Len(r.stores)
      /\ \A i \in 1..Len(r.stores) : w.groups[i] = Group(i)
  <2>1. PICK n \in Nat : n = Len(r.stores)
    BY <1>1
  <2>2. w.groups = [i \in 1..n |-> Group(i)]
    BY <1>2, <2>1
  <2> QED BY <1>4, <2>1, <2>2
<1>9. w = [klasses |-> w.klasses, stores |-> w.stores, doc |-> w.doc, groups |-> w.groups]
      /\ w.doc = DocInstance(r, m)
  BY <1>2
<1>10. w \in Wires
  BY <1>5, <1>6, <1>7, <1>8, <1>9 DEF Wires
<1>11. WireShape(w)
  BY <1>7, <1>8, <1>10 DEF WireShape
<1>12. \A k \in 1..Len(r.klasses) :
         /\ w.klasses[k].serial = IF k = r.doc THEN "__meta__" ELSE Serial(r.klasses[k])
         /\ w.klasses[k].fields = WriteFields(r.klasses[k].fields)
  <2> SUFFICES ASSUME NEW k \in 1..Len(r.klasses)
               PROVE  /\ w.klasses[k].serial = IF k = r.doc THEN "__meta__" ELSE Serial(r.klasses[k])
                      /\ w.klasses[k].fields = WriteFields(r.klasses[k].fields)
    OBVIOUS
  <2>1. w.klasses[k] = Klass(k)
    BY <1>6
  <2> QED BY <2>1 DEF Klass
<1>13. \A i \in 1..Len(r.stores) :
         /\ w.stores[i].serial = Serial(r.stores[i])
         /\ w.stores[i].klass = r.stores[i].klass
         /\ w.stores[i].nelem = NElem(r.stores[i], m)
         /\ w.groups[i] = WriteObjects(r.stores[i], r, m)
  <2> SUFFICES ASSUME NEW i \in 1..Len(r.stores)
               PROVE  /\ w.stores[i].serial = Serial(r.stores[i])
                      /\ w.stores[i].klass = r.stores[i].klass
                      /\ w.stores[i].nelem = NElem(r.stores[i], m)
                      /\ w.groups[i] = WriteObjects(r.stores[i], r, m)
    OBVIOUS
  <2>1. w.stores[i] = Store(i) /\ w.groups[i] = Group(i)
    BY <1>7, <1>8
  <2> QED BY <2>1 DEF Store, Group
<1> QED BY <1>6, <1>7, <1>9, <1>11, <1>12, <1>13 DEF w

-----------------------------------------------------------------------------
(* The program's changes of the document in memory. *)

LEMMA SetValue ==
  ASSUME NEW defs \in Seq(FieldDefs), NEW o \in ObjectsOf(defs), NEW n \in Names(defs),
         NEW v \in Data
  PROVE  /\ [o EXCEPT !.val[n] = v] \in ObjectsOf(defs)
         /\ [o EXCEPT !.val[n] = v].lazy = o.lazy
         /\ [o EXCEPT !.val[n] = v].val = [o.val EXCEPT ![n] = v]
<1>1. o.val \in [Names(defs) -> Data] /\ o.lazy \in Items /\ o = [val |-> o.val, lazy |-> o.lazy]
  BY DEF ObjectsOf
<1>2. [o EXCEPT !.val[n] = v] = [val |-> [o.val EXCEPT ![n] = v], lazy |-> o.lazy]
  BY <1>1
<1>3. [o.val EXCEPT ![n] = v] \in [Names(defs) -> Data]
  BY <1>1
<1> QED BY <1>1, <1>2, <1>3 DEF ObjectsOf

LEMMA AssignableIs ==
  ASSUME NEW S, GoodSchema(S), MemShape(mem, S), NEW d \in FieldDefs,
         d.to # NoStore => d.to \in Names(S.stores),
         NEW v \in Assignable(d)
  PROVE  /\ v \in Data
         /\ d.to # NoStore => v = Unset \/ v \in 0..(Len(mem.stores[d.to]) - 1)
         /\ d.to = NoStore => v = d.init \/ v \in Values
<1>1. d.init \in Values \cup {Unset}
  BY DEF FieldDefs
<1>2. CASE d.to # NoStore
  <2>1. DOMAIN mem.stores[d.to] = 1..Len(mem.stores[d.to]) /\ Len(mem.stores[d.to]) \in Nat
    BY <1>2, LenProperties DEF MemShape
  <2>2. v \in {Unset} \cup {i - 1 : i \in DOMAIN mem.stores[d.to]}
    BY <1>2 DEF Assignable
  <2>3. v = Unset \/ v \in 0..(Len(mem.stores[d.to]) - 1)
    BY <2>1, <2>2
  <2> QED BY <1>2, <2>1, <2>3 DEF Data
<1>3. CASE d.to = NoStore
  <2>1. v \in Values \cup {d.init}
    BY <1>3 DEF Assignable
  <2> QED BY <1>1, <1>3, <2>1 DEF Data
<1> QED BY <1>2, <1>3

LEMMA NewMem ==
  ASSUME NEW S, GoodSchema(S),
         NEW m, m = [doc |-> Fresh(S.doc), stores |-> [n \in Names(S.stores) |-> <<>>]]
  PROVE  MemShape(m, S)
<1>1. m.doc \in ObjectsOf(S.doc)
  BY DocFacts, FreshIs
<1>2. \A n \in Names(S.stores) : <<>> \in Seq(ObjectsOf(FieldsIn(S, n)))
  BY EmptySeq
<1> QED BY <1>1, <1>2 DEF MemShape

(* One annotation of a store changes, or one is added.                     *)
LEMMA StoreChanged ==
  ASSUME NEW S, NEW m, MemShape(m, S), NEW n \in Names(S.stores),
         NEW objects \in Seq(ObjectsOf(FieldsIn(S, n)))
  PROVE  MemShape([m EXCEPT !.stores[n] = objects], S)
<1> DEFINE q == [m EXCEPT !.stores[n] = objects]
<1>1. /\ m = [doc |-> m.doc, stores |-> m.stores] /\ m.doc \in ObjectsOf(S.doc)
      /\ m.stores = [x \in Names(S.stores) |-> m.stores[x]]
      /\ \A x \in Names(S.stores) : m.stores[x] \in Seq(ObjectsOf(FieldsIn(S, x)))
  BY DEF MemShape
<1>2. q = [doc |-> m.doc, stores |-> [m.stores EXCEPT ![n] = objects]]
  <2>1. PICK doc, stores : doc = m.doc /\ stores = m.stores
    OBVIOUS
  <2>2. m = [doc |-> doc, stores |-> stores]
    BY <1>1, <2>1
  <2>3. q = [doc |-> doc, stores |-> [stores EXCEPT ![n] = objects]]
    BY <2>2
  <2> QED BY <2>1, <2>3
<1> HIDE DEF q
<1>3. q.doc = m.doc /\ q.stores = [m.stores EXCEPT ![n] = objects]
  BY <1>2
<1>4. \A x \in Names(S.stores) : q.stores[x] = IF x = n THEN objects ELSE m.stores[x]
  BY <1>1, <1>3
<1>5. q.stores = [x \in Names(S.stores) |-> q.stores[x]]
  BY <1>1, <1>3
<1>6. MemShape(q, S)
  BY <1>1, <1>2, <1>3, <1>4, <1>5 DEF MemShape
<1> QED BY <1>6 DEF q

LEMMA ObjectChanged ==
  ASSUME NEW S, GoodSchema(S), NEW m, MemShape(m, S), NEW n \in Names(S.stores),
         NEW a \in DOMAIN m.stores[n], NEW x \in Names(FieldsIn(S, n)), NEW v \in Data
  PROVE  LET q == [m EXCEPT !.stores[n][a].val[x] = v]
             o == [m.stores[n][a] EXCEPT !.val[x] = v]
         IN  MemShape(q, S) /\ q = [m EXCEPT !.stores[n] = [m.stores[n] EXCEPT ![a] = o]]
<1> DEFINE O == ObjectsOf(FieldsIn(S, n))
           o == [m.stores[n][a] EXCEPT !.val[x] = v]
<1>1. m.stores[n] \in Seq(O)
  BY DEF MemShape
<1>2. m.stores[n][a] \in O
  BY <1>1, ElementOfSeq, LenProperties
<1>3. o \in O
  BY <1>2, FieldsInFacts, SetValue
<1> HIDE DEF o, O
<1>4. [m.stores[n] EXCEPT ![a] = o] \in Seq(O)
  BY <1>1, <1>3, ExceptSeq
<1>5. MemShape([m EXCEPT !.stores[n] = [m.stores[n] EXCEPT ![a] = o]], S)
  BY <1>4, StoreChanged DEF O
<1>6. [m EXCEPT !.stores[n][a].val[x] = v] = [m EXCEPT !.stores[n] = [m.stores[n] EXCEPT ![a] = o]]
  BY DEF o
<1> QED BY <1>5, <1>6 DEF o

LEMMA EditShape ==
  ASSUME NEW S, S = tool.in, GoodSchema(S), MemShape(mem, S), EditNext
  PROVE  MemShape(mem', S)
<1>1. ASSUME NEW d \in ToSet(S.doc), SetDocField(d) PROVE MemShape(mem', S)
  <2>1. d \in FieldDefs /\ d.name \in Names(S.doc) /\ (d.to # NoStore => d.to \in Names(S.stores))
    BY DocFacts, ToSetIs DEF Names
  <2>2. PICK v \in Assignable(d) : mem' = [mem EXCEPT !.doc.val[d.name] = v]
    BY <1>1 DEF SetDocField
  <2>3. v \in Data
    BY <2>1, AssignableIs
  <2>4. [mem.doc EXCEPT !.val[d.name] = v] \in ObjectsOf(S.doc)
    BY <2>1, <2>3, DocFacts, SetValue DEF MemShape
  <2>5. mem' = [doc |-> [mem.doc EXCEPT !.val[d.name] = v], stores |-> mem.stores]
    BY <2>2 DEF MemShape
  <2> QED BY <2>4, <2>5 DEF MemShape
<1>2. ASSUME NEW n \in Names(S.stores), CreateAnn(n) PROVE MemShape(mem', S)
  <2>1. KlassFields(n) = FieldsIn(S, n)
    BY DEF KlassFields, FieldsIn
  <2>2. mem' = [mem EXCEPT !.stores[n] = Append(mem.stores[n], Fresh(FieldsIn(S, n)))]
    BY <1>2, <2>1 DEF CreateAnn
  <2>3. Fresh(FieldsIn(S, n)) \in ObjectsOf(FieldsIn(S, n))
    BY FieldsInFacts, FreshIs
  <2>4. Append(mem.stores[n], Fresh(FieldsIn(S, n))) \in Seq(ObjectsOf(FieldsIn(S, n)))
    BY <2>3, AppendProperties DEF MemShape
  <2> QED BY <2>2, <2>4, StoreChanged
<1>3. ASSUME NEW n \in Names(S.stores), NEW a \in DOMAIN mem.stores[n],
             NEW d \in ToSet(KlassFields(n)), SetField(n, a, d)
      PROVE  MemShape(mem', S)
  <2>1. KlassFields(n) = FieldsIn(S, n)
    BY DEF KlassFields, FieldsIn
  <2>2. d \in FieldDefs /\ d.name \in Names(FieldsIn(S, n)) /\ (d.to # NoStore => d.to \in Names(S.stores))
    BY <2>1, FieldsInFacts, ToSetIs DEF Names
  <2>3. PICK v \in Assignable(d) : mem' = [mem EXCEPT !.stores[n][a].val[d.name] = v]
    BY <1>3 DEF SetField
  <2>4. v \in Data
    BY <2>2, AssignableIs
  <2> QED BY <2>2, <2>3, <2>4, ObjectChanged
<1> QED BY <1>1, <1>2, <1>3 DEF EditNext

-----------------------------------------------------------------------------
(* The pipeline. *)

(* The runtime that is written with.                                       *)
RTToMerge == IF rt = NoDoc THEN EmptyRT(tool.out) ELSE rt

(* While a tool works its memory is of the schema it reads with, and its   *)
(* runtime, if the document has one, is that of the document on the        *)
(* stream.                                                                 *)
EditInv ==
  /\ tool \in Tools
  /\ MemShape(mem, tool.in)
  /\ rt = NoDoc \/ (/\ wire # NoDoc /\ ~Rejects(wire, tool.in)
                    /\ rt = ReadRT(wire, tool.in))

(* When it has written, its runtime declares all of the schema it writes   *)
(* with, and what it has written is that runtime's view of its memory.     *)
WrittenInv ==
  /\ tool \in Tools
  /\ MemShape(mem, tool.out)
  /\ wire = WriteDoc(IF rt = NoDoc THEN merge_rt(EmptyRT(tool.out), tool.out) ELSE rt, mem)
  /\ rt # NoDoc => RTShape(rt, tool.out) /\ AllKnown(rt, tool.out)

PipelineInv ==
  /\ pipeline \in Seq(Tools)
  /\ pc \in {"start", "edit", "written", "rejected"}
  /\ wire = NoDoc \/ WireShape(wire)
  /\ pc = "edit" => EditInv
  /\ pc = "written" => WrittenInv

LEMMA NothingIsNoDoc ==
  /\ \A w : WireShape(w) => w # NoDoc
  /\ \A r, S : RTShape(r, S) => r # NoDoc
  /\ \A x \in Items : x # NoDoc
BY NothingAssumption DEF WireShape, RTShape

LEMMA SameAsItself == ASSUME NEW T, GoodSchema(T) PROVE SameSchema(T, T)
<1>1. ASSUME NEW d \in FieldDefs PROVE Alike(d, d)
  BY DEF FieldDefs, Alike
<1>2. ASSUME NEW d \in StoreDefs PROVE Alike(d, d)
  BY DEF StoreDefs, Alike
<1>3. ASSUME NEW defs \in Seq(FieldDefs) PROVE SameButSerials(defs, defs)
  BY <1>1, ElementOfSeq, LenProperties DEF SameButSerials
<1>4. SameButSerials(T.stores, T.stores)
  BY <1>2, StoreFacts, ElementOfSeq, LenProperties DEF SameButSerials
<1>5. SameButSerials(T.doc, T.doc)
  BY <1>3, DocFacts
<1>6. ASSUME NEW k \in DOMAIN T.klasses PROVE SameButSerials(T.klasses[k].fields, T.klasses[k].fields)
  BY <1>3, KlassFacts, ToSetIs, LenProperties
<1> QED BY <1>4, <1>5, <1>6 DEF SameSchema

(* The runtime that the document is written with.                          *)
LEMMA MergedToWrite ==
  ASSUME EditInv, wire = NoDoc \/ WireShape(wire)
  PROVE  LET r == merge_rt(RTToMerge, tool.out)
         IN  /\ RTShape(r, tool.out) /\ AllKnown(r, tool.out)
             /\ MemShape(mem, tool.out)
             /\ rt # NoDoc => RTShape(rt, tool.in)
<1>1. GoodSchema(tool.in) /\ GoodSchema(tool.out) /\ SameSchema(tool.in, tool.out)
  BY ToolFacts DEF EditInv
<1>2. MemShape(mem, tool.out)
  BY <1>1, SameMemShape DEF EditInv
<1>3. CASE rt = NoDoc
  BY <1>1, <1>2, <1>3, EmptyShape, SameAsItself, MergeShape DEF RTToMerge
<1>4. CASE rt # NoDoc
  <2>1. RTShape(rt, tool.in)
    BY <1>1, <1>4, ReadShape DEF EditInv
  <2> QED BY <1>1, <1>2, <1>4, <2>1, MergeShape DEF RTToMerge
<1> QED BY <1>3, <1>4

LEMMA NextTool ==
  ASSUME pipeline \in Seq(Tools), pipeline # <<>>
  PROVE  Head(pipeline) \in Tools /\ Tail(pipeline) \in Seq(Tools)
BY HeadTailProperties

LEMMA InitPipeline == Init => PipelineInv
<1> SUFFICES ASSUME Init PROVE PipelineInv
  OBVIOUS
<1>1. pipeline \in Pipelines /\ pipeline \in Seq([in : Schemas, out : Schemas])
  BY SchemasAssumption DEF Init
<1>2. \A i \in 1..Len(pipeline) : pipeline[i] \in Tools
  BY <1>1, ToSetIs DEF Tools
<1>3. pipeline \in Seq(Tools)
  BY <1>1, <1>2, LenProperties
<1> QED BY <1>3 DEF Init, PipelineInv

LEMMA StepPipeline == PipelineInv /\ [Next]_vars => PipelineInv'
<1> SUFFICES ASSUME PipelineInv, [Next]_vars PROVE PipelineInv'
  OBVIOUS
<1>1. pipeline \in Seq(Tools) /\ (wire = NoDoc \/ WireShape(wire))
  BY DEF PipelineInv
<1>2. CASE Create
  <2>1. Head(pipeline) \in Tools /\ Tail(pipeline) \in Seq(Tools)
    BY <1>1, <1>2, NextTool DEF Create
  <2>2. PICK t \in Tools : t = Head(pipeline)
    BY <2>1
  <2>3. GoodSchema(t.in)
    BY ToolFacts
  <2>4. MemShape(mem', t.in)
    BY <1>2, <2>2, <2>3, NewMem DEF Create
  <2>5. tool' = t /\ rt' = NoDoc /\ pc' = "edit" /\ wire' = wire /\ pipeline' = Tail(pipeline)
    BY <1>2, <2>2 DEF Create
  <2>6. EditInv'
    BY <2>4, <2>5 DEF EditInv
  <2> QED BY <1>1, <2>1, <2>5, <2>6 DEF PipelineInv
<1>3. CASE Read
  <2>1. Head(pipeline) \in Tools /\ Tail(pipeline) \in Seq(Tools)
    BY <1>1, <1>3, NextTool DEF Read
  <2>2. PICK t \in Tools : t = Head(pipeline)
    BY <2>1
  <2>3. GoodSchema(t.in)
    BY ToolFacts
  <2>4. wire # NoDoc /\ WireShape(wire) /\ ~Rejects(wire, t.in)
    BY <1>1, <1>3, <2>2 DEF Read
  <2>5. /\ tool' = t /\ rt' = ReadRT(wire, t.in) /\ mem' = ReadMem(wire, t.in) /\ pc' = "edit"
        /\ wire' = wire /\ pipeline' = Tail(pipeline)
    BY <1>3, <2>2 DEF Read
  <2>6. MemShape(mem', t.in)
    BY <2>3, <2>4, <2>5, ReadMemIs
  <2>7. EditInv'
    BY <2>4, <2>5, <2>6 DEF EditInv
  <2> QED BY <1>1, <2>1, <2>5, <2>7 DEF PipelineInv
<1>4. CASE ReadFails
  <2>1. pipeline' \in Seq(Tools)
    BY <1>1, <1>4, NextTool DEF ReadFails
  <2>2. pc' = "rejected" /\ wire' = wire
    BY <1>4 DEF ReadFails
  <2> QED BY <1>1, <2>1, <2>2 DEF PipelineInv
<1>5. CASE EditNext
  <2>1. pc = "edit" /\ UNCHANGED <<pipeline, tool, pc, wire, rt>>
    BY <1>5 DEF EditNext, SetDocField, CreateAnn, SetField, Edit
  <2>2. EditInv /\ GoodSchema(tool.in)
    BY <2>1, ToolFacts DEF PipelineInv, EditInv
  <2>3. MemShape(mem', tool.in)
    BY <1>5, <2>2, EditShape DEF EditInv
  <2>4. EditInv'
    BY <2>1, <2>2, <2>3 DEF EditInv
  <2> QED BY <1>1, <2>1, <2>4 DEF PipelineInv
<1>6. CASE Write
  <2> DEFINE r == merge_rt(RTToMerge, tool.out)
  <2>1. pc = "edit" /\ EditInv
    BY <1>6 DEF Write, PipelineInv
  <2>2. RTShape(r, tool.out) /\ AllKnown(r, tool.out) /\ MemShape(mem, tool.out)
    BY <1>1, <2>1, MergedToWrite
  <2>3. /\ wire' = WriteDoc(r, mem) /\ rt' = (IF rt = NoDoc THEN NoDoc ELSE r) /\ pc' = "written"
        /\ UNCHANGED <<pipeline, tool, mem>>
    BY <1>6 DEF Write, RTToMerge
  <2>4. WireShape(wire')
    BY <2>1, <2>2, <2>3, ToolFacts, WriteDocIs DEF EditInv
  <2>5. r # NoDoc
    BY <2>2, NothingIsNoDoc
  <2>6. wire' = WriteDoc(IF rt' = NoDoc THEN merge_rt(EmptyRT(tool'.out), tool'.out) ELSE rt', mem')
    BY <2>3, <2>5 DEF RTToMerge
  <2> HIDE DEF r
  <2>7. WrittenInv'
    BY <2>1, <2>2, <2>3, <2>6 DEF WrittenInv, EditInv
  <2> QED BY <1>1, <2>3, <2>4, <2>7 DEF PipelineInv
<1>7. CASE UNCHANGED vars
  BY <1>7 DEF vars, PipelineInv, EditInv, WrittenInv
<1> QED BY <1>2, <1>3, <1>4, <1>5, <1>6, <1>7 DEF Next

(* Every document on the stream has the shape of one and every runtime     *)
(* that of the schema it is written with, in whatever order the tools of a *)
(* pipeline run and whatever they declare.                                 *)
THEOREM PipelineInvariant == Spec => []PipelineInv
<1>1. Init => PipelineInv
  BY InitPipeline
<1>2. PipelineInv /\ [Next]_vars => PipelineInv'
  BY StepPipeline
<1> QED BY <1>1, <1>2, PTL DEF Spec

(* Writing a document again gives the same: the merge of a runtime that is *)
(* merged already declares nothing twice.                                  *)
THEOREM WritesTheSameAgain == Spec => []WritingAgainIsTheSame
<1>1. PipelineInv => WritingAgainIsTheSame
  <2> SUFFICES ASSUME PipelineInv, pc = "written"
               PROVE  WriteDoc(merge_rt(IF rt = NoDoc THEN EmptyRT(tool.out) ELSE rt, tool.out), mem) = wire
    BY DEF WritingAgainIsTheSame
  <2>1. WrittenInv /\ GoodSchema(tool.out)
    BY ToolFacts DEF PipelineInv, WrittenInv
  <2>2. CASE rt = NoDoc
    BY <2>1, <2>2 DEF WrittenInv
  <2>3. CASE rt # NoDoc
    <3>1. merge_rt(rt, tool.out) = rt
      BY <2>1, <2>3, MergeAgain DEF WrittenInv
    <3> QED BY <2>1, <2>3, <3>1 DEF WrittenInv
  <2> QED BY <2>2, <2>3
<1> QED BY <1>1, PipelineInvariant, PTL

-----------------------------------------------------------------------------
(* A tool that declares nothing. *)

NothingDeclared(S) == S.doc = <<>> /\ S.stores = <<>> /\ S.klasses = <<>>

LEMMA NothingToMerge ==
  ASSUME NEW r, NEW S, GoodSchema(S), NothingDeclared(S), RTShape(r, S)
  PROVE  merge_rt(r, S) = r
<1>1. Names(S.stores) = {} /\ Names(S.klasses) = {} /\ ToSet(S.klasses) = {} /\ Names(S.doc) = {}
  BY DEF NothingDeclared, Names, ToSet
<1>2. AllKnown(r, S)
  BY <1>1 DEF AllKnown, IsDeclared, DefsOf
<1> QED BY <1>2, MergeAgain

(* A field, and so the fields of a klass, goes out as it came in.          *)
LEMMA SameFieldsOut ==
  ASSUME NEW k \in WireKlasses, NEW S, GoodSchema(S)
  PROVE  LET K == ReadKlass(k, S)
         IN  WriteFields(K.fields) = k.fields /\ Serial(K) = k.serial
<1> DEFINE K == ReadKlass(k, S)
<1>1. /\ K \in RTKlasses /\ K.serial = k.serial
      /\ ~is_lazy(K) => K.def.serial = k.serial
      /\ Len(K.fields) = Len(k.fields)
      /\ \A i \in 1..Len(k.fields) : K.fields[i] = ReadField(k.fields[i], K.def)
      /\ K.def # NoDef => K.def.fields \in Seq(FieldDefs)
  BY ReadKlassIs
<1> HIDE DEF K
<1>2. K.fields \in Seq(RTFields) /\ k.fields \in Seq(WireFields)
  BY <1>1 DEF RTKlasses, WireKlasses
<1>3. PICK w : w = WriteFields(K.fields)
  OBVIOUS
<1>4. /\ w \in Seq(WireFields) /\ Len(w) = Len(k.fields)
      /\ \A i \in 1..Len(k.fields) :
           /\ w[i].serial = Serial(K.fields[i])
           /\ w[i].to = K.fields[i].to /\ w[i].kind = K.fields[i].kind
  BY <1>1, <1>2, <1>3, WriteFieldsIs
<1>5. ASSUME NEW i \in 1..Len(k.fields) PROVE w[i] = k.fields[i]
  <2>1. PICK f \in WireFields : f = k.fields[i]
    BY <1>2, ElementOfSeq
  <2>2. PICK g : g = ReadField(f, K.def)
    OBVIOUS
  <2>3. g = K.fields[i]
    BY <1>1, <2>1, <2>2
  <2>4. g.to = f.to /\ g.kind = f.kind /\ g.serial = f.serial /\ (~is_lazy(g) => g.def.serial = f.serial)
    BY <1>1, <2>2, ReadFieldIs
  <2>5. PICK u \in WireFields : u = w[i]
    BY <1>4, ElementOfSeq
  <2>6. u.serial = f.serial /\ u.to = f.to /\ u.kind = f.kind
    BY <1>4, <2>3, <2>4, <2>5 DEF Serial
  <2> QED BY <2>1, <2>5, <2>6 DEF WireFields
<1>6. w = k.fields
  BY <1>2, <1>4, <1>5, SeqEqual
<1>7. Serial(K) = k.serial
  BY <1>1 DEF Serial
<1> QED BY <1>3, <1>6, <1>7 DEF K

(* What such a tool has read it writes as it was.                          *)
LEMMA NothingDeclaredCopies ==
  ASSUME NEW w, WireShape(w), NEW S, GoodSchema(S), NothingDeclared(S), ~Rejects(w, S),
         NEW m, MemShape(m, S)
  PROVE  WriteDoc(ReadRT(w, S), m) = w
<1> DEFINE r == ReadRT(w, S)
           v == WriteDoc(r, m)
<1>1. RTShape(r, S)
  BY ReadShape
<1>2. /\ r \in RTs
      /\ Len(r.klasses) = Len(w.klasses) /\ Len(r.stores) = Len(w.stores)
      /\ \A k \in 1..Len(w.klasses) : r.klasses[k] = ReadKlass(w.klasses[k], S)
      /\ \A i \in 1..Len(w.stores) : r.stores[i] = ReadStore(w, i, S)
      /\ w.klasses[r.doc].serial = "__meta__"
      /\ r.docLazy = w.doc
  <2>1. \E k \in DOMAIN w.klasses : w.klasses[k].serial = "__meta__"
    BY DEF Rejects
  <2> QED BY <2>1, ReadRTIs DEF NothingDeclared
<1> HIDE DEF r
<1>3. /\ WireShape(v)
      /\ Len(v.klasses) = Len(r.klasses) /\ Len(v.stores) = Len(r.stores)
      /\ \A k \in 1..Len(r.klasses) :
           /\ v.klasses[k].serial = IF k = r.doc THEN "__meta__" ELSE Serial(r.klasses[k])
           /\ v.klasses[k].fields = WriteFields(r.klasses[k].fields)
      /\ \A i \in 1..Len(r.stores) :
           /\ v.stores[i].serial = Serial(r.stores[i])
           /\ v.stores[i].klass = r.stores[i].klass
           /\ v.stores[i].nelem = NElem(r.stores[i], m)
           /\ v.groups[i] = WriteObjects(r.stores[i], r, m)
      /\ v.doc = DocInstance(r, m)
  BY <1>1, WriteDocIs
<1> HIDE DEF v
<1>4. v.klasses = w.klasses
  <2>1. v.klasses \in Seq(WireKlasses) /\ w.klasses \in Seq(WireKlasses)
    BY <1>3, WireFacts
  <2>2. ASSUME NEW k \in 1..Len(w.klasses) PROVE v.klasses[k] = w.klasses[k]
    <3>1. PICK a \in WireKlasses, b \in WireKlasses : a = w.klasses[k] /\ b = v.klasses[k]
      BY <1>2, <1>3, <2>1, ElementOfSeq
    <3>2. PICK K : K = ReadKlass(a, S)
      OBVIOUS
    <3>3. K = r.klasses[k]
      BY <1>2, <3>1, <3>2
    <3>4. WriteFields(K.fields) = a.fields /\ Serial(K) = a.serial
      BY <3>2, SameFieldsOut
    <3>5. b.fields = a.fields /\ b.serial = a.serial
      BY <1>2, <1>3, <3>1, <3>3, <3>4
    <3>6. a = [serial |-> a.serial, fields |-> a.fields] /\ b = [serial |-> b.serial, fields |-> b.fields]
      BY DEF WireKlasses
    <3> QED BY <3>1, <3>5, <3>6
  <2>3. Len(v.klasses) = Len(w.klasses)
    BY <1>2, <1>3
  <2> QED BY <2>1, <2>2, <2>3, SeqEqual
<1>5. ASSUME NEW i \in 1..Len(w.stores)
      PROVE  v.stores[i] = w.stores[i] /\ v.groups[i] = w.groups[i]
  <2>1. PICK s : s = r.stores[i]
    OBVIOUS
  <2>2. is_lazy(s) /\ s.serial = w.stores[i].serial /\ s.klass = w.stores[i].klass
        /\ s.nelem = w.stores[i].nelem /\ s.lazy = w.groups[i]
    <3>1. ToSet(S.stores) = {}
      BY DEF NothingDeclared, ToSet
    <3>2. s = ReadStore(w, i, S)
      BY <1>2, <2>1
    <3>3. w \in Wires /\ Len(w.groups) = Len(w.stores)
      BY DEF WireShape
    <3>4. ~is_lazy(s) => s.def \in ToSet(S.stores)
      BY <3>2, <3>3, ReadStoreIs
    <3>5. is_lazy(s)
      BY <3>1, <3>4
    <3>6. s.serial = w.stores[i].serial /\ s.klass = w.stores[i].klass
      BY <3>2, <3>3, ReadStoreIs
    <3>7. s.nelem = w.stores[i].nelem /\ s.lazy = w.groups[i]
      BY <3>2, <3>3, <3>5, ReadStoreIs
    <3> QED BY <3>5, <3>6, <3>7
  <2>3. v.groups[i] = s.lazy /\ v.stores[i].nelem = s.nelem
        /\ v.stores[i].serial = s.serial /\ v.stores[i].klass = s.klass
    BY <1>2, <1>3, <2>1, <2>2 DEF WriteObjects, NElem, Serial
  <2>4. PICK a \in WireStores, b \in WireStores : a = w.stores[i] /\ b = v.stores[i]
    BY <1>2, <1>3, WireFacts
  <2>5. /\ a = [serial |-> a.serial, klass |-> a.klass, nelem |-> a.nelem]
        /\ b = [serial |-> b.serial, klass |-> b.klass, nelem |-> b.nelem]
    BY DEF WireStores
  <2> QED BY <2>2, <2>3, <2>4, <2>5
<1>6. v.stores = w.stores
  <2>1. v.stores \in Seq(WireStores) /\ w.stores \in Seq(WireStores)
    BY <1>3, WireFacts
  <2>2. Len(v.stores) = Len(w.stores)
    BY <1>2, <1>3
  <2> QED BY <1>5, <2>1, <2>2, SeqEqual
<1>7. v.groups = w.groups
  <2>1. v.groups \in Seq(Seq(Items)) /\ w.groups \in Seq(Seq(Items))
    BY <1>3, WireFacts
  <2>2. Len(v.groups) = Len(w.groups) /\ Len(w.groups) = Len(w.stores)
    BY <1>2, <1>3 DEF WireShape
  <2> QED BY <1>5, <2>1, <2>2, SeqEqual
<1>8. v.doc = w.doc
  <2>1. w.doc \in Items
    BY WireFacts
  <2> QED BY <1>2, <1>3, <2>1, NothingIsNoDoc DEF DocInstance
<1>9. v \in Wires /\ w \in Wires
  BY <1>3 DEF WireShape
<1>10. v = w
  BY <1>4, <1>6, <1>7, <1>8, <1>9 DEF Wires
<1> QED BY <1>10 DEF v, r

(* A tool that declares nothing copies the document, id for id: the        *)
(* klasses and stores that it keeps lazily, their fields and objects, and  *)
(* the __meta__ instance that it keeps whole.                              *)
THEOREM LazyCopy == Spec => LazyCopyIsIdentical
<1>1. PipelineInv /\ [Next]_vars => [Write /\ rt # NoDoc /\ DeclaresNothing(tool) => wire' = wire]_vars
  <2> SUFFICES ASSUME PipelineInv, Write, rt # NoDoc, DeclaresNothing(tool)
               PROVE  wire' = wire
    OBVIOUS
  <2> DEFINE S == tool.in
             T == tool.out
  <2>1. pc = "edit" /\ EditInv /\ tool \in Tools
    BY DEF Write, PipelineInv, EditInv
  <2>2. GoodSchema(S) /\ GoodSchema(T) /\ SameSchema(S, T)
    BY <2>1, ToolFacts
  <2>3. NothingDeclared(S)
    BY DEF DeclaresNothing, NothingDeclared
  <2> HIDE DEF S, T
  <2>4. S = T /\ NothingDeclared(T)
    <3>1. Len(T.doc) = 0 /\ Len(T.stores) = 0 /\ Len(T.klasses) = 0
      BY <2>2, <2>3 DEF SameSchema, SameButSerials, NothingDeclared
    <3>2. T.doc = <<>> /\ T.stores = <<>> /\ T.klasses = <<>>
      BY <2>2, <3>1, DocFacts, StoreFacts, KlassFacts, EmptySeq
    <3>3. S \in Schemas /\ T \in Schemas
      BY <2>2 DEF GoodSchema
    <3>4. S.doc = T.doc /\ S.stores = T.stores /\ S.klasses = T.klasses
      BY <2>3, <3>2 DEF NothingDeclared
    <3>5. S = T
      BY <3>3, <3>4 DEF Schemas
    <3> QED BY <2>3, <3>5
  <2>5. wire # NoDoc /\ WireShape(wire) /\ ~Rejects(wire, S) /\ rt = ReadRT(wire, S) /\ MemShape(mem, S)
    BY <2>1 DEF PipelineInv, EditInv, S
  <2>6. RTShape(rt, S)
    BY <2>2, <2>5, ReadShape
  <2>7. merge_rt(rt, T) = rt
    BY <2>2, <2>3, <2>4, <2>6, NothingToMerge
  <2>8. wire' = WriteDoc(merge_rt(rt, T), mem)
    BY DEF Write, T
  <2>9. WriteDoc(ReadRT(wire, S), mem) = wire
    BY <2>2, <2>3, <2>5, NothingDeclaredCopies, Zenon
  <2> QED BY <2>5, <2>7, <2>8, <2>9
<1> QED BY <1>1, PipelineInvariant, PTL DEF Spec, LazyCopyIsIdentical

-----------------------------------------------------------------------------
(* A document on the stream that can be read. *)

(* No two of them have one name.                                           *)
Apart(defs) == \A i, j \in 1..Len(defs) : i # j => defs[i].serial # defs[j].serial

(* An object has a value of a field once, and a pointer is the index of an *)
(* annotation.                                                             *)
ItemOK(w, item, fields) ==
  /\ item[1] < Len(fields)
  /\ LET to == fields[item[1] + 1].to
     IN  to # 0 => item[2] \in 0..(w.stores[to].nelem - 1)

ItemsOK(w, items, fields) ==
  /\ \A i, j \in 1..Len(items) : i # j => items[i][1] # items[j][1]
  /\ \A i \in 1..Len(items) : ItemOK(w, items[i], fields)

WireOK(w) ==
  /\ Apart(w.klasses) /\ Apart(w.stores)
  /\ \A k \in 1..Len(w.klasses) :
       /\ Apart(w.klasses[k].fields)
       /\ \A i \in 1..Len(w.klasses[k].fields) : w.klasses[k].fields[i].to <= Len(w.stores)
       /\ w.klasses[k].serial = "__meta__" => ItemsOK(w, w.doc, w.klasses[k].fields)
  /\ \E k \in 1..Len(w.klasses) : w.klasses[k].serial = "__meta__"
  /\ \A i \in 1..Len(w.stores) :
       /\ w.stores[i].klass < Len(w.klasses)
       /\ w.stores[i].nelem = Len(w.groups[i])
       /\ \A a \in 1..Len(w.groups[i]) :
            ItemsOK(w, w.groups[i][a], w.klasses[w.stores[i].klass + 1].fields)

LEMMA WellFormedIs ==
  ASSUME wire = NoDoc \/ (WireShape(wire) /\ WireOK(wire))
  PROVE  WireWellFormed
<1> DEFINE Distinct(defs) == \A i, j \in DOMAIN defs : i # j => defs[i].serial # defs[j].serial
           Object(items, k) ==
             /\ \A i, j \in DOMAIN items : i # j => items[i][1] # items[j][1]
             /\ \A item \in ToSet(items) :
                  /\ item[1] < Len(k.fields)
                  /\ LET to == k.fields[item[1] + 1].to
                     IN  to # 0 => item[2] < wire.stores[to].nelem
<1> SUFFICES ASSUME wire # NoDoc, WireShape(wire), WireOK(wire) PROVE WireWellFormed
  BY Zenon DEF WireWellFormed
<1>1. /\ wire.klasses \in Seq(WireKlasses) /\ DOMAIN wire.klasses = 1..Len(wire.klasses)
      /\ \A k \in 1..Len(wire.klasses) :
           /\ wire.klasses[k].fields \in Seq(WireFields)
           /\ DOMAIN wire.klasses[k].fields = 1..Len(wire.klasses[k].fields)
      /\ DOMAIN wire.stores = 1..Len(wire.stores)
      /\ \A i \in 1..Len(wire.stores) :
           /\ wire.stores[i].klass \in Nat /\ wire.stores[i].nelem \in Nat
           /\ wire.groups[i] \in Seq(Items) /\ DOMAIN wire.groups[i] = 1..Len(wire.groups[i])
      /\ wire.doc \in Items /\ Len(wire.klasses) \in Nat /\ Len(wire.stores) \in Nat
  BY WireFacts, Zenon
<1>2. Distinct(wire.klasses) /\ Distinct(wire.stores)
  BY <1>1, Zenon DEF WireOK, Apart
<1>3. ASSUME NEW k \in ToSet(wire.klasses)
      PROVE  Distinct(k.fields) /\ \A f \in ToSet(k.fields) : f.to <= Len(wire.stores)
  <2>1. PICK j \in 1..Len(wire.klasses) : wire.klasses[j] = k
    BY <1>1 DEF ToSet
  <2>2. /\ DOMAIN k.fields = 1..Len(k.fields) /\ Apart(k.fields)
        /\ \A i \in 1..Len(k.fields) : k.fields[i].to <= Len(wire.stores)
    BY <1>1, <2>1 DEF WireOK
  <2> QED BY <2>2 DEF Apart, ToSet
<1>4. ASSUME NEW n \in 1..Len(wire.klasses), NEW items \in Items,
             ItemsOK(wire, items, wire.klasses[n].fields)
      PROVE  Object(items, wire.klasses[n])
  <2>1. PICK k : k = wire.klasses[n]
    OBVIOUS
  <2>2. /\ k.fields \in Seq(WireFields) /\ DOMAIN k.fields = 1..Len(k.fields) /\ Len(k.fields) \in Nat
        /\ \A i \in 1..Len(k.fields) : k.fields[i].to \in Nat /\ k.fields[i].to <= Len(wire.stores)
    <3>1. k.fields \in Seq(WireFields) /\ DOMAIN k.fields = 1..Len(k.fields)
          /\ \A i \in 1..Len(k.fields) : k.fields[i].to <= Len(wire.stores)
      BY <1>1, <2>1 DEF WireOK
    <3>2. \A i \in 1..Len(k.fields) : k.fields[i] \in WireFields
      BY <3>1, ElementOfSeq
    <3> QED BY <3>1, <3>2, LenProperties DEF WireFields
  <2>3. DOMAIN items = 1..Len(items) /\ \A i \in 1..Len(items) : items[i][1] \in Nat
    BY ItemsAre
  <2>4. ASSUME NEW item \in ToSet(items)
        PROVE  /\ item[1] < Len(k.fields)
               /\ LET to == k.fields[item[1] + 1].to
                  IN  to # 0 => item[2] < wire.stores[to].nelem
    <3>1. PICK i \in 1..Len(items) : items[i] = item
      BY <2>3 DEF ToSet
    <3>2. item[1] \in Nat /\ ItemOK(wire, item, k.fields)
      BY <1>4, <2>1, <2>3, <3>1 DEF ItemsOK
    <3>3. PICK to : to = k.fields[item[1] + 1].to
      OBVIOUS
    <3>4. item[1] < Len(k.fields) /\ item[1] + 1 \in 1..Len(k.fields)
      BY <2>2, <3>2 DEF ItemOK
    <3>5. to \in Nat /\ to <= Len(wire.stores)
      BY <2>2, <3>3, <3>4
    <3>6. to # 0 => to \in 1..Len(wire.stores) /\ wire.stores[to].nelem \in Nat
      BY <1>1, <3>5
    <3>7. to # 0 => item[2] \in 0..(wire.stores[to].nelem - 1)
      BY <3>2, <3>3 DEF ItemOK
    <3>8. to # 0 => item[2] < wire.stores[to].nelem
      BY <3>6, <3>7
    <3> QED BY <3>3, <3>4, <3>8
  <2>5. \A i, j \in DOMAIN items : i # j => items[i][1] # items[j][1]
    BY <1>4, <2>3 DEF ItemsOK
  <2> QED BY <2>1, <2>4, <2>5
<1>5. Object(wire.doc, FindSerial(wire.klasses, "__meta__"))
  <2>1. PICK k \in 1..Len(wire.klasses) : wire.klasses[k].serial = "__meta__"
    BY DEF WireOK
  <2>2. FindSerial(wire.klasses, "__meta__") = wire.klasses[k]
    <3>1. PICK d : d = CHOOSE x \in ToSet(wire.klasses) : x.serial = "__meta__"
      OBVIOUS
    <3>2. d \in ToSet(wire.klasses) /\ d.serial = "__meta__"
      BY <1>1, <2>1, <3>1, ToSetIs
    <3>3. d = wire.klasses[k]
      BY <1>1, <1>2, <2>1, <3>2 DEF ToSet
    <3> QED BY <1>1, <2>1, <3>1, <3>3 DEF FindSerial
  <2>3. ItemsOK(wire, wire.doc, wire.klasses[k].fields)
    BY <2>1 DEF WireOK
  <2> QED BY <1>1, <1>4, <2>2, <2>3
<1> HIDE DEF Object, Distinct
<1>6. ASSUME NEW i \in DOMAIN wire.stores
      PROVE  /\ wire.stores[i].klass \in 0..(Len(wire.klasses) - 1)
             /\ wire.stores[i].nelem = Len(wire.groups[i])
             /\ \A items \in ToSet(wire.groups[i]) :
                  Object(items, wire.klasses[wire.stores[i].klass + 1])
  <2>1. PICK k \in Nat : k = wire.stores[i].klass
    BY <1>1
  <2>2. k < Len(wire.klasses) /\ wire.stores[i].nelem = Len(wire.groups[i])
    BY <1>1, <2>1 DEF WireOK
  <2>3. ASSUME NEW items \in ToSet(wire.groups[i]) PROVE Object(items, wire.klasses[k + 1])
    <3>1. PICK a \in 1..Len(wire.groups[i]) : wire.groups[i][a] = items
      BY <1>1 DEF ToSet
    <3>2. items \in Items
      BY <1>1, <3>1, ElementOfSeq
    <3>3. ItemsOK(wire, items, wire.klasses[k + 1].fields)
      BY <1>1, <2>1, <3>1 DEF WireOK
    <3>4. k + 1 \in 1..Len(wire.klasses)
      BY <1>1, <2>2
    <3> QED BY <1>4, <3>2, <3>3, <3>4
  <2>4. wire.stores[i].klass \in 0..(Len(wire.klasses) - 1)
    <3>1. PICK c \in Nat : c = Len(wire.klasses)
      BY <1>1
    <3>2. k < c
      BY <2>2, <3>1
    <3>3. k \in 0..(c - 1)
      BY ONLY k \in Nat, c \in Nat, <3>2
    <3> QED BY <2>1, <3>1, <3>3, Zenon
  <2> QED BY <2>1, <2>2, <2>3, <2>4
<1> QED BY <1>2, <1>3, <1>5, <1>6, Zenon DEF WireWellFormed, Object, Distinct

-----------------------------------------------------------------------------
(* Names on the stream. *)

(* The entries e of a runtime were read from the entries u of the stream   *)
(* with the declarations defs.                                             *)
EntriesOf(e, u, defs) ==
  /\ Len(e) \in Nat /\ DOMAIN e = 1..Len(e) /\ Len(u) = Len(e)
  /\ \A i \in 1..Len(e) :
       /\ e[i].serial = u[i].serial
       /\ is_lazy(e[i]) => u[i].serial \notin Serials(defs)
       /\ ~is_lazy(e[i]) => e[i].def \in ToSet(defs) /\ e[i].def.serial = u[i].serial
  /\ Apart(u)

(* A declaration is known by its name and by its serial.                   *)
OneOfEach(A) == \A d, e \in A : d.name = e.name \/ d.serial = e.serial => d = e

(* No two of the entries e are written under the same name.                *)
OutApart(e) == \A i, j \in 1..Len(e) : i # j => Serial(e[i]) # Serial(e[j])

(* The names of e are of those of u or of the declarations A.              *)
NamesOf(e, u, A) ==
  \A i \in 1..Len(e) :
    (\E j \in 1..Len(u) : Serial(e[i]) = u[j].serial) \/ \E d \in A : Serial(e[i]) = d.serial

(* After a merge the declared entries have declarations of A.              *)
LEMMA MergedApart ==
  ASSUME NEW e, NEW u, NEW before, EntriesOf(e, u, before), OneOfEach(ToSet(before)),
         NEW D, NEW defs \in Seq(D), NoDef \notin D, Unambiguous(defs),
         NEW A, OneOfEach(A), ToSet(defs) \subseteq A,
         NEW m, Extends(m, e, defs),
         \A i \in 1..Len(e) : is_lazy(m[i]) <=> is_lazy(e[i]),
         \A i \in 1..Len(e) :
           ~is_lazy(e[i]) => m[i].def \in A /\ m[i].def.name = e[i].def.name,
         \A d \in A : \A i \in 1..Len(e) : d.serial = u[i].serial => d.serial \in Serials(before)
  PROVE  OutApart(m) /\ NamesOf(m, u, A)
<1> DEFINE new == NewDefs(e, defs)
<1>1. PICK a \in Nat, b \in Nat : a = Len(e) /\ b = Len(new)
  BY DEF Extends
<1>2. /\ Len(m) = a + b /\ Len(u) = a /\ DOMAIN e = 1..a
      /\ \A i \in 1..a : m[i].serial = e[i].serial
      /\ \A j \in 1..b : m[a + j].def = new[j]
      /\ \A i \in 1..(a + b) : i \in 1..a \/ \E j \in 1..b : i = a + j
  BY <1>1 DEF Extends, EntriesOf
<1>3. /\ \A j \in 1..b : new[j] \in D /\ new[j] \in A /\ ~Known(e, new[j].name)
      /\ \A i, j \in 1..b : i # j => new[i].name # new[j].name
  <2>1. /\ \A j \in 1..b : new[j] \in D /\ new[j] \in ToSet(defs) /\ ~Known(e, new[j].name)
        /\ DOMAIN new = 1..b /\ Unambiguous(new)
    BY <1>1, NewDefsIs
  <2> QED BY <2>1 DEF Unambiguous
<1> HIDE DEF new
<1>4. ASSUME NEW i \in 1..(a + b), is_lazy(m[i])
      PROVE  /\ i \in 1..a /\ is_lazy(e[i])
             /\ Serial(m[i]) = u[i].serial /\ u[i].serial \notin Serials(before)
  <2>1. i \in 1..a
    BY <1>2, <1>3, <1>4 DEF is_lazy
  <2>2. is_lazy(e[i])
    BY <1>1, <1>4, <2>1
  <2> QED BY <1>1, <1>2, <1>4, <2>1, <2>2 DEF EntriesOf, Serial
<1>5. ASSUME NEW i \in 1..(a + b), ~is_lazy(m[i])
      PROVE  /\ Serial(m[i]) = m[i].def.serial /\ m[i].def \in A
             /\ \/ i \in 1..a /\ ~is_lazy(e[i]) /\ m[i].def.name = e[i].def.name
                \/ \E j \in 1..b : i = a + j /\ m[i].def = new[j]
  <2>1. CASE i \in 1..a
    <3>1. ~is_lazy(e[i])
      BY <1>1, <1>5, <2>1
    <3> QED BY <1>1, <1>5, <2>1, <3>1 DEF Serial
  <2>2. CASE \E j \in 1..b : i = a + j
    <3>1. PICK j \in 1..b : i = a + j
      BY <2>2
    <3>2. m[i].def = new[j] /\ new[j] \in A
      BY <1>2, <1>3, <3>1
    <3> QED BY <1>5, <3>1, <3>2 DEF Serial
  <2> QED BY <1>2, <2>1, <2>2
<1>6. ASSUME NEW i \in 1..(a + b), NEW j \in 1..(a + b), Serial(m[i]) = Serial(m[j]),
             ~is_lazy(m[i]), ~is_lazy(m[j])
      PROVE  i = j
  <2>1. m[i].def = m[j].def
    BY <1>5, <1>6 DEF OneOfEach
  <2>2. ASSUME i \in 1..a, j \in 1..a, ~is_lazy(e[i]), ~is_lazy(e[j]),
               m[i].def.name = e[i].def.name, m[j].def.name = e[j].def.name
        PROVE  i = j
    <3>1. e[i].def \in ToSet(before) /\ e[j].def \in ToSet(before) /\ e[i].def.name = e[j].def.name
      BY <1>1, <2>1, <2>2 DEF EntriesOf
    <3>2. e[i].def = e[j].def
      BY <3>1 DEF OneOfEach
    <3>3. u[i].serial = u[j].serial
      BY <1>1, <2>2, <3>2 DEF EntriesOf
    <3> QED BY <1>1, <1>2, <2>2, <3>3 DEF EntriesOf, Apart
  <2>3. ASSUME NEW x \in 1..a, NEW y \in 1..b, ~is_lazy(e[x]), e[x].def.name = new[y].name
        PROVE  FALSE
    <3>1. Known(e, new[y].name)
      BY <1>2, <2>3 DEF Known
    <3> QED BY <1>3, <3>1
  <2>4. CASE i \in 1..a /\ ~is_lazy(e[i]) /\ m[i].def.name = e[i].def.name
    <3>1. CASE j \in 1..a /\ ~is_lazy(e[j]) /\ m[j].def.name = e[j].def.name
      BY <2>2, <2>4, <3>1
    <3>2. CASE \E y \in 1..b : j = a + y /\ m[j].def = new[y]
      BY <2>1, <2>3, <2>4, <3>2
    <3> QED BY <1>5, <1>6, <3>1, <3>2
  <2>5. CASE \E x \in 1..b : i = a + x /\ m[i].def = new[x]
    <3>1. PICK x \in 1..b : i = a + x /\ m[i].def = new[x]
      BY <2>5
    <3>2. CASE j \in 1..a /\ ~is_lazy(e[j]) /\ m[j].def.name = e[j].def.name
      BY <2>1, <2>3, <3>1, <3>2
    <3>3. CASE \E y \in 1..b : j = a + y /\ m[j].def = new[y]
      BY <1>3, <2>1, <3>1, <3>3
    <3> QED BY <1>5, <1>6, <3>2, <3>3
  <2> QED BY <1>5, <1>6, <2>4, <2>5
<1>7. ASSUME NEW i \in 1..(a + b), NEW j \in 1..(a + b), Serial(m[i]) = Serial(m[j]),
             is_lazy(m[i]), ~is_lazy(m[j])
      PROVE  FALSE
  <2>1. i \in 1..a /\ Serial(m[i]) = u[i].serial /\ u[i].serial \notin Serials(before)
    BY <1>4, <1>7
  <2>2. m[j].def \in A /\ m[j].def.serial = u[i].serial
    BY <1>5, <1>7, <2>1
  <2> QED BY <1>1, <2>1, <2>2
<1>8. ASSUME NEW i \in 1..(a + b), NEW j \in 1..(a + b), Serial(m[i]) = Serial(m[j]),
             is_lazy(m[i]), is_lazy(m[j])
      PROVE  i = j
  <2>1. i \in 1..a /\ j \in 1..a /\ u[i].serial = u[j].serial
    BY <1>4, <1>8
  <2> QED BY <1>2, <2>1 DEF EntriesOf, Apart
<1>9. \A i, j \in 1..(a + b) : i # j => Serial(m[i]) # Serial(m[j])
  BY <1>6, <1>7, <1>8
<1>10. ASSUME NEW i \in 1..(a + b)
       PROVE  (\E j \in 1..Len(u) : Serial(m[i]) = u[j].serial) \/ \E d \in A : Serial(m[i]) = d.serial
  BY <1>2, <1>4, <1>5
<1> QED BY <1>2, <1>9, <1>10 DEF OutApart, NamesOf

LEMMA OneOfEachIn ==
  ASSUME NEW D, NEW defs \in Seq(D), Unambiguous(defs)
  PROVE  OneOfEach(ToSet(defs))
BY OneOfAName DEF OneOfEach

LEMMA EntriesApart ==
  ASSUME NEW D, NoDef \notin D,
         NEW before \in Seq(D), Unambiguous(before), NEW defs \in Seq(D), Unambiguous(defs),
         NEW e, NEW u, EntriesOf(e, u, before), NEW m, Extends(m, e, defs),
         NEW A, OneOfEach(A), ToSet(defs) \subseteq A,
         \A d \in ToSet(before) : d.name \in Names(defs) \/ d \in A,
         \A d \in A : \A i \in 1..Len(e) : d.serial = u[i].serial => d.serial \in Serials(before)
  PROVE  OutApart(m) /\ NamesOf(m, u, A)
<1>1. ASSUME NEW i \in 1..Len(e)
      PROVE  /\ is_lazy(m[i]) <=> is_lazy(e[i])
             /\ ~is_lazy(e[i]) => m[i].def \in A /\ m[i].def.name = e[i].def.name
  <2>1. m[i].def = DefAfter(e[i], defs)
    BY DEF Extends
  <2>2. ~is_lazy(e[i]) => e[i].def \in ToSet(before)
    BY DEF EntriesOf
  <2>3. e[i].def \in D \cup {NoDef}
    BY <2>2, ToSetIs DEF is_lazy
  <2>4. /\ DefAfter(e[i], defs) = NoDef <=> is_lazy(e[i])
        /\ ~is_lazy(e[i]) => DefAfter(e[i], defs).name = e[i].def.name
        /\ ~is_lazy(e[i]) /\ e[i].def.name \in Names(defs) => DefAfter(e[i], defs) \in ToSet(defs)
    BY <2>3, DefAfterIs
  <2>5. ~is_lazy(e[i]) /\ e[i].def.name \notin Names(defs) => DefAfter(e[i], defs) \in A
    BY <2>2 DEF DefAfter
  <2> QED BY <2>1, <2>4, <2>5 DEF is_lazy
<1>2. OneOfEach(ToSet(before))
  BY OneOfEachIn
<1> QED BY <1>1, <1>2, MergedApart

-----------------------------------------------------------------------------
(* What was read. *)

(* The runtime r was read from w with the schema S.                        *)
ReadOf(r, w, S) ==
  /\ RTShape(r, S)
  /\ EntriesOf(r.klasses, w.klasses, KlassesOf(S))
  /\ EntriesOf(r.stores, w.stores, S.stores)
  /\ w.klasses[r.doc].serial = "__meta__"
  /\ \A k \in 1..Len(r.klasses) :
       /\ EntriesOf(r.klasses[k].fields, w.klasses[k].fields, DefsOf(r, S, k))
       /\ \A i \in 1..Len(r.klasses[k].fields) :
            r.klasses[k].fields[i].to = w.klasses[k].fields[i].to
  /\ \A i \in 1..Len(r.stores) :
       /\ r.stores[i].klass = w.stores[i].klass
       /\ is_lazy(r.stores[i]) =>
            r.stores[i].nelem = w.stores[i].nelem /\ r.stores[i].lazy = w.groups[i]
  /\ r.docLazy \in {NoDoc, w.doc}

(* The document of a klass of its own, the others are of the schema.       *)
LEMMA KlassRead ==
  ASSUME NEW r, NEW w, NEW S, GoodSchema(S), ReadOf(r, w, S), NEW k \in 1..Len(r.klasses)
  PROVE  /\ k = r.doc => ~is_lazy(r.klasses[k]) /\ r.klasses[k].def = MetaDef(S)
         /\ k # r.doc /\ ~is_lazy(r.klasses[k]) => r.klasses[k].def \in ToSet(S.klasses)
<1> DEFINE K == r.klasses[k]
<1>1. /\ ~is_lazy(K) => K.def \in ToSet(KlassesOf(S)) /\ K.def.serial = w.klasses[k].serial
      /\ k = r.doc => ~is_lazy(K) /\ IsMeta(K.def)
  BY DEF ReadOf, EntriesOf, RTShape, KlassShape
<1>2. /\ ToSet(KlassesOf(S)) = {MetaDef(S)} \cup ToSet(S.klasses) /\ IsMeta(MetaDef(S))
  BY KlassesOfFacts
<1>3. \A d \in ToSet(S.klasses) : d.name # "Doc"
  BY KlassFacts
<1>4. k # r.doc => w.klasses[k].serial # "__meta__"
  BY DEF ReadOf, EntriesOf, Apart, RTShape
<1> QED BY <1>1, <1>2, <1>3, <1>4 DEF IsMeta

LEMMA ReadOfWire ==
  ASSUME NEW w, WireShape(w), WireOK(w), NEW S, GoodSchema(S), ~Rejects(w, S)
  PROVE  ReadOf(ReadRT(w, S), w, S)
<1> DEFINE r == ReadRT(w, S)
<1>1. RTShape(r, S)
  BY ReadShape
<1>2. /\ r \in RTs
      /\ Len(r.klasses) = Len(w.klasses) /\ Len(r.stores) = Len(w.stores)
      /\ \A k \in 1..Len(w.klasses) : r.klasses[k] = ReadKlass(w.klasses[k], S)
      /\ \A i \in 1..Len(w.stores) : r.stores[i] = ReadStore(w, i, S)
      /\ w.klasses[r.doc].serial = "__meta__"
      /\ r.docLazy = IF S.doc = <<>> THEN w.doc ELSE NoDoc
  <2>1. \E k \in DOMAIN w.klasses : w.klasses[k].serial = "__meta__"
    BY DEF Rejects
  <2> QED BY <2>1, ReadRTIs
<1> HIDE DEF r
<1>3. /\ DOMAIN r.klasses = 1..Len(r.klasses) /\ DOMAIN r.stores = 1..Len(r.stores)
      /\ Len(r.klasses) \in Nat /\ Len(r.stores) \in Nat
  BY <1>2, RTFacts
<1>4. EntriesOf(r.klasses, w.klasses, KlassesOf(S))
  <2>1. ASSUME NEW k \in 1..Len(r.klasses)
        PROVE  /\ r.klasses[k].serial = w.klasses[k].serial
               /\ is_lazy(r.klasses[k]) => w.klasses[k].serial \notin Serials(KlassesOf(S))
               /\ ~is_lazy(r.klasses[k]) => /\ r.klasses[k].def \in ToSet(KlassesOf(S))
                                            /\ r.klasses[k].def.serial = w.klasses[k].serial
    <3>1. w.klasses[k] \in WireKlasses
      BY <1>2, WireFacts
    <3>2. r.klasses[k] = ReadKlass(w.klasses[k], S)
      BY <1>2
    <3> QED BY <3>1, <3>2, ReadKlassIs
  <2> QED BY <1>2, <1>3, <2>1 DEF EntriesOf, WireOK
<1>5. ASSUME NEW i \in 1..Len(w.stores)
      PROVE  /\ r.stores[i].serial = w.stores[i].serial /\ r.stores[i].klass = w.stores[i].klass
             /\ is_lazy(r.stores[i]) => /\ w.stores[i].serial \notin Serials(S.stores)
                                        /\ r.stores[i].nelem = w.stores[i].nelem
                                        /\ r.stores[i].lazy = w.groups[i]
             /\ ~is_lazy(r.stores[i]) => /\ r.stores[i].def \in ToSet(S.stores)
                                         /\ r.stores[i].def.serial = w.stores[i].serial
  <2>1. PICK s : s = ReadStore(w, i, S)
    OBVIOUS
  <2>2. s = r.stores[i]
    BY <1>2, <2>1
  <2>3. w \in Wires /\ Len(w.groups) = Len(w.stores)
    BY DEF WireShape
  <2>4. s.serial = w.stores[i].serial /\ s.klass = w.stores[i].klass
    BY <2>1, <2>3, ReadStoreIs
  <2>5. is_lazy(s) => /\ w.stores[i].serial \notin Serials(S.stores)
                      /\ s.nelem = w.stores[i].nelem /\ s.lazy = w.groups[i]
    BY <2>1, <2>3, ReadStoreIs
  <2>6. ~is_lazy(s) => s.def \in ToSet(S.stores) /\ s.def.serial = w.stores[i].serial
    BY <2>1, <2>3, ReadStoreIs
  <2> QED BY <2>2, <2>4, <2>5, <2>6
<1>6. EntriesOf(r.stores, w.stores, S.stores)
  BY <1>2, <1>3, <1>5 DEF EntriesOf, WireOK
<1>7. ASSUME NEW k \in 1..Len(r.klasses)
      PROVE  /\ EntriesOf(r.klasses[k].fields, w.klasses[k].fields, DefsOf(r, S, k))
             /\ \A i \in 1..Len(r.klasses[k].fields) :
                  r.klasses[k].fields[i].to = w.klasses[k].fields[i].to
  <2>1. PICK x \in WireKlasses : x = w.klasses[k]
    BY <1>2, WireFacts
  <2>2. PICK K : K = ReadKlass(x, S)
    OBVIOUS
  <2>3. K = r.klasses[k]
    BY <1>2, <2>1, <2>2
  <2>4. /\ K \in RTKlasses
        /\ ~is_lazy(K) => K.def \in ToSet(KlassesOf(S)) /\ K.def.serial = x.serial
        /\ Len(K.fields) = Len(x.fields)
        /\ \A i \in 1..Len(x.fields) : K.fields[i] = ReadField(x.fields[i], K.def)
        /\ K.def # NoDef => K.def.fields \in Seq(FieldDefs)
    BY <2>2, ReadKlassIs
  <2>5. K.fields \in Seq(RTFields) /\ x.fields \in Seq(WireFields)
    BY <2>4 DEF RTKlasses, WireKlasses
  <2>6. Len(K.fields) \in Nat /\ DOMAIN K.fields = 1..Len(K.fields)
    BY <2>5, LenProperties
  <2>7. PICK defs : defs = DefsOf(r, S, k)
    OBVIOUS
  <2>8. /\ is_lazy(K) => Serials(defs) = {}
        /\ ~is_lazy(K) => defs = K.def.fields
    <3>1. CASE k = r.doc
      <4>1. ~is_lazy(K) /\ IsMeta(K.def)
        BY <1>1, <2>3, <3>1 DEF RTShape, KlassShape
      <4>2. K.def = MetaDef(S)
        BY <2>4, <4>1, KlassesOfFacts, KlassFacts DEF IsMeta
      <4> QED BY <2>7, <3>1, <4>1, <4>2 DEF DefsOf, MetaDef
    <3>2. CASE k # r.doc
      BY <2>3, <2>7, <3>2 DEF DefsOf, Serials, ToSet
    <3> QED BY <3>1, <3>2
  <2>9. ASSUME NEW i \in 1..Len(K.fields)
        PROVE  /\ K.fields[i].serial = x.fields[i].serial /\ K.fields[i].to = x.fields[i].to
               /\ is_lazy(K.fields[i]) => x.fields[i].serial \notin Serials(defs)
               /\ ~is_lazy(K.fields[i]) => /\ K.fields[i].def \in ToSet(defs)
                                           /\ K.fields[i].def.serial = x.fields[i].serial
    <3>1. PICK f \in WireFields : f = x.fields[i]
      BY <2>4, <2>5, ElementOfSeq
    <3>2. PICK g : g = ReadField(f, K.def)
      OBVIOUS
    <3>3. g = K.fields[i]
      BY <2>4, <3>1, <3>2
    <3>4. /\ g.serial = f.serial /\ g.to = f.to
          /\ ~is_lazy(g) => K.def # NoDef /\ g.def \in ToSet(K.def.fields) /\ g.def.serial = f.serial
          /\ is_lazy(g) => K.def = NoDef \/ f.serial \notin Serials(K.def.fields)
      BY <2>4, <3>2, ReadFieldIs
    <3> QED BY <2>8, <3>1, <3>3, <3>4 DEF is_lazy
  <2>10. Apart(x.fields)
    BY <1>2, <2>1 DEF WireOK
  <2>11. EntriesOf(K.fields, x.fields, defs)
    BY <2>4, <2>6, <2>9, <2>10 DEF EntriesOf
  <2> QED BY <2>1, <2>3, <2>7, <2>9, <2>11
<1>8. ReadOf(r, w, S)
  BY <1>1, <1>2, <1>4, <1>5, <1>6, <1>7 DEF ReadOf
<1> QED BY <1>8 DEF r

(* A new document is read, as it were, from one that has only the klass of *)
(* the document.                                                           *)
NoWire == [klasses |-> <<[serial |-> "__meta__", fields |-> <<>>]>>, stores |-> <<>>,
           doc |-> <<>>, groups |-> <<>>]

LEMMA ReadOfNothing ==
  ASSUME NEW S, GoodSchema(S)
  PROVE  ReadOf(EmptyRT(S), NoWire, S) /\ WireShape(NoWire) /\ WireOK(NoWire)
<1> DEFINE r == EmptyRT(S)
           K == [serial |-> "__meta__", def |-> MetaDef(S), fields |-> <<>>]
           k == [serial |-> "__meta__", fields |-> <<>>]
<1>1. RTShape(r, S)
  BY EmptyShape
<1>2. r.klasses = <<K>> /\ r.stores = <<>> /\ r.doc = 1 /\ r.docLazy = NoDoc
  BY DEF EmptyRT
<1>3. NoWire.klasses = <<k>> /\ NoWire.stores = <<>> /\ NoWire.doc = <<>> /\ NoWire.groups = <<>>
  BY DEF NoWire
<1>4. Len(r.klasses) = 1 /\ DOMAIN r.klasses = 1..1 /\ r.klasses[1] = K
      /\ Len(NoWire.klasses) = 1 /\ NoWire.klasses[1] = k
      /\ Len(r.stores) = 0 /\ DOMAIN r.stores = 1..0 /\ Len(NoWire.stores) = 0
      /\ Len(<<>>) = 0 /\ DOMAIN <<>> = 1..0
  BY <1>2, <1>3
<1>5. ~is_lazy(K) /\ K.def \in ToSet(KlassesOf(S)) /\ K.def.serial = "__meta__"
  <2>1. MetaDef(S) \in KlassDefs
    BY DocFacts
  <2>2. MetaDef(S) \in ToSet(KlassesOf(S)) /\ IsMeta(MetaDef(S))
    BY KlassesOfFacts
  <2> QED BY <2>1, <2>2, NothingAssumption DEF is_lazy, IsMeta
<1> HIDE DEF r
<1>6. EntriesOf(r.klasses, NoWire.klasses, KlassesOf(S))
  BY <1>4, <1>5 DEF EntriesOf, Apart
<1>7. EntriesOf(r.stores, NoWire.stores, S.stores)
  BY <1>4 DEF EntriesOf, Apart
<1>8. EntriesOf(K.fields, k.fields, DefsOf(r, S, 1))
  BY <1>4 DEF EntriesOf, Apart
<1>9. ReadOf(r, NoWire, S)
  BY <1>1, <1>2, <1>4, <1>6, <1>7, <1>8 DEF ReadOf
<1>10. NoWire \in Wires
  <2>1. k \in WireKlasses
    <3>1. <<>> \in Seq(WireFields) /\ "__meta__" \in STRING
      BY StringsAssumption, EmptySeq
    <3> QED BY <3>1 DEF WireKlasses
  <2>2. <<k>> \in Seq(WireKlasses)
    BY <2>1
  <2>3. <<>> \in Seq(WireStores) /\ <<>> \in Items /\ <<>> \in Seq(Seq(Items))
    BY EmptySeq DEF Items
  <2> HIDE DEF k
  <2>4. NoWire = [klasses |-> <<k>>, stores |-> <<>>, doc |-> <<>>, groups |-> <<>>]
    BY DEF NoWire, k
  <2> QED BY <2>2, <2>3, <2>4 DEF Wires
<1>11. WireShape(NoWire)
  BY <1>3, <1>10 DEF WireShape
<1>12. WireOK(NoWire)
  BY <1>3, <1>4 DEF WireOK, Apart, ItemsOK
<1> QED BY <1>9, <1>11, <1>12 DEF r

-----------------------------------------------------------------------------
(* The names that are written. *)

(* The names of fields that are written with T and not read with S.        *)
FieldsAdded(S, T) ==
  (Serials(T.doc) \ Serials(S.doc)) \cup
  UNION {Serials(Named(T.klasses, n).fields) \ Serials(Named(S.klasses, n).fields) :
           n \in Names(S.klasses)}

(* The document has none of the names that are added.                      *)
NoClash(S, T, w) ==
  /\ \A k \in 1..Len(w.klasses) :
       /\ w.klasses[k].serial \notin Serials(T.klasses) \ Serials(S.klasses)
       /\ \A i \in 1..Len(w.klasses[k].fields) :
            w.klasses[k].fields[i].serial \notin FieldsAdded(S, T)
  /\ \A i \in 1..Len(w.stores) : w.stores[i].serial \notin Serials(T.stores) \ Serials(S.stores)

FieldsOf(defs, S) ==
  /\ defs \in Seq(FieldDefs) /\ Unambiguous(defs) /\ defs \in AllFields(S)
  /\ \A d \in ToSet(defs) : d.to # NoStore => d.to \in Names(S.stores) /\ d.init = Unset

LEMMA FieldsOfDoc ==
  ASSUME NEW S, GoodSchema(S)
  PROVE  FieldsOf(S.doc, S)
BY DocFacts DEF FieldsOf, AllFields

LEMMA FieldsOfKlass ==
  ASSUME NEW S, GoodSchema(S), NEW d \in ToSet(S.klasses)
  PROVE  FieldsOf(d.fields, S)
BY KlassFacts DEF FieldsOf, AllFields

(* What the merge makes of a klass.                                        *)
LEMMA KlassMerged ==
  ASSUME NEW r, NEW w, NEW S, NEW T, GoodSchema(S), GoodSchema(T), SameSchema(S, T),
         ReadOf(r, w, S), NEW k \in 1..Len(r.klasses)
  PROVE  LET q == merge_rt(r, T)
             K == r.klasses[k]
             L == q.klasses[k]
             B == DefsOf(r, S, k)
             A == DefsOf(q, T, k)
         IN  /\ is_lazy(L) <=> is_lazy(K)
             /\ is_lazy(K) => L.fields = K.fields
             /\ ~is_lazy(K) =>
                  /\ FieldsOf(B, S) /\ FieldsOf(A, T) /\ SameButSerials(B, A)
                  /\ Serials(A) \ Serials(B) \subseteq FieldsAdded(S, T)
                  /\ L.fields = merge_rtschema_fields(K.fields, A, MergeStores(r, T))
                  /\ Extends(L.fields, K.fields, A)
<1> DEFINE q == merge_rt(r, T)
           stores == MergeStores(r, T)
           K == r.klasses[k]
           L == q.klasses[k]
           B == DefsOf(r, S, k)
           A == DefsOf(q, T, k)
<1>1. RTShape(r, S) /\ r \in RTs /\ r.doc \in 1..Len(r.klasses)
      /\ ~is_lazy(r.klasses[r.doc]) /\ IsMeta(r.klasses[r.doc].def)
  BY DEF ReadOf, RTShape, KlassShape
<1>2. /\ Grown(r, q) /\ StoresIn(stores, q) /\ StoresKnown(stores, T)
      /\ is_lazy(L) <=> is_lazy(K)
  BY <1>1, MergeGrows
<1>3. q.doc = r.doc /\ L = MergeKlass(K, k = r.doc, T, stores)
  BY <1>1, MergeIs
<1>4. K \in RTKlasses /\ FieldsShape(r, K.fields, B) /\ (k = r.doc => ~is_lazy(K) /\ IsMeta(K.def))
  BY <1>1, RTFacts DEF RTShape, KlassShape
<1>5. /\ L.def = DefAfter(K, T.klasses)
      /\ L.fields = IF k = r.doc THEN merge_rtschema_fields(K.fields, T.doc, stores)
                    ELSE IF ~is_lazy(K) /\ K.def.name \in Names(T.klasses)
                    THEN merge_rtschema_fields(K.fields, L.def.fields, stores)
                    ELSE K.fields
  <2>1. PICK x \in RTKlasses, isDoc \in BOOLEAN : x = K /\ isDoc = (k = r.doc)
    BY <1>4
  <2>2. isDoc => ~is_lazy(x) /\ IsMeta(x.def)
    BY <1>4, <2>1
  <2>3. LET y == MergeKlass(x, isDoc, T, stores)
        IN  /\ y.def = DefAfter(x, T.klasses)
            /\ y.fields = IF isDoc THEN merge_rtschema_fields(x.fields, T.doc, stores)
                          ELSE IF ~is_lazy(x) /\ x.def.name \in Names(T.klasses)
                          THEN merge_rtschema_fields(x.fields, DefAfter(x, T.klasses).fields, stores)
                          ELSE x.fields
    BY <1>2, <2>2, MergeKlassIs
  <2>4. L = MergeKlass(x, isDoc, T, stores)
    BY <1>3, <2>1
  <2> HIDE DEF K, L
  <2> QED BY <2>1, <2>3, <2>4
<1>6. A = IF k = r.doc THEN T.doc ELSE IF is_lazy(L) THEN <<>> ELSE L.def.fields
  BY <1>3 DEF DefsOf
<1>7. B = IF k = r.doc THEN S.doc ELSE IF is_lazy(K) THEN <<>> ELSE K.def.fields
  BY DEF DefsOf
<1> DEFINE Goal == /\ FieldsOf(B, S) /\ FieldsOf(A, T) /\ SameButSerials(B, A)
                   /\ Serials(A) \ Serials(B) \subseteq FieldsAdded(S, T)
                   /\ L.fields = merge_rtschema_fields(K.fields, A, stores)
<1>8. k # r.doc /\ ~is_lazy(K) => K.def \in ToSet(S.klasses)
  BY KlassRead
<1> HIDE DEF K, L, A, B, q, stores
<1>9. ASSUME k = r.doc PROVE Goal
  <2>1. A = T.doc /\ B = S.doc
    BY <1>6, <1>7, <1>9
  <2>2. SameButSerials(B, A) /\ FieldsOf(B, S) /\ FieldsOf(A, T)
    BY <2>1, FieldsOfDoc DEF SameSchema
  <2>3. Serials(A) \ Serials(B) \subseteq FieldsAdded(S, T)
    BY <2>1 DEF FieldsAdded
  <2> QED BY <1>5, <1>9, <2>1, <2>2, <2>3
<1>10. ASSUME k # r.doc, ~is_lazy(K) PROVE Goal
  <2>1. /\ K.def \in ToSet(S.klasses) /\ K.def.name \in Names(S.klasses)
        /\ K.def = Named(S.klasses, K.def.name)
    BY <1>8, <1>10, KlassFacts, NamedIs
  <2>2. K.def.name \in Names(T.klasses) /\ L.def = Named(T.klasses, K.def.name)
    BY <1>5, <1>10, <2>1, SameKlasses DEF DefAfter
  <2>3. L.def \in ToSet(T.klasses)
    BY <2>2, KlassFacts, NamedOf
  <2>4. A = L.def.fields /\ B = K.def.fields
    BY <1>2, <1>6, <1>7, <1>10 DEF K, L, q
  <2>5. FieldsOf(B, S) /\ FieldsOf(A, T)
    BY <2>1, <2>3, <2>4, FieldsOfKlass
  <2>6. SameButSerials(B, A)
    BY <2>1, <2>2, <2>4, SameKlasses
  <2>7. Serials(A) \ Serials(B) \subseteq FieldsAdded(S, T)
    <3>1. PICK n \in Names(S.klasses) : n = K.def.name
      BY <2>1
    <3>2. Serials(A) \ Serials(B) = Serials(Named(T.klasses, n).fields) \ Serials(Named(S.klasses, n).fields)
      BY <2>1, <2>2, <2>4, <3>1
    <3> QED BY <3>2 DEF FieldsAdded
  <2>8. L.fields = merge_rtschema_fields(K.fields, A, stores)
    BY <1>5, <1>10, <2>2, <2>4
  <2> QED BY <2>5, <2>6, <2>7, <2>8
<1>11. ASSUME ~is_lazy(K) PROVE Goal
  BY <1>9, <1>10, <1>11
<1>12. ASSUME ~is_lazy(K) PROVE Extends(L.fields, K.fields, A)
  <2>1. FieldsOf(B, S) /\ FieldsOf(A, T) /\ SameButSerials(B, A)
        /\ L.fields = merge_rtschema_fields(K.fields, A, stores)
    BY <1>11, <1>12
  <2> QED BY <1>2, <1>4, <2>1, MergedFieldShape DEF FieldsOf
<1>13. is_lazy(K) => L.fields = K.fields
  BY <1>4, <1>5
<1>14. is_lazy(L) <=> is_lazy(K)
  BY <1>2 DEF K, L, q
<1> QED BY <1>11, <1>12, <1>13, <1>14 DEF K, L, A, B, q, stores

LEMMA FieldsApart ==
  ASSUME NEW S, NEW T, NEW B, FieldsOf(B, S), NEW A, FieldsOf(A, T), SameButSerials(B, A),
         NEW e, NEW u, EntriesOf(e, u, B), NEW m, Extends(m, e, A),
         \A i \in 1..Len(e) : u[i].serial \notin Serials(A) \ Serials(B)
  PROVE  OutApart(m) /\ NamesOf(m, u, ToSet(A))
<1>1. /\ A \in Seq(FieldDefs) /\ Unambiguous(A) /\ B \in Seq(FieldDefs) /\ Unambiguous(B)
      /\ NoDef \notin FieldDefs
  BY NothingAssumption DEF FieldsOf
<1>2. Names(A) = Names(B)
  BY <1>1, SameFields
<1>3. OneOfEach(ToSet(A))
  BY <1>1, OneOfEachIn
<1>4. \A d \in ToSet(B) : d.name \in Names(A)
  BY <1>2 DEF Names
<1>5. \A d \in ToSet(A) : \A i \in 1..Len(e) : d.serial = u[i].serial => d.serial \in Serials(B)
  BY DEF Serials
<1> QED BY <1>1, <1>3, <1>4, <1>5, EntriesApart

LEMMA SameItself == ASSUME NEW defs \in Seq(FieldDefs) PROVE SameButSerials(defs, defs)
<1>1. ASSUME NEW d \in FieldDefs PROVE Alike(d, d)
  BY DEF FieldDefs, Alike
<1> QED BY <1>1, ElementOfSeq, LenProperties DEF SameButSerials

(* The fields of a klass that only the schema has.                         *)
LEMMA NewKlassFields ==
  ASSUME NEW r, NEW S, NEW T, GoodSchema(S), GoodSchema(T), SameSchema(S, T), RTShape(r, S),
         NEW j \in 1..Len(NewDefs(r.klasses, T.klasses))
  PROVE  LET d == NewDefs(r.klasses, T.klasses)[j]
             q == merge_rt(r, T)
             L == q.klasses[Len(r.klasses) + j]
         IN  /\ d \in ToSet(T.klasses) /\ FieldsOf(d.fields, T)
             /\ L.def = d /\ Extends(L.fields, <<>>, d.fields)
             /\ L.fields = merge_rtschema_fields(<<>>, d.fields, MergeStores(r, T))
<1> DEFINE q == merge_rt(r, T)
           L == q.klasses[Len(r.klasses) + j]
           stores == MergeStores(r, T)
<1>1. r \in RTs /\ r.doc \in 1..Len(r.klasses)
      /\ ~is_lazy(r.klasses[r.doc]) /\ IsMeta(r.klasses[r.doc].def)
  BY DEF RTShape, KlassShape
<1>2. Grown(r, q) /\ StoresIn(stores, q) /\ StoresKnown(stores, T)
  BY MergeGrows
<1>3. PICK d : d = NewDefs(r.klasses, T.klasses)[j]
  OBVIOUS
<1>4. d \in ToSet(T.klasses)
  BY <1>3, KlassFacts, NewDefsIs
<1>5. L = NewKlass(d, stores)
  BY <1>1, <1>3, MergeIs
<1>6. L.def = d /\ L.fields = merge_rtschema_fields(<<>>, d.fields, stores)
  BY <1>2, <1>4, <1>5, NewKlassIs
<1>7. FieldsOf(d.fields, T) /\ SameButSerials(d.fields, d.fields)
  BY <1>4, FieldsOfKlass, SameItself DEF FieldsOf
<1>8. FieldsShape(r, <<>>, d.fields)
  BY EmptySeq DEF FieldsShape
<1>9. Extends(L.fields, <<>>, d.fields)
  BY <1>2, <1>6, <1>7, <1>8, MergedFieldShape DEF FieldsOf
<1> QED BY <1>3, <1>4, <1>6, <1>7, <1>9

FieldSerials(T) == UNION {Serials(defs) : defs \in AllFields(T)}

(* The name is that of a field on the stream w or of one that T declares.  *)
FieldOf(serial, w, T) ==
  \/ serial \in FieldSerials(T)
  \/ \E l \in 1..Len(w.klasses) : \E j \in 1..Len(w.klasses[l].fields) :
       serial = w.klasses[l].fields[j].serial

LEMMA MergedKlassNames ==
  ASSUME NEW r, NEW w, NEW S, NEW T, GoodSchema(S), GoodSchema(T), SameSchema(S, T),
         ReadOf(r, w, S), NoClash(S, T, w),
         NEW k \in 1..Len(merge_rt(r, T).klasses)
  PROVE  LET fields == merge_rt(r, T).klasses[k].fields
         IN  /\ OutApart(fields)
             /\ \A i \in 1..Len(fields) : FieldOf(Serial(fields[i]), w, T)
<1> DEFINE q == merge_rt(r, T)
           fields == q.klasses[k].fields
           new == NewDefs(r.klasses, T.klasses)
           Goal == /\ OutApart(fields)
                   /\ \A i \in 1..Len(fields) : FieldOf(Serial(fields[i]), w, T)
<1>1. RTShape(r, S) /\ Len(w.klasses) = Len(r.klasses)
  BY DEF ReadOf, EntriesOf
<1>2. Extends(q.klasses, r.klasses, T.klasses)
  BY <1>1, MergeIs DEF RTShape, KlassShape
<1>3. k \in 1..Len(r.klasses) \/ \E j \in 1..Len(new) : k = Len(r.klasses) + j
  BY <1>2 DEF Extends
<1> HIDE DEF q, fields, new
<1>4. ASSUME NEW A, A \in AllFields(T), NEW u, NamesOf(fields, u, ToSet(A)),
             u = <<>> \/ (k \in 1..Len(w.klasses) /\ u = w.klasses[k].fields),
             NEW i \in 1..Len(fields)
      PROVE  FieldOf(Serial(fields[i]), w, T)
  <2>1. (\E j \in 1..Len(u) : Serial(fields[i]) = u[j].serial)
        \/ \E d \in ToSet(A) : Serial(fields[i]) = d.serial
    BY <1>4 DEF NamesOf
  <2>2. CASE \E j \in 1..Len(u) : Serial(fields[i]) = u[j].serial
    <3>1. u # <<>>
      BY <2>2, EmptySeq
    <3> QED BY <1>4, <2>2, <3>1 DEF FieldOf
  <2>3. CASE \E d \in ToSet(A) : Serial(fields[i]) = d.serial
    <3>1. Serial(fields[i]) \in Serials(A)
      BY <2>3 DEF Serials
    <3> QED BY <1>4, <3>1 DEF FieldSerials, FieldOf
  <2> QED BY <2>1, <2>2, <2>3
<1>5. ASSUME k \in 1..Len(r.klasses) PROVE Goal
  <2> DEFINE K == r.klasses[k]
             u == w.klasses[k].fields
  <2>1. EntriesOf(K.fields, u, DefsOf(r, S, k))
    BY <1>5 DEF ReadOf
  <2>2. k # r.doc /\ is_lazy(K) => DefsOf(r, S, k) = <<>>
    BY DEF DefsOf
  <2>3. k = r.doc => ~is_lazy(K)
    BY <1>5, KlassRead
  <2>4. \A i \in 1..Len(u) : u[i].serial \notin FieldsAdded(S, T)
    BY <1>1, <1>5 DEF NoClash
  <2>5. is_lazy(K) => fields = K.fields
    BY <1>5, KlassMerged DEF fields, q
  <2>6. ASSUME ~is_lazy(K)
        PROVE  \E A, B : /\ FieldsOf(B, S) /\ FieldsOf(A, T) /\ SameButSerials(B, A)
                         /\ Serials(A) \ Serials(B) \subseteq FieldsAdded(S, T)
                         /\ Extends(fields, K.fields, A) /\ B = DefsOf(r, S, k)
    <3>1. PICK A, B : A = DefsOf(q, T, k) /\ B = DefsOf(r, S, k)
      OBVIOUS
    <3>2. /\ FieldsOf(B, S) /\ FieldsOf(A, T) /\ SameButSerials(B, A)
          /\ Serials(A) \ Serials(B) \subseteq FieldsAdded(S, T)
          /\ Extends(fields, K.fields, A)
      BY <1>5, <2>6, <3>1, KlassMerged DEF fields, q
    <3> QED BY <3>1, <3>2
  <2> HIDE DEF K, u
  <2>7. CASE is_lazy(K)
    <3>1. \A i \in 1..Len(fields) : is_lazy(fields[i]) /\ Serial(fields[i]) = u[i].serial
          /\ Len(u) = Len(fields)
      BY <2>1, <2>2, <2>3, <2>5, <2>7 DEF EntriesOf, ToSet, Serial
    <3>2. OutApart(fields)
      BY <2>1, <2>5, <2>7, <3>1 DEF EntriesOf, Apart, OutApart
    <3>3. \A i \in 1..Len(fields) : FieldOf(Serial(fields[i]), w, T)
      BY <1>1, <1>5, <3>1 DEF u, FieldOf
    <3> QED BY <3>2, <3>3
  <2>8. CASE ~is_lazy(K)
    <3>1. PICK A, B : /\ FieldsOf(B, S) /\ FieldsOf(A, T) /\ SameButSerials(B, A)
                      /\ Serials(A) \ Serials(B) \subseteq FieldsAdded(S, T)
                      /\ Extends(fields, K.fields, A) /\ B = DefsOf(r, S, k)
      BY <2>6, <2>8
    <3>2. \A i \in 1..Len(K.fields) : u[i].serial \notin Serials(A) \ Serials(B)
      BY <2>1, <2>4, <3>1 DEF EntriesOf
    <3>3. OutApart(fields) /\ NamesOf(fields, u, ToSet(A))
      BY <2>1, <3>1, <3>2, FieldsApart
    <3>4. A \in AllFields(T)
      BY <3>1 DEF FieldsOf
    <3> QED BY <1>1, <1>4, <1>5, <3>3, <3>4 DEF u
  <2> QED BY <2>7, <2>8
<1>6. ASSUME NEW j \in 1..Len(new), k = Len(r.klasses) + j PROVE Goal
  <2>1. PICK d : d = new[j]
    OBVIOUS
  <2>2. FieldsOf(d.fields, T) /\ Extends(fields, <<>>, d.fields)
    BY <1>1, <1>6, <2>1, NewKlassFields DEF fields, q, new
  <2>3. EntriesOf(<<>>, <<>>, d.fields)
    BY EmptySeq DEF EntriesOf, Apart
  <2>4. SameButSerials(d.fields, d.fields)
    BY <2>2, SameItself DEF FieldsOf
  <2>5. OutApart(fields) /\ NamesOf(fields, <<>>, ToSet(d.fields))
    BY <2>2, <2>3, <2>4, FieldsApart
  <2>6. d.fields \in AllFields(T)
    BY <2>2 DEF FieldsOf
  <2> QED BY <1>4, <2>5, <2>6
<1>7. Goal
  BY <1>3, <1>5, <1>6
<1> QED BY <1>7 DEF fields, q

LEMMA MergedStoreNames ==
  ASSUME NEW r, NEW w, NEW S, NEW T, GoodSchema(S), GoodSchema(T), SameSchema(S, T),
         ReadOf(r, w, S), NoClash(S, T, w)
  PROVE  LET q == merge_rt(r, T)
         IN  /\ OutApart(q.stores) /\ NamesOf(q.stores, w.stores, ToSet(T.stores))
             /\ OutApart(q.klasses)
             /\ NamesOf(q.klasses, w.klasses, {MetaDef(S)} \cup ToSet(T.klasses))
<1> DEFINE q == merge_rt(r, T)
<1>1. /\ Extends(q.klasses, r.klasses, T.klasses) /\ Extends(q.stores, r.stores, T.stores)
      /\ EntriesOf(r.klasses, w.klasses, KlassesOf(S)) /\ EntriesOf(r.stores, w.stores, S.stores)
  BY MergeIs DEF ReadOf, RTShape, KlassShape
<1> HIDE DEF q
<1>2. OutApart(q.stores) /\ NamesOf(q.stores, w.stores, ToSet(T.stores))
  <2>1. /\ S.stores \in Seq(StoreDefs) /\ Unambiguous(S.stores)
        /\ T.stores \in Seq(StoreDefs) /\ Unambiguous(T.stores) /\ NoDef \notin StoreDefs
    BY StoreFacts, NothingAssumption
  <2>2. OneOfEach(ToSet(T.stores))
    BY <2>1, OneOfEachIn
  <2>3. \A d \in ToSet(S.stores) : d.name \in Names(T.stores)
    BY SameStores DEF Names
  <2>4. \A d \in ToSet(T.stores) : \A i \in 1..Len(r.stores) :
          d.serial = w.stores[i].serial => d.serial \in Serials(S.stores)
    <3>1. \A d \in ToSet(T.stores) : d.serial \in Serials(T.stores)
      BY DEF Serials
    <3> QED BY <1>1, <3>1 DEF NoClash, EntriesOf
  <2> QED BY <1>1, <2>1, <2>2, <2>3, <2>4, EntriesApart
<1>3. OutApart(q.klasses) /\ NamesOf(q.klasses, w.klasses, {MetaDef(S)} \cup ToSet(T.klasses))
  <2> DEFINE A == {MetaDef(S)} \cup ToSet(T.klasses)
  <2>1. /\ KlassesOf(S) \in Seq(KlassDefs) /\ Unambiguous(KlassesOf(S))
        /\ ToSet(KlassesOf(S)) = {MetaDef(S)} \cup ToSet(S.klasses) /\ IsMeta(MetaDef(S))
    BY KlassesOfFacts
  <2>2. T.klasses \in Seq(KlassDefs) /\ Unambiguous(T.klasses) /\ NoDef \notin KlassDefs
        /\ \A d \in ToSet(T.klasses) : d.name # "Doc" /\ d.serial # "__meta__"
    BY KlassFacts, NothingAssumption
  <2>3. OneOfEach(ToSet(T.klasses))
    BY <2>2, OneOfEachIn
  <2>4. OneOfEach(A)
    BY <2>1, <2>2, <2>3 DEF OneOfEach, IsMeta
  <2>5. \A d \in ToSet(KlassesOf(S)) : d.name \in Names(T.klasses) \/ d \in A
    <3>1. Names(T.klasses) = Names(S.klasses)
      BY SameKlasses
    <3>2. \A d \in ToSet(S.klasses) : d.name \in Names(S.klasses)
      BY DEF Names
    <3> QED BY <2>1, <3>1, <3>2
  <2>6. \A d \in A : \A i \in 1..Len(r.klasses) :
          d.serial = w.klasses[i].serial => d.serial \in Serials(KlassesOf(S))
    <3>1. \A d \in ToSet(T.klasses) : d.serial \in Serials(T.klasses)
      BY DEF Serials
    <3>2. Serials(S.klasses) \subseteq Serials(KlassesOf(S)) /\ MetaDef(S).serial \in Serials(KlassesOf(S))
      BY <2>1 DEF Serials
    <3>3. ASSUME NEW d \in ToSet(T.klasses), NEW i \in 1..Len(r.klasses),
                 d.serial = w.klasses[i].serial
          PROVE  d.serial \in Serials(S.klasses)
      <4>1. i \in 1..Len(w.klasses)
        BY <1>1 DEF EntriesOf
      <4> QED BY <3>1, <3>3, <4>1 DEF NoClash
    <3> QED BY <3>2, <3>3
  <2> HIDE DEF A
  <2>7. ToSet(T.klasses) \subseteq A
    BY DEF A
  <2>8. OutApart(q.klasses) /\ NamesOf(q.klasses, w.klasses, A)
    BY <1>1, <2>1, <2>2, <2>4, <2>5, <2>6, <2>7, EntriesApart
  <2> QED BY <2>8 DEF A
<1> QED BY <1>2, <1>3 DEF q

-----------------------------------------------------------------------------
(* The objects that are written. *)

(* A pointer in memory is null or the index of an annotation; no other     *)
(* field is without a value that has one at first.                         *)
ValueOK(m, v, d) ==
  /\ v = Unset => d.init = Unset
  /\ d.to # NoStore => v = Unset \/ v \in 0..(Len(m.stores[d.to]) - 1)

ObjectOK(m, o, defs) == \A n \in Names(defs) : ValueOK(m, o.val[n], Named(defs, n))

(* What was kept of an object of a klass with the given fields.            *)
KeptOK(w, items, fields) ==
  ItemsOK(w, items, fields) /\ \A i \in 1..Len(items) : KeptLazily(fields[items[i][1] + 1])

(* The document in memory, that was read from w with the runtime r.        *)
MemOK(m, S, r, w) ==
  /\ ObjectOK(m, m.doc, S.doc)
  /\ KeptOK(w, m.doc.lazy, r.klasses[r.doc].fields)
  /\ \A n \in Names(S.stores) : \A a \in 1..Len(m.stores[n]) :
       /\ ObjectOK(m, m.stores[n][a], FieldsIn(S, n))
       /\ ~Known(r.stores, n) => m.stores[n][a].lazy = <<>>
  /\ \A i \in 1..Len(r.stores) : ~is_lazy(r.stores[i]) =>
       LET n == r.stores[i].def.name
       IN  /\ w.stores[i].nelem <= Len(m.stores[n])
           /\ \A a \in 1..Len(m.stores[n]) :
                KeptOK(w, m.stores[n][a].lazy, r.klasses[r.stores[i].klass + 1].fields)

(* The fields f are the first of the fields g.                             *)
Begins(f, g) ==
  /\ Len(f) \in Nat /\ Len(g) \in Nat /\ Len(f) <= Len(g)
  /\ \A i \in 1..Len(f) : g[i].to = f[i].to

(* The document v has the stores of w, and no fewer annotations.           *)
Sizes(w, v) ==
  /\ Len(w.stores) \in Nat /\ Len(v.stores) \in Nat /\ Len(w.stores) <= Len(v.stores)
  /\ \A i \in 1..Len(w.stores) :
       /\ w.stores[i].nelem \in Nat /\ v.stores[i].nelem \in Nat
       /\ w.stores[i].nelem <= v.stores[i].nelem

LEMMA ItemsGrow ==
  ASSUME NEW w, NEW v, Sizes(w, v), NEW f, NEW g, Begins(f, g),
         \A i \in 1..Len(f) : f[i].to \in Nat /\ f[i].to <= Len(w.stores),
         NEW items \in Items, ItemsOK(w, items, f)
  PROVE  ItemsOK(v, items, g)
<1>1. ASSUME NEW i \in 1..Len(items) PROVE ItemOK(v, items[i], g)
  <2>1. PICK id \in Nat : id = items[i][1]
    BY ItemsAre
  <2>2. PICK x : x = items[i][2]
    OBVIOUS
  <2>3. id < Len(f) /\ (f[id + 1].to # 0 => x \in 0..(w.stores[f[id + 1].to].nelem - 1))
    BY <2>1, <2>2 DEF ItemsOK, ItemOK
  <2>4. id + 1 \in 1..Len(f) /\ id < Len(g)
    BY <2>3 DEF Begins
  <2>5. PICK to \in Nat : to = f[id + 1].to /\ to <= Len(w.stores) /\ to = g[id + 1].to
    BY <2>4 DEF Begins
  <2>6. to # 0 => x \in 0..(v.stores[to].nelem - 1)
    <3>1. to # 0 => to \in 1..Len(w.stores)
      BY <2>5 DEF Sizes
    <3>2. to # 0 => x \in 0..(w.stores[to].nelem - 1)
      BY <2>3, <2>5
    <3> QED BY <3>1, <3>2 DEF Sizes
  <2> QED BY <2>1, <2>2, <2>4, <2>5, <2>6 DEF ItemOK
<1> QED BY <1>1 DEF ItemsOK

(* What was kept of an object is not written from memory.                  *)
LEMMA KeptStays ==
  ASSUME NEW B \in Seq(FieldDefs), NEW A \in Seq(FieldDefs), Unambiguous(B), Unambiguous(A),
         SameButSerials(B, A), NEW r, NEW e, FieldsShape(r, e, B),
         NEW fields, Extends(fields, e, A), Begins(e, fields),
         NEW w, NEW items \in Items, KeptOK(w, items, e)
  PROVE  \A i \in 1..Len(items) :
           items[i][1] + 1 \in 1..Len(fields) /\ ~Written(fields[items[i][1] + 1])
<1>1. /\ e \in Seq(RTFields) /\ Len(fields) \in Nat /\ Len(e) \in Nat /\ Len(e) <= Len(fields)
      /\ \A i \in 1..Len(items) : items[i][1] \in Nat
  BY ItemsAre DEF FieldsShape, Begins
<1> SUFFICES ASSUME NEW i \in 1..Len(items)
             PROVE  items[i][1] + 1 \in 1..Len(fields) /\ ~Written(fields[items[i][1] + 1])
  OBVIOUS
<1>2. PICK id \in Nat : id = items[i][1]
  BY <1>1
<1>3. id < Len(e) /\ KeptLazily(e[id + 1])
  BY <1>2 DEF KeptOK, ItemsOK, ItemOK
<1>4. id + 1 \in 1..Len(e) /\ id + 1 \in 1..Len(fields)
  BY <1>1, <1>3
<1>5. PICK f \in RTFields : f = e[id + 1]
  BY <1>1, <1>4, ElementOfSeq
<1>6. PICK g : g = fields[id + 1]
  OBVIOUS
<1>7. g.def = DefAfter(f, A)
  BY <1>4, <1>5, <1>6 DEF Extends
<1>8. ~is_lazy(f) => f.def \in ToSet(B)
  BY <1>4, <1>5 DEF FieldsShape
<1>9. ASSUME ~is_lazy(f) PROVE g.def.mode = f.def.mode
  <2>1. f.def.name \in Names(B) /\ Named(B, f.def.name) = f.def
    BY <1>8, <1>9, NamedIs
  <2>2. f.def.name \in Names(A) /\ Named(A, f.def.name).mode = f.def.mode
    BY <2>1, SameFields
  <2> QED BY <1>7, <1>9, <2>2 DEF DefAfter
<1>10. is_lazy(f) => is_lazy(g)
  BY <1>7 DEF DefAfter, is_lazy
<1>11. ~Written(g)
  BY <1>3, <1>5, <1>9, <1>10 DEF Written, KeptLazily
<1> QED BY <1>2, <1>4, <1>6, <1>11

(* An object of a merged klass, written.                                   *)
LEMMA ObjectWritten ==
  ASSUME NEW S, NEW T, NEW B, FieldsOf(B, S), NEW A, FieldsOf(A, T), SameButSerials(B, A),
         NEW r, NEW e, FieldsShape(r, e, B), NEW q, NEW fields, FieldsShape(q, fields, A),
         Extends(fields, e, A), Begins(e, fields),
         NEW w, NEW v, Sizes(w, v), Len(r.stores) = Len(w.stores),
         NEW o \in ObjectsOf(A), NEW m, ObjectOK(m, o, A), KeptOK(w, o.lazy, e),
         q.stores \in Seq(RTStores),
         \A i \in 1..Len(q.stores) : ~is_lazy(q.stores[i]) =>
           v.stores[i].nelem = Len(m.stores[q.stores[i].def.name])
  PROVE  ItemsOK(v, WriteObject(o, fields), fields)
<1> DEFINE x == WriteObject(o, fields)
           ids == Sent(o, fields)
           n == Len(o.lazy)
<1>1. /\ A \in Seq(FieldDefs) /\ B \in Seq(FieldDefs) /\ Unambiguous(A) /\ Unambiguous(B)
      /\ fields \in Seq(RTFields) /\ e \in Seq(RTFields)
  BY DEF FieldsOf, FieldsShape
<1>2. /\ n \in Nat /\ Len(ids) \in Nat /\ Len(x) = n + Len(ids)
      /\ \A i \in 1..n : x[i] = o.lazy[i]
      /\ \A j \in 1..Len(ids) :
           x[n + j] = <<ids[j] - 1, o.val[fields[ids[j]].def.name]>>
      /\ \A i \in 1..(n + Len(ids)) : i \in 1..n \/ \E j \in 1..Len(ids) : i = n + j
  BY <1>1, WriteObjectIs
<1>3. /\ \A j \in 1..Len(ids) : /\ ids[j] \in 1..Len(fields) /\ Written(fields[ids[j]])
                                /\ o.val[fields[ids[j]].def.name] # Unset
      /\ \A j, k \in 1..Len(ids) : j # k => ids[j] # ids[k]
  BY <1>1, SentIs
<1>4. o.lazy \in Items /\ \A i \in 1..n : o.lazy[i][1] \in Nat
  BY ItemsAre DEF ObjectsOf
<1> HIDE DEF x, ids, n
<1>5. Len(fields) \in Nat /\ Len(e) \in Nat /\ Len(e) <= Len(fields)
  BY DEF Begins
<1>6. \A i \in 1..n : o.lazy[i][1] + 1 \in 1..Len(fields) /\ ~Written(fields[o.lazy[i][1] + 1])
  BY <1>1, <1>4, KeptStays DEF n
<1>7. ItemsOK(v, o.lazy, fields)
  <2>1. \A i \in 1..Len(e) : e[i].to \in Nat /\ e[i].to <= Len(w.stores)
    <3>1. \A i \in 1..Len(e) : e[i] \in RTFields /\ e[i].to <= Len(r.stores)
      BY <1>1, ElementOfSeq DEF FieldsShape, FieldShape
    <3> QED BY <3>1 DEF RTFields
  <2>2. ItemsOK(w, o.lazy, e)
    BY DEF KeptOK
  <2> QED BY <1>4, <2>1, <2>2, ItemsGrow
<1>8. ASSUME NEW j \in 1..Len(ids) PROVE ItemOK(v, x[n + j], fields)
  <2>1. PICK id \in 1..Len(fields) : id = ids[j]
    BY <1>3
  <2>2. PICK f \in RTFields : f = fields[id]
    BY <1>1, ElementOfSeq
  <2>3. PICK value : value = o.val[f.def.name]
    OBVIOUS
  <2>4. Written(f) /\ value # Unset
    BY <1>3, <2>1, <2>2, <2>3
  <2>5. x[n + j] = <<id - 1, value>>
    BY <1>2, <2>1, <2>2, <2>3
  <2>6. f.def \in ToSet(A) /\ FieldShape(q, f)
    BY <2>2, <2>4 DEF FieldsShape, Written
  <2>7. f.def.name \in Names(A) /\ Named(A, f.def.name) = f.def
    BY <1>1, <2>6, NamedIs
  <2>8. ValueOK(m, value, f.def)
    BY <2>3, <2>7 DEF ObjectOK
  <2>9. ASSUME f.to # 0 PROVE value \in 0..(v.stores[f.to].nelem - 1)
    <3>1. f.def.to # NoStore /\ ~is_lazy(q.stores[f.to]) /\ q.stores[f.to].def.name = f.def.to
      BY <2>4, <2>6, <2>9 DEF FieldShape, Written
    <3>2. f.to \in 1..Len(q.stores)
      <4>1. f.to \in Nat /\ f.to <= Len(q.stores)
        BY <2>6 DEF FieldShape, RTFields
      <4>2. Len(q.stores) \in Nat
        BY LenProperties
      <4> QED BY <2>9, <4>1, <4>2
    <3>3. v.stores[f.to].nelem = Len(m.stores[f.def.to])
      BY <3>1, <3>2
    <3>4. value \in 0..(Len(m.stores[f.def.to]) - 1)
      BY <2>4, <2>8, <3>1 DEF ValueOK
    <3> QED BY <3>3, <3>4
  <2>10. id - 1 < Len(fields) /\ (id - 1) + 1 = id
    BY <1>5
  <2> QED BY <2>2, <2>5, <2>9, <2>10 DEF ItemOK
<1>9. ASSUME NEW i \in 1..(n + Len(ids)) PROVE ItemOK(v, x[i], fields)
  <2>1. i \in 1..n => ItemOK(v, x[i], fields)
    BY <1>2, <1>7 DEF ItemsOK, n
  <2> QED BY <1>2, <1>8, <2>1
<1>10. ASSUME NEW i \in 1..n, NEW j \in 1..Len(ids) PROVE x[i][1] # x[n + j][1]
  <2>1. PICK id \in Nat : id = o.lazy[i][1]
    BY <1>4
  <2>2. id + 1 \in 1..Len(fields) /\ ~Written(fields[id + 1])
    BY <1>6, <2>1
  <2>3. PICK l \in 1..Len(fields) : l = ids[j] /\ Written(fields[l])
    BY <1>3
  <2>4. x[i][1] = id /\ x[n + j][1] = l - 1
    <3>1. x[i] = o.lazy[i]
      BY <1>2
    <3>2. x[n + j][1] = ids[j] - 1
      BY <1>2
    <3> QED BY <2>1, <2>3, <3>1, <3>2
  <2>5. id # l - 1
    BY <1>5, <2>2, <2>3
  <2> QED BY <2>4, <2>5
<1>11. ASSUME NEW i \in 1..(n + Len(ids)), NEW j \in 1..(n + Len(ids)), i # j
       PROVE  x[i][1] # x[j][1]
  <2>1. CASE i \in 1..n /\ j \in 1..n
    <3>1. o.lazy[i][1] # o.lazy[j][1]
      BY <1>7, <1>11, <2>1 DEF ItemsOK, n
    <3> QED BY <1>2, <2>1, <3>1
  <2>2. ASSUME NEW a \in 1..Len(ids), NEW b \in 1..Len(ids), a # b
        PROVE  x[n + a][1] # x[n + b][1]
    <3>1. PICK c \in 1..Len(fields), d \in 1..Len(fields) : c = ids[a] /\ d = ids[b]
      BY <1>3
    <3>2. c # d
      BY <1>3, <2>2, <3>1
    <3>3. x[n + a][1] = c - 1 /\ x[n + b][1] = d - 1
      <4>1. x[n + a][1] = ids[a] - 1
        BY <1>2
      <4>2. x[n + b][1] = ids[b] - 1
        BY <1>2
      <4> QED BY <3>1, <4>1, <4>2
    <3>4. c \in Int /\ d \in Int
      BY <1>5
    <3>5. c - 1 # d - 1
      BY <3>2, <3>4
    <3> QED BY <3>3, <3>5
  <2>3. CASE i \in 1..n /\ j \notin 1..n
    <3>1. PICK b \in 1..Len(ids) : j = n + b
      BY <1>2, <2>3
    <3> QED BY <1>10, <2>3, <3>1
  <2>4. CASE i \notin 1..n /\ j \in 1..n
    <3>1. PICK b \in 1..Len(ids) : i = n + b
      BY <1>2, <2>4
    <3> QED BY <1>10, <2>4, <3>1
  <2>5. CASE i \notin 1..n /\ j \notin 1..n
    BY <1>2, <1>11, <2>2, <2>5
  <2> QED BY <2>1, <2>3, <2>4, <2>5
<1>12. ItemsOK(v, x, fields)
  BY <1>2, <1>9, <1>11 DEF ItemsOK
<1> QED BY <1>12 DEF x

LEMMA FieldsBegin ==
  ASSUME NEW e \in Seq(RTFields), NEW A, NEW T, FieldsOf(A, T), NEW stores, StoresKnown(stores, T)
  PROVE  Begins(e, merge_rtschema_fields(e, A, stores))
<1> DEFINE m == merge_rtschema_fields(e, A, stores)
           new == NewDefs(e, A)
<1>1. A \in Seq(FieldDefs) /\ \A d \in ToSet(A) : d.to # NoStore => d.to \in Names(T.stores)
  BY DEF FieldsOf
<1>2. m \in Seq(RTFields) /\ Len(m) = Len(e) + Len(new)
      /\ \A i \in 1..Len(e) : m[i] = Redefined(e[i], A)
  BY <1>1, MergedFields
<1>3. Len(new) \in Nat
  BY <1>1, NewDefsIs
<1> HIDE DEF m, new
<1>4. Len(e) \in Nat /\ Len(m) \in Nat /\ Len(e) <= Len(m)
  BY <1>2, <1>3, LenProperties
<1>5. ASSUME NEW i \in 1..Len(e) PROVE m[i].to = e[i].to
  BY <1>1, <1>2, ElementOfSeq, RedefinedField
<1> QED BY <1>4, <1>5 DEF Begins, m

(* The fields of a declared klass of a merged runtime, and what they were. *)
LEMMA MergedFrom ==
  ASSUME NEW r, NEW w, NEW S, NEW T, GoodSchema(S), GoodSchema(T), SameSchema(S, T),
         ReadOf(r, w, S), NEW k \in 1..Len(merge_rt(r, T).klasses),
         ~is_lazy(merge_rt(r, T).klasses[k])
  PROVE  LET q == merge_rt(r, T)
             fields == q.klasses[k].fields
             A == DefsOf(q, T, k)
         IN  \E U, B, e :
               /\ FieldsOf(B, U) /\ FieldsOf(A, T) /\ SameButSerials(B, A)
               /\ FieldsShape(r, e, B) /\ FieldsShape(q, fields, A)
               /\ Extends(fields, e, A) /\ Begins(e, fields)
               /\ IF k \in 1..Len(r.klasses) THEN e = r.klasses[k].fields ELSE e = <<>>
<1> DEFINE q == merge_rt(r, T)
           fields == q.klasses[k].fields
           A == DefsOf(q, T, k)
           stores == MergeStores(r, T)
           Goal == \E U, B, e :
                     /\ FieldsOf(B, U) /\ FieldsOf(A, T) /\ SameButSerials(B, A)
                     /\ FieldsShape(r, e, B) /\ FieldsShape(q, fields, A)
                     /\ Extends(fields, e, A) /\ Begins(e, fields)
                     /\ IF k \in 1..Len(r.klasses) THEN e = r.klasses[k].fields ELSE e = <<>>
<1>1. RTShape(r, S) /\ r.doc \in 1..Len(r.klasses)
  BY DEF ReadOf, RTShape
<1>2. RTShape(q, T) /\ q.doc = r.doc /\ StoresKnown(stores, T)
  BY <1>1, MergeShape, MergeGrows, MergeIs DEF RTShape, KlassShape
<1>3. FieldsShape(q, fields, A)
  BY <1>2 DEF RTShape, KlassShape
<1>4. Extends(q.klasses, r.klasses, T.klasses)
  BY <1>1, MergeIs DEF RTShape, KlassShape
<1>5. CASE k \in 1..Len(r.klasses)
  <2>1. PICK B, e : B = DefsOf(r, S, k) /\ e = r.klasses[k].fields
    OBVIOUS
  <2>2. FieldsShape(r, e, B)
    BY <1>1, <1>5, <2>1 DEF RTShape, KlassShape
  <2>3. ~is_lazy(r.klasses[k])
    BY <1>5, KlassMerged
  <2>4. /\ FieldsOf(B, S) /\ FieldsOf(A, T) /\ SameButSerials(B, A)
        /\ Extends(fields, e, A) /\ fields = merge_rtschema_fields(e, A, stores)
    BY <1>5, <2>1, <2>3, KlassMerged
  <2>5. Begins(e, fields)
    BY <1>2, <2>2, <2>4, FieldsBegin DEF FieldsShape
  <2> HIDE DEF q, fields, A, stores
  <2>6. Goal
    BY <1>3, <1>5, <2>1, <2>2, <2>4, <2>5
  <2> QED BY <2>6 DEF q, fields, A
<1>6. CASE k \notin 1..Len(r.klasses)
  <2>1. PICK j \in 1..Len(NewDefs(r.klasses, T.klasses)) : k = Len(r.klasses) + j
    BY <1>4, <1>6 DEF Extends
  <2>2. PICK d : d = NewDefs(r.klasses, T.klasses)[j]
    OBVIOUS
  <2>3. /\ FieldsOf(d.fields, T) /\ Extends(fields, <<>>, d.fields)
        /\ fields = merge_rtschema_fields(<<>>, d.fields, stores) /\ q.klasses[k].def = d
    BY <1>1, <2>1, <2>2, NewKlassFields
  <2>4. A = d.fields
    <3>1. k # q.doc
      BY <1>1, <1>2, <1>6
    <3> QED BY <2>3, <3>1 DEF DefsOf
  <2>5. SameButSerials(d.fields, d.fields)
    BY <2>3, SameItself DEF FieldsOf
  <2>6. <<>> \in Seq(RTFields) /\ FieldsShape(r, <<>>, d.fields)
    BY EmptySeq DEF FieldsShape
  <2>7. Begins(<<>>, fields)
    BY <1>2, <2>3, <2>6, FieldsBegin
  <2> HIDE DEF q, fields, A, stores
  <2>8. Goal
    BY <1>3, <1>6, <2>3, <2>4, <2>5, <2>6, <2>7
  <2> QED BY <2>8 DEF q, fields, A
<1> QED BY <1>5, <1>6

(* The fields that were read are the first of those that are written.      *)
LEMMA KlassesBegin ==
  ASSUME NEW r, NEW w, NEW S, NEW T, GoodSchema(S), GoodSchema(T), SameSchema(S, T),
         ReadOf(r, w, S), NEW k \in 1..Len(r.klasses)
  PROVE  LET fields == merge_rt(r, T).klasses[k].fields
         IN  /\ fields \in Seq(RTFields)
             /\ Begins(w.klasses[k].fields, WriteFields(fields))
             /\ Begins(fields, WriteFields(fields))
<1> DEFINE q == merge_rt(r, T)
           fields == q.klasses[k].fields
           K == r.klasses[k]
<1>1. RTShape(r, S)
  BY DEF ReadOf
<1>2. RTShape(q, T) /\ StoresKnown(MergeStores(r, T), T) /\ Len(r.klasses) <= Len(q.klasses)
      /\ Len(r.klasses) \in Nat /\ Len(q.klasses) \in Nat
  BY <1>1, MergeShape, MergeGrows, RTFacts DEF RTShape
<1>3. fields \in Seq(RTFields) /\ K.fields \in Seq(RTFields)
  <2>1. k \in 1..Len(q.klasses)
    BY <1>2
  <2> QED BY <1>1, <1>2, <2>1, RTFacts DEF RTShape
<1>4. Begins(K.fields, fields)
  <2>1. CASE is_lazy(K)
    <3>1. fields = K.fields
      BY <2>1, KlassMerged
    <3>2. Len(K.fields) \in Nat
      BY <1>3, LenProperties
    <3> HIDE DEF K, fields
    <3> QED BY <3>1, <3>2 DEF Begins
  <2>2. CASE ~is_lazy(K)
    <3>1. PICK A : A = DefsOf(q, T, k)
      OBVIOUS
    <3>2. FieldsOf(A, T) /\ fields = merge_rtschema_fields(K.fields, A, MergeStores(r, T))
      BY <2>2, <3>1, KlassMerged
    <3> QED BY <1>2, <1>3, <3>2, FieldsBegin
  <2> QED BY <2>1, <2>2
<1>5. /\ Len(WriteFields(fields)) = Len(fields)
      /\ \A i \in 1..Len(fields) : WriteFields(fields)[i].to = fields[i].to
  BY <1>3, WriteFieldsIs
<1>6. /\ Len(w.klasses[k].fields) = Len(K.fields)
      /\ \A i \in 1..Len(K.fields) : K.fields[i].to = w.klasses[k].fields[i].to
  BY DEF ReadOf, EntriesOf
<1> HIDE DEF fields, K
<1>7. Begins(w.klasses[k].fields, WriteFields(fields))
  BY <1>4, <1>5, <1>6 DEF Begins
<1>8. Begins(fields, WriteFields(fields))
  BY <1>4, <1>5 DEF Begins
<1> QED BY <1>3, <1>7, <1>8 DEF fields

-----------------------------------------------------------------------------
(* What is written can be read. *)

(* A tool that has read w with S writes its memory m with T.               *)
Writes(r, w, S, T, m) ==
  /\ GoodSchema(S) /\ GoodSchema(T) /\ SameSchema(S, T)
  /\ WireShape(w) /\ WireOK(w) /\ ReadOf(r, w, S) /\ NoClash(S, T, w)
  /\ MemShape(m, T) /\ MemOK(m, T, r, w)

LEMMA WriteMerged ==
  ASSUME NEW r, NEW w, NEW S, NEW T, NEW m, Writes(r, w, S, T, m)
  PROVE  LET q == merge_rt(r, T)
             v == WriteDoc(q, m)
         IN  /\ RTShape(r, S) /\ RTShape(q, T) /\ q.doc = r.doc /\ q.docLazy = r.docLazy
             /\ Len(r.klasses) \in Nat /\ Len(q.klasses) \in Nat
             /\ Len(r.stores) \in Nat /\ Len(q.stores) \in Nat
             /\ Len(r.klasses) <= Len(q.klasses) /\ Len(r.stores) <= Len(q.stores)
             /\ Len(w.klasses) = Len(r.klasses) /\ Len(w.stores) = Len(r.stores)
             /\ WireShape(v)
             /\ Len(v.klasses) = Len(q.klasses) /\ Len(v.stores) = Len(q.stores)
             /\ \A k \in 1..Len(q.klasses) :
                  /\ v.klasses[k].serial = Serial(q.klasses[k])
                  /\ v.klasses[k].fields = WriteFields(q.klasses[k].fields)
             /\ \A i \in 1..Len(q.stores) :
                  /\ v.stores[i].serial = Serial(q.stores[i])
                  /\ v.stores[i].klass = q.stores[i].klass
                  /\ v.stores[i].nelem = NElem(q.stores[i], m)
                  /\ v.groups[i] = WriteObjects(q.stores[i], q, m)
             /\ v.doc = DocInstance(q, m)
<1> DEFINE q == merge_rt(r, T)
           v == WriteDoc(q, m)
<1>1. /\ GoodSchema(S) /\ GoodSchema(T) /\ SameSchema(S, T) /\ ReadOf(r, w, S)
      /\ RTShape(r, S) /\ MemShape(m, T)
  BY DEF Writes, ReadOf
<1>2. r \in RTs /\ r.doc \in 1..Len(r.klasses)
      /\ ~is_lazy(r.klasses[r.doc]) /\ IsMeta(r.klasses[r.doc].def)
  BY <1>1 DEF RTShape, KlassShape
<1>3. RTShape(q, T)
  BY <1>1, MergeShape
<1>4. q.doc = r.doc /\ q.docLazy = r.docLazy
  BY <1>1, <1>2, MergeIs
<1>5. Grown(r, q) /\ Len(r.klasses) <= Len(q.klasses)
  BY <1>1, MergeGrows
<1>6. Len(w.klasses) = Len(r.klasses) /\ Len(w.stores) = Len(r.stores)
  BY <1>1 DEF ReadOf, EntriesOf
<1> HIDE DEF q
<1>7. Len(q.klasses) \in Nat /\ Len(r.klasses) \in Nat
  BY <1>1, <1>3, RTFacts DEF RTShape
<1>8. /\ WireShape(v)
      /\ Len(v.klasses) = Len(q.klasses) /\ Len(v.stores) = Len(q.stores)
      /\ \A k \in 1..Len(q.klasses) :
           /\ v.klasses[k].serial = IF k = q.doc THEN "__meta__" ELSE Serial(q.klasses[k])
           /\ v.klasses[k].fields = WriteFields(q.klasses[k].fields)
      /\ \A i \in 1..Len(q.stores) :
           /\ v.stores[i].serial = Serial(q.stores[i])
           /\ v.stores[i].klass = q.stores[i].klass
           /\ v.stores[i].nelem = NElem(q.stores[i], m)
           /\ v.groups[i] = WriteObjects(q.stores[i], q, m)
      /\ v.doc = DocInstance(q, m)
  BY <1>1, <1>3, WriteDocIs
<1>9. Serial(q.klasses[q.doc]) = "__meta__"
  <2>1. ~is_lazy(q.klasses[q.doc]) /\ IsMeta(q.klasses[q.doc].def)
    BY <1>3 DEF RTShape, KlassShape
  <2> QED BY <2>1 DEF Serial, IsMeta
<1> HIDE DEF v
<1>10. \A k \in 1..Len(q.klasses) : v.klasses[k].serial = Serial(q.klasses[k])
  BY <1>8, <1>9
<1> QED BY <1>1, <1>3, <1>4, <1>5, <1>6, <1>7, <1>8, <1>10 DEF Grown, q, v

(* A store is never written shorter than it was read.                      *)
LEMMA StoresGrow ==
  ASSUME NEW r, NEW w, NEW S, NEW T, NEW m, Writes(r, w, S, T, m)
  PROVE  LET q == merge_rt(r, T)
             v == WriteDoc(q, m)
         IN  /\ Sizes(w, v) /\ Sizes(v, v)
             /\ \A i \in 1..Len(q.stores) : ~is_lazy(q.stores[i]) =>
                  v.stores[i].nelem = Len(m.stores[q.stores[i].def.name])
             /\ \A i \in 1..Len(r.stores) :
                  /\ is_lazy(q.stores[i]) <=> is_lazy(r.stores[i])
                  /\ q.stores[i].klass = r.stores[i].klass /\ q.stores[i].lazy = r.stores[i].lazy
                  /\ q.stores[i].nelem = r.stores[i].nelem
                  /\ ~is_lazy(r.stores[i]) => q.stores[i].def.name = r.stores[i].def.name
             /\ \A i \in 1..Len(q.stores) : i \notin 1..Len(r.stores) =>
                  ~is_lazy(q.stores[i]) /\ ~Known(r.stores, q.stores[i].def.name)
<1> DEFINE q == merge_rt(r, T)
           v == WriteDoc(q, m)
<1>1. /\ GoodSchema(S) /\ GoodSchema(T) /\ SameSchema(S, T) /\ ReadOf(r, w, S)
      /\ RTShape(r, S) /\ WireShape(w) /\ MemOK(m, T, r, w)
  BY DEF Writes, ReadOf
<1>2. r \in RTs /\ r.doc \in 1..Len(r.klasses)
      /\ ~is_lazy(r.klasses[r.doc]) /\ IsMeta(r.klasses[r.doc].def)
  BY <1>1 DEF RTShape, KlassShape
<1>3. /\ Len(q.stores) \in Nat /\ Len(r.stores) \in Nat /\ Len(r.stores) <= Len(q.stores)
      /\ Len(w.stores) = Len(r.stores) /\ Len(v.stores) = Len(q.stores) /\ WireShape(v)
      /\ \A i \in 1..Len(q.stores) : v.stores[i].nelem = NElem(q.stores[i], m)
  BY WriteMerged
<1>4. Grown(r, q)
  BY <1>1, MergeGrows
<1>5. \A i \in 1..Len(r.stores) : q.stores[i] = Redefined(r.stores[i], T.stores)
  BY <1>1, <1>2, MergeIs
<1>6. Extends(q.stores, r.stores, T.stores)
  BY <1>1, <1>2, MergeIs
<1> HIDE DEF q, v
<1>7. ASSUME NEW i \in 1..Len(r.stores)
      PROVE  /\ is_lazy(q.stores[i]) <=> is_lazy(r.stores[i])
             /\ q.stores[i].klass = r.stores[i].klass /\ q.stores[i].lazy = r.stores[i].lazy
             /\ q.stores[i].nelem = r.stores[i].nelem
             /\ ~is_lazy(r.stores[i]) => q.stores[i].def.name = r.stores[i].def.name
  <2>1. r.stores[i] \in RTStores
    BY <1>2, RTFacts
  <2>2. T.stores \in Seq(StoreDefs)
    BY <1>1, StoreFacts
  <2>3. q.stores[i].klass = r.stores[i].klass /\ q.stores[i].lazy = r.stores[i].lazy
        /\ q.stores[i].nelem = r.stores[i].nelem
    BY <1>5, <2>1, <2>2, RedefinedStore
  <2> QED BY <1>4, <2>3 DEF Grown
<1>8. \A i \in 1..Len(q.stores) : ~is_lazy(q.stores[i]) =>
        v.stores[i].nelem = Len(m.stores[q.stores[i].def.name])
  BY <1>3 DEF NElem
<1>9. \A i \in 1..Len(v.stores) : v.stores[i].nelem \in Nat
  BY <1>3, WireFacts
<1>10. ASSUME NEW i \in 1..Len(w.stores)
       PROVE  w.stores[i].nelem \in Nat /\ w.stores[i].nelem <= v.stores[i].nelem
  <2>1. w.stores[i].nelem \in Nat
    BY <1>1, WireFacts
  <2>2. CASE is_lazy(r.stores[i])
    <3>1. r.stores[i].nelem = w.stores[i].nelem
      BY <1>1, <1>3, <2>2 DEF ReadOf
    <3>2. v.stores[i].nelem = w.stores[i].nelem
      BY <1>3, <1>7, <2>2, <3>1 DEF NElem
    <3> QED BY <2>1, <3>2
  <2>3. CASE ~is_lazy(r.stores[i])
    <3>1. w.stores[i].nelem <= Len(m.stores[r.stores[i].def.name])
      BY <1>1, <1>3, <2>3 DEF MemOK
    <3>2. ~is_lazy(q.stores[i]) /\ q.stores[i].def.name = r.stores[i].def.name
      BY <1>3, <1>7, <2>3
    <3>3. i \in 1..Len(q.stores)
      BY <1>3
    <3>4. v.stores[i].nelem = Len(m.stores[q.stores[i].def.name])
      BY <1>8, <3>2, <3>3
    <3> QED BY <2>1, <3>1, <3>2, <3>4
  <2> QED BY <2>1, <2>2, <2>3
<1>11. Sizes(w, v)
  BY <1>3, <1>9, <1>10 DEF Sizes
<1>12. Sizes(v, v)
  BY <1>3, <1>9 DEF Sizes
<1>13. ASSUME NEW i \in 1..Len(q.stores), i \notin 1..Len(r.stores)
       PROVE  ~is_lazy(q.stores[i]) /\ ~Known(r.stores, q.stores[i].def.name)
  <2>1. PICK j \in 1..Len(NewDefs(r.stores, T.stores)) : i = Len(r.stores) + j
    BY <1>6, <1>13 DEF Extends
  <2>2. PICK d : d = NewDefs(r.stores, T.stores)[j]
    OBVIOUS
  <2>3. T.stores \in Seq(StoreDefs)
    BY <1>1, StoreFacts
  <2>4. d \in StoreDefs /\ ~Known(r.stores, d.name)
    BY <2>2, <2>3, NewDefsIs
  <2>5. q.stores[i].def = d
    BY <1>6, <2>1, <2>2 DEF Extends
  <2> QED BY <2>4, <2>5, NothingAssumption DEF is_lazy
<1> QED BY <1>7, <1>8, <1>11, <1>12, <1>13 DEF q, v

(* The names on the stream v are of those on w or written with T.          *)
NamesFrom(v, w, T) ==
  /\ \A k \in 1..Len(v.klasses) :
       /\ \/ v.klasses[k].serial \in {"__meta__"} \cup Serials(T.klasses)
          \/ \E l \in 1..Len(w.klasses) : v.klasses[k].serial = w.klasses[l].serial
       /\ \A i \in 1..Len(v.klasses[k].fields) :
            FieldOf(v.klasses[k].fields[i].serial, w, T)
  /\ \A i \in 1..Len(v.stores) :
       \/ v.stores[i].serial \in Serials(T.stores)
       \/ \E l \in 1..Len(w.stores) : v.stores[i].serial = w.stores[l].serial

LEMMA NamesWritten ==
  ASSUME NEW r, NEW w, NEW S, NEW T, NEW m, Writes(r, w, S, T, m)
  PROVE  LET v == WriteDoc(merge_rt(r, T), m)
         IN  /\ Apart(v.klasses) /\ Apart(v.stores)
             /\ \A k \in 1..Len(v.klasses) :
                  /\ Apart(v.klasses[k].fields)
                  /\ \A i \in 1..Len(v.klasses[k].fields) : v.klasses[k].fields[i].to <= Len(v.stores)
             /\ NamesFrom(v, w, T)
<1> DEFINE q == merge_rt(r, T)
           v == WriteDoc(q, m)
<1>1. /\ GoodSchema(S) /\ GoodSchema(T) /\ SameSchema(S, T) /\ ReadOf(r, w, S) /\ NoClash(S, T, w)
  BY DEF Writes
<1>2. /\ RTShape(q, T) /\ Len(v.klasses) = Len(q.klasses) /\ Len(v.stores) = Len(q.stores)
      /\ \A k \in 1..Len(q.klasses) :
           /\ v.klasses[k].serial = Serial(q.klasses[k])
           /\ v.klasses[k].fields = WriteFields(q.klasses[k].fields)
      /\ \A i \in 1..Len(q.stores) : v.stores[i].serial = Serial(q.stores[i])
  BY WriteMerged
<1>3. /\ OutApart(q.stores) /\ NamesOf(q.stores, w.stores, ToSet(T.stores))
      /\ OutApart(q.klasses) /\ NamesOf(q.klasses, w.klasses, {MetaDef(S)} \cup ToSet(T.klasses))
  BY <1>1, MergedStoreNames
<1>4. ASSUME NEW k \in 1..Len(q.klasses)
      PROVE  /\ OutApart(q.klasses[k].fields)
             /\ \A i \in 1..Len(q.klasses[k].fields) :
                  FieldOf(Serial(q.klasses[k].fields[i]), w, T)
  <2>1. PICK fields : fields = q.klasses[k].fields
    OBVIOUS
  <2>2. OutApart(fields)
    BY <1>1, <2>1, MergedKlassNames
  <2>3. \A i \in 1..Len(fields) : FieldOf(Serial(fields[i]), w, T)
    BY <1>1, <2>1, MergedKlassNames
  <2> HIDE DEF q
  <2> QED BY <2>1, <2>2, <2>3
<1> HIDE DEF q, v
<1>5. Apart(v.klasses) /\ Apart(v.stores)
  <2>1. ASSUME NEW i \in 1..Len(q.klasses), NEW j \in 1..Len(q.klasses), i # j
        PROVE  v.klasses[i].serial # v.klasses[j].serial
    <3>1. Serial(q.klasses[i]) # Serial(q.klasses[j])
      BY <1>3, <2>1 DEF OutApart
    <3> QED BY <1>2, <3>1
  <2>2. ASSUME NEW i \in 1..Len(q.stores), NEW j \in 1..Len(q.stores), i # j
        PROVE  v.stores[i].serial # v.stores[j].serial
    <3>1. Serial(q.stores[i]) # Serial(q.stores[j])
      BY <1>3, <2>2 DEF OutApart
    <3> QED BY <1>2, <3>1
  <2>3. Len(v.klasses) = Len(q.klasses) /\ Len(v.stores) = Len(q.stores)
    BY <1>2
  <2> QED BY <2>1, <2>2, <2>3 DEF Apart
<1>6. ASSUME NEW k \in 1..Len(v.klasses)
      PROVE  /\ Apart(v.klasses[k].fields)
             /\ \A i \in 1..Len(v.klasses[k].fields) :
                  /\ v.klasses[k].fields[i].to <= Len(v.stores)
                  /\ FieldOf(v.klasses[k].fields[i].serial, w, T)
  <2>1. k \in 1..Len(q.klasses)
    BY <1>2
  <2>2. PICK fields : fields = q.klasses[k].fields
    OBVIOUS
  <2>3. FieldsShape(q, fields, DefsOf(q, T, k))
    BY <1>2, <2>1, <2>2 DEF RTShape, KlassShape
  <2>4. /\ Len(WriteFields(fields)) = Len(fields)
        /\ \A i \in 1..Len(fields) : /\ WriteFields(fields)[i].serial = Serial(fields[i])
                                     /\ WriteFields(fields)[i].to = fields[i].to
    BY <2>3, WriteFieldsIs DEF FieldsShape
  <2>5. v.klasses[k].fields = WriteFields(fields)
    BY <1>2, <2>1, <2>2
  <2>6. OutApart(fields)
    BY <1>4, <2>1, <2>2
  <2>7. \A i \in 1..Len(fields) : FieldOf(Serial(fields[i]), w, T)
    BY <1>4, <2>1, <2>2
  <2>8. \A i \in 1..Len(fields) : fields[i].to <= Len(v.stores)
    BY <1>2, <2>3 DEF FieldsShape, FieldShape
  <2>9. Apart(WriteFields(fields))
    BY <2>4, <2>6 DEF OutApart, Apart
  <2> QED BY <2>4, <2>5, <2>7, <2>8, <2>9
<1>7. \A k \in 1..Len(v.klasses) :
        \/ v.klasses[k].serial \in {"__meta__"} \cup Serials(T.klasses)
        \/ \E l \in 1..Len(w.klasses) : v.klasses[k].serial = w.klasses[l].serial
  <2>1. MetaDef(S).serial = "__meta__" /\ \A d \in ToSet(T.klasses) : d.serial \in Serials(T.klasses)
    BY DEF MetaDef, Serials
  <2> QED BY <1>2, <1>3, <2>1 DEF NamesOf
<1>8. \A i \in 1..Len(v.stores) :
        \/ v.stores[i].serial \in Serials(T.stores)
        \/ \E l \in 1..Len(w.stores) : v.stores[i].serial = w.stores[l].serial
  <2>1. \A d \in ToSet(T.stores) : d.serial \in Serials(T.stores)
    BY DEF Serials
  <2> QED BY <1>2, <1>3, <2>1 DEF NamesOf
<1>9. NamesFrom(v, w, T)
  BY <1>6, <1>7, <1>8 DEF NamesFrom
<1> QED BY <1>5, <1>6, <1>9 DEF v, q

(* The fields that were read lazily, of a klass that has grown since.      *)
LEMMA KeptWritten ==
  ASSUME NEW r, NEW w, NEW S, NEW T, NEW m, Writes(r, w, S, T, m),
         NEW k \in 1..Len(r.klasses), NEW items \in Items, ItemsOK(w, items, w.klasses[k].fields)
  PROVE  LET q == merge_rt(r, T)
         IN  ItemsOK(WriteDoc(q, m), items, WriteFields(q.klasses[k].fields))
<1> DEFINE q == merge_rt(r, T)
           v == WriteDoc(q, m)
<1>1. /\ GoodSchema(S) /\ GoodSchema(T) /\ SameSchema(S, T) /\ ReadOf(r, w, S)
      /\ WireShape(w) /\ WireOK(w)
  BY DEF Writes
<1>2. Sizes(w, v)
  BY StoresGrow
<1>3. PICK f, g : f = w.klasses[k].fields /\ g = WriteFields(q.klasses[k].fields)
  OBVIOUS
<1>4. Begins(f, g)
  BY <1>1, <1>3, KlassesBegin
<1>5. k \in 1..Len(w.klasses)
  BY <1>1 DEF ReadOf, EntriesOf
<1>6. f \in Seq(WireFields) /\ \A i \in 1..Len(f) : f[i].to <= Len(w.stores)
  BY <1>1, <1>3, <1>5, WireFacts DEF WireOK
<1>7. \A i \in 1..Len(f) : f[i].to \in Nat
  <2>1. \A i \in 1..Len(f) : f[i] \in WireFields
    BY <1>6, ElementOfSeq
  <2> QED BY <2>1 DEF WireFields
<1>8. ItemsOK(w, items, f)
  BY <1>3
<1> HIDE DEF v, q
<1>9. ItemsOK(v, items, g)
  BY <1>2, <1>4, <1>6, <1>7, <1>8, ItemsGrow
<1> QED BY <1>3, <1>9 DEF v, q

(* An object of a declared klass.                                          *)
LEMMA DeclaredWritten ==
  ASSUME NEW r, NEW w, NEW S, NEW T, NEW m, Writes(r, w, S, T, m),
         NEW k \in 1..Len(merge_rt(r, T).klasses), ~is_lazy(merge_rt(r, T).klasses[k]),
         NEW o \in ObjectsOf(DefsOf(merge_rt(r, T), T, k)),
         ObjectOK(m, o, DefsOf(merge_rt(r, T), T, k)),
         KeptOK(w, o.lazy, IF k \in 1..Len(r.klasses) THEN r.klasses[k].fields ELSE <<>>)
  PROVE  LET q == merge_rt(r, T)
             fields == q.klasses[k].fields
         IN  ItemsOK(WriteDoc(q, m), WriteObject(o, fields), WriteFields(fields))
<1> DEFINE q == merge_rt(r, T)
           v == WriteDoc(q, m)
<1>1. /\ GoodSchema(S) /\ GoodSchema(T) /\ SameSchema(S, T) /\ ReadOf(r, w, S)
  BY DEF Writes
<1>2. PICK A, fields : A = DefsOf(q, T, k) /\ fields = q.klasses[k].fields
  OBVIOUS
<1>3. PICK U, B, e :
        /\ FieldsOf(B, U) /\ FieldsOf(A, T) /\ SameButSerials(B, A)
        /\ FieldsShape(r, e, B) /\ FieldsShape(q, fields, A)
        /\ Extends(fields, e, A) /\ Begins(e, fields)
        /\ IF k \in 1..Len(r.klasses) THEN e = r.klasses[k].fields ELSE e = <<>>
  BY <1>1, <1>2, MergedFrom
<1>4. /\ Sizes(w, v) /\ Sizes(v, v)
      /\ \A i \in 1..Len(q.stores) : ~is_lazy(q.stores[i]) =>
           v.stores[i].nelem = Len(m.stores[q.stores[i].def.name])
  BY StoresGrow
<1>5. Len(r.stores) = Len(w.stores) /\ Len(v.stores) = Len(q.stores) /\ RTShape(q, T)
  BY WriteMerged
<1>6. q.stores \in Seq(RTStores)
  BY <1>5, RTFacts DEF RTShape
<1>7. o \in ObjectsOf(A) /\ ObjectOK(m, o, A) /\ KeptOK(w, o.lazy, e)
  BY <1>2, <1>3
<1> HIDE DEF v, q
<1>8. ItemsOK(v, WriteObject(o, fields), fields)
  BY <1>3, <1>4, <1>5, <1>6, <1>7, ObjectWritten
<1>9. WriteObject(o, fields) \in Items
  BY <1>3, <1>7, WriteObjectIs DEF FieldsOf
<1>10. fields \in Seq(RTFields) /\ \A i \in 1..Len(fields) : fields[i].to <= Len(v.stores)
  BY <1>3, <1>5 DEF FieldsShape, FieldShape
<1>11. \A i \in 1..Len(fields) : fields[i].to \in Nat
  <2>1. \A i \in 1..Len(fields) : fields[i] \in RTFields
    BY <1>10, ElementOfSeq
  <2> QED BY <2>1 DEF RTFields
<1>12. Begins(fields, WriteFields(fields))
  <2>1. Len(fields) \in Nat
    BY <1>10, LenProperties
  <2> QED BY <1>10, <2>1, WriteFieldsIs DEF Begins
<1>13. ItemsOK(v, WriteObject(o, fields), WriteFields(fields))
  BY <1>4, <1>8, <1>9, <1>10, <1>11, <1>12, ItemsGrow
<1> QED BY <1>2, <1>13 DEF v, q

LEMMA DocWritten ==
  ASSUME NEW r, NEW w, NEW S, NEW T, NEW m, Writes(r, w, S, T, m)
  PROVE  LET q == merge_rt(r, T)
             v == WriteDoc(q, m)
         IN  ItemsOK(v, v.doc, WriteFields(q.klasses[q.doc].fields))
<1> DEFINE q == merge_rt(r, T)
           v == WriteDoc(q, m)
<1>1. /\ GoodSchema(S) /\ GoodSchema(T) /\ ReadOf(r, w, S) /\ WireShape(w) /\ WireOK(w)
      /\ MemShape(m, T) /\ MemOK(m, T, r, w)
  BY DEF Writes
<1>2. /\ RTShape(r, S) /\ RTShape(q, T) /\ q.doc = r.doc /\ q.docLazy = r.docLazy
      /\ Len(w.klasses) = Len(r.klasses)
      /\ v.doc = DocInstance(q, m)
  BY WriteMerged
<1>3. r.doc \in 1..Len(r.klasses) /\ q.doc \in 1..Len(q.klasses) /\ ~is_lazy(q.klasses[q.doc])
  BY <1>2 DEF RTShape, KlassShape
<1>4. CASE q.docLazy # NoDoc
  <2>1. v.doc = w.doc
    BY <1>1, <1>2, <1>4 DEF ReadOf, DocInstance
  <2>2. ItemsOK(w, w.doc, w.klasses[r.doc].fields)
    BY <1>1, <1>2, <1>3 DEF ReadOf, WireOK
  <2>3. w.doc \in Items
    BY <1>1, WireFacts
  <2>4. ItemsOK(v, w.doc, WriteFields(q.klasses[r.doc].fields))
    BY <1>3, <2>2, <2>3, KeptWritten
  <2> QED BY <1>2, <2>1, <2>4
<1>5. CASE q.docLazy = NoDoc
  <2>1. v.doc = WriteObject(m.doc, q.klasses[q.doc].fields)
    BY <1>2, <1>5 DEF DocInstance
  <2>2. DefsOf(q, T, q.doc) = T.doc
    BY DEF DefsOf
  <2>3. m.doc \in ObjectsOf(T.doc) /\ ObjectOK(m, m.doc, T.doc)
        /\ KeptOK(w, m.doc.lazy, r.klasses[r.doc].fields)
    BY <1>1 DEF MemShape, MemOK
  <2>4. ItemsOK(v, WriteObject(m.doc, q.klasses[q.doc].fields), WriteFields(q.klasses[q.doc].fields))
    BY <1>2, <1>3, <2>2, <2>3, DeclaredWritten
  <2> QED BY <2>1, <2>4
<1> QED BY <1>4, <1>5

(* A store that is written as it was read.                                 *)
LEMMA LazyStoreWritten ==
  ASSUME NEW r, NEW w, NEW S, NEW T, NEW m, Writes(r, w, S, T, m),
         NEW i \in 1..Len(merge_rt(r, T).stores), is_lazy(merge_rt(r, T).stores[i])
  PROVE  LET q == merge_rt(r, T)
             v == WriteDoc(q, m)
         IN  /\ v.stores[i].nelem = Len(v.groups[i])
             /\ \A a \in 1..Len(v.groups[i]) :
                  ItemsOK(v, v.groups[i][a], WriteFields(q.klasses[q.stores[i].klass + 1].fields))
<1> DEFINE q == merge_rt(r, T)
           v == WriteDoc(q, m)
<1>1. ReadOf(r, w, S) /\ WireShape(w) /\ WireOK(w)
  BY DEF Writes
<1>2. /\ RTShape(q, T) /\ Len(w.klasses) = Len(r.klasses) /\ Len(w.stores) = Len(r.stores)
      /\ v.stores[i].nelem = NElem(q.stores[i], m)
      /\ v.groups[i] = WriteObjects(q.stores[i], q, m)
  BY WriteMerged
<1>3. i \in 1..Len(r.stores)
  BY StoresGrow
<1>4. /\ is_lazy(r.stores[i]) /\ q.stores[i].klass = r.stores[i].klass
      /\ q.stores[i].lazy = r.stores[i].lazy /\ q.stores[i].nelem = r.stores[i].nelem
  BY <1>3, StoresGrow
<1>5. /\ r.stores[i].klass = w.stores[i].klass /\ r.stores[i].nelem = w.stores[i].nelem
      /\ r.stores[i].lazy = w.groups[i]
  BY <1>1, <1>3, <1>4 DEF ReadOf
<1>6. v.groups[i] = w.groups[i] /\ v.stores[i].nelem = w.stores[i].nelem
  BY <1>2, <1>4, <1>5 DEF WriteObjects, NElem
<1> HIDE DEF q, v
<1>7. /\ w.stores[i].klass \in Nat /\ w.stores[i].klass < Len(w.klasses)
      /\ w.stores[i].nelem = Len(w.groups[i]) /\ w.groups[i] \in Seq(Items)
      /\ Len(w.klasses) \in Nat
  BY <1>1, <1>2, <1>3, WireFacts DEF WireOK
<1>8. ASSUME NEW a \in 1..Len(w.groups[i])
      PROVE  ItemsOK(v, w.groups[i][a], WriteFields(q.klasses[q.stores[i].klass + 1].fields))
  <2>1. PICK k \in Nat : k = w.stores[i].klass + 1
    BY <1>7
  <2>2. k \in 1..Len(r.klasses)
    BY <1>2, <1>7, <2>1
  <2>3. ItemsOK(w, w.groups[i][a], w.klasses[k].fields)
    BY <1>1, <1>2, <1>3, <2>1 DEF WireOK
  <2>4. w.groups[i][a] \in Items
    BY <1>7, ElementOfSeq
  <2>5. ItemsOK(v, w.groups[i][a], WriteFields(q.klasses[k].fields))
    BY <2>2, <2>3, <2>4, KeptWritten DEF q, v
  <2> QED BY <1>4, <1>5, <2>1, <2>5
<1>9. v.stores[i].nelem = Len(v.groups[i])
  BY <1>6, <1>7, Zenon
<1> QED BY <1>6, <1>8, <1>9 DEF q, v

(* The store i of the document v was written from the objects in memory.   *)
StoreFrom(v, i, m, q, T, w, r) ==
  LET n == q.stores[i].def.name
      k == q.stores[i].klass + 1
      A == FieldsIn(T, n)
  IN  /\ n \in Names(T.stores) /\ m.stores[n] \in Seq(ObjectsOf(A))
      /\ v.stores[i].nelem = Len(v.groups[i]) /\ Len(v.groups[i]) = Len(m.stores[n])
      /\ k \in 1..Len(q.klasses) /\ ~is_lazy(q.klasses[k]) /\ IsDeclared(q, T, k)
      /\ DefsOf(q, T, k) = A
      /\ \A a \in 1..Len(m.stores[n]) :
           /\ v.groups[i][a] = WriteObject(m.stores[n][a], q.klasses[k].fields)
           /\ m.stores[n][a] \in ObjectsOf(A) /\ ObjectOK(m, m.stores[n][a], A)
           /\ KeptOK(w, m.stores[n][a].lazy,
                     IF k \in 1..Len(r.klasses) THEN r.klasses[k].fields ELSE <<>>)

LEMMA DeclaredStore ==
  ASSUME NEW r, NEW w, NEW S, NEW T, NEW m, Writes(r, w, S, T, m),
         NEW i \in 1..Len(merge_rt(r, T).stores), ~is_lazy(merge_rt(r, T).stores[i])
  PROVE  LET q == merge_rt(r, T)
         IN  StoreFrom(WriteDoc(q, m), i, m, q, T, w, r)
<1> DEFINE q == merge_rt(r, T)
           v == WriteDoc(q, m)
           n == q.stores[i].def.name
           k == q.stores[i].klass + 1
           O == ObjectsOf(FieldsIn(T, n))
<1>1. GoodSchema(S) /\ GoodSchema(T) /\ MemShape(m, T) /\ MemOK(m, T, r, w)
  BY DEF Writes
<1>2. /\ RTShape(r, S) /\ RTShape(q, T) /\ Len(r.klasses) \in Nat
      /\ v.stores[i].nelem = NElem(q.stores[i], m)
      /\ v.groups[i] = WriteObjects(q.stores[i], q, m)
  <2>1. RTShape(r, S) /\ RTShape(q, T) /\ Len(r.klasses) \in Nat
    BY WriteMerged
  <2>2. v.stores[i].nelem = NElem(q.stores[i], m) /\ v.groups[i] = WriteObjects(q.stores[i], q, m)
    BY WriteMerged
  <2> QED BY <2>1, <2>2, Zenon
<1>3. /\ n \in Names(T.stores) /\ m.stores[n] \in Seq(O)
      /\ NElem(q.stores[i], m) = Len(m.stores[n])
      /\ Len(WriteObjects(q.stores[i], q, m)) = Len(m.stores[n])
      /\ \A a \in 1..Len(m.stores[n]) :
           WriteObjects(q.stores[i], q, m)[a] = WriteObject(m.stores[n][a], q.klasses[k].fields)
  <2>1. PICK p : p = q
    OBVIOUS
  <2>2. RTShape(p, T) /\ i \in 1..Len(p.stores) /\ ~is_lazy(p.stores[i])
    BY <1>2, <2>1
  <2>3. PICK s, os, x : s = p.stores[i] /\ os = WriteObjects(s, p, m) /\ x = s.def.name
    OBVIOUS
  <2>4. /\ x \in Names(T.stores) /\ m.stores[x] \in Seq(ObjectsOf(FieldsIn(T, x)))
        /\ NElem(s, m) = Len(m.stores[x]) /\ Len(os) = Len(m.stores[x])
        /\ DOMAIN m.stores[x] = 1..Len(m.stores[x])
    <3>1. x \in Names(T.stores)
      BY <1>1, <2>2, <2>3, StoreKlass
    <3>2. m.stores[x] \in Seq(ObjectsOf(FieldsIn(T, x)))
      BY <1>1, <3>1 DEF MemShape
    <3>3. NElem(s, m) = Len(m.stores[x])
      BY <2>2, <2>3 DEF NElem
    <3>4. DOMAIN m.stores[x] = 1..Len(m.stores[x]) /\ Len(m.stores[x]) \in Nat
      BY <3>2, LenProperties, Zenon
    <3>5. os = [a \in 1..Len(m.stores[x]) |->
                  WriteObject(m.stores[x][a], p.klasses[s.klass + 1].fields)]
      BY <2>2, <2>3, <3>4, Zenon DEF WriteObjects
    <3> QED BY <3>1, <3>2, <3>3, <3>4, <3>5
  <2>5. \A a \in 1..Len(m.stores[x]) :
          os[a] = WriteObject(m.stores[x][a], p.klasses[s.klass + 1].fields)
    <3>1. os = [a \in DOMAIN m.stores[x] |->
                  WriteObject(m.stores[x][a], p.klasses[s.klass + 1].fields)]
      BY <2>2, <2>3 DEF WriteObjects
    <3> QED BY <2>4, <3>1
  <2> HIDE DEF q
  <2> QED BY <2>1, <2>3, <2>4, <2>5, Zenon
<1>4. /\ k \in 1..Len(q.klasses) /\ ~is_lazy(q.klasses[k]) /\ IsDeclared(q, T, k)
      /\ DefsOf(q, T, k) = FieldsIn(T, n)
  BY <1>1, <1>2, StoreKlass DEF IsDeclared
<1>5. i \in 1..Len(r.stores) =>
        /\ ~is_lazy(r.stores[i]) /\ r.stores[i].klass + 1 = k /\ r.stores[i].def.name = n
        /\ k \in 1..Len(r.klasses)
  <2>1. i \in 1..Len(r.stores) =>
          ~is_lazy(r.stores[i]) /\ q.stores[i].klass = r.stores[i].klass /\ r.stores[i].def.name = n
    BY StoresGrow
  <2>2. i \in 1..Len(r.stores) /\ ~is_lazy(r.stores[i]) => r.stores[i].klass + 1 \in 1..Len(r.klasses)
    BY <1>1, <1>2, StoreKlass
  <2> QED BY <2>1, <2>2
<1>6. i \notin 1..Len(r.stores) => ~Known(r.stores, n)
  BY StoresGrow
<1> HIDE DEF q, v, n, k
<1>7. ASSUME NEW a \in 1..Len(m.stores[n])
      PROVE  /\ m.stores[n][a] \in O /\ ObjectOK(m, m.stores[n][a], FieldsIn(T, n))
             /\ KeptOK(w, m.stores[n][a].lazy,
                       IF k \in 1..Len(r.klasses) THEN r.klasses[k].fields ELSE <<>>)
  <2>1. PICK o : o = m.stores[n][a]
    OBVIOUS
  <2>2. o \in O
    BY <1>3, <2>1, ElementOfSeq, Zenon
  <2>3. ObjectOK(m, o, FieldsIn(T, n))
    BY <1>1, <1>3, <2>1 DEF MemOK
  <2>4. KeptOK(w, o.lazy, IF k \in 1..Len(r.klasses) THEN r.klasses[k].fields ELSE <<>>)
    <3>1. CASE i \in 1..Len(r.stores)
      <4>1. PICK j : j = r.stores[i].klass + 1 /\ j = k
        BY <1>5, <3>1, Zenon
      <4>2. KeptOK(w, o.lazy, r.klasses[j].fields)
        BY <1>1, <1>5, <2>1, <3>1, <4>1, Zenon DEF MemOK
      <4> QED BY <1>5, <3>1, <4>1, <4>2
    <3>2. CASE i \notin 1..Len(r.stores)
      <4>1. o.lazy = <<>>
        BY <1>1, <1>3, <1>6, <2>1, <3>2 DEF MemOK
      <4>2. Len(<<>>) = 0
        BY EmptySeq
      <4> QED BY <4>1, <4>2 DEF KeptOK, ItemsOK
    <3> QED BY <3>1, <3>2
  <2> QED BY <2>1, <2>2, <2>3, <2>4
<1>8. v.stores[i].nelem = Len(v.groups[i]) /\ Len(v.groups[i]) = Len(m.stores[n])
  BY <1>2, <1>3
<1>9. ASSUME NEW a \in 1..Len(m.stores[n])
      PROVE  v.groups[i][a] = WriteObject(m.stores[n][a], q.klasses[k].fields)
  BY <1>2, <1>3, Zenon
<1>10. StoreFrom(v, i, m, q, T, w, r)
  BY <1>3, <1>4, <1>7, <1>8, <1>9, Zenon DEF StoreFrom, n, k
<1> QED BY <1>10 DEF q, v

LEMMA DeclaredStoreWritten ==
  ASSUME NEW r, NEW w, NEW S, NEW T, NEW m, Writes(r, w, S, T, m),
         NEW i \in 1..Len(merge_rt(r, T).stores), ~is_lazy(merge_rt(r, T).stores[i])
  PROVE  LET q == merge_rt(r, T)
             v == WriteDoc(q, m)
         IN  /\ v.stores[i].nelem = Len(v.groups[i])
             /\ \A a \in 1..Len(v.groups[i]) :
                  ItemsOK(v, v.groups[i][a], WriteFields(q.klasses[q.stores[i].klass + 1].fields))
<1>1. PICK q, v : q = merge_rt(r, T) /\ v = WriteDoc(q, m)
  OBVIOUS
<1>2. PICK n, k, A : n = q.stores[i].def.name /\ k = q.stores[i].klass + 1 /\ A = FieldsIn(T, n)
  BY Zenon
<1>3. StoreFrom(v, i, m, q, T, w, r)
  BY <1>1, DeclaredStore
<1>4. /\ v.stores[i].nelem = Len(v.groups[i]) /\ Len(v.groups[i]) = Len(m.stores[n])
      /\ k \in 1..Len(q.klasses) /\ ~is_lazy(q.klasses[k]) /\ DefsOf(q, T, k) = A
  BY <1>2, <1>3, Zenon DEF StoreFrom
<1>5. ASSUME NEW a \in 1..Len(v.groups[i])
      PROVE  ItemsOK(v, v.groups[i][a], WriteFields(q.klasses[k].fields))
  <2>1. PICK o : o = m.stores[n][a]
    BY Zenon
  <2>2. /\ v.groups[i][a] = WriteObject(o, q.klasses[k].fields)
        /\ o \in ObjectsOf(A) /\ ObjectOK(m, o, A)
        /\ KeptOK(w, o.lazy, IF k \in 1..Len(r.klasses) THEN r.klasses[k].fields ELSE <<>>)
    BY <1>2, <1>3, <1>4, <2>1, Zenon DEF StoreFrom
  <2>3. ItemsOK(v, WriteObject(o, q.klasses[k].fields), WriteFields(q.klasses[k].fields))
    BY <1>1, <1>4, <2>2, DeclaredWritten
  <2> QED BY <2>2, <2>3
<1> QED BY <1>1, <1>2, <1>4, <1>5, Zenon

LEMMA WrittenOK ==
  ASSUME NEW r, NEW w, NEW S, NEW T, NEW m, Writes(r, w, S, T, m)
  PROVE  LET v == WriteDoc(merge_rt(r, T), m)
         IN  WireShape(v) /\ WireOK(v) /\ NamesFrom(v, w, T)
<1> DEFINE q == merge_rt(r, T)
           v == WriteDoc(q, m)
<1>1. /\ RTShape(q, T) /\ WireShape(v)
      /\ Len(v.klasses) = Len(q.klasses) /\ Len(v.stores) = Len(q.stores)
      /\ \A k \in 1..Len(q.klasses) : /\ v.klasses[k].serial = Serial(q.klasses[k])
                                      /\ v.klasses[k].fields = WriteFields(q.klasses[k].fields)
      /\ \A i \in 1..Len(q.stores) : v.stores[i].klass = q.stores[i].klass
  BY WriteMerged
<1>2. /\ Apart(v.klasses) /\ Apart(v.stores) /\ NamesFrom(v, w, T)
      /\ \A k \in 1..Len(v.klasses) :
           /\ Apart(v.klasses[k].fields)
           /\ \A i \in 1..Len(v.klasses[k].fields) : v.klasses[k].fields[i].to <= Len(v.stores)
  BY NamesWritten
<1>3. ItemsOK(v, v.doc, WriteFields(q.klasses[q.doc].fields))
  BY DocWritten
<1>4. ASSUME NEW i \in 1..Len(q.stores)
      PROVE  /\ v.stores[i].nelem = Len(v.groups[i])
             /\ \A a \in 1..Len(v.groups[i]) :
                  ItemsOK(v, v.groups[i][a], WriteFields(q.klasses[q.stores[i].klass + 1].fields))
  BY LazyStoreWritten, DeclaredStoreWritten
<1> HIDE DEF q, v
<1>5. q.doc \in 1..Len(q.klasses) /\ v.klasses[q.doc].serial = "__meta__"
  <2>1. q.doc \in 1..Len(q.klasses) /\ ~is_lazy(q.klasses[q.doc]) /\ IsMeta(q.klasses[q.doc].def)
    BY <1>1 DEF RTShape, KlassShape
  <2> QED BY <1>1, <2>1 DEF Serial, IsMeta
<1>6. ASSUME NEW k \in 1..Len(v.klasses), v.klasses[k].serial = "__meta__"
      PROVE  ItemsOK(v, v.doc, v.klasses[k].fields)
  <2>1. k = q.doc
    BY <1>1, <1>2, <1>5, <1>6 DEF Apart
  <2> QED BY <1>1, <1>3, <1>5, <2>1
<1>7. ASSUME NEW i \in 1..Len(v.stores)
      PROVE  /\ v.stores[i].klass < Len(v.klasses)
             /\ v.stores[i].nelem = Len(v.groups[i])
             /\ \A a \in 1..Len(v.groups[i]) :
                  ItemsOK(v, v.groups[i][a], v.klasses[v.stores[i].klass + 1].fields)
  <2>1. PICK c \in Nat : c = q.stores[i].klass
    BY <1>1, RTFacts DEF RTShape
  <2>2. c < Len(q.klasses) /\ Len(q.klasses) \in Nat
    BY <1>1, <2>1, RTFacts DEF RTShape, StoreShape
  <2>3. i \in 1..Len(q.stores) /\ c + 1 \in 1..Len(q.klasses)
    BY <1>1, <2>2
  <2>4. v.stores[i].klass = c
    BY <1>1, <2>1, <2>3
  <2>5. v.klasses[c + 1].fields = WriteFields(q.klasses[c + 1].fields)
    BY <1>1, <2>3
  <2> QED BY <1>1, <1>4, <2>1, <2>2, <2>3, <2>4, <2>5
<1>8. WireOK(v)
  BY <1>1, <1>2, <1>5, <1>6, <1>7 DEF WireOK
<1> QED BY <1>1, <1>2, <1>8 DEF q, v

-----------------------------------------------------------------------------
(* What is read can be written. *)

LEMMA ObjectRead ==
  ASSUME NEW S, NEW D, FieldsOf(D, S), NEW r, Len(r.stores) \in Nat,
         NEW fields, FieldsShape(r, fields, D),
         NEW u, Len(u) = Len(fields), \A i \in 1..Len(fields) : fields[i].to = u[i].to,
         NEW w, NEW items \in Items, ItemsOK(w, items, u), NEW m,
         \A i \in 1..Len(r.stores) : ~is_lazy(r.stores[i]) =>
           w.stores[i].nelem = Len(m.stores[r.stores[i].def.name])
  PROVE  LET o == ReadObject(items, fields, D)
         IN  ObjectOK(m, o, D) /\ KeptOK(w, o.lazy, fields)
<1> DEFINE o == ReadObject(items, fields, D)
           Of(i, n) == Carries(items[i], fields, n)
           kept == {i \in DOMAIN items : KeptLazily(fields[items[i][1] + 1])}
<1>1. /\ D \in Seq(FieldDefs) /\ Unambiguous(D)
      /\ \A d \in ToSet(D) : d.to # NoStore => d.init = Unset
      /\ fields \in Seq(RTFields)
  BY DEF FieldsOf, FieldsShape
<1>2. /\ o \in ObjectsOf(D) /\ (\E f : Picks(f, o.lazy, items, Len(items), kept))
      /\ \A n \in Names(D) :
           \/ \E i \in 1..Len(items) : Of(i, n) /\ o.val[n] = items[i][2]
           \/ (\A i \in 1..Len(items) : ~Of(i, n)) /\ o.val[n] = Named(D, n).init
  <2>1. o \in ObjectsOf(D)
    BY <1>1, ReadObjectIs
  <2>2. \E f : Picks(f, o.lazy, items, Len(items), kept)
    BY <1>1, ReadObjectIs
  <2>3. \A n \in Names(D) :
          \/ \E i \in 1..Len(items) : Of(i, n) /\ o.val[n] = items[i][2]
          \/ (\A i \in 1..Len(items) : ~Of(i, n)) /\ o.val[n] = Named(D, n).init
    BY <1>1, ReadObjectIs
  <2> HIDE DEF o, kept, Of
  <2> QED BY <2>1, <2>2, <2>3
<1>3. \A i \in 1..Len(items) : items[i][1] \in Nat
  BY ItemsAre
<1>4. ASSUME NEW i \in 1..Len(items)
      PROVE  items[i][1] + 1 \in 1..Len(fields) /\ ItemOK(w, items[i], fields)
  <2>1. PICK id \in Nat : id = items[i][1]
    BY <1>3
  <2>2. ItemOK(w, items[i], u)
    BY DEF ItemsOK
  <2>3. id < Len(fields) /\ Len(fields) \in Nat
    BY <1>1, <2>1, <2>2, LenProperties DEF ItemOK
  <2>4. id + 1 \in 1..Len(fields)
    BY <2>3
  <2>5. fields[id + 1].to = u[id + 1].to
    BY <2>4
  <2> QED BY <2>1, <2>2, <2>3, <2>4, <2>5 DEF ItemOK
<1> HIDE DEF o, kept
<1>5. ASSUME NEW n \in Names(D), o.val[n] = Unset PROVE Named(D, n).init = Unset
  <2>1. \A i \in 1..Len(items) : items[i][2] # Unset
    BY ItemsAre
  <2> QED BY <1>2, <1>5, <2>1
<1>6. ASSUME NEW n \in Names(D) PROVE ValueOK(m, o.val[n], Named(D, n))
  <2> SUFFICES ASSUME Named(D, n).to # NoStore
               PROVE  o.val[n] = Unset \/ o.val[n] \in 0..(Len(m.stores[Named(D, n).to]) - 1)
    BY <1>5 DEF ValueOK
  <2>1. PICK d : d = Named(D, n)
    OBVIOUS
  <2>2. d \in ToSet(D) /\ d.name = n /\ d.to # NoStore
    BY <1>1, <2>1, NamedOf
  <2>3. CASE \E i \in 1..Len(items) : Of(i, n) /\ o.val[n] = items[i][2]
    <3>1. PICK i \in 1..Len(items) : Of(i, n) /\ o.val[n] = items[i][2]
      BY <2>3
    <3>2. PICK id \in Nat : id = items[i][1] /\ id + 1 \in 1..Len(fields)
      BY <1>3, <1>4
    <3>3. PICK f \in RTFields : f = fields[id + 1]
      BY <1>1, <3>2, ElementOfSeq
    <3>4. ~is_lazy(f) /\ f.def.name = n
      BY <3>1, <3>2, <3>3 DEF Carries
    <3>5. f.def \in ToSet(D) /\ FieldShape(r, f)
      BY <3>2, <3>3, <3>4 DEF FieldsShape
    <3>6. f.def = d
      BY <1>1, <2>2, <3>4, <3>5, OneOfAName
    <3>7. /\ f.to \in Nat /\ f.to # 0 /\ f.to <= Len(r.stores)
          /\ ~is_lazy(r.stores[f.to]) /\ r.stores[f.to].def.name = d.to
      BY <2>2, <3>4, <3>5, <3>6 DEF FieldShape, RTFields
    <3>8. items[i][2] \in 0..(w.stores[f.to].nelem - 1)
      <4>1. ItemOK(w, items[i], fields)
        BY <1>4
      <4> QED BY <3>2, <3>3, <3>7, <4>1, Zenon DEF ItemOK
    <3>9. f.to \in 1..Len(r.stores)
      BY <3>7
    <3>10. w.stores[f.to].nelem = Len(m.stores[d.to])
      BY <3>7, <3>9
    <3> QED BY <2>1, <3>1, <3>8, <3>10
  <2>4. CASE ~ \E i \in 1..Len(items) : Of(i, n) /\ o.val[n] = items[i][2]
    <3>1. o.val[n] = d.init
      BY <1>2, <2>1, <2>4
    <3> QED BY <1>1, <2>2, <3>1
  <2> QED BY <2>3, <2>4
<1>7. KeptOK(w, o.lazy, fields)
  <2>1. PICK f : Picks(f, o.lazy, items, Len(items), kept)
    BY <1>2
  <2>2. \A k \in 1..Len(o.lazy) : f[k] \in 1..Len(items) /\ f[k] \in kept /\ o.lazy[k] = items[f[k]]
    BY <2>1 DEF Picks
  <2>3. \A k \in 1..Len(o.lazy) : ItemOK(w, o.lazy[k], fields)
    BY <1>4, <2>2
  <2>4. \A k \in 1..Len(o.lazy) : KeptLazily(fields[o.lazy[k][1] + 1])
    BY <2>2 DEF kept
  <2>5. \A j, k \in 1..Len(o.lazy) : j # k => o.lazy[j][1] # o.lazy[k][1]
    <3>1. \A j, k \in 1..Len(o.lazy) : j # k => f[j] # f[k]
      BY <2>1 DEF Picks
    <3>2. \A i, j \in 1..Len(items) : i # j => items[i][1] # items[j][1]
      BY DEF ItemsOK
    <3>3. ASSUME NEW j \in 1..Len(o.lazy), NEW k \in 1..Len(o.lazy), j # k
          PROVE  o.lazy[j][1] # o.lazy[k][1]
      <4>1. PICK a \in 1..Len(items), b \in 1..Len(items) : a = f[j] /\ b = f[k]
        BY <2>2
      <4>2. a # b
        BY <3>1, <3>3, <4>1
      <4>3. items[a][1] # items[b][1]
        BY <3>2, <4>2
      <4> QED BY <2>2, <4>1, <4>3
    <3> QED BY <3>3
  <2> QED BY <2>3, <2>4, <2>5 DEF KeptOK, ItemsOK
<1> QED BY <1>6, <1>7 DEF ObjectOK, o

LEMMA ReadMemOK ==
  ASSUME NEW w, WireShape(w), WireOK(w), NEW S, GoodSchema(S), ~Rejects(w, S)
  PROVE  MemOK(ReadMem(w, S), S, ReadRT(w, S), w)
<1> DEFINE r == ReadRT(w, S)
           m == ReadMem(w, S)
<1>1. RTShape(r, S) /\ ReadOf(r, w, S)
  BY ReadOfWire, ReadShape
<1>2. m.doc = IF S.doc = <<>> THEN Fresh(<<>>)
              ELSE ReadObject(w.doc, r.klasses[r.doc].fields, S.doc)
  BY ReadMemIs
<1>3. ASSUME NEW n \in Names(S.stores), ~Known(r.stores, n) PROVE m.stores[n] = <<>>
  BY <1>3, ReadMemIs
<1>4. ASSUME NEW n \in Names(S.stores), Known(r.stores, n)
      PROVE  LET i == At(r.stores, n)
                 k == r.stores[i].klass + 1
             IN  /\ i \in 1..Len(r.stores) /\ ~is_lazy(r.stores[i]) /\ r.stores[i].def.name = n
                 /\ Len(m.stores[n]) = Len(w.groups[i])
                 /\ \A a \in 1..Len(w.groups[i]) :
                      m.stores[n][a] = ReadObject(w.groups[i][a], r.klasses[k].fields,
                                                  FieldsIn(S, n))
  BY <1>4, ReadMemIs
<1> HIDE DEF r, m
<1>5. /\ Len(r.stores) \in Nat /\ Len(r.klasses) \in Nat
      /\ DOMAIN r.stores = 1..Len(r.stores)
      /\ Len(w.stores) = Len(r.stores) /\ Len(w.klasses) = Len(r.klasses)
      /\ r.doc \in 1..Len(r.klasses)
  BY <1>1, RTFacts, Zenon DEF RTShape, ReadOf, EntriesOf
<1>6. ASSUME NEW i \in 1..Len(r.stores), ~is_lazy(r.stores[i])
      PROVE  LET n == r.stores[i].def.name
             IN  n \in Names(S.stores) /\ Known(r.stores, n) /\ i = At(r.stores, n)
  <2>1. PICK n : n = r.stores[i].def.name
    OBVIOUS
  <2>2. n \in Names(S.stores)
    BY <1>1, <1>6, <2>1, StoreKlass
  <2>3. Known(r.stores, n)
    BY <1>5, <1>6, <2>1 DEF Known
  <2>4. PICK j \in 1..Len(r.stores) : j = At(r.stores, n) /\ ~is_lazy(r.stores[j])
                                      /\ r.stores[j].def.name = n
    BY <1>4, <2>2, <2>3
  <2>5. /\ r.stores[i].def \in ToSet(S.stores) /\ r.stores[i].def.serial = w.stores[i].serial
        /\ r.stores[j].def \in ToSet(S.stores) /\ r.stores[j].def.serial = w.stores[j].serial
    BY <1>1, <1>6, <2>4 DEF ReadOf, EntriesOf
  <2>6. r.stores[i].def = r.stores[j].def
    BY <2>1, <2>4, <2>5, StoreFacts, OneOfAName
  <2>7. i = j
    BY <1>5, <2>5, <2>6 DEF WireOK, Apart
  <2> QED BY <2>1, <2>2, <2>3, <2>4, <2>7, Zenon
<1>7. ASSUME NEW i \in 1..Len(r.stores), ~is_lazy(r.stores[i])
      PROVE  w.stores[i].nelem = Len(m.stores[r.stores[i].def.name])
  <2>1. w.stores[i].nelem = Len(w.groups[i])
    BY <1>5 DEF WireOK
  <2>2. PICK n : n = r.stores[i].def.name
    OBVIOUS
  <2>3. n \in Names(S.stores) /\ Known(r.stores, n) /\ i = At(r.stores, n)
    BY <1>6, <1>7, <2>2
  <2>4. Len(m.stores[n]) = Len(w.groups[i])
    BY <1>4, <2>3
  <2> QED BY <2>1, <2>2, <2>4
<1>8. ASSUME NEW k \in 1..Len(r.klasses), NEW D, FieldsOf(D, S),
             FieldsShape(r, r.klasses[k].fields, D),
             NEW items \in Items, ItemsOK(w, items, w.klasses[k].fields)
      PROVE  LET o == ReadObject(items, r.klasses[k].fields, D)
             IN  ObjectOK(m, o, D) /\ KeptOK(w, o.lazy, r.klasses[k].fields)
  <2>1. PICK fields, u : fields = r.klasses[k].fields /\ u = w.klasses[k].fields
    OBVIOUS
  <2>2. Len(u) = Len(fields) /\ \A i \in 1..Len(fields) : fields[i].to = u[i].to
    BY <1>1, <2>1 DEF ReadOf, EntriesOf
  <2>3. FieldsShape(r, fields, D) /\ ItemsOK(w, items, u)
    BY <1>8, <2>1
  <2>4. LET o == ReadObject(items, fields, D)
        IN  ObjectOK(m, o, D) /\ KeptOK(w, o.lazy, fields)
    BY <1>5, <1>7, <1>8, <2>2, <2>3, ObjectRead
  <2> QED BY <2>1, <2>4
<1>9. ObjectOK(m, m.doc, S.doc) /\ KeptOK(w, m.doc.lazy, r.klasses[r.doc].fields)
  <2>1. CASE S.doc = <<>>
    <3>1. <<>> \in Seq(FieldDefs) /\ Len(<<>>) = 0
      BY EmptySeq
    <3>2. Names(<<>>) = {}
      BY DEF Names, ToSet
    <3>3. m.doc.lazy = <<>>
      BY <1>2, <2>1, <3>1, FreshIs
    <3> QED BY <2>1, <3>1, <3>2, <3>3 DEF ObjectOK, KeptOK, ItemsOK
  <2>2. CASE S.doc # <<>>
    <3>1. FieldsOf(S.doc, S)
      BY FieldsOfDoc
    <3>2. FieldsShape(r, r.klasses[r.doc].fields, S.doc)
      BY <1>1, <1>5 DEF RTShape, KlassShape, DefsOf
    <3>3. w.doc \in Items /\ ItemsOK(w, w.doc, w.klasses[r.doc].fields)
      BY <1>1, <1>5, WireFacts DEF WireOK, ReadOf
    <3> QED BY <1>2, <1>5, <1>8, <2>2, <3>1, <3>2, <3>3
  <2> QED BY <2>1, <2>2
<1>10. ASSUME NEW i \in 1..Len(r.stores), ~is_lazy(r.stores[i])
       PROVE  LET n == r.stores[i].def.name
              IN  \A a \in 1..Len(m.stores[n]) :
                    /\ ObjectOK(m, m.stores[n][a], FieldsIn(S, n))
                    /\ KeptOK(w, m.stores[n][a].lazy, r.klasses[r.stores[i].klass + 1].fields)
  <2>1. PICK n, k : n = r.stores[i].def.name /\ k = r.stores[i].klass + 1
    OBVIOUS
  <2>2. n \in Names(S.stores) /\ Known(r.stores, n) /\ i = At(r.stores, n)
    BY <1>6, <1>10, <2>1
  <2>3. Len(m.stores[n]) = Len(w.groups[i])
    BY <1>4, <2>2
  <2>4. \A a \in 1..Len(w.groups[i]) :
          m.stores[n][a] = ReadObject(w.groups[i][a], r.klasses[k].fields, FieldsIn(S, n))
    <3>1. PICK j, l : j = At(r.stores, n) /\ l = r.stores[j].klass + 1
      OBVIOUS
    <3>2. \A a \in 1..Len(w.groups[j]) :
            m.stores[n][a] = ReadObject(w.groups[j][a], r.klasses[l].fields, FieldsIn(S, n))
      BY <1>4, <2>2, <3>1, Zenon
    <3>3. j = i /\ l = k
      BY <2>1, <2>2, <3>1, Zenon
    <3> QED BY <3>2, <3>3
  <2>5. k \in 1..Len(r.klasses) /\ FieldsShape(r, r.klasses[k].fields, FieldsIn(S, n))
    BY <1>1, <1>10, <2>1, StoreKlass
  <2>6. FieldsOf(FieldsIn(S, n), S)
    BY <2>2, FieldsInFacts, FieldsOfKlass DEF FieldsIn
  <2>7. ASSUME NEW a \in 1..Len(w.groups[i])
        PROVE  w.groups[i][a] \in Items /\ ItemsOK(w, w.groups[i][a], w.klasses[k].fields)
    <3>1. w.groups[i][a] \in Items
      BY <1>5, WireFacts, ElementOfSeq
    <3>2. w.stores[i].klass + 1 = k
      BY <1>1, <2>1 DEF ReadOf
    <3>3. i \in 1..Len(w.stores)
      BY <1>5
    <3> QED BY <3>1, <3>2, <3>3 DEF WireOK
  <2>8. ASSUME NEW a \in 1..Len(m.stores[n])
        PROVE  /\ ObjectOK(m, m.stores[n][a], FieldsIn(S, n))
               /\ KeptOK(w, m.stores[n][a].lazy, r.klasses[k].fields)
    BY <1>8, <2>3, <2>4, <2>5, <2>6, <2>7
  <2> QED BY <2>1, <2>8
<1>11. ASSUME NEW n \in Names(S.stores), NEW a \in 1..Len(m.stores[n])
       PROVE  /\ ObjectOK(m, m.stores[n][a], FieldsIn(S, n))
              /\ ~Known(r.stores, n) => m.stores[n][a].lazy = <<>>
  <2>1. Known(r.stores, n)
    BY <1>3, EmptySeq
  <2>2. PICK i \in 1..Len(r.stores) : ~is_lazy(r.stores[i]) /\ r.stores[i].def.name = n
    BY <1>4, <2>1
  <2>3. ObjectOK(m, m.stores[n][a], FieldsIn(S, n))
    BY <1>10, <2>2
  <2> QED BY <2>1, <2>3
<1>12. ASSUME NEW i \in 1..Len(r.stores), ~is_lazy(r.stores[i])
       PROVE  w.stores[i].nelem <= Len(m.stores[r.stores[i].def.name])
  <2>1. w.stores[i].nelem \in Nat
    BY <1>5, WireFacts
  <2>2. w.stores[i].nelem = Len(m.stores[r.stores[i].def.name])
    BY <1>7, <1>12
  <2> QED BY <2>1, <2>2
<1>13. MemOK(m, S, r, w)
  BY <1>9, <1>10, <1>11, <1>12, Zenon DEF MemOK
<1> QED BY <1>13 DEF r, m

LEMMA SameMemOK ==
  ASSUME NEW S, NEW T, GoodSchema(S), GoodSchema(T), SameSchema(S, T),
         NEW m, NEW r, NEW w, MemOK(m, S, r, w)
  PROVE  MemOK(m, T, r, w)
<1>1. ASSUME NEW D \in Seq(FieldDefs), NEW E \in Seq(FieldDefs), Unambiguous(D), Unambiguous(E),
             SameButSerials(D, E), NEW o, ObjectOK(m, o, D)
      PROVE  ObjectOK(m, o, E)
  <2>1. /\ Names(E) = Names(D)
        /\ \A n \in Names(D) : Named(E, n).to = Named(D, n).to /\ Named(E, n).init = Named(D, n).init
    BY <1>1, SameFields
  <2> QED BY <1>1, <2>1 DEF ObjectOK, ValueOK
<1>2. ObjectOK(m, m.doc, T.doc)
  BY <1>1, DocFacts DEF MemOK, SameSchema
<1>3. Names(T.stores) = Names(S.stores)
  BY SameStores
<1>4. ASSUME NEW n \in Names(S.stores), NEW a \in 1..Len(m.stores[n])
      PROVE  ObjectOK(m, m.stores[n][a], FieldsIn(T, n))
  <2>1. ObjectOK(m, m.stores[n][a], FieldsIn(S, n))
    BY DEF MemOK
  <2>2. SameButSerials(FieldsIn(S, n), FieldsIn(T, n))
    BY SameFieldsIn
  <2>3. /\ FieldsIn(S, n) \in Seq(FieldDefs) /\ Unambiguous(FieldsIn(S, n))
        /\ FieldsIn(T, n) \in Seq(FieldDefs) /\ Unambiguous(FieldsIn(T, n))
    BY <1>3, FieldsInFacts
  <2> QED BY <1>1, <2>1, <2>2, <2>3
<1> QED BY <1>2, <1>3, <1>4 DEF MemOK

LEMMA FreshOK ==
  ASSUME NEW D, NEW S, FieldsOf(D, S), NEW m
  PROVE  ObjectOK(m, Fresh(D), D) /\ Fresh(D).lazy = <<>>
<1>1. ASSUME NEW n \in Names(D) PROVE ValueOK(m, Fresh(D).val[n], Named(D, n))
  <2>1. Named(D, n) \in ToSet(D)
    BY NamedOf DEF FieldsOf
  <2>2. Fresh(D).val[n] = Named(D, n).init
    BY FreshIs DEF FieldsOf
  <2> QED BY <2>1, <2>2 DEF FieldsOf, ValueOK
<1> QED BY <1>1, FreshIs DEF FieldsOf, ObjectOK

LEMMA NewMemOK ==
  ASSUME NEW S, GoodSchema(S), NEW T,
         NEW m, m = [doc |-> Fresh(S.doc), stores |-> [n \in Names(S.stores) |-> <<>>]]
  PROVE  MemOK(m, S, EmptyRT(T), NoWire)
<1>1. ObjectOK(m, m.doc, S.doc) /\ m.doc.lazy = <<>>
  BY FieldsOfDoc, FreshOK
<1>2. Len(EmptyRT(T).stores) = 0 /\ Len(<<>>) = 0
  BY EmptySeq DEF EmptyRT
<1>3. \A n \in Names(S.stores) : m.stores[n] = <<>>
  OBVIOUS
<1>4. KeptOK(NoWire, <<>>, EmptyRT(T).klasses[EmptyRT(T).doc].fields)
  BY <1>2 DEF KeptOK, ItemsOK
<1> QED BY <1>1, <1>2, <1>3, <1>4 DEF MemOK

(* Whatever is declared in the runtime is declared in the schema.          *)
StoresDeclared(r, S) ==
  \A i \in 1..Len(r.stores) : ~is_lazy(r.stores[i]) => r.stores[i].def.name \in Names(S.stores)

(* A store changes: its annotations stay, with what was kept of them, and  *)
(* those that are new have nothing kept.                                   *)
LEMMA StoreChangedOK ==
  ASSUME NEW S, GoodSchema(S), NEW m, MemShape(m, S), NEW r, NEW w, MemOK(m, S, r, w),
         WireShape(w), Len(w.stores) = Len(r.stores), StoresDeclared(r, S),
         NEW n \in Names(S.stores), NEW objects \in Seq(ObjectsOf(FieldsIn(S, n))),
         Len(m.stores[n]) <= Len(objects),
         \A a \in 1..Len(objects) :
           /\ ObjectOK(m, objects[a], FieldsIn(S, n))
           /\ \/ objects[a].lazy = <<>>
              \/ a \in 1..Len(m.stores[n]) /\ objects[a].lazy = m.stores[n][a].lazy
  PROVE  MemOK([m EXCEPT !.stores[n] = objects], S, r, w)
<1> DEFINE q == [m EXCEPT !.stores[n] = objects]
<1>1. q.doc = m.doc /\ \A x \in Names(S.stores) : q.stores[x] = IF x = n THEN objects ELSE m.stores[x]
  <2>1. PICK doc, stores : doc = m.doc /\ stores = m.stores
    OBVIOUS
  <2>2. m = [doc |-> doc, stores |-> stores] /\ stores = [x \in Names(S.stores) |-> stores[x]]
    BY <2>1 DEF MemShape
  <2>3. q = [doc |-> doc, stores |-> [stores EXCEPT ![n] = objects]]
    BY <2>2
  <2> HIDE DEF q
  <2>4. q.doc = doc /\ q.stores = [stores EXCEPT ![n] = objects]
    BY <2>3
  <2> QED BY <2>1, <2>2, <2>4
<1> HIDE DEF q
<1>2. ASSUME NEW x \in Names(S.stores)
      PROVE  /\ Len(m.stores[x]) \in Nat /\ Len(q.stores[x]) \in Nat
             /\ Len(m.stores[x]) <= Len(q.stores[x])
  <2>1. Len(m.stores[x]) \in Nat /\ Len(objects) \in Nat
    BY LenProperties DEF MemShape
  <2> QED BY <1>1, <2>1
<1>3. ASSUME NEW D, FieldsOf(D, S), NEW o, ObjectOK(m, o, D) PROVE ObjectOK(q, o, D)
  <2>1. ASSUME NEW x \in Names(D) PROVE ValueOK(q, o.val[x], Named(D, x))
    <3>1. PICK d : d = Named(D, x)
      OBVIOUS
    <3>2. d.to # NoStore => d.to \in Names(S.stores)
      BY <1>3, <3>1, NamedOf DEF FieldsOf
    <3>3. ValueOK(m, o.val[x], d)
      BY <1>3, <3>1 DEF ObjectOK
    <3>4. d.to # NoStore => /\ Len(m.stores[d.to]) \in Nat /\ Len(q.stores[d.to]) \in Nat
                            /\ Len(m.stores[d.to]) <= Len(q.stores[d.to])
      BY <1>2, <3>2
    <3>5. PICK v : v = o.val[x] /\ (v = Unset => d.init = Unset)
      BY <3>3 DEF ValueOK
    <3>6. d.to # NoStore /\ v # Unset => v \in 0..(Len(q.stores[d.to]) - 1)
      <4>1. SUFFICES ASSUME d.to # NoStore, v # Unset
                     PROVE  v \in 0..(Len(q.stores[d.to]) - 1)
        OBVIOUS
      <4>2. v \in 0..(Len(m.stores[d.to]) - 1)
        BY <3>1, <3>3, <3>5, <4>1 DEF ValueOK
      <4> QED BY <3>4, <4>1, <4>2
    <3> QED BY <3>1, <3>5, <3>6 DEF ValueOK
  <2> QED BY <2>1 DEF ObjectOK
<1>4. ObjectOK(q, q.doc, S.doc)
  BY <1>1, <1>3, FieldsOfDoc DEF MemOK
<1>5. ASSUME NEW x \in Names(S.stores), NEW a \in 1..Len(q.stores[x])
      PROVE  /\ ObjectOK(m, q.stores[x][a], FieldsIn(S, x))
             /\ \/ q.stores[x][a].lazy = <<>>
                \/ a \in 1..Len(m.stores[x]) /\ q.stores[x][a].lazy = m.stores[x][a].lazy
  <2>1. CASE x = n
    BY <1>1, <2>1
  <2>2. CASE x # n
    BY <1>1, <2>2 DEF MemOK
  <2> QED BY <2>1, <2>2
<1>6. ASSUME NEW x \in Names(S.stores), NEW a \in 1..Len(q.stores[x])
      PROVE  /\ ObjectOK(q, q.stores[x][a], FieldsIn(S, x))
             /\ ~Known(r.stores, x) => q.stores[x][a].lazy = <<>>
  <2>1. FieldsOf(FieldsIn(S, x), S)
    BY FieldsInFacts, FieldsOfKlass DEF FieldsIn
  <2>2. ObjectOK(q, q.stores[x][a], FieldsIn(S, x))
    BY <1>3, <1>5, <2>1, Zenon
  <2> QED BY <1>5, <2>2 DEF MemOK
<1>7. ASSUME NEW i \in 1..Len(r.stores), ~is_lazy(r.stores[i])
      PROVE  LET x == r.stores[i].def.name
             IN  /\ w.stores[i].nelem <= Len(q.stores[x])
                 /\ \A a \in 1..Len(q.stores[x]) :
                      KeptOK(w, q.stores[x][a].lazy, r.klasses[r.stores[i].klass + 1].fields)
  <2>1. PICK x, fields : x = r.stores[i].def.name /\ fields = r.klasses[r.stores[i].klass + 1].fields
    OBVIOUS
  <2>2. x \in Names(S.stores)
    BY <1>7, <2>1 DEF StoresDeclared
  <2>3. /\ w.stores[i].nelem <= Len(m.stores[x])
        /\ \A a \in 1..Len(m.stores[x]) : KeptOK(w, m.stores[x][a].lazy, fields)
    BY <1>7, <2>1 DEF MemOK
  <2>4. w.stores[i].nelem \in Nat
    BY WireFacts
  <2>5. w.stores[i].nelem <= Len(q.stores[x])
    BY <1>2, <2>2, <2>3, <2>4
  <2>6. KeptOK(w, <<>>, fields)
    BY EmptySeq DEF KeptOK, ItemsOK
  <2>7. \A a \in 1..Len(q.stores[x]) : KeptOK(w, q.stores[x][a].lazy, fields)
    BY <1>5, <2>2, <2>3, <2>6
  <2> QED BY <2>1, <2>5, <2>7, Zenon
<1>8. KeptOK(w, q.doc.lazy, r.klasses[r.doc].fields)
  BY <1>1, Zenon DEF MemOK
<1>9. MemOK(q, S, r, w)
  BY <1>4, <1>6, <1>7, <1>8, Zenon DEF MemOK
<1> QED BY <1>9 DEF q

LEMMA EditOK ==
  ASSUME NEW S, S = tool.in, GoodSchema(S), MemShape(mem, S), NEW r, NEW w, MemOK(mem, S, r, w),
         WireShape(w), Len(w.stores) = Len(r.stores), StoresDeclared(r, S), EditNext
  PROVE  MemOK(mem', S, r, w)
<1>1. ASSUME NEW d \in ToSet(S.doc), SetDocField(d) PROVE MemOK(mem', S, r, w)
  <2>1. /\ d \in FieldDefs /\ d.name \in Names(S.doc) /\ Named(S.doc, d.name) = d
        /\ (d.to # NoStore => d.to \in Names(S.stores) /\ d.init = Unset)
    BY DocFacts, ToSetIs, NamedIs
  <2>2. PICK v \in Assignable(d) : mem' = [mem EXCEPT !.doc.val[d.name] = v]
    BY <1>1 DEF SetDocField
  <2>3. v \in Data /\ ValueOK(mem, v, d)
    BY <2>1, AssignableIs, NothingAssumption DEF ValueOK
  <2>4. PICK o : o = [mem.doc EXCEPT !.val[d.name] = v]
    OBVIOUS
  <2>5. mem.doc \in ObjectsOf(S.doc) /\ S.doc \in Seq(FieldDefs)
    BY DocFacts DEF MemShape
  <2>6. o.lazy = mem.doc.lazy /\ o.val = [mem.doc.val EXCEPT ![d.name] = v]
    BY <2>1, <2>3, <2>4, <2>5, SetValue
  <2>7. mem.doc.val \in [Names(S.doc) -> Data]
    BY <2>5 DEF ObjectsOf
  <2>8. \A n \in Names(S.doc) : o.val[n] = IF n = d.name THEN v ELSE mem.doc.val[n]
    BY <2>6, <2>7
  <2>9. mem' = [doc |-> o, stores |-> mem.stores]
    BY <2>2, <2>4 DEF MemShape
  <2>10. mem'.doc = o /\ mem'.stores = mem.stores
    BY <2>9
  <2>11. \A x, e : ValueOK(mem', x, e) <=> ValueOK(mem, x, e)
    BY <2>10 DEF ValueOK
  <2>12. ObjectOK(mem', o, S.doc)
    BY <2>1, <2>3, <2>8, <2>11 DEF ObjectOK, MemOK
  <2>13. \A x, D : ObjectOK(mem', x, D) <=> ObjectOK(mem, x, D)
    BY <2>11 DEF ObjectOK
  <2>14. KeptOK(w, mem'.doc.lazy, r.klasses[r.doc].fields)
    BY <2>6, <2>10 DEF MemOK
  <2>15. \A n \in Names(S.stores) : \A a \in 1..Len(mem'.stores[n]) :
           /\ ObjectOK(mem', mem'.stores[n][a], FieldsIn(S, n))
           /\ ~Known(r.stores, n) => mem'.stores[n][a].lazy = <<>>
    BY <2>10, <2>13 DEF MemOK
  <2> QED BY <2>10, <2>12, <2>14, <2>15, Zenon DEF MemOK
<1>2. ASSUME NEW n \in Names(S.stores), CreateAnn(n) PROVE MemOK(mem', S, r, w)
  <2>1. PICK D : D = FieldsIn(S, n)
    OBVIOUS
  <2>2. mem' = [mem EXCEPT !.stores[n] = Append(mem.stores[n], Fresh(D))]
    BY <1>2, <2>1 DEF CreateAnn, KlassFields, FieldsIn
  <2>3. FieldsOf(D, S) /\ D \in Seq(FieldDefs)
    BY <2>1, FieldsInFacts, FieldsOfKlass DEF FieldsIn, FieldsOf
  <2>4. Fresh(D) \in ObjectsOf(D) /\ ObjectOK(mem, Fresh(D), D) /\ Fresh(D).lazy = <<>>
    BY <2>3, FreshIs, FreshOK
  <2>5. PICK old \in Seq(ObjectsOf(D)) : old = mem.stores[n]
    BY <2>1 DEF MemShape
  <2>6. PICK new : new = Append(old, Fresh(D))
    OBVIOUS
  <2>7. /\ new \in Seq(ObjectsOf(D)) /\ Len(new) = Len(old) + 1
        /\ \A a \in 1..Len(old) : new[a] = old[a]
        /\ new[Len(old) + 1] = Fresh(D)
    BY <2>4, <2>6, AppendProperties
  <2>8. Len(old) \in Nat
    BY LenProperties
  <2>9. \A a \in 1..Len(new) : a \in 1..Len(old) \/ a = Len(old) + 1
    BY <2>7, <2>8
  <2>10. \A a \in 1..Len(old) : ObjectOK(mem, old[a], D)
    BY <2>1, <2>5 DEF MemOK
  <2>11. \A a \in 1..Len(new) :
           /\ ObjectOK(mem, new[a], D)
           /\ new[a].lazy = <<>> \/ (a \in 1..Len(old) /\ new[a].lazy = old[a].lazy)
    BY <2>4, <2>7, <2>9, <2>10
  <2>12. Len(old) <= Len(new)
    BY <2>7, <2>8
  <2> QED BY <2>1, <2>2, <2>5, <2>6, <2>7, <2>11, <2>12, StoreChangedOK
<1>3. ASSUME NEW n \in Names(S.stores), NEW a \in DOMAIN mem.stores[n],
             NEW d \in ToSet(KlassFields(n)), SetField(n, a, d)
      PROVE  MemOK(mem', S, r, w)
  <2>1. PICK D : D = FieldsIn(S, n)
    OBVIOUS
  <2>2. FieldsOf(D, S) /\ D \in Seq(FieldDefs) /\ Unambiguous(D) /\ d \in ToSet(D)
    <3>1. FieldsOf(D, S)
      BY <2>1, FieldsInFacts, FieldsOfKlass DEF FieldsIn
    <3>2. D \in Seq(FieldDefs) /\ Unambiguous(D)
      BY <3>1 DEF FieldsOf
    <3>3. KlassFields(n) = D
      BY <2>1 DEF KlassFields, FieldsIn
    <3> QED BY <3>1, <3>2, <3>3
  <2>3. /\ d \in FieldDefs /\ d.name \in Names(D) /\ Named(D, d.name) = d
        /\ (d.to # NoStore => d.to \in Names(S.stores) /\ d.init = Unset)
    BY <2>2, ToSetIs, NamedIs DEF FieldsOf
  <2>4. PICK v \in Assignable(d) : mem' = [mem EXCEPT !.stores[n][a].val[d.name] = v]
    BY <1>3 DEF SetField
  <2>5. v \in Data /\ ValueOK(mem, v, d)
    BY <2>3, AssignableIs, NothingAssumption DEF ValueOK
  <2>6. PICK old \in Seq(ObjectsOf(D)) : old = mem.stores[n]
    BY <2>1 DEF MemShape
  <2>7. PICK o : o = [old[a] EXCEPT !.val[d.name] = v]
    OBVIOUS
  <2>8. DOMAIN old = 1..Len(old) /\ Len(old) \in Nat /\ a \in 1..Len(old)
    BY <2>6, LenProperties
  <2>9. old[a] \in ObjectsOf(D)
    BY <2>8, ElementOfSeq
  <2>10. o \in ObjectsOf(D) /\ o.lazy = old[a].lazy /\ o.val = [old[a].val EXCEPT ![d.name] = v]
    BY <2>2, <2>3, <2>5, <2>7, <2>9, SetValue
  <2>11. old[a].val \in [Names(D) -> Data]
    BY <2>9 DEF ObjectsOf
  <2>12. \A x \in Names(D) : o.val[x] = IF x = d.name THEN v ELSE old[a].val[x]
    BY <2>10, <2>11
  <2>13. \A b \in 1..Len(old) : ObjectOK(mem, old[b], D)
    BY <2>1, <2>6 DEF MemOK
  <2>14. ObjectOK(mem, o, D)
    BY <2>3, <2>5, <2>8, <2>12, <2>13 DEF ObjectOK
  <2>15. PICK new : new = [old EXCEPT ![a] = o]
    OBVIOUS
  <2>16. new \in Seq(ObjectsOf(D)) /\ Len(new) = Len(old)
         /\ \A b \in 1..Len(old) : new[b] = IF b = a THEN o ELSE old[b]
    <3>1. new \in Seq(ObjectsOf(D)) /\ Len(new) = Len(old)
      BY <2>8, <2>10, <2>15, ExceptSeq
    <3> QED BY <2>8, <2>15, <3>1
  <2>17. \A b \in 1..Len(new) :
           /\ ObjectOK(mem, new[b], D)
           /\ new[b].lazy = <<>> \/ (b \in 1..Len(old) /\ new[b].lazy = old[b].lazy)
    BY <2>10, <2>13, <2>14, <2>16
  <2>18. mem' = [mem EXCEPT !.stores[n] = new]
    <3>1. d.name \in Names(FieldsIn(S, n))
      BY <2>1, <2>3
    <3> QED BY <2>4, <2>5, <2>6, <2>7, <2>15, <3>1, ObjectChanged
  <2>19. Len(old) <= Len(new)
    BY <2>8, <2>16
  <2> QED BY <2>1, <2>6, <2>16, <2>17, <2>18, <2>19, StoreChangedOK
<1> QED BY <1>1, <1>2, <1>3, Zenon DEF EditNext

-----------------------------------------------------------------------------
(* The document of a pipeline. *)

(* What the memory was read from: a new document from nothing.             *)
Source == IF rt = NoDoc THEN NoWire ELSE wire

(* No tool of the rest of the pipeline adds a name that one before it in   *)
(* the rest of the pipeline, or the one that works, writes with.           *)
NamesAhead ==
  /\ \A i, j \in 1..Len(pipeline) : i < j => AddsNoNameOf(pipeline[j], pipeline[i])
  /\ pc = "edit" => \A j \in 1..Len(pipeline) : AddsNoNameOf(pipeline[j], tool)

(* The document on the stream can be read and has none of the names that   *)
(* the tools which have it before them add.                                *)
WireInv ==
  wire # NoDoc =>
    /\ WireOK(wire)
    /\ \A j \in 1..Len(pipeline) : NoClash(pipeline[j].in, pipeline[j].out, wire)

(* The memory of a tool is such that what it writes can be read.           *)
MemInv ==
  pc = "edit" =>
    /\ rt # NoDoc => NoClash(tool.in, tool.out, wire)
    /\ MemOK(mem, tool.in, RTToMerge, Source)

DocumentInv == PipelineInv /\ NamesAhead /\ WireInv /\ MemInv

LEMMA NoClashWithNothing ==
  ASSUME NEW S, NEW T, GoodSchema(T)
  PROVE  NoClash(S, T, NoWire)
<1> DEFINE k == [serial |-> "__meta__", fields |-> <<>>]
<1>1. Len(NoWire.klasses) = 1 /\ NoWire.klasses[1] = k /\ Len(NoWire.stores) = 0
  BY EmptySeq DEF NoWire
<1>2. k.serial = "__meta__" /\ Len(k.fields) = 0
  BY EmptySeq
<1>3. "__meta__" \notin Serials(T.klasses)
  BY KlassFacts
<1> HIDE DEF k
<1> QED BY <1>1, <1>2, <1>3 DEF NoClash

(* What a tool writes has no name that a tool adds which adds none of the  *)
(* names that the first writes with nor one of what it has read.           *)
LEMMA NoClashWritten ==
  ASSUME NEW s, GoodSchema(s.out), NEW t, GoodSchema(t.out), AddsNoNameOf(t, s),
         NEW w, NoClash(t.in, t.out, w), NEW v, NamesFrom(v, w, s.out)
  PROVE  NoClash(t.in, t.out, v)
<1>1. /\ \A x \in Serials(s.out.klasses) : x \notin Serials(t.out.klasses) \ Serials(t.in.klasses)
      /\ \A x \in Serials(s.out.stores) : x \notin Serials(t.out.stores) \ Serials(t.in.stores)
  BY DEF AddsNoNameOf, AddedKlasses, AddedStores
<1>2. \A x \in FieldSerials(s.out) : x \notin FieldsAdded(t.in, t.out)
  BY DEF AddsNoNameOf, AddedFields, FieldsAdded, FieldSerials
<1>3. "__meta__" \notin Serials(t.out.klasses)
  BY KlassFacts
<1>4. ASSUME NEW k \in 1..Len(v.klasses)
      PROVE  v.klasses[k].serial \notin Serials(t.out.klasses) \ Serials(t.in.klasses)
  BY <1>1, <1>3 DEF NamesFrom, NoClash
<1>5. ASSUME NEW k \in 1..Len(v.klasses), NEW i \in 1..Len(v.klasses[k].fields)
      PROVE  v.klasses[k].fields[i].serial \notin FieldsAdded(t.in, t.out)
  <2>1. FieldOf(v.klasses[k].fields[i].serial, w, s.out)
    BY DEF NamesFrom
  <2> QED BY <1>2, <2>1 DEF FieldOf, NoClash
<1>6. ASSUME NEW i \in 1..Len(v.stores)
      PROVE  v.stores[i].serial \notin Serials(t.out.stores) \ Serials(t.in.stores)
  BY <1>1 DEF NamesFrom, NoClash
<1> QED BY <1>4, <1>5, <1>6 DEF NoClash

(* The tools that are left of the pipeline when its first one starts.      *)
LEMMA Ahead ==
  ASSUME pipeline \in Seq(Tools), pipeline # <<>>, NamesAhead, NEW q, q = Tail(pipeline)
  PROVE  /\ \A i, j \in 1..Len(q) : i < j => AddsNoNameOf(q[j], q[i])
         /\ \A j \in 1..Len(q) : AddsNoNameOf(q[j], Head(pipeline))
         /\ \A j \in 1..Len(q) : \E i \in 1..Len(pipeline) : q[j] = pipeline[i]
         /\ Head(pipeline) = pipeline[1] /\ 1 \in 1..Len(pipeline)
<1>1. /\ Len(pipeline) \in Nat /\ Len(pipeline) # 0
      /\ q \in Seq(Tools) /\ Len(q) = Len(pipeline) - 1
      /\ \A i \in 1..Len(q) : q[i] = pipeline[i + 1]
      /\ Head(pipeline) = pipeline[1]
  BY HeadTailProperties, LenProperties, EmptySeq
<1>2. \A i \in 1..Len(q) : i + 1 \in 1..Len(pipeline) /\ 1 < i + 1
  BY <1>1
<1>3. 1 \in 1..Len(pipeline)
  BY <1>1
<1>4. \A i, j \in 1..Len(pipeline) : i < j => AddsNoNameOf(pipeline[j], pipeline[i])
  BY DEF NamesAhead
<1>5. ASSUME NEW i \in 1..Len(q), NEW j \in 1..Len(q), i < j PROVE AddsNoNameOf(q[j], q[i])
  <2>1. i + 1 < j + 1
    BY <1>1, <1>5
  <2> QED BY <1>1, <1>2, <1>4, <2>1
<1>6. \A j \in 1..Len(q) : AddsNoNameOf(q[j], Head(pipeline))
  BY <1>1, <1>2, <1>3, <1>4
<1>7. \A j \in 1..Len(q) : \E i \in 1..Len(pipeline) : q[j] = pipeline[i]
  BY <1>1, <1>2
<1> QED BY <1>1, <1>3, <1>5, <1>6, <1>7

LEMMA InitDocument ==
  ASSUME FreshNames, Init
  PROVE  DocumentInv
<1>1. PipelineInv
  BY InitPipeline
<1>2. pipeline \in Pipelines /\ DOMAIN pipeline = 1..Len(pipeline)
  BY <1>1, LenProperties DEF Init, PipelineInv
<1>3. \A i, j \in 1..Len(pipeline) : i < j => AddsNoNameOf(pipeline[j], pipeline[i])
  BY <1>2 DEF FreshNames
<1> QED BY <1>1, <1>3 DEF Init, DocumentInv, NamesAhead, WireInv, MemInv

LEMMA CreateDocument ==
  ASSUME DocumentInv, Create
  PROVE  (NamesAhead /\ WireInv /\ MemInv)'
<1>1. pipeline \in Seq(Tools) /\ pipeline # <<>> /\ NamesAhead
  BY DEF DocumentInv, PipelineInv, Create
<1>2. PICK t \in Tools : t = Head(pipeline)
  BY <1>1, NextTool
<1>3. /\ tool' = t /\ rt' = NoDoc /\ pc' = "edit" /\ wire' = NoDoc /\ pipeline' = Tail(pipeline)
      /\ mem' = [doc |-> Fresh(t.in.doc), stores |-> [n \in Names(t.in.stores) |-> <<>>]]
  BY <1>2 DEF Create
<1>4. NamesAhead'
  BY <1>1, <1>2, <1>3, Ahead DEF NamesAhead
<1>5. MemOK(mem', t.in, EmptyRT(t.out), NoWire)
  BY <1>3, NewMemOK, ToolFacts
<1>6. MemInv'
  BY <1>3, <1>5 DEF MemInv, RTToMerge, Source
<1> QED BY <1>3, <1>4, <1>6 DEF WireInv

LEMMA ReadDocument ==
  ASSUME DocumentInv, Read
  PROVE  (NamesAhead /\ WireInv /\ MemInv)'
<1>1. /\ pipeline \in Seq(Tools) /\ pipeline # <<>> /\ NamesAhead
      /\ wire # NoDoc /\ WireShape(wire) /\ WireOK(wire)
      /\ \A j \in 1..Len(pipeline) : NoClash(pipeline[j].in, pipeline[j].out, wire)
  BY DEF DocumentInv, PipelineInv, WireInv, Read
<1>2. PICK t \in Tools : t = Head(pipeline)
  BY <1>1, NextTool
<1>3. /\ tool' = t /\ rt' = ReadRT(wire, t.in) /\ mem' = ReadMem(wire, t.in) /\ pc' = "edit"
      /\ wire' = wire /\ pipeline' = Tail(pipeline) /\ ~Rejects(wire, t.in)
  BY <1>2 DEF Read
<1>4. NamesAhead'
  BY <1>1, <1>2, <1>3, Ahead DEF NamesAhead
<1>5. NoClash(t.in, t.out, wire)
  BY <1>1, <1>2, Ahead
<1>6. MemOK(ReadMem(wire, t.in), t.in, ReadRT(wire, t.in), wire)
  BY <1>1, <1>3, ToolFacts, ReadMemOK
<1>7. ReadRT(wire, t.in) # NoDoc
  BY <1>1, <1>3, ToolFacts, ReadShape, NothingIsNoDoc
<1>8. MemInv'
  BY <1>3, <1>5, <1>6, <1>7 DEF MemInv, RTToMerge, Source
<1>9. WireInv'
  BY <1>1, <1>3, Ahead DEF WireInv
<1> QED BY <1>4, <1>8, <1>9

LEMMA ReadFailsDocument ==
  ASSUME DocumentInv, ReadFails
  PROVE  (NamesAhead /\ WireInv /\ MemInv)'
<1>1. pipeline \in Seq(Tools) /\ pipeline # <<>> /\ NamesAhead
  BY DEF DocumentInv, PipelineInv, ReadFails
<1>2. pc' = "rejected" /\ wire' = wire /\ pipeline' = Tail(pipeline)
  BY DEF ReadFails
<1>3. NamesAhead'
  BY <1>1, <1>2, Ahead DEF NamesAhead
<1>4. WireInv'
  BY <1>1, <1>2, Ahead DEF WireInv, DocumentInv
<1> QED BY <1>2, <1>3, <1>4 DEF MemInv

(* What the memory was read from is a document that can be read, and the   *)
(* runtime, if it declares a store, is of the schema that was read with.   *)
LEMMA SourceFacts ==
  ASSUME DocumentInv, pc = "edit"
  PROVE  /\ WireShape(Source) /\ WireOK(Source)
         /\ Len(Source.stores) = Len(RTToMerge.stores)
         /\ StoresDeclared(RTToMerge, tool.in)
         /\ \E S : Writes(RTToMerge, Source, S, tool.out, mem)
         /\ \A j \in 1..Len(pipeline) : NoClash(pipeline[j].in, pipeline[j].out, Source)
<1>1. EditInv /\ (wire = NoDoc \/ WireShape(wire)) /\ pipeline \in Seq(Tools)
  BY DEF DocumentInv, PipelineInv
<1>2. GoodSchema(tool.in) /\ GoodSchema(tool.out) /\ SameSchema(tool.in, tool.out)
  BY <1>1, ToolFacts DEF EditInv
<1>3. MemShape(mem, tool.out) /\ MemOK(mem, tool.out, RTToMerge, Source)
  BY <1>1, <1>2, SameMemShape, SameMemOK DEF EditInv, DocumentInv, MemInv
<1>4. CASE rt = NoDoc
  <2>1. RTToMerge = EmptyRT(tool.out) /\ Source = NoWire
    BY <1>4 DEF RTToMerge, Source
  <2>2. /\ ReadOf(EmptyRT(tool.out), NoWire, tool.out) /\ WireShape(NoWire) /\ WireOK(NoWire)
        /\ NoClash(tool.out, tool.out, NoWire)
    BY <1>2, ReadOfNothing, NoClashWithNothing
  <2>3. Len(EmptyRT(tool.out).stores) = 0 /\ Len(NoWire.stores) = 0
    BY EmptySeq DEF EmptyRT, NoWire
  <2>4. StoresDeclared(EmptyRT(tool.out), tool.in)
    BY <2>3 DEF StoresDeclared
  <2>5. Writes(EmptyRT(tool.out), NoWire, tool.out, tool.out, mem)
    BY <1>2, <1>3, <2>1, <2>2, SameAsItself DEF Writes
  <2>6. \A j \in 1..Len(pipeline) : NoClash(pipeline[j].in, pipeline[j].out, NoWire)
    BY <1>1, ElementOfSeq, ToolFacts, NoClashWithNothing
  <2> QED BY <2>1, <2>2, <2>3, <2>4, <2>5, <2>6
<1>5. CASE rt # NoDoc
  <2>1. RTToMerge = rt /\ Source = wire
    BY <1>5 DEF RTToMerge, Source
  <2>2. wire # NoDoc /\ ~Rejects(wire, tool.in) /\ rt = ReadRT(wire, tool.in)
    BY <1>1, <1>5 DEF EditInv
  <2>3. /\ WireShape(wire) /\ WireOK(wire) /\ NoClash(tool.in, tool.out, wire)
        /\ \A j \in 1..Len(pipeline) : NoClash(pipeline[j].in, pipeline[j].out, wire)
    BY <1>1, <1>5, <2>2 DEF DocumentInv, WireInv, MemInv
  <2>4. ReadOf(rt, wire, tool.in) /\ RTShape(rt, tool.in)
    BY <1>2, <2>2, <2>3, ReadOfWire, ReadShape
  <2>5. Len(wire.stores) = Len(rt.stores)
    BY <2>4 DEF ReadOf, EntriesOf
  <2>6. StoresDeclared(rt, tool.in)
    BY <1>2, <2>4, StoreKlass DEF StoresDeclared
  <2>7. Writes(rt, wire, tool.in, tool.out, mem)
    BY <1>2, <1>3, <2>1, <2>3, <2>4 DEF Writes
  <2> QED BY <2>1, <2>3, <2>5, <2>6, <2>7
<1> QED BY <1>4, <1>5

LEMMA EditDocument ==
  ASSUME DocumentInv, EditNext
  PROVE  (NamesAhead /\ WireInv /\ MemInv)'
<1>1. pc = "edit" /\ UNCHANGED <<pipeline, tool, pc, wire, rt>>
  BY DEF EditNext, SetDocField, CreateAnn, SetField, Edit
<1>2. MemShape(mem, tool.in) /\ GoodSchema(tool.in) /\ MemOK(mem, tool.in, RTToMerge, Source)
  BY <1>1, ToolFacts DEF DocumentInv, PipelineInv, EditInv, MemInv
<1>3. /\ WireShape(Source) /\ Len(Source.stores) = Len(RTToMerge.stores)
      /\ StoresDeclared(RTToMerge, tool.in)
  BY <1>1, SourceFacts
<1>4. MemOK(mem', tool.in, RTToMerge, Source)
  BY <1>2, <1>3, EditOK
<1>5. RTToMerge' = RTToMerge /\ Source' = Source
  BY <1>1 DEF RTToMerge, Source
<1>6. MemInv'
  BY <1>1, <1>4, <1>5 DEF MemInv, DocumentInv
<1>7. NamesAhead' /\ WireInv'
  BY <1>1 DEF DocumentInv, NamesAhead, WireInv
<1> QED BY <1>6, <1>7

LEMMA WriteDocument ==
  ASSUME DocumentInv, Write
  PROVE  (NamesAhead /\ WireInv /\ MemInv)'
<1>1. /\ pc = "edit" /\ pc' = "written" /\ pipeline' = pipeline
      /\ wire' = WriteDoc(merge_rt(RTToMerge, tool.out), mem)
  BY DEF Write, RTToMerge
<1>2. PICK S : Writes(RTToMerge, Source, S, tool.out, mem)
  BY <1>1, SourceFacts
<1>3. WireOK(wire') /\ NamesFrom(wire', Source, tool.out)
  BY <1>1, <1>2, WrittenOK
<1>4. pipeline \in Seq(Tools) /\ GoodSchema(tool.out)
  BY <1>1, ToolFacts DEF DocumentInv, PipelineInv, EditInv
<1>5. ASSUME NEW j \in 1..Len(pipeline)
      PROVE  NoClash(pipeline[j].in, pipeline[j].out, wire')
  <2>1. GoodSchema(pipeline[j].out)
    BY <1>4, ElementOfSeq, ToolFacts
  <2>2. AddsNoNameOf(pipeline[j], tool)
    BY <1>1 DEF DocumentInv, NamesAhead
  <2>3. NoClash(pipeline[j].in, pipeline[j].out, Source)
    BY <1>1, SourceFacts
  <2> QED BY <1>3, <1>4, <2>1, <2>2, <2>3, NoClashWritten
<1>6. NamesAhead' /\ MemInv'
  BY <1>1 DEF DocumentInv, NamesAhead, MemInv
<1> QED BY <1>1, <1>3, <1>5, <1>6 DEF WireInv

LEMMA StepDocument == DocumentInv /\ [Next]_vars => DocumentInv'
<1> SUFFICES ASSUME DocumentInv, [Next]_vars PROVE DocumentInv'
  OBVIOUS
<1>1. PipelineInv'
  BY StepPipeline DEF DocumentInv
<1>2. (NamesAhead /\ WireInv /\ MemInv)'
  <2>1. CASE Create
    BY <2>1, CreateDocument
  <2>2. CASE Read
    BY <2>2, ReadDocument
  <2>3. CASE ReadFails
    BY <2>3, ReadFailsDocument
  <2>4. CASE EditNext
    BY <2>4, EditDocument
  <2>5. CASE Write
    BY <2>5, WriteDocument
  <2>6. CASE UNCHANGED vars
    BY <2>6 DEF vars, DocumentInv, NamesAhead, WireInv, MemInv, RTToMerge, Source
  <2> QED BY <2>1, <2>2, <2>3, <2>4, <2>5, <2>6 DEF Next
<1> QED BY <1>1, <1>2 DEF DocumentInv

(* Where no tool of a pipeline adds a name that a tool before it has       *)
(* written with, what the writer puts on the stream is well formed after   *)
(* every tool: the ids refer to what exists, a store holds as many objects *)
(* as it announces, no name is there twice, and no pointer is beyond the   *)
(* annotations of its store, whatever the tools keep lazily.               *)
THEOREM WellFormed ==
  ASSUME FreshNames
  PROVE  Spec => []WireWellFormed
<1>1. Init => DocumentInv
  BY InitDocument
<1>2. DocumentInv /\ [Next]_vars => DocumentInv'
  BY StepDocument
<1>3. DocumentInv => WireWellFormed
  BY WellFormedIs DEF DocumentInv, PipelineInv, WireInv
<1> QED BY <1>1, <1>2, <1>3, PTL DEF Spec

-----------------------------------------------------------------------------
(* What is written is read again. *)

(* What is lazy after a merge has none of the names that the document does *)
(* not have unless they are declared before it.                            *)
LEMMA LazyKeepsOff ==
  ASSUME NEW e, NEW u, NEW before, EntriesOf(e, u, before),
         NEW D, NEW defs \in Seq(D), NoDef \notin D, NEW m, Extends(m, e, defs),
         NEW names, \A i \in 1..Len(e) : u[i].serial \notin names \ Serials(before),
         NEW i \in 1..Len(m), is_lazy(m[i])
  PROVE  Serial(m[i]) \notin names
<1>1. Serial(m[i]) = m[i].serial
  BY DEF Serial
<1>2. CASE i \in 1..Len(e)
  <2>1. PICK x : x = e[i]
    OBVIOUS
  <2>2. m[i].serial = u[i].serial /\ m[i].def = DefAfter(x, defs) /\ x.serial = u[i].serial
    BY <1>2, <2>1 DEF Extends, EntriesOf
  <2>3. is_lazy(x)
    <3>1. ASSUME ~is_lazy(x), x.def.name \in Names(defs) PROVE FALSE
      <4>1. DefAfter(x, defs) = Named(defs, x.def.name)
        BY <3>1 DEF DefAfter
      <4>2. Named(defs, x.def.name) \in D
        BY <3>1, NamedOf
      <4> QED BY <2>2, <4>1, <4>2 DEF is_lazy
    <3>2. ASSUME ~is_lazy(x), x.def.name \notin Names(defs) PROVE FALSE
      BY <2>2, <3>2 DEF DefAfter, is_lazy
    <3> QED BY <3>1, <3>2
  <2>4. u[i].serial \notin Serials(before)
    BY <1>2, <2>1, <2>3 DEF EntriesOf
  <2> QED BY <1>1, <1>2, <2>2, <2>4
<1>3. CASE i \notin 1..Len(e)
  <2>1. Len(m) = Len(e) + Len(NewDefs(e, defs))
    BY DEF Extends
  <2>2. PICK j \in 1..Len(NewDefs(e, defs)) : i = Len(e) + j
    BY <1>3, <2>1 DEF Extends
  <2>3. m[i].def = NewDefs(e, defs)[j]
    BY <2>2 DEF Extends
  <2>4. NewDefs(e, defs)[j] \in D
    BY NewDefsIs
  <2> QED BY <2>3, <2>4 DEF is_lazy
<1> QED BY <1>2, <1>3

LEMMA LazyNames ==
  ASSUME NEW r, NEW w, NEW S, NEW T, NEW m, Writes(r, w, S, T, m)
  PROVE  LET q == merge_rt(r, T)
         IN  /\ \A i \in 1..Len(q.stores) :
                  is_lazy(q.stores[i]) => Serial(q.stores[i]) \notin Serials(T.stores)
             /\ \A k \in 1..Len(q.klasses) :
                  is_lazy(q.klasses[k]) => Serial(q.klasses[k]) \notin Serials(KlassesOf(T))
<1> DEFINE q == merge_rt(r, T)
<1>1. /\ GoodSchema(S) /\ GoodSchema(T) /\ SameSchema(S, T) /\ ReadOf(r, w, S) /\ NoClash(S, T, w)
      /\ RTShape(r, S)
  BY DEF Writes, ReadOf
<1>2. Extends(q.stores, r.stores, T.stores) /\ Extends(q.klasses, r.klasses, T.klasses)
  BY <1>1, MergeIs DEF RTShape, KlassShape
<1>3. /\ EntriesOf(r.stores, w.stores, S.stores) /\ Len(w.stores) = Len(r.stores)
      /\ EntriesOf(r.klasses, w.klasses, KlassesOf(S)) /\ Len(w.klasses) = Len(r.klasses)
  BY <1>1 DEF ReadOf, EntriesOf
<1> HIDE DEF q
<1>4. T.stores \in Seq(StoreDefs) /\ T.klasses \in Seq(KlassDefs)
  BY <1>1, StoreFacts, KlassFacts
<1>5. ASSUME NEW i \in 1..Len(q.stores), is_lazy(q.stores[i])
      PROVE  Serial(q.stores[i]) \notin Serials(T.stores)
  <2>1. \A l \in 1..Len(r.stores) : w.stores[l].serial \notin Serials(T.stores) \ Serials(S.stores)
    BY <1>1, <1>3 DEF NoClash
  <2>2. NoDef \notin StoreDefs
    BY NothingAssumption
  <2> QED BY <1>2, <1>3, <1>4, <1>5, <2>1, <2>2, LazyKeepsOff
<1>6. ASSUME NEW k \in 1..Len(q.klasses), is_lazy(q.klasses[k])
      PROVE  Serial(q.klasses[k]) \notin Serials(KlassesOf(T))
  <2>1. Serials(KlassesOf(T)) \ Serials(KlassesOf(S)) \subseteq Serials(T.klasses) \ Serials(S.klasses)
    <3>1. Serials(KlassesOf(T)) \subseteq {"__meta__"} \cup Serials(T.klasses)
      BY <1>1, KlassesOfFacts DEF Serials, IsMeta
    <3>2. "__meta__" \in Serials(KlassesOf(S)) /\ Serials(S.klasses) \subseteq Serials(KlassesOf(S))
      <4>1. ToSet(KlassesOf(S)) = {MetaDef(S)} \cup ToSet(S.klasses) /\ MetaDef(S).serial = "__meta__"
        BY <1>1, KlassesOfFacts DEF IsMeta
      <4> QED BY <4>1 DEF Serials
    <3> QED BY <3>1, <3>2
  <2>2. \A l \in 1..Len(r.klasses) : w.klasses[l].serial \notin Serials(KlassesOf(T)) \ Serials(KlassesOf(S))
    BY <1>1, <1>3, <2>1 DEF NoClash
  <2>3. NoDef \notin KlassDefs
    BY NothingAssumption
  <2> QED BY <1>2, <1>3, <1>4, <1>6, <2>2, <2>3, LazyKeepsOff
<1> QED BY <1>5, <1>6 DEF q

LEMMA LazyFieldNames ==
  ASSUME NEW r, NEW w, NEW S, NEW T, NEW m, Writes(r, w, S, T, m),
         NEW k \in 1..Len(merge_rt(r, T).klasses), ~is_lazy(merge_rt(r, T).klasses[k])
  PROVE  LET q == merge_rt(r, T)
             fields == q.klasses[k].fields
         IN  \A i \in 1..Len(fields) :
               is_lazy(fields[i]) => Serial(fields[i]) \notin Serials(DefsOf(q, T, k))
<1> DEFINE q == merge_rt(r, T)
<1>1. /\ GoodSchema(S) /\ GoodSchema(T) /\ SameSchema(S, T) /\ ReadOf(r, w, S) /\ NoClash(S, T, w)
      /\ RTShape(r, S) /\ r.doc \in 1..Len(r.klasses)
  BY DEF Writes, ReadOf, RTShape
<1>2. q.doc = r.doc /\ Len(w.klasses) = Len(r.klasses)
  BY WriteMerged
<1>3. PICK A, fields : A = DefsOf(q, T, k) /\ fields = q.klasses[k].fields
  OBVIOUS
<1>4. NoDef \notin FieldDefs
  BY NothingAssumption
<1>5. CASE k \in 1..Len(r.klasses)
  <2>1. PICK B, e, u : B = DefsOf(r, S, k) /\ e = r.klasses[k].fields /\ u = w.klasses[k].fields
    OBVIOUS
  <2>2. EntriesOf(e, u, B) /\ Len(u) = Len(e)
    BY <1>1, <1>5, <2>1 DEF ReadOf, EntriesOf
  <2>3. ~is_lazy(r.klasses[k])
    BY <1>1, <1>5, KlassMerged
  <2>4. FieldsOf(A, T) /\ Extends(fields, e, A) /\ Serials(A) \ Serials(B) \subseteq FieldsAdded(S, T)
    BY <1>1, <1>3, <1>5, <2>1, <2>3, KlassMerged
  <2>5. \A i \in 1..Len(e) : u[i].serial \notin Serials(A) \ Serials(B)
    BY <1>1, <1>2, <1>5, <2>1, <2>2, <2>4 DEF NoClash
  <2>6. \A i \in 1..Len(fields) : is_lazy(fields[i]) => Serial(fields[i]) \notin Serials(A)
    BY <1>4, <2>2, <2>4, <2>5, LazyKeepsOff DEF FieldsOf
  <2> QED BY <1>3, <2>6
<1>6. CASE k \notin 1..Len(r.klasses)
  <2>1. Extends(q.klasses, r.klasses, T.klasses)
    BY <1>1, MergeIs DEF RTShape, KlassShape
  <2>2. PICK j \in 1..Len(NewDefs(r.klasses, T.klasses)) : k = Len(r.klasses) + j
    BY <1>6, <2>1 DEF Extends
  <2>3. PICK d : d = NewDefs(r.klasses, T.klasses)[j]
    OBVIOUS
  <2>4. FieldsOf(d.fields, T) /\ Extends(fields, <<>>, d.fields) /\ q.klasses[k].def = d
    BY <1>1, <1>3, <2>2, <2>3, NewKlassFields
  <2>5. A = d.fields
    BY <1>1, <1>2, <1>3, <1>6, <2>4 DEF DefsOf
  <2>6. EntriesOf(<<>>, <<>>, <<>>) /\ Len(<<>>) = 0
    BY EmptySeq DEF EntriesOf, Apart
  <2>7. PICK none : none = <<>> /\ EntriesOf(none, none, none) /\ Len(none) = 0
    BY <2>6
  <2>8. \A i \in 1..Len(none) : none[i].serial \notin Serials(A) \ Serials(none)
    BY <2>7
  <2>9. A \in Seq(FieldDefs) /\ Extends(fields, none, A)
    BY <2>4, <2>5, <2>7 DEF FieldsOf
  <2>10. \A i \in 1..Len(fields) : is_lazy(fields[i]) => Serial(fields[i]) \notin Serials(A)
    BY <1>4, <2>7, <2>8, <2>9, LazyKeepsOff
  <2> QED BY <1>3, <2>10
<1> QED BY <1>5, <1>6

(* What is found under the name that was written is what wrote it.         *)
LEMMA FoundAgain ==
  ASSUME NEW D, NEW defs \in Seq(D), Unambiguous(defs), NEW x, NEW y,
         ~is_lazy(x) => x.def \in ToSet(defs),
         is_lazy(x) => Serial(x) \notin Serials(defs),
         ~is_lazy(y) => y.def \in ToSet(defs) /\ y.def.serial = Serial(x),
         is_lazy(y) => Serial(x) \notin Serials(defs)
  PROVE  y.def = x.def
<1>1. ~is_lazy(x) => x.def.serial = Serial(x)
  BY DEF Serial
<1>2. is_lazy(x) <=> is_lazy(y)
  BY <1>1 DEF Serials
<1>3. ~is_lazy(x) => y.def = x.def
  BY <1>1, <1>2, OneOfAName
<1> QED BY <1>2, <1>3 DEF is_lazy

(* The fields g were read from what the fields f wrote.                    *)
FieldsBack(g, f) ==
  /\ Len(g) = Len(f)
  /\ \A i \in 1..Len(f) : g[i].def = f[i].def /\ g[i].to = f[i].to /\ g[i].kind = f[i].kind

(* The runtime b was read from what the runtime q wrote, with the schema T *)
(* that q was merged with: both declare the same.                          *)
ReadBack(b, q, T) ==
  /\ b.doc = q.doc /\ Len(b.klasses) = Len(q.klasses) /\ Len(b.stores) = Len(q.stores)
  /\ \A i \in 1..Len(q.stores) :
       b.stores[i].def = q.stores[i].def /\ b.stores[i].klass = q.stores[i].klass
  /\ \A k \in 1..Len(q.klasses) :
       /\ b.klasses[k].def = IF k = q.doc THEN MetaDef(T) ELSE q.klasses[k].def
       /\ FieldsBack(b.klasses[k].fields, q.klasses[k].fields)

(* The fields of one klass, whose declaration is def.                      *)
LEMMA KlassFieldsBack ==
  ASSUME NEW fields \in Seq(RTFields), NEW def, NEW D,
         def = NoDef => \A i \in 1..Len(fields) : is_lazy(fields[i]),
         def # NoDef =>
           /\ D = def.fields /\ D \in Seq(FieldDefs) /\ Unambiguous(D)
           /\ \A i \in 1..Len(fields) :
                /\ ~is_lazy(fields[i]) => fields[i].def \in ToSet(D)
                /\ is_lazy(fields[i]) => Serial(fields[i]) \notin Serials(D),
         NEW g, Len(g) = Len(fields),
         \A i \in 1..Len(fields) : g[i] = ReadField(WriteFields(fields)[i], def)
  PROVE  FieldsBack(g, fields)
<1>1. ASSUME NEW i \in 1..Len(fields)
      PROVE  g[i].def = fields[i].def /\ g[i].to = fields[i].to /\ g[i].kind = fields[i].kind
  <2>1. PICK f, x, h : f = fields[i] /\ x = WriteFields(fields)[i] /\ h = g[i]
    OBVIOUS
  <2>2. x.serial = Serial(f) /\ x.to = f.to /\ x.kind = f.kind /\ x \in WireFields
    <3>1. WriteFields(fields) \in Seq(WireFields) /\ Len(WriteFields(fields)) = Len(fields)
      BY WriteFieldsIs
    <3>2. x \in WireFields
      BY <2>1, <3>1, ElementOfSeq
    <3> QED BY <2>1, <3>2, WriteFieldsIs
  <2>3. h = ReadField(x, def) /\ (def = NoDef \/ def.fields \in Seq(FieldDefs))
    BY <2>1
  <2>4. /\ h.to = x.to /\ h.kind = x.kind
        /\ ~is_lazy(h) => def # NoDef /\ h.def \in ToSet(def.fields) /\ h.def.serial = x.serial
        /\ is_lazy(h) => def = NoDef \/ x.serial \notin Serials(def.fields)
    BY <2>2, <2>3, ReadFieldIs
  <2>5. CASE def = NoDef
    BY <2>1, <2>2, <2>4, <2>5 DEF is_lazy
  <2>6. CASE def # NoDef
    <3>1. h.def = f.def
      BY <2>1, <2>2, <2>4, <2>6, FoundAgain
    <3> QED BY <2>1, <2>2, <2>4, <3>1
  <2> QED BY <2>5, <2>6
<1> QED BY <1>1 DEF FieldsBack

LEMMA ReadsBackRT ==
  ASSUME NEW r, NEW w, NEW S, NEW T, NEW m, Writes(r, w, S, T, m)
  PROVE  LET q == merge_rt(r, T)
             b == ReadRT(WriteDoc(q, m), T)
         IN  ReadBack(b, q, T) /\ b.docLazy = (IF T.doc = <<>> THEN WriteDoc(q, m).doc ELSE NoDoc)
<1> DEFINE q == merge_rt(r, T)
           v == WriteDoc(q, m)
           b == ReadRT(v, T)
<1>1. GoodSchema(T)
  BY DEF Writes
<1>2. /\ RTShape(q, T) /\ WireShape(v) /\ Len(q.klasses) \in Nat
      /\ Len(v.klasses) = Len(q.klasses) /\ Len(v.stores) = Len(q.stores)
      /\ \A k \in 1..Len(q.klasses) :
           /\ v.klasses[k].serial = Serial(q.klasses[k])
           /\ v.klasses[k].fields = WriteFields(q.klasses[k].fields)
      /\ \A i \in 1..Len(q.stores) :
           v.stores[i].serial = Serial(q.stores[i]) /\ v.stores[i].klass = q.stores[i].klass
  BY WriteMerged
<1>3. Apart(v.klasses) /\ (\E k \in 1..Len(v.klasses) : v.klasses[k].serial = "__meta__")
  BY WrittenOK DEF WireOK
<1>4. /\ \A i \in 1..Len(q.stores) :
           is_lazy(q.stores[i]) => Serial(q.stores[i]) \notin Serials(T.stores)
      /\ \A k \in 1..Len(q.klasses) :
           is_lazy(q.klasses[k]) => Serial(q.klasses[k]) \notin Serials(KlassesOf(T))
  BY LazyNames
<1>5. \A k \in 1..Len(q.klasses) : ~is_lazy(q.klasses[k]) =>
        \A i \in 1..Len(q.klasses[k].fields) : is_lazy(q.klasses[k].fields[i]) =>
          Serial(q.klasses[k].fields[i]) \notin Serials(DefsOf(q, T, k))
  BY LazyFieldNames
<1> HIDE DEF q, v
<1>6. DOMAIN v.klasses = 1..Len(v.klasses)
  BY <1>2, WireFacts
<1>7. /\ Len(b.klasses) = Len(v.klasses) /\ Len(b.stores) = Len(v.stores)
      /\ \A k \in 1..Len(v.klasses) : b.klasses[k] = ReadKlass(v.klasses[k], T)
      /\ \A i \in 1..Len(v.stores) : b.stores[i] = ReadStore(v, i, T)
      /\ b.doc \in 1..Len(v.klasses) /\ v.klasses[b.doc].serial = "__meta__"
      /\ b.docLazy = IF T.doc = <<>> THEN v.doc ELSE NoDoc
  BY <1>1, <1>2, <1>3, <1>6, ReadRTIs
<1> HIDE DEF b
<1>8. /\ q.doc \in 1..Len(q.klasses) /\ ~is_lazy(q.klasses[q.doc]) /\ IsMeta(q.klasses[q.doc].def)
      /\ \A k \in 1..Len(q.klasses) : KlassShape(q, T, k)
      /\ \A i \in 1..Len(q.stores) : StoreShape(q, T, i)
  BY <1>2 DEF RTShape, KlassShape
<1>9. b.doc = q.doc
  <2>1. v.klasses[q.doc].serial = "__meta__"
    BY <1>2, <1>8 DEF Serial, IsMeta
  <2> QED BY <1>2, <1>3, <1>7, <1>8, <2>1 DEF Apart
<1>10. ASSUME NEW i \in 1..Len(q.stores)
       PROVE  b.stores[i].def = q.stores[i].def /\ b.stores[i].klass = q.stores[i].klass
  <2>1. PICK x, y : x = q.stores[i] /\ y = b.stores[i]
    OBVIOUS
  <2>2. /\ v \in Wires /\ Len(v.groups) = Len(v.stores) /\ i \in 1..Len(v.stores)
        /\ y = ReadStore(v, i, T)
    BY <1>2, <1>7, <2>1 DEF WireShape
  <2>3. /\ y.klass = x.klass
        /\ ~is_lazy(y) => y.def \in ToSet(T.stores) /\ y.def.serial = Serial(x)
        /\ is_lazy(y) => Serial(x) \notin Serials(T.stores)
    BY <1>1, <1>2, <2>1, <2>2, ReadStoreIs
  <2>4. T.stores \in Seq(StoreDefs) /\ Unambiguous(T.stores)
    BY <1>1, StoreFacts
  <2>5. /\ ~is_lazy(x) => x.def \in ToSet(T.stores)
        /\ is_lazy(x) => Serial(x) \notin Serials(T.stores)
    BY <1>4, <1>8, <2>1 DEF StoreShape
  <2>6. y.def = x.def
    BY <2>3, <2>4, <2>5, FoundAgain
  <2> QED BY <2>1, <2>3, <2>6
<1>11. KlassesOf(T) \in Seq(KlassDefs) /\ Unambiguous(KlassesOf(T))
       /\ ToSet(KlassesOf(T)) = {MetaDef(T)} \cup ToSet(T.klasses) /\ IsMeta(MetaDef(T))
  BY <1>1, KlassesOfFacts
<1>12. ASSUME NEW k \in 1..Len(q.klasses)
       PROVE  b.klasses[k].def = IF k = q.doc THEN MetaDef(T) ELSE q.klasses[k].def
  <2>1. PICK x, y : x = q.klasses[k] /\ y = b.klasses[k]
    OBVIOUS
  <2>2. v.klasses[k] \in WireKlasses /\ y = ReadKlass(v.klasses[k], T)
    BY <1>2, <1>7, <2>1, WireFacts
  <2>3. /\ ~is_lazy(y) => y.def \in ToSet(KlassesOf(T)) /\ y.def.serial = Serial(x)
        /\ is_lazy(y) => Serial(x) \notin Serials(KlassesOf(T))
    BY <1>1, <1>2, <2>1, <2>2, ReadKlassIs
  <2>4. CASE k = q.doc
    <3>1. Serial(x) = "__meta__" /\ MetaDef(T).serial = "__meta__" /\ MetaDef(T) \in ToSet(KlassesOf(T))
      BY <1>8, <1>11, <2>1, <2>4 DEF Serial, IsMeta
    <3>2. ~is_lazy(y)
      BY <2>3, <3>1 DEF Serials
    <3> QED BY <1>11, <2>1, <2>3, <2>4, <3>1, <3>2, OneOfAName
  <2>5. CASE k # q.doc
    <3>1. ASSUME ~is_lazy(x) PROVE x.def \in ToSet(KlassesOf(T))
      <4>1. x.def \in ToSet(T.klasses) \/ IsMeta(x.def)
        BY <1>8, <2>1, <3>1 DEF KlassShape
      <4>2. ~IsMeta(x.def)
        <5>1. v.klasses[k].serial # v.klasses[q.doc].serial
          BY <1>2, <1>3, <1>8, <2>5 DEF Apart
        <5>2. v.klasses[q.doc].serial = "__meta__"
          BY <1>7, <1>9
        <5> QED BY <1>2, <2>1, <3>1, <5>1, <5>2 DEF Serial, IsMeta
      <4> QED BY <1>11, <4>1, <4>2
    <3>2. is_lazy(x) => Serial(x) \notin Serials(KlassesOf(T))
      BY <1>4, <2>1
    <3>3. y.def = x.def
      BY <1>11, <2>3, <3>1, <3>2, FoundAgain
    <3> QED BY <2>1, <2>5, <3>3
  <2> QED BY <2>4, <2>5
<1>13. ASSUME NEW k \in 1..Len(q.klasses)
       PROVE  FieldsBack(b.klasses[k].fields, q.klasses[k].fields)
  <2>1. PICK fields, D, def : fields = q.klasses[k].fields /\ D = DefsOf(q, T, k) /\ def = b.klasses[k].def
    OBVIOUS
  <2>2. FieldsShape(q, fields, D)
    BY <1>8, <2>1 DEF KlassShape
  <2>3. fields \in Seq(RTFields) /\ Len(fields) \in Nat
    BY <2>2, LenProperties DEF FieldsShape
  <2>4. def = NoDef => is_lazy(q.klasses[k]) /\ k # q.doc
    <3>1. MetaDef(T) # NoDef
      BY <1>1, DocFacts, NothingAssumption
    <3>2. CASE k = q.doc
      BY <1>12, <2>1, <3>1, <3>2
    <3>3. CASE k # q.doc
      BY <1>12, <2>1, <3>3 DEF is_lazy
    <3> QED BY <3>2, <3>3
  <2>5. ASSUME def = NoDef PROVE \A i \in 1..Len(fields) : is_lazy(fields[i])
    <3>1. ToSet(D) = {}
      BY <2>1, <2>4, <2>5, EmptySeq DEF DefsOf, ToSet
    <3> QED BY <2>2, <3>1 DEF FieldsShape
  <2>6. PICK g, u : g = b.klasses[k].fields /\ u = WriteFields(fields)
    OBVIOUS
  <2>7. Len(u) = Len(fields) /\ v.klasses[k].fields = u
    BY <1>2, <2>1, <2>3, <2>6, WriteFieldsIs
  <2>8. /\ Len(g) = Len(fields) /\ (\A i \in 1..Len(fields) : g[i] = ReadField(u[i], def))
        /\ def # NoDef => def \in ToSet(KlassesOf(T))
    <3>1. PICK y : y = b.klasses[k]
      OBVIOUS
    <3>2. v.klasses[k] \in WireKlasses /\ y = ReadKlass(v.klasses[k], T)
      BY <1>2, <1>7, <3>1, WireFacts
    <3>3. /\ Len(y.fields) = Len(v.klasses[k].fields)
          /\ \A i \in 1..Len(v.klasses[k].fields) : y.fields[i] = ReadField(v.klasses[k].fields[i], y.def)
          /\ ~is_lazy(y) => y.def \in ToSet(KlassesOf(T))
      BY <1>1, <3>2, ReadKlassIs
    <3> QED BY <2>1, <2>6, <2>7, <3>1, <3>3 DEF is_lazy
  <2>9. ASSUME def # NoDef
        PROVE  /\ D = def.fields /\ D \in Seq(FieldDefs) /\ Unambiguous(D)
               /\ \A i \in 1..Len(fields) :
                    /\ ~is_lazy(fields[i]) => fields[i].def \in ToSet(D)
                    /\ is_lazy(fields[i]) => Serial(fields[i]) \notin Serials(D)
    <3>1. ~is_lazy(q.klasses[k])
      BY <1>8, <1>12, <2>1, <2>9 DEF is_lazy
    <3>2. D = def.fields
      BY <1>12, <2>1, <3>1 DEF DefsOf, MetaDef
    <3>3. D \in Seq(FieldDefs) /\ Unambiguous(D)
      <4>1. CASE k = q.doc
        BY <1>1, <2>1, <4>1, DocFacts DEF DefsOf
      <4>2. CASE k # q.doc
        <5>1. def \in ToSet(T.klasses) \/ def = MetaDef(T)
          BY <1>11, <2>9, <2>8 DEF is_lazy
        <5> QED BY <1>1, <3>2, <5>1, DocFacts, KlassFacts DEF MetaDef
      <4> QED BY <4>1, <4>2
    <3>4. \A i \in 1..Len(fields) : ~is_lazy(fields[i]) => fields[i].def \in ToSet(D)
      BY <2>2 DEF FieldsShape
    <3>5. \A i \in 1..Len(fields) : is_lazy(fields[i]) => Serial(fields[i]) \notin Serials(D)
      BY <1>5, <2>1, <3>1
    <3> QED BY <3>2, <3>3, <3>4, <3>5
  <2>10. FieldsBack(g, fields)
    BY <2>3, <2>5, <2>9, <2>6, <2>7, <2>8, KlassFieldsBack
  <2> QED BY <2>1, <2>6, <2>10
<1>14. ReadBack(b, q, T)
  BY <1>2, <1>7, <1>9, <1>10, <1>12, <1>13 DEF ReadBack
<1> QED BY <1>7, <1>14 DEF b, v, q

(* No check of the reader fails on what such a runtime has written.        *)
LEMMA NotRejected ==
  ASSUME NEW r, NEW w, NEW S, NEW T, NEW m, Writes(r, w, S, T, m)
  PROVE  ~Rejects(WriteDoc(merge_rt(r, T), m), T)
<1> DEFINE q == merge_rt(r, T)
           v == WriteDoc(q, m)
           b == ReadRT(v, T)
<1>1. GoodSchema(T) /\ ReadBack(b, q, T)
  BY ReadsBackRT DEF Writes
<1>2. RTShape(q, T) /\ WireShape(v)
  BY WriteMerged
<1>3. \E k \in 1..Len(v.klasses) : v.klasses[k].serial = "__meta__"
  BY WrittenOK DEF WireOK
<1> HIDE DEF q, v
<1>4. b \in RTs /\ DOMAIN v.klasses = 1..Len(v.klasses)
  BY <1>1, <1>2, <1>3, WireFacts, ReadRTIs
<1>5. /\ DOMAIN b.klasses = 1..Len(b.klasses) /\ DOMAIN b.stores = 1..Len(b.stores)
      /\ \A k \in 1..Len(b.klasses) : DOMAIN b.klasses[k].fields = 1..Len(b.klasses[k].fields)
  BY <1>4, RTFacts
<1> HIDE DEF b
<1>6. ASSUME NEW k \in 1..Len(b.klasses), NEW i \in 1..Len(b.klasses[k].fields),
             BadField(b, b.klasses[k].fields[i])
      PROVE  FALSE
  <2>1. PICK f, g : f = b.klasses[k].fields[i] /\ g = q.klasses[k].fields[i]
    OBVIOUS
  <2>2. f.def = g.def /\ f.to = g.to /\ f.kind = g.kind /\ k \in 1..Len(q.klasses)
        /\ i \in 1..Len(q.klasses[k].fields)
    BY <1>1, <2>1 DEF ReadBack, FieldsBack
  <2>3. FieldShape(q, g) /\ g \in RTFields
    <3>1. FieldsShape(q, q.klasses[k].fields, DefsOf(q, T, k))
      BY <1>2, <2>2 DEF RTShape, KlassShape
    <3> QED BY <2>1, <2>2, <3>1, ElementOfSeq DEF FieldsShape
  <2>4. Len(b.stores) = Len(q.stores) /\ Len(q.stores) \in Nat
    BY <1>1, <1>2, RTFacts DEF ReadBack, RTShape
  <2>5. f.to \in Nat /\ f.to <= Len(b.stores)
    BY <2>2, <2>3, <2>4 DEF FieldShape, RTFields
  <2>6. ASSUME ~is_lazy(f), f.to # 0
        PROVE  ~is_lazy(b.stores[f.to]) /\ b.stores[f.to].def.name = f.def.to
    <3>1. f.to \in 1..Len(q.stores)
      BY <2>4, <2>5, <2>6
    <3>2. b.stores[f.to].def = q.stores[f.to].def
      BY <1>1, <3>1 DEF ReadBack
    <3> QED BY <2>2, <2>3, <2>6, <3>2 DEF FieldShape, is_lazy
  <2>7. ~is_lazy(f) => (f.to # 0 <=> f.def.to # NoStore) /\ f.kind = f.def.kind
    BY <2>2, <2>3 DEF FieldShape, is_lazy
  <2>8. BadField(b, f)
    BY <1>6, <2>1
  <2> QED BY <2>4, <2>5, <2>6, <2>7, <2>8 DEF BadField
<1>7. ASSUME NEW i \in 1..Len(b.stores), BadStore(b, b.stores[i]) PROVE FALSE
  <2>1. PICK s, t : s = b.stores[i] /\ t = q.stores[i]
    OBVIOUS
  <2>2. s.def = t.def /\ s.klass = t.klass /\ i \in 1..Len(q.stores)
    BY <1>1, <2>1 DEF ReadBack
  <2>3. t.klass \in Nat /\ t.klass < Len(q.klasses) /\ Len(q.klasses) \in Nat
        /\ Len(b.klasses) = Len(q.klasses)
    BY <1>1, <1>2, <2>1, <2>2, RTFacts DEF RTShape, StoreShape, ReadBack
  <2>4. ASSUME ~is_lazy(s)
        PROVE  ~is_lazy(b.klasses[s.klass + 1]) /\ b.klasses[s.klass + 1].def.name = s.def.klass
    <3>1. ~is_lazy(t)
      BY <2>2, <2>4 DEF is_lazy
    <3>2. PICK k : k = t.klass + 1
      OBVIOUS
    <3>3. k \in 1..Len(q.klasses) /\ k # q.doc
      BY <1>1, <1>2, <2>1, <2>2, <3>1, <3>2, StoreKlass
    <3>4. b.klasses[k].def = q.klasses[k].def
      BY <1>1, <3>3 DEF ReadBack
    <3>5. ~is_lazy(q.klasses[k]) /\ q.klasses[k].def.name = t.def.klass
      BY <1>2, <2>1, <2>2, <3>1, <3>2 DEF RTShape, StoreShape
    <3> QED BY <2>2, <3>2, <3>4, <3>5 DEF is_lazy
  <2> QED BY <1>7, <2>1, <2>2, <2>3, <2>4 DEF BadStore
<1>8. \A k \in ToSet(b.klasses) : \A f \in ToSet(k.fields) : ~BadField(b, f)
  BY <1>5, <1>6 DEF ToSet
<1>9. \A s \in ToSet(b.stores) : ~BadStore(b, s)
  BY <1>5, <1>7 DEF ToSet
<1>10. ~Rejects(v, T)
  BY <1>3, <1>4, <1>8, <1>9 DEF Rejects, b
<1> QED BY <1>10 DEF v, q

(* What is read of an object that was written: the values of the fields    *)
(* that were written from memory.                                          *)
LEMMA ObjectBack ==
  ASSUME NEW A, NEW T, FieldsOf(A, T), NEW q, NEW fields, FieldsShape(q, fields, A),
         \A n \in Names(A) : Known(fields, n),
         NEW g, FieldsBack(g, fields),
         NEW m, NEW o \in ObjectsOf(A), ObjectOK(m, o, A),
         \A i \in 1..Len(o.lazy) : ~Written(fields[o.lazy[i][1] + 1])
                                  /\ o.lazy[i][1] + 1 \in 1..Len(fields),
         NEW d \in ToSet(A), d.mode = "READ_WRITE"
  PROVE  ReadObject(WriteObject(o, fields), g, A).val[d.name] = o.val[d.name]
<1> DEFINE x == WriteObject(o, fields)
           ids == Sent(o, fields)
           l == Len(o.lazy)
           value == ReadObject(x, g, A).val[d.name]
           n == d.name
<1>1. A \in Seq(FieldDefs) /\ Unambiguous(A) /\ fields \in Seq(RTFields) /\ Len(fields) \in Nat
      /\ DOMAIN fields = 1..Len(fields)
  BY LenProperties DEF FieldsOf, FieldsShape
<1>2. n \in Names(A) /\ Named(A, n) = d
  BY <1>1, NamedIs
<1>3. /\ x \in Items /\ l \in Nat /\ Len(ids) \in Nat /\ Len(x) = l + Len(ids)
      /\ \A i \in 1..l : x[i] = o.lazy[i]
      /\ \A j \in 1..Len(ids) : x[l + j] = <<ids[j] - 1, o.val[fields[ids[j]].def.name]>>
      /\ \A i \in 1..(l + Len(ids)) : i \in 1..l \/ \E j \in 1..Len(ids) : i = l + j
  <2>1. A \in Seq(FieldDefs) /\ o \in ObjectsOf(A) /\ FieldsShape(q, fields, A)
    BY <1>1
  <2> QED BY ONLY <2>1, WriteObjectIs
<1>4. /\ \A j \in 1..Len(ids) : ids[j] \in 1..Len(fields)
      /\ \A i \in 1..Len(fields) :
           Written(fields[i]) /\ o.val[fields[i].def.name] # Unset => \E j \in 1..Len(ids) : ids[j] = i
  <2>1. fields \in Seq(RTFields)
    BY <1>1
  <2>2. \A j \in 1..Len(ids) : ids[j] \in 1..Len(fields)
    BY ONLY <2>1, SentIs
  <2>3. \A i \in 1..Len(fields) :
          Written(fields[i]) /\ o.val[fields[i].def.name] # Unset => \E j \in 1..Len(ids) : ids[j] = i
    BY ONLY <2>1, SentIs
  <2> QED BY <2>2, <2>3
<1>5. \/ \E i \in 1..Len(x) : Carries(x[i], g, n) /\ value = x[i][2]
      \/ (\A i \in 1..Len(x) : ~Carries(x[i], g, n)) /\ value = d.init
  <2>1. PICK items, p, name : items = x /\ p = ReadObject(items, g, A) /\ name = n
    OBVIOUS
  <2>2. items \in Items /\ A \in Seq(FieldDefs) /\ name \in Names(A)
    BY <1>1, <1>2, <1>3, <2>1
  <2>3. \/ \E i \in 1..Len(items) : Carries(items[i], g, name) /\ p.val[name] = items[i][2]
        \/ (\A i \in 1..Len(items) : ~Carries(items[i], g, name)) /\ p.val[name] = Named(A, name).init
    BY ONLY <2>1, <2>2, ReadObjectIs
  <2> QED BY <1>2, <2>1, <2>3
<1> HIDE DEF x, ids, l, value, n
(* The field of an item that was written from memory.                      *)
<1>6. ASSUME NEW j \in 1..Len(ids)
      PROVE  \E i \in 1..Len(fields) :
               /\ i = ids[j] /\ x[l + j][2] = o.val[fields[i].def.name]
               /\ g[x[l + j][1] + 1].def = fields[i].def
  <2>1. PICK i \in 1..Len(fields) : i = ids[j]
    BY <1>4
  <2>2. x[l + j] = <<i - 1, o.val[fields[i].def.name]>>
    BY <1>3, <2>1
  <2>3. x[l + j][1] + 1 = i
    BY <1>1, <2>2
  <2> QED BY <2>1, <2>2, <2>3 DEF FieldsBack
<1>7. CASE \E i \in 1..Len(x) : Carries(x[i], g, n) /\ value = x[i][2]
  <2>1. PICK i \in 1..Len(x) : Carries(x[i], g, n) /\ value = x[i][2]
    BY <1>7
  <2>2. i \notin 1..l
    <3>1. SUFFICES ASSUME i \in 1..l PROVE FALSE
      OBVIOUS
    <3>2. PICK id : id = x[i][1] + 1
      OBVIOUS
    <3>3. ~Written(fields[id]) /\ id \in 1..Len(fields)
      BY <1>3, <3>1, <3>2 DEF l
    <3>4. g[id].def = fields[id].def
      BY <3>3 DEF FieldsBack
    <3>5. ~is_lazy(fields[id]) /\ fields[id].def.name = n
      BY <2>1, <3>2, <3>4 DEF Carries, is_lazy
    <3>6. fields[id].def \in ToSet(A)
      BY <3>3, <3>5 DEF FieldsShape
    <3>7. fields[id].def = d
      BY <1>1, <3>5, <3>6, OneOfAName DEF n
    <3> QED BY <3>3, <3>5, <3>7 DEF Written
  <2>3. PICK j \in 1..Len(ids) : i = l + j
    BY <1>3, <2>2
  <2>4. PICK c \in 1..Len(fields) : x[i][2] = o.val[fields[c].def.name] /\ g[x[i][1] + 1].def = fields[c].def
    BY <1>6, <2>3
  <2>5. fields[c].def.name = n
    BY <2>1, <2>4 DEF Carries
  <2> QED BY <2>1, <2>4, <2>5 DEF value, n, x
<1>8. CASE (\A i \in 1..Len(x) : ~Carries(x[i], g, n)) /\ value = d.init
  <2>1. o.val[n] = Unset
    <3>1. SUFFICES ASSUME o.val[n] # Unset PROVE FALSE
      OBVIOUS
    <3>2. PICK c \in 1..Len(fields) : ~is_lazy(fields[c]) /\ fields[c].def.name = n
      BY <1>1, <1>2 DEF Known
    <3>3. fields[c].def = d
      <4>1. fields[c].def \in ToSet(A)
        BY <3>2 DEF FieldsShape
      <4> QED BY <1>1, <3>2, <4>1, OneOfAName DEF n
    <3>4. Written(fields[c]) /\ o.val[fields[c].def.name] # Unset
      BY <3>1, <3>2, <3>3 DEF Written
    <3>5. PICK j \in 1..Len(ids) : ids[j] = c
      BY <1>4, <3>4
    <3>6. g[x[l + j][1] + 1].def = fields[c].def
      BY <1>6, <3>5
    <3>7. Carries(x[l + j], g, n)
      BY <3>2, <3>6 DEF Carries, is_lazy
    <3>8. l + j \in 1..Len(x)
      BY <1>3
    <3> QED BY <1>8, <3>7, <3>8
  <2>2. d.init = Unset
    BY <1>2, <2>1 DEF ObjectOK, ValueOK, n
  <2> QED BY <1>8, <2>1, <2>2 DEF value, n, x
<1> QED BY <1>5, <1>7, <1>8

(* What was kept of an object is not written from memory.                  *)
LEMMA KeptNotWritten ==
  ASSUME NEW r, NEW w, NEW S, NEW T, NEW m, Writes(r, w, S, T, m),
         NEW k \in 1..Len(merge_rt(r, T).klasses), ~is_lazy(merge_rt(r, T).klasses[k]),
         NEW items \in Items,
         KeptOK(w, items, IF k \in 1..Len(r.klasses) THEN r.klasses[k].fields ELSE <<>>)
  PROVE  LET fields == merge_rt(r, T).klasses[k].fields
         IN  \A i \in 1..Len(items) :
               ~Written(fields[items[i][1] + 1]) /\ items[i][1] + 1 \in 1..Len(fields)
<1>1. /\ GoodSchema(S) /\ GoodSchema(T) /\ SameSchema(S, T) /\ ReadOf(r, w, S)
  BY DEF Writes
<1>2. PICK A, fields : A = DefsOf(merge_rt(r, T), T, k) /\ fields = merge_rt(r, T).klasses[k].fields
  OBVIOUS
<1>3. PICK U, B, e :
        /\ FieldsOf(B, U) /\ FieldsOf(A, T) /\ SameButSerials(B, A)
        /\ FieldsShape(r, e, B) /\ Extends(fields, e, A) /\ Begins(e, fields)
        /\ IF k \in 1..Len(r.klasses) THEN e = r.klasses[k].fields ELSE e = <<>>
  BY <1>1, <1>2, MergedFrom
<1>4. \A i \in 1..Len(items) :
        items[i][1] + 1 \in 1..Len(fields) /\ ~Written(fields[items[i][1] + 1])
  BY <1>3, KeptStays DEF FieldsOf
<1> QED BY <1>2, <1>4

(* The READ_WRITE fields of two objects have the same values.              *)
SameWritten(o, p, defs) ==
  \A d \in ToSet(defs) : d.mode = "READ_WRITE" => o.val[d.name] = p.val[d.name]

(* An object of a klass of the runtime that wrote it, read again.              *)
LEMMA KlassObjectBack ==
  ASSUME NEW r, NEW w, NEW S, NEW T, NEW m, Writes(r, w, S, T, m),
         NEW q, q = merge_rt(r, T), NEW k \in 1..Len(q.klasses), IsDeclared(q, T, k),
         NEW A, A = DefsOf(q, T, k),
         NEW o \in ObjectsOf(A), ObjectOK(m, o, A),
         KeptOK(w, o.lazy, IF k \in 1..Len(r.klasses) THEN r.klasses[k].fields ELSE <<>>),
         NEW g, FieldsBack(g, q.klasses[k].fields)
  PROVE  SameWritten(ReadObject(WriteObject(o, q.klasses[k].fields), g, A), o, A)
<1>1. /\ GoodSchema(S) /\ GoodSchema(T) /\ SameSchema(S, T) /\ ReadOf(r, w, S) /\ RTShape(r, S)
  BY DEF Writes, ReadOf
<1>2. PICK fields : fields = q.klasses[k].fields
  OBVIOUS
<1>3. RTShape(q, T) /\ AllKnown(q, T)
  BY <1>1, <1>2, MergeShape
<1>4. ~is_lazy(q.klasses[k])
  BY <1>2, <1>3 DEF IsDeclared, RTShape, KlassShape
<1>5. o.lazy \in Items
  BY DEF ObjectsOf
<1>6. \A i \in 1..Len(o.lazy) :
        ~Written(fields[o.lazy[i][1] + 1]) /\ o.lazy[i][1] + 1 \in 1..Len(fields)
  BY <1>2, <1>4, <1>5, KeptNotWritten
<1>7. FieldsOf(A, T)
  <2>1. \E U, B, e :
          /\ FieldsOf(B, U) /\ FieldsOf(A, T) /\ SameButSerials(B, A)
          /\ FieldsShape(r, e, B) /\ FieldsShape(q, fields, A)
          /\ Extends(fields, e, A) /\ Begins(e, fields)
          /\ IF k \in 1..Len(r.klasses) THEN e = r.klasses[k].fields ELSE e = <<>>
    BY <1>1, <1>2, <1>4, MergedFrom
  <2> QED BY <2>1
<1>8. FieldsShape(q, fields, A)
  BY <1>2, <1>3 DEF RTShape, KlassShape
<1>9. \A n \in Names(A) : Known(fields, n)
  BY <1>2, <1>3 DEF AllKnown
<1>10. FieldsBack(g, fields)
  BY <1>2
<1>11. ASSUME NEW d \in ToSet(A), d.mode = "READ_WRITE"
       PROVE  ReadObject(WriteObject(o, fields), g, A).val[d.name] = o.val[d.name]
  BY ONLY <1>6, <1>7, <1>8, <1>9, <1>10, <1>11, o \in ObjectsOf(A), ObjectOK(m, o, A), ObjectBack
<1> QED BY <1>2, <1>11 DEF SameWritten

(* The fields of the document, read again.                                 *)
LEMMA DocBack ==
  ASSUME NEW r, NEW w, NEW S, NEW T, NEW m, Writes(r, w, S, T, m),
         T.doc # <<>> => r.docLazy = NoDoc
  PROVE  SameWritten(ReadMem(WriteDoc(merge_rt(r, T), m), T).doc, m.doc, T.doc)
<1>1. GoodSchema(T) /\ MemShape(m, T) /\ MemOK(m, T, r, w)
  BY DEF Writes
<1>2. T.doc = <<>> => ToSet(T.doc) = {}
  BY EmptySeq DEF ToSet
<1> SUFFICES ASSUME T.doc # <<>>
             PROVE  SameWritten(ReadMem(WriteDoc(merge_rt(r, T), m), T).doc, m.doc, T.doc)
  BY <1>2 DEF SameWritten
<1>3. PICK q, v, b : q = merge_rt(r, T) /\ v = WriteDoc(q, m) /\ b = ReadRT(v, T)
  OBVIOUS
<1>4. WireShape(v) /\ v.doc = DocInstance(q, m) /\ q.doc = r.doc /\ q.docLazy = r.docLazy
      /\ RTShape(q, T) /\ RTShape(r, S)
  BY <1>3, WriteMerged
<1>5. ~Rejects(v, T)
  BY <1>3, NotRejected
<1>6. ReadMem(v, T).doc = ReadObject(v.doc, b.klasses[b.doc].fields, T.doc)
  BY <1>1, <1>3, <1>4, <1>5, ReadMemIs
<1>7. v.doc = WriteObject(m.doc, q.klasses[q.doc].fields)
  BY <1>4 DEF DocInstance
<1>8. ReadBack(b, q, T)
  BY <1>3, ReadsBackRT
<1>9. /\ q.doc \in 1..Len(q.klasses) /\ r.doc \in 1..Len(r.klasses)
      /\ IsDeclared(q, T, q.doc) /\ DefsOf(q, T, q.doc) = T.doc
  BY <1>4 DEF RTShape, IsDeclared, DefsOf
<1>10. b.doc = q.doc /\ FieldsBack(b.klasses[q.doc].fields, q.klasses[q.doc].fields)
  BY <1>8, <1>9 DEF ReadBack
<1>11. m.doc \in ObjectsOf(T.doc) /\ ObjectOK(m, m.doc, T.doc)
       /\ KeptOK(w, m.doc.lazy, r.klasses[q.doc].fields)
  BY <1>1, <1>4 DEF MemShape, MemOK
<1>12. PICK k, A, o, g : k = q.doc /\ A = T.doc /\ o = m.doc /\ g = b.klasses[q.doc].fields
  OBVIOUS
<1>13. k \in 1..Len(q.klasses) /\ IsDeclared(q, T, k) /\ A = DefsOf(q, T, k)
  BY <1>9, <1>12
<1>14. KeptOK(w, o.lazy, IF k \in 1..Len(r.klasses) THEN r.klasses[k].fields ELSE <<>>)
  BY <1>4, <1>9, <1>11, <1>12
<1>15. FieldsBack(g, q.klasses[k].fields)
  BY <1>10, <1>12
<1>16. o \in ObjectsOf(A) /\ ObjectOK(m, o, A)
  BY <1>11, <1>12
<1>17. SameWritten(ReadObject(WriteObject(o, q.klasses[k].fields), g, A), o, A)
  BY <1>3, <1>13, <1>14, <1>15, <1>16, KlassObjectBack
<1> QED BY <1>3, <1>6, <1>7, <1>10, <1>12, <1>17

(* The stores, read again.                                                 *)
LEMMA StoreBack ==
  ASSUME NEW r, NEW w, NEW S, NEW T, NEW m, Writes(r, w, S, T, m),
         NEW v, v = WriteDoc(merge_rt(r, T), m), NEW back, back = ReadMem(v, T),
         NEW s \in ToSet(T.stores)
  PROVE  /\ Len(back.stores[s.name]) = Len(m.stores[s.name])
         /\ \A a \in DOMAIN m.stores[s.name] :
              SameWritten(back.stores[s.name][a], m.stores[s.name][a],
                          Named(T.klasses, s.klass).fields)
<1>1. GoodSchema(S) /\ GoodSchema(T) /\ SameSchema(S, T) /\ RTShape(r, S)
  BY DEF Writes, ReadOf
<1>2. PICK q, b, n, A : q = merge_rt(r, T) /\ b = ReadRT(v, T) /\ n = s.name /\ A = FieldsIn(T, n)
  OBVIOUS
<1>3. RTShape(q, T) /\ AllKnown(q, T) /\ WireShape(v)
  BY <1>1, <1>2, MergeShape, WriteMerged
<1>4. ReadBack(b, q, T) /\ ~Rejects(v, T)
  BY <1>2, ReadsBackRT, NotRejected
<1>5. n \in Names(T.stores) /\ A = Named(T.klasses, s.klass).fields
  BY <1>1, <1>2, StoreFacts, NamedIs DEF FieldsIn
<1>6. DOMAIN q.stores = 1..Len(q.stores) /\ DOMAIN b.stores = 1..Len(b.stores)
  <2>1. \E k \in 1..Len(v.klasses) : v.klasses[k].serial = "__meta__"
    BY <1>2, WrittenOK DEF WireOK
  <2>2. b \in RTs
    BY <1>1, <1>2, <1>3, <2>1, WireFacts, ReadRTIs
  <2> QED BY <1>3, <2>2, RTFacts DEF RTShape
<1>7. Known(b.stores, n)
  BY <1>3, <1>4, <1>5, <1>6 DEF AllKnown, Known, ReadBack, is_lazy
<1>8. PICK i : i = At(b.stores, n)
  OBVIOUS
<1>9. PICK k : k = b.stores[i].klass + 1
  OBVIOUS
<1>10. /\ i \in 1..Len(b.stores) /\ ~is_lazy(b.stores[i]) /\ b.stores[i].def.name = n
       /\ Len(back.stores[n]) = Len(v.groups[i])
       /\ \A a \in 1..Len(v.groups[i]) :
            back.stores[n][a] = ReadObject(v.groups[i][a], b.klasses[k].fields, A)
  <2>1. i \in 1..Len(b.stores) /\ ~is_lazy(b.stores[i]) /\ b.stores[i].def.name = n
    BY <1>6, <1>7, <1>8, KnownAt
  <2>2. back.stores[n] = ReadObjects(v, b, n)
    BY <1>2, <1>5 DEF ReadMem
  <2>3. DOMAIN v.groups[i] = 1..Len(v.groups[i]) /\ Len(v.groups[i]) \in Nat
    <3>1. i \in 1..Len(v.stores)
      BY <1>2, <1>4, <2>1, WriteMerged DEF ReadBack
    <3>2. v.groups[i] \in Seq(Items) /\ DOMAIN v.groups[i] = 1..Len(v.groups[i])
      BY <1>3, <3>1, WireFacts
    <3> QED BY <3>2, LenProperties
  <2>4. back.stores[n] = [a \in 1..Len(v.groups[i]) |->
                            ReadObject(v.groups[i][a], b.klasses[k].fields, b.klasses[k].def.fields)]
    BY <1>7, <1>8, <1>9, <2>2, <2>3, Zenon DEF ReadObjects
  <2>5. b.klasses[k].def.fields = A
    <3>1. /\ i \in 1..Len(q.stores) /\ ~is_lazy(q.stores[i]) /\ q.stores[i].def.name = n
          /\ k = q.stores[i].klass + 1
      BY <1>4, <1>9, <2>1 DEF ReadBack, is_lazy
    <3>2. k \in 1..Len(q.klasses) /\ k # q.doc /\ q.klasses[k].def.fields = A
      BY <1>1, <1>2, <1>3, <3>1, StoreKlass
    <3> QED BY <1>4, <3>2 DEF ReadBack
  <2> QED BY <2>1, <2>3, <2>4, <2>5
<1>11. /\ i \in 1..Len(q.stores) /\ ~is_lazy(q.stores[i]) /\ n = q.stores[i].def.name
       /\ k = q.stores[i].klass + 1
  BY <1>4, <1>9, <1>10 DEF ReadBack, is_lazy
<1>12. StoreFrom(v, i, m, q, T, w, r)
  BY <1>2, <1>11, DeclaredStore, Zenon
<1>13. /\ m.stores[n] \in Seq(ObjectsOf(A)) /\ Len(v.groups[i]) = Len(m.stores[n])
       /\ k \in 1..Len(q.klasses) /\ IsDeclared(q, T, k) /\ A = DefsOf(q, T, k)
  BY <1>2, <1>11, <1>12, Zenon DEF StoreFrom
<1>14. PICK g : g = b.klasses[k].fields
  OBVIOUS
<1>15. FieldsBack(g, q.klasses[k].fields)
  BY <1>4, <1>13, <1>14 DEF ReadBack
<1>16. ASSUME NEW a \in 1..Len(m.stores[n])
       PROVE  SameWritten(back.stores[n][a], m.stores[n][a], A)
  <2>1. PICK o : o = m.stores[n][a]
    BY Zenon
  <2>2. /\ v.groups[i][a] = WriteObject(o, q.klasses[k].fields)
        /\ o \in ObjectsOf(A) /\ ObjectOK(m, o, A)
        /\ KeptOK(w, o.lazy, IF k \in 1..Len(r.klasses) THEN r.klasses[k].fields ELSE <<>>)
    BY <1>2, <1>11, <1>12, <2>1, Zenon DEF StoreFrom
  <2>3. SameWritten(ReadObject(WriteObject(o, q.klasses[k].fields), g, A), o, A)
    BY <1>2, <1>13, <1>15, <2>2, KlassObjectBack
  <2>4. back.stores[n][a] = ReadObject(WriteObject(o, q.klasses[k].fields), g, A)
    BY <1>10, <1>13, <1>14, <2>2
  <2> QED BY <2>1, <2>3, <2>4
<1>17. DOMAIN m.stores[n] = 1..Len(m.stores[n])
  BY <1>13, LenProperties
<1>18. Len(back.stores[n]) = Len(m.stores[n])
  BY <1>10, <1>13
<1> QED BY <1>2, <1>5, <1>16, <1>17, <1>18

(* Who reads v with T finds what was in the memory m.                      *)
BackAsWritten(v, T, m) ==
  LET back == ReadMem(v, T)
  IN  /\ ~Rejects(v, T)
      /\ SameWritten(back.doc, m.doc, T.doc)
      /\ \A s \in ToSet(T.stores) :
           /\ Len(back.stores[s.name]) = Len(m.stores[s.name])
           /\ \A a \in DOMAIN m.stores[s.name] :
                SameWritten(back.stores[s.name][a], m.stores[s.name][a],
                            Named(T.klasses, s.klass).fields)

LEMMA WrittenIsBack ==
  ASSUME NEW r, NEW w, NEW S, NEW T, NEW m, Writes(r, w, S, T, m),
         T.doc # <<>> => r.docLazy = NoDoc
  PROVE  BackAsWritten(WriteDoc(merge_rt(r, T), m), T, m)
<1>1. PICK v, back : v = WriteDoc(merge_rt(r, T), m) /\ back = ReadMem(v, T)
  OBVIOUS
<1>2. ~Rejects(v, T) /\ SameWritten(back.doc, m.doc, T.doc)
  BY <1>1, NotRejected, DocBack
<1>3. ASSUME NEW s \in ToSet(T.stores)
      PROVE  /\ Len(back.stores[s.name]) = Len(m.stores[s.name])
             /\ \A a \in DOMAIN m.stores[s.name] :
                  SameWritten(back.stores[s.name][a], m.stores[s.name][a],
                              Named(T.klasses, s.klass).fields)
  BY <1>1, StoreBack
<1> QED BY <1>1, <1>2, <1>3 DEF BackAsWritten

(* A tool that declares fields of the document has kept none of it whole.  *)
LEMMA DocOfSource ==
  ASSUME DocumentInv, pc = "edit", tool.out.doc # <<>>
  PROVE  RTToMerge.docLazy = NoDoc
<1>1. CASE rt = NoDoc
  BY <1>1 DEF RTToMerge, EmptyRT
<1>2. CASE rt # NoDoc
  <2>1. EditInv /\ rt = ReadRT(wire, tool.in)
    BY <1>2 DEF DocumentInv, PipelineInv, EditInv
  <2>2. GoodSchema(tool.in) /\ GoodSchema(tool.out) /\ Len(tool.in.doc) = Len(tool.out.doc)
    BY <2>1, ToolFacts DEF EditInv, SameSchema, SameButSerials
  <2>3. tool.in.doc # <<>>
    BY <2>2, DocFacts, EmptySeq
  <2>4. rt.docLazy = NoDoc
    BY <2>1, <2>3 DEF ReadRT
  <2> QED BY <1>2, <2>4 DEF RTToMerge
<1> QED BY <1>1, <1>2

(* Where no tool of a pipeline adds a name that a tool before it has       *)
(* written with, a tool that reads what was written with the schema it was *)
(* written with is not refused, and finds every READ_WRITE field as it was *)
(* in the memory of the writer, for every number of tools, annotations and *)
(* changes: the runtime that is read has each declaration under the id     *)
(* that wrote it, and a value that is not written is its field's first.    *)
THEOREM ReadsBack ==
  ASSUME FreshNames
  PROVE  Spec => []ReadsBackWhatWasWritten
<1>1. Init => DocumentInv /\ ReadsBackWhatWasWritten
  BY InitDocument DEF Init, ReadsBackWhatWasWritten
<1>2. ASSUME DocumentInv, ReadsBackWhatWasWritten, [Next]_vars
      PROVE  DocumentInv' /\ ReadsBackWhatWasWritten'
  <2>1. DocumentInv'
    BY <1>2, StepDocument
  <2>2. CASE Create \/ Read \/ ReadFails \/ EditNext
    <3>1. pc' # "written"
      BY <2>2 DEF Create, Read, ReadFails, EditNext, SetDocField, SetField, CreateAnn, Edit
    <3> QED BY <2>1, <3>1 DEF ReadsBackWhatWasWritten
  <2>3. CASE Write
    <3>1. /\ pc = "edit" /\ pc' = "written" /\ tool' = tool /\ mem' = mem
          /\ wire' = WriteDoc(merge_rt(RTToMerge, tool.out), mem)
      BY <2>3 DEF Write, RTToMerge
    <3>2. PICK S : Writes(RTToMerge, Source, S, tool.out, mem)
      BY <1>2, <3>1, SourceFacts
    <3>3. tool.out.doc # <<>> => RTToMerge.docLazy = NoDoc
      BY <1>2, <3>1, DocOfSource
    <3>4. BackAsWritten(wire', tool'.out, mem')
      BY <3>1, <3>2, <3>3, WrittenIsBack
    <3> QED BY <2>1, <3>4 DEF ReadsBackWhatWasWritten, BackAsWritten, SameWritten
  <2>4. CASE UNCHANGED vars
    BY <1>2, <2>1, <2>4 DEF vars, ReadsBackWhatWasWritten
  <2> QED BY <1>2, <2>2, <2>3, <2>4 DEF Next
<1> QED BY <1>1, <1>2, PTL DEF Spec
=============================================================================
