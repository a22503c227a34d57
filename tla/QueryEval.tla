------------------------------ MODULE QueryEval ------------------------------
(***************************************************************************)
(* The evaluation of a query on a document (dr/query.cc), and what it      *)
(* should mean. Evaluation passes an EvalContext along: the variables, of  *)
(* which only ann comes and goes, and the stack of the stores that any and *)
(* all are iterating over.                                                 *)
(*                                                                         *)
(* A document has attributes and stores. A store is the names of its       *)
(* klass's fields, numbered from 0, and its annotations, each the sequence *)
(* of its pairs of a field's number and value. A value is [type, via]; the *)
(* type "bad" stands for the fields that a query may not look at (slices,  *)
(* pointers, nil, floats). A string is the sequence of its characters.     *)
(* Integers are unbounded; regular expressions are the standard library's. *)
(*                                                                         *)
(* A result is a value, a RuntimeError, or undefined behaviour.            *)
(***************************************************************************)
EXTENDS QueryParser, Functions

CONSTANTS
  IntegerLiteral,       \* the integer of each literal's text
  StringLiteral,        \* the string of each literal's text
  LeftmostMatch(_, _)   \* the length of a regular expression's first match
                        \* in a string, -1 if there is none

Val(type, via) == [type |-> type, via |-> via]
IntVal(i) == Val("integer", i)
StrVal(s) == Val("string", s)
Bool(b) == IntVal(IF b THEN 1 ELSE 0)
Missing == Val("missing", 0)

Value(v, ctx) == [is |-> "value", val |-> v, ctx |-> ctx]
RuntimeError(ctx) == [is |-> "error", val |-> Missing, ctx |-> ctx]
Undefined(ctx) == [is |-> "undefined", val |-> Missing, ctx |-> ctx]

IsValue(r) == r.is = "value"

(* Value::to_bool *)
ToBool(v) ==
  CASE v.type = "integer" -> v.via # 0
    [] v.type = "missing" -> FALSE
    [] v.type = "string"  -> v.via # <<>>
    [] OTHER              -> TRUE

-----------------------------------------------------------------------------
(* Fields. *)

FieldToValue(v, ctx) == IF v.type = "bad" THEN RuntimeError(ctx) ELSE Value(v, ctx)

(* The first pair of the annotation whose field has the name, where the    *)
(* numbers are looked up in the klass of store; a number that the klass    *)
(* does not have is read beyond its fields.                                *)
AnnAttribute(ann, store, name, ctx) ==
  LET known == DOMAIN store.fields
      FieldOf(j) == ann[j].id + 1
      Ends(j) == FieldOf(j) \notin known \/ store.fields[FieldOf(j)] = name
      ends == {j \in DOMAIN ann : Ends(j)}
      first == CHOOSE j \in ends : \A k \in ends : j <= k
  IN  CASE ends = {} -> Value(Missing, ctx)
        [] ends # {} /\ FieldOf(first) \notin known -> Undefined(ctx)
        [] ends # {} /\ FieldOf(first) \in known -> FieldToValue(ann[first].val, ctx)

(* A field of the document before a store of the same name.                *)
DocAttribute(doc, name, ctx) ==
  CASE name \in DOMAIN doc.attrs -> FieldToValue(doc.attrs[name], ctx)
    [] name \notin DOMAIN doc.attrs /\ name \in DOMAIN doc.stores ->
         Value(Val("store", name), ctx)
    [] OTHER -> Value(Missing, ctx)

-----------------------------------------------------------------------------
(* Operators and functions of values. Both operands have been evaluated:   *)
(* && and || do not stop at the first. / and % are undefined for 0.        *)

Trunc(a, b) ==   \* a / b, towards 0
  LET Abs(x) == IF x < 0 THEN -x ELSE x
      q == Abs(a) \div Abs(b)
  IN  IF (a < 0) = (b < 0) THEN q ELSE -q

IntOp(op, a, b) ==
  CASE op = "&&" -> Bool(a # 0 /\ b # 0)
    [] op = "||" -> Bool(a # 0 \/ b # 0)
    [] op = "==" -> Bool(a = b)
    [] op = "!=" -> Bool(a # b)
    [] op = "<=" -> Bool(a <= b)
    [] op = "<"  -> Bool(a < b)
    [] op = ">=" -> Bool(a >= b)
    [] op = ">"  -> Bool(a > b)
    [] op = "+"  -> IntVal(a + b)
    [] op = "-"  -> IntVal(a - b)
    [] op = "*"  -> IntVal(a * b)
    [] op = "/"  -> IntVal(Trunc(a, b))
    [] op = "%"  -> IntVal(a - b * Trunc(a, b))

StrOp(op, a, b) ==
  CASE op = "==" -> Bool(a = b)
    [] op = "!=" -> Bool(a # b)
    [] op = "+"  -> StrVal(a \o b)

(* ~= looks at the leftmost match alone, which may be shorter than another.*)
Binary(op, v1, v2, ctx) ==
  LET found == LeftmostMatch(v2.via, v1.via)
  IN  CASE op \in {"~", "~="} ->
             IF v1.type # "string" \/ v2.type # "regex" THEN RuntimeError(ctx)
             ELSE Value(Bool(IF op = "~" THEN found >= 0 ELSE found = Len(v1.via)), ctx)
        [] op \notin {"~", "~="} /\ v1.type = "integer" /\ v2.type = "integer" ->
             IF op \in {"/", "%"} /\ v2.via = 0 THEN Undefined(ctx)
             ELSE Value(IntOp(op, v1.via, v2.via), ctx)
        [] op \in {"==", "!=", "+"} /\ v1.type = "string" /\ v2.type = "string" ->
             Value(StrOp(op, v1.via, v2.via), ctx)
        [] OTHER -> RuntimeError(ctx)

(* cast_to_int takes all of the string or fails, but nothing is 0; cast_to_str. *)
Digits == <<"0", "1", "2", "3", "4", "5", "6", "7", "8", "9">>
Magnitude(s) == IF s # <<>> /\ Head(s) \in {"+", "-"} THEN Tail(s) ELSE s

IsDecimal(s) ==
  \/ s = <<>>
  \/ Magnitude(s) # <<>> /\ \A i \in DOMAIN Magnitude(s) : Magnitude(s)[i] \in Range(Digits)

IntegerOf(s) ==
  LET m == Magnitude(s)
      DigitAt(i) == CHOOSE d \in 0..9 : Digits[d + 1] = m[i]
      value[i \in 0..Len(m)] == IF i = 0 THEN 0 ELSE 10 * value[i - 1] + DigitAt(i)
  IN  IF s # <<>> /\ Head(s) = "-" THEN -value[Len(m)] ELSE value[Len(m)]

DecimalOf(n) ==
  LET digits[k \in Nat] == IF k < 10 THEN <<Digits[k + 1]>>
                           ELSE Append(digits[k \div 10], Digits[(k % 10) + 1])
  IN  IF n < 0 THEN <<"-">> \o digits[-n] ELSE digits[n]

(* int, len and str. *)
Cast(function, v, doc, ctx) ==
  CASE function = "int" /\ v.type \in {"integer", "missing", "string"} ->
         (CASE v.type = "integer" -> Value(v, ctx)
            [] v.type = "missing" -> Value(IntVal(0), ctx)
            [] v.type = "string"  -> IF IsDecimal(v.via)
                                     THEN Value(IntVal(IntegerOf(v.via)), ctx)
                                     ELSE RuntimeError(ctx))
    [] function = "len" /\ v.type \in {"missing", "string", "store"} ->
         (CASE v.type = "missing" -> Value(IntVal(0), ctx)
            [] v.type = "string"  -> Value(IntVal(Len(v.via)), ctx)
            [] v.type = "store"   -> Value(IntVal(Len(doc.stores[v.via].anns)), ctx))
    [] function = "str" /\ v.type \in {"integer", "missing", "string"} ->
         (CASE v.type = "integer" -> Value(StrVal(DecimalOf(v.via)), ctx)
            [] v.type = "missing" -> Value(StrVal(<<>>), ctx)
            [] v.type = "string"  -> Value(v, ctx))
    [] OTHER -> RuntimeError(ctx)

Literal(tok) ==
  CASE Type(tok) = "LITERAL_INTEGER" -> IntVal(IntegerLiteral[Text(tok)])
    [] Type(tok) = "LITERAL_REGEX"   -> Val("regex", Text(tok))
    [] Type(tok) = "LITERAL_STRING"  -> StrVal(StringLiteral[Text(tok)])

-----------------------------------------------------------------------------
(* The EvalContext: whether ann is a variable and which annotation it is,  *)
(* the stack of stores, and the document with its number.                  *)

Context(doc, index) == [doc |-> doc, index |-> index, ann |-> <<>>, stores |-> <<>>]

(* set_var is an emplace: a variable that exists keeps its value.          *)
SetAnn(ctx, ann) == IF ctx.ann # <<>> THEN ctx ELSE [ctx EXCEPT !.ann = <<ann>>]

UnsetAnn_Keeps(ctx) == ctx

UnsetAnn(ctx) == [ctx EXCEPT !.ann = <<>>]

PushStore(ctx, store) == [ctx EXCEPT !.stores = Append(@, store)]
PopStore(ctx) == [ctx EXCEPT !.stores = SubSeq(@, 1, Len(@) - 1)]
TopStore(ctx) == ctx.stores[Len(ctx.stores)]

Variable(node, ctx) ==
  LET name == Text(node.tok)
      var == CASE name = "doc"   -> <<Val("doc", 0)>>
               [] name = "index" -> <<IntVal(ctx.index)>>
               [] name = "ann"   -> IF ctx.ann = <<>> THEN <<>> ELSE <<Val("ann", 0)>>
               [] OTHER          -> <<>>
  IN  CASE var = <<>> -> RuntimeError(ctx)
        [] var # <<>> /\ node.attr = "" -> Value(var[1], ctx)
        [] var # <<>> /\ node.attr # "" ->
            (CASE name = "ann" -> AnnAttribute(ctx.ann[1], TopStore(ctx), node.attr, ctx)
               [] name = "doc" -> DocAttribute(ctx.doc, node.attr, ctx)
               [] OTHER        -> RuntimeError(ctx))

Quantifiers == {"all", "any"}

Arity(function) == IF function \in Quantifiers THEN 2 ELSE 1

RECURSIVE Eval(_, _), StoreIter(_, _, _, _)

(* _store_iter: one annotation after the other, from the i-th on, up to    *)
(* the first that decides.                                                 *)
StoreIter(node, store, i, ctx) ==
  LET isAny == Text(node.tok) = "any"
      r == Eval(node.args[2], PushStore(SetAnn(ctx, store.anns[i]), store))
      after == UnsetAnn(PopStore(r.ctx))
  IN  IF i > Len(store.anns) THEN Value(Bool(~isAny), ctx)
      ELSE CASE ~IsValue(r) -> r
             [] IsValue(r) /\ ToBool(r.val) = isAny -> Value(Bool(isAny), after)
             [] OTHER -> StoreIter(node, store, i + 1, after)

FunctionCall(node, ctx) ==
  LET function == Text(node.tok)
      a == Eval(node.args[1], ctx)
  IN  CASE Len(node.args) # Arity(function) -> RuntimeError(ctx)
        [] Len(node.args) = Arity(function) /\ ~IsValue(a) -> a
        [] OTHER ->
            (CASE function \notin Quantifiers -> Cast(function, a.val, ctx.doc, a.ctx)
               [] function \in Quantifiers /\ a.val.type = "missing" ->
                    Value(Bool(FALSE), a.ctx)
               [] function \in Quantifiers /\ a.val.type = "store" ->
                    StoreIter(node, ctx.doc.stores[a.val.via], 1, a.ctx)
               [] OTHER -> RuntimeError(a.ctx))

Operation(node, ctx) ==
  LET a == Eval(node.args[1], ctx)
      b == Eval(node.args[2], a.ctx)
  IN  CASE ~IsValue(a) -> a
        [] IsValue(a) /\ ~IsValue(b) -> b
        [] OTHER -> Binary(Text(node.tok), a.val, b.val, b.ctx)

Eval(node, ctx) ==
  CASE Type(node.tok) \in Literals   -> Value(Literal(node.tok), ctx)
    [] Type(node.tok) = "VAR"        -> Variable(node, ctx)
    [] Type(node.tok) = "FUNCTION"   -> FunctionCall(node, ctx)
    [] OTHER                         -> Operation(node, ctx)

(* Interpreter::eval: a fresh context for each document.                   *)
EvalDoc(tree, doc, index) == Eval(tree, Context(doc, index))

-----------------------------------------------------------------------------
(* What a query should mean: in the second argument of any and all, ann is *)
(* the annotation at hand, whatever quantifiers are around or inside, and  *)
(* its fields are those of the store that it is in. scope is empty, or one *)
(* record of the two.                                                      *)
RECURSIVE Means(_, _, _, _)
Means(node, doc, index, scope) ==
  LET op == Text(node.tok)
      ctx == Context(doc, index)
      Arg(k) == Means(node.args[k], doc, index, scope)
      store == doc.stores[Arg(1).val.via]
      For(i) == Means(node.args[2], doc, index,
                      <<[ann |-> store.anns[i], store |-> store]>>)
      Decides(i) == ~IsValue(For(i)) \/ ToBool(For(i).val) = (op = "any")
      deciding == {i \in DOMAIN store.anns : Decides(i)}
      first == CHOOSE i \in deciding : \A k \in deciding : i <= k
  IN  CASE Type(node.tok) \in Literals -> Value(Literal(node.tok), ctx)
        [] Type(node.tok) = "VAR" /\ op = "ann" ->
            (CASE scope = <<>> -> RuntimeError(ctx)
               [] scope # <<>> /\ node.attr = "" -> Value(Val("ann", 0), ctx)
               [] OTHER -> AnnAttribute(scope[1].ann, scope[1].store, node.attr, ctx))
        [] Type(node.tok) = "VAR" /\ op # "ann" -> Variable(node, ctx)
        [] Type(node.tok) = "FUNCTION" ->
            (CASE Len(node.args) # Arity(op) -> RuntimeError(ctx)
               [] Len(node.args) = Arity(op) /\ ~IsValue(Arg(1)) -> Arg(1)
               [] OTHER ->
                   (CASE op \notin Quantifiers -> Cast(op, Arg(1).val, doc, ctx)
                      [] op \in Quantifiers /\ Arg(1).val.type = "missing" ->
                           Value(Bool(FALSE), ctx)
                      [] op \in Quantifiers /\ Arg(1).val.type = "store" ->
                           IF deciding = {} THEN Value(Bool(op = "all"), ctx)
                           ELSE IF ~IsValue(For(first)) THEN For(first)
                           ELSE Value(Bool(op = "any"), ctx)
                      [] OTHER -> RuntimeError(ctx)))
        [] OTHER -> CASE ~IsValue(Arg(1)) -> Arg(1)
                      [] IsValue(Arg(1)) /\ ~IsValue(Arg(2)) -> Arg(2)
                      [] OTHER -> Binary(op, Arg(1).val, Arg(2).val, ctx)

(* A quantifier in the second argument of another.                         *)
RECURSIVE Quantifies(_)
Quantifies(node) ==
  \/ Type(node.tok) = "FUNCTION" /\ Text(node.tok) \in Quantifiers
  \/ \E k \in DOMAIN node.args : Quantifies(node.args[k])

RECURSIVE Nested(_)
Nested(node) ==
  \/ /\ Type(node.tok) = "FUNCTION" /\ Text(node.tok) \in Quantifiers
     /\ Len(node.args) = 2 /\ Quantifies(node.args[2])
  \/ \E k \in DOMAIN node.args : Nested(node.args[k])
=============================================================================
