---------------------------- MODULE MCStreamTools ----------------------------
(* The stream tools on three documents, and on streams of up to four of    *)
(* them. dr-grep is given every query of up to four of ten tokens, every   *)
(* one of up to six of the five that calls are made of, and longer ones.   *)
EXTENDS StreamTools

I(text) == <<"LITERAL_INTEGER", text>>
S(text) == <<"LITERAL_STRING", text>>
R(text) == <<"LITERAL_REGEX", text>>
F(text) == <<"FUNCTION", text>>
A(text) == <<"VAR_ATTRIBUTE", text>>
DocVar == <<"VAR", "doc">>
AnnVar == <<"VAR", "ann">>
Index == <<"VAR", "index">>
Open == <<"OPEN_PAREN", "(">>
Close == <<"CLOSE_PAREN", ")">>
Comma == <<"COMMA", ",">>
And == <<"OP_BOOLEAN", "&&">>
Or == <<"OP_BOOLEAN", "||">>
Cmp(op) == <<"OP_COMPARISON", op>>
Add(op) == <<"OP_NUMERIC3", op>>
Mul(op) == <<"OP_NUMERIC4", op>>

MCIntegerLiteral == [t \in {"0", "1", "2", "3"} |-> CASE t = "0" -> 0 [] t = "1" -> 1
                                                     [] t = "2" -> 2 [] t = "3" -> 3]
MCStringLiteral == [t \in {"", "ab", "2"} |-> CASE t = "" -> <<>> [] t = "ab" -> <<"a", "b">>
                                                [] t = "2" -> <<"2">>]

(* /a|ab/ and /ab|a/. *)
MCLeftmostMatch(re, s) ==
  LET as == {i \in DOMAIN s : s[i] = "a"}
      first == Min(as)
  IN  CASE as = {} -> -1
        [] as # {} /\ re = "ab|a" /\ first < Len(s) -> IF s[first + 1] = "b" THEN 2 ELSE 1
        [] OTHER -> 1

Pair(id, val) == [id |-> id, val |-> val]
Store(fields, anns) == [fields |-> fields, anns |-> anns]

MCDocs == <<
  [attrs  |-> [n |-> IntVal(2), s |-> StrVal(<<"a", "b">>), p |-> Val("bad", 0)],
   stores |-> [s |-> Store(<<"x", "y">>, << <<Pair(1, IntVal(1)), Pair(0, IntVal(2))>>,
                                            <<Pair(0, IntVal(3))>> >>),
               t |-> Store(<<"y">>, << <<Pair(0, IntVal(2))>> >>)],
   nbytes |-> 3],
  [attrs  |-> [n |-> IntVal(0)],
   stores |-> [t |-> Store(<<"x", "y">>, << <<Pair(1, StrVal(<<>>))>>,
                                            <<Pair(0, IntVal(1)), Pair(1, IntVal(1))>> >>)],
   nbytes |-> 1],
  [attrs  |-> [s |-> StrVal(<<"a">>)], stores |-> [t |-> Store(<<>>, <<>>)], nbytes |-> 2]>>

Counts == {0, 1, 2, 3}

Upto(n, tokens) == UNION {[1..k -> tokens] : k \in 0..n}

Short == Upto(4, {I("1"), DocVar, A("n"), Open, Close, F("len"), Comma, Cmp("=="),
                  Add("-"), And})
Calls == Upto(6, {I("1"), F("int"), Open, Close, Comma})

(* Three operands with every pair of operators between them.               *)
Operators == {And, Or, Cmp("=="), Cmp("<="), Add("-"), Add("+"), Mul("*"), Mul("/")}
Chains == {<<I("1"), p, DocVar, A("n"), q, I("3")>> : p, q \in Operators}

(* any and all over a condition on ann, alone and nested.                  *)
Call(f, arg, cond) == <<F(f), Open>> \o arg \o <<Comma>> \o cond \o <<Close>>
StoreArgs == {<<DocVar, A(s)>> : s \in {"s", "t", "u"}}
Conditions == {<<AnnVar, A(a), op, I(i)>> : a \in {"x", "y"}, i \in {"1", "2"},
                                            op \in {Cmp("=="), Cmp(">"), Mul("/")}}
              \cup {<<AnnVar, A("y")>>, <<AnnVar>>, <<Index, Cmp("<"), I("2")>>}
Quantified == {Call(f, s, c) : f \in Quantifiers, s \in StoreArgs, c \in Conditions}
NestedOnes == {Call(f, <<DocVar, A("s")>>,
                    Call(g, <<DocVar, A("t")>>, <<AnnVar, A("y"), Cmp("=="), I("2")>>)
                      \o <<And, AnnVar, A("x"), Cmp("=="), I("2")>>) : f, g \in Quantifiers}
Twice == {Call("any", <<DocVar, A("t")>>, <<I("0")>>) \o <<Or>> \o c : c \in Conditions}

(* Strings, regular expressions, the casts and the document's attributes.  *)
Texts == {<<F("str"), Open, DocVar, A(a), Close, op, o>> :
            a \in {"n", "s", "p", "u"},
            op \in {Cmp("~"), Cmp("~="), Cmp("=="), Cmp("<"), Add("+")},
            o \in {S("ab"), S("2"), R("a|ab"), R("ab|a")}}
Casts == {<<F(f), Open, o, Close>> : f \in {"int", "len", "str"},
                                     o \in {S(""), S("2"), S("ab"), I("2"), R("ab|a"), DocVar}}
         \cup {<<F(f), Open, DocVar, A(a), Close, Cmp(">="), I("2")>> :
                 f \in {"int", "len"}, a \in {"n", "s", "t", "p", "u"}}

Queries == Short \cup Calls \cup Chains \cup Quantified \cup NestedOnes \cup Twice
           \cup Texts \cup Casts

MCOptions == [t \in Tools |->
  CASE t = "head" -> [count : Counts, skip : Counts]
    [] t \in {"tail", "sample"} -> [count : Counts]
    [] t = "offsets" -> {<<>>}
    [] t = "grep" -> [query : Queries]
    [] t = "count" -> [all : BOOLEAN, store : {"", "t", "s"}, perDoc : BOOLEAN,
                       cumulative : BOOLEAN]]

MCStreams == [t \in Tools |->
  IF t = "grep" THEN {<<>>, <<3, 1, 2>>}
  ELSE UNION {[1..n -> 1..3] : n \in 0..4}]
=============================================================================
