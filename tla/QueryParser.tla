----------------------------- MODULE QueryParser -----------------------------
(***************************************************************************)
(* The parser of the query language (dr/query.cc): the tokens of a query,  *)
(* the recursive descent over them, and the grammar it should follow, as   *)
(* the set of the trees that a piece of the query can be read as.          *)
(*                                                                         *)
(* A token is the pair of its type and its text. The parser is a function  *)
(* of the procedure and of the first token it has not consumed.            *)
(***************************************************************************)
EXTENDS Integers, Sequences, FiniteSets

END == "END"      \* what front() is taken for when no token is left

Type(tok) == tok[1]
Text(tok) == tok[2]

(* A node: its token, the attribute of a variable, and its operands.       *)
Node(tok, attr, args) == [tok |-> tok, attr |-> attr, args |-> args]
Leaf(tok) == Node(tok, "", <<>>)
NoTree == Leaf(<<END, "">>)

Literals == {"LITERAL_INTEGER", "LITERAL_REGEX", "LITERAL_STRING"}

(* _parse_e1 to _parse_e4 differ in the operators they take and in the     *)
(* procedure that reads the right operand: all but the comparison call     *)
(* themselves, so that their operators associate to the right.             *)
Operator == <<"OP_BOOLEAN", "OP_COMPARISON", "OP_NUMERIC3", "OP_NUMERIC4">>

RightOperand_All == <<1, 2, 3, 4>>

RightOperand == <<1, 3, 3, 4>>

Got(tree, next) == [ok |-> TRUE, tree |-> tree, next |-> next]
CompileError == [ok |-> FALSE, tree |-> NoTree, next |-> 0]

(* Procedures 1 to 5 are _parse_e1 to _parse_e5; 6 and 7 are the loop over *)
(* a function's arguments before the first of them and after one, whose    *)
(* tree is the sequence of those that follow.                              *)
Parse(toks) ==
  LET n == Len(toks)
      TypeAt(i) == IF i <= n THEN Type(toks[i]) ELSE END
      parse[q \in (1..7) \X (1..(n + 1))] ==
        LET e == q[1]
            i == q[2]
            left == parse[<<e + 1, i>>]
            inner == parse[<<1, i + 1>>]
            args == parse[<<6, i + 2>>]
            Binary ==
              IF ~left.ok \/ TypeAt(left.next) # Operator[e] THEN left
              ELSE LET right == parse[<<RightOperand[e], left.next + 1>>]
                   IN  IF ~right.ok THEN CompileError
                       ELSE Got(Node(toks[left.next], "", <<left.tree, right.tree>>),
                                right.next)
            Primary ==
              CASE TypeAt(i) \in Literals -> Got(Leaf(toks[i]), i + 1)
                [] TypeAt(i) = "VAR" ->
                     IF TypeAt(i + 1) = "VAR_ATTRIBUTE"
                     THEN Got(Node(toks[i], Text(toks[i + 1]), <<>>), i + 2)
                     ELSE Got(Leaf(toks[i]), i + 1)
                [] TypeAt(i) = "OPEN_PAREN" ->
                     IF inner.ok /\ TypeAt(inner.next) = "CLOSE_PAREN"
                     THEN Got(inner.tree, inner.next + 1) ELSE CompileError
                [] TypeAt(i) = "FUNCTION" ->
                     IF TypeAt(i + 1) = "OPEN_PAREN" /\ args.ok
                     THEN Got(Node(toks[i], "", args.tree), args.next)
                     ELSE CompileError
                [] OTHER -> CompileError
            Arguments(from) ==
              LET first == parse[<<1, from>>]
                  rest == parse[<<7, first.next>>]
              IN  IF first.ok /\ rest.ok
                  THEN Got(<<first.tree>> \o rest.tree, rest.next) ELSE CompileError
        IN  CASE e \in 1..4 -> Binary
              [] e = 5 -> Primary
              [] TypeAt(i) = "CLOSE_PAREN" -> Got(<<>>, i + 1)
              [] e = 6 /\ TypeAt(i) \notin {END, "CLOSE_PAREN"} -> Arguments(i)
              [] e = 7 /\ TypeAt(i) = "COMMA" -> Arguments(i + 1)
              [] OTHER -> CompileError
  IN  parse[<<1, 1>>]

(* _parse: all of a query that is not empty is one expression.             *)
Compile(toks) ==
  LET whole == Parse(toks)
  IN  IF toks # <<>> /\ whole.ok /\ whole.next = Len(toks) + 1 THEN whole
      ELSE CompileError

-----------------------------------------------------------------------------
(* The grammar: the trees that the tokens from i up to j can be read as by *)
(* the rule of level e. An operand of a comparison is never a comparison.  *)
Readings(toks) ==
  LET n == Len(toks)
      Is(i, type) == i \in 1..n /\ Type(toks[i]) = type
      read[q \in (1..6) \X (1..(n + 1)) \X (0..n)] ==
        LET e == q[1]
            i == q[2]
            j == q[3]
            BinaryAt(k) ==
              {Node(toks[k], "", <<l, r>>) :
                 l \in read[<<e + 1, i, k - 1>>],
                 r \in read[<<(IF e = 2 THEN 3 ELSE e), k + 1, j>>]}
            Atom == IF i = j /\ Type(toks[i]) \in Literals \cup {"VAR"}
                    THEN {Leaf(toks[i])} ELSE {}
            Attribute == IF j = i + 1 /\ Is(i, "VAR") /\ Is(j, "VAR_ATTRIBUTE")
                         THEN {Node(toks[i], Text(toks[j]), <<>>)} ELSE {}
            Parens == IF j > i + 1 /\ Is(i, "OPEN_PAREN") /\ Is(j, "CLOSE_PAREN")
                      THEN read[<<1, i + 1, j - 1>>] ELSE {}
            Function == IF j > i + 1 /\ Is(i, "FUNCTION") /\ Is(i + 1, "OPEN_PAREN")
                                     /\ Is(j, "CLOSE_PAREN")
                        THEN {Node(toks[i], "", a) :
                                a \in IF j = i + 2 THEN {<<>>} ELSE read[<<6, i + 2, j - 1>>]}
                        ELSE {}
        IN  CASE i > j -> {}
              [] i <= j /\ e \in 1..4 ->
                   read[<<e + 1, i, j>>]
                     \cup UNION {BinaryAt(k) : k \in {m \in (i + 1)..(j - 1) :
                                                        Is(m, Operator[e])}}
              [] i <= j /\ e = 5 -> Atom \cup Attribute \cup Parens \cup Function
              [] i <= j /\ e = 6 ->
                   {<<a>> : a \in read[<<1, i, j>>]}
                     \cup UNION {{<<a>> \o rest : a \in read[<<1, i, k - 1>>],
                                                  rest \in read[<<6, k + 1, j>>]} :
                                   k \in {m \in (i + 1)..(j - 1) : Is(m, "COMMA")}}
  IN  IF n = 0 THEN {} ELSE read[<<1, 1, n>>]

(* A query compiles exactly if the grammar has a reading of it, and then   *)
(* to the only one: nothing is ambiguous, and a failure deep inside of the *)
(* descent, or tokens that are left over, never pass for an expression.    *)
FollowsTheGrammar(toks) ==
  Readings(toks) = IF Compile(toks).ok THEN {Compile(toks).tree} ELSE {}
=============================================================================
