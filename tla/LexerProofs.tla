----------------------------- MODULE LexerProofs -----------------------------
(***************************************************************************)
(* For every text, every size of the buffer and every onerror: the         *)
(* tokenizer that reads through a buffer makes the calls it makes for the  *)
(* text as one piece, refuses a source exactly when a match is undecided   *)
(* after a whole buffer, and splits a possessive off inside of its match.  *)
(*                                                                         *)
(* The argument: first the grammar (a text that may still match has only   *)
(* such prefixes, and a match that can no longer go on, or that the next   *)
(* byte does not continue, is the longest one there); then the matches of  *)
(* the text as one piece, which follow each other from its first byte to   *)
(* its last; then the invariant LexInv, that the calls made are those of   *)
(* the first k of them, and the buffer and the automaton hold the text     *)
(* from the next one on.                                                   *)
(***************************************************************************)
EXTENDS Lexer, DataInduction, FiniteSetTheorems

-----------------------------------------------------------------------------
(* The grammar, for every text. *)

(* What a prefix is, element by element.                                   *)
LEMMA Prefix ==
  ASSUME NEW t \in Seq(Bytes), NEW n \in 0..Len(t)
  PROVE  /\ SubSeq(t, 1, n) \in Seq(Bytes)
         /\ Len(SubSeq(t, 1, n)) = n
         /\ \A i \in 1..n : SubSeq(t, 1, n)[i] = t[i]
<1>1. \A i \in 1..n : t[i] \in Bytes
  BY ElementOfSeq
<1>2. Len(t) \in Nat
  BY LenProperties
<1> QED BY <1>1, <1>2, SubSeqProperties

(* What a piece from the middle is.                                        *)
LEMMA Piece ==
  ASSUME NEW t \in Seq(Bytes), NEW b \in Nat, NEW e \in b..Len(t)
  PROVE  /\ SubSeq(t, b + 1, e) \in Seq(Bytes)
         /\ Len(SubSeq(t, b + 1, e)) = e - b
         /\ \A i \in 1..(e - b) : SubSeq(t, b + 1, e)[i] = t[b + i]
<1>1. Len(t) \in Nat
  BY LenProperties
<1>2. e \in Int /\ b + 1 \in Int /\ b <= e /\ e <= Len(t)
  BY <1>1
<1>3. \A i \in (b + 1)..e : t[i] \in Bytes
  BY <1>1, ElementOfSeq
<1>4. /\ SubSeq(t, b + 1, e) \in Seq(Bytes)
      /\ Len(SubSeq(t, b + 1, e)) = IF b + 1 <= e THEN e - (b + 1) + 1 ELSE 0
      /\ \A i \in 1..(e - (b + 1) + 1) : SubSeq(t, b + 1, e)[i] = t[(b + 1) + i - 1]
  BY <1>2, <1>3, SubSeqProperties
<1> QED BY <1>2, <1>4

(* A possessed word, element by element.                                   *)
LEMMA PossessedIs ==
  ASSUME NEW t \in Seq(Bytes)
  PROVE  IsPossessed(t) <=> /\ Len(t) > 2
                            /\ t[Len(t) - 1] = "'"
                            /\ t[Len(t)] = "s"
                            /\ IsWord(SubSeq(t, 1, Len(t) - 2))
<1>1. Len(t) \in Nat
  BY LenProperties
<1>2. Len(t) > 2 => (IsSuffix(Possessive, t) <=> t[Len(t) - 1] = "'" /\ t[Len(t)] = "s")
  <2> SUFFICES ASSUME Len(t) > 2
               PROVE  IsSuffix(Possessive, t) <=> t[Len(t) - 1] = "'" /\ t[Len(t)] = "s"
    OBVIOUS
  <2> DEFINE u == Reverse(t)
             q == Reverse(Possessive)
  <2>1. u = [i \in 1..Len(t) |-> t[(Len(t) - i) + 1]]
    BY DEF Reverse
  <2>2. u \in Seq(Bytes) /\ Len(u) = Len(t) /\ u[1] = t[Len(t)] /\ u[2] = t[Len(t) - 1]
    BY <1>1, <2>1
  <2>3. q \in Seq(Bytes) /\ Len(q) = 2 /\ q[1] = "s" /\ q[2] = "'"
    <3>1. Len(Possessive) = 2 /\ Possessive[1] = "'" /\ Possessive[2] = "s"
      BY DEF Possessive
    <3>2. q = [i \in 1..2 |-> Possessive[(2 - i) + 1]]
      BY <3>1 DEF Reverse
    <3>3. "'" \in Bytes /\ "s" \in Bytes
      BY DEF Bytes
    <3>4. \A i \in 1..2 : Possessive[(2 - i) + 1] = IF i = 1 THEN "s" ELSE "'"
      BY <3>1
    <3> QED BY <3>2, <3>3, <3>4
  <2> HIDE DEF u, q
  <2>4. 2 \in 0..Len(u) /\ 2 \in 0..Len(q)
    BY <1>1, <2>2, <2>3
  <2>5. /\ SubSeq(q, 1, 2) \in Seq(Bytes) /\ Len(SubSeq(q, 1, 2)) = 2
        /\ SubSeq(q, 1, 2)[1] = "s" /\ SubSeq(q, 1, 2)[2] = "'"
    <3>1. /\ SubSeq(q, 1, 2) \in Seq(Bytes) /\ Len(SubSeq(q, 1, 2)) = 2
          /\ \A i \in 1..2 : SubSeq(q, 1, 2)[i] = q[i]
      BY <2>3, <2>4, Prefix
    <3> QED BY <2>3, <3>1
  <2>6. /\ SubSeq(u, 1, 2) \in Seq(Bytes) /\ Len(SubSeq(u, 1, 2)) = 2
        /\ SubSeq(u, 1, 2)[1] = u[1] /\ SubSeq(u, 1, 2)[2] = u[2]
    BY <2>2, <2>4, Prefix
  <2>7. SubSeq(q, 1, 2) = SubSeq(u, 1, 2) <=> u[1] = "s" /\ u[2] = "'"
    BY <2>5, <2>6, SeqEqual
  <2>8. IsPrefix(q, u) <=> SubSeq(q, 1, 2) = SubSeq(u, 1, 2)
    BY <2>2, <2>3, <1>1 DEF IsPrefix
  <2> QED BY <2>2, <2>7, <2>8 DEF IsSuffix, u, q
<1> QED BY <1>2 DEF IsPossessed

(* A text of spaces, element by element.                                   *)
LEMMA SpaceIs ==
  ASSUME NEW t \in Seq(Bytes)
  PROVE  IsSpace(t) <=> t # <<>> /\ \A i \in 1..Len(t) : t[i] = " "
<1>1. DOMAIN t = 1..Len(t) /\ Len(t) \in Nat /\ (t # <<>> => 1 \in 1..Len(t))
  BY LenProperties, EmptySeq
<1> QED BY <1>1 DEF IsSpace, ToSet

LEMMA SmallTexts ==
  /\ <<"'">> \in Seq(Bytes) /\ Len(<<"'">>) = 1
  /\ <<"?">> \in Seq(Bytes) /\ Len(<<"?">>) = 1
  /\ <<"'", "'">> \in Seq(Bytes) /\ Len(<<"'", "'">>) = 2
  /\ Possessive \in Seq(Bytes) /\ Len(Possessive) = 2
  BY DEF Bytes, Possessive

(* The rules exclude each other, so that one of them has what matches.     *)
LEMMA RuleIs ==
  ASSUME NEW t \in Seq(Bytes)
  PROVE  /\ Rule(t) = "single_quote" <=> t = <<"'">>
         /\ Rule(t) = "double_quote" <=> t = <<"'", "'">>
         /\ Rule(t) = "ignore" <=> IsSpace(t)
         /\ Rule(t) = "split" <=> IsPossessed(t)
         /\ Rule(t) = "possessive" <=> t = Possessive
         /\ Rule(t) = "default" <=> IsWord(t) /\ ~IsPossessed(t)
         /\ Rule(t) = "catchall" <=> t = <<"?">>
         /\ Rule(t) \in {"single_quote", "double_quote", "ignore", "split", "possessive",
                         "default", "catchall", "none"}
<1>1. IsSpace(t) => t # <<>> /\ t[1] = " " /\ t[Len(t)] = " " /\ Len(t) \in Nat \ {0}
  <2>1. t # <<>> => Len(t) \in Nat \ {0} /\ 1 \in 1..Len(t) /\ Len(t) \in 1..Len(t)
    BY EmptySeq
  <2> QED BY <2>1, SpaceIs
<1>2. IsPossessed(t) => Len(t) > 2 /\ t[Len(t)] = "s"
  BY PossessedIs
<1>3. IsWord(t) => t[1] \in Letters
  <2>1. DOMAIN t = 1..Len(t) /\ Len(t) \in Nat /\ (t # <<>> => 1 \in 1..Len(t))
    BY LenProperties, EmptySeq
  <2>2. IsWord(t) => t # <<>> /\ \A i \in DOMAIN t : t[i] \notin Letters => i > 1
    BY Zenon DEF IsWord
  <2> QED BY <2>1, <2>2
<1>4. /\ t = <<"'">> => Len(t) = 1 /\ t[1] = "'"
      /\ t = <<"?">> => Len(t) = 1 /\ t[1] = "?"
      /\ t = <<"'", "'">> => Len(t) = 2 /\ t[1] = "'" /\ t[2] = "'"
      /\ t = Possessive => Len(t) = 2 /\ t[1] = "'" /\ t[2] = "s"
  BY DEF Possessive
<1>5. Len(t) \in Nat
  BY LenProperties
<1> DEFINE a1 == t = <<"'">>
           a2 == t = <<"'", "'">>
           a3 == IsSpace(t)
           a4 == IsPossessed(t)
           a5 == t = Possessive
           a6 == IsWord(t) /\ ~IsPossessed(t)
           a7 == t = <<"?">>
<1>6. /\ a1 => ~a2 /\ ~a3 /\ ~a4 /\ ~a5 /\ ~a6 /\ ~a7
      /\ a2 => ~a3 /\ ~a4 /\ ~a5 /\ ~a6 /\ ~a7
      /\ a3 => ~a4 /\ ~a5 /\ ~a6 /\ ~a7
      /\ a4 => ~a5 /\ ~a6 /\ ~a7
      /\ a5 => ~a6 /\ ~a7
      /\ a6 => ~a7
  <2>1. "'" \notin Letters /\ " " \notin Letters /\ "?" \notin Letters
    BY DEF Letters
  <2>2. a1 => ~a2 /\ ~a3 /\ ~a4 /\ ~a5 /\ ~a6 /\ ~a7
    <3>1. a1 => ~a2 /\ ~a5
      BY <1>4
    <3>2. a1 => ~a4
      BY <1>2, <1>4, <1>5
    <3>3. a1 => ~a3 /\ ~a6 /\ ~a7
      BY <1>1, <1>3, <1>4, <2>1
    <3> QED BY <3>1, <3>2, <3>3
  <2>3. a2 => ~a3 /\ ~a4 /\ ~a5 /\ ~a6 /\ ~a7
    BY <1>1, <1>2, <1>3, <1>4, <1>5, <2>1
  <2>4. a3 => ~a4 /\ ~a5 /\ ~a6 /\ ~a7
    BY <1>1, <1>2, <1>3, <1>4, <1>5, <2>1
  <2>5. a4 => ~a5 /\ ~a6 /\ ~a7
    <3>1. a4 => ~a5
      BY <1>2, <1>4, <1>5
    <3>2. a4 => ~a7
      BY <1>2, <1>4, <1>5
    <3> QED BY <3>1, <3>2
  <2>6. (a5 => ~a6 /\ ~a7) /\ (a6 => ~a7)
    BY <1>1, <1>2, <1>3, <1>4, <1>5, <2>1
  <2> QED BY <2>2, <2>3, <2>4, <2>5, <2>6
<1>7. Rule(t) = CASE a1 -> "single_quote"
                  [] a2 -> "double_quote"
                  [] a3 -> "ignore"
                  [] a4 -> "split"
                  [] a5 -> "possessive"
                  [] a6 -> "default"
                  [] a7 -> "catchall"
                  [] OTHER -> "none"
  BY DEF Rule
<1> HIDE DEF a1, a2, a3, a4, a5, a6, a7
<1>8. /\ Rule(t) = "single_quote" <=> a1
      /\ Rule(t) = "double_quote" <=> a2
      /\ Rule(t) = "ignore" <=> a3
      /\ Rule(t) = "split" <=> a4
      /\ Rule(t) = "possessive" <=> a5
      /\ Rule(t) = "default" <=> a6
      /\ Rule(t) = "catchall" <=> a7
      /\ Rule(t) \in {"single_quote", "double_quote", "ignore", "split", "possessive",
                      "default", "catchall", "none"}
  BY <1>6, <1>7
<1> QED BY <1>8 DEF a1, a2, a3, a4, a5, a6, a7

(* What matches.                                                           *)
LEMMA MatchesIs ==
  ASSUME NEW t \in Seq(Bytes)
  PROVE  Matches(t) <=> \/ t = <<"'">> \/ t = <<"'", "'">> \/ t = Possessive \/ t = <<"?">>
                        \/ IsSpace(t) \/ IsPossessed(t) \/ IsWord(t)
  BY RuleIs DEF Matches

(* A word, element by element.                                             *)
LEMMA WordIs ==
  ASSUME NEW t \in Seq(Bytes)
  PROVE  IsWord(t) <=>
           /\ Len(t) > 0
           /\ \A i \in 1..Len(t) :
                t[i] \notin Letters =>
                  /\ t[i] = "'" /\ i > 1 /\ i < Len(t)
                  /\ t[i - 1] \in Letters /\ t[i + 1] \in Letters
                  /\ i + 2 <= Len(t) => t[i + 2] # "'"
<1>1. DOMAIN t = 1..Len(t) /\ Len(t) \in Nat
  BY LenProperties
<1>2. t # <<>> <=> Len(t) > 0
  BY EmptySeq, <1>1
<1>3. \A i \in 1..Len(t) : i + 2 \in DOMAIN t <=> i + 2 <= Len(t)
  BY <1>1
<1> DEFINE Fine(i) == /\ t[i] = "'" /\ i > 1 /\ i < Len(t)
                      /\ t[i - 1] \in Letters /\ t[i + 1] \in Letters
<1>4. IsWord(t) <=> t # <<>> /\ \A i \in DOMAIN t :
        t[i] \notin Letters => Fine(i) /\ (i + 2 \in DOMAIN t => t[i + 2] # "'")
  BY Zenon DEF IsWord
<1> HIDE DEF Fine
<1>5. IsWord(t) <=> Len(t) > 0 /\ \A i \in 1..Len(t) :
        t[i] \notin Letters => Fine(i) /\ (i + 2 <= Len(t) => t[i + 2] # "'")
  BY <1>1, <1>2, <1>3, <1>4
<1> QED BY <1>5, Zenon DEF Fine

LEMMA WordBegins ==
  ASSUME NEW t \in Seq(Bytes), IsWord(t)
  PROVE  Len(t) > 0 /\ t[1] \in Letters
<1>1. Len(t) > 0 /\ Len(t) \in Nat /\ 1 \in 1..Len(t)
  BY WordIs, LenProperties
<1> QED BY <1>1, WordIs

(* The front of a text.                                                    *)
LEMMA FrontIs ==
  ASSUME NEW t \in Seq(Bytes), Len(t) > 0
  PROVE  /\ Front(t) \in Seq(Bytes) /\ Len(Front(t)) = Len(t) - 1
         /\ \A i \in 1..(Len(t) - 1) : Front(t)[i] = t[i]
         /\ Front(t) = SubSeq(t, 1, Len(t) - 1)
<1>1. Len(t) - 1 \in 0..Len(t)
  BY LenProperties
<1> QED BY <1>1, Prefix DEF Front

(* What may still match, without Last and Front.                           *)
LEMMA ViableIs ==
  ASSUME NEW t \in Seq(Bytes)
  PROVE  /\ Viable(t) <=> \/ Matches(t)
                          \/ /\ Len(t) > 1 /\ t[Len(t)] = "'"
                             /\ IsWord(SubSeq(t, 1, Len(t) - 1))
         /\ Viable(t) => Len(t) > 0
<1>1. Len(t) \in Nat /\ (t # <<>> <=> Len(t) > 0)
  BY EmptySeq, LenProperties
<1>2. Matches(t) => Len(t) > 0
  <2>1. /\ t = <<"'">> => Len(t) > 0
        /\ t = <<"?">> => Len(t) > 0
        /\ t = <<"'", "'">> => Len(t) > 0
        /\ t = Possessive => Len(t) > 0
    BY DEF Possessive
  <2>2. IsSpace(t) \/ IsWord(t) => Len(t) > 0
    BY <1>1, SpaceIs, WordIs
  <2>3. IsPossessed(t) => Len(t) > 0
    BY <1>1, PossessedIs
  <2> QED BY <2>1, <2>2, <2>3, MatchesIs
<1>3. Len(t) > 0 => (IsWord(Front(t)) => Len(t) > 1)
  <2> SUFFICES ASSUME Len(t) > 0, IsWord(Front(t)) PROVE Len(t) > 1
    OBVIOUS
  <2> QED BY FrontIs, WordIs, <1>1
<1>4. Len(t) > 0 => Front(t) = SubSeq(t, 1, Len(t) - 1)
  BY FrontIs
<1>5. Viable(t) <=> Matches(t) \/ (Len(t) > 0 /\ t[Len(t)] = "'" /\ IsWord(Front(t)))
  BY <1>1 DEF Viable, Last
<1>6. CASE Len(t) > 0
  <2>1. IsWord(Front(t)) <=> IsWord(SubSeq(t, 1, Len(t) - 1))
    BY <1>4, <1>6
  <2>2. IsWord(Front(t)) => Len(t) > 1
    BY <1>3, <1>6
  <2>3. Viable(t) <=> Matches(t) \/ (t[Len(t)] = "'" /\ IsWord(Front(t)))
    BY <1>5, <1>6
  <2> QED BY <2>1, <2>2, <2>3, <1>6, Zenon
<1>7. CASE ~(Len(t) > 0)
  <2>1. ~(Len(t) > 1)
    BY <1>1, <1>7
  <2> QED BY <2>1, <1>2, <1>5, <1>7, Zenon
<1> QED BY <1>6, <1>7, Zenon

(* A text of one byte more.                                                *)
LEMMA OneMore ==
  ASSUME NEW t \in Seq(Bytes), NEW c \in Bytes
  PROVE  /\ Append(t, c) \in Seq(Bytes)
         /\ Len(t) \in Nat /\ Len(Append(t, c)) = Len(t) + 1
         /\ \A i \in 1..Len(t) : Append(t, c)[i] = t[i]
         /\ Append(t, c)[Len(t) + 1] = c
         /\ \A n \in 0..Len(t) : SubSeq(Append(t, c), 1, n) = SubSeq(t, 1, n)
<1>1. /\ Append(t, c) \in Seq(Bytes)
      /\ Len(t) \in Nat /\ Len(Append(t, c)) = Len(t) + 1
      /\ \A i \in 1..Len(t) : Append(t, c)[i] = t[i]
      /\ Append(t, c)[Len(t) + 1] = c
  BY AppendProperties, LenProperties
<1>2. ASSUME NEW n \in 0..Len(t) PROVE SubSeq(Append(t, c), 1, n) = SubSeq(t, 1, n)
  <2> DEFINE u == SubSeq(Append(t, c), 1, n)
             v == SubSeq(t, 1, n)
  <2>1. n \in 0..Len(Append(t, c))
    BY <1>1
  <2>2. u \in Seq(Bytes) /\ Len(u) = n /\ \A i \in 1..n : u[i] = Append(t, c)[i]
    BY <1>1, <2>1, Prefix
  <2>3. v \in Seq(Bytes) /\ Len(v) = n /\ \A i \in 1..n : v[i] = t[i]
    BY Prefix
  <2> HIDE DEF u, v
  <2>4. \A i \in 1..n : u[i] = v[i]
    BY <1>1, <2>2, <2>3
  <2>5. u = v
    BY <2>2, <2>3, <2>4, SeqEqual
  <2> QED BY <2>5 DEF u, v
<1> QED BY <1>1, <1>2

(* A prefix of a prefix.                                                   *)
LEMMA PrefixOfPrefix ==
  ASSUME NEW t \in Seq(Bytes), NEW n \in 0..Len(t), NEW m \in 0..n
  PROVE  SubSeq(SubSeq(t, 1, n), 1, m) = SubSeq(t, 1, m)
<1> DEFINE u == SubSeq(t, 1, n)
           w == SubSeq(u, 1, m)
           v == SubSeq(t, 1, m)
<1>1. u \in Seq(Bytes) /\ Len(u) = n /\ \A i \in 1..n : u[i] = t[i]
  BY Prefix
<1>2. Len(t) \in Nat
  BY LenProperties
<1>3. m \in 0..Len(u) /\ m \in 0..Len(t) /\ m \in Nat /\ n \in Nat
  BY <1>1, <1>2
<1>4. v \in Seq(Bytes) /\ Len(v) = m /\ \A i \in 1..m : v[i] = t[i]
  BY <1>3, Prefix
<1> HIDE DEF u
<1>5. w \in Seq(Bytes) /\ Len(w) = m /\ \A i \in 1..m : w[i] = u[i]
  BY <1>1, <1>3, Prefix
<1> HIDE DEF v, w
<1>6. \A i \in 1..m : w[i] = v[i]
  BY <1>1, <1>3, <1>4, <1>5
<1>7. w = v
  BY <1>4, <1>5, <1>6, SeqEqual
<1> QED BY <1>7 DEF u, v, w

(* A text that is its own prefix.                                          *)
LEMMA WholePrefix ==
  ASSUME NEW t \in Seq(Bytes)
  PROVE  SubSeq(t, 1, Len(t)) = t
  BY SubSeqFull

(* One byte always matches: the scanner is stuck nowhere.                  *)
LEMMA OneByteMatches ==
  ASSUME NEW t \in Seq(Bytes), Len(t) = 1
  PROVE  Matches(t)
<1>0. 1 \in 1..Len(t) /\ (\A i \in 1..Len(t) : i = 1) /\ t # <<>>
  BY EmptySeq
<1>1. t[1] \in Bytes
  BY <1>0, ElementOfSeq
<1>2. t = <<t[1]>>
  BY SeqEqual, <1>1
<1>3. CASE t[1] \in Letters
  <2>1. \A i \in 1..Len(t) : t[i] \in Letters
    BY <1>0, <1>3
  <2>2. IsWord(t)
    BY <1>0, <2>1, WordIs
  <2> QED BY <2>2, MatchesIs
<1>4. CASE t[1] = "'"
  BY <1>2, <1>4, MatchesIs
<1>5. CASE t[1] = "?"
  BY <1>2, <1>5, MatchesIs
<1>6. CASE t[1] = " "
  <2>1. t # <<>> /\ \A i \in 1..Len(t) : t[i] = " "
    BY <1>0, <1>6
  <2>2. IsSpace(t)
    BY <2>1, SpaceIs
  <2> QED BY <2>2, MatchesIs
<1> QED BY <1>1, <1>3, <1>4, <1>5, <1>6 DEF Bytes, Letters

-----------------------------------------------------------------------------
(* The automaton: how what is seen grows. *)

(* What begins something viable is viable.                                 *)
LEMMA ViableFront ==
  ASSUME NEW t \in Seq(Bytes), Len(t) > 1, Viable(t)
  PROVE  Viable(SubSeq(t, 1, Len(t) - 1))
<1> DEFINE n == Len(t) - 1
           u == SubSeq(t, 1, n)
<1>1. Len(t) \in Nat /\ n \in 1..Len(t) /\ n \in 0..Len(t)
  BY LenProperties
<1>2. u \in Seq(Bytes) /\ Len(u) = n /\ \A i \in 1..n : u[i] = t[i]
  BY <1>1, Prefix
<1> HIDE DEF u
<1>3. CASE IsSpace(t)
  <2>1. u # <<>> /\ \A i \in 1..Len(u) : u[i] = " "
    <3>1. \A i \in 1..Len(t) : t[i] = " "
      BY <1>3, SpaceIs
    <3>2. Len(u) # 0
      BY <1>1, <1>2
    <3>3. u # <<>>
      BY <3>2
    <3>4. \A i \in 1..Len(u) : i \in 1..n /\ i \in 1..Len(t)
      BY <1>1, <1>2
    <3> QED BY <1>2, <3>1, <3>3, <3>4
  <2>2. IsSpace(u)
    BY <1>2, <2>1, SpaceIs
  <2> QED BY <1>2, <2>2, MatchesIs, ViableIs DEF u
<1>4. CASE IsWord(t) /\ t[n] \in Letters
  <2>1. ASSUME NEW i \in 1..Len(u), u[i] \notin Letters
        PROVE  /\ u[i] = "'" /\ i > 1 /\ i < Len(u)
               /\ u[i - 1] \in Letters /\ u[i + 1] \in Letters
               /\ i + 2 <= Len(u) => u[i + 2] # "'"
    <3>1. i \in 1..Len(t) /\ t[i] \notin Letters /\ i # n
      BY <1>1, <1>2, <1>4, <2>1
    <3>2. /\ t[i] = "'" /\ i > 1 /\ i < Len(t)
          /\ t[i - 1] \in Letters /\ t[i + 1] \in Letters
          /\ i + 2 <= Len(t) => t[i + 2] # "'"
      BY <1>4, <3>1, WordIs
    <3> QED BY <1>1, <1>2, <3>1, <3>2
  <2>2. IsWord(u)
    BY <1>1, <1>2, <2>1, WordIs
  <2> QED BY <1>2, <2>2, MatchesIs, ViableIs DEF u
<1>5. CASE IsWord(t) /\ t[n] \notin Letters
  <2> DEFINE v == SubSeq(u, 1, n - 1)
  <2>1. t[n] = "'" /\ n > 1 /\ t[n - 1] \in Letters
    BY <1>1, <1>5, WordIs
  <2>2. n - 1 \in 0..Len(u)
    BY <1>1, <1>2
  <2>3. v \in Seq(Bytes) /\ Len(v) = n - 1 /\ \A i \in 1..(n - 1) : v[i] = u[i]
    BY <1>2, <2>2, Prefix
  <2> HIDE DEF v
  <2>4. \A i \in 1..(n - 1) : v[i] = t[i]
    BY <1>1, <1>2, <2>3
  <2>5. ASSUME NEW i \in 1..Len(v), v[i] \notin Letters
        PROVE  /\ v[i] = "'" /\ i > 1 /\ i < Len(v)
               /\ v[i - 1] \in Letters /\ v[i + 1] \in Letters
               /\ i + 2 <= Len(v) => v[i + 2] # "'"
    <3>1. i \in 1..Len(t) /\ t[i] \notin Letters /\ i # n - 1 /\ i \in 1..(n - 1)
      BY <1>1, <2>1, <2>3, <2>4, <2>5
    <3>2. /\ t[i] = "'" /\ i > 1 /\ i < Len(t)
          /\ t[i - 1] \in Letters /\ t[i + 1] \in Letters
          /\ i + 2 <= Len(t) => t[i + 2] # "'"
      BY <1>5, <3>1, WordIs
    <3>3. i \in 1..(n - 1) /\ i - 1 \in 1..(n - 1) /\ i + 1 \in 1..(n - 1) /\ n - 1 = Len(v)
      BY <1>1, <2>3, <3>1, <3>2
    <3>4. v[i] = "'" /\ v[i - 1] \in Letters /\ v[i + 1] \in Letters
      BY <2>4, <3>2, <3>3
    <3>5. i + 2 <= Len(v) => v[i + 2] # "'"
      <4> SUFFICES ASSUME i + 2 <= Len(v) PROVE v[i + 2] # "'"
        OBVIOUS
      <4>1. i + 2 \in 1..(n - 1) /\ i + 2 <= Len(t)
        BY <1>1, <3>3
      <4> QED BY <2>4, <3>2, <4>1
    <3> QED BY <1>1, <3>2, <3>3, <3>4, <3>5
  <2>6. IsWord(v)
    BY <1>1, <2>1, <2>3, <2>5, WordIs
  <2>7. u[n] = "'"
    BY <1>1, <1>2, <2>1
  <2> QED BY <1>2, <2>1, <2>6, <2>7, ViableIs DEF u, v
<1>6. CASE IsPossessed(t)
  <2>1. Len(t) > 2 /\ t[n] = "'" /\ IsWord(SubSeq(t, 1, Len(t) - 2))
    BY <1>6, PossessedIs
  <2>2. n - 1 \in 0..n /\ n \in 0..Len(t) /\ n - 1 = Len(t) - 2
    BY <1>1, <2>1
  <2>3. SubSeq(u, 1, n - 1) = SubSeq(t, 1, n - 1)
    BY <2>2, PrefixOfPrefix DEF u
  <2>4. Len(u) > 1 /\ u[Len(u)] = "'" /\ IsWord(SubSeq(u, 1, Len(u) - 1))
    <3>1. Len(u) > 1 /\ Len(u) - 1 = n - 1 /\ u[Len(u)] = t[n]
      BY <1>1, <1>2, <2>1
    <3> QED BY <2>1, <2>2, <2>3, <3>1
  <2> QED BY <1>2, <2>4, ViableIs DEF u
<1>7. CASE Len(t) = 2
  <2>1. Len(u) = 1
    BY <1>2, <1>7
  <2> QED BY <1>2, <2>1, OneByteMatches DEF Viable, u
<1>8. CASE t[Len(t)] = "'" /\ IsWord(u)
  BY <1>2, <1>8, MatchesIs, ViableIs DEF u
<1>9. /\ t = <<"'", "'">> => Len(t) = 2
      /\ t = Possessive => Len(t) = 2
      /\ t # <<"'">> /\ t # <<"?">>
  BY DEF Possessive
<1> QED BY <1>3, <1>4, <1>5, <1>6, <1>7, <1>8, <1>9, MatchesIs, ViableIs, Zenon DEF u

(* What may match and does not is a word and an apostrophe, and goes on.   *)
LEMMA UnmatchedGoesOn ==
  ASSUME NEW t \in Seq(Bytes), Viable(t), ~Matches(t)
  PROVE  /\ GoesOn(t)
         /\ Len(t) > 1 /\ t[Len(t)] = "'" /\ Matches(SubSeq(t, 1, Len(t) - 1))
<1>1. Len(t) > 1 /\ t[Len(t)] = "'" /\ IsWord(SubSeq(t, 1, Len(t) - 1))
  BY ViableIs
<1> DEFINE u == Append(t, "s")
<1>2. "s" \in Bytes
  BY DEF Bytes
<1>3. /\ u \in Seq(Bytes) /\ Len(t) \in Nat /\ Len(u) = Len(t) + 1
      /\ \A i \in 1..Len(t) : u[i] = t[i]
      /\ u[Len(t) + 1] = "s"
      /\ \A n \in 0..Len(t) : SubSeq(u, 1, n) = SubSeq(t, 1, n)
  BY <1>2, OneMore
<1> HIDE DEF u
<1>4. Len(u) - 2 = Len(t) - 1 /\ Len(t) - 1 \in 0..Len(t) /\ Len(t) \in 1..Len(t)
  BY <1>1, <1>3
<1>5. SubSeq(u, 1, Len(u) - 2) = SubSeq(t, 1, Len(t) - 1)
  BY <1>3, <1>4
<1>6. Len(u) > 2 /\ u[Len(u) - 1] = "'" /\ u[Len(u)] = "s"
  BY <1>1, <1>3, <1>4
<1>7. IsPossessed(u)
  BY <1>1, <1>3, <1>5, <1>6, PossessedIs
<1>8. Viable(u)
  BY <1>3, <1>7, MatchesIs, ViableIs
<1>9. SubSeq(t, 1, Len(t) - 1) \in Seq(Bytes)
  BY <1>4, Prefix
<1> QED BY <1>1, <1>2, <1>8, <1>9, MatchesIs DEF GoesOn, u

(* A single quote may become a double one.                                 *)
LEMMA QuoteGoesOn == GoesOn(<<"'">>)
<1>3. "'" \in Bytes
  BY DEF Bytes
<1>1. Append(<<"'">>, "'") = <<"'", "'">>
  <2> DEFINE q == <<"'">>
             d == <<"'", "'">>
             u == Append(q, "'")
  <2>1. q \in Seq(Bytes) /\ Len(q) = 1 /\ q[1] = "'"
    BY <1>3
  <2>2. d \in Seq(Bytes) /\ Len(d) = 2 /\ d[1] = "'" /\ d[2] = "'"
    BY <1>3
  <2> HIDE DEF q
  <2>3. u \in Seq(Bytes) /\ Len(u) = 2 /\ u[1] = "'" /\ u[2] = "'"
    BY <1>3, <2>1, OneMore
  <2> HIDE DEF d, u
  <2>4. \A i \in 1..2 : u[i] = d[i]
    BY <2>2, <2>3
  <2>5. u = d
    BY <2>2, <2>3, <2>4, SeqEqual
  <2> QED BY <2>5 DEF u, d, q
<1>2. Viable(<<"'", "'">>)
  BY SmallTexts, MatchesIs, ViableIs
<1> QED BY <1>1, <1>2, <1>3 DEF GoesOn

(* A prefix and its next byte.                                             *)
LEMMA PrefixGrows ==
  ASSUME NEW t \in Seq(Bytes), NEW m \in 0..(Len(t) - 1)
  PROVE  /\ t[m + 1] \in Bytes
         /\ SubSeq(t, 1, m + 1) = Append(SubSeq(t, 1, m), t[m + 1])
<1> DEFINE u == SubSeq(t, 1, m + 1)
           v == SubSeq(t, 1, m)
           w == Append(v, t[m + 1])
<1>1. Len(t) \in Nat /\ m + 1 \in 1..Len(t) /\ m + 1 \in 0..Len(t) /\ m \in 0..Len(t)
  BY LenProperties
<1>2. t[m + 1] \in Bytes
  BY <1>1, ElementOfSeq
<1>3. u \in Seq(Bytes) /\ Len(u) = m + 1 /\ \A i \in 1..(m + 1) : u[i] = t[i]
  BY <1>1, Prefix
<1>4. v \in Seq(Bytes) /\ Len(v) = m /\ \A i \in 1..m : v[i] = t[i]
  BY <1>1, Prefix
<1> HIDE DEF u, v
<1>5. /\ w \in Seq(Bytes) /\ Len(w) = m + 1
      /\ \A i \in 1..m : w[i] = v[i]
      /\ w[m + 1] = t[m + 1]
  BY <1>2, <1>4, OneMore
<1> HIDE DEF w
<1>6. \A i \in 1..(m + 1) : u[i] = w[i]
  BY <1>1, <1>3, <1>4, <1>5
<1>7. u = w
  BY <1>3, <1>5, <1>6, SeqEqual
<1> QED BY <1>2, <1>7 DEF u, v, w

(* Every prefix of something viable is viable, and the shorter ones go on. *)
LEMMA PrefixesGoOn ==
  ASSUME NEW t \in Seq(Bytes), NEW n \in 1..Len(t), Viable(SubSeq(t, 1, n))
  PROVE  /\ \A m \in 1..n : Viable(SubSeq(t, 1, m))
         /\ \A m \in 1..(n - 1) : GoesOn(SubSeq(t, 1, m))
<1>1. Len(t) \in Nat /\ n \in Nat /\ n <= Len(t)
  BY LenProperties
<1>2. \A m \in 1..n : Viable(SubSeq(t, 1, m))
  <2> DEFINE T == {d \in Nat : d < n /\ ~Viable(SubSeq(t, 1, n - d))}
  <2>1. T = {}
    <3> SUFFICES ASSUME T # {} PROVE FALSE
      OBVIOUS
    <3>1. T \subseteq Nat
      OBVIOUS
    <3> HIDE DEF T
    <3>2. PICK d \in T : \A e \in T : d <= e
      BY <3>1, Least
    <3> USE DEF T
    <3>3. d \in Nat /\ d < n /\ d # 0
      OBVIOUS
    <3>4. d - 1 \in Nat /\ d - 1 < n /\ d - 1 \notin T
      BY <3>2, <3>3
    <3>5. Viable(SubSeq(t, 1, n - (d - 1)))
      BY <3>4
    <3>6. n - (d - 1) \in 0..Len(t) /\ n - (d - 1) > 1
      BY <1>1, <3>3
    <3> DEFINE u == SubSeq(t, 1, n - (d - 1))
    <3>7. u \in Seq(Bytes) /\ Len(u) = n - (d - 1)
      BY <3>6, Prefix
    <3>8. Viable(SubSeq(u, 1, Len(u) - 1))
      BY <3>5, <3>6, <3>7, ViableFront
    <3>9. Len(u) - 1 = n - d /\ n - d \in 0..(n - (d - 1))
      BY <1>1, <3>3, <3>7
    <3>10. SubSeq(u, 1, n - d) = SubSeq(t, 1, n - d)
      BY <3>6, <3>9, PrefixOfPrefix
    <3> QED BY <3>8, <3>9, <3>10
  <2>2. ASSUME NEW m \in 1..n PROVE Viable(SubSeq(t, 1, m))
    <3>1. n - m \in Nat /\ n - m < n /\ n - (n - m) = m
      BY <1>1
    <3>2. n - m \notin T
      BY <2>1
    <3> QED BY <3>1, <3>2
  <2> QED BY <2>2
<1>3. ASSUME NEW m \in 1..(n - 1) PROVE GoesOn(SubSeq(t, 1, m))
  <2>1. m \in 0..(Len(t) - 1) /\ m + 1 \in 1..n
    BY <1>1
  <2>2. t[m + 1] \in Bytes /\ Viable(Append(SubSeq(t, 1, m), t[m + 1]))
    BY <1>2, <2>1, PrefixGrows
  <2> QED BY <2>2 DEF GoesOn
<1> QED BY <1>2, <1>3

-----------------------------------------------------------------------------
(* The longest match, and the possessives on the way to it. *)

(* The first n bytes of t are its longest match.                           *)
IsLongest(n, t) ==
  /\ n \in 1..Len(t)
  /\ Matches(SubSeq(t, 1, n))
  /\ \A m \in 1..Len(t) : Matches(SubSeq(t, 1, m)) => m <= n

LEMMA LongestExists ==
  ASSUME NEW t \in Seq(Bytes), Len(t) > 0
  PROVE  IsLongest(Longest(t), t)
<1> DEFINE T == {d \in Nat : d < Len(t) /\ Matches(SubSeq(t, 1, Len(t) - d))}
<1>1. Len(t) \in Nat /\ 1 \in 0..Len(t)
  BY LenProperties
<1>2. Matches(SubSeq(t, 1, 1))
  BY <1>1, Prefix, OneByteMatches
<1>3. Len(t) - 1 \in T
  <2>1. Len(t) - 1 \in Nat /\ Len(t) - 1 < Len(t) /\ Len(t) - (Len(t) - 1) = 1
    BY <1>1
  <2> QED BY <1>2, <2>1
<1>4. T \subseteq Nat
  OBVIOUS
<1> HIDE DEF T
<1>5. PICK d \in T : \A e \in T : d <= e
  BY <1>3, <1>4, Least
<1> DEFINE n == Len(t) - d
<1>6. n \in 1..Len(t) /\ Matches(SubSeq(t, 1, n))
  BY <1>1, <1>5 DEF T
<1>7. ASSUME NEW m \in 1..Len(t), Matches(SubSeq(t, 1, m)) PROVE m <= n
  <2>1. Len(t) - m \in Nat /\ Len(t) - m < Len(t) /\ Len(t) - (Len(t) - m) = m
    BY <1>1
  <2>2. Len(t) - m \in T
    BY <1>7, <2>1 DEF T
  <2>3. d <= Len(t) - m /\ d \in Nat
    BY <1>4, <1>5, <2>2
  <2> QED BY <1>1, <2>1, <2>3
<1> HIDE DEF n
<1>8. \E k \in 1..Len(t) : /\ Matches(SubSeq(t, 1, k))
                           /\ \A m \in 1..Len(t) : Matches(SubSeq(t, 1, m)) => m <= k
  BY <1>6, <1>7
<1> QED BY <1>8 DEF Longest, IsLongest

LEMMA LongestIs ==
  ASSUME NEW t \in Seq(Bytes), NEW n, IsLongest(n, t)
  PROVE  Longest(t) = n
<1>1. Len(t) \in Nat /\ Len(t) > 0 /\ n \in 1..Len(t)
  BY LenProperties DEF IsLongest
<1>2. IsLongest(Longest(t), t)
  BY <1>1, LongestExists
<1>3. n <= Longest(t) /\ Longest(t) <= n /\ Longest(t) \in 1..Len(t)
  BY <1>1, <1>2 DEF IsLongest
<1> QED BY <1>1, <1>3

(* A match that nothing prolongs is the longest.                           *)
LEMMA LongestWhenStuck ==
  ASSUME NEW t \in Seq(Bytes), NEW n \in 1..Len(t),
         Viable(SubSeq(t, 1, n)), ~GoesOn(SubSeq(t, 1, n))
  PROVE  IsLongest(n, t)
<1>1. n \in 0..Len(t) /\ Len(t) \in Nat
  BY LenProperties
<1>2. Matches(SubSeq(t, 1, n))
  BY <1>1, Prefix, UnmatchedGoesOn
<1>3. ASSUME NEW m \in 1..Len(t), Matches(SubSeq(t, 1, m)), ~(m <= n) PROVE FALSE
  <2>1. Viable(SubSeq(t, 1, m)) /\ n \in 1..(m - 1)
    BY <1>1, <1>3 DEF Viable
  <2> QED BY <2>1, PrefixesGoOn
<1> QED BY <1>2, <1>3 DEF IsLongest

(* When the next byte makes it stuck, or there is none, the longest of the *)
(* matches seen is the longest.                                            *)
LEMMA LongestOfSeen ==
  ASSUME NEW t \in Seq(Bytes), NEW c \in 1..Len(t), NEW n \in 1..c,
         Matches(SubSeq(t, 1, n)),
         \A m \in 1..c : Matches(SubSeq(t, 1, m)) => m <= n,
         c < Len(t) => ~Viable(SubSeq(t, 1, c + 1))
  PROVE  IsLongest(n, t)
<1>1. Len(t) \in Nat /\ n \in 1..Len(t)
  BY LenProperties
<1>2. ASSUME NEW m \in 1..Len(t), Matches(SubSeq(t, 1, m)), m > c PROVE FALSE
  <2>1. Viable(SubSeq(t, 1, m)) /\ c + 1 \in 1..m /\ c < Len(t)
    BY <1>1, <1>2 DEF Viable
  <2> QED BY <2>1, PrefixesGoOn
<1>3. ASSUME NEW m \in 1..Len(t), Matches(SubSeq(t, 1, m)) PROVE m <= n
  <2>1. m \in 1..c
    BY <1>1, <1>2, <1>3
  <2> QED BY <1>3, <2>1
<1> QED BY <1>1, <1>3 DEF IsLongest

LEMMA CountsIs ==
  ASSUME NEW t \in Seq(Bytes)
  PROVE  /\ Counts(t) \in {0, 2}
         /\ Counts(t) # 0 <=> IsPossessed(t) \/ t = Possessive
         /\ Counts(t) # 0 => Matches(t) /\ Len(t) > 1 /\ t[Len(t)] = "s"
<1>1. Counts(t) \in {0, 2} /\ (Counts(t) # 0 <=> IsPossessed(t) \/ t = Possessive)
  BY DEF Counts
<1>2. t = Possessive => Len(t) > 1 /\ t[Len(t)] = "s"
  BY DEF Possessive
<1>3. IsPossessed(t) => Len(t) > 1 /\ t[Len(t)] = "s"
  BY PossessedIs, LenProperties
<1> QED BY <1>1, <1>2, <1>3, MatchesIs

(* How many bytes the possessives in t have.                               *)
Split(t) == 2 * Cardinality(Possessives(t))

LEMMA PossessivesFinite ==
  ASSUME NEW t \in Seq(Bytes)
  PROVE  /\ IsFiniteSet(Possessives(t)) /\ Cardinality(Possessives(t)) \in Nat
         /\ Split(t) \in Nat
         /\ \A n : n \in Possessives(t) <=> n \in 1..Len(t) /\ Counts(SubSeq(t, 1, n)) # 0
<1>1. Len(t) \in Nat /\ 1 \in Int
  BY LenProperties
<1>2. IsFiniteSet(1..Len(t))
  BY <1>1, FS_Interval
<1>3. Possessives(t) \subseteq 1..Len(t)
  BY DEF Possessives
<1>4. IsFiniteSet(Possessives(t)) /\ Cardinality(Possessives(t)) \in Nat
  BY <1>2, <1>3, FS_Subset, FS_CardinalityType
<1> QED BY <1>4 DEF Possessives, Split

(* The next byte may complete another one.                                 *)
LEMMA PossessivesGrow ==
  ASSUME NEW t \in Seq(Bytes), NEW c \in Bytes
  PROVE  Split(Append(t, c)) = Split(t) + Counts(Append(t, c))
<1> DEFINE u == Append(t, c)
           k == Len(t) + 1
<1>1. /\ u \in Seq(Bytes) /\ Len(t) \in Nat /\ Len(u) = k
      /\ \A n \in 0..Len(t) : SubSeq(u, 1, n) = SubSeq(t, 1, n)
  BY OneMore
<1>2. SubSeq(u, 1, k) = u
  BY <1>1, WholePrefix
<1> HIDE DEF u
<1>3. k \notin Possessives(t)
  BY <1>1, PossessivesFinite
<1>4. ASSUME NEW n PROVE n \in Possessives(u) <=> n \in Possessives(t) \/ (n = k /\ Counts(u) # 0)
  <2>1. n \in 1..Len(u) <=> n \in 1..Len(t) \/ n = k
    BY <1>1
  <2>2. n \in 1..Len(t) => SubSeq(u, 1, n) = SubSeq(t, 1, n)
    BY <1>1
  <2>3. n \in Possessives(u) <=> n \in 1..Len(u) /\ Counts(SubSeq(u, 1, n)) # 0
    BY <1>1, PossessivesFinite
  <2>4. n \in Possessives(t) <=> n \in 1..Len(t) /\ Counts(SubSeq(t, 1, n)) # 0
    BY PossessivesFinite
  <2>5. n = k => SubSeq(u, 1, n) = u /\ n \notin 1..Len(t)
    BY <1>1, <1>2
  <2> QED BY <2>1, <2>2, <2>3, <2>4, <2>5
<1>5. CASE Counts(u) = 0
  <2>1. Possessives(u) = Possessives(t)
    BY <1>4, <1>5
  <2> QED BY <2>1, <1>5, PossessivesFinite DEF Split, u
<1>6. CASE Counts(u) # 0
  <2>1. Possessives(u) = Possessives(t) \cup {k}
    BY <1>4, <1>6
  <2>2. Cardinality(Possessives(u)) = Cardinality(Possessives(t)) + 1
    BY <1>3, <2>1, PossessivesFinite, FS_AddElement
  <2>3. Counts(u) = 2
    BY <1>1, <1>6, CountsIs
  <2> QED BY <2>2, <2>3, PossessivesFinite DEF Split, u
<1> QED BY <1>5, <1>6

LEMMA NothingToSplit == Split(<<>>) = 0
<1>1. Possessives(<<>>) = {}
  BY DEF Possessives
<1> QED BY <1>1, FS_EmptySet DEF Split

(* What follows the last match has no possessive.                          *)
LEMMA PossessivesOfMatch ==
  ASSUME NEW t \in Seq(Bytes), NEW n \in 0..Len(t),
         \A m \in 1..Len(t) : Matches(SubSeq(t, 1, m)) => m <= n
  PROVE  Split(t) = Split(SubSeq(t, 1, n))
<1> DEFINE u == SubSeq(t, 1, n)
<1>1. u \in Seq(Bytes) /\ Len(u) = n /\ Len(t) \in Nat /\ n \in Nat
  BY Prefix, LenProperties
<1>2. \A m \in 1..n : SubSeq(u, 1, m) = SubSeq(t, 1, m)
  BY <1>1, PrefixOfPrefix
<1> HIDE DEF u
<1>3. ASSUME NEW m PROVE m \in Possessives(t) <=> m \in Possessives(u)
  <2>1. m \in 1..Len(t) /\ Counts(SubSeq(t, 1, m)) # 0 => m <= n
    <3> SUFFICES ASSUME m \in 1..Len(t), Counts(SubSeq(t, 1, m)) # 0 PROVE m <= n
      OBVIOUS
    <3>1. m \in 0..Len(t)
      BY <1>1
    <3> QED BY <3>1, Prefix, CountsIs
  <2>2. m \in 1..n <=> m \in 1..Len(t) /\ m <= n
    BY <1>1
  <2> QED BY <1>1, <1>2, <2>1, <2>2, PossessivesFinite
<1>4. Possessives(t) = Possessives(u)
  BY <1>3
<1> QED BY <1>4 DEF Split, u

(* Neither spaces nor the byte of the catch-all rule have one.             *)
LEMMA PlainHasNone ==
  ASSUME NEW t \in Seq(Bytes), IsSpace(t) \/ t = <<"?">>
  PROVE  Split(t) = 0
<1>1. \A i \in 1..Len(t) : t[i] # "s"
  <2>1. IsSpace(t) => \A i \in 1..Len(t) : t[i] = " "
    BY SpaceIs
  <2>2. t = <<"?">> => \A i \in 1..Len(t) : t[i] = "?"
    OBVIOUS
  <2> QED BY <2>1, <2>2
<1>2. ASSUME NEW n \in Possessives(t) PROVE FALSE
  <2>1. n \in 1..Len(t) /\ n \in 0..Len(t) /\ Counts(SubSeq(t, 1, n)) # 0
    BY PossessivesFinite, LenProperties
  <2> DEFINE u == SubSeq(t, 1, n)
  <2>2. u \in Seq(Bytes) /\ Len(u) = n /\ u[n] = t[n]
    BY <2>1, Prefix
  <2>3. u[Len(u)] = "s"
    BY <2>1, <2>2, CountsIs
  <2> QED BY <1>1, <2>1, <2>2, <2>3
<1>3. Possessives(t) = {}
  BY <1>2
<1> QED BY <1>3, FS_EmptySet DEF Split

-----------------------------------------------------------------------------
(* What is split off is less than the match. *)

(* In front of the possessives of t there is a byte, and another one in    *)
(* front of an apostrophe that may begin the next.                         *)
Room(t) ==
  t # Possessive /\ Len(t) > 0 =>
    /\ Split(t) <= Len(t) - 1
    /\ Len(t) > 1 /\ t[Len(t)] = "'" => Split(t) <= Len(t) - 2

LEMMA RoomGrows ==
  ASSUME NEW t \in Seq(Bytes), NEW c \in Bytes, Viable(Append(t, c)), Room(t)
  PROVE  Room(Append(t, c))
<1> DEFINE u == Append(t, c)
<1>1. /\ u \in Seq(Bytes) /\ Len(t) \in Nat /\ Len(u) = Len(t) + 1
      /\ \A i \in 1..Len(t) : u[i] = t[i]
      /\ Viable(u)
  BY OneMore
<1>2. Split(u) = Split(t) + Counts(u) /\ Split(t) \in Nat /\ Split(u) \in Nat
  BY <1>1, PossessivesGrow, PossessivesFinite
<1> HIDE DEF u
<1>3. t # Possessive
  <2> SUFFICES ASSUME t = Possessive PROVE FALSE
    OBVIOUS
  <2>1. Len(t) = 2 /\ t[1] = "'"
    BY DEF Possessive
  <2>2. Len(u) = 3 /\ u[1] = "'"
    BY <1>1, <2>1
  <2>3. ASSUME NEW n \in 1..3 PROVE ~IsWord(SubSeq(u, 1, n))
    <3>1. n \in 0..Len(u) /\ 1 \in 1..n
      BY <2>2
    <3>2. /\ SubSeq(u, 1, n) \in Seq(Bytes) /\ Len(SubSeq(u, 1, n)) = n
          /\ SubSeq(u, 1, n)[1] = "'"
      BY <1>1, <2>2, <3>1, Prefix
    <3> DEFINE v == SubSeq(u, 1, n)
    <3>3. "'" \notin Letters /\ v \in Seq(Bytes) /\ v[1] = "'"
      BY <3>2 DEF Letters
    <3> HIDE DEF v
    <3>4. ~IsWord(v)
      BY <3>3, WordBegins
    <3> QED BY <3>4 DEF v
  <2>4. ~IsWord(u) /\ ~IsWord(SubSeq(u, 1, Len(u) - 1)) /\ ~IsWord(SubSeq(u, 1, Len(u) - 2))
    <3>1. SubSeq(u, 1, 3) = u
      BY <1>1, <2>2, WholePrefix
    <3>2. ~IsWord(SubSeq(u, 1, 3)) /\ ~IsWord(SubSeq(u, 1, 2)) /\ ~IsWord(SubSeq(u, 1, 1))
      BY <2>3
    <3>3. Len(u) - 1 = 2 /\ Len(u) - 2 = 1
      BY <2>2
    <3> QED BY <3>1, <3>2, <3>3
  <2>5. ~IsSpace(u)
    <3>1. 1 \in 1..Len(u) /\ u[1] # " "
      BY <2>2
    <3> QED BY <1>1, <3>1, SpaceIs
  <2>6. u # <<"'">> /\ u # <<"?">> /\ u # <<"'", "'">> /\ u # Possessive
    BY <2>2 DEF Possessive
  <2> QED BY <1>1, <2>4, <2>5, <2>6, MatchesIs, ViableIs, PossessedIs
<1>4. CASE Len(t) = 0
  <2>1. t = <<>> /\ Len(u) = 1
    BY <1>1, <1>4, EmptySeq
  <2>2. Counts(u) = 0
    BY <1>1, <2>1, CountsIs
  <2>3. Split(u) = 0
    BY <1>2, <2>1, <2>2, NothingToSplit
  <2> QED BY <2>1, <2>3 DEF Room, u
<1>5. CASE Len(t) > 0 /\ Counts(u) = 0
  <2>1. Split(t) <= Len(t) - 1
    BY <1>3, <1>5 DEF Room
  <2>2. Split(u) <= Len(u) - 2
    BY <1>1, <1>2, <1>5, <2>1
  <2> QED BY <1>1, <1>2, <2>2 DEF Room, u
<1>6. CASE Len(t) > 0 /\ Counts(u) # 0 /\ u # Possessive
  <2>1. IsPossessed(u) /\ Counts(u) = 2
    BY <1>1, <1>6, CountsIs
  <2>2. Len(u) > 2 /\ u[Len(u) - 1] = "'" /\ u[Len(u)] = "s"
    BY <1>1, <2>1, PossessedIs
  <2>3. Len(t) > 1 /\ t[Len(t)] = "'"
    BY <1>1, <2>2
  <2>4. Split(t) <= Len(t) - 2
    BY <1>3, <2>3 DEF Room
  <2>5. Split(u) <= Len(u) - 1
    BY <1>1, <1>2, <2>1, <2>4
  <2> QED BY <2>2, <2>5 DEF Room, u
<1>7. CASE u = Possessive
  BY <1>7 DEF Room, u
<1> QED BY <1>1, <1>4, <1>5, <1>6, <1>7

-----------------------------------------------------------------------------
(* The text as one piece. *)

Rest(b) == SubSeq(text, b + 1, Len(text))

(* Where the match that begins at byte b ends.                             *)
End(b) == b + Longest(Rest(b))

LEMMA RestIs ==
  ASSUME text \in Seq(Bytes), NEW b \in 0..Len(text)
  PROVE  /\ Rest(b) \in Seq(Bytes) /\ Len(Rest(b)) = Len(text) - b
         /\ \A i \in 1..(Len(text) - b) : Rest(b)[i] = text[b + i]
         /\ b < Len(text) => IsLongest(Longest(Rest(b)), Rest(b)) /\ End(b) \in (b + 1)..Len(text)
<1>1. Len(text) \in Nat /\ b \in Nat /\ Len(text) \in b..Len(text)
  BY LenProperties
<1>2. /\ Rest(b) \in Seq(Bytes) /\ Len(Rest(b)) = Len(text) - b
      /\ \A i \in 1..(Len(text) - b) : Rest(b)[i] = text[b + i]
  BY <1>1, Piece DEF Rest
<1>3. ASSUME b < Len(text)
      PROVE  IsLongest(Longest(Rest(b)), Rest(b)) /\ End(b) \in (b + 1)..Len(text)
  <2>1. IsLongest(Longest(Rest(b)), Rest(b))
    BY <1>1, <1>2, <1>3, LongestExists
  <2>2. Longest(Rest(b)) \in 1..(Len(text) - b)
    BY <1>2, <2>1 DEF IsLongest
  <2> QED BY <1>1, <2>1, <2>2 DEF End
<1> QED BY <1>2, <1>3

(* f holds the matches from each byte on, as from does in Whole.           *)
Scans(f, low) ==
  f = [b \in low..Len(text) |->
         IF b = Len(text) THEN <<>> ELSE << <<b, End(b)>> >> \o f[End(b)]]

LEMMA ScansExists ==
  ASSUME text \in Seq(Bytes)
  PROVE  \E f : Scans(f, 0)
<1> DEFINE L == Len(text)
           T == {n \in Nat : n <= L => \E f : Scans(f, L - n)}
<1>1. L \in Nat
  BY LenProperties
<1> HIDE DEF L
<1>2. 0 \in T
  <2> DEFINE g == [b \in L..L |-> <<>>]
  <2>1. g = [b \in L..L |-> IF b = L THEN <<>> ELSE << <<b, End(b)>> >> \o g[End(b)]]
    BY <1>1
  <2>2. Scans(g, L - 0)
    BY <1>1, <2>1 DEF Scans, L
  <2> QED BY <2>2
<1>3. ASSUME NEW n \in Nat, n \in T PROVE n + 1 \in T
  <2> SUFFICES ASSUME n + 1 <= L PROVE \E f : Scans(f, L - (n + 1))
    OBVIOUS
  <2>1. PICK f : Scans(f, L - n)
    BY <1>1, <1>3
  <2> DEFINE low == L - (n + 1)
             g == [b \in low..L |-> IF b = low THEN << <<b, End(b)>> >> \o f[End(b)] ELSE f[b]]
  <2>2. low \in Nat /\ low < L /\ L - n = low + 1
    BY <1>1
  <2>3. ASSUME NEW b \in low..L
        PROVE  g[b] = IF b = L THEN <<>> ELSE << <<b, End(b)>> >> \o g[End(b)]
    <3>1. b < L => End(b) \in (b + 1)..L
      BY <1>1, <2>2, RestIs DEF L
    <3>2. b < L => End(b) \in low..L /\ End(b) # low /\ g[End(b)] = f[End(b)]
      BY <2>2, <3>1
    <3>3. CASE b = low
      BY <2>2, <3>2, <3>3
    <3>4. CASE b # low
      <4>1. b \in (L - n)..L /\ g[b] = f[b]
        BY <2>2, <3>4
      <4>2. f[b] = IF b = L THEN <<>> ELSE << <<b, End(b)>> >> \o f[End(b)]
        BY <2>1, <4>1 DEF Scans, L
      <4>3. b = L \/ b < L
        BY <1>1, <2>2
      <4> QED BY <3>2, <4>1, <4>2, <4>3
    <3> QED BY <3>3, <3>4
  <2>4. g = [b \in low..L |-> g[b]]
    OBVIOUS
  <2> HIDE DEF g
  <2>5. [b \in low..L |-> g[b]]
          = [b \in low..L |-> IF b = L THEN <<>> ELSE << <<b, End(b)>> >> \o g[End(b)]]
    BY <2>3
  <2>6. Scans(g, low)
    BY <2>4, <2>5, Zenon DEF Scans, L
  <2> QED BY <2>6
<1> HIDE DEF T
<1>4. L \in T
  BY <1>1, <1>2, <1>3, InductionOnNat
<1>5. L - L = 0 /\ L <= L
  BY <1>1
<1> QED BY <1>4, <1>5 DEF T

LEMMA WholeIs ==
  ASSUME text \in Seq(Bytes)
  PROVE  \E f : Scans(f, 0) /\ Whole = f[0]
<1> DEFINE f == CHOOSE f : Scans(f, 0)
<1>1. Scans(f, 0)
  BY ScansExists
<1>2. Whole = f[0]
  BY DEF Whole, Scans, End, Rest
<1> QED BY <1>1, <1>2

(* The matches s follow each other from byte b to the end of the text.     *)
Chain(s, b) ==
  /\ s \in Seq(Nat \X Nat)
  /\ IF s = <<>> THEN b = Len(text) ELSE s[1][1] = b
  /\ \A i \in 1..Len(s) : s[i][1] < Len(text) /\ s[i][2] = End(s[i][1])
  /\ \A i \in 1..Len(s) : s[i][2] = IF i < Len(s) THEN s[i + 1][1] ELSE Len(text)

LEMMA ChainLonger ==
  ASSUME text \in Seq(Bytes), NEW b \in 0..Len(text), b < Len(text),
         NEW s, Chain(s, End(b))
  PROVE  Chain(<< <<b, End(b)>> >> \o s, b)
<1> DEFINE m == <<b, End(b)>>
           h == << m >>
           u == h \o s
<1>1. Len(text) \in Nat /\ b \in Nat /\ End(b) \in Nat /\ End(b) \in (b + 1)..Len(text)
  BY RestIs, LenProperties
<1>2. m \in Nat \X Nat /\ m[1] = b /\ m[2] = End(b)
  BY <1>1
<1> HIDE DEF m
<1>3. h \in Seq(Nat \X Nat) /\ Len(h) = 1 /\ h[1] = m
  BY <1>2
<1> HIDE DEF h
<1>4. s \in Seq(Nat \X Nat) /\ Len(s) \in Nat
  BY LenProperties DEF Chain
<1>5. /\ u \in Seq(Nat \X Nat) /\ Len(u) = Len(s) + 1
      /\ \A i \in 1..(1 + Len(s)) : u[i] = IF i <= 1 THEN h[i] ELSE s[i - 1]
  <2>1. /\ u \in Seq(Nat \X Nat) /\ Len(u) = Len(h) + Len(s)
        /\ \A i \in 1..(Len(h) + Len(s)) : u[i] = IF i <= Len(h) THEN h[i] ELSE s[i - Len(h)]
    BY <1>3, <1>4, ConcatProperties
  <2> QED BY <1>3, <1>4, <2>1
<1> HIDE DEF u
<1>6. u[1] = m /\ \A i \in 1..Len(s) : u[i + 1] = s[i]
  <2>1. 1 \in 1..(1 + Len(s))
    BY <1>4
  <2>2. ASSUME NEW i \in 1..Len(s) PROVE u[i + 1] = s[i]
    <3>1. i + 1 \in 1..(1 + Len(s)) /\ ~(i + 1 <= 1) /\ (i + 1) - 1 = i
      BY <1>4
    <3> QED BY <1>5, <3>1
  <2> QED BY <1>3, <1>5, <2>1, <2>2
<1>55. Len(u) = Len(s) + 1 /\ Len(u) \in Nat
  BY <1>4, <1>5
<1>7. u # <<>>
  BY <1>4, <1>55, EmptySeq
<1>8. ASSUME NEW i \in 1..Len(u)
      PROVE  /\ u[i][1] < Len(text) /\ u[i][2] = End(u[i][1])
             /\ u[i][2] = IF i < Len(u) THEN u[i + 1][1] ELSE Len(text)
  <2>1. CASE i = 1
    <3>1. u[i][1] < Len(text) /\ u[i][2] = End(u[i][1])
      BY <1>2, <1>6, <2>1
    <3>2. CASE s = <<>>
      <4>1. End(b) = Len(text) /\ Len(u) = 1
        BY <1>4, <1>55, <3>2, EmptySeq DEF Chain
      <4> QED BY <1>2, <1>6, <2>1, <3>1, <4>1
    <3>3. CASE s # <<>>
      <4>1. Len(s) > 0 /\ s[1][1] = End(b)
        BY <1>4, <3>3, EmptySeq DEF Chain
      <4>2. 1 \in 1..Len(s) /\ 1 < Len(u)
        BY <1>4, <1>55, <4>1
      <4>3. u[1 + 1] = s[1]
        BY <1>6, <4>2
      <4> QED BY <1>2, <1>6, <2>1, <3>1, <4>1, <4>2, <4>3
    <3> QED BY <3>2, <3>3
  <2>2. CASE i # 1
    <3> DEFINE j == i - 1
    <3>1. j \in 1..Len(s) /\ i = j + 1
      BY <1>4, <1>55, <2>2
    <3>2. u[i] = s[j]
      BY <1>6, <3>1
    <3>3. s[j][1] < Len(text) /\ s[j][2] = End(s[j][1])
      BY <3>1 DEF Chain
    <3>4. s[j][2] = IF j < Len(s) THEN s[j + 1][1] ELSE Len(text)
      BY <3>1 DEF Chain
    <3>5. i < Len(u) <=> j < Len(s)
      BY <1>4, <1>55, <3>1
    <3>6. j < Len(s) => u[i + 1] = s[j + 1]
      <4> SUFFICES ASSUME j < Len(s) PROVE u[i + 1] = s[j + 1]
        OBVIOUS
      <4>1. j + 1 \in 1..Len(s) /\ i + 1 = (j + 1) + 1
        BY <1>4, <3>1
      <4> QED BY <1>6, <4>1
    <3> QED BY <3>2, <3>3, <3>4, <3>5, <3>6
  <2> QED BY <2>1, <2>2
<1>9. u[1][1] = b
  BY <1>2, <1>6
<1>10. Chain(u, b)
  BY <1>5, <1>7, <1>8, <1>9 DEF Chain
<1> QED BY <1>10 DEF u, h, m

LEMMA WholeChains ==
  ASSUME text \in Seq(Bytes)
  PROVE  Chain(Whole, 0)
<1> DEFINE L == Len(text)
<1>1. L \in Nat
  BY LenProperties
<1>2. PICK f : Scans(f, 0) /\ Whole = f[0]
  BY WholeIs
<1> DEFINE T == {n \in Nat : \A b \in 0..L : L - b <= n => Chain(f[b], b)}
<1> HIDE DEF L
<1>3. ASSUME NEW b \in 0..L
      PROVE  f[b] = IF b = L THEN <<>> ELSE << <<b, End(b)>> >> \o f[End(b)]
  BY <1>2 DEF Scans, L
<1>4. Chain(f[L], L)
  <2>1. L \in 0..L
    BY <1>1
  <2>2. f[L] = <<>>
    BY <1>3, <2>1
  <2>3. Chain(<<>>, L)
    <3>1. <<>> \in Seq(Nat \X Nat) /\ Len(<<>>) = 0
      BY EmptySeq
    <3> QED BY <3>1 DEF Chain, L
  <2> QED BY <2>2, <2>3
<1>5. 0 \in T
  <2>1. \A b \in 0..L : L - b <= 0 => b = L
    BY <1>1
  <2> QED BY <1>4, <2>1
<1>6. ASSUME NEW n \in Nat, n \in T PROVE n + 1 \in T
  <2> SUFFICES ASSUME NEW b \in 0..L, L - b <= n + 1 PROVE Chain(f[b], b)
    OBVIOUS
  <2>1. CASE b = L
    BY <1>4, <2>1
  <2>2. CASE b # L
    <3>1. b < L /\ End(b) \in (b + 1)..L
      BY <1>1, <2>2, RestIs DEF L
    <3>2. End(b) \in 0..L /\ L - End(b) <= n
      BY <1>1, <3>1
    <3>3. Chain(f[End(b)], End(b))
      BY <1>6, <3>2
    <3>4. f[b] = << <<b, End(b)>> >> \o f[End(b)]
      BY <1>3, <2>2
    <3> HIDE DEF T
    <3> QED BY <3>1, <3>3, <3>4, ChainLonger DEF L
  <2> QED BY <2>1, <2>2
<1> HIDE DEF T
<1>7. L \in T /\ 0 \in 0..L /\ L - 0 <= L
  BY <1>1, <1>5, <1>6, InductionOnNat
<1>8. Chain(f[0], 0)
  BY <1>7 DEF T
<1> QED BY <1>2, <1>8

(* What the stream is called with for a match of the text as one piece.    *)
PartOf(m) ==
  LET t == SubSeq(text, m[1] + 1, m[2])
  IN  CallsOf(Rule(t), m[1], t, Split(t), OpensAt(m[2], text))

Parts == [i \in DOMAIN Whole |-> PartOf(Whole[i])]

CallType ==
  [type : {"WORD", "POSSESSIVE", "QUOTE", "OPENING", "error"}, begin : Int, raw : Seq(Bytes)]

LexTypes ==
  /\ text \in Seq(Bytes) /\ Len(text) <= MaxText
  /\ buffer_size \in Nat
  /\ taken \in 0..Len(text)
  /\ buffer \in Seq(Bytes)
  /\ done \in BOOLEAN /\ garbled \in BOOLEAN
  /\ p \in Nat
  /\ ts \in Nat \cup {Null}
  /\ te \in Int
  /\ cs \in Seq(Bytes)
  /\ suffix \in Nat
  /\ offset \in Int
  /\ calls \in Seq(CallType)
  /\ status \in {"reading", "scanning", "finished", "stuck", "too_long"}

(* The pointers stay inside of the buffer, and the buffer is the end of    *)
(* what has been taken.                                                    *)
Pointers ==
  /\ pe <= buffer_size /\ pe <= taken
  /\ ts = Null => cs = <<>> /\ suffix = 0
  /\ status # "finished" => offset = pe - taken
  /\ status \in {"scanning", "stuck"} => p <= pe
  /\ status = "scanning" /\ ts # Null => p = ts + Len(cs)
  /\ status = "scanning" /\ ~done => pe = buffer_size
  /\ status \in {"reading", "too_long"} =>
       /\ ~done
       /\ ts = Null => pe = 0
       /\ ts # Null => ts = 0 /\ Len(cs) = pe
  /\ status = "too_long" => pe = buffer_size
  /\ status \in {"stuck", "finished"} => ts = Null
  /\ status = "finished" => taken = Len(text)
  /\ done => taken = Len(text) /\ (status # "finished" => pe < buffer_size)

(* The match that has begun, and the longest one on the way.               *)
Held ==
  ts # Null =>
    /\ Viable(cs) /\ GoesOn(cs)
    /\ te - ts \in 1..Len(cs)
    /\ Matches(SubSeq(cs, 1, te - ts)) /\ act = Rule(SubSeq(cs, 1, te - ts))
    /\ \A m \in 1..Len(cs) : Matches(SubSeq(cs, 1, m)) => m <= te - ts
    /\ suffix = Split(cs)

(* Where in the text the match begins that is made or comes next.          *)
Begin ==
  IF ts # Null THEN taken - pe + ts
  ELSE IF status \in {"scanning", "stuck"} THEN taken - pe + p ELSE taken

(* The buffer and the automaton have the text's bytes.                     *)
SeesText ==
  ~garbled =>
    /\ \A i \in 1..pe : buffer[i] = text[taken - pe + i]
    /\ \A i \in 1..Len(cs) : cs[i] = text[Begin + i]

(* The first k matches have been made, each one without running out of     *)
(* buffer, and the next one begins where theirs end.                       *)
Made(k) ==
  /\ calls = FlattenSeq(SubSeq(Parts, 1, k))
  /\ Begin = IF k < Len(Whole) THEN Whole[k + 1][1] ELSE Len(text)
  /\ \A i \in 1..k : buffer_size > 0 => ~Undecided(Whole[i][1], buffer_size)

Progress == ~garbled => \E k \in 0..Len(Whole) : Made(k)

Long(n) == \E b \in Starts : Undecided(b, n)

Overlapped == garbled => \E n \in 1..MaxText : 2 * n > buffer_size /\ Long(n)

LexInv ==
  /\ LexTypes /\ Pointers /\ Held /\ SeesText /\ Progress /\ Overlapped
  /\ SplitsOffThePossessive

-----------------------------------------------------------------------------
(* The calls for a match. *)

LEMMA RoomOf ==
  ASSUME NEW t \in Seq(Bytes), Viable(t)
  PROVE  Room(t)
<1> DEFINE L == Len(t)
           T == {n \in Nat : n <= L => Room(SubSeq(t, 1, n))}
<1>1. L \in Nat /\ L > 0 /\ L \in 1..L
  BY LenProperties, ViableIs
<1>2. SubSeq(t, 1, L) = t
  BY WholePrefix
<1>3. \A m \in 1..L : Viable(SubSeq(t, 1, m))
  BY <1>1, <1>2, PrefixesGoOn
<1>4. 0 \in T
  <2>1. SubSeq(t, 1, 0) = <<>> /\ Len(<<>>) = 0
    BY Prefix, EmptySeq, LenProperties
  <2> QED BY <2>1 DEF Room
<1>5. ASSUME NEW n \in Nat, n \in T PROVE n + 1 \in T
  <2> SUFFICES ASSUME n + 1 <= L PROVE Room(SubSeq(t, 1, n + 1))
    OBVIOUS
  <2>1. n \in 0..(L - 1) /\ n \in 0..L /\ n + 1 \in 1..L
    BY <1>1
  <2>2. SubSeq(t, 1, n) \in Seq(Bytes) /\ Room(SubSeq(t, 1, n))
    BY <1>1, <1>5, <2>1, Prefix
  <2>3. t[n + 1] \in Bytes /\ SubSeq(t, 1, n + 1) = Append(SubSeq(t, 1, n), t[n + 1])
    BY <2>1, PrefixGrows
  <2>4. Viable(Append(SubSeq(t, 1, n), t[n + 1]))
    BY <1>3, <2>1, <2>3
  <2> QED BY <2>2, <2>3, <2>4, RoomGrows
<1> HIDE DEF T
<1>6. L \in T /\ L <= L
  BY <1>1, <1>4, <1>5, InductionOnNat
<1> QED BY <1>2, <1>6 DEF T

(* A match has more bytes than what is split off, which is not nothing.    *)
LEMMA SplitsInside ==
  ASSUME NEW t \in Seq(Bytes), IsPossessed(t)
  PROVE  Split(t) \in 2..(Len(t) - 1)
<1>0. Len(t) > 2 /\ Len(t) \in Nat
  BY PossessedIs, LenProperties
<1>1. Matches(t) /\ Viable(t) /\ Len(t) > 2 /\ Len(t) \in Nat
  BY <1>0, MatchesIs DEF Viable
<1>2. t # Possessive
  <2> SUFFICES ASSUME t = Possessive PROVE FALSE
    OBVIOUS
  <2>1. Len(t) = 2 /\ Len(t) > 2
    BY <1>0 DEF Possessive
  <2>2. ~(2 > 2)
    OBVIOUS
  <2> QED BY <2>1, <2>2, Zenon
<1>3. Split(t) \in Nat /\ Split(t) <= Len(t) - 1
  BY <1>1, <1>2, RoomOf, PossessivesFinite DEF Room
<1>4. Len(t) \in Possessives(t)
  <2>1. Counts(SubSeq(t, 1, Len(t))) # 0
    BY WholePrefix, CountsIs
  <2>2. Len(t) \in 1..Len(t)
    BY <1>1
  <2> QED BY <2>1, <2>2, PossessivesFinite
<1>5. Cardinality(Possessives(t)) # 0
  BY <1>4, PossessivesFinite, FS_EmptySet
<1> QED BY <1>3, <1>5, PossessivesFinite DEF Split

LEMMA CallsFor ==
  ASSUME NEW b, NEW t, NEW n, NEW o
  PROVE  /\ CallsOf("ignore", b, t, n, o) = <<>>
         /\ CallsOf("split", b, t, n, o) = SplitCalls(b, t, n)
         /\ CallsOf("possessive", b, t, n, o) = << Call("POSSESSIVE", b, t) >>
         /\ CallsOf("default", b, t, n, o) = << Call("WORD", b, t) >>
         /\ CallsOf("double_quote", b, t, n, o) = << Call("QUOTE", b, t) >>
         /\ CallsOf("single_quote", b, t, n, o)
              = << Call(IF o THEN "OPENING" ELSE "QUOTE", b, t) >>
         /\ CallsOf("catchall", b, t, n, o)
              = IF onerror = "CALL" THEN << Call("error", b, t) >> ELSE <<>>
  BY DEF CallsOf
(* A possessive that is not just one has a word in front, to which it      *)
(* belongs, and possibly another one in the word.                          *)
GoodCalls(c) ==
  \A i \in 1..Len(c) :
    c[i].type = "POSSESSIVE" /\ c[i].raw # Possessive =>
      /\ i > 1 /\ c[i - 1].type = "WORD"
      /\ c[i - 1].raw # <<>> /\ c[i].raw # <<>>
      /\ Cardinality(Possessives(c[i - 1].raw \o c[i].raw)) > 1

LEMMA OneCall ==
  ASSUME NEW b \in Int, NEW t \in Seq(Bytes),
         NEW type \in {"WORD", "POSSESSIVE", "QUOTE", "OPENING", "error"}
  PROVE  /\ << Call(type, b, t) >> \in Seq(CallType)
         /\ type # "POSSESSIVE" \/ t = Possessive => GoodCalls(<< Call(type, b, t) >>)
<1> DEFINE c == Call(type, b, t)
<1>1. c \in CallType /\ c.type = type /\ c.raw = t
  BY DEF Call, CallType
<1> HIDE DEF c
<1>2. Len(<<c>>) = 1 /\ <<c>> \in Seq(CallType) /\ <<c>>[1] = c
  BY <1>1
<1>3. ASSUME NEW i \in 1..Len(<<c>>) PROVE <<c>>[i] = c
  <2>1. i = 1
    BY <1>2
  <2> QED BY <1>2, <2>1
<1>4. type # "POSSESSIVE" \/ t = Possessive => GoodCalls(<<c>>)
  BY <1>1, <1>3, Zenon DEF GoodCalls
<1> QED BY <1>2, <1>4 DEF c

LEMMA NoCall == <<>> \in Seq(CallType) /\ GoodCalls(<<>>)
<1>1. <<>> \in Seq(CallType) /\ Len(<<>>) = 0 /\ 1..0 = {}
  BY EmptySeq
<1> QED BY <1>1 DEF GoodCalls

(* The two parts of a match are its bytes.                                 *)
LEMMA PartsOf ==
  ASSUME NEW t \in Seq(Bytes), NEW n \in 0..Len(t)
  PROVE  /\ SubSeq(t, 1, Len(t) - n) \in Seq(Bytes)
         /\ Len(SubSeq(t, 1, Len(t) - n)) = Len(t) - n
         /\ SubSeq(t, Len(t) - n + 1, Len(t)) \in Seq(Bytes)
         /\ Len(SubSeq(t, Len(t) - n + 1, Len(t))) = n
         /\ \A i \in 1..n : SubSeq(t, Len(t) - n + 1, Len(t))[i] = t[Len(t) - n + i]
         /\ SubSeq(t, 1, Len(t) - n) \o SubSeq(t, Len(t) - n + 1, Len(t)) = t
<1> DEFINE k == Len(t) - n
           v == SubSeq(t, 1, k)
           w == SubSeq(t, k + 1, Len(t))
           u == v \o w
<1>1. Len(t) \in Nat /\ n \in Nat /\ k \in 0..Len(t) /\ k \in Nat /\ Len(t) \in k..Len(t)
      /\ Len(t) - k = n /\ k + n = Len(t)
  BY LenProperties
<1> HIDE DEF k
<1>2. v \in Seq(Bytes) /\ Len(v) = k /\ \A i \in 1..k : v[i] = t[i]
  BY <1>1, Prefix
<1>3. w \in Seq(Bytes) /\ Len(w) = n /\ \A i \in 1..n : w[i] = t[k + i]
  BY <1>1, Piece
<1> HIDE DEF v, w
<1>4. /\ u \in Seq(Bytes) /\ Len(u) = Len(v) + Len(w)
      /\ \A i \in 1..(Len(v) + Len(w)) : u[i] = IF i <= Len(v) THEN v[i] ELSE w[i - Len(v)]
  BY <1>2, <1>3, ConcatProperties
<1> HIDE DEF u
<1>5. Len(u) = Len(t)
  BY <1>1, <1>2, <1>3, <1>4
<1>6. ASSUME NEW i \in 1..Len(u) PROVE u[i] = t[i]
  <2>1. i \in 1..(Len(v) + Len(w)) /\ i \in Nat /\ i >= 1 /\ i <= k + n
    BY <1>1, <1>2, <1>3, <1>5
  <2>2. CASE i <= k
    <3>1. i \in 1..k
      BY <1>1, <2>1, <2>2
    <3> QED BY <1>2, <1>4, <2>1, <2>2, <3>1
  <2>3. CASE ~(i <= k)
    <3>1. i - k \in 1..n /\ k + (i - k) = i
      BY <1>1, <2>1, <2>3
    <3>2. u[i] = w[i - k]
      BY <1>2, <1>4, <2>1, <2>3
    <3> QED BY <1>3, <3>1, <3>2
  <2> QED BY <2>2, <2>3
<1>7. u = t
  BY <1>4, <1>5, <1>6, SeqEqual
<1> QED BY <1>2, <1>3, <1>7 DEF u, v, w, k

LEMMA GoodConcat ==
  ASSUME NEW c \in Seq(CallType), NEW d \in Seq(CallType), GoodCalls(c), GoodCalls(d)
  PROVE  c \o d \in Seq(CallType) /\ GoodCalls(c \o d)
<1> DEFINE u == c \o d
<1>1. Len(c) \in Nat /\ Len(d) \in Nat
  BY LenProperties
<1>2. /\ u \in Seq(CallType) /\ Len(u) = Len(c) + Len(d)
      /\ \A i \in 1..(Len(c) + Len(d)) : u[i] = IF i <= Len(c) THEN c[i] ELSE d[i - Len(c)]
  BY ConcatProperties
<1> HIDE DEF u
<1>3. ASSUME NEW i \in 1..Len(u), u[i].type = "POSSESSIVE", u[i].raw # Possessive
      PROVE  /\ i > 1 /\ u[i - 1].type = "WORD"
             /\ u[i - 1].raw # <<>> /\ u[i].raw # <<>>
             /\ Cardinality(Possessives(u[i - 1].raw \o u[i].raw)) > 1
  <2>1. i \in 1..(Len(c) + Len(d)) /\ i \in Nat
    BY <1>1, <1>2
  <2>2. CASE i <= Len(c)
    <3>1. i \in 1..Len(c) /\ u[i] = c[i]
      BY <1>1, <1>2, <2>1, <2>2
    <3>2. i > 1
      BY <1>3, <3>1 DEF GoodCalls
    <3>3. i - 1 \in 1..(Len(c) + Len(d)) /\ i - 1 <= Len(c)
      BY <1>1, <2>1, <2>2, <3>2
    <3>4. u[i - 1] = c[i - 1]
      BY <1>2, <3>3
    <3> QED BY <1>3, <3>1, <3>4 DEF GoodCalls
  <2>3. CASE ~(i <= Len(c))
    <3> DEFINE j == i - Len(c)
    <3>1. j \in 1..Len(d) /\ j \in Nat
      BY <1>1, <2>1, <2>3
    <3>2. u[i] = d[j]
      BY <1>2, <2>1, <2>3
    <3> HIDE DEF j
    <3>3. j > 1
      BY <1>3, <3>1, <3>2 DEF GoodCalls
    <3>4. i - 1 \in 1..(Len(c) + Len(d)) /\ ~(i - 1 <= Len(c)) /\ (i - 1) - Len(c) = j - 1
          /\ i > 1
      BY <1>1, <2>1, <3>1, <3>3 DEF j
    <3>5. u[i - 1] = d[j - 1]
      BY <1>2, <3>4
    <3> QED BY <1>3, <3>1, <3>2, <3>4, <3>5 DEF GoodCalls
  <2> QED BY <2>2, <2>3
<1>4. GoodCalls(u)
  BY <1>3 DEF GoodCalls
<1> QED BY <1>2, <1>4 DEF u

LEMMA SplitCallsAre ==
  ASSUME NEW t \in Seq(Bytes), NEW n \in 0..Len(t), NEW b \in Int
  PROVE  /\ SplitCalls(b, t, n) \in Seq(CallType)
         /\ IsPossessed(t) /\ n = Split(t) => GoodCalls(SplitCalls(b, t, n))
<1> DEFINE k == Len(t) - n
           v == SubSeq(t, 1, k)
           w == SubSeq(t, k + 1, Len(t))
           c == Call("WORD", b, v)
           d == Call("POSSESSIVE", b + k, w)
<1>1. Len(t) \in Nat /\ n \in Nat /\ b + k \in Int
  BY LenProperties
<1>2. /\ v \in Seq(Bytes) /\ Len(v) = k /\ w \in Seq(Bytes) /\ Len(w) = n
      /\ \A i \in 1..n : w[i] = t[k + i]
      /\ v \o w = t
  BY PartsOf
<1>3. SplitCalls(b, t, n) = <<c, d>>
  BY DEF SplitCalls
<1>4. /\ c \in CallType /\ c.type = "WORD" /\ c.raw = v
      /\ d \in CallType /\ d.type = "POSSESSIVE" /\ d.raw = w
  BY <1>1, <1>2 DEF Call, CallType
<1> HIDE DEF c, d, v, w
<1>5. ASSUME IsPossessed(t), n = Split(t), w # Possessive
      PROVE  v # <<>> /\ w # <<>> /\ Cardinality(Possessives(t)) > 1
  <2>1. n \in 2..(Len(t) - 1) /\ n = 2 * Cardinality(Possessives(t))
        /\ Cardinality(Possessives(t)) \in Nat
    BY <1>5, SplitsInside, PossessivesFinite DEF Split
  <2>2. Len(v) > 0 /\ Len(w) > 0
    BY <1>1, <1>2, <2>1
  <2>3. v # <<>> /\ w # <<>>
    BY <2>2, EmptySeq
  <2>4. n # 2
    <3> SUFFICES ASSUME n = 2 PROVE FALSE
      OBVIOUS
    <3>1. t[Len(t) - 1] = "'" /\ t[Len(t)] = "s"
      BY <1>5, PossessedIs
    <3>2. 1 \in 1..n /\ 2 \in 1..n /\ k + 1 = Len(t) - 1 /\ k + 2 = Len(t)
      BY <1>1
    <3>3. w[1] = "'" /\ w[2] = "s" /\ Len(w) = 2
      BY <1>2, <3>1, <3>2
    <3>4. Possessive \in Seq(Bytes) /\ Len(Possessive) = 2
          /\ Possessive[1] = "'" /\ Possessive[2] = "s"
      BY SmallTexts DEF Possessive
    <3>5. ASSUME NEW i \in 1..Len(w) PROVE w[i] = Possessive[i]
      <4>1. i = 1 \/ i = 2
        BY <3>3
      <4> QED BY <3>3, <3>4, <4>1
    <3>6. w = Possessive
      BY <1>2, <3>3, <3>4, <3>5, SeqEqual
    <3> QED BY <1>5, <3>6
  <2> QED BY <2>1, <2>3, <2>4
<1>6. /\ <<c, d>> \in Seq(CallType) /\ Len(<<c, d>>) = 2
      /\ <<c, d>>[1] = c /\ <<c, d>>[2] = d
  BY <1>4
<1> DEFINE s == <<c, d>>
<1> HIDE DEF s
<1>7. ASSUME IsPossessed(t), n = Split(t) PROVE GoodCalls(s)
  <2>1. ASSUME NEW i \in 1..Len(s), s[i].type = "POSSESSIVE", s[i].raw # Possessive
        PROVE  /\ i > 1 /\ s[i - 1].type = "WORD"
               /\ s[i - 1].raw # <<>> /\ s[i].raw # <<>>
               /\ Cardinality(Possessives(s[i - 1].raw \o s[i].raw)) > 1
    <3>1. i = 1 \/ i = 2
      BY <1>6 DEF s
    <3>2. i = 2 /\ i > 1 /\ i - 1 = 1
      BY <1>4, <1>6, <2>1, <3>1 DEF s
    <3>3. s[i] = d /\ s[i - 1] = c
      BY <1>6, <3>2 DEF s
    <3> QED BY <1>2, <1>4, <1>5, <1>7, <2>1, <3>2, <3>3
  <2> QED BY <2>1 DEF GoodCalls
<1> QED BY <1>3, <1>6, <1>7 DEF s

(* The calls for the bytes t, of which the automaton took the match u.     *)
LEMMA CallsTyped ==
  ASSUME NEW u \in Seq(Bytes), Matches(u), NEW t \in Seq(Bytes), Len(t) = Len(u),
         NEW b \in Int, NEW o
  PROVE  /\ CallsOf(Rule(u), b, t, Split(u), o) \in Seq(CallType)
         /\ t = u => GoodCalls(CallsOf(Rule(u), b, t, Split(u), o))
<1> DEFINE c == CallsOf(Rule(u), b, t, Split(u), o)
<1>1. Rule(u) \in {"single_quote", "double_quote", "ignore", "split", "possessive",
                   "default", "catchall"}
  BY RuleIs, Zenon DEF Matches
<1>2. CASE Rule(u) = "ignore"
  <2>1. c = <<>>
    BY <1>2, CallsFor
  <2> QED BY <2>1, NoCall
<1>3. CASE Rule(u) = "split"
  <2>1. IsPossessed(u)
    BY <1>3, RuleIs
  <2>2. Split(u) \in 0..Len(t)
    <3>1. Split(u) \in 2..(Len(t) - 1) /\ Len(t) \in Nat
      BY <2>1, SplitsInside, LenProperties
    <3> QED BY <3>1
  <2>3. c = SplitCalls(b, t, Split(u))
    BY <1>3, CallsFor
  <2> QED BY <2>1, <2>2, <2>3, SplitCallsAre
<1>4. CASE Rule(u) = "possessive"
  <2>1. u = Possessive
    BY <1>4, RuleIs
  <2>2. c = << Call("POSSESSIVE", b, t) >>
    BY <1>4, CallsFor
  <2> QED BY <2>1, <2>2, OneCall
<1>5. CASE Rule(u) = "default"
  <2>1. c = << Call("WORD", b, t) >>
    BY <1>5, CallsFor
  <2> QED BY <2>1, OneCall
<1>6. CASE Rule(u) = "double_quote"
  <2>1. c = << Call("QUOTE", b, t) >>
    BY <1>6, CallsFor
  <2> QED BY <2>1, OneCall
<1>7. CASE Rule(u) = "single_quote"
  <2> DEFINE type == IF o THEN "OPENING" ELSE "QUOTE"
  <2>1. c = << Call(type, b, t) >>
    BY <1>7, CallsFor
  <2>2. type \in {"WORD", "POSSESSIVE", "QUOTE", "OPENING", "error"} /\ type # "POSSESSIVE"
    OBVIOUS
  <2> HIDE DEF type, c
  <2> QED BY <2>1, <2>2, OneCall DEF c
<1>8. CASE Rule(u) = "catchall"
  <2>1. c = IF onerror = "CALL" THEN << Call("error", b, t) >> ELSE <<>>
    BY <1>8, CallsFor
  <2>2. CASE onerror = "CALL"
    BY <2>1, <2>2, OneCall
  <2>3. CASE onerror # "CALL"
    BY <2>1, <2>3, NoCall
  <2> QED BY <2>2, <2>3
<1> QED BY <1>1, <1>2, <1>3, <1>4, <1>5, <1>6, <1>7, <1>8

-----------------------------------------------------------------------------
(* The calls for the text as one piece. *)

LEMMA PieceOfRest ==
  ASSUME text \in Seq(Bytes), NEW b \in 0..Len(text), NEW n \in 0..(Len(text) - b)
  PROVE  /\ SubSeq(text, b + 1, b + n) \in Seq(Bytes)
         /\ Len(SubSeq(text, b + 1, b + n)) = n
         /\ \A i \in 1..n : SubSeq(text, b + 1, b + n)[i] = text[b + i]
         /\ SubSeq(Rest(b), 1, n) = SubSeq(text, b + 1, b + n)
<1> DEFINE v == SubSeq(text, b + 1, b + n)
           w == SubSeq(Rest(b), 1, n)
<1>1. Len(text) \in Nat /\ b \in Nat /\ n \in Nat /\ b + n \in b..Len(text) /\ (b + n) - b = n
  BY LenProperties
<1>2. v \in Seq(Bytes) /\ Len(v) = n /\ \A i \in 1..n : v[i] = text[b + i]
  BY <1>1, Piece
<1>3. /\ Rest(b) \in Seq(Bytes) /\ n \in 0..Len(Rest(b))
      /\ \A i \in 1..(Len(text) - b) : Rest(b)[i] = text[b + i]
  BY RestIs
<1>4. w \in Seq(Bytes) /\ Len(w) = n /\ \A i \in 1..n : w[i] = Rest(b)[i]
  BY <1>3, Prefix
<1> HIDE DEF v, w
<1>5. ASSUME NEW i \in 1..Len(w) PROVE w[i] = v[i]
  <2>1. i \in 1..n /\ i \in 1..(Len(text) - b)
    BY <1>1, <1>4
  <2> QED BY <1>2, <1>3, <1>4, <2>1
<1>6. w = v
  BY <1>2, <1>4, <1>5, SeqEqual
<1> QED BY <1>2, <1>6 DEF v, w

(* A text of the same bytes as a piece of the text is that piece.          *)
LEMMA PieceWith ==
  ASSUME text \in Seq(Bytes), NEW b \in 0..Len(text), NEW u \in Seq(Bytes),
         b + Len(u) <= Len(text), \A i \in 1..Len(u) : u[i] = text[b + i]
  PROVE  /\ u = SubSeq(text, b + 1, b + Len(u)) /\ u = SubSeq(Rest(b), 1, Len(u))
         /\ Len(u) \in 0..(Len(text) - b)
<1> DEFINE n == Len(u)
           v == SubSeq(text, b + 1, b + n)
<1>1. n \in 0..(Len(text) - b)
  BY LenProperties
<1>2. v \in Seq(Bytes) /\ Len(v) = n /\ (\A i \in 1..n : v[i] = text[b + i])
      /\ SubSeq(Rest(b), 1, n) = v
  BY <1>1, PieceOfRest
<1>3. u = v
  <2> HIDE DEF v
  <2> QED BY <1>2, SeqEqual
<1> QED BY <1>1, <1>2, <1>3

LEMMA PartsTyped ==
  ASSUME text \in Seq(Bytes)
  PROVE  /\ Parts \in Seq(Seq(CallType)) /\ Len(Parts) = Len(Whole) /\ Len(Whole) \in Nat
         /\ \A i \in 1..Len(Whole) : Parts[i] = PartOf(Whole[i])
<1>1. Chain(Whole, 0)
  BY WholeChains
<1>2. Whole \in Seq(Nat \X Nat) /\ Len(Whole) \in Nat /\ DOMAIN Whole = 1..Len(Whole)
  BY <1>1, LenProperties DEF Chain
<1>3. ASSUME NEW i \in 1..Len(Whole) PROVE PartOf(Whole[i]) \in Seq(CallType)
  <2> DEFINE b == Whole[i][1]
             n == Longest(Rest(b))
             t == SubSeq(text, b + 1, b + n)
  <2>1. b \in Nat /\ b < Len(text) /\ Whole[i][2] = End(b)
    BY <1>1, <1>2 DEF Chain
  <2>2. b \in 0..Len(text) /\ Len(text) \in Nat
    BY <2>1, LenProperties
  <2>3. IsLongest(n, Rest(b)) /\ Len(Rest(b)) = Len(text) - b
    BY <2>1, <2>2, RestIs
  <2>4. n \in 0..(Len(text) - b) /\ Matches(SubSeq(Rest(b), 1, n))
    BY <2>2, <2>3 DEF IsLongest
  <2> HIDE DEF n
  <2>5. t \in Seq(Bytes) /\ Matches(t)
    BY <2>2, <2>4, PieceOfRest
  <2>6. PartOf(Whole[i]) = CallsOf(Rule(t), b, t, Split(t), OpensAt(b + n, text))
    BY <2>1 DEF PartOf, End, n
  <2> HIDE DEF t, b
  <2> QED BY <2>1, <2>5, <2>6, CallsTyped
<1>4. Parts = [i \in 1..Len(Whole) |-> PartOf(Whole[i])]
  BY <1>2 DEF Parts
<1> QED BY <1>2, <1>3, <1>4

LEMMA WholeCallsIs == WholeCalls = FlattenSeq(Parts)
  BY DEF WholeCalls, Parts, PartOf, Split

(* Only for a single quote does it matter whether a letter follows.        *)
LEMMA OpensQuotes ==
  ASSUME NEW u \in Seq(Bytes), Matches(u), Rule(u) # "single_quote",
         NEW b, NEW t, NEW n, NEW o, NEW q
  PROVE  CallsOf(Rule(u), b, t, n, o) = CallsOf(Rule(u), b, t, n, q)
<1>1. Rule(u) \in {"double_quote", "ignore", "split", "possessive", "default", "catchall"}
  BY RuleIs, Zenon DEF Matches
<1> QED BY <1>1, CallsFor

LEMMA TextStays ==
  ASSUME text' = text, onerror' = onerror
  PROVE  /\ Whole' = Whole /\ Parts' = Parts /\ WholeCalls' = WholeCalls /\ Starts' = Starts
         /\ \A b, n : Undecided(b, n)' <=> Undecided(b, n)
         /\ \A n : Long(n)' <=> Long(n)
<1>1. Whole' = Whole
  BY DEF Whole
<1>2. Parts' = Parts
  BY <1>1 DEF Parts, PartOf, CallsOf
<1>3. Starts' = Starts
  BY <1>1 DEF Starts
<1>4. \A b, n : Undecided(b, n)' <=> Undecided(b, n)
  BY DEF Undecided
<1>5. \A n : Long(n)' <=> Long(n)
  BY <1>3, <1>4 DEF Long
<1>6. WholeCalls' = WholeCalls
  BY <1>1 DEF WholeCalls, CallsOf
<1> QED BY <1>1, <1>2, <1>3, <1>4, <1>5, <1>6

-----------------------------------------------------------------------------
(* A match is taken. *)

(* The automaton has taken u since the match began: the longest match in   *)
(* the text there, unless the buffer was damaged.                          *)
Takes(rule, u, n, last) ==
  /\ u \in Seq(Bytes) /\ Matches(u) /\ rule = Rule(u) /\ n = Split(u)
  /\ last = Start + Len(u) /\ last <= pe
  /\ ~garbled =>
       /\ \A i \in 1..Len(u) : u[i] = text[Begin + i]
       /\ IsLongest(Len(u), Rest(Begin))
       /\ rule = "single_quote" => OpensAt(last, buffer) = OpensAt(Begin + Len(u), text)
       /\ buffer_size > 0 => ~Undecided(Begin, buffer_size)

LEMMA Scanning ==
  ASSUME LexTypes, Pointers, status = "scanning"
  PROVE  /\ Len(text) \in Nat /\ taken \in Nat /\ taken <= Len(text)
         /\ pe \in Nat /\ pe <= taken /\ pe <= buffer_size /\ buffer_size \in Nat
         /\ Len(cs) \in Nat
         /\ p \in Nat /\ p <= pe /\ Start \in Nat /\ Start <= p /\ p = Start + Len(cs)
         /\ Begin = taken - pe + Start /\ Begin \in 0..Len(text) /\ Start - offset = Begin
<1>1. Len(text) \in Nat /\ pe \in Nat /\ Len(cs) \in Nat
  BY LenProperties DEF LexTypes, pe
<1>2. taken \in Nat /\ taken <= Len(text) /\ buffer_size \in Nat /\ p \in Nat
      /\ ts \in Nat \cup {Null}
  BY <1>1 DEF LexTypes
<1>3. pe <= taken /\ pe <= buffer_size /\ p <= pe /\ offset = pe - taken
  BY DEF Pointers
<1>4. CASE ts = Null
  <2>1. cs = <<>> /\ Len(cs) = 0
    BY <1>4, EmptySeq DEF Pointers
  <2> QED BY <1>1, <1>2, <1>3, <1>4, <2>1 DEF Start, Begin
<1>5. CASE ts # Null
  <2>1. p = ts + Len(cs) /\ ts \in Nat
    BY <1>2, <1>5 DEF Pointers
  <2> QED BY <1>1, <1>2, <1>3, <1>5, <2>1 DEF Start, Begin
<1> QED BY <1>4, <1>5

LEMMA TakenIs ==
  ASSUME LexTypes, Pointers, SeesText, status = "scanning",
         NEW rule, NEW u, NEW n, NEW last, Takes(rule, u, n, last)
  PROVE  /\ last \in Nat /\ Start < last /\ last <= pe /\ Len(u) \in Nat /\ Len(u) > 0
         /\ Begin + Len(u) = taken - pe + last /\ Begin + Len(u) <= Len(text)
         /\ Begin < Len(text)
         /\ SubSeq(buffer, Start + 1, last) \in Seq(Bytes)
         /\ Len(SubSeq(buffer, Start + 1, last)) = Len(u)
         /\ ~garbled => SubSeq(buffer, Start + 1, last) = u
<1> DEFINE t == SubSeq(buffer, Start + 1, last)
<1>1. u \in Seq(Bytes) /\ Viable(u) /\ last = Start + Len(u) /\ last <= pe
  BY DEF Takes, Viable
<1>2. Len(u) \in Nat /\ Len(u) > 0
  BY <1>1, ViableIs, LenProperties
<1>3. /\ last \in Nat /\ Start < last /\ last \in Start..pe /\ last - Start = Len(u)
      /\ Begin + Len(u) = taken - pe + last /\ Begin + Len(u) <= Len(text) /\ Begin < Len(text)
  <2>1. /\ Len(text) \in Nat /\ taken \in Nat /\ taken <= Len(text) /\ pe \in Nat
        /\ Start \in Nat /\ Begin = taken - pe + Start
    BY Scanning
  <2>2. PICK len \in Nat : len = Len(u) /\ len > 0 /\ last = Start + len /\ last <= pe
    BY <1>1, <1>2
  <2> QED BY <2>1, <2>2
<1>4. t \in Seq(Bytes) /\ Len(t) = Len(u) /\ \A i \in 1..Len(u) : t[i] = buffer[Start + i]
  <2>1. buffer \in Seq(Bytes) /\ Start \in Nat /\ last \in Start..Len(buffer)
    BY <1>3, Scanning DEF LexTypes, pe
  <2> QED BY <1>3, <2>1, Piece
<1> HIDE DEF t
<1>5. ASSUME ~garbled PROVE t = u
  <2>1. ASSUME NEW i \in 1..Len(t) PROVE t[i] = u[i]
    <3>1. i \in 1..Len(u) /\ t[i] = buffer[Start + i] /\ u[i] = text[Begin + i]
      BY <1>4, <1>5 DEF Takes
    <3>0. Start \in Nat
      BY Scanning
    <3>2. i \in Nat /\ 1 <= i /\ Start + i <= last
      BY <1>1, <1>2, <3>0, <3>1
    <3>3. /\ Start \in Nat /\ pe \in Nat /\ taken \in Nat /\ last <= pe /\ last \in Nat
          /\ Begin = taken - pe + Start
      BY <1>1, <1>3, Scanning
    <3>4. Start + i \in 1..pe /\ taken - pe + (Start + i) = Begin + i
      BY <3>2, <3>3
    <3>5. buffer[Start + i] = text[taken - pe + (Start + i)]
      BY <1>5, <3>4 DEF SeesText
    <3> QED BY <3>1, <3>4, <3>5
  <2> QED BY <1>1, <1>4, <2>1, SeqEqual
<1> QED BY <1>1, <1>2, <1>3, <1>4, <1>5 DEF t

(* What the step leaves alone.                                             *)
Steady == UNCHANGED <<input, taken, buffer, done, offset, garbled>>

LEMMA EmitTypes ==
  ASSUME LexTypes, Pointers, SeesText, status = "scanning",
         NEW rule, NEW u, NEW n, NEW last, Takes(rule, u, n, last),
         Emit(rule, Start, last, n), Steady, te' \in Int
  PROVE  LexTypes'
<1> DEFINE t == SubSeq(buffer, Start + 1, last)
           c == CallsOf(rule, Start - offset, t, n, OpensAt(last, buffer))
<1>1. last \in Nat /\ t \in Seq(Bytes) /\ Len(t) = Len(u)
  BY TakenIs
<1>2. Begin \in Int /\ Start - offset = Begin
  BY Scanning
<1>3. u \in Seq(Bytes) /\ Matches(u) /\ rule = Rule(u) /\ n = Split(u) /\ n \in Nat
  BY PossessivesFinite DEF Takes
<1>4. c \in Seq(CallType)
  BY <1>1, <1>2, <1>3, CallsTyped
<1>5. calls' = calls \o c
  BY DEF Emit
<1> HIDE DEF c
<1>6. calls' \in Seq(CallType)
  BY <1>4, <1>5, ConcatProperties DEF LexTypes
<1>7. p' \in Nat /\ ts' \in Nat \cup {Null} /\ cs' \in Seq(Bytes) /\ suffix' \in Nat
      /\ status' \in {"reading", "scanning", "finished", "stuck", "too_long"}
  BY <1>1, <1>3, EmptySeq DEF Emit
<1> QED BY <1>6, <1>7 DEF LexTypes, Steady, input

LEMMA EmitPointers ==
  ASSUME LexTypes, Pointers, SeesText, status = "scanning",
         NEW rule, NEW u, NEW n, NEW last, Takes(rule, u, n, last),
         Emit(rule, Start, last, n), Steady
  PROVE  Pointers' /\ Held'
<1>1. last \in Nat /\ last <= pe
  BY TakenIs
<1>2. p' = last /\ ts' = Null /\ cs' = <<>> /\ status' \in {"scanning", "stuck"} /\ pe' = pe
  BY DEF Emit, Steady, pe
<1>3. suffix' = 0
  <2>1. u \in Seq(Bytes) /\ rule = Rule(u) /\ n = Split(u)
    BY DEF Takes
  <2>2. rule \in {"ignore", "catchall"} => IsSpace(u) \/ u = <<"?">>
    BY <2>1, RuleIs
  <2>3. rule \in {"ignore", "catchall"} => n = 0
    BY <2>1, <2>2, PlainHasNone
  <2> QED BY <2>3 DEF Emit
<1>4. Pointers'
  BY <1>1, <1>2, <1>3 DEF Pointers, Steady, input
<1> QED BY <1>2, <1>4 DEF Held

LEMMA EmitSees ==
  ASSUME LexTypes, Pointers, SeesText, status = "scanning",
         NEW rule, NEW u, NEW n, NEW last, Takes(rule, u, n, last),
         Emit(rule, Start, last, n), Steady
  PROVE  SeesText'
<1>1. cs' = <<>> /\ pe' = pe /\ buffer' = buffer /\ text' = text /\ taken' = taken
      /\ garbled' = garbled
  BY DEF Emit, Steady, input, pe
<1>2. Len(cs') = 0 /\ 1..0 = {}
  BY <1>1, EmptySeq
<1> QED BY <1>1, <1>2 DEF SeesText

(* The calls are those of the next match in the text.                      *)
LEMMA EmitProgress ==
  ASSUME LexInv, status = "scanning",
         NEW rule, NEW u, NEW n, NEW last, Takes(rule, u, n, last),
         Emit(rule, Start, last, n), Steady, ~garbled
  PROVE  Progress' /\ GoodCalls(calls')
<1> DEFINE t == SubSeq(buffer, Start + 1, last)
           c == CallsOf(rule, Start - offset, t, n, OpensAt(last, buffer))
           e == Begin + Len(u)
<1> LexTypes /\ Pointers /\ SeesText /\ Progress
  BY DEF LexInv
<1>1. /\ last \in Nat /\ Len(u) > 0 /\ e = taken - pe + last /\ e <= Len(text)
      /\ Begin < Len(text) /\ t = u
  BY TakenIs
<1>2. /\ Begin \in 0..Len(text) /\ Start - offset = Begin /\ Len(text) \in Nat /\ taken \in Nat
      /\ pe \in Nat
  BY Scanning
<1>3. /\ u \in Seq(Bytes) /\ Matches(u) /\ rule = Rule(u) /\ n = Split(u) /\ Len(u) \in Nat
      /\ \A i \in 1..Len(u) : u[i] = text[Begin + i]
      /\ IsLongest(Len(u), Rest(Begin))
      /\ rule = "single_quote" => OpensAt(last, buffer) = OpensAt(e, text)
      /\ buffer_size > 0 => ~Undecided(Begin, buffer_size)
  BY LenProperties DEF Takes
<1>4. text \in Seq(Bytes) /\ calls \in Seq(CallType)
  BY DEF LexTypes
<1>5. Chain(Whole, 0) /\ Len(Whole) \in Nat
  BY <1>4, WholeChains, PartsTyped
<1>6. PICK k \in 0..Len(Whole) : Made(k)
  BY DEF Progress
<1>7. k < Len(Whole) /\ Whole[k + 1][1] = Begin /\ k \in Nat
  BY <1>1, <1>5, <1>6 DEF Made
<1>8. k + 1 \in 1..Len(Whole) /\ k + 1 \in 0..Len(Whole) /\ k \in 0..(Len(Whole) - 1)
  BY <1>5, <1>7
<1>9. Longest(Rest(Begin)) = Len(u)
  BY <1>2, <1>3, <1>4, RestIs, LongestIs
<1>10. Whole[k + 1][2] = e
  BY <1>5, <1>7, <1>8, <1>9 DEF Chain, End
<1>11. e = IF k + 1 < Len(Whole) THEN Whole[(k + 1) + 1][1] ELSE Len(text)
  BY <1>5, <1>8, <1>10 DEF Chain
<1>12. u = SubSeq(text, Begin + 1, e)
  BY <1>1, <1>2, <1>3, <1>4, PieceWith
<1>13. Parts[k + 1] = CallsOf(rule, Begin, u, n, OpensAt(e, text))
  <2>1. Parts[k + 1] = PartOf(Whole[k + 1])
    BY <1>4, <1>8, PartsTyped
  <2>2. PartOf(Whole[k + 1])
          = CallsOf(Rule(SubSeq(text, Begin + 1, e)), Begin, SubSeq(text, Begin + 1, e),
                    Split(SubSeq(text, Begin + 1, e)), OpensAt(e, text))
    BY <1>7, <1>10 DEF PartOf
  <2> QED BY <1>3, <1>12, <2>1, <2>2
<1> HIDE DEF e
<1>14. c = Parts[k + 1]
  <2>1. c = CallsOf(rule, Begin, u, n, OpensAt(last, buffer))
    BY <1>1, <1>2
  <2>2. CASE rule = "single_quote"
    BY <1>3, <1>13, <2>1, <2>2
  <2>3. CASE rule # "single_quote"
    <3>1. CallsOf(Rule(u), Begin, u, n, OpensAt(last, buffer))
            = CallsOf(Rule(u), Begin, u, n, OpensAt(e, text))
      BY <1>3, <2>3, OpensQuotes
    <3> QED BY <1>3, <1>13, <2>1, <3>1
  <2> QED BY <2>2, <2>3
<1>15. c \in Seq(CallType) /\ GoodCalls(c)
  <2>1. c = CallsOf(Rule(u), Begin, u, Split(u), OpensAt(last, buffer))
    BY <1>1, <1>2, <1>3
  <2>2. Begin \in Int
    BY <1>2
  <2> HIDE DEF c
  <2> QED BY <1>3, <2>1, <2>2, CallsTyped
<1>16. calls' = calls \o c /\ ts' = Null /\ p' = last /\ status' \in {"scanning", "stuck"}
  BY DEF Emit
<1> HIDE DEF c
<1>17. GoodCalls(calls')
  <2>1. GoodCalls(calls)
    BY <1>4, LenProperties DEF LexInv, SplitsOffThePossessive, GoodCalls
  <2> QED BY <1>4, <1>15, <1>16, <2>1, GoodConcat
<1>18. calls' = FlattenSeq(SubSeq(Parts, 1, k + 1))
  <2>1. Parts \in Seq(Seq(CallType)) /\ k \in 0..(Len(Parts) - 1)
    BY <1>4, <1>8, PartsTyped
  <2>2. FlattenSeq(SubSeq(Parts, 1, k + 1)) = FlattenSeq(SubSeq(Parts, 1, k)) \o Parts[k + 1]
    BY <2>1, FlattenOneMore
  <2> QED BY <1>6, <1>14, <1>16, <2>2 DEF Made
<1>19. Begin' = e
  <2>1. taken' = taken /\ pe' = pe
    BY DEF Steady, pe
  <2> QED BY <1>1, <1>16, <2>1 DEF Begin, e
<1>20. ASSUME NEW i \in 1..(k + 1) PROVE buffer_size > 0 => ~Undecided(Whole[i][1], buffer_size)
  <2>1. i \in 1..k \/ i = k + 1
    BY <1>7
  <2> QED BY <1>3, <1>6, <1>7, <2>1 DEF Made
<1>21. /\ text' = text /\ onerror' = onerror /\ buffer_size' = buffer_size
       /\ Whole' = Whole /\ Parts' = Parts
       /\ \A b, m : Undecided(b, m)' <=> Undecided(b, m)
  <2>1. text' = text /\ onerror' = onerror /\ buffer_size' = buffer_size
    BY DEF Steady, input
  <2> QED BY <2>1, TextStays
<1>22. \E j \in 0..Len(Whole') : Made(j)'
  <2>1. Made(k + 1)'
    BY <1>11, <1>18, <1>19, <1>20, <1>21 DEF Made
  <2> QED BY <1>8, <1>21, <2>1
<1> QED BY <1>17, <1>22 DEF Progress

LEMMA EmitKeeps ==
  ASSUME LexInv, status = "scanning",
         NEW rule, NEW u, NEW n, NEW last, Takes(rule, u, n, last),
         Emit(rule, Start, last, n), Steady, te' \in Int
  PROVE  LexInv'
<1> LexTypes /\ Pointers /\ SeesText /\ Overlapped
  BY DEF LexInv
<1>1. LexTypes' /\ Pointers' /\ Held' /\ SeesText'
  BY EmitTypes, EmitPointers, EmitSees
<1>2. Progress'
  BY EmitProgress DEF Progress, Steady
<1>3. Overlapped'
  BY TextStays DEF Overlapped, Steady, input
<1>4. SplitsOffThePossessive'
  <2>1. ~garbled' => GoodCalls(calls')
    BY EmitProgress DEF Steady
  <2>2. DOMAIN calls' = 1..Len(calls')
    BY <1>1, LenProperties DEF LexTypes
  <2> QED BY <2>1, <2>2 DEF SplitsOffThePossessive, GoodCalls
<1> QED BY <1>1, <1>2, <1>3, <1>4 DEF LexInv

-----------------------------------------------------------------------------
(* One more byte. *)

LEMMA SeenIs ==
  ASSUME LexInv, status = "scanning", p < pe
  PROVE  /\ buffer[p + 1] \in Bytes /\ Seen \in Seq(Bytes) /\ Len(Seen) = Len(cs) + 1
         /\ Start + Len(Seen) = p + 1 /\ p + 1 \in Nat /\ p + 1 <= pe
         /\ Begin + Len(Seen) <= Len(text)
         /\ ~garbled => \A i \in 1..Len(Seen) : Seen[i] = text[Begin + i]
         /\ suffix + Counts(Seen) = Split(Seen)
<1> LexTypes /\ Pointers /\ SeesText /\ Held
  BY DEF LexInv
<1>1. /\ Len(cs) \in Nat /\ p \in Nat /\ pe \in Nat /\ taken \in Nat /\ Len(text) \in Nat
      /\ Start \in Nat /\ p = Start + Len(cs) /\ Begin = taken - pe + Start /\ taken <= Len(text)
  BY Scanning
<1>2. p + 1 \in 1..pe /\ p + 1 \in Nat /\ p + 1 <= pe
  BY <1>1
<1>3. cs \in Seq(Bytes) /\ buffer \in Seq(Bytes)
  BY DEF LexTypes
<1>4. buffer[p + 1] \in Bytes
  BY <1>2, <1>3, ElementOfSeq DEF pe
<1>5. /\ Seen \in Seq(Bytes) /\ Len(Seen) = Len(cs) + 1
      /\ \A i \in 1..Len(cs) : Seen[i] = cs[i]
      /\ Seen[Len(cs) + 1] = buffer[p + 1]
  BY <1>3, <1>4, OneMore DEF Seen
<1>6. Start + Len(Seen) = p + 1 /\ Begin + Len(Seen) <= Len(text)
  BY <1>1, <1>2, <1>5
<1>7. ASSUME ~garbled, NEW i \in 1..Len(Seen) PROVE Seen[i] = text[Begin + i]
  <2>1. CASE i \in 1..Len(cs)
    BY <1>5, <1>7, <2>1 DEF SeesText
  <2>2. CASE i = Len(cs) + 1
    <3>1. taken - pe + (p + 1) = Begin + i
      BY <1>1, <2>2
    <3>2. buffer[p + 1] = text[taken - pe + (p + 1)]
      BY <1>2, <1>7 DEF SeesText
    <3> QED BY <1>5, <2>2, <3>1, <3>2
  <2>3. i \in 1..Len(cs) \/ i = Len(cs) + 1
    BY <1>1, <1>5
  <2> QED BY <2>1, <2>2, <2>3
<1>8. suffix + Counts(Seen) = Split(Seen)
  <2>1. suffix = Split(cs)
    BY NothingToSplit DEF Held, Pointers
  <2>2. Split(Seen) = Split(cs) + Counts(Seen)
    BY <1>3, <1>4, PossessivesGrow DEF Seen
  <2> QED BY <2>1, <2>2
<1> QED BY <1>2, <1>4, <1>5, <1>6, <1>7, <1>8

(* A match that goes on for n bytes goes on for less, too.                 *)
LEMMA Decided ==
  ASSUME text \in Seq(Bytes), NEW b \in 0..Len(text), NEW u \in Seq(Bytes), Len(u) > 0,
         b + Len(u) <= Len(text), \A i \in 1..Len(u) : u[i] = text[b + i],
         ~Viable(u) \/ ~GoesOn(u), NEW n \in Nat, Len(u) <= n
  PROVE  ~Undecided(b, n)
<1> SUFFICES ASSUME Undecided(b, n) PROVE FALSE
  OBVIOUS
<1> DEFINE t == SubSeq(text, b + 1, b + n)
           k == Len(u)
<1>1. b + n <= Len(text) /\ Viable(t) /\ GoesOn(t)
  BY DEF Undecided
<1>2. Len(text) \in Nat /\ k \in Nat /\ n \in 0..(Len(text) - b) /\ k \in 0..n /\ k \in 1..n
  BY <1>1, LenProperties
<1>3. t \in Seq(Bytes) /\ Len(t) = n /\ SubSeq(Rest(b), 1, n) = t
  BY <1>2, PieceOfRest
<1>4. SubSeq(Rest(b), 1, k) = u
  BY PieceWith
<1>5. Rest(b) \in Seq(Bytes) /\ n \in 0..Len(Rest(b))
  BY <1>2, RestIs
<1>6. SubSeq(t, 1, k) = u
  BY <1>2, <1>3, <1>4, <1>5, PrefixOfPrefix
<1> HIDE DEF t, k
<1>7. SubSeq(t, 1, n) = t /\ n \in 1..Len(t) /\ k \in 1..n
  BY <1>2, <1>3, WholePrefix
<1>8. Viable(SubSeq(t, 1, k))
  BY <1>1, <1>3, <1>7, PrefixesGoOn
<1>9. k # n => GoesOn(SubSeq(t, 1, k))
  <2>1. k # n => k \in 1..(n - 1)
    BY <1>2
  <2> QED BY <1>1, <1>3, <1>7, <2>1, PrefixesGoOn
<1>10. k = n => GoesOn(SubSeq(t, 1, k))
  BY <1>1, <1>7
<1> QED BY <1>6, <1>8, <1>9, <1>10

LEMMA CompleteTakes ==
  ASSUME LexInv, status = "scanning", p < pe, Viable(Seen), ~GoesOn(Seen)
  PROVE  Takes(Rule(Seen), Seen, suffix + Counts(Seen), p + 1)
<1> LexTypes /\ Pointers
  BY DEF LexInv
<1>1. /\ Seen \in Seq(Bytes) /\ Start + Len(Seen) = p + 1 /\ p + 1 <= pe
      /\ Begin + Len(Seen) <= Len(text)
      /\ ~garbled => \A i \in 1..Len(Seen) : Seen[i] = text[Begin + i]
      /\ suffix + Counts(Seen) = Split(Seen)
  BY SeenIs
<1>2. Matches(Seen) /\ Len(Seen) > 0 /\ Len(Seen) \in Nat
  BY <1>1, UnmatchedGoesOn, ViableIs, LenProperties
<1>3. /\ text \in Seq(Bytes) /\ Begin \in 0..Len(text) /\ Start \in Nat /\ pe <= buffer_size
      /\ pe \in Nat /\ p \in Nat /\ buffer_size \in Nat /\ Len(text) \in Nat
  BY Scanning DEF LexTypes
<1>4. ASSUME ~garbled PROVE IsLongest(Len(Seen), Rest(Begin))
  <2>1. SubSeq(Rest(Begin), 1, Len(Seen)) = Seen
    BY <1>1, <1>3, <1>4, PieceWith
  <2>2. Rest(Begin) \in Seq(Bytes) /\ Len(Seen) \in 1..Len(Rest(Begin))
    <3>1. Rest(Begin) \in Seq(Bytes) /\ Len(Rest(Begin)) = Len(text) - Begin
      BY <1>3, RestIs
    <3> QED BY <1>1, <1>2, <1>3, <3>1
  <2> QED BY <2>1, <2>2, LongestWhenStuck
<1>5. Rule(Seen) # "single_quote"
  BY <1>1, RuleIs, QuoteGoesOn
<1>6. Len(Seen) <= buffer_size
  BY <1>1, <1>2, <1>3
<1>7. ~garbled => ~Undecided(Begin, buffer_size)
  BY <1>1, <1>2, <1>3, <1>6, Decided
<1> QED BY <1>1, <1>2, <1>4, <1>5, <1>7 DEF Takes

(* The longest match so far is taken when the next byte does not go on, or *)
(* there is none.                                                          *)
LEMMA BackTakes ==
  ASSUME LexInv, status = "scanning", ts # Null,
         (p < pe /\ ~Viable(Seen)) \/ (done /\ p = pe)
  PROVE  Takes(act, SubSeq(cs, 1, te - ts), suffix, te) /\ Start = ts
<1> DEFINE n == te - ts
           u == SubSeq(cs, 1, n)
           e == Begin + n
<1> LexTypes /\ Pointers /\ Held /\ SeesText
  BY DEF LexInv
<1>1. Start = ts /\ ts \in Nat /\ te \in Int /\ cs \in Seq(Bytes) /\ text \in Seq(Bytes)
  BY DEF Start, LexTypes
<1>2. /\ n \in 1..Len(cs) /\ Matches(u) /\ act = Rule(u) /\ suffix = Split(cs)
      /\ \A m \in 1..Len(cs) : Matches(SubSeq(cs, 1, m)) => m <= n
  BY DEF Held
<1>3. /\ Len(cs) \in Nat /\ p \in Nat /\ pe \in Nat /\ taken \in Nat /\ Len(text) \in Nat
      /\ p = ts + Len(cs) /\ Begin = taken - pe + ts /\ taken <= Len(text) /\ p <= pe
      /\ Begin \in 0..Len(text) /\ pe <= buffer_size /\ buffer_size \in Nat /\ pe <= taken
  BY <1>1, Scanning
<1>4. n \in 0..Len(cs) /\ n \in Nat /\ n > 0 /\ te = ts + n /\ te <= p /\ te \in Nat
  BY <1>1, <1>2, <1>3
<1> HIDE DEF n
<1>5. u \in Seq(Bytes) /\ Len(u) = n /\ \A i \in 1..n : u[i] = cs[i]
  BY <1>1, <1>4, Prefix
<1>6. suffix = Split(u)
  BY <1>1, <1>2, <1>4, PossessivesOfMatch
<1> HIDE DEF u
<1>7. ASSUME ~garbled, NEW i \in 1..n PROVE u[i] = text[Begin + i]
  <2>1. i \in 1..Len(cs)
    BY <1>3, <1>4
  <2> QED BY <1>5, <1>7, <2>1 DEF SeesText
<1>8. ASSUME ~garbled PROVE IsLongest(n, Rest(Begin))
  <2> DEFINE t == Rest(Begin)
             c == Len(cs)
  <2>1. t \in Seq(Bytes) /\ Len(t) = Len(text) - Begin
    BY <1>1, <1>3, RestIs
  <2>2. Begin + Len(cs) <= Len(text)
    BY <1>1, <1>3
  <2>3. SubSeq(t, 1, c) = cs
    BY <1>1, <1>3, <1>8, <2>2, PieceWith DEF SeesText
  <2> HIDE DEF t
  <2>4. c \in 1..Len(t) /\ c \in 0..Len(t) /\ n \in 1..c
    <3>1. n \in 1..c /\ c \in Nat
      BY <1>3, <1>4
    <3>2. PICK len \in Int : len = Len(t) /\ len = Len(text) - Begin
      BY <1>3, <2>1
    <3> QED BY <1>3, <2>2, <3>1, <3>2
  <2>5. ASSUME NEW m \in 1..c PROVE SubSeq(t, 1, m) = SubSeq(cs, 1, m)
    <3>1. m \in 0..c
      BY <1>3
    <3> QED BY <2>1, <2>3, <2>4, <3>1, PrefixOfPrefix
  <2>6. Matches(SubSeq(t, 1, n)) /\ \A m \in 1..c : Matches(SubSeq(t, 1, m)) => m <= n
    BY <1>2, <2>4, <2>5 DEF u
  <2>7. ASSUME c < Len(t) PROVE ~Viable(SubSeq(t, 1, c + 1))
    <3>1. CASE p < pe /\ ~Viable(Seen)
      <4>1. /\ Seen \in Seq(Bytes) /\ Len(Seen) = c + 1 /\ Begin + Len(Seen) <= Len(text)
            /\ \A i \in 1..Len(Seen) : Seen[i] = text[Begin + i]
        BY <1>8, <3>1, SeenIs
      <4>2. SubSeq(t, 1, Len(Seen)) = Seen
        BY <1>1, <1>3, <4>1, PieceWith DEF t
      <4> QED BY <3>1, <4>1, <4>2
    <3>2. CASE done /\ p = pe
      <4>1. taken = Len(text)
        BY <3>2 DEF Pointers
      <4> QED BY <1>1, <1>3, <2>1, <2>7, <3>2, <4>1
    <3> QED BY <3>1, <3>2
  <2> HIDE DEF c
  <2>8. IsLongest(n, t)
    BY <2>1, <2>4, <2>6, <2>7, LongestOfSeen
  <2> QED BY <2>8 DEF t
<1>9. e = taken - pe + te /\ e \in Nat
  BY <1>1, <1>3, <1>4
<1> HIDE DEF e
<1>10. ASSUME ~garbled PROVE OpensAt(te, buffer) = OpensAt(e, text)
  <2>1. CASE te < pe
    <3>1. te + 1 \in 1..pe /\ taken - pe + (te + 1) = e + 1 /\ e < Len(text)
      BY <1>3, <1>4, <1>9, <2>1
    <3>2. buffer[te + 1] = text[taken - pe + (te + 1)]
      BY <1>10, <3>1 DEF SeesText
    <3> QED BY <2>1, <3>1, <3>2 DEF OpensAt, pe
  <2>2. CASE ~(te < pe)
    <3>1. p = pe /\ te = pe
      BY <1>3, <1>4, <2>2
    <3>2. done
      BY <1>3, <3>1
    <3>3. taken = Len(text)
      BY <3>2 DEF Pointers
    <3>4. e = Len(text) /\ ~(e < Len(text))
      BY <1>3, <1>9, <3>1, <3>3
    <3> QED BY <2>2, <3>4 DEF OpensAt, pe
  <2> QED BY <2>1, <2>2
<1>11. ASSUME ~garbled PROVE ~Undecided(Begin, buffer_size)
  <2>1. CASE p < pe /\ ~Viable(Seen)
    <3>1. /\ Seen \in Seq(Bytes) /\ Start + Len(Seen) = p + 1 /\ Len(Seen) = Len(cs) + 1
          /\ Begin + Len(Seen) <= Len(text)
          /\ \A i \in 1..Len(Seen) : Seen[i] = text[Begin + i]
      BY <1>11, <2>1, SeenIs
    <3>2. Len(Seen) > 0 /\ Len(Seen) <= buffer_size
      BY <1>1, <1>3, <2>1, <3>1
    <3> QED BY <1>1, <1>3, <2>1, <3>1, <3>2, Decided
  <2>2. CASE done /\ p = pe
    <3>1. taken = Len(text) /\ pe < buffer_size
      BY <2>2 DEF Pointers
    <3>2. ~(Begin + buffer_size <= Len(text))
      BY <1>1, <1>3, <3>1
    <3> QED BY <3>2 DEF Undecided
  <2> QED BY <2>1, <2>2
<1>12. Takes(act, u, suffix, te)
  BY <1>1, <1>2, <1>3, <1>4, <1>5, <1>6, <1>7, <1>8, <1>10, <1>11 DEF Takes, u, e
<1> QED BY <1>1, <1>12 DEF u, n

-----------------------------------------------------------------------------
(* What a copy makes of the bytes. *)

Copied(f, b, from, have, low) ==
  f = [i \in (low + 1)..have |-> IF from + i <= have THEN f[from + i] ELSE b[from + i]]

LEMMA CopiedExists ==
  ASSUME NEW b, NEW from \in Nat, from > 0, NEW have \in Nat
  PROVE  \E f : Copied(f, b, from, have, 0)
<1> DEFINE T == {n \in Nat : n <= have => \E f : Copied(f, b, from, have, have - n)}
<1>1. 0 \in T
  <2> DEFINE g == [i \in (have + 1)..have |-> b[from + i]]
  <2>1. (have + 1)..have = {}
    OBVIOUS
  <2>2. g = [i \in (have + 1)..have |-> IF from + i <= have THEN g[from + i] ELSE b[from + i]]
    BY <2>1
  <2>3. Copied(g, b, from, have, have - 0)
    BY <2>2 DEF Copied
  <2> QED BY <2>3
<1>2. ASSUME NEW n \in Nat, n \in T PROVE n + 1 \in T
  <2> SUFFICES ASSUME n + 1 <= have PROVE \E f : Copied(f, b, from, have, have - (n + 1))
    OBVIOUS
  <2>1. PICK f : Copied(f, b, from, have, have - n)
    BY <1>2
  <2> DEFINE low == have - (n + 1)
             g == [i \in (low + 1)..have |->
                     IF i = low + 1 THEN (IF from + i <= have THEN f[from + i] ELSE b[from + i])
                     ELSE f[i]]
  <2>2. low \in Nat /\ have - n = low + 1
    OBVIOUS
  <2>3. ASSUME NEW i \in (low + 1)..have
        PROVE  g[i] = IF from + i <= have THEN g[from + i] ELSE b[from + i]
    <3>1. from + i <= have => from + i \in (low + 1)..have /\ from + i # low + 1
                              /\ g[from + i] = f[from + i]
      BY <2>2
    <3>2. CASE i = low + 1
      BY <2>3, <3>1, <3>2
    <3>3. CASE i # low + 1
      <4>1. i \in ((have - n) + 1)..have /\ g[i] = f[i]
        BY <2>2, <3>3
      <4>2. f[i] = IF from + i <= have THEN f[from + i] ELSE b[from + i]
        BY <2>1, <4>1 DEF Copied
      <4> QED BY <3>1, <4>1, <4>2
    <3> QED BY <3>2, <3>3
  <2>4. g = [i \in (low + 1)..have |-> g[i]]
    OBVIOUS
  <2> HIDE DEF g
  <2>5. [i \in (low + 1)..have |-> g[i]]
          = [i \in (low + 1)..have |-> IF from + i <= have THEN g[from + i] ELSE b[from + i]]
    BY <2>3
  <2>6. Copied(g, b, from, have, low)
    BY <2>4, <2>5, Zenon DEF Copied
  <2> QED BY <2>6
<1> HIDE DEF T
<1>3. have \in T
  BY <1>1, <1>2, InductionOnNat
<1>4. have - have = 0 /\ have <= have
  OBVIOUS
<1> QED BY <1>3, <1>4 DEF T

LEMMA BackwardsIs ==
  ASSUME NEW b \in Seq(Bytes), NEW from \in Nat, from > 0, NEW have \in Nat,
         from + have = Len(b)
  PROVE  Backwards(b, from, have) \in Seq(Bytes) /\ Len(Backwards(b, from, have)) = have
<1> DEFINE f == CHOOSE f : Copied(f, b, from, have, 0)
           T == {n \in Nat : \A i \in 1..have : have - i <= n => f[i] \in Bytes}
<1>1. Copied(f, b, from, have, 0)
  BY CopiedExists
<1>2. Backwards(b, from, have) = f
  BY DEF Backwards, Copied
<1> HIDE DEF f
<1>3. f = [i \in 1..have |-> IF from + i <= have THEN f[from + i] ELSE b[from + i]]
  <2>1. 0 + 1 = 1
    OBVIOUS
  <2> QED BY <1>1, <2>1 DEF Copied
<1>4. ASSUME NEW i \in 1..have
      PROVE  /\ f[i] = IF from + i <= have THEN f[from + i] ELSE b[from + i]
             /\ b[from + i] \in Bytes
  <2>1. from + i \in 1..Len(b)
    OBVIOUS
  <2>2. b[from + i] \in Bytes
    BY <2>1, ElementOfSeq
  <2> QED BY <1>3, <2>2
<1>5. 0 \in T
  <2> SUFFICES ASSUME NEW i \in 1..have, have - i <= 0 PROVE f[i] \in Bytes
    OBVIOUS
  <2>1. ~(from + i <= have)
    OBVIOUS
  <2> QED BY <1>4, <2>1
<1>6. ASSUME NEW n \in Nat, n \in T PROVE n + 1 \in T
  <2> SUFFICES ASSUME NEW i \in 1..have, have - i <= n + 1 PROVE f[i] \in Bytes
    OBVIOUS
  <2>1. CASE from + i <= have
    <3>1. from + i \in 1..have /\ have - (from + i) <= n
      BY <2>1
    <3>2. f[from + i] \in Bytes
      BY <1>6, <3>1
    <3> QED BY <1>4, <2>1, <3>2
  <2>2. CASE ~(from + i <= have)
    BY <1>4, <2>2
  <2> QED BY <2>1, <2>2
<1> HIDE DEF T
<1>7. have \in T
  BY <1>5, <1>6, InductionOnNat
<1>8. ASSUME NEW i \in 1..have PROVE f[i] \in Bytes
  BY <1>7 DEF T
<1>9. f \in [1..have -> Bytes]
  BY <1>3, <1>8
<1>10. f \in Seq(Bytes) /\ Len(f) = have
  BY <1>9, LenProperties
<1> QED BY <1>2, <1>10

LEMMA CopiesAre ==
  ASSUME NEW b \in Seq(Bytes), NEW from \in Nat, NEW have \in Nat, from + have = Len(b),
         NEW c \in Copies(b, from, have)
  PROVE  /\ c \in Seq(Bytes) /\ Len(c) = have
         /\ c # SubSeq(b, from + 1, from + have) => 0 < from /\ from < have
<1> DEFINE right == SubSeq(b, from + 1, from + have)
<1>1. right \in Seq(Bytes) /\ Len(right) = have
  <2>1. from + have \in from..Len(b) /\ (from + have) - from = have
    OBVIOUS
  <2> QED BY <2>1, Piece
<1> HIDE DEF right
<1>2. c = right \/ (0 < from /\ from < have /\ c = Backwards(b, from, have))
  BY DEF Copies, right
<1>3. 0 < from /\ c = Backwards(b, from, have) => c \in Seq(Bytes) /\ Len(c) = have
  BY BackwardsIs
<1>4. c \in Seq(Bytes) /\ Len(c) = have
  BY <1>1, <1>2, <1>3
<1>5. c # right => 0 < from /\ from < have
  BY <1>2
<1> QED BY <1>4, <1>5 DEF right
-----------------------------------------------------------------------------
(* Every step keeps the invariant. *)

LEMMA ExtendKeeps == LexInv /\ Extend => LexInv'
<1> SUFFICES ASSUME LexInv, Extend PROVE LexInv'
  OBVIOUS
<1> LexTypes /\ Pointers /\ Held /\ SeesText /\ Progress /\ Overlapped /\ SplitsOffThePossessive
  BY DEF LexInv
<1>1. /\ status = "scanning" /\ p < pe /\ Viable(Seen) /\ GoesOn(Seen)
      /\ ts' = Start /\ cs' = Seen /\ p' = p + 1 /\ status' = status
      /\ te' = IF Matches(Seen) THEN p + 1 ELSE te
      /\ act' = IF Matches(Seen) THEN Rule(Seen) ELSE act
      /\ suffix' = suffix + Counts(Seen)
      /\ input' = input /\ text' = text /\ buffer_size' = buffer_size /\ onerror' = onerror
      /\ taken' = taken /\ buffer' = buffer /\ pe' = pe
      /\ done' = done /\ offset' = offset /\ calls' = calls /\ garbled' = garbled
  BY DEF Extend, input, pe
<1>2. /\ Len(cs) \in Nat /\ p \in Nat /\ pe \in Nat /\ taken \in Nat /\ Len(text) \in Nat
      /\ Start \in Nat /\ Start <= p /\ p = Start + Len(cs) /\ Begin = taken - pe + Start
      /\ pe <= taken
  BY <1>1, Scanning
<1>3. /\ Seen \in Seq(Bytes) /\ Len(Seen) = Len(cs) + 1 /\ buffer[p + 1] \in Bytes
      /\ Start + Len(Seen) = p + 1 /\ p + 1 \in Nat /\ p + 1 <= pe
      /\ ~garbled => \A i \in 1..Len(Seen) : Seen[i] = text[Begin + i]
      /\ suffix + Counts(Seen) = Split(Seen)
  BY <1>1, SeenIs
<1>4. ts' # Null /\ Begin' = Begin
  BY <1>1, <1>2 DEF Begin, Null
<1>5. LexTypes'
  <2>1. suffix' \in Nat
    BY <1>1, <1>3, PossessivesFinite
  <2>2. te' \in Int
    BY <1>1, <1>3 DEF LexTypes
  <2> QED BY <1>1, <1>2, <1>3, <2>1, <2>2 DEF LexTypes
<1>6. Pointers'
  BY <1>1, <1>2, <1>3, <1>4 DEF Pointers
<1>7. Held'
  <2>1. CASE Matches(Seen)
    <3>1. te' - ts' = Len(Seen) /\ Len(Seen) \in 1..Len(Seen)
      <4>1. te' = p + 1 /\ ts' = Start
        BY <1>1, <2>1
      <4>2. PICK len \in Nat : len = Len(Seen) /\ len > 0 /\ Start + len = p + 1
        BY <1>2, <1>3
      <4> QED BY <1>2, <4>1, <4>2
    <3>0. SubSeq(Seen, 1, Len(Seen)) = Seen
      BY <1>3, WholePrefix
    <3>2. \A m \in 1..Len(Seen) : m <= Len(Seen)
      BY <1>2, <1>3
    <3> QED BY <1>1, <1>3, <2>1, <3>0, <3>1, <3>2 DEF Held
  <2>2. CASE ~Matches(Seen)
    <3>1. ts # Null
      <4> SUFFICES ASSUME ts = Null PROVE FALSE
        OBVIOUS
      <4>1. Len(cs) = 0
        BY EmptySeq DEF Pointers
      <4>2. Len(Seen) = 1
        BY <1>3, <4>1
      <4> QED BY <1>3, <2>2, <4>2, OneByteMatches
    <3>2. Start = ts /\ ts' = ts /\ te' = te /\ act' = act
      BY <1>1, <2>2, <3>1 DEF Start
    <3> DEFINE n == te - ts
    <3>3. /\ n \in 1..Len(cs) /\ Matches(SubSeq(cs, 1, n)) /\ act = Rule(SubSeq(cs, 1, n))
          /\ \A m \in 1..Len(cs) : Matches(SubSeq(cs, 1, m)) => m <= n
      BY <3>1 DEF Held
    <3> HIDE DEF n
    <3>4. \A m \in 0..Len(cs) : SubSeq(Seen, 1, m) = SubSeq(cs, 1, m)
      BY <1>3, OneMore DEF Seen, LexTypes
    <3>5. n \in 0..Len(cs) /\ n \in 1..Len(Seen)
      BY <1>2, <1>3, <3>3
    <3>6. Matches(SubSeq(Seen, 1, n)) /\ act = Rule(SubSeq(Seen, 1, n))
      BY <3>3, <3>4, <3>5
    <3>7. ASSUME NEW m \in 1..Len(Seen), Matches(SubSeq(Seen, 1, m)) PROVE m <= n
      <4>1. m # Len(Seen)
        BY <1>3, <2>2, <3>7, WholePrefix
      <4>2. m \in 1..Len(cs) /\ m \in 0..Len(cs)
        BY <1>2, <1>3, <4>1
      <4> QED BY <3>3, <3>4, <3>7, <4>2
    <3> QED BY <1>1, <1>3, <3>2, <3>5, <3>6, <3>7 DEF Held, n
  <2> QED BY <2>1, <2>2
<1>8. SeesText'
  BY <1>1, <1>3, <1>4 DEF SeesText
<1>9. Progress' /\ Overlapped'
  BY <1>1, <1>4, TextStays DEF Progress, Made, Overlapped
<1>10. SplitsOffThePossessive'
  BY <1>1 DEF SplitsOffThePossessive
<1> QED BY <1>5, <1>6, <1>7, <1>8, <1>9, <1>10 DEF LexInv

LEMMA CompleteKeeps == LexInv /\ Complete => LexInv'
<1> SUFFICES ASSUME LexInv, Complete PROVE LexInv'
  OBVIOUS
<1>1. /\ status = "scanning" /\ p < pe /\ Viable(Seen) /\ ~GoesOn(Seen)
      /\ te' = p + 1 /\ Steady
      /\ Emit(Rule(Seen), Start, p + 1, suffix + Counts(Seen))
  BY DEF Complete, Steady
<1>2. Takes(Rule(Seen), Seen, suffix + Counts(Seen), p + 1) /\ p + 1 \in Nat
  BY <1>1, CompleteTakes, SeenIs
<1>3. te' \in Int
  BY <1>1, <1>2
<1> QED BY <1>1, <1>2, <1>3, EmitKeeps

LEMMA BackKeeps == LexInv /\ (BackTrack \/ EndOfText) => LexInv'
<1> SUFFICES ASSUME LexInv, BackTrack \/ EndOfText PROVE LexInv'
  OBVIOUS
<1>1. /\ status = "scanning" /\ Emit(act, ts, te, suffix) /\ te' = te /\ Steady
      /\ (p < pe /\ ~Viable(Seen)) \/ (done /\ p = pe /\ ts # Null)
  BY DEF BackTrack, EndOfText, AtEof, Steady
<1>2. ts # Null
  <2> SUFFICES ASSUME ts = Null PROVE FALSE
    OBVIOUS
  <2>1. Len(cs) = 0
    BY EmptySeq DEF LexInv, Pointers
  <2>2. p < pe /\ ~Viable(Seen)
    BY <1>1
  <2>3. Seen \in Seq(Bytes) /\ Len(Seen) = 1
    BY <1>1, <2>1, <2>2, SeenIs
  <2> QED BY <2>2, <2>3, OneByteMatches DEF Viable
<1>3. Takes(act, SubSeq(cs, 1, te - ts), suffix, te) /\ Start = ts
  BY <1>1, <1>2, BackTakes
<1>4. te' \in Int
  BY <1>1 DEF LexInv, LexTypes
<1> QED BY <1>1, <1>3, <1>4, EmitKeeps

LEMMA RefuseKeeps == LexInv /\ Refuse => LexInv'
<1> SUFFICES ASSUME LexInv, Refuse PROVE LexInv'
  OBVIOUS
<1>1. /\ status = "reading" /\ pe = buffer_size /\ status' = "too_long"
      /\ text' = text /\ buffer_size' = buffer_size /\ onerror' = onerror
      /\ taken' = taken /\ buffer' = buffer /\ pe' = pe /\ done' = done /\ p' = p
      /\ ts' = ts /\ te' = te /\ act' = act /\ cs' = cs /\ suffix' = suffix
      /\ offset' = offset /\ calls' = calls /\ garbled' = garbled
  BY DEF Refuse, Full, input, state, pe
<1>2. Begin' = Begin
  BY <1>1 DEF Begin
<1>3. LexTypes' /\ Held' /\ SeesText'
  BY <1>1, <1>2 DEF LexInv, LexTypes, Held, SeesText
<1>4. Pointers'
  BY <1>1 DEF LexInv, Pointers
<1>5. Progress' /\ Overlapped'
  BY <1>1, <1>2, TextStays DEF LexInv, Progress, Made, Overlapped
<1>6. SplitsOffThePossessive'
  BY <1>1 DEF LexInv, SplitsOffThePossessive
<1> QED BY <1>3, <1>4, <1>5, <1>6 DEF LexInv

LEMMA ReadKeeps == LexInv /\ Read => LexInv'
<1> SUFFICES ASSUME LexInv, Read PROVE LexInv'
  OBVIOUS
<1> LexTypes /\ Pointers /\ Held /\ SeesText /\ Progress /\ Overlapped /\ SplitsOffThePossessive
  BY DEF LexInv
<1> DEFINE space == buffer_size - pe
           left == Len(text) - taken
           nread == IF left < space THEN left ELSE space
           more == SubSeq(text, taken + 1, taken + nread)
<1>1. /\ status = "reading" /\ pe # buffer_size /\ status' = "scanning" /\ p' = pe
      /\ text' = text /\ buffer_size' = buffer_size /\ onerror' = onerror
      /\ taken' = taken + nread /\ buffer' = buffer \o more /\ done' = (nread < space)
      /\ ts' = ts /\ te' = te /\ act' = act /\ cs' = cs /\ suffix' = suffix
      /\ offset' = offset /\ calls' = calls /\ garbled' = garbled
  BY DEF Read, Full, input, state
<1>2. /\ Len(text) \in Nat /\ taken \in Nat /\ taken <= Len(text) /\ pe \in Nat /\ pe <= taken
      /\ pe < buffer_size /\ buffer_size \in Nat /\ text \in Seq(Bytes) /\ buffer \in Seq(Bytes)
      /\ offset = pe - taken /\ pe = Len(buffer) /\ Len(cs) \in Nat
  BY <1>1, LenProperties DEF LexTypes, Pointers, pe
<1>3. /\ nread \in Nat /\ taken + nread \in 0..Len(text) /\ taken + nread \in taken..Len(text)
      /\ pe + nread <= buffer_size /\ (taken + nread) - taken = nread
      /\ nread < space => taken + nread = Len(text) /\ pe + nread < buffer_size
      /\ ~(nread < space) => pe + nread = buffer_size
  BY <1>2
<1> HIDE DEF nread, space
<1>4. more \in Seq(Bytes) /\ Len(more) = nread /\ \A i \in 1..nread : more[i] = text[taken + i]
  <2> DEFINE e == taken + nread
  <2>1. e \in taken..Len(text) /\ e - taken = nread
    BY <1>3
  <2> HIDE DEF e
  <2>2. /\ SubSeq(text, taken + 1, e) \in Seq(Bytes)
        /\ Len(SubSeq(text, taken + 1, e)) = e - taken
        /\ \A i \in 1..(e - taken) : SubSeq(text, taken + 1, e)[i] = text[taken + i]
    BY <1>2, <2>1, Piece
  <2> QED BY <2>1, <2>2 DEF e
<1> HIDE DEF more
<1>5. /\ buffer' \in Seq(Bytes) /\ Len(buffer') = Len(buffer) + Len(more)
      /\ \A i \in 1..(Len(buffer) + Len(more)) :
           buffer'[i] = IF i <= Len(buffer) THEN buffer[i] ELSE more[i - Len(buffer)]
  BY <1>1, <1>2, <1>4, ConcatProperties
<1>6. pe' = pe + nread
  BY <1>2, <1>4, <1>5 DEF pe
<1>7. taken' - pe' = taken - pe /\ Begin' = Begin
  <2>1. taken' - pe' = taken - pe
    BY <1>1, <1>2, <1>3, <1>6
  <2>2. CASE ts # Null
    BY <1>1, <2>1, <2>2 DEF Begin
  <2>3. CASE ts = Null
    <3>1. Begin = taken /\ Begin' = (taken' - pe') + pe
      BY <1>1, <2>3 DEF Begin
    <3> QED BY <1>2, <2>1, <3>1
  <2> QED BY <2>1, <2>2, <2>3
<1>8. LexTypes'
  BY <1>1, <1>2, <1>3, <1>5 DEF LexTypes
<1>9. Pointers'
  <2>1. pe' <= buffer_size' /\ pe' <= taken' /\ offset' = pe' - taken' /\ p' <= pe'
    BY <1>1, <1>2, <1>3, <1>6
  <2>2. ts' = Null => cs' = <<>> /\ suffix' = 0
    BY <1>1 DEF Pointers
  <2>3. ts' # Null => p' = ts' + Len(cs')
    <3>1. ts # Null => ts = 0 /\ Len(cs) = pe
      BY <1>1 DEF Pointers
    <3> QED BY <1>1, <1>2, <3>1
  <2>4. ~done' => pe' = buffer_size'
    BY <1>1, <1>3, <1>6
  <2>5. done' => taken' = Len(text') /\ pe' < buffer_size'
    BY <1>1, <1>3, <1>6
  <2> QED BY <1>1, <2>1, <2>2, <2>3, <2>4, <2>5 DEF Pointers
<1>10. Held'
  BY <1>1 DEF Held
<1>11. SeesText'
  <2>1. ASSUME ~garbled, NEW i \in 1..pe' PROVE buffer'[i] = text[taken - pe + i]
    <3>1. i \in 1..(Len(buffer) + Len(more)) /\ i \in Nat /\ 1 <= i /\ i <= pe + nread
      BY <1>2, <1>3, <1>4, <1>6
    <3>2. CASE i <= pe
      <4>1. i \in 1..pe
        BY <1>2, <3>1, <3>2
      <4> QED BY <1>2, <1>5, <2>1, <3>1, <3>2, <4>1 DEF SeesText
    <3>3. CASE ~(i <= pe)
      <4>1. i - pe \in 1..nread /\ taken + (i - pe) = taken - pe + i
        BY <1>2, <1>3, <3>1, <3>3
      <4>2. buffer'[i] = more[i - pe]
        BY <1>2, <1>5, <3>1, <3>3
      <4> QED BY <1>4, <4>1, <4>2
    <3> QED BY <3>2, <3>3
  <2> QED BY <1>1, <1>7, <2>1 DEF SeesText
<1>12. Progress' /\ Overlapped'
  BY <1>1, <1>7, TextStays DEF Progress, Made, Overlapped
<1>13. SplitsOffThePossessive'
  BY <1>1 DEF SplitsOffThePossessive
<1> QED BY <1>8, <1>9, <1>10, <1>11, <1>12, <1>13 DEF LexInv

(* The match that has begun is undecided after what it has so far.         *)
LEMMA HeldIsLong ==
  ASSUME LexInv, ts # Null, ~garbled, Begin \in 0..Len(text), Begin + Len(cs) <= Len(text)
  PROVE  Long(Len(cs)) /\ Len(cs) \in 1..MaxText
<1>1. /\ text \in Seq(Bytes) /\ cs \in Seq(Bytes) /\ Viable(cs) /\ GoesOn(cs)
      /\ \A i \in 1..Len(cs) : cs[i] = text[Begin + i]
      /\ Len(text) <= MaxText
  BY DEF LexInv, LexTypes, Held, SeesText
<1>2. Len(cs) \in Nat /\ Len(cs) > 0 /\ Len(text) \in Nat /\ MaxText \in Nat
  BY <1>1, ViableIs, LenProperties, LexerAssumption
<1>3. cs = SubSeq(text, Begin + 1, Begin + Len(cs))
  BY <1>1, PieceWith
<1>4. Undecided(Begin, Len(cs))
  BY <1>1, <1>3 DEF Undecided
<1>5. Chain(Whole, 0) /\ Len(Whole) \in Nat
  BY <1>1, WholeChains, PartsTyped
<1>6. PICK k \in 0..Len(Whole) : Made(k)
  BY DEF LexInv, Progress
<1>7. Begin < Len(text)
  BY <1>2
<1>8. k < Len(Whole) /\ Begin = Whole[k + 1][1]
  BY <1>5, <1>6, <1>7 DEF Made
<1>9. k + 1 \in DOMAIN Whole
  <2>1. DOMAIN Whole = 1..Len(Whole)
    BY <1>5, LenProperties DEF Chain
  <2> QED BY <1>5, <1>8, <2>1
<1>10. Begin \in Starts
  BY <1>8, <1>9 DEF Starts
<1>11. Len(cs) \in 1..MaxText
  BY <1>1, <1>2
<1> QED BY <1>4, <1>10, <1>11 DEF Long

LEMMA NextBufferKeeps == LexInv /\ NextBuffer => LexInv'
<1> SUFFICES ASSUME LexInv, NextBuffer PROVE LexInv'
  OBVIOUS
<1> LexTypes /\ Pointers /\ Held /\ SeesText /\ Progress /\ Overlapped /\ SplitsOffThePossessive
  BY DEF LexInv
<1>1. /\ status = "scanning" /\ p = pe /\ ~(done /\ ts # Null)
      /\ status' = IF done THEN "finished" ELSE "reading"
      /\ text' = text /\ buffer_size' = buffer_size /\ onerror' = onerror
      /\ taken' = taken /\ done' = done /\ p' = p /\ act' = act /\ cs' = cs /\ suffix' = suffix
      /\ calls' = calls
  BY DEF NextBuffer, input
<1>2. /\ Len(cs) \in Nat /\ p \in Nat /\ pe \in Nat /\ taken \in Nat /\ Len(text) \in Nat
      /\ Start \in Nat /\ Start <= p /\ p = Start + Len(cs) /\ Begin = taken - pe + Start
      /\ pe <= taken /\ taken <= Len(text) /\ pe <= buffer_size /\ buffer_size \in Nat
      /\ Begin \in 0..Len(text)
  BY <1>1, Scanning
<1>3. offset = pe - taken /\ (~done => pe = buffer_size) /\ (done => taken = Len(text))
      /\ buffer \in Seq(Bytes) /\ cs \in Seq(Bytes) /\ te \in Int
  BY <1>1 DEF Pointers, LexTypes
<1>4. CASE ts = Null
  <2>1. buffer' = <<>> /\ offset' = offset - (buffer_size - 0) /\ ts' = Null /\ te' = te
        /\ garbled' = garbled /\ cs = <<>> /\ suffix = 0
    BY <1>4 DEF NextBuffer, OffsetAfter, Pointers
  <2>2. pe' = 0 /\ Len(cs) = 0 /\ 1..0 = {}
    BY <2>1, EmptySeq DEF pe
  <2>3. Begin = taken /\ Begin' = taken
    BY <1>1, <1>2, <1>4, <2>1 DEF Begin, Start
  <2>4. LexTypes'
    <3>1. offset' \in Int
      BY <1>2, <1>3, <2>1
    <3> QED BY <1>1, <1>3, <2>1, <3>1, EmptySeq DEF LexTypes
  <2>5. Pointers'
    <3>1. pe' <= buffer_size' /\ pe' <= taken'
      BY <1>1, <1>2, <2>2
    <3>2. ~done => offset' = pe' - taken'
      <4>1. offset' = (pe - taken) - (buffer_size - 0) /\ pe' = 0 /\ taken' = taken
        BY <1>1, <1>3, <2>1, <2>2
      <4>2. ~done => (pe - taken) - (buffer_size - 0) = 0 - taken
        BY <1>2, <1>3
      <4> QED BY <4>1, <4>2
    <3> QED BY <1>1, <1>3, <2>1, <2>2, <3>1, <3>2 DEF Pointers
  <2>6. Held'
    BY <2>1 DEF Held
  <2>7. SeesText'
    BY <1>1, <2>1, <2>2 DEF SeesText
  <2>8. Progress' /\ Overlapped'
    BY <1>1, <2>1, <2>3, TextStays DEF Progress, Made, Overlapped
  <2>9. SplitsOffThePossessive'
    BY <1>1, <2>1 DEF SplitsOffThePossessive
  <2> QED BY <2>4, <2>5, <2>6, <2>7, <2>8, <2>9 DEF LexInv
<1>5. CASE ts # Null
  <2> DEFINE have == pe - ts
  <2>1. /\ buffer' \in Copies(buffer, ts, have)
        /\ garbled' = (garbled \/ buffer' # SubSeq(buffer, ts + 1, pe))
        /\ te' = te - ts /\ ts' = 0 /\ offset' = offset - (buffer_size - have)
        /\ ~done /\ status' = "reading" /\ Start = ts
    BY <1>1, <1>5 DEF NextBuffer, OffsetAfter, Start
  <2>2. have = Len(cs) /\ ts \in Nat /\ have \in Nat /\ ts + have = pe /\ pe = Len(buffer)
    BY <1>1, <1>2, <2>1 DEF pe
  <2> HIDE DEF have
  <2>3. /\ buffer' \in Seq(Bytes) /\ Len(buffer') = have
        /\ buffer' # SubSeq(buffer, ts + 1, pe) => 0 < ts /\ ts < have
    <3>1. ts + have = Len(buffer)
      BY <2>2
    <3>2. buffer \in Seq(Bytes) /\ ts \in Nat /\ have \in Nat
      BY <1>3, <2>2
    <3>3. buffer' \in Copies(buffer, ts, have) /\ pe = ts + have
      BY <2>1, <2>2
    <3> HIDE DEF pe
    <3> QED BY <3>1, <3>2, <3>3, CopiesAre
  <2>4. pe' = have /\ ts' # Null /\ pe = buffer_size
    BY <1>3, <2>1, <2>3 DEF pe, Null
  <2>5. Begin' = Begin /\ Begin' = taken - have
    <3>1. Begin' = taken - have + 0
      BY <1>1, <2>1, <2>4 DEF Begin
    <3>2. Start = ts
      BY <2>1
    <3>3. Begin = taken - pe + ts
      BY <1>2, <3>2
    <3>4. taken - pe + ts = taken - have /\ taken - have + 0 = taken - have
      BY <1>2, <2>2
    <3> QED BY <3>1, <3>3, <3>4
  <2>6. LexTypes'
    <3>1. offset' \in Int /\ te' \in Int /\ garbled' \in BOOLEAN
      BY <1>2, <1>3, <2>1, <2>2 DEF LexTypes
    <3> QED BY <1>1, <1>3, <2>1, <2>3, <3>1 DEF LexTypes
  <2>7. Pointers'
    <3>1. pe' <= buffer_size' /\ pe' <= taken'
      <4>1. have <= buffer_size /\ have <= taken
        BY <1>2, <2>2
      <4> QED BY <1>1, <2>4, <4>1
    <3>2. offset' = pe' - taken'
      <4>1. offset' = (pe - taken) - (buffer_size - have) /\ pe' = have /\ taken' = taken
        BY <1>1, <1>3, <2>1, <2>4
      <4>2. (pe - taken) - (buffer_size - have) = have - taken
        BY <1>2, <2>2, <2>4
      <4> QED BY <4>1, <4>2
    <3> QED BY <1>1, <2>1, <2>2, <2>4, <3>1, <3>2 DEF Pointers
  <2>8. Held'
    <3>1. te' - ts' = te - ts
      BY <1>3, <2>1, <2>2
    <3> QED BY <1>1, <1>5, <3>1 DEF Held
  <2>9. ASSUME ~garbled' PROVE \A i \in 1..pe' : buffer'[i] = text[taken - have + i]
    <3>1. ~garbled /\ buffer' = SubSeq(buffer, ts + 1, pe)
      BY <2>1, <2>9
    <3> SUFFICES ASSUME NEW i \in 1..have PROVE buffer'[i] = text[taken - have + i]
      BY <2>4
    <3>2. buffer'[i] = buffer[ts + i]
      <4>1. pe \in ts..Len(buffer) /\ pe - ts = have
        BY <1>2, <2>2
      <4> HIDE DEF pe
      <4> QED BY <1>3, <2>2, <3>1, <4>1, Piece
    <3>3. ts + i \in 1..pe /\ taken - pe + (ts + i) = taken - have + i
      <4>1. pe = ts + have /\ ts \in Nat /\ have \in Nat /\ taken \in Nat
        BY <1>2, <2>2
      <4> HIDE DEF pe
      <4> QED BY <4>1
    <3>4. buffer[ts + i] = text[taken - pe + (ts + i)]
      BY <3>1, <3>3 DEF SeesText
    <3> QED BY <3>2, <3>3, <3>4
  <2>10. SeesText'
    BY <1>1, <2>1, <2>4, <2>5, <2>9 DEF SeesText
  <2>11. Progress'
    BY <1>1, <2>1, <2>5, TextStays DEF Progress, Made
  <2>12. Overlapped'
    <3>1. CASE garbled
      BY <1>1, <3>1, TextStays DEF Overlapped
    <3>2. CASE ~garbled /\ garbled'
      <4>0. ts < have
        <5>1. buffer' # SubSeq(buffer, ts + 1, pe)
          BY <2>1, <3>2
        <5> QED BY <2>3, <5>1
      <4>1. 2 * have > buffer_size
        <5>1. buffer_size = ts + have
          BY <2>2, <2>4
        <5> QED BY <2>2, <4>0, <5>1
      <4>2. Begin + Len(cs) <= Len(text)
        BY <1>2, <2>1, <2>2
      <4>3. Long(have) /\ have \in 1..MaxText
        BY <1>2, <1>5, <2>2, <3>2, <4>2, HeldIsLong
      <4> QED BY <1>1, <4>1, <4>3, TextStays DEF Overlapped
    <3>3. CASE ~garbled'
      BY <3>3 DEF Overlapped
    <3> QED BY <3>1, <3>2, <3>3
  <2>13. SplitsOffThePossessive'
    BY <1>1, <2>1 DEF SplitsOffThePossessive
  <2> QED BY <2>6, <2>7, <2>8, <2>10, <2>11, <2>12, <2>13 DEF LexInv
<1> QED BY <1>4, <1>5

LEMMA InitHolds == Init => LexInv
<1> SUFFICES ASSUME Init PROVE LexInv
  OBVIOUS
<1>1. text \in Seq(Bytes) /\ Len(text) <= MaxText /\ Len(text) \in Nat
  <2>1. text \in SeqOf(Bytes, MaxText) /\ MaxText \in Nat
    BY LexerAssumption DEF Init
  <2>2. PICK m \in 0..MaxText : text \in [1..m -> Bytes]
    BY <2>1 DEF SeqOf
  <2>3. text \in Seq(Bytes) /\ Len(text) = m
    BY <2>1, <2>2
  <2> QED BY <2>1, <2>3
<1>2. /\ buffer_size \in Nat /\ taken = 0 /\ buffer = <<>> /\ done = FALSE /\ p = 0
      /\ ts = Null /\ te = Null /\ cs = <<>> /\ suffix = 0 /\ offset = 0
      /\ calls = <<>> /\ garbled = FALSE /\ status = "reading"
  BY LexerAssumption DEF Init
<1>3. pe = 0 /\ Len(cs) = 0 /\ 1..0 = {} /\ Null \in Int
  BY <1>2, EmptySeq DEF pe, Null
<1>4. LexTypes
  <2>1. taken \in 0..Len(text) /\ p \in Nat /\ suffix \in Nat /\ offset \in Int
    BY <1>1, <1>2
  <2>3. done \in BOOLEAN /\ garbled \in BOOLEAN
    BY <1>2
  <2>4. ts \in Nat \cup {Null} /\ te \in Int
    BY <1>2, <1>3
  <2>2. buffer \in Seq(Bytes) /\ cs \in Seq(Bytes) /\ calls \in Seq(CallType)
    BY <1>2, EmptySeq
  <2> QED BY <1>1, <1>2, <2>1, <2>2, <2>3, <2>4 DEF LexTypes
<1>5. Pointers /\ Held /\ SeesText /\ Overlapped
  BY <1>1, <1>2, <1>3 DEF Pointers, Held, SeesText, Overlapped
<1>6. Progress
  <2>1. Chain(Whole, 0) /\ Len(Whole) \in Nat
    BY <1>1, WholeChains, PartsTyped
  <2>2. Begin = 0
    BY <1>2 DEF Begin
  <2>3. 0 = IF 0 < Len(Whole) THEN Whole[0 + 1][1] ELSE Len(text)
    <3>1. CASE Whole = <<>>
      <4>1. Len(Whole) = 0
        BY <3>1, EmptySeq
      <4> QED BY <2>1, <3>1, <4>1 DEF Chain
    <3>2. CASE Whole # <<>>
      <4>1. 0 < Len(Whole) /\ Whole[1][1] = 0
        BY <2>1, <3>2, EmptySeq DEF Chain
      <4> QED BY <4>1
    <3> QED BY <3>1, <3>2
  <2>4. Made(0)
    BY <1>2, <1>3, <2>2, <2>3, FlattenNone DEF Made
  <2>5. 0 \in 0..Len(Whole)
    BY <2>1
  <2> QED BY <2>4, <2>5 DEF Progress
<1>7. SplitsOffThePossessive
  BY <1>2 DEF SplitsOffThePossessive
<1> QED BY <1>4, <1>5, <1>6, <1>7 DEF LexInv
-----------------------------------------------------------------------------
(* What follows from the invariant. *)

(* A call that ends well has made all of the matches.                      *)
LEMMA AllMade ==
  ASSUME LexInv, status = "finished", NEW k \in 0..Len(Whole), Made(k)
  PROVE  k = Len(Whole)
<1>1. text \in Seq(Bytes) /\ Len(text) \in Nat /\ Begin = Len(text)
  BY LenProperties DEF LexInv, LexTypes, Pointers, Begin
<1>2. Chain(Whole, 0) /\ Len(Whole) \in Nat
  BY <1>1, WholeChains, PartsTyped
<1>3. ASSUME k < Len(Whole) PROVE FALSE
  <2>1. k + 1 \in 1..Len(Whole) /\ Whole[k + 1][1] = Len(text)
    BY <1>1, <1>2, <1>3 DEF Made
  <2>2. Whole[k + 1][1] < Len(text)
    BY <1>2, <2>1 DEF Chain
  <2> QED BY <1>1, <2>1, <2>2
<1> QED BY <1>2, <1>3

LEMMA SameFromInv == LexInv => SameAsWhole
<1> SUFFICES ASSUME LexInv, ~garbled
             PROVE  /\ IsPrefix(calls, WholeCalls)
                    /\ status = "finished" => calls = WholeCalls
  BY DEF SameAsWhole
<1>1. text \in Seq(Bytes)
  BY DEF LexInv, LexTypes
<1>2. Parts \in Seq(Seq(CallType)) /\ Len(Parts) = Len(Whole)
  BY <1>1, PartsTyped
<1>3. PICK k \in 0..Len(Whole) : Made(k)
  BY DEF LexInv, Progress
<1>4. calls = FlattenSeq(SubSeq(Parts, 1, k)) /\ WholeCalls = FlattenSeq(Parts)
  BY <1>3, WholeCallsIs DEF Made
<1>5. IsPrefix(calls, WholeCalls)
  BY <1>2, <1>4, FlattenBegins
<1>6. ASSUME status = "finished" PROVE calls = WholeCalls
  <2>1. k = Len(Parts)
    BY <1>2, <1>3, <1>6, AllMade
  <2>2. SubSeq(Parts, 1, Len(Parts)) = Parts
    BY <1>2, SubSeqFull
  <2> QED BY <1>4, <2>1, <2>2
<1> QED BY <1>5, <1>6

(* A buffer of no bytes is full before anything is read.                   *)
NoSpace == buffer_size = 0 => status \in {"reading", "too_long"}

LEMMA RefusesFromInv == LexInv /\ NoSpace => RefusesLongTokens
<1> SUFFICES ASSUME LexInv, NoSpace, Ended
             PROVE  /\ buffer_size = 0 => status = "too_long"
                    /\ status = "finished" /\ ~garbled => ~Long(buffer_size)
                    /\ status = "too_long" /\ ~garbled => buffer_size = 0 \/ Long(buffer_size)
                    /\ garbled => \E n \in 1..MaxText : 2 * n > buffer_size /\ Long(n)
  BY DEF RefusesLongTokens, Long
<1>0. buffer_size = 0 => status = "too_long"
  BY DEF NoSpace, Ended
<1>1. text \in Seq(Bytes) /\ Len(text) \in Nat /\ taken \in 0..Len(text)
  BY LenProperties DEF LexInv, LexTypes
<1>2. ASSUME status = "finished", ~garbled PROVE ~Long(buffer_size)
  <2>1. PICK k \in 0..Len(Whole) : Made(k)
    BY <1>2 DEF LexInv, Progress
  <2>2. k = Len(Whole)
    BY <1>2, <2>1, AllMade
  <2>3. DOMAIN Whole = 1..Len(Whole)
    BY <1>1, WholeChains, LenProperties DEF Chain
  <2>4. \A i \in DOMAIN Whole : ~Undecided(Whole[i][1], buffer_size)
    <3>1. buffer_size > 0
      BY <1>0, <1>2 DEF LexInv, LexTypes
    <3> QED BY <1>2, <2>1, <2>2, <2>3, <3>1 DEF Made
  <2> QED BY <2>4 DEF Long, Starts
<1>3. ASSUME status = "too_long", ~garbled, buffer_size # 0 PROVE Long(buffer_size)
  <2>1. /\ pe = buffer_size /\ pe <= taken
        /\ ts = Null => pe = 0
        /\ ts # Null => ts = 0 /\ Len(cs) = pe
    BY <1>3 DEF LexInv, Pointers
  <2>2. buffer_size \in Nat
    BY DEF LexInv, LexTypes
  <2>3. ts # Null /\ ts = 0 /\ Len(cs) = buffer_size
    BY <1>3, <2>1, <2>2
  <2>4. Begin = taken - buffer_size + 0
    BY <2>1, <2>3 DEF Begin
  <2>5. Begin \in 0..Len(text) /\ Begin + Len(cs) <= Len(text)
    BY <1>1, <2>1, <2>2, <2>3, <2>4
  <2> QED BY <1>3, <2>3, <2>5, HeldIsLong
<1> QED BY <1>0, <1>2, <1>3 DEF LexInv, Overlapped

-----------------------------------------------------------------------------
(* The theorems. *)

(* The pointers of the scanner stay inside of the buffer across its        *)
(* refills, offset always leads from a place in it to the text's, and the  *)
(* stream has the calls of the matches so far.                             *)
THEOREM ScannerInvariant == Spec => []LexInv
<1>1. ASSUME LexInv, [Next]_vars PROVE LexInv'
  <2>1. CASE Next
    BY <1>1, <2>1, ExtendKeeps, CompleteKeeps, BackKeeps, RefuseKeeps, ReadKeeps, NextBufferKeeps
    DEF Next
  <2>2. CASE UNCHANGED vars
    <3>1. /\ text' = text /\ buffer_size' = buffer_size /\ onerror' = onerror
          /\ taken' = taken /\ buffer' = buffer /\ pe' = pe /\ done' = done /\ p' = p
          /\ ts' = ts /\ te' = te /\ act' = act /\ cs' = cs /\ suffix' = suffix
          /\ offset' = offset /\ calls' = calls /\ garbled' = garbled /\ status' = status
      BY <2>2 DEF vars, input, state, pe
    <3>2. Begin' = Begin
      BY <3>1 DEF Begin
    <3>3. LexTypes' /\ Pointers' /\ Held' /\ SeesText' /\ SplitsOffThePossessive'
      BY <1>1, <3>1, <3>2
      DEF LexInv, LexTypes, Pointers, Held, SeesText, SplitsOffThePossessive
    <3>4. Progress' /\ Overlapped'
      BY <1>1, <3>1, <3>2, TextStays DEF LexInv, Progress, Made, Overlapped
    <3> QED BY <3>3, <3>4 DEF LexInv
  <2> QED BY <1>1, <2>1, <2>2
<1> QED BY <1>1, InitHolds, PTL DEF Spec

(* However the text falls into buffers, the stream gets the calls that it  *)
(* gets for the text as one piece, or the first of them.                   *)
THEOREM CallsOfTheWhole == Spec => []SameAsWhole
  BY ScannerInvariant, SameFromInv, PTL

(* The call throws for want of space exactly when some match is undecided  *)
(* after a whole buffer, or the buffer has no bytes, and only one          *)
(* undecided beyond half of it makes a copy overlap.                       *)
THEOREM RefusesOnlyLongTokens == Spec => []RefusesLongTokens
<1>1. Init => NoSpace
  BY DEF Init, NoSpace
<1>2. LexInv /\ NoSpace /\ [Next]_vars => NoSpace'
  <2> SUFFICES ASSUME LexInv, NoSpace, [Next]_vars PROVE NoSpace'
    OBVIOUS
  <2>1. pe \in Nat /\ pe <= buffer_size /\ buffer_size \in Nat
    BY LenProperties DEF LexInv, LexTypes, Pointers, pe
  <2>2. CASE Read
    BY <2>1, <2>2 DEF Read, Full, NoSpace, input
  <2>3. CASE Refuse
    BY <2>3 DEF Refuse, NoSpace, input
  <2>4. CASE Extend \/ Complete \/ BackTrack \/ EndOfText \/ NextBuffer
    BY <2>4 DEF Extend, Complete, BackTrack, EndOfText, NextBuffer, NoSpace, input
  <2>5. CASE UNCHANGED vars
    BY <2>5 DEF vars, input, NoSpace
  <2> QED BY <2>2, <2>3, <2>4, <2>5 DEF Next
<1> QED BY ScannerInvariant, RefusesFromInv, <1>1, <1>2, PTL DEF Spec

(* What is split off a word is its possessive, or that and one inside.     *)
THEOREM PossessivesSplitInside == Spec => []SplitsOffThePossessive
<1>1. LexInv => SplitsOffThePossessive
  BY DEF LexInv
<1> QED BY <1>1, ScannerInvariant, PTL
===============================================================================
