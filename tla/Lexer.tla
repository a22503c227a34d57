-------------------------------- MODULE Lexer --------------------------------
(***************************************************************************)
(* How the tokenizer reads a source through a buffer: the scanner that     *)
(* Ragel makes of the rules, and the loop around it that fills the buffer  *)
(* again while a token is unfinished (Tokenizer::tokenize of an io::Source).*)
(*                                                                         *)
(* The alphabet is the part of the grammar where a token depends most on   *)
(* what follows it: two letters, the apostrophe (a quote, half of a double *)
(* quote, inside of a word, or the start of a possessive), a space, and a  *)
(* byte that only the catch-all rule takes. Every rule that matches text   *)
(* over these is here. What the calls then do is the module Tokenizer.     *)
(*                                                                         *)
(* Pointers into the buffer count from 0; a pointer is Null before a match *)
(* begins. The state of the automaton is the text that has led to it since *)
(* ts, which is not read again from the buffer.                            *)
(***************************************************************************)
EXTENDS Integers, FiniteSets, SequencesExt

CONSTANTS
  MaxText,   \* bound on the length of the text
  MaxSize,   \* bound on buffer_size
  OnErrors   \* the values of onerror

ASSUME LexerAssumption ==
  /\ MaxText \in Nat
  /\ MaxSize \in Nat
  /\ OnErrors \subseteq {"SKIP", "CALL", "THROW"}

VARIABLES
  text,         \* what the source will deliver
  buffer_size,
  onerror,
  taken,        \* how many bytes of it have been read
  buffer,       \* the bytes of the buffer that hold text: up to have, or pe
  done,         \* the last read was short: pe is eof
  p,            \* the next byte for the scanner
  ts, te,       \* State: the match that has begun, and the end of the longest
  act,          \* State: the rule of the longest match
  cs,           \* State: what the automaton has seen since ts
  suffix,       \* State: how many bytes to split off
  offset,       \* State: where in the buffer the text's first byte would be
  calls,        \* the calls of the stream, in order
  garbled,      \* a memcpy with overlapping ends has damaged the buffer
  status        \* "reading", "scanning", or how the call ended

input == <<text, buffer_size, onerror>>
state == <<ts, te, act, cs, suffix, offset>>
vars == <<input, taken, buffer, done, p, state, calls, garbled, status>>

Null == -1
Bytes == {"a", "s", "'", " ", "?"}
Letters == {"a", "s"}

-----------------------------------------------------------------------------
(* The rules. *)

Possessive == <<"'", "s">>

(* letter+, where an apostrophe is a letter's together with both of the    *)
(* letters around it.                                                      *)
IsWord(t) ==
  /\ t # <<>>
  /\ \A i \in DOMAIN t :
       t[i] \notin Letters =>
         /\ t[i] = "'" /\ i > 1 /\ i < Len(t)
         /\ t[i - 1] \in Letters /\ t[i + 1] \in Letters
         /\ i + 2 \in DOMAIN t => t[i + 2] # "'"

IsPossessed(t) ==
  Len(t) > 2 /\ IsSuffix(Possessive, t) /\ IsWord(SubSeq(t, 1, Len(t) - 2))

IsSpace(t) == t # <<>> /\ ToSet(t) = {" "}

(* The rule whose action runs when t is the longest match: the first of    *)
(* main.rl that matches it.                                                *)
Rule(t) ==
  CASE t = <<"'">>      -> "single_quote"
    [] t = <<"'", "'">> -> "double_quote"
    [] IsSpace(t)       -> "ignore"
    [] IsPossessed(t)   -> "split"
    [] t = Possessive   -> "possessive"
    [] IsWord(t) /\ ~IsPossessed(t) -> "default"
    [] t = <<"?">>      -> "catchall"
    [] OTHER            -> "none"

Matches(t) == Rule(t) # "none"

(* The automaton is not stuck: some text that begins with t matches.       *)
Viable(t) == Matches(t) \/ (t # <<>> /\ Last(t) = "'" /\ IsWord(Front(t)))

GoesOn(t) == \E c \in Bytes : Viable(Append(t, c))

(* What the transition that completes t adds to suffix.                    *)
Counts_WithItsLetter(t) == IF IsPossessed(t) \/ t = Possessive THEN 3 ELSE 0

Counts(t) == IF IsPossessed(t) \/ t = Possessive THEN 2 ELSE 0

-----------------------------------------------------------------------------
(* The calls of the stream for a match t of a rule that begins at byte b   *)
(* of the text, n bytes of it to be split off. A quote may open (it does   *)
(* unless one is open) only if a letter is known to follow.                *)

Call(type, b, t) == [type |-> type, begin |-> b, raw |-> t]

SplitCalls(b, t, n) ==
  LET first == Len(t) - n
  IN  << Call("WORD", b, SubSeq(t, 1, first)),
         Call("POSSESSIVE", b + first, SubSeq(t, first + 1, Len(t))) >>

CallsOf(rule, b, t, n, opens) ==
  CASE rule = "ignore"       -> <<>>
    [] rule = "split"        -> SplitCalls(b, t, n)
    [] rule = "possessive"   -> << Call("POSSESSIVE", b, t) >>
    [] rule = "default"      -> << Call("WORD", b, t) >>
    [] rule = "double_quote" -> << Call("QUOTE", b, t) >>
    [] rule = "single_quote" -> << Call(IF opens THEN "OPENING" ELSE "QUOTE", b, t) >>
    [] rule = "catchall"     -> IF onerror = "CALL" THEN << Call("error", b, t) >>
                                                    ELSE <<>>

-----------------------------------------------------------------------------
(* The scanner, one byte at a time. *)

pe == Len(buffer)

AtEof_OneBefore(i) == done /\ i + 1 = pe

AtEof(i) == done /\ i = pe

OpensAt(i, b) == i < Len(b) /\ b[i + 1] \in Letters

(* The action of a rule for the match from first to last, exclusive, and   *)
(* back to the start state at its end. Only add and split reset suffix.    *)
Emit(rule, first, last, n) ==
  /\ calls' = calls \o CallsOf(rule, first - offset, SubSeq(buffer, first + 1, last),
                               n, OpensAt(last, buffer))
  /\ status' = IF rule = "catchall" /\ onerror = "THROW" THEN "stuck" ELSE "scanning"
  /\ suffix' = IF rule \in {"ignore", "catchall"} THEN n ELSE 0
  /\ p' = last
  /\ ts' = Null
  /\ cs' = <<>>

Start == IF ts = Null THEN p ELSE ts
Seen == Append(cs, buffer[p + 1])

(* One more byte for the match, which may now be the longest so far.       *)
Extend ==
  /\ status = "scanning" /\ p < pe
  /\ Viable(Seen) /\ GoesOn(Seen)
  /\ ts' = Start
  /\ cs' = Seen
  /\ p' = p + 1
  /\ te' = IF Matches(Seen) THEN p + 1 ELSE te
  /\ act' = IF Matches(Seen) THEN Rule(Seen) ELSE act
  /\ suffix' = suffix + Counts(Seen)
  /\ UNCHANGED <<input, taken, buffer, done, offset, calls, garbled, status>>

(* A match that nothing can prolong is taken at once.                      *)
Complete ==
  /\ status = "scanning" /\ p < pe
  /\ Viable(Seen) /\ ~GoesOn(Seen)
  /\ te' = p + 1
  /\ Emit(Rule(Seen), Start, p + 1, suffix + Counts(Seen))
  /\ UNCHANGED <<input, taken, buffer, done, act, offset, garbled>>

(* The byte does not continue the match: back to the end of the longest.   *)
BackTrack ==
  /\ status = "scanning" /\ p < pe
  /\ ~Viable(Seen)
  /\ Emit(act, ts, te, suffix)
  /\ UNCHANGED <<input, taken, buffer, done, te, act, offset, garbled>>

(* The end of the text ends the match in the same way.                     *)
EndOfText ==
  /\ status = "scanning" /\ AtEof(p) /\ ts # Null
  /\ Emit(act, ts, te, suffix)
  /\ UNCHANGED <<input, taken, buffer, done, te, act, offset, garbled>>

-----------------------------------------------------------------------------
(* The loop around the scanner. *)

(* space = 0: nothing of the buffer is left for the rest of the token. A   *)
(* short read is the end of the text, as it is for a file or an istream.   *)
Full_LeavesRoom == pe + 1 >= buffer_size

Full == pe = buffer_size

Refuse ==
  /\ status = "reading" /\ Full
  /\ status' = "too_long"
  /\ UNCHANGED <<input, taken, buffer, done, p, state, calls, garbled>>

Read ==
  /\ status = "reading" /\ ~Full
  /\ LET space == buffer_size - pe
         nread == IF Len(text) - taken < space THEN Len(text) - taken ELSE space
     IN  /\ taken' = taken + nread
         /\ buffer' = buffer \o SubSeq(text, taken + 1, taken + nread)
         /\ done' = (nread < space)
  /\ p' = pe
  /\ status' = "scanning"
  /\ UNCHANGED <<input, state, calls, garbled>>

(* What memcpy makes of the have bytes from ts on: right, or, when the     *)
(* ends overlap, also what a copy from the last byte to the first leaves.  *)
Backwards(b, from, have) ==
  LET copy[i \in 1..have] == IF from + i <= have THEN copy[from + i] ELSE b[from + i]
  IN  copy

Copies(b, from, have) ==
  LET right == SubSeq(b, from + 1, from + have)
  IN  IF 0 < from /\ from < have THEN {right, Backwards(b, from, have)} ELSE {right}

OffsetAfter_Whole(have) == offset - buffer_size

OffsetAfter(have) == offset - (buffer_size - have)

(* The buffer has been scanned: an unfinished match moves to its front.    *)
NextBuffer ==
  /\ status = "scanning" /\ p = pe /\ ~(done /\ ts # Null)
  /\ IF ts = Null
     THEN /\ buffer' = <<>>
          /\ offset' = OffsetAfter(0)
          /\ UNCHANGED <<ts, te, garbled>>
     ELSE LET have == pe - ts
          IN  /\ buffer' \in Copies(buffer, ts, have)
              /\ garbled' = (garbled \/ buffer' # SubSeq(buffer, ts + 1, pe))
              /\ te' = te - ts
              /\ ts' = 0
              /\ offset' = OffsetAfter(have)
  /\ status' = IF done THEN "finished" ELSE "reading"
  /\ UNCHANGED <<input, taken, done, p, act, cs, suffix, calls>>

-----------------------------------------------------------------------------
Init ==
  /\ text \in SeqOf(Bytes, MaxText)
  /\ buffer_size \in 0..MaxSize
  /\ onerror \in OnErrors
  /\ taken = 0 /\ buffer = <<>> /\ done = FALSE /\ p = 0
  /\ ts = Null /\ te = Null /\ act = "none" /\ cs = <<>>
  /\ suffix = 0 /\ offset = 0
  /\ calls = <<>> /\ garbled = FALSE /\ status = "reading"

Next == Extend \/ Complete \/ BackTrack \/ EndOfText \/ Refuse \/ Read \/ NextBuffer

(* Nothing but the caller's thread is at work, and it goes on.             *)
Spec == Init /\ [][Next]_vars /\ WF_vars(Next)

-----------------------------------------------------------------------------
(* The same text as one piece (the tokenize of a pointer and a length):    *)
(* the longest match at each place, one after the other.                   *)

Longest(t) ==
  CHOOSE n \in 1..Len(t) :
    /\ Matches(SubSeq(t, 1, n))
    /\ \A m \in 1..Len(t) : Matches(SubSeq(t, 1, m)) => m <= n

Possessives(t) == {n \in 1..Len(t) : Counts(SubSeq(t, 1, n)) # 0}

(* The matches in the text from byte b on: the pair of each one's ends.    *)
Whole ==
  LET from[b \in 0..Len(text)] ==
        IF b = Len(text) THEN <<>>
        ELSE LET e == b + Longest(SubSeq(text, b + 1, Len(text)))
             IN  << <<b, e>> >> \o from[e]
  IN  from[0]

WholeCalls ==
  LET Of(m) == LET t == SubSeq(text, m[1] + 1, m[2])
               IN  CallsOf(Rule(t), m[1], t, 2 * Cardinality(Possessives(t)),
                           OpensAt(m[2], text))
  IN  FlattenSeq([i \in DOMAIN Whole |-> Of(Whole[i])])

-----------------------------------------------------------------------------
(* The scanner has not yet decided n bytes after the start of a match.     *)
Undecided(b, n) ==
  /\ b + n <= Len(text)
  /\ LET t == SubSeq(text, b + 1, b + n) IN Viable(t) /\ GoesOn(t)

Starts == {Whole[i][1] : i \in DOMAIN Whole}

Ended == status \in {"finished", "stuck", "too_long"}

(* However the text falls into buffers, the stream gets the calls that it  *)
(* gets for the text as one piece, with the same positions in it and the   *)
(* same decisions about what follows; all of them when the call ends well, *)
(* the first ones when it throws. (A copy that damages the buffer is       *)
(* undefined behaviour; RefusesLongTokens says when it may happen.)        *)
SameAsWhole ==
  Ended /\ ~garbled =>
    /\ IsPrefix(calls, WholeCalls)
    /\ status = "finished" => calls = WholeCalls

(* The call throws for want of space only if some match is undecided after *)
(* a whole buffer (the match itself may be shorter, or just fit), and then *)
(* always; and an overlapping copy needs one undecided beyond half of it.  *)
(* With a buffer of no bytes it throws whatever the text, an empty one, in *)
(* which no match starts, included.                                        *)
RefusesLongTokens ==
  LET Long(n) == \E b \in Starts : Undecided(b, n)
  IN  Ended =>
        /\ buffer_size = 0 => status = "too_long"
        /\ status = "finished" /\ ~garbled => ~Long(buffer_size)
        /\ status = "too_long" /\ ~garbled => buffer_size = 0 \/ Long(buffer_size)
        /\ garbled => \E n \in 1..MaxText : 2 * n > buffer_size /\ Long(n)

(* A word and its possessive are split inside: neither part is empty or    *)
(* outside of the match, and the second is the possessive itself unless    *)
(* the word has one inside as well (O'Sullivan's), where suffix counts both.*)
SplitsOffThePossessive ==
  \A i \in DOMAIN calls :
    calls[i].type = "POSSESSIVE" /\ calls[i].raw # Possessive /\ ~garbled =>
      /\ i > 1 /\ calls[i - 1].type = "WORD"
      /\ calls[i - 1].raw # <<>> /\ calls[i].raw # <<>>
      /\ Cardinality(Possessives(calls[i - 1].raw \o calls[i].raw)) > 1

(* The call returns or throws.                                             *)
Ends == <>Ended
=============================================================================
