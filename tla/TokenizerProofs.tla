--------------------------- MODULE TokenizerProofs ---------------------------
(***************************************************************************)
(* Theorems about Tokenizer, for sentences of any length and any number of *)
(* tokens and documents.                                                   *)
(***************************************************************************)
EXTENDS Tokenizer, TLAPS

-----------------------------------------------------------------------------
(* What every call keeps true of the state and the stream together. It is  *)
(* stated of the values themselves, so that it can be established without  *)
(* the records they are kept in: insent and inpar say whether a sentence   *)
(* and a paragraph are open, n is the number of the document.              *)

Pieces == [start : Nat, stop : Nat]

Held(n, tokens, sents, pars, bs, bp) ==
  /\ tokens \in Seq(1..n)
  /\ sents \in Seq(Pieces) /\ pars \in Seq(Pieces)
  /\ bs \in 0..Len(tokens) /\ bp \in 0..Len(sents)
  /\ InOrder(sents) /\ InOrder(pars)
  /\ \A i \in DOMAIN sents : sents[i].stop - sents[i].start <= MaxSentence

(* The open sentence begins after all others, and its length is counted.   *)
SentenceOpen(insent, len, tokens, sents, bs) ==
  IF insent
  THEN /\ len = Len(tokens) - bs
       /\ \A i \in DOMAIN sents : sents[i].stop <= bs
  ELSE /\ len = 0
       /\ \A i \in DOMAIN sents : sents[i].stop <= Len(tokens)

ParagraphOpen(inpar, sents, pars, bp) ==
  \A i \in DOMAIN pars : pars[i].stop <= IF inpar THEN bp ELSE Len(sents)

TokensHeld(n, insent, tokens, sents, bs) ==
  \A k \in DOMAIN tokens :
    tokens[k] = n => Covered(k - 1, sents) \/ (insent /\ k > bs)

Core(n, insent, inpar, len, tokens, sents, pars, bs, bp) ==
  /\ Held(n, tokens, sents, pars, bs, bp)
  /\ len \in 0..MaxSentence
  /\ SentenceOpen(insent, len, tokens, sents, bs)
  /\ ParagraphOpen(inpar, sents, pars, bp)
  /\ TokensHeld(n, insent, tokens, sents, bs)

(* One more slice that begins where the others have ended.                 *)
LEMMA AppendInOrder ==
  ASSUME NEW slices \in Seq(Pieces), NEW start \in Nat, NEW stop \in Nat,
         start <= stop, InOrder(slices), \A i \in DOMAIN slices : slices[i].stop <= start
  PROVE  LET longer == AppendSlice(slices, start, stop)
         IN  /\ longer \in Seq(Pieces)
             /\ InOrder(longer)
             /\ Len(slices) <= Len(longer)
             /\ \A i \in DOMAIN longer :
                  \/ i \in DOMAIN slices /\ longer[i] = slices[i]
                  \/ longer[i] = Slice(start, stop)
             /\ \A i \in DOMAIN longer : longer[i].stop <= stop
             /\ \A k \in Nat : Covered(k, slices) \/ (start <= k /\ k < stop)
                                 => Covered(k, longer)
<1> DEFINE longer == AppendSlice(slices, start, stop)
<1>1. CASE start = stop
  BY <1>1 DEF AppendSlice, Covered
<1>2. CASE start # stop
  <2>1. longer = Append(slices, Slice(start, stop)) /\ Slice(start, stop) \in Pieces
    BY <1>2 DEF AppendSlice, Slice, Pieces
  <2>2. /\ longer \in Seq(Pieces)
        /\ Len(longer) = Len(slices) + 1
        /\ \A i \in DOMAIN slices : i \in DOMAIN longer /\ longer[i] = slices[i]
        /\ longer[Len(slices) + 1] = Slice(start, stop)
    BY <2>1
  <2>3. \A i \in DOMAIN longer : i \in DOMAIN slices \/ i = Len(slices) + 1
    BY <2>2
  <2>4. \A i \in DOMAIN slices : slices[i].start \in Nat /\ slices[i].stop \in Nat
    <3>1. \A i \in DOMAIN slices : slices[i] \in Pieces
      OBVIOUS
    <3>2. QED
      BY <3>1 DEF Pieces
  <2>5. Slice(start, stop).start = start /\ Slice(start, stop).stop = stop
    BY DEF Slice
  <2>6. InOrder(longer)
    BY <1>2, <2>2, <2>3, <2>4, <2>5, SMTT(30) DEF InOrder
  <2>7. \A i \in DOMAIN longer : longer[i].stop <= stop
    BY <2>2, <2>3, <2>4, <2>5
  <2>8. \A k \in Nat : Covered(k, slices) \/ (start <= k /\ k < stop) => Covered(k, longer)
    <3>1. Len(slices) + 1 \in DOMAIN longer
      BY <2>2
    <3>2. QED
      BY <2>2, <2>5, <3>1 DEF Covered
  <2>9. QED
    BY <2>2, <2>3, <2>6, <2>7, <2>8
<1>3. QED
  BY <1>1, <1>2

(* Ending a sentence, however long it has become.                          *)
LEMMA CoreEndSentence ==
  ASSUME NEW n \in Nat, NEW inpar \in BOOLEAN, NEW len, NEW tokens, NEW sents, NEW pars,
         NEW bs, NEW bp, Core(n, TRUE, inpar, len, tokens, sents, pars, bs, bp)
  PROVE  Core(n, FALSE, inpar, 0, tokens, AppendSlice(sents, bs, Len(tokens)), pars, bs, bp)
<1> DEFINE longer == AppendSlice(sents, bs, Len(tokens))
<1>1. /\ tokens \in Seq(1..n) /\ sents \in Seq(Pieces) /\ pars \in Seq(Pieces)
      /\ bs \in Nat /\ bs <= Len(tokens) /\ Len(tokens) \in Nat
      /\ bp \in 0..Len(sents) /\ InOrder(sents) /\ InOrder(pars)
      /\ len \in 0..MaxSentence /\ len = Len(tokens) - bs
      /\ \A i \in DOMAIN sents : sents[i].stop <= bs
      /\ \A i \in DOMAIN sents : sents[i].stop - sents[i].start <= MaxSentence
  BY DEF Core, Held, SentenceOpen
<1>2. /\ longer \in Seq(Pieces)
      /\ InOrder(longer)
      /\ Len(sents) <= Len(longer)
      /\ \A i \in DOMAIN longer : \/ i \in DOMAIN sents /\ longer[i] = sents[i]
                                  \/ longer[i] = Slice(bs, Len(tokens))
      /\ \A i \in DOMAIN longer : longer[i].stop <= Len(tokens)
      /\ \A k \in Nat : Covered(k, sents) \/ (bs <= k /\ k < Len(tokens)) => Covered(k, longer)
  BY <1>1, AppendInOrder
<1>3. \A i \in DOMAIN longer : longer[i].stop - longer[i].start <= MaxSentence
  <2>1. Slice(bs, Len(tokens)).start = bs /\ Slice(bs, Len(tokens)).stop = Len(tokens)
    BY DEF Slice
  <2>2. MaxSentence \in Nat
    BY TokenizerAssumption
  <2>3. SUFFICES ASSUME NEW i \in DOMAIN longer
                 PROVE  longer[i].stop - longer[i].start <= MaxSentence
    OBVIOUS
  <2>4. CASE i \in DOMAIN sents /\ longer[i] = sents[i]
    BY <1>1, <2>4
  <2>5. CASE longer[i] = Slice(bs, Len(tokens))
    BY <1>1, <2>1, <2>2, <2>5
  <2>6. QED
    BY <1>2, <2>4, <2>5
<1>4. Held(n, tokens, longer, pars, bs, bp)
  <2>1. bp \in 0..Len(longer)
    BY <1>1, <1>2
  <2>2. QED
    BY <1>1, <1>2, <1>3, <2>1 DEF Held
<1>5. ParagraphOpen(inpar, longer, pars, bp)
  <2>1. \A i \in DOMAIN pars : pars[i].stop \in Nat
    <3>1. \A i \in DOMAIN pars : pars[i] \in Pieces
      BY <1>1
    <3>2. QED
      BY <3>1 DEF Pieces
  <2>2. Len(sents) \in Nat /\ Len(longer) \in Nat /\ bp \in Nat
    BY <1>1, <1>2
  <2>3. QED
    BY <1>2, <2>1, <2>2 DEF Core, ParagraphOpen
<1>6. TokensHeld(n, FALSE, tokens, longer, bs)
  <2>1. SUFFICES ASSUME NEW k \in DOMAIN tokens, tokens[k] = n
                 PROVE  Covered(k - 1, longer)
    BY DEF TokensHeld
  <2>2. k \in 1..Len(tokens)
    BY <1>1
  <2>3. Covered(k - 1, sents) \/ k > bs
    BY <2>1 DEF Core, TokensHeld
  <2>4. QED
    BY <1>1, <1>2, <2>2, <2>3
<1>7. 0 \in 0..MaxSentence
  BY TokenizerAssumption
<1>8. SentenceOpen(FALSE, 0, tokens, longer, bs)
  BY <1>2 DEF SentenceOpen
<1>9. QED
  BY <1>4, <1>5, <1>6, <1>7, <1>8 DEF Core

(* A sentence begins where the tokens end.                                 *)
LEMMA CoreBeginSentence ==
  ASSUME NEW n \in Nat, NEW inpar \in BOOLEAN, NEW len, NEW tokens, NEW sents, NEW pars,
         NEW bs, NEW bp, Core(n, FALSE, inpar, len, tokens, sents, pars, bs, bp)
  PROVE  Core(n, TRUE, inpar, len, tokens, sents, pars, Len(tokens), bp)
<1>1. tokens \in Seq(1..n) /\ Len(tokens) \in Nat
  BY DEF Core, Held
<1>2. Held(n, tokens, sents, pars, Len(tokens), bp)
  BY <1>1 DEF Core, Held
<1>3. SentenceOpen(TRUE, len, tokens, sents, Len(tokens))
  BY <1>1 DEF Core, SentenceOpen
<1>4. TokensHeld(n, TRUE, tokens, sents, Len(tokens))
  BY DEF Core, TokensHeld
<1>5. QED
  BY <1>2, <1>3, <1>4 DEF Core

LEMMA CoreEndParagraph ==
  ASSUME NEW n \in Nat, NEW insent \in BOOLEAN, NEW len, NEW tokens, NEW sents, NEW pars,
         NEW bs, NEW bp, Core(n, insent, TRUE, len, tokens, sents, pars, bs, bp)
  PROVE  Core(n, insent, FALSE, len, tokens, sents, AppendSlice(pars, bp, Len(sents)), bs, bp)
<1> DEFINE longer == AppendSlice(pars, bp, Len(sents))
<1>1. /\ pars \in Seq(Pieces) /\ InOrder(pars)
      /\ bp \in Nat /\ bp <= Len(sents) /\ Len(sents) \in Nat
      /\ \A i \in DOMAIN pars : pars[i].stop <= bp
  BY DEF Core, Held, ParagraphOpen
<1>2. /\ longer \in Seq(Pieces)
      /\ InOrder(longer)
      /\ \A i \in DOMAIN longer : longer[i].stop <= Len(sents)
  BY <1>1, AppendInOrder
<1>3. Held(n, tokens, sents, longer, bs, bp)
  BY <1>2 DEF Core, Held
<1>4. ParagraphOpen(FALSE, sents, longer, bp)
  BY <1>2 DEF ParagraphOpen
<1>5. QED
  BY <1>3, <1>4 DEF Core

LEMMA CoreBeginParagraph ==
  ASSUME NEW n \in Nat, NEW insent \in BOOLEAN, NEW len, NEW tokens, NEW sents, NEW pars,
         NEW bs, NEW bp, Core(n, insent, FALSE, len, tokens, sents, pars, bs, bp)
  PROVE  Core(n, insent, TRUE, len, tokens, sents, pars, bs, Len(sents))
<1>1. Held(n, tokens, sents, pars, bs, Len(sents))
  BY DEF Core, Held
<1>2. ParagraphOpen(TRUE, sents, pars, Len(sents))
  BY DEF Core, ParagraphOpen
<1>3. QED
  BY <1>1, <1>2 DEF Core

(* A token goes into the open sentence, if that is not full.               *)
LEMMA CoreAdd ==
  ASSUME NEW n \in Nat \ {0}, NEW inpar \in BOOLEAN, NEW len, NEW tokens, NEW sents, NEW pars,
         NEW bs, NEW bp, Core(n, TRUE, inpar, len, tokens, sents, pars, bs, bp),
         len < MaxSentence
  PROVE  Core(n, TRUE, inpar, len + 1, Append(tokens, n), sents, pars, bs, bp)
<1> DEFINE more == Append(tokens, n)
<1>1. tokens \in Seq(1..n) /\ len \in Nat /\ len = Len(tokens) - bs /\ bs \in 0..Len(tokens)
  BY DEF Core, Held, SentenceOpen
<1>2. /\ more \in Seq(1..n)
      /\ Len(more) = Len(tokens) + 1
      /\ \A k \in DOMAIN tokens : more[k] = tokens[k]
      /\ \A k \in DOMAIN more : k \in DOMAIN tokens \/ k = Len(tokens) + 1
  BY <1>1
<1>3. Held(n, more, sents, pars, bs, bp)
  BY <1>1, <1>2 DEF Core, Held
<1>4. SentenceOpen(TRUE, len + 1, more, sents, bs)
  BY <1>1, <1>2 DEF Core, SentenceOpen
<1>5. TokensHeld(n, TRUE, more, sents, bs)
  <2>1. SUFFICES ASSUME NEW k \in DOMAIN more, more[k] = n
                 PROVE  Covered(k - 1, sents) \/ k > bs
    BY DEF TokensHeld
  <2>2. CASE k = Len(tokens) + 1
    BY <1>1, <2>2
  <2>3. CASE k \in DOMAIN tokens
    BY <1>2, <2>1, <2>3 DEF Core, TokensHeld
  <2>4. QED
    BY <1>2, <2>2, <2>3
<1>6. len + 1 \in 0..MaxSentence
  BY <1>1, TokenizerAssumption
<1>7. QED
  BY <1>3, <1>4, <1>5, <1>6 DEF Core

LEMMA MoreDocuments ==
  ASSUME NEW m \in Nat, NEW n \in Nat, m <= n, NEW tokens \in Seq(1..m)
  PROVE  tokens \in Seq(1..n)
<1>1. 1..m \subseteq 1..n
  OBVIOUS
<1>2. \A k \in 1..Len(tokens) : tokens[k] \in 1..m
  OBVIOUS
<1>3. \A k \in 1..Len(tokens) : tokens[k] \in 1..n
  BY <1>1, <1>2
<1>4. QED
  BY <1>3

(* Another document begins. No token is of it yet, whatever the last one   *)
(* left open.                                                              *)
LEMMA CoreNextDocument ==
  ASSUME NEW n \in Nat, NEW insent \in BOOLEAN, NEW inpar \in BOOLEAN, NEW len,
         NEW tokens, NEW sents, NEW pars, NEW bs, NEW bp,
         Core(n, insent, inpar, len, tokens, sents, pars, bs, bp)
  PROVE  Core(n + 1, FALSE, FALSE, 0, tokens, sents, pars, 0, 0)
<1>1. /\ tokens \in Seq(1..n) /\ sents \in Seq(Pieces) /\ pars \in Seq(Pieces)
      /\ bs \in 0..Len(tokens) /\ bp \in 0..Len(sents)
      /\ Len(tokens) \in Nat /\ Len(sents) \in Nat
      /\ \A i \in DOMAIN sents : sents[i].stop <= bs \/ sents[i].stop <= Len(tokens)
      /\ \A i \in DOMAIN pars : pars[i].stop <= bp \/ pars[i].stop <= Len(sents)
  <2>1. Held(n, tokens, sents, pars, bs, bp)
    BY DEF Core
  <2>2. \A i \in DOMAIN sents : sents[i].stop <= bs \/ sents[i].stop <= Len(tokens)
    BY DEF Core, SentenceOpen
  <2>3. \A i \in DOMAIN pars : pars[i].stop <= bp \/ pars[i].stop <= Len(sents)
    BY DEF Core, ParagraphOpen
  <2>4. QED
    BY <2>1, <2>2, <2>3 DEF Held
<1>2. /\ \A i \in DOMAIN sents : sents[i].stop \in Nat
      /\ \A i \in DOMAIN pars : pars[i].stop \in Nat
  <2>1. /\ \A i \in DOMAIN sents : sents[i] \in Pieces
        /\ \A i \in DOMAIN pars : pars[i] \in Pieces
    BY <1>1
  <2>2. QED
    BY <2>1 DEF Pieces
<1>3. tokens \in Seq(1..(n + 1)) /\ \A k \in DOMAIN tokens : tokens[k] # n + 1
  <2>1. tokens \in Seq(1..(n + 1))
    BY <1>1, MoreDocuments
  <2>2. \A k \in DOMAIN tokens : tokens[k] \in 1..n
    BY <1>1
  <2>3. QED
    BY <2>1, <2>2
<1>4. Held(n + 1, tokens, sents, pars, 0, 0)
  BY <1>1, <1>3 DEF Core, Held
<1>5. SentenceOpen(FALSE, 0, tokens, sents, 0)
  BY <1>1, <1>2 DEF SentenceOpen
<1>6. ParagraphOpen(FALSE, sents, pars, 0)
  BY <1>1, <1>2 DEF ParagraphOpen
<1>7. TokensHeld(n + 1, FALSE, tokens, sents, 0)
  BY <1>3 DEF TokensHeld
<1>8. 0 \in 0..MaxSentence
  BY TokenizerAssumption
<1>9. QED
  BY <1>4, <1>5, <1>6, <1>7, <1>8 DEF Core

-----------------------------------------------------------------------------
(* The state and the stream as the calls pass them on. *)

States == [flag : [Flags -> BOOLEAN], sentence_length : Nat]

Docs == [tokens : Seq(Nat), sents : Seq(Pieces), pars : Seq(Pieces)]

Streams == [doc : BOOLEAN, tokens : Seq(Nat), sents : Seq(Pieces), pars : Seq(Pieces),
            begin_sent : Nat, begin_par : Nat, out : Seq(Docs)]

Calls == [st : States, stream : Streams]

InSentence(x) == Is(x, "in_sentence")
InParagraph(x) == Is(x, "in_paragraph")

(* An item is in a list.                                                   *)
Listed(x) == Is(x, "in_item") => Is(x, "in_list")

(* Sound allows the open sentence to be full, as it is within add.         *)
Sound(x) ==
  /\ x \in Calls
  /\ Listed(x)
  /\ Core(ndoc, InSentence(x), InParagraph(x), x.st.sentence_length, x.stream.tokens,
          x.stream.sents, x.stream.pars, x.stream.begin_sent, x.stream.begin_par)

Good(x) == Sound(x) /\ x.st.sentence_length < MaxSentence

(* While it stays open, a paragraph begins where it began, and sentences   *)
(* only come to it.                                                        *)
Within(x, y) ==
  InParagraph(x) => /\ InParagraph(y)
                    /\ y.stream.begin_par = x.stream.begin_par
                    /\ Len(x.stream.sents) <= Len(y.stream.sents)

(* The sentences that have come since x are in a paragraph that has ended. *)
Closed(x, y) ==
  \A k \in Len(x.stream.sents)..(Len(y.stream.sents) - 1) : Covered(k, y.stream.pars)

(* They are in one that has ended or in the one that is open.              *)
Kept(x, y) ==
  InParagraph(x) =>
    \A k \in Len(x.stream.sents)..(Len(y.stream.sents) - 1) :
      \/ Covered(k, y.stream.pars)
      \/ InParagraph(y) /\ k >= y.stream.begin_par

LEMMA CallsFlags ==
  ASSUME NEW x \in Calls, NEW f \in Flags
  PROVE  Is(x, f) \in BOOLEAN
BY DEF Calls, States, Is

(* Lower and Raise change the named flags, and nothing else.               *)
FlagsBecome(x, y, fs, value) ==
  /\ y \in Calls
  /\ y.stream = x.stream
  /\ y.st.sentence_length = x.st.sentence_length
  /\ \A f \in Flags \ fs : Is(y, f) = Is(x, f)
  /\ \A f \in Flags \cap fs : Is(y, f) = value

LEMMA LowerFlags ==
  ASSUME NEW x \in Calls, NEW fs
  PROVE  FlagsBecome(x, Lower(x, fs), fs, FALSE)
<1> DEFINE lowered == [f \in Flags |-> f \notin fs /\ x.st.flag[f]]
           s == [x.st EXCEPT !.flag = lowered]
           y == [x EXCEPT !.st = s]
<1>1. Lower(x, fs) = y
  BY DEF Lower
<1>2. lowered \in [Flags -> BOOLEAN]
  OBVIOUS
<1>3. /\ \A f \in Flags \ fs : lowered[f] = Is(x, f)
      /\ \A f \in Flags \cap fs : lowered[f] = FALSE
  <2>1. x.st.flag \in [Flags -> BOOLEAN]
    BY DEF Calls, States
  <2>2. QED
    BY <2>1 DEF Is
<1> HIDE DEF lowered
<1>4. s \in States /\ s.flag = lowered /\ s.sentence_length = x.st.sentence_length
  BY <1>2 DEF Calls, States
<1> HIDE DEF s
<1>5. y \in Calls /\ y.st = s /\ y.stream = x.stream
  BY <1>4 DEF Calls
<1> HIDE DEF y
<1>6. /\ \A f \in Flags \ fs : Is(y, f) = Is(x, f)
      /\ \A f \in Flags \cap fs : Is(y, f) = FALSE
  BY <1>3, <1>4, <1>5, Zenon DEF Is
<1>7. FlagsBecome(x, y, fs, FALSE)
  BY <1>4, <1>5, <1>6, Zenon DEF FlagsBecome
<1>8. QED
  BY <1>1, <1>7, Zenon

LEMMA RaiseFlags ==
  ASSUME NEW x \in Calls, NEW fs
  PROVE  FlagsBecome(x, Raise(x, fs), fs, TRUE)
<1> DEFINE raised == [f \in Flags |-> f \in fs \/ x.st.flag[f]]
           s == [x.st EXCEPT !.flag = raised]
           y == [x EXCEPT !.st = s]
<1>1. Raise(x, fs) = y
  BY DEF Raise
<1>2. raised \in [Flags -> BOOLEAN]
  OBVIOUS
<1>3. /\ \A f \in Flags \ fs : raised[f] = Is(x, f)
      /\ \A f \in Flags \cap fs : raised[f] = TRUE
  <2>1. x.st.flag \in [Flags -> BOOLEAN]
    BY DEF Calls, States
  <2>2. QED
    BY <2>1 DEF Is
<1> HIDE DEF raised
<1>4. s \in States /\ s.flag = raised /\ s.sentence_length = x.st.sentence_length
  BY <1>2 DEF Calls, States
<1> HIDE DEF s
<1>5. y \in Calls /\ y.st = s /\ y.stream = x.stream
  BY <1>4 DEF Calls
<1> HIDE DEF y
<1>6. /\ \A f \in Flags \ fs : Is(y, f) = Is(x, f)
      /\ \A f \in Flags \cap fs : Is(y, f) = TRUE
  BY <1>3, <1>4, <1>5, Zenon DEF Is
<1>7. FlagsBecome(x, y, fs, TRUE)
  BY <1>4, <1>5, <1>6, Zenon DEF FlagsBecome
<1>8. QED
  BY <1>1, <1>7, Zenon

(* Flags that say nothing of sentences and paragraphs. *)
OtherFlags == Flags \ {"in_sentence", "in_paragraph"}

LEMMA OtherFlagsBecome ==
  ASSUME NEW x, Good(x), NEW fs \in SUBSET OtherFlags, NEW value, NEW y,
         FlagsBecome(x, y, fs, value), Listed(y)
  PROVE  /\ Good(y)
         /\ InSentence(y) = InSentence(x)
         /\ InParagraph(y) = InParagraph(x)
         /\ y.stream = x.stream
         /\ Within(x, y)
<1>1. /\ y \in Calls /\ y.stream = x.stream
      /\ y.st.sentence_length = x.st.sentence_length
      /\ \A f \in Flags \ fs : Is(y, f) = Is(x, f)
  BY DEF FlagsBecome
<1>2. "in_sentence" \in Flags \ fs /\ "in_paragraph" \in Flags \ fs
  BY DEF OtherFlags, Flags
<1>3. Is(y, "in_sentence") = Is(x, "in_sentence")
  BY <1>1, <1>2, Zenon
<1>4. Is(y, "in_paragraph") = Is(x, "in_paragraph")
  BY <1>1, <1>2, Zenon
<1>5. Good(y) /\ InSentence(y) = InSentence(x) /\ InParagraph(y) = InParagraph(x)
  BY <1>1, <1>3, <1>4, Zenon DEF Good, Sound, InSentence, InParagraph
<1>6. Len(x.stream.sents) \in Nat
  <2>1. x \in Calls
    BY DEF Good, Sound
  <2>2. QED
    BY <2>1 DEF Calls, Streams
<1>7. Within(x, y)
  BY <1>1, <1>5, <1>6 DEF Within
<1>8. QED
  BY <1>1, <1>5, <1>7

(* Those that say nothing of lists and items either.                       *)
PlainFlags == OtherFlags \ {"in_list", "in_item"}

LEMMA OtherLower ==
  ASSUME NEW x, Good(x), NEW fs \in SUBSET PlainFlags
  PROVE  /\ Good(Lower(x, fs))
         /\ InSentence(Lower(x, fs)) = InSentence(x)
         /\ InParagraph(Lower(x, fs)) = InParagraph(x)
         /\ Lower(x, fs).stream = x.stream
         /\ Within(x, Lower(x, fs))
         /\ \A f \in Flags \ fs : Is(Lower(x, fs), f) = Is(x, f)
<1>1. FlagsBecome(x, Lower(x, fs), fs, FALSE)
  BY LowerFlags DEF Good, Sound
<1>2. \A f \in Flags \ fs : Is(Lower(x, fs), f) = Is(x, f)
  BY <1>1 DEF FlagsBecome
<1>3. "in_item" \in Flags \ fs /\ "in_list" \in Flags \ fs
  BY DEF PlainFlags, OtherFlags, Flags
<1>4. Listed(Lower(x, fs))
  BY <1>2, <1>3, Zenon DEF Listed, Good, Sound
<1>5. fs \in SUBSET OtherFlags
  BY DEF PlainFlags
<1>6. QED
  BY <1>1, <1>2, <1>4, <1>5, OtherFlagsBecome

LEMMA OtherRaise ==
  ASSUME NEW x, Good(x), NEW fs \in SUBSET PlainFlags
  PROVE  /\ Good(Raise(x, fs))
         /\ InSentence(Raise(x, fs)) = InSentence(x)
         /\ InParagraph(Raise(x, fs)) = InParagraph(x)
         /\ Raise(x, fs).stream = x.stream
         /\ Within(x, Raise(x, fs))
<1>1. FlagsBecome(x, Raise(x, fs), fs, TRUE)
  BY RaiseFlags DEF Good, Sound
<1>2. \A f \in Flags \ fs : Is(Raise(x, fs), f) = Is(x, f)
  BY <1>1 DEF FlagsBecome
<1>3. "in_item" \in Flags \ fs /\ "in_list" \in Flags \ fs
  BY DEF PlainFlags, OtherFlags, Flags
<1>4. Listed(Raise(x, fs))
  BY <1>2, <1>3, Zenon DEF Listed, Good, Sound
<1>5. fs \in SUBSET OtherFlags
  BY DEF PlainFlags
<1>6. QED
  BY <1>1, <1>4, <1>5, OtherFlagsBecome

(* A stream with other values in some fields. *)
LEMMA StreamWith ==
  ASSUME NEW x \in Calls, NEW stream2 \in Streams
  PROVE  LET y == [x EXCEPT !.stream = stream2]
         IN  y \in Calls /\ y.st = x.st /\ y.stream = stream2
BY DEF Calls

LEMMA StreamFields ==
  ASSUME NEW x \in Calls
  PROVE  /\ x.st \in States /\ x.stream \in Streams
         /\ x.stream.tokens \in Seq(Nat)
         /\ x.stream.sents \in Seq(Pieces) /\ x.stream.pars \in Seq(Pieces)
         /\ x.stream.begin_sent \in Nat /\ x.stream.begin_par \in Nat
         /\ x.stream.out \in Seq(Docs)
         /\ InSentence(x) \in BOOLEAN /\ InParagraph(x) \in BOOLEAN
<1>1. x.st \in States /\ x.stream \in Streams
  BY DEF Calls
<1>2. InSentence(x) \in BOOLEAN /\ InParagraph(x) \in BOOLEAN
  BY CallsFlags DEF InSentence, InParagraph, Flags
<1>3. QED
  BY <1>1, <1>2 DEF Streams

(* end_sentence leaves no sentence open.                                   *)
LEMMA EndSentence ==
  ASSUME ndoc \in Nat, NEW x, Sound(x)
  PROVE  /\ Good(end_sentence(x))
         /\ ~InSentence(end_sentence(x))
         /\ InParagraph(end_sentence(x)) = InParagraph(x)
         /\ Within(x, end_sentence(x))
         /\ ~InSentence(x) => end_sentence(x) = x
<1>1. x \in Calls
  BY DEF Sound
<1>2. CASE ~InSentence(x)
  <2>1. end_sentence(x) = x
    BY <1>2 DEF end_sentence, InSentence
  <2>2. x.st.sentence_length = 0
    BY <1>2 DEF Sound, Core, SentenceOpen
  <2>3. Within(x, x)
    BY <1>1, StreamFields DEF Within
  <2>4. QED
    BY <1>2, <2>1, <2>2, <2>3, TokenizerAssumption DEF Good
<1>3. CASE InSentence(x)
  <2> DEFINE longer == AppendSlice(x.stream.sents, x.stream.begin_sent, Len(x.stream.tokens))
             ended == [x.stream EXCEPT !.sents = longer]
             y == [x EXCEPT !.stream = ended]
             fs == {"seen_terminator", "in_sentence"}
             z == Lower(y, fs)
             w == [z EXCEPT !.st = [z.st EXCEPT !.sentence_length = 0]]
  <2>1. Core(ndoc, TRUE, InParagraph(x), x.st.sentence_length, x.stream.tokens,
             x.stream.sents, x.stream.pars, x.stream.begin_sent, x.stream.begin_par)
    <3>1. InSentence(x) = TRUE
      BY <1>1, <1>3, StreamFields
    <3>2. QED
      BY <3>1 DEF Sound
  <2>2. Core(ndoc, FALSE, InParagraph(x), 0, x.stream.tokens, longer,
             x.stream.pars, x.stream.begin_sent, x.stream.begin_par)
    BY <1>1, <2>1, StreamFields, CoreEndSentence
  <2>3. longer \in Seq(Pieces) /\ Len(x.stream.sents) <= Len(longer)
    <3>1. longer \in Seq(Pieces)
      BY <2>2 DEF Core, Held
    <3>2. Len(x.stream.sents) <= Len(longer)
      BY <1>1, StreamFields DEF AppendSlice
    <3>3. QED
      BY <3>1, <3>2
  <2>4. end_sentence(x) = w
    BY <1>3 DEF end_sentence, InSentence, StreamEndSentence
  <2> HIDE DEF longer
  <2>5. ended \in Streams /\ ended.sents = longer /\ ended.tokens = x.stream.tokens
        /\ ended.pars = x.stream.pars /\ ended.begin_sent = x.stream.begin_sent
        /\ ended.begin_par = x.stream.begin_par
    BY <1>1, <2>3, StreamFields DEF Streams
  <2> HIDE DEF ended
  <2>6. y \in Calls /\ y.st = x.st /\ y.stream = ended
    BY <1>1, <2>5, StreamWith
  <2> HIDE DEF y
  <2>7. /\ z \in Calls /\ z.stream = ended
        /\ \A f \in Flags \ fs : Is(z, f) = Is(y, f)
        /\ \A f \in Flags \cap fs : Is(z, f) = FALSE
    <3>1. y \in Calls
      BY <2>6
    <3> HIDE DEF fs
    <3>2. FlagsBecome(y, z, fs, FALSE)
      BY <3>1, LowerFlags
    <3> HIDE DEF z
    <3>3. QED
      BY <2>6, <3>2 DEF FlagsBecome
  <2>8. /\ ~Is(z, "in_sentence") /\ Is(z, "in_paragraph") = Is(y, "in_paragraph")
        /\ Is(z, "in_item") = Is(y, "in_item") /\ Is(z, "in_list") = Is(y, "in_list")
    <3>1. /\ "in_sentence" \in Flags \cap fs /\ "in_paragraph" \in Flags \ fs
          /\ "in_item" \in Flags \ fs /\ "in_list" \in Flags \ fs
      BY DEF Flags
    <3>2. QED
      BY <2>7, <3>1, Zenon
  <2> HIDE DEF z
  <2>9. /\ w \in Calls /\ w.stream = z.stream /\ w.st.flag = z.st.flag
        /\ w.st.sentence_length = 0
    BY <2>7 DEF Calls, States
  <2> HIDE DEF w
  <2>10. ~InSentence(w) /\ InParagraph(w) = InParagraph(x)
    BY <2>6, <2>8, <2>9, Zenon DEF InSentence, InParagraph, Is
  <2>11. InSentence(w) = FALSE
    BY <2>9, <2>10, StreamFields
  <2>12. Core(ndoc, InSentence(w), InParagraph(w), 0, w.stream.tokens,
              w.stream.sents, w.stream.pars, w.stream.begin_sent, w.stream.begin_par)
    <3>1. /\ w.stream.tokens = x.stream.tokens /\ w.stream.sents = longer
          /\ w.stream.pars = x.stream.pars /\ w.stream.begin_sent = x.stream.begin_sent
          /\ w.stream.begin_par = x.stream.begin_par
      BY <2>5, <2>7, <2>9
    <3>2. QED
      BY <2>2, <2>10, <2>11, <3>1, Zenon
  <2>13. Listed(w)
    <3>1. Is(w, "in_item") = Is(x, "in_item") /\ Is(w, "in_list") = Is(x, "in_list")
      BY <2>6, <2>8, <2>9, Zenon DEF Is
    <3>2. QED
      BY <3>1, Zenon DEF Listed, Sound
  <2>14. Sound(w)
    BY <2>9, <2>12, <2>13, Zenon DEF Sound
  <2>15. Within(x, w)
    BY <2>3, <2>5, <2>7, <2>9, <2>10 DEF Within
  <2>16. QED
    BY <1>3, <2>4, <2>9, <2>10, <2>14, <2>15, TokenizerAssumption DEF Good
<1>4. QED
  BY <1>2, <1>3

LEMMA EndParagraph ==
  ASSUME ndoc \in Nat, NEW x, Good(x)
  PROVE  /\ Good(end_paragraph(x))
         /\ ~InParagraph(end_paragraph(x))
         /\ ~InSentence(x) => ~InSentence(end_paragraph(x))
         /\ InParagraph(x) => ~InSentence(end_paragraph(x)) /\ Closed(x, end_paragraph(x))
         /\ ~InParagraph(x) => end_paragraph(x) = x
<1>1. CASE ~InParagraph(x)
  BY <1>1 DEF end_paragraph, InParagraph
<1>2. CASE InParagraph(x)
  <2> DEFINE y == end_sentence(x)
             longer == AppendSlice(y.stream.pars, y.stream.begin_par, Len(y.stream.sents))
             ended == [y.stream EXCEPT !.pars = longer]
             u == [y EXCEPT !.stream = ended]
             fs == Quotes \cup {"in_paragraph"}
             z == Lower(u, fs)
  <2>1. Good(y) /\ ~InSentence(y) /\ InParagraph(y) /\ Within(x, y)
    BY <1>2, EndSentence DEF Good
  <2>2. end_paragraph(x) = z
    BY <1>2 DEF end_paragraph, InParagraph, StreamEndParagraph
  <2> HIDE DEF y
  <2>3. y \in Calls
    BY <2>1 DEF Good, Sound
  <2>4. InSentence(y) = FALSE /\ InParagraph(y) = TRUE
    BY <2>1, <2>3, StreamFields
  <2>5. Core(ndoc, FALSE, FALSE, y.st.sentence_length, y.stream.tokens, y.stream.sents,
             longer, y.stream.begin_sent, y.stream.begin_par)
    <3>1. Core(ndoc, FALSE, TRUE, y.st.sentence_length, y.stream.tokens, y.stream.sents,
               y.stream.pars, y.stream.begin_sent, y.stream.begin_par)
      BY <2>1, <2>4 DEF Good, Sound
    <3>2. QED
      BY <3>1, CoreEndParagraph
  <2>6. longer \in Seq(Pieces)
    BY <2>5 DEF Core, Held
  <2>7. \A k \in Len(x.stream.sents)..(Len(y.stream.sents) - 1) : Covered(k, longer)
    <3>1. /\ y.stream.pars \in Seq(Pieces) /\ y.stream.begin_par \in Nat
          /\ Len(y.stream.sents) \in Nat /\ Len(x.stream.sents) \in Nat
      <4>1. x \in Calls
        BY DEF Good, Sound
      <4>2. QED
        BY <2>3, <4>1, StreamFields
    <3>2. y.stream.begin_par <= Len(x.stream.sents)
      <4>1. x.stream.begin_par \in 0..Len(x.stream.sents)
        BY DEF Good, Sound, Core, Held
      <4>2. y.stream.begin_par = x.stream.begin_par
        BY <1>2, <2>1 DEF Within
      <4>3. QED
        BY <3>1, <4>1, <4>2
    <3>3. SUFFICES ASSUME NEW k \in Len(x.stream.sents)..(Len(y.stream.sents) - 1)
                   PROVE  Covered(k, longer)
      OBVIOUS
    <3>4. /\ k \in Nat /\ y.stream.begin_par <= k /\ k < Len(y.stream.sents)
          /\ y.stream.begin_par # Len(y.stream.sents)
      BY <3>1, <3>2
    <3> DEFINE piece == Slice(y.stream.begin_par, Len(y.stream.sents))
    <3>5. longer = Append(y.stream.pars, piece)
      BY <3>4 DEF AppendSlice
    <3>6. piece.start <= k /\ k < piece.stop
      BY <3>4 DEF Slice
    <3> HIDE DEF piece
    <3>7. Len(y.stream.pars) + 1 \in DOMAIN longer /\ longer[Len(y.stream.pars) + 1] = piece
      BY <3>1, <3>5
    <3>8. QED
      BY <3>6, <3>7 DEF Covered
  <2> HIDE DEF longer
  <2>8. ended \in Streams /\ ended.sents = y.stream.sents /\ ended.tokens = y.stream.tokens
        /\ ended.pars = longer /\ ended.begin_sent = y.stream.begin_sent
        /\ ended.begin_par = y.stream.begin_par
    BY <2>3, <2>6, StreamFields DEF Streams
  <2> HIDE DEF ended
  <2>9. u \in Calls /\ u.st = y.st /\ u.stream = ended
    BY <2>3, <2>8, StreamWith
  <2> HIDE DEF u
  <2>10. /\ z \in Calls /\ z.stream = ended
         /\ z.st.sentence_length = u.st.sentence_length
         /\ \A f \in Flags \ fs : Is(z, f) = Is(u, f)
         /\ \A f \in Flags \cap fs : Is(z, f) = FALSE
    <3>1. u \in Calls
      BY <2>9
    <3> HIDE DEF fs
    <3>2. FlagsBecome(u, z, fs, FALSE)
      BY <3>1, LowerFlags
    <3> HIDE DEF z
    <3>3. QED
      BY <2>9, <3>2 DEF FlagsBecome
  <2>11. /\ Is(z, "in_paragraph") = FALSE /\ Is(z, "in_sentence") = Is(u, "in_sentence")
         /\ Is(z, "in_item") = Is(u, "in_item") /\ Is(z, "in_list") = Is(u, "in_list")
    <3>1. /\ "in_paragraph" \in Flags \cap fs /\ "in_sentence" \in Flags \ fs
          /\ "in_item" \in Flags \ fs /\ "in_list" \in Flags \ fs
      BY DEF Flags, Quotes
    <3>2. QED
      BY <2>10, <3>1, Zenon
  <2> HIDE DEF z
  <2>12. InParagraph(z) = FALSE /\ InSentence(z) = FALSE
    BY <2>4, <2>9, <2>11, Zenon DEF InSentence, InParagraph, Is
  <2>13. Listed(z)
    <3>1. Is(z, "in_item") = Is(y, "in_item") /\ Is(z, "in_list") = Is(y, "in_list")
      BY <2>9, <2>11, Zenon DEF Is
    <3>2. QED
      BY <2>1, <3>1, Zenon DEF Listed, Good, Sound
  <2>14. Good(z)
    <3>1. Sound(z)
      BY <2>5, <2>8, <2>9, <2>10, <2>12, <2>13 DEF Sound
    <3>2. QED
      BY <2>1, <2>9, <2>10, <3>1 DEF Good
  <2>15. Closed(x, z)
    BY <2>8, <2>10, <2>7 DEF Closed
  <2>16. QED
    BY <1>2, <2>2, <2>12, <2>14, <2>15
<1>3. QED
  BY <1>1, <1>2

LEMMA BeginParagraph ==
  ASSUME ndoc \in Nat, NEW x, Good(x)
  PROVE  /\ Good(begin_paragraph(x))
         /\ InParagraph(begin_paragraph(x))
         /\ ~InSentence(x) => ~InSentence(begin_paragraph(x))
         /\ InParagraph(x) => Closed(x, begin_paragraph(x))
<1> DEFINE y == end_paragraph(x)
           u == Raise(y, {"in_paragraph"})
           z == Lower(u, Quotes)
           begun == [z.stream EXCEPT !.begin_par = Len(z.stream.sents)]
           w == [z EXCEPT !.stream = begun]
<1>1. /\ Good(y) /\ ~InParagraph(y) /\ (~InSentence(x) => ~InSentence(y))
      /\ InParagraph(x) => Closed(x, y)
  BY EndParagraph
<1>2. begin_paragraph(x) = w
  BY DEF begin_paragraph, StreamBeginParagraph
<1> HIDE DEF y
<1>3. y \in Calls
  BY <1>1 DEF Good, Sound
<1>4. /\ u \in Calls /\ u.stream = y.stream
      /\ u.st.sentence_length = y.st.sentence_length
      /\ Is(u, "in_sentence") = Is(y, "in_sentence")
      /\ Is(u, "in_item") = Is(y, "in_item") /\ Is(u, "in_list") = Is(y, "in_list")
      /\ Is(u, "in_paragraph") = TRUE
  <2>1. /\ "in_paragraph" \in Flags \cap {"in_paragraph"}
        /\ "in_sentence" \in Flags \ {"in_paragraph"}
        /\ "in_item" \in Flags \ {"in_paragraph"} /\ "in_list" \in Flags \ {"in_paragraph"}
    BY DEF Flags
  <2>2. FlagsBecome(y, u, {"in_paragraph"}, TRUE)
    BY <1>3, RaiseFlags
  <2> HIDE DEF u
  <2>3. QED
    BY <1>3, <2>1, <2>2, Zenon DEF FlagsBecome
<1> HIDE DEF u
<1>5. /\ z \in Calls /\ z.stream = y.stream
      /\ z.st.sentence_length = y.st.sentence_length
      /\ Is(z, "in_sentence") = Is(y, "in_sentence")
      /\ Is(z, "in_item") = Is(y, "in_item") /\ Is(z, "in_list") = Is(y, "in_list")
      /\ Is(z, "in_paragraph") = TRUE
  <2>1. /\ "in_paragraph" \in Flags \ Quotes /\ "in_sentence" \in Flags \ Quotes
        /\ "in_item" \in Flags \ Quotes /\ "in_list" \in Flags \ Quotes
    BY DEF Flags, Quotes
  <2>2. FlagsBecome(u, z, Quotes, FALSE)
    BY <1>4, LowerFlags
  <2> HIDE DEF z
  <2>3. QED
    BY <1>4, <2>1, <2>2, Zenon DEF FlagsBecome
<1> HIDE DEF z
<1>6. begun \in Streams /\ begun.sents = y.stream.sents /\ begun.tokens = y.stream.tokens
      /\ begun.pars = y.stream.pars /\ begun.begin_sent = y.stream.begin_sent
      /\ begun.begin_par = Len(y.stream.sents)
  <2>1. z.stream \in Streams /\ Len(z.stream.sents) \in Nat
    BY <1>5, StreamFields
  <2>2. QED
    BY <1>5, <2>1 DEF Streams
<1> HIDE DEF begun
<1>7. w \in Calls /\ w.st = z.st /\ w.stream = begun
  BY <1>5, <1>6, StreamWith
<1> HIDE DEF w
<1>8. InSentence(w) = InSentence(y) /\ InParagraph(w) = TRUE
  BY <1>5, <1>7, Zenon DEF InSentence, InParagraph, Is
<1>9. Core(ndoc, InSentence(y), TRUE, y.st.sentence_length, y.stream.tokens,
           y.stream.sents, y.stream.pars, y.stream.begin_sent, Len(y.stream.sents))
  <2>1. InParagraph(y) = FALSE /\ InSentence(y) \in BOOLEAN
    BY <1>1, <1>3, StreamFields
  <2>2. Core(ndoc, InSentence(y), FALSE, y.st.sentence_length, y.stream.tokens,
             y.stream.sents, y.stream.pars, y.stream.begin_sent, y.stream.begin_par)
    BY <1>1, <2>1 DEF Good, Sound
  <2>3. QED
    BY <2>1, <2>2, CoreBeginParagraph
<1>10. Listed(w)
  <2>1. Is(w, "in_item") = Is(y, "in_item") /\ Is(w, "in_list") = Is(y, "in_list")
    BY <1>5, <1>7, Zenon DEF Is
  <2>2. QED
    BY <1>1, <2>1, Zenon DEF Listed, Good, Sound
<1>11. Good(w)
  <2>1. Sound(w)
    BY <1>5, <1>6, <1>7, <1>8, <1>9, <1>10 DEF Sound
  <2>2. QED
    BY <1>1, <1>5, <1>7, <2>1 DEF Good
<1>12. InParagraph(x) => Closed(x, w)
  BY <1>1, <1>6, <1>7 DEF Closed
<1>13. QED
  BY <1>1, <1>2, <1>8, <1>11, <1>12

(* begin_sentence is called when no sentence is open.                      *)
LEMMA BeginSentence ==
  ASSUME ndoc \in Nat, NEW x, Good(x), ~InSentence(x)
  PROVE  /\ Good(begin_sentence(x)) /\ InSentence(begin_sentence(x))
         /\ Within(x, begin_sentence(x))
<1> DEFINE y == IF Is(x, "in_heading") \/ Is(x, "in_list") THEN x ELSE ensure_paragraph(x)
           u == Raise(y, {"in_sentence"})
           z == Lower(u, {"seen_terminator"})
           begun == [z.stream EXCEPT !.begin_sent = Len(z.stream.tokens)]
           w == [z EXCEPT !.stream = begun]
<1>1. Good(y) /\ ~InSentence(y) /\ (InParagraph(x) => y = x)
  BY BeginParagraph DEF ensure_paragraph, InParagraph
<1>2. begin_sentence(x) = w
  BY DEF begin_sentence, StreamBeginSentence
<1> HIDE DEF y
<1>3. y \in Calls
  BY <1>1 DEF Good, Sound
<1>4. /\ u \in Calls /\ u.stream = y.stream
      /\ u.st.sentence_length = y.st.sentence_length
      /\ Is(u, "in_paragraph") = Is(y, "in_paragraph")
      /\ Is(u, "in_item") = Is(y, "in_item") /\ Is(u, "in_list") = Is(y, "in_list")
      /\ Is(u, "in_sentence") = TRUE
  <2>1. /\ "in_sentence" \in Flags \cap {"in_sentence"}
        /\ "in_paragraph" \in Flags \ {"in_sentence"}
        /\ "in_item" \in Flags \ {"in_sentence"} /\ "in_list" \in Flags \ {"in_sentence"}
    BY DEF Flags
  <2>2. FlagsBecome(y, u, {"in_sentence"}, TRUE)
    BY <1>3, RaiseFlags
  <2> HIDE DEF u
  <2>3. QED
    BY <1>3, <2>1, <2>2, Zenon DEF FlagsBecome
<1> HIDE DEF u
<1>5. /\ z \in Calls /\ z.stream = y.stream
      /\ z.st.sentence_length = y.st.sentence_length
      /\ Is(z, "in_paragraph") = Is(y, "in_paragraph")
      /\ Is(z, "in_item") = Is(y, "in_item") /\ Is(z, "in_list") = Is(y, "in_list")
      /\ Is(z, "in_sentence") = TRUE
  <2>1. /\ "in_paragraph" \in Flags \ {"seen_terminator"}
        /\ "in_sentence" \in Flags \ {"seen_terminator"}
        /\ "in_item" \in Flags \ {"seen_terminator"}
        /\ "in_list" \in Flags \ {"seen_terminator"}
    BY DEF Flags
  <2>2. FlagsBecome(u, z, {"seen_terminator"}, FALSE)
    BY <1>4, LowerFlags
  <2> HIDE DEF z
  <2>3. QED
    BY <1>4, <2>1, <2>2, Zenon DEF FlagsBecome
<1> HIDE DEF z
<1>6. begun \in Streams /\ begun.sents = y.stream.sents /\ begun.tokens = y.stream.tokens
      /\ begun.pars = y.stream.pars /\ begun.begin_sent = Len(y.stream.tokens)
      /\ begun.begin_par = y.stream.begin_par
  <2>1. z.stream \in Streams /\ Len(z.stream.tokens) \in Nat
    BY <1>5, StreamFields
  <2>2. QED
    BY <1>5, <2>1 DEF Streams
<1> HIDE DEF begun
<1>7. w \in Calls /\ w.st = z.st /\ w.stream = begun
  BY <1>5, <1>6, StreamWith
<1> HIDE DEF w
<1>8. InSentence(w) = TRUE /\ InParagraph(w) = InParagraph(y)
  BY <1>5, <1>7, Zenon DEF InSentence, InParagraph, Is
<1>9. Core(ndoc, TRUE, InParagraph(y), y.st.sentence_length, y.stream.tokens,
           y.stream.sents, y.stream.pars, Len(y.stream.tokens), y.stream.begin_par)
  <2>1. InSentence(y) = FALSE /\ InParagraph(y) \in BOOLEAN
    BY <1>1, <1>3, StreamFields
  <2>2. Core(ndoc, FALSE, InParagraph(y), y.st.sentence_length, y.stream.tokens,
             y.stream.sents, y.stream.pars, y.stream.begin_sent, y.stream.begin_par)
    BY <1>1, <2>1 DEF Good, Sound
  <2>3. QED
    BY <2>1, <2>2, CoreBeginSentence
<1>10. Listed(w)
  <2>1. Is(w, "in_item") = Is(y, "in_item") /\ Is(w, "in_list") = Is(y, "in_list")
    BY <1>5, <1>7, Zenon DEF Is
  <2>2. QED
    BY <1>1, <2>1, Zenon DEF Listed, Good, Sound
<1>11. Good(w)
  <2>1. Sound(w)
    BY <1>5, <1>6, <1>7, <1>8, <1>9, <1>10 DEF Sound
  <2>2. QED
    BY <1>1, <1>5, <1>7, <2>1 DEF Good
<1>12. Within(x, w)
  <2>1. Len(x.stream.sents) \in Nat
    BY StreamFields DEF Good, Sound
  <2>2. QED
    BY <1>1, <1>6, <1>7, <1>8, <2>1 DEF Within
<1>13. QED
  BY <1>2, <1>8, <1>11, <1>12

(* A call that leaves all as it is, or calls one after the other.          *)
LEMMA WithinSelf ==
  ASSUME NEW x, Good(x)
  PROVE  Within(x, x)
<1>1. Len(x.stream.sents) \in Nat
  BY StreamFields DEF Good, Sound
<1>2. QED
  BY <1>1 DEF Within

LEMMA WithinBoth ==
  ASSUME NEW x, Good(x), NEW y, Good(y), NEW z, Good(z), Within(x, y), Within(y, z)
  PROVE  Within(x, z)
<1>1. ASSUME NEW v, Good(v) PROVE Len(v.stream.sents) \in Nat
  <2>1. v.stream.sents \in Seq(Pieces)
    BY <1>1, StreamFields DEF Good, Sound
  <2>2. QED
    BY <2>1
<1>2. /\ Len(x.stream.sents) \in Nat /\ Len(y.stream.sents) \in Nat
      /\ Len(z.stream.sents) \in Nat
  BY <1>1
<1>3. QED
  BY <1>2 DEF Within

LEMMA EnsureSentence ==
  ASSUME ndoc \in Nat, NEW x, Good(x)
  PROVE  /\ Good(ensure_sentence(x)) /\ InSentence(ensure_sentence(x))
         /\ Within(x, ensure_sentence(x))
BY BeginSentence, WithinSelf DEF ensure_sentence, InSentence

(* A token goes into the open sentence; one that has become full makes way *)
(* for the next.                                                           *)
LEMMA Add ==
  ASSUME ndoc \in Nat \ {0}, NEW x, Good(x), InSentence(x)
  PROVE  Good(add(x)) /\ InSentence(add(x)) /\ Within(x, add(x))
<1> DEFINE more == [x.stream EXCEPT !.tokens = Append(x.stream.tokens, ndoc)]
           u == [x EXCEPT !.stream = more]
           s == [u.st EXCEPT !.sentence_length = u.st.sentence_length + 1]
           y == [u EXCEPT !.st = s]
<1>1. x \in Calls
  BY DEF Good, Sound
<1>2. add(x) = IF y.st.sentence_length >= MaxSentence THEN ensure_sentence(end_sentence(y)) ELSE y
  BY DEF add, check_sentence_length, StreamAdd
<1>3. /\ more \in Streams /\ more.tokens = Append(x.stream.tokens, ndoc)
      /\ more.sents = x.stream.sents /\ more.pars = x.stream.pars
      /\ more.begin_sent = x.stream.begin_sent /\ more.begin_par = x.stream.begin_par
  <2>1. Append(x.stream.tokens, ndoc) \in Seq(Nat)
    BY <1>1, StreamFields
  <2>2. QED
    BY <1>1, <2>1, StreamFields DEF Streams
<1> HIDE DEF more
<1>4. u \in Calls /\ u.st = x.st /\ u.stream = more
  BY <1>1, <1>3, StreamWith
<1> HIDE DEF u
<1>5. s \in States /\ s.flag = x.st.flag /\ s.sentence_length = x.st.sentence_length + 1
  <2>1. x.st \in States
    BY <1>1, StreamFields
  <2>2. QED
    BY <1>4, <2>1 DEF States
<1> HIDE DEF s
<1>6. y \in Calls /\ y.st = s /\ y.stream = more
  BY <1>4, <1>5 DEF Calls
<1> HIDE DEF y
<1>7. InSentence(y) = TRUE /\ InParagraph(y) = InParagraph(x) /\ Listed(y)
  <2>1. InSentence(y) = InSentence(x) /\ InParagraph(y) = InParagraph(x)
    BY <1>5, <1>6, Zenon DEF InSentence, InParagraph, Is
  <2>2. Listed(y)
    BY <1>5, <1>6, Zenon DEF Listed, Is, Good, Sound
  <2>3. QED
    BY <1>1, <2>1, <2>2, StreamFields
<1>8. Core(ndoc, TRUE, InParagraph(x), x.st.sentence_length + 1,
           Append(x.stream.tokens, ndoc), x.stream.sents, x.stream.pars,
           x.stream.begin_sent, x.stream.begin_par)
  <2>1. InSentence(x) = TRUE /\ InParagraph(x) \in BOOLEAN
    BY <1>1, StreamFields
  <2>2. Core(ndoc, TRUE, InParagraph(x), x.st.sentence_length, x.stream.tokens,
             x.stream.sents, x.stream.pars, x.stream.begin_sent, x.stream.begin_par)
    BY <2>1 DEF Good, Sound
  <2>3. x.st.sentence_length < MaxSentence
    BY DEF Good
  <2>4. QED
    BY <2>1, <2>2, <2>3, CoreAdd
<1>9. Sound(y)
  BY <1>3, <1>5, <1>6, <1>7, <1>8 DEF Sound
<1>10. Len(x.stream.sents) \in Nat /\ y.stream.sents = x.stream.sents
       /\ y.stream.begin_par = x.stream.begin_par
  BY <1>1, <1>3, <1>6, StreamFields
<1>11. CASE y.st.sentence_length >= MaxSentence
  <2>1. Good(end_sentence(y)) /\ Within(y, end_sentence(y))
    BY <1>9, EndSentence
  <2>2. Within(x, end_sentence(y))
    BY <1>7, <1>10, <2>1 DEF Within
  <2>3. Good(ensure_sentence(end_sentence(y))) /\ InSentence(ensure_sentence(end_sentence(y)))
        /\ Within(end_sentence(y), ensure_sentence(end_sentence(y)))
    BY <2>1, EnsureSentence
  <2>4. add(x) = ensure_sentence(end_sentence(y))
    BY <1>2, <1>11
  <2>5. Within(x, ensure_sentence(end_sentence(y)))
    BY <2>1, <2>2, <2>3, WithinBoth
  <2>6. QED
    BY <2>3, <2>4, <2>5
<1>12. CASE ~(y.st.sentence_length >= MaxSentence)
  <2>1. y.st.sentence_length \in Nat
    BY <1>6, StreamFields DEF States
  <2>2. Good(y)
    BY <1>9, <1>12, <2>1, TokenizerAssumption DEF Good
  <2>3. Within(x, y)
    BY <1>7, <1>10 DEF Within
  <2>4. QED
    BY <1>2, <1>7, <1>12, <2>2, <2>3
<1>13. QED
  BY <1>11, <1>12

LEMMA FlushSentence ==
  ASSUME ndoc \in Nat, NEW x, Good(x)
  PROVE  Good(flush_sentence(x)) /\ Within(x, flush_sentence(x))
<1>1. {"seen_terminator"} \in SUBSET PlainFlags
  BY DEF PlainFlags, OtherFlags, Flags
<1> DEFINE y == IF Is(x, "seen_terminator") THEN end_sentence(x) ELSE x
<1>2. Good(y) /\ Within(x, y)
  BY EndSentence, WithinSelf DEF Good
<1>3. flush_sentence(x) = Lower(y, {"seen_terminator"})
  BY DEF flush_sentence
<1> HIDE DEF y
<1>4. QED
  BY <1>1, <1>2, <1>3, OtherLower, WithinBoth

(* Headings, lists and items. *)
LEMMA Headings ==
  ASSUME ndoc \in Nat, NEW x, Good(x)
  PROVE  /\ Good(begin_heading(x)) /\ (InParagraph(x) => Closed(x, begin_heading(x)))
         /\ Good(end_heading(x)) /\ Within(x, end_heading(x))
<1>1. {"in_heading"} \in SUBSET PlainFlags /\ Quotes \in SUBSET PlainFlags
      /\ Quotes \cup {"in_heading"} \in SUBSET PlainFlags
  BY DEF PlainFlags, OtherFlags, Flags, Quotes
<1>2. Good(begin_heading(x)) /\ (InParagraph(x) => Closed(x, begin_heading(x)))
  <2>1. Good(end_paragraph(x)) /\ (InParagraph(x) => Closed(x, end_paragraph(x)))
    BY EndParagraph
  <2>2. /\ Good(Raise(end_paragraph(x), {"in_heading"}))
        /\ Raise(end_paragraph(x), {"in_heading"}).stream = end_paragraph(x).stream
    BY <1>1, <2>1, OtherRaise
  <2>3. Good(begin_heading(x)) /\ begin_heading(x).stream = end_paragraph(x).stream
    BY <1>1, <2>2, OtherLower DEF begin_heading
  <2>4. QED
    BY <2>1, <2>3 DEF Closed
<1>3. Good(end_heading(x)) /\ Within(x, end_heading(x))
  <2>1. Good(end_sentence(x)) /\ Within(x, end_sentence(x))
    BY EndSentence DEF Good
  <2>2. QED
    BY <1>1, <2>1, OtherLower, WithinSelf, WithinBoth DEF end_heading
<1>4. QED
  BY <1>2, <1>3

(* An item that ends has ended its sentence.                               *)
LEMMA EndItem ==
  ASSUME ndoc \in Nat, NEW x, Good(x)
  PROVE  /\ Good(end_item(x)) /\ Within(x, end_item(x))
         /\ Is(end_item(x), "in_item") = FALSE
         /\ Is(x, "in_item") => ~InSentence(end_item(x))
         /\ ~InSentence(x) => ~InSentence(end_item(x)) /\ end_item(x).stream = x.stream
<1>1. CASE ~Is(x, "in_item")
  <2>1. end_item(x) = x
    BY <1>1 DEF end_item
  <2>2. Is(x, "in_item") = FALSE
    <3>1. Is(x, "in_item") \in BOOLEAN
      BY CallsFlags DEF Good, Sound, Flags
    <3>2. QED
      BY <1>1, <3>1
  <2>3. QED
    BY <1>1, <2>1, <2>2, WithinSelf
<1>2. CASE Is(x, "in_item")
  <2> DEFINE y == end_sentence(x)
             z == Lower(y, {"in_item"})
  <2>1. end_item(x) = z
    BY <1>2 DEF end_item
  <2>2. Good(y) /\ ~InSentence(y) /\ Within(x, y) /\ (~InSentence(x) => y = x)
    BY EndSentence DEF Good
  <2> HIDE DEF y
  <2>3. FlagsBecome(y, z, {"in_item"}, FALSE)
    BY <2>2, LowerFlags DEF Good, Sound
  <2>4. {"in_item"} \in SUBSET OtherFlags /\ "in_item" \in Flags \cap {"in_item"}
    BY DEF OtherFlags, Flags
  <2> HIDE DEF z
  <2>5. Is(z, "in_item") = FALSE
    BY <2>3, <2>4, Zenon DEF FlagsBecome
  <2>6. Listed(z)
    BY <2>5 DEF Listed
  <2>7. Good(z) /\ InSentence(z) = InSentence(y) /\ z.stream = y.stream /\ Within(y, z)
    BY <2>2, <2>3, <2>4, <2>6, OtherFlagsBecome
  <2>8. Within(x, z)
    BY <2>2, <2>7, WithinBoth
  <2>9. QED
    BY <2>1, <2>2, <2>5, <2>7, <2>8
<1>3. QED
  BY <1>1, <1>2

(* So has a list, if it ends in an item.                                   *)
LEMMA EndList ==
  ASSUME ndoc \in Nat, NEW x, Good(x)
  PROVE  /\ Good(end_list(x)) /\ Within(x, end_list(x))
         /\ Is(x, "in_item") => ~InSentence(end_list(x))
         /\ ~InSentence(x) => ~InSentence(end_list(x)) /\ end_list(x).stream = x.stream
<1>1. CASE ~Is(x, "in_list")
  <2>1. end_list(x) = x /\ ~Is(x, "in_item")
    BY <1>1 DEF end_list, Good, Sound, Listed
  <2>2. QED
    BY <2>1, WithinSelf
<1>2. CASE Is(x, "in_list")
  <2> DEFINE y == end_item(x)
             fs == Quotes \cup {"in_list"}
             z == Lower(y, fs)
  <2>1. end_list(x) = z
    BY <1>2 DEF end_list
  <2>2. /\ Good(y) /\ Within(x, y) /\ Is(y, "in_item") = FALSE
        /\ Is(x, "in_item") => ~InSentence(y)
        /\ ~InSentence(x) => ~InSentence(y) /\ y.stream = x.stream
    BY EndItem
  <2> HIDE DEF y
  <2>3. fs \in SUBSET OtherFlags /\ "in_item" \in Flags \ fs
    BY DEF OtherFlags, Flags, Quotes
  <2> HIDE DEF fs
  <2>4. FlagsBecome(y, z, fs, FALSE)
    BY <2>2, LowerFlags DEF Good, Sound
  <2> HIDE DEF z
  <2>5. Is(z, "in_item") = FALSE
    BY <2>2, <2>3, <2>4, Zenon DEF FlagsBecome
  <2>6. Listed(z)
    BY <2>5 DEF Listed
  <2>7. Good(z) /\ InSentence(z) = InSentence(y) /\ z.stream = y.stream /\ Within(y, z)
    BY <2>2, <2>3, <2>4, <2>6, OtherFlagsBecome
  <2>8. Within(x, z)
    BY <2>2, <2>7, WithinBoth
  <2>9. QED
    BY <2>1, <2>2, <2>7, <2>8
<1>3. QED
  BY <1>1, <1>2

LEMMA BeginList ==
  ASSUME ndoc \in Nat, NEW x, Good(x)
  PROVE  /\ Good(begin_list(x)) /\ Within(x, begin_list(x))
         /\ Is(begin_list(x), "in_list") = TRUE
<1> DEFINE y == end_list(x)
           z == Raise(y, {"in_list"})
<1>1. Good(y) /\ Within(x, y)
  BY EndList
<1>2. begin_list(x) = Lower(z, Quotes)
  BY DEF begin_list
<1> HIDE DEF y
<1>3. FlagsBecome(y, z, {"in_list"}, TRUE)
  BY <1>1, RaiseFlags DEF Good, Sound
<1>4. {"in_list"} \in SUBSET OtherFlags /\ "in_list" \in Flags \cap {"in_list"}
  BY DEF OtherFlags, Flags
<1> HIDE DEF z
<1>5. Is(z, "in_list") = TRUE
  BY <1>3, <1>4, Zenon DEF FlagsBecome
<1>6. Listed(z)
  BY <1>5 DEF Listed
<1>7. Good(z) /\ Within(y, z)
  BY <1>1, <1>3, <1>4, <1>6, OtherFlagsBecome
<1>8. Within(x, z)
  BY <1>1, <1>7, WithinBoth
<1>9. Quotes \in SUBSET PlainFlags /\ "in_list" \in Flags \ Quotes
  BY DEF PlainFlags, OtherFlags, Flags, Quotes
<1>10. /\ Good(Lower(z, Quotes)) /\ Within(z, Lower(z, Quotes))
       /\ Is(Lower(z, Quotes), "in_list") = Is(z, "in_list")
  BY <1>7, <1>9, OtherLower
<1>11. Within(x, Lower(z, Quotes))
  BY <1>7, <1>8, <1>10, WithinBoth
<1>12. QED
  BY <1>2, <1>5, <1>10, <1>11

(* An item begins in a list, which is begun for it if need be.             *)
LEMMA BeginItem ==
  ASSUME ndoc \in Nat, NEW x, Good(x)
  PROVE  Good(begin_item(x)) /\ Within(x, begin_item(x))
<1> DEFINE y == end_item(x)
           u == ensure_list(y)
           z == Raise(u, {"in_item"})
<1>1. Good(y) /\ Within(x, y)
  BY EndItem
<1> HIDE DEF y
<1>2. Good(u) /\ Within(y, u) /\ Is(u, "in_list")
  BY <1>1, BeginList, WithinSelf DEF ensure_list
<1>3. Within(x, u)
  BY <1>1, <1>2, WithinBoth
<1>4. begin_item(x) = z
  BY DEF begin_item, y
<1> HIDE DEF u
<1>5. FlagsBecome(u, z, {"in_item"}, TRUE)
  BY <1>2, RaiseFlags DEF Good, Sound
<1>6. {"in_item"} \in SUBSET OtherFlags /\ "in_list" \in Flags \ {"in_item"}
  BY DEF OtherFlags, Flags
<1> HIDE DEF z
<1>7. Is(z, "in_list") = Is(u, "in_list")
  BY <1>5, <1>6, Zenon DEF FlagsBecome
<1>8. Listed(z)
  BY <1>2, <1>7, Zenon DEF Listed
<1>9. Good(z) /\ Within(u, z)
  BY <1>2, <1>5, <1>6, <1>8, OtherFlagsBecome
<1>10. QED
  BY <1>2, <1>3, <1>4, <1>9, WithinBoth

(* What the lexer has found, one token or two. *)
LEMMA OneToken ==
  ASSUME ndoc \in Nat \ {0}, NEW x, Good(x)
  PROVE  Good(_token(x)) /\ Within(x, _token(x))
<1> DEFINE y == ensure_sentence(x)
<1>1. Good(y) /\ InSentence(y) /\ Within(x, y)
  BY EnsureSentence
<1>2. _token(x) = add(y)
  BY DEF _token
<1> HIDE DEF y
<1>3. Good(add(y)) /\ Within(y, add(y))
  BY <1>1, Add
<1>4. QED
  BY <1>1, <1>2, <1>3, WithinBoth

LEMMA TwoTokens ==
  ASSUME ndoc \in Nat \ {0}, NEW x, Good(x)
  PROVE  Good(split(ensure_sentence(x))) /\ Within(x, split(ensure_sentence(x)))
<1> DEFINE y == ensure_sentence(x)
           z == add(y)
<1>1. Good(y) /\ InSentence(y) /\ Within(x, y)
  BY EnsureSentence
<1> HIDE DEF y
<1>2. Good(z) /\ InSentence(z) /\ Within(y, z)
  BY <1>1, Add
<1>3. Within(x, z)
  BY <1>1, <1>2, WithinBoth
<1>4. split(ensure_sentence(x)) = add(z)
  BY DEF split, y
<1> HIDE DEF z
<1>5. Good(add(z)) /\ Within(z, add(z))
  BY <1>2, Add
<1>6. QED
  BY <1>2, <1>3, <1>4, <1>5, WithinBoth

(* What may be returned to the lexer after x.                              *)
Follows(x, y) == Good(y) /\ Kept(x, y)

LEMMA WithinFollows ==
  ASSUME NEW x, Good(x), NEW y, Good(y), Within(x, y)
  PROVE  Follows(x, y)
<1>1. /\ Len(x.stream.sents) \in Nat /\ Len(y.stream.sents) \in Nat
      /\ y.stream.begin_par \in Nat
  BY StreamFields DEF Good, Sound
<1>2. x.stream.begin_par \in 0..Len(x.stream.sents)
  BY DEF Good, Sound, Core, Held
<1>3. Kept(x, y)
  BY <1>1, <1>2 DEF Kept, Within
<1>4. QED
  BY <1>3 DEF Follows

LEMMA ClosedFollows ==
  ASSUME NEW x, NEW y, Good(y), InParagraph(x) => Closed(x, y)
  PROVE  Follows(x, y)
BY DEF Follows, Kept, Closed

LEMMA Tokens ==
  ASSUME ndoc \in Nat \ {0}, NEW x, Good(x)
  PROVE  /\ Follows(x, _end(x)) /\ Follows(x, _punct(x)) /\ Follows(x, _terminator(x))
         /\ \A upper \in BOOLEAN : Follows(x, _word(x, upper)) /\ Follows(x, _split(x, upper))
         /\ \A q \in Quotes : Follows(x, Open(x, q)) /\ Follows(x, Close(x, q))
<1>1. {"seen_terminator"} \in SUBSET PlainFlags
      /\ \A q \in Quotes : {q} \in SUBSET PlainFlags
  BY DEF PlainFlags, OtherFlags, Flags, Quotes
<1>2. ASSUME NEW upper \in BOOLEAN
      PROVE  Good(Resume(x, upper)) /\ Within(x, Resume(x, upper))
  BY <1>1, FlushSentence, OtherLower DEF Resume
<1>3. Good(_end(x)) /\ Within(x, _end(x))
  BY OneToken DEF _end
<1>4. Good(_punct(x)) /\ Within(x, _punct(x))
  <2>1. Good(flush_sentence(x)) /\ Within(x, flush_sentence(x))
    BY FlushSentence
  <2>2. Good(_token(flush_sentence(x))) /\ Within(flush_sentence(x), _token(flush_sentence(x)))
    BY <2>1, OneToken
  <2>3. QED
    BY <2>1, <2>2, WithinBoth DEF _punct
<1>5. Follows(x, _terminator(x))
  <2> DEFINE y == Raise(x, {"seen_terminator"})
  <2>1. Good(y) /\ Within(x, y)
    BY <1>1, OtherRaise
  <2>2. _terminator(x) = _token(y)
    BY DEF _terminator, _end
  <2> HIDE DEF y
  <2>3. Good(_token(y)) /\ Within(y, _token(y))
    BY <2>1, OneToken
  <2>4. QED
    BY <2>1, <2>2, <2>3, WithinBoth, WithinFollows
<1>6. ASSUME NEW upper \in BOOLEAN
      PROVE  Follows(x, _word(x, upper))
  <2> DEFINE y == Resume(x, upper)
  <2>1. Good(y) /\ Within(x, y)
    BY <1>2
  <2>2. _word(x, upper) = _token(y)
    BY DEF _word
  <2> HIDE DEF y
  <2>3. Good(_token(y)) /\ Within(y, _token(y))
    BY <2>1, OneToken
  <2>4. QED
    BY <2>1, <2>2, <2>3, WithinBoth, WithinFollows
<1>7. ASSUME NEW upper \in BOOLEAN
      PROVE  Follows(x, _split(x, upper))
  <2> DEFINE y == Resume(x, upper)
  <2>1. Good(y) /\ Within(x, y)
    BY <1>2
  <2>2. _split(x, upper) = split(ensure_sentence(y))
    BY DEF _split
  <2> HIDE DEF y
  <2>3. Good(split(ensure_sentence(y))) /\ Within(y, split(ensure_sentence(y)))
    BY <2>1, TwoTokens
  <2>4. QED
    BY <2>1, <2>2, <2>3, WithinBoth, WithinFollows
<1>8. ASSUME NEW q \in Quotes
      PROVE  Follows(x, Open(x, q)) /\ Follows(x, Close(x, q))
  <2>1. Good(Open(x, q)) /\ Within(_punct(x), Open(x, q))
    BY <1>1, <1>4, OtherRaise DEF Open
  <2>2. Good(Close(x, q)) /\ Within(_end(x), Close(x, q))
    BY <1>1, <1>3, OtherLower DEF Close
  <2>3. Within(x, Open(x, q)) /\ Within(x, Close(x, q))
    BY <1>3, <1>4, <2>1, <2>2, WithinBoth
  <2>4. QED
    BY <2>1, <2>2, <2>3, WithinFollows
<1>9. QED
  BY <1>3, <1>4, <1>5, <1>6, <1>7, <1>8, WithinFollows

(* The tags of headings, paragraphs, lists and items. *)
LEMMA Tags ==
  ASSUME ndoc \in Nat, NEW x, Good(x)
  PROVE  /\ Follows(x, begin_paragraph(x)) /\ Follows(x, end_paragraph(x))
         /\ Follows(x, begin_heading(x)) /\ Follows(x, end_heading(x))
         /\ Follows(x, begin_list(x)) /\ Follows(x, end_list(x))
         /\ Follows(x, begin_item(x)) /\ Follows(x, end_item(x))
<1>1. Follows(x, begin_paragraph(x)) /\ Follows(x, end_paragraph(x))
  BY BeginParagraph, EndParagraph, ClosedFollows
<1>2. Follows(x, begin_heading(x)) /\ Follows(x, end_heading(x))
  BY Headings, ClosedFollows, WithinFollows
<1>3. Follows(x, begin_list(x)) /\ Follows(x, end_list(x))
  BY BeginList, EndList, WithinFollows
<1>4. Follows(x, begin_item(x)) /\ Follows(x, end_item(x))
  BY BeginItem, EndItem, WithinFollows
<1>5. QED
  BY <1>1, <1>2, <1>3, <1>4

(* Writing the document changes none of its slices.                        *)
LEMMA WriteDocument ==
  ASSUME NEW x, Good(x)
  PROVE  /\ Good(StreamEndDocument(x))
         /\ StreamEndDocument(x).stream.tokens = x.stream.tokens
         /\ StreamEndDocument(x).stream.sents = x.stream.sents
         /\ StreamEndDocument(x).stream.pars = x.stream.pars
         /\ StreamEndDocument(x).stream.out =
              Append(x.stream.out, [tokens |-> x.stream.tokens, sents |-> x.stream.sents,
                                    pars |-> x.stream.pars])
<1> DEFINE d == [tokens |-> x.stream.tokens, sents |-> x.stream.sents, pars |-> x.stream.pars]
           written == [x.stream EXCEPT !.doc = FALSE, !.out = Append(x.stream.out, d)]
           y == [x EXCEPT !.stream = written]
<1>1. x \in Calls
  BY DEF Good, Sound
<1>2. StreamEndDocument(x) = y
  BY DEF StreamEndDocument
<1>3. Append(x.stream.out, d) \in Seq(Docs)
  <2>1. d \in Docs
    BY <1>1, StreamFields DEF Docs
  <2>2. x.stream.out \in Seq(Docs)
    BY <1>1, StreamFields
  <2> HIDE DEF d
  <2>3. QED
    BY <2>1, <2>2
<1> HIDE DEF d
<1>4. /\ written \in Streams /\ written.tokens = x.stream.tokens
      /\ written.sents = x.stream.sents /\ written.pars = x.stream.pars
      /\ written.begin_sent = x.stream.begin_sent
      /\ written.begin_par = x.stream.begin_par
      /\ written.out = Append(x.stream.out, d)
  <2>1. x.stream \in Streams
    BY <1>1, StreamFields
  <2>2. QED
    BY <1>3, <2>1 DEF Streams
<1> HIDE DEF written
<1>5. y \in Calls /\ y.st = x.st /\ y.stream = written
  BY <1>1, <1>4, StreamWith
<1> HIDE DEF y
<1>6. InSentence(y) = InSentence(x) /\ InParagraph(y) = InParagraph(x)
  BY <1>5, Zenon DEF InSentence, InParagraph, Is
<1>7. Listed(y)
  BY <1>5, Zenon DEF Listed, Is, Good, Sound
<1>8. Good(y)
  BY <1>4, <1>5, <1>6, <1>7 DEF Good, Sound
<1>9. QED
  BY <1>2, <1>4, <1>5, <1>8 DEF d

(* The stream of a document that ends is what end_paragraph and end_list   *)
(* leave of it.                                                            *)
Ended(x) == end_list(end_paragraph(x))

(* A document that ends in a paragraph or an item has no open sentence.    *)
LEMMA EndsDocument ==
  ASSUME ndoc \in Nat, NEW x, Good(x)
  PROVE  /\ Follows(x, Ended(x))
         /\ (InSentence(x) => InParagraph(x) \/ Is(x, "in_item")) => ~InSentence(Ended(x))
<1> DEFINE y == end_paragraph(x)
           z == end_list(y)
<1>1. /\ Good(y)
      /\ ~InSentence(x) => ~InSentence(y)
      /\ InParagraph(x) => ~InSentence(y) /\ Closed(x, y)
      /\ ~InParagraph(x) => y = x
  BY EndParagraph
<1>2. Ended(x) = z
  BY DEF Ended
<1> HIDE DEF y
<1>3. /\ Good(z)
      /\ Is(y, "in_item") => ~InSentence(z)
      /\ ~InSentence(y) => ~InSentence(z) /\ z.stream = y.stream
  BY <1>1, EndList
<1> HIDE DEF z
<1>4. InParagraph(x) => Closed(x, z)
  BY <1>1, <1>3 DEF Closed
<1>5. Follows(x, z)
  BY <1>3, <1>4, ClosedFollows
<1>6. (InSentence(x) => InParagraph(x) \/ Is(x, "in_item")) => ~InSentence(z)
  BY <1>1, <1>3
<1>7. QED
  BY <1>2, <1>5, <1>6

(* A document that ends elsewhere ends with the stream as it is.           *)
LEMMA EndsWithout ==
  ASSUME NEW x, Good(x), ~InParagraph(x), ~Is(x, "in_item")
  PROVE  Ended(x).stream = x.stream
<1>1. end_paragraph(x) = x
  BY DEF end_paragraph, InParagraph
<1>2. end_item(x) = x
  BY DEF end_item
<1>3. end_list(x) = x \/ end_list(x) = Lower(x, Quotes \cup {"in_list"})
  BY <1>2 DEF end_list
<1>4. Lower(x, Quotes \cup {"in_list"}).stream = x.stream
  BY DEF Lower, Good, Sound, Calls
<1>5. QED
  BY <1>1, <1>3, <1>4 DEF Ended

LEMMA EndDocumentFollows ==
  ASSUME ndoc \in Nat, NEW x, Good(x)
  PROVE  Follows(x, end_document(x))
<1> DEFINE y == Ended(x)
           z == StreamEndDocument(y)
<1>1. Follows(x, y)
  BY EndsDocument
<1>2. end_document(x) = z
  BY DEF end_document, Ended
<1> HIDE DEF y
<1>3. Good(y) /\ Kept(x, y)
  BY <1>1 DEF Follows
<1>4. Good(z) /\ z.stream.sents = y.stream.sents /\ z.stream.pars = y.stream.pars
  BY <1>3, WriteDocument
<1>5. InParagraph(x) => Closed(x, z)
  <2>1. ASSUME InParagraph(x) PROVE Closed(x, y)
    BY <2>1, EndParagraph, EndList DEF y, Ended, Closed
  <2>2. QED
    BY <1>4, <2>1 DEF Closed
<1> HIDE DEF z
<1>6. QED
  BY <1>2, <1>4, <1>5, ClosedFollows

-----------------------------------------------------------------------------
(* The inductive invariant. SlicesTile alone does not say where the open   *)
(* sentence and paragraph begin, how sentence_length counts, or what holds *)
(* of documents to come.                                                   *)

IInv ==
  /\ pc \in {"between", "document"}
  /\ ndoc \in 0..MaxDocs
  /\ pc = "document" => ndoc > 0
  /\ Good(Now)

LEMMA NowGood ==
  ASSUME NEW x, Good(x), Becomes(x), UNCHANGED ndoc
  PROVE  Good(Now)'
<1>1. Now' = x
  <2>1. x \in Calls
    BY DEF Good, Sound
  <2>2. x = [st |-> x.st, stream |-> x.stream]
    BY <2>1 DEF Calls
  <2>3. QED
    BY <2>2 DEF Becomes, Now
<1>2. Good(x)' = Good(x)
  BY DEF Good, Sound
<1>3. QED
  BY <1>1, <1>2 DEF Good, Sound

(* A state that has just been made.                                        *)
LEMMA FreshCall ==
  ASSUME NEW stream2 \in Streams
  PROVE  LET x == [st |-> FreshState, stream |-> stream2]
         IN  /\ x \in Calls /\ x.st.sentence_length = 0
             /\ InSentence(x) = FALSE /\ InParagraph(x) = FALSE /\ Listed(x)
             /\ x.stream = stream2
BY DEF Calls, States, FreshState, InSentence, InParagraph, Listed, Is, Flags

LEMMA InitGood == Init => IInv
<1> SUFFICES ASSUME Init PROVE IInv
  OBVIOUS
<1>1. stream \in Streams /\ stream.tokens = <<>> /\ stream.sents = <<>> /\ stream.pars = <<>>
      /\ stream.begin_sent = 0 /\ stream.begin_par = 0
  BY DEF Init, Streams
<1>2. Core(0, FALSE, FALSE, 0, <<>>, <<>>, <<>>, 0, 0)
  BY TokenizerAssumption DEF Core, Held, SentenceOpen, ParagraphOpen, TokensHeld, InOrder
<1>3. Now = [st |-> FreshState, stream |-> stream] /\ ndoc = 0
  BY DEF Init, Now
<1>4. /\ Now \in Calls /\ Now.st.sentence_length = 0
      /\ InSentence(Now) = FALSE /\ InParagraph(Now) = FALSE /\ Listed(Now)
      /\ Now.stream = stream
  BY <1>1, <1>3, FreshCall
<1>5. Good(Now)
  <2>1. Sound(Now)
    BY <1>1, <1>2, <1>3, <1>4, Zenon DEF Sound
  <2>2. QED
    BY <1>4, <2>1, TokenizerAssumption DEF Good
<1>6. QED
  BY <1>3, <1>5, TokenizerAssumption DEF IInv, Init

LEMMA BeginDocumentGood == IInv /\ BeginDocument => Good(Now)' /\ stream'.sents = stream.sents
<1> SUFFICES ASSUME IInv, BeginDocument PROVE Good(Now)' /\ stream'.sents = stream.sents
  OBVIOUS
<1> DEFINE x == [st |-> FreshState, stream |-> stream]
           d == [tokens |-> stream.tokens, sents |-> stream.sents, pars |-> stream.pars]
           ended == [stream EXCEPT !.doc = FALSE, !.out = Append(stream.out, d)]
           rest == IF stream.doc /\ stream.tokens # <<>> THEN ended ELSE stream
           begun == [rest EXCEPT !.doc = TRUE, !.begin_sent = 0, !.begin_par = 0]
<1>1. Now \in Calls /\ Now.st = st /\ Now.stream = stream /\ ndoc \in Nat /\ ndoc' = ndoc + 1
  BY DEF IInv, Good, Sound, Now, BeginDocument
<1>2. stream \in Streams
  BY <1>1, StreamFields
<1>3. ended \in Streams /\ ended.tokens = stream.tokens /\ ended.sents = stream.sents
      /\ ended.pars = stream.pars
  <2>1. d \in Docs /\ stream.out \in Seq(Docs)
    BY <1>2 DEF Docs, Streams
  <2> HIDE DEF d
  <2>2. Append(stream.out, d) \in Seq(Docs)
    BY <2>1
  <2>3. QED
    BY <1>2, <2>2 DEF Streams
<1>4. st' = FreshState /\ stream' = begun
  <2>1. [Now EXCEPT !.st = FreshState] = x
    BY DEF Now
  <2>2. x.stream = stream /\ x.st = FreshState
    OBVIOUS
  <2> DEFINE u == IF stream.doc /\ stream.tokens # <<>> THEN [x EXCEPT !.stream = ended] ELSE x
  <2>3. StreamEndDocument(x) = [x EXCEPT !.stream = ended]
    BY <2>2 DEF StreamEndDocument
  <2>4. StreamBeginDocument(x) = [u EXCEPT !.stream = [u.stream EXCEPT !.doc = TRUE,
                                                  !.begin_sent = 0, !.begin_par = 0]]
    BY <2>2, <2>3 DEF StreamBeginDocument
  <2>5. /\ u = [st |-> FreshState, stream |-> rest]
    BY <2>2
  <2>6. StreamBeginDocument(x) = [st |-> FreshState, stream |-> begun]
    <3> HIDE DEF x, rest, u
    <3>1. u.stream = rest /\ u.st = FreshState
      BY <2>5
    <3>2. QED
      BY <2>4, <2>5, <3>1
  <2>7. QED
    <3> HIDE DEF begun, x
    <3>1. QED
      BY <2>1, <2>6 DEF BeginDocument, Becomes
<1> HIDE DEF ended
<1>5. rest \in Streams /\ rest.tokens = stream.tokens /\ rest.sents = stream.sents
      /\ rest.pars = stream.pars
  BY <1>2, <1>3
<1> HIDE DEF rest
<1>6. begun \in Streams /\ begun.tokens = stream.tokens /\ begun.sents = stream.sents
      /\ begun.pars = stream.pars /\ begun.begin_sent = 0 /\ begun.begin_par = 0
  BY <1>5 DEF Streams
<1> HIDE DEF begun
<1>7. Core(ndoc + 1, FALSE, FALSE, 0, stream.tokens, stream.sents, stream.pars, 0, 0)
  <2>1. InSentence(Now) \in BOOLEAN /\ InParagraph(Now) \in BOOLEAN
    BY <1>1, StreamFields
  <2>2. Core(ndoc, InSentence(Now), InParagraph(Now), st.sentence_length, stream.tokens,
             stream.sents, stream.pars, stream.begin_sent, stream.begin_par)
    BY <1>1 DEF IInv, Good, Sound
  <2>3. QED
    BY <1>1, <2>1, <2>2, CoreNextDocument
<1> DEFINE y == [st |-> FreshState, stream |-> begun]
<1>8. /\ y \in Calls /\ y.st.sentence_length = 0
      /\ InSentence(y) = FALSE /\ InParagraph(y) = FALSE /\ Listed(y)
      /\ y.stream = begun
  BY <1>6, FreshCall
<1>9. Now' = y
  BY <1>4 DEF Now
<1> HIDE DEF y
<1>10. Sound(Now)'
  BY <1>1, <1>6, <1>7, <1>8, <1>9, Zenon DEF Sound
<1>11. Now'.st.sentence_length < MaxSentence
  BY <1>8, <1>9, TokenizerAssumption
<1>12. QED
  BY <1>4, <1>6, <1>10, <1>11 DEF Good

(* What a step does to the sentences it ends.                              *)
SentencesKept ==
  \A k \in Len(stream.sents)..(Len(stream'.sents) - 1) :
    st.flag["in_paragraph"] =>
      \/ Covered(k, stream'.pars)
      \/ st'.flag["in_paragraph"] /\ k >= stream'.begin_par

LEMMA NowKept ==
  ASSUME NEW x, Kept(Now, x), Becomes(x)
  PROVE  SentencesKept
<1>1. /\ InParagraph(Now) = st.flag["in_paragraph"] /\ Now.stream = stream
      /\ InParagraph(x) = st'.flag["in_paragraph"] /\ x.stream = stream'
  BY DEF Now, Becomes, InParagraph, Is
<1>2. QED
  BY <1>1, Zenon DEF Kept, SentencesKept

(* What the actions that leave pc and ndoc as they are have in common.     *)
LEMMA StepGood ==
  ASSUME IInv, NEW x, Follows(Now, x), Becomes(x), UNCHANGED <<pc, ndoc>>
  PROVE  IInv' /\ SentencesKept
BY NowGood, NowKept DEF IInv, Follows

(* Every step preserves the invariant and keeps the sentences.             *)
LEMMA NextGood == IInv /\ [Next]_vars => IInv' /\ SentencesKept
<1> SUFFICES ASSUME IInv, [Next]_vars PROVE IInv' /\ SentencesKept
  OBVIOUS
<1>1. ndoc \in Nat /\ Good(Now)
  BY TokenizerAssumption DEF IInv
<1>2. CASE BeginDocument
  <2>1. pc' \in {"between", "document"} /\ ndoc' \in 0..MaxDocs /\ ndoc' > 0
    BY <1>2, TokenizerAssumption DEF BeginDocument, IInv
  <2>2. Len(stream.sents) \in Nat
    <3>1. Now \in Calls /\ Now.stream = stream
      BY DEF IInv, Good, Sound, Now
    <3>2. QED
      BY <3>1, StreamFields
  <2>3. Len(stream.sents)..(Len(stream'.sents) - 1) = {}
    BY <1>2, <2>2, BeginDocumentGood
  <2>4. QED
    BY <1>2, <2>1, <2>3, BeginDocumentGood DEF IInv, SentencesKept
<1>3. CASE EndDocument
  <2>1. Good(end_document(Now)) /\ Kept(Now, end_document(Now))
    BY <1>1, EndDocumentFollows DEF Follows
  <2>2. Good(Now)' /\ SentencesKept
    BY <1>3, <2>1, NowGood, NowKept DEF EndDocument
  <2>3. QED
    BY <1>3, <2>2 DEF EndDocument, IInv
<1>4. Follows(Now, Now)
  BY <1>1, WithinSelf, WithinFollows
<1>5. CASE Fails
  <2>1. Becomes(Now)
    BY <1>5 DEF Fails, Becomes, Now
  <2>2. Good(Now)' /\ SentencesKept
    BY <1>1, <1>4, <1>5, <2>1, NowGood, NowKept DEF Fails, Follows
  <2>3. QED
    BY <1>5, <2>2 DEF Fails, IInv
<1>6. ASSUME pc = "document"
      PROVE  /\ Follows(Now, _end(Now)) /\ Follows(Now, _punct(Now))
             /\ Follows(Now, _terminator(Now))
             /\ \A upper \in BOOLEAN : /\ Follows(Now, _word(Now, upper))
                                      /\ Follows(Now, _split(Now, upper))
             /\ \A q \in Quotes : Follows(Now, Open(Now, q)) /\ Follows(Now, Close(Now, q))
  <2>1. ndoc \in Nat \ {0}
    BY <1>1, <1>6 DEF IInv
  <2>2. QED
    BY <1>1, <2>1, Tokens
<1>7. CASE Word
  BY <1>6, <1>7, StepGood DEF Word, InDocument
<1>8. CASE Split
  BY <1>6, <1>8, StepGood DEF Split, InDocument
<1>9. CASE Punct
  BY <1>6, <1>9, StepGood DEF Punct, InDocument
<1>10. CASE EndPunct
  BY <1>6, <1>10, StepGood DEF EndPunct, InDocument
<1>11. CASE Terminator
  BY <1>6, <1>11, StepGood DEF Terminator, InDocument
<1>12. CASE OpenQuote
  BY <1>6, <1>12, StepGood DEF OpenQuote, InDocument
<1>13. CASE CloseQuote
  BY <1>6, <1>13, StepGood DEF CloseQuote, InDocument
<1>14. CASE DoubleQuote
  <2>1. "in_double_quotes" \in Quotes
    BY DEF Quotes
  <2>2. QED
    BY <1>6, <1>14, <2>1, StepGood DEF DoubleQuote, InDocument
<1>15. CASE SingleQuote
  <2>1. "in_single_quotes" \in Quotes
    BY DEF Quotes
  <2>2. QED
    BY <1>6, <1>15, <2>1, StepGood DEF SingleQuote, InDocument
<1>16. CASE DashOrItem
  BY <1>1, <1>9, <1>16, Tags, StepGood DEF DashOrItem, InDocument
<1>17. CASE Tag
  BY <1>1, <1>17, Tags, StepGood DEF Tag, InDocument
<1>18. CASE UNCHANGED vars
  <2>1. Becomes(Now)
    BY <1>18 DEF vars, Becomes, Now
  <2>2. QED
    BY <1>4, <1>18, <2>1, StepGood DEF vars
<1>19. QED
  BY <1>2, <1>3, <1>5, <1>7, <1>8, <1>9, <1>10, <1>11, <1>12, <1>13, <1>14,
     <1>15, <1>16, <1>17, <1>18, Zenon DEF Next

(* A sequence of slices that end by n. *)
LEMMA SlicesWithin ==
  ASSUME NEW slices \in Seq(Pieces), NEW n \in Nat, InOrder(slices),
         \A i \in DOMAIN slices : slices[i].stop <= n
  PROVE  slices \in Seq(Slices(n))
<1>1. \A i \in 1..Len(slices) : slices[i] \in Slices(n)
  <2>1. SUFFICES ASSUME NEW i \in 1..Len(slices) PROVE slices[i] \in Slices(n)
    OBVIOUS
  <2>2. slices[i] \in Pieces /\ slices[i].start < slices[i].stop /\ slices[i].stop <= n
    BY DEF InOrder
  <2>3. slices[i].start \in 0..n /\ slices[i].stop \in 0..n
    BY <2>2 DEF Pieces
  <2>4. QED
    BY <2>2, <2>3 DEF Pieces, Slices
<1>2. QED
  BY <1>1

LEMMA IInvImplies == IInv => TypeOK /\ SlicesTile
<1> SUFFICES ASSUME IInv PROVE TypeOK /\ SlicesTile
  OBVIOUS
<1>1. /\ Now \in Calls /\ Now.st = st /\ Now.stream = stream
      /\ InSentence(Now) = st.flag["in_sentence"]
      /\ InParagraph(Now) = st.flag["in_paragraph"]
  BY DEF IInv, Good, Sound, Now, InSentence, InParagraph, Is
<1>2. Core(ndoc, InSentence(Now), InParagraph(Now), st.sentence_length, stream.tokens,
           stream.sents, stream.pars, stream.begin_sent, stream.begin_par)
  BY <1>1 DEF IInv, Good, Sound
<1>3. /\ stream.tokens \in Seq(1..ndoc)
      /\ stream.sents \in Seq(Pieces) /\ stream.pars \in Seq(Pieces)
      /\ stream.begin_sent \in 0..Len(stream.tokens)
      /\ stream.begin_par \in 0..Len(stream.sents)
      /\ InOrder(stream.sents) /\ InOrder(stream.pars)
      /\ \A i \in DOMAIN stream.sents :
           stream.sents[i].stop - stream.sents[i].start <= MaxSentence
      /\ Len(stream.tokens) \in Nat /\ Len(stream.sents) \in Nat
  BY <1>2 DEF Core, Held
<1>4. stream.sents \in Seq(Slices(Len(stream.tokens)))
  <2>1. \A i \in DOMAIN stream.sents :
          stream.sents[i].stop <= stream.begin_sent \/ stream.sents[i].stop <= Len(stream.tokens)
    BY <1>2 DEF Core, SentenceOpen
  <2>2. \A i \in DOMAIN stream.sents : stream.sents[i].stop \in Nat
    <3>1. \A i \in DOMAIN stream.sents : stream.sents[i] \in Pieces
      BY <1>3
    <3>2. QED
      BY <3>1 DEF Pieces
  <2>3. \A i \in DOMAIN stream.sents : stream.sents[i].stop <= Len(stream.tokens)
    BY <1>3, <2>1, <2>2
  <2>4. QED
    BY <1>3, <2>3, SlicesWithin
<1>5. stream.pars \in Seq(Slices(Len(stream.sents)))
  <2>1. \A i \in DOMAIN stream.pars :
          stream.pars[i].stop <= stream.begin_par \/ stream.pars[i].stop <= Len(stream.sents)
    BY <1>2 DEF Core, ParagraphOpen
  <2>2. \A i \in DOMAIN stream.pars : stream.pars[i].stop \in Nat
    <3>1. \A i \in DOMAIN stream.pars : stream.pars[i] \in Pieces
      BY <1>3
    <3>2. QED
      BY <3>1 DEF Pieces
  <2>3. \A i \in DOMAIN stream.pars : stream.pars[i].stop <= Len(stream.sents)
    BY <1>3, <2>1, <2>2
  <2>4. QED
    BY <1>3, <2>3, SlicesWithin
<1>6. stream.tokens \in Seq(1..MaxDocs)
  <2>1. ndoc \in Nat /\ ndoc <= MaxDocs
    BY TokenizerAssumption DEF IInv
  <2>2. QED
    BY <1>3, <2>1, TokenizerAssumption, MoreDocuments
<1>7. st \in [flag : [Flags -> BOOLEAN], sentence_length : 0..(MaxSentence - 1)]
  <2>1. st \in States /\ st.sentence_length < MaxSentence
    BY <1>1, StreamFields DEF IInv, Good
  <2>2. st.sentence_length \in 0..(MaxSentence - 1)
    BY <2>1, TokenizerAssumption DEF States
  <2>3. QED
    BY <2>1, <2>2 DEF States
<1>8. TypeOK
  <2>1. stream.doc \in BOOLEAN
    BY <1>1 DEF Calls, Streams
  <2>2. QED
    BY <1>3, <1>4, <1>5, <1>6, <1>7, <2>1 DEF TypeOK, IInv
<1>9. SlicesTile
  <2>1. \A k \in DOMAIN stream.tokens :
          stream.tokens[k] = ndoc =>
            \/ Covered(k - 1, stream.sents)
            \/ st.flag["in_sentence"] /\ k > stream.begin_sent
    BY <1>1, <1>2 DEF Core, TokensHeld
  <2>2. QED
    BY <1>3, <2>1 DEF SlicesTile
<1>10. QED
  BY <1>8, <1>9

(* The state of the tokenizer and the slices of the stream keep their      *)
(* types: Tokenizer::State, and DocrepStream's sentences and paragraphs    *)
(* that never reach past what they are slices of.                          *)
THEOREM TypeCorrect == Spec => []TypeOK
<1>1. IInv => TypeOK
  BY IInvImplies
<1>2. IInv /\ [Next]_vars => IInv'
  BY NextGood
<1>3. QED
  BY InitGood, <1>1, <1>2, PTL DEF Spec

(* Whatever the lexer finds, and whatever documents fail in between:       *)
(* sentences and paragraphs do not overlap, no sentence exceeds            *)
(* MAX_SENTENCE_LENGTH, and no token of the document is left out of the    *)
(* sentences, though add may close a sentence between the two tokens of a  *)
(* split.                                                                  *)
THEOREM SentencesTile == Spec => []SlicesTile
<1>1. IInv => SlicesTile
  BY IInvImplies
<1>2. IInv /\ [Next]_vars => IInv'
  BY NextGood
<1>3. QED
  BY InitGood, <1>1, <1>2, PTL DEF Spec

(* A sentence that ends while a paragraph is open belongs to it, whatever  *)
(* ends it: a terminator, its length, a tag, or the end of the document;   *)
(* in particular State::end_paragraph ends the sentence before it tells    *)
(* the stream, and no call moves the beginning of an open paragraph.       *)
THEOREM SentencesBelongToParagraphs == Spec => SentenceStaysInItsParagraph
<1>1. IInv /\ [Next]_vars => IInv' /\ [SentencesKept]_vars
  BY NextGood
<1>2. QED
  BY InitGood, <1>1, PTL DEF Spec, SentenceStaysInItsParagraph, SentencesKept

(* What end_document writes has every token of the document in a sentence, *)
(* but those of a sentence that is open in no paragraph and in no item:    *)
(* State::end_document closes paragraphs and lists and nothing else, and   *)
(* an item is never open outside of a list.                                *)
EndedComplete ==
  EndDocument =>
    LET doc == stream'.out[Len(stream'.out)]
    IN  \A k \in DOMAIN doc.tokens :
          doc.tokens[k] = ndoc =>
            (Covered(k - 1, doc.sents) <=> ~(LosesLast /\ k > stream.begin_sent))

LEMMA EndDocumentComplete == IInv => EndedComplete
<1> SUFFICES ASSUME IInv, EndDocument
             PROVE  LET doc == stream'.out[Len(stream'.out)]
                    IN  \A k \in DOMAIN doc.tokens :
                          doc.tokens[k] = ndoc =>
                            (Covered(k - 1, doc.sents)
                               <=> ~(LosesLast /\ k > stream.begin_sent))
  BY DEF EndedComplete
<1> DEFINE x == Now
           y == Ended(x)
           d == [tokens |-> y.stream.tokens, sents |-> y.stream.sents, pars |-> y.stream.pars]
<1>1. ndoc \in Nat /\ Good(x)
  BY TokenizerAssumption DEF IInv
<1>2. /\ x.stream = stream
      /\ LosesLast <=> InSentence(x) /\ ~InParagraph(x) /\ ~Is(x, "in_item")
  BY DEF Now, InSentence, InParagraph, Is, LosesLast
<1>3. stream' = StreamEndDocument(y).stream
  BY DEF EndDocument, Becomes, end_document, Ended
<1> HIDE DEF x
<1>4. Good(y) /\ (~LosesLast => ~InSentence(y))
  BY <1>1, <1>2, EndsDocument DEF Follows
<1>5. LosesLast => y.stream = x.stream
  BY <1>1, <1>2, EndsWithout
<1> HIDE DEF y
<1>6. stream'.out = Append(y.stream.out, d)
  BY <1>3, <1>4, WriteDocument
<1>7. y.stream.out \in Seq(Docs) /\ InSentence(y) \in BOOLEAN
  BY <1>4, StreamFields DEF Good, Sound
<1>8. stream'.out[Len(stream'.out)] = d
  <2> HIDE DEF d
  <2>1. d \in Docs
    BY <1>4, StreamFields DEF Good, Sound, Docs, d
  <2>2. QED
    BY <1>6, <1>7, <2>1
<1>9. d.tokens = y.stream.tokens /\ d.sents = y.stream.sents
  OBVIOUS
<1> HIDE DEF d
<1>10. SUFFICES ASSUME NEW k \in DOMAIN y.stream.tokens, y.stream.tokens[k] = ndoc
                PROVE  Covered(k - 1, y.stream.sents)
                         <=> ~(LosesLast /\ k > stream.begin_sent)
  BY <1>8, <1>9
<1>11. CASE ~LosesLast
  <2>1. TokensHeld(ndoc, FALSE, y.stream.tokens, y.stream.sents, y.stream.begin_sent)
    BY <1>4, <1>7, <1>11 DEF Good, Sound, Core, TokensHeld
  <2>2. QED
    BY <1>10, <1>11, <2>1 DEF TokensHeld
<1>12. CASE LosesLast
  (* The open sentence begins after all others have ended. *)
  <2>1. InSentence(x) /\ y.stream = stream /\ x.stream = stream
    BY <1>2, <1>5, <1>12
  <2>2. /\ TokensHeld(ndoc, InSentence(x), stream.tokens, stream.sents, stream.begin_sent)
        /\ SentenceOpen(InSentence(x), x.st.sentence_length, stream.tokens, stream.sents,
                        stream.begin_sent)
        /\ stream.sents \in Seq(Pieces) /\ stream.begin_sent \in Nat
        /\ stream.tokens \in Seq(Nat)
    BY <1>1, <2>1, StreamFields DEF Good, Sound, Core
  <2>3. \A i \in DOMAIN stream.sents : stream.sents[i].stop <= stream.begin_sent
    BY <2>1, <2>2 DEF SentenceOpen
  <2>4. \A i \in DOMAIN stream.sents : stream.sents[i].stop \in Nat
    <3>1. \A i \in DOMAIN stream.sents : stream.sents[i] \in Pieces
      BY <2>2
    <3>2. QED
      BY <3>1 DEF Pieces
  <2>5. k \in Nat
    BY <2>1, <2>2
  <2>6. ASSUME k > stream.begin_sent
        PROVE  ~Covered(k - 1, stream.sents)
    BY <2>2, <2>3, <2>4, <2>5, <2>6 DEF Covered
  <2>7. Covered(k - 1, stream.sents) \/ k > stream.begin_sent
    BY <1>10, <2>1, <2>2 DEF TokensHeld
  <2>8. QED
    BY <1>12, <2>1, <2>6, <2>7
<1>13. QED
  BY <1>11, <1>12

(* A document that ends is written with every one of its tokens in a       *)
(* sentence, however its sentences were ended before, unless a sentence is *)
(* open in a heading or in text of a list that is in no item: then it is   *)
(* written with all but the tokens of that sentence, which are in none.    *)
THEOREM EndsWithAllItsTokens == Spec => EndClosesTheSentence
<1>1. IInv /\ [Next]_vars => IInv'
  BY NextGood
<1>2. IInv => [EndedComplete]_vars
  BY EndDocumentComplete
<1>3. QED
  BY InitGood, <1>1, <1>2, PTL DEF Spec, EndClosesTheSentence, EndedComplete
=============================================================================
