------------------------------ MODULE Tokenizer ------------------------------
(***************************************************************************)
(* What the tokenizer does with the tokens and tags its lexer finds, and   *)
(* the docrep stream it drives: Tokenizer::State keeps track of the open   *)
(* heading, paragraph, list, item and sentence, and DocrepStream turns its *)
(* calls into tokens, sentences and paragraphs.                            *)
(*                                                                         *)
(* The lexer is any sequence of the actions of its grammar. A token is the *)
(* number of the document it was found in. A sentence is a slice of        *)
(* tokens, a paragraph a slice of sentences: the first, and one past the   *)
(* last, counted from 0. in_document is never read; n1, n2 and suffix only *)
(* say how a token is spelt. They are left out.                            *)
(***************************************************************************)
EXTENDS Integers, Sequences

CONSTANTS
  MaxSentence,  \* MAX_SENTENCE_LENGTH
  MaxTokens,    \* bound on the tokens of all documents
  MaxDocs       \* bound on the documents that go through one stream

ASSUME TokenizerAssumption ==
  /\ MaxSentence \in Nat \ {0}
  /\ MaxTokens \in Nat
  /\ MaxDocs \in Nat

VARIABLES
  pc,      \* "between" two calls of tokenize, or in a "document"
  ndoc,    \* the number of the document, from 1
  st,      \* the Tokenizer::State
  stream   \* the DocrepStream, with the documents it has written

vars == <<pc, ndoc, st, stream>>

Flags == {"in_heading", "in_paragraph", "in_list", "in_item", "in_sentence",
          "seen_terminator", "in_double_quotes", "in_single_quotes"}

FreshState == [flag |-> [f \in Flags |-> FALSE], sentence_length |-> 0]

(* A function of Tokenizer::State or of the stream takes both and returns  *)
(* both, so that calls compose.                                            *)
Now == [st |-> st, stream |-> stream]
Becomes(x) == st' = x.st /\ stream' = x.stream

Is(x, f) == x.st.flag[f]
Raise(x, fs) == [x EXCEPT !.st.flag = [f \in Flags |-> f \in fs \/ @[f]]]
Lower(x, fs) == [x EXCEPT !.st.flag = [f \in Flags |-> f \notin fs /\ @[f]]]

Quotes == {"in_single_quotes", "in_double_quotes"}

-----------------------------------------------------------------------------
(* The stream. An empty sentence or paragraph is dropped.                  *)

Slice(start, stop) == [start |-> start, stop |-> stop]
AppendSlice_DropsSingles(slices, start, stop) ==
  IF start + 1 < stop THEN Append(slices, Slice(start, stop)) ELSE slices

AppendSlice(slices, start, stop) ==
  IF start # stop THEN Append(slices, Slice(start, stop)) ELSE slices

StreamAdd(x) == [x EXCEPT !.stream.tokens = Append(@, ndoc)]

StreamBeginSentence(x) == [x EXCEPT !.stream.begin_sent = Len(x.stream.tokens)]

StreamEndSentence(x) ==
  [x EXCEPT !.stream.sents =
     AppendSlice(@, x.stream.begin_sent, Len(x.stream.tokens))]

StreamBeginParagraph(x) == [x EXCEPT !.stream.begin_par = Len(x.stream.sents)]

StreamEndParagraph(x) ==
  [x EXCEPT !.stream.pars = AppendSlice(@, x.stream.begin_par, Len(x.stream.sents))]

StreamEndDocument(x) ==
  [x EXCEPT !.stream.doc = FALSE,
            !.stream.out = Append(@, [tokens |-> x.stream.tokens,
                                      sents  |-> x.stream.sents,
                                      pars   |-> x.stream.pars])]

(* A document that was never ended is written first. The vectors of        *)
(* tokens, sentences and paragraphs keep what they hold.                   *)
StreamBeginDocument(x) ==
  LET y == IF x.stream.doc /\ x.stream.tokens # <<>> THEN StreamEndDocument(x) ELSE x
  IN  [y EXCEPT !.stream.doc = TRUE, !.stream.begin_sent = 0, !.stream.begin_par = 0]

-----------------------------------------------------------------------------
(* Tokenizer::State. *)

end_sentence_KeepsLength(x) ==
  IF ~Is(x, "in_sentence") THEN x
  ELSE Lower(StreamEndSentence(x), {"seen_terminator", "in_sentence"})

end_sentence(x) ==
  IF ~Is(x, "in_sentence") THEN x
  ELSE [Lower(StreamEndSentence(x), {"seen_terminator", "in_sentence"})
          EXCEPT !.st.sentence_length = 0]

end_paragraph_SentenceLast(x) ==
  IF ~Is(x, "in_paragraph") THEN x
  ELSE end_sentence(Lower(StreamEndParagraph(x), Quotes \cup {"in_paragraph"}))

end_paragraph(x) ==
  IF ~Is(x, "in_paragraph") THEN x
  ELSE Lower(StreamEndParagraph(end_sentence(x)), Quotes \cup {"in_paragraph"})

begin_paragraph(x) ==
  StreamBeginParagraph(Lower(Raise(end_paragraph(x), {"in_paragraph"}), Quotes))

ensure_paragraph(x) == IF Is(x, "in_paragraph") THEN x ELSE begin_paragraph(x)

begin_sentence(x) ==
  LET y == IF Is(x, "in_heading") \/ Is(x, "in_list") THEN x ELSE ensure_paragraph(x)
  IN  StreamBeginSentence(Lower(Raise(y, {"in_sentence"}), {"seen_terminator"}))

ensure_sentence(x) == IF Is(x, "in_sentence") THEN x ELSE begin_sentence(x)

flush_sentence(x) ==
  Lower(IF Is(x, "seen_terminator") THEN end_sentence(x) ELSE x, {"seen_terminator"})

begin_heading(x) == Lower(Raise(end_paragraph(x), {"in_heading"}), Quotes)

(* The stream does nothing with headings, lists and items.                 *)
end_heading(x) ==
  IF Is(x, "in_heading") THEN Lower(end_sentence(x), Quotes \cup {"in_heading"}) ELSE x

end_item_LeavesSentence(x) == Lower(x, {"in_item"})

end_item(x) == IF Is(x, "in_item") THEN Lower(end_sentence(x), {"in_item"}) ELSE x

end_list(x) ==
  IF Is(x, "in_list") THEN Lower(end_item(x), Quotes \cup {"in_list"}) ELSE x

begin_list(x) == Lower(Raise(end_list(x), {"in_list"}), Quotes)

ensure_list(x) == IF Is(x, "in_list") THEN x ELSE begin_list(x)

begin_item(x) == Raise(ensure_list(end_item(x)), {"in_item"})

check_sentence_length(x) ==
  LET y == [x EXCEPT !.st.sentence_length = @ + 1]
  IN  IF y.st.sentence_length >= MaxSentence THEN ensure_sentence(end_sentence(y)) ELSE y

add(x) == check_sentence_length(StreamAdd(x))
split(x) == add(add(x))

end_document(x) == StreamEndDocument(end_list(end_paragraph(x)))

-----------------------------------------------------------------------------
(* The tokenizer's functions on what the lexer has found. *)

_token(x) == add(ensure_sentence(x))

(* After a terminator only a word in upper case, or a number, begins a new *)
(* sentence.                                                               *)
Resume(x, upper) == IF upper THEN flush_sentence(x) ELSE Lower(x, {"seen_terminator"})

_word(x, upper) == _token(Resume(x, upper))
_punct(x)       == _token(flush_sentence(x))
_end(x)         == _token(x)
_split(x, upper) == split(ensure_sentence(Resume(x, upper)))
_terminator(x)  == _end(Raise(x, {"seen_terminator"}))

Open(x, quote)  == Raise(_punct(x), {quote})
Close(x, quote) == Lower(_end(x), {quote})

-----------------------------------------------------------------------------
Init ==
  /\ pc = "between"
  /\ ndoc = 0
  /\ st = FreshState
  /\ stream = [doc |-> FALSE, tokens |-> <<>>, sents |-> <<>>, pars |-> <<>>,
               begin_sent |-> 0, begin_par |-> 0, out |-> <<>>]

BeginDocument ==
  /\ pc = "between" /\ ndoc < MaxDocs
  /\ ndoc' = ndoc + 1
  /\ Becomes(StreamBeginDocument([Now EXCEPT !.st = FreshState]))
  /\ pc' = "document"

InDocument(n) ==
  /\ pc = "document" /\ Len(stream.tokens) + n <= MaxTokens
  /\ UNCHANGED <<pc, ndoc>>

Word       == InDocument(1) /\ \E upper \in BOOLEAN : Becomes(_word(Now, upper))
Split      == InDocument(2) /\ \E upper \in BOOLEAN : Becomes(_split(Now, upper))
Punct      == InDocument(1) /\ Becomes(_punct(Now))
EndPunct   == InDocument(1) /\ Becomes(_end(Now))
Terminator == InDocument(1) /\ Becomes(_terminator(Now))

OpenQuote  == InDocument(1) /\ \E q \in Quotes : Becomes(Open(Now, q))
CloseQuote == InDocument(1) /\ \E q \in Quotes : Becomes(Close(Now, q))

DoubleQuote ==
  /\ InDocument(1)
  /\ Becomes(IF st.flag["in_double_quotes"] THEN Close(Now, "in_double_quotes")
             ELSE Open(Now, "in_double_quotes"))

(* before: no letter or digit follows, so that the quote must close.       *)
SingleQuote ==
  /\ InDocument(1)
  /\ \E before \in BOOLEAN :
       Becomes(IF st.flag["in_single_quotes"] \/ before THEN Close(Now, "in_single_quotes")
               ELSE Open(Now, "in_single_quotes"))

(* A dash at the beginning of a sentence is a bullet.                      *)
DashOrItem ==
  IF st.flag["in_sentence"] THEN Punct ELSE InDocument(0) /\ Becomes(begin_item(Now))

(* <p>, </p>, <p/> and empty lines; <h1>; <ul>, <ol>; <li>.                *)
Tag ==
  /\ InDocument(0)
  /\ \/ Becomes(begin_paragraph(Now)) \/ Becomes(end_paragraph(Now))
     \/ Becomes(begin_heading(Now))   \/ Becomes(end_heading(Now))
     \/ Becomes(begin_list(Now))      \/ Becomes(end_list(Now))
     \/ Becomes(begin_item(Now))      \/ Becomes(end_item(Now))

EndDocument ==
  /\ pc = "document"
  /\ Becomes(end_document(Now))
  /\ pc' = "between"
  /\ UNCHANGED ndoc

(* A TokenError leaves the stream as it is.                                *)
Fails ==
  /\ pc = "document"
  /\ pc' = "between"
  /\ UNCHANGED <<ndoc, st, stream>>

Next ==
  \/ BeginDocument \/ EndDocument \/ Fails
  \/ Word \/ Split \/ Punct \/ EndPunct \/ Terminator
  \/ OpenQuote \/ CloseQuote \/ DoubleQuote \/ SingleQuote
  \/ DashOrItem \/ Tag

Spec == Init /\ [][Next]_vars
-----------------------------------------------------------------------------
Slices(n) == [start : 0..n, stop : 0..n]

(* The state's types; every slice lies within what it is a slice of.       *)
TypeOK ==
  /\ pc \in {"between", "document"}
  /\ ndoc \in 0..MaxDocs
  /\ st \in [flag : [Flags -> BOOLEAN], sentence_length : 0..(MaxSentence - 1)]
  /\ stream.doc \in BOOLEAN
  /\ stream.tokens \in Seq(1..MaxDocs)
  /\ stream.sents \in Seq(Slices(Len(stream.tokens)))
  /\ stream.pars \in Seq(Slices(Len(stream.sents)))
  /\ stream.begin_sent \in 0..Len(stream.tokens)
  /\ stream.begin_par \in 0..Len(stream.sents)

Covered(k, slices) == \E i \in DOMAIN slices : slices[i].start <= k /\ k < slices[i].stop

InOrder(slices) ==
  /\ \A i \in DOMAIN slices : slices[i].start < slices[i].stop
  /\ \A i, j \in DOMAIN slices : i < j => slices[i].stop <= slices[j].start

(* Sentences and paragraphs are not empty and do not overlap, no sentence  *)
(* exceeds MAX_SENTENCE_LENGTH, and every token of the document belongs to *)
(* a sentence, or to the one that is open.                                 *)
SlicesTile ==
  /\ InOrder(stream.sents) /\ InOrder(stream.pars)
  /\ \A i \in DOMAIN stream.sents :
       stream.sents[i].stop - stream.sents[i].start <= MaxSentence
  /\ pc = "document" =>
       \A k \in DOMAIN stream.tokens :
         stream.tokens[k] = ndoc =>
           \/ Covered(k - 1, stream.sents)
           \/ st.flag["in_sentence"] /\ k > stream.begin_sent

(* A sentence that ends while a paragraph is open belongs to it, though it *)
(* may have begun before, in a heading or a list.                          *)
SentenceStaysInItsParagraph ==
  [][\A k \in Len(stream.sents)..(Len(stream'.sents) - 1) :
       st.flag["in_paragraph"] =>
         \/ Covered(k, stream'.pars)
         \/ st'.flag["in_paragraph"] /\ k >= stream'.begin_par]_vars

(* The end of a document closes a paragraph, an item and the sentence in   *)
(* them, and nothing else: a sentence open in a heading, or in the text of *)
(* a list that is in no item, is lost.                                     *)
LosesLast ==
  st.flag["in_sentence"] /\ ~st.flag["in_paragraph"] /\ ~st.flag["in_item"]

(* Of a document that ends, the tokens of the sentence it loses are in no  *)
(* sentence; every other token is, and without a lost sentence all are.    *)
EndClosesTheSentence ==
  [][EndDocument =>
       LET doc == stream'.out[Len(stream'.out)]
       IN  \A k \in DOMAIN doc.tokens :
             doc.tokens[k] = ndoc =>
               (Covered(k - 1, doc.sents) <=> ~(LosesLast /\ k > stream.begin_sent))]_vars
=============================================================================
