----------------------------- MODULE StreamTools -----------------------------
(***************************************************************************)
(* The applications that read a stream of documents and write some of it,  *)
(* or something about it: dr-head, dr-tail, dr-sample and dr-offsets, which *)
(* copy documents with read_lazy_doc and never decode them; dr-grep, which *)
(* evaluates a query (module QueryEval) on each; and dr-count.             *)
(*                                                                         *)
(* A document is its number in Docs. The stream may be cut off inside of   *)
(* the document that follows: in its headers, before or at the number of   *)
(* the bytes of a group of instances, or in the bytes of the last group,   *)
(* in which case read_lazy_doc takes whatever its buffer holds for them.   *)
(*                                                                         *)
(* Formatting, and dr-count's --bytes and --doc-id, are left out.          *)
(***************************************************************************)
EXTENDS QueryEval, FiniteSetsExt

CONSTANTS
  Docs,      \* the documents that occur
  Streams,   \* the sequences of documents that occur
  Options    \* what each tool may be called with

Tools == {"head", "tail", "sample", "offsets", "grep", "count"}
Cuts == {"none", "headers", "size", "bytes"}

Junk == 0    \* the document whose last bytes are missing

VARIABLES
  tool,
  opt,      \* its options
  stream,
  cut,      \* where the stream is cut off, after its documents
  nread,    \* how many documents have been read
  bufs,     \* dr-tail, dr-sample: the array of buffers, indexed from 0
  upto,     \* dr-tail: the next of them
  lines,    \* the lines of dr-offsets and dr-count
  out,      \* the documents that have been written
  status    \* "running", "done", "error" (an exception) or "crashed"

input == <<tool, opt, stream, cut>>
vars == <<input, nread, bufs, upto, lines, out, status>>

-----------------------------------------------------------------------------
(* Reading. *)

Running(t) == tool = t /\ status = "running"

(* read_lazy_doc: a document, false, or an exception.                      *)
Lazily == IF cut = "bytes" THEN Append(stream, Junk) ELSE stream

HasLazy == nread < Len(Lazily)
LazyDoc == Lazily[nread + 1]
LazyEnd == ~HasLazy /\ cut # "size"
LazyThrows == ~HasLazy /\ cut = "size"

(* Reader::read finds every cut.                                           *)
HasDoc == nread < Len(stream)
Doc == stream[nread + 1]
ReaderEnd == ~HasDoc /\ cut = "none"
ReaderThrows == ~HasDoc /\ cut # "none"

Bytes(d) == IF d = Junk THEN 1 ELSE Docs[d].nbytes

Stop(how) == status' = how /\ UNCHANGED <<nread, bufs, upto, lines, out>>

-----------------------------------------------------------------------------
(* dr-head *)

Enough == Len(out) = opt.count

HeadReads ==
  /\ Running("head") /\ ~Enough /\ HasLazy
  /\ nread' = nread + 1
  /\ out' = IF nread < opt.skip THEN out ELSE Append(out, LazyDoc)
  /\ UNCHANGED <<input, bufs, upto, lines, status>>

HeadStops ==
  /\ Running("head")
  /\ \/ (Enough \/ LazyEnd) /\ Stop("done")
     \/ ~Enough /\ LazyThrows /\ Stop("error")
  /\ UNCHANGED input

-----------------------------------------------------------------------------
(* dr-tail: the last count documents, in a circle. With count = 0 there is *)
(* no buffer to write and no remainder to take.                            *)

TailReads ==
  /\ Running("tail") /\ HasLazy
  /\ IF opt.count = 0 THEN Stop("crashed")
     ELSE /\ bufs' = [bufs EXCEPT ![upto] = LazyDoc]
          /\ upto' = (upto + 1) % opt.count
          /\ nread' = nread + 1
          /\ UNCHANGED <<lines, out, status>>
  /\ UNCHANGED input

Least(m, n) == IF m < n THEN m ELSE n

TailStart_Upto == upto

TailStart == IF nread < opt.count THEN 0 ELSE upto

TailStops ==
  /\ Running("tail")
  /\ \/ /\ LazyEnd
        /\ out' = [i \in 1..Least(nread, opt.count) |->
                     bufs[(TailStart + i - 1) % opt.count]]
        /\ status' = "done"
        /\ UNCHANGED <<nread, bufs, upto, lines>>
     \/ LazyThrows /\ Stop("error")
  /\ UNCHANGED input

-----------------------------------------------------------------------------
(* dr-sample: r is what the generator returns; what matters of it is its   *)
(* remainders by nread + 1, which decides, and by count, which says where. *)

Generated == 0..((nread + 1) * (opt.count + 1) - 1)

SampleReads ==
  /\ Running("sample") /\ HasLazy
  /\ \/ /\ nread < opt.count
        /\ bufs' = [bufs EXCEPT ![nread] = LazyDoc]
     \/ /\ nread >= opt.count
        /\ \E r \in Generated :
             bufs' = IF r % (nread + 1) < opt.count
                     THEN [bufs EXCEPT ![r % opt.count] = LazyDoc] ELSE bufs
  /\ nread' = nread + 1
  /\ UNCHANGED <<input, upto, lines, out, status>>

SampleStops ==
  /\ Running("sample")
  /\ \/ /\ LazyEnd
        /\ out' = [i \in 1..Least(nread, opt.count) |-> bufs[i - 1]]
        /\ status' = "done"
        /\ UNCHANGED <<nread, bufs, upto, lines>>
     \/ LazyThrows /\ Stop("error")
  /\ UNCHANGED input

-----------------------------------------------------------------------------
(* dr-offsets: upto is the offset.                                         *)

OffsetsReads ==
  /\ Running("offsets") /\ HasLazy
  /\ lines' = Append(lines, <<upto, Bytes(LazyDoc)>>)
  /\ upto' = upto + Bytes(LazyDoc)
  /\ nread' = nread + 1
  /\ UNCHANGED <<input, bufs, out, status>>

OffsetsStops ==
  /\ Running("offsets")
  /\ (LazyEnd /\ Stop("done")) \/ (LazyThrows /\ Stop("error"))
  /\ UNCHANGED input

-----------------------------------------------------------------------------
(* dr-grep: the query is compiled before anything is read; an error in its *)
(* evaluation on one document is the end of the run.                       *)

Query == Compile(opt.query)

GrepReads ==
  /\ Running("grep") /\ Query.ok /\ HasDoc
  /\ LET r == EvalDoc(Query.tree, Docs[Doc], nread)
     IN  CASE r.is = "error"     -> Stop("error")
           [] r.is = "undefined" -> Stop("crashed")
           [] IsValue(r) -> /\ out' = IF ToBool(r.val) THEN Append(out, Doc) ELSE out
                            /\ nread' = nread + 1
                            /\ UNCHANGED <<bufs, upto, lines, status>>
  /\ UNCHANGED input

GrepStops ==
  /\ Running("grep")
  /\ \/ ~Query.ok /\ Stop("error")
     \/ Query.ok /\ ReaderEnd /\ Stop("done")
     \/ Query.ok /\ ReaderThrows /\ Stop("error")
  /\ UNCHANGED input

-----------------------------------------------------------------------------
(* dr-count. bufs is _counts, and its domain the columns: the stores of    *)
(* the first document, all of them or the one that was asked for (store is *)
(* empty if none was). A store that a document does not have counts 0; one *)
(* that the first does not have is not shown. Without a column the line of *)
(* a document is blank: not even its ndocs is shown.                       *)

StoresOf(d) == DOMAIN Docs[d].stores

Elements(d, s) == IF s \in StoresOf(d) THEN Len(Docs[d].stores[s].anns) ELSE 0

Columns == IF nread > 0 THEN DOMAIN bufs
           ELSE {s \in StoresOf(Doc) : IF opt.store = "" THEN opt.all ELSE s = opt.store}

BlankLine == [ndocs |-> 0, counts |-> <<>>]

CountReads ==
  /\ Running("count") /\ HasDoc
  /\ bufs' = [s \in Columns |->
                Elements(Doc, s) + (IF nread = 0 THEN 0 ELSE bufs[s])]
  /\ lines' = IF ~opt.perDoc THEN lines
              ELSE IF Columns = {} THEN Append(lines, BlankLine)
              ELSE Append(lines, [ndocs  |-> IF opt.cumulative THEN nread + 1 ELSE 1,
                                  counts |-> IF opt.cumulative THEN bufs'
                                             ELSE [s \in Columns |-> Elements(Doc, s)]])
  /\ nread' = nread + 1
  /\ UNCHANGED <<input, upto, out, status>>

(* finalise shows the number of documents, with --per-doc too, and the     *)
(* counts of --all, but not that of --store.                               *)
CountStops ==
  /\ Running("count")
  /\ \/ /\ ReaderEnd
        /\ lines' = Append(lines, [ndocs |-> nread,
                                   counts |-> IF opt.all THEN bufs ELSE <<>>])
        /\ status' = "done"
        /\ UNCHANGED <<nread, bufs, upto, out>>
     \/ ReaderThrows /\ Stop("error")
  /\ UNCHANGED input

-----------------------------------------------------------------------------
Init ==
  /\ tool \in Tools
  /\ opt \in Options[tool]
  /\ stream \in Streams[tool]
  /\ cut \in Cuts
  /\ nread = 0 /\ upto = 0 /\ lines = <<>> /\ out = <<>> /\ status = "running"
  /\ bufs = IF tool \in {"tail", "sample"} THEN [i \in 0..(opt.count - 1) |-> Junk]
            ELSE <<>>

Next ==
  \/ HeadReads \/ HeadStops
  \/ TailReads \/ TailStops
  \/ SampleReads \/ SampleStops
  \/ OffsetsReads \/ OffsetsStops
  \/ GrepReads \/ GrepStops
  \/ CountReads \/ CountStops

Spec == Init /\ [][Next]_vars

-----------------------------------------------------------------------------
Done(t) == tool = t /\ status = "done"

(* Each document of the stream at most once, and as many as were asked for. *)
IsSampleOf(docs, from) ==
  /\ Len(docs) = Least(opt.count, Len(from))
  /\ \A d \in Range(docs) :
       Cardinality({i \in DOMAIN docs : docs[i] = d})
         <= Cardinality({i \in DOMAIN from : from[i] = d})

Total(docs, s) == LET n == [i \in DOMAIN docs |-> Elements(docs[i], s)] IN SumFunction(n)

(* The stores to count, and a line of dr-count that counts these documents. *)
Asked == IF stream = <<>> THEN {}
         ELSE {s \in StoresOf(stream[1]) : IF opt.store = "" THEN opt.all ELSE s = opt.store}
CountOf(docs) == [ndocs |-> Len(docs), counts |-> [s \in Asked |-> Total(docs, s)]]

(* What each tool has written when it ends well is what its options ask    *)
(* for: dr-head the count documents after the first skip, dr-tail the last *)
(* count, dr-sample count of them and none twice, dr-offsets where each    *)
(* begins and its bytes. dr-count has for every document a line of its own *)
(* counts, or of those so far; or, without --per-doc, one line of the      *)
(* totals. What it shows although it was not asked for (the totals after   *)
(* the lines of --per-doc) or does not show (the total of --store, and     *)
(* with no store to count anything per document) is not claimed here: see  *)
(* the README. A last document that was cut off in its bytes passes for    *)
(* one; one that was cut off in its headers has not been there. dr-tail    *)
(* crashes when it must keep no document and there is one, and only then.  *)
WritesWhatWasAsked ==
  LET n == Len(Lazily)
      size == [i \in 1..n |-> Bytes(Lazily[i])]
  IN  /\ Done("head") =>
           out = SubSeq(Lazily, opt.skip + 1, Least(opt.skip + opt.count, n))
      /\ Done("tail") => out = SubSeq(Lazily, n - Least(opt.count, n) + 1, n)
      /\ tool = "tail" /\ status # "running" =>
           (status = "crashed") = (opt.count = 0 /\ n > 0)
      /\ Done("sample") => IsSampleOf(out, Lazily)
      /\ Done("offsets") =>
           lines = [i \in 1..n |-> <<SumFunction([k \in 1..(i - 1) |-> size[k]]), size[i]>>]
      /\ Done("count") /\ opt.perDoc /\ Asked # {} =>
           \A i \in DOMAIN stream :
             lines[i] = CountOf(IF opt.cumulative THEN SubSeq(stream, 1, i) ELSE <<stream[i]>>)
      /\ Done("count") /\ ~opt.perDoc /\ (opt.store = "" \/ opt.all) =>
           lines = <<CountOf(stream)>>

(* What compiles is what the grammar says, and it compiles to its tree.    *)
ParsesTheGrammar ==
  tool = "grep" /\ nread = 0 /\ status = "running" => FollowsTheGrammar(opt.query)

(* dr-grep writes the documents for which the query holds, in their order, *)
(* up to the first on which its meaning is an error or undefined; this     *)
(* needs that any and all are not nested, since then ann is not what it    *)
(* should be (see the README).                                             *)
GrepSelects ==
  tool = "grep" /\ status # "running" /\ Query.ok /\ ~Nested(Query.tree) =>
    LET Meant(i) == Means(Query.tree, Docs[stream[i]], i - 1, <<>>)
        bad == {i \in DOMAIN stream : ~IsValue(Meant(i))}
        stop == IF bad = {} THEN Len(stream) + 1 ELSE Min(bad)
        Holds(i) == IsValue(Meant(i)) /\ ToBool(Meant(i).val)
        kept == {i \in 1..(stop - 1) : Holds(i)}
        nth[k \in 1..Cardinality(kept)] ==
          CHOOSE i \in kept : Cardinality({j \in kept : j <= i}) = k
    IN  /\ out = [k \in 1..Cardinality(kept) |-> stream[nth[k]]]
        /\ (status = "done") = (bad = {} /\ cut = "none")
=============================================================================
