# Verification of libschwa in TLA+

libschwa is a C++ library for natural language processing: the docrep format for
annotated documents with the tools that read and write it, `dr-dist`, which spreads a
stream of documents over worker processes, a tokenizer, a Brown clusterer, and the
configuration, I/O and logging they share. This directory models its core in TLA+,
checks the models on small instances with TLC, and proves what matters most of them
for every instance with TLAPS.

- `PROJECT.json` lists the components, the runs, the map from every definition to the
  lines it models, the mutants (plausible bugs of the code, each of which breaks the
  property it is listed with), the hazards, the findings and the theorems.
- `tlc -config X.cfg M` repeats a run, `tlapm M.tla` a proof.

Paths below are relative to the repository's `src/`.

## 1. The system

| Component | State it keeps | Operations | What is hard, and what makes it correct | Here |
|---|---|---|---|---|
| **dr-dist** `lib/schwa/dr-dist/`, `apps/dr-dist/` | server: two threads with a shared flag, counters, the map of results that wait for their turn, the output; workers: sockets and the document in hand; ZeroMQ's queues | read, number and send a document; process and reply; receive, order, write; announce the count; publish TERMINATE; every failure path | processes, threads, messages that overtake each other, crashes. Output is the processed input in order, once each; success is not claimed wrongly; the run ends | `DrDist`, `DocPipe`, `DrDistRestart`, `DrDistProofs` |
| **docrep** `lib/schwa/dr/` | a document's fields and stores; its runtime (`RTManager`): klasses, stores and fields with their ids and, for what the program declares, their definition; lazily kept bytes | read with a schema, change, merge the schema into the runtime, write; field modes, renaming | two views of one document (the stream's ids, the program's names) through a pipeline of programs with different schemas. What a program does not declare survives it unchanged; what is written reads back | `Docrep`, `AnnotatedDoc`, `DocrepProofs` |
| **Brown clusterer** `lib/schwa/unsupervised/` | counts, the order of tokens, a window of clusters, the tables w and L, `upto` under a mutex | read, order, fill w and L with threads, insert, choose, merge in place | threads that share a cursor; rows and columns moved with memmove; L incremental. Clusters partition the tokens; entries belong to the clusters at their indices | `BrownTable`, `BrownWindow`, `Clusterer`, `ClustererProofs` |
| **Loggers** `lib/schwa/io/logging.*` | a stream buffer with a level, shared by threads; a lock | `LOG(level) << ... << std::endl` | a lock taken in one call and released in another. Messages are whole, written by their own level, and nobody waits for ever | `Logger`, `LoggerProofs` |
| Tokenizer and streams `lib/schwa/tokenizer/` | what is open (document, heading, list, item, paragraph, sentence); vectors of tokens, sentences, paragraphs | begin and end of each; a token; an error | nesting under any input, an error in the middle, a second document through one stream. Sentences and paragraphs tile; no token is left out; a sentence lies in one paragraph | `Tokenizer`, `TokenizerProofs` |
| **Tokenizer lexer** `ragel/tokenizer/`, `lib/schwa/tokenizer/tokenizer_gen.cc` | a buffer, the pointers into it, the state of a ragel automaton | fill the buffer, scan, go back to the longest match, move an unfinished match to the front | a text that falls apart anywhere, decisions that look one byte ahead. The calls of the stream do not depend on the buffer; only a match that is too long is refused | `Lexer`, `LexerProofs`, `DataInduction` |
| **Query language** `lib/schwa/dr/query.*` | the tokens; a context of variables and stores for each evaluation | compile, evaluate on a document | precedence by recursive descent; variables that come and go. What compiles is what the grammar says; a query means the same wherever its parts stand | `QueryParser`, `QueryEval` |
| **Stream applications** `apps/` | counts, a circle or reservoir of documents | read a document, keep, count or drop it, finish | truncated streams, counts of 0 and beyond the end. What is written is what the options ask for | `StreamTools` |
| Configuration `lib/schwa/config/` | the queue of arguments, options and positionals with what was mentioned | process, load and save a configuration | a file of arguments put back in the queue being read. The last value given counts, no argument is lost, what is saved loads again | `Config` |
| msgpack `lib/schwa/msgpack/` | none | write and read values, read lazily | widths and signs at their boundaries. What is written reads back, typed or not | `Wire`, `StoreWriter`, `StoreWriterProofs` |
| I/O `lib/schwa/io/` | blocks of a `WriteBuffer`, positions of sources | write, copy out, read | sizes that cross the ends of blocks. A buffer holds what was written to it | `WriteBuffer`, `StoreWriterProofs`, `DataInduction`; sources planned |
| Containers, pools | blocks and free space | append, allocate, roll back | the same | planned |
| docrep helpers | none | reverse pointers, slices, sequence tags | empty and touching slices | planned |
| Features, Unicode, utilities | none that outlives a call | -- | sequential and stateless | no |

How they interact: every docrep application reads with `dr::Reader` and writes with
`dr::Writer`, through a schema the program fills in and the options may rename.
`dr-dist`'s server uses only `read_lazy_doc`, which cuts the stream into documents; its
workers use a reader and a writer on one document's bytes. Numbers and sizes are msgpack
on the wire, which goes through the sources and the write buffer. The tokenizer calls a
`Stream` it is given; `DocrepStream` is the one that builds a docrep document. The
configuration parses each program's options, and everything logs through one logger.
Failure is an exception that ends the program in all of them but `dr-dist`, whose
server's threads log, set `success` to false and go on to close their sockets.

## 2. The modules

### DrDist: one run of dr-dist

One process each for the source thread (`source`, server.cc), the sink thread
(`sink`), the joining `main`, and every worker (`worker_main.h`). `srcPc`, `snkPc`
and `wPc` say where each is; a step ends where another process can see the state or
where the code can fail. `docNum`, `ndocs`, `ndocsReceived`, `ndocsWritten`,
`unwritten`, `sinkCreated` are the variables of those names in the code. A ZeroMQ pipe
is a FIFO queue: `toWorker[w]` (PUSH/PULL, from the source), `toSink[q]` (one for every
worker and one for the source's direct connection), `control[w]` (PUB/SUB). The code
bounds a pipe with the high-water mark, `HWM` here; the direct pipe carries one message
in a run. Queues of different peers are not ordered, so a count may overtake the results
and the other way round. PUB/SUB is lossy for those not yet subscribed (`subscribed`).

`Faults` switches the failures on by kind: a context, bind or connect that fails
(`setup`), a send, a receive, a close, and the death of a worker at any point with the
loss of the document in its hands, its queue, and any of the replies ZeroMQ had not yet
transmitted. Errors follow the code's early returns: a sink that fails before it sets
`sink_created` leaves the source on its condition variable.

Documents are members of a small set, of which the worker's reader accepts `Readable`.
`read_lazy_doc`, which cuts them from the server's input, looks at less than
`Reader::read` does and lets the others through. For one of those the reader throws a
`ReaderException` (reader.cc:51, :158 to :282) that nothing between `process_doc` and `main`
catches: the worker dies as it does of an error (`WorkerRejects`), with its queue. The empty
reply of `process_doc` (worker_main.h:34) is given for an input of no bytes only, and no
document is one.

`DocPipe` is the promise to the user: a pending document is delivered once, in order if
that was asked, success only when nothing is pending, or else the run gives up. `DrDist`
implements it with `out <- written`, `state <- status`: `DocPipe!Spec` under every
failure. `DocPipe!LiveRuns`, which uses the pipe again and again, cannot give up and must
deliver, is what runs one after the other without failures implement.

`DrDistRestart` composes runs: `ServerStarts` begins a new server process on the same
ports, after the last one ended or, with the fault `server`, was killed. Workers and what
they hold survive; what sits in the old server's memory does not. Messages carry no
mark of the run they belong to. `RunFairSpec` schedules the processes of every run as in
`DrDist`; nobody has to start another run.

### Docrep: one document, a pipeline of tools

A tool has a schema to read with and one to write with, which declare the same names and may
give them other names on the stream: every field, store and klass has an option that sets
its `serial` (dr/config.cc), and a program may hand the reader and the writer schemas with
different ones (as dr/writer_test.cc:370 sets them for a writer). `wire` is the stream:
klasses with fields, stores, the document's own instance and the stores' instances, in which
ids are positions, as in the format. `rt` is the runtime (`RTManager`) and `mem` the
document's declared fields and stores, every object with the lazy fields it was read with.
`Read` is `Reader::read`, with `Rejects` for its exceptions, `Write` is `Writer::write` with
the whole of `merge_rt` first; `SetField`, `SetDocField` and `CreateAnn` are what a program
does in between. Bytes, sizes, lazily kept stores' buffers and msgpack are abstracted: an
instance is a sequence of pairs of a field id and a value.

`SchemasAssumption` is what C++ guarantees of a program's schemas: the types of the
declarations, names and serials that differ, pointers into stores of the same schema and
null at first (`SchemaOK`), and that the schemas a tool reads and writes with differ in
serials only, since all else is fixed by the types of the members. `FreshNames` is a
property of a pipeline, not of the code: no tool writes under a name, which it does not
read, what a tool before it has written under that name. It is what the code relies on
and cannot check, because a tool does not look at what it keeps lazily (writer.cc:90).

`AnnotatedDoc` states what a pipeline promises, by names only: a step of a tool keeps
every declaration, every annotation of the stores that it does not declare, and of those
it does declare every field that it does not, or only as READ_ONLY; fields it DELETEs are
gone. `Docrep` implements it with the stream seen by names (`View`).

### BrownTable: threads and tables

`_initialise_w` and `_initialise_L` with their threads. A thread's loop is cut at its
accesses of shared state: take `upto_mutex`, test `upto`, read `indices[upto]`, increment
and unlock, compute. `computed` counts the computations of every entry; a table's values
are not needed. The second table starts when the first one's threads are joined.

### BrownWindow: the clusters

`run` with `_read_input`, the ordering of the tokens, the first window, and the loop of
`_create_new_cluster_from_token`, the choice of two clusters and `_merge_clusters`. `Place`
puts the first tokens into their clusters, and `Fill` is `_initialise_w`, for the entries of
the window; an entry that nothing has filled is `Uninitialised`, as the newcomer's row and
column are until the first insertion. An entry of `w` is the set of the two clusters it was
computed from, so that an entry is current when it is the set of the clusters at its
indices. Rows and columns move as the two `memmove`s do, the last one keeping what it held.
L's values, floating point, are left out: the merge is any pair of the window, and the
properties hold for every choice. (There always is a pair: the newcomer's column of L is
computed from entries of w that are all initialised and finite, so the search for the
maximum finds one.) `_run_hierarchical` is empty in the code.

### Clusterer: the run of both

`BrownTable` and `BrownWindow` side by side, as `_run_fixed_window` calls them: when the
first clusters have been given their members (`Place`) the threads fill the tables, and
nothing else happens until the last of them has been joined (`Alone`); then `Fill` is what
they have made of `w`. The threads read the clusters and write
only their tables, so neither part's variables occur in the other's steps.

### WriteBuffer, Wire and StoreWriter: the bytes

`WriteBuffer` is the class as operators on a record: pools of memory whose bytes are
`Uninitialised` until they are written, blocks cut from them (or lent by the caller, for
`write_zerocopy`), the room left in both arrays, `lbSize` and `size`. `_lb_capacity` and
`_lb_upto` always follow from the last block and are left out. The bytes that are lent are
constant here (see section 6).

`Wire` is msgpack: `write_*` as the sequence of calls it makes on its output, so that a
string is one call of `write_zerocopy`, and `read_*` on a sequence of bytes. A number is a
word of eight bytes, which is both what the code's shifts and masks work on and what TLC
can hold. `read_lazy` and `read_dynamic` give the place where they stop.

`StoreWriter` is what `Writer::write` does with the instances of one store: a buffer for
the fields of each instance (`write_instance`), `write_lazy` with the count, the lazily
kept bytes and `copy_from`, a buffer for all of them, and at last its size and its bytes on
the stream. `told` is history: the values in the order in which they must be read.
`StoreText` is the same with strings for buffers; `StoreWriter` implements it.

### Logger: the thread-safe loggers

`ThreadsafeBasicLogger::operator ()` locks and sets the level, the stream's inserts go
to one buffer, and `sync` writes the buffer if the level reaches the threshold, clears it
and unlocks. Every thread executes a program of statements of fixed levels. A header is
one part like any other; its layout is not modelled.

### Tokenizer: what is open, and the stream that hears of it

`st` is `Tokenizer::State`: its flags, and `sentence_length`, with one operator for each
of its functions. `stream` is `DocrepStream`: the vectors of tokens, sentences and
paragraphs, where the open sentence and paragraph begin, and `out`, the documents
written. The functions of both call each other in the middle of their own work, so an
operator takes the pair and returns it. The lexer may find anything: an action is what
the grammar calls for one match (`tokenizer.cc`), a tag any of its kind, and `Fails` is a
`TokenError`, after which the caller may go on with the next document on the same stream.
The grammar has `_number_or_item` commented out (ragel/tokenizer/rules/main.rl:44), so no
action calls it. A token is just the document it came from; its spelling and its offsets
are left out (`Lexer` has them), and so are the two text streams, which format.

### Lexer: the scanner and its buffer

`Tokenizer::tokenize` of a source, with the automaton that Ragel generates
(tokenizer_gen.cc). `buffer`, `p`, `ts`, `te`, `act`, `suffix` and `offset` are the
variables of those names, pointers being numbers; `have` is the length of what is left in
`buffer`. The state of the automaton, `cs`, is the text that has led to it since `ts`, and
the transitions are the rules of the grammar: what matches (`Rule`, in the order of
main.rl), what may still match (`Viable`), and what is decided (`~GoesOn`). An action is
one byte of the scanner (`Extend`, `Complete`, `BackTrack`), the end of the text, or a
step of the loop around it. The alphabet is two letters, the apostrophe, the space and a
byte that no rule takes but the last: the part of the grammar in which the longest match
depends most on what follows. `memcpy` of overlapping ends is undefined; here it leaves
what a forward or a backward copy leaves, and `garbled` remembers that it was wrong.

`Whole` and `WholeCalls` are the reference: the longest match at each place of the text in
one piece.

### QueryParser and QueryEval: queries

`Parse` is the recursive descent of query.cc as a function of the procedure and of the
first token not consumed; `Readings` is the grammar, as the set of the trees that a piece
of the query can be read as. `Eval` is the evaluation of a tree with its `EvalContext`
passed along, every operator and function with its checks of types; a result is a value,
a `RuntimeError`, or undefined where the code would divide by zero or look up a field
that the klass does not have. `Means` says what a query should mean with plain scopes
instead of variables that are set and unset.

### StreamTools: the applications

One run of `dr-head`, `dr-tail`, `dr-sample`, `dr-offsets`, `dr-grep` or `dr-count`: an
action reads a document and does with it what the loop does, another one ends the run.
The stream may be cut off within the document that follows its last: `read_lazy_doc`
(reader.cc:486) takes a cut in the headers for the end, throws at a missing size, and does
not notice one in the last bytes, where `Reader::read` throws at each. `dr-grep` compiles
its query with `QueryParser` and evaluates it with `QueryEval`; the generator of
`dr-sample` returns anything.

### Config: from the arguments to a valid configuration

`Nodes` is the tree a program declares, in the order of declaration, each node with the
names that lead to it from `Main`. An argument is a number of dashes and a sequence of
names, so that `--dr--Doc--tokens` is two dashes and three names, and a word or value is
none and one. `args` is `Main`'s queue, `positionals` its `positional_args`, `opt` every
node's `_was_mentioned`, `_was_assigned` and value, `unclaimed` its `_unclaimed_args`, and
`file` the one configuration file. An action is one turn of the loop of
`Group::process_args`, or one of its exceptions; `--load-config` puts the file's arguments
in front of the queue (`Loads`), after which come the positional arguments, validation,
`--save-config` (`Serialise`) and the end. `given` and `saved` are history: the arguments
in the order in which they are to count, and the options of the run whose file is loaded
again. `Reload` is that run: the same program, with nothing but `--load-config` of what it
saved.

## 3. The runs

**dist_faults** (`MCDrDist`): 2 workers, three inputs (the empty one, four documents, and
three of which the second cannot be read by a worker), pipes of capacity 1,
`--preserve-order`, every failure of the server and the workers. `OrderedPrefix`: the output
is a prefix of the processed input. `SanityCheck`: the code's own check after the loop
holds. `TerminateDiscardsNothing`: TERMINATE is sent when no document is under way.
`NothingLost`: unless a worker dies, documents sent are received or in a queue, so that what
a worker does with a document it cannot read loses none without a death. `ImplementsPipe`:
refinement, of which it is a part that no document is written twice and that exit status 0
means that all of them were. `ExitsOrHangsForCause`: the run exits, or is stuck for one of
five named causes, none of which has a timeout in the code (a sink without sockets, a count
never announced, a document that died with its worker, no worker, a sink that is gone and
full pipes to it). `ToldWorkersStop`: TERMINATE reaches every worker whose subscription the
control socket has when a run succeeds with `--kill-clients`, and a worker that it reaches
stops, if it does not die. (That every worker stops is false of the code: a subscription may
arrive after the message, and that worker polls for ever.) Four documents over two workers
make the map of waiting results hold two at a time; capacity 1 makes the source and the
workers block. The server exits while workers wait: deadlock is not checked.

**dist_live** (`MCDrDistRestart`): three runs one after the other, each on one of three
inputs, with the same two workers and `--kill-clients=false`, no failures, documents that
the workers can read, capacity 2 and no order. Deadlock is checked. `EveryRunDelivers`: each
run implements `DocPipe!LiveRuns`, that is, everything is delivered once and the exit status
is 0. `NothingLeftBehind`: a run that has ended leaves no message in any queue. A run's
start depends on the end of the last one only; the third is there to meet what a first and a
second one leave together.

**dist_stale** (`MCDrDistRestart`, violated): two runs, the first with a server that is
killed. See the findings.

**docrep** (`MCDocrep`): eight pipelines of three tools, with every pair of neighbours
that matters: overlap (`Tag`), pointers into a store whose fields are not declared
(`Link`), READ_ONLY, DELETE (`Clean`), other names on the stream for a klass, a store and
fields (`Rename`), no declarations (`Copy`), a declaration that contradicts the stream
(`Clash`); stores of at most `MaxAnns` = 2 annotations, at most `MaxEdits` = 5 changes
by all the tools together, which is what it takes to have two tokens, a sentence that
points at the second, and a value set by two tools. `WireWellFormed`: ids are in range
and names unique, counts and pointers right. `WritingAgainIsTheSame`: a second write of
the same document gives the same stream, though the first changed its runtime.
`ReadsBackWhatWasWritten`. `LazyCopyIsIdentical`: a program with an empty schema copies
the stream id by id. `ImplementsAnnotated`: refinement. A pipeline ends: deadlock is not
checked.

**clusterer** (`Clusterer`): 2 threads, a window of 3 clusters, so 6 entries of w and 3
of L, and 5 tokens in every order and with every merge, so that a merge of the first, the
middle and the last clusters is followed by another one. `MaxCount` is 1 because the
code's counts are all equal whatever the input is (see section 6), so that every order
is reached with it. Deadlock is checked. `ComputedOnce`: no entry is computed twice.
`InsertsOnWholeTables`: when tokens are inserted every entry has been computed and every
thread has exited. `Partition`: the clusters partition the tokens that have entered.
`WCurrent`: every entry of w in use is that of the clusters at its indices. `NeverSplit`:
tokens together stay together. `Ends`.

**logger** (`Logger`): 3 threads of 2 statements each, which end in `std::endl`, every
choice of two levels with the threshold at the higher one. Deadlock is checked.
`WholeMessages`: what is written is whole messages, of those statements whose level reaches
the threshold. `AllReturn`: every statement returns.

**tokenizer** (`Tokenizer`): sentences of at most 3 tokens, 5 tokens over 2 documents.
That is enough for a sentence that is full between the two tokens of a split, for three
sentences in a paragraph or two paragraphs, and for a document that fails with a sentence
open and is followed by another. The whole state space within those bounds is explored;
an ended stream has nothing left to do, so deadlock is not checked. `SlicesTile`:
sentences and paragraphs do not overlap, no sentence exceeds the maximum, every token of
the document is in a sentence or in the open one. `SentenceStaysInItsParagraph`: a
sentence that ends within a paragraph becomes part of it. `EndClosesTheSentence`: a
document that ends has all its tokens in sentences, but for those of a sentence that is
open in a heading, or in text of a list that is in no item: these are in none, because
`end_document` closes neither (tokenizer_state.h:184, :211). The second document of a stream
holds the tokens of the first, whose vectors are never cleared: that is how the model has
it, too.

**config** (`MCConfig`): a program like dr-grep, with a flag, two positional options, a
choice, two classes of the schema with a field each, and unclaimed arguments allowed; every
line of at most 4 of 11 different arguments, over a configuration file that is missing or
has one of three contents, one of which names itself. 4 arguments are what it takes to give
a value before or after a file that gives it as well, to load and save in one line, to fill
both positional options with two words to spare, or to leave an option without its value.
The classes are a document, whose serial is empty unless it is given (schema.h:212), and an
annotation, whose serial is its name at first. `StartsConfigured`: a program that starts has
a valid value for every option that needs one, and a class that keeps its schema's serial or
has a serial that is not empty. `ArgumentsLand`: the last value given counts, wherever it
comes from, and every other word reaches the next positional option or the program.
`PlainFileLoads`: a saved configuration starts the program with the same values, if no
option was mentioned without a value and none that was mentioned is two groups deep. A
program ends: deadlock is not checked.

**wire** (`MCStoreWriter`): one store of at most 2 instances with at most 2 declared
fields between them, and none, one (an object) or 15 lazy ones in each, so that an object
is counted in one byte or in three; the values are those on both sides of every boundary of the
encodings (but sizes of 65536 and more, whose code is the same), in blocks of 4 bytes and
pools of 8, with room for one of each at first, as in write_buffer_test.cc. A single
number crosses a block there, a string a pool, and every array grows. `ImplementsText`:
refinement. `BuffersSound`: what a buffer keeps outside its arrays agrees with them.
`ReadsBack`: the announced size is that of what follows, and typed reads give
the values that were written and use up the bytes; the integers from -32 to -1, which
`write_int_fixed` turns into the byte 0, are read as 0, and the property says so.
`EndsWithItsValue`: `read_lazy`, by which `Reader` keeps fields it does not know and
`read_lazy_doc` cuts a stream into documents, ends with the last byte of what was written;
so does `read_dynamic` if and only if no object has 16 fields or more. A store is written and
nothing follows: deadlock is not checked.

**lexer** (`Lexer`): every text of at most 5 bytes over the alphabet, a buffer of every
size from 0 to 4 and every `OnError`. 5 bytes hold a word with two possessives, a word
that ends in an apostrophe the scanner must go back over, and a match longer than any of
the buffers; sizes 3 and 4 are the smallest for a copy whose ends overlap. `SameAsWhole`:
the calls, their positions in the text and the decision whether a quote opens are those of
the text in one piece, however it falls into buffers. `RefusesLongTokens`: the call throws
if and only if some match is undecided after a whole buffer, and an overlapping copy needs
one undecided beyond half of it. A buffer of size 0, which `tokenize` accepts, has no space
before anything is read: the call throws for every text, also for the empty one, in which
there is no match. `SplitsOffThePossessive`: a split is inside of the match,
and takes off `'s` unless the word has two (section 6). `Ends`. A call returns: deadlock is
not checked.

**tools** (`MCStreamTools`): three documents, streams of up to four, whole or cut off in
one of three places, counts and skips from 0 to 3, every combination of `dr-count`'s
options. `WritesWhatWasAsked`: `dr-head`, `dr-tail` and `dr-sample` write the documents they
should, `dr-tail` with a count of 0 crashes on its first document, `dr-offsets` writes the
places where they begin and their bytes, and `dr-count` the totals, or with `--per-doc` a
line for every document that has its counts, or those so far. What `dr-count` shows
although it was not asked for it is in section 6. Four documents go
once around a circle of three and replace one in a reservoir of three. `ParsesTheGrammar`:
for every query of up to four of ten kinds of tokens, every one of up to six of the five
that calls are made of, and longer chains, the parser accepts what the grammar derives and
builds the only tree it has. `GrepSelects`: the documents written are those for which the
query holds, up to the first on which it is an error. A run ends: deadlock is not checked.

**config_saved** (`MCConfig`, violated): a program like a worker of dr-dist. See the
findings.

### Fairness

Weak fairness of the source, the sink, `main` and every worker (with ZeroMQ's delivery to
it), of every clusterer thread and every logging thread: the operating system runs what can
run, and ZeroMQ's I/O threads move messages as long as there is room. No failure is fair.
`WorkerNext(w)` is one fairness condition, not one per action: a worker with documents to
serve is not promised that its subscription arrives. Weak fairness of a thread that waits
for a mutex is enough in `Clusterer` and `Logger`, because the others run out of entries and
statements; nothing is promised about who gets the lock. In `Lexer` only the caller's thread
is at work, and a source whose read returns; it goes on.

## 4. The proofs

TLAPS checks these for every value of the constants that the modules' assumptions allow
(`DrDistAssumption`, `MaxRunsAssumption`, `BrownTableAssumption`, `BrownWindowAssumption`,
`ClustererAssumption`, `TokenizerAssumption`, `LexerAssumption`, `LoggerAssumption`,
`WriteBufferAssumption`, `FieldsAssumption`; `SchemasAssumption`, `BoundsAssumption`,
`StringsAssumption` and `NothingAssumption` of `Docrep`). TLC evaluates them on the
constants of the runs.

**DrDistProofs.** `TypeCorrect` and `OrderPreserved` (`OrderedPrefix`): for any number
of workers, any input, any capacity and any failures. Order at the output rests on the
messages in flight: the invariant says that every document in a worker's queue or hands
is the document of the input with its number, every reply is `Expected` of its number,
and so is every entry of `unwritten`; with `--preserve-order` the number of results
written is `ndocsWritten`, and only that number is ever written. `OrderedPrefix` alone is
not inductive: the result that arrives might be anything.

Then `SanityChecked` (`SanityCheck`), `TerminateSafe`
(`TerminateDiscardsNothing`), `EveryDocumentAccounted` (`NothingLost`) and
`DrDistImplementsPipe` (`ImplementsPipe`), under every failure. The invariant has five parts:

- `OnePlace`: there is a function from numbers to places, and whatever carries the number
  n - a message in a queue, a document in a worker's hands, a result that waits, one that
  is written - is at n's place, each queue holding it once. So no two things in the system
  are the same document, which is what `OrderedPrefix` could not say.
- `Announcement`: the source's own pipe carries nothing but the count, which is the number
  of documents sent, and sent last.
- `Bookkeeping`: the sink's counters and its map agree (received is written plus waiting).
- `Outcome`: the receive loop is left only when all were received, and a run that reports
  success went through all of it.
- `Told`: TERMINATE is under way only after that.

`SanityCheck` follows by counting: the documents received are as many as were sent, no two
of them are the same, hence they are all of them, and the one the sink waits for cannot
be missing. `NothingLost` is the cardinality of what is under way (`Slots`), which every
step that moves a document leaves alone. For the refinement a step of the sink that writes
(`SinkRecvDocument` without order, `SinkFlush`) is `Deliver`, `MainExits` is `Succeed` or
`GiveUp`, and everything else is a stutter.

Of several runs, `RunsIsolated` (`NothingLeftBehind`) and `RunsImplementPipe`, which is the
safety half of `EveryRunDelivers`: successive runs with the same workers deliver each
document of their own input once and none of an earlier run. Both assume `OnlyWorkersFail`,
that is, `Faults` holds at most the death of workers: `dist_stale` shows that with a
server that may be killed they are false. `Told` is not part of that invariant, since a
TERMINATE that a worker has not yet seen may stop it in a later run; nothing else is left
over.

**DocrepProofs**: for any pipelines of any number of tools, any schemas, values and bounds.

- `WritesTheSameAgain` (`WritingAgainIsTheSame`). The invariant is `PipelineInv`
  (`PipelineInvariant`): the stream has the shape of a document; while a tool works, its
  runtime is what was read of that stream and its memory is shaped by the schema it reads
  with (`EditInv`); when it has written, the runtime declares everything of the schema it
  writes with, and the stream is that runtime's view of the memory (`WrittenInv`). The
  merge keeps positions and appends what is not yet known, in the order of the schema
  (`Among`, `Picks`), so nothing is left to append the second time.
- `LazyCopy` (`LazyCopyIsIdentical`): all that a schema without declarations reads is
  lazy, the merge changes nothing lazy, and the writer puts out what was kept.
- `WellFormed` (`WireWellFormed`), of pipelines for which `FreshNames` holds. The invariant is
  `DocumentInv`, which adds to `PipelineInv` three parts. `NamesAhead` and `WireInv`: the
  stream is well formed (`WireOK`) and has none of the names that the tools which have it
  before them add (`NoClash`), so that what is appended by a merge meets no lazily kept
  klass, store or field of its name, and what a declaration renames gets a name that the
  stream had as the declaration's own or not at all. `MemInv`: pointers in memory are null
  or indices of annotations, what was kept of an object refers to fields that are kept
  lazily and each once, and no store has become smaller than the stream announced
  (`MemOK`), which is why pointers that are copied without being looked at still point at
  something. A field is either kept or written and never both, so an object on the
  stream has it once. A new document is treated as if it were read from one that holds
  nothing (`NoWire`).

  `WireWellFormed` alone is not inductive: it says nothing of the memory that the next write
  comes from. Without `FreshNames` it is false of the code, which is the hazard at
  writer.cc:90: two klasses, stores or fields of one name come to be on the stream. Every
  pipeline of the run `docrep` satisfies `FreshNames`, as TLC confirms (`MCDocrep`).

- `ReadsBack` (`ReadsBackWhatWasWritten`), of the same pipelines and along the same
  invariant. Whoever reads with the writer's schema gets the writer's runtime again, id for
  id (`ReadBack`): what was declared is found under its name, and what the writer kept
  lazily has no name of that schema, because before the merge it had a name outside of the
  schema it was read with, and `NoClash` keeps it off the ones that are added
  (`LazyKeepsOff`). Hence none of the reader's checks fails (`NotRejected`). A READ_WRITE
  field is never among what is kept of an object (`KeptStays`), so what is found of it is
  what was written of it; if nothing was, because the value is an empty string or a null
  pointer, the reader leaves the field's first value, which is the same. That is the
  conjunct of `ValueOK` which says that only a field that is without a value at first can
  come to be without one: in `Edit` a declared initial value is never replaced by none.
  Numbers and flags are always written, so that is so of them in the code as well; a
  string which a constructor fills and a tool empties again would be read back filled,
  and is not among the model's edits.

**ClustererProofs**, first of `BrownTable`: `TableTypeCorrect`, `EntriesComputedOnce`
(`ComputedOnce`) and `TablesAreComplete` (`TablesComplete`). The invariant: who is in the
critical section holds the mutex, so there is at most one; an entry taken is below `upto`
and not yet computed, the entries at or above `upto` were never computed, no two threads
hold one entry, and every entry below `upto` was computed or is held by somebody
(`NothingLost`, without which completeness does not follow from the exits); threads exit
only at the end.

Then of `BrownWindow`: `TypeCorrect`, `ClustersPartition` (`Partition`), `WStaysCurrent`
(`WCurrent`) and `ClustersNeverSplit` (`NeverSplit`). The invariant adds that `ordered` is
an injection and that the window is full while tokens are inserted. The lemma the rest
stands on is that the `memmove` renumbers: it sends the window one-to-one onto the slots but
`max_c2`, so that the clusters after a merge are those before it with two of them replaced
by their union, and a moved entry is that of the clusters which moved with it.

At last of the run of both: `ImplementsParts`: every step of the clusterer is one of the
threads' or one of the window's, and leaves the other part alone, so that all the theorems
about the two parts hold of the run that `Clusterer` is. `ClustererTypesCorrect`
(`TypesOK`). `WholeTables` (`InsertsOnWholeTables`): once the window moves on, the tables
are done and stay so (`AfterJoin`), and then the threads' invariant says what is computed.

**TokenizerProofs.** `TypeCorrect` and `SentencesTile` (`SlicesTile`), for any maximum
length of sentences. The invariant (`Core`) says where the open sentence and paragraph
begin (after every slice there is), that `sentence_length` is the number of tokens since
then, or 0, and that no token is of a document to come. It is proved first of the plain
values, one lemma for each call the stream hears of, and then carried through the
functions of `Tokenizer::State` in the order they call each other; `Sound` allows a
sentence to be full for the moment between `add` and the `end_sentence` it calls.

Two action properties follow from the same invariant. `SentencesBelongToParagraphs`
(`SentenceStaysInItsParagraph`): a paragraph's beginning does not move while it is open,
and the functions that close a paragraph close its sentence before. `EndsWithAllItsTokens`
(`EndClosesTheSentence`): `end_document` closes the sentence whenever a paragraph or an item
is open, since an item is always in a list (`Listed`), and then every token is in one;
otherwise the stream stays as it is (`EndsWithout`), all its sentences end where the open
one begins, and so just the tokens from there on are in none.

**DataInduction** is what the proofs about texts, calls and blocks of any number rest on.
The provers cannot use an induction theorem whose parameter is an operator, but `WFMin`,
that every nonempty set has a least element in a well-founded relation, takes a set:
induction is then a statement about a set of numbers (`InductionOnNat`). A recursive
function of TLA+ is a CHOOSE among the solutions of its equation, so it has to be shown
first that there is a solution; `FlattenSeq` of the community modules is shown to satisfy
its equation, to have the type it should, and to flatten a sequence with one more element,
or one whose last element grows, as one expects.

**LexerProofs.** `CallsOfTheWhole` (`SameAsWhole`), `RefusesOnlyLongTokens`
(`RefusesLongTokens`, buffers of size 0 included) and `PossessivesSplitInside`
(`SplitsOffThePossessive`), for texts and buffers of any size: the run checks 5 bytes and
sizes up to 4. Three layers:

- The grammar. A text that may still match has only prefixes that may and that go on; so a
  match that is decided, or that the next byte does not continue, is the longest, and what
  the scanner goes back to is the longest match in its buffer. `suffix` is the size of all
  the possessives completed so far (`Split`); none is completed behind the longest match, so
  the match that is split holds them all and the split is inside of it.
- `Whole`, the recursive reference: its matches follow each other from the first byte of
  the text to its last, each the longest where it begins.
- `LexInv`: the pointers are in order and inside of the buffer (`Pointers`); `cs`, `te`,
  `act` and `suffix` are those of the match being made (`Held`); the buffer and the
  automaton hold the text from the place `Begin` on (`SeesText`); the calls are those of
  the first k matches of `Whole`, none of which was undecided after a whole buffer, and
  `Begin` is where the next one starts (`Progress`); and if an overlapping copy has garbled
  the buffer, there is a match that was undecided beyond half of it (`Overlapped`). TLC
  confirmed it for texts of 5 bytes and buffers of 4 before it was proved.

`SameAsWhole` is not inductive because it speaks only of the end; `Progress` is what it
becomes in the middle of a text, and `SeesText` is why the next match is that of `Whole`.

**StoreWriterProofs.** `BuffersStaySound` (`BuffersSound`) and `StoreImplementsText`
(`ImplementsText`), for blocks and pools of any size, any room in the two arrays, any number
of instances and any values. The two go together. What `Sound` says is not inductive, and
that a write does not change the bytes written before it needs to know where all of them
are. The invariant of a buffer, `Good`, says that

- each block is lent by the caller and full, or lies in a pool and, if that is the last
  one, below `poolUsed` (`InPlaces`), so that a new block meets none of them;
- no two blocks overlap in their capacities, not only in what they hold (`Apart`), so that
  the next write, which goes behind the last block's bytes, meets no other block;
- the last pool holds at least `PoolSize` bytes, which `require_pool` takes for granted
  when it looks at `poolUsed` alone; and `size` is that of the contents.

A block is `Sized`, that is, seen with `lbSize` for the last one, as `_lb_size` is only
stored back when the next block is opened. Every operation gives a good buffer with its
bytes at the end: opening a block (`OpenBlockIs`) changes no contents, `Copied` changes the
bytes of nobody but the last block (`OthersKeepTheirBytes`, `LastBlockGrows`), and
`put`, `write`, `write_zerocopy` and `copy_from` are these in turn. `Do` is then an
induction over the calls. The invariant of the writer (`WriterInv`) adds that fields are
there only if they are counted, since an empty map is written without a look at `fields`
(`write_lazy`), and that no more are counted than were told of. Bytes are any integers in the
proof (`Wide`): that `ToWord` gives bytes for sizes below 2^24 is not needed, because the
buffers treat all alike. What the bytes mean is the next layer, `ReadsBack`, which
remains with TLC.

**LoggerProofs.** `MessagesStayWhole` (`WholeMessages`): for any threads, statements and
threshold. What is in the output says nothing of what a thread is about to write, so the
invariant says in between that whoever is inside of a statement, and nobody else, holds
the lock (`Mutex`), that the stream buffer's level is that statement's (`OwnLevel`), and
that the buffer holds the first pieces of that statement and of no other (`Buffered`).
`SyncOutput` then is the one step at which the output changes: it appends a message that
no earlier sync wrote, as the statement was not synced before.

**Model-checked only.** Liveness, which is out of this prover's reach:
`ExitsOrHangsForCause`, the promise of `EveryRunDelivers` that a run ends,
`ToldWorkersStop`, `Ends`, `AllReturn`. Of `Docrep`, the refinement of `AnnotatedDoc`.
`ReadsBack` and `EndsWithItsValue` of `StoreWriter`, which need the arithmetic of words
(`div` and `%` by powers of two over eight bytes, which the solvers do not find) and an
induction over nested values. Everything of `Config` and `StreamTools`: what the evaluation
of a query computes (`Eval`) is written with RECURSIVE operators, as the documents'
expressions are trees, and stays with TLC. The type invariants of `DrDist`, `BrownTable`,
`BrownWindow` and `Clusterer` are proved and not in a run.

## 5. Findings

1. **A restarted server takes old results for its own** (`dist_stale`). Messages carry
   nothing of the run they belong to (server.cc:130). After a kill and a restart with
   workers still busy, the loop may end on a count to which old results contributed, and
   the check that "*should* always be true" (server.cc:155) is false.
2. **A saved configuration may not load** (`config_saved`). `set_prefix` takes the name
   of a node's own group and leaves out the groups that is in (base.cc:89), so the field
   of `--dr--Doc--tokens=x` is saved as `Doc--tokens`, and the program does not start with
   the file; serialisation.h:32 says saved files can be read. A flag mentioned without a
   value has the same effect, as its line is left without an end (group.cc:174) and the
   next option's name joins it: that is the other half of `PlainFileLoads`' condition.

## 6. What is not modelled

- `dr-dist`: the parts of a multipart message. A message has one part; `recv_multipart`
  (helpers.cc) is left for a module of its own. `read_lazy_doc` is the external input.
- `docrep`: bytes; collections of values; a slice's offset and length; self pointers;
  `erase`, `insert` and `swap` on stores (`Ann`'s assignment copies no lazy bytes,
  schema.h:104); reading twice into one `Doc` (reader.cc:56); renaming twice so that two
  klasses of one name would be on the stream (writer.cc:90), which `FreshNames` leaves out.
  These are hazards the models do not reach, with notes in `PROJECT.json`.
- Clusterer: the values of w, L and P; the run over hierarchies, which is empty; the
  written paths. L is stale after a merge by reading (brown_clusters.cc:330, :517), and its
  first values are undefined: `_compute_L` sums w up to and including the newcomer's column
  (:517), which `_initialise_w` does not fill and `new` does not initialise (:134).
  `TablesComplete` and `WholeTables` are about the entries between the first clusters only;
  the merges of the model are any pair, so that the other properties do not rest on L.
  `_read_input` copies `tmp_unigram_counts[tid]` where `[t]` is meant
  (brown_clusters.cc:212), so all counts are that of the last token read and "the most
  frequent tokens" of the comment in line 264 are any tokens; the model has the copy as it
  is, in `ReadInput`.
- Tokenizer: the text streams; of the lexer, the rules for everything but words,
  apostrophes and spaces (HTML, numbers, dates, units, abbreviations, the web), which are
  data of the generated automaton. `suffix` is added to by
  every suffix the automaton completes on its way, also by one inside of the word: the 's
  of O'Sullivan's or the 'M of O'Malley's, which comes out as "O'Mall" and "ey's".
  `SplitsOffThePossessive` leaves such words out, the model does not.
- Config: numbers (`Op<uint32_t>` and the like), help and version texts, the checks made
  on declaration (`_pre_add`, which `NodesAssumption` takes for granted), several files.
- msgpack: the values that `read_dynamic` builds, the end of a truncated input, and reads
  and writes of one fixed width. Two defects are part of the model and bound what the
  properties can say: `write_int_fixed` (wire_impl.h:790) masks with the header's bits
  where it should set them, and `read_dynamic` does not take the header of a MAP_16
  (wire_impl.h:671), so that dr-ui and dr-query, which read whole instances with it,
  misread one of 16 fields or more. No text of the repository says otherwise of either.
- Queries: the lexing of their text (in which `1-1` is the two integers 1 and -1, so that
  it does not compile), overflow of 64-bit integers, leading white space in `int()`. The
  grammar printed at query.cc:11 is not quite the one modelled: its rules for e2, e3 and e4
  begin with themselves and have no other beginning, an evident misprint, for which
  `Readings` has the next level, as e1 and the code do. What
  the grammar says and the code does: `&&` and `||` have one precedence and
  evaluate both sides, numeric operators associate to the right (10 - 3 - 2 is 9), `~=` looks
  at the leftmost match only.
  A quantifier inside the second argument of another one changes `ann` for the outer one:
  `set_var` keeps the outer annotation and `unset_var` removes it (query.cc:154), so that
  the inner condition is evaluated on the wrong annotation and what follows it throws;
  `GrepSelects` leaves nested quantifiers out, the model does not. A compilation that failed
  leaves its tokens behind, which no application meets.
- Stream applications: layout; `--bytes` and `--doc-id` of `dr-count`; `dr-ui`, `ccg-pprint`,
  which only format, `dr`, a launcher, and `schwa-tokenizer`. `dr-tail` with a count of 0
  takes a remainder by zero (the status `crashed`). `dr-count --store` prints no count of
  the store at the end of the stream, though its help says "Count docs and elements in the
  provided store
  only". With `--per-doc` it prints the line of the totals all the same, though the help
  says "Show counts per doc instead of for the stream" (dr-count/main.cc:47), because
  `finalise` does not look at `_per_doc` (processor.cc:182); and without a store to count
  (neither `--all` nor `--store`, or one that is not there) every document's line is empty
  (processor.cc:150, :176). The model has all of this; `WritesWhatWasAsked` claims none of
  it. And a damaged stream passes for a shorter one in all tools that use `read_lazy_doc`.
- I/O: what `write_zerocopy` is lent is constant in the model. `write_utf8`
  (wire_impl.h:933) lends a local string that is gone when it returns, so that a field of
  type UnicodeString, which no program here declares, would be copied from freed memory. The sources, where `MMappedSource::read` takes a maximum for a
  minimum (mmapped_source.cc:75).
- Loggers: the single-threaded ones, which are the same without the lock.
- The components without a module in section 1. The Unicode tables are generated, the
  rest is sequential; the order below says which come next.

## 7. Plan

1. The sources (`MMappedSource`, `IStreamSource`) with their reads, and `Reader` on the
   bytes of `StoreWriter`'s stream: reading some fields and keeping others lazily, with
   the buffer for them that nobody checks.
2. `Multipart`: `recv_multipart` with several parts, composed with `DrDist`.
3. `Docrep` with `erase` and reuse; the helpers (`reverse_slices`, `SequenceTagger`)
   against reference definitions; tags on L's entries in `BrownWindow`.
4. Proofs, in this order: `StartsConfigured` and `ArgumentsLand` of `Config`, with the
   lemmas on `FlattenSeq` of `DataInduction`; the refinement of `AnnotatedDoc` by `Docrep`,
   for which `DocumentInv` says what is needed of the stream and `ReadBack` of the next
   runtime; and that `read_uint` and `read_int` undo `write_uint` and
   `write_int`, byte by byte.
