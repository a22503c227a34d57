------------------------------- MODULE DrDist -------------------------------
(***************************************************************************)
(* One run of dr-dist: the server process with its source and sink         *)
(* threads, and the workers that pull documents from the source and push   *)
(* results to the sink.                                                    *)
(*                                                                         *)
(*   source --PUSH/PULL--> worker --PUSH/PULL--> sink --PUB/SUB--> worker  *)
(*      |                                          ^                       *)
(*      +------------------ direct PUSH -----------+                       *)
(*                                                                         *)
(* Every ZeroMQ pipe is a FIFO queue bounded by HWM (the high-water mark); *)
(* queues of different peers are not ordered with respect to each other.   *)
(* A document in a queue may still be on the wire: a worker that polls     *)
(* while its queue is not empty may or may not see it as readable.         *)
(***************************************************************************)
EXTENDS Integers, Sequences, FiniteSets

CONSTANTS
  Workers,        \* the worker processes
  Source,         \* the sender identity of the source's direct pipe
  Doc,            \* the documents that occur in input streams
  EmptyDoc,       \* the zero-length document
  Readable,       \* the documents a worker's dr::Reader accepts; a run may
                  \* be given others, which read_lazy_doc lets through
  Inputs,         \* the input streams a run may be given
  HWM,            \* capacity of a pipe
  PreserveOrder,  \* the --preserve-order option
  KillClients,    \* the --kill-clients option
  Faults          \* the kinds of failure that may happen

FaultKinds == {"setup", "send", "recv", "close", "worker", "server"}

ASSUME DrDistAssumption ==
  /\ Source \notin Workers
  /\ Readable \subseteq Doc
  /\ Inputs \subseteq Seq(Doc)
  /\ HWM \in Nat \ {0}
  /\ PreserveOrder \in BOOLEAN
  /\ KillClients \in BOOLEAN
  /\ Faults \subseteq FaultKinds

VARIABLES
  input,          \* the documents read_lazy_doc will return, in order
  srcPc,          \* where the source thread is
  docNum,         \* source: doc_num, the documents sent so far
  srcOk,          \* source: success
  sinkCreated,    \* sink_created, shared under sink_created_lock
  snkPc,          \* where the sink thread is
  snkOk,          \* sink: success
  ndocs,          \* sink: the announced number of documents
  ndocsKnown,     \* sink: whether it has been announced
  ndocsReceived,  \* sink: results received
  ndocsWritten,   \* sink: results written
  unwritten,      \* sink: results that wait for an earlier one
  written,        \* the results put on the output stream, in order
  toWorker,       \* source -> worker pipes
  toSink,         \* pipes into the sink, by sender
  control,        \* sink -> worker PUB/SUB pipes
  subscribed,     \* the workers whose subscription reached the PUB socket
  wPc,            \* where each worker is
  wMsg,           \* the message each busy worker is processing
  status          \* the exit status of the server process

sourceVars == <<srcPc, docNum, srcOk>>
counters   == <<ndocs, ndocsKnown, ndocsReceived, ndocsWritten>>
results    == <<unwritten, written>>
sinkVars   == <<sinkCreated, snkPc, snkOk, counters, results>>
workerVars == <<wPc, wMsg>>
netVars    == <<toWorker, toSink, control, subscribed>>
vars == <<input, sourceVars, sinkVars, netVars, workerVars, status>>

-----------------------------------------------------------------------------
(* Messages and the work a worker does on them. *)

(* What a worker returns for a document it can read: the rewritten         *)
(* document. The empty reply of process_doc is never given: it is the      *)
(* answer to an input without a byte, and no document is one.              *)
process_doc(d) == <<"processed", d>>

Result == {process_doc(d) : d \in Doc}

build_message(type, num, doc) == [type |-> type, num |-> num, doc |-> doc]

Document   == [type: {"DOCUMENT"}, num: Nat, doc: Doc]
Reply      == [type: {"DOCUMENT"}, num: Nat, doc: Result]
Count      == [type: {"DOCUMENT_COUNT"}, num: Nat, doc: {EmptyDoc}]
Terminate  == build_message("TERMINATE", 0, EmptyDoc)
NoMessage  == build_message("NONE", 0, EmptyDoc)

(* The reply that document number n of the input should give.              *)
Expected(n) == build_message("DOCUMENT", n, process_doc(input[n + 1]))

(* The reply to the document in message m carries its number.              *)
ReplyTo(m) == build_message("DOCUMENT", m.num, process_doc(m.doc))

Connected(w) == wPc[w] \in {"poll", "busy"}

-----------------------------------------------------------------------------
Init ==
  /\ input \in Inputs
  /\ srcPc = "wait" /\ docNum = 0 /\ srcOk = TRUE
  /\ sinkCreated = FALSE /\ snkPc = "setup" /\ snkOk = TRUE
  /\ ndocs = 0 /\ ndocsKnown = FALSE
  /\ ndocsReceived = 0 /\ ndocsWritten = 0
  /\ unwritten = [n \in {} |-> EmptyDoc] /\ written = <<>>
  /\ toWorker = [w \in Workers |-> <<>>]
  /\ toSink = [q \in Workers \cup {Source} |-> <<>>]
  /\ control = [w \in Workers |-> <<>>]
  /\ subscribed = {}
  /\ wPc = [w \in Workers |-> "off"]
  /\ wMsg = [w \in Workers |-> NoMessage]
  /\ status = "running"

-----------------------------------------------------------------------------
(* The source thread. *)

SourceStep(next) ==
  /\ srcPc' = next
  /\ UNCHANGED <<input, sinkVars, toWorker, control, subscribed, workerVars, status>>

(* Blocks on the condition variable until the sink has been created.       *)
SourceWait ==
  /\ srcPc = "wait"
  /\ sinkCreated
  /\ SourceStep("setup")
  /\ UNCHANGED <<docNum, srcOk, toSink>>

SourceSetup ==
  /\ srcPc = "setup"
  /\ SourceStep("read")
  /\ UNCHANGED <<docNum, srcOk, toSink>>

(* A context, bind or connect error returns at once: no count is sent.     *)
SourceSetupFails ==
  /\ srcPc = "setup"
  /\ "setup" \in Faults
  /\ srcOk' = FALSE
  /\ SourceStep("done")
  /\ UNCHANGED <<docNum, toSink>>

(* zmq_send on a PUSH socket blocks until some connected worker has room.  *)
SourceSendDocument(w) ==
  /\ srcPc = "read"
  /\ docNum < Len(input)
  /\ Connected(w)
  /\ Len(toWorker[w]) < HWM
  /\ toWorker' = [toWorker EXCEPT ![w] =
                    Append(@, build_message("DOCUMENT", docNum, input[docNum + 1]))]
  /\ docNum' = docNum + 1
  /\ UNCHANGED <<input, srcPc, srcOk, sinkVars, toSink, control, subscribed,
                 workerVars, status>>

(* The slips named after a definition of the model, like the next one, are *)
(* ways its code could be wrong; each breaks one of the properties below.  *)
SourceSendFails_Unreported ==
  /\ srcPc = "read"
  /\ docNum < Len(input)
  /\ "send" \in Faults
  /\ SourceStep("count")
  /\ UNCHANGED <<docNum, srcOk, toSink>>

(* A failed send ends the loop; the documents not sent are not counted.    *)
SourceSendFails ==
  /\ srcPc = "read"
  /\ docNum < Len(input)
  /\ "send" \in Faults
  /\ srcOk' = FALSE
  /\ SourceStep("count")
  /\ UNCHANGED <<docNum, toSink>>

SourceEndOfInput ==
  /\ srcPc = "read"
  /\ docNum = Len(input)
  /\ SourceStep("count")
  /\ UNCHANGED <<docNum, srcOk, toSink>>

Announced_OneMore == docNum + 1

(* What the source announces: doc_num, the number of documents sent.       *)
Announced == docNum

SourceSendCount ==
  /\ srcPc = "count"
  /\ toSink' = [toSink EXCEPT ![Source] =
                  Append(@, build_message("DOCUMENT_COUNT", Announced, EmptyDoc))]
  /\ SourceStep("close")
  /\ UNCHANGED <<docNum, srcOk>>

SourceSendCountFails ==
  /\ srcPc = "count"
  /\ "send" \in Faults
  /\ srcOk' = FALSE
  /\ SourceStep("close")
  /\ UNCHANGED <<docNum, toSink>>

SourceClose ==
  /\ srcPc = "close"
  /\ srcOk' \in (IF "close" \in Faults THEN {srcOk, FALSE} ELSE {srcOk})
  /\ SourceStep("done")
  /\ UNCHANGED <<docNum, toSink>>

SourceNext ==
  \/ SourceWait \/ SourceSetup
  \/ \E w \in Workers : SourceSendDocument(w)
  \/ SourceEndOfInput \/ SourceSendCount \/ SourceClose

-----------------------------------------------------------------------------
(* The sink thread. *)

SinkStep(next) ==
  /\ snkPc' = next
  /\ UNCHANGED <<input, sourceVars, toWorker, subscribed, workerVars, status>>

SinkSetup_NoNotify ==
  /\ snkPc = "setup"
  /\ SinkStep("recv")
  /\ UNCHANGED <<sinkCreated, snkOk, counters, results, toSink, control>>

SinkSetup ==
  /\ snkPc = "setup"
  /\ sinkCreated' = TRUE
  /\ SinkStep("recv")
  /\ UNCHANGED <<snkOk, counters, results, toSink, control>>

(* An error here returns before sink_created is set.                       *)
SinkSetupFails ==
  /\ snkPc = "setup"
  /\ "setup" \in Faults
  /\ snkOk' = FALSE
  /\ SinkStep("done")
  /\ UNCHANGED <<sinkCreated, counters, results, toSink, control>>

SinkExpectsMore_UntilCount == ~ndocsKnown

SinkExpectsMore == ~ndocsKnown \/ ndocsReceived # ndocs

(* emplace() keeps the entry that is there when the key is present.        *)
Emplace(map, key, value) ==
  IF key \in DOMAIN map THEN map
  ELSE [n \in DOMAIN map \cup {key} |-> IF n = key THEN value ELSE map[n]]

Erase(map, key) == [n \in DOMAIN map \ {key} |-> map[n]]

(* A result arrives: counted, then put in the map of results to write in   *)
(* order (the flush loop follows), or written straight away.               *)
SinkRecvDocument(q) ==
  /\ snkPc = "recv"
  /\ SinkExpectsMore
  /\ toSink[q] # <<>>
  /\ Head(toSink[q]).type = "DOCUMENT"
  /\ toSink' = [toSink EXCEPT ![q] = Tail(@)]
  /\ ndocsReceived' = ndocsReceived + 1
  /\ LET msg == Head(toSink[q])
     IN  IF PreserveOrder
         THEN /\ unwritten' = Emplace(unwritten, msg.num, msg.doc)
              /\ SinkStep("flush")
              /\ UNCHANGED <<ndocsWritten, written>>
         ELSE /\ written' = Append(written, msg)
              /\ ndocsWritten' = ndocsWritten + 1
              /\ SinkStep("recv")
              /\ UNCHANGED unwritten
  /\ UNCHANGED <<sinkCreated, snkOk, ndocs, ndocsKnown, control>>

NextToWrite_Lowest ==
  IF DOMAIN unwritten = {} THEN ndocsWritten
  ELSE CHOOSE n \in DOMAIN unwritten : \A m \in DOMAIN unwritten : n <= m

(* The number the flush loop looks for in the map.                         *)
NextToWrite == ndocsWritten

(* One turn of the flush loop: the next result in order is there.          *)
SinkFlush ==
  /\ snkPc = "flush"
  /\ NextToWrite \in DOMAIN unwritten
  /\ written' = Append(written,
                  build_message("DOCUMENT", NextToWrite, unwritten[NextToWrite]))
  /\ unwritten' = Erase(unwritten, NextToWrite)
  /\ ndocsWritten' = ndocsWritten + 1
  /\ SinkStep("flush")
  /\ UNCHANGED <<sinkCreated, snkOk, ndocs, ndocsKnown, ndocsReceived, toSink, control>>

SinkFlushEnds ==
  /\ snkPc = "flush"
  /\ NextToWrite \notin DOMAIN unwritten
  /\ SinkStep("recv")
  /\ UNCHANGED <<sinkCreated, snkOk, counters, results, toSink, control>>

SinkRecvCount(q) ==
  /\ snkPc = "recv"
  /\ SinkExpectsMore
  /\ toSink[q] # <<>>
  /\ Head(toSink[q]).type = "DOCUMENT_COUNT"
  /\ toSink' = [toSink EXCEPT ![q] = Tail(@)]
  /\ ndocs' = Head(toSink[q]).num
  /\ ndocsKnown' = TRUE
  /\ SinkStep("recv")
  /\ UNCHANGED <<sinkCreated, snkOk, ndocsReceived, ndocsWritten, results, control>>

SinkRecvFails ==
  /\ snkPc = "recv"
  /\ SinkExpectsMore
  /\ "recv" \in Faults
  /\ snkOk' = FALSE
  /\ SinkStep("done")
  /\ UNCHANGED <<sinkCreated, counters, results, toSink, control>>

(* The receive loop ends; the sanity check that follows only logs.         *)
SinkLoopEnds ==
  /\ snkPc = "recv"
  /\ ~SinkExpectsMore
  /\ SinkStep("publish")
  /\ UNCHANGED <<sinkCreated, snkOk, counters, results, toSink, control>>

SinkPublish_AsPush ==
  /\ snkPc = "publish"
  /\ control' \in (IF KillClients /\ subscribed # {}
                   THEN {[control EXCEPT ![w] = Append(@, Terminate)] : w \in subscribed}
                   ELSE {control})
  /\ SinkStep("close")
  /\ UNCHANGED <<sinkCreated, snkOk, counters, results, toSink>>

(* A PUB socket drops the message for whoever is not subscribed yet.       *)
SinkPublish ==
  /\ snkPc = "publish"
  /\ control' = IF KillClients
                THEN [w \in Workers |-> IF w \in subscribed
                                        THEN Append(control[w], Terminate)
                                        ELSE control[w]]
                ELSE control
  /\ SinkStep("close")
  /\ UNCHANGED <<sinkCreated, snkOk, counters, results, toSink>>

SinkPublishFails ==
  /\ snkPc = "publish"
  /\ KillClients
  /\ "send" \in Faults
  /\ snkOk' = FALSE
  /\ SinkStep("close")
  /\ UNCHANGED <<sinkCreated, counters, results, toSink, control>>

SinkClose ==
  /\ snkPc = "close"
  /\ snkOk' \in (IF "close" \in Faults THEN {snkOk, FALSE} ELSE {snkOk})
  /\ SinkStep("done")
  /\ UNCHANGED <<sinkCreated, counters, results, toSink, control>>

SinkNext ==
  \/ SinkSetup \/ SinkFlush \/ SinkFlushEnds
  \/ \E q \in Workers \cup {Source} : SinkRecvDocument(q) \/ SinkRecvCount(q)
  \/ SinkLoopEnds \/ SinkPublish \/ SinkClose

(* main() joins both threads and combines their results.                   *)
MainExits ==
  /\ srcPc = "done"
  /\ snkPc = "done"
  /\ status = "running"
  /\ status' = IF srcOk /\ snkOk THEN "success" ELSE "failure"
  /\ UNCHANGED <<input, sourceVars, sinkVars, netVars, workerVars>>

-----------------------------------------------------------------------------
(* A worker. *)

(* drworker connects its three sockets; ZeroMQ completes the connections   *)
(* in the background, whether or not the server is up yet.                 *)
WorkerStart(w) ==
  /\ wPc[w] = "off"
  /\ wPc' = [wPc EXCEPT ![w] = "poll"]
  /\ UNCHANGED <<input, sourceVars, sinkVars, netVars, wMsg, status>>

SubscriptionArrives(w) ==
  /\ Connected(w)
  /\ w \notin subscribed
  /\ snkPc \in {"recv", "flush", "publish"}
  /\ subscribed' = subscribed \cup {w}
  /\ UNCHANGED <<input, sourceVars, sinkVars, toWorker, toSink, control,
                 workerVars, status>>

(* The poll reports the source socket readable; it is served first.        *)
WorkerRecvDocument(w) ==
  /\ wPc[w] = "poll"
  /\ toWorker[w] # <<>>
  /\ wMsg' = [wMsg EXCEPT ![w] = Head(toWorker[w])]
  /\ toWorker' = [toWorker EXCEPT ![w] = Tail(@)]
  /\ wPc' = [wPc EXCEPT ![w] = "busy"]
  /\ UNCHANGED <<input, sourceVars, sinkVars, toSink, control, subscribed, status>>

WorkerReply(w) ==
  /\ wPc[w] = "busy"
  /\ wMsg[w].doc \in Readable
  /\ Len(toSink[w]) < HWM
  /\ toSink' = [toSink EXCEPT ![w] =
                  Append(@, ReplyTo(wMsg[w]))]
  /\ wMsg' = [wMsg EXCEPT ![w] = NoMessage]
  /\ wPc' = [wPc EXCEPT ![w] = "poll"]
  /\ UNCHANGED <<input, sourceVars, sinkVars, toWorker, control, subscribed, status>>

(* The sockets of a worker that stops are closed: what it had not received *)
(* yet is gone, what it had sent still arrives.                            *)
WorkerTerminate(w) ==
  /\ wPc[w] = "poll"
  /\ control[w] # <<>>
  /\ control' = [control EXCEPT ![w] = Tail(@)]
  /\ toWorker' = [toWorker EXCEPT ![w] = <<>>]
  /\ subscribed' = subscribed \ {w}
  /\ wPc' = [wPc EXCEPT ![w] = "done"]
  /\ UNCHANGED <<input, sourceVars, sinkVars, toSink, wMsg, status>>

(* A worker process ends without closing its sockets: the document in hand *)
(* and its queue are lost, and so may be replies not yet transmitted.      *)
WorkerDies(w) ==
  /\ \E k \in 0..Len(toSink[w]) :
       toSink' = [toSink EXCEPT ![w] = SubSeq(@, 1, k)]
  /\ toWorker' = [toWorker EXCEPT ![w] = <<>>]
  /\ subscribed' = subscribed \ {w}
  /\ wMsg' = [wMsg EXCEPT ![w] = NoMessage]
  /\ wPc' = [wPc EXCEPT ![w] = "dead"]
  /\ UNCHANGED <<input, sourceVars, sinkVars, control, status>>

WorkerRejects_PollsOn(w) ==
  /\ wPc[w] = "busy"
  /\ wMsg[w].doc \notin Readable
  /\ wMsg' = [wMsg EXCEPT ![w] = NoMessage]
  /\ wPc' = [wPc EXCEPT ![w] = "poll"]
  /\ UNCHANGED <<input, sourceVars, sinkVars, netVars, status>>

(* The reader throws a ReaderException for a document it does not accept,  *)
(* which neither process_doc nor its callers catch.                        *)
WorkerRejects(w) ==
  /\ wPc[w] = "busy"
  /\ wMsg[w].doc \notin Readable
  /\ WorkerDies(w)

(* An exception in the callback, a ZeroMQ error or a kill.                 *)
WorkerFails(w) ==
  /\ "worker" \in Faults
  /\ Connected(w)
  /\ WorkerDies(w)

WorkerNext(w) ==
  \/ WorkerStart(w) \/ SubscriptionArrives(w)
  \/ WorkerRecvDocument(w) \/ WorkerReply(w) \/ WorkerRejects(w)
  \/ WorkerTerminate(w)

-----------------------------------------------------------------------------
ServerFails ==
  \/ SourceSetupFails \/ SourceSendFails \/ SourceSendCountFails
  \/ SinkSetupFails \/ SinkRecvFails \/ SinkPublishFails

(* Once the server has exited the workers may wait for ever.               *)
Exited == status # "running" /\ UNCHANGED vars

Next ==
  \/ SourceNext
  \/ SinkNext
  \/ MainExits
  \/ \E w \in Workers : WorkerNext(w) \/ WorkerFails(w)
  \/ ServerFails
  \/ Exited

(* The two threads and every worker are scheduled by the operating system, *)
(* and ZeroMQ's I/O threads deliver; nothing makes a failure happen.       *)
Fairness ==
  /\ WF_vars(SourceNext)
  /\ WF_vars(SinkNext)
  /\ WF_vars(MainExits)
  /\ \A w \in Workers : WF_vars(WorkerNext(w))

Spec == Init /\ [][Next]_vars
FairSpec == Spec /\ Fairness
-----------------------------------------------------------------------------
(* The state's types, and which values the program counters take.          *)
TypeOK ==
  /\ input \in Inputs
  /\ srcPc \in {"wait", "setup", "read", "count", "close", "done"}
  /\ docNum \in 0..Len(input)
  /\ srcOk \in BOOLEAN
  /\ sinkCreated \in BOOLEAN
  /\ snkPc \in {"setup", "recv", "flush", "publish", "close", "done"}
  /\ snkOk \in BOOLEAN
  /\ ndocs \in Nat /\ ndocsKnown \in BOOLEAN
  /\ ndocsReceived \in Nat /\ ndocsWritten \in Nat
  /\ DOMAIN unwritten \subseteq Nat
  /\ unwritten \in [DOMAIN unwritten -> Result]
  /\ written \in Seq(Reply)
  /\ toWorker \in [Workers -> Seq(Document)]
  /\ toSink \in [Workers \cup {Source} -> Seq(Reply \cup Count)]
  /\ control \in [Workers -> Seq({Terminate})]
  /\ subscribed \subseteq Workers
  /\ wPc \in [Workers -> {"off", "poll", "busy", "done", "dead"}]
  /\ wMsg \in [Workers -> Document \cup {NoMessage}]
  /\ \A w \in Workers : wPc[w] = "busy" => wMsg[w] \in Document
  /\ status \in {"running", "success", "failure"}

(* With --preserve-order the output is at every moment the processed       *)
(* documents 0, 1, 2, ... of the input, whatever order the workers'        *)
(* replies arrive in and whatever fails: never a gap, a swap or a repeat.  *)
OrderedPrefix ==
  PreserveOrder => \A i \in DOMAIN written : written[i] = Expected(i - 1)

(* "This *should* always be true": when the receive loop has ended, every  *)
(* result received has been written and none is left waiting for another.  *)
SanityCheck ==
  snkPc = "publish" => ndocsReceived = ndocsWritten /\ DOMAIN unwritten = {}

(* The documents a worker holds or is being sent, and the replies on their *)
(* way to the sink.                                                        *)
AtWorker(w) == Len(toWorker[w]) + (IF wPc[w] = "busy" THEN 1 ELSE 0)
InFlight ==
  UNION ({{<<w, "doc", i>> : i \in 1..AtWorker(w)} : w \in Workers}
         \cup {{<<w, "reply", i>> : i \in DOMAIN toSink[w]} : w \in Workers})

(* Workers are told to stop only when no document is anywhere between the  *)
(* source and the output: TERMINATE never discards work, although a worker *)
(* that obeys it drops whatever its source socket still holds.             *)
TerminateDiscardsNothing ==
  (\E w \in Workers : control[w] # <<>> \/ wPc[w] = "done") =>
    /\ InFlight = {}
    /\ Len(written) = docNum
    /\ srcPc \in {"close", "done"}

(* Until a worker dies, every document sent is received or in flight: no   *)
(* step of the source, the sink or a worker loses or duplicates one, and a *)
(* document that a worker cannot read is lost only with the worker.        *)
NothingLost ==
  (\A w \in Workers : wPc[w] # "dead") =>
    docNum = ndocsReceived + Cardinality(InFlight)

(* dr-dist implements the abstract pipe, failures included: no document is *)
(* written twice, none but those of the input, each with the result of its *)
(* own processing, and exit status 0 means that all of them were.          *)
Pipe == INSTANCE DocPipe WITH out <- written, state <- status, Work <- process_doc
ImplementsPipe == Pipe!Spec

-----------------------------------------------------------------------------
(* A worker that the TERMINATE message reaches stops, if it does not die,  *)
(* and it reaches every worker whose subscription the control socket has:  *)
(* when a run with --kill-clients has succeeded, the workers left polling  *)
(* for ever are those whose subscription came too late, and no others.     *)
ToldWorkersStop ==
  \A w \in Workers :
    control[w] # <<>> \/ (KillClients /\ status = "success" /\ w \in subscribed)
      ~> wPc[w] \in {"done", "dead"}

(* The situations from which dr-dist does not come back. None has a        *)
(* timeout: the sink never got its sockets, so the source waits on the     *)
(* condition variable; the source ended without announcing a count; a      *)
(* document was lost with a worker; no worker is left to send to, or the   *)
(* sink is gone and the pipes to it are full.                              *)
HangCause ==
  \/ snkPc = "done" /\ ~sinkCreated
  \/ srcPc = "done" /\ ~ndocsKnown /\ toSink[Source] = <<>>
  \/ ndocsReceived + Cardinality(InFlight) < docNum
  \/ \A w \in Workers : ~Connected(w)
  \/ snkPc = "done" /\ \A w \in Workers : Connected(w) => Len(toSink[w]) = HWM

(* Whatever fails, dr-dist exits, unless it is stuck for one of those      *)
(* causes: there is no other way for it to hang.                           *)
ExitsOrHangsForCause == <>(status # "running") \/ <>[]HangCause
=============================================================================
