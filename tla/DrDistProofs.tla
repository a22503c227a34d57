---------------------------- MODULE DrDistProofs ----------------------------
(***************************************************************************)
(* Theorems about dr-dist, for any workers, documents, inputs, high-water  *)
(* mark, options and failures: the output keeps the order, no document is  *)
(* lost, repeated or invented (the run implements the pipe of DocPipe, its *)
(* sanity check holds, every document is accounted for while the workers   *)
(* live, TERMINATE discards nothing), and so for every one of the runs     *)
(* that share the workers.                                                 *)
(***************************************************************************)
EXTENDS DrDistRestart, SequenceTheorems, FiniteSetTheorems, TLAPS

-----------------------------------------------------------------------------
(* Facts about the queues and messages. *)

(* What a worker returns is a result.                                      *)
LEMMA ProcessedIsResult == \A d \in Doc : process_doc(d) \in Result
  BY DEF Result

(* Taking the head off a queue leaves a queue of the same elements.        *)
LEMMA Dequeue ==
  ASSUME NEW S, NEW q \in Seq(S), q # <<>>
  PROVE  /\ Head(q) \in S
         /\ Tail(q) \in Seq(S)
         /\ Len(q) > 0
         /\ Head(q) = q[1]
         /\ Len(Tail(q)) = Len(q) - 1
         /\ \A i \in 1..Len(Tail(q)) : Tail(q)[i] = q[i + 1]
  OBVIOUS

LEMMA Enqueue ==
  ASSUME NEW S, NEW q \in Seq(S), NEW m \in S
  PROVE  /\ Append(q, m) \in Seq(S)
         /\ Len(Append(q, m)) = Len(q) + 1
         /\ \A i \in 1..Len(q) : Append(q, m)[i] = q[i]
         /\ Append(q, m)[Len(q) + 1] = m
  OBVIOUS

(* A prefix of a queue is a queue of the same elements.                    *)
LEMMA Prefix ==
  ASSUME NEW S, NEW q \in Seq(S), NEW k \in 0..Len(q)
  PROVE  /\ SubSeq(q, 1, k) \in Seq(S)
         /\ Len(SubSeq(q, 1, k)) = k
         /\ \A i \in 1..k : SubSeq(q, 1, k)[i] = q[i]
  BY SubSeqProperties

-----------------------------------------------------------------------------
(* Type correctness: every variable keeps its type through every step.     *)

LEMMA InputIsSequence == TypeOK => input \in Seq(Doc)
  BY DrDistAssumption DEF TypeOK

LEMMA TypeInit == Init => TypeOK
<1> SUFFICES ASSUME Init
             PROVE  TypeOK
  OBVIOUS
<1>1. input \in Seq(Doc) /\ docNum \in 0..Len(input)
  BY DrDistAssumption DEF Init
<1>2. unwritten \in [DOMAIN unwritten -> Result] /\ DOMAIN unwritten \subseteq Nat
  BY DEF Init
<1>3. written \in Seq(Reply)
  BY DEF Init
<1>4. /\ toWorker \in [Workers -> Seq(Document)]
      /\ toSink \in [Workers \cup {Source} -> Seq(Reply \cup Count)]
      /\ control \in [Workers -> Seq({Terminate})]
  BY DEF Init
<1>5. /\ wPc \in [Workers -> {"off", "poll", "busy", "done", "dead"}]
      /\ wMsg \in [Workers -> Document \cup {NoMessage}]
      /\ \A w \in Workers : wPc[w] = "busy" => wMsg[w] \in Document
  BY DEF Init
<1>6. QED
  BY <1>1, <1>2, <1>3, <1>4, <1>5 DEF Init, TypeOK

LEMMA TypeSource ==
  TypeOK /\ (SourceNext \/ SourceSetupFails \/ SourceSendFails \/ SourceSendCountFails)
    => TypeOK'
<1> SUFFICES ASSUME TypeOK,
                    SourceNext \/ SourceSetupFails \/ SourceSendFails \/ SourceSendCountFails
             PROVE  TypeOK'
  OBVIOUS
<1> USE DEF SourceStep, sinkVars, counters, results, workerVars
<1>1. CASE SourceWait \/ SourceSetup \/ SourceSetupFails
  <2>1. /\ UNCHANGED <<input, sinkVars, toWorker, control, subscribed, workerVars, status>>
        /\ UNCHANGED <<docNum, toSink>>
    BY <1>1, Zenon DEF SourceWait, SourceSetup, SourceSetupFails
  <2>2. srcPc' \in {"setup", "read", "done"} /\ srcOk' \in BOOLEAN
    BY <1>1 DEF TypeOK, SourceWait, SourceSetup, SourceSetupFails
  <2>3. QED
    BY <2>1, <2>2 DEF TypeOK
<1>2. ASSUME NEW w \in Workers, SourceSendDocument(w)
      PROVE  TypeOK'
  <2>1. input \in Seq(Doc) /\ docNum \in Nat /\ docNum + 1 \in 1..Len(input)
    BY <1>2, InputIsSequence, SMTT(30) DEF TypeOK, SourceSendDocument
  <2>2. build_message("DOCUMENT", docNum, input[docNum + 1]) \in Document
    BY <2>1 DEF build_message, Document
  <2>3. toWorker' \in [Workers -> Seq(Document)]
    BY <1>2, <2>2 DEF TypeOK, SourceSendDocument
  <2>4. docNum' \in 0..Len(input)
    BY <1>2, <2>1 DEF SourceSendDocument
  <2>5. QED
    BY <1>2, <2>3, <2>4 DEF TypeOK, SourceSendDocument
<1>3. CASE SourceEndOfInput \/ SourceSendFails
  <2>1. /\ UNCHANGED <<input, sinkVars, toWorker, control, subscribed, workerVars, status>>
        /\ UNCHANGED <<docNum, toSink>>
    BY <1>3, Zenon DEF SourceEndOfInput, SourceSendFails
  <2>2. srcPc' = "count" /\ srcOk' \in BOOLEAN
    BY <1>3 DEF TypeOK, SourceEndOfInput, SourceSendFails
  <2>3. QED
    BY <2>1, <2>2 DEF TypeOK
<1>4. CASE SourceSendCount
  <2>1. build_message("DOCUMENT_COUNT", Announced, EmptyDoc) \in Count
    BY InputIsSequence DEF TypeOK, build_message, Announced, Count
  <2>2. toSink' \in [Workers \cup {Source} -> Seq(Reply \cup Count)]
    BY <1>4, <2>1 DEF TypeOK, SourceSendCount
  <2>3. QED
    BY <1>4, <2>2 DEF TypeOK, SourceSendCount
<1>5. CASE SourceSendCountFails \/ SourceClose
  <2>1. /\ UNCHANGED <<input, sinkVars, toWorker, control, subscribed, workerVars, status>>
        /\ UNCHANGED <<docNum, toSink>>
    BY <1>5, Zenon DEF SourceSendCountFails, SourceClose
  <2>2. srcPc' \in {"close", "done"} /\ srcOk' \in BOOLEAN
    BY <1>5 DEF TypeOK, SourceSendCountFails, SourceClose
  <2>3. QED
    BY <2>1, <2>2 DEF TypeOK
<1>6. QED
  BY <1>1, <1>2, <1>3, <1>4, <1>5 DEF SourceNext

(* emplace() adds at most the one key, and keeps the other entries.        *)
LEMMA EmplaceEntries ==
  \A map, key, value :
    /\ DOMAIN Emplace(map, key, value) = DOMAIN map \cup {key}
    /\ \A n \in DOMAIN map : Emplace(map, key, value)[n] = map[n]
    /\ key \notin DOMAIN map => Emplace(map, key, value)[key] = value
<1> TAKE map, key, value
<1>1. CASE key \in DOMAIN map
  BY <1>1 DEF Emplace
<1>2. CASE key \notin DOMAIN map
  BY <1>2 DEF Emplace
<1>3. QED
  BY <1>1, <1>2

LEMMA EmplaceType ==
  \A S, map, key, value :
    DOMAIN map \subseteq Nat /\ map \in [DOMAIN map -> S] /\ key \in Nat /\ value \in S
    => /\ DOMAIN Emplace(map, key, value) \subseteq Nat
       /\ Emplace(map, key, value) \in [DOMAIN Emplace(map, key, value) -> S]
<1> TAKE S, map, key, value
<1> HAVE DOMAIN map \subseteq Nat /\ map \in [DOMAIN map -> S] /\ key \in Nat /\ value \in S
<1>1. CASE key \in DOMAIN map
  BY <1>1 DEF Emplace
<1>2. CASE key \notin DOMAIN map
  BY <1>2 DEF Emplace
<1>3. QED
  BY <1>1, <1>2

(* Erasing a key keeps the other entries.                                  *)
LEMMA EraseEntries ==
  \A map, key :
    /\ DOMAIN Erase(map, key) = DOMAIN map \ {key}
    /\ \A n \in DOMAIN Erase(map, key) : Erase(map, key)[n] = map[n]
  BY DEF Erase

LEMMA TypeSink ==
  TypeOK /\ (SinkNext \/ SinkSetupFails \/ SinkRecvFails \/ SinkPublishFails)
    => TypeOK'
<1> SUFFICES ASSUME TypeOK,
                    SinkNext \/ SinkSetupFails \/ SinkRecvFails \/ SinkPublishFails
             PROVE  TypeOK'
  OBVIOUS
<1> USE DEF SinkStep, sourceVars, counters, results, workerVars
<1>1. CASE SinkSetup \/ SinkSetupFails \/ SinkRecvFails \/ SinkFlushEnds \/ SinkLoopEnds
  <2>1. /\ UNCHANGED <<input, sourceVars, toWorker, subscribed, workerVars, status>>
        /\ UNCHANGED <<counters, results, toSink, control>>
    BY <1>1, Zenon DEF SinkSetup, SinkSetupFails, SinkRecvFails, SinkFlushEnds, SinkLoopEnds
  <2>2. snkPc' \in {"recv", "publish", "done"} /\ sinkCreated' \in BOOLEAN /\ snkOk' \in BOOLEAN
    BY <1>1 DEF TypeOK, SinkSetup, SinkSetupFails, SinkRecvFails, SinkFlushEnds, SinkLoopEnds
  <2>3. QED
    BY <2>1, <2>2 DEF TypeOK
<1>2. ASSUME NEW q \in Workers \cup {Source}, SinkRecvDocument(q)
      PROVE  TypeOK'
  <2> DEFINE msg == Head(toSink[q])
  <2>1. toSink' \in [Workers \cup {Source} -> Seq(Reply \cup Count)]
    BY <1>2 DEF TypeOK, SinkRecvDocument
  <2>2. msg \in Reply
    <3>1. msg \in Reply \cup Count
      BY <1>2 DEF TypeOK, SinkRecvDocument
    <3>2. msg.type = "DOCUMENT"
      BY <1>2 DEF SinkRecvDocument
    <3>3. QED
      BY <3>1, <3>2 DEF Count
  <2>3. msg.num \in Nat /\ msg.doc \in Result
    BY <2>2 DEF Reply
  <2>6. /\ UNCHANGED <<input, sourceVars, toWorker, subscribed, workerVars, status>>
        /\ UNCHANGED <<sinkCreated, snkOk, ndocs, ndocsKnown, control>>
        /\ ndocsReceived' = ndocsReceived + 1
    BY <1>2, Zenon DEF SinkRecvDocument
  <2>4. CASE PreserveOrder
    <3>1. /\ unwritten' = Emplace(unwritten, msg.num, msg.doc)
          /\ snkPc' = "flush"
          /\ ndocsWritten' = ndocsWritten /\ written' = written
      BY <1>2, <2>4, Zenon DEF SinkRecvDocument
    <3>2. DOMAIN unwritten \subseteq Nat /\ unwritten \in [DOMAIN unwritten -> Result]
      BY DEF TypeOK
    <3>3. /\ DOMAIN Emplace(unwritten, msg.num, msg.doc) \subseteq Nat
          /\ Emplace(unwritten, msg.num, msg.doc)
               \in [DOMAIN Emplace(unwritten, msg.num, msg.doc) -> Result]
      BY <2>3, <3>2, EmplaceType, Zenon
    <3>4. QED
      BY <2>1, <2>6, <3>1, <3>3, SMTT(30) DEF TypeOK
  <2>5. CASE ~PreserveOrder
    <3>1. /\ unwritten' = unwritten
          /\ snkPc' = "recv"
          /\ ndocsWritten' = ndocsWritten + 1 /\ written' = Append(written, msg)
      BY <1>2, <2>5, Zenon DEF SinkRecvDocument
    <3>2. written' \in Seq(Reply)
      BY <2>2, <3>1 DEF TypeOK
    <3>3. /\ DOMAIN unwritten' \subseteq Nat /\ unwritten' \in [DOMAIN unwritten' -> Result]
          /\ ndocsReceived' \in Nat /\ ndocsWritten' \in Nat
      BY <2>6, <3>1, SMTT(30) DEF TypeOK
    <3>4. QED
      BY <2>1, <2>6, <3>1, <3>2, <3>3 DEF TypeOK
  <2>7. QED
    BY <2>4, <2>5
<1>3. CASE SinkFlush
  <2>1. ndocsWritten \in Nat /\ unwritten[ndocsWritten] \in Result
    BY <1>3 DEF TypeOK, SinkFlush, NextToWrite
  <2>2. build_message("DOCUMENT", ndocsWritten, unwritten[ndocsWritten]) \in Reply
    BY <2>1 DEF ReplyTo, build_message, Reply
  <2>3. written' \in Seq(Reply)
    BY <1>3, <2>2 DEF TypeOK, SinkFlush, NextToWrite
  <2>4. /\ DOMAIN unwritten' \subseteq Nat
        /\ unwritten' \in [DOMAIN unwritten' -> Result]
    BY <1>3 DEF TypeOK, SinkFlush, NextToWrite, Erase
  <2>5. QED
    BY <1>3, <2>1, <2>3, <2>4 DEF TypeOK, SinkFlush, NextToWrite
<1>4. ASSUME NEW q \in Workers \cup {Source}, SinkRecvCount(q)
      PROVE  TypeOK'
  <2>1. toSink' \in [Workers \cup {Source} -> Seq(Reply \cup Count)]
    BY <1>4 DEF TypeOK, SinkRecvCount
  <2>2. Head(toSink[q]) \in Reply \cup Count
    BY <1>4 DEF TypeOK, SinkRecvCount
  <2>3. ndocs' \in Nat
    BY <1>4, <2>2 DEF SinkRecvCount, Reply, Count
  <2>4. QED
    BY <1>4, <2>1, <2>3 DEF TypeOK, SinkRecvCount
<1>5. CASE SinkPublish
  <2>1. control' \in [Workers -> Seq({Terminate})]
    <3>1. CASE KillClients
      <4>1. control' = [w \in Workers |-> IF w \in subscribed
                                        THEN Append(control[w], Terminate)
                                        ELSE control[w]]
        BY <1>5, <3>1, Zenon DEF SinkPublish
      <4>2. QED
        BY <4>1 DEF TypeOK
    <3>2. CASE ~KillClients
      BY <1>5, <3>2, Zenon DEF SinkPublish, TypeOK
    <3>3. QED
      BY <3>1, <3>2
  <2>2. QED
    BY <1>5, <2>1 DEF TypeOK, SinkPublish
<1>6. CASE SinkPublishFails \/ SinkClose
  <2>1. /\ UNCHANGED <<input, sourceVars, toWorker, subscribed, workerVars, status>>
        /\ UNCHANGED <<sinkCreated, counters, results, toSink, control>>
    BY <1>6, Zenon DEF SinkPublishFails, SinkClose
  <2>2. snkPc' \in {"close", "done"} /\ snkOk' \in BOOLEAN
    BY <1>6 DEF TypeOK, SinkPublishFails, SinkClose
  <2>3. QED
    BY <2>1, <2>2 DEF TypeOK
<1>7. QED
  BY <1>1, <1>2, <1>3, <1>4, <1>5, <1>6 DEF SinkNext

LEMMA TypeWorker ==
  ASSUME TypeOK, NEW w \in Workers, WorkerNext(w) \/ WorkerFails(w)
  PROVE  TypeOK'
<1> USE DEF sourceVars, sinkVars, counters, results
<1>1. CASE WorkerStart(w)
  BY <1>1 DEF TypeOK, WorkerStart, netVars
<1>6. CASE SubscriptionArrives(w)
  BY <1>6 DEF TypeOK, SubscriptionArrives, workerVars
<1>2. CASE WorkerRecvDocument(w)
  <2>1. toWorker' \in [Workers -> Seq(Document)] /\ Head(toWorker[w]) \in Document
    BY <1>2 DEF TypeOK, WorkerRecvDocument
  <2>2. /\ wMsg' \in [Workers -> Document \cup {NoMessage}]
        /\ \A v \in Workers : wPc'[v] = "busy" => wMsg'[v] \in Document
    BY <1>2, <2>1 DEF TypeOK, WorkerRecvDocument
  <2>3. QED
    BY <1>2, <2>1, <2>2, SMTT(30) DEF TypeOK, WorkerRecvDocument
<1>3. CASE WorkerReply(w)
  <2>1. wMsg[w].num \in Nat /\ process_doc(wMsg[w].doc) \in Result
    BY <1>3, ProcessedIsResult DEF TypeOK, WorkerReply, Document
  <2>2. ReplyTo(wMsg[w]) \in Reply
    BY <2>1 DEF ReplyTo, build_message, Reply
  <2>3. toSink' \in [Workers \cup {Source} -> Seq(Reply \cup Count)]
    BY <1>3, <2>2 DEF TypeOK, WorkerReply
  <2>4. QED
    BY <1>3, <2>3, SMTT(30) DEF TypeOK, WorkerReply
<1>4. CASE WorkerTerminate(w)
  <2>1. /\ control' \in [Workers -> Seq({Terminate})]
        /\ toWorker' \in [Workers -> Seq(Document)]
    BY <1>4 DEF TypeOK, WorkerTerminate
  <2>2. QED
    BY <1>4, <2>1, SMTT(30) DEF TypeOK, WorkerTerminate
<1>5. CASE WorkerDies(w)
  <2>1. PICK k \in 0..Len(toSink[w]) :
          toSink' = [toSink EXCEPT ![w] = SubSeq(@, 1, k)]
    BY <1>5 DEF WorkerDies
  <2>2. SubSeq(toSink[w], 1, k) \in Seq(Reply \cup Count)
    BY <2>1, Prefix DEF TypeOK
  <2>3. toSink' \in [Workers \cup {Source} -> Seq(Reply \cup Count)]
    BY <2>1, <2>2 DEF TypeOK
  <2>4. toWorker' \in [Workers -> Seq(Document)]
    BY <1>5 DEF TypeOK, WorkerDies
  <2>5. QED
    BY <1>5, <2>3, <2>4, SMTT(30) DEF TypeOK, WorkerDies
<1>7. QED
  BY <1>1, <1>2, <1>3, <1>4, <1>5, <1>6 DEF WorkerNext, WorkerRejects, WorkerFails

LEMMA TypeStutter == TypeOK /\ UNCHANGED vars => TypeOK'
  BY DEF TypeOK, vars, sourceVars, sinkVars, counters, results, netVars, workerVars

LEMMA TypeMain == TypeOK /\ MainExits => TypeOK'
  BY DEF TypeOK, MainExits, sourceVars, sinkVars, counters, results, netVars, workerVars

LEMMA TypeStep == TypeOK /\ [Next]_vars => TypeOK'
  BY TypeSource, TypeSink, TypeWorker, TypeMain, TypeStutter DEF Next, ServerFails, Exited

(* Every variable of dr-dist keeps its type, whatever fails.               *)
THEOREM TypeCorrect == Spec => []TypeOK
<1>1. Init => TypeOK
  BY TypeInit
<1>2. TypeOK /\ [Next]_vars => TypeOK'
  BY TypeStep
<1>3. QED
  BY <1>1, <1>2, PTL DEF Spec

-----------------------------------------------------------------------------
(* Order of the output. Whatever is in a queue, in a worker's hands, in    *)
(* the map of waiting results or in the output is the document of the      *)
(* input that its number names, processed or not; and in ordered mode the  *)
(* next number to be written is the number of results written.             *)

(* m carries the input document its number names.                          *)
Genuine(m) == m.num < Len(input) /\ m.doc = input[m.num + 1]

(* m carries the processed form of the input document its number names.    *)
Answer(m) == m.num < Len(input) /\ m.doc = process_doc(input[m.num + 1])

QueuesGenuine == \A w \in Workers : \A i \in 1..Len(toWorker[w]) : Genuine(toWorker[w][i])

HeldGenuine == \A w \in Workers : wPc[w] = "busy" => Genuine(wMsg[w])

RepliesAnswer ==
  \A q \in Workers \cup {Source} : \A i \in 1..Len(toSink[q]) :
    toSink[q][i].type = "DOCUMENT" => Answer(toSink[q][i])

WaitingAnswer ==
  \A n \in DOMAIN unwritten :
    n < Len(input) /\ unwritten[n] = process_doc(input[n + 1])

WrittenInOrder ==
  PreserveOrder =>
    /\ Len(written) = ndocsWritten
    /\ \A i \in 1..Len(written) : written[i] = Expected(i - 1)

OrderInv ==
  /\ QueuesGenuine
  /\ HeldGenuine
  /\ RepliesAnswer
  /\ WaitingAnswer
  /\ WrittenInOrder

LEMMA OrderInit == Init => OrderInv
  BY DEF Init, OrderInv, QueuesGenuine, HeldGenuine, RepliesAnswer, WaitingAnswer,
         WrittenInOrder

(* Steps that touch none of the five parts.                                *)
LEMMA OrderFrame ==
  ASSUME OrderInv,
         UNCHANGED <<input, toWorker, toSink, unwritten, written, ndocsWritten>>,
         \A w \in Workers : wPc'[w] = "busy" => wPc[w] = "busy" /\ wMsg'[w] = wMsg[w]
  PROVE  OrderInv'
  BY DEF OrderInv, QueuesGenuine, HeldGenuine, RepliesAnswer, WaitingAnswer,
         WrittenInOrder, Genuine, Answer, Expected

LEMMA OrderSource ==
  TypeOK /\ OrderInv
  /\ (SourceNext \/ SourceSetupFails \/ SourceSendFails \/ SourceSendCountFails)
    => OrderInv'
<1> SUFFICES ASSUME TypeOK, OrderInv,
                    SourceNext \/ SourceSetupFails \/ SourceSendFails \/ SourceSendCountFails
             PROVE  OrderInv'
  OBVIOUS
<1> USE DEF SourceStep, sinkVars, counters, results, workerVars
<1>1. CASE \/ SourceWait \/ SourceSetup \/ SourceSetupFails \/ SourceEndOfInput
           \/ SourceSendFails \/ SourceSendCountFails \/ SourceClose
  <2>1. /\ UNCHANGED <<input, toWorker, toSink, unwritten, written, ndocsWritten>>
        /\ UNCHANGED <<wPc, wMsg>>
    BY <1>1 DEF SourceWait, SourceSetup, SourceSetupFails, SourceEndOfInput, SourceSendFails,
                SourceSendCountFails, SourceClose
  <2>2. QED
    BY <2>1, OrderFrame
<1>2. ASSUME NEW w \in Workers, SourceSendDocument(w)
      PROVE  OrderInv'
  <2> DEFINE m == build_message("DOCUMENT", docNum, input[docNum + 1])
  <2>1. /\ UNCHANGED <<input, toSink, unwritten, written, ndocsWritten, wPc, wMsg>>
        /\ toWorker' = [toWorker EXCEPT ![w] = Append(@, m)]
        /\ docNum < Len(input)
    BY <1>2 DEF SourceSendDocument
  <2>2. m.num = docNum /\ m.doc = input[docNum + 1]
    BY DEF build_message
  <2>3. Genuine(m)
    BY <2>1, <2>2 DEF Genuine
  <2>4. \A v \in Workers : \A i \in 1..Len(toWorker'[v]) : Genuine(toWorker'[v][i])
    <3> SUFFICES ASSUME NEW v \in Workers, NEW i \in 1..Len(toWorker'[v])
                 PROVE  Genuine(toWorker'[v][i])
      OBVIOUS
    <3>1. toWorker \in [Workers -> Seq(Document)]
      BY DEF TypeOK
    <3>2. CASE v = w
      <4>1. /\ Len(toWorker'[v]) = Len(toWorker[v]) + 1
            /\ toWorker'[v][Len(toWorker[v]) + 1] = m
            /\ \A j \in 1..Len(toWorker[v]) : toWorker'[v][j] = toWorker[v][j]
        BY <2>1, <3>1, <3>2
      <4>2. QED
        BY <2>3, <3>1, <4>1 DEF OrderInv, QueuesGenuine
    <3>3. CASE v # w
      BY <2>1, <3>1, <3>3 DEF OrderInv, QueuesGenuine
    <3>4. QED
      BY <3>2, <3>3
  <2>6. QED
    BY <2>1, <2>4 DEF OrderInv, QueuesGenuine, HeldGenuine, RepliesAnswer, WaitingAnswer,
                      WrittenInOrder, Genuine, Answer, Expected
<1>3. CASE SourceSendCount
  <2> DEFINE m == build_message("DOCUMENT_COUNT", Announced, EmptyDoc)
  <2>1. /\ UNCHANGED <<input, toWorker, unwritten, written, ndocsWritten, wPc, wMsg>>
        /\ toSink' = [toSink EXCEPT ![Source] = Append(@, m)]
        /\ m.type = "DOCUMENT_COUNT"
    BY <1>3 DEF SourceSendCount, build_message
  <2>2. RepliesAnswer'
    <3> SUFFICES ASSUME NEW q \in Workers \cup {Source}, NEW i \in 1..Len(toSink'[q]),
                        toSink'[q][i].type = "DOCUMENT"
                 PROVE  Answer(toSink'[q][i])
      BY <2>1 DEF RepliesAnswer, Answer
    <3>1. toSink \in [Workers \cup {Source} -> Seq(Reply \cup Count)]
      BY DEF TypeOK
    <3>2. i \in 1..Len(toSink[q]) /\ toSink'[q][i] = toSink[q][i]
      BY <2>1, <3>1
    <3>3. QED
      BY <3>2 DEF OrderInv, RepliesAnswer
  <2>3. QED
    BY <2>1, <2>2 DEF OrderInv, QueuesGenuine, HeldGenuine, WaitingAnswer, WrittenInOrder,
                      Genuine, Expected
<1>4. QED
  BY <1>1, <1>2, <1>3 DEF SourceNext

(* Taking the first message off a pipe keeps the others genuine.           *)
LEMMA RepliesAfterReceive ==
  ASSUME TypeOK, RepliesAnswer, NEW q \in Workers \cup {Source}, toSink[q] # <<>>,
         toSink' = [toSink EXCEPT ![q] = Tail(@)], input' = input
  PROVE  RepliesAnswer'
<1> SUFFICES ASSUME NEW p \in Workers \cup {Source}, NEW i \in 1..Len(toSink'[p]),
                    toSink'[p][i].type = "DOCUMENT"
             PROVE  Answer(toSink'[p][i])
  BY DEF RepliesAnswer, Answer
<1>1. toSink \in [Workers \cup {Source} -> Seq(Reply \cup Count)]
  BY DEF TypeOK
<1>2. CASE p = q
  <2>1. /\ Len(toSink'[p]) = Len(toSink[p]) - 1
        /\ toSink'[p][i] = toSink[p][i + 1]
        /\ i + 1 \in 1..Len(toSink[p])
    BY <1>1, <1>2
  <2>2. QED
    BY <2>1 DEF RepliesAnswer
<1>3. CASE p # q
  BY <1>1, <1>3 DEF RepliesAnswer
<1>4. QED
  BY <1>2, <1>3

LEMMA OrderSink ==
  TypeOK /\ OrderInv
  /\ (SinkNext \/ SinkSetupFails \/ SinkRecvFails \/ SinkPublishFails)
    => OrderInv'
<1> SUFFICES ASSUME TypeOK, OrderInv,
                    SinkNext \/ SinkSetupFails \/ SinkRecvFails \/ SinkPublishFails
             PROVE  OrderInv'
  OBVIOUS
<1> USE DEF SinkStep, sourceVars, counters, results, workerVars
<1>1. CASE \/ SinkSetup \/ SinkSetupFails \/ SinkRecvFails \/ SinkFlushEnds
           \/ SinkLoopEnds \/ SinkPublish \/ SinkPublishFails \/ SinkClose
  <2>1. /\ UNCHANGED <<input, toWorker, toSink, unwritten, written, ndocsWritten>>
        /\ UNCHANGED <<wPc, wMsg>>
    BY <1>1 DEF SinkSetup, SinkSetupFails, SinkRecvFails, SinkFlushEnds, SinkLoopEnds,
                SinkPublish, SinkPublishFails, SinkClose
  <2>2. QED
    BY <2>1, OrderFrame
<1>2. ASSUME NEW q \in Workers \cup {Source}, SinkRecvDocument(q)
      PROVE  OrderInv'
  <2> DEFINE msg == Head(toSink[q])
  <2>1. /\ UNCHANGED <<input, toWorker, wPc, wMsg>>
        /\ toSink' = [toSink EXCEPT ![q] = Tail(@)]
        /\ toSink[q] # <<>>
        /\ msg.type = "DOCUMENT"
    BY <1>2, Zenon DEF SinkRecvDocument
  <2>2. RepliesAnswer'
    BY <2>1, RepliesAfterReceive DEF OrderInv
  <2>3. msg = toSink[q][1] /\ 1 \in 1..Len(toSink[q]) /\ msg \in Reply \cup Count
    BY <2>1 DEF TypeOK
  <2>4. Answer(msg) /\ msg.num \in Nat /\ msg.doc \in Result /\ msg \in Reply
    BY <2>1, <2>3 DEF OrderInv, RepliesAnswer, Reply, Count
  <2>5. CASE PreserveOrder
    <3>1. /\ unwritten' = Emplace(unwritten, msg.num, msg.doc)
          /\ ndocsWritten' = ndocsWritten /\ written' = written
      BY <1>2, <2>5, Zenon DEF SinkRecvDocument
    <3>2. DOMAIN unwritten \subseteq Nat /\ unwritten \in [DOMAIN unwritten -> Result]
      BY DEF TypeOK
    <3>3. DOMAIN unwritten' = DOMAIN unwritten \cup {msg.num}
      BY <3>1, EmplaceEntries
    <3>4. \A n \in DOMAIN unwritten : unwritten'[n] = unwritten[n]
      BY <3>1, EmplaceEntries
    <3>5. msg.num \notin DOMAIN unwritten => unwritten'[msg.num] = msg.doc
      BY <3>1, EmplaceEntries
    <3>6. WaitingAnswer'
      BY <2>1, <2>4, <3>3, <3>4, <3>5 DEF OrderInv, WaitingAnswer, Answer
    <3>7. QED
      BY <2>1, <2>2, <3>1, <3>6
         DEF OrderInv, QueuesGenuine, HeldGenuine, WrittenInOrder, Genuine, Expected
  <2>6. CASE ~PreserveOrder
    <3>1. unwritten' = unwritten
      BY <1>2, <2>6, Zenon DEF SinkRecvDocument
    <3>2. QED
      BY <2>1, <2>2, <2>6, <3>1
         DEF OrderInv, QueuesGenuine, HeldGenuine, WaitingAnswer, WrittenInOrder, Genuine
  <2>7. QED
    BY <2>5, <2>6
<1>3. CASE SinkFlush
  <2> DEFINE m == build_message("DOCUMENT", ndocsWritten, unwritten[ndocsWritten])
  <2>1. /\ UNCHANGED <<input, toWorker, toSink, wPc, wMsg>>
        /\ ndocsWritten \in DOMAIN unwritten
        /\ written' = Append(written, m)
        /\ unwritten' = Erase(unwritten, ndocsWritten)
        /\ ndocsWritten' = ndocsWritten + 1
    BY <1>3 DEF SinkFlush, NextToWrite
  <2>2. WaitingAnswer'
    <3>1. DOMAIN unwritten' = DOMAIN unwritten \ {ndocsWritten}
      BY <2>1, EraseEntries
    <3>2. \A n \in DOMAIN unwritten' : unwritten'[n] = unwritten[n]
      BY <2>1, EraseEntries
    <3>3. QED
      BY <2>1, <3>1, <3>2 DEF OrderInv, WaitingAnswer
  <2>3. m = Expected(ndocsWritten)
    BY <2>1 DEF OrderInv, WaitingAnswer, Expected
  <2>4. WrittenInOrder'
    <3> SUFFICES ASSUME PreserveOrder
                 PROVE  /\ Len(written') = ndocsWritten'
                        /\ \A i \in 1..Len(written') : written'[i] = Expected(i - 1)'
      BY DEF WrittenInOrder
    <3>1. /\ written \in Seq(Reply) /\ Len(written) = ndocsWritten
          /\ \A i \in 1..Len(written) : written[i] = Expected(i - 1)
      BY DEF TypeOK, OrderInv, WrittenInOrder
    <3>2. /\ Len(written') = Len(written) + 1
          /\ written'[Len(written) + 1] = m
          /\ \A i \in 1..Len(written) : written'[i] = written[i]
      BY <2>1, <3>1
    <3>3. ASSUME NEW i \in 1..Len(written')
          PROVE  written'[i] = Expected(i - 1)
      <4>1. CASE i \in 1..Len(written)
        BY <3>1, <3>2, <4>1
      <4>2. CASE i = Len(written) + 1
        BY <2>3, <3>1, <3>2, <4>2
      <4>3. QED
        BY <3>1, <3>2, <3>3, <4>1, <4>2
    <3>4. \A n : Expected(n)' = Expected(n)
      BY <2>1 DEF Expected
    <3>5. QED
      BY <2>1, <3>1, <3>2, <3>3, <3>4
  <2>5. QED
    BY <2>1, <2>2, <2>4
       DEF OrderInv, QueuesGenuine, HeldGenuine, RepliesAnswer, Genuine, Answer
<1>4. ASSUME NEW q \in Workers \cup {Source}, SinkRecvCount(q)
      PROVE  OrderInv'
  <2>1. /\ UNCHANGED <<input, toWorker, unwritten, written, ndocsWritten, wPc, wMsg>>
        /\ toSink' = [toSink EXCEPT ![q] = Tail(@)]
        /\ toSink[q] # <<>>
    BY <1>4 DEF SinkRecvCount
  <2>2. RepliesAnswer'
    BY <2>1, RepliesAfterReceive DEF OrderInv
  <2>3. QED
    BY <2>1, <2>2 DEF OrderInv, QueuesGenuine, HeldGenuine, WaitingAnswer, WrittenInOrder,
                      Genuine, Expected
<1>5. QED
  BY <1>1, <1>2, <1>3, <1>4 DEF SinkNext

LEMMA OrderWorker ==
  ASSUME TypeOK, OrderInv, NEW w \in Workers, WorkerNext(w) \/ WorkerFails(w)
  PROVE  OrderInv'
<1> USE DEF sourceVars, sinkVars, counters, results
<1>0. /\ toWorker \in [Workers -> Seq(Document)]
      /\ toSink \in [Workers \cup {Source} -> Seq(Reply \cup Count)]
      /\ wMsg \in [Workers -> Document \cup {NoMessage}]
      /\ wPc \in [Workers -> {"off", "poll", "busy", "done", "dead"}]
  BY DEF TypeOK
<1>1. CASE WorkerStart(w) \/ SubscriptionArrives(w)
  <2>1. /\ UNCHANGED <<input, toWorker, toSink, unwritten, written, ndocsWritten>>
        /\ \A v \in Workers : wPc'[v] = "busy" => wPc[v] = "busy" /\ wMsg'[v] = wMsg[v]
    BY <1>0, <1>1 DEF WorkerStart, SubscriptionArrives, netVars, workerVars
  <2>2. QED
    BY <2>1, OrderFrame
<1>2. CASE WorkerRecvDocument(w)
  <2>1. /\ UNCHANGED <<input, toSink, unwritten, written, ndocsWritten>>
        /\ toWorker[w] # <<>>
        /\ wMsg' = [wMsg EXCEPT ![w] = Head(toWorker[w])]
        /\ toWorker' = [toWorker EXCEPT ![w] = Tail(@)]
        /\ wPc' = [wPc EXCEPT ![w] = "busy"]
    BY <1>2 DEF WorkerRecvDocument
  <2>2. Genuine(Head(toWorker[w]))
    BY <1>0, <2>1 DEF OrderInv, QueuesGenuine
  <2>3. HeldGenuine'
    BY <1>0, <2>1, <2>2 DEF OrderInv, HeldGenuine, Genuine
  <2>4. \A v \in Workers : \A i \in 1..Len(toWorker'[v]) : Genuine(toWorker'[v][i])
    <3> SUFFICES ASSUME NEW v \in Workers, NEW i \in 1..Len(toWorker'[v])
                 PROVE  Genuine(toWorker'[v][i])
      OBVIOUS
    <3>1. CASE v = w
      <4>1. toWorker'[v][i] = toWorker[v][i + 1] /\ i + 1 \in 1..Len(toWorker[v])
        BY <1>0, <2>1, <3>1
      <4>2. QED
        BY <4>1 DEF OrderInv, QueuesGenuine
    <3>2. CASE v # w
      BY <1>0, <2>1, <3>2 DEF OrderInv, QueuesGenuine
    <3>3. QED
      BY <3>1, <3>2
  <2>5. QED
    BY <2>1, <2>3, <2>4 DEF OrderInv, QueuesGenuine, RepliesAnswer, WaitingAnswer,
                            WrittenInOrder, Genuine, Answer, Expected
<1>3. CASE WorkerReply(w)
  <2> DEFINE m == ReplyTo(wMsg[w])
  <2>1. /\ UNCHANGED <<input, toWorker, unwritten, written, ndocsWritten>>
        /\ wPc[w] = "busy"
        /\ toSink' = [toSink EXCEPT ![w] = Append(@, m)]
        /\ \A v \in Workers : wPc'[v] = "busy" => wPc[v] = "busy" /\ wMsg'[v] = wMsg[v]
    BY <1>0, <1>3 DEF WorkerReply
  <2>2. Answer(m)
    BY <2>1 DEF OrderInv, HeldGenuine, Genuine, Answer, ReplyTo, build_message
  <2>3. RepliesAnswer'
    <3> SUFFICES ASSUME NEW q \in Workers \cup {Source}, NEW i \in 1..Len(toSink'[q]),
                        toSink'[q][i].type = "DOCUMENT"
                 PROVE  Answer(toSink'[q][i])
      BY <2>1 DEF RepliesAnswer, Answer
    <3>1. CASE q = w
      <4>1. /\ Len(toSink'[q]) = Len(toSink[q]) + 1
            /\ toSink'[q][Len(toSink[q]) + 1] = m
            /\ \A j \in 1..Len(toSink[q]) : toSink'[q][j] = toSink[q][j]
        BY <1>0, <2>1, <3>1
      <4>2. CASE i \in 1..Len(toSink[q])
        BY <4>1, <4>2 DEF OrderInv, RepliesAnswer
      <4>3. CASE i = Len(toSink[q]) + 1
        BY <2>2, <4>1, <4>3
      <4>4. QED
        BY <1>0, <4>1, <4>2, <4>3
    <3>2. CASE q # w
      BY <1>0, <2>1, <3>2 DEF OrderInv, RepliesAnswer
    <3>3. QED
      BY <3>1, <3>2
  <2>4. QED
    BY <2>1, <2>3 DEF OrderInv, QueuesGenuine, HeldGenuine, WaitingAnswer, WrittenInOrder,
                      Genuine, Expected
<1>4. CASE WorkerTerminate(w)
  <2>1. /\ UNCHANGED <<input, toSink, unwritten, written, ndocsWritten>>
        /\ toWorker' = [toWorker EXCEPT ![w] = <<>>]
        /\ \A v \in Workers : wPc'[v] = "busy" => wPc[v] = "busy" /\ wMsg'[v] = wMsg[v]
    BY <1>0, <1>4 DEF WorkerTerminate
  <2>2. QueuesGenuine'
    BY <1>0, <2>1 DEF OrderInv, QueuesGenuine, Genuine
  <2>3. QED
    BY <2>1, <2>2 DEF OrderInv, HeldGenuine, RepliesAnswer, WaitingAnswer, WrittenInOrder,
                      Genuine, Answer, Expected
<1>5. CASE WorkerDies(w)
  <2>1. /\ UNCHANGED <<input, unwritten, written, ndocsWritten>>
        /\ toWorker' = [toWorker EXCEPT ![w] = <<>>]
        /\ \A v \in Workers : wPc'[v] = "busy" => wPc[v] = "busy" /\ wMsg'[v] = wMsg[v]
    BY <1>0, <1>5 DEF WorkerDies
  <2>2. PICK k \in 0..Len(toSink[w]) :
          toSink' = [toSink EXCEPT ![w] = SubSeq(@, 1, k)]
    BY <1>5 DEF WorkerDies
  <2>3. \A q \in Workers \cup {Source} : \A i \in 1..Len(toSink'[q]) :
          i \in 1..Len(toSink[q]) /\ toSink'[q][i] = toSink[q][i]
    BY <1>0, <2>2, Prefix
  <2>4. RepliesAnswer'
    BY <2>1, <2>3 DEF OrderInv, RepliesAnswer, Answer
  <2>5. QueuesGenuine'
    BY <1>0, <2>1 DEF OrderInv, QueuesGenuine, Genuine
  <2>6. QED
    BY <2>1, <2>4, <2>5 DEF OrderInv, HeldGenuine, WaitingAnswer, WrittenInOrder,
                            Genuine, Expected
<1>6. QED
  BY <1>1, <1>2, <1>3, <1>4, <1>5 DEF WorkerNext, WorkerRejects, WorkerFails

LEMMA OrderStep == TypeOK /\ OrderInv /\ [Next]_vars => OrderInv'
<1> SUFFICES ASSUME TypeOK, OrderInv, [Next]_vars
             PROVE  OrderInv'
  OBVIOUS
<1>1. CASE MainExits \/ Exited \/ UNCHANGED vars
  <2>1. UNCHANGED <<input, toWorker, toSink, unwritten, written, ndocsWritten, wPc, wMsg>>
    BY <1>1 DEF MainExits, Exited, vars, sinkVars, counters, results, netVars, workerVars
  <2>2. QED
    BY <2>1, OrderFrame
<1>2. QED
  BY <1>1, OrderSource, OrderSink, OrderWorker DEF Next, ServerFails

(* With --preserve-order the output is always a prefix of the processed    *)
(* input in the order of the input, whatever order replies arrive in and   *)
(* whatever fails (sink(), source() and drworker_recv()).                  *)
THEOREM OrderPreserved == Spec => []OrderedPrefix
<1>1. Init => OrderInv
  BY OrderInit
<1>2. TypeOK /\ OrderInv /\ [Next]_vars => OrderInv'
  BY OrderStep
<1>3. TypeOK /\ OrderInv => OrderedPrefix
  BY DEF TypeOK, OrderInv, WrittenInOrder, OrderedPrefix
<1>4. QED
  BY <1>1, <1>2, <1>3, TypeCorrect, PTL DEF Spec

-----------------------------------------------------------------------------
(* Every document that has been sent is in one place at most. A function   *)
(* from numbers to places says in which: whatever carries the number n is  *)
(* at place[n], and a queue or the output has each number once.            *)

Places == {"queue", "hand", "reply", "waiting", "output"} \X (Workers \cup {Source})

(* The queue holds some of the first n documents, each once, and p is      *)
(* where they are.                                                         *)
HoldsOnce(q, n, place, p) ==
  /\ \A i \in 1..Len(q) : q[i].num < n /\ place[q[i].num] = p
  /\ \A i, j \in 1..Len(q) : q[i].num = q[j].num => i = j

InQueues(place) ==
  \A w \in Workers : HoldsOnce(toWorker[w], docNum, place, <<"queue", w>>)
InReplies(place) ==
  \A w \in Workers : HoldsOnce(toSink[w], docNum, place, <<"reply", w>>)
InOutput(place) == HoldsOnce(written, docNum, place, <<"output", Source>>)
InHands(place) ==
  \A w \in Workers :
    wPc[w] = "busy" => wMsg[w].num < docNum /\ place[wMsg[w].num] = <<"hand", w>>
InMap(place) ==
  \A n \in DOMAIN unwritten : n < docNum /\ place[n] = <<"waiting", Source>>

InPlace(place) ==
  InQueues(place) /\ InHands(place) /\ InReplies(place) /\ InMap(place) /\ InOutput(place)

OnePlace == \E place \in [Nat -> Places] : InPlace(place)

-----------------------------------------------------------------------------
(* The pipes into the sink carry replies, but for the source's own, which  *)
(* carries the number of documents sent after the last of them.            *)
Announcement ==
  /\ \A w \in Workers : \A i \in 1..Len(toSink[w]) : toSink[w][i].type = "DOCUMENT"
  /\ \A i \in 1..Len(toSink[Source]) :
       toSink[Source][i].type = "DOCUMENT_COUNT" /\ toSink[Source][i].num = docNum
  /\ toSink[Source] # <<>> \/ ndocsKnown => srcPc \in {"close", "done"}
  /\ toSink[Source] # <<>> => Len(toSink[Source]) = 1 /\ ~ndocsKnown
  /\ ndocsKnown => ndocs = docNum

(* The counters of the sink: what it has received is written or waits for  *)
(* an earlier document, and outside of the flush loop the next document to *)
(* be written is not there.                                                *)
Bookkeeping ==
  /\ Len(written) = ndocsWritten
  /\ IsFiniteSet(DOMAIN unwritten)
  /\ ndocsReceived = ndocsWritten + Cardinality(DOMAIN unwritten)
  /\ snkPc = "flush" => PreserveOrder
  /\ PreserveOrder /\ snkPc # "flush" => ndocsWritten \notin DOMAIN unwritten
  /\ ~PreserveOrder => DOMAIN unwritten = {}

AllReceived == ndocsKnown /\ ndocsReceived = ndocs

(* What the threads' program counters and results say of the run.          *)
Outcome ==
  /\ snkPc \in {"publish", "close"} => AllReceived
  /\ snkPc = "done" /\ snkOk => AllReceived
  /\ srcPc \in {"count", "close", "done"} /\ srcOk => docNum = Len(input)
  /\ status # "running" => srcPc = "done" /\ snkPc = "done"

(* A worker is told to stop after the receive loop has ended.              *)
Told ==
  (\E w \in Workers : control[w] # <<>> \/ wPc[w] = "done") =>
    snkPc \in {"close", "done"} /\ AllReceived

Delivery == OnePlace /\ Announcement /\ Bookkeeping /\ Outcome

PipeInv == Delivery /\ Told
-----------------------------------------------------------------------------
(* What the moves of a document do to what holds it and what does not.     *)

(* A message with the number of a document.                                *)
Numbered == Document \cup Reply \cup Count

(* Such a message names a document by a natural number.                    *)
LEMMA NumberedNum == \A m \in Numbered : m.num \in Nat
  BY DEF Numbered, Document, Reply, Count

(* Nothing follows the only element of a queue.                            *)
LEMMA TailOfOne ==
  ASSUME NEW S, NEW q \in Seq(S), Len(q) = 1
  PROVE  Tail(q) = <<>>
<1>1. q # <<>>
  BY EmptySeq
<1>2. Tail(q) \in Seq(S) /\ Len(Tail(q)) = 0
  BY <1>1, Dequeue
<1> QED BY <1>2, EmptySeq

(* A queue still holds what it holds when another place loses or gets a    *)
(* document, and more documents have been sent.                            *)
LEMMA Elsewhere ==
  ASSUME NEW q \in Seq(Numbered), NEW n \in Nat, NEW n2 \in Nat, n <= n2,
         NEW place \in [Nat -> Places], NEW p, NEW k \in Nat, NEW r,
         HoldsOnce(q, n, place, p), place[k] # p \/ k >= n
  PROVE  HoldsOnce(q, n2, [place EXCEPT ![k] = r], p)
<1>1. \A i \in 1..Len(q) : q[i].num \in Nat
  BY ElementOfSeq, NumberedNum
<1> QED BY <1>1 DEF HoldsOnce

(* The head of a queue leaves its place, and the rest stays there.         *)
LEMMA TakeFirst ==
  ASSUME NEW q \in Seq(Numbered), q # <<>>, NEW n \in Nat,
         NEW place \in [Nat -> Places], NEW p, NEW r, HoldsOnce(q, n, place, p)
  PROVE  /\ q[1].num \in Nat /\ q[1].num < n /\ place[q[1].num] = p
         /\ HoldsOnce(Tail(q), n, [place EXCEPT ![q[1].num] = r], p)
<1>1. \A i \in 1..Len(q) : q[i].num \in Nat
  BY ElementOfSeq, NumberedNum
<1>2. /\ Len(q) \in Nat /\ Len(q) > 0 /\ Len(Tail(q)) = Len(q) - 1
      /\ \A i \in 1..Len(Tail(q)) : Tail(q)[i] = q[i + 1]
  BY Dequeue
<1>3. 1 \in 1..Len(q) /\ \A i \in 1..Len(Tail(q)) : i + 1 \in 1..Len(q) /\ i + 1 # 1
  BY <1>2
<1>4. \A i \in 1..Len(Tail(q)) : q[i + 1].num # q[1].num
  BY <1>3 DEF HoldsOnce
<1>5. \A i \in 1..Len(Tail(q)) :
        /\ Tail(q)[i].num < n
        /\ [place EXCEPT ![q[1].num] = r][Tail(q)[i].num] = p
  BY <1>1, <1>2, <1>3, <1>4 DEF HoldsOnce
<1>6. \A i, j \in 1..Len(Tail(q)) : Tail(q)[i].num = Tail(q)[j].num => i = j
  BY <1>2, <1>3 DEF HoldsOnce
<1> QED BY <1>1, <1>3, <1>5, <1>6 DEF HoldsOnce

(* A document that was not at a place is put at the end of its queue.      *)
LEMMA PutLast ==
  ASSUME NEW q \in Seq(Numbered), NEW m \in Numbered, NEW n \in Nat, NEW n2 \in Nat, n <= n2,
         NEW place \in [Nat -> Places], NEW p, HoldsOnce(q, n, place, p),
         place[m.num] # p \/ m.num >= n, m.num < n2
  PROVE  HoldsOnce(Append(q, m), n2, [place EXCEPT ![m.num] = p], p)
<1>1. m.num \in Nat /\ \A i \in 1..Len(q) : q[i].num \in Nat
  BY ElementOfSeq, NumberedNum
<1>2. /\ Len(q) \in Nat /\ Len(Append(q, m)) = Len(q) + 1
      /\ \A i \in 1..Len(q) : Append(q, m)[i] = q[i]
      /\ Append(q, m)[Len(q) + 1] = m
  BY Enqueue
<1>3. \A i \in 1..Len(q) : q[i].num # m.num /\ q[i].num < n2
  BY <1>1 DEF HoldsOnce
<1>4. \A i \in 1..(Len(q) + 1) : i \in 1..Len(q) \/ i = Len(q) + 1
  BY <1>2
<1>5. \A i \in 1..(Len(q) + 1) :
        /\ Append(q, m)[i].num < n2
        /\ [place EXCEPT ![m.num] = p][Append(q, m)[i].num] = p
  BY <1>1, <1>2, <1>3, <1>4 DEF HoldsOnce
<1>6. \A i, j \in 1..(Len(q) + 1) : Append(q, m)[i].num = Append(q, m)[j].num => i = j
  BY <1>2, <1>3, <1>4 DEF HoldsOnce
<1> QED BY <1>2, <1>5, <1>6 DEF HoldsOnce

(* What is left of a pipe that breaks holds each document once.            *)
LEMMA HoldsPrefix ==
  ASSUME NEW q \in Seq(Numbered), NEW k \in 0..Len(q), NEW n \in Nat, NEW place, NEW p,
         HoldsOnce(q, n, place, p)
  PROVE  HoldsOnce(SubSeq(q, 1, k), n, place, p)
<1>1. k \in Nat /\ 1..k \subseteq 1..Len(q)
  OBVIOUS
<1>2. Len(SubSeq(q, 1, k)) = k /\ \A i \in 1..k : SubSeq(q, 1, k)[i] = q[i]
  BY Prefix
<1> QED BY <1>1, <1>2 DEF HoldsOnce

(* An empty queue holds no document.                                       *)
LEMMA HoldsNothing ==
  ASSUME NEW n, NEW place, NEW p
  PROVE  HoldsOnce(<<>>, n, place, p)
  BY DEF HoldsOnce

(* The queues, the pipes and the output are sequences of such messages.    *)
LEMMA Queues ==
  TypeOK => /\ \A w \in Workers : toWorker[w] \in Seq(Numbered)
            /\ \A q \in Workers \cup {Source} : toSink[q] \in Seq(Numbered)
            /\ written \in Seq(Numbered)
            /\ docNum \in Nat
<1> SUFFICES ASSUME TypeOK
             PROVE  /\ \A w \in Workers : toWorker[w] \in Seq(Numbered)
                    /\ \A q \in Workers \cup {Source} : toSink[q] \in Seq(Numbered)
                    /\ written \in Seq(Numbered)
                    /\ docNum \in Nat
  OBVIOUS
<1>1. /\ Document \subseteq Numbered /\ Reply \subseteq Numbered
      /\ Reply \cup Count \subseteq Numbered
  BY DEF Numbered
<1>2. /\ \A w \in Workers : toWorker[w] \in Seq(Document)
      /\ \A q \in Workers \cup {Source} : toSink[q] \in Seq(Reply \cup Count)
      /\ written \in Seq(Reply)
  BY DEF TypeOK
<1>3. docNum \in Nat
  BY InputIsSequence DEF TypeOK
<1> QED BY <1>1, <1>2, <1>3, SeqMonotonic

(* A document that moves from one place leaves alone what the other places *)
(* hold; one that has just been sent was nowhere.                          *)
NotFrom(place, k, p) == k >= docNum \/ place[k] # p

Stays(place, k, n, after) ==
  /\ \A w \in Workers : NotFrom(place, k, <<"queue", w>>) =>
       HoldsOnce(toWorker[w], n, after, <<"queue", w>>)
  /\ \A w \in Workers : NotFrom(place, k, <<"reply", w>>) =>
       HoldsOnce(toSink[w], n, after, <<"reply", w>>)
  /\ NotFrom(place, k, <<"output", Source>>) =>
       HoldsOnce(written, n, after, <<"output", Source>>)
  /\ \A w \in Workers : wPc[w] = "busy" /\ NotFrom(place, k, <<"hand", w>>) =>
       wMsg[w].num < n /\ after[wMsg[w].num] = <<"hand", w>>
  /\ \A m \in DOMAIN unwritten : NotFrom(place, k, <<"waiting", Source>>) \/ m # k =>
       m < n /\ after[m] = <<"waiting", Source>>

(* That is what a move from place k, or the sending of k, does to the rest.*)
LEMMA OthersStay ==
  ASSUME TypeOK, NEW place \in [Nat -> Places], InPlace(place),
         NEW n2 \in Nat, docNum <= n2, NEW k \in Nat, NEW r,
         NEW after, after = [place EXCEPT ![k] = r]
  PROVE  Stays(place, k, n2, after)
<1>0. docNum \in Nat
  BY Queues
<1>1. ASSUME NEW w \in Workers
      PROVE  /\ NotFrom(place, k, <<"queue", w>>) =>
                  HoldsOnce(toWorker[w], n2, after, <<"queue", w>>)
             /\ NotFrom(place, k, <<"reply", w>>) =>
                  HoldsOnce(toSink[w], n2, after, <<"reply", w>>)
  BY <1>0, Queues, Elsewhere DEF InPlace, InQueues, InReplies, NotFrom
<1>2. NotFrom(place, k, <<"output", Source>>) =>
        HoldsOnce(written, n2, after, <<"output", Source>>)
  BY <1>0, Queues, Elsewhere DEF InPlace, InOutput, NotFrom
<1>3. \A w \in Workers : wPc[w] = "busy" => wMsg[w].num \in Nat
  BY NumberedNum DEF TypeOK, Numbered
<1>4. ASSUME NEW w \in Workers, wPc[w] = "busy", NotFrom(place, k, <<"hand", w>>)
      PROVE  wMsg[w].num < n2 /\ after[wMsg[w].num] = <<"hand", w>>
  <2>1. /\ wMsg[w].num < docNum
        /\ place[wMsg[w].num] = <<"hand", w>>
    BY <1>4 DEF InPlace, InHands
  <2>2. wMsg[w].num \in Nat
    BY <1>3, <1>4
  <2>3. wMsg[w].num # k
    BY <1>0, <1>4, <2>1, <2>2 DEF NotFrom
  <2> QED BY <1>0, <2>1, <2>2, <2>3
<1>5. ASSUME NEW n \in DOMAIN unwritten, NotFrom(place, k, <<"waiting", Source>>) \/ n # k
      PROVE  n < n2 /\ after[n] = <<"waiting", Source>>
  <2>1. n \in Nat /\ n < docNum /\ place[n] = <<"waiting", Source>>
    BY DEF InPlace, InMap, TypeOK
  <2>2. n # k
    BY <1>0, <1>5, <2>1 DEF NotFrom
  <2> QED BY <1>0, <2>1, <2>2
<1> QED BY <1>1, <1>2, <1>4, <1>5 DEF Stays

(* Steps that move no document but may drop some.                          *)
LEMMA PlaceFrame ==
  ASSUME TypeOK, OnePlace, UNCHANGED <<docNum, unwritten, written>>,
         \A w \in Workers : toWorker'[w] \in {toWorker[w], <<>>},
         \A w \in Workers : \E k \in 0..Len(toSink[w]) : toSink'[w] = SubSeq(toSink[w], 1, k),
         \A w \in Workers : wPc'[w] = "busy" => wPc[w] = "busy" /\ wMsg'[w] = wMsg[w]
  PROVE  OnePlace'
<1>1. PICK place \in [Nat -> Places] : InPlace(place)
  BY DEF OnePlace
<1>2. InQueues(place)'
  BY <1>1, HoldsNothing DEF InPlace, InQueues
<1>3. InReplies(place)'
  BY <1>1, HoldsPrefix, Queues DEF InPlace, InReplies
<1>4. InOutput(place)' /\ InHands(place)' /\ InMap(place)'
  BY <1>1 DEF InPlace, InOutput, InHands, InMap
<1> QED BY <1>2, <1>3, <1>4 DEF OnePlace, InPlace

(* A sequence is a prefix of itself.                                       *)
LEMMA WholePrefix == \A q \in Seq(Numbered) : Len(q) \in 0..Len(q) /\ SubSeq(q, 1, Len(q)) = q
  BY SubSeqFull, LenProperties

(* Steps that move no document.                                            *)
LEMMA PlaceUnmoved ==
  ASSUME TypeOK, OnePlace, UNCHANGED <<docNum, unwritten, written, toWorker>>,
         \A w \in Workers : toSink'[w] = toSink[w],
         \A w \in Workers : wPc'[w] = "busy" => wPc[w] = "busy" /\ wMsg'[w] = wMsg[w]
  PROVE  OnePlace'
<1>1. \A w \in Workers : \E k \in 0..Len(toSink[w]) : toSink'[w] = SubSeq(toSink[w], 1, k)
  BY WholePrefix, Queues
<1> QED BY <1>1, PlaceFrame

-----------------------------------------------------------------------------
(* No step of dr-dist brings a document to a second place.                 *)

(* At the start no document is anywhere.                                   *)
LEMMA PlaceInit == Init => OnePlace
<1> SUFFICES ASSUME Init PROVE OnePlace
  OBVIOUS
<1>1. PICK place \in [Nat -> Places] : place = [n \in Nat |-> <<"waiting", Source>>]
  BY DEF Places
<1>2. InPlace(place)
  BY HoldsNothing
     DEF Init, InPlace, InQueues, InHands, InReplies, InMap, InOutput
<1> QED BY <1>2 DEF OnePlace

(* The source sends a document that is nowhere yet.                        *)
LEMMA PlaceSend ==
  ASSUME TypeOK, OnePlace, NEW w \in Workers, SourceSendDocument(w)
  PROVE  OnePlace'
<1>1. PICK place \in [Nat -> Places] : InPlace(place)
  BY DEF OnePlace
<1> DEFINE p == <<"queue", w>>
           m == build_message("DOCUMENT", docNum, input[docNum + 1])
<1>2. PICK after \in [Nat -> Places] : after = [place EXCEPT ![docNum] = p]
  BY DEF Places
<1>3. /\ toWorker' = [toWorker EXCEPT ![w] = Append(@, m)]
      /\ docNum < Len(input) /\ docNum' = docNum + 1
      /\ UNCHANGED <<toSink, written, unwritten, wPc, wMsg>>
  BY DEF SourceSendDocument, sinkVars, results, workerVars
<1>4. docNum \in Nat /\ docNum + 1 \in Nat /\ docNum <= docNum + 1
  BY Queues
<1>5. m \in Numbered /\ m.num = docNum
  <2>1. docNum + 1 \in 1..Len(input)
    BY <1>3, <1>4, InputIsSequence
  <2>2. input[docNum + 1] \in Doc
    BY <2>1, InputIsSequence, ElementOfSeq
  <2> QED BY <1>4, <2>2 DEF build_message, Numbered, Document
<1>6. HoldsOnce(Append(toWorker[w], m), docNum + 1, after, p)
  <2>1. HoldsOnce(toWorker[w], docNum, place, p) /\ toWorker[w] \in Seq(Numbered)
    BY <1>1, Queues DEF InPlace, InQueues
  <2>2. m.num >= docNum /\ m.num < docNum + 1
    BY <1>4, <1>5
  <2> HIDE DEF m, p
  <2> QED BY <1>2, <1>4, <1>5, <2>1, <2>2, PutLast
<1>7. /\ \A v \in Workers : HoldsOnce(toWorker[v], docNum + 1, after, <<"queue", v>>)
      /\ \A v \in Workers : HoldsOnce(toSink[v], docNum + 1, after, <<"reply", v>>)
      /\ HoldsOnce(written, docNum + 1, after, <<"output", Source>>)
      /\ \A v \in Workers : wPc[v] = "busy" =>
           wMsg[v].num < docNum + 1 /\ after[wMsg[v].num] = <<"hand", v>>
      /\ \A n \in DOMAIN unwritten : n < docNum + 1 /\ after[n] = <<"waiting", Source>>
  <2>1. \A x : NotFrom(place, docNum, x)
    BY <1>4 DEF NotFrom
  <2>2. Stays(place, docNum, docNum + 1, after)
    BY <1>1, <1>2, <1>4, OthersStay
  <2> QED BY <2>1, <2>2 DEF Stays
<1>8. \A v \in Workers : toWorker'[v] = IF v = w THEN Append(toWorker[w], m) ELSE toWorker[v]
  BY <1>3 DEF TypeOK
<1> HIDE DEF m
<1>9. InQueues(after)'
  BY <1>3, <1>6, <1>7, <1>8 DEF InQueues
<1>10. InReplies(after)' /\ InOutput(after)' /\ InHands(after)' /\ InMap(after)'
  BY <1>3, <1>7 DEF InReplies, InOutput, InHands, InMap
<1> QED BY <1>9, <1>10 DEF OnePlace, InPlace

(* A worker takes a document from its queue.                               *)
LEMMA PlaceTake ==
  ASSUME TypeOK, OnePlace, NEW w \in Workers, WorkerRecvDocument(w)
  PROVE  OnePlace'
<1>1. PICK place \in [Nat -> Places] : InPlace(place)
  BY DEF OnePlace
<1> DEFINE p == <<"queue", w>>
           r == <<"hand", w>>
<1>2. /\ toWorker[w] # <<>>
      /\ toWorker' = [toWorker EXCEPT ![w] = Tail(@)]
      /\ wMsg' = [wMsg EXCEPT ![w] = Head(toWorker[w])]
      /\ wPc' = [wPc EXCEPT ![w] = "busy"]
      /\ UNCHANGED <<docNum, toSink, written, unwritten>>
  BY DEF WorkerRecvDocument, sourceVars, sinkVars, results
<1>3. Head(toWorker[w]) = toWorker[w][1]
  BY <1>2, Dequeue, Queues
<1>4. docNum \in Nat
  BY Queues
<1>5. PICK k \in Nat : k = toWorker[w][1].num
  BY <1>1, <1>2, <1>4, TakeFirst, Queues DEF InPlace, InQueues
<1>6. PICK after \in [Nat -> Places] : after = [place EXCEPT ![k] = r]
  BY DEF Places
<1>7. /\ k < docNum /\ place[k] = p
      /\ HoldsOnce(Tail(toWorker[w]), docNum, after, p)
  <2>1. toWorker[w] \in Seq(Numbered) /\ HoldsOnce(toWorker[w], docNum, place, p)
    BY <1>1, Queues DEF InPlace, InQueues
  <2>2. after = [place EXCEPT ![toWorker[w][1].num] = r]
    BY <1>5, <1>6
  <2> HIDE DEF p, r
  <2> QED BY <1>2, <1>4, <1>5, <2>1, <2>2, TakeFirst
<1>8. /\ \A v \in Workers \ {w} : HoldsOnce(toWorker[v], docNum, after, <<"queue", v>>)
      /\ \A v \in Workers : HoldsOnce(toSink[v], docNum, after, <<"reply", v>>)
      /\ HoldsOnce(written, docNum, after, <<"output", Source>>)
      /\ \A v \in Workers : wPc[v] = "busy" =>
           wMsg[v].num < docNum /\ after[wMsg[v].num] = <<"hand", v>>
      /\ \A n \in DOMAIN unwritten : n < docNum /\ after[n] = <<"waiting", Source>>
  <2>1. /\ NotFrom(place, k, <<"output", Source>>) /\ NotFrom(place, k, <<"waiting", Source>>)
        /\ \A v \in Workers : NotFrom(place, k, <<"reply", v>>) /\ NotFrom(place, k, <<"hand", v>>)
        /\ \A v \in Workers \ {w} : NotFrom(place, k, <<"queue", v>>)
    BY <1>7 DEF NotFrom
  <2>2. docNum <= docNum
    BY <1>4
  <2>3. Stays(place, k, docNum, after)
    BY <1>1, <1>4, <1>6, <2>2, OthersStay
  <2> QED BY <2>1, <2>3 DEF Stays
<1>9. /\ \A v \in Workers : toWorker'[v] = IF v = w THEN Tail(toWorker[w]) ELSE toWorker[v]
      /\ \A v \in Workers : v # w => wMsg'[v] = wMsg[v] /\ wPc'[v] = wPc[v]
      /\ wMsg'[w].num = k
  BY <1>2, <1>3, <1>5 DEF TypeOK
<1>10. InQueues(after)'
  <2> SUFFICES ASSUME NEW v \in Workers
               PROVE  HoldsOnce(toWorker'[v], docNum, after, <<"queue", v>>)
    BY <1>2 DEF InQueues
  <2> QED BY <1>7, <1>8, <1>9
<1>11. InHands(after)'
  <2> SUFFICES ASSUME NEW v \in Workers, wPc'[v] = "busy"
               PROVE  wMsg'[v].num < docNum /\ after[wMsg'[v].num] = <<"hand", v>>
    BY <1>2 DEF InHands
  <2>1. after[k] = r
    BY <1>6
  <2> QED BY <1>7, <1>8, <1>9, <2>1
<1>12. InReplies(after)' /\ InOutput(after)' /\ InMap(after)'
  BY <1>2, <1>8 DEF InReplies, InOutput, InMap
<1> QED BY <1>10, <1>11, <1>12 DEF OnePlace, InPlace

(* A worker replies with the document it has in hand.                      *)
LEMMA PlaceReply ==
  ASSUME TypeOK, OnePlace, NEW w \in Workers, WorkerReply(w)
  PROVE  OnePlace'
<1>1. PICK place \in [Nat -> Places] : InPlace(place)
  BY DEF OnePlace
<1> DEFINE p == <<"hand", w>>
           r == <<"reply", w>>
           m == ReplyTo(wMsg[w])
<1>2. /\ wPc[w] = "busy"
      /\ toSink' = [toSink EXCEPT ![w] = Append(@, m)]
      /\ wPc' = [wPc EXCEPT ![w] = "poll"]
      /\ wMsg' = [wMsg EXCEPT ![w] = NoMessage]
      /\ UNCHANGED <<docNum, toWorker, written, unwritten>>
  BY DEF WorkerReply, sourceVars, sinkVars, results
<1>3. m.num = wMsg[w].num /\ m \in Numbered
  <2>1. wMsg[w].num \in Nat /\ process_doc(wMsg[w].doc) \in Result
    BY <1>2, ProcessedIsResult DEF TypeOK, Document
  <2> QED BY <2>1 DEF ReplyTo, build_message, Numbered, Reply
<1>4. docNum \in Nat /\ docNum <= docNum
  BY Queues
<1>5. PICK k \in Nat : k = m.num
  BY <1>3, NumberedNum
<1>6. PICK after \in [Nat -> Places] : after = [place EXCEPT ![k] = r]
  BY DEF Places
<1>7. k < docNum /\ place[k] = p
  BY <1>1, <1>2, <1>3, <1>5 DEF InPlace, InHands
<1>8. HoldsOnce(Append(toSink[w], m), docNum, after, r)
  <2>1. place[m.num] # r
    BY <1>5, <1>7
  <2> HIDE DEF m, r
  <2> QED BY <1>1, <1>3, <1>4, <1>5, <1>6, <1>7, <2>1, PutLast, Queues
          DEF InPlace, InReplies, r
<1>9. /\ \A v \in Workers : HoldsOnce(toWorker[v], docNum, after, <<"queue", v>>)
      /\ \A v \in Workers : HoldsOnce(toSink[v], docNum, after, <<"reply", v>>)
      /\ HoldsOnce(written, docNum, after, <<"output", Source>>)
      /\ \A v \in Workers \ {w} : wPc[v] = "busy" =>
           wMsg[v].num < docNum /\ after[wMsg[v].num] = <<"hand", v>>
      /\ \A n \in DOMAIN unwritten : n < docNum /\ after[n] = <<"waiting", Source>>
  <2>1. /\ NotFrom(place, k, <<"output", Source>>) /\ NotFrom(place, k, <<"waiting", Source>>)
        /\ \A v \in Workers : NotFrom(place, k, <<"reply", v>>) /\ NotFrom(place, k, <<"queue", v>>)
        /\ \A v \in Workers \ {w} : NotFrom(place, k, <<"hand", v>>)
    BY <1>7 DEF NotFrom
  <2>2. Stays(place, k, docNum, after)
    BY <1>1, <1>4, <1>6, OthersStay
  <2> QED BY <2>1, <2>2 DEF Stays
<1>10. /\ \A v \in Workers : toSink'[v] = IF v = w THEN Append(toSink[w], m) ELSE toSink[v]
       /\ \A v \in Workers : v # w => wMsg'[v] = wMsg[v] /\ wPc'[v] = wPc[v]
       /\ wPc'[w] # "busy"
  BY <1>2 DEF TypeOK
<1>11. InReplies(after)'
  BY <1>2, <1>8, <1>9, <1>10 DEF InReplies
<1>12. InHands(after)'
  BY <1>2, <1>9, <1>10 DEF InHands
<1>13. InQueues(after)' /\ InOutput(after)' /\ InMap(after)'
  BY <1>2, <1>9 DEF InQueues, InOutput, InMap
<1> QED BY <1>11, <1>12, <1>13 DEF OnePlace, InPlace

(* The first reply in a pipe is to a document that has been sent, and that *)
(* the sink has not received before.                                       *)
LEMMA FirstReply ==
  ASSUME TypeOK, NEW place \in [Nat -> Places], InPlace(place),
         NEW w \in Workers, toSink[w] # <<>>
  PROVE  /\ Head(toSink[w]) = toSink[w][1] /\ 1 \in 1..Len(toSink[w])
         /\ Head(toSink[w]).num \in Nat /\ Head(toSink[w]).num < docNum
         /\ place[Head(toSink[w]).num] = <<"reply", w>>
         /\ Head(toSink[w]).num \notin DOMAIN unwritten
         /\ \A i \in 1..Len(written) : written[i].num # Head(toSink[w]).num
<1>1. toSink[w] \in Seq(Numbered) /\ docNum \in Nat
  BY Queues
<1>2. Head(toSink[w]) = toSink[w][1] /\ 1 \in 1..Len(toSink[w])
  BY <1>1
<1>3. HoldsOnce(toSink[w], docNum, place, <<"reply", w>>)
  BY DEF InPlace, InReplies
<1>4. /\ toSink[w][1].num \in Nat /\ toSink[w][1].num < docNum
      /\ place[toSink[w][1].num] = <<"reply", w>>
  BY <1>1, <1>2, <1>3, NumberedNum, ElementOfSeq DEF HoldsOnce
<1>5. toSink[w][1].num \notin DOMAIN unwritten
  BY <1>4 DEF InPlace, InMap
<1>6. \A i \in 1..Len(written) : written[i].num # toSink[w][1].num
  BY <1>4 DEF InPlace, InOutput, HoldsOnce
<1> QED BY <1>2, <1>4, <1>5, <1>6

(* The sink receives a reply, which comes from a worker.                   *)
LEMMA PlaceReceive ==
  ASSUME TypeOK, OnePlace, Announcement,
         NEW q \in Workers \cup {Source}, SinkRecvDocument(q)
  PROVE  OnePlace' /\ q \in Workers
<1>1. PICK place \in [Nat -> Places] : InPlace(place)
  BY DEF OnePlace
<1> DEFINE m == Head(toSink[q])
           p == <<"reply", q>>
<1>2. /\ toSink[q] # <<>> /\ m.type = "DOCUMENT"
      /\ toSink' = [toSink EXCEPT ![q] = Tail(@)]
      /\ UNCHANGED <<docNum, toWorker, wPc, wMsg>>
      /\ PreserveOrder => unwritten' = Emplace(unwritten, m.num, m.doc) /\ written' = written
      /\ ~PreserveOrder => written' = Append(written, m) /\ unwritten' = unwritten
  BY DEF SinkRecvDocument, SinkStep, sourceVars, workerVars
<1>3. q \in Workers
  <2>1. q = Source => FALSE
    <3>1. toSink[q] \in Seq(Numbered)
      BY Queues
    <3>2. m = toSink[q][1] /\ 1 \in 1..Len(toSink[q])
      BY <1>2, <3>1
    <3> QED BY <1>2, <3>2 DEF Announcement
  <2> QED BY <2>1
<1>4. /\ m = toSink[q][1] /\ 1 \in 1..Len(toSink[q])
      /\ m.num \in Nat /\ m.num < docNum /\ place[m.num] = p
      /\ m.num \notin DOMAIN unwritten
  BY <1>1, <1>2, <1>3, FirstReply
<1>5. docNum \in Nat /\ docNum <= docNum
  BY Queues
<1>6. PICK k \in Nat : k = m.num
  BY <1>4
<1>7. m \in Numbered
  BY <1>3, <1>4, Queues, ElementOfSeq
<1>8. \A v \in Workers : toSink'[v] = IF v = q THEN Tail(toSink[q]) ELSE toSink[v]
  BY <1>2, <1>3 DEF TypeOK
<1>9. ASSUME NEW r, NEW after, after = [place EXCEPT ![k] = r]
      PROVE  /\ InReplies(after)' /\ InQueues(after)' /\ InHands(after)'
             /\ HoldsOnce(written, docNum, after, <<"output", Source>>)
             /\ \A n \in DOMAIN unwritten : n < docNum /\ after[n] = <<"waiting", Source>>
  <2>1. /\ NotFrom(place, k, <<"output", Source>>) /\ NotFrom(place, k, <<"waiting", Source>>)
        /\ \A v \in Workers : NotFrom(place, k, <<"queue", v>>) /\ NotFrom(place, k, <<"hand", v>>)
        /\ \A v \in Workers \ {q} : NotFrom(place, k, <<"reply", v>>)
    <3>1. place[k] = <<"reply", q>>
      BY <1>4, <1>6
    <3> QED BY <3>1 DEF NotFrom
  <2>2. Stays(place, k, docNum, after)
    BY <1>1, <1>5, <1>9, OthersStay
  <2>3. /\ HoldsOnce(written, docNum, after, <<"output", Source>>)
        /\ \A n \in DOMAIN unwritten : n < docNum /\ after[n] = <<"waiting", Source>>
    BY <2>1, <2>2 DEF Stays
  <2>4. InQueues(after)' /\ InHands(after)'
    BY <1>2, <2>1, <2>2 DEF Stays, InQueues, InHands
  <2>5. HoldsOnce(Tail(toSink[q]), docNum, after, p)
    <3>1. HoldsOnce(toSink[q], docNum, place, p) /\ toSink[q] \in Seq(Numbered)
      BY <1>1, <1>3, Queues DEF InPlace, InReplies
    <3>2. after = [place EXCEPT ![toSink[q][1].num] = r]
      BY <1>4, <1>6, <1>9
    <3>3. toSink[q] # <<>>
      BY <1>2
    <3> HIDE DEF p
    <3> QED BY <1>5, <3>1, <3>2, <3>3, TakeFirst
  <2>6. InReplies(after)'
    <3> SUFFICES ASSUME NEW v \in Workers
                 PROVE  HoldsOnce(toSink'[v], docNum, after, <<"reply", v>>)
      BY <1>2 DEF InReplies
    <3> QED BY <1>8, <2>1, <2>2, <2>5 DEF Stays
  <2> QED BY <2>3, <2>4, <2>6
<1>10. CASE PreserveOrder
  <2> DEFINE r == <<"waiting", Source>>
  <2>1. PICK after \in [Nat -> Places] : after = [place EXCEPT ![k] = r]
    BY DEF Places
  <2>2. /\ InReplies(after)' /\ InQueues(after)' /\ InHands(after)'
        /\ HoldsOnce(written, docNum, after, <<"output", Source>>)
        /\ \A n \in DOMAIN unwritten : n < docNum /\ after[n] = <<"waiting", Source>>
    BY <1>9, <2>1
  <2>3. DOMAIN unwritten' = DOMAIN unwritten \cup {k}
    <3>1. unwritten' = Emplace(unwritten, k, m.doc)
      BY <1>2, <1>6, <1>10
    <3>2. DOMAIN Emplace(unwritten, k, m.doc) = DOMAIN unwritten \cup {k}
      BY EmplaceEntries, Zenon
    <3> QED BY <3>1, <3>2
  <2>4. after[k] = r /\ k < docNum
    BY <1>4, <1>6, <2>1
  <2>5. InMap(after)'
    BY <1>2, <2>2, <2>3, <2>4 DEF InMap
  <2>6. InOutput(after)'
    BY <1>2, <1>10, <2>2 DEF InOutput
  <2> QED BY <1>3, <2>2, <2>5, <2>6 DEF OnePlace, InPlace
<1>11. CASE ~PreserveOrder
  <2> DEFINE r == <<"output", Source>>
  <2>1. PICK after \in [Nat -> Places] : after = [place EXCEPT ![k] = r]
    BY DEF Places
  <2>2. /\ InReplies(after)' /\ InQueues(after)' /\ InHands(after)'
        /\ \A n \in DOMAIN unwritten : n < docNum /\ after[n] = <<"waiting", Source>>
    BY <1>9, <2>1
  <2>3. InMap(after)'
    BY <1>2, <1>11, <2>2 DEF InMap
  <2>4. HoldsOnce(Append(written, m), docNum, after, r)
    <3>1. HoldsOnce(written, docNum, place, r) /\ written \in Seq(Numbered)
      BY <1>1, Queues DEF InPlace, InOutput
    <3>2. place[m.num] # r
      BY <1>4
    <3> HIDE DEF m, r
    <3> QED BY <1>4, <1>5, <1>6, <1>7, <2>1, <3>1, <3>2, PutLast
  <2>5. InOutput(after)'
    BY <1>2, <1>11, <2>4 DEF InOutput
  <2> QED BY <1>3, <2>2, <2>3, <2>5 DEF OnePlace, InPlace
<1> QED BY <1>10, <1>11

(* The flush loop writes a document that was waiting.                      *)
LEMMA PlaceFlush ==
  ASSUME TypeOK, OnePlace, SinkFlush
  PROVE  OnePlace'
<1>1. PICK place \in [Nat -> Places] : InPlace(place)
  BY DEF OnePlace
<1> DEFINE m == build_message("DOCUMENT", ndocsWritten, unwritten[ndocsWritten])
           p == <<"waiting", Source>>
           r == <<"output", Source>>
<1>2. /\ ndocsWritten \in DOMAIN unwritten
      /\ written' = Append(written, m)
      /\ unwritten' = Erase(unwritten, ndocsWritten)
      /\ UNCHANGED <<docNum, toWorker, toSink, wPc, wMsg>>
  BY DEF SinkFlush, NextToWrite, SinkStep, sourceVars, workerVars
<1>3. PICK k \in Nat : k = ndocsWritten
  BY DEF TypeOK
<1>4. PICK after \in [Nat -> Places] : after = [place EXCEPT ![k] = r]
  BY DEF Places
<1>5. m \in Numbered /\ m.num = k
  <2>1. unwritten[ndocsWritten] \in Result
    BY <1>2 DEF TypeOK
  <2> QED BY <1>3, <2>1 DEF build_message, Numbered, Reply
<1>6. docNum \in Nat /\ docNum <= docNum
  BY Queues
<1>7. k < docNum /\ place[k] = p
  BY <1>1, <1>2, <1>3 DEF InPlace, InMap
<1>8. HoldsOnce(Append(written, m), docNum, after, r)
  <2>1. HoldsOnce(written, docNum, place, r) /\ written \in Seq(Numbered)
    BY <1>1, Queues DEF InPlace, InOutput
  <2>2. place[m.num] # r
    BY <1>5, <1>7
  <2> HIDE DEF m, r
  <2> QED BY <1>4, <1>5, <1>6, <1>7, <2>1, <2>2, PutLast
<1>9. Stays(place, k, docNum, after)
  BY <1>1, <1>4, <1>6, OthersStay
<1>10. \A v \in Workers : /\ NotFrom(place, k, <<"queue", v>>) /\ NotFrom(place, k, <<"hand", v>>)
                          /\ NotFrom(place, k, <<"reply", v>>)
  BY <1>7 DEF NotFrom
<1>11. InQueues(after)' /\ InHands(after)' /\ InReplies(after)'
  BY <1>2, <1>9, <1>10 DEF Stays, InQueues, InHands, InReplies
<1>12. InMap(after)'
  <2>1. DOMAIN unwritten' = DOMAIN unwritten \ {k}
    BY <1>2, <1>3, EraseEntries
  <2> QED BY <1>2, <1>9, <2>1 DEF Stays, InMap
<1>13. InOutput(after)'
  BY <1>2, <1>8 DEF InOutput
<1> QED BY <1>11, <1>12, <1>13 DEF OnePlace, InPlace

(* The announcement comes through the source's own pipe.                   *)
LEMMA CountFromSource ==
  ASSUME TypeOK, Announcement, NEW q \in Workers \cup {Source}, SinkRecvCount(q)
  PROVE  q = Source /\ Head(toSink[q]).num = docNum
<1>1. toSink[q] # <<>> /\ Head(toSink[q]).type = "DOCUMENT_COUNT" /\ toSink[q] \in Seq(Numbered)
  BY Queues DEF SinkRecvCount
<1>2. Head(toSink[q]) = toSink[q][1] /\ 1 \in 1..Len(toSink[q])
  BY <1>1
<1> QED BY <1>1, <1>2 DEF Announcement

(* No step of dr-dist brings a document to two places.                     *)
LEMMA PlaceStep == TypeOK /\ OnePlace /\ Announcement /\ [Next]_vars => OnePlace'
<1> SUFFICES ASSUME TypeOK, OnePlace, Announcement, [Next]_vars
             PROVE  OnePlace'
  OBVIOUS
<1> USE DEF SourceStep, SinkStep, sourceVars, sinkVars, counters, results, workerVars, netVars
<1>1. CASE \/ SourceWait \/ SourceSetup \/ SourceSetupFails \/ SourceEndOfInput
           \/ SourceSendFails \/ SourceSendCountFails \/ SourceClose
  <2>1. /\ UNCHANGED <<docNum, unwritten, written, toWorker, toSink>>
        /\ UNCHANGED <<wPc, wMsg>>
    BY <1>1 DEF SourceWait, SourceSetup, SourceSetupFails, SourceEndOfInput, SourceSendFails,
                SourceSendCountFails, SourceClose
  <2> QED BY <2>1, PlaceUnmoved
<1>2. CASE SourceSendCount
  <2>1. /\ UNCHANGED <<docNum, unwritten, written, toWorker, wPc, wMsg>>
        /\ \A w \in Workers : toSink'[w] = toSink[w]
    BY <1>2, DrDistAssumption DEF SourceSendCount, TypeOK
  <2> QED BY <2>1, PlaceUnmoved
<1>3. CASE \/ SinkSetup \/ SinkSetupFails \/ SinkRecvFails \/ SinkFlushEnds
           \/ SinkLoopEnds \/ SinkPublish \/ SinkPublishFails \/ SinkClose
  <2>1. /\ UNCHANGED <<docNum, unwritten, written, toWorker, toSink>>
        /\ UNCHANGED <<wPc, wMsg>>
    BY <1>3 DEF SinkSetup, SinkSetupFails, SinkRecvFails, SinkFlushEnds, SinkLoopEnds,
                SinkPublish, SinkPublishFails, SinkClose
  <2> QED BY <2>1, PlaceUnmoved
<1>4. ASSUME NEW q \in Workers \cup {Source}, SinkRecvCount(q)
      PROVE  OnePlace'
  <2>1. q = Source
    BY <1>4, CountFromSource
  <2>2. /\ UNCHANGED <<docNum, unwritten, written, toWorker, wPc, wMsg>>
        /\ \A w \in Workers : toSink'[w] = toSink[w]
    BY <1>4, <2>1, DrDistAssumption DEF SinkRecvCount, TypeOK
  <2> QED BY <2>2, PlaceUnmoved
<1>5. CASE MainExits \/ Exited \/ UNCHANGED vars
  <2>1. /\ UNCHANGED <<docNum, unwritten, written, toWorker, toSink>>
        /\ UNCHANGED <<wPc, wMsg>>
    BY <1>5 DEF MainExits, Exited, vars
  <2> QED BY <2>1, PlaceUnmoved
<1>6. ASSUME NEW w \in Workers, WorkerStart(w) \/ SubscriptionArrives(w)
      PROVE  OnePlace'
  <2>1. /\ UNCHANGED <<docNum, unwritten, written, toWorker, toSink>>
        /\ \A v \in Workers : wPc'[v] = "busy" => wPc[v] = "busy" /\ wMsg'[v] = wMsg[v]
    BY <1>6 DEF WorkerStart, SubscriptionArrives, TypeOK
  <2> QED BY <2>1, PlaceUnmoved
<1>7. ASSUME NEW w \in Workers, WorkerTerminate(w) \/ WorkerDies(w)
      PROVE  OnePlace'
  <2>1. /\ UNCHANGED <<docNum, unwritten, written>>
        /\ toWorker' = [toWorker EXCEPT ![w] = <<>>]
        /\ wPc' \in {[wPc EXCEPT ![w] = "done"], [wPc EXCEPT ![w] = "dead"]}
        /\ \A v \in Workers : v # w => wMsg'[v] = wMsg[v]
    BY <1>7 DEF WorkerTerminate, WorkerDies, TypeOK
  <2>2. /\ \A v \in Workers : toWorker'[v] \in {toWorker[v], <<>>}
        /\ \A v \in Workers : wPc'[v] = "busy" => wPc[v] = "busy" /\ wMsg'[v] = wMsg[v]
    BY <2>1 DEF TypeOK
  <2>3. PICK k \in 0..Len(toSink[w]) : toSink' = [toSink EXCEPT ![w] = SubSeq(@, 1, k)]
    <3>1. CASE WorkerTerminate(w)
      <4>1. toSink' = [toSink EXCEPT ![w] = SubSeq(@, 1, Len(toSink[w]))]
        BY <3>1, WholePrefix, Queues DEF WorkerTerminate, TypeOK
      <4> QED BY <4>1, WholePrefix, Queues
    <3>2. CASE WorkerDies(w)
      BY <3>2 DEF WorkerDies
    <3> QED BY <1>7, <3>1, <3>2
  <2>4. \A v \in Workers : v # w => toSink'[v] = SubSeq(toSink[v], 1, Len(toSink[v]))
    BY <2>3, WholePrefix, Queues DEF TypeOK
  <2>5. toSink'[w] = SubSeq(toSink[w], 1, k)
    BY <2>3 DEF TypeOK
  <2>6. \A v \in Workers : \E j \in 0..Len(toSink[v]) : toSink'[v] = SubSeq(toSink[v], 1, j)
    <3> TAKE v \in Workers
    <3>1. CASE v = w
      BY <2>5, <3>1
    <3>2. CASE v # w
      BY <2>4, <3>2, WholePrefix, Queues
    <3> QED BY <3>1, <3>2
  <2> QED BY <2>1, <2>2, <2>6, PlaceFrame
<1>8. CASE SourceNext \/ ServerFails \/ SinkNext
  BY <1>1, <1>2, <1>3, <1>4, <1>8, PlaceSend, PlaceReceive, PlaceFlush
     DEF SourceNext, SinkNext, ServerFails
<1>9. ASSUME NEW w \in Workers, WorkerNext(w) \/ WorkerFails(w)
      PROVE  OnePlace'
  BY <1>6, <1>7, <1>9, PlaceTake, PlaceReply DEF WorkerNext, WorkerRejects, WorkerFails
<1> QED BY <1>5, <1>8, <1>9 DEF Next

-----------------------------------------------------------------------------
(* The announcement and the pipes into the sink. *)

(* At the start the pipes are empty and no count is known.                 *)
LEMMA AnnouncementInit == Init => Announcement
  BY DrDistAssumption DEF Init, Announcement

(* Steps after which the pipes hold nothing new and the source has not     *)
(* started again.                                                          *)
LEMMA AnnouncementFrame ==
  ASSUME Announcement, UNCHANGED <<docNum, ndocs, ndocsKnown>>,
         \A q \in Workers \cup {Source} : \A i \in 1..Len(toSink'[q]) :
           \E j \in 1..Len(toSink[q]) : toSink'[q][i] = toSink[q][j],
         toSink'[Source] \in {toSink[Source], <<>>},
         srcPc \in {"close", "done"} => srcPc' \in {"close", "done"}
  PROVE  Announcement'
  BY DEF Announcement

(* The source sends one count, the number of documents sent, at its end.   *)
LEMMA AnnouncementSource ==
  TypeOK /\ Announcement
  /\ (SourceNext \/ SourceSetupFails \/ SourceSendFails \/ SourceSendCountFails)
    => Announcement'
<1> SUFFICES ASSUME TypeOK, Announcement,
                    SourceNext \/ SourceSetupFails \/ SourceSendFails \/ SourceSendCountFails
             PROVE  Announcement'
  OBVIOUS
<1> USE DEF SourceStep, sinkVars, counters, results, workerVars
<1>1. CASE \/ SourceWait \/ SourceSetup \/ SourceSetupFails \/ SourceEndOfInput
           \/ SourceSendFails \/ SourceSendCountFails \/ SourceClose
  <2>1. /\ UNCHANGED <<docNum, ndocs, ndocsKnown, toSink>>
        /\ srcPc \in {"close", "done"} => srcPc' \in {"close", "done"}
    BY <1>1 DEF SourceWait, SourceSetup, SourceSetupFails, SourceEndOfInput, SourceSendFails,
                SourceSendCountFails, SourceClose
  <2> QED BY <2>1, AnnouncementFrame
<1>2. ASSUME NEW w \in Workers, SourceSendDocument(w)
      PROVE  Announcement'
  <2>1. srcPc = "read" /\ UNCHANGED <<ndocs, ndocsKnown, toSink, srcPc>>
    BY <1>2 DEF SourceSendDocument
  <2>2. toSink[Source] = <<>> /\ ~ndocsKnown
    BY <2>1 DEF Announcement
  <2> QED BY <2>1, <2>2 DEF Announcement
<1>3. CASE SourceSendCount
  <2> DEFINE m == build_message("DOCUMENT_COUNT", Announced, EmptyDoc)
  <2>1. /\ srcPc = "count" /\ srcPc' = "close"
        /\ UNCHANGED <<docNum, ndocs, ndocsKnown>>
        /\ toSink' = [toSink EXCEPT ![Source] = Append(@, m)]
    BY <1>3 DEF SourceSendCount
  <2>2. m.type = "DOCUMENT_COUNT" /\ m.num = docNum
    BY DEF build_message, Announced
  <2>3. toSink[Source] = <<>> /\ ~ndocsKnown
    BY <2>1 DEF Announcement
  <2>4. \A w \in Workers : toSink'[w] = toSink[w]
    BY <2>1, DrDistAssumption DEF TypeOK
  <2>5. toSink'[Source] = <<m>>
    BY <2>1, <2>3 DEF TypeOK
  <2> HIDE DEF m
  <2> QED BY <2>1, <2>2, <2>3, <2>4, <2>5 DEF Announcement
<1> QED BY <1>1, <1>2, <1>3 DEF SourceNext

(* What is left of a pipe after its first message is taken.                *)
LEMMA TakenPipe ==
  ASSUME TypeOK, NEW q \in Workers \cup {Source}, toSink[q] # <<>>,
         toSink' = [toSink EXCEPT ![q] = Tail(@)]
  PROVE  \A p \in Workers \cup {Source} : \A i \in 1..Len(toSink'[p]) :
           \E j \in 1..Len(toSink[p]) : toSink'[p][i] = toSink[p][j]
<1> SUFFICES ASSUME NEW p \in Workers \cup {Source}, NEW i \in 1..Len(toSink'[p])
             PROVE  \E j \in 1..Len(toSink[p]) : toSink'[p][i] = toSink[p][j]
  OBVIOUS
<1>1. toSink[q] \in Seq(Numbered)
  BY Queues
<1>2. toSink'[p] = IF p = q THEN Tail(toSink[q]) ELSE toSink[p]
  BY DEF TypeOK
<1>3. CASE p = q
  BY <1>1, <1>2, <1>3, Dequeue
<1>4. CASE p # q
  BY <1>2, <1>4
<1> QED BY <1>3, <1>4

(* The sink learns that count, and puts nothing into a pipe.               *)
LEMMA AnnouncementSink ==
  TypeOK /\ Announcement
  /\ (SinkNext \/ SinkSetupFails \/ SinkRecvFails \/ SinkPublishFails)
    => Announcement'
<1> SUFFICES ASSUME TypeOK, Announcement,
                    SinkNext \/ SinkSetupFails \/ SinkRecvFails \/ SinkPublishFails
             PROVE  Announcement'
  OBVIOUS
<1> USE DEF SinkStep, sourceVars, counters, results, workerVars
<1>1. CASE \/ SinkSetup \/ SinkSetupFails \/ SinkRecvFails \/ SinkFlushEnds \/ SinkFlush
           \/ SinkLoopEnds \/ SinkPublish \/ SinkPublishFails \/ SinkClose
  <2>1. UNCHANGED <<docNum, ndocs, ndocsKnown, toSink, srcPc>>
    BY <1>1 DEF SinkSetup, SinkSetupFails, SinkRecvFails, SinkFlushEnds, SinkFlush, SinkLoopEnds,
                SinkPublish, SinkPublishFails, SinkClose
  <2> QED BY <2>1, AnnouncementFrame
<1>2. ASSUME NEW q \in Workers \cup {Source}, SinkRecvDocument(q)
      PROVE  Announcement'
  <2>1. /\ UNCHANGED <<docNum, ndocs, ndocsKnown, srcPc>>
        /\ toSink[q] # <<>> /\ toSink' = [toSink EXCEPT ![q] = Tail(@)]
    BY <1>2 DEF SinkRecvDocument
  <2>2. toSink'[Source] \in {toSink[Source], <<>>}
    <3>1. CASE q = Source
      <4>1. toSink[Source] \in Seq(Numbered) /\ Len(toSink[Source]) = 1
        BY <2>1, <3>1, Queues DEF Announcement
      <4>2. Tail(toSink[Source]) = <<>>
        BY <4>1, TailOfOne
      <4> QED BY <2>1, <3>1, <4>2 DEF TypeOK
    <3>2. CASE q # Source
      BY <2>1, <3>2 DEF TypeOK
    <3> QED BY <3>1, <3>2
  <2> QED BY <2>1, <2>2, TakenPipe, AnnouncementFrame
<1>3. ASSUME NEW q \in Workers \cup {Source}, SinkRecvCount(q)
      PROVE  Announcement'
  <2>1. q = Source /\ Head(toSink[q]).num = docNum
    BY <1>3, CountFromSource
  <2>2. /\ UNCHANGED <<docNum, srcPc>>
        /\ ndocs' = docNum
        /\ toSink[q] # <<>> /\ toSink' = [toSink EXCEPT ![q] = Tail(@)]
    BY <1>3, <2>1 DEF SinkRecvCount
  <2>3. srcPc \in {"close", "done"}
    BY <2>1, <2>2 DEF Announcement
  <2>4. \A p \in Workers \cup {Source} : \A i \in 1..Len(toSink'[p]) :
           \E j \in 1..Len(toSink[p]) : toSink'[p][i] = toSink[p][j]
    BY <2>2, TakenPipe
  <2>5. toSink'[Source] = <<>>
    <3>1. toSink[Source] \in Seq(Numbered) /\ Len(toSink[Source]) = 1
      BY <2>1, <2>2, Queues DEF Announcement
    <3>2. Tail(toSink[Source]) = <<>>
      BY <3>1, TailOfOne
    <3> QED BY <2>1, <2>2, <3>2 DEF TypeOK
  <2> QED BY <2>2, <2>3, <2>4, <2>5 DEF Announcement
<1> QED BY <1>1, <1>2, <1>3 DEF SinkNext

(* A worker sends replies only.                                            *)
LEMMA AnnouncementWorker ==
  ASSUME TypeOK, Announcement, NEW w \in Workers, WorkerNext(w) \/ WorkerFails(w)
  PROVE  Announcement'
<1> USE DEF sourceVars, sinkVars, counters, results, netVars
<1>0. Source # w /\ toSink[w] \in Seq(Numbered)
  BY DrDistAssumption, Queues
<1>1. CASE \/ WorkerStart(w) \/ SubscriptionArrives(w) \/ WorkerRecvDocument(w)
           \/ WorkerTerminate(w)
  <2>1. UNCHANGED <<docNum, ndocs, ndocsKnown, toSink, srcPc>>
    BY <1>1 DEF WorkerStart, SubscriptionArrives, WorkerRecvDocument, WorkerTerminate
  <2> QED BY <2>1, AnnouncementFrame
<1>2. CASE WorkerReply(w)
  <2> DEFINE m == ReplyTo(wMsg[w])
  <2>1. /\ UNCHANGED <<docNum, ndocs, ndocsKnown, srcPc>>
        /\ toSink' = [toSink EXCEPT ![w] = Append(@, m)]
        /\ m.type = "DOCUMENT"
    BY <1>2 DEF WorkerReply, ReplyTo, build_message
  <2> HIDE DEF m
  <2>2. toSink'[w] = Append(toSink[w], m) /\ \A v \in Workers : v # w => toSink'[v] = toSink[v]
    BY <2>1 DEF TypeOK
  <2>3. toSink'[Source] = toSink[Source]
    BY <1>0, <2>1 DEF TypeOK
  <2>4. \A i \in 1..Len(Append(toSink[w], m)) : Append(toSink[w], m)[i].type = "DOCUMENT"
    <3>1. /\ Len(Append(toSink[w], m)) = Len(toSink[w]) + 1
          /\ \A i \in 1..Len(toSink[w]) : Append(toSink[w], m)[i] = toSink[w][i]
          /\ Append(toSink[w], m)[Len(toSink[w]) + 1] = m
      BY <1>0
    <3>2. \A i \in 1..(Len(toSink[w]) + 1) : i \in 1..Len(toSink[w]) \/ i = Len(toSink[w]) + 1
      BY <1>0
    <3> QED BY <2>1, <3>1, <3>2 DEF Announcement
  <2>5. \A v \in Workers : \A i \in 1..Len(toSink'[v]) : toSink'[v][i].type = "DOCUMENT"
    <3> TAKE v \in Workers
    <3>1. CASE v = w
      BY <2>2, <2>4, <3>1
    <3>2. CASE v # w
      BY <2>2, <3>2 DEF Announcement
    <3> QED BY <3>1, <3>2
  <2>6. /\ docNum' = docNum /\ ndocs' = ndocs /\ ndocsKnown' = ndocsKnown /\ srcPc' = srcPc
    BY <2>1
  <2> QED BY <2>3, <2>5, <2>6 DEF Announcement
<1>3. CASE WorkerDies(w)
  <2>1. /\ UNCHANGED <<docNum, ndocs, ndocsKnown, srcPc>>
    BY <1>3 DEF WorkerDies
  <2>2. PICK k \in 0..Len(toSink[w]) : toSink' = [toSink EXCEPT ![w] = SubSeq(@, 1, k)]
    BY <1>3 DEF WorkerDies
  <2>3. /\ toSink'[w] = SubSeq(toSink[w], 1, k)
        /\ \A q \in Workers \cup {Source} : q # w => toSink'[q] = toSink[q]
    BY <2>2 DEF TypeOK
  <2>4. k \in Nat /\ 1..k \subseteq 1..Len(toSink[w])
    BY <1>0
  <2>5. \A i \in 1..Len(toSink'[w]) : i \in 1..Len(toSink[w]) /\ toSink'[w][i] = toSink[w][i]
    BY <1>0, <2>3, <2>4, Prefix
  <2> QED BY <1>0, <2>1, <2>3, <2>5, AnnouncementFrame
<1> QED BY <1>1, <1>2, <1>3 DEF WorkerNext, WorkerRejects, WorkerFails

(* No step makes the announcement wrong.                                   *)
LEMMA AnnouncementStep == TypeOK /\ Announcement /\ [Next]_vars => Announcement'
<1> SUFFICES ASSUME TypeOK, Announcement, [Next]_vars
             PROVE  Announcement'
  OBVIOUS
<1>1. CASE MainExits \/ Exited \/ UNCHANGED vars
  <2>1. UNCHANGED <<docNum, ndocs, ndocsKnown, toSink, srcPc>>
    BY <1>1 DEF MainExits, Exited, vars, sourceVars, sinkVars, counters, results, netVars, workerVars
  <2> QED BY <2>1, AnnouncementFrame
<1> QED BY <1>1, AnnouncementSource, AnnouncementSink, AnnouncementWorker DEF Next, ServerFails

-----------------------------------------------------------------------------
(* The counters of the sink. *)

(* At the start nothing is received or written.                            *)
LEMMA BookkeepingInit == Init => Bookkeeping
  BY FS_EmptySet DEF Init, Bookkeeping

(* Steps that neither receive nor write nor enter the flush loop.          *)
LEMMA BookkeepingFrame ==
  ASSUME Bookkeeping, UNCHANGED <<unwritten, written, ndocsReceived, ndocsWritten>>,
         snkPc' = snkPc \/ (snkPc # "flush" /\ snkPc' # "flush")
  PROVE  Bookkeeping'
  BY DEF Bookkeeping

(* A result that is received was neither written nor waiting before.       *)
LEMMA BookkeepingReceive ==
  ASSUME TypeOK, OnePlace, Announcement, Bookkeeping,
         NEW q \in Workers \cup {Source}, SinkRecvDocument(q)
  PROVE  Bookkeeping'
<1> DEFINE m == Head(toSink[q])
<1>1. /\ toSink[q] # <<>> /\ snkPc = "recv"
      /\ ndocsReceived' = ndocsReceived + 1
      /\ PreserveOrder => /\ unwritten' = Emplace(unwritten, m.num, m.doc) /\ written' = written
                          /\ ndocsWritten' = ndocsWritten /\ snkPc' = "flush"
      /\ ~PreserveOrder => /\ written' = Append(written, m) /\ unwritten' = unwritten
                           /\ ndocsWritten' = ndocsWritten + 1 /\ snkPc' = "recv"
  BY DEF SinkRecvDocument, SinkStep
<1>2. q \in Workers
  BY PlaceReceive
<1>3. PICK place \in [Nat -> Places] : InPlace(place)
  BY DEF OnePlace
<1>4. m.num \notin DOMAIN unwritten
  BY <1>1, <1>2, <1>3, FirstReply
<1>5. /\ Len(written) = ndocsWritten /\ IsFiniteSet(DOMAIN unwritten)
      /\ ndocsReceived = ndocsWritten + Cardinality(DOMAIN unwritten)
      /\ ~PreserveOrder => DOMAIN unwritten = {}
  BY DEF Bookkeeping
<1>6. ndocsWritten \in Nat /\ Cardinality(DOMAIN unwritten) \in Nat
  BY <1>5, FS_CardinalityType DEF TypeOK
<1>7. CASE PreserveOrder
  <2>1. DOMAIN Emplace(unwritten, m.num, m.doc) = DOMAIN unwritten \cup {m.num}
    BY EmplaceEntries, Zenon
  <2>2. DOMAIN unwritten' = DOMAIN unwritten \cup {m.num}
    BY <1>1, <1>7, <2>1
  <2>3. /\ IsFiniteSet(DOMAIN unwritten')
        /\ Cardinality(DOMAIN unwritten') = Cardinality(DOMAIN unwritten) + 1
    <3> HIDE DEF m
    <3>1. /\ IsFiniteSet(DOMAIN unwritten \cup {m.num})
          /\ Cardinality(DOMAIN unwritten \cup {m.num}) = Cardinality(DOMAIN unwritten) + 1
      BY <1>4, <1>5, FS_AddElement
    <3> QED BY <2>2, <3>1
  <2>4. /\ written' = written /\ ndocsWritten' = ndocsWritten /\ snkPc' = "flush"
    BY <1>1, <1>7
  <2>5. ndocsReceived' = ndocsWritten' + Cardinality(DOMAIN unwritten')
    BY <1>1, <1>5, <1>6, <2>3, <2>4
  <2> QED BY <1>5, <1>7, <2>3, <2>4, <2>5 DEF Bookkeeping
<1>8. CASE ~PreserveOrder
  <2>1. /\ written' = Append(written, m) /\ unwritten' = unwritten
        /\ ndocsWritten' = ndocsWritten + 1 /\ snkPc' = "recv"
    BY <1>1, <1>8
  <2>2. written \in Seq(Numbered)
    BY Queues
  <2>3. Len(Append(written, m)) = Len(written) + 1
    BY <2>2
  <2>4. Len(written') = ndocsWritten'
    BY <1>5, <2>1, <2>3
  <2>5. ndocsReceived' = ndocsWritten' + Cardinality(DOMAIN unwritten')
    BY <1>1, <1>5, <1>6, <2>1
  <2> QED BY <1>5, <1>8, <2>1, <2>4, <2>5 DEF Bookkeeping
<1> QED BY <1>7, <1>8

(* The flush loop moves a result from those that wait to those written.    *)
LEMMA BookkeepingFlush ==
  ASSUME TypeOK, Bookkeeping, SinkFlush
  PROVE  Bookkeeping'
<1> DEFINE m == build_message("DOCUMENT", ndocsWritten, unwritten[ndocsWritten])
<1>1. /\ ndocsWritten \in DOMAIN unwritten
      /\ written' = Append(written, m)
      /\ unwritten' = Erase(unwritten, ndocsWritten)
      /\ ndocsWritten' = ndocsWritten + 1 /\ ndocsReceived' = ndocsReceived
      /\ snkPc = "flush" /\ snkPc' = "flush"
  BY DEF SinkFlush, NextToWrite, SinkStep
<1>2. /\ Len(written) = ndocsWritten /\ IsFiniteSet(DOMAIN unwritten)
      /\ ndocsReceived = ndocsWritten + Cardinality(DOMAIN unwritten)
      /\ PreserveOrder
  BY <1>1 DEF Bookkeeping
<1>3. DOMAIN unwritten' = DOMAIN unwritten \ {ndocsWritten}
  BY <1>1, EraseEntries
<1>4. /\ IsFiniteSet(DOMAIN unwritten')
      /\ Cardinality(DOMAIN unwritten') = Cardinality(DOMAIN unwritten) - 1
  BY <1>1, <1>2, <1>3, FS_RemoveElement
<1>5. ndocsWritten \in Nat /\ Cardinality(DOMAIN unwritten) \in Nat /\ written \in Seq(Numbered)
  BY <1>2, FS_CardinalityType, Queues DEF TypeOK
<1>6. Len(Append(written, m)) = Len(written) + 1
  BY <1>5
<1>7. Len(written') = ndocsWritten'
  BY <1>1, <1>2, <1>6
<1>8. ndocsReceived' = ndocsWritten' + Cardinality(DOMAIN unwritten')
  BY <1>1, <1>2, <1>4, <1>5
<1> QED BY <1>1, <1>2, <1>4, <1>7, <1>8 DEF Bookkeeping

(* No step upsets the counters of the sink.                                *)
LEMMA BookkeepingStep ==
  TypeOK /\ OnePlace /\ Announcement /\ Bookkeeping /\ [Next]_vars => Bookkeeping'
<1> SUFFICES ASSUME TypeOK, OnePlace, Announcement, Bookkeeping, [Next]_vars
             PROVE  Bookkeeping'
  OBVIOUS
<1> USE DEF SourceStep, SinkStep, sourceVars, sinkVars, counters, results
<1>1. CASE SourceNext \/ SourceSetupFails \/ SourceSendFails \/ SourceSendCountFails
  <2>1. UNCHANGED <<unwritten, written, ndocsReceived, ndocsWritten, snkPc>>
    BY <1>1 DEF SourceNext, SourceWait, SourceSetup, SourceSetupFails, SourceEndOfInput,
                SourceSendDocument, SourceSendCount, SourceSendFails, SourceSendCountFails,
                SourceClose
  <2> QED BY <2>1, BookkeepingFrame
<1>2. CASE \/ SinkSetup \/ SinkSetupFails \/ SinkRecvFails
           \/ SinkLoopEnds \/ SinkPublish \/ SinkPublishFails \/ SinkClose
  <2>1. /\ UNCHANGED <<unwritten, written, ndocsReceived, ndocsWritten>>
        /\ snkPc # "flush" /\ snkPc' # "flush"
    BY <1>2 DEF SinkSetup, SinkSetupFails, SinkRecvFails, SinkLoopEnds,
                SinkPublish, SinkPublishFails, SinkClose
  <2> QED BY <2>1, BookkeepingFrame
<1>3. CASE SinkFlushEnds
  <2>1. /\ UNCHANGED <<unwritten, written, ndocsReceived, ndocsWritten>>
        /\ ndocsWritten \notin DOMAIN unwritten /\ snkPc' = "recv"
    BY <1>3 DEF SinkFlushEnds, NextToWrite
  <2> QED BY <2>1 DEF Bookkeeping
<1>4. ASSUME NEW q \in Workers \cup {Source}, SinkRecvCount(q)
      PROVE  Bookkeeping'
  <2>1. /\ UNCHANGED <<unwritten, written, ndocsReceived, ndocsWritten>>
        /\ snkPc = "recv" /\ snkPc' = "recv"
    BY <1>4 DEF SinkRecvCount
  <2> QED BY <2>1, BookkeepingFrame
<1>5. CASE MainExits \/ Exited \/ UNCHANGED vars
  <2>1. UNCHANGED <<unwritten, written, ndocsReceived, ndocsWritten, snkPc>>
    BY <1>5 DEF MainExits, Exited, vars
  <2> QED BY <2>1, BookkeepingFrame
<1>6. ASSUME NEW w \in Workers, WorkerNext(w) \/ WorkerFails(w)
      PROVE  Bookkeeping'
  <2>1. UNCHANGED <<unwritten, written, ndocsReceived, ndocsWritten, snkPc>>
    BY <1>6 DEF WorkerNext, WorkerRejects, WorkerFails, WorkerDies, WorkerStart,
                SubscriptionArrives, WorkerRecvDocument, WorkerReply, WorkerTerminate
  <2> QED BY <2>1, BookkeepingFrame
<1> QED BY <1>1, <1>2, <1>3, <1>4, <1>5, <1>6, BookkeepingReceive, BookkeepingFlush
        DEF Next, SinkNext, ServerFails

-----------------------------------------------------------------------------
(* What the threads report of the run. *)

(* At the start no thread has ended.                                       *)
LEMMA OutcomeInit == Init => Outcome
  BY DEF Init, Outcome

(* Steps after which the threads and their counters are as before.         *)
LEMMA OutcomeFrame ==
  ASSUME Outcome,
         UNCHANGED <<input, docNum, snkPc, snkOk, srcPc, srcOk, status,
                     ndocs, ndocsKnown, ndocsReceived>>
  PROVE  Outcome'
  BY DEF Outcome, AllReceived

(* The source reports success only when it has sent the whole input.       *)
LEMMA OutcomeSource ==
  TypeOK /\ Outcome
  /\ (SourceNext \/ SourceSetupFails \/ SourceSendFails \/ SourceSendCountFails)
    => Outcome'
<1> SUFFICES ASSUME TypeOK, Outcome,
                    SourceNext \/ SourceSetupFails \/ SourceSendFails \/ SourceSendCountFails
             PROVE  Outcome'
  OBVIOUS
<1> USE DEF SourceStep, sinkVars, counters, results
<1>1. UNCHANGED <<input, snkPc, snkOk, status, ndocs, ndocsKnown, ndocsReceived>>
  BY DEF SourceNext, SourceWait, SourceSetup, SourceSetupFails, SourceEndOfInput,
         SourceSendDocument, SourceSendCount, SourceSendFails, SourceSendCountFails, SourceClose
<1>2. srcPc # "done"
  BY DEF SourceNext, SourceWait, SourceSetup, SourceSetupFails, SourceEndOfInput,
         SourceSendDocument, SourceSendCount, SourceSendFails, SourceSendCountFails, SourceClose
<1>3. srcPc' \in {"count", "close", "done"} /\ srcOk' => docNum' = Len(input)
  <2>1. CASE SourceWait \/ SourceSetup \/ \E w \in Workers : SourceSendDocument(w)
    BY <2>1 DEF SourceWait, SourceSetup, SourceSendDocument
  <2>2. CASE SourceSetupFails \/ SourceSendFails \/ SourceSendCountFails
    BY <2>2 DEF SourceSetupFails, SourceSendFails, SourceSendCountFails
  <2>3. CASE SourceEndOfInput
    BY <2>3 DEF SourceEndOfInput
  <2>4. CASE SourceSendCount \/ SourceClose
    <3>1. srcPc \in {"count", "close"} /\ docNum' = docNum /\ (srcOk' => srcOk)
      BY <2>4 DEF SourceSendCount, SourceClose, TypeOK
    <3> QED BY <3>1 DEF Outcome
  <2> QED BY <2>1, <2>2, <2>3, <2>4 DEF SourceNext
<1> QED BY <1>1, <1>2, <1>3 DEF Outcome, AllReceived

(* The sink ends its loop only when it has received everything announced.  *)
LEMMA OutcomeSink ==
  TypeOK /\ Outcome
  /\ (SinkNext \/ SinkSetupFails \/ SinkRecvFails \/ SinkPublishFails)
    => Outcome'
<1> SUFFICES ASSUME TypeOK, Outcome,
                    SinkNext \/ SinkSetupFails \/ SinkRecvFails \/ SinkPublishFails
             PROVE  Outcome'
  OBVIOUS
<1> USE DEF SinkStep, sourceVars, counters, results
<1>1. UNCHANGED <<input, docNum, srcPc, srcOk, status>>
  BY DEF SinkNext, SinkSetup, SinkSetupFails, SinkRecvFails, SinkFlushEnds, SinkFlush,
         SinkLoopEnds, SinkPublish, SinkPublishFails, SinkClose, SinkRecvDocument, SinkRecvCount
<1>2. snkPc # "done"
  BY DEF SinkNext, SinkSetup, SinkSetupFails, SinkRecvFails, SinkFlushEnds, SinkFlush,
         SinkLoopEnds, SinkPublish, SinkPublishFails, SinkClose, SinkRecvDocument, SinkRecvCount
<1>3. /\ snkPc' \in {"publish", "close"} => AllReceived'
      /\ snkPc' = "done" /\ snkOk' => AllReceived'
  <2>1. CASE \/ SinkSetup \/ SinkFlush \/ SinkFlushEnds
             \/ \E q \in Workers \cup {Source} : SinkRecvDocument(q) \/ SinkRecvCount(q)
    <3>1. snkPc' \in {"recv", "flush"}
      BY <2>1 DEF SinkSetup, SinkFlush, SinkFlushEnds, SinkRecvDocument, SinkRecvCount
    <3> QED BY <3>1
  <2>2. CASE SinkSetupFails \/ SinkRecvFails
    <3>1. snkPc' = "done" /\ snkOk' = FALSE
      BY <2>2 DEF SinkSetupFails, SinkRecvFails
    <3> QED BY <3>1
  <2>3. CASE SinkLoopEnds
    BY <2>3 DEF SinkLoopEnds, SinkExpectsMore, AllReceived
  <2>4. CASE SinkPublish \/ SinkPublishFails \/ SinkClose
    <3>1. /\ snkPc \in {"publish", "close"}
          /\ UNCHANGED <<ndocs, ndocsKnown, ndocsReceived>>
      BY <2>4 DEF SinkPublish, SinkPublishFails, SinkClose
    <3> QED BY <3>1 DEF Outcome, AllReceived
  <2> QED BY <2>1, <2>2, <2>3, <2>4 DEF SinkNext
<1> QED BY <1>1, <1>2, <1>3 DEF Outcome

(* No step makes what the threads report wrong.                            *)
LEMMA OutcomeStep == TypeOK /\ Outcome /\ [Next]_vars => Outcome'
<1> SUFFICES ASSUME TypeOK, Outcome, [Next]_vars
             PROVE  Outcome'
  OBVIOUS
<1> USE DEF sourceVars, sinkVars, counters, results, workerVars
<1>1. CASE Exited \/ UNCHANGED vars
  <2>1. UNCHANGED <<input, docNum, snkPc, snkOk, srcPc, srcOk, status,
                    ndocs, ndocsKnown, ndocsReceived>>
    BY <1>1 DEF Exited, vars
  <2> QED BY <2>1, OutcomeFrame
<1>2. CASE MainExits
  <2>1. /\ UNCHANGED <<input, docNum, snkPc, snkOk, srcPc, srcOk,
                       ndocs, ndocsKnown, ndocsReceived>>
        /\ srcPc = "done" /\ snkPc = "done"
    BY <1>2 DEF MainExits
  <2> QED BY <2>1 DEF Outcome, AllReceived
<1>3. ASSUME NEW w \in Workers, WorkerNext(w) \/ WorkerFails(w)
      PROVE  Outcome'
  <2>1. UNCHANGED <<input, docNum, snkPc, snkOk, srcPc, srcOk, status,
                    ndocs, ndocsKnown, ndocsReceived>>
    BY <1>3 DEF WorkerNext, WorkerRejects, WorkerFails, WorkerDies, WorkerStart,
                SubscriptionArrives, WorkerRecvDocument, WorkerReply, WorkerTerminate
  <2> QED BY <2>1, OutcomeFrame
<1> QED BY <1>1, <1>2, <1>3, OutcomeSource, OutcomeSink DEF Next, ServerFails

-----------------------------------------------------------------------------
(* When workers are told to stop. *)

(* At the start no worker has been told to stop.                           *)
LEMMA ToldInit == Init => Told
  BY DEF Init, Told

(* Steps that neither tell a worker to stop nor receive a result.          *)
LEMMA ToldFrame ==
  ASSUME Told, UNCHANGED <<control, snkPc, ndocs, ndocsKnown, ndocsReceived>>,
         \A w \in Workers : wPc'[w] = "done" => wPc[w] = "done"
  PROVE  Told'
  BY DEF Told, AllReceived

(* Workers are told to stop by a sink whose loop has ended.                *)
LEMMA ToldStep == TypeOK /\ Outcome /\ Told /\ [Next]_vars => Told'
<1> SUFFICES ASSUME TypeOK, Outcome, Told, [Next]_vars
             PROVE  Told'
  OBVIOUS
<1> USE DEF SourceStep, SinkStep, sourceVars, sinkVars, counters, results, workerVars, netVars
<1>1. CASE \/ SourceNext \/ SourceSetupFails \/ SourceSendFails \/ SourceSendCountFails
           \/ MainExits \/ Exited \/ UNCHANGED vars
  <2>1. UNCHANGED <<control, snkPc, ndocs, ndocsKnown, ndocsReceived, wPc>>
    BY <1>1 DEF SourceNext, SourceWait, SourceSetup, SourceSetupFails, SourceEndOfInput,
                SourceSendDocument, SourceSendCount, SourceSendFails, SourceSendCountFails,
                SourceClose, MainExits, Exited, vars
  <2> QED BY <2>1, ToldFrame
<1>2. CASE \/ SinkSetup \/ SinkSetupFails \/ SinkRecvFails \/ SinkFlush \/ SinkFlushEnds
           \/ SinkLoopEnds
           \/ \E q \in Workers \cup {Source} : SinkRecvDocument(q) \/ SinkRecvCount(q)
  <2>1. UNCHANGED <<control, wPc>> /\ snkPc \notin {"close", "done"}
    BY <1>2 DEF SinkSetup, SinkSetupFails, SinkRecvFails, SinkFlush, SinkFlushEnds, SinkLoopEnds,
                SinkRecvDocument, SinkRecvCount
  <2> QED BY <2>1 DEF Told
<1>3. CASE SinkPublish \/ SinkPublishFails \/ SinkClose
  <2>1. /\ UNCHANGED <<ndocs, ndocsKnown, ndocsReceived, wPc>>
        /\ snkPc \in {"publish", "close"} /\ snkPc' \in {"close", "done"}
    BY <1>3 DEF SinkPublish, SinkPublishFails, SinkClose
  <2> QED BY <2>1 DEF Told, Outcome, AllReceived
<1>4. ASSUME NEW w \in Workers, WorkerTerminate(w)
      PROVE  Told'
  <2>1. UNCHANGED <<snkPc, ndocs, ndocsKnown, ndocsReceived>> /\ control[w] # <<>>
    BY <1>4 DEF WorkerTerminate
  <2> QED BY <2>1 DEF Told, AllReceived
<1>5. ASSUME NEW w \in Workers,
             \/ WorkerStart(w) \/ SubscriptionArrives(w) \/ WorkerRecvDocument(w)
             \/ WorkerReply(w) \/ WorkerDies(w)
      PROVE  Told'
  <2>1. /\ UNCHANGED <<control, snkPc, ndocs, ndocsKnown, ndocsReceived>>
        /\ \A v \in Workers : wPc'[v] = "done" => wPc[v] = "done"
    BY <1>5 DEF WorkerStart, SubscriptionArrives, WorkerRecvDocument, WorkerReply,
                WorkerDies, TypeOK
  <2> QED BY <2>1, ToldFrame
<1> QED BY <1>1, <1>2, <1>3, <1>4, <1>5
        DEF Next, SinkNext, WorkerNext, WorkerRejects, WorkerFails, ServerFails

(* The inductive invariant. *)
LEMMA PipeInit == Init => PipeInv
  BY PlaceInit, AnnouncementInit, BookkeepingInit, OutcomeInit, ToldInit DEF PipeInv, Delivery

(* Every step preserves it, given the types; Delivery needs no Told.       *)
LEMMA DeliveryStep == TypeOK /\ Delivery /\ [Next]_vars => Delivery'
  BY PlaceStep, AnnouncementStep, BookkeepingStep, OutcomeStep DEF Delivery

LEMMA PipeStep == TypeOK /\ PipeInv /\ [Next]_vars => PipeInv'
  BY DeliveryStep, ToldStep DEF PipeInv, Delivery

(* The three invariants hold of every state of a run.                      *)
LEMMA PipePreserved == Spec => [](TypeOK /\ OrderInv /\ PipeInv)
<1>1. Init => TypeOK /\ OrderInv /\ PipeInv
  BY TypeInit, OrderInit, PipeInit
<1>2. TypeOK /\ OrderInv /\ PipeInv /\ [Next]_vars => (TypeOK /\ OrderInv /\ PipeInv)'
  BY TypeStep, OrderStep, PipeStep
<1> QED BY <1>1, <1>2, PTL DEF Spec

-----------------------------------------------------------------------------
(* What follows when everything announced has been received. *)

(* The numbers of the documents written.                                   *)
WrittenNums == {written[i].num : i \in 1..Len(written)}

(* No two results that are written have the same number.                   *)
LEMMA WrittenNumbers ==
  ASSUME TypeOK, NEW place \in [Nat -> Places], InPlace(place)
  PROVE  /\ WrittenNums \subseteq 0..(docNum - 1)
         /\ IsFiniteSet(WrittenNums) /\ Cardinality(WrittenNums) = Len(written)
         /\ \A n \in WrittenNums : place[n] = <<"output", Source>>
<1>1. written \in Seq(Numbered) /\ docNum \in Nat
  BY Queues
<1>2. \A i \in 1..Len(written) : written[i].num \in Nat
  BY <1>1, ElementOfSeq, NumberedNum
<1>3. /\ \A i \in 1..Len(written) :
           written[i].num < docNum /\ place[written[i].num] = <<"output", Source>>
      /\ \A i, j \in 1..Len(written) : written[i].num = written[j].num => i = j
  BY DEF InPlace, InOutput, HoldsOnce
<1>4. WrittenNums \subseteq 0..(docNum - 1)
  BY <1>1, <1>2, <1>3 DEF WrittenNums
<1>5. IsFiniteSet(1..Len(written)) /\ Cardinality(1..Len(written)) = Len(written)
  <2>1. Len(written) \in Nat
    BY <1>1
  <2>2. \A k \in Nat : IsFiniteSet(1..k) /\ Cardinality(1..k) = k
    BY FS_Interval
  <2> QED BY <2>1, <2>2
<1> DEFINE f == [i \in 1..Len(written) |-> written[i].num]
<1>6. f \in Bijection(1..Len(written), WrittenNums)
  BY <1>3 DEF WrittenNums, Bijection, Injection, Surjection, IsInjective
<1>7. ExistsBijection(1..Len(written), WrittenNums)
  BY <1>6 DEF ExistsBijection
<1>8. IsFiniteSet(WrittenNums) /\ Cardinality(WrittenNums) = Len(written)
  BY <1>5, <1>7, FS_Bijection
<1> QED BY <1>3, <1>4, <1>8 DEF WrittenNums

(* The state of a run after its last result has been written.              *)
Settled ==
  /\ ndocsReceived = docNum /\ ndocsWritten = docNum /\ Len(written) = docNum
  /\ DOMAIN unwritten = {}
  /\ WrittenNums = 0..(docNum - 1)
  /\ srcPc \in {"close", "done"}
  /\ \A w \in Workers : toWorker[w] = <<>> /\ toSink[w] = <<>> /\ wPc[w] # "busy"

(* Once the sink has received as many results as were announced, and has   *)
(* flushed them, the output has every document that was sent, nothing      *)
(* waits for an earlier one and nothing is anywhere else.                  *)
LEMMA AllWritten ==
  ASSUME TypeOK, OrderInv, Delivery, AllReceived, snkPc # "flush"
  PROVE  Settled
<1>1. PICK place \in [Nat -> Places] : InPlace(place)
  BY DEF Delivery, OnePlace
<1>2. docNum \in Nat /\ ndocsWritten \in Nat /\ ndocsReceived \in Nat
  BY Queues DEF TypeOK
<1>3. ndocsReceived = docNum /\ srcPc \in {"close", "done"}
  BY DEF Delivery, Announcement, AllReceived
<1>4. /\ Len(written) = ndocsWritten
      /\ IsFiniteSet(DOMAIN unwritten)
      /\ ndocsReceived = ndocsWritten + Cardinality(DOMAIN unwritten)
      /\ PreserveOrder => ndocsWritten \notin DOMAIN unwritten
      /\ ~PreserveOrder => DOMAIN unwritten = {}
  BY DEF Delivery, Bookkeeping
<1>5. Cardinality(DOMAIN unwritten) \in Nat
  BY <1>4, FS_CardinalityType
<1>6. /\ WrittenNums \subseteq 0..(docNum - 1)
      /\ IsFiniteSet(WrittenNums) /\ Cardinality(WrittenNums) = Len(written)
      /\ \A n \in WrittenNums : place[n] = <<"output", Source>>
  BY <1>1, WrittenNumbers
<1>7. /\ DOMAIN unwritten \subseteq 0..(docNum - 1)
      /\ \A n \in DOMAIN unwritten : place[n] = <<"waiting", Source>>
  BY <1>1, <1>2 DEF InPlace, InMap, TypeOK
<1>8. WrittenNums \cap DOMAIN unwritten = {}
  <2>1. \A n \in WrittenNums : n \notin DOMAIN unwritten
    BY <1>6, <1>7
  <2> QED BY <2>1
<1>9. WrittenNums \cup DOMAIN unwritten = 0..(docNum - 1)
  <2> DEFINE S == WrittenNums \cup DOMAIN unwritten
  <2>1. Cardinality(WrittenNums \cap DOMAIN unwritten) = 0
    BY <1>8, FS_EmptySet
  <2>2. Cardinality(S) = Cardinality(WrittenNums) + Cardinality(DOMAIN unwritten) - 0
    BY <1>4, <1>6, <2>1, FS_Union
  <2>3. Cardinality(S) = docNum
    BY <1>2, <1>3, <1>4, <1>5, <1>6, <2>2
  <2>4. IsFiniteSet(0..(docNum - 1)) /\ Cardinality(0..(docNum - 1)) = docNum
    BY <1>2, FS_Interval
  <2>5. S \in SUBSET (0..(docNum - 1))
    BY <1>6, <1>7
  <2> HIDE DEF S
  <2>6. S = 0..(docNum - 1)
    BY <2>3, <2>4, <2>5, FS_Subset
  <2> QED BY <2>6 DEF S
<1>10. DOMAIN unwritten = {} /\ ndocsWritten = docNum
  <2>1. CASE PreserveOrder
    <3>1. \A i \in 1..Len(written) : written[i].num = i - 1
      <4>1. \A i \in 1..Len(written) : written[i] = Expected(i - 1)
        BY <2>1 DEF OrderInv, WrittenInOrder
      <4>2. \A n : Expected(n).num = n
        BY DEF Expected, build_message
      <4> QED BY <4>1, <4>2
    <3>2. ndocsWritten \notin WrittenNums
      BY <1>2, <1>4, <3>1 DEF WrittenNums
    <3>3. ndocsWritten \notin 0..(docNum - 1)
      BY <1>4, <1>9, <2>1, <3>2
    <3>4. Cardinality(DOMAIN unwritten) = 0
      BY <1>2, <1>3, <1>4, <1>5, <3>3
    <3>5. DOMAIN unwritten = {}
      BY <1>4, <3>4, FS_EmptySet
    <3> QED BY <1>2, <1>3, <1>4, <3>4, <3>5
  <2>2. CASE ~PreserveOrder
    BY <1>2, <1>3, <1>4, <2>2, FS_EmptySet
  <2> QED BY <2>1, <2>2
<1>11. WrittenNums = 0..(docNum - 1)
  BY <1>9, <1>10
<1>12. \A n \in Nat : n < docNum => place[n] = <<"output", Source>>
  BY <1>2, <1>6, <1>11
<1>13. ASSUME NEW w \in Workers
       PROVE  toWorker[w] = <<>> /\ toSink[w] = <<>> /\ wPc[w] # "busy"
  <2>1. toWorker[w] \in Seq(Numbered) /\ toSink[w] \in Seq(Numbered)
    BY Queues
  <2>2. ASSUME NEW q \in Seq(Numbered), NEW p, p # <<"output", Source>>,
               HoldsOnce(q, docNum, place, p)
        PROVE  q = <<>>
    <3>1. ASSUME q # <<>>
          PROVE  FALSE
      <4>1. 1 \in 1..Len(q) /\ q[1].num \in Nat
        BY <3>1, ElementOfSeq, NumberedNum
      <4> QED BY <1>12, <2>2, <4>1 DEF HoldsOnce
    <3> QED BY <3>1
  <2>3. /\ HoldsOnce(toWorker[w], docNum, place, <<"queue", w>>)
        /\ HoldsOnce(toSink[w], docNum, place, <<"reply", w>>)
    BY <1>1 DEF InPlace, InQueues, InReplies
  <2>4. toWorker[w] = <<>> /\ toSink[w] = <<>>
    <3>1. <<"queue", w>> # <<"output", Source>> /\ <<"reply", w>> # <<"output", Source>>
      OBVIOUS
    <3> QED BY <2>1, <2>2, <2>3, <3>1
  <2>5. ASSUME wPc[w] = "busy"
        PROVE  FALSE
    <3>1. wMsg[w].num < docNum /\ place[wMsg[w].num] = <<"hand", w>>
      BY <1>1, <2>5 DEF InPlace, InHands
    <3>2. wMsg[w].num \in Nat
      BY <2>5, NumberedNum DEF TypeOK, Numbered
    <3> QED BY <1>12, <3>1, <3>2
  <2> QED BY <2>4, <2>5
<1> QED BY <1>3, <1>4, <1>10, <1>11, <1>13 DEF Settled

(* Then nothing is between the source and the sink.                        *)
LEMMA NothingInFlight == TypeOK /\ Settled => InFlight = {}
<1> SUFFICES ASSUME TypeOK, Settled
             PROVE  InFlight = {}
  OBVIOUS
<1>1. ASSUME NEW w \in Workers
      PROVE  AtWorker(w) = 0 /\ DOMAIN toSink[w] = {}
  <2>1. toWorker[w] = <<>> /\ toSink[w] = <<>> /\ wPc[w] # "busy"
    BY DEF Settled
  <2>2. AtWorker(w) = Len(toWorker[w]) + 0
    BY <2>1 DEF AtWorker
  <2> QED BY <2>1, <2>2
<1>2. \A w \in Workers : 1..AtWorker(w) = {} /\ DOMAIN toSink[w] = {}
  BY <1>1
<1> QED BY <1>2, Zenon DEF InFlight

(* The check that sink() makes after its receive loop, and whose failure   *)
(* it can only log, never fails: what was received is written, and nothing *)
(* is left waiting for an earlier result.                                  *)
THEOREM SanityChecked == Spec => []SanityCheck
<1>1. TypeOK /\ OrderInv /\ PipeInv => SanityCheck
  <2> SUFFICES ASSUME TypeOK, OrderInv, PipeInv, snkPc = "publish"
               PROVE  ndocsReceived = ndocsWritten /\ DOMAIN unwritten = {}
    BY DEF SanityCheck
  <2>1. AllReceived
    BY DEF PipeInv, Delivery, Outcome
  <2> QED BY <2>1, AllWritten DEF PipeInv, Settled
<1> QED BY <1>1, PipePreserved, PTL

(* TERMINATE, which makes a worker drop what its source socket holds, is   *)
(* published only when no document is between the source and the output.   *)
THEOREM TerminateSafe == Spec => []TerminateDiscardsNothing
<1>1. TypeOK /\ OrderInv /\ PipeInv => TerminateDiscardsNothing
  <2> SUFFICES ASSUME TypeOK, OrderInv, PipeInv,
                      \E w \in Workers : control[w] # <<>> \/ wPc[w] = "done"
               PROVE  InFlight = {} /\ Len(written) = docNum /\ srcPc \in {"close", "done"}
    BY DEF TerminateDiscardsNothing
  <2>1. AllReceived /\ snkPc # "flush"
    BY DEF PipeInv, Told
  <2>2. Settled
    BY <2>1, AllWritten DEF PipeInv
  <2> QED BY <2>2, NothingInFlight DEF Settled
<1> QED BY <1>1, PipePreserved, PTL

-----------------------------------------------------------------------------
(* Every document is accounted for. InFlight has a slot for each document  *)
(* at a worker and one for each reply in its pipe.                         *)

Slots(kind, len) == UNION {{<<w, kind, i>> : i \in 1..len[w]} : w \in Workers}

Flight(docs, replies) == Slots("doc", docs) \cup Slots("reply", replies)

AtWorkers  == [w \in Workers |-> AtWorker(w)]
ReplyCount == [w \in Workers |-> Len(toSink[w])]

(* What a slot is.                                                         *)
LEMMA SlotsMember ==
  \A kind, len, x :
    x \in Slots(kind, len) <=> \E w \in Workers : \E i \in 1..len[w] : x = <<w, kind, i>>
<1> TAKE kind, len, x
<1>1. ASSUME x \in Slots(kind, len)
      PROVE  \E w \in Workers : \E i \in 1..len[w] : x = <<w, kind, i>>
  <2>1. PICK T \in {{<<w, kind, i>> : i \in 1..len[w]} : w \in Workers} : x \in T
    BY <1>1 DEF Slots
  <2>2. PICK w \in Workers : T = {<<w, kind, i>> : i \in 1..len[w]}
    BY <2>1
  <2> QED BY <2>1, <2>2
<1>2. ASSUME NEW w \in Workers, NEW i \in 1..len[w], x = <<w, kind, i>>
      PROVE  x \in Slots(kind, len)
  <2> DEFINE T == {<<w, kind, j>> : j \in 1..len[w]}
  <2>1. T \in {{<<v, kind, j>> : j \in 1..len[v]} : v \in Workers} /\ x \in T
    BY <1>2
  <2> QED BY <2>1 DEF Slots
<1> QED BY <1>1, <1>2

(* A document more is a slot more.                                         *)
LEMMA SlotsGrow ==
  ASSUME NEW kind, NEW len \in [Workers -> Nat], NEW w \in Workers
  PROVE  /\ Slots(kind, [len EXCEPT ![w] = @ + 1])
              = Slots(kind, len) \cup {<<w, kind, len[w] + 1>>}
         /\ <<w, kind, len[w] + 1>> \notin Slots(kind, len)
         /\ \A kind2, len2 : kind2 # kind => <<w, kind, len[w] + 1>> \notin Slots(kind2, len2)
<1> DEFINE more == [len EXCEPT ![w] = @ + 1]
           x == <<w, kind, len[w] + 1>>
<1>1. \A v \in Workers : \A i : i \in 1..more[v] <=> i \in 1..len[v] \/ (v = w /\ i = len[w] + 1)
  OBVIOUS
<1>2. \A y : y \in Slots(kind, more) <=> \E v \in Workers : \E i \in 1..more[v] : y = <<v, kind, i>>
  BY SlotsMember
<1>3. \A y : y \in Slots(kind, len) <=> \E v \in Workers : \E i \in 1..len[v] : y = <<v, kind, i>>
  BY SlotsMember
<1>4. x \notin Slots(kind, len) /\ \A kind2, len2 : kind2 # kind => x \notin Slots(kind2, len2)
  BY SlotsMember
<1> HIDE DEF more
<1>5. x \in Slots(kind, more)
  BY <1>1, <1>2
<1>6. ASSUME NEW v \in Workers, NEW i
      PROVE  /\ i \in 1..len[v] => <<v, kind, i>> \in Slots(kind, more)
             /\ i \in 1..more[v] => <<v, kind, i>> \in Slots(kind, len) \/ <<v, kind, i>> = x
  BY <1>1, <1>2, <1>3
<1>7. \A y \in Slots(kind, more) : y \in Slots(kind, len) \/ y = x
  BY <1>2, <1>6
<1>8. \A y \in Slots(kind, len) : y \in Slots(kind, more)
  BY <1>3, <1>6
<1>9. Slots(kind, more) = Slots(kind, len) \cup {x}
  BY <1>5, <1>7, <1>8
<1> QED BY <1>4, <1>9 DEF more

(* Workers hold, and pipes have, natural numbers of messages.              *)
LEMMA InFlightTypes ==
  TypeOK => AtWorkers \in [Workers -> Nat] /\ ReplyCount \in [Workers -> Nat]
<1> SUFFICES ASSUME TypeOK, NEW w \in Workers
             PROVE  AtWorker(w) \in Nat /\ Len(toSink[w]) \in Nat
  BY DEF AtWorkers, ReplyCount
<1>1. toWorker[w] \in Seq(Numbered) /\ toSink[w] \in Seq(Numbered)
  BY Queues
<1>2. Len(toWorker[w]) \in Nat /\ Len(toSink[w]) \in Nat
  BY <1>1
<1>3. AtWorker(w) = Len(toWorker[w]) + 1 \/ AtWorker(w) = Len(toWorker[w]) + 0
  BY DEF AtWorker
<1> QED BY <1>2, <1>3

(* What is in flight are the slots of what the workers hold and reply.     *)
LEMMA InFlightSlots ==
  TypeOK => InFlight = Flight(AtWorkers, ReplyCount)
<1> SUFFICES ASSUME TypeOK
             PROVE  InFlight = Flight(AtWorkers, ReplyCount)
  OBVIOUS
<1>1. \A w \in Workers : DOMAIN toSink[w] = 1..ReplyCount[w]
  BY Queues DEF ReplyCount
<1>2. \A w \in Workers : AtWorker(w) = AtWorkers[w]
  BY DEF AtWorkers
<1> DEFINE D == {{<<w, "doc", i>> : i \in 1..AtWorkers[w]} : w \in Workers}
           R == {{<<w, "reply", i>> : i \in 1..ReplyCount[w]} : w \in Workers}
<1>3. /\ {{<<w, "doc", i>> : i \in 1..AtWorker(w)} : w \in Workers} = D
      /\ {{<<w, "reply", i>> : i \in DOMAIN toSink[w]} : w \in Workers} = R
  BY <1>1, <1>2, Zenon
<1>4. InFlight = UNION (D \cup R)
  BY <1>3, Zenon DEF InFlight
<1> HIDE DEF D, R
<1>5. UNION (D \cup R) = (UNION D) \cup (UNION R)
  OBVIOUS
<1> QED BY <1>4, <1>5, Zenon DEF Flight, Slots, D, R

(* The same of the next state.                                             *)
LEMMA InFlightNext ==
  TypeOK' => /\ InFlight' = Flight(AtWorkers', ReplyCount')
             /\ AtWorkers' \in [Workers -> Nat] /\ ReplyCount' \in [Workers -> Nat]
<1>1. (TypeOK => InFlight = Flight(AtWorkers, ReplyCount))'
  BY InFlightSlots, PTL
<1>2. (TypeOK => AtWorkers \in [Workers -> Nat] /\ ReplyCount \in [Workers -> Nat])'
  BY InFlightTypes, PTL
<1> QED BY <1>1, <1>2 DEF Flight, Slots

(* A finite set with one element more.                                     *)
LEMMA OneMore ==
  ASSUME NEW S, NEW x, x \notin S
  PROVE  /\ IsFiniteSet(S \cup {x}) <=> IsFiniteSet(S)
         /\ IsFiniteSet(S) => /\ Cardinality(S \cup {x}) = Cardinality(S) + 1
                              /\ Cardinality(S) \in Nat
<1>1. ASSUME IsFiniteSet(S)
      PROVE  /\ IsFiniteSet(S \cup {x})
             /\ Cardinality(S \cup {x}) = Cardinality(S) + 1 /\ Cardinality(S) \in Nat
  BY <1>1, FS_AddElement, FS_CardinalityType
<1>2. IsFiniteSet(S \cup {x}) => IsFiniteSet(S)
  BY FS_Subset
<1> QED BY <1>1, <1>2

(* One slot more, when a worker has one document more or one reply more.   *)
LEMMA FlightGrows ==
  ASSUME NEW docs \in [Workers -> Nat], NEW replies \in [Workers -> Nat], NEW w \in Workers,
         NEW S, S \in {Flight([docs EXCEPT ![w] = @ + 1], replies),
                       Flight(docs, [replies EXCEPT ![w] = @ + 1])}
  PROVE  /\ IsFiniteSet(S) <=> IsFiniteSet(Flight(docs, replies))
         /\ IsFiniteSet(S) => /\ Cardinality(S) = Cardinality(Flight(docs, replies)) + 1
                              /\ Cardinality(Flight(docs, replies)) \in Nat
<1>1. CASE S = Flight([docs EXCEPT ![w] = @ + 1], replies)
  <2> DEFINE x == <<w, "doc", docs[w] + 1>>
  <2>1. /\ Slots("doc", [docs EXCEPT ![w] = @ + 1]) = Slots("doc", docs) \cup {x}
        /\ x \notin Slots("doc", docs) /\ x \notin Slots("reply", replies)
    BY SlotsGrow
  <2> HIDE DEF x
  <2>2. S = Flight(docs, replies) \cup {x} /\ x \notin Flight(docs, replies)
    BY <1>1, <2>1 DEF Flight
  <2> QED BY <2>2, OneMore
<1>2. CASE S = Flight(docs, [replies EXCEPT ![w] = @ + 1])
  <2> DEFINE x == <<w, "reply", replies[w] + 1>>
  <2>1. /\ Slots("reply", [replies EXCEPT ![w] = @ + 1]) = Slots("reply", replies) \cup {x}
        /\ x \notin Slots("doc", docs) /\ x \notin Slots("reply", replies)
    BY SlotsGrow
  <2> HIDE DEF x
  <2>2. S = Flight(docs, replies) \cup {x} /\ x \notin Flight(docs, replies)
    BY <1>2, <2>1 DEF Flight
  <2> QED BY <2>2, OneMore
<1> QED BY <1>1, <1>2

(* No worker has failed.                                                   *)
NobodyDead == \A w \in Workers : wPc[w] # "dead"

(* NothingLost, whose Cardinality means something of a finite set only.    *)
Account == IsFiniteSet(InFlight) /\ NothingLost

(* At the start nothing has been sent and nothing is in flight.            *)
LEMMA AccountInit == Init => Account
<1> SUFFICES ASSUME Init
             PROVE  Account
  OBVIOUS
<1>1. \A w \in Workers : 1..AtWorker(w) = {} /\ DOMAIN toSink[w] = {}
  <2> TAKE w \in Workers
  <2>1. toWorker[w] = <<>> /\ toSink[w] = <<>> /\ wPc[w] # "busy"
    BY DEF Init
  <2>2. AtWorker(w) = Len(toWorker[w]) + 0
    BY <2>1 DEF AtWorker
  <2> QED BY <2>1, <2>2
<1>2. InFlight = {}
  BY <1>1, Zenon DEF InFlight
<1>3. docNum = 0 /\ ndocsReceived = 0
  BY DEF Init
<1> QED BY <1>2, <1>3, FS_EmptySet DEF Account, NothingLost

(* Steps that leave every worker with what it had.                         *)
LEMMA AccountFrame ==
  ASSUME TypeOK, Account, UNCHANGED <<docNum, ndocsReceived>>,
         \A w \in Workers : /\ AtWorker(w)' = AtWorker(w)
                            /\ Len(toSink'[w]) = Len(toSink[w])
                            /\ wPc[w] = "dead" => wPc'[w] = "dead",
         TypeOK'
  PROVE  Account'
<1>1. AtWorkers' = AtWorkers /\ ReplyCount' = ReplyCount
  BY DEF AtWorkers, ReplyCount
<1>2. InFlight' = InFlight
  BY <1>1, InFlightSlots, InFlightNext
<1> QED BY <1>2 DEF Account, NothingLost

(* What a worker holds, from its queue.                                    *)
LEMMA AtWorkerNext ==
  ASSUME NEW w \in Workers
  PROVE  /\ wPc'[w] = "busy" => AtWorker(w)' = Len(toWorker'[w]) + 1
         /\ wPc'[w] # "busy" => AtWorker(w)' = Len(toWorker'[w]) + 0
         /\ wPc[w] = "busy" => AtWorker(w) = Len(toWorker[w]) + 1
         /\ wPc[w] # "busy" => AtWorker(w) = Len(toWorker[w]) + 0
         /\ toWorker'[w] = toWorker[w] /\ wPc'[w] = wPc[w] => AtWorker(w)' = AtWorker(w)
  BY DEF AtWorker

(* A document is sent: one more in flight.                                 *)
LEMMA AccountSend ==
  ASSUME TypeOK, TypeOK', Account, NEW w \in Workers, SourceSendDocument(w)
  PROVE  Account'
<1> DEFINE m == build_message("DOCUMENT", docNum, input[docNum + 1])
<1>1. /\ toWorker' = [toWorker EXCEPT ![w] = Append(@, m)]
      /\ docNum' = docNum + 1
      /\ UNCHANGED <<ndocsReceived, toSink, wPc>>
  BY DEF SourceSendDocument, sinkVars, counters, workerVars
<1>2. toWorker[w] \in Seq(Numbered) /\ AtWorkers \in [Workers -> Nat] /\ ReplyCount \in [Workers -> Nat]
  BY Queues, InFlightTypes
<1>3. AtWorkers' = [AtWorkers EXCEPT ![w] = @ + 1]
  <2> HIDE DEF m
  <2>1. toWorker'[w] = Append(toWorker[w], m) /\ \A v \in Workers : v # w => toWorker'[v] = toWorker[v]
    BY <1>1 DEF TypeOK
  <2>2. Len(toWorker'[w]) = Len(toWorker[w]) + 1 /\ Len(toWorker[w]) \in Nat
    BY <1>2, <2>1
  <2>3. \A v \in Workers : v # w => AtWorker(v)' = AtWorker(v)
    BY <1>1, <2>1, AtWorkerNext
  <2>4. AtWorker(w)' = AtWorker(w) + 1
    BY <1>1, <2>2, AtWorkerNext
  <2>5. AtWorkers' = [v \in Workers |-> AtWorker(v)']
    BY DEF AtWorkers
  <2>6. \A v \in Workers : AtWorker(v)' = [AtWorkers EXCEPT ![w] = @ + 1][v]
    BY <2>3, <2>4 DEF AtWorkers
  <2> QED BY <2>5, <2>6 DEF AtWorkers
<1>4. ReplyCount' = ReplyCount
  BY <1>1 DEF ReplyCount
<1>5. /\ InFlight = Flight(AtWorkers, ReplyCount)
      /\ InFlight' = Flight([AtWorkers EXCEPT ![w] = @ + 1], ReplyCount)
  BY <1>3, <1>4, InFlightSlots, InFlightNext
<1>6. IsFiniteSet(InFlight') /\ Cardinality(InFlight') = Cardinality(InFlight) + 1
      /\ Cardinality(InFlight) \in Nat
  BY <1>2, <1>5, FlightGrows DEF Account
<1>7. docNum \in Nat /\ ndocsReceived \in Nat
  BY Queues DEF TypeOK
<1> QED BY <1>1, <1>6, <1>7 DEF Account, NothingLost

(* A worker replies: a reply is in flight in place of the document.        *)
LEMMA AccountReply ==
  ASSUME TypeOK, TypeOK', Account, NEW w \in Workers, WorkerReply(w)
  PROVE  Account'
<1> DEFINE m == ReplyTo(wMsg[w])
<1>1. /\ toSink' = [toSink EXCEPT ![w] = Append(@, m)]
      /\ wPc[w] = "busy" /\ wPc' = [wPc EXCEPT ![w] = "poll"]
      /\ UNCHANGED <<docNum, ndocsReceived, toWorker>>
  BY DEF WorkerReply, sinkVars, counters, sourceVars
<1>2. /\ toWorker[w] \in Seq(Numbered) /\ toSink[w] \in Seq(Numbered)
      /\ ReplyCount \in [Workers -> Nat] /\ AtWorkers' \in [Workers -> Nat]
  BY Queues, InFlightTypes, InFlightNext
<1>3. AtWorkers = [AtWorkers' EXCEPT ![w] = @ + 1]
  <2>1. wPc'[w] = "poll" /\ \A v \in Workers : v # w => wPc'[v] = wPc[v]
    BY <1>1 DEF TypeOK
  <2>2. Len(toWorker[w]) \in Nat
    BY <1>2
  <2>3. \A v \in Workers : v # w => AtWorker(v)' = AtWorker(v)
    BY <1>1, <2>1, AtWorkerNext
  <2>4. AtWorker(w) = AtWorker(w)' + 1
    BY <1>1, <2>1, <2>2, AtWorkerNext
  <2>5. AtWorkers' = [v \in Workers |-> AtWorker(v)']
    BY DEF AtWorkers
  <2>6. \A v \in Workers : AtWorker(v) = [AtWorkers' EXCEPT ![w] = @ + 1][v]
    BY <2>3, <2>4, <2>5
  <2> QED BY <1>2, <2>6 DEF AtWorkers
<1>4. ReplyCount' = [ReplyCount EXCEPT ![w] = @ + 1]
  <2> HIDE DEF m
  <2>1. toSink'[w] = Append(toSink[w], m) /\ \A v \in Workers : v # w => toSink'[v] = toSink[v]
    BY <1>1 DEF TypeOK
  <2>2. Len(toSink'[w]) = Len(toSink[w]) + 1
    BY <1>2, <2>1
  <2>3. ReplyCount' = [v \in Workers |-> Len(toSink'[v])]
    BY DEF ReplyCount
  <2>4. \A v \in Workers : Len(toSink'[v]) = [ReplyCount EXCEPT ![w] = @ + 1][v]
    BY <2>1, <2>2 DEF ReplyCount
  <2> QED BY <2>3, <2>4 DEF ReplyCount
<1>5. PICK docs \in [Workers -> Nat] : docs = AtWorkers'
  BY <1>2
<1>6. /\ InFlight = Flight([docs EXCEPT ![w] = @ + 1], ReplyCount)
      /\ InFlight' = Flight(docs, [ReplyCount EXCEPT ![w] = @ + 1])
  BY <1>3, <1>4, <1>5, InFlightSlots, InFlightNext
<1>7. /\ IsFiniteSet(Flight(docs, ReplyCount))
      /\ Cardinality(InFlight) = Cardinality(Flight(docs, ReplyCount)) + 1
  BY <1>2, <1>6, FlightGrows DEF Account
<1>8. IsFiniteSet(InFlight') /\ Cardinality(InFlight') = Cardinality(Flight(docs, ReplyCount)) + 1
  BY <1>2, <1>6, <1>7, FlightGrows
<1>9. NobodyDead' => NobodyDead
  BY <1>1 DEF TypeOK, NobodyDead
<1> QED BY <1>1, <1>7, <1>8, <1>9 DEF Account, NothingLost, NobodyDead

(* A reply is received: one less in flight.                                *)
LEMMA AccountReceive ==
  ASSUME TypeOK, TypeOK', OnePlace, Announcement, Account,
         NEW q \in Workers \cup {Source}, SinkRecvDocument(q)
  PROVE  Account'
<1>1. /\ toSink[q] # <<>> /\ toSink' = [toSink EXCEPT ![q] = Tail(@)]
      /\ ndocsReceived' = ndocsReceived + 1
      /\ UNCHANGED <<docNum, toWorker, wPc>>
  BY DEF SinkRecvDocument, SinkStep, sourceVars, workerVars
<1>2. q \in Workers
  BY PlaceReceive
<1>3. /\ toSink[q] \in Seq(Numbered) /\ AtWorkers \in [Workers -> Nat]
      /\ ReplyCount' \in [Workers -> Nat]
  BY <1>2, Queues, InFlightTypes, InFlightNext
<1>4. AtWorkers' = AtWorkers
  BY <1>1, AtWorkerNext DEF AtWorkers
<1>5. ReplyCount = [ReplyCount' EXCEPT ![q] = @ + 1]
  <2>1. toSink'[q] = Tail(toSink[q]) /\ \A v \in Workers : v # q => toSink'[v] = toSink[v]
    BY <1>1 DEF TypeOK
  <2>2. Len(toSink[q]) = Len(toSink'[q]) + 1
    <3>1. Len(toSink[q]) \in Nat /\ Len(Tail(toSink[q])) = Len(toSink[q]) - 1
      BY <1>1, <1>3
    <3> QED BY <2>1, <3>1
  <2>3. ReplyCount' = [v \in Workers |-> Len(toSink'[v])]
    BY DEF ReplyCount
  <2>4. \A v \in Workers : Len(toSink[v]) = [ReplyCount' EXCEPT ![q] = @ + 1][v]
    BY <2>1, <2>2, <2>3
  <2> QED BY <1>3, <2>4 DEF ReplyCount
<1>6. PICK replies \in [Workers -> Nat] : replies = ReplyCount'
  BY <1>3
<1>7. /\ InFlight = Flight(AtWorkers, [replies EXCEPT ![q] = @ + 1])
      /\ InFlight' = Flight(AtWorkers, replies)
  BY <1>4, <1>5, <1>6, InFlightSlots, InFlightNext
<1>8. /\ IsFiniteSet(InFlight') /\ Cardinality(InFlight) = Cardinality(InFlight') + 1
      /\ Cardinality(InFlight') \in Nat
  BY <1>2, <1>3, <1>7, FlightGrows DEF Account
<1>9. docNum \in Nat /\ ndocsReceived \in Nat
  BY Queues DEF TypeOK
<1> QED BY <1>1, <1>8, <1>9 DEF Account, NothingLost

(* A worker that dies takes its documents and replies with it.            *)
LEMMA AccountDies ==
  ASSUME TypeOK, TypeOK', Account, NEW w \in Workers, WorkerDies(w)
  PROVE  Account'
<1>1. /\ toWorker' = [toWorker EXCEPT ![w] = <<>>]
      /\ wPc' = [wPc EXCEPT ![w] = "dead"]
  BY DEF WorkerDies
<1>2. PICK k \in 0..Len(toSink[w]) : toSink' = [toSink EXCEPT ![w] = SubSeq(@, 1, k)]
  BY DEF WorkerDies
<1>3. /\ AtWorkers \in [Workers -> Nat] /\ AtWorkers' \in [Workers -> Nat]
      /\ ReplyCount \in [Workers -> Nat] /\ ReplyCount' \in [Workers -> Nat]
  BY InFlightTypes, InFlightNext
<1>4. ASSUME NEW v \in Workers
      PROVE  AtWorkers'[v] <= AtWorkers[v] /\ ReplyCount'[v] <= ReplyCount[v]
  <2>1. toWorker'[w] = <<>> /\ wPc'[w] = "dead" /\ toSink'[w] = SubSeq(toSink[w], 1, k)
    BY <1>1, <1>2 DEF TypeOK
  <2>2. v # w => toWorker'[v] = toWorker[v] /\ wPc'[v] = wPc[v] /\ toSink'[v] = toSink[v]
    BY <1>1, <1>2 DEF TypeOK
  <2>3. AtWorkers'[v] = AtWorker(v)' /\ AtWorkers[v] = AtWorker(v)
        /\ ReplyCount'[v] = Len(toSink'[v]) /\ ReplyCount[v] = Len(toSink[v])
    BY DEF AtWorkers, ReplyCount
  <2>4. CASE v # w
    BY <1>3, <2>2, <2>3, <2>4, AtWorkerNext
  <2>5. CASE v = w
    <3>1. AtWorker(w)' = 0
      BY <2>1, AtWorkerNext
    <3>2. toSink[w] \in Seq(Numbered) /\ k \in 0..Len(toSink[w])
      BY Queues
    <3>3. Len(SubSeq(toSink[w], 1, k)) = k /\ Len(toSink[w]) \in Nat
      BY <3>2, Prefix
    <3> QED BY <1>3, <2>1, <2>3, <2>5, <3>1, <3>3
  <2> QED BY <2>4, <2>5
<1>5. InFlight' \subseteq InFlight
  <2>1. InFlight = Flight(AtWorkers, ReplyCount) /\ InFlight' = Flight(AtWorkers', ReplyCount')
    BY InFlightSlots, InFlightNext
  <2>2. ASSUME NEW kind, NEW less \in [Workers -> Nat], NEW len \in [Workers -> Nat],
               \A v \in Workers : less[v] <= len[v]
        PROVE  Slots(kind, less) \subseteq Slots(kind, len)
    <3>1. \A v \in Workers : 1..less[v] \subseteq 1..len[v]
      BY <2>2
    <3> QED BY <3>1, SlotsMember
  <2>3. Slots("doc", AtWorkers') \subseteq Slots("doc", AtWorkers)
    BY <1>3, <1>4, <2>2
  <2>4. Slots("reply", ReplyCount') \subseteq Slots("reply", ReplyCount)
    BY <1>3, <1>4, <2>2
  <2> QED BY <2>1, <2>3, <2>4 DEF Flight
<1>6. IsFiniteSet(InFlight')
  BY <1>5, FS_Subset DEF Account
<1>7. wPc'[w] = "dead"
  BY <1>1 DEF TypeOK
<1> QED BY <1>6, <1>7 DEF Account, NothingLost

(* No step loses a document or has it twice, until a worker dies.          *)
LEMMA AccountStep ==
  TypeOK /\ OrderInv /\ PipeInv /\ Account /\ [Next]_vars => Account'
<1> SUFFICES ASSUME TypeOK, OrderInv, PipeInv, Account, [Next]_vars
             PROVE  Account'
  OBVIOUS
<1>0. TypeOK' /\ OnePlace /\ Announcement
  BY TypeStep DEF PipeInv, Delivery
<1> USE DEF SourceStep, SinkStep, sourceVars, sinkVars, counters, results, workerVars, netVars
<1>1. ASSUME UNCHANGED <<docNum, ndocsReceived, toWorker, toSink, wPc>>
      PROVE  Account'
  BY <1>0, <1>1, AtWorkerNext, AccountFrame
<1>2. CASE \/ SourceWait \/ SourceSetup \/ SourceSetupFails \/ SourceEndOfInput
           \/ SourceSendFails \/ SourceSendCountFails \/ SourceClose
           \/ SinkSetup \/ SinkSetupFails \/ SinkRecvFails \/ SinkFlush \/ SinkFlushEnds
           \/ SinkLoopEnds \/ SinkPublish \/ SinkPublishFails \/ SinkClose
           \/ MainExits \/ Exited \/ UNCHANGED vars
           \/ \E w \in Workers : SubscriptionArrives(w)
  <2>1. UNCHANGED <<docNum, ndocsReceived, toWorker, toSink, wPc>>
    BY <1>2 DEF SourceWait, SourceSetup, SourceSetupFails, SourceEndOfInput, SourceSendFails,
                SourceSendCountFails, SourceClose, SinkSetup, SinkSetupFails, SinkRecvFails,
                SinkFlush, SinkFlushEnds, SinkLoopEnds, SinkPublish, SinkPublishFails, SinkClose,
                MainExits, Exited, vars, SubscriptionArrives
  <2> QED BY <1>1, <2>1
<1>3. CASE SourceSendCount \/ \E q \in Workers \cup {Source} : SinkRecvCount(q)
  <2>1. UNCHANGED <<docNum, ndocsReceived, toWorker, wPc>>
    BY <1>3 DEF SourceSendCount, SinkRecvCount
  <2>2. PICK q \in Workers \cup {Source} :
          \/ q = Source /\ SourceSendCount
          \/ SinkRecvCount(q)
    BY <1>3
  <2>3. q = Source
    BY <1>0, <2>2, CountFromSource
  <2>4. \A w \in Workers : toSink'[w] = toSink[w]
    BY <2>2, <2>3, DrDistAssumption DEF SourceSendCount, SinkRecvCount, TypeOK
  <2> QED BY <1>0, <2>1, <2>4, AtWorkerNext, AccountFrame
<1>4. ASSUME NEW w \in Workers, WorkerStart(w) \/ WorkerRecvDocument(w)
      PROVE  Account'
  <2>1. /\ UNCHANGED <<docNum, ndocsReceived, toSink>>
        /\ \A v \in Workers : v # w => wPc'[v] = wPc[v] /\ toWorker'[v] = toWorker[v]
        /\ wPc[w] # "dead" /\ wPc[w] # "busy"
    BY <1>4 DEF WorkerStart, WorkerRecvDocument, TypeOK
  <2>2. AtWorker(w)' = AtWorker(w)
    <3>1. CASE WorkerStart(w)
      <4>1. wPc'[w] = "poll" /\ toWorker'[w] = toWorker[w]
        BY <3>1 DEF WorkerStart, TypeOK
      <4> QED BY <2>1, <4>1, AtWorkerNext
    <3>2. CASE WorkerRecvDocument(w)
      <4>1. wPc'[w] = "busy" /\ toWorker'[w] = Tail(toWorker[w]) /\ toWorker[w] # <<>>
        BY <3>2 DEF WorkerRecvDocument, TypeOK
      <4>2. toWorker[w] \in Seq(Numbered)
        BY Queues
      <4>3. Len(toWorker'[w]) = Len(toWorker[w]) - 1 /\ Len(toWorker[w]) \in Nat
        BY <4>1, <4>2
      <4>4. AtWorker(w)' = Len(toWorker'[w]) + 1 /\ AtWorker(w) = Len(toWorker[w]) + 0
        BY <2>1, <4>1, AtWorkerNext
      <4> QED BY <4>3, <4>4
    <3> QED BY <1>4, <3>1, <3>2
  <2> QED BY <1>0, <2>1, <2>2, AtWorkerNext, AccountFrame
<1>5. ASSUME NEW w \in Workers, WorkerTerminate(w)
      PROVE  Account'
  <2>1. /\ UNCHANGED <<docNum, ndocsReceived, toSink>>
        /\ \A v \in Workers : v # w => wPc'[v] = wPc[v] /\ toWorker'[v] = toWorker[v]
        /\ wPc[w] = "poll" /\ wPc'[w] = "done" /\ toWorker'[w] = <<>> /\ control[w] # <<>>
    BY <1>5 DEF WorkerTerminate, TypeOK
  <2>2. AllReceived /\ snkPc # "flush"
    BY <2>1 DEF PipeInv, Told
  <2>3. toWorker[w] = <<>>
    BY <2>2, AllWritten DEF PipeInv, Settled
  <2>4. AtWorker(w)' = AtWorker(w)
    BY <2>1, <2>3, AtWorkerNext
  <2> QED BY <1>0, <2>1, <2>4, AtWorkerNext, AccountFrame
<1> QED BY <1>0, <1>2, <1>3, <1>4, <1>5, AccountSend, AccountReply, AccountReceive, AccountDies
        DEF Next, SourceNext, SinkNext, WorkerNext, WorkerRejects, WorkerFails, ServerFails

(* Until a worker dies, every document the source has sent is received or  *)
(* in flight, once: no pipe, worker or sink step loses or repeats one.     *)
THEOREM EveryDocumentAccounted == Spec => []NothingLost
<1>1. TypeOK /\ OrderInv /\ PipeInv /\ Account /\ [Next]_vars => Account'
  BY AccountStep
<1>2. Account => NothingLost
  BY DEF Account
<1> QED BY <1>1, <1>2, AccountInit, PipePreserved, PTL DEF Spec

-----------------------------------------------------------------------------
(* dr-dist implements the pipe. *)

(* What the pipe has delivered are the documents written.                  *)
LEMMA PipeNumbers ==
  TypeOK => /\ Pipe!Delivered = WrittenNums
            /\ Pipe!Pending = {n - 1 : n \in 1..Len(input)} \ WrittenNums
<1> SUFFICES ASSUME TypeOK
             PROVE  /\ Pipe!Delivered = WrittenNums
                    /\ Pipe!Pending = {n - 1 : n \in 1..Len(input)} \ WrittenNums
  OBVIOUS
<1>1. DOMAIN written = 1..Len(written) /\ DOMAIN input = 1..Len(input)
  BY InputIsSequence, Queues
<1> QED BY <1>1 DEF Pipe!Delivered, Pipe!Pending, WrittenNums

(* Writing the answer to a document not written before delivers it.        *)
LEMMA Delivers ==
  ASSUME TypeOK, Outcome, snkPc # "done", UNCHANGED <<input, status>>,
         NEW n \in Nat, n < Len(input), n \notin WrittenNums, PreserveOrder => n = Len(written),
         written' = Append(written, [type |-> "DOCUMENT", num |-> n,
                                     doc |-> process_doc(input[n + 1])])
  PROVE  Pipe!Next
<1>1. status = "running"
  BY DEF Outcome, TypeOK
<1>2. n \in Pipe!Pending
  <2>1. input \in Seq(Doc)
    BY InputIsSequence
  <2>2. n + 1 \in 1..Len(input) /\ n = (n + 1) - 1
    BY <2>1
  <2>3. n \in {k - 1 : k \in 1..Len(input)}
    BY <2>2
  <2> QED BY <2>3, PipeNumbers
<1>3. Pipe!Deliver(n)
  BY <1>1, <1>2 DEF Pipe!Deliver
<1> QED BY <1>2, <1>3 DEF Pipe!Next, Pipe!Progress

(* Without --preserve-order a result is delivered when it is received.     *)
LEMMA PipeReceive ==
  ASSUME TypeOK, OrderInv, Delivery, NEW q \in Workers \cup {Source}, SinkRecvDocument(q)
  PROVE  Pipe!Next \/ UNCHANGED <<input, written, status>>
<1> DEFINE m == Head(toSink[q])
<1>1. /\ toSink[q] # <<>> /\ m.type = "DOCUMENT" /\ snkPc = "recv"
      /\ UNCHANGED <<input, status>>
      /\ PreserveOrder => written' = written
      /\ ~PreserveOrder => written' = Append(written, m)
  BY DEF SinkRecvDocument, SinkStep
<1>2. CASE PreserveOrder
  BY <1>1, <1>2
<1>3. CASE ~PreserveOrder
  <2>1. q \in Workers
    BY PlaceReceive DEF Delivery
  <2>2. PICK place \in [Nat -> Places] : InPlace(place)
    BY DEF Delivery, OnePlace
  <2>3. /\ m = toSink[q][1] /\ 1 \in 1..Len(toSink[q]) /\ m.num \in Nat
        /\ \A i \in 1..Len(written) : written[i].num # m.num
    BY <1>1, <2>1, <2>2, FirstReply
  <2>4. Answer(m)
    BY <1>1, <2>3 DEF OrderInv, RepliesAnswer
  <2>5. m \in Reply
    <3>1. m \in Reply \cup Count
      BY <2>3, ElementOfSeq DEF TypeOK
    <3> QED BY <1>1, <3>1 DEF Count
  <2>6. m = [type |-> "DOCUMENT", num |-> m.num, doc |-> process_doc(input[m.num + 1])]
    BY <2>4, <2>5 DEF Answer, Reply
  <2>7. m.num < Len(input) /\ m.num \notin WrittenNums
    BY <2>3, <2>4 DEF Answer, WrittenNums
  <2>8. PICK n \in Nat : n = m.num
    BY <2>3
  <2> HIDE DEF m
  <2> QED BY <1>1, <1>3, <2>6, <2>7, <2>8, Delivers DEF Delivery
<1> QED BY <1>2, <1>3

(* With it, the flush loop delivers it.                                    *)
LEMMA PipeFlush ==
  ASSUME TypeOK, OrderInv, Delivery, SinkFlush
  PROVE  Pipe!Next
<1> DEFINE m == build_message("DOCUMENT", ndocsWritten, unwritten[ndocsWritten])
<1>1. /\ ndocsWritten \in DOMAIN unwritten /\ snkPc = "flush"
      /\ UNCHANGED <<input, status>>
      /\ written' = Append(written, m)
  BY DEF SinkFlush, NextToWrite, SinkStep
<1>2. /\ ndocsWritten \in Nat /\ ndocsWritten < Len(input)
      /\ unwritten[ndocsWritten] = process_doc(input[ndocsWritten + 1])
  BY <1>1 DEF OrderInv, WaitingAnswer, TypeOK
<1>3. ndocsWritten \notin WrittenNums
  <2>1. PICK place \in [Nat -> Places] : InPlace(place)
    BY DEF Delivery, OnePlace
  <2>2. place[ndocsWritten] = <<"waiting", Source>>
    BY <1>1, <2>1 DEF InPlace, InMap
  <2> QED BY <2>1, <2>2, WrittenNumbers
<1>4. Len(written) = ndocsWritten
  BY DEF Delivery, Bookkeeping
<1>5. m = [type |-> "DOCUMENT", num |-> ndocsWritten, doc |-> process_doc(input[ndocsWritten + 1])]
  BY <1>2 DEF build_message
<1>6. PICK n \in Nat : n = ndocsWritten
  BY <1>2
<1> HIDE DEF m
<1> QED BY <1>1, <1>2, <1>3, <1>4, <1>5, <1>6, Delivers DEF Delivery

(* Exit status 0 means that every document has been delivered.             *)
LEMMA PipeExits ==
  ASSUME TypeOK, OrderInv, Delivery, MainExits
  PROVE  Pipe!Next
<1>1. /\ srcPc = "done" /\ snkPc = "done" /\ status = "running"
      /\ UNCHANGED <<input, written>>
      /\ status' = IF srcOk /\ snkOk THEN "success" ELSE "failure"
  BY DEF MainExits, sinkVars, results
<1>2. CASE srcOk /\ snkOk
  <2>1. AllReceived /\ docNum = Len(input)
    BY <1>1, <1>2 DEF Delivery, Outcome
  <2>2. WrittenNums = 0..(docNum - 1)
    BY <1>1, <2>1, AllWritten DEF Settled
  <2>3. input \in Seq(Doc) /\ Len(input) \in Nat
    BY InputIsSequence
  <2>4. \A k \in 1..Len(input) : k - 1 \in WrittenNums
    BY <2>1, <2>2, <2>3
  <2>5. Pipe!Pending = {}
    BY <2>4, PipeNumbers
  <2> QED BY <1>1, <1>2, <2>5 DEF Pipe!Next, Pipe!Progress, Pipe!Succeed
<1>3. CASE ~(srcOk /\ snkOk)
  BY <1>1, <1>3 DEF Pipe!Next, Pipe!GiveUp
<1> QED BY <1>2, <1>3

(* Every step of dr-dist is a step of the pipe or changes nothing of it.   *)
LEMMA PipeRefinesStep ==
  TypeOK /\ OrderInv /\ Delivery /\ [Next]_vars => [Pipe!Next]_(Pipe!pipeVars)
<1> SUFFICES ASSUME TypeOK, OrderInv, Delivery, [Next]_vars
             PROVE  Pipe!Next \/ UNCHANGED <<input, written, status>>
  BY DEF Pipe!pipeVars
<1> USE DEF SourceStep, SinkStep, sourceVars, sinkVars, counters, results, workerVars, netVars
<1>1. CASE SourceNext \/ SourceSetupFails \/ SourceSendFails \/ SourceSendCountFails
  BY <1>1 DEF SourceNext, SourceWait, SourceSetup, SourceSetupFails, SourceEndOfInput,
              SourceSendDocument, SourceSendCount, SourceSendFails, SourceSendCountFails,
              SourceClose
<1>2. CASE \/ SinkSetup \/ SinkSetupFails \/ SinkRecvFails \/ SinkFlushEnds \/ SinkLoopEnds
           \/ SinkPublish \/ SinkPublishFails \/ SinkClose
           \/ \E q \in Workers \cup {Source} : SinkRecvCount(q)
  BY <1>2 DEF SinkSetup, SinkSetupFails, SinkRecvFails, SinkFlushEnds, SinkLoopEnds,
              SinkPublish, SinkPublishFails, SinkClose, SinkRecvCount
<1>3. CASE Exited \/ UNCHANGED vars
  BY <1>3 DEF Exited, vars
<1>4. ASSUME NEW w \in Workers, WorkerNext(w) \/ WorkerFails(w)
      PROVE  UNCHANGED <<input, written, status>>
  BY <1>4 DEF WorkerNext, WorkerRejects, WorkerFails, WorkerDies, WorkerStart,
              SubscriptionArrives, WorkerRecvDocument, WorkerReply, WorkerTerminate
<1> QED BY <1>1, <1>2, <1>3, <1>4, PipeReceive, PipeFlush, PipeExits
        DEF Next, SinkNext, ServerFails

(* dr-dist implements the abstract pipe: no document is written twice,     *)
(* none but those of the input, each with the result of its own processing *)
(* and in order when asked to, and exit status 0 means that all were       *)
(* (source(), sink(), drworker_recv() and main()).                         *)
THEOREM DrDistImplementsPipe == Spec => ImplementsPipe
<1>1. Init => Pipe!Init
  BY DEF Init, Pipe!Init
<1>2. TypeOK /\ OrderInv /\ PipeInv /\ [Next]_vars => [Pipe!Next]_(Pipe!pipeVars)
  BY PipeRefinesStep DEF PipeInv
<1> QED BY <1>1, <1>2, PipePreserved, PTL DEF Spec, ImplementsPipe, Pipe!Spec

-----------------------------------------------------------------------------
(* Several runs whose workers survive. *)

(* No call of the server on its sockets fails, and nobody kills it.        *)
OnlyWorkersFail == Faults \subseteq {"worker"}

NoFailure == srcOk /\ snkOk /\ status # "failure"

(* TERMINATE left over from an earlier run may stop a worker of this one,  *)
(* so Told does not hold here; Delivery does, and rests on it nowhere.     *)
RunInv == TypeOK /\ OrderInv /\ Delivery /\ NoFailure

-----------------------------------------------------------------------------
(* A fresh start. *)

(* The state of a run that starts with idle workers: what is left of the   *)
(* earlier ones is at most a TERMINATE that a worker has not seen yet.     *)
Fresh ==
  /\ input \in Inputs
  /\ srcPc = "wait" /\ docNum = 0 /\ srcOk = TRUE
  /\ sinkCreated = FALSE /\ snkPc = "setup" /\ snkOk = TRUE
  /\ ndocs = 0 /\ ndocsKnown = FALSE
  /\ ndocsReceived = 0 /\ ndocsWritten = 0
  /\ unwritten = [n \in {} |-> EmptyDoc] /\ written = <<>>
  /\ toWorker = [w \in Workers |-> <<>>]
  /\ toSink = [q \in Workers \cup {Source} |-> <<>>]
  /\ subscribed = {}
  /\ status = "running"
  /\ control \in [Workers -> Seq({Terminate})]
  /\ wPc \in [Workers -> {"off", "poll", "done", "dead"}]
  /\ wMsg \in [Workers -> Document \cup {NoMessage}]

(* Every part of the invariant holds there.                                *)
LEMMA FreshInv == Fresh => RunInv
<1> SUFFICES ASSUME Fresh PROVE RunInv
  OBVIOUS
<1>1. TypeOK
  <2>1. input \in Seq(Doc) /\ 0 \in 0..Len(input)
    BY DrDistAssumption DEF Fresh
  <2>2. toWorker \in [Workers -> Seq(Document)]
    BY DEF Fresh
  <2>3. toSink \in [Workers \cup {Source} -> Seq(Reply \cup Count)]
    BY DEF Fresh
  <2>4. unwritten \in [DOMAIN unwritten -> Result] /\ DOMAIN unwritten \subseteq Nat
    BY DEF Fresh
  <2>5. written \in Seq(Reply)
    BY DEF Fresh
  <2>6. wPc \in [Workers -> {"off", "poll", "busy", "done", "dead"}]
        /\ \A w \in Workers : wPc[w] # "busy"
    BY DEF Fresh
  <2> QED BY <2>1, <2>2, <2>3, <2>4, <2>5, <2>6 DEF Fresh, TypeOK
<1>2. \A w \in Workers : wPc[w] # "busy"
  BY DEF Fresh
<1>3. OrderInv
  BY <1>2 DEF Fresh, OrderInv, QueuesGenuine, HeldGenuine, RepliesAnswer, WaitingAnswer,
              WrittenInOrder
<1>4. OnePlace
  <2>1. PICK place \in [Nat -> Places] : place = [n \in Nat |-> <<"waiting", Source>>]
    BY DEF Places
  <2>2. InPlace(place)
    BY <1>2, HoldsNothing
       DEF Fresh, InPlace, InQueues, InHands, InReplies, InMap, InOutput
  <2> QED BY <2>2 DEF OnePlace
<1>5. Announcement
  BY DrDistAssumption DEF Fresh, Announcement
<1>6. Bookkeeping
  BY FS_EmptySet DEF Fresh, Bookkeeping
<1>7. Outcome
  BY DEF Fresh, Outcome
<1> QED BY <1>1, <1>3, <1>4, <1>5, <1>6, <1>7 DEF RunInv, Delivery, NoFailure, Fresh

(* The first run starts fresh.                                             *)
LEMMA RunInvInit == RunInit => RunInv
<1>1. Init => Fresh
  BY DEF Init, Fresh
<1> QED BY <1>1, FreshInv DEF RunInit

-----------------------------------------------------------------------------
(* The end of a run. *)

(* A run that has ended, ended with success and left nothing behind.       *)
LEMMA EndedClean ==
  ASSUME RunInv, status # "running"
  PROVE  Settled /\ toSink[Source] = <<>> /\ status = "success"
<1>1. TypeOK /\ OrderInv /\ Delivery /\ NoFailure
  BY DEF RunInv
<1>2. snkPc = "done" /\ AllReceived
  BY <1>1 DEF Delivery, Outcome, NoFailure
<1>3. Settled
  BY <1>1, <1>2, AllWritten
<1>4. toSink[Source] = <<>>
  BY <1>1, <1>2 DEF Delivery, Announcement, AllReceived
<1> QED BY <1>1, <1>3, <1>4 DEF TypeOK, NoFailure

(* The next run starts fresh.                                              *)
LEMMA StartsFresh ==
  ASSUME OnlyWorkersFail, RunInv, ServerStarts
  PROVE  Fresh'
<1>1. status # "running"
  BY DEF OnlyWorkersFail, ServerStarts
<1>2. Settled
  BY <1>1, EndedClean
<1>3. ASSUME NEW w \in Workers
      PROVE  toWorker[w] = <<>> /\ toSink[w] = <<>> /\ wPc[w] # "busy"
  BY <1>2 DEF Settled
<1>4. \A n \in 0..HWM : n <= Len(<<>>) => SubSeq(<<>>, 1, n) = <<>>
                                          /\ SubSeq(<<>>, n + 1, Len(<<>>)) = <<>>
  <2> SUFFICES ASSUME NEW n \in 0..HWM, n <= 0
               PROVE  SubSeq(<<>>, 1, n) = <<>> /\ SubSeq(<<>>, n + 1, 0) = <<>>
    BY EmptySeq
  <2>1. n = 0
    BY DrDistAssumption
  <2> QED BY <2>1
<1>5. toWorker' = [w \in Workers |-> <<>>]
  <2>1. PICK kept \in [Workers -> 0..HWM] :
          /\ \A w \in Workers : kept[w] <= Len(toWorker[w])
          /\ toWorker' = [w \in Workers |-> SubSeq(toWorker[w], 1, kept[w])]
    BY DEF ServerStarts
  <2>2. \A w \in Workers : SubSeq(toWorker[w], 1, kept[w]) = <<>>
    BY <1>3, <1>4, <2>1
  <2> QED BY <2>1, <2>2
<1>6. toSink' = [q \in Workers \cup {Source} |-> <<>>]
  <2>1. PICK lost \in [Workers -> 0..HWM] :
          /\ \A w \in Workers : lost[w] <= Len(toSink[w])
          /\ toSink' = [q \in Workers \cup {Source} |->
                          IF q = Source THEN <<>>
                          ELSE SubSeq(toSink[q], lost[q] + 1, Len(toSink[q]))]
    BY DEF ServerStarts
  <2>2. \A w \in Workers : SubSeq(toSink[w], lost[w] + 1, Len(toSink[w])) = <<>>
    BY <1>3, <1>4, <2>1
  <2> QED BY <2>1, <2>2
<1>7. /\ UNCHANGED <<control, wPc, wMsg>>
      /\ input' \in Inputs
      /\ srcPc' = "wait" /\ docNum' = 0 /\ srcOk' = TRUE
      /\ sinkCreated' = FALSE /\ snkPc' = "setup" /\ snkOk' = TRUE
      /\ ndocs' = 0 /\ ndocsKnown' = FALSE
      /\ ndocsReceived' = 0 /\ ndocsWritten' = 0
      /\ unwritten' = [n \in {} |-> EmptyDoc] /\ written' = <<>>
      /\ status' = "running" /\ subscribed' = {}
  BY DEF ServerStarts, workerVars
<1>8. wPc \in [Workers -> {"off", "poll", "done", "dead"}]
  BY <1>3 DEF RunInv, TypeOK
<1> QED BY <1>5, <1>6, <1>7, <1>8 DEF Fresh, RunInv, TypeOK

(* Within a run nothing of the server fails.                               *)
LEMMA NoFailureStep ==
  ASSUME OnlyWorkersFail, NoFailure, [Next]_vars
  PROVE  NoFailure'
<1> USE DEF NoFailure, SourceStep, SinkStep, sourceVars, sinkVars, counters, results, netVars
<1>1. ~ServerFails
  BY DEF OnlyWorkersFail, ServerFails, SourceSetupFails, SourceSendFails,
         SourceSendCountFails, SinkSetupFails, SinkRecvFails, SinkPublishFails
<1>2. CASE SourceNext
  BY <1>2 DEF OnlyWorkersFail, SourceNext, SourceWait, SourceSetup, SourceSendDocument,
              SourceEndOfInput, SourceSendCount, SourceClose
<1>3. CASE SinkNext
  BY <1>3 DEF OnlyWorkersFail, SinkNext, SinkSetup, SinkFlush, SinkFlushEnds,
              SinkRecvDocument, SinkRecvCount, SinkLoopEnds, SinkPublish, SinkClose
<1>4. CASE MainExits
  BY <1>4 DEF MainExits
<1>5. ASSUME NEW w \in Workers, WorkerNext(w) \/ WorkerFails(w)
      PROVE  NoFailure'
  BY <1>5 DEF WorkerNext, WorkerRejects, WorkerFails, WorkerDies, WorkerStart,
              SubscriptionArrives, WorkerRecvDocument, WorkerReply, WorkerTerminate
<1>6. CASE Exited \/ UNCHANGED vars
  BY <1>6 DEF Exited, vars
<1> QED BY <1>1, <1>2, <1>3, <1>4, <1>5, <1>6 DEF Next

(* Every step, of a run or to the next, preserves the invariant.           *)
LEMMA RunInvStep ==
  ASSUME OnlyWorkersFail, RunInv, [RunNext]_runVars
  PROVE  RunInv'
<1>1. CASE [Next]_vars
  <2>1. TypeOK' /\ OrderInv' /\ Delivery'
    BY <1>1, TypeStep, OrderStep, DeliveryStep DEF RunInv
  <2>2. NoFailure'
    BY <1>1, NoFailureStep DEF RunInv
  <2> QED BY <2>1, <2>2 DEF RunInv
<1>2. CASE ServerStarts
  <2>1. Fresh'
    BY <1>2, StartsFresh
  <2>2. (Fresh => RunInv)'
    BY FreshInv, PTL
  <2> QED BY <2>1, <2>2
<1> QED BY <1>1, <1>2 DEF RunNext, runVars

LEMMA RunInvPreserved ==
  ASSUME OnlyWorkersFail
  PROVE  RunSpec => []RunInv
<1>1. RunInv /\ [RunNext]_runVars => RunInv'
  BY RunInvStep
<1> QED BY <1>1, RunInvInit, PTL DEF RunSpec

-----------------------------------------------------------------------------
(* A run that ends with success leaves nothing behind that the next could  *)
(* take for its own, whichever workers died in it: no message says which   *)
(* run it belongs to, so this is all that keeps the runs apart.            *)
THEOREM RunsIsolated ==
  ASSUME OnlyWorkersFail
  PROVE  RunSpec => []NothingLeftBehind
<1>1. RunInv => NothingLeftBehind
  BY EndedClean, NothingInFlight DEF RunInv, NothingLeftBehind
<1> QED BY <1>1, RunInvPreserved, PTL

(* The safety of EveryRunDelivers: a run delivers documents of its own     *)
(* input, each once, and ends only when all are; then another may start.   *)
RunsDeliverTheirOwn ==
  Pipe!Init /\ [][Pipe!Progress \/ Pipe!Again]_(Pipe!pipeVars)

(* The runs of dr-dist, one after the other with the same workers, are     *)
(* runs of the abstract pipe that does not give up: none delivers a        *)
(* document of an earlier one or skips, repeats or alters one of its own.  *)
THEOREM RunsImplementPipe ==
  ASSUME OnlyWorkersFail
  PROVE  RunSpec => RunsDeliverTheirOwn
<1>1. RunInit => Pipe!Init
  BY DEF RunInit, Init, Pipe!Init
<1>2. ASSUME RunInv, RunInv', [RunNext]_runVars
      PROVE  [Pipe!Progress \/ Pipe!Again]_(Pipe!pipeVars)
  <2>1. CASE [Next]_vars
    <3>1. [Pipe!Next]_(Pipe!pipeVars)
      BY <1>2, <2>1, PipeRefinesStep DEF RunInv
    <3>2. ~Pipe!GiveUp
      BY <1>2 DEF RunInv, NoFailure, Pipe!GiveUp
    <3> QED BY <3>1, <3>2 DEF Pipe!Next
  <2>2. CASE ServerStarts
    <3>1. status # "running"
      BY <2>2 DEF OnlyWorkersFail, ServerStarts
    <3>2. Pipe!Again
      BY <2>2, <3>1 DEF ServerStarts, Pipe!Again
    <3> QED BY <3>2
  <2> QED BY <1>2, <2>1, <2>2 DEF RunNext, runVars
<1> QED BY <1>1, <1>2, RunInvPreserved, PTL DEF RunSpec, RunsDeliverTheirOwn
=============================================================================
