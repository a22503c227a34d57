---------------------------- MODULE DrDistRestart ----------------------------
(***************************************************************************)
(* Several runs of dr-dist on the same ports, one after the other, with    *)
(* workers that outlive a run: --kill-clients=false asks for that, and a   *)
(* server that is killed leaves its workers behind. ZeroMQ reconnects a    *)
(* worker's three sockets to the next server; nothing in a message says    *)
(* which run it belongs to.                                                *)
(***************************************************************************)
EXTENDS DrDist

CONSTANT MaxRuns    \* bound on the number of runs

ASSUME MaxRunsAssumption == MaxRuns \in Nat \ {0}

VARIABLE run        \* the number of the current run

runVars == <<vars, run>>

RunInit == Init /\ run = 1

(* A new server process: its state is that of a fresh start. What the old  *)
(* server had not transmitted to a worker, and what a worker had           *)
(* transmitted that the old sink had not received, is gone; what a worker  *)
(* has received or not yet transmitted is still there.                     *)
ServerStarts ==
  /\ run < MaxRuns
  /\ status # "running" \/ "server" \in Faults
  /\ run' = run + 1
  /\ input' \in Inputs
  /\ srcPc' = "wait" /\ docNum' = 0 /\ srcOk' = TRUE
  /\ sinkCreated' = FALSE /\ snkPc' = "setup" /\ snkOk' = TRUE
  /\ ndocs' = 0 /\ ndocsKnown' = FALSE
  /\ ndocsReceived' = 0 /\ ndocsWritten' = 0
  /\ unwritten' = [n \in {} |-> EmptyDoc] /\ written' = <<>>
  /\ status' = "running"
  /\ \E kept \in [Workers -> 0..HWM] :
       /\ \A w \in Workers : kept[w] <= Len(toWorker[w])
       /\ toWorker' = [w \in Workers |-> SubSeq(toWorker[w], 1, kept[w])]
  /\ \E lost \in [Workers -> 0..HWM] :
       /\ \A w \in Workers : lost[w] <= Len(toSink[w])
       /\ toSink' = [q \in Workers \cup {Source} |->
                       IF q = Source THEN <<>>
                       ELSE SubSeq(toSink[q], lost[q] + 1, Len(toSink[q]))]
  /\ subscribed' = {}
  /\ UNCHANGED <<control, workerVars>>

RunNext ==
  \/ Next /\ UNCHANGED run
  \/ ServerStarts

RunSpec == RunInit /\ [][RunNext]_runVars

(* In every run the threads and the workers are scheduled as in DrDist;    *)
(* nobody has to start another run.                                        *)
RunFairness ==
  /\ WF_runVars(SourceNext /\ UNCHANGED run)
  /\ WF_runVars(SinkNext /\ UNCHANGED run)
  /\ WF_runVars(MainExits /\ UNCHANGED run)
  /\ \A w \in Workers : WF_runVars(WorkerNext(w) /\ UNCHANGED run)

RunFairSpec == RunSpec /\ RunFairness

-----------------------------------------------------------------------------
(* A run that ended with success leaves nothing behind that the next run   *)
(* could take for its own: the runs of surviving workers are isolated.     *)
NothingLeftBehind ==
  status = "success" => InFlight = {} /\ toSink[Source] = <<>>

(* Without failures every run finishes, the later ones with the workers of *)
(* the first: all its documents are delivered once, none of an earlier     *)
(* run, and main returns 0.                                                *)
EveryRunDelivers == Pipe!LiveRuns
=============================================================================
