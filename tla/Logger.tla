-------------------------------- MODULE Logger --------------------------------
(***************************************************************************)
(* The thread-safe loggers: a statement                                    *)
(*     LOG(level) << part << part << std::endl;                            *)
(* locks the logger when LOG is evaluated, appends to a buffer that all    *)
(* threads share, and unlocks when std::endl syncs the buffer. The lock    *)
(* is held from one function's call to another's. Every statement ends in  *)
(* std::endl, as all of the repository do, and has no LOG among its parts: *)
(* one that did not, or had, would keep the lock for ever.                 *)
(*                                                                         *)
(* A piece of output is <<thread, number of the statement, part>>; part 0  *)
(* is the header.                                                          *)
(***************************************************************************)
EXTENDS Integers, Sequences, FiniteSets

CONSTANTS
  Threads,
  NoThread,   \* the owner of a free lock
  Levels,     \* the values of LogLevel in use
  Threshold,  \* the logger's
  NStatements,\* how many statements each thread executes
  NParts      \* how many parts each statement inserts after the header

INFO == 20    \* LogLevel::INFO

ASSUME LoggerAssumption ==
  /\ NoThread \notin Threads
  /\ Levels \subseteq Nat /\ INFO \in Levels
  /\ Threshold \in Nat
  /\ NStatements \in Nat
  /\ NParts \in Nat

VARIABLES
  says,   \* the level of each thread's statements, fixed by the program
  pc,     \* where each thread is in its statement
  stmt,   \* the number of the statement that each thread is at
  part,   \* the next part it inserts
  lock,   \* the thread that has locked the stream buffer
  level,  \* _level of the stream buffer
  buf,    \* what the stream buffer holds
  out     \* what has been written to *_out

vars == <<says, pc, stmt, part, lock, level, buf, out>>

Statements == 1..NStatements

Init ==
  /\ says \in [Threads -> [Statements -> Levels]]
  /\ pc = [t \in Threads |-> "between"]
  /\ stmt = [t \in Threads |-> 1]
  /\ part = [t \in Threads |-> 0]
  /\ lock = NoThread
  /\ level = INFO
  /\ buf = <<>>
  /\ out = <<>>

Goto(t, from, to) == pc[t] = from /\ pc' = [pc EXCEPT ![t] = to]

Lock(t) ==
  /\ stmt[t] \in Statements
  /\ Goto(t, "between", "level")
  /\ lock = NoThread
  /\ lock' = t
  /\ UNCHANGED <<says, stmt, part, level, buf, out>>

SetLevel(t) ==
  /\ Goto(t, "level", "insert")
  /\ level' = says[t][stmt[t]]
  /\ UNCHANGED <<says, stmt, part, lock, buf, out>>

(* The header, then what the statement inserts.                            *)
Insert(t) ==
  /\ pc[t] = "insert"
  /\ buf' = Append(buf, <<t, stmt[t], part[t]>>)
  /\ IF part[t] < NParts
     THEN part' = [part EXCEPT ![t] = @ + 1] /\ UNCHANGED pc
     ELSE part' = [part EXCEPT ![t] = 0] /\ Goto(t, "insert", "sync")
  /\ UNCHANGED <<says, stmt, lock, level, out>>

Sync_AboveOnly(t) ==
  /\ Goto(t, "sync", "unlock")
  /\ out' = IF level > Threshold THEN out \o buf ELSE out
  /\ buf' = <<>>
  /\ UNCHANGED <<says, stmt, part, lock, level>>

(* BasicLogger::Streambuf::sync.                                           *)
Sync(t) ==
  /\ Goto(t, "sync", "unlock")
  /\ out' = IF level >= Threshold THEN out \o buf ELSE out
  /\ buf' = <<>>
  /\ UNCHANGED <<says, stmt, part, lock, level>>

Unlock_IfWritten(t) ==
  /\ Goto(t, "unlock", "between")
  /\ lock' = IF level >= Threshold THEN NoThread ELSE lock
  /\ stmt' = [stmt EXCEPT ![t] = @ + 1]
  /\ UNCHANGED <<says, part, level, buf, out>>

(* The end of ThreadsafeBasicLogger::Streambuf::sync, and of the statement.*)
Unlock(t) ==
  /\ Goto(t, "unlock", "between")
  /\ lock' = NoThread
  /\ stmt' = [stmt EXCEPT ![t] = @ + 1]
  /\ UNCHANGED <<says, part, level, buf, out>>

Step(t) == Lock(t) \/ SetLevel(t) \/ Insert(t) \/ Sync(t) \/ Unlock(t)

Done == \A t \in Threads : pc[t] = "between" /\ stmt[t] = NStatements + 1

(* Every thread has left its program.                                      *)
Finished == Done /\ UNCHANGED vars

Next == (\E t \in Threads : Step(t)) \/ Finished

(* The operating system runs every thread that can run, and a thread waits *)
(* for the lock only as long as others hold it.                            *)
Fairness == \A t \in Threads : WF_vars(Step(t))

Spec == Init /\ [][Next]_vars
FairSpec == Spec /\ Fairness
-----------------------------------------------------------------------------
(* Has the statement been synced?                                          *)
Synced(t, n) == n < stmt[t] \/ (n = stmt[t] /\ pc[t] = "unlock")

(* The output is a sequence of whole messages: no thread's parts stand     *)
(* between the header and the end of another's. They are the statements    *)
(* that have been synced and whose own level reaches the threshold, each   *)
(* once, in the order of their thread: no thread's level decides about     *)
(* another's message.                                                      *)
WholeMessages ==
  /\ \A i \in DOMAIN out :
       out[i][3] < NParts =>
         /\ i + 1 \in DOMAIN out
         /\ out[i + 1] = <<out[i][1], out[i][2], out[i][3] + 1>>
  /\ \A t \in Threads, n \in Statements :
       Cardinality({i \in DOMAIN out : out[i] = <<t, n, 0>>})
         = IF Synced(t, n) /\ says[t][n] >= Threshold THEN 1 ELSE 0
  /\ \A i, j \in DOMAIN out :
       i < j /\ out[i][1] = out[j][1] => out[i][2] <= out[j][2]

(* Every statement returns: sync always frees the lock, written or not.    *)
AllReturn == <>Done
=============================================================================
