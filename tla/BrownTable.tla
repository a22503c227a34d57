------------------------------ MODULE BrownTable ------------------------------
(***************************************************************************)
(* The threads that fill the tables w and L of the Brown clusterer: each   *)
(* takes the next entry from the vector indices under upto_mutex, computes *)
(* it without the mutex and comes back for more. L is computed from w: its *)
(* threads start when those of w have been joined.                         *)
(*                                                                         *)
(* The entries are those of indices, the pairs of clusters of the window.  *)
(* _compute_L also reads the row and column of w that belong to a cluster  *)
(* about to enter: they are not in indices, no thread fills them, and what *)
(* they hold at this point is whatever the allocation left there.          *)
(*                                                                         *)
(* An entry is the position of its (c1, c2) in indices. _nthreads == 1     *)
(* fills the tables in one loop: the same as one thread.                   *)
(***************************************************************************)
EXTENDS Integers, FiniteSets

CONSTANTS
  Threads,    \* the threads started for a table
  NoThread,   \* the owner of a free mutex
  NRows       \* _nclusters, the number of rows

ASSUME BrownTableAssumption ==
  /\ Threads # {}           \* _initialise refuses nthreads == 0
  /\ NoThread \notin Threads
  /\ NRows \in Nat

VARIABLES
  table,     \* the table being filled, "done" after the last
  upto,      \* the position in indices of the next entry
  mutex,     \* the thread that has locked upto_mutex
  threadPc,  \* where each thread is
  job,       \* the entry each thread has read from indices
  computed   \* how often each entry of each table has been computed

tableVars == <<table, upto, mutex, threadPc, job, computed>>

Tables == {"w", "L"}

(* w has an entry for c1 <= c2, L for c1 < c2.                             *)
NIndices(t) == IF t = "w" THEN (NRows * (NRows + 1)) \div 2
               ELSE (NRows * (NRows - 1)) \div 2

Entries(t) == 0..(NIndices(t) - 1)

TableInit ==
  /\ table = "w"
  /\ upto = 0
  /\ mutex = NoThread
  /\ threadPc = [t \in Threads |-> "lock"]
  /\ job = [t \in Threads |-> 0]
  /\ computed = [b \in Tables |-> [e \in Entries(b) |-> 0]]

Lock_NoMutex(t) ==
  /\ threadPc[t] = "lock"
  /\ threadPc' = [threadPc EXCEPT ![t] = "check"]
  /\ UNCHANGED <<table, upto, mutex, job, computed>>

Lock(t) ==
  /\ threadPc[t] = "lock"
  /\ mutex = NoThread
  /\ mutex' = t
  /\ threadPc' = [threadPc EXCEPT ![t] = "check"]
  /\ UNCHANGED <<table, upto, job, computed>>

Exhausted == upto = NIndices(table)

Read(t) ==
  /\ threadPc[t] = "check"
  /\ ~Exhausted
  /\ job' = [job EXCEPT ![t] = upto]
  /\ threadPc' = [threadPc EXCEPT ![t] = "take"]
  /\ UNCHANGED <<table, upto, mutex, computed>>

Exit_KeepsMutex(t) ==
  /\ threadPc[t] = "check"
  /\ Exhausted
  /\ threadPc' = [threadPc EXCEPT ![t] = "exited"]
  /\ UNCHANGED <<table, upto, mutex, job, computed>>

Exit(t) ==
  /\ threadPc[t] = "check"
  /\ Exhausted
  /\ mutex' = NoThread
  /\ threadPc' = [threadPc EXCEPT ![t] = "exited"]
  /\ UNCHANGED <<table, upto, job, computed>>

Take(t) ==
  /\ threadPc[t] = "take"
  /\ upto' = upto + 1
  /\ mutex' = NoThread
  /\ threadPc' = [threadPc EXCEPT ![t] = "compute"]
  /\ UNCHANGED <<table, job, computed>>

Compute(t) ==
  /\ threadPc[t] = "compute"
  /\ computed' = [computed EXCEPT ![table][job[t]] = @ + 1]
  /\ threadPc' = [threadPc EXCEPT ![t] = "lock"]
  /\ UNCHANGED <<table, upto, mutex, job>>

Joined_First == \E t \in Threads : threadPc[t] = "exited"

Joined == \A t \in Threads : threadPc[t] = "exited"

(* Every thread has been joined: the next table gets an upto, a mutex and  *)
(* threads of its own.                                                     *)
Join ==
  /\ table \in Tables
  /\ Joined
  /\ IF table = "w"
     THEN /\ table' = "L"
          /\ upto' = 0
          /\ mutex' = NoThread
          /\ threadPc' = [t \in Threads |-> "lock"]
          /\ job' = [t \in Threads |-> 0]
     ELSE /\ table' = "done"
          /\ UNCHANGED <<upto, mutex, threadPc, job>>
  /\ UNCHANGED computed

ThreadNext(t) == Lock(t) \/ Read(t) \/ Exit(t) \/ Take(t) \/ Compute(t)

TableFinished == table = "done" /\ UNCHANGED tableVars

TableNext == Join \/ (\E t \in Threads : ThreadNext(t)) \/ TableFinished

(* The operating system runs every thread that can run.                    *)
TableFairness == WF_tableVars(Join) /\ \A t \in Threads : WF_tableVars(ThreadNext(t))

TableSpec == TableInit /\ [][TableNext]_tableVars
TableFairSpec == TableSpec /\ TableFairness
-----------------------------------------------------------------------------
(* The state's types: upto and every entry that a thread has read stay     *)
(* within indices, which the test "upto == indices.size()" relies on.      *)
TableTypeOK ==
  /\ table \in Tables \cup {"done"}
  /\ upto \in 0..NIndices(table)
  /\ mutex \in Threads \cup {NoThread}
  /\ threadPc \in [Threads -> {"lock", "check", "take", "compute", "exited"}]
  /\ job \in [Threads -> Nat]
  /\ \A t \in Threads : threadPc[t] \in {"take", "compute"} => job[t] \in Entries(table)
  /\ DOMAIN computed = Tables
  /\ \A b \in Tables : computed[b] \in [Entries(b) -> Nat]

(* No two threads take the same entry, and none takes one that has been    *)
(* computed: whatever the interleaving, an entry is computed once.         *)
ComputedOnce ==
  /\ \A b \in Tables : \A e \in Entries(b) : computed[b][e] <= 1
  /\ \A t, u \in Threads :
       t # u /\ threadPc[t] = "compute" /\ threadPc[u] = "compute" => job[t] # job[u]

(* Every entry of w in indices, a pair of clusters of the window, has been *)
(* computed once before a thread starts on L, and every such entry of L    *)
(* when the clusterer goes on. (The newcomer's column of w, which L's      *)
(* threads read too, is none of these: see above.)                         *)
TablesComplete ==
  /\ table # "w" => \A e \in Entries("w") : computed["w"][e] = 1
  /\ table = "done" => \A e \in Entries("L") : computed["L"][e] = 1
=============================================================================
