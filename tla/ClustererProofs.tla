--------------------------- MODULE ClustererProofs ---------------------------
(***************************************************************************)
(* For every set of threads, number of tokens and of clusters: an entry of *)
(* a table is computed once, and those of all pairs of the window's        *)
(* clusters before the next table or the insertions begin; what the window *)
(* keeps while it inserts and merges; and that what is proved of the       *)
(* threads and of the window holds of the clusterer that runs both,        *)
(* because each part takes its own steps and no others.                    *)
(***************************************************************************)
EXTENDS Clusterer, TLAPS

-----------------------------------------------------------------------------
(* The threads and the tables. *)

(* The thread inside the critical section, and no other, owns the mutex.   *)
MutexHeld == \A t \in Threads : threadPc[t] \in {"check", "take"} <=> mutex = t

(* The entry about to be claimed is the one upto points at.                *)
Claiming ==
  \A t \in Threads : threadPc[t] = "take" => job[t] = upto /\ upto \in Entries(table)

(* A claimed entry lies behind upto, is nobody else's, and is not computed *)
(* before its owner computes it.                                           *)
Claimed ==
  /\ \A t \in Threads :
       threadPc[t] = "compute" => /\ job[t] \in Entries(table)
                            /\ job[t] < upto
                            /\ computed[table][job[t]] = 0
  /\ \A t, u \in Threads :
       t # u /\ threadPc[t] = "compute" /\ threadPc[u] = "compute" => job[t] # job[u]

(* Entries are computed at most once, none before it is claimed.           *)
NotBefore ==
  /\ \A b \in Tables : \A e \in Entries(b) : computed[b][e] <= 1
  /\ table \in Tables =>
       \A e \in Entries(table) : e >= upto => computed[table][e] = 0
  /\ table = "w" => \A e \in Entries("L") : computed["L"][e] = 0

(* What was claimed has been computed or is being computed.                *)
NothingLost ==
  table \in Tables =>
    \A e \in Entries(table) :
      e < upto => \/ computed[table][e] = 1
                  \/ \E t \in Threads : threadPc[t] = "compute" /\ job[t] = e

(* A thread leaves only when everything has been claimed.                  *)
ExitedAtEnd ==
  \A t \in Threads : threadPc[t] = "exited" => upto = NIndices(table)

(* Nobody works after the last table.                                      *)
DoneIsIdle == table = "done" => \A t \in Threads : threadPc[t] = "exited"

TableIInv ==
  /\ TableTypeOK
  /\ MutexHeld
  /\ Claiming
  /\ Claimed
  /\ NotBefore
  /\ NothingLost
  /\ ExitedAtEnd
  /\ DoneIsIdle
  /\ TablesComplete
-----------------------------------------------------------------------------
(* The number of entries of a table is a natural number.                   *)
LEMMA NIndicesNat == \A b : NIndices(b) \in Nat
<1>1. NRows * (NRows + 1) \in Nat
  BY BrownTableAssumption, SMT
<1>2. NRows * (NRows - 1) \in Nat
  <2>1. CASE NRows = 0
    BY <2>1, SMT
  <2>2. CASE NRows # 0
    <3>1. NRows - 1 \in Nat
      BY <2>2, BrownTableAssumption, SMT
    <3> QED BY <3>1, BrownTableAssumption, SMT
  <2> QED BY <2>1, <2>2
<1>3. ASSUME NEW n \in Nat PROVE n \div 2 \in Nat
  BY SMT
<1>4. /\ (NRows * (NRows + 1)) \div 2 \in Nat
      /\ (NRows * (NRows - 1)) \div 2 \in Nat
  BY <1>1, <1>2, <1>3
<1> QED BY <1>4 DEF NIndices

(* The first table starts with nothing claimed and nothing computed.       *)
LEMMA TableInitKeeps == TableInit => TableIInv
<1> SUFFICES ASSUME TableInit PROVE TableIInv
  OBVIOUS
<1>1. "w" # "L" /\ "w" # "done" /\ "L" # "done"
  OBVIOUS
<1>2. NIndices("w") \in Nat /\ NIndices("L") \in Nat
  BY NIndicesNat
<1> QED
  BY <1>1, <1>2, BrownTableAssumption
  DEF TableInit, TableIInv, TableTypeOK, Tables, Entries, MutexHeld, Claiming, Claimed,
      NotBefore, NothingLost, ExitedAtEnd, DoneIsIdle, TablesComplete
-----------------------------------------------------------------------------
(* The steps inside the critical section: no two threads are in it.        *)
LEMMA LockKeeps ==
  ASSUME TableIInv, NEW t \in Threads, Lock(t) PROVE TableIInv'
<1> USE DEF TableIInv, Lock
<1>1. TableTypeOK' BY BrownTableAssumption DEF TableTypeOK, Entries
<1>2. MutexHeld' BY BrownTableAssumption DEF TableTypeOK, MutexHeld
<1>3. Claiming' BY DEF TableTypeOK, Claiming, Entries
<1>4. Claimed' BY DEF TableTypeOK, Claimed, Entries
<1>5. NotBefore' BY DEF NotBefore, Entries
<1>6. NothingLost' BY DEF TableTypeOK, NothingLost, Entries
<1>7. ExitedAtEnd' BY DEF TableTypeOK, ExitedAtEnd
<1>8. DoneIsIdle' BY DEF TableTypeOK, DoneIsIdle
<1>9. TablesComplete' BY DEF TablesComplete, Entries
<1> QED BY <1>1, <1>2, <1>3, <1>4, <1>5, <1>6, <1>7, <1>8, <1>9

LEMMA TakeNextKeeps ==
  ASSUME TableIInv, NEW t \in Threads, Read(t) PROVE TableIInv'
<1> USE DEF TableIInv, Read, Exhausted
<1>0. upto \in Entries(table)
  BY NIndicesNat DEF TableTypeOK, Entries
<1>1. TableTypeOK' BY <1>0 DEF TableTypeOK, Entries
<1>2. MutexHeld' BY DEF TableTypeOK, MutexHeld
<1>3. Claiming' BY <1>0, BrownTableAssumption DEF TableTypeOK, Claiming, Entries, MutexHeld
<1>4. Claimed' BY DEF TableTypeOK, Claimed, Entries
<1>5. NotBefore' BY DEF NotBefore, Entries
<1>6. NothingLost' BY DEF TableTypeOK, NothingLost, Entries
<1>7. ExitedAtEnd' BY DEF TableTypeOK, ExitedAtEnd
<1>8. DoneIsIdle' BY DEF TableTypeOK, DoneIsIdle
<1>9. TablesComplete' BY DEF TablesComplete, Entries
<1> QED BY <1>1, <1>2, <1>3, <1>4, <1>5, <1>6, <1>7, <1>8, <1>9

LEMMA ExitKeeps ==
  ASSUME TableIInv, NEW t \in Threads, Exit(t) PROVE TableIInv'
<1> USE DEF TableIInv, Exit, Exhausted
<1>1. TableTypeOK' BY DEF TableTypeOK, Entries
<1>2. MutexHeld' BY BrownTableAssumption DEF TableTypeOK, MutexHeld
<1>3. Claiming' BY DEF TableTypeOK, Claiming, Entries
<1>4. Claimed' BY DEF TableTypeOK, Claimed, Entries
<1>5. NotBefore' BY DEF NotBefore, Entries
<1>6. NothingLost' BY DEF TableTypeOK, NothingLost, Entries
<1>7. ExitedAtEnd' BY DEF TableTypeOK, ExitedAtEnd
<1>8. DoneIsIdle' BY DEF TableTypeOK, DoneIsIdle
<1>9. TablesComplete' BY DEF TablesComplete, Entries
<1> QED BY <1>1, <1>2, <1>3, <1>4, <1>5, <1>6, <1>7, <1>8, <1>9

(* The claim: what upto points at becomes t's, and upto moves past it.     *)
LEMMA TakeKeeps ==
  ASSUME TableIInv, NEW t \in Threads, Take(t) PROVE TableIInv'
<1> USE DEF TableIInv, Take
<1>a. NIndices(table) \in Nat
  BY NIndicesNat
<1>b. job[t] = upto /\ upto \in Entries(table) /\ mutex = t /\ table \in Tables
  BY DEF Claiming, MutexHeld, DoneIsIdle, TableTypeOK
<1>c. \A u \in Threads \ {t} : threadPc[u] \notin {"check", "take"}
  BY <1>b DEF MutexHeld
<1>1. TableTypeOK' BY <1>a, <1>b DEF TableTypeOK, Entries
<1>2. MutexHeld' BY <1>c, BrownTableAssumption DEF TableTypeOK, MutexHeld
<1>3. Claiming' BY <1>c DEF TableTypeOK, Claiming
<1>4. Claimed' 
  <2>1. \A u \in Threads : threadPc'[u] = "compute" =>
          /\ job[u] \in Entries(table)
          /\ job[u] < upto'
          /\ computed[table][job[u]] = 0
    BY <1>b DEF TableTypeOK, Claimed, Entries, NotBefore
  <2>2. \A u \in Threads : u # t /\ threadPc[u] = "compute" => job[u] # job[t]
    BY <1>b DEF TableTypeOK, Claimed, Entries
  <2> QED BY <2>1, <2>2 DEF TableTypeOK, Claimed, Entries
<1>5. NotBefore' BY DEF TableTypeOK, NotBefore, Entries
<1>6. NothingLost'
  <2> SUFFICES ASSUME NEW e \in Entries(table), e < upto + 1
               PROVE  \/ computed[table][e] = 1
                      \/ \E u \in Threads : threadPc'[u] = "compute" /\ job[u] = e
    BY DEF NothingLost, Entries
  <2>1. CASE e = upto
    BY <2>1, <1>b DEF TableTypeOK
  <2>2. CASE e < upto
    BY <2>2, <1>b DEF TableTypeOK, NothingLost
  <2> QED BY <2>1, <2>2, <1>b DEF TableTypeOK, Entries
<1>7. ExitedAtEnd' BY <1>a, <1>b DEF TableTypeOK, ExitedAtEnd, Entries
<1>8. DoneIsIdle' BY <1>b DEF DoneIsIdle, Tables
<1>9. TablesComplete' BY DEF TablesComplete, Entries
<1> QED BY <1>1, <1>2, <1>3, <1>4, <1>5, <1>6, <1>7, <1>8, <1>9
-----------------------------------------------------------------------------
(* The computation, outside the critical section: the entry is t's alone.  *)
LEMMA ComputeKeeps ==
  ASSUME TableIInv, NEW t \in Threads, Compute(t) PROVE TableIInv'
<1> USE DEF TableIInv, Compute
<1>a. NIndices(table) \in Nat
  BY NIndicesNat
<1>b. table \in Tables /\ table # "done" /\ table' = table
  BY DEF TableTypeOK, DoneIsIdle, Tables
<1>c. /\ job[t] \in Entries(table) /\ job[t] < upto
      /\ computed[table][job[t]] = 0
  BY DEF Claimed
<1>f. /\ computed' = [computed EXCEPT ![table] =
                         [computed[table] EXCEPT ![job[t]] = 1]]
      /\ DOMAIN computed = Tables
      /\ \A b \in Tables : computed[b] \in [Entries(b) -> Nat]
  BY <1>b, <1>c DEF TableTypeOK
<1>g. /\ DOMAIN computed' = Tables
      /\ computed'[table] = [computed[table] EXCEPT ![job[t]] = 1]
      /\ \A b \in Tables \ {table} : computed'[b] = computed[b]
  BY <1>f, <1>b
<1>d. /\ DOMAIN computed' = Tables
      /\ \A b \in Tables : \A e \in Entries(b) :
           computed'[b][e] = IF b = table /\ e = job[t] THEN 1
                             ELSE computed[b][e]
  <2> SUFFICES ASSUME NEW b \in Tables, NEW e \in Entries(b)
               PROVE  computed'[b][e] = IF b = table /\ e = job[t] THEN 1
                                        ELSE computed[b][e]
    BY <1>g
  <2>1. CASE b = table
    <3>1. computed[b] \in [Entries(b) -> Nat]
      BY <1>f
    <3> QED BY <3>1, <2>1, <1>c, <1>g
  <2>2. CASE b # table
    BY <2>2, <1>g
  <2> QED BY <2>1, <2>2
<1>e. \A b \in Tables : computed'[b] \in [Entries(b) -> Nat]
  BY <1>b, <1>c, <1>f, <1>g
<1>1. TableTypeOK' BY <1>b, <1>d, <1>e DEF TableTypeOK, Entries
<1>2. MutexHeld' BY BrownTableAssumption DEF TableTypeOK, MutexHeld
<1>3. Claiming' BY DEF TableTypeOK, Claiming, Entries
<1>4. Claimed'
  <2>1. \A u \in Threads : threadPc'[u] = "compute" => u # t /\ threadPc[u] = "compute"
    BY DEF TableTypeOK
  <2>2. ASSUME NEW u \in Threads, threadPc'[u] = "compute"
        PROVE  /\ job[u] \in Entries(table) /\ job[u] < upto
               /\ computed'[table][job[u]] = 0
    BY <2>1, <2>2, <1>b, <1>d DEF Claimed
  <2> QED BY <2>1, <2>2, <1>b DEF Claimed, Entries
<1>5. NotBefore'
  <2>1. \A b \in Tables : \A e \in Entries(b) : computed'[b][e] <= 1
    BY <1>d DEF TableTypeOK, NotBefore
  <2>2. \A e \in Entries(table) : e >= upto => computed'[table][e] = 0
    BY <1>b, <1>c, <1>d DEF TableTypeOK, NotBefore, Entries
  <2>3. table = "w" => \A e \in Entries("L") : computed'["L"][e] = 0
    BY <1>d DEF NotBefore, Tables
  <2> QED BY <2>1, <2>2, <2>3 DEF NotBefore, Entries
<1>6. NothingLost'
  <2> SUFFICES ASSUME NEW e \in Entries(table), e < upto
               PROVE  \/ computed'[table][e] = 1
                      \/ \E u \in Threads : threadPc'[u] = "compute" /\ job[u] = e
    BY DEF NothingLost, Entries
  <2>1. CASE e = job[t]
    BY <2>1, <1>b, <1>d
  <2>2. CASE e # job[t]
    <3>1. CASE computed[table][e] = 1
      BY <3>1, <2>2, <1>b, <1>d
    <3>2. CASE \E u \in Threads : threadPc[u] = "compute" /\ job[u] = e
      BY <3>2, <2>2 DEF TableTypeOK
    <3> QED BY <3>1, <3>2, <1>b DEF NothingLost
  <2> QED BY <2>1, <2>2
<1>7. ExitedAtEnd' BY DEF TableTypeOK, ExitedAtEnd
<1>8. DoneIsIdle' BY <1>b DEF DoneIsIdle
<1>9. TablesComplete'
  <2>1. table # "w" => \A e \in Entries("w") : computed'["w"][e] = 1
    BY <1>d DEF TablesComplete, Tables
  <2> QED BY <2>1, <1>b DEF TablesComplete, Entries
<1> QED BY <1>1, <1>2, <1>3, <1>4, <1>5, <1>6, <1>7, <1>8, <1>9
-----------------------------------------------------------------------------
(* When every thread has left, the table is whole.                         *)
LEMMA JoinedIsWhole ==
  ASSUME TableIInv, table \in Tables, Joined
  PROVE  \A e \in Entries(table) : computed[table][e] = 1
<1> SUFFICES ASSUME NEW e \in Entries(table) PROVE computed[table][e] = 1
  OBVIOUS
<1>1. PICK t \in Threads : threadPc[t] = "exited"
  BY BrownTableAssumption DEF Joined
<1>2. upto = NIndices(table)
  BY <1>1 DEF TableIInv, ExitedAtEnd
<1>3. e < upto
  BY <1>2, NIndicesNat DEF Entries
<1>4. \A u \in Threads : threadPc[u] # "compute"
  BY DEF Joined
<1> QED BY <1>3, <1>4 DEF TableIInv, NothingLost

LEMMA JoinKeeps == ASSUME TableIInv, Join PROVE TableIInv'
<1> USE DEF TableIInv
<1>w. \A e \in Entries(table) : computed[table][e] = 1
  BY JoinedIsWhole DEF Join
<1>n. NIndices("w") \in Nat /\ NIndices("L") \in Nat
  BY NIndicesNat
<1>c. computed' = computed
  BY DEF Join
<1>1. CASE table = "w"
  <2>0. /\ table' = "L" /\ upto' = 0 /\ mutex' = NoThread
        /\ threadPc' = [t \in Threads |-> "lock"]
        /\ job' = [t \in Threads |-> 0]
    BY <1>1 DEF Join
  <2>1. TableTypeOK' BY <2>0, <1>c, <1>n DEF TableTypeOK, Tables, Entries
  <2>2. MutexHeld' BY <2>0, BrownTableAssumption DEF MutexHeld
  <2>3. Claiming' /\ Claimed' BY <2>0 DEF Claiming, Claimed
  <2>4. NotBefore' BY <2>0, <1>1, <1>c DEF NotBefore, Entries
  <2>5. NothingLost' BY <2>0, <1>n DEF NothingLost, Entries
  <2>6. ExitedAtEnd' /\ DoneIsIdle' BY <2>0 DEF ExitedAtEnd, DoneIsIdle
  <2>7. TablesComplete' BY <2>0, <1>1, <1>c, <1>w DEF TablesComplete, Entries
  <2> QED BY <2>1, <2>2, <2>3, <2>4, <2>5, <2>6, <2>7
<1>2. CASE table = "L"
  <2>0. /\ table' = "done" /\ UNCHANGED <<upto, mutex, threadPc, job>>
        /\ NIndices("done") = NIndices("L")
    BY <1>2 DEF Join, NIndices
  <2>x. \A t \in Threads : threadPc[t] = "exited"
    BY DEF Join, Joined
  <2>1. TableTypeOK' BY <2>0, <2>x, <1>2, <1>c DEF TableTypeOK, Entries
  <2>2. MutexHeld' BY <2>0 DEF MutexHeld
  <2>3. Claiming' /\ Claimed' BY <2>0, <2>x DEF Claiming, Claimed
  <2>4. NotBefore' BY <2>0, <1>c DEF NotBefore, Entries, Tables
  <2>5. NothingLost' BY <2>0 DEF NothingLost, Tables
  <2>6. ExitedAtEnd' /\ DoneIsIdle'
    BY <2>0, <2>x, <1>2 DEF ExitedAtEnd, DoneIsIdle
  <2>7. TablesComplete' BY <2>0, <1>2, <1>c, <1>w DEF TablesComplete, Entries
  <2> QED BY <2>1, <2>2, <2>3, <2>4, <2>5, <2>6, <2>7
<1> QED BY <1>1, <1>2 DEF Join, Tables

LEMMA TableNextKeeps == TableIInv /\ [TableNext]_tableVars => TableIInv'
<1> SUFFICES ASSUME TableIInv, [TableNext]_tableVars PROVE TableIInv'
  OBVIOUS
<1>1. CASE Join
  BY <1>1, JoinKeeps
<1>2. ASSUME NEW t \in Threads, ThreadNext(t) PROVE TableIInv'
  BY <1>2, LockKeeps, TakeNextKeeps, ExitKeeps, TakeKeeps, ComputeKeeps
  DEF ThreadNext
<1>3. CASE UNCHANGED tableVars
  BY <1>3 DEF tableVars, TableIInv, TableTypeOK, Entries, MutexHeld, Claiming, Claimed,
     NotBefore, NothingLost, ExitedAtEnd, DoneIsIdle, TablesComplete
<1> QED BY <1>1, <1>2, <1>3 DEF TableNext, TableFinished

(* The inductive invariant holds in every reachable state.                 *)
THEOREM TableInvariant == TableSpec => []TableIInv
<1> QED BY TableInitKeeps, TableNextKeeps, PTL DEF TableSpec

(* upto and the entries the threads hold stay within indices, whatever the *)
(* number of threads (_initialise_w and _initialise_L).                    *)
THEOREM TableTypeCorrect == TableSpec => []TableTypeOK
<1>1. TableIInv => TableTypeOK BY DEF TableIInv
<1> QED BY <1>1, TableInvariant, PTL

(* The claim under upto_mutex gives every entry to one thread.             *)
THEOREM EntriesComputedOnce == TableSpec => []ComputedOnce
<1>1. TableIInv => ComputedOnce BY DEF TableIInv, NotBefore, Claimed, ComputedOnce
<1> QED BY <1>1, TableInvariant, PTL

(* join() returns only when no entry of indices is left out: every pair of *)
(* clusters of the window has its entry in w, computed once, before any    *)
(* thread of L starts, and its entry in L before the clusterer goes on     *)
(* (_initialise_w, _initialise_L). The newcomer's column of w, which       *)
(* _compute_L adds up as well, is not in indices: nothing fills it before  *)
(* L, and the theorem does not speak of it.                                *)
THEOREM TablesAreComplete == TableSpec => []TablesComplete
<1>1. TableIInv => TablesComplete BY DEF TableIInv
<1> QED BY <1>1, TableInvariant, PTL
-----------------------------------------------------------------------------
(* The window of clusters. *)

(* No token is ordered twice, so none enters the window twice.             *)
OrderedOnce == \A j, k \in Ids : j # k => ordered[j] # ordered[k]

(* The window is full when w is filled and when a token is inserted.       *)
WindowFull ==
  /\ pc = "fill" => i = NClusters
  /\ pc \in {"insert", "merge"} => NClusters <= i

IInv ==
  /\ TypeOK
  /\ OrderedOnce
  /\ WindowFull
  /\ Partition
  /\ WCurrent

LEMMA NClustersNat == NClusters \in Nat /\ NClusters <= NTokens
BY BrownWindowAssumption DEF NClusters
-----------------------------------------------------------------------------
(* The renumbering: the slots of the window are filled from all the slots  *)
(* but the one that was merged away, each from another, c1 from itself.    *)
LEMMA BelowRenumbers ==
  ASSUME NEW c1 \in Slots, NEW c2 \in Slots, c1 < c2
  PROVE  /\ \A c \in Window : Below(c1, c2, c) \in Slots \ {c2}
         /\ \A c, d \in Window :
              c # d => Below(c1, c2, c) # Below(c1, c2, d)
         /\ \A b \in Slots \ {c2} : \E c \in Window : Below(c1, c2, c) = b
         /\ c1 \in Window /\ Below(c1, c2, c1) = c1
         /\ \A c \in Slots : Below(c1, c2, c) \in Slots
<1> USE NClustersNat DEF Below, Slots, Window
<1>1. \A b \in Slots \ {c2} : \E c \in Window : Below(c1, c2, c) = b
  <2> TAKE b \in Slots \ {c2}
  <2>1. CASE b < c2
    <3>1. b \in Window /\ Below(c1, c2, b) = b BY <2>1
    <3> QED BY <3>1
  <2>2. CASE b > c2
    <3>1. b - 1 \in Window /\ Below(c1, c2, b - 1) = b BY <2>2
    <3> QED BY <3>1
  <2> QED BY <2>1, <2>2
<1> QED BY <1>1

(* What the merge leaves at a slot of the window.                          *)
LEMMA MergedAt ==
  ASSUME TypeOK, NEW c1 \in Slots, NEW c2 \in Slots, Merge(c1, c2),
         NEW c \in Window
  PROVE  clusters'[c] = IF c = c1 THEN clusters[c1] \cup clusters[c2]
                        ELSE clusters[Below(c1, c2, c)]
<1>0. c1 < c2
  BY DEF Merge
<1>1. c \in Slots /\ Below(c1, c2, c) \in Slots
  BY <1>0, BelowRenumbers, NClustersNat DEF Slots, Window
<1>2. clusters'[c] = Merged(c1, c2)[Below(c1, c2, c)]
  BY <1>1 DEF Merge
<1>3. CASE c = c1
  BY <1>0, <1>2, <1>3, BelowRenumbers DEF Merged, TypeOK
<1>4. CASE c # c1
  BY <1>0, <1>1, <1>2, <1>4, BelowRenumbers DEF Merged, TypeOK
<1> QED BY <1>3, <1>4
-----------------------------------------------------------------------------
(* The steps before the window exists.                                     *)
LEMMA InitIInv == Init => IInv
<1> SUFFICES ASSUME Init PROVE IInv
  OBVIOUS
<1>1. TypeOK
  BY BrownWindowAssumption DEF Init, TypeOK, Ids, Slots, Uninitialised
<1>2. OrderedOnce /\ WindowFull
  BY DEF Init, OrderedOnce, WindowFull, Ids
<1>3. Live = {} /\ Entered = {}
  BY DEF Init, Live, Entered
<1>4. Partition /\ WCurrent
  BY <1>3 DEF Partition, WCurrent
<1> QED BY <1>1, <1>2, <1>4 DEF IInv

LEMMA ReadKeeps == ASSUME IInv, ReadInput PROVE IInv'
<1> USE DEF IInv, ReadInput
<1>1. TypeOK'
  <2> PICK tmp \in [Ids -> 1..MaxCount], tid \in Ids \cup {0} :
        /\ counts' = tmp
        /\ unigram_counts' = [t \in Ids |-> tmp[tid]]
    OBVIOUS
  <2>1. counts' \in [Ids -> 0..MaxCount]
    BY BrownWindowAssumption
  <2>2. Ids # {} => tid \in Ids
    BY BrownWindowAssumption DEF Ids
  <2>3. unigram_counts' \in [Ids -> 0..MaxCount]
    BY <2>2, BrownWindowAssumption
  <2> QED BY <2>1, <2>3 DEF TypeOK
<1>2. OrderedOnce' /\ WindowFull'
  BY DEF OrderedOnce, WindowFull
<1>3. Live' = {} /\ Entered' = {}
  BY DEF Live, Entered
<1>4. Partition' /\ WCurrent'
  BY <1>3 DEF Partition, WCurrent
<1> QED BY <1>1, <1>2, <1>4

LEMMA OrderKeeps == ASSUME IInv, Order PROVE IInv'
<1> USE DEF IInv, Order
<1>1. TypeOK'
  BY DEF TypeOK
<1>2. OrderedOnce' /\ WindowFull'
  BY DEF OrderedOnce, WindowFull
<1>3. Live' = {} /\ Entered' = {}
  BY DEF Live, Entered
<1>4. Partition' /\ WCurrent'
  BY <1>3 DEF Partition, WCurrent
<1> QED BY <1>1, <1>2, <1>4
-----------------------------------------------------------------------------
(* The first tokens get the clusters of the window.                        *)
LEMMA PlaceKeeps == ASSUME IInv, Place PROVE IInv'
<1> USE DEF IInv, Place
<1>n. NClusters \in Nat /\ NClusters <= NTokens /\ NTokens \in Nat
  BY NClustersNat, BrownWindowAssumption
<1>b. Window \subseteq Ids /\ Window \subseteq Slots
  BY <1>n DEF Window, Ids, Slots
<1>c. /\ clusters' \in [Slots -> SUBSET Ids]
      /\ \A c \in Window : clusters'[c] = {ordered[c]}
  BY <1>b DEF TypeOK
<1>1. TypeOK'
  BY <1>n, <1>c DEF TypeOK
<1>2. OrderedOnce' /\ WindowFull'
  BY DEF OrderedOnce, WindowFull
<1>3. Live' = Window /\ Entered' = {ordered[k] : k \in Window}
  BY DEF Live, Entered, Window
<1>4. Partition'
  <2>1. UNION {clusters'[c] : c \in Window} = {ordered[k] : k \in Window}
    <3>1. UNION {clusters'[c] : c \in Window} = UNION {{ordered[c]} : c \in Window}
      BY <1>c
    <3>2. UNION {{ordered[c]} : c \in Window} = {ordered[k] : k \in Window}
      OBVIOUS
    <3> QED BY <3>1, <3>2
  <2>2. \A c, d \in Window : c # d => clusters'[c] \cap clusters'[d] = {}
    BY <1>b, <1>c DEF OrderedOnce
  <2>3. \A c \in Window : clusters'[c] # {}
    BY <1>c
  <2> QED BY <2>1, <2>2, <2>3, <1>3 DEF Partition
<1>5. WCurrent'
  BY DEF WCurrent
<1> QED BY <1>1, <1>2, <1>4, <1>5

(* The entries of w are computed from the clusters that were placed.       *)
LEMMA FillKeeps == ASSUME IInv, Fill PROVE IInv'
<1> USE DEF IInv, Fill
<1>n. NClusters \in Nat /\ NClusters <= NTokens /\ NTokens \in Nat
  BY NClustersNat, BrownWindowAssumption
<1>a. /\ pc' \in {"insert", "done"} /\ i' = NClusters
      /\ pc' = "insert" => NClusters # NTokens
  BY DEF After, WindowFull
<1>b. Window \subseteq Slots
  BY <1>n DEF Window, Slots
<1>d. /\ w' \in [Slots \X Slots -> SUBSET SUBSET Ids]
      /\ \A c, d \in Window : w'[<<c, d>>] = {clusters[c], clusters[d]}
  <2>1. \A e \in Slots \X Slots :
          e[1] \in Slots /\ e[2] \in Slots /\ w[e] \in SUBSET SUBSET Ids
    BY DEF TypeOK
  <2>2. \A e \in Slots \X Slots :
          compute_w(clusters, e[1], e[2]) \in SUBSET SUBSET Ids
    BY <2>1 DEF TypeOK, compute_w
  <2>3. w' \in [Slots \X Slots -> SUBSET SUBSET Ids]
    BY <2>1, <2>2
  <2>4. \A c, d \in Window : <<c, d>> \in Slots \X Slots
    BY <1>b
  <2> QED BY <2>3, <2>4 DEF compute_w
<1>1. TypeOK'
  <2>1. /\ i' \in 0..NTokens
        /\ pc' \in {"insert", "merge"} => i' \in Ids
    BY <1>a, <1>n DEF Ids
  <2> QED BY <2>1, <1>a, <1>d DEF TypeOK
<1>2. OrderedOnce' /\ WindowFull'
  BY <1>a, <1>n DEF OrderedOnce, WindowFull
<1>3. Live' = Live /\ Entered' = Entered
  BY <1>a DEF Live, Entered
<1>4. Partition'
  BY <1>3 DEF Partition
<1>5. Live' = Window
  BY <1>a DEF Live
<1>6. WCurrent'
  BY <1>5, <1>d DEF WCurrent
<1> QED BY <1>1, <1>2, <1>4, <1>6

(* A newcomer takes the last slot and gets its row and column of w.        *)
LEMMA InsertKeeps == ASSUME IInv, Insert PROVE IInv'
<1> USE DEF IInv, Insert
<1>n. NClusters \in Nat /\ NClusters <= NTokens /\ NTokens \in Nat
  BY NClustersNat, BrownWindowAssumption
<1>i. i \in Ids /\ ordered[i] \in Ids
  BY DEF TypeOK
<1>s. /\ Slots = Window \cup {NClusters} /\ NClusters \notin Window
      /\ NClusters \in Slots
  BY <1>n DEF Slots, Window
<1>c. /\ clusters' \in [Slots -> SUBSET Ids]
      /\ clusters'[NClusters] = {ordered[i]}
      /\ \A c \in Window : clusters'[c] = clusters[c]
  BY <1>i, <1>s DEF TypeOK
<1>w. /\ w' \in [Slots \X Slots -> SUBSET SUBSET Ids]
      /\ \A c, d \in Slots :
           w'[<<c, d>>] = IF c = NClusters \/ d = NClusters
                          THEN {clusters'[c], clusters'[d]} ELSE w[<<c, d>>]
  <2>1. \A e \in Slots \X Slots :
          e[1] \in Slots /\ e[2] \in Slots /\ w[e] \in SUBSET SUBSET Ids
    BY DEF TypeOK
  <2>2. \A e \in Slots \X Slots :
          compute_w(clusters', e[1], e[2]) \in SUBSET SUBSET Ids
    BY <2>1, <1>c DEF compute_w
  <2> QED BY <2>1, <2>2 DEF compute_w, NewRow
<1>l. Live = Window /\ Live' = Slots
  BY DEF Live
<1>e. /\ Entered = {ordered[k] : k \in 0..(i - 1)}
      /\ Entered' = Entered \cup {ordered[i]}
      /\ ordered[i] \notin Entered
  <2>1. /\ 0..i = (0..(i - 1)) \cup {i}
        /\ \A k \in 0..(i - 1) : k \in Ids /\ k # i
    BY <1>i, <1>n DEF Ids
  <2>2. /\ Entered = {ordered[k] : k \in 0..(i - 1)}
        /\ Entered' = {ordered[k] : k \in 0..i}
    BY DEF Entered
  <2> QED BY <2>1, <2>2, <1>i DEF OrderedOnce
<1>1. TypeOK'
  BY <1>c, <1>w DEF TypeOK
<1>2. OrderedOnce' /\ WindowFull'
  BY DEF OrderedOnce, WindowFull
<1>4. Partition'
  <2>1. \A c \in Window : clusters[c] # {} /\ ordered[i] \notin clusters[c]
    BY <1>l, <1>e DEF Partition
  <2>2. UNION {clusters'[c] : c \in Slots}
          = (UNION {clusters[c] : c \in Window}) \cup {ordered[i]}
    BY <1>s, <1>c
  <2>3. \A c, d \in Slots : c # d => clusters'[c] \cap clusters'[d] = {}
    BY <2>1, <1>s, <1>c, <1>l DEF Partition
  <2> QED BY <2>1, <2>2, <2>3, <1>c, <1>s, <1>l, <1>e DEF Partition
<1>5. WCurrent'
  <2> SUFFICES ASSUME NEW c \in Slots, NEW d \in Slots
               PROVE  w'[<<c, d>>] = {clusters'[c], clusters'[d]}
    BY <1>l DEF WCurrent
  <2>1. CASE c = NClusters \/ d = NClusters
    BY <2>1, <1>w
  <2>2. CASE c # NClusters /\ d # NClusters
    <3>1. c \in Window /\ d \in Window
      BY <2>2, <1>s
    <3>2. w[<<c, d>>] = {clusters[c], clusters[d]}
      BY <3>1, <1>l DEF WCurrent
    <3> QED BY <3>1, <3>2, <2>2, <1>w, <1>c
  <2> QED BY <2>1, <2>2
<1> QED BY <1>1, <1>2, <1>4, <1>5
-----------------------------------------------------------------------------
(* The merge: what is in the window afterwards is what was in the slots,   *)
(* renumbered, with the two clusters united.                               *)
LEMMA MergeKeeps ==
  ASSUME IInv, NEW c1 \in Slots, NEW c2 \in Slots, Merge(c1, c2)
  PROVE  IInv'
<1> DEFINE B(c) == Below(c1, c2, c)
<1>n. NClusters \in Nat /\ NClusters <= NTokens /\ NTokens \in Nat
  BY NClustersNat, BrownWindowAssumption
<1>t. TypeOK /\ pc = "merge" /\ c1 < c2
  BY DEF IInv, Merge
<1>i. i \in Ids /\ i + 1 \in 0..NTokens /\ (i + 1 # NTokens => i + 1 \in Ids)
  BY <1>t, <1>n DEF TypeOK, Ids
<1>a. /\ pc' \in {"insert", "done"} /\ i' = i + 1
      /\ pc' = "insert" => i + 1 # NTokens
  BY DEF Merge, After
<1>b. /\ \A c \in Window : B(c) \in Slots \ {c2}
      /\ \A c, d \in Window : c # d => B(c) # B(d)
      /\ \A b \in Slots \ {c2} : \E c \in Window : B(c) = b
      /\ c1 \in Window /\ B(c1) = c1
      /\ \A c \in Slots : B(c) \in Slots
  BY <1>t, BelowRenumbers
<1>m. \A c \in Window :
        clusters'[c] = IF c = c1 THEN clusters[c1] \cup clusters[c2]
                       ELSE clusters[B(c)]
  BY <1>t, MergedAt
<1>s. Window \subseteq Slots
  BY <1>n DEF Window, Slots
<1>c. clusters' \in [Slots -> SUBSET Ids]
  <2>1. Merged(c1, c2) \in [Slots -> SUBSET Ids]
    BY <1>t DEF Merged, TypeOK
  <2>2. clusters' = [c \in Slots |-> Merged(c1, c2)[B(c)]]
    BY DEF Merge
  <2> QED BY <2>1, <2>2, <1>b
<1>l. Live = Slots /\ Live' = Window
  BY <1>t, <1>a DEF Live
<1>e. Entered' = Entered
  <2>1. (i + 1) - 1 = i
    BY <1>i DEF Ids
  <2> QED BY <2>1, <1>t, <1>a DEF Entered, Merge
<1>w. /\ w' \in [Slots \X Slots -> SUBSET SUBSET Ids]
      /\ \A c, d \in Window :
           w'[<<c, d>>] = IF c = c1 \/ d = c1
                          THEN {clusters'[c], clusters'[d]}
                          ELSE w[<<B(c), B(d)>>]
  <2>1. MovedW(c1, c2) = [e \in Slots \X Slots |-> w[<<B(e[1]), B(e[2])>>]]
    <3>1. \A e \in Slots \X Slots :
            /\ e[1] \in Slots /\ e[2] \in Slots
            /\ <<e[1], B(e[2])>> \in Slots \X Slots
            /\ <<e[1], B(e[2])>>[1] = e[1]
            /\ <<e[1], B(e[2])>>[2] = B(e[2])
      BY <1>b
    <3> QED BY <3>1 DEF MovedW
  <2>2. \A e \in Slots \X Slots :
          /\ e[1] \in Slots /\ e[2] \in Slots
          /\ MovedW(c1, c2)[e] \in SUBSET SUBSET Ids
          /\ compute_w(clusters', e[1], e[2]) \in SUBSET SUBSET Ids
    BY <2>1, <1>b, <1>c, <1>t DEF TypeOK, compute_w
  <2>3. w' = [e \in Slots \X Slots |->
               IF (e[1] = c1 /\ e[2] \in Window) \/ (e[2] = c1 /\ e[1] \in Window)
               THEN compute_w(clusters', e[1], e[2])
               ELSE MovedW(c1, c2)[e]]
    BY DEF Merge
  <2>4. w' \in [Slots \X Slots -> SUBSET SUBSET Ids]
    BY <2>2, <2>3
  <2>5. \A c, d \in Window : <<c, d>> \in Slots \X Slots
    BY <1>s
  <2>6. \A c, d \in Window :
          w'[<<c, d>>] = IF c = c1 \/ d = c1
                         THEN {clusters'[c], clusters'[d]}
                         ELSE w[<<B(c), B(d)>>]
    BY <2>1, <2>3, <2>5 DEF compute_w
  <2> QED BY <2>4, <2>6
<1> HIDE DEF B
<1>1. TypeOK'
  <2>1. /\ i' \in 0..NTokens
        /\ pc' \in {"insert", "merge"} => i' \in Ids
    BY <1>a, <1>i
  <2> QED BY <2>1, <1>a, <1>c, <1>w, <1>t DEF TypeOK, Merge
<1>2. OrderedOnce' /\ WindowFull'
  <2>1. NClusters <= i
    BY <1>t DEF IInv, WindowFull
  <2>2. NClusters <= i' /\ pc' # "fill"
    BY <2>1, <1>a, <1>n, <1>i DEF Ids
  <2> QED BY <2>2 DEF IInv, OrderedOnce, WindowFull, Merge
<1>p. /\ \A c \in Slots : clusters[c] # {}
      /\ \A c, d \in Slots : c # d => clusters[c] \cap clusters[d] = {}
      /\ UNION {clusters[c] : c \in Slots} = Entered
  BY <1>l DEF IInv, Partition
<1>4. Partition'
  <2>1. \A c \in Window : clusters'[c] # {}
    BY <1>p, <1>m, <1>b
  <2>2. \A c, d \in Window : c # d => clusters'[c] \cap clusters'[d] = {}
    <3>1. \A c \in Window : c # c1 => B(c) # c1 /\ B(c) # c2
      BY <1>b
    <3> QED BY <3>1, <1>p, <1>m, <1>b
  <2>3. UNION {clusters'[c] : c \in Window} = UNION {clusters[c] : c \in Slots}
    <3>1. \A c \in Window : \A t \in clusters'[c] :
            \E b \in Slots : t \in clusters[b]
      BY <1>m, <1>b
    <3>2. ASSUME NEW b \in Slots, NEW t \in clusters[b]
          PROVE  \E c \in Window : t \in clusters'[c]
      <4>1. CASE b = c2 \/ b = c1
        BY <4>1, <1>m, <1>b
      <4>2. CASE b # c2 /\ b # c1
        <5>1. PICK c \in Window : B(c) = b
          BY <4>2, <1>b
        <5>2. c # c1
          BY <5>1, <4>2, <1>b
        <5> QED BY <5>1, <5>2, <1>m
      <4> QED BY <4>1, <4>2
    <3> QED BY <3>1, <3>2
  <2> QED BY <2>1, <2>2, <2>3, <1>l, <1>e, <1>p DEF Partition
<1>5. WCurrent'
  <2> SUFFICES ASSUME NEW c \in Window, NEW d \in Window
               PROVE  w'[<<c, d>>] = {clusters'[c], clusters'[d]}
    BY <1>l DEF WCurrent
  <2>1. CASE c = c1 \/ d = c1
    BY <2>1, <1>w
  <2>2. CASE c # c1 /\ d # c1
    <3>1. w[<<B(c), B(d)>>] = {clusters[B(c)], clusters[B(d)]}
      BY <1>b, <1>l, <1>t DEF IInv, WCurrent
    <3> QED BY <3>1, <2>2, <1>w, <1>m
  <2> QED BY <2>1, <2>2
<1> QED BY <1>1, <1>2, <1>4, <1>5 DEF IInv
-----------------------------------------------------------------------------
LEMMA NextIInv == IInv /\ [Next]_vars => IInv'
<1> SUFFICES ASSUME IInv, [Next]_vars PROVE IInv'
  OBVIOUS
<1>1. CASE ReadInput BY <1>1, ReadKeeps
<1>2. CASE Order BY <1>2, OrderKeeps
<1>3. CASE Place BY <1>3, PlaceKeeps
<1>7. CASE Fill BY <1>7, FillKeeps
<1>4. CASE Insert BY <1>4, InsertKeeps
<1>5. ASSUME NEW c1 \in Slots, NEW c2 \in Slots, Merge(c1, c2) PROVE IInv'
  BY <1>5, MergeKeeps
<1>6. CASE UNCHANGED vars
  <2>0. Live' = Live /\ Entered' = Entered
    BY <1>6 DEF vars, Live, Entered
  <2>1. TypeOK' BY <1>6 DEF vars, IInv, TypeOK
  <2>2. OrderedOnce' /\ WindowFull'
    BY <1>6 DEF vars, IInv, OrderedOnce, WindowFull
  <2>3. Partition' BY <1>6, <2>0 DEF vars, IInv, Partition
  <2>4. WCurrent' BY <1>6, <2>0 DEF vars, IInv, WCurrent
  <2> QED BY <2>1, <2>2, <2>3, <2>4 DEF IInv
<1> QED BY <1>1, <1>2, <1>3, <1>4, <1>5, <1>6, <1>7 DEF Next, Finished

(* The inductive invariant holds in every reachable state.                 *)
THEOREM Invariant == Spec => []IInv
<1> QED BY InitIInv, NextIInv, PTL DEF Spec

(* No token is taken from past the end of ordered_tokens, and every value  *)
(* has its type (_run_fixed_window).                                       *)
THEOREM TypeCorrect == Spec => []TypeOK
<1>1. IInv => TypeOK BY DEF IInv
<1> QED BY <1>1, Invariant, PTL

(* The clusters partition the tokens inserted so far, whatever is merged   *)
(* and for any number of clusters (the memmove of _run_fixed_window).      *)
THEOREM ClustersPartition == Spec => []Partition
<1>1. IInv => Partition BY DEF IInv
<1> QED BY <1>1, Invariant, PTL

(* Moving the rows, moving the columns and computing one row and column    *)
(* again leaves no entry of w that belongs to clusters of the past.        *)
THEOREM WStaysCurrent == Spec => []WCurrent
<1>1. IInv => WCurrent BY DEF IInv
<1> QED BY <1>1, Invariant, PTL
-----------------------------------------------------------------------------
(* A step keeps two tokens together that share a cluster: the merge puts   *)
(* the whole of every cluster somewhere in the window.                     *)
LEMMA StepNeverSplits ==
  ASSUME IInv, [Next]_vars, NEW a \in Ids, NEW b \in Ids, Together(a, b)
  PROVE  Together(a, b)'
<1>1. PICK c \in Live : {a, b} \subseteq clusters[c]
  BY DEF Together
<1>2. CASE ReadInput \/ Order \/ Place
  <2>1. Live = {}
    BY <1>2 DEF ReadInput, Order, Place, Live
  <2> QED BY <2>1, <1>1
<1>3. CASE Insert
  <2>1. Live = Window /\ Live' = Slots
    BY <1>3 DEF Insert, Live
  <2>2. c \in Slots /\ c # NClusters
    BY <2>1, <1>1, NClustersNat DEF Slots, Window
  <2>3. clusters'[c] = clusters[c]
    BY <2>2, <1>3 DEF IInv, TypeOK, Insert
  <2> QED BY <2>1, <2>2, <2>3, <1>1 DEF Together
<1>4. ASSUME NEW c1 \in Slots, NEW c2 \in Slots, Merge(c1, c2)
      PROVE  Together(a, b)'
  <2>0. TypeOK /\ c1 < c2
    BY <1>4 DEF IInv, Merge
  <2>1. Live = Slots /\ Live' = Window
    BY <1>4 DEF Merge, After, Live
  <2>4. \A e \in Window :
          clusters'[e] = IF e = c1 THEN clusters[c1] \cup clusters[c2]
                         ELSE clusters[Below(c1, c2, e)]
    BY <2>0, <1>4, MergedAt
  <2>2. CASE c = c1 \/ c = c2
    <3>1. c1 \in Window
      BY <2>0, BelowRenumbers
    <3>2. clusters'[c1] = clusters[c1] \cup clusters[c2]
      BY <2>4, <3>1
    <3>3. {a, b} \subseteq clusters'[c1]
      BY <3>2, <2>2, <1>1
    <3> QED BY <3>1, <3>3, <2>1 DEF Together
  <2>3. CASE c # c1 /\ c # c2
    <3>1. PICK d \in Window : Below(c1, c2, d) = c
      BY <2>0, <2>1, <2>3, <1>1, BelowRenumbers
    <3>2. d # c1
      BY <3>1, <2>0, <2>3, BelowRenumbers
    <3>3. clusters'[d] = clusters[c]
      BY <2>4, <3>1, <3>2
    <3>4. {a, b} \subseteq clusters'[d]
      BY <3>3, <1>1
    <3> QED BY <3>1, <3>4, <2>1 DEF Together
  <2> QED BY <2>2, <2>3
<1>5. CASE Fill \/ UNCHANGED vars
  <2>1. Live' = Live /\ clusters' = clusters
    BY <1>5 DEF Fill, After, vars, Live
  <2> QED BY <2>1, <1>1 DEF Together
<1> QED BY <1>2, <1>3, <1>4, <1>5 DEF Next, Finished

(* Clusters are merged and never split, and no token is lost.              *)
THEOREM ClustersNeverSplit == Spec => NeverSplit
<1>1. IInv /\ [Next]_vars
        => [\A a, b \in Ids : Together(a, b) => Together(a, b)']_vars
  BY StepNeverSplits
<1> QED BY <1>1, Invariant, PTL DEF Spec, NeverSplit

-----------------------------------------------------------------------------
(* The clusterer with both of its parts. *)

LEMMA StepOfBoth ==
  [ClustererNext]_clustererVars => [TableNext]_tableVars /\ [Next]_vars
<1> SUFFICES ASSUME [ClustererNext]_clustererVars
             PROVE  [TableNext]_tableVars /\ [Next]_vars
  OBVIOUS
<1>1. CASE FillTables
  BY <1>1 DEF FillTables, TableNext
<1>2. CASE WindowStep
  BY <1>2 DEF WindowStep
<1>3. CASE UNCHANGED clustererVars
  BY <1>3 DEF clustererVars
<1> QED BY <1>1, <1>2, <1>3 DEF ClustererNext

(* The clusterer implements its parts: run() and the threads it starts     *)
(* keep what each of them promises, in any interleaving.                   *)
THEOREM ImplementsParts == ClustererSpec => TableSpec /\ Spec
<1>1. ClustererInit => TableInit /\ Init
  BY DEF ClustererInit
<1> QED BY <1>1, StepOfBoth, PTL DEF ClustererSpec, TableSpec, Spec

(* The types of both parts, for any number of tokens, clusters, threads.   *)
THEOREM ClustererTypesCorrect == ClustererSpec => []TypesOK
<1>1. TypeOK /\ TableTypeOK => TypesOK BY DEF TypesOK
<1> QED BY <1>1, ImplementsParts, TypeCorrect, TableTypeCorrect, PTL
-----------------------------------------------------------------------------
(* The window goes on only when the last table has been joined.            *)
AfterJoin == pc \in {"insert", "merge", "done"} => table = "done"

LEMMA AfterJoinKeeps ==
  AfterJoin /\ [ClustererNext]_clustererVars => AfterJoin'
<1> SUFFICES ASSUME AfterJoin, [ClustererNext]_clustererVars PROVE AfterJoin'
  OBVIOUS
<1>1. CASE FillTables
  BY <1>1 DEF FillTables, AfterJoin, vars
<1>2. CASE WindowStep
  <2>0. Alone /\ table' = table
    BY <1>2 DEF WindowStep, tableVars
  <2>1. CASE ReadInput \/ Order \/ Place
    BY <2>0, <2>1 DEF ReadInput, Order, Place, AfterJoin
  <2>2. CASE Fill
    BY <2>0, <2>2 DEF Fill, Alone, AfterJoin
  <2>3. CASE Insert
    BY <2>0, <2>3 DEF Insert, AfterJoin
  <2>4. ASSUME NEW c1 \in Slots, NEW c2 \in Slots, Merge(c1, c2)
        PROVE  AfterJoin'
    BY <2>0, <2>4 DEF Merge, AfterJoin
  <2>5. CASE Finished
    BY <2>0, <2>5 DEF Finished, vars, AfterJoin
  <2> QED BY <1>2, <2>1, <2>2, <2>3, <2>4, <2>5 DEF WindowStep, Next
<1>3. CASE UNCHANGED clustererVars
  BY <1>3 DEF clustererVars, vars, tableVars, AfterJoin
<1> QED BY <1>1, <1>2, <1>3 DEF ClustererNext

LEMMA WholeAfterJoin == TableIInv /\ AfterJoin /\ TypeOK => InsertsOnWholeTables
<1> SUFFICES ASSUME TableIInv, AfterJoin, pc \in {"insert", "merge", "done"}
             PROVE  /\ threadPc = [t \in Threads |-> "exited"]
                    /\ \A b \in Tables : \A e \in Entries(b) : computed[b][e] = 1
  BY DEF InsertsOnWholeTables
<1>1. table = "done" /\ DoneIsIdle /\ TablesComplete /\ TableTypeOK
  BY DEF AfterJoin, TableIInv
<1>2. threadPc = [t \in Threads |-> "exited"]
  BY <1>1 DEF DoneIsIdle, TableTypeOK
<1>3. \A b \in Tables : \A e \in Entries(b) : computed[b][e] = 1
  BY <1>1 DEF Tables, TablesComplete
<1> QED BY <1>2, <1>3

(* No token is inserted before the threads have left and every entry of w  *)
(* and L has been computed (_run_fixed_window, after _initialise_L).       *)
THEOREM WholeTables == ClustererSpec => []InsertsOnWholeTables
<1>1. ClustererInit => AfterJoin
  BY DEF ClustererInit, Init, AfterJoin
<1>2. ClustererSpec => []AfterJoin
  BY <1>1, AfterJoinKeeps, PTL DEF ClustererSpec
<1> QED BY <1>2, WholeAfterJoin, ImplementsParts, TableInvariant, TypeCorrect, PTL
===============================================================================
