---------------------------- MODULE LoggerProofs ----------------------------
(***************************************************************************)
(* For any number of threads, any programs of statements and any           *)
(* threshold: the messages of the thread-safe loggers are written whole,   *)
(* once, in the order of their thread, and by their own level.             *)
(***************************************************************************)
EXTENDS Logger, SequenceTheorems, FiniteSetTheorems, TLAPS

Pieces == Threads \X Statements \X (0..NParts)

TypesOK ==
  /\ says \in [Threads -> [Statements -> Levels]]
  /\ pc \in [Threads -> {"between", "level", "insert", "sync", "unlock"}]
  /\ stmt \in [Threads -> 1..(NStatements + 1)]
  /\ part \in [Threads -> 0..NParts]
  /\ lock \in Threads \cup {NoThread}
  /\ level \in Nat
  /\ buf \in Seq(Pieces)
  /\ out \in Seq(Pieces)

(* Who is inside of a statement, and nobody else, holds the lock, from one *)
(* function's call to another's.                                           *)
Mutex == \A t \in Threads : pc[t] # "between" <=> lock = t

AtStatement ==
  \A t \in Threads : /\ pc[t] # "between" => stmt[t] \in Statements
                     /\ pc[t] # "insert" => part[t] = 0

(* The level of the stream buffer is the one of the statement at hand.     *)
OwnLevel ==
  \A t \in Threads : pc[t] \in {"insert", "sync", "unlock"} => level = says[t][stmt[t]]

(* The first n pieces of the statement that t is at.                       *)
BufHolds(t, n) == Len(buf) = n /\ \A i \in 1..n : buf[i] = <<t, stmt[t], i - 1>>

(* What the stream buffer holds is of the lock's owner.                    *)
Buffered ==
  /\ lock = NoThread => buf = <<>>
  /\ \A t \in Threads :
       /\ pc[t] \in {"level", "unlock"} => buf = <<>>
       /\ pc[t] = "insert" => BufHolds(t, part[t])
       /\ pc[t] = "sync" => BufHolds(t, NParts + 1)

(* The output: its messages are whole, each is of a statement that has     *)
(* been synced and reaches the threshold, none of those is missing, none   *)
(* is there twice, and they are in the order of their thread.              *)
Whole ==
  \A i \in DOMAIN out :
    out[i][3] < NParts =>
      /\ i + 1 \in DOMAIN out
      /\ out[i + 1] = <<out[i][1], out[i][2], out[i][3] + 1>>

OnlySynced ==
  \A i \in DOMAIN out :
    Synced(out[i][1], out[i][2]) /\ says[out[i][1]][out[i][2]] >= Threshold

AllSynced ==
  \A t \in Threads, n \in Statements :
    Synced(t, n) /\ says[t][n] >= Threshold => \E i \in DOMAIN out : out[i] = <<t, n, 0>>

Once == \A i, j \in DOMAIN out : out[i] = out[j] => i = j

InOrder ==
  \A i, j \in DOMAIN out : i < j /\ out[i][1] = out[j][1] => out[i][2] <= out[j][2]

Output == Whole /\ OnlySynced /\ AllSynced /\ Once /\ InOrder

LoggerIInv == TypesOK /\ Mutex /\ AtStatement /\ OwnLevel /\ Buffered /\ Output
-----------------------------------------------------------------------------
(* Before any statement nothing is locked, buffered or written.            *)
LEMMA LoggerInit == Init => LoggerIInv
<1> SUFFICES ASSUME Init PROVE LoggerIInv
  OBVIOUS
<1>1. buf \in Seq(Pieces) /\ out \in Seq(Pieces)
  BY EmptySeq DEF Init
<1>2. TypesOK
  BY <1>1, LoggerAssumption DEF Init, TypesOK, INFO
<1>3. Mutex /\ AtStatement /\ OwnLevel /\ Buffered
  BY LoggerAssumption DEF Init, Mutex, AtStatement, OwnLevel, Buffered
<1>4. DOMAIN out = {}
  BY SMT DEF Init
<1>5. \A t \in Threads, n \in Statements : ~Synced(t, n)
  BY DEF Init, Synced, Statements
<1>6. Output
  BY <1>4, <1>5 DEF Output, Whole, OnlySynced, AllSynced, Once, InOrder
<1> QED
  BY <1>2, <1>3, <1>6 DEF LoggerIInv

(* What is written is of threads and statements.                           *)
LEMMA WrittenPieces ==
  ASSUME TypesOK
  PROVE  \A i \in DOMAIN out : out[i][1] \in Threads /\ out[i][2] \in Statements
<1>1. out \in Seq(Pieces)
  BY DEF TypesOK
<1>2. \A i \in DOMAIN out : out[i] \in Pieces
  BY <1>1
<1> QED BY <1>2 DEF Pieces

(* The output is as it should be for as long as it stays the same and no   *)
(* statement comes to be synced.                                           *)
LEMMA OutputKept ==
  ASSUME TypesOK, Output, out' = out, says' = says,
         \A u \in Threads, n \in Statements : Synced(u, n)' <=> Synced(u, n)
  PROVE  Output'
<1>1. \A i \in DOMAIN out : out[i][1] \in Threads /\ out[i][2] \in Statements
  BY WrittenPieces
<1>2. Whole' /\ Once' /\ InOrder'
  BY DEF Output, Whole, Once, InOrder
<1>3. OnlySynced'
  BY <1>1 DEF Output, OnlySynced
<1>4. AllSynced'
  BY DEF Output, AllSynced
<1> QED
  BY <1>2, <1>3, <1>4 DEF Output

(* Locking: only a thread between two statements can, and the buffer is    *)
(* empty then.                                                             *)
LEMMA LockKeeps ==
  ASSUME LoggerIInv, NEW t \in Threads, Lock(t)
  PROVE  LoggerIInv'
<1> USE DEF LoggerIInv
<1>1. /\ pc[t] = "between" /\ pc' = [pc EXCEPT ![t] = "level"]
      /\ lock = NoThread /\ lock' = t /\ stmt[t] \in Statements
      /\ UNCHANGED <<says, stmt, part, level, buf, out>>
  BY DEF Lock, Goto
<1>2. TypesOK'
  BY <1>1 DEF TypesOK
<1>3. Mutex'
  BY <1>1, LoggerAssumption DEF TypesOK, Mutex
<1>4. AtStatement' /\ OwnLevel'
  BY <1>1 DEF TypesOK, AtStatement, OwnLevel
<1>5. Buffered'
  BY <1>1, LoggerAssumption DEF TypesOK, Buffered, BufHolds
<1>6. \A u \in Threads, n \in Statements : Synced(u, n)' <=> Synced(u, n)
  BY <1>1 DEF Synced, TypesOK
<1>7. Output'
  BY <1>1, <1>6, OutputKept
<1> QED
  BY <1>2, <1>3, <1>4, <1>5, <1>7

(* Setting the level: nobody else is inside of a statement whose level it  *)
(* would change.                                                           *)
LEMMA SetLevelKeeps ==
  ASSUME LoggerIInv, NEW t \in Threads, SetLevel(t)
  PROVE  LoggerIInv'
<1> USE DEF LoggerIInv
<1>1. /\ pc[t] = "level" /\ pc' = [pc EXCEPT ![t] = "insert"]
      /\ level' = says[t][stmt[t]]
      /\ UNCHANGED <<says, stmt, part, lock, buf, out>>
  BY DEF SetLevel, Goto
<1>2. stmt[t] \in Statements /\ part[t] = 0 /\ buf = <<>> /\ lock = t
  BY <1>1 DEF AtStatement, Buffered, Mutex
<1>3. level' \in Nat
  BY <1>1, <1>2, LoggerAssumption DEF TypesOK
<1>4. TypesOK'
  BY <1>1, <1>3 DEF TypesOK
<1>5. Mutex'
  BY <1>1 DEF TypesOK, Mutex
<1>6. AtStatement'
  BY <1>1, <1>2 DEF TypesOK, AtStatement
<1>7. \A u \in Threads : u # t => pc'[u] = "between"
  BY <1>1, <1>2 DEF Mutex, TypesOK
<1>8. OwnLevel'
  BY <1>1, <1>7 DEF TypesOK, OwnLevel
<1>9. BufHolds(t, 0)'
  BY <1>1, <1>2, EmptySeq DEF BufHolds
<1>10. Buffered'
  BY <1>1, <1>2, <1>7, <1>9, LoggerAssumption DEF TypesOK, Buffered
<1>11. \A u \in Threads, n \in Statements : Synced(u, n)' <=> Synced(u, n)
  BY <1>1 DEF Synced, TypesOK
<1>12. Output'
  BY <1>1, <1>11, OutputKept
<1> QED
  BY <1>4, <1>5, <1>6, <1>8, <1>10, <1>12

(* Inserting: the buffer grows by the owner's next piece.                  *)
LEMMA InsertKeeps ==
  ASSUME LoggerIInv, NEW t \in Threads, Insert(t)
  PROVE  LoggerIInv'
<1> USE DEF LoggerIInv
<1> DEFINE piece == <<t, stmt[t], part[t]>>
<1>1. /\ pc[t] = "insert" /\ buf' = Append(buf, piece)
      /\ UNCHANGED <<says, stmt, lock, level, out>>
  BY DEF Insert
<1>2. \/ part[t] < NParts /\ part' = [part EXCEPT ![t] = @ + 1] /\ pc' = pc
      \/ ~(part[t] < NParts) /\ part' = [part EXCEPT ![t] = 0]
           /\ pc' = [pc EXCEPT ![t] = "sync"]
  BY DEF Insert, Goto
<1>3. stmt[t] \in Statements /\ part[t] \in 0..NParts /\ lock = t
  BY <1>1 DEF AtStatement, Mutex, TypesOK
<1>4. piece \in Pieces
  BY <1>3 DEF Pieces
<1>5. /\ buf' \in Seq(Pieces) /\ Len(buf') = Len(buf) + 1
      /\ \A i \in 1..Len(buf) : buf'[i] = buf[i]
      /\ buf'[Len(buf) + 1] = piece
  BY <1>1, <1>4, AppendProperties DEF TypesOK
<1>6. TypesOK'
  <2>1. part' \in [Threads -> 0..NParts]
    BY <1>2, <1>3, LoggerAssumption DEF TypesOK
  <2>2. pc' \in [Threads -> {"between", "level", "insert", "sync", "unlock"}]
    BY <1>2 DEF TypesOK
  <2> QED
    BY <1>1, <1>5, <2>1, <2>2 DEF TypesOK
<1>7. Mutex'
  BY <1>1, <1>2 DEF TypesOK, Mutex
<1>8. AtStatement'
  BY <1>1, <1>2, <1>3 DEF TypesOK, AtStatement
<1>9. OwnLevel'
  BY <1>1, <1>2 DEF TypesOK, OwnLevel
<1>10. Buffered'
  <2>1. \A u \in Threads : u # t => pc'[u] = "between"
    BY <1>1, <1>2, <1>3 DEF Mutex, TypesOK
  <2>2. BufHolds(t, part[t])
    BY <1>1 DEF Buffered
  <2>3. /\ Len(buf') = part[t] + 1
        /\ \A i \in 1..(part[t] + 1) : buf'[i] = <<t, stmt[t], i - 1>>
    BY <1>1, <1>3, <1>5, <2>2, LoggerAssumption DEF BufHolds
  <2>4. CASE part[t] < NParts
    <3>1. pc'[t] = "insert" /\ part'[t] = part[t] + 1
      BY <1>1, <1>2, <1>3, <2>4, LoggerAssumption DEF TypesOK
    <3>2. BufHolds(t, part[t])'
      BY <1>1, <2>3, <3>1 DEF BufHolds
    <3> QED
      BY <1>1, <1>3, <2>1, <3>1, <3>2, LoggerAssumption DEF Buffered
  <2>5. CASE ~(part[t] < NParts)
    <3>1. part[t] = NParts
      BY <1>3, <2>5, LoggerAssumption
    <3>2. BufHolds(t, NParts + 1)'
      BY <1>1, <2>3, <3>1 DEF BufHolds
    <3>3. pc'[t] = "sync"
      BY <1>1, <1>2, <2>5 DEF TypesOK
    <3> QED
      BY <1>1, <1>3, <2>1, <3>2, <3>3, LoggerAssumption DEF Buffered
  <2> QED
    BY <2>4, <2>5
<1>11. \A u \in Threads, n \in Statements : Synced(u, n)' <=> Synced(u, n)
  BY <1>1, <1>2 DEF Synced, TypesOK
<1>12. Output'
  BY <1>1, <1>11, OutputKept
<1> QED
  BY <1>6, <1>7, <1>8, <1>9, <1>10, <1>12

(* Syncing appends a whole message, that no earlier sync has written, or   *)
(* nothing, by the level of the message itself.                            *)
LEMMA SyncOutput ==
  ASSUME LoggerIInv, NEW t \in Threads, Sync(t)
  PROVE  Output'
<1> USE DEF LoggerIInv
<1> DEFINE n == stmt[t]
<1>1. /\ pc[t] = "sync" /\ pc' = [pc EXCEPT ![t] = "unlock"]
      /\ out' = IF level >= Threshold THEN out \o buf ELSE out
      /\ UNCHANGED <<says, stmt, part, lock, level>>
  BY DEF Sync, Goto
<1>2. n \in Statements /\ level = says[t][n] /\ BufHolds(t, NParts + 1)
  BY <1>1 DEF AtStatement, OwnLevel, Buffered
<1>3. \A u \in Threads, m \in Statements :
        Synced(u, m)' <=> Synced(u, m) \/ (u = t /\ m = n)
  BY <1>1, <1>2 DEF Synced, TypesOK, Statements
<1>4. ~Synced(t, n)
  BY <1>1, <1>2 DEF Synced, TypesOK, Statements
<1>5. CASE level < Threshold
  <2>1. out' = out /\ says' = says
    BY <1>1, <1>5, LoggerAssumption DEF TypesOK
  <2>2. \A i \in DOMAIN out : out[i][1] \in Threads /\ out[i][2] \in Statements
    BY WrittenPieces
  <2>3. Whole' /\ Once' /\ InOrder'
    BY <2>1 DEF Output, Whole, Once, InOrder
  <2>4. OnlySynced'
    BY <1>3, <2>1, <2>2 DEF Output, OnlySynced
  <2>5. ~(says[t][n] >= Threshold)
    BY <1>2, <1>5, LoggerAssumption DEF TypesOK
  <2>6. AllSynced'
    BY <1>3, <2>1, <2>5 DEF Output, AllSynced
  <2> QED
    BY <2>3, <2>4, <2>6 DEF Output
<1>6. CASE level >= Threshold
  <2> DEFINE L == Len(out)
             K == NParts + 1
  <2>1. out' = out \o buf
    BY <1>1, <1>6
  <2>2. K \in Nat \ {0} /\ L \in Nat /\ DOMAIN out = 1..L /\ Len(buf) = K
    BY <1>2, LenProperties, LoggerAssumption DEF TypesOK, BufHolds
  <2>3. /\ out' \in Seq(Pieces) /\ Len(out') = L + K
        /\ \A i \in 1..(L + K) : out'[i] = IF i <= L THEN out[i] ELSE buf[i - L]
    <3>1. out \in Seq(Pieces) /\ buf \in Seq(Pieces)
      BY DEF TypesOK
    <3> HIDE DEF L, K
    <3>2. /\ out \o buf \in Seq(Pieces)
          /\ Len(out \o buf) = Len(out) + Len(buf)
          /\ \A i \in 1..(Len(out) + Len(buf)) :
               (out \o buf)[i] = IF i <= Len(out) THEN out[i] ELSE buf[i - Len(out)]
      BY <3>1, ConcatProperties
    <3> QED
      BY <2>1, <2>2, <3>2 DEF L
  <2>4. DOMAIN out' = 1..(L + K)
    BY <2>3, LenProperties
  <2>5. \A i \in 1..L : /\ out[i] \in Pieces /\ out'[i] = out[i]
                        /\ Synced(out[i][1], out[i][2])
                        /\ says[out[i][1]][out[i][2]] >= Threshold
    <3>1. \A i \in 1..L : out[i] \in Pieces
      BY ElementOfSeq DEF TypesOK
    <3>2. \A i \in 1..L : out'[i] = out[i]
      BY <2>2, <2>3
    <3> QED
      BY <2>2, <3>1, <3>2 DEF Output, OnlySynced
  <2>6. \A i \in (L + 1)..(L + K) : out'[i] = <<t, n, i - L - 1>>
    BY <1>2, <2>2, <2>3 DEF BufHolds
  <2>7. \A i \in 1..L : out[i][1] # t \/ out[i][2] # n
    BY <1>4, <2>5
  <2> HIDE DEF n, L, K
  <2>8. Whole'
    <3> SUFFICES ASSUME NEW i \in 1..(L + K), out'[i][3] < NParts
                 PROVE  /\ i + 1 \in 1..(L + K)
                        /\ out'[i + 1] = <<out'[i][1], out'[i][2], out'[i][3] + 1>>
      BY <2>4 DEF Whole
    <3>1. CASE i \in 1..L
      <4>1. i + 1 \in 1..L /\ out[i + 1] = <<out[i][1], out[i][2], out[i][3] + 1>>
        BY <2>2, <2>5, <3>1 DEF Output, Whole
      <4> QED
        BY <2>2, <2>5, <3>1, <4>1
    <3>2. CASE i \in (L + 1)..(L + K)
      <4>1. out'[i] = <<t, n, i - L - 1>>
        BY <2>6, <3>2
      <4>2. i - L - 1 < NParts
        BY <4>1
      <4>3. i + 1 \in (L + 1)..(L + K)
        BY <2>2, <3>2, <4>2, LoggerAssumption DEF K
      <4>4. out'[i + 1] = <<t, n, i - L>>
        BY <2>2, <2>6, <4>3
      <4> QED
        BY <2>2, <3>2, <4>1, <4>3, <4>4
    <3> QED
      BY <2>2, <3>1, <3>2
  <2>9. OnlySynced'
    <3> SUFFICES ASSUME NEW i \in 1..(L + K)
                 PROVE  /\ Synced(out[i][1], out[i][2])'
                        /\ says[out'[i][1]][out'[i][2]] >= Threshold
      BY <1>1, <2>4 DEF OnlySynced
    <3>1. CASE i \in 1..L
      <4>1. out'[i] = out[i] /\ out[i][1] \in Threads /\ out[i][2] \in Statements
        BY <2>5, <3>1 DEF Pieces
      <4>2. Synced(out[i][1], out[i][2]) /\ says[out[i][1]][out[i][2]] >= Threshold
        BY <2>5, <3>1
      <4>3. Synced(out'[i][1], out'[i][2]) /\ out'[i][1] \in Threads
              /\ out'[i][2] \in Statements
        BY <4>1, <4>2
      <4> QED
        BY <1>3, <4>1, <4>2, <4>3
    <3>2. CASE i \in (L + 1)..(L + K)
      <4>1. out'[i][1] = t /\ out'[i][2] = n
        BY <2>6, <3>2
      <4> QED
        BY <1>2, <1>3, <1>6, <4>1
    <3> QED
      BY <2>2, <3>1, <3>2
  <2>10. AllSynced'
    <3> SUFFICES ASSUME NEW u \in Threads, NEW m \in Statements,
                        Synced(u, m)', says[u][m] >= Threshold
                 PROVE  \E i \in 1..(L + K) : out'[i] = <<u, m, 0>>
      BY <1>1, <2>4 DEF AllSynced
    <3>1. CASE Synced(u, m)
      <4>1. PICK i \in 1..L : out[i] = <<u, m, 0>>
        BY <2>2, <3>1 DEF Output, AllSynced
      <4> QED
        BY <2>2, <2>5, <4>1
    <3>2. CASE u = t /\ m = n
      <4>1. L + 1 \in (L + 1)..(L + K) /\ L + 1 \in 1..(L + K) /\ (L + 1) - L - 1 = 0
        BY <2>2
      <4> QED
        BY <2>6, <3>2, <4>1
    <3> QED
      BY <1>3, <3>1, <3>2
  <2>11. Once'
    <3> SUFFICES ASSUME NEW i \in 1..(L + K), NEW j \in 1..(L + K), out'[i] = out'[j]
                 PROVE  i = j
      BY <2>4 DEF Once
    <3>1. CASE i \in 1..L /\ j \in 1..L
      BY <2>2, <2>5, <3>1 DEF Output, Once
    <3>2. CASE i \in (L + 1)..(L + K) /\ j \in (L + 1)..(L + K)
      BY <2>2, <2>6, <3>2
    <3>3. CASE i \in 1..L /\ j \in (L + 1)..(L + K)
      BY <2>5, <2>6, <2>7, <3>3
    <3>4. CASE j \in 1..L /\ i \in (L + 1)..(L + K)
      BY <2>5, <2>6, <2>7, <3>4
    <3> QED
      BY <2>2, <3>1, <3>2, <3>3, <3>4
  <2>12. InOrder'
    <3> SUFFICES ASSUME NEW i \in 1..(L + K), NEW j \in 1..(L + K),
                        i < j, out'[i][1] = out'[j][1]
                 PROVE  out'[i][2] <= out'[j][2]
      BY <2>4 DEF InOrder
    <3>1. CASE i \in 1..L /\ j \in 1..L
      BY <2>2, <2>5, <3>1 DEF Output, InOrder
    <3>2. CASE i \in 1..L /\ j \in (L + 1)..(L + K)
      <4>1. out[i][1] = t /\ out[i][2] \in Statements /\ out'[j][2] = n
        BY <2>5, <2>6, <3>2 DEF Pieces
      <4>2. Synced(t, out[i][2])
        BY <2>5, <3>2, <4>1
      <4>3. out[i][2] <= n
        BY <4>1, <4>2 DEF Synced, TypesOK, Statements, n
      <4> QED
        BY <2>5, <3>2, <4>1, <4>3
    <3>3. CASE i \in (L + 1)..(L + K) /\ j \in (L + 1)..(L + K)
      BY <1>2, <2>6, <3>3 DEF Statements
    <3> QED
      BY <2>2, <3>1, <3>2, <3>3
  <2> QED
    BY <2>8, <2>9, <2>10, <2>11, <2>12 DEF Output
<1> QED
  BY <1>5, <1>6, LoggerAssumption DEF TypesOK

(* Syncing empties the buffer.                                             *)
LEMMA SyncKeeps ==
  ASSUME LoggerIInv, NEW t \in Threads, Sync(t)
  PROVE  LoggerIInv'
<1> USE DEF LoggerIInv
<1>1. /\ pc[t] = "sync" /\ pc' = [pc EXCEPT ![t] = "unlock"]
      /\ out' = IF level >= Threshold THEN out \o buf ELSE out
      /\ buf' = <<>>
      /\ UNCHANGED <<says, stmt, part, lock, level>>
  BY DEF Sync, Goto
<1>2. buf' \in Seq(Pieces) /\ out' \in Seq(Pieces)
  BY <1>1, EmptySeq, ConcatProperties DEF TypesOK
<1>3. TypesOK'
  BY <1>1, <1>2 DEF TypesOK
<1>4. Mutex' /\ AtStatement' /\ OwnLevel'
  BY <1>1 DEF TypesOK, Mutex, AtStatement, OwnLevel
<1>5. \A u \in Threads : u # t => pc'[u] = "between"
  BY <1>1 DEF Mutex, TypesOK
<1>6. Buffered'
  BY <1>1, <1>5 DEF TypesOK, Buffered
<1> QED
  BY <1>3, <1>4, <1>6, SyncOutput

(* Unlocking: the thread's statement counts as synced before and after.    *)
LEMMA UnlockKeeps ==
  ASSUME LoggerIInv, NEW t \in Threads, Unlock(t)
  PROVE  LoggerIInv'
<1> USE DEF LoggerIInv
<1>1. /\ pc[t] = "unlock" /\ pc' = [pc EXCEPT ![t] = "between"]
      /\ lock' = NoThread /\ stmt' = [stmt EXCEPT ![t] = @ + 1]
      /\ UNCHANGED <<says, part, level, buf, out>>
  BY DEF Unlock, Goto
<1>2. stmt[t] \in Statements /\ part[t] = 0 /\ buf = <<>> /\ lock = t
  BY <1>1 DEF AtStatement, Buffered, Mutex
<1>3. TypesOK'
  <2>1. stmt[t] + 1 \in 1..(NStatements + 1)
    BY <1>2, LoggerAssumption DEF Statements
  <2> QED
    BY <1>1, <2>1 DEF TypesOK
<1>4. \A u \in Threads : pc'[u] = "between"
  BY <1>1, <1>2 DEF Mutex, TypesOK
<1>5. Mutex' /\ OwnLevel'
  BY <1>1, <1>4, LoggerAssumption DEF Mutex, OwnLevel
<1>6. AtStatement'
  BY <1>1, <1>2, <1>4 DEF TypesOK, AtStatement
<1>7. Buffered'
  BY <1>1, <1>2, <1>4 DEF Buffered
<1>8. \A u \in Threads, n \in Statements : Synced(u, n)' <=> Synced(u, n)
  BY <1>1, <1>2 DEF Synced, TypesOK, Statements
<1>9. Output'
  BY <1>1, <1>8, OutputKept
<1> QED
  BY <1>3, <1>5, <1>6, <1>7, <1>9

(* No step of a thread breaks the invariant, and neither does a stutter.   *)
LEMMA LoggerStep == LoggerIInv /\ [Next]_vars => LoggerIInv'
<1> SUFFICES ASSUME LoggerIInv, [Next]_vars PROVE LoggerIInv'
  OBVIOUS
<1>1. CASE UNCHANGED vars
  BY <1>1 DEF vars, LoggerIInv, TypesOK, Mutex, AtStatement, OwnLevel, Buffered,
              BufHolds, Output, Whole, OnlySynced, AllSynced, Once, InOrder, Synced
<1>2. CASE \E t \in Threads : Step(t)
  <2> PICK t \in Threads : Step(t)
    BY <1>2
  <2> QED
    BY LockKeeps, SetLevelKeeps, InsertKeeps, SyncKeeps, UnlockKeeps DEF Step
<1> QED
  BY <1>1, <1>2 DEF Next, Finished

(* Each statement that was synced and reaches the threshold has one header *)
(* in the output, the others have none.                                    *)
LEMMA OneHeader ==
  ASSUME LoggerIInv, NEW t \in Threads, NEW n \in Statements
  PROVE  Cardinality({i \in DOMAIN out : out[i] = <<t, n, 0>>})
           = IF Synced(t, n) /\ says[t][n] >= Threshold THEN 1 ELSE 0
<1> DEFINE Headers == {i \in DOMAIN out : out[i] = <<t, n, 0>>}
<1>1. CASE Synced(t, n) /\ says[t][n] >= Threshold
  <2>1. PICK i \in DOMAIN out : out[i] = <<t, n, 0>>
    BY <1>1 DEF LoggerIInv, Output, AllSynced
  <2>2. Headers = {i}
    BY <2>1 DEF LoggerIInv, Output, Once
  <2>3. Cardinality({i}) = 1
    BY FS_Singleton
  <2> QED
    BY <1>1, <2>2, <2>3
<1>2. CASE ~(Synced(t, n) /\ says[t][n] >= Threshold)
  <2>1. Headers = {}
    BY <1>2 DEF LoggerIInv, Output, OnlySynced
  <2>2. Cardinality({}) = 0
    BY FS_EmptySet
  <2> QED
    BY <1>2, <2>1, <2>2
<1> QED
  BY <1>1, <1>2

(* Whatever the threads log: the output consists of whole messages, namely *)
(* of the statements that have been synced and reach the threshold by      *)
(* their own level, each once and in the order of its thread.              *)
THEOREM MessagesStayWhole == Spec => []WholeMessages
<1>1. LoggerIInv => WholeMessages
  BY OneHeader DEF LoggerIInv, Output, Whole, InOrder, WholeMessages
<1> QED
  BY <1>1, LoggerInit, LoggerStep, PTL DEF Spec
=============================================================================
