------------------------------ MODULE BrownWindow ------------------------------
(***************************************************************************)
(* The fixed window of the Brown clusterer: the first tokens get a cluster *)
(* each, every other token enters the window as one cluster more, and two  *)
(* clusters are merged to make room again. The table w, and the clusters   *)
(* themselves, are kept up to date in place: rows and columns move over    *)
(* the merged cluster and only what the merge changed is computed again.   *)
(*                                                                         *)
(* A token is its id. An entry of w is the pair of clusters it was         *)
(* computed from. The values of L, which choose the merge, are left out:   *)
(* any two clusters of the window may be merged. That also covers the      *)
(* values with which L starts: _compute_L adds up whole rows of w, and the *)
(* newcomer's column in them has not been initialised by then.             *)
(***************************************************************************)
EXTENDS Integers

CONSTANTS
  NTokens,    \* _distinct_unigrams.size()
  Requested,  \* the nclusters that the caller asks for
  MaxCount    \* bound: how often a token occurs in the input

ASSUME BrownWindowAssumption ==
  /\ NTokens \in Nat
  /\ Requested \in Nat \ {0}     \* _initialise refuses 0
  /\ MaxCount \in Nat \ {0}

VARIABLES
  pc,              \* where run() is
  counts,          \* how often each token occurs in the input
  unigram_counts,  \* what _read_input keeps of that
  ordered,         \* ordered_tokens
  i,               \* the next token for the window
  clusters,        \* the members of each cluster
  w                \* each entry of w: the clusters it was computed from

vars == <<pc, counts, unigram_counts, ordered, i, clusters, w>>

(* Don't form more clusters than there are tokens.                         *)
NClusters == IF Requested < NTokens THEN Requested ELSE NTokens

Ids == 0..(NTokens - 1)
Window == 0..(NClusters - 1)
Slots == 0..NClusters           \* _array_dim: the window and the newcomer

Uninitialised == {}

(* The entry is symmetric in the two clusters.                             *)
compute_w(cs, c1, c2) == {cs[c1], cs[c2]}

Init ==
  /\ pc = "read"
  /\ counts = [t \in Ids |-> 0]
  /\ unigram_counts = [t \in Ids |-> 0]
  /\ ordered = [k \in Ids |-> k]
  /\ i = 0
  /\ clusters = [c \in Slots |-> {}]
  /\ w = [e \in Slots \X Slots |-> Uninitialised]

(* tid is the last token that was read: it, and not t, indexes the counts  *)
(* that are kept.                                                          *)
ReadInput ==
  /\ pc = "read"
  /\ \E tmp \in [Ids -> 1..MaxCount], tid \in Ids \cup {0} :
       /\ counts' = tmp
       /\ unigram_counts' = [t \in Ids |-> tmp[tid]]
  /\ pc' = "order"
  /\ UNCHANGED <<ordered, i, clusters, w>>

(* std::sort promises no order among tokens of the same count.             *)
Order ==
  /\ pc = "order"
  /\ \E o \in [Ids -> Ids] :
       /\ \A j, k \in Ids : j # k => o[j] # o[k]
       /\ \A j, k \in Ids : j < k => unigram_counts[o[j]] >= unigram_counts[o[k]]
       /\ ordered' = o
  /\ pc' = "start"
  /\ UNCHANGED <<counts, unigram_counts, i, clusters, w>>

After(k) == IF k = NTokens THEN "done" ELSE "insert"

(* The first tokens are placed in the window, with w still unfilled.       *)
Place ==
  /\ pc = "start"
  /\ clusters' = [c \in Slots |-> IF c \in Window THEN {ordered[c]} ELSE {}]
  /\ i' = NClusters
  /\ pc' = "fill"
  /\ UNCHANGED <<counts, unigram_counts, ordered, w>>

(* _initialise_w fills the entries of the window; the newcomer's row and   *)
(* column stay as they were allocated.                                     *)
Fill ==
  /\ pc = "fill"
  /\ w' = [e \in Slots \X Slots |->
             IF e[1] \in Window /\ e[2] \in Window
             THEN compute_w(clusters, e[1], e[2]) ELSE w[e]]
  /\ pc' = After(i)
  /\ UNCHANGED <<counts, unigram_counts, ordered, i, clusters>>

(* The row and the column of the newcomer.                                 *)
NewRow(cs) ==
  [e \in Slots \X Slots |->
     IF e[1] = NClusters \/ e[2] = NClusters
     THEN compute_w(cs, e[1], e[2]) ELSE w[e]]

Insert ==
  /\ pc = "insert"
  /\ clusters' = [clusters EXCEPT ![NClusters] = {ordered[i]}]
  /\ w' = NewRow(clusters')
  /\ pc' = "merge"
  /\ UNCHANGED <<counts, unigram_counts, ordered, i>>

Merged_Overwritten(c1, c2) == [clusters EXCEPT ![c1] = clusters[c2]]

Merged(c1, c2) == [clusters EXCEPT ![c1] = @ \cup clusters[c2]]

Below_First(c1, c2, c) == IF c1 <= c /\ c < NClusters THEN c + 1 ELSE c

(* Where the cluster that ends at c comes from: those after max_c2 move    *)
(* down by one, and the last slot keeps what it held.                      *)
Below(c1, c2, c) == IF c2 <= c /\ c < NClusters THEN c + 1 ELSE c

MovedW_RowsOnly(c1, c2) ==
  [e \in Slots \X Slots |-> w[<<Below(c1, c2, e[1]), e[2]>>]]

(* The rows move first and the columns of the result after them.           *)
MovedW(c1, c2) ==
  LET rows == [e \in Slots \X Slots |-> w[<<Below(c1, c2, e[1]), e[2]>>]]
  IN  [e \in Slots \X Slots |-> rows[<<e[1], Below(c1, c2, e[2])>>]]

(* max_c1 < max_c2: L is searched above the diagonal.                      *)
Merge(c1, c2) ==
  /\ pc = "merge"
  /\ c1 < c2
  /\ clusters' = [c \in Slots |-> Merged(c1, c2)[Below(c1, c2, c)]]
  /\ w' = [e \in Slots \X Slots |->
             IF (e[1] = c1 /\ e[2] \in Window) \/ (e[2] = c1 /\ e[1] \in Window)
             THEN compute_w(clusters', e[1], e[2])
             ELSE MovedW(c1, c2)[e]]
  /\ i' = i + 1
  /\ pc' = After(i + 1)
  /\ UNCHANGED <<counts, unigram_counts, ordered>>

(* _write_clusters has nothing to change.                                  *)
Finished == pc = "done" /\ UNCHANGED vars

Next ==
  \/ ReadInput \/ Order \/ Place \/ Fill \/ Insert
  \/ \E c1, c2 \in Slots : Merge(c1, c2)
  \/ Finished

Spec == Init /\ [][Next]_vars
-----------------------------------------------------------------------------
(* The clusters in use: the newcomer's too until the merge.                *)
Live == CASE pc \in {"fill", "insert", "done"} -> Window
          [] pc = "merge" -> Slots
          [] OTHER -> {}

(* The tokens that have entered the window.                                *)
Entered == CASE pc \in {"fill", "insert", "done"} -> {ordered[k] : k \in 0..(i - 1)}
             [] pc = "merge" -> {ordered[k] : k \in 0..i}
             [] OTHER -> {}

(* The state's types; a token is taken from ordered_tokens only where      *)
(* there is one.                                                           *)
TypeOK ==
  /\ pc \in {"read", "order", "start", "fill", "insert", "merge", "done"}
  /\ counts \in [Ids -> 0..MaxCount]
  /\ unigram_counts \in [Ids -> 0..MaxCount]
  /\ ordered \in [Ids -> Ids]
  /\ i \in 0..NTokens
  /\ pc \in {"insert", "merge"} => i \in Ids
  /\ clusters \in [Slots -> SUBSET Ids]
  /\ w \in [Slots \X Slots -> SUBSET SUBSET Ids]

(* Through every insertion and merge the clusters partition the tokens     *)
(* that have entered: what is written names each token once.               *)
Partition ==
  /\ \A c \in Live : clusters[c] # {}
  /\ \A c, d \in Live : c # d => clusters[c] \cap clusters[d] = {}
  /\ UNION {clusters[c] : c \in Live} = Entered

(* Every entry of w in use was computed from the clusters that are at its  *)
(* indices now, although most entries are moved and not computed again.    *)
WCurrent ==
  pc # "fill" =>
    \A c1, c2 \in Live : w[<<c1, c2>>] = {clusters[c1], clusters[c2]}

Together(a, b) == \E c \in Live : {a, b} \subseteq clusters[c]

(* Tokens that share a cluster share one for ever: clusters are merged and *)
(* never split or lost.                                                    *)
NeverSplit == [][\A a, b \in Ids : Together(a, b) => Together(a, b)']_vars
=============================================================================
