------------------------------ MODULE Clusterer ------------------------------
(***************************************************************************)
(* BrownClusterer's run: the window, and the threads that fill the tables  *)
(* between placing the first tokens and inserting the others.              *)
(*                                                                         *)
(* _run_fixed_window calls _initialise_w and _initialise_L when the first  *)
(* clusters have their members; each returns when its threads are joined.  *)
(* The threads read the clusters and share nothing else with the window.   *)
(***************************************************************************)
EXTENDS BrownTable, BrownWindow

ASSUME ClustererAssumption == NRows = NClusters

clustererVars == <<tableVars, vars>>

ClustererInit == TableInit /\ Init

(* What comes before the tables, and what comes when they are filled.      *)
Alone == pc # "fill" \/ table = "done"

WindowStep == Alone /\ Next /\ UNCHANGED tableVars

FillTables ==
  /\ pc = "fill"
  /\ Join \/ \E t \in Threads : ThreadNext(t)
  /\ UNCHANGED vars

ClustererNext == FillTables \/ WindowStep

(* The operating system runs every thread that can run.                    *)
ClustererFairness ==
  /\ WF_clustererVars(WindowStep)
  /\ WF_clustererVars(pc = "fill" /\ Join /\ UNCHANGED vars)
  /\ \A t \in Threads :
       WF_clustererVars(pc = "fill" /\ ThreadNext(t) /\ UNCHANGED vars)

ClustererSpec == ClustererInit /\ [][ClustererNext]_clustererVars
ClustererFairSpec == ClustererSpec /\ ClustererFairness
-----------------------------------------------------------------------------
(* The types of both parts.                                                *)
TypesOK == TypeOK /\ TableTypeOK

(* Tokens are inserted when every entry of both tables has been computed,  *)
(* and the window's w has the entries that the threads computed: those of  *)
(* all pairs of clusters.                                                  *)
InsertsOnWholeTables ==
  pc \in {"insert", "merge", "done"} =>
    /\ threadPc = [t \in Threads |-> "exited"]
    /\ \A b \in Tables : \A e \in Entries(b) : computed[b][e] = 1

(* The threads run out of entries and the window of tokens.                *)
Ends == <>(pc = "done")
=============================================================================
