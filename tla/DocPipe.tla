------------------------------- MODULE DocPipe -------------------------------
(***************************************************************************)
(* What dr-dist promises to whoever runs it, with no threads, sockets or   *)
(* workers: every document of the input stream is processed and delivered  *)
(* to the output stream once, in the order of the input when the order is  *)
(* to be preserved, and success is only reported when all were delivered.  *)
(* DrDist implements this module.                                          *)
(***************************************************************************)
EXTENDS Integers, Sequences

CONSTANTS Inputs, PreserveOrder, Work(_)

VARIABLES
  input,    \* the input stream
  out,      \* the deliveries so far: document number and processed document
  state     \* "running", "success" or "failure"

pipeVars == <<input, out, state>>

Delivered == {out[i].num : i \in DOMAIN out}
Pending   == {n - 1 : n \in DOMAIN input} \ Delivered

Init ==
  /\ input \in Inputs
  /\ out = <<>>
  /\ state = "running"

Deliver(n) ==
  /\ state = "running"
  /\ n \in Pending
  /\ PreserveOrder => n = Len(out)
  /\ out' = Append(out, [type |-> "DOCUMENT", num |-> n, doc |-> Work(input[n + 1])])
  /\ UNCHANGED <<input, state>>

Succeed ==
  /\ state = "running"
  /\ Pending = {}
  /\ state' = "success"
  /\ UNCHANGED <<input, out>>

GiveUp ==
  /\ state = "running"
  /\ state' = "failure"
  /\ UNCHANGED <<input, out>>

Progress == Succeed \/ \E n \in Pending : Deliver(n)

Next == Progress \/ GiveUp

Spec == Init /\ [][Next]_pipeVars

(* The pipe is used again, by the next run, on another input stream.       *)
Again ==
  /\ state # "running"
  /\ input' \in Inputs
  /\ out' = <<>>
  /\ state' = "running"

(* Runs one after the other, in which nothing fails and what is pending is *)
(* delivered at last.                                                      *)
LiveRuns == Init /\ [][Progress \/ Again]_pipeVars /\ WF_pipeVars(Progress)
=============================================================================
