--------------------------- MODULE TaskLifecycle ---------------------------
(***************************************************************************)
(* What the workflow of a submitted task promises, whatever its server and *)
(* its workers go through: run() of orchestrator/workflow.py without its   *)
(* attempts, workers, bodies, timeouts and lost reports.                   *)
(*                                                                         *)
(* A task goes from stage to stage.  Each stage has one effect that others *)
(* can see; a stage is left for the next one only by its effect, which may *)
(* happen again before that.  No effect happens out of its stage.  A task  *)
(* may fail at any stage, for good.                                        *)
(***************************************************************************)
EXTENDS Integers

CONSTANT Tasks

VARIABLES
    stage,        \* task -> how far run() has come
    charged,      \* task -> the charges that were made for it
    dispatched,   \* task -> how often the provider was given it
    status        \* task -> what a client is told

vars == <<stage, charged, dispatched, status>>

Closed == {"completed", "failed"}

Init ==
    /\ stage = [t \in Tasks |-> "accepted"]
    /\ charged = [t \in Tasks |-> {}]
    /\ dispatched = [t \in Tasks |-> 0]
    /\ status = [t \in Tasks |-> "ACCEPTED"]

(* After its effect a stage is left, or else it is repeated.               *)
Leaves(t, next) == stage' \in {stage, [stage EXCEPT ![t] = next]}

Writes(t, s) ==
    /\ status' = [status EXCEPT ![t] = s]
    /\ UNCHANGED <<charged, dispatched>>

Start(t) == stage[t] = "accepted" /\ Writes(t, "RUNNING") /\ Leaves(t, "running")

(* A charge is the task's own, and a new one.                              *)
Charge(t) ==
    /\ stage[t] = "running"
    /\ \E c \in charged'[t] :
         /\ \A u \in Tasks : c \notin charged[u]
         /\ charged' = [charged EXCEPT ![t] = @ \union {c}]
    /\ Leaves(t, "charged")
    /\ UNCHANGED <<dispatched, status>>

Dispatch(t) ==
    /\ stage[t] = "charged"
    /\ dispatched' = [dispatched EXCEPT ![t] = @ + 1]
    /\ Leaves(t, "dispatched")
    /\ UNCHANGED <<charged, status>>

Complete(t) == stage[t] = "dispatched" /\ Writes(t, "COMPLETED") /\ Leaves(t, "completed")

(* Who fails keeps what it was charged and the status it had.              *)
Fail(t) ==
    /\ stage[t] \notin Closed \union {"failing"}
    /\ stage' = [stage EXCEPT ![t] = "failing"]
    /\ UNCHANGED <<charged, dispatched, status>>

DeadLetter(t) == stage[t] = "failing" /\ Writes(t, "FAILED") /\ Leaves(t, "failed")

(* The dead letter is not written: the last status stays.                  *)
GiveUp(t) ==
    /\ stage[t] = "failing"
    /\ stage' = [stage EXCEPT ![t] = "failed"]
    /\ UNCHANGED <<charged, dispatched, status>>

Next ==
    \E t \in Tasks :
        \/ Start(t) \/ Charge(t) \/ Dispatch(t) \/ Complete(t)
        \/ Fail(t) \/ DeadLetter(t) \/ GiveUp(t)

Spec == Init /\ [][Next]_vars

=============================================================================
