----------------------------- MODULE Submission -----------------------------
(***************************************************************************)
(* The facade of orchestrator/api.py, submit() and get_status(), over the  *)
(* idempotency and tasks tables of the store, called by many clients in    *)
(* several API processes.                                                  *)
(*                                                                         *)
(* A process is one asyncio event loop.  submit() runs without a pause     *)
(* from its first line to the await of start_workflow(), and get_status()  *)
(* to its end, so calls of one process interleave only there; calls of     *)
(* different processes interleave at every transaction of the store.       *)
(*                                                                         *)
(* uuid4() gives every call of submit() a task id of its own: here a call  *)
(* is the id of the task that it may create.                               *)
(***************************************************************************)
EXTENDS Integers

CONSTANTS
    Calls,            \* calls of submit(), repetitions by a client included
    Polls,            \* calls of get_status()
    Processes,        \* API processes
    ProcessOf,        \* call or poll -> the process that serves it
    Accounts,
    AccountOf,        \* call or poll -> the account it is made for
    Keys,             \* idempotency keys
    KeyOf,            \* call -> its idempotency key, or NoKey
    LimiterAnswers,   \* what allow() may answer; TRUE without a limiter
    Failing,          \* what may raise or lose its answer: steps of submit(),
                      \* status writes
    Late,             \* the statuses whose write may outlive its timeout
    Crashing,         \* the processes that may crash
    Resets,           \* what reset() may be called with: accounts, or Everything
    NoKey, Everything

SubmitSteps == {"claim", "create", "start"}
Null == "null"

ASSUME SubmissionAssumption ==
    /\ ProcessOf \in [Calls \union Polls -> Processes]
    /\ AccountOf \in [Calls \union Polls -> Accounts]
    /\ KeyOf \in [Calls -> Keys \union {NoKey}] /\ NoKey \notin Keys
    /\ Null \notin Calls
    /\ LimiterAnswers \subseteq BOOLEAN
    /\ Failing \subseteq SubmitSteps \union {"status"}
    /\ Late \subseteq {"RUNNING", "COMPLETED", "FAILED"}
    /\ Crashing \subseteq Processes
    /\ Resets \subseteq Accounts \union {Everything} /\ Everything \notin Accounts

VARIABLES
    pc,            \* call -> where submit() is, or how it ended
    answer,        \* call -> the task id it returned
    poll,          \* poll -> where get_status() is, whose answer it looks up
    idempotency,   \* the idempotency table: key -> task id
    tasks,         \* the tasks table: task id -> row
    workflow,      \* task id -> its workflow on the Temporal server
    late           \* task id -> the status writes that outlived their timeout

tables == <<idempotency, tasks>>
workflowVars == <<workflow, late>>
vars == <<pc, answer, poll, tables, workflowVars>>

Outcomes == {"row", "violation", "not_found", "lost"}
Ended == {"completed", "failed", "given_up"}
Statuses == {"ACCEPTED", "RUNNING", "COMPLETED", "FAILED"}
Rows == [account : Accounts, key : Keys \union {NoKey}, status : Statuses]

TypeOK ==
    /\ pc \in [Calls -> SubmitSteps \union {"idle", "returned", "failed"}]
    /\ answer \in [Calls -> Calls \union {Null}]
    /\ poll \in [Polls -> [at : {"idle", "owner"} \union Outcomes,
                           of : Calls \union {Null}]]
    /\ idempotency \in [Keys -> Calls \union {Null}]
    /\ DOMAIN tasks \subseteq Calls /\ tasks \in [DOMAIN tasks -> Rows]
    /\ workflow \in [Calls -> {"none", "started", "running", "failing"} \union Ended]
    /\ late \in [Calls -> SUBSET Late]

Init ==
    /\ pc = [c \in Calls |-> "idle"]
    /\ answer = [c \in Calls |-> Null]
    /\ poll = [p \in Polls |-> [at |-> "idle", of |-> Null]]
    /\ idempotency = [k \in Keys |-> Null]
    /\ tasks = [c \in {} |-> Null]
    /\ workflow = [c \in Calls |-> "none"]
    /\ late = [c \in Calls |-> {}]

-----------------------------------------------------------------------------
(* The event loop of process p is in the middle of a call.                 *)
Busy(p) ==
    \/ \E c \in Calls : ProcessOf[c] = p /\ pc[c] \in {"claim", "create"}
    \/ \E q \in Polls : ProcessOf[q] = p /\ poll[q].at = "owner"

At(c, s) == pc' = [pc EXCEPT ![c] = s]

Returns(c, id) == At(c, "returned") /\ answer' = [answer EXCEPT ![c] = id]

(* A call without a key is not claimed.                                    *)
FirstWrite(c) == IF KeyOf[c] = NoKey THEN "create" ELSE "claim"

(* submit() is entered: an account is named, and the limiter is asked.     *)
Submit(c) ==
    /\ pc[c] = "idle" /\ ~Busy(ProcessOf[c])
    /\ \E ok \in LimiterAnswers : At(c, IF ok THEN FirstWrite(c) ELSE "failed")
    /\ UNCHANGED <<answer, poll, tables, workflowVars>>

(* The SELECT is dropped: the key is overwritten.                          *)
ClaimAlways(c) ==
    /\ idempotency' = [idempotency EXCEPT ![KeyOf[c]] = c]
    /\ At(c, "create") /\ UNCHANGED answer

(* register_idempotency(): one transaction claims the key or finds it      *)
(* claimed; a duplicate returns what is mapped to it.                      *)
Claim(c) ==
    IF idempotency[KeyOf[c]] = Null
    THEN /\ idempotency' = [idempotency EXCEPT ![KeyOf[c]] = c]
         /\ At(c, "create") /\ UNCHANGED answer
    ELSE /\ Returns(c, idempotency[KeyOf[c]]) /\ UNCHANGED idempotency

RegisterIdempotency(c) ==
    /\ pc[c] = "claim"
    /\ Claim(c)
    /\ UNCHANGED <<poll, tasks, workflowVars>>

(* The status is left to the first write of the workflow.                  *)
NewRowNoStatus(c) == [account |-> AccountOf[c], key |-> KeyOf[c], status |-> Null]

NewRow(c) == [account |-> AccountOf[c], key |-> KeyOf[c], status |-> "ACCEPTED"]

(* A row is written only for a task with a key.                            *)
InsertedKeyedOnly(c) ==
    [t \in DOMAIN tasks \union ({c} \ {d \in Calls : KeyOf[d] = NoKey}) |->
        IF t = c THEN NewRow(c) ELSE tasks[t]]

Inserted(c) ==
    [t \in DOMAIN tasks \union {c} |-> IF t = c THEN NewRow(c) ELSE tasks[t]]

CreateTask(c) ==
    /\ pc[c] = "create"
    /\ tasks' = Inserted(c)
    /\ At(c, "start")
    /\ UNCHANGED <<answer, poll, idempotency, workflowVars>>

(* The server starts the workflow and the call returns; or the answer of   *)
(* the server gets lost and the call raises.                               *)
StartWorkflow(c) ==
    /\ pc[c] = "start"
    /\ workflow' = [workflow EXCEPT ![c] = "started"]
    /\ \/ Returns(c, c)
       \/ /\ "start" \in Failing
          /\ At(c, "failed") /\ UNCHANGED answer
    /\ UNCHANGED <<poll, tables, late>>

(* A step of submit() raises and had no effect, or the store has committed *)
(* and its answer got lost.                                                *)
SubmitRaises(c) ==
    /\ pc[c] \in Failing
    /\ At(c, "failed")
    /\ \/ UNCHANGED tables
       \/ /\ pc[c] = "claim" /\ idempotency[KeyOf[c]] = Null
          /\ idempotency' = [idempotency EXCEPT ![KeyOf[c]] = c]
          /\ UNCHANGED tasks
       \/ /\ pc[c] = "create"
          /\ tasks' = Inserted(c)
          /\ UNCHANGED idempotency
    /\ UNCHANGED <<answer, poll, workflowVars>>

-----------------------------------------------------------------------------
(* get_status() on the id that call c returned: the first SELECT.          *)
Answered(p, at, c) == poll' = [poll EXCEPT ![p] = [at |-> at, of |-> c]]

(* The row is returned whoever owns it.                                    *)
VisibleToAll(id, account) == id \in DOMAIN tasks

Visible(id, account) == id \in DOMAIN tasks /\ tasks[id].account = account

GetTask(p, c) ==
    /\ poll[p].at = "idle" /\ ~Busy(ProcessOf[p])
    /\ pc[c] = "returned"
    /\ Answered(p, IF Visible(answer[c], AccountOf[p]) THEN "row" ELSE "owner", c)
    /\ UNCHANGED <<pc, answer, tables, workflowVars>>

(* The second one, in a transaction of its own.                            *)
TaskOwner(p) ==
    LET c == poll[p].of
    IN /\ poll[p].at = "owner"
       /\ Answered(p, IF answer[c] \in DOMAIN tasks THEN "violation" ELSE "not_found", c)
       /\ UNCHANGED <<pc, answer, tables, workflowVars>>

-----------------------------------------------------------------------------
(* The workflow of a task, as far as the tasks table shows it:             *)
(* TaskWorkflow reduced to the stages of TaskLifecycle in which a status   *)
(* is written. The write may take effect and its report get lost, so that  *)
(* the stage is not left, and an attempt that the server has given up may  *)
(* write later.                                                            *)
StatusOf == [started |-> "RUNNING", running |-> "COMPLETED", failing |-> "FAILED"]
NextStage == [started |-> "running", running |-> "completed", failing |-> "failed"]

(* An UPDATE of a row that is gone changes nothing.                        *)
SetTaskStatus(t, status) ==
    /\ tasks' = [u \in DOMAIN tasks |->
                   IF u = t THEN [tasks[u] EXCEPT !.status = status] ELSE tasks[u]]
    /\ UNCHANGED <<pc, answer, poll, idempotency>>

Enters(t, stage) == workflow' = [workflow EXCEPT ![t] = stage] /\ UNCHANGED late

(* The status write of the stage takes effect and is reported.             *)
WorkflowAdvances(t) ==
    /\ workflow[t] \in DOMAIN StatusOf
    /\ SetTaskStatus(t, StatusOf[workflow[t]])
    /\ Enters(t, NextStage[workflow[t]])

(* It takes effect, and its report gets lost.                              *)
ReportLost(t) ==
    /\ "status" \in Failing
    /\ workflow[t] \in DOMAIN StatusOf
    /\ SetTaskStatus(t, StatusOf[workflow[t]])
    /\ UNCHANGED workflowVars

(* An activity fails for good: run() goes to its except block.             *)
WorkflowFails(t) ==
    /\ workflow[t] \in {"started", "running"}
    /\ Enters(t, "failing")
    /\ UNCHANGED <<pc, answer, poll, tables>>

(* The dead letter is not written, or nobody hears of it: the last status  *)
(* stays.                                                                  *)
WorkflowGivesUp(t) ==
    /\ "status" \in Failing
    /\ workflow[t] = "failing"
    /\ Enters(t, "given_up")
    /\ UNCHANGED <<pc, answer, poll, tables>>

(* A body outlives its start-to-close timeout (one for each status), and   *)
(* takes effect when it likes.                                             *)
BodyOutlives(t) ==
    /\ workflow[t] \in DOMAIN StatusOf /\ StatusOf[workflow[t]] \in Late
    /\ late' = [late EXCEPT ![t] = @ \union {StatusOf[workflow[t]]}]
    /\ UNCHANGED <<pc, answer, poll, tables, workflow>>

LateWrite(t) ==
    \E status \in late[t] :
        /\ SetTaskStatus(t, status)
        /\ late' = [late EXCEPT ![t] = @ \ {status}]
        /\ UNCHANGED workflow

(* The keys of an account are forgotten together with its tasks.           *)
ForgottenKeys(scope) == [k \in Keys |->
    IF idempotency[k] # Null /\ (scope = Everything \/ AccountOf[idempotency[k]] = scope)
    THEN Null ELSE idempotency[k]]

(* The idempotency table has no account: only reset() of everything        *)
(* forgets keys.                                                           *)
RemainingKeys(scope) == [k \in Keys |-> IF scope = Everything THEN Null ELSE idempotency[k]]

RemainingTasks(scope) ==
    {t \in DOMAIN tasks : scope # Everything /\ tasks[t].account # scope}

Reset(scope) ==
    /\ idempotency' = RemainingKeys(scope)
    /\ tasks' = [t \in RemainingTasks(scope) |-> tasks[t]]
    /\ UNCHANGED <<pc, answer, poll, workflowVars>>

(* A process dies: its clients get no answer.                              *)
Crash(p) ==
    /\ pc' = [c \in Calls |->
                IF ProcessOf[c] = p /\ pc[c] \in SubmitSteps THEN "failed" ELSE pc[c]]
    /\ poll' = [q \in Polls |->
                IF ProcessOf[q] = p /\ poll[q].at = "owner"
                THEN [poll[q] EXCEPT !.at = "lost"] ELSE poll[q]]
    /\ UNCHANGED <<answer, tables, workflowVars>>

Continue(c) ==
    RegisterIdempotency(c) \/ CreateTask(c) \/ StartWorkflow(c) \/ SubmitRaises(c)

(* Every client has its answer and every workflow has ended.               *)
Quiesced ==
    /\ \A c \in Calls : pc[c] \in {"returned", "failed"}
                        /\ workflow[c] \in {"none"} \union Ended
    /\ \A p \in Polls : poll[p].at # "owner"
    /\ UNCHANGED vars

Next ==
    \/ \E c \in Calls :
         \/ Submit(c) \/ Continue(c)
         \/ WorkflowAdvances(c) \/ ReportLost(c) \/ WorkflowFails(c) \/ WorkflowGivesUp(c)
         \/ BodyOutlives(c) \/ LateWrite(c)
    \/ \E p \in Polls : TaskOwner(p) \/ \E c \in Calls : GetTask(p, c)
    \/ \E scope \in Resets : Reset(scope)
    \/ \E p \in Crashing : Crash(p)
    \/ Quiesced

Spec == Init /\ [][Next]_vars

(* Nobody has to call submit(), but an event loop goes on with a call that *)
(* was made; workers are polling and workflows end (TaskWorkflow shows     *)
(* that they do), for reports are not lost and bodies not late for ever.   *)
Ending(t) == WorkflowAdvances(t) \/ WorkflowFails(t) \/ WorkflowGivesUp(t)

FairSpec ==
    /\ Spec
    /\ \A c \in Calls : WF_vars(Continue(c)) /\ WF_vars(Ending(c))
    /\ \A p \in Polls : WF_vars(TaskOwner(p))

-----------------------------------------------------------------------------
(* One idempotency key starts at most one workflow, whichever calls race,  *)
(* fail or are repeated, in whichever processes.                           *)
OneWorkflowPerKey ==
    \A c, d \in Calls :
        /\ workflow[c] # "none" /\ workflow[d] # "none"
        /\ KeyOf[c] = KeyOf[d] /\ KeyOf[c] # NoKey
        => c = d

(* Whoever submits with the same key gets the same task id, and it is the  *)
(* id of a call that was made with that key.                               *)
SameKeySameTask ==
    \A c \in Calls : answer[c] # Null =>
        /\ KeyOf[answer[c]] = KeyOf[c]
        /\ \A d \in Calls : answer[d] # Null /\ KeyOf[d] = KeyOf[c] /\ KeyOf[c] # NoKey
             => answer[d] = answer[c]

(* The statuses that a row may have at each stage of its workflow: what    *)
(* was written last, what is being written and not reported yet, and what  *)
(* is late. A completion that is not reported does not keep run() from its *)
(* except block.                                                           *)
StatusesOf == [started |-> {"ACCEPTED", "RUNNING"}, running |-> {"RUNNING", "COMPLETED"},
               completed |-> {"COMPLETED"}, failing |-> Statuses, failed |-> {"FAILED"},
               given_up |-> Statuses]

(* A workflow that the server runs has a row, of the account it is charged *)
(* to and with the key it was submitted under, whose status is one that    *)
(* the workflow wrote: the row is there before the workflow, no later call *)
(* replaces it or takes it back to ACCEPTED, and a reset of other accounts *)
(* does not touch it. Who has completed, or reported its failure, says so, *)
(* unless a late body writes over it.                                      *)
StartedIsRecorded ==
    \A t \in Calls : workflow[t] # "none" /\ AccountOf[t] \notin Resets =>
        /\ t \in DOMAIN tasks
        /\ tasks[t].account = AccountOf[t] /\ tasks[t].key = KeyOf[t]
        /\ tasks[t].status \in StatusesOf[workflow[t]] \union Late

(* A client that submitted a task itself and got its id can poll it from   *)
(* then on: it is neither unknown nor somebody else's, unless the tasks of *)
(* its own account are reset.                                              *)
ReadYourSubmission ==
    \A p \in Polls :
        LET c == poll[p].of
        IN /\ c # Null /\ answer[c] = c
           /\ AccountOf[p] = AccountOf[c] /\ AccountOf[c] \notin Resets
           => poll[p].at = "row"

(* No poll returns the row of another account's task, whatever id another  *)
(* client was given.                                                       *)
TenantScoped ==
    \A p \in Polls : poll[p].at = "row" =>
        AccountOf[answer[poll[p].of]] = AccountOf[p]

(* Whoever is given a task id, its creator or a duplicate, waits for a     *)
(* task that ends and says so from some moment on. The exceptions: its     *)
(* account is reset; its creator failed before it started the workflow;    *)
(* the workflow failed and its dead letter was not written or not          *)
(* reported; a body that outlived its timeout wrote another status over    *)
(* the last one.                                                           *)
EndedFor(t) ==
    \/ AccountOf[t] \in Resets
    \/ pc[t] = "failed" /\ workflow[t] = "none"
    \/ workflow[t] = "given_up"
    \/ /\ workflow[t] \in Ended /\ t \in DOMAIN tasks
       /\ tasks[t].status \in {"COMPLETED", "FAILED"} \union Late

EveryReturnedTaskEnds ==
    \A t \in Calls : (\E c \in Calls : answer[c] = t) ~> []EndedFor(t)

-----------------------------------------------------------------------------
(* What the comments of the repository say and the code does not do.       *)

(* api.py: "a duplicate idempotency_key returns the EXISTING task id": a   *)
(* task that exists, unless its creator is still about to create it.       *)
ReturnedTaskExists ==
    \A c \in Calls : answer[c] # Null /\ pc[answer[c]] = "failed" =>
        answer[c] \in DOMAIN tasks

=============================================================================
