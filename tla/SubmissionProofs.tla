-------------------------- MODULE SubmissionProofs --------------------------
(***************************************************************************)
(* Theorems about Submission, for every set of calls, processes, keys and  *)
(* accounts.                                                               *)
(***************************************************************************)
EXTENDS Submission, TLAPS

(* A call that is claiming has a key.                                      *)
ClaimingHasKey == \A c \in Calls : pc[c] = "claim" => KeyOf[c] # NoKey

TypeInv == TypeOK /\ ClaimingHasKey

LEMMA ConstantsOK ==
    /\ \A c \in Calls : KeyOf[c] \in Keys \union {NoKey} /\ AccountOf[c] \in Accounts
    /\ NoKey \notin Keys /\ Null \notin Calls
    /\ \A c \in Calls : KeyOf[c] # NoKey => KeyOf[c] \in Keys
BY SubmissionAssumption

(* What any step of a workflow does: at most a status of its row changes.   *)
OfWorkflow(t) ==
    \/ WorkflowAdvances(t) \/ ReportLost(t) \/ WorkflowFails(t) \/ WorkflowGivesUp(t)
    \/ BodyOutlives(t) \/ LateWrite(t)

LEMMA WorkflowStep ==
    ASSUME TypeInv, NEW t \in Calls, OfWorkflow(t)
    PROVE  /\ UNCHANGED <<pc, answer, poll, idempotency>>
           /\ workflow' \in [Calls -> {"none", "started", "running", "failing"} \union Ended]
           /\ late' \in [Calls -> SUBSET Late]
           /\ \A c \in Calls : workflow'[c] = "none" <=> workflow[c] = "none"
           /\ tasks' = tasks \/ \E status \in Statuses : SetTaskStatus(t, status)
<1> USE DEF TypeInv, TypeOK, Ended, Statuses
<1>1. CASE WorkflowAdvances(t)
  <2>1. /\ workflow[t] \in {"started", "running", "failing"}
        /\ SetTaskStatus(t, StatusOf[workflow[t]])
        /\ Enters(t, NextStage[workflow[t]])
    BY <1>1 DEF WorkflowAdvances, StatusOf
  <2> QED
    BY <2>1 DEF SetTaskStatus, Enters, StatusOf, NextStage
<1>2. CASE ReportLost(t)
  <2>1. /\ workflow[t] \in {"started", "running", "failing"}
        /\ SetTaskStatus(t, StatusOf[workflow[t]])
    BY <1>2 DEF ReportLost, StatusOf
  <2> QED
    BY <1>2, <2>1 DEF ReportLost, SetTaskStatus, StatusOf, workflowVars
<1>3. CASE WorkflowFails(t) \/ WorkflowGivesUp(t)
  BY <1>3 DEF WorkflowFails, WorkflowGivesUp, Enters, tables
<1>4. CASE BodyOutlives(t)
  <2>1. /\ workflow[t] \in {"started", "running", "failing"}
        /\ StatusOf[workflow[t]] \in Late
        /\ late' = [late EXCEPT ![t] = @ \union {StatusOf[workflow[t]]}]
        /\ UNCHANGED <<pc, answer, poll, tables, workflow>>
    BY <1>4 DEF BodyOutlives, StatusOf
  <2> QED
    BY <2>1 DEF tables
<1>5. CASE LateWrite(t)
  <2>1. PICK status \in late[t] :
          /\ SetTaskStatus(t, status)
          /\ late' = [late EXCEPT ![t] = @ \ {status}]
          /\ UNCHANGED workflow
    BY <1>5 DEF LateWrite
  <2>2. status \in {"RUNNING", "COMPLETED", "FAILED"}
    BY <2>1, SubmissionAssumption
  <2> QED
    BY <2>1, <2>2 DEF SetTaskStatus
<1> QED
  BY <1>1, <1>2, <1>3, <1>4, <1>5 DEF OfWorkflow

LEMMA TypeInvNext == TypeInv /\ [Next]_vars => TypeInv'
<1> SUFFICES ASSUME TypeInv, [Next]_vars PROVE TypeInv'
  OBVIOUS
<1>1. ASSUME NEW c \in Calls, Submit(c) PROVE TypeInv'
  <2>1. PICK ok \in LimiterAnswers : At(c, IF ok THEN FirstWrite(c) ELSE "failed")
    BY <1>1 DEF Submit
  <2>2. \A d \in Calls : pc'[d] = "claim" => KeyOf[d] # NoKey
    BY <2>1 DEF At, FirstWrite, TypeInv, TypeOK, ClaimingHasKey
  <2>3. pc' \in [Calls -> SubmitSteps \union {"idle", "returned", "failed"}]
    BY <2>1 DEF At, FirstWrite, TypeInv, TypeOK, SubmitSteps
  <2> QED
    BY <1>1, <2>2, <2>3 DEF workflowVars, Submit, tables, TypeInv, TypeOK, ClaimingHasKey
<1>2. ASSUME NEW c \in Calls, RegisterIdempotency(c) PROVE TypeInv'
  <2>1. KeyOf[c] \in Keys
    BY <1>2, ConstantsOK DEF RegisterIdempotency, TypeInv, ClaimingHasKey
  <2>2. CASE idempotency[KeyOf[c]] = Null
    BY <1>2, <2>1, <2>2 DEF workflowVars, RegisterIdempotency, Claim, At, SubmitSteps,
       TypeInv, TypeOK, ClaimingHasKey
  <2>3. CASE idempotency[KeyOf[c]] # Null
    BY <1>2, <2>1, <2>3 DEF workflowVars, RegisterIdempotency, Claim, Returns, At,
       SubmitSteps,
       TypeInv, TypeOK, ClaimingHasKey
  <2> QED
    BY <2>2, <2>3
<1>3. ASSUME NEW c \in Calls, CreateTask(c) PROVE TypeInv'
  <2>1. NewRow(c) \in Rows
    BY ConstantsOK DEF NewRow, Rows, Statuses
  <2>2. DOMAIN tasks' \subseteq Calls /\ tasks' \in [DOMAIN tasks' -> Rows]
    BY <1>3, <2>1 DEF CreateTask, Inserted, TypeInv, TypeOK
  <2> QED
    BY <1>3, <2>2 DEF workflowVars, CreateTask, At, SubmitSteps, TypeInv, TypeOK,
       ClaimingHasKey
<1>4. ASSUME NEW c \in Calls, StartWorkflow(c) PROVE TypeInv'
  BY <1>4 DEF StartWorkflow, Returns, At, tables, SubmitSteps, TypeInv, TypeOK,
     ClaimingHasKey
<1>5. ASSUME NEW c \in Calls, SubmitRaises(c) PROVE TypeInv'
  <2>1. NewRow(c) \in Rows
    BY ConstantsOK DEF NewRow, Rows, Statuses
  <2>2. DOMAIN tasks' \subseteq Calls /\ tasks' \in [DOMAIN tasks' -> Rows]
    BY <1>5, <2>1 DEF SubmitRaises, Inserted, tables, TypeInv, TypeOK
  <2>3. pc[c] = "claim" => KeyOf[c] \in Keys
    BY ConstantsOK DEF TypeInv, ClaimingHasKey
  <2>4. idempotency' \in [Keys -> Calls \union {Null}]
    BY <1>5, <2>3 DEF SubmitRaises, tables, TypeInv, TypeOK
  <2> QED
    BY <1>5, <2>2, <2>4 DEF SubmitRaises, At, workflowVars, TypeInv, TypeOK, ClaimingHasKey
<1>6. ASSUME NEW t \in Calls, OfWorkflow(t) PROVE TypeInv'
  <2>1. ASSUME NEW status \in Statuses, SetTaskStatus(t, status)
        PROVE  DOMAIN tasks' \subseteq Calls /\ tasks' \in [DOMAIN tasks' -> Rows]
    BY <2>1 DEF SetTaskStatus, TypeInv, TypeOK, Rows
  <2>2. DOMAIN tasks' \subseteq Calls /\ tasks' \in [DOMAIN tasks' -> Rows]
    BY <1>6, <2>1, WorkflowStep DEF TypeInv, TypeOK
  <2> QED
    BY <1>6, <2>2, WorkflowStep DEF TypeInv, TypeOK, ClaimingHasKey
<1>7. ASSUME NEW p \in Polls, NEW c \in Calls, GetTask(p, c) PROVE TypeInv'
  BY <1>7 DEF workflowVars, GetTask, Answered, tables, Outcomes, TypeInv, TypeOK,
     ClaimingHasKey
<1>8. ASSUME NEW p \in Polls, TaskOwner(p) PROVE TypeInv'
  BY <1>8 DEF workflowVars, TaskOwner, Answered, tables, Outcomes, TypeInv, TypeOK,
     ClaimingHasKey
<1>9. ASSUME NEW scope \in Resets, Reset(scope) PROVE TypeInv'
  <2>1. DOMAIN tasks' \subseteq Calls /\ tasks' \in [DOMAIN tasks' -> Rows]
    BY <1>9 DEF Reset, RemainingTasks, TypeInv, TypeOK
  <2> QED
    BY <1>9, <2>1 DEF workflowVars, Reset, RemainingKeys, TypeInv, TypeOK, ClaimingHasKey
<1>10. ASSUME NEW p \in Crashing, Crash(p) PROVE TypeInv'
  <2>1. poll' \in [Polls -> [at : {"idle", "owner"} \union Outcomes,
                             of : Calls \union {Null}]]
    BY <1>10 DEF Crash, Outcomes, TypeInv, TypeOK
  <2> QED
    BY <1>10, <2>1 DEF workflowVars, Crash, tables, TypeInv, TypeOK, ClaimingHasKey
<1>11. CASE UNCHANGED vars
  BY <1>11 DEF workflowVars, vars, tables, TypeInv, TypeOK, ClaimingHasKey
<1> QED
  BY <1>1, <1>2, <1>3, <1>4, <1>5, <1>6, <1>7, <1>8, <1>9, <1>10, <1>11
     DEF Next, OfWorkflow, Continue, Quiesced

LEMMA TypeInvInit == Init => TypeInv
BY DEF Init, TypeInv, TypeOK, ClaimingHasKey

-----------------------------------------------------------------------------
(* A keyed call that got past its claim, or has a workflow, is what its    *)
(* key is mapped to.                                                       *)
Owns(c) == KeyOf[c] # NoKey /\ (pc[c] \in {"create", "start"} \/ workflow[c] # "none")

ClaimInv == \A c \in Calls : Owns(c) => idempotency[KeyOf[c]] = c

LEMMA ClaimInvNext ==
    ASSUME Everything \notin Resets, TypeInv, ClaimInv, [Next]_vars
    PROVE  ClaimInv'
<1>1. ASSUME idempotency' = idempotency, \A c \in Calls : Owns(c)' => Owns(c)
      PROVE  ClaimInv'
  BY <1>1 DEF ClaimInv
<1>2. ASSUME NEW c \in Calls, RegisterIdempotency(c) PROVE ClaimInv'
  <2>1. KeyOf[c] \in Keys
    BY <1>2, ConstantsOK DEF RegisterIdempotency, TypeInv, ClaimingHasKey
  <2>2. CASE idempotency[KeyOf[c]] = Null
    <3>1. /\ idempotency' = [idempotency EXCEPT ![KeyOf[c]] = c]
          /\ pc' = [pc EXCEPT ![c] = "create"] /\ workflow' = workflow
      BY <1>2, <2>2 DEF workflowVars, RegisterIdempotency, Claim, At
    <3> SUFFICES ASSUME NEW d \in Calls, Owns(d)' PROVE idempotency'[KeyOf[d]] = d
      BY DEF ClaimInv
    <3>2. CASE d = c
      BY <2>1, <3>1, <3>2 DEF TypeInv, TypeOK
    <3>3. CASE d # c
      <4>1. idempotency[KeyOf[d]] = d
        BY <3>1, <3>3 DEF Owns, ClaimInv, TypeInv, TypeOK
      <4>2. KeyOf[d] # KeyOf[c]
        BY <2>2, <4>1, ConstantsOK
      <4> QED
        BY <3>1, <4>1, <4>2 DEF TypeInv, TypeOK
    <3> QED
      BY <3>2, <3>3
  <2>3. CASE idempotency[KeyOf[c]] # Null
    BY <1>1, <1>2, <2>3 DEF workflowVars, RegisterIdempotency, Claim, Returns, At, Owns,
       TypeInv, TypeOK
  <2> QED
    BY <2>2, <2>3
<1>3. ASSUME NEW c \in Calls, Submit(c) PROVE ClaimInv'
  <2>1. PICK ok \in LimiterAnswers : At(c, IF ok THEN FirstWrite(c) ELSE "failed")
    BY <1>3 DEF Submit
  <2>2. \A d \in Calls : Owns(d)' => Owns(d)
    BY <1>3, <2>1 DEF workflowVars, Submit, At, FirstWrite, Owns, TypeInv, TypeOK
  <2> QED
    BY <1>1, <1>3, <2>2 DEF Submit, tables
<1>4. ASSUME NEW c \in Calls, CreateTask(c) \/ StartWorkflow(c) PROVE ClaimInv'
  BY <1>1, <1>4 DEF CreateTask, StartWorkflow, Returns, At, tables, workflowVars, Owns,
     TypeInv, TypeOK
<1>9. ASSUME NEW c \in Calls, SubmitRaises(c) PROVE ClaimInv'
  <2>1. pc' = [pc EXCEPT ![c] = "failed"] /\ workflow' = workflow
    BY <1>9 DEF SubmitRaises, At, workflowVars
  <2>2. \A d \in Calls : Owns(d)' => Owns(d)
    BY <2>1 DEF Owns, TypeInv, TypeOK
  <2>3. CASE idempotency' = idempotency
    BY <1>1, <2>2, <2>3
  <2>4. CASE /\ pc[c] = "claim" /\ idempotency[KeyOf[c]] = Null
             /\ idempotency' = [idempotency EXCEPT ![KeyOf[c]] = c]
    <3> SUFFICES ASSUME NEW d \in Calls, Owns(d)' PROVE idempotency'[KeyOf[d]] = d
      BY DEF ClaimInv
    <3>1. idempotency[KeyOf[d]] = d
      BY <2>2 DEF ClaimInv
    <3>2. KeyOf[d] # KeyOf[c]
      BY <2>4, <3>1, ConstantsOK
    <3> QED
      BY <2>4, <3>1, <3>2 DEF TypeInv, TypeOK
  <2> QED
    BY <1>9, <2>3, <2>4 DEF SubmitRaises, tables
<1>5. ASSUME NEW t \in Calls, OfWorkflow(t) PROVE ClaimInv'
  BY <1>1, <1>5, WorkflowStep DEF Owns
<1>6. ASSUME NEW scope \in Resets, Reset(scope) PROVE ClaimInv'
  <2>1. idempotency' = idempotency
    BY <1>6 DEF Reset, RemainingKeys, TypeInv, TypeOK
  <2> QED
    BY <1>1, <1>6, <2>1 DEF workflowVars, Reset, Owns
<1>7. ASSUME NEW p \in Crashing, Crash(p) PROVE ClaimInv'
  BY <1>1, <1>7 DEF workflowVars, Crash, tables, Owns, SubmitSteps, TypeInv, TypeOK
<1>8. CASE UNCHANGED <<pc, tables, workflowVars>>
  BY <1>1, <1>8 DEF tables, workflowVars, Owns
<1> QED
  BY <1>2, <1>3, <1>4, <1>5, <1>6, <1>7, <1>8, <1>9
     DEF Next, OfWorkflow, Continue, GetTask, TaskOwner, Quiesced, vars, workflowVars

(* While nobody resets everything, a key starts at most one workflow,      *)
(* however many calls race, in whichever processes, with crashes, failing  *)
(* steps, lost answers and resets of accounts.                             *)
THEOREM OneWorkflow ==
    ASSUME Everything \notin Resets PROVE Spec => []OneWorkflowPerKey
<1>1. Init => ClaimInv
  BY DEF Init, ClaimInv, Owns
<1>2. TypeInv /\ ClaimInv /\ [Next]_vars => ClaimInv'
  BY ClaimInvNext
<1>3. ClaimInv => OneWorkflowPerKey
  BY DEF ClaimInv, Owns, OneWorkflowPerKey
<1> QED
  BY <1>1, <1>2, <1>3, TypeInvInit, TypeInvNext, PTL DEF Spec

(* The variables keep their types: the tables stay functions, and only     *)
(* tasks that were submitted are in them.                                  *)
THEOREM SubmissionTypes == Spec => []TypeOK
<1>1. TypeInv => TypeOK
  BY DEF TypeInv
<1> QED
  BY <1>1, TypeInvInit, TypeInvNext, PTL DEF Spec

-----------------------------------------------------------------------------
(* What a call returned: its own id, or what its key is mapped to.  A key  *)
(* is mapped to a call that was made with it and has claimed it.           *)
MappedInv == \A k \in Keys : idempotency[k] # Null => KeyOf[idempotency[k]] = k

AnswerInv ==
    \A c \in Calls : answer[c] # Null =>
        answer[c] = IF KeyOf[c] = NoKey THEN c ELSE idempotency[KeyOf[c]]

LEMMA AnswerInvNext ==
    ASSUME Everything \notin Resets, TypeInv, ClaimInv, MappedInv, AnswerInv, [Next]_vars
    PROVE  MappedInv' /\ AnswerInv'
<1>1. CASE UNCHANGED <<idempotency, answer>>
  BY <1>1 DEF MappedInv, AnswerInv
<1>2. ASSUME NEW c \in Calls, RegisterIdempotency(c) PROVE MappedInv' /\ AnswerInv'
  <2>1. KeyOf[c] \in Keys /\ KeyOf[c] # NoKey
    BY <1>2, ConstantsOK DEF RegisterIdempotency, TypeInv, ClaimingHasKey
  <2>2. CASE idempotency[KeyOf[c]] = Null
    <3>1. idempotency' = [idempotency EXCEPT ![KeyOf[c]] = c] /\ answer' = answer
      BY <1>2, <2>2 DEF RegisterIdempotency, Claim
    <3>2. MappedInv'
      BY <2>1, <3>1 DEF MappedInv, TypeInv, TypeOK
    <3>3. \A d \in Calls : answer[d] # Null /\ KeyOf[d] # NoKey => KeyOf[d] # KeyOf[c]
      BY <2>2, ConstantsOK DEF AnswerInv
    <3>4. AnswerInv'
      BY <2>1, <3>1, <3>3, ConstantsOK DEF AnswerInv, TypeInv, TypeOK
    <3> QED
      BY <3>2, <3>4
  <2>3. CASE idempotency[KeyOf[c]] # Null
    BY <1>2, <2>1, <2>3 DEF RegisterIdempotency, Claim, Returns, MappedInv, AnswerInv,
       TypeInv, TypeOK
  <2> QED
    BY <2>2, <2>3
<1>3. ASSUME NEW c \in Calls, StartWorkflow(c) PROVE MappedInv' /\ AnswerInv'
  <2>1. KeyOf[c] # NoKey => idempotency[KeyOf[c]] = c
    BY <1>3 DEF StartWorkflow, ClaimInv, Owns
  <2> QED
    BY <1>3, <2>1 DEF StartWorkflow, Returns, tables, MappedInv, AnswerInv, TypeInv, TypeOK
<1>4. ASSUME NEW scope \in Resets, Reset(scope) PROVE MappedInv' /\ AnswerInv'
  <2>1. idempotency' = idempotency
    BY <1>4 DEF Reset, RemainingKeys, TypeInv, TypeOK
  <2> QED
    BY <1>1, <1>4, <2>1 DEF Reset
<1>5. ASSUME NEW c \in Calls, SubmitRaises(c) PROVE MappedInv' /\ AnswerInv'
  <2>1. CASE idempotency' = idempotency
    BY <1>1, <1>5, <2>1 DEF SubmitRaises
  <2>2. CASE /\ pc[c] = "claim" /\ idempotency[KeyOf[c]] = Null
             /\ idempotency' = [idempotency EXCEPT ![KeyOf[c]] = c]
    <3>1. KeyOf[c] \in Keys /\ answer' = answer
      BY <1>5, <2>2, ConstantsOK DEF SubmitRaises, TypeInv, ClaimingHasKey
    <3>2. MappedInv'
      BY <2>2, <3>1 DEF MappedInv, TypeInv, TypeOK
    <3>3. \A d \in Calls : answer[d] # Null /\ KeyOf[d] # NoKey => KeyOf[d] # KeyOf[c]
      BY <2>2, ConstantsOK DEF AnswerInv
    <3>4. AnswerInv'
      BY <2>2, <3>1, <3>3, ConstantsOK DEF AnswerInv, TypeInv, TypeOK
    <3> QED
      BY <3>2, <3>4
  <2> QED
    BY <1>5, <2>1, <2>2 DEF SubmitRaises, tables
<1>6. ASSUME NEW t \in Calls, OfWorkflow(t) PROVE MappedInv' /\ AnswerInv'
  BY <1>1, <1>6, WorkflowStep
<1> QED
  BY <1>1, <1>2, <1>3, <1>4, <1>5, <1>6
     DEF Next, OfWorkflow, Continue, Submit, CreateTask, GetTask, TaskOwner, Crash,
         Quiesced, vars, tables

(* While nobody resets everything, calls with one key that return get the  *)
(* same task id, of a call that was made with that key.                    *)
THEOREM SameTask ==
    ASSUME Everything \notin Resets PROVE Spec => []SameKeySameTask
<1> DEFINE Inv == ClaimInv /\ MappedInv /\ AnswerInv
<1>1. Init => Inv
  BY DEF Init, ClaimInv, Owns, MappedInv, AnswerInv
<1>2. TypeInv /\ Inv /\ [Next]_vars => Inv'
  BY ClaimInvNext, AnswerInvNext
<1>3. TypeInv /\ Inv => SameKeySameTask
  BY ConstantsOK DEF MappedInv, AnswerInv, SameKeySameTask
<1> QED
  BY <1>1, <1>2, <1>3, TypeInvInit, TypeInvNext, PTL DEF Spec

-----------------------------------------------------------------------------
(* A row belongs to the account of the call that inserted it, until it is  *)
(* deleted.                                                                *)
OwnedInv == \A t \in DOMAIN tasks : tasks[t].account = AccountOf[t]

LEMMA OwnedInvNext == TypeInv /\ OwnedInv /\ [Next]_vars => OwnedInv'
<1> SUFFICES ASSUME TypeInv, OwnedInv, [Next]_vars PROVE OwnedInv'
  OBVIOUS
<1>1. ASSUME NEW c \in Calls, CreateTask(c) PROVE OwnedInv'
  BY <1>1 DEF CreateTask, Inserted, NewRow, OwnedInv
<1>2. ASSUME NEW t \in Calls, OfWorkflow(t) PROVE OwnedInv'
  <2>1. ASSUME NEW status \in Statuses, SetTaskStatus(t, status) PROVE OwnedInv'
    BY <2>1 DEF SetTaskStatus, OwnedInv, TypeInv, TypeOK, Rows
  <2> QED
    BY <1>2, <2>1, WorkflowStep DEF OwnedInv
<1>3. ASSUME NEW scope \in Resets, Reset(scope) PROVE OwnedInv'
  BY <1>3 DEF Reset, RemainingTasks, OwnedInv
<1>4. CASE tasks' = tasks
  BY <1>4 DEF OwnedInv
<1>5. ASSUME NEW c \in Calls, SubmitRaises(c) PROVE OwnedInv'
  BY <1>4, <1>5 DEF SubmitRaises, tables, Inserted, NewRow, OwnedInv
<1> QED
  BY <1>1, <1>2, <1>3, <1>4, <1>5
     DEF Next, OfWorkflow, Continue, Submit, RegisterIdempotency, StartWorkflow,
         GetTask, TaskOwner, Crash, Quiesced, vars, tables

(* A workflow is started last: before, the row is inserted, and nothing    *)
(* but the workflow writes it afterwards, in its turn or late.             *)
RecordOf(t) ==
    /\ pc[t] \in {"idle", "claim", "create", "start"} => workflow[t] = "none"
    /\ workflow[t] = "none" => late[t] = {}
    /\ pc[t] = "start" \/ workflow[t] # "none" => t \in DOMAIN tasks
    /\ t \in DOMAIN tasks =>
         /\ tasks[t].account = AccountOf[t] /\ tasks[t].key = KeyOf[t]
         /\ workflow[t] = "none" => tasks[t].status = "ACCEPTED"
         /\ workflow[t] # "none" => tasks[t].status \in StatusesOf[workflow[t]] \union Late

RecordInv == \A t \in Calls : AccountOf[t] \notin Resets => RecordOf(t)

LEMMA RecordInvNext ==
    ASSUME Everything \notin Resets, TypeInv, OwnedInv, RecordInv, [Next]_vars
    PROVE  RecordInv'
<1> SUFFICES ASSUME NEW t \in Calls, AccountOf[t] \notin Resets PROVE RecordOf(t)'
  BY DEF RecordInv
<1>1. RecordOf(t)
  BY DEF RecordInv
<1>2. ASSUME tasks' = tasks, UNCHANGED workflowVars,
             pc'[t] \in {"idle", "claim", "create"} => pc[t] \in {"idle", "claim", "create"},
             pc'[t] = "start" => pc[t] = "start"
      PROVE  RecordOf(t)'
  BY <1>1, <1>2 DEF RecordOf, workflowVars
<1>3. ASSUME NEW c \in Calls, Submit(c) PROVE RecordOf(t)'
  <2>1. PICK ok \in LimiterAnswers : At(c, IF ok THEN FirstWrite(c) ELSE "failed")
    BY <1>3 DEF Submit
  <2>2. \/ pc'[t] = pc[t]
        \/ pc[t] = "idle" /\ pc'[t] \in {"claim", "create", "failed"}
    BY <1>3, <2>1 DEF Submit, At, FirstWrite, TypeInv, TypeOK
  <2>3. tasks' = tasks /\ UNCHANGED <<workflow, late>>
    BY <1>3 DEF Submit, tables, workflowVars
  <2> QED
    BY <1>1, <2>2, <2>3 DEF RecordOf
<1>4. ASSUME NEW c \in Calls, RegisterIdempotency(c) PROVE RecordOf(t)'
  <2>1. \/ pc'[t] = pc[t]
        \/ pc[t] = "claim" /\ pc'[t] \in {"create", "returned"}
    BY <1>4 DEF RegisterIdempotency, Claim, Returns, At, TypeInv, TypeOK
  <2>2. tasks' = tasks /\ UNCHANGED <<workflow, late>>
    BY <1>4 DEF RegisterIdempotency, workflowVars
  <2> QED
    BY <1>1, <2>1, <2>2 DEF RecordOf
<1>5. ASSUME NEW c \in Calls, CreateTask(c) PROVE RecordOf(t)'
  <2>1. /\ pc[c] = "create" /\ pc' = [pc EXCEPT ![c] = "start"]
        /\ tasks' = Inserted(c) /\ UNCHANGED <<workflow, late>>
    BY <1>5 DEF CreateTask, At, workflowVars
  <2>2. CASE t = c
    BY <1>1, <2>1, <2>2 DEF Inserted, NewRow, RecordOf, TypeInv, TypeOK
  <2>3. CASE t # c
    BY <1>1, <2>1, <2>3 DEF Inserted, RecordOf, TypeInv, TypeOK
  <2> QED
    BY <2>2, <2>3
<1>6. ASSUME NEW c \in Calls, StartWorkflow(c) PROVE RecordOf(t)'
  <2>1. CASE t = c
    BY <1>1, <1>6, <2>1
       DEF StartWorkflow, Returns, At, tables, RecordOf, StatusesOf, TypeInv, TypeOK
  <2>2. CASE t # c
    BY <1>1, <1>6, <2>2 DEF StartWorkflow, Returns, At, tables, RecordOf, TypeInv, TypeOK
  <2> QED
    BY <2>1, <2>2
<1>7. ASSUME NEW c \in Calls, SubmitRaises(c) PROVE RecordOf(t)'
  <2>1. pc' = [pc EXCEPT ![c] = "failed"] /\ UNCHANGED workflowVars
    BY <1>7 DEF SubmitRaises, At
  <2>2. CASE tasks' = tasks
    BY <1>2, <2>1, <2>2 DEF TypeInv, TypeOK
  <2>3. CASE pc[c] = "create" /\ tasks' = Inserted(c) /\ t = c
    BY <1>1, <2>1, <2>3 DEF Inserted, NewRow, RecordOf, workflowVars, TypeInv, TypeOK
  <2>4. CASE tasks' = Inserted(c) /\ t # c
    BY <1>1, <2>1, <2>4 DEF Inserted, RecordOf, workflowVars, TypeInv, TypeOK
  <2> QED
    BY <1>7, <2>2, <2>3, <2>4 DEF SubmitRaises, tables
<1>8. ASSUME NEW u \in Calls, u # t, OfWorkflow(u) PROVE RecordOf(t)'
  <2>1. UNCHANGED pc /\ workflow'[t] = workflow[t] /\ late'[t] = late[t]
    BY <1>8 DEF OfWorkflow, WorkflowAdvances, ReportLost, WorkflowFails, WorkflowGivesUp,
       BodyOutlives, LateWrite, SetTaskStatus, Enters, workflowVars, TypeInv, TypeOK
  <2>2. /\ t \in DOMAIN tasks' <=> t \in DOMAIN tasks
        /\ t \in DOMAIN tasks => tasks'[t] = tasks[t]
    BY <1>8, WorkflowStep DEF SetTaskStatus
  <2> QED
    BY <1>1, <2>1, <2>2 DEF RecordOf
<1>9. ASSUME NEW status \in Statuses, SetTaskStatus(t, status), workflow[t] # "none",
             workflow'[t] # "none", status \in StatusesOf[workflow'[t]] \union Late
      PROVE  RecordOf(t)'
  <2>1. t \in DOMAIN tasks /\ DOMAIN tasks' = DOMAIN tasks /\ pc' = pc
    BY <1>1, <1>9 DEF RecordOf, SetTaskStatus
  <2>2. tasks'[t] = [tasks[t] EXCEPT !.status = status]
    BY <1>9, <2>1 DEF SetTaskStatus
  <2>3. /\ tasks'[t].account = tasks[t].account /\ tasks'[t].key = tasks[t].key
        /\ tasks'[t].status = status
    BY <2>1, <2>2 DEF TypeInv, TypeOK, Rows
  <2> QED
    BY <1>1, <1>9, <2>1, <2>3 DEF RecordOf
<1>13. CASE WorkflowAdvances(t)
  <2>1. /\ workflow[t] \in {"started", "running", "failing"}
        /\ SetTaskStatus(t, StatusOf[workflow[t]])
        /\ workflow'[t] = NextStage[workflow[t]]
    BY <1>13 DEF WorkflowAdvances, Enters, StatusOf, TypeInv, TypeOK
  <2>2. /\ StatusOf[workflow[t]] \in Statuses
        /\ StatusOf[workflow[t]] \in StatusesOf[workflow'[t]]
        /\ workflow'[t] # "none" /\ workflow[t] # "none"
    BY <2>1 DEF StatusOf, NextStage, StatusesOf, Statuses
  <2> QED
    BY <1>9, <2>1, <2>2
<1>14. CASE ReportLost(t)
  <2>1. /\ workflow[t] \in {"started", "running", "failing"}
        /\ SetTaskStatus(t, StatusOf[workflow[t]])
        /\ workflow' = workflow
    BY <1>14 DEF ReportLost, StatusOf, workflowVars
  <2>2. /\ StatusOf[workflow[t]] \in Statuses
        /\ StatusOf[workflow[t]] \in StatusesOf[workflow'[t]]
        /\ workflow'[t] # "none" /\ workflow[t] # "none"
    BY <2>1 DEF StatusOf, StatusesOf, Statuses
  <2> QED
    BY <1>9, <2>1, <2>2
<1>15. CASE LateWrite(t)
  <2>1. PICK status \in late[t] : SetTaskStatus(t, status) /\ workflow' = workflow
    BY <1>15 DEF LateWrite
  <2>2. status \in Late /\ status \in Statuses
    BY <2>1, SubmissionAssumption DEF TypeInv, TypeOK, Statuses
  <2>3. workflow[t] # "none"
    BY <1>1, <2>1 DEF RecordOf
  <2> QED
    BY <1>9, <2>1, <2>2, <2>3
<1>16. CASE WorkflowFails(t) \/ WorkflowGivesUp(t)
  <2>1. /\ workflow[t] \in {"started", "running", "failing"}
        /\ workflow'[t] \in {"failing", "given_up"}
        /\ UNCHANGED <<pc, tasks, late>>
    BY <1>16 DEF WorkflowFails, WorkflowGivesUp, Enters, tables, TypeInv, TypeOK
  <2>2. t \in DOMAIN tasks => tasks[t].status \in Statuses
    BY DEF TypeInv, TypeOK, Rows
  <2> QED
    BY <1>1, <2>1, <2>2 DEF RecordOf, StatusesOf
<1>17. CASE BodyOutlives(t)
  <2>1. workflow[t] # "none" /\ UNCHANGED <<pc, tasks, workflow>>
    BY <1>17 DEF BodyOutlives, StatusOf, tables
  <2> QED
    BY <1>1, <2>1 DEF RecordOf
<1>18. ASSUME NEW u \in Calls, OfWorkflow(u) PROVE RecordOf(t)'
  BY <1>8, <1>13, <1>14, <1>15, <1>16, <1>17, <1>18 DEF OfWorkflow
<1>10. ASSUME NEW p \in Crashing, Crash(p) PROVE RecordOf(t)'
  <2>1. pc'[t] = pc[t] \/ pc'[t] = "failed"
    BY <1>10 DEF Crash, TypeInv, TypeOK
  <2> QED
    BY <1>2, <1>10, <2>1 DEF Crash, tables
<1>12. ASSUME NEW scope \in Resets, Reset(scope) PROVE RecordOf(t)'
  <2>1. t \in DOMAIN tasks => t \in RemainingTasks(scope)
    BY <1>12 DEF RemainingTasks, OwnedInv
  <2>2. /\ t \in DOMAIN tasks' <=> t \in DOMAIN tasks
        /\ t \in DOMAIN tasks => tasks'[t] = tasks[t]
    BY <1>12, <2>1 DEF Reset, RemainingTasks
  <2> QED
    BY <1>1, <1>12, <2>2 DEF Reset, RecordOf, workflowVars
<1>11. CASE UNCHANGED <<pc, tables, workflowVars>>
  BY <1>2, <1>11 DEF tables
<1> QED
  BY <1>3, <1>4, <1>5, <1>6, <1>7, <1>10, <1>11, <1>12, <1>18
     DEF Next, OfWorkflow, Continue, GetTask, TaskOwner, Quiesced, vars

(* Unless everything is reset, every workflow of an account that is not    *)
(* reset has a row, of the right account and key, with a status that the   *)
(* workflow wrote: the one of its stage, or one that is being written and  *)
(* not reported, or one that a body wrote after its timeout.               *)
THEOREM Recorded ==
    ASSUME Everything \notin Resets PROVE Spec => []StartedIsRecorded
<1>1. Init => OwnedInv /\ RecordInv
  BY DEF Init, OwnedInv, RecordInv, RecordOf
<1>2. TypeInv /\ OwnedInv /\ RecordInv /\ [Next]_vars => OwnedInv' /\ RecordInv'
  BY OwnedInvNext, RecordInvNext
<1>3. RecordInv => StartedIsRecorded
  BY DEF RecordInv, RecordOf, StartedIsRecorded
<1> QED
  BY <1>1, <1>2, <1>3, TypeInvInit, TypeInvNext, PTL DEF Spec

-----------------------------------------------------------------------------
(* A key is mapped to a call only once that call has claimed it; so a call *)
(* that returned its own id has started its workflow itself.               *)
ClaimedInv ==
    \A c \in Calls : pc[c] \in {"idle", "claim"} => \A k \in Keys : idempotency[k] # c

StartedInv == \A c \in Calls : answer[c] = c => workflow[c] # "none"

OverInv == \A c \in Calls : answer[c] # Null <=> pc[c] = "returned"

LEMMA StartedInvNext ==
    ASSUME Everything \notin Resets, TypeInv, ClaimedInv, StartedInv, OverInv, [Next]_vars
    PROVE  ClaimedInv' /\ StartedInv' /\ OverInv'
<1>1. ASSUME NEW c \in Calls, Submit(c) PROVE ClaimedInv' /\ StartedInv' /\ OverInv'
  <2>1. PICK ok \in LimiterAnswers : At(c, IF ok THEN FirstWrite(c) ELSE "failed")
    BY <1>1 DEF Submit
  <2>2. \A d \in Calls : /\ pc'[d] \in {"idle", "claim"} => pc[d] \in {"idle", "claim"}
                         /\ pc'[d] = "returned" <=> pc[d] = "returned"
    BY <1>1, <2>1 DEF Submit, At, FirstWrite, TypeInv, TypeOK
  <2> QED
    BY <1>1, <2>2 DEF workflowVars, Submit, tables, ClaimedInv, StartedInv, OverInv
<1>2. ASSUME NEW c \in Calls, RegisterIdempotency(c)
      PROVE  ClaimedInv' /\ StartedInv' /\ OverInv'
  <2>1. KeyOf[c] \in Keys /\ pc[c] = "claim" /\ workflow' = workflow
    BY <1>2, ConstantsOK DEF workflowVars, RegisterIdempotency, TypeInv, ClaimingHasKey
  <2>2. CASE idempotency[KeyOf[c]] = Null
    BY <1>2, <2>1, <2>2 DEF RegisterIdempotency, Claim, At, ClaimedInv, StartedInv,
       OverInv, TypeInv, TypeOK
  <2>3. CASE idempotency[KeyOf[c]] # Null
    <3>1. /\ idempotency' = idempotency
          /\ pc' = [pc EXCEPT ![c] = "returned"]
          /\ answer' = [answer EXCEPT ![c] = idempotency[KeyOf[c]]]
      BY <1>2, <2>3 DEF RegisterIdempotency, Claim, Returns, At
    <3>2. idempotency[KeyOf[c]] # c
      BY <2>1 DEF ClaimedInv
    <3> QED
      BY <2>1, <2>3, <3>1, <3>2 DEF ClaimedInv, StartedInv, OverInv, TypeInv, TypeOK
  <2> QED
    BY <2>2, <2>3
<1>3. ASSUME NEW c \in Calls, CreateTask(c) \/ SubmitRaises(c)
      PROVE  ClaimedInv' /\ StartedInv' /\ OverInv'
  BY <1>3, SubmissionAssumption DEF CreateTask, SubmitRaises, At, tables, workflowVars,
     SubmitSteps, ClaimedInv, StartedInv, OverInv, TypeInv, TypeOK, ClaimingHasKey
<1>4. ASSUME NEW c \in Calls, StartWorkflow(c)
      PROVE  ClaimedInv' /\ StartedInv' /\ OverInv'
  BY <1>4, ConstantsOK DEF StartWorkflow, Returns, At, tables, ClaimedInv, StartedInv,
     OverInv, TypeInv, TypeOK
<1>5. ASSUME NEW t \in Calls, OfWorkflow(t)
      PROVE  ClaimedInv' /\ StartedInv' /\ OverInv'
  BY <1>5, WorkflowStep DEF ClaimedInv, StartedInv, OverInv
<1>6. ASSUME NEW scope \in Resets, Reset(scope)
      PROVE  ClaimedInv' /\ StartedInv' /\ OverInv'
  <2>1. idempotency' = idempotency
    BY <1>6 DEF Reset, RemainingKeys, TypeInv, TypeOK
  <2> QED
    BY <1>6, <2>1 DEF workflowVars, Reset, ClaimedInv, StartedInv, OverInv
<1>7. ASSUME NEW p \in Crashing, Crash(p) PROVE ClaimedInv' /\ StartedInv' /\ OverInv'
  BY <1>7 DEF workflowVars, Crash, tables, SubmitSteps, ClaimedInv, StartedInv, OverInv,
     TypeInv, TypeOK
<1>8. CASE UNCHANGED <<pc, answer, tables, workflowVars>>
  BY <1>8 DEF tables, workflowVars, ClaimedInv, StartedInv, OverInv
<1> QED
  BY <1>1, <1>2, <1>3, <1>4, <1>5, <1>6, <1>7, <1>8
     DEF Next, OfWorkflow, Continue, GetTask, TaskOwner, Quiesced, vars

(* A poll uses what a call returned, and never answers a client that       *)
(* submitted the task itself with anything but its row.                    *)
PollOK(p) ==
    IF poll[p].of = Null THEN poll[p].at = "idle" ELSE
        /\ answer[poll[p].of] # Null
        /\ (/\ answer[poll[p].of] = poll[p].of
            /\ AccountOf[p] = AccountOf[poll[p].of] /\ AccountOf[p] \notin Resets)
           => poll[p].at = "row"

PollInv == \A p \in Polls : PollOK(p)

(* A call that has returned does not change its answer.                    *)
LEMMA AnswerFinal ==
    ASSUME TypeInv, OverInv, [Next]_vars, NEW c \in Calls, answer[c] # Null
    PROVE  answer'[c] = answer[c]
<1>1. pc[c] = "returned"
  BY DEF OverInv
<1>2. ASSUME NEW d \in Calls, RegisterIdempotency(d) \/ StartWorkflow(d)
      PROVE  answer'[c] = answer[c]
  BY <1>1, <1>2 DEF RegisterIdempotency, Claim, StartWorkflow, Returns, TypeInv, TypeOK
<1>3. ASSUME NEW t \in Calls, OfWorkflow(t) PROVE answer'[c] = answer[c]
  BY <1>3, WorkflowStep
<1> QED
  BY <1>2, <1>3
     DEF Next, OfWorkflow, Continue, Submit, CreateTask, SubmitRaises, GetTask, TaskOwner,
         Reset, Crash, Quiesced, vars

LEMMA PollInvNext ==
    ASSUME TypeInv, RecordInv, StartedInv, OverInv, PollInv, [Next]_vars
    PROVE  PollInv'
<1> SUFFICES ASSUME NEW p \in Polls PROVE PollOK(p)'
  BY DEF PollInv
<1>a. PollOK(p)
  BY DEF PollInv
<1>1. \A c \in Calls : answer[c] # Null => answer'[c] = answer[c]
  BY AnswerFinal
<1>2. CASE poll'[p] = poll[p]
  BY <1>a, <1>1, <1>2 DEF PollOK, TypeInv, TypeOK
<1>3. ASSUME NEW c \in Calls, GetTask(p, c)
      PROVE  /\ poll'[p].of = c /\ answer'[c] = answer[c] /\ answer[c] # Null
             /\ poll'[p].at = IF Visible(answer[c], AccountOf[p]) THEN "row" ELSE "owner"
  BY <1>1, <1>3 DEF GetTask, Answered, OverInv, TypeInv, TypeOK
<1>4. ASSUME NEW c \in Calls, GetTask(p, c), answer[c] = c, AccountOf[p] = AccountOf[c],
             AccountOf[p] \notin Resets
      PROVE  Visible(answer[c], AccountOf[p])
  BY <1>4 DEF StartedInv, RecordInv, RecordOf, Visible
<1>6. CASE \E c \in Calls : GetTask(p, c)
  BY <1>3, <1>4, <1>6, ConstantsOK DEF PollOK
<1>7. CASE TaskOwner(p)
  <2>1. /\ poll[p].at = "owner" /\ poll'[p].of = poll[p].of
        /\ poll'[p].at \in {"violation", "not_found"} /\ answer' = answer
    BY <1>7 DEF TaskOwner, Answered, TypeInv, TypeOK
  <2> QED
    BY <1>a, <2>1 DEF PollOK
<1>8. ASSUME NEW q \in Crashing, Crash(q), poll'[p] # poll[p]
      PROVE  /\ poll[p].at = "owner" /\ poll'[p].at = "lost"
             /\ poll'[p].of = poll[p].of /\ answer' = answer
  BY <1>8 DEF Crash, TypeInv, TypeOK
<1>9. CASE (\E q \in Crashing : Crash(q)) /\ poll'[p] # poll[p]
  BY <1>a, <1>8, <1>9 DEF PollOK
<1>10. \/ poll'[p] = poll[p]
       \/ \E c \in Calls : GetTask(p, c)
       \/ TaskOwner(p)
       \/ /\ \E q \in Crashing : Crash(q)
          /\ poll'[p] # poll[p]
  <2>1. ASSUME NEW t \in Calls, OfWorkflow(t) PROVE poll'[p] = poll[p]
    BY <2>1, WorkflowStep
  <2> QED
    BY <2>1
       DEF Next, OfWorkflow, Continue, Submit, RegisterIdempotency, CreateTask,
           StartWorkflow, SubmitRaises, GetTask, TaskOwner, Answered, Reset, Crash,
           Quiesced, vars, TypeInv, TypeOK
<1> QED
  BY <1>2, <1>6, <1>7, <1>9, <1>10

(* Unless everything is reset, a client that submitted a task itself, of   *)
(* an account that is not reset, can poll it from then on.                 *)
THEOREM PollsAnswered ==
    ASSUME Everything \notin Resets PROVE Spec => []ReadYourSubmission
<1> DEFINE Inv == OwnedInv /\ RecordInv /\ ClaimedInv /\ StartedInv /\ OverInv /\ PollInv
<1>1. Init => Inv
  BY ConstantsOK DEF Init, OwnedInv, RecordInv, RecordOf, ClaimedInv, StartedInv, OverInv, PollInv,
     PollOK
<1>2. TypeInv /\ Inv /\ [Next]_vars => Inv'
  BY OwnedInvNext, RecordInvNext, StartedInvNext, PollInvNext
<1>3. TypeInv /\ Inv => ReadYourSubmission
  BY DEF PollInv, PollOK, ReadYourSubmission
<1> QED
  BY <1>1, <1>2, <1>3, TypeInvInit, TypeInvNext, PTL DEF Spec

-----------------------------------------------------------------------------
LEMMA OverInvNext == TypeInv /\ OverInv /\ [Next]_vars => OverInv'
<1> SUFFICES ASSUME TypeInv, OverInv, [Next]_vars, NEW c \in Calls
             PROVE  answer'[c] # Null <=> pc'[c] = "returned"
  BY DEF OverInv
<1>1. answer[c] # Null <=> pc[c] = "returned"
  BY DEF OverInv
<1>2. ASSUME NEW d \in Calls, Submit(d)
      PROVE  answer' = answer /\ (pc'[c] = "returned" <=> pc[c] = "returned")
  BY <1>2 DEF Submit, At, FirstWrite, TypeInv, TypeOK
<1>3. ASSUME NEW d \in Calls, Continue(d) PROVE answer'[c] # Null <=> pc'[c] = "returned"
  <2>1. CASE RegisterIdempotency(d)
    BY <1>1, <2>1, ConstantsOK
       DEF RegisterIdempotency, Claim, Returns, At, TypeInv, TypeOK, ClaimingHasKey
  <2>2. CASE CreateTask(d) \/ SubmitRaises(d)
    BY <1>1, <2>2, SubmissionAssumption
       DEF CreateTask, SubmitRaises, At, TypeInv, TypeOK, SubmitSteps
  <2>3. CASE StartWorkflow(d)
    BY <1>1, <2>3, ConstantsOK DEF StartWorkflow, Returns, At, TypeInv, TypeOK
  <2> QED
    BY <1>3, <2>1, <2>2, <2>3 DEF Continue
<1>4. ASSUME NEW q \in Crashing, Crash(q)
      PROVE  answer' = answer /\ (pc'[c] = "returned" <=> pc[c] = "returned")
  BY <1>4 DEF Crash, SubmitSteps, TypeInv, TypeOK
<1>5. CASE UNCHANGED <<pc, answer>>
  BY <1>1, <1>5
<1>6. ASSUME NEW t \in Calls, OfWorkflow(t) PROVE UNCHANGED <<pc, answer>>
  BY <1>6, WorkflowStep
<1> QED
  BY <1>1, <1>2, <1>3, <1>4, <1>5, <1>6
     DEF Next, OfWorkflow, GetTask, TaskOwner, Reset, Quiesced, vars

ScopedInv ==
    \A p \in Polls : poll[p].at = "row" =>
        /\ poll[p].of \in Calls /\ answer[poll[p].of] # Null
        /\ AccountOf[answer[poll[p].of]] = AccountOf[p]

LEMMA ScopedInvNext ==
    ASSUME TypeInv, OwnedInv, OverInv, ScopedInv, [Next]_vars
    PROVE  ScopedInv'
<1> SUFFICES ASSUME NEW p \in Polls, poll'[p].at = "row"
             PROVE  /\ poll'[p].of \in Calls /\ answer'[poll'[p].of] # Null
                    /\ AccountOf[answer'[poll'[p].of]] = AccountOf[p]
  BY DEF ScopedInv
<1>1. \A c \in Calls : answer[c] # Null => answer'[c] = answer[c]
  BY AnswerFinal
<1>2. CASE poll'[p] = poll[p]
  BY <1>1, <1>2 DEF ScopedInv
<1>3. ASSUME NEW c \in Calls, GetTask(p, c)
      PROVE  /\ poll'[p].of \in Calls /\ answer'[poll'[p].of] # Null
             /\ AccountOf[answer'[poll'[p].of]] = AccountOf[p]
  <2>1. poll'[p].of = c /\ answer' = answer /\ answer[c] # Null
    BY <1>3 DEF GetTask, Answered, OverInv, TypeInv, TypeOK
  <2>2. Visible(answer[c], AccountOf[p])
    BY <1>3 DEF GetTask, Answered, TypeInv, TypeOK
  <2> QED
    BY <2>1, <2>2 DEF Visible, OwnedInv
<1>4. poll'[p] = poll[p] \/ \E c \in Calls : GetTask(p, c)
  <2>1. ASSUME NEW q \in Polls, NEW c \in Calls, GetTask(q, c), q # p
        PROVE  poll'[p] = poll[p]
    BY <2>1 DEF GetTask, Answered, TypeInv, TypeOK
  <2>2. ASSUME NEW q \in Polls, TaskOwner(q) PROVE poll'[p] = poll[p]
    BY <2>2 DEF TaskOwner, Answered, TypeInv, TypeOK
  <2>3. ASSUME NEW q \in Crashing, Crash(q) PROVE poll'[p] = poll[p]
    BY <2>3 DEF Crash, TypeInv, TypeOK
  <2>4. ASSUME NEW t \in Calls, OfWorkflow(t) PROVE poll'[p] = poll[p]
    BY <2>4, WorkflowStep
  <2> QED
    BY <2>1, <2>2, <2>3, <2>4
       DEF Next, OfWorkflow, Continue, Submit, RegisterIdempotency, CreateTask,
           StartWorkflow, SubmitRaises, Reset, Quiesced, vars
<1> QED
  BY <1>2, <1>3, <1>4

(* Whatever is reset, raised, lost or raced, nobody is ever shown the task *)
(* of another account.                                                     *)
THEOREM Scoped == Spec => []TenantScoped
<1> DEFINE Inv == OwnedInv /\ OverInv /\ ScopedInv
<1>1. Init => Inv
  BY DEF Init, OwnedInv, OverInv, ScopedInv
<1>2. TypeInv /\ Inv /\ [Next]_vars => Inv'
  BY OwnedInvNext, OverInvNext, ScopedInvNext
<1>3. Inv => TenantScoped
  BY DEF ScopedInv, TenantScoped
<1> QED
  BY <1>1, <1>2, <1>3, TypeInvInit, TypeInvNext, PTL DEF Spec

=============================================================================
