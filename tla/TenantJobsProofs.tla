-------------------------- MODULE TenantJobsProofs --------------------------
(***************************************************************************)
(* Proofs about TenantJobs, for any number of replicas, tenants and jobs,  *)
(* any bound on rounds, attempts and faults.                               *)
(*                                                                         *)
(* OneRunPerJob and NewsIsTrue are not inductive: they do not say that a   *)
(* locked row is still pending, nor that a slot that is about to run its   *)
(* hooks is the only one for its job.  IInv adds both, and what a slot has *)
(* written at each stage, which the refinement of JobPromise needs.        *)
(* RoundsFit counts what each tenant has run by the number of the round.   *)
(***************************************************************************)
EXTENDS TenantJobs, TLAPS

Holding == Locked \cup {"hooks"}

\* A locked row is a due, pending row of the slot's tenant; a slot that runs
\* hooks is the first to tell of a completed job.
SlotHolds ==
    \A s \in Slot :
        /\ stage[s] \in Locked => /\ holds[s] \in Job
                                  /\ status[holds[s]] = "pending"
        /\ stage[s] = "hooks" => /\ holds[s] \in Job
                                 /\ status[holds[s]] = "completed"
                                 /\ told[holds[s]] = 0

Exclusive ==
    \A s, u \in Slot :
        stage[s] \in Holding /\ stage[u] \in Holding /\ holds[s] = holds[u] => s = u

DueIsPending == \A j \in due : status[j] = "pending"

\* What the handler of a slot has written so far.
SlotWrites ==
    \A s \in Slot :
        /\ open[s] \subseteq Part
        /\ stage[s] \in {"handler", "returned"} /\ side[s] = "written" => "side" \in open[s]
        /\ side[s] = "none" => open[s] = {}
        /\ stage[s] = "returned" => "main" \in open[s]
        /\ stage[s] = "finishing" => open[s] = Part
        /\ stage[s] \notin {"handler", "returned", "threw", "finishing"} => open[s] = {}
        /\ stage[s] \in {"idle", "called", "rejecting", "hooks"} \cup Answered => side[s] = "none"
        /\ stage[s] \in {"finishing", "failing"} => side[s] # "open"

UnfinishedIsUnwritten ==
    \A j \in Job :
        /\ status[j] # "completed" => writes[j] = [p \in Part |-> 0]
        /\ told[j] > 0 => told[j] = 1 /\ status[j] = "completed"

Knowledge ==
    /\ SlotHolds
    /\ Exclusive
    /\ DueIsPending
    /\ SlotWrites
    /\ UnfinishedIsUnwritten

IInv == TypeOK /\ Knowledge

-----------------------------------------------------------------------------
\* Every step keeps every variable in its type.
LEMMA TypeStep == IInv /\ [Next]_vars => TypeOK'
<1> SUFFICES ASSUME TypeOK, SlotHolds, SlotWrites, [Next]_vars PROVE TypeOK'
  BY DEF IInv, Knowledge
<1> USE JobsAssumption
    DEF TypeOK, Slot, Locked, Answered, rowVars, dataVars, tickVars, slotVars
<1>1. ASSUME NEW r \in Replica, TickStep(r) PROVE TypeOK'
  <2>1. ASSUME TickBegins(r) PROVE TypeOK'
    BY <2>1 DEF TickBegins
  <2>2. ASSUME NEW t \in Tenant, TenantScheduled(r, t) PROVE TypeOK'
    BY <2>2 DEF TenantScheduled
  <2>3. ASSUME RoundBegins(r) PROVE TypeOK'
    BY <2>3 DEF RoundBegins
  <2>4. ASSUME TickEnds(r) PROVE TypeOK'
    BY <2>4 DEF TickEnds, NoTick
  <2>5. ASSUME BatchBegins(r) PROVE TypeOK'
    BY <2>5 DEF BatchBegins
  <2>6. ASSUME BatchEnds(r) PROVE TypeOK'
    BY <2>6 DEF BatchEnds, ComesBack
  <2>. QED
    BY <1>1, <2>1, <2>2, <2>3, <2>4, <2>5, <2>6 DEF TickStep
<1>2. ASSUME NEW s \in Slot, NothingToRun(s) PROVE TypeOK'
  BY <1>2 DEF NothingToRun, GoTo
<1>3. ASSUME NEW s \in Slot, NEW j \in Job, PickJob(s, j) PROVE TypeOK'
  BY <1>3 DEF PickJob, GoTo
<1>4. ASSUME NEW s \in Slot, HandlerWrites(s) PROVE TypeOK'
  BY <1>4 DEF HandlerWrites, Part
<1>5. ASSUME NEW s \in Slot, DetachedWorkEnds(s) PROVE TypeOK'
  <2>1. open' \in [Slot -> SUBSET Part]
    BY <1>5 DEF DetachedWorkEnds, Part
  <2>2. side' \in [Slot -> {"none", "open", "written", "failed"}]
    BY <1>5 DEF DetachedWorkEnds
  <2>. QED
    BY <1>5, <2>1, <2>2 DEF DetachedWorkEnds
<1>6. ASSUME NEW s \in Slot,
             HandlerReturns(s) \/ HandlerThrows(s) \/ SavepointReleased(s)
      PROVE TypeOK'
  BY <1>6 DEF HandlerReturns, HandlerThrows, SavepointReleased, GoTo
<1>7. ASSUME NEW s \in Slot, SavepointRolledBack(s) PROVE TypeOK'
  BY <1>7 DEF SavepointRolledBack, RolledBack, GoTo
<1>8. ASSUME NEW s \in Slot, CommitRow(s), stage[s] \in {"finishing", "failing", "rejecting"}
      PROVE /\ status' \in [Job -> {"absent", "pending", "completed", "failed"}]
            /\ attempts' \in [Job -> Nat]
            /\ due' \subseteq Job
            /\ ahead' \in [Job -> SUBSET Job]
            /\ writes' \in [Job -> [Part -> Nat]]
  <2>1. holds[s] \in Job
    BY <1>8 DEF SlotHolds
  <2>2. writes' \in [Job -> [Part -> Nat]]
    BY <1>8, <2>1 DEF CommitRow
  <2>3. /\ status' \in [Job -> {"absent", "pending", "completed", "failed"}]
        /\ attempts' \in [Job -> Nat]
    BY <1>8, <2>1 DEF CommitRow, AfterFailure
  <2>4. due' \subseteq Job /\ ahead' \in [Job -> SUBSET Job]
    BY <1>8, <2>1 DEF CommitRow, NoLongerAvailable
  <2>. QED
    BY <2>2, <2>3, <2>4
<1>9. ASSUME NEW s \in Slot, Commit(s) PROVE TypeOK'
  BY <1>9, <1>8 DEF Commit, AfterCommit, GoTo
<1>10. ASSUME NEW s \in Slot, RunHooks(s) PROVE TypeOK'
  BY <1>10 DEF RunHooks, SlotEnds, GoTo, SlotHolds
<1>11. ASSUME NEW s \in Slot, TransactionLost(s) PROVE TypeOK'
  BY <1>11 DEF TransactionLost, SlotEnds, GoTo, Fault
<1>12. ASSUME NEW s \in Slot, CommitAnswerLost(s) PROVE TypeOK'
  BY <1>12, <1>8 DEF CommitAnswerLost, SlotEnds, GoTo, Fault
<1>13. ASSUME NEW r \in Replica, Crash(r) PROVE TypeOK'
  BY <1>13 DEF Crash, NoTick, Fault
<1>14. ASSUME NEW r \in Replica, NEW t \in Tenant, SchedulingFails(r, t) PROVE TypeOK'
  BY <1>14 DEF SchedulingFails
<1>15. ASSUME NEW j \in Job, Enqueue(j) PROVE TypeOK'
  BY <1>15 DEF Enqueue, BecomesAvailable
<1>16. ASSUME NEW j \in Job, MinutePasses(j) PROVE TypeOK'
  BY <1>16 DEF MinutePasses, BecomesAvailable
<1>17. ASSUME NEW t \in Pausable, Pause(t) \/ Resume(t) PROVE TypeOK'
  BY <1>17 DEF Pause, Resume, Fault
<1>18. CASE UNCHANGED vars
  BY <1>18 DEF vars
<1>. QED
  BY <1>1, <1>2, <1>3, <1>4, <1>5, <1>6, <1>7, <1>9, <1>10, <1>11, <1>12, <1>13, <1>14, <1>15,
     <1>16, <1>17, <1>18 DEF Next, ReplicaStep, SlotStep, FaultStep

\* What COMMIT does to the row of slot s.
CommitEffect(s) ==
    /\ holds[s] \in Job /\ status[holds[s]] = "pending"
    /\ \A k \in Job : k # holds[s] => status'[k] = status[k] /\ writes'[k] = writes[k]
    /\ stage[s] = "finishing" => status'[holds[s]] = "completed"
    /\ stage[s] # "finishing" =>
           status'[holds[s]] \in {"pending", "failed"} /\ writes'[holds[s]] = writes[holds[s]]
    /\ due' = due \ {holds[s]}

\* COMMIT has that effect, knowing what the slot holds and has written.
LEMMA CommitRowEffect ==
    ASSUME TypeOK, SlotHolds, SlotWrites, NEW s \in Slot,
           stage[s] \in {"finishing", "failing", "rejecting"}, CommitRow(s)
    PROVE  CommitEffect(s)
<1> USE DEF TypeOK, Slot, Locked, CommitEffect
<1>1. holds[s] \in Job /\ status[holds[s]] = "pending"
  BY DEF SlotHolds
<1>2. due' = due \ {holds[s]}
  BY DEF CommitRow, NoLongerAvailable
<1>3. \A k \in Job : k # holds[s] => status'[k] = status[k] /\ writes'[k] = writes[k]
  BY <1>1 DEF CommitRow
<1>4. stage[s] = "finishing" => status'[holds[s]] = "completed"
  BY <1>1 DEF CommitRow
<1>5. stage[s] # "finishing" => status'[holds[s]] \in {"pending", "failed"}
  BY <1>1 DEF CommitRow, AfterFailure
<1>6. stage[s] # "finishing" => writes'[holds[s]] = writes[holds[s]]
  <2> HAVE stage[s] # "finishing"
  <2>1. open[s] = {}
    BY DEF SlotWrites
  <2>2. writes'[holds[s]] = [p \in Part |-> writes[holds[s]][p]]
    BY <1>1, <2>1 DEF CommitRow
  <2>. QED
    BY <1>1, <2>2
<1>. QED
  BY <1>1, <1>2, <1>3, <1>4, <1>5, <1>6

\* Every step keeps the rest of the inductive invariant.
LEMMA KnowledgeStep == IInv /\ [Next]_vars => Knowledge'
<1> SUFFICES ASSUME TypeOK, Knowledge, [Next]_vars PROVE Knowledge'
  BY DEF IInv
<1>18. ASSUME NEW s \in Slot, Commit(s) \/ CommitAnswerLost(s) PROVE CommitEffect(s)
  BY <1>18, CommitRowEffect DEF Commit, CommitAnswerLost, Knowledge
<1> USE JobsAssumption
    DEF TypeOK, Slot, Locked, Answered, Holding, Knowledge, SlotHolds, Exclusive, DueIsPending,
        SlotWrites, UnfinishedIsUnwritten, rowVars, dataVars, tickVars, slotVars
<1>1. ASSUME NEW r \in Replica, TickStep(r) PROVE Knowledge'
  <2>1. ASSUME BatchBegins(r) PROVE Knowledge'
    BY <2>1 DEF BatchBegins, SlotsOf
  <2>2. ASSUME BatchEnds(r) PROVE Knowledge'
    BY <2>2 DEF BatchEnds, ComesBack, SlotsOf
  <2>. QED
    BY <1>1, <2>1, <2>2 DEF TickStep, TickBegins, TenantScheduled, RoundBegins, TickEnds, NoTick
<1>2. ASSUME NEW s \in Slot, NothingToRun(s) PROVE Knowledge'
  BY <1>2 DEF NothingToRun, GoTo
<1>3. ASSUME NEW s \in Slot, NEW j \in Job, PickJob(s, j) PROVE Knowledge'
  BY <1>3 DEF PickJob, GoTo, Takes, HasRowLock
<1>4. ASSUME NEW s \in Slot, HandlerWrites(s) PROVE Knowledge'
  BY <1>4 DEF HandlerWrites, Part
<1>5. ASSUME NEW s \in Slot, DetachedWorkEnds(s) PROVE Knowledge'
  BY <1>5 DEF DetachedWorkEnds, Part
<1>6. ASSUME NEW s \in Slot, HandlerReturns(s) \/ HandlerThrows(s) PROVE Knowledge'
  <2>1. CASE HandlerReturns(s)
    BY <2>1 DEF HandlerReturns, GoTo
  <2>2. CASE HandlerThrows(s)
    BY <2>2 DEF HandlerThrows, GoTo
  <2>. QED
    BY <1>6, <2>1, <2>2
<1>7. ASSUME NEW s \in Slot, SavepointReleased(s) PROVE Knowledge'
  BY <1>7 DEF SavepointReleased, Drained, GoTo, Part
<1>8. ASSUME NEW s \in Slot, SavepointRolledBack(s) PROVE Knowledge'
  <2>1. /\ stage[s] \in {"threw", "returned"} /\ side[s] # "open"
        /\ stage' = [stage EXCEPT ![s] = "failing"]
        /\ open' = [open EXCEPT ![s] = {}]
        /\ UNCHANGED <<rowVars, dataVars, holds>> /\ side' = side
    BY <1>8 DEF SavepointRolledBack, RolledBack, Drained, GoTo
  <2>2. SlotWrites'
    BY <2>1
  <2>. QED
    BY <2>1, <2>2
<1>9. ASSUME NEW s \in Slot, Commit(s) PROVE Knowledge'
  <2>1. CommitEffect(s)
    BY <1>9, <1>18
  <2>2. /\ stage[s] \in {"finishing", "failing", "rejecting"}
        /\ open' = [open EXCEPT ![s] = {}] /\ side' = [side EXCEPT ![s] = "none"]
        /\ told' = told
        /\ \/ /\ stage[s] = "finishing" /\ holds' = holds
              /\ stage' = [stage EXCEPT ![s] = "hooks"]
           \/ /\ stage[s] # "finishing" /\ holds' = [holds EXCEPT ![s] = NoJob]
              /\ stage' = [stage EXCEPT ![s] = "ran"]
    BY <1>9 DEF Commit, AfterCommit, GoTo
  <2>3. SlotHolds'
    BY <2>1, <2>2 DEF CommitEffect
  <2>4. Exclusive'
    BY <2>2
  <2>5. DueIsPending'
    BY <2>1, <2>2 DEF CommitEffect
  <2>6. UnfinishedIsUnwritten'
    BY <2>1, <2>2 DEF CommitEffect
  <2>7. SlotWrites'
    BY <2>2
  <2>. QED
    BY <2>3, <2>4, <2>5, <2>6, <2>7
<1>10. ASSUME NEW s \in Slot, RunHooks(s) PROVE Knowledge'
  BY <1>10 DEF RunHooks, SlotEnds, GoTo
<1>11. ASSUME NEW s \in Slot, TransactionLost(s) PROVE Knowledge'
  BY <1>11 DEF TransactionLost, SlotEnds, GoTo
<1>12. ASSUME NEW s \in Slot, CommitAnswerLost(s) PROVE Knowledge'
  <2>1. CommitEffect(s)
    BY <1>12, <1>18
  <2>2. /\ stage[s] \in {"finishing", "failing", "rejecting"}
        /\ open' = [open EXCEPT ![s] = {}] /\ side' = [side EXCEPT ![s] = "none"]
        /\ told' = told
        /\ holds' = [holds EXCEPT ![s] = NoJob] /\ stage' = [stage EXCEPT ![s] = "nothing"]
    BY <1>12 DEF CommitAnswerLost, SlotEnds, GoTo
  <2>3. SlotHolds'
    BY <2>1, <2>2 DEF CommitEffect
  <2>4. Exclusive' /\ SlotWrites'
    BY <2>2
  <2>5. DueIsPending' /\ UnfinishedIsUnwritten'
    BY <2>1, <2>2 DEF CommitEffect
  <2>. QED
    BY <2>3, <2>4, <2>5
<1>13. ASSUME NEW r \in Replica, Crash(r) PROVE Knowledge'
  BY <1>13 DEF Crash
<1>14. ASSUME NEW j \in Job, Enqueue(j) PROVE Knowledge'
  BY <1>14 DEF Enqueue, BecomesAvailable
<1>15. ASSUME NEW j \in Job, MinutePasses(j) PROVE Knowledge'
  BY <1>15 DEF MinutePasses, BecomesAvailable
<1>16. ASSUME UNCHANGED <<rowVars, dataVars, stage, holds, open, side>> PROVE Knowledge'
  BY <1>16
<1>17. ASSUME \/ \E r \in Replica, t \in Tenant : SchedulingFails(r, t)
              \/ \E t \in Pausable : Pause(t) \/ Resume(t)
              \/ UNCHANGED vars
       PROVE Knowledge'
  BY <1>16, <1>17 DEF SchedulingFails, Pause, Resume, vars
<1>. QED
  BY <1>1, <1>2, <1>3, <1>4, <1>5, <1>6, <1>7, <1>8, <1>9, <1>10, <1>11, <1>12, <1>13, <1>14,
     <1>15, <1>17 DEF Next, ReplicaStep, SlotStep, FaultStep

\* The inductive invariant holds in every reachable state.
THEOREM Invariance == Spec => []IInv
<1>1. Init => IInv
  <2> USE JobsAssumption DEF Init, Slot, Locked, Answered, Part, Holding
  <2>1. Init => TypeOK
    BY DEF TypeOK
  <2>2. Init => Knowledge
    BY DEF Knowledge, SlotHolds, Exclusive, DueIsPending, SlotWrites, UnfinishedIsUnwritten
  <2>. QED
    BY <2>1, <2>2 DEF IInv
<1>2. IInv /\ [Next]_vars => IInv'
  BY TypeStep, KnowledgeStep DEF IInv
<1>. QED
  BY <1>1, <1>2, PTL DEF Spec

\* Every variable keeps its type.
THEOREM TypeCorrect == Spec => []TypeOK
BY Invariance, PTL DEF IInv

\* Two replicas never run one job at the same time.
THEOREM OneRun == Spec => []OneRunPerJob
<1>1. IInv => OneRunPerJob
  BY DEF IInv, Knowledge, Exclusive, Holding, OneRunPerJob
<1>. QED
  BY <1>1, Invariance, PTL

\* Sockets hear of a job's work at most once, and only of committed work.
THEOREM OnlyTrueNews == Spec => []NewsIsTrue
<1>1. IInv => NewsIsTrue
  BY DEF IInv, Knowledge, UnfinishedIsUnwritten, NewsIsTrue
<1>. QED
  BY <1>1, Invariance, PTL

-----------------------------------------------------------------------------
\* What COMMIT of a slot is to the promise: the end of a job or of an attempt.
LEMMA CommitKeepsPromise ==
    ASSUME IInv, NEW s \in Slot,
           stage[s] \in {"finishing", "failing", "rejecting"}, CommitRow(s)
    PROVE  Promise!PromiseNext
<1> DEFINE j == holds[s]
<1> USE DEF IInv, Knowledge, TypeOK, Slot, Locked
<1>1. j \in Job /\ status[j] = "pending"
  BY DEF SlotHolds
<1>2. writes[j] = [p \in Part |-> 0]
  BY <1>1 DEF UnfinishedIsUnwritten
<1>3. CASE stage[s] = "finishing"
  <2>1. open[s] = Part
    BY <1>3 DEF SlotWrites
  <2>2. writes' = [writes EXCEPT ![j] = [p \in Part |-> 1]]
    <3>1. writes' = [writes EXCEPT ![j] = [p \in Part |-> writes[j][p] + 1]]
      BY <1>1, <2>1 DEF CommitRow
    <3>2. [p \in Part |-> writes[j][p] + 1] = [p \in Part |-> 1]
      BY <1>2
    <3>. QED
      BY <3>1, <3>2
  <2>3. /\ status' = [status EXCEPT ![j] = "completed"]
        /\ attempts' = [attempts EXCEPT ![j] = @ + 1]
    BY <1>3 DEF CommitRow
  <2>4. Promise!Complete(j)
    BY <1>1, <2>2, <2>3 DEF Promise!Complete
  <2>. QED
    BY <1>1, <2>4 DEF Promise!PromiseNext
<1>4. CASE stage[s] # "finishing"
  <2>1. writes' = writes
    <3>1. writes'[j] = writes[j] /\ \A k \in Job : k # j => writes'[k] = writes[k]
      <4>1. CommitEffect(s)
        BY CommitRowEffect
      <4>. QED
        BY <1>4, <4>1 DEF CommitEffect
    <3>2. writes' \in [Job -> [Part -> Nat]]
      BY <1>1 DEF CommitRow
    <3>. QED
      BY <1>1, <3>1, <3>2
  <2>2. CASE stage[s] = "rejecting"
    <3>1. attempts' = attempts
      BY <1>1, <2>2 DEF CommitRow
    <3>2. status' = [status EXCEPT ![j] = "failed"]
      BY <2>2 DEF CommitRow
    <3>3. Promise!Reject(j)
      BY <1>1, <2>1, <3>1, <3>2 DEF Promise!Reject
    <3>. QED
      BY <1>1, <3>3 DEF Promise!PromiseNext
  <2>3. CASE stage[s] = "failing"
    <3>1. attempts' = [attempts EXCEPT ![j] = @ + 1]
      BY <2>3 DEF CommitRow
    <3>2. status' = [status EXCEPT ![j] = IF attempts[j] < LastAttempt THEN "pending" ELSE "failed"]
      <4>1. attempts[j] \in Nat /\ LastAttempt \in Nat
        BY <1>1, JobsAssumption
      <4>2. GivesUp(j) <=> ~(attempts[j] < LastAttempt)
        BY <4>1 DEF GivesUp
      <4>3. status' = [status EXCEPT ![j] = IF GivesUp(j) THEN "failed" ELSE "pending"]
        BY <2>3 DEF CommitRow, AfterFailure
      <4>. QED
        BY <4>2, <4>3
    <3>3. Promise!Fail(j)
      BY <1>1, <2>1, <3>1, <3>2 DEF Promise!Fail
    <3>. QED
      BY <1>1, <3>3 DEF Promise!PromiseNext
  <2>. QED
    BY <1>4, <2>2, <2>3
<1>. QED
  BY <1>3, <1>4

\* The job table implements the promise: all of a job's writes appear together
\* and once, a failed attempt leaves none, and a job that is over stays over.
THEOREM JobsKeepPromise == Spec => ImplementsPromise
<1>1. Init => Promise!PromiseInit
  BY DEF Init, Promise!PromiseInit
<1>2. IInv /\ [Next]_vars => [Promise!PromiseNext]_Promise!promiseVars
  <2> SUFFICES ASSUME IInv, [Next]_vars
               PROVE  Promise!PromiseNext \/ UNCHANGED <<status, attempts, writes>>
    BY DEF Promise!promiseVars
  <2>1. ASSUME NEW s \in Slot, Commit(s) \/ CommitAnswerLost(s) PROVE Promise!PromiseNext
    BY <2>1, CommitKeepsPromise DEF Commit, CommitAnswerLost
  <2>2. ASSUME NEW j \in Job, Enqueue(j) PROVE Promise!PromiseNext
    BY <2>2 DEF Enqueue, dataVars, Promise!Enqueue, Promise!PromiseNext
  <2>3. ASSUME NEW s \in Slot, SlotStep(s)
        PROVE  Commit(s) \/ UNCHANGED <<status, attempts, writes>>
    BY <2>3 DEF SlotStep, NothingToRun, PickJob, HandlerWrites, DetachedWorkEnds, HandlerReturns,
       HandlerThrows, SavepointReleased, SavepointRolledBack, RunHooks, rowVars, dataVars
  <2>4. ASSUME NEW r \in Replica, TickStep(r) PROVE UNCHANGED <<status, attempts, writes>>
    BY <2>4 DEF TickStep, TickBegins, TenantScheduled, RoundBegins, TickEnds, BatchBegins,
       BatchEnds, rowVars, dataVars
  <2>5. ASSUME FaultStep
        PROVE  \/ \E s \in Slot : CommitAnswerLost(s)
               \/ UNCHANGED <<status, attempts, writes>>
    BY <2>5 DEF FaultStep, Crash, SchedulingFails, TransactionLost, rowVars, dataVars
  <2>6. ASSUME NEW j \in Job, MinutePasses(j) PROVE UNCHANGED <<status, attempts, writes>>
    BY <2>6 DEF MinutePasses, dataVars
  <2>7. ASSUME NEW t \in Pausable, Pause(t) \/ Resume(t)
        PROVE  UNCHANGED <<status, attempts, writes>>
    BY <2>7 DEF Pause, Resume, rowVars, dataVars
  <2>8. CASE UNCHANGED vars
    BY <2>8 DEF vars, rowVars, dataVars
  <2>9. \A r \in Replica, t \in Tenant : <<r, t>> \in Slot
    BY DEF Slot
  <2>. QED
    BY <2>1, <2>2, <2>3, <2>4, <2>5, <2>6, <2>7, <2>8, <2>9 DEF Next, ReplicaStep
<1>. QED
  BY <1>1, <1>2, Invariance, PTL DEF Spec, ImplementsPromise, Promise!PromiseSpec

-----------------------------------------------------------------------------
(***************************************************************************)
(* FairRounds compares two tenants; RoundsFit compares each one with the   *)
(* number of the round, which every step of a slot can keep on its own.    *)
(***************************************************************************)

\* In the n-th round a tenant that has another turn has run n jobs, one that
\* still waits for its turn or is called in this round n - 1, and none has run more.
FitsAt(s) ==
    LET r == s[1] t == s[2] n == round[r] IN
    /\ phase[r] # "rounds" => stage[s] = "idle" /\ served[s] = 0 /\ n = 0
    /\ served[s] <= n
    /\ phase[r] = "rounds" =>
        /\ t \in todo[r] => stage[s] = "idle" /\ served[s] + 1 = n
        /\ t \in ready[r] => stage[s] = "idle" /\ served[s] = n
        /\ stage[s] \in Locked \cup {"called"} => served[s] + 1 = n
        /\ stage[s] \in {"hooks", "ran"} => served[s] = n

RoundsFit == \A s \in Slot : FitsAt(s)

\* A step of a slot leaves the others alone.
LEMMA SlotGoesOn ==
  ASSUME TypeOK, RoundsFit, NEW u \in Slot, NEW x, UNCHANGED tickVars,
         stage' = [stage EXCEPT ![u] = x],
         \/ /\ served' = served /\ stage[u] \in Locked \cup {"called"}
            /\ x \in Locked \cup {"called", "nothing"}
         \/ /\ served' = served /\ stage[u] = "hooks" /\ x = "ran"
         \/ /\ served' = [served EXCEPT ![u] = @ + 1] /\ stage[u] \in Locked
            /\ x \in {"hooks", "ran"}
  PROVE  RoundsFit'
<1>1. UNCHANGED <<phase, todo, ready, round>>
  BY DEF tickVars
<1>2. SUFFICES ASSUME NEW s \in Slot PROVE FitsAt(s)'
  BY DEF RoundsFit
<1>3. round[s[1]] \in Nat /\ served[s] \in Nat
  BY DEF TypeOK, Slot
<1>4. CASE s # u
  <2>1. stage'[s] = stage[s] /\ served'[s] = served[s]
    BY <1>4 DEF TypeOK
  <2>. QED
    BY <1>1, <2>1 DEF RoundsFit, FitsAt
<1>5. CASE s = u
  <2>1. stage'[s] = x
    BY <1>5 DEF TypeOK
  <2>2. phase[s[1]] = "rounds" /\ s[2] \notin todo[s[1]] /\ s[2] \notin ready[s[1]]
    BY <1>5 DEF RoundsFit, FitsAt, Locked
  <2>. FitsAt(s)
    BY DEF RoundsFit
  <2>3. CASE served' = served /\ stage[u] \in Locked \cup {"called"} /\ x \in Locked \cup {"called", "nothing"}
    BY <1>1, <1>3, <1>5, <2>1, <2>2, <2>3 DEF FitsAt, Locked
  <2>4. CASE served' = served /\ stage[u] = "hooks" /\ x = "ran"
    BY <1>1, <1>3, <1>5, <2>1, <2>2, <2>4 DEF FitsAt, Locked
  <2>5. CASE served' = [served EXCEPT ![u] = @ + 1] /\ stage[u] \in Locked /\ x \in {"hooks", "ran"}
    <3>1. served'[s] = served[s] + 1
      BY <1>5, <2>5 DEF TypeOK
    <3>. QED
      BY <1>1, <1>3, <1>5, <2>1, <2>2, <2>5, <3>1 DEF RoundsFit, FitsAt, Locked
  <2>. QED
    BY <2>3, <2>4, <2>5
<1>. QED
  BY <1>4, <1>5

\* Every step keeps the count of the rounds.
LEMMA RoundsStep == TypeOK /\ RoundsFit /\ [Next]_vars => RoundsFit'
<1> SUFFICES ASSUME TypeOK, RoundsFit, [Next]_vars PROVE RoundsFit'
  OBVIOUS
<1>0. /\ \A s \in Slot : s[1] \in Replica /\ s[2] \in Tenant /\ s = <<s[1], s[2]>> /\ served[s] \in Nat
      /\ \A r \in Replica : round[r] \in Nat /\ \A t \in Tenant : <<r, t>> \in Slot
  BY DEF TypeOK, Slot
<1>1. ASSUME UNCHANGED <<tickVars, stage, served>> PROVE RoundsFit'
  BY <1>1 DEF RoundsFit, FitsAt, tickVars
<1>2. ASSUME NEW j \in Job, Enqueue(j) \/ MinutePasses(j) PROVE RoundsFit'
  BY <1>1, <1>2 DEF Enqueue, MinutePasses, slotVars
<1>3. ASSUME NEW t \in Pausable, Pause(t) \/ Resume(t) PROVE RoundsFit'
  BY <1>1, <1>3 DEF Pause, Resume, slotVars
<1>4. ASSUME NEW r \in Replica, TickBegins(r) PROVE RoundsFit'
  <2>1. /\ UNCHANGED <<round, ready, stage, served>> /\ phase[r] = "idle"
        /\ \A q \in Replica : /\ phase'[q] = IF q = r THEN "scheduling" ELSE phase[q]
                              /\ q # r => todo'[q] = todo[q]
    BY <1>4 DEF TickBegins, TypeOK, slotVars
  <2>. QED
    BY <1>0, <2>1 DEF RoundsFit, FitsAt
<1>5. ASSUME NEW r \in Replica, NEW t \in Tenant, TenantScheduled(r, t) \/ SchedulingFails(r, t) PROVE RoundsFit'
  <2>1. /\ UNCHANGED <<round, phase, stage, served>> /\ phase[r] = "scheduling"
        /\ \A q \in Replica : q # r => todo'[q] = todo[q] /\ ready'[q] = ready[q]
    BY <1>5 DEF TenantScheduled, SchedulingFails, TypeOK, slotVars
  <2>. QED
    BY <1>0, <2>1 DEF RoundsFit, FitsAt
<1>6. ASSUME NEW r \in Replica, RoundBegins(r) PROVE RoundsFit'
  <2>1. /\ UNCHANGED <<stage, served>> /\ BetweenRounds(r)
        /\ \A q \in Replica :
            /\ phase'[q] = IF q = r THEN "rounds" ELSE phase[q]
            /\ todo'[q] = IF q = r THEN ready[q] ELSE todo[q]
            /\ ready'[q] = IF q = r THEN {} ELSE ready[q]
            /\ round'[q] = IF q = r THEN round[q] + 1 ELSE round[q]
    BY <1>6 DEF RoundBegins, TypeOK, slotVars
  <2>2. \A s \in Slot : s[1] = r => stage[s] = "idle"
    BY <1>0, <2>1 DEF BetweenRounds, SlotsOf
  <2>3. phase[r] \in {"scheduling", "rounds"}
    BY <2>1 DEF BetweenRounds, TypeOK
  <2>4. ASSUME NEW s \in Slot PROVE FitsAt(s)'
    <3>0. FitsAt(s)
      BY DEF RoundsFit
    <3>1. CASE s[1] # r
      BY <1>0, <2>1, <3>0, <3>1 DEF FitsAt
    <3>2. CASE s[1] = r
      <4>1. /\ phase'[s[1]] = "rounds" /\ todo'[s[1]] = ready[s[1]] /\ ready'[s[1]] = {}
            /\ round'[s[1]] = round[s[1]] + 1 /\ stage'[s] = "idle" /\ stage[s] = "idle" /\ served'[s] = served[s]
        BY <1>0, <2>1, <2>2, <3>2
      <4>2. served[s] <= round[s[1]] /\ (s[2] \in ready[s[1]] => served[s] = round[s[1]])
        BY <2>3, <3>0, <3>2 DEF FitsAt
      <4>3. served[s] \in Nat /\ round[s[1]] \in Nat
        BY <1>0
      <4>. QED
        BY <4>1, <4>2, <4>3 DEF FitsAt, Locked
    <3>. QED
      BY <3>1, <3>2
  <2>. QED
    BY <2>4 DEF RoundsFit
<1>7. ASSUME NEW r \in Replica, NoTick(r), \A s \in Slot : stage'[s] = IF s[1] = r THEN "idle" ELSE stage[s] PROVE RoundsFit'
  <2>1. /\ \A q \in Replica :
            /\ phase'[q] = IF q = r THEN "idle" ELSE phase[q]
            /\ round'[q] = IF q = r THEN 0 ELSE round[q]
            /\ q # r => todo'[q] = todo[q] /\ ready'[q] = ready[q]
        /\ \A s \in Slot : served'[s] = IF s[1] = r THEN 0 ELSE served[s]
    BY <1>7 DEF NoTick, TypeOK
  <2>. QED
    BY <1>0, <1>7, <2>1 DEF RoundsFit, FitsAt
<1>8. ASSUME NEW r \in Replica, TickEnds(r) \/ Crash(r) PROVE RoundsFit'
  <2>1. NoTick(r)
    BY <1>8 DEF TickEnds, Crash
  <2>2. \A s \in Slot : stage'[s] = IF s[1] = r THEN "idle" ELSE stage[s]
    <3>1. CASE TickEnds(r)
      BY <1>0, <3>1 DEF TickEnds, BetweenRounds, SlotsOf
    <3>2. CASE Crash(r)
      BY <3>2 DEF Crash
    <3>. QED
      BY <1>8, <3>1, <3>2
  <2>. QED
    BY <1>7, <2>1, <2>2
<1>9. ASSUME NEW r \in Replica, BatchBegins(r) PROVE RoundsFit'
  <2>1. PICK batch \in (SUBSET todo[r]) \ {{}} :
          /\ todo' = [todo EXCEPT ![r] = @ \ batch]
          /\ stage' = [s \in Slot |-> IF s[1] = r /\ s[2] \in batch THEN "called" ELSE stage[s]]
    BY <1>9 DEF BatchBegins
  <2>2. /\ UNCHANGED <<phase, ready, round, served>> /\ phase[r] = "rounds"
        /\ \A q \in Replica : todo'[q] = IF q = r THEN todo[q] \ batch ELSE todo[q]
        /\ \A s \in Slot : stage'[s] = IF s[1] = r /\ s[2] \in batch THEN "called" ELSE stage[s]
        /\ batch \subseteq todo[r]
    BY <1>9, <2>1 DEF BatchBegins, TypeOK
  <2>3. ASSUME NEW s \in Slot PROVE FitsAt(s)'
    <3>1. CASE s[1] # r \/ s[2] \notin batch
      BY <1>0, <2>2, <3>1 DEF RoundsFit, FitsAt
    <3>2. CASE s[1] = r /\ s[2] \in batch
      <4>1. served[s] + 1 = round[r] /\ s[2] \in todo[r] /\ s[2] \notin todo'[r] /\ stage'[s] = "called"
        BY <2>2, <3>2 DEF RoundsFit, FitsAt
      <4>2. s[2] \notin ready[r]
        BY <1>0, <2>2, <3>2, <4>1 DEF RoundsFit, FitsAt
      <4>. QED
        BY <1>0, <2>2, <3>2, <4>1, <4>2 DEF FitsAt, Locked
    <3>. QED
      BY <3>1, <3>2
  <2>. QED
    BY <2>3 DEF RoundsFit
<1>10. ASSUME NEW r \in Replica, BatchEnds(r) PROVE RoundsFit'
  <2>1. /\ UNCHANGED <<phase, todo, round, served>> /\ phase[r] = "rounds"
        /\ \A q \in Replica : ready'[q] = IF q = r THEN ready[q] \cup {t \in Tenant : stage[<<r, t>>] = "ran"} ELSE ready[q]
        /\ \A s \in Slot : stage'[s] = IF s[1] = r THEN "idle" ELSE stage[s]
    BY <1>10 DEF BatchEnds, ComesBack, TypeOK
  <2>2. ASSUME NEW s \in Slot PROVE FitsAt(s)'
    <3>1. CASE s[1] # r
      BY <1>0, <2>1, <3>1 DEF RoundsFit, FitsAt
    <3>2. CASE s[1] = r
      <4>1. FitsAt(s) /\ stage'[s] = "idle" /\ phase[r] = "rounds"
        BY <2>1, <3>2 DEF RoundsFit
      <4>2. s[2] \in ready'[r] => s[2] \in ready[r] \/ stage[s] = "ran"
        <5>1. <<r, s[2]>> = s
          BY <1>0, <3>2
        <5>2. ready'[r] = ready[r] \cup {t \in Tenant : stage[<<r, t>>] = "ran"}
          BY <2>1
        <5>3. s[2] \in ready'[r] => s[2] \in ready[r] \/ stage[<<r, s[2]>>] = "ran"
          BY <5>2
        <5>. QED
          BY <5>1, <5>3
      <4>. QED
        BY <1>0, <2>1, <3>2, <4>1, <4>2 DEF FitsAt, Locked
    <3>. QED
      BY <3>1, <3>2
  <2>. QED
    BY <2>2 DEF RoundsFit
<1>11. ASSUME NEW s \in Slot, NothingToRun(s) \/ HandlerReturns(s) \/ HandlerThrows(s) \/ SavepointReleased(s)
                              \/ SavepointRolledBack(s) \/ TransactionLost(s) \/ CommitAnswerLost(s)
                              \/ \E j \in Job : PickJob(s, j)
       PROVE  RoundsFit'
  <2>1. /\ UNCHANGED tickVars /\ served' = served /\ stage[s] \in Locked \cup {"called"}
        /\ \E x \in Locked \cup {"called", "nothing"} : stage' = [stage EXCEPT ![s] = x]
    BY <1>11 DEF NothingToRun, HandlerReturns, HandlerThrows, SavepointReleased, SavepointRolledBack, TransactionLost,
       CommitAnswerLost, PickJob, GoTo, SlotEnds, Locked
  <2>. QED
    BY <2>1, SlotGoesOn
<1>12. ASSUME NEW s \in Slot, HandlerWrites(s) \/ DetachedWorkEnds(s) PROVE RoundsFit'
  BY <1>1, <1>12 DEF HandlerWrites, DetachedWorkEnds
<1>13. ASSUME NEW s \in Slot, Commit(s) PROVE RoundsFit'
  <2>1. /\ UNCHANGED tickVars /\ served' = [served EXCEPT ![s] = @ + 1] /\ stage[s] \in Locked
        /\ \E x \in {"hooks", "ran"} : stage' = [stage EXCEPT ![s] = x]
    BY <1>13 DEF Commit, GoTo, AfterCommit, Locked
  <2>. QED
    BY <2>1, SlotGoesOn
<1>14. ASSUME NEW s \in Slot, RunHooks(s) PROVE RoundsFit'
  <2>1. /\ UNCHANGED tickVars /\ served' = served /\ stage[s] = "hooks" /\ stage' = [stage EXCEPT ![s] = "ran"]
    BY <1>14 DEF RunHooks, SlotEnds, GoTo
  <2>. QED
    BY <2>1, SlotGoesOn
<1>15. CASE UNCHANGED vars
  BY <1>1, <1>15 DEF vars, slotVars
<1>16. ASSUME NEW r \in Replica, NEW t \in Tenant, SlotStep(<<r, t>>) PROVE RoundsFit'
  BY <1>0, <1>11, <1>12, <1>13, <1>14, <1>16 DEF SlotStep
<1>. QED
  BY <1>2, <1>3, <1>4, <1>5, <1>6, <1>8, <1>9, <1>10, <1>11, <1>15, <1>16 DEF Next, ReplicaStep, TickStep, FaultStep

\* However many customers there are, whatever their jobs do and however many are called
\* at a time: none runs a second job more than another one that still waits in the tick.
THEOREM RoundsAreFair == Spec => []FairRounds
<1>1. Init => RoundsFit
  BY DEF Init, RoundsFit, FitsAt, Slot
<1>2. TypeOK /\ RoundsFit => FairRounds
  <2> SUFFICES ASSUME TypeOK, RoundsFit, NEW r \in Replica, phase[r] = "rounds",
                      NEW t \in StillServed(r), NEW u \in Tenant
               PROVE  served[<<r, u>>] <= served[<<r, t>>] + 1
    BY DEF FairRounds
  <2>1. t \in Tenant /\ <<r, t>> \in Slot /\ <<r, u>> \in Slot
    BY DEF StillServed, TypeOK, Slot
  <2>2. served[<<r, t>>] \in Nat /\ served[<<r, u>>] \in Nat /\ round[r] \in Nat
        /\ stage[<<r, t>>] \in Locked \cup Answered \cup {"idle", "called", "hooks"}
    BY <2>1 DEF TypeOK
  <2>3. served[<<r, u>>] <= round[r]
    BY <2>1 DEF RoundsFit, FitsAt
  <2>4. round[r] <= served[<<r, t>>] + 1
    <3>1. \/ t \in todo[r] \/ t \in ready[r]
          \/ stage[<<r, t>>] \in Locked \cup {"called"} \/ stage[<<r, t>>] \in {"hooks", "ran"}
      BY <2>2 DEF StillServed, Answered
    <3>. QED
      BY <2>1, <2>2, <3>1 DEF RoundsFit, FitsAt
  <2>. QED
    BY <2>2, <2>3, <2>4
<1>. QED
  BY <1>1, <1>2, RoundsStep, TypeCorrect, PTL DEF Spec

=============================================================================
