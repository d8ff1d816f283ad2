----------------------------- MODULE TenantJobs -----------------------------
(***************************************************************************)
(* The durable jobs of the tenants: TenantJobsService, run by every API    *)
(* replica over the same tenant_jobs tables, inside the transactions and   *)
(* savepoints of TenantDatabaseService and runTenantSavepoint.             *)
(*                                                                         *)
(* One row of tenant_jobs exists per idempotency key, so the row is a      *)
(* function on Job.  A slot <<r, t>> is the call runOne of replica r for   *)
(* tenant t: a replica runs at most one job per tenant at a time, and the  *)
(* jobs of several tenants side by side.  A handler's work has two parts:  *)
(* what it writes before it returns, and what it started and did not await *)
(* (trackTenantPromise), which the savepoint waits for.                    *)
(***************************************************************************)
EXTENDS Naturals, FiniteSets

CONSTANTS
    Replica,        \* API processes with the worker enabled
    Tenant,         \* the customers' spaces
    Job,            \* idempotency keys
    TenantOf,       \* the tenant a job belongs to
    Misrouted,      \* jobs recorded for another shard than their tenant's
    Pausable,       \* tenants an operator pauses and resumes
    NoJob,          \* "no job": what an idle slot holds
    Concurrency,    \* TENANT_JOBS_CONCURRENCY, 4 by default
    MaxRounds,      \* rounds of one tick, 20 in the code
    LastAttempt,    \* earlier failures of the last attempt, 9 in the code
    MaxFaults       \* bound on pauses, crashes, lost connections and answers

ASSUME JobsAssumption ==
    /\ TenantOf \in [Job -> Tenant]
    /\ Misrouted \subseteq Job
    /\ Pausable \subseteq Tenant
    /\ NoJob \notin Job
    /\ Concurrency \in Nat \ {0}
    /\ MaxRounds \in Nat
    /\ LastAttempt \in Nat
    /\ MaxFaults \in Nat

Part == {"main", "side"}
Slot == Replica \X Tenant

VARIABLES
    status,     \* tenant_jobs.status, "absent" before the row exists
    attempts,   \* tenant_jobs.attempts
    due,        \* pending rows with available_at <= now()
    ahead,      \* the due rows of the tenant with an earlier available_at
    writes,     \* how many times each part of a job's work was committed
    told,       \* how many times a job's after-commit hooks ran
    closed,     \* tenants that are read-only or suspended in the platform
    phase,      \* what tick() of each replica is doing
    todo,       \* tenants still to be scheduled, or to be called in this round
    ready,      \* tenants for the next round
    round,      \* the number of the round
    stage,      \* where the call of each slot is
    holds,      \* the job whose row the slot's transaction has locked
    open,       \* the parts written in the slot's savepoint
    side,       \* the handler's detached work
    served,     \* jobs the slot ran in this tick
    faults      \* faults so far

rowVars == <<status, attempts, due, ahead>>
dataVars == <<writes, told>>
tickVars == <<phase, todo, ready, round>>
slotVars == <<stage, holds, open, side, served>>
vars == <<rowVars, dataVars, closed, tickVars, slotVars, faults>>

\* Stages in which the slot's transaction is open and the row locked.
Locked == {"handler", "returned", "threw", "finishing", "failing", "rejecting"}
Answered == {"ran", "nothing"}

TypeOK ==
    /\ status \in [Job -> {"absent", "pending", "completed", "failed"}]
    /\ attempts \in [Job -> Nat]
    /\ due \subseteq Job
    /\ ahead \in [Job -> SUBSET Job]
    /\ writes \in [Job -> [Part -> Nat]]
    /\ told \in [Job -> Nat]
    /\ closed \subseteq Tenant
    /\ phase \in [Replica -> {"idle", "scheduling", "rounds"}]
    /\ todo \in [Replica -> SUBSET Tenant]
    /\ ready \in [Replica -> SUBSET Tenant]
    /\ round \in [Replica -> Nat]
    /\ stage \in [Slot -> Locked \cup Answered \cup {"idle", "called", "hooks"}]
    /\ holds \in [Slot -> Job \cup {NoJob}]
    /\ open \in [Slot -> SUBSET Part]
    /\ side \in [Slot -> {"none", "open", "written", "failed"}]
    /\ served \in [Slot -> Nat]
    /\ faults \in Nat

Init ==
    /\ status = [j \in Job |-> "absent"]
    /\ attempts = [j \in Job |-> 0]
    /\ due = {}
    /\ ahead = [j \in Job |-> {}]
    /\ writes = [j \in Job |-> [p \in Part |-> 0]]
    /\ told = [j \in Job |-> 0]
    /\ closed = {}
    /\ phase = [r \in Replica |-> "idle"]
    /\ todo = [r \in Replica |-> {}]
    /\ ready = [r \in Replica |-> {}]
    /\ round = [r \in Replica |-> 0]
    /\ stage = [s \in Slot |-> "idle"]
    /\ holds = [s \in Slot |-> NoJob]
    /\ open = [s \in Slot |-> {}]
    /\ side = [s \in Slot |-> "none"]
    /\ served = [s \in Slot |-> 0]
    /\ faults = 0

SlotsOf(r) == {r} \X Tenant
HasRowLock(j) == \E s \in Slot : stage[s] \in Locked /\ holds[s] = j

-----------------------------------------------------------------------------
(***************************************************************************)
(* The rows.  available_at orders the due rows of a tenant: a row that     *)
(* becomes due goes behind those that are.                                 *)
(***************************************************************************)
BecomesAvailable(j) ==
    /\ due' = due \cup {j}
    /\ ahead' = [ahead EXCEPT ![j] = {k \in due : TenantOf[k] = TenantOf[j]}]

NoLongerAvailable(j) ==
    /\ due' = due \ {j}
    /\ ahead' = [k \in Job |-> IF k = j THEN {} ELSE ahead[k] \ {j}]

\* INSERT ... ON CONFLICT DO NOTHING, by a request or by a schedule, as part of
\* a transaction that commits.  A second insert of the key changes nothing, and
\* neither does an insert in a read-only space.
Enqueue(j) ==
    /\ TenantOf[j] \notin closed
    /\ status[j] = "absent"
    /\ status' = [status EXCEPT ![j] = "pending"]
    /\ BecomesAvailable(j)
    /\ UNCHANGED <<attempts, dataVars, closed, tickVars, slotVars, faults>>

\* A minute passes after a failed attempt.
MinutePasses(j) ==
    /\ status[j] = "pending" /\ j \notin due
    /\ BecomesAvailable(j)
    /\ UNCHANGED <<status, attempts, dataVars, closed, tickVars, slotVars, faults>>

-----------------------------------------------------------------------------
(***************************************************************************)
(* tick(): the schedules of every tenant, then rounds of one job each.     *)
(***************************************************************************)

\* `running` keeps a replica from having two ticks at a time.
TickBegins(r) ==
    /\ phase[r] = "idle"
    /\ phase' = [phase EXCEPT ![r] = "scheduling"]
    /\ todo' = [todo EXCEPT ![r] = Tenant]
    /\ UNCHANGED <<rowVars, dataVars, closed, ready, round, slotVars, faults>>

\* The scheduler transaction of one tenant commits, with or without the
\* advisory lock; what its schedules enqueue is an Enqueue of its own.
TenantScheduled(r, t) ==
    /\ phase[r] = "scheduling" /\ t \in todo[r]
    /\ todo' = [todo EXCEPT ![r] = @ \ {t}]
    /\ ready' = [ready EXCEPT ![r] = IF t \in closed THEN @ ELSE @ \cup {t}]
    /\ UNCHANGED <<rowVars, dataVars, closed, phase, round, slotVars, faults>>

\* The scheduler transaction fails: the tenant sits this tick out.
SchedulingFails(r, t) ==
    /\ phase[r] = "scheduling" /\ t \in todo[r]
    /\ faults < MaxFaults
    /\ faults' = faults + 1
    /\ todo' = [todo EXCEPT ![r] = @ \ {t}]
    /\ UNCHANGED <<rowVars, dataVars, closed, phase, ready, round, slotVars>>

BetweenRounds(r) ==
    /\ phase[r] # "idle" /\ todo[r] = {}
    /\ \A s \in SlotsOf(r) : stage[s] = "idle"

RoundBegins(r) ==
    /\ BetweenRounds(r)
    /\ ready[r] # {} /\ round[r] < MaxRounds
    /\ phase' = [phase EXCEPT ![r] = "rounds"]
    /\ todo' = [todo EXCEPT ![r] = ready[r]]
    /\ ready' = [ready EXCEPT ![r] = {}]
    /\ round' = [round EXCEPT ![r] = @ + 1]
    /\ UNCHANGED <<rowVars, dataVars, closed, slotVars, faults>>

\* Mutant: `running` is not reset.
StaysRunning(r) ==
    /\ todo' = [todo EXCEPT ![r] = {}]
    /\ ready' = [ready EXCEPT ![r] = {}]
    /\ round' = [round EXCEPT ![r] = 0]
    /\ served' = [s \in Slot |-> IF s[1] = r THEN 0 ELSE served[s]]
    /\ UNCHANGED phase

NoTick(r) ==
    /\ phase' = [phase EXCEPT ![r] = "idle"]
    /\ todo' = [todo EXCEPT ![r] = {}]
    /\ ready' = [ready EXCEPT ![r] = {}]
    /\ round' = [round EXCEPT ![r] = 0]
    /\ served' = [s \in Slot |-> IF s[1] = r THEN 0 ELSE served[s]]

TickEnds(r) ==
    /\ BetweenRounds(r)
    /\ ready[r] = {} \/ round[r] = MaxRounds
    /\ NoTick(r)
    /\ UNCHANGED <<rowVars, dataVars, closed, stage, holds, open, side, faults>>

\* Promise.all over the next `concurrency` tenants of the round.
BatchBegins(r) ==
    /\ phase[r] = "rounds"
    /\ \A s \in SlotsOf(r) : stage[s] = "idle"
    /\ \E batch \in (SUBSET todo[r]) \ {{}} :
          /\ \/ Cardinality(batch) = Concurrency
             \/ batch = todo[r] /\ Cardinality(batch) < Concurrency
          /\ todo' = [todo EXCEPT ![r] = @ \ batch]
          /\ stage' = [s \in Slot |-> IF s[1] = r /\ s[2] \in batch THEN "called" ELSE stage[s]]
    /\ UNCHANGED <<rowVars, dataVars, closed, phase, ready, round, holds, open, side, served, faults>>

\* Mutant: the tenant has another turn in the round that is going on.
ComesBackAtOnce(r, tenants) ==
    todo' = [todo EXCEPT ![r] = @ \cup tenants] /\ UNCHANGED ready

ComesBack(r, tenants) ==
    ready' = [ready EXCEPT ![r] = @ \cup tenants] /\ UNCHANGED todo

\* The whole batch has answered; a tenant whose job ran has another turn.
BatchEnds(r) ==
    /\ phase[r] = "rounds"
    /\ \E s \in SlotsOf(r) : stage[s] # "idle"
    /\ \A s \in SlotsOf(r) : stage[s] \in Answered \cup {"idle"}
    /\ ComesBack(r, {t \in Tenant : stage[<<r, t>>] = "ran"})
    /\ stage' = [s \in Slot |-> IF s[1] = r THEN "idle" ELSE stage[s]]
    /\ UNCHANGED <<rowVars, dataVars, closed, phase, round, holds, open, side, served, faults>>

-----------------------------------------------------------------------------
(***************************************************************************)
(* runOne(): one transaction that locks a job, runs its handler in a       *)
(* savepoint and records the attempt.                                      *)
(***************************************************************************)
GoTo(s, next) == stage' = [stage EXCEPT ![s] = next]

\* Mutant: without FOR UPDATE SKIP LOCKED.
TakesAnyRow(s, j) ==
    /\ TenantOf[j] = s[2]
    /\ j \in due

\* ORDER BY available_at LIMIT 1 FOR UPDATE SKIP LOCKED: the first due row
\* whose lock is free.
Takes(s, j) ==
    /\ TenantOf[j] = s[2]
    /\ j \in due
    /\ ~HasRowLock(j)
    /\ \A k \in ahead[j] : HasRowLock(k)

NothingToRun(s) ==
    /\ stage[s] = "called"
    /\ s[2] \in closed \/ \A j \in Job : ~Takes(s, j)
    /\ GoTo(s, "nothing")
    /\ UNCHANGED <<rowVars, dataVars, closed, tickVars, holds, open, side, served, faults>>

PickJob(s, j) ==
    /\ stage[s] = "called"
    /\ s[2] \notin closed
    /\ Takes(s, j)
    /\ GoTo(s, IF j \in Misrouted THEN "rejecting" ELSE "handler")
    /\ holds' = [holds EXCEPT ![s] = j]
    /\ UNCHANGED <<rowVars, dataVars, closed, tickVars, open, side, served, faults>>

\* The handler writes its part and starts work it does not await.
HandlerWrites(s) ==
    /\ stage[s] = "handler" /\ open[s] = {}
    /\ open' = [open EXCEPT ![s] = {"main"}]
    /\ side' = [side EXCEPT ![s] = "open"]
    /\ UNCHANGED <<rowVars, dataVars, closed, tickVars, stage, holds, served, faults>>

DetachedWorkEnds(s) ==
    /\ side[s] = "open" /\ stage[s] \in Locked
    /\ \/ /\ side' = [side EXCEPT ![s] = "written"]
          /\ open' = [open EXCEPT ![s] = @ \cup {"side"}]
       \/ /\ side' = [side EXCEPT ![s] = "failed"]
          /\ UNCHANGED open
    /\ UNCHANGED <<rowVars, dataVars, closed, tickVars, stage, holds, served, faults>>

HandlerReturns(s) ==
    /\ stage[s] = "handler" /\ "main" \in open[s]
    /\ GoTo(s, "returned")
    /\ UNCHANGED <<rowVars, dataVars, closed, tickVars, holds, open, side, served, faults>>

HandlerThrows(s) ==
    /\ stage[s] = "handler"
    /\ GoTo(s, "threw")
    /\ UNCHANGED <<rowVars, dataVars, closed, tickVars, holds, open, side, served, faults>>

\* Mutant: the savepoint does not wait for what the handler left running.
AtOnce(s) == TRUE

\* drainTenantWork: every tracked promise has settled.
Drained(s) == side[s] # "open"

\* RELEASE SAVEPOINT and the UPDATE to "completed".
SavepointReleased(s) ==
    /\ stage[s] = "returned" /\ Drained(s) /\ side[s] # "failed"
    /\ GoTo(s, "finishing")
    /\ UNCHANGED <<rowVars, dataVars, closed, tickVars, holds, open, side, served, faults>>

\* Mutant: the failed handler's writes stay in the transaction.
KeptInTransaction(s) == open

\* ROLLBACK TO SAVEPOINT: the handler's writes are gone.
RolledBack(s) == [open EXCEPT ![s] = {}]

\* ... and the UPDATE that counts the attempt, in the same transaction.
SavepointRolledBack(s) ==
    /\ Drained(s)
    /\ stage[s] = "threw" \/ (stage[s] = "returned" /\ side[s] = "failed")
    /\ GoTo(s, "failing")
    /\ open' = RolledBack(s)
    /\ UNCHANGED <<rowVars, dataVars, closed, tickVars, holds, side, served, faults>>

\* Mutant: a job is given up one attempt late.
GivesUpLate(j) == attempts[j] > LastAttempt

GivesUp(j) == attempts[j] >= LastAttempt

\* Mutant: a status no query looks for.
LeftToRetry(j) == IF GivesUp(j) THEN "failed" ELSE "retry"

AfterFailure(j) == IF GivesUp(j) THEN "failed" ELSE "pending"

\* What COMMIT makes visible: the handler's writes and the row.
CommitRow(s) ==
    LET j == holds[s] IN
    /\ writes' = [writes EXCEPT ![j] = [p \in Part |-> IF p \in open[s] THEN @[p] + 1 ELSE @[p]]]
    /\ status' = [status EXCEPT ![j] =
                    CASE stage[s] = "finishing" -> "completed"
                      [] stage[s] = "failing" -> AfterFailure(j)
                      [] stage[s] = "rejecting" -> "failed"]
    /\ attempts' = [attempts EXCEPT ![j] = IF stage[s] = "rejecting" THEN @ ELSE @ + 1]
    /\ NoLongerAvailable(j)

SlotEnds(s, answer) ==
    /\ GoTo(s, answer)
    /\ holds' = [holds EXCEPT ![s] = NoJob]
    /\ open' = [open EXCEPT ![s] = {}]
    /\ side' = [side EXCEPT ![s] = "none"]

\* Mutant: the hooks of a rolled-back savepoint run too.
HooksOfAll(s) == "hooks"

\* The hooks a handler registered are the parent's only once its savepoint is
\* released.
AfterCommit(s) == IF stage[s] = "finishing" THEN "hooks" ELSE "ran"

Commit(s) ==
    /\ stage[s] \in {"finishing", "failing", "rejecting"}
    /\ CommitRow(s)
    /\ GoTo(s, AfterCommit(s))
    /\ served' = [served EXCEPT ![s] = @ + 1]
    /\ open' = [open EXCEPT ![s] = {}]
    /\ side' = [side EXCEPT ![s] = "none"]
    /\ IF AfterCommit(s) = "hooks" THEN UNCHANGED holds ELSE holds' = [holds EXCEPT ![s] = NoJob]
    /\ UNCHANGED <<told, closed, tickVars, faults>>

RunHooks(s) ==
    /\ stage[s] = "hooks"
    /\ told' = [told EXCEPT ![holds[s]] = @ + 1]
    /\ SlotEnds(s, "ran")
    /\ UNCHANGED <<rowVars, writes, closed, tickVars, served, faults>>

-----------------------------------------------------------------------------
(***************************************************************************)
(* Faults, and the operator's pauses, which share their bound.             *)
(***************************************************************************)
Fault == faults < MaxFaults /\ faults' = faults + 1

\* The connection dies, a session timeout fires or COMMIT is refused: nothing
\* of the transaction is left, not even the count of the attempt.
TransactionLost(s) ==
    /\ Fault
    /\ stage[s] \in Locked \cup {"called"}
    /\ SlotEnds(s, "nothing")
    /\ UNCHANGED <<rowVars, dataVars, closed, tickVars, served>>

\* COMMIT takes effect and its answer is lost: the replica believes it was
\* rolled back and runs no after-commit hook.
CommitAnswerLost(s) ==
    /\ Fault
    /\ stage[s] \in {"finishing", "failing", "rejecting"}
    /\ CommitRow(s)
    /\ SlotEnds(s, "nothing")
    /\ UNCHANGED <<told, closed, tickVars, served>>

\* An operator makes a space read-only or suspends it ...
Pause(t) ==
    /\ Fault
    /\ t \notin closed
    /\ closed' = closed \cup {t}
    /\ UNCHANGED <<rowVars, dataVars, tickVars, slotVars>>

\* ... and opens it again.
Resume(t) ==
    /\ t \in closed
    /\ closed' = closed \ {t}
    /\ UNCHANGED <<rowVars, dataVars, tickVars, slotVars, faults>>

\* The process dies; the database rolls its transactions back.
Crash(r) ==
    /\ Fault
    /\ phase[r] # "idle"
    /\ NoTick(r)
    /\ stage' = [s \in Slot |-> IF s[1] = r THEN "idle" ELSE stage[s]]
    /\ holds' = [s \in Slot |-> IF s[1] = r THEN NoJob ELSE holds[s]]
    /\ open' = [s \in Slot |-> IF s[1] = r THEN {} ELSE open[s]]
    /\ side' = [s \in Slot |-> IF s[1] = r THEN "none" ELSE side[s]]
    /\ UNCHANGED <<rowVars, dataVars, closed>>

-----------------------------------------------------------------------------
SlotStep(s) ==
    \/ NothingToRun(s)
    \/ \E j \in Job : PickJob(s, j)
    \/ HandlerWrites(s)
    \/ DetachedWorkEnds(s)
    \/ HandlerReturns(s)
    \/ HandlerThrows(s)
    \/ SavepointReleased(s)
    \/ SavepointRolledBack(s)
    \/ Commit(s)
    \/ RunHooks(s)

TickStep(r) ==
    \/ TickBegins(r)
    \/ \E t \in Tenant : TenantScheduled(r, t)
    \/ RoundBegins(r)
    \/ TickEnds(r)
    \/ BatchBegins(r)
    \/ BatchEnds(r)

ReplicaStep(r) == TickStep(r) \/ \E t \in Tenant : SlotStep(<<r, t>>)

FaultStep ==
    \/ \E r \in Replica : Crash(r)
    \/ \E r \in Replica, t \in Tenant : SchedulingFails(r, t)
    \/ \E s \in Slot : TransactionLost(s) \/ CommitAnswerLost(s)

Next ==
    \/ \E r \in Replica : ReplicaStep(r)
    \/ \E j \in Job : Enqueue(j) \/ MinutePasses(j)
    \/ \E t \in Pausable : Pause(t) \/ Resume(t)
    \/ FaultStep

Spec == Init /\ [][Next]_vars

\* Timers fire and time passes; no user or operator has to act.
Fairness ==
    /\ \A r \in Replica : WF_vars(ReplicaStep(r))
    /\ \A j \in Job : WF_vars(MinutePasses(j))

FairSpec == Spec /\ Fairness

-----------------------------------------------------------------------------
\* No two transactions run the same job, whatever the replicas do
\* (FOR UPDATE SKIP LOCKED).
OneRunPerJob ==
    \A s, u \in Slot :
        stage[s] \in Locked /\ stage[u] \in Locked /\ holds[s] = holds[u] => s = u

\* Sockets are told of a job's work at most once and only of committed work:
\* the hooks of a savepoint that was rolled back never run.
NewsIsTrue == \A j \in Job : told[j] > 0 => told[j] = 1 /\ status[j] = "completed"

\* "A customer with twenty slow probes must not run its entire batch ahead of
\* every other customer's reminders": as long as a tenant is in the rounds of a
\* tick, no other tenant is served more than one job more in that tick.
StillServed(r) == todo[r] \cup ready[r] \cup {t \in Tenant : stage[<<r, t>>] \notin {"idle", "nothing"}}
FairRounds ==
    \A r \in Replica : phase[r] = "rounds" =>
        \A t \in StillServed(r), u \in Tenant : served[<<r, u>>] <= served[<<r, t>>] + 1

\* The table implements the promise.
Promise == INSTANCE JobPromise WITH state <- status, tries <- attempts, seen <- writes
ImplementsPromise == Promise!PromiseSpec

\* Every pending job of an open space is settled in the end.
EveryJobSettles ==
    \A j \in Job : status[j] = "pending" ~> status[j] \in {"completed", "failed"} \/ TenantOf[j] \in closed

=============================================================================
