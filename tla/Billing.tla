------------------------------- MODULE Billing -------------------------------
(***************************************************************************)
(* What one task brings in: the timers of one author on it                 *)
(* (TimelogsService), the billing of the task by the hour or at a fixed    *)
(* price (TasksService.syncTaskBilling) and the reviews (Reportings-       *)
(* Service).  Requests read, wait and write; without tenants every         *)
(* statement commits by itself.  The clock is finer than a second, in      *)
(* which the time of a timer is recorded.                                  *)
(***************************************************************************)
EXTENDS Naturals

CONSTANTS
    Request,
    Log,                \* timelogs of the author on the task
    NoLog,
    Second,             \* ticks of the clock in a second
    MaxTime,            \* bound on the clock
    MaxRequests,        \* bound on the requests
    MaxRequestFaults    \* bound on requests that fail between two statements

ASSUME BillingAssumption ==
    /\ NoLog \notin Log
    /\ Second \in Nat \ {0}
    /\ MaxTime \in Nat /\ MaxRequests \in Nat /\ MaxRequestFaults \in Nat

Review == {"none", "pending", "approved", "rejected"}

\* A row of timelogs, spent in seconds and since in ticks (change_status_at);
\* status "none" when there is no row.
Timer == [status : {"none", "in_progress", "paused", "completed"},
          spent : Nat, since : Nat, bill : Review]
TimerColumn == {"status", "spent", "since", "bill"}
NoTimerRow == [status |-> "none", spent |-> 0, since |-> 0, bill |-> "none"]

\* The task: billing_type and whether it is closed.
Task == [kind : {"HOURLY", "FIXED"}, done : BOOLEAN]

VARIABLES
    now,
    task,
    log,
    used,               \* identifiers that have been given out
    revenue,            \* status of the task's row of fixed_revenues, or "none"
    asking,             \* what each request does
    asked,              \* requests so far
    ran,                \* for how many ticks each timer really ran
    pauses,             \* how often it was paused
    delay,              \* ticks between reading the clock for a timer and writing it
    uneven,             \* timers with a request that its page does not offer, or two at once
    reopened,           \* timelogs that run again, or wait, and are billed
    overtaken,          \* a change of the task met another request, or failed half way
    requestFaults

timeGhosts == <<ran, pauses, delay>>
billGhosts == <<timeGhosts, uneven, reopened, overtaken>>
billVars == <<now, task, log, used, revenue, asking, asked, billGhosts, requestFaults>>

Asking == [step : {"idle", "new", "read", "compared", "seen", "taskRead", "taskSaved", "logsBilled"},
           of : Log \cup {NoLog}, to : {"none", "in_progress", "paused", "completed"},
           copy : Timer, diff : SUBSET TimerColumn, was : Task, wants : Task]
Quiet == [step |-> "idle", of |-> NoLog, to |-> "none", copy |-> NoTimerRow, diff |-> {},
          was |-> [kind |-> "HOURLY", done |-> FALSE], wants |-> [kind |-> "HOURLY", done |-> FALSE]]

BillingTypeOK ==
    /\ now \in Nat /\ asked \in Nat /\ requestFaults \in Nat
    /\ task \in Task
    /\ log \in [Log -> Timer] /\ used \subseteq Log
    /\ revenue \in Review
    /\ asking \in [Request -> Asking]
    /\ ran \in [Log -> Nat] /\ pauses \in [Log -> Nat] /\ delay \in [Log -> Nat]
    /\ uneven \subseteq Log /\ reopened \subseteq Log
    /\ overtaken \in BOOLEAN

BillingInit ==
    /\ now = 0
    /\ task \in [kind : {"HOURLY", "FIXED"}, done : {FALSE}]
    /\ log = [l \in Log |-> NoTimerRow] /\ used = {}
    /\ revenue = "none"
    /\ asking = [q \in Request |-> Quiet]
    /\ asked = 0
    /\ ran = [l \in Log |-> 0] /\ pauses = ran /\ delay = ran
    /\ uneven = {} /\ reopened = {} /\ overtaken = FALSE
    /\ requestFaults = 0

TaskSteps == {"taskRead", "taskSaved", "logsBilled"}
Busy == {q \in Request : asking[q].step # "idle"}
TaskIsChanging == \E q \in Request : asking[q].step \in TaskSteps

Starts(q, a) ==
    /\ asking[q].step = "idle" /\ asked < MaxRequests
    /\ asked' = asked + 1
    /\ asking' = [asking EXCEPT ![q] = a]
    /\ overtaken' = (overtaken \/ TaskIsChanging \/ (a.step \in TaskSteps /\ Busy # {}))

\* A request has read the clock for timer l and not written it yet.
Clocked(l) == \E q \in Request : asking[q].step \in {"new", "compared"} /\ asking[q].of = l

Tick ==
    /\ now < MaxTime
    /\ now' = now + 1
    /\ ran' = [l \in Log |-> IF log[l].status = "in_progress" THEN ran[l] + 1 ELSE ran[l]]
    /\ delay' = [l \in Log |-> IF Clocked(l) THEN delay[l] + 1 ELSE delay[l]]
    /\ UNCHANGED <<used, task, log, revenue, asking, asked, pauses, uneven, reopened, overtaken, requestFaults>>

-----------------------------------------------------------------------------
(***************************************************************************)
(* createTimelog, updateTimelog and deleteTimelog.                         *)
(***************************************************************************)

\* The index unique_active_timelogs_per_task_author.
Refused(l, status) ==
    status = "in_progress" /\ \E k \in Log \ {l} : log[k].status = "in_progress"

BilledBy(kind, bill) == IF kind = "HOURLY" THEN "pending" ELSE bill

NewTimer(q, l, status) ==
    /\ l \notin used
    /\ used' = used \cup {l}
    /\ Starts(q, [Quiet EXCEPT !.step = "new", !.of = l,
                    !.copy = [status |-> status, spent |-> 0, since |-> now,
                              bill |-> IF status = "completed" THEN BilledBy(task.kind, "none") ELSE "none"]])
    /\ UNCHANGED <<now, task, log, revenue, timeGhosts, uneven, reopened, requestFaults>>

InsertTimer(q) ==
    LET l == asking[q].of IN
    /\ asking[q].step = "new"
    /\ asking' = [asking EXCEPT ![q] = Quiet]
    /\ IF Refused(l, asking[q].copy.status)
       THEN UNCHANGED log
       ELSE log' = [log EXCEPT ![l] = asking[q].copy]
    /\ UNCHANGED <<used, now, task, revenue, asked, billGhosts, requestFaults>>

\* What the page offers: pause while running; start or complete while paused.
Offered(l, status) ==
    IF status = "paused" THEN log[l].status = "in_progress" ELSE log[l].status = "paused"

ReadTimer(q, l, status) ==
    /\ log[l].status # "none"
    /\ Starts(q, [Quiet EXCEPT !.step = "read", !.of = l, !.to = status, !.copy = log[l]])
    /\ uneven' = IF Offered(l, status) /\ \A r \in Request : asking[r].of # l
                 THEN uneven ELSE uneven \cup {l}
    /\ UNCHANGED <<used, now, task, log, revenue, timeGhosts, reopened, requestFaults>>

\* Whole seconds since the last change: the rest is dropped.
Elapsed(copy) == (now - copy.since) \div Second

\* Mutant: starting again keeps the time of the pause.
PauseCounts(copy, to) ==
    CASE to = "in_progress" -> [copy EXCEPT !.status = to]
      [] to = "paused" -> [copy EXCEPT !.status = to, !.spent = @ + Elapsed(copy), !.since = now]
      [] to = "completed" -> [copy EXCEPT !.status = to, !.since = now, !.bill = BilledBy(task.kind, @)]

\* A pause adds the time since the last change; the other two only note it.
Changed(copy, to) ==
    CASE to = "in_progress" -> [copy EXCEPT !.status = to, !.since = now]
      [] to = "paused" -> [copy EXCEPT !.status = to, !.spent = @ + Elapsed(copy), !.since = now]
      [] to = "completed" -> [copy EXCEPT !.status = to, !.since = now, !.bill = BilledBy(task.kind, @)]

\* save() reads the row again: the columns that differ will be written, and a
\* row deleted meanwhile is inserted.
CompareTimer(q) ==
    LET l == asking[q].of
        copy == Changed(asking[q].copy, asking[q].to) IN
    /\ asking[q].step = "read"
    /\ asking' = [asking EXCEPT ![q].step = "compared", ![q].copy = copy,
                    ![q].diff = IF log[l].status = "none" THEN TimerColumn
                                ELSE {c \in TimerColumn : copy[c] # log[l][c]}]
    /\ UNCHANGED <<used, now, task, log, revenue, asked, billGhosts, requestFaults>>

\* A timer that runs or waits while its hours are billed.
NowReopened(l, timer) ==
    IF timer.status # "completed" /\ timer.bill # "none" THEN reopened \cup {l} ELSE reopened

WriteTimer(q) ==
    LET l == asking[q].of
        copy == asking[q].copy IN
    /\ asking[q].step = "compared"
    /\ asking' = [asking EXCEPT ![q] = Quiet]
    /\ IF Refused(l, copy.status) \/ (log[l].status = "none" /\ asking[q].diff # TimerColumn)
       THEN UNCHANGED <<log, pauses, reopened>>
       ELSE /\ log' = [log EXCEPT ![l] = [c \in TimerColumn |->
                                            IF c \in asking[q].diff THEN copy[c] ELSE @[c]]]
            /\ reopened' = NowReopened(l, log'[l])
            /\ pauses' = IF asking[q].to = "paused" THEN [pauses EXCEPT ![l] = @ + 1] ELSE pauses
    /\ UNCHANGED <<used, now, task, revenue, asked, ran, delay, uneven, overtaken, requestFaults>>

DeleteTimer(l) ==
    /\ log[l].status # "none"
    /\ log' = [log EXCEPT ![l] = NoTimerRow]
    /\ uneven' = IF \E q \in Request : asking[q].of = l THEN uneven \cup {l} ELSE uneven
    /\ ran' = [ran EXCEPT ![l] = 0] /\ pauses' = [pauses EXCEPT ![l] = 0] /\ delay' = [delay EXCEPT ![l] = 0]
    /\ UNCHANGED <<used, now, task, revenue, asking, asked, reopened, overtaken, requestFaults>>

-----------------------------------------------------------------------------
(***************************************************************************)
(* updateTask with syncTaskBilling.                                        *)
(***************************************************************************)
ReadTask(q, wants) ==
    /\ Starts(q, [Quiet EXCEPT !.step = "taskRead", !.was = task, !.wants = wants])
    /\ UNCHANGED <<used, now, task, log, revenue, timeGhosts, uneven, reopened, requestFaults>>

SaveTask(q) ==
    /\ asking[q].step = "taskRead"
    /\ task' = asking[q].wants
    /\ asking' = [asking EXCEPT ![q].step = "taskSaved"]
    /\ UNCHANGED <<used, now, log, revenue, asked, billGhosts, requestFaults>>

\* Mutant: what was approved by the hour stays billed.
OnlyPending(timer, kind) ==
    IF timer.status = "completed" /\ kind = "FIXED" /\ timer.bill = "pending"
    THEN [timer EXCEPT !.bill = "none"] ELSE timer

\* The review of a timelog after billing_type has changed to kind.
Rebilled(timer, kind) ==
    CASE timer.status = "completed" /\ kind = "FIXED" -> [timer EXCEPT !.bill = "none"]
      [] timer.status = "completed" /\ kind = "HOURLY" /\ timer.bill = "none" -> [timer EXCEPT !.bill = "pending"]
      [] OTHER -> timer

BillLogs(q) ==
    LET kind == asking[q].wants.kind IN
    /\ asking[q].step = "taskSaved"
    /\ asking' = [asking EXCEPT ![q].step = "logsBilled"]
    /\ log' = IF kind # asking[q].was.kind THEN [l \in Log |-> Rebilled(log[l], kind)] ELSE log
    /\ UNCHANGED <<used, now, task, revenue, asked, billGhosts, requestFaults>>

\* upsertFixedRevenue makes it pending again, also when it was approved.
BillTask(q) ==
    /\ asking[q].step = "logsBilled"
    /\ asking' = [asking EXCEPT ![q] = Quiet]
    /\ revenue' = IF asking[q].wants = [kind |-> "FIXED", done |-> TRUE] THEN "pending" ELSE "none"
    /\ UNCHANGED <<used, now, task, log, asked, billGhosts, requestFaults>>

-----------------------------------------------------------------------------
(***************************************************************************)
(* reviewTimelog and reviewFixedRevenue, for items of the queue.           *)
(***************************************************************************)
SeePending(q, l) ==
    /\ log[l].bill = "pending"
    /\ Starts(q, [Quiet EXCEPT !.step = "seen", !.of = l])
    /\ uneven' = IF \E r \in Request : asking[r].of = l THEN uneven \cup {l} ELSE uneven
    /\ UNCHANGED <<used, now, task, log, revenue, timeGhosts, reopened, requestFaults>>

\* UPDATE by id, whatever became of the timelog.
ReviewTimer(q, decision) ==
    LET l == asking[q].of IN
    /\ asking[q].step = "seen"
    /\ asking' = [asking EXCEPT ![q] = Quiet]
    /\ log' = IF log[l].status = "none" THEN log ELSE [log EXCEPT ![l].bill = decision]
    /\ reopened' = NowReopened(l, log'[l])
    /\ UNCHANGED <<used, now, task, revenue, asked, timeGhosts, uneven, overtaken, requestFaults>>

ReviewRevenue(decision) ==
    /\ revenue = "pending"
    /\ revenue' = decision
    /\ UNCHANGED <<used, now, task, log, asking, asked, billGhosts, requestFaults>>

\* A statement fails: what the request committed before stays.
BillingFails(q) ==
    /\ asking[q].step # "idle" /\ requestFaults < MaxRequestFaults
    /\ requestFaults' = requestFaults + 1
    /\ asking' = [asking EXCEPT ![q] = Quiet]
    /\ overtaken' = (overtaken \/ asking[q].step \in {"taskSaved", "logsBilled"})
    /\ UNCHANGED <<used, now, task, log, revenue, asked, timeGhosts, uneven, reopened>>

-----------------------------------------------------------------------------
BillingStep(q) ==
    \/ \E l \in Log : \/ SeePending(q, l)
                      \/ \E s \in {"in_progress", "paused", "completed"} : NewTimer(q, l, s) \/ ReadTimer(q, l, s)
    \/ InsertTimer(q) \/ CompareTimer(q) \/ WriteTimer(q)
    \/ \E wants \in Task : ReadTask(q, wants)
    \/ SaveTask(q) \/ BillLogs(q) \/ BillTask(q)
    \/ \E d \in {"approved", "rejected"} : ReviewTimer(q, d)
    \/ BillingFails(q)

BillingNext ==
    \/ Tick
    \/ \E d \in {"approved", "rejected"} : ReviewRevenue(d)
    \/ \E l \in Log : DeleteTimer(l)
    \/ \E q \in Request : BillingStep(q)

BillingSpec == BillingInit /\ [][BillingNext]_billVars

-----------------------------------------------------------------------------
\* A timer whose requests come one at a time, and only as its page offers them,
\* has recorded the time it ran: never more, and less only by what each of its
\* pauses drops of a second; but for the time its requests took to write what they
\* had read the clock for.
TrackedTimeFallsShort ==
    \A l \in Log \ uneven :
        LET timer == log[l]
            recorded == timer.spent * Second + (IF timer.status = "in_progress" THEN now - timer.since ELSE 0) IN
        timer.status # "none" =>
            /\ recorded <= ran[l] + delay[l]
            /\ ran[l] <= recorded + delay[l] + pauses[l] * (Second - 1)

\* At rest the task is billed one way: hours for a fixed price are not billed
\* too, and the price is due exactly when the task is closed; unless a change of
\* the task met another request or failed half way, or a billed timelog was
\* started again, be it before its review is written.
BilledOneWay ==
    Busy = {} /\ ~overtaken =>
        /\ revenue # "none" <=> task = [kind |-> "FIXED", done |-> TRUE]
        /\ task.kind = "FIXED" => \A l \in Log \ reopened : log[l].bill = "none"

=============================================================================
