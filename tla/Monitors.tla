------------------------------- MODULE Monitors -------------------------------
(***************************************************************************)
(* The monitors of one tenant: HealthchecksService.  A probe reads the     *)
(* row, asks the monitored server, saves the whole row and posts an alert  *)
(* when the status changed; update() also reads, waits and saves the whole *)
(* row, and remove() deletes it.  save() is the one of TypeORM: it reads   *)
(* the row again, writes the columns that differ, or inserts a row that is *)
(* gone.                                                                   *)
(*                                                                         *)
(* perTenant is TENANCY_ENABLED: probes are jobs, each one transaction     *)
(* that holds the lock of its row.  Otherwise one process keeps a timer    *)
(* for each active monitor, and a slow answer lets two probes overlap.     *)
(***************************************************************************)
EXTENDS Naturals, FiniteSets

CONSTANTS
    Prober,             \* job runners, or overlapping timer callbacks
    Author,             \* requests that change or remove a monitor
    Monitor,
    NoMonitor,
    MonitorLimit,       \* HEALTHCHECK_TENANT_LIMIT
    MaxWindows,         \* bound on time, in intervals of a monitor
    MaxChanges,         \* bound on requests
    MaxMonitorFaults    \* bound on failures and restarts

ASSUME MonitorAssumption ==
    /\ NoMonitor \notin Monitor
    /\ MonitorLimit \in Nat /\ MaxWindows \in Nat
    /\ MaxChanges \in Nat /\ MaxMonitorFaults \in Nat

\* A row of healthchecks; checked is the window of last_checked_at, 0 for never.
Row == [active : BOOLEAN, status : {"unknown", "ok", "fail"}, checked : Nat]
Column == {"active", "status", "checked"}
NewMonitor(b) == [active |-> b, status |-> "unknown", checked |-> 0]

VARIABLES
    perTenant, window,
    monitors,       \* the rows there are
    row,            \* their contents
    created,        \* identifiers that have been given out
    timers,         \* not per tenant: this.timers
    probeJobs,      \* per tenant: rows of tenant_jobs, monitor and window
    probed,         \* those that are completed
    probe,          \* what each prober does
    change,         \* what each author does
    changes,
    alarm,          \* the last alert in the chat
    blurred,        \* monitors whose alerts may disagree with their status
    unwatched,      \* monitors that may lack their timer
    returned,       \* removed monitors that came back, and by whose save
    monitorFaults

tableVars == <<monitors, row, created>>
jobVars == <<probeJobs, probed>>
excuseVars == <<blurred, unwatched, returned>>
monitorVars == <<perTenant, window, tableVars, timers, jobVars, probe, change, changes,
                 alarm, excuseVars, monitorFaults>>

Probing == [step : {"idle", "listed", "asked", "answered", "saving", "alerting"},
            of : Monitor \cup {NoMonitor}, due : SUBSET Monitor,
            copy : Row, prev : {"unknown", "ok", "fail"}, diff : SUBSET Column]
Changing == [step : {"idle", "read", "stopped", "saving", "removing"},
             of : Monitor \cup {NoMonitor}, copy : Row, diff : SUBSET Column]

MonitorTypeOK ==
    /\ perTenant \in BOOLEAN /\ window \in Nat
    /\ monitors \subseteq created /\ created \subseteq Monitor
    /\ row \in [Monitor -> Row]
    /\ timers \subseteq Monitor
    /\ probeJobs \subseteq Monitor \X Nat /\ probed \subseteq probeJobs
    /\ probe \in [Prober -> Probing]
    /\ change \in [Author -> Changing]
    /\ changes \in Nat /\ monitorFaults \in Nat
    /\ alarm \in [Monitor -> {"none", "ok", "fail"}]
    /\ blurred \subseteq Monitor /\ unwatched \subseteq Monitor
    /\ returned \subseteq Monitor \X {"probe", "change"}

Resting == [step |-> "idle", of |-> NoMonitor, due |-> {}, copy |-> NewMonitor(FALSE),
            prev |-> "unknown", diff |-> {}]
Done == [step |-> "idle", of |-> NoMonitor, copy |-> NewMonitor(FALSE), diff |-> {}]

MonitorInit ==
    /\ perTenant \in BOOLEAN
    /\ window = 1
    /\ monitors = {} /\ created = {}
    /\ row = [m \in Monitor |-> NewMonitor(FALSE)]
    /\ timers = {}
    /\ probeJobs = {} /\ probed = {}
    /\ probe = [p \in Prober |-> Resting]
    /\ change = [a \in Author |-> Done]
    /\ changes = 0
    /\ alarm = [m \in Monitor |-> "none"]
    /\ blurred = {} /\ unwatched = {} /\ returned = {}
    /\ monitorFaults = 0

\* Mutant: the job does not lock its row.
NeverLocked(m) == FALSE

\* Per tenant, a probe holds the lock of its row until it commits.
MonitorLocked(m) == perTenant /\ \E p \in Prober : probe[p].step = "asked" /\ probe[p].of = m

\* The columns a save of `copy` will write: none of a row that is gone.
Differs(m, copy) == {c \in Column : m \in monitors /\ copy[c] # row[m][c]}
Written(m, copy, diff) == [c \in Column |-> IF c \in diff THEN copy[c] ELSE row[m][c]]

\* Only the schedule of a tenant reads last_checked_at.
WindowPasses ==
    /\ perTenant /\ window < MaxWindows
    /\ window' = window + 1
    /\ UNCHANGED <<perTenant, tableVars, timers, jobVars, probe, change, changes, alarm, excuseVars, monitorFaults>>

-----------------------------------------------------------------------------
(***************************************************************************)
(* Requests.                                                               *)
(***************************************************************************)

\* Per tenant, an advisory lock makes counting and inserting one step.
CreateMonitor(m, b) ==
    /\ m \notin created
    /\ perTenant => Cardinality(monitors) < MonitorLimit
    /\ created' = created \cup {m}
    /\ monitors' = monitors \cup {m}
    /\ row' = [row EXCEPT ![m] = NewMonitor(b)]
    /\ timers' = IF b /\ ~perTenant THEN timers \cup {m} ELSE timers
    /\ UNCHANGED <<perTenant, window, jobVars, probe, change, changes, alarm, excuseVars, monitorFaults>>

\* findOne; the request keeps is_active or sets it.
ReadForChange(a, m, b) ==
    /\ change[a].step = "idle" /\ changes < MaxChanges
    /\ m \in monitors
    /\ changes' = changes + 1
    /\ change' = [change EXCEPT ![a] = [Done EXCEPT !.step = "read", !.of = m,
                                                   !.copy = [row[m] EXCEPT !.active = b]]]
    /\ UNCHANGED <<perTenant, window, tableVars, timers, jobVars, probe, alarm, excuseVars, monitorFaults>>

StopTimer(a) ==
    /\ change[a].step = "read"
    /\ change' = [change EXCEPT ![a].step = "stopped"]
    /\ timers' = timers \ {change[a].of}
    /\ UNCHANGED <<perTenant, window, tableVars, jobVars, probe, changes, alarm, excuseVars, monitorFaults>>

\* save() compares with the row as it is now, or inserts.
SaveReads(a) ==
    LET m == change[a].of
        copy == change[a].copy IN
    /\ change[a].step = "stopped"
    /\ IF m \in monitors
       THEN /\ change' = [change EXCEPT ![a].step = "saving", ![a].diff = Differs(m, copy)]
            /\ UNCHANGED <<monitors, row, timers, blurred, returned>>
       ELSE /\ monitors' = monitors \cup {m}
            /\ row' = [row EXCEPT ![m] = copy]
            /\ timers' = IF copy.active /\ ~perTenant THEN timers \cup {m} ELSE timers
            /\ returned' = returned \cup {<<m, "change">>}
            /\ blurred' = blurred \cup {m}
            /\ change' = [change EXCEPT ![a] = Done]
    /\ UNCHANGED <<perTenant, window, created, jobVars, probe, changes, alarm, unwatched, monitorFaults>>

\* Mutant: an update leaves the timer to the next restart.
NoTimer(a) == timers

\* startTimer when the saved monitor is active.
TimersAfter(a) ==
    IF change[a].copy.active /\ ~perTenant THEN timers \cup {change[a].of} ELSE timers

\* UPDATE waits for the lock; a status that a probe saved meanwhile is undone.
SaveWrites(a) ==
    LET m == change[a].of IN
    /\ change[a].step = "saving"
    /\ ~MonitorLocked(m)
    /\ row' = IF m \in monitors
              THEN [row EXCEPT ![m] = Written(m, change[a].copy, change[a].diff)] ELSE row
    /\ blurred' = IF "status" \in change[a].diff THEN blurred \cup {m} ELSE blurred
    /\ timers' = TimersAfter(a)
    /\ change' = [change EXCEPT ![a] = Done]
    /\ UNCHANGED <<perTenant, window, monitors, created, jobVars, probe, changes, alarm,
                   unwatched, returned, monitorFaults>>

RemoveReads(a, m) ==
    /\ change[a].step = "idle" /\ changes < MaxChanges
    /\ m \in created
    /\ changes' = changes + 1
    /\ timers' = timers \ {m}
    /\ change' = [change EXCEPT ![a] = [Done EXCEPT !.step = "removing", !.of = m]]
    /\ UNCHANGED <<perTenant, window, tableVars, jobVars, probe, alarm, excuseVars, monitorFaults>>

RemoveMonitor(a) ==
    /\ change[a].step = "removing"
    /\ ~MonitorLocked(change[a].of)
    /\ monitors' = monitors \ {change[a].of}
    /\ change' = [change EXCEPT ![a] = Done]
    /\ UNCHANGED <<perTenant, window, row, created, timers, jobVars, probe, changes, alarm, excuseVars, monitorFaults>>

\* The statement of a request fails: the timer it stopped stays stopped.
ChangeFails(a) ==
    /\ change[a].step # "idle" /\ monitorFaults < MaxMonitorFaults
    /\ monitorFaults' = monitorFaults + 1
    /\ unwatched' = IF change[a].step = "read" THEN unwatched ELSE unwatched \cup {change[a].of}
    /\ change' = [change EXCEPT ![a] = Done]
    /\ UNCHANGED <<perTenant, window, tableVars, timers, jobVars, probe, changes, alarm, blurred, returned>>

-----------------------------------------------------------------------------
(***************************************************************************)
(* Probes as jobs of the tenant.                                           *)
(***************************************************************************)
Due(m) == row[m].active /\ row[m].checked < window

ListDue(p) ==
    LET due == {m \in monitors : Due(m) /\ \A j \in probeJobs \ probed : j[1] # m} IN
    /\ perTenant /\ probe[p].step = "idle" /\ due # {}
    /\ probe' = [probe EXCEPT ![p].step = "listed", ![p].due = due]
    /\ UNCHANGED <<perTenant, window, tableVars, timers, jobVars, change, changes, alarm, excuseVars, monitorFaults>>

\* The key of a job is the monitor and the window; a second one is dropped.
EnqueueDue(p) ==
    /\ probe[p].step = "listed"
    /\ probeJobs' = probeJobs \cup (probe[p].due \X {window})
    /\ probe' = [probe EXCEPT ![p] = Resting]
    /\ UNCHANGED <<perTenant, window, tableVars, timers, probed, change, changes, alarm, excuseVars, monitorFaults>>

\* runTenantCheck: the row is locked, or there is nothing to do.
TakeProbe(p, j) ==
    LET m == j[1] IN
    /\ perTenant /\ probe[p].step = "idle" /\ j \in probeJobs \ probed
    /\ IF m \in monitors /\ Due(m) /\ ~MonitorLocked(m)
       THEN /\ probe' = [probe EXCEPT ![p] = [Resting EXCEPT !.step = "asked", !.of = m,
                                                           !.copy = row[m], !.prev = row[m].status]]
            /\ probed' = probed \cup {j}
       ELSE /\ probed' = probed \cup {j}
            /\ UNCHANGED probe
    /\ UNCHANGED <<perTenant, window, tableVars, timers, probeJobs, change, changes, alarm, excuseVars, monitorFaults>>

\* Mutant: a monitor that fails at its first probe raises no alarm.
OnlyAfterOk(prev, status) ==
    (status = "fail" /\ prev = "ok") \/ (status = "ok" /\ prev = "fail")

\* What runCheck tells the chat about.
AlertDue(prev, status) ==
    (status = "fail" /\ prev # "fail") \/ (status = "ok" /\ prev = "fail")

Answer(copy, status) == [copy EXCEPT !.status = status, !.checked = window]

\* Per tenant, row, alert and job commit together; the alert may have been
\* dropped at its savepoint, or for want of a sender.
CommitProbe(p, status) ==
    LET m == probe[p].of IN
    /\ perTenant /\ probe[p].step = "asked"
    /\ monitors' = monitors \cup {m}
    /\ returned' = IF m \in monitors THEN returned ELSE returned \cup {<<m, "probe">>}
    /\ row' = [row EXCEPT ![m] = Answer(probe[p].copy, status)]
    /\ probe' = [probe EXCEPT ![p] = Resting]
    /\ \/ /\ alarm' = IF AlertDue(probe[p].prev, status) THEN [alarm EXCEPT ![m] = status] ELSE alarm
          /\ UNCHANGED <<blurred, monitorFaults>>
       \/ /\ AlertDue(probe[p].prev, status) /\ monitorFaults < MaxMonitorFaults
          /\ monitorFaults' = monitorFaults + 1
          /\ blurred' = blurred \cup {m}
          /\ UNCHANGED alarm
    /\ UNCHANGED <<perTenant, window, created, timers, jobVars, change, changes, unwatched>>

\* The transaction is lost: the job is pending again.
ProbeLost(p, j) ==
    /\ perTenant /\ probe[p].step = "asked" /\ monitorFaults < MaxMonitorFaults
    /\ j \in probed /\ j[1] = probe[p].of
    /\ monitorFaults' = monitorFaults + 1
    /\ probed' = probed \ {j}
    /\ probe' = [probe EXCEPT ![p] = Resting]
    /\ UNCHANGED <<perTenant, window, tableVars, timers, probeJobs, change, changes, alarm, excuseVars>>

-----------------------------------------------------------------------------
(***************************************************************************)
(* Probes of the timers of one process.                                    *)
(***************************************************************************)
Overlaps(m) == \E p \in Prober : probe[p].of = m

TimerFires(p, m) ==
    /\ m \in timers /\ probe[p].step = "idle"
    /\ m \in monitors /\ row[m].active
    /\ probe' = [probe EXCEPT ![p] = [Resting EXCEPT !.step = "asked", !.of = m,
                                                   !.copy = row[m], !.prev = row[m].status]]
    /\ blurred' = IF Overlaps(m) THEN blurred \cup {m} ELSE blurred
    /\ UNCHANGED <<perTenant, window, tableVars, timers, jobVars, change, changes, alarm,
                   unwatched, returned, monitorFaults>>

ServerAnswers(p, status) ==
    /\ ~perTenant /\ probe[p].step = "asked"
    /\ probe' = [probe EXCEPT ![p].step = "answered", ![p].copy = Answer(@, status)]
    /\ UNCHANGED <<perTenant, window, tableVars, timers, jobVars, change, changes, alarm, excuseVars, monitorFaults>>

\* save() of the probe: a monitor removed meanwhile is inserted again.
ProbeSaves(p) ==
    LET m == probe[p].of IN
    /\ probe[p].step = "answered"
    /\ IF m \in monitors
       THEN /\ probe' = [probe EXCEPT ![p].step = "saving", ![p].diff = Differs(m, probe[p].copy)]
            /\ UNCHANGED <<monitors, row, blurred, unwatched, returned>>
       ELSE /\ probe' = [probe EXCEPT ![p].step = "alerting"]
            /\ monitors' = monitors \cup {m}
            /\ row' = [row EXCEPT ![m] = probe[p].copy]
            /\ returned' = returned \cup {<<m, "probe">>}
            /\ blurred' = blurred \cup {m}
            /\ unwatched' = unwatched \cup {m}
    /\ UNCHANGED <<perTenant, window, created, timers, jobVars, change, changes, alarm, monitorFaults>>

\* The probe writes the is_active it read: it may turn a monitor on again.
ProbeWrites(p) ==
    LET m == probe[p].of IN
    /\ probe[p].step = "saving"
    /\ row' = IF m \in monitors
              THEN [row EXCEPT ![m] = Written(m, probe[p].copy, probe[p].diff)] ELSE row
    /\ unwatched' = IF "active" \in probe[p].diff THEN unwatched \cup {m} ELSE unwatched
    /\ probe' = [probe EXCEPT ![p].step = "alerting"]
    /\ UNCHANGED <<perTenant, window, monitors, created, timers, jobVars, change, changes,
                   alarm, blurred, returned, monitorFaults>>

SendAlert(p) ==
    LET m == probe[p].of
        status == probe[p].copy.status IN
    /\ probe[p].step = "alerting"
    /\ probe' = [probe EXCEPT ![p] = Resting]
    /\ \/ /\ alarm' = IF AlertDue(probe[p].prev, status) THEN [alarm EXCEPT ![m] = status] ELSE alarm
          /\ UNCHANGED <<blurred, monitorFaults>>
       \/ /\ AlertDue(probe[p].prev, status) /\ monitorFaults < MaxMonitorFaults
          /\ monitorFaults' = monitorFaults + 1
          /\ blurred' = blurred \cup {m}
          /\ UNCHANGED alarm
    /\ UNCHANGED <<perTenant, window, tableVars, timers, jobVars, change, changes, unwatched, returned>>

\* The process ends and starts again: onModuleInit starts the timers.
RestartMonitors ==
    /\ ~perTenant /\ monitorFaults < MaxMonitorFaults
    /\ monitorFaults' = monitorFaults + 1
    /\ timers' = {m \in monitors : row[m].active}
    /\ probe' = [p \in Prober |-> Resting]
    /\ change' = [a \in Author |-> Done]
    /\ blurred' = blurred \cup {m \in Monitor : \E p \in Prober : probe[p].of = m /\ probe[p].step = "alerting"}
    /\ unwatched' = {}
    /\ UNCHANGED <<perTenant, window, tableVars, jobVars, changes, alarm, returned>>

-----------------------------------------------------------------------------
ProbeStep(p) ==
    \/ ListDue(p) \/ EnqueueDue(p)
    \/ \E j \in probeJobs : TakeProbe(p, j) \/ ProbeLost(p, j)
    \/ \E s \in {"ok", "fail"} : CommitProbe(p, s) \/ ServerAnswers(p, s)
    \/ \E m \in Monitor : TimerFires(p, m)
    \/ ProbeSaves(p) \/ ProbeWrites(p) \/ SendAlert(p)

ChangeStep(a) ==
    \/ \E m \in Monitor : RemoveReads(a, m) \/ \E b \in BOOLEAN : ReadForChange(a, m, b)
    \/ StopTimer(a) \/ SaveReads(a) \/ SaveWrites(a) \/ RemoveMonitor(a) \/ ChangeFails(a)

MonitorNext ==
    \/ WindowPasses \/ RestartMonitors
    \/ \E m \in Monitor, b \in BOOLEAN : CreateMonitor(m, b)
    \/ \E p \in Prober : ProbeStep(p)
    \/ \E a \in Author : ChangeStep(a)

MonitorSpec == MonitorInit /\ [][MonitorNext]_monitorVars

-----------------------------------------------------------------------------
\* A probe that runs as a job of a tenant never brings back a monitor that was
\* removed while the server was being asked: the job holds the row's lock.
NoProbeRevives ==
    perTenant => \A m \in Monitor : <<m, "probe">> \notin returned

\* The last alert in the chat says that a monitor fails exactly when its row
\* says so, unless an alert was lost, probes overlapped, or an update wrote the
\* status it had read back.
AlertsMatchStatus ==
    \A m \in monitors \ blurred :
        (\A p \in Prober : probe[p].of = m => probe[p].step # "alerting")
            => (row[m].status = "fail" <=> alarm[m] = "fail")

\* Without tenants, an active monitor has its timer, unless a request for it is
\* under way or failed, or a probe wrote back what a request had changed.
ActiveIsWatched ==
    ~perTenant =>
        \A m \in monitors \ (timers \cup unwatched) :
            row[m].active => \E a \in Author : change[a].of = m

=============================================================================
