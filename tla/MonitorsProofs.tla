--------------------------- MODULE MonitorsProofs ----------------------------
(***************************************************************************)
(* Proofs about Monitors, for any monitors, probers, authors, limits and   *)
(* faults, with TENANCY_ENABLED and without.                               *)
(*                                                                         *)
(* AlertsMatchStatus and ActiveIsWatched are about rows, and probes and    *)
(* requests write back copies of them.  MonitorInv adds what those know: a *)
(* probe's status of before is the row's until it saves and the chat's     *)
(* afterwards, unless its monitor is blurred (ProbeKnows, ProbedOnce); and *)
(* who stopped a timer, or will write a row that needs one, will set it    *)
(* (Minds).                                                                *)
(***************************************************************************)
EXTENDS Monitors, TLAPS

\* The steps of a prober that is about a monitor.
AtServer == {"asked", "answered", "saving", "alerting"}

\* What a prober has in hand.
ProbeFits(b) ==
    /\ b.step \notin AtServer => b.of = NoMonitor
    /\ b.step \in AtServer => b.of \in created
    /\ perTenant => b.step \in {"idle", "listed", "asked"}
    /\ perTenant /\ b.step = "asked" => b.of \in monitors

\* A request is about a monitor that was created.
ChangeFits(c) == c.step # "idle" => c.of \in created

\* What probes, requests and timers look like, per tenant and without.
MonShape ==
    /\ \A p \in Prober : ProbeFits(probe[p])
    /\ \A a \in Author : ChangeFits(change[a])
    /\ perTenant => timers = {}
    /\ \A m \in Monitor \ created : alarm[m] # "fail"

\* What a prober knows while nothing blurs its monitor: the status before its probe
\* is the row's until it saves, and afterwards the last alert's.
ProbeKnows(b) ==
    /\ b.step \in {"answered", "saving", "alerting"} => b.copy.status \in {"ok", "fail"}
    /\ b.of \in monitors \ blurred =>
        /\ b.step \in {"asked", "answered", "saving"} => b.prev = row[b.of].status
        /\ b.step = "saving" => "status" \in b.diff \/ b.copy.status = row[b.of].status
        /\ b.step = "alerting" =>
            /\ b.copy.status = row[b.of].status
            /\ b.prev = "fail" <=> alarm[b.of] = "fail"

\* Two probes of one monitor blur it.
ProbedOnce ==
    \A p, r \in Prober : p # r /\ probe[p].of = probe[r].of /\ probe[p].of # NoMonitor => probe[p].of \in blurred

\* The invariant of the alerts.
AlertInv ==
    /\ \A p \in Prober : ProbeKnows(probe[p])
    /\ ProbedOnce
    /\ AlertsMatchStatus

\* A request that has yet to see to the timer: it will save and set it, make the row
\* inactive, or remove it.
Minds(c) ==
    \/ c.step \in {"stopped", "removing"}
    \/ c.step = "saving" /\ (c.copy.active \/ "active" \in c.diff)

\* The invariant of the timers: who lacks one has a request that minds it.
WatchInv ==
    ~perTenant =>
        \A m \in monitors \ (timers \cup unwatched) :
            row[m].active => \E a \in Author : change[a].of = m /\ Minds(change[a])


\* Prober p now does b; the others go on with what they did.
ProbeDoes(p, b) ==
    /\ probe' \in [Prober -> Probing]
    /\ probe'[p] = b
    /\ \A r \in Prober \ {p} : probe'[r] = probe[r]

\* Author a now does c.
ChangeDoes(a, c) ==
    /\ change' \in [Author -> Changing]
    /\ change'[a] = c
    /\ \A r \in Author \ {a} : change'[r] = change[r]

\* The row of m is now r.
RowIs(m, r) ==
    /\ row' \in [Monitor -> Row]
    /\ row'[m] = r
    /\ \A k \in Monitor \ {m} : row'[k] = row[k]

\* The columns of a row.
LEMMA RowFacts ==
    ASSUME NEW r \in Row
    PROVE  r.active \in BOOLEAN /\ r.status \in {"unknown", "ok", "fail"} /\ r.checked \in Nat
  BY DEF Row

\* What a prober or an author has in hand.
LEMMA HandFacts ==
    /\ \A b \in Probing : /\ b.of \in Monitor \cup {NoMonitor} /\ b.due \subseteq Monitor /\ b.copy \in Row
                          /\ b.prev \in {"unknown", "ok", "fail"} /\ b.diff \subseteq Column
                          /\ b.step \in {"idle", "listed"} \cup AtServer
    /\ \A c \in Changing : c.of \in Monitor \cup {NoMonitor} /\ c.copy \in Row /\ c.diff \subseteq Column
  BY DEF Probing, Changing, AtServer

\* Who does nothing.
LEMMA RestFacts ==
    /\ NewMonitor(FALSE) \in Row /\ NewMonitor(TRUE) \in Row
    /\ \A b \in BOOLEAN : NewMonitor(b) \in Row /\ NewMonitor(b).active = b /\ NewMonitor(b).status = "unknown"
    /\ Resting \in Probing /\ Resting.step = "idle" /\ Resting.of = NoMonitor
    /\ Done \in Changing /\ Done.step = "idle" /\ Done.of = NoMonitor
<1>1. \A b \in BOOLEAN : NewMonitor(b) \in Row /\ NewMonitor(b).active = b /\ NewMonitor(b).status = "unknown"
  BY DEF NewMonitor, Row
<1> DEFINE n == NewMonitor(FALSE)
<1>2. n \in Row
  BY <1>1
<1>3. Resting = [step |-> "idle", of |-> NoMonitor, due |-> {}, copy |-> n, prev |-> "unknown", diff |-> {}]
  BY DEF Resting
<1>4. Done = [step |-> "idle", of |-> NoMonitor, copy |-> n, diff |-> {}]
  BY DEF Done
<1> HIDE DEF n
<1>5. Resting \in Probing /\ Resting.step = "idle" /\ Resting.of = NoMonitor
  BY <1>2, <1>3 DEF Probing
<1>6. Done \in Changing /\ Done.step = "idle" /\ Done.of = NoMonitor
  BY <1>2, <1>4 DEF Changing
<1>. QED
  BY <1>1, <1>5, <1>6

\* What a save writes: the columns of the copy that differed.
LEMMA WrittenFacts ==
    ASSUME NEW m \in Monitor, row \in [Monitor -> Row], NEW k \in Row, NEW d \in SUBSET Column
    PROVE  /\ Written(m, k, d) \in Row
           /\ Written(m, k, d).status = IF "status" \in d THEN k.status ELSE row[m].status
           /\ Written(m, k, d).active = IF "active" \in d THEN k.active ELSE row[m].active
<1> DEFINE w == Written(m, k, d)
           r == row[m]
<1>1. r \in Row
  OBVIOUS
<1> HIDE DEF r
<1>2. /\ w["active"] = IF "active" \in d THEN k["active"] ELSE r["active"]
      /\ w["status"] = IF "status" \in d THEN k["status"] ELSE r["status"]
      /\ w["checked"] = IF "checked" \in d THEN k["checked"] ELSE r["checked"]
      /\ w = [c \in Column |-> w[c]]
  BY DEF Written, Column, r
<1> HIDE DEF w
<1>3. w = [active |-> w["active"], status |-> w["status"], checked |-> w["checked"]]
  BY <1>2 DEF Column
<1>4. w.active = w["active"] /\ w.status = w["status"] /\ w.checked = w["checked"]
  OBVIOUS
<1>5. w \in Row
  BY <1>1, <1>2, <1>3 DEF Row
<1>. QED
  BY <1>2, <1>5 DEF w, r

\* The server's answer becomes the status of the copy.
LEMMA AnswerFacts ==
    ASSUME NEW k \in Row, NEW s \in {"ok", "fail"}, window \in Nat
    PROVE  Answer(k, s) \in Row /\ Answer(k, s).status = s
  BY DEF Answer, Row

\* A row that is replaced.
LEMMA RowBecomes ==
    ASSUME row \in [Monitor -> Row], NEW m \in Monitor, NEW r \in Row, row' = [row EXCEPT ![m] = r]
    PROVE  RowIs(m, r)
  BY DEF RowIs

-----------------------------------------------------------------------------

\* A prober takes its next step.
LEMMA ProbeBecomes ==
    ASSUME probe \in [Prober -> Probing], NEW p \in Prober, NEW b \in Probing, probe' = [probe EXCEPT ![p] = b]
    PROVE  ProbeDoes(p, b)
  BY DEF ProbeDoes

\* An author takes the next step of a request.
LEMMA ChangeBecomes ==
    ASSUME change \in [Author -> Changing], NEW a \in Author, NEW c \in Changing, change' = [change EXCEPT ![a] = c]
    PROVE  ChangeDoes(a, c)
  BY DEF ChangeDoes

\* A request that starts has its monitor.
LEMMA ReadForChangeFacts ==
    ASSUME MonitorTypeOK, NEW a \in Author, NEW m \in Monitor, NEW b \in BOOLEAN, ReadForChange(a, m, b)
    PROVE  \E c \in Changing : ChangeDoes(a, c) /\ c.step = "read" /\ c.of = m
<1> DEFINE k == [row[m] EXCEPT !.active = b]
           c == [Done EXCEPT !.step = "read", !.of = m, !.copy = k]
<1>1. row[m] \in Row /\ change \in [Author -> Changing]
  BY DEF MonitorTypeOK
<1>2. change' = [change EXCEPT ![a] = c]
  BY DEF ReadForChange
<1>3. k \in Row
  BY <1>1 DEF Row
<1> HIDE DEF k
<1>4. c \in Changing /\ c.step = "read" /\ c.of = m
  BY <1>3, RestFacts DEF Changing
<1> HIDE DEF c
<1>. QED
  BY <1>1, <1>2, <1>4, ChangeBecomes

\* A removal has read its monitor.
LEMMA RemoveReadsFacts ==
    ASSUME MonitorTypeOK, NEW a \in Author, NEW m \in Monitor, RemoveReads(a, m)
    PROVE  \E c \in Changing : ChangeDoes(a, c) /\ c.step = "removing" /\ c.of = m
<1> DEFINE c == [Done EXCEPT !.step = "removing", !.of = m]
<1>1. change \in [Author -> Changing]
  BY DEF MonitorTypeOK
<1>2. change' = [change EXCEPT ![a] = c]
  BY DEF RemoveReads
<1>4. c \in Changing /\ c.step = "removing" /\ c.of = m
  BY RestFacts DEF Changing
<1> HIDE DEF c
<1>. QED
  BY <1>1, <1>2, <1>4, ChangeBecomes

\* An update that has stopped the timer is still about its monitor.
LEMMA StopTimerFacts ==
    ASSUME MonitorTypeOK, NEW a \in Author, StopTimer(a)
    PROVE  \E c \in Changing : ChangeDoes(a, c) /\ c.step = "stopped" /\ c.of = change[a].of
<1> DEFINE c == [change[a] EXCEPT !.step = "stopped"]
<1>1. change \in [Author -> Changing] /\ change[a] \in Changing
  BY DEF MonitorTypeOK
<1>2. change' = [change EXCEPT ![a] = c]
  BY <1>1 DEF StopTimer
<1>4. c \in Changing /\ c.step = "stopped" /\ c.of = change[a].of
  BY <1>1 DEF Changing
<1> HIDE DEF c
<1>. QED
  BY <1>1, <1>2, <1>4, ChangeBecomes

\* save() has compared the copy with the row.
LEMMA SaveReadsFacts ==
    ASSUME MonitorTypeOK, NEW a \in Author, SaveReads(a), change[a].of \in monitors
    PROVE  \E c \in Changing :
              /\ ChangeDoes(a, c) /\ c.step = "saving" /\ c.of = change[a].of
              /\ c.copy = change[a].copy /\ c.diff = Differs(change[a].of, change[a].copy)
<1> DEFINE d == Differs(change[a].of, change[a].copy)
           c == [change[a] EXCEPT !.step = "saving", !.diff = d]
<1>1. change \in [Author -> Changing] /\ change[a] \in Changing
  BY DEF MonitorTypeOK
<1>2. change' = [change EXCEPT ![a].step = "saving", ![a].diff = d]
  BY DEF SaveReads
<1>3. d \subseteq Column
  BY DEF Differs
<1>5. d = Differs(change[a].of, change[a].copy)
  OBVIOUS
<1> HIDE DEF d
<1>6. change' = [change EXCEPT ![a] = c]
  BY <1>1, <1>2
<1>4. c \in Changing /\ c.step = "saving" /\ c.of = change[a].of /\ c.copy = change[a].copy /\ c.diff = d
  BY <1>1, <1>3 DEF Changing
<1> HIDE DEF c
<1>. QED
  BY <1>1, <1>4, <1>5, <1>6, ChangeBecomes

-----------------------------------------------------------------------------
\* A prober that asks the server has read the row.
LEMMA AskFacts ==
    ASSUME MonitorTypeOK, NEW p \in Prober, NEW m \in Monitor,
           probe' = [probe EXCEPT ![p] = [Resting EXCEPT !.step = "asked", !.of = m,
                                                     !.copy = row[m], !.prev = row[m].status]]
    PROVE  \E b \in Probing : ProbeDoes(p, b) /\ b.step = "asked" /\ b.of = m /\ b.prev = row[m].status
<1> DEFINE r == row[m]
           b == [Resting EXCEPT !.step = "asked", !.of = m, !.copy = r, !.prev = r.status]
<1>1. probe \in [Prober -> Probing] /\ r \in Row /\ r.status \in {"unknown", "ok", "fail"}
  BY RowFacts DEF MonitorTypeOK
<1>2. probe' = [probe EXCEPT ![p] = b]
  OBVIOUS
<1>5. r.status = row[m].status
  OBVIOUS
<1> HIDE DEF r
<1>4. b \in Probing /\ b.step = "asked" /\ b.of = m /\ b.prev = r.status
  BY <1>1, RestFacts DEF Probing
<1> HIDE DEF b
<1>. QED
  BY <1>1, <1>2, <1>4, <1>5, ProbeBecomes

\* A prober that has listed what is due is about no other monitor than before.
LEMMA ListDueFacts ==
    ASSUME MonitorTypeOK, NEW p \in Prober, ListDue(p)
    PROVE  \E b \in Probing : ProbeDoes(p, b) /\ b.step = "listed" /\ b.of = probe[p].of
<1> DEFINE d == {m \in monitors : Due(m) /\ \A j \in probeJobs \ probed : j[1] # m}
           b == [probe[p] EXCEPT !.step = "listed", !.due = d]
<1>1. probe \in [Prober -> Probing] /\ probe[p] \in Probing /\ d \subseteq Monitor
  BY DEF MonitorTypeOK
<1>2. probe' = [probe EXCEPT ![p].step = "listed", ![p].due = d]
  BY DEF ListDue
<1> HIDE DEF d
<1>3. probe' = [probe EXCEPT ![p] = b]
  BY <1>1, <1>2
<1>4. b \in Probing /\ b.step = "listed" /\ b.of = probe[p].of
  BY <1>1 DEF Probing
<1> HIDE DEF b
<1>. QED
  BY <1>1, <1>3, <1>4, ProbeBecomes

\* The answered probe remembers the status before it.
LEMMA ServerAnswersFacts ==
    ASSUME MonitorTypeOK, NEW p \in Prober, NEW s \in {"ok", "fail"}, ServerAnswers(p, s)
    PROVE  \E b \in Probing : /\ ProbeDoes(p, b) /\ b.step = "answered" /\ b.of = probe[p].of
                              /\ b.prev = probe[p].prev /\ b.copy.status = s
<1> DEFINE k == Answer(probe[p].copy, s)
           b == [probe[p] EXCEPT !.step = "answered", !.copy = k]
<1>1. probe \in [Prober -> Probing] /\ probe[p] \in Probing /\ k \in Row /\ k.status = s
  BY HandFacts, AnswerFacts DEF MonitorTypeOK
<1>2. probe' = [probe EXCEPT ![p].step = "answered", ![p].copy = k]
  BY <1>1 DEF ServerAnswers
<1> HIDE DEF k
<1>3. probe' = [probe EXCEPT ![p] = b]
  BY <1>1, <1>2
<1>4. b \in Probing /\ b.step = "answered" /\ b.of = probe[p].of /\ b.prev = probe[p].prev /\ b.copy = k
  BY <1>1 DEF Probing
<1> HIDE DEF b
<1>. QED
  BY <1>1, <1>3, <1>4, ProbeBecomes

\* The save of a probe has compared.
LEMMA ProbeSavesFacts ==
    ASSUME MonitorTypeOK, NEW p \in Prober, ProbeSaves(p), probe[p].of \in monitors
    PROVE  \E b \in Probing : /\ ProbeDoes(p, b) /\ b.step = "saving" /\ b.of = probe[p].of
                              /\ b.prev = probe[p].prev /\ b.copy = probe[p].copy
                              /\ b.diff = Differs(probe[p].of, probe[p].copy)
<1> DEFINE d == Differs(probe[p].of, probe[p].copy)
           b == [probe[p] EXCEPT !.step = "saving", !.diff = d]
<1>1. probe \in [Prober -> Probing] /\ probe[p] \in Probing
  BY DEF MonitorTypeOK
<1>2. probe' = [probe EXCEPT ![p].step = "saving", ![p].diff = d]
  BY DEF ProbeSaves
<1>3. d \subseteq Column
  BY DEF Differs
<1>5. d = Differs(probe[p].of, probe[p].copy)
  OBVIOUS
<1> HIDE DEF d
<1>6. probe' = [probe EXCEPT ![p] = b]
  BY <1>1, <1>2
<1>4. /\ b \in Probing /\ b.step = "saving" /\ b.of = probe[p].of /\ b.prev = probe[p].prev
      /\ b.copy = probe[p].copy /\ b.diff = d
  BY <1>1, <1>3 DEF Probing
<1> HIDE DEF b
<1>. QED
  BY <1>1, <1>4, <1>5, <1>6, ProbeBecomes

\* A probe that has saved goes on to its alert.
LEMMA AlertsNext ==
    ASSUME MonitorTypeOK, NEW p \in Prober, probe' = [probe EXCEPT ![p].step = "alerting"]
    PROVE  \E b \in Probing : /\ ProbeDoes(p, b) /\ b.step = "alerting" /\ b.of = probe[p].of
                              /\ b.prev = probe[p].prev /\ b.copy = probe[p].copy
<1> DEFINE b == [probe[p] EXCEPT !.step = "alerting"]
<1>1. probe \in [Prober -> Probing] /\ probe[p] \in Probing
  BY DEF MonitorTypeOK
<1>2. probe' = [probe EXCEPT ![p] = b]
  BY <1>1
<1>3. b \in Probing /\ b.step = "alerting" /\ b.of = probe[p].of /\ b.prev = probe[p].prev /\ b.copy = probe[p].copy
  BY <1>1 DEF Probing
<1> HIDE DEF b
<1>. QED
  BY <1>1, <1>2, <1>3, ProbeBecomes


\* Who is about a monitor is about one that was created.
LEMMA OfCreated ==
    ASSUME MonitorTypeOK, MonShape
    PROVE  /\ \A p \in Prober : probe[p].step \in AtServer =>
                  probe[p].of \in created /\ probe[p].of \in Monitor /\ probe[p].of # NoMonitor
           /\ \A a \in Author : change[a].step # "idle" => change[a].of \in created /\ change[a].of \in Monitor
           /\ \A m \in Monitor : m # NoMonitor
  BY MonitorAssumption DEF MonitorTypeOK, MonShape, ProbeFits, ChangeFits

\* A job is about a monitor.
LEMMA JobMonitor ==
    ASSUME MonitorTypeOK, NEW j \in probeJobs
    PROVE  j[1] \in Monitor
  BY DEF MonitorTypeOK

\* Every step keeps the types.
LEMMA MonitorTypeStep == MonitorTypeOK /\ MonShape /\ [MonitorNext]_monitorVars => MonitorTypeOK'
<1> SUFFICES ASSUME MonitorTypeOK, MonShape, [MonitorNext]_monitorVars PROVE MonitorTypeOK'
  OBVIOUS
<1>0. /\ row \in [Monitor -> Row] /\ probe \in [Prober -> Probing] /\ change \in [Author -> Changing]
      /\ window \in Nat /\ changes \in Nat /\ monitorFaults \in Nat
      /\ window + 1 \in Nat /\ changes + 1 \in Nat /\ monitorFaults + 1 \in Nat
  BY DEF MonitorTypeOK
<1>1. ASSUME NEW p \in Prober, probe' = [probe EXCEPT ![p] = Resting] PROVE ProbeDoes(p, Resting)
  BY <1>0, <1>1, ProbeBecomes, RestFacts
<1>2. ASSUME NEW a \in Author, change' = [change EXCEPT ![a] = Done] PROVE ChangeDoes(a, Done)
  BY <1>0, <1>2, ChangeBecomes, RestFacts
<1>3. CASE WindowPasses
  BY <1>0, <1>3 DEF WindowPasses, tableVars, jobVars, excuseVars, MonitorTypeOK
<1>4. CASE RestartMonitors
  <2>1. probe' \in [Prober -> Probing] /\ change' \in [Author -> Changing]
    BY <1>4, RestFacts DEF RestartMonitors
  <2>2. timers' \subseteq Monitor /\ blurred' \subseteq Monitor /\ unwatched' \subseteq Monitor
    BY <1>4 DEF RestartMonitors, MonitorTypeOK
  <2>3. monitorFaults' \in Nat
    BY <1>0, <1>4 DEF RestartMonitors
  <2>. QED
    BY <1>4, <2>1, <2>2, <2>3 DEF RestartMonitors, tableVars, jobVars, MonitorTypeOK
<1>5. ASSUME NEW m \in Monitor, NEW b \in BOOLEAN, CreateMonitor(m, b) PROVE MonitorTypeOK'
  <2>1. row' \in [Monitor -> Row]
    BY <1>0, <1>5, RowBecomes, RestFacts DEF CreateMonitor, RowIs
  <2>2. monitors' \subseteq created' /\ created' \subseteq Monitor /\ timers' \subseteq Monitor
    BY <1>5 DEF CreateMonitor, MonitorTypeOK
  <2>. QED
    BY <1>5, <2>1, <2>2 DEF CreateMonitor, jobVars, excuseVars, MonitorTypeOK
<1>6. ASSUME NEW a \in Author, NEW m \in Monitor, NEW b \in BOOLEAN, ReadForChange(a, m, b) PROVE MonitorTypeOK'
  <2>1. change' \in [Author -> Changing]
    BY <1>6, ReadForChangeFacts DEF ChangeDoes
  <2>. QED
    BY <1>0, <1>6, <2>1 DEF ReadForChange, tableVars, jobVars, excuseVars, MonitorTypeOK
<1>7. ASSUME NEW a \in Author, StopTimer(a) PROVE MonitorTypeOK'
  <2>1. change' \in [Author -> Changing]
    BY <1>7, StopTimerFacts DEF ChangeDoes
  <2>2. timers' \subseteq Monitor
    BY <1>7 DEF StopTimer, MonitorTypeOK
  <2>. QED
    BY <1>7, <2>1, <2>2 DEF StopTimer, tableVars, jobVars, excuseVars, MonitorTypeOK
<1>8. ASSUME NEW a \in Author, SaveReads(a) PROVE MonitorTypeOK'
  <2> DEFINE m == change[a].of
             k == change[a].copy
  <2>1. m \in created /\ m \in Monitor /\ k \in Row
    BY <1>0, <1>8, OfCreated, HandFacts DEF SaveReads
  <2>2. CASE m \in monitors
    <3>1. change' \in [Author -> Changing]
      BY <1>8, <2>2, SaveReadsFacts DEF ChangeDoes
    <3>. QED
      BY <1>8, <2>2, <3>1 DEF SaveReads, jobVars, MonitorTypeOK
  <2>3. CASE m \notin monitors
    <3>1. /\ monitors' = monitors \cup {m} /\ row' = [row EXCEPT ![m] = k]
          /\ timers' \subseteq timers \cup {m} /\ returned' = returned \cup {<<m, "change">>}
          /\ blurred' = blurred \cup {m} /\ change' = [change EXCEPT ![a] = Done]
          /\ UNCHANGED <<perTenant, window, created, probeJobs, probed, probe, changes, alarm, unwatched, monitorFaults>>
      BY <1>8, <2>3 DEF SaveReads, jobVars
    <3> HIDE DEF m, k
    <3>2. row' \in [Monitor -> Row] /\ change' \in [Author -> Changing]
      BY <1>0, <1>2, <2>1, <3>1, RowBecomes DEF RowIs, ChangeDoes
    <3>3. returned' \subseteq Monitor \X {"probe", "change"}
      BY <2>1, <3>1 DEF MonitorTypeOK
    <3>4. monitors' \subseteq created' /\ created' \subseteq Monitor /\ timers' \subseteq Monitor /\ blurred' \subseteq Monitor
      BY <2>1, <3>1 DEF MonitorTypeOK
    <3>. QED
      BY <3>1, <3>2, <3>3, <3>4 DEF MonitorTypeOK
  <2>. QED
    BY <2>2, <2>3
<1>9. ASSUME NEW a \in Author, SaveWrites(a) PROVE MonitorTypeOK'
  <2>1. change[a].of \in Monitor /\ change[a].copy \in Row /\ change[a].diff \subseteq Column
    BY <1>0, <1>9, OfCreated, HandFacts DEF SaveWrites
  <2>2. row' \in [Monitor -> Row]
    BY <1>0, <1>9, <2>1, WrittenFacts, RowBecomes DEF SaveWrites, RowIs
  <2>3. change' \in [Author -> Changing] /\ blurred' \subseteq Monitor /\ timers' \subseteq Monitor
    BY <1>2, <1>9, <2>1 DEF SaveWrites, TimersAfter, ChangeDoes, MonitorTypeOK
  <2>. QED
    BY <1>9, <2>2, <2>3 DEF SaveWrites, jobVars, MonitorTypeOK
<1>10. ASSUME NEW a \in Author, NEW m \in Monitor, RemoveReads(a, m) PROVE MonitorTypeOK'
  <2>1. change' \in [Author -> Changing]
    BY <1>10, RemoveReadsFacts DEF ChangeDoes
  <2>2. timers' \subseteq Monitor
    BY <1>10 DEF RemoveReads, MonitorTypeOK
  <2>. QED
    BY <1>0, <1>10, <2>1, <2>2 DEF RemoveReads, tableVars, jobVars, excuseVars, MonitorTypeOK
<1>11. ASSUME NEW a \in Author, RemoveMonitor(a) PROVE MonitorTypeOK'
  <2>1. change' \in [Author -> Changing] /\ monitors' \subseteq created
    BY <1>2, <1>11 DEF RemoveMonitor, ChangeDoes, MonitorTypeOK
  <2>. QED
    BY <1>11, <2>1 DEF RemoveMonitor, jobVars, excuseVars, MonitorTypeOK
<1>12. ASSUME NEW a \in Author, ChangeFails(a) PROVE MonitorTypeOK'
  <2>1. change[a].of \in Monitor
    BY <1>12, OfCreated DEF ChangeFails
  <2>2. change' \in [Author -> Changing] /\ unwatched' \subseteq Monitor /\ monitorFaults' \in Nat
    BY <1>0, <1>2, <1>12, <2>1 DEF ChangeFails, ChangeDoes, MonitorTypeOK
  <2>. QED
    BY <1>12, <2>2 DEF ChangeFails, tableVars, jobVars, MonitorTypeOK
<1>13. ASSUME NEW p \in Prober, ListDue(p) PROVE MonitorTypeOK'
  <2>1. probe' \in [Prober -> Probing]
    BY <1>13, ListDueFacts DEF ProbeDoes
  <2>. QED
    BY <1>13, <2>1 DEF ListDue, tableVars, jobVars, excuseVars, MonitorTypeOK
<1>14. ASSUME NEW p \in Prober, EnqueueDue(p) PROVE MonitorTypeOK'
  <2>1. probe[p].due \subseteq Monitor
    BY <1>0, HandFacts
  <2>2. probe' \in [Prober -> Probing]
    BY <1>1, <1>14 DEF EnqueueDue, ProbeDoes
  <2>3. probeJobs' \subseteq Monitor \X Nat /\ probed' \subseteq probeJobs'
    BY <1>0, <1>14, <2>1 DEF EnqueueDue, MonitorTypeOK
  <2>. QED
    BY <1>14, <2>2, <2>3 DEF EnqueueDue, tableVars, excuseVars, MonitorTypeOK
<1>15. ASSUME NEW p \in Prober, NEW j \in probeJobs, TakeProbe(p, j) PROVE MonitorTypeOK'
  <2>1. probed' \subseteq probeJobs
    BY <1>15 DEF TakeProbe, MonitorTypeOK
  <2>2. probe' \in [Prober -> Probing]
    BY <1>0, <1>15, JobMonitor, AskFacts DEF TakeProbe, ProbeDoes
  <2>. QED
    BY <1>15, <2>1, <2>2 DEF TakeProbe, tableVars, excuseVars, MonitorTypeOK
<1>16. ASSUME NEW p \in Prober, NEW j \in probeJobs, ProbeLost(p, j) PROVE MonitorTypeOK'
  <2>1. probed' \subseteq probeJobs
    BY <1>16 DEF ProbeLost, MonitorTypeOK
  <2>2. probe' \in [Prober -> Probing] /\ monitorFaults' \in Nat
    BY <1>0, <1>1, <1>16 DEF ProbeLost, ProbeDoes
  <2>. QED
    BY <1>16, <2>1, <2>2 DEF ProbeLost, tableVars, excuseVars, MonitorTypeOK
<1>17. ASSUME NEW p \in Prober, NEW s \in {"ok", "fail"}, NEW m \in Monitor,
              \/ /\ alarm' = IF AlertDue(probe[p].prev, s) THEN [alarm EXCEPT ![m] = s] ELSE alarm
                 /\ UNCHANGED <<blurred, monitorFaults>>
              \/ /\ AlertDue(probe[p].prev, s) /\ monitorFaults < MaxMonitorFaults
                 /\ monitorFaults' = monitorFaults + 1
                 /\ blurred' = blurred \cup {m}
                 /\ UNCHANGED alarm
       PROVE  alarm' \in [Monitor -> {"none", "ok", "fail"}] /\ blurred' \subseteq Monitor /\ monitorFaults' \in Nat
  BY <1>0, <1>17 DEF MonitorTypeOK
<1>18. ASSUME NEW p \in Prober, NEW s \in {"ok", "fail"}, CommitProbe(p, s) PROVE MonitorTypeOK'
  <2>1. PICK m \in Monitor : m = probe[p].of /\ m \in created
    BY <1>18, OfCreated DEF CommitProbe, AtServer
  <2>2. /\ monitors' = monitors \cup {m}
        /\ row' = [row EXCEPT ![m] = Answer(probe[p].copy, s)]
        /\ returned' \subseteq returned \cup {<<m, "probe">>}
        /\ probe' = [probe EXCEPT ![p] = Resting]
        /\ UNCHANGED <<perTenant, window, created, timers, probeJobs, probed, change, changes, unwatched>>
    BY <1>18, <2>1 DEF CommitProbe, jobVars
  <2>3. alarm' \in [Monitor -> {"none", "ok", "fail"}] /\ blurred' \subseteq Monitor /\ monitorFaults' \in Nat
    BY <1>17, <1>18, <2>1 DEF CommitProbe
  <2>4. Answer(probe[p].copy, s) \in Row
    BY <1>0, AnswerFacts, HandFacts
  <2>5. row' \in [Monitor -> Row] /\ probe' \in [Prober -> Probing]
    BY <1>0, <1>1, <2>2, <2>4, RowBecomes DEF RowIs, ProbeDoes
  <2>6. monitors' \subseteq created' /\ created' \subseteq Monitor /\ returned' \subseteq Monitor \X {"probe", "change"}
    BY <2>1, <2>2 DEF MonitorTypeOK
  <2>. QED
    BY <2>2, <2>3, <2>5, <2>6 DEF MonitorTypeOK
<1>19. ASSUME NEW p \in Prober, NEW m \in Monitor, TimerFires(p, m) PROVE MonitorTypeOK'
  <2>1. probe' \in [Prober -> Probing]
    BY <1>19, AskFacts DEF TimerFires, ProbeDoes
  <2>2. blurred' \subseteq Monitor
    BY <1>19 DEF TimerFires, MonitorTypeOK
  <2>. QED
    BY <1>19, <2>1, <2>2 DEF TimerFires, tableVars, jobVars, MonitorTypeOK
<1>20. ASSUME NEW p \in Prober, NEW s \in {"ok", "fail"}, ServerAnswers(p, s) PROVE MonitorTypeOK'
  <2>1. probe' \in [Prober -> Probing]
    BY <1>20, ServerAnswersFacts DEF ProbeDoes
  <2>. QED
    BY <1>20, <2>1 DEF ServerAnswers, tableVars, jobVars, excuseVars, MonitorTypeOK
<1>21. ASSUME NEW p \in Prober, ProbeSaves(p) PROVE MonitorTypeOK'
  <2>1. PICK m \in Monitor, k \in Row : m = probe[p].of /\ m \in created /\ k = probe[p].copy
    BY <1>0, <1>21, OfCreated, HandFacts DEF ProbeSaves, AtServer
  <2>2. CASE m \in monitors
    <3>1. probe' \in [Prober -> Probing]
      BY <1>21, <2>1, <2>2, ProbeSavesFacts DEF ProbeDoes
    <3>. QED
      BY <1>21, <2>1, <2>2, <3>1 DEF ProbeSaves, jobVars, MonitorTypeOK
  <2>3. CASE m \notin monitors
    <3>1. /\ probe' = [probe EXCEPT ![p].step = "alerting"]
          /\ monitors' = monitors \cup {m} /\ row' = [row EXCEPT ![m] = k]
          /\ returned' = returned \cup {<<m, "probe">>}
          /\ blurred' = blurred \cup {m} /\ unwatched' = unwatched \cup {m}
          /\ UNCHANGED <<perTenant, window, created, timers, probeJobs, probed, change, changes, alarm, monitorFaults>>
      BY <1>21, <2>1, <2>3 DEF ProbeSaves, jobVars
    <3>2. row' \in [Monitor -> Row] /\ probe' \in [Prober -> Probing]
      BY <1>0, <3>1, RowBecomes, AlertsNext DEF RowIs, ProbeDoes
    <3>3. /\ monitors' \subseteq created' /\ created' \subseteq Monitor /\ returned' \subseteq Monitor \X {"probe", "change"}
          /\ blurred' \subseteq Monitor /\ unwatched' \subseteq Monitor
      BY <2>1, <3>1 DEF MonitorTypeOK
    <3>. QED
      BY <3>1, <3>2, <3>3 DEF MonitorTypeOK
  <2>. QED
    BY <2>2, <2>3
<1>22. ASSUME NEW p \in Prober, ProbeWrites(p) PROVE MonitorTypeOK'
  <2>1. probe[p].of \in Monitor /\ probe[p].copy \in Row /\ probe[p].diff \subseteq Column
    BY <1>0, <1>22, OfCreated, HandFacts DEF ProbeWrites, AtServer
  <2>2. row' \in [Monitor -> Row]
    BY <1>0, <1>22, <2>1, WrittenFacts, RowBecomes DEF ProbeWrites, RowIs
  <2>3. probe' \in [Prober -> Probing] /\ unwatched' \subseteq Monitor
    BY <1>22, <2>1, AlertsNext DEF ProbeWrites, ProbeDoes, MonitorTypeOK
  <2>. QED
    BY <1>22, <2>2, <2>3 DEF ProbeWrites, jobVars, MonitorTypeOK
<1>23. ASSUME NEW p \in Prober, SendAlert(p) PROVE MonitorTypeOK'
  <2> DEFINE s == probe[p].copy.status
  <2>1. probe[p].of \in Monitor
    BY <1>23, OfCreated DEF SendAlert, AtServer
  <2>2. AlertDue(probe[p].prev, s) => s \in {"ok", "fail"}
    BY DEF AlertDue
  <2>3. alarm' \in [Monitor -> {"none", "ok", "fail"}] /\ blurred' \subseteq Monitor /\ monitorFaults' \in Nat
    BY <1>0, <1>23, <2>1, <2>2 DEF SendAlert, MonitorTypeOK
  <2>4. probe' \in [Prober -> Probing]
    BY <1>1, <1>23 DEF SendAlert, ProbeDoes
  <2>. QED
    BY <1>23, <2>3, <2>4 DEF SendAlert, tableVars, jobVars, MonitorTypeOK
<1>24. CASE UNCHANGED monitorVars
  BY <1>24 DEF monitorVars, tableVars, jobVars, excuseVars, MonitorTypeOK
<1>. QED
  BY <1>3, <1>4, <1>5, <1>6, <1>7, <1>8, <1>9, <1>10, <1>11, <1>12, <1>13, <1>14, <1>15, <1>16, <1>18, <1>19,
     <1>20, <1>21, <1>22, <1>23, <1>24
  DEF MonitorNext, ProbeStep, ChangeStep


\* A step of one prober keeps the shape of all.
LEMMA ProbersFit ==
    ASSUME MonShape, NEW p \in Prober, NEW b, ProbeDoes(p, b), created \subseteq created',
           perTenant' = perTenant, perTenant => monitors \subseteq monitors', ProbeFits(b)'
    PROVE  \A r \in Prober : ProbeFits(probe[r])'
<1> SUFFICES ASSUME NEW r \in Prober PROVE ProbeFits(probe[r])'
  OBVIOUS
<1>1. CASE r = p
  BY <1>1 DEF ProbeDoes, ProbeFits
<1>2. CASE r # p
  BY <1>2 DEF ProbeDoes, ProbeFits, MonShape
<1>. QED
  BY <1>1, <1>2

\* A step of one author keeps the shape of all.
LEMMA AuthorsFit ==
    ASSUME MonShape, NEW a \in Author, NEW c, ChangeDoes(a, c), created \subseteq created', ChangeFits(c)'
    PROVE  \A r \in Author : ChangeFits(change[r])'
<1> SUFFICES ASSUME NEW r \in Author PROVE ChangeFits(change[r])'
  OBVIOUS
<1>1. CASE r = a
  BY <1>1 DEF ChangeDoes, ChangeFits
<1>2. CASE r # a
  BY <1>2 DEF ChangeDoes, ChangeFits, MonShape
<1>. QED
  BY <1>1, <1>2

\* Every step keeps the shape of probes and requests.
LEMMA MonShapeStep == MonitorTypeOK /\ MonShape /\ [MonitorNext]_monitorVars => MonShape'
<1> SUFFICES ASSUME MonitorTypeOK, MonShape, [MonitorNext]_monitorVars PROVE MonShape'
  OBVIOUS
<1>0. /\ row \in [Monitor -> Row] /\ probe \in [Prober -> Probing] /\ change \in [Author -> Changing]
      /\ alarm \in [Monitor -> {"none", "ok", "fail"}]
      /\ monitors \subseteq created /\ created \subseteq Monitor
      /\ \A p \in Prober : ProbeFits(probe[p])
      /\ \A a \in Author : ChangeFits(change[a])
      /\ perTenant => timers = {}
      /\ \A m \in Monitor \ created : alarm[m] # "fail"
  BY DEF MonitorTypeOK, MonShape
<1>1. ASSUME NEW p \in Prober, probe' = [probe EXCEPT ![p] = Resting] PROVE ProbeDoes(p, Resting)
  BY <1>0, <1>1, ProbeBecomes, RestFacts
<1>2. ASSUME NEW a \in Author, change' = [change EXCEPT ![a] = Done] PROVE ChangeDoes(a, Done)
  BY <1>0, <1>2, ChangeBecomes, RestFacts
<1>3. ProbeFits(Resting)' /\ ChangeFits(Done)'
  BY RestFacts DEF ProbeFits, ChangeFits, AtServer
<1>4. ASSUME UNCHANGED <<probe, perTenant>>, created \subseteq created', perTenant => monitors \subseteq monitors'
      PROVE  \A p \in Prober : ProbeFits(probe[p])'
  BY <1>0, <1>4 DEF ProbeFits
<1>5. ASSUME UNCHANGED change, created \subseteq created' PROVE \A a \in Author : ChangeFits(change[a])'
  BY <1>0, <1>5 DEF ChangeFits
<1>6. ASSUME UNCHANGED alarm, created \subseteq created' PROVE \A m \in Monitor \ created' : alarm'[m] # "fail"
  BY <1>0, <1>6
<1>7. ASSUME UNCHANGED <<probe, change, perTenant, alarm, timers>>, created \subseteq created', perTenant => monitors \subseteq monitors'
      PROVE  MonShape'
  BY <1>0, <1>4, <1>5, <1>6, <1>7 DEF MonShape
<1>8. ASSUME NEW p \in Prober, NEW b, ProbeDoes(p, b), UNCHANGED <<change, perTenant, alarm, timers, created>>,
             monitors \subseteq monitors', ProbeFits(b)'
      PROVE  MonShape'
  <2>1. \A r \in Prober : ProbeFits(probe[r])'
    BY <1>8, ProbersFit
  <2>. QED
    BY <1>0, <1>5, <1>6, <1>8, <2>1 DEF MonShape
<1>9. ASSUME NEW a \in Author, NEW c, ChangeDoes(a, c), UNCHANGED <<probe, perTenant, alarm, created>>,
             perTenant => timers' = {},
             perTenant => monitors \subseteq monitors', ChangeFits(c)'
      PROVE  MonShape'
  <2>1. \A r \in Author : ChangeFits(change[r])'
    BY <1>9, AuthorsFit
  <2>. QED
    BY <1>0, <1>4, <1>6, <1>9, <2>1 DEF MonShape
<1>10. CASE WindowPasses
  BY <1>7, <1>10 DEF WindowPasses, tableVars
<1>11. CASE RestartMonitors
  <2>1. /\ ~perTenant /\ UNCHANGED <<perTenant, alarm, monitors, created>>
        /\ \A p \in Prober : probe'[p] = Resting
        /\ \A a \in Author : change'[a] = Done
    BY <1>11 DEF RestartMonitors, tableVars
  <2>2. \A p \in Prober : ProbeFits(probe[p])'
    BY <2>1, RestFacts DEF ProbeFits, AtServer
  <2>3. \A a \in Author : ChangeFits(change[a])'
    BY <2>1, RestFacts DEF ChangeFits
  <2>. QED
    BY <1>6, <2>1, <2>2, <2>3 DEF MonShape
<1>12. ASSUME NEW m \in Monitor, NEW b \in BOOLEAN, CreateMonitor(m, b) PROVE MonShape'
  <2>1. /\ UNCHANGED <<perTenant, probe, change, alarm>> /\ created' = created \cup {m}
        /\ monitors' = monitors \cup {m} /\ (perTenant => timers' = timers)
    BY <1>12 DEF CreateMonitor
  <2>. QED
    BY <1>0, <1>4, <1>5, <1>6, <2>1 DEF MonShape
<1>13. ASSUME NEW a \in Author, NEW m \in Monitor, NEW b \in BOOLEAN, ReadForChange(a, m, b) PROVE MonShape'
  <2>1. PICK c \in Changing : ChangeDoes(a, c) /\ c.of = m
    BY <1>13, ReadForChangeFacts
  <2>2. UNCHANGED <<probe, perTenant, alarm, created, timers, monitors>> /\ m \in created
    BY <1>0, <1>13 DEF ReadForChange, tableVars
  <2>. QED
    BY <1>0, <1>9, <2>1, <2>2 DEF ChangeFits
<1>14. ASSUME NEW a \in Author, StopTimer(a) PROVE MonShape'
  <2>1. PICK c \in Changing : ChangeDoes(a, c) /\ c.of = change[a].of
    BY <1>14, StopTimerFacts
  <2>2. UNCHANGED <<probe, perTenant, alarm, created, monitors>> /\ change[a].of \in created
        /\ (perTenant => timers' = {})
    BY <1>0, <1>14, OfCreated DEF StopTimer, tableVars
  <2>. QED
    BY <1>9, <2>1, <2>2 DEF ChangeFits
<1>15. ASSUME NEW a \in Author, SaveReads(a) PROVE MonShape'
  <2>1. change[a].of \in created
    BY <1>15, OfCreated DEF SaveReads
  <2>2. UNCHANGED <<probe, perTenant, alarm, created>> /\ monitors \subseteq monitors' /\ (perTenant => timers' = {})
    BY <1>0, <1>15 DEF SaveReads
  <2>3. CASE change[a].of \in monitors
    <3>1. PICK c \in Changing : ChangeDoes(a, c) /\ c.of = change[a].of
      BY <1>15, <2>3, SaveReadsFacts
    <3>. QED
      BY <1>9, <2>1, <2>2, <3>1 DEF ChangeFits
  <2>4. CASE change[a].of \notin monitors
    BY <1>2, <1>3, <1>9, <1>15, <2>2, <2>4 DEF SaveReads
  <2>. QED
    BY <2>3, <2>4
<1>16. ASSUME NEW a \in Author, SaveWrites(a) PROVE MonShape'
  BY <1>0, <1>2, <1>3, <1>9, <1>16 DEF SaveWrites, TimersAfter
<1>17. ASSUME NEW a \in Author, NEW m \in Monitor, RemoveReads(a, m) PROVE MonShape'
  <2>1. PICK c \in Changing : ChangeDoes(a, c) /\ c.of = m
    BY <1>17, RemoveReadsFacts
  <2>2. UNCHANGED <<probe, perTenant, alarm, created, monitors>> /\ m \in created /\ (perTenant => timers' = {})
    BY <1>0, <1>17 DEF RemoveReads, tableVars
  <2>. QED
    BY <1>9, <2>1, <2>2 DEF ChangeFits
<1>18. ASSUME NEW a \in Author, RemoveMonitor(a) PROVE MonShape'
  <2>1. /\ ChangeDoes(a, Done) /\ UNCHANGED <<probe, perTenant, alarm, created, timers>>
        /\ monitors' = monitors \ {change[a].of} /\ ~MonitorLocked(change[a].of)
    BY <1>2, <1>18 DEF RemoveMonitor
  <2>2. ASSUME NEW p \in Prober PROVE ProbeFits(probe[p])'
    BY <1>0, <2>1 DEF ProbeFits, MonitorLocked
  <2>3. \A r \in Author : ChangeFits(change[r])'
    BY <1>3, <2>1, AuthorsFit
  <2>. QED
    BY <1>0, <1>6, <2>1, <2>2, <2>3 DEF MonShape
<1>19. ASSUME NEW a \in Author, ChangeFails(a) PROVE MonShape'
  BY <1>0, <1>2, <1>3, <1>9, <1>19 DEF ChangeFails, tableVars
<1>20. ASSUME NEW p \in Prober, ListDue(p) PROVE MonShape'
  <2>1. PICK b \in Probing : ProbeDoes(p, b) /\ b.step = "listed" /\ b.of = probe[p].of
    BY <1>20, ListDueFacts
  <2>2. probe[p].of = NoMonitor /\ UNCHANGED <<change, perTenant, alarm, timers, created, monitors>>
    BY <1>0, <1>20 DEF ListDue, tableVars, ProbeFits, AtServer
  <2>3. ProbeFits(b)'
    BY <2>1, <2>2 DEF ProbeFits, AtServer
  <2>. QED
    BY <1>8, <2>1, <2>2, <2>3
<1>21. ASSUME NEW p \in Prober, EnqueueDue(p) PROVE MonShape'
  BY <1>1, <1>3, <1>8, <1>21 DEF EnqueueDue, tableVars
<1>22. ASSUME NEW p \in Prober, NEW j \in probeJobs, TakeProbe(p, j) PROVE MonShape'
  <2>1. UNCHANGED <<change, perTenant, alarm, timers, created, monitors>> /\ j[1] \in Monitor
    BY <1>22, JobMonitor DEF TakeProbe, tableVars
  <2>2. CASE UNCHANGED probe
    BY <1>7, <2>1, <2>2
  <2>3. CASE j[1] \in monitors /\ ~UNCHANGED probe
    <3>1. PICK b \in Probing : ProbeDoes(p, b) /\ b.step = "asked" /\ b.of = j[1]
      BY <1>22, <2>1, <2>3, AskFacts DEF TakeProbe
    <3>2. ProbeFits(b)'
      BY <1>0, <2>1, <2>3, <3>1 DEF ProbeFits, AtServer
    <3>. QED
      BY <1>8, <2>1, <3>1, <3>2
  <2>. QED
    BY <1>22, <2>2, <2>3 DEF TakeProbe
<1>23. ASSUME NEW p \in Prober, NEW j \in probeJobs, ProbeLost(p, j) PROVE MonShape'
  BY <1>1, <1>3, <1>8, <1>23 DEF ProbeLost, tableVars
<1>24. ASSUME NEW p \in Prober, NEW s \in {"ok", "fail"}, CommitProbe(p, s) PROVE MonShape'
  <2>1. /\ ProbeDoes(p, Resting) /\ UNCHANGED <<change, perTenant, timers, created>> /\ monitors \subseteq monitors'
        /\ probe[p].of \in created /\ \A m \in Monitor \ {probe[p].of} : alarm'[m] = alarm[m]
    BY <1>0, <1>1, <1>24, OfCreated DEF CommitProbe, AtServer
  <2>2. \A r \in Prober : ProbeFits(probe[r])'
    BY <1>3, <2>1, ProbersFit
  <2>. QED
    BY <1>0, <1>5, <2>1, <2>2 DEF MonShape
<1>25. ASSUME NEW p \in Prober, NEW m \in Monitor, TimerFires(p, m) PROVE MonShape'
  <2>1. PICK b \in Probing : ProbeDoes(p, b) /\ b.step = "asked" /\ b.of = m
    BY <1>25, AskFacts DEF TimerFires
  <2>2. UNCHANGED <<change, perTenant, alarm, timers, created, monitors>> /\ m \in monitors
    BY <1>25 DEF TimerFires, tableVars
  <2>3. ProbeFits(b)'
    BY <1>0, <2>1, <2>2 DEF ProbeFits, AtServer
  <2>. QED
    BY <1>8, <2>1, <2>2, <2>3
<1>26. ASSUME NEW p \in Prober, NEW b, ProbeDoes(p, b), b.of = probe[p].of, b.step \in AtServer, probe[p].step \in AtServer,
              ~perTenant, UNCHANGED <<change, perTenant, alarm, timers, created>>, monitors \subseteq monitors'
       PROVE  MonShape'
  <2>1. ProbeFits(b)'
    BY <1>0, <1>26 DEF ProbeFits
  <2>. QED
    BY <1>8, <1>26, <2>1
<1>27. ASSUME NEW p \in Prober, NEW s \in {"ok", "fail"}, ServerAnswers(p, s) PROVE MonShape'
  <2>1. PICK b \in Probing : ProbeDoes(p, b) /\ b.step = "answered" /\ b.of = probe[p].of
    BY <1>27, ServerAnswersFacts
  <2>2. /\ ~perTenant /\ UNCHANGED <<change, perTenant, alarm, timers, created, monitors>>
        /\ probe[p].step \in AtServer /\ b.step \in AtServer
    BY <1>27, <2>1 DEF ServerAnswers, tableVars, AtServer
  <2>. QED
    BY <1>26, <2>1, <2>2
<1>28. ASSUME NEW p \in Prober, ProbeSaves(p) PROVE MonShape'
  <2>1. /\ ~perTenant /\ UNCHANGED <<change, perTenant, alarm, timers, created>>
        /\ probe[p].step \in AtServer /\ monitors \subseteq monitors'
    BY <1>0, <1>28 DEF ProbeSaves, AtServer, ProbeFits
  <2>2. PICK b \in Probing : ProbeDoes(p, b) /\ b.step \in AtServer /\ b.of = probe[p].of
    <3>1. CASE probe[p].of \in monitors
      BY <1>28, <3>1, ProbeSavesFacts DEF AtServer
    <3>2. CASE probe[p].of \notin monitors
      BY <1>28, <3>2, AlertsNext DEF AtServer, ProbeSaves
    <3>. QED
      BY <3>1, <3>2
  <2>. QED
    BY <1>26, <2>1, <2>2
<1>29. ASSUME NEW p \in Prober, ProbeWrites(p) PROVE MonShape'
  <2>1. /\ ~perTenant /\ UNCHANGED <<change, perTenant, alarm, timers, created, monitors>>
        /\ probe[p].step \in AtServer
    BY <1>0, <1>29 DEF ProbeWrites, AtServer, ProbeFits
  <2>2. PICK b \in Probing : ProbeDoes(p, b) /\ b.step \in AtServer /\ b.of = probe[p].of
    BY <1>29, AlertsNext DEF AtServer, ProbeWrites
  <2>. QED
    BY <1>26, <2>1, <2>2
<1>30. ASSUME NEW p \in Prober, SendAlert(p) PROVE MonShape'
  <2>1. /\ ProbeDoes(p, Resting) /\ UNCHANGED <<change, perTenant, timers, created, monitors>>
        /\ probe[p].of \in created /\ \A m \in Monitor \ {probe[p].of} : alarm'[m] = alarm[m]
    BY <1>0, <1>1, <1>30, OfCreated DEF SendAlert, AtServer, tableVars
  <2>2. \A r \in Prober : ProbeFits(probe[r])'
    BY <1>3, <2>1, ProbersFit
  <2>. QED
    BY <1>0, <1>5, <2>1, <2>2 DEF MonShape
<1>31. CASE UNCHANGED monitorVars
  BY <1>7, <1>31 DEF monitorVars, tableVars
<1>. QED
  BY <1>10, <1>11, <1>12, <1>13, <1>14, <1>15, <1>16, <1>17, <1>18, <1>19, <1>20, <1>21, <1>22, <1>23, <1>24,
     <1>25, <1>27, <1>28, <1>29, <1>30, <1>31
  DEF MonitorNext, ProbeStep, ChangeStep


\* The step leaves what the row and the chat say of m.
SaysSame(m) == m \in monitors /\ row'[m].status = row[m].status /\ alarm'[m] = alarm[m]

\* The row and the chat agree about m.
Agree(m) == row[m].status = "fail" <=> alarm[m] = "fail"

\* A prober that does not step knows what it knew, if nothing was said meanwhile.
LEMMA ProberKeeps ==
    ASSUME NEW r \in Prober, ProbeKnows(probe[r]), probe'[r] = probe[r],
           probe[r].of \in monitors' \ blurred' => SaysSame(probe[r].of) /\ probe[r].of \notin blurred
    PROVE  ProbeKnows(probe[r])'
  BY DEF ProbeKnows, SaysSame

\* A step that no prober takes.
LEMMA AlertAside ==
    ASSUME AlertInv, probe' = probe, blurred \subseteq blurred', monitors \subseteq Monitor, NoMonitor \notin Monitor,
           \A m \in monitors' \ blurred' :
               SaysSame(m) \/ (Agree(m)' /\ \A p \in Prober : probe[p].of # m)
    PROVE  AlertInv'
<1>1. \A r \in Prober : ProbeKnows(probe[r])'
  BY ProberKeeps DEF AlertInv
<1>2. ProbedOnce'
  BY DEF AlertInv, ProbedOnce
<1>3. AlertsMatchStatus'
  BY DEF AlertInv, AlertsMatchStatus, SaysSame, Agree
<1>. QED
  BY <1>1, <1>2, <1>3 DEF AlertInv

\* A prober's step changes at most what is said of its own monitor.
LEMMA AlertProbe ==
    ASSUME AlertInv, NEW p \in Prober, NEW b, NEW own, own = probe[p].of, ProbeDoes(p, b), blurred \subseteq blurred',
           NoMonitor \notin monitors', ProbeKnows(b)',
           \A m \in monitors' \ blurred' : m # own => SaysSame(m),
           own \in monitors' \ blurred' /\ ~(b.step = "alerting" /\ b.of = own) => Agree(own)',
           b.step = "alerting" => b.of = probe[p].of,
           \/ b.of = NoMonitor \/ b.of = probe[p].of \/ b.of \in blurred'
           \/ \A r \in Prober \ {p} : probe[r].of # b.of
    PROVE  AlertInv'
<1>1. ASSUME NEW r \in Prober PROVE ProbeKnows(probe[r])'
  <2>1. CASE r = p
    BY <2>1 DEF ProbeDoes, ProbeKnows
  <2>2. CASE r # p
    <3>1. probe[r].of \in monitors' \ blurred' => probe[r].of # probe[p].of
      BY <2>2 DEF AlertInv, ProbedOnce
    <3>2. probe'[r] = probe[r] /\ ProbeKnows(probe[r])
      BY <2>2 DEF ProbeDoes, AlertInv
    <3>. QED
      BY <3>1, <3>2, ProberKeeps
  <2>. QED
    BY <2>1, <2>2
<1>2. ProbedOnce'
  <2> SUFFICES ASSUME NEW r \in Prober, NEW s \in Prober, r # s, probe'[r].of = probe'[s].of, probe'[r].of # NoMonitor
               PROVE  probe'[r].of \in blurred'
    BY DEF ProbedOnce
  <2>1. CASE r = p
    <3>1. probe'[r] = b /\ probe'[s] = probe[s] /\ probe[s].of = b.of
      BY <2>1 DEF ProbeDoes
    <3>. QED
      BY <2>1, <3>1 DEF AlertInv, ProbedOnce
  <2>2. CASE s = p
    <3>1. probe'[s] = b /\ probe'[r] = probe[r] /\ probe[r].of = b.of
      BY <2>2 DEF ProbeDoes
    <3>. QED
      BY <2>2, <3>1 DEF AlertInv, ProbedOnce
  <2>3. CASE r # p /\ s # p
    BY <2>3 DEF ProbeDoes, AlertInv, ProbedOnce
  <2>. QED
    BY <2>1, <2>2, <2>3
<1>3. AlertsMatchStatus'
  <2> SUFFICES ASSUME NEW m \in monitors' \ blurred',
                      \A r \in Prober : probe'[r].of = m => probe'[r].step # "alerting"
               PROVE  Agree(m)'
    BY DEF AlertsMatchStatus, Agree
  <2>1. CASE m = probe[p].of
    <3>1. probe'[p] = b
      BY DEF ProbeDoes
    <3>2. ~(b.step = "alerting" /\ b.of = own)
      BY <2>1, <3>1
    <3>. QED
      BY <2>1, <3>2
  <2>2. CASE m # probe[p].of
    <3>1. SaysSame(m) /\ m \notin blurred
      BY <2>2
    <3>2. \A r \in Prober : probe[r].of = m => probe[r].step # "alerting"
      BY <2>2 DEF ProbeDoes
    <3>3. Agree(m)
      BY <3>1, <3>2 DEF AlertInv, AlertsMatchStatus, SaysSame, Agree
    <3>. QED
      BY <3>1, <3>3 DEF SaysSame, Agree
  <2>. QED
    BY <2>1, <2>2
<1>. QED
  BY <1>1, <1>2, <1>3 DEF AlertInv

\* Row and chat agree about the monitor of a probe that is not about to speak.
LEMMA AgreeWhileAsked ==
    ASSUME AlertInv, NEW p \in Prober, probe[p].of \in monitors \ blurred, probe[p].step # "alerting",
           NoMonitor \notin monitors
    PROVE  Agree(probe[p].of)
<1>1. \A r \in Prober \ {p} : probe[r].of # probe[p].of
  BY DEF AlertInv, ProbedOnce
<1>. QED
  BY <1>1 DEF AlertInv, AlertsMatchStatus, Agree

\* What the chat says after an alert that was due is what the row says.
LEMMA AlertSays ==
    ASSUME NEW before, NEW s \in {"ok", "fail"}, NEW prev, NEW after,
           prev = "fail" <=> before = "fail",
           after = IF AlertDue(prev, s) THEN s ELSE before
    PROVE  s = "fail" <=> after = "fail"
  BY DEF AlertDue

\* Every step keeps the alerts in line with the rows.
LEMMA AlertStep ==
    MonitorTypeOK /\ MonShape /\ AlertInv /\ [MonitorNext]_monitorVars /\ MonitorTypeOK' => AlertInv'
<1> SUFFICES ASSUME MonitorTypeOK, MonShape, AlertInv, [MonitorNext]_monitorVars, MonitorTypeOK' PROVE AlertInv'
  OBVIOUS
<1>0. /\ row \in [Monitor -> Row] /\ probe \in [Prober -> Probing] /\ change \in [Author -> Changing]
      /\ alarm \in [Monitor -> {"none", "ok", "fail"}] /\ window \in Nat
      /\ monitors \subseteq created /\ created \subseteq Monitor /\ monitors \subseteq Monitor
      /\ NoMonitor \notin Monitor /\ NoMonitor \notin monitors /\ NoMonitor \notin monitors'
      /\ \A p \in Prober : ProbeFits(probe[p]) /\ ProbeKnows(probe[p])
      /\ \A m \in Monitor \ created : alarm[m] # "fail"
  BY MonitorAssumption DEF MonitorTypeOK, MonShape, AlertInv
<1>1. ASSUME NEW p \in Prober, probe' = [probe EXCEPT ![p] = Resting] PROVE ProbeDoes(p, Resting)
  BY <1>0, <1>1, ProbeBecomes, RestFacts
<1>2. ProbeKnows(Resting)' /\ Resting.of = NoMonitor /\ Resting.step # "alerting"
  BY <1>0, RestFacts DEF ProbeKnows
<1>3. ASSUME UNCHANGED <<probe, monitors, row, alarm, blurred>> PROVE AlertInv'
  BY <1>0, <1>3, AlertAside DEF SaysSame
<1>4. ASSUME NEW p \in Prober, probe[p].step # "alerting", NEW b, ProbeDoes(p, b), b.of = probe[p].of \/ b.of = NoMonitor,
             b.step # "alerting", ProbeKnows(b)', UNCHANGED <<monitors, row, alarm, blurred>>
      PROVE  AlertInv'
  <2>1. PICK own \in Monitor \cup {NoMonitor} : own = probe[p].of
    BY <1>0, HandFacts
  <2>2. own \in monitors \ blurred => Agree(own)
    BY <1>0, <1>4, <2>1, AgreeWhileAsked
  <2>3. own \in monitors \ blurred => Agree(own)'
    BY <1>4, <2>2 DEF Agree
  <2>. QED
    BY <1>0, <1>4, <2>1, <2>3, AlertProbe DEF SaysSame
<1>5. CASE WindowPasses
  BY <1>3, <1>5 DEF WindowPasses, tableVars, excuseVars
<1>6. CASE RestartMonitors
  <2>1. /\ UNCHANGED <<monitors, row, alarm>> /\ \A p \in Prober : probe'[p] = Resting
        /\ \A m \in Monitor, p \in Prober : probe[p].of = m /\ probe[p].step = "alerting" => m \in blurred'
        /\ blurred \subseteq blurred'
    BY <1>6 DEF RestartMonitors, tableVars
  <2>2. \A r \in Prober : ProbeKnows(probe[r])'
    BY <1>0, <2>1, RestFacts DEF ProbeKnows
  <2>3. ProbedOnce'
    BY <2>1, RestFacts DEF ProbedOnce
  <2>4. AlertsMatchStatus'
    BY <1>0, <2>1 DEF AlertInv, AlertsMatchStatus
  <2>. QED
    BY <2>2, <2>3, <2>4 DEF AlertInv
<1>7. ASSUME NEW m \in Monitor, NEW b \in BOOLEAN, CreateMonitor(m, b) PROVE AlertInv'
  <2>1. /\ UNCHANGED <<probe, alarm, blurred>> /\ monitors' = monitors \cup {m} /\ m \notin created
        /\ row' = [row EXCEPT ![m] = NewMonitor(b)]
    BY <1>7 DEF CreateMonitor, excuseVars
  <2>2. RowIs(m, NewMonitor(b)) /\ NewMonitor(b).status = "unknown"
    BY <1>0, <2>1, RowBecomes, RestFacts
  <2>3. \A p \in Prober : probe[p].of # m
    BY <1>0, <2>1, OfCreated DEF ProbeFits
  <2>4. Agree(m)'
    BY <1>0, <2>1, <2>2 DEF Agree, RowIs
  <2>5. \A k \in monitors : SaysSame(k)
    BY <1>0, <2>1, <2>2 DEF SaysSame, RowIs
  <2>. QED
    BY <1>0, <2>1, <2>3, <2>4, <2>5, AlertAside
<1>8. ASSUME NEW a \in Author, NEW m \in Monitor, NEW b \in BOOLEAN, ReadForChange(a, m, b) PROVE AlertInv'
  BY <1>3, <1>8 DEF ReadForChange, tableVars, excuseVars
<1>9. ASSUME NEW a \in Author, StopTimer(a) PROVE AlertInv'
  BY <1>3, <1>9 DEF StopTimer, tableVars, excuseVars
<1>10. ASSUME NEW a \in Author, SaveReads(a) PROVE AlertInv'
  <2> DEFINE m == change[a].of
  <2>1. CASE m \in monitors
    BY <1>3, <1>10, <2>1 DEF SaveReads
  <2>2. CASE m \notin monitors
    <3>1. /\ m \in Monitor /\ change[a].copy \in Row
          /\ UNCHANGED <<probe, alarm>> /\ monitors' = monitors \cup {m} /\ blurred' = blurred \cup {m}
          /\ row' = [row EXCEPT ![m] = change[a].copy]
      BY <1>0, <1>10, <2>2, OfCreated, HandFacts DEF SaveReads
    <3>2. RowIs(m, change[a].copy)
      BY <1>0, <3>1, RowBecomes
    <3> HIDE DEF m
    <3>3. \A k \in monitors' \ blurred' : SaysSame(k)
      BY <1>0, <3>1, <3>2 DEF SaysSame, RowIs
    <3>. QED
      BY <1>0, <3>1, <3>3, AlertAside
  <2>. QED
    BY <2>1, <2>2
<1>11. ASSUME NEW a \in Author, SaveWrites(a) PROVE AlertInv'
  <2>1. PICK m \in Monitor, k \in Row, d \in SUBSET Column : m = change[a].of /\ k = change[a].copy /\ d = change[a].diff
    BY <1>0, <1>11, OfCreated, HandFacts DEF SaveWrites
  <2>2. /\ UNCHANGED <<probe, monitors, alarm>>
        /\ row' = IF m \in monitors THEN [row EXCEPT ![m] = Written(m, k, d)] ELSE row
        /\ blurred' = IF "status" \in d THEN blurred \cup {m} ELSE blurred
    BY <1>11, <2>1 DEF SaveWrites
  <2>3. Written(m, k, d) \in Row /\ ("status" \notin d => Written(m, k, d).status = row[m].status)
    BY <1>0, WrittenFacts
  <2>4. row' = row \/ RowIs(m, Written(m, k, d))
    BY <1>0, <2>2, <2>3, RowBecomes
  <2>5. \A j \in monitors \ blurred' : SaysSame(j)
    BY <1>0, <2>2, <2>3, <2>4 DEF SaysSame, RowIs
  <2>. QED
    BY <1>0, <2>2, <2>5, AlertAside
<1>12. ASSUME NEW a \in Author, NEW m \in Monitor, RemoveReads(a, m) PROVE AlertInv'
  BY <1>3, <1>12 DEF RemoveReads, tableVars, excuseVars
<1>13. ASSUME NEW a \in Author, RemoveMonitor(a) PROVE AlertInv'
  <2>1. UNCHANGED <<probe, row, alarm, blurred>> /\ monitors' \subseteq monitors
    BY <1>13 DEF RemoveMonitor, excuseVars
  <2>. QED
    BY <1>0, <2>1, AlertAside DEF SaysSame
<1>14. ASSUME NEW a \in Author, ChangeFails(a) PROVE AlertInv'
  BY <1>3, <1>14 DEF ChangeFails, tableVars
<1>15. ASSUME NEW p \in Prober, ListDue(p) PROVE AlertInv'
  <2>1. PICK b \in Probing : ProbeDoes(p, b) /\ b.step = "listed" /\ b.of = probe[p].of
    BY <1>15, ListDueFacts
  <2>2. ProbeKnows(b)'
    BY <2>1 DEF ProbeKnows
  <2>. QED
    BY <1>4, <1>15, <2>1, <2>2 DEF ListDue, tableVars, excuseVars
<1>16. ASSUME NEW p \in Prober, probe[p].step # "alerting", probe' = [probe EXCEPT ![p] = Resting],
              UNCHANGED <<monitors, row, alarm, blurred>>
       PROVE  AlertInv'
  BY <1>1, <1>2, <1>4, <1>16
<1>17. ASSUME NEW p \in Prober, EnqueueDue(p) PROVE AlertInv'
  BY <1>16, <1>17 DEF EnqueueDue, tableVars, excuseVars
<1>18. ASSUME NEW p \in Prober, NEW m \in monitors, probe[p].step = "idle",
              probe' = [probe EXCEPT ![p] = [Resting EXCEPT !.step = "asked", !.of = m,
                                                     !.copy = row[m], !.prev = row[m].status]],
              UNCHANGED <<monitors, row, alarm>>, blurred \subseteq blurred',
              m \in blurred' \/ \A r \in Prober : probe[r].of # m
       PROVE  AlertInv'
  <2>1. PICK b \in Probing : ProbeDoes(p, b) /\ b.step = "asked" /\ b.of = m /\ b.prev = row[m].status
    BY <1>0, <1>18, AskFacts
  <2>2. ProbeKnows(b)'
    BY <1>18, <2>1 DEF ProbeKnows
  <2>3. probe[p].of = NoMonitor
    BY <1>0, <1>18 DEF ProbeFits, AtServer
  <2>4. b.of \in blurred' \/ \A r \in Prober \ {p} : probe[r].of # b.of
    BY <1>18, <2>1
  <2>. QED
    BY <1>0, <1>18, <2>1, <2>2, <2>3, <2>4, AlertProbe DEF SaysSame
<1>19. ASSUME NEW p \in Prober, NEW j \in probeJobs, TakeProbe(p, j) PROVE AlertInv'
  <2> DEFINE m == j[1]
  <2>1. UNCHANGED <<monitors, row, alarm, blurred>> /\ perTenant /\ probe[p].step = "idle"
    BY <1>19 DEF TakeProbe, tableVars, excuseVars
  <2>2. CASE UNCHANGED probe
    BY <1>3, <2>1, <2>2
  <2>3. CASE m \in monitors /\ ~MonitorLocked(m) /\ ~UNCHANGED probe
    <3>1. \A r \in Prober : probe[r].of # m
      BY <1>0, <2>1, <2>3 DEF MonitorLocked, ProbeFits, AtServer
    <3>2. probe' = [probe EXCEPT ![p] = [Resting EXCEPT !.step = "asked", !.of = m,
                                                     !.copy = row[m], !.prev = row[m].status]]
      BY <1>19, <2>3 DEF TakeProbe
    <3>. QED
      BY <1>18, <2>1, <2>3, <3>1, <3>2
  <2>. QED
    BY <1>19, <2>2, <2>3 DEF TakeProbe
<1>20. ASSUME NEW p \in Prober, NEW j \in probeJobs, ProbeLost(p, j) PROVE AlertInv'
  BY <1>16, <1>20 DEF ProbeLost, tableVars, excuseVars
<1>21. ASSUME NEW p \in Prober, NEW s \in {"ok", "fail"}, CommitProbe(p, s) PROVE AlertInv'
  <2>1. PICK m \in Monitor, k \in Row : m = probe[p].of /\ k = Answer(probe[p].copy, s) /\ k.status = s
    BY <1>0, <1>21, OfCreated, HandFacts, AnswerFacts DEF CommitProbe, AtServer
  <2>2. /\ monitors' = monitors \cup {m} /\ row' = [row EXCEPT ![m] = k] /\ ProbeDoes(p, Resting)
        /\ probe[p].step = "asked" /\ perTenant
    BY <1>1, <1>21, <2>1 DEF CommitProbe
  <2>3. \/ alarm' = IF AlertDue(probe[p].prev, s) THEN [alarm EXCEPT ![m] = s] ELSE alarm
        \/ alarm' = alarm /\ m \in blurred'
    BY <1>21, <2>1 DEF CommitProbe
  <2>4. RowIs(m, k) /\ m \in monitors /\ blurred \subseteq blurred'
    BY <1>0, <1>21, <2>1, <2>2, RowBecomes DEF CommitProbe, ProbeFits
  <2>5. \A j \in monitors' \ blurred' : j # m => SaysSame(j)
    BY <1>0, <2>2, <2>3, <2>4 DEF RowIs, SaysSame
  <2>6. ASSUME m \notin blurred' PROVE Agree(m)'
    <3>1. Agree(m) /\ probe[p].prev = row[m].status
      BY <1>0, <2>1, <2>2, <2>4, <2>6, AgreeWhileAsked DEF ProbeKnows
    <3>2. alarm'[m] = IF AlertDue(probe[p].prev, s) THEN s ELSE alarm[m]
      BY <1>0, <2>3, <2>6
    <3>3. row'[m].status = s
      BY <2>1, <2>4 DEF RowIs
    <3>4. probe[p].prev = "fail" <=> alarm[m] = "fail"
      BY <3>1 DEF Agree
    <3>. QED
      BY <3>2, <3>3, <3>4, AlertSays DEF Agree
  <2>. QED
    BY <1>0, <1>2, <2>1, <2>2, <2>4, <2>5, <2>6, AlertProbe
<1>22. ASSUME NEW p \in Prober, NEW m \in Monitor, TimerFires(p, m) PROVE AlertInv'
  <2>1. blurred' = IF Overlaps(m) THEN blurred \cup {m} ELSE blurred
    BY <1>22 DEF TimerFires
  <2>2. m \in blurred' \/ \A r \in Prober : probe[r].of # m
    BY <2>1 DEF Overlaps
  <2>. QED
    BY <1>18, <1>22, <2>1, <2>2 DEF TimerFires, tableVars
<1>23. ASSUME NEW p \in Prober, NEW s \in {"ok", "fail"}, ServerAnswers(p, s) PROVE AlertInv'
  <2>1. PICK b \in Probing : /\ ProbeDoes(p, b) /\ b.step = "answered" /\ b.of = probe[p].of
                             /\ b.prev = probe[p].prev /\ b.copy.status = s
    BY <1>23, ServerAnswersFacts
  <2>2. UNCHANGED <<monitors, row, alarm, blurred>> /\ probe[p].step = "asked"
    BY <1>23 DEF ServerAnswers, tableVars, excuseVars
  <2>3. ProbeKnows(b)'
    BY <1>0, <2>1, <2>2 DEF ProbeKnows
  <2>. QED
    BY <1>4, <2>1, <2>2, <2>3
<1>24. ASSUME NEW p \in Prober, ProbeSaves(p) PROVE AlertInv'
  <2>1. PICK m \in Monitor, k \in Row : m = probe[p].of /\ k = probe[p].copy
    BY <1>0, <1>24, OfCreated, HandFacts DEF ProbeSaves, AtServer
  <2>0. probe[p].step = "answered" /\ alarm' = alarm /\ k.status \in {"ok", "fail"}
    BY <1>0, <1>24, <2>1 DEF ProbeSaves, ProbeKnows
  <2>2. CASE m \in monitors
    <3>1. PICK b \in Probing : /\ ProbeDoes(p, b) /\ b.step = "saving" /\ b.of = m
                               /\ b.prev = probe[p].prev /\ b.copy = k /\ b.diff = Differs(m, k)
      BY <1>24, <2>1, <2>2, ProbeSavesFacts
    <3>2. UNCHANGED <<monitors, row, alarm, blurred>>
      BY <1>24, <2>0, <2>1, <2>2 DEF ProbeSaves
    <3>3. "status" \in Differs(m, k) \/ k.status = row[m].status
      BY <2>2 DEF Differs, Column
    <3>4. ProbeKnows(b)'
      BY <1>0, <2>0, <2>1, <3>1, <3>2, <3>3 DEF ProbeKnows
    <3>. QED
      BY <1>4, <2>0, <2>1, <3>1, <3>2, <3>4
  <2>3. CASE m \notin monitors
    <3>1. /\ probe' = [probe EXCEPT ![p].step = "alerting"] /\ monitors' = monitors \cup {m}
          /\ row' = [row EXCEPT ![m] = k] /\ blurred' = blurred \cup {m}
      BY <1>24, <2>1, <2>3 DEF ProbeSaves
    <3>2. PICK b \in Probing : ProbeDoes(p, b) /\ b.step = "alerting" /\ b.of = m /\ b.copy = k
      BY <2>1, <3>1, AlertsNext
    <3>3. RowIs(m, k) /\ ProbeKnows(b)'
      BY <1>0, <2>0, <3>1, <3>2, RowBecomes DEF ProbeKnows
    <3>4. \A j \in monitors' \ blurred' : SaysSame(j)
      BY <1>0, <2>0, <3>1, <3>3 DEF SaysSame, RowIs
    <3>. QED
      BY <1>0, <2>1, <3>1, <3>2, <3>3, <3>4, AlertProbe
  <2>. QED
    BY <2>2, <2>3
<1>25. ASSUME NEW p \in Prober, ProbeWrites(p) PROVE AlertInv'
  <2>1. PICK m \in Monitor, k \in Row, d \in SUBSET Column : m = probe[p].of /\ k = probe[p].copy /\ d = probe[p].diff
    BY <1>0, <1>25, OfCreated, HandFacts DEF ProbeWrites, AtServer
  <2>2. /\ UNCHANGED <<monitors, alarm, blurred>> /\ probe[p].step = "saving" /\ k.status \in {"ok", "fail"}
        /\ row' = IF m \in monitors THEN [row EXCEPT ![m] = Written(m, k, d)] ELSE row
        /\ probe' = [probe EXCEPT ![p].step = "alerting"]
    BY <1>0, <1>25, <2>1 DEF ProbeWrites, ProbeKnows
  <2>3. PICK b \in Probing : ProbeDoes(p, b) /\ b.step = "alerting" /\ b.of = m /\ b.copy = k /\ b.prev = probe[p].prev
    BY <2>1, <2>2, AlertsNext
  <2>4. Written(m, k, d) \in Row /\ Written(m, k, d).status = IF "status" \in d THEN k.status ELSE row[m].status
    BY <1>0, WrittenFacts
  <2>5. (m \notin monitors /\ row' = row) \/ RowIs(m, Written(m, k, d))
    BY <1>0, <2>2, <2>4, RowBecomes
  <2>6. ASSUME m \in monitors \ blurred
        PROVE  row'[m].status = k.status /\ (b.prev = "fail" <=> alarm[m] = "fail")
    <3>1. Agree(m) /\ b.prev = row[m].status /\ ("status" \in d \/ k.status = row[m].status)
      BY <1>0, <2>1, <2>2, <2>3, <2>6, AgreeWhileAsked DEF ProbeKnows
    <3>. QED
      BY <2>4, <2>5, <2>6, <3>1 DEF Agree, RowIs
  <2>7. ProbeKnows(b)'
    BY <2>2, <2>3, <2>6 DEF ProbeKnows
  <2>8. \A j \in monitors \ blurred : j # m => SaysSame(j)
    BY <1>0, <2>2, <2>5 DEF SaysSame, RowIs
  <2>. QED
    BY <1>0, <2>1, <2>2, <2>3, <2>7, <2>8, AlertProbe
<1>26. ASSUME NEW p \in Prober, SendAlert(p) PROVE AlertInv'
  <2>1. PICK m \in Monitor : m = probe[p].of
    BY <1>0, <1>26, OfCreated DEF SendAlert, AtServer
  <2>2. PICK s \in {"ok", "fail"} : s = probe[p].copy.status
    BY <1>0, <1>26 DEF SendAlert, ProbeKnows
  <2>3. /\ UNCHANGED <<monitors, row>> /\ ProbeDoes(p, Resting) /\ probe[p].step = "alerting"
        /\ blurred \subseteq blurred'
        /\ \/ alarm' = IF AlertDue(probe[p].prev, s) THEN [alarm EXCEPT ![m] = s] ELSE alarm
           \/ alarm' = alarm /\ m \in blurred'
    BY <1>1, <1>26, <2>1, <2>2 DEF SendAlert, tableVars
  <2>4. \A j \in monitors \ blurred' : j # m => SaysSame(j)
    BY <1>0, <2>3 DEF SaysSame
  <2>5. ASSUME m \in monitors, m \notin blurred' PROVE Agree(m)'
    <3>1. row[m].status = s /\ (probe[p].prev = "fail" <=> alarm[m] = "fail")
      BY <1>0, <2>1, <2>2, <2>3, <2>5 DEF ProbeKnows
    <3>2. alarm'[m] = IF AlertDue(probe[p].prev, s) THEN s ELSE alarm[m]
      BY <1>0, <2>3, <2>5
    <3>3. s = "fail" <=> alarm'[m] = "fail"
      BY <3>1, <3>2, AlertSays
    <3>. QED
      BY <2>3, <3>1, <3>3 DEF Agree
  <2>. QED
    BY <1>0, <1>2, <2>1, <2>3, <2>4, <2>5, AlertProbe
<1>27. CASE UNCHANGED monitorVars
  BY <1>3, <1>27 DEF monitorVars, tableVars, excuseVars
<1>. QED
  BY <1>5, <1>6, <1>7, <1>8, <1>9, <1>10, <1>11, <1>12, <1>13, <1>14, <1>15, <1>17, <1>19, <1>20, <1>21, <1>22,
     <1>23, <1>24, <1>25, <1>26, <1>27
  DEF MonitorNext, ProbeStep, ChangeStep


\* Somebody who will see to the timer of m.
Minded(m) == \E a \in Author : change[a].of = m /\ Minds(change[a])

\* The monitor has its timer, is excused, or is in the hands of a request.
Watched(m) == m \in timers \cup unwatched \/ (row[m].active => Minded(m))

\* Without tenants, every monitor is watched.
Watching == ~perTenant => \A m \in monitors : Watched(m)

\* The invariant of the timers, monitor by monitor.
LEMMA WatchedIsWatching == WatchInv <=> Watching
  BY DEF WatchInv, Watching, Watched, Minded

\* A step of a request leaves the others minding what they mind.
LEMMA StillMinded ==
    ASSUME NEW a \in Author, NEW c, ChangeDoes(a, c), NEW m, Minded(m), change[a].of = m => c.of = m /\ Minds(c)
    PROVE  Minded(m)'
<1>1. PICK r \in Author : change[r].of = m /\ Minds(change[r])
  BY DEF Minded
<1>2. CASE r = a
  <2>1. change'[a] = c /\ c.of = m /\ Minds(c)
    BY <1>1, <1>2 DEF ChangeDoes
  <2>. QED
    BY <2>1 DEF Minded, Minds
<1>3. CASE r # a
  <2>1. change'[r] = change[r]
    BY <1>3 DEF ChangeDoes
  <2>. QED
    BY <1>1, <2>1 DEF Minded, Minds
<1>. QED
  BY <1>2, <1>3

\* Every step keeps active monitors watched.
LEMMA WatchStep == MonitorTypeOK /\ MonShape /\ WatchInv /\ [MonitorNext]_monitorVars => WatchInv'
<1> SUFFICES ASSUME MonitorTypeOK, MonShape, Watching, [MonitorNext]_monitorVars PROVE Watching'
  BY WatchedIsWatching DEF WatchInv, Watching, Watched, Minded
<1>0. /\ row \in [Monitor -> Row] /\ probe \in [Prober -> Probing] /\ change \in [Author -> Changing]
      /\ monitors \subseteq created /\ monitors \subseteq Monitor /\ NoMonitor \notin monitors
      /\ \A a \in Author : ChangeFits(change[a])
  BY MonitorAssumption DEF MonitorTypeOK, MonShape
<1>1. ASSUME UNCHANGED <<perTenant, monitors, row, change, timers>>, unwatched \subseteq unwatched' PROVE Watching'
  BY <1>1 DEF Watching, Watched, Minded
<1>2. ASSUME NEW a \in Author, change' = [change EXCEPT ![a] = Done] PROVE ChangeDoes(a, Done)
  BY <1>0, <1>2, ChangeBecomes, RestFacts
\* A request whose step leaves the rows.
<1>3. ASSUME NEW a \in Author, NEW c, ChangeDoes(a, c), UNCHANGED <<perTenant, monitors, row>>,
             unwatched \subseteq unwatched',
             NEW own, own = change[a].of \/ change[a].step \in {"idle", "read"},
             \A m \in monitors : m # own /\ m \in timers => m \in timers',
             own \in unwatched' \/ (c.of = own /\ Minds(c)) \/ (~Minds(change[a]) /\ timers' = timers)
      PROVE  Watching'
  <2> SUFFICES ASSUME ~perTenant, NEW m \in monitors PROVE Watched(m)'
    BY <1>3 DEF Watching
  <2>1. Watched(m)
    BY <1>3 DEF Watching
  <2>2. CASE m \in unwatched'
    BY <2>2 DEF Watched
  <2>3. CASE m = own /\ c.of = own /\ Minds(c)
    <3>1. change'[a] = c
      BY <1>3 DEF ChangeDoes
    <3>2. Minded(m)'
      BY <2>3, <3>1 DEF Minded, Minds
    <3>. QED
      BY <3>2 DEF Watched
  <2>4. CASE m \notin unwatched' /\ ~Minds(change[a]) /\ timers' = timers
    <3>1. Minded(m) => Minded(m)'
      <4>1. ASSUME Minded(m) PROVE Minded(m)'
        <5>1. PICK r \in Author : change[r].of = m /\ Minds(change[r])
          BY <4>1 DEF Minded
        <5>2. change'[r] = change[r]
          BY <1>3, <2>4, <5>1 DEF ChangeDoes
        <5>. QED
          BY <5>1, <5>2 DEF Minded, Minds
      <4>. QED
        BY <4>1
    <3>. QED
      BY <1>3, <2>1, <2>4, <3>1 DEF Watched
  <2>5. CASE m \notin unwatched' /\ m # own
    <3>1. Minded(m) => Minded(m)'
      <4>1. ASSUME Minded(m) PROVE Minded(m)'
        <5>1. PICK r \in Author : change[r].of = m /\ Minds(change[r])
          BY <4>1 DEF Minded
        <5>2. r # a
          BY <1>3, <2>5, <5>1 DEF Minds
        <5>3. change'[r] = change[r]
          BY <1>3, <5>2 DEF ChangeDoes
        <5>. QED
          BY <5>1, <5>3 DEF Minded, Minds
      <4>. QED
        BY <4>1
    <3>. QED
      BY <1>3, <2>1, <2>5, <3>1 DEF Watched
  <2>. QED
    BY <1>3, <2>2, <2>3, <2>4, <2>5
\* A step that changes the row of one monitor, which has its timer, is not
\* active or is excused.
<1>4. ASSUME UNCHANGED <<perTenant, change, timers>>, NEW m \in Monitor, NEW r, row' = row \/ RowIs(m, r),
             monitors' \subseteq monitors \cup {m}, unwatched \subseteq unwatched',
             \/ m \in unwatched'
             \/ m \in monitors /\ (row' = row \/ r.active = row[m].active)
             \/ monitors' \subseteq monitors /\ m \notin monitors
      PROVE  Watching'
  <2> SUFFICES ASSUME ~perTenant, NEW k \in monitors' PROVE Watched(k)'
    BY <1>4 DEF Watching
  <2>1. k \in unwatched' \/ (k \in monitors /\ row'[k].active = row[k].active)
    BY <1>0, <1>4 DEF RowIs
  <2>. QED
    BY <1>4, <2>1 DEF Watching, Watched, Minded
<1>5. CASE WindowPasses
  BY <1>1, <1>5 DEF WindowPasses, tableVars, excuseVars
<1>6. CASE RestartMonitors
  BY <1>6 DEF RestartMonitors, tableVars, Watching, Watched
<1>7. ASSUME NEW m \in Monitor, NEW b \in BOOLEAN, CreateMonitor(m, b) PROVE Watching'
  <2>1. /\ UNCHANGED <<perTenant, change, unwatched>> /\ monitors' = monitors \cup {m} /\ timers \subseteq timers'
        /\ row' = [row EXCEPT ![m] = NewMonitor(b)] /\ m \notin created /\ (~perTenant /\ b => m \in timers')
    BY <1>7 DEF CreateMonitor, excuseVars
  <2>2. RowIs(m, NewMonitor(b)) /\ NewMonitor(b).active = b
    BY <1>0, <2>1, RowBecomes, RestFacts
  <2> SUFFICES ASSUME ~perTenant, NEW k \in monitors' PROVE Watched(k)'
    BY <2>1 DEF Watching
  <2>3. CASE k = m
    BY <2>1, <2>2, <2>3 DEF RowIs, Watched
  <2>4. CASE k # m
    <3>1. k \in monitors /\ row'[k] = row[k]
      BY <1>0, <2>1, <2>2, <2>4 DEF RowIs
    <3>. QED
      BY <2>1, <3>1 DEF Watching, Watched, Minded
  <2>. QED
    BY <2>3, <2>4
<1>8. ASSUME NEW a \in Author, NEW m \in Monitor, NEW b \in BOOLEAN, ReadForChange(a, m, b) PROVE Watching'
  <2>1. PICK c \in Changing : ChangeDoes(a, c)
    BY <1>8, ReadForChangeFacts
  <2>2. /\ UNCHANGED <<perTenant, monitors, row, unwatched, timers>> /\ ~Minds(change[a])
        /\ change[a].step = "idle"
    BY <1>8 DEF ReadForChange, tableVars, excuseVars, Minds
  <2>. QED
    BY <1>3, <2>1, <2>2
<1>9. ASSUME NEW a \in Author, StopTimer(a) PROVE Watching'
  <2>1. PICK c \in Changing : ChangeDoes(a, c) /\ c.step = "stopped" /\ c.of = change[a].of
    BY <1>9, StopTimerFacts
  <2>2. UNCHANGED <<perTenant, monitors, row, unwatched>> /\ timers' = timers \ {change[a].of} /\ Minds(c)
    BY <1>9, <2>1 DEF StopTimer, tableVars, excuseVars, Minds
  <2>3. \A m \in monitors : m # change[a].of /\ m \in timers => m \in timers'
    BY <2>2
  <2>. QED
    BY <1>3, <2>1, <2>2, <2>3
<1>10. ASSUME NEW a \in Author, NEW m \in Monitor, RemoveReads(a, m) PROVE Watching'
  <2>1. PICK c \in Changing : ChangeDoes(a, c) /\ c.step = "removing" /\ c.of = m
    BY <1>10, RemoveReadsFacts
  <2>2. /\ UNCHANGED <<perTenant, monitors, row, unwatched>> /\ timers' = timers \ {m} /\ Minds(c)
        /\ change[a].step = "idle"
    BY <1>10, <2>1 DEF RemoveReads, tableVars, excuseVars, Minds
  <2>3. \A k \in monitors : k # m /\ k \in timers => k \in timers'
    BY <2>2
  <2>. QED
    BY <1>3, <2>1, <2>2, <2>3
<1>11. ASSUME NEW a \in Author, ChangeFails(a) PROVE Watching'
  <2>1. /\ UNCHANGED <<perTenant, monitors, row, timers>> /\ unwatched \subseteq unwatched' /\ ChangeDoes(a, Done)
        /\ change[a].of \in unwatched' \/ ~Minds(change[a])
    BY <1>2, <1>11 DEF ChangeFails, tableVars, Minds
  <2>. QED
    BY <1>3, <2>1
\* A request that ends leaves others that it did not mind.
<1>12. ASSUME NEW a \in Author, ChangeDoes(a, Done), perTenant' = perTenant, unwatched' = unwatched,
              timers \subseteq timers', NEW m \in Monitor, m = change[a].of,
              NEW r, (m \in monitors /\ row' = row) \/ RowIs(m, r) \/ (row' = row /\ m \notin monitors'),
              monitors' \subseteq monitors \cup {m},
              ~perTenant /\ m \in monitors' =>
                  \/ m \in timers' \/ ~row'[m].active
                  \/ m \in monitors /\ row'[m].active = row[m].active /\ ~Minds(change[a])
       PROVE  Watching'
  <2> SUFFICES ASSUME ~perTenant, NEW k \in monitors' PROVE Watched(k)'
    BY <1>12 DEF Watching
  <2>1. CASE k # m
    <3>1. k \in monitors /\ row'[k] = row[k] /\ Watched(k)
      BY <1>0, <1>12, <2>1 DEF RowIs, Watching
    <3>2. Minded(k) => Minded(k)'
      BY <1>12, <2>1, StillMinded
    <3>. QED
      BY <1>12, <3>1, <3>2 DEF Watched
  <2>2. CASE k = m /\ (m \in timers' \/ ~row'[m].active)
    BY <2>2 DEF Watched
  <2>3. CASE k = m /\ m \in monitors /\ row'[m].active = row[m].active /\ ~Minds(change[a])
    <3>1. Watched(m)
      BY <1>12, <2>3 DEF Watching
    <3>2. ASSUME Minded(m) PROVE Minded(m)'
      <4>1. PICK s \in Author : change[s].of = m /\ Minds(change[s])
        BY <3>2 DEF Minded
      <4>2. change'[s] = change[s]
        BY <1>12, <2>3, <4>1 DEF ChangeDoes
      <4>. QED
        BY <4>1, <4>2 DEF Minded, Minds
    <3>. QED
      BY <1>12, <2>3, <3>1, <3>2 DEF Watched
  <2>. QED
    BY <1>12, <2>1, <2>2, <2>3
<1>13. ASSUME NEW a \in Author, SaveReads(a) PROVE Watching'
  <2>1. PICK m \in Monitor, k \in Row : m = change[a].of /\ k = change[a].copy
    BY <1>0, <1>13, OfCreated, HandFacts DEF SaveReads
  <2>2. CASE m \in monitors
    <3>1. PICK c \in Changing : /\ ChangeDoes(a, c) /\ c.step = "saving" /\ c.of = m
                                /\ c.copy = k /\ c.diff = Differs(m, k)
      BY <1>13, <2>1, <2>2, SaveReadsFacts
    <3>2. UNCHANGED <<perTenant, monitors, row, timers, unwatched>>
      BY <1>13, <2>1, <2>2 DEF SaveReads
    <3>3. row[m].active => Minds(c)
      BY <2>2, <3>1 DEF Minds, Differs, Column
    <3> SUFFICES ASSUME ~perTenant, NEW j \in monitors PROVE Watched(j)'
      BY <3>2 DEF Watching
    <3>4. Watched(j)
      BY DEF Watching
    <3>5. CASE j = m
      <4>1. Minds(c) => Minded(m)'
        <5>1. change'[a] = c
          BY <3>1 DEF ChangeDoes
        <5>. QED
          BY <3>1, <5>1 DEF Minded, Minds
      <4>. QED
        BY <3>2, <3>3, <3>5, <4>1 DEF Watched
    <3>6. CASE j # m
      <4>1. Minded(j) => Minded(j)'
        BY <2>1, <3>1, <3>6, StillMinded
      <4>. QED
        BY <3>2, <3>4, <4>1 DEF Watched
    <3>. QED
      BY <3>5, <3>6
  <2>3. CASE m \notin monitors
    <3>1. /\ monitors' = monitors \cup {m} /\ row' = [row EXCEPT ![m] = k] /\ ChangeDoes(a, Done)
          /\ timers' = IF k.active /\ ~perTenant THEN timers \cup {m} ELSE timers
          /\ UNCHANGED <<perTenant, unwatched>>
      BY <1>2, <1>13, <2>1, <2>3 DEF SaveReads
    <3>2. RowIs(m, k) /\ k.active \in BOOLEAN
      BY <1>0, <3>1, RowBecomes, RowFacts
    <3>3. ~perTenant => m \in timers' \/ ~row'[m].active
      BY <3>1, <3>2 DEF RowIs
    <3>. QED
      BY <1>12, <2>1, <3>1, <3>2, <3>3
  <2>. QED
    BY <2>2, <2>3
<1>14. ASSUME NEW a \in Author, SaveWrites(a) PROVE Watching'
  <2>1. PICK m \in Monitor, k \in Row, d \in SUBSET Column : m = change[a].of /\ k = change[a].copy /\ d = change[a].diff
    BY <1>0, <1>14, OfCreated, HandFacts DEF SaveWrites
  <2>2. /\ row' = IF m \in monitors THEN [row EXCEPT ![m] = Written(m, k, d)] ELSE row
        /\ timers' = IF k.active /\ ~perTenant THEN timers \cup {m} ELSE timers
        /\ UNCHANGED <<perTenant, monitors, unwatched>> /\ ChangeDoes(a, Done) /\ change[a].step = "saving"
    BY <1>2, <1>14, <2>1 DEF SaveWrites, TimersAfter
  <2>3. Written(m, k, d) \in Row /\ Written(m, k, d).active = IF "active" \in d THEN k.active ELSE row[m].active
    BY <1>0, WrittenFacts
  <2>4. IF m \in monitors THEN RowIs(m, Written(m, k, d)) ELSE row' = row
    BY <1>0, <2>2, <2>3, RowBecomes
  <2>5. m \in monitors => row'[m].active = IF "active" \in d THEN k.active ELSE row[m].active
    BY <2>3, <2>4 DEF RowIs
  <2>6. Minds(change[a]) <=> k.active \/ "active" \in d
    BY <2>1, <2>2 DEF Minds
  <2>7. ~perTenant /\ m \in monitors' =>
            \/ m \in timers' \/ ~row'[m].active
            \/ m \in monitors /\ row'[m].active = row[m].active /\ ~Minds(change[a])
    BY <2>2, <2>5, <2>6
  <2>. QED
    BY <1>12, <2>1, <2>2, <2>4, <2>7
<1>15. ASSUME NEW a \in Author, RemoveMonitor(a) PROVE Watching'
  <2>1. PICK m \in Monitor : m = change[a].of
    BY <1>15, OfCreated DEF RemoveMonitor
  <2>2. /\ monitors' = monitors \ {m} /\ ChangeDoes(a, Done)
        /\ UNCHANGED <<perTenant, row, timers, unwatched>>
    BY <1>2, <1>15, <2>1 DEF RemoveMonitor, excuseVars
  <2>. QED
    BY <1>12, <2>1, <2>2
<1>16. ASSUME NEW p \in Prober, ListDue(p) PROVE Watching'
  BY <1>1, <1>16 DEF ListDue, tableVars, excuseVars
<1>17. ASSUME NEW p \in Prober, EnqueueDue(p) PROVE Watching'
  BY <1>1, <1>17 DEF EnqueueDue, tableVars, excuseVars
<1>18. ASSUME NEW p \in Prober, NEW j \in probeJobs, TakeProbe(p, j) PROVE Watching'
  BY <1>1, <1>18 DEF TakeProbe, tableVars, excuseVars
<1>19. ASSUME NEW p \in Prober, NEW j \in probeJobs, ProbeLost(p, j) PROVE Watching'
  BY <1>1, <1>19 DEF ProbeLost, tableVars, excuseVars
<1>20. ASSUME NEW p \in Prober, NEW s \in {"ok", "fail"}, CommitProbe(p, s) PROVE Watching'
  BY <1>20 DEF CommitProbe, Watching
<1>21. ASSUME NEW p \in Prober, NEW m \in Monitor, TimerFires(p, m) PROVE Watching'
  BY <1>1, <1>21 DEF TimerFires, tableVars
<1>22. ASSUME NEW p \in Prober, NEW s \in {"ok", "fail"}, ServerAnswers(p, s) PROVE Watching'
  BY <1>1, <1>22 DEF ServerAnswers, tableVars, excuseVars
<1>23. ASSUME NEW p \in Prober, ProbeSaves(p) PROVE Watching'
  <2>1. PICK m \in Monitor, k \in Row : m = probe[p].of /\ k = probe[p].copy
    BY <1>0, <1>23, OfCreated, HandFacts DEF ProbeSaves, AtServer
  <2>2. CASE m \in monitors
    BY <1>1, <1>23, <2>1, <2>2 DEF ProbeSaves
  <2>3. CASE m \notin monitors
    <3>1. /\ monitors' = monitors \cup {m} /\ row' = [row EXCEPT ![m] = k] /\ unwatched' = unwatched \cup {m}
          /\ UNCHANGED <<perTenant, change, timers>>
      BY <1>23, <2>1, <2>3 DEF ProbeSaves
    <3>2. RowIs(m, k)
      BY <1>0, <3>1, RowBecomes
    <3>. QED
      BY <1>4, <3>1, <3>2
  <2>. QED
    BY <2>2, <2>3
<1>24. ASSUME NEW p \in Prober, ProbeWrites(p) PROVE Watching'
  <2>1. PICK m \in Monitor, k \in Row, d \in SUBSET Column : m = probe[p].of /\ k = probe[p].copy /\ d = probe[p].diff
    BY <1>0, <1>24, OfCreated, HandFacts DEF ProbeWrites, AtServer
  <2>2. /\ UNCHANGED <<perTenant, monitors, change, timers>>
        /\ row' = IF m \in monitors THEN [row EXCEPT ![m] = Written(m, k, d)] ELSE row
        /\ unwatched' = IF "active" \in d THEN unwatched \cup {m} ELSE unwatched
    BY <1>24, <2>1 DEF ProbeWrites
  <2>3. Written(m, k, d) \in Row /\ ("active" \notin d => Written(m, k, d).active = row[m].active)
    BY <1>0, WrittenFacts
  <2>4. row' = row \/ RowIs(m, Written(m, k, d))
    BY <1>0, <2>2, <2>3, RowBecomes
  <2>5. \/ m \in unwatched'
        \/ m \in monitors /\ (row' = row \/ Written(m, k, d).active = row[m].active)
        \/ monitors' \subseteq monitors /\ m \notin monitors
    BY <2>2, <2>3
  <2>. QED
    BY <1>4, <2>2, <2>4, <2>5
<1>25. ASSUME NEW p \in Prober, SendAlert(p) PROVE Watching'
  BY <1>1, <1>25 DEF SendAlert, tableVars
<1>26. CASE UNCHANGED monitorVars
  BY <1>1, <1>26 DEF monitorVars, tableVars, excuseVars
<1>. QED
  BY <1>5, <1>6, <1>7, <1>8, <1>9, <1>10, <1>11, <1>13, <1>14, <1>15, <1>16, <1>17, <1>18, <1>19, <1>20, <1>21,
     <1>22, <1>23, <1>24, <1>25, <1>26
  DEF MonitorNext, ProbeStep, ChangeStep

-----------------------------------------------------------------------------
\* Only the save of a timer's probe brings back a monitor, and tenants have none.
LEMMA ReviveStep == MonitorTypeOK /\ MonShape /\ NoProbeRevives /\ [MonitorNext]_monitorVars => NoProbeRevives'
<1> SUFFICES ASSUME MonitorTypeOK, MonShape, NoProbeRevives, [MonitorNext]_monitorVars PROVE NoProbeRevives'
  OBVIOUS
<1>1. ASSUME perTenant' = perTenant, returned' = returned \/ ~perTenant PROVE NoProbeRevives'
  BY <1>1 DEF NoProbeRevives
<1>2. ASSUME NEW a \in Author, SaveReads(a) PROVE NoProbeRevives'
  <2>1. perTenant' = perTenant /\ returned' \subseteq returned \cup {<<change[a].of, "change">>}
    BY <1>2 DEF SaveReads
  <2>2. \A m \in Monitor : <<m, "probe">> # <<change[a].of, "change">>
    OBVIOUS
  <2>. QED
    BY <2>1, <2>2 DEF NoProbeRevives
<1>3. ASSUME NEW p \in Prober, NEW s \in {"ok", "fail"}, CommitProbe(p, s) PROVE NoProbeRevives'
  <2>1. probe[p].of \in monitors
    BY <1>3 DEF CommitProbe, MonShape, ProbeFits
  <2>. QED
    BY <1>1, <1>3, <2>1 DEF CommitProbe
<1>4. ASSUME NEW p \in Prober, ProbeSaves(p) PROVE NoProbeRevives'
  BY <1>1, <1>4 DEF ProbeSaves, MonShape, ProbeFits
<1>. QED
  BY <1>1, <1>2, <1>3, <1>4
  DEF MonitorNext, ProbeStep, ChangeStep, monitorVars, excuseVars, tableVars, WindowPasses, RestartMonitors,
      CreateMonitor, ReadForChange, StopTimer, SaveWrites, RemoveReads, RemoveMonitor, ChangeFails, ListDue,
      EnqueueDue, TakeProbe, ProbeLost, TimerFires, ServerAnswers, ProbeWrites, SendAlert

\* The inductive invariant of the monitors.
MonitorInv == MonitorTypeOK /\ MonShape /\ AlertInv /\ WatchInv /\ NoProbeRevives

\* It holds before the first monitor is created.
LEMMA MonitorInitially == MonitorInit => MonitorInv
<1> SUFFICES ASSUME MonitorInit PROVE MonitorInv
  OBVIOUS
<1>1. /\ perTenant \in BOOLEAN /\ window = 1 /\ changes = 0 /\ monitorFaults = 0
      /\ monitors = {} /\ created = {} /\ timers = {} /\ probeJobs = {} /\ probed = {}
      /\ blurred = {} /\ unwatched = {} /\ returned = {}
      /\ row \in [Monitor -> {NewMonitor(FALSE)}] /\ probe \in [Prober -> {Resting}] /\ change \in [Author -> {Done}]
      /\ \A p \in Prober : probe[p] = Resting
      /\ \A a \in Author : change[a] = Done
      /\ alarm \in [Monitor -> {"none"}] /\ \A m \in Monitor : alarm[m] = "none"
  BY DEF MonitorInit
<1>2. MonitorTypeOK
  <2>1. row \in [Monitor -> Row] /\ probe \in [Prober -> Probing] /\ change \in [Author -> Changing]
    BY <1>1, RestFacts
  <2>2. alarm \in [Monitor -> {"none", "ok", "fail"}]
    BY <1>1
  <2>3. /\ perTenant \in BOOLEAN /\ window \in Nat /\ changes \in Nat /\ monitorFaults \in Nat
        /\ monitors \subseteq created /\ created \subseteq Monitor /\ timers \subseteq Monitor
        /\ probeJobs \subseteq Monitor \X Nat /\ probed \subseteq probeJobs
        /\ blurred \subseteq Monitor /\ unwatched \subseteq Monitor /\ returned \subseteq Monitor \X {"probe", "change"}
    BY <1>1
  <2>. QED
    BY <2>1, <2>2, <2>3 DEF MonitorTypeOK
<1>3. MonShape
  BY <1>1, RestFacts DEF MonShape, ProbeFits, ChangeFits, AtServer
<1>4. AlertInv
  BY <1>1, RestFacts DEF AlertInv, ProbeKnows, ProbedOnce, AlertsMatchStatus
<1>5. WatchInv /\ NoProbeRevives
  BY <1>1 DEF WatchInv, NoProbeRevives
<1>. QED
  BY <1>2, <1>3, <1>4, <1>5 DEF MonitorInv

\* It holds in every behaviour.
LEMMA MonitorHolds == MonitorSpec => []MonitorInv
<1>1. MonitorInv /\ [MonitorNext]_monitorVars => MonitorInv'
  BY MonitorTypeStep, MonShapeStep, AlertStep, WatchStep, ReviveStep DEF MonitorInv
<1>. QED
  BY <1>1, MonitorInitially, PTL DEF MonitorSpec

\* Type correctness of the monitors, their timers, jobs and probes.
THEOREM MonitorTypeCorrect == MonitorSpec => []MonitorTypeOK
<1>1. MonitorInv => MonitorTypeOK
  BY DEF MonitorInv
<1>. QED
  BY <1>1, MonitorHolds, PTL

\* A probe that is a tenant's job never brings back a monitor that was removed while
\* its server was being asked.
THEOREM RemovedStaysRemoved == MonitorSpec => []NoProbeRevives
<1>1. MonitorInv => NoProbeRevives
  BY DEF MonitorInv
<1>. QED
  BY <1>1, MonitorHolds, PTL

\* The last alert in the chat agrees with the row, unless an alert was lost, probes
\* overlapped or an update wrote back the status it had read.
THEOREM ChatKnows == MonitorSpec => []AlertsMatchStatus
<1>1. MonitorInv => AlertsMatchStatus
  BY DEF MonitorInv, AlertInv
<1>. QED
  BY <1>1, MonitorHolds, PTL

\* Without tenants, an active monitor has its timer, unless a request for it is under
\* way or failed or a probe wrote back what a request had changed.
THEOREM TimersRun == MonitorSpec => []ActiveIsWatched
<1>1. MonitorInv => ActiveIsWatched
  BY DEF MonitorInv, WatchInv, ActiveIsWatched
<1>. QED
  BY <1>1, MonitorHolds, PTL
==============================================================================
