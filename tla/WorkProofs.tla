----------------------------- MODULE WorkProofs ------------------------------
(***************************************************************************)
(* Proofs about Reminders and Billing: what a member's working day leaves  *)
(* in the database, for any number of processes, requests, rows and        *)
(* faults.                                                                 *)
(***************************************************************************)
EXTENDS Reminders, Billing, TLAPS

-----------------------------------------------------------------------------
(***************************************************************************)
(* Reminders.  RemindedOnce and SentWasNotified are not inductive: they say  *)
(* nothing of a sweep between its claim, its notification and its mark.    *)
(* RemindersInv adds what protects a row meanwhile.  Without tenants it is *)
(* the lease: a row that waits for delivery keeps it (HeldWhilePending),   *)
(* no other sweep has read the same time (OneDelivers), and a row without  *)
(* a mark has no notification but that of the sweep about to mark it       *)
(* (UnsentIsNew).  Hosted it is the row lock (Locked).                     *)
(***************************************************************************)
\* What sweep w has yet to deliver to u, in the row of generation g.
Pending(w, u, g) ==
    \/ <<u, g>> \in rest[w]
    \/ notifying[w] # NoOne /\ notifying[w][1] = u /\ notifying[w][2] = g

\* A repetition of what the row is set to is excused.
Excused(u) == <<u, reminder[u].at>> \in excused

\* A sweep delivers a row that it has claimed and no longer has before it.
ClaimShape ==
    \A w \in Sweeper :
        /\ rest[w] \subseteq claims[w]
        /\ notifying[w] # NoOne => <<notifying[w][1], notifying[w][2]>> \in claims[w] \ rest[w]
        /\ w \in notified => notifying[w] # NoOne

\* The time it read is the row's, while the row has not been replaced.
TimeIsOfRow ==
    \A w \in Sweeper :
        notifying[w] # NoOne /\ notifying[w][2] = reminder[notifying[w][1]].gen
            => notifying[w][3] = reminder[notifying[w][1]].at

\* Who replaces a row that is claimed excuses what the new row may repeat.
OldIsExcused ==
    \A w \in Sweeper : \A c \in claims[w] :
        /\ c[2] <= reminder[c[1]].gen
        /\ c[2] # reminder[c[1]].gen /\ reminder[c[1]].invited => Excused(c[1])

\* A row that waits for its delivery keeps its lease, or the lease ran out and
\* excused the repetition.
HeldWhilePending ==
    ~hosted => \A w \in Sweeper, u \in Participant :
        Pending(w, u, reminder[u].gen) => reminder[u].lease = "held" \/ Excused(u)

\* No two sweeps deliver the same row, or have read the same time of it.
OneDelivers ==
    ~hosted => \A w, v \in Sweeper : w # v =>
        /\ \A u \in Participant :
            Pending(w, u, reminder[u].gen) /\ Pending(v, u, reminder[u].gen) => Excused(u)
        /\ notifying[w] # NoOne /\ notifying[v] # NoOne
           /\ notifying[w][1] = notifying[v][1] /\ notifying[w][3] = notifying[v][3]
             => <<notifying[w][1], notifying[w][3]>> \in excused

\* Until a sweep has notified, nobody has been reminded of the time it read.
NotYetSent ==
    ~hosted => \A w \in Sweeper :
        notifying[w] # NoOne /\ w \notin notified =>
            notices[notifying[w][1]][notifying[w][3]] = 0 \/ <<notifying[w][1], notifying[w][3]>> \in excused

\* A row without its mark stands for a notification that has not been made, or that
\* the sweep which made it is about to mark.
UnsentIsNew ==
    \A u \in Participant :
        /\ meeting # "removed" /\ reminder[u].invited
        /\ ~reminder[u].sent /\ notices[u][reminder[u].at] > 0
        =>
            \/ Excused(u)
            \/ ~hosted /\ \E w \in notified : notifying[w] = <<u, reminder[u].gen, reminder[u].at>>

\* Hosted, a claim is a row lock: the row stays, unmarked, in one sweep's hands.
Locked ==
    hosted => \A w \in Sweeper, u \in Participant :
        /\ outcome[w][u] = "notified" => ClaimedBy(w, u)
        /\ ClaimedBy(w, u) =>
            /\ meeting # "removed" /\ reminder[u].invited /\ ~reminder[u].sent
            /\ \A v \in Sweeper : ClaimedBy(v, u) => v = w

\* A mark that an update has read stands for a notification.
SeenWasNotified ==
    \A e \in Editor, u \in Participant : seen[e][u].sent => notices[u][seen[e][u].at] > 0

\* A sweep that has notified has made the notification it will mark.
NotifiedIsCounted ==
    ~hosted => \A w \in notified : notices[notifying[w][1]][notifying[w][3]] > 0


\* What the sweeps know of their rows, and the notifications of their rows.
RemindersKept ==
    /\ ClaimShape /\ TimeIsOfRow /\ OldIsExcused
    /\ HeldWhilePending /\ OneDelivers /\ NotYetSent /\ UnsentIsNew
    /\ Locked

\* The inductive invariant of the reminders.
RemindersInv == ReminderTypeOK /\ RemindersKept

\* The columns of a row, and what the changes of a row leave in them.
LEMMA RowFacts ==
    ASSUME NEW r \in Reminder
    PROVE  /\ r.invited \in BOOLEAN /\ r.at \in Moment /\ r.sent \in BOOLEAN /\ r.lease \in {"free", "held", "late"}
           /\ r.tries \in Nat /\ r.gen \in Nat
  BY DEF Reminder

\* A replaced row is a row of the next generation, set to the new time.
LEMMA ReplacementFacts ==
    ASSUME ReminderTypeOK, NEW e \in Editor, NEW u \in Participant, NEW t \in Moment, NEW P
    PROVE  /\ Replacement(e, u, t, P) \in Reminder
           /\ Replacement(e, u, t, P).at = t
           /\ Replacement(e, u, t, P).gen = reminder[u].gen + 1
           /\ Replacement(e, u, t, P).invited <=> u \in P
           /\ Replacement(e, u, t, P).sent <=> u \in P /\ KnowsRow(e, u, t) /\ seen[e][u].sent
<1>1. seen[e][u] \in Reminder /\ reminder[u] \in Reminder
  BY DEF ReminderTypeOK
<1>2. reminder[u].gen + 1 \in Nat
  BY <1>1 DEF Reminder
<1>3. [seen[e][u] EXCEPT !.lease = "free", !.gen = reminder[u].gen + 1] \in Reminder
  BY <1>1, <1>2 DEF Reminder
<1>4. /\ [NewRow(t) EXCEPT !.gen = reminder[u].gen + 1] \in Reminder
      /\ [NoRow(t) EXCEPT !.gen = reminder[u].gen + 1] \in Reminder
  BY <1>1, <1>2 DEF Reminder, NewRow, NoRow
<1>. QED
  BY <1>1, <1>2, <1>3, <1>4 DEF Replacement, KnowsRow, NewRow, NoRow, Reminder

\* What becomes of the rows in each step that writes some of them.
LEMMA LeaseFacts ==
    ASSUME ReminderTypeOK, NEW u \in Participant, LeaseRunsOut(u)
    PROVE  /\ reminder' \in [Participant -> Reminder]
           /\ \A x \in Participant : /\ reminder'[x].at = reminder[x].at
                                     /\ reminder'[x].gen = reminder[x].gen
                                     /\ reminder'[x].invited = reminder[x].invited
                                     /\ reminder'[x].sent = reminder[x].sent
                                     /\ x # u => reminder'[x].lease = reminder[x].lease
<1> DEFINE r == [reminder[u] EXCEPT !.lease = "late"]
<1>1. reminder' = [reminder EXCEPT ![u] = r]
  BY DEF LeaseRunsOut
<1>2. reminder[u] \in Reminder /\ reminder \in [Participant -> Reminder]
  BY DEF ReminderTypeOK
<1>3. r \in Reminder /\ r.at = reminder[u].at /\ r.gen = reminder[u].gen /\ r.sent = reminder[u].sent /\ r.invited = reminder[u].invited
  BY <1>2 DEF Reminder
<1> HIDE DEF r
<1>. QED
  BY <1>1, <1>2, <1>3

\* A claim changes the lease and the tries of the rows it takes.
LEMMA ClaimFacts ==
    ASSUME ReminderTypeOK, NEW w \in Sweeper, ClaimReminders(w)
    PROVE  /\ reminder' \in [Participant -> Reminder]
           /\ \A x \in Participant :
                /\ reminder'[x].at = reminder[x].at
                /\ reminder'[x].gen = reminder[x].gen
                /\ reminder'[x].invited = reminder[x].invited
                /\ reminder'[x].sent = reminder[x].sent
                /\ reminder'[x].lease = IF ~hosted /\ Claimable(x) THEN "held" ELSE reminder[x].lease
<1> DEFINE r(x) == [reminder[x] EXCEPT !.lease = "held", !.tries = @ + 1]
<1>1. reminder' = IF hosted THEN reminder
                  ELSE [x \in Participant |-> IF Claimable(x) THEN r(x) ELSE reminder[x]]
  BY DEF ClaimReminders
<1>2. reminder \in [Participant -> Reminder]
  BY DEF ReminderTypeOK
<1>3. ASSUME NEW x \in Participant
      PROVE  /\ r(x) \in Reminder /\ r(x).at = reminder[x].at /\ r(x).gen = reminder[x].gen
             /\ r(x).invited = reminder[x].invited /\ r(x).sent = reminder[x].sent /\ r(x).lease = "held"
  <2>1. reminder[x] \in Reminder
    BY <1>2
  <2>2. reminder[x].tries + 1 \in Nat
    BY <2>1 DEF Reminder
  <2>. QED
    BY <2>1, <2>2 DEF Reminder
<1> HIDE DEF r
<1>. QED
  BY <1>1, <1>2, <1>3

\* Without tenants, the record of a delivery frees its row and may mark it.
LEMMA RecordFacts ==
    ASSUME ReminderTypeOK, NEW w \in Sweeper, NEW result \in {"notified", "failed"}, Records(w, result),
           notifying[w][1] \in Participant
    PROVE  /\ reminder' \in [Participant -> Reminder]
           /\ \A x \in Participant :
                /\ reminder'[x].at = reminder[x].at
                /\ reminder'[x].gen = reminder[x].gen
                /\ reminder'[x].invited = reminder[x].invited
                /\ reminder'[x].sent <=> \/ reminder[x].sent
                                         \/ /\ ~hosted /\ result = "notified"
                                            /\ x = notifying[w][1] /\ IsRow(x, notifying[w][2])
                /\ \/ reminder'[x].lease = reminder[x].lease
                   \/ x = notifying[w][1] /\ IsRow(x, notifying[w][2]) /\ ~hosted
<1> DEFINE u == notifying[w][1]
           b == reminder[u].sent \/ result = "notified"
           r == [reminder[u] EXCEPT !.lease = "free", !.sent = b]
<1>1. \/ reminder' = [reminder EXCEPT ![u].lease = "free", ![u].sent = @ \/ result = "notified"]
         /\ ~hosted /\ IsRow(u, notifying[w][2])
      \/ reminder' = reminder /\ (hosted \/ ~IsRow(u, notifying[w][2]))
  BY DEF Records
<1>2. reminder \in [Participant -> Reminder] /\ reminder[u] \in Reminder
  BY DEF ReminderTypeOK
<1>3. /\ r \in Reminder /\ r.at = reminder[u].at /\ r.gen = reminder[u].gen
      /\ r.invited = reminder[u].invited /\ r.sent = b
  BY <1>2 DEF Reminder
<1>4. [reminder EXCEPT ![u].lease = "free", ![u].sent = @ \/ result = "notified"] = [reminder EXCEPT ![u] = r]
  BY <1>2 DEF Reminder
<1>5. b <=> reminder[u].sent \/ result = "notified"
  OBVIOUS
<1> HIDE DEF r, b
<1>6. CASE reminder' = reminder /\ (hosted \/ ~IsRow(u, notifying[w][2]))
  BY <1>2, <1>6
<1>7. CASE reminder' = [reminder EXCEPT ![u] = r] /\ ~hosted /\ IsRow(u, notifying[w][2])
  <2>1. reminder' \in [Participant -> Reminder]
    BY <1>2, <1>3, <1>7
  <2>2. \A x \in Participant : x # u => reminder'[x] = reminder[x]
    BY <1>2, <1>7
  <2>3. reminder'[u] = r
    BY <1>2, <1>7
  <2>. QED
    BY <1>3, <1>5, <1>7, <2>1, <2>2, <2>3
<1>. QED
  BY <1>1, <1>4, <1>6, <1>7

\* Hosted, the end of a sweep marks what it notified and commits those notifications.
LEMMA EndFacts ==
    ASSUME ReminderTypeOK, NEW w \in Sweeper, SweepEnds(w)
    PROVE  /\ reminder' \in [Participant -> Reminder]
           /\ notices' \in [Participant -> [Moment -> Nat]]
           /\ ~hosted => reminder' = reminder /\ notices' = notices
           /\ hosted => \A x \in Participant :
                /\ reminder'[x].at = reminder[x].at
                /\ reminder'[x].gen = reminder[x].gen
                /\ reminder'[x].invited = reminder[x].invited
                /\ reminder'[x].sent <=> IF ClaimedBy(w, x) THEN outcome[w][x] = "notified" ELSE reminder[x].sent
                /\ outcome[w][x] # "notified" => notices'[x] = notices[x]
                /\ outcome[w][x] = "notified" => \A t \in Moment :
                    notices'[x][t] = IF t = reminder[x].at THEN notices[x][t] + 1 ELSE notices[x][t]
<1>1. CASE ~hosted
  BY <1>1 DEF SweepEnds, ReminderTypeOK
<1>2. CASE hosted
  <2>1. /\ reminder' = [x \in Participant |-> IF ClaimedBy(w, x) THEN RecordedBy(w, x) ELSE reminder[x]]
        /\ notices' = [x \in Participant |->
                         IF outcome[w][x] = "notified" THEN [notices[x] EXCEPT ![reminder[x].at] = @ + 1]
                         ELSE notices[x]]
    BY <1>2 DEF SweepEnds
  <2>2. ASSUME NEW x \in Participant
        PROVE  /\ RecordedBy(w, x) \in Reminder
               /\ RecordedBy(w, x).at = reminder[x].at
               /\ RecordedBy(w, x).gen = reminder[x].gen
               /\ RecordedBy(w, x).invited = reminder[x].invited
               /\ RecordedBy(w, x).sent = (outcome[w][x] = "notified")
    <3> DEFINE b == outcome[w][x] = "notified"
    <3>1. reminder[x] \in Reminder /\ b \in BOOLEAN
      BY DEF ReminderTypeOK
    <3>2. reminder[x].tries + 1 \in Nat
      BY <3>1 DEF Reminder
    <3> HIDE DEF b
    <3>3. RecordedBy(w, x) = [reminder[x] EXCEPT !.tries = @ + 1, !.sent = b]
      BY DEF RecordedBy, b
    <3>4. /\ [reminder[x] EXCEPT !.tries = @ + 1, !.sent = b] \in Reminder
          /\ [reminder[x] EXCEPT !.tries = @ + 1, !.sent = b].at = reminder[x].at
          /\ [reminder[x] EXCEPT !.tries = @ + 1, !.sent = b].gen = reminder[x].gen
          /\ [reminder[x] EXCEPT !.tries = @ + 1, !.sent = b].invited = reminder[x].invited
          /\ [reminder[x] EXCEPT !.tries = @ + 1, !.sent = b].sent = b
      BY <3>1, <3>2 DEF Reminder
    <3>. QED
      BY <3>3, <3>4 DEF b
  <2>3. ASSUME NEW x \in Participant
        PROVE  /\ notices[x] \in [Moment -> Nat] /\ reminder[x].at \in Moment
               /\ notices[x][reminder[x].at] + 1 \in Nat
    BY DEF ReminderTypeOK, Reminder
  <2>4. reminder' \in [Participant -> Reminder]
    BY <2>1, <2>2 DEF ReminderTypeOK
  <2>5. notices' \in [Participant -> [Moment -> Nat]]
    BY <2>1, <2>3
  <2>. QED
    BY <1>2, <2>1, <2>2, <2>3, <2>4, <2>5
<1>. QED
  BY <1>1, <1>2 DEF ReminderTypeOK


\* A claim names a participant and a generation; a row being delivered, its time too.
LEMMA ClaimTypes ==
    ASSUME ReminderTypeOK, NEW w \in Sweeper
    PROVE  /\ \A c \in claims[w] \cup rest[w] : c[1] \in Participant /\ c[2] \in Nat /\ c = <<c[1], c[2]>>
           /\ notifying[w] # NoOne =>
                /\ notifying[w][1] \in Participant
                /\ notifying[w][2] \in Nat
                /\ notifying[w][3] \in Moment
                /\ notifying[w] = <<notifying[w][1], notifying[w][2], notifying[w][3]>>
<1>1. claims[w] \subseteq Participant \X Nat /\ rest[w] \subseteq Participant \X Nat
  BY DEF ReminderTypeOK
<1>2. notifying[w] \in (Participant \X Nat \X Moment) \cup {NoOne}
  BY DEF ReminderTypeOK
<1>3. \A c \in Participant \X Nat : c[1] \in Participant /\ c[2] \in Nat /\ c = <<c[1], c[2]>>
  OBVIOUS
<1>4. \A c \in Participant \X Nat \X Moment :
        c[1] \in Participant /\ c[2] \in Nat /\ c[3] \in Moment /\ c = <<c[1], c[2], c[3]>>
  OBVIOUS
<1>. QED
  BY <1>1, <1>2, <1>3, <1>4

\* Every step keeps the types.
LEMMA ReminderTypeStep == ReminderTypeOK /\ ClaimShape /\ [ReminderNext]_reminderVars => ReminderTypeOK'
<1> SUFFICES ASSUME ReminderTypeOK, ClaimShape, [ReminderNext]_reminderVars PROVE ReminderTypeOK'
  OBVIOUS
<1> USE DEF ReminderTypeOK, sweepVars, editVars, noticeVars
<1>1. CASE TimePasses
  BY <1>1 DEF TimePasses
<1>2. CASE MeetingEnds
  BY <1>2 DEF MeetingEnds
<1>3. CASE RemoveMeeting
  BY <1>3 DEF RemoveMeeting
<1>4. ASSUME NEW u \in Participant, LeaseRunsOut(u) PROVE ReminderTypeOK'
  <2>1. <<u, reminder[u].at>> \in Participant \X Moment
    BY RowFacts
  <2>. QED
    BY <1>4, <2>1, LeaseFacts DEF LeaseRunsOut
<1>5. ASSUME NEW w \in Sweeper, ClaimReminders(w) PROVE ReminderTypeOK'
  <2>1. {<<u, reminder[u].gen>> : u \in {v \in Participant : Claimable(v)}} \subseteq Participant \X Nat
    BY RowFacts
  <2>2. reminder' \in [Participant -> Reminder]
    BY <1>5, ClaimFacts
  <2>. QED
    BY <1>5, <2>1, <2>2 DEF ClaimReminders
<1>6. ASSUME NEW w \in Sweeper, NEW c \in rest[w], ReadReminder(w, c) PROVE ReminderTypeOK'
  <2>1. c \in Participant \X Nat
    OBVIOUS
  <2>2. <<c[1], c[2], reminder[c[1]].at>> \in Participant \X Nat \X Moment
    BY <2>1, RowFacts
  <2>. QED
    BY <1>6, <2>2 DEF ReadReminder
<1>7. ASSUME NEW w \in Sweeper, Notify(w) PROVE ReminderTypeOK'
  <2>1. /\ notifying[w][1] \in Participant /\ notifying[w][3] \in Moment
    BY <1>7, ClaimTypes DEF Notify
  <2>2. notices[notifying[w][1]][notifying[w][3]] + 1 \in Nat
    BY <2>1
  <2>. QED
    BY <1>7, <2>1, <2>2 DEF Notify
<1>8. ASSUME NEW w \in Sweeper, NEW result \in {"notified", "failed"}, Records(w, result),
             notifying[w] # NoOne, excused' \subseteq Participant \X Moment, reminderFaults' \in Nat
      PROVE  ReminderTypeOK'
  <2>1. notifying[w][1] \in Participant
    BY <1>8, ClaimTypes
  <2>2. reminder' \in [Participant -> Reminder]
    BY <1>8, <2>1, RecordFacts
  <2>3. outcome' \in [Sweeper -> [Participant -> {"none", "notified", "failed"}]]
    <3>1. outcome' = outcome \/ outcome' = [outcome EXCEPT ![w][notifying[w][1]] = result]
      BY <1>8 DEF Records
    <3>2. outcome[w] \in [Participant -> {"none", "notified", "failed"}]
      OBVIOUS
    <3> DEFINE u == notifying[w][1]
               o == [outcome[w] EXCEPT ![u] = result]
    <3>3. o \in [Participant -> {"none", "notified", "failed"}]
      BY <2>1, <3>2
    <3>4. [outcome EXCEPT ![w][u] = result] = [outcome EXCEPT ![w] = o]
      OBVIOUS
    <3> HIDE DEF o, u
    <3>5. [outcome EXCEPT ![w] = o] \in [Sweeper -> [Participant -> {"none", "notified", "failed"}]]
      BY <3>3
    <3>. QED
      BY <3>1, <3>4, <3>5 DEF u
  <2>. QED
    BY <1>8, <2>2, <2>3 DEF Records
<1>9. ASSUME NEW w \in Sweeper, MarkSent(w) \/ NotificationFails(w) PROVE ReminderTypeOK'
  BY <1>8, <1>9 DEF MarkSent, NotificationFails, ClaimShape
<1>15. ASSUME NEW w \in Sweeper, MarkFails(w) PROVE ReminderTypeOK'
  <2>1. Records(w, "failed") /\ notifying[w] # NoOne /\ reminderFaults' = reminderFaults + 1
    BY <1>15 DEF MarkFails, ClaimShape
  <2>2. excused' = excused \cup {<<notifying[w][1], notifying[w][3]>>}
    BY <1>15 DEF MarkFails
  <2>3. excused' \subseteq Participant \X Moment
    BY <2>1, <2>2, ClaimTypes
  <2>. QED
    BY <1>8, <2>1, <2>3
<1>10. ASSUME NEW w \in Sweeper, SweepEnds(w) PROVE ReminderTypeOK'
  BY <1>10, EndFacts DEF SweepEnds, Rests
<1>11. ASSUME NEW w \in Sweeper, SweepLost(w) PROVE ReminderTypeOK'
  <2>1. w \in notified => <<notifying[w][1], notifying[w][3]>> \in Participant \X Moment
    BY ClaimTypes DEF ClaimShape
  <2>2. excused' \subseteq Participant \X Moment
    BY <1>11, <2>1 DEF SweepLost
  <2>3. reminderFaults' \in Nat
    BY <1>11 DEF SweepLost
  <2>. QED
    BY <1>11, <2>2, <2>3 DEF SweepLost, Rests
<1>12. ASSUME NEW e \in Editor, ReadForUpdate(e) PROVE ReminderTypeOK'
  BY <1>12 DEF ReadForUpdate
<1>13. ASSUME NEW e \in Editor, NEW t \in Moment, NEW P \in SUBSET Participant, ReplaceRows(e, t, P)
       PROVE  ReminderTypeOK'
  <2>1. [u \in Participant |-> Replacement(e, u, t, P)] \in [Participant -> Reminder]
    BY ReplacementFacts
  <2>. QED
    BY <1>13, <2>1 DEF ReplaceRows
<1>14. CASE UNCHANGED reminderVars
  BY <1>14 DEF reminderVars
<1>. QED
  BY <1>1, <1>2, <1>3, <1>4, <1>5, <1>6, <1>7, <1>9, <1>10, <1>11, <1>12, <1>13, <1>14, <1>15
  DEF ReminderNext, SweepStep

-----------------------------------------------------------------------------
\* Steps that touch neither the sweeps nor the rows.
LEMMA KeptAside ==
    ASSUME RemindersKept,
           UNCHANGED <<hosted, reminder, sweepVars, noticeVars>>,
           meeting = "removed" => meeting' = "removed",
           meeting' = "removed" => meeting = "removed" \/ \A u \in Participant : ~RowLocked(u)
    PROVE  RemindersKept'
<1> USE DEF RemindersKept, sweepVars, noticeVars
<1>1. ClaimShape'
  BY DEF ClaimShape
<1>2. TimeIsOfRow' /\ OldIsExcused'
  BY DEF TimeIsOfRow, OldIsExcused, Excused
<1>3. HeldWhilePending'
  BY DEF HeldWhilePending, Pending, Excused
<1>4. OneDelivers'
  BY DEF OneDelivers, Pending, Excused
<1>5. NotYetSent'
  BY DEF NotYetSent
<1>6. UnsentIsNew'
  BY DEF UnsentIsNew, Excused
<1>7. Locked'
  BY DEF Locked, ClaimedBy, RowLocked
<1>. QED
  BY <1>1, <1>2, <1>3, <1>4, <1>5, <1>6, <1>7

\* A lease that runs out while a sweep holds the claim excuses the repetition.
LEMMA LeaseKeeps ==
    ASSUME ReminderTypeOK, RemindersKept, NEW u \in Participant, LeaseRunsOut(u)
    PROVE  RemindersKept'
<1> USE DEF RemindersKept
<1>1. /\ UNCHANGED <<hosted, meeting, claims, rest, notifying, notified, outcome, notices>>
      /\ excused \subseteq excused'
      /\ \A w \in Sweeper : <<u, reminder[u].gen>> \in claims[w] => <<u, reminder[u].at>> \in excused'
  BY DEF LeaseRunsOut, sweepVars
<1>2. \A x \in Participant : /\ reminder'[x].at = reminder[x].at
                             /\ reminder'[x].gen = reminder[x].gen
                             /\ reminder'[x].invited = reminder[x].invited
                             /\ reminder'[x].sent = reminder[x].sent
                             /\ x # u => reminder'[x].lease = reminder[x].lease
  BY LeaseFacts
<1>3. \A w \in Sweeper : Pending(w, u, reminder[u].gen) => <<u, reminder[u].gen>> \in claims[w]
  BY DEF Pending, ClaimShape
<1>4. ClaimShape'
  BY <1>1 DEF ClaimShape
<1>5. TimeIsOfRow' /\ OldIsExcused'
  BY <1>1, <1>2, ClaimTypes DEF TimeIsOfRow, OldIsExcused, Excused
<1>6. HeldWhilePending'
  BY <1>1, <1>2, <1>3 DEF HeldWhilePending, Pending, Excused
<1>7. OneDelivers'
  BY <1>1, <1>2 DEF OneDelivers, Pending, Excused
<1>8. NotYetSent'
  BY <1>1 DEF NotYetSent
<1>9. UnsentIsNew'
  BY <1>1, <1>2 DEF UnsentIsNew, Excused
<1>10. Locked'
  BY <1>1, <1>2 DEF Locked, ClaimedBy
<1>. QED
  BY <1>4, <1>5, <1>6, <1>7, <1>8, <1>9, <1>10

\* A sweep claims only rows that nobody is about to deliver, unless excused.
LEMMA ClaimKeeps ==
    ASSUME ReminderTypeOK, RemindersKept, NEW w \in Sweeper, ClaimReminders(w)
    PROVE  RemindersKept'
<1> USE DEF RemindersKept
<1>1. /\ UNCHANGED <<hosted, meeting, notifying, notified, outcome, notices, excused>>
      /\ claims[w] = {} /\ meeting = "planned"
      /\ \A v \in Sweeper : v # w => claims'[v] = claims[v] /\ rest'[v] = rest[v]
      /\ claims'[w] = {<<u, reminder[u].gen>> : u \in {x \in Participant : Claimable(x)}}
      /\ rest'[w] = claims'[w]
  BY DEF ClaimReminders, ReminderTypeOK, noticeVars
<1>2. \A x \in Participant :
        /\ reminder'[x].at = reminder[x].at
        /\ reminder'[x].gen = reminder[x].gen
        /\ reminder'[x].invited = reminder[x].invited
        /\ reminder'[x].sent = reminder[x].sent
        /\ reminder'[x].lease = IF ~hosted /\ Claimable(x) THEN "held" ELSE reminder[x].lease
  BY ClaimFacts
<1>3. notifying[w] = NoOne /\ w \notin notified
  BY <1>1 DEF ClaimShape
<1>4. \A c \in claims'[w] : c[1] \in Participant /\ Claimable(c[1]) /\ c[2] = reminder[c[1]].gen
  BY <1>1
<1>5. \A u \in Participant : \A g : <<u, g>> \in claims'[w] => Claimable(u) /\ g = reminder[u].gen
  BY <1>1
<1>6. \A u \in Participant : Claimable(u) => /\ reminder[u].invited
                                             /\ ~reminder[u].sent /\ reminder[u].lease # "held"
                                             /\ hosted => \A v \in Sweeper : ~ClaimedBy(v, u)
  BY DEF Claimable, RowLocked
<1>7. ClaimShape'
  BY <1>1, <1>3 DEF ClaimShape
<1>8. TimeIsOfRow'
  BY <1>1, <1>2, ClaimTypes DEF TimeIsOfRow
<1>9. OldIsExcused'
  <2> SUFFICES ASSUME NEW v \in Sweeper, NEW c \in claims'[v]
               PROVE  /\ c[2] <= reminder'[c[1]].gen
                      /\ c[2] # reminder'[c[1]].gen /\ reminder'[c[1]].invited => Excused(c[1])'
    BY DEF OldIsExcused
  <2>1. CASE v = w
    <3>1. c[1] \in Participant /\ c[2] = reminder'[c[1]].gen /\ c[2] \in Nat
      BY <1>2, <1>4, <2>1, RowFacts DEF ReminderTypeOK
    <3>. QED
      BY <3>1
  <2>2. CASE v # w
    BY <1>1, <1>2, <2>2, ClaimTypes DEF OldIsExcused, Excused
  <2>. QED
    BY <2>1, <2>2
<1>10. HeldWhilePending'
  BY <1>1, <1>2, <1>3, <1>5 DEF HeldWhilePending, Pending, Excused
<1>11. OneDelivers'
  BY <1>1, <1>2, <1>3, <1>5, <1>6 DEF OneDelivers, HeldWhilePending, Pending, Excused
<1>12. NotYetSent'
  BY <1>1 DEF NotYetSent
<1>13. UnsentIsNew'
  BY <1>1, <1>2 DEF UnsentIsNew, Excused
<1>14. Locked'
  <2>1. \A u \in Participant : ClaimedBy(w, u)' => Claimable(u)
    BY <1>4 DEF ClaimedBy
  <2>2. \A v \in Sweeper, u \in Participant : v # w => (ClaimedBy(v, u)' <=> ClaimedBy(v, u))
    BY <1>1 DEF ClaimedBy
  <2>3. \A u \in Participant : ~ClaimedBy(w, u)
    BY <1>1 DEF ClaimedBy
  <2>. QED
    BY <1>1, <1>2, <1>6, <2>1, <2>2, <2>3 DEF Locked
<1>. QED
  BY <1>7, <1>8, <1>9, <1>10, <1>11, <1>12, <1>13, <1>14
\* A row is read for delivery only when nobody has delivered it, unless excused.
LEMMA ReadKeeps ==
    ASSUME ReminderTypeOK, RemindersKept, NEW w \in Sweeper, NEW c \in rest[w], ReadReminder(w, c)
    PROVE  RemindersKept'
<1> USE DEF RemindersKept
<1> DEFINE u == c[1]
<1>1. /\ UNCHANGED <<hosted, meeting, reminder, claims, notified, outcome, notices, excused>>
      /\ notifying[w] = NoOne
      /\ \A v \in Sweeper : v # w => notifying'[v] = notifying[v] /\ rest'[v] = rest[v]
      /\ rest'[w] = rest[w] \ {c}
      /\ \/ notifying'[w] = NoOne
         \/ /\ notifying'[w] = <<u, c[2], reminder[u].at>>
            /\ c[2] = reminder[u].gen /\ meeting # "removed"
            /\ reminder[u].invited /\ ~reminder[u].sent
  BY DEF ReadReminder, ReminderTypeOK, noticeVars, IsRow
<1>2. u \in Participant /\ c[2] \in Nat /\ c = <<u, c[2]>> /\ c \in claims[w] /\ w \notin notified
  BY <1>1, ClaimTypes DEF ClaimShape
<1>3. \A v \in Sweeper, x \in Participant : \A g : Pending(v, x, g)' => Pending(v, x, g)
  BY <1>1, <1>2 DEF Pending
<1>4. ASSUME notifying'[w] # NoOne, NEW v \in Sweeper, v # w, notifying[v] # NoOne,
             notifying[v][1] = u, notifying[v][3] = reminder[u].at
      PROVE  Excused(u)
  <2>1. hosted \/ (c[2] = reminder[u].gen /\ Pending(w, u, c[2]))
    BY <1>1, <1>2, <1>4 DEF Pending
  <2>2. <<u, notifying[v][2]>> \in claims[v]
    BY <1>4 DEF ClaimShape
  <2>3. CASE notifying[v][2] # reminder[u].gen
    BY <1>1, <1>2, <1>4, <2>2, <2>3 DEF OldIsExcused
  <2>4. CASE hosted
    BY <1>2, <2>2, <2>4, <1>4 DEF Locked, ClaimedBy
  <2>5. CASE notifying[v][2] = reminder[u].gen /\ ~hosted
    <3>1. Pending(v, u, reminder[u].gen)
      BY <1>4, <2>5 DEF Pending
    <3>. QED
      BY <1>2, <1>4, <2>1, <2>5, <3>1 DEF OneDelivers
  <2>. QED
    BY <2>3, <2>4, <2>5
<1>5. ClaimShape'
  <2>1. \A v \in Sweeper : v # w => notifying'[v] = notifying[v] /\ rest'[v] = rest[v]
    BY <1>1
  <2>2. notifying'[w] # NoOne => <<notifying'[w][1], notifying'[w][2]>> = c
    BY <1>1, <1>2
  <2>3. w \notin notified' /\ rest'[w] \subseteq claims'[w] /\ c \in claims'[w] \ rest'[w]
    BY <1>1, <1>2 DEF ClaimShape
  <2>. QED
    BY <1>1, <2>1, <2>2, <2>3 DEF ClaimShape
<1>6. TimeIsOfRow' /\ OldIsExcused'
  BY <1>1, <1>2 DEF TimeIsOfRow, OldIsExcused, Excused
<1>7. HeldWhilePending'
  BY <1>1, <1>3 DEF HeldWhilePending, Excused
<1>8. OneDelivers'
  <2>1. ~hosted => \A x, v \in Sweeper : x # v => \A y \in Participant :
          Pending(x, y, reminder[y].gen)' /\ Pending(v, y, reminder[y].gen)' => Excused(y)'
    BY <1>1, <1>3 DEF OneDelivers, Excused
  <2>2. ASSUME NEW v \in Sweeper, v # w, notifying'[w] # NoOne, notifying[v] # NoOne,
               notifying'[w][1] = notifying[v][1], notifying'[w][3] = notifying[v][3]
        PROVE  <<notifying[v][1], notifying[v][3]>> \in excused
    BY <1>1, <1>4, <2>2 DEF Excused
  <2>. QED
    BY <1>1, <2>1, <2>2 DEF OneDelivers
<1>9. NotYetSent'
  <2> SUFFICES ASSUME ~hosted, NEW v \in Sweeper, notifying'[v] # NoOne, v \notin notified
               PROVE  \/ notices[notifying'[v][1]][notifying'[v][3]] = 0
                      \/ <<notifying'[v][1], notifying'[v][3]>> \in excused
    BY <1>1 DEF NotYetSent
  <2>1. CASE v # w
    BY <1>1, <2>1 DEF NotYetSent
  <2>2. CASE v = w
    <3>1. /\ notifying'[w] = <<u, c[2], reminder[u].at>>
          /\ c[2] = reminder[u].gen /\ meeting # "removed"
          /\ reminder[u].invited /\ ~reminder[u].sent
      BY <1>1, <2>2
    <3>2. notices[u][reminder[u].at] \in Nat
      BY <1>2, RowFacts DEF ReminderTypeOK
    <3>3. ASSUME notices[u][reminder[u].at] > 0 PROVE Excused(u)
      <4>1. CASE \E x \in notified : notifying[x] = <<u, reminder[u].gen, reminder[u].at>>
        <5>1. PICK x \in notified : notifying[x] = <<u, reminder[u].gen, reminder[u].at>>
          BY <4>1
        <5>2. x \in Sweeper /\ x # w /\ notifying[x] # NoOne
          BY <1>2 DEF ReminderTypeOK, ClaimShape
        <5>3. notifying[x][1] = u /\ notifying[x][3] = reminder[u].at
          BY <5>1
        <5>4. notifying'[w] # NoOne
          BY <2>2
        <5>. QED
          BY <1>4, <5>2, <5>3, <5>4
      <4>. QED
        BY <1>2, <3>1, <3>3, <4>1 DEF UnsentIsNew
    <3>. QED
      BY <2>2, <3>1, <3>2, <3>3 DEF Excused
  <2>. QED
    BY <2>1, <2>2
<1>10. UnsentIsNew'
  <2>1. \A v \in notified : notifying'[v] = notifying[v]
    BY <1>1, <1>2 DEF ReminderTypeOK
  <2>. QED
    BY <1>1, <2>1 DEF UnsentIsNew, Excused
<1>11. Locked'
  BY <1>1 DEF Locked, ClaimedBy
<1>. QED
  BY <1>5, <1>6, <1>7, <1>8, <1>9, <1>10, <1>11

\* A notification is made; whoever else is about to make the same one is excused.
LEMMA NotifyKeeps ==
    ASSUME ReminderTypeOK, RemindersKept, NEW w \in Sweeper, Notify(w)
    PROVE  RemindersKept'
<1> USE DEF RemindersKept
<1> DEFINE u == notifying[w][1]
           t == notifying[w][3]
<1>1. /\ UNCHANGED <<hosted, meeting, reminder, claims, rest, notifying, outcome, excused>>
      /\ notifying[w] # NoOne /\ w \notin notified
      /\ notified' = notified \cup {w}
      /\ hosted => notices' = notices
  BY DEF Notify
<1>2. /\ u \in Participant /\ t \in Moment
      /\ notifying[w] = <<u, notifying[w][2], t>>
  BY <1>1, ClaimTypes
<1>3. \A x \in Participant, s \in Moment : x # u \/ s # t => notices'[x][s] = notices[x][s]
  BY <1>2 DEF Notify, ReminderTypeOK
<1>4. ClaimShape'
  BY <1>1 DEF ClaimShape
<1>5. TimeIsOfRow' /\ OldIsExcused'
  BY <1>1 DEF TimeIsOfRow, OldIsExcused, Excused
<1>6. HeldWhilePending' /\ OneDelivers'
  BY <1>1 DEF HeldWhilePending, OneDelivers, Pending, Excused
<1>7. NotYetSent'
  <2> SUFFICES ASSUME ~hosted, NEW v \in Sweeper, notifying[v] # NoOne, v \notin notified'
               PROVE  \/ notices'[notifying[v][1]][notifying[v][3]] = 0
                      \/ <<notifying[v][1], notifying[v][3]>> \in excused
    BY <1>1 DEF NotYetSent
  <2>1. v # w /\ v \notin notified
    BY <1>1
  <2>2. notifying[v][1] \in Participant /\ notifying[v][3] \in Moment
    BY ClaimTypes
  <2>3. CASE notifying[v][1] = u /\ notifying[v][3] = t
    BY <1>1, <2>1, <2>3 DEF OneDelivers
  <2>4. CASE notifying[v][1] # u \/ notifying[v][3] # t
    BY <1>3, <2>1, <2>2, <2>4 DEF NotYetSent
  <2>. QED
    BY <2>3, <2>4
<1>8. UnsentIsNew'
  <2> SUFFICES ASSUME NEW x \in Participant, meeting # "removed", reminder[x].invited, ~reminder[x].sent,
                      notices'[x][reminder[x].at] > 0, ~Excused(x)
               PROVE  /\ ~hosted
                      /\ \E v \in notified' : notifying[v] = <<x, reminder[x].gen, reminder[x].at>>
    BY <1>1 DEF UnsentIsNew, Excused
  <2>1. reminder[x].at \in Moment
    BY RowFacts DEF ReminderTypeOK
  <2>2. CASE ~hosted /\ x = u /\ reminder[x].at = t
    <3>1. <<u, notifying[w][2]>> \in claims[w]
      BY <1>1 DEF ClaimShape
    <3>2. notifying[w][2] = reminder[u].gen
      BY <2>2, <3>1 DEF OldIsExcused
    <3>. QED
      BY <1>1, <1>2, <2>2, <3>2
  <2>3. CASE hosted \/ x # u \/ reminder[x].at # t
    BY <1>1, <1>3, <2>1, <2>3 DEF UnsentIsNew
  <2>. QED
    BY <2>2, <2>3
<1>9. Locked'
  BY <1>1 DEF Locked, ClaimedBy
<1>. QED
  BY <1>4, <1>5, <1>6, <1>7, <1>8, <1>9
\* What a sweep records about a row: it lets the row go, and marks it when notified.
LEMMA RecordKeeps ==
    ASSUME ReminderTypeOK, RemindersKept, NEW w \in Sweeper, NEW result \in {"notified", "failed"},
           Records(w, result), notifying[w] # NoOne,
           excused \subseteq excused',
           result = "failed" /\ w \in notified => <<notifying[w][1], notifying[w][3]>> \in excused'
    PROVE  RemindersKept'
<1> USE DEF RemindersKept
<1> DEFINE u == notifying[w][1]
           g == notifying[w][2]
<1>1. /\ UNCHANGED <<hosted, meeting, claims, rest, notices>>
      /\ excused \subseteq excused'
      /\ notifying'[w] = NoOne
      /\ \A v \in Sweeper : v # w => notifying'[v] = notifying[v]
      /\ notified' = notified \ {w}
  BY DEF Records, ReminderTypeOK, noticeVars
<1>2. /\ u \in Participant /\ g \in Nat
      /\ notifying[w] = <<u, g, notifying[w][3]>>
      /\ <<u, g>> \in claims[w] \ rest[w]
  BY ClaimTypes DEF ClaimShape
<1>3. \A x \in Participant :
        /\ reminder'[x].at = reminder[x].at
        /\ reminder'[x].gen = reminder[x].gen
        /\ reminder'[x].invited = reminder[x].invited
        /\ reminder'[x].sent <=> \/ reminder[x].sent
                                 \/ ~hosted /\ result = "notified" /\ x = u /\ IsRow(x, g)
        /\ \/ reminder'[x].lease = reminder[x].lease
           \/ x = u /\ IsRow(x, g) /\ ~hosted
  BY <1>2, RecordFacts
<1>4. \A v \in Sweeper, x \in Participant :
        Pending(v, x, reminder[x].gen)'
            => /\ Pending(v, x, reminder[x].gen)
               /\ v = w => x # u \/ reminder[x].gen # g
  BY <1>1, <1>2, <1>3 DEF Pending
<1>5. Pending(w, u, g)
  BY DEF Pending
<1>6. ClaimShape'
  BY <1>1 DEF ClaimShape
<1>7. TimeIsOfRow'
  <2>1. \A v \in Sweeper : notifying'[v] # NoOne => v # w /\ notifying'[v] = notifying[v] /\ notifying[v][1] \in Participant
    BY <1>1, ClaimTypes
  <2>. QED
    BY <1>3, <2>1 DEF TimeIsOfRow
<1>8. OldIsExcused'
  <2>1. \A v \in Sweeper : \A c \in claims[v] : c[1] \in Participant
    BY ClaimTypes
  <2>. QED
    BY <1>1, <1>3, <2>1 DEF OldIsExcused, Excused
<1>9. HeldWhilePending'
  <2> SUFFICES ASSUME ~hosted, NEW v \in Sweeper, NEW x \in Participant, Pending(v, x, reminder[x].gen)'
               PROVE  reminder'[x].lease = "held" \/ Excused(x)
    BY <1>1, <1>3 DEF HeldWhilePending, Excused, Pending
  <2>1. Pending(v, x, reminder[x].gen)
    BY <1>4
  <2>2. CASE reminder'[x].lease = reminder[x].lease
    BY <2>1, <2>2 DEF HeldWhilePending
  <2>3. CASE x = u /\ IsRow(x, g)
    <3>1. g = reminder[x].gen /\ v # w
      BY <1>4, <2>3 DEF IsRow
    <3>. QED
      BY <1>5, <2>1, <2>3, <3>1 DEF OneDelivers
  <2>. QED
    BY <1>3, <2>2, <2>3
<1>10. OneDelivers'
  <2>1. ~hosted => \A x, v \in Sweeper : x # v => \A y \in Participant :
          Pending(x, y, reminder[y].gen)' /\ Pending(v, y, reminder[y].gen)' => Excused(y)'
    BY <1>1, <1>3, <1>4 DEF OneDelivers, Excused
  <2>. QED
    BY <1>1, <2>1 DEF OneDelivers
<1>11. NotYetSent'
  BY <1>1 DEF NotYetSent
<1>12. UnsentIsNew'
  <2>0. \A x \in Participant : /\ reminder'[x].at = reminder[x].at /\ reminder'[x].gen = reminder[x].gen
                               /\ reminder'[x].invited = reminder[x].invited
 /\ reminder'[x].invited = reminder[x].invited
    BY <1>3
  <2> SUFFICES ASSUME NEW x \in Participant, meeting # "removed", reminder[x].invited, ~reminder'[x].sent,
                      notices[x][reminder[x].at] > 0, <<x, reminder[x].at>> \notin excused'
               PROVE  /\ ~hosted
                      /\ \E v \in notified' : notifying'[v] = <<x, reminder[x].gen, reminder[x].at>>
    BY <1>1, <2>0 DEF UnsentIsNew, Excused
  <2>1. ~reminder[x].sent
    BY <1>3
  <2>2. PICK v \in notified : notifying[v] = <<x, reminder[x].gen, reminder[x].at>> /\ ~hosted
    BY <1>1, <2>1 DEF UnsentIsNew, Excused
  <2>3. v # w
    <3> SUFFICES ASSUME v = w PROVE FALSE
      OBVIOUS
    <3>1. x = u /\ reminder[x].gen = g
      BY <2>2
    <3>2. IsRow(x, g) /\ result = "notified"
      BY <2>2, <3>1 DEF IsRow
    <3>. QED
      BY <1>3, <2>2, <3>1, <3>2
  <2>4. v \in Sweeper
    BY DEF ReminderTypeOK
  <2>. QED
    BY <1>1, <2>2, <2>3, <2>4
<1>13. Locked'
  <2>1. hosted => /\ \A x \in Participant : reminder'[x].sent <=> reminder[x].sent
                  /\ outcome' = [outcome EXCEPT ![w][u] = result]
    BY <1>3 DEF Records
  <2>2. outcome[w] \in [Participant -> {"none", "notified", "failed"}] /\ outcome \in [Sweeper -> [Participant -> {"none", "notified", "failed"}]]
    BY DEF ReminderTypeOK
  <2>3. ClaimedBy(w, u)
    BY <1>2 DEF ClaimedBy
  <2>4. hosted => \A v \in Sweeper, x \in Participant : outcome'[v][x] = "notified" => ClaimedBy(v, x)
    <3> SUFFICES ASSUME hosted, NEW v \in Sweeper, NEW x \in Participant, outcome'[v][x] = "notified"
                 PROVE  ClaimedBy(v, x)
      OBVIOUS
    <3>1. CASE v = w /\ x = u
      BY <2>3, <3>1
    <3>2. CASE v # w \/ x # u
      <4>1. outcome'[v] = IF v = w THEN [outcome[w] EXCEPT ![u] = result] ELSE outcome[v]
        BY <2>1, <2>2
      <4>2. [outcome[w] EXCEPT ![u] = result][x] = IF x = u THEN result ELSE outcome[w][x]
        BY <2>2
      <4>. QED
        BY <3>2, <4>1, <4>2 DEF Locked
    <3>. QED
      BY <3>1, <3>2
  <2>. QED
    BY <1>1, <1>3, <2>1, <2>4 DEF Locked, ClaimedBy
<1>. QED
  BY <1>6, <1>7, <1>8, <1>9, <1>10, <1>11, <1>12, <1>13
\* The end of a sweep: its claims and, hosted, its marks and notifications.
LEMMA EndKeeps ==
    ASSUME ReminderTypeOK, RemindersKept, NEW w \in Sweeper, SweepEnds(w)
    PROVE  RemindersKept'
<1> USE DEF RemindersKept
<1>1. /\ UNCHANGED <<hosted, meeting, excused>>
      /\ notifying[w] = NoOne
      /\ claims'[w] = {} /\ rest'[w] = {} /\ notifying'[w] = NoOne
      /\ \A u \in Participant : outcome'[w][u] = "none"
      /\ \A v \in Sweeper : v # w => /\ claims'[v] = claims[v] /\ rest'[v] = rest[v]
                                     /\ notifying'[v] = notifying[v] /\ outcome'[v] = outcome[v]
      /\ notified' = notified \ {w}
  BY DEF SweepEnds, Rests, ReminderTypeOK
<1>2. \A x \in Participant :
        /\ reminder'[x].at = reminder[x].at
        /\ reminder'[x].gen = reminder[x].gen
        /\ reminder'[x].invited = reminder[x].invited
        /\ ~hosted => reminder'[x] = reminder[x]
        /\ hosted /\ ~ClaimedBy(w, x) => (reminder'[x].sent <=> reminder[x].sent)
        /\ hosted /\ ClaimedBy(w, x) => (reminder'[x].sent <=> outcome[w][x] = "notified")
  BY EndFacts
<1>3. /\ ~hosted => notices' = notices
      /\ hosted => \A x \in Participant : outcome[w][x] # "notified" => notices'[x] = notices[x]
  BY EndFacts
<1>4. w \notin notified
  BY <1>1 DEF ClaimShape
<1>5. ClaimShape'
  BY <1>1 DEF ClaimShape
<1>6. TimeIsOfRow'
  <2>1. \A v \in Sweeper : notifying'[v] # NoOne => notifying'[v] = notifying[v] /\ notifying[v][1] \in Participant
    BY <1>1, ClaimTypes
  <2>. QED
    BY <1>2, <2>1 DEF TimeIsOfRow
<1>7. OldIsExcused'
  <2>1. \A v \in Sweeper : \A c \in claims'[v] : c \in claims[v] /\ c[1] \in Participant
    BY <1>1, ClaimTypes
  <2>. QED
    BY <1>1, <1>2, <2>1 DEF OldIsExcused, Excused
<1>8. \A v \in Sweeper, x \in Participant :
        Pending(v, x, reminder[x].gen)' => Pending(v, x, reminder[x].gen)
  BY <1>1, <1>2 DEF Pending
<1>9. HeldWhilePending'
  BY <1>1, <1>2, <1>8 DEF HeldWhilePending, Excused
<1>10. OneDelivers'
  BY <1>1, <1>2, <1>8 DEF OneDelivers, Excused
<1>11. NotYetSent'
  BY <1>1, <1>3, <1>4 DEF NotYetSent
<1>12. UnsentIsNew'
  <2>0. \A x \in Participant : /\ reminder'[x].at = reminder[x].at /\ reminder'[x].gen = reminder[x].gen
                               /\ reminder'[x].invited = reminder[x].invited
 /\ reminder'[x].invited = reminder[x].invited
    BY <1>2
  <2> SUFFICES ASSUME NEW x \in Participant, meeting # "removed", reminder[x].invited, ~reminder'[x].sent,
                      notices'[x][reminder[x].at] > 0, ~Excused(x)
               PROVE  /\ ~hosted
                      /\ \E v \in notified' : notifying'[v] = <<x, reminder[x].gen, reminder[x].at>>
    BY <1>1, <2>0 DEF UnsentIsNew, Excused
  <2>1. CASE hosted
    <3>1. outcome[w][x] # "notified" /\ ~reminder[x].sent
      BY <1>2, <2>1 DEF Locked
    <3>2. notices'[x] = notices[x]
      BY <1>3, <2>1, <3>1
    <3>. QED
      BY <2>1, <3>1, <3>2 DEF UnsentIsNew
  <2>2. CASE ~hosted
    <3>1. PICK v \in notified : notifying[v] = <<x, reminder[x].gen, reminder[x].at>>
      BY <1>2, <1>3, <2>2 DEF UnsentIsNew
    <3>. QED
      BY <1>1, <1>4, <2>2, <3>1 DEF ReminderTypeOK
  <2>. QED
    BY <2>1, <2>2
<1>13. Locked'
  <2> SUFFICES ASSUME hosted, NEW v \in Sweeper, NEW x \in Participant
               PROVE  /\ outcome'[v][x] = "notified" => ClaimedBy(v, x)'
                      /\ ClaimedBy(v, x)' =>
                            /\ meeting # "removed" /\ reminder'[x].invited /\ ~reminder'[x].sent
                            /\ \A z \in Sweeper : ClaimedBy(z, x)' => z = v
    BY <1>1 DEF Locked
  <2>1. \A z \in Sweeper : ClaimedBy(z, x)' <=> z # w /\ ClaimedBy(z, x)
    BY <1>1 DEF ClaimedBy
  <2>2. outcome'[v][x] = "notified" => v # w /\ outcome[v][x] = "notified"
    BY <1>1
  <2>3. ClaimedBy(v, x) /\ v # w => ~ClaimedBy(w, x) /\ reminder'[x].invited /\ ~reminder'[x].sent
    BY <1>2 DEF Locked
  <2>. QED
    BY <2>1, <2>2, <2>3 DEF Locked
<1>. QED
  BY <1>5, <1>6, <1>7, <1>9, <1>10, <1>11, <1>12, <1>13

\* A sweep that dies between notification and mark excuses the next one.
LEMMA LostKeeps ==
    ASSUME ReminderTypeOK, RemindersKept, NEW w \in Sweeper, SweepLost(w)
    PROVE  RemindersKept'
<1> USE DEF RemindersKept
<1>1. /\ UNCHANGED <<hosted, meeting, reminder, notices>>
      /\ claims'[w] = {} /\ rest'[w] = {} /\ notifying'[w] = NoOne
      /\ \A u \in Participant : outcome'[w][u] = "none"
      /\ \A v \in Sweeper : v # w => /\ claims'[v] = claims[v] /\ rest'[v] = rest[v]
                                     /\ notifying'[v] = notifying[v] /\ outcome'[v] = outcome[v]
      /\ notified' = notified \ {w}
      /\ excused \subseteq excused'
      /\ ~hosted /\ w \in notified => <<notifying[w][1], notifying[w][3]>> \in excused'
  BY DEF SweepLost, Rests, ReminderTypeOK
<1>2. ClaimShape'
  BY <1>1 DEF ClaimShape
<1>3. TimeIsOfRow' /\ OldIsExcused'
  BY <1>1 DEF TimeIsOfRow, OldIsExcused, Excused
<1>4. \A v \in Sweeper, x \in Participant :
        Pending(v, x, reminder[x].gen)' => Pending(v, x, reminder[x].gen)
  BY <1>1 DEF Pending
<1>5. HeldWhilePending'
  BY <1>1, <1>4 DEF HeldWhilePending, Excused
<1>6. OneDelivers'
  BY <1>1, <1>4 DEF OneDelivers, Excused
<1>7. NotYetSent'
  BY <1>1 DEF NotYetSent
<1>8. UnsentIsNew'
  <2> SUFFICES ASSUME NEW x \in Participant, meeting # "removed", reminder[x].invited, ~reminder[x].sent,
                      notices[x][reminder[x].at] > 0, <<x, reminder[x].at>> \notin excused'
               PROVE  /\ ~hosted
                      /\ \E v \in notified' : notifying'[v] = <<x, reminder[x].gen, reminder[x].at>>
    BY <1>1 DEF UnsentIsNew, Excused
  <2>1. ~hosted /\ \E v \in notified : notifying[v] = <<x, reminder[x].gen, reminder[x].at>>
    BY <1>1 DEF UnsentIsNew, Excused
  <2>2. PICK v \in notified : notifying[v] = <<x, reminder[x].gen, reminder[x].at>>
    BY <2>1
  <2>3. v # w
    BY <1>1, <2>1, <2>2
  <2>. QED
    BY <1>1, <2>1, <2>2, <2>3 DEF ReminderTypeOK
<1>9. Locked'
  <2>1. \A z \in Sweeper, x \in Participant : ClaimedBy(z, x)' <=> z # w /\ ClaimedBy(z, x)
    BY <1>1 DEF ClaimedBy
  <2>2. \A v \in Sweeper, x \in Participant :
          outcome'[v][x] = "notified" => v # w /\ outcome[v][x] = "notified"
    BY <1>1
  <2>. QED
    BY <1>1, <2>1, <2>2 DEF Locked
<1>. QED
  BY <1>2, <1>3, <1>5, <1>6, <1>7, <1>8, <1>9

\* An update excuses every row that is being delivered or was sent before.
LEMMA ReplaceKeeps ==
    ASSUME ReminderTypeOK, RemindersKept, NEW e \in Editor, NEW t \in Moment, NEW P \in SUBSET Participant,
           ReplaceRows(e, t, P)
    PROVE  RemindersKept'
<1> USE DEF RemindersKept
<1>1. CASE meeting = "removed"
  BY <1>1, KeptAside DEF ReplaceRows, noticeVars
<1>2. CASE meeting # "removed"
  <2>1. /\ UNCHANGED <<hosted, meeting, claims, rest, notifying, notified, outcome, notices>>
        /\ excused \subseteq excused'
        /\ \A u \in Participant : ~RowLocked(u)
        /\ \A u \in P : MayRepeat(e, u, t) => <<u, t>> \in excused'
        /\ reminder' = [u \in Participant |-> Replacement(e, u, t, P)]
    BY <1>2 DEF ReplaceRows, sweepVars
  <2>2. \A u \in Participant :
          /\ reminder'[u].at = t
          /\ reminder'[u].gen = reminder[u].gen + 1
          /\ reminder'[u].invited <=> u \in P
          /\ reminder'[u].sent <=> u \in P /\ KnowsRow(e, u, t) /\ seen[e][u].sent
    BY <2>1, ReplacementFacts
  <2>3. \A u \in Participant : reminder[u].gen \in Nat
    BY RowFacts DEF ReminderTypeOK
  <2>4. \A w \in Sweeper : \A c \in claims[w] :
          /\ c[1] \in Participant /\ c[2] \in Nat
          /\ c[2] <= reminder[c[1]].gen
          /\ c[1] \in P => <<c[1], t>> \in excused'
    BY <2>1, ClaimTypes DEF OldIsExcused, MayRepeat, ClaimedBy
  <2>5. \A w \in Sweeper : notifying[w] # NoOne =>
          /\ notifying[w][1] \in Participant /\ notifying[w][2] \in Nat
          /\ notifying[w][2] <= reminder[notifying[w][1]].gen
    <3>1. \A w \in Sweeper : notifying[w] # NoOne => <<notifying[w][1], notifying[w][2]>> \in claims[w]
      BY DEF ClaimShape
    <3>. QED
      BY <2>4, <3>1
  <2>6. \A w \in Sweeper, u \in Participant : ~Pending(w, u, reminder'[u].gen)
    <3> SUFFICES ASSUME NEW w \in Sweeper, NEW u \in Participant, Pending(w, u, reminder'[u].gen)
                 PROVE  FALSE
      OBVIOUS
    <3>1. CASE <<u, reminder'[u].gen>> \in rest[w]
      <4>1. <<u, reminder'[u].gen>> \in claims[w]
        BY <3>1 DEF ClaimShape
      <4>2. reminder'[u].gen <= reminder[u].gen
        BY <2>4, <4>1
      <4>. QED
        BY <2>2, <2>3, <4>2
    <3>2. CASE notifying[w] # NoOne /\ notifying[w][1] = u /\ notifying[w][2] = reminder'[u].gen
      BY <2>2, <2>3, <2>5, <3>2
    <3>. QED
      BY <3>1, <3>2 DEF Pending
  <2>7. ClaimShape'
    BY <2>1 DEF ClaimShape
  <2>8. TimeIsOfRow'
    BY <2>1, <2>2, <2>3, <2>5 DEF TimeIsOfRow
  <2>9. OldIsExcused'
    <3>1. \A n, k \in Nat : n <= k => n <= k + 1
      OBVIOUS
    <3>2. \A w \in Sweeper : \A c \in claims[w] : c[2] <= reminder'[c[1]].gen
      BY <2>2, <2>3, <2>4, <3>1
    <3>. QED
      BY <2>1, <2>2, <2>4, <3>2 DEF OldIsExcused, Excused
  <2>10. \A w \in Sweeper, u \in Participant : ~Pending(w, u, reminder[u].gen)'
    BY <2>1, <2>6 DEF Pending
  <2>11. HeldWhilePending'
    BY <2>10 DEF HeldWhilePending
  <2>12. OneDelivers'
    BY <2>1, <2>10 DEF OneDelivers
  <2>13. NotYetSent'
    BY <2>1 DEF NotYetSent
  <2>14. UnsentIsNew'
    <3> SUFFICES ASSUME NEW x \in P, ~reminder'[x].sent, notices[x][t] > 0
                 PROVE  <<x, t>> \in excused'
      BY <2>1, <2>2 DEF UnsentIsNew, Excused
    <3>1. CASE MayRepeat(e, x, t)
      BY <2>1, <3>1
    <3>2. CASE ~MayRepeat(e, x, t)
      <4>1. /\ seen[e][x] = reminder[x] /\ KnowsRow(e, x, t) /\ x \in Participant
            /\ \A w \in Sweeper : ~ClaimedBy(w, x)
        BY <3>2 DEF MayRepeat
      <4>2. reminder[x].invited /\ reminder[x].at = t /\ ~reminder[x].sent
        BY <2>2, <4>1 DEF KnowsRow
      <4>3. \A w \in notified : notifying[w] # <<x, reminder[x].gen, reminder[x].at>>
        <5> SUFFICES ASSUME NEW w \in notified, notifying[w] = <<x, reminder[x].gen, reminder[x].at>>
                     PROVE  FALSE
          OBVIOUS
        <5>1. w \in Sweeper /\ notifying[w] # NoOne
          BY DEF ReminderTypeOK, ClaimShape
        <5>2. <<notifying[w][1], notifying[w][2]>> \in claims[w] /\ notifying[w][1] = x
          BY <5>1 DEF ClaimShape
        <5>. QED
          BY <4>1, <5>1, <5>2 DEF ClaimedBy
      <4>. QED
        BY <1>2, <2>1, <4>1, <4>2, <4>3 DEF UnsentIsNew, Excused
    <3>. QED
      BY <3>1, <3>2
  <2>15. Locked'
    <3>1. hosted => \A w \in Sweeper, x \in Participant : ~ClaimedBy(w, x) /\ outcome[w][x] # "notified"
      BY <2>1 DEF RowLocked, Locked
    <3>. QED
      BY <2>1, <3>1 DEF Locked, ClaimedBy
  <2>. QED
    BY <2>7, <2>8, <2>9, <2>11, <2>12, <2>13, <2>14, <2>15
<1>. QED
  BY <1>1, <1>2
\* Every step keeps the rest of the inductive invariant.
LEMMA KeptStep == RemindersInv /\ [ReminderNext]_reminderVars => RemindersKept'
<1> SUFFICES ASSUME ReminderTypeOK, RemindersKept, [ReminderNext]_reminderVars PROVE RemindersKept'
  BY DEF RemindersInv
<1>1. CASE TimePasses \/ MeetingEnds \/ RemoveMeeting \/ UNCHANGED reminderVars
  BY <1>1, KeptAside DEF TimePasses, MeetingEnds, RemoveMeeting, reminderVars
<1>2. ASSUME NEW e \in Editor, ReadForUpdate(e) PROVE RemindersKept'
  BY <1>2, KeptAside DEF ReadForUpdate
<1>3. ASSUME NEW w \in Sweeper, MarkSent(w) \/ NotificationFails(w) \/ MarkFails(w) PROVE RemindersKept'
  BY <1>3, RecordKeeps DEF MarkSent, NotificationFails, MarkFails, RemindersKept, ClaimShape
<1>. QED
  BY <1>1, <1>2, <1>3, LeaseKeeps, ClaimKeeps, ReadKeeps, NotifyKeeps, EndKeeps, LostKeeps, ReplaceKeeps
  DEF ReminderNext, SweepStep

\* The inductive invariant holds in every behaviour.
LEMMA RemindersInvHolds == ReminderSpec => []RemindersInv
<1>1. ReminderInit => RemindersInv
  <2> SUFFICES ASSUME ReminderInit PROVE RemindersInv
    OBVIOUS
  <2>1. PICK t \in Moment, P \in SUBSET Participant :
             /\ reminder = [u \in Participant |-> IF u \in P THEN NewRow(t) ELSE NoRow(t)]
             /\ seen = [e \in Editor |-> reminder]
    BY DEF ReminderInit
  <2>2. NewRow(t) \in Reminder /\ NoRow(t) \in Reminder
    BY DEF NewRow, NoRow, Reminder
  <2>3. reminder \in [Participant -> Reminder]
    BY <2>1, <2>2
  <2>4. seen \in [Editor -> [Participant -> Reminder]]
    BY <2>1, <2>3
  <2>5. ReminderTypeOK
    BY <2>3, <2>4 DEF ReminderInit, ReminderTypeOK
  <2>6. \A u \in Participant : notices[u][reminder[u].at] = 0
    BY <2>5, RowFacts DEF ReminderInit, ReminderTypeOK
  <2>7. RemindersKept
    BY <2>5, <2>6
    DEF ReminderInit, RemindersKept, ClaimShape, TimeIsOfRow, OldIsExcused, HeldWhilePending,
        OneDelivers, NotYetSent, UnsentIsNew, Locked, Pending, ClaimedBy
  <2>. QED
    BY <2>5, <2>7 DEF RemindersInv
<1>2. RemindersInv /\ [ReminderNext]_reminderVars => RemindersInv'
  BY ReminderTypeStep, KeptStep DEF RemindersInv, RemindersKept
<1>. QED
  BY <1>1, <1>2, PTL DEF ReminderSpec

\* Type correctness of the reminders and the sweeps.
THEOREM ReminderTypeCorrect == ReminderSpec => []ReminderTypeOK
<1>1. RemindersInv => ReminderTypeOK
  BY DEF RemindersInv
<1>. QED
  BY <1>1, RemindersInvHolds, PTL

-----------------------------------------------------------------------------
\* The only two steps that make notifications make one, of a moment nobody has
\* made one of.
LEMMA NoticesGrow ==
    ASSUME RemindersInv, [ReminderNext]_reminderVars, NEW u \in Participant, NEW t \in Moment
    PROVE  /\ notices'[u][t] \in {notices[u][t], notices[u][t] + 1}
           /\ notices'[u][t] # notices[u][t] => notices[u][t] = 0 \/ <<u, t>> \in excused
<1>1. CASE notices' = notices
  BY <1>1
<1>2. ASSUME NEW w \in Sweeper, Notify(w), ~hosted
      PROVE  /\ notices'[u][t] \in {notices[u][t], notices[u][t] + 1}
             /\ notices'[u][t] # notices[u][t] => notices[u][t] = 0 \/ <<u, t>> \in excused
  <2>1. /\ notifying[w] # NoOne /\ w \notin notified
        /\ notices' = [notices EXCEPT ![notifying[w][1]][notifying[w][3]] = @ + 1]
    BY <1>2 DEF Notify
  <2>2. /\ notifying[w][1] \in Participant /\ notifying[w][3] \in Moment
        /\ notices \in [Participant -> [Moment -> Nat]]
    BY <2>1, ClaimTypes DEF RemindersInv, ReminderTypeOK
  <2>3. CASE u = notifying[w][1] /\ t = notifying[w][3]
    <3>1. notices'[u][t] = notices[u][t] + 1
      BY <2>1, <2>2, <2>3
    <3>2. notices[u][t] = 0 \/ <<u, t>> \in excused
      BY <1>2, <2>1, <2>3 DEF RemindersInv, RemindersKept, NotYetSent
    <3>. QED
      BY <3>1, <3>2
  <2>4. CASE u # notifying[w][1] \/ t # notifying[w][3]
    BY <2>1, <2>2, <2>4
  <2>. QED
    BY <2>3, <2>4
<1>3. ASSUME NEW w \in Sweeper, SweepEnds(w), hosted
      PROVE  /\ notices'[u][t] \in {notices[u][t], notices[u][t] + 1}
             /\ notices'[u][t] # notices[u][t] => notices[u][t] = 0 \/ <<u, t>> \in excused
  <2>1. /\ outcome[w][u] # "notified" => notices'[u] = notices[u]
        /\ outcome[w][u] = "notified" =>
             notices'[u][t] = IF t = reminder[u].at THEN notices[u][t] + 1 ELSE notices[u][t]
    BY <1>3, EndFacts DEF RemindersInv
  <2>2. outcome[w][u] = "notified" => meeting # "removed" /\ reminder[u].invited /\ ~reminder[u].sent
    BY <1>3 DEF RemindersInv, RemindersKept, Locked
  <2>3. notices[u][t] \in Nat
    BY DEF RemindersInv, ReminderTypeOK
  <2>4. outcome[w][u] = "notified" /\ t = reminder[u].at => notices[u][t] = 0 \/ <<u, t>> \in excused
    BY <1>3, <2>2, <2>3 DEF RemindersInv, RemindersKept, UnsentIsNew, Excused
  <2>. QED
    BY <2>1, <2>4
<1>4. \/ notices' = notices
      \/ \E w \in Sweeper : (Notify(w) /\ ~hosted) \/ (SweepEnds(w) /\ hosted)
  BY DEF ReminderNext, SweepStep, reminderVars, noticeVars, TimePasses, MeetingEnds, RemoveMeeting,
         LeaseRunsOut, ClaimReminders, ReadReminder, Notify, MarkSent, NotificationFails, MarkFails, Records,
         SweepEnds, SweepLost, ReadForUpdate, ReplaceRows
<1>. QED
  BY <1>1, <1>2, <1>3, <1>4

\* A repetition that was excused stays excused.
LEMMA ExcusesStay == [ReminderNext]_reminderVars => excused \subseteq excused'
  BY DEF ReminderNext, SweepStep, reminderVars, noticeVars, TimePasses, MeetingEnds, RemoveMeeting,
         LeaseRunsOut, ClaimReminders, ReadReminder, Notify, MarkSent, NotificationFails, MarkFails, Records,
         SweepEnds, SweepLost, ReadForUpdate, ReplaceRows

\* No participant is notified twice of a moment without one of the excuses.
THEOREM OneNoticeEach == ReminderSpec => []RemindedOnce
<1>1. ReminderInit => RemindedOnce
  BY DEF ReminderInit, RemindedOnce
<1>2. RemindersInv /\ RemindedOnce /\ [ReminderNext]_reminderVars => RemindedOnce'
  <2> SUFFICES ASSUME RemindersInv, RemindedOnce, [ReminderNext]_reminderVars,
                      NEW u \in Participant, NEW t \in Moment, notices'[u][t] > 1
               PROVE  <<u, t>> \in excused
    BY ExcusesStay DEF RemindedOnce
  <2>1. notices[u][t] \in Nat
    BY DEF RemindersInv, ReminderTypeOK
  <2>. QED
    BY <2>1, NoticesGrow DEF RemindedOnce
<1>. QED
  BY <1>1, <1>2, RemindersInvHolds, PTL DEF ReminderSpec

-----------------------------------------------------------------------------
(***************************************************************************)
(* A mark stands for a notification: in the row, in the copy of it that an *)
(* update has read, and in the hands of the sweep that will record it.     *)
(***************************************************************************)
Vouched == SentWasNotified /\ SeenWasNotified /\ NotifiedIsCounted

\* Every step keeps the three.
LEMMA VouchedStep == RemindersInv /\ Vouched /\ [ReminderNext]_reminderVars => Vouched'
<1> SUFFICES ASSUME RemindersInv, ReminderTypeOK, Vouched, [ReminderNext]_reminderVars PROVE Vouched'
  BY DEF RemindersInv
<1> USE DEF Vouched
<1>1. ASSUME NEW u \in Participant, NEW t \in Moment, notices[u][t] > 0 PROVE notices'[u][t] > 0
  <2>1. notices[u][t] \in Nat
    BY DEF ReminderTypeOK
  <2>2. notices'[u][t] \in {notices[u][t], notices[u][t] + 1}
    BY NoticesGrow
  <2>. QED
    BY <1>1, <2>1, <2>2
<1>2. \A u \in Participant : /\ reminder[u].at \in Moment
                             /\ \A e \in Editor : seen[e][u].at \in Moment
  BY RowFacts DEF ReminderTypeOK
<1>3. hosted' = hosted
  BY DEF ReminderNext, SweepStep, reminderVars, TimePasses, MeetingEnds, RemoveMeeting,
         LeaseRunsOut, ClaimReminders, ReadReminder, Notify, MarkSent, NotificationFails, MarkFails, Records,
         SweepEnds, SweepLost, ReadForUpdate, ReplaceRows
<1>4. SeenWasNotified'
  <2>1. ASSUME NEW e \in Editor, ReadForUpdate(e) PROVE SeenWasNotified'
    <3>1. /\ seen'[e] = reminder /\ notices' = notices
          /\ \A f \in Editor : f # e => seen'[f] = seen[f]
      BY <2>1 DEF ReadForUpdate, ReminderTypeOK, noticeVars
    <3>. QED
      BY <3>1 DEF SeenWasNotified, SentWasNotified
  <2>2. CASE seen' = seen
    BY <1>1, <1>2, <2>2 DEF SeenWasNotified
  <2>. QED
    BY <2>1, <2>2
    DEF ReminderNext, SweepStep, reminderVars, editVars, TimePasses, MeetingEnds, RemoveMeeting,
        LeaseRunsOut, ClaimReminders, ReadReminder, Notify, MarkSent, NotificationFails, MarkFails, Records,
        SweepEnds, SweepLost, ReplaceRows
<1>5. NotifiedIsCounted'
  <2>1. ASSUME NEW w \in Sweeper, Notify(w) PROVE NotifiedIsCounted'
    <3>1. notified' = notified \cup {w} /\ notifying' = notifying /\ notifying[w] # NoOne
      BY <2>1 DEF Notify
    <3>2. /\ notifying[w][1] \in Participant /\ notifying[w][3] \in Moment
          /\ notices \in [Participant -> [Moment -> Nat]]
      BY <3>1, ClaimTypes DEF ReminderTypeOK
    <3>3. ~hosted => notices'[notifying[w][1]][notifying[w][3]] > 0
      BY <2>1, <3>2 DEF Notify
    <3>4. \A v \in notified : notifying[v][1] \in Participant /\ notifying[v][3] \in Moment
      BY ClaimTypes DEF RemindersInv, RemindersKept, ClaimShape, ReminderTypeOK
    <3>. QED
      BY <1>1, <1>3, <3>1, <3>3, <3>4 DEF NotifiedIsCounted
  <2>2. CASE notified' \subseteq notified /\ \A v \in notified' : notifying'[v] = notifying[v]
    <3>1. \A v \in notified : notifying[v][1] \in Participant /\ notifying[v][3] \in Moment
      BY ClaimTypes DEF RemindersInv, RemindersKept, ClaimShape, ReminderTypeOK
    <3>. QED
      BY <1>1, <1>3, <2>2, <3>1 DEF NotifiedIsCounted
  <2>3. ASSUME NEW w \in Sweeper, NEW c \in rest[w], ReadReminder(w, c)
        PROVE  notified' \subseteq notified /\ \A v \in notified' : notifying'[v] = notifying[v]
    BY <2>3 DEF ReadReminder, RemindersInv, RemindersKept, ClaimShape, ReminderTypeOK
  <2>4. ASSUME NEW w \in Sweeper, SweepEnds(w) \/ SweepLost(w) \/ MarkSent(w) \/ NotificationFails(w) \/ MarkFails(w)
        PROVE  notified' \subseteq notified /\ \A v \in notified' : notifying'[v] = notifying[v]
    BY <2>4 DEF SweepEnds, SweepLost, Rests, MarkSent, NotificationFails, MarkFails, Records, ReminderTypeOK
  <2>. QED
    BY <2>1, <2>2, <2>3, <2>4
    DEF ReminderNext, SweepStep, reminderVars, sweepVars, TimePasses, MeetingEnds, RemoveMeeting,
        LeaseRunsOut, ClaimReminders, ReadForUpdate, ReplaceRows
<1>6. SentWasNotified'
  <2>1. CASE \A u \in Participant : reminder'[u].at = reminder[u].at /\ (reminder'[u].sent => reminder[u].sent)
    BY <1>1, <1>2, <2>1 DEF SentWasNotified
  <2>2. ASSUME NEW w \in Sweeper, NEW result \in {"notified", "failed"}, Records(w, result), notifying[w] # NoOne,
               result = "notified" => w \in notified
        PROVE  SentWasNotified'
    <3>1. notifying[w][1] \in Participant /\ notifying[w][3] \in Moment /\ notices' = notices
      BY <2>2, ClaimTypes DEF Records, noticeVars
    <3>2. \A x \in Participant :
            /\ reminder'[x].at = reminder[x].at
            /\ reminder'[x].sent <=> \/ reminder[x].sent
                                     \/ /\ ~hosted /\ result = "notified"
                                        /\ x = notifying[w][1] /\ IsRow(x, notifying[w][2])
      BY <2>2, <3>1, RecordFacts
    <3>3. ~hosted /\ result = "notified" => notices[notifying[w][1]][notifying[w][3]] > 0
      BY <2>2 DEF NotifiedIsCounted
    <3>4. IsRow(notifying[w][1], notifying[w][2]) => notifying[w][3] = reminder[notifying[w][1]].at
      BY <2>2 DEF IsRow, RemindersInv, RemindersKept, TimeIsOfRow
    <3>. QED
      BY <3>1, <3>2, <3>3, <3>4 DEF SentWasNotified
  <2>3. ASSUME NEW w \in Sweeper, MarkSent(w) \/ NotificationFails(w) \/ MarkFails(w) PROVE SentWasNotified'
    BY <2>2, <2>3 DEF MarkSent, NotificationFails, MarkFails, RemindersInv, RemindersKept, ClaimShape
  <2>4. ASSUME NEW w \in Sweeper, SweepEnds(w) PROVE SentWasNotified'
    <3>1. CASE ~hosted
      BY <2>1, <2>4, <3>1, EndFacts
    <3>2. CASE hosted
      <4> SUFFICES ASSUME NEW u \in Participant, reminder'[u].sent PROVE notices'[u][reminder[u].at] > 0
        BY <2>4, <3>2, EndFacts DEF SentWasNotified
      <4>1. CASE reminder[u].sent
        BY <1>1, <1>2, <4>1 DEF SentWasNotified
      <4>2. CASE ~reminder[u].sent
        <5>1. outcome[w][u] = "notified"
          BY <2>4, <3>2, <4>2, EndFacts
        <5>2. notices'[u][reminder[u].at] = notices[u][reminder[u].at] + 1
          BY <1>2, <2>4, <3>2, <5>1, EndFacts
        <5>3. notices[u][reminder[u].at] \in Nat
          BY <1>2 DEF ReminderTypeOK
        <5>. QED
          BY <5>2, <5>3
      <4>. QED
        BY <4>1, <4>2
    <3>. QED
      BY <3>1, <3>2
  <2>5. ASSUME NEW e \in Editor, NEW t \in Moment, NEW P \in SUBSET Participant, ReplaceRows(e, t, P),
               meeting # "removed"
        PROVE  SentWasNotified'
    <3>1. notices' = notices /\ reminder' = [u \in Participant |-> Replacement(e, u, t, P)]
      BY <2>5 DEF ReplaceRows
    <3>. QED
      BY <3>1, ReplacementFacts DEF SentWasNotified, SeenWasNotified, KnowsRow
  <2>6. ASSUME NEW w \in Sweeper, ClaimReminders(w) PROVE SentWasNotified'
    BY <2>1, <2>6, ClaimFacts
  <2>7. ASSUME NEW u \in Participant, LeaseRunsOut(u) PROVE SentWasNotified'
    BY <2>1, <2>7, LeaseFacts
  <2>8. CASE reminder' = reminder
    BY <2>1, <2>8
  <2>. QED
    BY <2>3, <2>4, <2>5, <2>6, <2>7, <2>8
    DEF ReminderNext, SweepStep, reminderVars, TimePasses, MeetingEnds, RemoveMeeting,
        ReadReminder, Notify, SweepLost, ReadForUpdate, ReplaceRows
<1>. QED
  BY <1>4, <1>5, <1>6

\* A reminder that counts as sent had its notification made, for the time it is
\* set to.
THEOREM MarkMeansNotice == ReminderSpec => []SentWasNotified
<1>1. ReminderInit => Vouched
  BY DEF ReminderInit, Vouched, SentWasNotified, SeenWasNotified, NotifiedIsCounted, NewRow, NoRow
<1>2. Vouched => SentWasNotified
  BY DEF Vouched
<1>. QED
  BY <1>1, <1>2, VouchedStep, RemindersInvHolds, PTL DEF ReminderSpec

-----------------------------------------------------------------------------
(***************************************************************************)
(* Billing.  TrackedTimeFallsShort and BilledOneWay are about rows; a      *)
(* request saves a copy that it read some steps ago.  BillingInv adds what *)
(* such a request knows: the copy of an even timer still records the row's *)
(* times, and what save() does not write it shares with the row            *)
(* (TimerAsk); what is carried to a task at a fixed price is not billed    *)
(* (BillAsk); and while a change of the task is under way, how far it has  *)
(* come (TaskAsk).                                                         *)
(***************************************************************************)
\* The columns of a timer.
LEMMA TimerFacts ==
    ASSUME NEW t \in Timer
    PROVE  /\ t.status \in {"none", "in_progress", "paused", "completed"}
           /\ t.spent \in Nat /\ t.since \in Nat /\ t.bill \in Review
  BY DEF Timer

\* What a request has in hand.
LEMMA AskingFacts ==
    ASSUME NEW a \in Asking
    PROVE  /\ a.of \in Log \cup {NoLog}
           /\ a.to \in {"none", "in_progress", "paused", "completed"}
           /\ a.copy \in Timer /\ a.diff \subseteq TimerColumn
           /\ a.was \in Task /\ a.wants \in Task
  BY DEF Asking

\* A request that has not started, or is over.
LEMMA QuietFacts ==
    /\ Quiet \in Asking /\ Quiet.step = "idle" /\ Quiet.of = NoLog /\ Quiet.copy = NoTimerRow
    /\ NoTimerRow \in Timer /\ NoTimerRow.status = "none" /\ NoTimerRow.bill = "none"
    /\ NoTimerRow.since = 0 /\ NoTimerRow.spent = 0
  BY DEF Quiet, Asking, NoTimerRow, Timer, Review, Task

\* What a timer has recorded at tick n, how much of a second each of p pauses may
\* drop, and when a record is close to the time a timer ran.
RecordedAt(t, n) == t.spent * Second + (IF t.status = "in_progress" THEN n - t.since ELSE 0)
Cut(p) == p * (Second - 1)
Close(recorded, time, late, cut) == recorded <= time + late /\ time <= recorded + late + cut

\* One more pause may drop all but one tick of a second.
LEMMA CutFacts ==
    ASSUME NEW p \in Nat
    PROVE  Cut(p) \in Nat /\ Cut(p + 1) = Cut(p) + (Second - 1)
  BY BillingAssumption DEF Cut

\* Whole seconds of e ticks, and what is left of them.
LEMMA SecondFacts ==
    ASSUME NEW e \in Nat
    PROVE  /\ e \div Second \in Nat
           /\ (e \div Second) * Second <= e
           /\ e <= (e \div Second) * Second + (Second - 1)
<1>1. e = (e \div Second) * Second + (e % Second) /\ e % Second \in 0..(Second - 1)
  BY BillingAssumption
<1>2. e \div Second \in Nat
  BY BillingAssumption
<1>. QED
  BY BillingAssumption, <1>1, <1>2

\* A sum of seconds, in ticks.
LEMMA SecondsAdd ==
    ASSUME NEW a \in Nat, NEW b \in Nat
    PROVE  a * Second \in Nat /\ (a + b) * Second = a * Second + b * Second
  BY BillingAssumption

\* A running timer records one tick more with each tick.
LEMMA RecordedFacts ==
    ASSUME NEW t \in Timer, NEW n \in Nat, t.since <= n
    PROVE  /\ RecordedAt(t, n) \in Nat
           /\ RecordedAt(t, n + 1) = IF t.status = "in_progress" THEN RecordedAt(t, n) + 1 ELSE RecordedAt(t, n)
<1> DEFINE k == t.spent * Second
           s == t.since
<1>1. k \in Nat /\ s \in Nat /\ s <= n
  BY SecondsAdd DEF Timer
<1>2. RecordedAt(t, n) = k + (IF t.status = "in_progress" THEN n - s ELSE 0)
  BY DEF RecordedAt
<1>3. RecordedAt(t, n + 1) = k + (IF t.status = "in_progress" THEN (n + 1) - s ELSE 0)
  BY DEF RecordedAt
<1> HIDE DEF k, s
<1>. QED
  BY <1>1, <1>2, <1>3

\* Timers that have spent the same record the same when neither has run since.
LEMMA SameRecord ==
    ASSUME NEW t \in Timer, NEW u \in Timer, NEW n \in Nat, t.spent = u.spent,
           t.status # "in_progress", u.status = "in_progress" => u.since = n
    PROVE  RecordedAt(u, n) = RecordedAt(t, n)
<1>1. t.spent * Second \in Nat
  BY SecondsAdd DEF Timer
<1>. QED
  BY <1>1 DEF RecordedAt

\* A pause records what the running timer did, but for less than a second.
LEMMA PauseRecords ==
    ASSUME NEW t \in Timer, NEW u \in Timer, NEW n \in Nat, t.since <= n,
           t.status = "in_progress", u.status = "paused",
           u.spent = t.spent + ((n - t.since) \div Second)
    PROVE  /\ RecordedAt(u, n) <= RecordedAt(t, n)
           /\ RecordedAt(t, n) <= RecordedAt(u, n) + (Second - 1)
<1> DEFINE e == n - t.since
           d == e \div Second
           k == t.spent * Second
<1>1. e \in Nat /\ t.spent \in Nat
  BY DEF Timer
<1>2. d \in Nat /\ d * Second <= e /\ e <= d * Second + (Second - 1)
  BY <1>1, SecondFacts
<1>3. /\ u.spent * Second = k + d * Second /\ k \in Nat
      /\ d * Second \in Nat
  BY <1>1, <1>2, SecondsAdd
<1>4. RecordedAt(t, n) = k + e
  BY DEF RecordedAt
<1>5. RecordedAt(u, n) = k + d * Second
  BY <1>3 DEF RecordedAt
<1> DEFINE m == d * Second
<1>6. m \in Nat /\ m <= e /\ e <= m + (Second - 1) /\ RecordedAt(u, n) = k + m
  BY <1>2, <1>3, <1>5
<1> HIDE DEF e, d, k, m
<1>. QED
  BY BillingAssumption, <1>1, <1>3, <1>4, <1>6

\* The three changes of a timer.
LEMMA ChangedFacts ==
    ASSUME NEW copy \in Timer, NEW to \in {"in_progress", "paused", "completed"},
           now \in Nat, copy.since <= now, task \in Task
    PROVE  /\ Changed(copy, to) \in Timer
           /\ Changed(copy, to).status = to
           /\ Changed(copy, to).since = now
           /\ Changed(copy, to).spent = IF to = "paused" THEN copy.spent + Elapsed(copy) ELSE copy.spent
           /\ Changed(copy, to).bill = IF to = "completed" THEN BilledBy(task.kind, copy.bill) ELSE copy.bill
<1>1. /\ copy.spent \in Nat /\ copy.since \in Nat /\ copy.bill \in Review
  BY DEF Timer
<1>2. copy.spent + Elapsed(copy) \in Nat
  <2>1. now - copy.since \in Nat
    BY <1>1
  <2>2. Elapsed(copy) \in Nat
    BY <2>1, SecondFacts DEF Elapsed
  <2>. QED
    BY <1>1, <2>2
<1>3. BilledBy(task.kind, copy.bill) \in Review
  BY <1>1 DEF BilledBy, Review
<1>4. CASE to = "in_progress"
  <2>1. Changed(copy, to) = [copy EXCEPT !.status = to, !.since = now]
    BY <1>4 DEF Changed
  <2>. QED
    BY <1>1, <1>4, <2>1 DEF Timer
<1>5. CASE to = "paused"
  <2>1. Changed(copy, to) = [copy EXCEPT !.status = to, !.spent = @ + Elapsed(copy), !.since = now]
    BY <1>5 DEF Changed
  <2>. QED
    BY <1>1, <1>2, <1>5, <2>1 DEF Timer
<1>6. CASE to = "completed"
  <2> DEFINE b == BilledBy(task.kind, copy.bill)
  <2>1. Changed(copy, to) = [copy EXCEPT !.status = to, !.since = now, !.bill = b]
    BY <1>6 DEF Changed
  <2> HIDE DEF b
  <2>2. b \in Review
    BY <1>3 DEF b
  <2>3. [copy EXCEPT !.status = to, !.since = now, !.bill = b] \in Timer
    BY <1>1, <1>6, <2>2 DEF Timer
  <2>. QED
    BY <1>1, <1>6, <2>1, <2>2, <2>3 DEF Timer, b
<1>. QED
  BY <1>4, <1>5, <1>6

\* What a save leaves in a row: the columns that differed, of the copy.
SavedRow(q, l) == [c \in TimerColumn |-> IF c \in asking[q].diff THEN asking[q].copy[c] ELSE log[l][c]]

\* Column by column, the row after a save.
LEMMA SavedFacts ==
    ASSUME BillingTypeOK, NEW q \in Request, NEW l \in Log
    PROVE  /\ SavedRow(q, l) \in Timer
           /\ SavedRow(q, l).status = IF "status" \in asking[q].diff THEN asking[q].copy.status ELSE log[l].status
           /\ SavedRow(q, l).spent = IF "spent" \in asking[q].diff THEN asking[q].copy.spent ELSE log[l].spent
           /\ SavedRow(q, l).since = IF "since" \in asking[q].diff THEN asking[q].copy.since ELSE log[l].since
           /\ SavedRow(q, l).bill = IF "bill" \in asking[q].diff THEN asking[q].copy.bill ELSE log[l].bill
<1> DEFINE s == SavedRow(q, l)
           k == asking[q].copy
           r == log[l]
<1>1. k \in Timer /\ r \in Timer
  BY DEF BillingTypeOK, Asking
<1> HIDE DEF k, r
<1>2. /\ s["status"] = IF "status" \in asking[q].diff THEN k["status"] ELSE r["status"]
      /\ s["spent"] = IF "spent" \in asking[q].diff THEN k["spent"] ELSE r["spent"]
      /\ s["since"] = IF "since" \in asking[q].diff THEN k["since"] ELSE r["since"]
      /\ s["bill"] = IF "bill" \in asking[q].diff THEN k["bill"] ELSE r["bill"]
      /\ s = [c \in TimerColumn |-> s[c]]
  BY DEF SavedRow, TimerColumn, k, r
<1> HIDE DEF s
<1>3. s = [status |-> s["status"], spent |-> s["spent"], since |-> s["since"], bill |-> s["bill"]]
  BY <1>2 DEF TimerColumn
<1>4. /\ s.status = s["status"] /\ s.spent = s["spent"] /\ s.since = s["since"] /\ s.bill = s["bill"]
  OBVIOUS
<1>5. s \in Timer
  BY <1>1, <1>2, <1>3 DEF Timer
<1>. QED
  BY <1>2, <1>5 DEF s, k, r


\* Request q now does a; the others go on with what they did.
NowDoes(q, a) ==
    /\ asking' \in [Request -> Asking]
    /\ asking'[q] = a
    /\ \A r \in Request \ {q} : asking'[r] = asking[r]

\* Timer l is now t; the others are as they were.
NowIs(l, t) ==
    /\ log' \in [Log -> Timer]
    /\ log'[l] = t
    /\ \A k \in Log \ {l} : log'[k] = log[k]

\* A request that creates a timer carries the row it will insert.
LEMMA NewTimerFacts ==
    ASSUME BillingTypeOK, NEW q \in Request, NEW l \in Log,
           NEW s \in {"in_progress", "paused", "completed"}, NewTimer(q, l, s)
    PROVE  \E a \in Asking :
              /\ NowDoes(q, a)
              /\ a.step = "new" /\ a.of = l
              /\ a.copy.status = s /\ a.copy.spent = 0 /\ a.copy.since = now
              /\ a.copy.bill = IF s = "completed" THEN BilledBy(task.kind, "none") ELSE "none"
<1> DEFINE b == IF s = "completed" THEN BilledBy(task.kind, "none") ELSE "none"
           t == [status |-> s, spent |-> 0, since |-> now, bill |-> b]
           a == [Quiet EXCEPT !.step = "new", !.of = l, !.copy = t]
<1>1. b \in Review /\ now \in Nat
  BY DEF BilledBy, Review, BillingTypeOK
<1>2. asking' = [asking EXCEPT ![q] = a]
  BY DEF NewTimer, Starts
<1>5. b = IF s = "completed" THEN BilledBy(task.kind, "none") ELSE "none"
  OBVIOUS
<1> HIDE DEF b
<1>3. t \in Timer /\ t.status = s /\ t.spent = 0 /\ t.since = now /\ t.bill = b
  BY <1>1 DEF Timer
<1> HIDE DEF t
<1>4. a \in Asking /\ a.step = "new" /\ a.of = l /\ a.copy = t
  BY <1>3 DEF Quiet, Asking, Task, NoTimerRow, Timer
<1> HIDE DEF a
<1>. QED
  BY <1>2, <1>3, <1>4, <1>5 DEF NowDoes, BillingTypeOK

\* The row it carried is in the table.
LEMMA InsertTimerFacts ==
    ASSUME BillingTypeOK, NEW q \in Request, InsertTimer(q), asking[q].of \in Log
    PROVE  /\ NowDoes(q, Quiet)
           /\ log' = log \/ NowIs(asking[q].of, asking[q].copy)
  BY QuietFacts, AskingFacts DEF InsertTimer, NowDoes, NowIs, BillingTypeOK

\* A request about an existing timer carries its row.
LEMMA ReadTimerFacts ==
    ASSUME BillingTypeOK, NEW q \in Request, NEW l \in Log,
           NEW s \in {"in_progress", "paused", "completed"}, ReadTimer(q, l, s)
    PROVE  \E a \in Asking :
              NowDoes(q, a) /\ a.step = "read" /\ a.of = l /\ a.to = s /\ a.copy = log[l]
<1> DEFINE t == log[l]
           a == [Quiet EXCEPT !.step = "read", !.of = l, !.to = s, !.copy = t]
<1>1. asking' = [asking EXCEPT ![q] = a]
  BY DEF ReadTimer, Starts
<1>2. t \in Timer /\ t = log[l]
  BY DEF BillingTypeOK
<1> HIDE DEF t
<1>3. a \in Asking /\ a.step = "read" /\ a.of = l /\ a.to = s /\ a.copy = t
  BY <1>2 DEF Quiet, Asking, Task, NoTimerRow, Timer
<1> HIDE DEF a
<1>. QED
  BY <1>1, <1>2, <1>3 DEF NowDoes, BillingTypeOK

\* save() has read the row once more and knows which columns differ.
LEMMA CompareTimerFacts ==
    ASSUME BillingTypeOK, NEW q \in Request, CompareTimer(q),
           Changed(asking[q].copy, asking[q].to) \in Timer
    PROVE  \E a \in Asking :
              /\ NowDoes(q, a)
              /\ a.step = "compared" /\ a.of = asking[q].of /\ a.to = asking[q].to
              /\ a.copy = Changed(asking[q].copy, asking[q].to)
              /\ log[a.of].status # "none" => a.diff = {c \in TimerColumn : a.copy[c] # log[a.of][c]}
<1> DEFINE t == Changed(asking[q].copy, asking[q].to)
           l == asking[q].of
           d == IF log[l].status = "none" THEN TimerColumn ELSE {c \in TimerColumn : t[c] # log[l][c]}
           a == [asking[q] EXCEPT !.step = "compared", !.copy = t, !.diff = d]
<1>1. asking' = [asking EXCEPT ![q].step = "compared", ![q].copy = t, ![q].diff = d]
  BY DEF CompareTimer
<1>2. t \in Timer /\ d \subseteq TimerColumn /\ asking[q] \in Asking /\ asking \in [Request -> Asking]
  BY DEF BillingTypeOK
<1>3. log[l].status # "none" => d = {c \in TimerColumn : t[c] # log[l][c]}
  OBVIOUS
<1>4. t = Changed(asking[q].copy, asking[q].to)
  OBVIOUS
<1> HIDE DEF t, d
<1>5. a \in Asking /\ a.step = "compared" /\ a.of = asking[q].of /\ a.to = asking[q].to /\ a.copy = t /\ a.diff = d
  BY <1>2 DEF Asking
<1>6. asking' = [asking EXCEPT ![q] = a]
  BY <1>1, <1>2 DEF Asking
<1> HIDE DEF a
<1>. QED
  BY <1>2, <1>3, <1>4, <1>5, <1>6 DEF NowDoes

\* save() writes those columns, into a row that is there or as a new one.
LEMMA WriteTimerFacts ==
    ASSUME BillingTypeOK, NEW q \in Request, WriteTimer(q), asking[q].of \in Log
    PROVE  /\ NowDoes(q, Quiet)
           /\ \/ log' = log /\ reopened' = reopened
              \/ /\ NowIs(asking[q].of, SavedRow(q, asking[q].of))
                 /\ reopened' = NowReopened(asking[q].of, SavedRow(q, asking[q].of))
                 /\ log[asking[q].of].status # "none" \/ asking[q].diff = TimerColumn
<1> DEFINE l == asking[q].of
<1>1. SavedRow(q, l) \in Timer
  BY SavedFacts
<1>2. NowDoes(q, Quiet)
  BY QuietFacts DEF WriteTimer, NowDoes, BillingTypeOK
<1>3. \/ log' = log /\ reopened' = reopened
      \/ /\ log' = [log EXCEPT ![l] = SavedRow(q, l)]
         /\ reopened' = NowReopened(l, log'[l])
         /\ log[l].status # "none" \/ asking[q].diff = TimerColumn
  BY DEF WriteTimer, SavedRow
<1>. QED
  BY <1>1, <1>2, <1>3 DEF NowIs, BillingTypeOK

\* A deleted timer has no row and never ran.
LEMMA DeleteTimerFacts ==
    ASSUME BillingTypeOK, NEW l \in Log, DeleteTimer(l)
    PROVE  NowIs(l, NoTimerRow) /\ ran' \in [Log -> Nat] /\ ran'[l] = 0 /\ \A k \in Log \ {l} : ran'[k] = ran[k]
  BY QuietFacts DEF DeleteTimer, NowIs, BillingTypeOK

\* A change of the task knows the task as it was and as it is wanted.
LEMMA ReadTaskFacts ==
    ASSUME BillingTypeOK, NEW q \in Request, NEW wants \in Task, ReadTask(q, wants)
    PROVE  \E a \in Asking :
              NowDoes(q, a) /\ a.step = "taskRead" /\ a.of = NoLog /\ a.was = task /\ a.wants = wants
                            /\ a.copy = NoTimerRow
<1> DEFINE a == [Quiet EXCEPT !.step = "taskRead", !.was = task, !.wants = wants]
<1>1. asking' = [asking EXCEPT ![q] = a]
  BY DEF ReadTask, Starts
<1>2. task \in Task
  BY DEF BillingTypeOK
<1>3. a \in Asking /\ a.step = "taskRead" /\ a.of = NoLog /\ a.was = task /\ a.wants = wants /\ a.copy = NoTimerRow
  BY <1>2, QuietFacts DEF Quiet, Asking
<1> HIDE DEF a
<1>. QED
  BY <1>1, <1>3 DEF NowDoes, BillingTypeOK

\* A request of the task that goes on to its next statement.
LEMMA NextStatement ==
    ASSUME BillingTypeOK, NEW q \in Request, NEW s \in {"taskSaved", "logsBilled"},
           asking' = [asking EXCEPT ![q].step = s]
    PROVE  \E a \in Asking :
              NowDoes(q, a) /\ a.step = s /\ a.of = asking[q].of /\ a.was = asking[q].was
                            /\ a.wants = asking[q].wants /\ a.copy = asking[q].copy
<1> DEFINE a == [asking[q] EXCEPT !.step = s]
<1>1. asking[q] \in Asking /\ asking \in [Request -> Asking]
  BY DEF BillingTypeOK
<1>2. a \in Asking /\ a.step = s /\ a.of = asking[q].of /\ a.was = asking[q].was
      /\ a.wants = asking[q].wants /\ a.copy = asking[q].copy
  BY <1>1 DEF Asking
<1>3. asking' = [asking EXCEPT ![q] = a]
  BY <1>1 DEF Asking
<1> HIDE DEF a
<1>. QED
  BY <1>1, <1>2, <1>3 DEF NowDoes

\* Only the review of a completed timelog changes with the way of billing.
LEMMA RebilledFacts ==
    ASSUME NEW t \in Timer, NEW kind \in {"HOURLY", "FIXED"}
    PROVE  /\ Rebilled(t, kind) \in Timer
           /\ Rebilled(t, kind).status = t.status
           /\ Rebilled(t, kind).spent = t.spent
           /\ Rebilled(t, kind).since = t.since
           /\ t.status # "completed" => Rebilled(t, kind).bill = t.bill
           /\ kind = "FIXED" /\ t.status = "completed" => Rebilled(t, kind).bill = "none"
           /\ Rebilled(t, kind).bill # "none" => t.bill # "none" \/ kind = "HOURLY"
<1>1. Rebilled(t, kind) \in {t, [t EXCEPT !.bill = "none"], [t EXCEPT !.bill = "pending"]}
  BY DEF Rebilled
<1>2. CASE t.status = "completed" /\ kind = "FIXED"
  <2>1. Rebilled(t, kind) = [t EXCEPT !.bill = "none"]
    BY <1>2 DEF Rebilled
  <2>. QED
    BY <1>2, <2>1 DEF Timer, Review
<1>3. CASE t.status = "completed" /\ kind = "HOURLY" /\ t.bill = "none"
  <2>1. Rebilled(t, kind) = [t EXCEPT !.bill = "pending"]
    BY <1>3 DEF Rebilled
  <2>. QED
    BY <1>3, <2>1 DEF Timer, Review
<1>4. CASE ~(t.status = "completed" /\ kind = "FIXED") /\ ~(t.status = "completed" /\ kind = "HOURLY" /\ t.bill = "none")
  <2>1. Rebilled(t, kind) = t
    BY <1>4 DEF Rebilled
  <2>. QED
    BY <1>4, <2>1
<1>. QED
  BY <1>2, <1>3, <1>4

\* A task whose way of billing changes rewrites the reviews of its timelogs.
LEMMA BillLogsFacts ==
    ASSUME BillingTypeOK, NEW q \in Request, BillLogs(q)
    PROVE  /\ log' \in [Log -> Timer]
           /\ IF asking[q].wants.kind # asking[q].was.kind
              THEN \A l \in Log : log'[l] = Rebilled(log[l], asking[q].wants.kind)
              ELSE log' = log
           /\ asking[q].wants.kind \in {"HOURLY", "FIXED"}
<1>1. asking[q].wants.kind \in {"HOURLY", "FIXED"}
  BY AskingFacts DEF BillingTypeOK, Task
<1>2. \A l \in Log : log[l] \in Timer
  BY DEF BillingTypeOK
<1>. QED
  BY <1>1, <1>2, RebilledFacts DEF BillLogs, BillingTypeOK

\* A review knows the timelog it found pending.
LEMMA SeePendingFacts ==
    ASSUME BillingTypeOK, NEW q \in Request, NEW l \in Log, SeePending(q, l)
    PROVE  \E a \in Asking : NowDoes(q, a) /\ a.step = "seen" /\ a.of = l /\ a.copy = NoTimerRow
<1> DEFINE a == [Quiet EXCEPT !.step = "seen", !.of = l]
<1>1. asking' = [asking EXCEPT ![q] = a]
  BY DEF SeePending, Starts
<1>2. a \in Asking /\ a.step = "seen" /\ a.of = l /\ a.copy = NoTimerRow
  BY QuietFacts DEF Quiet, Asking
<1> HIDE DEF a
<1>. QED
  BY <1>1, <1>2 DEF NowDoes, BillingTypeOK

\* A review writes the timelog that it saw, whatever became of it.
LEMMA ReviewTimerFacts ==
    ASSUME BillingTypeOK, NEW q \in Request, NEW d \in {"approved", "rejected"}, ReviewTimer(q, d),
           asking[q].of \in Log
    PROVE  /\ NowDoes(q, Quiet)
           /\ \E t \in Timer :
                /\ NowIs(asking[q].of, t) /\ reopened' = NowReopened(asking[q].of, t)
                /\ t.status = log[asking[q].of].status
                /\ t.spent = log[asking[q].of].spent
                /\ t.since = log[asking[q].of].since
                /\ t.status = "none" => t = log[asking[q].of]
<1> DEFINE l == asking[q].of
           k == log[l]
           t == IF k.status = "none" THEN k ELSE [k EXCEPT !.bill = d]
<1>1. k \in Timer /\ log \in [Log -> Timer]
  BY DEF BillingTypeOK
<1>2. t \in Timer /\ t.status = k.status /\ t.spent = k.spent /\ t.since = k.since /\ (t.status = "none" => t = k)
  BY <1>1 DEF Timer, Review
<1>3. NowDoes(q, Quiet)
  BY QuietFacts DEF ReviewTimer, NowDoes, BillingTypeOK
<1>4. log' = [log EXCEPT ![l] = t] /\ reopened' = NowReopened(l, log'[l])
  BY <1>1 DEF ReviewTimer, Timer
<1> HIDE DEF t
<1>. QED
  BY <1>1, <1>2, <1>3, <1>4 DEF NowIs


\* The steps of a request about a timer.
TimerSteps == {"new", "read", "compared", "seen"}

\* A request that has not started or changes the task is about no timer, and
\* the others are about a timer whose identifier was given out.
AskFits(a) ==
    /\ a.copy.since <= now
    /\ a.step \notin TimerSteps => a.of = NoLog
    /\ a.step \in TimerSteps => a.of \in used
    /\ a.step = "read" => a.to # "none"
    /\ a.step \in {"new", "compared"} => a.copy.status # "none"

\* A timer with a row had its identifier given out; one without never ran.
LogFits(l) ==
    /\ log[l].since <= now
    /\ log[l].status # "none" => l \in used
    /\ log[l].status = "none" => ran[l] = 0 /\ log[l].bill = "none"

\* What requests and timers look like.
Shape ==
    /\ \A q \in Request : AskFits(asking[q])
    /\ \A l \in Log : LogFits(l)

\* A request about a timer has one.
LEMMA OfIsLog ==
    ASSUME BillingTypeOK, Shape, NEW q \in Request, asking[q].step \in TimerSteps
    PROVE  asking[q].of \in used /\ asking[q].of \in Log /\ asking[q].of # NoLog
  BY BillingAssumption DEF BillingTypeOK, Shape, AskFits

\* What a request that starts leaves.
LEMMA StartTypes ==
    ASSUME BillingTypeOK, NEW q \in Request, NEW a, Starts(q, a)
    PROVE  overtaken' \in BOOLEAN /\ asked' \in Nat
<1>1. overtaken' \in BOOLEAN
  BY DEF Starts, BillingTypeOK
<1>2. asked' = asked + 1 /\ asked \in Nat
  BY DEF Starts, BillingTypeOK
<1>. QED
  BY <1>1, <1>2

\* Reopening is about timelogs.
LEMMA ReopenedType ==
    ASSUME BillingTypeOK, NEW l \in Log, NEW t
    PROVE  NowReopened(l, t) \subseteq Log
  BY DEF BillingTypeOK, NowReopened

\* Every step keeps the types.
LEMMA BillingTypeStep == BillingTypeOK /\ Shape /\ [BillingNext]_billVars => BillingTypeOK'
<1> SUFFICES ASSUME BillingTypeOK, Shape, [BillingNext]_billVars PROVE BillingTypeOK'
  OBVIOUS
<1>1. CASE Tick
  BY <1>1, BillingAssumption DEF Tick, BillingTypeOK
<1>2. ASSUME NEW q \in Request, NEW l \in Log, NEW s \in {"in_progress", "paused", "completed"},
             NewTimer(q, l, s)
      PROVE  BillingTypeOK'
  <2>1. asking' \in [Request -> Asking]
    BY <1>2, NewTimerFacts DEF NowDoes
  <2>2. overtaken' \in BOOLEAN /\ asked' \in Nat
    BY <1>2, StartTypes DEF NewTimer
  <2>. QED
    BY <1>2, <2>1, <2>2 DEF NewTimer, timeGhosts, BillingTypeOK
<1>3. ASSUME NEW q \in Request, InsertTimer(q) PROVE BillingTypeOK'
  <2>1. asking' \in [Request -> Asking] /\ log' \in [Log -> Timer]
    BY <1>3, InsertTimerFacts, OfIsLog DEF InsertTimer, NowDoes, NowIs, TimerSteps, BillingTypeOK
  <2>. QED
    BY <1>3, <2>1 DEF InsertTimer, BillingTypeOK, billGhosts, timeGhosts
<1>4. ASSUME NEW q \in Request, NEW l \in Log, NEW s \in {"in_progress", "paused", "completed"},
             ReadTimer(q, l, s)
      PROVE  BillingTypeOK'
  <2>1. asking' \in [Request -> Asking]
    BY <1>4, ReadTimerFacts DEF NowDoes
  <2>2. overtaken' \in BOOLEAN /\ asked' \in Nat
    BY <1>4, StartTypes DEF ReadTimer
  <2>3. uneven' \subseteq Log
    BY <1>4 DEF ReadTimer, timeGhosts, BillingTypeOK
  <2>. QED
    BY <1>4, <2>1, <2>2, <2>3 DEF ReadTimer, timeGhosts, BillingTypeOK
<1>5. ASSUME NEW q \in Request, CompareTimer(q) PROVE BillingTypeOK'
  <2>1. asking[q].copy \in Timer /\ asking[q].to \in {"in_progress", "paused", "completed"}
        /\ asking[q].copy.since <= now
    BY <1>5, AskingFacts DEF CompareTimer, Shape, AskFits, BillingTypeOK
  <2>2. Changed(asking[q].copy, asking[q].to) \in Timer
    BY <2>1, ChangedFacts DEF BillingTypeOK
  <2>3. asking' \in [Request -> Asking]
    BY <1>5, <2>2, CompareTimerFacts DEF NowDoes
  <2>. QED
    BY <1>5, <2>3 DEF CompareTimer, billGhosts, timeGhosts, BillingTypeOK
<1>6. ASSUME NEW q \in Request, WriteTimer(q) PROVE BillingTypeOK'
  <2>1. asking[q].of \in Log
    BY <1>6, OfIsLog DEF WriteTimer, TimerSteps
  <2>2. asking' \in [Request -> Asking] /\ log' \in [Log -> Timer] /\ reopened' \subseteq Log
    BY <1>6, <2>1, WriteTimerFacts, ReopenedType DEF NowDoes, NowIs, BillingTypeOK
  <2>. QED
    BY <1>6, <2>2 DEF WriteTimer, timeGhosts, BillingTypeOK
<1>7. ASSUME NEW l \in Log, DeleteTimer(l) PROVE BillingTypeOK'
  <2>1. log' \in [Log -> Timer] /\ ran' \in [Log -> Nat] /\ delay' \in [Log -> Nat] /\ pauses' \in [Log -> Nat]
    BY <1>7, DeleteTimerFacts DEF DeleteTimer, NowIs, BillingTypeOK
  <2>2. uneven' \subseteq Log
    BY <1>7 DEF DeleteTimer, timeGhosts, BillingTypeOK
  <2>. QED
    BY <1>7, <2>1, <2>2 DEF DeleteTimer, timeGhosts, BillingTypeOK
<1>8. ASSUME NEW q \in Request, NEW wants \in Task, ReadTask(q, wants) PROVE BillingTypeOK'
  <2>1. asking' \in [Request -> Asking]
    BY <1>8, ReadTaskFacts DEF NowDoes
  <2>2. overtaken' \in BOOLEAN /\ asked' \in Nat
    BY <1>8, StartTypes DEF ReadTask
  <2>. QED
    BY <1>8, <2>1, <2>2 DEF ReadTask, timeGhosts, BillingTypeOK
<1>9. ASSUME NEW q \in Request, SaveTask(q) PROVE BillingTypeOK'
  <2>1. asking' \in [Request -> Asking]
    BY <1>9, NextStatement DEF SaveTask, NowDoes
  <2>2. task' \in Task
    BY <1>9, AskingFacts DEF SaveTask, BillingTypeOK
  <2>. QED
    BY <1>9, <2>1, <2>2 DEF SaveTask, billGhosts, timeGhosts, BillingTypeOK
<1>10. ASSUME NEW q \in Request, BillLogs(q) PROVE BillingTypeOK'
  <2>1. asking' \in [Request -> Asking]
    BY <1>10, NextStatement DEF BillLogs, NowDoes
  <2>2. log' \in [Log -> Timer]
    BY <1>10, BillLogsFacts
  <2>. QED
    BY <1>10, <2>1, <2>2 DEF BillLogs, billGhosts, timeGhosts, BillingTypeOK
<1>11. ASSUME NEW q \in Request, BillTask(q) PROVE BillingTypeOK'
  BY <1>11, QuietFacts DEF BillTask, billGhosts, timeGhosts, Review, BillingTypeOK
<1>12. ASSUME NEW q \in Request, NEW l \in Log, SeePending(q, l) PROVE BillingTypeOK'
  <2>1. asking' \in [Request -> Asking]
    BY <1>12, SeePendingFacts DEF NowDoes
  <2>2. overtaken' \in BOOLEAN /\ asked' \in Nat
    BY <1>12, StartTypes DEF SeePending
  <2>3. uneven' \subseteq Log
    BY <1>12 DEF SeePending, timeGhosts, BillingTypeOK
  <2>. QED
    BY <1>12, <2>1, <2>2, <2>3 DEF SeePending, timeGhosts, BillingTypeOK
<1>13. ASSUME NEW q \in Request, NEW d \in {"approved", "rejected"}, ReviewTimer(q, d) PROVE BillingTypeOK'
  <2>1. asking[q].of \in Log
    BY <1>13, OfIsLog DEF ReviewTimer, TimerSteps
  <2>2. asking' \in [Request -> Asking] /\ log' \in [Log -> Timer] /\ reopened' \subseteq Log
    BY <1>13, <2>1, ReviewTimerFacts, ReopenedType DEF NowDoes, NowIs
  <2>. QED
    BY <1>13, <2>2 DEF ReviewTimer, timeGhosts, BillingTypeOK
<1>14. ASSUME NEW d \in {"approved", "rejected"}, ReviewRevenue(d) PROVE BillingTypeOK'
  BY <1>14 DEF ReviewRevenue, billGhosts, timeGhosts, Review, BillingTypeOK
<1>15. ASSUME NEW q \in Request, BillingFails(q) PROVE BillingTypeOK'
  <2>1. overtaken' \in BOOLEAN /\ requestFaults' \in Nat
    BY <1>15 DEF BillingFails, timeGhosts, BillingTypeOK
  <2>. QED
    BY <1>15, <2>1, QuietFacts DEF BillingFails, timeGhosts, BillingTypeOK
<1>16. CASE UNCHANGED billVars
  BY <1>16 DEF billVars, billGhosts, timeGhosts, BillingTypeOK
<1>. QED
  BY <1>1, <1>2, <1>3, <1>4, <1>5, <1>6, <1>7, <1>8, <1>9, <1>10, <1>11, <1>12, <1>13, <1>14, <1>15, <1>16
  DEF BillingNext, BillingStep

-----------------------------------------------------------------------------
\* A request that fits takes the place of one that did.
LEMMA AsksKept ==
    ASSUME Shape, NEW q \in Request, NEW a, NowDoes(q, a), now' = now, used \subseteq used',
           a.copy.since <= now,
           a.step \notin TimerSteps => a.of = NoLog,
           a.step \in TimerSteps => a.of \in used',
           a.step = "read" => a.to # "none",
           a.step \in {"new", "compared"} => a.copy.status # "none"
    PROVE  \A r \in Request : AskFits(asking[r])'
<1> SUFFICES ASSUME NEW r \in Request PROVE AskFits(asking[r])'
  OBVIOUS
<1>1. CASE r = q
  BY <1>1 DEF NowDoes, AskFits
<1>2. CASE r # q
  BY <1>2 DEF NowDoes, AskFits, Shape
<1>. QED
  BY <1>1, <1>2

\* A timer that fits takes the place of one that did.
LEMMA LogsKept ==
    ASSUME Shape, NEW l \in Log, NEW t, NowIs(l, t), now' = now, used \subseteq used',
           \A k \in Log \ {l} : ran'[k] = ran[k],
           t.since <= now,
           t.status # "none" => l \in used',
           t.status = "none" => ran'[l] = 0 /\ t.bill = "none"
    PROVE  \A k \in Log : LogFits(k)'
<1> SUFFICES ASSUME NEW k \in Log PROVE LogFits(k)'
  OBVIOUS
<1>1. CASE k = l
  BY <1>1 DEF NowIs, LogFits
<1>2. CASE k # l
  BY <1>2 DEF NowIs, LogFits, Shape
<1>. QED
  BY <1>1, <1>2

\* Every step keeps the shape of requests and timers.
LEMMA ShapeStep == BillingTypeOK /\ Shape /\ [BillingNext]_billVars => Shape'
<1> SUFFICES ASSUME BillingTypeOK, Shape, [BillingNext]_billVars PROVE Shape'
  OBVIOUS
<1>0. /\ now \in Nat /\ NoTimerRow.since <= now /\ used \subseteq Log
      /\ Quiet.copy.since <= now /\ Quiet.step \notin TimerSteps /\ Quiet.of = NoLog
  BY QuietFacts DEF BillingTypeOK, TimerSteps
<1>1. ASSUME UNCHANGED <<now, log, ran>>, used \subseteq used' PROVE \A l \in Log : LogFits(l)'
  BY <1>1 DEF Shape, LogFits
<1>2. ASSUME UNCHANGED <<now, used, asking>> PROVE \A q \in Request : AskFits(asking[q])'
  BY <1>2 DEF Shape, AskFits
<1>3. CASE Tick
  <2>1. \A n \in Nat : n <= now => n <= now + 1
    BY <1>0
  <2>2. \A q \in Request : asking[q].copy.since \in Nat
    BY AskingFacts, TimerFacts DEF BillingTypeOK
  <2>3. \A l \in Log : log[l].since \in Nat
    BY TimerFacts DEF BillingTypeOK
  <2>4. now' = now + 1 /\ UNCHANGED <<asking, used, log>>
        /\ \A l \in Log : log[l].status # "in_progress" => ran'[l] = ran[l]
    BY <1>3 DEF Tick
  <2>5. \A q \in Request : AskFits(asking[q])'
    BY <2>1, <2>2, <2>4 DEF Shape, AskFits
  <2>6. \A l \in Log : LogFits(l)'
    BY <2>1, <2>3, <2>4 DEF Shape, LogFits
  <2>. QED
    BY <2>5, <2>6 DEF Shape
<1>4. ASSUME NEW q \in Request, NEW l \in Log, NEW s \in {"in_progress", "paused", "completed"},
             NewTimer(q, l, s)
      PROVE  Shape'
  <2>1. PICK a \in Asking : NowDoes(q, a) /\ a.step = "new" /\ a.of = l /\ a.copy.since = now /\ a.copy.status = s
    BY <1>4, NewTimerFacts
  <2>2. UNCHANGED <<now, log, ran>> /\ used' = used \cup {l}
    BY <1>4 DEF NewTimer, timeGhosts
  <2>3. a.copy.since <= now
    BY <1>0, <2>1
  <2>4. \A r \in Request : AskFits(asking[r])'
    BY <2>1, <2>2, <2>3, AsksKept DEF TimerSteps
  <2>. QED
    BY <1>1, <2>2, <2>4 DEF Shape
<1>5. ASSUME NEW q \in Request, InsertTimer(q) PROVE Shape'
  <2> DEFINE l == asking[q].of
             t == asking[q].copy
  <2>1. l \in used /\ l \in Log /\ t.since <= now /\ t.status # "none"
    BY <1>5, OfIsLog DEF InsertTimer, TimerSteps, Shape, AskFits
  <2>2. NowDoes(q, Quiet) /\ UNCHANGED <<now, used, ran>> /\ (log' = log \/ NowIs(l, t))
    BY <1>5, <2>1, InsertTimerFacts DEF InsertTimer, billGhosts, timeGhosts
  <2> HIDE DEF l, t
  <2>3. \A k \in Log : LogFits(k)'
    BY <1>1, <2>1, <2>2, LogsKept
  <2>4. \A r \in Request : AskFits(asking[r])'
    BY <1>0, <2>2, AsksKept DEF TimerSteps
  <2>. QED
    BY <2>3, <2>4 DEF Shape
<1>6. ASSUME NEW q \in Request, NEW l \in Log, NEW s \in {"in_progress", "paused", "completed"},
             ReadTimer(q, l, s)
      PROVE  Shape'
  <2>1. PICK a \in Asking : NowDoes(q, a) /\ a.step = "read" /\ a.of = l /\ a.to = s /\ a.copy = log[l]
    BY <1>6, ReadTimerFacts
  <2>2. UNCHANGED <<now, log, ran, used>> /\ log[l].status # "none"
    BY <1>6 DEF ReadTimer, timeGhosts
  <2>3. l \in used /\ log[l].since <= now
    BY <2>2 DEF Shape, LogFits
  <2>4. \A r \in Request : AskFits(asking[r])'
    BY <2>1, <2>2, <2>3, AsksKept DEF TimerSteps
  <2>. QED
    BY <1>1, <2>2, <2>4 DEF Shape
<1>7. ASSUME NEW q \in Request, CompareTimer(q) PROVE Shape'
  <2>1. /\ asking[q].copy \in Timer /\ asking[q].to \in {"in_progress", "paused", "completed"}
        /\ asking[q].copy.since <= now /\ asking[q].of \in used
    BY <1>7, AskingFacts DEF CompareTimer, Shape, AskFits, BillingTypeOK, TimerSteps
  <2>2. /\ Changed(asking[q].copy, asking[q].to) \in Timer
        /\ Changed(asking[q].copy, asking[q].to).status # "none"
        /\ Changed(asking[q].copy, asking[q].to).since = now
    BY <2>1, ChangedFacts DEF BillingTypeOK
  <2>3. PICK a \in Asking : /\ NowDoes(q, a) /\ a.step = "compared" /\ a.of = asking[q].of
                            /\ a.copy = Changed(asking[q].copy, asking[q].to)
    BY <1>7, <2>2, CompareTimerFacts
  <2>4. UNCHANGED <<now, log, ran, used>>
    BY <1>7 DEF CompareTimer, billGhosts, timeGhosts
  <2>5. a.copy.since <= now /\ a.copy.status # "none" /\ a.of \in used
    BY <1>0, <2>1, <2>2, <2>3
  <2>6. \A r \in Request : AskFits(asking[r])'
    BY <2>3, <2>4, <2>5, AsksKept DEF TimerSteps
  <2>. QED
    BY <1>1, <2>4, <2>6 DEF Shape
<1>8. ASSUME NEW q \in Request, WriteTimer(q) PROVE Shape'
  <2> DEFINE l == asking[q].of
             t == SavedRow(q, l)
  <2>1. /\ l \in used /\ l \in Log
        /\ asking[q].copy.since <= now /\ asking[q].copy.status # "none"
    BY <1>8, OfIsLog DEF WriteTimer, timeGhosts, TimerSteps, Shape, AskFits
  <2>2. /\ NowDoes(q, Quiet) /\ UNCHANGED <<now, used, ran>>
        /\ \/ log' = log
           \/ NowIs(l, t) /\ (log[l].status # "none" \/ asking[q].diff = TimerColumn)
    BY <1>8, <2>1, WriteTimerFacts DEF WriteTimer, billGhosts, timeGhosts
  <2>3. /\ t.status = IF "status" \in asking[q].diff THEN asking[q].copy.status ELSE log[l].status
        /\ t.since = IF "since" \in asking[q].diff THEN asking[q].copy.since ELSE log[l].since
    BY <2>1, SavedFacts
  <2>4. log[l].since <= now /\ "status" \in TimerColumn
    BY <2>1 DEF Shape, LogFits, TimerColumn
  <2> HIDE DEF l, t
  <2>5. t.since <= now /\ (log' = log \/ (NowIs(l, t) /\ t.status # "none"))
    BY <2>1, <2>2, <2>3, <2>4
  <2>6. \A k \in Log : LogFits(k)'
    BY <1>1, <2>1, <2>2, <2>5, LogsKept
  <2>7. \A r \in Request : AskFits(asking[r])'
    BY <1>0, <2>2, AsksKept DEF TimerSteps
  <2>. QED
    BY <2>6, <2>7 DEF Shape
<1>9. ASSUME NEW l \in Log, DeleteTimer(l) PROVE Shape'
  <2>1. NowIs(l, NoTimerRow) /\ ran'[l] = 0 /\ \A k \in Log \ {l} : ran'[k] = ran[k]
    BY <1>9, DeleteTimerFacts
  <2>2. UNCHANGED <<now, used, asking>>
    BY <1>9 DEF DeleteTimer
  <2>3. \A k \in Log : LogFits(k)'
    BY <1>0, <2>1, <2>2, LogsKept, QuietFacts
  <2>. QED
    BY <1>2, <2>2, <2>3 DEF Shape
<1>10. ASSUME NEW q \in Request, NEW wants \in Task, ReadTask(q, wants) PROVE Shape'
  <2>1. PICK a \in Asking : NowDoes(q, a) /\ a.step = "taskRead" /\ a.of = NoLog /\ a.copy = NoTimerRow
    BY <1>10, ReadTaskFacts
  <2>2. UNCHANGED <<now, log, ran, used>>
    BY <1>10 DEF ReadTask, timeGhosts
  <2>3. \A r \in Request : AskFits(asking[r])'
    BY <1>0, <2>1, <2>2, AsksKept DEF TimerSteps
  <2>. QED
    BY <1>1, <2>2, <2>3 DEF Shape
<1>11. ASSUME NEW q \in Request, NEW s \in {"taskSaved", "logsBilled"}, UNCHANGED <<now, used>>,
              asking[q].step \in TaskSteps, asking' = [asking EXCEPT ![q].step = s]
       PROVE  \A r \in Request : AskFits(asking[r])'
  <2>1. PICK a \in Asking : NowDoes(q, a) /\ a.step = s /\ a.of = asking[q].of /\ a.copy = asking[q].copy
    BY <1>11, NextStatement
  <2>2. asking[q].of = NoLog /\ asking[q].copy.since <= now
    BY <1>11 DEF Shape, AskFits, TimerSteps, TaskSteps
  <2>3. a.step \notin TimerSteps /\ a.step \notin {"new", "compared", "read"}
    BY <2>1 DEF TimerSteps
  <2>. QED
    BY <1>11, <2>1, <2>2, <2>3, AsksKept
<1>12. ASSUME NEW q \in Request, SaveTask(q) PROVE Shape'
  <2>1. UNCHANGED <<now, log, ran, used>> /\ \A r \in Request : AskFits(asking[r])'
    BY <1>11, <1>12 DEF SaveTask, TaskSteps, billGhosts, timeGhosts
  <2>. QED
    BY <1>1, <2>1 DEF Shape
<1>13. ASSUME NEW q \in Request, BillLogs(q) PROVE Shape'
  <2>1. UNCHANGED <<now, ran, used>> /\ \A r \in Request : AskFits(asking[r])'
    BY <1>11, <1>13 DEF BillLogs, TaskSteps, billGhosts, timeGhosts
  <2>2. \A l \in Log : log[l] \in Timer
    BY DEF BillingTypeOK
  <2>3. \A l \in Log : /\ log'[l].status = log[l].status /\ log'[l].since = log[l].since
                       /\ log[l].status = "none" => log'[l].bill = log[l].bill
    BY <1>13, <2>2, BillLogsFacts, RebilledFacts
  <2>4. \A l \in Log : LogFits(l)'
    BY <2>1, <2>3 DEF Shape, LogFits
  <2>. QED
    BY <2>1, <2>4 DEF Shape
<1>14. ASSUME NEW q \in Request, UNCHANGED <<now, log, ran, used>>, asking' = [asking EXCEPT ![q] = Quiet]
       PROVE  Shape'
  <2>1. NowDoes(q, Quiet)
    BY <1>14, QuietFacts DEF NowDoes, BillingTypeOK
  <2>2. \A r \in Request : AskFits(asking[r])'
    BY <1>0, <1>14, <2>1, AsksKept DEF TimerSteps
  <2>. QED
    BY <1>1, <1>14, <2>2 DEF Shape
<1>15. ASSUME NEW q \in Request, NEW l \in Log, SeePending(q, l) PROVE Shape'
  <2>1. PICK a \in Asking : NowDoes(q, a) /\ a.step = "seen" /\ a.of = l /\ a.copy = NoTimerRow
    BY <1>15, SeePendingFacts
  <2>2. UNCHANGED <<now, log, ran, used>> /\ log[l].bill = "pending"
    BY <1>15 DEF SeePending, timeGhosts
  <2>3. log[l].status # "none"
    BY <2>2 DEF Shape, LogFits
  <2>7. l \in used
    BY <2>3 DEF Shape, LogFits
  <2>4. \A r \in Request : AskFits(asking[r])'
    BY <1>0, <2>1, <2>2, <2>7, AsksKept DEF TimerSteps
  <2>. QED
    BY <1>1, <2>2, <2>4 DEF Shape
<1>16. ASSUME NEW q \in Request, NEW d \in {"approved", "rejected"}, ReviewTimer(q, d) PROVE Shape'
  <2> DEFINE l == asking[q].of
  <2>1. l \in used /\ l \in Log
    BY <1>16, OfIsLog DEF ReviewTimer, timeGhosts, TimerSteps
  <2>2. NowDoes(q, Quiet) /\ UNCHANGED <<now, used, ran>>
    BY <1>16, <2>1, ReviewTimerFacts DEF ReviewTimer, timeGhosts
  <2>3. PICK t \in Timer : /\ NowIs(l, t) /\ t.status = log[l].status /\ t.since = log[l].since
                           /\ t.status = "none" => t = log[l]
    BY <1>16, <2>1, ReviewTimerFacts
  <2> HIDE DEF l
  <2>4. log[l].since <= now /\ (log[l].status = "none" => ran[l] = 0 /\ log[l].bill = "none")
    BY <2>1 DEF Shape, LogFits
  <2>5. \A k \in Log : LogFits(k)'
    BY <2>1, <2>2, <2>3, <2>4, LogsKept
  <2>6. \A r \in Request : AskFits(asking[r])'
    BY <1>0, <2>2, AsksKept DEF TimerSteps
  <2>. QED
    BY <2>5, <2>6 DEF Shape
<1>17. ASSUME UNCHANGED <<now, used, log, ran, asking>> PROVE Shape'
  BY <1>17 DEF Shape, AskFits, LogFits
<1>18. ASSUME NEW q \in Request, BillTask(q) PROVE Shape'
  BY <1>14, <1>18 DEF BillTask, billGhosts, timeGhosts
<1>19. ASSUME NEW q \in Request, BillingFails(q) PROVE Shape'
  BY <1>14, <1>19 DEF BillingFails, timeGhosts
<1>20. ASSUME NEW d \in {"approved", "rejected"}, ReviewRevenue(d) PROVE Shape'
  BY <1>17, <1>20 DEF ReviewRevenue, billGhosts, timeGhosts
<1>21. CASE UNCHANGED billVars
  BY <1>17, <1>21 DEF billVars, billGhosts, timeGhosts
<1>. QED
  BY <1>3, <1>4, <1>5, <1>6, <1>7, <1>8, <1>9, <1>10, <1>12, <1>13, <1>15, <1>16, <1>18, <1>19, <1>20, <1>21
  DEF BillingNext, BillingStep


\* The row adds up after p pauses: what it has recorded is close to what ran.
AddsUp(t, l, p) == t.status # "none" => Close(RecordedAt(t, now), ran[l], delay[l], Cut(p))

\* The pauses of timer l when the request has written.
PausesOf(a, l) == IF a.to = "paused" THEN pauses[l] + 1 ELSE pauses[l]

\* Two rows that record the same time.
SameTimes(t, u) == t.status = u.status /\ t.spent = u.spent /\ t.since = u.since

\* What a request about an even timer has in hand.
TimerAsk(a) ==
    /\ a.step = "new" =>
        /\ log[a.of].status = "none" /\ a.copy.spent = 0
        /\ now - a.copy.since <= delay[a.of]
    /\ a.step = "read" /\ a.of \notin uneven =>
        /\ SameTimes(a.copy, log[a.of])
        /\ a.copy.status = IF a.to = "paused" THEN "in_progress" ELSE "paused"
    /\ a.step = "compared" /\ a.of \notin uneven =>
        /\ AddsUp(a.copy, a.of, PausesOf(a, a.of)) /\ log[a.of].status # "none"
        /\ "status" \in a.diff \/ log[a.of].status = a.copy.status
        /\ "spent" \in a.diff \/ log[a.of].spent = a.copy.spent
        /\ "since" \in a.diff \/ log[a.of].since = a.copy.since

\* Two requests about one timer make it uneven, and neither creates it.
AskedOnce ==
    \A q, r \in Request : q # r /\ asking[q].of = asking[r].of /\ asking[q].of # NoLog =>
        asking[q].of \in uneven /\ asking[q].step # "new"

\* Every even timer adds up.
EvenAddUp == \A l \in Log \ uneven : AddsUp(log[l], l, pauses[l])

\* The invariant of the time: even timers add up, and so does what is about to be
\* written into one.
TimeInv ==
    /\ \A q \in Request : TimerAsk(asking[q])
    /\ AskedOnce
    /\ EvenAddUp

\* The step leaves the times of a timer.
Still(l) == /\ SameTimes(log'[l], log[l])
            /\ ran'[l] = ran[l] /\ delay'[l] = delay[l] /\ pauses'[l] = pauses[l]

\* Rows that record the same time record as much.
LEMMA SameTimesRecord ==
    ASSUME NEW t, NEW u, SameTimes(t, u), NEW n
    PROVE  RecordedAt(t, n) = RecordedAt(u, n)
  BY DEF SameTimes, RecordedAt

\* The others keep what they know when the step leaves their timers.
LEMMA OthersKnow ==
    ASSUME TimeInv, NEW q \in Request, NEW a, NowDoes(q, a), now' = now, uneven \subseteq uneven',
           \A r \in Request \ {q} : asking[r].step \in TimerSteps =>
               Still(asking[r].of) \/ (asking[r].step # "new" /\ asking[r].of \in uneven'),
           TimerAsk(a)'
    PROVE  \A r \in Request : TimerAsk(asking[r])'
<1> SUFFICES ASSUME NEW r \in Request PROVE TimerAsk(asking[r])'
  OBVIOUS
<1>1. CASE r = q
  BY <1>1 DEF NowDoes
<1>2. CASE r # q
  <2> DEFINE b == asking[r]
  <2>1. asking'[r] = b /\ TimerAsk(b)
    BY <1>2 DEF NowDoes, TimeInv
  <2>2. b.step \in TimerSteps => Still(b.of) \/ (b.step # "new" /\ b.of \in uneven')
    BY <1>2
  <2> HIDE DEF b
  <2>3. CASE b.step \notin TimerSteps
    BY <2>1, <2>3 DEF TimerAsk, TimerSteps
  <2>4. CASE b.step # "new" /\ b.of \in uneven'
    BY <2>1, <2>4 DEF TimerAsk
  <2>5. CASE Still(b.of)
    BY <2>1, <2>5 DEF TimerAsk, Still, SameTimes, AddsUp, PausesOf
  <2>. QED
    BY <2>2, <2>3, <2>4, <2>5
<1>. QED
  BY <1>1, <1>2

\* A step keeps the requests about one timer apart, or makes it uneven.
LEMMA StillAskedOnce ==
    ASSUME AskedOnce, NEW q \in Request, NEW a, NowDoes(q, a), uneven \subseteq uneven',
           \/ a.of = NoLog
           \/ a.of = asking[q].of /\ a.step # "new"
           \/ \A r \in Request \ {q} : asking[r].of # a.of
           \/ a.of \in uneven' /\ a.step # "new" /\ \A r \in Request \ {q} : asking[r].of = a.of => asking[r].step # "new"
    PROVE  AskedOnce'
<1> SUFFICES ASSUME NEW r \in Request, NEW s \in Request, r # s, asking'[r].of = asking'[s].of, asking'[r].of # NoLog
             PROVE  asking'[r].of \in uneven' /\ asking'[r].step # "new"
  BY DEF AskedOnce
<1>1. CASE r = q
  <2>1. asking'[r] = a /\ asking'[s] = asking[s] /\ asking[s].of = a.of
    BY <1>1 DEF NowDoes
  <2>. QED
    BY <1>1, <2>1 DEF AskedOnce
<1>2. CASE s = q
  <2>1. asking'[s] = a /\ asking'[r] = asking[r] /\ asking[r].of = a.of
    BY <1>2 DEF NowDoes
  <2>. QED
    BY <1>2, <2>1 DEF AskedOnce
<1>3. CASE r # q /\ s # q
  BY <1>3 DEF NowDoes, AskedOnce
<1>. QED
  BY <1>1, <1>2, <1>3

\* A step that changes one timer keeps the others adding up.
LEMMA StillAddUp ==
    ASSUME EvenAddUp, now' = now, uneven \subseteq uneven', NEW l \in Log,
           \A k \in Log \ {l} : Still(k),
           l \in uneven' \/ AddsUp(log[l], l, pauses[l])'
    PROVE  EvenAddUp'
<1> SUFFICES ASSUME NEW k \in Log, k \notin uneven' PROVE AddsUp(log[k], k, pauses[k])'
  BY DEF EvenAddUp
<1>1. CASE k = l
  BY <1>1
<1>2. CASE k # l
  <2>1. Still(k) /\ AddsUp(log[k], k, pauses[k])
    BY <1>2 DEF EvenAddUp
  <2>. QED
    BY <2>1 DEF Still, SameTimes, AddsUp, RecordedAt
<1>. QED
  BY <1>1, <1>2

\* A step that leaves the times of all timers, and whose request learns nothing.
LEMMA TimesAside ==
    ASSUME TimeInv, NEW q \in Request, NEW a, NowDoes(q, a), now' = now, uneven \subseteq uneven',
           \A l \in Log : Still(l), \A r \in Request : asking[r].step \in TimerSteps => asking[r].of \in Log,
           TimerAsk(a)',
           \/ a.of = NoLog
           \/ a.of = asking[q].of /\ a.step # "new"
           \/ \A r \in Request \ {q} : asking[r].of # a.of
           \/ a.of \in uneven' /\ a.step # "new" /\ \A r \in Request \ {q} : asking[r].of = a.of => asking[r].step # "new"
    PROVE  TimeInv'
<1>1. \A r \in Request : TimerAsk(asking[r])'
  BY OthersKnow
<1>2. AskedOnce'
  BY StillAskedOnce DEF TimeInv
<1>3. EvenAddUp'
  BY DEF TimeInv, EvenAddUp, Still, SameTimes, AddsUp, RecordedAt
<1>. QED
  BY <1>1, <1>2, <1>3 DEF TimeInv


\* A timer that is being inserted has no other request.
LEMMA NewIsAlone ==
    ASSUME BillingTypeOK, Shape, TimeInv, NEW l \in Log, log[l].status # "none"
    PROVE  \A r \in Request : asking[r].of = l => asking[r].step # "new"
  BY DEF TimeInv, TimerAsk

\* No timer is the timer of a request that has none.
LEMMA NoLogIsNone == \A l \in Log : l # NoLog
  BY BillingAssumption

\* Every step keeps the times of even timers exact.
LEMMA TimeStep == BillingTypeOK /\ Shape /\ TimeInv /\ [BillingNext]_billVars => TimeInv'
<1> SUFFICES ASSUME BillingTypeOK, Shape, TimeInv, [BillingNext]_billVars PROVE TimeInv'
  OBVIOUS
<1>0. /\ now \in Nat
      /\ \A r \in Request : asking[r].step \in TimerSteps => asking[r].of \in Log
      /\ Quiet.step \notin TimerSteps /\ Quiet.of = NoLog
      /\ \A r \in Request : asking[r].step \notin TimerSteps => asking[r].of = NoLog
  BY QuietFacts, OfIsLog DEF BillingTypeOK, TimerSteps, Shape, AskFits
<1>1. ASSUME NEW a, a.step \notin TimerSteps PROVE TimerAsk(a)'
  BY <1>1 DEF TimerAsk, TimerSteps
<1>2. ASSUME UNCHANGED <<log, ran, delay, pauses>> PROVE \A l \in Log : Still(l)
  BY <1>2 DEF Still, SameTimes
<1>3. CASE Tick
  <2>1. /\ now' = now + 1 /\ UNCHANGED <<asking, log, uneven, pauses>>
        /\ \A l \in Log : ran'[l] = IF log[l].status = "in_progress" THEN ran[l] + 1 ELSE ran[l]
        /\ \A l \in Log : delay'[l] = IF Clocked(l) THEN delay[l] + 1 ELSE delay[l]
    BY <1>3 DEF Tick
  <2>2. ASSUME NEW q \in Request PROVE TimerAsk(asking[q])'
    <3>0. PICK a \in Asking : a = asking[q]
      BY DEF BillingTypeOK
    <3>1. asking'[q] = a /\ TimerAsk(a)
      BY <2>1, <3>0 DEF TimeInv
    <3>2. a.step \in TimerSteps => a.of \in Log
      BY <1>0, <3>0
    <3>3. a.copy \in Timer /\ a.copy.since \in Nat /\ a.copy.since <= now
      BY <3>0, AskingFacts, TimerFacts DEF Shape, AskFits
    <3>4. a.step \in {"new", "compared"} => Clocked(a.of)
      BY <3>0 DEF Clocked
    <3>5. CASE a.step = "new"
      <4>1. a.of \in Log /\ delay[a.of] \in Nat /\ delay'[a.of] = delay[a.of] + 1
        BY <2>1, <3>2, <3>4, <3>5 DEF TimerSteps, BillingTypeOK
      <4>2. now - a.copy.since <= delay[a.of]
        BY <3>1, <3>5 DEF TimerAsk
      <4>3. (now + 1) - a.copy.since <= delay[a.of] + 1
        BY <1>0, <3>3, <4>1, <4>2
      <4>. QED
        BY <2>1, <3>1, <3>5, <4>1, <4>3 DEF TimerAsk
    <3>6. CASE a.step = "compared" /\ a.of \notin uneven
      <4>1. a.of \in Log
        BY <3>2, <3>6 DEF TimerSteps
      <4>2. AddsUp(a.copy, a.of, PausesOf(a, a.of))
        BY <3>1, <3>6 DEF TimerAsk
      <4>3. PausesOf(a, a.of) \in Nat /\ PausesOf(a, a.of)' = PausesOf(a, a.of)
        BY <2>1, <4>1 DEF PausesOf, BillingTypeOK
      <4>4. /\ ran'[a.of] \in {ran[a.of], ran[a.of] + 1}
            /\ delay'[a.of] = delay[a.of] + 1
            /\ ran[a.of] \in Nat /\ delay[a.of] \in Nat
        BY <2>1, <3>4, <3>6, <4>1 DEF BillingTypeOK
      <4>5. /\ RecordedAt(a.copy, now) \in Nat
            /\ RecordedAt(a.copy, now + 1) \in {RecordedAt(a.copy, now), RecordedAt(a.copy, now) + 1}
        BY <1>0, <3>3, RecordedFacts
      <4>6. a.copy.status # "none" =>
              Close(RecordedAt(a.copy, now + 1), ran'[a.of], delay'[a.of], Cut(PausesOf(a, a.of)))
        BY <4>2, <4>3, <4>4, <4>5, CutFacts DEF AddsUp, Close
      <4>7. AddsUp(a.copy, a.of, PausesOf(a, a.of))'
        BY <2>1, <4>3, <4>6 DEF AddsUp
      <4>. QED
        BY <2>1, <3>1, <3>6, <4>7 DEF TimerAsk
    <3>7. CASE a.step # "new" /\ (a.step # "compared" \/ a.of \in uneven)
      BY <2>1, <3>1, <3>7 DEF TimerAsk, SameTimes
    <3>. QED
      BY <3>1, <3>5, <3>6, <3>7
  <2>3. AskedOnce'
    BY <2>1 DEF TimeInv, AskedOnce
  <2>4. ASSUME NEW l \in Log, l \notin uneven' PROVE AddsUp(log[l], l, pauses[l])'
    <3> DEFINE t == log[l]
    <3>1. t \in Timer /\ t.since <= now
      BY DEF BillingTypeOK, Shape, LogFits
    <3>2. AddsUp(t, l, pauses[l])
      BY <2>1, <2>4 DEF TimeInv, EvenAddUp
    <3>3. log'[l] = t /\ ran'[l] = IF t.status = "in_progress" THEN ran[l] + 1 ELSE ran[l]
      BY <2>1
    <3>4. /\ delay'[l] \in {delay[l], delay[l] + 1}
          /\ ran[l] \in Nat /\ delay[l] \in Nat /\ pauses[l] \in Nat
      BY <2>1 DEF BillingTypeOK
    <3> HIDE DEF t
    <3>5. /\ RecordedAt(t, now) \in Nat
          /\ RecordedAt(t, now + 1) = IF t.status = "in_progress" THEN RecordedAt(t, now) + 1
                                       ELSE RecordedAt(t, now)
      BY <1>0, <3>1, RecordedFacts
    <3>6. t.status # "none" => Close(RecordedAt(t, now + 1), ran'[l], delay'[l], Cut(pauses[l]))
      BY <3>2, <3>3, <3>4, <3>5, CutFacts DEF AddsUp, Close
    <3>. QED
      BY <2>1, <3>3, <3>6 DEF AddsUp
  <2>. QED
    BY <2>2, <2>3, <2>4 DEF TimeInv, EvenAddUp
<1>4. ASSUME NEW q \in Request, NEW l \in Log, NEW s \in {"in_progress", "paused", "completed"},
             NewTimer(q, l, s)
      PROVE  TimeInv'
  <2>1. PICK a \in Asking : NowDoes(q, a) /\ a.step = "new" /\ a.of = l /\ a.copy.spent = 0 /\ a.copy.since = now
    BY <1>4, NewTimerFacts
  <2>2. UNCHANGED <<now, log, ran, delay, pauses, uneven>> /\ l \notin used
    BY <1>4 DEF NewTimer, timeGhosts
  <2>3. log[l].status = "none"
    BY <2>2 DEF Shape, LogFits
  <2>4. \A r \in Request \ {q} : asking[r].of # a.of
    BY <2>1, <2>2, OfIsLog, NoLogIsNone, <1>0
  <2>5. delay[l] \in Nat /\ now - now <= delay[l]
    BY <1>0 DEF BillingTypeOK
  <2>6. TimerAsk(a)'
    BY <2>1, <2>2, <2>3, <2>5 DEF TimerAsk
  <2>. QED
    BY <1>0, <1>2, <2>1, <2>2, <2>4, <2>6, TimesAside
<1>5. ASSUME NEW q \in Request, InsertTimer(q) PROVE TimeInv'
  <2>0. PICK l \in Log, t \in Timer : l = asking[q].of /\ t = asking[q].copy
    BY <1>5, OfIsLog, AskingFacts DEF InsertTimer, TimerSteps, BillingTypeOK
  <2>1. /\ l \in Log /\ l # NoLog
        /\ log[l].status = "none" /\ ran[l] = 0 /\ t.spent = 0
        /\ t.since <= now /\ now - t.since <= delay[l]
        /\ asking[q].step = "new"
    BY <1>5, <2>0, OfIsLog DEF InsertTimer, TimerSteps, Shape, AskFits, LogFits, TimeInv, TimerAsk
  <2>2. NowDoes(q, Quiet) /\ UNCHANGED <<now, ran, delay, pauses, uneven>> /\ (log' = log \/ NowIs(l, t))
    BY <1>5, <2>0, <2>1, InsertTimerFacts DEF InsertTimer, billGhosts, timeGhosts
  <2>3. \A r \in Request \ {q} : asking[r].of # l
    BY <2>0, <2>1 DEF TimeInv, AskedOnce
  <2>4. AddsUp(log[l], l, pauses[l])'
    <3>1. delay[l] \in Nat /\ Cut(pauses[l]) \in Nat /\ t.since \in Nat
      BY CutFacts, TimerFacts DEF BillingTypeOK
    <3>2. RecordedAt(t, now) = IF t.status = "in_progress" THEN now - t.since ELSE 0
      <4>1. t.spent * Second = 0
        BY <2>1, BillingAssumption
      <4>2. now - t.since \in Nat
        BY <1>0, <2>1, <3>1
      <4>. QED
        BY <4>1, <4>2 DEF RecordedAt
    <3>3. Close(RecordedAt(t, now), 0, delay[l], Cut(pauses[l]))
      BY <1>0, <2>1, <3>1, <3>2 DEF Close
    <3>4. CASE log' = log
      BY <2>1, <2>2, <3>4 DEF AddsUp
    <3>5. CASE NowIs(l, t)
      BY <2>1, <2>2, <3>3, <3>5 DEF AddsUp, NowIs
    <3>. QED
      BY <2>2, <3>4, <3>5
  <2>5. \A k \in Log \ {l} : Still(k)
    BY <2>2 DEF Still, SameTimes, NowIs
  <2>6. AskedOnce /\ EvenAddUp
    BY DEF TimeInv
  <2>7. \A r \in Request \ {q} : asking[r].step \in TimerSteps => Still(asking[r].of)
    BY <1>0, <2>3, <2>5
  <2>8. \A r \in Request : TimerAsk(asking[r])'
    BY <1>0, <1>1, <2>2, <2>7, OthersKnow
  <2>9. EvenAddUp'
    BY <2>1, <2>2, <2>4, <2>5, <2>6, StillAddUp
  <2>10. AskedOnce'
    BY <1>0, <2>2, <2>6, StillAskedOnce
  <2>. QED
    BY <2>8, <2>9, <2>10 DEF TimeInv
<1>6. ASSUME NEW q \in Request, NEW l \in Log, NEW s \in {"in_progress", "paused", "completed"},
             ReadTimer(q, l, s)
      PROVE  TimeInv'
  <2>1. PICK a \in Asking : NowDoes(q, a) /\ a.step = "read" /\ a.of = l /\ a.to = s /\ a.copy = log[l]
    BY <1>6, ReadTimerFacts
  <2>2. UNCHANGED <<now, log, ran, delay, pauses>> /\ log[l].status # "none" /\ asking[q].step = "idle"
    BY <1>6 DEF ReadTimer, Starts, timeGhosts
  <2>3. uneven \subseteq uneven'
    BY <1>6 DEF ReadTimer
  <2>4. l \notin uneven' => Offered(l, s) /\ \A r \in Request : asking[r].of # l
    BY <1>6 DEF ReadTimer
  <2>5. \A r \in Request : asking[r].of = l => asking[r].step # "new"
    BY <2>2, NewIsAlone
  <2>6. TimerAsk(a)'
    BY <2>1, <2>2, <2>4 DEF TimerAsk, SameTimes, Offered
  <2>. QED
    BY <1>0, <1>2, <2>1, <2>2, <2>3, <2>4, <2>5, <2>6, TimesAside
<1>7. ASSUME NEW q \in Request, CompareTimer(q) PROVE TimeInv'
  <2> DEFINE l == asking[q].of
             k == asking[q].copy
             c == Changed(k, asking[q].to)
  <2>1. /\ k \in Timer /\ asking[q].to \in {"in_progress", "paused", "completed"}
        /\ k.since <= now /\ l \in Log /\ asking[q].step = "read"
    BY <1>7, AskingFacts, OfIsLog DEF CompareTimer, Shape, AskFits, BillingTypeOK, TimerSteps
  <2>2. /\ c \in Timer /\ c.status = asking[q].to /\ c.since = now
        /\ c.spent = IF asking[q].to = "paused" THEN k.spent + ((now - k.since) \div Second) ELSE k.spent
    BY <2>1, ChangedFacts DEF BillingTypeOK, Elapsed
  <2>3. PICK a \in Asking : /\ NowDoes(q, a) /\ a.step = "compared" /\ a.of = l /\ a.copy = c /\ a.to = asking[q].to
                            /\ log[l].status # "none" => a.diff = {f \in TimerColumn : a.copy[f] # log[l][f]}
    BY <1>7, <2>2, CompareTimerFacts
  <2>4. UNCHANGED <<now, log, ran, delay, pauses, uneven>>
    BY <1>7 DEF CompareTimer, billGhosts, timeGhosts
  <2>5. CASE l \in uneven
    <3>1. TimerAsk(a)'
      BY <2>3, <2>4, <2>5 DEF TimerAsk
    <3> HIDE DEF c, k
    <3>. QED
      BY <1>0, <1>2, <2>3, <2>4, <3>1, TimesAside
  <2>6. CASE l \notin uneven
    <3>1. /\ SameTimes(k, log[l]) /\ AddsUp(log[l], l, pauses[l])
          /\ k.status = IF asking[q].to = "paused" THEN "in_progress" ELSE "paused"
      BY <2>1, <2>6 DEF TimeInv, TimerAsk, EvenAddUp
    <3>2. ran[l] \in Nat /\ delay[l] \in Nat /\ pauses[l] \in Nat
      BY <2>1 DEF BillingTypeOK
    <3>3. log[l].status # "none" /\ Close(RecordedAt(k, now), ran[l], delay[l], Cut(pauses[l]))
      BY <3>1, SameTimesRecord DEF SameTimes, AddsUp
    <3>4. RecordedAt(k, now) \in Nat /\ RecordedAt(c, now) \in Nat
      <4>1. c \in Timer /\ c.since <= now
        BY <1>0, <2>2
      <4> HIDE DEF c
      <4>. QED
        BY <1>0, <2>1, <4>1, RecordedFacts
    <3>5. AddsUp(c, l, PausesOf(a, l))
      <4>1. CASE asking[q].to = "paused"
        <5>1. /\ RecordedAt(c, now) <= RecordedAt(k, now)
              /\ RecordedAt(k, now) <= RecordedAt(c, now) + (Second - 1)
          <6>1. c \in Timer /\ c.status = "paused" /\ c.spent = k.spent + ((now - k.since) \div Second)
            BY <2>2, <4>1
          <6>2. k.status = "in_progress"
            BY <3>1, <4>1
          <6> HIDE DEF c, k
          <6>. QED
            BY <1>0, <2>1, <6>1, <6>2, PauseRecords
        <5>2. PausesOf(a, l) = pauses[l] + 1
          BY <2>3, <4>1 DEF PausesOf
        <5>3. Cut(pauses[l] + 1) = Cut(pauses[l]) + (Second - 1) /\ Cut(pauses[l]) \in Nat
          BY <3>2, CutFacts
        <5> HIDE DEF c, k, l
        <5>. QED
          BY BillingAssumption, <3>2, <3>3, <3>4, <5>1, <5>2, <5>3 DEF AddsUp, Close
      <4>2. CASE asking[q].to # "paused"
        <5>1. RecordedAt(c, now) = RecordedAt(k, now)
          <6>1. c \in Timer /\ c.since = now /\ c.spent = k.spent
            BY <2>2, <4>2
          <6>2. k.status # "in_progress"
            BY <3>1, <4>2
          <6> HIDE DEF c, k
          <6>. QED
            BY <1>0, <2>1, <6>1, <6>2, SameRecord
        <5>2. PausesOf(a, l) = pauses[l]
          BY <2>3, <4>2 DEF PausesOf
        <5>. QED
          BY <3>3, <5>1, <5>2 DEF AddsUp
      <4>. QED
        BY <4>1, <4>2
    <3>6. /\ "status" \in a.diff \/ log[l].status = a.copy.status
          /\ "spent" \in a.diff \/ log[l].spent = a.copy.spent
          /\ "since" \in a.diff \/ log[l].since = a.copy.since
      BY <2>3, <3>3 DEF TimerColumn
    <3> HIDE DEF c, k, l
    <3>7. TimerAsk(a)'
      BY <2>3, <2>4, <3>3, <3>5, <3>6 DEF TimerAsk, AddsUp, PausesOf
    <3>. QED
      BY <1>0, <1>2, <2>3, <2>4, <3>7, TimesAside DEF l
  <2>. QED
    BY <2>5, <2>6
<1>8. ASSUME NEW q \in Request, WriteTimer(q) PROVE TimeInv'
  <2>0. PICK l \in Log, k \in Timer, t \in Timer : l = asking[q].of /\ k = asking[q].copy /\ t = SavedRow(q, l)
    BY <1>8, OfIsLog, AskingFacts, SavedFacts DEF WriteTimer, TimerSteps, BillingTypeOK
  <2>1. l \in Log /\ l # NoLog /\ asking[q].step = "compared"
    BY <1>8, <2>0, OfIsLog DEF WriteTimer, TimerSteps
  <2>2. /\ NowDoes(q, Quiet) /\ UNCHANGED <<now, uneven, ran, delay>>
        /\ \/ log' = log /\ pauses' = pauses
           \/ NowIs(l, t) /\ pauses'[l] = PausesOf(asking[q], l)
        /\ \A j \in Log \ {l} : pauses'[j] = pauses[j]
    <3>1. NowDoes(q, Quiet) /\ UNCHANGED <<now, uneven, ran, delay>>
      BY <1>8, <2>0, <2>1, WriteTimerFacts DEF WriteTimer
    <3>2. \/ log' = log /\ pauses' = pauses
          \/ /\ log' = [log EXCEPT ![l] = t]
             /\ pauses' = IF asking[q].to = "paused" THEN [pauses EXCEPT ![l] = @ + 1] ELSE pauses
      BY <1>8, <2>0 DEF WriteTimer, SavedRow
    <3>. QED
      BY <2>0, <3>1, <3>2 DEF NowIs, PausesOf, BillingTypeOK
  <2>3. /\ t.status = IF "status" \in asking[q].diff THEN k.status ELSE log[l].status
        /\ t.spent = IF "spent" \in asking[q].diff THEN k.spent ELSE log[l].spent
        /\ t.since = IF "since" \in asking[q].diff THEN k.since ELSE log[l].since
    BY <2>0, <2>1, SavedFacts
  <2>4. AskedOnce /\ EvenAddUp
    BY DEF TimeInv
  <2>5. \A r \in Request \ {q} : asking[r].of = l => asking[r].step # "new" /\ l \in uneven
    BY <2>0, <2>1 DEF TimeInv, AskedOnce
  <2>6. l \in uneven \/ AddsUp(log[l], l, pauses[l])'
    <3>1. CASE l \notin uneven
      <4>1. /\ AddsUp(k, l, PausesOf(asking[q], l))
            /\ "status" \in asking[q].diff \/ log[l].status = k.status
            /\ "spent" \in asking[q].diff \/ log[l].spent = k.spent
            /\ "since" \in asking[q].diff \/ log[l].since = k.since
        BY <2>0, <2>1, <3>1 DEF TimeInv, TimerAsk
      <4>2. t.status = k.status /\ t.spent = k.spent /\ t.since = k.since
        BY <2>3, <4>1
      <4>3. AddsUp(log[l], l, pauses[l])
        BY <2>1, <3>1 DEF TimeInv, EvenAddUp
      <4>4. CASE log' = log /\ pauses' = pauses
        BY <2>2, <4>3, <4>4 DEF AddsUp
      <4>5. CASE NowIs(l, t) /\ pauses'[l] = PausesOf(asking[q], l)
        <5>1. RecordedAt(t, now) = RecordedAt(k, now)
          BY <4>2 DEF RecordedAt
        <5>. QED
          BY <2>2, <4>1, <4>2, <4>5, <5>1 DEF AddsUp, NowIs
      <4>. QED
        BY <2>2, <4>4, <4>5
    <3>. QED
      BY <3>1
  <2>7. \A j \in Log \ {l} : Still(j)
    BY <2>2 DEF Still, SameTimes, NowIs
  <2>8. \A r \in Request \ {q} : asking[r].step \in TimerSteps =>
            Still(asking[r].of) \/ (asking[r].step # "new" /\ asking[r].of \in uneven)
    BY <1>0, <2>5, <2>7
  <2>9. \A r \in Request : TimerAsk(asking[r])'
    BY <1>0, <1>1, <2>2, <2>8, OthersKnow
  <2>10. EvenAddUp'
    BY <2>1, <2>2, <2>4, <2>6, <2>7, StillAddUp
  <2>11. AskedOnce'
    BY <1>0, <2>2, <2>4, StillAskedOnce
  <2>. QED
    BY <2>9, <2>10, <2>11 DEF TimeInv
<1>9. ASSUME NEW l \in Log, DeleteTimer(l) PROVE TimeInv'
  <2>1. /\ NowIs(l, NoTimerRow)
        /\ \A k \in Log \ {l} : ran'[k] = ran[k] /\ delay'[k] = delay[k] /\ pauses'[k] = pauses[k]
        /\ log[l].status # "none" /\ UNCHANGED <<now, asking>> /\ uneven \subseteq uneven'
        /\ (\E q \in Request : asking[q].of = l) => l \in uneven'
    BY <1>9, DeleteTimerFacts DEF DeleteTimer, BillingTypeOK
  <2>2. \A k \in Log \ {l} : Still(k)
    BY <2>1 DEF Still, SameTimes, NowIs
  <2>3. AddsUp(log[l], l, pauses[l])'
    BY <2>1, QuietFacts DEF AddsUp, NowIs
  <2>4. \A r \in Request : asking[r].of = l => asking[r].step # "new"
    BY <2>1, NewIsAlone
  <2>5. AskedOnce /\ EvenAddUp
    BY DEF TimeInv
  <2>6. EvenAddUp'
    BY <2>1, <2>2, <2>3, <2>5, StillAddUp
  <2>7. AskedOnce'
    BY <2>1, <2>5 DEF AskedOnce
  <2>8. ASSUME NEW r \in Request PROVE TimerAsk(asking[r])'
    <3> DEFINE b == asking[r]
    <3>1. asking'[r] = b /\ TimerAsk(b)
      BY <2>1 DEF TimeInv
    <3>2. b.step \in TimerSteps => b.of \in Log
      BY <1>0
    <3>3. b.of = l => b.step # "new" /\ l \in uneven'
      BY <2>1, <2>4
    <3> HIDE DEF b
    <3>4. CASE b.step \notin TimerSteps
      BY <3>1, <3>4 DEF TimerAsk, TimerSteps
    <3>5. CASE b.of = l
      BY <3>1, <3>3, <3>5 DEF TimerAsk
    <3>6. CASE b.of # l /\ b.step \in TimerSteps
      <4>1. Still(b.of)
        BY <2>2, <3>2, <3>6
      <4>. QED
        BY <2>1, <3>1, <4>1 DEF TimerAsk, Still, SameTimes, AddsUp, PausesOf
    <3>. QED
      BY <3>4, <3>5, <3>6
  <2>. QED
    BY <2>6, <2>7, <2>8 DEF TimeInv
<1>10. ASSUME NEW q \in Request, NEW wants \in Task, ReadTask(q, wants) PROVE TimeInv'
  <2>1. PICK a \in Asking : NowDoes(q, a) /\ a.step = "taskRead" /\ a.of = NoLog
    BY <1>10, ReadTaskFacts
  <2>2. UNCHANGED <<now, log, ran, delay, pauses, uneven>> /\ a.step \notin TimerSteps
    BY <1>10, <2>1 DEF ReadTask, TimerSteps, timeGhosts
  <2>3. TimerAsk(a)'
    BY <1>1, <2>2
  <2>. QED
    BY <1>0, <1>2, <2>1, <2>2, <2>3, TimesAside
<1>11. ASSUME NEW q \in Request, NEW s \in {"taskSaved", "logsBilled"}, UNCHANGED <<now, ran, delay, pauses, uneven>>,
              \A l \in Log : Still(l),
              asking[q].step \in TaskSteps, asking' = [asking EXCEPT ![q].step = s]
       PROVE  TimeInv'
  <2>1. PICK a \in Asking : NowDoes(q, a) /\ a.step = s /\ a.of = asking[q].of
    BY <1>11, NextStatement
  <2>2. a.step \notin TimerSteps /\ asking[q].of = NoLog
    BY <1>0, <1>11, <2>1 DEF TimerSteps, TaskSteps
  <2>3. TimerAsk(a)'
    BY <1>1, <2>2
  <2>. QED
    BY <1>0, <1>11, <2>1, <2>2, <2>3, TimesAside
<1>12. ASSUME NEW q \in Request, SaveTask(q) PROVE TimeInv'
  BY <1>2, <1>11, <1>12 DEF SaveTask, TaskSteps, billGhosts, timeGhosts
<1>13. ASSUME NEW q \in Request, BillLogs(q) PROVE TimeInv'
  <2>1. \A l \in Log : log[l] \in Timer
    BY DEF BillingTypeOK
  <2>2. \A l \in Log : Still(l)
    BY <1>13, <2>1, BillLogsFacts, RebilledFacts DEF Still, SameTimes, BillLogs, billGhosts, timeGhosts
  <2>. QED
    BY <1>11, <1>13, <2>2 DEF BillLogs, TaskSteps, billGhosts, timeGhosts
<1>14. ASSUME NEW q \in Request, UNCHANGED <<now, ran, delay, pauses, uneven>>, \A l \in Log : Still(l), NowDoes(q, Quiet)
       PROVE  TimeInv'
  <2>1. TimerAsk(Quiet)'
    BY <1>0, <1>1
  <2>. QED
    BY <1>0, <1>14, <2>1, TimesAside
<1>15. ASSUME NEW q \in Request, NEW l \in Log, SeePending(q, l) PROVE TimeInv'
  <2>1. PICK a \in Asking : NowDoes(q, a) /\ a.step = "seen" /\ a.of = l
    BY <1>15, SeePendingFacts
  <2>2. UNCHANGED <<now, log, ran, delay, pauses>> /\ log[l].bill = "pending" /\ uneven \subseteq uneven'
        /\ (l \in uneven' \/ \A r \in Request : asking[r].of # l)
    BY <1>15 DEF SeePending, timeGhosts
  <2>3. log[l].status # "none"
    BY <2>2 DEF Shape, LogFits
  <2>4. \A r \in Request : asking[r].of = l => asking[r].step # "new"
    BY <2>3, NewIsAlone
  <2>5. TimerAsk(a)'
    BY <2>1 DEF TimerAsk
  <2>. QED
    BY <1>0, <1>2, <2>1, <2>2, <2>4, <2>5, TimesAside
<1>16. ASSUME NEW q \in Request, NEW d \in {"approved", "rejected"}, ReviewTimer(q, d) PROVE TimeInv'
  <2> DEFINE l == asking[q].of
  <2>1. l \in Log
    BY <1>16, OfIsLog DEF ReviewTimer, TimerSteps
  <2>2. NowDoes(q, Quiet) /\ UNCHANGED <<now, uneven, ran, delay, pauses>>
    BY <1>16, <2>1, ReviewTimerFacts DEF ReviewTimer, timeGhosts
  <2>3. PICK t \in Timer : NowIs(l, t) /\ t.status = log[l].status /\ t.spent = log[l].spent /\ t.since = log[l].since
    BY <1>16, <2>1, ReviewTimerFacts
  <2> HIDE DEF l
  <2>4. \A k \in Log : Still(k)
    BY <2>1, <2>2, <2>3 DEF NowIs, Still, SameTimes
  <2>. QED
    BY <1>14, <2>2, <2>4
<1>17. ASSUME UNCHANGED <<now, log, ran, delay, pauses, asking, uneven>> PROVE TimeInv'
  BY <1>17 DEF TimeInv, TimerAsk, AskedOnce, EvenAddUp, AddsUp, PausesOf
<1>18. ASSUME NEW q \in Request, asking' = [asking EXCEPT ![q] = Quiet] PROVE NowDoes(q, Quiet)
  BY <1>18, QuietFacts DEF NowDoes, BillingTypeOK
<1>19. ASSUME NEW q \in Request, BillTask(q) PROVE TimeInv'
  BY <1>2, <1>14, <1>18, <1>19 DEF BillTask, billGhosts, timeGhosts
<1>20. ASSUME NEW q \in Request, BillingFails(q) PROVE TimeInv'
  BY <1>2, <1>14, <1>18, <1>20 DEF BillingFails, timeGhosts
<1>21. ASSUME NEW d \in {"approved", "rejected"}, ReviewRevenue(d) PROVE TimeInv'
  BY <1>17, <1>21 DEF ReviewRevenue, billGhosts, timeGhosts
<1>22. CASE UNCHANGED billVars
  BY <1>17, <1>22 DEF billVars, billGhosts, timeGhosts
<1>. QED
  BY <1>3, <1>4, <1>5, <1>6, <1>7, <1>8, <1>9, <1>10, <1>12, <1>13, <1>15, <1>16, <1>19, <1>20, <1>21, <1>22
  DEF BillingNext, BillingStep


\* A timelog that is open is not billed, unless it was reopened.
OpenUnbilled ==
    /\ \A l \in Log \ reopened : log[l].status # "completed" => log[l].bill = "none"
    /\ \A q \in Request : asking[q].step = "new" /\ asking[q].copy.status # "completed" =>
            asking[q].copy.bill = "none"

\* No request changes the task.
Calm == \A q \in Request : asking[q].step \notin TaskSteps

\* The price is due exactly when the task is closed at a fixed price.
PriceFits == revenue # "none" <=> task = [kind |-> "FIXED", done |-> TRUE]

\* No hours are billed, except those of a timelog that runs again.
Unbilled == \A l \in Log \ reopened : log[l].bill = "none"

\* At a fixed price, none are.
HoursFit == task.kind = "FIXED" => Unbilled

\* What a request carries of a task at a fixed price is not billed.
BillAsk(a) ==
    /\ a.step \in {"new", "read", "compared"} => a.copy.bill = "none" \/ a.of \in reopened
    /\ a.step = "seen" => a.of \in reopened

\* What holds between two changes of the task, for the rows and for what the
\* requests about timers will write.
Settled ==
    /\ PriceFits
    /\ HoursFit
    /\ task.kind = "FIXED" => \A q \in Request : BillAsk(asking[q])

\* How far the change of the task has come.
TaskAsk(q) ==
    /\ \A r \in Request \ {q} : asking[r].step = "idle"
    /\ asking[q].step = "taskRead" => asking[q].was = task /\ PriceFits /\ HoursFit
    /\ asking[q].step = "taskSaved" =>
        asking[q].wants = task /\ (asking[q].was.kind = "FIXED" => Unbilled)
    /\ asking[q].step = "logsBilled" => asking[q].wants = task /\ HoursFit

\* The invariant of the billing: settled when no change is under way, else as far
\* as that change has come.
BillInv ==
    ~overtaken =>
        /\ Calm => Settled
        /\ \A q \in Request : asking[q].step \in TaskSteps => TaskAsk(q)

-----------------------------------------------------------------------------
\* A request about a timer, while no request changes the task.
LEMMA CalmStep ==
    ASSUME Calm, Settled, NEW q \in Request, NEW a, NowDoes(q, a), a.step \notin TaskSteps,
           task' = task, revenue' = revenue, reopened \subseteq reopened',
           task.kind = "FIXED" => \A l \in Log : log'[l].bill = "none" \/ l \in reopened',
           task.kind = "FIXED" => BillAsk(a)'
    PROVE  BillInv'
<1>1. Calm'
  BY DEF Calm, NowDoes
<1>2. PriceFits' /\ HoursFit'
  BY DEF Settled, PriceFits, HoursFit, Unbilled
<1>3. ASSUME task.kind = "FIXED", NEW r \in Request PROVE BillAsk(asking[r])'
  <2>1. CASE r = q
    BY <1>3, <2>1 DEF NowDoes, BillAsk
  <2>2. CASE r # q
    BY <1>3, <2>2 DEF NowDoes, BillAsk, Settled
  <2>. QED
    BY <2>1, <2>2
<1>4. Settled'
  BY <1>2, <1>3 DEF Settled
<1>. QED
  BY <1>1, <1>4 DEF BillInv, Calm

\* A request that starts without being overtaken starts while none changes the task.
LEMMA StartsCalm ==
    ASSUME NEW q \in Request, NEW a, Starts(q, a), ~overtaken'
    PROVE  ~overtaken /\ Calm /\ (a.step \in TaskSteps => \A r \in Request : asking[r].step = "idle")
  BY DEF Starts, TaskIsChanging, Calm, Busy

\* While a timer is asked for, nobody changes the task.
LEMMA TimerCalm ==
    ASSUME BillInv, ~overtaken, NEW q \in Request, asking[q].step \in TimerSteps
    PROVE  Calm /\ Settled
<1>1. ASSUME NEW r \in Request, asking[r].step \in TaskSteps PROVE FALSE
  <2>1. r # q
    BY <1>1 DEF TimerSteps, TaskSteps
  <2>2. asking[q].step = "idle"
    BY <1>1, <2>1 DEF BillInv, TaskAsk
  <2>. QED
    BY <2>2 DEF TimerSteps
<1>. QED
  BY <1>1 DEF Calm, BillInv

\* A request that starts sees what is settled.
LEMMA StartStep ==
    ASSUME BillInv, NEW q \in Request, NEW a, NowDoes(q, a), a.step \notin TaskSteps,
           UNCHANGED <<task, revenue, log, reopened>>,
           ~overtaken' => ~overtaken /\ Calm,
           task.kind = "FIXED" /\ Settled => BillAsk(a)'
    PROVE  BillInv'
<1> SUFFICES ASSUME ~overtaken' PROVE BillInv'
  BY DEF BillInv
<1>1. Calm /\ Settled
  BY DEF BillInv
<1>2. task.kind = "FIXED" => \A l \in Log : log'[l].bill = "none" \/ l \in reopened'
  BY <1>1 DEF Settled, HoursFit, Unbilled
<1>. QED
  BY <1>1, <1>2, CalmStep

\* A timelog's row becomes t.
LEMMA RowStep ==
    ASSUME BillInv, NEW q \in Request, asking[q].step \in TimerSteps, NEW l \in Log, NEW t,
           NowDoes(q, Quiet), log' = log \/ NowIs(l, t),
           task' = task, revenue' = revenue, overtaken' = overtaken, reopened \subseteq reopened',
           task.kind = "FIXED" /\ Settled => t.bill = "none" \/ l \in reopened'
    PROVE  BillInv'
<1> SUFFICES ASSUME ~overtaken' PROVE BillInv'
  BY DEF BillInv
<1>1. Calm /\ Settled
  BY TimerCalm
<1>2. task.kind = "FIXED" => \A k \in Log : log'[k].bill = "none" \/ k \in reopened'
  BY <1>1 DEF Settled, HoursFit, Unbilled, NowIs
<1>3. Quiet.step \notin TaskSteps /\ BillAsk(Quiet)'
  BY QuietFacts DEF TaskSteps, BillAsk
<1>. QED
  BY <1>1, <1>2, <1>3, CalmStep

\* A step that leaves task, timelogs and requests keeps what is billed.
LEMMA BillAside ==
    ASSUME BillInv, UNCHANGED <<task, revenue, log, reopened, asking, overtaken>>
    PROVE  BillInv'
  BY DEF BillInv, Calm, Settled, PriceFits, HoursFit, Unbilled, BillAsk, TaskAsk


\* Hours at a fixed price are not billed.
LEMMA NotBilledByHour == \A b : BilledBy("FIXED", b) = b
  BY DEF BilledBy

\* Every step keeps open timelogs unbilled.
LEMMA OpenStep == BillingTypeOK /\ Shape /\ OpenUnbilled /\ [BillingNext]_billVars => OpenUnbilled'
<1> SUFFICES ASSUME BillingTypeOK, Shape, OpenUnbilled, [BillingNext]_billVars PROVE OpenUnbilled'
  OBVIOUS
<1> DEFINE NewOpen(a) == a.step = "new" /\ a.copy.status # "completed" => a.copy.bill = "none"
           RowOpen(t, l) == t.status # "completed" => t.bill = "none" \/ l \in reopened
<1>1. ASSUME NEW q \in Request, NEW a, NowDoes(q, a), NewOpen(a)
      PROVE  \A r \in Request : NewOpen(asking'[r])
  BY <1>1 DEF NowDoes, OpenUnbilled
<1>2. ASSUME UNCHANGED <<log, reopened>>, \A r \in Request : NewOpen(asking'[r]) PROVE OpenUnbilled'
  BY <1>2 DEF OpenUnbilled
<1>3. NewOpen(Quiet) /\ \A r \in Request : NewOpen(asking[r])
  BY QuietFacts DEF OpenUnbilled
<1>4. ASSUME NEW l \in Log, NEW t, log' = log \/ NowIs(l, t), reopened \subseteq reopened',
             t.status # "completed" => t.bill = "none" \/ l \in reopened',
             \A r \in Request : NewOpen(asking'[r])
      PROVE  OpenUnbilled'
  BY <1>4 DEF OpenUnbilled, NowIs
<1> HIDE DEF NewOpen
<1>5. ASSUME NEW l \in Log, NEW t, reopened' = NowReopened(l, t)
      PROVE  /\ reopened \subseteq reopened'
             /\ t.status # "completed" => t.bill = "none" \/ l \in reopened'
  BY <1>5 DEF NowReopened
<1>6. ASSUME NEW q \in Request, asking' = [asking EXCEPT ![q] = Quiet] PROVE NowDoes(q, Quiet)
  BY <1>6, QuietFacts DEF NowDoes, BillingTypeOK
<1>7. ASSUME NEW q \in Request, NowDoes(q, Quiet), UNCHANGED <<log, reopened>> PROVE OpenUnbilled'
  BY <1>1, <1>2, <1>3, <1>7
<1>8. ASSUME UNCHANGED <<log, reopened, asking>> PROVE OpenUnbilled'
  BY <1>2, <1>3, <1>8
<1>9. CASE Tick
  BY <1>8, <1>9 DEF Tick
<1>10. ASSUME NEW q \in Request, NEW l \in Log, NEW s \in {"in_progress", "paused", "completed"},
              NewTimer(q, l, s)
       PROVE  OpenUnbilled'
  <2>1. PICK a \in Asking : /\ NowDoes(q, a) /\ a.copy.status = s
                            /\ a.copy.bill = IF s = "completed" THEN BilledBy(task.kind, "none") ELSE "none"
    BY <1>10, NewTimerFacts
  <2>2. NewOpen(a)
    BY <2>1 DEF NewOpen
  <2>. QED
    BY <1>1, <1>2, <1>10, <2>1, <2>2 DEF NewTimer
<1>11. ASSUME NEW q \in Request, InsertTimer(q) PROVE OpenUnbilled'
  <2>1. PICK l \in Log, t \in Timer : l = asking[q].of /\ t = asking[q].copy
    BY <1>11, OfIsLog, AskingFacts DEF InsertTimer, TimerSteps, BillingTypeOK
  <2>2. NowDoes(q, Quiet) /\ (log' = log \/ NowIs(l, t)) /\ reopened' = reopened
    BY <1>11, <2>1, InsertTimerFacts DEF InsertTimer, billGhosts, timeGhosts
  <2>3. t.status # "completed" => t.bill = "none"
    BY <1>3, <1>11, <2>1 DEF NewOpen, InsertTimer
  <2>. QED
    BY <1>1, <1>3, <1>4, <2>2, <2>3
<1>12. ASSUME NEW q \in Request, NEW l \in Log, NEW s \in {"in_progress", "paused", "completed"},
              ReadTimer(q, l, s)
       PROVE  OpenUnbilled'
  <2>1. PICK a \in Asking : NowDoes(q, a) /\ a.step = "read"
    BY <1>12, ReadTimerFacts
  <2>. QED
    BY <1>1, <1>2, <1>12, <2>1 DEF ReadTimer, NewOpen
<1>13. ASSUME NEW q \in Request, CompareTimer(q) PROVE OpenUnbilled'
  <2>1. /\ asking[q].copy \in Timer /\ asking[q].to \in {"in_progress", "paused", "completed"}
        /\ asking[q].copy.since <= now
    BY <1>13, AskingFacts DEF CompareTimer, Shape, AskFits, BillingTypeOK
  <2>2. Changed(asking[q].copy, asking[q].to) \in Timer
    BY <2>1, ChangedFacts DEF BillingTypeOK
  <2>3. PICK a \in Asking : NowDoes(q, a) /\ a.step = "compared"
    BY <1>13, <2>2, CompareTimerFacts
  <2>. QED
    BY <1>1, <1>2, <1>13, <2>3 DEF CompareTimer, billGhosts, timeGhosts, NewOpen
<1>14. ASSUME NEW q \in Request, WriteTimer(q) PROVE OpenUnbilled'
  <2>1. PICK l \in Log, t \in Timer : l = asking[q].of /\ t = SavedRow(q, l)
    BY <1>14, OfIsLog, SavedFacts DEF WriteTimer, TimerSteps
  <2>2. /\ NowDoes(q, Quiet)
        /\ \/ UNCHANGED <<log, reopened>>
           \/ NowIs(l, t) /\ reopened' = NowReopened(l, t)
    BY <1>14, <2>1, WriteTimerFacts
  <2>3. CASE UNCHANGED <<log, reopened>>
    BY <1>7, <2>2, <2>3
  <2>4. CASE NowIs(l, t) /\ reopened' = NowReopened(l, t)
    BY <1>1, <1>3, <1>4, <1>5, <2>2, <2>4
  <2>. QED
    BY <2>2, <2>3, <2>4
<1>15. ASSUME NEW l \in Log, DeleteTimer(l) PROVE OpenUnbilled'
  <2>1. NowIs(l, NoTimerRow) /\ UNCHANGED <<asking, reopened>>
    BY <1>15, DeleteTimerFacts DEF DeleteTimer
  <2>. QED
    BY <1>3, <1>4, <2>1, QuietFacts
<1>16. ASSUME NEW q \in Request, NEW wants \in Task, ReadTask(q, wants) PROVE OpenUnbilled'
  <2>1. PICK a \in Asking : NowDoes(q, a) /\ a.step = "taskRead"
    BY <1>16, ReadTaskFacts
  <2>. QED
    BY <1>1, <1>2, <1>16, <2>1 DEF ReadTask, NewOpen
<1>17. ASSUME NEW q \in Request, NEW s \in {"taskSaved", "logsBilled"}, asking' = [asking EXCEPT ![q].step = s]
       PROVE  \A r \in Request : NewOpen(asking'[r])
  <2>1. PICK a \in Asking : NowDoes(q, a) /\ a.step = s
    BY <1>17, NextStatement
  <2>. QED
    BY <1>1, <2>1 DEF NewOpen
<1>18. ASSUME NEW q \in Request, SaveTask(q) PROVE OpenUnbilled'
  BY <1>2, <1>17, <1>18 DEF SaveTask, billGhosts, timeGhosts
<1>19. ASSUME NEW q \in Request, BillLogs(q) PROVE OpenUnbilled'
  <2>1. \A l \in Log : log[l] \in Timer
    BY DEF BillingTypeOK
  <2>2. \A l \in Log : /\ log'[l].status = log[l].status
                       /\ log[l].status # "completed" => log'[l].bill = log[l].bill
    BY <1>19, <2>1, BillLogsFacts, RebilledFacts
  <2>3. reopened' = reopened /\ \A r \in Request : NewOpen(asking'[r])
    BY <1>17, <1>19 DEF BillLogs, billGhosts, timeGhosts
  <2>. QED
    BY <2>2, <2>3 DEF OpenUnbilled, NewOpen
<1>20. ASSUME NEW q \in Request, BillTask(q) PROVE OpenUnbilled'
  BY <1>6, <1>7, <1>20 DEF BillTask, billGhosts, timeGhosts
<1>21. ASSUME NEW q \in Request, NEW l \in Log, SeePending(q, l) PROVE OpenUnbilled'
  <2>1. PICK a \in Asking : NowDoes(q, a) /\ a.step = "seen"
    BY <1>21, SeePendingFacts
  <2>. QED
    BY <1>1, <1>2, <1>21, <2>1 DEF SeePending, NewOpen
<1>22. ASSUME NEW q \in Request, NEW d \in {"approved", "rejected"}, ReviewTimer(q, d) PROVE OpenUnbilled'
  <2>1. PICK l \in Log : l = asking[q].of
    BY <1>22, OfIsLog DEF ReviewTimer, TimerSteps
  <2>2. PICK t \in Timer : NowDoes(q, Quiet) /\ NowIs(l, t) /\ reopened' = NowReopened(l, t)
    BY <1>22, <2>1, ReviewTimerFacts
  <2>. QED
    BY <1>1, <1>3, <1>4, <1>5, <2>2
<1>23. ASSUME NEW q \in Request, BillingFails(q) PROVE OpenUnbilled'
  BY <1>6, <1>7, <1>23 DEF BillingFails
<1>24. ASSUME NEW d \in {"approved", "rejected"}, ReviewRevenue(d) PROVE OpenUnbilled'
  BY <1>8, <1>24 DEF ReviewRevenue, billGhosts, timeGhosts
<1>25. CASE UNCHANGED billVars
  BY <1>8, <1>25 DEF billVars, billGhosts, timeGhosts
<1>. QED
  BY <1>9, <1>10, <1>11, <1>12, <1>13, <1>14, <1>15, <1>16, <1>18, <1>19, <1>20, <1>21, <1>22, <1>23, <1>24, <1>25
  DEF BillingNext, BillingStep

-----------------------------------------------------------------------------
\* Every step keeps what is billed.
LEMMA BillStep ==
    BillingTypeOK /\ Shape /\ OpenUnbilled /\ BillInv /\ [BillingNext]_billVars => BillInv'
<1> SUFFICES ASSUME BillingTypeOK, Shape, OpenUnbilled, BillInv, [BillingNext]_billVars PROVE BillInv'
  OBVIOUS
<1>1. CASE Tick
  BY <1>1, BillAside DEF Tick
<1>2. ASSUME NEW q \in Request, NEW l \in Log, NEW s \in {"in_progress", "paused", "completed"},
             NewTimer(q, l, s)
      PROVE  BillInv'
  <2>1. PICK a \in Asking : /\ NowDoes(q, a) /\ a.step = "new"
                            /\ a.copy.bill = IF s = "completed" THEN BilledBy(task.kind, "none") ELSE "none"
    BY <1>2, NewTimerFacts
  <2>2. UNCHANGED <<task, revenue, log, reopened>> /\ (~overtaken' => ~overtaken /\ Calm)
    BY <1>2, StartsCalm DEF NewTimer
  <2>3. a.step \notin TaskSteps /\ (task.kind = "FIXED" => BillAsk(a)')
    BY <2>1, NotBilledByHour DEF TaskSteps, BillAsk
  <2>. QED
    BY <2>1, <2>2, <2>3, StartStep
<1>3. ASSUME NEW q \in Request, InsertTimer(q) PROVE BillInv'
  <2>1. PICK l \in Log, t \in Timer : l = asking[q].of /\ t = asking[q].copy
    BY <1>3, OfIsLog, AskingFacts DEF InsertTimer, TimerSteps, BillingTypeOK
  <2>2. NowDoes(q, Quiet) /\ (log' = log \/ NowIs(l, t)) /\ UNCHANGED <<task, revenue, overtaken, reopened>>
    BY <1>3, <2>1, InsertTimerFacts DEF InsertTimer, billGhosts, timeGhosts
  <2>3. asking[q].step = "new" /\ asking[q].step \in TimerSteps
    BY <1>3 DEF InsertTimer, TimerSteps
  <2>4. task.kind = "FIXED" /\ Settled => t.bill = "none" \/ l \in reopened'
    BY <2>1, <2>2, <2>3 DEF Settled, BillAsk
  <2>. QED
    BY <2>2, <2>3, <2>4, RowStep
<1>4. ASSUME NEW q \in Request, NEW l \in Log, NEW s \in {"in_progress", "paused", "completed"},
             ReadTimer(q, l, s)
      PROVE  BillInv'
  <2>1. PICK a \in Asking : NowDoes(q, a) /\ a.step = "read" /\ a.of = l /\ a.copy = log[l]
    BY <1>4, ReadTimerFacts
  <2>2. UNCHANGED <<task, revenue, log, reopened>> /\ (~overtaken' => ~overtaken /\ Calm)
    BY <1>4, StartsCalm DEF ReadTimer
  <2>3. a.step \notin TaskSteps /\ (task.kind = "FIXED" /\ Settled => BillAsk(a)')
    BY <2>1, <2>2 DEF TaskSteps, BillAsk, Settled, HoursFit, Unbilled
  <2>. QED
    BY <2>1, <2>2, <2>3, StartStep
<1>5. ASSUME NEW q \in Request, CompareTimer(q) PROVE BillInv'
  <2>1. /\ asking[q].copy \in Timer /\ asking[q].to \in {"in_progress", "paused", "completed"}
        /\ asking[q].copy.since <= now /\ asking[q].step = "read" /\ asking[q].step \in TimerSteps
    BY <1>5, AskingFacts DEF CompareTimer, Shape, AskFits, BillingTypeOK, TimerSteps
  <2>2. /\ Changed(asking[q].copy, asking[q].to) \in Timer
        /\ Changed(asking[q].copy, asking[q].to).bill =
              IF asking[q].to = "completed" THEN BilledBy(task.kind, asking[q].copy.bill) ELSE asking[q].copy.bill
    BY <2>1, ChangedFacts DEF BillingTypeOK
  <2>3. PICK a \in Asking : /\ NowDoes(q, a) /\ a.step = "compared" /\ a.of = asking[q].of
                            /\ a.copy = Changed(asking[q].copy, asking[q].to)
    BY <1>5, <2>2, CompareTimerFacts
  <2>4. UNCHANGED <<task, revenue, log, reopened, overtaken>>
    BY <1>5 DEF CompareTimer, billGhosts, timeGhosts
  <2>5. task.kind = "FIXED" => a.copy.bill = asking[q].copy.bill
    BY <2>2, <2>3, NotBilledByHour
  <2>6. a.step \notin TaskSteps /\ (task.kind = "FIXED" /\ Settled => BillAsk(a)')
    BY <2>1, <2>3, <2>4, <2>5 DEF TaskSteps, BillAsk, Settled
  <2>7. ~overtaken => Calm
    BY <2>1, TimerCalm
  <2>. QED
    BY <2>3, <2>4, <2>6, <2>7, StartStep
<1>6. ASSUME NEW q \in Request, WriteTimer(q) PROVE BillInv'
  <2>1. PICK l \in Log, t \in Timer : l = asking[q].of /\ t = SavedRow(q, l)
    BY <1>6, OfIsLog, SavedFacts DEF WriteTimer, TimerSteps
  <2>2. /\ NowDoes(q, Quiet) /\ UNCHANGED <<task, revenue, overtaken>>
        /\ log' = log \/ NowIs(l, t)
        /\ reopened' = reopened \/ reopened' = NowReopened(l, t)
    BY <1>6, <2>1, WriteTimerFacts DEF WriteTimer
  <2>3. reopened \subseteq reopened'
    BY <2>2 DEF NowReopened
  <2>4. asking[q].step = "compared" /\ asking[q].step \in TimerSteps
    BY <1>6 DEF WriteTimer, TimerSteps
  <2>5. t.bill = asking[q].copy.bill \/ t.bill = log[l].bill
    BY <2>1, SavedFacts
  <2>6. task.kind = "FIXED" /\ Settled => t.bill = "none" \/ l \in reopened'
    BY <2>1, <2>3, <2>4, <2>5 DEF Settled, BillAsk, HoursFit, Unbilled
  <2>. QED
    BY <2>2, <2>3, <2>4, <2>6, RowStep
<1>7. ASSUME NEW l \in Log, DeleteTimer(l) PROVE BillInv'
  <2>1. NowIs(l, NoTimerRow) /\ UNCHANGED <<task, revenue, asking, overtaken, reopened>>
    BY <1>7, DeleteTimerFacts DEF DeleteTimer
  <2>2. Unbilled => Unbilled'
    BY <2>1, QuietFacts DEF Unbilled, NowIs
  <2>. QED
    BY <2>1, <2>2 DEF BillInv, Calm, Settled, PriceFits, HoursFit, BillAsk, TaskAsk
<1>8. ASSUME NEW q \in Request, NEW wants \in Task, ReadTask(q, wants) PROVE BillInv'
  <2>1. PICK a \in Asking : NowDoes(q, a) /\ a.step = "taskRead" /\ a.was = task
    BY <1>8, ReadTaskFacts
  <2>2. UNCHANGED <<task, revenue, log, reopened>>
    BY <1>8 DEF ReadTask
  <2>3. ASSUME ~overtaken' PROVE ~overtaken /\ Calm /\ \A r \in Request : asking[r].step = "idle"
    <3> DEFINE b == [Quiet EXCEPT !.step = "taskRead", !.was = task, !.wants = wants]
    <3>1. Starts(q, b)
      BY <1>8 DEF ReadTask
    <3>2. b.step \in TaskSteps
      BY DEF Quiet, TaskSteps
    <3> HIDE DEF b
    <3>. QED
      BY <2>3, <3>1, <3>2, StartsCalm
  <2>4. ASSUME ~overtaken' PROVE TaskAsk(q)'
    BY <2>1, <2>2, <2>3, <2>4 DEF BillInv, Settled, TaskAsk, NowDoes, PriceFits, HoursFit, Unbilled
  <2>5. ASSUME ~overtaken', NEW r \in Request, asking'[r].step \in TaskSteps PROVE r = q
    BY <2>1, <2>3, <2>5 DEF NowDoes, TaskSteps
  <2>6. asking'[q].step \in TaskSteps
    BY <2>1 DEF NowDoes, TaskSteps
  <2>. QED
    BY <2>4, <2>5, <2>6 DEF BillInv, Calm
<1>9. ASSUME NEW q \in Request, NEW s \in {"taskSaved", "logsBilled"},
             asking' = [asking EXCEPT ![q].step = s], asking[q].step \in TaskSteps,
             overtaken' = overtaken, ~overtaken, task' = asking[q].wants,
             s = "taskSaved" => (asking[q].was.kind = "FIXED" => Unbilled'),
             s = "logsBilled" => HoursFit'
      PROVE  BillInv'
  <2>1. PICK a \in Asking : NowDoes(q, a) /\ a.step = s /\ a.was = asking[q].was /\ a.wants = asking[q].wants
    BY <1>9, NextStatement
  <2>2. \A r \in Request \ {q} : asking[r].step = "idle"
    BY <1>9 DEF BillInv, TaskAsk
  <2>3. TaskAsk(q)'
    BY <1>9, <2>1, <2>2 DEF NowDoes, TaskAsk
  <2>4. asking'[q].step \in TaskSteps /\ \A r \in Request : asking'[r].step \in TaskSteps => r = q
    BY <2>1, <2>2 DEF NowDoes, TaskSteps
  <2>. QED
    BY <2>3, <2>4 DEF BillInv, Calm
<1>10. ASSUME NEW q \in Request, SaveTask(q) PROVE BillInv'
  <2>1. /\ asking[q].step = "taskRead" /\ asking[q].step \in TaskSteps
        /\ task' = asking[q].wants /\ asking' = [asking EXCEPT ![q].step = "taskSaved"]
        /\ UNCHANGED <<log, reopened, overtaken>>
    BY <1>10 DEF SaveTask, billGhosts, timeGhosts, TaskSteps
  <2>2. ~overtaken => (asking[q].was.kind = "FIXED" => Unbilled)
    BY <2>1 DEF BillInv, TaskAsk, HoursFit
  <2>3. Unbilled => Unbilled'
    BY <2>1 DEF Unbilled
  <2>. QED
    BY <1>9, <2>1, <2>2, <2>3 DEF BillInv
<1>11. ASSUME NEW q \in Request, BillLogs(q) PROVE BillInv'
  <2>1. /\ asking[q].step = "taskSaved" /\ asking[q].step \in TaskSteps
        /\ asking' = [asking EXCEPT ![q].step = "logsBilled"]
        /\ UNCHANGED <<task, reopened, overtaken>>
    BY <1>11 DEF BillLogs, billGhosts, timeGhosts, TaskSteps
  <2>2. ~overtaken => asking[q].wants = task /\ (asking[q].was.kind = "FIXED" => Unbilled)
    BY <2>1 DEF BillInv, TaskAsk
  <2>3. \A l \in Log : log[l] \in Timer
    BY DEF BillingTypeOK
  <2>4. ASSUME ~overtaken, task.kind = "FIXED", NEW l \in Log, l \notin reopened PROVE log'[l].bill = "none"
    <3>1. CASE asking[q].was.kind = "FIXED"
      BY <1>11, <2>2, <2>4, <3>1, BillLogsFacts DEF Unbilled
    <3>2. CASE asking[q].was.kind # "FIXED"
      <4>1. log'[l] = Rebilled(log[l], "FIXED")
        BY <1>11, <2>2, <2>4, <3>2, BillLogsFacts
      <4>2. log[l].status # "completed" => log[l].bill = "none"
        BY <2>4 DEF OpenUnbilled
      <4>. QED
        BY <2>3, <4>1, <4>2, RebilledFacts
    <3>. QED
      BY <3>1, <3>2
  <2>5. ~overtaken => HoursFit'
    BY <2>1, <2>4 DEF HoursFit, Unbilled
  <2>6. overtaken => BillInv'
    BY <2>1 DEF BillInv
  <2>7. ~overtaken => BillInv'
    BY <1>9, <2>1, <2>2, <2>5
  <2>. QED
    BY <2>6, <2>7
<1>12. ASSUME NEW q \in Request, BillTask(q) PROVE BillInv'
  <2>1. /\ asking[q].step = "logsBilled" /\ asking[q].step \in TaskSteps
        /\ UNCHANGED <<task, log, reopened, overtaken>>
        /\ revenue' = IF asking[q].wants = [kind |-> "FIXED", done |-> TRUE] THEN "pending" ELSE "none"
        /\ NowDoes(q, Quiet)
    BY <1>12, QuietFacts DEF BillTask, billGhosts, timeGhosts, TaskSteps, NowDoes, BillingTypeOK
  <2> SUFFICES ASSUME ~overtaken PROVE BillInv'
    BY <2>1 DEF BillInv
  <2>2. asking[q].wants = task /\ HoursFit /\ \A r \in Request \ {q} : asking[r].step = "idle"
    BY <2>1 DEF BillInv, TaskAsk
  <2>3. PriceFits' /\ HoursFit'
    BY <2>1, <2>2 DEF PriceFits, HoursFit, Unbilled
  <2>4. \A r \in Request : asking'[r].step = "idle"
    BY <2>1, <2>2, QuietFacts DEF NowDoes
  <2>5. \A r \in Request : BillAsk(asking[r])' /\ asking'[r].step \notin TaskSteps
    BY <2>4 DEF BillAsk, TaskSteps
  <2>. QED
    BY <2>3, <2>5 DEF BillInv, Settled
<1>13. ASSUME NEW q \in Request, NEW l \in Log, SeePending(q, l) PROVE BillInv'
  <2>1. PICK a \in Asking : NowDoes(q, a) /\ a.step = "seen" /\ a.of = l
    BY <1>13, SeePendingFacts
  <2>2. UNCHANGED <<task, revenue, log, reopened>> /\ (~overtaken' => ~overtaken /\ Calm) /\ log[l].bill = "pending"
    BY <1>13, StartsCalm DEF SeePending
  <2>3. a.step \notin TaskSteps /\ (task.kind = "FIXED" /\ Settled => BillAsk(a)')
    BY <2>1, <2>2 DEF TaskSteps, BillAsk, Settled, HoursFit, Unbilled
  <2>. QED
    BY <2>1, <2>2, <2>3, StartStep
<1>14. ASSUME NEW q \in Request, NEW d \in {"approved", "rejected"}, ReviewTimer(q, d) PROVE BillInv'
  <2>1. PICK l \in Log : l = asking[q].of
    BY <1>14, OfIsLog DEF ReviewTimer, TimerSteps
  <2>2. PICK t \in Timer : NowDoes(q, Quiet) /\ NowIs(l, t) /\ reopened' = NowReopened(l, t)
    BY <1>14, <2>1, ReviewTimerFacts
  <2>3. UNCHANGED <<task, revenue, overtaken>> /\ asking[q].step = "seen" /\ asking[q].step \in TimerSteps
    BY <1>14 DEF ReviewTimer, TimerSteps
  <2>4. reopened \subseteq reopened'
    BY <2>2 DEF NowReopened
  <2>5. task.kind = "FIXED" /\ Settled => l \in reopened'
    BY <2>1, <2>3, <2>4 DEF Settled, BillAsk
  <2>. QED
    BY <2>2, <2>3, <2>4, <2>5, RowStep
<1>15. ASSUME NEW d \in {"approved", "rejected"}, ReviewRevenue(d) PROVE BillInv'
  <2>1. UNCHANGED <<task, log, reopened, asking, overtaken>> /\ revenue # "none" /\ revenue' # "none"
    BY <1>15 DEF ReviewRevenue, billGhosts, timeGhosts
  <2>. QED
    BY <2>1 DEF BillInv, Calm, Settled, PriceFits, HoursFit, Unbilled, BillAsk, TaskAsk
<1>16. ASSUME NEW q \in Request, BillingFails(q) PROVE BillInv'
  <2>1. /\ NowDoes(q, Quiet) /\ UNCHANGED <<task, revenue, log, reopened>>
        /\ asking[q].step # "idle"
        /\ ~overtaken' => ~overtaken /\ asking[q].step \notin {"taskSaved", "logsBilled"}
    BY <1>16, QuietFacts DEF BillingFails, NowDoes, BillingTypeOK
  <2> SUFFICES ASSUME ~overtaken' PROVE BillInv'
    BY DEF BillInv
  <2>2. CASE asking[q].step \in TaskSteps
    <3>1. asking[q].step = "taskRead"
      BY <2>1, <2>2 DEF TaskSteps
    <3>2. PriceFits /\ HoursFit /\ \A r \in Request \ {q} : asking[r].step = "idle"
      BY <2>1, <2>2, <3>1 DEF BillInv, TaskAsk
    <3>3. PriceFits' /\ HoursFit'
      BY <2>1, <3>2 DEF PriceFits, HoursFit, Unbilled
    <3>4. \A r \in Request : asking'[r].step = "idle"
      BY <2>1, <3>2, QuietFacts DEF NowDoes
    <3>5. \A r \in Request : BillAsk(asking[r])' /\ asking'[r].step \notin TaskSteps
      BY <3>4 DEF BillAsk, TaskSteps
    <3>. QED
      BY <3>3, <3>5 DEF BillInv, Settled
  <2>3. CASE asking[q].step \notin TaskSteps
    <3>1. asking[q].step \in TimerSteps
      BY <2>1, <2>3, AskingFacts DEF TimerSteps, TaskSteps, BillingTypeOK, Asking
    <3>2. Calm
      BY <2>1, <3>1, TimerCalm
    <3>3. Quiet.step \notin TaskSteps /\ BillAsk(Quiet)'
      BY QuietFacts DEF TaskSteps, BillAsk
    <3>. QED
      BY <2>1, <3>2, <3>3, StartStep
  <2>. QED
    BY <2>2, <2>3
<1>17. CASE UNCHANGED billVars
  BY <1>17, BillAside DEF billVars, billGhosts, timeGhosts
<1>. QED
  BY <1>1, <1>2, <1>3, <1>4, <1>5, <1>6, <1>7, <1>8, <1>10, <1>11, <1>12, <1>13, <1>14, <1>15, <1>16, <1>17
  DEF BillingNext, BillingStep

-----------------------------------------------------------------------------

\* The inductive invariant of the billing.
BillingInv == BillingTypeOK /\ Shape /\ TimeInv /\ OpenUnbilled /\ BillInv

\* It holds before the first request.
LEMMA BillingInitially == BillingInit => BillingInv
<1> SUFFICES ASSUME BillingInit PROVE BillingInv
  OBVIOUS
<1>1. /\ now = 0 /\ asked = 0 /\ requestFaults = 0 /\ revenue = "none"
      /\ task.kind \in {"HOURLY", "FIXED"} /\ task.done = FALSE /\ task \in Task
      /\ log \in [Log -> {NoTimerRow}] /\ \A l \in Log : log[l] = NoTimerRow /\ ran[l] = 0
      /\ asking \in [Request -> {Quiet}] /\ \A q \in Request : asking[q] = Quiet
      /\ ran \in [Log -> {0}] /\ delay \in [Log -> {0}] /\ pauses \in [Log -> {0}]
      /\ used = {} /\ uneven = {} /\ reopened = {} /\ overtaken = FALSE
  BY DEF BillingInit, Task
<1>2. BillingTypeOK
  <2>1. log \in [Log -> Timer] /\ asking \in [Request -> Asking]
        /\ ran \in [Log -> Nat] /\ delay \in [Log -> Nat] /\ pauses \in [Log -> Nat]
    BY <1>1, QuietFacts
  <2>2. revenue \in Review /\ overtaken \in BOOLEAN /\ uneven \subseteq Log /\ reopened \subseteq Log /\ used \subseteq Log
    BY <1>1 DEF Review
  <2>3. now \in Nat /\ asked \in Nat /\ requestFaults \in Nat
    BY <1>1
  <2>. QED
    BY <1>1, <2>1, <2>2, <2>3 DEF BillingTypeOK
<1>3. Shape
  BY <1>1, QuietFacts DEF Shape, AskFits, LogFits, TimerSteps
<1>4. TimeInv
  BY <1>1, QuietFacts DEF TimeInv, TimerAsk, AskedOnce, EvenAddUp, AddsUp
<1>5. OpenUnbilled
  BY <1>1, QuietFacts DEF OpenUnbilled
<1>6. BillInv
  BY <1>1, QuietFacts DEF BillInv, Calm, Settled, PriceFits, HoursFit, Unbilled, BillAsk, TaskAsk, TaskSteps
<1>. QED
  BY <1>2, <1>3, <1>4, <1>5, <1>6 DEF BillingInv

\* It holds in every behaviour.
LEMMA BillingHolds == BillingSpec => []BillingInv
<1>1. BillingInv /\ [BillingNext]_billVars => BillingInv'
  BY BillingTypeStep, ShapeStep, TimeStep, OpenStep, BillStep DEF BillingInv
<1>. QED
  BY <1>1, BillingInitially, PTL DEF BillingSpec

\* Type correctness of the task, its timelogs and the requests about them.
THEOREM BillingTypeCorrect == BillingSpec => []BillingTypeOK
<1>1. BillingInv => BillingTypeOK
  BY DEF BillingInv
<1>. QED
  BY <1>1, BillingHolds, PTL

\* A timer whose requests come one at a time, as its page offers them, has recorded
\* the time it ran but for less than a second a pause: no save of a copy loses or
\* repeats a stretch of time.
THEOREM TimeIsWhatRan == BillingSpec => []TrackedTimeFallsShort
<1>1. BillingInv => TrackedTimeFallsShort
  BY DEF BillingInv, TimeInv, EvenAddUp, AddsUp, Close, Cut, RecordedAt, TrackedTimeFallsShort
<1>. QED
  BY <1>1, BillingHolds, PTL

\* At rest the task is billed by the hour or at its fixed price, never both, whatever
\* reviews, saves and changes of the task came before.
THEOREM HoursOrPrice == BillingSpec => []BilledOneWay
<1>1. BillingInv => BilledOneWay
  <2>1. Busy = {} => Calm
    BY DEF Busy, Calm, TaskSteps
  <2>. QED
    BY <2>1 DEF BillingInv, BillInv, BilledOneWay, Settled, PriceFits, HoursFit, Unbilled
<1>. QED
  BY <1>1, BillingHolds, PTL
==============================================================================
