------------------------------ MODULE Reminders ------------------------------
(***************************************************************************)
(* The reminders of one meeting: CalendarService.  processDueReminders     *)
(* claims due rows with a lease of five minutes and delivers them one by   *)
(* one; update() replaces all rows of the meeting, and invites and removes *)
(* participants with it.                                                   *)
(*                                                                         *)
(* The service runs in two ways.  Hosted (TENANCY_ENABLED), a sweep is a   *)
(* tenant job: claim, notifications, queued mail and marks are one         *)
(* transaction.  On its own, every statement commits by itself and the     *)
(* mail leaves at once.  A sweep that finds `processingReminders` set does *)
(* nothing, and so does the job of another tenant in the same process.     *)
(*                                                                         *)
(* What a sweep makes and its mark vouches for is the notification: the    *)
(* mail that goes with it may fail, which is only logged.                  *)
(***************************************************************************)
EXTENDS Naturals, FiniteSets

CONSTANTS
    Sweeper,            \* processes that sweep
    Editor,             \* requests that change or remove the meeting
    Participant,        \* who may be invited: the creator, who always stays, is
                        \* reminded like a participant whom nobody removes
    Moment,             \* the times a reminder may be set to
    NoOne,              \* nobody is being notified
    MaxTries,           \* 10 in the code
    MaxEdits,           \* bound on the changes of the meeting
    MaxReminderFaults   \* bound on crashes and lost transactions

ASSUME ReminderAssumption ==
    /\ Moment \subseteq Nat \ {0}
    /\ NoOne \notin Participant \X Nat \X Moment
    /\ MaxTries \in Nat /\ MaxEdits \in Nat /\ MaxReminderFaults \in Nat

\* A row of calendar_event_reminders, which is there while its participant is
\* invited; gen tells the rows apart that update() puts in each other's place.
\* The lease is free when processing_at is null, and late when it is older than
\* five minutes.
Reminder == [invited : BOOLEAN, at : Moment, sent : BOOLEAN,
             lease : {"free", "held", "late"}, tries : Nat, gen : Nat]

VARIABLES
    hosted,     \* TENANCY_ENABLED
    clock,
    meeting,    \* "planned", "over" or "removed"
    reminder,   \* the row of each participant
    claims,     \* the rows a sweep has claimed: participant and gen
    rest,       \* those it has yet to deliver
    notifying,  \* the row it has read for delivery: participant, gen and time
    notified,   \* the notification has been made
    outcome,    \* hosted: what the sweep's transaction will record
    editing,    \* requests between reading and replacing the rows
    seen,       \* the rows such a request has read
    edits,
    notices,    \* the notifications made for a participant of a moment
    excused,    \* participants and moments for which a repetition is no error
    reminderFaults

sweepVars == <<claims, rest, notifying, notified, outcome>>
editVars == <<editing, seen, edits>>
noticeVars == <<notices, excused>>
reminderVars == <<hosted, clock, meeting, reminder, sweepVars, editVars, noticeVars, reminderFaults>>

ReminderTypeOK ==
    /\ hosted \in BOOLEAN
    /\ clock \in Nat
    /\ meeting \in {"planned", "over", "removed"}
    /\ reminder \in [Participant -> Reminder]
    /\ claims \in [Sweeper -> SUBSET (Participant \X Nat)]
    /\ rest \in [Sweeper -> SUBSET (Participant \X Nat)]
    /\ notifying \in [Sweeper -> (Participant \X Nat \X Moment) \cup {NoOne}]
    /\ notified \subseteq Sweeper
    /\ outcome \in [Sweeper -> [Participant -> {"none", "notified", "failed"}]]
    /\ editing \subseteq Editor
    /\ seen \in [Editor -> [Participant -> Reminder]]
    /\ edits \in Nat
    /\ notices \in [Participant -> [Moment -> Nat]]
    /\ excused \subseteq Participant \X Moment
    /\ reminderFaults \in Nat

NewRow(t) == [invited |-> TRUE, at |-> t, sent |-> FALSE, lease |-> "free", tries |-> 0, gen |-> 0]
NoRow(t) == [NewRow(t) EXCEPT !.invited = FALSE]

\* create() has inserted the meeting, its participants P and one row for each.
ReminderInit ==
    /\ hosted \in BOOLEAN
    /\ clock = 0
    /\ meeting = "planned"
    /\ \E t \in Moment, P \in SUBSET Participant :
         /\ reminder = [u \in Participant |-> IF u \in P THEN NewRow(t) ELSE NoRow(t)]
         /\ seen = [e \in Editor |-> reminder]
    /\ claims = [w \in Sweeper |-> {}]
    /\ rest = [w \in Sweeper |-> {}]
    /\ notifying = [w \in Sweeper |-> NoOne]
    /\ notified = {}
    /\ outcome = [w \in Sweeper |-> [u \in Participant |-> "none"]]
    /\ editing = {}
    /\ edits = 0
    /\ notices = [u \in Participant |-> [t \in Moment |-> 0]]
    /\ excused = {}
    /\ reminderFaults = 0

\* The row a claim is about still exists.
IsRow(u, g) == meeting # "removed" /\ reminder[u].invited /\ reminder[u].gen = g
ClaimedBy(w, u) == \E c \in claims[w] : c[1] = u

\* Hosted, a claimed row stays locked until the transaction ends.
RowLocked(u) == hosted /\ \E w \in Sweeper : ClaimedBy(w, u)

TimePasses ==
    /\ \E t \in Moment : t > clock
    /\ clock' = clock + 1
    /\ UNCHANGED <<hosted, meeting, reminder, sweepVars, editVars, noticeVars, reminderFaults>>

MeetingEnds ==
    /\ meeting = "planned"
    /\ meeting' = "over"
    /\ UNCHANGED <<hosted, clock, reminder, sweepVars, editVars, noticeVars, reminderFaults>>

\* Five minutes pass since the claim.  If its sweep is still at work on its own,
\* another process may deliver the reminder a second time.
LeaseRunsOut(u) ==
    /\ reminder[u].lease = "held"
    /\ reminder' = [reminder EXCEPT ![u].lease = "late"]
    /\ excused' = IF \E w \in Sweeper : <<u, reminder[u].gen>> \in claims[w]
                  THEN excused \cup {<<u, reminder[u].at>>} ELSE excused
    /\ UNCHANGED <<hosted, clock, meeting, sweepVars, editVars, notices, reminderFaults>>

-----------------------------------------------------------------------------
(***************************************************************************)
(* processDueReminders and deliverReminder.                                *)
(***************************************************************************)

\* Mutant: the lease of another sweep is not respected.
DueOrHeld(u) ==
    /\ reminder[u].invited
    /\ ~reminder[u].sent /\ reminder[u].at <= clock
    /\ reminder[u].tries < MaxTries
    /\ ~RowLocked(u)

\* The WHERE clause of the claim, with FOR UPDATE SKIP LOCKED.
Claimable(u) ==
    /\ reminder[u].invited
    /\ ~reminder[u].sent /\ reminder[u].at <= clock
    /\ reminder[u].tries < MaxTries
    /\ reminder[u].lease # "held"
    /\ ~RowLocked(u)

ClaimReminders(w) ==
    LET due == {u \in Participant : Claimable(u)} IN
    /\ claims[w] = {}
    /\ meeting = "planned" /\ due # {}
    /\ claims' = [claims EXCEPT ![w] = {<<u, reminder[u].gen>> : u \in due}]
    /\ rest' = [rest EXCEPT ![w] = {<<u, reminder[u].gen>> : u \in due}]
    /\ reminder' = IF hosted THEN reminder
                   ELSE [u \in Participant |->
                           IF u \in due THEN [reminder[u] EXCEPT !.lease = "held", !.tries = @ + 1]
                           ELSE reminder[u]]
    /\ UNCHANGED <<hosted, clock, meeting, notifying, notified, outcome, editVars, noticeVars, reminderFaults>>

\* The row is read again: gone, or sent by another sweep, it is skipped.
ReadReminder(w, c) ==
    /\ c \in rest[w] /\ notifying[w] = NoOne
    /\ rest' = [rest EXCEPT ![w] = @ \ {c}]
    /\ notifying' = [notifying EXCEPT ![w] =
                       IF IsRow(c[1], c[2]) /\ ~reminder[c[1]].sent
                       THEN <<c[1], c[2], reminder[c[1]].at>> ELSE NoOne]
    /\ UNCHANGED <<hosted, clock, meeting, reminder, claims, notified, outcome, editVars, noticeVars, reminderFaults>>

\* createWithEmail: the notification is made, and what fails of its mail is only
\* logged.  Hosted, it is a row of the transaction.
Notify(w) ==
    /\ notifying[w] # NoOne /\ w \notin notified
    /\ notified' = notified \cup {w}
    /\ notices' = IF hosted THEN notices
                  ELSE [notices EXCEPT ![notifying[w][1]][notifying[w][3]] = @ + 1]
    /\ UNCHANGED <<hosted, clock, meeting, reminder, claims, rest, notifying, outcome, editVars, excused, reminderFaults>>

\* reminderRepo.update(id, ...): the row of that id, if there is one.
Records(w, result) ==
    LET u == notifying[w][1] IN
    /\ notifying' = [notifying EXCEPT ![w] = NoOne]
    /\ notified' = notified \ {w}
    /\ IF hosted
       THEN /\ outcome' = [outcome EXCEPT ![w][u] = result]
            /\ UNCHANGED reminder
       ELSE /\ reminder' = IF IsRow(u, notifying[w][2])
                           THEN [reminder EXCEPT ![u].lease = "free", ![u].sent = @ \/ result = "notified"]
                           ELSE reminder
            /\ UNCHANGED outcome
    /\ UNCHANGED <<hosted, clock, meeting, claims, rest, editVars, notices>>

MarkSent(w) ==
    /\ w \in notified
    /\ Records(w, "notified")
    /\ UNCHANGED <<excused, reminderFaults>>

NotificationFails(w) ==
    /\ notifying[w] # NoOne /\ w \notin notified
    /\ Records(w, "failed")
    /\ UNCHANGED <<excused, reminderFaults>>

\* On its own: the notification is in the database, and then the read of the push
\* subscriptions fails, or the mark itself.  Hosted, the transaction is lost.
MarkFails(w) ==
    /\ reminderFaults < MaxReminderFaults
    /\ reminderFaults' = reminderFaults + 1
    /\ ~hosted /\ w \in notified
    /\ Records(w, "failed")
    /\ excused' = excused \cup {<<notifying[w][1], notifying[w][3]>>}

Rests(w) ==
    /\ claims' = [claims EXCEPT ![w] = {}]
    /\ rest' = [rest EXCEPT ![w] = {}]
    /\ notifying' = [notifying EXCEPT ![w] = NoOne]
    /\ notified' = notified \ {w}
    /\ outcome' = [outcome EXCEPT ![w] = [u \in Participant |-> "none"]]

\* Mutant: the attempt is committed, the mark is not.
CountsOnly(w, u) == [reminder[u] EXCEPT !.tries = @ + 1]

\* Hosted, COMMIT shows claim and mark together.
RecordedBy(w, u) == [reminder[u] EXCEPT !.tries = @ + 1, !.sent = outcome[w][u] = "notified"]

\* The loop is over: hosted, the job commits.
SweepEnds(w) ==
    /\ claims[w] # {} /\ rest[w] = {} /\ notifying[w] = NoOne
    /\ IF hosted
       THEN /\ reminder' = [u \in Participant |-> IF ClaimedBy(w, u) THEN RecordedBy(w, u) ELSE reminder[u]]
            /\ notices' = [u \in Participant |->
                             IF outcome[w][u] = "notified" THEN [notices[u] EXCEPT ![reminder[u].at] = @ + 1]
                             ELSE notices[u]]
       ELSE UNCHANGED <<reminder, notices>>
    /\ Rests(w)
    /\ UNCHANGED <<hosted, clock, meeting, editVars, excused, reminderFaults>>

\* The process dies or, hosted, its transaction fails.  On its own, the lease
\* stays, and a notification that was not recorded will be made again.
SweepLost(w) ==
    /\ reminderFaults < MaxReminderFaults
    /\ reminderFaults' = reminderFaults + 1
    /\ claims[w] # {}
    /\ Rests(w)
    /\ excused' = IF ~hosted /\ w \in notified
                  THEN excused \cup {<<notifying[w][1], notifying[w][3]>>} ELSE excused
    /\ UNCHANGED <<hosted, clock, meeting, reminder, editVars, notices>>

-----------------------------------------------------------------------------
(***************************************************************************)
(* update() and remove().                                                  *)
(***************************************************************************)
ReadForUpdate(e) ==
    /\ meeting # "removed" /\ edits < MaxEdits /\ e \notin editing
    /\ editing' = editing \cup {e}
    /\ edits' = edits + 1
    /\ seen' = [seen EXCEPT ![e] = reminder]
    /\ UNCHANGED <<hosted, clock, meeting, reminder, sweepVars, noticeVars, reminderFaults>>

\* Mutant: the mark is kept although the time is another one.
KeepsMark(e, u, t, P) ==
    IF u \in P
    THEN [seen[e][u] EXCEPT !.invited = TRUE, !.at = t, !.lease = "free", !.gen = reminder[u].gen + 1]
    ELSE [NoRow(t) EXCEPT !.gen = reminder[u].gen + 1]

\* `previous`: the request has read a row of that participant with that time.
KnowsRow(e, u, t) == seen[e][u].invited /\ seen[e][u].at = t

\* What is there of a participant after an update to time t and participants P.
Replacement(e, u, t, P) ==
    IF u \notin P THEN [NoRow(t) EXCEPT !.gen = reminder[u].gen + 1]
    ELSE IF KnowsRow(e, u, t)
    THEN [seen[e][u] EXCEPT !.lease = "free", !.gen = reminder[u].gen + 1]
    ELSE [NewRow(t) EXCEPT !.gen = reminder[u].gen + 1]

\* The row changed hands between the read and the replacement, is being
\* delivered, or starts anew, by another time or another invitation, although the
\* participant has been reminded of that time before.
MayRepeat(e, u, t) ==
    \/ seen[e][u] # reminder[u]
    \/ \E w \in Sweeper : ClaimedBy(w, u)
    \/ ~KnowsRow(e, u, t) /\ notices[u][t] > 0

\* DELETE waits for the rows a hosted sweep has locked; it, the INSERT and the
\* COMMIT are one step.
ReplaceRows(e, t, P) ==
    /\ e \in editing
    /\ \A u \in Participant : ~RowLocked(u)
    /\ editing' = editing \ {e}
    /\ IF meeting = "removed"
       THEN UNCHANGED <<reminder, excused>>
       ELSE /\ reminder' = [u \in Participant |-> Replacement(e, u, t, P)]
            /\ excused' = excused \cup {<<u, t>> : u \in {v \in P : MayRepeat(e, v, t)}}
    /\ UNCHANGED <<hosted, clock, meeting, sweepVars, seen, edits, notices, reminderFaults>>

RemoveMeeting ==
    /\ meeting # "removed"
    /\ \A u \in Participant : ~RowLocked(u)
    /\ meeting' = "removed"
    /\ UNCHANGED <<hosted, clock, reminder, sweepVars, editVars, noticeVars, reminderFaults>>

-----------------------------------------------------------------------------
SweepStep(w) ==
    \/ ClaimReminders(w)
    \/ \E c \in rest[w] : ReadReminder(w, c)
    \/ Notify(w)
    \/ MarkSent(w)
    \/ NotificationFails(w)
    \/ MarkFails(w)
    \/ SweepEnds(w)
    \/ SweepLost(w)

ReminderNext ==
    \/ TimePasses \/ MeetingEnds \/ RemoveMeeting
    \/ \E u \in Participant : LeaseRunsOut(u)
    \/ \E w \in Sweeper : SweepStep(w)
    \/ \E e \in Editor :
         ReadForUpdate(e) \/ \E t \in Moment, P \in SUBSET Participant : ReplaceRows(e, t, P)

ReminderSpec == ReminderInit /\ [][ReminderNext]_reminderVars

-----------------------------------------------------------------------------
\* A participant is notified of a moment once.  Again only after a crash or failure
\* between notification and mark, after a lease that ran out during the delivery,
\* or after an update that met a delivery, set the time back, or invited again
\* somebody who had been removed.
RemindedOnce ==
    \A u \in Participant, t \in Moment : notices[u][t] > 1 => <<u, t>> \in excused

\* A reminder that counts as sent had its notification made, for the time it is
\* set to.  Of the mail that goes with a notification the mark says nothing.
SentWasNotified ==
    \A u \in Participant : reminder[u].sent => notices[u][reminder[u].at] > 0

=============================================================================
