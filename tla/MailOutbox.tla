----------------------------- MODULE MailOutbox -----------------------------
(***************************************************************************)
(* The durable outgoing mail queue of one tenant (TENANCY_ENABLED=true):   *)
(* MailOutboxService, the requests of MailboxService that fill the queue   *)
(* or rewrite a queued message, and the part of MailDeliveryService that   *)
(* confirms a message.  Several API replicas run the same sweep over the   *)
(* same database; the provider (Yandex Postbox) has no idempotency token.  *)
(*                                                                         *)
(* One row of mail_messages and at most one row of mail_outbox (UNIQUE     *)
(* tenant_id, message_id) exist per message, so both are functions on      *)
(* Message.  A database transaction that only touches the data database    *)
(* is one step; a step boundary stands wherever the code awaits another    *)
(* system (platform database, S3, the provider) or ends a transaction.     *)
(***************************************************************************)
EXTENDS Naturals

CONSTANTS
    Message,    \* identifiers of outgoing mail_messages rows
    Worker,     \* API replicas, each with its own `running` flag
    None,       \* "no message": the row of an idle worker
    EditKinds   \* rewriting requests that may race with delivery

ASSUME MailAssumption == /\ None \notin Message
                         /\ EditKinds \subseteq {"save", "delete"}

VARIABLES
    status,     \* mail_messages.status; "absent" before the row exists
    outbox,     \* mail_outbox.status; "none" when there is no row
    aged,       \* rows whose claimed_at is older than 15 minutes
    deleted,    \* messages with deleted_at set
    edit,       \* the rewriting request that has read the message, per message
    seen,       \* the status that request read
    tenant,     \* what platform.getTenant answers for this tenant
    pc,         \* where the sweep of each worker is
    row,        \* the row the worker has claimed
    verdict,    \* the status a failed delivery is about to be given
    request,    \* the worker's SendEmail call
    stray,      \* messages with a call on the wire that nobody waits for
    accepted    \* how many times the provider accepted the message

messageVars == <<status, outbox, aged, deleted, edit, seen>>
workerVars == <<pc, row, verdict, request>>
providerVars == <<stray, accepted>>
vars == <<messageVars, tenant, workerVars, providerVars>>

MessageStatus == {"absent", "draft", "queued", "sending", "sent", "failed", "uncertain"}
OutboxStatus == {"none", "queued", "sending", "sent", "failed", "uncertain"}
TenantView == {"open", "mailOff", "readOnly", "suspended"}
Stage == {"idle", "claimed", "loading", "checked", "verified", "waiting", "failing"}
Call == {"none", "wire", "accepted", "refused"}

TypeOK ==
    /\ status \in [Message -> MessageStatus]
    /\ outbox \in [Message -> OutboxStatus]
    /\ aged \subseteq Message
    /\ deleted \subseteq Message
    /\ edit \in [Message -> {"none", "save", "delete"}]
    /\ seen \in [Message -> MessageStatus]
    /\ tenant \in TenantView
    /\ pc \in [Worker -> Stage]
    /\ row \in [Worker -> Message \cup {None}]
    /\ verdict \in [Worker -> {"failed", "uncertain"}]
    /\ request \in [Worker -> Call]
    /\ stray \subseteq Message
    /\ accepted \in [Message -> Nat]

Init ==
    /\ status = [m \in Message |-> "absent"]
    /\ outbox = [m \in Message |-> "none"]
    /\ aged = {}
    /\ deleted = {}
    /\ edit = [m \in Message |-> "none"]
    /\ seen = [m \in Message |-> "absent"]
    /\ tenant = "open"
    /\ pc = [w \in Worker |-> "idle"]
    /\ row = [w \in Worker |-> None]
    /\ verdict = [w \in Worker |-> "failed"]
    /\ request = [w \in Worker |-> "none"]
    /\ stray = {}
    /\ accepted = [m \in Message |-> 0]

-----------------------------------------------------------------------------
(***************************************************************************)
(* Requests of users.  A request of a tenant that is read-only, suspended  *)
(* or without the mail feature never reaches the handler.                  *)
(***************************************************************************)

\* Mutant: a row starts in the status a tenant job starts in.
EnqueuedPending(m) == [outbox EXCEPT ![m] = IF @ = "none" THEN "pending" ELSE @]

\* INSERT ... ON CONFLICT (tenant_id, message_id) DO NOTHING: the one row a
\* message ever gets.
Enqueued(m) == [outbox EXCEPT ![m] = IF @ = "none" THEN "queued" ELSE @]

\* POST /mailbox/send: the message and its row are inserted in one transaction.
SendMail(m) ==
    /\ tenant = "open"
    /\ status[m] = "absent"
    /\ status' = [status EXCEPT ![m] = "queued"]
    /\ outbox' = Enqueued(m)
    /\ UNCHANGED <<aged, deleted, edit, seen, tenant, workerVars, providerVars>>

\* A manual retry copies a failed or bounced message m into a new one, n.  A
\* bounce is an event of the provider, so m was accepted.
RetryMessage(m, n) ==
    /\ status[m] = "failed" \/ accepted[m] > 0
    /\ SendMail(n)

\* saveDraft without draft_id.
CreateDraft(m) ==
    /\ tenant = "open"
    /\ status[m] = "absent"
    /\ status' = [status EXCEPT ![m] = "draft"]
    /\ UNCHANGED <<outbox, aged, deleted, edit, seen, tenant, workerVars, providerVars>>

\* sendDraft: under FOR UPDATE, so its read and its writes are one step.
SendDraft(m) ==
    /\ tenant = "open"
    /\ status[m] = "draft"
    /\ status' = [status EXCEPT ![m] = "queued"]
    /\ outbox' = Enqueued(m)
    /\ UNCHANGED <<aged, deleted, edit, seen, tenant, workerVars, providerVars>>

\* saveDraft and softDeleteMessage read the whole entity without a lock ...
EditRead(m, kind) ==
    /\ tenant = "open"
    /\ edit[m] = "none"
    /\ IF kind = "save" THEN status[m] = "draft" ELSE status[m] # "absent"
    /\ edit' = [edit EXCEPT ![m] = kind]
    /\ seen' = [seen EXCEPT ![m] = status[m]]
    /\ UNCHANGED <<status, outbox, aged, deleted, tenant, workerVars, providerVars>>

\* ... and save it back: every column that differs from the row is written,
\* the status read earlier among them.
EditWrite(m) ==
    /\ edit[m] # "none"
    /\ status' = [status EXCEPT ![m] = seen[m]]
    /\ deleted' = IF edit[m] = "delete" THEN deleted \cup {m} ELSE deleted
    /\ edit' = [edit EXCEPT ![m] = "none"]
    /\ seen' = [seen EXCEPT ![m] = "absent"]
    /\ UNCHANGED <<outbox, aged, tenant, workerVars, providerVars>>

\* The operator blocks, restricts or reopens the tenant, or flips the flag.
SetTenant ==
    /\ tenant' \in TenantView \ {tenant}
    /\ UNCHANGED <<messageVars, workerVars, providerVars>>

\* Fifteen minutes pass since the claim of m.
ClaimAges(m) ==
    /\ outbox[m] = "sending" /\ m \notin aged
    /\ aged' = aged \cup {m}
    /\ UNCHANGED <<status, outbox, deleted, edit, seen, tenant, workerVars, providerVars>>

-----------------------------------------------------------------------------
(***************************************************************************)
(* The sweep.                                                              *)
(***************************************************************************)

\* Mutant: claims are never given up.
AbandonedNever == {}

\* Claims whose worker is presumed dead.
Abandoned == {m \in aged : outbox[m] = "sending"}

\* Mutant: an abandoned row is queued again.
OutboxRequeued == [m \in Message |-> IF m \in Abandoned THEN "queued" ELSE outbox[m]]

\* Mutant: an abandoned row counts as a failed one.
OutboxFailed == [m \in Message |-> IF m \in Abandoned THEN "failed" ELSE outbox[m]]

\* Mutant: the message of an abandoned row is forgotten.
StatusKept == status

\* The first statement of the claim transaction: abandoned rows, and their
\* messages that are still "sending", become "uncertain".
OutboxReaped == [m \in Message |-> IF m \in Abandoned THEN "uncertain" ELSE outbox[m]]
StatusReaped == [m \in Message |-> IF m \in Abandoned /\ status[m] = "sending"
                                   THEN "uncertain" ELSE status[m]]

\* The claim transaction finds no unlocked queued row.
Sweep(w) ==
    /\ pc[w] = "idle" /\ tenant = "open"
    /\ Abandoned # {}
    /\ outbox' = OutboxReaped
    /\ status' = StatusReaped
    /\ aged' = aged \ Abandoned
    /\ UNCHANGED <<deleted, edit, seen, tenant, workerVars, providerVars>>

\* The claim transaction takes row m.  The message becomes "sending" whatever
\* its status was.
Claim(w, m) ==
    /\ pc[w] = "idle" /\ tenant = "open"
    /\ outbox[m] = "queued"
    /\ outbox' = [OutboxReaped EXCEPT ![m] = "sending"]
    /\ status' = [StatusReaped EXCEPT ![m] = "sending"]
    /\ aged' = aged \ Abandoned
    /\ pc' = [pc EXCEPT ![w] = "claimed"]
    /\ row' = [row EXCEPT ![w] = m]
    /\ UNCHANGED <<deleted, edit, seen, tenant, verdict, request, providerVars>>

\* Policy read after the claim, then the first read of the delivery transaction.
OpenDelivery(w) ==
    /\ pc[w] = "claimed"
    /\ tenant = "open" /\ row[w] \notin deleted
    /\ pc' = [pc EXCEPT ![w] = "loading"]
    /\ UNCHANGED <<messageVars, tenant, row, verdict, request, providerVars>>

\* The attachments are loaded; the policy is read again.
RecheckTenant(w) ==
    /\ pc[w] = "loading"
    /\ tenant = "open"
    /\ pc' = [pc EXCEPT ![w] = "checked"]
    /\ UNCHANGED <<messageVars, tenant, row, verdict, request, providerVars>>

\* The message is read again: it is still there and still being sent.
RecheckMessage(w) ==
    /\ pc[w] = "checked"
    /\ row[w] \notin deleted /\ status[row[w]] = "sending"
    /\ pc' = [pc EXCEPT ![w] = "verified"]
    /\ UNCHANGED <<messageVars, tenant, row, verdict, request, providerVars>>

\* The sender's access is read from the platform database and from the users of
\* the tenant; then the request goes out, whatever became of the row meanwhile.
Dispatch(w) ==
    /\ pc[w] = "verified"
    /\ pc' = [pc EXCEPT ![w] = "waiting"]
    /\ request' = [request EXCEPT ![w] = "wire"]
    /\ UNCHANGED <<messageVars, tenant, row, verdict, providerVars>>

\* Any check or read before the request fails: the account was disabled, the
\* sender lost access, an attachment is too large or S3 or a database failed.
PreparationFails(w) ==
    /\ pc[w] \in {"claimed", "loading", "checked", "verified"}
    /\ pc' = [pc EXCEPT ![w] = "failing"]
    /\ verdict' = [verdict EXCEPT ![w] = "failed"]
    /\ UNCHANGED <<messageVars, tenant, row, request, providerVars>>

\* Nobody waits for the worker's call any longer; one still on the wire strays.
Strays(w) == IF request[w] = "wire" THEN stray \cup {row[w]} ELSE stray

\* The writes of a delivery that succeeded; the outbox update is unconditional.
WriteSent(m) ==
    /\ status' = [status EXCEPT ![m] = "sent"]
    /\ outbox' = [outbox EXCEPT ![m] = "sent"]
    /\ aged' = aged \ {m}

Release(w) ==
    /\ pc' = [pc EXCEPT ![w] = "idle"]
    /\ row' = [row EXCEPT ![w] = None]
    /\ verdict' = [verdict EXCEPT ![w] = "failed"]
    /\ request' = [request EXCEPT ![w] = "none"]

\* The provider's answer arrives and the delivery transaction commits.
RecordSent(w) ==
    /\ pc[w] = "waiting" /\ request[w] = "accepted"
    /\ WriteSent(row[w])
    /\ Release(w)
    /\ UNCHANGED <<deleted, edit, seen, tenant, providerVars>>

\* An answer of class 4xx.
Refused(w) ==
    /\ pc[w] = "waiting" /\ request[w] = "refused"
    /\ pc' = [pc EXCEPT ![w] = "failing"]
    /\ verdict' = [verdict EXCEPT ![w] = "failed"]
    /\ request' = [request EXCEPT ![w] = "none"]
    /\ UNCHANGED <<messageVars, tenant, row, providerVars>>

\* Mutant: a timeout counts as a refusal.
TimeoutIsFailure(w) ==
    /\ pc[w] = "waiting" /\ request[w] # "refused"
    /\ pc' = [pc EXCEPT ![w] = "failing"]
    /\ verdict' = [verdict EXCEPT ![w] = "failed"]
    /\ stray' = Strays(w)
    /\ request' = [request EXCEPT ![w] = "none"]
    /\ UNCHANGED <<messageVars, tenant, row, accepted>>

\* Anything else: a timeout, a broken connection, a 5xx, or a rollback of the
\* delivery transaction after the answer came.
OutcomeUnknown(w) ==
    /\ pc[w] = "waiting" /\ request[w] # "refused"
    /\ pc' = [pc EXCEPT ![w] = "failing"]
    /\ verdict' = [verdict EXCEPT ![w] = "uncertain"]
    /\ stray' = Strays(w)
    /\ request' = [request EXCEPT ![w] = "none"]
    /\ UNCHANGED <<messageVars, tenant, row, accepted>>

\* The delivery transaction commits but the worker is told that it failed.
CommitAnswerLost(w) ==
    /\ pc[w] = "waiting" /\ request[w] = "accepted"
    /\ WriteSent(row[w])
    /\ pc' = [pc EXCEPT ![w] = "failing"]
    /\ verdict' = [verdict EXCEPT ![w] = "uncertain"]
    /\ request' = [request EXCEPT ![w] = "none"]
    /\ UNCHANGED <<deleted, edit, seen, tenant, row, providerVars>>

\* Mutant: the maintenance transaction does not look at the row's status.
SettleAlways(w) ==
    /\ pc[w] = "failing" /\ tenant \in {"open", "mailOff"}
    /\ LET m == row[w] IN
        /\ outbox' = [outbox EXCEPT ![m] = verdict[w]]
        /\ status' = [status EXCEPT ![m] = verdict[w]]
        /\ aged' = aged \ {m}
    /\ Release(w)
    /\ UNCHANGED <<deleted, edit, seen, tenant, providerVars>>

\* The maintenance transaction: both updates are guarded by status 'sending'.
Settle(w) ==
    /\ pc[w] = "failing" /\ tenant \in {"open", "mailOff"}
    /\ LET m == row[w] IN
        /\ outbox' = [outbox EXCEPT ![m] = IF @ = "sending" THEN verdict[w] ELSE @]
        /\ status' = [status EXCEPT ![m] = IF @ = "sending" THEN verdict[w] ELSE @]
        /\ aged' = aged \ {m}
    /\ Release(w)
    /\ UNCHANGED <<deleted, edit, seen, tenant, providerVars>>

\* A read-only or suspended tenant is not written; the claim stays "sending".
LeaveClaim(w) ==
    /\ pc[w] = "failing" /\ tenant \in {"readOnly", "suspended"}
    /\ Release(w)
    /\ UNCHANGED <<messageVars, tenant, providerVars>>

\* The process stops, or the maintenance transaction itself fails.
Crash(w) ==
    /\ pc[w] # "idle"
    /\ stray' = Strays(w)
    /\ Release(w)
    /\ UNCHANGED <<messageVars, tenant, accepted>>

-----------------------------------------------------------------------------
(***************************************************************************)
(* The provider.                                                           *)
(***************************************************************************)

ProviderAccepts(w) ==
    /\ request[w] = "wire"
    /\ request' = [request EXCEPT ![w] = "accepted"]
    /\ accepted' = [accepted EXCEPT ![row[w]] = @ + 1]
    /\ UNCHANGED <<messageVars, tenant, pc, row, verdict, stray>>

ProviderRefuses(w) ==
    /\ request[w] = "wire"
    /\ request' = [request EXCEPT ![w] = "refused"]
    /\ UNCHANGED <<messageVars, tenant, pc, row, verdict, providerVars>>

\* A call nobody waits for is still accepted, or lost.
StrayEnds(m) ==
    /\ m \in stray
    /\ stray' = stray \ {m}
    /\ accepted' \in {accepted, [accepted EXCEPT ![m] = @ + 1]}
    /\ UNCHANGED <<messageVars, tenant, workerVars>>

\* A webhook event of an accepted message: message and row become "sent".
ProviderEvent(m) ==
    /\ accepted[m] > 0 /\ tenant = "open"
    /\ WriteSent(m)
    /\ UNCHANGED <<deleted, edit, seen, tenant, workerVars, providerVars>>

-----------------------------------------------------------------------------
\* What a running replica does by itself.
WorkerStep(w) ==
    \/ Sweep(w)
    \/ \E m \in Message : Claim(w, m)
    \/ OpenDelivery(w)
    \/ RecheckTenant(w)
    \/ RecheckMessage(w)
    \/ Dispatch(w)
    \/ PreparationFails(w)
    \/ RecordSent(w)
    \/ Refused(w)
    \/ OutcomeUnknown(w)
    \/ CommitAnswerLost(w)
    \/ Settle(w)
    \/ LeaveClaim(w)

UserStep(m) ==
    \/ SendMail(m)
    \/ \E n \in Message : RetryMessage(n, m)
    \/ CreateDraft(m)
    \/ SendDraft(m)
    \/ \E kind \in EditKinds : EditRead(m, kind)
    \/ EditWrite(m)

ProviderStep(w) == ProviderAccepts(w) \/ ProviderRefuses(w)

Next ==
    \/ \E w \in Worker : WorkerStep(w) \/ ProviderStep(w) \/ Crash(w)
    \/ \E m \in Message : UserStep(m) \/ ClaimAges(m) \/ StrayEnds(m) \/ ProviderEvent(m)
    \/ SetTenant

Spec == Init /\ [][Next]_vars

\* The timer of every replica runs every five seconds, every call has a time
\* limit, and time passes.
Fairness ==
    /\ \A w \in Worker : WF_vars(WorkerStep(w))
    /\ \A m \in Message : WF_vars(ClaimAges(m))

FairSpec == Spec /\ Fairness

-----------------------------------------------------------------------------
(***************************************************************************)
(* Properties.                                                             *)
(***************************************************************************)

\* However workers crash, stall past the 15 minutes or lose answers, and
\* however requests rewrite the message meanwhile, the provider accepts a
\* message at most once: the claim commits before the call and no path leads
\* back to "queued".
AtMostOnce == \A m \in Message : accepted[m] <= 1

\* "failed" offers the user a manual retry, so it is never shown for a message
\* that the provider has accepted or may still accept.
FailedNeverAccepted ==
    \A m \in Message :
        status[m] = "failed" \/ outbox[m] = "failed" =>
            /\ accepted[m] = 0
            /\ m \notin stray
            /\ \A w \in Worker : row[w] = m => request[w] \notin {"wire", "accepted"}

\* A message shows the state of its row, although the two are guarded
\* separately in every statement: the only deviation is that of a racing
\* saveDraft, which shows a message that was sent as a draft that may be sent.
StatusFollowsOutbox ==
    \A m \in Message \ deleted :
        outbox[m] # "none" => status[m] \in {outbox[m], "draft", "queued"}

\* Between the last look at the message and the request the code reads other
\* databases, so a row may be given up, and its message be deleted or rewritten,
\* and the request goes out all the same.  Such a request is still the only one:
\* the row is never offered for a retry nor queued again before it, nobody else
\* holds it, and the provider has not had the message.
LateRequestIsTheOnlyOne ==
    \A w \in Worker : pc[w] = "verified" =>
        /\ outbox[row[w]] \in {"sending", "uncertain"}
        /\ accepted[row[w]] = 0 /\ row[w] \notin stray
        /\ \A v \in Worker \ {w} : row[v] # row[w]

\* When the tenant stays usable, every queued message gets an outcome, also
\* when replicas crash again and again.
QueuedIsResolved ==
    <>[](tenant = "open") =>
        \A m \in Message :
            outbox[m] \in {"queued", "sending"} ~> outbox[m] \in {"sent", "failed", "uncertain"}

\* The interface shows a message first "queued", then "sending" and then the
\* result (docs/saas-mail.md): a message does not stay queued.
QueuedIsShownResolved ==
    <>[](tenant = "open") => \A m \in Message : status[m] = "queued" ~> status[m] # "queued"

\* The queue keeps the promise of MailPromise: the outcome is the state of the
\* message's row, the provider's takings are its acceptances.
OutcomeOf(m) == CASE outbox[m] = "sending" -> "trying"
                  [] outbox[m] = "uncertain" -> "unknown"
                  [] OTHER -> outbox[m]

Promise == INSTANCE MailPromise WITH
    outcome <- [m \in Message |-> OutcomeOf(m)],
    taken <- accepted

KeepsPromise == Promise!PromiseSpec

=============================================================================
