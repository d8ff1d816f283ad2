---------------------------- MODULE MailDelivery ----------------------------
(***************************************************************************)
(* The provider's delivery events in a tenant: MailDeliveryService.        *)
(* The webhook hands over batches of events, each batch in one tenant      *)
(* transaction; the provider repeats a batch until it is answered, so any  *)
(* event may come any number of times, in any order and in two requests at *)
(* once.  Each new event is stored once and folded into the snapshot that  *)
(* the message row keeps of its deliveries.                                *)
(*                                                                         *)
(* An event's identity stands for its provider_event_id, which is the hash *)
(* of its contents when the provider gives none.  What the service does    *)
(* between the row lock and its next await touches only locked rows, so it *)
(* is one step.                                                            *)
(*                                                                         *)
(* The snapshot has other writers: the outbox, sendDraft, and the requests *)
(* that save a message whole (softDeleteMessage, saveDraft).  TypeORM's    *)
(* save compares the entity read earlier with the row and updates the      *)
(* columns that differ, so what an event wrote in between is undone.       *)
(***************************************************************************)
EXTENDS Naturals, Sequences, FiniteSets

CONSTANTS
    Ingest,     \* webhook requests in flight
    Mail,       \* outgoing mail_messages
    Event,      \* events of the provider
    Batch,      \* the sequences of events the provider delivers
    MailOf,     \* the message an event is about
    KindOf,     \* its type
    TimeOf,     \* when it occurred
    MaxSaves    \* bound on the whole saves

EventKind == {"Send", "Delivery", "Bounce", "Complaint", "Open", "Click", "DeliveryDelay"}

ASSUME DeliveryAssumption ==
    /\ Batch \subseteq Seq(Event)
    /\ MailOf \in [Event -> Mail]
    /\ KindOf \in [Event -> EventKind]
    /\ TimeOf \in [Event -> Nat \ {0}]
    /\ MaxSaves \in Nat

\* STATUS_RANK, with 0 for a message that has no status yet.
Rank == [none |-> 0, sent |-> 1, delivered |-> 2, bounced |-> 3, complained |-> 4]
DeliveryStatus == DOMAIN Rank

\* delivery_status, open_count, click_count, first_opened_at,
\* last_delivery_event_at (0 for null), and mail_messages.status, where "queued"
\* stands for all that is neither a draft nor sent.
Snapshot == [status : DeliveryStatus, opens : Nat, clicks : Nat,
             first : Nat, last : Nat, shown : {"draft", "queued", "sent"}]
MailColumn == {"status", "opens", "clicks", "first", "last", "shown"}

VARIABLES
    stored,     \* mail_delivery_events
    snapshot,   \* the delivery columns of mail_messages
    posting,    \* how far the outbox is with the message: mail_outbox
    saving,     \* messages that a request has read and is about to save whole
    entity,       \* what that request read
    differs,    \* the columns its save is about to write
    saves,      \* how many saves there have been, bounded by MaxSaves
    overwritten, \* history: delivery columns written by a save or a sendDraft
    batch,      \* the events a request has yet to apply
    ingesting,  \* requests with an open transaction
    looked,     \* requests that have looked up the message of their next event
    found,      \* what they read of it, without a lock
    grip,       \* message rows the request's transaction has locked
    draft,      \* its uncommitted snapshots of those rows
    fresh       \* its uncommitted events

ingestVars == <<batch, ingesting, looked, found, grip, draft, fresh>>
saveVars == <<saving, entity, differs, saves>>
writerVars == <<posting, saveVars, overwritten>>
deliveryVars == <<stored, snapshot, writerVars, ingestVars>>

Untouched == [status |-> "none", opens |-> 0, clicks |-> 0,
              first |-> 0, last |-> 0, shown |-> "draft"]

DeliveryTypeOK ==
    /\ stored \subseteq Event
    /\ snapshot \in [Mail -> Snapshot]
    /\ posting \in [Mail -> {"none", "queued", "claimed", "recorded"}]
    /\ saving \subseteq Mail
    /\ entity \in [Mail -> Snapshot]
    /\ differs \in [Mail -> SUBSET MailColumn]
    /\ saves \in Nat
    /\ overwritten \subseteq Mail
    /\ batch \in [Ingest -> Seq(Event)]
    /\ ingesting \subseteq Ingest
    /\ looked \subseteq Ingest
    /\ found \in [Ingest -> Snapshot]
    /\ grip \in [Ingest -> SUBSET Mail]
    /\ draft \in [Ingest -> [Mail -> Snapshot]]
    /\ fresh \in [Ingest -> SUBSET Event]

DeliveryInit ==
    /\ stored = {}
    /\ snapshot = [m \in Mail |-> Untouched]
    /\ posting = [m \in Mail |-> "none"]
    /\ saving = {}
    /\ entity = [m \in Mail |-> Untouched]
    /\ differs = [m \in Mail |-> {}]
    /\ saves = 0
    /\ overwritten = {}
    /\ batch = [i \in Ingest |-> <<>>]
    /\ ingesting = {}
    /\ looked = {}
    /\ found = [i \in Ingest |-> Untouched]
    /\ grip = [i \in Ingest |-> {}]
    /\ draft = [i \in Ingest |-> [m \in Mail |-> Untouched]]
    /\ fresh = [i \in Ingest |-> {}]

-----------------------------------------------------------------------------
(***************************************************************************)
(* updateMessageSnapshot.                                                  *)
(***************************************************************************)

\* Mutant: the newest event wins.
LatestStatus(current, next) == next

\* pickHigherStatus.
HigherStatus(current, next) == IF Rank[next] >= Rank[current] THEN next ELSE current

StatusAfter(current, kind) ==
    CASE kind = "Delivery" -> HigherStatus(current, "delivered")
      [] kind = "Bounce" -> HigherStatus(current, "bounced")
      [] kind = "Complaint" -> HigherStatus(current, "complained")
      [] kind \in {"Open", "Click"} -> IF current \in {"none", "sent"} THEN "delivered" ELSE current
      [] kind = "Send" -> IF current = "none" THEN "sent" ELSE current
      [] OTHER -> current

Later(a, b) == IF a >= b THEN a ELSE b

Updated(s, e) ==
    [status |-> StatusAfter(s.status, KindOf[e]),
     opens |-> IF KindOf[e] = "Open" THEN s.opens + 1 ELSE s.opens,
     clicks |-> IF KindOf[e] = "Click" THEN s.clicks + 1 ELSE s.clicks,
     first |-> IF KindOf[e] = "Open" /\ s.first = 0 THEN TimeOf[e] ELSE s.first,
     last |-> Later(s.last, TimeOf[e]),
     shown |-> "sent"]

-----------------------------------------------------------------------------
(***************************************************************************)
(* One request: ingestPayload inside the tenant transaction.               *)
(***************************************************************************)
Free(m, i) == \A k \in Ingest \ {i} : m \notin grip[k]

\* What a statement of request i reads.
Visible(i, m) == IF m \in grip[i] THEN draft[i][m] ELSE snapshot[m]

\* The provider has events of what the outbox has handed to it.
Receive(i, b) ==
    /\ i \notin ingesting
    /\ \A k \in DOMAIN b : posting[MailOf[b[k]]] \in {"claimed", "recorded"}
    /\ ingesting' = ingesting \cup {i}
    /\ batch' = [batch EXCEPT ![i] = b]
    /\ UNCHANGED <<stored, snapshot, writerVars, looked, found, grip, draft, fresh>>

FindMessage(i) ==
    /\ i \in ingesting \ looked /\ batch[i] # <<>>
    /\ looked' = looked \cup {i}
    /\ found' = [found EXCEPT ![i] = Visible(i, MailOf[Head(batch[i])])]
    /\ UNCHANGED <<stored, snapshot, writerVars, batch, ingesting, grip, draft, fresh>>

\* Mutant: the entity that was read before the lock is used.
AsFound(i, m) == found[i]

\* The message is read again under its lock.
Reread(i, m) == Visible(i, m)

\* The look-up of provider_event_id.
Known(i, e) == e \in stored \cup fresh[i]

\* SELECT ... FOR UPDATE waits for the row; then the event is stored and
\* counted, or found to be a repetition.
ApplyEvent(i) ==
    /\ i \in looked
    /\ looked' = looked \ {i}
    /\ found' = [found EXCEPT ![i] = Untouched]
    /\ LET e == Head(batch[i])
           m == MailOf[e] IN
          /\ Free(m, i)
          /\ grip' = [grip EXCEPT ![i] = @ \cup {m}]
          /\ IF Known(i, e)
             THEN /\ draft' = [draft EXCEPT ![i][m] = Visible(i, m)]
                  /\ UNCHANGED fresh
             ELSE /\ draft' = [draft EXCEPT ![i][m] = Updated(Reread(i, m), e)]
                  /\ fresh' = [fresh EXCEPT ![i] = @ \cup {e}]
    /\ batch' = [batch EXCEPT ![i] = Tail(@)]
    /\ UNCHANGED <<stored, snapshot, writerVars, ingesting>>

EndsIngest(i) ==
    /\ ingesting' = ingesting \ {i}
    /\ batch' = [batch EXCEPT ![i] = <<>>]
    /\ looked' = looked \ {i}
    /\ found' = [found EXCEPT ![i] = Untouched]
    /\ grip' = [grip EXCEPT ![i] = {}]
    /\ draft' = [draft EXCEPT ![i] = [m \in Mail |-> Untouched]]
    /\ fresh' = [fresh EXCEPT ![i] = {}]

\* COMMIT; the answer may be lost, and the provider repeats the batch.
CommitEvents(i) ==
    /\ i \in ingesting /\ batch[i] = <<>>
    /\ stored' = stored \cup fresh[i]
    /\ snapshot' = [m \in Mail |-> IF m \in grip[i] THEN draft[i][m] ELSE snapshot[m]]
    /\ EndsIngest(i)
    /\ UNCHANGED writerVars

\* A lost connection, a deadlock victim, a crash: the whole batch is undone and
\* will come again.
RollBackEvents(i) ==
    /\ i \in ingesting
    /\ EndsIngest(i)
    /\ UNCHANGED <<stored, snapshot, writerVars>>

-----------------------------------------------------------------------------
(***************************************************************************)
(* The other writers of the row.  Each waits for the row lock.             *)
(***************************************************************************)
Unlocked(m) == \A i \in Ingest : m \notin grip[i]

\* sendDraft, under FOR UPDATE: the message is queued, the outbox row is made
\* unless there is one, and the delivery status starts anew.  A message sent at
\* once is a draft that is sent at once.
QueueDraft(m) ==
    /\ Unlocked(m)
    /\ snapshot[m].shown = "draft"
    /\ snapshot' = [snapshot EXCEPT ![m].shown = "queued", ![m].status = "none"]
    /\ posting' = [posting EXCEPT ![m] = IF @ = "none" THEN "queued" ELSE @]
    /\ overwritten' = IF snapshot[m].status = "none" THEN overwritten ELSE overwritten \cup {m}
    /\ UNCHANGED <<stored, saveVars, ingestVars>>

\* The claim of the outbox, after which the provider may get the message.
OutboxClaims(m) ==
    /\ Unlocked(m)
    /\ posting[m] = "queued"
    /\ posting' = [posting EXCEPT ![m] = "claimed"]
    /\ snapshot' = [snapshot EXCEPT ![m].shown = "queued"]
    /\ UNCHANGED <<stored, saveVars, overwritten, ingestVars>>

\* The outbox has sent the message: UPDATE ... WHERE delivery_status IS NULL.
OutboxRecordsSent(m) ==
    /\ Unlocked(m)
    /\ posting[m] = "claimed"
    /\ posting' = [posting EXCEPT ![m] = "recorded"]
    /\ snapshot' = [snapshot EXCEPT ![m].shown = "sent",
                                    ![m].status = IF @ = "none" THEN "sent" ELSE @]
    /\ UNCHANGED <<stored, saveVars, overwritten, ingestVars>>

\* softDeleteMessage or saveDraft reads the message.
SaveRead(m) ==
    /\ saves < MaxSaves /\ m \notin saving
    /\ saves' = saves + 1
    /\ saving' = saving \cup {m}
    /\ entity' = [entity EXCEPT ![m] = snapshot[m]]
    /\ UNCHANGED <<stored, snapshot, posting, differs, overwritten, ingestVars>>

\* Its save reads the row again to see which columns to write.
SaveCompare(m) ==
    /\ m \in saving
    /\ differs' = [differs EXCEPT ![m] = {c \in MailColumn : entity[m][c] # snapshot[m][c]}]
    /\ UNCHANGED <<stored, snapshot, posting, saving, entity, saves, overwritten, ingestVars>>

\* The columns cs of s as they are in t.
Restored(s, t, cs) ==
    [status |-> IF "status" \in cs THEN t.status ELSE s.status,
     opens |-> IF "opens" \in cs THEN t.opens ELSE s.opens,
     clicks |-> IF "clicks" \in cs THEN t.clicks ELSE s.clicks,
     first |-> IF "first" \in cs THEN t.first ELSE s.first,
     last |-> IF "last" \in cs THEN t.last ELSE s.last,
     shown |-> IF "shown" \in cs THEN t.shown ELSE s.shown]

\* The UPDATE of the columns that differed, if any.
SaveWrite(m) ==
    /\ m \in saving /\ differs[m] # {}
    /\ Unlocked(m)
    /\ snapshot' = [snapshot EXCEPT ![m] = Restored(@, entity[m], differs[m])]
    /\ overwritten' = IF differs[m] \subseteq {"shown"} THEN overwritten
                      ELSE overwritten \cup {m}
    /\ saving' = saving \ {m}
    /\ entity' = [entity EXCEPT ![m] = Untouched]
    /\ differs' = [differs EXCEPT ![m] = {}]
    /\ UNCHANGED <<stored, posting, saves, ingestVars>>

DeliveryNext ==
    \/ \E i \in Ingest, b \in Batch : Receive(i, b)
    \/ \E i \in Ingest : FindMessage(i) \/ ApplyEvent(i) \/ CommitEvents(i) \/ RollBackEvents(i)
    \/ \E m \in Mail : QueueDraft(m) \/ OutboxClaims(m) \/ OutboxRecordsSent(m)
    \/ \E m \in Mail : SaveRead(m) \/ SaveCompare(m) \/ SaveWrite(m)

DeliverySpec == DeliveryInit /\ [][DeliveryNext]_deliveryVars

-----------------------------------------------------------------------------
EventsOf(m, kinds) == {e \in stored : MailOf[e] = m /\ KindOf[e] \in kinds}

\* The status an event alone would give a message.
RankOf(e) == Rank[StatusAfter("none", KindOf[e])]

\* Whatever the order, the repetitions and the concurrent requests, the
\* snapshot is the one the stored events give: each counted once, the status
\* that of the weightiest, the time that of the latest.  A whole save, or a
\* sendDraft of a message that a save made a draft again, may lose events; but
\* even then none is counted twice and no status is shown that no event gave.
SnapshotMatchesEvents ==
    \A m \in Mail :
        /\ snapshot[m].opens <= Cardinality(EventsOf(m, {"Open"}))
        /\ snapshot[m].clicks <= Cardinality(EventsOf(m, {"Click"}))
        /\ \/ snapshot[m].status \in {"none", "sent"}
           \/ \E e \in EventsOf(m, EventKind) : RankOf(e) = Rank[snapshot[m].status]
        /\ m \notin overwritten =>
              /\ snapshot[m].opens = Cardinality(EventsOf(m, {"Open"}))
              /\ snapshot[m].clicks = Cardinality(EventsOf(m, {"Click"}))
              /\ \A e \in EventsOf(m, EventKind) :
                    /\ RankOf(e) <= Rank[snapshot[m].status]
                    /\ TimeOf[e] <= snapshot[m].last

\* Events and the outbox never make a message that bounced or drew a complaint
\* look delivered again, and set no counter back; only a save or sendDraft does.
DeliveryOnlyAdvances ==
    [][\A m \in Mail \ overwritten' :
          /\ Rank[snapshot[m].status] <= Rank[snapshot'[m].status]
          /\ snapshot[m].opens <= snapshot'[m].opens
          /\ snapshot[m].clicks <= snapshot'[m].clicks
          /\ snapshot[m].last <= snapshot'[m].last]_deliveryVars

=============================================================================
