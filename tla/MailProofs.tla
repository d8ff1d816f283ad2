----------------------------- MODULE MailProofs ------------------------------
(***************************************************************************)
(* Proofs about MailOutbox and MailDelivery: the way of a message to the   *)
(* provider, and what the provider's events make of it.                    *)
(***************************************************************************)
EXTENDS MailOutbox, MailDelivery, TLAPS, FiniteSetTheorems

-----------------------------------------------------------------------------
(***************************************************************************)
(* Proofs about MailOutbox, for any number of messages and replicas.       *)
(*                                                                         *)
(* AtMostOnce and FailedNeverAccepted are not inductive: they say nothing  *)
(* of the worker that is between its claim and its call.  IInv adds what a *)
(* worker knows of its row: nobody else holds it, and until its call is on *)
(* the wire the provider has not seen the message.                         *)
(***************************************************************************)
\* A worker that has not sent its call, whose call is undecided or refused, or
\* that is about to report a refusal.
Unsent(w) == \/ pc[w] \in {"claimed", "loading", "checked", "verified"}
             \/ request[w] \in {"wire", "refused"}
             \/ pc[w] = "failing" /\ verdict[w] = "failed"

\* The provider has not taken the message, and no call for it is astray.
Untaken(m) == accepted[m] = 0 /\ m \notin stray

\* A worker is idle without a row, and waits when it has sent its call.
WorkerShape ==
    \A w \in Worker :
        /\ pc[w] = "idle" <=> row[w] = None
        /\ pc[w] = "waiting" <=> request[w] # "none"

\* No two workers hold one row.
Exclusive == \A v, w \in Worker : v # w /\ row[v] = row[w] => row[v] = None

\* A queued row is nobody's, and was never sent.
QueuedIsFree ==
    \A m \in Message :
        outbox[m] \in {"none", "queued"} => Untaken(m) /\ \A w \in Worker : row[w] # m

\* Until its call is out, a worker's message is untaken; once accepted, taken once.
WorkerKnows ==
    \A w \in Worker :
        /\ Unsent(w) => Untaken(row[w])
        /\ request[w] = "accepted" => accepted[row[w]] = 1 /\ row[w] \notin stray

\* What failed is over: nobody holds it and the provider never took it.
FailedIsOver ==
    \A m \in Message :
        "failed" \in {status[m], outbox[m], seen[m]} =>
            /\ Untaken(m)
            /\ \A w \in Worker : row[w] # m
            /\ outbox[m] \notin {"none", "queued"}

\* The provider takes a message once at most.
TakenOnce ==
    \A m \in Message :
        /\ accepted[m] <= 1
        /\ m \in stray => accepted[m] = 0
        /\ outbox[m] = "sent" => accepted[m] = 1

\* What workers know of their rows, and rows of the provider.
Knowledge ==
    /\ WorkerShape
    /\ Exclusive
    /\ QueuedIsFree
    /\ WorkerKnows
    /\ FailedIsOver
    /\ TakenOnce

\* The inductive invariant of the outbox.
IInv == TypeOK /\ Knowledge

-----------------------------------------------------------------------------
\* Every step keeps every variable in its type.
LEMMA TypeStep == TypeOK /\ WorkerShape /\ [Next]_vars => TypeOK'
<1> SUFFICES ASSUME TypeOK, WorkerShape, [Next]_vars PROVE TypeOK'
  OBVIOUS
<1> USE MailAssumption
    DEF TypeOK, WorkerShape, MessageStatus, OutboxStatus, TenantView, Stage, Call,
        messageVars, workerVars, providerVars
<1>1. ASSUME NEW w \in Worker, Sweep(w) PROVE TypeOK'
  BY <1>1 DEF Sweep, Abandoned, OutboxReaped, StatusReaped
<1>2. ASSUME NEW w \in Worker, NEW m \in Message, Claim(w, m) PROVE TypeOK'
  BY <1>2 DEF Claim, Abandoned, OutboxReaped, StatusReaped
<1>3. ASSUME NEW w \in Worker, OpenDelivery(w) PROVE TypeOK'
  BY <1>3 DEF OpenDelivery
<1>4. ASSUME NEW w \in Worker, RecheckTenant(w) PROVE TypeOK'
  BY <1>4 DEF RecheckTenant
<1>5. ASSUME NEW w \in Worker, Dispatch(w) PROVE TypeOK'
  BY <1>5 DEF Dispatch
<1>6. ASSUME NEW w \in Worker, PreparationFails(w) PROVE TypeOK'
  BY <1>6 DEF PreparationFails
<1>7. ASSUME NEW w \in Worker, RecordSent(w) PROVE TypeOK'
  BY <1>7 DEF RecordSent, WriteSent, Release
<1>8. ASSUME NEW w \in Worker, Refused(w) PROVE TypeOK'
  BY <1>8 DEF Refused
<1>9. ASSUME NEW w \in Worker, OutcomeUnknown(w) PROVE TypeOK'
  BY <1>9 DEF OutcomeUnknown, Strays
<1>10. ASSUME NEW w \in Worker, CommitAnswerLost(w) PROVE TypeOK'
  BY <1>10 DEF CommitAnswerLost, WriteSent
<1>11. ASSUME NEW w \in Worker, Settle(w) PROVE TypeOK'
  BY <1>11 DEF Settle, Release
<1>12. ASSUME NEW w \in Worker, LeaveClaim(w) PROVE TypeOK'
  BY <1>12 DEF LeaveClaim, Release
<1>13. ASSUME NEW w \in Worker, ProviderAccepts(w) PROVE TypeOK'
  BY <1>13 DEF ProviderAccepts
<1>14. ASSUME NEW w \in Worker, ProviderRefuses(w) PROVE TypeOK'
  BY <1>14 DEF ProviderRefuses
<1>15. ASSUME NEW w \in Worker, Crash(w) PROVE TypeOK'
  BY <1>15 DEF Crash, Strays, Release
<1>16. ASSUME NEW m \in Message, SendMail(m) PROVE TypeOK'
  BY <1>16 DEF SendMail, Enqueued
<1>17. ASSUME NEW m \in Message, CreateDraft(m) PROVE TypeOK'
  BY <1>17 DEF CreateDraft
<1>18. ASSUME NEW m \in Message, SendDraft(m) PROVE TypeOK'
  BY <1>18 DEF SendDraft, Enqueued
<1>19. ASSUME NEW m \in Message, NEW kind \in EditKinds, EditRead(m, kind) PROVE TypeOK'
  BY <1>19 DEF EditRead
<1>20. ASSUME NEW m \in Message, EditWrite(m) PROVE TypeOK'
  BY <1>20 DEF EditWrite
<1>21. ASSUME NEW m \in Message, ClaimAges(m) PROVE TypeOK'
  BY <1>21 DEF ClaimAges
<1>22. ASSUME NEW m \in Message, StrayEnds(m) PROVE TypeOK'
  BY <1>22 DEF StrayEnds
<1>23. ASSUME NEW m \in Message, ProviderEvent(m) PROVE TypeOK'
  BY <1>23 DEF ProviderEvent, WriteSent
<1>24. ASSUME SetTenant PROVE TypeOK'
  BY <1>24 DEF SetTenant
<1>25. ASSUME NEW w \in Worker, RecheckMessage(w) PROVE TypeOK'
  BY <1>25 DEF RecheckMessage
<1>26. CASE UNCHANGED vars
  BY <1>26 DEF vars
<1>. QED
  BY <1>1, <1>2, <1>3, <1>4, <1>5, <1>6, <1>7, <1>8, <1>9, <1>10, <1>11, <1>12, <1>13, <1>14,
     <1>15, <1>16, <1>17, <1>18, <1>19, <1>20, <1>21, <1>22, <1>23, <1>24, <1>25, <1>26
  DEF Next, WorkerStep, ProviderStep, UserStep, RetryMessage

\* Every step keeps the rest of the inductive invariant.
LEMMA KnowledgeStep == IInv /\ [Next]_vars => Knowledge'
<1> SUFFICES ASSUME TypeOK, Knowledge, [Next]_vars PROVE Knowledge'
  BY DEF IInv
<1> USE MailAssumption
    DEF TypeOK, Knowledge, WorkerShape, Exclusive, QueuedIsFree, WorkerKnows,
        FailedIsOver, TakenOnce, Unsent, Untaken,
        messageVars, workerVars, providerVars
<1>1. ASSUME NEW w \in Worker, Sweep(w) PROVE Knowledge'
  BY <1>1 DEF Sweep, Abandoned, OutboxReaped, StatusReaped
<1>2. ASSUME NEW w \in Worker, NEW m \in Message, Claim(w, m) PROVE Knowledge'
  BY <1>2 DEF Claim, Abandoned, OutboxReaped, StatusReaped
<1>3. ASSUME NEW w \in Worker, OpenDelivery(w) PROVE Knowledge'
  BY <1>3 DEF OpenDelivery
<1>4. ASSUME NEW w \in Worker, RecheckTenant(w) PROVE Knowledge'
  BY <1>4 DEF RecheckTenant
<1>5. ASSUME NEW w \in Worker, Dispatch(w) PROVE Knowledge'
  BY <1>5 DEF Dispatch
<1>6. ASSUME NEW w \in Worker, PreparationFails(w) PROVE Knowledge'
  BY <1>6 DEF PreparationFails
<1>7. ASSUME NEW w \in Worker, RecordSent(w) PROVE Knowledge'
  BY <1>7 DEF RecordSent, WriteSent, Release
<1>8. ASSUME NEW w \in Worker, Refused(w) PROVE Knowledge'
  BY <1>8 DEF Refused
<1>9. ASSUME NEW w \in Worker, OutcomeUnknown(w) PROVE Knowledge'
  BY <1>9 DEF OutcomeUnknown, Strays
<1>10. ASSUME NEW w \in Worker, CommitAnswerLost(w) PROVE Knowledge'
  BY <1>10 DEF CommitAnswerLost, WriteSent
<1>11. ASSUME NEW w \in Worker, Settle(w) PROVE Knowledge'
  BY <1>11 DEF Settle, Release
<1>12. ASSUME NEW w \in Worker, LeaveClaim(w) PROVE Knowledge'
  BY <1>12 DEF LeaveClaim, Release
<1>13. ASSUME NEW w \in Worker, ProviderAccepts(w) PROVE Knowledge'
  BY <1>13 DEF ProviderAccepts
<1>14. ASSUME NEW w \in Worker, ProviderRefuses(w) PROVE Knowledge'
  BY <1>14 DEF ProviderRefuses
<1>15. ASSUME NEW w \in Worker, Crash(w) PROVE Knowledge'
  BY <1>15 DEF Crash, Strays, Release
<1>16. ASSUME NEW m \in Message, SendMail(m) PROVE Knowledge'
  BY <1>16 DEF SendMail, Enqueued
<1>17. ASSUME NEW m \in Message, CreateDraft(m) PROVE Knowledge'
  BY <1>17 DEF CreateDraft
<1>18. ASSUME NEW m \in Message, SendDraft(m) PROVE Knowledge'
  BY <1>18 DEF SendDraft, Enqueued
<1>19. ASSUME NEW m \in Message, NEW kind \in EditKinds, EditRead(m, kind) PROVE Knowledge'
  BY <1>19 DEF EditRead
<1>20. ASSUME NEW m \in Message, EditWrite(m) PROVE Knowledge'
  BY <1>20 DEF EditWrite
<1>21. ASSUME NEW m \in Message, ClaimAges(m) PROVE Knowledge'
  BY <1>21 DEF ClaimAges
<1>22. ASSUME NEW m \in Message, StrayEnds(m) PROVE Knowledge'
  BY <1>22 DEF StrayEnds
<1>23. ASSUME NEW m \in Message, ProviderEvent(m) PROVE Knowledge'
  BY <1>23 DEF ProviderEvent, WriteSent
<1>24. ASSUME SetTenant PROVE Knowledge'
  BY <1>24 DEF SetTenant
<1>25. ASSUME NEW w \in Worker, RecheckMessage(w) PROVE Knowledge'
  BY <1>25 DEF RecheckMessage
<1>26. CASE UNCHANGED vars
  BY <1>26 DEF vars
<1>. QED
  BY <1>1, <1>2, <1>3, <1>4, <1>5, <1>6, <1>7, <1>8, <1>9, <1>10, <1>11, <1>12, <1>13, <1>14,
     <1>15, <1>16, <1>17, <1>18, <1>19, <1>20, <1>21, <1>22, <1>23, <1>24, <1>25, <1>26
  DEF Next, WorkerStep, ProviderStep, UserStep, RetryMessage

\* The inductive invariant holds in every behaviour.
THEOREM Invariance == Spec => []IInv
<1>1. Init => IInv
  BY MailAssumption
  DEF Init, IInv, TypeOK, MessageStatus, OutboxStatus, TenantView, Stage, Call, Knowledge,
      WorkerShape, Exclusive, QueuedIsFree, WorkerKnows, FailedIsOver, TakenOnce, Unsent, Untaken
<1>2. IInv /\ [Next]_vars => IInv'
  BY TypeStep, KnowledgeStep DEF IInv, Knowledge
<1>. QED
  BY <1>1, <1>2, PTL DEF Spec

\* Type correctness of the queue, its workers and the provider.
THEOREM TypeCorrect == Spec => []TypeOK
<1>1. IInv => TypeOK
  BY DEF IInv
<1>. QED
  BY <1>1, Invariance, PTL

\* No message is accepted twice by the provider, with any number of replicas,
\* crashes, stalls, lost answers and racing edits.
THEOREM AcceptedAtMostOnce == Spec => []AtMostOnce
<1>1. IInv => AtMostOnce
  BY DEF IInv, Knowledge, TakenOnce, AtMostOnce
<1>. QED
  BY <1>1, Invariance, PTL

\* A message or row shown as "failed" has not been accepted and no call that
\* might still be accepted is under way.
THEOREM FailedIsSafeToRetry == Spec => []FailedNeverAccepted
<1>1. IInv => FailedNeverAccepted
  <2> SUFFICES ASSUME IInv, NEW m \in Message, status[m] = "failed" \/ outbox[m] = "failed"
               PROVE  Untaken(m) /\ \A w \in Worker : row[w] # m
    BY DEF FailedNeverAccepted, Untaken
  <2>. QED
    BY DEF IInv, Knowledge, FailedIsOver
<1>. QED
  BY <1>1, Invariance, PTL

-----------------------------------------------------------------------------
(***************************************************************************)
(* The message and its row.  Deleting writes a stale status back, but only *)
(* to a message that is deleted by the same statement; a saveDraft writes  *)
(* back the "draft" it has read.                                           *)
(***************************************************************************)
SavesSawDrafts == \A m \in Message : edit[m] = "save" => seen[m] = "draft"

\* What a page shows of its message, and that a save has seen a draft.
Follows == SavesSawDrafts /\ StatusFollowsOutbox

\* Whichever statement writes one of the two, the message still shows its row.
LEMMA FollowsStep == IInv /\ Follows /\ [Next]_vars => Follows'
<1> SUFFICES ASSUME TypeOK, QueuedIsFree, WorkerShape, Follows, [Next]_vars PROVE Follows'
  BY DEF IInv, Knowledge
<1> USE MailAssumption
    DEF TypeOK, MessageStatus, OutboxStatus, QueuedIsFree, WorkerShape, Follows, SavesSawDrafts,
        StatusFollowsOutbox, messageVars, workerVars, providerVars
<1>1. CASE UNCHANGED messageVars
  BY <1>1
<1>2. ASSUME NEW w \in Worker, Sweep(w) PROVE Follows'
  BY <1>2 DEF Sweep, Abandoned, OutboxReaped, StatusReaped
<1>3. ASSUME NEW w \in Worker, NEW m \in Message, Claim(w, m) PROVE Follows'
  BY <1>3 DEF Claim, Abandoned, OutboxReaped, StatusReaped
<1>4. ASSUME NEW w \in Worker, RecordSent(w) PROVE Follows'
  BY <1>4 DEF RecordSent, WriteSent
<1>5. ASSUME NEW w \in Worker, CommitAnswerLost(w) PROVE Follows'
  BY <1>5 DEF CommitAnswerLost, WriteSent
<1>6. ASSUME NEW w \in Worker, Settle(w) PROVE Follows'
  BY <1>6 DEF Settle
<1>7. ASSUME NEW m \in Message, SendMail(m) PROVE Follows'
  BY <1>7 DEF SendMail, Enqueued
<1>8. ASSUME NEW m \in Message, CreateDraft(m) PROVE Follows'
  BY <1>8 DEF CreateDraft
<1>9. ASSUME NEW m \in Message, SendDraft(m) PROVE Follows'
  BY <1>9 DEF SendDraft, Enqueued
<1>10. ASSUME NEW m \in Message, NEW kind \in EditKinds, EditRead(m, kind) PROVE Follows'
  BY <1>10 DEF EditRead
<1>11. ASSUME NEW m \in Message, EditWrite(m) PROVE Follows'
  BY <1>11 DEF EditWrite
<1>12. ASSUME NEW m \in Message, ClaimAges(m) PROVE Follows'
  BY <1>12 DEF ClaimAges
<1>13. ASSUME NEW m \in Message, ProviderEvent(m) PROVE Follows'
  BY <1>13 DEF ProviderEvent, WriteSent
<1>. QED
  BY <1>1, <1>2, <1>3, <1>4, <1>5, <1>6, <1>7, <1>8, <1>9, <1>10, <1>11, <1>12, <1>13
  DEF Next, WorkerStep, ProviderStep, UserStep, RetryMessage, vars,
      OpenDelivery, RecheckTenant, RecheckMessage, Dispatch, PreparationFails, Refused, OutcomeUnknown, LeaveClaim,
      ProviderAccepts, ProviderRefuses, Crash, StrayEnds, SetTenant

\* Both parts hold in every behaviour.
LEMMA FollowsHolds == Spec => []Follows
<1>1. Init => Follows
  BY DEF Init, Follows, SavesSawDrafts, StatusFollowsOutbox
<1>. QED
  BY <1>1, FollowsStep, Invariance, PTL DEF Spec

\* A message that is not deleted shows the state of its row, or is a draft or
\* queued once more because of a saveDraft that raced with the delivery.
THEOREM StatusShowsRow == Spec => []StatusFollowsOutbox
<1>1. Follows => StatusFollowsOutbox
  BY DEF Follows
<1>. QED
  BY <1>1, FollowsHolds, PTL

\* The request that goes out after the last look at the message, whatever became
\* of the row meanwhile, is the only one there ever was for that message.
THEOREM LateRequestIsAlone == Spec => []LateRequestIsTheOnlyOne
<1>1. IInv => LateRequestIsTheOnlyOne
  <2> SUFFICES ASSUME IInv, NEW w \in Worker, pc[w] = "verified"
               PROVE  /\ outbox[row[w]] \in {"sending", "uncertain"}
                      /\ accepted[row[w]] = 0 /\ row[w] \notin stray
                      /\ \A v \in Worker \ {w} : row[v] # row[w]
    BY DEF LateRequestIsTheOnlyOne
  <2>1. row[w] \in Message
    BY DEF IInv, TypeOK, Knowledge, WorkerShape
  <2>2. Untaken(row[w])
    BY DEF IInv, Knowledge, WorkerKnows, Unsent
  <2>3. outbox[row[w]] \notin {"none", "queued", "failed", "sent"}
    BY <2>1, <2>2 DEF IInv, Knowledge, QueuedIsFree, FailedIsOver, TakenOnce, Untaken
  <2>4. \A v \in Worker \ {w} : row[v] # row[w]
    BY <2>1, MailAssumption DEF IInv, Knowledge, Exclusive
  <2>. QED
    BY <2>1, <2>2, <2>3, <2>4 DEF IInv, TypeOK, OutboxStatus, Untaken
<1>. QED
  BY <1>1, Invariance, PTL

-----------------------------------------------------------------------------
(***************************************************************************)
(* The queue implements MailPromise.                                       *)
(***************************************************************************)

\* What a message has become may be read off its row.
LEMMA OutcomeByRow ==
    ASSUME IInv, NEW m \in Message
    PROVE  /\ OutcomeOf(m) \in Promise!Outcome
           /\ accepted[m] \in {0, 1}
           /\ outbox[m] \in {"none", "queued", "failed"} => Untaken(m) /\ \A w \in Worker : row[w] # m
           /\ m \in stray => outbox[m] \in {"sending", "uncertain"}
           /\ outbox[m] = "sent" => accepted[m] = 1
  BY DEF IInv, TypeOK, OutboxStatus, Knowledge, QueuedIsFree, FailedIsOver, TakenOnce, Untaken,
         OutcomeOf, Promise!Outcome

\* A step moves each message as MailPromise allows.
LEMMA PromiseStep ==
    ASSUME IInv, [Next]_vars, NEW m \in Message
    PROVE  Promise!MessageStep(m)
<1> USE MailAssumption
    DEF IInv, TypeOK, Knowledge, WorkerShape, Exclusive, WorkerKnows, TakenOnce, Unsent, Untaken,
        messageVars, workerVars, providerVars, OutcomeOf, OutboxStatus,
        Promise!MessageStep, Promise!Becomes, Promise!Rest
<1>1. CASE outbox' = outbox /\ accepted' = accepted
  BY <1>1
<1>2. ASSUME NEW w \in Worker, Sweep(w) PROVE Promise!MessageStep(m)
  BY <1>2, OutcomeByRow DEF Sweep, Abandoned, OutboxReaped, Promise!LoseTrack
<1>3. ASSUME NEW w \in Worker, NEW q \in Message, Claim(w, q) PROVE Promise!MessageStep(m)
  BY <1>3, OutcomeByRow DEF Claim, Abandoned, OutboxReaped, Promise!LoseTrack, Promise!Try
<1>4. ASSUME NEW w \in Worker, RecordSent(w) PROVE Promise!MessageStep(m)
  BY <1>4, OutcomeByRow DEF RecordSent, WriteSent, Promise!Confirm
<1>5. ASSUME NEW w \in Worker, CommitAnswerLost(w) PROVE Promise!MessageStep(m)
  BY <1>5, OutcomeByRow DEF CommitAnswerLost, WriteSent, Promise!Confirm
<1>6. ASSUME NEW w \in Worker, Settle(w) PROVE Promise!MessageStep(m)
  BY <1>6, OutcomeByRow DEF Settle, Promise!Fail, Promise!LoseTrack
<1>7. ASSUME NEW w \in Worker, ProviderAccepts(w) PROVE Promise!MessageStep(m)
  BY <1>7, OutcomeByRow DEF ProviderAccepts, Promise!Take
<1>8. ASSUME NEW q \in Message, SendMail(q) PROVE Promise!MessageStep(m)
  BY <1>8, OutcomeByRow DEF SendMail, Enqueued, Promise!Queue
<1>9. ASSUME NEW q \in Message, SendDraft(q) PROVE Promise!MessageStep(m)
  BY <1>9, OutcomeByRow DEF SendDraft, Enqueued, Promise!Queue
<1>10. ASSUME NEW q \in Message, StrayEnds(q) PROVE Promise!MessageStep(m)
  BY <1>10, OutcomeByRow DEF StrayEnds, Promise!Take
<1>11. ASSUME NEW q \in Message, ProviderEvent(q) PROVE Promise!MessageStep(m)
  BY <1>11, OutcomeByRow DEF ProviderEvent, WriteSent, Promise!Confirm
<1>. QED
  BY <1>1, <1>2, <1>3, <1>4, <1>5, <1>6, <1>7, <1>8, <1>9, <1>10, <1>11
  DEF Next, WorkerStep, ProviderStep, UserStep, RetryMessage, vars,
      OpenDelivery, RecheckTenant, RecheckMessage, Dispatch, PreparationFails, Refused, OutcomeUnknown, LeaveClaim, ProviderRefuses, Crash, CreateDraft, EditRead, EditWrite, ClaimAges, SetTenant

\* The queue with its replicas implements the promise.
THEOREM OutboxKeepsPromise == Spec => KeepsPromise
<1>1. Init => Promise!PromiseInit
  BY DEF Init, Promise!PromiseInit, OutcomeOf
<1>2. IInv /\ IInv' /\ [Next]_vars => [Promise!PromiseNext]_Promise!promiseVars
  <2> SUFFICES ASSUME IInv, IInv', [Next]_vars PROVE Promise!PromiseNext
    OBVIOUS
  <2>1. [m \in Message |-> OutcomeOf(m)]' \in [Message -> Promise!Outcome]
    BY DEF IInv, TypeOK, OutboxStatus, OutcomeOf, Promise!Outcome
  <2>2. accepted' \in [Message -> {0, 1}]
    <3>1. accepted' \in [Message -> Nat] /\ \A m \in Message : accepted'[m] <= 1
      BY DEF IInv, TypeOK, Knowledge, TakenOnce
    <3>2. \A n \in Nat : n <= 1 => n \in {0, 1}
      OBVIOUS
    <3>. QED
      BY <3>1, <3>2
  <2>3. \A m \in Message : Promise!MessageStep(m)
    BY PromiseStep
  <2>. QED
    BY <2>1, <2>2, <2>3 DEF Promise!PromiseNext
<1>. QED
  BY <1>1, <1>2, Invariance, PTL DEF Spec, KeepsPromise, Promise!PromiseSpec

-----------------------------------------------------------------------------
(***************************************************************************)
(* Proofs about MailDelivery, for any number of requests, messages and     *)
(* events and any batches.                                                 *)
(*                                                                         *)
(* SnapshotMatchesEvents speaks of committed rows only.  DeliveryInv says  *)
(* the same of what an open transaction would commit: its private snapshot *)
(* of a row it has locked fits the stored events and its own new ones, and *)
(* the row lock keeps both as they were when the transaction read them.    *)
(* What a whole save has read was once committed, so it tells of no event  *)
(* that is not stored; that is all that is left of a row it overwrites.    *)
(***************************************************************************)
\* The events of a set that are about a message, by kind.
Among(S, m, kinds) == {e \in S : MailOf[e] = m /\ KindOf[e] \in kinds}

\* The snapshot s tells of no event about m but those of S, and of each once.
NoMore(m, S, s) ==
    /\ s.opens <= Cardinality(Among(S, m, {"Open"}))
    /\ s.clicks <= Cardinality(Among(S, m, {"Click"}))
    /\ \/ s.status \in {"none", "sent"}
       \/ \E e \in Among(S, m, EventKind) : RankOf(e) = Rank[s.status]

\* It misses none of them.
NoLess(m, S, s) ==
    /\ s.opens = Cardinality(Among(S, m, {"Open"}))
    /\ s.clicks = Cardinality(Among(S, m, {"Click"}))
    /\ \A e \in Among(S, m, EventKind) : RankOf(e) <= Rank[s.status] /\ TimeOf[e] <= s.last

\* The snapshot s is the one the events of S give message m, unless m is lost.
Fits(m, S, s, lost) == NoMore(m, S, s) /\ (m \notin lost => NoLess(m, S, s))

\* No part of a snapshot goes back.
Advances(s, t) ==
    /\ Rank[s.status] <= Rank[t.status]
    /\ s.opens <= t.opens
    /\ s.clicks <= t.clicks
    /\ s.last <= t.last

\* No two open transactions hold the lock of one row.
GripsExclude ==
    \A i, k \in Ingest : \A m \in grip[i] \cap grip[k] : i = k

\* The new events of a transaction are about rows it holds.
FreshIsLocked ==
    \A i \in Ingest :
        /\ IsFiniteSet(fresh[i])
        /\ \A e \in fresh[i] : MailOf[e] \in grip[i] /\ e \notin stored

\* What a transaction would commit fits the events, its own included, and takes
\* nothing back.
DraftsFit ==
    \A i \in Ingest : \A m \in grip[i] :
        /\ Fits(m, stored \cup fresh[i], draft[i][m], overwritten)
        /\ Advances(snapshot[m], draft[i][m])

\* A transaction that has looked for an event has one before it.
LookedHasEvent ==
    \A i \in Ingest : i \in looked => i \in ingesting /\ batch[i] # <<>>

\* Every committed snapshot, and every one about to be committed, fits its events.
Folded ==
    /\ IsFiniteSet(stored)
    /\ \A m \in Mail : Fits(m, stored, snapshot[m], overwritten)
    /\ \A m \in Mail : NoMore(m, stored, entity[m])
    /\ GripsExclude
    /\ FreshIsLocked
    /\ DraftsFit
    /\ LookedHasEvent

\* The inductive invariant of the delivery events.
DeliveryInv == DeliveryTypeOK /\ Folded

-----------------------------------------------------------------------------
\* The ranks, spelled out.
LEMMA RankFacts ==
    /\ DeliveryStatus = {"none", "sent", "delivered", "bounced", "complained"}
    /\ Rank["none"] = 0 /\ Rank["sent"] = 1 /\ Rank["delivered"] = 2
    /\ Rank["bounced"] = 3 /\ Rank["complained"] = 4
  BY DEF DeliveryStatus, Rank

\* An event never lowers a status, and raises it to its own rank at least.
LEMMA StatusRises ==
    ASSUME NEW current \in DeliveryStatus, NEW kind \in EventKind
    PROVE  LET next == StatusAfter(current, kind) IN
             /\ next \in DeliveryStatus
             /\ Rank[current] \in Nat /\ Rank[next] \in Nat
             /\ Rank[current] <= Rank[next]
             /\ Rank[StatusAfter("none", kind)] \in Nat
             /\ Rank[StatusAfter("none", kind)] <= Rank[next]
             /\ \/ next = current
                \/ next \in {"none", "sent"}
                \/ Rank[StatusAfter("none", kind)] = Rank[next]
  BY RankFacts DEF StatusAfter, HigherStatus, EventKind

\* An event makes a snapshot of a snapshot, and takes nothing in it back.
LEMMA UpdatedType ==
    ASSUME NEW s \in Snapshot, NEW e \in Event
    PROVE  Updated(s, e) \in Snapshot /\ Advances(s, Updated(s, e))
<1>1. KindOf[e] \in EventKind /\ TimeOf[e] \in Nat
  BY DeliveryAssumption
<1>2. StatusAfter(s.status, KindOf[e]) \in DeliveryStatus
  BY <1>1, StatusRises DEF Snapshot
<1>. QED
  BY <1>1, <1>2, StatusRises DEF Snapshot, Updated, Advances, Later

\* A new event of the message is counted and weighed once.
LEMMA FitsGrows ==
    ASSUME NEW m \in Mail, NEW S \in SUBSET Event, IsFiniteSet(S), NEW s \in Snapshot,
           NEW lost, Fits(m, S, s, lost), NEW e \in Event \ S, MailOf[e] = m
    PROVE  Fits(m, S \cup {e}, Updated(s, e), lost)
<1> DEFINE T == S \cup {e}
           t == Updated(s, e)
<1>1. KindOf[e] \in EventKind /\ TimeOf[e] \in Nat
  BY DeliveryAssumption
<1>2. \A kinds : Among(T, m, kinds) =
         IF KindOf[e] \in kinds THEN Among(S, m, kinds) \cup {e} ELSE Among(S, m, kinds)
  BY DEF Among
<1>3. ASSUME NEW kinds
      PROVE  Cardinality(Among(T, m, kinds)) =
                IF KindOf[e] \in kinds THEN Cardinality(Among(S, m, kinds)) + 1
                ELSE Cardinality(Among(S, m, kinds))
  <2>1. IsFiniteSet(Among(S, m, kinds)) /\ e \notin Among(S, m, kinds)
    BY FS_Subset DEF Among
  <2>2. Cardinality(Among(S, m, kinds) \cup {e}) = Cardinality(Among(S, m, kinds)) + 1
    BY <2>1, FS_AddElement
  <2>. QED
    BY <1>2, <2>2
<1>4. /\ t.opens = IF KindOf[e] = "Open" THEN s.opens + 1 ELSE s.opens
      /\ t.clicks = IF KindOf[e] = "Click" THEN s.clicks + 1 ELSE s.clicks
      /\ s.opens \in Nat /\ s.clicks \in Nat
  BY DEF Updated, Snapshot
<1>5. Among(T, m, EventKind) = Among(S, m, EventKind) \cup {e}
  BY <1>1, <1>2
<1>6. /\ s.status \in DeliveryStatus
      /\ t.status = StatusAfter(s.status, KindOf[e])
      /\ s.last \in Nat /\ t.last = Later(s.last, TimeOf[e])
  BY DEF Snapshot, Updated
<1>7. /\ Rank[s.status] \in Nat /\ Rank[t.status] \in Nat /\ RankOf(e) \in Nat
      /\ Rank[s.status] <= Rank[t.status] /\ RankOf(e) <= Rank[t.status]
      /\ \/ t.status = s.status
         \/ t.status \in {"none", "sent"}
         \/ RankOf(e) = Rank[t.status]
  BY <1>1, <1>6, StatusRises DEF RankOf
<1>8. ASSUME m \notin lost, NEW f \in Among(S, m, EventKind)
      PROVE  RankOf(f) <= Rank[t.status] /\ TimeOf[f] <= t.last
  <2>1. RankOf(f) <= Rank[s.status] /\ TimeOf[f] <= s.last
    BY <1>8 DEF Fits, NoLess
  <2>2. RankOf(f) \in Nat
    BY RankFacts, StatusRises DEF RankOf, Among
  <2>3. TimeOf[f] \in Nat
    BY DeliveryAssumption DEF Among
  <2>. QED
    BY <1>1, <1>6, <1>7, <2>1, <2>2, <2>3 DEF Later
<1>9. RankOf(e) <= Rank[t.status] /\ TimeOf[e] <= t.last
  BY <1>1, <1>6, <1>7 DEF Later
<1>10. \/ t.status \in {"none", "sent"}
       \/ \E f \in Among(T, m, EventKind) : RankOf(f) = Rank[t.status]
  BY <1>5, <1>7 DEF Fits, NoMore
<1>11. \A kinds : Cardinality(Among(S, m, kinds)) \in Nat
  BY FS_Subset, FS_CardinalityType DEF Among
<1>12. NoMore(m, T, t)
  <2>1. /\ s.opens <= Cardinality(Among(S, m, {"Open"}))
        /\ s.clicks <= Cardinality(Among(S, m, {"Click"}))
    BY DEF Fits, NoMore
  <2>2. /\ t.opens <= Cardinality(Among(T, m, {"Open"}))
        /\ t.clicks <= Cardinality(Among(T, m, {"Click"}))
    <3>1. Cardinality(Among(T, m, {"Open"})) =
             IF KindOf[e] = "Open" THEN Cardinality(Among(S, m, {"Open"})) + 1
             ELSE Cardinality(Among(S, m, {"Open"}))
      BY <1>3
    <3>2. Cardinality(Among(T, m, {"Click"})) =
             IF KindOf[e] = "Click" THEN Cardinality(Among(S, m, {"Click"})) + 1
             ELSE Cardinality(Among(S, m, {"Click"}))
      BY <1>3
    <3>3. /\ Cardinality(Among(S, m, {"Open"})) \in Nat
          /\ Cardinality(Among(S, m, {"Click"})) \in Nat
      BY <1>11
    <3>. QED
      BY <1>4, <2>1, <3>1, <3>2, <3>3
  <2>. QED
    BY <1>10, <2>2 DEF NoMore
<1>13. m \notin lost => NoLess(m, T, t)
  <2> SUFFICES ASSUME m \notin lost PROVE NoLess(m, T, t)
    OBVIOUS
  <2>1. /\ s.opens = Cardinality(Among(S, m, {"Open"}))
        /\ s.clicks = Cardinality(Among(S, m, {"Click"}))
    BY DEF Fits, NoLess
  <2>2. /\ t.opens = Cardinality(Among(T, m, {"Open"}))
        /\ t.clicks = Cardinality(Among(T, m, {"Click"}))
    BY <1>3, <1>4, <2>1
  <2>. QED
    BY <1>5, <1>8, <1>9, <2>2 DEF NoLess
<1>. QED
  BY <1>12, <1>13 DEF Fits

\* What tells of no event but those of S tells of none but those of more.
LEMMA NoMoreGrows ==
    ASSUME NEW m, NEW S, NEW T, S \subseteq T, IsFiniteSet(T), NEW s \in Snapshot,
           NoMore(m, S, s)
    PROVE  NoMore(m, T, s)
<1>1. ASSUME NEW kinds
      PROVE  /\ Among(S, m, kinds) \subseteq Among(T, m, kinds)
             /\ Cardinality(Among(S, m, kinds)) \in Nat
             /\ Cardinality(Among(T, m, kinds)) \in Nat
             /\ Cardinality(Among(S, m, kinds)) <= Cardinality(Among(T, m, kinds))
  <2>1. Among(S, m, kinds) \subseteq Among(T, m, kinds) /\ IsFiniteSet(Among(T, m, kinds))
    BY FS_Subset DEF Among
  <2>. QED
    BY <2>1, FS_Subset, FS_CardinalityType
<1>2. s.opens \in Nat /\ s.clicks \in Nat
  BY DEF Snapshot
<1>3. /\ s.opens <= Cardinality(Among(T, m, {"Open"}))
      /\ s.clicks <= Cardinality(Among(T, m, {"Click"}))
  BY <1>1, <1>2 DEF NoMore
<1>. QED
  BY <1>1, <1>3 DEF NoMore

\* What is not about a message does not matter to its snapshot.
LEMMA FitsApart ==
    ASSUME NEW m, NEW S, NEW T, NEW s, NEW lost, Fits(m, S, s, lost),
           \A e \in (S \cup T) : (e \in S <=> e \in T) \/ MailOf[e] # m
    PROVE  Fits(m, T, s, lost)
<1>1. \A kinds : Among(S, m, kinds) = Among(T, m, kinds)
  BY DEF Among
<1>. QED
  BY <1>1 DEF Fits, NoMore, NoLess

\* What the columns hold ...
LEMMA ColumnTypes ==
    \A x \in Snapshot : Rank[x.status] \in Nat /\ x.opens \in Nat /\ x.clicks \in Nat /\ x.last \in Nat
<1>1. \A x \in Snapshot : Rank[x.status] \in Nat
  BY RankFacts DEF Snapshot
<1>2. \A x \in Snapshot : x.opens \in Nat /\ x.clicks \in Nat /\ x.last \in Nat
  BY DEF Snapshot
<1>. QED
  BY <1>1, <1>2

\* ... also when the message is marked as sent.
LEMMA Marked ==
    ASSUME NEW s \in Snapshot, NEW x \in DeliveryStatus
    PROVE  LET t == [s EXCEPT !.shown = "sent", !.status = x] IN
             /\ t \in Snapshot /\ t.status = x
             /\ t.opens = s.opens /\ t.clicks = s.clicks /\ t.last = s.last
  BY DEF Snapshot

\* Advances is reflexive ...
LEMMA AdvancesNowhere ==
    ASSUME NEW s \in Snapshot PROVE Advances(s, s)
<1>1. Rank[s.status] \in Nat /\ s.opens \in Nat /\ s.clicks \in Nat /\ s.last \in Nat
  BY RankFacts DEF Snapshot
<1>. QED
  BY <1>1 DEF Advances

\* ... and transitive.
LEMMA AdvancesFurther ==
    ASSUME NEW s \in Snapshot, NEW t \in Snapshot, NEW u \in Snapshot,
           Advances(s, t), Advances(t, u)
    PROVE  Advances(s, u)
<1>1. \A x \in Snapshot : Rank[x.status] \in Nat
  BY RankFacts DEF Snapshot
<1>. QED
  BY <1>1 DEF Advances, Snapshot

-----------------------------------------------------------------------------
\* What a request reads of the message of its next event: what its stored and
\* new events give, never behind what is committed.
LEMMA NextEvent ==
    ASSUME DeliveryInv, NEW i \in Ingest, i \in looked
    PROVE  LET e == Head(batch[i])
               m == MailOf[e] IN
             /\ e \in Event /\ m \in Mail /\ Tail(batch[i]) \in Seq(Event)
             /\ Visible(i, m) \in Snapshot
             /\ Fits(m, stored \cup fresh[i], Visible(i, m), overwritten)
             /\ Advances(snapshot[m], Visible(i, m))
<1> DEFINE e == Head(batch[i])
           m == MailOf[e]
<1> USE DeliveryAssumption DEF DeliveryInv, DeliveryTypeOK, Folded
<1>1. e \in Event /\ Tail(batch[i]) \in Seq(Event)
  BY DEF LookedHasEvent
<1>2. m \in Mail
  BY <1>1
<1>3. Visible(i, m) \in Snapshot
  BY <1>2 DEF Visible
<1>4. CASE m \in grip[i]
  BY <1>1, <1>2, <1>3, <1>4 DEF DraftsFit, Visible
<1>5. CASE m \notin grip[i]
  <2>1. Visible(i, m) = snapshot[m] /\ Fits(m, stored, snapshot[m], overwritten)
    BY <1>2, <1>5 DEF Visible
  <2>2. \A f \in fresh[i] : MailOf[f] # m
    BY <1>5 DEF FreshIsLocked
  <2>3. Fits(m, stored \cup fresh[i], snapshot[m], overwritten)
    BY <2>1, <2>2, FitsApart
  <2>4. Advances(snapshot[m], snapshot[m])
    BY <1>2, AdvancesNowhere
  <2>. QED
    BY <1>1, <1>2, <1>3, <2>1, <2>3, <2>4
<1>. QED
  BY <1>4, <1>5

\* A step that writes one row, which no request has locked, and takes note of it
\* when it is no longer the one its events give.
RowOnly(n) ==
    /\ Unlocked(n)
    /\ \E t \in Snapshot :
          /\ snapshot' = [snapshot EXCEPT ![n] = t]
          /\ NoMore(n, stored, t)
          /\ n \notin overwritten' => NoLess(n, stored, t) /\ Advances(snapshot[n], t)
    /\ overwritten' \in {overwritten, overwritten \cup {n}}
    /\ UNCHANGED <<stored, ingestVars>>

\* The outbox, sendDraft and a whole save write one row.
LEMMA WritesRowOnly ==
    ASSUME DeliveryInv, NEW n \in Mail,
           QueueDraft(n) \/ OutboxClaims(n) \/ OutboxRecordsSent(n) \/ SaveWrite(n)
    PROVE  RowOnly(n)
<1> USE DEF DeliveryInv, DeliveryTypeOK, Folded
<1>1. PICK s \in Snapshot : s = snapshot[n] /\ Fits(n, stored, s, overwritten)
  OBVIOUS
<1>2. \A x \in Snapshot : Rank[x.status] \in Nat /\ x.opens \in Nat /\ x.clicks \in Nat /\ x.last \in Nat
  BY ColumnTypes
<1>3. ASSUME NEW t \in Snapshot, t.opens = s.opens, t.clicks = s.clicks, t.last = s.last,
             \/ t.status = s.status
             \/ s.status = "none" /\ t.status = "sent"
      PROVE  /\ NoMore(n, stored, t)
             /\ n \notin overwritten => NoLess(n, stored, t) /\ Advances(s, t)
  <2>1. NoMore(n, stored, t)
    BY <1>1, <1>3 DEF Fits, NoMore
  <2>2. Rank[s.status] <= Rank[t.status]
    BY <1>2, <1>3, RankFacts
  <2>3. Advances(s, t)
    BY <1>2, <1>3, <2>2 DEF Advances
  <2>4. ASSUME n \notin overwritten, NEW e \in Among(stored, n, EventKind)
        PROVE  RankOf(e) <= Rank[t.status] /\ TimeOf[e] <= t.last
    <3>1. RankOf(e) <= Rank[s.status] /\ TimeOf[e] <= s.last
      BY <1>1, <2>4 DEF Fits, NoLess
    <3>2. RankOf(e) \in Nat
      BY RankFacts, StatusRises DEF RankOf, Among
    <3>. QED
      BY <1>2, <1>3, <2>2, <3>1, <3>2
  <2>5. n \notin overwritten => NoLess(n, stored, t)
    BY <1>1, <1>3, <2>4 DEF Fits, NoLess
  <2>. QED
    BY <2>1, <2>3, <2>5
<1>4. CASE QueueDraft(n)
  <2> DEFINE t == [s EXCEPT !.shown = "queued", !.status = "none"]
  <2>1. /\ t \in Snapshot /\ t.status = "none"
        /\ t.opens = s.opens /\ t.clicks = s.clicks /\ t.last = s.last
    BY RankFacts DEF Snapshot
  <2>2. /\ snapshot' = [snapshot EXCEPT ![n] = t]
        /\ overwritten' = IF s.status = "none" THEN overwritten ELSE overwritten \cup {n}
        /\ Unlocked(n) /\ UNCHANGED <<stored, ingestVars>>
    BY <1>1, <1>4 DEF QueueDraft
  <2>3. NoMore(n, stored, t)
    BY <1>1, <2>1 DEF Fits, NoMore
  <2>4. n \notin overwritten' => NoLess(n, stored, t) /\ Advances(s, t)
    BY <1>3, <2>1, <2>2
  <2>. QED
    BY <1>1, <2>1, <2>2, <2>3, <2>4 DEF RowOnly
<1>5. CASE OutboxClaims(n)
  <2> DEFINE t == [s EXCEPT !.shown = "queued"]
  <2>1. /\ t \in Snapshot /\ t.status = s.status
        /\ t.opens = s.opens /\ t.clicks = s.clicks /\ t.last = s.last
    BY DEF Snapshot
  <2>2. /\ snapshot' = [snapshot EXCEPT ![n] = t]
        /\ overwritten' = overwritten
        /\ Unlocked(n) /\ UNCHANGED <<stored, ingestVars>>
    BY <1>1, <1>5 DEF OutboxClaims
  <2>. QED
    BY <1>1, <1>3, <2>1, <2>2 DEF RowOnly
<1>6. CASE OutboxRecordsSent(n)
  <2> DEFINE t == [s EXCEPT !.shown = "sent", !.status = IF @ = "none" THEN "sent" ELSE @]
  <2>1. /\ t \in Snapshot
        /\ t.status = s.status \/ (s.status = "none" /\ t.status = "sent")
        /\ t.opens = s.opens /\ t.clicks = s.clicks /\ t.last = s.last
    <3>1. PICK x \in DeliveryStatus :
            x = (IF s.status = "none" THEN "sent" ELSE s.status)
      BY RankFacts DEF Snapshot
    <3> DEFINE u == [s EXCEPT !.shown = "sent", !.status = x]
    <3>2. t = u
      BY <3>1
    <3>3. /\ u \in Snapshot /\ u.status = x
          /\ u.opens = s.opens /\ u.clicks = s.clicks /\ u.last = s.last
      BY Marked
    <3>. QED
      BY <3>1, <3>2, <3>3
  <2>2. /\ snapshot' = [snapshot EXCEPT ![n] = t]
        /\ overwritten' = overwritten
        /\ Unlocked(n) /\ UNCHANGED <<stored, ingestVars>>
    BY <1>1, <1>6 DEF OutboxRecordsSent
  <2>. QED
    BY <1>1, <1>3, <2>1, <2>2 DEF RowOnly
<1>7. CASE SaveWrite(n)
  <2>1. PICK c \in Snapshot, cs \in SUBSET MailColumn :
           c = entity[n] /\ cs = differs[n] /\ NoMore(n, stored, c)
    OBVIOUS
  <2> DEFINE t == Restored(s, c, cs)
  <2>2. /\ t \in Snapshot
        /\ t.status \in {s.status, c.status}
        /\ t.opens \in {s.opens, c.opens} /\ t.clicks \in {s.clicks, c.clicks}
    BY DEF Restored, Snapshot
  <2>3. /\ snapshot' = [snapshot EXCEPT ![n] = t]
        /\ overwritten' = IF cs \subseteq {"shown"} THEN overwritten ELSE overwritten \cup {n}
        /\ Unlocked(n) /\ UNCHANGED <<stored, ingestVars>>
    BY <1>1, <1>7, <2>1 DEF SaveWrite
  <2>4. NoMore(n, stored, t)
    BY <1>1, <2>1, <2>2 DEF Fits, NoMore
  <2>5. ASSUME n \notin overwritten' PROVE NoLess(n, stored, t) /\ Advances(s, t)
    <3>1. cs \subseteq {"shown"} /\ n \notin overwritten
      BY <2>3, <2>5
    <3>2. /\ t.status = s.status
          /\ t.opens = s.opens /\ t.clicks = s.clicks /\ t.last = s.last
      BY <3>1 DEF Restored
    <3>. QED
      BY <1>3, <2>2, <3>1, <3>2
  <2>. QED
    BY <1>1, <2>2, <2>3, <2>4, <2>5 DEF RowOnly
<1>. QED
  BY <1>4, <1>5, <1>6, <1>7

\* Every step keeps every variable in its type.
LEMMA DeliveryTypeStep == DeliveryInv /\ [DeliveryNext]_deliveryVars => DeliveryTypeOK'
<1> SUFFICES ASSUME DeliveryInv, [DeliveryNext]_deliveryVars PROVE DeliveryTypeOK'
  OBVIOUS
<1> USE DeliveryAssumption DEF DeliveryTypeOK, deliveryVars, ingestVars, writerVars, saveVars
<1>. DeliveryTypeOK /\ Untouched \in Snapshot
  BY RankFacts DEF DeliveryInv, Untouched, Snapshot
<1>1. ASSUME NEW i \in Ingest, NEW b \in Batch, Receive(i, b) PROVE DeliveryTypeOK'
  BY <1>1 DEF Receive
<1>2. ASSUME NEW i \in Ingest, FindMessage(i) PROVE DeliveryTypeOK'
  <2>1. Head(batch[i]) \in Event /\ MailOf[Head(batch[i])] \in Mail
    BY <1>2 DEF FindMessage
  <2>2. Visible(i, MailOf[Head(batch[i])]) \in Snapshot
    BY <2>1 DEF Visible
  <2>. QED
    BY <1>2, <2>2 DEF FindMessage
<1>3. ASSUME NEW i \in Ingest, ApplyEvent(i) PROVE DeliveryTypeOK'
  <2> DEFINE e == Head(batch[i])
             m == MailOf[e]
  <2>1. /\ e \in Event /\ m \in Mail /\ Tail(batch[i]) \in Seq(Event)
        /\ Visible(i, m) \in Snapshot
    BY <1>3, NextEvent DEF ApplyEvent
  <2>2. Updated(Visible(i, m), e) \in Snapshot
    BY <2>1, UpdatedType
  <2>3. grip' = [grip EXCEPT ![i] = @ \cup {m}] /\ batch' = [batch EXCEPT ![i] = Tail(@)]
    BY <1>3 DEF ApplyEvent
  <2>4. \/ fresh' = fresh /\ draft' = [draft EXCEPT ![i][m] = Visible(i, m)]
        \/ /\ fresh' = [fresh EXCEPT ![i] = @ \cup {e}]
           /\ draft' = [draft EXCEPT ![i][m] = Updated(Visible(i, m), e)]
    BY <1>3 DEF ApplyEvent, Reread
  <2>5. fresh' \in [Ingest -> SUBSET Event]
    <3>1. fresh' = fresh \/ fresh' = [fresh EXCEPT ![i] = @ \cup {e}]
      BY <2>4
    <3>2. fresh[i] \cup {e} \in SUBSET Event
      BY <2>1
    <3>3. ASSUME NEW F \in SUBSET Event
          PROVE  [fresh EXCEPT ![i] = F] \in [Ingest -> SUBSET Event]
      OBVIOUS
    <3>. QED
      BY <3>1, <3>2, <3>3
  <2>6. ASSUME NEW s \in Snapshot, draft' = [draft EXCEPT ![i][m] = s]
        PROVE  draft' \in [Ingest -> [Mail -> Snapshot]]
    BY <2>1, <2>6
  <2>7. draft' \in [Ingest -> [Mail -> Snapshot]]
    BY <2>1, <2>2, <2>4, <2>6
  <2>. QED
    BY <1>3, <2>1, <2>3, <2>5, <2>7 DEF ApplyEvent
<1>4. ASSUME NEW i \in Ingest, CommitEvents(i) PROVE DeliveryTypeOK'
  <2>1. snapshot' \in [Mail -> Snapshot] /\ stored' \subseteq Event
    BY <1>4 DEF CommitEvents
  <2>. QED
    BY <1>4, <2>1 DEF CommitEvents, EndsIngest
<1>5. ASSUME NEW i \in Ingest, RollBackEvents(i) PROVE DeliveryTypeOK'
  BY <1>5 DEF RollBackEvents, EndsIngest
<1>6. ASSUME NEW m \in Mail, RowOnly(m), saving' \subseteq Mail, saves' \in Nat,
             posting' \in [Mail -> {"none", "queued", "claimed", "recorded"}],
             entity' \in [Mail -> Snapshot], differs' \in [Mail -> SUBSET MailColumn]
      PROVE  DeliveryTypeOK'
  <2>1. PICK t \in Snapshot : snapshot' = [snapshot EXCEPT ![m] = t]
    BY <1>6 DEF RowOnly
  <2>2. snapshot' \in [Mail -> Snapshot] /\ overwritten' \subseteq Mail
    BY <1>6, <2>1 DEF RowOnly
  <2>. QED
    BY <1>6, <2>2 DEF RowOnly
<1>7. ASSUME NEW m \in Mail, QueueDraft(m) \/ OutboxClaims(m) \/ OutboxRecordsSent(m) \/ SaveWrite(m)
      PROVE  DeliveryTypeOK'
  <2>1. RowOnly(m)
    BY <1>7, WritesRowOnly
  <2>2. /\ posting' \in [Mail -> {"none", "queued", "claimed", "recorded"}]
        /\ entity' \in [Mail -> Snapshot] /\ differs' \in [Mail -> SUBSET MailColumn]
        /\ saving' \subseteq Mail /\ saves' \in Nat
    <3>1. Untouched \in Snapshot
      BY RankFacts DEF Untouched, Snapshot
    <3>2. CASE SaveWrite(m)
      BY <3>1, <3>2 DEF SaveWrite
    <3>3. CASE QueueDraft(m) \/ OutboxClaims(m) \/ OutboxRecordsSent(m)
      BY <3>3 DEF QueueDraft, OutboxClaims, OutboxRecordsSent
    <3>. QED
      BY <1>7, <3>2, <3>3
  <2>. QED
    BY <1>6, <2>1, <2>2
<1>8. ASSUME NEW m \in Mail, SaveRead(m) PROVE DeliveryTypeOK'
  BY <1>8 DEF SaveRead
<1>9. ASSUME NEW m \in Mail, SaveCompare(m) PROVE DeliveryTypeOK'
  BY <1>9 DEF SaveCompare
<1>10. ASSUME UNCHANGED deliveryVars PROVE DeliveryTypeOK'
  BY <1>10
<1>. QED
  BY <1>1, <1>2, <1>3, <1>4, <1>5, <1>7, <1>8, <1>9, <1>10 DEF DeliveryNext

-----------------------------------------------------------------------------
\* Storing an event and folding it into the locked row.
LEMMA ApplyFolds ==
    ASSUME DeliveryInv, NEW i \in Ingest, ApplyEvent(i) PROVE Folded'
<1> DEFINE e == Head(batch[i])
           m == MailOf[e]
<1> USE DEF DeliveryInv, DeliveryTypeOK, Folded
<1>1. /\ e \in Event /\ m \in Mail
      /\ Visible(i, m) \in Snapshot
      /\ Fits(m, stored \cup fresh[i], Visible(i, m), overwritten)
      /\ Advances(snapshot[m], Visible(i, m))
  BY NextEvent DEF ApplyEvent
<1>2. /\ UNCHANGED <<stored, snapshot, ingesting, entity, overwritten>>
      /\ looked' = looked \ {i}
      /\ batch' = [batch EXCEPT ![i] = Tail(@)]
      /\ grip' = [grip EXCEPT ![i] = @ \cup {m}]
      /\ Free(m, i)
  BY DEF ApplyEvent, writerVars, saveVars
<1>3. PICK s \in Snapshot, F \in SUBSET Event :
         /\ draft' = [draft EXCEPT ![i][m] = s]
         /\ fresh' = [fresh EXCEPT ![i] = F]
         /\ IsFiniteSet(F)
         /\ F \subseteq fresh[i] \cup ({e} \ stored) /\ fresh[i] \subseteq F
         /\ Fits(m, stored \cup F, s, overwritten)
         /\ Advances(snapshot[m], s)
  <2>0. IsFiniteSet(fresh[i]) /\ IsFiniteSet(stored \cup fresh[i])
    BY FS_Union DEF FreshIsLocked
  <2>1. CASE Known(i, e)
    <3>1. draft' = [draft EXCEPT ![i][m] = Visible(i, m)] /\ fresh' = fresh
      BY <2>1 DEF ApplyEvent
    <3>2. fresh' = [fresh EXCEPT ![i] = fresh[i]]
      BY <3>1
    <3>. QED
      BY <1>1, <2>0, <3>1, <3>2
  <2>2. CASE ~Known(i, e)
    <3>1. /\ draft' = [draft EXCEPT ![i][m] = Updated(Visible(i, m), e)]
          /\ fresh' = [fresh EXCEPT ![i] = fresh[i] \cup {e}]
      BY <2>2 DEF ApplyEvent, Reread
    <3>2. e \in Event \ (stored \cup fresh[i])
      BY <1>1, <2>2 DEF Known
    <3>3. Fits(m, (stored \cup fresh[i]) \cup {e}, Updated(Visible(i, m), e), overwritten)
      BY <1>1, <2>0, <3>2, FitsGrows
    <3>4. /\ Updated(Visible(i, m), e) \in Snapshot
          /\ Advances(Visible(i, m), Updated(Visible(i, m), e))
      BY <1>1, UpdatedType
    <3>5. Advances(snapshot[m], Updated(Visible(i, m), e))
      BY <1>1, <3>4, AdvancesFurther
    <3>6. IsFiniteSet(fresh[i] \cup {e})
      BY <2>0, FS_AddElement
    <3>7. (stored \cup fresh[i]) \cup {e} = stored \cup (fresh[i] \cup {e})
      OBVIOUS
    <3>. QED
      BY <1>1, <3>1, <3>2, <3>3, <3>4, <3>5, <3>6, <3>7
  <2>. QED
    BY <2>1, <2>2
<1>4. GripsExclude'
  BY <1>2 DEF GripsExclude, Free
<1>5. FreshIsLocked'
  BY <1>2, <1>3 DEF FreshIsLocked
<1>6. ASSUME NEW k \in Ingest, NEW n \in grip'[k]
      PROVE  /\ Fits(n, stored \cup fresh'[k], draft'[k][n], overwritten)
             /\ Advances(snapshot[n], draft'[k][n])
  <2>1. CASE k = i /\ n = m
    <3>1. draft'[k][n] = s /\ fresh'[k] = F
      BY <1>1, <1>3, <2>1
    <3>. QED
      BY <1>3, <2>1, <3>1
  <2>2. CASE k = i /\ n # m
    <3>1. n \in grip[i] /\ draft'[k][n] = draft[i][n] /\ fresh'[k] = F
      BY <1>1, <1>2, <1>3, <1>6, <2>2
    <3>2. Fits(n, stored \cup fresh[i], draft[i][n], overwritten) /\ Advances(snapshot[n], draft[i][n])
      BY <3>1 DEF DraftsFit
    <3>3. \A f \in (stored \cup fresh[i]) \cup (stored \cup F) :
             (f \in stored \cup fresh[i] <=> f \in stored \cup F) \/ MailOf[f] # n
      BY <1>3, <2>2
    <3>. QED
      BY <3>1, <3>2, <3>3, FitsApart
  <2>3. CASE k # i
    <3>1. n \in grip[k] /\ draft'[k] = draft[k] /\ fresh'[k] = fresh[k]
      BY <1>2, <1>3, <1>6, <2>3
    <3>. QED
      BY <3>1 DEF DraftsFit
  <2>. QED
    BY <2>1, <2>2, <2>3
<1>7. DraftsFit'
  BY <1>2, <1>6 DEF DraftsFit
<1>8. LookedHasEvent'
  BY <1>2 DEF LookedHasEvent
<1>. QED
  BY <1>2, <1>4, <1>5, <1>7, <1>8

\* COMMIT makes the private snapshots of locked rows those of all.
LEMMA CommitFolds ==
    ASSUME DeliveryInv, NEW i \in Ingest, CommitEvents(i) PROVE Folded'
<1> USE DEF DeliveryInv, DeliveryTypeOK, Folded
<1>1. /\ stored' = stored \cup fresh[i]
      /\ snapshot' = [m \in Mail |-> IF m \in grip[i] THEN draft[i][m] ELSE snapshot[m]]
      /\ grip' = [grip EXCEPT ![i] = {}]
      /\ fresh' = [fresh EXCEPT ![i] = {}]
      /\ \A k \in Ingest \ {i} : draft'[k] = draft[k] /\ batch'[k] = batch[k]
      /\ ingesting' = ingesting \ {i} /\ looked' = looked \ {i}
      /\ UNCHANGED <<entity, overwritten>>
  BY DEF CommitEvents, EndsIngest, writerVars, saveVars
<1>2. IsFiniteSet(stored')
  BY <1>1, FS_Union DEF FreshIsLocked
<1>3. ASSUME NEW m \in Mail PROVE Fits(m, stored', snapshot'[m], overwritten)
  <2>1. CASE m \in grip[i]
    BY <1>1, <2>1 DEF DraftsFit
  <2>2. CASE m \notin grip[i]
    <3>1. \A e \in stored \cup stored' :
             (e \in stored <=> e \in stored') \/ MailOf[e] # m
      BY <1>1, <2>2 DEF FreshIsLocked
    <3>2. Fits(m, stored, snapshot[m], overwritten) /\ snapshot'[m] = snapshot[m]
      BY <1>1, <2>2
    <3>. QED
      BY <3>1, <3>2, FitsApart
  <2>. QED
    BY <2>1, <2>2
<1>4. GripsExclude'
  BY <1>1 DEF GripsExclude
<1>5. FreshIsLocked'
  <2>1. ASSUME NEW k \in Ingest, k # i
        PROVE  /\ IsFiniteSet(fresh'[k])
               /\ \A e \in fresh'[k] : MailOf[e] \in grip'[k] /\ e \notin stored'
    BY <1>1, <2>1 DEF FreshIsLocked, GripsExclude
  <2>2. fresh'[i] = {}
    BY <1>1
  <2>. QED
    BY <2>1, <2>2, FS_EmptySet DEF FreshIsLocked
<1>6. ASSUME NEW k \in Ingest, NEW m \in grip'[k]
      PROVE  /\ Fits(m, stored' \cup fresh'[k], draft'[k][m], overwritten)
             /\ Advances(snapshot'[m], draft'[k][m])
  <2>1. k # i /\ m \in grip[k] /\ m \notin grip[i] /\ m \in Mail
    BY <1>1, <1>6 DEF GripsExclude
  <2>2. /\ draft'[k][m] = draft[k][m] /\ fresh'[k] = fresh[k]
        /\ snapshot'[m] = snapshot[m]
    BY <1>1, <2>1
  <2>3. \A e \in (stored \cup fresh[k]) \cup (stored' \cup fresh[k]) :
           (e \in stored \cup fresh[k] <=> e \in stored' \cup fresh[k]) \/ MailOf[e] # m
    BY <1>1, <2>1 DEF FreshIsLocked
  <2>4. Fits(m, stored \cup fresh[k], draft[k][m], overwritten) /\ Advances(snapshot[m], draft[k][m])
    BY <2>1 DEF DraftsFit
  <2>5. Fits(m, stored' \cup fresh[k], draft[k][m], overwritten)
    BY <2>3, <2>4, FitsApart
  <2>. QED
    BY <2>2, <2>4, <2>5
<1>7. DraftsFit'
  BY <1>1, <1>6 DEF DraftsFit
<1>8. LookedHasEvent'
  BY <1>1 DEF LookedHasEvent
<1>9. ASSUME NEW m \in Mail PROVE NoMore(m, stored', entity'[m])
  <2>1. stored \subseteq stored' /\ entity'[m] = entity[m] /\ entity[m] \in Snapshot
    BY <1>1
  <2>. QED
    BY <1>2, <2>1, NoMoreGrows
<1>. QED
  BY <1>1, <1>2, <1>3, <1>4, <1>5, <1>7, <1>8, <1>9

\* A write to a row that no request has locked.
LEMMA RowFolds ==
    ASSUME DeliveryInv, NEW n \in Mail, RowOnly(n),
           \A m \in Mail : NoMore(m, stored, entity'[m])
    PROVE  Folded'
<1> USE DEF DeliveryInv, DeliveryTypeOK, Folded
<1>1. PICK t \in Snapshot :
        /\ snapshot' = [snapshot EXCEPT ![n] = t]
        /\ NoMore(n, stored, t)
        /\ n \notin overwritten' => NoLess(n, stored, t) /\ Advances(snapshot[n], t)
  BY DEF RowOnly
<1>2. PICK lost : lost = overwritten'
  OBVIOUS
<1>3. /\ \A m \in Mail \ {n} : m \in lost <=> m \in overwritten
      /\ UNCHANGED <<stored, ingestVars>> /\ \A i \in Ingest : n \notin grip[i]
  BY <1>2 DEF RowOnly, Unlocked
<1>4. ASSUME NEW m \in Mail PROVE Fits(m, stored, snapshot'[m], lost)
  BY <1>1, <1>2, <1>3 DEF Fits
<1>5. (GripsExclude /\ FreshIsLocked /\ LookedHasEvent)'
  BY <1>3 DEF GripsExclude, FreshIsLocked, LookedHasEvent, ingestVars
<1>6. ASSUME NEW i \in Ingest, NEW m \in grip[i]
      PROVE  /\ Fits(m, stored \cup fresh[i], draft[i][m], lost)
             /\ Advances(snapshot'[m], draft[i][m])
  <2>1. m \in Mail \ {n} /\ snapshot'[m] = snapshot[m]
    BY <1>1, <1>3
  <2>. QED
    BY <1>3, <2>1 DEF DraftsFit, Fits
<1>7. DraftsFit'
  BY <1>2, <1>3, <1>6 DEF DraftsFit, ingestVars
<1>. QED
  BY <1>2, <1>3, <1>4, <1>5, <1>7

\* Every step keeps each snapshot, committed or not, the fold of its events.
LEMMA FoldedStep == DeliveryInv /\ [DeliveryNext]_deliveryVars => Folded'
<1> SUFFICES ASSUME DeliveryInv, [DeliveryNext]_deliveryVars PROVE Folded'
  OBVIOUS
<1> USE DEF DeliveryInv, DeliveryTypeOK, Folded, GripsExclude, FreshIsLocked, DraftsFit,
            LookedHasEvent
<1>1. ASSUME NEW i \in Ingest, NEW b \in Batch, Receive(i, b) PROVE Folded'
  <2>1. /\ i \notin ingesting /\ ingesting' = ingesting \cup {i}
        /\ \A k \in Ingest \ {i} : batch'[k] = batch[k]
        /\ UNCHANGED <<stored, snapshot, overwritten, entity, looked, grip, draft, fresh>>
    BY <1>1 DEF Receive, writerVars, saveVars
  <2>2. LookedHasEvent'
    BY <2>1
  <2>3. (GripsExclude /\ FreshIsLocked /\ DraftsFit)'
    BY <2>1
  <2>. QED
    BY <2>1, <2>2, <2>3
<1>2. ASSUME NEW i \in Ingest, FindMessage(i) PROVE Folded'
  BY <1>2 DEF FindMessage, writerVars, saveVars
<1>3. ASSUME NEW i \in Ingest, RollBackEvents(i) PROVE Folded'
  <2>1. /\ grip' = [grip EXCEPT ![i] = {}] /\ fresh' = [fresh EXCEPT ![i] = {}]
        /\ \A k \in Ingest \ {i} : draft'[k] = draft[k] /\ batch'[k] = batch[k]
        /\ looked' = looked \ {i} /\ ingesting' = ingesting \ {i}
        /\ UNCHANGED <<stored, snapshot, overwritten, entity>>
    BY <1>3 DEF RollBackEvents, EndsIngest, writerVars, saveVars
  <2>2. (FreshIsLocked /\ GripsExclude)'
    BY <2>1, FS_EmptySet
  <2>3. (DraftsFit /\ LookedHasEvent)'
    BY <2>1
  <2>. QED
    BY <2>1, <2>2, <2>3
<1>4. ASSUME NEW m \in Mail, QueueDraft(m) \/ OutboxClaims(m) \/ OutboxRecordsSent(m) \/ SaveWrite(m)
      PROVE  Folded'
  <2>1. RowOnly(m)
    BY <1>4, WritesRowOnly
  <2>2. entity' = entity \/ entity' = [entity EXCEPT ![m] = Untouched]
    BY <1>4 DEF QueueDraft, OutboxClaims, OutboxRecordsSent, SaveWrite, saveVars
  <2>3. NoMore(m, stored, Untouched)
    <3>1. \A kinds : Cardinality(Among(stored, m, kinds)) \in Nat
      BY FS_Subset, FS_CardinalityType DEF Among
    <3>. QED
      BY <3>1 DEF NoMore, Untouched
  <2>4. \A n \in Mail : entity'[n] = entity[n] \/ (n = m /\ entity'[n] = Untouched)
    <3>1. CASE entity' = entity
      BY <3>1
    <3>2. CASE entity' = [entity EXCEPT ![m] = Untouched]
      BY <3>2
    <3>. QED
      BY <2>2, <3>1, <3>2
  <2>5. ASSUME NEW n \in Mail PROVE NoMore(n, stored, entity'[n])
    BY <2>3, <2>4
  <2>. QED
    BY <2>1, <2>5, RowFolds
<1>5. ASSUME NEW m \in Mail, SaveRead(m) PROVE Folded'
  <2>1. /\ UNCHANGED <<stored, snapshot, overwritten, ingestVars>>
        /\ entity' = [entity EXCEPT ![m] = snapshot[m]]
    BY <1>5 DEF SaveRead
  <2>2. \A n \in Mail : NoMore(n, stored, entity'[n])
    BY <2>1 DEF Fits
  <2>. QED
    BY <2>1, <2>2 DEF ingestVars
<1>6. ASSUME NEW m \in Mail, SaveCompare(m) PROVE Folded'
  BY <1>6 DEF SaveCompare, ingestVars
<1>7. ASSUME UNCHANGED deliveryVars PROVE Folded'
  BY <1>7 DEF deliveryVars, ingestVars, writerVars, saveVars
<1>. QED
  BY <1>1, <1>2, <1>3, <1>4, <1>5, <1>6, <1>7, ApplyFolds, CommitFolds DEF DeliveryNext

\* The inductive invariant holds in every state.
LEMMA DeliveryInvHolds == DeliverySpec => []DeliveryInv
<1>1. DeliveryInit => DeliveryInv
  <2> SUFFICES ASSUME DeliveryInit PROVE DeliveryInv
    OBVIOUS
  <2>1. DeliveryTypeOK
    BY RankFacts DEF DeliveryInit, DeliveryTypeOK, Untouched, Snapshot
  <2>2. IsFiniteSet({}) /\ Cardinality({}) = 0
    BY FS_EmptySet
  <2>3. ASSUME NEW m \in Mail
        PROVE  Fits(m, stored, snapshot[m], overwritten) /\ NoMore(m, stored, entity[m])
    <3>1. \A kinds : Among(stored, m, kinds) = {}
      BY DEF DeliveryInit, Among
    <3>2. snapshot[m] = Untouched /\ entity[m] = Untouched
      BY DEF DeliveryInit
    <3>3. NoMore(m, stored, Untouched) /\ NoLess(m, stored, Untouched)
      BY <2>2, <3>1 DEF NoMore, NoLess, Untouched
    <3>. QED
      BY <3>2, <3>3 DEF Fits
  <2>. QED
    BY <2>1, <2>2, <2>3
    DEF DeliveryInit, DeliveryInv, Folded, GripsExclude, FreshIsLocked, DraftsFit, LookedHasEvent
<1>2. DeliveryInv /\ [DeliveryNext]_deliveryVars => DeliveryInv'
  BY DeliveryTypeStep, FoldedStep DEF DeliveryInv
<1>. QED
  BY <1>1, <1>2, PTL DEF DeliverySpec

\* Every variable keeps its type.
THEOREM DeliveryTypeCorrect == DeliverySpec => []DeliveryTypeOK
<1>1. DeliveryInv => DeliveryTypeOK
  BY DEF DeliveryInv
<1>. QED
  BY <1>1, DeliveryInvHolds, PTL

-----------------------------------------------------------------------------
\* SnapshotMatchesEvents (ingestPayload, updateMessageSnapshot): whatever the
\* order, the repetitions and the concurrent requests, each event is counted
\* once; where a whole save or a second sendDraft wrote over it, never twice.
THEOREM EachEventOnce == DeliverySpec => []SnapshotMatchesEvents
<1>1. ASSUME DeliveryInv PROVE SnapshotMatchesEvents
  <2>1. \A m \in Mail : \A kinds : EventsOf(m, kinds) = Among(stored, m, kinds)
    BY DEF EventsOf, Among
  <2>2. \A m \in Mail : Fits(m, stored, snapshot[m], overwritten)
    BY <1>1 DEF DeliveryInv, Folded
  <2>. QED
    BY <2>1, <2>2 DEF Fits, NoMore, NoLess, SnapshotMatchesEvents
<1>. QED
  BY <1>1, DeliveryInvHolds, PTL

\* DeliveryOnlyAdvances (pickHigherStatus under the row lock): a message that
\* bounced never looks delivered again, and no counter is set back, but by a
\* whole save or a sendDraft of what was sent.
THEOREM NeverBack == DeliverySpec => DeliveryOnlyAdvances
<1>1. ASSUME DeliveryInv, [DeliveryNext]_deliveryVars, NEW m \in Mail, m \notin overwritten'
      PROVE  Advances(snapshot[m], snapshot'[m])
  <2> USE DEF DeliveryInv, DeliveryTypeOK
  <2>1. CASE UNCHANGED snapshot
    BY <1>1, <2>1, AdvancesNowhere
  <2>2. ASSUME NEW i \in Ingest, CommitEvents(i) PROVE Advances(snapshot[m], snapshot'[m])
    <3>1. snapshot'[m] = IF m \in grip[i] THEN draft[i][m] ELSE snapshot[m]
      BY <2>2 DEF CommitEvents
    <3>2. Advances(snapshot[m], snapshot[m])
      BY <1>1, AdvancesNowhere
    <3>. QED
      BY <1>1, <3>1, <3>2 DEF Folded, DraftsFit
  <2>3. ASSUME NEW n \in Mail,
               QueueDraft(n) \/ OutboxClaims(n) \/ OutboxRecordsSent(n) \/ SaveWrite(n)
        PROVE  Advances(snapshot[m], snapshot'[m])
    <3>1. RowOnly(n)
      BY <1>1, <2>3, WritesRowOnly
    <3>2. CASE m # n
      <4>1. snapshot'[m] = snapshot[m]
        BY <1>1, <3>1, <3>2 DEF RowOnly
      <4>. QED
        BY <1>1, <4>1, AdvancesNowhere
    <3>3. CASE m = n
      BY <1>1, <3>1, <3>3 DEF RowOnly
    <3>. QED
      BY <3>2, <3>3
  <2>. QED
    BY <1>1, <2>1, <2>2, <2>3
    DEF DeliveryNext, deliveryVars, Receive, FindMessage, ApplyEvent, RollBackEvents, SaveRead,
        SaveCompare
<1>2. ASSUME DeliveryInv, [DeliveryNext]_deliveryVars
      PROVE  [\A m \in Mail \ overwritten' :
                 /\ Rank[snapshot[m].status] <= Rank[snapshot'[m].status]
                 /\ snapshot[m].opens <= snapshot'[m].opens
                 /\ snapshot[m].clicks <= snapshot'[m].clicks
                 /\ snapshot[m].last <= snapshot'[m].last]_deliveryVars
  BY <1>1, <1>2 DEF Advances
<1>. QED
  BY <1>2, DeliveryInvHolds, PTL DEF DeliverySpec, DeliveryOnlyAdvances
==============================================================================
