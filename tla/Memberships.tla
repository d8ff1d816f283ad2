---------------------------- MODULE Memberships ----------------------------
(***************************************************************************)
(* Accounts of one tenant and the seats they occupy.  An account is a row  *)
(* of users in the tenant's data database; its membership, the seat, is a  *)
(* row of platform_memberships in the platform database.  No transaction   *)
(* spans the two: a request reserves the seat on the platform, commits the *)
(* account together with a "membership-sync" job, and activates, archives  *)
(* or releases the membership in a hook after its transaction ended.  The  *)
(* job repairs what a crash between the two leaves, and an operator may    *)
(* reconcile by hand.                                                      *)
(*                                                                         *)
(* A platform transaction that locks the tenant row is one step.  One      *)
(* email, one identity and one account stand for one element of User.  A   *)
(* tenant that is read-only or suspended refuses requests, reservations    *)
(* and jobs: each of these is a step that need not happen.                 *)
(***************************************************************************)
EXTENDS Naturals, FiniteSets

CONSTANTS
    User,       \* accounts of the tenant, by email
    Request,    \* slots for concurrent HTTP requests
    Runner,     \* replicas that execute tenant jobs
    MaxSeats,   \* bound: the largest seat limit the operator sets
    MaxJobs,    \* bound: pending sync jobs of one kind per account
    MaxReviews, \* bound: memberships under reconciliation at once
    Faults      \* "overlap": work on one account may overlap;
                \* "ambiguous": a commit may succeed and be reported failed

ASSUME MembershipAssumption ==
    /\ IsFiniteSet(User)
    /\ MaxSeats \in Nat /\ MaxJobs \in Nat /\ MaxReviews \in Nat
    /\ Faults \subseteq {"overlap", "ambiguous"}

VARIABLES
    account,    \* users: the row of an account
    member,     \* platform_memberships.status; "none" without a row
    linked,     \* memberships with local_user_id set
    seatLimit,  \* platform_tenants.seat_limit
    request,    \* the progress of each HTTP request
    jobs,       \* pending membership-sync jobs, per account and kind
    runner,     \* the job each replica executes
    review      \* the operator's reconciliation of an account

vars == <<account, member, linked, seatLimit, request, jobs, runner, review>>

\* "lost" is a job that names a membership row which no longer exists.
JobKind == {"member", "user", "lost"}
Account == {"absent", "live", "archived"}
Status == {"none", "RESERVED", "ACTIVE", "ARCHIVED"}

Idle == [stage |-> "idle"]
RequestState == [stage : {"open", "ready", "hook", "undo"}, kind : {"create", "archive", "restore"},
                 user : User, previous : Status]
RunnerState == [stage : {"read"}, user : User, kind : JobKind, saw : Account]
ReviewState == [stage : {"listed", "read"}, status : {"RESERVED", "ACTIVE"}, saw : Account]

TypeOK ==
    /\ account \in [User -> Account]
    /\ member \in [User -> Status]
    /\ linked \subseteq User
    /\ seatLimit \in 0..MaxSeats
    /\ request \in [Request -> RequestState \cup {Idle}]
    /\ jobs \in [User -> [JobKind -> 0..MaxJobs]]
    /\ runner \in [Runner -> RunnerState \cup {Idle}]
    /\ review \in [User -> ReviewState \cup {Idle}]

Init ==
    /\ account = [u \in User |-> "absent"]
    /\ member = [u \in User |-> "none"]
    /\ linked = {}
    /\ seatLimit \in 0..MaxSeats
    /\ request = [r \in Request |-> Idle]
    /\ jobs = [u \in User |-> [k \in JobKind |-> 0]]
    /\ runner = [x \in Runner |-> Idle]
    /\ review = [u \in User |-> Idle]

\* countSeats: reservations hold a seat as well.
Seated == {u \in User : member[u] \in {"RESERVED", "ACTIVE"}}

\* Mutant: a reservation does not count as an occupied seat.
SeatFreeActiveOnly == Cardinality({u \in User : member[u] = "ACTIVE"}) < seatLimit
SeatFree == Cardinality(Seated) < seatLimit

Requesting(u) == \E r \in Request : request[r] # Idle /\ request[r].user = u
Synchronizing(u) == \E x \in Runner : runner[x] # Idle /\ runner[x].user = u
Reviewing(u) == review[u] # Idle
ReviewFits == Cardinality({u \in User : Reviewing(u)}) < MaxReviews

\* Without the fault "overlap", work on an account waits for other work on it.
MayStart(u) ==
    "overlap" \in Faults \/ ~(Requesting(u) \/ Synchronizing(u) \/ Reviewing(u))

-----------------------------------------------------------------------------
(***************************************************************************)
(* Requests: createTenantUser, archiveUser, restoreUser.                   *)
(***************************************************************************)

AccountBefore == [create |-> "absent", archive |-> "live", restore |-> "archived"]
AccountAfter == [create |-> "live", archive |-> "archived", restore |-> "live"]
JobOf(kind) == IF kind = "archive" THEN "user" ELSE "member"

\* The request opens its data transaction and reads the account.
Begin(r, kind, u) ==
    /\ request[r] = Idle /\ MayStart(u)
    /\ account[u] = AccountBefore[kind]
    /\ request' = [request EXCEPT ![r] =
            [stage |-> IF kind = "archive" THEN "ready" ELSE "open",
             kind |-> kind, user |-> u, previous |-> "none"]]
    /\ UNCHANGED <<account, member, linked, seatLimit, jobs, runner, review>>

\* reserveMembership, a platform transaction under the tenant lock.
Reserve(r) ==
    /\ request[r] # Idle /\ request[r].stage = "open"
    /\ LET u == request[r].user IN
        /\ member[u] \in {"none", "ARCHIVED"}
        /\ SeatFree
        /\ member' = [member EXCEPT ![u] = "RESERVED"]
        /\ linked' = IF request[r].kind = "restore" THEN linked \cup {u} ELSE linked
        /\ request' = [request EXCEPT ![r].stage = "ready", ![r].previous = member[u]]
    /\ UNCHANGED <<account, seatLimit, jobs, runner, review>>

\* Mutant: the account is saved without scheduling the sync job.
CommitDataWithoutJob(r) ==
    LET u == request[r].user
        kind == request[r].kind
    IN  /\ request[r].stage = "ready"
        /\ kind = "create" => account[u] = "absent"
        /\ account' = [account EXCEPT ![u] = AccountAfter[kind]]
        /\ UNCHANGED jobs

\* The account change and the sync job, in one data transaction.  A second
\* account with the same email violates a unique key.
CommitData(r) ==
    LET u == request[r].user
        kind == request[r].kind
    IN  /\ request[r].stage = "ready"
        /\ kind = "create" => account[u] = "absent"
        /\ jobs[u][JobOf(kind)] < MaxJobs
        /\ account' = [account EXCEPT ![u] = AccountAfter[kind]]
        /\ jobs' = [jobs EXCEPT ![u][JobOf(kind)] = @ + 1]

Commit(r) ==
    /\ request[r] # Idle
    /\ CommitData(r)
    /\ request' = [request EXCEPT ![r].stage = "hook"]
    /\ UNCHANGED <<member, linked, seatLimit, runner, review>>

\* The commit takes effect, but the connection fails before the answer: the
\* rollback hooks run.
CommitReportedFailed(r) ==
    /\ "ambiguous" \in Faults
    /\ request[r] # Idle
    /\ CommitData(r)
    /\ request' = [request EXCEPT ![r] = IF @.kind = "archive" THEN Idle ELSE [@ EXCEPT !.stage = "undo"]]
    /\ UNCHANGED <<member, linked, seatLimit, runner, review>>

\* Mutant: the commit hooks run after a rollback as well.
RollbackActivates(r) ==
    /\ request[r] # Idle /\ request[r].stage \in {"open", "ready"}
    /\ request' = [request EXCEPT ![r] = IF @.stage = "open" THEN Idle ELSE [@ EXCEPT !.stage = "hook"]]
    /\ UNCHANGED <<account, member, linked, seatLimit, jobs, runner, review>>

\* The reservation is refused, or anything fails before the commit.
Rollback(r) ==
    /\ request[r] # Idle /\ request[r].stage \in {"open", "ready"}
    /\ request' = [request EXCEPT ![r] =
            IF @.stage = "open" \/ @.kind = "archive" THEN Idle ELSE [@ EXCEPT !.stage = "undo"]]
    /\ UNCHANGED <<account, member, linked, seatLimit, jobs, runner, review>>

\* activateReservation: only a membership that is still reserved.
ActivateHook(r) ==
    /\ request[r] # Idle /\ request[r].stage = "hook" /\ request[r].kind # "archive"
    /\ LET u == request[r].user IN
        /\ member' = [member EXCEPT ![u] = IF @ = "RESERVED" THEN "ACTIVE" ELSE @]
        /\ linked' = IF member[u] = "RESERVED" THEN linked \cup {u} ELSE linked
    /\ request' = [request EXCEPT ![r] = Idle]
    /\ UNCHANGED <<account, seatLimit, jobs, runner, review>>

\* archiveMembership: by local user, whatever the status is by now.
ArchiveHook(r) ==
    /\ request[r] # Idle /\ request[r].stage = "hook" /\ request[r].kind = "archive"
    /\ LET u == request[r].user IN
        member' = [member EXCEPT ![u] = IF u \in linked THEN "ARCHIVED" ELSE @]
    /\ request' = [request EXCEPT ![r] = Idle]
    /\ UNCHANGED <<account, linked, seatLimit, jobs, runner, review>>

\* A deleted membership row leaves the jobs that name it without a target.
Orphaned(u) == [jobs EXCEPT ![u] = [k \in JobKind |->
    CASE k = "member" -> 0
      [] k = "lost" -> IF @["lost"] + @["member"] > MaxJobs THEN MaxJobs ELSE @["lost"] + @["member"]
      [] OTHER -> @[k]]]

\* releaseReservation: back to the previous status, or the row is deleted.
UndoHook(r) ==
    /\ request[r] # Idle /\ request[r].stage = "undo"
    /\ LET u == request[r].user
           dropped == member[u] = "RESERVED" /\ request[r].previous = "none"
       IN
        /\ member' = [member EXCEPT ![u] = IF @ = "RESERVED" THEN request[r].previous ELSE @]
        /\ linked' = IF dropped THEN linked \ {u} ELSE linked
        /\ jobs' = IF dropped THEN Orphaned(u) ELSE jobs
        /\ runner' = [x \in Runner |->
                IF dropped /\ runner[x] # Idle /\ runner[x].user = u /\ runner[x].kind = "member"
                THEN [runner[x] EXCEPT !.kind = "lost"] ELSE runner[x]]
    /\ request' = [request EXCEPT ![r] = Idle]
    /\ UNCHANGED <<account, seatLimit, review>>

\* The process stops, or the hook itself fails: hook errors are only logged.
RequestCrash(r) ==
    /\ request[r] # Idle
    /\ request' = [request EXCEPT ![r] = Idle]
    /\ UNCHANGED <<account, member, linked, seatLimit, jobs, runner, review>>

-----------------------------------------------------------------------------
(***************************************************************************)
(* The "membership-sync" job: PlatformMembershipSyncService reads the      *)
(* account, then synchronizeMembership runs under the tenant lock.         *)
(***************************************************************************)

SyncTake(x, u, k) ==
    /\ runner[x] = Idle /\ jobs[u][k] > 0 /\ MayStart(u)
    /\ jobs' = [jobs EXCEPT ![u][k] = @ - 1]
    /\ runner' = [runner EXCEPT ![x] = [stage |-> "read", user |-> u, kind |-> k, saw |-> account[u]]]
    /\ UNCHANGED <<account, member, linked, seatLimit, request, review>>

\* The membership is found and, if the account needs a seat again, there is one.
SyncPossible(x) ==
    LET u == runner[x].user IN
        /\ runner[x].kind # "lost" /\ member[u] # "none"
        /\ runner[x].kind = "user" => u \in linked
        /\ runner[x].saw = "live" /\ member[u] = "ARCHIVED" => SeatFree

Requeued(x) == [jobs EXCEPT ![runner[x].user][runner[x].kind] = IF @ < MaxJobs THEN @ + 1 ELSE @]

\* The platform commits first: if the job's own commit fails, it is run again.
SyncApply(x) ==
    /\ runner[x] # Idle /\ SyncPossible(x)
    /\ LET u == runner[x].user IN
        /\ member' = [member EXCEPT ![u] = IF runner[x].saw = "live" THEN "ACTIVE" ELSE "ARCHIVED"]
        /\ linked' = linked \cup {u}
    /\ jobs' \in {jobs, Requeued(x)}
    /\ runner' = [runner EXCEPT ![x] = Idle]
    /\ UNCHANGED <<account, seatLimit, request, review>>

\* The handler throws: the job is tried again, or has failed for the tenth time.
SyncConflict(x) ==
    /\ runner[x] # Idle /\ ~SyncPossible(x)
    /\ jobs' \in {jobs, Requeued(x)}
    /\ runner' = [runner EXCEPT ![x] = Idle]
    /\ UNCHANGED <<account, member, linked, seatLimit, request, review>>

\* The platform database is out of reach or the replica stops; the outage
\* ends before the tenth attempt.
SyncOutage(x) ==
    /\ runner[x] # Idle
    /\ jobs' = Requeued(x)
    /\ runner' = [runner EXCEPT ![x] = Idle]
    /\ UNCHANGED <<account, member, linked, seatLimit, request, review>>

-----------------------------------------------------------------------------
(***************************************************************************)
(* The operator: reconcileMemberships and updateTenant.                    *)
(***************************************************************************)

\* The list holds a membership untouched for 15 minutes: no reservation of it
\* is in progress.
ReviewList(u) ==
    /\ review[u] = Idle /\ MayStart(u) /\ ReviewFits
    /\ member[u] \in {"RESERVED", "ACTIVE"}
    /\ ~\E r \in Request : /\ request[r] # Idle /\ request[r].user = u
                          /\ request[r].kind # "archive" /\ request[r].stage # "open"
    /\ review' = [review EXCEPT ![u] = [stage |-> "listed", status |-> member[u], saw |-> "absent"]]
    /\ UNCHANGED <<account, member, linked, seatLimit, request, jobs, runner>>

\* The account is read in the data database, one membership after another.
ReviewRead(u) ==
    /\ review[u] # Idle /\ review[u].stage = "listed"
    /\ review' = [review EXCEPT ![u] = [@ EXCEPT !.stage = "read", !.saw = account[u]]]
    /\ UNCHANGED <<account, member, linked, seatLimit, request, jobs, runner>>

\* UPDATE ... WHERE id = :id AND status = :status.
ReviewWrite(u) ==
    /\ review[u] # Idle /\ review[u].stage = "read"
    /\ LET matches == member[u] = review[u].status
           keep == review[u].saw = "live"
       IN
        /\ member' = [member EXCEPT ![u] = IF ~matches THEN @ ELSE IF keep THEN "ACTIVE" ELSE "ARCHIVED"]
        /\ linked' = IF matches /\ keep THEN linked \cup {u} ELSE linked
    /\ review' = [review EXCEPT ![u] = Idle]
    /\ UNCHANGED <<account, seatLimit, request, jobs, runner>>

SetSeatLimit(n) ==
    /\ n # seatLimit /\ n >= Cardinality(Seated)
    /\ seatLimit' = n
    /\ UNCHANGED <<account, member, linked, request, jobs, runner, review>>

-----------------------------------------------------------------------------
RequestStep(r) ==
    \/ \E kind \in {"create", "archive", "restore"}, u \in User : Begin(r, kind, u)
    \/ Reserve(r)
    \/ Commit(r)
    \/ CommitReportedFailed(r)
    \/ Rollback(r)
    \/ ActivateHook(r)
    \/ ArchiveHook(r)
    \/ UndoHook(r)
    \/ RequestCrash(r)

Sync(x) ==
    \/ \E u \in User, k \in JobKind : SyncTake(x, u, k)
    \/ SyncApply(x)
    \/ SyncConflict(x)
    \/ SyncOutage(x)

Operator ==
    \/ \E u \in User : ReviewList(u) \/ ReviewRead(u) \/ ReviewWrite(u)
    \/ \E n \in 0..MaxSeats : SetSeatLimit(n)

Next ==
    \/ \E r \in Request : RequestStep(r)
    \/ \E x \in Runner : Sync(x)
    \/ Operator

Spec == Init /\ [][Next]_vars

\* What a request does once it has begun, the faults excepted.
RequestProgress(r) ==
    \/ Reserve(r)
    \/ Commit(r)
    \/ Rollback(r)
    \/ ActivateHook(r)
    \/ ArchiveHook(r)
    \/ UndoHook(r)

\* Requests end; the job sweep keeps running and outages are not permanent; a
\* reconciliation that has begun goes on.  Nothing begins one: it is an endpoint
\* for the operator that no schedule calls.
Fairness ==
    /\ \A r \in Request : WF_vars(RequestProgress(r))
    /\ \A x \in Runner :
        /\ \A u \in User, k \in JobKind : SF_vars(SyncTake(x, u, k))
        /\ SF_vars(SyncApply(x))
        /\ WF_vars(SyncApply(x) \/ SyncConflict(x))
    /\ \A u \in User : WF_vars(ReviewRead(u) \/ ReviewWrite(u))

FairSpec == Spec /\ Fairness

-----------------------------------------------------------------------------
(***************************************************************************)
(* Properties.                                                             *)
(***************************************************************************)

\* However requests, jobs and reconciliations of the same tenant interleave
\* and fail, reserved and active memberships together never exceed the limit
\* the tenant pays for (docs/saas.md: parallel requests do not exceed it).
SeatsWithinLimit == Cardinality(Seated) <= seatLimit

\* Access is never granted for an account that was rolled back: no crash,
\* release or late hook leaves an active membership without an account.
NoMemberWithoutAccount ==
    \A u \in User : member[u] = "ACTIVE" => account[u] # "absent"

\* Nothing that concerns the account is in progress or pending.
AtRest(u) ==
    /\ ~Requesting(u) /\ ~Synchronizing(u) /\ ~Reviewing(u)
    /\ \A k \in JobKind : jobs[u][k] = 0

\* When work on an account does not overlap, the two databases agree at rest,
\* whichever hook was lost to a crash or a platform outage in between.
AgreeAtRest ==
    \A u \in User : AtRest(u) =>
        /\ account[u] = "live" => member[u] = "ACTIVE"
        /\ account[u] = "archived" => member[u] # "ACTIVE"

\* An unfinished activation reserves a seat temporarily (docs/saas.md): whatever
\* became of the request, the seat is taken or given back in the end.
ReservationEnds ==
    \A u \in User : member[u] = "RESERVED" ~> member[u] # "RESERVED"

\* Live accounts occupy seats (docs/saas.md), once nothing is in progress.
LiveAccountHoldsSeat ==
    \A u \in User : AtRest(u) /\ account[u] = "live" => u \in Seated

=============================================================================
