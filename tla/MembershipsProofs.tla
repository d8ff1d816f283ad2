------------------------- MODULE MembershipsProofs -------------------------
(***************************************************************************)
(* What Memberships guarantees for every tenant: any finite set of         *)
(* accounts, any number of concurrent requests and replicas, any seat      *)
(* limit and either kind of fault; and, without those faults, that the two *)
(* databases agree about an account at rest.                               *)
(***************************************************************************)
EXTENDS Memberships, FiniteSetTheorems, TLAPS

\* Whoever is about to grant access has evidence of the account: the request
\* whose transaction committed, the job and the operator by what they read.
Evidence ==
    /\ NoMemberWithoutAccount
    /\ \A r \in Request :
        /\ request[r].stage = "hook" => account[request[r].user] # "absent"
        /\ request[r] # Idle => request[r].previous # "ACTIVE"
    /\ \A x \in Runner :
        runner[x] # Idle /\ runner[x].saw = "live" => account[runner[x].user] # "absent"
    /\ \A u \in User :
        review[u] # Idle /\ review[u].saw = "live" => account[u] # "absent"

IInv == TypeOK /\ Evidence /\ SeatsWithinLimit

-----------------------------------------------------------------------------
\* Everything keeps its type.
LEMMA TypeStep == TypeOK /\ [Next]_vars => TypeOK'
<1> SUFFICES ASSUME TypeOK, [Next]_vars PROVE TypeOK'
    OBVIOUS
<1> USE MembershipAssumption DEF TypeOK
<1>0. CASE UNCHANGED vars
    BY <1>0 DEF vars
<1>1. ASSUME NEW r \in Request, NEW kind \in {"create", "archive", "restore"}, NEW u \in User,
             Begin(r, kind, u)
      PROVE  TypeOK'
    BY <1>1 DEF Begin, RequestState, Status
<1>2. ASSUME NEW r \in Request, Reserve(r) PROVE TypeOK'
    <2>1. request[r] \in RequestState /\ request[r].user \in User
        BY <1>2 DEF Reserve, RequestState
    <2>2. request' \in [Request -> RequestState \cup {Idle}]
        BY <1>2, <2>1 DEF Reserve, RequestState
    <2>3. member' \in [User -> Status] /\ linked' \subseteq User
        BY <1>2, <2>1 DEF Reserve, Status
    <2> QED
        BY <1>2, <2>2, <2>3 DEF Reserve
<1>3. ASSUME NEW r \in Request, CommitData(r), request[r] # Idle
      PROVE  /\ account' \in [User -> Account]
             /\ jobs' \in [User -> [JobKind -> 0..MaxJobs]]
    <2>1. request[r] \in RequestState
        BY <1>3
    <2>2. AccountAfter[request[r].kind] \in Account /\ JobOf(request[r].kind) \in JobKind
        BY <2>1 DEF RequestState, AccountAfter, Account, JobOf, JobKind
    <2> QED
        BY <1>3, <2>1, <2>2 DEF CommitData, RequestState
<1>4. ASSUME NEW r \in Request, Commit(r) PROVE TypeOK'
    <2>1. request[r] \in RequestState /\ CommitData(r)
        BY <1>4 DEF Commit
    <2>2. request' \in [Request -> RequestState \cup {Idle}]
        BY <1>4, <2>1 DEF Commit, RequestState
    <2>3. account' \in [User -> Account] /\ jobs' \in [User -> [JobKind -> 0..MaxJobs]]
        BY <1>3, <1>4, <2>1 DEF Commit
    <2> QED
        BY <1>4, <2>2, <2>3 DEF Commit
<1>5. ASSUME NEW r \in Request, CommitReportedFailed(r) PROVE TypeOK'
    <2>1. request[r] \in RequestState /\ CommitData(r)
        BY <1>5 DEF CommitReportedFailed
    <2>2. [request[r] EXCEPT !.stage = "undo"] \in RequestState
        BY <2>1 DEF RequestState
    <2>3. request' \in [Request -> RequestState \cup {Idle}]
        BY <1>5, <2>2 DEF CommitReportedFailed
    <2>4. account' \in [User -> Account] /\ jobs' \in [User -> [JobKind -> 0..MaxJobs]]
        BY <1>3, <1>5, <2>1 DEF CommitReportedFailed
    <2> QED
        BY <1>5, <2>3, <2>4 DEF CommitReportedFailed
<1>6. ASSUME NEW r \in Request, Rollback(r) PROVE TypeOK'
    BY <1>6 DEF Rollback, RequestState
<1>7. ASSUME NEW r \in Request, ActivateHook(r) \/ ArchiveHook(r) PROVE TypeOK'
    <2>1. request[r].user \in User
        BY <1>7 DEF ActivateHook, ArchiveHook, RequestState
    <2>2. CASE ActivateHook(r)
        BY <2>1, <2>2 DEF ActivateHook, Status
    <2>3. CASE ArchiveHook(r)
        BY <2>1, <2>3 DEF ArchiveHook, Status
    <2> QED
        BY <1>7, <2>2, <2>3
<1>8. ASSUME NEW r \in Request, UndoHook(r) PROVE TypeOK'
    <2>1. request[r] \in RequestState
        BY <1>8 DEF UndoHook
    <2> DEFINE u == request[r].user
               moved == [k \in JobKind |->
                    CASE k = "member" -> 0
                      [] k = "lost" -> IF jobs[u]["lost"] + jobs[u]["member"] > MaxJobs
                                       THEN MaxJobs ELSE jobs[u]["lost"] + jobs[u]["member"]
                      [] OTHER -> jobs[u][k]]
    <2>2. moved \in [JobKind -> 0..MaxJobs]
        BY <2>1 DEF RequestState, JobKind
    <2>3. Orphaned(u) \in [User -> [JobKind -> 0..MaxJobs]]
        BY <2>1, <2>2 DEF RequestState, Orphaned
    <2>4. jobs' \in [User -> [JobKind -> 0..MaxJobs]]
        BY <1>8, <2>3 DEF UndoHook
    <2>5. runner' \in [Runner -> RunnerState \cup {Idle}]
        BY <1>8 DEF UndoHook, RunnerState, JobKind
    <2> QED
        BY <1>8, <2>1, <2>4, <2>5 DEF UndoHook, RequestState, Status
<1>9. ASSUME NEW r \in Request, RequestCrash(r) PROVE TypeOK'
    BY <1>9 DEF RequestCrash
<1>10. ASSUME NEW x \in Runner, NEW u \in User, NEW k \in JobKind, SyncTake(x, u, k) PROVE TypeOK'
    BY <1>10 DEF SyncTake, RunnerState
<1>11. ASSUME NEW x \in Runner, runner[x] # Idle
       PROVE  Requeued(x) \in [User -> [JobKind -> 0..MaxJobs]]
    BY <1>11 DEF Requeued, RunnerState
<1>12. ASSUME NEW x \in Runner, SyncApply(x) \/ SyncConflict(x) \/ SyncOutage(x) PROVE TypeOK'
    <2>1. jobs' \in [User -> [JobKind -> 0..MaxJobs]]
        BY <1>11, <1>12 DEF SyncApply, SyncConflict, SyncOutage
    <2>2. member' \in [User -> Status] /\ linked' \subseteq User
        BY <1>12 DEF SyncApply, SyncConflict, SyncOutage, RunnerState, Status
    <2> QED
        BY <1>12, <2>1, <2>2 DEF SyncApply, SyncConflict, SyncOutage
<1>13. ASSUME NEW u \in User, ReviewList(u) \/ ReviewRead(u) PROVE TypeOK'
    <2>1. CASE ReviewList(u)
        BY <2>1 DEF ReviewList, ReviewState, Account
    <2>2. CASE ReviewRead(u)
        <3>1. review[u] \in ReviewState
            BY <2>2 DEF ReviewRead
        <3>2. review' \in [User -> ReviewState \cup {Idle}]
            BY <2>2, <3>1 DEF ReviewRead, ReviewState
        <3> QED
            BY <2>2, <3>2 DEF ReviewRead
    <2> QED
        BY <1>13, <2>1, <2>2
<1>14. ASSUME NEW u \in User, ReviewWrite(u) PROVE TypeOK'
    BY <1>14 DEF ReviewWrite, Status
<1>15. ASSUME NEW n \in 0..MaxSeats, SetSeatLimit(n) PROVE TypeOK'
    BY <1>15 DEF SetSeatLimit
<1> HIDE DEF TypeOK
<1>16. ASSUME NEW r \in Request, RequestStep(r) PROVE TypeOK'
    BY <1>1, <1>2, <1>4, <1>5, <1>6, <1>7, <1>8, <1>9, <1>16 DEF RequestStep
<1>17. ASSUME NEW x \in Runner, Sync(x) PROVE TypeOK'
    BY <1>10, <1>12, <1>17 DEF Sync
<1>18. ASSUME Operator PROVE TypeOK'
    BY <1>13, <1>14, <1>15, <1>18 DEF Operator
<1> QED
    BY <1>0, <1>16, <1>17, <1>18 DEF Next

\* Each grant of access rests on evidence, and every step preserves it.
LEMMA EvidenceStep == TypeOK /\ Evidence /\ [Next]_vars => Evidence'
<1> SUFFICES ASSUME TypeOK, Evidence, [Next]_vars PROVE Evidence'
    OBVIOUS
<1> USE DEF Evidence, NoMemberWithoutAccount
<1>a. \A r \in Request : request[r] # Idle => request[r] \in RequestState /\ request[r].user \in User
    BY DEF TypeOK, RequestState
<1>b. \A x \in Runner : runner[x] # Idle => runner[x] \in RunnerState /\ runner[x].user \in User
    BY DEF TypeOK, RunnerState
<1>c. Idle.stage = "idle"
    BY DEF Idle
<1>0. CASE UNCHANGED vars
    BY <1>0 DEF vars
<1>1. ASSUME NEW r \in Request, NEW kind \in {"create", "archive", "restore"}, NEW u \in User,
             Begin(r, kind, u)
      PROVE  Evidence'
    BY <1>1, <1>c DEF Begin, TypeOK
<1>2. ASSUME NEW r \in Request, Reserve(r) PROVE Evidence'
    BY <1>2, <1>a DEF Reserve, TypeOK, RequestState
<1>3. ASSUME NEW r \in Request, request[r] # Idle, CommitData(r)
      PROVE  /\ \A u \in User : account[u] # "absent" => account'[u] # "absent"
             /\ account'[request[r].user] # "absent"
    <2>1. AccountAfter[request[r].kind] # "absent"
        BY <1>3, <1>a DEF AccountAfter, RequestState
    <2> QED
        BY <1>3, <1>a, <2>1 DEF CommitData, TypeOK
<1>4. ASSUME NEW r \in Request, Commit(r) PROVE Evidence'
    <2>1. \A u \in User : account[u] # "absent" => account'[u] # "absent"
        BY <1>3, <1>4 DEF Commit
    <2>2. account'[request[r].user] # "absent"
        BY <1>3, <1>4 DEF Commit
    <2>3. \A q \in Request :
            /\ request'[q].stage = "hook" => account'[request'[q].user] # "absent"
            /\ request'[q] # Idle => request'[q].previous # "ACTIVE"
        BY <1>4, <1>a, <1>c, <2>1, <2>2 DEF Commit, TypeOK, RequestState
    <2> QED
        BY <1>4, <1>b, <2>1, <2>3 DEF Commit
<1>5. ASSUME NEW r \in Request, CommitReportedFailed(r) PROVE Evidence'
    <2>1. \A u \in User : account[u] # "absent" => account'[u] # "absent"
        BY <1>3, <1>5 DEF CommitReportedFailed
    <2>2. request[r] # Idle /\ request[r] \in RequestState
        BY <1>5, <1>a DEF CommitReportedFailed
    <2>3. \/ request'[r] = Idle
          \/ request'[r].stage = "undo" /\ request'[r].previous = request[r].previous
        BY <1>5, <2>2 DEF CommitReportedFailed, TypeOK, RequestState
    <2>4. \A q \in Request \ {r} : request'[q] = request[q]
        BY <1>5 DEF CommitReportedFailed, TypeOK
    <2>5. \A q \in Request :
            /\ request'[q].stage = "hook" => account'[request'[q].user] # "absent"
            /\ request'[q] # Idle => request'[q].previous # "ACTIVE"
        BY <1>a, <1>c, <2>1, <2>2, <2>3, <2>4
    <2> QED
        BY <1>5, <1>b, <2>1, <2>5 DEF CommitReportedFailed
<1>6. ASSUME NEW r \in Request, Rollback(r) PROVE Evidence'
    BY <1>6, <1>a, <1>c DEF Rollback, TypeOK, RequestState
<1>7. ASSUME NEW r \in Request, ActivateHook(r) \/ ArchiveHook(r) PROVE Evidence'
    <2>1. CASE ActivateHook(r)
        BY <2>1, <1>a, <1>c DEF ActivateHook, TypeOK
    <2>2. CASE ArchiveHook(r)
        BY <2>2, <1>a, <1>c DEF ArchiveHook, TypeOK
    <2> QED
        BY <1>7, <2>1, <2>2
<1>8. ASSUME NEW r \in Request, UndoHook(r) PROVE Evidence'
    BY <1>8, <1>a, <1>b, <1>c DEF UndoHook, TypeOK, RequestState, RunnerState
<1>9. ASSUME NEW r \in Request, RequestCrash(r) PROVE Evidence'
    BY <1>9, <1>c DEF RequestCrash, TypeOK
<1>10. ASSUME NEW x \in Runner, NEW u \in User, NEW k \in JobKind, SyncTake(x, u, k)
       PROVE  Evidence'
    BY <1>10 DEF SyncTake, TypeOK
<1>11. ASSUME NEW x \in Runner, SyncApply(x) PROVE Evidence'
    BY <1>11, <1>b DEF SyncApply, TypeOK
<1>12. ASSUME NEW x \in Runner, SyncConflict(x) \/ SyncOutage(x) PROVE Evidence'
    BY <1>12 DEF SyncConflict, SyncOutage, TypeOK
<1>13. ASSUME NEW u \in User, ReviewList(u) \/ ReviewRead(u) PROVE Evidence'
    <2>1. CASE ReviewList(u)
        BY <2>1 DEF ReviewList, TypeOK
    <2>2. CASE ReviewRead(u)
        <3>1. review[u] \in ReviewState
            BY <2>2 DEF ReviewRead, TypeOK
        <3>2. review'[u].saw = account[u] /\ \A v \in User \ {u} : review'[v] = review[v]
            BY <2>2, <3>1 DEF ReviewRead, TypeOK, ReviewState
        <3> QED
            BY <2>2, <3>2 DEF ReviewRead
    <2> QED
        BY <1>13, <2>1, <2>2
<1>14. ASSUME NEW u \in User, ReviewWrite(u) PROVE Evidence'
    BY <1>14 DEF ReviewWrite, TypeOK
<1>15. ASSUME NEW n \in 0..MaxSeats, SetSeatLimit(n) PROVE Evidence'
    BY <1>15 DEF SetSeatLimit
<1> HIDE DEF Evidence
<1>16. ASSUME NEW r \in Request, RequestStep(r) PROVE Evidence'
    BY <1>1, <1>2, <1>4, <1>5, <1>6, <1>7, <1>8, <1>9, <1>16 DEF RequestStep
<1>17. ASSUME NEW x \in Runner, Sync(x) PROVE Evidence'
    BY <1>10, <1>11, <1>12, <1>17 DEF Sync
<1>18. ASSUME Operator PROVE Evidence'
    BY <1>13, <1>14, <1>15, <1>18 DEF Operator
<1> QED
    BY <1>0, <1>16, <1>17, <1>18 DEF Next

-----------------------------------------------------------------------------
\* Giving up seats keeps within a limit.
LEMMA NoMoreSeats ==
    ASSUME NEW S, NEW T, NEW n \in Nat, IsFiniteSet(S), T \subseteq S, Cardinality(S) <= n
    PROVE  Cardinality(T) <= n
BY FS_Subset, FS_CardinalityType

\* One more seat keeps within a limit that is not reached.
LEMMA OneMoreSeat ==
    ASSUME NEW S, NEW T, NEW u, NEW n \in Nat,
           IsFiniteSet(S), T \subseteq S \cup {u}, Cardinality(S) < n
    PROVE  Cardinality(T) <= n
<1>1. /\ IsFiniteSet(S \cup {u})
      /\ Cardinality(S \cup {u}) \in {Cardinality(S), Cardinality(S) + 1}
    BY FS_AddElement
<1>2. Cardinality(S) \in Nat
    BY FS_CardinalityType
<1>3. Cardinality(S \cup {u}) <= n
    BY <1>1, <1>2
<1> QED
    BY <1>1, <1>3, NoMoreSeats

\* The only steps that take a seat look at the limit under the tenant lock;
\* every other step keeps or gives up seats.
LEMMA SeatStep == TypeOK /\ Evidence /\ SeatsWithinLimit /\ [Next]_vars => SeatsWithinLimit'
<1> SUFFICES ASSUME TypeOK, Evidence, SeatsWithinLimit, [Next]_vars PROVE SeatsWithinLimit'
    OBVIOUS
<1>a. IsFiniteSet(Seated) /\ seatLimit \in Nat
    BY MembershipAssumption, FS_Subset DEF Seated, TypeOK
<1>b. ASSUME Seated' \subseteq Seated, UNCHANGED seatLimit PROVE SeatsWithinLimit'
    BY <1>a, <1>b, NoMoreSeats DEF SeatsWithinLimit
<1>c. ASSUME NEW u \in User, Seated' \subseteq Seated \cup {u}, SeatFree, UNCHANGED seatLimit
      PROVE  SeatsWithinLimit'
    BY <1>a, <1>c, OneMoreSeat DEF SeatsWithinLimit, SeatFree
<1>d. ASSUME UNCHANGED <<member, seatLimit>> PROVE SeatsWithinLimit'
    BY <1>b, <1>d DEF Seated
<1>1. ASSUME NEW r \in Request, Reserve(r) PROVE SeatsWithinLimit'
    <2>1. request[r].user \in User
        BY <1>1 DEF Reserve, TypeOK, RequestState
    <2>2. Seated' \subseteq Seated \cup {request[r].user}
        BY <1>1, <2>1 DEF Reserve, Seated, TypeOK
    <2> QED
        BY <1>1, <1>c, <2>1, <2>2 DEF Reserve
<1>2. ASSUME NEW r \in Request, ActivateHook(r) PROVE SeatsWithinLimit'
    <2>1. Seated' \subseteq Seated
        BY <1>2 DEF ActivateHook, Seated, TypeOK, RequestState
    <2> QED
        BY <1>2, <1>b, <2>1 DEF ActivateHook
<1>3. ASSUME NEW r \in Request, ArchiveHook(r) PROVE SeatsWithinLimit'
    <2>1. Seated' \subseteq Seated
        BY <1>3 DEF ArchiveHook, Seated, TypeOK
    <2> QED
        BY <1>3, <1>b, <2>1 DEF ArchiveHook
<1>4. ASSUME NEW r \in Request, UndoHook(r) PROVE SeatsWithinLimit'
    <2>1. Seated' \subseteq Seated
        BY <1>4 DEF UndoHook, Seated, TypeOK
    <2> QED
        BY <1>4, <1>b, <2>1 DEF UndoHook
<1>5. ASSUME NEW x \in Runner, SyncApply(x) PROVE SeatsWithinLimit'
    <2> DEFINE u == runner[x].user
    <2>1. u \in User
        BY <1>5 DEF SyncApply, TypeOK, RunnerState
    <2>2. Seated' \subseteq Seated \cup {u}
        BY <1>5, <2>1 DEF SyncApply, Seated, TypeOK
    <2>3. CASE runner[x].saw = "live" /\ member[u] = "ARCHIVED"
        BY <1>5, <1>c, <2>1, <2>2, <2>3 DEF SyncApply, SyncPossible
    <2>4. CASE ~(runner[x].saw = "live" /\ member[u] = "ARCHIVED")
        <3>1. member[u] \in {"RESERVED", "ACTIVE"} \/ runner[x].saw # "live"
            BY <1>5, <2>1, <2>4 DEF SyncApply, SyncPossible, TypeOK, Status
        <3>2. Seated' \subseteq Seated
            BY <1>5, <2>1, <3>1 DEF SyncApply, Seated, TypeOK
        <3> QED
            BY <1>5, <1>b, <3>2 DEF SyncApply
    <2> QED
        BY <2>3, <2>4
<1>6. ASSUME NEW u \in User, ReviewWrite(u) PROVE SeatsWithinLimit'
    <2>1. review[u].status \in {"RESERVED", "ACTIVE"}
        BY <1>6 DEF ReviewWrite, TypeOK, ReviewState
    <2>2. Seated' \subseteq Seated
        BY <1>6, <2>1 DEF ReviewWrite, Seated, TypeOK
    <2> QED
        BY <1>6, <1>b, <2>2 DEF ReviewWrite
<1>7. ASSUME NEW n \in 0..MaxSeats, SetSeatLimit(n) PROVE SeatsWithinLimit'
    BY <1>7 DEF SetSeatLimit, SeatsWithinLimit, Seated
<1>8. ASSUME NEW r \in Request, RequestStep(r) PROVE SeatsWithinLimit'
    BY <1>1, <1>2, <1>3, <1>4, <1>8, <1>d
       DEF RequestStep, Begin, Commit, CommitReportedFailed, Rollback, RequestCrash
<1>9. ASSUME NEW x \in Runner, Sync(x) PROVE SeatsWithinLimit'
    BY <1>5, <1>9, <1>d DEF Sync, SyncTake, SyncConflict, SyncOutage
<1>10. ASSUME Operator PROVE SeatsWithinLimit'
    BY <1>6, <1>7, <1>10, <1>d DEF Operator, ReviewList, ReviewRead
<1>11. CASE UNCHANGED vars
    BY <1>11, <1>d DEF vars
<1> QED
    BY <1>8, <1>9, <1>10, <1>11 DEF Next

-----------------------------------------------------------------------------
\* IInv holds in every reachable state of Memberships.
THEOREM Invariance == Spec => []IInv
<1>1. Init => IInv
    <2> SUFFICES ASSUME Init PROVE IInv
        OBVIOUS
    <2>1. TypeOK
        BY MembershipAssumption DEF Init, TypeOK, Account, Status, JobKind
    <2>2. Evidence
        BY DEF Init, Evidence, NoMemberWithoutAccount, Idle
    <2>3. Seated = {} /\ seatLimit \in Nat
        BY MembershipAssumption DEF Init, Seated
    <2>4. SeatsWithinLimit
        BY <2>3, FS_EmptySet DEF SeatsWithinLimit
    <2> QED
        BY <2>1, <2>2, <2>4 DEF IInv
<1>2. IInv /\ [Next]_vars => IInv'
    BY TypeStep, EvidenceStep, SeatStep DEF IInv
<1> QED
    BY <1>1, <1>2, PTL DEF Spec

\* Every variable keeps its type, the stages of requests, jobs and reviews included.
THEOREM TypeCorrect == Spec => []TypeOK
BY Invariance, PTL DEF IInv

\* No interleaving of requests, jobs, hooks and operators, and no crash,
\* lost hook or ambiguous commit, takes more seats than the tenant pays for.
THEOREM SeatsNeverExceeded == Spec => []SeatsWithinLimit
BY Invariance, PTL DEF IInv

\* An account that was never committed is never granted access.
THEOREM AccessNeedsAccount == Spec => []NoMemberWithoutAccount
<1>1. IInv => NoMemberWithoutAccount
    BY DEF IInv, Evidence
<1> QED
    BY <1>1, Invariance, PTL

-----------------------------------------------------------------------------
(***************************************************************************)
(* AgreeAtRest says nothing of an account somebody works on.  Calm does:   *)
(* whatever a request has left undone on the platform is promised by a     *)
(* job, the job that is executed included; and who works on an account,    *)
(* alone, knows it.                                                        *)
(***************************************************************************)

\* A job of that kind waits, or is executed.
HasJob(u, k) == jobs[u][k] > 0 \/ \E x \in Runner : runner[x] # Idle /\ runner[x].user = u /\ runner[x].kind = k

\* What the platform has not heard of yet, a job will tell it.
Promised(u) ==
    /\ account[u] = "live" /\ member[u] # "ACTIVE" => member[u] = "RESERVED" /\ HasJob(u, "member")
    /\ account[u] = "archived" /\ member[u] = "ACTIVE" => HasJob(u, "user")
    /\ member[u] = "ACTIVE" => u \in linked

\* A request knows the account, and holds the seat it has reserved.
RequestFits(r, u) ==
    /\ request[r].stage = "hook" => account[u] = AccountAfter[request[r].kind]
    /\ request[r].stage # "hook" => account[u] = AccountBefore[request[r].kind]
    /\ request[r].stage \in {"open", "undo"} => request[r].kind # "archive"
    /\ request[r].stage = "ready" /\ request[r].kind # "archive" => member[u] = "RESERVED"

\* Work on an account is alone with it, and what it read there is true.
Serial(u) ==
    /\ \A r \in Request : request[r] # Idle /\ request[r].user = u =>
        /\ RequestFits(r, u) /\ ~Synchronizing(u) /\ ~Reviewing(u)
        /\ \A q \in Request : request[q] # Idle /\ request[q].user = u => q = r
    /\ \A x \in Runner : runner[x] # Idle /\ runner[x].user = u =>
        /\ runner[x].saw = account[u] /\ jobs[u][runner[x].kind] < MaxJobs /\ ~Reviewing(u)
        /\ \A y \in Runner : runner[y] # Idle /\ runner[y].user = u => y = x
    /\ Reviewing(u) /\ review[u].stage = "read" => review[u].saw = account[u]

Calm == \A u \in User : Promised(u) /\ Serial(u)

-----------------------------------------------------------------------------
\* A step leaves the accounts alone that it does not touch.
Untouched(v) ==
    /\ account'[v] = account[v] /\ member'[v] = member[v] /\ (v \in linked' <=> v \in linked)
    /\ jobs'[v] = jobs[v] /\ review'[v] = review[v]
    /\ \A r \in Request : \/ request'[r] = request[r]
                          \/ /\ request[r] = Idle \/ request[r].user # v
                             /\ request'[r] = Idle \/ request'[r].user # v
    /\ \A x \in Runner : \/ runner'[x] = runner[x]
                         \/ /\ runner[x] = Idle \/ runner[x].user # v
                            /\ runner'[x] = Idle \/ runner'[x].user # v

\* What holds of such an account goes on to hold.
LEMMA OthersStay ==
    ASSUME NEW v \in User, Promised(v), Serial(v), Untouched(v)
    PROVE  Promised(v)' /\ Serial(v)'
<1>1. /\ \A r \in Request : request'[r] # Idle /\ request'[r].user = v <=> request[r] # Idle /\ request[r].user = v
      /\ \A r \in Request : request[r] # Idle /\ request[r].user = v => request'[r] = request[r]
      /\ \A x \in Runner : runner'[x] # Idle /\ runner'[x].user = v <=> runner[x] # Idle /\ runner[x].user = v
      /\ \A x \in Runner : runner[x] # Idle /\ runner[x].user = v => runner'[x] = runner[x]
    BY DEF Untouched
<1>2. \A k : HasJob(v, k) <=> HasJob(v, k)'
    BY <1>1 DEF HasJob, Untouched
<1>3. Promised(v)'
    BY <1>2 DEF Promised, Untouched
<1>4. /\ Synchronizing(v) <=> Synchronizing(v)'
      /\ Reviewing(v) <=> Reviewing(v)'
    BY <1>1 DEF Synchronizing, Reviewing, Untouched
<1>5. \A r \in Request : request[r] # Idle /\ request[r].user = v /\ RequestFits(r, v) => RequestFits(r, v)'
    BY <1>1 DEF RequestFits, Untouched, AccountAfter, AccountBefore
<1>6. Serial(v)'
    BY <1>1, <1>4, <1>5 DEF Serial, Untouched
<1> QED
    BY <1>3, <1>6

\* A request that has its account to itself goes on or ends.
LEMMA RequestMoves ==
    ASSUME NEW u \in User, Calm, NEW r \in Request, request[r] # Idle, request[r].user = u,
           \A v \in User \ {u} : Untouched(v),
           \A q \in Request \ {r} : request'[q] = request[q],
           \A x \in Runner : runner'[x] = runner[x], review' = review,
           request'[r] = Idle \/ (request'[r].user = u /\ RequestFits(r, u)'),
           account'[u] = "live" /\ member'[u] # "ACTIVE" => member'[u] = "RESERVED" /\ jobs'[u]["member"] > 0,
           account'[u] = "archived" /\ member'[u] = "ACTIVE" => jobs'[u]["user"] > 0,
           member'[u] = "ACTIVE" => u \in linked'
    PROVE  Calm'
<1>1. /\ \A x \in Runner : runner'[x] # Idle => runner'[x].user # u
      /\ ~Reviewing(u)' /\ \A q \in Request \ {r} : request'[q] # Idle => request'[q].user # u
    BY DEF Calm, Serial, Synchronizing, Reviewing
<1>2. Promised(u)'
    BY DEF Promised, HasJob
<1>3. Serial(u)'
    BY <1>1 DEF Serial, Synchronizing, Reviewing
<1>4. \A v \in User \ {u} : Promised(v)' /\ Serial(v)'
    BY OthersStay DEF Calm
<1> QED
    BY <1>2, <1>3, <1>4 DEF Calm

-----------------------------------------------------------------------------
\* Requests keep to the order that Calm describes.
LEMMA RequestsCalm ==
    ASSUME TypeOK, Evidence, Calm, Faults = {}, NEW r \in Request, RequestStep(r)
    PROVE  Calm'
<1>a. request[r] # Idle => request[r] \in RequestState /\ request[r].user \in User
    BY DEF TypeOK, RequestState
<1>b. Idle.stage = "idle"
    BY DEF Idle
<1>c. request[r] # Idle => /\ RequestFits(r, request[r].user) /\ Promised(request[r].user)
                           /\ \A x \in Runner : runner[x] # Idle => runner[x].user # request[r].user
    BY <1>a DEF Calm, Serial, Synchronizing
<1>1. ASSUME NEW kind \in {"create", "archive", "restore"}, NEW u \in User, Begin(r, kind, u) PROVE Calm'
    <2>1. /\ UNCHANGED <<account, member, linked, jobs, runner, review>>
          /\ request[r] = Idle /\ \A q \in Request \ {r} : request'[q] = request[q]
          /\ ~Requesting(u) /\ ~Synchronizing(u) /\ ~Reviewing(u) /\ account[u] = AccountBefore[kind]
        BY <1>1 DEF Begin, MayStart, TypeOK
    <2>2. /\ request'[r].user = u /\ request'[r].kind = kind /\ request'[r] # Idle
          /\ request'[r].stage = IF kind = "archive" THEN "ready" ELSE "open"
        BY <1>1, <1>b DEF Begin, TypeOK
    <2>3. \A v \in User \ {u} : Untouched(v)
        BY <2>1, <2>2 DEF Untouched
    <2>4. RequestFits(r, u)'
        BY <2>1, <2>2 DEF RequestFits, AccountBefore
    <2>5. Promised(u)'
        <3>1. Promised(u)
            BY DEF Calm
        <3> QED
            BY <2>1, <3>1 DEF Promised, HasJob
    <2>6. Serial(u)'
        BY <2>1, <2>2, <2>4 DEF Serial, Requesting, Synchronizing, Reviewing
    <2> QED
        BY <2>3, <2>5, <2>6, OthersStay DEF Calm
<1>2. ASSUME Reserve(r) PROVE Calm'
    <2>1. PICK u \in User : u = request[r].user /\ request[r] # Idle /\ request[r] \in RequestState
        BY <1>2, <1>a DEF Reserve
    <2>2. /\ UNCHANGED <<account, jobs, runner, review>>
          /\ \A q \in Request \ {r} : request'[q] = request[q]
          /\ member'[u] = "RESERVED" /\ \A v \in User \ {u} : member'[v] = member[v] /\ (v \in linked' <=> v \in linked)
          /\ member[u] \in {"none", "ARCHIVED"} /\ request[r].stage = "open"
        BY <1>2, <2>1 DEF Reserve, TypeOK
    <2>3. request'[r].user = u /\ request'[r].kind = request[r].kind /\ request'[r].stage = "ready"
        BY <1>2, <2>1 DEF Reserve, TypeOK, RequestState
    <2>4. \A v \in User \ {u} : Untouched(v)
        BY <2>1, <2>2, <2>3 DEF Untouched
    <2>5. account[u] # "live" /\ RequestFits(r, u)'
        BY <1>c, <2>1, <2>2, <2>3 DEF RequestFits, AccountBefore, RequestState
    <2> QED
        BY <2>1, <2>2, <2>3, <2>4, <2>5, RequestMoves
<1>3. ASSUME Commit(r) PROVE Calm'
    <2>1. PICK u \in User : u = request[r].user /\ request[r] # Idle /\ request[r] \in RequestState
        BY <1>3, <1>a DEF Commit
    <2>2. /\ UNCHANGED <<member, linked, runner, review>>
          /\ \A q \in Request \ {r} : request'[q] = request[q]
          /\ request[r].stage = "ready" /\ account'[u] = AccountAfter[request[r].kind]
          /\ \A v \in User \ {u} : account'[v] = account[v] /\ jobs'[v] = jobs[v]
          /\ jobs'[u][JobOf(request[r].kind)] > 0
        <3>1. JobOf(request[r].kind) \in JobKind /\ jobs[u] \in [JobKind -> 0..MaxJobs]
            BY <2>1 DEF JobOf, JobKind, TypeOK
        <3>2. jobs[u][JobOf(request[r].kind)] \in Nat
            BY <3>1, MembershipAssumption
        <3> QED
            BY <1>3, <2>1, <3>1, <3>2 DEF Commit, CommitData, TypeOK
    <2>3. request'[r].user = u /\ request'[r].kind = request[r].kind /\ request'[r].stage = "hook"
        BY <1>3, <2>1 DEF Commit, TypeOK, RequestState
    <2>4. \A v \in User \ {u} : Untouched(v)
        BY <2>1, <2>2, <2>3 DEF Untouched
    <2>5. RequestFits(r, u)'
        BY <2>2, <2>3 DEF RequestFits, AccountAfter
    <2>6. CASE request[r].kind = "archive"
        <3>1. account'[u] = "archived" /\ jobs'[u]["user"] > 0
            BY <2>2, <2>6 DEF AccountAfter, JobOf
        <3>2. member'[u] = "ACTIVE" => u \in linked'
            BY <1>c, <2>1, <2>2 DEF Promised
        <3> QED
            BY <2>1, <2>2, <2>3, <2>4, <2>5, <3>1, <3>2, RequestMoves
    <2>7. CASE request[r].kind \in {"create", "restore"}
        <3>1. account'[u] = "live" /\ jobs'[u]["member"] > 0
            BY <2>2, <2>7 DEF AccountAfter, JobOf
        <3>2. member'[u] = "RESERVED"
            BY <1>c, <2>1, <2>2, <2>7 DEF RequestFits
        <3> QED
            BY <2>1, <2>2, <2>3, <2>4, <2>5, <3>1, <3>2, RequestMoves
    <2> QED
        BY <2>1, <2>6, <2>7 DEF RequestState
<1>4. ASSUME Rollback(r) PROVE Calm'
    <2>1. PICK u \in User : u = request[r].user /\ request[r] # Idle /\ request[r] \in RequestState
        BY <1>4, <1>a DEF Rollback
    <2>2. /\ UNCHANGED <<account, member, linked, jobs, runner, review>>
          /\ \A q \in Request \ {r} : request'[q] = request[q]
          /\ request[r].stage \in {"open", "ready"}
        BY <1>4 DEF Rollback, TypeOK
    <2>3. \/ request'[r] = Idle
          \/ /\ request'[r].user = u /\ request'[r].kind = request[r].kind /\ request'[r].stage = "undo"
             /\ request[r].kind # "archive"
        BY <1>4, <2>1 DEF Rollback, TypeOK, RequestState
    <2>4. \A v \in User \ {u} : Untouched(v)
        BY <2>1, <2>2, <2>3 DEF Untouched
    <2>5. request'[r] = Idle \/ RequestFits(r, u)'
        BY <1>c, <2>1, <2>2, <2>3 DEF RequestFits, AccountBefore
    <2>6. Promised(u) /\ \A x \in Runner : runner[x] # Idle => runner[x].user # u
        BY <1>c, <2>1
    <2> QED
        BY <2>1, <2>2, <2>3, <2>4, <2>5, <2>6, RequestMoves DEF Promised, HasJob
<1>5. ASSUME ActivateHook(r) PROVE Calm'
    <2>1. PICK u \in User : u = request[r].user /\ request[r] # Idle /\ request[r] \in RequestState
        BY <1>5, <1>a DEF ActivateHook
    <2>2. /\ UNCHANGED <<account, jobs, runner, review>>
          /\ \A q \in Request \ {r} : request'[q] = request[q]
          /\ request[r].stage = "hook" /\ request[r].kind # "archive" /\ request'[r] = Idle
          /\ member'[u] = IF member[u] = "RESERVED" THEN "ACTIVE" ELSE member[u]
          /\ linked' = IF member[u] = "RESERVED" THEN linked \cup {u} ELSE linked
          /\ \A v \in User \ {u} : member'[v] = member[v]
        BY <1>5, <2>1 DEF ActivateHook, TypeOK
    <2>3. \A v \in User \ {u} : Untouched(v)
        BY <2>1, <2>2 DEF Untouched
    <2>4. account[u] = "live"
        BY <1>c, <2>1, <2>2 DEF RequestFits, AccountAfter, RequestState
    <2>5. Promised(u)
        BY <1>c, <2>1
    <2> QED
        BY <2>1, <2>2, <2>3, <2>4, <2>5, RequestMoves DEF Promised
<1>6. ASSUME ArchiveHook(r) PROVE Calm'
    <2>1. PICK u \in User : u = request[r].user /\ request[r] # Idle /\ request[r] \in RequestState
        BY <1>6, <1>a DEF ArchiveHook
    <2>2. /\ UNCHANGED <<account, linked, jobs, runner, review>>
          /\ \A q \in Request \ {r} : request'[q] = request[q]
          /\ request[r].stage = "hook" /\ request[r].kind = "archive" /\ request'[r] = Idle
          /\ member'[u] = IF u \in linked THEN "ARCHIVED" ELSE member[u]
          /\ \A v \in User \ {u} : member'[v] = member[v]
        BY <1>6, <2>1 DEF ArchiveHook, TypeOK
    <2>3. \A v \in User \ {u} : Untouched(v)
        BY <2>1, <2>2 DEF Untouched
    <2>4. account[u] = "archived"
        BY <1>c, <2>1, <2>2 DEF RequestFits, AccountAfter
    <2>5. Promised(u)
        BY <1>c, <2>1
    <2> QED
        BY <2>1, <2>2, <2>3, <2>4, <2>5, RequestMoves DEF Promised
<1>7. ASSUME UndoHook(r) PROVE Calm'
    <2>1. PICK u \in User : u = request[r].user /\ request[r] # Idle /\ request[r] \in RequestState
        BY <1>7, <1>a DEF UndoHook
    <2>2. \A x \in Runner : runner[x] # Idle => runner[x].user # u
        BY <1>c, <2>1
    <2>3. /\ UNCHANGED <<account, review>> /\ \A x \in Runner : runner'[x] = runner[x]
          /\ \A q \in Request \ {r} : request'[q] = request[q]
          /\ request[r].stage = "undo" /\ request'[r] = Idle
          /\ member'[u] = IF member[u] = "RESERVED" THEN request[r].previous ELSE member[u]
          /\ \A v \in User \ {u} : /\ member'[v] = member[v] /\ jobs'[v] = jobs[v]
                                   /\ v \in linked' <=> v \in linked
        BY <1>7, <2>1, <2>2 DEF UndoHook, Orphaned, TypeOK
    <2>4. \A v \in User \ {u} : Untouched(v)
        BY <2>1, <2>3 DEF Untouched
    <2>5. account[u] # "live" /\ request[r].previous # "ACTIVE"
        BY <1>c, <2>1, <2>3 DEF RequestFits, AccountBefore, RequestState, Evidence
    <2>6. Promised(u)
        BY <1>c, <2>1
    <2>7. member'[u] = "ACTIVE" => member[u] = "ACTIVE"
        BY <2>3, <2>5
    <2>8. member[u] = "ACTIVE" => /\ u \in linked' <=> u \in linked
                                  /\ jobs' = jobs
        BY <1>7, <2>1 DEF UndoHook
    <2>9. member[u] = "ACTIVE" /\ account[u] = "archived" => jobs[u]["user"] > 0
        BY <2>2, <2>6 DEF Promised, HasJob
    <2> QED
        BY <2>1, <2>3, <2>4, <2>5, <2>6, <2>7, <2>8, <2>9, RequestMoves DEF Promised
<1>8. ASSUME RequestCrash(r) PROVE Calm'
    <2>1. PICK u \in User : u = request[r].user /\ request[r] # Idle /\ request[r] \in RequestState
        BY <1>8, <1>a DEF RequestCrash
    <2>2. /\ UNCHANGED <<account, member, linked, jobs, runner, review>>
          /\ \A q \in Request \ {r} : request'[q] = request[q]
          /\ request'[r] = Idle
        BY <1>8 DEF RequestCrash, TypeOK
    <2>3. \A v \in User \ {u} : Untouched(v)
        BY <2>1, <2>2 DEF Untouched
    <2>4. Promised(u) /\ \A x \in Runner : runner[x] # Idle => runner[x].user # u
        BY <1>c, <2>1
    <2> QED
        BY <2>1, <2>2, <2>3, <2>4, RequestMoves DEF Promised, HasJob
<1>9. ~CommitReportedFailed(r)
    BY DEF CommitReportedFailed
<1> QED
    BY <1>1, <1>2, <1>3, <1>4, <1>5, <1>6, <1>7, <1>8, <1>9 DEF RequestStep

\* A job that had its account to itself ends.
LEMMA SyncEnds ==
    ASSUME NEW u \in User, Calm, NEW x \in Runner, runner[x] # Idle, runner[x].user = u,
           \A v \in User \ {u} : Untouched(v),
           UNCHANGED <<account, request, review>>,
           \A y \in Runner \ {x} : runner'[y] = runner[y], runner'[x] = Idle,
           account[u] = "live" /\ member'[u] # "ACTIVE" => member'[u] = "RESERVED" /\ jobs'[u]["member"] > 0,
           account[u] = "archived" /\ member'[u] = "ACTIVE" => jobs'[u]["user"] > 0,
           member'[u] = "ACTIVE" => u \in linked'
    PROVE  Calm'
<1>1. /\ \A r \in Request : request'[r] # Idle => request'[r].user # u
      /\ ~Reviewing(u)' /\ \A y \in Runner : runner'[y] # Idle => runner'[y].user # u
    BY DEF Calm, Serial, Synchronizing, Reviewing
<1>2. Promised(u)'
    BY DEF Promised, HasJob
<1>3. Serial(u)'
    BY <1>1 DEF Serial, Synchronizing, Reviewing
<1>4. \A v \in User \ {u} : Promised(v)' /\ Serial(v)'
    BY OthersStay DEF Calm
<1> QED
    BY <1>2, <1>3, <1>4 DEF Calm

\* A job finds what Calm promises it, and fails only when another one is left.
LEMMA SyncsCalm ==
    ASSUME TypeOK, Calm, Faults = {}, NEW x \in Runner, Sync(x)
    PROVE  Calm'
<1>a. runner[x] # Idle => runner[x] \in RunnerState /\ runner[x].user \in User
    BY DEF TypeOK, RunnerState
<1>b. Idle.stage = "idle"
    BY DEF Idle
<1>c. runner[x] # Idle => /\ Promised(runner[x].user) /\ runner[x].saw = account[runner[x].user]
                          /\ jobs[runner[x].user][runner[x].kind] < MaxJobs
                          /\ \A y \in Runner : runner[y] # Idle /\ runner[y].user = runner[x].user => y = x
    BY <1>a DEF Calm, Serial
<1>d. \A v \in User, k \in JobKind : jobs[v][k] \in Nat /\ jobs[v][k] <= MaxJobs
    BY MembershipAssumption DEF TypeOK
<1>1. ASSUME NEW u \in User, NEW k \in JobKind, SyncTake(x, u, k) PROVE Calm'
    <2>1. /\ UNCHANGED <<account, member, linked, request, review>>
          /\ runner[x] = Idle /\ \A y \in Runner \ {x} : runner'[y] = runner[y]
          /\ ~Requesting(u) /\ ~Synchronizing(u) /\ ~Reviewing(u) /\ jobs[u][k] > 0
          /\ \A v \in User \ {u} : jobs'[v] = jobs[v]
          /\ \A h \in JobKind : jobs'[u][h] = IF h = k THEN jobs[u][h] - 1 ELSE jobs[u][h]
        BY <1>1 DEF SyncTake, MayStart, TypeOK
    <2>2. runner'[x] # Idle /\ runner'[x].user = u /\ runner'[x].kind = k /\ runner'[x].saw = account[u]
        BY <1>1, <1>b DEF SyncTake, TypeOK
    <2>3. \A v \in User \ {u} : Untouched(v)
        BY <2>1, <2>2 DEF Untouched
    <2>4. \A h \in JobKind : HasJob(u, h) => HasJob(u, h)'
        <3>1. \A y \in Runner : ~(runner[y] # Idle /\ runner[y].user = u)
            BY <2>1 DEF Synchronizing
        <3> QED
            BY <2>1, <2>2, <3>1 DEF HasJob
    <2>5. Promised(u)'
        <3>1. Promised(u)
            BY DEF Calm
        <3> QED
            BY <2>1, <2>4, <3>1 DEF Promised, JobKind
    <2>6. jobs'[u][k] < MaxJobs
        BY <1>d, <2>1, MembershipAssumption
    <2>7. Serial(u)'
        BY <2>1, <2>2, <2>6 DEF Serial, Requesting, Synchronizing, Reviewing
    <2> QED
        BY <2>3, <2>5, <2>7, OthersStay DEF Calm
<1>2. ASSUME SyncApply(x) PROVE Calm'
    <2>1. PICK u \in User : u = runner[x].user /\ runner[x] # Idle /\ runner[x] \in RunnerState
        BY <1>2, <1>a DEF SyncApply
    <2>2. /\ UNCHANGED <<account, request, review>>
          /\ \A y \in Runner \ {x} : runner'[y] = runner[y]
          /\ runner'[x] = Idle /\ linked' = linked \cup {u}
          /\ member'[u] = IF runner[x].saw = "live" THEN "ACTIVE" ELSE "ARCHIVED"
          /\ \A v \in User \ {u} : member'[v] = member[v] /\ jobs'[v] = jobs[v]
        BY <1>2, <2>1 DEF SyncApply, Requeued, TypeOK
    <2>3. \A v \in User \ {u} : Untouched(v)
        BY <2>1, <2>2 DEF Untouched
    <2>4. runner[x].saw = account[u]
        BY <1>c, <2>1
    <2> QED
        BY <2>1, <2>2, <2>3, <2>4, SyncEnds
<1>3. ASSUME SyncConflict(x) PROVE Calm'
    <2>1. PICK u \in User : u = runner[x].user /\ runner[x] # Idle /\ runner[x] \in RunnerState
        BY <1>3, <1>a DEF SyncConflict
    <2>2. /\ UNCHANGED <<account, member, linked, request, review>>
          /\ \A y \in Runner \ {x} : runner'[y] = runner[y]
          /\ runner'[x] = Idle /\ ~SyncPossible(x)
          /\ \A v \in User \ {u} : jobs'[v] = jobs[v]
          /\ \A k \in JobKind : jobs[u][k] > 0 => jobs'[u][k] > 0
        <3>1. PICK h \in JobKind : h = runner[x].kind
            BY <2>1 DEF RunnerState
        <3>2. jobs' = jobs \/ jobs' = Requeued(x)
            BY <1>3 DEF SyncConflict
        <3>3. CASE jobs' = jobs
            BY <1>3, <2>1, <3>3 DEF SyncConflict, TypeOK
        <3>4. CASE jobs' = Requeued(x)
            <4>1. /\ \A v \in User \ {u} : jobs'[v] = jobs[v]
                  /\ \A k \in JobKind : jobs'[u][k] = jobs[u][k] \/ jobs'[u][k] = jobs[u][k] + 1
                BY <2>1, <3>1, <3>4 DEF Requeued, TypeOK
            <4>2. \A k \in JobKind : jobs[u][k] > 0 => jobs'[u][k] > 0
                BY <1>d, <4>1
            <4> QED
                BY <1>3, <4>1, <4>2 DEF SyncConflict, TypeOK
        <3> QED
            BY <3>2, <3>3, <3>4
    <2>3. \A v \in User \ {u} : Untouched(v)
        BY <2>1, <2>2 DEF Untouched
    <2>4. Promised(u) /\ runner[x].saw = account[u]
          /\ \A y \in Runner : runner[y] # Idle /\ runner[y].user = u => y = x
        BY <1>c, <2>1
    <2>5. account[u] = "live" /\ member[u] # "ACTIVE" => member[u] = "RESERVED" /\ jobs'[u]["member"] > 0
        <3> SUFFICES ASSUME account[u] = "live", member[u] # "ACTIVE" PROVE member[u] = "RESERVED" /\ jobs'[u]["member"] > 0
            OBVIOUS
        <3>1. member[u] = "RESERVED" /\ HasJob(u, "member")
            BY <2>4 DEF Promised
        <3>2. runner[x].kind # "member"
            BY <2>1, <2>2, <3>1 DEF SyncPossible
        <3>3. jobs[u]["member"] > 0
            BY <2>4, <3>1, <3>2 DEF HasJob
        <3> QED
            BY <1>d, <2>2, <3>1, <3>3 DEF JobKind
    <2>6. account[u] = "archived" /\ member[u] = "ACTIVE" => jobs'[u]["user"] > 0
        <3> SUFFICES ASSUME account[u] = "archived", member[u] = "ACTIVE" PROVE jobs'[u]["user"] > 0
            OBVIOUS
        <3>1. u \in linked /\ HasJob(u, "user")
            BY <2>4 DEF Promised
        <3>2. runner[x].kind # "user"
            BY <2>1, <2>2, <2>4, <3>1 DEF SyncPossible
        <3>3. jobs[u]["user"] > 0
            BY <2>4, <3>1, <3>2 DEF HasJob
        <3> QED
            BY <1>d, <2>2, <3>3 DEF JobKind
    <2>7. member'[u] = "ACTIVE" => u \in linked'
        BY <2>2, <2>4 DEF Promised
    <2> QED
        BY <2>1, <2>2, <2>3, <2>5, <2>6, <2>7, SyncEnds
<1>4. ASSUME SyncOutage(x) PROVE Calm'
    <2>1. PICK u \in User : u = runner[x].user /\ runner[x] # Idle /\ runner[x] \in RunnerState
        BY <1>4, <1>a DEF SyncOutage
    <2>2. PICK k \in JobKind : k = runner[x].kind
        BY <2>1 DEF RunnerState
    <2>3. /\ UNCHANGED <<account, member, linked, request, review>>
          /\ \A y \in Runner \ {x} : runner'[y] = runner[y]
          /\ runner'[x] = Idle /\ jobs' = Requeued(x)
        BY <1>4 DEF SyncOutage, TypeOK
    <2>4. /\ \A v \in User \ {u} : jobs'[v] = jobs[v]
          /\ \A h \in JobKind : jobs'[u][h] = IF h = k THEN jobs[u][h] + 1 ELSE jobs[u][h]
        <3>1. jobs[u][k] < MaxJobs /\ \A h \in JobKind : jobs[u][h] \in Nat
            BY <1>c, <1>d, <2>1, <2>2
        <3>2. \A h \in JobKind : jobs'[u][h] = IF h = k THEN jobs[u][h] + 1 ELSE jobs[u][h]
            BY <2>1, <2>2, <2>3, <3>1 DEF Requeued, TypeOK
        <3>3. \A v \in User \ {u} : jobs'[v] = jobs[v]
            BY <2>1, <2>2, <2>3 DEF Requeued, TypeOK
        <3> QED
            BY <3>1, <3>2, <3>3
    <2>5. \A v \in User \ {u} : Untouched(v)
        BY <2>1, <2>3, <2>4 DEF Untouched
    <2>6. Promised(u) /\ \A y \in Runner : runner[y] # Idle /\ runner[y].user = u => y = x
        BY <1>c, <2>1
    <2>7. \A h \in JobKind : HasJob(u, h) => jobs'[u][h] > 0
        <3> SUFFICES ASSUME NEW h \in JobKind, HasJob(u, h) PROVE jobs'[u][h] > 0
            OBVIOUS
        <3>1. h = k \/ jobs[u][h] > 0
            BY <2>2, <2>6 DEF HasJob
        <3>2. jobs[u][h] \in Nat
            BY <1>d
        <3> QED
            BY <2>4, <3>1, <3>2
    <2> QED
        BY <2>1, <2>3, <2>5, <2>6, <2>7, SyncEnds DEF Promised, JobKind
<1> QED
    BY <1>1, <1>2, <1>3, <1>4 DEF Sync

-----------------------------------------------------------------------------
\* The operator's reconciliation finds the account as it has read it.
LEMMA OperatorCalm ==
    ASSUME TypeOK, Calm, Faults = {}, Operator
    PROVE  Calm'
<1>b. Idle.stage = "idle"
    BY DEF Idle
<1>1. ASSUME NEW u \in User, ReviewList(u) PROVE Calm'
    <2>1. /\ UNCHANGED <<account, member, linked, jobs, request, runner>>
          /\ ~Requesting(u) /\ ~Synchronizing(u) /\ \A v \in User \ {u} : review'[v] = review[v]
          /\ review'[u].stage = "listed"
        BY <1>1 DEF ReviewList, MayStart, TypeOK
    <2>2. \A v \in User \ {u} : Untouched(v)
        BY <2>1 DEF Untouched
    <2>3. Promised(u)'
        BY <2>1 DEF Calm, Promised, HasJob
    <2>4. Serial(u)'
        BY <2>1 DEF Serial, Requesting, Synchronizing, Reviewing
    <2> QED
        BY <2>2, <2>3, <2>4, OthersStay DEF Calm
<1>2. ASSUME NEW u \in User, ReviewRead(u) \/ ReviewWrite(u) PROVE Calm'
    <2>1. /\ UNCHANGED <<account, jobs, request, runner>> /\ Reviewing(u)
          /\ \A v \in User \ {u} : review'[v] = review[v] /\ member'[v] = member[v] /\ (v \in linked' <=> v \in linked)
        BY <1>2 DEF ReviewRead, ReviewWrite, TypeOK, Reviewing
    <2>2. \A v \in User \ {u} : Untouched(v)
        BY <2>1 DEF Untouched
    <2>3. Promised(u) /\ Serial(u)
        BY DEF Calm
    <2>4. /\ \A r \in Request : request[r] # Idle => request[r].user # u
          /\ \A x \in Runner : runner[x] # Idle => runner[x].user # u
        BY <2>1, <2>3 DEF Serial
    <2>5. CASE ReviewRead(u)
        <3>1. UNCHANGED <<member, linked>> /\ review'[u].saw = account[u]
            <4>1. review[u] \in ReviewState
                BY <2>5 DEF ReviewRead, TypeOK
            <4> QED
                BY <2>5, <4>1 DEF ReviewRead, TypeOK, ReviewState
        <3>2. Promised(u)'
            BY <2>1, <2>3, <3>1 DEF Promised, HasJob
        <3>3. Serial(u)'
            BY <2>1, <2>4, <3>1 DEF Serial
        <3> QED
            BY <2>2, <3>2, <3>3, OthersStay DEF Calm
    <2>6. CASE ReviewWrite(u)
        <3>1. review[u].saw = account[u] /\ review'[u] = Idle
            BY <2>1, <2>3, <2>6 DEF ReviewWrite, Serial, TypeOK
        <3>2. IF member[u] = review[u].status
              THEN IF account[u] = "live" THEN member'[u] = "ACTIVE" /\ linked' = linked \cup {u}
                   ELSE member'[u] = "ARCHIVED"
              ELSE member'[u] = member[u] /\ linked' = linked
            BY <2>6, <3>1 DEF ReviewWrite, TypeOK
        <3>3. Promised(u)'
            BY <2>1, <2>3, <3>2 DEF Promised, HasJob
        <3>4. Serial(u)'
            BY <2>1, <2>4, <3>1, <1>b DEF Serial, Reviewing
        <3> QED
            BY <2>2, <3>3, <3>4, OthersStay DEF Calm
    <2> QED
        BY <1>2, <2>5, <2>6
<1>3. ASSUME NEW n \in 0..MaxSeats, SetSeatLimit(n) PROVE Calm'
    <2>1. \A v \in User : Untouched(v)
        BY <1>3 DEF SetSeatLimit, Untouched
    <2> QED
        BY <2>1, OthersStay DEF Calm
<1> QED
    BY <1>1, <1>2, <1>3 DEF Operator

\* When the work on one account never overlaps and no commit is reported failed that
\* took effect, an account at rest has access just while it is live: whichever hook was
\* lost to a crash, whatever job failed and in whatever order the others went on.
THEOREM DatabasesAgree == Faults = {} /\ Spec => []AgreeAtRest
<1>1. Faults = {} /\ Init => Calm
    <2> SUFFICES ASSUME Init PROVE Calm
        OBVIOUS
    <2>1. \A u \in User : account[u] = "absent" /\ member[u] = "none" /\ ~Reviewing(u) /\ ~Synchronizing(u)
        BY DEF Init, Reviewing, Synchronizing
    <2>2. (\A r \in Request : request[r] = Idle) /\ (\A x \in Runner : runner[x] = Idle)
        BY DEF Init
    <2> QED
        BY <2>1, <2>2 DEF Calm, Promised, Serial
<1>2. Faults = {} /\ IInv /\ Calm /\ [Next]_vars => (Faults = {} /\ Calm)'
    <2> SUFFICES ASSUME Faults = {}, TypeOK, Evidence, Calm, [Next]_vars PROVE Calm'
        BY DEF IInv
    <2>1. CASE UNCHANGED vars
        <3>1. \A v \in User : Untouched(v)
            BY <2>1 DEF vars, Untouched
        <3> QED
            BY <3>1, OthersStay DEF Calm
    <2> QED
        BY <2>1, RequestsCalm, SyncsCalm, OperatorCalm DEF Next
<1>3. Calm => AgreeAtRest
    <2> SUFFICES ASSUME Calm, NEW u \in User, AtRest(u)
                 PROVE  /\ account[u] = "live" => member[u] = "ACTIVE"
                        /\ account[u] = "archived" => member[u] # "ACTIVE"
        BY DEF AgreeAtRest
    <2>1. ~HasJob(u, "member") /\ ~HasJob(u, "user")
        BY DEF AtRest, HasJob, Synchronizing, JobKind
    <2> QED
        BY <2>1 DEF Calm, Promised
<1> QED
    BY <1>1, <1>2, <1>3, Invariance, PTL DEF Spec

=============================================================================
