------------------------------ MODULE GitCopies ------------------------------
(***************************************************************************)
(* The private repository copies of one tenant: the writing requests of    *)
(* GitService (createRepo, fetchRepo, deleteRepo) and its git.cleanup job. *)
(* A copy is a directory with a fresh UUID; the row of a repository points *)
(* to one.  The row is transactional and the directory is not, so the code *)
(* removes directories by hooks after a rollback and by a durable job two  *)
(* minutes after a row stopped pointing to one.                            *)
(*                                                                         *)
(* A request's row changes are private until COMMIT; its directory changes *)
(* are visible at once.  Stages are divided where the code awaits the file *)
(* system or the database.                                                 *)
(***************************************************************************)
EXTENDS Naturals, FiniteSets

CONSTANTS
    GitRequest,     \* requests of the tenant's users
    Repo,           \* repositories by id
    Copy,           \* UUIDs: the copies that may come to be
    NoCopy,         \* "no copy": a repository that does not exist
    NoRepo,         \* "no repository": an idle request
    NoRequest,      \* the advisory lock is free
    MaxRepos,       \* GIT_MAX_REPOS_PER_TENANT, 25 by default
    MaxGitFaults    \* bound on crashes, lost answers and failed removals

ASSUME GitAssumption ==
    /\ NoCopy \notin Copy
    /\ NoRepo \notin Repo
    /\ NoRequest \notin GitRequest
    /\ MaxRepos \in Nat \ {0}
    /\ MaxGitFaults \in Nat
    /\ IsFiniteSet(Repo)

VARIABLES
    gitdir,     \* repos.gitdir, committed
    disk,       \* directories that exist
    issued,     \* UUIDs drawn so far
    gitLock,    \* holder of the tenant's advisory lock "<tenant>:git"
    work,       \* what a request is doing
    target,     \* the repository it works on
    removes,    \* it is a deleteRepo
    previous,   \* the copy the row pointed to when the request read it
    made,       \* the directory the request has made
    cleanup,    \* the git.cleanup job of a copy
    abandoned,  \* directories whose removal was interrupted for good
    doubtful,   \* copies of a COMMIT whose answer was lost
    gitFaults

requestVars == <<work, target, removes, previous, made>>
copyVars == <<gitdir, disk, issued, cleanup>>
ghostVars == <<abandoned, doubtful, gitFaults>>
gitVars == <<copyVars, gitLock, requestVars, ghostVars>>

Rows(dirs) == {x \in Repo : dirs[x] # NoCopy}
PointedTo(dirs) == {dirs[x] : x \in Rows(dirs)}
WorkStage == {"idle", "allocating", "copying", "copied", "saved", "undoing"}
CleanupStage == {"none", "waiting", "due", "checked", "ended"}

GitTypeOK ==
    /\ gitdir \in [Repo -> Copy \cup {NoCopy}]
    /\ disk \subseteq issued /\ issued \subseteq Copy
    /\ gitLock \in GitRequest \cup {NoRequest}
    /\ work \in [GitRequest -> WorkStage]
    /\ target \in [GitRequest -> Repo \cup {NoRepo}]
    /\ removes \in [GitRequest -> BOOLEAN]
    /\ previous \in [GitRequest -> Copy \cup {NoCopy}]
    /\ made \in [GitRequest -> issued \cup {NoCopy}]
    /\ cleanup \in [Copy -> CleanupStage]
    /\ abandoned \subseteq Copy /\ doubtful \subseteq Copy
    /\ gitFaults \in Nat

GitInit ==
    /\ gitdir = [x \in Repo |-> NoCopy]
    /\ disk = {} /\ issued = {}
    /\ gitLock = NoRequest
    /\ work = [q \in GitRequest |-> "idle"]
    /\ target = [q \in GitRequest |-> NoRepo]
    /\ removes = [q \in GitRequest |-> FALSE]
    /\ previous = [q \in GitRequest |-> NoCopy]
    /\ made = [q \in GitRequest |-> NoCopy]
    /\ cleanup = [c \in Copy |-> "none"]
    /\ abandoned = {} /\ doubtful = {} /\ gitFaults = 0

DoNext(q, stage) == work' = [work EXCEPT ![q] = stage]
RequestEnds(q) ==
    /\ DoNext(q, "idle")
    /\ target' = [target EXCEPT ![q] = NoRepo]
    /\ removes' = [removes EXCEPT ![q] = FALSE]
    /\ previous' = [previous EXCEPT ![q] = NoCopy]
    /\ made' = [made EXCEPT ![q] = NoCopy]
GitFault == gitFaults < MaxGitFaults /\ gitFaults' = gitFaults + 1

-----------------------------------------------------------------------------
(***************************************************************************)
(* The requests.                                                           *)
(***************************************************************************)

\* Mutant: the advisory lock is not waited for.
LockAnyway(q) == TRUE

\* assertWritable: pg_try_advisory_xact_lock.
LockIsFree(q) == gitLock = NoRequest

\* The request takes the lock, and only then reads the rows.
Enters(q, x, delete) ==
    /\ work[q] = "idle"
    /\ LockIsFree(q)
    /\ gitLock' = q
    /\ target' = [target EXCEPT ![q] = x]
    /\ removes' = [removes EXCEPT ![q] = delete]
    /\ previous' = [previous EXCEPT ![q] = gitdir[x]]
    /\ UNCHANGED <<copyVars, made, ghostVars>>

\* createRepo: the row count is checked under the lock.
CreateRepo(q, x) ==
    /\ gitdir[x] = NoCopy
    /\ Cardinality(Rows(gitdir)) < MaxRepos
    /\ Enters(q, x, FALSE)
    /\ DoNext(q, "allocating")

\* fetchRepo: a new copy is made from the previous one, which must be readable.
FetchRepo(q, x) ==
    /\ gitdir[x] \in disk
    /\ Enters(q, x, FALSE)
    /\ DoNext(q, "allocating")

\* deleteRepo: the row goes at once, the directory later.
DeleteRepo(q, x) ==
    /\ gitdir[x] \in disk
    /\ Enters(q, x, TRUE)
    /\ DoNext(q, "saved")

\* createTenantGitCopy makes the directory and registers the rollback hook.
AllocateCopy(q, c) ==
    /\ work[q] = "allocating"
    /\ c \notin issued
    /\ issued' = issued \cup {c}
    /\ disk' = disk \cup {c}
    /\ made' = [made EXCEPT ![q] = c]
    /\ DoNext(q, "copying")
    /\ UNCHANGED <<gitdir, cleanup, gitLock, target, removes, previous, ghostVars>>

CopyMade(q) ==
    /\ work[q] = "copying"
    /\ DoNext(q, "copied")
    /\ UNCHANGED <<copyVars, gitLock, target, removes, previous, made, ghostVars>>

\* The INSERT or UPDATE of the row and the insertion of the cleanup job, in the
\* request's transaction.
SaveRow(q) ==
    /\ work[q] = "copied"
    /\ DoNext(q, "saved")
    /\ UNCHANGED <<copyVars, gitLock, target, removes, previous, made, ghostVars>>

\* clone, fetch or a check of the copy fails: removed where it was made.  The
\* error then rolls the transaction back, whose hook finds nothing to remove.
CopyFails(q) ==
    /\ work[q] = "copying"
    /\ disk' = disk \ {made[q]}
    /\ DoNext(q, "undoing")
    /\ gitLock' = NoRequest
    /\ UNCHANGED <<gitdir, issued, cleanup, target, removes, previous, made, ghostVars>>

\* A statement or COMMIT fails; the lock ends with the transaction, the hook
\* runs after it.
RequestFails(q) ==
    /\ work[q] \in {"allocating", "copied", "saved"}
    /\ DoNext(q, "undoing")
    /\ gitLock' = NoRequest
    /\ UNCHANGED <<copyVars, target, removes, previous, made, ghostVars>>

\* What COMMIT makes visible.
GitdirAfter(q) == [gitdir EXCEPT ![target[q]] = IF removes[q] THEN NoCopy ELSE made[q]]

\* Mutant: a refresh forgets the copy it replaces.
CleanupOfDeleted(q) ==
    [c \in Copy |-> IF c = previous[q] /\ removes[q] THEN "waiting" ELSE cleanup[c]]

\* scheduleCleanup: the job's key is the copy, so a second insert does nothing,
\* and only a pending job is put off by two minutes.
CleanupAfter(q) ==
    [c \in Copy |-> IF c = previous[q] /\ cleanup[c] # "ended" THEN "waiting" ELSE cleanup[c]]

CommitRequest(q) ==
    /\ work[q] = "saved"
    /\ gitdir' = GitdirAfter(q)
    /\ cleanup' = CleanupAfter(q)
    /\ gitLock' = NoRequest
    /\ RequestEnds(q)
    /\ UNCHANGED <<disk, issued, ghostVars>>

\* COMMIT takes effect, but to the process it failed: the rollback hooks run.
CommitLooksFailed(q) ==
    /\ GitFault
    /\ work[q] = "saved"
    /\ gitdir' = GitdirAfter(q)
    /\ cleanup' = CleanupAfter(q)
    /\ gitLock' = NoRequest
    /\ doubtful' = doubtful \cup ({made[q]} \cap issued)
    /\ DoNext(q, "undoing")
    /\ UNCHANGED <<disk, issued, target, removes, previous, made, abandoned>>

\* Mutant: the hook removes the copy that was to be replaced.
PreviousUndone(q) == disk \ {previous[q]}

\* The rollback hook: removeTenantGitCopy of what the request made.
DiskUndone(q) == disk \ {made[q]}

UndoCopy(q) ==
    /\ work[q] = "undoing"
    /\ disk' = DiskUndone(q)
    /\ RequestEnds(q)
    /\ UNCHANGED <<gitdir, issued, cleanup, gitLock, ghostVars>>

\* The hook fails, which is logged and no more, or the process dies: before
\* COMMIT the database undoes the rows, and nobody removes the directory.
RequestDies(q) ==
    /\ GitFault
    /\ work[q] # "idle"
    /\ abandoned' = abandoned \cup ({made[q]} \cap disk)
    /\ gitLock' = IF gitLock = q THEN NoRequest ELSE gitLock
    /\ RequestEnds(q)
    /\ UNCHANGED <<copyVars, doubtful>>

-----------------------------------------------------------------------------
(***************************************************************************)
(* The git.cleanup job.                                                    *)
(***************************************************************************)
TwoMinutesPass(c) ==
    /\ cleanup[c] = "waiting"
    /\ cleanup' = [cleanup EXCEPT ![c] = "due"]
    /\ UNCHANGED <<gitdir, disk, issued, gitLock, requestVars, ghostVars>>

\* reposRepo.existsBy({ gitdir }) answers no.
Unreferenced(c) == c \notin PointedTo(gitdir)

CleanupChecks(c) ==
    /\ cleanup[c] = "due"
    /\ cleanup' = [cleanup EXCEPT ![c] = IF Unreferenced(c) THEN "checked" ELSE "ended"]
    /\ UNCHANGED <<gitdir, disk, issued, gitLock, requestVars, ghostVars>>

\* The directory is gone, or was gone already, and the job is completed.
CleanupRemoves(c) ==
    /\ cleanup[c] = "checked"
    /\ disk' = disk \ {c}
    /\ cleanup' = [cleanup EXCEPT ![c] = "ended"]
    /\ UNCHANGED <<gitdir, issued, gitLock, requestVars, ghostVars>>

\* The attempt is lost after the directory was removed, or before.
CleanupRetried(c) ==
    /\ GitFault
    /\ cleanup[c] = "checked"
    /\ cleanup' = [cleanup EXCEPT ![c] = "due"]
    /\ disk' \in {disk, disk \ {c}}
    /\ UNCHANGED <<gitdir, issued, gitLock, requestVars, abandoned, doubtful>>

\* The tenth attempt fails: the job is given up.
CleanupGivesUp(c) ==
    /\ GitFault
    /\ cleanup[c] = "checked"
    /\ cleanup' = [cleanup EXCEPT ![c] = "ended"]
    /\ abandoned' = abandoned \cup {c}
    /\ UNCHANGED <<gitdir, disk, issued, gitLock, requestVars, doubtful>>

-----------------------------------------------------------------------------
RequestStep(q) ==
    \/ \E x \in Repo : CreateRepo(q, x) \/ FetchRepo(q, x) \/ DeleteRepo(q, x)
    \/ \E c \in Copy : AllocateCopy(q, c)
    \/ CopyMade(q)
    \/ CopyFails(q)
    \/ SaveRow(q)
    \/ RequestFails(q)
    \/ CommitRequest(q)
    \/ CommitLooksFailed(q)
    \/ UndoCopy(q)
    \/ RequestDies(q)

CleanupStep(c) ==
    \/ TwoMinutesPass(c)
    \/ CleanupChecks(c)
    \/ CleanupRemoves(c)
    \/ CleanupRetried(c)
    \/ CleanupGivesUp(c)

GitNext ==
    \/ \E q \in GitRequest : RequestStep(q)
    \/ \E c \in Copy : CleanupStep(c)

GitSpec == GitInit /\ [][GitNext]_gitVars

-----------------------------------------------------------------------------
\* A repository that is shown has its data: no hook and no cleanup removes the
\* copy a row points to.  The exception is a COMMIT whose answer was lost, after
\* which the rollback hook removes a copy that is in use.
RowHasCopy ==
    \A x \in Rows(gitdir) : gitdir[x] \in disk \cup doubtful

\* No directory is forgotten: a row points to it, a request is responsible for
\* it, a cleanup will remove it, or a crash or a failed removal abandoned it.
CopiesAccountedFor ==
    \A c \in disk :
        \/ c \in PointedTo(gitdir) \cup abandoned
        \/ cleanup[c] \in {"waiting", "due", "checked"}
        \/ \E q \in GitRequest : work[q] # "idle" /\ made[q] = c

\* Two requests at once never take the tenant beyond its limit.
ReposWithinLimit == Cardinality(Rows(gitdir)) <= MaxRepos

=============================================================================
