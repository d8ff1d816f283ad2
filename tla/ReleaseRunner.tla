--------------------------- MODULE ReleaseRunner ---------------------------
(***************************************************************************)
(* The release runner of one project: deploy/release/run.sh, started for   *)
(* prepare, migrate and deploy.  It keeps three head files under a flock,  *)
(* starts the migration as a detached container, and replaces the services *)
(* one by one.  A runner may be stopped at any point: an error or a signal *)
(* runs its EXIT trap, SIGKILL does not, and a command it had started goes *)
(* on with the lock, because it has inherited the descriptor.              *)
(*                                                                         *)
(* A release is a fingerprint: a commit with the digests of its manifest,  *)
(* configuration and inputs.  Two releases of one commit may give a        *)
(* service the same configuration; docker compose then keeps its container *)
(* as it is.  Reading and verifying files is one step, as is each mv: the  *)
(* lock keeps other runners out of the state directory.                    *)
(***************************************************************************)
EXTENDS Naturals, FiniteSets

CONSTANTS
    Runner,         \* invocations of run.sh that may overlap
    Release,        \* fingerprints
    SourceCommit,   \* commits
    CommitOf,       \* the commit of a release
    Service,        \* the services of the manifest
    ConfigOf,       \* how the frozen compose.json of a release defines each service
    ImageOf,        \* the image ID a release has for each service
    NoRelease,      \* a head file that does not exist
    NoRunner,       \* the lock is free
    MaxStops        \* bound on signals, kills, reboots and changed inputs

ASSUME ReleaseAssumption ==
    /\ CommitOf \in [Release -> SourceCommit]
    /\ NoRelease \notin Release
    /\ NoRunner \notin Runner
    /\ MaxStops \in Nat

\* The definition of a service holds its commit label and its image.
ASSUME ConfigAssumption ==
    \A x, y \in Release, s \in Service :
        ConfigOf[x][s] = ConfigOf[y][s] =>
            CommitOf[x] = CommitOf[y] /\ ImageOf[x][s] = ImageOf[y][s]

VARIABLES
    preparedHead,   \* prepared-head.json
    migrationHead,  \* migration-head.json
    deployedHead,   \* deployed-head.json
    offered,        \* the release a commit's inputs make now
    flock,          \* holder of release.lock
    at,             \* where an invocation is
    release,        \* the release it works on
    container,      \* the migration container it started
    killed,         \* invocations of which only a child process is left
    passed,         \* services it found healthy
    strays,         \* releases whose migration container nobody watches
    running,        \* the release that made the container of each service
    healthy,        \* services that answer their healthcheck
    schema,         \* the last migration that was started, and whether it succeeded
    stops

headVars == <<preparedHead, migrationHead, deployedHead>>
runnerVars == <<at, release, container, killed, passed>>
dockerVars == <<strays, running, healthy, schema>>
releaseVars == <<headVars, offered, flock, runnerVars, dockerVars, stops>>

RunnerStage ==
    {"idle", "hashed", "pointed",                          \* prepare
     "migrate", "receiptGone", "alone", "waiting", "done", \* migrate
     "deploy", "replacing", "checking"}                    \* deploy

ReleaseTypeOK ==
    /\ {preparedHead, migrationHead, deployedHead} \subseteq Release \cup {NoRelease}
    /\ offered \in [SourceCommit -> Release]
    /\ flock \in Runner \cup {NoRunner}
    /\ at \in [Runner -> RunnerStage]
    /\ release \in [Runner -> Release \cup {NoRelease}]
    /\ container \in [Runner -> {"none", "running", "succeeded", "failed"}]
    /\ killed \subseteq Runner
    /\ passed \in [Runner -> [1..2 -> SUBSET Service]]
    /\ strays \subseteq Release
    /\ running \in [Service -> Release \cup {NoRelease}]
    /\ healthy \subseteq Service
    /\ schema \in [release : Release \cup {NoRelease}, complete : BOOLEAN]
    /\ stops \in Nat

ReleaseInit ==
    /\ preparedHead = NoRelease /\ migrationHead = NoRelease /\ deployedHead = NoRelease
    /\ offered \in {f \in [SourceCommit -> Release] : \A c \in SourceCommit : CommitOf[f[c]] = c}
    /\ flock = NoRunner
    /\ at = [k \in Runner |-> "idle"]
    /\ release = [k \in Runner |-> NoRelease]
    /\ container = [k \in Runner |-> "none"]
    /\ killed = {}
    /\ passed = [k \in Runner |-> [n \in 1..2 |-> {}]]
    /\ strays = {}
    /\ running = [s \in Service |-> NoRelease]
    /\ healthy = {}
    /\ schema = [release |-> NoRelease, complete |-> FALSE]
    /\ stops = 0

Steps(k, here, there) ==
    /\ at[k] = here /\ k \notin killed
    /\ at' = [at EXCEPT ![k] = there]

\* verify_sources: every recorded input has the digest it was prepared with.
Unchanged(x) == offered[CommitOf[x]] = x

-----------------------------------------------------------------------------
(***************************************************************************)
(* Beginning and end of an invocation.                                     *)
(***************************************************************************)

LockFree == flock = NoRunner

Begins(k, stage, x) ==
    /\ at[k] = "idle"
    /\ LockFree
    /\ flock' = k
    /\ at' = [at EXCEPT ![k] = stage]
    /\ release' = [release EXCEPT ![k] = x]
    /\ UNCHANGED <<headVars, offered, container, killed, passed, dockerVars, stops>>

\* The fingerprint of a prepare is that of the inputs it finds.
BeginPrepare(k, c) == Begins(k, "hashed", offered[c])

\* migrate and deploy accept only the prepared head, unchanged, of their commit.
BeginMigrate(k) ==
    /\ preparedHead # NoRelease /\ Unchanged(preparedHead)
    /\ Begins(k, "migrate", preparedHead)

BeginDeploy(k) ==
    /\ preparedHead # NoRelease /\ Unchanged(preparedHead)
    /\ Begins(k, "deploy", preparedHead)

Forgets(k) ==
    /\ at' = [at EXCEPT ![k] = "idle"]
    /\ release' = [release EXCEPT ![k] = NoRelease]
    /\ container' = [container EXCEPT ![k] = "none"]
    /\ killed' = killed \ {k}
    /\ passed' = [passed EXCEPT ![k] = [n \in 1..2 |-> {}]]
    /\ flock' = IF flock = k THEN NoRunner ELSE flock

-----------------------------------------------------------------------------
(***************************************************************************)
(* prepare: the release directory, the prepared head, the old receipt.     *)
(***************************************************************************)
PointsToRelease(k) ==
    /\ Steps(k, "hashed", "pointed")
    /\ preparedHead' = release[k]
    /\ UNCHANGED <<migrationHead, deployedHead, offered, flock, release, container, killed,
                   passed, dockerVars, stops>>

\* "A new prepare is deliberately not proof that migrations were completed."
EndPrepare(k) ==
    /\ at[k] = "pointed" /\ k \notin killed
    /\ migrationHead' = NoRelease
    /\ Forgets(k)
    /\ UNCHANGED <<preparedHead, deployedHead, offered, dockerVars, stops>>

-----------------------------------------------------------------------------
(***************************************************************************)
(* migrate.                                                                *)
(***************************************************************************)

\* Mutant: the old receipt stays until it is replaced.
ReceiptKept == migrationHead

ReceiptPutAside == NoRelease

PutReceiptAside(k) ==
    /\ Steps(k, "migrate", "receiptGone")
    /\ migrationHead' = ReceiptPutAside
    /\ UNCHANGED <<preparedHead, deployedHead, offered, flock, release, container, killed,
                   passed, dockerVars, stops>>

ActiveMigrations == {k \in Runner : container[k] = "running"}

\* Mutant: a container left by an earlier runner is not looked for.
LooksAtOwn == ActiveMigrations = {}

\* docker container ls: no running migration, whoever started it.
NoOtherMigration == ActiveMigrations = {} /\ strays = {}

LooksForOthers(k) ==
    /\ Steps(k, "receiptGone", "alone")
    /\ NoOtherMigration
    /\ UNCHANGED <<headVars, offered, flock, release, container, killed, passed, dockerVars, stops>>

\* compose run --detach; the client may be the last of a killed runner.
JobStarts(k) ==
    /\ at[k] = "alone"
    /\ at' = [at EXCEPT ![k] = "waiting"]
    /\ container' = [container EXCEPT ![k] = "running"]
    /\ schema' = [release |-> release[k], complete |-> FALSE]
    /\ UNCHANGED <<headVars, offered, flock, release, killed, passed, strays, running, healthy, stops>>

\* The container exits, with 0 or another code.
JobExits(k) ==
    /\ container[k] = "running"
    /\ \/ /\ container' = [container EXCEPT ![k] = "succeeded"]
          /\ schema' = [schema EXCEPT !.complete = TRUE]
       \/ /\ container' = [container EXCEPT ![k] = "failed"]
          /\ UNCHANGED schema
    /\ UNCHANGED <<headVars, offered, flock, at, release, killed, passed, strays, running, healthy, stops>>

\* So may a container that nobody watches.
StrayExits(x) ==
    /\ x \in strays
    /\ strays' = strays \ {x}
    /\ \/ schema' = [schema EXCEPT !.complete = TRUE]
       \/ UNCHANGED schema
    /\ UNCHANGED <<headVars, offered, flock, runnerVars, running, healthy, stops>>

\* Exit code 0, inputs still unchanged, container removed.
JobAccepted(k) ==
    /\ Steps(k, "waiting", "done")
    /\ container[k] = "succeeded"
    /\ Unchanged(release[k])
    /\ container' = [container EXCEPT ![k] = "none"]
    /\ UNCHANGED <<headVars, offered, flock, release, killed, passed, dockerVars, stops>>

EndMigrate(k) ==
    /\ at[k] = "done" /\ k \notin killed
    /\ migrationHead' = release[k]
    /\ Forgets(k)
    /\ UNCHANGED <<preparedHead, deployedHead, offered, dockerVars, stops>>

-----------------------------------------------------------------------------
(***************************************************************************)
(* deploy.                                                                 *)
(***************************************************************************)

\* Mutant: any receipt will do.
SomeReceipt(k) == migrationHead # NoRelease

ReceiptMatches(k) == migrationHead = release[k]

BeginReplacing(k) ==
    /\ Steps(k, "deploy", "replacing")
    /\ ReceiptMatches(k)
    /\ UNCHANGED <<headVars, offered, flock, release, container, killed, passed, dockerVars, stops>>

\* A container of service s that is defined as release x defines it.
Runs(s, x) == running[s] # NoRelease /\ ConfigOf[running[s]][s] = ConfigOf[x][s]

\* Mutant: up --no-recreate.
AnyContainer(k, s) == running[s] # NoRelease

\* What compose up compares: the hash of the definition and the image.
UpToDate(k, s) == Runs(s, release[k])

\* compose up, one service at a time; what is up to date stays as it is.
ReplaceService(k, s) ==
    /\ at[k] = "replacing"
    /\ ~UpToDate(k, s)
    /\ running' = [running EXCEPT ![s] = release[k]]
    /\ healthy' \in {healthy \cup {s}, healthy \ {s}}
    /\ UNCHANGED <<headVars, offered, flock, runnerVars, strays, schema, stops>>

\* up --wait returns.
AllUp(k) ==
    /\ Steps(k, "replacing", "checking")
    /\ \A s \in Service : UpToDate(k, s) /\ s \in healthy
    /\ UNCHANGED <<headVars, offered, flock, release, container, killed, passed, dockerVars, stops>>

\* A service stops answering, or answers again.
ServiceFlaps(s) ==
    /\ running[s] # NoRelease
    /\ healthy' \in {healthy \cup {s}, healthy \ {s}} \ {healthy}
    /\ UNCHANGED <<headVars, offered, flock, runnerVars, strays, running, schema, stops>>

\* inspect_container: project and service, the commit label, the image ID.
HasIdentity(s, x) ==
    running[s] # NoRelease /\ CommitOf[running[s]] = CommitOf[x] /\ ImageOf[running[s]][s] = ImageOf[x][s]

\* One of the two passes over the services.
HealthCheck(k, n, s) ==
    /\ at[k] = "checking" /\ k \notin killed
    /\ n = 2 => passed[k][1] = Service
    /\ s \notin passed[k][n]
    /\ HasIdentity(s, release[k]) /\ s \in healthy
    /\ passed' = [passed EXCEPT ![k][n] = @ \cup {s}]
    /\ UNCHANGED <<headVars, offered, flock, at, release, container, killed, dockerVars, stops>>

AllChecked(k) == passed[k][2] = Service

EndDeploy(k) ==
    /\ at[k] = "checking" /\ k \notin killed
    /\ AllChecked(k)
    /\ Unchanged(release[k])
    /\ deployedHead' = release[k]
    /\ Forgets(k)
    /\ UNCHANGED <<preparedHead, migrationHead, offered, dockerVars, stops>>

-----------------------------------------------------------------------------
(***************************************************************************)
(* Failures.  Any command may fail, for which no bound is needed: the      *)
(* invocation is over.                                                     *)
(***************************************************************************)
Stop == stops < MaxStops /\ stops' = stops + 1

\* A container that is still running when its runner leaves.
LeftBehind(k) == IF container[k] = "running" THEN strays \cup {release[k]} ELSE strays

\* fail, INT or TERM: the EXIT trap stops the migration, if docker lets it.
Fails(k) ==
    /\ at[k] # "idle" /\ k \notin killed
    /\ strays' \in {strays, LeftBehind(k)}
    /\ Forgets(k)
    /\ UNCHANGED <<headVars, offered, running, healthy, schema, stops>>

\* SIGKILL.  No trap; while a docker client is at work it holds the lock.
Killed(k) ==
    /\ Stop
    /\ at[k] # "idle" /\ k \notin killed
    /\ IF at[k] \in {"alone", "replacing"}
       THEN /\ killed' = killed \cup {k}
            /\ UNCHANGED <<flock, at, release, container, passed, strays>>
       ELSE /\ strays' = LeftBehind(k)
            /\ Forgets(k)
    /\ UNCHANGED <<headVars, offered, running, healthy, schema>>

\* The client of a killed runner ends, whatever it has done by then.
ChildEnds(k) ==
    /\ k \in killed
    /\ strays' = LeftBehind(k)
    /\ Forgets(k)
    /\ UNCHANGED <<headVars, offered, running, healthy, schema, stops>>

\* The host restarts: processes, migration containers and the lock are gone,
\* the services come back as they were.
Reboot ==
    /\ Stop
    /\ flock' = NoRunner
    /\ at' = [k \in Runner |-> "idle"]
    /\ release' = [k \in Runner |-> NoRelease]
    /\ container' = [k \in Runner |-> "none"]
    /\ killed' = {}
    /\ passed' = [k \in Runner |-> [n \in 1..2 |-> {}]]
    /\ strays' = {}
    /\ UNCHANGED <<headVars, offered, running, healthy, schema>>

\* Somebody edits the inputs of a commit.
InputsChange(x) ==
    /\ Stop
    /\ offered[CommitOf[x]] # x
    /\ offered' = [offered EXCEPT ![CommitOf[x]] = x]
    /\ UNCHANGED <<headVars, flock, runnerVars, dockerVars>>

-----------------------------------------------------------------------------
RunnerStep(k) ==
    \/ \E c \in SourceCommit : BeginPrepare(k, c)
    \/ BeginMigrate(k) \/ BeginDeploy(k)
    \/ PointsToRelease(k) \/ EndPrepare(k)
    \/ PutReceiptAside(k) \/ LooksForOthers(k) \/ JobStarts(k) \/ JobExits(k)
    \/ JobAccepted(k) \/ EndMigrate(k)
    \/ BeginReplacing(k) \/ AllUp(k) \/ EndDeploy(k)
    \/ \E s \in Service : ReplaceService(k, s)
    \/ \E n \in 1..2, s \in Service : HealthCheck(k, n, s)
    \/ Fails(k) \/ Killed(k) \/ ChildEnds(k)

ReleaseNext ==
    \/ \E k \in Runner : RunnerStep(k)
    \/ \E x \in Release : StrayExits(x) \/ InputsChange(x)
    \/ \E s \in Service : ServiceFlaps(s)
    \/ Reboot

ReleaseSpec == ReleaseInit /\ [][ReleaseNext]_releaseVars

-----------------------------------------------------------------------------
\* Never two migrations of the databases at once, whatever runner was killed
\* and whatever it left behind.
OneMigration == Cardinality(ActiveMigrations) + Cardinality(strays) <= 1

\* While services are replaced, the last migration that was started is the one
\* of their release, and it has succeeded: "a new prepare is deliberately not
\* proof that migrations were completed".
MigratedBeforeDeploy ==
    \A k \in Runner : at[k] = "replacing" =>
        schema = [release |-> release[k], complete |-> TRUE]

\* deployed-head.json names a release only while every service runs a container
\* that is defined as in that release, its commit and image included, on the
\* databases as the release's own migration left them.  The checks of the health
\* stage do not show it: they would pass a container of the same commit and image
\* with another definition.  An earlier release with the same definition of a
\* service may have made its container.
DeployedHeadIsTrue ==
    [][deployedHead' # deployedHead =>
          /\ \A s \in Service : Runs(s, deployedHead')
          /\ schema = [release |-> deployedHead', complete |-> TRUE]]_releaseVars

=============================================================================
