---------------------------- MODULE VoiceCluster ----------------------------
(***************************************************************************)
(* One voice room on several API replicas.  A key in Redis names the       *)
(* replica whose SFU carries the room; that replica remembers locally when *)
(* it last renewed the key and closes the room when that is too long ago.  *)
(* Commands reach the owner by Redis RPC and run one after another;        *)
(* timers, renewals and Redis errors act outside that queue.               *)
(*                                                                         *)
(* Time is counted in ticks of ten seconds.  A timer that runs every       *)
(* second fires before the next tick: the event loop does not hang         *)
(* (docs/saas-voice.md leaves that to the liveness probe).  A call to      *)
(* Redis takes effect in one step and is answered in a later one; the      *)
(* connection of a node answers in the order it was asked.                 *)
(***************************************************************************)
EXTENDS Naturals, Sequences

CONSTANTS
    Node,       \* replicas, one process each
    User,       \* people of the room, one socket each
    None,       \* no owner, no lease, not in the room
    Dead,       \* the id of a process that exists no longer
    Lease,      \* LEASE_MS in ticks
    Fence       \* FENCE_MS, and the authorization deadline, in ticks

ASSUME VoiceAssumption ==
    /\ Lease \in Nat /\ Fence \in Nat
    /\ 0 < Fence /\ Fence < Lease
    /\ None \notin Node \cup Nat /\ Dead \notin Node \cup {None}

VARIABLES
    owner,      \* Redis: the owner key
    ttl,        \* Redis: ticks until the owner key expires
    lease,      \* per node: ticks since its lease was last renewed, or None
    asked,      \* per node: the calls Redis has not answered yet
    acquiring,  \* per node: ticks since a SET NX that succeeded and is not answered
    renewal,    \* per node: ticks since a renewal that is not answered, or None;
                \* Fence also says that it is of no use any more
    job,        \* per node: the command at the head of the room's queue
    room,       \* nodes with a router for the room
    creating,   \* nodes whose creation token is valid
    peers,      \* per node and user: ticks since the authorization, or None
    slipped,    \* history: nodes that lost the lease between check and creation
    stale       \* history: ticks a node has had the room without the key

redisVars == <<owner, ttl>>
leaseVars == <<lease, renewal>>
mediaVars == <<room, creating, peers, slipped, stale>>
vars == <<redisVars, leaseVars, asked, acquiring, job, mediaVars>>

Idle == [stage |-> "idle"]
Age == 0..Fence
Command == {"join", "leave", "use", "check"}
Stage == {"first", "authorize", "second", "entering", "creating", "leaving", "publishing"}
Job == [kind : Command, users : SUBSET User, stage : Stage, ok : BOOLEAN, age : Age]

TypeOK ==
    /\ owner \in Node \cup {None, Dead}
    /\ ttl \in 0..Lease
    /\ lease \in [Node -> Age \cup {None}]
    /\ \A n \in Node : /\ Len(asked[n]) <= 3
                       /\ \A i \in DOMAIN asked[n] : asked[n][i] \in {"SET", "GET", "RENEW"}
    /\ acquiring \in [Node -> Age \cup {None}]
    /\ renewal \in [Node -> Age \cup {None}]
    /\ job \in [Node -> Job \cup {Idle}]
    /\ room \subseteq Node
    /\ creating \subseteq Node
    /\ peers \in [Node -> [User -> Age \cup {None}]]
    /\ slipped \subseteq Node
    /\ stale \in [Node -> 0..Fence + 1]

NoPeers == [u \in User |-> None]

Init ==
    /\ owner = None /\ ttl = 0
    /\ lease = [n \in Node |-> None]
    /\ asked = [n \in Node |-> <<>>]
    /\ acquiring = [n \in Node |-> None]
    /\ renewal = [n \in Node |-> None]
    /\ job = [n \in Node |-> Idle]
    /\ room = {} /\ creating = {}
    /\ peers = [n \in Node |-> NoPeers]
    /\ slipped = {}
    /\ stale = [n \in Node |-> 0]

Present(n) == {u \in User : peers[n][u] # None}

-----------------------------------------------------------------------------
(***************************************************************************)
(* What several handlers do.                                               *)
(***************************************************************************)

\* Mutant: a creation under way keeps its token.
CloseRouter(n) ==
    /\ room' = room \ {n}
    /\ peers' = [peers EXCEPT ![n] = NoPeers]
    /\ stale' = [stale EXCEPT ![n] = 0]
    /\ slipped' = IF job[n].stage \in {"second", "entering"} THEN slipped \cup {n} ELSE slipped \ {n}
    /\ UNCHANGED creating

\* closeOwnedRoom: router, participants and a creation under way.
CloseRoom(n) ==
    /\ room' = room \ {n}
    /\ creating' = creating \ {n}
    /\ peers' = [peers EXCEPT ![n] = NoPeers]
    /\ stale' = [stale EXCEPT ![n] = 0]
    /\ slipped' = IF job[n].stage \in {"second", "entering"} THEN slipped \cup {n} ELSE slipped \ {n}

\* leases.delete: a renewal under way belongs to an earlier lease.
Forget(n) ==
    /\ lease' = [lease EXCEPT ![n] = None]
    /\ renewal' = [renewal EXCEPT ![n] = IF @ = None THEN None ELSE Fence]

\* lose: without a word to Redis, where the key expires by itself.
Lose(n) == Forget(n) /\ CloseRoom(n) /\ UNCHANGED redisVars

\* Mutant: DEL in place of OWNER_RELEASE, whoever the key names.
DeleteKey(n) == (owner' = None /\ ttl' = 0) \/ UNCHANGED redisVars

\* OWNER_RELEASE: only a key that still names this node.  It may fail.
Unlock(n) ==
    \/ /\ owner' = IF owner = n THEN None ELSE owner
       /\ ttl' = IF owner = n THEN 0 ELSE ttl
    \/ UNCHANGED redisVars

\* closeOwnedRoom or an empty room, followed by release.
Quit(n) == Forget(n) /\ CloseRoom(n) /\ Unlock(n)

Keep == UNCHANGED <<redisVars, leaseVars, mediaVars>>

\* The first test of assertOwnership; the second one asks Redis.
Fresh(n) == lease[n] # None /\ lease[n] < Fence

Ask(n, call) == asked' = [asked EXCEPT ![n] = Append(@, call)]

Answer(n, call) ==
    /\ asked[n] # <<>> /\ Head(asked[n]) = call
    /\ asked' = [asked EXCEPT ![n] = Tail(@)]

Done(n) == job' = [job EXCEPT ![n] = Idle]
Goto(n, stage) == job' = [job EXCEPT ![n].stage = stage]

\* revalidate without the participant it has dealt with, if any.
Checking(check, u) ==
    [check EXCEPT !.users = @ \ {u},
                  !.stage = IF check.users \subseteq {u} THEN "publishing" ELSE "authorize"]

\* The command removes a participant, and goes on with the others.
Removing(command, u) == [command EXCEPT !.stage = "leaving", !.users = @ \ {u}]

-----------------------------------------------------------------------------
(***************************************************************************)
(* Routing and acquisition: VoiceClusterService.execute.                   *)
(***************************************************************************)

\* SET NX PX on a free key ...
Acquire(n) ==
    /\ owner = None /\ acquiring[n] = None
    /\ owner' = n /\ ttl' = Lease
    /\ acquiring' = [acquiring EXCEPT ![n] = 0]
    /\ Ask(n, "SET")
    /\ UNCHANGED <<leaseVars, job, mediaVars>>

\* Mutant: the lease counts from the answer, not from the question.
AcquiredNow(n) ==
    /\ Answer(n, "SET")
    /\ lease' = [lease EXCEPT ![n] = 0]
    /\ renewal' = [renewal EXCEPT ![n] = IF @ = None THEN None ELSE Fence]
    /\ acquiring' = [acquiring EXCEPT ![n] = None]
    /\ UNCHANGED <<redisVars, job, mediaVars>>

\* ... and its answer.
Acquired(n) ==
    /\ Answer(n, "SET")
    /\ lease' = [lease EXCEPT ![n] = acquiring[n]]
    /\ renewal' = [renewal EXCEPT ![n] = IF @ = None THEN None ELSE Fence]
    /\ acquiring' = [acquiring EXCEPT ![n] = None]
    /\ UNCHANGED <<redisVars, job, mediaVars>>

-----------------------------------------------------------------------------
(***************************************************************************)
(* The queue: serialized, and the handlers of the gateway.                 *)
(***************************************************************************)

\* Mutant: the queue does not check the ownership first.
StartUnchecked(n, kind, users) ==
    /\ job[n] = Idle
    /\ job' = [job EXCEPT ![n] = [kind |-> kind, users |-> users, stage |-> "authorize", ok |-> TRUE, age |-> 0]]
    /\ Keep /\ UNCHANGED asked

\* Each command starts with assertOwnership: the local lease, then Redis.
Start(n, kind, users) ==
    /\ job[n] = Idle
    /\ IF Fresh(n)
       THEN /\ job' = [job EXCEPT ![n] = [kind |-> kind, users |-> users, stage |-> "first",
                                          ok |-> owner = n, age |-> 0]]
            /\ Ask(n, "GET") /\ Keep
       ELSE Lose(n) /\ UNCHANGED <<asked, job>>

\* A command of a user, sent by a replica that read the key a moment or, over
\* Redis, up to ten seconds ago: this node need not be the owner any more.
Receive(n, kind, u) ==
    /\ Start(n, kind, {u})
    /\ UNCHANGED acquiring

\* receive asserts the ownership before it queues a command of another replica:
\* the room is lost beside the command that runs.
Misrouted(n) ==
    /\ ~Fresh(n) \/ owner # n
    /\ Lose(n)
    /\ UNCHANGED <<asked, acquiring, job>>

\* revalidate: every five seconds, through the same queue.
Revalidate(n) ==
    /\ Present(n) # {}
    /\ Start(n, "check", Present(n))
    /\ UNCHANGED acquiring

\* removePeer up to its await: the last one closes the router.
Remove(n, u) ==
    /\ peers' = [peers EXCEPT ![n][u] = None]
    /\ room' = IF Present(n) \subseteq {u} THEN room \ {n} ELSE room
    /\ stale' = [stale EXCEPT ![n] = IF Present(n) \subseteq {u} THEN 0 ELSE @]
    /\ UNCHANGED <<creating, slipped, redisVars, leaseVars>>

\* Redis answers the first question.
FirstAnswer(n) ==
    /\ job[n].stage = "first" /\ Answer(n, "GET")
    /\ \/ ~job[n].ok /\ Lose(n) /\ Done(n)
       \/ /\ job[n].ok /\ job[n].kind = "leave"
          /\ \E u \in job[n].users : Remove(n, u)
          /\ Goto(n, "leaving")
       \/ job[n].ok /\ job[n].kind # "leave" /\ Keep /\ Goto(n, "authorize")
    /\ UNCHANGED acquiring

\* The presence was published: an empty room gives its lease back.
Left(n) ==
    /\ job[n].stage = "leaving"
    /\ IF Present(n) = {} THEN Quit(n) ELSE Keep
    /\ job' = [job EXCEPT ![n] = IF @.kind = "check" THEN Checking(@, None) ELSE Idle]
    /\ UNCHANGED <<asked, acquiring>>

\* The catch block of execute: a room without participants is given back.
GiveUp(n) ==
    /\ IF Present(n) = {} THEN Quit(n) ELSE Keep
    /\ Done(n)

Renewed(n, u) == [peers EXCEPT ![n][u] = IF @ = None THEN None ELSE 0]

\* authorize succeeds during revalidate: on to the next participant.
Confirmed(n, u) ==
    /\ job[n].stage = "authorize" /\ job[n].kind = "check" /\ u \in job[n].users
    /\ peers' = Renewed(n, u)
    /\ job' = [job EXCEPT ![n] = Checking(@, u)]
    /\ UNCHANGED <<redisVars, leaseVars, asked, acquiring, room, creating, slipped, stale>>

\* ... and in the end the presence of those who remain.
Published(n) ==
    /\ job[n].stage = "publishing"
    /\ Keep /\ Done(n)
    /\ UNCHANGED <<asked, acquiring>>

\* authorize succeeds for a command, whose handler asserts ownership again.
Authorized(n, u) ==
    /\ job[n].stage = "authorize" /\ job[n].kind # "check" /\ u \in job[n].users
    /\ \/ /\ Fresh(n)
          /\ peers' = Renewed(n, u)
          /\ job' = [job EXCEPT ![n] = [@ EXCEPT !.stage = "second", !.ok = (owner = n), !.age = 0]]
          /\ Ask(n, "GET")
          /\ UNCHANGED <<redisVars, leaseVars, room, creating, slipped, stale>>
       \/ ~Fresh(n) /\ Quit(n) /\ Done(n) /\ UNCHANGED asked
    /\ UNCHANGED acquiring

\* Access was withdrawn, or the check of revalidate failed.
Denied(n, u) ==
    /\ job[n].stage = "authorize" /\ u \in job[n].users
    /\ \/ peers[n][u] # None /\ Remove(n, u)
          /\ job' = [job EXCEPT ![n] = Removing(@, u)]
       \/ peers[n][u] = None /\ job[n].kind # "check" /\ GiveUp(n)
       \/ peers[n][u] = None /\ job[n].kind = "check" /\ Keep
          /\ job' = [job EXCEPT ![n] = Checking(@, u)]
    /\ UNCHANGED <<asked, acquiring>>

\* Redis answers the second question.
SecondAnswer(n) ==
    /\ job[n].stage = "second" /\ Answer(n, "GET")
    /\ \/ ~job[n].ok /\ Quit(n) /\ Done(n)
       \/ job[n].ok /\ job[n].kind = "join" /\ Keep /\ Goto(n, "entering")
       \/ job[n].ok /\ job[n].kind = "use" /\ GiveUp(n)
    /\ UNCHANGED acquiring

\* addParticipant and peers.set.
Entered(n) == peers' = [peers EXCEPT ![n] = [u \in User |->
                  IF u \in job[n].users /\ @[u] = None THEN job[n].age ELSE @[u]]]

\* The socket and the user were read; getOrCreateRoom.
Enter(n) ==
    /\ job[n].stage = "entering"
    /\ \/ n \in room /\ Entered(n) /\ Done(n) /\ UNCHANGED creating
       \/ n \notin room /\ creating' = creating \cup {n} /\ Goto(n, "creating") /\ UNCHANGED peers
    /\ UNCHANGED <<redisVars, leaseVars, asked, acquiring, room, slipped, stale>>

\* The router was created: it is closed again when the token has gone.
Created(n) ==
    /\ job[n].stage = "creating"
    /\ \/ /\ n \in creating
          /\ room' = room \cup {n}
          /\ creating' = creating \ {n}
          /\ Entered(n) /\ Done(n)
          /\ UNCHANGED <<redisVars, leaseVars, slipped, stale>>
       \/ n \notin creating /\ GiveUp(n)
    /\ UNCHANGED <<asked, acquiring>>

\* A call of the command fails: Redis, the database, the socket or the SFU.
CommandFails(n) ==
    /\ job[n] # Idle
    /\ \/ Answer(n, "GET")
       \/ UNCHANGED asked /\ \A i \in DOMAIN asked[n] : asked[n][i] # "GET"
    /\ \/ job[n].stage = "first" /\ job[n].kind # "check" /\ Keep /\ Done(n)
       \/ /\ job[n].stage \in {"first", "publishing"} /\ job[n].kind = "check"
          /\ CloseRoom(n) /\ UNCHANGED <<redisVars, leaseVars>> /\ Done(n)
       \/ /\ job[n].stage \in {"authorize", "second", "entering", "creating"}
          /\ job[n].kind # "check" /\ GiveUp(n)
    /\ UNCHANGED acquiring

-----------------------------------------------------------------------------
(***************************************************************************)
(* Timers and failures, outside the queue.                                 *)
(***************************************************************************)

\* Each second, before anything is asked of Redis.
Heartbeat(n) ==
    /\ lease[n] = Fence
    /\ Lose(n)
    /\ UNCHANGED <<asked, acquiring, job>>

\* Mutant: a slow renewal does not keep the next timer from another one.
RenewAgain(n) ==
    /\ lease[n] # None
    /\ renewal' = [renewal EXCEPT ![n] = IF owner = n THEN 0 ELSE Fence]
    /\ Ask(n, "RENEW")
    /\ ttl' = IF owner = n THEN Lease ELSE ttl
    /\ UNCHANGED <<owner, lease, acquiring, job, mediaVars>>

\* OWNER_RENEW is evaluated ...
Renew(n) ==
    /\ lease[n] # None /\ renewal[n] = None
    /\ renewal' = [renewal EXCEPT ![n] = IF owner = n THEN 0 ELSE Fence]
    /\ Ask(n, "RENEW")
    /\ ttl' = IF owner = n THEN Lease ELSE ttl
    /\ UNCHANGED <<owner, lease, acquiring, job, mediaVars>>

\* ... and answered, perhaps late: a fenced lease does not come back.
RenewAnswer(n) ==
    /\ Answer(n, "RENEW")
    /\ renewal' = [renewal EXCEPT ![n] = None]
    /\ IF renewal[n] < Fence
       THEN lease' = [lease EXCEPT ![n] = renewal[n]] /\ UNCHANGED mediaVars
       ELSE lease' = [lease EXCEPT ![n] = None] /\ CloseRoom(n)
    /\ UNCHANGED <<redisVars, acquiring, job>>

\* The safety deadline: a participant was not authorized for 20 seconds.
Sweep(n) ==
    /\ \E u \in User : peers[n][u] = Fence
    /\ Quit(n)
    /\ UNCHANGED <<asked, acquiring, job>>

\* A connection to Redis breaks: leased rooms are closed.  Calls that are not
\* answered fail with it, unless it is the connection of the subscriber.
RedisError(n) ==
    /\ lease' = [lease EXCEPT ![n] = None]
    /\ IF lease[n] # None THEN CloseRoom(n) ELSE UNCHANGED mediaVars
    /\ \/ /\ asked' = [asked EXCEPT ![n] = <<>>]
          /\ renewal' = [renewal EXCEPT ![n] = None]
          /\ acquiring' = [acquiring EXCEPT ![n] = None]
       \/ /\ renewal' = [renewal EXCEPT ![n] = IF @ = None THEN None ELSE Fence]
          /\ UNCHANGED <<asked, acquiring>>
    /\ UNCHANGED <<redisVars, job>>

\* What a process keeps in memory is gone; its successor has another id.
Vanish(n) ==
    /\ lease' = [lease EXCEPT ![n] = None]
    /\ renewal' = [renewal EXCEPT ![n] = None]
    /\ asked' = [asked EXCEPT ![n] = <<>>]
    /\ acquiring' = [acquiring EXCEPT ![n] = None]
    /\ Done(n)
    /\ room' = room \ {n} /\ creating' = creating \ {n} /\ slipped' = slipped \ {n}
    /\ peers' = [peers EXCEPT ![n] = NoPeers]
    /\ stale' = [stale EXCEPT ![n] = 0]

Crash(n) ==
    /\ Vanish(n)
    /\ owner' = IF owner = n THEN Dead ELSE owner
    /\ UNCHANGED ttl

\* onModuleDestroy: only a key with a local lease is given back; if that fails,
\* the key names a process that is gone.
Shutdown(n) ==
    /\ Vanish(n)
    /\ \/ /\ lease[n] # None
          /\ owner' = IF owner = n THEN None ELSE owner
          /\ ttl' = IF owner = n THEN 0 ELSE ttl
       \/ /\ owner' = IF owner = n THEN Dead ELSE owner
          /\ UNCHANGED ttl

\* The age of an authorization matters to a join only.
Joining(n) == job[n].stage \in {"second", "entering", "creating"} /\ job[n].kind = "join"

Older(age) == IF age = None \/ age = Fence THEN age ELSE age + 1

\* Ten seconds pass, unless a timer that runs every second is due.
Tick ==
    /\ \A n \in Node : lease[n] # Fence /\ \A u \in User : peers[n][u] # Fence
    /\ owner' = IF ttl <= 1 THEN None ELSE owner
    /\ ttl' = IF ttl = 0 THEN 0 ELSE ttl - 1
    /\ lease' = [n \in Node |-> Older(lease[n])]
    /\ acquiring' = [n \in Node |-> Older(acquiring[n])]
    /\ renewal' = [n \in Node |-> Older(renewal[n])]
    /\ job' = [n \in Node |-> IF Joining(n) THEN [job[n] EXCEPT !.age = Older(@)] ELSE job[n]]
    /\ peers' = [n \in Node |-> [u \in User |-> Older(peers[n][u])]]
    /\ stale' = [n \in Node |-> IF n \notin room \/ owner = n THEN 0
                                ELSE IF stale[n] > Fence THEN stale[n] ELSE stale[n] + 1]
    /\ UNCHANGED <<asked, room, creating, slipped>>

-----------------------------------------------------------------------------
Cluster(n) ==
    \/ Acquire(n)
    \/ Acquired(n)
    \/ Heartbeat(n)
    \/ Renew(n)
    \/ RenewAnswer(n)
    \/ RedisError(n)

Gateway(n) ==
    \/ \E kind \in {"join", "leave", "use"}, u \in User : Receive(n, kind, u)
    \/ Misrouted(n)
    \/ Revalidate(n)
    \/ FirstAnswer(n)
    \/ Left(n)
    \/ \E u \in User : Confirmed(n, u) \/ Authorized(n, u) \/ Denied(n, u)
    \/ Published(n)
    \/ SecondAnswer(n)
    \/ Enter(n)
    \/ Created(n)
    \/ CommandFails(n)
    \/ Sweep(n)

Next ==
    \/ \E n \in Node : Cluster(n) \/ Gateway(n) \/ Crash(n) \/ Shutdown(n)
    \/ Tick

Spec == Init /\ [][Next]_vars

-----------------------------------------------------------------------------
(***************************************************************************)
(* Properties.                                                             *)
(***************************************************************************)

\* A room that a node serves under a lease it may still use is its own in
\* Redis, and the key outlives the fence: no other replica serves the same
\* room under a lease.
LeasedRoomIsOwned ==
    \A n \in room : Fresh(n) => owner = n /\ ttl + lease[n] >= Lease

\* A lost lease takes the room with it, also one that is being created.  The
\* only way round is a join that had passed its check and not begun to create.
UnleasedRoomSlippedIn ==
    \A n \in room : lease[n] = None => n \in slipped

\* A room on a node that Redis does not name is gone within the deadline of
\* 20 seconds, whatever calls hang: nothing authorizes its participants anew.
StaleRoomEnds ==
    \A n \in Node : stale[n] <= Fence

\* The room keeps the promise of RoomPromise: its holder is the key in Redis, and
\* it is served by who has a router and a lease that may be used.
Promise == INSTANCE RoomPromise WITH
    holder <- owner, left <- ttl, serving <- {n \in room : Fresh(n)}

KeepsRoomPromise == Promise!PromiseSpec

\* An owner that lost Redis or its lease has no media room (docs/saas-voice.md).
RoomNeedsLease ==
    \A n \in room : lease[n] # None

=============================================================================
