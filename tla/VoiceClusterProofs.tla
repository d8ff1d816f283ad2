------------------------- MODULE VoiceClusterProofs -------------------------
(***************************************************************************)
(* Proofs about VoiceCluster, for any replicas, people, lease and fence.   *)
(*                                                                         *)
(* UnleasedRoomSlippedIn speaks of rooms.  A room comes from a creation,   *)
(* and that from a join which had passed its checks: VoiceInv says of all  *)
(* three what the property says of the room.  It also says that no call to *)
(* Redis is under way twice, and that a node knows of its own calls, so    *)
(* that an answer never takes a lease away without closing the room.       *)
(*                                                                         *)
(* LeasedRoomIsOwned and StaleRoomEnds follow from LeaseInv, which says of *)
(* each node what it relies on: its lease, what may renew it, its command  *)
(* and the people in its room.  From it follows as well that the cluster   *)
(* implements RoomPromise, one lock with a lease.                          *)
(***************************************************************************)
EXTENDS VoiceCluster, TLAPS

Call == {"SET", "GET", "RENEW"}

Has(q, call) == \E i \in DOMAIN q : q[i] = call

Distinct(q) == \A i, j \in DOMAIN q : q[i] = q[j] => i = j

CallsAreKnown ==
    /\ asked \in [Node -> Seq(Call)]
    /\ \A n \in Node :
          /\ Distinct(asked[n])
          /\ Has(asked[n], "SET") => acquiring[n] # None
          /\ Has(asked[n], "RENEW") => renewal[n] # None
          /\ Has(asked[n], "GET") => job[n].stage \in {"first", "second"}

\* A node that has a room, creates one, or will, without a lease.
UnleasedSlips ==
    \A n \in Node :
        /\ lease[n] = None
        /\ n \in room \cup creating \/ job[n].stage \in {"second", "entering"}
        => n \in slipped

\* TypeOK but for the calls.
RoomsTyped ==
    /\ room \subseteq Node
    /\ creating \subseteq Node
    /\ peers \in [Node -> [User -> Age \cup {None}]]
    /\ slipped \subseteq Node
    /\ stale \in [Node -> 0..Fence + 1]

LeasesTyped ==
    /\ owner \in Node \cup {None, Dead}
    /\ ttl \in 0..Lease
    /\ lease \in [Node -> Age \cup {None}]
    /\ renewal \in [Node -> Age \cup {None}]

JobsTyped == job \in [Node -> Job \cup {Idle}]

StateTyped ==
    /\ RoomsTyped
    /\ LeasesTyped
    /\ JobsTyped
    /\ acquiring \in [Node -> Age \cup {None}]

VoiceInv == StateTyped /\ CallsAreKnown /\ UnleasedSlips

-----------------------------------------------------------------------------
\* A call that is not under way joins the queue.
LEMMA AskedOnce ==
    ASSUME NEW q \in Seq(Call), NEW call \in Call, Distinct(q), ~Has(q, call)
    PROVE  /\ Append(q, call) \in Seq(Call)
           /\ Distinct(Append(q, call))
           /\ \A c : Has(Append(q, call), c) => c = call \/ Has(q, c)
  BY DEF Distinct, Has

\* The answer of the first call takes it, and it alone, from the queue.
LEMMA AnsweredOnce ==
    ASSUME NEW q \in Seq(Call), Distinct(q), q # <<>>
    PROVE  /\ Tail(q) \in Seq(Call)
           /\ Distinct(Tail(q))
           /\ Has(q, Head(q)) /\ ~Has(Tail(q), Head(q))
           /\ \A c : Has(Tail(q), c) => Has(q, c)
  BY DEF Distinct, Has

\* Three different calls at most.
LEMMA FewCalls ==
    ASSUME NEW q \in Seq(Call), Distinct(q) PROVE Len(q) <= 3
<1> SUFFICES ASSUME Len(q) >= 4 PROVE FALSE
  OBVIOUS
<1>1. \A i \in {1, 2, 3, 4} : i \in DOMAIN q /\ q[i] \in Call
  OBVIOUS
<1>. QED
  BY <1>1 DEF Distinct, Call

-----------------------------------------------------------------------------
(***************************************************************************)
(* Types, first of what several handlers do.                               *)
(***************************************************************************)
\* closeRoom.
LEMMA CloseTyped ==
    ASSUME RoomsTyped, NEW n \in Node, CloseRoom(n) PROVE RoomsTyped'
<1>1. stale' \in [Node -> 0..Fence + 1]
  BY VoiceAssumption DEF RoomsTyped, CloseRoom
<1>2. peers' \in [Node -> [User -> Age \cup {None}]]
  BY DEF RoomsTyped, CloseRoom, NoPeers
<1>. QED
  BY <1>1, <1>2 DEF RoomsTyped, CloseRoom

\* The lease is forgotten, and the key perhaps deleted.
LEMMA ForgetTyped ==
    ASSUME LeasesTyped, NEW n \in Node, Forget(n), Unlock(n) \/ UNCHANGED redisVars
    PROVE  LeasesTyped'
<1>1. owner' \in Node \cup {None, Dead} /\ ttl' \in 0..Lease
  BY VoiceAssumption DEF LeasesTyped, Unlock, redisVars
<1>2. Fence \in Age
  BY VoiceAssumption DEF Age
<1>3. lease' \in [Node -> Age \cup {None}] /\ renewal' \in [Node -> Age \cup {None}]
  BY <1>2 DEF LeasesTyped, Forget
<1>. QED
  BY <1>1, <1>3 DEF LeasesTyped

\* Nothing of rooms and leases changes.
LEMMA KeepTyped ==
    ASSUME RoomsTyped, LeasesTyped, Keep PROVE RoomsTyped' /\ LeasesTyped'
  BY DEF RoomsTyped, LeasesTyped, Keep, redisVars, leaseVars, mediaVars

\* Lease and room go together.
LEMMA LoseTyped ==
    ASSUME RoomsTyped, LeasesTyped, NEW n \in Node, Lose(n) \/ Quit(n)
    PROVE  RoomsTyped' /\ LeasesTyped'
  BY CloseTyped, ForgetTyped DEF Lose, Quit

\* A participant leaves a room that others stay in.
LEMMA RemoveTyped ==
    ASSUME RoomsTyped, LeasesTyped, NEW n \in Node, NEW u \in User, Remove(n, u)
    PROVE  RoomsTyped' /\ LeasesTyped'
<1>1. stale' \in [Node -> 0..Fence + 1]
  BY VoiceAssumption DEF RoomsTyped, Remove
<1>2. peers' \in [Node -> [User -> Age \cup {None}]]
  BY DEF RoomsTyped, Remove
<1>. QED
  BY <1>1, <1>2 DEF RoomsTyped, LeasesTyped, Remove, redisVars, leaseVars

\* A node at a stage has a command.
LEMMA Busy ==
    ASSUME JobsTyped, NEW n \in Node, job[n].stage \in Stage PROVE job[n] \in Job
<1>1. Idle.stage \notin Stage
  BY DEF Idle, Stage
<1>. QED
  BY <1>1 DEF JobsTyped

\* A node gets another command, or none.
LEMMA PutTyped ==
    ASSUME JobsTyped, NEW n \in Node, NEW j \in Job \cup {Idle}, job' = [job EXCEPT ![n] = j]
    PROVE  JobsTyped'
  BY DEF JobsTyped

\* A command ends.
LEMMA DoneTyped ==
    ASSUME JobsTyped, NEW n \in Node, Done(n) PROVE JobsTyped'
  BY PutTyped DEF Done

\* A command reaches its next stage.
LEMMA GotoTyped ==
    ASSUME JobsTyped, NEW n \in Node, job[n].stage \in Stage, NEW stage \in Stage, Goto(n, stage)
    PROVE  JobsTyped'
<1>1. [job[n] EXCEPT !.stage = stage] \in Job
  BY Busy DEF Job
<1>. QED
  BY <1>1, PutTyped DEF Goto

\* The command of a revalidation.
LEMMA CheckingTyped ==
    ASSUME NEW j \in Job, NEW u PROVE Checking(j, u) \in Job
  BY DEF Checking, Job, Stage

\* The command that removes a participant.
LEMMA RemovingTyped ==
    ASSUME NEW j \in Job, NEW u PROVE Removing(j, u) \in Job
  BY DEF Removing, Job, Stage

\* The head of the queue: the first question, or the end of a stale lease.
LEMMA StartTyped ==
    ASSUME RoomsTyped, LeasesTyped, JobsTyped, NEW n \in Node, NEW kind \in Command,
           NEW users \in SUBSET User, Start(n, kind, users)
    PROVE  RoomsTyped' /\ LeasesTyped' /\ JobsTyped'
<1>1. CASE Fresh(n)
  <2>1. [kind |-> kind, users |-> users, stage |-> "first", ok |-> owner = n, age |-> 0] \in Job
    BY VoiceAssumption DEF Job, Stage, Age
  <2>. QED
    BY <1>1, <2>1, PutTyped, KeepTyped DEF Start
<1>2. CASE ~Fresh(n)
  BY <1>2, LoseTyped DEF Start, JobsTyped
<1>. QED
  BY <1>1, <1>2

\* A command without effect: an empty room gives its lease back.
LEMMA GiveUpTyped ==
    ASSUME RoomsTyped, LeasesTyped, JobsTyped, NEW n \in Node, GiveUp(n)
    PROVE  RoomsTyped' /\ LeasesTyped' /\ JobsTyped'
  BY KeepTyped, LoseTyped, DoneTyped DEF GiveUp

\* A participant was authorized anew.
LEMMA RenewedTyped ==
    ASSUME RoomsTyped, NEW n \in Node, NEW u \in User, peers' = Renewed(n, u)
    PROVE  peers' \in [Node -> [User -> Age \cup {None}]]
<1>1. 0 \in Age
  BY VoiceAssumption DEF Age
<1>. QED
  BY <1>1 DEF RoomsTyped, Renewed

\* The participants of a join enter.
LEMMA EnteredTyped ==
    ASSUME RoomsTyped, NEW n \in Node, job[n].age \in Age, Entered(n)
    PROVE  peers' \in [Node -> [User -> Age \cup {None}]]
  BY DEF RoomsTyped, Entered

\* Every step keeps every variable in its type.
LEMMA TypedStep == VoiceInv /\ [Next]_vars => StateTyped'
<1> SUFFICES ASSUME VoiceInv, [Next]_vars PROVE StateTyped'
  OBVIOUS
<1> USE VoiceAssumption DEF VoiceInv, StateTyped
<1>0. /\ 0 \in Age /\ Fence \in Age
      /\ \A n \in Node : job[n].stage \in Stage => job[n] \in Job
  BY Busy DEF Age
<1>1. ASSUME NEW n \in Node, Acquire(n) PROVE StateTyped'
  BY <1>0, <1>1
  DEF Acquire, RoomsTyped, LeasesTyped, JobsTyped, leaseVars, mediaVars
<1>2. ASSUME NEW n \in Node, Acquired(n) PROVE StateTyped'
  <2>1. RoomsTyped' /\ JobsTyped'
    BY <1>2 DEF Acquired, RoomsTyped, JobsTyped, mediaVars
  <2>2. LeasesTyped'
    BY <1>0, <1>2 DEF Acquired, LeasesTyped, redisVars
  <2>. QED
    BY <1>2, <2>1, <2>2 DEF Acquired
<1>3. ASSUME NEW n \in Node, Heartbeat(n) \/ Misrouted(n) PROVE StateTyped'
  BY <1>3, LoseTyped DEF Heartbeat, Misrouted, JobsTyped
<1>4. ASSUME NEW n \in Node, Renew(n) PROVE StateTyped'
  <2>1. LeasesTyped'
    BY <1>0, <1>4 DEF Renew, LeasesTyped
  <2>. QED
    BY <1>4, <2>1 DEF Renew, RoomsTyped, JobsTyped, mediaVars
<1>5. ASSUME NEW n \in Node, RenewAnswer(n) PROVE StateTyped'
  <2>1. LeasesTyped' /\ acquiring' = acquiring /\ job' = job
    BY <1>5 DEF RenewAnswer, LeasesTyped, redisVars
  <2>2. RoomsTyped'
    BY <1>5, CloseTyped DEF RenewAnswer, RoomsTyped, mediaVars
  <2>. QED
    BY <2>1, <2>2 DEF JobsTyped
<1>6. ASSUME NEW n \in Node, RedisError(n) PROVE StateTyped'
  <2>1. LeasesTyped'
    BY <1>0, <1>6 DEF RedisError, LeasesTyped, redisVars
  <2>2. RoomsTyped'
    BY <1>6, CloseTyped DEF RedisError, RoomsTyped, mediaVars
  <2>3. acquiring' \in [Node -> Age \cup {None}] /\ JobsTyped'
    BY <1>6 DEF RedisError, JobsTyped
  <2>. QED
    BY <2>1, <2>2, <2>3
<1>7. ASSUME NEW n \in Node, NEW kind \in {"join", "leave", "use"}, NEW u \in User,
             Receive(n, kind, u)
      PROVE  StateTyped'
  BY <1>7, StartTyped DEF Receive, Command
<1>8. ASSUME NEW n \in Node, Revalidate(n) PROVE StateTyped'
  BY <1>8, StartTyped DEF Revalidate, Command, Present
<1>9. ASSUME NEW n \in Node, FirstAnswer(n) PROVE StateTyped'
  <2>1. job[n].stage \in Stage /\ job[n].users \subseteq User /\ acquiring' = acquiring
    BY <1>0, <1>9 DEF FirstAnswer, Stage, Job
  <2>2. RoomsTyped' /\ LeasesTyped'
    BY <1>9, <2>1, LoseTyped, RemoveTyped, KeepTyped DEF FirstAnswer
  <2>3. JobsTyped'
    BY <1>9, <2>1, DoneTyped, GotoTyped DEF FirstAnswer, Stage
  <2>. QED
    BY <2>1, <2>2, <2>3
<1>10. ASSUME NEW n \in Node, Left(n) PROVE StateTyped'
  <2>1. job[n] \in Job
    BY <1>0, <1>10 DEF Left, Stage
  <2>2. JobsTyped'
    BY <1>10, <2>1, CheckingTyped, PutTyped DEF Left
  <2>. QED
    BY <1>10, <2>2, LoseTyped, KeepTyped DEF Left
<1>11. ASSUME NEW n \in Node, NEW u \in User, Confirmed(n, u) PROVE StateTyped'
  <2>1. job[n] \in Job
    BY <1>0, <1>11 DEF Confirmed, Stage
  <2>2. JobsTyped'
    BY <1>11, <2>1, CheckingTyped, PutTyped DEF Confirmed
  <2>3. peers' \in [Node -> [User -> Age \cup {None}]]
    BY <1>11, RenewedTyped DEF Confirmed
  <2>. QED
    BY <1>11, <2>2, <2>3 DEF Confirmed, RoomsTyped, LeasesTyped, redisVars, leaseVars
<1>12. ASSUME NEW n \in Node, NEW u \in User, Authorized(n, u) PROVE StateTyped'
  <2>1. job[n] \in Job /\ acquiring' = acquiring
    BY <1>0, <1>12 DEF Authorized, Stage
  <2>2. CASE Fresh(n)
    <3>1. [job[n] EXCEPT !.stage = "second", !.ok = (owner = n), !.age = 0] \in Job
      BY <1>0, <2>1 DEF Job, Stage
    <3>2. JobsTyped'
      BY <1>12, <2>2, <3>1, PutTyped DEF Authorized
    <3>3. peers' \in [Node -> [User -> Age \cup {None}]]
      BY <1>12, <2>2, RenewedTyped DEF Authorized
    <3>. QED
      BY <1>12, <2>1, <2>2, <3>2, <3>3
      DEF Authorized, RoomsTyped, LeasesTyped, redisVars, leaseVars
  <2>3. CASE ~Fresh(n)
    BY <1>12, <2>1, <2>3, LoseTyped, DoneTyped DEF Authorized
  <2>. QED
    BY <2>2, <2>3
<1>13. ASSUME NEW n \in Node, NEW u \in User, Denied(n, u) PROVE StateTyped'
  <2>1. job[n] \in Job /\ acquiring' = acquiring
    BY <1>0, <1>13 DEF Denied, Stage
  <2>2. CASE peers[n][u] # None
    <3>1. Remove(n, u) /\ job' = [job EXCEPT ![n] = Removing(job[n], u)]
      BY <1>13, <2>2 DEF Denied
    <3>2. JobsTyped'
      BY <2>1, <3>1, RemovingTyped, PutTyped
    <3>. QED
      BY <2>1, <3>1, <3>2, RemoveTyped
  <2>3. CASE peers[n][u] = None
    <3>1. \/ GiveUp(n)
          \/ Keep /\ job' = [job EXCEPT ![n] = Checking(job[n], u)]
      BY <1>13, <2>3 DEF Denied
    <3>. QED
      BY <2>1, <3>1, GiveUpTyped, KeepTyped, CheckingTyped, PutTyped
  <2>. QED
    BY <2>2, <2>3
<1>14. ASSUME NEW n \in Node, Published(n) PROVE StateTyped'
  BY <1>14, KeepTyped, DoneTyped DEF Published
<1>15. ASSUME NEW n \in Node, SecondAnswer(n) PROVE StateTyped'
  <2>1. job[n].stage \in Stage /\ acquiring' = acquiring
    BY <1>15 DEF SecondAnswer, Stage
  <2>2. \/ Quit(n) /\ Done(n)
        \/ Keep /\ Goto(n, "entering")
        \/ GiveUp(n)
    BY <1>15 DEF SecondAnswer
  <2>. QED
    BY <2>1, <2>2, LoseTyped, KeepTyped, DoneTyped, GotoTyped, GiveUpTyped DEF Stage
<1>16. ASSUME NEW n \in Node, Enter(n) PROVE StateTyped'
  <2>1. job[n] \in Job /\ job[n].stage \in Stage /\ job[n].age \in Age
    BY <1>0, <1>16 DEF Enter, Stage, Job
  <2>2. JobsTyped'
    BY <1>16, <2>1, DoneTyped, GotoTyped DEF Enter, Stage
  <2>3. peers' \in [Node -> [User -> Age \cup {None}]]
    <3>1. Entered(n) \/ peers' = peers
      BY <1>16 DEF Enter
    <3>2. CASE Entered(n)
      BY <2>1, <3>2, EnteredTyped
    <3>. QED
      BY <3>1, <3>2 DEF RoomsTyped
  <2>. QED
    BY <1>16, <2>2, <2>3 DEF Enter, RoomsTyped, LeasesTyped, redisVars, leaseVars
<1>17. ASSUME NEW n \in Node, Created(n) PROVE StateTyped'
  <2>1. job[n] \in Job /\ job[n].age \in Age /\ acquiring' = acquiring
    BY <1>0, <1>17 DEF Created, Stage, Job
  <2>2. CASE n \in creating
    <3>1. peers' \in [Node -> [User -> Age \cup {None}]] /\ JobsTyped'
      BY <1>17, <2>1, <2>2, EnteredTyped, DoneTyped DEF Created
    <3>. QED
      BY <1>17, <2>1, <2>2, <3>1 DEF Created, RoomsTyped, LeasesTyped, redisVars, leaseVars
  <2>3. CASE n \notin creating
    BY <1>17, <2>1, <2>3, GiveUpTyped DEF Created
  <2>. QED
    BY <2>2, <2>3
<1>18. ASSUME NEW n \in Node, CommandFails(n) PROVE StateTyped'
  <2>1. /\ acquiring' = acquiring
        /\ \/ Keep /\ Done(n)
           \/ CloseRoom(n) /\ UNCHANGED <<redisVars, leaseVars>> /\ Done(n)
           \/ GiveUp(n)
    BY <1>18 DEF CommandFails
  <2>2. ASSUME UNCHANGED <<redisVars, leaseVars>> PROVE LeasesTyped'
    BY <2>2 DEF LeasesTyped, redisVars, leaseVars
  <2>. QED
    BY <2>1, <2>2, KeepTyped, CloseTyped, DoneTyped, GiveUpTyped
<1>19. ASSUME NEW n \in Node, Sweep(n) PROVE StateTyped'
  BY <1>19, LoseTyped DEF Sweep, JobsTyped
<1>20. ASSUME NEW n \in Node, Crash(n) \/ Shutdown(n) PROVE StateTyped'
  <2>1. owner' \in Node \cup {None, Dead} /\ ttl' \in 0..Lease
    <3>1. CASE Crash(n)
      BY <3>1 DEF Crash, LeasesTyped
    <3>2. CASE Shutdown(n)
      <4>1. owner' \in {owner, None, Dead} /\ ttl' \in {0, ttl}
        BY <3>2 DEF Shutdown, Unlock, redisVars
      <4>. QED
        BY <4>1 DEF LeasesTyped
    <3>. QED
      BY <1>20, <3>1, <3>2
  <2>2. Vanish(n)
    BY <1>20 DEF Crash, Shutdown
  <2>3. RoomsTyped'
    BY <2>2 DEF Vanish, RoomsTyped, NoPeers
  <2>. QED
    BY <2>1, <2>2, <2>3, DoneTyped DEF Vanish, LeasesTyped
<1>21. ASSUME Tick PROVE StateTyped'
  <2>1. \A age \in Age \cup {None} : Older(age) \in Age \cup {None}
    BY DEF Older, Age
  <2>2. LeasesTyped' /\ acquiring' \in [Node -> Age \cup {None}]
    <3>1. owner' \in Node \cup {None, Dead} /\ ttl' \in 0..Lease
      <4>1. owner' \in {owner, None} /\ ttl' = IF ttl = 0 THEN 0 ELSE ttl - 1
        BY <1>21 DEF Tick
      <4>. QED
        BY <4>1 DEF LeasesTyped
    <3>2. /\ lease' \in [Node -> Age \cup {None}]
          /\ renewal' \in [Node -> Age \cup {None}]
          /\ acquiring' \in [Node -> Age \cup {None}]
      BY <1>21, <2>1 DEF Tick, LeasesTyped
    <3>. QED
      BY <3>1, <3>2 DEF LeasesTyped
  <2>3. JobsTyped'
    <3>1. ASSUME NEW n \in Node, Joining(n)
          PROVE  [job[n] EXCEPT !.age = Older(@)] \in Job
      <4>1. job[n] \in Job /\ job[n].age \in Age
        BY <1>0, <3>1 DEF Joining, Stage, Job
      <4>2. Older(job[n].age) \in Age
        BY <4>1 DEF Older, Age
      <4>. QED
        BY <4>1, <4>2 DEF Job
    <3>. QED
      BY <1>21, <3>1 DEF Tick, JobsTyped
  <2>4. stale' \in [Node -> 0..Fence + 1]
    BY <1>21 DEF Tick, RoomsTyped
  <2>5. peers' \in [Node -> [User -> Age \cup {None}]]
    BY <1>21, <2>1 DEF Tick, RoomsTyped
  <2>. QED
    BY <1>21, <2>2, <2>3, <2>4, <2>5 DEF Tick, RoomsTyped
<1>22. ASSUME UNCHANGED vars PROVE StateTyped'
  BY <1>22
  DEF vars, redisVars, leaseVars, mediaVars, RoomsTyped, LeasesTyped, JobsTyped
<1>. QED
  BY <1>1, <1>2, <1>3, <1>4, <1>5, <1>6, <1>7, <1>8, <1>9, <1>10, <1>11, <1>12,
     <1>13, <1>14, <1>15, <1>16, <1>17, <1>18, <1>19, <1>20, <1>21, <1>22
  DEF Next, Cluster, Gateway

-----------------------------------------------------------------------------
(***************************************************************************)
(* Calls to Redis.  What a step does to the calls of one node is one of    *)
(* three things; the nodes beside it are as they were.                     *)
(***************************************************************************)
NodeCalls(n, q, acquires, renews, stage) ==
    /\ q \in Seq(Call)
    /\ Distinct(q)
    /\ Has(q, "SET") => acquires # None
    /\ Has(q, "RENEW") => renews # None
    /\ Has(q, "GET") => stage \in {"first", "second"}

\* The calls of a node are a matter of its own state.
LEMMA CallsByNode ==
    CallsAreKnown <=> /\ asked \in [Node -> Seq(Call)]
                      /\ \A n \in Node : NodeCalls(n, asked[n], acquiring[n], renewal[n], job[n].stage)
  BY DEF CallsAreKnown, NodeCalls

\* A step of node n that leaves the others alone.
LEMMA CallsOfOthers ==
    ASSUME CallsAreKnown, NEW n \in Node, NEW q \in Seq(Call),
           asked' = [asked EXCEPT ![n] = q],
           \A k \in Node \ {n} : /\ acquiring'[k] = acquiring[k]
                                 /\ renewal'[k] = renewal[k]
                                 /\ job'[k] = job[k],
           NodeCalls(n, q, acquiring'[n], renewal'[n], job'[n].stage)
    PROVE  CallsAreKnown'
<1>1. asked' \in [Node -> Seq(Call)]
  BY DEF CallsAreKnown
<1>2. ASSUME NEW k \in Node
      PROVE  NodeCalls(k, asked'[k], acquiring'[k], renewal'[k], job'[k].stage)
  <2>1. CASE k = n
    BY <2>1 DEF CallsAreKnown
  <2>2. CASE k # n
    BY <2>2 DEF CallsAreKnown, NodeCalls
  <2>. QED
    BY <2>1, <2>2
<1>. QED
  BY <1>1, <1>2 DEF CallsAreKnown, NodeCalls

RenewalKept == \A k \in Node : renewal'[k] = None <=> renewal[k] = None

OthersWork(n) == \A k \in Node \ {n} : job'[k] = job[k]

\* Losing a lease does not end a renewal that is under way.
LEMMA RenewalStays ==
    ASSUME LeasesTyped, NEW n \in Node,
           \/ Keep \/ Lose(n) \/ Quit(n) \/ UNCHANGED leaseVars
           \/ \E u \in User : Remove(n, u)
    PROVE  RenewalKept
<1>1. Fence # None
  BY VoiceAssumption
<1>2. ASSUME Forget(n) PROVE RenewalKept
  BY <1>1, <1>2 DEF Forget, RenewalKept, LeasesTyped
<1>3. ASSUME UNCHANGED leaseVars PROVE RenewalKept
  BY <1>3 DEF RenewalKept, leaseVars
<1>. QED
  BY <1>2, <1>3 DEF Keep, Lose, Quit, Remove

\* Steps that neither ask nor are answered.
LEMMA CallsStay ==
    ASSUME CallsAreKnown, NEW n \in Node, UNCHANGED <<asked, acquiring>>, RenewalKept,
           OthersWork(n), job[n].stage \notin {"first", "second"} \/ job' = job
    PROVE  CallsAreKnown'
  BY DEF CallsAreKnown, RenewalKept, OthersWork

\* The answer of an ownership question.
LEMMA GetAnswered ==
    ASSUME CallsAreKnown, NEW n \in Node, Answer(n, "GET"), UNCHANGED acquiring, RenewalKept,
           OthersWork(n)
    PROVE  CallsAreKnown'
<1> DEFINE q == Tail(asked[n])
<1>1. asked' = [asked EXCEPT ![n] = q] /\ asked[n] # <<>> /\ Head(asked[n]) = "GET"
  BY DEF Answer
<1>2. NodeCalls(n, q, acquiring'[n], renewal'[n], job'[n].stage) /\ q \in Seq(Call)
  BY <1>1, AnsweredOnce DEF CallsAreKnown, NodeCalls, RenewalKept
<1>. QED
  BY <1>1, <1>2, CallsOfOthers DEF RenewalKept, OthersWork, CallsAreKnown, NodeCalls

\* A call of another kind than those under way.
LEMMA CallAsked ==
    ASSUME CallsAreKnown, NEW n \in Node, NEW call \in Call, Ask(n, call),
           ~Has(asked[n], call),
           \A k \in Node \ {n} : /\ acquiring'[k] = acquiring[k]
                                 /\ renewal'[k] = renewal[k]
                                 /\ job'[k] = job[k],
           acquiring'[n] = acquiring[n] \/ acquiring'[n] # None,
           renewal'[n] = renewal[n] \/ renewal'[n] # None,
           job'[n] = job[n] \/ job[n] = Idle \/ ~Has(asked[n], "GET"),
           call = "SET" => acquiring'[n] # None,
           call = "RENEW" => renewal'[n] # None,
           call = "GET" => job'[n].stage \in {"first", "second"}
    PROVE  CallsAreKnown'
<1> DEFINE q == Append(asked[n], call)
<1>1. asked' = [asked EXCEPT ![n] = q]
  BY DEF Ask
<1>2. job[n] = Idle => ~Has(asked[n], "GET")
  BY DEF CallsAreKnown, Idle
<1>3. NodeCalls(n, q, acquiring'[n], renewal'[n], job'[n].stage) /\ q \in Seq(Call)
  BY <1>2, AskedOnce DEF CallsAreKnown, NodeCalls
<1>. QED
  BY <1>1, <1>3, CallsOfOthers

\* A command starts with a question of its own.
LEMMA StartCalls ==
    ASSUME LeasesTyped, JobsTyped, CallsAreKnown, NEW n \in Node, NEW kind, NEW users,
           Start(n, kind, users), UNCHANGED acquiring
    PROVE  CallsAreKnown'
<1>1. CASE Fresh(n)
  <2>1. /\ Ask(n, "GET") /\ Keep
        /\ job' = [job EXCEPT ![n] = [kind |-> kind, users |-> users, stage |-> "first",
                                      ok |-> owner = n, age |-> 0]]
        /\ job[n] = Idle
    BY <1>1 DEF Start
  <2>2. ~Has(asked[n], "GET")
    BY <2>1 DEF CallsAreKnown, Idle
  <2>3. job'[n].stage = "first" /\ \A k \in Node \ {n} : job'[k] = job[k]
    BY <2>1 DEF JobsTyped
  <2>4. renewal' = renewal
    BY <2>1 DEF Keep, leaseVars
  <2>. QED
    BY <2>1, <2>2, <2>3, <2>4, CallAsked DEF Call
<1>2. CASE ~Fresh(n)
  BY <1>2, RenewalStays, CallsStay DEF Start, OthersWork
<1>. QED
  BY <1>1, <1>2

\* A call is asked when none of its kind is under way.
LEMMA CallsStep == VoiceInv /\ [Next]_vars => CallsAreKnown'
<1> SUFFICES ASSUME VoiceInv, [Next]_vars PROVE CallsAreKnown'
  OBVIOUS
<1> USE VoiceAssumption DEF VoiceInv, StateTyped, JobsTyped
<1>1. ASSUME NEW n \in Node, Acquire(n) PROVE CallsAreKnown'
  <2>1. /\ ~Has(asked[n], "SET") /\ Ask(n, "SET")
        /\ acquiring' = [acquiring EXCEPT ![n] = 0]
        /\ renewal' = renewal /\ job' = job
    BY <1>1 DEF Acquire, CallsAreKnown, leaseVars
  <2>. QED
    BY <2>1, CallAsked DEF Call
<1>2. ASSUME NEW n \in Node, Acquired(n) PROVE CallsAreKnown'
  <2> DEFINE q == Tail(asked[n])
  <2>1. /\ asked' = [asked EXCEPT ![n] = q] /\ asked[n] # <<>> /\ Head(asked[n]) = "SET"
        /\ \A k \in Node \ {n} : acquiring'[k] = acquiring[k] /\ renewal'[k] = renewal[k]
        /\ renewal'[n] = None <=> renewal[n] = None
        /\ job' = job
    BY <1>2 DEF Acquired, Answer, LeasesTyped
  <2>2. NodeCalls(n, q, acquiring'[n], renewal'[n], job'[n].stage) /\ q \in Seq(Call)
    BY <2>1, AnsweredOnce DEF CallsAreKnown, NodeCalls
  <2>. QED
    BY <2>1, <2>2, CallsOfOthers
<1>3. ASSUME NEW n \in Node, Heartbeat(n) \/ Misrouted(n) \/ Sweep(n) PROVE CallsAreKnown'
  BY <1>3, RenewalStays, CallsStay DEF Heartbeat, Misrouted, Sweep, OthersWork
<1>4. ASSUME NEW n \in Node, Renew(n) PROVE CallsAreKnown'
  <2>1. /\ ~Has(asked[n], "RENEW") /\ Ask(n, "RENEW")
        /\ \A k \in Node \ {n} : renewal'[k] = renewal[k]
        /\ renewal'[n] # None /\ acquiring' = acquiring /\ job' = job
    BY <1>4 DEF Renew, CallsAreKnown, LeasesTyped
  <2>. QED
    BY <2>1, CallAsked DEF Call
<1>5. ASSUME NEW n \in Node, RenewAnswer(n) PROVE CallsAreKnown'
  <2> DEFINE q == Tail(asked[n])
  <2>1. /\ asked' = [asked EXCEPT ![n] = q] /\ asked[n] # <<>> /\ Head(asked[n]) = "RENEW"
        /\ \A k \in Node \ {n} : renewal'[k] = renewal[k]
        /\ acquiring' = acquiring /\ job' = job
    BY <1>5 DEF RenewAnswer, Answer
  <2>2. NodeCalls(n, q, acquiring'[n], renewal'[n], job'[n].stage) /\ q \in Seq(Call)
    BY <2>1, AnsweredOnce DEF CallsAreKnown, NodeCalls
  <2>. QED
    BY <2>1, <2>2, CallsOfOthers
<1>6. ASSUME NEW n \in Node, RedisError(n) PROVE CallsAreKnown'
  <2>1. CASE asked' = [asked EXCEPT ![n] = <<>>]
    <3>1. /\ \A k \in Node \ {n} : acquiring'[k] = acquiring[k] /\ renewal'[k] = renewal[k]
          /\ job' = job
      <4>1. /\ job' = job
            /\ acquiring' \in {acquiring, [acquiring EXCEPT ![n] = None]}
            /\ \/ renewal' = [renewal EXCEPT ![n] = None]
               \/ renewal' = [renewal EXCEPT ![n] = IF @ = None THEN None ELSE Fence]
        BY <1>6 DEF RedisError
      <4>. QED
        BY <4>1 DEF LeasesTyped
    <3>2. NodeCalls(n, <<>>, acquiring'[n], renewal'[n], job'[n].stage) /\ <<>> \in Seq(Call)
      BY DEF NodeCalls, Distinct, Has
    <3>. QED
      BY <2>1, <3>1, <3>2, CallsOfOthers
  <2>2. CASE UNCHANGED asked /\ asked' # [asked EXCEPT ![n] = <<>>]
    <3>1. /\ acquiring' = acquiring /\ job' = job
          /\ renewal' = [renewal EXCEPT ![n] = IF @ = None THEN None ELSE Fence]
      BY <1>6, <2>2 DEF RedisError
    <3>2. RenewalKept
      BY <3>1 DEF RenewalKept, LeasesTyped
    <3>. QED
      BY <2>2, <3>1, <3>2, CallsStay DEF OthersWork
  <2>. QED
    BY <1>6, <2>1, <2>2 DEF RedisError
<1>7. ASSUME NEW n \in Node,
             \/ \E kind \in {"join", "leave", "use"}, u \in User : Receive(n, kind, u)
             \/ Revalidate(n)
      PROVE  CallsAreKnown'
  BY <1>7, StartCalls DEF Receive, Revalidate
<1>8. ASSUME NEW n \in Node, FirstAnswer(n) PROVE CallsAreKnown'
  <2>1. RenewalKept
    <3>1. job[n].users \subseteq User
      BY <1>8, Busy DEF FirstAnswer, Stage, Job
    <3>. QED
      BY <1>8, <3>1, RenewalStays DEF FirstAnswer
  <2>2. OthersWork(n) /\ Answer(n, "GET") /\ acquiring' = acquiring
    BY <1>8 DEF FirstAnswer, OthersWork, Done, Goto
  <2>. QED
    BY <2>1, <2>2, GetAnswered
<1>9. ASSUME NEW n \in Node, SecondAnswer(n) PROVE CallsAreKnown'
  <2>1. RenewalKept
    BY <1>9, RenewalStays DEF SecondAnswer, GiveUp
  <2>2. OthersWork(n) /\ Answer(n, "GET") /\ acquiring' = acquiring
    BY <1>9 DEF SecondAnswer, GiveUp, OthersWork, Done, Goto
  <2>. QED
    BY <2>1, <2>2, GetAnswered
<1>10. ASSUME NEW n \in Node,
              \/ Left(n) \/ Published(n) \/ Enter(n) \/ Created(n)
              \/ \E u \in User : Confirmed(n, u) \/ Denied(n, u)
       PROVE  CallsAreKnown'
  <2>1. RenewalKept
    BY <1>10, RenewalStays
    DEF Left, Published, Enter, Created, Confirmed, Denied, GiveUp
  <2>2. /\ UNCHANGED <<asked, acquiring>> /\ OthersWork(n)
        /\ job[n].stage \notin {"first", "second"}
    BY <1>10
    DEF Left, Published, Enter, Created, Confirmed, Denied, GiveUp, OthersWork, Done, Goto
  <2>. QED
    BY <2>1, <2>2, CallsStay
<1>11. ASSUME NEW n \in Node, NEW u \in User, Authorized(n, u) PROVE CallsAreKnown'
  <2>1. CASE Fresh(n)
    <3>1. /\ ~Has(asked[n], "GET") /\ Ask(n, "GET")
          /\ acquiring' = acquiring /\ renewal' = renewal
          /\ \A k \in Node \ {n} : job'[k] = job[k]
      BY <1>11, <2>1 DEF Authorized, CallsAreKnown, leaseVars
    <3>2. job'[n].stage = "second"
      <4>1. job[n] \in Job
        BY <1>11, Busy DEF Authorized, Stage
      <4>2. [job[n] EXCEPT !.stage = "second", !.ok = (owner = n), !.age = 0].stage = "second"
        BY <4>1 DEF Job
      <4>. QED
        BY <1>11, <2>1, <4>2 DEF Authorized
    <3>. QED
      BY <3>1, <3>2, CallAsked DEF Call
  <2>2. CASE ~Fresh(n)
    <3>1. /\ Quit(n) /\ UNCHANGED <<asked, acquiring>> /\ OthersWork(n)
          /\ job[n].stage \notin {"first", "second"}
      BY <1>11, <2>2 DEF Authorized, OthersWork, Done
    <3>. QED
      BY <3>1, RenewalStays, CallsStay
  <2>. QED
    BY <2>1, <2>2
<1>12. ASSUME NEW n \in Node, CommandFails(n) PROVE CallsAreKnown'
  <2>1. RenewalKept /\ OthersWork(n) /\ acquiring' = acquiring
    BY <1>12, RenewalStays DEF CommandFails, GiveUp, OthersWork, Done
  <2>2. CASE Answer(n, "GET")
    BY <2>1, <2>2, GetAnswered
  <2>3. CASE UNCHANGED asked /\ ~Has(asked[n], "GET")
    BY <2>1, <2>3 DEF CallsAreKnown, RenewalKept, OthersWork
  <2>. QED
    BY <1>12, <2>2, <2>3 DEF CommandFails, Has
<1>13. ASSUME NEW n \in Node, Crash(n) \/ Shutdown(n) PROVE CallsAreKnown'
  <2>1. /\ asked' = [asked EXCEPT ![n] = <<>>]
        /\ \A k \in Node \ {n} : /\ acquiring'[k] = acquiring[k]
                                 /\ renewal'[k] = renewal[k]
                                 /\ job'[k] = job[k]
    <3>1. Vanish(n)
      BY <1>13 DEF Crash, Shutdown
    <3>. QED
      BY <3>1 DEF Vanish, Done, LeasesTyped
  <2>2. NodeCalls(n, <<>>, acquiring'[n], renewal'[n], job'[n].stage) /\ <<>> \in Seq(Call)
    BY DEF NodeCalls, Distinct, Has
  <2>. QED
    BY <2>1, <2>2, CallsOfOthers
<1>14. ASSUME Tick PROVE CallsAreKnown'
  <2>1. \A age \in Age \cup {None} : Older(age) = None <=> age = None
    BY DEF Older, Age
  <2>2. \A n \in Node : job'[n].stage = job[n].stage
    <3>1. ASSUME NEW n \in Node, Joining(n) PROVE [job[n] EXCEPT !.age = Older(@)].stage = job[n].stage
      BY <3>1, Busy DEF Joining, Stage, Job
    <3>. QED
      BY <1>14, <3>1 DEF Tick
  <2>3. /\ asked' = asked
        /\ \A n \in Node : /\ acquiring'[n] = None <=> acquiring[n] = None
                           /\ renewal'[n] = None <=> renewal[n] = None
    BY <1>14, <2>1 DEF Tick, LeasesTyped
  <2>. QED
    BY <2>2, <2>3 DEF CallsAreKnown
<1>15. ASSUME UNCHANGED vars PROVE CallsAreKnown'
  BY <1>15 DEF vars, leaseVars, CallsAreKnown
<1>. QED
  BY <1>1, <1>2, <1>3, <1>4, <1>5, <1>6, <1>7, <1>8, <1>9, <1>10, <1>11, <1>12,
     <1>13, <1>14, <1>15
  DEF Next, Cluster, Gateway

-----------------------------------------------------------------------------
(***************************************************************************)
(* Rooms without a lease.                                                  *)
(***************************************************************************)
Closes(n) == CloseRoom(n) /\ \A k \in Node \ {n} : lease'[k] = lease[k]

\* The room is closed; the command ends, or goes on where it was.
LEMMA ClosedSlips ==
    ASSUME UnleasedSlips, NEW n \in Node, Closes(n), OthersWork(n),
           job' = job \/ job'[n].stage \notin {"second", "entering"}
    PROVE  UnleasedSlips'
  BY DEF UnleasedSlips, Closes, CloseRoom, OthersWork

\* A lease that is lost or given back takes the room along.
LEMMA DropCloses ==
    ASSUME LeasesTyped, NEW n \in Node, Lose(n) \/ Quit(n) PROVE Closes(n)
  BY DEF Lose, Quit, Forget, Closes, LeasesTyped

\* The lease and the room stay; a command that may still create has a lease.
LEMMA OpenSlips ==
    ASSUME UnleasedSlips, NEW n \in Node, OthersWork(n),
           lease' = lease, slipped' = slipped, room' \subseteq room, creating' \subseteq creating,
           job'[n].stage \in {"second", "entering"} =>
               job[n].stage \in {"second", "entering"} \/ lease[n] # None
    PROVE  UnleasedSlips'
  BY DEF UnleasedSlips, OthersWork

\* A command without effect opens no room.
LEMMA GiveUpSlips ==
    ASSUME UnleasedSlips, LeasesTyped, JobsTyped, NEW n \in Node, GiveUp(n)
    PROVE  UnleasedSlips'
<1>1. OthersWork(n) /\ job'[n].stage \notin {"second", "entering"}
  BY DEF GiveUp, Done, OthersWork, JobsTyped, Idle
<1>2. CASE Present(n) = {}
  BY <1>1, <1>2, DropCloses, ClosedSlips DEF GiveUp
<1>3. CASE Present(n) # {}
  BY <1>1, <1>3, OpenSlips DEF GiveUp, Keep, leaseVars, mediaVars
<1>. QED
  BY <1>2, <1>3

\* A command starts only under a lease.
LEMMA StartSlips ==
    ASSUME UnleasedSlips, LeasesTyped, JobsTyped, NEW n \in Node, NEW kind, NEW users,
           Start(n, kind, users)
    PROVE  UnleasedSlips'
<1>1. CASE Fresh(n)
  <2>1. OthersWork(n) /\ job'[n].stage = "first"
    BY <1>1 DEF Start, OthersWork, JobsTyped
  <2>. QED
    BY <1>1, <2>1, OpenSlips DEF Start, Keep, leaseVars, mediaVars
<1>2. CASE ~Fresh(n)
  BY <1>2, DropCloses, ClosedSlips DEF Start, OthersWork
<1>. QED
  BY <1>1, <1>2

\* Whoever takes the lease away closes the room and what is being created.
LEMMA SlipStep == VoiceInv /\ [Next]_vars => UnleasedSlips'
<1> SUFFICES ASSUME VoiceInv, [Next]_vars PROVE UnleasedSlips'
  OBVIOUS
<1> USE VoiceAssumption DEF VoiceInv, StateTyped, JobsTyped
<1>0. Idle.stage = "idle"
  BY DEF Idle
<1>1. ASSUME NEW n \in Node, Acquire(n) \/ Renew(n) PROVE UnleasedSlips'
  BY <1>1 DEF Acquire, Renew, UnleasedSlips, leaseVars, mediaVars
<1>2. ASSUME NEW n \in Node, Acquired(n) PROVE UnleasedSlips'
  <2>1. lease'[n] # None /\ \A k \in Node \ {n} : lease'[k] = lease[k]
    <3>1. Has(asked[n], "SET")
      BY <1>2, AnsweredOnce DEF Acquired, Answer, CallsAreKnown
    <3>. QED
      BY <1>2, <3>1 DEF Acquired, CallsAreKnown, LeasesTyped
  <2>2. UNCHANGED <<job, room, creating, slipped>>
    BY <1>2 DEF Acquired, mediaVars
  <2>. QED
    BY <2>1, <2>2 DEF UnleasedSlips
<1>3. ASSUME NEW n \in Node, Heartbeat(n) \/ Misrouted(n) \/ Sweep(n) PROVE UnleasedSlips'
  BY <1>3, DropCloses, ClosedSlips DEF Heartbeat, Misrouted, Sweep, OthersWork
<1>4. ASSUME NEW n \in Node, RenewAnswer(n) PROVE UnleasedSlips'
  <2>1. job' = job /\ \A k \in Node \ {n} : lease'[k] = lease[k]
    BY <1>4 DEF RenewAnswer, LeasesTyped
  <2>2. CASE renewal[n] < Fence
    <3>1. Has(asked[n], "RENEW")
      BY <1>4, AnsweredOnce DEF RenewAnswer, Answer, CallsAreKnown
    <3>2. lease'[n] # None /\ UNCHANGED mediaVars
      BY <1>4, <2>2, <3>1 DEF RenewAnswer, CallsAreKnown, LeasesTyped
    <3>. QED
      BY <2>1, <3>2 DEF UnleasedSlips, mediaVars
  <2>3. CASE ~(renewal[n] < Fence)
    BY <1>4, <2>1, <2>3, ClosedSlips DEF RenewAnswer, Closes, OthersWork
  <2>. QED
    BY <2>2, <2>3
<1>5. ASSUME NEW n \in Node, RedisError(n) PROVE UnleasedSlips'
  <2>1. job' = job /\ \A k \in Node \ {n} : lease'[k] = lease[k]
    BY <1>5 DEF RedisError, LeasesTyped
  <2>2. CASE lease[n] # None
    BY <1>5, <2>1, <2>2, ClosedSlips DEF RedisError, Closes, OthersWork
  <2>3. CASE lease[n] = None
    BY <1>5, <2>1, <2>3 DEF RedisError, UnleasedSlips, mediaVars
  <2>. QED
    BY <2>2, <2>3
<1>6. ASSUME NEW n \in Node,
             \/ \E kind \in {"join", "leave", "use"}, u \in User : Receive(n, kind, u)
             \/ Revalidate(n)
      PROVE  UnleasedSlips'
  BY <1>6, StartSlips DEF Receive, Revalidate
<1>7. ASSUME NEW n \in Node, FirstAnswer(n) PROVE UnleasedSlips'
  <2>1. /\ OthersWork(n) /\ job'[n].stage \notin {"second", "entering"}
        /\ \/ Lose(n)
           \/ Keep
           \/ \E u \in job[n].users : Remove(n, u)
    <3>1. job[n] \in Job
      BY <1>7, Busy DEF FirstAnswer, Stage
    <3>2. \A stage : [job[n] EXCEPT !.stage = stage].stage = stage
      BY <3>1 DEF Job
    <3>. QED
      BY <1>0, <1>7, <3>2 DEF FirstAnswer, OthersWork, Done, Goto
  <2>2. CASE Lose(n)
    BY <2>1, <2>2, DropCloses, ClosedSlips
  <2>3. CASE Keep \/ \E u \in job[n].users : Remove(n, u)
    BY <2>1, <2>3, OpenSlips DEF Keep, Remove, leaseVars, mediaVars
  <2>. QED
    BY <2>1, <2>2, <2>3
<1>8. ASSUME NEW n \in Node, Left(n) PROVE UnleasedSlips'
  <2>1. OthersWork(n) /\ job'[n].stage \notin {"second", "entering"}
    <3>1. Checking(job[n], None).stage \in {"publishing", "authorize"}
      BY <1>8, Busy DEF Left, Checking, Stage, Job
    <3>. QED
      BY <1>0, <1>8, <3>1 DEF Left, OthersWork
  <2>2. CASE Present(n) = {}
    BY <1>8, <2>1, <2>2, DropCloses, ClosedSlips DEF Left
  <2>3. CASE Present(n) # {}
    BY <1>8, <2>1, <2>3, OpenSlips DEF Left, Keep, leaseVars, mediaVars
  <2>. QED
    BY <2>2, <2>3
<1>9. ASSUME NEW n \in Node, NEW u \in User, Confirmed(n, u) PROVE UnleasedSlips'
  <2>1. Checking(job[n], u).stage \in {"publishing", "authorize"}
    BY <1>9, Busy DEF Confirmed, Checking, Stage, Job
  <2>. QED
    BY <1>9, <2>1, OpenSlips DEF Confirmed, OthersWork, leaseVars
<1>10. ASSUME NEW n \in Node, NEW u \in User, Authorized(n, u) PROVE UnleasedSlips'
  <2>1. OthersWork(n)
    BY <1>10 DEF Authorized, OthersWork, Done
  <2>2. CASE Fresh(n)
    BY <1>10, <2>1, <2>2, OpenSlips DEF Authorized, Fresh, leaseVars
  <2>3. CASE ~Fresh(n)
    BY <1>0, <1>10, <2>1, <2>3, DropCloses, ClosedSlips DEF Authorized, Done
  <2>. QED
    BY <2>2, <2>3
<1>11. ASSUME NEW n \in Node, NEW u \in User, Denied(n, u) PROVE UnleasedSlips'
  <2>1. /\ Checking(job[n], u).stage \in {"publishing", "authorize"}
        /\ Removing(job[n], u).stage = "leaving"
    BY <1>11, Busy DEF Denied, Checking, Removing, Stage, Job
  <2>2. CASE peers[n][u] # None
    <3>1. Remove(n, u) /\ job' = [job EXCEPT ![n] = Removing(job[n], u)]
      BY <1>11, <2>2 DEF Denied
    <3>2. OthersWork(n) /\ job'[n].stage = "leaving"
      BY <2>1, <3>1 DEF OthersWork
    <3>. QED
      BY <3>1, <3>2, OpenSlips DEF Remove, leaseVars
  <2>3. CASE peers[n][u] = None
    <3>1. GiveUp(n) \/ (Keep /\ job' = [job EXCEPT ![n] = Checking(job[n], u)])
      BY <1>11, <2>3 DEF Denied
    <3>2. ASSUME Keep, job' = [job EXCEPT ![n] = Checking(job[n], u)] PROVE UnleasedSlips'
      <4>1. OthersWork(n) /\ job'[n].stage \in {"publishing", "authorize"}
        BY <2>1, <3>2 DEF OthersWork
      <4>. QED
        BY <3>2, <4>1, OpenSlips DEF Keep, leaseVars, mediaVars
    <3>. QED
      BY <3>1, <3>2, GiveUpSlips
  <2>. QED
    BY <2>2, <2>3
<1>12. ASSUME NEW n \in Node, Published(n) PROVE UnleasedSlips'
  BY <1>0, <1>12, OpenSlips DEF Published, Done, OthersWork, Keep, leaseVars, mediaVars
<1>13. ASSUME NEW n \in Node, SecondAnswer(n) PROVE UnleasedSlips'
  <2>1. CASE Quit(n) /\ Done(n)
    BY <1>0, <2>1, DropCloses, ClosedSlips DEF Done, OthersWork
  <2>2. CASE Keep /\ Goto(n, "entering")
    BY <1>13, <2>2, OpenSlips DEF SecondAnswer, Goto, OthersWork, Keep, leaseVars, mediaVars
  <2>. QED
    BY <1>13, <2>1, <2>2, GiveUpSlips DEF SecondAnswer
<1>14. ASSUME NEW n \in Node, Enter(n) PROVE UnleasedSlips'
  <2>1. OthersWork(n) /\ UNCHANGED <<lease, slipped, room>> /\ job[n].stage = "entering"
    BY <1>14 DEF Enter, OthersWork, Done, Goto, leaseVars
  <2>2. creating' \subseteq creating \cup {n}
    BY <1>14 DEF Enter
  <2>. QED
    BY <2>1, <2>2 DEF UnleasedSlips, OthersWork
<1>15. ASSUME NEW n \in Node, Created(n) PROVE UnleasedSlips'
  <2>1. CASE n \in creating
    <3>1. OthersWork(n) /\ job'[n].stage = "idle"
      BY <1>0, <1>15, <2>1 DEF Created, OthersWork, Done
    <3>2. UNCHANGED <<lease, slipped>> /\ room' = room \cup {n} /\ creating' = creating \ {n}
      BY <1>15, <2>1 DEF Created, leaseVars
    <3>. QED
      BY <2>1, <3>1, <3>2 DEF UnleasedSlips, OthersWork
  <2>2. CASE n \notin creating
    BY <1>15, <2>2, GiveUpSlips DEF Created
  <2>. QED
    BY <2>1, <2>2
<1>16. ASSUME NEW n \in Node, CommandFails(n) PROVE UnleasedSlips'
  <2>1. ASSUME Done(n) PROVE OthersWork(n) /\ job'[n].stage = "idle"
    BY <1>0, <2>1 DEF Done, OthersWork
  <2>2. CASE Keep /\ Done(n)
    BY <2>1, <2>2, OpenSlips DEF Keep, leaseVars, mediaVars
  <2>3. CASE CloseRoom(n) /\ UNCHANGED <<redisVars, leaseVars>> /\ Done(n)
    BY <2>1, <2>3, ClosedSlips DEF Closes, leaseVars
  <2>. QED
    BY <1>16, <2>2, <2>3, GiveUpSlips DEF CommandFails
<1>17. ASSUME NEW n \in Node, Crash(n) \/ Shutdown(n) PROVE UnleasedSlips'
  <2>1. Vanish(n)
    BY <1>17 DEF Crash, Shutdown
  <2>. QED
    BY <1>0, <2>1 DEF Vanish, Done, UnleasedSlips, LeasesTyped
<1>18. ASSUME Tick PROVE UnleasedSlips'
  <2>1. \A n \in Node : lease'[n] = None <=> lease[n] = None
    BY <1>18 DEF Tick, Older, LeasesTyped, Age
  <2>2. \A n \in Node : job'[n].stage = job[n].stage
    <3>1. ASSUME NEW n \in Node, Joining(n) PROVE [job[n] EXCEPT !.age = Older(@)].stage = job[n].stage
      BY <3>1, Busy DEF Joining, Stage, Job
    <3>. QED
      BY <1>18, <3>1 DEF Tick
  <2>. QED
    BY <1>18, <2>1, <2>2 DEF Tick, UnleasedSlips
<1>19. ASSUME UNCHANGED vars PROVE UnleasedSlips'
  BY <1>19 DEF vars, leaseVars, mediaVars, UnleasedSlips
<1>. QED
  BY <1>1, <1>2, <1>3, <1>4, <1>5, <1>6, <1>7, <1>8, <1>9, <1>10, <1>11, <1>12,
     <1>13, <1>14, <1>15, <1>16, <1>17, <1>18, <1>19
  DEF Next, Cluster, Gateway

-----------------------------------------------------------------------------
\* The inductive invariant holds in every state.
LEMMA VoiceInvHolds == Spec => []VoiceInv
<1>1. Init => VoiceInv
  <2> SUFFICES ASSUME Init PROVE VoiceInv
    OBVIOUS
  <2>1. RoomsTyped /\ LeasesTyped /\ acquiring \in [Node -> Age \cup {None}]
    BY VoiceAssumption DEF Init, RoomsTyped, LeasesTyped, NoPeers
  <2>2. JobsTyped /\ \A n \in Node : job[n].stage = "idle"
    BY DEF Init, JobsTyped, Idle
  <2>3. CallsAreKnown
    BY <2>2 DEF Init, CallsAreKnown, Distinct, Has
  <2>. QED
    BY <2>1, <2>2, <2>3 DEF Init, VoiceInv, StateTyped, UnleasedSlips
<1>2. VoiceInv /\ [Next]_vars => VoiceInv'
  BY TypedStep, CallsStep, SlipStep DEF VoiceInv
<1>. QED
  BY <1>1, <1>2, PTL DEF Spec

\* Every variable keeps its type; in particular, never more than one call of a
\* kind to Redis is under way.
THEOREM VoiceTypeCorrect == Spec => []TypeOK
<1>1. ASSUME VoiceInv PROVE TypeOK
  <2>1. ASSUME NEW n \in Node
        PROVE  /\ Len(asked[n]) <= 3
               /\ \A i \in DOMAIN asked[n] : asked[n][i] \in {"SET", "GET", "RENEW"}
    BY <1>1, FewCalls DEF VoiceInv, CallsAreKnown, Call
  <2>. QED
    BY <1>1, <2>1
    DEF VoiceInv, StateTyped, RoomsTyped, LeasesTyped, JobsTyped, TypeOK
<1>. QED
  BY <1>1, VoiceInvHolds, PTL

\* UnleasedRoomSlippedIn (lose, closeOwnedRoom, the creation token): a node has
\* a room without a lease only if a join had passed its checks, and not begun to
\* create, when the lease was lost.
THEOREM LostLeaseTakesTheRoom == Spec => []UnleasedRoomSlippedIn
<1>1. ASSUME VoiceInv PROVE UnleasedRoomSlippedIn
  BY <1>1 DEF VoiceInv, StateTyped, RoomsTyped, UnleasedSlips, UnleasedRoomSlippedIn
<1>. QED
  BY <1>1, VoiceInvHolds, PTL

-----------------------------------------------------------------------------
(***************************************************************************)
(* The lease and the key.  What a node relies on is said node by node.     *)
(*                                                                         *)
(* A lease, an acquisition or a renewal counts while it is younger than    *)
(* the fence.  A node that releases its key forgets its lease, but a SET   *)
(* that is not answered yet will give it one without a key: it has no room *)
(* then, and nothing that passed its checks.  A sweep could release the    *)
(* key beside a join that passed them; it does not, because those who are  *)
(* present are younger than the acquisition.                               *)
(***************************************************************************)
Valid(age) == age # None /\ age < Fence

\* The command was told that this node is the owner; it may create a room.
Vouched(n) == job[n].stage \in Stage /\ (job[n].stage \in {"first", "second"} => job[n].ok)
Passed(n) == job[n].stage \in {"entering", "creating"} \/ (job[n].stage = "second" /\ job[n].ok)

KeyOutlives(n) ==
    owner = n => /\ Valid(lease[n]) => ttl + lease[n] >= Lease
                 /\ Valid(acquiring[n]) => ttl + acquiring[n] >= Lease
                 /\ Valid(renewal[n]) => ttl + renewal[n] >= Lease

KeyIsHeld(n) ==
    /\ Valid(renewal[n]) => owner = n
    /\ n \in room \/ Passed(n) => (Valid(lease[n]) \/ Valid(acquiring[n]) => owner = n)

VouchedHolds(n) == Vouched(n) /\ n \in room => owner = n /\ lease[n] # None

Younger(n) ==
    Valid(acquiring[n]) =>
        /\ Valid(lease[n]) \/ Passed(n) => \A u \in Present(n) : peers[n][u] <= acquiring[n]
        /\ Valid(lease[n]) /\ Passed(n) => job[n].age <= acquiring[n]

RoomHasPeople(n) ==
    /\ n \in room <=> Present(n) # {}
    /\ n \notin room => stale[n] = 0

StaleIsOld(n) ==
    /\ stale[n] <= Fence
    /\ n \in room /\ owner # n => \A u \in Present(n) : stale[n] <= peers[n][u]

NodeInv(n) ==
    /\ KeyOutlives(n) /\ KeyIsHeld(n) /\ VouchedHolds(n)
    /\ Younger(n) /\ RoomHasPeople(n) /\ StaleIsOld(n)

\* A join that enters has somebody to enter.
JobServes(n) ==
    /\ job[n].stage \in {"first", "authorize"} /\ job[n].kind # "check" => job[n].users # {}
    /\ job[n].stage \in {"second", "entering", "creating"} =>
           job[n].kind # "check" /\ job[n].users # {}

Before(q, a, b) == \A i, j \in DOMAIN q : q[i] = a /\ q[j] = b => i < j

\* A renewal that counts was asked after the acquisition, and is answered after it.
AnswersInOrder(n) ==
    acquiring[n] # None =>
        /\ Has(asked[n], "SET")
        /\ Valid(renewal[n]) => Before(asked[n], "SET", "RENEW")

LeaseInv == \A n \in Node : NodeInv(n) /\ JobServes(n) /\ AnswersInOrder(n)

-----------------------------------------------------------------------------
\* What a step of node n leaves alone.
Aside(n) ==
    \A k \in Node \ {n} :
        /\ lease'[k] = lease[k] /\ renewal'[k] = renewal[k]
        /\ acquiring'[k] = acquiring[k] /\ asked'[k] = asked[k] /\ job'[k] = job[k]
        /\ (k \in room') <=> (k \in room)
        /\ peers'[k] = peers[k] /\ stale'[k] = stale[k]
        /\ (owner' = k) <=> (owner = k)
        /\ owner = k => ttl' = ttl

\* The other nodes keep what they rely on.
LEMMA OthersKeep ==
    ASSUME LeaseInv, NEW n \in Node, Aside(n),
           (NodeInv(n) /\ JobServes(n) /\ AnswersInOrder(n))'
    PROVE  LeaseInv'
<1>1. ASSUME NEW k \in Node, k # n
      PROVE  (NodeInv(k) /\ JobServes(k) /\ AnswersInOrder(k))'
  <2>1. NodeInv(k) /\ JobServes(k) /\ AnswersInOrder(k)
    BY DEF LeaseInv
  <2>2. /\ lease'[k] = lease[k] /\ renewal'[k] = renewal[k]
        /\ acquiring'[k] = acquiring[k] /\ asked'[k] = asked[k] /\ job'[k] = job[k]
        /\ (k \in room') <=> (k \in room)
        /\ peers'[k] = peers[k] /\ stale'[k] = stale[k]
        /\ (owner' = k) <=> (owner = k)
        /\ owner = k => ttl' = ttl
    BY <1>1 DEF Aside
  <2>3. JobServes(k)' /\ AnswersInOrder(k)'
    BY <2>1, <2>2 DEF JobServes, AnswersInOrder
  <2>4. (KeyOutlives(k) /\ KeyIsHeld(k) /\ VouchedHolds(k))'
    BY <2>1, <2>2 DEF NodeInv, KeyOutlives, KeyIsHeld, VouchedHolds, Vouched, Passed
  <2>5. (Younger(k) /\ RoomHasPeople(k) /\ StaleIsOld(k))'
    BY <2>1, <2>2 DEF NodeInv, Younger, RoomHasPeople, StaleIsOld, Vouched, Passed, Present
  <2>. QED
    BY <2>3, <2>4, <2>5 DEF NodeInv
<1>. QED
  BY <1>1 DEF LeaseInv

\* Closing a room, losing a lease, deleting one's key, leaving a room.
LEMMA CloseAside ==
    ASSUME RoomsTyped, NEW n \in Node, CloseRoom(n)
    PROVE  \A k \in Node \ {n} : /\ (k \in room') <=> (k \in room)
                                 /\ peers'[k] = peers[k] /\ stale'[k] = stale[k]
  BY DEF RoomsTyped, CloseRoom

KeyAside(n) == \A k \in Node \ {n} : /\ (owner' = k) <=> (owner = k)
                                     /\ owner = k => ttl' = ttl

\* OWNER_RELEASE leaves the key of another node.
LEMMA UnlockAside ==
    ASSUME NEW n \in Node, Unlock(n) \/ UNCHANGED redisVars PROVE KeyAside(n)
  BY VoiceAssumption DEF KeyAside, Unlock, redisVars

LeaseAside(n) == \A k \in Node \ {n} : lease'[k] = lease[k] /\ renewal'[k] = renewal[k]

RoomAside(n) ==
    \A k \in Node \ {n} : /\ (k \in room') <=> (k \in room)
                          /\ peers'[k] = peers[k] /\ stale'[k] = stale[k]

CallsAside(n) ==
    \A k \in Node \ {n} : acquiring'[k] = acquiring[k] /\ asked'[k] = asked[k]

\* What several handlers do concerns one node.
LEMMA HandlersAside ==
    ASSUME RoomsTyped, LeasesTyped, NEW n \in Node,
           \/ Keep \/ Lose(n) \/ Quit(n)
           \/ \E u \in User : Remove(n, u)
    PROVE  KeyAside(n) /\ LeaseAside(n) /\ RoomAside(n)
<1>1. CASE Keep
  BY <1>1 DEF Keep, KeyAside, LeaseAside, RoomAside, redisVars, leaseVars, mediaVars
<1>2. CASE Lose(n) \/ Quit(n)
  <2>1. KeyAside(n)
    BY <1>2, UnlockAside DEF Lose, Quit
  <2>2. LeaseAside(n)
    BY <1>2 DEF Lose, Quit, Forget, LeasesTyped, LeaseAside
  <2>3. RoomAside(n)
    BY <1>2, CloseAside DEF Lose, Quit, RoomAside
  <2>. QED
    BY <2>1, <2>2, <2>3
<1>3. CASE \E u \in User : Remove(n, u)
  <2>1. PICK u \in User : Remove(n, u)
    BY <1>3
  <2>2. RoomAside(n)
    BY <2>1 DEF Remove, RoomsTyped, RoomAside
  <2>3. KeyAside(n) /\ LeaseAside(n)
    BY <2>1 DEF Remove, KeyAside, LeaseAside, redisVars, leaseVars
  <2>. QED
    BY <2>2, <2>3
<1>. QED
  BY <1>1, <1>2, <1>3

\* The calls of a node are its own.
LEMMA CallsGoAside ==
    ASSUME CallsAreKnown, NEW n \in Node,
           \/ UNCHANGED asked \/ \E call : Answer(n, call) \/ Ask(n, call)
    PROVE  \A k \in Node \ {n} : asked'[k] = asked[k]
  BY DEF CallsAreKnown, Answer, Ask

\* Every step but that of time concerns one node.
LEMMA StepAside ==
    ASSUME VoiceInv, NEW n \in Node, Cluster(n) \/ Gateway(n) \/ Crash(n) \/ Shutdown(n)
    PROVE  Aside(n)
<1> USE VoiceAssumption
<1>0. RoomsTyped /\ LeasesTyped /\ JobsTyped /\ CallsAreKnown /\ acquiring \in [Node -> Age \cup {None}]
  BY DEF VoiceInv, StateTyped
<1>1. ASSUME KeyAside(n), LeaseAside(n), RoomAside(n), CallsAside(n), OthersWork(n) PROVE Aside(n)
  BY <1>1 DEF KeyAside, LeaseAside, RoomAside, CallsAside, OthersWork, Aside
<1>2. ASSUME UNCHANGED acquiring, UNCHANGED asked \/ \E call : Answer(n, call) \/ Ask(n, call)
      PROVE  CallsAside(n)
  BY <1>0, <1>2, CallsGoAside DEF CallsAside
<1>3. CASE Acquire(n)
  <2>1. KeyAside(n) /\ LeaseAside(n) /\ RoomAside(n) /\ OthersWork(n)
    BY <1>3 DEF Acquire, KeyAside, LeaseAside, RoomAside, OthersWork, JobsTyped, leaseVars, mediaVars
  <2>2. CallsAside(n)
    BY <1>0, <1>3, CallsGoAside DEF Acquire, CallsAside
  <2>. QED
    BY <1>1, <2>1, <2>2
<1>4. CASE Acquired(n)
  <2>1. KeyAside(n) /\ LeaseAside(n) /\ RoomAside(n) /\ OthersWork(n)
    BY <1>0, <1>4
    DEF Acquired, KeyAside, LeaseAside, LeasesTyped, RoomAside, OthersWork, JobsTyped, redisVars, mediaVars
  <2>2. CallsAside(n)
    BY <1>0, <1>4, CallsGoAside DEF Acquired, CallsAside
  <2>. QED
    BY <1>1, <2>1, <2>2
<1>5. CASE Heartbeat(n) \/ Misrouted(n) \/ Sweep(n)
  BY <1>0, <1>1, <1>2, <1>5, HandlersAside DEF Heartbeat, Misrouted, Sweep, OthersWork, JobsTyped
<1>6. CASE Renew(n)
  <2>1. KeyAside(n) /\ LeaseAside(n) /\ RoomAside(n) /\ OthersWork(n)
    BY <1>0, <1>6
    DEF Renew, KeyAside, LeaseAside, LeasesTyped, RoomAside, OthersWork, JobsTyped, mediaVars
  <2>. QED
    BY <1>1, <1>2, <1>6, <2>1 DEF Renew
<1>7. CASE RenewAnswer(n)
  <2>1. KeyAside(n) /\ LeaseAside(n) /\ OthersWork(n)
    BY <1>0, <1>7 DEF RenewAnswer, KeyAside, LeaseAside, LeasesTyped, OthersWork, JobsTyped, redisVars
  <2>2. RoomAside(n)
    BY <1>0, <1>7, CloseAside DEF RenewAnswer, RoomAside, mediaVars
  <2>. QED
    BY <1>1, <1>2, <1>7, <2>1, <2>2 DEF RenewAnswer
<1>8. CASE RedisError(n)
  <2>1. KeyAside(n) /\ LeaseAside(n) /\ OthersWork(n)
    BY <1>0, <1>8 DEF RedisError, KeyAside, LeaseAside, LeasesTyped, OthersWork, JobsTyped, redisVars
  <2>2. RoomAside(n)
    BY <1>0, <1>8, CloseAside DEF RedisError, RoomAside, mediaVars
  <2>3. CallsAside(n)
    BY <1>0, <1>8 DEF RedisError, CallsAside, CallsAreKnown
  <2>. QED
    BY <1>1, <2>1, <2>2, <2>3
<1>9. ASSUME NEW kind, NEW users, Start(n, kind, users), UNCHANGED acquiring PROVE Aside(n)
  <2>1. KeyAside(n) /\ LeaseAside(n) /\ RoomAside(n)
    BY <1>0, <1>9, HandlersAside DEF Start
  <2>2. OthersWork(n) /\ (UNCHANGED asked \/ Ask(n, "GET"))
    BY <1>0, <1>9 DEF Start, OthersWork, JobsTyped
  <2>. QED
    BY <1>1, <1>2, <1>9, <2>1, <2>2
<1>10. CASE \E kind \in {"join", "leave", "use"}, u \in User : Receive(n, kind, u)
  BY <1>9, <1>10 DEF Receive
<1>11. CASE Revalidate(n)
  BY <1>9, <1>11 DEF Revalidate
<1>12. CASE FirstAnswer(n)
  <2>1. KeyAside(n) /\ LeaseAside(n) /\ RoomAside(n)
    <3>1. job[n].users \subseteq User
      BY <1>0, <1>12, Busy DEF FirstAnswer, Stage, Job
    <3>. QED
      BY <1>0, <1>12, <3>1, HandlersAside DEF FirstAnswer
  <2>. QED
    BY <1>0, <1>1, <1>2, <1>12, <2>1 DEF FirstAnswer, OthersWork, JobsTyped, Done, Goto
<1>13. ASSUME GiveUp(n) PROVE KeyAside(n) /\ LeaseAside(n) /\ RoomAside(n) /\ OthersWork(n)
  BY <1>0, <1>13, HandlersAside DEF GiveUp, OthersWork, JobsTyped, Done
<1>14. CASE Left(n)
  BY <1>0, <1>1, <1>2, <1>14, HandlersAside DEF Left, OthersWork, JobsTyped
<1>15. CASE \E u \in User : Confirmed(n, u)
  <2>1. KeyAside(n) /\ LeaseAside(n) /\ RoomAside(n) /\ OthersWork(n)
    BY <1>0, <1>15
    DEF Confirmed, Renewed, RoomsTyped, KeyAside, LeaseAside, RoomAside, OthersWork, JobsTyped, redisVars, leaseVars
  <2>. QED
    BY <1>1, <1>2, <1>15, <2>1 DEF Confirmed
<1>16. CASE \E u \in User : Authorized(n, u)
  <2>1. PICK u \in User : Authorized(n, u)
    BY <1>16
  <2>2. CASE Fresh(n)
    <3>1. KeyAside(n) /\ LeaseAside(n) /\ RoomAside(n) /\ OthersWork(n)
      BY <1>0, <2>1, <2>2
      DEF Authorized, Renewed, RoomsTyped, KeyAside, LeaseAside, RoomAside, OthersWork, JobsTyped, redisVars, leaseVars
    <3>. QED
      BY <1>1, <1>2, <2>1, <2>2, <3>1 DEF Authorized
  <2>3. CASE ~Fresh(n)
    BY <1>0, <1>1, <1>2, <2>1, <2>3, HandlersAside DEF Authorized, OthersWork, JobsTyped, Done
  <2>. QED
    BY <2>2, <2>3
<1>17. CASE \E u \in User : Denied(n, u)
  <2>1. PICK u \in User : Denied(n, u)
    BY <1>17
  <2>2. KeyAside(n) /\ LeaseAside(n) /\ RoomAside(n) /\ OthersWork(n)
    BY <1>0, <1>13, <2>1, HandlersAside DEF Denied, OthersWork, JobsTyped
  <2>. QED
    BY <1>1, <1>2, <2>1, <2>2 DEF Denied
<1>18. CASE Published(n)
  BY <1>0, <1>1, <1>2, <1>18, HandlersAside DEF Published, OthersWork, JobsTyped, Done
<1>19. CASE SecondAnswer(n)
  <2>1. KeyAside(n) /\ LeaseAside(n) /\ RoomAside(n) /\ OthersWork(n)
    BY <1>0, <1>13, <1>19, HandlersAside DEF SecondAnswer, OthersWork, JobsTyped, Done, Goto
  <2>. QED
    BY <1>1, <1>2, <1>19, <2>1 DEF SecondAnswer
<1>20. CASE Enter(n)
  <2>1. KeyAside(n) /\ LeaseAside(n) /\ RoomAside(n) /\ OthersWork(n)
    BY <1>0, <1>20
    DEF Enter, Entered, RoomsTyped, KeyAside, LeaseAside, RoomAside, OthersWork, JobsTyped, redisVars,
        leaseVars, Done, Goto
  <2>. QED
    BY <1>1, <1>2, <1>20, <2>1 DEF Enter
<1>21. CASE Created(n)
  <2>1. KeyAside(n) /\ LeaseAside(n) /\ RoomAside(n) /\ OthersWork(n)
    BY <1>0, <1>13, <1>21
    DEF Created, Entered, RoomsTyped, KeyAside, LeaseAside, RoomAside, OthersWork, JobsTyped, redisVars,
        leaseVars, Done
  <2>. QED
    BY <1>1, <1>2, <1>21, <2>1 DEF Created
<1>22. CASE CommandFails(n)
  <2>1. KeyAside(n) /\ LeaseAside(n) /\ RoomAside(n) /\ OthersWork(n)
    <3>1. \/ Keep /\ Done(n)
          \/ CloseRoom(n) /\ UNCHANGED <<redisVars, leaseVars>> /\ Done(n)
          \/ GiveUp(n)
      BY <1>22 DEF CommandFails
    <3>2. ASSUME CloseRoom(n), UNCHANGED <<redisVars, leaseVars>>
          PROVE  KeyAside(n) /\ LeaseAside(n) /\ RoomAside(n)
      BY <1>0, <3>2, CloseAside DEF KeyAside, LeaseAside, RoomAside, redisVars, leaseVars
    <3>. QED
      BY <1>0, <1>13, <3>1, <3>2, HandlersAside DEF OthersWork, JobsTyped, Done
  <2>. QED
    BY <1>1, <1>2, <1>22, <2>1 DEF CommandFails
<1>23. CASE Crash(n) \/ Shutdown(n)
  <2>1. Vanish(n)
    BY <1>23 DEF Crash, Shutdown
  <2>2. LeaseAside(n) /\ OthersWork(n) /\ CallsAside(n)
    BY <1>0, <2>1
    DEF Vanish, LeaseAside, LeasesTyped, OthersWork, JobsTyped, Done, CallsAside, CallsAreKnown
  <2>3. RoomAside(n)
    BY <1>0, <2>1 DEF Vanish, RoomAside, RoomsTyped
  <2>4. KeyAside(n)
    BY <1>23, UnlockAside DEF Crash, Shutdown, KeyAside
  <2>. QED
    BY <1>1, <2>2, <2>3, <2>4
<1>. QED
  BY <1>3, <1>4, <1>5, <1>6, <1>7, <1>8, <1>10, <1>11, <1>12, <1>14, <1>15, <1>16,
     <1>17, <1>18, <1>19, <1>20, <1>21, <1>22, <1>23
  DEF Cluster, Gateway

-----------------------------------------------------------------------------
(***************************************************************************)
(* Renewals are answered after the acquisition they follow.                *)
(***************************************************************************)
\* An answer leaves the others in their order.
LEMMA OrderAfterAnswer ==
    ASSUME NEW q \in Seq(Call), q # <<>>, Head(q) # "SET"
    PROVE  /\ Has(q, "SET") => Has(Tail(q), "SET")
           /\ Before(q, "SET", "RENEW") => Before(Tail(q), "SET", "RENEW")
<1>1. ASSUME Has(q, "SET") PROVE Has(Tail(q), "SET")
  <2>1. PICK i \in DOMAIN q : q[i] = "SET"
    BY <1>1 DEF Has
  <2>2. i # 1 /\ i - 1 \in DOMAIN Tail(q) /\ Tail(q)[i - 1] = "SET"
    BY <2>1
  <2>. QED
    BY <2>2 DEF Has
<1>. QED
  BY <1>1 DEF Before

\* A call that is asked comes after the others.
LEMMA OrderAfterQuestion ==
    ASSUME NEW q \in Seq(Call), NEW call \in Call, call # "SET"
    PROVE  /\ Has(q, "SET") => Has(Append(q, call), "SET")
           /\ Before(q, "SET", "RENEW") => Before(Append(q, call), "SET", "RENEW")
<1>1. ASSUME Has(q, "SET") PROVE Has(Append(q, call), "SET")
  <2>1. PICK i \in DOMAIN q : q[i] = "SET"
    BY <1>1 DEF Has
  <2>2. i \in DOMAIN Append(q, call) /\ Append(q, call)[i] = "SET"
    BY <2>1
  <2>. QED
    BY <2>2 DEF Has
<1>. QED
  BY <1>1 DEF Before

RenewalWeaker(n) == Valid(renewal'[n]) => Valid(renewal[n])

\* A lease that is lost or given back makes its renewals useless.
LEMMA HandlersRenewNothing ==
    ASSUME LeasesTyped, NEW n \in Node,
           \/ Keep \/ Lose(n) \/ Quit(n) \/ UNCHANGED leaseVars
           \/ \E u \in User : Remove(n, u)
    PROVE  RenewalWeaker(n)
<1>1. ASSUME Forget(n) PROVE ~Valid(renewal'[n])
  BY <1>1, VoiceAssumption DEF Forget, LeasesTyped, Valid
<1>. QED
  BY <1>1 DEF Keep, Lose, Quit, Remove, RenewalWeaker, leaseVars

\* No call of an acquisition is asked or answered.
LEMMA OrderKept ==
    ASSUME CallsAreKnown, NEW n \in Node, AnswersInOrder(n),
           acquiring'[n] \in {acquiring[n], None}, RenewalWeaker(n),
           \/ UNCHANGED asked
           \/ \E call \in {"GET", "RENEW"} : Answer(n, call)
           \/ Ask(n, "GET")
    PROVE  AnswersInOrder(n)'
<1>1. asked[n] \in Seq(Call)
  BY DEF CallsAreKnown
<1>2. CASE acquiring'[n] = None
  BY <1>2 DEF AnswersInOrder
<1>3. CASE acquiring'[n] = acquiring[n] /\ UNCHANGED asked
  BY <1>3 DEF AnswersInOrder, RenewalWeaker
<1>4. ASSUME NEW call \in {"GET", "RENEW"}, Answer(n, call), acquiring'[n] = acquiring[n]
      PROVE  AnswersInOrder(n)'
  <2>1. asked[n] # <<>> /\ Head(asked[n]) # "SET" /\ asked'[n] = Tail(asked[n])
    BY <1>4 DEF Answer, CallsAreKnown
  <2>. QED
    BY <1>1, <1>4, <2>1, OrderAfterAnswer DEF AnswersInOrder, RenewalWeaker
<1>5. CASE Ask(n, "GET") /\ acquiring'[n] = acquiring[n]
  <2>1. asked'[n] = Append(asked[n], "GET") /\ "GET" \in Call
    BY <1>5 DEF Ask, CallsAreKnown, Call
  <2>. QED
    BY <1>1, <1>5, <2>1, OrderAfterQuestion DEF AnswersInOrder, RenewalWeaker
<1>. QED
  BY <1>2, <1>3, <1>4, <1>5

\* A renewal that counts was evaluated while the node had its key; while the key
\* is free there is none.
LEMMA OrderStep ==
    ASSUME VoiceInv, LeaseInv, NEW n \in Node,
           Cluster(n) \/ Gateway(n) \/ Crash(n) \/ Shutdown(n)
    PROVE  AnswersInOrder(n)'
<1> USE VoiceAssumption
<1>0. /\ RoomsTyped /\ LeasesTyped /\ JobsTyped /\ CallsAreKnown
      /\ acquiring \in [Node -> Age \cup {None}]
      /\ AnswersInOrder(n) /\ NodeInv(n)
  BY DEF VoiceInv, StateTyped, LeaseInv
<1>1. CASE Acquire(n)
  <2>1. renewal'[n] = renewal[n] /\ ~Valid(renewal[n])
    BY <1>0, <1>1 DEF Acquire, NodeInv, KeyIsHeld, leaseVars
  <2>2. Has(asked'[n], "SET")
    <3>1. asked'[n] = Append(asked[n], "SET") /\ asked[n] \in Seq(Call)
      BY <1>0, <1>1 DEF Acquire, Ask, CallsAreKnown
    <3>. QED
      BY <3>1 DEF Has
  <2>. QED
    BY <2>1, <2>2 DEF AnswersInOrder
<1>2. CASE Acquired(n)
  BY <1>0, <1>2 DEF Acquired, AnswersInOrder
<1>3. CASE Renew(n)
  <2> DEFINE q == asked[n]
  <2>1. /\ q \in Seq(Call) /\ asked'[n] = Append(q, "RENEW") /\ ~Has(q, "RENEW")
        /\ acquiring' = acquiring
    BY <1>0, <1>3 DEF Renew, Ask, CallsAreKnown
  <2>2. Before(q, "SET", "RENEW")
    BY <2>1 DEF Has, Before
  <2>. QED
    BY <1>0, <2>1, <2>2, OrderAfterQuestion DEF AnswersInOrder, Call
<1>4. CASE RenewAnswer(n)
  <2>1. renewal'[n] = None /\ acquiring' = acquiring /\ Answer(n, "RENEW")
    BY <1>0, <1>4 DEF RenewAnswer, LeasesTyped
  <2>. QED
    BY <1>0, <2>1, OrderKept DEF RenewalWeaker, Valid
<1>5. CASE RedisError(n)
  <2>1. \/ acquiring'[n] = None
        \/ /\ acquiring' = acquiring /\ UNCHANGED asked
           /\ renewal'[n] = IF renewal[n] = None THEN None ELSE Fence
    BY <1>0, <1>5 DEF RedisError, LeasesTyped
  <2>2. CASE acquiring'[n] = None
    BY <2>2 DEF AnswersInOrder
  <2>3. CASE acquiring'[n] # None
    <3>1. RenewalWeaker(n)
      BY <2>1, <2>3 DEF RenewalWeaker, Valid
    <3>. QED
      BY <1>0, <2>1, <2>3, <3>1, OrderKept
  <2>. QED
    BY <2>2, <2>3
<1>6. ASSUME NEW kind, NEW users, Start(n, kind, users), UNCHANGED acquiring
      PROVE  AnswersInOrder(n)'
  BY <1>0, <1>6, HandlersRenewNothing, OrderKept DEF Start
<1>7. CASE \/ \E kind \in {"join", "leave", "use"}, u \in User : Receive(n, kind, u)
           \/ Revalidate(n)
  BY <1>6, <1>7 DEF Receive, Revalidate
<1>8. CASE FirstAnswer(n)
  <2>1. job[n].users \subseteq User
    BY <1>0, <1>8, Busy DEF FirstAnswer, Stage, Job
  <2>2. RenewalWeaker(n)
    BY <1>0, <1>8, <2>1, HandlersRenewNothing DEF FirstAnswer
  <2>. QED
    BY <1>0, <1>8, <2>2, OrderKept DEF FirstAnswer
<1>9. CASE \/ Heartbeat(n) \/ Misrouted(n) \/ Sweep(n) \/ Left(n) \/ Published(n)
           \/ Enter(n) \/ Created(n) \/ \E u \in User : Confirmed(n, u) \/ Denied(n, u)
  <2>1. RenewalWeaker(n)
    BY <1>0, <1>9, HandlersRenewNothing
    DEF Heartbeat, Misrouted, Sweep, Left, Published, Enter, Created, Confirmed, Denied, GiveUp
  <2>2. UNCHANGED <<asked, acquiring>>
    BY <1>9 DEF Heartbeat, Misrouted, Sweep, Left, Published, Enter, Created, Confirmed, Denied
  <2>. QED
    BY <1>0, <2>1, <2>2, OrderKept
<1>10. CASE \E u \in User : Authorized(n, u)
  <2>1. RenewalWeaker(n) /\ acquiring' = acquiring /\ (UNCHANGED asked \/ Ask(n, "GET"))
    BY <1>0, <1>10, HandlersRenewNothing DEF Authorized
  <2>. QED
    BY <1>0, <2>1, OrderKept
<1>11. CASE SecondAnswer(n)
  <2>1. RenewalWeaker(n) /\ acquiring' = acquiring /\ Answer(n, "GET")
    BY <1>0, <1>11, HandlersRenewNothing DEF SecondAnswer, GiveUp
  <2>. QED
    BY <1>0, <2>1, OrderKept
<1>12. CASE CommandFails(n)
  <2>1. RenewalWeaker(n) /\ acquiring' = acquiring /\ (UNCHANGED asked \/ Answer(n, "GET"))
    BY <1>0, <1>12, HandlersRenewNothing DEF CommandFails, GiveUp
  <2>. QED
    BY <1>0, <2>1, OrderKept
<1>13. CASE Crash(n) \/ Shutdown(n)
  BY <1>0, <1>13 DEF Crash, Shutdown, Vanish, AnswersInOrder
<1>. QED
  BY <1>1, <1>2, <1>3, <1>4, <1>5, <1>7, <1>8, <1>9, <1>10, <1>11, <1>12, <1>13
  DEF Cluster, Gateway

-----------------------------------------------------------------------------
(***************************************************************************)
(* The command of a node.                                                  *)
(***************************************************************************)
\* Idle, a revalidation and a command that leaves enter nobody.
LEMMA EntersNobody ==
    ASSUME NEW n, job'[n].stage \in {"idle", "leaving", "publishing"} \/
                  (job'[n].stage = "authorize" /\ job'[n].kind = "check")
    PROVE  JobServes(n)'
  BY DEF JobServes

\* Somebody enters: the command keeps its people until it ends.
LEMMA ServeStep ==
    ASSUME VoiceInv, LeaseInv, NEW n \in Node,
           Cluster(n) \/ Gateway(n) \/ Crash(n) \/ Shutdown(n)
    PROVE  JobServes(n)'
<1>0. JobsTyped /\ JobServes(n) /\ Idle.stage = "idle"
  BY DEF VoiceInv, StateTyped, LeaseInv, Idle
<1>1. CASE UNCHANGED job
  BY <1>0, <1>1 DEF JobServes
<1>2. ASSUME Done(n) PROVE JobServes(n)'
  BY <1>0, <1>2, EntersNobody DEF Done, JobsTyped
<1>3. ASSUME job[n].stage \in Stage, NEW stage, Goto(n, stage)
      PROVE  job'[n].stage = stage /\ job'[n].kind = job[n].kind /\ job'[n].users = job[n].users
  <2>1. job[n] \in Job
    BY <1>0, <1>3, Busy
  <2>. QED
    BY <1>0, <1>3, <2>1 DEF Goto, JobsTyped, Job
<1>4. ASSUME job[n].stage \in Stage, job[n].kind = "check", NEW u,
             job' = [job EXCEPT ![n] = Checking(job[n], u)]
      PROVE  JobServes(n)'
  <2>1. job[n] \in Job
    BY <1>0, <1>4, Busy
  <2>2. job'[n].stage \in {"publishing", "authorize"} /\ job'[n].kind = "check"
    BY <1>0, <1>4, <2>1 DEF Checking, JobsTyped, Job
  <2>. QED
    BY <2>2, EntersNobody
<1>5. ASSUME NEW kind, NEW users, Start(n, kind, users), kind # "check" => users # {}
      PROVE  JobServes(n)'
  <2>1. CASE Fresh(n)
    <3>1. job'[n] = [kind |-> kind, users |-> users, stage |-> "first", ok |-> owner = n, age |-> 0]
      BY <1>0, <1>5, <2>1 DEF Start, JobsTyped
    <3>. QED
      BY <1>5, <3>1 DEF JobServes
  <2>. QED
    BY <1>1, <1>5, <2>1 DEF Start
<1>6. CASE Cluster(n) \/ Misrouted(n) \/ Sweep(n)
  BY <1>1, <1>6
  DEF Cluster, Acquire, Acquired, Heartbeat, Renew, RenewAnswer, RedisError, Misrouted, Sweep
<1>7. CASE \E kind \in {"join", "leave", "use"}, u \in User : Receive(n, kind, u)
  BY <1>5, <1>7 DEF Receive
<1>8. CASE Revalidate(n)
  BY <1>5, <1>8 DEF Revalidate
<1>9. CASE FirstAnswer(n)
  <2>1. job[n].stage = "first" /\ job[n].stage \in Stage
    BY <1>9 DEF FirstAnswer, Stage
  <2>2. \/ Done(n) \/ Goto(n, "leaving") \/ Goto(n, "authorize")
    BY <1>9 DEF FirstAnswer
  <2>3. ASSUME Goto(n, "leaving") PROVE JobServes(n)'
    BY <1>3, <2>1, <2>3, EntersNobody
  <2>4. ASSUME Goto(n, "authorize") PROVE JobServes(n)'
    BY <1>0, <1>3, <2>1, <2>4 DEF JobServes
  <2>. QED
    BY <1>2, <2>2, <2>3, <2>4
<1>10. CASE Left(n)
  <2>1. job[n].stage \in Stage
    BY <1>10 DEF Left, Stage
  <2>2. CASE job[n].kind = "check"
    BY <1>4, <1>10, <2>1, <2>2 DEF Left
  <2>3. CASE job[n].kind # "check"
    BY <1>2, <1>10, <2>3 DEF Left, Done
  <2>. QED
    BY <2>2, <2>3
<1>11. ASSUME NEW u \in User, Confirmed(n, u) PROVE JobServes(n)'
  BY <1>4, <1>11 DEF Confirmed, Stage
<1>12. ASSUME NEW u \in User, Authorized(n, u) PROVE JobServes(n)'
  <2>1. job[n] \in Job /\ u \in job[n].users /\ job[n].kind # "check"
    BY <1>0, <1>12, Busy DEF Authorized, Stage
  <2>2. CASE Fresh(n)
    <3>1. job'[n] = [job[n] EXCEPT !.stage = "second", !.ok = (owner = n), !.age = 0]
      BY <1>0, <1>12, <2>2 DEF Authorized, JobsTyped
    <3>2. job'[n].stage = "second" /\ job'[n].kind = job[n].kind /\ job'[n].users = job[n].users
      BY <2>1, <3>1 DEF Job
    <3>. QED
      BY <2>1, <3>2 DEF JobServes
  <2>3. CASE ~Fresh(n)
    BY <1>2, <1>12, <2>3 DEF Authorized
  <2>. QED
    BY <2>2, <2>3
<1>13. ASSUME NEW u \in User, Denied(n, u) PROVE JobServes(n)'
  <2>1. job[n] \in Job
    BY <1>0, <1>13, Busy DEF Denied, Stage
  <2>2. CASE job' = [job EXCEPT ![n] = Removing(job[n], u)]
    <3>1. job'[n].stage = "leaving"
      BY <1>0, <2>1, <2>2 DEF Removing, JobsTyped, Job
    <3>. QED
      BY <3>1, EntersNobody
  <2>3. CASE job[n].kind = "check" /\ job' = [job EXCEPT ![n] = Checking(job[n], u)]
    BY <1>4, <1>13, <2>3 DEF Denied, Stage
  <2>4. CASE GiveUp(n)
    BY <1>2, <2>4 DEF GiveUp
  <2>. QED
    BY <1>13, <2>2, <2>3, <2>4 DEF Denied
<1>14. CASE Published(n) \/ CommandFails(n)
  BY <1>2, <1>14 DEF Published, CommandFails, GiveUp
<1>15. CASE SecondAnswer(n)
  <2>1. CASE Goto(n, "entering")
    <3>1. job[n].stage = "second" /\ job[n].stage \in Stage
      BY <1>15 DEF SecondAnswer, Stage
    <3>. QED
      BY <1>0, <1>3, <2>1, <3>1 DEF JobServes
  <2>. QED
    BY <1>2, <1>15, <2>1 DEF SecondAnswer, GiveUp
<1>16. CASE Enter(n)
  <2>1. CASE Goto(n, "creating")
    <3>1. job[n].stage = "entering" /\ job[n].stage \in Stage
      BY <1>16 DEF Enter, Stage
    <3>. QED
      BY <1>0, <1>3, <2>1, <3>1 DEF JobServes
  <2>. QED
    BY <1>2, <1>16, <2>1 DEF Enter
<1>17. CASE Created(n)
  BY <1>2, <1>17 DEF Created, GiveUp
<1>18. CASE Crash(n) \/ Shutdown(n)
  BY <1>2, <1>18 DEF Crash, Shutdown, Vanish
<1>. QED
  BY <1>6, <1>7, <1>8, <1>9, <1>10, <1>11, <1>12, <1>13, <1>14, <1>15, <1>16, <1>17, <1>18
  DEF Gateway

-----------------------------------------------------------------------------
(***************************************************************************)
(* What a step does to the lease, the key and the room of its node.        *)
(***************************************************************************)
\* The types that the comparisons of ages need.
LEMMA AgesTyped ==
    ASSUME VoiceInv, NEW n \in Node
    PROVE  /\ lease[n] \in Age \cup {None} /\ acquiring[n] \in Age \cup {None}
           /\ renewal[n] \in Age \cup {None} /\ ttl \in 0..Lease
           /\ \A u \in User : peers[n][u] \in Age \cup {None}
           /\ stale[n] \in Nat
           /\ Vouched(n) => job[n].age \in Age
           /\ Passed(n) => Vouched(n)
<1>1. Vouched(n) => job[n].age \in Age
  BY Busy DEF VoiceInv, StateTyped, Vouched, Job
<1>2. Passed(n) => Vouched(n)
  BY DEF Passed, Vouched, Stage
<1>3. stale[n] \in Nat /\ \A u \in User : peers[n][u] \in Age \cup {None}
  BY VoiceAssumption DEF VoiceInv, StateTyped, RoomsTyped
<1>. QED
  BY <1>1, <1>2, <1>3 DEF VoiceInv, StateTyped, LeasesTyped

\* Of the room and the lease of node n nothing changes.
Unmoved(n) ==
    /\ lease'[n] = lease[n] /\ renewal'[n] = renewal[n] /\ acquiring'[n] = acquiring[n]
    /\ (n \in room') <=> (n \in room)
    /\ peers'[n] = peers[n] /\ stale'[n] = stale[n]
    /\ UNCHANGED redisVars

\* The command goes on, or another one starts under a lease that counts.
LEMMA OwnWorks ==
    ASSUME VoiceInv, NEW n \in Node, NodeInv(n), Unmoved(n),
           Vouched(n)' => Vouched(n) \/ (owner = n /\ Valid(lease[n])),
           Passed(n)' => Passed(n) /\ job'[n].age = job[n].age
    PROVE  NodeInv(n)'
<1>1. (KeyOutlives(n) /\ KeyIsHeld(n) /\ VouchedHolds(n))'
  BY DEF NodeInv, Unmoved, redisVars, KeyOutlives, KeyIsHeld, VouchedHolds, Valid
<1>2. Younger(n)'
  <2>1. Valid(acquiring[n]) => acquiring[n] \in Nat
    BY AgesTyped DEF Valid, Age
  <2>. QED
    BY <2>1 DEF NodeInv, Unmoved, Younger, Present, Valid
<1>3. (RoomHasPeople(n) /\ StaleIsOld(n))'
  BY DEF NodeInv, Unmoved, redisVars, RoomHasPeople, StaleIsOld, Present
<1>. QED
  BY <1>1, <1>2, <1>3 DEF NodeInv

Emptied(n) == n \notin room' /\ peers'[n] = NoPeers /\ stale'[n] = 0

\* closeRoom empties it.
LEMMA CloseEmpties ==
    ASSUME RoomsTyped, NEW n \in Node, CloseRoom(n) PROVE Emptied(n)
  BY DEF RoomsTyped, CloseRoom, Emptied

\* The room is closed and the lease forgotten.  The key is deleted only when no
\* acquisition counts, or nothing is left that could use the lease it brings.
LEMMA OwnCloses ==
    ASSUME VoiceInv, NEW n \in Node, NodeInv(n), Emptied(n),
           lease'[n] = None, acquiring'[n] \in {acquiring[n], None},
           ~Valid(renewal'[n]),
           Passed(n)' => Passed(n) /\ (UNCHANGED redisVars \/ ~Valid(acquiring'[n])),
           UNCHANGED redisVars \/ owner' # n
    PROVE  NodeInv(n)'
<1>0. ~Valid(None)
  BY DEF Valid
<1>1. (KeyOutlives(n) /\ KeyIsHeld(n) /\ VouchedHolds(n))'
  BY <1>0 DEF NodeInv, Emptied, redisVars, KeyOutlives, KeyIsHeld, VouchedHolds
<1>2. Present(n)' = {}
  BY DEF Emptied, NoPeers, Present
<1>3. (Younger(n) /\ RoomHasPeople(n) /\ StaleIsOld(n))'
  BY <1>0, <1>2, VoiceAssumption DEF Younger, RoomHasPeople, StaleIsOld, Emptied
<1>. QED
  BY <1>1, <1>3 DEF NodeInv

\* The room is closed; the command is over, and the lease stays.
LEMMA OwnCloseOnly ==
    ASSUME VoiceInv, NEW n \in Node, NodeInv(n), Emptied(n),
           lease'[n] = lease[n], acquiring'[n] = acquiring[n], renewal'[n] = renewal[n],
           UNCHANGED redisVars, ~Vouched(n)', ~Passed(n)'
    PROVE  NodeInv(n)'
<1>1. (KeyOutlives(n) /\ KeyIsHeld(n) /\ VouchedHolds(n))'
  BY DEF NodeInv, Emptied, redisVars, KeyOutlives, KeyIsHeld, VouchedHolds
<1>2. Present(n)' = {}
  BY DEF Emptied, NoPeers, Present
<1>3. (Younger(n) /\ RoomHasPeople(n) /\ StaleIsOld(n))'
  BY <1>2, VoiceAssumption DEF Younger, RoomHasPeople, StaleIsOld, Emptied
<1>. QED
  BY <1>1, <1>3 DEF NodeInv

\* Somebody leaves, perhaps the last one, while the node has its key.
LEMMA OwnRemoves ==
    ASSUME VoiceInv, NEW n \in Node, NodeInv(n), NEW u \in User, Remove(n, u),
           acquiring'[n] = acquiring[n], Vouched(n), job'[n].stage = "leaving"
    PROVE  NodeInv(n)'
<1>1. /\ lease'[n] = lease[n] /\ renewal'[n] = renewal[n] /\ UNCHANGED redisVars
      /\ peers'[n] = [peers[n] EXCEPT ![u] = None]
      /\ n \in room' => n \in room
      /\ (n \in room') <=> (n \in room /\ ~(Present(n) \subseteq {u}))
      /\ stale'[n] = IF Present(n) \subseteq {u} THEN 0 ELSE stale[n]
  BY DEF Remove, leaseVars, VoiceInv, StateTyped, RoomsTyped
<1>2. Present(n)' = Present(n) \ {u} /\ \A v \in Present(n)' : peers'[n][v] = peers[n][v]
  BY <1>1 DEF VoiceInv, StateTyped, RoomsTyped, Present
<1>3. Vouched(n)' /\ ~Passed(n)'
  BY DEF Vouched, Passed, Stage
<1>4. (KeyOutlives(n) /\ KeyIsHeld(n) /\ VouchedHolds(n))'
  BY <1>1, <1>3 DEF NodeInv, redisVars, KeyOutlives, KeyIsHeld, VouchedHolds
<1>5. Younger(n)'
  BY <1>1, <1>2, <1>3 DEF NodeInv, Younger
<1>6. RoomHasPeople(n)'
  BY <1>1, <1>2 DEF NodeInv, RoomHasPeople
<1>7. StaleIsOld(n)'
  BY <1>1, <1>2, VoiceAssumption DEF NodeInv, StaleIsOld, redisVars
<1>. QED
  BY <1>4, <1>5, <1>6, <1>7 DEF NodeInv

\* Somebody is authorized anew.  Nobody else has the key of a room whose commands
\* are vouched for.
LEMMA OwnRenews ==
    ASSUME VoiceInv, NEW n \in Node, NodeInv(n), NEW u \in User, peers' = Renewed(n, u),
           lease'[n] = lease[n], renewal'[n] = renewal[n], acquiring'[n] = acquiring[n],
           room' = room, stale' = stale, UNCHANGED redisVars,
           Vouched(n),
           Vouched(n)' => (Vouched(n) /\ job'[n].age = job[n].age) \/ (owner = n /\ Valid(lease[n])),
           Passed(n)' => owner = n /\ Valid(lease[n]) /\ job'[n].age = 0
    PROVE  NodeInv(n)'
<1>1. /\ peers'[n] = [peers[n] EXCEPT ![u] = IF @ = None THEN None ELSE 0]
      /\ \A v \in User : peers'[n][v] \in {peers[n][v], 0} /\ (peers'[n][v] = None <=> peers[n][v] = None)
  BY VoiceAssumption DEF Renewed, VoiceInv, StateTyped, RoomsTyped
<1>2. Present(n)' = Present(n)
  BY <1>1 DEF Present
<1>3. (KeyOutlives(n) /\ KeyIsHeld(n) /\ VouchedHolds(n))'
  BY DEF NodeInv, redisVars, KeyOutlives, KeyIsHeld, VouchedHolds, Valid
<1>4. Younger(n)'
  <2>1. Valid(acquiring[n]) => acquiring[n] >= 0
    BY AgesTyped DEF Valid, Age
  <2>2. \A v \in Present(n) : v \in User
    BY DEF Present
  <2>3. ASSUME Valid(acquiring[n]), Valid(lease[n])
        PROVE  /\ \A v \in Present(n) : peers'[n][v] <= acquiring[n]
               /\ Passed(n)' => job'[n].age <= acquiring[n]
    BY <1>1, <2>1, <2>2, <2>3 DEF NodeInv, Younger
  <2>. QED
    BY <1>2, <2>3 DEF Younger
<1>5. RoomHasPeople(n)'
  BY <1>2 DEF NodeInv, RoomHasPeople
<1>6. StaleIsOld(n)'
  BY DEF NodeInv, StaleIsOld, VouchedHolds, redisVars
<1>. QED
  BY <1>3, <1>4, <1>5, <1>6 DEF NodeInv

\* A join ends with its people in the room.
LEMMA OwnEnters ==
    ASSUME VoiceInv, NEW n \in Node, NodeInv(n), JobServes(n), Entered(n),
           lease'[n] = lease[n], renewal'[n] = renewal[n], acquiring'[n] = acquiring[n],
           n \in room', stale' = stale, UNCHANGED redisVars,
           job[n].stage \in {"entering", "creating"}, ~Vouched(n)', ~Passed(n)'
    PROVE  NodeInv(n)'
<1>1. /\ Passed(n) /\ Vouched(n) /\ job[n].age \in Age
      /\ job[n].users \subseteq User /\ job[n].users # {}
  BY AgesTyped, Busy DEF Passed, Vouched, Stage, JobServes, VoiceInv, StateTyped, Job
<1>2. \A v \in User : peers'[n][v] = IF v \in job[n].users /\ peers[n][v] = None
                                     THEN job[n].age ELSE peers[n][v]
  BY DEF Entered, VoiceInv, StateTyped, RoomsTyped
<1>3. None \notin Age
  BY VoiceAssumption DEF Age
<1>4. /\ \A v \in Present(n)' : \/ v \in Present(n) /\ peers'[n][v] = peers[n][v]
                                \/ peers'[n][v] = job[n].age
      /\ Present(n)' # {}
  BY <1>1, <1>2, <1>3 DEF Present
<1>5. (KeyOutlives(n) /\ KeyIsHeld(n) /\ VouchedHolds(n))'
  BY <1>1 DEF NodeInv, redisVars, KeyOutlives, KeyIsHeld, VouchedHolds, Valid
<1>6. Younger(n)'
  BY <1>1, <1>4 DEF NodeInv, Younger
<1>7. RoomHasPeople(n)'
  BY <1>4 DEF RoomHasPeople
<1>8. StaleIsOld(n)'
  <2>1. CASE n \in room
    BY <1>1, <2>1 DEF NodeInv, StaleIsOld, VouchedHolds, redisVars
  <2>2. CASE n \notin room
    <3>1. stale'[n] = 0 /\ Present(n) = {}
      BY <2>2 DEF NodeInv, RoomHasPeople
    <3>2. \A v \in Present(n)' : peers'[n][v] \in Age
      BY <1>1, <1>4, <3>1
    <3>. QED
      BY <3>1, <3>2, VoiceAssumption DEF StaleIsOld, Age
  <2>. QED
    BY <2>1, <2>2
<1>. QED
  BY <1>5, <1>6, <1>7, <1>8 DEF NodeInv

\* SET NX finds the key free: whatever else the node has does not count, or it
\* has no room.
LEMMA OwnAcquires ==
    ASSUME VoiceInv, NEW n \in Node, NodeInv(n), Acquire(n) PROVE NodeInv(n)'
<1>1. /\ owner # n /\ owner' = n /\ ttl' = Lease /\ acquiring'[n] = 0
      /\ lease' = lease /\ renewal' = renewal /\ job' = job
      /\ room' = room /\ peers' = peers /\ stale' = stale
  BY VoiceAssumption DEF Acquire, leaseVars, mediaVars, VoiceInv, StateTyped
<1>2. (KeyOutlives(n) /\ KeyIsHeld(n))'
  <2>1. \A age \in {lease[n], renewal[n], 0} : Valid(age) => age \in Nat
    BY AgesTyped DEF Valid, Age
  <2>. QED
    BY <1>1, <2>1, VoiceAssumption DEF KeyOutlives, KeyIsHeld
<1>3. ~(Vouched(n) /\ n \in room) /\ ~(Passed(n) /\ Valid(lease[n])) /\ ~(n \in room /\ Valid(lease[n]))
  BY <1>1 DEF NodeInv, VouchedHolds, KeyIsHeld
<1>4. VouchedHolds(n)'
  BY <1>1, <1>3 DEF VouchedHolds, Vouched
<1>5. Younger(n)'
  <2>1. Valid(lease[n]) \/ Passed(n) => Present(n) = {}
    BY <1>3, AgesTyped DEF NodeInv, RoomHasPeople
  <2>. QED
    BY <1>1, <1>3, <2>1 DEF Younger, Passed, Present
<1>6. (RoomHasPeople(n) /\ StaleIsOld(n))'
  BY <1>1 DEF NodeInv, RoomHasPeople, StaleIsOld, Present
<1>. QED
  BY <1>2, <1>4, <1>5, <1>6 DEF NodeInv

\* The lease counts from the question, so the key outlives it.
LEMMA OwnAcquired ==
    ASSUME VoiceInv, NEW n \in Node, NodeInv(n), Acquired(n) PROVE NodeInv(n)'
<1>1. /\ lease'[n] = acquiring[n] /\ acquiring'[n] = None
      /\ ~Valid(renewal'[n])  \/ renewal'[n] = renewal[n]
      /\ UNCHANGED redisVars /\ job' = job
      /\ room' = room /\ peers' = peers /\ stale' = stale
  BY VoiceAssumption DEF Acquired, mediaVars, VoiceInv, StateTyped, LeasesTyped, Valid
<1>2. lease'[n] # None
  BY <1>1, AnsweredOnce DEF Acquired, Answer, VoiceInv, CallsAreKnown
<1>3. ~Valid(None)
  BY DEF Valid
<1>4. (KeyOutlives(n) /\ KeyIsHeld(n))'
  BY <1>1, <1>3 DEF NodeInv, KeyOutlives, KeyIsHeld, Passed, redisVars
<1>5. (VouchedHolds(n) /\ Younger(n))'
  BY <1>1, <1>2, <1>3 DEF NodeInv, VouchedHolds, Younger, Vouched, redisVars
<1>6. (RoomHasPeople(n) /\ StaleIsOld(n))'
  BY <1>1 DEF NodeInv, RoomHasPeople, StaleIsOld, Present, redisVars
<1>. QED
  BY <1>4, <1>5, <1>6 DEF NodeInv

\* A renewal counts only if the key named the node, which it prolongs.
LEMMA OwnAsksRenewal ==
    ASSUME VoiceInv, NEW n \in Node, NodeInv(n), Renew(n) PROVE NodeInv(n)'
<1>1. /\ owner' = owner /\ ttl' = IF owner = n THEN Lease ELSE ttl
      /\ renewal'[n] = IF owner = n THEN 0 ELSE Fence
      /\ lease' = lease /\ acquiring' = acquiring /\ job' = job
      /\ room' = room /\ peers' = peers /\ stale' = stale
  BY DEF Renew, mediaVars, VoiceInv, StateTyped, LeasesTyped
<1>2. KeyOutlives(n)'
  <2>1. \A age \in {lease[n], acquiring[n]} : Valid(age) => age \in Nat
    BY AgesTyped DEF Valid, Age
  <2>. QED
    BY <1>1, <2>1, VoiceAssumption DEF KeyOutlives
<1>3. (KeyIsHeld(n) /\ VouchedHolds(n))'
  <2>1. Valid(renewal'[n]) => owner = n
    BY <1>1, VoiceAssumption DEF Valid
  <2>. QED
    BY <1>1, <2>1 DEF NodeInv, KeyIsHeld, VouchedHolds, Passed, Vouched
<1>4. (Younger(n) /\ RoomHasPeople(n) /\ StaleIsOld(n))'
  BY <1>1 DEF NodeInv, Younger, RoomHasPeople, StaleIsOld, Present, Passed
<1>. QED
  BY <1>2, <1>3, <1>4 DEF NodeInv

\* The answer makes the lease as young as the renewal.  No acquisition is under
\* way beside it, because that would be answered first.
LEMMA OwnIsRenewed ==
    ASSUME VoiceInv, NEW n \in Node, NodeInv(n), AnswersInOrder(n), RenewAnswer(n),
           Valid(renewal[n])
    PROVE  NodeInv(n)'
<1>1. /\ lease'[n] = renewal[n] /\ renewal'[n] = None
      /\ UNCHANGED redisVars /\ acquiring' = acquiring /\ job' = job
      /\ room' = room /\ peers' = peers /\ stale' = stale
  BY DEF RenewAnswer, mediaVars, VoiceInv, StateTyped, LeasesTyped, Valid
<1>2. acquiring[n] = None
  <2>1. asked[n] \in Seq(Call) /\ asked[n] # <<>> /\ Head(asked[n]) = "RENEW"
    BY DEF RenewAnswer, Answer, VoiceInv, CallsAreKnown
  <2>2. Has(asked[n], "SET") => ~Before(asked[n], "SET", "RENEW")
    BY <2>1 DEF Has, Before
  <2>. QED
    BY <2>2 DEF AnswersInOrder
<1>3. ~Valid(None) /\ renewal[n] # None
  BY DEF Valid
<1>4. (KeyOutlives(n) /\ KeyIsHeld(n))'
  BY <1>1, <1>2, <1>3 DEF NodeInv, KeyOutlives, KeyIsHeld, redisVars
<1>5. (VouchedHolds(n) /\ Younger(n))'
  BY <1>1, <1>2, <1>3 DEF NodeInv, VouchedHolds, Younger, Vouched, redisVars
<1>6. (RoomHasPeople(n) /\ StaleIsOld(n))'
  BY <1>1 DEF NodeInv, RoomHasPeople, StaleIsOld, Present, redisVars
<1>. QED
  BY <1>4, <1>5, <1>6 DEF NodeInv

\* Without a lease, an error of Redis takes what is under way.
LEMMA OwnErrs ==
    ASSUME VoiceInv, NEW n \in Node, NodeInv(n), lease[n] = None, RedisError(n)
    PROVE  NodeInv(n)'
<1>1. /\ lease'[n] = None /\ ~Valid(renewal'[n]) /\ acquiring'[n] \in {acquiring[n], None}
      /\ UNCHANGED redisVars /\ job' = job
      /\ room' = room /\ peers' = peers /\ stale' = stale
  BY VoiceAssumption DEF RedisError, mediaVars, VoiceInv, StateTyped, LeasesTyped, Valid
<1>2. ~Valid(None)
  BY DEF Valid
<1>3. (KeyOutlives(n) /\ KeyIsHeld(n) /\ VouchedHolds(n))'
  BY <1>1, <1>2 DEF NodeInv, KeyOutlives, KeyIsHeld, VouchedHolds, Passed, Vouched, redisVars
<1>4. (Younger(n) /\ RoomHasPeople(n) /\ StaleIsOld(n))'
  BY <1>1, <1>2 DEF NodeInv, Younger, RoomHasPeople, StaleIsOld, Present, Passed, redisVars
<1>. QED
  BY <1>3, <1>4 DEF NodeInv

\* Every step of a node keeps what the node relies on.
LEMMA NodeStep ==
    ASSUME VoiceInv, LeaseInv, NEW n \in Node,
           Cluster(n) \/ Gateway(n) \/ Crash(n) \/ Shutdown(n)
    PROVE  NodeInv(n)'
<1>0. /\ RoomsTyped /\ LeasesTyped /\ JobsTyped /\ acquiring \in [Node -> Age \cup {None}]
      /\ NodeInv(n) /\ JobServes(n) /\ AnswersInOrder(n) /\ Idle.stage = "idle"
  BY DEF VoiceInv, StateTyped, LeaseInv, Idle
<1>a. ASSUME Forget(n) PROVE lease'[n] = None /\ ~Valid(renewal'[n])
  BY <1>0, <1>a, VoiceAssumption DEF Forget, LeasesTyped, Valid
<1>b. ASSUME Unlock(n) PROVE UNCHANGED redisVars \/ owner' # n
  BY <1>b, VoiceAssumption DEF Unlock, redisVars
<1>c. ASSUME Keep, UNCHANGED acquiring PROVE Unmoved(n)
  BY <1>c DEF Keep, Unmoved, leaseVars, mediaVars
<1>d. ASSUME Done(n) PROVE ~Vouched(n)' /\ ~Passed(n)'
  BY <1>0, <1>d DEF Done, JobsTyped, Vouched, Passed, Stage
<1>e. ASSUME UNCHANGED job PROVE Passed(n)' <=> Passed(n)
  BY <1>e DEF Passed
<1>f. ASSUME job[n].stage \in Stage, NEW stage, Goto(n, stage)
      PROVE  job'[n].stage = stage /\ job'[n].ok = job[n].ok /\ job'[n].age = job[n].age
  <2>1. job[n] \in Job
    BY <1>0, <1>f, Busy
  <2>. QED
    BY <1>0, <1>f, <2>1 DEF Goto, JobsTyped, Job
<1>g. ASSUME job[n].stage \in Stage, NEW u, job' = [job EXCEPT ![n] = Checking(job[n], u)]
      PROVE  job'[n].stage \in {"publishing", "authorize"} /\ job'[n].age = job[n].age
  <2>1. job[n] \in Job
    BY <1>0, <1>g, Busy
  <2>. QED
    BY <1>0, <1>g, <2>1 DEF Checking, JobsTyped, Job
<1>h. ASSUME Lose(n), UNCHANGED acquiring, UNCHANGED job \/ Done(n) PROVE NodeInv(n)'
  <2>1. UNCHANGED redisVars /\ (Passed(n)' => Passed(n))
    BY <1>d, <1>e, <1>h DEF Lose
  <2>. QED
    BY <1>0, <1>a, <1>h, <2>1, CloseEmpties, OwnCloses DEF Lose
<1>i. ASSUME Quit(n), UNCHANGED acquiring, ~Passed(n)' PROVE NodeInv(n)'
  BY <1>0, <1>a, <1>b, <1>i, CloseEmpties, OwnCloses DEF Quit
<1>j. ASSUME Keep, UNCHANGED acquiring, ~Passed(n)',
             Vouched(n)' => Vouched(n) \/ (owner = n /\ Valid(lease[n]))
      PROVE  NodeInv(n)'
  BY <1>0, <1>c, <1>j, OwnWorks
<1>k. ASSUME GiveUp(n), UNCHANGED acquiring PROVE NodeInv(n)'
  BY <1>d, <1>i, <1>j, <1>k DEF GiveUp
<1>1. CASE Acquire(n)
  BY <1>0, <1>1, OwnAcquires
<1>2. CASE Acquired(n)
  BY <1>0, <1>2, OwnAcquired
<1>3. CASE Heartbeat(n) \/ Misrouted(n)
  BY <1>3, <1>h DEF Heartbeat, Misrouted
<1>4. CASE Renew(n)
  BY <1>0, <1>4, OwnAsksRenewal
<1>5. CASE RenewAnswer(n)
  <2>1. renewal[n] # None
    BY <1>5, AnsweredOnce DEF RenewAnswer, Answer, VoiceInv, CallsAreKnown
  <2>2. CASE renewal[n] < Fence
    BY <1>0, <1>5, <2>1, <2>2, OwnIsRenewed DEF Valid
  <2>3. CASE ~(renewal[n] < Fence)
    <3>1. /\ lease'[n] = None /\ renewal'[n] = None /\ CloseRoom(n)
          /\ UNCHANGED redisVars /\ acquiring' = acquiring /\ job' = job
      BY <1>0, <1>5, <2>3 DEF RenewAnswer, LeasesTyped
    <3>. QED
      BY <1>0, <1>e, <3>1, CloseEmpties, OwnCloses DEF Valid
  <2>. QED
    BY <2>2, <2>3
<1>6. CASE RedisError(n)
  <2>1. CASE lease[n] = None
    BY <1>0, <1>6, <2>1, OwnErrs
  <2>2. CASE lease[n] # None
    <3>1. /\ lease'[n] = None /\ ~Valid(renewal'[n]) /\ CloseRoom(n)
          /\ acquiring'[n] \in {acquiring[n], None}
          /\ UNCHANGED redisVars /\ job' = job
      BY <1>0, <1>6, <2>2, VoiceAssumption DEF RedisError, LeasesTyped, Valid
    <3>. QED
      BY <1>0, <1>e, <3>1, CloseEmpties, OwnCloses
  <2>. QED
    BY <2>1, <2>2
<1>7. ASSUME NEW kind, NEW users, Start(n, kind, users), UNCHANGED acquiring
      PROVE  NodeInv(n)'
  <2>1. CASE Fresh(n)
    <3>1. /\ Keep /\ job[n] = Idle
          /\ job'[n] = [kind |-> kind, users |-> users, stage |-> "first", ok |-> owner = n, age |-> 0]
      BY <1>0, <1>7, <2>1 DEF Start, JobsTyped
    <3>2. job'[n].stage = "first" /\ job'[n].ok = (owner = n) /\ job'[n].age = 0
      BY <3>1
    <3>3. ~Passed(n)' /\ (Vouched(n)' => owner = n /\ Valid(lease[n]))
      BY <2>1, <3>2 DEF Passed, Vouched, Valid, Fresh
    <3>. QED
      BY <1>7, <1>j, <3>1, <3>3
  <2>2. CASE ~Fresh(n)
    BY <1>7, <1>h, <2>2 DEF Start
  <2>. QED
    BY <2>1, <2>2
<1>8. CASE \/ \E kind \in {"join", "leave", "use"}, u \in User : Receive(n, kind, u)
           \/ Revalidate(n)
  BY <1>7, <1>8 DEF Receive, Revalidate
<1>9. CASE FirstAnswer(n)
  <2>1. job[n].stage = "first" /\ job[n].stage \in Stage /\ job[n].users \subseteq User
    BY <1>0, <1>9, Busy DEF FirstAnswer, Stage, Job
  <2>2. CASE ~job[n].ok
    BY <1>9, <1>h, <2>2 DEF FirstAnswer
  <2>3. CASE job[n].ok
    <3>1. Vouched(n)
      BY <2>1, <2>3 DEF Vouched
    <3>2. ASSUME NEW u \in job[n].users, Remove(n, u), Goto(n, "leaving") PROVE NodeInv(n)'
      BY <1>0, <1>9, <1>f, <2>1, <3>1, <3>2, OwnRemoves DEF FirstAnswer
    <3>3. ASSUME Keep, Goto(n, "authorize") PROVE NodeInv(n)'
      BY <1>9, <1>f, <1>j, <2>1, <3>1, <3>3 DEF FirstAnswer, Passed
    <3>. QED
      BY <1>9, <2>3, <3>2, <3>3 DEF FirstAnswer
  <2>. QED
    BY <2>2, <2>3
<1>10. CASE Left(n)
  <2>1. ~Passed(n)' /\ Vouched(n)
    <3>1. job[n].stage \in Stage
      BY <1>10 DEF Left, Stage
    <3>2. CASE job[n].kind = "check"
      BY <1>10, <1>g, <3>1, <3>2 DEF Left, Passed, Vouched
    <3>3. CASE job[n].kind # "check"
      BY <1>10, <1>d, <3>1, <3>3 DEF Left, Done, Vouched
    <3>. QED
      BY <3>2, <3>3
  <2>. QED
    BY <1>10, <1>i, <1>j, <2>1 DEF Left
<1>11. ASSUME NEW u \in User, Confirmed(n, u) PROVE NodeInv(n)'
  <2>1. job[n].stage \in Stage /\ Vouched(n)
    BY <1>11 DEF Confirmed, Stage, Vouched
  <2>2. job'[n].stage \in {"publishing", "authorize"} /\ job'[n].age = job[n].age
    BY <1>11, <1>g, <2>1 DEF Confirmed
  <2>3. ~Passed(n)'
    BY <2>2 DEF Passed
  <2>. QED
    BY <1>0, <1>11, <2>1, <2>2, <2>3, OwnRenews DEF Confirmed, leaseVars
<1>12. ASSUME NEW u \in User, Authorized(n, u) PROVE NodeInv(n)'
  <2>1. job[n] \in Job /\ Vouched(n)
    BY <1>0, <1>12, Busy DEF Authorized, Stage, Vouched
  <2>2. CASE Fresh(n)
    <3>1. job'[n] = [job[n] EXCEPT !.stage = "second", !.ok = (owner = n), !.age = 0]
      BY <1>0, <1>12, <2>2 DEF Authorized, JobsTyped
    <3>2. job'[n].stage = "second" /\ job'[n].ok = (owner = n) /\ job'[n].age = 0
      BY <2>1, <3>1 DEF Job
    <3>3. Valid(lease[n]) /\ (Vouched(n)' => owner = n) /\ (Passed(n)' => owner = n)
      BY <2>2, <3>2 DEF Fresh, Valid, Passed, Vouched
    <3>. QED
      BY <1>0, <1>12, <2>1, <2>2, <3>2, <3>3, OwnRenews DEF Authorized, leaseVars
  <2>3. CASE ~Fresh(n)
    BY <1>12, <1>d, <1>i, <2>3 DEF Authorized
  <2>. QED
    BY <2>2, <2>3
<1>13. ASSUME NEW u \in User, Denied(n, u) PROVE NodeInv(n)'
  <2>1. job[n] \in Job /\ job[n].stage \in Stage /\ Vouched(n)
    BY <1>0, <1>13, Busy DEF Denied, Stage, Vouched
  <2>2. CASE Remove(n, u) /\ job' = [job EXCEPT ![n] = Removing(@, u)]
    <3>1. job'[n].stage = "leaving"
      BY <1>0, <2>1, <2>2 DEF Removing, JobsTyped, Job
    <3>. QED
      BY <1>0, <1>13, <2>1, <2>2, <3>1, OwnRemoves DEF Denied
  <2>3. CASE Keep /\ job' = [job EXCEPT ![n] = Checking(@, u)]
    BY <1>13, <1>g, <1>j, <2>1, <2>3 DEF Denied, Passed
  <2>4. CASE GiveUp(n)
    BY <1>13, <1>k, <2>4 DEF Denied
  <2>. QED
    BY <1>13, <2>2, <2>3, <2>4 DEF Denied
<1>14. CASE Published(n)
  BY <1>14, <1>d, <1>j DEF Published
<1>15. CASE SecondAnswer(n)
  <2>1. CASE Quit(n) /\ Done(n)
    BY <1>15, <1>d, <1>i, <2>1 DEF SecondAnswer
  <2>2. CASE job[n].ok /\ Keep /\ Goto(n, "entering")
    <3>1. job[n].stage = "second" /\ job[n].stage \in Stage
      BY <1>15 DEF SecondAnswer, Stage
    <3>2. Vouched(n) /\ Passed(n) /\ job'[n].age = job[n].age
      BY <1>f, <2>2, <3>1 DEF Vouched, Passed
    <3>. QED
      BY <1>0, <1>15, <1>c, <2>2, <3>2, OwnWorks DEF SecondAnswer
  <2>3. CASE GiveUp(n)
    BY <1>15, <1>k, <2>3 DEF SecondAnswer
  <2>. QED
    BY <1>15, <2>1, <2>2, <2>3 DEF SecondAnswer
<1>16. CASE Enter(n)
  <2>1. CASE n \in room /\ Entered(n) /\ Done(n)
    BY <1>0, <1>16, <1>d, <2>1, OwnEnters DEF Enter, leaseVars
  <2>2. CASE Goto(n, "creating") /\ UNCHANGED peers
    <3>1. job[n].stage = "entering" /\ job[n].stage \in Stage
      BY <1>16 DEF Enter, Stage
    <3>2. Vouched(n) /\ Passed(n) /\ job'[n].age = job[n].age
      BY <1>f, <2>2, <3>1 DEF Vouched, Passed
    <3>3. Unmoved(n)
      BY <1>16, <2>2 DEF Enter, Unmoved, leaseVars
    <3>. QED
      BY <1>0, <3>2, <3>3, OwnWorks
  <2>. QED
    BY <1>16, <2>1, <2>2 DEF Enter
<1>17. CASE Created(n)
  <2>1. CASE n \in creating
    BY <1>0, <1>17, <1>d, <2>1, OwnEnters DEF Created, leaseVars
  <2>2. CASE n \notin creating
    BY <1>17, <1>k, <2>2 DEF Created
  <2>. QED
    BY <2>1, <2>2
<1>18. CASE CommandFails(n)
  <2>1. /\ acquiring' = acquiring
        /\ \/ Keep /\ Done(n)
           \/ CloseRoom(n) /\ UNCHANGED <<redisVars, leaseVars>> /\ Done(n)
           \/ GiveUp(n)
    BY <1>18 DEF CommandFails
  <2>2. ASSUME CloseRoom(n), UNCHANGED <<redisVars, leaseVars>>, Done(n) PROVE NodeInv(n)'
    BY <1>0, <1>d, <2>1, <2>2, CloseEmpties, OwnCloseOnly DEF leaseVars
  <2>. QED
    BY <1>d, <1>j, <1>k, <2>1, <2>2
<1>19. CASE Sweep(n)
  <2>1. PICK u \in User : peers[n][u] = Fence
    BY <1>19 DEF Sweep
  <2>2. Quit(n) /\ UNCHANGED <<acquiring, job>> /\ u \in Present(n)
    BY <1>19, <2>1, VoiceAssumption DEF Sweep, Present
  <2>3. Passed(n) => ~Valid(acquiring[n])
    <3>1. SUFFICES ASSUME Passed(n), Valid(acquiring[n]) PROVE FALSE
      OBVIOUS
    <3>2. Fence <= acquiring[n] /\ acquiring[n] < Fence
      BY <1>0, <2>1, <2>2, <3>1 DEF NodeInv, Younger, Valid
    <3>3. acquiring[n] \in Nat
      BY <3>1, AgesTyped DEF Valid, Age
    <3>. QED
      BY <3>2, <3>3, VoiceAssumption
  <2>. QED
    BY <1>0, <1>a, <1>b, <1>e, <2>2, <2>3, CloseEmpties, OwnCloses DEF Quit
<1>20. CASE Crash(n) \/ Shutdown(n)
  <2>1. Vanish(n) /\ (UNCHANGED redisVars \/ owner' # n)
    BY <1>20, <1>b, VoiceAssumption DEF Crash, Shutdown, redisVars
  <2>2. /\ lease'[n] = None /\ renewal'[n] = None /\ acquiring'[n] = None /\ Emptied(n)
        /\ Done(n)
    BY <1>0, <2>1 DEF Vanish, LeasesTyped, RoomsTyped, Emptied
  <2>. QED
    BY <1>0, <1>d, <2>1, <2>2, OwnCloses DEF Valid
<1>. QED
  BY <1>1, <1>2, <1>3, <1>4, <1>5, <1>6, <1>8, <1>9, <1>10, <1>11, <1>12, <1>13, <1>14,
     <1>15, <1>16, <1>17, <1>18, <1>19, <1>20
  DEF Cluster, Gateway

-----------------------------------------------------------------------------
\* Ages grow together, up to the fence.
LEMMA OlderTogether ==
    ASSUME NEW a \in Age \cup {None}
    PROVE  /\ Older(a) = None <=> a = None
           /\ Valid(Older(a)) => Valid(a) /\ Older(a) = a + 1
           /\ a # None /\ a # Fence => Older(a) = a + 1
           /\ \A b \in Age : a # None /\ a <= b => Older(a) <= Older(b)
<1>1. None \notin Nat /\ Fence \in Nat
  BY VoiceAssumption
<1>. QED
  BY <1>1 DEF Older, Valid, Age

\* What a lease, an acquisition or a renewal that counts says of the key.
LEMMA KeyLasts ==
    ASSUME VoiceInv, NEW n \in Node, NodeInv(n), owner = n,
           NEW age \in {lease[n], acquiring[n], renewal[n]}, Valid(age)
    PROVE  ttl + age >= Lease /\ age \in Nat /\ ttl > 1
<1>1. ttl + age >= Lease
  BY DEF NodeInv, KeyOutlives
<1>2. age \in Nat /\ ttl \in Nat
  BY AgesTyped, VoiceAssumption DEF Valid, Age
<1>. QED
  BY <1>1, <1>2, VoiceAssumption DEF Valid

\* Time: the key does not expire before what relies on it is fenced.
LEMMA TimeStep ==
    ASSUME VoiceInv, LeaseInv, Tick, NEW n \in Node
    PROVE  (NodeInv(n) /\ JobServes(n) /\ AnswersInOrder(n))'
<1>0. /\ RoomsTyped /\ LeasesTyped /\ JobsTyped
      /\ acquiring \in [Node -> Age \cup {None}]
      /\ NodeInv(n) /\ JobServes(n) /\ AnswersInOrder(n)
  BY DEF VoiceInv, StateTyped, LeaseInv
<1>1. /\ lease'[n] = Older(lease[n]) /\ acquiring'[n] = Older(acquiring[n])
      /\ renewal'[n] = Older(renewal[n]) /\ asked' = asked /\ room' = room
      /\ \A u \in User : peers'[n][u] = Older(peers[n][u]) /\ peers[n][u] # Fence
      /\ lease[n] # Fence
      /\ stale'[n] = IF n \notin room \/ owner = n THEN 0
                    ELSE IF stale[n] > Fence THEN stale[n] ELSE stale[n] + 1
      /\ owner' = (IF ttl <= 1 THEN None ELSE owner)
      /\ ttl' = IF ttl = 0 THEN 0 ELSE ttl - 1
  BY <1>0 DEF Tick
<1>2. /\ lease[n] \in Age \cup {None} /\ acquiring[n] \in Age \cup {None}
      /\ renewal[n] \in Age \cup {None} /\ ttl \in Nat
      /\ \A u \in User : peers[n][u] \in Age \cup {None}
  BY AgesTyped, VoiceAssumption
<1>3. /\ job'[n].stage = job[n].stage
      /\ Vouched(n)' <=> Vouched(n)
      /\ Passed(n)' <=> Passed(n)
      /\ JobServes(n)'
      /\ Passed(n) => job'[n].age \in {job[n].age, Older(job[n].age)}
  <2>1. CASE Joining(n)
    <3>1. job[n] \in Job /\ job'[n] = [job[n] EXCEPT !.age = Older(@)]
      BY <1>0, <2>1, Busy DEF Tick, JobsTyped, Joining, Stage
    <3>2. /\ job'[n].stage = job[n].stage /\ job'[n].kind = job[n].kind
          /\ job'[n].users = job[n].users /\ job'[n].ok = job[n].ok
          /\ job'[n].age = Older(job[n].age)
      BY <3>1 DEF Job
    <3>. QED
      BY <1>0, <3>2 DEF Vouched, Passed, JobServes
  <2>2. CASE ~Joining(n)
    <3>1. job'[n] = job[n]
      BY <1>0, <2>2 DEF Tick, JobsTyped
    <3>. QED
      BY <1>0, <3>1 DEF Vouched, Passed, JobServes
  <2>. QED
    BY <2>1, <2>2
<1>4. ASSUME NEW a \in {lease[n], acquiring[n], renewal[n]}, Valid(Older(a))
      PROVE  Valid(a) /\ Older(a) = a + 1
  BY <1>2, <1>4, OlderTogether
<1>5. ASSUME NEW a \in {lease[n], acquiring[n], renewal[n]}, Valid(Older(a)), owner = n
      PROVE  owner' = n /\ ttl' + Older(a) >= Lease
  <2>1. ttl + a >= Lease /\ a \in Nat /\ ttl > 1 /\ Older(a) = a + 1
    BY <1>0, <1>4, <1>5, KeyLasts
  <2>. QED
    BY <1>1, <1>2, <1>5, <2>1
<1>6. KeyOutlives(n)'
  <2>1. owner' = n => owner = n
    BY <1>1, VoiceAssumption
  <2>. QED
    BY <1>1, <1>5, <2>1 DEF KeyOutlives
<1>7. KeyIsHeld(n)'
  <2>1. Valid(renewal'[n]) => owner' = n
    BY <1>0, <1>1, <1>4, <1>5 DEF NodeInv, KeyIsHeld
  <2>2. ASSUME n \in room \/ Passed(n), Valid(lease'[n]) \/ Valid(acquiring'[n])
        PROVE  owner' = n
    BY <1>0, <1>1, <1>4, <1>5, <2>2 DEF NodeInv, KeyIsHeld
  <2>. QED
    BY <1>1, <1>3, <2>1, <2>2 DEF KeyIsHeld
<1>8. VouchedHolds(n)'
  <2>1. ASSUME Vouched(n), n \in room PROVE owner' = n /\ lease'[n] # None
    <3>1. owner = n /\ lease[n] # None /\ lease[n] \in Age
      BY <1>0, <1>2, <2>1 DEF NodeInv, VouchedHolds
    <3>2. Valid(lease[n])
      BY <1>1, <3>1, VoiceAssumption DEF Valid, Age
    <3>3. ttl > 1
      BY <1>0, <3>1, <3>2, KeyLasts
    <3>. QED
      BY <1>1, <1>2, <3>1, <3>3, OlderTogether
  <2>. QED
    BY <1>1, <1>3, <2>1 DEF VouchedHolds
<1>9. Present(n)' = Present(n)
  BY <1>1, <1>2, OlderTogether DEF Present
<1>10. Younger(n)'
  <2>1. SUFFICES ASSUME Valid(acquiring'[n])
                 PROVE  /\ Valid(lease'[n]) \/ Passed(n)' => \A u \in Present(n)' : peers'[n][u] <= acquiring'[n]
                        /\ Valid(lease'[n]) /\ Passed(n)' => job'[n].age <= acquiring'[n]
    BY DEF Younger
  <2>2. /\ Valid(acquiring[n]) /\ acquiring[n] \in Age /\ acquiring'[n] = acquiring[n] + 1
        /\ Older(acquiring[n]) = acquiring[n] + 1
    BY <1>1, <1>2, <1>4, <2>1 DEF Valid
  <2>3. Valid(lease'[n]) => Valid(lease[n])
    BY <1>1, <1>4
  <2>4. ASSUME Valid(lease[n]) \/ Passed(n), NEW u \in Present(n)
        PROVE  peers'[n][u] <= acquiring'[n]
    <3>1. u \in User /\ peers[n][u] # None /\ peers[n][u] <= acquiring[n]
      BY <1>0, <2>2, <2>4 DEF NodeInv, Younger, Present
    <3>. QED
      BY <1>1, <1>2, <2>2, <3>1, OlderTogether
  <2>5. ASSUME Valid(lease[n]), Passed(n) PROVE job'[n].age <= acquiring'[n]
    <3>1. job[n].age \in Age /\ job[n].age <= acquiring[n]
      BY <1>0, <2>2, <2>5, AgesTyped DEF NodeInv, Younger
    <3>2. Older(job[n].age) <= acquiring[n] + 1 /\ job[n].age <= acquiring[n] + 1
      BY <2>2, <3>1, VoiceAssumption, OlderTogether DEF Age
    <3>. QED
      BY <1>3, <2>2, <2>5, <3>2
  <2>. QED
    BY <1>3, <1>9, <2>3, <2>4, <2>5
<1>11. RoomHasPeople(n)'
  BY <1>0, <1>1, <1>9 DEF NodeInv, RoomHasPeople
<1>12. StaleIsOld(n)'
  <2>1. stale[n] \in Nat /\ Fence \in Nat
    BY AgesTyped, VoiceAssumption
  <2>2. CASE n \notin room \/ owner = n
    <3>1. stale'[n] = 0 /\ \A u \in Present(n)' : peers'[n][u] >= 0
      <4>1. \A u \in Present(n) : u \in User /\ peers[n][u] # None /\ peers[n][u] \in Age
        BY <1>2 DEF Present
      <4>2. \A u \in Present(n) : Older(peers[n][u]) = peers[n][u] + 1
        BY <1>1, <4>1, OlderTogether
      <4>. QED
        BY <1>1, <1>9, <2>2, <4>1, <4>2 DEF Age
    <3>. QED
      BY <2>1, <3>1 DEF StaleIsOld
  <2>3. CASE n \in room /\ owner # n
    <3>1. \A u \in Present(n) : /\ u \in User /\ peers[n][u] \in Age /\ peers[n][u] # Fence
                                /\ stale[n] <= peers[n][u]
                                /\ peers'[n][u] = peers[n][u] + 1
      BY <1>0, <1>1, <1>2, <2>3, OlderTogether DEF NodeInv, StaleIsOld, Present
    <3>2. PICK u \in Present(n) : TRUE
      BY <1>0, <2>3 DEF NodeInv, RoomHasPeople
    <3>3. stale[n] < Fence
      BY <2>1, <3>1, <3>2 DEF Age
    <3>4. stale'[n] = stale[n] + 1
      BY <1>1, <2>1, <2>3, <3>3
    <3>5. \A v \in Present(n) : stale'[n] <= peers'[n][v]
      BY <2>1, <3>1, <3>4 DEF Age
    <3>. QED
      BY <1>9, <2>1, <3>3, <3>4, <3>5 DEF StaleIsOld
  <2>. QED
    BY <2>2, <2>3
<1>13. AnswersInOrder(n)'
  BY <1>0, <1>1, <1>2, <1>4, OlderTogether DEF AnswersInOrder
<1>. QED
  BY <1>3, <1>6, <1>7, <1>8, <1>10, <1>11, <1>12, <1>13 DEF NodeInv

-----------------------------------------------------------------------------
\* What the nodes rely on holds in every state.
LEMMA LeaseInvHolds == Spec => []LeaseInv
<1>1. Init => LeaseInv
  <2> SUFFICES ASSUME Init, NEW n \in Node PROVE NodeInv(n) /\ JobServes(n) /\ AnswersInOrder(n)
    BY DEF LeaseInv
  <2>1. job[n].stage = "idle" /\ ~Vouched(n) /\ ~Passed(n) /\ Present(n) = {} /\ ~Valid(None)
    BY DEF Init, Idle, Vouched, Passed, Stage, Present, NoPeers, Valid
  <2>. QED
    BY <2>1, VoiceAssumption
    DEF Init, NodeInv, KeyOutlives, KeyIsHeld, VouchedHolds, Younger, RoomHasPeople,
        StaleIsOld, JobServes, AnswersInOrder
<1>2. VoiceInv /\ LeaseInv /\ [Next]_vars => LeaseInv'
  <2> SUFFICES ASSUME VoiceInv, LeaseInv, [Next]_vars PROVE LeaseInv'
    OBVIOUS
  <2>1. ASSUME NEW n \in Node, Cluster(n) \/ Gateway(n) \/ Crash(n) \/ Shutdown(n)
        PROVE  LeaseInv'
    BY <2>1, StepAside, NodeStep, ServeStep, OrderStep, OthersKeep
  <2>2. CASE Tick
    BY <2>2, TimeStep DEF LeaseInv
  <2>3. CASE UNCHANGED vars
    <3>1. UNCHANGED <<owner, ttl, lease, renewal, asked, acquiring, job, room, peers, stale>>
      BY <2>3 DEF vars, redisVars, leaseVars, mediaVars
    <3>. QED
      BY <3>1
      DEF LeaseInv, NodeInv, KeyOutlives, KeyIsHeld, VouchedHolds, Younger, RoomHasPeople,
          StaleIsOld, JobServes, AnswersInOrder, Vouched, Passed, Present
  <2>. QED
    BY <2>1, <2>2, <2>3 DEF Next
<1>. QED
  BY <1>1, <1>2, VoiceInvHolds, PTL DEF Spec

\* LeasedRoomIsOwned (acquire, renew, assertOwnership, OWNER_RELEASE): a node that
\* has a room and a lease younger than the fence is the one Redis names, and the
\* key lasts longer than the lease counts.  No second replica serves the room.
THEOREM LeaseHasTheKey == Spec => []LeasedRoomIsOwned
<1>1. ASSUME VoiceInv, LeaseInv PROVE LeasedRoomIsOwned
  <2> SUFFICES ASSUME NEW n \in room, Fresh(n) PROVE owner = n /\ ttl + lease[n] >= Lease
    BY DEF LeasedRoomIsOwned
  <2>1. n \in Node /\ NodeInv(n) /\ Valid(lease[n])
    BY <1>1 DEF VoiceInv, StateTyped, RoomsTyped, LeaseInv, Fresh, Valid
  <2>. QED
    BY <2>1 DEF NodeInv, KeyIsHeld, KeyOutlives
<1>. QED
  BY <1>1, VoiceInvHolds, LeaseInvHolds, PTL

\* StaleRoomEnds (the safety deadline of removeExpiredPeers): whoever is in a room
\* that Redis gives to no one or to another node was authorized before it was lost.
THEOREM StaleRoomIsSwept == Spec => []StaleRoomEnds
<1>1. LeaseInv => StaleRoomEnds
  BY DEF LeaseInv, NodeInv, StaleIsOld, StaleRoomEnds
<1>. QED
  BY <1>1, LeaseInvHolds, PTL

-----------------------------------------------------------------------------
(***************************************************************************)
(* RoomPromise.  LeaseInv names the server: whoever has a room and a lease *)
(* that counts holds the key, with the margin of the fence.  So a step     *)
(* keeps the promise if it does one of few things to the key, and leaves   *)
(* nobody who serves when it takes the key away.                           *)
(***************************************************************************)
Serving == {n \in room : Fresh(n)}

\* Only the holder serves, and with the margin.
ServerHolds == \A n \in Serving : n \in Node /\ owner = n /\ ttl + Fence > Lease

LEMMA ServerIsHolder ==
    ASSUME VoiceInv, LeaseInv
    PROVE  ServerHolds
<1> SUFFICES ASSUME NEW n \in Serving PROVE n \in Node /\ owner = n /\ ttl + Fence > Lease
  BY DEF ServerHolds
<1>1. n \in Node /\ NodeInv(n) /\ Valid(lease[n]) /\ n \in room
  BY DEF VoiceInv, StateTyped, RoomsTyped, LeaseInv, Serving, Fresh, Valid
<1>2. owner = n /\ ttl + lease[n] >= Lease
  BY <1>1 DEF NodeInv, KeyIsHeld, KeyOutlives
<1>3. lease[n] \in Nat /\ lease[n] < Fence /\ ttl \in Nat
  BY <1>1, AgesTyped, VoiceAssumption DEF Valid, Age
<1>. QED
  BY <1>1, <1>2, <1>3, VoiceAssumption

\* What a step does to the key in Redis, and what it may not leave behind.
KeyKept == UNCHANGED redisVars
KeyTaken == /\ owner = None /\ owner' \in Node /\ ttl' = Lease
            /\ room' = room /\ lease' = lease
KeyRenewed == /\ owner \in Node /\ owner' = owner /\ ttl' = Lease
              /\ room' = room /\ lease' = lease
KeyLeft == \E n \in Node : owner = n /\ n \notin room' /\ owner' = None /\ ttl' = 0
KeyDead == \E n \in Node : owner = n /\ n \notin room' /\ owner' = Dead /\ ttl' = ttl

LEMMA UnlockKey ==
    ASSUME NEW n \in Node, n \notin room', Unlock(n)
    PROVE  KeyKept \/ KeyLeft
  BY DEF Unlock, KeyKept, KeyLeft, redisVars

LEMMA QuitKey ==
    ASSUME NEW n \in Node, Quit(n)
    PROVE  KeyKept \/ KeyLeft
<1>1. n \notin room' /\ Unlock(n)
  BY DEF Quit, CloseRoom
<1>. QED
  BY <1>1, UnlockKey

\* Each action of a node is one of these to the key.
LEMMA NodeKey ==
    ASSUME NEW n \in Node, Cluster(n) \/ Gateway(n) \/ Crash(n) \/ Shutdown(n)
    PROVE  KeyKept \/ KeyTaken \/ KeyRenewed \/ KeyLeft \/ KeyDead
<1> USE DEF KeyKept, redisVars
<1>1. CASE Acquire(n)
  BY <1>1 DEF Acquire, KeyTaken, leaseVars, mediaVars
<1>2. CASE Renew(n)
  BY <1>2 DEF Renew, KeyRenewed, leaseVars, mediaVars
<1>3. CASE Acquired(n) \/ Heartbeat(n) \/ RenewAnswer(n) \/ RedisError(n)
  BY <1>3 DEF Acquired, Heartbeat, Lose, RenewAnswer, RedisError
<1>4. ASSUME NEW kind, NEW users, Start(n, kind, users) PROVE KeyKept
  BY <1>4 DEF Start, Keep, Lose
<1>5. CASE (\E kind \in {"join", "leave", "use"}, u \in User : Receive(n, kind, u)) \/ Revalidate(n)
  BY <1>4, <1>5 DEF Receive, Revalidate
<1>6. CASE Misrouted(n) \/ FirstAnswer(n)
  BY <1>6 DEF Misrouted, FirstAnswer, Lose, Remove, Keep
<1>7. CASE Left(n) \/ SecondAnswer(n)
  BY <1>7, QuitKey DEF Left, SecondAnswer, GiveUp, Keep
<1>8. ASSUME NEW u \in User, Confirmed(n, u) \/ Authorized(n, u) \/ Denied(n, u)
      PROVE  KeyKept \/ KeyLeft
  BY <1>8, QuitKey DEF Confirmed, Authorized, Denied, GiveUp, Keep, Remove
<1>9. CASE Published(n) \/ Enter(n) \/ Created(n)
  BY <1>9, QuitKey DEF Published, Enter, Created, GiveUp, Keep
<1>10. CASE CommandFails(n) \/ Sweep(n)
  BY <1>10, QuitKey DEF CommandFails, Sweep, GiveUp, Keep
<1>11. CASE Crash(n) \/ Shutdown(n)
  <2>1. n \notin room'
    BY <1>11 DEF Crash, Shutdown, Vanish
  <2>. QED
    BY <1>11, <2>1 DEF Crash, Shutdown, KeyLeft, KeyDead
<1>. QED
  BY <1>1, <1>2, <1>3, <1>5, <1>6, <1>7, <1>8, <1>9, <1>10, <1>11 DEF Cluster, Gateway

\* KeepsRoomPromise: the replicas, with their leases, fences, late answers and
\* crashes, are one lock with a lease.  The room changes hands when its holder
\* gives it back or the key expires, and nobody serves it then.
THEOREM RoomHasOneServer == Spec => KeepsRoomPromise
<1> USE DEF Serving
<1>1. Init => Promise!PromiseInit
  BY DEF Init, Promise!PromiseInit
<1>2. VoiceInv /\ ServerHolds /\ ServerHolds' /\ [Next]_vars
        => [Promise!PromiseNext]_Promise!promiseVars
  <2> SUFFICES ASSUME VoiceInv, ServerHolds, ServerHolds', [Next]_vars
               PROVE  Promise!PromiseNext \/ UNCHANGED <<owner, ttl, Serving>>
    BY DEF Promise!promiseVars
  <2>1. None \notin Node /\ Dead \notin Node /\ None # Dead
    BY VoiceAssumption
  <2>2. CASE KeyKept
    <3>1. CASE Serving' = {}
      BY <2>2, <3>1 DEF KeyKept, redisVars, Promise!Stop, Promise!PromiseNext
    <3>2. CASE Serving' # {}
      <4>1. owner \in Node /\ Serving' = {owner} /\ ttl + Fence > Lease
        BY <2>2, <3>2 DEF KeyKept, redisVars, ServerHolds
      <4>. QED
        BY <2>2, <4>1 DEF KeyKept, redisVars, Promise!Safe, Promise!Serve, Promise!PromiseNext
    <3>. QED
      BY <3>1, <3>2
  <2>3. CASE KeyTaken
    <3>1. Serving' = Serving
      BY <2>3 DEF KeyTaken, Fresh
    <3>2. Serving = {}
      BY <2>1, <2>3 DEF KeyTaken, ServerHolds
    <3>. QED
      BY <2>3, <3>1, <3>2 DEF KeyTaken, Promise!Take, Promise!PromiseNext
  <2>4. CASE KeyRenewed
    <3>1. Serving' = Serving
      BY <2>4 DEF KeyRenewed, Fresh
    <3>. QED
      BY <2>4, <3>1 DEF KeyRenewed, Promise!Extend, Promise!PromiseNext
  <2>5. CASE KeyLeft
    <3>1. Serving' = {}
      BY <2>1, <2>5 DEF KeyLeft, ServerHolds
    <3>. QED
      BY <2>5, <3>1 DEF KeyLeft, Promise!GiveBack, Promise!PromiseNext
  <2>6. CASE KeyDead
    <3>1. Serving' = {}
      BY <2>1, <2>6 DEF KeyDead, ServerHolds
    <3>. QED
      BY <2>6, <3>1 DEF KeyDead, Promise!Die, Promise!PromiseNext
  <2>7. CASE Tick
    <3>1. /\ owner' = (IF ttl <= 1 THEN None ELSE owner)
          /\ ttl' = IF ttl = 0 THEN 0 ELSE ttl - 1
          /\ room' = room
      BY <2>7 DEF Tick
    <3>2. Serving' \subseteq Serving
      <4> SUFFICES ASSUME NEW n \in Serving' PROVE n \in Serving
        OBVIOUS
      <4>1. n \in room /\ n \in Node /\ lease'[n] = Older(lease[n]) /\ lease'[n] # None /\ lease'[n] < Fence
        BY <2>7, <3>1 DEF Fresh, Tick, ServerHolds
      <4>2. lease[n] \in Age \cup {None}
        BY <4>1, AgesTyped
      <4>3. lease[n] # None /\ lease[n] < Fence
        BY <4>1, <4>2, VoiceAssumption DEF Older, Age
      <4>. QED
        BY <4>1, <4>3 DEF Fresh
    <3>3. Serving' \in {Serving, {}}
      BY <3>2 DEF ServerHolds
    <3>4. Serving' # {} => ttl' + Fence > Lease
      BY DEF ServerHolds
    <3>. QED
      BY <3>1, <3>3, <3>4 DEF Promise!Safe, Promise!Pass, Promise!PromiseNext
  <2>8. CASE UNCHANGED vars
    BY <2>8 DEF vars, redisVars, leaseVars, mediaVars, Fresh
  <2>. QED
    BY <2>2, <2>3, <2>4, <2>5, <2>6, <2>7, <2>8, NodeKey DEF Next
<1>3. VoiceInv /\ LeaseInv => ServerHolds
  BY ServerIsHolder
<1>. QED
  BY <1>1, <1>2, <1>3, VoiceInvHolds, LeaseInvHolds, PTL
  DEF Spec, KeepsRoomPromise, Promise!PromiseSpec

=============================================================================
