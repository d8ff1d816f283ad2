----------------------------- MODULE VoiceCalls -----------------------------
(***************************************************************************)
(* Calls between two replicas: a command for a room that another replica   *)
(* serves is an envelope with an id, published on the owner's channel in   *)
(* Redis; the reply comes back on the channel of the source.  The owner    *)
(* keeps the promise of a reply by the id of its call, so that an envelope *)
(* which comes twice is not executed twice.                                *)
(*                                                                         *)
(* The model has one source, one owner and one room of it.  Whether the    *)
(* owner still owns the room, which VoiceCluster is about, may change      *)
(* whenever it asks.  Commands of the owner's own sockets are in the same  *)
(* queue and leave no trace here but a queue that is full.  Everything     *)
(* about time is about the owner's clock: clocks may differ, so the source *)
(* gives up when it likes, and an envelope from the future is one that is  *)
(* not delivered.                                                          *)
(***************************************************************************)
EXTENDS Naturals, Sequences

CONSTANTS
    Call,           \* commands, each with an id of its own
    Envelope,       \* messages on the owner's channel
    NoCall, NoEnvelope,
    QueueLimit      \* commands of one room that wait, the one that runs included

ASSUME CallsAssumption ==
    NoCall \notin Call /\ NoEnvelope \notin Envelope /\ QueueLimit \in Nat

VARIABLES
    caller,     \* per call: its promise at the source ("waiting" is an entry of pending)
    callTime,   \* per call: "open" until its deadline, "late" for TIMEOUT_MS more, then "over"
    envelope,   \* per envelope: where it is, and whose
    promised,   \* per envelope: the one whose promise its receipt awaits
    completed,  \* per call: the envelope whose promise the owner keeps, or none
    waiting,    \* envelopes whose commands are in the queue of the room
    atWork,     \* the handler runs the first of them
    reply,      \* per envelope: the reply its promise has settled with
    ownerUp,    \* the owner has not stopped; its successor has another channel
    runs,       \* history: how often the command of a call was executed
    hung        \* history: calls forgotten while an envelope awaited Redis

ownerVars == <<completed, waiting, atWork, reply, ownerUp, runs>>
callVars == <<caller, callTime, envelope, promised, ownerVars, hung>>

EnvelopeStep == {"none", "sent", "received", "awaiting", "replied", "gone"}

CallsTypeOK ==
    /\ caller \in [Call -> {"idle", "waiting", "ok", "error"}]
    /\ callTime \in [Call -> {"open", "late", "over"}]
    /\ envelope \in [Envelope -> [step : EnvelopeStep, of : Call \cup {NoCall}]]
    /\ promised \in [Envelope -> Envelope \cup {NoEnvelope}]
    /\ completed \in [Call -> Envelope \cup {NoEnvelope}]
    /\ waiting \in Seq(Envelope) /\ Len(waiting) <= QueueLimit
    /\ atWork \in BOOLEAN
    /\ reply \in [Envelope -> {"none", "ok", "error"}]
    /\ ownerUp \in BOOLEAN
    /\ runs \in [Call -> Nat]
    /\ hung \subseteq Call

CallsInit ==
    /\ caller = [c \in Call |-> "idle"]
    /\ callTime = [c \in Call |-> "open"]
    /\ envelope = [e \in Envelope |-> [step |-> "none", of |-> NoCall]]
    /\ promised = [e \in Envelope |-> NoEnvelope]
    /\ completed = [c \in Call |-> NoEnvelope]
    /\ waiting = <<>> /\ atWork = FALSE /\ ownerUp = TRUE
    /\ reply = [e \in Envelope |-> "none"]
    /\ runs = [c \in Call |-> 0]
    /\ hung = {}

MovesTo(e, step) == envelope' = [envelope EXCEPT ![e].step = step]

-----------------------------------------------------------------------------
\* execute: the call is pending, its envelope is published.
SendCall(c, e) ==
    /\ caller[c] = "idle" /\ envelope[e].step = "none"
    /\ caller' = [caller EXCEPT ![c] = "waiting"]
    /\ envelope' = [envelope EXCEPT ![e] = [step |-> "sent", of |-> c]]
    /\ UNCHANGED <<callTime, promised, ownerVars, hung>>

\* Redis, or a connection to it, delivers an envelope again.
Duplicate(e, f) ==
    /\ envelope[e].of # NoCall /\ envelope[f].step = "none"
    /\ envelope' = [envelope EXCEPT ![f] = [step |-> "sent", of |-> envelope[e].of]]
    /\ UNCHANGED <<caller, callTime, promised, ownerVars, hung>>

\* The timer of TIMEOUT_MS, a publish that fails, or the end of the source.
GiveUpCall(c) ==
    /\ caller[c] = "waiting"
    /\ caller' = [caller EXCEPT ![c] = "error"]
    /\ UNCHANGED <<callTime, envelope, promised, ownerVars, hung>>

\* The deadline of a call passes; then the time passes for which its reply is kept.
CallAges(c) ==
    /\ caller[c] # "idle" /\ callTime[c] # "over"
    /\ callTime' = [callTime EXCEPT ![c] = IF @ = "open" THEN "late" ELSE "over"]
    /\ UNCHANGED <<caller, envelope, promised, ownerVars, hung>>

-----------------------------------------------------------------------------
\* receive up to its first await: an envelope past its deadline is dropped.
Received(e) ==
    /\ envelope[e].step = "sent"
    /\ MovesTo(e, IF ownerUp /\ callTime[envelope[e].of] = "open" THEN "received" ELSE "gone")
    /\ UNCHANGED <<caller, callTime, promised, ownerVars, hung>>

\* assertOwnership fails: the room is lost, and nobody replies.
NotOwner(e) ==
    /\ envelope[e].step = "received"
    /\ MovesTo(e, "gone")
    /\ UNCHANGED <<caller, callTime, promised, ownerVars, hung>>

\* Mutant: replies are kept, not the promises of them.
ReplyKept(e) ==
    completed[envelope[e].of] # NoEnvelope /\ reply[completed[envelope[e].of]] # "none"

\* It is known, and its promise is awaited again ...
Remembered(e) == completed[envelope[e].of] # NoEnvelope

AwaitAgain(e) ==
    /\ envelope[e].step = "received" /\ Remembered(e)
    /\ MovesTo(e, "awaiting")
    /\ promised' = [promised EXCEPT ![e] = completed[envelope[e].of]]
    /\ UNCHANGED <<caller, callTime, ownerVars, hung>>

\* ... or it is new: its command is queued, if the queue is not full.
Accept(e) ==
    /\ envelope[e].step = "received" /\ ~Remembered(e)
    /\ MovesTo(e, "awaiting")
    /\ promised' = [promised EXCEPT ![e] = e]
    /\ completed' = [completed EXCEPT ![envelope[e].of] = e]
    /\ \/ Len(waiting) < QueueLimit /\ waiting' = Append(waiting, e) /\ UNCHANGED reply
       \/ reply' = [reply EXCEPT ![e] = "error"] /\ UNCHANGED waiting
    /\ UNCHANGED <<caller, callTime, atWork, ownerUp, runs, hung>>

\* The next command of the room: assertOwnership succeeds, and the handler runs ...
RunCommand ==
    /\ waiting # <<>> /\ ~atWork
    /\ atWork' = TRUE
    /\ runs' = [runs EXCEPT ![envelope[Head(waiting)].of] = @ + 1]
    /\ UNCHANGED <<caller, callTime, envelope, promised, completed, waiting, reply, ownerUp, hung>>

\* ... to its end; without ownership it ends at once.  A failure is a reply, too.
CommandEnds(answer) ==
    /\ waiting # <<>> /\ (answer = "ok" => atWork)
    /\ reply' = [reply EXCEPT ![Head(waiting)] = answer]
    /\ waiting' = Tail(waiting) /\ atWork' = FALSE
    /\ UNCHANGED <<caller, callTime, envelope, promised, completed, ownerUp, runs, hung>>

\* Every receipt that awaited the promise publishes the reply.
PublishReply(e) ==
    /\ envelope[e].step = "awaiting" /\ reply[promised[e]] # "none"
    /\ MovesTo(e, "replied")
    /\ UNCHANGED <<caller, callTime, promised, ownerVars, hung>>

\* A reply to a call that is no longer pending is dropped.
ReplyArrives(e) ==
    /\ envelope[e].step = "replied"
    /\ MovesTo(e, "gone")
    /\ caller' = [caller EXCEPT ![envelope[e].of] = IF @ = "waiting" THEN reply[promised[e]] ELSE @]
    /\ UNCHANGED <<callTime, promised, ownerVars, hung>>

\* renew, at its end: replies are forgotten TIMEOUT_MS after the deadline.
ForgetReply(c) ==
    /\ completed[c] # NoEnvelope /\ callTime[c] = "over"
    /\ completed' = [completed EXCEPT ![c] = NoEnvelope]
    /\ hung' = IF \E e \in Envelope : envelope[e].step = "received" /\ envelope[e].of = c
               THEN hung \cup {c} ELSE hung
    /\ UNCHANGED <<caller, callTime, envelope, promised, waiting, atWork, reply, ownerUp, runs>>

\* The owner stops or crashes: only replies that were published still arrive.
OwnerStops ==
    /\ ownerUp /\ ownerUp' = FALSE
    /\ envelope' = [e \in Envelope |->
            IF envelope[e].step \in {"sent", "received", "awaiting"}
            THEN [envelope[e] EXCEPT !.step = "gone"] ELSE envelope[e]]
    /\ completed' = [c \in Call |-> NoEnvelope]
    /\ waiting' = <<>> /\ atWork' = FALSE
    /\ UNCHANGED <<caller, callTime, promised, reply, runs, hung>>

-----------------------------------------------------------------------------
CallsNext ==
    \/ \E c \in Call : GiveUpCall(c) \/ CallAges(c) \/ ForgetReply(c)
    \/ \E c \in Call, e \in Envelope : SendCall(c, e)
    \/ \E e, f \in Envelope : Duplicate(e, f)
    \/ \E e \in Envelope : \/ Received(e) \/ NotOwner(e) \/ AwaitAgain(e) \/ Accept(e)
                           \/ PublishReply(e) \/ ReplyArrives(e)
    \/ RunCommand
    \/ \E answer \in {"ok", "error"} : CommandEnds(answer)
    \/ OwnerStops

CallsSpec == CallsInit /\ [][CallsNext]_callVars

-----------------------------------------------------------------------------
\* "A repeated internal RPC with the same id creates no second media resource"
\* (docs/saas-voice.md): whatever comes twice, late or out of order, a command is
\* executed once, unless Redis kept a receipt waiting until its reply had been
\* forgotten; and a caller who is told of a success was served.
CallsRunOnce ==
    \A c \in Call :
        /\ runs[c] > 1 => c \in hung
        /\ caller[c] = "ok" => runs[c] > 0

=============================================================================
