---------------------------- MODULE VoiceSession ----------------------------
(***************************************************************************)
(* One browser tab in a voice room: the composable useVoiceRoom, with the  *)
(* commands the gateway answers and the events it sends.  Everything in    *)
(* the tab is a callback that goes on after an await, perhaps in a session *)
(* that has ended or in the next one; sessionGeneration tells it.          *)
(*                                                                         *)
(* There is one room: in another one the commands of an old callback would *)
(* be refused.  Leaving, a lost connection, a failed transport and a join  *)
(* that fails clear the same state.  The socket answers no command after   *)
(* that (socket.io rejects them at once), and a closed transport refuses   *)
(* what it was to produce and stops the track; only the microphone and the *)
(* screen that the user is asked for, and a consumer that is being made,   *)
(* come back later.                                                        *)
(***************************************************************************)
EXTENDS Naturals, Sequences

CONSTANTS
    Stream,             \* producers of the others: microphones and screens
    Share,              \* attempts of this user to share a screen
    NoTrack,
    MaxJoins,           \* bound on the sessions
    MaxSessionFaults    \* bound on commands that fail and on overtaking

JoinId == 1..MaxJoins

ASSUME SessionAssumption ==
    /\ MaxJoins \in Nat /\ MaxSessionFaults \in Nat
    /\ NoTrack \notin Stream \cup Share \cup Nat
    /\ Share \cap (Stream \cup Nat) = {} /\ Stream \cap Nat = {}

VARIABLES
    generation,     \* sessionGeneration
    join,           \* per call of joinRoom: where it waits
    pending,        \* pendingProducers
    pulling,        \* the calls of consumeProducer that wait
    held,           \* keys of consumers
    played,         \* keys of audioElements and of screenShareStreams
    live,           \* tracks of the microphone and of the screen that capture
    microphone,     \* whose stream microphoneStream is
    share,          \* per call of startScreenShare: where it waits
    queue,          \* the shares that the send transport is to produce, in order
    screen,         \* screenProducer; isScreenSharing when there is one
    ownScreen,      \* ownScreenStream
    member,         \* the gateway has this socket as a participant
    others,         \* what became of the producers of the others
    serverScreen,   \* the screen this user shares, as the gateway knows it
    stopping,       \* commands to stop a screen that are on their way
    wire,           \* messages of the gateway on their way to this tab
    hitch,          \* history: a command failed or a message was overtaken in this session
    sessionFaults

tabVars == <<generation, join, pending, pulling, held, played>>
captureVars == <<live, microphone, share, queue, screen, ownScreen>>
gatewayVars == <<member, others, serverScreen, stopping, wire>>
hitchVars == <<hitch, sessionFaults>>
sessionVars == <<tabVars, captureVars, gatewayVars, hitchVars>>

\* known is existingProducers, left what a loop has still to consume.
Join == [step : {"none", "connecting", "joining", "entering", "preparing", "queued", "asking",
                 "producing", "existing", "done", "over"},
         of : Nat, known : SUBSET Stream, left : SUBSET Stream]

\* A call of consumeProducer: by a loop of a join, or by the event (0).
Pull == [stream : Stream, of : Nat, by : {0} \cup JoinId,
         step : {"consume", "consumed", "decoding", "resume", "resumed"}]
Message == [kind : {"new", "ack"}, of : Stream, by : {0} \cup JoinId, known : SUBSET Stream, ok : BOOLEAN]
           \cup [kind : {"closed"}, of : Stream \cup Share, by : {0}, known : SUBSET Stream, ok : BOOLEAN]
           \cup [kind : {"joined"}, of : {NoTrack}, by : JoinId, known : SUBSET Stream, ok : BOOLEAN]

SessionTypeOK ==
    /\ generation \in Nat /\ sessionFaults \in Nat
    /\ join \in [JoinId -> Join]
    /\ pulling \subseteq Pull
    /\ pending \subseteq Stream /\ held \subseteq Stream /\ played \subseteq Stream
    /\ live \subseteq JoinId \cup Share /\ microphone \in JoinId \cup {NoTrack}
    /\ share \in [Share -> [step : {"none", "picking", "producing", "over"}, of : Nat]]
    /\ queue \in Seq(Share)
    /\ screen \in Share \cup {NoTrack} /\ ownScreen \in Share \cup {NoTrack}
    /\ member \in BOOLEAN /\ hitch \in BOOLEAN
    /\ others \in [Stream -> {"unborn", "open", "closed"}]
    /\ serverScreen \in Share \cup {NoTrack} /\ stopping \subseteq Share
    /\ wire \in Seq(Message)

SessionInit ==
    /\ generation = 0 /\ sessionFaults = 0
    /\ join = [j \in JoinId |-> [step |-> "none", of |-> 0, known |-> {}, left |-> {}]]
    /\ pending = {} /\ pulling = {} /\ held = {} /\ played = {}
    /\ live = {} /\ microphone = NoTrack
    /\ share = [g \in Share |-> [step |-> "none", of |-> 0]]
    /\ queue = <<>> /\ screen = NoTrack /\ ownScreen = NoTrack
    /\ member = FALSE /\ hitch = FALSE
    /\ others = [s \in Stream |-> "unborn"]
    /\ serverScreen = NoTrack /\ stopping = {} /\ wire = <<>>

Current(j) == join[j].step # "none" /\ join[j].of = generation
InSession == \E j \in JoinId : Current(j)
IsConnected == \E j \in JoinId : Current(j) /\ join[j].step = "done"

\* recvTransport.value # null.
CanReceive == \E j \in JoinId : /\ Current(j)
                                /\ join[j].step \in {"queued", "asking", "producing", "existing", "done"}

Enqueued == {queue[i] : i \in DOMAIN queue}
OpenStreams == {s \in Stream : others[s] = "open"}

Note(kind, x) == [kind |-> kind, of |-> x, by |-> 0, known |-> {}, ok |-> TRUE]
Told(kind, x) == IF member THEN Append(wire, Note(kind, x)) ELSE wire

AckOf(p, ok) == [kind |-> "ack", of |-> p.stream, by |-> p.by, known |-> {}, ok |-> ok]

\* consumeProducer up to its first await.
Started(s, by) ==
    IF CanReceive /\ s \notin held
    THEN pulling \cup {[stream |-> s, of |-> generation, by |-> by, step |-> "consume"]}
    ELSE pulling

-----------------------------------------------------------------------------
(***************************************************************************)
(* joinRoom.                                                               *)
(***************************************************************************)
JoinRoom(j) ==
    /\ ~InSession
    /\ join[j].step = "none" /\ \A i \in 1..(j - 1) : join[i].step # "none"
    /\ generation' = generation + 1
    /\ join' = [join EXCEPT ![j].step = "connecting", ![j].of = generation + 1]
    /\ hitch' = FALSE
    /\ UNCHANGED <<pending, pulling, held, played, captureVars, gatewayVars, sessionFaults>>

SocketConnects(j) ==
    /\ Current(j) /\ join[j].step = "connecting"
    /\ join' = [join EXCEPT ![j].step = "joining"]
    /\ UNCHANGED <<generation, pending, pulling, held, played, captureVars, gatewayVars, hitchVars>>

\* The gateway enters the participant, who gets its events from now on, and
\* answers with the producers there are.
GatewayJoins(j) ==
    /\ Current(j) /\ join[j].step = "joining"
    /\ join' = [join EXCEPT ![j].step = "entering"]
    /\ member' = TRUE
    /\ wire' = Append(wire, [Note("joined", NoTrack) EXCEPT !.by = j, !.known = OpenStreams])
    /\ UNCHANGED <<generation, pending, pulling, held, played, captureVars, others, serverScreen, stopping, hitchVars>>

\* The device is loaded and both transports are made: what came meanwhile is
\* consumed first.
TransportsMade(j) ==
    /\ Current(j) /\ join[j].step = "preparing" /\ member
    /\ join' = [join EXCEPT ![j].step = "queued", ![j].left = pending]
    /\ pending' = {}
    /\ UNCHANGED <<generation, pulling, held, played, captureVars, gatewayVars, hitchVars>>

\* Between two producers of a loop nothing else runs.
Between(j) == join[j].step \in {"queued", "existing"} /\ \A p \in pulling : p.by # j

\* The loop asks for the next producer, in whatever session there is now.
LoopGoesOn(j) ==
    /\ Between(j)
    /\ \/ \E s \in join[j].left :
            /\ pulling' = Started(s, j)
            /\ join' = [join EXCEPT ![j].left = @ \ {s}]
       \/ /\ join[j].left = {}
          /\ join' = [join EXCEPT ![j].step = CASE @ = "queued" -> "asking"
                                                [] @ = "existing" /\ Current(j) -> "done"
                                                [] OTHER -> "over"]
          /\ UNCHANGED pulling
    /\ UNCHANGED <<generation, pending, held, played, captureVars, gatewayVars, hitchVars>>

\* Mutant: the session may have ended while the user was asked.
MicrophoneAnyway(j) ==
    /\ join[j].step = "asking"
    /\ live' = live \cup {j} /\ microphone' = j
    /\ join' = [join EXCEPT ![j].step = IF Current(j) THEN "producing" ELSE "over"]
    /\ UNCHANGED <<generation, pending, pulling, held, played, share, queue, screen, ownScreen, gatewayVars, hitchVars>>

\* getUserMedia: the stream of a session that has ended is stopped at once.
MicrophoneGranted(j) ==
    /\ join[j].step = "asking"
    /\ IF Current(j)
       THEN /\ live' = live \cup {j} /\ microphone' = j
            /\ join' = [join EXCEPT ![j].step = "producing"]
       ELSE /\ UNCHANGED <<live, microphone>>
            /\ join' = [join EXCEPT ![j].step = "over"]
    /\ UNCHANGED <<generation, pending, pulling, held, played, share, queue, screen, ownScreen, gatewayVars, hitchVars>>

MicrophoneProduced(j) ==
    /\ Current(j) /\ join[j].step = "producing" /\ member
    /\ join' = [join EXCEPT ![j].step = "existing", ![j].left = join[j].known]
    /\ UNCHANGED <<generation, pending, pulling, held, played, captureVars, gatewayVars, hitchVars>>

-----------------------------------------------------------------------------
(***************************************************************************)
(* leaveRoom, and the handler of disconnect.                               *)
(***************************************************************************)

\* What is stopped: the streams the tab remembers, its screen producer, and the
\* tracks the closed transport was to produce.
Released == {microphone, ownScreen, screen} \cup Enqueued

Cleared ==
    /\ generation' = generation + 1
    /\ live' = live \ Released
    /\ microphone' = NoTrack /\ screen' = NoTrack /\ ownScreen' = NoTrack
    /\ share' = [g \in Share |-> IF g \in Enqueued THEN [share[g] EXCEPT !.step = "over"] ELSE share[g]]
    /\ queue' = <<>>
    /\ pending' = {} /\ held' = {} /\ played' = {}
    /\ pulling' = {p \in pulling : p.step = "decoding"}
    /\ member' = FALSE /\ serverScreen' = NoTrack /\ stopping' = {} /\ wire' = <<>>

\* The user leaves, the gateway ends the session, the connection breaks or a
\* transport fails.  A join stops where it notices.
SessionEnds ==
    /\ InSession
    /\ Cleared
    /\ join' = [j \in JoinId |->
                  IF Current(j) /\ join[j].step \notin {"queued", "asking", "existing"}
                  THEN [join[j] EXCEPT !.step = "over"] ELSE join[j]]
    /\ UNCHANGED <<others, hitchVars>>

\* A step of the join is refused or takes too long.
JoinFails(j) ==
    /\ Current(j)
    /\ join[j].step \in {"connecting", "joining", "entering", "preparing", "asking", "producing"}
    /\ Cleared
    /\ join' = [join EXCEPT ![j].step = "over"]
    /\ UNCHANGED <<others, hitchVars>>

-----------------------------------------------------------------------------
(***************************************************************************)
(* consumeProducer, and its commands at the gateway.                       *)
(***************************************************************************)
Moves(p, step) == pulling' = (pulling \ {p}) \cup {[p EXCEPT !.step = step]}
Ends(p) == pulling' = pulling \ {p}

\* consume and resume-consumer: refused when the producer has been closed, or
\* the participant removed.
GatewayAnswers(p) ==
    /\ p.step \in {"consume", "resume"}
    /\ Moves(p, IF p.step = "consume" THEN "consumed" ELSE "resumed")
    /\ wire' = Append(wire, AckOf(p, member /\ others[p.stream] = "open"))
    /\ UNCHANGED <<generation, join, pending, held, played, captureVars, member, others, serverScreen, stopping, hitchVars>>

\* Mutant: the consumer of an earlier session is kept.
ConsumerKept(p) ==
    /\ p.step = "decoding"
    /\ held' = held \cup {p.stream}
    /\ IF p.of = generation THEN Moves(p, "resume") ELSE Ends(p)
    /\ UNCHANGED <<generation, join, pending, played, captureVars, gatewayVars, hitchVars>>

\* transport.consume: a consumer of an earlier session is closed.
ConsumerMade(p) ==
    /\ p.step = "decoding"
    /\ IF p.of = generation
       THEN held' = held \cup {p.stream} /\ Moves(p, "resume")
       ELSE UNCHANGED held /\ Ends(p)
    /\ UNCHANGED <<generation, join, pending, played, captureVars, gatewayVars, hitchVars>>

\* A command takes too long or the consumer cannot be made: it is only logged,
\* and an answer that comes later is ignored.
PullFails(p) ==
    /\ \/ p.of # generation /\ UNCHANGED hitchVars
       \/ /\ p.of = generation /\ sessionFaults < MaxSessionFaults
          /\ sessionFaults' = sessionFaults + 1 /\ hitch' = TRUE
    /\ Ends(p)
    /\ UNCHANGED <<generation, join, pending, held, played, captureVars, gatewayVars>>

-----------------------------------------------------------------------------
(***************************************************************************)
(* The gateway's messages.                                                 *)
(***************************************************************************)

\* The producers of the others come and go; a room sends each event once.
StreamOpens(s) ==
    /\ others[s] = "unborn"
    /\ others' = [others EXCEPT ![s] = "open"]
    /\ wire' = Told("new", s)
    /\ UNCHANGED <<tabVars, captureVars, member, serverScreen, stopping, hitchVars>>

StreamCloses(s) ==
    /\ others[s] = "open"
    /\ others' = [others EXCEPT ![s] = "closed"]
    /\ wire' = Told("closed", s)
    /\ UNCHANGED <<tabVars, captureVars, member, serverScreen, stopping, hitchVars>>

\* new-producer.
HearNew(s) ==
    /\ pulling' = Started(s, 0)
    /\ pending' = IF CanReceive THEN pending ELSE pending \cup {s}
    /\ UNCHANGED <<generation, join, held, played, captureVars>>

\* producer-closed.
HearClosed(x) ==
    /\ IF x \in Share /\ screen = x
       THEN /\ live' = live \ {screen, ownScreen}
            /\ screen' = NoTrack /\ ownScreen' = NoTrack
       ELSE UNCHANGED <<live, screen, ownScreen>>
    /\ held' = held \ {x} /\ played' = played \ {x}
    /\ UNCHANGED <<generation, join, pending, pulling, microphone, share, queue>>

HearJoined(j, known) ==
    /\ join' = [join EXCEPT ![j].step = "preparing", ![j].known = known]
    /\ UNCHANGED <<generation, pending, pulling, held, played, captureVars>>

AskedBy(m) == {p \in pulling : /\ p.stream = m.of /\ p.by = m.by /\ p.of = generation
                              /\ p.step \in {"consumed", "resumed"}}

\* Consume is answered: the consumer is made.  Resume is answered: it plays.
HearAck(m) ==
    /\ \/ AskedBy(m) = {} /\ UNCHANGED <<pulling, played>>
       \/ \E p \in AskedBy(m) :
            /\ IF m.ok /\ p.step = "consumed" THEN Moves(p, "decoding") ELSE Ends(p)
            /\ played' = IF m.ok /\ p.step = "resumed" THEN played \cup {p.stream} ELSE played
    /\ UNCHANGED <<generation, join, pending, held, captureVars>>

\* Between two replicas answers and events travel on different channels: one may
\* overtake the other.
Hear(i) ==
    LET m == wire[i] IN
    /\ \A k \in 1..(i - 1) : (wire[k].kind \in {"new", "closed"}) # (m.kind \in {"new", "closed"})
    /\ \/ i = 1 /\ UNCHANGED hitchVars
       \/ /\ i > 1 /\ sessionFaults < MaxSessionFaults
          /\ sessionFaults' = sessionFaults + 1 /\ hitch' = TRUE
    /\ wire' = SubSeq(wire, 1, i - 1) \o SubSeq(wire, i + 1, Len(wire))
    /\ CASE m.kind = "new" -> HearNew(m.of)
         [] m.kind = "closed" -> HearClosed(m.of)
         [] m.kind = "joined" -> HearJoined(m.by, m.known)
         [] m.kind = "ack" -> HearAck(m)
    /\ UNCHANGED <<member, others, serverScreen, stopping>>

-----------------------------------------------------------------------------
(***************************************************************************)
(* startScreenShare and stopScreenShare.                                   *)
(***************************************************************************)

\* isScreenSharing is set only in the end: a second click starts a second share.
StartShare(g) ==
    /\ IsConnected /\ screen = NoTrack /\ share[g].step = "none"
    /\ share' = [share EXCEPT ![g] = [step |-> "picking", of |-> generation]]
    /\ UNCHANGED <<tabVars, live, microphone, queue, screen, ownScreen, gatewayVars, hitchVars>>

\* getDisplayMedia.
ScreenPicked(g) ==
    /\ share[g].step = "picking"
    /\ IF share[g].of = generation
       THEN /\ share' = [share EXCEPT ![g].step = "producing"]
            /\ live' = live \cup {g} /\ ownScreen' = g /\ queue' = Append(queue, g)
       ELSE /\ share' = [share EXCEPT ![g].step = "over"]
            /\ UNCHANGED <<live, ownScreen, queue>>
    /\ UNCHANGED <<tabVars, microphone, screen, gatewayVars, hitchVars>>

\* The user picks nothing: the preview there is goes, perhaps of another share.
PickRefused(g) ==
    /\ share[g].step = "picking"
    /\ share' = [share EXCEPT ![g].step = "over"]
    /\ IF share[g].of = generation
       THEN live' = live \ {ownScreen} /\ ownScreen' = NoTrack
       ELSE UNCHANGED <<live, ownScreen>>
    /\ UNCHANGED <<tabVars, microphone, queue, screen, gatewayVars, hitchVars>>

\* The gateway takes one screen of a user.
ScreenProduced ==
    /\ queue # <<>> /\ member /\ serverScreen = NoTrack
    /\ serverScreen' = Head(queue) /\ screen' = Head(queue)
    /\ share' = [share EXCEPT ![Head(queue)].step = "over"]
    /\ queue' = Tail(queue)
    /\ UNCHANGED <<tabVars, live, microphone, ownScreen, member, others, stopping, wire, hitchVars>>

\* ... and refuses another, or answers too late.  The transport stops the track
\* of the share that failed, the handler that of the preview.
ScreenRefused ==
    /\ queue # <<>>
    /\ serverScreen' \in {serverScreen, IF member /\ serverScreen = NoTrack THEN Head(queue) ELSE serverScreen}
    /\ live' = live \ {Head(queue), ownScreen} /\ ownScreen' = NoTrack
    /\ share' = [share EXCEPT ![Head(queue)].step = "over"]
    /\ queue' = Tail(queue)
    /\ UNCHANGED <<tabVars, microphone, screen, member, others, stopping, wire, hitchVars>>

StopShare ==
    /\ live' = live \ {screen, ownScreen}
    /\ screen' = NoTrack /\ ownScreen' = NoTrack
    /\ stopping' = stopping \cup {screen}

\* The button of the panel.
StopScreenShare ==
    /\ screen # NoTrack
    /\ StopShare
    /\ UNCHANGED <<tabVars, microphone, share, queue, member, others, serverScreen, wire, hitchVars>>

\* The browser's own button: the handler is there only when all is done.
ScreenEnded(g) ==
    /\ g \in live
    /\ IF screen = g
       THEN StopShare
       ELSE live' = live \ {g} /\ UNCHANGED <<screen, ownScreen, stopping>>
    /\ UNCHANGED <<tabVars, microphone, share, queue, member, others, serverScreen, wire, hitchVars>>

\* stop-screen-share: refused when it is not a screen of this participant.
GatewayStops(g) ==
    /\ g \in stopping
    /\ stopping' = stopping \ {g}
    /\ IF serverScreen = g
       THEN serverScreen' = NoTrack /\ wire' = Told("closed", g)
       ELSE UNCHANGED <<serverScreen, wire>>
    /\ UNCHANGED <<tabVars, captureVars, member, others, hitchVars>>

\* removePeer: the access was withdrawn.  The end of the session follows.
GatewayRemoves ==
    /\ member
    /\ member' = FALSE /\ serverScreen' = NoTrack
    /\ wire' = IF serverScreen = NoTrack THEN wire ELSE Told("closed", serverScreen)
    /\ UNCHANGED <<tabVars, captureVars, others, stopping, hitchVars>>

-----------------------------------------------------------------------------
TabStep ==
    \/ \E j \in JoinId : \/ JoinRoom(j) \/ SocketConnects(j) \/ GatewayJoins(j) \/ TransportsMade(j)
                         \/ MicrophoneGranted(j) \/ MicrophoneProduced(j) \/ JoinFails(j)
    \/ SessionEnds
    \/ \E p \in pulling : GatewayAnswers(p) \/ ConsumerMade(p) \/ PullFails(p)
    \/ \E s \in Stream : StreamOpens(s) \/ StreamCloses(s)
    \/ \E i \in DOMAIN wire : Hear(i)
    \/ \E g \in Share : StartShare(g) \/ ScreenPicked(g) \/ PickRefused(g) \/ ScreenEnded(g) \/ GatewayStops(g)
    \/ ScreenProduced \/ ScreenRefused \/ StopScreenShare \/ GatewayRemoves

SessionNext ==
    \/ \E j \in JoinId : LoopGoesOn(j)
    \/ (\A j \in JoinId : ~Between(j)) /\ TabStep

SessionSpec == SessionInit /\ [][SessionNext]_sessionVars

-----------------------------------------------------------------------------
\* The microphone and the screen are captured in a session that goes on, a screen
\* only while it is shared or about to be; and nothing plays out of a session.
CapturedOnlyInSession ==
    /\ \A j \in JoinId \cap live : Current(j)
    /\ \A g \in Share \cap live : share[g].of = generation /\ g \in {screen} \cup Enqueued
    /\ held \cup played # {} => InSession

\* When everything is answered, a connected participant plays just the producers of
\* the room, unless a command of this session failed or a message was overtaken.
RoomIsHeard ==
    IsConnected /\ member /\ wire = <<>> /\ ~hitch /\ (\A p \in pulling : p.of # generation)
        => played = OpenStreams

=============================================================================
