------------------------- MODULE VoiceSessionProofs -------------------------
(***************************************************************************)
(* Proofs about VoiceSession, for any producers, shares, number of joins   *)
(* and faults: what a tab captures belongs to the session it is in, and a  *)
(* participant for whom nothing is on its way plays just the producers of  *)
(* the room.  And about VoiceCalls: a command that another replica sends   *)
(* is executed once.                                                       *)
(***************************************************************************)
EXTENDS VoiceSession, VoiceCalls, TLAPS, SequenceTheorems

-----------------------------------------------------------------------------
\* The sequences of the model, as the steps below use them.
LEMMA OneMore ==
  ASSUME NEW S, NEW q \in Seq(S), NEW x \in S
  PROVE  Append(q, x) \in Seq(S)
BY AppendProperties

\* A message leaves the wire from any place.
LEMMA OneLess ==
  ASSUME NEW S, NEW q \in Seq(S), NEW i \in DOMAIN q
  PROVE  SubSeq(q, 1, i - 1) \o SubSeq(q, i + 1, Len(q)) \in Seq(S)
<1>1. i \in 1..Len(q) /\ Len(q) \in Nat /\ \A k \in 1..Len(q) : q[k] \in S
  BY LenProperties, ElementOfSeq
<1>2. SubSeq(q, 1, i - 1) \in Seq(S)
  <2>1. \A k \in 1..(i - 1) : q[k] \in S
    BY <1>1
  <2>. QED
    BY <1>1, <2>1, SubSeqProperties
<1>3. SubSeq(q, i + 1, Len(q)) \in Seq(S)
  <2>1. \A k \in (i + 1)..Len(q) : q[k] \in S
    BY <1>1
  <2>. QED
    BY <1>1, <2>1, SubSeqProperties
<1>. QED
  BY <1>2, <1>3, ConcatProperties

\* Messages of the gateway are messages.
LEMMA NotesAreMessages ==
  ASSUME NEW x
  PROVE  /\ x \in Stream => Note("new", x) \in Message
         /\ x \in Stream \cup Share => Note("closed", x) \in Message
BY DEF Note, Message

-----------------------------------------------------------------------------
JoinStep == {"none", "connecting", "joining", "entering", "preparing", "queued", "asking",
             "producing", "existing", "done", "over"}

\* A call of joinRoom that moves is still one, ...
LEMMA JoinMoves ==
  ASSUME NEW f \in [JoinId -> Join], NEW j \in JoinId, NEW x \in JoinStep
  PROVE  [f EXCEPT ![j].step = x] \in [JoinId -> Join]
BY DEF Join, JoinStep

\* ... and so is one that remembers a session or producers.
LEMMA JoinRemembers ==
  ASSUME NEW f \in [JoinId -> Join], NEW j \in JoinId, NEW n \in Nat, NEW L \in SUBSET Stream
  PROVE  /\ [f EXCEPT ![j].of = n] \in [JoinId -> Join]
         /\ [f EXCEPT ![j].left = L] \in [JoinId -> Join]
         /\ [f EXCEPT ![j].known = L] \in [JoinId -> Join]
         /\ f[j].left \subseteq Stream /\ f[j].known \subseteq Stream
BY DEF Join

\* A call of consumeProducer that moves on or is given up leaves calls.
LEMMA PullsMove ==
  ASSUME pulling \subseteq Pull, NEW p \in pulling,
         NEW x \in {"consume", "consumed", "decoding", "resume", "resumed"}
  PROVE  /\ Moves(p, x) => pulling' \subseteq Pull
         /\ Ends(p) => pulling' \subseteq Pull
BY DEF Moves, Ends, Pull

\* So does one that is started.
LEMMA PullsStart ==
  ASSUME pulling \subseteq Pull, generation \in Nat, NEW s \in Stream, NEW by \in {0} \cup JoinId
  PROVE  Started(s, by) \subseteq Pull
BY DEF Started, Pull

-----------------------------------------------------------------------------
\* Every step keeps every variable in its type.
LEMMA SessionTypeStep == SessionTypeOK /\ [SessionNext]_sessionVars => SessionTypeOK'
<1> SUFFICES ASSUME SessionTypeOK PROVE [SessionNext]_sessionVars => SessionTypeOK'
  OBVIOUS
<1> USE DEF sessionVars, tabVars, captureVars, gatewayVars, hitchVars
<1>0. join \in [JoinId -> Join] /\ generation \in Nat /\ pulling \subseteq Pull /\ wire \in Seq(Message)
      /\ queue \in Seq(Share) /\ pending \subseteq Stream
  BY DEF SessionTypeOK
<1>1. ASSUME NEW j \in JoinId, JoinRoom(j) PROVE SessionTypeOK'
  <2> DEFINE f == [join EXCEPT ![j].step = "connecting"]
  <2>1. f \in [JoinId -> Join]
    BY <1>0, JoinMoves DEF JoinStep
  <2> DEFINE n == generation + 1
  <2>2. n \in Nat
    BY <1>0
  <2>3. [f EXCEPT ![j].of = n] \in [JoinId -> Join]
    BY <2>1, <2>2, JoinRemembers
  <2>4. join' = [f EXCEPT ![j].of = n] /\ generation' = n
    BY <1>1 DEF JoinRoom
  <2>5. join' \in [JoinId -> Join] /\ generation' \in Nat
    BY <2>2, <2>3, <2>4
  <2>. QED
    BY <1>1, <2>5 DEF JoinRoom, SessionTypeOK
<1>2. ASSUME NEW j \in JoinId, SocketConnects(j) PROVE SessionTypeOK'
  <2>1. join' \in [JoinId -> Join]
    BY <1>0, <1>2, JoinMoves DEF SocketConnects, JoinStep
  <2>. QED
    BY <1>2, <2>1 DEF SocketConnects, SessionTypeOK
<1>3. ASSUME NEW j \in JoinId, GatewayJoins(j) PROVE SessionTypeOK'
  <2>1. [Note("joined", NoTrack) EXCEPT !.by = j, !.known = OpenStreams] \in Message
    BY DEF Note, Message, OpenStreams
  <2>2. wire' \in Seq(Message)
    BY <1>0, <1>3, <2>1, OneMore DEF GatewayJoins
  <2>3. join' \in [JoinId -> Join]
    BY <1>0, <1>3, JoinMoves DEF GatewayJoins, JoinStep
  <2>. QED
    BY <1>3, <2>2, <2>3 DEF GatewayJoins, SessionTypeOK
<1>4. ASSUME NEW j \in JoinId, TransportsMade(j) PROVE SessionTypeOK'
  <2> DEFINE f == [join EXCEPT ![j].step = "queued"]
  <2>1. f \in [JoinId -> Join]
    BY <1>0, JoinMoves DEF JoinStep
  <2>2. [f EXCEPT ![j].left = pending] \in [JoinId -> Join]
    BY <1>0, <2>1, JoinRemembers
  <2>3. join' = [f EXCEPT ![j].left = pending]
    BY <1>4 DEF TransportsMade
  <2>. QED
    BY <1>4, <2>2, <2>3 DEF TransportsMade, SessionTypeOK
<1>5. ASSUME NEW j \in JoinId, LoopGoesOn(j) PROVE SessionTypeOK'
  <2>1. CASE \E s \in join[j].left : pulling' = Started(s, j) /\ join' = [join EXCEPT ![j].left = @ \ {s}]
    <3>1. PICK s \in join[j].left : pulling' = Started(s, j) /\ join' = [join EXCEPT ![j].left = @ \ {s}]
      BY <2>1
    <3>2. join[j].left \subseteq Stream
      BY <1>0, JoinRemembers
    <3>3. pulling' \subseteq Pull
      BY <1>0, <3>1, <3>2, PullsStart
    <3> DEFINE L == join[j].left \ {s}
    <3>4. join' = [join EXCEPT ![j].left = L]
      BY <3>1
    <3>5. L \subseteq Stream
      BY <3>2
    <3>6. join' \in [JoinId -> Join]
      BY <1>0, <3>4, <3>5, JoinRemembers
    <3>. QED
      BY <1>5, <3>3, <3>6 DEF LoopGoesOn, SessionTypeOK
  <2>2. CASE /\ join' = [join EXCEPT ![j].step = CASE @ = "queued" -> "asking"
                                                  [] @ = "existing" /\ Current(j) -> "done"
                                                  [] OTHER -> "over"]
             /\ UNCHANGED pulling
    <3>1. /\ [join EXCEPT ![j].step = "asking"] \in [JoinId -> Join]
          /\ [join EXCEPT ![j].step = "done"] \in [JoinId -> Join]
          /\ [join EXCEPT ![j].step = "over"] \in [JoinId -> Join]
      BY <1>0, JoinMoves DEF JoinStep
    <3>2. \/ join' = [join EXCEPT ![j].step = "asking"]
          \/ join' = [join EXCEPT ![j].step = "done"]
          \/ join' = [join EXCEPT ![j].step = "over"]
      BY <1>5, <2>2 DEF LoopGoesOn
    <3>3. join' \in [JoinId -> Join]
      BY <3>1, <3>2
    <3>. QED
      BY <1>5, <2>2, <3>3 DEF LoopGoesOn, SessionTypeOK
  <2>. QED
    BY <1>5, <2>1, <2>2 DEF LoopGoesOn
<1>6. ASSUME NEW j \in JoinId, MicrophoneGranted(j) PROVE SessionTypeOK'
  <2>1. [join EXCEPT ![j].step = "producing"] \in [JoinId -> Join]
        /\ [join EXCEPT ![j].step = "over"] \in [JoinId -> Join]
    BY <1>0, JoinMoves DEF JoinStep
  <2>2. join' \in [JoinId -> Join]
    BY <1>6, <2>1 DEF MicrophoneGranted
  <2>. QED
    BY <1>6, <2>2 DEF MicrophoneGranted, SessionTypeOK
<1>7. ASSUME NEW j \in JoinId, MicrophoneProduced(j) PROVE SessionTypeOK'
  <2> DEFINE f == [join EXCEPT ![j].step = "existing"]
             L == join[j].known
  <2>1. f \in [JoinId -> Join] /\ L \subseteq Stream
    BY <1>0, JoinMoves, JoinRemembers DEF JoinStep
  <2>2. [f EXCEPT ![j].left = L] \in [JoinId -> Join]
    BY <2>1, JoinRemembers
  <2>3. join' = [f EXCEPT ![j].left = L]
    BY <1>7 DEF MicrophoneProduced
  <2>. QED
    BY <1>7, <2>2, <2>3 DEF MicrophoneProduced, SessionTypeOK
<1>8. ASSUME Cleared, UNCHANGED <<others, hitchVars>>, join' \in [JoinId -> Join] PROVE SessionTypeOK'
  <2>1. queue' \in Seq(Share) /\ wire' \in Seq(Message)
    BY <1>8, EmptySeq DEF Cleared
  <2>2. generation' \in Nat
    BY <1>0, <1>8 DEF Cleared
  <2>3. share' \in [Share -> [step : {"none", "picking", "producing", "over"}, of : Nat]]
    BY <1>8 DEF Cleared, SessionTypeOK
  <2>4. /\ pending' \subseteq Stream /\ held' \subseteq Stream /\ played' \subseteq Stream
        /\ pulling' \subseteq Pull /\ live' \subseteq JoinId \cup Share
    BY <1>8 DEF Cleared, SessionTypeOK
  <2>5. /\ microphone' \in JoinId \cup {NoTrack} /\ screen' \in Share \cup {NoTrack}
        /\ ownScreen' \in Share \cup {NoTrack} /\ serverScreen' \in Share \cup {NoTrack}
        /\ member' \in BOOLEAN /\ stopping' \subseteq Share
    BY <1>8 DEF Cleared
  <2>6. hitch' \in BOOLEAN /\ sessionFaults' \in Nat /\ others' \in [Stream -> {"unborn", "open", "closed"}]
    BY <1>8 DEF SessionTypeOK
  <2>. QED
    BY <1>8, <2>1, <2>2, <2>3, <2>4, <2>5, <2>6 DEF SessionTypeOK
<1>9. ASSUME SessionEnds PROVE SessionTypeOK'
  <2>1. \A j \in JoinId : join[j] \in Join /\ [join[j] EXCEPT !.step = "over"] \in Join
    BY <1>0 DEF Join
  <2>2. join' \in [JoinId -> Join]
    BY <1>9, <2>1 DEF SessionEnds
  <2>. QED
    BY <1>9, <1>8, <2>2 DEF SessionEnds
<1>10. ASSUME NEW j \in JoinId, JoinFails(j) PROVE SessionTypeOK'
  <2>1. join' \in [JoinId -> Join]
    BY <1>0, <1>10, JoinMoves DEF JoinFails, JoinStep
  <2>. QED
    BY <1>10, <1>8, <2>1 DEF JoinFails
<1>11. ASSUME NEW p \in pulling, GatewayAnswers(p) PROVE SessionTypeOK'
  <2> DEFINE ok == member /\ others[p.stream] = "open"
  <2>1. AckOf(p, ok) \in Message
    BY <1>0 DEF AckOf, Message, Pull
  <2>2. wire' \in Seq(Message)
    BY <1>0, <1>11, <2>1, OneMore DEF GatewayAnswers
  <2>3. pulling' \subseteq Pull
    BY <1>0, <1>11, PullsMove DEF GatewayAnswers
  <2>. QED
    BY <1>11, <2>2, <2>3 DEF GatewayAnswers, SessionTypeOK
<1>12. ASSUME NEW p \in pulling, ConsumerMade(p) PROVE SessionTypeOK'
  <2>1. pulling' \subseteq Pull
    BY <1>0, <1>12, PullsMove DEF ConsumerMade
  <2>2. p.stream \in Stream
    BY <1>0 DEF Pull
  <2>. QED
    BY <1>12, <2>1, <2>2 DEF ConsumerMade, SessionTypeOK
<1>13. ASSUME NEW p \in pulling, PullFails(p) PROVE SessionTypeOK'
  <2>1. pulling' \subseteq Pull
    BY <1>0, <1>13, PullsMove DEF PullFails
  <2>2. sessionFaults' \in Nat /\ hitch' \in BOOLEAN
    <3>1. sessionFaults + 1 \in Nat /\ sessionFaults \in Nat /\ hitch \in BOOLEAN
      BY DEF SessionTypeOK
    <3>. QED
      BY <1>13, <3>1 DEF PullFails
  <2>. QED
    BY <1>13, <2>1, <2>2 DEF PullFails, SessionTypeOK
<1>14. ASSUME NEW s \in Stream, StreamOpens(s) \/ StreamCloses(s) PROVE SessionTypeOK'
  <2>1. Note("new", s) \in Message /\ Note("closed", s) \in Message
    BY NotesAreMessages
  <2>2. Append(wire, Note("new", s)) \in Seq(Message) /\ Append(wire, Note("closed", s)) \in Seq(Message)
    BY <1>0, <2>1, OneMore
  <2>3. wire' \in Seq(Message)
    BY <1>0, <1>14, <2>2 DEF StreamOpens, StreamCloses, Told
  <2>. QED
    BY <1>14, <2>3 DEF StreamOpens, StreamCloses, SessionTypeOK
<1>15. ASSUME NEW i \in DOMAIN wire, Hear(i) PROVE SessionTypeOK'
  <2> DEFINE m == wire[i]
  <2>1. m \in Message
    BY <1>0, LenProperties, ElementOfSeq
  <2>2. wire' \in Seq(Message)
    BY <1>0, <1>15, OneLess DEF Hear
  <2>3. sessionFaults' \in Nat /\ hitch' \in BOOLEAN
    <3>1. sessionFaults + 1 \in Nat /\ sessionFaults \in Nat /\ hitch \in BOOLEAN
      BY DEF SessionTypeOK
    <3>. QED
      BY <1>15, <3>1 DEF Hear
  <2>4. UNCHANGED <<member, others, serverScreen, stopping>>
    BY <1>15 DEF Hear
  <2>5. CASE m.kind = "new"
    <3>1. HearNew(m.of) /\ m.of \in Stream
      BY <1>15, <2>1, <2>5 DEF Hear, Message
    <3>2. pulling' \subseteq Pull
      BY <1>0, <3>1, PullsStart DEF HearNew
    <3>3. pending' \subseteq Stream
      BY <1>0, <3>1 DEF HearNew
    <3>4. UNCHANGED <<generation, join, held, played, captureVars>>
      BY <3>1 DEF HearNew
    <3>. QED
      BY <2>2, <2>3, <2>4, <3>2, <3>3, <3>4 DEF SessionTypeOK
  <2>6. CASE m.kind = "closed"
    <3>1. HearClosed(m.of)
      BY <1>15, <2>6 DEF Hear
    <3>. QED
      BY <2>2, <2>3, <2>4, <3>1 DEF HearClosed, SessionTypeOK
  <2>7. CASE m.kind = "joined"
    <3>1. HearJoined(m.by, m.known) /\ m.by \in JoinId /\ m.known \subseteq Stream
      BY <1>15, <2>1, <2>7 DEF Hear, Message
    <3> DEFINE j == m.by
               L == m.known
               f == [join EXCEPT ![j].step = "preparing"]
    <3>2. f \in [JoinId -> Join]
      BY <1>0, <3>1, JoinMoves DEF JoinStep
    <3>3. [f EXCEPT ![j].known = L] \in [JoinId -> Join]
      BY <3>1, <3>2, JoinRemembers
    <3>4. join' = [f EXCEPT ![j].known = L] /\ UNCHANGED <<generation, pending, pulling, held, played, captureVars>>
      BY <3>1 DEF HearJoined
    <3>. QED
      BY <2>2, <2>3, <2>4, <3>3, <3>4 DEF SessionTypeOK
  <2>8. CASE m.kind = "ack"
    <3>1. HearAck(m)
      BY <1>15, <2>8 DEF Hear
    <3>2. pulling' \subseteq Pull /\ played' \subseteq Stream
      <4>1. CASE UNCHANGED <<pulling, played>>
        BY <1>0, <4>1 DEF SessionTypeOK
      <4>2. ASSUME NEW p \in AskedBy(m),
                   IF m.ok /\ p.step = "consumed" THEN Moves(p, "decoding") ELSE Ends(p),
                   played' = IF m.ok /\ p.step = "resumed" THEN played \cup {p.stream} ELSE played
            PROVE  pulling' \subseteq Pull /\ played' \subseteq Stream
        <5>1. p \in pulling /\ p.stream \in Stream
          BY <1>0 DEF AskedBy, Pull
        <5>2. pulling' \subseteq Pull
          BY <1>0, <4>2, <5>1, PullsMove
        <5>. QED
          BY <4>2, <5>1, <5>2 DEF SessionTypeOK
      <4>. QED
        BY <3>1, <4>1, <4>2 DEF HearAck
    <3>3. UNCHANGED <<generation, join, pending, held, captureVars>>
      BY <3>1 DEF HearAck
    <3>. QED
      BY <2>2, <2>3, <2>4, <3>2, <3>3 DEF SessionTypeOK
  <2>9. m.kind \in {"new", "closed", "joined", "ack"}
    BY <2>1 DEF Message
  <2>. QED
    BY <2>5, <2>6, <2>7, <2>8, <2>9
<1>16. ASSUME NEW g \in Share, StartShare(g) PROVE SessionTypeOK'
  BY <1>16 DEF StartShare, SessionTypeOK
<1>17. ASSUME NEW g \in Share, ScreenPicked(g) PROVE SessionTypeOK'
  <2>1. queue' \in Seq(Share)
    BY <1>0, <1>17, OneMore DEF ScreenPicked
  <2>2. share' \in [Share -> [step : {"none", "picking", "producing", "over"}, of : Nat]]
    <3>1. share \in [Share -> [step : {"none", "picking", "producing", "over"}, of : Nat]]
      BY DEF SessionTypeOK
    <3>2. share' = [share EXCEPT ![g].step = "producing"] \/ share' = [share EXCEPT ![g].step = "over"]
      BY <1>17 DEF ScreenPicked
    <3>. QED
      BY <3>1, <3>2
  <2>3. live' \subseteq JoinId \cup Share /\ ownScreen' \in Share \cup {NoTrack}
    BY <1>17 DEF ScreenPicked, SessionTypeOK
  <2>. QED
    BY <1>17, <2>1, <2>2, <2>3 DEF ScreenPicked, SessionTypeOK
<1>18. ASSUME NEW g \in Share, PickRefused(g) PROVE SessionTypeOK'
  BY <1>18 DEF PickRefused, SessionTypeOK
<1>19. ASSUME NEW g \in Share, ScreenEnded(g) PROVE SessionTypeOK'
  BY <1>19 DEF ScreenEnded, StopShare, SessionTypeOK
<1>20. ASSUME NEW g \in Share, GatewayStops(g) PROVE SessionTypeOK'
  <2>1. wire' \in Seq(Message)
    BY <1>0, <1>20, NotesAreMessages, OneMore DEF GatewayStops, Told
  <2>. QED
    BY <1>20, <2>1 DEF GatewayStops, SessionTypeOK
<1>21. ASSUME ScreenProduced \/ ScreenRefused PROVE SessionTypeOK'
  <2>1. Head(queue) \in Share /\ Tail(queue) \in Seq(Share)
    BY <1>0, <1>21, HeadTailProperties DEF ScreenProduced, ScreenRefused
  <2>2. queue' \in Seq(Share)
    BY <1>21, <2>1 DEF ScreenProduced, ScreenRefused
  <2>. QED
    BY <1>21, <2>1, <2>2 DEF ScreenProduced, ScreenRefused, SessionTypeOK
<1>22. ASSUME StopScreenShare PROVE SessionTypeOK'
  BY <1>22 DEF StopScreenShare, StopShare, SessionTypeOK
<1>23. ASSUME GatewayRemoves PROVE SessionTypeOK'
  <2>1. wire' \in Seq(Message)
    <3>1. serverScreen # NoTrack => Note("closed", serverScreen) \in Message
      BY NotesAreMessages DEF SessionTypeOK
    <3>. QED
      BY <1>0, <1>23, <3>1, OneMore DEF GatewayRemoves, Told
  <2>. QED
    BY <1>23, <2>1 DEF GatewayRemoves, SessionTypeOK
<1>24. ASSUME UNCHANGED sessionVars PROVE SessionTypeOK'
  BY <1>24 DEF SessionTypeOK
<1>. QED
  BY <1>1, <1>2, <1>3, <1>4, <1>5, <1>6, <1>7, <1>9, <1>10, <1>11, <1>12, <1>13, <1>14,
     <1>15, <1>16, <1>17, <1>18, <1>19, <1>20, <1>21, <1>22, <1>23, <1>24
     DEF SessionNext, TabStep

\* The state of a page that has just been loaded has these types.
LEMMA SessionInitType == SessionInit => SessionTypeOK
<1>1. SessionInit => join \in [JoinId -> Join]
  BY DEF SessionInit, Join
<1>2. SessionInit => share \in [Share -> [step : {"none", "picking", "producing", "over"}, of : Nat]]
  BY DEF SessionInit
<1>3. SessionInit => queue \in Seq(Share) /\ wire \in Seq(Message)
  BY EmptySeq DEF SessionInit
<1>4. SessionInit => others \in [Stream -> {"unborn", "open", "closed"}]
  BY DEF SessionInit
<1>5. SessionInit => generation \in Nat /\ sessionFaults \in Nat
  <2>1. SessionInit => generation = 0 /\ sessionFaults = 0
    BY DEF SessionInit
  <2>. QED
    BY <2>1
<1>. QED
  BY <1>1, <1>2, <1>3, <1>4, <1>5 DEF SessionInit, SessionTypeOK

\* The variables of the composable and of the gateway keep their types.
THEOREM SessionTypeCorrect == SessionSpec => []SessionTypeOK
BY SessionInitType, SessionTypeStep, PTL DEF SessionSpec

-----------------------------------------------------------------------------
(***************************************************************************)
(* CapturedOnlyInSession.  The tab stops what it remembers when a session  *)
(* ends, so the invariant says that it remembers all it captures; that     *)
(* takes that nothing overwrites a screen that goes on, which rests on the *)
(* gateway to take one screen at a time and on what the two know of it.    *)
(***************************************************************************)

\* The gateway has entered the participant of this session, or is about to answer.
Entered == \E j \in JoinId : Current(j) /\ join[j].step \notin {"connecting", "joining"}

\* Every call of joinRoom has a session of its own, and before the first one
\* nothing is on its way.
OwnSessions ==
    /\ \A j \in JoinId : /\ join[j].of <= generation
                         /\ join[j].step = "none" => join[j].of = 0
    /\ \A i, j \in JoinId : join[i].of = join[j].of => i = j \/ join[i].of = 0
    /\ generation = 0 => /\ wire = <<>> /\ ~member /\ pulling = {}
                         /\ \A j \in JoinId : join[j].step = "none"

\* What is heard is heard in the session, and so is what is asked for in its name.
HeardInSession ==
    /\ held \cup played # {} => InSession
    /\ \A p \in pulling : p.of <= generation /\ (p.of = generation => InSession)

\* A share of this session was started in it; it waits for its turn once.
SharedInSession ==
    /\ \A g \in Share : /\ share[g].of <= generation
                        /\ share[g].step = "picking" /\ share[g].of = generation => Entered
    /\ \A a, b \in DOMAIN queue : queue[a] = queue[b] => a = b
    /\ \A g \in Enqueued : share[g].step = "producing" /\ share[g].of = generation
    /\ queue # <<>> \/ screen # NoTrack => Entered

\* The tab and the gateway agree on the screen that is shared, but for the
\* commands to stop one that are on their way.
OneScreen ==
    /\ \A g \in stopping : share[g].step = "over"
    /\ screen # NoTrack => /\ share[screen].step = "over" /\ share[screen].of = generation
                           /\ screen \notin stopping
                           /\ member => serverScreen = screen

CapturedByOwner ==
    /\ \A j \in JoinId \cap live : Current(j) /\ microphone = j
    /\ \A g \in Share \cap live : g \in {screen} \cup Enqueued

SessionInv ==
    /\ SessionTypeOK /\ OwnSessions /\ HeardInSession
    /\ SharedInSession /\ OneScreen /\ CapturedByOwner

-----------------------------------------------------------------------------
\* A call that moves keeps its session; one whose producers change keeps its step.
LEMMA MovedJoin ==
  ASSUME NEW f \in [JoinId -> Join], NEW j \in JoinId, NEW x, NEW i \in JoinId
  PROVE  /\ [f EXCEPT ![j].step = x][i].of = f[i].of
         /\ [f EXCEPT ![j].step = x][i].step = IF i = j THEN x ELSE f[i].step
         /\ [f EXCEPT ![j].left = x][i].of = f[i].of
         /\ [f EXCEPT ![j].left = x][i].step = f[i].step
         /\ [f EXCEPT ![j].known = x][i].of = f[i].of
         /\ [f EXCEPT ![j].known = x][i].step = f[i].step
BY DEF Join

\* What a step does that neither starts nor ends a session.
Before == {"none", "connecting", "joining"}
GoesOn ==
    /\ generation' = generation
    /\ \A i \in JoinId : /\ join'[i].of = join[i].of
                         /\ join'[i].step = "none" => join[i].step = "none"
                         /\ join[i].step \notin Before => join'[i].step \notin Before
    /\ generation = 0 => UNCHANGED <<join, wire, member, pulling>>

\* Such a step leaves the session, and who has it.
LEMMA SessionStays ==
  ASSUME SessionInv, GoesOn
  PROVE  /\ OwnSessions'
         /\ \A j \in JoinId : Current(j) => Current(j)'
         /\ InSession => InSession'
         /\ Entered => Entered'
<1>1. OwnSessions'
  BY DEF SessionInv, OwnSessions, GoesOn
<1>2. \A j \in JoinId : Current(j) => Current(j)'
  BY DEF GoesOn, Current
<1>3. InSession => InSession'
  BY <1>2 DEF InSession
<1>4. Entered => Entered'
  <2>1. SUFFICES ASSUME NEW j \in JoinId, Current(j), join[j].step \notin {"connecting", "joining"}
                 PROVE  Entered'
    BY DEF Entered
  <2>2. join[j].step \notin Before /\ Current(j)'
    BY <1>2, <2>1 DEF Before, Current
  <2>3. join'[j].step \notin {"connecting", "joining"}
    BY <2>2 DEF GoesOn, Before
  <2>. QED
    BY <2>2, <2>3 DEF Entered
<1>. QED
  BY <1>1, <1>2, <1>3, <1>4

\* It leaves what is heard, unless it touches it, ...
LEMMA HeardStays ==
  ASSUME SessionInv, GoesOn, UNCHANGED <<held, played, pulling>>
  PROVE  HeardInSession'
<1>1. InSession => InSession'
  BY SessionStays
<1>. QED
  BY <1>1 DEF SessionInv, HeardInSession, GoesOn

\* ... and what is captured.
LEMMA CaptureStays ==
  ASSUME SessionInv, GoesOn, UNCHANGED <<captureVars, serverScreen, stopping, member>>
  PROVE  SharedInSession' /\ OneScreen' /\ CapturedByOwner'
<1>0. /\ generation' = generation
      /\ UNCHANGED <<live, microphone, share, queue, screen, ownScreen, serverScreen, stopping, member>>
  BY DEF GoesOn, captureVars
<1>1. (Entered => Entered') /\ \A j \in JoinId : Current(j) => Current(j)'
  BY SessionStays
<1>2. SharedInSession'
  BY <1>0, <1>1 DEF SessionInv, SharedInSession, Enqueued
<1>3. OneScreen'
  BY <1>0 DEF SessionInv, OneScreen
<1>4. CapturedByOwner'
  BY <1>0, <1>1 DEF SessionInv, CapturedByOwner, Enqueued
<1>. QED
  BY <1>2, <1>3, <1>4

\* There is one session at a time.
LEMMA OneSession ==
  ASSUME SessionInv, NEW i \in JoinId, NEW j \in JoinId, Current(i), Current(j)
  PROVE  i = j /\ generation > 0
BY DEF SessionInv, OwnSessions, Current, SessionTypeOK

-----------------------------------------------------------------------------
\* The steps of a join that go on with it.
LEMMA JoinStepsGoOn ==
  ASSUME SessionInv, NEW j \in JoinId,
         SocketConnects(j) \/ TransportsMade(j) \/ LoopGoesOn(j) \/ MicrophoneGranted(j) \/ MicrophoneProduced(j)
  PROVE  GoesOn
<1>0. join \in [JoinId -> Join]
  BY DEF SessionInv, SessionTypeOK
<1> DEFINE f(x) == [join EXCEPT ![j].step = x]
<1>1. ASSUME NEW x, x # "none", join[j].step \notin {"none"}, x \in Before => join[j].step \in Before,
             join' = f(x), generation' = generation
      PROVE  GoesOn
  <2>1. \A i \in JoinId : f(x)[i].of = join[i].of /\ f(x)[i].step = IF i = j THEN x ELSE join[i].step
    BY <1>0, MovedJoin
  <2>2. generation # 0
    BY <1>1 DEF SessionInv, OwnSessions
  <2>. QED
    BY <1>1, <2>1, <2>2 DEF GoesOn, Before
<1>2. ASSUME SocketConnects(j) PROVE GoesOn
  BY <1>1, <1>2 DEF SocketConnects, Before
<1>3. ASSUME MicrophoneGranted(j) PROVE GoesOn
  BY <1>1, <1>3 DEF MicrophoneGranted, Before
<1>4. ASSUME NEW x, x \notin Before, NEW L \in SUBSET Stream, join[j].step \notin {"none"},
             join' = [f(x) EXCEPT ![j].left = L], x \in JoinStep, generation' = generation
      PROVE  GoesOn
  <2> DEFINE g == f(x)
             h == [g EXCEPT ![j].left = L]
  <2>1. g \in [JoinId -> Join]
    BY <1>0, <1>4, JoinMoves
  <2>2. \A i \in JoinId : g[i].of = join[i].of /\ g[i].step = IF i = j THEN x ELSE join[i].step
    BY <1>0, MovedJoin
  <2> HIDE DEF g
  <2>3. \A i \in JoinId : h[i].of = g[i].of /\ h[i].step = g[i].step
    BY <2>1, MovedJoin
  <2>4. generation # 0 /\ join' = h
    BY <1>4 DEF SessionInv, OwnSessions, g
  <2>. QED
    BY <1>4, <2>2, <2>3, <2>4 DEF GoesOn, Before
<1>5. ASSUME TransportsMade(j) PROVE GoesOn
  <2>1. pending \in SUBSET Stream
    BY DEF SessionInv, SessionTypeOK
  <2>. QED
    BY <1>4, <1>5, <2>1 DEF TransportsMade, Before, JoinStep
<1>6. ASSUME MicrophoneProduced(j) PROVE GoesOn
  <2> DEFINE L == join[j].known
  <2>1. L \in SUBSET Stream
    BY <1>0, JoinRemembers
  <2>2. join' = [f("existing") EXCEPT ![j].left = L]
    BY <1>6 DEF MicrophoneProduced
  <2>. QED
    BY <1>4, <1>6, <2>1, <2>2 DEF MicrophoneProduced, Before, JoinStep
<1>7. ASSUME LoopGoesOn(j) PROVE GoesOn
  <2>0. join[j].step \notin Before /\ generation' = generation
    BY <1>7 DEF LoopGoesOn, Between, Before
  <2>1. CASE \E L : join' = [join EXCEPT ![j].left = L]
    <3>1. PICK L : join' = [join EXCEPT ![j].left = L]
      BY <2>1
    <3>2. \A i \in JoinId : join'[i].of = join[i].of /\ join'[i].step = join[i].step
      BY <1>0, <3>1, MovedJoin
    <3>3. generation # 0
      BY <2>0 DEF SessionInv, OwnSessions, Before
    <3>. QED
      BY <2>0, <3>2, <3>3 DEF GoesOn
  <2>2. CASE \/ join' = f("asking")
             \/ join' = f("done")
             \/ join' = f("over")
    BY <1>1, <2>0, <2>2 DEF Before
  <2>. QED
    BY <1>7, <2>1, <2>2 DEF LoopGoesOn
<1>. QED
  BY <1>2, <1>3, <1>5, <1>6, <1>7

\* The end of a session leaves nothing of it.
LEMMA ClearedKeeps ==
  ASSUME SessionInv, Cleared, UNCHANGED <<others, hitchVars>>, SessionTypeOK',
         \A i \in JoinId : /\ join'[i].of = join[i].of
                           /\ join'[i].step = "none" => join[i].step = "none"
  PROVE  SessionInv'
<1>0. generation \in Nat /\ generation' = generation + 1 /\ \A i \in JoinId : join[i].of \in Nat
  BY DEF Cleared, SessionInv, SessionTypeOK, Join
<1>1. OwnSessions'
  BY <1>0 DEF SessionInv, OwnSessions
<1>2. HeardInSession'
  <2>1. held' = {} /\ played' = {} /\ \A p \in pulling' : p \in pulling
    BY DEF Cleared
  <2>2. \A p \in pulling : p.of <= generation /\ p.of \in Nat
    BY DEF SessionInv, HeardInSession, SessionTypeOK, Pull
  <2>3. \A p \in pulling' : p.of <= generation' /\ p.of # generation'
    BY <1>0, <2>1, <2>2
  <2>. QED
    BY <2>1, <2>3 DEF HeardInSession
<1>3. \A g \in Share : share[g].of <= generation /\ share[g].of \in Nat /\ share'[g].of = share[g].of
  BY DEF Cleared, SessionInv, SharedInSession, SessionTypeOK
<1>4. SharedInSession'
  <2>1. queue' = <<>> /\ screen' = NoTrack /\ DOMAIN queue' = {}
    BY DEF Cleared
  <2>2. \A g \in Share : share'[g].of <= generation' /\ share'[g].of # generation'
    BY <1>0, <1>3
  <2>. QED
    BY <2>1, <2>2 DEF SharedInSession, Enqueued
<1>5. OneScreen'
  BY DEF Cleared, OneScreen
<1>6. CapturedByOwner'
  <2>1. \A x \in live : x \notin live'
    <3>1. ASSUME NEW j \in JoinId \cap live PROVE j \notin live'
      BY <3>1 DEF SessionInv, CapturedByOwner, Cleared, Released
    <3>2. ASSUME NEW g \in Share \cap live PROVE g \notin live'
      BY <3>2 DEF SessionInv, CapturedByOwner, Cleared, Released
    <3>. QED
      BY <3>1, <3>2 DEF SessionInv, SessionTypeOK
  <2>2. live' = {}
    BY <2>1 DEF Cleared
  <2>. QED
    BY <2>2 DEF CapturedByOwner
<1>. QED
  BY <1>1, <1>2, <1>4, <1>5, <1>6 DEF SessionInv

-----------------------------------------------------------------------------
\* The start of a session: nothing of another one has its number.
LEMMA JoinRoomKeeps ==
  ASSUME SessionInv, SessionTypeOK', NEW j \in JoinId, JoinRoom(j)
  PROVE  SessionInv'
<1>0. generation \in Nat /\ generation' = generation + 1 /\ join \in [JoinId -> Join]
  BY DEF JoinRoom, SessionInv, SessionTypeOK
<1>1. /\ UNCHANGED <<pulling, held, played, captureVars, serverScreen, stopping, member>>
      /\ ~InSession
  BY DEF JoinRoom, gatewayVars
<1>2. \A i \in JoinId : /\ join'[i].of = IF i = j THEN generation + 1 ELSE join[i].of
                        /\ join'[i].step = IF i = j THEN "connecting" ELSE join[i].step
  BY <1>0 DEF JoinRoom, Join
<1>3. OwnSessions'
  <2>1. \A i \in JoinId : join[i].of \in Nat /\ join[i].of <= generation /\ (join[i].step = "none" => join[i].of = 0)
    BY <1>0 DEF SessionInv, OwnSessions, Join
  <2>2. \A i, k \in JoinId : join[i].of = join[k].of => i = k \/ join[i].of = 0
    BY DEF SessionInv, OwnSessions
  <2>3. \A i \in JoinId : join'[i].of <= generation' /\ (join'[i].step = "none" => join'[i].of = 0)
    BY <1>0, <1>2, <2>1
  <2>4. \A i, k \in JoinId : join'[i].of = join'[k].of => i = k \/ join'[i].of = 0
    BY <1>0, <1>2, <2>1, <2>2
  <2>. QED
    BY <1>0, <2>3, <2>4 DEF OwnSessions
<1>4. held = {} /\ played = {} /\ \A p \in pulling : p.of <= generation /\ p.of \in Nat
  BY <1>1 DEF SessionInv, HeardInSession, SessionTypeOK, Pull
<1>5. HeardInSession'
  BY <1>0, <1>1, <1>4 DEF HeardInSession
<1>6. ~Entered
  BY <1>1 DEF Entered, InSession
<1>7. queue = <<>> /\ screen = NoTrack /\ Enqueued = {}
  BY <1>6 DEF SessionInv, SharedInSession, Enqueued
<1>8. \A g \in Share : share[g].of <= generation /\ share[g].of \in Nat
  BY DEF SessionInv, SharedInSession, SessionTypeOK
<1>9. SharedInSession'
  BY <1>0, <1>1, <1>7, <1>8 DEF SharedInSession, Enqueued, captureVars
<1>10. OneScreen'
  BY <1>1, <1>7 DEF SessionInv, OneScreen, captureVars
<1>11. live \subseteq JoinId \cup Share /\ live = {}
  <2>1. \A i \in JoinId : i \notin live
    BY <1>1 DEF SessionInv, CapturedByOwner, InSession
  <2>2. \A g \in Share : g \notin live
    BY <1>7, SessionAssumption DEF SessionInv, CapturedByOwner
  <2>. QED
    BY <2>1, <2>2 DEF SessionInv, SessionTypeOK
<1>12. CapturedByOwner'
  BY <1>1, <1>11 DEF CapturedByOwner, captureVars
<1>. QED
  BY <1>3, <1>5, <1>9, <1>10, <1>12 DEF SessionInv

\* What is asked for in a session that goes on is asked in its name.
LEMMA AskedInSession ==
  ASSUME SessionInv, GoesOn, NEW s \in Stream, NEW by,
         UNCHANGED <<held, played>>, pulling' = Started(s, by)
  PROVE  HeardInSession'
<1>1. InSession => InSession'
  BY SessionStays
<1>2. generation \in Nat
  BY DEF SessionInv, SessionTypeOK
<1>3. CanReceive => InSession
  BY DEF CanReceive, InSession
<1>4. \A p \in pulling' : p \in pulling \/ (CanReceive /\ p.of = generation)
  BY DEF Started
<1>. QED
  BY <1>1, <1>2, <1>3, <1>4 DEF SessionInv, HeardInSession, GoesOn

\* The steps of a join.
LEMMA JoinStepsKeep ==
  ASSUME SessionInv, SessionTypeOK', NEW j \in JoinId,
         \/ SocketConnects(j) \/ GatewayJoins(j) \/ TransportsMade(j) \/ LoopGoesOn(j)
         \/ MicrophoneGranted(j) \/ MicrophoneProduced(j)
  PROVE  SessionInv'
<1>0. join \in [JoinId -> Join]
  BY DEF SessionInv, SessionTypeOK
<1>1. CASE SocketConnects(j) \/ TransportsMade(j) \/ MicrophoneProduced(j)
  <2>1. GoesOn
    BY <1>1, JoinStepsGoOn
  <2>2. UNCHANGED <<held, played, pulling>> /\ UNCHANGED <<captureVars, serverScreen, stopping, member>>
    BY <1>1 DEF SocketConnects, TransportsMade, MicrophoneProduced, gatewayVars
  <2>. QED
    BY <2>1, <2>2, SessionStays, HeardStays, CaptureStays DEF SessionInv
<1>2. CASE GatewayJoins(j)
  <2>1. \A i \in JoinId : join'[i].of = join[i].of /\ join'[i].step = IF i = j THEN "entering" ELSE join[i].step
    BY <1>0, <1>2, MovedJoin DEF GatewayJoins
  <2>2. Current(j) /\ join[j].step = "joining" /\ generation' = generation
    BY <1>2 DEF GatewayJoins
  <2>3. generation # 0
    BY <2>2 DEF SessionInv, OwnSessions
  <2>4. GoesOn
    BY <2>1, <2>2, <2>3 DEF GoesOn, Before
  <2>5. ~Entered
    BY <2>2, OneSession DEF Entered
  <2>6. queue = <<>> /\ screen = NoTrack
    BY <2>5 DEF SessionInv, SharedInSession
  <2>7. UNCHANGED <<held, played, pulling>> /\ UNCHANGED <<captureVars, serverScreen, stopping>>
    BY <1>2 DEF GatewayJoins
  <2>8. SharedInSession'
    BY <2>2, <2>5, <2>6, <2>7 DEF SessionInv, SharedInSession, Enqueued, captureVars
  <2>9. OneScreen'
    BY <2>6, <2>7 DEF SessionInv, OneScreen, captureVars
  <2>10. CapturedByOwner'
    <3>1. \A i \in JoinId : Current(i) => Current(i)'
      BY <2>4, SessionStays
    <3>. QED
      BY <2>7, <3>1 DEF SessionInv, CapturedByOwner, Enqueued, captureVars
  <2>. QED
    BY <2>4, <2>7, <2>8, <2>9, <2>10, SessionStays, HeardStays DEF SessionInv
<1>3. CASE LoopGoesOn(j)
  <2>1. GoesOn
    BY <1>3, JoinStepsGoOn
  <2>2. UNCHANGED <<held, played>> /\ UNCHANGED <<captureVars, serverScreen, stopping, member>>
    BY <1>3 DEF LoopGoesOn, gatewayVars
  <2>3. join[j].left \subseteq Stream
    BY <1>0, JoinRemembers
  <2>4. HeardInSession'
    BY <1>3, <2>1, <2>2, <2>3, HeardStays, AskedInSession DEF LoopGoesOn
  <2>. QED
    BY <2>1, <2>2, <2>4, SessionStays, CaptureStays DEF SessionInv
<1>4. CASE MicrophoneGranted(j)
  <2>1. GoesOn
    BY <1>4, JoinStepsGoOn
  <2>2. /\ UNCHANGED <<held, played, pulling>>
        /\ UNCHANGED <<share, queue, screen, ownScreen, serverScreen, stopping, member>>
    BY <1>4 DEF MicrophoneGranted, gatewayVars
  <2>3. /\ Entered => Entered'
        /\ \A i \in JoinId : Current(i) => Current(i)'
    BY <2>1, SessionStays
  <2>4. SharedInSession'
    BY <2>1, <2>2, <2>3 DEF SessionInv, SharedInSession, Enqueued, GoesOn
  <2>5. OneScreen'
    BY <2>1, <2>2 DEF SessionInv, OneScreen, GoesOn
  <2>6. CapturedByOwner'
    <3>1. CASE Current(j)
      <4>1. live' = live \cup {j} /\ microphone' = j
        BY <1>4, <3>1 DEF MicrophoneGranted
      <4>2. \A i \in JoinId \cap live : i = j
        BY <3>1, OneSession DEF SessionInv, CapturedByOwner
      <4>3. j \notin Share
        BY SessionAssumption DEF JoinId
      <4>. QED
        BY <2>2, <2>3, <3>1, <4>1, <4>2, <4>3 DEF SessionInv, CapturedByOwner, Enqueued
    <3>2. CASE ~Current(j)
      BY <1>4, <2>2, <2>3, <3>2 DEF MicrophoneGranted, SessionInv, CapturedByOwner, Enqueued
    <3>. QED
      BY <3>1, <3>2
  <2>. QED
    BY <2>1, <2>2, <2>4, <2>5, <2>6, SessionStays, HeardStays DEF SessionInv
<1>. QED
  BY <1>1, <1>2, <1>3, <1>4

-----------------------------------------------------------------------------
\* A step that leaves generation and the joins goes on, when something has begun.
LEMMA OthersGoOn ==
  ASSUME UNCHANGED <<generation, join>>, generation # 0 \/ UNCHANGED <<wire, member, pulling>>
  PROVE  GoesOn
BY DEF GoesOn

\* The calls of consumeProducer.
LEMMA PullsKeep ==
  ASSUME SessionInv, SessionTypeOK', NEW p \in pulling,
         GatewayAnswers(p) \/ ConsumerMade(p) \/ PullFails(p)
  PROVE  SessionInv'
<1>1. generation # 0
  BY DEF SessionInv, OwnSessions
<1>2. UNCHANGED <<generation, join>> /\ UNCHANGED <<captureVars, serverScreen, stopping, member>>
  BY DEF GatewayAnswers, ConsumerMade, PullFails, gatewayVars
<1>3. GoesOn
  BY <1>1, <1>2, OthersGoOn
<1>4. \A q \in pulling' : q \in pulling \/ q.of = p.of
  <2>1. p \in Pull
    BY DEF SessionInv, SessionTypeOK
  <2>2. \A x : Moves(p, x) => \A q \in pulling' : q \in pulling \/ q.of = p.of
    BY <2>1 DEF Moves, Pull
  <2>3. Ends(p) => \A q \in pulling' : q \in pulling
    BY DEF Ends
  <2>. QED
    BY <2>2, <2>3 DEF GatewayAnswers, ConsumerMade, PullFails
<1>5. held' \cup played' # {} => held \cup played # {} \/ p.of = generation
  BY DEF GatewayAnswers, ConsumerMade, PullFails
<1>6. HeardInSession'
  <2>1. InSession => InSession'
    BY <1>3, SessionStays
  <2>2. /\ \A q \in pulling' : q.of <= generation /\ (q.of = generation => InSession)
        /\ held' \cup played' # {} => InSession
    BY <1>4, <1>5 DEF SessionInv, HeardInSession
  <2>. QED
    BY <1>2, <2>1, <2>2 DEF HeardInSession
<1>. QED
  BY <1>2, <1>3, <1>6, SessionStays, CaptureStays DEF SessionInv

\* The producers of the others come and go.
LEMMA StreamsKeep ==
  ASSUME SessionInv, SessionTypeOK', NEW s \in Stream, StreamOpens(s) \/ StreamCloses(s)
  PROVE  SessionInv'
<1>1. UNCHANGED <<generation, join, pulling, held, played>> /\ UNCHANGED <<captureVars, serverScreen, stopping, member>>
  BY DEF StreamOpens, StreamCloses, tabVars
<1>2. generation = 0 => UNCHANGED wire
  BY DEF SessionInv, OwnSessions, StreamOpens, StreamCloses, Told
<1>3. GoesOn
  BY <1>1, <1>2, OthersGoOn
<1>. QED
  BY <1>1, <1>3, SessionStays, HeardStays, CaptureStays DEF SessionInv

\* What the tab hears.
LEMMA HearKeeps ==
  ASSUME SessionInv, SessionTypeOK', NEW i \in DOMAIN wire, Hear(i)
  PROVE  SessionInv'
<1> DEFINE m == wire[i]
<1>0. /\ m \in Message
      /\ join \in [JoinId -> Join] /\ generation \in Nat
  BY LenProperties, ElementOfSeq DEF SessionInv, SessionTypeOK
<1>1. generation # 0
  BY EmptySeq DEF SessionInv, OwnSessions
<1>2. UNCHANGED <<member, others, serverScreen, stopping>>
  BY DEF Hear
<1>3. CASE m.kind = "new"
  <2>1. HearNew(m.of) /\ m.of \in Stream
    BY <1>0, <1>3 DEF Hear, Message
  <2>2. GoesOn
    BY <1>1, <2>1, OthersGoOn DEF HearNew
  <2>3. HeardInSession'
    BY <2>1, <2>2, AskedInSession DEF HearNew
  <2>4. UNCHANGED <<captureVars, serverScreen, stopping, member>>
    BY <1>2, <2>1 DEF HearNew
  <2>. QED
    BY <2>2, <2>3, <2>4, SessionStays, CaptureStays DEF SessionInv
<1>4. CASE m.kind = "closed"
  <2>1. HearClosed(m.of)
    BY <1>4 DEF Hear
  <2>2. GoesOn
    BY <1>1, <2>1, OthersGoOn DEF HearClosed
  <2>3. HeardInSession'
    <3>1. InSession => InSession'
      BY <2>2, SessionStays
    <3>2. generation' = generation /\ pulling' = pulling /\ held' \subseteq held /\ played' \subseteq played
      BY <2>1 DEF HearClosed
    <3>. QED
      BY <3>1, <3>2 DEF SessionInv, HeardInSession
  <2>4. CASE UNCHANGED <<live, screen, ownScreen>>
    <3>1. UNCHANGED <<captureVars, serverScreen, stopping, member>>
      BY <1>2, <2>1, <2>4 DEF HearClosed, captureVars
    <3>. QED
      BY <2>2, <2>3, <3>1, SessionStays, CaptureStays DEF SessionInv
  <2>5. CASE live' = live \ {screen, ownScreen} /\ screen' = NoTrack
    <3>1. UNCHANGED <<generation, join, microphone, share, queue, member, serverScreen, stopping>>
      BY <1>2, <2>1 DEF HearClosed
    <3>2. (Entered => Entered') /\ \A j \in JoinId : Current(j) => Current(j)'
      BY <2>2, SessionStays
    <3>3. SharedInSession'
      BY <2>5, <3>1, <3>2 DEF SessionInv, SharedInSession, Enqueued
    <3>4. OneScreen'
      BY <2>5, <3>1 DEF SessionInv, OneScreen
    <3>5. CapturedByOwner'
      BY <2>5, <3>1, <3>2 DEF SessionInv, CapturedByOwner, Enqueued
    <3>. QED
      BY <2>2, <2>3, <3>3, <3>4, <3>5, SessionStays DEF SessionInv
  <2>. QED
    BY <2>1, <2>4, <2>5 DEF HearClosed
<1>5. CASE m.kind = "joined"
  <2> DEFINE j == m.by
             L == m.known
             f == [join EXCEPT ![j].step = "preparing"]
  <2>1. HearJoined(j, L) /\ j \in JoinId /\ L \subseteq Stream
    BY <1>0, <1>5 DEF Hear, Message
  <2>2. f \in [JoinId -> Join]
    BY <1>0, <2>1, JoinMoves DEF JoinStep
  <2>3. \A k \in JoinId : f[k].of = join[k].of /\ f[k].step = IF k = j THEN "preparing" ELSE join[k].step
    BY <1>0, <2>1, MovedJoin
  <2>4. join' = [f EXCEPT ![j].known = L] /\ UNCHANGED <<generation, pending, pulling, held, played, captureVars>>
    BY <2>1 DEF HearJoined
  <2> HIDE DEF f
  <2>5. \A k \in JoinId : join'[k].of = f[k].of /\ join'[k].step = f[k].step
    BY <2>1, <2>2, <2>4, MovedJoin
  <2>6. GoesOn
    BY <1>1, <2>3, <2>4, <2>5 DEF GoesOn, Before
  <2>. QED
    BY <1>2, <2>4, <2>6, SessionStays, HeardStays, CaptureStays DEF SessionInv
<1>6. CASE m.kind = "ack"
  <2>1. HearAck(m)
    BY <1>6 DEF Hear
  <2>2. GoesOn
    BY <1>1, <2>1, OthersGoOn DEF HearAck
  <2>3. UNCHANGED <<captureVars, serverScreen, stopping, member>>
    BY <1>2, <2>1 DEF HearAck
  <2>4. HeardInSession'
    <3>1. CASE UNCHANGED <<pulling, played>>
      BY <2>1, <2>2, <3>1, HeardStays DEF HearAck
    <3>2. ASSUME NEW p \in AskedBy(m),
                 IF m.ok /\ p.step = "consumed" THEN Moves(p, "decoding") ELSE Ends(p)
          PROVE  HeardInSession'
      <4>1. p \in pulling /\ p \in Pull /\ p.of = generation
        BY DEF AskedBy, SessionInv, SessionTypeOK
      <4>2. InSession
        BY <4>1 DEF SessionInv, HeardInSession
      <4>3. \A q \in pulling' : q \in pulling \/ q.of = generation
        BY <3>2, <4>1 DEF Moves, Ends, Pull
      <4>4. InSession' /\ generation' = generation
        BY <2>2, <4>2, SessionStays DEF GoesOn
      <4>. QED
        BY <1>0, <4>3, <4>4 DEF SessionInv, HeardInSession
    <3>. QED
      BY <2>1, <3>1, <3>2 DEF HearAck
  <2>. QED
    BY <2>2, <2>3, <2>4, SessionStays, CaptureStays DEF SessionInv
<1>7. m.kind \in {"new", "closed", "joined", "ack"}
  BY <1>0 DEF Message
<1>. QED
  BY <1>3, <1>4, <1>5, <1>6, <1>7

-----------------------------------------------------------------------------
\* The transport is to produce shares.
LEMMA QueuedAreShares ==
  ASSUME queue \in Seq(Share)
  PROVE  Enqueued \subseteq Share
<1>1. DOMAIN queue = 1..Len(queue) /\ \A k \in 1..Len(queue) : queue[k] \in Share
  BY LenProperties, ElementOfSeq
<1>. QED
  BY <1>1 DEF Enqueued

\* The queue of the transport after one more share, ...
LEMMA QueueGrows ==
  ASSUME queue \in Seq(Share), NEW g \in Share, queue' = Append(queue, g)
  PROVE  /\ Enqueued' = Enqueued \cup {g}
         /\ /\ \A a, b \in DOMAIN queue : queue[a] = queue[b] => a = b
            /\ g \notin Enqueued
            => \A a, b \in DOMAIN queue' : queue'[a] = queue'[b] => a = b
<1>1. /\ Len(queue) \in Nat /\ DOMAIN queue = 1..Len(queue) /\ DOMAIN queue' = 1..(Len(queue) + 1)
      /\ \A k \in 1..Len(queue) : queue'[k] = queue[k]
      /\ queue'[Len(queue) + 1] = g
  BY AppendProperties, LenProperties
<1>2. Enqueued' = Enqueued \cup {g}
  BY <1>1 DEF Enqueued
<1>3. ASSUME \A a, b \in DOMAIN queue : queue[a] = queue[b] => a = b, g \notin Enqueued,
             NEW a \in DOMAIN queue', NEW b \in DOMAIN queue', queue'[a] = queue'[b]
      PROVE  a = b
  BY <1>1, <1>3 DEF Enqueued
<1>. QED
  BY <1>2, <1>3

\* ... and after the first one is answered.
LEMMA QueueShrinks ==
  ASSUME queue \in Seq(Share), queue # <<>>, queue' = Tail(queue)
  PROVE  /\ Head(queue) \in Enqueued /\ Head(queue) \in Share
         /\ Enqueued \ {Head(queue)} \subseteq Enqueued' /\ Enqueued' \subseteq Enqueued
         /\ (\A a, b \in DOMAIN queue : queue[a] = queue[b] => a = b)
            => /\ \A a, b \in DOMAIN queue' : queue'[a] = queue'[b] => a = b
               /\ Head(queue) \notin Enqueued'
<1>1. /\ Len(queue) \in Nat /\ Len(queue) > 0
      /\ DOMAIN queue = 1..Len(queue) /\ DOMAIN queue' = 1..(Len(queue) - 1)
      /\ \A k \in 1..(Len(queue) - 1) : queue'[k] = queue[k + 1]
      /\ Head(queue) = queue[1] /\ Head(queue) \in Share
  BY HeadTailProperties, LenProperties, EmptySeq
<1>2. Head(queue) \in Enqueued
  BY <1>1 DEF Enqueued
<1>3. ASSUME NEW g \in Enqueued, g # Head(queue) PROVE g \in Enqueued'
  <2>1. PICK k \in 1..Len(queue) : g = queue[k]
    BY <1>1 DEF Enqueued
  <2>2. k - 1 \in 1..(Len(queue) - 1) /\ queue'[k - 1] = g
    BY <1>1, <1>3, <2>1
  <2>. QED
    BY <1>1, <2>2 DEF Enqueued
<1>4. ASSUME NEW g \in Enqueued' PROVE g \in Enqueued
  <2>1. PICK k \in 1..(Len(queue) - 1) : g = queue[k + 1]
    BY <1>1, <1>4 DEF Enqueued
  <2>. QED
    BY <1>1, <2>1 DEF Enqueued
<1>5. ASSUME \A a, b \in DOMAIN queue : queue[a] = queue[b] => a = b
      PROVE  /\ \A a, b \in DOMAIN queue' : queue'[a] = queue'[b] => a = b
             /\ Head(queue) \notin Enqueued'
  <2>1. ASSUME NEW a \in DOMAIN queue', NEW b \in DOMAIN queue', queue'[a] = queue'[b] PROVE a = b
    <3>1. a + 1 \in DOMAIN queue /\ b + 1 \in DOMAIN queue /\ queue[a + 1] = queue[b + 1]
      BY <1>1, <2>1
    <3>2. a + 1 = b + 1
      BY <1>5, <3>1
    <3>. QED
      BY <1>1, <3>2
  <2>2. ASSUME NEW k \in 1..(Len(queue) - 1), queue[k + 1] = queue[1] PROVE FALSE
    <3>1. k + 1 \in DOMAIN queue /\ 1 \in DOMAIN queue
      BY <1>1
    <3>2. k + 1 = 1
      BY <1>5, <2>2, <3>1
    <3>. QED
      BY <3>2
  <2>3. Head(queue) \notin Enqueued'
    BY <1>1, <2>2 DEF Enqueued
  <2>. QED
    BY <2>1, <2>3
<1>. QED
  BY <1>1, <1>2, <1>3, <1>4, <1>5

\* Shares that begin, and those that the user gives up.
LEMMA PicksKeep ==
  ASSUME SessionInv, SessionTypeOK', NEW g \in Share, StartShare(g) \/ PickRefused(g)
  PROVE  SessionInv'
<1>0. /\ share \in [Share -> [step : {"none", "picking", "producing", "over"}, of : Nat]]
      /\ generation \in Nat
  BY DEF SessionInv, SessionTypeOK
<1>1. /\ UNCHANGED <<generation, join, pulling, held, played, member, wire>>
      /\ UNCHANGED <<microphone, queue, screen, serverScreen, stopping>>
  BY DEF StartShare, PickRefused, tabVars, gatewayVars
<1>2. GoesOn
  BY <1>1, OthersGoOn
<1>3. (Entered => Entered') /\ \A j \in JoinId : Current(j) => Current(j)'
  BY <1>2, SessionStays
<1>4. /\ \A h \in Share : h # g => share'[h] = share[h]
      /\ share[g].step \in {"none", "picking"}
      /\ share'[g].of <= generation
      /\ share'[g].step = "picking" => Entered
  BY <1>0 DEF StartShare, PickRefused, IsConnected, Entered, SessionInv, SharedInSession
<1>5. g \notin Enqueued /\ g # screen /\ g \notin stopping
  BY <1>0, <1>4, SessionAssumption DEF SessionInv, SharedInSession, OneScreen
<1>6. SharedInSession'
  <2>1. queue' = queue /\ screen' = screen /\ Enqueued' = Enqueued
    BY <1>1 DEF Enqueued
  <2>2. Enqueued \subseteq Share
    BY QueuedAreShares DEF SessionInv, SessionTypeOK
  <2>3. \A h \in Enqueued' : share'[h].step = "producing" /\ share'[h].of = generation
    BY <1>4, <1>5, <2>1, <2>2 DEF SessionInv, SharedInSession
  <2>4. \A h \in Share : /\ share'[h].of <= generation
                         /\ share'[h].step = "picking" /\ share'[h].of = generation => Entered
    BY <1>4 DEF SessionInv, SharedInSession
  <2>. QED
    BY <1>1, <1>3, <2>1, <2>3, <2>4 DEF SessionInv, SharedInSession
<1>7. OneScreen'
  BY <1>1, <1>4, <1>5 DEF SessionInv, OneScreen, SessionTypeOK
<1>8. CapturedByOwner'
  <2>1. live' \subseteq live
    BY DEF StartShare, PickRefused
  <2>. QED
    BY <1>1, <1>3, <2>1 DEF SessionInv, CapturedByOwner, Enqueued
<1>. QED
  BY <1>1, <1>2, <1>6, <1>7, <1>8, SessionStays, HeardStays DEF SessionInv

\* The user picks a screen.
LEMMA PickedKeeps ==
  ASSUME SessionInv, SessionTypeOK', NEW g \in Share, ScreenPicked(g)
  PROVE  SessionInv'
<1>0. /\ share \in [Share -> [step : {"none", "picking", "producing", "over"}, of : Nat]]
      /\ generation \in Nat /\ queue \in Seq(Share)
  BY DEF SessionInv, SessionTypeOK
<1>1. /\ UNCHANGED <<generation, join, pulling, held, played, member, wire>>
      /\ UNCHANGED <<microphone, screen, serverScreen, stopping>>
  BY DEF ScreenPicked, tabVars, gatewayVars
<1>2. GoesOn
  BY <1>1, OthersGoOn
<1>3. (Entered => Entered') /\ \A j \in JoinId : Current(j) => Current(j)'
  BY <1>2, SessionStays
<1>4. g \notin Enqueued /\ g # screen /\ g \notin stopping /\ share[g].step = "picking"
  BY <1>0, SessionAssumption DEF ScreenPicked, SessionInv, SharedInSession, OneScreen
<1>5. \A h \in Share : h # g => share'[h] = share[h]
  BY <1>0 DEF ScreenPicked
<1>6. OneScreen'
  BY <1>1, <1>4, <1>5 DEF SessionInv, OneScreen, SessionTypeOK
<1>7. CASE share[g].of = generation
  <2>1. queue' = Append(queue, g) /\ live' = live \cup {g}
    BY <1>7 DEF ScreenPicked
  <2>2. share'[g].step = "producing" /\ share'[g].of = generation
    BY <1>0, <1>7 DEF ScreenPicked
  <2>3. Enqueued' = Enqueued \cup {g}
    BY <1>0, <2>1, QueueGrows
  <2>4. Entered
    BY <1>4, <1>7 DEF SessionInv, SharedInSession
  <2>5. \A a, b \in DOMAIN queue' : queue'[a] = queue'[b] => a = b
    BY <1>0, <1>4, <2>1, QueueGrows DEF SessionInv, SharedInSession
  <2>6. \A h \in Enqueued' : share'[h].step = "producing" /\ share'[h].of = generation
    <3>1. Enqueued \subseteq Share
      BY <1>0, QueuedAreShares
    <3>. QED
      BY <1>4, <1>5, <2>2, <2>3, <3>1 DEF SessionInv, SharedInSession
  <2>7. \A h \in Share : /\ share'[h].of <= generation
                         /\ share'[h].step = "picking" /\ share'[h].of = generation => Entered
    BY <1>0, <1>5, <2>2 DEF SessionInv, SharedInSession
  <2>8. SharedInSession'
    BY <1>1, <1>3, <2>4, <2>5, <2>6, <2>7 DEF SharedInSession
  <2>9. CapturedByOwner'
    <3>1. g \notin JoinId
      BY SessionAssumption DEF JoinId
    <3>. QED
      BY <1>1, <1>3, <2>1, <2>3, <3>1 DEF SessionInv, CapturedByOwner
  <2>. QED
    BY <1>1, <1>2, <1>6, <2>8, <2>9, SessionStays, HeardStays DEF SessionInv
<1>8. CASE share[g].of # generation
  <2>1. UNCHANGED <<live, ownScreen, queue>> /\ share'[g].step = "over" /\ share'[g].of = share[g].of
    BY <1>0, <1>8 DEF ScreenPicked
  <2>2. SharedInSession'
    <3>1. queue' = queue /\ Enqueued' = Enqueued /\ Enqueued \subseteq Share
      BY <1>0, <2>1, QueuedAreShares DEF Enqueued
    <3>2. \A h \in Enqueued' : share'[h].step = "producing" /\ share'[h].of = generation
      BY <1>4, <1>5, <3>1 DEF SessionInv, SharedInSession
    <3>3. \A h \in Share : /\ share'[h].of <= generation
                           /\ share'[h].step = "picking" /\ share'[h].of = generation => Entered
      BY <1>5, <1>8, <2>1 DEF SessionInv, SharedInSession
    <3>. QED
      BY <1>1, <1>3, <3>1, <3>2, <3>3 DEF SessionInv, SharedInSession
  <2>3. CapturedByOwner'
    BY <1>1, <1>3, <2>1 DEF SessionInv, CapturedByOwner, Enqueued
  <2>. QED
    BY <1>1, <1>2, <1>6, <2>2, <2>3, SessionStays, HeardStays DEF SessionInv
<1>. QED
  BY <1>7, <1>8

\* The gateway answers for the first share that waits.
LEMMA ProducedKeeps ==
  ASSUME SessionInv, SessionTypeOK', ScreenProduced \/ ScreenRefused
  PROVE  SessionInv'
<1> DEFINE g == Head(queue)
<1>0. /\ share \in [Share -> [step : {"none", "picking", "producing", "over"}, of : Nat]]
      /\ generation \in Nat /\ queue \in Seq(Share)
  BY DEF SessionInv, SessionTypeOK
<1>1. /\ UNCHANGED <<generation, join, pulling, held, played, member, wire>>
      /\ UNCHANGED <<microphone, stopping>>
      /\ queue # <<>> /\ queue' = Tail(queue)
  BY DEF ScreenProduced, ScreenRefused, tabVars
<1>2. GoesOn
  BY <1>1, OthersGoOn
<1>3. Entered' /\ \A j \in JoinId : Current(j) => Current(j)'
  BY <1>1, <1>2, SessionStays DEF SessionInv, SharedInSession
<1>4. /\ g \in Enqueued /\ g \in Share /\ g \notin Enqueued'
      /\ Enqueued \ {g} \subseteq Enqueued' /\ Enqueued' \subseteq Enqueued
      /\ \A a, b \in DOMAIN queue' : queue'[a] = queue'[b] => a = b
  BY <1>0, <1>1, QueueShrinks DEF SessionInv, SharedInSession
<1>5. /\ \A h \in Share : h # g => share'[h] = share[h]
      /\ share'[g].step = "over" /\ share'[g].of = share[g].of
  BY <1>0, <1>4 DEF ScreenProduced, ScreenRefused
<1>6. share[g].step = "producing" /\ share[g].of = generation /\ g \notin stopping
  BY <1>4 DEF SessionInv, SharedInSession, OneScreen
<1>7. Enqueued' \subseteq Share
  BY <1>0, <1>4, QueuedAreShares
<1>8. SharedInSession'
  <2>1. \A h \in Enqueued' : share'[h].step = "producing" /\ share'[h].of = generation
    BY <1>4, <1>5, <1>7 DEF SessionInv, SharedInSession
  <2>2. \A h \in Share : share'[h].of <= generation
    BY <1>5 DEF SessionInv, SharedInSession
  <2>. QED
    BY <1>1, <1>3, <1>4, <2>1, <2>2 DEF SharedInSession
<1>9. member /\ serverScreen = NoTrack => screen = NoTrack
  BY DEF SessionInv, OneScreen
<1>10. OneScreen'
  <2>1. \A h \in stopping' : share'[h].step = "over"
    BY <1>1, <1>5, <1>6 DEF SessionInv, OneScreen, SessionTypeOK
  <2>2. CASE ScreenProduced
    <3>1. serverScreen' = g /\ screen' = g
      BY <2>2 DEF ScreenProduced
    <3>. QED
      BY <1>1, <1>5, <1>6, <2>1, <3>1 DEF OneScreen
  <2>3. CASE ScreenRefused
    <3>1. screen' = screen /\ (serverScreen' = serverScreen \/ (member /\ serverScreen = NoTrack))
      BY <2>3 DEF ScreenRefused
    <3>2. screen # NoTrack => screen # g /\ screen \in Share
      BY <1>6 DEF SessionInv, OneScreen, SessionTypeOK
    <3>. QED
      BY <1>1, <1>5, <1>9, <2>1, <3>1, <3>2 DEF SessionInv, OneScreen
  <2>. QED
    BY <2>2, <2>3
<1>11. CapturedByOwner'
  <2>1. CASE ScreenProduced
    <3>1. live' = live /\ screen' = g /\ screen = NoTrack
      BY <1>9, <2>1 DEF ScreenProduced
    <3>2. NoTrack \notin Share
      BY SessionAssumption
    <3>. QED
      BY <1>1, <1>3, <1>4, <3>1, <3>2 DEF SessionInv, CapturedByOwner
  <2>2. CASE ScreenRefused
    <3>1. live' = live \ {g, ownScreen} /\ screen' = screen
      BY <2>2 DEF ScreenRefused
    <3>. QED
      BY <1>1, <1>3, <1>4, <3>1 DEF SessionInv, CapturedByOwner
  <2>. QED
    BY <2>1, <2>2
<1>. QED
  BY <1>1, <1>2, <1>8, <1>10, <1>11, SessionStays, HeardStays DEF SessionInv

\* A share is stopped, by the user or at the gateway.
LEMMA StopsKeep ==
  ASSUME SessionInv, SessionTypeOK',
         StopScreenShare \/ GatewayRemoves \/ \E g \in Share : ScreenEnded(g) \/ GatewayStops(g)
  PROVE  SessionInv'
<1>1. UNCHANGED <<generation, join, pulling, held, played, microphone, share, queue>>
  BY DEF StopScreenShare, GatewayRemoves, ScreenEnded, GatewayStops, tabVars, captureVars
<1>2. GoesOn
  <2>1. CASE StopScreenShare \/ \E g \in Share : ScreenEnded(g)
    <3>1. UNCHANGED <<wire, member>>
      BY <2>1 DEF StopScreenShare, ScreenEnded
    <3>. QED
      BY <1>1, <3>1, OthersGoOn
  <2>2. CASE GatewayRemoves \/ \E g \in Share : GatewayStops(g)
    <3>1. generation # 0 \/ UNCHANGED <<wire, member>>
      BY <2>2 DEF GatewayRemoves, GatewayStops, Told, SessionInv, OwnSessions
    <3>. QED
      BY <1>1, <3>1, OthersGoOn
  <2>. QED
    BY <2>1, <2>2
<1>3. (Entered => Entered') /\ \A j \in JoinId : Current(j) => Current(j)'
  BY <1>2, SessionStays
<1>4. ASSUME StopShare, UNCHANGED <<member, serverScreen>>, screen # NoTrack PROVE SessionInv'
  <2>1. live' = live \ {screen, ownScreen} /\ screen' = NoTrack /\ stopping' = stopping \cup {screen}
    BY <1>4 DEF StopShare
  <2>2. SharedInSession'
    BY <1>1, <1>3, <2>1 DEF SessionInv, SharedInSession, Enqueued
  <2>3. OneScreen'
    BY <1>1, <1>4, <2>1 DEF SessionInv, OneScreen
  <2>4. CapturedByOwner'
    BY <1>1, <1>3, <2>1 DEF SessionInv, CapturedByOwner, Enqueued
  <2>. QED
    BY <1>1, <1>2, <2>2, <2>3, <2>4, SessionStays, HeardStays DEF SessionInv
<1>5. ASSUME live' \subseteq live, screen' = screen, stopping' \subseteq stopping,
             screen # NoTrack /\ member' => member /\ serverScreen' = serverScreen
      PROVE  SessionInv'
  <2>1. SharedInSession'
    BY <1>1, <1>3, <1>5 DEF SessionInv, SharedInSession, Enqueued
  <2>2. OneScreen'
    BY <1>1, <1>5 DEF SessionInv, OneScreen
  <2>3. CapturedByOwner'
    BY <1>1, <1>3, <1>5 DEF SessionInv, CapturedByOwner, Enqueued
  <2>. QED
    BY <1>1, <1>2, <2>1, <2>2, <2>3, SessionStays, HeardStays DEF SessionInv
<1>6. CASE StopScreenShare
  BY <1>4, <1>6 DEF StopScreenShare
<1>7. CASE GatewayRemoves
  BY <1>5, <1>7 DEF GatewayRemoves, captureVars
<1>8. ASSUME NEW g \in Share, ScreenEnded(g) PROVE SessionInv'
  <2>1. g # NoTrack
    BY SessionAssumption
  <2>2. CASE screen = g
    BY <1>4, <1>8, <2>1, <2>2 DEF ScreenEnded
  <2>3. CASE screen # g
    BY <1>5, <1>8, <2>3 DEF ScreenEnded
  <2>. QED
    BY <2>2, <2>3
<1>9. ASSUME NEW g \in Share, GatewayStops(g) PROVE SessionInv'
  <2>1. screen # NoTrack /\ member => serverScreen = screen /\ screen \notin stopping
    BY DEF SessionInv, OneScreen
  <2>. QED
    BY <1>5, <1>9, <2>1 DEF GatewayStops, captureVars
<1>. QED
  BY <1>6, <1>7, <1>8, <1>9

-----------------------------------------------------------------------------
\* Every step keeps the invariant.
LEMMA SessionInvStep == SessionInv /\ [SessionNext]_sessionVars => SessionInv'
<1> SUFFICES ASSUME SessionInv PROVE [SessionNext]_sessionVars => SessionInv'
  OBVIOUS
<1>0. [SessionNext]_sessionVars => SessionTypeOK'
  BY SessionTypeStep DEF SessionInv
<1>1. ASSUME SessionTypeOK', SessionEnds PROVE SessionInv'
  <2>1. \A j \in JoinId : join'[j].of = join[j].of /\ (join'[j].step = "none" => join[j].step = "none")
    <3>1. join \in [JoinId -> Join]
      BY DEF SessionInv, SessionTypeOK
    <3>. QED
      BY <1>1, <3>1 DEF SessionEnds, Join
  <2>. QED
    BY <1>1, <2>1, ClearedKeeps DEF SessionEnds
<1>2. ASSUME SessionTypeOK', NEW j \in JoinId, JoinFails(j) PROVE SessionInv'
  <2>1. join \in [JoinId -> Join] /\ join' = [join EXCEPT ![j].step = "over"]
    BY <1>2 DEF SessionInv, SessionTypeOK, JoinFails
  <2>2. \A i \in JoinId : join'[i].of = join[i].of /\ (join'[i].step = "none" => join[i].step = "none")
    BY <2>1, MovedJoin
  <2>. QED
    BY <1>2, <2>2, ClearedKeeps DEF JoinFails
<1>3. ASSUME UNCHANGED sessionVars PROVE SessionInv'
  <2>1. UNCHANGED <<generation, join, held, played, pulling, wire, member>>
        /\ UNCHANGED <<captureVars, serverScreen, stopping, member>>
    BY <1>3 DEF sessionVars, tabVars, gatewayVars
  <2>2. GoesOn
    BY <2>1, OthersGoOn
  <2>3. SessionTypeOK'
    BY <1>3, <1>0
  <2>. QED
    BY <2>1, <2>2, <2>3, SessionStays, HeardStays, CaptureStays DEF SessionInv
<1>4. ASSUME SessionTypeOK', SessionNext PROVE SessionInv'
  BY <1>1, <1>2, <1>4, JoinRoomKeeps, JoinStepsKeep, PullsKeep, StreamsKeep, HearKeeps, PicksKeep,
     PickedKeeps, ProducedKeeps, StopsKeep DEF SessionNext, TabStep
<1>. QED
  BY <1>0, <1>3, <1>4

\* Nothing is captured at the beginning.
LEMMA SessionInitInv == SessionInit => SessionInv
<1>1. SessionInit => SessionTypeOK
  BY SessionInitType
<1>2. SessionInit => OwnSessions
  BY DEF SessionInit, OwnSessions
<1>3. SessionInit => HeardInSession
  BY DEF SessionInit, HeardInSession
<1>4. SessionInit => SharedInSession
  BY DEF SessionInit, SharedInSession, Enqueued
<1>5. SessionInit => OneScreen /\ CapturedByOwner
  BY DEF SessionInit, OneScreen, CapturedByOwner
<1>. QED
  BY <1>1, <1>2, <1>3, <1>4, <1>5 DEF SessionInv

\* A tab that has left the room, or lost it, captures neither the microphone nor a
\* screen and plays nobody, however late the user answers the browser and however
\* its callbacks, its connection and the gateway's messages interleave.
THEOREM SessionCapture == SessionSpec => []CapturedOnlyInSession
<1>1. SessionInv => CapturedOnlyInSession
  <2>1. SUFFICES ASSUME SessionInv PROVE CapturedOnlyInSession
    OBVIOUS
  <2>2. \A g \in Share \cap live : share[g].of = generation /\ g \in {screen} \cup Enqueued
    BY <2>1, SessionAssumption DEF SessionInv, CapturedByOwner, SharedInSession, OneScreen
  <2>. QED
    BY <2>1, <2>2 DEF SessionInv, CapturedByOwner, HeardInSession, CapturedOnlyInSession
<1>. QED
  BY SessionInitInv, <1>1, SessionInvStep, PTL DEF SessionSpec

-----------------------------------------------------------------------------
(***************************************************************************)
(* RoomIsHeard.  Of every open producer the invariant says on which way it *)
(* is to the ear of a participant: it plays, waits for the transports, is  *)
(* being fetched, is announced by a message or remembered by the join that *)
(* will ask for it; a producer the tab has a consumer of is fetched or     *)
(* plays, for consumeProducer refuses it.  Of every closed one that plays, *)
(* and of every answer that will make one play, it says that the event of  *)
(* its end is behind.  When nothing is on its way the two sides meet.      *)
(***************************************************************************)

\* What the tab knows of was produced: a producer that is announced is new to it.
Born == {s \in Stream : others[s] # "unborn"}
BornFits ==
    /\ held \cup played \cup pending \subseteq Born
    /\ \A p \in pulling : p.stream \in Born
    /\ \A j \in JoinId : join[j].left \cup join[j].known \subseteq Born
    /\ \A i \in DOMAIN wire : ({wire[i].of} \cup wire[i].known) \cap Stream \subseteq Born

\* The ways of a producer: fetched in this session, announced by a message, in the
\* producers that a join has or will have to ask for.
PulledNow(s) == \E p \in pulling : p.stream = s /\ p.of = generation
Announces(m, s) == (m.kind = "new" /\ m.of = s) \/ (m.kind = "joined" /\ s \in m.known)
WillAsk(c, s) == s \in c.left \/ (s \in c.known /\ c.step \in {"preparing", "queued", "asking", "producing"})

\* The event of its end is behind the i-th message.
Closing(s, i) == \E k \in DOMAIN wire : k > i /\ wire[k].kind = "closed" /\ wire[k].of = s

\* One of them is taken.
OnItsWay(s) ==
    \/ s \in played \cup pending
    \/ PulledNow(s)
    \/ \E i \in DOMAIN wire : Announces(wire[i], s)
    \/ \E j \in JoinId : Current(j) /\ WillAsk(join[j], s)

\* A loop of a join has producers only while it runs, nothing waits when the
\* transports are there, and before the participant is entered nothing comes.
JoinFits ==
    /\ \A j \in JoinId : join[j].left # {} => join[j].step \in {"queued", "existing"}
    /\ CanReceive => pending = {}
    /\ member => Entered
    /\ ~Entered => wire = <<>> /\ held = {} /\ played = {} /\ \A p \in pulling : p.of # generation
    /\ \A p \in pulling : p.of = generation \/ p.step = "decoding"

\* The answer of joinRoom is one and of this session, and the event of an end is
\* about a producer that has ended.
WireFits ==
    /\ \A i \in DOMAIN wire : wire[i].kind = "joined" => Current(wire[i].by) /\ join[wire[i].by].step = "entering"
    /\ \A i, k \in DOMAIN wire : wire[i].kind = "joined" /\ wire[k].kind = "joined" => i = k
    /\ \A i \in DOMAIN wire : wire[i].kind = "closed" => wire[i].of \notin OpenStreams

\* An answer was true when it was sent: what it grants is open, or its end is behind.
AckFits(i) ==
    wire[i].kind = "ack" =>
        IF wire[i].ok THEN wire[i].of \in OpenStreams \/ Closing(wire[i].of, i)
        ELSE wire[i].of \notin OpenStreams

\* What a participant is owed, while no command failed and no message was overtaken.
Arrives ==
    member /\ ~hitch =>
        /\ \A s \in OpenStreams : OnItsWay(s) /\ (s \in held => s \in played \/ PulledNow(s))
        /\ \A s \in played \ OpenStreams : Closing(s, 0)
        /\ \A i \in DOMAIN wire : AckFits(i)

\* All of it, inductive together with SessionInv and BornFits.
HeardInv == JoinFits /\ WireFits /\ Arrives

-----------------------------------------------------------------------------
\* A message goes to the end of the wire, ...
LEMMA WireGrows ==
  ASSUME NEW m \in Message, wire \in Seq(Message), wire' = Append(wire, m)
  PROVE  /\ DOMAIN wire' = DOMAIN wire \cup {Len(wire) + 1}
         /\ wire'[Len(wire) + 1] = m
         /\ \A i \in DOMAIN wire : i \in Nat /\ i < Len(wire) + 1 /\ wire'[i] = wire[i]
<1>1. Len(wire) \in Nat /\ DOMAIN wire = 1..Len(wire)
  BY LenProperties
<1>2. /\ wire' \in Seq(Message) /\ Len(wire') = Len(wire) + 1
      /\ \A i \in 1..Len(wire) : wire'[i] = wire[i]
      /\ wire'[Len(wire) + 1] = m
  BY AppendProperties
<1>3. DOMAIN wire' = 1..(Len(wire) + 1)
  BY <1>2, LenProperties
<1>. QED
  BY <1>1, <1>2, <1>3

\* ... and one that is heard leaves it: those behind it move up.
LEMMA WithoutOne ==
  ASSUME NEW S, NEW q \in Seq(S), NEW i \in DOMAIN q
  PROVE  LET r == SubSeq(q, 1, i - 1) \o SubSeq(q, i + 1, Len(q)) IN
         /\ \A k \in DOMAIN r : \/ k < i /\ k \in DOMAIN q /\ r[k] = q[k]
                                \/ k >= i /\ k + 1 \in DOMAIN q /\ r[k] = q[k + 1]
         /\ \A k \in DOMAIN q : k > i => k - 1 \in DOMAIN r /\ r[k - 1] = q[k]
         /\ \A k \in DOMAIN q : k \in Nat /\ k > 0
         /\ \A k \in DOMAIN r : k \in Nat /\ k > 0
<1>1. Len(q) \in Nat /\ DOMAIN q = 1..Len(q) /\ i \in 1..Len(q)
  BY LenProperties
<1> DEFINE a == SubSeq(q, 1, i - 1)
           b == SubSeq(q, i + 1, Len(q))
           n == Len(q)
           r == a \o b
<1>2. a \in Seq(S) /\ Len(a) = i - 1 /\ \A k \in 1..(i - 1) : a[k] = q[k]
  <2>1. \A k \in 1..(i - 1) : q[k] \in S
    BY <1>1, ElementOfSeq
  <2>. QED
    BY <1>1, <2>1, SubSeqProperties
<1>3. b \in Seq(S) /\ Len(b) = n - i /\ \A k \in 1..(n - i) : b[k] = q[i + 1 + k - 1]
  <2>1. \A k \in (i + 1)..n : q[k] \in S
    BY <1>1, ElementOfSeq
  <2>2. /\ b \in Seq(S)
        /\ Len(b) = IF i + 1 <= n THEN n - (i + 1) + 1 ELSE 0
        /\ \A k \in 1..(n - (i + 1) + 1) : b[k] = q[i + 1 + k - 1]
    BY <1>1, <2>1, SubSeqProperties
  <2>3. n - (i + 1) + 1 = n - i /\ (i + 1 <= n \/ n - i = 0)
    BY <1>1
  <2>. QED
    BY <1>1, <2>2, <2>3
<1> HIDE DEF a, b, n, r
<1>4. /\ r = a \o b /\ Len(r) = n - 1 /\ DOMAIN r = 1..(n - 1)
      /\ \A k \in 1..(n - 1) : r[k] = IF k < i THEN q[k] ELSE q[k + 1]
  <2>1. r = a \o b
    BY DEF r
  <2>2. /\ a \o b \in Seq(S) /\ Len(a \o b) = Len(a) + Len(b)
        /\ \A k \in 1..(Len(a) + Len(b)) : (a \o b)[k] = IF k <= Len(a) THEN a[k] ELSE b[k - Len(a)]
    BY <1>2, <1>3, ConcatProperties
  <2>3. n \in Nat /\ i \in 1..n
    BY <1>1 DEF n
  <2>4. Len(a) + Len(b) = n - 1
    BY <1>2, <1>3, <2>3
  <2>5. DOMAIN r = 1..(n - 1) /\ Len(r) = n - 1
    BY <2>1, <2>2, <2>4, LenProperties
  <2>6. ASSUME NEW k \in 1..(n - 1) PROVE r[k] = IF k < i THEN q[k] ELSE q[k + 1]
    <3>0. k \in Int /\ i \in Int /\ n \in Int /\ k >= 1 /\ k <= n - 1 /\ i >= 1 /\ i <= n
      BY <2>3
    <3>1. CASE k < i
      BY <1>2, <2>1, <2>2, <2>3, <2>4, <3>1
    <3>2. CASE k >= i
      <4> DEFINE h == k - i + 1
      <4>1. k - Len(a) = h /\ h \in 1..(n - i) /\ ~(k <= Len(a)) /\ i + 1 + h - 1 = k + 1
        BY <1>2, <3>0, <3>2
      <4> HIDE DEF h
      <4>2. r[k] = b[h]
        BY <2>1, <2>2, <2>4, <4>1
      <4>3. b[h] = q[k + 1]
        BY <1>3, <4>1
      <4>. QED
        BY <3>0, <3>2, <4>2, <4>3
    <3>. QED
      BY <3>0, <3>1, <3>2
  <2>. QED
    BY <2>1, <2>5, <2>6
<1>5. n \in Nat /\ DOMAIN q = 1..n /\ i \in 1..n
  BY <1>1 DEF n
<1>6. ASSUME NEW k \in DOMAIN r
      PROVE  /\ k \in Nat /\ k > 0
             /\ \/ k < i /\ k \in DOMAIN q /\ r[k] = q[k]
                \/ k >= i /\ k + 1 \in DOMAIN q /\ r[k] = q[k + 1]
  <2>1. k \in 1..(n - 1) /\ k \in Int /\ i \in Int /\ k >= 1 /\ k <= n - 1 /\ i <= n
    BY <1>4, <1>5
  <2>. QED
    BY <1>4, <1>5, <2>1
<1>7. ASSUME NEW k \in DOMAIN q
      PROVE  /\ k \in Nat /\ k > 0
             /\ k > i => k - 1 \in DOMAIN r /\ r[k - 1] = q[k]
  <2>1. k \in 1..n /\ k \in Int /\ i \in Int /\ i >= 1
    BY <1>5
  <2>2. CASE k > i
    <3> DEFINE h == k - 1
    <3>1. h \in 1..(n - 1) /\ ~(h < i) /\ h + 1 = k
      BY <1>5, <2>1, <2>2
    <3> HIDE DEF h
    <3>2. h \in DOMAIN r /\ r[h] = q[k]
      BY <1>4, <3>1
    <3>. QED
      BY <2>1, <3>2 DEF h
  <2>. QED
    BY <2>1, <2>2
<1>. QED
  BY <1>6, <1>7 DEF r, a, b, n

\* This is what Hear does to the wire.
LEMMA WireShrinks ==
  ASSUME NEW i \in DOMAIN wire, wire \in Seq(Message),
         wire' = SubSeq(wire, 1, i - 1) \o SubSeq(wire, i + 1, Len(wire))
  PROVE  /\ \A k \in DOMAIN wire' : \/ k < i /\ k \in DOMAIN wire /\ wire'[k] = wire[k]
                                    \/ k >= i /\ k + 1 \in DOMAIN wire /\ wire'[k] = wire[k + 1]
         /\ \A k \in DOMAIN wire : k > i => k - 1 \in DOMAIN wire' /\ wire'[k - 1] = wire[k]
         /\ \A k \in DOMAIN wire : k \in Nat /\ k > 0
         /\ \A k \in DOMAIN wire' : k \in Nat /\ k > 0
BY WithoutOne

-----------------------------------------------------------------------------
\* Steps that nobody hears of.
LEMMA HeardAside ==
  ASSUME HeardInv, UNCHANGED <<generation, join, pending, pulling, held, played, member, others, wire, hitch>>
  PROVE  HeardInv'
<1>1. (Entered <=> Entered') /\ (CanReceive <=> CanReceive') /\ OpenStreams' = OpenStreams
  BY DEF Entered, CanReceive, Current, OpenStreams
<1>2. JoinFits'
  BY <1>1 DEF HeardInv, JoinFits
<1>3. WireFits'
  BY <1>1 DEF HeardInv, WireFits, Current
<1>4. \A s : OnItsWay(s) <=> OnItsWay(s)'
  BY DEF OnItsWay, PulledNow, Current
<1>5. \A i : AckFits(i) <=> AckFits(i)'
  BY <1>1 DEF AckFits, Closing
<1>6. Arrives'
  BY <1>1, <1>4, <1>5 DEF HeardInv, Arrives, PulledNow, Closing
<1>. QED
  BY <1>2, <1>3, <1>6 DEF HeardInv

\* A session that starts has heard nothing.
LEMMA JoinRoomHeard ==
  ASSUME HeardInv, SessionInv, NEW j \in JoinId, JoinRoom(j)
  PROVE  HeardInv'
<1>0. generation \in Nat /\ generation' = generation + 1 /\ join \in [JoinId -> Join]
  BY DEF JoinRoom, SessionInv, SessionTypeOK
<1>1. \A i \in JoinId : /\ join'[i].of = IF i = j THEN generation + 1 ELSE join[i].of
                        /\ join'[i].step = IF i = j THEN "connecting" ELSE join[i].step
                        /\ join'[i].left = join[i].left
  BY <1>0 DEF JoinRoom, Join
<1>2. UNCHANGED <<pending, pulling, held, played, member, others, wire>> /\ ~InSession /\ join[j].step = "none"
  BY DEF JoinRoom, gatewayVars
<1>3. \A i \in JoinId : join[i].of \in Nat /\ join[i].of <= generation
  BY <1>0 DEF SessionInv, OwnSessions, Join
<1>4. \A i \in JoinId : Current(i)' => i = j
  BY <1>0, <1>1, <1>3 DEF Current
<1>5. ~Entered' /\ ~CanReceive' /\ ~Entered
  BY <1>1, <1>2, <1>4 DEF Entered, CanReceive, InSession
<1>6. ~member /\ wire = <<>> /\ held = {} /\ played = {}
  BY <1>5 DEF HeardInv, JoinFits
<1>7. \A p \in pulling : p.of # generation' /\ p.step = "decoding"
  <2>1. \A p \in pulling : p.of <= generation /\ p.of \in Nat /\ p.of # generation
    BY <1>2 DEF SessionInv, HeardInSession, SessionTypeOK, Pull
  <2>. QED
    BY <1>0, <2>1 DEF HeardInv, JoinFits
<1>8. JoinFits'
  <2>1. \A i \in JoinId : join'[i].left # {} => join'[i].step \in {"queued", "existing"}
    BY <1>1, <1>2 DEF HeardInv, JoinFits
  <2>. QED
    BY <1>2, <1>5, <1>6, <1>7, <2>1 DEF JoinFits
<1>9. WireFits' /\ Arrives'
  <2>1. wire' = <<>> /\ DOMAIN wire' = {} /\ ~member'
    BY <1>2, <1>6
  <2>. QED
    BY <2>1 DEF WireFits, Arrives
<1>. QED
  BY <1>8, <1>9 DEF HeardInv

\* The end of a session leaves nothing to hear.
LEMMA ClearedHeard ==
  ASSUME HeardInv, SessionInv, Cleared,
         \A i \in JoinId : /\ join'[i].of = join[i].of /\ join'[i].left = join[i].left
                           /\ \/ join'[i].step = join[i].step
                              \/ join[i].step \notin {"queued", "existing"}
  PROVE  HeardInv'
<1>0. generation \in Nat /\ generation' = generation + 1 /\ \A i \in JoinId : join[i].of \in Nat /\ join[i].of <= generation
  BY DEF Cleared, SessionInv, SessionTypeOK, OwnSessions, Join
<1>1. \A i \in JoinId : ~Current(i)'
  BY <1>0 DEF Current
<1>2. ~Entered' /\ ~CanReceive'
  BY <1>1 DEF Entered, CanReceive
<1>3. ~member' /\ wire' = <<>> /\ held' = {} /\ played' = {} /\ pending' = {} /\ DOMAIN wire' = {}
  BY DEF Cleared
<1>4. \A p \in pulling' : p.step = "decoding" /\ p.of # generation'
  <2>1. \A p \in pulling' : p \in pulling /\ p.step = "decoding"
    BY DEF Cleared
  <2>2. \A p \in pulling : p.of <= generation /\ p.of \in Nat
    BY DEF SessionInv, HeardInSession, SessionTypeOK, Pull
  <2>. QED
    BY <1>0, <2>1, <2>2
<1>5. JoinFits'
  <2>1. \A i \in JoinId : join'[i].left # {} => join'[i].step \in {"queued", "existing"}
    BY DEF HeardInv, JoinFits
  <2>. QED
    BY <1>2, <1>3, <1>4, <2>1 DEF JoinFits
<1>. QED
  BY <1>3, <1>5 DEF HeardInv, WireFits, Arrives

-----------------------------------------------------------------------------
\* A call of joinRoom that moves changes itself only.
LEMMA JoinChanges ==
  ASSUME join \in [JoinId -> Join], NEW j \in JoinId, NEW x, NEW L,
         \/ join' = [join EXCEPT ![j].step = x] /\ L = join[j].left
         \/ join' = [join EXCEPT ![j].step = x, ![j].left = L]
         \/ join' = [join EXCEPT ![j].left = L] /\ x = join[j].step
  PROVE  /\ \A i \in JoinId \ {j} : join'[i] = join[i]
         /\ join'[j].step = x /\ join'[j].left = L
         /\ join'[j].of = join[j].of /\ join'[j].known = join[j].known
<1>1. join[j] \in Join
  OBVIOUS
<1>2. CASE join' = [join EXCEPT ![j].step = x] /\ L = join[j].left
  BY <1>1, <1>2 DEF Join
<1>3. CASE join' = [join EXCEPT ![j].step = x, ![j].left = L]
  BY <1>1, <1>3 DEF Join
<1>4. CASE join' = [join EXCEPT ![j].left = L] /\ x = join[j].step
  BY <1>1, <1>4 DEF Join
<1>. QED
  BY <1>2, <1>3, <1>4

\* A step of a join that loses nothing it knows.
LEMMA JoinHeard ==
  ASSUME HeardInv, SessionInv, NEW j \in JoinId,
         UNCHANGED <<generation, held, played, member, others, wire, hitch>>,
         \A i \in JoinId \ {j} : join'[i] = join[i],
         join'[j].of = join[j].of, join[j].step # "none", join'[j].step # "none", join[j].step # "entering",
         join[j].step \in {"connecting", "joining"} <=> join'[j].step \in {"connecting", "joining"},
         join'[j].left # {} => join'[j].step \in {"queued", "existing"},
         CanReceive' => pending' = {},
         pulling \subseteq pulling',
         \A p \in pulling' : p \in pulling \/ (p.of = generation /\ Entered),
         ~Current(j) => pending' = pending,
         Current(j) => \A s \in OpenStreams :
             s \in pending \/ WillAsk(join[j], s) =>
                 \/ s \in pending' \/ WillAsk(join'[j], s) \/ PulledNow(s)'
                 \/ s \in held
  PROVE  HeardInv'
<1>1. \A i \in JoinId : Current(i)' <=> Current(i)
  BY DEF Current
<1>2. OpenStreams' = OpenStreams /\ (Entered <=> Entered')
  BY <1>1 DEF OpenStreams, Entered
<1>3. JoinFits'
  <2>1. \A i \in JoinId : join'[i].left # {} => join'[i].step \in {"queued", "existing"}
    BY DEF HeardInv, JoinFits
  <2>2. ~Entered => \A p \in pulling' : p.of # generation
    BY DEF HeardInv, JoinFits
  <2>3. \A p \in pulling' : p.of = generation \/ p.step = "decoding"
    BY DEF HeardInv, JoinFits
  <2>. QED
    BY <1>2, <2>1, <2>2, <2>3 DEF HeardInv, JoinFits
<1>4. WireFits'
  <2>1. ASSUME NEW i \in DOMAIN wire, wire[i].kind = "joined"
        PROVE  Current(wire[i].by)' /\ join'[wire[i].by].step = "entering"
    <3>0. wire[i].by \in JoinId
      BY <2>1, ElementOfSeq, LenProperties DEF SessionInv, SessionTypeOK, Message
    <3>1. PICK b \in JoinId : b = wire[i].by
      BY <3>0
    <3>2. Current(b) /\ join[b].step = "entering"
      BY <2>1, <3>1 DEF HeardInv, WireFits
    <3>3. Current(b)' /\ join'[b].step = "entering"
      BY <1>1, <3>1, <3>2
    <3>. QED
      BY <3>1, <3>3 DEF Current
  <2>. QED
    BY <1>2, <2>1 DEF HeardInv, WireFits
<1>5. \A s : PulledNow(s) => PulledNow(s)'
  BY DEF PulledNow
<1>6. ASSUME member, ~hitch PROVE Arrives'
  <2>1. ASSUME NEW s \in OpenStreams PROVE OnItsWay(s)' /\ (s \in held' => s \in played' \/ PulledNow(s)')
    <3>1. OnItsWay(s) /\ (s \in held => s \in played \/ PulledNow(s))
      BY <1>6 DEF HeardInv, Arrives
    <3>2. s \in held => s \in played' \/ PulledNow(s)'
      BY <1>5, <3>1
    <3>3. CASE s \in pending \/ \E i \in JoinId : Current(i) /\ WillAsk(join[i], s)
      <4>1. CASE ~Current(j)
        <5>1. CASE s \in pending
          BY <3>2, <4>1, <5>1 DEF OnItsWay
        <5>2. CASE \E i \in JoinId : Current(i) /\ WillAsk(join[i], s)
          <6>1. PICK i \in JoinId : Current(i) /\ WillAsk(join[i], s)
            BY <5>2
          <6>2. join'[i] = join[i] /\ Current(i)'
            BY <1>1, <4>1, <6>1
          <6>3. WillAsk(join[i], s)'
            BY <6>1, <6>2 DEF WillAsk
          <6>. QED
            BY <3>2, <6>2, <6>3 DEF OnItsWay
        <5>. QED
          BY <3>2, <3>3, <5>1, <5>2
      <4>2. CASE Current(j) /\ (s \in pending \/ WillAsk(join[j], s))
        <5>1. s \in pending' \/ WillAsk(join'[j], s) \/ PulledNow(s)' \/ s \in held
          BY <4>2
        <5>2. WillAsk(join'[j], s) => WillAsk(join[j], s)'
          BY DEF WillAsk
        <5>. QED
          BY <1>1, <3>2, <4>2, <5>1, <5>2 DEF OnItsWay
      <4>3. CASE Current(j) /\ \E i \in JoinId \ {j} : Current(i) /\ WillAsk(join[i], s)
        <5>1. PICK i \in JoinId \ {j} : Current(i) /\ WillAsk(join[i], s)
          BY <4>3
        <5>2. WillAsk(join[i], s)' /\ Current(i)'
          BY <1>1, <5>1 DEF WillAsk
        <5>. QED
          BY <3>2, <5>2 DEF OnItsWay
      <4>. QED
        BY <3>3, <4>1, <4>2, <4>3
    <3>4. CASE s \in played \/ PulledNow(s) \/ \E i \in DOMAIN wire : Announces(wire[i], s)
      <4>1. (\E i \in DOMAIN wire : Announces(wire[i], s)) => \E i \in DOMAIN wire' : Announces(wire[i], s)'
        BY DEF Announces
      <4>. QED
        BY <1>5, <3>2, <3>4, <4>1 DEF OnItsWay
    <3>. QED
      BY <3>1, <3>3, <3>4 DEF OnItsWay
  <2>2. \A s \in played \ OpenStreams : Closing(s, 0)'
    BY <1>6 DEF HeardInv, Arrives, Closing
  <2>3. \A i \in DOMAIN wire : AckFits(i)'
    BY <1>2, <1>6 DEF HeardInv, Arrives, AckFits, Closing
  <2>. QED
    BY <1>2, <2>1, <2>2, <2>3 DEF Arrives
<1>7. Arrives'
  <2>1. member' = member /\ hitch' = hitch
    OBVIOUS
  <2>2. ~member \/ hitch => Arrives'
    BY <2>1 DEF Arrives
  <2>. QED
    BY <1>6, <2>2
<1>. QED
  BY <1>3, <1>4, <1>7 DEF HeardInv

-----------------------------------------------------------------------------
\* The steps of a join.
LEMMA JoinStepsHeard ==
  ASSUME HeardInv, SessionInv, NEW j \in JoinId,
         SocketConnects(j) \/ TransportsMade(j) \/ LoopGoesOn(j) \/ MicrophoneGranted(j) \/ MicrophoneProduced(j)
  PROVE  HeardInv'
<1>0. /\ join \in [JoinId -> Join] /\ pulling \subseteq Pull /\ pending \subseteq Stream
      /\ \A i \in JoinId : join[i].left \subseteq Stream
  BY DEF SessionInv, SessionTypeOK, Join
<1>1. /\ \A i \in JoinId : join[i].left # {} => join[i].step \in {"queued", "existing"}
      /\ CanReceive => pending = {}
  BY DEF HeardInv, JoinFits
<1>2. ASSUME SocketConnects(j) PROVE HeardInv'
  <2>1. /\ join' = [join EXCEPT ![j].step = "joining"] /\ join[j].step = "connecting" /\ Current(j)
        /\ UNCHANGED <<generation, pending, pulling, held, played, member, others, wire, hitch>>
    BY <1>2 DEF SocketConnects, gatewayVars, hitchVars
  <2>2. /\ \A i \in JoinId \ {j} : join'[i] = join[i]
        /\ join'[j].step = "joining" /\ join'[j].left = join[j].left
        /\ join'[j].of = join[j].of /\ join'[j].known = join[j].known
    BY <1>0, <2>1, JoinChanges
  <2>3. CanReceive' => CanReceive
    BY <2>1, <2>2 DEF CanReceive, Current
  <2>4. \A s : WillAsk(join[j], s) => WillAsk(join'[j], s)
    BY <2>1, <2>2 DEF WillAsk
  <2>5. join'[j].left = {}
    BY <1>1, <2>1, <2>2
  <2>. QED
    BY <1>1, <2>1, <2>2, <2>3, <2>4, <2>5, JoinHeard
<1>3. ASSUME TransportsMade(j) PROVE HeardInv'
  <2>1. /\ join' = [join EXCEPT ![j].step = "queued", ![j].left = pending] /\ join[j].step = "preparing"
        /\ UNCHANGED <<generation, pulling, held, played, member, others, wire, hitch>> /\ pending' = {}
    BY <1>3 DEF TransportsMade, gatewayVars, hitchVars
  <2>2. /\ \A i \in JoinId \ {j} : join'[i] = join[i]
        /\ join'[j].step = "queued" /\ join'[j].left = pending
        /\ join'[j].of = join[j].of /\ join'[j].known = join[j].known
    BY <1>0, <2>1, JoinChanges
  <2>3. join[j].left = {}
    BY <1>1, <2>1
  <2>4. \A s : s \in pending \/ WillAsk(join[j], s) => WillAsk(join'[j], s)
    BY <2>1, <2>2, <2>3 DEF WillAsk
  <2>5. Current(j)
    BY <1>3 DEF TransportsMade
  <2>. QED
    BY <2>1, <2>2, <2>4, <2>5, JoinHeard
<1>4. ASSUME MicrophoneGranted(j) PROVE HeardInv'
  <2>1. PICK x \in {"producing", "over"} :
          /\ join' = [join EXCEPT ![j].step = x] /\ join[j].step = "asking"
          /\ Current(j) => x = "producing"
    BY <1>4 DEF MicrophoneGranted
  <2>2. UNCHANGED <<generation, pending, pulling, held, played, member, others, wire, hitch>>
    BY <1>4 DEF MicrophoneGranted, gatewayVars, hitchVars
  <2>3. /\ \A i \in JoinId \ {j} : join'[i] = join[i]
        /\ join'[j].step = x /\ join'[j].left = join[j].left
        /\ join'[j].of = join[j].of /\ join'[j].known = join[j].known
    BY <1>0, <2>1, JoinChanges
  <2>4. CanReceive' => CanReceive
    BY <2>1, <2>2, <2>3 DEF CanReceive, Current
  <2>5. Current(j) => \A s : WillAsk(join[j], s) => WillAsk(join'[j], s)
    BY <2>1, <2>3 DEF WillAsk
  <2>6. join'[j].left = {}
    BY <1>1, <2>1, <2>3
  <2>. QED
    BY <1>1, <2>1, <2>2, <2>3, <2>4, <2>5, <2>6, JoinHeard
<1>5. ASSUME MicrophoneProduced(j) PROVE HeardInv'
  <2>1. /\ join' = [join EXCEPT ![j].step = "existing", ![j].left = join[j].known] /\ join[j].step = "producing"
        /\ UNCHANGED <<generation, pending, pulling, held, played, member, others, wire, hitch>> /\ Current(j)
    BY <1>5 DEF MicrophoneProduced, gatewayVars, hitchVars
  <2>2. /\ \A i \in JoinId \ {j} : join'[i] = join[i]
        /\ join'[j].step = "existing" /\ join'[j].left = join[j].known
        /\ join'[j].of = join[j].of /\ join'[j].known = join[j].known
    BY <1>0, <2>1, JoinChanges
  <2>3. join[j].left = {} /\ CanReceive
    BY <1>1, <2>1 DEF CanReceive
  <2>4. \A s : WillAsk(join[j], s) => WillAsk(join'[j], s)
    BY <2>1, <2>2, <2>3 DEF WillAsk
  <2>. QED
    BY <1>1, <2>1, <2>2, <2>3, <2>4, JoinHeard
<1>6. ASSUME LoopGoesOn(j) PROVE HeardInv'
  <2>1. /\ UNCHANGED <<generation, pending, held, played, member, others, wire, hitch>>
        /\ join[j].step \in {"queued", "existing"}
    BY <1>6 DEF LoopGoesOn, Between, gatewayVars, hitchVars
  <2>2. Current(j) => CanReceive
    BY <2>1 DEF CanReceive
  <2>3. ASSUME NEW s \in join[j].left, pulling' = Started(s, j), join' = [join EXCEPT ![j].left = @ \ {s}]
        PROVE  HeardInv'
    <3>1. /\ \A i \in JoinId \ {j} : join'[i] = join[i]
          /\ join'[j].step = join[j].step /\ join'[j].left = join[j].left \ {s}
          /\ join'[j].of = join[j].of /\ join'[j].known = join[j].known
      BY <1>0, <2>3, JoinChanges
    <3>2. CanReceive' <=> CanReceive
      BY <2>1, <3>1 DEF CanReceive, Current
    <3>3. pulling \subseteq pulling' /\ \A p \in pulling' : p \in pulling \/ (p.of = generation /\ CanReceive)
      BY <2>3 DEF Started
    <3>4. CanReceive => Entered
      BY DEF CanReceive, Entered
    <3>5. CanReceive /\ s \notin held => PulledNow(s)'
      <4> SUFFICES ASSUME CanReceive, s \notin held PROVE PulledNow(s)'
        OBVIOUS
      <4>1. PICK p : p \in pulling' /\ p = [stream |-> s, of |-> generation, by |-> j, step |-> "consume"]
        BY <2>3 DEF Started
      <4>2. p.stream = s /\ p.of = generation'
        BY <2>1, <4>1
      <4>. QED
        BY <4>1, <4>2 DEF PulledNow
    <3>6. ASSUME Current(j), NEW t, WillAsk(join[j], t)
          PROVE  WillAsk(join'[j], t) \/ PulledNow(t)' \/ t \in held
      BY <2>2, <3>1, <3>5, <3>6 DEF WillAsk
    <3>. QED
      BY <1>1, <2>1, <3>1, <3>2, <3>3, <3>4, <3>6, JoinHeard
  <2>4. ASSUME NEW x, join[j].left = {}, join' = [join EXCEPT ![j].step = x], pulling' = pulling,
               \/ x = "asking" /\ join[j].step = "queued"
               \/ x = "done" /\ join[j].step = "existing"
               \/ x = "over" /\ ~Current(j)
        PROVE  HeardInv'
    <3>1. /\ \A i \in JoinId \ {j} : join'[i] = join[i]
          /\ join'[j].step = x /\ join'[j].left = {}
          /\ join'[j].of = join[j].of /\ join'[j].known = join[j].known
      BY <1>0, <2>4, JoinChanges
    <3>2. CanReceive' => CanReceive
      BY <2>1, <2>4, <3>1 DEF CanReceive, Current
    <3>3. ASSUME Current(j), NEW t, WillAsk(join[j], t) PROVE WillAsk(join'[j], t)
      BY <2>4, <3>1, <3>3 DEF WillAsk
    <3>4. x # "none" /\ x \notin {"connecting", "joining"}
      BY <2>4
    <3>. QED
      BY <1>1, <2>1, <2>4, <3>1, <3>2, <3>3, <3>4, JoinHeard
  <2>5. \/ \E s \in join[j].left : pulling' = Started(s, j) /\ join' = [join EXCEPT ![j].left = @ \ {s}]
        \/ /\ join[j].left = {} /\ pulling' = pulling
           /\ \E x : /\ join' = [join EXCEPT ![j].step = x]
                     /\ \/ x = "asking" /\ join[j].step = "queued"
                        \/ x = "done" /\ join[j].step = "existing"
                        \/ x = "over" /\ ~Current(j)
    <3>1. CASE join[j].left = {}
      BY <1>6, <2>1, <3>1 DEF LoopGoesOn
    <3>2. CASE join[j].left # {}
      BY <1>6, <3>2 DEF LoopGoesOn
    <3>. QED
      BY <3>1, <3>2
  <2>. QED
    BY <2>3, <2>4, <2>5
<1>. QED
  BY <1>2, <1>3, <1>4, <1>5, <1>6

-----------------------------------------------------------------------------
\* The participant who is entered is told all there is.
LEMMA EnterHeard ==
  ASSUME HeardInv, SessionInv, NEW j \in JoinId, GatewayJoins(j)
  PROVE  HeardInv'
<1> DEFINE m == [Note("joined", NoTrack) EXCEPT !.by = j, !.known = OpenStreams]
<1>0. /\ join \in [JoinId -> Join] /\ wire \in Seq(Message)
      /\ Current(j) /\ join[j].step = "joining" /\ join' = [join EXCEPT ![j].step = "entering"]
      /\ UNCHANGED <<generation, pending, pulling, held, played, others, hitch>> /\ member' = TRUE
      /\ wire' = Append(wire, m)
  BY DEF SessionInv, SessionTypeOK, GatewayJoins, hitchVars
<1>1. m \in Message /\ m.kind = "joined" /\ m.by = j /\ m.known = OpenStreams
  BY DEF Note, Message, OpenStreams
<1> HIDE DEF m
<1>2. /\ \A i \in JoinId \ {j} : join'[i] = join[i]
      /\ join'[j].step = "entering" /\ join'[j].left = join[j].left
      /\ join'[j].of = join[j].of /\ join'[j].known = join[j].known
  BY <1>0, JoinChanges
<1>3. ~Entered
  BY <1>0, OneSession DEF Entered
<1>4. wire = <<>> /\ held = {} /\ played = {} /\ (\A p \in pulling : p.of # generation) /\ ~member
  BY <1>3 DEF HeardInv, JoinFits
<1>5. DOMAIN wire' = {1} /\ wire'[1] = m
  BY <1>0, <1>4
<1>6. Entered' /\ (CanReceive' => CanReceive) /\ OpenStreams' = OpenStreams /\ Current(j)'
  BY <1>0, <1>2 DEF Entered, CanReceive, Current, OpenStreams
<1>7. JoinFits'
  <2>1. \A i \in JoinId : join'[i].left # {} => join'[i].step \in {"queued", "existing"}
    BY <1>0, <1>2 DEF HeardInv, JoinFits
  <2>. QED
    BY <1>0, <1>6, <2>1 DEF HeardInv, JoinFits
<1>8. WireFits'
  BY <1>1, <1>2, <1>5, <1>6 DEF WireFits
<1>9. Arrives'
  <2>1. \A s \in OpenStreams : OnItsWay(s)'
    <3> SUFFICES ASSUME NEW s \in OpenStreams PROVE OnItsWay(s)'
      OBVIOUS
    <3>1. Announces(wire'[1], s)
      BY <1>1, <1>5 DEF Announces
    <3>2. \E i \in DOMAIN wire' : Announces(wire'[i], s)
      BY <1>5, <3>1
    <3>. QED
      BY <3>2 DEF OnItsWay, Announces
  <2>2. \A i \in DOMAIN wire' : AckFits(i)'
    BY <1>1, <1>5 DEF AckFits
  <2>. QED
    BY <1>0, <1>4, <1>6, <2>1, <2>2 DEF Arrives
<1>. QED
  BY <1>7, <1>8, <1>9 DEF HeardInv

-----------------------------------------------------------------------------
\* The gateway sends a message, or has nobody to send it to.
LEMMA SentHeard ==
  ASSUME HeardInv, BornFits, SessionInv, NEW m \in Message,
         wire' = Append(wire, m) \/ (wire' = wire /\ ~member'),
         Entered \/ (wire' = wire /\ pulling' = pulling),
         UNCHANGED <<generation, join, pending, held, played, hitch>>,
         member' => member,
         \A s \in Born : s \in OpenStreams' => s \in OpenStreams,
         \A s \in OpenStreams \ OpenStreams' : m.kind = "closed" /\ m.of = s,
         \A s \in OpenStreams' \ OpenStreams : Announces(m, s),
         m.kind # "joined", m.kind = "closed" => m.of \notin OpenStreams',
         member' /\ m.kind = "ack" => (m.ok <=> m.of \in OpenStreams'),
         \A s : PulledNow(s) => PulledNow(s)',
         \A p \in pulling' : p.of = generation \/ (p.step = "decoding" /\ p \in pulling)
  PROVE  HeardInv'
<1> DEFINE n == Len(wire) + 1
<1>0. wire \in Seq(Message) /\ \A i \in DOMAIN wire : wire[i] \in Message
  BY ElementOfSeq, LenProperties DEF SessionInv, SessionTypeOK
<1>1. CASE wire' = Append(wire, m)
  <2>1. /\ DOMAIN wire' = DOMAIN wire \cup {n} /\ wire'[n] = m /\ n > 0
        /\ \A i \in DOMAIN wire : i \in Nat /\ i < n /\ wire'[i] = wire[i]
    BY <1>0, <1>1, WireGrows, LenProperties
  <2> HIDE DEF n
  <2>2. (Entered <=> Entered') /\ (CanReceive <=> CanReceive')
    BY DEF Entered, CanReceive, Current
  <2>3. JoinFits'
    BY <2>2, <1>1 DEF HeardInv, JoinFits
  <2>4. \A i \in DOMAIN wire : wire[i].of \in Stream => wire[i].of \in Born
    BY DEF BornFits
  <2>5. WireFits'
    <3>1. ASSUME NEW i \in DOMAIN wire', wire'[i].kind = "joined"
          PROVE  i \in DOMAIN wire /\ Current(wire[i].by)' /\ join'[wire[i].by].step = "entering"
      <4>1. i \in DOMAIN wire /\ wire[i].kind = "joined"
        BY <2>1, <3>1
      <4>2. Current(wire[i].by) /\ join[wire[i].by].step = "entering"
        BY <4>1 DEF HeardInv, WireFits
      <4>. QED
        BY <2>1, <4>1, <4>2 DEF Current
    <3>2. ASSUME NEW i \in DOMAIN wire', wire'[i].kind = "closed" PROVE wire'[i].of \notin OpenStreams'
      <4>1. CASE i \in DOMAIN wire
        <5>1. wire[i].of \notin OpenStreams /\ wire'[i].of = wire[i].of
          BY <2>1, <3>2, <4>1 DEF HeardInv, WireFits
        <5>2. OpenStreams' \subseteq Stream
          BY DEF OpenStreams
        <5>. QED
          BY <2>4, <4>1, <5>1, <5>2
      <4>2. CASE i = n
        BY <2>1, <3>2, <4>2
      <4>. QED
        BY <2>1, <4>1, <4>2
    <3>3. ASSUME NEW i \in DOMAIN wire', wire'[i].kind = "joined", NEW k \in DOMAIN wire', wire'[k].kind = "joined"
          PROVE  i = k
      <4>1. i \in DOMAIN wire /\ k \in DOMAIN wire /\ wire[i].kind = "joined" /\ wire[k].kind = "joined"
        BY <2>1, <3>3
      <4>. QED
        BY <4>1 DEF HeardInv, WireFits
    <3>4. ASSUME NEW i \in DOMAIN wire', wire'[i].kind = "joined"
          PROVE  Current(wire[i].by)' /\ join'[wire'[i].by].step = "entering"
      BY <2>1, <3>1, <3>4
    <3>. QED
      BY <3>2, <3>3, <3>4 DEF WireFits
  <2>6. ASSUME member', ~hitch PROVE Arrives'
    <3>0. member /\ Arrives
      BY <2>6 DEF HeardInv
    <3>1. ASSUME NEW s \in OpenStreams' PROVE OnItsWay(s)' /\ (s \in held' => s \in played' \/ PulledNow(s)')
      <4>1. s \in Stream
        BY DEF OpenStreams
      <4>2. s \in held => s \in OpenStreams
        BY DEF BornFits
      <4>3. s \in held' => s \in played' \/ PulledNow(s)'
        BY <2>6, <3>0, <4>2 DEF Arrives
      <4>4. CASE s \in OpenStreams
        <5>1. OnItsWay(s)
          BY <2>6, <3>0, <4>4 DEF Arrives
        <5>2. (\E i \in DOMAIN wire : Announces(wire[i], s)) => \E i \in DOMAIN wire' : Announces(wire'[i], s)
          BY <2>1
        <5>3. (\E i \in JoinId : Current(i) /\ WillAsk(join[i], s)) => (\E i \in JoinId : Current(i) /\ WillAsk(join[i], s))'
          BY DEF Current, WillAsk
        <5>4. (\E i \in DOMAIN wire' : Announces(wire'[i], s)) => (\E i \in DOMAIN wire : Announces(wire[i], s))'
          BY DEF Announces
        <5>. QED
          BY <4>3, <5>1, <5>2, <5>3, <5>4 DEF OnItsWay
      <4>5. CASE s \notin OpenStreams
        <5>1. Announces(wire'[n], s) /\ n \in DOMAIN wire'
          BY <2>1, <4>5
        <5>. QED
          BY <4>3, <5>1 DEF OnItsWay, Announces
      <4>. QED
        BY <4>4, <4>5
    <3>2. ASSUME NEW s \in played \ OpenStreams' PROVE Closing(s, 0)'
      <4>1. CASE s \in OpenStreams
        BY <2>1, <4>1, <3>2 DEF Closing
      <4>2. CASE s \notin OpenStreams
        BY <2>1, <2>6, <3>0, <3>2, <4>2 DEF Arrives, Closing
      <4>. QED
        BY <4>1, <4>2
    <3>3. ASSUME NEW i \in DOMAIN wire' PROVE AckFits(i)'
      <4>1. CASE i = n
        BY <2>1, <2>6, <4>1 DEF AckFits
      <4>2. CASE i \in DOMAIN wire
        <5> SUFFICES ASSUME wire[i].kind = "ack" PROVE AckFits(i)'
          BY <2>1, <4>2 DEF AckFits
        <5>0. PICK s \in Stream : s = wire[i].of
          BY <1>0, <4>2 DEF Message
        <5>1. wire'[i] = wire[i] /\ i < n /\ s \in Born /\ AckFits(i)
          BY <2>1, <2>4, <2>6, <3>0, <4>2, <5>0 DEF Arrives
        <5>2. Closing(s, i) => Closing(s, i)'
          BY <2>1 DEF Closing
        <5>3. s \in OpenStreams /\ s \notin OpenStreams' => Closing(s, i)'
          BY <2>1, <5>1 DEF Closing
        <5>4. CASE wire[i].ok
          <6>1. s \in OpenStreams' \/ Closing(s, i)'
            BY <5>0, <5>1, <5>2, <5>3, <5>4 DEF AckFits
          <6>. QED
            BY <5>0, <5>1, <5>4, <6>1 DEF AckFits, Closing
        <5>5. CASE ~wire[i].ok
          <6>1. s \notin OpenStreams'
            BY <5>0, <5>1, <5>5 DEF AckFits
          <6>. QED
            BY <5>0, <5>1, <5>5, <6>1 DEF AckFits
        <5>. QED
          BY <5>4, <5>5
      <4>. QED
        BY <2>1, <4>1, <4>2
    <3>. QED
      BY <3>1, <3>2, <3>3 DEF Arrives
  <2>7. ~member' \/ hitch => Arrives'
    BY DEF Arrives
  <2>. QED
    BY <2>3, <2>5, <2>6, <2>7 DEF HeardInv
<1>2. CASE wire' = wire /\ ~member'
  <2>1. (Entered <=> Entered') /\ (CanReceive <=> CanReceive')
    BY DEF Entered, CanReceive, Current
  <2>2. JoinFits'
    BY <1>2, <2>1 DEF HeardInv, JoinFits
  <2>3. WireFits'
    <3>1. ASSUME NEW i \in DOMAIN wire, wire[i].kind = "closed" PROVE wire[i].of \notin OpenStreams'
      <4>1. wire[i].of \notin OpenStreams
        BY <3>1 DEF HeardInv, WireFits
      <4>2. OpenStreams' \subseteq Stream
        BY DEF OpenStreams
      <4>. QED
        BY <4>1, <4>2 DEF BornFits
    <3>. QED
      BY <1>2, <3>1 DEF HeardInv, WireFits, Current
  <2>. QED
    BY <1>2, <2>2, <2>3 DEF HeardInv, Arrives
<1>. QED
  BY <1>1, <1>2

-----------------------------------------------------------------------------
\* The events of the others, and of this user's screen.
LEMMA EventsHeard ==
  ASSUME HeardInv, BornFits, SessionInv,
         \/ \E s \in Stream : StreamOpens(s) \/ StreamCloses(s)
         \/ \E g \in Share : GatewayStops(g)
         \/ GatewayRemoves
  PROVE  HeardInv'
<1>0. member => Entered
  BY DEF HeardInv, JoinFits
<1>1. \A p \in pulling : p.of = generation \/ p.step = "decoding"
  BY DEF HeardInv, JoinFits
<1>2. ASSUME NEW s \in Stream, StreamOpens(s) PROVE HeardInv'
  <2>1. /\ UNCHANGED <<generation, join, pending, pulling, held, played, hitch, member>>
        /\ wire' = Told("new", s) /\ others[s] = "unborn" /\ others' = [others EXCEPT ![s] = "open"]
    BY <1>2 DEF StreamOpens, tabVars, hitchVars
  <2>2. others \in [Stream -> {"unborn", "open", "closed"}]
    BY DEF SessionInv, SessionTypeOK
  <2>3. OpenStreams' = OpenStreams \cup {s} /\ s \notin Born
    BY <2>1, <2>2 DEF OpenStreams, Born
  <2>4. Note("new", s) \in Message /\ Note("new", s).kind = "new" /\ Announces(Note("new", s), s)
    BY NotesAreMessages DEF Note, Announces
  <2>5. wire' = Append(wire, Note("new", s)) \/ (wire' = wire /\ ~member')
    BY <2>1 DEF Told
  <2>6. Entered \/ (wire' = wire /\ pulling' = pulling)
    BY <1>0, <2>1 DEF Told
  <2>7. \A t : PulledNow(t) => PulledNow(t)'
    BY <2>1 DEF PulledNow
  <2> DEFINE m == Note("new", s)
  <2> HIDE DEF m
  <2>8. /\ m \in Message /\ m.kind = "new" /\ Announces(m, s)
        /\ wire' = Append(wire, m) \/ (wire' = wire /\ ~member')
    BY <2>4, <2>5 DEF m
  <2>. QED
    BY <1>1, <2>1, <2>3, <2>6, <2>7, <2>8, SentHeard
<1>3. ASSUME NEW s \in Stream, StreamCloses(s) PROVE HeardInv'
  <2>1. /\ UNCHANGED <<generation, join, pending, pulling, held, played, hitch, member>>
        /\ wire' = Told("closed", s) /\ others[s] = "open" /\ others' = [others EXCEPT ![s] = "closed"]
    BY <1>3 DEF StreamCloses, tabVars, hitchVars
  <2>2. others \in [Stream -> {"unborn", "open", "closed"}]
    BY DEF SessionInv, SessionTypeOK
  <2>3. OpenStreams' = OpenStreams \ {s}
    BY <2>1, <2>2 DEF OpenStreams
  <2>4. Note("closed", s) \in Message /\ Note("closed", s).kind = "closed" /\ Note("closed", s).of = s
    BY NotesAreMessages DEF Note
  <2>5. wire' = Append(wire, Note("closed", s)) \/ (wire' = wire /\ ~member')
    BY <2>1 DEF Told
  <2>6. Entered \/ (wire' = wire /\ pulling' = pulling)
    BY <1>0, <2>1 DEF Told
  <2>7. \A t : PulledNow(t) => PulledNow(t)'
    BY <2>1 DEF PulledNow
  <2> DEFINE m == Note("closed", s)
  <2> HIDE DEF m
  <2>8. /\ m \in Message /\ m.kind = "closed" /\ m.of = s
        /\ wire' = Append(wire, m) \/ (wire' = wire /\ ~member')
    BY <2>4, <2>5 DEF m
  <2>. QED
    BY <1>1, <2>1, <2>3, <2>6, <2>7, <2>8, SentHeard
<1>4. ASSUME NEW g \in Share, UNCHANGED <<generation, join, pending, pulling, held, played, hitch, others>>,
             member' => member, Entered,
             wire' = Append(wire, Note("closed", g)) \/ (wire' = wire /\ ~member')
      PROVE  HeardInv'
  <2>1. Note("closed", g) \in Message /\ Note("closed", g).kind = "closed" /\ Note("closed", g).of = g
    BY NotesAreMessages DEF Note
  <2>2. OpenStreams' = OpenStreams /\ g \notin OpenStreams'
    BY <1>4, SessionAssumption DEF OpenStreams
  <2>3. \A t : PulledNow(t) => PulledNow(t)'
    BY <1>4 DEF PulledNow
  <2> DEFINE m == Note("closed", g)
  <2> HIDE DEF m
  <2>4. /\ m \in Message /\ m.kind = "closed" /\ m.of = g
        /\ wire' = Append(wire, m) \/ (wire' = wire /\ ~member')
    BY <1>4, <2>1 DEF m
  <2>. QED
    BY <1>1, <1>4, <2>2, <2>3, <2>4, SentHeard
<1>5. ASSUME NEW g \in Share, GatewayStops(g) PROVE HeardInv'
  <2>1. UNCHANGED <<generation, join, pending, pulling, held, played, hitch, others, member>>
    BY <1>5 DEF GatewayStops, tabVars, hitchVars
  <2>2. CASE wire' = wire
    BY <2>1, <2>2, HeardAside
  <2>3. CASE wire' # wire
    <3>1. wire' = Append(wire, Note("closed", g)) /\ member
      BY <1>5, <2>3 DEF GatewayStops, Told
    <3>. QED
      BY <1>0, <1>4, <2>1, <3>1
  <2>. QED
    BY <2>2, <2>3
<1>6. ASSUME GatewayRemoves PROVE HeardInv'
  <2>1. UNCHANGED <<generation, join, pending, pulling, held, played, hitch, others>> /\ member /\ ~member'
    BY <1>6 DEF GatewayRemoves, tabVars, hitchVars
  <2>2. CASE serverScreen = NoTrack
    <3>1. wire' = wire
      BY <1>6, <2>2 DEF GatewayRemoves
    <3>3. JoinFits' /\ WireFits'
      <4>1. (Entered <=> Entered') /\ (CanReceive <=> CanReceive') /\ OpenStreams' = OpenStreams
        BY <2>1 DEF Entered, CanReceive, Current, OpenStreams
      <4>2. JoinFits'
        BY <2>1, <3>1, <4>1 DEF HeardInv, JoinFits
      <4>. QED
        BY <2>1, <3>1, <4>1, <4>2 DEF HeardInv, WireFits, Current
    <3>. QED
      BY <2>1, <3>3 DEF HeardInv, Arrives
  <2>3. CASE serverScreen # NoTrack
    <3>1. PICK g \in Share : g = serverScreen
      BY <2>3 DEF SessionInv, SessionTypeOK
    <3>2. wire' = Append(wire, Note("closed", g))
      BY <1>6, <2>1, <2>3, <3>1 DEF GatewayRemoves, Told
    <3>. QED
      BY <1>0, <1>4, <2>1, <3>2
  <2>. QED
    BY <2>2, <2>3
<1>. QED
  BY <1>2, <1>3, <1>5, <1>6

\* The calls of consumeProducer.
LEMMA PullsHeard ==
  ASSUME HeardInv, BornFits, SessionInv, NEW p \in pulling,
         GatewayAnswers(p) \/ ConsumerMade(p) \/ PullFails(p)
  PROVE  HeardInv'
<1>0. /\ p \in Pull /\ p.stream \in Born /\ p.stream \in Stream
      /\ \A q \in pulling : q.of = generation \/ q.step = "decoding"
      /\ ~Entered => \A q \in pulling : q.of # generation
  BY DEF SessionInv, SessionTypeOK, BornFits, HeardInv, JoinFits, Born
<1>1. ASSUME NEW x \in {"consumed", "resume", "resumed"}, Moves(p, x), p.of = generation, generation' = generation
      PROVE  /\ \A s : PulledNow(s) => PulledNow(s)'
             /\ PulledNow(p.stream)'
             /\ \A q \in pulling' : q.of = generation \/ (q.step = "decoding" /\ q \in pulling)
  <2> DEFINE r == [p EXCEPT !.step = x]
  <2>1. r.stream = p.stream /\ r.of = p.of /\ r \in pulling' /\ \A q \in pulling : q = p \/ q \in pulling'
    BY <1>0, <1>1 DEF Moves, Pull
  <2>2. \A q \in pulling' : q = r \/ q \in pulling
    BY <1>1 DEF Moves
  <2> HIDE DEF r
  <2>. QED
    BY <1>0, <1>1, <2>1, <2>2 DEF PulledNow
<1>2. ASSUME GatewayAnswers(p) PROVE HeardInv'
  <2>1. /\ UNCHANGED <<generation, join, pending, held, played, hitch, member, others>>
        /\ p.step \in {"consume", "resume"}
        /\ wire' = Append(wire, AckOf(p, member /\ others[p.stream] = "open"))
        /\ \E x \in {"consumed", "resumed"} : Moves(p, x)
    BY <1>2 DEF GatewayAnswers, hitchVars
  <2>2. p.of = generation /\ Entered
    BY <1>0, <2>1
  <2> DEFINE b == member /\ others[p.stream] = "open"
             m == AckOf(p, b)
  <2>3. b \in BOOLEAN /\ m \in Message /\ m.kind = "ack" /\ m.of = p.stream /\ m.ok = b
    BY <1>0 DEF AckOf, Message, Pull, SessionInv, SessionTypeOK
  <2>4. OpenStreams' = OpenStreams
    BY <2>1 DEF OpenStreams
  <2>5. wire' = Append(wire, m) /\ (member => (b <=> p.stream \in OpenStreams'))
    BY <1>0, <2>1, <2>4 DEF OpenStreams
  <2> HIDE DEF b, m
  <2>. QED
    BY <1>1, <2>1, <2>2, <2>3, <2>4, <2>5, SentHeard
<1>3. ASSUME UNCHANGED <<generation, join, pending, played, member, others, wire>>,
             UNCHANGED hitch,
             held' = held \/ (held' = held \cup {p.stream} /\ PulledNow(p.stream)' /\ Entered),
             \A s : PulledNow(s) => PulledNow(s)',
             \A q \in pulling' : q.of = generation \/ q.step = "decoding",
             ~Entered => \A q \in pulling' : q.of # generation
      PROVE  HeardInv'
  <2>1. (Entered <=> Entered') /\ (CanReceive <=> CanReceive') /\ OpenStreams' = OpenStreams
    BY <1>3 DEF Entered, CanReceive, Current, OpenStreams
  <2>2. JoinFits'
    BY <1>3, <2>1 DEF HeardInv, JoinFits
  <2>3. WireFits'
    BY <1>3, <2>1 DEF HeardInv, WireFits, Current
  <2>4. \A s : OnItsWay(s) => OnItsWay(s)'
    BY <1>3 DEF OnItsWay, Current
  <2>5. \A i : AckFits(i) <=> AckFits(i)'
    BY <1>3, <2>1 DEF AckFits, Closing
  <2>6. Arrives'
    BY <1>3, <2>1, <2>4, <2>5 DEF HeardInv, Arrives, Closing
  <2>. QED
    BY <2>2, <2>3, <2>6 DEF HeardInv
<1>4. ASSUME Ends(p), p.of # generation, generation' = generation
      PROVE  /\ \A s : PulledNow(s) => PulledNow(s)'
             /\ \A q \in pulling' : q.of = generation \/ q.step = "decoding"
             /\ ~Entered => \A q \in pulling' : q.of # generation
  BY <1>0, <1>4 DEF Ends, PulledNow
<1>5. ASSUME ConsumerMade(p) PROVE HeardInv'
  <2>1. UNCHANGED <<generation, join, pending, played, member, others, wire, hitch>>
    BY <1>5 DEF ConsumerMade, gatewayVars, hitchVars
  <2>2. CASE p.of = generation
    <3>1. held' = held \cup {p.stream} /\ Moves(p, "resume") /\ Entered
      BY <1>0, <1>5, <2>2 DEF ConsumerMade
    <3>. QED
      BY <1>1, <1>3, <2>1, <2>2, <3>1
  <2>3. CASE p.of # generation
    BY <1>3, <1>4, <1>5, <2>1, <2>3 DEF ConsumerMade
  <2>. QED
    BY <2>2, <2>3
<1>6. ASSUME PullFails(p) PROVE HeardInv'
  <2>1. UNCHANGED <<generation, join, pending, held, played, member, others, wire>> /\ Ends(p)
    BY <1>6 DEF PullFails, gatewayVars
  <2>2. CASE p.of # generation
    BY <1>3, <1>4, <1>6, <2>1, <2>2 DEF PullFails, hitchVars
  <2>3. CASE p.of = generation
    <3>1. hitch' = TRUE
      BY <1>6, <2>3 DEF PullFails
    <3>2. (Entered <=> Entered') /\ (CanReceive <=> CanReceive') /\ OpenStreams' = OpenStreams /\ pulling' \subseteq pulling
      BY <2>1 DEF Entered, CanReceive, Current, OpenStreams, Ends
    <3>3. JoinFits'
      BY <2>1, <3>2 DEF HeardInv, JoinFits
    <3>4. WireFits'
      BY <2>1, <3>2 DEF HeardInv, WireFits, Current
    <3>. QED
      BY <3>1, <3>3, <3>4 DEF HeardInv, Arrives
  <2>. QED
    BY <2>2, <2>3
<1>. QED
  BY <1>2, <1>5, <1>6

-----------------------------------------------------------------------------
\* What a message leaves behind when the tab has heard it.
LEMMA GoneHeard ==
  ASSUME HeardInv, SessionInv, NEW i \in DOMAIN wire, Hear(i), JoinFits',
         \A k \in DOMAIN wire, b \in JoinId : k # i /\ wire[k].kind = "joined" /\ wire[k].by = b =>
             Current(b)' /\ join'[b].step = "entering",
         member /\ ~hitch => \A s \in OpenStreams :
             s \in played \cup pending \/ PulledNow(s) \/ Announces(wire[i], s)
                 \/ (\E j \in JoinId : Current(j) /\ WillAsk(join[j], s)) =>
             s \in played' \cup pending' \/ PulledNow(s)' \/ \E j \in JoinId : Current(j)' /\ WillAsk(join'[j], s),
         member /\ ~hitch => \A s \in OpenStreams : s \in held' => s \in played' \/ PulledNow(s)',
         member /\ ~hitch => \A s \in played' \ OpenStreams : \E k \in DOMAIN wire : k # i /\ wire[k].kind = "closed" /\ wire[k].of = s
  PROVE  HeardInv'
<1>1. /\ \A k \in DOMAIN wire' : \/ k < i /\ k \in DOMAIN wire /\ wire'[k] = wire[k]
                                 \/ k >= i /\ k + 1 \in DOMAIN wire /\ wire'[k] = wire[k + 1]
      /\ \A k \in DOMAIN wire : k > i => k - 1 \in DOMAIN wire' /\ wire'[k - 1] = wire[k]
      /\ \A k \in DOMAIN wire : k \in Nat /\ k > 0
      /\ \A k \in DOMAIN wire' : k \in Nat /\ k > 0
  BY WireShrinks DEF Hear, SessionInv, SessionTypeOK
<1>2. UNCHANGED <<generation, member, others>> /\ (hitch' = TRUE \/ (i = 1 /\ hitch' = hitch))
  <2>1. UNCHANGED <<member, others>> /\ (hitch' = TRUE \/ (i = 1 /\ hitch' = hitch))
    BY DEF Hear, hitchVars
  <2>2. wire[i] \in Message
    BY ElementOfSeq, LenProperties DEF SessionInv, SessionTypeOK
  <2>3. wire[i].kind \in {"new", "closed", "joined", "ack"}
    BY <2>2 DEF Message
  <2>4. generation' = generation
    BY <2>3 DEF Hear, HearNew, HearClosed, HearJoined, HearAck
  <2>. QED
    BY <2>1, <2>4
<1>3. OpenStreams' = OpenStreams
  BY <1>2 DEF OpenStreams
\* Every message there is was there, at a place of its own.
<1>4. ASSUME NEW k \in DOMAIN wire'
      PROVE  \E n \in DOMAIN wire : n # i /\ wire'[k] = wire[n]
  BY <1>1
<1>5. WireFits'
  <2>1. ASSUME NEW k \in DOMAIN wire', wire'[k].kind = "joined"
        PROVE  (Current(wire[k].by) /\ join[wire[k].by].step = "entering")'
    <3>1. PICK n \in DOMAIN wire : n # i /\ wire'[k] = wire[n]
      BY <1>4
    <3>2. wire[n] \in Message /\ wire[n].kind = "joined"
      BY <2>1, <3>1, ElementOfSeq, LenProperties DEF SessionInv, SessionTypeOK
    <3>3. PICK b \in JoinId : b = wire[n].by
      BY <3>2 DEF Message
    <3>4. Current(b)' /\ join'[b].step = "entering"
      BY <3>1, <3>2, <3>3
    <3>5. wire'[k].by = b
      BY <3>1, <3>3
    <3>. QED
      BY <3>4, <3>5 DEF Current
  <2>2. ASSUME NEW k \in DOMAIN wire', wire'[k].kind = "closed" PROVE wire'[k].of \notin OpenStreams'
    BY <1>3, <1>4, <2>2 DEF HeardInv, WireFits
  <2>3. ASSUME NEW k \in DOMAIN wire', NEW n \in DOMAIN wire', wire'[k].kind = "joined", wire'[n].kind = "joined"
        PROVE  k = n
    <3>1. \A a, b \in DOMAIN wire : wire[a].kind = "joined" /\ wire[b].kind = "joined" => a = b
      BY DEF HeardInv, WireFits
    <3>. QED
      BY <1>1, <2>3, <3>1
  <2>. QED
    BY <2>1, <2>2, <2>3 DEF WireFits
<1>6. ASSUME member, ~hitch, i = 1, ~hitch' PROVE Arrives'
  <2>0. Arrives
    BY DEF HeardInv
  <2>1. \A k \in DOMAIN wire : k # i => k - 1 \in DOMAIN wire' /\ wire'[k - 1] = wire[k]
    BY <1>1, <1>6
  <2>2. ASSUME NEW s \in OpenStreams PROVE OnItsWay(s)'
    <3>1. OnItsWay(s)
      BY <1>6, <2>0 DEF Arrives
    <3>2. CASE \E k \in DOMAIN wire : k # i /\ Announces(wire[k], s)
      <4>1. \E k \in DOMAIN wire' : Announces(wire'[k], s)
        BY <2>1, <3>2
      <4>. QED
        BY <4>1 DEF OnItsWay, Announces
    <3>3. CASE s \in played \cup pending \/ PulledNow(s) \/ Announces(wire[i], s)
                 \/ (\E j \in JoinId : Current(j) /\ WillAsk(join[j], s))
      <4>1. s \in played' \cup pending' \/ PulledNow(s)' \/ \E j \in JoinId : Current(j)' /\ WillAsk(join'[j], s)
        BY <1>6, <3>3
      <4>2. (\E j \in JoinId : Current(j)' /\ WillAsk(join'[j], s)) => (\E j \in JoinId : Current(j) /\ WillAsk(join[j], s))'
        BY DEF WillAsk
      <4>. QED
        BY <4>1, <4>2 DEF OnItsWay
    <3>. QED
      BY <3>1, <3>2, <3>3 DEF OnItsWay
  <2>3. ASSUME NEW s \in played' \ OpenStreams PROVE Closing(s, 0)'
    <3>1. PICK k \in DOMAIN wire : k # i /\ wire[k].kind = "closed" /\ wire[k].of = s
      BY <1>6
    <3>2. k - 1 \in DOMAIN wire' /\ wire'[k - 1] = wire[k]
      BY <2>1, <3>1
    <3>3. k - 1 > 0
      BY <1>1, <3>2
    <3>. QED
      BY <3>1, <3>2, <3>3 DEF Closing
  <2>4. ASSUME NEW k \in DOMAIN wire' PROVE AckFits(k)'
    <3>1. k + 1 \in DOMAIN wire /\ wire'[k] = wire[k + 1] /\ k \in Nat
      BY <1>1, <1>6
    <3>2. AckFits(k + 1)
      BY <1>6, <2>0, <3>1 DEF Arrives
    <3> SUFFICES ASSUME wire'[k].kind = "ack" PROVE AckFits(k)'
      BY DEF AckFits
    <3>3. CASE ~wire'[k].ok
      BY <1>3, <3>1, <3>2, <3>3 DEF AckFits
    <3>4. CASE wire'[k].ok /\ wire'[k].of \in OpenStreams
      BY <1>3, <3>4 DEF AckFits
    <3>5. CASE wire'[k].ok /\ Closing(wire'[k].of, k + 1)
      <4>1. PICK n \in DOMAIN wire : n > k + 1 /\ wire[n].kind = "closed" /\ wire[n].of = wire'[k].of
        BY <3>5 DEF Closing
      <4>2. n \in Nat /\ n # i
        BY <1>1, <1>6, <3>1, <4>1
      <4>3. n - 1 \in DOMAIN wire' /\ wire'[n - 1] = wire[n] /\ n - 1 > k
        BY <2>1, <3>1, <4>1, <4>2
      <4>. QED
        BY <3>5, <4>1, <4>3 DEF AckFits, Closing
    <3>. QED
      BY <3>1, <3>2, <3>3, <3>4, <3>5 DEF AckFits
  <2>. QED
    BY <1>3, <1>6, <2>2, <2>3, <2>4 DEF Arrives
<1>7. Arrives'
  <2>1. ~member \/ hitch' => Arrives'
    BY <1>2 DEF Arrives
  <2>. QED
    BY <1>2, <1>6, <2>1
<1>. QED
  BY <1>5, <1>7 DEF HeardInv

-----------------------------------------------------------------------------
\* The message that is heard: a producer, its end, the answer of joinRoom, or an
\* answer to consumeProducer.
LEMMA HearHeard ==
  ASSUME HeardInv, SessionInv, NEW i \in DOMAIN wire, Hear(i)
  PROVE  HeardInv'
<1> DEFINE m == wire[i]
<1>0. /\ m \in Message /\ m.kind \in {"new", "closed", "joined", "ack"}
      /\ wire # <<>> /\ Entered
      /\ \A k \in DOMAIN wire : wire[k] \in Message /\ k > 0
  <2>1. wire \in Seq(Message)
    BY DEF SessionInv, SessionTypeOK
  <2>2. \A k \in DOMAIN wire : wire[k] \in Message /\ k > 0
    BY <2>1, ElementOfSeq, LenProperties
  <2>3. m \in Message
    BY <2>2
  <2>4. m.kind \in {"new", "closed", "joined", "ack"}
    BY <2>3 DEF Message
  <2>5. wire # <<>>
    OBVIOUS
  <2>6. Entered
    BY <2>5 DEF HeardInv, JoinFits
  <2>. QED
    BY <2>2, <2>3, <2>4, <2>5, <2>6
<1>1. /\ join \in [JoinId -> Join] /\ pulling \subseteq Pull
      /\ \A p \in pulling : p.of = generation \/ p.step = "decoding"
      /\ \A j \in JoinId : join[j].left # {} => join[j].step \in {"queued", "existing"}
      /\ CanReceive => pending = {}
  BY DEF SessionInv, SessionTypeOK, HeardInv, JoinFits
<1>2. /\ \A k \in DOMAIN wire, b \in JoinId : wire[k].kind = "joined" /\ wire[k].by = b =>
             Current(b) /\ join[b].step = "entering"
      /\ \A k, n \in DOMAIN wire : wire[k].kind = "joined" /\ wire[n].kind = "joined" => k = n
      /\ \A k \in DOMAIN wire : wire[k].kind = "closed" => wire[k].of \notin OpenStreams
  BY DEF HeardInv, WireFits
<1>3. member /\ ~hitch =>
      /\ \A s \in OpenStreams : s \in held => s \in played \/ PulledNow(s)
      /\ \A s \in played \ OpenStreams : \E k \in DOMAIN wire : wire[k].kind = "closed" /\ wire[k].of = s
      /\ AckFits(i)
  BY DEF HeardInv, Arrives, Closing
<1>4. UNCHANGED <<member, others>>
  BY DEF Hear
<1> HIDE DEF m
\* A call of consumeProducer may begin, and nothing else changes in the joins.
<1>5. ASSUME UNCHANGED <<generation, join>>, CanReceive => pending' = {},
             \A p \in pulling' : p.of = generation \/ p.step = "decoding"
      PROVE  /\ JoinFits'
             /\ \A k \in DOMAIN wire, b \in JoinId : k # i /\ wire[k].kind = "joined" /\ wire[k].by = b =>
                    Current(b)' /\ join'[b].step = "entering"
             /\ \A s : (\E j \in JoinId : Current(j) /\ WillAsk(join[j], s)) =>
                       \E j \in JoinId : Current(j)' /\ WillAsk(join'[j], s)
  <2>1. (Entered <=> Entered') /\ (CanReceive <=> CanReceive') /\ \A b : Current(b) <=> Current(b)'
    BY <1>5 DEF Entered, CanReceive, Current
  <2>2. JoinFits'
    BY <1>0, <1>1, <1>5, <2>1 DEF JoinFits
  <2>. QED
    BY <1>2, <1>5, <2>1, <2>2
<1>6. ASSUME m.kind = "new" PROVE HeardInv'
  <2>0. PICK s \in Stream : s = m.of
    BY <1>0, <1>6 DEF Message
  <2>1. /\ UNCHANGED <<generation, join, held, played>>
        /\ pulling' = Started(s, 0) /\ pending' = IF CanReceive THEN pending ELSE pending \cup {s}
    BY <1>6, <2>0 DEF Hear, HearNew, m
  <2>2. \A t : Announces(m, t) => t = s
    BY <1>6, <2>0 DEF Announces
  <2>3. pulling \subseteq pulling' /\ \A p \in pulling' : p \in pulling \/ p.of = generation
    BY <2>1 DEF Started
  <2>4. CanReceive /\ s \notin held => PulledNow(s)'
    <3> SUFFICES ASSUME CanReceive, s \notin held PROVE PulledNow(s)'
      OBVIOUS
    <3>1. PICK p : p \in pulling' /\ p = [stream |-> s, of |-> generation, by |-> 0, step |-> "consume"]
      BY <2>1 DEF Started
    <3>2. p.stream = s /\ p.of = generation'
      BY <2>1, <3>1
    <3>. QED
      BY <3>1, <3>2 DEF PulledNow
  <2>5. \A t : PulledNow(t) => PulledNow(t)'
    BY <2>1, <2>3 DEF PulledNow
  <2>6. JoinFits' /\ (\A k \in DOMAIN wire, b \in JoinId : k # i /\ wire[k].kind = "joined" /\ wire[k].by = b =>
                          Current(b)' /\ join'[b].step = "entering")
        /\ \A t : (\E j \in JoinId : Current(j) /\ WillAsk(join[j], t)) =>
                       \E j \in JoinId : Current(j)' /\ WillAsk(join'[j], t)
    BY <1>1, <1>5, <2>1, <2>3
  <2>7. member /\ ~hitch => \A t \in OpenStreams :
             t \in played \cup pending \/ PulledNow(t) \/ Announces(m, t)
                 \/ (\E j \in JoinId : Current(j) /\ WillAsk(join[j], t)) =>
             t \in played' \cup pending' \/ PulledNow(t)' \/ \E j \in JoinId : Current(j)' /\ WillAsk(join'[j], t)
    <3> SUFFICES ASSUME member, ~hitch, NEW t \in OpenStreams,
                        t \in played \cup pending \/ PulledNow(t) \/ Announces(m, t)
                            \/ (\E j \in JoinId : Current(j) /\ WillAsk(join[j], t))
                 PROVE  t \in played' \cup pending' \/ PulledNow(t)' \/ \E j \in JoinId : Current(j)' /\ WillAsk(join'[j], t)
      OBVIOUS
    <3>1. CASE t \in played \cup pending \/ PulledNow(t) \/ (\E j \in JoinId : Current(j) /\ WillAsk(join[j], t))
      BY <2>1, <2>5, <2>6, <3>1
    <3>2. CASE Announces(m, t)
      <4>1. t = s
        BY <2>2, <3>2
      <4>2. CASE ~CanReceive
        BY <2>1, <4>1, <4>2
      <4>3. CASE CanReceive /\ s \notin held
        BY <2>4, <4>1, <4>3
      <4>4. CASE s \in held
        BY <1>3, <2>1, <2>5, <4>1, <4>4
      <4>. QED
        BY <4>2, <4>3, <4>4
    <3>. QED
      BY <3>1, <3>2
  <2>8. /\ member /\ ~hitch => \A t \in OpenStreams : t \in held' => t \in played' \/ PulledNow(t)'
        /\ member /\ ~hitch => \A t \in played' \ OpenStreams : \E k \in DOMAIN wire : k # i /\ wire[k].kind = "closed" /\ wire[k].of = t
    BY <1>3, <1>6, <2>1, <2>5 DEF m
  <2>. QED
    BY <2>6, <2>7, <2>8, GoneHeard DEF m
<1>7. ASSUME m.kind = "closed" PROVE HeardInv'
  <2> DEFINE x == m.of
  <2>1. /\ UNCHANGED <<generation, join, pending, pulling>> /\ x \notin OpenStreams
        /\ held' = held \ {x} /\ played' = played \ {x}
    BY <1>2, <1>7 DEF Hear, HearClosed, m
  <2>2. \A t : ~Announces(m, t)
    BY <1>7 DEF Announces
  <2>3. \A t : PulledNow(t) <=> PulledNow(t)'
    BY <2>1 DEF PulledNow
  <2>4. JoinFits' /\ (\A k \in DOMAIN wire, b \in JoinId : k # i /\ wire[k].kind = "joined" /\ wire[k].by = b =>
                          Current(b)' /\ join'[b].step = "entering")
        /\ \A t : (\E j \in JoinId : Current(j) /\ WillAsk(join[j], t)) =>
                       \E j \in JoinId : Current(j)' /\ WillAsk(join'[j], t)
    BY <1>1, <1>5, <2>1
  <2>5. member /\ ~hitch => \A t \in OpenStreams :
             t \in played \cup pending \/ PulledNow(t) \/ Announces(m, t)
                 \/ (\E j \in JoinId : Current(j) /\ WillAsk(join[j], t)) =>
             t \in played' \cup pending' \/ PulledNow(t)' \/ \E j \in JoinId : Current(j)' /\ WillAsk(join'[j], t)
    BY <2>1, <2>2, <2>3, <2>4
  <2>6. member /\ ~hitch => \A t \in OpenStreams : t \in held' => t \in played' \/ PulledNow(t)'
    BY <1>3, <2>1, <2>3
  <2>7. ASSUME member, ~hitch, NEW t \in played' \ OpenStreams
        PROVE  \E k \in DOMAIN wire : k # i /\ wire[k].kind = "closed" /\ wire[k].of = t
    BY <1>3, <2>1, <2>7 DEF m
  <2>. QED
    BY <2>4, <2>5, <2>6, <2>7, GoneHeard DEF m
<1>8. ASSUME m.kind = "ack" PROVE HeardInv'
  <2>1. /\ UNCHANGED <<generation, join, pending, held>>
        /\ \/ UNCHANGED <<pulling, played>>
           \/ \E p \in AskedBy(m) :
                /\ IF m.ok /\ p.step = "consumed" THEN Moves(p, "decoding") ELSE Ends(p)
                /\ played' = IF m.ok /\ p.step = "resumed" THEN played \cup {p.stream} ELSE played
    BY <1>8 DEF Hear, HearAck, m
  <2>2. \A t : ~Announces(m, t)
    BY <1>8 DEF Announces
  <2>3. /\ \A p \in pulling' : p.of = generation \/ p.step = "decoding"
        /\ played \subseteq played'
        /\ member /\ ~hitch => \A t \in OpenStreams : PulledNow(t) => PulledNow(t)' \/ t \in played'
        /\ member /\ ~hitch => \A t \in played' \ OpenStreams : t \in played \/ (m.ok /\ m.of = t)
    <3>1. CASE UNCHANGED <<pulling, played>>
      BY <1>1, <2>1, <3>1 DEF PulledNow
    <3>2. ASSUME NEW p \in AskedBy(m),
                 IF m.ok /\ p.step = "consumed" THEN Moves(p, "decoding") ELSE Ends(p),
                 played' = IF m.ok /\ p.step = "resumed" THEN played \cup {p.stream} ELSE played
          PROVE  /\ \A q \in pulling' : q.of = generation \/ q.step = "decoding"
                 /\ played \subseteq played'
                 /\ member /\ ~hitch => \A t \in OpenStreams : PulledNow(t) => PulledNow(t)' \/ t \in played'
                 /\ member /\ ~hitch => \A t \in played' \ OpenStreams : t \in played \/ (m.ok /\ m.of = t)
      <4>1. p \in pulling /\ p \in Pull /\ p.stream = m.of /\ p.of = generation /\ p.step \in {"consumed", "resumed"}
        BY <1>1 DEF AskedBy
      <4>2. CASE m.ok /\ p.step = "consumed"
        <5> DEFINE r == [p EXCEPT !.step = "decoding"]
        <5>1. r.stream = p.stream /\ r.of = p.of /\ r.step = "decoding"
          BY <4>1 DEF Pull
        <5>2. pulling' = (pulling \ {p}) \cup {r} /\ played' = played
          BY <3>2, <4>2 DEF Moves
        <5> HIDE DEF r
        <5>. QED
          BY <1>1, <2>1, <4>1, <5>1, <5>2 DEF PulledNow
      <4>3. CASE ~(m.ok /\ p.step = "consumed")
        <5>1. pulling' = pulling \ {p}
          BY <3>2, <4>3 DEF Ends
        <5>2. CASE m.ok
          <6>1. played' = played \cup {p.stream}
            BY <3>2, <4>1, <4>3, <5>2
          <6>. QED
            BY <1>1, <2>1, <4>1, <5>1, <5>2, <6>1 DEF PulledNow
        <5>3. CASE ~m.ok
          <6>1. played' = played
            BY <3>2, <5>3
          <6>2. member /\ ~hitch => p.stream \notin OpenStreams
            BY <1>3, <1>8, <4>1, <5>3 DEF AckFits, m
          <6>. QED
            BY <1>1, <2>1, <4>1, <5>1, <6>1, <6>2 DEF PulledNow
        <5>. QED
          BY <5>2, <5>3
      <4>. QED
        BY <4>2, <4>3
    <3>. QED
      BY <2>1, <3>1, <3>2
  <2>4. JoinFits' /\ (\A k \in DOMAIN wire, b \in JoinId : k # i /\ wire[k].kind = "joined" /\ wire[k].by = b =>
                          Current(b)' /\ join'[b].step = "entering")
        /\ \A t : (\E j \in JoinId : Current(j) /\ WillAsk(join[j], t)) =>
                       \E j \in JoinId : Current(j)' /\ WillAsk(join'[j], t)
    BY <1>1, <1>5, <2>1, <2>3
  <2>5. member /\ ~hitch => \A t \in OpenStreams :
             t \in played \cup pending \/ PulledNow(t) \/ Announces(m, t)
                 \/ (\E j \in JoinId : Current(j) /\ WillAsk(join[j], t)) =>
             t \in played' \cup pending' \/ PulledNow(t)' \/ \E j \in JoinId : Current(j)' /\ WillAsk(join'[j], t)
    BY <2>1, <2>2, <2>3, <2>4
  <2>6. member /\ ~hitch => \A t \in OpenStreams : t \in held' => t \in played' \/ PulledNow(t)'
    BY <1>3, <2>1, <2>3
  <2>7. ASSUME member, ~hitch, NEW t \in played' \ OpenStreams
        PROVE  \E k \in DOMAIN wire : k # i /\ wire[k].kind = "closed" /\ wire[k].of = t
    <3>1. CASE t \in played
      BY <1>3, <1>8, <2>7, <3>1 DEF m
    <3>2. CASE m.ok /\ m.of = t
      BY <1>0, <1>3, <1>8, <2>7, <3>2 DEF AckFits, Closing, m
    <3>. QED
      BY <2>3, <2>7, <3>1, <3>2
  <2>. QED
    BY <2>4, <2>5, <2>6, <2>7, GoneHeard DEF m
<1>9. ASSUME m.kind = "joined" PROVE HeardInv'
  <2>1. PICK j \in JoinId : j = m.by
    BY <1>0, <1>9 DEF Message
  <2>2. /\ UNCHANGED <<generation, pending, pulling, held, played>>
        /\ join' = [join EXCEPT ![j].step = "preparing", ![j].known = m.known]
    BY <1>9, <2>1 DEF Hear, HearJoined, m
  <2>3. Current(j) /\ join[j].step = "entering" /\ join[j] \in Join
    BY <1>1, <1>2, <1>9, <2>1 DEF m
  <2>4. /\ \A b \in JoinId \ {j} : join'[b] = join[b]
        /\ join'[j].step = "preparing" /\ join'[j].known = m.known
        /\ join'[j].of = join[j].of /\ join'[j].left = join[j].left
    BY <1>1, <2>2, <2>3 DEF Join
  <2>5. /\ \A b \in JoinId : Current(b) <=> Current(b)'
        /\ \A b \in JoinId : Current(b) => b = j
    BY <2>2, <2>3, <2>4, OneSession DEF Current
  <2>6. Entered' /\ ~CanReceive' /\ join[j].left = {}
    BY <1>1, <2>3, <2>4, <2>5 DEF Entered, CanReceive
  <2>7. JoinFits'
    <3>1. \A b \in JoinId : join'[b].left # {} => join'[b].step \in {"queued", "existing"}
      BY <1>1, <2>4, <2>6
    <3>. QED
      BY <1>1, <2>2, <2>6, <3>1 DEF JoinFits
  <2>8. \A k \in DOMAIN wire : k # i => wire[k].kind # "joined"
    BY <1>2, <1>9 DEF m
  <2>9. \A t : PulledNow(t) <=> PulledNow(t)'
    BY <2>2 DEF PulledNow
  <2>10. ASSUME NEW t, Announces(m, t) PROVE WillAsk(join'[j], t)
    BY <1>9, <2>4, <2>10 DEF Announces, WillAsk
  <2>11. ASSUME NEW t, NEW b \in JoinId, Current(b), WillAsk(join[b], t) PROVE FALSE
    BY <2>3, <2>5, <2>6, <2>11 DEF WillAsk
  <2>12. member /\ ~hitch => \A t \in OpenStreams :
             t \in played \cup pending \/ PulledNow(t) \/ Announces(m, t)
                 \/ (\E b \in JoinId : Current(b) /\ WillAsk(join[b], t)) =>
             t \in played' \cup pending' \/ PulledNow(t)' \/ \E b \in JoinId : Current(b)' /\ WillAsk(join'[b], t)
    BY <2>2, <2>3, <2>5, <2>9, <2>10, <2>11
  <2>13. /\ member /\ ~hitch => \A t \in OpenStreams : t \in held' => t \in played' \/ PulledNow(t)'
         /\ member /\ ~hitch => \A t \in played' \ OpenStreams : \E k \in DOMAIN wire : k # i /\ wire[k].kind = "closed" /\ wire[k].of = t
    BY <1>3, <1>9, <2>2, <2>9 DEF m
  <2>. QED
    BY <2>7, <2>8, <2>12, <2>13, GoneHeard DEF m
<1>. QED
  BY <1>0, <1>6, <1>7, <1>8, <1>9

-----------------------------------------------------------------------------
\* What is remembered of streams that were produced stays so.
LEMMA BornKept ==
  ASSUME BornFits, Born \subseteq Born',
         held' \cup played' \cup pending' \subseteq Born,
         \A p \in pulling' : p.stream \in Born,
         \A j \in JoinId : join'[j].left \cup join'[j].known \subseteq Born,
         \A k \in DOMAIN wire' : \/ \E n \in DOMAIN wire : wire'[k] = wire[n]
                                 \/ ({wire'[k].of} \cup wire'[k].known) \cap Stream \subseteq Born'
  PROVE  BornFits'
<1>1. \A k \in DOMAIN wire' : ({wire'[k].of} \cup wire'[k].known) \cap Stream \subseteq Born'
  BY DEF BornFits
<1>. QED
  BY <1>1 DEF BornFits

\* A message of the gateway is about a stream that was produced.
LEMMA BornSent ==
  ASSUME SessionTypeOK, NEW m \in Message, ({m.of} \cup m.known) \cap Stream \subseteq Born',
         wire' = wire \/ wire' = Append(wire, m)
  PROVE  \A k \in DOMAIN wire' : \/ \E n \in DOMAIN wire : wire'[k] = wire[n]
                                 \/ ({wire'[k].of} \cup wire'[k].known) \cap Stream \subseteq Born'
<1>1. CASE wire' = wire
  BY <1>1
<1>2. CASE wire' = Append(wire, m)
  <2>1. /\ DOMAIN wire' = DOMAIN wire \cup {Len(wire) + 1} /\ wire'[Len(wire) + 1] = m
        /\ \A i \in DOMAIN wire : wire'[i] = wire[i]
    BY <1>2, WireGrows DEF SessionTypeOK
  <2>. QED
    BY <2>1
<1>. QED
  BY <1>1, <1>2

\* Every step keeps it.
LEMMA BornStep ==
  ASSUME SessionInv, BornFits, [SessionNext]_sessionVars
  PROVE  BornFits'
<1>0. /\ join \in [JoinId -> Join] /\ pulling \subseteq Pull /\ SessionTypeOK
      /\ others \in [Stream -> {"unborn", "open", "closed"}] /\ wire \in Seq(Message)
  BY DEF SessionInv, SessionTypeOK
<1>1. /\ held \cup played \cup pending \subseteq Born
      /\ \A p \in pulling : p.stream \in Born
      /\ \A j \in JoinId : join[j].left \cup join[j].known \subseteq Born
      /\ \A k \in DOMAIN wire : ({wire[k].of} \cup wire[k].known) \cap Stream \subseteq Born
  BY DEF BornFits
<1>2. OpenStreams \subseteq Born /\ (others' = others => Born' = Born)
  BY DEF OpenStreams, Born
\* The steps of the captures, and of a join that fetches nothing.
<1>3. ASSUME UNCHANGED <<others, held, played>>, wire' = wire \/ wire' = <<>>,
             pending' \subseteq Born, \A p \in pulling' : p.stream \in Born,
             \A j \in JoinId : join'[j].left \cup join'[j].known \subseteq Born
      PROVE  BornFits'
  <2>1. \A k \in DOMAIN wire' : \E n \in DOMAIN wire : wire'[k] = wire[n]
    BY <1>3
  <2>. QED
    BY <1>1, <1>2, <1>3, <2>1, BornKept
<1>4. ASSUME NEW j \in JoinId, NEW x, join' = [join EXCEPT ![j].step = x]
      PROVE  \A i \in JoinId : join'[i].left \cup join'[i].known \subseteq Born
  <2>1. \A i \in JoinId : join'[i].left = join[i].left /\ join'[i].known = join[i].known
    BY <1>0, <1>4 DEF Join
  <2>. QED
    BY <1>1, <2>1
<1>5. \A s, by : s \in Born => \A p \in Started(s, by) : p.stream \in Born
  BY <1>1 DEF Started
<1>6. ASSUME Cleared, others' = others, \A j \in JoinId : join'[j].left = join[j].left /\ join'[j].known = join[j].known
      PROVE  BornFits'
  <2>1. /\ held' = {} /\ played' = {} /\ pending' = {} /\ wire' = <<>>
        /\ \A p \in pulling' : p \in pulling
    BY <1>6 DEF Cleared
  <2>2. \A k \in DOMAIN wire' : \E n \in DOMAIN wire : wire'[k] = wire[n]
    BY <2>1
  <2>. QED
    BY <1>1, <1>2, <1>6, <2>1, <2>2, BornKept
<1>7. ASSUME NEW j \in JoinId, JoinRoom(j) PROVE BornFits'
  <2>1. UNCHANGED <<pending, pulling, held, played, wire, others>>
    BY <1>7 DEF JoinRoom, gatewayVars
  <2>2. \A i \in JoinId : join'[i].left = join[i].left /\ join'[i].known = join[i].known
    BY <1>0, <1>7 DEF JoinRoom, Join
  <2>. QED
    BY <1>1, <1>3, <2>1, <2>2
<1>8. ASSUME NEW j \in JoinId, SocketConnects(j) \/ MicrophoneGranted(j) PROVE BornFits'
  <2>1. UNCHANGED <<pending, pulling, held, played, wire, others>>
    BY <1>8 DEF SocketConnects, MicrophoneGranted, gatewayVars
  <2>2. PICK x : join' = [join EXCEPT ![j].step = x]
    BY <1>8 DEF SocketConnects, MicrophoneGranted
  <2>. QED
    BY <1>1, <1>3, <1>4, <2>1, <2>2
<1>9. ASSUME NEW j \in JoinId, TransportsMade(j) \/ MicrophoneProduced(j) PROVE BornFits'
  <2>1. UNCHANGED <<pulling, held, played, wire, others>> /\ (pending' = pending \/ pending' = {})
    BY <1>9 DEF TransportsMade, MicrophoneProduced, gatewayVars
  <2>2. PICK x, L : L \subseteq Born /\ join' = [join EXCEPT ![j].step = x, ![j].left = L]
    BY <1>1, <1>9 DEF TransportsMade, MicrophoneProduced
  <2>3. \A i \in JoinId : join'[i].known = join[i].known /\ (join'[i].left = join[i].left \/ join'[i].left = L)
    BY <1>0, <2>2 DEF Join
  <2>. QED
    BY <1>1, <1>3, <2>1, <2>2, <2>3
<1>10. ASSUME NEW j \in JoinId, GatewayJoins(j) PROVE BornFits'
  <2> DEFINE m == [Note("joined", NoTrack) EXCEPT !.by = j, !.known = OpenStreams]
  <2>1. m \in Message /\ m.of = NoTrack /\ m.known = OpenStreams
    BY DEF Note, Message, OpenStreams
  <2>2. /\ UNCHANGED <<pending, pulling, held, played, others>>
        /\ join' = [join EXCEPT ![j].step = "entering"] /\ wire' = Append(wire, m)
    BY <1>10 DEF GatewayJoins
  <2>3. NoTrack \notin Stream
    BY SessionAssumption
  <2> HIDE DEF m
  <2>4. ({m.of} \cup m.known) \cap Stream \subseteq Born'
    BY <1>2, <2>1, <2>2, <2>3
  <2>5. \A k \in DOMAIN wire' : \/ \E n \in DOMAIN wire : wire'[k] = wire[n]
                                \/ ({wire'[k].of} \cup wire'[k].known) \cap Stream \subseteq Born'
    BY <1>0, <2>1, <2>2, <2>4, BornSent
  <2>6. \A i \in JoinId : join'[i].left \cup join'[i].known \subseteq Born
    BY <1>4, <2>2
  <2>. QED
    BY <1>1, <1>2, <2>2, <2>5, <2>6, BornKept
<1>11. ASSUME NEW j \in JoinId, LoopGoesOn(j) PROVE BornFits'
  <2>1. UNCHANGED <<pending, held, played, wire, others>>
    BY <1>11 DEF LoopGoesOn, gatewayVars
  <2>2. ASSUME NEW s \in join[j].left, pulling' = Started(s, j), join' = [join EXCEPT ![j].left = @ \ {s}]
        PROVE  BornFits'
    <3>1. \A p \in pulling' : p.stream \in Born
      BY <1>1, <1>5, <2>2
    <3>2. \A i \in JoinId : join'[i].known = join[i].known /\ join'[i].left \subseteq join[i].left
      BY <1>0, <2>2 DEF Join
    <3>. QED
      BY <1>1, <1>3, <2>1, <3>1, <3>2
  <2>3. ASSUME NEW x, pulling' = pulling, join' = [join EXCEPT ![j].step = x] PROVE BornFits'
    BY <1>1, <1>3, <1>4, <2>1, <2>3
  <2>. QED
    BY <1>11, <2>2, <2>3 DEF LoopGoesOn
<1>12. ASSUME NEW j \in JoinId, JoinFails(j) PROVE BornFits'
  <2>1. \A i \in JoinId : join'[i].left = join[i].left /\ join'[i].known = join[i].known
    BY <1>0, <1>12 DEF JoinFails, Join
  <2>. QED
    BY <1>6, <1>12, <2>1 DEF JoinFails
<1>13. ASSUME SessionEnds PROVE BornFits'
  <2>1. \A i \in JoinId : join'[i].left = join[i].left /\ join'[i].known = join[i].known
    BY <1>0, <1>13 DEF SessionEnds, Join
  <2>. QED
    BY <1>6, <1>13, <2>1 DEF SessionEnds
<1>14. ASSUME NEW p \in pulling, NEW x, pulling' \subseteq pulling \/ Moves(p, x)
       PROVE  \A q \in pulling' : q.stream \in Born
  <2>1. [p EXCEPT !.step = x].stream = p.stream
    BY <1>0 DEF Pull
  <2>. QED
    BY <1>1, <1>14, <2>1 DEF Moves
<1>15. ASSUME NEW p \in pulling, GatewayAnswers(p) PROVE BornFits'
  <2>1. UNCHANGED <<join, pending, held, played, others>> /\ \E x : Moves(p, x)
    BY <1>15 DEF GatewayAnswers
  <2>2. PICK b \in BOOLEAN : wire' = Append(wire, AckOf(p, b))
    BY <1>15 DEF GatewayAnswers, SessionInv, SessionTypeOK
  <2> DEFINE m == AckOf(p, b)
  <2>3. m \in Message /\ m.of = p.stream /\ m.known = {}
    BY <1>0 DEF AckOf, Message, Pull
  <2> HIDE DEF m
  <2>4. wire' = Append(wire, m)
    BY <2>2 DEF m
  <2>5. \A k \in DOMAIN wire' : \/ \E n \in DOMAIN wire : wire'[k] = wire[n]
                                \/ ({wire'[k].of} \cup wire'[k].known) \cap Stream \subseteq Born'
    BY <1>0, <1>1, <1>2, <2>1, <2>3, <2>4, BornSent
  <2>6. \A q \in pulling' : q.stream \in Born
    BY <1>14, <2>1
  <2>. QED
    BY <1>1, <1>2, <2>1, <2>5, <2>6, BornKept
<1>16. ASSUME NEW p \in pulling, ConsumerMade(p) \/ PullFails(p) PROVE BornFits'
  <2>1. UNCHANGED <<join, pending, played, wire, others>> /\ (held' = held \/ held' = held \cup {p.stream})
    BY <1>16 DEF ConsumerMade, PullFails, gatewayVars
  <2>2. pulling' \subseteq pulling \/ \E x : Moves(p, x)
    BY <1>16 DEF ConsumerMade, PullFails, Ends
  <2>3. \A q \in pulling' : q.stream \in Born
    BY <1>14, <2>2
  <2>. QED
    BY <1>1, <1>2, <2>1, <2>3, BornKept
<1>17. ASSUME NEW s \in Stream, StreamOpens(s) \/ StreamCloses(s) PROVE BornFits'
  <2>1. UNCHANGED <<join, pending, held, played, pulling>>
    BY <1>17 DEF StreamOpens, StreamCloses, tabVars
  <2>2. Born \subseteq Born' /\ s \in Born'
    BY <1>0, <1>17 DEF StreamOpens, StreamCloses, Born
  <2>3. PICK m \in Message : m.of = s /\ m.known = {} /\ (wire' = wire \/ wire' = Append(wire, m))
    <3>1. \A y \in {"new", "closed"} : Note(y, s) \in Message /\ Note(y, s).of = s /\ Note(y, s).known = {}
      BY NotesAreMessages DEF Note
    <3>2. \E y \in {"new", "closed"} : wire' = Told(y, s)
      BY <1>17 DEF StreamOpens, StreamCloses
    <3>3. PICK y \in {"new", "closed"} : wire' = wire \/ wire' = Append(wire, Note(y, s))
      BY <3>2 DEF Told
    <3>. QED
      BY <3>1, <3>3
  <2>4. \A k \in DOMAIN wire' : \/ \E n \in DOMAIN wire : wire'[k] = wire[n]
                                \/ ({wire'[k].of} \cup wire'[k].known) \cap Stream \subseteq Born'
    BY <1>0, <2>2, <2>3, BornSent
  <2>. QED
    BY <1>1, <2>1, <2>2, <2>4, BornKept
<1>18. ASSUME NEW i \in DOMAIN wire, Hear(i) PROVE BornFits'
  <2> DEFINE m == wire[i]
  <2>1. m \in Message /\ m.kind \in {"new", "closed", "joined", "ack"}
    <3>1. m \in Message
      BY <1>0, ElementOfSeq, LenProperties
    <3>. QED
      BY <3>1 DEF Message
  <2>2. others' = others /\ \A k \in DOMAIN wire' : \E n \in DOMAIN wire : wire'[k] = wire[n]
    <3>0. others' = others /\ wire \in Seq(Message)
      BY <1>0, <1>18 DEF Hear
    <3>1. wire' = SubSeq(wire, 1, i - 1) \o SubSeq(wire, i + 1, Len(wire))
      BY <1>18 DEF Hear
    <3>2. /\ \A k \in DOMAIN wire' : \/ k < i /\ k \in DOMAIN wire /\ wire'[k] = wire[k]
                                     \/ k >= i /\ k + 1 \in DOMAIN wire /\ wire'[k] = wire[k + 1]
          /\ \A k \in DOMAIN wire : k > i => k - 1 \in DOMAIN wire' /\ wire'[k - 1] = wire[k]
          /\ \A k \in DOMAIN wire : k \in Nat /\ k > 0
          /\ \A k \in DOMAIN wire' : k \in Nat /\ k > 0
      BY <3>0, <3>1, WireShrinks
    <3>. QED
      BY <3>0, <3>2
  <2>3. ({m.of} \cup m.known) \cap Stream \subseteq Born
    BY <1>1
  <2>4. /\ held' \cup played' \cup pending' \subseteq Born
        /\ \A p \in pulling' : p.stream \in Born
        /\ \A j \in JoinId : join'[j].left \cup join'[j].known \subseteq Born
    <3>1. CASE m.kind = "new"
      <4>1. m.of \in Born
        BY <2>1, <2>3, <3>1 DEF Message
      <4>2. HearNew(m.of)
        BY <1>18, <3>1 DEF Hear
      <4>. QED
        BY <1>1, <1>5, <4>1, <4>2 DEF HearNew
    <3>2. CASE m.kind = "closed"
      <4>1. HearClosed(m.of)
        BY <1>18, <3>2 DEF Hear
      <4>. QED
        BY <1>1, <4>1 DEF HearClosed
    <3>3. CASE m.kind = "ack"
      <4>1. HearAck(m)
        BY <1>18, <3>3 DEF Hear
      <4>2. CASE UNCHANGED <<pulling, played>>
        BY <1>1, <4>1, <4>2 DEF HearAck
      <4>3. CASE \E p \in AskedBy(m) :
            /\ IF m.ok /\ p.step = "consumed" THEN Moves(p, "decoding") ELSE Ends(p)
            /\ played' = IF m.ok /\ p.step = "resumed" THEN played \cup {p.stream} ELSE played
        <5>1. PICK p \in pulling : /\ IF m.ok /\ p.step = "consumed" THEN Moves(p, "decoding") ELSE Ends(p)
                                   /\ played' = played \cup {p.stream} \/ played' = played
          BY <4>3 DEF AskedBy
        <5>2. pulling' \subseteq pulling \/ Moves(p, "decoding")
          BY <5>1 DEF Ends
        <5>3. \A q \in pulling' : q.stream \in Born
          BY <1>14, <5>2
        <5>. QED
          BY <1>1, <4>1, <5>1, <5>3 DEF HearAck
      <4>. QED
        BY <4>1, <4>2, <4>3 DEF HearAck
    <3>4. CASE m.kind = "joined"
      <4>1. HearJoined(m.by, m.known) /\ m.by \in JoinId /\ m.known \subseteq Born
        BY <1>18, <2>1, <2>3, <3>4 DEF Hear, Message
      <4> HIDE DEF m
      <4>2. \A j \in JoinId : join'[j].left = join[j].left /\ (join'[j].known = join[j].known \/ join'[j].known = m.known)
        BY <1>0, <4>1 DEF HearJoined, Join
      <4>. QED
        BY <1>1, <4>1, <4>2 DEF HearJoined
    <3>. QED
      BY <2>1, <3>1, <3>2, <3>3, <3>4
  <2>. QED
    BY <1>2, <2>2, <2>4, BornKept
<1>19. ASSUME NEW g \in Share, StartShare(g) \/ ScreenPicked(g) \/ PickRefused(g) \/ ScreenEnded(g) PROVE BornFits'
  <2>1. UNCHANGED <<tabVars, others, wire>>
    BY <1>19 DEF StartShare, ScreenPicked, PickRefused, ScreenEnded, gatewayVars
  <2>. QED
    BY <1>1, <1>3, <2>1 DEF tabVars
<1>20. ASSUME ScreenProduced \/ ScreenRefused \/ StopScreenShare PROVE BornFits'
  <2>1. UNCHANGED <<tabVars, others, wire>>
    BY <1>20 DEF ScreenProduced, ScreenRefused, StopScreenShare
  <2>. QED
    BY <1>1, <1>3, <2>1 DEF tabVars
<1>21. ASSUME UNCHANGED <<tabVars, others>>, NEW g \in Share, wire' = wire \/ wire' = Append(wire, Note("closed", g)) PROVE BornFits'
  <2> DEFINE m == Note("closed", g)
  <2>1. m \in Message /\ m.of = g /\ m.known = {} /\ g \notin Stream
    BY NotesAreMessages, SessionAssumption DEF Note
  <2> HIDE DEF m
  <2>2. wire' = wire \/ wire' = Append(wire, m)
    BY <1>21 DEF m
  <2>3. \A k \in DOMAIN wire' : \/ \E n \in DOMAIN wire : wire'[k] = wire[n]
                                \/ ({wire'[k].of} \cup wire'[k].known) \cap Stream \subseteq Born'
    BY <1>0, <2>1, <2>2, BornSent
  <2>. QED
    BY <1>1, <1>2, <1>21, <2>3, BornKept DEF tabVars
<1>22. ASSUME NEW g \in Share, GatewayStops(g) PROVE BornFits'
  <2>1. UNCHANGED <<tabVars, others>> /\ (wire' = wire \/ wire' = Append(wire, Note("closed", g)))
    BY <1>22 DEF GatewayStops, Told
  <2>. QED
    BY <1>21, <2>1
<1>23. ASSUME GatewayRemoves PROVE BornFits'
  <2>1. UNCHANGED <<tabVars, others>>
    BY <1>23 DEF GatewayRemoves
  <2>2. CASE wire' = wire
    BY <1>1, <1>3, <2>1, <2>2 DEF tabVars
  <2>3. CASE wire' # wire
    <3>1. serverScreen \in Share /\ wire' = Append(wire, Note("closed", serverScreen))
      BY <1>23, <2>3 DEF GatewayRemoves, Told, SessionInv, SessionTypeOK
    <3>. QED
      BY <1>21, <2>1, <3>1
  <2>. QED
    BY <2>2, <2>3
<1>24. ASSUME UNCHANGED sessionVars PROVE BornFits'
  <2>1. UNCHANGED <<tabVars, others, wire>>
    BY <1>24 DEF sessionVars, gatewayVars
  <2>. QED
    BY <1>1, <1>3, <2>1 DEF tabVars
<1>25. ASSUME SessionNext PROVE BornFits'
  BY <1>7, <1>8, <1>9, <1>10, <1>11, <1>12, <1>13, <1>15, <1>16, <1>17, <1>18, <1>19, <1>20, <1>22, <1>23, <1>25 DEF SessionNext, TabStep
<1>. QED
  BY <1>24, <1>25

-----------------------------------------------------------------------------
\* Every step keeps what a participant is owed.
LEMMA HeardStep ==
  ASSUME SessionInv, BornFits, HeardInv, [SessionNext]_sessionVars
  PROVE  HeardInv'
<1>0. join \in [JoinId -> Join]
  BY DEF SessionInv, SessionTypeOK
<1>1. ASSUME NEW j \in JoinId, JoinFails(j) PROVE HeardInv'
  <2>0. join' = [join EXCEPT ![j].step = "over"]
    BY <1>1 DEF JoinFails
  <2>1. /\ \A i \in JoinId \ {j} : join'[i] = join[i]
        /\ join'[j].step = "over" /\ join'[j].left = join[j].left
        /\ join'[j].of = join[j].of /\ join'[j].known = join[j].known
    BY <1>0, <2>0, JoinChanges
  <2>2. join[j].step \notin {"queued", "existing"}
    BY <1>1 DEF JoinFails
  <2>. QED
    BY <1>1, <2>1, <2>2, ClearedHeard DEF JoinFails
<1>2. ASSUME SessionEnds PROVE HeardInv'
  <2>1. \A i \in JoinId : /\ join'[i].of = join[i].of /\ join'[i].left = join[i].left
                          /\ \/ join'[i].step = join[i].step
                             \/ join[i].step \notin {"queued", "existing"}
    BY <1>0, <1>2 DEF SessionEnds, Join
  <2>. QED
    BY <1>2, <2>1, ClearedHeard DEF SessionEnds
<1>3. ASSUME NEW g \in Share, StartShare(g) \/ ScreenPicked(g) \/ PickRefused(g) \/ ScreenEnded(g) PROVE HeardInv'
  <2>1. UNCHANGED <<generation, join, pending, pulling, held, played, member, others, wire, hitch>>
    BY <1>3 DEF StartShare, ScreenPicked, PickRefused, ScreenEnded, tabVars, gatewayVars, hitchVars
  <2>. QED
    BY <2>1, HeardAside
<1>4. ASSUME ScreenProduced \/ ScreenRefused \/ StopScreenShare PROVE HeardInv'
  <2>1. UNCHANGED <<generation, join, pending, pulling, held, played, member, others, wire, hitch>>
    BY <1>4 DEF ScreenProduced, ScreenRefused, StopScreenShare, tabVars, hitchVars
  <2>. QED
    BY <2>1, HeardAside
<1>5. ASSUME UNCHANGED sessionVars PROVE HeardInv'
  <2>1. UNCHANGED <<generation, join, pending, pulling, held, played, member, others, wire, hitch>>
    BY <1>5 DEF sessionVars, tabVars, gatewayVars, hitchVars
  <2>. QED
    BY <2>1, HeardAside
<1>6. ASSUME SessionNext PROVE HeardInv'
  BY <1>1, <1>2, <1>3, <1>4, <1>6, JoinRoomHeard, JoinStepsHeard, EnterHeard, EventsHeard, PullsHeard, HearHeard
     DEF SessionNext, TabStep
<1>. QED
  BY <1>5, <1>6

\* A participant who has joined and waits for nothing plays just the producers of the
\* room, if no command of this session failed and no message was overtaken: however the
\* events came while it was joining, whatever it was told twice, and whichever producers
\* were closed while they were being fetched.
THEOREM RoomHeard == SessionSpec => []RoomIsHeard
<1>1. SessionInit => SessionInv /\ BornFits /\ HeardInv
  <2> SUFFICES ASSUME SessionInit PROVE SessionInv /\ BornFits /\ HeardInv
    OBVIOUS
  <2>1. SessionInv
    BY SessionInitInv
  <2>2. BornFits
    BY DEF SessionInit, BornFits
  <2>3. \A j \in JoinId : join[j].left = {} /\ ~Current(j)
    BY DEF SessionInit, Current
  <2>4. JoinFits
    BY <2>3 DEF SessionInit, JoinFits, CanReceive, Entered
  <2>5. WireFits /\ Arrives
    BY DEF SessionInit, WireFits, Arrives
  <2>. QED
    BY <2>1, <2>2, <2>4, <2>5 DEF HeardInv
<1>2. SessionInv /\ BornFits /\ HeardInv /\ [SessionNext]_sessionVars => (SessionInv /\ BornFits /\ HeardInv)'
  BY SessionInvStep, BornStep, HeardStep
<1>3. SessionInv /\ HeardInv => RoomIsHeard
  <2> SUFFICES ASSUME SessionInv, HeardInv, IsConnected, member, wire = <<>>, ~hitch,
                      \A p \in pulling : p.of # generation
               PROVE  played = OpenStreams
    BY DEF RoomIsHeard
  <2>1. PICK j \in JoinId : Current(j) /\ join[j].step = "done"
    BY DEF IsConnected
  <2>2. CanReceive /\ pending = {} /\ join[j].left = {}
    BY <2>1 DEF CanReceive, HeardInv, JoinFits
  <2>3. DOMAIN wire = {} /\ \A s : ~PulledNow(s)
    BY DEF PulledNow
  <2>4. \A s, i : i \in JoinId /\ Current(i) => ~WillAsk(join[i], s)
    BY <2>1, <2>2, OneSession DEF WillAsk
  <2>5. OpenStreams \subseteq played
    BY <2>2, <2>3, <2>4 DEF HeardInv, Arrives, OnItsWay
  <2>6. played \subseteq OpenStreams
    BY <2>3 DEF HeardInv, Arrives, Closing
  <2>. QED
    BY <2>5, <2>6
<1>. QED
  BY <1>1, <1>2, <1>3, PTL DEF SessionSpec

-----------------------------------------------------------------------------
(***************************************************************************)
(* Calls between replicas, for any calls, envelopes and length of the      *)
(* queue: a command is accepted once, because the promise of its reply is  *)
(* kept until its deadline keeps every other envelope out, unless one has  *)
(* passed that test before and Redis holds it up.                          *)
(***************************************************************************)
\* The envelope by which the owner accepted a call: the promise of a reply is its own.
Root(e, c) == promised[e] = e /\ envelope[e].of = c

\* A receipt awaits the promise of the envelope that was accepted for its call.
ReceiptsAreKnown ==
    \A e \in Envelope :
        /\ envelope[e].step # "none" => envelope[e].of \in Call
        /\ envelope[e].step \in {"awaiting", "replied"} => promised[e] # NoEnvelope
        /\ envelope[e].step = "replied" => reply[promised[e]] # "none"
        /\ promised[e] # NoEnvelope =>
              /\ envelope[e].step \in {"awaiting", "replied", "gone"}
              /\ Root(promised[e], envelope[e].of)

\* Only accepted envelopes have a reply; a success stands for an execution.
RepliesAreTrue ==
    \A e \in Envelope : reply[e] # "none" =>
        /\ promised[e] = e
        /\ reply[e] = "ok" => runs[envelope[e].of] > 0

\* Each accepted envelope is in the queue at most once.
QueueOfRoots ==
    /\ \A i \in 1..Len(waiting) : promised[waiting[i]] = waiting[i]
    /\ \A i, j \in 1..Len(waiting) : waiting[i] = waiting[j] => i = j
    /\ atWork => waiting # <<>> /\ runs[envelope[waiting[1]].of] > 0

\* A command that has run has left the queue, or is at work.
Executed(e) == \A i \in 1..Len(waiting) : waiting[i] = e => atWork /\ i = 1
RunsHaveRoots == \A c \in Call : runs[c] > 0 => \E e \in Envelope : Root(e, c) /\ Executed(e)

\* No envelope of the call will be accepted any more.
Closed(c) ==
    /\ callTime[c] # "open" \/ ~ownerUp
    /\ \A e \in Envelope : ~(envelope[e].step = "received" /\ envelope[e].of = c)

\* A call is accepted once: its envelope is remembered until no other can follow.
OneRoot ==
    /\ \A c \in Call : completed[c] # NoEnvelope => Root(completed[c], c)
    /\ \A c \in Call \ hung, e \in Envelope : Root(e, c) =>
          /\ completed[c] = e \/ (completed[c] = NoEnvelope /\ Closed(c))
          /\ \A f \in Envelope : Root(f, c) => f = e

CallsInv == ReceiptsAreKnown /\ RepliesAreTrue /\ QueueOfRoots /\ RunsHaveRoots /\ OneRoot /\ CallsRunOnce

-----------------------------------------------------------------------------
\* The queue of the room: what a command that comes or goes leaves in it.
LEMMA Queued ==
    ASSUME waiting \in Seq(Envelope), NEW e \in Envelope, waiting' = Append(waiting, e)
    PROVE  /\ waiting' \in Seq(Envelope) /\ Len(waiting') = Len(waiting) + 1
           /\ \A i \in 1..Len(waiting) : waiting'[i] = waiting[i]
           /\ waiting'[Len(waiting) + 1] = e
  OBVIOUS

LEMMA Dequeued ==
    ASSUME waiting \in Seq(Envelope), waiting # <<>>, waiting' = Tail(waiting)
    PROVE  /\ waiting' \in Seq(Envelope) /\ Len(waiting') = Len(waiting) - 1
           /\ Len(waiting) > 0 /\ waiting[1] \in Envelope
           /\ Head(waiting) = waiting[1]
           /\ \A i \in 1..Len(waiting') : waiting'[i] = waiting[i + 1]
  OBVIOUS

\* An envelope moves, and nothing else of any envelope changes.
LEMMA Moved ==
    ASSUME CallsTypeOK, NEW e \in Envelope, NEW step \in EnvelopeStep, MovesTo(e, step)
    PROVE  /\ envelope' \in [Envelope -> [step : EnvelopeStep, of : Call \cup {NoCall}]]
           /\ envelope'[e].step = step
           /\ \A f \in Envelope : envelope'[f].of = envelope[f].of
           /\ \A f \in Envelope \ {e} : envelope'[f] = envelope[f]
  BY DEF CallsTypeOK, MovesTo

LEMMA CallsTypes ==
    ASSUME CallsTypeOK, [CallsNext]_callVars, ReceiptsAreKnown PROVE CallsTypeOK'
<1> USE CallsAssumption DEF CallsTypeOK, EnvelopeStep
<1>1. ASSUME NEW c \in Call, GiveUpCall(c) \/ CallAges(c) \/ ForgetReply(c) PROVE CallsTypeOK'
  BY <1>1 DEF GiveUpCall, CallAges, ForgetReply, ownerVars
<1>2. ASSUME NEW c \in Call, NEW e \in Envelope, SendCall(c, e) PROVE CallsTypeOK'
  BY <1>2 DEF SendCall, ownerVars
<1>3. ASSUME NEW e \in Envelope, NEW f \in Envelope, Duplicate(e, f) PROVE CallsTypeOK'
  BY <1>3 DEF Duplicate, ownerVars
<1>4. ASSUME NEW e \in Envelope, Received(e) \/ NotOwner(e) \/ PublishReply(e) PROVE CallsTypeOK'
  <2>1. \E step \in EnvelopeStep : MovesTo(e, step)
    BY <1>4 DEF Received, NotOwner, PublishReply
  <2>2. envelope' \in [Envelope -> [step : EnvelopeStep, of : Call \cup {NoCall}]]
    BY <2>1, Moved
  <2> QED BY <1>4, <2>2 DEF Received, NotOwner, PublishReply, ownerVars
<1>5. ASSUME NEW e \in Envelope, AwaitAgain(e) PROVE CallsTypeOK'
  <2>1. envelope[e].of \in Call BY <1>5 DEF AwaitAgain, ReceiptsAreKnown
  <2>2. envelope' \in [Envelope -> [step : EnvelopeStep, of : Call \cup {NoCall}]]
    BY <1>5, Moved DEF AwaitAgain
  <2>3. promised' \in [Envelope -> Envelope \cup {NoEnvelope}]
    BY <1>5, <2>1 DEF AwaitAgain
  <2> QED BY <1>5, <2>2, <2>3 DEF AwaitAgain, ownerVars
<1>6. ASSUME NEW e \in Envelope, Accept(e) PROVE CallsTypeOK'
  <2>1. envelope[e].of \in Call BY <1>6 DEF Accept, ReceiptsAreKnown
  <2>2. waiting' \in Seq(Envelope) /\ Len(waiting') <= QueueLimit
    BY <1>6, Queued DEF Accept
  <2>3. envelope' \in [Envelope -> [step : EnvelopeStep, of : Call \cup {NoCall}]]
    BY <1>6, Moved DEF Accept
  <2>4. /\ promised' \in [Envelope -> Envelope \cup {NoEnvelope}]
        /\ completed' \in [Call -> Envelope \cup {NoEnvelope}]
        /\ reply' \in [Envelope -> {"none", "ok", "error"}]
    BY <1>6, <2>1 DEF Accept
  <2> QED BY <1>6, <2>2, <2>3, <2>4 DEF Accept
<1>7. ASSUME NEW e \in Envelope, ReplyArrives(e) PROVE CallsTypeOK'
  <2>1. promised[e] \in Envelope /\ reply[promised[e]] # "none" BY <1>7 DEF ReplyArrives, ReceiptsAreKnown
  <2>2. envelope' \in [Envelope -> [step : EnvelopeStep, of : Call \cup {NoCall}]]
    BY <1>7, Moved DEF ReplyArrives
  <2>3. caller' \in [Call -> {"idle", "waiting", "ok", "error"}]
    BY <1>7, <2>1 DEF ReplyArrives
  <2> QED BY <1>7, <2>2, <2>3 DEF ReplyArrives, ownerVars
<1>8. ASSUME RunCommand PROVE CallsTypeOK'
  <2>1. runs' \in [Call -> Nat]
    <3>1. runs' = [c \in Call |-> IF c = envelope[Head(waiting)].of THEN runs[c] + 1 ELSE runs[c]]
      BY <1>8 DEF RunCommand
    <3> QED BY <3>1
  <2> QED BY <1>8, <2>1 DEF RunCommand
<1>9. ASSUME NEW answer \in {"ok", "error"}, CommandEnds(answer) PROVE CallsTypeOK'
  <2>1. waiting' \in Seq(Envelope) /\ Len(waiting') <= QueueLimit
    BY <1>9, Dequeued DEF CommandEnds
  <2> QED BY <1>9, <2>1 DEF CommandEnds
<1>10. ASSUME OwnerStops PROVE CallsTypeOK'
  <2>1. envelope' \in [Envelope -> [step : EnvelopeStep, of : Call \cup {NoCall}]]
    BY <1>10 DEF OwnerStops
  <2>2. completed' \in [Call -> Envelope \cup {NoEnvelope}] /\ waiting' \in Seq(Envelope) /\ Len(waiting') <= QueueLimit
    BY <1>10 DEF OwnerStops
  <2> QED BY <1>10, <2>1, <2>2 DEF OwnerStops
<1>11. ASSUME UNCHANGED callVars PROVE CallsTypeOK'
  BY <1>11 DEF callVars, ownerVars
<1> QED BY <1>1, <1>2, <1>3, <1>4, <1>5, <1>6, <1>7, <1>8, <1>9, <1>10, <1>11 DEF CallsNext

-----------------------------------------------------------------------------
\* What travels: envelopes and replies outside the owner's memory.
Travels(f) ==
    \/ envelope'[f] = envelope[f]
    \/ /\ promised[f] = NoEnvelope
       /\ envelope'[f].of \in Call
       /\ \/ envelope'[f].step \in {"sent", "gone"}
          \/ envelope'[f].step = "received" /\ ownerUp /\ callTime[envelope'[f].of] = "open"
    \/ /\ promised[f] # NoEnvelope
       /\ envelope'[f].of = envelope[f].of
       /\ envelope'[f].step \in {"replied", "gone"}
       /\ reply[promised[f]] # "none"

LEMMA TravelIsSafe ==
    ASSUME CallsTypeOK, CallsTypeOK', CallsInv, UNCHANGED <<promised, ownerVars, hung>>,
           \A c \in Call : callTime'[c] = "open" => callTime[c] = "open",
           \A c \in Call : caller'[c] = "ok" => runs[c] > 0,
           \A f \in Envelope : Travels(f)
    PROVE  CallsInv'
<1>1. UNCHANGED <<promised, completed, waiting, atWork, reply, ownerUp, runs, hung>>
  BY DEF ownerVars
<1>2. \A f \in Envelope : promised[f] # NoEnvelope => envelope'[f].of = envelope[f].of
  BY DEF Travels
<1>3. \A f \in Envelope, c \in Call : Root(f, c) <=> Root(f, c)'
  BY <1>1, <1>2, CallsAssumption DEF Root
<1>4. ReceiptsAreKnown'
  <2>1. ASSUME NEW e \in Envelope
        PROVE  /\ envelope'[e].step # "none" => envelope'[e].of \in Call
               /\ envelope'[e].step \in {"awaiting", "replied"} => promised[e] # NoEnvelope
               /\ envelope'[e].step = "replied" => reply[promised[e]] # "none"
    BY DEF Travels, CallsInv, ReceiptsAreKnown
  <2>2. ASSUME NEW e \in Envelope, promised[e] # NoEnvelope
        PROVE  /\ envelope'[e].step \in {"awaiting", "replied", "gone"}
               /\ Root(promised[e], envelope[e].of)'
    <3>1. /\ envelope[e].step \in {"awaiting", "replied", "gone"}
          /\ promised[e] \in Envelope
          /\ Root(promised[e], envelope[e].of) /\ envelope[e].of \in Call
      BY <2>2 DEF CallsInv, ReceiptsAreKnown, CallsTypeOK
    <3>2. envelope'[e].step \in {"awaiting", "replied", "gone"}
      BY <2>2, <3>1 DEF Travels
    <3>3. envelope'[promised[e]].of = envelope[promised[e]].of
      BY <1>2, <3>1, CallsAssumption DEF Root
    <3> QED BY <2>2, <3>1, <3>2, <3>3, <1>1, <1>2 DEF Root
  <2> QED BY <1>1, <2>1, <2>2 DEF ReceiptsAreKnown
<1>5. RepliesAreTrue'
  BY <1>1, <1>2, CallsAssumption DEF CallsInv, RepliesAreTrue
<1>6. QueueOfRoots'
  <2>1. waiting # <<>> => waiting[1] \in Envelope /\ 1 \in 1..Len(waiting)
    BY DEF CallsTypeOK
  <2> QED BY <1>1, <1>2, <2>1, CallsAssumption DEF CallsInv, QueueOfRoots
<1>7. RunsHaveRoots'
  BY <1>1, <1>3 DEF CallsInv, RunsHaveRoots, Executed
<1>8. OneRoot'
  <2>1. \A c \in Call : Closed(c) => Closed(c)'
    BY <1>1 DEF Closed, Travels
  <2> QED BY <1>1, <1>3, <2>1 DEF CallsInv, OneRoot, CallsTypeOK
<1> QED BY <1>1, <1>4, <1>5, <1>6, <1>7, <1>8 DEF CallsInv, CallsRunOnce

LEMMA SendIsSafe ==
    ASSUME CallsTypeOK, CallsTypeOK', CallsInv, NEW c \in Call, NEW e \in Envelope, SendCall(c, e)
    PROVE  CallsInv'
<1>1. promised[e] = NoEnvelope
  BY DEF SendCall, CallsInv, ReceiptsAreKnown
<1>2. \A f \in Envelope : Travels(f)
  BY <1>1 DEF SendCall, Travels, CallsTypeOK
<1>3. \A d \in Call : caller'[d] = "ok" => runs[d] > 0
  BY DEF SendCall, CallsTypeOK, CallsInv, CallsRunOnce
<1> QED BY <1>2, <1>3, TravelIsSafe DEF SendCall

LEMMA DuplicateIsSafe ==
    ASSUME CallsTypeOK, CallsTypeOK', CallsInv, NEW e \in Envelope, NEW f \in Envelope, Duplicate(e, f)
    PROVE  CallsInv'
<1>1. promised[f] = NoEnvelope
  BY DEF Duplicate, CallsInv, ReceiptsAreKnown
<1>2. \A g \in Envelope : Travels(g)
  BY <1>1 DEF Duplicate, Travels, CallsTypeOK
<1> QED BY <1>2, TravelIsSafe DEF Duplicate, CallsInv, CallsRunOnce

LEMMA AgeIsSafe ==
    ASSUME CallsTypeOK, CallsTypeOK', CallsInv, NEW c \in Call, GiveUpCall(c) \/ CallAges(c)
    PROVE  CallsInv'
<1>1. UNCHANGED <<envelope, promised, ownerVars, hung>>
  BY DEF GiveUpCall, CallAges
<1>2. \A f \in Envelope : Travels(f)
  BY <1>1 DEF Travels
<1>3. \A d \in Call : callTime'[d] = "open" => callTime[d] = "open"
  BY DEF GiveUpCall, CallAges, CallsTypeOK
<1>4. \A d \in Call : caller'[d] = "ok" => runs[d] > 0
  BY DEF GiveUpCall, CallAges, CallsTypeOK, CallsInv, CallsRunOnce
<1> QED BY <1>1, <1>2, <1>3, <1>4, TravelIsSafe

LEMMA ReceiptIsSafe ==
    ASSUME CallsTypeOK, CallsTypeOK', CallsInv, NEW e \in Envelope,
           Received(e) \/ NotOwner(e) \/ PublishReply(e) \/ ReplyArrives(e)
    PROVE  CallsInv'
<1>1. UNCHANGED <<callTime, promised, ownerVars, hung>>
  BY DEF Received, NotOwner, PublishReply, ReplyArrives
<1>2. envelope[e].of \in Call
  BY DEF Received, NotOwner, PublishReply, ReplyArrives, CallsInv, ReceiptsAreKnown
<1>3. ASSUME Received(e) \/ NotOwner(e) PROVE CallsInv'
  <2>1. promised[e] = NoEnvelope
    BY <1>3 DEF Received, NotOwner, CallsInv, ReceiptsAreKnown
  <2>2. PICK step \in {"received", "gone"} :
            /\ MovesTo(e, step)
            /\ step = "received" => ownerUp /\ callTime[envelope[e].of] = "open"
    BY <1>3 DEF Received, NotOwner
  <2>3. \A f \in Envelope : Travels(f)
    BY <1>2, <2>1, <2>2, Moved DEF Travels, EnvelopeStep
  <2> QED BY <1>1, <1>3, <2>3, TravelIsSafe DEF Received, NotOwner, CallsInv, CallsRunOnce
<1>4. ASSUME PublishReply(e) \/ ReplyArrives(e) PROVE CallsInv'
  <2>1. promised[e] # NoEnvelope /\ reply[promised[e]] # "none"
    BY <1>4 DEF PublishReply, ReplyArrives, CallsInv, ReceiptsAreKnown
  <2>2. PICK step \in {"replied", "gone"} : MovesTo(e, step)
    BY <1>4 DEF PublishReply, ReplyArrives
  <2>3. \A f \in Envelope : Travels(f)
    BY <2>1, <2>2, Moved DEF Travels, EnvelopeStep
  <2>4. promised[e] \in Envelope /\ Root(promised[e], envelope[e].of)
    BY <2>1 DEF CallsInv, ReceiptsAreKnown, CallsTypeOK
  <2>5. reply[promised[e]] = "ok" => runs[envelope[e].of] > 0
    BY <2>1, <2>4 DEF CallsInv, RepliesAreTrue, Root
  <2>6. \A c \in Call : caller'[c] = "ok" => runs[c] > 0
    BY <1>2, <1>4, <2>5 DEF PublishReply, ReplyArrives, CallsTypeOK, CallsInv, CallsRunOnce
  <2> QED BY <1>1, <2>3, <2>6, TravelIsSafe
<1> QED BY <1>3, <1>4

LEMMA AwaitIsSafe ==
    ASSUME CallsTypeOK, CallsTypeOK', CallsInv, NEW e \in Envelope, AwaitAgain(e)
    PROVE  CallsInv'
<1> DEFINE c == envelope[e].of
           g == completed[c]
<1>1. /\ UNCHANGED <<caller, callTime, completed, waiting, atWork, reply, ownerUp, runs, hung>>
      /\ promised' = [promised EXCEPT ![e] = g]
  BY DEF AwaitAgain, ownerVars
<1>2. c \in Call /\ promised[e] = NoEnvelope /\ envelope[e].step = "received"
  BY DEF AwaitAgain, CallsInv, ReceiptsAreKnown
<1>3. g \in Envelope /\ Root(g, c) /\ g # e
  BY <1>2, CallsAssumption DEF AwaitAgain, Remembered, CallsInv, OneRoot, Root, CallsTypeOK
<1>4. /\ envelope'[e].step = "awaiting"
      /\ \A f \in Envelope : envelope'[f].of = envelope[f].of
      /\ \A f \in Envelope \ {e} : envelope'[f] = envelope[f]
  BY Moved DEF AwaitAgain, EnvelopeStep
<1>5. promised'[e] = g /\ \A f \in Envelope \ {e} : promised'[f] = promised[f]
  BY <1>1 DEF CallsTypeOK
<1>6. \A f \in Envelope, d \in Call : Root(f, d)' <=> Root(f, d)
  BY <1>2, <1>3, <1>4, <1>5, CallsAssumption DEF Root
<1>7. ASSUME NEW f \in Envelope
      PROVE  /\ envelope'[f].step # "none" => envelope'[f].of \in Call
             /\ envelope'[f].step \in {"awaiting", "replied"} => promised'[f] # NoEnvelope
             /\ envelope'[f].step = "replied" => reply'[promised'[f]] # "none"
             /\ promised'[f] # NoEnvelope =>
                   /\ envelope'[f].step \in {"awaiting", "replied", "gone"}
                   /\ promised'[promised'[f]] = promised'[f]
                   /\ envelope'[promised'[f]].of = envelope'[f].of
  <2>1. CASE f = e
    BY <2>1, <1>2, <1>3, <1>4, <1>5, CallsAssumption DEF Root
  <2>2. CASE f # e
    <3>1. envelope'[f] = envelope[f] /\ promised'[f] = promised[f]
      BY <2>2, <1>4, <1>5
    <3>2. promised[f] # NoEnvelope =>
              /\ promised[f] \in Envelope /\ promised[f] # e
              /\ Root(promised[f], envelope[f].of)
      BY <1>2, CallsAssumption DEF CallsInv, ReceiptsAreKnown, CallsTypeOK, Root
    <3> QED BY <1>1, <1>4, <1>5, <3>1, <3>2 DEF CallsInv, ReceiptsAreKnown, Root
  <2> QED BY <2>1, <2>2
<1>8. RepliesAreTrue'
  BY <1>1, <1>2, <1>4, <1>5, CallsAssumption DEF CallsInv, RepliesAreTrue
<1>9. QueueOfRoots'
  <2>1. waiting # <<>> => waiting[1] \in Envelope /\ 1 \in 1..Len(waiting)
    BY DEF CallsTypeOK
  <2>2. \A i \in 1..Len(waiting) : waiting[i] \in Envelope /\ waiting[i] # e
    BY <1>2, CallsAssumption DEF CallsInv, QueueOfRoots, CallsTypeOK
  <2> QED BY <1>1, <1>4, <1>5, <2>1, <2>2 DEF CallsInv, QueueOfRoots
<1>10. RunsHaveRoots'
  BY <1>1, <1>6 DEF CallsInv, RunsHaveRoots, Executed
<1>11. OneRoot'
  <2>1. \A d \in Call : Closed(d) => Closed(d)'
    BY <1>1, <1>4 DEF Closed
  <2> QED BY <1>1, <1>6, <2>1 DEF CallsInv, OneRoot, CallsTypeOK
<1>12. ReceiptsAreKnown' BY <1>7 DEF ReceiptsAreKnown, Root
<1> QED BY <1>1, <1>12, <1>8, <1>9, <1>10, <1>11 DEF CallsInv, CallsRunOnce

LEMMA AcceptIsSafe ==
    ASSUME CallsTypeOK, CallsTypeOK', CallsInv, NEW e \in Envelope, Accept(e)
    PROVE  CallsInv'
<1> DEFINE c == envelope[e].of
<1>1. /\ UNCHANGED <<caller, callTime, atWork, ownerUp, runs, hung>>
      /\ completed' = [completed EXCEPT ![c] = e]
      /\ completed[c] = NoEnvelope
  BY DEF Accept, Remembered
<1>2. c \in Call /\ promised[e] = NoEnvelope /\ envelope[e].step = "received"
  BY DEF Accept, CallsInv, ReceiptsAreKnown
<1>3. /\ envelope'[e].step = "awaiting"
      /\ \A f \in Envelope : envelope'[f].of = envelope[f].of
      /\ \A f \in Envelope \ {e} : envelope'[f] = envelope[f]
  BY Moved DEF Accept, EnvelopeStep
<1>4. promised'[e] = e /\ \A f \in Envelope \ {e} : promised'[f] = promised[f]
  BY DEF CallsTypeOK, Accept
<1>5. reply'[e] \in {"none", "error"} /\ \A f \in Envelope \ {e} : reply'[f] = reply[f]
  <2>1. reply[e] = "none"
    BY <1>2, CallsAssumption DEF CallsInv, RepliesAreTrue, CallsTypeOK
  <2> QED BY <2>1 DEF CallsTypeOK, Accept
<1>6. \A f \in Envelope, d \in Call : Root(f, d)' <=> Root(f, d) \/ (f = e /\ d = c)
  BY <1>2, <1>3, <1>4, CallsAssumption DEF Root
<1>7. ASSUME NEW f \in Envelope
      PROVE  /\ envelope'[f].step # "none" => envelope'[f].of \in Call
             /\ envelope'[f].step \in {"awaiting", "replied"} => promised'[f] # NoEnvelope
             /\ envelope'[f].step = "replied" => reply'[promised'[f]] # "none"
             /\ promised'[f] # NoEnvelope =>
                   /\ envelope'[f].step \in {"awaiting", "replied", "gone"}
                   /\ promised'[promised'[f]] = promised'[f]
                   /\ envelope'[promised'[f]].of = envelope'[f].of
  <2>1. CASE f = e
    BY <2>1, <1>2, <1>3, <1>4, CallsAssumption
  <2>2. CASE f # e
    <3>1. envelope'[f] = envelope[f] /\ promised'[f] = promised[f]
      BY <2>2, <1>3, <1>4
    <3>2. promised[f] # NoEnvelope =>
              /\ promised[f] \in Envelope /\ promised[f] # e
              /\ Root(promised[f], envelope[f].of)
      BY <1>2, CallsAssumption DEF CallsInv, ReceiptsAreKnown, CallsTypeOK, Root
    <3> QED BY <1>3, <1>4, <1>5, <3>1, <3>2 DEF CallsInv, ReceiptsAreKnown, Root
  <2> QED BY <2>1, <2>2
<1>8. RepliesAreTrue'
  BY <1>1, <1>3, <1>4, <1>5 DEF CallsInv, RepliesAreTrue
<1>9. /\ Len(waiting) \in Nat
      /\ \A i \in 1..Len(waiting) : waiting[i] \in Envelope /\ waiting[i] # e /\ waiting'[i] = waiting[i]
      /\ \/ Len(waiting') = Len(waiting)
         \/ Len(waiting') = Len(waiting) + 1 /\ waiting'[Len(waiting) + 1] = e
  <2>1. \A i \in 1..Len(waiting) : waiting[i] \in Envelope /\ waiting[i] # e
    BY <1>2, CallsAssumption DEF CallsInv, QueueOfRoots, CallsTypeOK
  <2> QED BY <2>1, Queued DEF Accept, CallsTypeOK
<1>10. QueueOfRoots'
  <2>1. \A i \in 1..Len(waiting') : promised'[waiting'[i]] = waiting'[i]
    BY <1>4, <1>9 DEF CallsInv, QueueOfRoots
  <2>2. \A i, j \in 1..Len(waiting') : waiting'[i] = waiting'[j] => i = j
    BY <1>9 DEF CallsInv, QueueOfRoots
  <2>3. atWork => waiting' # <<>> /\ runs[envelope'[waiting'[1]].of] > 0
    <3>1. waiting # <<>> => Len(waiting) > 0
      BY DEF CallsTypeOK
    <3>2. Len(waiting') > 0 => waiting' # <<>>
      BY DEF CallsTypeOK
    <3> QED BY <1>3, <1>9, <3>1, <3>2 DEF CallsInv, QueueOfRoots
  <2> QED BY <1>1, <2>1, <2>2, <2>3 DEF QueueOfRoots
<1>11. RunsHaveRoots'
  <2>1. ASSUME NEW f \in Envelope, f # e, Executed(f) PROVE Executed(f)'
    BY <1>1, <1>9, <2>1 DEF Executed
  <2>2. \A f \in Envelope, d \in Call : Root(f, d) => f # e
    BY <1>2, CallsAssumption DEF Root
  <2> QED BY <1>1, <1>6, <2>1, <2>2 DEF CallsInv, RunsHaveRoots
<1>12. OneRoot'
  <2>1. completed'[c] = e /\ \A d \in Call \ {c} : completed'[d] = completed[d]
    BY <1>1, <1>2 DEF CallsTypeOK
  <2>2. \A d \in Call : Closed(d) => Closed(d)'
    BY <1>1, <1>3 DEF Closed
  <2>3. c \notin hung => \A f \in Envelope : ~Root(f, c)
    BY <1>1, <1>2, CallsAssumption DEF CallsInv, OneRoot, Closed
  <2>4. \A d \in Call : completed'[d] # NoEnvelope => completed'[d] \in Envelope /\ promised'[completed'[d]] = completed'[d]
                                                     /\ envelope'[completed'[d]].of = d
    BY <1>2, <1>3, <1>4, <2>1, CallsAssumption DEF CallsInv, OneRoot, CallsTypeOK, Root
  <2>5. ASSUME NEW d \in Call, d \notin hung, NEW f \in Envelope, Root(f, d)'
        PROVE  /\ completed'[d] = f \/ (completed'[d] = NoEnvelope /\ Closed(d)')
               /\ \A g \in Envelope : Root(g, d)' => g = f
    <3>1. CASE d = c
      BY <3>1, <2>1, <2>3, <2>5, <1>6
    <3>2. CASE d # c
      BY <3>2, <2>1, <2>2, <2>5, <1>6 DEF CallsInv, OneRoot
    <3> QED BY <3>1, <3>2
  <2> QED BY <1>1, <2>4, <2>5 DEF OneRoot, Root
<1>13. ReceiptsAreKnown' BY <1>7 DEF ReceiptsAreKnown, Root
<1> QED BY <1>1, <1>8, <1>10, <1>11, <1>12, <1>13 DEF CallsInv, CallsRunOnce

LEMMA RunIsSafe ==
    ASSUME CallsTypeOK, CallsTypeOK', CallsInv, RunCommand
    PROVE  CallsInv'
<1> DEFINE e == waiting[1]
           c == envelope[e].of
<1>1. /\ UNCHANGED <<caller, callTime, envelope, promised, completed, waiting, reply, ownerUp, hung>>
      /\ ~atWork /\ atWork' /\ waiting # <<>>
  BY DEF RunCommand
<1>2. e \in Envelope /\ 1 \in 1..Len(waiting) /\ Head(waiting) = e
  BY <1>1 DEF CallsTypeOK
<1>3. promised[e] = e /\ c \in Call
  BY <1>2, CallsAssumption DEF CallsInv, QueueOfRoots, ReceiptsAreKnown
<1>4. /\ runs'[c] = runs[c] + 1 /\ runs[c] \in Nat
      /\ \A d \in Call \ {c} : runs'[d] = runs[d]
      /\ \A d \in Call : runs[d] \in Nat /\ runs'[d] >= runs[d]
  BY <1>2, <1>3 DEF RunCommand, CallsTypeOK
<1>5. \A f \in Envelope, d \in Call : Root(f, d)' <=> Root(f, d)
  BY <1>1 DEF Root
<1>6. ReceiptsAreKnown'
  BY <1>1 DEF CallsInv, ReceiptsAreKnown, Root
<1>7. RepliesAreTrue'
  <2>1. \A f \in Envelope : promised[f] = f => envelope[f].of \in Call
    BY CallsAssumption DEF CallsInv, ReceiptsAreKnown
  <2>2. ASSUME NEW f \in Envelope, reply[f] # "none"
        PROVE  promised[f] = f /\ (reply[f] = "ok" => runs'[envelope[f].of] > 0)
    <3>1. promised[f] = f /\ (reply[f] = "ok" => runs[envelope[f].of] > 0)
      BY <2>2 DEF CallsInv, RepliesAreTrue
    <3>2. envelope[f].of \in Call
      BY <2>1, <3>1
    <3> QED BY <1>4, <3>1, <3>2
  <2> QED BY <1>1, <2>2 DEF RepliesAreTrue
<1>8. QueueOfRoots'
  BY <1>1, <1>3, <1>4 DEF CallsInv, QueueOfRoots
<1>9. RunsHaveRoots'
  <2>1. ASSUME NEW f \in Envelope, Executed(f) PROVE Executed(f)'
    BY <1>1, <2>1 DEF Executed
  <2>2. PICK x \in Envelope : x = e
    BY <1>2
  <2>3. Executed(x)'
    BY <1>1, <1>2, <2>2 DEF Executed, CallsInv, QueueOfRoots
  <2>4. \A d \in Call : d = c => Root(x, d)'
    BY <1>1, <1>3, <2>2 DEF Root
  <2>5. ASSUME NEW d \in Call, runs'[d] > 0
        PROVE  \E f \in Envelope : Root(f, d)' /\ Executed(f)'
    <3>1. CASE d = c BY <3>1, <2>3, <2>4
    <3>2. CASE d # c
      <4>1. runs[d] > 0 BY <3>2, <2>5, <1>4
      <4> QED BY <4>1, <1>5, <2>1 DEF CallsInv, RunsHaveRoots
    <3> QED BY <3>1, <3>2
  <2> QED BY <2>5 DEF RunsHaveRoots
<1>10. OneRoot'
  BY <1>1 DEF CallsInv, OneRoot, Closed, Root
<1>11. CallsRunOnce'
  <2>1. c \notin hung => runs[c] = 0
    <3>1. \A f \in Envelope : Executed(f) => f # e
      BY <1>1, <1>2 DEF Executed
    <3>2. Root(e, c) BY <1>3 DEF Root
    <3> QED BY <1>2, <1>3, <1>4, <3>1, <3>2 DEF CallsInv, OneRoot, RunsHaveRoots
  <2> QED BY <1>1, <1>3, <1>4, <2>1 DEF CallsInv, CallsRunOnce
<1> QED BY <1>6, <1>7, <1>8, <1>9, <1>10, <1>11 DEF CallsInv

LEMMA EndIsSafe ==
    ASSUME CallsTypeOK, CallsTypeOK', CallsInv, NEW answer \in {"ok", "error"}, CommandEnds(answer)
    PROVE  CallsInv'
<1> DEFINE e == waiting[1]
<1>1. /\ UNCHANGED <<caller, callTime, envelope, promised, completed, ownerUp, runs, hung>>
      /\ waiting # <<>> /\ ~atWork' /\ (answer = "ok" => atWork)
  BY DEF CommandEnds
<1>2. /\ e \in Envelope /\ Head(waiting) = e /\ 1 \in 1..Len(waiting)
      /\ Len(waiting) \in Nat /\ Len(waiting') = Len(waiting) - 1
      /\ \A i \in 1..Len(waiting') : i + 1 \in 1..Len(waiting) /\ waiting'[i] = waiting[i + 1]
  BY <1>1, Dequeued DEF CommandEnds, CallsTypeOK
<1>3. promised[e] = e
  BY <1>2 DEF CallsInv, QueueOfRoots
<1>4. reply'[e] = answer /\ \A f \in Envelope \ {e} : reply'[f] = reply[f]
  BY <1>2 DEF CommandEnds, CallsTypeOK
<1>5. ReceiptsAreKnown'
  <2>1. \A f \in Envelope : promised[f] # NoEnvelope => promised[f] \in Envelope
    BY DEF CallsTypeOK
  <2>2. \A f \in Envelope : reply[f] # "none" => reply'[f] # "none"
    BY <1>4
  <2> QED BY <1>1, <2>1, <2>2 DEF CallsInv, ReceiptsAreKnown, Root
<1>6. RepliesAreTrue'
  <2>1. answer = "ok" => runs[envelope[e].of] > 0
    BY <1>1 DEF CallsInv, QueueOfRoots
  <2> QED BY <1>1, <1>3, <1>4, <2>1 DEF CallsInv, RepliesAreTrue
<1>7. QueueOfRoots'
  <2>1. \A i \in 1..Len(waiting') : promised[waiting'[i]] = waiting'[i]
    BY <1>2 DEF CallsInv, QueueOfRoots
  <2>2. \A i, j \in 1..Len(waiting') : waiting'[i] = waiting'[j] => i = j
    <3> SUFFICES ASSUME NEW i \in 1..Len(waiting'), NEW j \in 1..Len(waiting'), waiting'[i] = waiting'[j]
                 PROVE  i = j
      OBVIOUS
    <3>1. i + 1 = j + 1
      BY <1>2 DEF CallsInv, QueueOfRoots
    <3> QED BY <1>2, <3>1
  <2> QED BY <1>1, <2>1, <2>2 DEF QueueOfRoots
<1>8. RunsHaveRoots'
  <2>1. ASSUME NEW f \in Envelope, Executed(f), NEW i \in 1..Len(waiting') PROVE waiting'[i] # f
    <3>1. waiting'[i] = waiting[i + 1] /\ i + 1 \in 1..Len(waiting) /\ i + 1 # 1
      BY <1>2
    <3> QED BY <2>1, <3>1 DEF Executed
  <2> QED BY <1>1, <2>1 DEF CallsInv, RunsHaveRoots, Executed, Root
<1>9. OneRoot'
  BY <1>1 DEF CallsInv, OneRoot, Closed, Root
<1> QED BY <1>1, <1>5, <1>6, <1>7, <1>8, <1>9 DEF CallsInv, CallsRunOnce

LEMMA ForgetIsSafe ==
    ASSUME CallsTypeOK, CallsTypeOK', CallsInv, NEW c \in Call, ForgetReply(c)
    PROVE  CallsInv'
<1>1. UNCHANGED <<caller, callTime, envelope, promised, waiting, atWork, reply, ownerUp, runs>>
  BY DEF ForgetReply
<1>2. completed'[c] = NoEnvelope /\ \A d \in Call \ {c} : completed'[d] = completed[d]
  BY DEF ForgetReply, CallsTypeOK
<1>3. hung \subseteq hung' /\ (c \notin hung' => Closed(c))
  BY DEF ForgetReply, Closed
<1>4. ReceiptsAreKnown' /\ RepliesAreTrue' /\ QueueOfRoots'
  BY <1>1 DEF CallsInv, ReceiptsAreKnown, RepliesAreTrue, QueueOfRoots, Root
<1>5. RunsHaveRoots'
  BY <1>1 DEF CallsInv, RunsHaveRoots, Executed, Root
<1>6. OneRoot'
  <2>1. \A f \in Envelope, d \in Call : Root(f, d)' <=> Root(f, d)
    BY <1>1 DEF Root
  <2>2. \A d \in Call : Closed(d)' <=> Closed(d)
    BY <1>1 DEF Closed
  <2>3. \A d \in Call : completed'[d] # NoEnvelope => Root(completed[d], d) /\ completed'[d] = completed[d]
    BY <1>2 DEF CallsInv, OneRoot
  <2>4. \A d \in Call : completed'[d] # NoEnvelope => promised'[completed'[d]] = completed'[d]
                                                     /\ envelope'[completed'[d]].of = d
    BY <1>1, <2>3 DEF Root
  <2>5. ASSUME NEW d \in Call, d \notin hung', NEW f \in Envelope, Root(f, d)
        PROVE  /\ completed'[d] = f \/ (completed'[d] = NoEnvelope /\ Closed(d))
               /\ \A g \in Envelope : Root(g, d) => g = f
    <3>1. d \notin hung BY <2>5, <1>3
    <3> QED BY <1>2, <1>3, <2>5, <3>1 DEF CallsInv, OneRoot
  <2> QED BY <2>1, <2>2, <2>4, <2>5 DEF OneRoot, Root
<1> QED BY <1>1, <1>3, <1>4, <1>5, <1>6 DEF CallsInv, CallsRunOnce

LEMMA StopIsSafe ==
    ASSUME CallsTypeOK, CallsTypeOK', CallsInv, OwnerStops
    PROVE  CallsInv'
<1>1. /\ UNCHANGED <<caller, callTime, promised, reply, runs, hung>>
      /\ waiting' = <<>> /\ ~atWork' /\ ~ownerUp'
      /\ \A c \in Call : completed'[c] = NoEnvelope
  BY DEF OwnerStops
<1>2. \A f \in Envelope :
          /\ envelope'[f].of = envelope[f].of
          /\ \/ envelope'[f] = envelope[f] /\ envelope[f].step \notin {"sent", "received", "awaiting"}
             \/ envelope'[f].step = "gone" /\ envelope[f].step # "none"
  BY DEF OwnerStops, CallsTypeOK
<1>3. ReceiptsAreKnown'
  <2>1. \A f \in Envelope : promised[f] # NoEnvelope => promised[f] \in Envelope
    BY DEF CallsTypeOK
  <2> QED BY <1>1, <1>2, <2>1 DEF CallsInv, ReceiptsAreKnown, Root
<1>4. RepliesAreTrue'
  BY <1>1, <1>2 DEF CallsInv, RepliesAreTrue
<1>5. QueueOfRoots'
  BY <1>1 DEF QueueOfRoots
<1>6. RunsHaveRoots'
  BY <1>1, <1>2 DEF CallsInv, RunsHaveRoots, Executed, Root
<1>7. OneRoot'
  <2>1. \A c \in Call : Closed(c)'
    BY <1>1, <1>2 DEF Closed
  <2> QED BY <1>1, <1>2, <2>1 DEF CallsInv, OneRoot, Root
<1> QED BY <1>1, <1>3, <1>4, <1>5, <1>6, <1>7 DEF CallsInv, CallsRunOnce

-----------------------------------------------------------------------------
LEMMA CallsInitially == CallsInit => CallsTypeOK /\ CallsInv
<1> SUFFICES ASSUME CallsInit PROVE CallsTypeOK /\ CallsInv
  OBVIOUS
<1>1. CallsTypeOK
  <2>1. waiting \in Seq(Envelope) /\ Len(waiting) <= QueueLimit
    BY CallsAssumption DEF CallsInit
  <2> QED BY <2>1 DEF CallsInit, CallsTypeOK, EnvelopeStep
<1>2. ReceiptsAreKnown /\ RepliesAreTrue /\ QueueOfRoots /\ RunsHaveRoots /\ CallsRunOnce
  BY DEF CallsInit, ReceiptsAreKnown, RepliesAreTrue, QueueOfRoots, RunsHaveRoots, CallsRunOnce
<1>3. OneRoot
  BY CallsAssumption DEF CallsInit, OneRoot, Root
<1> QED BY <1>1, <1>2, <1>3 DEF CallsInv

LEMMA CallsStep == CallsTypeOK /\ CallsInv /\ [CallsNext]_callVars => CallsTypeOK' /\ CallsInv'
<1> SUFFICES ASSUME CallsTypeOK, CallsInv, [CallsNext]_callVars PROVE CallsTypeOK' /\ CallsInv'
  OBVIOUS
<1>1. CallsTypeOK'
  BY CallsTypes DEF CallsInv
<1>2. CASE UNCHANGED callVars
  <2>1. UNCHANGED <<caller, callTime, envelope, promised, ownerVars, hung>>
    BY <1>2 DEF callVars
  <2>2. ownerVars' = ownerVars BY <2>1
  <2>3. UNCHANGED runs BY <2>2 DEF ownerVars
  <2>4. \A f \in Envelope : Travels(f) BY <2>1 DEF Travels
  <2>5. \A c \in Call : caller'[c] = "ok" => runs[c] > 0 BY <2>1 DEF CallsInv, CallsRunOnce
  <2> QED BY <1>1, <2>1, <2>4, <2>5, TravelIsSafe
<1>3. CASE CallsNext
  BY <1>1, <1>3, SendIsSafe, DuplicateIsSafe, AgeIsSafe, ReceiptIsSafe, AwaitIsSafe, AcceptIsSafe,
     RunIsSafe, EndIsSafe, ForgetIsSafe, StopIsSafe DEF CallsNext
<1> QED BY <1>1, <1>2, <1>3

\* Every variable of the calls between replicas keeps its type.
THEOREM CallsTypeCorrect == CallsSpec => []CallsTypeOK
<1>1. CallsSpec => [](CallsTypeOK /\ CallsInv)
  BY CallsInitially, CallsStep, PTL DEF CallsSpec
<1> QED BY <1>1, PTL

\* A command is executed once, however often it is delivered, and a caller who is told
\* of a success was served: CallsInv is inductive.
THEOREM CommandsRunOnce == CallsSpec => []CallsRunOnce
<1>1. CallsSpec => [](CallsTypeOK /\ CallsInv)
  BY CallsInitially, CallsStep, PTL DEF CallsSpec
<1>2. CallsTypeOK /\ CallsInv => CallsRunOnce
  BY DEF CallsInv
<1> QED BY <1>1, <1>2, PTL

=============================================================================
