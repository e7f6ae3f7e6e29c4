------------------------------- MODULE Session -------------------------------
(***************************************************************************)
(* The single-client session of the host (host/src/transport/session.rs),  *)
(* with the part of the transport loop that carries its decisions out      *)
(* (host/src/transport/mod.rs, act and execute_actions) and the pairing    *)
(* credentials it authorizes against (host/src/pairing.rs).                *)
(*                                                                         *)
(* Three kinds of actor take turns:                                        *)
(*   - clients send HELLO2 and session messages from their peers;          *)
(*   - the transport task decides under the session lock (an action that   *)
(*     fills "acts") and then, without the lock, executes the decision     *)
(*     (Act); it also ticks, stops and starts again with the pipeline;     *)
(*   - the update and GUI threads take the session or the pairing lock     *)
(*     between the two halves.                                             *)
(*                                                                         *)
(* Time is relative: "left" is the session's liveness deadline less now,   *)
(* "silent" is now less the time it was last heard. Both saturate where    *)
(* the code no longer tells values apart, so time itself needs no bound.   *)
(*                                                                         *)
(* A definition right above another that it resembles, named for a mistake *)
(* (IdReused above NextId), is a faulty variant: the specification does    *)
(* not use it. Each property is known to fail with one put in place.       *)
(***************************************************************************)
EXTENDS Integers, FiniteSets

CONSTANTS
  Hellos,            \* the HELLO2 attempts clients make, each with its source
  MaxSessions,       \* bound: sessions admitted in a behaviour
  MaxToken,          \* bound: pairing tokens issued (regenerate_token)
  MaxCode,           \* bound: pairing codes in use
  MaxRestarts,       \* bound: pipeline restarts
  LivenessTimeout,   \* LIVENESS_TIMEOUT
  HoldLimit,         \* HOLD_LIMIT
  TakeoverTimeout,   \* USB_TAKEOVER_TIMEOUT
  EndedReplyFor,     \* ENDED_REPLY_FOR
  EndedReplyGap,     \* ENDED_REPLY_GAP
  KeyframeGap        \* KEYFRAME_REQUEST_MIN_INTERVAL

Links == {"udp", "usb"}
Peer == [link : Links, host : STRING, port : Nat]
Hello == [from : Peer, device : Nat, nonce : Nat, listen : Nat, token : Nat,
          code : Nat, v2 : BOOLEAN, input : BOOLEAN, nack : BOOLEAN]

ASSUME HellosAssumption == Hellos \subseteq Hello

ASSUME BoundsAssumption ==
  /\ MaxSessions \in Nat \ {0}
  /\ MaxToken \in Nat \ {0}
  /\ MaxCode \in Nat \ {0}
  /\ MaxRestarts \in Nat

\* What the constants of session.rs satisfy, and all the proofs need of them.
ASSUME TimingAssumption ==
  /\ LivenessTimeout \in Nat /\ HoldLimit \in Nat /\ TakeoverTimeout \in Nat
  /\ EndedReplyFor \in Nat /\ EndedReplyGap \in Nat /\ KeyframeGap \in Nat
  /\ TakeoverTimeout <= LivenessTimeout
  /\ LivenessTimeout <= HoldLimit
  /\ KeyframeGap <= LivenessTimeout
  /\ EndedReplyGap <= EndedReplyFor
  /\ TakeoverTimeout > 0

Ids == 1..MaxSessions
IdOrNone == 0..MaxSessions         \* 0 stands for None
Tokens == 0..MaxToken              \* 0 is the all-zero token
Codes == 1..MaxCode
HeldFor == HoldLimit - LivenessTimeout
Sources == {h.from : h \in Hellos}

NoPeer == [link |-> "none", host |-> "none", port |-> 0]
NoSession == [id |-> 0]
NoEnded == [id |-> 0]

Reasons == {"goodbye", "liveness", "superseded", "shutdown", "linklost", "revoked"}

\* MediaTarget: the advertised listen port at the source address.
MediaTarget(h) == [h.from EXCEPT !.port = IF h.listen # 0 THEN h.listen ELSE @]
Targets == {MediaTarget(h) : h \in Hellos} \cup {NoPeer}

SessionRecord ==
  [id : Ids, hello : Hellos, auth : Tokens, ackToken : Tokens,
   left : (-HeldFor)..LivenessTimeout, silent : 0..HoldLimit,
   held : BOOLEAN, awaiting : BOOLEAN, frames : BOOLEAN,
   sinceKey : 0..KeyframeGap]

EndedRecord ==
  [id : Ids, peer : Sources, age : 0..EndedReplyFor, gap : 0..EndedReplyGap]

\* Actions::default(): the transport has nothing to carry out.
NoActs ==
  [ack |-> "none", ackId |-> 0, ackToken |-> 0, target |-> NoPeer, idr |-> FALSE,
   lost |-> FALSE, release |-> FALSE, key |-> "none", keyOf |-> 0,
   late |-> FALSE, bye |-> 0, answer |-> 0, ended |-> 0]

ActsRecord ==
  [ack : {"none", "ok", "refused"}, ackId : IdOrNone, ackToken : Tokens,
   target : Targets, idr : BOOLEAN, lost : BOOLEAN, release : BOOLEAN,
   key : {"none", "press", "release"}, keyOf : IdOrNone, late : BOOLEAN,
   bye : IdOrNone, answer : IdOrNone, ended : IdOrNone]

VARIABLES
  session,    \* Session::active
  nextId,     \* Session::next_session_id, as the count of ids handed out
  updating,   \* Session::updating
  goodbye,    \* Session::goodbye, as the id of the session it tells
  stopped,    \* Session::stopped, as the id of the session that ended
  ended,      \* Session::ended_for_liveness
  required,   \* Pairing::required
  token,      \* Pairing::token
  code,       \* Pairing::code
  acts,       \* the Actions the transport task holds and has not executed
  target,     \* SharedControl::target_addr
  heldKey,    \* InputRelay::held, as the session whose press the PC holds
  running,    \* a transport loop is running
  restarts,   \* how many times it stopped
  quitting,   \* the app is closing
  endedAs,    \* history: how each session ended
  logged,     \* history: sessions whose end was reported
  said        \* history: the latest session whose goodbye was sent

credentials == <<required, token, code>>
history == <<endedAs, logged, said>>
loop == <<running, restarts>>
vars == <<session, nextId, updating, goodbye, stopped, ended, required, token, code,
          acts, target, heldKey, running, restarts, quitting, endedAs, logged, said>>

Min2(a, b) == IF a <= b THEN a ELSE b
Max2(a, b) == IF a >= b THEN a ELSE b

TypeOK ==
  /\ session \in SessionRecord \cup {NoSession}
  /\ nextId \in 1..(MaxSessions + 1)
  /\ updating \in BOOLEAN
  /\ goodbye \in IdOrNone
  /\ stopped \in IdOrNone
  /\ ended \in EndedRecord \cup {NoEnded}
  /\ required \in BOOLEAN
  /\ token \in 1..MaxToken
  /\ code \in Codes
  /\ acts \in ActsRecord
  /\ target \in Targets
  /\ heldKey \in IdOrNone
  /\ running \in BOOLEAN
  /\ restarts \in 0..MaxRestarts
  /\ quitting \in BOOLEAN
  /\ endedAs \in [Ids -> Reasons \cup {"none"}]
  /\ logged \in SUBSET Ids
  /\ said \in IdOrNone

Init ==
  /\ session = NoSession
  /\ nextId = 1
  /\ updating = FALSE
  /\ goodbye = 0
  /\ stopped = 0
  /\ ended = NoEnded
  /\ required \in BOOLEAN
  /\ token = 1
  /\ code = 1
  /\ acts = NoActs
  /\ target = NoPeer
  /\ heldKey = 0
  /\ running = TRUE
  /\ restarts = 0
  /\ quitting = FALSE
  /\ endedAs = [i \in Ids |-> "none"]
  /\ logged = {}
  /\ said = 0

-----------------------------------------------------------------------------
(* What the handlers decide on.                                            *)

Active == session # NoSession

\* session_peer_matches: the same link and the same address, any port.
SamePeer(p, q) == p.link = q.link /\ p.host = q.host

\* ActiveSession::same_device.
SameDevice(h) ==
  IF session.hello.device # 0 /\ h.device # 0
  THEN session.hello.device = h.device
  ELSE SamePeer(session.hello.from, h.from)

\* Turned away before the credentials are looked at: an iPad of another
\* protocol version, or any iPad while an update takes over.
GateIgnoresUpdate(h) == h.v2
PassesGate(h) == h.v2 /\ ~updating

\* allocate_session_id.
IdReused == nextId
NextId == nextId + 1

\* Pairing::ack_token.
AckToken == IF required THEN token ELSE 0

\* An exact replay of the accepted handshake, credentials unchanged.
ReplaysWhateverToken(h) == Active /\ h = session.hello
Replays(h) ==
  /\ Active
  /\ h = session.hello
  /\ session.auth = AckToken

\* A client the host turns away for the session it already has: its own cable
\* session beats its Wi-Fi, and another device only gets a silent slot.
BusyNeverForOthers(h) ==
  Active /\ SameDevice(h) /\ session.hello.from.link = "usb" /\ h.from.link = "udp"
BusyOnlyForOthers(h) == Active /\ ~SameDevice(h) /\ ~session.held
Busy(h) ==
  /\ Active
  /\ \/ /\ SameDevice(h)
        /\ session.hello.from.link = "usb"
        /\ h.from.link = "udp"
     \/ ~SameDevice(h) /\ ~session.held

\* Pairing::authorize. "limited" is the answer of the failed-attempt limiter
\* and of the code budget, which module PairingLimits models.
Authorize(h, limited) ==
  IF ~required THEN "open"
  ELSE IF h.token = token THEN "token"
  ELSE IF h.from.link = "udp" /\ limited THEN "refused"
  ELSE IF h.code # 0 /\ h.code = code THEN "code"
  ELSE IF h.from.link = "usb" THEN "usb"
  ELSE "refused"

\* random_code draws any code but the one before: others may come back.
NewCodes == Codes \ {code}

\* handle_hello rotates the code that paired a client.
CodeKept(grant) == {code}
CodesAfter(grant) == IF grant = "code" THEN NewCodes ELSE {code}

\* A packet of the live session from its own client, not switching links.
FromClient(p, i) ==
  /\ Active
  /\ session.id = i
  /\ ~session.awaiting
  /\ SamePeer(session.hello.from, p)

\* The gate every message but HELLO2 passes first: the id, not yet the source.
NamesSession(i) == Active /\ session.id = i /\ ~session.awaiting

\* grant_keyframe: at most one IDR per KeyframeGap.
GrantsKeyframe == session.sinceKey >= KeyframeGap

\* ActiveSession::heard. A session on hold carries on, and asks for an IDR.
ResumesSilently == FALSE
ResumesKeyframe == session.held /\ GrantsKeyframe
HeardExtends(granted) ==
  [session EXCEPT !.left = @ + LivenessTimeout, !.silent = 0, !.held = FALSE]
HeardStaysHeld(granted) == [session EXCEPT !.left = LivenessTimeout, !.silent = 0]
Heard(granted) ==
  [session EXCEPT !.left = LivenessTimeout, !.silent = 0, !.held = FALSE,
                  !.sinceKey = IF granted THEN 0 ELSE @]

\* Session::end.
End(reason) ==
  /\ session' = NoSession
  /\ endedAs' = [endedAs EXCEPT ![session.id] = reason]

\* What Session::expire remembers for answer_ended.
Expired == [id |-> session.id, peer |-> session.hello.from, age |-> 0, gap |-> 0]

\* The transport task is free to take its next event.
Idle == running /\ acts = NoActs

-----------------------------------------------------------------------------
(* HELLO2: Session::handle_hello.                                          *)

Answer(status, i, t) == [NoActs EXCEPT !.ack = status, !.ackId = i, !.ackToken = t]

\* An iPad of another protocol version, or any during an update.
TurnAway(h) ==
  /\ Idle
  /\ ~PassesGate(h)
  /\ acts' = Answer("refused", 0, 0)
  /\ UNCHANGED <<session, nextId, updating, goodbye, stopped, ended, credentials,
                 target, heldKey, loop, quitting, history>>

\* The first ACK was lost: the same ACK again, and nothing else changes.
Reack(h) ==
  /\ Idle
  /\ PassesGate(h)
  /\ Replays(h)
  /\ acts' = Answer("ok", session.id, session.ackToken)
  /\ UNCHANGED <<session, nextId, updating, goodbye, stopped, ended, credentials,
                 target, heldKey, loop, quitting, history>>

\* Refused by authorize (a wrong code may spend the budget and rotate the
\* code), for a session that is kept, or because no new code could be drawn.
Refuse(h, limited, rotated) ==
  /\ Idle
  /\ PassesGate(h)
  /\ ~Replays(h)
  /\ LET grant == Authorize(h, limited) IN
       \/ /\ grant = "refused"
          /\ \/ UNCHANGED code
             \/ h.from.link = "udp" /\ ~limited /\ h.code # 0 /\ code' \in NewCodes
       \/ grant # "refused" /\ Busy(h) /\ UNCHANGED code
       \/ grant = "code" /\ ~Busy(h) /\ ~rotated /\ UNCHANGED code
  /\ acts' = Answer("refused", 0, 0)
  /\ UNCHANGED <<session, nextId, updating, goodbye, stopped, ended, required, token,
                 target, heldKey, loop, quitting, history>>

\* A new session: the slot is free, its own device connects again
\* (superseded), or another device takes over a silent one (expired).
Admit(h, limited) ==
  /\ Idle
  /\ PassesGate(h)
  /\ ~Replays(h) /\ ~Busy(h)
  /\ nextId <= MaxSessions
  /\ LET grant == Authorize(h, limited)
         auth == IF grant = "open" THEN 0 ELSE token
         given == IF grant \in {"code", "usb"} THEN token ELSE 0
         takenOver == Active /\ ~SameDevice(h)
     IN
       /\ grant # "refused"
       /\ code' \in CodesAfter(grant)
       /\ session' = [id |-> nextId, hello |-> h, auth |-> auth, ackToken |-> given,
                      left |-> LivenessTimeout, silent |-> 0, held |-> FALSE,
                      awaiting |-> FALSE, frames |-> FALSE, sinceKey |-> KeyframeGap]
       /\ nextId' = NextId
       /\ endedAs' = IF Active
                     THEN [endedAs EXCEPT ![session.id] =
                             IF takenOver THEN "liveness" ELSE "superseded"]
                     ELSE endedAs
       /\ ended' = IF takenOver THEN Expired ELSE ended
       /\ acts' = [Answer("ok", nextId, given) EXCEPT
                     !.target = MediaTarget(h),
                     !.idr = TRUE,
                     !.bye = IF takenOver THEN session.id ELSE 0,
                     !.ended = session.id]
  /\ UNCHANGED <<updating, goodbye, stopped, required, token, target, heldKey, loop,
                 quitting, logged, said>>

-----------------------------------------------------------------------------
(* Messages of a session: Session::handle.                                 *)

\* BYE for a switch to the cable keeps the session for TakeoverTimeout, so the
\* display outlives the gap between the two links; any other BYE ends it.
Bye(p, i, superseded) ==
  /\ Idle
  /\ FromClient(p, i)
  /\ IF superseded /\ p.link = "udp" /\ session.hello.device # 0
     THEN /\ session' = [session EXCEPT !.awaiting = TRUE, !.left = TakeoverTimeout]
          /\ UNCHANGED <<endedAs, acts>>
     ELSE /\ End("goodbye")
          /\ acts' = [NoActs EXCEPT !.lost = TRUE, !.ended = session.id]
  /\ UNCHANGED <<nextId, updating, goodbye, stopped, ended, credentials, target,
                 heldKey, loop, quitting, logged, said>>

\* A ping is answered and counts as a sign of life.
Ping(p, i) ==
  /\ Idle
  /\ FromClient(p, i)
  /\ session' = Heard(ResumesKeyframe)
  /\ acts' = [NoActs EXCEPT !.idr = ResumesKeyframe]
  /\ UNCHANGED <<nextId, updating, goodbye, stopped, ended, credentials, target,
                 heldKey, loop, quitting, history>>

\* A receiver report; complete frames mean the client had a picture.
Report(p, i, complete) ==
  /\ Idle
  /\ FromClient(p, i)
  /\ session' = [Heard(ResumesKeyframe) EXCEPT !.frames = @ \/ complete]
  /\ acts' = [NoActs EXCEPT !.idr = ResumesKeyframe]
  /\ UNCHANGED <<nextId, updating, goodbye, stopped, ended, credentials, target,
                 heldKey, loop, quitting, history>>

KeyframeRequest(p, i) ==
  /\ Idle
  /\ FromClient(p, i)
  /\ session' = Heard(GrantsKeyframe)
  /\ acts' = [NoActs EXCEPT !.idr = GrantsKeyframe]
  /\ UNCHANGED <<nextId, updating, goodbye, stopped, ended, credentials, target,
                 heldKey, loop, quitting, history>>

\* A NACK counts only over UDP and from a client that negotiated repair. The
\* datagrams it repairs are the retransmission ring's, which is left out.
Nack(p, i) ==
  /\ Idle
  /\ FromClient(p, i)
  /\ session.hello.from.link = "udp" /\ session.hello.nack
  /\ session' = Heard(ResumesKeyframe)
  /\ acts' = [NoActs EXCEPT !.idr = ResumesKeyframe]
  /\ UNCHANGED <<nextId, updating, goodbye, stopped, ended, credentials, target,
                 heldKey, loop, quitting, history>>

\* A press or release of a client that asked for input relay.
Input(p, i, key, late) ==
  /\ Idle
  /\ FromClient(p, i)
  /\ session.hello.input
  /\ session' = Heard(ResumesKeyframe)
  /\ acts' = [NoActs EXCEPT !.idr = ResumesKeyframe, !.key = key, !.keyOf = session.id,
                            !.late = late]
  /\ UNCHANGED <<nextId, updating, goodbye, stopped, ended, credentials, target,
                 heldKey, loop, quitting, history>>

\* answer_ended: a late packet of the session last ended for liveness means
\* its client missed the goodbye, which goes again at a limited rate.
AnswerEnded(p, i) ==
  /\ Idle
  /\ ~NamesSession(i)
  /\ ended # NoEnded
  /\ ended.id = i /\ SamePeer(ended.peer, p)
  /\ ended.age < EndedReplyFor /\ ended.gap >= EndedReplyGap
  /\ ended' = [ended EXCEPT !.gap = 0]
  /\ acts' = [NoActs EXCEPT !.answer = i]
  /\ UNCHANGED <<session, nextId, updating, goodbye, stopped, credentials, target,
                 heldKey, loop, quitting, history>>

\* link_lost: the USB tunnel of the session closed. A close with no transport
\* loop to hear it (run_hub) is not an action: nothing changes.
LinkLost(p) ==
  /\ Idle
  /\ p.link = "usb"
  /\ Active /\ SamePeer(session.hello.from, p)
  /\ End("linklost")
  /\ acts' = [NoActs EXCEPT !.lost = TRUE, !.ended = session.id]
  /\ UNCHANGED <<nextId, updating, goodbye, stopped, ended, credentials, target,
                 heldKey, loop, quitting, logged, said>>

-----------------------------------------------------------------------------
(* Time: Session::tick, called by the heartbeat and the liveness tick.     *)

RevokedIfPaired == required /\ session.auth \notin {0, token}
Revoked == required /\ session.auth # token
Overdue == session.left <= 0
\* A client that had a picture may only have lost its uplink: it is held.
Holds == session.frames /\ ~session.awaiting
HoldOverAtOnce == TRUE
HoldNeverOver == FALSE
HoldOver == session.left <= -HeldFor

\* What every tick takes over from an update that stopped the stream.
CarriedIfNobody == [NoActs EXCEPT !.bye = IF Active THEN 0 ELSE goodbye, !.ended = stopped]
CarriedLosesClient == [NoActs EXCEPT !.bye = goodbye, !.ended = stopped, !.lost = goodbye # 0]
Carried == [NoActs EXCEPT !.bye = goodbye, !.ended = stopped]

TickNobody ==
  /\ ~Active
  /\ acts' = [Carried EXCEPT !.lost = goodbye # 0]
  /\ UNCHANGED <<session, ended, endedAs>>

TickRevokedUnreported ==
  /\ Active /\ Revoked
  /\ End("revoked")
  /\ acts' = [Carried EXCEPT !.lost = TRUE]
  /\ UNCHANGED ended

TickRevoked ==
  /\ Active /\ Revoked
  /\ End("revoked")
  /\ acts' = [Carried EXCEPT !.lost = TRUE, !.ended = session.id]
  /\ UNCHANGED ended

TickExpired ==
  /\ Active /\ ~Revoked
  /\ Overdue /\ (~Holds \/ HoldOver)
  /\ IF session.awaiting
     THEN /\ End("goodbye")
          /\ acts' = [Carried EXCEPT !.lost = TRUE, !.ended = session.id]
          /\ UNCHANGED ended
     ELSE /\ End("liveness")
          /\ acts' = [Carried EXCEPT !.lost = TRUE, !.ended = session.id, !.bye = session.id]
          /\ ended' = Expired

TickHold ==
  /\ Active /\ ~Revoked
  /\ Overdue /\ Holds /\ ~HoldOver
  /\ ~session.held
  /\ session' = [session EXCEPT !.held = TRUE]
  /\ acts' = [Carried EXCEPT !.release = TRUE]
  /\ UNCHANGED <<ended, endedAs>>

TickQuiet ==
  /\ Active /\ ~Revoked
  /\ Overdue => Holds /\ ~HoldOver /\ session.held
  /\ acts' = Carried
  /\ UNCHANGED <<session, ended, endedAs>>

Tick ==
  /\ Idle
  /\ TickNobody \/ TickRevoked \/ TickExpired \/ TickHold \/ TickQuiet
  /\ goodbye' = 0
  /\ stopped' = 0
  /\ UNCHANGED <<nextId, updating, credentials, target, heldKey, loop, quitting,
                 logged, said>>

\* One unit of time passes.
Elapse ==
  /\ session' = IF Active
                THEN [session EXCEPT !.left = Max2(@ - 1, -HeldFor),
                                     !.silent = Min2(@ + 1, HoldLimit),
                                     !.sinceKey = Min2(@ + 1, KeyframeGap)]
                ELSE session
  /\ ended' = IF ended # NoEnded
              THEN [ended EXCEPT !.age = Min2(@ + 1, EndedReplyFor),
                                 !.gap = Min2(@ + 1, EndedReplyGap)]
              ELSE ended
  /\ UNCHANGED <<nextId, updating, goodbye, stopped, credentials, acts, target,
                 heldKey, loop, quitting, history>>

-----------------------------------------------------------------------------
(* The transport loop around the session.                                  *)

\* What input the PC holds once a press or release landed. The geometry of
\* the captured output may be unknown (mapped FALSE): the event is dropped.
\* Late input lands only if it releases.
HeldThroughHold(mapped) ==
  IF acts.target # NoPeer \/ acts.lost THEN 0
  ELSE IF acts.key = "press" /\ mapped /\ ~acts.late THEN acts.keyOf
  ELSE IF acts.key = "release" /\ mapped THEN 0
  ELSE heldKey
HeldAfter(mapped) ==
  IF acts.target # NoPeer \/ acts.lost \/ acts.release THEN 0
  ELSE IF acts.key = "press" /\ mapped /\ ~acts.late THEN acts.keyOf
  ELSE IF acts.key # "none" /\ mapped /\ (acts.key = "release" \/ heldKey # acts.keyOf) THEN 0
  ELSE heldKey

\* act and execute_actions: everything the session decided is carried out.
Act(mapped) ==
  /\ running
  /\ acts # NoActs
  /\ heldKey' = HeldAfter(mapped)
  /\ target' = IF acts.lost THEN NoPeer
               ELSE IF acts.target # NoPeer THEN acts.target
               ELSE target
  /\ logged' = IF acts.ended # 0 THEN logged \cup {acts.ended} ELSE logged
  /\ said' = Max2(said, acts.bye)
  /\ acts' = NoActs
  /\ UNCHANGED <<session, nextId, updating, goodbye, stopped, ended, credentials, loop,
                 quitting, endedAs>>

\* The loop ends with its pipeline: a goodbye an update left is said before
\* the links close, and the input relay drops, which releases what it holds.
TransportExit ==
  /\ Idle
  /\ restarts < MaxRestarts
  /\ running' = FALSE
  /\ restarts' = restarts + 1
  /\ goodbye' = 0
  /\ said' = Max2(said, goodbye)
  /\ heldKey' = 0
  /\ UNCHANGED <<session, nextId, updating, stopped, ended, credentials, acts, target,
                 quitting, endedAs, logged>>

\* The next pipeline listens: Session::transport_resumed. The gap does not
\* count against the client.
TransportStart ==
  /\ ~running /\ ~quitting
  /\ running' = TRUE
  /\ session' = IF Active
                THEN [session EXCEPT !.left = Max2(@, LivenessTimeout)]
                ELSE session
  /\ UNCHANGED <<nextId, updating, goodbye, stopped, ended, credentials, acts, target,
                 heldKey, restarts, quitting, history>>

-----------------------------------------------------------------------------
(* Other threads.                                                          *)

\* begin_update: refused while a client streams, unless the user chose to
\* stop the stream.
BeginUpdate(stopStream) ==
  /\ Active => stopStream
  /\ updating' = TRUE
  /\ IF Active
     THEN End("shutdown") /\ goodbye' = session.id /\ stopped' = session.id
     ELSE UNCHANGED <<session, endedAs, goodbye, stopped>>
  /\ UNCHANGED <<nextId, ended, credentials, acts, target, heldKey, loop, quitting,
                 logged, said>>

\* end_update: the installer could not be started.
EndUpdate ==
  /\ updating
  /\ updating' = FALSE
  /\ UNCHANGED <<session, nextId, goodbye, stopped, ended, credentials, acts, target,
                 heldKey, loop, quitting, history>>

\* shut_down: the app quits and reports the stream it stops itself.
ShutDownTwice ==
  /\ ~quitting
  /\ quitting' = TRUE
  /\ IF Active THEN End("shutdown") ELSE UNCHANGED <<session, endedAs>>
  /\ logged' = logged \cup ({IF stopped # 0 THEN stopped ELSE session.id} \ {0})
  /\ UNCHANGED <<nextId, updating, goodbye, stopped, ended, credentials, acts, target,
                 heldKey, loop, said>>
ShutDown ==
  /\ ~quitting
  /\ quitting' = TRUE
  /\ IF Active THEN End("shutdown") ELSE UNCHANGED <<session, endedAs>>
  /\ logged' = logged \cup ({IF stopped # 0 THEN stopped ELSE session.id} \ {0})
  /\ stopped' = 0
  /\ UNCHANGED <<nextId, updating, goodbye, ended, credentials, acts, target, heldKey,
                 loop, said>>

\* "Forget all iPads": regenerate_token, which also rotates the code.
RegenerateToken ==
  /\ token < MaxToken
  /\ token' = token + 1
  /\ code' \in NewCodes
  /\ UNCHANGED <<session, nextId, updating, goodbye, stopped, ended, required, acts,
                 target, heldKey, loop, quitting, history>>

\* rotate_code, resume_code_pairing: the PC shows a new code.
RotateCode ==
  /\ code' \in NewCodes
  /\ UNCHANGED <<session, nextId, updating, goodbye, stopped, ended, required, token,
                 acts, target, heldKey, loop, quitting, history>>

\* The "require pairing" switch.
SetRequired ==
  /\ required' = ~required
  /\ UNCHANGED <<session, nextId, updating, goodbye, stopped, ended, token, code, acts,
                 target, heldKey, loop, quitting, history>>

-----------------------------------------------------------------------------
ClientStep ==
  \/ \E h \in Hellos :
       \/ TurnAway(h)
       \/ Reack(h)
       \/ \E limited, rotated \in BOOLEAN : Refuse(h, limited, rotated)
       \/ \E limited \in BOOLEAN : Admit(h, limited)
  \/ \E p \in Sources, i \in Ids :
       \/ \E superseded \in BOOLEAN : Bye(p, i, superseded)
       \/ Ping(p, i)
       \/ \E complete \in BOOLEAN : Report(p, i, complete)
       \/ KeyframeRequest(p, i)
       \/ Nack(p, i)
       \/ \E key \in {"press", "release"}, late \in BOOLEAN : Input(p, i, key, late)
       \/ AnswerEnded(p, i)
  \/ \E p \in Sources : LinkLost(p)

TransportStep ==
  \/ Tick
  \/ \E mapped \in BOOLEAN : Act(mapped)
  \/ TransportExit
  \/ TransportStart

GuiStep ==
  \/ \E stopStream \in BOOLEAN : BeginUpdate(stopStream)
  \/ EndUpdate
  \/ ShutDown
  \/ RegenerateToken
  \/ RotateCode
  \/ SetRequired

Next == ClientStep \/ TransportStep \/ GuiStep \/ Elapse

Spec == Init /\ [][Next]_vars

\* The select of the transport loop is biased: a due tick goes before the
\* next datagram, so a stream of datagrams cannot starve it (SF). A decision
\* taken is executed, a pipeline that stopped is started again, time passes.
Fairness ==
  /\ SF_vars(Tick)
  /\ WF_vars(\E mapped \in BOOLEAN : Act(mapped))
  /\ WF_vars(TransportStart)
  /\ WF_vars(Elapse)

FairSpec == Spec /\ Fairness

-----------------------------------------------------------------------------
(* Safety invariants.                                                      *)

\* While an update takes over, no client streams: begin_update checks and
\* closes admission under one lock, so no HELLO2 slips in between.
UpdateExclusive == updating => ~Active

\* Whenever the transport task is free to send video, it sends the live
\* session's video to that session's own media address: superseding, taking
\* over, losing a client and stopping it all leave the target in step with the
\* session, although the two are changed under different locks.
TargetFollowsSession ==
  (Idle /\ Active) => target = MediaTarget(session.hello)

\* Input the PC holds belongs to the live session, and not to one on hold:
\* whatever ends, replaces or suspends a session releases its keys. Only a
\* stop by an update or by quitting leaves the release to the next tick.
HeldInputHasOwner ==
  (Idle /\ heldKey # 0) =>
    \/ Active /\ session.id = heldKey /\ ~session.held
    \/ endedAs[heldKey] = "shutdown"

\* No goodbye, sent, pending or replayed for late packets, ever names the
\* session that is live: an iPad that was just admitted is not told to go.
GoodbyeNeverForLive ==
  Active => session.id \notin {goodbye, ended.id, acts.bye, acts.answer}

\* client_lost clears the media target, so it must never be decided while a
\* session lives; neither between the decision and its execution.
LostMeansNobody == acts.lost => ~Active

\* Together: whatever session ends, is replaced or resumes around it, neither
\* a goodbye nor client_lost hits the session that is live.
LiveLeftAlone == GoodbyeNeverForLive /\ LostMeansNobody

\* A session's deadline is never ahead of its silence: it lapses only after a
\* full LivenessTimeout without a packet. (A BYE for the cable shortens it.)
\* A session is on hold only after that, and only if it had a picture.
SilenceBound ==
  Active =>
    /\ ~session.awaiting => session.left + session.silent >= LivenessTimeout
    /\ session.held => session.silent >= LivenessTimeout /\ session.frames

\* Reported once: an end waits in at most one place, and is not waiting once
\* it was logged.
EndReportedOnce ==
  /\ acts.ended # 0 => acts.ended \notin logged /\ acts.ended # stopped
  /\ stopped # 0 => stopped \notin logged

\* Every end but a stop by an update or by quitting reaches its summary line.
ClientEndsReported ==
  \A i \in Ids : endedAs[i] \notin {"none", "shutdown"} => i \in logged \cup {acts.ended}

\* A stop by the app loses its report only to the end of another session it
\* meets in the slot, which is reported: a later one before the tick, or the
\* one before that waits when the app quits.
AppEndsReported ==
  \A i \in Ids : endedAs[i] = "shutdown" =>
    \E k \in (logged \cup {acts.ended, stopped}) \ {0} :
      k >= i \/ (quitting /\ endedAs[k] = "shutdown")

\* Together: none is reported twice and each is reported, save the stop by the
\* app that meets another end, in whatever order sessions end between two ticks
\* (tick, begin_update and shut_down share the slots).
EndsReported == EndReportedOnce /\ ClientEndsReported /\ AppEndsReported

\* What the comments on Session::stopped and Session::shut_down promise of
\* every end: it is reported, or waits for the next tick. The code loses one
\* when a stop by an update is followed by a second end before that tick.
EveryEndReported ==
  \A i \in Ids : endedAs[i] # "none" => i \in logged \cup {acts.ended, stopped}

-----------------------------------------------------------------------------
(* Step properties.                                                        *)

\* Another device gets the slot of a live session only when its client had a
\* picture and has been silent for LivenessTimeout, whatever order packets,
\* ticks and restarts came in.
OnlySilentSlotTaken ==
  [][(Active /\ session' # NoSession /\ session'.id # session.id
        /\ ~SameDevice(session'.hello))
     => session.frames /\ session.silent >= LivenessTimeout]_vars

\* A cable session is never traded for the Wi-Fi of its own device.
NoDowngradeToWifi ==
  [][(Active /\ session' # NoSession /\ session'.id # session.id
        /\ SameDevice(session'.hello) /\ session.hello.from.link = "usb")
     => session'.hello.from.link = "usb"]_vars

\* A session ends for liveness only after LivenessTimeout of silence; one that
\* had a picture and was not taken over, only after HoldLimit.
LivenessEndsAreSilent ==
  [][\A i \in Ids : (endedAs[i] # "liveness" /\ endedAs'[i] = "liveness") =>
       /\ session.silent >= LivenessTimeout
       /\ session.frames /\ session' = NoSession => session.silent >= HoldLimit]_vars

\* A client without the token that is let in by the code on display leaves
\* another code there: two clients never pair with one look at the PC.
CodeReplaced ==
  [][(session' # NoSession /\ session'.id # session.id /\ required
        /\ session'.hello.token # token /\ session'.hello.code = code)
     => code' # code]_vars

\* An ACK hands out a token only to a client that just paired or repeats the
\* handshake that paired it, and then the token that is valid now: resetting
\* the pairing never leaks the new token to a client of the old one, and a
\* replayed ACK is never one of revoked credentials.
AckTokenIsCurrent ==
  [][(acts = NoActs /\ acts'.ackToken # 0) =>
       /\ required /\ acts'.ackToken = token
       /\ session' # NoSession /\ session'.auth = token]_vars

\* A session of revoked credentials does not survive the next tick.
RevokedAtTick ==
  [][(Tick /\ Active /\ required /\ session.auth # token) => session' = NoSession]_vars

\* Together: what pairing promises while codes and tokens are replaced under
\* HELLO2s that are on their way and sessions that run.
PairingSound == CodeReplaced /\ AckTokenIsCurrent /\ RevokedAtTick

\* A client heard again after a hold always gets an IDR: the rate limit on
\* keyframe requests never swallows it.
ResumeForcesIdr ==
  [][(Active /\ session.held /\ session' # NoSession /\ session'.id = session.id
        /\ ~session'.held)
     => acts'.idr]_vars

-----------------------------------------------------------------------------
(* Liveness.                                                               *)

\* A session that lasts is one whose client is heard again and again, unless
\* the app quits: holds, takeovers that never come and restarts of the
\* pipeline do not keep a silent client's slot for ever.
SilentSessionEnds ==
  \A i \in Ids :
    (<>[](session.id = i)) => ([]<>(session.id = i /\ session.silent = 0) \/ <>quitting)

\* The client of a stream stopped by an update is told, if only by the loop
\* that ends. The slot holds one goodbye: if an admitted client's stream ends
\* before the tick that would say it, the goodbye said is that later one.
GoodbyeIsSaid ==
  \A i \in Ids : (goodbye = i /\ ~quitting) ~> (said >= i \/ quitting)
=============================================================================
