---------------------------- MODULE SessionProofs ----------------------------
(***************************************************************************)
(* Theorems about Session, for every set of HELLO2 attempts, every timing  *)
(* that TimingAssumption allows and every bound: its types, the safety of  *)
(* the slot, and that Session implements Slot.                             *)
(***************************************************************************)
EXTENDS Session, SessionSlot, TLAPS

-----------------------------------------------------------------------------
(* The decisions are well-typed records.                                   *)

LEMMA NoActsType == NoActs \in ActsRecord
BY BoundsAssumption DEF NoActs, ActsRecord, IdOrNone, Tokens, Targets

LEMMA TargetType == NoPeer \in Targets /\ \A h \in Hellos : MediaTarget(h) \in Targets
BY DEF Targets

LEMMA AnswerType ==
  ASSUME NEW status \in {"ok", "refused"}, NEW i \in IdOrNone, NEW t \in Tokens
  PROVE  Answer(status, i, t) \in ActsRecord
BY NoActsType DEF Answer, NoActs, ActsRecord

LEMMA CarriedType == TypeOK => Carried \in ActsRecord
BY NoActsType DEF Carried, NoActs, ActsRecord, TypeOK

\* What the handlers change in a decision keeps it well-typed.
LEMMA EndedActsType ==
  ASSUME NEW a \in ActsRecord, NEW lost \in BOOLEAN, NEW e \in IdOrNone, NEW b \in IdOrNone
  PROVE  /\ [a EXCEPT !.lost = lost] \in ActsRecord
         /\ [a EXCEPT !.lost = lost, !.ended = e] \in ActsRecord
         /\ [a EXCEPT !.lost = lost, !.ended = e, !.bye = b] \in ActsRecord
BY DEF ActsRecord

LEMMA AdmitActsType ==
  ASSUME NEW a \in ActsRecord, NEW t \in Targets, NEW b \in IdOrNone, NEW e \in IdOrNone
  PROVE  [a EXCEPT !.target = t, !.idr = TRUE, !.bye = b, !.ended = e] \in ActsRecord
BY DEF ActsRecord

LEMMA HeardActsType ==
  ASSUME NEW a \in ActsRecord, NEW g \in BOOLEAN, NEW key \in {"press", "release"},
         NEW i \in IdOrNone, NEW late \in BOOLEAN
  PROVE  /\ [a EXCEPT !.idr = g] \in ActsRecord
         /\ [a EXCEPT !.idr = g, !.key = key, !.keyOf = i, !.late = late] \in ActsRecord
         /\ [a EXCEPT !.answer = i] \in ActsRecord
         /\ [a EXCEPT !.release = TRUE] \in ActsRecord
BY DEF ActsRecord

LEMMA NoSessionNotRecord == NoSession \notin SessionRecord /\ NoEnded \notin EndedRecord
BY BoundsAssumption DEF NoSession, NoEnded, SessionRecord, EndedRecord, Ids

LEMMA ActiveType == ASSUME TypeOK, Active PROVE session \in SessionRecord
BY DEF TypeOK, Active

LEMMA ActiveId == ASSUME TypeOK PROVE session.id \in IdOrNone /\ (Active => session.id \in Ids)
BY ActiveType, BoundsAssumption DEF Active, NoSession, SessionRecord, Ids, IdOrNone

LEMMA GrantType ==
  ASSUME TypeOK, Active PROVE GrantsKeyframe \in BOOLEAN /\ ResumesKeyframe \in BOOLEAN
BY DEF GrantsKeyframe, ResumesKeyframe

LEMMA HeardType ==
  ASSUME TypeOK, Active, NEW g \in BOOLEAN
  PROVE  Heard(g) \in SessionRecord
<1>1. session \in SessionRecord
  BY ActiveType
<1>2. LivenessTimeout \in (-HeldFor)..LivenessTimeout /\ 0 \in 0..HoldLimit /\ 0 \in 0..KeyframeGap
  BY TimingAssumption DEF HeldFor
<1>3. CASE g
  BY <1>1, <1>2, <1>3 DEF Heard, SessionRecord
<1>4. CASE ~g
  BY <1>1, <1>2, <1>4 DEF Heard, SessionRecord
<1> QED
  BY <1>3, <1>4

LEMMA ExpiredType == ASSUME TypeOK, Active PROVE Expired \in EndedRecord
BY ActiveType, TimingAssumption DEF Expired, EndedRecord, SessionRecord, Sources

-----------------------------------------------------------------------------
(* Type correctness.                                                       *)

LEMMA InitType == Init => TypeOK
<1> SUFFICES ASSUME Init PROVE TypeOK
  OBVIOUS
<1>1. endedAs \in [Ids -> Reasons \cup {"none"}]
  BY DEF Init
<1>2. nextId \in 1..(MaxSessions + 1) /\ token \in 1..MaxToken /\ code \in Codes
  BY BoundsAssumption DEF Init, Codes
<1>3. {goodbye, stopped, heldKey} \subseteq IdOrNone /\ restarts \in 0..MaxRestarts
  BY BoundsAssumption DEF Init, IdOrNone
<1> QED
  BY <1>1, <1>2, <1>3, NoActsType, TargetType DEF Init, TypeOK

LEMMA StepType == TypeOK /\ [Next]_vars => TypeOK'
<1> SUFFICES ASSUME TypeOK, [Next]_vars PROVE TypeOK'
  OBVIOUS
<1> USE BoundsAssumption
<1>1. ASSUME NEW h \in Hellos, TurnAway(h) PROVE TypeOK'
  BY <1>1, AnswerType DEF TurnAway, TypeOK, credentials, loop, history, IdOrNone, Tokens
<1>2. ASSUME NEW h \in Hellos, Reack(h) PROVE TypeOK'
  <2>1. session.id \in IdOrNone /\ session.ackToken \in Tokens
    BY <1>2, ActiveType DEF Reack, Replays, SessionRecord, Ids, IdOrNone
  <2> QED
    BY <1>2, <2>1, AnswerType DEF Reack, TypeOK, credentials, loop, history
<1>3. ASSUME NEW h \in Hellos, NEW limited \in BOOLEAN, NEW rotated \in BOOLEAN,
             Refuse(h, limited, rotated)
      PROVE  TypeOK'
  <2>1. code' \in Codes
    BY <1>3 DEF Refuse, TypeOK, NewCodes
  <2> QED
    BY <1>3, <2>1, AnswerType DEF Refuse, TypeOK, loop, history, IdOrNone, Tokens
<1>4. ASSUME NEW h \in Hellos, NEW limited \in BOOLEAN, Admit(h, limited) PROVE TypeOK'
  <2>1. nextId \in Ids /\ nextId' \in 1..(MaxSessions + 1)
    BY <1>4 DEF Admit, TypeOK, Ids, NextId
  <2>2. code' \in Codes
    BY <1>4 DEF Admit, TypeOK, CodesAfter, NewCodes
  <2> DEFINE grant == Authorize(h, limited)
             auth == IF grant = "open" THEN 0 ELSE token
             given == IF grant \in {"code", "usb"} THEN token ELSE 0
             taken == IF Active /\ ~SameDevice(h) THEN session.id ELSE 0
  <2>3. auth \in Tokens /\ given \in Tokens
    BY DEF TypeOK, Tokens
  <2>4. session' \in SessionRecord
    <3>1. session' = [id |-> nextId, hello |-> h, auth |-> auth, ackToken |-> given,
                      left |-> LivenessTimeout, silent |-> 0, held |-> FALSE,
                      awaiting |-> FALSE, frames |-> FALSE, sinceKey |-> KeyframeGap]
      BY <1>4 DEF Admit
    <3> HIDE DEF auth, given
    <3> QED
      BY <2>1, <2>3, <3>1, TimingAssumption DEF SessionRecord, HeldFor
  <2>5. session.id \in IdOrNone /\ (Active => session.id \in Ids)
    BY ActiveId
  <2>6. endedAs' \in [Ids -> Reasons \cup {"none"}]
    BY <1>4, <2>5 DEF Admit, TypeOK, Reasons
  <2>7. ended' \in EndedRecord \cup {NoEnded}
    BY <1>4, ExpiredType DEF Admit, TypeOK
  <2>8. acts' \in ActsRecord
    <3>1. nextId \in IdOrNone /\ MediaTarget(h) \in Targets
      BY <2>1, TargetType DEF Ids, IdOrNone
    <3>2. taken \in IdOrNone
      BY ActiveId DEF IdOrNone
    <3>3. acts' = [Answer("ok", nextId, given) EXCEPT
                     !.target = MediaTarget(h), !.idr = TRUE, !.bye = taken,
                     !.ended = session.id]
      BY <1>4 DEF Admit
    <3> HIDE DEF given, taken
    <3>4. Answer("ok", nextId, given) \in ActsRecord
      BY <2>3, <3>1, AnswerType
    <3> QED
      BY <3>1, <3>2, <3>3, <3>4, ActiveId, AdmitActsType
  <2> QED
    BY <1>4, <2>1, <2>2, <2>4, <2>6, <2>7, <2>8 DEF Admit, TypeOK, loop
<1>5. ASSUME NEW p \in Sources, NEW i \in Ids, NEW superseded \in BOOLEAN,
             Bye(p, i, superseded)
      PROVE  TypeOK'
  <2>1. session \in SessionRecord
    BY <1>5, ActiveType DEF Bye, FromClient
  <2>2. TakeoverTimeout \in (-HeldFor)..LivenessTimeout
    BY TimingAssumption DEF HeldFor
  <2>3. CASE superseded /\ p.link = "udp" /\ session.hello.device # 0
    <3>1. session' \in SessionRecord
      BY <1>5, <2>1, <2>2, <2>3 DEF Bye, SessionRecord
    <3> QED
      BY <1>5, <2>3, <3>1 DEF Bye, TypeOK, credentials, loop
  <2>4. CASE ~(superseded /\ p.link = "udp" /\ session.hello.device # 0)
    <3>1. session' = NoSession /\ endedAs' \in [Ids -> Reasons \cup {"none"}]
      BY <1>5, <2>4 DEF Bye, End, TypeOK, Reasons
    <3>2. acts' \in ActsRecord
      BY <1>5, <2>4, ActiveId, NoActsType, EndedActsType DEF Bye, IdOrNone
    <3> QED
      BY <1>5, <2>4, <3>1, <3>2 DEF Bye, TypeOK, credentials, loop
  <2> QED
    BY <2>3, <2>4
<1>6. ASSUME NEW p \in Sources, NEW i \in Ids, Ping(p, i)
      PROVE  TypeOK'
  <2>1. Active
    BY <1>6 DEF Ping, FromClient
  <2>2. GrantsKeyframe \in BOOLEAN /\ ResumesKeyframe \in BOOLEAN
    BY <2>1, GrantType
  <2>3. session' \in SessionRecord
    BY <1>6, <2>1, <2>2, HeardType DEF Ping
  <2>4. acts' \in ActsRecord
    BY <1>6, <2>2, NoActsType, ActiveId, HeardActsType DEF Ping
  <2> QED
    BY <1>6, <2>3, <2>4 DEF Ping, TypeOK, credentials, loop, history
<1>7. ASSUME NEW p \in Sources, NEW i \in Ids, NEW complete \in BOOLEAN,
             Report(p, i, complete)
      PROVE  TypeOK'
  <2>1. Active
    BY <1>7 DEF Report, FromClient
  <2>2. GrantsKeyframe \in BOOLEAN /\ ResumesKeyframe \in BOOLEAN
    BY <2>1, GrantType
  <2>3. Heard(ResumesKeyframe) \in SessionRecord
    BY <2>1, <2>2, HeardType
  <2>4. session' \in SessionRecord
    BY <1>7, <2>3 DEF Report, SessionRecord
  <2>5. acts' \in ActsRecord
    BY <1>7, <2>2, NoActsType, ActiveId, HeardActsType DEF Report
  <2> QED
    BY <1>7, <2>4, <2>5 DEF Report, TypeOK, credentials, loop, history
<1>8. ASSUME NEW p \in Sources, NEW i \in Ids, KeyframeRequest(p, i)
      PROVE  TypeOK'
  <2>1. Active
    BY <1>8 DEF KeyframeRequest, FromClient
  <2>2. GrantsKeyframe \in BOOLEAN /\ ResumesKeyframe \in BOOLEAN
    BY <2>1, GrantType
  <2>3. session' \in SessionRecord
    BY <1>8, <2>1, <2>2, HeardType DEF KeyframeRequest
  <2>4. acts' \in ActsRecord
    BY <1>8, <2>2, NoActsType, ActiveId, HeardActsType DEF KeyframeRequest
  <2> QED
    BY <1>8, <2>3, <2>4 DEF KeyframeRequest, TypeOK, credentials, loop, history
<1>9. ASSUME NEW p \in Sources, NEW i \in Ids, Nack(p, i)
      PROVE  TypeOK'
  <2>1. Active
    BY <1>9 DEF Nack, FromClient
  <2>2. GrantsKeyframe \in BOOLEAN /\ ResumesKeyframe \in BOOLEAN
    BY <2>1, GrantType
  <2>3. session' \in SessionRecord
    BY <1>9, <2>1, <2>2, HeardType DEF Nack
  <2>4. acts' \in ActsRecord
    BY <1>9, <2>2, NoActsType, ActiveId, HeardActsType DEF Nack
  <2> QED
    BY <1>9, <2>3, <2>4 DEF Nack, TypeOK, credentials, loop, history
<1>10. ASSUME NEW p \in Sources, NEW i \in Ids, NEW key \in {"press", "release"},
              NEW late \in BOOLEAN, Input(p, i, key, late)
      PROVE  TypeOK'
  <2>1. Active
    BY <1>10 DEF Input, FromClient
  <2>2. GrantsKeyframe \in BOOLEAN /\ ResumesKeyframe \in BOOLEAN
    BY <2>1, GrantType
  <2>3. session' \in SessionRecord
    BY <1>10, <2>1, <2>2, HeardType DEF Input
  <2>4. acts' \in ActsRecord
    BY <1>10, <2>2, NoActsType, ActiveId, HeardActsType DEF Input
  <2> QED
    BY <1>10, <2>3, <2>4 DEF Input, TypeOK, credentials, loop, history
<1>11. ASSUME NEW p \in Sources, NEW i \in Ids, AnswerEnded(p, i) PROVE TypeOK'
  <2>1. ended' \in EndedRecord
    BY <1>11, TimingAssumption DEF AnswerEnded, TypeOK, EndedRecord
  <2>2. acts' \in ActsRecord
    <3>1. i \in IdOrNone
      BY DEF Ids, IdOrNone
    <3> QED
      BY <1>11, <3>1, NoActsType, HeardActsType DEF AnswerEnded
  <2> QED
    BY <1>11, <2>1, <2>2 DEF AnswerEnded, TypeOK, credentials, loop, history
<1>12. ASSUME NEW p \in Sources, LinkLost(p) PROVE TypeOK'
  <2>1. session \in SessionRecord
    BY <1>12, ActiveType DEF LinkLost
  <2>2. session' = NoSession /\ endedAs' \in [Ids -> Reasons \cup {"none"}]
    BY <1>12 DEF LinkLost, End, TypeOK, Reasons
  <2>3. acts' \in ActsRecord
    BY <1>12, ActiveId, NoActsType, EndedActsType DEF LinkLost, IdOrNone
  <2> QED
    BY <1>12, <2>2, <2>3 DEF LinkLost, TypeOK, credentials, loop
<1>13. ASSUME Tick PROVE TypeOK'
  <2>1. /\ session' \in SessionRecord \cup {NoSession}
        /\ ended' \in EndedRecord \cup {NoEnded}
        /\ endedAs' \in [Ids -> Reasons \cup {"none"}]
        /\ acts' \in ActsRecord
    <3>1. CASE TickNobody
      <4>1. (goodbye # 0) \in BOOLEAN
        OBVIOUS
      <4> QED
        BY <3>1, <4>1, CarriedType, ActiveId, EndedActsType DEF TickNobody, TypeOK
    <3>2. CASE TickRevoked
      BY <3>2, CarriedType, ActiveId, EndedActsType DEF TickRevoked, TypeOK, End, Reasons
    <3>3. CASE TickExpired
      <4>1. session' = NoSession /\ ended' \in EndedRecord \cup {NoEnded}
        BY <3>3, ExpiredType DEF TickExpired, End, TypeOK
      <4>2. endedAs' \in [Ids -> Reasons \cup {"none"}]
        BY <3>3 DEF TickExpired, End, TypeOK, Reasons
      <4>3. acts' \in ActsRecord
        <5>1. CASE session.awaiting
          <6>1. acts' = [Carried EXCEPT !.lost = TRUE, !.ended = session.id]
            BY <3>3, <5>1 DEF TickExpired
          <6> QED
            BY <6>1, CarriedType, ActiveId, EndedActsType
        <5>2. CASE ~session.awaiting
          <6>1. acts' = [Carried EXCEPT !.lost = TRUE, !.ended = session.id, !.bye = session.id]
            BY <3>3, <5>2 DEF TickExpired
          <6> QED
            BY <6>1, CarriedType, ActiveId, EndedActsType
        <5> QED
          BY <5>1, <5>2
      <4> QED
        BY <4>1, <4>2, <4>3
    <3>4. CASE TickHold
      <4>1. session' \in SessionRecord
        BY <3>4, ActiveType DEF TickHold, SessionRecord
      <4>2. acts' \in ActsRecord
        BY <3>4, CarriedType, ActiveId, HeardActsType DEF TickHold
      <4> QED
        BY <3>4, <4>1, <4>2 DEF TickHold, TypeOK
    <3>5. CASE TickQuiet
      BY <3>5, CarriedType DEF TickQuiet, TypeOK
    <3> QED
      BY <1>13, <3>1, <3>2, <3>3, <3>4, <3>5 DEF Tick
  <2> QED
    BY <1>13, <2>1 DEF Tick, TypeOK, credentials, loop, IdOrNone
<1>14. ASSUME Elapse PROVE TypeOK'
  <2>1. session' \in SessionRecord \cup {NoSession}
    <3>1. CASE Active
      <4>1. session \in SessionRecord
        BY <3>1, ActiveType
      <4>2. /\ Max2(session.left - 1, -HeldFor) \in (-HeldFor)..LivenessTimeout
            /\ Min2(session.silent + 1, HoldLimit) \in 0..HoldLimit
            /\ Min2(session.sinceKey + 1, KeyframeGap) \in 0..KeyframeGap
        BY <4>1, TimingAssumption DEF SessionRecord, Max2, Min2, HeldFor
      <4> QED
        BY <1>14, <3>1, <4>1, <4>2 DEF Elapse, SessionRecord
    <3>2. CASE ~Active
      BY <1>14, <3>2 DEF Elapse, Active
    <3> QED
      BY <3>1, <3>2
  <2>2. ended' \in EndedRecord \cup {NoEnded}
    <3>1. CASE ended # NoEnded
      <4>1. ended \in EndedRecord
        BY <3>1 DEF TypeOK
      <4>2. /\ Min2(ended.age + 1, EndedReplyFor) \in 0..EndedReplyFor
            /\ Min2(ended.gap + 1, EndedReplyGap) \in 0..EndedReplyGap
        BY <4>1, TimingAssumption DEF EndedRecord, Min2
      <4> QED
        BY <1>14, <3>1, <4>1, <4>2 DEF Elapse, EndedRecord
    <3>2. CASE ended = NoEnded
      BY <1>14, <3>2 DEF Elapse
    <3> QED
      BY <3>1, <3>2
  <2> QED
    BY <1>14, <2>1, <2>2 DEF Elapse, TypeOK, credentials, loop, history
<1>15. ASSUME NEW mapped \in BOOLEAN, Act(mapped) PROVE TypeOK'
  <2>1. acts.keyOf \in IdOrNone /\ acts.ended \in IdOrNone /\ acts.target \in Targets
    BY DEF TypeOK, ActsRecord
  <2>2. heldKey' \in IdOrNone
    BY <1>15, <2>1 DEF Act, HeldAfter, TypeOK, IdOrNone
  <2>3. target' \in Targets
    BY <1>15, <2>1, TargetType DEF Act, TypeOK
  <2>4. logged' \in SUBSET Ids
    <3>1. acts.ended # 0 => acts.ended \in Ids
      BY <2>1 DEF IdOrNone, Ids
    <3> QED
      BY <1>15, <3>1 DEF Act, TypeOK
  <2>5. said' \in IdOrNone
    <3>1. acts.bye \in IdOrNone
      BY DEF TypeOK, ActsRecord
    <3> QED
      BY <1>15, <3>1 DEF Act, TypeOK, Max2
  <2> QED
    BY <1>15, <2>2, <2>3, <2>4, <2>5, NoActsType DEF Act, TypeOK, credentials, loop
<1>16. ASSUME TransportExit PROVE TypeOK'
  <2>1. restarts' \in 0..MaxRestarts
    BY <1>16 DEF TransportExit, TypeOK
  <2>2. goodbye' \in IdOrNone /\ heldKey' \in IdOrNone /\ said' \in IdOrNone
    <3>1. 0 \in IdOrNone
      BY DEF IdOrNone
    <3> QED
      BY <1>16, <3>1 DEF TransportExit, TypeOK, Max2
  <2> QED
    BY <1>16, <2>1, <2>2 DEF TransportExit, TypeOK, credentials
<1>17. ASSUME TransportStart PROVE TypeOK'
  <2>1. CASE Active
    <3>1. session \in SessionRecord /\ Max2(session.left, LivenessTimeout) = LivenessTimeout
      BY <2>1, ActiveType, TimingAssumption DEF SessionRecord, Max2, HeldFor
    <3>2. session' \in SessionRecord
      BY <1>17, <2>1, <3>1, TimingAssumption DEF TransportStart, SessionRecord, HeldFor
    <3> QED
      BY <1>17, <3>2 DEF TransportStart, TypeOK, credentials, history
  <2>2. CASE ~Active
    BY <1>17, <2>2 DEF TransportStart, TypeOK, credentials, history
  <2> QED
    BY <2>1, <2>2
<1>18. ASSUME NEW stopStream \in BOOLEAN, BeginUpdate(stopStream) PROVE TypeOK'
  <2>1. CASE Active
    <3>1. session.id \in IdOrNone
      BY <2>1, ActiveType DEF SessionRecord, Ids, IdOrNone
    <3> QED
      BY <1>18, <2>1, <3>1 DEF BeginUpdate, End, TypeOK, credentials, loop, Reasons
  <2>2. CASE ~Active
    BY <1>18, <2>2 DEF BeginUpdate, TypeOK, credentials, loop
  <2> QED
    BY <2>1, <2>2
<1>19. ASSUME EndUpdate PROVE TypeOK'
  BY <1>19 DEF EndUpdate, TypeOK, credentials, loop, history
<1>20. ASSUME ShutDown PROVE TypeOK'
  <2> DEFINE reported == IF stopped # 0 THEN stopped ELSE session.id
  <2>1. reported \in IdOrNone
    BY ActiveId DEF TypeOK
  <2>2. logged' \in SUBSET Ids
    <3>1. logged' = logged \cup ({reported} \ {0})
      BY <1>20 DEF ShutDown
    <3> HIDE DEF reported
    <3> QED
      BY <2>1, <3>1 DEF TypeOK, IdOrNone, Ids
  <2>3. session' \in SessionRecord \cup {NoSession} /\ endedAs' \in [Ids -> Reasons \cup {"none"}]
    BY <1>20 DEF ShutDown, End, TypeOK, Reasons
  <2> QED
    BY <1>20, <2>2, <2>3 DEF ShutDown, TypeOK, credentials, loop, IdOrNone
<1>21. ASSUME RegenerateToken PROVE TypeOK'
  BY <1>21 DEF RegenerateToken, NewCodes, TypeOK, loop, history
<1>22. ASSUME RotateCode PROVE TypeOK'
  BY <1>22 DEF RotateCode, NewCodes, TypeOK, loop, history
<1>23. ASSUME SetRequired PROVE TypeOK'
  BY <1>23 DEF SetRequired, TypeOK, loop, history
<1>24. ASSUME UNCHANGED vars PROVE TypeOK'
  BY <1>24 DEF vars, TypeOK
<1> QED
  BY <1>1, <1>2, <1>3, <1>4, <1>5, <1>6, <1>7, <1>8, <1>9, <1>10, <1>11, <1>12, <1>13,
     <1>14, <1>15, <1>16, <1>17, <1>18, <1>19, <1>20, <1>21, <1>22, <1>23, <1>24
  DEF Next, ClientStep, TransportStep, GuiStep

\* Every behaviour of the session keeps its state well-typed.
THEOREM TypeCorrect == Spec => []TypeOK
<1> QED
  BY InitType, StepType, PTL DEF Spec

-----------------------------------------------------------------------------
(* Safety.                                                                 *)

\* The steps of a behaviour, in the groups the proofs below treat alike.
Heeds(p, i) ==
  \/ Ping(p, i)
  \/ \E complete \in BOOLEAN : Report(p, i, complete)
  \/ KeyframeRequest(p, i)
  \/ Nack(p, i)
  \/ \E key \in {"press", "release"}, late \in BOOLEAN : Input(p, i, key, late)

\* Steps that leave the session and what is said of it as they are.
Bystander ==
  \/ \E h \in Hellos : TurnAway(h) \/ Reack(h)
                       \/ \E limited, rotated \in BOOLEAN : Refuse(h, limited, rotated)
  \/ EndUpdate \/ RegenerateToken \/ RotateCode \/ SetRequired
  \/ UNCHANGED vars

LEMMA StepCases ==
  ASSUME [Next]_vars
  PROVE  \/ Bystander
         \/ \E h \in Hellos, limited \in BOOLEAN : Admit(h, limited)
         \/ \E p \in Sources, i \in Ids : Heeds(p, i)
         \/ \E p \in Sources, i \in Ids, superseded \in BOOLEAN : Bye(p, i, superseded)
         \/ \E p \in Sources, i \in Ids : AnswerEnded(p, i)
         \/ \E p \in Sources : LinkLost(p)
         \/ Tick
         \/ \E mapped \in BOOLEAN : Act(mapped)
         \/ TransportExit \/ TransportStart
         \/ \E stopStream \in BOOLEAN : BeginUpdate(stopStream)
         \/ ShutDown \/ Elapse
BY DEF Next, ClientStep, TransportStep, GuiStep, Bystander, Heeds

\* The session goes on with the client it has.
SameSession ==
  /\ session'.id = session.id /\ session'.hello = session.hello
  /\ session'.auth = session.auth /\ session'.ackToken = session.ackToken

\* What heeding a message does: the client is there and not on hold.
Heeded ==
  /\ Idle /\ Active /\ session' \in SessionRecord
  /\ SameSession
  /\ session'.left = LivenessTimeout /\ session'.silent = 0 /\ ~session'.held
  /\ session.frames => session'.frames
  /\ session.held /\ GrantsKeyframe => acts'.idr
  /\ acts'.target = NoPeer /\ ~acts'.lost /\ ~acts'.release
  /\ acts'.ackToken = 0 /\ acts'.ended = 0 /\ acts'.bye = 0 /\ acts'.answer = 0
  /\ acts'.key # "none" => acts'.keyOf = session.id
  /\ UNCHANGED <<nextId, updating, goodbye, stopped, ended, credentials, target,
                 heldKey, loop, quitting, history>>

LEMMA HeedsHeeded == ASSUME TypeOK, NEW p, NEW i, Heeds(p, i) PROVE Heeded
<1>1. Active /\ Idle
  BY DEF Heeds, Ping, Report, KeyframeRequest, Nack, Input, FromClient
<1>2. session \in SessionRecord
  BY <1>1, ActiveType
<1>3. ASSUME NEW g \in BOOLEAN
      PROVE  /\ Heard(g) \in SessionRecord
             /\ Heard(g).id = session.id /\ Heard(g).hello = session.hello
             /\ Heard(g).auth = session.auth /\ Heard(g).ackToken = session.ackToken
             /\ Heard(g).left = LivenessTimeout /\ Heard(g).silent = 0 /\ ~Heard(g).held
             /\ Heard(g).frames = session.frames
  BY <1>1, <1>2, HeardType DEF Heard, SessionRecord
<1>4. GrantsKeyframe \in BOOLEAN /\ ResumesKeyframe \in BOOLEAN
  BY <1>1, GrantType
<1>5. CASE Ping(p, i)
  BY <1>1, <1>3, <1>4, <1>5 DEF Ping, NoActs, ResumesKeyframe, Heeded, SameSession
<1>6. ASSUME NEW complete \in BOOLEAN, Report(p, i, complete) PROVE Heeded
  <2>1. PICK s \in SessionRecord :
          /\ session' = [s EXCEPT !.frames = @ \/ complete]
          /\ s.id = session.id /\ s.hello = session.hello
          /\ s.auth = session.auth /\ s.ackToken = session.ackToken
          /\ s.left = LivenessTimeout /\ s.silent = 0 /\ ~s.held
          /\ s.frames = session.frames
    BY <1>3, <1>4, <1>6 DEF Report
  <2>2. /\ session' \in SessionRecord
        /\ SameSession
        /\ session'.left = LivenessTimeout /\ session'.silent = 0 /\ ~session'.held
        /\ session.frames => session'.frames
    BY <2>1 DEF SessionRecord, SameSession
  <2> QED
    BY <1>1, <1>6, <2>2 DEF Report, NoActs, ResumesKeyframe, Heeded, SameSession
<1>7. CASE KeyframeRequest(p, i)
  BY <1>1, <1>3, <1>4, <1>7 DEF KeyframeRequest, NoActs, Heeded, SameSession
<1>8. CASE Nack(p, i)
  BY <1>1, <1>3, <1>4, <1>8 DEF Nack, NoActs, ResumesKeyframe, Heeded, SameSession
<1>9. ASSUME NEW key \in {"press", "release"}, NEW late \in BOOLEAN, Input(p, i, key, late)
      PROVE  Heeded
  BY <1>1, <1>3, <1>4, <1>9 DEF Input, NoActs, ResumesKeyframe, Heeded, SameSession
<1> QED
  BY <1>5, <1>6, <1>7, <1>8, <1>9 DEF Heeds

\* The transport task leaves the session and the goodbyes alone.
Unmoved ==
  UNCHANGED <<session, nextId, goodbye, stopped, ended, target, heldKey, running,
              quitting, endedAs, logged>>

LEMMA BystanderUnmoved ==
  ASSUME Bystander
  PROVE  /\ Unmoved
         /\ updating' => updating
         /\ acts' = acts \/ (Idle /\ \E status \in {"ok", "refused"} : \E i, t :
                                       acts' = Answer(status, i, t))
<1>1. CASE \E h \in Hellos : TurnAway(h) \/ Reack(h)
                             \/ \E limited, rotated \in BOOLEAN : Refuse(h, limited, rotated)
  BY <1>1 DEF TurnAway, Reack, Refuse, Unmoved, loop, history
<1>2. CASE EndUpdate \/ RegenerateToken \/ RotateCode \/ SetRequired \/ UNCHANGED vars
  BY <1>2 DEF EndUpdate, RegenerateToken, RotateCode, SetRequired, Unmoved, loop, history, vars
<1> QED
  BY <1>1, <1>2 DEF Bystander

-----------------------------------------------------------------------------
(* Admission and updates.                                                  *)

\* From begin_update until it fails no client streams, whatever HELLO2s and
\* ticks come between: the check and the closing of the gate are one step.
THEOREM NoClientDuringUpdate == Spec => []UpdateExclusive
<1>1. Init => UpdateExclusive
  BY DEF Init, UpdateExclusive, Active
<1>2. TypeOK /\ UpdateExclusive /\ [Next]_vars => UpdateExclusive'
  <2> SUFFICES ASSUME TypeOK, UpdateExclusive, [Next]_vars PROVE UpdateExclusive'
    OBVIOUS
  <2>1. CASE Bystander
    BY <2>1, BystanderUnmoved DEF UpdateExclusive, Unmoved, Active
  <2>2. ASSUME NEW h, NEW limited, Admit(h, limited) PROVE ~updating'
    BY <2>2 DEF Admit, PassesGate
  <2>3. ASSUME NEW p, NEW i, Heeds(p, i) PROVE ~updating'
    BY <2>3, HeedsHeeded DEF Heeded, UpdateExclusive
  <2>4. CASE \/ \E p \in Sources, i \in Ids, superseded \in BOOLEAN : Bye(p, i, superseded)
             \/ \E p \in Sources, i \in Ids : AnswerEnded(p, i)
             \/ \E p \in Sources : LinkLost(p)
    BY <2>4 DEF Bye, AnswerEnded, LinkLost, FromClient, End, UpdateExclusive, Active
  <2>5. CASE Tick
    BY <2>5
    DEF Tick, TickNobody, TickRevoked, TickExpired, TickHold, TickQuiet, End, UpdateExclusive,
        Active
  <2>6. CASE \/ \E mapped \in BOOLEAN : Act(mapped)
             \/ TransportExit \/ TransportStart \/ ShutDown \/ Elapse
    BY <2>6 DEF Act, TransportExit, TransportStart, ShutDown, Elapse, End, UpdateExclusive, Active
  <2>7. ASSUME NEW stopStream, BeginUpdate(stopStream) PROVE ~Active'
    BY <2>7 DEF BeginUpdate, End, Active
  <2> QED
    BY <2>1, <2>2, <2>3, <2>4, <2>5, <2>6, <2>7, StepCases DEF UpdateExclusive
<1> QED
  BY TypeCorrect, <1>1, <1>2, PTL DEF Spec

\* client_lost, which clears the media target, is decided only for nobody, and
\* nobody is admitted before it is carried out.
THEOREM LostOnlyWithNobody == Spec => []LostMeansNobody
<1>1. Init => LostMeansNobody
  BY DEF Init, LostMeansNobody, NoActs
<1>2. TypeOK /\ LostMeansNobody /\ [Next]_vars => LostMeansNobody'
  <2> SUFFICES ASSUME TypeOK, LostMeansNobody, [Next]_vars PROVE LostMeansNobody'
    OBVIOUS
  <2>1. CASE Bystander
    BY <2>1, BystanderUnmoved DEF LostMeansNobody, Unmoved, Active, Answer, NoActs
  <2>2. ASSUME NEW h, NEW limited, Admit(h, limited) PROVE ~acts'.lost
    BY <2>2 DEF Admit, Answer, NoActs
  <2>3. ASSUME NEW p, NEW i, Heeds(p, i) PROVE ~acts'.lost
    BY <2>3, HeedsHeeded DEF Heeded
  <2>4. CASE \/ \E p \in Sources, i \in Ids, superseded \in BOOLEAN : Bye(p, i, superseded)
             \/ \E p \in Sources, i \in Ids : AnswerEnded(p, i)
             \/ \E p \in Sources : LinkLost(p)
    BY <2>4
    DEF Bye, AnswerEnded, LinkLost, Idle, NoActs, FromClient, End, LostMeansNobody, Active
  <2>5. CASE Tick
    BY <2>5
    DEF Tick, TickNobody, TickRevoked, TickExpired, TickHold, TickQuiet, Carried, NoActs, End,
        LostMeansNobody, Active
  <2>6. CASE \/ \E mapped \in BOOLEAN : Act(mapped)
             \/ TransportExit \/ TransportStart \/ ShutDown \/ Elapse
             \/ \E stopStream \in BOOLEAN : BeginUpdate(stopStream)
    BY <2>6
    DEF Act, TransportExit, TransportStart, ShutDown, Elapse, BeginUpdate, NoActs, End,
        LostMeansNobody, Active
  <2> QED
    BY <2>1, <2>2, <2>3, <2>4, <2>5, <2>6, StepCases DEF LostMeansNobody
<1> QED
  BY TypeCorrect, <1>1, <1>2, PTL DEF Spec

-----------------------------------------------------------------------------
(* Silence: what the deadline, the hold and the rate limit say of it.      *)

\* The keyframe limit has run out once the client was silent that long.
LimitRunsOut == Active => session.sinceKey >= session.silent \/ session.sinceKey >= KeyframeGap
SilenceInv == SilenceBound /\ LimitRunsOut

LEMMA InitSilence == Init => SilenceInv
BY DEF Init, SilenceInv, SilenceBound, LimitRunsOut, Active

LEMMA ElapseSilence == ASSUME TypeOK, SilenceInv, Elapse PROVE SilenceInv'
<1>1. CASE ~Active
  BY <1>1 DEF Elapse, SilenceInv, SilenceBound, LimitRunsOut, Active
<1>2. CASE Active
  <2>1. /\ session \in SessionRecord
        /\ session.left \in Int /\ session.silent \in Nat /\ session.sinceKey \in Nat
        /\ session.left >= -HeldFor
    BY <1>2, ActiveType, TimingAssumption DEF SessionRecord, HeldFor
  <2>2. /\ session'.left = Max2(session.left - 1, -HeldFor)
        /\ session'.silent = Min2(session.silent + 1, HoldLimit)
        /\ session'.sinceKey = Min2(session.sinceKey + 1, KeyframeGap)
        /\ session'.held = session.held /\ session'.awaiting = session.awaiting
        /\ session'.frames = session.frames
    BY <1>2, <2>1 DEF Elapse, SessionRecord
  <2>3. /\ session'.left >= session.left - 1 /\ session'.left >= -HeldFor
        /\ session'.silent \in {session.silent + 1, HoldLimit}
        /\ session'.sinceKey \in {session.sinceKey + 1, KeyframeGap}
        /\ session'.silent <= session.silent + 1
        /\ session'.left \in Int
    BY <2>1, <2>2, TimingAssumption DEF Max2, Min2, HeldFor
  <2> QED
    BY <1>2, <2>1, <2>2, <2>3, TimingAssumption
    DEF SilenceInv, SilenceBound, LimitRunsOut, HeldFor
<1> QED
  BY <1>1, <1>2

LEMMA TickSilence == ASSUME TypeOK, SilenceInv, Tick PROVE SilenceInv'
<1>1. CASE ~Active' \/ session' = session
  BY <1>1 DEF SilenceInv, SilenceBound, LimitRunsOut, Active
<1>2. CASE TickHold
  <2>1. /\ Active /\ session \in SessionRecord /\ session' = [session EXCEPT !.held = TRUE]
        /\ session.left <= 0 /\ session.frames /\ ~session.awaiting
    BY <1>2, ActiveType DEF TickHold, Overdue, Holds
  <2>2. session.silent >= LivenessTimeout
    BY <2>1, TimingAssumption DEF SilenceInv, SilenceBound, SessionRecord, HeldFor
  <2>3. /\ session'.left = session.left /\ session'.silent = session.silent
        /\ session'.sinceKey = session.sinceKey /\ session'.awaiting = session.awaiting
        /\ session'.frames = session.frames
    BY <2>1 DEF SessionRecord
  <2> QED
    BY <2>1, <2>2, <2>3 DEF SilenceInv, SilenceBound, LimitRunsOut
<1> QED
  BY <1>1, <1>2
  DEF Tick, TickNobody, TickRevoked, TickExpired, TickQuiet, End, Active

LEMMA StepSilence == TypeOK /\ SilenceInv /\ [Next]_vars => SilenceInv'
<1> SUFFICES ASSUME TypeOK, SilenceInv, [Next]_vars PROVE SilenceInv'
  OBVIOUS
<1>1. CASE ~Active' \/ session' = session
  BY <1>1 DEF SilenceInv, SilenceBound, LimitRunsOut, Active
<1>2. ASSUME NEW h, NEW limited, Admit(h, limited) PROVE SilenceInv'
  <2>1. /\ session'.left = LivenessTimeout /\ session'.silent = 0 /\ ~session'.held
        /\ session'.sinceKey = KeyframeGap
    BY <1>2 DEF Admit
  <2> QED
    BY <2>1, TimingAssumption DEF SilenceInv, SilenceBound, LimitRunsOut
<1>3. ASSUME NEW p, NEW i, Heeds(p, i) PROVE SilenceInv'
  <2>1. /\ session' \in SessionRecord
        /\ session'.left = LivenessTimeout /\ session'.silent = 0 /\ ~session'.held
    BY <1>3, HeedsHeeded DEF Heeded
  <2>2. session'.sinceKey >= 0
    BY <2>1, TimingAssumption DEF SessionRecord
  <2> QED
    BY <2>1, <2>2, TimingAssumption DEF SilenceInv, SilenceBound, LimitRunsOut
<1>4. ASSUME NEW p, NEW i, NEW superseded, Bye(p, i, superseded) PROVE SilenceInv'
  <2> SUFFICES ASSUME Active' PROVE SilenceInv'
    BY <1>1
  <2>1. /\ Active /\ session \in SessionRecord
        /\ session' = [session EXCEPT !.awaiting = TRUE, !.left = TakeoverTimeout]
    BY <1>4, ActiveType DEF Bye, FromClient, End, Active
  <2>2. /\ session'.awaiting
        /\ session'.silent = session.silent /\ session'.held = session.held
        /\ session'.sinceKey = session.sinceKey /\ session'.frames = session.frames
    BY <2>1 DEF SessionRecord
  <2> QED
    BY <2>1, <2>2 DEF SilenceInv, SilenceBound, LimitRunsOut
<1>5. CASE TransportStart
  <2> SUFFICES ASSUME Active PROVE SilenceInv'
    BY <1>1, <1>5 DEF TransportStart
  <2>1. /\ session \in SessionRecord
        /\ session' = [session EXCEPT !.left = Max2(@, LivenessTimeout)]
    BY <1>5, ActiveType DEF TransportStart
  <2>2. /\ session'.left >= session.left /\ session'.left \in Int
        /\ session'.silent = session.silent /\ session'.held = session.held
        /\ session'.sinceKey = session.sinceKey /\ session'.frames = session.frames
        /\ session'.awaiting = session.awaiting
    BY <2>1, TimingAssumption DEF SessionRecord, Max2, HeldFor
  <2>3. session.left \in Int /\ session.silent \in Nat
    BY <2>1, TimingAssumption DEF SessionRecord, HeldFor
  <2> QED
    BY <1>5, <2>2, <2>3, TimingAssumption DEF SilenceInv, SilenceBound, LimitRunsOut
<1>6. CASE \/ Bystander
           \/ \E p \in Sources, i \in Ids : AnswerEnded(p, i)
           \/ \E p \in Sources : LinkLost(p)
           \/ \E mapped \in BOOLEAN : Act(mapped)
           \/ TransportExit
           \/ \E stopStream \in BOOLEAN : BeginUpdate(stopStream)
           \/ ShutDown
  BY <1>1, <1>6, BystanderUnmoved
  DEF Unmoved, AnswerEnded, LinkLost, Act, TransportExit, BeginUpdate, ShutDown,
      End, Active
<1>7. CASE Tick \/ Elapse
  BY <1>7, TickSilence, ElapseSilence
<1> QED
  BY <1>2, <1>3, <1>4, <1>5, <1>6, <1>7, StepCases

LEMMA SilenceInvariant == Spec => []SilenceInv
BY TypeCorrect, InitSilence, StepSilence, PTL DEF Spec

\* The deadline never runs ahead of the silence it measures, across pipeline
\* restarts, holds and switches to the cable.
THEOREM SilenceBounded == Spec => []SilenceBound
BY SilenceInvariant, PTL DEF SilenceInv

-----------------------------------------------------------------------------
(* Who gets the slot, and when it is lost.                                 *)

\* Only a HELLO2 puts another session in the slot.
LEMMA KeptOrAdmitted ==
  ASSUME TypeOK, [Next]_vars, Active'
  PROVE  \/ Active /\ SameSession
         \/ \E h \in Hellos, limited \in BOOLEAN : Admit(h, limited)
<1>1. Active => session \in SessionRecord
  BY ActiveType
<1>2. ASSUME NEW p, NEW i, Heeds(p, i) PROVE Active /\ SameSession
  BY <1>2, HeedsHeeded DEF Heeded
<1>3. ASSUME NEW p, NEW i, NEW superseded, Bye(p, i, superseded) PROVE Active /\ SameSession
  BY <1>1, <1>3 DEF Bye, FromClient, End, SessionRecord, Active, SameSession
<1>4. CASE Tick
  BY <1>1, <1>4
  DEF Tick, TickNobody, TickRevoked, TickExpired, TickHold, TickQuiet, End, SessionRecord,
      Active, SameSession
<1>5. CASE Elapse \/ TransportStart
  <2>1. Active
    BY <1>5 DEF Elapse, TransportStart, Active
  <2> QED
    BY <1>1, <1>5, <2>1 DEF Elapse, TransportStart, SessionRecord, SameSession
<1>6. CASE \/ \E p \in Sources, i \in Ids : AnswerEnded(p, i)
           \/ \E p \in Sources : LinkLost(p)
           \/ \E mapped \in BOOLEAN : Act(mapped)
           \/ TransportExit
           \/ \E stopStream \in BOOLEAN : BeginUpdate(stopStream)
           \/ ShutDown
  BY <1>6
  DEF AnswerEnded, LinkLost, Act, TransportExit, BeginUpdate, ShutDown, End, Active, SameSession
<1>7. CASE Bystander
  BY <1>7, BystanderUnmoved DEF Unmoved, Active, SameSession
<1> QED
  BY <1>2, <1>3, <1>4, <1>5, <1>6, <1>7, StepCases

LEMMA OnlyAdmitted ==
  ASSUME TypeOK, [Next]_vars, Active, session' # NoSession, session'.id # session.id
  PROVE  \E h \in Hellos, limited \in BOOLEAN : Admit(h, limited)
BY KeptOrAdmitted DEF Active, SameSession

\* An admitted session is somebody's, and a live one it replaces was its own
\* device's or on hold.
LEMMA AdmittedOver ==
  ASSUME TypeOK, NEW h \in Hellos, NEW limited, Admit(h, limited)
  PROVE  /\ session'.hello = h /\ session' # NoSession
         /\ Active /\ ~SameDevice(h) => session.held
         /\ Active /\ SameDevice(h) /\ session.hello.from.link = "usb" => h.from.link = "usb"
<1>1. session'.hello = h /\ session'.id = nextId /\ nextId # 0
  BY DEF Admit, TypeOK
<1>2. session' # NoSession
  BY <1>1 DEF NoSession
<1>3. h.from.link \in {"udp", "usb"}
  BY HellosAssumption DEF Hello, Peer, Links
<1> QED
  BY <1>1, <1>2, <1>3 DEF Admit, Busy

\* The slot of a live session goes to another device only after that client
\* had a picture and was silent for LIVENESS_TIMEOUT.
THEOREM SlotTakenFromSilent == Spec => OnlySilentSlotTaken
<1> DEFINE Taken == Active /\ session' # NoSession /\ session'.id # session.id
                    /\ ~SameDevice(session'.hello)
<1>1. TypeOK /\ SilenceInv /\ [Next]_vars
        => [Taken => session.frames /\ session.silent >= LivenessTimeout]_vars
  <2> SUFFICES ASSUME TypeOK, SilenceInv, [Next]_vars, Taken
               PROVE  session.frames /\ session.silent >= LivenessTimeout
    OBVIOUS
  <2>1. PICK h \in Hellos, limited \in BOOLEAN : Admit(h, limited)
    BY OnlyAdmitted
  <2>2. session.held
    BY <2>1, AdmittedOver
  <2> QED
    BY <2>2 DEF SilenceInv, SilenceBound
<1> QED
  BY TypeCorrect, SilenceInvariant, <1>1, PTL DEF Spec, OnlySilentSlotTaken

\* A device that streams over the cable stays on it.
THEOREM CableKept == Spec => NoDowngradeToWifi
<1> DEFINE Moved == Active /\ session' # NoSession /\ session'.id # session.id
                    /\ SameDevice(session'.hello) /\ session.hello.from.link = "usb"
<1>1. TypeOK /\ [Next]_vars => [Moved => session'.hello.from.link = "usb"]_vars
  BY OnlyAdmitted, AdmittedOver
<1> QED
  BY TypeCorrect, <1>1, PTL DEF Spec, NoDowngradeToWifi

\* How a step may change the record of how sessions ended.
LEMMA EndsChange ==
  ASSUME TypeOK, [Next]_vars, NEW i \in Ids, endedAs'[i] = "liveness", endedAs[i] # "liveness"
  PROVE  /\ Active
         /\ \/ TickExpired /\ ~session.awaiting
            \/ \E h \in Hellos, limited \in BOOLEAN : Admit(h, limited) /\ ~SameDevice(h)
<1>1. endedAs \in [Ids -> Reasons \cup {"none"}]
  BY DEF TypeOK
<1>2. ASSUME NEW h \in Hellos, NEW limited \in BOOLEAN, Admit(h, limited)
      PROVE  Active /\ ~SameDevice(h)
  BY <1>1, <1>2 DEF Admit
<1>3. ASSUME NEW p, NEW j, Heeds(p, j) PROVE FALSE
  BY <1>3, HeedsHeeded DEF Heeded, history
<1>4. CASE Tick
  BY <1>1, <1>4
  DEF Tick, TickNobody, TickRevoked, TickExpired, TickHold, TickQuiet, End
<1>5. CASE \/ \E p \in Sources, j \in Ids, superseded \in BOOLEAN : Bye(p, j, superseded)
           \/ \E p \in Sources, j \in Ids : AnswerEnded(p, j)
           \/ \E p \in Sources : LinkLost(p)
           \/ \E mapped \in BOOLEAN : Act(mapped)
           \/ TransportExit \/ TransportStart
           \/ \E stopStream \in BOOLEAN : BeginUpdate(stopStream)
           \/ ShutDown \/ Elapse
  BY <1>1, <1>5
  DEF Bye, AnswerEnded, LinkLost, Act, TransportExit, TransportStart, BeginUpdate, ShutDown,
      Elapse, End, history
<1>6. CASE Bystander
  BY <1>6, BystanderUnmoved DEF Unmoved
<1> QED
  BY <1>2, <1>3, <1>4, <1>5, <1>6, StepCases

\* No session is given up for dead early: not before LIVENESS_TIMEOUT of
\* silence and, once it had a picture and nobody else wants the slot, not
\* before HOLD_LIMIT.
THEOREM OnlySilentGivenUp == Spec => LivenessEndsAreSilent
<1> DEFINE Late(i) == (endedAs[i] # "liveness" /\ endedAs'[i] = "liveness") =>
                        /\ session.silent >= LivenessTimeout
                        /\ session.frames /\ session' = NoSession => session.silent >= HoldLimit
<1>1. TypeOK /\ SilenceInv /\ [Next]_vars => [\A i \in Ids : Late(i)]_vars
  <2> SUFFICES ASSUME TypeOK, SilenceInv, [Next]_vars, NEW i \in Ids,
                      endedAs[i] # "liveness", endedAs'[i] = "liveness"
               PROVE  /\ session.silent >= LivenessTimeout
                      /\ session.frames /\ session' = NoSession => session.silent >= HoldLimit
    OBVIOUS
  <2>1. Active /\ session \in SessionRecord
    BY EndsChange, ActiveType
  <2>2. session.left \in Int /\ session.silent \in Nat
    BY <2>1, TimingAssumption DEF SessionRecord, HeldFor
  <2>3. CASE TickExpired /\ ~session.awaiting
    BY <2>1, <2>2, <2>3, TimingAssumption
    DEF TickExpired, Overdue, Holds, HoldOver, HeldFor, SilenceInv, SilenceBound
  <2>4. ASSUME NEW h \in Hellos, NEW limited \in BOOLEAN, Admit(h, limited), ~SameDevice(h)
        PROVE  session.silent >= LivenessTimeout /\ session' # NoSession
    BY <2>1, <2>4, AdmittedOver DEF SilenceInv, SilenceBound
  <2> QED
    BY <2>3, <2>4, EndsChange
<1> QED
  BY TypeCorrect, SilenceInvariant, <1>1, PTL DEF Spec, LivenessEndsAreSilent

\* A client heard again after a hold is sent an IDR: by then the rate limit on
\* keyframe requests has always run out.
THEOREM ResumedWithIdr == Spec => ResumeForcesIdr
<1> DEFINE Resumes == Active /\ session.held /\ session' # NoSession
                      /\ session'.id = session.id /\ ~session'.held
<1>1. TypeOK /\ SilenceInv /\ [Next]_vars => [Resumes => acts'.idr]_vars
  <2> SUFFICES ASSUME TypeOK, SilenceInv, [Next]_vars, Resumes PROVE acts'.idr
    OBVIOUS
  <2>1. session \in SessionRecord
    BY ActiveType
  <2>2. GrantsKeyframe
    BY <2>1, TimingAssumption
    DEF SilenceInv, SilenceBound, LimitRunsOut, GrantsKeyframe, SessionRecord
  <2>3. ASSUME NEW h, NEW limited, Admit(h, limited) PROVE acts'.idr
    BY <2>3 DEF Admit, Answer, NoActs
  <2>4. ASSUME NEW p, NEW i, Heeds(p, i) PROVE acts'.idr
    BY <2>2, <2>4, HeedsHeeded DEF Heeded
  <2>5. ASSUME NEW p, NEW i, NEW superseded, Bye(p, i, superseded) PROVE FALSE
    BY <2>1, <2>5 DEF Bye, End, SessionRecord
  <2>6. CASE Tick
    BY <2>1, <2>6
    DEF Tick, TickNobody, TickRevoked, TickExpired, TickHold, TickQuiet, End, SessionRecord
  <2>7. CASE Elapse \/ TransportStart
    BY <2>1, <2>7 DEF Elapse, TransportStart, SessionRecord
  <2>8. CASE \/ \E p \in Sources, i \in Ids : AnswerEnded(p, i)
             \/ \E p \in Sources : LinkLost(p)
             \/ \E mapped \in BOOLEAN : Act(mapped)
             \/ TransportExit
             \/ \E stopStream \in BOOLEAN : BeginUpdate(stopStream)
             \/ ShutDown
    BY <2>8 DEF AnswerEnded, LinkLost, Act, TransportExit, BeginUpdate, ShutDown, End
  <2>9. CASE Bystander
    BY <2>9, BystanderUnmoved DEF Unmoved
  <2> QED
    BY <2>3, <2>4, <2>5, <2>6, <2>7, <2>8, <2>9, StepCases
<1> QED
  BY TypeCorrect, SilenceInvariant, <1>1, PTL DEF Spec, ResumeForcesIdr

-----------------------------------------------------------------------------
(* Pairing credentials.                                                    *)

\* The token an ACK may repeat is the one its session was authorized with.
AckRepeatable == Active => session.ackToken \in {0, session.auth}

LEMMA StepAck == TypeOK /\ AckRepeatable /\ [Next]_vars => AckRepeatable'
<1> SUFFICES ASSUME TypeOK, AckRepeatable, [Next]_vars, Active'
             PROVE  session'.ackToken \in {0, session'.auth}
  BY DEF AckRepeatable
<1>1. ASSUME NEW h, NEW limited, Admit(h, limited)
      PROVE  session'.ackToken \in {0, session'.auth}
  BY <1>1 DEF Admit
<1>2. CASE Active /\ SameSession
  BY <1>2 DEF AckRepeatable, SameSession
<1> QED
  BY <1>1, <1>2, KeptOrAdmitted

\* A token leaves the host only for a client that just paired or repeats the
\* handshake that paired it, and never one that was replaced since.
THEOREM OnlyCurrentTokenGiven == Spec => AckTokenIsCurrent
<1> DEFINE Given == /\ required /\ acts'.ackToken = token
                    /\ session' # NoSession /\ session'.auth = token
<1>1. Init => AckRepeatable
  BY DEF Init, AckRepeatable, Active
<1>2. TypeOK /\ AckRepeatable /\ [Next]_vars
        => [acts = NoActs /\ acts'.ackToken # 0 => Given]_vars
  <2> SUFFICES ASSUME TypeOK, AckRepeatable, [Next]_vars, acts = NoActs, acts'.ackToken # 0
               PROVE  Given
    OBVIOUS
  <2>1. ASSUME NEW h \in Hellos, Reack(h) PROVE Given
    <3>1. Active /\ session' = session /\ session.auth = AckToken
          /\ acts'.ackToken = session.ackToken
      BY <2>1 DEF Reack, Replays, Answer, NoActs
    <3>2. session.ackToken = session.auth
      BY <3>1 DEF AckRepeatable
    <3> QED
      BY <3>1, <3>2 DEF AckToken, Active
  <2>2. ASSUME NEW h \in Hellos, NEW limited \in BOOLEAN, Admit(h, limited) PROVE Given
    <3>1. session' # NoSession
      BY <2>2, AdmittedOver
    <3>2. /\ Authorize(h, limited) \in {"code", "usb"}
          /\ acts'.ackToken = token /\ session'.auth = token
      BY <2>2 DEF Admit, Answer, NoActs
    <3>3. required
      BY <3>2 DEF Authorize
    <3> QED
      BY <3>1, <3>2, <3>3
  <2>3. ASSUME NEW h, TurnAway(h) \/ \E limited, rotated \in BOOLEAN : Refuse(h, limited, rotated)
        PROVE  FALSE
    BY <2>3 DEF TurnAway, Refuse, Answer, NoActs
  <2>4. ASSUME NEW p, NEW i, Heeds(p, i) PROVE FALSE
    BY <2>4, HeedsHeeded DEF Heeded
  <2>5. ASSUME NEW p, NEW i,
               \/ \E superseded \in BOOLEAN : Bye(p, i, superseded)
               \/ AnswerEnded(p, i) \/ LinkLost(p)
        PROVE  FALSE
    <3>1. NoActs.ackToken = 0
      BY DEF NoActs
    <3>2. ASSUME NEW superseded, Bye(p, i, superseded) PROVE FALSE
      BY <3>1, <3>2 DEF Bye, NoActs
    <3>3. CASE AnswerEnded(p, i)
      BY <3>3 DEF AnswerEnded, NoActs
    <3>4. CASE LinkLost(p)
      BY <3>4 DEF LinkLost, NoActs
    <3> QED
      BY <2>5, <3>2, <3>3, <3>4
  <2>6. CASE Tick
    BY <2>6
    DEF Tick, TickNobody, TickRevoked, TickExpired, TickHold, TickQuiet, Carried, NoActs
  <2>7. CASE TransportStep \/ GuiStep \/ Elapse \/ UNCHANGED vars
    BY <2>6, <2>7
    DEF TransportStep, GuiStep, Act, TransportExit, TransportStart, BeginUpdate, EndUpdate,
        ShutDown, RegenerateToken, RotateCode, SetRequired, Elapse, NoActs, vars
  <2> QED
    BY <2>1, <2>2, <2>3, <2>4, <2>5, <2>7, StepCases DEF Bystander, TransportStep, GuiStep
<1> QED
  BY TypeCorrect, <1>1, <1>2, StepAck, PTL DEF Spec, AckTokenIsCurrent

\* A session authorized with credentials that were reset since ends with the
\* next tick, whatever else that tick finds.
THEOREM RevokedEnds == Spec => RevokedAtTick
<1>1. [Next]_vars => [(Tick /\ Active /\ required /\ session.auth # token)
                        => session' = NoSession]_vars
  BY DEF Tick, TickNobody, TickRevoked, TickExpired, TickHold, TickQuiet, Revoked, End
<1> QED
  BY <1>1, PTL DEF Spec, RevokedAtTick

\* A client that is not known by its token and is let in by the code on
\* display leaves another code there.
THEOREM CodeReplacedAtOnce == Spec => CodeReplaced
<1> DEFINE LetIn == /\ session' # NoSession /\ session'.id # session.id /\ required
                    /\ session'.hello.token # token /\ session'.hello.code = code
<1>1. TypeOK /\ [Next]_vars => [LetIn => code' # code]_vars
  <2> SUFFICES ASSUME TypeOK, [Next]_vars, LetIn PROVE code' # code
    OBVIOUS
  <2>1. Active'
    BY DEF Active
  <2>2. PICK h \in Hellos, limited \in BOOLEAN : Admit(h, limited)
    BY <2>1, KeptOrAdmitted DEF SameSession
  <2>3. h.token # token /\ h.code = code /\ code # 0
    BY <2>2, AdmittedOver DEF TypeOK, Codes
  <2>4. Authorize(h, limited) = "code"
    BY <2>2, <2>3 DEF Admit, Authorize
  <2>5. code' \in NewCodes
    BY <2>2, <2>4 DEF Admit, CodesAfter
  <2> QED
    BY <2>5 DEF NewCodes
<1> QED
  BY TypeCorrect, <1>1, PTL DEF Spec, CodeReplaced

-----------------------------------------------------------------------------
(* The media target.                                                       *)

\* Only a HELLO2 decides on a target, and only Act moves to it.
LEMMA TargetSteps ==
  ASSUME TypeOK, [Next]_vars
  PROVE  \/ \E h \in Hellos, limited \in BOOLEAN : Admit(h, limited)
         \/ \E mapped \in BOOLEAN : Act(mapped)
         \/ target' = target /\ acts'.target = acts.target
<1>1. NoActs.target = NoPeer
  BY DEF NoActs
<1>2. ASSUME NEW p, NEW i, Heeds(p, i) PROVE target' = target /\ acts'.target = acts.target
  BY <1>1, <1>2, HeedsHeeded DEF Heeded, Idle
<1>3. CASE Bystander
  <2>1. ASSUME NEW status, NEW i, NEW t PROVE Answer(status, i, t).target = NoPeer
    BY DEF Answer, NoActs
  <2> QED
    BY <1>1, <1>3, <2>1, BystanderUnmoved DEF Unmoved, Idle
<1>4. ASSUME NEW p \in Sources, NEW i \in Ids, NEW superseded \in BOOLEAN, Bye(p, i, superseded)
      PROVE  target' = target /\ acts'.target = acts.target
  BY <1>1, <1>4 DEF Bye, Idle, NoActs
<1>5. ASSUME NEW p, NEW i, AnswerEnded(p, i) \/ LinkLost(p)
      PROVE  target' = target /\ acts'.target = acts.target
  BY <1>1, <1>5 DEF AnswerEnded, LinkLost, Idle, NoActs
<1>6. CASE Tick
  <2>1. Carried.target = NoPeer /\ target' = target /\ acts.target = NoPeer
    BY <1>1, <1>6 DEF Carried, NoActs, Tick, Idle
  <2>2. acts'.target = NoPeer
    BY <1>6
    DEF Tick, TickNobody, TickRevoked, TickExpired, TickHold, TickQuiet, Carried, NoActs
  <2> QED
    BY <2>1, <2>2
<1>7. CASE \/ TransportExit \/ TransportStart \/ ShutDown \/ Elapse
           \/ \E stopStream \in BOOLEAN : BeginUpdate(stopStream)
  BY <1>7 DEF TransportExit, TransportStart, ShutDown, Elapse, BeginUpdate
<1> QED
  BY <1>2, <1>3, <1>4, <1>5, <1>6, <1>7, StepCases

\* Between a decision and its execution the target is the one decided.
TargetInv ==
  Active => IF acts.target = NoPeer
            THEN target = MediaTarget(session.hello)
            ELSE acts.target = MediaTarget(session.hello)

LEMMA StepTarget == TypeOK /\ LostMeansNobody /\ TargetInv /\ [Next]_vars => TargetInv'
<1> SUFFICES ASSUME TypeOK, LostMeansNobody, TargetInv, [Next]_vars, Active' PROVE TargetInv'
  BY DEF TargetInv
<1>1. ASSUME NEW h \in Hellos, NEW limited \in BOOLEAN, Admit(h, limited) PROVE TargetInv'
  <2>1. acts'.target = MediaTarget(h) /\ session'.hello = h
    BY <1>1 DEF Admit, Answer, NoActs
  <2>2. MediaTarget(h) # NoPeer
    BY HellosAssumption DEF MediaTarget, NoPeer, Hello, Peer, Links
  <2>3. MediaTarget(session'.hello) = MediaTarget(h)
    BY <2>1
  <2> QED
    BY <2>1, <2>2, <2>3 DEF TargetInv
<1>2. CASE Active /\ SameSession
  <2>1. MediaTarget(session'.hello) = MediaTarget(session.hello)
    BY <1>2 DEF SameSession
  <2>2. CASE target' = target /\ acts'.target = acts.target
    BY <1>2, <2>1, <2>2 DEF TargetInv
  <2>3. ASSUME NEW mapped, Act(mapped) PROVE TargetInv'
    <3>1. /\ acts'.target = NoPeer
          /\ target' = IF acts.target # NoPeer THEN acts.target ELSE target
      BY <1>2, <2>3 DEF Act, LostMeansNobody, NoActs
    <3> QED
      BY <1>2, <2>1, <3>1 DEF TargetInv
  <2> QED
    BY <1>1, <2>2, <2>3, TargetSteps
<1> QED
  BY <1>1, <1>2, KeptOrAdmitted

\* The host sends the live session's video to that session's own media
\* address, whatever superseded, took over, stopped or restarted it.
THEOREM VideoGoesToClient == Spec => []TargetFollowsSession
<1>1. Init => TargetInv
  BY DEF Init, TargetInv, Active
<1>2. TargetInv => TargetFollowsSession
  BY DEF TargetInv, TargetFollowsSession, Idle, NoActs
<1> QED
  BY TypeCorrect, LostOnlyWithNobody, <1>1, <1>2, StepTarget, PTL DEF Spec

-----------------------------------------------------------------------------
(* Goodbyes.                                                               *)

\* The sessions a goodbye was said to, or is about to be.
Told == {goodbye, ended.id, acts.bye, acts.answer}

\* A goodbye is passed on from one step to the next, or is for a session the
\* step ends.
LEMMA ToldSteps ==
  ASSUME TypeOK, [Next]_vars
  PROVE  \/ Told' \subseteq Told \cup {0}
         \/ /\ ~Active' \/ \E h \in Hellos, limited \in BOOLEAN : Admit(h, limited)
            /\ Told' \subseteq Told \cup {0, session.id}
<1>1. NoActs.bye = 0 /\ NoActs.answer = 0 /\ NoEnded.id = 0
  BY DEF NoActs, NoEnded
<1>2. Carried.bye = goodbye /\ Carried.answer = 0
  BY DEF Carried, NoActs
<1>3. ASSUME NEW h, NEW limited, Admit(h, limited) PROVE Told' \subseteq Told \cup {0, session.id}
  BY <1>3 DEF Admit, Answer, NoActs, Expired, Told
<1>4. ASSUME NEW p, NEW i, Heeds(p, i) PROVE Told' \subseteq Told \cup {0}
  BY <1>4, HeedsHeeded DEF Heeded, Told
<1>5. CASE Bystander
  <2>1. ASSUME NEW status, NEW i, NEW t
        PROVE  Answer(status, i, t).bye = 0 /\ Answer(status, i, t).answer = 0
    BY DEF Answer, NoActs
  <2> QED
    BY <1>5, <2>1, BystanderUnmoved DEF Unmoved, Told
<1>6. ASSUME NEW p \in Sources, NEW i \in Ids, NEW superseded \in BOOLEAN, Bye(p, i, superseded)
      PROVE  Told' \subseteq Told \cup {0}
  BY <1>6 DEF Bye, NoActs, Told
<1>7. ASSUME NEW p, NEW i, AnswerEnded(p, i) PROVE Told' \subseteq Told \cup {0}
  <2>1. ended \in EndedRecord /\ ended.id = i /\ ended' = [ended EXCEPT !.gap = 0]
    BY <1>7 DEF AnswerEnded, TypeOK
  <2>2. ended'.id = ended.id
    BY <2>1 DEF EndedRecord
  <2>3. acts'.bye = 0 /\ acts'.answer = ended.id /\ goodbye' = goodbye
    BY <1>7, <2>1 DEF AnswerEnded, NoActs
  <2> QED
    BY <2>2, <2>3 DEF Told
<1>8. ASSUME NEW p, LinkLost(p) PROVE Told' \subseteq Told \cup {0}
  BY <1>8 DEF LinkLost, NoActs, Told
<1>9. CASE Tick
  <2>1. CASE TickExpired
    <3>1. ~Active'
      BY <2>1 DEF TickExpired, End, Active
    <3>2. acts'.bye \in {goodbye, session.id} /\ acts'.answer = 0 /\ goodbye' = 0
          /\ ended'.id \in {ended.id, session.id}
      <4>1. CASE session.awaiting
        BY <1>9, <2>1, <4>1 DEF Tick, TickExpired, Carried, NoActs
      <4>2. CASE ~session.awaiting
        <5>1. ended' = Expired /\ goodbye' = 0
          BY <1>9, <2>1, <4>2 DEF Tick, TickExpired
        <5>2. acts'.bye = session.id /\ acts'.answer = 0
          BY <2>1, <4>2 DEF TickExpired, Carried, NoActs
        <5> QED
          BY <5>1, <5>2 DEF Expired
      <4> QED
        BY <4>1, <4>2
    <3> QED
      BY <3>1, <3>2 DEF Told
  <2>2. CASE TickNobody \/ TickRevoked \/ TickHold \/ TickQuiet
    <3>1. acts'.bye = goodbye /\ acts'.answer = 0 /\ goodbye' = 0 /\ ended' = ended
      BY <1>9, <2>2 DEF Tick, TickNobody, TickRevoked, TickHold, TickQuiet, Carried, NoActs
    <3> QED
      BY <3>1 DEF Told
  <2> QED
    BY <1>9, <2>1, <2>2 DEF Tick
<1>10. CASE Elapse
  <2>1. ended'.id = ended.id
    BY <1>10 DEF Elapse, TypeOK, EndedRecord
  <2> QED
    BY <1>10, <2>1 DEF Elapse, Told
<1>11. ASSUME NEW stopStream, BeginUpdate(stopStream)
       PROVE  \/ Told' \subseteq Told \cup {0}
              \/ ~Active' /\ Told' \subseteq Told \cup {0, session.id}
  BY <1>11 DEF BeginUpdate, End, Active, Told
<1>12. CASE \/ TransportExit \/ TransportStart \/ ShutDown
            \/ \E mapped \in BOOLEAN : Act(mapped)
  BY <1>1, <1>12 DEF TransportExit, TransportStart, ShutDown, Act, Told
<1> QED
  BY <1>3, <1>4, <1>5, <1>6, <1>7, <1>8, <1>9, <1>10, <1>11, <1>12, StepCases

\* Ids are handed out in order, so those of the past are below the next.
TellInv ==
  /\ Active => session.id < nextId /\ session.id \notin Told
  /\ \A i \in Told : i < nextId

LEMMA StepTell == TypeOK /\ TellInv /\ [Next]_vars => TellInv'
<1> SUFFICES ASSUME TypeOK, TellInv, [Next]_vars PROVE TellInv'
  OBVIOUS
<1>1. /\ nextId \in Nat \ {0} /\ session.id \in Nat
      /\ Active => session.id # 0
      /\ session.id < nextId
  BY ActiveId, BoundsAssumption DEF TypeOK, TellInv, Ids, IdOrNone, Active, NoSession
<1>2. \/ nextId' = nextId
      \/ nextId' = nextId + 1 /\ session'.id = nextId
         /\ \E h \in Hellos, limited \in BOOLEAN : Admit(h, limited)
  <2>1. ASSUME NEW h, NEW limited, Admit(h, limited)
        PROVE  nextId' = nextId + 1 /\ session'.id = nextId
    BY <2>1 DEF Admit, NextId
  <2>2. ASSUME NEW p, NEW i, Heeds(p, i) PROVE nextId' = nextId
    BY <2>2, HeedsHeeded DEF Heeded
  <2>3. CASE Bystander
    BY <2>3, BystanderUnmoved DEF Unmoved
  <2>4. CASE \/ \E p \in Sources, i \in Ids, superseded \in BOOLEAN : Bye(p, i, superseded)
             \/ \E p \in Sources, i \in Ids : AnswerEnded(p, i)
             \/ \E p \in Sources : LinkLost(p)
             \/ Tick \/ \E mapped \in BOOLEAN : Act(mapped)
             \/ TransportExit \/ TransportStart \/ ShutDown \/ Elapse
             \/ \E stopStream \in BOOLEAN : BeginUpdate(stopStream)
    BY <2>4
    DEF Bye, AnswerEnded, LinkLost, Tick, Act, TransportExit, TransportStart, ShutDown, Elapse,
        BeginUpdate
  <2> QED
    BY <2>1, <2>2, <2>3, <2>4, StepCases
<1>3. Told' \subseteq Told \cup {0, session.id}
  BY ToldSteps
<1>4. \A i \in Told : i \in Nat
  BY BoundsAssumption DEF TypeOK, Told, ActsRecord, EndedRecord, NoEnded, Ids, IdOrNone
<1>5. nextId' \in Nat /\ nextId' >= nextId /\ \A i \in Told' : i \in Nat /\ i < nextId
  BY <1>1, <1>2, <1>3, <1>4 DEF TellInv
<1>6. ASSUME \E h \in Hellos, limited \in BOOLEAN : Admit(h, limited) PROVE TellInv'
  <2>1. session'.id = nextId /\ nextId' = nextId + 1
    BY <1>6 DEF Admit, NextId
  <2> QED
    BY <1>1, <1>5, <2>1 DEF TellInv
<1>7. CASE Active /\ SameSession /\ Told' \subseteq Told \cup {0}
  BY <1>1, <1>5, <1>7 DEF TellInv, SameSession
<1>8. CASE ~Active'
  BY <1>1, <1>5, <1>8 DEF TellInv
<1> QED
  BY <1>6, <1>7, <1>8, KeptOrAdmitted, ToldSteps

\* An iPad that streams is not told to go: no goodbye on its way, pending or
\* answered again names its session.
THEOREM LiveNotToldToGo == Spec => []GoodbyeNeverForLive
<1>1. Init => TellInv
  BY DEF Init, TellInv, Told, Active, NoActs, NoEnded
<1>2. TellInv => GoodbyeNeverForLive
  BY DEF TellInv, Told, GoodbyeNeverForLive
<1> QED
  BY TypeCorrect, <1>1, <1>2, StepTell, PTL DEF Spec

-----------------------------------------------------------------------------
(* The report of a session's end.                                          *)

\* Steps that report nothing, and steps in which a client's session ends.
Unreported ==
  UNCHANGED <<logged, stopped, endedAs, nextId, quitting>> /\ acts'.ended = acts.ended
EndsNow(reason) ==
  /\ Active /\ End(reason)
  /\ acts.ended = 0 /\ acts'.ended = session.id
  /\ UNCHANGED <<logged, stopped, nextId, quitting>>

LEMMA ReportSteps ==
  ASSUME TypeOK, [Next]_vars
  PROVE  \/ \E h \in Hellos, limited \in BOOLEAN : Admit(h, limited)
         \/ Unreported
         \/ EndsNow("goodbye") \/ EndsNow("linklost")
         \/ Tick
         \/ \E mapped \in BOOLEAN : Act(mapped)
         \/ \E stopStream \in BOOLEAN : BeginUpdate(stopStream)
         \/ ShutDown
<1>1. NoActs.ended = 0
  BY DEF NoActs
<1>2. ASSUME NEW p, NEW i, Heeds(p, i) PROVE Unreported
  BY <1>1, <1>2, HeedsHeeded DEF Heeded, Idle, history, Unreported
<1>3. CASE Bystander
  <2>1. ASSUME NEW status, NEW i, NEW t PROVE Answer(status, i, t).ended = 0
    BY DEF Answer, NoActs
  <2> QED
    BY <1>1, <1>3, <2>1, BystanderUnmoved DEF Unmoved, Idle, Unreported
<1>4. ASSUME NEW p \in Sources, NEW i \in Ids, NEW superseded \in BOOLEAN, Bye(p, i, superseded)
      PROVE  Unreported \/ EndsNow("goodbye")
  <2>1. Active /\ acts.ended = 0
    BY <1>1, <1>4 DEF Bye, FromClient, Idle
  <2>2. CASE endedAs' = endedAs /\ acts' = acts
    BY <1>4, <2>2 DEF Bye, Unreported
  <2>3. CASE End("goodbye") /\ acts' = [NoActs EXCEPT !.lost = TRUE, !.ended = session.id]
    <3>1. acts'.ended = session.id
      BY <2>3 DEF NoActs
    <3> QED
      BY <1>4, <2>1, <2>3, <3>1 DEF Bye, EndsNow
  <2> QED
    BY <1>4, <2>2, <2>3 DEF Bye
<1>5. ASSUME NEW p, NEW i, AnswerEnded(p, i) PROVE Unreported
  BY <1>1, <1>5 DEF AnswerEnded, Idle, history, NoActs, Unreported
<1>6. ASSUME NEW p, LinkLost(p) PROVE EndsNow("linklost")
  <2>1. acts'.ended = session.id /\ acts.ended = 0
    BY <1>1, <1>6 DEF LinkLost, Idle, NoActs
  <2> QED
    BY <1>6, <2>1 DEF LinkLost, EndsNow
<1>7. CASE TransportExit \/ TransportStart \/ Elapse
  BY <1>7 DEF TransportExit, TransportStart, Elapse, history, Unreported
<1> QED
  BY <1>2, <1>3, <1>4, <1>5, <1>6, <1>7, StepCases

\* The live session's end is not reported; nothing is twice.
Reported == logged \cup {stopped, acts.ended}
OnceInv ==
  /\ Active => session.id < nextId /\ session.id \notin Reported
  /\ \A i \in Reported : i < nextId
  /\ EndReportedOnce

LEMMA StepOnce == TypeOK /\ OnceInv /\ [Next]_vars => OnceInv'
<1> SUFFICES ASSUME TypeOK, OnceInv, [Next]_vars PROVE OnceInv'
  OBVIOUS
<1>1. /\ nextId \in Nat \ {0} /\ session.id \in Nat
      /\ Active <=> session.id # 0
      /\ session.id < nextId
      /\ \A i \in Reported : i \in Nat /\ i < nextId
  <2>1. \A i \in Reported : i \in Nat
    BY BoundsAssumption DEF TypeOK, Reported, ActsRecord, Ids, IdOrNone
  <2>2. Active <=> session.id # 0
    BY ActiveId, BoundsAssumption DEF Ids, Active, NoSession
  <2> QED
    BY <2>1, <2>2, ActiveId, BoundsAssumption DEF TypeOK, OnceInv, Ids, IdOrNone
<1>2. Idle => acts.ended = 0
  BY DEF Idle, NoActs
<1>3. ASSUME NEW h \in Hellos, NEW limited \in BOOLEAN, Admit(h, limited) PROVE OnceInv'
  <2>1. /\ session'.id = nextId /\ nextId' = nextId + 1
        /\ acts'.ended = session.id /\ UNCHANGED <<logged, stopped>>
    BY <1>3 DEF Admit, NextId, Answer, NoActs
  <2>2. Reported' \subseteq Reported \cup {session.id}
    BY <2>1 DEF Reported
  <2> QED
    BY <1>1, <2>1, <2>2 DEF OnceInv, EndReportedOnce, Reported
<1>4. ASSUME ~(\E h \in Hellos, limited \in BOOLEAN : Admit(h, limited))
      PROVE  Active' => Active /\ session'.id = session.id
  BY <1>4, KeptOrAdmitted DEF SameSession
<1>5. ASSUME Unreported, Active' => Active /\ session'.id = session.id PROVE OnceInv'
  BY <1>5 DEF OnceInv, EndReportedOnce, Unreported, Reported
<1>6. ASSUME NEW reason, EndsNow(reason) PROVE OnceInv'
  <2>1. ~Active'
    BY <1>6 DEF EndsNow, End, Active
  <2> QED
    BY <1>1, <1>6, <2>1 DEF OnceInv, EndReportedOnce, EndsNow, Reported
<1>7. CASE Tick
  <2> SUFFICES ASSUME Active' => Active /\ session'.id = session.id PROVE OnceInv'
    BY <1>3, <1>4
  <2>1. acts.ended = 0 /\ stopped' = 0 /\ logged' = logged /\ nextId' = nextId
    BY <1>2, <1>7 DEF Tick
  <2>2. \/ acts'.ended = stopped
        \/ acts'.ended = session.id /\ Active /\ ~Active'
    <3>1. CASE TickNobody \/ TickHold \/ TickQuiet
      BY <3>1 DEF TickNobody, TickHold, TickQuiet, Carried, NoActs
    <3>2. CASE TickRevoked \/ TickExpired
      <4>1. Active /\ ~Active'
        BY <3>2 DEF TickRevoked, TickExpired, End, Active
      <4>2. acts'.ended = session.id
        BY <3>2 DEF TickRevoked, TickExpired, Carried, NoActs
      <4> QED
        BY <4>1, <4>2
    <3> QED
      BY <1>7, <3>1, <3>2 DEF Tick
  <2> QED
    BY <1>1, <2>1, <2>2 DEF OnceInv, EndReportedOnce, Reported
<1>8. ASSUME NEW mapped, Act(mapped) PROVE OnceInv'
  <2>1. /\ session' = session /\ stopped' = stopped /\ nextId' = nextId
        /\ acts'.ended = 0
        /\ logged' = IF acts.ended # 0 THEN logged \cup {acts.ended} ELSE logged
    BY <1>8 DEF Act, NoActs
  <2> QED
    BY <1>1, <2>1 DEF OnceInv, EndReportedOnce, Reported, Active
<1>9. ASSUME NEW stopStream, BeginUpdate(stopStream) PROVE OnceInv'
  <2>1. /\ ~Active' /\ UNCHANGED <<logged, acts, nextId>>
        /\ stopped' \in {stopped, session.id}
        /\ stopped' = session.id => Active \/ stopped' = stopped
    BY <1>1, <1>9 DEF BeginUpdate, End, Active
  <2> QED
    BY <1>1, <2>1 DEF OnceInv, EndReportedOnce, Reported
<1>10. CASE ShutDown
  <2>1. /\ ~Active' /\ UNCHANGED <<acts, nextId>> /\ stopped' = 0
        /\ logged' = logged \cup ({IF stopped # 0 THEN stopped ELSE session.id} \ {0})
    BY <1>10 DEF ShutDown, End, Active
  <2> QED
    BY <1>1, <2>1 DEF OnceInv, EndReportedOnce, Reported
<1> QED
  BY <1>3, <1>4, <1>5, <1>6, <1>7, <1>8, <1>9, <1>10, ReportSteps

\* However sessions end in whatever order, no end is reported twice.
THEOREM ReportedOnce == Spec => []EndReportedOnce
<1>1. Init => OnceInv
  BY DEF Init, OnceInv, EndReportedOnce, Reported, Active, NoActs
<1> QED
  BY TypeCorrect, <1>1, StepOnce, PTL DEF Spec, OnceInv

\* An end that was the client's doing, its silence or its credentials reaches
\* its summary line, or is on its way there.
THEOREM EndsReachReport == Spec => []ClientEndsReported
<1>1. Init => ClientEndsReported
  BY DEF Init, ClientEndsReported
<1>2. TypeOK /\ ClientEndsReported /\ [Next]_vars => ClientEndsReported'
  <2> SUFFICES ASSUME TypeOK, ClientEndsReported, [Next]_vars, NEW i \in Ids,
                      endedAs'[i] \notin {"none", "shutdown"}
               PROVE  i \in logged' \cup {acts'.ended}
    BY DEF ClientEndsReported
  <2>1. i # 0 /\ endedAs \in [Ids -> Reasons \cup {"none"}]
    BY BoundsAssumption DEF TypeOK, Ids
  <2>2. Idle => acts.ended = 0
    BY DEF Idle, NoActs
  <2>3. endedAs[i] = endedAs'[i] => i \in logged \cup {acts.ended}
    BY DEF ClientEndsReported
  <2>4. ASSUME NEW h, NEW limited, Admit(h, limited) PROVE i \in logged' \cup {acts'.ended}
    <3>1. /\ logged' = logged /\ acts'.ended = session.id
          /\ endedAs'[i] # endedAs[i] => i = session.id
      BY <2>1, <2>4 DEF Admit, Answer, NoActs
    <3> QED
      BY <2>1, <2>2, <2>3, <2>4, <3>1 DEF Admit
  <2>5. CASE Unreported
    BY <2>3, <2>5 DEF Unreported
  <2>6. ASSUME NEW reason, EndsNow(reason) PROVE i \in logged' \cup {acts'.ended}
    BY <2>1, <2>3, <2>6 DEF EndsNow, End
  <2>7. CASE Tick
    <3>1. logged' = logged /\ acts.ended = 0
      BY <2>2, <2>7 DEF Tick
    <3>2. CASE TickRevoked \/ TickExpired
      <4>1. acts'.ended = session.id
        BY <3>2 DEF TickRevoked, TickExpired, Carried, NoActs
      <4>2. endedAs'[i] # endedAs[i] => i = session.id
        BY <2>1, <3>2 DEF TickRevoked, TickExpired, End
      <4> QED
        BY <2>1, <2>3, <3>1, <4>1, <4>2
    <3>3. CASE TickNobody \/ TickHold \/ TickQuiet
      BY <2>1, <2>3, <3>1, <3>3 DEF TickNobody, TickHold, TickQuiet
    <3> QED
      BY <2>7, <3>2, <3>3 DEF Tick
  <2>8. ASSUME NEW mapped, Act(mapped) PROVE i \in logged' \cup {acts'.ended}
    BY <2>1, <2>3, <2>8 DEF Act
  <2>9. CASE ShutDown \/ \E stopStream \in BOOLEAN : BeginUpdate(stopStream)
    <3>1. endedAs'[i] = endedAs[i] /\ acts' = acts /\ logged \subseteq logged'
      BY <2>1, <2>9 DEF ShutDown, BeginUpdate, End
    <3> QED
      BY <2>3, <3>1
  <2> QED
    BY <2>4, <2>5, <2>6, <2>7, <2>8, <2>9, ReportSteps
<1> QED
  BY TypeCorrect, <1>1, <1>2, PTL DEF Spec

-----------------------------------------------------------------------------
(* Held input.                                                             *)

Owned(k) ==
  \/ Active /\ session.id = k /\ ~session.held
  \/ endedAs[k] = "shutdown"

\* The decision in hand releases what the PC holds.
Releases == acts.target # NoPeer \/ acts.lost \/ acts.release

\* Between a press and its injection its client may at most be shut down.
InputInv ==
  /\ heldKey # 0 => Owned(heldKey) \/ Releases
  /\ acts.key # "none" => acts.keyOf \in Ids /\ Owned(acts.keyOf)

LEMMA StepInput == TypeOK /\ InputInv /\ [Next]_vars => InputInv'
<1> SUFFICES ASSUME TypeOK, InputInv, [Next]_vars PROVE InputInv'
  OBVIOUS
<1> USE DEF InputInv
<1>1. Active => session \in SessionRecord
  BY ActiveType
<1>2. Idle => acts.key = "none" /\ ~Releases
  BY DEF Idle, NoActs, Releases
<1>3. ASSUME acts'.key = "none", Releases' PROVE InputInv'
  BY <1>3
<1>4. ASSUME endedAs' = endedAs, heldKey' = heldKey, acts'.key = "none", Idle,
             Active => Active' /\ session'.id = session.id /\ (session'.held => session.held)
      PROVE  InputInv'
  BY <1>2, <1>4 DEF Owned
<1>5. ASSUME endedAs' = endedAs, heldKey' = heldKey, acts' = acts,
             Active => Active' /\ session'.id = session.id /\ (session'.held => session.held)
      PROVE  InputInv'
  BY <1>5 DEF Owned, Releases
<1>6. ASSUME NEW h \in Hellos, NEW limited \in BOOLEAN, Admit(h, limited) PROVE InputInv'
  <2>1. acts'.key = "none" /\ acts'.target = MediaTarget(h)
    BY <1>6 DEF Admit, Answer, NoActs
  <2>2. MediaTarget(h) # NoPeer
    BY HellosAssumption DEF MediaTarget, NoPeer, Hello, Peer, Links
  <2> QED
    BY <1>3, <2>1, <2>2 DEF Releases
<1>7. ASSUME NEW p, NEW i, Heeds(p, i) PROVE InputInv'
  <2>1. Heeded /\ session' # NoSession /\ session.id \in Ids
    BY <1>7, HeedsHeeded, NoSessionNotRecord, ActiveId DEF Heeded
  <2> QED
    BY <1>2, <2>1 DEF Heeded, SameSession, history, Owned, Active
<1>8. ASSUME NEW p \in Sources, NEW i \in Ids, NEW superseded \in BOOLEAN, Bye(p, i, superseded)
      PROVE  InputInv'
  <2>1. CASE acts' = [NoActs EXCEPT !.lost = TRUE, !.ended = session.id]
    BY <1>3, <2>1 DEF NoActs, Releases
  <2>2. CASE /\ session' = [session EXCEPT !.awaiting = TRUE, !.left = TakeoverTimeout]
             /\ UNCHANGED <<endedAs, acts>>
    <3>1. Active /\ session'.id = session.id /\ session'.held = session.held
      BY <1>1, <1>8, <2>2 DEF Bye, FromClient, SessionRecord
    <3>2. session.id # 0
      BY <3>1, ActiveId, BoundsAssumption DEF Ids
    <3>3. Active'
      BY <3>1, <3>2 DEF Active, NoSession
    <3> QED
      BY <1>5, <1>8, <2>2, <3>1, <3>3 DEF Bye
  <2> QED
    BY <1>8, <2>1, <2>2 DEF Bye
<1>9. ASSUME NEW p, NEW i, AnswerEnded(p, i) PROVE InputInv'
  BY <1>4, <1>9 DEF AnswerEnded, history, NoActs, Active
<1>10. ASSUME NEW p, LinkLost(p) PROVE InputInv'
  BY <1>3, <1>10 DEF LinkLost, NoActs, Releases
<1>11. CASE Bystander
  <2>1. ASSUME NEW status, NEW i, NEW t PROVE Answer(status, i, t).key = "none"
    BY DEF Answer, NoActs
  <2> QED
    BY <1>4, <1>5, <1>11, <2>1, BystanderUnmoved DEF Unmoved, Active
<1>12. CASE Tick
  <2>1. CASE TickRevoked \/ TickExpired \/ TickHold
    <3>1. acts'.key = "none" /\ (acts'.lost \/ acts'.release)
      BY <2>1 DEF TickRevoked, TickExpired, TickHold, Carried, NoActs
    <3> QED
      BY <1>3, <3>1 DEF Releases
  <2>2. CASE TickNobody \/ TickQuiet
    <3>1. acts'.key = "none"
      BY <2>2 DEF TickNobody, TickQuiet, Carried, NoActs
    <3> QED
      BY <1>4, <1>12, <2>2, <3>1 DEF Tick, TickNobody, TickQuiet, Active
  <2> QED
    BY <1>12, <2>1, <2>2 DEF Tick
<1>13. ASSUME NEW mapped, Act(mapped) PROVE InputInv'
  <2>1. /\ session' = session /\ endedAs' = endedAs /\ acts'.key = "none"
        /\ heldKey' \in {0, heldKey, acts.keyOf}
        /\ heldKey' # 0 => ~Releases
        /\ heldKey' # 0 /\ heldKey' # heldKey => acts.key # "none"
    BY <1>13 DEF Act, HeldAfter, NoActs, Releases
  <2> QED
    BY <2>1 DEF Owned, Active
<1>14. CASE TransportExit
  BY <1>2, <1>14 DEF TransportExit
<1>15. CASE Elapse \/ TransportStart
  <2>1. Active => session'.id = session.id /\ session'.held = session.held
    BY <1>1, <1>15 DEF Elapse, TransportStart, SessionRecord
  <2>2. Active => Active'
    BY <2>1, ActiveId, BoundsAssumption DEF Active, NoSession, Ids
  <2> QED
    BY <1>5, <1>15, <2>1, <2>2 DEF Elapse, TransportStart, history
<1>16. CASE ShutDown \/ \E stopStream \in BOOLEAN : BeginUpdate(stopStream)
  <2>1. endedAs \in [Ids -> Reasons \cup {"none"}] /\ (Active => session.id \in Ids)
    BY ActiveId DEF TypeOK
  <2>2. endedAs' = IF Active THEN [endedAs EXCEPT ![session.id] = "shutdown"] ELSE endedAs
    BY <1>16 DEF ShutDown, BeginUpdate, End
  <2>3. \A k \in Ids : Owned(k) => endedAs'[k] = "shutdown"
    BY <2>1, <2>2 DEF Owned
  <2>4. heldKey # 0 => heldKey \in Ids
    BY BoundsAssumption DEF TypeOK, Ids, IdOrNone
  <2> QED
    BY <1>16, <2>3, <2>4 DEF ShutDown, BeginUpdate, Owned, Releases
<1> QED
  BY <1>6, <1>7, <1>8, <1>9, <1>10, <1>11, <1>12, <1>13, <1>14, <1>15, <1>16, StepCases

\* The PC never holds a key or contact for nobody, for another client than the
\* live one or for one on hold, but for a moment after the app stopped a stream.
THEOREM InputReleased == Spec => []HeldInputHasOwner
<1>1. Init => InputInv
  BY DEF Init, InputInv, NoActs
<1>2. InputInv => HeldInputHasOwner
  BY DEF InputInv, HeldInputHasOwner, Idle, Owned, Releases, NoActs
<1> QED
  BY TypeCorrect, <1>1, <1>2, StepInput, PTL DEF Spec

-----------------------------------------------------------------------------
\* Neither a goodbye nor client_lost hits the live session.
THEOREM LiveUndisturbed == Spec => []LiveLeftAlone
BY LiveNotToldToGo, LostOnlyWithNobody, PTL DEF LiveLeftAlone

\* The code that lets a client in is replaced at once, ACKs carry the current
\* token, revoked sessions go.
THEOREM PairingKept == Spec => PairingSound
BY CodeReplacedAtOnce, OnlyCurrentTokenGiven, RevokedEnds DEF PairingSound

-----------------------------------------------------------------------------
(* Turns: the session that lives is the one admitted last, and the record  *)
(* of ends is blank for it and for those to come.                          *)

TurnInv ==
  /\ Active => session.id = nextId - 1 /\ endedAs[session.id] = "none"
  /\ \A i \in Ids : i >= nextId => endedAs[i] = "none"

\* A step writes at most how the live session ended.
LEMMA OwnEndOnly ==
  ASSUME TypeOK, [Next]_vars
  PROVE  \A i \in Ids : endedAs'[i] # endedAs[i] => Active /\ i = session.id
<1>1. endedAs \in [Ids -> Reasons \cup {"none"}]
  BY DEF TypeOK
<1>2. ASSUME NEW h, NEW limited, Admit(h, limited)
      PROVE  \A i \in Ids : endedAs'[i] # endedAs[i] => Active /\ i = session.id
  BY <1>1, <1>2 DEF Admit
<1>3. ASSUME NEW p, NEW i, Heeds(p, i) PROVE endedAs' = endedAs
  BY <1>3, HeedsHeeded DEF Heeded, history
<1>4. CASE Bystander
  BY <1>4, BystanderUnmoved DEF Unmoved
<1>5. CASE Tick
  BY <1>1, <1>5
  DEF Tick, TickNobody, TickRevoked, TickExpired, TickHold, TickQuiet, End
<1>6. CASE \/ \E p \in Sources, i \in Ids, superseded \in BOOLEAN : Bye(p, i, superseded)
           \/ \E p \in Sources : LinkLost(p)
           \/ \E stopStream \in BOOLEAN : BeginUpdate(stopStream)
           \/ ShutDown
  BY <1>1, <1>6 DEF Bye, FromClient, LinkLost, BeginUpdate, ShutDown, End
<1>7. CASE \/ \E p \in Sources, i \in Ids : AnswerEnded(p, i)
           \/ \E mapped \in BOOLEAN : Act(mapped)
           \/ TransportExit \/ TransportStart \/ Elapse
  BY <1>7 DEF AnswerEnded, Act, TransportExit, TransportStart, Elapse, history
<1> QED
  BY <1>2, <1>3, <1>4, <1>5, <1>6, <1>7, StepCases

LEMMA StepTurn == TypeOK /\ TurnInv /\ [Next]_vars => TurnInv'
<1> SUFFICES ASSUME TypeOK, TurnInv, [Next]_vars PROVE TurnInv'
  OBVIOUS
<1>1. nextId \in Nat \ {0} /\ (Active => session.id \in Ids /\ session.id = nextId - 1)
  BY BoundsAssumption, ActiveId DEF TypeOK, TurnInv
<1>2. \A i \in Ids : i \in Nat /\ (i >= nextId => endedAs'[i] = "none")
  BY <1>1, OwnEndOnly, BoundsAssumption DEF TurnInv, Ids
<1>3. ASSUME NEW h \in Hellos, NEW limited \in BOOLEAN, Admit(h, limited) PROVE TurnInv'
  <2>1. session'.id = nextId /\ nextId' = nextId + 1 /\ nextId \in Ids
    BY <1>1, <1>3 DEF Admit, NextId, Ids, TypeOK
  <2> QED
    BY <1>1, <1>2, <2>1 DEF TurnInv
<1>4. ASSUME nextId' = nextId,
             Active' => Active /\ SameSession /\ endedAs'[session.id] = endedAs[session.id]
      PROVE  TurnInv'
  BY <1>2, <1>4 DEF TurnInv, SameSession
<1>5. ASSUME ~(\E h \in Hellos, limited \in BOOLEAN : Admit(h, limited))
      PROVE  Active' => Active /\ SameSession
  BY <1>5, KeptOrAdmitted
<1>6. CASE \/ \E p \in Sources, i \in Ids, superseded \in BOOLEAN : Bye(p, i, superseded)
           \/ \E p \in Sources : LinkLost(p)
           \/ Tick
           \/ \E stopStream \in BOOLEAN : BeginUpdate(stopStream)
           \/ ShutDown
  <2>1. nextId' = nextId /\ (~Active' \/ endedAs' = endedAs)
    BY <1>6
    DEF Bye, LinkLost, Tick, TickNobody, TickRevoked, TickExpired, TickHold, TickQuiet,
        BeginUpdate, ShutDown, End, Active
  <2> QED
    BY <1>3, <1>4, <1>5, <2>1
<1>7. CASE \/ \E p \in Sources, i \in Ids : Heeds(p, i) \/ AnswerEnded(p, i)
           \/ Bystander
           \/ \E mapped \in BOOLEAN : Act(mapped)
           \/ TransportExit \/ TransportStart \/ Elapse
  <2>1. UNCHANGED <<nextId, endedAs>>
    BY <1>7, HeedsHeeded, BystanderUnmoved
    DEF Heeded, Unmoved, AnswerEnded, Act, TransportExit, TransportStart, Elapse, history
  <2> QED
    BY <1>3, <1>4, <1>5, <2>1
<1> QED
  BY <1>3, <1>6, <1>7, StepCases

LEMMA TurnInvariant == Spec => []TurnInv
<1>1. Init => TurnInv
  BY DEF Init, TurnInv, Active
<1> QED
  BY TypeCorrect, <1>1, StepTurn, PTL DEF Spec

-----------------------------------------------------------------------------
(* The report of a stop by the app: only the end of another session can take *)
(* its place in the slot.                                                    *)

StoppedByApp == stopped # 0 => endedAs[stopped] = "shutdown"
Stands(k, i) == k >= i \/ (quitting /\ endedAs[k] = "shutdown")

\* Stands, with the slots of the next state.
StandsThen(k, i) == k >= i \/ (quitting' /\ endedAs'[k] = "shutdown")

LEMMA StepApp ==
  TypeOK /\ OnceInv /\ TurnInv /\ StoppedByApp /\ AppEndsReported /\ [Next]_vars
    => StoppedByApp' /\ AppEndsReported'
<1> SUFFICES ASSUME TypeOK, OnceInv, TurnInv, StoppedByApp, AppEndsReported, [Next]_vars
             PROVE  StoppedByApp' /\ AppEndsReported'
  OBVIOUS
<1>1. /\ endedAs \in [Ids -> Reasons \cup {"none"}] /\ nextId \in Nat
      /\ session.id \in IdOrNone /\ (Active => session.id \in Ids) /\ (session.id # 0 => Active)
      /\ Reported \subseteq IdOrNone
  <2>1. session.id # 0 => Active
    BY DEF Active, NoSession
  <2>2. Reported \subseteq IdOrNone
    <3>1. logged \subseteq IdOrNone
      BY DEF TypeOK, Ids, IdOrNone
    <3>2. stopped \in IdOrNone /\ acts.ended \in IdOrNone
      BY DEF TypeOK, ActsRecord
    <3> QED
      BY <3>1, <3>2 DEF Reported
  <2> QED
    BY <2>1, <2>2, ActiveId, BoundsAssumption DEF TypeOK
<1>2. IdOrNone = {0} \cup Ids /\ 0 \notin Ids /\ \A i \in Ids : i \in Nat
  BY BoundsAssumption DEF Ids, IdOrNone
\* What is reported has ended, and how it ended stays.
<1>3. \A k \in Reported \ {0} : k \in Ids /\ endedAs'[k] = endedAs[k]
  BY <1>1, <1>2, OwnEndOnly DEF OnceInv
\* The live session is younger than all that ended.
<1>4. ASSUME NEW i \in Ids, endedAs[i] = "shutdown", Active PROVE i < session.id
  BY <1>1, <1>2, <1>4 DEF TurnInv
<1>5. ASSUME NEW i \in Ids, endedAs[i] = "shutdown"
      PROVE  \E k \in Reported \ {0} : Stands(k, i)
  BY <1>5 DEF AppEndsReported, Reported, Stands
<1>6. AppEndsReported' <=>
        \A i \in Ids : endedAs'[i] = "shutdown" => \E k \in Reported' \ {0} : StandsThen(k, i)
  BY DEF AppEndsReported, Reported, StandsThen
\* Reports are added and nobody is stopped.
<1>7. ASSUME Reported \ {0} \subseteq Reported', quitting => quitting',
             \A i \in Ids : endedAs'[i] = "shutdown" => endedAs[i] = "shutdown"
      PROVE  AppEndsReported'
  <2>1. ASSUME NEW i \in Ids, endedAs'[i] = "shutdown"
        PROVE  \E k \in Reported' \ {0} : StandsThen(k, i)
    <3>1. PICK k \in Reported \ {0} : Stands(k, i)
      BY <1>5, <1>7, <2>1
    <3>2. k \in Reported' \ {0} /\ StandsThen(k, i)
      BY <1>3, <1>7, <3>1 DEF Stands, StandsThen
    <3> QED
      BY <3>2
  <2> QED
    BY <1>6, <2>1
\* The live session's own end goes into the slot: it is the latest of all.
<1>8. ASSUME Active, session.id \in Reported',
             \A i \in Ids : endedAs'[i] = "shutdown" => endedAs[i] = "shutdown" \/ i = session.id
      PROVE  AppEndsReported'
  <2>1. ASSUME NEW i \in Ids, endedAs'[i] = "shutdown"
        PROVE  session.id \in Reported' \ {0} /\ StandsThen(session.id, i)
    <3>1. session.id \in Ids /\ session.id # 0
      BY <1>1, <1>2, <1>8
    <3>2. session.id >= i
      <4>1. i \in Nat /\ session.id \in Nat
        BY <1>2, <3>1
      <4> QED
        BY <1>4, <1>8, <2>1, <4>1
    <3> QED
      BY <1>8, <3>1, <3>2 DEF StandsThen
  <2>2. ASSUME NEW i \in Ids, endedAs'[i] = "shutdown"
        PROVE  \E k \in Reported' \ {0} : StandsThen(k, i)
    BY <2>1, <2>2
  <2> QED
    BY <1>6, <2>2
<1>9. ASSUME stopped' \in {stopped, 0} PROVE StoppedByApp'
  <2>1. stopped # 0 => endedAs'[stopped] = endedAs[stopped]
    BY <1>3 DEF Reported
  <2> QED
    BY <1>9, <2>1 DEF StoppedByApp
<1>10. Idle => acts.ended = 0
  BY DEF Idle, NoActs
<1>11. ASSUME NEW h \in Hellos, NEW limited \in BOOLEAN, Admit(h, limited)
       PROVE  StoppedByApp' /\ AppEndsReported'
  <2>1. /\ UNCHANGED <<stopped, logged, quitting>> /\ acts.ended = 0
        /\ \A i \in Ids : endedAs'[i] = "shutdown" => endedAs[i] = "shutdown"
    BY <1>1, <1>10, <1>11 DEF Admit
  <2> QED
    BY <1>7, <1>9, <2>1 DEF Reported
<1>12. CASE Unreported
  BY <1>7, <1>9, <1>12 DEF Unreported, Reported
<1>13. ASSUME NEW reason \in {"goodbye", "linklost"}, EndsNow(reason)
       PROVE  StoppedByApp' /\ AppEndsReported'
  <2>1. \A i \in Ids : endedAs'[i] = "shutdown" => endedAs[i] = "shutdown"
    BY <1>1, <1>13 DEF EndsNow, End
  <2> QED
    BY <1>7, <1>9, <1>13, <2>1 DEF EndsNow, Reported
<1>14. CASE Tick
  <2>1. acts.ended = 0 /\ stopped' = 0 /\ logged' = logged /\ quitting' = quitting
    BY <1>10, <1>14 DEF Tick
  <2>2. CASE TickNobody \/ TickHold \/ TickQuiet
    <3>1. acts'.ended = stopped /\ endedAs' = endedAs
      BY <2>2 DEF TickNobody, TickHold, TickQuiet, Carried, NoActs
    <3> QED
      BY <1>7, <1>9, <2>1, <3>1 DEF Reported
  <2>3. CASE TickRevoked \/ TickExpired
    <3>1. Active /\ acts'.ended = session.id
      BY <2>3 DEF TickRevoked, TickExpired, Carried, NoActs
    <3>2. \A i \in Ids : endedAs'[i] = "shutdown" => endedAs[i] = "shutdown"
      BY <1>1, <2>3 DEF TickRevoked, TickExpired, End
    <3> QED
      BY <1>8, <1>9, <2>1, <3>1, <3>2 DEF Reported
  <2> QED
    BY <1>14, <2>2, <2>3 DEF Tick
<1>15. ASSUME NEW mapped \in BOOLEAN, Act(mapped) PROVE StoppedByApp' /\ AppEndsReported'
  <2>1. /\ UNCHANGED <<stopped, quitting, endedAs>>
        /\ Reported \ {0} \subseteq Reported'
    BY <1>15 DEF Act, Reported
  <2> QED
    BY <1>7, <1>9, <2>1
<1>16. ASSUME NEW stopStream \in BOOLEAN, BeginUpdate(stopStream)
       PROVE  StoppedByApp' /\ AppEndsReported'
  <2>1. CASE Active
    <3>1. /\ stopped' = session.id /\ session.id \in Reported'
          /\ \A i \in Ids : endedAs'[i] = "shutdown" => endedAs[i] = "shutdown" \/ i = session.id
          /\ endedAs'[session.id] = "shutdown"
      BY <1>1, <1>16, <2>1 DEF BeginUpdate, End, Reported
    <3> QED
      BY <1>8, <2>1, <3>1 DEF StoppedByApp
  <2>2. CASE ~Active
    BY <1>7, <1>9, <1>16, <2>2 DEF BeginUpdate, Reported
  <2> QED
    BY <2>1, <2>2
<1>17. CASE ShutDown
  <2>1. /\ stopped' = 0 /\ acts' = acts /\ quitting'
        /\ logged' = logged \cup ({IF stopped # 0 THEN stopped ELSE session.id} \ {0})
        /\ \A i \in Ids : endedAs'[i] = "shutdown"
                         => endedAs[i] = "shutdown" \/ (Active /\ i = session.id)
    BY <1>1, <1>17 DEF ShutDown, End
  <2>2. Reported \ {0} \subseteq Reported'
    BY <2>1 DEF Reported
  <2>3. CASE ~Active
    BY <1>7, <1>9, <2>1, <2>2, <2>3
  <2>4. CASE Active /\ stopped = 0
    BY <1>1, <1>2, <1>8, <1>9, <2>1, <2>4 DEF Reported
  <2>5. CASE Active /\ stopped # 0
    <3>1. stopped \in Reported' \ {0} /\ endedAs'[stopped] = "shutdown"
      BY <1>3, <2>1, <2>5 DEF Reported, StoppedByApp
    <3>2. \E k \in Reported' \ {0} : quitting' /\ endedAs'[k] = "shutdown"
      BY <2>1, <3>1
    <3> QED
      BY <1>6, <1>9, <2>1, <3>2 DEF StandsThen
  <2> QED
    BY <2>3, <2>4, <2>5
<1> QED
  BY <1>11, <1>12, <1>13, <1>14, <1>15, <1>16, <1>17, ReportSteps

\* Ends reach their report, once each; of the stops by the app, one that meets
\* another end may give way to it.
THEOREM EndsReportedRight == Spec => []EndsReported
<1>1. Init => OnceInv
  BY DEF Init, OnceInv, EndReportedOnce, Reported, Active, NoActs
<1>2. Init => StoppedByApp /\ AppEndsReported
  BY DEF Init, StoppedByApp, AppEndsReported
<1>3. Spec => [](StoppedByApp /\ AppEndsReported)
  BY TypeCorrect, TurnInvariant, <1>1, <1>2, StepOnce, StepApp, PTL DEF Spec
<1> QED
  BY ReportedOnce, EndsReachReport, <1>3, PTL DEF EndsReported

-----------------------------------------------------------------------------
(* The refinement mapping. Primed, it is that of the next state.           *)

LEMMA HolderIsClient ==
  /\ \A h \in Hellos : h # NoHello
  /\ TypeOK => (Slot!Free <=> ~Active)
<1>1. \A h \in Hellos : h # NoHello
  <2> SUFFICES ASSUME NEW h \in Hello PROVE h # NoHello
    BY HellosAssumption
  <2>1. "from" \in DOMAIN h /\ "from" \notin DOMAIN NoHello
    BY DEF Hello, NoHello
  <2> QED
    BY <2>1
<1>2. ASSUME TypeOK PROVE Slot!Free <=> ~Active
  <2>1. Active => session.hello \in Hellos
    BY <1>2, ActiveType DEF SessionRecord
  <2> QED
    BY <1>1, <2>1 DEF Slot!Free
<1> QED
  BY <1>1, <1>2

\* An admission takes the slot.
LEMMA AdmitTakes ==
  ASSUME TypeOK, TurnInv, SilenceInv, NEW h \in Hellos, NEW limited, Admit(h, limited)
  PROVE  Slot!Take(h)
<1>1. ~updating /\ updating' = updating
  BY DEF Admit, PassesGate
<1>2. Slot!MayTake(h)
  <2> SUFFICES ASSUME Active PROVE Slot!MayTake(h)
    BY DEF Slot!MayTake, Slot!Free
  <2>1. CASE SameDevice(h)
    <3>1. Cabled(session.hello) => Cabled(h)
      BY <2>1, AdmittedOver DEF Cabled
    <3> QED
      BY <2>1, <3>1 DEF Slot!MayTake, SameClient, SameDevice
  <2>2. CASE ~SameDevice(h)
    <3>1. session.frames /\ session.silent >= LivenessTimeout
      BY <2>2, AdmittedOver DEF SilenceInv, SilenceBound
    <3> QED
      BY <2>2, <3>1 DEF Slot!MayTake, SameClient, SameDevice
  <2> QED
    BY <2>1, <2>2
<1>3. /\ session'.hello = h /\ session'.silent = 0 /\ ~session'.frames /\ Active'
      /\ nextId \in Ids /\ nextId' = nextId + 1
  <2>1. /\ session'.hello = h /\ session'.silent = 0 /\ ~session'.frames
        /\ nextId <= MaxSessions /\ nextId' = nextId + 1
    BY DEF Admit, NextId
  <2> QED
    BY <2>1, AdmittedOver, BoundsAssumption DEF Active, Ids, TypeOK
<1>4. endedAs'[nextId] = "none"
  <2>1. Active => session.id # nextId
    BY <1>3, ActiveId, BoundsAssumption DEF TurnInv, Ids
  <2>2. endedAs[nextId] = "none"
    BY <1>3, BoundsAssumption DEF TurnInv, Ids
  <2> QED
    BY <1>3, <2>1, <2>2 DEF Admit, TypeOK
<1>5. nextId' # 1 /\ nextId' - 1 = nextId /\ nextId \in Nat
  BY <1>3, BoundsAssumption DEF Ids
<1> QED
  BY <1>1, <1>2, <1>3, <1>4, <1>5 DEF Slot!Take

\* A step that leaves the session, as far as the slot is concerned.
Still ==
  /\ UNCHANGED <<nextId, endedAs>>
  /\ Active' <=> Active
  /\ Active => /\ session'.hello = session.hello /\ session'.silent = session.silent
               /\ session'.frames = session.frames

LEMMA StillStutters == ASSUME Still, updating' = updating PROVE UNCHANGED Slot!vars
BY DEF Still, Slot!vars

\* A message heeded is heard.
LEMMA HeedsHears == ASSUME TypeOK, NEW p, NEW i, Heeds(p, i) PROVE Slot!Hear
<1>1. Heeded /\ Active' /\ session'.frames \in BOOLEAN
  BY HeedsHeeded, NoSessionNotRecord DEF Heeded, Active, SessionRecord
<1>2. ~Slot!Free
  BY <1>1, HolderIsClient DEF Heeded
<1> QED
  BY <1>1, <1>2 DEF Heeded, SameSession, history, Slot!Hear

\* Session::end frees the slot, for the reason it records.
LEMMA EndsTurn ==
  ASSUME TypeOK, TurnInv, Active, NEW reason, End(reason), UNCHANGED <<nextId, updating>>,
         reason = "liveness" => Slot!SilentEnough
  PROVE  Slot!End(reason)
<1>1. ~Slot!Free
  BY HolderIsClient
<1>2. ~Active'
  BY DEF End, Active
<1>3. nextId' # 1 /\ endedAs'[nextId' - 1] = reason
  BY ActiveId, BoundsAssumption DEF End, TypeOK, TurnInv, Ids
<1> QED
  BY <1>1, <1>2, <1>3 DEF Slot!End

\* Expiry waits for the silence the slot asks for.
LEMMA ExpiredSilent ==
  ASSUME TypeOK, SilenceInv, TickExpired, ~session.awaiting PROVE Slot!SilentEnough
<1>1. Active /\ session \in SessionRecord
  BY ActiveType DEF TickExpired
<1>2. session.left \in Int /\ session.silent \in Nat
  BY <1>1, TimingAssumption DEF SessionRecord, HeldFor
<1> QED
  BY <1>1, <1>2, TimingAssumption
  DEF TickExpired, Overdue, Holds, HoldOver, HeldFor, SilenceInv, SilenceBound,
      Slot!SilentEnough

LEMMA TickMaps ==
  ASSUME TypeOK, TurnInv, SilenceInv, Tick
  PROVE  (\E reason \in Reasons : Slot!End(reason)) \/ UNCHANGED Slot!vars
<1>1. UNCHANGED <<nextId, updating>>
  BY DEF Tick
<1>2. CASE TickNobody \/ TickQuiet
  BY <1>1, <1>2, StillStutters DEF TickNobody, TickQuiet, Still, Active
<1>3. CASE TickHold
  <2>1. /\ session \in SessionRecord /\ session' = [session EXCEPT !.held = TRUE]
        /\ Active /\ session.id # 0 /\ endedAs' = endedAs
    BY <1>3, ActiveType, ActiveId, BoundsAssumption DEF TickHold, Ids
  <2>2. Still
    BY <1>1, <2>1 DEF Still, SessionRecord, Active, NoSession
  <2> QED
    BY <1>1, <2>2, StillStutters
<1>4. CASE TickRevoked
  <2>1. Slot!End("revoked")
    BY <1>1, <1>4, EndsTurn DEF TickRevoked
  <2> QED
    BY <2>1 DEF Reasons
<1>5. CASE TickExpired /\ session.awaiting
  <2>1. Slot!End("goodbye")
    BY <1>1, <1>5, EndsTurn DEF TickExpired
  <2> QED
    BY <2>1 DEF Reasons
<1>6. CASE TickExpired /\ ~session.awaiting
  <2>1. Slot!End("liveness")
    BY <1>1, <1>6, EndsTurn, ExpiredSilent DEF TickExpired
  <2> QED
    BY <2>1 DEF Reasons
<1> QED
  BY <1>2, <1>3, <1>4, <1>5, <1>6 DEF Tick

\* Time passes for the holder, and for nobody.
LEMMA ElapseMaps == ASSUME TypeOK, Elapse PROVE Slot!Wait \/ UNCHANGED Slot!vars
<1>1. UNCHANGED <<nextId, updating, endedAs>>
  BY DEF Elapse, history
<1>2. CASE ~Active
  BY <1>1, <1>2, StillStutters DEF Elapse, Still, Active
<1>3. CASE Active
  <2>1. session \in SessionRecord /\ session.id # 0 /\ session.silent \in 0..HoldLimit
    BY <1>3, ActiveType, ActiveId, BoundsAssumption DEF Ids, SessionRecord
  <2>2. /\ session'.id = session.id /\ session'.hello = session.hello
        /\ session'.frames = session.frames
        /\ session'.silent = Min2(session.silent + 1, HoldLimit)
    BY <1>3, <2>1 DEF Elapse, SessionRecord
  <2>3. Active' /\ ~Slot!Free
    BY <1>3, <2>1, <2>2, HolderIsClient DEF Active, NoSession
  <2>4. session'.silent = IF session.silent < HoldLimit THEN session.silent + 1 ELSE HoldLimit
    BY <2>1, <2>2, TimingAssumption DEF Min2
  <2> QED
    BY <1>1, <1>3, <2>2, <2>3, <2>4 DEF Slot!Wait
<1> QED
  BY <1>2, <1>3

\* An update shuts the slot, and shuts out its holder.
LEMMA BeginUpdateShuts ==
  ASSUME TypeOK, TurnInv, NEW stopStream, BeginUpdate(stopStream) PROVE Slot!Shut
<1>1. updating' /\ nextId' = nextId /\ ~Active'
  BY DEF BeginUpdate, End, Active
<1>2. CASE Active
  <2>1. ~Slot!Free /\ nextId # 1 /\ endedAs'[nextId - 1] = "shutdown"
    BY <1>2, HolderIsClient, ActiveId, BoundsAssumption
    DEF BeginUpdate, End, TypeOK, TurnInv, Ids
  <2> QED
    BY <1>1, <2>1 DEF Slot!Shut, BeginUpdate
<1>3. CASE ~Active
  BY <1>1, <1>3, HolderIsClient DEF Slot!Shut, BeginUpdate
<1> QED
  BY <1>2, <1>3

\* Every step of the session is one of the slot, or one the slot does not see.
LEMMA StepMaps ==
  TypeOK /\ TurnInv /\ SilenceInv /\ [Next]_vars => [Slot!Next]_(Slot!vars)
<1> SUFFICES ASSUME TypeOK, TurnInv, SilenceInv, [Next]_vars
             PROVE  Slot!Next \/ UNCHANGED Slot!vars
  OBVIOUS
<1>1. CASE Bystander
  <2>1. Still /\ (updating' => updating)
    BY <1>1, BystanderUnmoved DEF Unmoved, Still, Active
  <2>2. CASE updating' = updating
    BY <2>1, <2>2, StillStutters
  <2>3. CASE updating' # updating
    <3>1. updating' = FALSE
      BY <1>1, <2>3 DEF Bystander, TurnAway, Reack, Refuse, EndUpdate, RegenerateToken,
                        RotateCode, SetRequired, vars
    <3>2. Slot!Open
      BY <2>1, <3>1 DEF Slot!Open, Still
    <3> QED
      BY <3>2 DEF Slot!Next
  <2> QED
    BY <2>2, <2>3
<1>2. ASSUME NEW h \in Hellos, NEW limited, Admit(h, limited) PROVE Slot!Next
  BY <1>2, AdmitTakes DEF Slot!Next
<1>3. ASSUME NEW p, NEW i, Heeds(p, i) PROVE Slot!Next
  BY <1>3, HeedsHears DEF Slot!Next
<1>4. ASSUME NEW p, NEW i, NEW superseded, Bye(p, i, superseded)
      PROVE  Slot!Next \/ UNCHANGED Slot!vars
  <2>1. Active /\ UNCHANGED <<nextId, updating>>
    BY <1>4 DEF Bye, FromClient
  <2>2. CASE End("goodbye")
    <3>1. Slot!End("goodbye")
      BY <2>1, <2>2, EndsTurn
    <3> QED
      BY <3>1 DEF Slot!Next, Reasons
  <2>3. CASE /\ session' = [session EXCEPT !.awaiting = TRUE, !.left = TakeoverTimeout]
             /\ endedAs' = endedAs
    <3>1. session \in SessionRecord /\ session.id # 0
      BY <2>1, ActiveType, ActiveId, BoundsAssumption DEF Ids
    <3>2. Still
      BY <2>1, <2>3, <3>1 DEF Still, SessionRecord, Active, NoSession
    <3> QED
      BY <2>1, <3>2, StillStutters
  <2> QED
    BY <1>4, <2>2, <2>3 DEF Bye
<1>5. ASSUME NEW p, LinkLost(p) PROVE Slot!Next
  <2>1. Slot!End("linklost")
    BY <1>5, EndsTurn DEF LinkLost
  <2> QED
    BY <2>1 DEF Slot!Next, Reasons
<1>6. CASE Tick
  BY <1>6, TickMaps DEF Slot!Next
<1>7. CASE TransportStart
  <2>1. CASE Active
    <3>1. session \in SessionRecord /\ session.id # 0
      BY <2>1, ActiveType, ActiveId, BoundsAssumption DEF Ids
    <3>2. Still
      BY <1>7, <2>1, <3>1
      DEF TransportStart, Still, SessionRecord, Active, NoSession, history
    <3> QED
      BY <1>7, <3>2, StillStutters DEF TransportStart
  <2>2. CASE ~Active
    BY <1>7, <2>2, StillStutters DEF TransportStart, Still, Active, history
  <2> QED
    BY <2>1, <2>2
<1>8. CASE \/ \E p \in Sources, i \in Ids : AnswerEnded(p, i)
           \/ \E mapped \in BOOLEAN : Act(mapped)
           \/ TransportExit
  BY <1>8, StillStutters DEF AnswerEnded, Act, TransportExit, Still, Active, history
<1>9. ASSUME NEW stopStream, BeginUpdate(stopStream) PROVE Slot!Next
  BY <1>9, BeginUpdateShuts DEF Slot!Next
<1>10. CASE ShutDown
  <2>1. CASE Active
    <3>1. Slot!End("shutdown")
      BY <1>10, <2>1, EndsTurn DEF ShutDown
    <3> QED
      BY <3>1 DEF Slot!Next, Reasons
  <2>2. CASE ~Active
    BY <1>10, <2>2, StillStutters DEF ShutDown, Still, Active
  <2> QED
    BY <2>1, <2>2
<1>11. CASE Elapse
  BY <1>11, ElapseMaps DEF Slot!Next
<1> QED
  BY <1>1, <1>2, <1>3, <1>4, <1>5, <1>6, <1>7, <1>8, <1>9, <1>10, <1>11, StepCases

\* The session keeps the promises of the slot: what packets, ticks, restarts,
\* link changes and updates do to it are turns taken as Slot allows, from a
\* holder heard, waited for, given up or shut out, and nothing else.
THEOREM SlotImplemented == Spec => KeepsSlot
<1>1. Init => Slot!Init
  BY DEF Init, Slot!Init, Active
<1> QED
  BY TypeCorrect, TurnInvariant, SilenceInvariant, <1>1, StepMaps, PTL
  DEF Spec, KeepsSlot, Slot!Spec
==============================================================================
