----------------------------- MODULE LimitsProofs -----------------------------
(***************************************************************************)
(* Theorems about the host's limiters: Stall, which limits the driver      *)
(* calls given up on, for any callers, any number of calls and any limit;  *)
(* PairingLimits, which limits the tries at a pairing code, for any        *)
(* addresses, nonces and codes and any lengths of the windows and limits;  *)
(* and Supervisor, which limits the restarts of the pipeline, for any      *)
(* number of generations and of events from outside.                       *)
(***************************************************************************)
EXTENDS PairingLimits, Stall, Supervisor, FiniteSetTheorems, TLAPS

-----------------------------------------------------------------------------
(* Stall: who owns the result of a call.                                   *)

Waits(c) == caller[c] \in {"waiting", "late"}

\* A waiting caller has a call of its own, which nobody has settled.
CallersOwnCalls ==
  /\ \A c \in Callers : Waits(c) =>
       /\ callOf[c] \in 1..started
       /\ callOf[c] \notin taken /\ callOf[c] \notin gaveUp
  /\ \A c, d \in Callers : (c # d /\ Waits(c) /\ Waits(d)) => callOf[c] # callOf[d]

\* Where a thread may be, given who settled its call.
ThreadsKnow ==
  \A t \in Calls :
    /\ callThread[t] = "unused" <=> t > started
    /\ callThread[t] = "unused" => t \notin gaveUp
    /\ callThread[t] = "sending" => t \notin gaveUp
    /\ callThread[t] \in {"releasing", "freeing"} => t \in gaveUp
    /\ callThread[t] = "freeing" => t \in released
    /\ callThread[t] = "ended" => t \in released \cup sent \cup taken
    /\ t \in sent => callThread[t] = "ended" /\ t \notin gaveUp /\ t \notin taken
    /\ t \in taken => callThread[t] = "ended" /\ t \notin gaveUp
    /\ t \in released => t \in gaveUp

OwnerInv == LaneTypeOK /\ CallersOwnCalls /\ ThreadsKnow

-----------------------------------------------------------------------------
LEMMA InitOwner == LaneInit => OwnerInv
BY CallBounds DEF LaneInit, OwnerInv, LaneTypeOK, CallersOwnCalls, ThreadsKnow, Waits, Calls

LEMMA AbandonedFinite ==
  ASSUME LaneTypeOK PROVE IsFiniteSet(Abandoned) /\ Abandoned \subseteq Calls
<1>1. IsFiniteSet(Calls)
  BY CallBounds, FS_Interval DEF Calls
<1>2. Abandoned \subseteq Calls
  BY DEF LaneTypeOK, Abandoned
<1> QED
  BY <1>1, <1>2, FS_Subset

LEMMA StepOwner == OwnerInv /\ LaneCountsAbandoned /\ [LaneNext]_laneVars => OwnerInv'
<1> SUFFICES ASSUME OwnerInv, LaneCountsAbandoned, [LaneNext]_laneVars PROVE OwnerInv'
  OBVIOUS
<1> USE CallBounds DEF OwnerInv, LaneTypeOK, CallersOwnCalls, ThreadsKnow, Waits, Calls
<1>1. ASSUME NEW c \in Callers, Clear(c) PROVE OwnerInv'
  BY <1>1 DEF Clear
<1>2. ASSUME NEW c \in Callers, SpawnCall(c) PROVE OwnerInv'
  BY <1>2 DEF SpawnCall
<1>3. ASSUME NEW c \in Callers, SpawnFails(c) PROVE OwnerInv'
  BY <1>3 DEF SpawnFails
<1>4. ASSUME NEW c \in Callers, Receive(c) PROVE OwnerInv'
  <2>1. /\ callOf[c] \in 1..started /\ callOf[c] \notin taken \cup gaveUp
        /\ callThread[callOf[c]] = "ended" /\ callOf[c] \in Calls
    BY <1>4 DEF Receive
  <2>2. LaneTypeOK'
    BY <1>4, <2>1 DEF Receive
  <2>3. \A d \in Callers : Waits(d)' => d # c /\ Waits(d) /\ callOf[d] # callOf[c]
    BY <1>4 DEF Receive
  <2>4. CallersOwnCalls'
    BY <1>4, <2>3 DEF Receive
  <2>5. ThreadsKnow'
    BY <1>4, <2>1 DEF Receive
  <2> QED
    BY <2>2, <2>4, <2>5
<1>5. ASSUME NEW c \in Callers, Expire(c) PROVE OwnerInv'
  BY <1>5 DEF Expire
<1>6. ASSUME NEW c \in Callers, ReceiveLate(c) PROVE OwnerInv'
  <2>1. /\ callOf[c] \in 1..started /\ callOf[c] \notin taken \cup gaveUp
        /\ callThread[callOf[c]] = "ended" /\ callOf[c] \in Calls
    BY <1>6 DEF ReceiveLate
  <2>2. LaneTypeOK'
    BY <1>6, <2>1 DEF ReceiveLate
  <2>3. \A d \in Callers : Waits(d)' => d # c /\ Waits(d) /\ callOf[d] # callOf[c]
    BY <1>6 DEF ReceiveLate
  <2>4. CallersOwnCalls'
    BY <1>6, <2>3 DEF ReceiveLate
  <2>5. ThreadsKnow'
    BY <1>6, <2>1 DEF ReceiveLate
  <2> QED
    BY <2>2, <2>4, <2>5
<1>7. ASSUME NEW c \in Callers, GiveUp(c) PROVE OwnerInv'
  <2>1. /\ callOf[c] \in 1..started /\ callOf[c] \notin taken \cup gaveUp \cup sent
        /\ callThread[callOf[c]] \in {"running", "returned"} /\ callOf[c] \in Calls
    BY <1>7 DEF GiveUp, LockFree
  <2>2. LaneTypeOK'
    <3>1. lane' \in Nat
      BY <1>7 DEF GiveUp
    <3>2. gaveUp' = gaveUp \cup {callOf[c]}
      BY <1>7 DEF GiveUp
    <3>3. gaveUp' \in SUBSET Calls
      BY <2>1, <3>2
    <3> QED
      BY <1>7, <3>1, <3>3 DEF GiveUp
  <2>3. \A d \in Callers : Waits(d)' => d # c /\ Waits(d) /\ callOf[d] # callOf[c]
    BY <1>7 DEF GiveUp, LockFree
  <2>4. CallersOwnCalls'
    BY <1>7, <2>3 DEF GiveUp, LockFree
  <2>5. ThreadsKnow'
    BY <1>7, <2>1 DEF GiveUp, LockFree
  <2> QED
    BY <2>2, <2>4, <2>5
<1>8. ASSUME NEW c \in Callers, Refuse(c) PROVE OwnerInv'
  BY <1>8 DEF Refuse, laneVars
<1>9. ASSUME NEW t \in Calls, Return(t) PROVE OwnerInv'
  BY <1>9 DEF Return
<1>10. ASSUME NEW t \in Calls, Lock(t) PROVE OwnerInv'
  BY <1>10 DEF Lock
<1>11. ASSUME NEW t \in Calls, ReadGaveUp(t) PROVE OwnerInv'
  BY <1>11 DEF ReadGaveUp
<1>12. ASSUME NEW t \in Calls, Send(t) PROVE OwnerInv'
  BY <1>12 DEF Send
<1>13. ASSUME NEW t \in Calls, Release(t) PROVE OwnerInv'
  <2>1. LaneTypeOK'
    BY <1>13 DEF Release
  <2>2. CallersOwnCalls'
    BY <1>13 DEF Release
  <2>3. ThreadsKnow'
    BY <1>13 DEF Release
  <2> QED
    BY <2>1, <2>2, <2>3
<1>14. ASSUME NEW t \in Calls, FreeLane(t) PROVE OwnerInv'
  <2>1. t \in Abandoned
    BY <1>14 DEF FreeLane, Abandoned
  <2>2. lane \in Nat /\ lane # 0
    BY <2>1, AbandonedFinite, FS_EmptySet DEF LaneCountsAbandoned
  <2>3. lane' \in Nat
    BY <1>14, <2>2 DEF FreeLane
  <2>4. LaneTypeOK'
    BY <1>14, <2>3 DEF FreeLane
  <2>5. CallersOwnCalls'
    BY <1>14 DEF FreeLane
  <2>6. ThreadsKnow'
    BY <1>14 DEF FreeLane
  <2> QED
    BY <2>4, <2>5, <2>6
<1>15. ASSUME UNCHANGED laneVars PROVE OwnerInv'
  BY <1>15 DEF laneVars
<1> QED
  BY <1>1, <1>2, <1>3, <1>4, <1>5, <1>6, <1>7, <1>8, <1>9, <1>10, <1>11, <1>12, <1>13,
     <1>14, <1>15
  DEF LaneNext, CallerStep, ThreadStep

LEMMA InitLane == LaneInit => LaneCountsAbandoned
BY FS_EmptySet DEF LaneInit, LaneCountsAbandoned, Abandoned

\* Only giving up adds an abandoned call, and only its freed lane removes one.
LEMMA StepLane ==
  ASSUME OwnerInv, OwnerInv', LaneCountsAbandoned, [LaneNext]_laneVars
  PROVE  LaneCountsAbandoned'
<1> USE DEF OwnerInv, LaneTypeOK, ThreadsKnow, Calls
<1>1. ASSUME Abandoned' = Abandoned, lane' = lane PROVE LaneCountsAbandoned'
  BY <1>1 DEF LaneCountsAbandoned
<1>2. ASSUME NEW c \in Callers, GiveUp(c) PROVE LaneCountsAbandoned'
  <2>1. /\ callOf[c] \in Calls /\ callOf[c] \notin gaveUp \cup sent \cup taken
    BY <1>2 DEF GiveUp, CallersOwnCalls, Waits
  <2>2. callOf[c] \notin Abandoned /\ Abandoned' = Abandoned \cup {callOf[c]}
    BY <1>2, <2>1 DEF GiveUp, Abandoned
  <2>3. Cardinality(Abandoned') = Cardinality(Abandoned) + 1
    BY <2>2, AbandonedFinite, FS_AddElement
  <2> QED
    BY <1>2, <2>3 DEF GiveUp, LaneCountsAbandoned
<1>3. ASSUME NEW t \in Calls, FreeLane(t) PROVE LaneCountsAbandoned'
  <2>1. t \in Abandoned /\ Abandoned' = Abandoned \ {t}
    BY <1>3 DEF FreeLane, Abandoned
  <2>2. Cardinality(Abandoned') = Cardinality(Abandoned) - 1
    BY <2>1, AbandonedFinite, FS_RemoveElement
  <2> QED
    BY <1>3, <2>2 DEF FreeLane, LaneCountsAbandoned
<1>4. ASSUME NEW c \in Callers, CallerStep(c), ~GiveUp(c) PROVE LaneCountsAbandoned'
  <2>1. ASSUME SpawnCall(c) PROVE Abandoned' = Abandoned /\ lane' = lane
    BY <2>1 DEF SpawnCall, Abandoned
  <2>2. ASSUME Clear(c) \/ SpawnFails(c) \/ Receive(c) \/ Expire(c) \/ ReceiveLate(c)
        PROVE Abandoned' = Abandoned /\ lane' = lane
    BY <2>2 DEF Clear, SpawnFails, Receive, Expire, ReceiveLate, Abandoned
  <2> QED
    BY <1>1, <1>4, <2>1, <2>2 DEF CallerStep
<1>5. ASSUME NEW t \in Calls, ThreadStep(t) \/ Return(t), ~FreeLane(t)
      PROVE LaneCountsAbandoned'
  <2>1. Abandoned' = Abandoned /\ lane' = lane
    <3>1. ASSUME Lock(t) PROVE Abandoned' = Abandoned /\ lane' = lane
      BY <3>1 DEF Lock, Abandoned
    <3>2. ASSUME Release(t) PROVE Abandoned' = Abandoned /\ lane' = lane
      BY <3>2 DEF Release, Abandoned
    <3>3. ASSUME Return(t) PROVE Abandoned' = Abandoned /\ lane' = lane
      BY <3>3 DEF Return, Abandoned
    <3>4. ASSUME ReadGaveUp(t) PROVE Abandoned' = Abandoned /\ lane' = lane
      BY <3>4 DEF ReadGaveUp, Abandoned
    <3>5. ASSUME Send(t) PROVE Abandoned' = Abandoned /\ lane' = lane
      BY <3>5 DEF Send, Abandoned
    <3> QED
      BY <1>5, <3>1, <3>2, <3>3, <3>4, <3>5 DEF ThreadStep
  <2> QED
    BY <1>1, <2>1
<1>6. ASSUME UNCHANGED laneVars PROVE LaneCountsAbandoned'
  BY <1>1, <1>6 DEF laneVars, Abandoned
<1> QED
  BY <1>2, <1>3, <1>4, <1>5, <1>6 DEF LaneNext, Refuse

LEMMA OwnerInvariant == LaneSpec => [](OwnerInv /\ LaneCountsAbandoned)
<1>1. OwnerInv /\ LaneCountsAbandoned /\ [LaneNext]_laneVars
        => OwnerInv' /\ LaneCountsAbandoned'
  BY StepOwner, StepLane
<1> QED
  BY InitOwner, InitLane, <1>1, PTL DEF LaneSpec

\* Every variable stays in its range: the lane never counts below nothing.
THEOREM StallTypeCorrect == LaneSpec => []LaneTypeOK
<1>1. OwnerInv => LaneTypeOK
  BY DEF OwnerInv
<1> QED
  BY <1>1, OwnerInvariant, PTL

\* The lane counts exactly the calls that were given up on and still run.
THEOREM LaneExact == LaneSpec => []LaneCountsAbandoned
BY OwnerInvariant, PTL

\* Exactly one of the caller and the call's thread owns a result.
THEOREM OneOwner == LaneSpec => []ResultHasOneOwner
<1>1. OwnerInv => ResultHasOneOwner
  BY DEF OwnerInv, LaneTypeOK, ThreadsKnow, ResultHasOneOwner
<1> QED
  BY <1>1, OwnerInvariant, PTL

\* A caller that waits is never left without a result.
THEOREM NoneLost == LaneSpec => []NoLostResult
<1>1. OwnerInv => NoLostResult
  BY DEF OwnerInv, LaneTypeOK, CallersOwnCalls, ThreadsKnow, NoLostResult, Waits, Calls
<1> QED
  BY <1>1, OwnerInvariant, PTL

\* A caller passes the check only while less than MaxAbandoned results are late.
THEOREM ReleasedFirst == LaneSpec => ClearedAfterRelease
<1>1. ASSUME OwnerInv, LaneCountsAbandoned, [LaneNext]_laneVars, NEW c \in Callers,
             caller[c] = "idle", caller'[c] = "cleared"
      PROVE  Cardinality(gaveUp \ released) < MaxAbandoned
  <2>1. lane < MaxAbandoned
    BY <1>1 DEF LaneNext, CallerStep, ThreadStep, Clear, SpawnCall, SpawnFails, Receive, Expire,
       ReceiveLate, GiveUp, Refuse, Return, Lock, ReadGaveUp, Send, Release, FreeLane, laneVars,
       Cleared, OwnerInv, LaneTypeOK
  <2>2. gaveUp \ released \subseteq Abandoned
    BY <1>1 DEF OwnerInv, LaneTypeOK, ThreadsKnow, Abandoned
  <2>3. IsFiniteSet(Abandoned)
    BY <1>1, AbandonedFinite DEF OwnerInv
  <2>4. /\ Cardinality(gaveUp \ released) \in Nat
        /\ Cardinality(gaveUp \ released) <= Cardinality(Abandoned)
    BY <2>2, <2>3, FS_Subset, FS_CardinalityType
  <2> QED
    BY <1>1, <2>1, <2>4, CallBounds DEF LaneCountsAbandoned, OwnerInv, LaneTypeOK
<1>2. OwnerInv /\ LaneCountsAbandoned /\ [LaneNext]_laneVars
        => [\A c \in Callers : (caller[c] = "idle" /\ caller'[c] = "cleared")
              => Cardinality(gaveUp \ released) < MaxAbandoned]_laneVars
  BY <1>1
<1> QED
  BY <1>2, OwnerInvariant, PTL DEF LaneSpec, ClearedAfterRelease

-----------------------------------------------------------------------------
LEMMA PastCheckFinite == IsFiniteSet(PastCheck) /\ PastCheck \subseteq Callers
BY CallersAssumption, FS_Subset DEF PastCheck

LEMMA PastCheckShrinks ==
  ASSUME PastCheck' \subseteq PastCheck
  PROVE  /\ Cardinality(PastCheck') \in Nat /\ Cardinality(PastCheck) \in Nat
         /\ Cardinality(PastCheck') <= Cardinality(PastCheck)
BY PastCheckFinite, FS_Subset, FS_CardinalityType

LEMMA StepBound ==
  ASSUME LaneTypeOK, LaneBound, [LaneNext]_laneVars PROVE LaneBound'
<1>1. Cardinality(Callers) \in Nat
  BY CallersAssumption, FS_CardinalityType
<1> USE CallBounds DEF LaneTypeOK
<1>2. ASSUME NEW c \in Callers, Clear(c) PROVE LaneBound'
  <2>1. PastCheck' \subseteq Callers
    BY DEF PastCheck
  <2>2. Cardinality(PastCheck') \in Nat /\ Cardinality(PastCheck') <= Cardinality(Callers)
    BY <2>1, CallersAssumption, FS_Subset, FS_CardinalityType
  <2> QED
    BY <1>1, <1>2, <2>2 DEF Clear, Cleared, LaneBound
<1>3. ASSUME NEW c \in Callers, GiveUp(c) PROVE LaneBound'
  <2>1. c \in PastCheck /\ PastCheck' = PastCheck \ {c}
    BY <1>3 DEF GiveUp, PastCheck
  <2>2. Cardinality(PastCheck) \in Nat /\ Cardinality(PastCheck') = Cardinality(PastCheck) - 1
    BY <2>1, PastCheckFinite, FS_RemoveElement, FS_CardinalityType
  <2> QED
    BY <1>1, <1>3, <2>2 DEF GiveUp, LaneBound
<1>4. ASSUME PastCheck' \subseteq PastCheck, lane' = lane \/ lane' = lane - 1
      PROVE  LaneBound'
  BY <1>1, <1>4, PastCheckShrinks DEF LaneBound
<1>5. ASSUME NEW c \in Callers, CallerStep(c), ~Clear(c), ~GiveUp(c) PROVE LaneBound'
  <2>1. PastCheck' \subseteq PastCheck /\ lane' = lane
    BY <1>5 DEF CallerStep, SpawnCall, SpawnFails, Receive, Expire, ReceiveLate, PastCheck
  <2> QED
    BY <1>4, <2>1
<1>6. ASSUME NEW t \in Calls, ThreadStep(t) \/ Return(t) PROVE LaneBound'
  <2>1. PastCheck' = PastCheck /\ (lane' = lane \/ lane' = lane - 1)
    BY <1>6 DEF ThreadStep, Lock, ReadGaveUp, Send, Release, FreeLane, Return, PastCheck
  <2> QED
    BY <1>4, <2>1
<1>7. ASSUME UNCHANGED laneVars PROVE LaneBound'
  BY <1>4, <1>7 DEF laneVars, PastCheck
<1> QED
  BY <1>2, <1>3, <1>5, <1>6, <1>7 DEF LaneNext, Refuse

\* Callers that clear the lane together exceed the limit by at most one each.
THEOREM LaneBounded == LaneSpec => []LaneBound
<1>1. LaneInit => LaneBound
  <2>1. ASSUME LaneInit PROVE PastCheck = {} /\ lane = 0
    BY <2>1 DEF LaneInit, PastCheck
  <2>2. Cardinality(Callers) \in Nat
    BY CallersAssumption, FS_CardinalityType
  <2> QED
    BY <2>1, <2>2, FS_EmptySet, CallBounds DEF LaneBound
<1> QED
  BY <1>1, StepBound, StallTypeCorrect, PTL DEF LaneSpec

\* With one caller of a kind the comment on MAX_ABANDONED holds.
THEOREM SoleCallerBounded ==
  ASSUME Cardinality(Callers) = 1 PROVE LaneSpec => []AtMostMaxAbandoned
<1>1. ASSUME LaneTypeOK, LaneBound PROVE AtMostMaxAbandoned
  BY <1>1, PastCheckFinite, FS_CardinalityType, CallBounds
  DEF LaneBound, AtMostMaxAbandoned, LaneTypeOK
<1> QED
  BY <1>1, LaneBounded, StallTypeCorrect, PTL

\* Every result has exactly one owner.
THEOREM ResultsKept == LaneSpec => []ResultsSound
BY OneOwner, NoneLost, PTL DEF ResultsSound

\* The lane is exact and bounded.
THEOREM LaneKept == LaneSpec => []LaneSound
BY LaneExact, LaneBounded, PTL DEF LaneSound

-----------------------------------------------------------------------------
(* The budget over all addresses.                                          *)

Recent(one) == now - one.at < BudgetWindow
AsSpent(guess) == [at |-> guess.at, request |-> guess.request]

BudgetTypes ==
  /\ now \in Time
  /\ code \in 1..MaxCode
  /\ spent \subseteq Spent /\ IsFiniteSet(spent)
  /\ judged \subseteq Guess
  /\ paused \in Until

\* A pause starts with a full budget and outlasts every guess in it.
PauseInv ==
  /\ Cardinality(spent) <= CodeBudget
  /\ paused = Never => Cardinality(spent) < CodeBudget
  /\ \A one \in spent \cup judged : one.at <= now
  /\ paused # Never => \A one \in spent \cup judged : one.at + BudgetWindow <= paused

\* The guesses compared within the last window are those the budget counts,
\* each once.
CountInv ==
  /\ \A guess \in judged : Recent(guess) => AsSpent(guess) \in spent
  /\ \A one \in spent : Recent(one) => \E guess \in judged : AsSpent(guess) = one
  /\ \A g, h \in judged : (Recent(g) /\ Recent(h) /\ g.request = h.request) => g = h

BudgetInv == BudgetTypes /\ PauseInv /\ CountInv

LEMMA BudgetImplied == BudgetInv => BudgetHolds
<1> SUFFICES ASSUME BudgetInv
             PROVE  Cardinality({guess \in judged : Recent(guess)}) <= CodeBudget
  BY DEF BudgetHolds, Recent
<1> DEFINE R == {guess \in judged : Recent(guess)}
           f == [guess \in R |-> AsSpent(guess)]
<1>1. f \in Injection(R, spent)
  <2>1. \A guess \in R : f[guess] \in spent
    BY DEF BudgetInv, CountInv
  <2>2. ASSUME NEW g \in R, NEW h \in R, f[g] = f[h] PROVE g = h
    <3>1. g.request = h.request
      BY <2>2 DEF AsSpent
    <3> QED
      BY <3>1 DEF BudgetInv, CountInv
  <2> QED
    BY <2>1, <2>2 DEF Injection, IsInjective
<1>2. IsFiniteSet(spent)
  BY DEF BudgetInv, BudgetTypes
<1> HIDE DEF R, f
<1>3. IsFiniteSet(R) /\ Cardinality(R) <= Cardinality(spent)
  BY <1>1, <1>2, FS_Injection
<1>4. Cardinality(R) \in Nat /\ Cardinality(spent) \in Nat
  BY <1>2, <1>3, FS_CardinalityType
<1> QED
  BY <1>3, <1>4, LimitsAssumption DEF BudgetInv, PauseInv, R

LEMMA InitBudget == LimitsInit => BudgetInv
BY FS_EmptySet, LimitsAssumption
DEF LimitsInit, BudgetInv, BudgetTypes, PauseInv, CountInv, Time, Until, Never

LEMMA Numbers ==
  ASSUME BudgetTypes
  PROVE  /\ now \in Nat /\ MaxTime \in Nat /\ BudgetWindow \in Nat \ {0}
         /\ Window \in Nat /\ CodeBudget \in Nat \ {0}
         /\ \A one \in spent \cup judged : one.at \in Nat
         /\ paused # Never => paused \in Nat
         /\ Cardinality(spent) \in Nat
BY LimitsAssumption, FS_CardinalityType DEF BudgetTypes, Time, Until, Never, Spent, Guess

\* Nothing of the budget changes but the code.
LEMMA KeptBudget ==
  ASSUME BudgetInv, UNCHANGED <<now, spent, paused, judged>>, code' \in 1..MaxCode
  PROVE  BudgetInv'
BY DEF BudgetInv, BudgetTypes, PauseInv, CountInv, Recent

LEMMA RotatedCode == RotateCode => code' \in 1..MaxCode
BY DEF RotateCode

LEMMA EmptiedBudget ==
  ASSUME BudgetInv, spent' = {}, paused' = Never, now' = now, code' \in 1..MaxCode,
         judged' \subseteq judged, \A guess \in judged' : ~Recent(guess)
  PROVE  BudgetInv'
BY FS_EmptySet, LimitsAssumption, Numbers
DEF BudgetInv, BudgetTypes, PauseInv, CountInv, Recent, Until, Never

LEMMA AdvanceBudget == ASSUME BudgetInv, Advance PROVE BudgetInv'
<1>1. now' = now + 1 /\ now' \in Time /\ now \in Nat
  BY Numbers DEF Advance, Time, BudgetInv
<1>2. UNCHANGED <<code, spent, paused, judged>>
  BY DEF Advance
<1>3. \A one \in spent \cup judged : one.at \in Nat /\ (Recent(one)' => Recent(one))
  BY <1>1, <1>2, Numbers DEF Recent, BudgetInv
<1> QED
  BY <1>1, <1>2, <1>3 DEF BudgetInv, BudgetTypes, PauseInv, CountInv

\* By the time a pause is over, so is the window of every guess before it.
LEMMA PauseOverForgets ==
  ASSUME BudgetInv, PauseOver PROVE \A one \in spent \cup judged : ~Recent(one)
BY Numbers DEF BudgetInv, PauseInv, PauseOver, Recent

\* Without a live pause, what is left of the budget is what is recent.
LEMMA SpentRecentlyIs ==
  ASSUME BudgetInv, ~Paused
  PROVE  /\ SpentRecently = {one \in spent : Recent(one)}
         /\ IsFiniteSet(SpentRecently)
         /\ Cardinality(SpentRecently) \in Nat /\ Cardinality(SpentRecently) < CodeBudget
<1>1. SpentRecently = {one \in spent : Recent(one)}
  BY PauseOverForgets DEF SpentRecently, Recent
<1>2. IsFiniteSet(SpentRecently) /\ Cardinality(SpentRecently) <= Cardinality(spent)
  BY <1>1, FS_Subset DEF BudgetInv, BudgetTypes
<1>3. CASE PauseOver
  <2>1. SpentRecently = {}
    BY <1>3 DEF SpentRecently
  <2>2. Cardinality(SpentRecently) = 0
    BY <2>1, FS_EmptySet
  <2> QED
    BY <1>1, <1>2, <2>2, Numbers DEF BudgetInv
<1>4. CASE ~PauseOver
  <2>1. paused = Never
    BY <1>4, Numbers DEF Paused, PauseOver, BudgetInv
  <2> QED
    BY <1>1, <1>2, <2>1, FS_CardinalityType, Numbers DEF BudgetInv, PauseInv
<1> QED
  BY <1>1, <1>2, <1>3, <1>4

LEMMA WrongCodeBudget ==
  ASSUME BudgetInv, NEW a \in Addresses, NEW request \in Requests, WrongCode(a, request)
  PROVE  BudgetInv'
<1> DEFINE recent == {guess \in judged : Recent(guess)}
           guess == [at |-> now, from |-> a, request |-> request]
           one == [at |-> now, request |-> request]
<1>1. ~Paused /\ Spend(request) /\ judged' = Guesses(a, request) /\ now' = now
  BY DEF WrongCode
<1>2. /\ SpentRecently = {s \in spent : Recent(s)}
      /\ IsFiniteSet(SpentRecently)
      /\ Cardinality(SpentRecently) \in Nat /\ Cardinality(SpentRecently) < CodeBudget
  BY <1>1, SpentRecentlyIs
<1>3. code' \in 1..MaxCode
  BY <1>1, RotatedCode DEF Spend, BudgetInv, BudgetTypes
<1>4. Retransmitted(request) <=> \E g \in recent : g.request = request
  <2>1. \A g \in recent : AsSpent(g) \in SpentRecently /\ AsSpent(g).request = g.request
    BY <1>2 DEF BudgetInv, CountInv, AsSpent, Recent
  <2>2. \A s \in SpentRecently : \E g \in recent : g.request = s.request
    BY <1>2 DEF BudgetInv, CountInv, AsSpent, Recent
  <2> QED
    BY <2>1, <2>2 DEF Retransmitted
<1>5. CASE Retransmitted(request)
  <2>1. spent' = SpentRecently /\ paused' = Never /\ judged' = recent
    BY <1>1, <1>4, <1>5 DEF Spend, Guesses, Recent
  <2> QED
    BY <1>1, <1>2, <1>3, <2>1, Numbers
    DEF BudgetInv, BudgetTypes, PauseInv, CountInv, Recent, AsSpent, Until
<1>6. CASE ~Retransmitted(request)
  <2>1. /\ spent' = SpentRecently \cup {one} /\ judged' = recent \cup {guess}
        /\ \/ paused' = Never /\ Cardinality(spent') < CodeBudget
           \/ paused' = now + BudgetWindow
    BY <1>1, <1>4, <1>6 DEF Spend, SpentNow, Guesses, Recent
  <2>2. IsFiniteSet(spent') /\ Cardinality(spent') <= Cardinality(SpentRecently) + 1
    <3> HIDE DEF one
    <3>1. /\ IsFiniteSet(SpentRecently \cup {one})
          /\ Cardinality(SpentRecently \cup {one}) =
               IF one \in SpentRecently THEN Cardinality(SpentRecently)
                                        ELSE Cardinality(SpentRecently) + 1
      BY <1>2, FS_AddElement
    <3> QED
      BY <1>2, <2>1, <3>1
  <2>3. Cardinality(spent') \in Nat /\ Cardinality(spent') <= CodeBudget
    BY <1>2, <2>2, FS_CardinalityType, LimitsAssumption
  <2>4. one \in Spent /\ guess \in Guess /\ AsSpent(guess) = one /\ one.at = now /\ guess.at = now
    BY DEF BudgetInv, BudgetTypes, Spent, Guess, AsSpent
  <2>5. BudgetTypes'
    <3>1. paused' \in Until
      BY <2>1, Numbers DEF BudgetInv, BudgetTypes, Until, Time
    <3> QED
      BY <1>1, <1>2, <1>3, <2>1, <2>2, <2>4, <3>1 DEF BudgetInv, BudgetTypes
  <2>6. PauseInv'
    <3>1. \A x \in spent' \cup judged' : x.at \in Nat /\ x.at <= now
      BY <1>2, <2>1, <2>4, Numbers DEF BudgetInv, PauseInv
    <3> QED
      BY <1>1, <2>1, <2>3, <3>1, Numbers DEF PauseInv, BudgetInv, Never
  <2>7. CountInv'
    <3>1. \A g \in recent : g.request # request
      BY <1>4, <1>6
    <3>2. \A x : Recent(x)' <=> Recent(x)
      BY <1>1 DEF Recent
    <3>3. \A g \in judged' : Recent(g)' => AsSpent(g) \in spent'
      BY <1>2, <2>1, <2>4, <3>2 DEF BudgetInv, CountInv, AsSpent, Recent
    <3>4. \A s \in spent' : \E g \in judged' : AsSpent(g) = s
      BY <1>2, <2>1, <2>4 DEF BudgetInv, CountInv, AsSpent, Recent
    <3>5. \A g, h \in judged' : g.request = h.request => g = h
      BY <2>1, <3>1 DEF BudgetInv, CountInv
    <3> QED
      BY <3>2, <3>3, <3>4, <3>5 DEF CountInv, AsSpent
  <2> QED
    BY <2>5, <2>6, <2>7 DEF BudgetInv
<1> QED
  BY <1>5, <1>6

LEMMA StepBudget == BudgetInv /\ [LimitsNext]_limitsVars => BudgetInv'
<1> SUFFICES ASSUME BudgetInv, [LimitsNext]_limitsVars PROVE BudgetInv'
  OBVIOUS
<1>0. code \in 1..MaxCode
  BY DEF BudgetInv, BudgetTypes
<1>1. ASSUME NEW a \in Addresses, NEW request \in Requests, Authorize(a, request)
      PROVE  BudgetInv'
  <2>1. CASE AddressLimited(a, request) \/ CodeLimited(a, request) \/ Asks(a, request)
    BY <1>0, <2>1, KeptBudget DEF AddressLimited, CodeLimited, Asks
  <2>2. CASE Paired(a, request)
    <3>1. now' = now /\ judged' = judged /\ code' \in 1..MaxCode /\ Refreshed
      BY <1>0, <2>2, RotatedCode DEF Paired
    <3>2. CASE PauseOver
      BY <3>1, <3>2, EmptiedBudget, PauseOverForgets DEF Refreshed
    <3>3. CASE ~PauseOver
      BY <3>1, <3>3, KeptBudget DEF Refreshed
    <3> QED
      BY <3>2, <3>3
  <2> QED
    BY <1>1, <2>1, <2>2, WrongCodeBudget DEF Authorize
<1>2. CASE Resume
  BY <1>2, EmptiedBudget, RotatedCode DEF Resume
<1>3. CASE NewCode
  BY <1>3, KeptBudget, RotatedCode DEF NewCode
<1>4. CASE UNCHANGED limitsVars
  BY <1>0, <1>4, KeptBudget DEF limitsVars
<1> QED
  BY <1>1, <1>2, <1>3, <1>4, AdvanceBudget DEF LimitsNext

\* However wrong codes spread over addresses, retransmissions, windows and
\* pauses, no more than the budget were compared in the last window.
THEOREM BudgetAlwaysHolds == LimitsSpec => []BudgetHolds
BY InitBudget, StepBudget, BudgetImplied, PTL DEF LimitsSpec

-----------------------------------------------------------------------------
(* The limit per address.                                                  *)

LimiterTypes ==
  /\ now \in Time
  /\ DOMAIN entries \subseteq Addresses
  /\ IsFiniteSet(DOMAIN entries) /\ Cardinality(DOMAIN entries) <= MaxIps
  /\ \A a \in DOMAIN entries : entries[a] \in Attempts
  /\ overflow \subseteq Attempts
  /\ \E entry : overflow \subseteq {entry}

\* Pruning drops entries and changes none.
LEMMA PrunedIs ==
  /\ DOMAIN Pruned = {a \in DOMAIN entries : Active(entries[a])}
  /\ \A a \in DOMAIN Pruned : Pruned[a] = entries[a]
BY DEF Pruned, RestrictValues, Restrict

LEMMA PrunedTypes ==
  ASSUME LimiterTypes
  PROVE  /\ DOMAIN Pruned \subseteq Addresses
         /\ IsFiniteSet(DOMAIN Pruned) /\ Cardinality(DOMAIN Pruned) <= MaxIps
         /\ Cardinality(DOMAIN Pruned) \in Nat
         /\ \A a \in DOMAIN Pruned : Pruned[a] \in Attempts
         /\ PrunedOverflow \subseteq Attempts
         /\ \E entry : PrunedOverflow \subseteq {entry}
<1>1. DOMAIN Pruned \subseteq DOMAIN entries
  BY PrunedIs
<1>2. IsFiniteSet(DOMAIN Pruned) /\ Cardinality(DOMAIN Pruned) <= Cardinality(DOMAIN entries)
      /\ Cardinality(DOMAIN Pruned) \in Nat /\ Cardinality(DOMAIN entries) \in Nat
  BY <1>1, FS_Subset, FS_CardinalityType DEF LimiterTypes
<1> QED
  BY <1>1, <1>2, PrunedIs, LimitsAssumption DEF LimiterTypes, PrunedOverflow

LEMMA FailureTypes ==
  ASSUME LimiterTypes, NEW entry \in Attempts, NEW request \in Requests
  PROVE  WithFailure(entry, request) \in Attempts
<1>1. now + Window \in Until /\ Never \in Until
  BY LimitsAssumption DEF LimiterTypes, Until, Time
<1>2. entry.failures \cup {request} \in SUBSET Requests
  BY DEF Attempts
<1> QED
  BY <1>1, <1>2 DEF WithFailure, Attempts

LEMMA FreshTypes == ASSUME LimiterTypes PROVE Fresh \in Attempts
BY DEF LimiterTypes, Fresh, Attempts, Until

LEMMA PruneTypes ==
  ASSUME LimiterTypes, entries' = Pruned, overflow' = PrunedOverflow, now' = now
  PROVE  LimiterTypes'
BY PrunedTypes DEF LimiterTypes

LEMMA FailTypes ==
  ASSUME LimiterTypes, NEW a \in Addresses, NEW request \in Requests, Fail(a, request), now' = now
  PROVE  LimiterTypes'
<1>1. CASE a \in DOMAIN Pruned \/ Cardinality(DOMAIN Pruned) < MaxIps
  <2> DEFINE entry == IF a \in DOMAIN Pruned THEN Pruned[a] ELSE Fresh
  <2>1. entry \in Attempts
    BY PrunedTypes, FreshTypes
  <2>2. /\ entries' = [b \in DOMAIN Pruned \cup {a} |->
                         IF b = a THEN WithFailure(entry, request) ELSE Pruned[b]]
        /\ overflow' = PrunedOverflow
    BY <1>1 DEF Fail
  <2> HIDE DEF entry
  <2>3. WithFailure(entry, request) \in Attempts
    BY <2>1, FailureTypes
  <2>4. \A b \in DOMAIN entries' : entries'[b] \in Attempts
    BY <2>2, <2>3, PrunedTypes
  <2>5. DOMAIN entries' = DOMAIN Pruned \cup {a}
    BY <2>2
  <2>6. /\ IsFiniteSet(DOMAIN Pruned \cup {a})
        /\ Cardinality(DOMAIN Pruned \cup {a}) =
             IF a \in DOMAIN Pruned THEN Cardinality(DOMAIN Pruned)
                                    ELSE Cardinality(DOMAIN Pruned) + 1
    BY PrunedTypes, FS_AddElement
  <2>7. Cardinality(DOMAIN entries') <= MaxIps
    BY <1>1, <2>5, <2>6, PrunedTypes, LimitsAssumption
  <2> QED
    BY <2>2, <2>4, <2>5, <2>6, <2>7, PrunedTypes DEF LimiterTypes
<1>2. CASE ~(a \in DOMAIN Pruned \/ Cardinality(DOMAIN Pruned) < MaxIps)
  <2> DEFINE before == IF PrunedOverflow = {} THEN {Fresh} ELSE PrunedOverflow
  <2>1. entries' = Pruned /\ overflow' = {WithFailure(entry, request) : entry \in before}
    BY <1>2 DEF Fail
  <2>2. PICK one : before \subseteq {one}
    BY PrunedTypes
  <2>3. overflow' \subseteq {WithFailure(one, request)}
    BY <2>1, <2>2
  <2>4. \A entry \in before : entry \in Attempts
    BY PrunedTypes, FreshTypes
  <2>5. overflow' \subseteq Attempts
    BY <2>1, <2>4, FailureTypes
  <2> QED
    BY <2>1, <2>3, <2>5, PrunedTypes DEF LimiterTypes
<1> QED
  BY <1>1, <1>2

LEMMA StepLimiter == LimiterTypes /\ [LimitsNext]_limitsVars => LimiterTypes'
<1> SUFFICES ASSUME LimiterTypes, [LimitsNext]_limitsVars PROVE LimiterTypes'
  OBVIOUS
<1>1. ASSUME NEW a \in Addresses, NEW request \in Requests, Authorize(a, request)
      PROVE  LimiterTypes'
  BY <1>1, PruneTypes, FailTypes
  DEF Authorize, AddressLimited, CodeLimited, Paired, Asks, WrongCode
<1>2. CASE Resume
  <2>1. DOMAIN entries' = {} /\ overflow' = {} /\ now' = now
    BY <1>2 DEF Resume, NoEntries
  <2> QED
    BY <2>1, FS_EmptySet, LimitsAssumption DEF LimiterTypes
<1>3. CASE NewCode \/ UNCHANGED limitsVars
  BY <1>3 DEF NewCode, limitsVars, LimiterTypes
<1>4. CASE Advance
  BY <1>4, LimitsAssumption DEF Advance, LimiterTypes, Time
<1> QED
  BY <1>1, <1>2, <1>3, <1>4 DEF LimitsNext

LEMMA InitLimiter == LimitsInit => LimiterTypes
<1> SUFFICES ASSUME LimitsInit PROVE LimiterTypes
  OBVIOUS
<1>1. DOMAIN entries = {} /\ overflow = {} /\ now = 0
  BY DEF LimitsInit, NoEntries
<1> QED
  BY <1>1, FS_EmptySet, LimitsAssumption DEF LimiterTypes, Time

\* The table keeps to MAX_IPS entries and the shared one, the budget to
\* CODE_BUDGET guesses, for every number of addresses that try.
THEOREM PairingTypeCorrect == LimitsSpec => []LimitsTypeOK
<1>1. BudgetInv /\ LimiterTypes => LimitsTypeOK
  <2> SUFFICES ASSUME BudgetInv, LimiterTypes PROVE LimitsTypeOK
    OBVIOUS
  <2>1. PICK entry : overflow \subseteq {entry}
    BY DEF LimiterTypes
  <2>2. IsFiniteSet({entry}) /\ Cardinality({entry}) = 1
    BY FS_Singleton
  <2>3. Cardinality(overflow) <= 1
    BY <2>1, <2>2, FS_Subset
  <2> QED
    BY <2>3 DEF BudgetInv, BudgetTypes, PauseInv, LimiterTypes, LimitsTypeOK
<1> QED
  BY InitBudget, StepBudget, InitLimiter, StepLimiter, <1>1, PTL DEF LimitsSpec

-----------------------------------------------------------------------------
(* Bans.                                                                   *)

\* One more failure leaves an entry that is banned as it is.
LEMMA BannedKept == ASSUME NEW entry, NEW request, Banned(entry) PROVE WithFailure(entry, request) = entry
BY DEF WithFailure

LEMMA BannedActive == ASSUME NEW entry, Banned(entry) PROVE Active(entry)
BY DEF Banned, Active

\* The entries an address that is banned answers for, spelled out.
LEMMA BanOfIs ==
  ASSUME NEW a, NEW until, until \in BanOf(a)
  PROVE  \E entry : /\ Banned(entry) /\ entry.blockedUntil = until
                    /\ \/ a \in DOMAIN entries /\ Active(entries[a]) /\ entry = entries[a]
                       \/ ~(a \in DOMAIN entries /\ Active(entries[a])) /\ entry \in overflow
BY PrunedIs DEF BanOf, EntriesOf, PrunedOverflow

\* Time and entries do not change, or only where no ban is.
BansKept ==
  /\ now' = now
  /\ \A a \in DOMAIN entries :
       Banned(entries[a]) => a \in DOMAIN entries' /\ entries'[a] = entries[a]
  /\ \A entry \in overflow : Banned(entry) => entry \in overflow'

LEMMA FailKeepsBans ==
  ASSUME NEW a, NEW request, Fail(a, request), now' = now PROVE BansKept
<1>1. \A b \in DOMAIN entries : Banned(entries[b]) => b \in DOMAIN Pruned /\ Pruned[b] = entries[b]
  BY PrunedIs, BannedActive
<1>2. \A entry \in overflow : Banned(entry) => entry \in PrunedOverflow
  BY BannedActive DEF PrunedOverflow
<1>3. CASE a \in DOMAIN Pruned \/ Cardinality(DOMAIN Pruned) < MaxIps
  <2>1. ASSUME NEW b \in DOMAIN entries, Banned(entries[b])
        PROVE  b \in DOMAIN entries' /\ entries'[b] = entries[b]
    <3>1. CASE b # a
      BY <1>1, <1>3, <2>1, <3>1 DEF Fail
    <3>2. CASE b = a
      BY <1>1, <1>3, <2>1, <3>2, BannedKept DEF Fail
    <3> QED
      BY <3>1, <3>2
  <2>2. overflow' = PrunedOverflow
    BY <1>3 DEF Fail
  <2> QED
    BY <1>2, <2>1, <2>2 DEF BansKept
<1>4. CASE ~(a \in DOMAIN Pruned \/ Cardinality(DOMAIN Pruned) < MaxIps)
  <2>1. entries' = Pruned
    BY <1>4 DEF Fail
  <2>2. ASSUME NEW entry \in overflow, Banned(entry) PROVE entry \in overflow'
    BY <1>2, <1>4, <2>2, BannedKept DEF Fail
  <2> QED
    BY <1>1, <2>1, <2>2 DEF BansKept
<1> QED
  BY <1>3, <1>4

LEMMA PruneKeepsBans ==
  ASSUME entries' = Pruned, overflow' = PrunedOverflow, now' = now PROVE BansKept
BY PrunedIs, BannedActive DEF BansKept, PrunedOverflow

\* An address gets an entry of its own only where it is not banned.
OwnEntryEarned ==
  \A a \in Addresses : (a \in DOMAIN entries' /\ ~(a \in DOMAIN entries /\ Active(entries[a])))
                         => ~AddressBlocked(a)

\* The same of the next state, for the entry it finds there.
LEMMA BanOfNext ==
  ASSUME NEW a, NEW entry, entry.blockedUntil # Never, now' < entry.blockedUntil,
         \/ a \in DOMAIN entries' /\ entry = entries'[a]
         \/ ~(a \in DOMAIN entries' /\ Active(entries[a])') /\ entry \in overflow'
  PROVE  entry.blockedUntil \in BanOf(a)'
<1>1. /\ DOMAIN Pruned' = {b \in DOMAIN entries' : Active(entries[b])'}
      /\ \A b \in DOMAIN Pruned' : Pruned'[b] = entries'[b]
  BY DEF Pruned, RestrictValues, Restrict
<1>2. entry \in overflow' => entry \in PrunedOverflow'
  BY DEF PrunedOverflow, Active
<1>3. a \in DOMAIN entries' /\ entry = entries'[a] => Active(entries[a])'
  BY DEF Active
<1>4. entry \in EntriesOf(a)'
  BY <1>1, <1>2, <1>3 DEF EntriesOf
<1> QED
  BY <1>4 DEF BanOf, Banned

LEMMA KeptBansHold ==
  ASSUME BansKept, OwnEntryEarned, NEW a \in Addresses, NEW until \in BanOf(a)
  PROVE  until \in BanOf(a)'
<1>1. PICK entry : /\ Banned(entry) /\ entry.blockedUntil = until
                   /\ \/ a \in DOMAIN entries /\ Active(entries[a]) /\ entry = entries[a]
                      \/ ~(a \in DOMAIN entries /\ Active(entries[a])) /\ entry \in overflow
  BY BanOfIs
<1>2. entry.blockedUntil # Never /\ now' < entry.blockedUntil
  BY <1>1 DEF Banned, BansKept
<1>3. AddressBlocked(a)
  BY DEF BanOf, AddressBlocked
<1>4. \/ a \in DOMAIN entries' /\ entry = entries'[a]
      \/ a \notin DOMAIN entries' /\ entry \in overflow'
  BY <1>1, <1>3 DEF BansKept, OwnEntryEarned
<1> QED
  BY <1>1, <1>2, <1>4, BanOfNext

LEMMA AdvanceBans ==
  ASSUME LimiterTypes, Advance, NEW a \in Addresses, NEW until \in BanOf(a), now' < until
  PROVE  until \in BanOf(a)'
<1>1. PICK entry : /\ Banned(entry) /\ entry.blockedUntil = until
                   /\ \/ a \in DOMAIN entries /\ Active(entries[a]) /\ entry = entries[a]
                      \/ ~(a \in DOMAIN entries /\ Active(entries[a])) /\ entry \in overflow
  BY BanOfIs
<1>2. now' = now + 1 /\ entries' = entries /\ overflow' = overflow /\ now \in Nat
  BY DEF Advance, LimiterTypes, Time
<1>3. ASSUME a \in DOMAIN entries, Active(entries[a])' PROVE Active(entries[a])
  <2>1. entries[a].since \in Int /\ entries[a].blockedUntil \in Int
    BY <1>3, LimitsAssumption DEF LimiterTypes, Attempts, Time, Until, Never
  <2> QED
    BY <1>2, <1>3, <2>1, LimitsAssumption DEF Active
<1>4. \/ a \in DOMAIN entries' /\ entry = entries'[a]
      \/ ~(a \in DOMAIN entries' /\ Active(entries[a])') /\ entry \in overflow'
  BY <1>1, <1>2, <1>3
<1> QED
  BY <1>1, <1>4, BanOfNext DEF Banned

LEMMA StepBans ==
  ASSUME LimiterTypes, [LimitsNext]_limitsVars, ~Resume, NEW a \in Addresses, NEW until \in BanOf(a)
  PROVE  now' >= until \/ until \in BanOf(a)'
<1>1. ASSUME NEW b \in Addresses, NEW request \in Requests, Authorize(b, request)
      PROVE  until \in BanOf(a)'
  <2>1. CASE entries' = Pruned /\ overflow' = PrunedOverflow /\ now' = now
    <3>1. OwnEntryEarned
      BY <2>1, PrunedIs DEF OwnEntryEarned
    <3> QED
      BY <2>1, <3>1, PruneKeepsBans, KeptBansHold
  <2>2. CASE Fail(b, request) /\ ~AddressBlocked(b) /\ now' = now
    <3>1. \A c \in DOMAIN entries' : c = b \/ c \in DOMAIN Pruned
      BY <2>2 DEF Fail
    <3>2. OwnEntryEarned
      BY <2>2, <3>1, PrunedIs DEF OwnEntryEarned
    <3> QED
      BY <2>2, <3>2, FailKeepsBans, KeptBansHold
  <2> QED
    BY <1>1, <2>1, <2>2
    DEF Authorize, AddressLimited, CodeLimited, Paired, Asks, WrongCode
<1>2. CASE NewCode \/ UNCHANGED limitsVars
  BY <1>2
  DEF NewCode, limitsVars, BanOf, EntriesOf, Pruned, PrunedOverflow, Active, Banned, RestrictValues,
      Restrict
<1>3. CASE Advance /\ now' < until
  BY <1>3, AdvanceBans
<1>4. Advance => until \in Int /\ now' \in Int
  <2>1. PICK entry : /\ entry.blockedUntil = until
                     /\ \/ a \in DOMAIN entries /\ entry = entries[a]
                        \/ entry \in overflow
    BY BanOfIs
  <2>2. entry \in Attempts
    BY <2>1 DEF LimiterTypes
  <2> QED
    BY <2>1, <2>2, LimitsAssumption
    DEF Attempts, Until, Never, Time, Advance, LimiterTypes
<1> QED
  BY <1>1, <1>2, <1>3, <1>4 DEF LimitsNext

\* "Never evict a live ban": whoever else fails, and wherever the failures of
\* an address are counted, its ban lasts until its end or the user lifts it.
THEOREM BansLast == LimitsSpec => BanHolds
<1>1. LimiterTypes /\ [LimitsNext]_limitsVars
        => [~Resume => \A a \in Addresses : \A until \in BanOf(a) :
                         now' >= until \/ until \in BanOf(a)']_limitsVars
  BY StepBans
<1> QED
  BY InitLimiter, StepLimiter, <1>1, PTL DEF LimitsSpec, BanHolds

-----------------------------------------------------------------------------
(* Supervisor: generations, reports and restarts.                         *)


\* The flag is down from the stop to the spawn, and the number is new by then.
FlagInv ==
  /\ generation \in Nat \ {0}
  /\ told \subseteq 1..generation
  /\ running \in BOOLEAN
  /\ running => generation \notin told
  /\ pc \notin {"waiting", "ended"} => ~running
  /\ pc = "arming" => generation \notin told

LEMMA InitFlag == Init => FlagInv
BY DEF Init, FlagInv

\* A stop of the running generation, by whoever stops it.
LEMMA StopFlag ==
  ASSUME FlagInv, Stop, generation' = generation, pc' = pc \/ pc' # "arming"
  PROVE  FlagInv'
<1>1. ~running' /\ running' \in BOOLEAN
  BY DEF Stop
<1>2. told' \subseteq 1..generation'
  BY DEF FlagInv, Stop
<1>3. ASSUME pc' = "arming" PROVE generation' \notin told'
  <2>1. pc = "arming" /\ ~running /\ generation \notin told
    BY <1>3 DEF FlagInv
  <2>2. told' = told
    BY <2>1 DEF Stop
  <2> QED
    BY <2>1, <2>2
<1> QED
  BY <1>1, <1>2, <1>3 DEF FlagInv

LEMMA JoinFlag ==
  ASSUME FlagInv, NEW next \in {"stopping", "restarting", "ending"}, Join(next),
         generation' = generation
  PROVE  FlagInv'
BY StopFlag DEF Join

LEMMA KeptFlag ==
  ASSUME FlagInv, UNCHANGED <<generation, running, told, pc>> PROVE FlagInv'
BY DEF FlagInv

LEMMA HandleFlag == ASSUME FlagInv, Handle PROVE FlagInv'
<1>1. generation' = generation
  BY DEF Handle
<1>2. ASSUME NEW type, OnCommand(type) PROVE FlagInv'
  BY <1>1, <1>2, JoinFlag, KeptFlag
  DEF OnCommand, OnRestart, OnStop, OnStart, OnShutdown
<1>3. ASSUME NEW health, OnStageExit(health) PROVE FlagInv'
  BY <1>1, <1>3, JoinFlag, KeptFlag DEF OnStageExit, AutoRestart
<1> QED
  BY <1>2, <1>3 DEF Handle

LEMMA LoopFlag == ASSUME FlagInv, Loop PROVE FlagInv'
<1>1. CASE Handle
  BY <1>1, HandleFlag
<1>2. CASE Due
  BY <1>2, JoinFlag DEF Due
<1>3. CASE Watchdog
  BY <1>3, JoinFlag DEF Watchdog, AutoRestart
<1>4. CASE JoinDone
  BY <1>4 DEF JoinDone, Joined, Joining, FlagInv
<1>5. CASE CheckHeld
  BY <1>5 DEF CheckHeld, FlagInv
<1>6. CASE CheckFree
  <2>1. generation + 1 \notin told
    BY DEF FlagInv
  <2>2. told \subseteq 1..(generation + 1)
    BY DEF FlagInv
  <2> QED
    BY <1>6, <2>1, <2>2 DEF CheckFree, FlagInv
<1>7. CASE Spawn
  BY <1>7 DEF Spawn, FlagInv
<1> QED
  BY <1>1, <1>2, <1>3, <1>4, <1>5, <1>6, <1>7 DEF Loop

LEMMA StageFlag ==
  ASSUME FlagInv, NEW g \in Generations,
         \/ Launch(g) \/ LaunchFails(g) \/ Bind(g) \/ BindHeld(g)
         \/ Transport(g) \/ TransportAsks(g) \/ ClientComesOrGoes(g)
         \/ CaptureEnds(g) \/ EncoderEnds(g)
         \/ StageBlocks(g) \/ StageReturns(g) \/ StageFails(g) \/ StagePanics(g)
  PROVE  FlagInv'
<1>1. CASE TransportAsks(g)
  BY <1>1, StopFlag DEF TransportAsks, supervisor
<1>2. CASE Launch(g) \/ LaunchFails(g) \/ Bind(g) \/ BindHeld(g) \/ Transport(g)
           \/ ClientComesOrGoes(g)
  BY <1>2, KeptFlag
  DEF Launch, LaunchFails, Bind, BindHeld, Transport, TransportStops, TransportSends,
      ClientComesOrGoes, supervisor
<1>3. CASE CaptureEnds(g) \/ EncoderEnds(g) \/ StageBlocks(g) \/ StageReturns(g)
           \/ StageFails(g) \/ StagePanics(g)
  BY <1>3, KeptFlag
  DEF CaptureEnds, EncoderEnds, StageBlocks, StageReturns, StageFails, StagePanics, supervisor
<1> QED
  BY <1>1, <1>2, <1>3

LEMMA StepFlag == FlagInv /\ [Next]_vars => FlagInv'
<1> SUFFICES ASSUME FlagInv, [Next]_vars PROVE FlagInv'
  OBVIOUS
<1>1. ASSUME NEW type, User(type) PROVE FlagInv'
  <2>1. pc' = pc /\ generation' = generation
    BY <1>1 DEF User
  <2>2. Stop \/ UNCHANGED <<running, told>>
    BY <1>1 DEF User
  <2> QED
    BY <2>1, <2>2, StopFlag, KeptFlag
<1>2. CASE Forward
  BY <1>2, KeptFlag DEF Forward
<1>3. CASE JoinTimesOut
  BY <1>3 DEF JoinTimesOut, Joined, Joining, FlagInv
<1>4. CASE Beat \/ FirstImage \/ LoopSilent \/ FrameSilent \/ EncoderSilent \/ PortTaken
  BY <1>4, KeptFlag
  DEF Beat, FirstImage, LoopSilent, FrameSilent, EncoderSilent, FallSilent, PortTaken, supervisor
<1>5. CASE UNCHANGED vars
  BY <1>5, KeptFlag DEF vars
<1> QED
  BY <1>1, <1>2, <1>3, <1>4, <1>5, LoopFlag, StageFlag DEF Next

\* A generation that was told to end never finds itself live again, however
\* long its threads outlive it.
THEOREM NeverRevived == Spec => []NoRevival
<1>1. FlagInv => NoRevival
  BY DEF FlagInv, NoRevival, Live
<1> QED
  BY InitFlag, StepFlag, <1>1, PTL DEF Spec

-----------------------------------------------------------------------------
Message == Command \cup Health

\* A report that counts as a failure comes from a generation that had one.
Honest(m) == (m \notin Command /\ m.type = "failed") => m.generation \in failed

QueueInv ==
  /\ commands \in Seq(Command)
  /\ inbox \in Seq(Message)
  /\ \A i \in 1..Len(inbox) : Honest(inbox[i])

LEMMA AppendHonest ==
  ASSUME QueueInv, NEW m \in Message, inbox' = Append(inbox, m), failed \subseteq failed',
         Honest(m)', commands' \in Seq(Command)
  PROVE  QueueInv'
<1>1. inbox' \in Seq(Message) /\ Len(inbox') = Len(inbox) + 1
  BY DEF QueueInv
<1>2. ASSUME NEW i \in 1..Len(inbox') PROVE Honest(inbox[i])' 
  <2>1. CASE i = Len(inbox) + 1
    BY <2>1 DEF QueueInv, Honest
  <2>2. CASE i \in 1..Len(inbox)
    BY <2>2 DEF QueueInv, Honest
  <2> QED
    BY <1>1, <1>2, <2>1, <2>2 DEF QueueInv
<1> QED
  BY <1>1, <1>2 DEF QueueInv

LEMMA KeptHonest ==
  ASSUME QueueInv, inbox' = inbox, failed \subseteq failed', commands' \in Seq(Command)
  PROVE  QueueInv'
BY DEF QueueInv, Honest

LEMMA ReportHonest ==
  ASSUME QueueInv, NEW g \in Generations, NEW type \in {"failed", "portInUse"}, Report(g, type),
         commands' = commands, failed \subseteq failed', type = "failed" => g \in failed'
  PROVE  QueueInv'
<1> DEFINE m == [type |-> type, generation |-> g]
<1>1. m \in Message
  BY DEF Message, Health
<1>2. Honest(m)'
  BY DEF Honest
<1> QED
  BY <1>1, <1>2, AppendHonest DEF Report, QueueInv

LEMMA InitQueue == Init => QueueInv
BY DEF Init, QueueInv

LEMMA LoopQueue == ASSUME QueueInv, Loop \/ JoinTimesOut PROVE QueueInv'
<1>1. CASE Handle
  <2>1. inbox # <<>> /\ inbox' = Tail(inbox) /\ commands' = commands /\ failed' = failed
    BY <1>1 DEF Handle
  <2>2. /\ Tail(inbox) \in Seq(Message) /\ Len(Tail(inbox)) = Len(inbox) - 1
        /\ \A i \in 1..Len(Tail(inbox)) : Tail(inbox)[i] = inbox[i + 1] /\ i + 1 \in 1..Len(inbox)
    BY <2>1 DEF QueueInv
  <2> QED
    BY <2>1, <2>2 DEF QueueInv, Honest
<1>2. CASE Due \/ Watchdog \/ JoinDone \/ CheckHeld \/ CheckFree \/ Spawn \/ JoinTimesOut
  <2>1. inbox' = inbox /\ commands' = commands /\ failed \subseteq failed'
    BY <1>2 DEF Due, Watchdog, JoinDone, CheckHeld, CheckFree, Spawn, JoinTimesOut, Joined
  <2> QED
    BY <2>1, KeptHonest DEF QueueInv
<1> QED
  BY <1>1, <1>2 DEF Loop

LEMMA StageQueue ==
  ASSUME QueueInv, NEW g \in Generations,
         \/ Launch(g) \/ LaunchFails(g) \/ Bind(g) \/ BindHeld(g)
         \/ Transport(g) \/ TransportAsks(g) \/ ClientComesOrGoes(g)
         \/ CaptureEnds(g) \/ EncoderEnds(g)
         \/ StageBlocks(g) \/ StageReturns(g) \/ StageFails(g) \/ StagePanics(g)
  PROVE  QueueInv'
<1>1. CASE LaunchFails(g)
  BY <1>1, ReportHonest DEF LaunchFails
<1>2. CASE BindHeld(g)
  BY <1>2, ReportHonest DEF BindHeld
<1>3. CASE StageFails(g)
  BY <1>3, ReportHonest DEF StageFails
<1>4. CASE TransportSends(g)
  <2>1. [type |-> "restart", from |-> "transport"] \in Command
    BY DEF Command
  <2> QED
    BY <1>4, <2>1, KeptHonest DEF TransportSends, QueueInv
<1>5. CASE Launch(g) \/ Bind(g) \/ TransportStops(g) \/ TransportAsks(g)
           \/ ClientComesOrGoes(g)
  BY <1>5, KeptHonest
  DEF Launch, Bind, TransportStops, TransportAsks, ClientComesOrGoes, QueueInv
<1>6. CASE CaptureEnds(g) \/ EncoderEnds(g) \/ StageBlocks(g) \/ StageReturns(g)
           \/ StagePanics(g)
  BY <1>6, KeptHonest
  DEF CaptureEnds, EncoderEnds, StageBlocks, StageReturns, StagePanics, QueueInv
<1> QED
  BY <1>1, <1>2, <1>3, <1>4, <1>5, <1>6 DEF Transport

LEMMA StepQueue == QueueInv /\ [Next]_vars => QueueInv'
<1> SUFFICES ASSUME QueueInv, [Next]_vars PROVE QueueInv'
  OBVIOUS
<1>1. ASSUME NEW type \in {"restart", "stop", "start", "shutdown"}, User(type)
      PROVE  QueueInv'
  <2>1. [type |-> type, from |-> "user"] \in Command
    BY DEF Command
  <2> QED
    BY <1>1, <2>1, KeptHonest DEF User, QueueInv
<1>2. CASE Forward
  <2>1. Head(commands) \in Command /\ Tail(commands) \in Seq(Command)
    BY <1>2 DEF Forward, QueueInv
  <2>2. PICK m \in Command : m = Head(commands)
    BY <2>1
  <2>3. m \in Message /\ Honest(m)'
    BY <2>2 DEF Message, Honest
  <2> QED
    BY <1>2, <2>1, <2>2, <2>3, AppendHonest DEF Forward
<1>3. CASE Beat \/ FirstImage \/ LoopSilent \/ FrameSilent \/ EncoderSilent \/ PortTaken
  BY <1>3, KeptHonest
  DEF Beat, FirstImage, LoopSilent, FrameSilent, EncoderSilent, FallSilent, PortTaken, QueueInv
<1>4. CASE UNCHANGED vars
  BY <1>4, KeptHonest DEF vars, QueueInv
<1> QED
  BY <1>1, <1>2, <1>3, <1>4, LoopQueue, StageQueue DEF Next

\* A report, a command, a held port or an older generation's end never backs
\* the running generation off: only its own failure or silence does.
LEMMA StepEarned ==
  ASSUME QueueInv, [Next]_vars, state' \in {"backingOff", "failed"}, state' # state
  PROVE  generation \in failed'
<1>1. CASE Handle
  <2> DEFINE m == Head(inbox)
  <2>1. m = inbox[1] /\ 1 \in 1..Len(inbox)
    BY <1>1 DEF Handle, QueueInv
  <2>2. m \notin Command
    BY <1>1 DEF Handle, OnCommand, OnRestart, OnStop, OnStart, OnShutdown
  <2>3. OnStageExit(m) /\ failed' = failed
    BY <1>1, <2>2 DEF Handle
  <2>4. m.type = "failed" /\ m.generation = generation
    BY <2>3 DEF OnStageExit, HeardFrom, WaitForPort
  <2> QED
    BY <2>1, <2>2, <2>3, <2>4 DEF QueueInv, Honest
<1>2. CASE Watchdog
  BY <1>2 DEF Watchdog
<1>3. ASSUME ~Handle, ~Watchdog PROVE FALSE
  <2>1. ASSUME NEW type, User(type) PROVE FALSE
    BY <2>1 DEF User
  <2>2. ASSUME Loop \/ JoinTimesOut PROVE FALSE
    BY <1>3, <2>2
    DEF Loop, Due, JoinDone, CheckHeld, CheckFree, Spawn, JoinTimesOut, Joined, WaitForPort
  <2>3. ASSUME Forward \/ Beat \/ FirstImage \/ LoopSilent \/ FrameSilent \/ EncoderSilent \/ PortTaken
               \/ UNCHANGED vars
        PROVE FALSE
    BY <2>3
    DEF Forward, Beat, FirstImage, LoopSilent, FrameSilent, EncoderSilent, FallSilent, PortTaken, vars,
        supervisor
  <2>4. ASSUME NEW g \in Generations,
               \/ Launch(g) \/ LaunchFails(g) \/ Bind(g) \/ BindHeld(g)
               \/ Transport(g) \/ TransportAsks(g) \/ ClientComesOrGoes(g)
        PROVE FALSE
    BY <2>4
    DEF Launch, LaunchFails, Bind, BindHeld, Transport, TransportStops, TransportSends,
        TransportAsks, ClientComesOrGoes, supervisor
  <2>5. ASSUME NEW g \in Generations,
               \/ CaptureEnds(g) \/ EncoderEnds(g)
               \/ StageBlocks(g) \/ StageReturns(g) \/ StageFails(g) \/ StagePanics(g)
        PROVE FALSE
    BY <2>5
    DEF CaptureEnds, EncoderEnds, StageBlocks, StageReturns, StageFails, StagePanics,
        supervisor
  <2> QED
    BY <2>1, <2>2, <2>3, <2>4, <2>5 DEF Next
<1> QED
  BY <1>1, <1>2, <1>3

\* Automatic restarts, and the storm they may end in, are earned by the
\* generation that runs.
THEOREM OnlyEarnedRestarts == Spec => RestartsEarned
<1>1. QueueInv /\ [Next]_vars
        => [(state' \in {"backingOff", "failed"} /\ state' # state) => generation \in failed']_vars
  BY StepEarned
<1> QED
  BY InitQueue, StepQueue, <1>1, PTL DEF Spec, RestartsEarned
-----------------------------------------------------------------------------
(* Types. QueueInv holds those of the queues.                              *)

LoopTypes ==
  /\ state \in {"running", "backingOff", "waitingPort", "failed", "stopped", "shutDown"}
  /\ restarts \in 0..StormLimit
  /\ generation \in Generations
  /\ running \in BOOLEAN
  /\ pc \in {"waiting", "stopping", "restarting", "ending", "checking", "arming", "ended"}
  /\ pipeline \in Generations \cup {None}
  /\ told \subseteq Generations /\ failed \subseteq Generations

StageTypes ==
  /\ thread \in [Generations -> {"none", "starting", "binding", "bound", "asking", "ended"}]
  /\ capture \in [Generations -> {"none", "looping", "busy", "ended"}]
  /\ encoder \in [Generations -> {"none", "looping", "busy", "ended"}]
  /\ silent \subseteq Rules
  /\ watching \in BOOLEAN /\ proving \in BOOLEAN /\ portHeld \in BOOLEAN
  /\ moves \in 0..MaxMoves

Types == LoopTypes /\ StageTypes

LEMMA InitTypes == Init => Types
<1> SUFFICES ASSUME Init PROVE Types
  OBVIOUS
<1>1. 1 \in Generations /\ 0 \in 0..StormLimit /\ 0 \in 0..MaxMoves
  BY BoundsAssumption DEF Generations
<1>2. LoopTypes
  BY <1>1 DEF Init, LoopTypes
<1>3. StageTypes
  BY <1>1 DEF Init, StageTypes
<1> QED
  BY <1>2, <1>3 DEF Types

LEMMA MoveType == ASSUME moves \in 0..MaxMoves, Move PROVE moves' \in 0..MaxMoves
BY BoundsAssumption DEF Move

LEMMA StopTypes ==
  ASSUME LoopTypes, Stop PROVE running' \in BOOLEAN /\ told' \subseteq Generations
BY DEF LoopTypes, Stop

\* What a message or a silence may do to the machine.
Turned ==
  /\ state' \in {"running", "backingOff", "waitingPort", "failed", "stopped", "shutDown"}
  /\ restarts' \in 0..StormLimit
  /\ pc' \in {"waiting", "stopping", "restarting", "ending", "checking", "arming", "ended"}
  /\ running' \in BOOLEAN /\ told' \subseteq Generations

LEMMA AutoRestartTurns == ASSUME LoopTypes, AutoRestart PROVE Turned
<1>1. PICK recent \in 0..restarts :
        IF recent >= StormLimit
        THEN state' = "failed" /\ restarts' = recent
        ELSE state' = "backingOff" /\ restarts' = recent + 1
  BY DEF AutoRestart
<1>2. restarts' \in 0..StormLimit
  BY <1>1, BoundsAssumption DEF LoopTypes
<1> QED
  BY <1>1, <1>2, StopTypes DEF AutoRestart, Join, Turned

LEMMA HandleTurns == ASSUME LoopTypes, Handle PROVE Turned
<1>1. ASSUME NEW type, OnCommand(type) PROVE Turned
  BY <1>1, StopTypes, BoundsAssumption
  DEF OnCommand, OnRestart, OnStop, OnStart, OnShutdown, Join, LoopTypes, Turned
<1>2. ASSUME NEW health, OnStageExit(health) PROVE Turned
  BY <1>2, StopTypes, AutoRestartTurns DEF OnStageExit, WaitForPort, Join, LoopTypes, Turned
<1> QED
  BY <1>1, <1>2 DEF Handle

LEMMA LoopStepTypes == ASSUME Types, Loop \/ JoinTimesOut PROVE Types'
<1> USE DEF Types, LoopTypes, StageTypes, threads, outside, client
<1>1. CASE Handle
  BY <1>1, HandleTurns DEF Handle, Turned
<1>2. CASE Due
  BY <1>2, StopTypes DEF Due, Join
<1>3. CASE Watchdog
  BY <1>3, AutoRestartTurns DEF Watchdog, Turned
<1>4. CASE JoinDone
  BY <1>4 DEF JoinDone, Joined
<1>5. CASE JoinTimesOut
  BY <1>5, MoveType DEF JoinTimesOut, Joined
<1>6. CASE CheckHeld
  BY <1>6 DEF CheckHeld, WaitForPort
<1>7. CASE CheckFree
  BY <1>7, BoundsAssumption DEF CheckFree, Generations
<1>8. CASE Spawn
  BY <1>8 DEF Spawn
<1> QED
  BY <1>1, <1>2, <1>3, <1>4, <1>5, <1>6, <1>7, <1>8 DEF Loop

\* A stage's step leaves the machine alone, save what TransportAsks stops.
LEMMA StageStepTypes ==
  ASSUME Types, NEW g \in Generations,
         \/ Launch(g) \/ LaunchFails(g) \/ Bind(g) \/ BindHeld(g)
         \/ Transport(g) \/ TransportAsks(g) \/ ClientComesOrGoes(g)
         \/ CaptureEnds(g) \/ EncoderEnds(g)
         \/ StageBlocks(g) \/ StageReturns(g) \/ StageFails(g) \/ StagePanics(g)
  PROVE  Types'
<1> USE DEF Types, LoopTypes, StageTypes, threads, supervisor, client
<1>1. CASE Launch(g) \/ Bind(g) \/ BindHeld(g) \/ Transport(g)
  BY <1>1 DEF Launch, Bind, BindHeld, Transport, TransportStops, TransportSends
<1>2. CASE LaunchFails(g)
  BY <1>2, MoveType DEF LaunchFails
<1>3. CASE TransportAsks(g)
  BY <1>3, MoveType, StopTypes DEF TransportAsks
<1>4. CASE ClientComesOrGoes(g)
  BY <1>4, MoveType DEF ClientComesOrGoes
<1>5. CASE CaptureEnds(g) \/ EncoderEnds(g)
  BY <1>5 DEF CaptureEnds, EncoderEnds
<1>6. CASE StageBlocks(g)
  BY <1>6, MoveType DEF StageBlocks
<1>7. CASE StageReturns(g)
  BY <1>7 DEF StageReturns
<1>8. CASE StageFails(g)
  BY <1>8, MoveType DEF StageFails, Ends
<1>9. CASE StagePanics(g)
  BY <1>9, MoveType DEF StagePanics, Ends
<1> QED
  BY <1>1, <1>2, <1>3, <1>4, <1>5, <1>6, <1>7, <1>8, <1>9

LEMMA StepTypes == Types /\ [Next]_vars => Types'
<1> SUFFICES ASSUME Types, [Next]_vars PROVE Types'
  OBVIOUS
<1> USE DEF Types, LoopTypes, StageTypes, threads, outside, client
<1>1. ASSUME NEW type, User(type) PROVE Types'
  BY <1>1, MoveType, StopTypes DEF User
<1>2. CASE Forward \/ UNCHANGED vars
  BY <1>2 DEF Forward, vars
<1>3. CASE Beat
  BY <1>3 DEF Beat, supervisor
<1>4. CASE LoopSilent
  BY <1>4, MoveType DEF LoopSilent, FallSilent, Rules, supervisor
<1>5. CASE FrameSilent
  BY <1>5, MoveType DEF FrameSilent, FallSilent, Rules, supervisor
<1>6. CASE EncoderSilent
  BY <1>6 DEF EncoderSilent, FallSilent, Rules, supervisor
<1>7. CASE PortTaken
  BY <1>7, MoveType DEF PortTaken
<1>8. CASE FirstImage
  BY <1>8 DEF FirstImage, supervisor
<1> QED
  BY <1>1, <1>2, <1>3, <1>4, <1>5, <1>6, <1>7, <1>8, LoopStepTypes, StageStepTypes DEF Next

\* The automatic restarts counted never exceed STORM_LIMIT, and every thread,
\* queue and report is of a generation that was started.
THEOREM SupervisorTypeCorrect == Spec => []TypeOK
<1>1. Types /\ QueueInv => TypeOK
  BY DEF Types, LoopTypes, StageTypes, QueueInv, Message, TypeOK
<1> QED
  BY InitTypes, StepTypes, InitQueue, StepQueue, <1>1, PTL DEF Spec
=============================================================================
