-------------------------------- MODULE Stall --------------------------------
(***************************************************************************)
(* One lane of the time-limited calls of host/src/stall.rs: the driver     *)
(* calls of one kind, each on a thread of its own while its caller waits   *)
(* with a deadline.                                                        *)
(*                                                                         *)
(* A caller clears the lane, starts the call's thread and waits. Past the  *)
(* deadline it gives up, which counts in the lane until the call returns   *)
(* and its late result is released. The hand-over lock, held by the call's *)
(* thread from "handing" to its end or its release, decides who owns the   *)
(* result. A panic of the call is a result like any other.                 *)
(*                                                                         *)
(* A definition right above another that it resembles, named for a mistake *)
(* (LockIgnored above LockFree), is a faulty variant the specification     *)
(* does not use.                                                           *)
(***************************************************************************)
EXTENDS Integers, FiniteSets

CONSTANTS
  Callers,        \* the threads that make calls of this kind
  MaxCalls,       \* bound: calls started in a behaviour
  MaxAbandoned    \* MAX_ABANDONED

ASSUME CallersAssumption == IsFiniteSet(Callers) /\ Callers # {}
ASSUME CallBounds == MaxCalls \in Nat /\ MaxAbandoned \in Nat \ {0}

Calls == 1..MaxCalls

VARIABLES
  caller,    \* where each caller is in run_in
  callOf,    \* the call each caller last started
  callThread,    \* where each call's thread is
  sent,      \* calls whose result is in their channel
  gaveUp,    \* calls whose gave_up flag is set
  lane,      \* Lanes: abandoned calls of this kind still running
  started,   \* how many calls were started
  taken,     \* history: calls whose result a caller returned
  released   \* history: calls whose result their thread released

laneVars == <<caller, callOf, callThread, sent, gaveUp, lane, started, taken, released>>

LaneTypeOK ==
  /\ caller \in [Callers -> {"idle", "cleared", "waiting", "late"}]
  /\ callOf \in [Callers -> 0..MaxCalls]
  /\ callThread \in [Calls -> {"unused", "running", "returned", "handing", "sending",
                           "releasing", "freeing", "ended"}]
  /\ sent \in SUBSET Calls
  /\ gaveUp \in SUBSET Calls
  /\ lane \in Nat
  /\ started \in 0..MaxCalls
  /\ taken \in SUBSET Calls
  /\ released \in SUBSET Calls

LaneInit ==
  /\ caller = [c \in Callers |-> "idle"]
  /\ callOf = [c \in Callers |-> 0]
  /\ callThread = [t \in Calls |-> "unused"]
  /\ sent = {} /\ gaveUp = {}
  /\ lane = 0
  /\ started = 0
  /\ taken = {} /\ released = {}

-----------------------------------------------------------------------------
(* The caller: run_in.                                                     *)

\* The call is refused while an abandoned one still runs, and started
\* otherwise; the load of the lane is not one step with starting the thread.
ClearedAtLimit(n) == n <= MaxAbandoned
Cleared(n) == n < MaxAbandoned

Refuse(c) ==
  /\ caller[c] = "idle"
  /\ ~Cleared(lane)
  /\ UNCHANGED laneVars

Clear(c) ==
  /\ caller[c] = "idle"
  /\ Cleared(lane)
  /\ started < MaxCalls
  /\ caller' = [caller EXCEPT ![c] = "cleared"]
  /\ UNCHANGED <<callOf, callThread, sent, gaveUp, lane, started, taken, released>>

SpawnCall(c) ==
  /\ caller[c] = "cleared"
  /\ started < MaxCalls
  /\ started' = started + 1
  /\ callThread' = [callThread EXCEPT ![started'] = "running"]
  /\ caller' = [caller EXCEPT ![c] = "waiting"]
  /\ callOf' = [callOf EXCEPT ![c] = started']
  /\ UNCHANGED <<sent, gaveUp, lane, taken, released>>

SpawnFails(c) ==
  /\ caller[c] = "cleared"
  /\ caller' = [caller EXCEPT ![c] = "idle"]
  /\ UNCHANGED <<callOf, callThread, sent, gaveUp, lane, started, taken, released>>

\* A result wakes the caller at once.
Receive(c) ==
  /\ caller[c] = "waiting"
  /\ callOf[c] \in sent
  /\ sent' = sent \ {callOf[c]}
  /\ taken' = taken \cup {callOf[c]}
  /\ caller' = [caller EXCEPT ![c] = "idle"]
  /\ UNCHANGED <<callOf, callThread, gaveUp, lane, started, released>>

\* The channel was empty and the clock says the limit is over.
ExpireOnReturn(c) ==
  /\ caller[c] = "waiting"
  /\ callOf[c] \notin sent /\ callThread[callOf[c]] # "running"
  /\ caller' = [caller EXCEPT ![c] = "late"]
  /\ UNCHANGED <<callOf, callThread, sent, gaveUp, lane, started, taken, released>>

Expire(c) ==
  /\ caller[c] = "waiting"
  /\ callOf[c] \notin sent
  /\ caller' = [caller EXCEPT ![c] = "late"]
  /\ UNCHANGED <<callOf, callThread, sent, gaveUp, lane, started, taken, released>>

\* The call's thread is not between reading gave_up and handing over.
LockIgnored(t) == TRUE
LockFree(t) == callThread[t] \notin {"handing", "sending"}

\* Under the lock the caller looks in the channel again.
ReceiveLate(c) ==
  /\ caller[c] = "late"
  /\ LockFree(callOf[c])
  /\ callOf[c] \in sent
  /\ sent' = sent \ {callOf[c]}
  /\ taken' = taken \cup {callOf[c]}
  /\ caller' = [caller EXCEPT ![c] = "idle"]
  /\ UNCHANGED <<callOf, callThread, gaveUp, lane, started, released>>

GiveUpUncounted(c) ==
  /\ caller[c] = "late"
  /\ LockFree(callOf[c])
  /\ callOf[c] \notin sent
  /\ gaveUp' = gaveUp \cup {callOf[c]}
  /\ caller' = [caller EXCEPT ![c] = "idle"]
  /\ UNCHANGED <<callOf, callThread, sent, lane, started, taken, released>>

GiveUp(c) ==
  /\ caller[c] = "late"
  /\ LockFree(callOf[c])
  /\ callOf[c] \notin sent
  /\ gaveUp' = gaveUp \cup {callOf[c]}
  /\ lane' = lane + 1
  /\ caller' = [caller EXCEPT ![c] = "idle"]
  /\ UNCHANGED <<callOf, callThread, sent, started, taken, released>>

-----------------------------------------------------------------------------
(* The call's thread.                                                      *)

\* The driver call returned, or panicked.
Return(t) ==
  /\ callThread[t] = "running"
  /\ callThread' = [callThread EXCEPT ![t] = "returned"]
  /\ UNCHANGED <<caller, callOf, sent, gaveUp, lane, started, taken, released>>

\* It takes the hand-over lock; no caller keeps it from one step to the next.
Lock(t) ==
  /\ callThread[t] = "returned"
  /\ callThread' = [callThread EXCEPT ![t] = "handing"]
  /\ UNCHANGED <<caller, callOf, sent, gaveUp, lane, started, taken, released>>

\* It reads gave_up: hand the result over, or unlock and release it.
ReadGaveUp(t) ==
  /\ callThread[t] = "handing"
  /\ callThread' = [callThread EXCEPT ![t] = IF t \in gaveUp THEN "releasing" ELSE "sending"]
  /\ UNCHANGED <<caller, callOf, sent, gaveUp, lane, started, taken, released>>

SendUnlessPanicked(t) ==
  /\ callThread[t] = "sending"
  /\ sent' \in {sent, sent \cup {t}}
  /\ callThread' = [callThread EXCEPT ![t] = "ended"]
  /\ UNCHANGED <<caller, callOf, gaveUp, lane, started, taken, released>>

Send(t) ==
  /\ callThread[t] = "sending"
  /\ sent' = sent \cup {t}
  /\ callThread' = [callThread EXCEPT ![t] = "ended"]
  /\ UNCHANGED <<caller, callOf, gaveUp, lane, started, taken, released>>

\* The late result is released before the lane lets a new call start; a
\* release that panics does not keep the lane.
ReleaseForgotten(t) ==
  /\ callThread[t] = "releasing"
  /\ callThread' = [callThread EXCEPT ![t] = "freeing"]
  /\ UNCHANGED <<caller, callOf, sent, gaveUp, lane, started, taken, released>>

ReleasePanics(t) ==
  /\ callThread[t] = "releasing"
  /\ released' = released \cup {t}
  /\ callThread' = [callThread EXCEPT ![t] = "ended"]
  /\ UNCHANGED <<caller, callOf, sent, gaveUp, lane, started, taken>>

Release(t) ==
  /\ callThread[t] = "releasing"
  /\ released' = released \cup {t}
  /\ callThread' = [callThread EXCEPT ![t] = "freeing"]
  /\ UNCHANGED <<caller, callOf, sent, gaveUp, lane, started, taken>>

FreeLane(t) ==
  /\ callThread[t] = "freeing"
  /\ lane' = lane - 1
  /\ callThread' = [callThread EXCEPT ![t] = "ended"]
  /\ UNCHANGED <<caller, callOf, sent, gaveUp, started, taken, released>>

-----------------------------------------------------------------------------
CallerStep(c) ==
  Clear(c) \/ SpawnCall(c) \/ SpawnFails(c) \/ Receive(c) \/ Expire(c)
  \/ ReceiveLate(c) \/ GiveUp(c)

\* All a thread does but the driver call itself, which may never return.
ThreadStep(t) ==
  Lock(t) \/ ReadGaveUp(t) \/ Send(t) \/ Release(t) \/ FreeLane(t)

LaneNext ==
  \/ \E c \in Callers : CallerStep(c) \/ Refuse(c)
  \/ \E t \in Calls : ThreadStep(t) \/ Return(t)

LaneSpec == LaneInit /\ [][LaneNext]_laneVars

\* Threads run; a driver call need not return.
LaneFairSpec ==
  /\ LaneSpec
  /\ \A c \in Callers : WF_laneVars(SpawnCall(c) \/ SpawnFails(c) \/ Receive(c) \/ Expire(c)
                                \/ ReceiveLate(c) \/ GiveUp(c))
  /\ \A t \in Calls : WF_laneVars(ThreadStep(t))

-----------------------------------------------------------------------------
Abandoned == {t \in gaveUp : callThread[t] # "ended"}

\* Exactly one owner: a result is returned by the caller or released by the
\* thread, never both, and a call that was given up on has its result neither
\* returned nor left in the channel.
ResultHasOneOwner ==
  /\ taken \cap (released \cup gaveUp) = {}
  /\ sent \cap (released \cup gaveUp) = {}

\* The lane counts the abandoned calls that still run, exactly: no result
\* handed over just as the caller gives up leaves it taken for good.
LaneCountsAbandoned == lane = Cardinality(Abandoned)

\* The panic "ended without a result" of run_in is unreachable: a thread ends
\* without a result only if its caller gave up.
NoLostResult ==
  \A c \in Callers :
    (caller[c] \in {"waiting", "late"} /\ callThread[callOf[c]] = "ended") => callOf[c] \in sent

\* Together: a result goes to exactly one of the two, and to one of them.
ResultsSound == ResultHasOneOwner /\ NoLostResult

\* The comment on MAX_ABANDONED: abandoned calls of one kind that may still
\* run are MAX_ABANDONED. Callers that clear the lane together exceed it.
AtMostMaxAbandoned == lane <= MaxAbandoned

\* What does hold of the lane: every caller past the check may still add one.
PastCheck == {c \in Callers : caller[c] # "idle"}
LaneBound == lane + Cardinality(PastCheck) <= MaxAbandoned - 1 + Cardinality(Callers)

\* Together: the lane is exact, and bounded.
LaneSound == LaneCountsAbandoned /\ LaneBound

\* "Released here, before the lane lets a new call start": a caller is cleared
\* only while fewer than MaxAbandoned late results are still to be released.
ClearedAfterRelease ==
  [][\A c \in Callers : (caller[c] = "idle" /\ caller'[c] = "cleared")
       => Cardinality(gaveUp \ released) < MaxAbandoned]_laneVars

\* Every caller returns, whatever the driver does: none waits for a call that
\* hangs, nor for the hand-over lock.
CallerReturns == \A c \in Callers : (caller[c] # "idle") ~> (caller[c] = "idle")

\* Only a call that never returns keeps the lane taken.
LaneFrees == (lane > 0) ~> (lane = 0 \/ \E t \in gaveUp : callThread[t] = "running")

\* Together: a hung call keeps no caller, and its lane only while it hangs.
CallsEnd == CallerReturns /\ LaneFrees
=============================================================================
