------------------------------- MODULE Repair -------------------------------
(***************************************************************************)
(* Video over Wi-Fi, from the PC's numbered frames to the iPad's decoder.  *)
(* The PC sends each frame as fragments and keeps the latest frames in a   *)
(* ring (transport/retransmit.rs).  The network loses, delays and reorders *)
(* datagrams.  The iPad's FrameAssembler puts frames together, asks for    *)
(* what is missing, holds newer frames back while a repair may still come, *)
(* gives up on what never comes, and asks for a keyframe instead.          *)
(*                                                                         *)
(* Datagrams are lost when the network takes new ones, and arrive in any   *)
(* order.  Time passes in units of the repair timer; every time the code   *)
(* stores is kept as the time since, or left until, it, up to MaxAge.  A   *)
(* fragment is one byte.  Left out: the backward jump by which hosts       *)
(* without epochs show a restart, the return to an older epoch after 512   *)
(* of its fragments in a row, malformed headers, counters and jitter.      *)
(***************************************************************************)
EXTENDS Integers, Sequences, FiniteSets, FiniteSetsExt

CONSTANTS
  FrameSizes,        \* fragments a frame may have
  FrameLimit,        \* FRAME_LIMIT: frames in the ring
  ByteLimit,         \* BYTE_LIMIT: bytes in the ring
  MaxPendingFrames, MaxPendingBytes,
  FramePeriod, RetryAfter, Window,       \* framePeriodUs, RTT + 5 ms, repairWindow
  MaxHold, MaxHoldRetry, MaxStallAllowance, StaleFrame,
  MaxSeq, MaxLater,  \* bounds: frames of the first run, of each later one
  MaxMedia, MaxNacks,   \* bounds: fragments and NACKs under way
  MaxEpoch, MaxStragglers   \* bounds: runs of the pipeline, fragments left of one

ASSUME RepairConstants ==
  /\ FrameSizes # {} /\ FrameSizes \subseteq Nat \ {0}
  /\ {FrameLimit, ByteLimit, MaxPendingFrames, MaxPendingBytes} \subseteq Nat \ {0}
  /\ {FramePeriod, RetryAfter, Window, MaxHold, MaxHoldRetry} \subseteq Nat \ {0}
  /\ {MaxStallAllowance, StaleFrame, MaxSeq, MaxLater, MaxMedia, MaxNacks, MaxEpoch} \subseteq Nat \ {0}
  /\ MaxStragglers \in Nat

\* A repair window is 25 ms at the most, the allowance 100 ms, MaxHold 1 s and
\* MaxHoldRetry 200 ms.
ASSUME RepairTimes == Window + MaxStallAllowance <= MaxHold /\ Window <= MaxHoldRetry

VARIABLES
  epoch, next,       \* the PC's run and the number of its next frame
  ring,              \* RetransmitRing.frames, oldest first
  ringBytes,         \* RetransmitRing.bytes
  forced,            \* the next frame is to be a keyframe
  media, nacks,      \* datagrams and NACKs under way
  ask,               \* a keyframe request is under way
  repairEnabled, current,                     \* FrameAssembler's mode and epoch
  pending, pendingBytes, latest, retired,     \* its frames
  arrival, repair,                            \* time since the latest fragment, repair
  given,             \* history: the frames of the latest run given to the decoder
  fed,               \* history: those the latest step gave it
  unasked            \* history: frames dropped with no keyframe asked for since

hostVars == <<epoch, next, ring, ringBytes, forced>>
padVars == <<repairEnabled, current, pending, pendingBytes, latest, retired,
             arrival, repair, given, unasked>>
vars == <<hostVars, media, nacks, ask, padVars, fed>>

\* A step of the PC or of the network: the iPad's receiver does nothing.
PadRests == UNCHANGED padVars /\ fed' = {}

MaxAge == Max({MaxHold, FramePeriod + MaxStallAllowance, RetryAfter + MaxStallAllowance})
None == -1 - MaxAge    \* a time that is not set
Least(a, b) == IF a < b THEN a ELSE b
Most(a, b) == IF a > b THEN a ELSE b
Older(age) == IF age = None THEN None ELSE Least(age + 1, MaxAge)
Sooner(left) == IF left = None THEN None ELSE Most(left - 1, -MaxAge)

\* What the network may carry once new datagrams join it: the rest is lost.
Carried(flight, new, limit) == {kept \in SUBSET (flight \cup new) : Cardinality(kept) <= limit}

----------------------------------------------------------------------------
\* The PC.

Fragment(e, s, count, key, i) ==
  [epoch |-> e, seq |-> s, count |-> count, key |-> key, index |-> i, again |-> FALSE]

Fragments(frames) == UNION {{k} \X (1..frames[k].count) : k \in DOMAIN frames}
BytesOf(frames) == Cardinality(Fragments(frames))

\* MUTANT: the bytes of evicted frames stay counted.
InsertUncounted(e, s, count) ==
  IF count > ByteLimit THEN UNCHANGED <<ring, ringBytes>>
  ELSE LET gone == Min({k \in 0..Len(ring) : Len(ring) - k < FrameLimit})
       IN /\ ring' = Append(SubSeq(ring, gone + 1, Len(ring)),
                            [epoch |-> e, seq |-> s, count |-> count, resent |-> {}])
          /\ ringBytes' = ringBytes + count

\* RetransmitRing::insert: the oldest frames make room for the new one; a
\* frame larger than the ring is not kept.
Insert(e, s, count) ==
  IF count > ByteLimit THEN UNCHANGED <<ring, ringBytes>>
  ELSE LET gone == Min({k \in 0..Len(ring) :
                          /\ Len(ring) - k < FrameLimit
                          /\ ringBytes - BytesOf(SubSeq(ring, 1, k)) + count <= ByteLimit})
       IN /\ ring' = Append(SubSeq(ring, gone + 1, Len(ring)),
                            [epoch |-> e, seq |-> s, count |-> count, resent |-> {}])
          /\ ringBytes' = ringBytes - BytesOf(SubSeq(ring, 1, gone)) + count

LastSeq == IF epoch = 1 THEN MaxSeq ELSE MaxLater

Send(count) ==
  /\ next <= LastSeq
  /\ LET key == next = 1 \/ forced
     IN media' \in Carried(media, {Fragment(epoch, next, count, key, i) : i \in 0..(count - 1)}, MaxMedia)
  /\ Insert(epoch, next, count)
  /\ next' = next + 1 /\ forced' = FALSE
  /\ UNCHANGED <<epoch, nacks, ask>> /\ PadRests

\* A new run of the pipeline numbers its frames from 1 and keeps none of the old
\* (bounds: a run is not replaced before its last frame, and few stragglers of
\* it are left).
Restart ==
  /\ epoch < MaxEpoch /\ next > LastSeq
  /\ Cardinality(media) <= MaxStragglers /\ nacks = {} /\ ~ask
  /\ epoch' = epoch + 1 /\ next' = 1
  /\ ring' = <<>> /\ ringBytes' = 0 /\ forced' = FALSE
  /\ UNCHANGED <<media, nacks, ask>> /\ PadRests

\* RetransmitRing::resend: a fragment is not sent again within RESEND_INTERVAL.
Kept(nack) == {k \in DOMAIN ring : /\ ring[k].epoch = nack.epoch /\ ring[k].seq = nack.seq
                                   /\ ring[k].count = nack.count}

HearNack(nack) ==
  /\ nacks' = nacks \ {nack}
  /\ \/ /\ Kept(nack) = {}
        /\ UNCHANGED <<media, ring>>
     \/ \E k \in Kept(nack) :
          LET due == nack.missing \ ring[k].resent
          IN /\ ring' = [ring EXCEPT ![k].resent = @ \cup due]
             /\ media' \in Carried(media,
                  {[Fragment(nack.epoch, nack.seq, nack.count, nack.key, i) EXCEPT !.again = TRUE] :
                     i \in due}, MaxMedia)
  /\ UNCHANGED <<epoch, next, ringBytes, forced, ask>> /\ PadRests

\* A keyframe request is granted, or falls within the limit on keyframes.
HearAsk ==
  /\ ask /\ ask' = FALSE
  /\ forced' \in {forced, TRUE}
  /\ UNCHANGED <<epoch, next, ring, ringBytes, media, nacks>> /\ PadRests

----------------------------------------------------------------------------
\* The assembler.  Its steps work on a record of what they change: the frames,
\* and the NACKs, request and deliveries they lead to.

Begin == [epoch |-> current, pending |-> pending, bytes |-> pendingBytes, latest |-> latest, retired |-> retired,
          arrival |-> arrival, repair |-> repair,
          nacks |-> {}, ask |-> FALSE, given |-> {}, dropped |-> {}]

Fresh == [Begin EXCEPT !.pending = <<>>, !.bytes = 0, !.latest = 0, !.retired = 0,
                       !.arrival = MaxAge, !.repair = MaxAge]

\* Times that no later step reads are forgotten.
Whole(f) == Cardinality(f.frags) = f.count
Waits(a) == {s \in DOMAIN a.pending : ~Whole(a.pending[s])}
Forgotten(a) ==
  LET waits == Waits(a)
      unread(f) == [f EXCEPT !.born = 0,
                     !.counted = IF @ >= f.gap \/ f.used = MaxStallAllowance THEN MaxAge ELSE @]
  IN [a EXCEPT !.arrival = IF waits = {} THEN MaxAge ELSE @,
               !.repair = IF \E s \in waits : a.pending[s].asked > @ THEN @ ELSE MaxAge,
               !.pending = [s \in DOMAIN @ |->
                 IF s \notin waits \/ @[s].gap = None THEN @[s] ELSE unread(@[s])]]

Commit(result) == \E a \in {Forgotten(result)} :
  /\ pending' = a.pending /\ pendingBytes' = a.bytes
  /\ current' = a.epoch /\ latest' = a.latest /\ retired' = a.retired
  /\ arrival' = a.arrival /\ repair' = a.repair
  /\ nacks' \in Carried(nacks, a.nacks, MaxNacks)
  /\ ask' = (ask \/ a.ask)
  /\ fed' = a.given
  /\ given' = a.given \cup {h \in given : \A g \in a.given : g.epoch <= h.epoch}

Frames(a) == DOMAIN a.pending
Lacks(f) == {i \in 0..(f.count - 1) : i \notin f.frags}
First(a) == Min(Frames(a))

\* The fragments that frames have so far.
Received(frames) == UNION {{s} \X frames[s].frags : s \in DOMAIN frames}

Only(a, S) == [s \in S |-> a.pending[s]]
Without(a, S) == [a EXCEPT !.pending = Only(a, Frames(a) \ S),
                           !.bytes = @ - Cardinality(Received(Only(a, S)))]

\* MUTANT: a keyframe still incomplete counts as a replacement.
ReplacedByPart(a, s) == \E k \in Frames(a) : k > s /\ a.pending[k].key

\* requestKeyframe, dropPending, for each of some frames from the oldest: a
\* complete keyframe behind a frame already replaces it.
Replaced(a, s) == \E k \in Frames(a) : k > s /\ a.pending[k].key /\ Whole(a.pending[k])
Drop(a, S) ==
  LET asks == \E s \in S : ~a.pending[s].told /\ ~Replaced(a, s)
  IN [Without(a, S) EXCEPT !.ask = @ \/ asks, !.dropped = @ \cup S]

Told(a, S) ==
  [a EXCEPT !.pending = [s \in Frames(a) |->
     IF s \in S THEN [a.pending[s] EXCEPT !.told = TRUE] ELSE a.pending[s]]]

Retire(a, s) == [a EXCEPT !.retired = Most(@, s)]

\* deliver, for some frames in their order.
Deliver(a, S) ==
  [Retire(Without(a, S), Max(S)) EXCEPT
     !.latest = Max(S),
     !.given = @ \cup {[epoch |-> a.epoch, seq |-> s, key |-> a.pending[s].key] : s \in S}]

\* drainReady: complete frames in order; one that skips a number waits half a
\* frame period for it.
Skips(a, s) ==
  LET resolved == Max({a.latest, a.retired} \cup {r \in Frames(a) : r < s})
  IN /\ resolved > 0 /\ s > resolved + 1 /\ ~a.pending[s].key
     /\ a.pending[s].done < FramePeriod \div 2
Ready(a, s) == \A r \in Frames(a) : r <= s => Whole(a.pending[r]) /\ ~Skips(a, r)
Drain(a) ==
  LET ready == {s \in Frames(a) : Ready(a, s)} IN IF ready = {} THEN a ELSE Deliver(a, ready)

\* request: a NACK for the fragments up to through, again or those not asked yet.
Missing(f, through, again) == {i \in Lacks(f) : i <= through /\ (again \/ i \notin f.requested)}
Asking(f, missing) ==
  IF missing = {} THEN f
  ELSE [f EXCEPT !.requested = @ \cup missing, !.asked = IF @ = None THEN 0 ELSE @]
NackFor(a, s, f, missing) ==
  IF missing = {} THEN {}
  ELSE {[epoch |-> a.epoch, seq |-> s, count |-> f.count, key |-> f.key, missing |-> missing]}
Request(a, s, f, through, again) ==
  LET missing == Missing(f, through, again)
  IN [a EXCEPT !.pending[s] = Asking(f, missing), !.nacks = @ \cup NackFor(a, s, f, missing)]

\* beginGap: the first gap starts the repair deadline and the one retry.
Gapped(f) == IF f.gap # None THEN f ELSE [f EXCEPT !.gap = 0, !.left = Window]
BeginGap(a, s, through) == Request(a, s, Gapped(a.pending[s]), through, FALSE)

\* stall: how long media, or the frame's repairs, are overdue.
Stall(a, f) ==
  LET overdue == Most(a.arrival - FramePeriod,
                      IF f.asked = None THEN -MaxAge ELSE Least(f.asked, a.repair) - RetryAfter)
      since == Min({overdue, f.gap, f.counted})
  IN IF f.gap = None \/ since <= 0 THEN 0 ELSE Least(since, MaxStallAllowance - f.used)

Resumed(a) ==
  [a EXCEPT !.pending = [s \in Frames(a) |->
     LET f == a.pending[s]  extra == Stall(a, f)
     IN IF f.left = None \/ extra <= 0 THEN f
        ELSE [f EXCEPT !.left = @ + extra, !.used = @ + extra, !.counted = 0]]]

\* hold: no complete frame waits behind this one, so it is asked for again.
Hold(a, s) ==
  LET f == a.pending[s]
      wait == IF f.hold = 0 THEN Window ELSE Least(2 * f.hold, MaxHoldRetry)
      held == [f EXCEPT !.hold = wait, !.left = wait, !.used = MaxStallAllowance, !.retried = TRUE,
                        !.drop = IF Cardinality(Frames(a)) > 1
                                 THEN IF @ = None THEN 0 ELSE Least(@, 0) ELSE @]
  IN Request(a, s, held, f.count - 1, TRUE)

\* Held for MaxHold: the incomplete frames behind it, up to a keyframe, go with
\* it under one keyframe request.
GiveUp(a, s) ==
  LET behind == {b \in Frames(a) : b > s /\ \A k \in Frames(a) : s < k /\ k <= b => ~a.pending[k].key}
  IN Retire(Drop(Told(a, behind), {s} \cup behind), Max({s} \cup behind))

Blocking(a) == \E s \in Frames(a) : Whole(a.pending[s])
Expired(a, f) == f.left # None /\ -f.left >= Stall(a, f)

\* Frames go in order: one whose turn it is not yet stays.
Expire(a, s) ==
  IF s # First(a) THEN a
  ELSE IF Blocking(a) THEN Drain(Retire(Drop(a, {s}), s))
  ELSE IF a.pending[s].gap < MaxHold THEN Hold(a, s)
  ELSE GiveUp(a, s)

\* What the timer does to an incomplete frame.
TickWaiting(a, s, f) ==
  IF ~repairEnabled THEN IF f.fresh >= StaleFrame THEN Drop(a, {s}) ELSE a
  ELSE IF Expired(a, f) THEN Expire(a, s)
  ELSE IF f.gap = None /\ f.born >= FramePeriod THEN BeginGap(a, s, f.count - 1)
  ELSE IF f.gap # None /\ f.gap >= RetryAfter /\ ~f.retried
       THEN Request(a, s, [f EXCEPT !.retried = TRUE], f.count - 1, TRUE)
  ELSE a

TickFrame(a, s) ==
  IF s \notin Frames(a) \/ Whole(a.pending[s]) THEN a ELSE TickWaiting(a, s, a.pending[s])

\* The frames in order, those included that a step before has dropped.
TickFrames(a) ==
  LET last == Max({0} \cup Frames(a))
      pass[n \in 0..last] == IF n = 0 THEN a ELSE TickFrame(pass[n - 1], n)
  IN pass[last]
Ticked(a) == LET b == TickFrames(a) IN IF repairEnabled THEN Drain(b) ELSE b

----------------------------------------------------------------------------
\* addFragment.

NewFrame(d) ==
  [key |-> d.key, count |-> d.count, frags |-> {}, born |-> 0, fresh |-> 0, gap |-> None,
   left |-> None, requested |-> {}, asked |-> None, used |-> 0, counted |-> MaxAge,
   retried |-> FALSE, told |-> FALSE, hold |-> 0, drop |-> None, done |-> None]

\* What a complete frame still needs of it.
Finished(f) == [NewFrame(f) EXCEPT !.frags = f.frags, !.told = f.told, !.done = 0]

Full(a, d) ==
  \/ d.seq \notin Frames(a) /\ Cardinality(Frames(a)) >= MaxPendingFrames
  \/ a.bytes + 1 > MaxPendingBytes
Late(a, d) == repairEnabled /\ a.retired > 0 /\ d.seq <= a.retired

\* The oldest frames are dropped until the fragment fits or came too late.
Evict(a, d) ==
  IF ~Full(a, d) \/ Late(a, d) \/ Frames(a) = {} THEN a
  ELSE LET left == Drop(a, {First(a)})
       IN IF repairEnabled THEN Drain(Retire(left, First(a))) ELSE left
Room(a, d) ==
  LET most == Cardinality(Frames(a))
      pass[n \in 0..most] == IF n = 0 THEN a ELSE Evict(pass[n - 1], d)
  IN pass[most]

\* MUTANT: a held frame keeps its own pace.
HurriedNot(a, d) == a

\* A frame held now delays a newer one: one more repair window.
Hurried(a, d) ==
  IF repairEnabled /\ \A s \in Frames(a) : s < d.seq
  THEN [a EXCEPT !.pending = [s \in Frames(a) |->
          IF a.pending[s].hold = 0 THEN a.pending[s]
          ELSE [a.pending[s] EXCEPT !.drop = IF @ = None THEN Window ELSE Least(@, Window)]]]
  ELSE a

Stored(a, d) ==
  LET old == IF d.seq \in Frames(a) THEN a.pending[d.seq] ELSE NewFrame(d)
      f == [old EXCEPT !.frags = @ \cup {d.index}, !.fresh = 0]
      kept == IF Whole(f) THEN Finished(f) ELSE f
  IN [a EXCEPT !.pending = [s \in Frames(a) \cup {d.seq} |-> IF s = d.seq THEN kept ELSE a.pending[s]],
               !.bytes = @ + 1]

\* A complete frame shows that what older frames lack is not coming.
Exposed(a, s) ==
  LET older == {o \in Frames(a) : o < s /\ ~Whole(a.pending[o])}
      lost(o) == Missing(a.pending[o], a.pending[o].count, FALSE)
      found(o) == Asking(Gapped(a.pending[o]), lost(o))
      hurried(f) == IF f.hold > 0 /\ f.drop # None
                    THEN [f EXCEPT !.left = IF @ = None THEN f.drop ELSE Least(@, f.drop)] ELSE f
  IN [a EXCEPT !.pending = [o \in Frames(a) |-> IF o \in older THEN hurried(found(o)) ELSE @[o]],
               !.nacks = @ \cup UNION {NackFor(a, o, a.pending[o], lost(o)) : o \in older}]

Repaired(a, s) ==
  LET f == a.pending[s]
      highest == Max(f.frags)
  IN Drain(IF Whole(f)
           THEN IF f.key THEN Drop(a, {o \in Frames(a) : o < s})
                ELSE Ticked(Exposed(a, s))
           ELSE IF \E i \in Lacks(f) : i < highest THEN BeginGap(a, s, highest) ELSE a)

\* Without repair a complete frame goes at once and takes the older ones along.
Unrepaired(a, s) ==
  LET older == {o \in Frames(a) : o < s}
      b == Deliver(a, {s})
  IN IF Whole(a.pending[s]) THEN Drop(IF a.pending[s].key THEN Told(b, older) ELSE b, older) ELSE a

Accepted(a, d) ==
  LET ticked == Ticked(a)
      room == Room(ticked, d)
      stored == Stored(Hurried(room, d), d)
      known == IF d.seq \in Frames(ticked) THEN ticked.pending[d.seq] ELSE NewFrame(d)
  IN IF Late(ticked, d) \/ known.count # d.count \/ d.index \in known.frags THEN ticked
     ELSE IF Late(room, d) THEN room
     ELSE IF repairEnabled THEN Repaired(stored, d.seq) ELSE Unrepaired(stored, d.seq)

\* MUTANT: only the latest frame's own fragments are late.
HeardLate(d, a) ==
  LET resumed == IF repairEnabled THEN Resumed(a) ELSE a
      noted == [resumed EXCEPT !.arrival = 0, !.repair = IF d.again THEN 0 ELSE @]
  IN IF d.seq = Most(noted.latest, noted.retired) THEN noted ELSE Accepted(noted, d)

Heard(d, a) ==
  LET resumed == IF repairEnabled THEN Resumed(a) ELSE a
      noted == [resumed EXCEPT !.arrival = 0, !.repair = IF d.again THEN 0 ELSE @]
  IN IF d.seq <= Most(noted.latest, noted.retired) THEN noted ELSE Accepted(noted, d)

\* The keyframe request of a step covers every frame dropped until then.
Asked(lost, a) == IF a.ask THEN {} ELSE lost \cup a.dropped

AddFragment(d) ==
  /\ media' = media \ {d}
  /\ \/ /\ d.epoch < current                       \* a straggler of an older run
        /\ UNCHANGED <<nacks, ask>> /\ PadRests
     \/ /\ d.epoch >= current
        /\ LET new == d.epoch > current
           IN \E a \in {Heard(d, [(IF new THEN Fresh ELSE Begin) EXCEPT !.epoch = d.epoch])} :
                Commit(a) /\ unasked' = Asked(IF new THEN {} ELSE unasked, a)
        /\ UNCHANGED repairEnabled
  /\ UNCHANGED hostVars

----------------------------------------------------------------------------
\* Time, and the receiver's timer.

Aged(a) ==
  [a EXCEPT !.arrival = Older(@), !.repair = Older(@),
            !.pending = [s \in Frames(a) |->
              LET f == a.pending[s]
              IN IF Whole(f) THEN [f EXCEPT !.done = Older(@)]
                 ELSE [f EXCEPT !.born = Least(@ + 1, FramePeriod),
                                !.fresh = IF repairEnabled THEN 0 ELSE Least(@ + 1, StaleFrame),
                                !.gap = IF @ = None THEN None ELSE Least(@ + 1, MaxHold + MaxHoldRetry), !.left = Sooner(@), !.asked = Older(@),
                                !.counted = Older(@), !.drop = Sooner(@)]]]

Elapse ==
  /\ \E a \in {Ticked(Aged(Begin))} : Commit(a) /\ unasked' = Asked(unasked, a)
  /\ ring' = [k \in DOMAIN ring |-> [ring[k] EXCEPT !.resent = {}]]
  /\ UNCHANGED <<epoch, next, ringBytes, forced, media, repairEnabled>>

----------------------------------------------------------------------------
Init ==
  /\ epoch = 1 /\ next = 1 /\ ring = <<>> /\ ringBytes = 0 /\ forced = FALSE
  /\ media = {} /\ nacks = {} /\ ask = FALSE
  /\ repairEnabled \in BOOLEAN
  /\ current = 0 /\ pending = <<>> /\ pendingBytes = 0 /\ latest = 0 /\ retired = 0
  /\ arrival = MaxAge /\ repair = MaxAge
  /\ given = {} /\ fed = {} /\ unasked = {}

Next ==
  \/ \E count \in FrameSizes : Send(count)
  \/ Restart
  \/ \E nack \in nacks : HearNack(nack)
  \/ HearAsk
  \/ \E d \in media : AddFragment(d)
  \/ Elapse

Spec == Init /\ [][Next]_vars

----------------------------------------------------------------------------
\* Both stores count exactly what they hold and keep within their limits,
\* whatever was evicted, repaired or dropped in between.
StorageSound ==
  /\ ringBytes = BytesOf(ring) /\ ringBytes <= ByteLimit /\ Len(ring) <= FrameLimit
  /\ pendingBytes = Cardinality(Received(pending))
  /\ pendingBytes <= MaxPendingBytes
  /\ Cardinality(DOMAIN pending) <= MaxPendingFrames

\* No frame is given to the decoder that was given before, or after a newer one
\* of its run or of a newer run: what a step gives is newer than all before it.
GivenInOrder ==
  [][\A g \in fed', h \in given :
       g.epoch > h.epoch \/ (g.epoch = h.epoch /\ g.seq > h.seq)]_vars

\* A frame the assembler dropped is replaced: a keyframe was asked for since, or
\* a newer one is complete.
LossIsAsked ==
  \A s \in unasked :
    \/ \E g \in given : g.epoch = current /\ g.seq > s /\ g.key
    \/ \E k \in DOMAIN pending : k > s /\ pending[k].key /\ Whole(pending[k])

\* The frame that was the oldest before a tick of the timer and still is after it.
StillOldest(s) == /\ s \in DOMAIN pending /\ \A o \in DOMAIN pending : s <= o
                  /\ s \in DOMAIN pending' /\ \A o \in DOMAIN pending' : s <= o

\* Whatever is lost, the oldest frame goes: at a tick it is held for MaxHold and
\* one more retry at the most, with silences, repairs and newer frames in
\* between, and does not keep a complete newer one back that has waited for a
\* repair window.
HoldsEnd ==
  [][Elapse => \A s \in DOMAIN pending : StillOldest(s) =>
       /\ pending'[s].gap < MaxHold + MaxHoldRetry
       /\ pending'[s].hold > 0 =>
            \A k \in DOMAIN pending' : Whole(pending'[k]) => pending'[k].done < Window]_vars
=============================================================================
