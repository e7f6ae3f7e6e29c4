----------------------------- MODULE RepairProofs -----------------------------
(***************************************************************************)
(* Theorems about Repair, for any limits, times, frames and runs: what the *)
(* two stores hold, the order in which frames reach the decoder, and how   *)
(* every loss is settled.                                                  *)
(***************************************************************************)
EXTENDS Repair, FiniteSetTheorems, FunctionTheorems, SequenceTheorems, WellFoundedInduction, TLAPS

-----------------------------------------------------------------------------
(* Least and greatest numbers, and induction over numbers up to a bound.   *)

\* A set of numbers that has any has a least one.
LEMMA HasLeast ==
  ASSUME NEW T, T \subseteq Nat, T # {}
  PROVE  \E n \in T : \A k \in T : n <= k
<1>1. PICK n \in T : \A k \in T : ~ (<<k, n>> \in OpToRel(<, Nat))
  BY NatLessThanWellFounded, WFMin
<1>2. ASSUME NEW k \in T, k < n PROVE FALSE
  <2>1. <<k, n>> \in Nat \X Nat
    OBVIOUS
  <2>2. <<k, n>> \in OpToRel(<, Nat)
    BY <1>2, <2>1 DEF OpToRel
  <2> QED
    BY <1>1, <2>2
<1>3. \A k \in T : k \in Nat /\ n \in Nat
  OBVIOUS
<1> QED
  BY <1>2, <1>3

\* Induction up to a bound, over the set of the numbers it holds for.
LEMMA Induction ==
  ASSUME NEW N \in Nat, NEW T, 0 \in T, \A n \in 1 .. N : n - 1 \in T => n \in T
  PROVE  0 .. N \subseteq T
<1> DEFINE U == (0 .. N) \ T
<1> SUFFICES ASSUME U # {} PROVE FALSE
  OBVIOUS
<1>0. U \subseteq Nat
  OBVIOUS
<1>1. PICK n \in U : \A k \in U : n <= k
  <2> HIDE DEF U
  <2> QED
    BY <1>0, HasLeast
<1>2. n \in 1 .. N /\ n - 1 \in (0 .. N)
  OBVIOUS
<1>3. n - 1 \in T
  BY <1>1, <1>2
<1> QED
  BY <1>1, <1>2, <1>3

\* A recursive definition over the numbers up to a bound has a solution.
IsRun(f, start, step, n) ==
  f = [i \in 0 .. n |-> IF i = 0 THEN start ELSE step[<<f[i - 1], i>>]]

LEMMA RunExists ==
  ASSUME NEW N \in Nat, NEW A, NEW start \in A, NEW step \in [A \X (1 .. N) -> A]
  PROVE  \E f \in [0 .. N -> A] : IsRun(f, start, step, N)
<1> DEFINE Has(n) == \E f \in [0 .. n -> A] : IsRun(f, start, step, n)
           T == {n \in 0 .. N : Has(n)}
<1>1. 0 \in T
  <2> DEFINE f == [i \in 0 .. 0 |-> start]
  <2>1. f \in [0 .. 0 -> A] /\ IsRun(f, start, step, 0)
    BY DEF IsRun
  <2> QED
    BY <2>1
<1>2. ASSUME NEW n \in 1 .. N, n - 1 \in T PROVE n \in T
  <2>0. n \in Nat /\ n - 1 \in 0 .. (n - 1)
    OBVIOUS
  <2>1. PICK f \in [0 .. (n - 1) -> A] : IsRun(f, start, step, n - 1)
    BY <1>2
  <2>2. f[n - 1] \in A /\ step[<<f[n - 1], n>>] \in A
    BY <2>0
  <2> DEFINE last == step[<<f[n - 1], n>>]
             g == [i \in 0 .. n |-> IF i = n THEN last ELSE f[i]]
  <2>3. g \in [0 .. n -> A]
    <3> HIDE DEF last
    <3>1. \A i \in 0 .. n : i # n => i \in 0 .. (n - 1)
      OBVIOUS
    <3>2. \A i \in 0 .. n : (IF i = n THEN last ELSE f[i]) \in A
      BY <2>2, <3>1 DEF last
    <3> QED
      BY <3>2
  <2>4. ASSUME NEW i \in 0 .. n PROVE g[i] = IF i = 0 THEN start ELSE step[<<g[i - 1], i>>]
    <3>1. CASE i = n
      <4>1. g[i] = last /\ i # 0 /\ g[i - 1] = f[n - 1]
        BY <2>0, <3>1
      <4> QED
        BY <3>1, <4>1
    <3>2. CASE i # n
      <4>1. i \in 0 .. (n - 1) /\ g[i] = f[i] /\ (i # 0 => g[i - 1] = f[i - 1])
        BY <3>2
      <4>2. f[i] = IF i = 0 THEN start ELSE step[<<f[i - 1], i>>]
        BY <2>1, <4>1 DEF IsRun
      <4> HIDE DEF g
      <4> QED
        BY <4>1, <4>2
    <3> QED
      BY <3>1, <3>2
  <2>5. IsRun(g, start, step, n)
    <3> HIDE DEF g
    <3> DEFINE h == [i \in 0 .. n |-> IF i = 0 THEN start ELSE step[<<g[i - 1], i>>]]
    <3>1. g = h
      BY <2>3, <2>4
    <3> QED
      BY <3>1 DEF IsRun
  <2> HIDE DEF g
  <2> QED
    BY <2>3, <2>5
<1> HIDE DEF T
<1>3. 0 .. N \subseteq T
  BY <1>1, <1>2, Induction
<1>4. N \in T
  BY <1>3
<1> QED
  BY <1>4 DEF T

LEMMA MinIsLeast ==
  ASSUME NEW T, T \subseteq Nat, T # {}
  PROVE  Min(T) \in T /\ \A k \in T : Min(T) <= k
BY HasLeast DEF Min

\* A finite set of numbers that has any has a greatest one.
LEMMA MaxIsGreatest ==
  ASSUME NEW T, T \subseteq Nat, IsFiniteSet(T), T # {}
  PROVE  Max(T) \in T /\ \A k \in T : k <= Max(T)
<1>1. \E b \in Nat : \A k \in T : k <= b
  <2> DEFINE N == Cardinality(T)
  <2>1. N \in Nat /\ ExistsBijection(1 .. N, T)
    BY FS_CardinalityType
  <2>2. PICK f \in [1 .. N -> T] : \A k \in T : \E i \in 1 .. N : f[i] = k
    BY <2>1 DEF ExistsBijection, Bijection, Surjection
  <2> HIDE DEF N
  <2> DEFINE Bounded == {n \in 0 .. N : \E b \in Nat : \A i \in 1 .. n : f[i] <= b}
  <2>3. 0 \in Bounded
    BY <2>1
  <2>4. ASSUME NEW n \in 1 .. N, n - 1 \in Bounded PROVE n \in Bounded
    <3>1. PICK b \in Nat : \A i \in 1 .. (n - 1) : f[i] <= b
      BY <2>4
    <3>2. f[n] \in Nat
      BY <2>2
    <3>3. ASSUME NEW i \in 1 .. n PROVE f[i] <= f[n] + b
      <4>1. i \in 1 .. N /\ i \in Int /\ f[i] \in Nat
        <5>1. i \in 1 .. N /\ i \in Int
          BY <2>1
        <5> QED
          BY <2>2, <5>1
      <4>2. CASE i = n
        BY <3>2, <4>2
      <4>3. CASE i # n
        <5>1. i \in 1 .. (n - 1)
          BY <2>1, <4>3
        <5> QED
          BY <3>1, <3>2, <4>1, <5>1
      <4> QED
        BY <4>2, <4>3
    <3>4. f[n] + b \in Nat
      BY <3>2
    <3> QED
      BY <2>1, <3>3, <3>4
  <2> HIDE DEF Bounded
  <2>5. 0 .. N \subseteq Bounded
    BY <2>1, <2>3, <2>4, Induction
  <2>6. PICK b \in Nat : \A i \in 1 .. N : f[i] <= b
    <3>1. N \in 0 .. N
      BY <2>1
    <3> QED
      BY <2>5, <3>1 DEF Bounded
  <2> QED
    BY <2>2, <2>6
<1> DEFINE U == {b \in Nat : \A k \in T : k <= b}
<1>2. PICK b \in U : \A c \in U : b <= c
  <2>1. U # {}
    BY <1>1
  <2>2. U \subseteq Nat
    OBVIOUS
  <2> HIDE DEF U
  <2> QED
    BY <2>1, <2>2, HasLeast
<1>3. b \in T
  <2> SUFFICES ASSUME b \notin T PROVE FALSE
    OBVIOUS
  <2>1. b \in Nat /\ \A k \in T : k \in Nat /\ k <= b /\ k # b
    OBVIOUS
  <2>2. \A k \in T : k <= b - 1
    BY <2>1
  <2>3. b - 1 \in Nat
    <3>1. PICK k \in T : TRUE
      OBVIOUS
    <3> QED
      BY <2>1, <3>1
  <2>4. b - 1 \in U
    BY <2>2, <2>3
  <2> QED
    BY <1>2, <2>1, <2>3, <2>4
<1>4. \A k \in T : b >= k
  OBVIOUS
<1> HIDE DEF U
<1> QED
  BY <1>3, <1>4 DEF Max

LEMMA MaxOfThree ==
  ASSUME NEW x \in Nat, NEW y \in Nat, NEW z \in Nat
  PROVE  /\ Max({x, y, z}) \in Nat
         /\ x <= Max({x, y, z}) /\ y <= Max({x, y, z}) /\ z <= Max({x, y, z})
<1>1. \E m \in {x, y, z} : \A k \in {x, y, z} : m >= k
  OBVIOUS
<1> QED
  BY <1>1 DEF Max

LEMMA MinOfThree ==
  ASSUME NEW x \in Int, NEW y \in Int, NEW z \in Int
  PROVE  Min({x, y, z}) \in Int /\ Min({x, y, z}) <= x
<1>1. \E m \in {x, y, z} : \A k \in {x, y, z} : m =< k
  OBVIOUS
<1> QED
  BY <1>1 DEF Min

\* The longest time the model keeps, and a time that is not set.
LEMMA Times ==
  /\ MaxAge \in Nat /\ MaxHold <= MaxAge /\ MaxStallAllowance < MaxAge
  /\ None = -1 - MaxAge /\ None \in Int
<1>1. {MaxHold, FramePeriod + MaxStallAllowance, RetryAfter + MaxStallAllowance} \subseteq Nat
  BY RepairConstants
<1>2. /\ FramePeriod >= 1 /\ FramePeriod \in Nat /\ MaxStallAllowance \in Nat /\ MaxHold \in Nat
      /\ RetryAfter \in Nat
  BY RepairConstants
<1>3. /\ MaxAge \in Nat /\ MaxHold <= MaxAge /\ FramePeriod + MaxStallAllowance <= MaxAge
  BY <1>1, <1>2, MaxOfThree DEF MaxAge
<1> QED
  BY <1>2, <1>3 DEF None

-----------------------------------------------------------------------------
(* What the assembler's steps work on.                                     *)

FrameRecord ==
         [key : BOOLEAN, count : Nat \ {0}, frags : SUBSET Nat, born : Int, fresh : Int,
          gap : Int, left : Int, requested : SUBSET Nat, asked : Int, used : Int, counted : Int,
          retried : BOOLEAN, told : BOOLEAN, hold : Int, drop : Int, done : Int]
PendingFrame == {f \in FrameRecord : IsFiniteSet(f.frags) /\ f.frags \subseteq 0 .. (f.count - 1)}
Pendings == UNION {[S -> PendingFrame] : S \in {T \in SUBSET (Nat \ {0}) : IsFiniteSet(T)}}
Nacks == {n \in [epoch : Nat, seq : Nat \ {0}, count : Nat \ {0}, key : BOOLEAN, missing : SUBSET Nat] :
            n.missing \subseteq 0 .. (n.count - 1)}
Gifts == [epoch : Nat, seq : Nat, key : BOOLEAN]
Work == [epoch : Nat, pending : Pendings, bytes : Int, latest : Nat, retired : Nat,
         arrival : Int, repair : Int, nacks : SUBSET Nacks, ask : BOOLEAN,
         given : SUBSET Gifts, dropped : SUBSET Nat]

LEMMA InPendings ==
  ASSUME NEW S \in SUBSET (Nat \ {0}), IsFiniteSet(S), NEW p \in [S -> PendingFrame]
  PROVE  p \in Pendings
BY DEF Pendings

LEMMA PendingsIs ==
  ASSUME NEW p \in Pendings
  PROVE  /\ DOMAIN p \subseteq Nat \ {0} /\ IsFiniteSet(DOMAIN p)
         /\ p \in [DOMAIN p -> PendingFrame]
<1>1. PICK S \in {T \in SUBSET (Nat \ {0}) : IsFiniteSet(T)} : p \in [S -> PendingFrame]
  BY DEF Pendings
<1> QED
  BY <1>1

LEMMA WorkIs ==
  ASSUME NEW a \in Work
  PROVE  /\ Frames(a) \subseteq Nat \ {0} /\ IsFiniteSet(Frames(a))
         /\ a.pending \in [Frames(a) -> PendingFrame]
         /\ \A s \in Frames(a) : s \in Nat \ {0} /\ a.pending[s] \in PendingFrame
<1>1. a.pending \in Pendings
  BY DEF Work
<1>2. /\ Frames(a) \subseteq Nat \ {0} /\ IsFiniteSet(Frames(a))
      /\ a.pending \in [Frames(a) -> PendingFrame]
  BY <1>1, PendingsIs DEF Frames
<1> QED
  BY <1>2

LEMMA FrameIs ==
  ASSUME NEW f \in PendingFrame
  PROVE  /\ f.key \in BOOLEAN /\ f.count \in Nat \ {0} /\ f.frags \in SUBSET Nat
         /\ IsFiniteSet(f.frags) /\ f.frags \subseteq 0 .. (f.count - 1) /\ f.requested \in SUBSET Nat
         /\ f.retried \in BOOLEAN /\ f.told \in BOOLEAN
         /\ f.born \in Int /\ f.fresh \in Int /\ f.gap \in Int /\ f.left \in Int
         /\ f.asked \in Int /\ f.used \in Int /\ f.counted \in Int
         /\ f.hold \in Int /\ f.drop \in Int /\ f.done \in Int
BY DEF PendingFrame, FrameRecord

\* Steps that touch no more than times, requests and NACKs.
Alike(f, g) == f.key = g.key /\ f.count = g.count /\ f.frags = g.frags /\ f.told = g.told
Keeps(a, b) ==
  /\ b \in Work
  /\ b.epoch = a.epoch /\ b.bytes = a.bytes /\ b.latest = a.latest /\ b.retired = a.retired
  /\ b.ask = a.ask /\ b.given = a.given /\ b.dropped = a.dropped
  /\ Frames(b) = Frames(a)
  /\ \A s \in Frames(a) : Alike(b.pending[s], a.pending[s])

LEMMA KeepsSelf == ASSUME NEW a \in Work PROVE Keeps(a, a)
BY DEF Keeps, Alike

LEMMA Touched ==
  ASSUME NEW a \in Work, NEW p \in [Frames(a) -> PendingFrame],
         \A s \in Frames(a) : Alike(p[s], a.pending[s]),
         NEW n \in SUBSET Nacks, NEW x \in Int, NEW y \in Int
  PROVE  /\ Keeps(a, [a EXCEPT !.pending = p])
         /\ Keeps(a, [a EXCEPT !.pending = p, !.nacks = n])
         /\ Keeps(a, [a EXCEPT !.arrival = x, !.repair = y, !.pending = p])
<1>1. p \in Pendings /\ DOMAIN p = Frames(a)
  BY WorkIs, InPendings
<1>2. /\ [a EXCEPT !.pending = p] \in Work
      /\ [a EXCEPT !.pending = p, !.nacks = n] \in Work
      /\ [a EXCEPT !.arrival = x, !.repair = y, !.pending = p] \in Work
  BY <1>1 DEF Work
<1> QED
  BY <1>1, <1>2 DEF Keeps, Frames, Work

LEMMA SomeMissing ==
  ASSUME NEW f \in PendingFrame, NEW through, NEW again
  PROVE  /\ Missing(f, through, again) \in SUBSET Nat
         /\ Missing(f, through, again) \in SUBSET (0 .. (f.count - 1))
<1>1. f.count \in Nat
  BY DEF PendingFrame, FrameRecord
<1>2. 0 .. (f.count - 1) \subseteq Nat
  BY <1>1
<1> QED
  BY <1>2 DEF Missing, Lacks

LEMMA SameFragments ==
  ASSUME NEW f \in PendingFrame, NEW g \in FrameRecord, Alike(g, f)
  PROVE  g \in PendingFrame
BY DEF PendingFrame, Alike

\* How steps set the times of a frame.
LEMMA AskSet ==
  ASSUME NEW f \in PendingFrame, NEW x \in SUBSET Nat, NEW y \in Int
  PROVE  LET g == [f EXCEPT !.requested = x, !.asked = y] IN g \in PendingFrame /\ Alike(g, f)
<1> DEFINE g == [f EXCEPT !.requested = x, !.asked = y]
<1>1. f \in FrameRecord
  BY DEF PendingFrame
<1>2. g \in FrameRecord
  BY <1>1 DEF FrameRecord
<1>3. Alike(g, f)
  BY <1>1 DEF FrameRecord, Alike
<1> HIDE DEF g
<1> QED
  BY <1>2, <1>3, SameFragments DEF g

LEMMA GapSet ==
  ASSUME NEW f \in PendingFrame, NEW x \in Int, NEW y \in Int
  PROVE  LET g == [f EXCEPT !.gap = x, !.left = y] IN g \in PendingFrame /\ Alike(g, f)
<1> DEFINE g == [f EXCEPT !.gap = x, !.left = y]
<1>1. f \in FrameRecord
  BY DEF PendingFrame
<1>2. g \in FrameRecord
  BY <1>1 DEF FrameRecord
<1>3. Alike(g, f)
  BY <1>1 DEF FrameRecord, Alike
<1> HIDE DEF g
<1> QED
  BY <1>2, <1>3, SameFragments DEF g

LEMMA StallSet ==
  ASSUME NEW f \in PendingFrame, NEW x \in Int, NEW y \in Int, NEW z \in Int
  PROVE  LET g == [f EXCEPT !.left = x, !.used = y, !.counted = z] IN g \in PendingFrame /\ Alike(g, f)
<1> DEFINE g == [f EXCEPT !.left = x, !.used = y, !.counted = z]
<1>1. f \in FrameRecord
  BY DEF PendingFrame
<1>2. g \in FrameRecord
  BY <1>1 DEF FrameRecord
<1>3. Alike(g, f)
  BY <1>1 DEF FrameRecord, Alike
<1> HIDE DEF g
<1> QED
  BY <1>2, <1>3, SameFragments DEF g

LEMMA HoldSet ==
  ASSUME NEW f \in PendingFrame, NEW x \in Int, NEW y \in Int, NEW z \in Int, NEW u \in BOOLEAN, NEW v \in Int
  PROVE  LET g == [f EXCEPT !.hold = x, !.left = y, !.used = z, !.retried = u, !.drop = v] IN g \in PendingFrame /\ Alike(g, f)
<1> DEFINE g == [f EXCEPT !.hold = x, !.left = y, !.used = z, !.retried = u, !.drop = v]
<1>1. f \in FrameRecord
  BY DEF PendingFrame
<1>2. g \in FrameRecord
  BY <1>1 DEF FrameRecord
<1>3. Alike(g, f)
  BY <1>1 DEF FrameRecord, Alike
<1> HIDE DEF g
<1> QED
  BY <1>2, <1>3, SameFragments DEF g

LEMMA DropSet ==
  ASSUME NEW f \in PendingFrame, NEW x \in Int
  PROVE  LET g == [f EXCEPT !.drop = x] IN g \in PendingFrame /\ Alike(g, f)
<1> DEFINE g == [f EXCEPT !.drop = x]
<1>1. f \in FrameRecord
  BY DEF PendingFrame
<1>2. g \in FrameRecord
  BY <1>1 DEF FrameRecord
<1>3. Alike(g, f)
  BY <1>1 DEF FrameRecord, Alike
<1> HIDE DEF g
<1> QED
  BY <1>2, <1>3, SameFragments DEF g

LEMMA LeftSet ==
  ASSUME NEW f \in PendingFrame, NEW x \in Int
  PROVE  LET g == [f EXCEPT !.left = x] IN g \in PendingFrame /\ Alike(g, f)
<1> DEFINE g == [f EXCEPT !.left = x]
<1>1. f \in FrameRecord
  BY DEF PendingFrame
<1>2. g \in FrameRecord
  BY <1>1 DEF FrameRecord
<1>3. Alike(g, f)
  BY <1>1 DEF FrameRecord, Alike
<1> HIDE DEF g
<1> QED
  BY <1>2, <1>3, SameFragments DEF g

LEMMA DoneSet ==
  ASSUME NEW f \in PendingFrame, NEW x \in Int
  PROVE  LET g == [f EXCEPT !.done = x] IN g \in PendingFrame /\ Alike(g, f)
<1> DEFINE g == [f EXCEPT !.done = x]
<1>1. f \in FrameRecord
  BY DEF PendingFrame
<1>2. g \in FrameRecord
  BY <1>1 DEF FrameRecord
<1>3. Alike(g, f)
  BY <1>1 DEF FrameRecord, Alike
<1> HIDE DEF g
<1> QED
  BY <1>2, <1>3, SameFragments DEF g

LEMMA RetriedSet ==
  ASSUME NEW f \in PendingFrame, NEW x \in BOOLEAN
  PROVE  LET g == [f EXCEPT !.retried = x] IN g \in PendingFrame /\ Alike(g, f)
<1> DEFINE g == [f EXCEPT !.retried = x]
<1>1. f \in FrameRecord
  BY DEF PendingFrame
<1>2. g \in FrameRecord
  BY <1>1 DEF FrameRecord
<1>3. Alike(g, f)
  BY <1>1 DEF FrameRecord, Alike
<1> HIDE DEF g
<1> QED
  BY <1>2, <1>3, SameFragments DEF g

LEMMA UnreadSet ==
  ASSUME NEW f \in PendingFrame, NEW x \in Int, NEW y \in Int
  PROVE  LET g == [f EXCEPT !.born = x, !.counted = y] IN g \in PendingFrame /\ Alike(g, f)
<1> DEFINE g == [f EXCEPT !.born = x, !.counted = y]
<1>1. f \in FrameRecord
  BY DEF PendingFrame
<1>2. g \in FrameRecord
  BY <1>1 DEF FrameRecord
<1>3. Alike(g, f)
  BY <1>1 DEF FrameRecord, Alike
<1> HIDE DEF g
<1> QED
  BY <1>2, <1>3, SameFragments DEF g

LEMMA AgeSet ==
  ASSUME NEW f \in PendingFrame, NEW x \in Int, NEW y \in Int, NEW z \in Int, NEW u \in Int, NEW v \in Int, NEW w \in Int, NEW p \in Int
  PROVE  LET g == [f EXCEPT !.born = x, !.fresh = y, !.gap = z, !.left = u, !.asked = v, !.counted = w, !.drop = p] IN g \in PendingFrame /\ Alike(g, f)
<1> DEFINE g == [f EXCEPT !.born = x, !.fresh = y, !.gap = z, !.left = u, !.asked = v, !.counted = w, !.drop = p]
<1>1. f \in FrameRecord
  BY DEF PendingFrame
<1>2. g \in FrameRecord
  BY <1>1 DEF FrameRecord
<1>3. Alike(g, f)
  BY <1>1 DEF FrameRecord, Alike
<1> HIDE DEF g
<1> QED
  BY <1>2, <1>3, SameFragments DEF g

LEMMA AskingIs ==
  ASSUME NEW f \in PendingFrame, NEW missing \in SUBSET Nat
  PROVE  Asking(f, missing) \in PendingFrame /\ Alike(Asking(f, missing), f)
<1> DEFINE x == f.requested \cup missing
           y == IF f.asked = None THEN 0 ELSE f.asked
<1>1. x \in SUBSET Nat /\ y \in Int
  <2>1. f.requested \subseteq Nat /\ f.asked \in Int
    BY FrameIs
  <2>2. x \subseteq Nat
    BY <2>1
  <2>3. y \in Int
    BY <2>1
  <2> QED
    BY <2>2, <2>3
<1>2. Asking(f, missing) = IF missing = {} THEN f ELSE [f EXCEPT !.requested = x, !.asked = y]
  BY DEF Asking
<1>3. f \in PendingFrame /\ Alike(f, f)
  BY DEF Alike
<1> HIDE DEF x, y
<1> QED
  BY <1>1, <1>2, <1>3, AskSet

LEMMA GappedIs ==
  ASSUME NEW f \in PendingFrame
  PROVE  Gapped(f) \in PendingFrame /\ Alike(Gapped(f), f)
<1>1. Window \in Int /\ 0 \in Int
  BY RepairConstants
<1>2. f \in PendingFrame /\ Alike(f, f)
  BY DEF Alike
<1> QED
  BY <1>1, <1>2, GapSet DEF Gapped

LEMMA NackForIs ==
  ASSUME NEW a \in Work, NEW s \in Nat \ {0}, NEW f \in PendingFrame,
         NEW missing \in SUBSET (0 .. (f.count - 1))
  PROVE  NackFor(a, s, f, missing) \in SUBSET Nacks
<1>1. a.epoch \in Nat /\ f.count \in Nat \ {0} /\ f.key \in BOOLEAN
  BY DEF Work, PendingFrame, FrameRecord
<1> QED
  BY <1>1 DEF NackFor, Nacks

LEMMA RequestIs ==
  ASSUME NEW a \in Work, NEW s \in Frames(a), NEW f \in PendingFrame, Alike(f, a.pending[s]),
         NEW through, NEW again
  PROVE  /\ Keeps(a, Request(a, s, f, through, again))
         /\ Request(a, s, f, through, again).pending =
              [a.pending EXCEPT ![s] = Asking(f, Missing(f, through, again))]
<1> DEFINE missing == Missing(f, through, again)
           p == [a.pending EXCEPT ![s] = Asking(f, missing)]
           n == a.nacks \cup NackFor(a, s, f, missing)
<1>1. missing \in SUBSET Nat /\ missing \in SUBSET (0 .. (f.count - 1))
  BY SomeMissing
<1> HIDE DEF missing
<1>2. Asking(f, missing) \in PendingFrame /\ Alike(Asking(f, missing), f)
  BY <1>1, AskingIs
<1>3. p \in [Frames(a) -> PendingFrame]
  BY <1>2, WorkIs
<1>4. \A t \in Frames(a) : Alike(p[t], a.pending[t])
  BY <1>2, WorkIs DEF Alike
<1>5. n \in SUBSET Nacks
  <2>1. a.nacks \in SUBSET Nacks
    BY DEF Work
  <2>2. NackFor(a, s, f, missing) \in SUBSET Nacks
    BY <1>1, WorkIs, NackForIs
  <2> QED
    BY <2>1, <2>2
<1>6. Request(a, s, f, through, again) = [a EXCEPT !.pending = p, !.nacks = n]
  BY DEF Request, missing, Work
<1>7. Keeps(a, [a EXCEPT !.pending = p, !.nacks = n])
  <2> HIDE DEF p, n
  <2>1. 0 \in Int
    OBVIOUS
  <2> QED
    BY <1>3, <1>4, <1>5, <2>1, Touched
<1>8. [a EXCEPT !.pending = p, !.nacks = n].pending = p
  BY DEF Work
<1> QED
  BY <1>6, <1>7, <1>8 DEF missing

LEMMA BeginGapIs ==
  ASSUME NEW a \in Work, NEW s \in Frames(a), NEW through
  PROVE  Keeps(a, BeginGap(a, s, through))
<1>1. a.pending[s] \in PendingFrame
  BY WorkIs
<1>2. Gapped(a.pending[s]) \in PendingFrame /\ Alike(Gapped(a.pending[s]), a.pending[s])
  BY <1>1, GappedIs
<1> QED
  BY <1>2, RequestIs DEF BeginGap

\* A stall counts no more than what is left of the frame's allowance.
LEMMA StallIs ==
  ASSUME NEW a \in Work, NEW f \in PendingFrame
  PROVE  /\ Stall(a, f) \in Int
         /\ f.gap = None => Stall(a, f) = 0
         /\ f.used <= MaxStallAllowance => Stall(a, f) <= MaxStallAllowance - f.used
<1> DEFINE due == IF f.asked = None THEN -MaxAge ELSE Least(f.asked, a.repair) - RetryAfter
           overdue == Most(a.arrival - FramePeriod, due)
           since == Min({overdue, f.gap, f.counted})
<1>1. /\ f.gap \in Int /\ f.counted \in Int /\ f.asked \in Int /\ f.used \in Int
      /\ a.arrival \in Int /\ a.repair \in Int /\ FramePeriod \in Int /\ RetryAfter \in Int
      /\ MaxAge \in Int /\ MaxStallAllowance \in Int
  BY FrameIs, RepairConstants, Times DEF Work
<1>2. due \in Int
  BY <1>1 DEF Least
<1> HIDE DEF due
<1>3. overdue \in Int
  BY <1>1, <1>2 DEF Most
<1> HIDE DEF overdue
<1>4. since \in Int
  BY <1>1, <1>3, MinOfThree
<1> HIDE DEF since
<1>5. Stall(a, f) = IF f.gap = None \/ since <= 0 THEN 0 ELSE Least(since, MaxStallAllowance - f.used)
  BY DEF Stall, since, overdue, due
<1> QED
  BY <1>1, <1>4, <1>5 DEF Least

LEMMA ResumedIs ==
  ASSUME NEW a \in Work
  PROVE  Keeps(a, Resumed(a))
<1> DEFINE R(s) == LET f == a.pending[s]
                       extra == Stall(a, f)
                   IN IF f.left = None \/ extra <= 0 THEN f
                      ELSE [f EXCEPT !.left = @ + extra, !.used = @ + extra, !.counted = 0]
           p == [s \in Frames(a) |-> R(s)]
<1>1. ASSUME NEW s \in Frames(a) PROVE R(s) \in PendingFrame /\ Alike(R(s), a.pending[s])
  <2> DEFINE f == a.pending[s]
             extra == Stall(a, f)
             x == f.left + extra
             y == f.used + extra
  <2>1. f \in PendingFrame
    BY WorkIs
  <2>2. extra \in Int
    BY <2>1, StallIs
  <2> HIDE DEF extra
  <2>3. x \in Int /\ y \in Int /\ 0 \in Int
    BY <2>1, <2>2, FrameIs
  <2>4. R(s) = IF f.left = None \/ extra <= 0 THEN f ELSE [f EXCEPT !.left = x, !.used = y, !.counted = 0]
    BY DEF extra
  <2>5. Alike(f, f)
    BY DEF Alike
  <2> HIDE DEF x, y
  <2> DEFINE g == [f EXCEPT !.left = x, !.used = y, !.counted = 0]
  <2>6. g \in PendingFrame /\ Alike(g, f)
    BY <2>1, <2>3, StallSet
  <2>7. R(s) = IF f.left = None \/ extra <= 0 THEN f ELSE g
    BY <2>4
  <2> HIDE DEF R, g, f
  <2>8. R(s) = f \/ R(s) = g
    BY <2>7
  <2>9. R(s) \in PendingFrame /\ Alike(R(s), f)
    BY <2>1, <2>5, <2>6, <2>8
  <2> QED
    BY <2>9 DEF f
<1> HIDE DEF R
<1>2. p \in [Frames(a) -> PendingFrame] /\ \A s \in Frames(a) : Alike(p[s], a.pending[s])
  BY <1>1
<1>3. Resumed(a) = [a EXCEPT !.pending = p]
  BY DEF Resumed, R
<1> HIDE DEF p
<1>4. 0 \in Int /\ {} \in SUBSET Nacks
  OBVIOUS
<1> QED
  BY <1>2, <1>3, <1>4, Touched

\* What hold makes of the frame, before it is asked for again.
Held(a, s) ==
  LET f == a.pending[s]
      wait == IF f.hold = 0 THEN Window ELSE Least(2 * f.hold, MaxHoldRetry)
  IN [f EXCEPT !.hold = wait, !.left = wait, !.used = MaxStallAllowance, !.retried = TRUE,
               !.drop = IF Cardinality(Frames(a)) > 1
                        THEN IF @ = None THEN 0 ELSE Least(@, 0) ELSE @]

LEMMA HeldIs ==
  ASSUME NEW a \in Work, NEW s \in Frames(a)
  PROVE  /\ Held(a, s) \in PendingFrame /\ Alike(Held(a, s), a.pending[s])
         /\ Hold(a, s) = Request(a, s, Held(a, s), a.pending[s].count - 1, TRUE)
<1> DEFINE f == a.pending[s]
           wait == IF f.hold = 0 THEN Window ELSE Least(2 * f.hold, MaxHoldRetry)
           drop == IF Cardinality(Frames(a)) > 1
                   THEN IF f.drop = None THEN 0 ELSE Least(f.drop, 0) ELSE f.drop
<1>1. f \in PendingFrame
  BY WorkIs
<1>2. f.hold \in Int /\ f.drop \in Int /\ MaxStallAllowance \in Int /\ TRUE \in BOOLEAN
  BY <1>1, FrameIs, RepairConstants
<1>3. wait \in Int
  BY <1>2, RepairConstants DEF Least
<1>4. drop \in Int
  BY <1>2 DEF Least
<1>5. Held(a, s) = [f EXCEPT !.hold = wait, !.left = wait, !.used = MaxStallAllowance,
                             !.retried = TRUE, !.drop = drop]
  BY DEF Held
<1> HIDE DEF wait, drop
<1>6. Held(a, s) \in PendingFrame /\ Alike(Held(a, s), f)
  <2> DEFINE g == [f EXCEPT !.hold = wait, !.left = wait, !.used = MaxStallAllowance,
                            !.retried = TRUE, !.drop = drop]
  <2>1. g \in PendingFrame /\ Alike(g, f)
    BY <1>1, <1>2, <1>3, <1>4, HoldSet
  <2> QED
    BY <1>5, <2>1
<1>7. Hold(a, s) = Request(a, s, Held(a, s), f.count - 1, TRUE)
  BY DEF Hold, Held
<1> QED
  BY <1>6, <1>7

LEMMA HoldIs ==
  ASSUME NEW a \in Work, NEW s \in Frames(a)
  PROVE  Keeps(a, Hold(a, s))
<1>1. Held(a, s) \in PendingFrame /\ Alike(Held(a, s), a.pending[s])
  BY HeldIs
<1>2. Keeps(a, Request(a, s, Held(a, s), a.pending[s].count - 1, TRUE))
  BY <1>1, RequestIs
<1> QED
  BY <1>2, HeldIs

LEMMA HurriedIs ==
  ASSUME NEW a \in Work, NEW d
  PROVE  Keeps(a, Hurried(a, d))
<1> DEFINE R(s) == IF a.pending[s].hold = 0 THEN a.pending[s]
                   ELSE [a.pending[s] EXCEPT !.drop = IF @ = None THEN Window ELSE Least(@, Window)]
           p == [s \in Frames(a) |-> R(s)]
<1>1. ASSUME NEW s \in Frames(a) PROVE R(s) \in PendingFrame /\ Alike(R(s), a.pending[s])
  <2> DEFINE f == a.pending[s]
             x == IF f.drop = None THEN Window ELSE Least(f.drop, Window)
             g == [f EXCEPT !.drop = x]
  <2>1. f \in PendingFrame
    BY WorkIs
  <2>2. f.drop \in Int /\ Window \in Int
    BY <2>1, FrameIs, RepairConstants
  <2>3. x \in Int
    BY <2>2 DEF Least
  <2>4. R(s) = IF f.hold = 0 THEN f ELSE g
    OBVIOUS
  <2>5. Alike(f, f)
    BY DEF Alike
  <2> HIDE DEF x, f
  <2>6. g \in PendingFrame /\ Alike(g, f)
    BY <2>1, <2>3, DropSet
  <2> HIDE DEF R, g
  <2>7. R(s) \in PendingFrame /\ Alike(R(s), f)
    BY <2>1, <2>4, <2>5, <2>6
  <2> QED
    BY <2>7 DEF f
<1> HIDE DEF R
<1>2. p \in [Frames(a) -> PendingFrame] /\ \A s \in Frames(a) : Alike(p[s], a.pending[s])
  BY <1>1
<1>3. Hurried(a, d) = [a EXCEPT !.pending = p] \/ Hurried(a, d) = a
  BY DEF Hurried, R
<1> HIDE DEF p
<1>4. 0 \in Int /\ {} \in SUBSET Nacks
  OBVIOUS
<1>5. Keeps(a, [a EXCEPT !.pending = p])
  BY <1>2, <1>4, Touched
<1> QED
  BY <1>3, <1>5, KeepsSelf

\* An older frame that a complete one has exposed.
Found(a, o) ==
  LET f == Asking(Gapped(a.pending[o]), Missing(a.pending[o], a.pending[o].count, FALSE))
  IN IF f.hold > 0 /\ f.drop # None
     THEN [f EXCEPT !.left = IF @ = None THEN f.drop ELSE Least(@, f.drop)] ELSE f

LEMMA FoundIs ==
  ASSUME NEW a \in Work, NEW o \in Frames(a)
  PROVE  Found(a, o) \in PendingFrame /\ Alike(Found(a, o), a.pending[o])
<1> DEFINE e == a.pending[o]
           f == Asking(Gapped(e), Missing(e, e.count, FALSE))
           x == IF f.left = None THEN f.drop ELSE Least(f.left, f.drop)
           g == [f EXCEPT !.left = x]
<1>1. e \in PendingFrame
  BY WorkIs
<1>2. Gapped(e) \in PendingFrame /\ Alike(Gapped(e), e)
  BY <1>1, GappedIs
<1>3. Missing(e, e.count, FALSE) \in SUBSET Nat
  BY <1>1, SomeMissing
<1>4. f \in PendingFrame /\ Alike(f, Gapped(e))
  BY <1>2, <1>3, AskingIs
<1>5. Found(a, o) = IF f.hold > 0 /\ f.drop # None THEN g ELSE f
  BY DEF Found
<1> HIDE DEF e, f
<1>6. x \in Int
  <2>1. f.left \in Int /\ f.drop \in Int
    BY <1>4, FrameIs
  <2> QED
    BY <2>1 DEF Least
<1> HIDE DEF x
<1>7. g \in PendingFrame /\ Alike(g, f)
  BY <1>4, <1>6, LeftSet
<1> HIDE DEF g
<1>8. Found(a, o) \in PendingFrame /\ (Alike(Found(a, o), f) \/ Found(a, o) = f)
  BY <1>4, <1>5, <1>7
<1>9. Alike(Found(a, o), e)
  BY <1>2, <1>4, <1>8 DEF Alike
<1> QED
  BY <1>8, <1>9 DEF e

LEMMA ExposedIs ==
  ASSUME NEW a \in Work, NEW s
  PROVE  /\ Keeps(a, Exposed(a, s))
         /\ Exposed(a, s).pending =
              [o \in Frames(a) |-> IF o < s /\ ~Whole(a.pending[o]) THEN Found(a, o) ELSE a.pending[o]]
<1> DEFINE older == {o \in Frames(a) : o < s /\ ~Whole(a.pending[o])}
           p == [o \in Frames(a) |-> IF o \in older THEN Found(a, o) ELSE a.pending[o]]
           lost(o) == Missing(a.pending[o], a.pending[o].count, FALSE)
           n == a.nacks \cup UNION {NackFor(a, o, a.pending[o], lost(o)) : o \in older}
<1>1. p \in [Frames(a) -> PendingFrame] /\ \A o \in Frames(a) : Alike(p[o], a.pending[o])
  <2>1. \A o \in Frames(a) : a.pending[o] \in PendingFrame /\ Alike(a.pending[o], a.pending[o])
    BY WorkIs DEF Alike
  <2> QED
    BY <2>1, FoundIs
<1>2. n \in SUBSET Nacks
  <2>1. a.nacks \subseteq Nacks
    BY DEF Work
  <2>2. ASSUME NEW o \in Frames(a) PROVE NackFor(a, o, a.pending[o], lost(o)) \subseteq Nacks
    <3>1. a.pending[o] \in PendingFrame /\ o \in Nat \ {0}
      BY WorkIs
    <3>2. lost(o) \in SUBSET (0 .. (a.pending[o].count - 1))
      BY <3>1, SomeMissing
    <3> HIDE DEF lost
    <3>3. NackFor(a, o, a.pending[o], lost(o)) \in SUBSET Nacks
      BY <3>1, <3>2, NackForIs
    <3> QED
      BY <3>3
  <2> HIDE DEF lost
  <2> QED
    BY <2>1, <2>2
<1>3. Exposed(a, s) = [a EXCEPT !.pending = p, !.nacks = n]
  <2>1. \A o \in older : Found(a, o) =
          LET f == Asking(Gapped(a.pending[o]), lost(o))
          IN IF f.hold > 0 /\ f.drop # None
             THEN [f EXCEPT !.left = IF @ = None THEN f.drop ELSE Least(@, f.drop)] ELSE f
    BY DEF Found
  <2> QED
    BY <2>1 DEF Exposed, Found
<1>4. [a EXCEPT !.pending = p, !.nacks = n].pending = p
  BY DEF Work
<1>5. Keeps(a, [a EXCEPT !.pending = p, !.nacks = n])
  <2> HIDE DEF p, n
  <2>1. 0 \in Int
    OBVIOUS
  <2> QED
    BY <1>1, <1>2, <2>1, Touched
<1> QED
  BY <1>3, <1>4, <1>5

LEMMA OlderIs ==
  ASSUME NEW x \in Int
  PROVE  Older(x) \in Int /\ Sooner(x) \in Int
BY Times DEF Older, Sooner, Least, Most

\* A frame one tick later.
Aging(f) ==
  IF Whole(f) THEN [f EXCEPT !.done = Older(@)]
  ELSE [f EXCEPT !.born = Least(@ + 1, FramePeriod),
                 !.fresh = IF repairEnabled THEN 0 ELSE Least(@ + 1, StaleFrame),
                 !.gap = IF @ = None THEN None ELSE Least(@ + 1, MaxHold + MaxHoldRetry),
                 !.left = Sooner(@), !.asked = Older(@), !.counted = Older(@), !.drop = Sooner(@)]

LEMMA AgingIs ==
  ASSUME NEW f \in PendingFrame
  PROVE  /\ Aging(f) \in PendingFrame /\ Alike(Aging(f), f)
         /\ Aging(f).hold = f.hold /\ Aging(f).used = f.used
         /\ Whole(f) => Aging(f).done = Older(f.done)
         /\ ~Whole(f) => /\ Aging(f).gap = IF f.gap = None THEN None
                                           ELSE Least(f.gap + 1, MaxHold + MaxHoldRetry)
                         /\ Aging(f).left = Sooner(f.left) /\ Aging(f).drop = Sooner(f.drop)
<1> DEFINE xborn == Least(f.born + 1, FramePeriod)
           xfresh == IF repairEnabled THEN 0 ELSE Least(f.fresh + 1, StaleFrame)
           xgap == IF f.gap = None THEN None ELSE Least(f.gap + 1, MaxHold + MaxHoldRetry)
           xleft == Sooner(f.left)
           xasked == Older(f.asked)
           xcounted == Older(f.counted)
           xdrop == Sooner(f.drop)
           xdone == Older(f.done)
           g == [f EXCEPT !.born = xborn, !.fresh = xfresh, !.gap = xgap, !.left = xleft,
                          !.asked = xasked, !.counted = xcounted, !.drop = xdrop]
           h == [f EXCEPT !.done = xdone]
<1>1. /\ f.born \in Int /\ f.fresh \in Int /\ f.gap \in Int /\ f.left \in Int
      /\ f.asked \in Int /\ f.counted \in Int /\ f.drop \in Int /\ f.done \in Int
  BY FrameIs
<1>2. /\ FramePeriod \in Int /\ StaleFrame \in Int /\ MaxHold \in Int /\ MaxHoldRetry \in Int
      /\ None \in Int
  BY RepairConstants, Times
<1>3. xborn \in Int /\ xfresh \in Int /\ xgap \in Int
  BY <1>1, <1>2 DEF Least
<1>4. xleft \in Int /\ xasked \in Int /\ xcounted \in Int /\ xdrop \in Int /\ xdone \in Int
  BY <1>1, OlderIs
<1>5. Aging(f) = IF Whole(f) THEN h ELSE g
  BY DEF Aging
<1> HIDE DEF xborn, xfresh, xgap, xleft, xasked, xcounted, xdrop, xdone
<1>6. g \in PendingFrame /\ Alike(g, f)
  BY <1>3, <1>4, AgeSet
<1>7. h \in PendingFrame /\ Alike(h, f)
  BY <1>4, DoneSet
<1>8. /\ g.gap = xgap /\ g.left = xleft /\ g.drop = xdrop /\ g.hold = f.hold /\ g.used = f.used
      /\ h.done = xdone /\ h.hold = f.hold /\ h.used = f.used
  <2>1. f \in FrameRecord
    BY DEF PendingFrame
  <2> QED
    BY <2>1 DEF FrameRecord
<1> HIDE DEF g, h
<1>9. Whole(f) \/ ~Whole(f)
  OBVIOUS
<1> QED
  BY <1>5, <1>6, <1>7, <1>8, <1>9 DEF xgap, xleft, xdrop, xdone

LEMMA AgedIs ==
  ASSUME NEW a \in Work
  PROVE  /\ Keeps(a, Aged(a))
         /\ Aged(a).pending = [s \in Frames(a) |-> Aging(a.pending[s])]
<1> DEFINE p == [s \in Frames(a) |-> Aging(a.pending[s])]
           x == Older(a.arrival)
           y == Older(a.repair)
<1>1. p \in [Frames(a) -> PendingFrame] /\ \A s \in Frames(a) : Alike(p[s], a.pending[s])
  BY WorkIs, AgingIs
<1>2. x \in Int /\ y \in Int
  <2>1. a.arrival \in Int /\ a.repair \in Int
    BY DEF Work
  <2> QED
    BY <2>1, OlderIs
<1>3. Aged(a) = [a EXCEPT !.arrival = x, !.repair = y, !.pending = p]
  BY DEF Aged, Aging
<1> HIDE DEF p, x, y
<1>4. {} \in SUBSET Nacks
  OBVIOUS
<1>5. Keeps(a, [a EXCEPT !.arrival = x, !.repair = y, !.pending = p])
  BY <1>1, <1>2, <1>4, Touched
<1>6. [a EXCEPT !.arrival = x, !.repair = y, !.pending = p].pending = p
  BY DEF Work
<1> QED
  BY <1>3, <1>5, <1>6 DEF p

\* A frame without the times that no later step reads.
Unread(f) ==
  [f EXCEPT !.born = 0,
            !.counted = IF @ >= f.gap \/ f.used = MaxStallAllowance THEN MaxAge ELSE @]

LEMMA ForgottenIs ==
  ASSUME NEW a \in Work
  PROVE  /\ Keeps(a, Forgotten(a))
         /\ Forgotten(a).nacks = a.nacks
         /\ \A s \in Frames(a) :
              \/ Forgotten(a).pending[s] = a.pending[s]
              \/ Forgotten(a).pending[s] = Unread(a.pending[s])
<1> DEFINE p == [s \in Frames(a) |-> IF s \notin Waits(a) \/ a.pending[s].gap = None
                                     THEN a.pending[s] ELSE Unread(a.pending[s])]
           x == IF Waits(a) = {} THEN MaxAge ELSE a.arrival
           y == IF \E s \in Waits(a) : a.pending[s].asked > a.repair THEN a.repair ELSE MaxAge
<1>1. ASSUME NEW f \in PendingFrame PROVE Unread(f) \in PendingFrame /\ Alike(Unread(f), f)
  <2> DEFINE c == IF f.counted >= f.gap \/ f.used = MaxStallAllowance THEN MaxAge ELSE f.counted
  <2>1. c \in Int /\ 0 \in Int
    BY FrameIs, Times
  <2>2. Unread(f) = [f EXCEPT !.born = 0, !.counted = c]
    BY DEF Unread
  <2> HIDE DEF c
  <2> DEFINE g == [f EXCEPT !.born = 0, !.counted = c]
  <2>3. g \in PendingFrame /\ Alike(g, f)
    BY <2>1, UnreadSet
  <2> QED
    BY <2>2, <2>3
<1>2. p \in [Frames(a) -> PendingFrame] /\ \A s \in Frames(a) : Alike(p[s], a.pending[s])
  <2>1. \A s \in Frames(a) : a.pending[s] \in PendingFrame /\ Alike(a.pending[s], a.pending[s])
    BY WorkIs DEF Alike
  <2> QED
    BY <1>1, <2>1
<1>3. x \in Int /\ y \in Int
  BY Times DEF Work
<1>4. Forgotten(a) = [a EXCEPT !.arrival = x, !.repair = y, !.pending = p]
  BY DEF Forgotten, Unread, Frames
<1>5. /\ [a EXCEPT !.arrival = x, !.repair = y, !.pending = p].pending = p
      /\ [a EXCEPT !.arrival = x, !.repair = y, !.pending = p].nacks = a.nacks
  BY DEF Work
<1> HIDE DEF p, x, y
<1>6. {} \in SUBSET Nacks
  OBVIOUS
<1>7. Keeps(a, [a EXCEPT !.arrival = x, !.repair = y, !.pending = p])
  BY <1>2, <1>3, <1>6, Touched
<1>8. Keeps(a, Forgotten(a)) /\ Forgotten(a).pending = p /\ Forgotten(a).nacks = a.nacks
  BY <1>4, <1>5, <1>7
<1> QED
  BY <1>8 DEF p

-----------------------------------------------------------------------------
(* Steps that remove frames.                                               *)

LEMMA ReceivedHas ==
  ASSUME NEW p, NEW s, NEW i
  PROVE  <<s, i>> \in Received(p) <=> s \in DOMAIN p /\ i \in p[s].frags
BY DEF Received

LEMMA ReceivedPairs ==
  ASSUME NEW p, NEW x \in Received(p)
  PROVE  x = <<x[1], x[2]>>
BY DEF Received

LEMMA ReceivedFinite ==
  ASSUME NEW p \in Pendings
  PROVE  IsFiniteSet(Received(p))
<1> DEFINE Row(s) == {s} \X p[s].frags
           rows == {Row(s) : s \in DOMAIN p}
           f == [s \in DOMAIN p |-> Row(s)]
<1>1. IsFiniteSet(DOMAIN p) /\ \A s \in DOMAIN p : p[s] \in PendingFrame
  BY PendingsIs
<1>2. f \in Surjection(DOMAIN p, rows)
  BY DEF Surjection
<1>3. IsFiniteSet(rows)
  <2> HIDE DEF f, rows
  <2> QED
    BY <1>1, <1>2, FS_Surjection
<1>4. ASSUME NEW s \in DOMAIN p PROVE IsFiniteSet(Row(s))
  <2>1. IsFiniteSet(p[s].frags)
    BY <1>1, FrameIs
  <2>2. IsFiniteSet({s})
    BY FS_Singleton
  <2> QED
    BY <2>1, <2>2, FS_Product
<1> HIDE DEF Row
<1>5. \A T \in rows : IsFiniteSet(T)
  BY <1>4
<1>6. IsFiniteSet(UNION rows)
  <2> HIDE DEF rows
  <2> QED
    BY <1>3, <1>5, FS_UNION
<1> QED
  BY <1>6 DEF Received, Row

\* The bytes of a part of the frames, and of the rest.
LEMMA ReceivedParts ==
  ASSUME NEW p \in Pendings, NEW q \in Pendings, NEW r \in Pendings,
         DOMAIN q \subseteq DOMAIN p, DOMAIN r = DOMAIN p \ DOMAIN q,
         \A s \in DOMAIN q : q[s].frags = p[s].frags,
         \A s \in DOMAIN r : r[s].frags = p[s].frags
  PROVE  /\ Cardinality(Received(p)) \in Nat /\ Cardinality(Received(q)) \in Nat
         /\ Cardinality(Received(r)) = Cardinality(Received(p)) - Cardinality(Received(q))
<1>1. Received(q) \subseteq Received(p)
  <2> SUFFICES ASSUME NEW x \in Received(q) PROVE x \in Received(p)
    OBVIOUS
  <2>1. x = <<x[1], x[2]>>
    BY ReceivedPairs
  <2>2. x[1] \in DOMAIN q /\ x[2] \in q[x[1]].frags
    BY <2>1, ReceivedHas
  <2>3. <<x[1], x[2]>> \in Received(p)
    BY <2>2, ReceivedHas
  <2> QED
    BY <2>1, <2>3
<1>2. Received(r) = Received(p) \ Received(q)
  <2>1. ASSUME NEW x \in Received(r) PROVE x \in Received(p) \ Received(q)
    <3>1. x = <<x[1], x[2]>>
      BY ReceivedPairs
    <3>2. x[1] \in DOMAIN r /\ x[2] \in r[x[1]].frags
      BY <3>1, ReceivedHas
    <3>3. <<x[1], x[2]>> \in Received(p)
      BY <3>2, ReceivedHas
    <3>4. <<x[1], x[2]>> \notin Received(q)
      BY <3>2, ReceivedHas
    <3> QED
      BY <3>1, <3>3, <3>4
  <2>2. ASSUME NEW x \in Received(p), x \notin Received(q) PROVE x \in Received(r)
    <3>1. x = <<x[1], x[2]>>
      BY ReceivedPairs
    <3>2. x[1] \in DOMAIN p /\ x[2] \in p[x[1]].frags
      BY <3>1, ReceivedHas
    <3>3. x[1] \notin DOMAIN q
      BY <2>2, <3>1, <3>2, ReceivedHas
    <3>4. <<x[1], x[2]>> \in Received(r)
      BY <3>2, <3>3, ReceivedHas
    <3> QED
      BY <3>1, <3>4
  <2> QED
    BY <2>1, <2>2
<1>3. IsFiniteSet(Received(p)) /\ IsFiniteSet(Received(q))
  BY ReceivedFinite
<1>4. Cardinality(Received(p)) \in Nat /\ Cardinality(Received(q)) \in Nat
  BY <1>3, FS_CardinalityType
<1>5. Received(p) \cap Received(q) = Received(q)
  BY <1>1
<1>6. Cardinality(Received(r)) = Cardinality(Received(p)) - Cardinality(Received(q))
  <2>1. Cardinality(Received(p) \ Received(q))
          = Cardinality(Received(p)) - Cardinality(Received(p) \cap Received(q))
    BY <1>3, FS_Difference
  <2> QED
    BY <1>2, <1>5, <2>1
<1> QED
  BY <1>4, <1>6

LEMMA SameReceived ==
  ASSUME NEW p, NEW q, DOMAIN q = DOMAIN p, \A s \in DOMAIN p : q[s].frags = p[s].frags
  PROVE  Received(q) = Received(p)
BY DEF Received

LEMMA OnlyIs ==
  ASSUME NEW a \in Work, NEW S \in SUBSET Frames(a)
  PROVE  /\ Only(a, S) \in Pendings /\ DOMAIN Only(a, S) = S
         /\ \A s \in S : Only(a, S)[s] = a.pending[s]
<1>1. S \in SUBSET (Nat \ {0}) /\ IsFiniteSet(S)
  BY WorkIs, FS_Subset
<1>2. Only(a, S) \in [S -> PendingFrame]
  BY WorkIs DEF Only
<1> QED
  BY <1>1, <1>2, InPendings DEF Only

Counted(a) == a.bytes = Cardinality(Received(a.pending))

\* What is left of a work when some frames are gone.
Rest(a, b, S) ==
  /\ b \in Work /\ b.epoch = a.epoch
  /\ Frames(b) = Frames(a) \ S
  /\ \A s \in Frames(b) : b.pending[s] = a.pending[s]
  /\ Counted(a) => Counted(b)

LEMMA WithoutIs ==
  ASSUME NEW a \in Work, NEW S \in SUBSET Frames(a)
  PROVE  /\ Rest(a, Without(a, S), S)
         /\ Without(a, S).latest = a.latest /\ Without(a, S).retired = a.retired
         /\ Without(a, S).ask = a.ask /\ Without(a, S).given = a.given
         /\ Without(a, S).dropped = a.dropped
         /\ Without(a, S).nacks = a.nacks
<1> DEFINE p == Only(a, Frames(a) \ S)
           gone == Cardinality(Received(Only(a, S)))
           n == a.bytes - gone
           b == [a EXCEPT !.pending = p, !.bytes = n]
<1>1. /\ p \in Pendings /\ DOMAIN p = Frames(a) \ S
      /\ \A s \in Frames(a) \ S : p[s] = a.pending[s]
  BY OnlyIs
<1>2. /\ Only(a, S) \in Pendings /\ DOMAIN Only(a, S) = S
      /\ \A s \in S : Only(a, S)[s] = a.pending[s]
  BY OnlyIs
<1>3. a.pending \in Pendings /\ DOMAIN a.pending = Frames(a) /\ a.bytes \in Int
  BY DEF Work, Frames
<1> HIDE DEF p
<1>4. /\ Cardinality(Received(a.pending)) \in Nat /\ gone \in Nat
      /\ Cardinality(Received(p)) = Cardinality(Received(a.pending)) - gone
  <2> DEFINE q == Only(a, S)
             r == a.pending
  <2>1. /\ DOMAIN q \subseteq DOMAIN r /\ DOMAIN p = DOMAIN r \ DOMAIN q
        /\ \A s \in DOMAIN q : q[s].frags = r[s].frags
        /\ \A s \in DOMAIN p : p[s].frags = r[s].frags
        /\ q \in Pendings /\ r \in Pendings /\ p \in Pendings
    BY <1>1, <1>2, <1>3
  <2> HIDE DEF q, r
  <2>2. /\ Cardinality(Received(r)) \in Nat /\ Cardinality(Received(q)) \in Nat
        /\ Cardinality(Received(p)) = Cardinality(Received(r)) - Cardinality(Received(q))
    BY <2>1, ReceivedParts
  <2> QED
    BY <2>2 DEF q, r
<1> HIDE DEF gone
<1>5. n \in Int
  BY <1>3, <1>4
<1>6. Without(a, S) = b
  BY DEF Without, p, gone
<1> HIDE DEF n
<1>7. b \in Work
  BY <1>1, <1>5 DEF Work
<1>8. /\ b.pending = p /\ b.bytes = n /\ b.epoch = a.epoch /\ b.latest = a.latest
      /\ b.retired = a.retired /\ b.ask = a.ask /\ b.given = a.given /\ b.dropped = a.dropped
      /\ b.nacks = a.nacks
  BY DEF Work
<1>9. Counted(a) => Counted(b)
  BY <1>4, <1>8 DEF Counted, n
<1> HIDE DEF b
<1>10. Frames(b) = Frames(a) \ S /\ \A s \in Frames(b) : b.pending[s] = a.pending[s]
  BY <1>1, <1>8 DEF Frames
<1> QED
  BY <1>6, <1>7, <1>8, <1>9, <1>10 DEF Rest

LEMMA DropIs ==
  ASSUME NEW a \in Work, NEW S \in SUBSET Frames(a)
  PROVE  /\ Rest(a, Drop(a, S), S)
         /\ Drop(a, S).latest = a.latest /\ Drop(a, S).retired = a.retired
         /\ Drop(a, S).given = a.given /\ Drop(a, S).dropped = a.dropped \cup S
         /\ Drop(a, S).nacks = a.nacks
         /\ Drop(a, S).ask = (a.ask \/ \E s \in S : ~a.pending[s].told /\ ~Replaced(a, s))
<1> DEFINE w == Without(a, S)
           asks == \E s \in S : ~a.pending[s].told /\ ~Replaced(a, s)
           x == w.ask \/ asks
           y == w.dropped \cup S
           b == [w EXCEPT !.ask = x, !.dropped = y]
<1>1. /\ Rest(a, w, S) /\ w.latest = a.latest /\ w.retired = a.retired /\ w.ask = a.ask
      /\ w.given = a.given /\ w.dropped = a.dropped /\ w.nacks = a.nacks
  BY WithoutIs
<1>2. w \in Work
  BY <1>1 DEF Rest
<1>3. x \in BOOLEAN
  OBVIOUS
<1>4. y \in SUBSET Nat
  <2>1. w.dropped \subseteq Nat
    BY <1>2 DEF Work
  <2>2. S \subseteq Nat
    BY WorkIs
  <2> QED
    BY <2>1, <2>2
<1>5. Drop(a, S) = b
  BY DEF Drop
<1> HIDE DEF w, asks, x, y
<1>6. b \in Work
  BY <1>2, <1>3, <1>4 DEF Work
<1>7. /\ b.pending = w.pending /\ b.bytes = w.bytes /\ b.epoch = w.epoch /\ b.latest = w.latest
      /\ b.retired = w.retired /\ b.given = w.given /\ b.ask = x /\ b.dropped = y
      /\ b.nacks = w.nacks
  BY <1>2 DEF Work
<1> HIDE DEF b
<1>8. Rest(a, b, S)
  BY <1>1, <1>6, <1>7 DEF Rest, Frames, Counted
<1> QED
  BY <1>1, <1>5, <1>7, <1>8 DEF x, y, asks

\* Frames whose keyframe request is spared are dropped like the others.
LEMMA ToldIs ==
  ASSUME NEW a \in Work, NEW B \in SUBSET Frames(a)
  PROVE  /\ Told(a, B) \in Work /\ Frames(Told(a, B)) = Frames(a)
         /\ Told(a, B).bytes = a.bytes /\ Told(a, B).epoch = a.epoch
         /\ Told(a, B).latest = a.latest /\ Told(a, B).retired = a.retired
         /\ Told(a, B).ask = a.ask /\ Told(a, B).given = a.given
         /\ Told(a, B).dropped = a.dropped /\ Told(a, B).nacks = a.nacks
         /\ \A s \in Frames(a) \ B : Told(a, B).pending[s] = a.pending[s]
         /\ \A s \in Frames(a) : /\ Told(a, B).pending[s].key = a.pending[s].key
                                 /\ Told(a, B).pending[s].count = a.pending[s].count
                                 /\ Told(a, B).pending[s].frags = a.pending[s].frags
         /\ \A s \in B : Told(a, B).pending[s].told
<1> DEFINE R(s) == IF s \in B THEN [a.pending[s] EXCEPT !.told = TRUE] ELSE a.pending[s]
           p == [s \in Frames(a) |-> R(s)]
           b == [a EXCEPT !.pending = p]
<1>1. ASSUME NEW s \in Frames(a)
      PROVE  /\ R(s) \in PendingFrame /\ R(s).key = a.pending[s].key
             /\ R(s).count = a.pending[s].count /\ R(s).frags = a.pending[s].frags
             /\ s \in B => R(s).told
  <2> DEFINE f == a.pending[s]
             g == [f EXCEPT !.told = TRUE]
  <2>1. f \in FrameRecord /\ f \in PendingFrame
    BY WorkIs DEF PendingFrame
  <2>2. TRUE \in BOOLEAN
    OBVIOUS
  <2> HIDE DEF f
  <2>3. g \in FrameRecord
    BY <2>1, <2>2 DEF FrameRecord
  <2>4. g.frags = f.frags /\ g.key = f.key /\ g.count = f.count /\ g.told = TRUE
    BY <2>1 DEF FrameRecord
  <2>5. R(s) = IF s \in B THEN g ELSE f
    BY DEF f
  <2> HIDE DEF g, R
  <2>6. g \in PendingFrame
    BY <2>1, <2>3, <2>4 DEF PendingFrame
  <2>7. /\ R(s) \in PendingFrame /\ R(s).key = f.key /\ R(s).count = f.count
        /\ R(s).frags = f.frags /\ (s \in B => R(s).told)
    BY <2>1, <2>4, <2>5, <2>6
  <2> QED
    BY <2>7 DEF f
<1>2. \A s \in Frames(a) \ B : R(s) = a.pending[s]
  OBVIOUS
<1>3. Told(a, B) = b
  BY DEF Told
<1> HIDE DEF R
<1>4. p \in Pendings
  BY <1>1, WorkIs, InPendings
<1>5. b \in Work
  <2> HIDE DEF p
  <2> QED
    BY <1>4 DEF Work
<1>6. /\ b.pending = p /\ b.bytes = a.bytes /\ b.epoch = a.epoch /\ b.latest = a.latest
      /\ b.retired = a.retired /\ b.ask = a.ask /\ b.given = a.given /\ b.dropped = a.dropped
      /\ b.nacks = a.nacks
  BY DEF Work
<1>7. DOMAIN p = Frames(a) /\ \A s \in Frames(a) : p[s] = R(s)
  OBVIOUS
<1> HIDE DEF b, p
<1>8. Frames(b) = Frames(a)
  BY <1>6, <1>7 DEF Frames
<1> QED
  BY <1>1, <1>2, <1>3, <1>5, <1>6, <1>7, <1>8

LEMMA ToldDropIs ==
  ASSUME NEW a \in Work, NEW S, NEW B, S \in SUBSET Frames(a), B \in SUBSET S
  PROVE  /\ Rest(a, Drop(Told(a, B), S), S)
         /\ Drop(Told(a, B), S).latest = a.latest /\ Drop(Told(a, B), S).retired = a.retired
         /\ Drop(Told(a, B), S).given = a.given /\ Drop(Told(a, B), S).dropped = a.dropped \cup S
         /\ Drop(Told(a, B), S).nacks = a.nacks
         /\ a.ask => Drop(Told(a, B), S).ask
         /\ \/ Drop(Told(a, B), S).ask
            \/ \A s \in S \ B : a.pending[s].told \/ Replaced(a, s)
<1> DEFINE t == Told(a, B)
           b == Drop(t, S)
<1>1. /\ t \in Work /\ Frames(t) = Frames(a) /\ t.bytes = a.bytes /\ t.epoch = a.epoch
      /\ t.latest = a.latest /\ t.retired = a.retired /\ t.ask = a.ask /\ t.given = a.given
      /\ t.dropped = a.dropped /\ t.nacks = a.nacks
      /\ \A s \in Frames(a) \ B : t.pending[s] = a.pending[s]
      /\ \A s \in Frames(a) : /\ t.pending[s].key = a.pending[s].key
                              /\ t.pending[s].count = a.pending[s].count
                              /\ t.pending[s].frags = a.pending[s].frags
  BY ToldIs
<1> HIDE DEF t
<1>2. /\ Rest(t, b, S) /\ b.latest = t.latest /\ b.retired = t.retired
      /\ b.given = t.given /\ b.dropped = t.dropped \cup S /\ b.nacks = t.nacks
      /\ b.ask = (t.ask \/ \E s \in S : ~t.pending[s].told /\ ~Replaced(t, s))
  BY <1>1, DropIs
<1> HIDE DEF b
<1>3. Received(t.pending) = Received(a.pending)
  BY <1>1, SameReceived DEF Frames
<1>4. Rest(a, b, S)
  BY <1>1, <1>2, <1>3 DEF Rest, Counted
<1>5. \A s \in Frames(a) : Replaced(t, s) => Replaced(a, s)
  BY <1>1 DEF Replaced, Whole
<1> QED
  BY <1>1, <1>2, <1>4, <1>5 DEF b, t

LEMMA RetireIs ==
  ASSUME NEW a \in Work, NEW s \in Nat
  PROVE  /\ Retire(a, s) \in Work
         /\ Retire(a, s).retired = Most(a.retired, s) /\ Most(a.retired, s) \in Nat
         /\ Retire(a, s).pending = a.pending /\ Frames(Retire(a, s)) = Frames(a)
         /\ Retire(a, s).bytes = a.bytes /\ Retire(a, s).epoch = a.epoch
         /\ Retire(a, s).latest = a.latest /\ Retire(a, s).ask = a.ask
         /\ Retire(a, s).given = a.given /\ Retire(a, s).dropped = a.dropped
         /\ Retire(a, s).nacks = a.nacks
<1> DEFINE x == Most(a.retired, s)
           b == [a EXCEPT !.retired = x]
<1>1. x \in Nat
  BY DEF Most, Work
<1>2. Retire(a, s) = b
  BY DEF Retire
<1> HIDE DEF x
<1>3. b \in Work
  BY <1>1 DEF Work
<1>4. /\ b.retired = x /\ b.pending = a.pending /\ b.bytes = a.bytes /\ b.epoch = a.epoch
      /\ b.latest = a.latest /\ b.ask = a.ask /\ b.given = a.given /\ b.dropped = a.dropped
      /\ b.nacks = a.nacks
  BY DEF Work
<1> HIDE DEF b
<1>5. Frames(b) = Frames(a)
  BY <1>4 DEF Frames
<1> QED
  BY <1>1, <1>2, <1>3, <1>4, <1>5 DEF x

LEMMA DeliverIs ==
  ASSUME NEW a \in Work, NEW S \in SUBSET Frames(a), S # {}
  PROVE  LET b == Deliver(a, S)
         IN /\ Rest(a, b, S)
            /\ Max(S) \in S /\ \A s \in S : s <= Max(S)
            /\ b.latest = Max(S) /\ b.retired = Most(a.retired, Max(S))
            /\ b.ask = a.ask /\ b.dropped = a.dropped /\ b.nacks = a.nacks
            /\ b.given = a.given \cup
                 {[epoch |-> a.epoch, seq |-> s, key |-> a.pending[s].key] : s \in S}
<1> DEFINE w == Without(a, S)
           r == Retire(w, Max(S))
           new == {[epoch |-> a.epoch, seq |-> s, key |-> a.pending[s].key] : s \in S}
           g == r.given \cup new
           b == [r EXCEPT !.latest = Max(S), !.given = g]
<1>1. /\ Rest(a, w, S) /\ w.latest = a.latest /\ w.retired = a.retired /\ w.ask = a.ask
      /\ w.given = a.given /\ w.dropped = a.dropped /\ w.nacks = a.nacks
  BY WithoutIs
<1>2. S \subseteq Nat /\ IsFiniteSet(S)
  BY WorkIs, FS_Subset
<1>3. Max(S) \in S /\ (\A s \in S : s <= Max(S)) /\ Max(S) \in Nat
  BY <1>2, MaxIsGreatest
<1>4. w \in Work
  BY <1>1 DEF Rest
<1> HIDE DEF w
<1>5. /\ r \in Work /\ r.retired = Most(w.retired, Max(S))
      /\ r.pending = w.pending /\ Frames(r) = Frames(w) /\ r.bytes = w.bytes /\ r.epoch = w.epoch
      /\ r.ask = w.ask /\ r.given = w.given /\ r.dropped = w.dropped /\ r.nacks = w.nacks
  BY <1>3, <1>4, RetireIs
<1> HIDE DEF r
<1>6. new \subseteq Gifts
  <2>1. a.epoch \in Nat
    BY DEF Work
  <2>2. \A s \in S : s \in Nat /\ a.pending[s].key \in BOOLEAN
    BY <1>2, WorkIs, FrameIs
  <2> QED
    BY <2>1, <2>2 DEF Gifts
<1> HIDE DEF new
<1>7. g \in SUBSET Gifts
  BY <1>5, <1>6 DEF Work
<1>8. Deliver(a, S) = b
  BY DEF Deliver, w, r, new
<1> HIDE DEF g
<1>9. b \in Work
  BY <1>3, <1>5, <1>7 DEF Work
<1>10. /\ b.pending = r.pending /\ b.bytes = r.bytes /\ b.epoch = r.epoch /\ b.latest = Max(S)
       /\ b.retired = r.retired /\ b.given = g /\ b.ask = r.ask /\ b.dropped = r.dropped
       /\ b.nacks = r.nacks
  BY <1>5 DEF Work
<1> HIDE DEF b
<1>11. Rest(a, b, S)
  BY <1>1, <1>5, <1>9, <1>10 DEF Rest, Frames, Counted
<1> QED
  BY <1>1, <1>3, <1>5, <1>8, <1>10, <1>11 DEF g, new

-----------------------------------------------------------------------------
(* What every step of the assembler keeps.  r is the last frame retired    *)
(* before the step, U and G are the histories unasked and given.           *)

Well(a, r) ==
  /\ a \in Work /\ Counted(a)
  /\ a.latest <= a.retired /\ r <= a.retired
  /\ \A s \in Frames(a) : ~a.pending[s].told
  /\ \A g \in a.given : g.epoch = a.epoch /\ r < g.seq /\ g.seq <= a.retired

\* No frame is kept that is not newer than all that went before.
Above(a) == \A s \in Frames(a) : s > a.retired

\* A complete keyframe, given or about to be, replaces the lost frame.
Keyed(a) == {k \in Frames(a) : a.pending[k].key /\ Whole(a.pending[k])}
Settled(a, G, s) ==
  \/ \E g \in G \cup a.given : g.epoch = a.epoch /\ g.seq > s /\ g.key
  \/ \E k \in Keyed(a) : k > s
Settles(a, U, G) == a.ask \/ \A s \in U \cup a.dropped : Settled(a, G, s)

Sound(a, r, U, G) == Well(a, r) /\ Above(a) /\ Settles(a, U, G)

\* The frames that are left are the same, but for their times.
Less(a, b) ==
  /\ Frames(b) \subseteq Frames(a) /\ b.epoch = a.epoch
  /\ \A s \in Frames(b) : Alike(b.pending[s], a.pending[s])
  /\ ~repairEnabled => b.retired = a.retired

LEMMA LessSelf == ASSUME NEW a PROVE Less(a, a)
BY DEF Less, Alike

LEMMA LessLess ==
  ASSUME NEW a, NEW b, NEW c, Less(a, b), Less(b, c)
  PROVE  Less(a, c)
BY DEF Less, Alike

LEMMA KeepsSound ==
  ASSUME NEW a, NEW b, NEW r \in Nat, NEW U, NEW G, a \in Work, Keeps(a, b), Sound(a, r, U, G)
  PROVE  Sound(b, r, U, G) /\ Less(a, b)
<1>1. Received(b.pending) = Received(a.pending)
  BY SameReceived DEF Keeps, Frames, Alike
<1>2. Well(b, r)
  BY <1>1 DEF Keeps, Sound, Well, Counted, Alike
<1>3. Above(b)
  BY DEF Keeps, Sound, Above
<1>4. Keyed(b) = Keyed(a)
  BY DEF Keeps, Keyed, Alike, Whole
<1>5. Settles(b, U, G)
  BY <1>4 DEF Keeps, Sound, Settles, Settled
<1> QED
  BY <1>2, <1>3, <1>5 DEF Sound, Less, Keeps

\* A frame dropped without a request has a complete keyframe behind it, and the
\* last complete keyframe is never dropped without one.
LEMMA DropSettles ==
  ASSUME NEW a \in Work, NEW U \in SUBSET Nat, NEW G, NEW S \in SUBSET Frames(a),
         Settles(a, U, G),
         \A s \in Frames(a) : ~a.pending[s].told
  PROVE  Settles(Drop(a, S), U, G)
<1> DEFINE b == Drop(a, S)
<1>1. /\ Rest(a, b, S) /\ b.given = a.given /\ b.dropped = a.dropped \cup S
      /\ b.ask = (a.ask \/ \E s \in S : ~a.pending[s].told /\ ~Replaced(a, s))
  BY DropIs
<1> HIDE DEF b
<1> SUFFICES ASSUME ~b.ask PROVE \A s \in U \cup b.dropped : Settled(b, G, s)
  BY DEF Settles, b
<1>2. ~a.ask /\ \A s \in S : Replaced(a, s)
  BY <1>1
<1>3. \A s \in S : \E k \in Keyed(a) : k > s
  BY <1>2 DEF Replaced, Keyed
<1>4. Keyed(a) \subseteq Nat /\ IsFiniteSet(Keyed(a)) /\ Keyed(a) \subseteq Frames(a)
  <2>1. Keyed(a) \subseteq Frames(a)
    BY DEF Keyed
  <2> QED
    BY <2>1, WorkIs, FS_Subset
<1>5. ASSUME NEW k \in Keyed(a) PROVE \E l \in Keyed(b) : l >= k
  <2> DEFINE l == Max(Keyed(a))
  <2>1. l \in Keyed(a) /\ \A m \in Keyed(a) : m <= l
    BY <1>4, MaxIsGreatest
  <2> HIDE DEF l
  <2>2. l \notin S
    <3>1. l \in Nat /\ \A m \in Keyed(a) : m \in Nat /\ m <= l
      BY <1>4, <2>1
    <3> QED
      BY <1>3, <3>1
  <2>3. l \in Keyed(b)
    BY <1>1, <1>4, <2>1, <2>2 DEF Keyed, Rest
  <2> QED
    BY <2>1, <2>3
<1>6. Keyed(b) \subseteq Nat
  BY <1>1, WorkIs DEF Keyed, Rest
<1>7. S \subseteq Nat
  BY WorkIs
<1>8. ASSUME NEW s \in Nat, NEW k \in Keyed(a), k > s PROVE Settled(b, G, s)
  <2>1. PICK l \in Keyed(b) : l >= k
    BY <1>5
  <2>2. l \in Nat /\ k \in Nat
    BY <1>4, <1>6
  <2>3. l > s
    BY <1>8, <2>1, <2>2
  <2> QED
    BY <2>3 DEF Settled
<1>9. ASSUME NEW s \in S PROVE Settled(b, G, s)
  BY <1>3, <1>7, <1>8
<1>10. ASSUME NEW s \in U \cup a.dropped PROVE Settled(b, G, s)
  <2>1. Settled(a, G, s)
    BY <1>2, <1>10 DEF Settles
  <2>2. CASE \E g \in G \cup a.given : g.epoch = a.epoch /\ g.seq > s /\ g.key
    BY <1>1, <2>2 DEF Settled, Rest
  <2>3. CASE \E k \in Keyed(a) : k > s
    <3>1. PICK k \in Keyed(a) : k > s
      BY <2>3
    <3>2. s \in Nat
      BY DEF Work
    <3> QED
      BY <1>8, <3>1, <3>2
  <2> QED
    BY <2>1, <2>2, <2>3 DEF Settled
<1> QED
  BY <1>1, <1>9, <1>10

LEMMA DropSound ==
  ASSUME NEW a, NEW r \in Nat, NEW U \in SUBSET Nat, NEW G, NEW S \in SUBSET Frames(a), Sound(a, r, U, G)
  PROVE  Sound(Drop(a, S), r, U, G) /\ Less(a, Drop(a, S))
<1> DEFINE b == Drop(a, S)
<1>1. a \in Work
  BY DEF Sound, Well
<1>2. /\ Rest(a, b, S) /\ b.latest = a.latest /\ b.retired = a.retired
      /\ b.given = a.given
  BY <1>1, DropIs
<1>3. Settles(b, U, G)
  BY <1>1, DropSettles DEF Sound, Well
<1> HIDE DEF b
<1>4. Well(b, r) /\ Above(b)
  BY <1>2 DEF Sound, Well, Above, Rest
<1>5. Less(a, b)
  BY <1>2 DEF Less, Rest, Alike
<1> QED
  BY <1>3, <1>4, <1>5 DEF Sound, b

\* Frames are given in order when those that stay are newer.
LEMMA DeliverSound ==
  ASSUME NEW a, NEW r \in Nat, NEW U \in SUBSET Nat, NEW G, NEW S \in SUBSET Frames(a), S # {},
         Well(a, r), Settles(a, U, G), \A s \in S : s > a.retired
  PROVE  /\ Well(Deliver(a, S), r) /\ Settles(Deliver(a, S), U, G) /\ Rest(a, Deliver(a, S), S)
         /\ Deliver(a, S).retired = Max(S) /\ Max(S) \in S /\ \A s \in S : s <= Max(S)
<1> DEFINE b == Deliver(a, S)
           new == {[epoch |-> a.epoch, seq |-> s, key |-> a.pending[s].key] : s \in S}
           m == Max(S)
<1>1. a \in Work
  BY DEF Well
<1>2. /\ Rest(a, b, S) /\ m \in S /\ \A s \in S : s <= m
      /\ b.latest = m /\ b.retired = Most(a.retired, m)
      /\ b.ask = a.ask /\ b.dropped = a.dropped /\ b.given = a.given \cup new
  BY <1>1, DeliverIs
<1> HIDE DEF b, m
<1>3. a.retired \in Nat /\ a.latest \in Nat /\ S \subseteq Nat
  BY <1>1, WorkIs DEF Work
<1>4. m \in Nat /\ m > a.retired /\ b.retired = m
  <2>1. m \in Nat /\ m > a.retired
    BY <1>2, <1>3
  <2> QED
    BY <1>2, <1>3, <2>1 DEF Most
<1>5. ASSUME NEW g \in b.given PROVE g.epoch = b.epoch /\ r < g.seq /\ g.seq <= b.retired
  <2>1. b.epoch = a.epoch
    BY <1>2 DEF Rest
  <2>2. CASE g \in a.given
    <3>1. g.seq \in Nat
      BY <1>1, <2>2 DEF Work, Gifts
    <3> QED
      BY <1>3, <1>4, <2>1, <2>2, <3>1 DEF Well
  <2>3. CASE g \in new
    <3>1. PICK s \in S : g = [epoch |-> a.epoch, seq |-> s, key |-> a.pending[s].key]
      BY <2>3
    <3>2. g.epoch = a.epoch /\ g.seq = s /\ s \in Nat
      BY <1>3, <3>1
    <3>3. s <= m /\ s > a.retired /\ r <= a.retired
      BY <1>2 DEF Well
    <3> QED
      BY <1>3, <1>4, <2>1, <3>2, <3>3
  <2> QED
    BY <1>2, <2>2, <2>3
<1>6. Well(b, r)
  <2>1. b \in Work /\ Counted(b) /\ \A s \in Frames(b) : ~b.pending[s].told
    BY <1>2 DEF Well, Rest
  <2>2. b.latest <= b.retired /\ r <= b.retired
    BY <1>2, <1>3, <1>4 DEF Well
  <2> QED
    BY <1>5, <2>1, <2>2 DEF Well
<1>7. ASSUME ~b.ask, NEW s \in U \cup b.dropped PROVE Settled(b, G, s)
  <2>1. Settled(a, G, s)
    BY <1>2, <1>7 DEF Settles
  <2>2. CASE \E g \in G \cup a.given : g.epoch = a.epoch /\ g.seq > s /\ g.key
    BY <1>2, <2>2 DEF Settled, Rest
  <2>3. CASE \E k \in Keyed(a) : k > s
    <3>1. PICK k \in Keyed(a) : k > s
      BY <2>3
    <3>2. CASE k \in S
      <4> DEFINE g == [epoch |-> a.epoch, seq |-> k, key |-> a.pending[k].key]
      <4>1. g \in b.given /\ g.epoch = a.epoch /\ g.seq = k /\ g.key
        BY <1>2, <3>1, <3>2 DEF Keyed
      <4> QED
        BY <1>2, <3>1, <4>1 DEF Settled, Rest
    <3>3. CASE k \notin S
      <4>1. k \in Keyed(b)
        BY <1>2, <3>1, <3>3 DEF Keyed, Rest
      <4> QED
        BY <3>1, <4>1 DEF Settled
    <3> QED
      BY <3>2, <3>3
  <2> QED
    BY <2>1, <2>2, <2>3 DEF Settled
<1>8. Settles(b, U, G)
  BY <1>7 DEF Settles
<1> QED
  BY <1>2, <1>4, <1>6, <1>8 DEF b, new, m

LEMMA RetireSound ==
  ASSUME NEW a, NEW r \in Nat, NEW U, NEW G, NEW s \in Nat, Sound(a, r, U, G), repairEnabled,
         \A k \in Frames(a) : k > s
  PROVE  Sound(Retire(a, s), r, U, G) /\ Less(a, Retire(a, s))
<1> DEFINE b == Retire(a, s)
<1>1. a \in Work /\ a.retired \in Nat /\ a.latest \in Nat /\ \A g \in a.given : g.seq \in Nat
  BY DEF Sound, Well, Work, Gifts
<1>2. /\ b \in Work /\ b.retired = Most(a.retired, s) /\ b.retired \in Nat
      /\ b.pending = a.pending /\ Frames(b) = Frames(a)
      /\ b.bytes = a.bytes /\ b.epoch = a.epoch
      /\ b.latest = a.latest /\ b.ask = a.ask /\ b.given = a.given /\ b.dropped = a.dropped
  BY <1>1, RetireIs
<1> HIDE DEF b
<1>3. b.retired >= a.retired /\ (b.retired = a.retired \/ b.retired = s)
  BY <1>1, <1>2 DEF Most
<1>4. Well(b, r)
  <2>1. r <= b.retired /\ b.latest <= b.retired
    BY <1>1, <1>2, <1>3 DEF Sound, Well
  <2>2. \A g \in b.given : g.epoch = b.epoch /\ r < g.seq /\ g.seq <= b.retired
    BY <1>1, <1>2, <1>3 DEF Sound, Well
  <2> QED
    BY <1>2, <2>1, <2>2 DEF Sound, Well, Counted
<1>5. Above(b)
  BY <1>2, <1>3 DEF Sound, Above
<1>6. Settles(b, U, G)
  BY <1>2 DEF Sound, Settles, Settled, Keyed
<1>7. Less(a, b)
  BY <1>2 DEF Less, Alike
<1> QED
  BY <1>4, <1>5, <1>6, <1>7 DEF Sound, b

LEMMA FirstIs ==
  ASSUME NEW a \in Work, Frames(a) # {}
  PROVE  First(a) \in Frames(a) /\ \A s \in Frames(a) : First(a) <= s
BY WorkIs, MinIsLeast DEF First

\* What goes to the decoder is complete, with all that is older.
LEMMA DrainIs ==
  ASSUME NEW a \in Work
  PROVE  \E S \in SUBSET Frames(a) :
           /\ \A s \in S, o \in Frames(a) : o <= s => o \in S /\ Whole(a.pending[o])
           /\ Drain(a) = IF S = {} THEN a ELSE Deliver(a, S)
<1> DEFINE S == {s \in Frames(a) : Ready(a, s)}
<1>1. ASSUME NEW s \in S, NEW o \in Frames(a), o <= s PROVE o \in S /\ Whole(a.pending[o])
  <2>1. s \in Nat /\ o \in Nat /\ \A q \in Frames(a) : q \in Nat
    BY WorkIs
  <2>2. \A q \in Frames(a) : q <= o => q <= s
    BY <1>1, <2>1
  <2>3. o <= o
    BY <2>1
  <2> QED
    BY <1>1, <2>2, <2>3 DEF Ready
<1>2. Drain(a) = IF S = {} THEN a ELSE Deliver(a, S)
  BY DEF Drain
<1>3. S \in SUBSET Frames(a)
  OBVIOUS
<1> HIDE DEF S
<1> QED
  BY <1>1, <1>2, <1>3

LEMMA DrainSound ==
  ASSUME NEW a, NEW r \in Nat, NEW U \in SUBSET Nat, NEW G, Sound(a, r, U, G), repairEnabled
  PROVE  Sound(Drain(a), r, U, G) /\ Less(a, Drain(a))
<1>0. a \in Work
  BY DEF Sound, Well
<1>1. PICK S \in SUBSET Frames(a) :
        /\ \A s \in S, o \in Frames(a) : o <= s => o \in S /\ Whole(a.pending[o])
        /\ Drain(a) = IF S = {} THEN a ELSE Deliver(a, S)
  BY <1>0, DrainIs
<1>2. CASE S = {}
  BY <1>1, <1>2, LessSelf
<1>3. CASE S # {}
  <2> DEFINE b == Deliver(a, S)
  <2>1. /\ Well(b, r) /\ Settles(b, U, G) /\ Rest(a, b, S)
        /\ b.retired = Max(S) /\ Max(S) \in S
    <3>1. Well(a, r) /\ Settles(a, U, G) /\ \A s \in S : s > a.retired
      BY DEF Sound, Above
    <3> QED
      BY <1>3, <3>1, DeliverSound
  <2>2. Drain(a) = b
    BY <1>1, <1>3
  <2> HIDE DEF b
  <2>3. Above(b)
    <3>1. \A s \in Frames(a) : s \in Nat
      BY <1>0, WorkIs
    <3>2. \A s \in Frames(b) : s \in Frames(a) /\ s \notin S
      BY <2>1 DEF Rest
    <3> QED
      BY <1>1, <2>1, <3>1, <3>2 DEF Above
  <2>4. Less(a, b)
    BY <2>1 DEF Less, Rest, Alike
  <2> QED
    BY <2>1, <2>2, <2>3, <2>4 DEF Sound
<1> QED
  BY <1>2, <1>3

\* The oldest frame goes.
LEMMA RetireFirst ==
  ASSUME NEW a, NEW r \in Nat, NEW U \in SUBSET Nat, NEW G, Sound(a, r, U, G), repairEnabled,
         Frames(a) # {}
  PROVE  /\ Sound(Drain(Retire(Drop(a, {First(a)}), First(a))), r, U, G)
         /\ Less(a, Drain(Retire(Drop(a, {First(a)}), First(a))))
<1> DEFINE s == First(a)
           d == Drop(a, {s})
           e == Retire(d, s)
<1>1. a \in Work
  BY DEF Sound, Well
<1>2. s \in Frames(a) /\ (\A k \in Frames(a) : s <= k) /\ \A k \in Frames(a) : k \in Nat
  BY <1>1, FirstIs, WorkIs
<1> HIDE DEF s
<1>3. Sound(d, r, U, G) /\ Less(a, d)
  BY <1>2, DropSound
<1>4. Rest(a, d, {s})
  BY <1>1, <1>2, DropIs
<1> HIDE DEF d
<1>5. \A k \in Frames(d) : k > s
  BY <1>2, <1>4 DEF Rest
<1>6. Sound(e, r, U, G) /\ Less(d, e)
  BY <1>2, <1>3, <1>5, RetireSound
<1> HIDE DEF e
<1>7. Sound(Drain(e), r, U, G) /\ Less(e, Drain(e))
  BY <1>6, DrainSound
<1> QED
  BY <1>3, <1>6, <1>7, LessLess DEF s, d, e

\* Under one keyframe request, the oldest frame goes with those that need it.
LEMMA GiveUpSound ==
  ASSUME NEW a, NEW r \in Nat, NEW U \in SUBSET Nat, NEW G, Sound(a, r, U, G), repairEnabled,
         NEW s \in Frames(a), s = First(a), ~Blocking(a)
  PROVE  /\ Sound(GiveUp(a, s), r, U, G) /\ Less(a, GiveUp(a, s))
         /\ s \notin Frames(GiveUp(a, s))
<1> DEFINE behind == {b \in Frames(a) : b > s /\ \A k \in Frames(a) :
                                          s < k /\ k <= b => ~a.pending[k].key}
           S == {s} \cup behind
           d == Drop(Told(a, behind), S)
           m == Max(S)
<1>1. /\ a \in Work /\ (\A k \in Frames(a) : s <= k) /\ (\A k \in Frames(a) : k \in Nat)
      /\ IsFiniteSet(Frames(a))
  <2>1. a \in Work
    BY DEF Sound, Well
  <2> QED
    BY <2>1, FirstIs, WorkIs
<1>2. S \in SUBSET Frames(a) /\ behind \in SUBSET S /\ s \in S \ behind
  BY <1>1
<1>3. \A b \in behind : b > s /\ \A k \in Frames(a) : s < k /\ k <= b => ~a.pending[k].key
  OBVIOUS
<1>4. \A b \in Frames(a) \ S : \E k \in Frames(a) : s < k /\ k <= b /\ a.pending[k].key
  BY <1>1
<1>5. GiveUp(a, s) = Retire(d, m)
  BY DEF GiveUp
<1> HIDE DEF behind, S
<1>6. m \in S /\ \A k \in S : k <= m
  <2>1. S \subseteq Nat /\ IsFiniteSet(S) /\ S # {}
    BY <1>1, <1>2, FS_Subset
  <2> QED
    BY <2>1, MaxIsGreatest
<1> HIDE DEF m
<1>7. /\ Rest(a, d, S) /\ d.latest = a.latest /\ d.retired = a.retired
      /\ d.given = a.given /\ d.dropped = a.dropped \cup S
      /\ d.ask \/ \A k \in S \ behind : a.pending[k].told \/ Replaced(a, k)
  <2>1. a \in Work /\ S \in SUBSET Frames(a) /\ behind \in SUBSET S
    BY <1>1, <1>2
  <2>2. /\ Rest(a, Drop(Told(a, behind), S), S)
        /\ Drop(Told(a, behind), S).latest = a.latest
        /\ Drop(Told(a, behind), S).retired = a.retired
        /\ Drop(Told(a, behind), S).given = a.given
        /\ Drop(Told(a, behind), S).dropped = a.dropped \cup S
        /\ \/ Drop(Told(a, behind), S).ask
           \/ \A k \in S \ behind : a.pending[k].told \/ Replaced(a, k)
    BY <2>1, ToldDropIs
  <2> QED
    BY <2>2
<1> HIDE DEF d
<1>8. d.ask
  <2>1. ~a.pending[s].told
    BY DEF Sound, Well
  <2>2. ~Replaced(a, s)
    BY DEF Replaced, Blocking
  <2> QED
    BY <1>2, <1>7, <2>1, <2>2
<1>9. Sound(d, r, U, G)
  BY <1>7, <1>8 DEF Sound, Well, Above, Settles, Rest
<1>10. ASSUME NEW k \in Frames(d) PROVE k > m
  <2>1. k \in Frames(a) \ S
    BY <1>7 DEF Rest
  <2>2. PICK l \in Frames(a) : s < l /\ l <= k /\ a.pending[l].key
    BY <1>4, <2>1
  <2>3. CASE m = s
    BY <1>1, <2>1, <2>2, <2>3
  <2>4. CASE m # s
    <3>1. m \in behind
      BY <1>6, <2>4 DEF S
    <3>2. ~(l <= m)
      BY <1>3, <2>2, <3>1
    <3>3. m \in Nat /\ l \in Nat /\ k \in Nat
      BY <1>1, <1>2, <1>6, <2>1
    <3> QED
      BY <2>2, <3>2, <3>3
  <2> QED
    BY <2>3, <2>4
<1>11. m \in Nat
  BY <1>1, <1>2, <1>6
<1>12. Less(a, d)
  BY <1>7 DEF Less, Rest, Alike
<1>13. Sound(Retire(d, m), r, U, G) /\ Less(d, Retire(d, m))
  BY <1>9, <1>10, <1>11, RetireSound
<1>14. s \notin Frames(Retire(d, m))
  <2>1. d \in Work /\ s \notin Frames(d)
    BY <1>2, <1>7 DEF Rest
  <2> QED
    BY <1>11, <2>1, RetireIs
<1> QED
  BY <1>5, <1>12, <1>13, <1>14, LessLess


LEMMA ExpireSound ==
  ASSUME NEW a, NEW r \in Nat, NEW U \in SUBSET Nat, NEW G, Sound(a, r, U, G), repairEnabled,
         NEW s \in Frames(a)
  PROVE  Sound(Expire(a, s), r, U, G) /\ Less(a, Expire(a, s))
<1>1. a \in Work
  BY DEF Sound, Well
<1>2. CASE s # First(a)
  BY <1>2, LessSelf DEF Expire
<1>3. CASE s = First(a) /\ Blocking(a)
  <2>1. Expire(a, s) = Drain(Retire(Drop(a, {First(a)}), First(a)))
    BY <1>3 DEF Expire
  <2>2. Frames(a) # {}
    OBVIOUS
  <2> QED
    BY <2>1, <2>2, RetireFirst
<1>4. CASE s = First(a) /\ ~Blocking(a) /\ a.pending[s].gap < MaxHold
  <2>1. Expire(a, s) = Hold(a, s)
    BY <1>4 DEF Expire
  <2>2. Keeps(a, Hold(a, s))
    BY <1>1, HoldIs
  <2> QED
    BY <1>1, <2>1, <2>2, KeepsSound
<1>5. CASE s = First(a) /\ ~Blocking(a) /\ ~(a.pending[s].gap < MaxHold)
  <2>1. Expire(a, s) = GiveUp(a, s)
    BY <1>5 DEF Expire
  <2> QED
    BY <1>5, <2>1, GiveUpSound
<1> QED
  BY <1>2, <1>3, <1>4, <1>5

LEMMA TickWaitingSound ==
  ASSUME NEW a, NEW r \in Nat, NEW U \in SUBSET Nat, NEW G, Sound(a, r, U, G),
         NEW s \in Frames(a)
  PROVE  LET b == TickWaiting(a, s, a.pending[s])
         IN Sound(b, r, U, G) /\ Less(a, b)
<1> DEFINE f == a.pending[s]
           g == [f EXCEPT !.retried = TRUE]
           b == TickWaiting(a, s, f)
<1>1. a \in Work
  BY DEF Sound, Well
<1>2. f \in PendingFrame
  BY <1>1, WorkIs
<1>3. g \in PendingFrame /\ Alike(g, f)
  BY <1>2, RetriedSet
<1>4. Keeps(a, Request(a, s, g, f.count - 1, TRUE))
  BY <1>1, <1>3, RequestIs
<1>5. Keeps(a, BeginGap(a, s, f.count - 1))
  BY <1>1, BeginGapIs
<1>6. \/ b = a
      \/ b = Drop(a, {s})
      \/ repairEnabled /\ b = Expire(a, s)
      \/ b = BeginGap(a, s, f.count - 1)
      \/ b = Request(a, s, g, f.count - 1, TRUE)
  BY DEF TickWaiting
<1>7. CASE b = a
  BY <1>7, LessSelf
<1>8. CASE b = Drop(a, {s})
  <2>1. {s} \in SUBSET Frames(a)
    OBVIOUS
  <2>2. Sound(Drop(a, {s}), r, U, G) /\ Less(a, Drop(a, {s}))
    BY <2>1, DropSound
  <2> QED
    BY <1>8, <2>2
<1>9. CASE repairEnabled /\ b = Expire(a, s)
  BY <1>9, ExpireSound
<1>10. CASE b = BeginGap(a, s, f.count - 1)
  BY <1>1, <1>5, <1>10, KeepsSound
<1>11. CASE b = Request(a, s, g, f.count - 1, TRUE)
  BY <1>1, <1>4, <1>11, KeepsSound
<1> QED
  BY <1>6, <1>7, <1>8, <1>9, <1>10, <1>11

LEMMA TickFrameSound ==
  ASSUME NEW a, NEW r \in Nat, NEW U \in SUBSET Nat, NEW G, Sound(a, r, U, G), NEW s
  PROVE  Sound(TickFrame(a, s), r, U, G) /\ Less(a, TickFrame(a, s))
<1>1. CASE s \notin Frames(a) \/ Whole(a.pending[s])
  BY <1>1, LessSelf DEF TickFrame
<1>2. CASE s \in Frames(a) /\ ~Whole(a.pending[s])
  <2>1. TickFrame(a, s) = TickWaiting(a, s, a.pending[s])
    BY <1>2 DEF TickFrame
  <2> QED
    BY <1>2, <2>1, TickWaitingSound
<1> QED
  BY <1>1, <1>2

\* The pass over the frames of a tick, one step a number.
LEMMA TickFramesIs ==
  ASSUME NEW a \in Work, NEW A, a \in A, \A b \in A, n \in Nat : TickFrame(b, n) \in A
  PROVE  \E N \in Nat : \E p :
           /\ p[0] = a /\ \A n \in 1 .. N : p[n] = TickFrame(p[n - 1], n)
           /\ \A n \in 0 .. N : p[n] \in A
           /\ TickFrames(a) = p[N] /\ \A s \in Frames(a) : s <= N
<1> DEFINE N == Max({0} \cup Frames(a))
           IsPass(f) == f = [n \in 0 .. N |-> IF n = 0 THEN a ELSE TickFrame(f[n - 1], n)]
<1>1. N \in Nat /\ \A s \in Frames(a) : s <= N
  <2>1. Frames(a) \subseteq Nat /\ IsFiniteSet(Frames(a)) /\ IsFiniteSet({0})
    BY WorkIs, FS_Singleton
  <2>2. IsFiniteSet({0} \cup Frames(a))
    BY <2>1, FS_Union
  <2>3. {0} \cup Frames(a) \subseteq Nat
    BY <2>1
  <2>4. N \in {0} \cup Frames(a) /\ \A s \in {0} \cup Frames(a) : s <= N
    BY <2>2, <2>3, MaxIsGreatest
  <2> QED
    BY <2>3, <2>4
<1>2. TickFrames(a) = (CHOOSE f : IsPass(f))[N]
  BY DEF TickFrames
<1> HIDE DEF N
<1>3. \E f \in [0 .. N -> A] : IsPass(f)
  <2> DEFINE step == [x \in A \X (1 .. N) |-> TickFrame(x[1], x[2])]
  <2>1. step \in [A \X (1 .. N) -> A]
    <3>1. \A n \in 1 .. N : n \in Nat
      BY <1>1
    <3> QED
      BY <3>1
  <2>2. \A b \in A, n \in 1 .. N : step[<<b, n>>] = TickFrame(b, n)
    OBVIOUS
  <2> HIDE DEF step
  <2>3. PICK f \in [0 .. N -> A] : IsRun(f, a, step, N)
    BY <1>1, <2>1, RunExists
  <2> DEFINE g == [n \in 0 .. N |-> IF n = 0 THEN a ELSE TickFrame(f[n - 1], n)]
  <2>4. \A n \in 0 .. N : f[n] = g[n]
    <3> TAKE n \in 0 .. N
    <3>1. f[n] = IF n = 0 THEN a ELSE step[<<f[n - 1], n>>]
      BY <2>3 DEF IsRun
    <3>2. n # 0 => n \in 1 .. N /\ f[n - 1] \in A
      BY <1>1
    <3> QED
      BY <2>2, <3>1, <3>2
  <2>5. f = g
    <3>1. DOMAIN g = 0 .. N
      OBVIOUS
    <3> HIDE DEF g
    <3>2. f = [n \in 0 .. N |-> f[n]]
      OBVIOUS
    <3>3. g = [n \in 0 .. N |-> g[n]]
      BY DEF g
    <3> QED
      BY <2>4, <3>2, <3>3
  <2> QED
    BY <2>5
<1> HIDE DEF IsPass
<1>4. IsPass(CHOOSE f : IsPass(f))
  BY <1>3
<1>5. PICK f : IsPass(f) /\ TickFrames(a) = f[N]
  BY <1>2, <1>4
<1>6. f[0] = a /\ \A n \in 1 .. N : f[n] = TickFrame(f[n - 1], n)
  <2>1. 0 \in 0 .. N /\ \A n \in 1 .. N : n \in 0 .. N /\ n # 0
    BY <1>1
  <2>2. \A n \in 0 .. N : f[n] = IF n = 0 THEN a ELSE TickFrame(f[n - 1], n)
    BY <1>5 DEF IsPass
  <2> QED
    BY <2>1, <2>2
<1> DEFINE T == {n \in 0 .. N : f[n] \in A}
<1>7. 0 \in T
  BY <1>1, <1>6
<1>8. ASSUME NEW n \in 1 .. N, n - 1 \in T PROVE n \in T
  <2>1. n \in Nat /\ n \in 0 .. N
    BY <1>1
  <2> QED
    BY <1>6, <1>8, <2>1
<1> HIDE DEF T
<1>9. 0 .. N \subseteq T
  BY <1>1, <1>7, <1>8, Induction
<1>10. \A n \in 0 .. N : f[n] \in A
  BY <1>9 DEF T
<1> QED
  BY <1>1, <1>5, <1>6, <1>10

LEMMA TickedSound ==
  ASSUME NEW a, NEW r \in Nat, NEW U \in SUBSET Nat, NEW G, Sound(a, r, U, G)
  PROVE  Sound(Ticked(a), r, U, G) /\ Less(a, Ticked(a))
<1> DEFINE A == {b \in Work : Sound(b, r, U, G) /\ Less(a, b)}
           t == TickFrames(a)
<1>1. a \in A
  BY LessSelf DEF Sound, Well
<1>2. ASSUME NEW b \in A, NEW n \in Nat PROVE TickFrame(b, n) \in A
  <2>1. Sound(TickFrame(b, n), r, U, G) /\ Less(b, TickFrame(b, n))
    BY TickFrameSound
  <2>2. Less(a, TickFrame(b, n))
    BY <2>1, LessLess
  <2> QED
    BY <2>1, <2>2 DEF Sound, Well
<1>3. t \in A
  <2> HIDE DEF A
  <2>1. a \in Work
    BY DEF Sound, Well
  <2>2. PICK N \in Nat : \E p : t = p[N] /\ \A n \in 0 .. N : p[n] \in A
    BY <1>1, <1>2, <2>1, TickFramesIs
  <2>3. N \in 0 .. N
    OBVIOUS
  <2> QED
    BY <2>2, <2>3
<1>4. Sound(t, r, U, G) /\ Less(a, t)
  BY <1>3
<1>5. Ticked(a) = IF repairEnabled THEN Drain(t) ELSE t
  BY DEF Ticked
<1> HIDE DEF A, t
<1>6. CASE repairEnabled
  <2>1. Sound(Drain(t), r, U, G) /\ Less(t, Drain(t))
    BY <1>4, <1>6, DrainSound
  <2> QED
    BY <1>4, <1>5, <1>6, <2>1, LessLess
<1>7. CASE ~repairEnabled
  BY <1>4, <1>5, <1>7
<1> QED
  BY <1>6, <1>7

\* No more frames need to go for the fragment.
Fit(a, d) == ~Full(a, d) \/ Late(a, d) \/ Frames(a) = {}

LEMMA FewerFrames ==
  ASSUME NEW a \in Work, NEW b \in Work, NEW s \in Frames(a), Frames(b) \subseteq Frames(a) \ {s}
  PROVE  Cardinality(Frames(b)) <= Cardinality(Frames(a)) - 1
<1>1. IsFiniteSet(Frames(a))
  BY WorkIs
<1>2. Cardinality(Frames(a) \ {s}) = Cardinality(Frames(a)) - 1 /\ IsFiniteSet(Frames(a) \ {s})
  BY <1>1, FS_RemoveElement
<1>3. Cardinality(Frames(b)) <= Cardinality(Frames(a) \ {s})
  BY <1>2, FS_Subset
<1> QED
  BY <1>2, <1>3

LEMMA EvictSound ==
  ASSUME NEW a, NEW r \in Nat, NEW U \in SUBSET Nat, NEW G, Sound(a, r, U, G), NEW d
  PROVE  /\ Sound(Evict(a, d), r, U, G) /\ Less(a, Evict(a, d))
         /\ Fit(a, d) => Evict(a, d) = a
         /\ Fit(a, d) \/ Cardinality(Frames(Evict(a, d))) <= Cardinality(Frames(a)) - 1
<1>1. CASE Fit(a, d)
  BY <1>1, LessSelf DEF Evict, Fit
<1>2. CASE ~Fit(a, d)
  <2> DEFINE s == First(a)
             left == Drop(a, {s})
             b == Drain(Retire(left, s))
  <2>1. a \in Work
    BY DEF Sound, Well
  <2>2. Frames(a) # {} /\ s \in Frames(a)
    BY <1>2, <2>1, FirstIs DEF Fit
  <2>3. Evict(a, d) = IF repairEnabled THEN b ELSE left
    BY <1>2 DEF Evict, Fit
  <2>4. Rest(a, left, {s})
    BY <2>1, <2>2, DropIs
  <2>5. Sound(left, r, U, G) /\ Less(a, left)
    BY <2>2, DropSound
  <2>6. ASSUME repairEnabled
        PROVE  Sound(b, r, U, G) /\ Less(a, b) /\ Frames(b) \subseteq Frames(left)
    <3>1. \A k \in Frames(left) : k > s
      <4>1. \A k \in Frames(a) : s <= k /\ k \in Nat
        BY <2>1, <2>2, FirstIs, WorkIs
      <4> QED
        BY <2>2, <2>4, <4>1 DEF Rest
    <3>2. s \in Nat
      BY <2>1, <2>2, WorkIs
    <3> HIDE DEF s, left
    <3>3. Sound(Retire(left, s), r, U, G) /\ Less(left, Retire(left, s))
      BY <2>5, <2>6, <3>1, <3>2, RetireSound
    <3>4. Sound(b, r, U, G) /\ Less(Retire(left, s), b)
      BY <2>6, <3>3, DrainSound
    <3>5. Less(left, b)
      BY <3>3, <3>4, LessLess
    <3>6. Less(a, b)
      BY <2>5, <3>5, LessLess
    <3> QED
      BY <3>4, <3>5, <3>6 DEF Less
  <2> HIDE DEF s, left, b
  <2>7. Sound(Evict(a, d), r, U, G) /\ Less(a, Evict(a, d)) /\ Frames(Evict(a, d)) \subseteq Frames(left)
    BY <2>3, <2>5, <2>6
  <2>8. Frames(Evict(a, d)) \subseteq Frames(a) \ {s} /\ Evict(a, d) \in Work
    BY <2>4, <2>7 DEF Rest, Sound, Well
  <2> QED
    BY <1>2, <2>1, <2>2, <2>7, <2>8, FewerFrames
<1> QED
  BY <1>1, <1>2

\* The frames dropped for a fragment, one step for each at the most.
LEMMA RoomIs ==
  ASSUME NEW a \in Work, NEW d, NEW A, a \in A, \A b \in A : Evict(b, d) \in A
  PROVE  \E N \in Nat : \E p :
           /\ N = Cardinality(Frames(a))
           /\ p[0] = a /\ \A n \in 1 .. N : p[n] = Evict(p[n - 1], d)
           /\ \A n \in 0 .. N : p[n] \in A
           /\ Room(a, d) = p[N]
<1> DEFINE N == Cardinality(Frames(a))
           IsPass(f) == f = [n \in 0 .. N |-> IF n = 0 THEN a ELSE Evict(f[n - 1], d)]
<1>1. N \in Nat
  BY WorkIs, FS_CardinalityType
<1>2. Room(a, d) = (CHOOSE f : IsPass(f))[N]
  BY DEF Room
<1> HIDE DEF N
<1>3. \E f \in [0 .. N -> A] : IsPass(f)
  <2> DEFINE step == [x \in A \X (1 .. N) |-> Evict(x[1], d)]
  <2>1. step \in [A \X (1 .. N) -> A]
    OBVIOUS
  <2>2. \A b \in A, n \in 1 .. N : step[<<b, n>>] = Evict(b, d)
    OBVIOUS
  <2> HIDE DEF step
  <2>3. PICK f \in [0 .. N -> A] : IsRun(f, a, step, N)
    BY <1>1, <2>1, RunExists
  <2> DEFINE g == [n \in 0 .. N |-> IF n = 0 THEN a ELSE Evict(f[n - 1], d)]
  <2>4. \A n \in 0 .. N : f[n] = g[n]
    <3> TAKE n \in 0 .. N
    <3>1. f[n] = IF n = 0 THEN a ELSE step[<<f[n - 1], n>>]
      BY <2>3 DEF IsRun
    <3>2. n # 0 => n \in 1 .. N /\ f[n - 1] \in A
      BY <1>1
    <3> QED
      BY <2>2, <3>1, <3>2
  <2>5. f = g
    <3>1. DOMAIN g = 0 .. N
      OBVIOUS
    <3> HIDE DEF g
    <3>2. f = [n \in 0 .. N |-> f[n]]
      OBVIOUS
    <3>3. g = [n \in 0 .. N |-> g[n]]
      BY DEF g
    <3> QED
      BY <2>4, <3>2, <3>3
  <2> QED
    BY <2>5
<1> HIDE DEF IsPass
<1>4. IsPass(CHOOSE f : IsPass(f))
  BY <1>3
<1>5. PICK f : IsPass(f) /\ Room(a, d) = f[N]
  BY <1>2, <1>4
<1>6. f[0] = a /\ \A n \in 1 .. N : f[n] = Evict(f[n - 1], d)
  <2>1. 0 \in 0 .. N /\ \A n \in 1 .. N : n \in 0 .. N /\ n # 0
    BY <1>1
  <2>2. \A n \in 0 .. N : f[n] = IF n = 0 THEN a ELSE Evict(f[n - 1], d)
    BY <1>5 DEF IsPass
  <2> QED
    BY <2>1, <2>2
<1> DEFINE T == {n \in 0 .. N : f[n] \in A}
<1>7. 0 \in T
  BY <1>1, <1>6
<1>8. ASSUME NEW n \in 1 .. N, n - 1 \in T PROVE n \in T
  <2>1. n \in Nat /\ n \in 0 .. N
    BY <1>1
  <2> QED
    BY <1>6, <1>8, <2>1
<1> HIDE DEF T
<1>9. 0 .. N \subseteq T
  BY <1>1, <1>7, <1>8, Induction
<1>10. \A n \in 0 .. N : f[n] \in A
  BY <1>9 DEF T
<1> QED
  BY <1>1, <1>5, <1>6, <1>10 DEF N

LEMMA RoomSound ==
  ASSUME NEW a, NEW r \in Nat, NEW U \in SUBSET Nat, NEW G, Sound(a, r, U, G), NEW d
  PROVE  /\ Sound(Room(a, d), r, U, G) /\ Less(a, Room(a, d))
         /\ ~Full(Room(a, d), d) \/ Late(Room(a, d), d)
<1> DEFINE A == {b \in Work : Sound(b, r, U, G) /\ Less(a, b)}
           z == Room(a, d)
<1>0. a \in Work
  BY DEF Sound, Well
<1>1. a \in A
  BY <1>0, LessSelf
<1>2. ASSUME NEW b \in A
      PROVE  /\ Evict(b, d) \in A
             /\ Fit(b, d) => Evict(b, d) = b
             /\ Fit(b, d) \/ Cardinality(Frames(Evict(b, d))) <= Cardinality(Frames(b)) - 1
  <2>1. /\ Sound(Evict(b, d), r, U, G) /\ Less(b, Evict(b, d))
        /\ Fit(b, d) => Evict(b, d) = b
        /\ Fit(b, d) \/ Cardinality(Frames(Evict(b, d))) <= Cardinality(Frames(b)) - 1
    BY EvictSound
  <2>2. Less(a, Evict(b, d))
    BY <2>1, LessLess
  <2> QED
    BY <2>1, <2>2 DEF Sound, Well
<1>3. ASSUME NEW b \in A PROVE b \in Work /\ Sound(b, r, U, G) /\ Less(a, b)
  OBVIOUS
<1> HIDE DEF A
<1> DEFINE IsPass(N, p) ==
        /\ N = Cardinality(Frames(a))
        /\ p[0] = a /\ \A n \in 1 .. N : p[n] = Evict(p[n - 1], d)
        /\ \A n \in 0 .. N : p[n] \in A
        /\ z = p[N]
<1>12. PICK N \in Nat : \E p : IsPass(N, p)
  BY <1>0, <1>1, <1>2, RoomIs
<1>4. PICK p : IsPass(N, p)
  BY <1>12
<1> HIDE DEF z
<1> DEFINE T == {n \in 0 .. N : Fit(p[n], d) \/ Cardinality(Frames(p[n])) <= N - n}
<1>5. 0 \in T
  BY <1>4
<1>6. ASSUME NEW n \in 1 .. N, n - 1 \in T PROVE n \in T
  <2>1. n \in Nat /\ n \in 0 .. N /\ n - 1 \in 0 .. N
    OBVIOUS
  <2> DEFINE b == p[n - 1]
  <2>2. b \in A /\ p[n] = Evict(b, d)
    BY <1>4, <2>1
  <2>3. CASE Fit(b, d)
    <3>1. p[n] = b
      BY <1>2, <2>2, <2>3
    <3> QED
      BY <2>1, <2>3, <3>1
  <2>4. CASE ~Fit(b, d)
    <3>1. Cardinality(Frames(b)) <= N - (n - 1)
      BY <1>6, <2>4
    <3>2. Cardinality(Frames(p[n])) <= Cardinality(Frames(b)) - 1
      BY <1>2, <2>2, <2>4
    <3>3. Cardinality(Frames(b)) \in Nat /\ Cardinality(Frames(p[n])) \in Nat
      <4>1. b \in Work /\ p[n] \in Work
        BY <1>2, <1>3, <2>2
      <4> QED
        BY <4>1, WorkIs, FS_CardinalityType
    <3> HIDE DEF b
    <3>4. Cardinality(Frames(p[n])) <= N - n
      BY <3>1, <3>2, <3>3
    <3> QED
      BY <2>1, <3>4
  <2> QED
    BY <2>3, <2>4
<1> HIDE DEF T
<1>7. 0 .. N \subseteq T
  BY <1>5, <1>6, Induction
<1>8. Fit(z, d) \/ Cardinality(Frames(z)) <= 0
  <2>1. N \in 0 .. N /\ N - N = 0
    OBVIOUS
  <2> QED
    BY <1>4, <1>7, <2>1 DEF T
<1>9. z \in Work /\ Sound(z, r, U, G) /\ Less(a, z)
  <2>1. N \in 0 .. N
    OBVIOUS
  <2> QED
    BY <1>3, <1>4, <2>1
<1>10. Frames(z) = {} => ~Full(z, d)
  <2> HAVE Frames(z) = {}
  <2>1. Received(z.pending) = {}
    BY DEF Received, Frames
  <2>2. z.bytes = 0 /\ Cardinality(Frames(z)) = 0
    BY <1>9, <2>1, FS_EmptySet DEF Sound, Well, Counted
  <2>3. MaxPendingFrames \in Nat \ {0} /\ MaxPendingBytes \in Nat \ {0}
    BY RepairConstants
  <2> QED
    BY <2>2, <2>3 DEF Full
<1>11. Cardinality(Frames(z)) <= 0 => Frames(z) = {}
  <2>1. IsFiniteSet(Frames(z)) /\ Cardinality(Frames(z)) \in Nat
    BY <1>9, WorkIs, FS_CardinalityType
  <2> QED
    BY <2>1, FS_EmptySet
<1> QED
  BY <1>8, <1>9, <1>10, <1>11 DEF Fit, z

-----------------------------------------------------------------------------
(* A fragment arrives.                                                     *)

Media == {d \in [epoch : Nat, seq : Nat \ {0}, count : Nat \ {0}, key : BOOLEAN, index : Nat, again : BOOLEAN] :
            d.index < d.count}

\* A frame of which nothing has arrived, and one of which everything has.
LEMMA NewIs ==
  ASSUME NEW d, d.key \in BOOLEAN, d.count \in Nat \ {0}
  PROVE  /\ NewFrame(d) \in PendingFrame /\ NewFrame(d).frags = {} /\ ~NewFrame(d).told
         /\ NewFrame(d).count = d.count /\ NewFrame(d).key = d.key
<1> DEFINE z == 0
           no == FALSE
           none == {}
           F(n, m) == [key |-> d.key, count |-> d.count, frags |-> none, born |-> z, fresh |-> z,
                       gap |-> n, left |-> n, requested |-> none, asked |-> n, used |-> z,
                       counted |-> m, retried |-> no, told |-> no, hold |-> z, drop |-> n, done |-> n]
<1>1. z \in Int /\ no \in BOOLEAN /\ none \in SUBSET Nat /\ None \in Int /\ MaxAge \in Int
  BY Times
<1>2. none = {} /\ no = FALSE
  OBVIOUS
<1>3. NewFrame(d) = F(None, MaxAge)
  BY DEF NewFrame
<1> HIDE DEF z, no, none
<1>4. F(None, MaxAge) \in FrameRecord
  BY <1>1 DEF FrameRecord
<1>5. /\ F(None, MaxAge).frags = {} /\ ~F(None, MaxAge).told
      /\ F(None, MaxAge).count = d.count /\ F(None, MaxAge).key = d.key
  BY <1>2
<1> HIDE DEF F
<1>6. IsFiniteSet({})
  BY FS_EmptySet
<1> QED
  BY <1>3, <1>4, <1>5, <1>6 DEF PendingFrame

LEMMA FinishedIs ==
  ASSUME NEW f \in PendingFrame
  PROVE  Finished(f) \in PendingFrame /\ Alike(Finished(f), f)
<1> DEFINE n == NewFrame(f)
           z == 0
           x == f.frags
           y == f.told
           g == [n EXCEPT !.frags = x, !.told = y, !.done = z]
<1>1. /\ f.key \in BOOLEAN /\ f.count \in Nat \ {0} /\ x \in SUBSET Nat /\ y \in BOOLEAN
      /\ IsFiniteSet(x) /\ x \subseteq 0 .. (f.count - 1)
  BY FrameIs
<1>2. n \in PendingFrame /\ n.count = f.count /\ n.key = f.key
  BY <1>1, NewIs
<1>3. Finished(f) = g
  BY DEF Finished
<1>4. z \in Int /\ n \in FrameRecord
  BY <1>2 DEF PendingFrame
<1>5. x = f.frags /\ y = f.told
  OBVIOUS
<1> HIDE DEF n, z, x, y
<1>6. g \in FrameRecord
  BY <1>1, <1>4 DEF FrameRecord
<1>7. g.frags = x /\ g.told = y /\ g.count = n.count /\ g.key = n.key
  BY <1>4 DEF FrameRecord
<1> HIDE DEF g
<1> QED
  BY <1>1, <1>2, <1>3, <1>5, <1>6, <1>7 DEF PendingFrame, Alike

\* One more fragment.
LEMMA GrownIs ==
  ASSUME NEW f \in PendingFrame, NEW i \in Nat, i < f.count, i \notin f.frags
  PROVE  LET g == [f EXCEPT !.frags = @ \cup {i}, !.fresh = 0]
         IN /\ g \in PendingFrame /\ g.frags = f.frags \cup {i} /\ g.count = f.count
            /\ g.key = f.key /\ g.told = f.told
<1> DEFINE x == f.frags \cup {i}
           z == 0
           g == [f EXCEPT !.frags = x, !.fresh = z]
<1>1. f \in FrameRecord /\ f.frags \in SUBSET Nat /\ IsFiniteSet(f.frags)
      /\ f.frags \subseteq 0 .. (f.count - 1) /\ f.count \in Nat
  BY FrameIs DEF PendingFrame
<1>2. x \in SUBSET Nat /\ x \subseteq 0 .. (f.count - 1) /\ IsFiniteSet(x) /\ z \in Int
  <2>1. IsFiniteSet(x)
    BY <1>1, FS_AddElement
  <2>2. i \in 0 .. (f.count - 1)
    BY <1>1
  <2> QED
    BY <1>1, <2>1, <2>2
<1>3. x = f.frags \cup {i}
  OBVIOUS
<1>4. [f EXCEPT !.frags = @ \cup {i}, !.fresh = 0] = g
  OBVIOUS
<1> HIDE DEF x, z
<1>5. g \in FrameRecord
  BY <1>1, <1>2 DEF FrameRecord
<1>6. g.frags = x /\ g.count = f.count /\ g.key = f.key /\ g.told = f.told
  BY <1>1 DEF FrameRecord
<1> HIDE DEF g
<1> QED
  BY <1>2, <1>3, <1>4, <1>5, <1>6 DEF PendingFrame

\* A frame that lacks a fragment is not complete.
LEMMA LackingIs ==
  ASSUME NEW f \in PendingFrame, NEW i \in Nat, i < f.count, i \notin f.frags
  PROVE  ~Whole(f)
<1>1. f.count \in Nat \ {0} /\ f.frags \subseteq 0 .. (f.count - 1) /\ IsFiniteSet(f.frags)
  BY FrameIs
<1>2. i \in 0 .. (f.count - 1)
  BY <1>1
<1>3. IsFiniteSet(0 .. (f.count - 1)) /\ Cardinality(0 .. (f.count - 1)) = f.count
  <2>1. 0 \in Int /\ f.count - 1 \in Int /\ ~(0 > f.count - 1) /\ (f.count - 1) - 0 + 1 = f.count
    BY <1>1
  <2> QED
    BY <2>1, FS_Interval
<1>4. Cardinality((0 .. (f.count - 1)) \ {i}) = f.count - 1 /\ IsFiniteSet((0 .. (f.count - 1)) \ {i})
  <2> DEFINE I == 0 .. (f.count - 1)
  <2>1. i \in I /\ IsFiniteSet(I) /\ Cardinality(I) = f.count
    BY <1>2, <1>3
  <2> HIDE DEF I
  <2>2. Cardinality(I \ {i}) = f.count - 1 /\ IsFiniteSet(I \ {i})
    BY <2>1, FS_RemoveElement
  <2> QED
    BY <2>2 DEF I
<1>5. f.frags \subseteq (0 .. (f.count - 1)) \ {i}
  BY <1>1
<1>6. Cardinality(f.frags) <= f.count - 1 /\ Cardinality(f.frags) \in Nat
  BY <1>1, <1>4, <1>5, FS_Subset, FS_CardinalityType
<1> QED
  BY <1>1, <1>6 DEF Whole

\* The fragment is new, and of the frame as it is known.
New(a, d) ==
  d.seq \in Frames(a) => a.pending[d.seq].count = d.count /\ d.index \notin a.pending[d.seq].frags

LEMMA StoredIs ==
  ASSUME NEW a \in Work, NEW d \in Media, New(a, d)
  PROVE  LET b == Stored(a, d)
         IN /\ b \in Work /\ b.epoch = a.epoch /\ b.latest = a.latest /\ b.retired = a.retired
            /\ b.ask = a.ask /\ b.given = a.given /\ b.dropped = a.dropped
            /\ b.bytes = a.bytes + 1
            /\ Frames(b) = Frames(a) \cup {d.seq}
            /\ \A s \in Frames(a) \ {d.seq} : b.pending[s] = a.pending[s]
            /\ b.pending[d.seq].told => d.seq \in Frames(a) /\ a.pending[d.seq].told
            /\ d.seq \in Frames(a) => ~Whole(a.pending[d.seq])
            /\ Received(b.pending) = Received(a.pending) \cup {<<d.seq, d.index>>}
            /\ <<d.seq, d.index>> \notin Received(a.pending)
<1> DEFINE s0 == d.seq
           old == IF d.seq \in Frames(a) THEN a.pending[d.seq] ELSE NewFrame(d)
           f == [old EXCEPT !.frags = @ \cup {d.index}, !.fresh = 0]
           kept == IF Whole(f) THEN Finished(f) ELSE f
           S == Frames(a) \cup {d.seq}
           p == [s \in S |-> IF s = d.seq THEN kept ELSE a.pending[s]]
           n == a.bytes + 1
           b == [a EXCEPT !.pending = p, !.bytes = n]
<1>1. /\ d.seq \in Nat \ {0} /\ d.count \in Nat \ {0} /\ d.key \in BOOLEAN /\ d.index \in Nat
      /\ d.index < d.count
  BY DEF Media
<1>2. Stored(a, d) = b
  BY DEF Stored
<1>3. /\ old \in PendingFrame /\ old.count = d.count /\ d.index \notin old.frags
      /\ old.told => d.seq \in Frames(a) /\ a.pending[d.seq].told
      /\ \A i : i \in old.frags <=> d.seq \in Frames(a) /\ i \in a.pending[d.seq].frags
  <2>1. CASE d.seq \in Frames(a)
    BY <2>1, WorkIs DEF New
  <2>2. CASE d.seq \notin Frames(a)
    <3>1. /\ NewFrame(d) \in PendingFrame /\ NewFrame(d).frags = {} /\ ~NewFrame(d).told
          /\ NewFrame(d).count = d.count
      BY <1>1, NewIs
    <3> QED
      BY <2>2, <3>1
  <2> QED
    BY <2>1, <2>2
<1>4. d.seq \in Frames(a) => ~Whole(a.pending[d.seq])
  BY <1>1, <1>3, LackingIs
<1> HIDE DEF old
<1>5. f \in PendingFrame /\ f.frags = old.frags \cup {d.index} /\ f.told = old.told
  BY <1>1, <1>3, GrownIs
<1> HIDE DEF f
<1>6. kept \in PendingFrame /\ kept.frags = old.frags \cup {d.index} /\ kept.told = old.told
  <2>1. Finished(f) \in PendingFrame /\ Alike(Finished(f), f)
    BY <1>5, FinishedIs
  <2> QED
    BY <1>5, <2>1 DEF Alike
<1> HIDE DEF kept
<1>7. p \in Pendings /\ DOMAIN p = S
  <2>1. S \in SUBSET (Nat \ {0}) /\ IsFiniteSet(S)
    <3>1. Frames(a) \subseteq Nat \ {0} /\ IsFiniteSet(Frames(a))
      BY WorkIs
    <3>2. IsFiniteSet(S)
      BY <3>1, FS_AddElement
    <3> QED
      BY <1>1, <3>1, <3>2
  <2>2. \A s \in S : s # d.seq => s \in Frames(a) /\ a.pending[s] \in PendingFrame
    BY WorkIs
  <2> HIDE DEF S
  <2>3. p \in [S -> PendingFrame]
    BY <1>6, <2>2
  <2> QED
    BY <2>1, <2>3, InPendings
<1>8. /\ p[d.seq] = kept /\ \A s \in Frames(a) \ {d.seq} : p[s] = a.pending[s]
  OBVIOUS
<1>9. n \in Int
  BY DEF Work
<1> HIDE DEF p
<1>10. b \in Work
  <2> HIDE DEF n
  <2> QED
    BY <1>7, <1>9 DEF Work
<1>11. /\ b.pending = p /\ b.bytes = n /\ b.epoch = a.epoch /\ b.latest = a.latest
       /\ b.retired = a.retired /\ b.ask = a.ask /\ b.given = a.given /\ b.dropped = a.dropped
  BY DEF Work
<1> HIDE DEF b
<1>12. Received(p) = Received(a.pending) \cup {<<d.seq, d.index>>}
  <2>1. ASSUME NEW s, NEW i
        PROVE  <<s, i>> \in Received(p) <=>
                 <<s, i>> \in Received(a.pending) \/ (s = d.seq /\ i = d.index)
    <3>1. <<s, i>> \in Received(p) <=> s \in S /\ i \in p[s].frags
      BY <1>7, ReceivedHas
    <3>2. <<s, i>> \in Received(a.pending) <=> s \in Frames(a) /\ i \in a.pending[s].frags
      BY ReceivedHas DEF Frames
    <3>3. CASE s = d.seq
      BY <1>3, <1>6, <1>8, <3>1, <3>2, <3>3
    <3>4. CASE s # d.seq
      BY <1>8, <3>1, <3>2, <3>4
    <3> QED
      BY <3>3, <3>4
  <2>2. ASSUME NEW x \in Received(p) PROVE x \in Received(a.pending) \cup {<<d.seq, d.index>>}
    <3>1. x = <<x[1], x[2]>>
      BY ReceivedPairs
    <3> QED
      BY <2>1, <3>1
  <2>3. ASSUME NEW x \in Received(a.pending) PROVE x \in Received(p)
    <3>1. x = <<x[1], x[2]>>
      BY ReceivedPairs
    <3> QED
      BY <2>1, <3>1
  <2> QED
    BY <2>1, <2>2, <2>3
<1>13. <<d.seq, d.index>> \notin Received(a.pending)
  BY <1>3, ReceivedHas DEF Frames
<1>14. Frames(b) = S
  BY <1>7, <1>11 DEF Frames
<1> QED
  BY <1>2, <1>3, <1>4, <1>6, <1>8, <1>10, <1>11, <1>12, <1>13, <1>14

\* Within the limits of the assembler.
Fits(a) == a.bytes <= MaxPendingBytes /\ Cardinality(Frames(a)) <= MaxPendingFrames

\* A part of what fits, fits.
LEMMA LessFits ==
  ASSUME NEW a \in Work, NEW b \in Work, Counted(a), Counted(b), Frames(b) \subseteq Frames(a),
         \A s \in Frames(b) : b.pending[s].frags = a.pending[s].frags,
         Fits(a)
  PROVE  Fits(b)
<1>1. Received(b.pending) \subseteq Received(a.pending)
  BY DEF Received, Frames
<1>2. a.pending \in Pendings /\ b.pending \in Pendings
  BY DEF Work
<1>3. IsFiniteSet(Received(a.pending)) /\ IsFiniteSet(Received(b.pending))
  BY <1>2, ReceivedFinite
<1>4. /\ Cardinality(Received(b.pending)) <= Cardinality(Received(a.pending))
      /\ Cardinality(Received(b.pending)) \in Nat /\ Cardinality(Received(a.pending)) \in Nat
  BY <1>1, <1>3, FS_Subset, FS_CardinalityType
<1>5. IsFiniteSet(Frames(a)) /\ IsFiniteSet(Frames(b))
  BY WorkIs
<1>6. /\ Cardinality(Frames(b)) <= Cardinality(Frames(a))
      /\ Cardinality(Frames(b)) \in Nat /\ Cardinality(Frames(a)) \in Nat
  BY <1>5, FS_Subset, FS_CardinalityType
<1>7. MaxPendingBytes \in Nat /\ MaxPendingFrames \in Nat
  BY RepairConstants
<1> QED
  BY <1>4, <1>6, <1>7 DEF Fits, Counted

LEMMA OneMore ==
  ASSUME NEW S, IsFiniteSet(S), NEW x, x \notin S
  PROVE  Cardinality(S \cup {x}) = Cardinality(S) + 1
BY FS_AddElement

LEMMA StoredSound ==
  ASSUME NEW a, NEW r \in Nat, NEW U \in SUBSET Nat, NEW G, Sound(a, r, U, G),
         NEW d \in Media, New(a, d), d.seq > a.retired, ~Full(a, d), Fits(a)
  PROVE  /\ Sound(Stored(a, d), r, U, G) /\ Fits(Stored(a, d))
         /\ d.seq \in Frames(Stored(a, d)) /\ Stored(a, d).retired = a.retired
<1> DEFINE b == Stored(a, d)
           x == <<d.seq, d.index>>
<1>1. a \in Work
  BY DEF Sound, Well
<1>2. /\ b \in Work /\ b.epoch = a.epoch /\ b.latest = a.latest /\ b.retired = a.retired
      /\ b.ask = a.ask /\ b.given = a.given /\ b.dropped = a.dropped
      /\ b.bytes = a.bytes + 1
      /\ Frames(b) = Frames(a) \cup {d.seq}
      /\ \A s \in Frames(a) \ {d.seq} : b.pending[s] = a.pending[s]
      /\ b.pending[d.seq].told => d.seq \in Frames(a) /\ a.pending[d.seq].told
      /\ d.seq \in Frames(a) => ~Whole(a.pending[d.seq])
      /\ Received(b.pending) = Received(a.pending) \cup {x}
      /\ x \notin Received(a.pending)
  BY <1>1, StoredIs
<1> HIDE DEF b, x
<1>3. Counted(b)
  <2>1. IsFiniteSet(Received(a.pending))
    BY <1>1, ReceivedFinite DEF Work
  <2>2. Cardinality(Received(a.pending) \cup {x}) = Cardinality(Received(a.pending)) + 1
    BY <1>2, <2>1, OneMore
  <2> QED
    BY <1>2, <2>2 DEF Sound, Well, Counted
<1>4. Well(b, r)
  <2>1. \A s \in Frames(b) : ~b.pending[s].told
    BY <1>2 DEF Sound, Well
  <2> QED
    BY <1>2, <1>3, <2>1 DEF Sound, Well
<1>5. Above(b)
  BY <1>2 DEF Sound, Above
<1>6. Keyed(a) \subseteq Keyed(b)
  BY <1>2 DEF Keyed
<1>7. Settles(b, U, G)
  <2> SUFFICES ASSUME ~b.ask, NEW s \in U \cup b.dropped PROVE Settled(b, G, s)
    BY DEF Settles
  <2>1. Settled(a, G, s)
    BY <1>2 DEF Sound, Settles
  <2> QED
    BY <1>2, <1>6, <2>1 DEF Settled
<1>8. Fits(b)
  <2>1. b.bytes <= MaxPendingBytes
    <3>1. a.bytes \in Int /\ MaxPendingBytes \in Int /\ ~(a.bytes + 1 > MaxPendingBytes)
      BY <1>1, RepairConstants DEF Work, Full
    <3> QED
      BY <1>2, <3>1
  <2>2. IsFiniteSet(Frames(a)) /\ Cardinality(Frames(a)) \in Nat /\ MaxPendingFrames \in Nat
    BY <1>1, WorkIs, FS_CardinalityType, RepairConstants
  <2>3. CASE d.seq \in Frames(a)
    <3>1. Frames(b) = Frames(a)
      BY <1>2, <2>3
    <3> QED
      BY <2>1, <3>1 DEF Fits
  <2>4. CASE d.seq \notin Frames(a)
    <3>1. ~(Cardinality(Frames(a)) >= MaxPendingFrames)
      BY <2>4 DEF Full
    <3>2. Cardinality(Frames(a) \cup {d.seq}) = Cardinality(Frames(a)) + 1
      BY <2>2, <2>4, OneMore
    <3> QED
      BY <1>2, <2>1, <2>2, <3>1, <3>2 DEF Fits
  <2> QED
    BY <2>3, <2>4
<1> QED
  BY <1>2, <1>4, <1>5, <1>7, <1>8 DEF Sound, b

LEMMA RepairedSound ==
  ASSUME NEW a, NEW r \in Nat, NEW U \in SUBSET Nat, NEW G, Sound(a, r, U, G), repairEnabled,
         NEW s \in Frames(a)
  PROVE  Sound(Repaired(a, s), r, U, G) /\ Less(a, Repaired(a, s))
<1> DEFINE f == a.pending[s]
           older == {o \in Frames(a) : o < s}
           exposed == Exposed(a, s)
           b == IF Whole(f) THEN IF f.key THEN Drop(a, older) ELSE Ticked(exposed)
                ELSE IF \E i \in Lacks(f) : i < Max(f.frags) THEN BeginGap(a, s, Max(f.frags)) ELSE a
<1>1. a \in Work
  BY DEF Sound, Well
<1>2. Repaired(a, s) = Drain(b)
  BY DEF Repaired
<1>3. Sound(Drop(a, older), r, U, G) /\ Less(a, Drop(a, older))
  <2>1. older \in SUBSET Frames(a)
    OBVIOUS
  <2> HIDE DEF older
  <2> QED
    BY <2>1, DropSound
<1>4. Sound(Ticked(exposed), r, U, G) /\ Less(a, Ticked(exposed))
  <2>1. Keeps(a, exposed)
    BY <1>1, ExposedIs
  <2> HIDE DEF exposed
  <2>2. Sound(exposed, r, U, G) /\ Less(a, exposed)
    BY <1>1, <2>1, KeepsSound
  <2>3. Sound(Ticked(exposed), r, U, G) /\ Less(exposed, Ticked(exposed))
    BY <2>2, TickedSound
  <2> QED
    BY <2>2, <2>3, LessLess
<1>5. /\ Sound(BeginGap(a, s, Max(f.frags)), r, U, G)
      /\ Less(a, BeginGap(a, s, Max(f.frags)))
  <2>1. Keeps(a, BeginGap(a, s, Max(f.frags)))
    BY <1>1, BeginGapIs
  <2> QED
    BY <1>1, <2>1, KeepsSound
<1>6. Less(a, a)
  BY LessSelf
<1> HIDE DEF f, older, exposed
<1>7. Sound(b, r, U, G) /\ Less(a, b)
  BY <1>3, <1>4, <1>5, <1>6
<1> HIDE DEF b
<1>8. Sound(Drain(b), r, U, G) /\ Less(b, Drain(b))
  BY <1>7, DrainSound
<1> QED
  BY <1>2, <1>7, <1>8, LessLess

\* Frames are left as they were, or gone.
Part(a, b) == /\ Frames(b) \subseteq Frames(a) /\ b.epoch = a.epoch
              /\ \A s \in Frames(b) : b.pending[s].frags = a.pending[s].frags

LEMMA UnrepairedSound ==
  ASSUME NEW a, NEW r \in Nat, NEW U \in SUBSET Nat, NEW G, Sound(a, r, U, G), NEW s \in Frames(a)
  PROVE  Sound(Unrepaired(a, s), r, U, G) /\ Part(a, Unrepaired(a, s))
<1> DEFINE older == {o \in Frames(a) : o < s}
           b == Deliver(a, {s})
           c == Drop(b, older)
           t == Drop(Told(b, older), older)
<1>1. a \in Work
  BY DEF Sound, Well
<1>2. s \in Nat /\ \A o \in Frames(a) : o \in Nat
  BY <1>1, WorkIs
<1>3. /\ Well(b, r) /\ Settles(b, U, G) /\ Rest(a, b, {s}) /\ b.retired = s
  <2>1. {s} \in SUBSET Frames(a) /\ {s} # {} /\ \A o \in {s} : o > a.retired
    BY DEF Sound, Above
  <2>2. Well(a, r) /\ Settles(a, U, G)
    BY DEF Sound
  <2>3. /\ Well(Deliver(a, {s}), r) /\ Settles(Deliver(a, {s}), U, G) /\ Rest(a, Deliver(a, {s}), {s})
        /\ Deliver(a, {s}).retired = Max({s}) /\ Max({s}) \in {s}
    BY <2>1, <2>2, DeliverSound
  <2> QED
    BY <2>3
<1>4. a.pending[s].key => \E g \in b.given : g.epoch = b.epoch /\ g.seq = s /\ g.key
  <2>1. {s} \in SUBSET Frames(a) /\ {s} # {}
    OBVIOUS
  <2>2. b.given = a.given \cup {[epoch |-> a.epoch, seq |-> o, key |-> a.pending[o].key] : o \in {s}}
    BY <1>1, <2>1, DeliverIs
  <2> DEFINE g == [epoch |-> a.epoch, seq |-> s, key |-> a.pending[s].key]
  <2>3. g \in b.given
    BY <2>2
  <2> QED
    BY <1>3, <2>3 DEF Rest
<1>5. older \in SUBSET Frames(b) /\ b \in Work
  BY <1>2, <1>3 DEF Rest
<1>6. \A o \in Frames(b) \ older : o > s
  BY <1>2, <1>3 DEF Rest
<1>7. \A o \in older : o < s
  OBVIOUS
<1> HIDE DEF older, b
<1>8. Rest(b, c, older) /\ c.latest = b.latest /\ c.retired = b.retired /\ c.given = b.given
  BY <1>5, DropIs
<1>9. Settles(c, U, G)
  BY <1>3, <1>5, DropSettles DEF Well
<1>10. Sound(c, r, U, G) /\ Part(a, c)
  <2>1. Well(c, r)
    BY <1>3, <1>8 DEF Well, Rest
  <2>2. Above(c)
    BY <1>3, <1>6, <1>8 DEF Above, Rest
  <2>3. Part(a, c)
    BY <1>3, <1>8 DEF Part, Rest
  <2> QED
    BY <1>9, <2>1, <2>2, <2>3 DEF Sound
<1>11. /\ Rest(b, t, older) /\ t.latest = b.latest /\ t.retired = b.retired
       /\ t.given = b.given /\ t.dropped = b.dropped \cup older /\ (b.ask => t.ask)
  <2>1. older \in SUBSET older
    OBVIOUS
  <2> QED
    BY <1>5, <2>1, ToldDropIs
<1>12. ASSUME a.pending[s].key PROVE Sound(t, r, U, G) /\ Part(a, t)
  <2> HIDE DEF t
  <2>1. Well(t, r)
    BY <1>3, <1>11 DEF Well, Rest
  <2>2. Above(t)
    BY <1>3, <1>6, <1>11 DEF Above, Rest
  <2>3. Part(a, t)
    BY <1>3, <1>11 DEF Part, Rest
  <2>4. PICK g \in t.given : g.epoch = t.epoch /\ g.seq = s /\ g.key
    BY <1>4, <1>11, <1>12 DEF Rest
  <2>5. ASSUME NEW x \in Nat, x < s PROVE Settled(t, G, x)
    BY <1>2, <2>4, <2>5 DEF Settled
  <2>6. Settles(t, U, G)
    <3> SUFFICES ASSUME ~t.ask, NEW x \in U \cup t.dropped PROVE Settled(t, G, x)
      BY DEF Settles
    <3>1. CASE x \in older
      <4>1. x \in Nat
        BY <1>5, <3>1, WorkIs
      <4> QED
        BY <1>7, <2>5, <3>1, <4>1
    <3>2. CASE x \notin older
      <4>1. Settled(b, G, x) /\ x \in Nat
        BY <1>3, <1>5, <1>11, <3>2 DEF Settles, Work
      <4>2. CASE \E h \in G \cup b.given : h.epoch = b.epoch /\ h.seq > x /\ h.key
        BY <1>11, <4>2 DEF Settled, Rest
      <4>3. CASE \E k \in Keyed(b) : k > x
        <5>1. PICK k \in Keyed(b) : k > x
          BY <4>3
        <5>2. CASE k \in older
          <6>1. k \in Nat
            BY <1>5, <5>2, WorkIs
          <6>2. x < s
            BY <1>2, <1>7, <4>1, <5>1, <5>2, <6>1
          <6> QED
            BY <2>5, <4>1, <6>2
        <5>3. CASE k \notin older
          <6>1. k \in Keyed(t)
            BY <1>11, <5>1, <5>3 DEF Keyed, Rest
          <6> QED
            BY <5>1, <6>1 DEF Settled
        <5> QED
          BY <5>2, <5>3
      <4> QED
        BY <4>1, <4>2, <4>3 DEF Settled
    <3> QED
      BY <3>1, <3>2
  <2> QED
    BY <2>1, <2>2, <2>3, <2>6 DEF Sound
<1>13. Unrepaired(a, s) = IF Whole(a.pending[s]) THEN IF a.pending[s].key THEN t ELSE c ELSE a
  BY DEF Unrepaired, t, c, b, older
<1>14. Part(a, a)
  BY DEF Part
<1> HIDE DEF t, c
<1> QED
  BY <1>10, <1>12, <1>13, <1>14

LEMMA LessPart == ASSUME NEW a, NEW b, Less(a, b) PROVE Part(a, b)
BY DEF Less, Part, Alike

LEMMA PartFits ==
  ASSUME NEW a, NEW b, NEW r, NEW U, NEW G, Sound(a, r, U, G), Sound(b, r, U, G), Part(a, b), Fits(a)
  PROVE  Fits(b)
BY LessFits DEF Sound, Well, Part

LEMMA KeepsFits ==
  ASSUME NEW a, NEW b, Keeps(a, b), Fits(a)
  PROVE  Fits(b)
BY DEF Keeps, Fits

\* Nothing older than what was retired is stored.
LEMMA NotLate ==
  ASSUME NEW a \in Work, NEW d \in Media, ~Late(a, d), ~repairEnabled => d.seq > a.retired
  PROVE  d.seq > a.retired
<1>1. a.retired \in Nat /\ d.seq \in Nat \ {0}
  BY DEF Work, Media
<1> QED
  BY <1>1 DEF Late

LEMMA AcceptedSound ==
  ASSUME NEW a, NEW r \in Nat, NEW U \in SUBSET Nat, NEW G, Sound(a, r, U, G), Fits(a),
         NEW d \in Media, d.seq > a.retired
  PROVE  /\ Sound(Accepted(a, d), r, U, G) /\ Fits(Accepted(a, d))
         /\ Accepted(a, d).epoch = a.epoch
<1> DEFINE ticked == Ticked(a)
           room == Room(ticked, d)
           hurried == Hurried(room, d)
           stored == Stored(hurried, d)
           known == IF d.seq \in Frames(ticked) THEN ticked.pending[d.seq] ELSE NewFrame(d)
           early == Late(ticked, d) \/ known.count # d.count \/ d.index \in known.frags
           result == IF repairEnabled THEN Repaired(stored, d.seq) ELSE Unrepaired(stored, d.seq)
<1>1. Sound(ticked, r, U, G) /\ Less(a, ticked)
  BY TickedSound
<1>2. Fits(ticked) /\ ticked.epoch = a.epoch
  BY <1>1, LessPart, PartFits DEF Less
<1>3. Accepted(a, d) = IF early THEN ticked ELSE IF Late(room, d) THEN room ELSE result
  BY DEF Accepted
<1> HIDE DEF ticked
<1>4. /\ Sound(room, r, U, G) /\ Less(ticked, room)
      /\ ~Full(room, d) \/ Late(room, d)
  BY <1>1, RoomSound
<1> HIDE DEF room
<1>5. Fits(room) /\ room.epoch = a.epoch
  BY <1>1, <1>2, <1>4, LessPart, PartFits DEF Less
<1>6. ASSUME ~early, ~Late(room, d) PROVE Sound(result, r, U, G) /\ Fits(result) /\ result.epoch = a.epoch
  <2>1. room \in Work
    BY <1>4 DEF Sound, Well
  <2>2. Keeps(room, hurried)
    BY <2>1, HurriedIs
  <2> HIDE DEF hurried
  <2>3. Sound(hurried, r, U, G)
    BY <1>4, <2>1, <2>2, KeepsSound
  <2>4. Fits(hurried) /\ ~Full(hurried, d)
    BY <1>4, <1>5, <1>6, <2>2, KeepsFits DEF Full, Keeps
  <2>5. d.seq > hurried.retired
    <3>1. ~repairEnabled => room.retired = a.retired
      BY <1>1, <1>4 DEF Less
    <3>2. d.seq > room.retired
      BY <1>6, <2>1, <3>1, NotLate
    <3> QED
      BY <2>2, <3>2 DEF Keeps
  <2>6. New(hurried, d)
    BY <1>4, <1>6, <2>2 DEF New, Keeps, Less, Alike
  <2>7. Sound(stored, r, U, G) /\ Fits(stored) /\ d.seq \in Frames(stored)
    BY <2>3, <2>4, <2>5, <2>6, StoredSound
  <2>8. stored.epoch = a.epoch
    <3>1. hurried \in Work
      BY <2>3 DEF Sound, Well
    <3>2. stored.epoch = hurried.epoch
      BY <2>6, <3>1, StoredIs
    <3> QED
      BY <1>5, <2>2, <3>2 DEF Keeps
  <2> HIDE DEF stored
  <2>9. Sound(result, r, U, G) /\ Part(stored, result)
    <3>1. CASE repairEnabled
      BY <2>7, <3>1, RepairedSound, LessPart
    <3>2. CASE ~repairEnabled
      BY <2>7, <3>2, UnrepairedSound
    <3> QED
      BY <3>1, <3>2
  <2> HIDE DEF result
  <2> QED
    BY <2>7, <2>8, <2>9, PartFits DEF Part
<1> HIDE DEF early, result
<1> QED
  BY <1>1, <1>2, <1>3, <1>4, <1>5, <1>6

LEMMA HeardSound ==
  ASSUME NEW a, NEW r \in Nat, NEW U \in SUBSET Nat, NEW G, Sound(a, r, U, G), Fits(a), NEW d \in Media
  PROVE  /\ Sound(Heard(d, a), r, U, G) /\ Fits(Heard(d, a))
         /\ Heard(d, a).epoch = a.epoch
<1> DEFINE resumed == IF repairEnabled THEN Resumed(a) ELSE a
           x == 0
           y == IF d.again THEN 0 ELSE resumed.repair
           noted == [resumed EXCEPT !.arrival = x, !.repair = y]
<1>1. a \in Work
  BY DEF Sound, Well
<1>2. Keeps(a, resumed)
  BY <1>1, ResumedIs, KeepsSelf
<1>3. Heard(d, a) = IF d.seq <= Most(noted.latest, noted.retired) THEN noted ELSE Accepted(noted, d)
  BY DEF Heard
<1> HIDE DEF resumed
<1>4. resumed \in Work
  BY <1>2 DEF Keeps
<1>5. x \in Int /\ y \in Int
  BY <1>4 DEF Work
<1> HIDE DEF x, y
<1>6. noted \in Work
  BY <1>4, <1>5 DEF Work
<1>7. /\ noted.pending = resumed.pending /\ noted.bytes = resumed.bytes
      /\ noted.epoch = resumed.epoch /\ noted.latest = resumed.latest
      /\ noted.retired = resumed.retired /\ noted.ask = resumed.ask
      /\ noted.given = resumed.given /\ noted.dropped = resumed.dropped
  BY <1>4 DEF Work
<1> HIDE DEF noted
<1>8. Keeps(a, noted)
  BY <1>2, <1>6, <1>7 DEF Keeps, Frames
<1>9. Sound(noted, r, U, G) /\ Fits(noted) /\ noted.epoch = a.epoch
  BY <1>1, <1>8, KeepsSound, KeepsFits DEF Keeps
<1>10. ASSUME ~(d.seq <= Most(noted.latest, noted.retired)) PROVE d.seq > noted.retired
  <2>1. noted.latest \in Nat /\ noted.retired \in Nat /\ d.seq \in Nat
    BY <1>6 DEF Work, Media
  <2> QED
    BY <1>10, <2>1 DEF Most
<1> QED
  BY <1>3, <1>9, <1>10, AcceptedSound

-----------------------------------------------------------------------------
(* The ring of sent frames.                                                *)

Sent == [epoch : Nat, seq : Nat \ {0}, count : Nat \ {0}, resent : SUBSET Nat]

LEMMA SentAt ==
  ASSUME NEW s \in Seq(Sent)
  PROVE  /\ Len(s) \in Nat /\ DOMAIN s = 1 .. Len(s)
         /\ \A i \in 1 .. Len(s) : s[i] \in Sent /\ s[i].count \in Nat \ {0}
<1>1. /\ Len(s) \in Nat /\ DOMAIN s = 1 .. Len(s)
      /\ \A i \in DOMAIN s : s[i] \in Sent
  OBVIOUS
<1> QED
  BY <1>1 DEF Sent

LEMMA FragmentIn ==
  ASSUME NEW s \in Seq(Sent), NEW i, NEW k
  PROVE  <<i, k>> \in Fragments(s) <=> i \in 1 .. Len(s) /\ k \in 1 .. s[i].count
BY SentAt DEF Fragments

LEMMA FragmentPairs ==
  ASSUME NEW s, NEW x \in Fragments(s)
  PROVE  x = <<x[1], x[2]>>
BY DEF Fragments

LEMMA RowSize ==
  ASSUME NEW i, NEW n \in Nat
  PROVE  IsFiniteSet({i} \X (1 .. n)) /\ Cardinality({i} \X (1 .. n)) = n
<1> DEFINE S == {i}
           T == 1 .. n
<1>1. IsFiniteSet(S) /\ Cardinality(S) = 1
  BY FS_Singleton
<1>2. IsFiniteSet(T) /\ Cardinality(T) = n
  BY FS_Interval
<1>3. 1 * n = n
  OBVIOUS
<1> HIDE DEF S, T
<1>4. IsFiniteSet(S \X T) /\ Cardinality(S \X T) = Cardinality(S) * Cardinality(T)
  BY <1>1, <1>2, FS_Product
<1>5. IsFiniteSet(S \X T) /\ Cardinality(S \X T) = n
  BY <1>1, <1>2, <1>3, <1>4
<1> QED
  BY <1>5 DEF S, T

LEMMA FragmentsFinite ==
  ASSUME NEW s \in Seq(Sent)
  PROVE  IsFiniteSet(Fragments(s)) /\ BytesOf(s) \in Nat
<1> DEFINE Row(i) == {i} \X (1 .. s[i].count)
           rows == {Row(i) : i \in DOMAIN s}
           f == [i \in DOMAIN s |-> Row(i)]
<1>1. Len(s) \in Nat /\ DOMAIN s = 1 .. Len(s) /\ \A i \in DOMAIN s : s[i].count \in Nat
  BY SentAt
<1>2. IsFiniteSet(DOMAIN s)
  BY <1>1, FS_Interval
<1>3. IsFiniteSet(rows)
  <2>1. f \in Surjection(DOMAIN s, rows)
    BY DEF Surjection
  <2> QED
    BY <1>2, <2>1, FS_Surjection
<1>4. ASSUME NEW i \in DOMAIN s PROVE IsFiniteSet(Row(i))
  BY <1>1, RowSize
<1> HIDE DEF Row
<1>5. \A T \in rows : IsFiniteSet(T)
  BY <1>4
<1>6. IsFiniteSet(UNION rows)
  <2> HIDE DEF rows
  <2> QED
    BY <1>3, <1>5, FS_UNION
<1>7. IsFiniteSet(Fragments(s))
  BY <1>6 DEF Fragments, Row
<1> QED
  BY <1>7, FS_CardinalityType DEF BytesOf

\* The bytes of a sequence are those of its front and of its rest.
LEMMA Joined ==
  ASSUME NEW s \in Seq(Sent), NEW h \in Seq(Sent), NEW t \in Seq(Sent), Len(s) = Len(h) + Len(t),
         \A i \in 1 .. Len(h) : s[i].count = h[i].count,
         \A i \in 1 .. Len(t) : s[Len(h) + i].count = t[i].count
  PROVE  BytesOf(s) = BytesOf(h) + BytesOf(t)
<1> DEFINE n == Len(h)
           rest == Fragments(s) \ Fragments(h)
           f == [x \in Fragments(t) |-> <<n + x[1], x[2]>>]
<1>1. n \in Nat /\ Len(t) \in Nat /\ Len(s) = n + Len(t)
  BY SentAt
<1>2. \A i, k : <<i, k>> \in Fragments(h) <=> i \in 1 .. n /\ k \in 1 .. s[i].count
  BY FragmentIn
<1> HIDE DEF n
<1>3. Fragments(h) \subseteq Fragments(s)
  <2> SUFFICES ASSUME NEW x \in Fragments(h) PROVE x \in Fragments(s)
    OBVIOUS
  <2>1. x = <<x[1], x[2]>>
    BY FragmentPairs
  <2>2. x[1] \in 1 .. n /\ x[2] \in 1 .. s[x[1]].count
    BY <1>2, <2>1
  <2>3. x[1] \in 1 .. Len(s)
    BY <1>1, <2>2
  <2> QED
    BY <2>1, <2>2, <2>3, FragmentIn
<1>4. ASSUME NEW i \in 1 .. Len(t), NEW k
      PROVE  <<i, k>> \in Fragments(t) <=> <<n + i, k>> \in rest
  <2>1. <<i, k>> \in Fragments(t) <=> k \in 1 .. t[i].count
    BY FragmentIn
  <2>2. n + i \in 1 .. Len(s) /\ n + i \notin 1 .. n
    BY <1>1
  <2>3. <<n + i, k>> \in Fragments(s) <=> k \in 1 .. s[n + i].count
    BY <2>2, FragmentIn
  <2>4. <<n + i, k>> \notin Fragments(h)
    BY <1>2, <2>2
  <2>5. s[n + i].count = t[i].count
    BY DEF n
  <2> QED
    BY <2>1, <2>3, <2>4, <2>5
<1>5. ASSUME NEW x \in Fragments(t) PROVE x[1] \in 1 .. Len(t) /\ x = <<x[1], x[2]>> /\ x[1] \in Nat
  <2>1. x = <<x[1], x[2]>>
    BY FragmentPairs
  <2>2. x[1] \in 1 .. Len(t)
    BY <2>1, FragmentIn
  <2> QED
    BY <1>1, <2>1, <2>2
<1>6. ASSUME NEW y \in rest PROVE y[1] - n \in 1 .. Len(t) /\ y = <<n + (y[1] - n), y[2]>>
  <2>1. y = <<y[1], y[2]>>
    BY FragmentPairs
  <2>2. y[1] \in 1 .. Len(s) /\ y[2] \in 1 .. s[y[1]].count
    BY <2>1, FragmentIn
  <2>3. y[1] \notin 1 .. n
    <3>1. <<y[1], y[2]>> \notin Fragments(h)
      BY <2>1
    <3> QED
      BY <1>2, <2>2, <3>1
  <2>4. y[1] \in Nat /\ y[1] > n /\ y[1] - n \in 1 .. Len(t) /\ n + (y[1] - n) = y[1]
    BY <1>1, <2>2, <2>3
  <2> QED
    BY <2>1, <2>4
<1> HIDE DEF rest
<1>7. f \in [Fragments(t) -> rest]
  <2>1. \A x \in Fragments(t) : <<n + x[1], x[2]>> \in rest
    BY <1>4, <1>5
  <2> QED
    BY <2>1
<1>8. \A x \in Fragments(t) : f[x] = <<n + x[1], x[2]>>
  OBVIOUS
<1> HIDE DEF f
<1>9. f \in Injection(Fragments(t), rest)
  <2>1. ASSUME NEW x \in Fragments(t), NEW z \in Fragments(t), f[x] = f[z] PROVE x = z
    <3>1. n + x[1] = n + z[1] /\ x[2] = z[2]
      BY <1>8, <2>1
    <3>2. x[1] = z[1]
      BY <1>1, <1>5, <3>1
    <3> QED
      BY <1>5, <3>1, <3>2
  <2> QED
    BY <1>7, <2>1 DEF Injection, IsInjective
<1>10. f \in Surjection(Fragments(t), rest)
  <2>1. ASSUME NEW y \in rest PROVE \E x \in Fragments(t) : f[x] = y
    <3> DEFINE x == <<y[1] - n, y[2]>>
    <3>1. x \in Fragments(t)
      BY <1>4, <1>6
    <3> QED
      BY <1>6, <1>8, <3>1
  <2> QED
    BY <1>7, <2>1 DEF Surjection
<1>11. ExistsBijection(Fragments(t), rest)
  BY <1>9, <1>10 DEF ExistsBijection, Bijection
<1>12. /\ IsFiniteSet(Fragments(s)) /\ IsFiniteSet(Fragments(h)) /\ IsFiniteSet(Fragments(t))
       /\ BytesOf(s) \in Nat /\ BytesOf(h) \in Nat /\ BytesOf(t) \in Nat
  BY FragmentsFinite
<1>13. Cardinality(rest) = Cardinality(Fragments(t))
  BY <1>11, <1>12, FS_Bijection
<1>14. Cardinality(rest) = Cardinality(Fragments(s)) - Cardinality(Fragments(h))
  <2>1. Fragments(s) \cap Fragments(h) = Fragments(h)
    BY <1>3
  <2>2. Cardinality(Fragments(s) \ Fragments(h))
          = Cardinality(Fragments(s)) - Cardinality(Fragments(s) \cap Fragments(h))
    BY <1>12, FS_Difference
  <2> QED
    BY <2>1, <2>2 DEF rest
<1> QED
  BY <1>12, <1>13, <1>14 DEF BytesOf

LEMMA BytesOfNone == BytesOf(<<>>) = 0
<1>1. Fragments(<<>>) = {}
  BY DEF Fragments
<1> QED
  BY <1>1, FS_EmptySet DEF BytesOf

LEMMA BytesOfSame ==
  ASSUME NEW s \in Seq(Sent), NEW t \in Seq(Sent), Len(s) = Len(t),
         \A i \in 1 .. Len(s) : s[i].count = t[i].count
  PROVE  BytesOf(s) = BytesOf(t)
<1>1. Fragments(s) = Fragments(t)
  BY SentAt DEF Fragments
<1> QED
  BY <1>1 DEF BytesOf

LEMMA BytesOfOne ==
  ASSUME NEW x \in Sent
  PROVE  <<x>> \in Seq(Sent) /\ Len(<<x>>) = 1 /\ BytesOf(<<x>>) = x.count
<1>1. <<x>> \in Seq(Sent) /\ Len(<<x>>) = 1 /\ DOMAIN <<x>> = {1} /\ <<x>>[1] = x
  OBVIOUS
<1>2. x.count \in Nat
  BY DEF Sent
<1>3. Fragments(<<x>>) = {1} \X (1 .. x.count)
  BY <1>1 DEF Fragments
<1> QED
  BY <1>1, <1>2, <1>3, RowSize DEF BytesOf

\* The oldest frames make room: the ring holds what it counts, within its limits.
LEMMA InsertIs ==
  ASSUME NEW e \in Nat, NEW s \in Nat \ {0}, NEW count \in Nat \ {0}, Insert(e, s, count),
         ring \in Seq(Sent), ringBytes = BytesOf(ring), ringBytes <= ByteLimit, Len(ring) <= FrameLimit
  PROVE  ring' \in Seq(Sent) /\ ringBytes' = BytesOf(ring') /\ ringBytes' <= ByteLimit /\ Len(ring') <= FrameLimit
<1>1. CASE count > ByteLimit
  BY <1>1 DEF Insert
<1>2. CASE ~(count > ByteLimit)
  <2> DEFINE x == [epoch |-> e, seq |-> s, count |-> count, resent |-> {}]
             Fit2(k) == /\ Len(ring) - k < FrameLimit
                        /\ ringBytes - BytesOf(SubSeq(ring, 1, k)) + count <= ByteLimit
             fit == {k \in 0 .. Len(ring) : Fit2(k)}
             gone == Min(fit)
             h == SubSeq(ring, 1, gone)
             t == SubSeq(ring, gone + 1, Len(ring))
  <2>1. ring' = Append(t, x) /\ ringBytes' = ringBytes - BytesOf(h) + count
    BY <1>2 DEF Insert
  <2>2. Len(ring) \in Nat /\ \A i \in 1 .. Len(ring) : ring[i] \in Sent
    BY SentAt
  <2>3. ByteLimit \in Nat \ {0} /\ FrameLimit \in Nat \ {0}
    BY RepairConstants
  <2>4. Len(ring) \in fit
    <3>1. SubSeq(ring, 1, Len(ring)) = ring
      OBVIOUS
    <3> DEFINE held == BytesOf(SubSeq(ring, 1, Len(ring)))
    <3>2. held \in Nat /\ held = ringBytes
      BY <3>1, FragmentsFinite
    <3> HIDE DEF held
    <3>4. Len(ring) - Len(ring) < FrameLimit /\ ringBytes - held + count <= ByteLimit
      BY <1>2, <2>2, <2>3, <3>2
    <3>3. Fit2(Len(ring))
      BY <3>4 DEF held
    <3> QED
      BY <2>2, <3>3
  <2>5. gone \in fit
    <3>1. fit \subseteq Nat
      OBVIOUS
    <3> HIDE DEF fit
    <3> QED
      BY <2>4, <3>1, MinIsLeast
  <2>6. gone \in 0 .. Len(ring) /\ Fit2(gone)
    <3> HIDE DEF gone, Fit2
    <3> QED
      BY <2>5
  <2>7. Len(ring) - gone < FrameLimit /\ ringBytes - BytesOf(h) + count <= ByteLimit
    BY <2>6
  <2> HIDE DEF gone, fit, Fit2
  <2>8. h \in Seq(Sent) /\ Len(h) = gone /\ \A i \in 1 .. gone : h[i] = ring[i]
    <3>1. \A i \in 1 .. gone : ring[i] \in Sent
      BY <2>2, <2>6
    <3>2. /\ h \in Seq(Sent) /\ Len(h) = IF 1 <= gone THEN gone - 1 + 1 ELSE 0
          /\ \A i \in 1 .. gone - 1 + 1 : h[i] = ring[1 + i - 1]
      BY <2>6, <3>1, SubSeqProperties
    <3> QED
      BY <2>6, <3>2
  <2>9. t \in Seq(Sent) /\ Len(t) = Len(ring) - gone /\ \A i \in 1 .. Len(t) : t[i] = ring[gone + i]
    <3>1. \A i \in gone + 1 .. Len(ring) : ring[i] \in Sent
      BY <2>2, <2>6
    <3>2. /\ t \in Seq(Sent)
          /\ Len(t) = IF gone + 1 <= Len(ring) THEN Len(ring) - (gone + 1) + 1 ELSE 0
          /\ \A i \in 1 .. Len(ring) - (gone + 1) + 1 : t[i] = ring[(gone + 1) + i - 1]
      BY <2>2, <2>6, <3>1, SubSeqProperties
    <3> QED
      BY <2>2, <2>6, <3>2
  <2> HIDE DEF h, t
  <2>10. BytesOf(ring) = BytesOf(h) + BytesOf(t)
    <3>1. Len(ring) = Len(h) + Len(t)
      BY <2>2, <2>6, <2>8, <2>9
    <3> QED
      BY <2>8, <2>9, <3>1, Joined
  <2>11. x \in Sent /\ x.count = count
    BY DEF Sent
  <2> HIDE DEF x
  <2>12. /\ Append(t, x) \in Seq(Sent) /\ Len(Append(t, x)) = Len(t) + 1
         /\ \A i \in 1 .. Len(t) : Append(t, x)[i] = t[i]
         /\ Append(t, x)[Len(t) + 1] = x
    BY <2>9, <2>11, AppendProperties
  <2>13. BytesOf(Append(t, x)) = BytesOf(t) + count
    <3>1. <<x>> \in Seq(Sent) /\ Len(<<x>>) = 1 /\ BytesOf(<<x>>) = count
      BY <2>11, BytesOfOne
    <3>2. \A i \in 1 .. 1 : i = 1 /\ <<x>>[i] = x
      OBVIOUS
    <3>3. \A i \in 1 .. Len(<<x>>) : Append(t, x)[Len(t) + i].count = <<x>>[i].count
      BY <2>12, <3>1, <3>2
    <3> QED
      BY <2>9, <2>12, <3>1, <3>3, Joined
  <2>14. BytesOf(h) \in Nat /\ BytesOf(t) \in Nat
    BY <2>8, <2>9, FragmentsFinite
  <2>15. ringBytes' = BytesOf(Append(t, x)) /\ ringBytes' <= ByteLimit
    BY <2>1, <2>7, <2>10, <2>13, <2>14
  <2>16. Len(Append(t, x)) <= FrameLimit
    <3>1. Len(ring) - gone + 1 <= FrameLimit
      BY <2>2, <2>3, <2>6, <2>7
    <3> QED
      BY <2>9, <2>12, <3>1
  <2> QED
    BY <2>1, <2>12, <2>15, <2>16
<1> QED
  BY <1>1, <1>2

-----------------------------------------------------------------------------
(* The inductive invariant.                                                *)

RingInv == /\ ring \in Seq(Sent) /\ ringBytes = BytesOf(ring)
           /\ ringBytes <= ByteLimit /\ Len(ring) <= FrameLimit

WireInv == /\ epoch \in Nat /\ next \in Nat \ {0} /\ forced \in BOOLEAN /\ ask \in BOOLEAN
           /\ media \in SUBSET Media /\ nacks \in SUBSET Nacks

\* The assembler's state is sound as a step finds it, and what was given is old.
PadInv ==
  /\ unasked \in SUBSET Nat /\ given \in SUBSET Gifts /\ repairEnabled \in BOOLEAN
  /\ Sound(Begin, retired, unasked, given) /\ Fits(Begin)
  /\ \A h \in given : h.epoch <= current /\ (h.epoch = current => h.seq <= retired)

IInv == RingInv /\ WireInv /\ PadInv

LEMMA BeginIs ==
  /\ Begin.epoch = current /\ Begin.pending = pending /\ Begin.bytes = pendingBytes
  /\ Begin.latest = latest /\ Begin.retired = retired /\ Begin.arrival = arrival
  /\ Begin.repair = repair /\ Begin.nacks = {} /\ Begin.ask = FALSE /\ Begin.given = {}
  /\ Begin.dropped = {} /\ Frames(Begin) = DOMAIN pending
BY DEF Begin, Frames

LEMMA PadParts ==
  ASSUME PadInv
  PROVE  /\ Begin \in Work /\ retired \in Nat /\ current \in Nat /\ latest \in Nat
         /\ pending \in Pendings
<1>1. Begin \in Work
  BY DEF PadInv, Sound, Well
<1> HIDE DEF Begin
<1>2. Begin.retired \in Nat /\ Begin.epoch \in Nat /\ Begin.latest \in Nat /\ Begin.pending \in Pendings
  BY <1>1 DEF Work
<1> QED
  BY <1>1, <1>2, BeginIs

LEMMA NothingPending == <<>> \in Pendings /\ DOMAIN <<>> = {} /\ Received(<<>>) = {}
<1>1. <<>> \in [{} -> PendingFrame] /\ DOMAIN <<>> = {}
  OBVIOUS
<1>2. {} \in SUBSET (Nat \ {0}) /\ IsFiniteSet({})
  BY FS_EmptySet
<1>3. <<>> \in Pendings
  BY <1>1, <1>2, InPendings
<1> QED
  BY <1>1, <1>3 DEF Received

\* An assembler that holds nothing.
LEMMA EmptySound ==
  ASSUME NEW a \in Work, a.pending = <<>>, a.bytes = 0, a.latest = 0, a.retired = 0,
         a.given = {}, a.dropped = {}, NEW G
  PROVE  Sound(a, 0, {}, G) /\ Fits(a)
<1>1. Frames(a) = {}
  BY NothingPending DEF Frames
<1>2. Counted(a)
  BY NothingPending, FS_EmptySet DEF Counted
<1>3. Sound(a, 0, {}, G)
  BY <1>1, <1>2 DEF Sound, Well, Above, Settles
<1>4. Cardinality(Frames(a)) = 0
  BY <1>1, FS_EmptySet
<1>5. MaxPendingBytes >= 0 /\ MaxPendingFrames >= 0
  BY RepairConstants
<1> QED
  BY <1>3, <1>4, <1>5 DEF Fits

LEMMA InitInv == Init => IInv
<1> SUFFICES ASSUME Init PROVE IInv
  OBVIOUS
<1>1. RingInv
  <2>1. ring = <<>> /\ ringBytes = 0
    BY DEF Init
  <2>2. <<>> \in Seq(Sent) /\ Len(<<>>) = 0
    OBVIOUS
  <2>3. ByteLimit >= 0 /\ FrameLimit >= 0
    BY RepairConstants
  <2> QED
    BY <2>1, <2>2, <2>3, BytesOfNone DEF RingInv
<1>2. WireInv
  <2>1. epoch = 1 /\ next = 1 /\ forced = FALSE /\ ask = FALSE /\ media = {} /\ nacks = {}
    BY DEF Init
  <2>2. {} \in SUBSET Media /\ {} \in SUBSET Nacks /\ FALSE \in BOOLEAN
    OBVIOUS
  <2>3. 1 \in Nat /\ 1 \in Nat \ {0}
    OBVIOUS
  <2> QED
    BY <2>1, <2>2, <2>3 DEF WireInv
<1>3. PadInv
  <2>1. /\ current = 0 /\ pending = <<>> /\ pendingBytes = 0 /\ latest = 0 /\ retired = 0
        /\ arrival = MaxAge /\ repair = MaxAge /\ given = {} /\ unasked = {}
        /\ repairEnabled \in BOOLEAN
    BY DEF Init
  <2>2. Begin \in Work
    <3> DEFINE z == 0
               none == {}
               no == FALSE
               p == pending
               m == MaxAge
    <3>1. Begin = [epoch |-> z, pending |-> p, bytes |-> z, latest |-> z, retired |-> z,
                   arrival |-> m, repair |-> m, nacks |-> none, ask |-> no, given |-> none,
                   dropped |-> none]
      BY <2>1 DEF Begin
    <3>2. z \in Nat /\ z \in Int /\ none \in SUBSET Nacks /\ none \in SUBSET Gifts /\ none \in SUBSET Nat
          /\ no \in BOOLEAN /\ p \in Pendings /\ m \in Int
      BY <2>1, NothingPending, Times
    <3> HIDE DEF z, none, no, p, m
    <3> QED
      BY <3>1, <3>2 DEF Work
  <2>3. Sound(Begin, 0, {}, {}) /\ Fits(Begin)
    <3>1. /\ Begin.pending = <<>> /\ Begin.bytes = 0 /\ Begin.latest = 0 /\ Begin.retired = 0
          /\ Begin.given = {} /\ Begin.dropped = {}
      BY <2>1, BeginIs
    <3> HIDE DEF Begin
    <3> QED
      BY <2>2, <3>1, EmptySound
  <2> QED
    BY <2>1, <2>3 DEF PadInv
<1> QED
  BY <1>1, <1>2, <1>3 DEF IInv

\* A step of the assembler, from its start to what it leaves.
LEMMA CommitKeeps ==
  ASSUME PadInv, nacks \in SUBSET Nacks, ask \in BOOLEAN,
         NEW z, NEW r \in Nat, NEW U \in SUBSET Nat, Sound(z, r, U, given), Fits(z),
         z.epoch >= current, z.epoch = current => r = retired,
         Commit(z), unasked' = Asked(U, z), repairEnabled' = repairEnabled
  PROVE  /\ PadInv' /\ nacks' \in SUBSET Nacks /\ ask' \in BOOLEAN
         /\ \A g \in fed', h \in given :
              g.epoch > h.epoch \/ (g.epoch = h.epoch /\ g.seq > h.seq)
<1> DEFINE a == Forgotten(z)
<1>1. z \in Work
  BY DEF Sound, Well
<1>2. Keeps(z, a) /\ a.nacks = z.nacks
  BY <1>1, ForgottenIs
<1>3. /\ pending' = a.pending /\ pendingBytes' = a.bytes
      /\ current' = a.epoch /\ latest' = a.latest /\ retired' = a.retired
      /\ arrival' = a.arrival /\ repair' = a.repair
      /\ nacks' \in Carried(nacks, a.nacks, MaxNacks)
      /\ ask' = (ask \/ a.ask)
      /\ fed' = a.given
      /\ given' = a.given \cup {h \in given : \A g \in a.given : g.epoch <= h.epoch}
  BY DEF Commit
<1> HIDE DEF a
<1>4. Sound(a, r, U, given) /\ Fits(a) /\ a \in Work
  BY <1>1, <1>2, KeepsSound, KeepsFits DEF Keeps
<1>5. a.epoch = z.epoch /\ a.given = z.given /\ a.ask = z.ask /\ a.dropped = z.dropped
  BY <1>2 DEF Keeps
<1>6. a.epoch \in Nat /\ a.retired \in Nat /\ current \in Nat /\ retired \in Nat
  BY <1>4, PadParts DEF Work
<1>7. nacks' \in SUBSET Nacks /\ ask' \in BOOLEAN
  <2>1. a.nacks \in SUBSET Nacks /\ a.ask \in BOOLEAN
    BY <1>4 DEF Work
  <2> QED
    BY <1>3, <2>1 DEF Carried
<1>8. given' \in SUBSET Gifts
  <2>1. a.given \in SUBSET Gifts /\ given \in SUBSET Gifts
    BY <1>4 DEF Work, PadInv
  <2> QED
    BY <1>3, <2>1
<1>9. \A g \in a.given : g.epoch = a.epoch /\ r < g.seq /\ g.seq <= a.retired /\ g.seq \in Nat
  BY <1>4 DEF Sound, Well, Work, Gifts
<1>10. \A h \in given : /\ h.epoch \in Nat /\ h.seq \in Nat
                        /\ h.epoch <= current /\ (h.epoch = current => h.seq <= retired)
  BY DEF PadInv, Gifts
<1>11. r <= a.retired
  BY <1>4 DEF Sound, Well
<1>12. \A h \in given' : h.epoch <= current' /\ (h.epoch = current' => h.seq <= retired')
  <2> TAKE h \in given'
  <2>1. CASE h \in a.given
    BY <1>3, <1>6, <1>9, <2>1
  <2>2. CASE h \in given
    BY <1>3, <1>5, <1>6, <1>10, <1>11, <2>2
  <2> QED
    BY <1>3, <2>1, <2>2
<1>13. \A g \in fed', h \in given :
         g.epoch > h.epoch \/ (g.epoch = h.epoch /\ g.seq > h.seq)
  <2> TAKE g \in fed', h \in given
  <2>1. g \in a.given
    BY <1>3
  <2> QED
    BY <1>5, <1>6, <1>9, <1>10, <2>1
<1>14. unasked' \in SUBSET Nat
  <2>1. a.dropped \in SUBSET Nat
    BY <1>4 DEF Work
  <2>2. unasked' = {} \/ unasked' = U \cup a.dropped
    BY <1>5 DEF Asked
  <2> QED
    BY <2>1, <2>2
<1> DEFINE b == Begin'
<1>15. /\ b.epoch = a.epoch /\ b.pending = a.pending /\ b.bytes = a.bytes
       /\ b.latest = a.latest /\ b.retired = a.retired
       /\ b.ask = FALSE /\ b.given = {} /\ b.dropped = {}
  BY <1>3 DEF Begin
<1>16. b \in Work
  <2> DEFINE none == {}
             no == FALSE
  <2>1. b = [epoch |-> a.epoch, pending |-> a.pending, bytes |-> a.bytes, latest |-> a.latest,
             retired |-> a.retired, arrival |-> a.arrival, repair |-> a.repair,
             nacks |-> none, ask |-> no, given |-> none, dropped |-> none]
    BY <1>3 DEF Begin
  <2>2. none \in SUBSET Nacks /\ none \in SUBSET Gifts /\ none \in SUBSET Nat /\ no \in BOOLEAN
    OBVIOUS
  <2>3. /\ a.epoch \in Nat /\ a.pending \in Pendings /\ a.bytes \in Int /\ a.latest \in Nat
        /\ a.retired \in Nat /\ a.arrival \in Int /\ a.repair \in Int
    BY <1>4 DEF Work
  <2> HIDE DEF none, no, b
  <2> QED
    BY <2>1, <2>2, <2>3 DEF Work
<1> HIDE DEF b
<1>17. Frames(b) = Frames(a)
  BY <1>15 DEF Frames
<1>18. Well(b, a.retired) /\ Above(b) /\ Fits(b)
  BY <1>4, <1>6, <1>15, <1>16, <1>17 DEF Sound, Well, Above, Fits, Counted
<1>19. Settles(b, unasked', given')
  <2> SUFFICES ASSUME NEW s \in unasked' PROVE Settled(b, given', s)
    BY <1>15 DEF Settles
  <2>1. ~a.ask /\ s \in U \cup a.dropped
    BY <1>5 DEF Asked
  <2>2. Settled(a, given, s)
    BY <1>4, <2>1 DEF Sound, Settles
  <2>3. CASE \E g \in given \cup a.given : g.epoch = a.epoch /\ g.seq > s /\ g.key
    <3>1. PICK g \in given \cup a.given : g.epoch = a.epoch /\ g.seq > s /\ g.key
      BY <2>3
    <3>2. g \in given'
      BY <1>3, <1>6, <1>9, <3>1
    <3> QED
      BY <1>15, <3>1, <3>2 DEF Settled
  <2>4. CASE \E k \in Keyed(a) : k > s
    <3>1. Keyed(b) = Keyed(a)
      BY <1>15, <1>17 DEF Keyed
    <3> QED
      BY <2>4, <3>1 DEF Settled
  <2> QED
    BY <2>2, <2>3, <2>4 DEF Settled
<1>20. PadInv'
  <2>1. Sound(b, a.retired, unasked', given') /\ Fits(b)
    BY <1>18, <1>19 DEF Sound
  <2>2. repairEnabled' \in BOOLEAN
    BY DEF PadInv
  <2>3. (Sound(Begin, retired, unasked, given) /\ Fits(Begin))'
    BY <1>3, <2>1 DEF b
  <2> QED
    BY <1>8, <1>12, <1>14, <2>2, <2>3 DEF PadInv
<1> QED
  BY <1>7, <1>13, <1>20

GivenStep == \A g \in fed', h \in given :
               g.epoch > h.epoch \/ (g.epoch = h.epoch /\ g.seq > h.seq)

LEMMA PadUnchanged == ASSUME PadInv, UNCHANGED padVars PROVE PadInv'
<1>1. Begin' = Begin
  BY DEF padVars, Begin
<1>2. /\ unasked' = unasked /\ given' = given /\ repairEnabled' = repairEnabled
      /\ current' = current /\ retired' = retired
  BY DEF padVars
<1> HIDE DEF Begin
<1> QED
  BY <1>1, <1>2 DEF PadInv

LEMMA PadStill == ASSUME PadInv, PadRests PROVE PadInv' /\ GivenStep
BY PadUnchanged DEF PadRests, GivenStep

LEMMA RingStill ==
  ASSUME RingInv, ring' = ring, ringBytes' = ringBytes
  PROVE  RingInv'
BY DEF RingInv

\* Frames sent again, or due again, keep their sizes.
LEMMA RingSame ==
  ASSUME RingInv, ring' \in [DOMAIN ring -> Sent], \A k \in DOMAIN ring : ring'[k].count = ring[k].count,
         ringBytes' = ringBytes
  PROVE  RingInv'
<1>1. ring \in Seq(Sent) /\ Len(ring) \in Nat /\ DOMAIN ring = 1 .. Len(ring)
  BY SentAt DEF RingInv
<1>2. ring' \in Seq(Sent) /\ Len(ring') = Len(ring)
  BY <1>1
<1>3. \A i \in 1 .. Len(ring) : ring[i].count = ring'[i].count
  BY <1>1
<1>4. BytesOf(ring) = BytesOf(ring')
  BY <1>1, <1>2, <1>3, BytesOfSame
<1> QED
  BY <1>2, <1>4 DEF RingInv

LEMMA FragmentIs ==
  ASSUME NEW e \in Nat, NEW s \in Nat \ {0}, NEW count \in Nat \ {0}, NEW key \in BOOLEAN,
         NEW i \in 0 .. (count - 1)
  PROVE  /\ Fragment(e, s, count, key, i) \in Media
         /\ [Fragment(e, s, count, key, i) EXCEPT !.again = TRUE] \in Media
<1> DEFINE yes == TRUE
           no == FALSE
           f == Fragment(e, s, count, key, i)
           g == [f EXCEPT !.again = yes]
<1>1. i \in Nat /\ i < count /\ yes \in BOOLEAN /\ no \in BOOLEAN
  OBVIOUS
<1>2. f = [epoch |-> e, seq |-> s, count |-> count, key |-> key, index |-> i, again |-> no]
  BY DEF Fragment
<1> HIDE DEF yes, no
<1>3. f \in Media
  BY <1>1, <1>2 DEF Media
<1> HIDE DEF f
<1>4. g \in Media
  BY <1>1, <1>3 DEF Media
<1> QED
  BY <1>3, <1>4 DEF f, yes

LEMMA SendKeeps ==
  ASSUME IInv, NEW count \in FrameSizes, Send(count)
  PROVE  IInv' /\ GivenStep
<1>1. count \in Nat \ {0}
  BY RepairConstants
<1>2. epoch \in Nat /\ next \in Nat \ {0} /\ forced \in BOOLEAN /\ media \in SUBSET Media
  BY DEF IInv, WireInv
<1>3. RingInv'
  <2>1. Insert(epoch, next, count)
    BY DEF Send
  <2> QED
    BY <1>1, <1>2, <2>1, InsertIs DEF IInv, RingInv
<1>4. media' \in SUBSET Media
  <2> DEFINE key == next = 1 \/ forced
             new == {Fragment(epoch, next, count, key, i) : i \in 0 .. (count - 1)}
  <2>1. media' \in Carried(media, new, MaxMedia)
    BY DEF Send
  <2>2. key \in BOOLEAN
    OBVIOUS
  <2> HIDE DEF key
  <2>3. new \subseteq Media
    <3>1. \A i \in 0 .. (count - 1) : Fragment(epoch, next, count, key, i) \in Media
      BY <1>1, <1>2, <2>2, FragmentIs
    <3> QED
      BY <3>1
  <2> HIDE DEF new
  <2> QED
    BY <1>2, <2>1, <2>3 DEF Carried
<1>5. WireInv'
  <2>1. /\ epoch' = epoch /\ nacks' = nacks /\ ask' = ask
        /\ next' = next + 1 /\ forced' = FALSE
    BY DEF Send
  <2>2. FALSE \in BOOLEAN /\ next + 1 \in Nat \ {0}
    BY <1>2
  <2>3. nacks \in SUBSET Nacks /\ ask \in BOOLEAN
    BY DEF IInv, WireInv
  <2> QED
    BY <1>2, <1>4, <2>1, <2>2, <2>3 DEF WireInv
<1>6. PadInv' /\ GivenStep
  BY PadStill DEF Send, IInv
<1> QED
  BY <1>3, <1>5, <1>6 DEF IInv

LEMMA RestartKeeps ==
  ASSUME IInv, Restart
  PROVE  IInv' /\ GivenStep
<1>1. RingInv'
  <2>1. ring' = <<>> /\ ringBytes' = 0
    BY DEF Restart
  <2>2. <<>> \in Seq(Sent) /\ Len(<<>>) = 0
    OBVIOUS
  <2>3. ByteLimit >= 0 /\ FrameLimit >= 0
    BY RepairConstants
  <2> QED
    BY <2>1, <2>2, <2>3, BytesOfNone DEF RingInv
<1>2. WireInv'
  <2>1. /\ epoch' = epoch + 1 /\ next' = 1 /\ forced' = FALSE
        /\ media' = media /\ nacks' = nacks /\ ask' = ask
    BY DEF Restart
  <2>2. /\ epoch \in Nat /\ media \in SUBSET Media /\ nacks \in SUBSET Nacks
        /\ ask \in BOOLEAN
    BY DEF IInv, WireInv
  <2>3. FALSE \in BOOLEAN /\ epoch + 1 \in Nat /\ 1 \in Nat \ {0}
    BY <2>2
  <2> QED
    BY <2>1, <2>2, <2>3 DEF WireInv
<1>3. PadInv' /\ GivenStep
  BY PadStill DEF Restart, IInv
<1> QED
  BY <1>1, <1>2, <1>3 DEF IInv

LEMMA HearNackKeeps ==
  ASSUME IInv, NEW nack \in nacks, HearNack(nack)
  PROVE  IInv' /\ GivenStep
<1>1. /\ nack.epoch \in Nat /\ nack.seq \in Nat \ {0} /\ nack.count \in Nat \ {0}
      /\ nack.key \in BOOLEAN /\ nack.missing \subseteq 0 .. (nack.count - 1)
      /\ nack.missing \subseteq Nat
  BY DEF IInv, WireInv, Nacks
<1>2. /\ epoch' = epoch /\ next' = next /\ ringBytes' = ringBytes /\ forced' = forced
      /\ ask' = ask /\ PadRests /\ nacks' = nacks \ {nack}
  BY DEF HearNack
<1>3. RingInv' /\ media' \in SUBSET Media
  <2>1. CASE UNCHANGED <<media, ring>>
    BY <1>2, <2>1, RingStill DEF IInv, WireInv
  <2>2. ASSUME NEW k \in Kept(nack),
               LET due == nack.missing \ ring[k].resent
               IN /\ ring' = [ring EXCEPT ![k].resent = @ \cup due]
                  /\ media' \in Carried(media,
                       {[Fragment(nack.epoch, nack.seq, nack.count, nack.key, i) EXCEPT !.again = TRUE] :
                          i \in due}, MaxMedia)
        PROVE  RingInv' /\ media' \in SUBSET Media
    <3> DEFINE due == nack.missing \ ring[k].resent
               new == {[Fragment(nack.epoch, nack.seq, nack.count, nack.key, i) EXCEPT !.again = TRUE] :
                         i \in due}
               x == ring[k].resent \cup due
               f == ring[k]
               g == [f EXCEPT !.resent = x]
    <3>1. media' \in Carried(media, new, MaxMedia) /\ ring' = [ring EXCEPT ![k] = g]
      BY <2>2
    <3>2. new \subseteq Media
      BY <1>1, FragmentIs
    <3> HIDE DEF new
    <3>3. media' \in SUBSET Media
      BY <3>1, <3>2 DEF Carried, IInv, WireInv
    <3>4. /\ ring \in Seq(Sent) /\ DOMAIN ring = 1 .. Len(ring) /\ k \in DOMAIN ring
          /\ \A i \in DOMAIN ring : ring[i] \in Sent
      BY SentAt DEF IInv, RingInv, Kept
    <3>5. x \in SUBSET Nat
      BY <1>1, <3>4 DEF Sent
    <3> HIDE DEF x, f
    <3>6. g \in Sent /\ g.count = f.count
      BY <3>4, <3>5 DEF Sent, f
    <3> HIDE DEF g
    <3>7. ring' \in [DOMAIN ring -> Sent] /\ \A i \in DOMAIN ring : ring'[i].count = ring[i].count
      BY <3>1, <3>4, <3>6 DEF f
    <3> QED
      BY <1>2, <3>3, <3>7, RingSame DEF IInv
  <2> QED
    BY <2>1, <2>2 DEF HearNack
<1>4. WireInv'
  BY <1>2, <1>3 DEF IInv, WireInv
<1>5. PadInv' /\ GivenStep
  BY <1>2, PadStill DEF IInv
<1> QED
  BY <1>3, <1>4, <1>5 DEF IInv

LEMMA HearAskKeeps ==
  ASSUME IInv, HearAsk
  PROVE  IInv' /\ GivenStep
<1>1. /\ epoch' = epoch /\ next' = next /\ ring' = ring /\ ringBytes' = ringBytes
      /\ media' = media /\ nacks' = nacks /\ PadRests
      /\ ask' = FALSE /\ forced' \in {forced, TRUE}
  BY DEF HearAsk
<1>2. RingInv'
  BY <1>1, RingStill DEF IInv
<1>3. WireInv'
  BY <1>1 DEF IInv, WireInv
<1>4. PadInv' /\ GivenStep
  BY <1>1, PadStill DEF IInv
<1> QED
  BY <1>2, <1>3, <1>4 DEF IInv

\* What a fragment finds: the frames there are, or none for one of a newer run.
LEMMA AddFragmentKeeps ==
  ASSUME IInv, NEW d \in media, AddFragment(d)
  PROVE  IInv' /\ GivenStep
<1>1. d \in Media /\ d.epoch \in Nat
  BY DEF IInv, WireInv, Media
<1>2. media' = media \ {d} /\ UNCHANGED hostVars
  BY DEF AddFragment
<1>3. RingInv' /\ epoch' = epoch /\ next' = next /\ forced' = forced /\ media' \in SUBSET Media
  <2>1. ring' = ring /\ ringBytes' = ringBytes /\ epoch' = epoch /\ next' = next /\ forced' = forced
    BY <1>2 DEF hostVars
  <2> QED
    BY <1>2, <2>1, RingStill DEF IInv, WireInv
<1>4. PadInv' /\ GivenStep /\ nacks' \in SUBSET Nacks /\ ask' \in BOOLEAN
  <2>1. CASE UNCHANGED <<nacks, ask>> /\ PadRests
    BY <2>1, PadStill DEF IInv, WireInv
  <2>2. CASE /\ d.epoch >= current
             /\ LET new == d.epoch > current
                IN \E a \in {Heard(d, [(IF new THEN Fresh ELSE Begin) EXCEPT !.epoch = d.epoch])} :
                     Commit(a) /\ unasked' = Asked(IF new THEN {} ELSE unasked, a)
             /\ UNCHANGED repairEnabled
    <3> DEFINE new == d.epoch > current
               from == IF new THEN Fresh ELSE Begin
               start == [from EXCEPT !.epoch = d.epoch]
               z == Heard(d, start)
               U == IF new THEN {} ELSE unasked
               r == IF new THEN 0 ELSE retired
    <3>1. Commit(z) /\ unasked' = Asked(U, z) /\ repairEnabled' = repairEnabled
      BY <2>2
    <3>2. Begin \in Work /\ retired \in Nat /\ current \in Nat
      BY PadParts DEF IInv
    <3>3. r \in Nat /\ U \in SUBSET Nat
      BY <3>2 DEF IInv, PadInv
    <3>4. Fresh \in Work /\ Fresh.pending = <<>> /\ Fresh.bytes = 0 /\ Fresh.latest = 0
          /\ Fresh.retired = 0 /\ Fresh.given = {} /\ Fresh.dropped = {}
      <4> DEFINE x == 0
                 p == <<>>
                 m == MaxAge
                 b == [Begin EXCEPT !.pending = p, !.bytes = x, !.latest = x, !.retired = x,
                                    !.arrival = m, !.repair = m]
      <4>1. x \in Nat /\ x \in Int /\ p \in Pendings /\ m \in Int
        BY NothingPending, Times
      <4>2. Fresh = b
        BY DEF Fresh
      <4>3. x = 0 /\ p = <<>> /\ Begin.given = {} /\ Begin.dropped = {}
        BY BeginIs
      <4> HIDE DEF Begin, x, p, m
      <4>4. b \in Work
        BY <3>2, <4>1 DEF Work
      <4>5. /\ b.pending = p /\ b.bytes = x /\ b.latest = x /\ b.retired = x
            /\ b.given = Begin.given /\ b.dropped = Begin.dropped
        BY <3>2 DEF Work
      <4> HIDE DEF b
      <4> QED
        BY <4>2, <4>3, <4>4, <4>5
    <3>5. start \in Work /\ start.epoch = d.epoch
      <4>1. from \in Work
        BY <3>2, <3>4
      <4> HIDE DEF from
      <4> QED
        BY <1>1, <4>1 DEF Work
    <3>6. Sound(start, r, U, given) /\ Fits(start)
      <4>1. CASE new
        <5>1. /\ start.pending = <<>> /\ start.bytes = 0 /\ start.latest = 0 /\ start.retired = 0
              /\ start.given = {} /\ start.dropped = {}
          BY <3>4, <4>1 DEF Work
        <5>2. r = 0 /\ U = {}
          BY <4>1
        <5> HIDE DEF start
        <5> QED
          BY <3>5, <5>1, <5>2, EmptySound
      <4>2. CASE ~new
        <5>1. d.epoch = current
          BY <1>1, <2>2, <3>2, <4>2
        <5>2. Begin.epoch = current
          BY BeginIs
        <5> HIDE DEF Begin
        <5>3. start = Begin
          BY <3>2, <4>2, <5>1, <5>2 DEF Work
        <5> QED
          BY <4>2, <5>3 DEF IInv, PadInv
      <4> QED
        BY <4>1, <4>2
    <3> HIDE DEF start
    <3>7. Sound(z, r, U, given) /\ Fits(z) /\ z.epoch = d.epoch
      BY <1>1, <3>3, <3>5, <3>6, HeardSound
    <3>8. z.epoch >= current /\ (z.epoch = current => r = retired)
      BY <1>1, <2>2, <3>2, <3>7
    <3> HIDE DEF z, U, r
    <3> QED
      BY <3>1, <3>3, <3>7, <3>8, CommitKeeps DEF IInv, WireInv, GivenStep
  <2> QED
    BY <2>1, <2>2 DEF AddFragment
<1> QED
  BY <1>3, <1>4 DEF IInv, WireInv

LEMMA ElapseKeeps ==
  ASSUME IInv, Elapse
  PROVE  IInv' /\ GivenStep
<1> DEFINE aged == Aged(Begin)
           z == Ticked(aged)
<1>1. /\ Commit(z) /\ unasked' = Asked(unasked, z) /\ repairEnabled' = repairEnabled
      /\ ring' = [k \in DOMAIN ring |-> [ring[k] EXCEPT !.resent = {}]]
      /\ epoch' = epoch /\ next' = next /\ ringBytes' = ringBytes /\ forced' = forced /\ media' = media
  BY DEF Elapse
<1>2. Begin \in Work /\ retired \in Nat /\ current \in Nat /\ Begin.epoch = current
  BY PadParts, BeginIs DEF IInv
<1>3. Sound(Begin, retired, unasked, given) /\ Fits(Begin) /\ unasked \in SUBSET Nat
  BY DEF IInv, PadInv
<1> HIDE DEF Begin
<1>4. Keeps(Begin, aged)
  BY <1>2, AgedIs
<1> HIDE DEF aged
<1>5. Sound(aged, retired, unasked, given) /\ Fits(aged) /\ aged.epoch = current
  BY <1>2, <1>3, <1>4, KeepsSound, KeepsFits DEF Keeps
<1>6. Sound(z, retired, unasked, given) /\ Less(aged, z)
  BY <1>2, <1>3, <1>5, TickedSound
<1>7. Fits(z) /\ z.epoch = current
  BY <1>5, <1>6, LessPart, PartFits DEF Less
<1> HIDE DEF z
<1>8. z.epoch >= current
  BY <1>2, <1>7
<1>9. PadInv' /\ GivenStep /\ nacks' \in SUBSET Nacks /\ ask' \in BOOLEAN
  BY <1>1, <1>2, <1>3, <1>6, <1>7, <1>8, CommitKeeps DEF IInv, WireInv, GivenStep
<1>10. RingInv'
  <2> DEFINE none == {}
  <2>1. DOMAIN ring = 1 .. Len(ring) /\ \A k \in DOMAIN ring : ring[k] \in Sent
    BY SentAt DEF IInv, RingInv
  <2>2. none \in SUBSET Nat /\ ring' = [k \in DOMAIN ring |-> [ring[k] EXCEPT !.resent = none]]
    BY <1>1
  <2> HIDE DEF none
  <2>3. \A f \in Sent : [f EXCEPT !.resent = none] \in Sent /\ [f EXCEPT !.resent = none].count = f.count
    BY <2>2 DEF Sent
  <2>4. ring' \in [DOMAIN ring -> Sent] /\ \A k \in DOMAIN ring : ring'[k].count = ring[k].count
    BY <2>1, <2>2, <2>3
  <2> QED
    BY <1>1, <2>4, RingSame DEF IInv
<1> QED
  BY <1>1, <1>9, <1>10 DEF IInv, WireInv

LEMMA NextKeeps ==
  ASSUME IInv, [Next]_vars
  PROVE  IInv' /\ (GivenStep \/ UNCHANGED vars)
<1>1. ASSUME NEW count \in FrameSizes, Send(count) PROVE IInv' /\ GivenStep
  BY <1>1, SendKeeps
<1>2. CASE Restart
  BY <1>2, RestartKeeps
<1>3. ASSUME NEW nack \in nacks, HearNack(nack) PROVE IInv' /\ GivenStep
  BY <1>3, HearNackKeeps
<1>4. CASE HearAsk
  BY <1>4, HearAskKeeps
<1>5. ASSUME NEW d \in media, AddFragment(d) PROVE IInv' /\ GivenStep
  BY <1>5, AddFragmentKeeps
<1>6. CASE Elapse
  BY <1>6, ElapseKeeps
<1>7. CASE UNCHANGED vars
  <2>1. UNCHANGED padVars /\ UNCHANGED hostVars /\ media' = media /\ nacks' = nacks /\ ask' = ask
    BY <1>7 DEF vars
  <2>2. PadInv'
    BY <2>1, PadUnchanged DEF IInv
  <2>3. RingInv'
    BY <2>1, RingStill DEF hostVars, IInv
  <2>4. WireInv'
    BY <2>1 DEF hostVars, IInv, WireInv
  <2> QED
    BY <1>7, <2>2, <2>3, <2>4 DEF IInv
<1> QED
  BY <1>1, <1>2, <1>3, <1>4, <1>5, <1>6, <1>7 DEF Next

\* What the runs check of Repair rests on this invariant.
THEOREM RepairInvariant == Spec => []IInv
<1>1. Init => IInv
  BY InitInv
<1>2. IInv /\ [Next]_vars => IInv'
  BY NextKeeps
<1> QED
  BY <1>1, <1>2, PTL DEF Spec

\* Both stores count exactly what they hold and keep within their limits, for
\* any limits, frame sizes and losses (RetransmitRing, FrameAssembler.pending).
THEOREM StorageStaysSound == Spec => []StorageSound
<1>1. IInv => StorageSound
  <2> SUFFICES ASSUME IInv PROVE StorageSound
    OBVIOUS
  <2>1. Fits(Begin) /\ Counted(Begin)
    BY DEF IInv, PadInv, Sound, Well
  <2>2. Begin.bytes = pendingBytes /\ Begin.pending = pending /\ Frames(Begin) = DOMAIN pending
    BY BeginIs
  <2> HIDE DEF Begin
  <2>3. /\ pendingBytes = Cardinality(Received(pending)) /\ pendingBytes <= MaxPendingBytes
        /\ Cardinality(DOMAIN pending) <= MaxPendingFrames
    BY <2>1, <2>2 DEF Fits, Counted
  <2> QED
    BY <2>3 DEF StorageSound, IInv, RingInv
<1> QED
  BY <1>1, RepairInvariant, PTL

\* A frame the assembler drops without asking for a keyframe is replaced by one
\* given since or complete (requestKeyframe, dropPending).
THEOREM LossStaysAsked == Spec => []LossIsAsked
<1>1. IInv => LossIsAsked
  <2> SUFFICES ASSUME IInv, NEW s \in unasked
               PROVE  \/ \E g \in given : g.epoch = current /\ g.seq > s /\ g.key
                      \/ \E k \in DOMAIN pending : k > s /\ pending[k].key /\ Whole(pending[k])
    BY DEF LossIsAsked
  <2>1. Settles(Begin, unasked, given)
    BY DEF IInv, PadInv, Sound
  <2>2. /\ Begin.epoch = current /\ Begin.pending = pending /\ ~Begin.ask
        /\ Begin.given = {} /\ Frames(Begin) = DOMAIN pending
    BY BeginIs
  <2> HIDE DEF Begin
  <2>3. Settled(Begin, given, s)
    BY <2>1, <2>2 DEF Settles
  <2> QED
    BY <2>2, <2>3 DEF Settled, Keyed
<1> QED
  BY <1>1, RepairInvariant, PTL

\* No step gives the decoder a frame that was given before it, or after a newer
\* one of its run or of a newer run (deliver, drainReady).
THEOREM GivenStaysInOrder == Spec => GivenInOrder
<1>1. IInv /\ [Next]_vars => [\A g \in fed', h \in given :
                               g.epoch > h.epoch \/ (g.epoch = h.epoch /\ g.seq > h.seq)]_vars
  BY NextKeeps DEF GivenStep
<1> QED
  BY <1>1, RepairInvariant, PTL DEF Spec, GivenInOrder
=============================================================================
