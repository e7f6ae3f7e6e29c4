---------------------------- MODULE TunnelProofs ----------------------------
(***************************************************************************)
(* Theorems about Tunnel, for every limit, every size of frames and every  *)
(* bound: the queue's byte count and limits, that a goodbye said to have   *)
(* left has left, and that only decodable frames are written.              *)
(***************************************************************************)
EXTENDS Tunnel, FiniteSetTheorems, SequenceTheorems, TLAPS

-----------------------------------------------------------------------------
(* The inductive invariant.                                                *)

\* The first fragments of the frame being sent are in the queue.
Arriving == sending.at > 0 /\ ~video.discarded

SendingInv ==
  /\ sending # NotSending => sending.at < sending.count
  /\ closed => sending = NotSending /\ video = NewQueue /\ controls = <<>> /\ writer = NewWriter
  /\ video.discarded => sending.at > 0 /\ video.awaiting

\* Only the frame still being sent is partial, and it is the last.
PartialInv ==
  /\ \A i \in DOMAIN video.frames :
       /\ video.frames[i].got <= video.frames[i].count
       /\ video.frames[i].got < video.frames[i].count => i = Len(video.frames) /\ Arriving
  /\ Arriving =>
       /\ video.frames # <<>>
       /\ Last(video.frames) = [age |-> 0, key |-> sending.key, count |-> sending.count,
                                got |-> sending.at]

\* The count is that of the fragments, and the limits hold.
Counted(v) ==
  v.bytes = BytesOf(v.frames) /\ v.bytes <= BYTE_LIMIT /\ Len(v.frames) <= FRAME_LIMIT

\* A frame decodes after one of that age, and a queue of them.
Follows(age, f) == f.key \/ age = Older(f.age)
Linked(age, frames) ==
  /\ frames # <<>> => Follows(age, frames[1])
  /\ \A i \in DOMAIN frames : i > 1 => Follows(frames[i - 1].age, frames[i])

\* The age of the last frame taken from the queue, and of the last let in.
Taken == IF writer.left > 0 THEN writer.frame.age ELSE shown
NewestOf(frames) == IF frames = <<>> THEN Taken ELSE Last(frames).age

\* Frames follow each other on their whole way to the iPad, and unless one was
\* lost the next may follow too.
DecodeInv ==
  /\ writer.left > 0 => Follows(shown, writer.frame)
  /\ Linked(Taken, video.frames)
  /\ ~closed /\ ~video.awaiting =>
       NewestOf(video.frames) = IF sending # NotSending /\ sending.at = 0 THEN Older(0) ELSE 0

\* The goodbye is the last control packet that waits, or is being written.
ByeWaits ==
  \/ controls # <<>> /\ Last(controls) = "bye"
  \/ controls = <<>> /\ writer.job = "bye"

\* What flush counts down is what must be written until the goodbye is.
ToldInv ==
  /\ phase = "run" => told = "none"
  /\ told = "ok" => byeWritten
  /\ phase = "goodbye" /\ told = "none" /\ ~byeWritten =>
       flushing > 0 /\ (~closed => flushing = Unwritten /\ ByeWaits)

IInv == TypeOK /\ SendingInv /\ PartialInv /\ Counted(video) /\ DecodeInv /\ ToldInv

-----------------------------------------------------------------------------
(* The bytes of a queue, as frames come and go.                            *)

LEMMA RowSize ==
  ASSUME NEW i, NEW n \in Nat
  PROVE  IsFiniteSet({i} \X (1 .. n)) /\ Cardinality({i} \X (1 .. n)) = n
<1> DEFINE S == {i}
           T == 1 .. n
<1>1. IsFiniteSet(S) /\ Cardinality(S) = 1
  BY FS_Singleton
<1>2. IsFiniteSet(T) /\ Cardinality(T) = n
  BY FS_Interval
<1>3. 1 * n = n
  OBVIOUS
<1> HIDE DEF S, T
<1>4. IsFiniteSet(S \X T) /\ Cardinality(S \X T) = Cardinality(S) * Cardinality(T)
  BY <1>1, <1>2, FS_Product
<1>5. IsFiniteSet(S \X T) /\ Cardinality(S \X T) = n
  BY <1>1, <1>2, <1>3, <1>4
<1> QED
  BY <1>5 DEF S, T

LEMMA FrameParts ==
  ASSUME NEW f \in Frame
  PROVE  f.age \in Ages /\ f.key \in BOOLEAN /\ f.count \in Nat \ {0} /\ f.got \in Nat
BY DEF Frame

LEMMA FrameAt ==
  ASSUME NEW s \in Seq(Frame)
  PROVE  /\ Len(s) \in Nat /\ DOMAIN s = 1 .. Len(s)
         /\ \A i \in DOMAIN s : s[i] \in Frame /\ s[i].got \in Nat
<1>1. /\ Len(s) \in Nat /\ DOMAIN s = 1 .. Len(s)
      /\ \A i \in DOMAIN s : s[i] \in Frame
  OBVIOUS
<1> QED
  BY <1>1, FrameParts

LEMMA FragmentsFinite ==
  ASSUME NEW s \in Seq(Frame)
  PROVE  IsFiniteSet(Fragments(s)) /\ BytesOf(s) \in Nat
<1> DEFINE rows == {{i} \X (1 .. s[i].got) : i \in DOMAIN s}
<1>1. Len(s) \in Nat /\ DOMAIN s = 1 .. Len(s) /\ \A i \in DOMAIN s : s[i].got \in Nat
  BY FrameAt
<1>2. IsFiniteSet(DOMAIN s)
  BY <1>1, FS_Interval
<1>3. IsFiniteSet(rows)
  <2> DEFINE f == [i \in DOMAIN s |-> {i} \X (1 .. s[i].got)]
  <2>1. f \in Surjection(DOMAIN s, rows)
    BY DEF Surjection
  <2> QED
    BY <1>2, <2>1, FS_Surjection
<1>4. \A row \in rows : IsFiniteSet(row)
  <2> TAKE row \in rows
  <2>1. PICK i \in DOMAIN s : row = {i} \X (1 .. s[i].got)
    OBVIOUS
  <2> QED
    BY <1>1, <2>1, RowSize
<1>5. IsFiniteSet(UNION rows)
  <2> HIDE DEF rows
  <2> QED
    BY <1>3, <1>4, FS_UNION
<1> QED
  BY <1>5, FS_CardinalityType DEF Fragments, BytesOf

LEMMA MemberFragments ==
  ASSUME NEW s, NEW x
  PROVE  x \in Fragments(s) <=> \E i \in DOMAIN s : x \in {i} \X (1 .. s[i].got)
BY DEF Fragments

LEMMA BytesEmpty == BytesOf(<<>>) = 0
<1>1. Fragments(<<>>) = {}
  BY DEF Fragments
<1> QED
  BY <1>1, FS_EmptySet DEF BytesOf

LEMMA BytesOne == ASSUME NEW f \in Frame PROVE BytesOf(<<f>>) = f.got
<1>1. DOMAIN <<f>> = {1} /\ <<f>>[1] = f
  OBVIOUS
<1>2. Fragments(<<f>>) = {1} \X (1 .. f.got)
  BY <1>1 DEF Fragments
<1>3. f.got \in Nat
  BY FrameParts
<1>4. Cardinality({1} \X (1 .. f.got)) = f.got
  BY <1>3, RowSize
<1> QED
  BY <1>2, <1>4 DEF BytesOf

\* Only how many fragments the frames have counts.
LEMMA BytesSame ==
  ASSUME NEW s, NEW t, DOMAIN t = DOMAIN s, \A i \in DOMAIN s : t[i].got = s[i].got
  PROVE  BytesOf(t) = BytesOf(s)
<1>1. Fragments(t) = Fragments(s)
  BY DEF Fragments
<1> QED
  BY <1>1 DEF BytesOf

\* A frame none of whose fragments came yet.
LEMMA BytesAppend ==
  ASSUME NEW s \in Seq(Frame), NEW f \in Frame, f.got = 0
  PROVE  BytesOf(Append(s, f)) = BytesOf(s)
<1> DEFINE t == Append(s, f)
<1>1. /\ DOMAIN t = DOMAIN s \cup {Len(s) + 1}
      /\ t[Len(s) + 1] = f
      /\ \A i \in DOMAIN s : t[i] = s[i]
  OBVIOUS
<1>2. 1 .. f.got = {}
  OBVIOUS
<1>3. Fragments(t) = Fragments(s)
  <2> HIDE DEF t
  <2>1. \A i \in DOMAIN s : {i} \X (1 .. t[i].got) = {i} \X (1 .. s[i].got)
    BY <1>1
  <2>2. {Len(s) + 1} \X (1 .. t[Len(s) + 1].got) = {}
    BY <1>1, <1>2
  <2> QED
    BY <1>1, <2>1, <2>2 DEF Fragments
<1> QED
  BY <1>3 DEF BytesOf

LEMMA FrontAt ==
  ASSUME NEW s \in Seq(Frame), s # <<>>
  PROVE  /\ Front(s) \in Seq(Frame) /\ Len(s) \in Nat \ {0}
         /\ DOMAIN Front(s) = 1 .. Len(s) - 1 /\ DOMAIN s = 1 .. Len(s)
         /\ Len(Front(s)) = Len(s) - 1
         /\ \A i \in DOMAIN Front(s) : Front(s)[i] = s[i]
         /\ Front(s) # <<>> => 1 \in DOMAIN Front(s)
<1> DEFINE t == Front(s)
<1>0. /\ t \in Seq(Frame) /\ Len(s) \in Nat \ {0}
      /\ DOMAIN t = 1 .. Len(s) - 1 /\ DOMAIN s = 1 .. Len(s)
      /\ \A i \in DOMAIN t : t[i] = s[i]
  BY DEF Front
<1> HIDE DEF t
<1>1. Len(t) = Len(s) - 1
  BY <1>0 DEF t, Front
<1>2. t # <<>> => 1 \in DOMAIN t
  BY <1>0
<1> QED
  BY <1>0, <1>1, <1>2, Zenon DEF t

LEMMA BytesFront ==
  ASSUME NEW s \in Seq(Frame), s # <<>>
  PROVE  BytesOf(Front(s)) = BytesOf(s) - Last(s).got
<1> DEFINE t == Front(s)
           n == Len(s)
           row == {n} \X (1 .. s[n].got)
<1>1. /\ t \in Seq(Frame) /\ n \in Nat \ {0}
      /\ DOMAIN t = 1 .. n - 1 /\ DOMAIN s = 1 .. n
      /\ \A i \in DOMAIN t : t[i] = s[i]
  BY FrontAt
<1>2. s[n].got \in Nat
  BY <1>1, FrameAt
<1> HIDE DEF t
<1>3. Fragments(s) = Fragments(t) \cup row
  <2>1. DOMAIN s = DOMAIN t \cup {n}
    BY <1>1
  <2>2. \A i \in DOMAIN t : {i} \X (1 .. t[i].got) = {i} \X (1 .. s[i].got)
    BY <1>1
  <2> HIDE DEF n
  <2> QED
    BY <2>1, <2>2 DEF Fragments
<1>4. Fragments(t) \cap row = {}
  <2>1. n \notin DOMAIN t
    BY <1>1
  <2> HIDE DEF n
  <2> QED
    BY <2>1 DEF Fragments
<1>5. IsFiniteSet(Fragments(t)) /\ BytesOf(t) \in Nat
  BY <1>1, FragmentsFinite
<1>6. IsFiniteSet(row) /\ Cardinality(row) = s[n].got
  BY <1>2, RowSize
<1>7. Cardinality(Fragments(s)) =
        Cardinality(Fragments(t)) + Cardinality(row) - Cardinality(Fragments(t) \cap row)
  BY <1>3, <1>5, <1>6, FS_Union
<1>8. Cardinality(Fragments(t) \cap row) = 0
  BY <1>4, FS_EmptySet
<1> QED
  BY <1>2, <1>5, <1>6, <1>7, <1>8 DEF BytesOf, Last, t

\* One more fragment of the last frame.
LEMMA BytesGrow ==
  ASSUME NEW s \in Seq(Frame), s # <<>>, NEW t \in Seq(Frame), Len(t) = Len(s),
         \A i \in 1 .. Len(s) : t[i].got = IF i = Len(s) THEN s[i].got + 1 ELSE s[i].got
  PROVE  BytesOf(t) = BytesOf(s) + 1
<1>1. /\ Front(t) \in Seq(Frame) /\ Front(s) \in Seq(Frame)
      /\ DOMAIN Front(t) = DOMAIN Front(s)
      /\ \A i \in DOMAIN Front(s) : Front(t)[i].got = Front(s)[i].got
  BY DEF Front
<1>2. BytesOf(Front(t)) = BytesOf(Front(s))
  BY <1>1, BytesSame
<1>3. t # <<>> /\ Last(t).got = Last(s).got + 1 /\ Last(s).got \in Nat
  <2>1. Len(s) \in DOMAIN s /\ s[Len(s)].got \in Nat
    BY FrameAt
  <2> QED
    BY <2>1 DEF Last
<1>4. BytesOf(s) \in Nat /\ BytesOf(t) \in Nat
  BY FragmentsFinite
<1> QED
  BY <1>2, <1>3, <1>4, BytesFront

LEMMA BytesTail ==
  ASSUME NEW s \in Seq(Frame), s # <<>>
  PROVE  BytesOf(Tail(s)) = BytesOf(s) - Head(s).got
<1> DEFINE t == Tail(s)
           row == {1} \X (1 .. s[1].got)
           rest == Fragments(s) \ row
           f == [x \in Fragments(t) |-> <<x[1] + 1, x[2]>>]
<1>1. /\ t \in Seq(Frame) /\ Len(s) \in Nat \ {0}
      /\ DOMAIN t = 1 .. Len(s) - 1 /\ DOMAIN s = 1 .. Len(s)
      /\ \A i \in DOMAIN t : t[i] = s[i + 1]
  OBVIOUS
<1>2. s[1].got \in Nat /\ Head(s) = s[1]
  BY <1>1, FrameAt
<1> HIDE DEF t
<1>3. \A i \in DOMAIN t : \A k : <<i, k>> \in Fragments(t) <=> <<i + 1, k>> \in rest
  <2> TAKE i \in DOMAIN t
  <2> TAKE k
  <2>1. i \in Nat \ {0} /\ i + 1 \in DOMAIN s /\ t[i] = s[i + 1]
    BY <1>1
  <2>2. <<i, k>> \in Fragments(t) <=> k \in 1 .. t[i].got
    BY MemberFragments
  <2>3. <<i + 1, k>> \in Fragments(s) <=> k \in 1 .. s[i + 1].got
    BY <2>1, MemberFragments
  <2>4. <<i + 1, k>> \notin row
    BY <2>1
  <2> QED
    BY <2>1, <2>2, <2>3, <2>4
<1>4. \A x \in Fragments(t) : x[1] \in DOMAIN t /\ x = <<x[1], x[2]>>
  BY MemberFragments
<1>5. \A y \in rest : y[1] - 1 \in DOMAIN t /\ y = <<(y[1] - 1) + 1, y[2]>>
  <2> TAKE y \in rest
  <2>1. PICK j \in DOMAIN s : y \in {j} \X (1 .. s[j].got)
    BY MemberFragments
  <2>2. y = <<j, y[2]>> /\ y[1] = j /\ j # 1
    BY <2>1
  <2> QED
    BY <2>2, <1>1
<1>6. f \in [Fragments(t) -> rest]
  BY <1>3, <1>4
<1>7. \A x, z \in Fragments(t) : f[x] = f[z] => x = z
  <2> TAKE x, z \in Fragments(t)
  <2>1. x[1] \in Int /\ z[1] \in Int
    BY <1>1, <1>4
  <2> QED
    BY <1>4, <2>1
<1>8. \A y \in rest : \E x \in Fragments(t) : f[x] = y
  <2> TAKE y \in rest
  <2>1. <<y[1] - 1, y[2]>> \in Fragments(t)
    BY <1>3, <1>5
  <2>2. f[<<y[1] - 1, y[2]>>] = y
    BY <2>1, <1>5
  <2> QED
    BY <2>1, <2>2
<1>9. ExistsBijection(Fragments(t), rest)
  <2> HIDE DEF f, rest
  <2>1. f \in Injection(Fragments(t), rest)
    BY <1>6, <1>7 DEF Injection, IsInjective
  <2>2. f \in Surjection(Fragments(t), rest)
    BY <1>6, <1>8 DEF Surjection
  <2> QED
    BY <2>1, <2>2 DEF ExistsBijection, Bijection
<1>10. IsFiniteSet(Fragments(t)) /\ IsFiniteSet(Fragments(s)) /\ BytesOf(s) \in Nat
  BY <1>1, FragmentsFinite
<1>11. Cardinality(rest) = Cardinality(Fragments(t))
  BY <1>9, <1>10, FS_Bijection
<1>12. Cardinality(rest) = Cardinality(Fragments(s)) - Cardinality(row)
  <2>1. Fragments(s) \cap row = row
    BY <1>1 DEF Fragments
  <2> HIDE DEF row
  <2>2. Cardinality(Fragments(s) \ row)
          = Cardinality(Fragments(s)) - Cardinality(Fragments(s) \cap row)
    BY <1>10, FS_Difference
  <2> QED
    BY <2>1, <2>2
<1> QED
  BY <1>2, <1>11, <1>12, RowSize DEF BytesOf, t

-----------------------------------------------------------------------------
(* Frames that follow each other.                                          *)

LEMMA LinkedAppend ==
  ASSUME NEW a, NEW s \in Seq(Frame), NEW f \in Frame, Linked(a, s),
         Follows(IF s = <<>> THEN a ELSE Last(s).age, f)
  PROVE  Linked(a, Append(s, f))
<1> DEFINE t == Append(s, f)
<1>1. /\ Len(s) \in Nat /\ DOMAIN s = 1 .. Len(s) /\ DOMAIN t = 1 .. Len(s) + 1
      /\ t[Len(s) + 1] = f
      /\ \A i \in DOMAIN s : t[i] = s[i]
  OBVIOUS
<1>4. (s # <<>> => Len(s) > 0) /\ (s = <<>> => Len(s) = 0)
  OBVIOUS
<1> HIDE DEF t
<1>2. Follows(a, t[1])
  <2>1. CASE s = <<>>
    BY <1>1, <1>4, <2>1
  <2>2. CASE s # <<>>
    BY <1>1, <1>4, <2>2 DEF Linked
  <2> QED
    BY <2>1, <2>2
<1>3. ASSUME NEW i \in DOMAIN t, i > 1
      PROVE  Follows(t[i - 1].age, t[i])
  <2>1. CASE i = Len(s) + 1
    <3>1. s # <<>> /\ t[i] = f /\ i - 1 \in DOMAIN s /\ i - 1 = Len(s)
      BY <1>1, <1>3, <1>4, <2>1
    <3>2. t[i - 1] = s[Len(s)]
      BY <1>1, <3>1
    <3> QED
      BY <3>1, <3>2 DEF Last
  <2>2. CASE i # Len(s) + 1
    BY <1>1, <1>3, <2>2 DEF Linked
  <2> QED
    BY <2>1, <2>2
<1> QED
  BY <1>2, <1>3 DEF Linked, t

LEMMA LinkedFront ==
  ASSUME NEW a, NEW s \in Seq(Frame), s # <<>>, Linked(a, s)
  PROVE  Linked(a, Front(s))
<1> DEFINE t == Front(s)
<1>1. /\ Len(s) \in Nat \ {0} /\ DOMAIN s = 1 .. Len(s) /\ DOMAIN t = 1 .. Len(s) - 1
      /\ \A i \in DOMAIN t : t[i] = s[i]
      /\ t # <<>> => 1 \in DOMAIN t
  BY FrontAt, Zenon
<1> HIDE DEF t
<1>2. t # <<>> => Follows(a, t[1])
  BY <1>1 DEF Linked
<1>3. \A i \in DOMAIN t : i > 1 => Follows(t[i - 1].age, t[i])
  BY <1>1 DEF Linked
<1> QED
  BY <1>2, <1>3 DEF Linked, t

LEMMA TailAt ==
  ASSUME NEW s \in Seq(Frame), s # <<>>
  PROVE  /\ Tail(s) \in Seq(Frame) /\ Head(s) \in Frame /\ Head(s) = s[1]
         /\ Len(s) \in Nat \ {0} /\ DOMAIN s = 1 .. Len(s)
         /\ Len(Tail(s)) = Len(s) - 1 /\ DOMAIN Tail(s) = 1 .. Len(s) - 1
         /\ \A i \in DOMAIN Tail(s) : Tail(s)[i] = s[i + 1]
         /\ Tail(s) # <<>> => Len(s) > 1 /\ Last(Tail(s)) = Last(s)
         /\ Tail(s) = <<>> => Len(s) = 1 /\ Last(s) = Head(s)
<1> DEFINE t == Tail(s)
<1>1. /\ t \in Seq(Frame) /\ Head(s) \in Frame /\ Head(s) = s[1]
      /\ Len(s) \in Nat \ {0} /\ DOMAIN s = 1 .. Len(s)
      /\ Len(t) = Len(s) - 1 /\ DOMAIN t = 1 .. Len(s) - 1
      /\ \A i \in DOMAIN t : t[i] = s[i + 1]
  OBVIOUS
<1> HIDE DEF t
<1>2. t # <<>> => Len(s) > 1 /\ Len(t) \in DOMAIN t
  BY <1>1
<1>3. t = <<>> => Len(s) = 1
  <2> SUFFICES ASSUME t = <<>> PROVE Len(s) = 1
    OBVIOUS
  <2>1. Len(t) = 0
    BY EmptySeq
  <2>2. Len(s) - 1 = 0 /\ Len(s) \in Nat
    BY <1>1, <2>1
  <2> QED
    BY <2>2
<1>4. t # <<>> => Last(t) = Last(s)
  BY <1>1, <1>2 DEF Last
<1>5. t = <<>> => Last(s) = Head(s)
  BY <1>1, <1>3 DEF Last
<1> QED
  BY <1>1, <1>2, <1>3, <1>4, <1>5, Zenon DEF t

LEMMA LinkedTail ==
  ASSUME NEW a, NEW s \in Seq(Frame), s # <<>>, Linked(a, s)
  PROVE  Linked(Head(s).age, Tail(s))
<1> DEFINE t == Tail(s)
<1>1. /\ Len(s) \in Nat \ {0} /\ DOMAIN s = 1 .. Len(s) /\ DOMAIN t = 1 .. Len(s) - 1
      /\ \A i \in DOMAIN t : t[i] = s[i + 1]
      /\ t # <<>> => 1 \in DOMAIN t
      /\ Head(s) = s[1]
  OBVIOUS
<1> HIDE DEF t
<1>2. t # <<>> => Follows(s[1].age, t[1])
  <2>1. t # <<>> => 2 \in DOMAIN s /\ t[1] = s[2] /\ 2 - 1 = 1 /\ 2 > 1
    BY <1>1
  <2> QED
    BY <2>1 DEF Linked
<1>3. ASSUME NEW i \in DOMAIN t, i > 1
      PROVE  Follows(t[i - 1].age, t[i])
  <2>1. i + 1 \in DOMAIN s /\ i - 1 \in DOMAIN t /\ (i - 1) + 1 = i /\ (i + 1) - 1 = i /\ i + 1 > 1
    BY <1>1, <1>3
  <2>2. Follows(s[i].age, s[i + 1])
    BY <2>1 DEF Linked
  <2>3. t[i] = s[i + 1] /\ t[i - 1] = s[i]
    BY <1>1, <2>1
  <2> QED
    BY <2>2, <2>3
<1> QED
  BY <1>1, <1>2, <1>3 DEF Linked, t

LEMMA LinkedSame ==
  ASSUME NEW a, NEW s \in Seq(Frame), NEW t \in Seq(Frame), Linked(a, s), Len(t) = Len(s),
         \A i \in 1 .. Len(s) : t[i].age = s[i].age /\ t[i].key = s[i].key
  PROVE  Linked(a, t)
<1>1. /\ Len(s) \in Nat /\ DOMAIN s = 1 .. Len(s) /\ DOMAIN t = 1 .. Len(s)
      /\ t # <<>> => s # <<>> /\ 1 \in DOMAIN s
  OBVIOUS
<1>2. t # <<>> => Follows(a, t[1])
  BY <1>1 DEF Linked, Follows
<1>3. ASSUME NEW i \in DOMAIN t, i > 1
      PROVE  Follows(t[i - 1].age, t[i])
  <2>1. i - 1 \in DOMAIN s /\ i \in DOMAIN s
    BY <1>1, <1>3
  <2>2. Follows(s[i - 1].age, s[i])
    BY <1>3, <2>1 DEF Linked
  <2> QED
    BY <1>1, <2>1, <2>2 DEF Follows
<1> QED
  BY <1>2, <1>3 DEF Linked

LEMMA OlderType == \A age \in Ages : Older(age) \in Ages
BY TunnelAssumption DEF Older, Ages

LEMMA FrameAged ==
  ASSUME NEW f \in Frame
  PROVE  /\ [f EXCEPT !.age = Older(@)] \in Frame
         /\ [f EXCEPT !.age = Older(@)].age = Older(f.age)
         /\ [f EXCEPT !.age = Older(@)].key = f.key
         /\ [f EXCEPT !.age = Older(@)].count = f.count
         /\ [f EXCEPT !.age = Older(@)].got = f.got
BY OlderType DEF Frame

\* Every frame one older.
LEMMA FramesAged ==
  ASSUME NEW s \in Seq(Frame)
  PROVE  /\ Aged(s) \in Seq(Frame)
         /\ Len(Aged(s)) = Len(s) /\ DOMAIN Aged(s) = DOMAIN s
         /\ Aged(s) = <<>> <=> s = <<>>
         /\ \A i \in DOMAIN s :
              /\ Aged(s)[i].age = Older(s[i].age)
              /\ Aged(s)[i].key = s[i].key
              /\ Aged(s)[i].count = s[i].count
              /\ Aged(s)[i].got = s[i].got
<1>1. Len(s) \in Nat /\ DOMAIN s = 1 .. Len(s) /\ \A i \in DOMAIN s : s[i] \in Frame
  OBVIOUS
<1>2. \A i \in DOMAIN s : Aged(s)[i] = [s[i] EXCEPT !.age = Older(@)]
  BY DEF Aged
<1>3. \A i \in DOMAIN s : Aged(s)[i] \in Frame
  BY <1>1, <1>2, FrameAged
<1>4. Aged(s) \in [1 .. Len(s) -> Frame]
  BY <1>1, <1>3 DEF Aged
<1>5. Aged(s) \in Seq(Frame) /\ Len(Aged(s)) = Len(s)
  BY <1>1, <1>4
<1>6. DOMAIN Aged(s) = DOMAIN s
  BY DEF Aged
<1>7. Aged(s) = <<>> <=> s = <<>>
  BY <1>5
<1> QED
  BY <1>1, <1>2, <1>5, <1>6, <1>7, FrameAged

LEMMA LinkedAged ==
  ASSUME NEW a, NEW s \in Seq(Frame), Linked(a, s)
  PROVE  Linked(Older(a), Aged(s))
<1>1. /\ Len(s) \in Nat /\ DOMAIN s = 1 .. Len(s)
      /\ s # <<>> => 1 \in DOMAIN s
  OBVIOUS
<1>2. s # <<>> => Follows(Older(a), Aged(s)[1])
  BY <1>1, FramesAged DEF Linked, Follows
<1>3. ASSUME NEW i \in DOMAIN s, i > 1
      PROVE  Follows(Aged(s)[i - 1].age, Aged(s)[i])
  <2>1. i - 1 \in DOMAIN s
    BY <1>1, <1>3
  <2>2. Follows(s[i - 1].age, s[i])
    BY <1>3 DEF Linked
  <2> QED
    BY <2>1, <2>2, FramesAged DEF Follows
<1> QED
  BY <1>2, <1>3, FramesAged DEF Linked

-----------------------------------------------------------------------------
(* VideoQueue.push: what the queue holds while a frame goes in.            *)

\* The frame being sent, of which some fragments came.
SentFrame(got) == [age |-> 0, key |-> sending.key, count |-> sending.count, got |-> got]

Complete(f) == f.got = f.count

\* A queue that has the frame being sent as its last, and one without it.
Holds(v, got) ==
  /\ v \in VideoRecord /\ Counted(v) /\ Linked(Taken, v.frames) /\ ~v.discarded
  /\ v.frames # <<>> /\ Last(v.frames) = SentFrame(got)
  /\ \A i \in DOMAIN v.frames : i < Len(v.frames) => Complete(v.frames[i])

Lacks(v) ==
  /\ v \in VideoRecord /\ Counted(v) /\ Linked(Taken, v.frames) /\ v.discarded /\ v.awaiting
  /\ \A i \in DOMAIN v.frames : Complete(v.frames[i])

LEMMA Limits ==
  /\ FRAME_LIMIT \in Nat \ {0} /\ BYTE_LIMIT \in Nat \ {0} /\ 0 \in Ages
BY TunnelAssumption DEF Ages

LEMMA VideoParts ==
  ASSUME NEW v \in VideoRecord
  PROVE  /\ v.frames \in Seq(Frame) /\ v.bytes \in Nat
         /\ v.awaiting \in BOOLEAN /\ v.discarded \in BOOLEAN /\ v.other \in BOOLEAN
BY DEF VideoRecord

\* What is known of the frame a fragment is pushed of.
LEMMA SendingParts ==
  ASSUME TypeOK, SendingInv, sending # NotSending
  PROVE  /\ sending.key \in BOOLEAN /\ sending.count \in Nat \ {0} /\ sending.at \in Nat
         /\ sending.at < sending.count /\ ~closed
         /\ \A got \in Nat : SentFrame(got) \in Frame
<1>1. /\ sending.key \in BOOLEAN /\ sending.count \in Nat /\ sending.at \in Nat
      /\ sending.at < sending.count /\ ~closed
  BY DEF TypeOK, SendingInv
<1>2. sending.count \in Nat \ {0}
  BY <1>1
<1>3. \A got \in Nat : SentFrame(got) \in Frame
  BY <1>1, <1>2, Limits DEF SentFrame, Frame
<1> QED
  BY <1>1, <1>2, <1>3

\* Without a partial frame all are complete.
LEMMA AllComplete ==
  ASSUME TypeOK, PartialInv, NEW i \in DOMAIN video.frames,
         ~Arriving \/ i < Len(video.frames)
  PROVE  Complete(video.frames[i])
<1>1. video.frames \in Seq(Frame)
  BY VideoParts DEF TypeOK
<1>2. Len(video.frames) \in Nat /\ i \in 1 .. Len(video.frames) /\ video.frames[i] \in Frame
  BY <1>1
<1>3. video.frames[i].got \in Nat /\ video.frames[i].count \in Nat
  BY <1>2, FrameParts
<1>4. /\ video.frames[i].got <= video.frames[i].count
      /\ ~(video.frames[i].got < video.frames[i].count)
  BY <1>2 DEF PartialInv
<1> QED
  BY <1>3, <1>4 DEF Complete

LEMMA OpenedHolds ==
  ASSUME IInv, sending # NotSending, ~video.discarded, ~Dependent, ~NoRoom
  PROVE  Holds(Opened, sending.at)
<1>1. video \in VideoRecord /\ video.frames \in Seq(Frame) /\ video.bytes \in Nat
  BY VideoParts DEF IInv, TypeOK
<1>2. Counted(video) /\ Linked(Taken, video.frames)
  BY DEF IInv, DecodeInv
<1>3. CASE ~First
  <2>1. Opened = video /\ Arriving
    BY <1>3, SendingParts DEF Opened, First, Arriving, IInv
  <2>2. video.frames # <<>> /\ Last(video.frames) = SentFrame(sending.at)
    BY <2>1 DEF IInv, PartialInv, SentFrame
  <2> QED
    BY <1>1, <1>2, <2>1, <2>2, AllComplete DEF Holds, IInv
<1>4. CASE First
  <2> DEFINE f == SentFrame(0)
             full == sending.key /\ Len(video.frames) >= FRAME_LIMIT
             base == IF full THEN <<>> ELSE video.frames
  <2>1. f \in Frame /\ f.got = 0 /\ f.key = sending.key /\ f.age = 0
    BY SendingParts DEF IInv, SentFrame
  <2>2. /\ Opened.frames = Append(base, f)
        /\ Opened.bytes = IF full THEN 0 ELSE video.bytes
        /\ Opened.discarded = video.discarded
        /\ Opened \in [frames : {Append(base, f)}, bytes : {IF full THEN 0 ELSE video.bytes},
                       awaiting : {IF sending.key THEN FALSE ELSE video.awaiting},
                       discarded : {video.discarded}, other : {video.other}]
    BY <1>1, <1>4 DEF Opened, SentFrame, VideoRecord
  <2>3. base \in Seq(Frame) /\ Len(base) < FRAME_LIMIT
    <3>1. CASE full
      BY <3>1, Limits
    <3>2. CASE ~full
      <4>1. Len(video.frames) \in Nat
        BY <1>1
      <4>2. sending.key \in BOOLEAN /\ video.awaiting \in BOOLEAN
        BY <1>1, SendingParts, VideoParts DEF IInv
      <4> QED
        BY <1>1, <1>4, <3>2, <4>1, <4>2, Limits DEF Dependent, NoRoom
    <3> QED
      BY <3>1, <3>2
  <2>4. Linked(Taken, base) /\ Follows(IF base = <<>> THEN Taken ELSE Last(base).age, f)
    <3>1. CASE sending.key
      <4>1. Linked(Taken, <<>>)
        BY DEF Linked
      <4>2. Linked(Taken, base)
        BY <1>2, <4>1
      <4> QED
        BY <2>1, <3>1, <4>2 DEF Follows
    <3>2. CASE ~sending.key
      <4>1. base = video.frames /\ ~video.awaiting
        BY <1>4, <3>2 DEF Dependent
      <4>2. NewestOf(video.frames) = Older(0)
        BY <1>4, <4>1, SendingParts DEF IInv, DecodeInv, First
      <4> QED
        BY <1>2, <2>1, <4>1, <4>2 DEF Follows, NewestOf
    <3> QED
      BY <3>1, <3>2
  <2>5. BytesOf(base) = (IF full THEN 0 ELSE video.bytes) /\ Opened.bytes <= BYTE_LIMIT
    BY <1>2, <2>2, BytesEmpty, Limits DEF Counted
  <2>6. \A i \in DOMAIN base : Complete(base[i])
    <3>1. ~Arriving
      BY <1>4 DEF First, Arriving
    <3> QED
      BY <3>1, AllComplete DEF IInv
  <2> HIDE DEF f, base, full
  <2>7. /\ Append(base, f) \in Seq(Frame) /\ Append(base, f) # <<>>
        /\ Len(Append(base, f)) = Len(base) + 1 /\ Len(base) \in Nat
        /\ Last(Append(base, f)) = f
        /\ \A i \in DOMAIN Append(base, f) :
             i < Len(Append(base, f)) => i \in DOMAIN base /\ Append(base, f)[i] = base[i]
    BY <2>1, <2>3 DEF Last
  <2>8. Linked(Taken, Opened.frames) /\ BytesOf(Opened.frames) = BytesOf(base)
    BY <2>1, <2>2, <2>3, <2>4, LinkedAppend, BytesAppend
  <2>9. Opened \in VideoRecord
    <3>1. (IF full THEN 0 ELSE video.bytes) \in Nat
      BY <1>1
    <3>2. /\ (IF sending.key THEN FALSE ELSE video.awaiting) \in BOOLEAN
          /\ video.discarded \in BOOLEAN /\ video.other \in BOOLEAN
      BY <1>1, VideoParts
    <3> QED
      BY <2>2, <2>7, <3>1, <3>2 DEF VideoRecord
  <2>10. Counted(Opened)
    BY <2>2, <2>3, <2>5, <2>7, <2>8, Limits DEF Counted
  <2>11. Last(Opened.frames) = SentFrame(sending.at) /\ Opened.frames # <<>>
    BY <1>4, <2>2, <2>7 DEF First, f
  <2>12. \A i \in DOMAIN Opened.frames : i < Len(Opened.frames) => Complete(Opened.frames[i])
    BY <2>2, <2>6, <2>7
  <2> QED
    BY <2>2, <2>8, <2>9, <2>10, <2>11, <2>12 DEF Holds
<1> QED
  BY <1>3, <1>4

LEMMA ClearedHolds ==
  ASSUME TypeOK, SendingInv, sending # NotSending, Holds(Opened, sending.at)
  PROVE  Holds(Cleared, sending.at)
<1> DEFINE v == Opened
           n == Len(v.frames)
<1>1. CASE ~(sending.key /\ Opened.bytes >= BYTE_LIMIT)
  BY <1>1 DEF Cleared
<1>2. CASE sending.key /\ Opened.bytes >= BYTE_LIMIT
  <2> DEFINE f == Last(v.frames)
  <2>1. /\ v \in VideoRecord /\ v.frames \in Seq(Frame) /\ v.frames # <<>>
        /\ f = SentFrame(sending.at)
    BY VideoParts DEF Holds
  <2>2. f \in Frame /\ f.key /\ f.got = sending.at /\ f.got \in Nat
    BY <1>2, <2>1, SendingParts DEF SentFrame
  <2>3. BytesOf(Front(v.frames)) \in Nat /\ v.bytes = BytesOf(Front(v.frames)) + f.got
    <3>1. BytesOf(v.frames) \in Nat /\ BytesOf(Front(v.frames)) \in Nat
      BY <2>1, FrontAt, FragmentsFinite
    <3> QED
      BY <2>1, <2>2, <3>1, BytesFront DEF Holds, Counted
  <2>4. f.got <= BYTE_LIMIT
    BY <2>2, <2>3, Limits DEF Holds, Counted
  <2>5. Cleared = [v EXCEPT !.frames = <<f>>, !.bytes = f.got]
    BY <1>2 DEF Cleared
  <2> HIDE DEF v, f
  <2>6. /\ Cleared.frames = <<f>> /\ Cleared.bytes = f.got /\ Cleared.discarded = v.discarded
        /\ Cleared \in VideoRecord
    <3>1. <<f>> \in Seq(Frame)
      BY <2>2
    <3> QED
      BY <2>1, <2>2, <2>5, <3>1 DEF VideoRecord
  <2>7. /\ Len(<<f>>) = 1 /\ DOMAIN <<f>> = {1} /\ <<f>>[1] = f /\ <<f>> # <<>>
        /\ Last(<<f>>) = f
    BY DEF Last
  <2>8. Counted(Cleared)
    BY <2>2, <2>4, <2>6, <2>7, BytesOne, Limits DEF Counted
  <2>9. Linked(Taken, Cleared.frames)
    <3>1. ~(1 > 1)
      OBVIOUS
    <3> QED
      BY <2>2, <2>6, <2>7, <3>1 DEF Linked, Follows
  <2>10. \A i \in DOMAIN Cleared.frames : ~(i < Len(Cleared.frames))
    BY <2>6, <2>7
  <2> QED
    BY <2>1, <2>6, <2>7, <2>8, <2>9, <2>10 DEF Holds, v
<1> QED
  BY <1>1, <1>2

LEMMA GrownHolds ==
  ASSUME TypeOK, SendingInv, sending # NotSending, Holds(Cleared, sending.at), Fits
  PROVE  Holds(Grown, sending.at + 1)
<1> DEFINE v == Cleared
           n == Len(v.frames)
           g == [v.frames EXCEPT ![n] = SentFrame(sending.at + 1)]
<1>1. /\ v \in VideoRecord /\ v.frames \in Seq(Frame) /\ v.frames # <<>> /\ v.bytes \in Nat
      /\ n \in Nat \ {0} /\ DOMAIN v.frames = 1 .. n /\ n \in DOMAIN v.frames
  BY VideoParts DEF Holds
<1>2. v.frames[n] = SentFrame(sending.at) /\ sending.at \in Nat /\ sending.at + 1 \in Nat
  BY SendingParts DEF Holds, Last
<1>3. SentFrame(sending.at + 1) \in Frame
  BY <1>2, SendingParts
<1>4. [SentFrame(sending.at) EXCEPT !.got = @ + 1] = SentFrame(sending.at + 1)
  BY DEF SentFrame
<1>5. /\ Grown.frames = g /\ Grown.bytes = v.bytes + 1 /\ Grown.discarded = v.discarded
      /\ Grown.awaiting = v.awaiting /\ Grown.other = v.other
      /\ Grown = [frames |-> Grown.frames, bytes |-> Grown.bytes, awaiting |-> Grown.awaiting,
                  discarded |-> Grown.discarded, other |-> Grown.other]
  <2>1. Grown.frames = [v.frames EXCEPT ![n].got = @ + 1]
    BY <1>1 DEF Grown, VideoRecord
  <2>2. [v.frames EXCEPT ![n].got = @ + 1] = g
    BY <1>1, <1>2, <1>4
  <2>3. /\ Grown.bytes = v.bytes + 1 /\ Grown.discarded = v.discarded
        /\ Grown.awaiting = v.awaiting /\ Grown.other = v.other
    BY <1>1 DEF Grown, VideoRecord
  <2>4. Grown = [frames |-> Grown.frames, bytes |-> Grown.bytes, awaiting |-> Grown.awaiting,
                 discarded |-> Grown.discarded, other |-> Grown.other]
    <3> DEFINE fs == [v.frames EXCEPT ![n].got = @ + 1]
    <3>1. Grown = [v EXCEPT !.frames = fs, !.bytes = v.bytes + 1]
      BY Zenon DEF Grown
    <3> HIDE DEF fs, v, n
    <3> QED
      BY <1>1, <3>1 DEF VideoRecord
  <2> QED
    BY <2>1, <2>2, <2>3, <2>4
<1> HIDE DEF v
<1>6. /\ g \in Seq(Frame) /\ Len(g) = n /\ DOMAIN g = 1 .. n /\ g # <<>>
      /\ g[n] = SentFrame(sending.at + 1)
      /\ \A i \in 1 .. n : i # n => g[i] = v.frames[i]
  BY <1>1, <1>3
<1> HIDE DEF g, n
<1>7. Grown.frames = g /\ Grown.bytes = v.bytes + 1 /\ Grown.discarded = v.discarded
      /\ Grown \in VideoRecord
  BY <1>1, <1>5, <1>6 DEF VideoRecord
<1>8. \A i \in 1 .. n : /\ g[i].got = IF i = n THEN v.frames[i].got + 1 ELSE v.frames[i].got
                        /\ g[i].age = v.frames[i].age /\ g[i].key = v.frames[i].key
  BY <1>2, <1>6 DEF SentFrame
<1>9. BytesOf(g) = BytesOf(v.frames) + 1 /\ Linked(Taken, g)
  <2>1. Linked(Taken, v.frames)
    BY DEF Holds, v
  <2> QED
    BY <1>1, <1>6, <1>8, <2>1, BytesGrow, LinkedSame DEF n
<1>10. Counted(Grown)
  BY <1>1, <1>6, <1>7, <1>9, Limits DEF Counted, Holds, Fits, v, n
<1>11. Last(g) = SentFrame(sending.at + 1)
  BY <1>6 DEF Last
<1>12. \A i \in DOMAIN g : i < Len(g) => Complete(g[i])
  <2> TAKE i \in DOMAIN g
  <2> HAVE i < Len(g)
  <2>1. i # n /\ i \in DOMAIN v.frames /\ g[i] = v.frames[i] /\ i < Len(v.frames)
    BY <1>1, <1>6 DEF n
  <2> QED
    BY <2>1 DEF Holds, v
<1> QED
  BY <1>6, <1>7, <1>9, <1>10, <1>11, <1>12 DEF Holds, v

LEMMA LostLacks ==
  ASSUME TypeOK, SendingInv, sending # NotSending, Holds(Cleared, sending.at)
  PROVE  Lacks(Lose(WithoutLast(Cleared)))
<1> DEFINE v == Cleared
           t == Front(v.frames)
           w == Lose(WithoutLast(v))
           b == BytesOf(t)
<1>1. /\ v \in VideoRecord /\ v.frames \in Seq(Frame) /\ v.frames # <<>> /\ v.bytes \in Nat
      /\ v.bytes = BytesOf(v.frames) /\ v.bytes <= BYTE_LIMIT /\ Len(v.frames) <= FRAME_LIMIT
      /\ Linked(Taken, v.frames)
      /\ \A i \in DOMAIN v.frames : i < Len(v.frames) => Complete(v.frames[i])
  BY VideoParts DEF Holds, Counted
<1>2. Last(v.frames).got \in Nat
  BY SendingParts DEF Holds, SentFrame
<1> HIDE DEF v
<1>3. b \in Nat /\ v.bytes - Last(v.frames).got = b
  BY <1>1, FrontAt, FragmentsFinite, BytesFront
<1>4. /\ t \in Seq(Frame) /\ Len(t) <= FRAME_LIMIT /\ Linked(Taken, t)
      /\ \A i \in DOMAIN t : Complete(t[i])
  <2>1. /\ t \in Seq(Frame) /\ Len(v.frames) \in Nat \ {0} /\ DOMAIN t = 1 .. Len(v.frames) - 1
        /\ DOMAIN v.frames = 1 .. Len(v.frames) /\ Len(t) = Len(v.frames) - 1
        /\ \A i \in DOMAIN t : t[i] = v.frames[i]
    BY <1>1, FrontAt
  <2>2. Linked(Taken, t)
    BY <1>1, LinkedFront
  <2> HIDE DEF t
  <2>3. \A i \in DOMAIN t : Complete(t[i])
    BY <1>1, <2>1
  <2> QED
    BY <1>1, <2>1, <2>2, <2>3, Limits
<1>5. w = [v EXCEPT !.frames = t, !.bytes = b, !.discarded = TRUE, !.awaiting = TRUE]
  BY <1>1, <1>3 DEF Lose, WithoutLast, VideoRecord
<1> HIDE DEF t, b
<1>6. /\ w.frames = t /\ w.bytes = b /\ w.discarded /\ w.awaiting
      /\ w \in VideoRecord
  BY <1>1, <1>3, <1>4, <1>5 DEF VideoRecord
<1>7. b <= BYTE_LIMIT
  BY <1>1, <1>2, <1>3, Limits
<1> HIDE DEF w
<1>8. Lacks(w)
  BY <1>4, <1>6, <1>7 DEF Lacks, Counted, b
<1> QED
  BY <1>8 DEF w, v

\* Whatever becomes of a fragment, the queue holds its frame or lacks it.
LEMMA PushResult ==
  ASSUME IInv, PushFragment
  PROVE  \E v \in VideoRecord :
           /\ Holds(v, sending.at + 1) \/ Lacks(v)
           /\ video' = Settled(Named(v))
<1>1. sending # NotSending /\ TypeOK /\ SendingInv
  BY DEF PushFragment, IInv
<1>2. /\ video \in VideoRecord /\ video.frames \in Seq(Frame) /\ Counted(video)
      /\ Linked(Taken, video.frames) /\ video.awaiting \in BOOLEAN
      /\ video.discarded \in BOOLEAN
  BY VideoParts DEF IInv, TypeOK, DecodeInv
<1>3. ASSUME NEW v \in VideoRecord, v.frames = video.frames, v.bytes = video.bytes,
             v.awaiting, v.discarded, ~Arriving
      PROVE  Lacks(v)
  BY <1>2, <1>3, AllComplete DEF IInv, Lacks, Counted
<1>4. CASE video.discarded
  <2>1. video.awaiting /\ ~Arriving
    BY <1>1, <1>4 DEF SendingInv, Arriving
  <2>2. video' = Settled(Named(video))
    BY <1>4 DEF PushFragment, Pushed
  <2> QED
    BY <1>2, <1>3, <1>4, <2>1, <2>2
<1>5. CASE ~video.discarded /\ Dependent
  <2> DEFINE v == [video EXCEPT !.discarded = TRUE]
  <2>1. /\ v \in VideoRecord /\ v.frames = video.frames /\ v.bytes = video.bytes
        /\ v.awaiting = video.awaiting /\ v.discarded
    BY <1>2 DEF VideoRecord
  <2>2. video.awaiting /\ ~Arriving
    BY <1>5 DEF Dependent, First, Arriving
  <2>3. video' = Settled(Named(v))
    BY <1>5 DEF PushFragment, Pushed, NoRoom, Dependent
  <2> HIDE DEF v
  <2>4. Lacks(v)
    BY <1>3, <2>1, <2>2
  <2> QED
    BY <2>1, <2>3, <2>4
<1>6. CASE ~video.discarded /\ NoRoom
  <2> DEFINE v == Lose(video)
  <2>1. /\ v \in VideoRecord /\ v.frames = video.frames /\ v.bytes = video.bytes
        /\ v.awaiting /\ v.discarded
    BY <1>2 DEF VideoRecord, Lose
  <2>2. ~Arriving
    BY <1>6 DEF NoRoom, First, Arriving
  <2>3. video' = Settled(Named(v))
    BY <1>6 DEF PushFragment, Pushed, NoRoom, Dependent
  <2> HIDE DEF v
  <2>4. Lacks(v)
    BY <1>3, <2>1, <2>2
  <2> QED
    BY <2>1, <2>3, <2>4
<1>7. CASE ~video.discarded /\ ~Dependent /\ ~NoRoom
  <2>1. Holds(Cleared, sending.at)
    BY <1>1, <1>7, OpenedHolds, ClearedHolds
  <2>2. CASE Fits
    <3>1. Holds(Grown, sending.at + 1) /\ video' = Settled(Named(Grown))
      BY <1>1, <1>7, <2>1, <2>2, GrownHolds DEF PushFragment, Pushed
    <3> QED
      BY <3>1 DEF Holds
  <2>3. CASE ~Fits
    <3>1. /\ Lacks(Lose(WithoutLast(Cleared)))
          /\ video' = Settled(Named(Lose(WithoutLast(Cleared))))
      BY <1>1, <1>7, <2>1, <2>3, LostLacks DEF PushFragment, Pushed
    <3> QED
      BY <3>1 DEF Lacks
  <2> QED
    BY <2>2, <2>3
<1> QED
  BY <1>4, <1>5, <1>6, <1>7

LEMMA SettledParts ==
  ASSUME NEW v \in VideoRecord
  PROVE  /\ Settled(Named(v)) \in VideoRecord
         /\ Settled(Named(v)).frames = v.frames /\ Settled(Named(v)).bytes = v.bytes
         /\ Settled(Named(v)).awaiting = v.awaiting
         /\ Settled(Named(v)).discarded = (v.discarded /\ sending.at + 1 # sending.count)
<1>1. /\ Named(v) \in VideoRecord /\ Named(v).frames = v.frames /\ Named(v).bytes = v.bytes
      /\ Named(v).awaiting = v.awaiting /\ Named(v).discarded = v.discarded
  BY DEF Named, VideoRecord
<1> QED
  BY <1>1 DEF Settled, VideoRecord

LEMMA PushKeeps ==
  ASSUME IInv, PushFragment
  PROVE  /\ video' \in VideoRecord /\ SendingInv' /\ PartialInv' /\ Counted(video)' /\ DecodeInv'
<1>1. PICK v \in VideoRecord :
        /\ Holds(v, sending.at + 1) \/ Lacks(v)
        /\ video' = Settled(Named(v))
  BY PushResult
<1>2. /\ video' \in VideoRecord /\ video'.frames = v.frames /\ video'.bytes = v.bytes
      /\ video'.awaiting = v.awaiting
      /\ video'.discarded = (v.discarded /\ sending.at + 1 # sending.count)
  BY <1>1, SettledParts
<1>3. /\ sending # NotSending /\ TypeOK /\ SendingInv
      /\ sending' = IF sending.at + 1 = sending.count THEN NotSending
                    ELSE [sending EXCEPT !.at = @ + 1]
      /\ UNCHANGED <<writer, shown, closed>>
  BY DEF PushFragment, IInv
<1>4. /\ sending.key \in BOOLEAN /\ sending.count \in Nat \ {0} /\ sending.at \in Nat
      /\ sending.at < sending.count /\ ~closed
  BY <1>3, SendingParts
<1>5. CASE sending.at + 1 = sending.count
  <2>1. sending' = NotSending /\ sending'.at = 0 /\ ~video'.discarded /\ ~Arriving'
    <3>1. sending' = NotSending /\ ~video'.discarded
      BY <1>2, <1>3, <1>5
    <3>2. sending'.at = 0 /\ ~(0 > 0)
      BY <3>1 DEF NotSending
    <3> QED
      BY <3>1, <3>2 DEF Arriving
  <2>2. SendingInv'
    BY <1>3, <1>4, <2>1 DEF SendingInv
  <2>3. \A i \in DOMAIN v.frames : Complete(v.frames[i])
    <3>1. CASE Lacks(v)
      BY <3>1 DEF Lacks
    <3>2. CASE Holds(v, sending.at + 1)
      <4>1. Complete(v.frames[Len(v.frames)])
        BY <1>5, <3>2 DEF Holds, Last, Complete, SentFrame
      <4>2. v.frames \in Seq(Frame)
        BY VideoParts
      <4>3. Len(v.frames) \in Nat /\ DOMAIN v.frames = 1 .. Len(v.frames)
        BY <4>2
      <4> QED
        BY <3>2, <4>1, <4>3 DEF Holds
    <3> QED
      BY <1>1, <3>1, <3>2
  <2>4. PartialInv'
    <3>1. \A i \in DOMAIN v.frames : v.frames[i].got \in Nat
      BY VideoParts, FrameAt
    <3> QED
      BY <1>2, <2>1, <2>3, <3>1 DEF PartialInv, Complete
  <2>5. Counted(video)' /\ Linked(Taken, video.frames)'
    BY <1>1, <1>2, <1>3 DEF Holds, Lacks, Counted, Taken
  <2>6. ~video'.awaiting => NewestOf(video.frames)' = 0
    BY <1>1, <1>2, <1>3 DEF Holds, Lacks, NewestOf, SentFrame
  <2>7. DecodeInv'
    BY <1>3, <2>1, <2>5, <2>6 DEF DecodeInv, IInv
  <2> QED
    BY <1>2, <2>2, <2>4, <2>5, <2>7
<1>6. CASE sending.at + 1 # sending.count
  <2>1. /\ sending' \in [key : BOOLEAN, count : Nat, at : Nat]
        /\ sending'.key = sending.key /\ sending'.count = sending.count
        /\ sending'.at = sending.at + 1 /\ sending'.at > 0 /\ sending'.at < sending'.count
        /\ sending' # NotSending /\ video'.discarded = v.discarded
    <3>1. sending \in [key : BOOLEAN, count : Nat, at : Nat]
      BY <1>3 DEF TypeOK
    <3>2. sending' = [sending EXCEPT !.at = @ + 1]
      BY <1>3, <1>6
    <3>3. /\ sending' \in [key : BOOLEAN, count : Nat, at : Nat]
          /\ sending'.key = sending.key /\ sending'.count = sending.count
          /\ sending'.at = sending.at + 1
      BY <3>1, <3>2
    <3>4. sending'.at > 0 /\ sending'.at < sending'.count
      BY <1>4, <1>6, <3>3
    <3>5. sending' # NotSending
      BY <3>3, <3>4, <1>4 DEF NotSending
    <3>6. video'.discarded = v.discarded
      BY <1>2, <1>6, VideoParts
    <3> QED
      BY <3>3, <3>4, <3>5, <3>6
  <2>2. SendingInv'
    <3>1. v.discarded => v.awaiting
      BY <1>1 DEF Holds, Lacks
    <3> QED
      BY <1>2, <1>3, <1>4, <2>1, <3>1 DEF SendingInv
  <2>3. Arriving' <=> Holds(v, sending.at + 1)
    BY <1>1, <2>1 DEF Arriving, Holds, Lacks
  <2>4. PartialInv'
    <3>1. /\ v.frames \in Seq(Frame) /\ Len(v.frames) \in Nat
          /\ DOMAIN v.frames = 1 .. Len(v.frames)
          /\ \A i \in DOMAIN v.frames : v.frames[i].got \in Nat
      BY VideoParts, FrameAt
    <3>2. CASE Lacks(v)
      BY <1>2, <2>3, <3>1, <3>2 DEF PartialInv, Lacks, Holds, Complete
    <3>3. CASE Holds(v, sending.at + 1)
      <4>1. /\ v.frames # <<>>
            /\ v.frames[Len(v.frames)] = SentFrame(sending.at + 1)
            /\ v.frames[Len(v.frames)].got = sending.at + 1
            /\ v.frames[Len(v.frames)].count = sending.count
        BY <3>3 DEF Holds, Last, SentFrame
      <4>2. /\ video'.frames # <<>>
            /\ Last(video'.frames) = [age |-> 0, key |-> sending'.key, count |-> sending'.count,
                                      got |-> sending'.at]
        BY <1>2, <2>1, <4>1 DEF Last, SentFrame
      <4>3. ASSUME NEW i \in DOMAIN v.frames
            PROVE  /\ v.frames[i].got <= v.frames[i].count
                   /\ v.frames[i].got < v.frames[i].count => i = Len(v.frames)
        <5>1. CASE i = Len(v.frames)
          BY <1>4, <4>1, <5>1
        <5>2. CASE i # Len(v.frames)
          BY <3>1, <3>3, <5>2 DEF Holds, Complete
        <5> QED
          BY <5>1, <5>2
      <4> QED
        BY <1>2, <2>3, <3>3, <4>2, <4>3 DEF PartialInv
    <3> QED
      BY <1>1, <3>2, <3>3
  <2>5. Counted(video)' /\ Linked(Taken, video.frames)'
    BY <1>1, <1>2, <1>3 DEF Holds, Lacks, Counted, Taken
  <2>6. ~video'.awaiting => NewestOf(video.frames)' = 0
    BY <1>1, <1>2, <1>3 DEF Holds, Lacks, NewestOf, SentFrame
  <2>7. DecodeInv'
    <3>1. ~(sending'.at = 0)
      BY <2>1
    <3> QED
      BY <1>3, <2>5, <2>6, <3>1 DEF DecodeInv, IInv
  <2> QED
    BY <1>2, <2>2, <2>4, <2>5, <2>7
<1> QED
  BY <1>5, <1>6

-----------------------------------------------------------------------------
(* The other steps.                                                        *)

\* What the queue's invariants speak of stays.
StillQueue ==
  /\ sending' = sending /\ closed' = closed /\ shown' = shown
  /\ video'.frames = video.frames /\ video'.bytes = video.bytes
  /\ video'.awaiting = video.awaiting /\ video'.discarded = video.discarded
  /\ writer'.left = writer.left /\ writer'.frame = writer.frame
  /\ closed => UNCHANGED <<video, controls, writer>>

QueueInv == SendingInv /\ PartialInv /\ Counted(video) /\ DecodeInv

LEMMA StillKeeps ==
  ASSUME QueueInv, StillQueue
  PROVE  QueueInv'
<1>1. SendingInv'
  BY DEF QueueInv, SendingInv, StillQueue
<1>2. Arriving' = Arriving /\ Taken' = Taken
      /\ NewestOf(video.frames)' = NewestOf(video.frames)
  BY DEF StillQueue, Arriving, Taken, NewestOf
<1>3. PartialInv'
  BY <1>2 DEF QueueInv, PartialInv, StillQueue
<1>4. Counted(video)'
  BY DEF QueueInv, Counted, StillQueue
<1>5. DecodeInv'
  BY <1>2 DEF QueueInv, DecodeInv, StillQueue
<1> QED
  BY <1>1, <1>3, <1>4, <1>5 DEF QueueInv

WriterParts ==
  /\ writer.at \in {"head", "parked"} /\ writer.job \in {None, "ack", "bye"}
  /\ writer.frame \in [age : Ages, key : BOOLEAN, count : Nat]
  /\ writer.left \in Nat /\ writer.armed \in BOOLEAN

LEMMA WriterType == TypeOK => WriterParts
BY DEF TypeOK, WriterRecord, WriterParts

\* The steps that leave the frames alone, each with the types it keeps.
Bystander ==
  \/ Encode \/ Ask \/ Arrive \/ Leave \/ SendControl \/ Goodbye \/ Flush \/ Restart
  \/ TakeControl \/ Park \/ Wake \/ Alarm \/ WroteControl \/ Tick \/ UNCHANGED vars

LEMMA BystanderStill == ASSUME TypeOK, Bystander PROVE StillQueue
<1>1. /\ video \in VideoRecord /\ writer \in WriterRecord
  BY DEF TypeOK
<1>2. CASE \/ Encode \/ Ask \/ Leave \/ SendControl \/ Goodbye \/ Flush \/ Tick
           \/ UNCHANGED vars
  BY <1>2 DEF Encode, Ask, Leave, SendControl, Goodbye, Flush, Tick, vars, host, queue, history,
              StillQueue
<1>3. CASE Arrive \/ Restart
  <2>1. /\ video' = [video EXCEPT !.other = TRUE] /\ ~closed
        /\ UNCHANGED <<sending, closed, shown, writer>>
    BY <1>3 DEF Arrive, Restart, history
  <2> QED
    BY <1>1, <2>1 DEF StillQueue, VideoRecord
<1>4. CASE TakeControl \/ Park \/ Wake \/ Alarm \/ WroteControl
  <2>1. /\ UNCHANGED <<sending, closed, shown, video>> /\ ~closed
        /\ \/ writer' = [writer EXCEPT !.job = Head(controls)]
           \/ writer' = [writer EXCEPT !.at = "parked", !.armed = backoff.pending]
           \/ writer' = [writer EXCEPT !.at = "head", !.armed = FALSE]
           \/ writer' = [writer EXCEPT !.job = None]
    BY <1>4 DEF TakeControl, Park, Wake, Alarm, WroteControl, host, queue, history
  <2>2. writer'.left = writer.left /\ writer'.frame = writer.frame
    BY <1>1, <2>1 DEF WriterRecord
  <2> QED
    BY <2>1, <2>2 DEF StillQueue
<1> QED
  BY <1>2, <1>3, <1>4 DEF Bystander

LEMMA StartFrameKeeps ==
  ASSUME TypeOK, QueueInv, StartFrame
  PROVE  QueueInv' /\ video' \in VideoRecord /\ writer' \in WriterRecord
<1> DEFINE frame == Head(video.frames)
           rest == Tail(video.frames)
<1>1. /\ video \in VideoRecord /\ video.frames \in Seq(Frame) /\ video.frames # <<>>
      /\ video.bytes \in Nat /\ frame.got = frame.count /\ ~closed
      /\ writer \in WriterRecord /\ writer.left = 0
      /\ UNCHANGED <<sending, shown, closed>>
  BY VideoParts DEF TypeOK, StartFrame, Ready, host, history
<1>2. /\ frame \in Frame /\ rest \in Seq(Frame) /\ Len(video.frames) \in Nat \ {0}
      /\ DOMAIN video.frames = 1 .. Len(video.frames) /\ DOMAIN rest = 1 .. Len(video.frames) - 1
      /\ Len(rest) = Len(video.frames) - 1 /\ frame = video.frames[1]
      /\ \A i \in DOMAIN rest : rest[i] = video.frames[i + 1]
      /\ rest # <<>> => Len(video.frames) > 1 /\ Last(rest) = Last(video.frames)
      /\ rest = <<>> => Len(video.frames) = 1 /\ Last(video.frames) = frame
  BY <1>1, TailAt, Zenon
<1>3. /\ frame.got \in Nat /\ frame.age \in Ages /\ frame.key \in BOOLEAN
      /\ frame.count \in Nat /\ frame.count > 0
  BY <1>2, FrameParts
<1>4. /\ writer' = [writer EXCEPT !.left = frame.count,
                       !.frame = [age |-> frame.age, key |-> frame.key, count |-> frame.count]]
      /\ video' = [video EXCEPT !.frames = rest, !.bytes = @ - frame.got]
  BY DEF StartFrame
<1> HIDE DEF frame, rest
<1>5. BytesOf(rest) \in Nat /\ video.bytes - frame.got = BytesOf(rest)
      /\ BytesOf(rest) <= BYTE_LIMIT
  <2>1. BytesOf(rest) \in Nat /\ BytesOf(rest) = video.bytes - frame.got
    BY <1>1, <1>2, FragmentsFinite, BytesTail DEF QueueInv, Counted, rest, frame
  <2> QED
    BY <1>1, <1>3, <2>1, Limits DEF QueueInv, Counted
<1>6. /\ writer' \in WriterRecord /\ writer'.left = frame.count /\ writer'.left > 0
      /\ writer'.frame.age = frame.age /\ writer'.frame.key = frame.key
  BY <1>1, <1>3, <1>4 DEF WriterRecord
<1>7. /\ video' \in VideoRecord /\ video'.frames = rest /\ video'.bytes = BytesOf(rest)
      /\ video'.awaiting = video.awaiting /\ video'.discarded = video.discarded
  BY <1>1, <1>2, <1>4, <1>5 DEF VideoRecord
<1>8. SendingInv'
  BY <1>1, <1>7 DEF QueueInv, SendingInv
<1>9. Arriving' = Arriving
  BY <1>1, <1>7 DEF Arriving
<1>10. ASSUME Arriving
       PROVE  rest # <<>> /\ Last(rest) = Last(video.frames)
  <2>1. Last(video.frames).got < Last(video.frames).count
    <3>1. sending # NotSending /\ sending.at < sending.count
      <4>1. sending # NotSending
        BY <1>10, <1>1 DEF Arriving, NotSending
      <4> QED
        BY <4>1 DEF QueueInv, SendingInv
    <3>2. Last(video.frames) = [age |-> 0, key |-> sending.key, count |-> sending.count,
                                got |-> sending.at]
      BY <1>10 DEF QueueInv, PartialInv
    <3> QED
      BY <3>1, <3>2
  <2>2. Last(video.frames) # frame
    BY <1>1, <1>3, <2>1
  <2> QED
    BY <1>2, <2>2
<1>11. PartialInv'
  <2>1. ASSUME NEW i \in DOMAIN rest
        PROVE  /\ rest[i].got <= rest[i].count
               /\ rest[i].got < rest[i].count => i = Len(rest) /\ Arriving
    <3>1. i + 1 \in DOMAIN video.frames /\ rest[i] = video.frames[i + 1] /\ i \in Nat
      BY <1>2, <2>1
    <3>2. /\ rest[i].got <= rest[i].count
          /\ rest[i].got < rest[i].count => i + 1 = Len(video.frames) /\ Arriving
      BY <3>1 DEF QueueInv, PartialInv
    <3> QED
      BY <1>2, <3>1, <3>2
  <2>2. Arriving => Last(video.frames) = [age |-> 0, key |-> sending.key, count |-> sending.count,
                                          got |-> sending.at]
    BY DEF QueueInv, PartialInv
  <2> QED
    BY <1>1, <1>7, <1>9, <1>10, <2>1, <2>2 DEF PartialInv
<1>12. Counted(video)'
  BY <1>2, <1>5, <1>7, Limits DEF Counted, QueueInv
<1>13. DecodeInv'
  <2>1. Taken = shown /\ Taken' = frame.age
    BY <1>1, <1>6 DEF Taken
  <2>2. Follows(shown, frame) /\ Linked(Taken, video.frames)
    BY <1>1, <1>2, <2>1 DEF QueueInv, DecodeInv, Linked
  <2>3. Follows(shown', writer'.frame)
    BY <1>1, <1>6, <2>2 DEF Follows
  <2>4. Linked(Taken', rest)
    BY <1>1, <2>1, <2>2, LinkedTail DEF rest, frame
  <2>5. NewestOf(video.frames)' = NewestOf(video.frames)
    BY <1>1, <1>2, <1>7, <2>1 DEF NewestOf
  <2> QED
    BY <1>1, <1>7, <2>3, <2>4, <2>5 DEF QueueInv, DecodeInv
<1> QED
  BY <1>6, <1>7, <1>8, <1>11, <1>12, <1>13 DEF QueueInv

LEMMA WriteKeeps ==
  ASSUME TypeOK, QueueInv, WriteFragment
  PROVE  QueueInv' /\ writer' \in WriterRecord /\ shown' \in Ages
<1>1. /\ writer \in WriterRecord /\ WriterParts /\ ~closed /\ writer.left > 0
      /\ UNCHANGED <<video, sending, controls, closed>> /\ shown \in Ages
  BY WriterType DEF TypeOK, WriteFragment, host, queue
<1>2. Follows(shown, writer.frame) /\ Taken = writer.frame.age
  BY <1>1 DEF QueueInv, DecodeInv, Taken
<1>3. CASE writer.left = 1
  <2>1. /\ writer' = [writer EXCEPT !.frame = NoFrame, !.left = 0]
        /\ shown' = writer.frame.age
    BY <1>3 DEF WriteFragment
  <2>2. writer' \in WriterRecord /\ writer'.left = 0 /\ ~(writer'.left > 0) /\ shown' \in Ages
    <3>1. NoFrame \in [age : Ages, key : BOOLEAN, count : Nat]
      BY Limits DEF NoFrame
    <3>2. writer.frame.age \in Ages
      BY <1>1 DEF WriterParts
    <3> HIDE DEF NoFrame
    <3>3. writer' \in WriterRecord /\ writer'.left = 0
      BY <1>1, <2>1, <3>1 DEF WriterRecord
    <3> QED
      BY <2>1, <3>2, <3>3
  <2>3. Taken' = Taken
    BY <1>2, <2>1, <2>2 DEF Taken
  <2> QED
    BY <1>1, <2>2, <2>3
    DEF QueueInv, SendingInv, PartialInv, Counted, DecodeInv, NewestOf, Arriving
<1>4. CASE writer.left # 1
  <2>1. writer' = [writer EXCEPT !.left = @ - 1] /\ shown' = shown
    BY <1>4 DEF WriteFragment
  <2>2. /\ writer' \in WriterRecord /\ writer'.left > 0 /\ writer'.frame = writer.frame
    <3>1. writer.left - 1 \in Nat /\ writer.left - 1 > 0
      BY <1>1, <1>4 DEF WriterParts
    <3> QED
      BY <1>1, <2>1, <3>1 DEF WriterRecord
  <2>3. Taken' = Taken
    BY <1>1, <2>1, <2>2 DEF Taken
  <2> QED
    BY <1>1, <1>2, <2>1, <2>2, <2>3
    DEF QueueInv, SendingInv, PartialInv, Counted, DecodeInv, NewestOf, Arriving
<1> QED
  BY <1>3, <1>4

LEMMA NewQueueSound ==
  /\ NewQueue \in VideoRecord /\ Counted(NewQueue) /\ NewQueue.frames = <<>>
  /\ \A a : Linked(a, <<>>)
  /\ ~NewQueue.discarded /\ ~NewQueue.awaiting
<1>1. /\ NewQueue \in VideoRecord /\ NewQueue.frames = <<>> /\ NewQueue.bytes = 0
      /\ ~NewQueue.discarded /\ ~NewQueue.awaiting
  BY DEF NewQueue, VideoRecord
<1>2. Counted(NewQueue)
  BY <1>1, BytesEmpty, Limits DEF Counted
<1>3. \A a : Linked(a, <<>>)
  BY DEF Linked
<1> QED
  BY <1>1, <1>2, <1>3

LEMMA NewWriterSound ==
  NewWriter \in WriterRecord /\ NewWriter.left = 0 /\ NewWriter.job = None
<1>1. NoFrame \in [age : Ages, key : BOOLEAN, count : Nat]
  BY Limits DEF NoFrame
<1> QED
  BY <1>1 DEF NewWriter, WriterRecord

LEMMA CloseKeeps ==
  ASSUME TypeOK, QueueInv, Close
  PROVE  QueueInv' /\ video' \in VideoRecord /\ writer' \in WriterRecord
<1>1. /\ closed' /\ sending' = NotSending /\ video' = NewQueue /\ controls' = <<>>
      /\ writer' = NewWriter /\ shown' = shown
  BY DEF Close, history
<1>2. NotSending.at = 0 /\ ~(0 > 0)
  BY DEF NotSending
<1>3. SendingInv' /\ ~Arriving'
  BY <1>1, <1>2, NewQueueSound DEF SendingInv, Arriving
<1>4. PartialInv'
  BY <1>1, <1>3, NewQueueSound DEF PartialInv
<1>5. Counted(video)'
  BY <1>1, NewQueueSound DEF Counted
<1>6. DecodeInv'
  <2>1. ~(NewWriter.left > 0)
    BY NewWriterSound
  <2> QED
    BY <1>1, <2>1, NewQueueSound DEF DecodeInv, Linked
<1> QED
  BY <1>1, <1>3, <1>4, <1>5, <1>6, NewQueueSound, NewWriterSound DEF QueueInv

LEMMA TakeNalKeeps ==
  ASSUME TypeOK, QueueInv, TakeNal
  PROVE  /\ QueueInv' /\ video' \in VideoRecord /\ writer' \in WriterRecord /\ shown' \in Ages
         /\ sending' \in [key : BOOLEAN, count : Nat, at : Nat]
<1>1. /\ video \in VideoRecord /\ video.frames \in Seq(Frame) /\ WriterParts
      /\ writer \in WriterRecord /\ shown \in Ages /\ sending = NotSending /\ ~closed
      /\ sending \in [key : BOOLEAN, count : Nat, at : Nat]
      /\ closed' = closed /\ nals # <<>> /\ nals \in Seq([key : BOOLEAN, old : BOOLEAN])
  BY VideoParts, WriterType DEF TypeOK, TakeNal
<1>2. ~Arriving
  <2>1. sending.at = 0
    BY <1>1 DEF NotSending
  <2> QED
    BY <2>1 DEF Arriving
<1>3. CASE UNCHANGED <<sending, video, writer, shown>>
  <2>1. StillQueue
    BY <1>1, <1>3 DEF StillQueue
  <2> QED
    BY <1>1, <1>3, <2>1, StillKeeps
<1>4. CASE /\ \E count \in IF Head(nals).key THEN KeySizes ELSE FrameSizes :
                 sending' = [key |-> Head(nals).key, count |-> count, at |-> 0]
           /\ Numbered
  <2>1. PICK count \in Nat \ {0} :
          sending' = [key |-> Head(nals).key, count |-> count, at |-> 0]
    BY <1>4, TunnelAssumption
  <2>2. /\ sending' \in [key : BOOLEAN, count : Nat, at : Nat]
        /\ sending'.at = 0 /\ sending'.count = count /\ sending' # NotSending /\ ~Arriving'
    <3>1. Head(nals) \in [key : BOOLEAN, old : BOOLEAN]
      BY <1>1, HeadTailProperties
    <3>2. /\ sending' \in [key : BOOLEAN, count : Nat, at : Nat]
          /\ sending'.at = 0 /\ sending'.count = count
      BY <2>1, <3>1
    <3>3. sending' # NotSending
      BY <3>2 DEF NotSending
    <3>4. ~(0 > 0)
      OBVIOUS
    <3> QED
      BY <3>2, <3>3, <3>4 DEF Arriving
  <2> DEFINE s == Aged(video.frames)
  <2>3. /\ video' = [video EXCEPT !.frames = s]
        /\ writer' = IF writer.left > 0 THEN [writer EXCEPT !.frame.age = Older(@)] ELSE writer
        /\ shown' = Older(shown)
    BY <1>4 DEF Numbered
  <2>4. /\ s \in Seq(Frame) /\ Len(s) = Len(video.frames) /\ DOMAIN s = DOMAIN video.frames
        /\ s = <<>> <=> video.frames = <<>>
        /\ \A i \in DOMAIN video.frames :
              /\ s[i].age = Older(video.frames[i].age)
              /\ s[i].got = video.frames[i].got /\ s[i].count = video.frames[i].count
    BY <1>1, FramesAged
  <2>5. Linked(Taken, video.frames)
    BY DEF QueueInv, DecodeInv
  <2>6. Linked(Older(Taken), s)
    BY <1>1, <2>5, LinkedAged
  <2> HIDE DEF s
  <2>7. /\ video' \in VideoRecord /\ video'.frames = s /\ video'.bytes = video.bytes
        /\ video'.awaiting = video.awaiting /\ video'.discarded = video.discarded
    BY <1>1, <2>3, <2>4 DEF VideoRecord
  <2>8. /\ writer' \in WriterRecord /\ writer'.left = writer.left
        /\ writer.left > 0 =>
             writer'.frame.age = Older(writer.frame.age) /\ writer'.frame.key = writer.frame.key
    <3>1. CASE writer.left > 0
      <4>1. /\ writer.frame \in [age : Ages, key : BOOLEAN, count : Nat]
            /\ Older(writer.frame.age) \in Ages
        BY <1>1, OlderType DEF WriterParts
      <4> DEFINE f == [writer.frame EXCEPT !.age = Older(@)]
      <4>2. writer' = [writer EXCEPT !.frame.age = Older(@)]
        BY <2>3, <3>1
      <4>3. writer' = [writer EXCEPT !.frame = f]
        BY <4>2, Zenon
      <4>4. /\ f \in [age : Ages, key : BOOLEAN, count : Nat]
            /\ f.age = Older(writer.frame.age) /\ f.key = writer.frame.key
        BY <4>1
      <4> HIDE DEF f
      <4> QED
        BY <1>1, <4>3, <4>4 DEF WriterRecord
    <3>2. CASE ~(writer.left > 0)
      BY <1>1, <2>3, <3>2
    <3> QED
      BY <3>1, <3>2
  <2>9. shown' \in Ages /\ Taken' = Older(Taken)
    BY <1>1, <2>3, <2>8, OlderType DEF Taken
  <2>10. SendingInv'
    BY <1>1, <2>1, <2>2, <2>7 DEF QueueInv, SendingInv, NotSending
  <2>11. PartialInv'
    BY <1>2, <2>2, <2>4, <2>7 DEF QueueInv, PartialInv
  <2>12. Counted(video)'
    <3>1. BytesOf(s) = BytesOf(video.frames)
      BY <2>4, BytesSame
    <3> QED
      BY <2>4, <2>7, <3>1 DEF QueueInv, Counted
  <2>13. DecodeInv'
    <3>1. writer'.left > 0 => Follows(shown', writer'.frame)
      BY <2>3, <2>8 DEF QueueInv, DecodeInv, Follows
    <3>2. NewestOf(video.frames)' = Older(NewestOf(video.frames))
      <4>1. CASE video.frames = <<>>
        BY <2>4, <2>7, <2>9, <4>1 DEF NewestOf
      <4>2. CASE video.frames # <<>>
        <5>1. Len(video.frames) \in DOMAIN video.frames
          BY <1>1, <4>2
        <5> QED
          BY <2>4, <2>7, <4>2, <5>1 DEF NewestOf, Last
      <4> QED
        BY <4>1, <4>2
    <3>3. ~video.awaiting => NewestOf(video.frames) = 0
      BY <1>1 DEF QueueInv, DecodeInv
    <3> QED
      BY <2>2, <2>6, <2>7, <2>9, <3>1, <3>2, <3>3 DEF DecodeInv
  <2> QED
    BY <2>2, <2>7, <2>8, <2>9, <2>10, <2>11, <2>12, <2>13 DEF QueueInv
<1> QED
  BY <1>3, <1>4 DEF TakeNal

-----------------------------------------------------------------------------
(* Types.                                                                  *)

\* The types of what the queue's lemmas do not speak of.
HostTypes ==
  /\ force \in BOOLEAN /\ watched \in BOOLEAN /\ gate \in BOOLEAN
  /\ nals \in Seq([key : BOOLEAN, old : BOOLEAN]) /\ Len(nals) <= NAL_CHANNEL_CAPACITY
  /\ phase \in {"run", "goodbye"} /\ told \in {"none", "ok", "failed"}
  /\ backoff \in [pending : BOOLEAN, wait : 0..KEYFRAME_BACKOFF_MAX]
  /\ ready \in BOOLEAN /\ closed \in BOOLEAN /\ owed \in BOOLEAN /\ byeWritten \in BOOLEAN
ControlTypes ==
  /\ controls \in Seq({"ack", "bye"}) /\ Len(controls) <= CONTROL_LIMIT
  /\ flushing \in 0..CONTROL_LIMIT + 1 /\ moves \in 0..MaxMoves
FrameTypes ==
  /\ sending \in [key : BOOLEAN, count : Nat, at : Nat] /\ video \in VideoRecord
  /\ writer \in WriterRecord /\ shown \in Ages

LEMMA TypeParts == TypeOK <=> HostTypes /\ ControlTypes /\ FrameTypes
BY DEF TypeOK, HostTypes, ControlTypes, FrameTypes

LEMMA RecordDropsType ==
  ASSUME NEW b \in [pending : BOOLEAN, wait : 0..KEYFRAME_BACKOFF_MAX], RecordDrops(b),
         force \in BOOLEAN
  PROVE  /\ backoff' \in [pending : BOOLEAN, wait : 0..KEYFRAME_BACKOFF_MAX]
         /\ force' \in BOOLEAN
<1> DEFINE B == [pending : BOOLEAN, wait : 0..KEYFRAME_BACKOFF_MAX]
<1>1. \A wait \in 1..KEYFRAME_BACKOFF_MAX : [pending |-> FALSE, wait |-> wait] \in B
  BY TunnelAssumption
<1> HIDE DEF B
<1>2. backoff' \in B /\ force' \in BOOLEAN
  BY <1>1 DEF RecordDrops, B
<1> QED
  BY <1>2 DEF B

LEMMA MetType ==
  ASSUME HostTypes
  PROVE  /\ Met \in [pending : BOOLEAN, wait : 0..KEYFRAME_BACKOFF_MAX]
         /\ LostBackoff(Met) \in [pending : BOOLEAN, wait : 0..KEYFRAME_BACKOFF_MAX]
<1> DEFINE B == [pending : BOOLEAN, wait : 0..KEYFRAME_BACKOFF_MAX]
<1>1. backoff \in B /\ NoBackoff \in B
  BY TunnelAssumption DEF HostTypes, NoBackoff
<1>2. \A b \in B : [b EXCEPT !.pending = FALSE] \in B /\ [b EXCEPT !.pending = TRUE] \in B
  OBVIOUS
<1> HIDE DEF B
<1>3. Met \in B
  BY <1>1, <1>2 DEF Met, MetBackoff
<1>4. LostBackoff(Met) \in B
  BY <1>2, <1>3 DEF LostBackoff
<1> QED
  BY <1>3, <1>4 DEF B

LEMMA HostTypesKept == ASSUME TypeOK, [Next]_vars PROVE HostTypes'
<1>1. HostTypes /\ NAL_CHANNEL_CAPACITY \in Nat \ {0}
      /\ KEYFRAME_BACKOFF_MAX \in Nat \ {0}
  BY TypeParts, TunnelAssumption
<1>2. CASE Encode
  <2>1. nals' \in Seq([key : BOOLEAN, old : BOOLEAN]) /\ Len(nals') <= NAL_CHANNEL_CAPACITY
    BY <1>1, <1>2 DEF Encode, HostTypes
  <2> QED
    BY <1>1, <1>2, <2>1 DEF Encode, HostTypes, queue, history
<1>3. CASE TakeNal
  <2>1. nals \in Seq([key : BOOLEAN, old : BOOLEAN]) /\ nals # <<>> /\ Len(nals) \in Nat
    BY <1>1, <1>3 DEF TakeNal, HostTypes
  <2>2. Head(nals) \in [key : BOOLEAN, old : BOOLEAN]
    BY <2>1, HeadTailProperties
  <2>3. Tail(nals) \in Seq([key : BOOLEAN, old : BOOLEAN]) /\ Len(Tail(nals)) = Len(nals) - 1
    BY <2>1, HeadTailProperties
  <2>4. nals' \in Seq([key : BOOLEAN, old : BOOLEAN]) /\ Len(nals') <= NAL_CHANNEL_CAPACITY
    BY <1>1, <1>3, <2>1, <2>3 DEF TakeNal, HostTypes
  <2>5. force' \in BOOLEAN /\ gate' \in BOOLEAN
    BY <1>1, <1>3, <2>2 DEF TakeNal, HostTypes
  <2> QED
    BY <1>1, <1>3, <2>4, <2>5 DEF TakeNal, HostTypes
<1>4. CASE PushFragment
  <2>1. \E v, b : /\ b \in [pending : BOOLEAN, wait : 0..KEYFRAME_BACKOFF_MAX]
                  /\ Pushed(v, b)
    BY <1>1, <1>4, MetType DEF PushFragment, HostTypes
  <2>2. /\ backoff' \in [pending : BOOLEAN, wait : 0..KEYFRAME_BACKOFF_MAX]
        /\ force' \in BOOLEAN /\ ready' = TRUE
    BY <1>1, <2>1, RecordDropsType DEF Pushed, HostTypes
  <2>3. owed' \in BOOLEAN
    BY <1>1, <1>4 DEF PushFragment, HostTypes
  <2> QED
    BY <1>1, <1>4, <2>2, <2>3 DEF PushFragment, HostTypes
<1>5. CASE Arrive
  <2>1. nals' \in Seq([key : BOOLEAN, old : BOOLEAN]) /\ Len(nals') = Len(nals)
    <3> DEFINE N == [key : BOOLEAN, old : BOOLEAN]
    <3>2. \A x \in N : [x EXCEPT !.old = TRUE] \in N
      OBVIOUS
    <3>6. nals \in Seq(N)
      BY <1>1 DEF HostTypes
    <3> HIDE DEF N
    <3>1. /\ Len(nals) \in Nat /\ DOMAIN nals = 1 .. Len(nals)
          /\ \A i \in DOMAIN nals : nals[i] \in N
      BY <3>6
    <3>3. nals' = [i \in 1 .. Len(nals) |-> [nals[i] EXCEPT !.old = TRUE]]
      BY <1>5, <3>1 DEF Arrive
    <3>4. nals' \in [1 .. Len(nals) -> N]
      BY <3>1, <3>2, <3>3
    <3>5. nals' \in Seq(N) /\ Len(nals') = Len(nals)
      BY <3>1, <3>4
    <3> QED
      BY <3>5 DEF N
  <2> QED
    BY <1>1, <1>5, <2>1 DEF Arrive, HostTypes, history
<1>6. CASE Alarm
  <2>1. /\ backoff' \in [pending : BOOLEAN, wait : 0..KEYFRAME_BACKOFF_MAX]
        /\ force' \in BOOLEAN
    BY <1>1, <1>6, RecordDropsType DEF Alarm, HostTypes
  <2> QED
    BY <1>1, <1>6, <2>1 DEF Alarm, HostTypes
<1>7. CASE Tick
  <2>1. backoff' \in [pending : BOOLEAN, wait : 0..KEYFRAME_BACKOFF_MAX]
    BY <1>1, <1>7 DEF Tick, HostTypes
  <2> QED
    BY <1>1, <1>7, <2>1 DEF Tick, HostTypes, host, history
<1>8. CASE Restart
  <2>1. nals' \in Seq([key : BOOLEAN, old : BOOLEAN]) /\ Len(nals') <= NAL_CHANNEL_CAPACITY
    BY <1>1, <1>8 DEF Restart
  <2> QED
    BY <1>1, <1>8, <2>1 DEF Restart, HostTypes
<1>9. CASE Close
  <2>1. NoBackoff \in [pending : BOOLEAN, wait : 0..KEYFRAME_BACKOFF_MAX]
    BY <1>1 DEF NoBackoff
  <2> QED
    BY <1>1, <1>9, <2>1 DEF Close, HostTypes, history
<1>10. CASE Ask \/ Leave \/ SendControl
  <2>1. /\ UNCHANGED <<gate, nals, phase, told, backoff, closed, owed, byeWritten>>
        /\ force' \in BOOLEAN /\ watched' \in BOOLEAN /\ ready' \in BOOLEAN
    BY <1>1, <1>10 DEF Ask, Leave, SendControl, HostTypes, host, queue, history
  <2> QED
    BY <1>1, <2>1 DEF HostTypes
<1>11. CASE TakeControl \/ StartFrame \/ Park \/ Wake \/ WroteControl
  <2>1. /\ UNCHANGED <<force, watched, gate, nals, phase, told, backoff, closed, owed>>
        /\ ready' \in BOOLEAN /\ byeWritten' \in BOOLEAN
    BY <1>1, <1>11
    DEF TakeControl, StartFrame, Park, Wake, WroteControl, host, queue, history, HostTypes
  <2> QED
    BY <1>1, <2>1 DEF HostTypes
<1>14. CASE Goodbye
  BY <1>1, <1>14 DEF Goodbye, HostTypes
<1>15. CASE Flush
  BY <1>1, <1>15 DEF Flush, HostTypes, host, history
<1>12. CASE WriteFragment
  <2>1. owed' \in BOOLEAN
    BY <1>1, <1>12 DEF WriteFragment, HostTypes
  <2> QED
    BY <1>1, <1>12, <2>1 DEF WriteFragment, HostTypes, host, queue
<1>13. CASE UNCHANGED vars
  BY <1>1, <1>13 DEF vars, HostTypes, host, queue, history
<1> QED
  BY <1>2, <1>3, <1>4, <1>5, <1>6, <1>7, <1>8, <1>9, <1>10, <1>11, <1>12, <1>13, <1>14,
     <1>15
  DEF Next

LEMMA ControlTypesKept == ASSUME TypeOK, [Next]_vars PROVE ControlTypes'
<1>1. /\ ControlTypes /\ WriterParts /\ CONTROL_LIMIT \in Nat \ {0} /\ MaxMoves \in Nat
      /\ Len(controls) \in Nat
  BY TypeParts, WriterType, TunnelAssumption DEF ControlTypes
<1>2. moves' \in 0..MaxMoves
  <2>1. moves' = moves \/ (moves < MaxMoves /\ moves' = moves + 1)
    BY DEF Next, Encode, TakeNal, PushFragment, Flush, TakeControl, StartFrame, WriteFragment,
           Park, Wake, Alarm, WroteControl, Ask, Arrive, Leave, SendControl, Goodbye, Restart,
           Close, Tick, vars
  <2> QED
    BY <1>1, <2>1 DEF ControlTypes
<1>3. CASE SendControl \/ Goodbye
  <2>1. controls' \in Seq({"ack", "bye"}) /\ Len(controls') <= CONTROL_LIMIT
    <3>1. \A x \in {"ack", "bye"} : /\ Append(controls, x) \in Seq({"ack", "bye"})
                                    /\ Len(Append(controls, x)) = Len(controls) + 1
      BY <1>1, AppendProperties DEF ControlTypes
    <3>2. \/ controls' = controls
          \/ /\ \E x \in {"ack", "bye"} : controls' = Append(controls, x)
             /\ ~(Len(controls) >= CONTROL_LIMIT)
      BY <1>1, <1>3 DEF SendControl, Goodbye
    <3> QED
      BY <1>1, <3>1, <3>2 DEF ControlTypes
  <2>2. Unwritten \in Nat /\ Unwritten <= Len(controls) + 1
    BY <1>1 DEF Unwritten
  <2>3. flushing' \in 0..CONTROL_LIMIT + 1
    BY <1>1, <1>3, <2>2 DEF SendControl, Goodbye, ControlTypes
  <2> QED
    BY <1>2, <2>1, <2>3 DEF ControlTypes
<1>4. CASE TakeControl
  <2>1. controls' \in Seq({"ack", "bye"}) /\ Len(controls') <= CONTROL_LIMIT
    BY <1>1, <1>4 DEF TakeControl, ControlTypes
  <2>2. flushing' = flushing
    BY <1>4 DEF TakeControl
  <2> QED
    BY <1>1, <1>2, <2>1, <2>2 DEF ControlTypes
<1>5. CASE WroteControl
  <2>1. flushing' \in 0..CONTROL_LIMIT + 1 /\ controls' = controls
    BY <1>1, <1>5 DEF WroteControl, ControlTypes
  <2> QED
    BY <1>1, <1>2, <2>1 DEF ControlTypes
<1>6. CASE Restart \/ Close
  <2>1. flushing' \in {0, flushing} /\ controls' \in {<<>>, controls}
    BY <1>6 DEF Restart, Close
  <2>2. controls' \in Seq({"ack", "bye"}) /\ Len(controls') <= CONTROL_LIMIT
    <3>1. <<>> \in Seq({"ack", "bye"}) /\ Len(<<>>) <= CONTROL_LIMIT
      BY <1>1
    <3> QED
      BY <1>1, <2>1, <3>1 DEF ControlTypes
  <2>3. flushing' \in 0..CONTROL_LIMIT + 1
    BY <1>1, <2>1 DEF ControlTypes
  <2> QED
    BY <1>2, <2>2, <2>3 DEF ControlTypes
<1>7. CASE UNCHANGED <<controls, flushing>>
  BY <1>1, <1>2, <1>7 DEF ControlTypes
<1> QED
  BY <1>3, <1>4, <1>5, <1>6, <1>7
  DEF Next, Encode, TakeNal, PushFragment, Flush, StartFrame, WriteFragment, Park, Wake, Alarm,
      Ask, Arrive, Leave, Tick, vars, queue

LEMMA BystanderTypes == ASSUME TypeOK, Bystander PROVE FrameTypes'
<1>1. FrameTypes /\ HostTypes /\ ControlTypes
  BY TypeParts
<1>2. CASE \/ Encode \/ Ask \/ Leave \/ SendControl \/ Goodbye \/ Flush \/ Tick
           \/ UNCHANGED vars
  BY <1>1, <1>2 DEF Encode, Ask, Leave, SendControl, Goodbye, Flush, Tick, vars, host, queue,
                    history, FrameTypes
<1>3. CASE Arrive \/ Restart
  <2>1. video' = [video EXCEPT !.other = TRUE] /\ UNCHANGED <<sending, shown, writer>>
    BY <1>3 DEF Arrive, Restart, history
  <2>2. video' \in VideoRecord
    BY <1>1, <2>1 DEF FrameTypes, VideoRecord
  <2> QED
    BY <1>1, <2>1, <2>2 DEF FrameTypes
<1>4. CASE TakeControl
  <2>1. Head(controls) \in {"ack", "bye"}
    BY <1>1, <1>4, HeadTailProperties DEF TakeControl, ControlTypes
  <2>2. writer' = [writer EXCEPT !.job = Head(controls)]
    BY <1>4 DEF TakeControl
  <2>3. writer' \in WriterRecord
    BY <1>1, <2>1, <2>2 DEF FrameTypes, WriterRecord
  <2> QED
    BY <1>1, <1>4, <2>3 DEF TakeControl, FrameTypes, host, history
<1>5. CASE Park \/ Wake \/ Alarm \/ WroteControl
  <2>1. backoff.pending \in BOOLEAN
    BY <1>1 DEF HostTypes
  <2>2. \/ writer' = [writer EXCEPT !.at = "parked", !.armed = backoff.pending]
        \/ writer' = [writer EXCEPT !.at = "head", !.armed = FALSE]
        \/ writer' = [writer EXCEPT !.job = None]
    BY <1>5 DEF Park, Wake, Alarm, WroteControl
  <2>3. writer' \in WriterRecord
    BY <1>1, <2>1, <2>2 DEF FrameTypes, WriterRecord
  <2> QED
    BY <1>1, <1>5, <2>3 DEF Park, Wake, Alarm, WroteControl, FrameTypes, host, queue, history
<1> QED
  BY <1>2, <1>3, <1>4, <1>5 DEF Bystander

-----------------------------------------------------------------------------
(* The goodbye.                                                            *)

LEMMA ToldKept == ASSUME TypeOK, ToldInv, [Next]_vars PROVE ToldInv'
<1>1. /\ controls \in Seq({"ack", "bye"}) /\ WriterParts /\ Len(controls) \in Nat
      /\ flushing \in Nat
  BY WriterType DEF TypeOK
<1>2. CASE Flush
  BY <1>2 DEF Flush, ToldInv, Unwritten, ByeWaits, host, history
<1>3. CASE Goodbye
  <2>1. CASE Len(controls) >= CONTROL_LIMIT
    BY <1>3, <2>1 DEF Goodbye, ToldInv
  <2>2. CASE ~(Len(controls) >= CONTROL_LIMIT)
    <3>1. /\ controls' = Append(controls, "bye") /\ flushing' = Unwritten + 1 /\ told' = "none"
          /\ phase' = "goodbye" /\ writer' = writer
      BY <1>3, <2>2 DEF Goodbye
    <3>2. /\ controls' # <<>> /\ Len(controls') = Len(controls) + 1 /\ Last(controls') = "bye"
      BY <1>1, <3>1, AppendProperties DEF Last
    <3>3. flushing' > 0 /\ flushing' = Unwritten'
      BY <1>1, <3>1, <3>2 DEF Unwritten
    <3> QED
      BY <3>1, <3>2, <3>3 DEF ToldInv, ByeWaits
  <2> QED
    BY <2>1, <2>2
<1>4. CASE Restart
  BY <1>4 DEF Restart, ToldInv
<1>5. CASE Close
  <2>1. UNCHANGED <<phase, flushing, byeWritten>>
    BY <1>5 DEF Close, history
  <2>2. closed'
    BY <1>5 DEF Close
  <2>3. told' = IF phase = "goodbye" /\ told = "none" /\ flushing > 0 THEN "failed" ELSE told
    BY <1>5 DEF Close
  <2>4. told' = "none" => told = "none"
    BY <2>3
  <2>5. told' = "ok" => told = "ok"
    BY <2>3
  <2>6. phase = "run" => told' = told
    BY <2>3
  <2> QED
    BY <2>1, <2>2, <2>3, <2>4, <2>5, <2>6 DEF ToldInv
<1>6. CASE SendControl
  BY <1>6 DEF SendControl, ToldInv, host, history
<1>7. CASE TakeControl
  <2>1. /\ controls # <<>> /\ writer.job = None
        /\ writer' = [writer EXCEPT !.job = Head(controls)] /\ controls' = Tail(controls)
        /\ UNCHANGED <<phase, told, flushing, byeWritten, closed>>
    BY <1>7 DEF TakeControl, Writing, host, history
  <2>2. /\ Head(controls) \in {"ack", "bye"} /\ Len(controls') = Len(controls) - 1
        /\ Len(controls) > 0
    BY <1>1, <2>1, HeadTailProperties
  <2>3. writer'.job = Head(controls)
    BY <2>1 DEF TypeOK, WriterRecord
  <2>4. Unwritten' = Unwritten
    BY <1>1, <2>1, <2>2, <2>3 DEF Unwritten, None
  <2>5. ByeWaits => ByeWaits'
    <3>1. CASE controls' = <<>>
      <4>1. Len(controls') = 0
        BY <3>1, EmptySeq
      <4>2. Len(controls) = 1
        BY <1>1, <2>2, <4>1
      <4>3. Last(controls) = Head(controls)
        BY <1>1, <2>1, <4>2 DEF Last
      <4> QED
        BY <2>1, <2>3, <3>1, <4>3 DEF ByeWaits
    <3>2. CASE controls' # <<>>
      <4>1. Tail(controls) \in Seq({"ack", "bye"}) /\ Len(Tail(controls)) \in Nat \ {0}
        BY <1>1, <2>1, <3>2, HeadTailProperties, EmptySeq
      <4>2. Last(Tail(controls)) = Last(controls)
        BY <1>1, <2>1, <2>2, <4>1, HeadTailProperties DEF Last
      <4> QED
        BY <2>1, <3>2, <4>2 DEF ByeWaits
    <3> QED
      BY <3>1, <3>2
  <2> QED
    BY <2>1, <2>4, <2>5 DEF ToldInv
<1>8. CASE WroteControl
  <2>1. /\ writer.job \in {"ack", "bye"} /\ ~closed
        /\ writer' = [writer EXCEPT !.job = None]
        /\ flushing' = IF flushing > 0 THEN flushing - 1 ELSE 0
        /\ byeWritten' = (byeWritten \/ writer.job = "bye")
        /\ UNCHANGED <<phase, told, controls, closed>>
    BY <1>8 DEF WroteControl, host
  <2>2. writer'.job = None /\ Unwritten = Len(controls) + 1 /\ Unwritten' = Len(controls)
    BY <1>1, <2>1 DEF TypeOK, WriterRecord, Unwritten, None
  <2>3. ASSUME phase = "goodbye", told = "none", ~byeWritten'
        PROVE  flushing' > 0 /\ flushing' = Unwritten' /\ ByeWaits'
    <3>1. ~byeWritten /\ writer.job # "bye"
      BY <2>1, <2>3
    <3>2. flushing > 0 /\ flushing = Unwritten /\ ByeWaits
      BY <2>1, <2>3, <3>1 DEF ToldInv
    <3>3. controls # <<>> /\ Last(controls) = "bye" /\ Len(controls) > 0
      BY <1>1, <3>1, <3>2, EmptySeq DEF ByeWaits
    <3>4. flushing' = Len(controls)
      BY <1>1, <2>1, <2>2, <3>2
    <3> QED
      BY <2>1, <2>2, <3>3, <3>4 DEF ByeWaits
  <2>4. told = "ok" => byeWritten'
    BY <2>1 DEF ToldInv
  <2> QED
    BY <2>1, <2>3, <2>4 DEF ToldInv
<1>9. CASE /\ UNCHANGED <<phase, told, byeWritten, flushing, controls, closed>>
           /\ writer'.job = writer.job
  BY <1>9 DEF ToldInv, ByeWaits, Unwritten
<1>10. writer \in WriterRecord
  BY DEF TypeOK
<1>11. CASE Encode \/ Ask \/ Arrive \/ Leave \/ Tick \/ UNCHANGED vars \/ PushFragment
  BY <1>9, <1>11
  DEF Encode, Ask, Arrive, Leave, Tick, vars, host, queue, history, PushFragment
<1>12. CASE TakeNal
  <2>1. writer' = writer \/ writer' = [writer EXCEPT !.frame.age = Older(@)]
    BY <1>12 DEF TakeNal, Numbered
  <2>2. writer'.job = writer.job
    BY <1>10, <2>1 DEF WriterRecord
  <2> QED
    BY <1>9, <1>12, <2>2 DEF TakeNal
<1>13. CASE StartFrame \/ WriteFragment \/ Park \/ Wake \/ Alarm
  <2>1. writer'.job = writer.job
    BY <1>10, <1>13 DEF StartFrame, WriteFragment, Park, Wake, Alarm, WriterRecord
  <2> QED
    BY <1>9, <1>13, <2>1
    DEF StartFrame, WriteFragment, Park, Wake, Alarm, host, queue, history
<1> QED
  BY <1>2, <1>3, <1>4, <1>5, <1>6, <1>7, <1>8, <1>11, <1>12, <1>13 DEF Next

-----------------------------------------------------------------------------
LEMMA InitInv == Init => IInv
<1> SUFFICES ASSUME Init PROVE IInv
  OBVIOUS
<1>1. /\ video = NewQueue /\ writer = NewWriter /\ sending = NotSending /\ controls = <<"ack">>
      /\ ~closed /\ shown = 0
  BY DEF Init
<1>2. /\ NotSending.at = 0 /\ ~(0 > 0)
      /\ NotSending \in [key : BOOLEAN, count : Nat, at : Nat]
  BY DEF NotSending
<1>3. FrameTypes
  BY <1>1, <1>2, NewQueueSound, NewWriterSound, Limits DEF FrameTypes
<1>4. HostTypes /\ ControlTypes
  <2>1. NoBackoff \in [pending : BOOLEAN, wait : 0..KEYFRAME_BACKOFF_MAX]
    BY TunnelAssumption DEF NoBackoff
  <2>2. <<>> \in Seq([key : BOOLEAN, old : BOOLEAN]) /\ 0 <= NAL_CHANNEL_CAPACITY
    BY EmptySeq, TunnelAssumption
  <2>4. nals \in Seq([key : BOOLEAN, old : BOOLEAN]) /\ Len(nals) <= NAL_CHANNEL_CAPACITY
    BY <2>2, EmptySeq DEF Init
  <2>5. HostTypes
    BY <2>1, <2>4 DEF Init, HostTypes
  <2>3. ControlTypes
    BY TunnelAssumption DEF Init, ControlTypes
  <2> QED
    BY <2>3, <2>5
<1>5. TypeOK
  BY <1>3, <1>4, TypeParts
<1>6. SendingInv /\ ~Arriving
  BY <1>1, <1>2, NewQueueSound DEF SendingInv, Arriving
<1>7. PartialInv /\ Counted(video)
  BY <1>1, <1>6, NewQueueSound DEF PartialInv
<1>8. DecodeInv
  <2>1. ~(NewWriter.left > 0)
    BY NewWriterSound
  <2> QED
    BY <1>1, <2>1, NewQueueSound DEF DecodeInv, NewestOf, Taken
<1>9. ToldInv
  BY DEF Init, ToldInv
<1> QED
  BY <1>5, <1>6, <1>7, <1>8, <1>9 DEF IInv

LEMMA NextInv == IInv /\ [Next]_vars => IInv'
<1> SUFFICES ASSUME IInv, [Next]_vars PROVE IInv'
  OBVIOUS
<1>1. TypeOK /\ QueueInv
  BY DEF IInv, QueueInv
<1>2. HostTypes' /\ ControlTypes' /\ ToldInv'
  BY <1>1, HostTypesKept, ControlTypesKept, ToldKept DEF IInv
<1>3. FrameTypes' /\ QueueInv'
  <2>1. CASE Bystander
    BY <1>1, <2>1, BystanderStill, StillKeeps, BystanderTypes
  <2>2. CASE StartFrame
    <3>1. UNCHANGED <<sending, shown>>
      BY <2>2 DEF StartFrame, host, history
    <3> QED
      BY <1>1, <2>2, <3>1, StartFrameKeeps, TypeParts DEF FrameTypes
  <2>3. CASE WriteFragment
    <3>1. UNCHANGED <<sending, video>>
      BY <2>3 DEF WriteFragment, host, queue
    <3> QED
      BY <1>1, <2>3, <3>1, WriteKeeps, TypeParts DEF FrameTypes
  <2>4. CASE Close
    <3>1. sending' = NotSending /\ shown' = shown
      BY <2>4 DEF Close, history
    <3>2. NotSending \in [key : BOOLEAN, count : Nat, at : Nat]
      BY DEF NotSending
    <3> QED
      BY <1>1, <2>4, <3>1, <3>2, CloseKeeps, TypeParts DEF FrameTypes
  <2>5. CASE TakeNal
    BY <1>1, <2>5, TakeNalKeeps DEF FrameTypes
  <2>6. CASE PushFragment
    <3>1. UNCHANGED <<writer, shown>>
      BY <2>6 DEF PushFragment
    <3>2. sending' \in [key : BOOLEAN, count : Nat, at : Nat]
      <4>1. sending \in [key : BOOLEAN, count : Nat, at : Nat]
            /\ NotSending \in [key : BOOLEAN, count : Nat, at : Nat]
        BY <1>1 DEF TypeOK, NotSending
      <4>2. [sending EXCEPT !.at = @ + 1] \in [key : BOOLEAN, count : Nat, at : Nat]
        BY <4>1
      <4> QED
        BY <2>6, <4>1, <4>2 DEF PushFragment
    <3> QED
      BY <1>1, <2>6, <3>1, <3>2, PushKeeps, TypeParts DEF FrameTypes, QueueInv
  <2> QED
    BY <2>1, <2>2, <2>3, <2>4, <2>5, <2>6 DEF Next, Bystander
<1>4. TypeOK'
  BY <1>2, <1>3 DEF TypeOK, HostTypes, ControlTypes, FrameTypes
<1> QED
  BY <1>2, <1>3, <1>4 DEF IInv, QueueInv

LEMMA Invariant == Spec => []IInv
BY InitInv, NextInv, PTL DEF Spec

\* Every reachable state of the tunnel is well-typed.
THEOREM TypeCorrect == Spec => []TypeOK
<1>1. IInv => TypeOK
  BY DEF IInv
<1> QED
  BY <1>1, Invariant, PTL

\* The byte count of VideoQueue is that of its fragments, its limits hold, a
\* partial frame is the one being sent, and flush answers "ok" for a goodbye
\* only once it was written.
THEOREM TunnelIsSound == Spec => []TunnelSound
<1>1. ASSUME IInv PROVE TunnelSound
  <2>1. TypeOK /\ SendingInv /\ PartialInv /\ Counted(video)
    BY <1>1 DEF IInv
  <2>2. ASSUME NEW i \in DOMAIN video.frames, video.frames[i].got < video.frames[i].count
        PROVE  /\ i = Len(video.frames)
               /\ [video.frames[i] EXCEPT !.got = 0] =
                    [age |-> 0, key |-> sending.key, count |-> sending.count, got |-> 0]
    <3>1. i = Len(video.frames) /\ Arriving
      BY <2>1, <2>2 DEF PartialInv
    <3>2. video.frames[i] = [age |-> 0, key |-> sending.key, count |-> sending.count,
                             got |-> sending.at]
      BY <2>1, <3>1 DEF PartialInv, Last
    <3> QED
      BY <3>1, <3>2
  <2>3. ASSUME sending.at > 0, ~closed, ~video.discarded
        PROVE  video.frames # <<>> /\ Last(video.frames).got = sending.at
    BY <2>1, <2>3 DEF PartialInv, Arriving
  <2>4. QueueSound
    BY <2>1, <2>2, <2>3 DEF QueueSound, Counted
  <2>5. ToldMeansWritten
    BY <1>1 DEF IInv, ToldInv, ToldMeansWritten
  <2> QED
    BY <2>4, <2>5 DEF TunnelSound
<1> QED
  BY <1>1, Invariant, PTL

\* write_loop finishes a frame only if it is a keyframe or comes right after
\* the frame it was coded from, whatever push discarded, closed or restarted.
THEOREM WrittenDecodes == Spec => OnlyDecodable
<1>1. ASSUME IInv, [Next]_vars
      PROVE  [writer.left = 1 /\ writer'.left = 0 =>
                 \/ writer.frame.key
                 \/ shown = Older(writer.frame.age)]_vars
  <2>1. writer.left > 0 => Follows(shown, writer.frame)
    BY <1>1 DEF IInv, DecodeInv
  <2>2. 1 > 0
    OBVIOUS
  <2> QED
    BY <2>1, <2>2 DEF Follows
<1> QED
  BY <1>1, Invariant, PTL DEF Spec, OnlyDecodable
=============================================================================
