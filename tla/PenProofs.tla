------------------------------- MODULE PenProofs -------------------------------
(***************************************************************************)
(* Theorems about Pen, for any limits, times and number of runs: the mouse *)
(* events that wait and the button they press, and what stays held when a  *)
(* stroke is over.                                                         *)
(***************************************************************************)
EXTENDS Pen, SequenceTheorems, WellFoundedInduction, TLAPS

-----------------------------------------------------------------------------
(* Induction over the indices of a sequence.  The set a number is in says  *)
(* what holds of it, so that no operator has to be instantiated.           *)

\* A set of numbers that has any has a least one.
LEMMA Least ==
  ASSUME NEW T, T \subseteq Nat, T # {}
  PROVE  \E n \in T : \A k \in T : n <= k
<1>1. PICK n \in T : \A k \in T : ~ (<<k, n>> \in OpToRel(<, Nat))
  BY NatLessThanWellFounded, WFMin
<1>2. ASSUME NEW k \in T, k < n PROVE FALSE
  <2>1. <<k, n>> \in Nat \X Nat
    OBVIOUS
  <2>2. <<k, n>> \in OpToRel(<, Nat)
    BY <1>2, <2>1 DEF OpToRel
  <2> QED
    BY <1>1, <2>2
<1>3. \A k \in T : k \in Nat /\ n \in Nat
  OBVIOUS
<1> QED
  BY <1>2, <1>3

\* Induction up to a bound, over the set of the numbers it holds for.
LEMMA Induction ==
  ASSUME NEW N \in Nat, NEW T, 0 \in T, \A n \in 1 .. N : n - 1 \in T => n \in T
  PROVE  0 .. N \subseteq T
<1> DEFINE U == (0 .. N) \ T
<1> SUFFICES ASSUME U # {} PROVE FALSE
  OBVIOUS
<1>0. U \subseteq Nat
  OBVIOUS
<1>1. PICK n \in U : \A k \in U : n <= k
  <2> HIDE DEF U
  <2> QED
    BY <1>0, Least
<1>2. n \in 1 .. N /\ n - 1 \in (0 .. N)
  OBVIOUS
<1>3. n - 1 \in T
  BY <1>1, <1>2
<1> QED
  BY <1>1, <1>2, <1>3

\* A recursive definition over the numbers up to a bound has a solution.
IsRun(f, start, step, n) ==
  f = [i \in 0 .. n |-> IF i = 0 THEN start ELSE step[<<f[i - 1], i>>]]

LEMMA RunExists ==
  ASSUME NEW N \in Nat, NEW A, NEW start \in A, NEW step \in [A \X (1 .. N) -> A]
  PROVE  \E f \in [0 .. N -> A] : IsRun(f, start, step, N)
<1> DEFINE Has(n) == \E f \in [0 .. n -> A] : IsRun(f, start, step, n)
           T == {n \in 0 .. N : Has(n)}
<1>1. 0 \in T
  <2> DEFINE f == [i \in 0 .. 0 |-> start]
  <2>1. f \in [0 .. 0 -> A] /\ IsRun(f, start, step, 0)
    BY DEF IsRun
  <2> QED
    BY <2>1
<1>2. ASSUME NEW n \in 1 .. N, n - 1 \in T PROVE n \in T
  <2>0. n \in Nat /\ n - 1 \in 0 .. (n - 1)
    OBVIOUS
  <2>1. PICK f \in [0 .. (n - 1) -> A] : IsRun(f, start, step, n - 1)
    BY <1>2
  <2>2. f[n - 1] \in A /\ step[<<f[n - 1], n>>] \in A
    BY <2>0
  <2> DEFINE last == step[<<f[n - 1], n>>]
             g == [i \in 0 .. n |-> IF i = n THEN last ELSE f[i]]
  <2>3. g \in [0 .. n -> A]
    <3> HIDE DEF last
    <3>1. \A i \in 0 .. n : i # n => i \in 0 .. (n - 1)
      OBVIOUS
    <3>2. \A i \in 0 .. n : (IF i = n THEN last ELSE f[i]) \in A
      BY <2>2, <3>1 DEF last
    <3> QED
      BY <3>2
  <2>4. ASSUME NEW i \in 0 .. n PROVE g[i] = IF i = 0 THEN start ELSE step[<<g[i - 1], i>>]
    <3>1. CASE i = n
      <4>1. g[i] = last /\ i # 0 /\ g[i - 1] = f[n - 1]
        BY <2>0, <3>1
      <4> QED
        BY <3>1, <4>1
    <3>2. CASE i # n
      <4>1. i \in 0 .. (n - 1) /\ g[i] = f[i] /\ (i # 0 => g[i - 1] = f[i - 1])
        BY <3>2
      <4>2. f[i] = IF i = 0 THEN start ELSE step[<<f[i - 1], i>>]
        BY <2>1, <4>1 DEF IsRun
      <4> HIDE DEF g
      <4> QED
        BY <4>1, <4>2
    <3> QED
      BY <3>1, <3>2
  <2>5. IsRun(g, start, step, n)
    <3> HIDE DEF g
    <3> DEFINE h == [i \in 0 .. n |-> IF i = 0 THEN start ELSE step[<<g[i - 1], i>>]]
    <3>1. g = h
      BY <2>3, <2>4
    <3> QED
      BY <3>1 DEF IsRun
  <2> HIDE DEF g
  <2> QED
    BY <2>3, <2>5
<1> HIDE DEF T
<1>3. 0 .. N \subseteq T
  BY <1>1, <1>2, Induction
<1>4. N \in T
  BY <1>3
<1> QED
  BY <1>4 DEF T

-----------------------------------------------------------------------------
(* The device's queue: what it draws, what ends that, and stale ink.       *)

Draws == {"down", "move"}
EndIn(s) == \E i \in DOMAIN s : s[i].phase \in Ends

\* Something is drawn in the queue that nothing in it ends.
Open(s) ==
  \E i \in DOMAIN s :
    s[i].phase \in Draws /\ \A j \in DOMAIN s : j > i => s[j].phase \notin Ends

\* The same of the first samples.
EndBy(s, n) == \E i \in 1 .. n : s[i].phase \in Ends
OpenBy(s, n) ==
  \E i \in 1 .. n : s[i].phase \in Draws /\ \A j \in 1 .. n : j > i => s[j].phase \notin Ends

LEMMA WholeQueue ==
  ASSUME NEW s \in Seq(Sample)
  PROVE  /\ Len(s) \in Nat /\ DOMAIN s = 1 .. Len(s) /\ \A i \in 1 .. Len(s) : s[i] \in Sample
         /\ EndIn(s) <=> EndBy(s, Len(s))
         /\ Open(s) <=> OpenBy(s, Len(s))
<1>1. Len(s) \in Nat /\ DOMAIN s = 1 .. Len(s) /\ \A i \in 1 .. Len(s) : s[i] \in Sample
  OBVIOUS
<1> QED
  BY <1>1 DEF EndIn, EndBy, Open, OpenBy

LEMMA NextSample ==
  ASSUME NEW s, NEW n \in Nat \ {0}
  PROVE  /\ EndBy(s, n) <=> EndBy(s, n - 1) \/ s[n].phase \in Ends
         /\ OpenBy(s, n) <=> s[n].phase \in Draws \/ (OpenBy(s, n - 1) /\ s[n].phase \notin Ends)
<1>1. 1 .. n = (1 .. (n - 1)) \cup {n}
  OBVIOUS
<1>2. \A j \in 1 .. (n - 1) : j < n
  OBVIOUS
<1>3. EndBy(s, n) <=> EndBy(s, n - 1) \/ s[n].phase \in Ends
  BY <1>1 DEF EndBy
<1>4. ASSUME OpenBy(s, n) PROVE s[n].phase \in Draws \/ (OpenBy(s, n - 1) /\ s[n].phase \notin Ends)
  BY <1>1, <1>2, <1>4 DEF OpenBy
<1>5. ASSUME s[n].phase \in Draws PROVE OpenBy(s, n)
  BY <1>1, <1>2, <1>5 DEF OpenBy
<1>6. ASSUME OpenBy(s, n - 1), s[n].phase \notin Ends PROVE OpenBy(s, n)
  BY <1>1, <1>2, <1>6 DEF OpenBy
<1> QED
  BY <1>3, <1>4, <1>5, <1>6

LEMMA NoSample == ASSUME NEW s PROVE ~EndBy(s, 0) /\ ~OpenBy(s, 0)
BY DEF EndBy, OpenBy

LEMMA SameSamples ==
  ASSUME NEW s, NEW t, NEW n \in Nat, \A i \in 1 .. n : s[i].phase = t[i].phase
  PROVE  EndBy(s, n) = EndBy(t, n) /\ OpenBy(s, n) = OpenBy(t, n)
BY DEF EndBy, OpenBy

LEMMA OneMore ==
  ASSUME NEW s \in Seq(Sample), NEW x \in Sample
  PROVE  /\ Append(s, x) \in Seq(Sample)
         /\ EndIn(Append(s, x)) <=> EndIn(s) \/ x.phase \in Ends
         /\ Open(Append(s, x)) <=> x.phase \in Draws \/ (Open(s) /\ x.phase \notin Ends)
<1> DEFINE t == Append(s, x)
           n == Len(s)
<1>1. /\ n \in Nat /\ t \in Seq(Sample) /\ Len(t) = n + 1 /\ t[n + 1] = x
      /\ \A i \in 1 .. n : t[i] = s[i]
  OBVIOUS
<1> HIDE DEF t, n
<1>2. EndBy(s, n) = EndBy(t, n) /\ OpenBy(s, n) = OpenBy(t, n)
  BY <1>1, SameSamples
<1>3. n + 1 \in Nat \ {0} /\ (n + 1) - 1 = n
  BY <1>1
<1>4. /\ EndBy(t, n + 1) <=> EndBy(t, n) \/ x.phase \in Ends
      /\ OpenBy(t, n + 1) <=> x.phase \in Draws \/ (OpenBy(t, n) /\ x.phase \notin Ends)
  BY <1>1, <1>3, NextSample
<1>5. EndIn(t) <=> EndBy(t, n + 1)
  BY <1>1, WholeQueue
<1>6. Open(t) <=> OpenBy(t, n + 1)
  BY <1>1, WholeQueue
<1>7. (EndIn(s) <=> EndBy(s, n)) /\ (Open(s) <=> OpenBy(s, n))
  BY WholeQueue DEF n
<1> QED
  BY <1>1, <1>2, <1>4, <1>5, <1>6, <1>7 DEF t

\* Stale ink goes without a trace, and every end stays where it is.
LEMMA LastingIs ==
  ASSUME NEW s \in Seq(Sample)
  PROVE  /\ Lasting(s) \in Seq(Sample)
         /\ EndIn(Lasting(s)) <=> EndIn(s)
         /\ Open(Lasting(s)) => Open(s)
<1> DEFINE N == Len(s)
           Gone(n) == s[n].phase \in Ink /\ Stale(s[n])
           IsPass(f) == f = [n \in 0 .. N |-> IF n = 0 THEN <<>>
                                             ELSE IF Gone(n) THEN f[n - 1] ELSE Append(f[n - 1], s[n])]
<1>1. N \in Nat /\ DOMAIN s = 1 .. N /\ \A n \in 1 .. N : s[n] \in Sample
  BY WholeQueue
<1>2. \E f \in [0 .. N -> Seq(Sample)] : IsPass(f)
  <2> DEFINE step == [x \in Seq(Sample) \X (1 .. N) |->
                        IF Gone(x[2]) THEN x[1] ELSE Append(x[1], s[x[2]])]
  <2>1. step \in [Seq(Sample) \X (1 .. N) -> Seq(Sample)]
    BY <1>1
  <2>2. <<>> \in Seq(Sample)
    OBVIOUS
  <2>3. \A a \in Seq(Sample), n \in 1 .. N :
          step[<<a, n>>] = IF Gone(n) THEN a ELSE Append(a, s[n])
    OBVIOUS
  <2> HIDE DEF N, step, Gone
  <2>4. PICK f \in [0 .. N -> Seq(Sample)] : IsRun(f, <<>>, step, N)
    BY <1>1, <2>1, <2>2, RunExists
  <2> DEFINE g == [n \in 0 .. N |-> IF n = 0 THEN <<>>
                                    ELSE IF Gone(n) THEN f[n - 1] ELSE Append(f[n - 1], s[n])]
  <2>5. \A n \in 0 .. N : f[n] = g[n]
    <3> TAKE n \in 0 .. N
    <3>1. f[n] = IF n = 0 THEN <<>> ELSE step[<<f[n - 1], n>>]
      BY <2>4 DEF IsRun
    <3>2. n # 0 => n \in 1 .. N /\ f[n - 1] \in Seq(Sample)
      BY <1>1
    <3> QED
      BY <2>3, <3>1, <3>2
  <2>6. f = g
    <3>1. DOMAIN g = 0 .. N
      OBVIOUS
    <3> HIDE DEF g
    <3>2. f = [n \in 0 .. N |-> f[n]]
      OBVIOUS
    <3>3. g = [n \in 0 .. N |-> g[n]]
      BY DEF g
    <3> QED
      BY <2>5, <3>2, <3>3
  <2> QED
    BY <2>6
<1>3. Lasting(s) = (CHOOSE f : IsPass(f))[N]
  BY DEF Lasting
<1> HIDE DEF IsPass
<1>4. IsPass(CHOOSE f : IsPass(f))
  BY <1>2
<1>5. PICK f : IsPass(f) /\ Lasting(s) = f[N]
  BY <1>3, <1>4
<1>6. f[0] = <<>> /\ \A n \in 1 .. N : f[n] = IF Gone(n) THEN f[n - 1] ELSE Append(f[n - 1], s[n])
  <2> HIDE DEF N, Gone
  <2>1. 0 \in 0 .. N /\ \A n \in 1 .. N : n \in 0 .. N /\ n # 0
    BY <1>1
  <2>2. \A n \in 0 .. N : f[n] = IF n = 0 THEN <<>>
                                ELSE IF Gone(n) THEN f[n - 1] ELSE Append(f[n - 1], s[n])
    BY <1>5 DEF IsPass
  <2> QED
    BY <2>1, <2>2
<1> DEFINE Kept(n) == /\ f[n] \in Seq(Sample)
                      /\ EndIn(f[n]) <=> EndBy(s, n)
                      /\ Open(f[n]) => OpenBy(s, n)
           T == {n \in 0 .. N : Kept(n)}
<1>7. 0 \in T
  <2>1. f[0] = <<>> /\ DOMAIN f[0] = {}
    BY <1>6
  <2>2. Kept(0)
    BY <2>1, NoSample DEF EndIn, Open
  <2> QED
    BY <1>1, <2>2
<1>8. ASSUME NEW n \in 1 .. N, n - 1 \in T PROVE n \in T
  <2>1. Kept(n - 1) /\ n \in Nat \ {0} /\ s[n] \in Sample
    BY <1>1, <1>8
  <2>2. /\ EndBy(s, n) <=> EndBy(s, n - 1) \/ s[n].phase \in Ends
        /\ OpenBy(s, n) <=> s[n].phase \in Draws \/ (OpenBy(s, n - 1) /\ s[n].phase \notin Ends)
    BY <2>1, NextSample
  <2>3. CASE Gone(n)
    <3>1. s[n].phase \notin Ends
      BY <2>3 DEF Ink, Ends
    <3>2. f[n] = f[n - 1]
      BY <1>6, <2>3
    <3>3. Kept(n)
      BY <2>1, <2>2, <3>1, <3>2
    <3> QED
      BY <3>3
  <2>4. CASE ~Gone(n)
    <3>1. f[n] = Append(f[n - 1], s[n])
      BY <1>6, <2>4
    <3> DEFINE e == f[n - 1]
    <3>2. /\ Append(e, s[n]) \in Seq(Sample)
          /\ EndIn(Append(e, s[n])) <=> EndIn(e) \/ s[n].phase \in Ends
          /\ Open(Append(e, s[n])) <=> s[n].phase \in Draws \/ (Open(e) /\ s[n].phase \notin Ends)
      BY <2>1, OneMore
    <3>3. Kept(n)
      BY <2>1, <2>2, <3>1, <3>2
    <3> QED
      BY <3>3
  <2> HIDE DEF Kept
  <2>5. Kept(n)
    BY <2>3, <2>4
  <2> QED
    BY <2>5
<1> HIDE DEF T
<1>9. 0 .. N \subseteq T
  BY <1>1, <1>7, <1>8, Induction
<1>10. Kept(N)
  BY <1>1, <1>9 DEF T
<1> QED
  BY <1>5, <1>10, WholeQueue

-----------------------------------------------------------------------------
(* The mouse's events and the button they press and release.               *)

LEMMA NoButton == ASSUME NEW p, NEW s PROVE Button(p, s, 0) = p
<1>1. {i \in 1 .. 0 : s[i].kind # "move"} = {}
  OBVIOUS
<1> QED
  BY <1>1 DEF Button

LEMMA NextButton ==
  ASSUME NEW p \in BOOLEAN, NEW s, NEW n \in Nat \ {0}
  PROVE  Button(p, s, n) = IF s[n].kind = "move" THEN Button(p, s, n - 1) ELSE s[n].kind = "press"
<1> DEFINE Edges(k) == {i \in 1 .. k : s[i].kind # "move"}
<1>1. CASE s[n].kind = "move"
  <2>1. Edges(n) = Edges(n - 1)
    BY <1>1
  <2> QED
    BY <1>1, <2>1 DEF Button
<1>2. CASE s[n].kind # "move"
  <2>1. n \in Edges(n) /\ \A j \in Edges(n) : j <= n
    BY <1>2
  <2>2. \A i \in Edges(n) : n <= i => i = n
    OBVIOUS
  <2>3. Button(p, s, n) = \E i \in Edges(n) : s[i].kind = "press" /\ \A j \in Edges(n) : j <= i
    BY <2>1 DEF Button
  <2> HIDE DEF Edges
  <2>4. Button(p, s, n) <=> s[n].kind = "press"
    BY <2>1, <2>2, <2>3
  <2>5. Button(p, s, n) \in BOOLEAN
    BY <2>3
  <2> QED
    BY <1>2, <2>4, <2>5
<1> QED
  BY <1>1, <1>2

LEMMA ButtonType ==
  ASSUME NEW p \in BOOLEAN, NEW s, NEW n PROVE Button(p, s, n) \in BOOLEAN
BY DEF Button

LEMMA SameButton ==
  ASSUME NEW p, NEW s, NEW t, NEW n \in Nat, \A i \in 1 .. n : s[i].kind = t[i].kind
  PROVE  Button(p, s, n) = Button(p, t, n)
<1>1. {i \in 1 .. n : s[i].kind # "move"} = {i \in 1 .. n : t[i].kind # "move"}
  OBVIOUS
<1> QED
  BY <1>1 DEF Button

\* The events that wait are good from some button: edges alternate, and only a
\* stroke presses.
Good(p, s) ==
  Alternate(p, s) /\ \A i \in DOMAIN s : s[i].kind = "press" => s[i].ink

After(p, s) == Button(p, s, Len(s))

LEMMA WholeEvents ==
  ASSUME NEW s \in Seq(MouseEvent)
  PROVE  /\ Len(s) \in Nat /\ DOMAIN s = 1 .. Len(s)
         /\ \A i \in 1 .. Len(s) :
              /\ s[i] \in MouseEvent /\ s[i].kind \in {"move", "press", "release"}
              /\ s[i].age \in 0 .. INPUT_STALE /\ s[i].ink \in BOOLEAN
<1>1. /\ Len(s) \in Nat /\ DOMAIN s = 1 .. Len(s) /\ \A i \in 1 .. Len(s) : s[i] \in MouseEvent
  OBVIOUS
<1> QED
  BY <1>1 DEF MouseEvent

LEMMA NoEvents == ASSUME NEW p PROVE Good(p, <<>>) /\ After(p, <<>>) = p
<1>1. DOMAIN <<>> = {} /\ Len(<<>>) = 0
  OBVIOUS
<1> QED
  BY <1>1, NoButton DEF Good, Alternate, After

LEMMA OneEvent ==
  ASSUME NEW p \in BOOLEAN, NEW s \in Seq(MouseEvent), NEW x \in MouseEvent
  PROVE  /\ Append(s, x) \in Seq(MouseEvent)
         /\ After(p, Append(s, x)) = IF x.kind = "move" THEN After(p, s) ELSE x.kind = "press"
         /\ /\ Good(p, s)
            /\ x.kind # "move" => (x.kind = "press") = ~After(p, s)
            /\ x.kind = "press" => x.ink
            => Good(p, Append(s, x))
<1> DEFINE t == Append(s, x)
           n == Len(s)
<1>1. /\ n \in Nat /\ t \in Seq(MouseEvent) /\ Len(t) = n + 1 /\ t[n + 1] = x
      /\ \A i \in 1 .. n : t[i] = s[i]
      /\ DOMAIN s = 1 .. n /\ DOMAIN t = 1 .. (n + 1)
  OBVIOUS
<1> HIDE DEF t
<1>2. \A k \in 0 .. n : Button(p, t, k) = Button(p, s, k)
  <2> TAKE k \in 0 .. n
  <2>1. k \in Nat /\ \A i \in 1 .. k : t[i].kind = s[i].kind
    BY <1>1
  <2> QED
    BY <2>1, SameButton
<1>3. After(p, t) = IF x.kind = "move" THEN After(p, s) ELSE x.kind = "press"
  <2>1. n + 1 \in Nat \ {0} /\ (n + 1) - 1 = n /\ n \in 0 .. n
    BY <1>1
  <2>2. Button(p, t, n + 1) = IF x.kind = "move" THEN Button(p, t, n) ELSE x.kind = "press"
    BY <1>1, <2>1, NextButton
  <2> QED
    BY <1>1, <1>2, <2>1, <2>2 DEF After
<1>4. ASSUME Good(p, s), x.kind # "move" => (x.kind = "press") = ~After(p, s),
             x.kind = "press" => x.ink
      PROVE  Good(p, t)
  <2>1. ASSUME NEW i \in 1 .. (n + 1)
        PROVE  /\ t[i].kind # "move" => (t[i].kind = "press") = ~Button(p, t, i - 1)
               /\ t[i].kind = "press" => t[i].ink
    <3>1. CASE i = n + 1
      <4>1. i - 1 = n /\ n \in 0 .. n
        BY <1>1, <3>1
      <4>2. Button(p, t, i - 1) = After(p, s)
        BY <1>2, <4>1 DEF After
      <4> QED
        BY <1>1, <1>4, <3>1, <4>2
    <3>2. CASE i # n + 1
      <4>1. i \in 1 .. n /\ i - 1 \in 0 .. n
        BY <1>1, <3>2
      <4>2. Button(p, t, i - 1) = Button(p, s, i - 1) /\ t[i] = s[i]
        BY <1>1, <1>2, <4>1
      <4> QED
        BY <1>1, <1>4, <4>1, <4>2 DEF Good, Alternate
    <3> QED
      BY <3>1, <3>2
  <2> QED
    BY <1>1, <2>1 DEF Good, Alternate
<1> QED
  BY <1>1, <1>3, <1>4 DEF t

\* Windows inserts the first events: the others are good from the button then.
LEMMA RestOfEvents ==
  ASSUME NEW p \in BOOLEAN, NEW s \in Seq(MouseEvent), Good(p, s), NEW n \in 0 .. Len(s)
  PROVE  LET q == Button(p, s, n)
             rest == SubSeq(s, n + 1, Len(s))
         IN  rest \in Seq(MouseEvent) /\ Good(q, rest) /\ After(q, rest) = After(p, s)
<1> DEFINE N == Len(s)
           q == Button(p, s, n)
           rest == SubSeq(s, n + 1, N)
           M == N - n
<1>1. /\ N \in Nat /\ n \in Nat /\ M \in Nat /\ DOMAIN s = 1 .. N
      /\ rest \in Seq(MouseEvent) /\ Len(rest) = M /\ DOMAIN rest = 1 .. M
      /\ \A i \in 1 .. M : rest[i] = s[n + i] /\ n + i \in 1 .. N
  BY WholeEvents
<1>2. q \in BOOLEAN
  BY ButtonType
<1> HIDE DEF N, q, rest, M
<1> DEFINE T == {k \in 0 .. M : Button(q, rest, k) = Button(p, s, n + k)}
<1>3. 0 \in T
  <2>1. n + 0 = n /\ 0 \in 0 .. M
    BY <1>1
  <2> QED
    BY <2>1, NoButton DEF q
<1>4. ASSUME NEW k \in 1 .. M, k - 1 \in T PROVE k \in T
  <2>1. k \in Nat \ {0} /\ n + k \in Nat \ {0} /\ (n + k) - 1 = n + (k - 1) /\ k \in 0 .. M
    BY <1>1
  <2>2. Button(q, rest, k) =
          IF rest[k].kind = "move" THEN Button(q, rest, k - 1) ELSE rest[k].kind = "press"
    BY <1>2, <2>1, NextButton
  <2>3. Button(p, s, n + k) =
          IF s[n + k].kind = "move" THEN Button(p, s, n + (k - 1)) ELSE s[n + k].kind = "press"
    BY <2>1, NextButton
  <2>4. Button(q, rest, k) = Button(p, s, n + k)
    BY <1>1, <1>4, <2>2, <2>3
  <2> QED
    BY <2>1, <2>4
<1>5. \A k \in 0 .. M : Button(q, rest, k) = Button(p, s, n + k)
  <2> HIDE DEF T
  <2>1. 0 .. M \subseteq T
    BY <1>1, <1>3, <1>4, Induction
  <2> QED
    BY <2>1 DEF T
<1>6. After(q, rest) = After(p, s)
  <2>1. M \in 0 .. M /\ n + M = N
    BY <1>1 DEF M
  <2> QED
    BY <1>1, <1>5, <2>1 DEF After, N
<1>7. ASSUME NEW i \in 1 .. M
      PROVE  /\ rest[i].kind # "move" => (rest[i].kind = "press") = ~Button(q, rest, i - 1)
             /\ rest[i].kind = "press" => rest[i].ink
  <2>1. i - 1 \in 0 .. M /\ n + (i - 1) = (n + i) - 1 /\ n + i \in DOMAIN s /\ rest[i] = s[n + i]
    BY <1>1
  <2>2. Button(q, rest, i - 1) = Button(p, s, (n + i) - 1)
    BY <1>5, <2>1
  <2> QED
    BY <2>1, <2>2 DEF Good, Alternate
<1>8. Good(q, rest)
  BY <1>1, <1>7 DEF Good, Alternate
<1> QED
  BY <1>1, <1>6, <1>8 DEF q, rest, N

-----------------------------------------------------------------------------
(* Stale mouse events go: what is kept presses no more than what waited.   *)

Acc == [kept : Seq(MouseEvent), held : BOOLEAN, owing : BOOLEAN]

\* What the pass keeps is good, and b is the button had nothing gone.
KeptWell(p, acc, b) ==
  /\ acc \in Acc
  /\ Good(p, acc.kept) /\ acc.held = After(p, acc.kept)
  /\ acc.held => b
  /\ acc.owing => b /\ ~acc.held

LEMMA AccParts ==
  ASSUME NEW acc \in Acc
  PROVE  acc.kept \in Seq(MouseEvent) /\ acc.held \in BOOLEAN /\ acc.owing \in BOOLEAN
BY DEF Acc

LEMMA EventParts ==
  ASSUME NEW e \in MouseEvent
  PROVE  /\ e.kind \in {"move", "press", "release"} /\ e.age \in 0 .. INPUT_STALE
         /\ e.ink \in BOOLEAN /\ [e EXCEPT !.kind = "press"] \in MouseEvent
         /\ [e EXCEPT !.kind = "press"].kind = "press" /\ [e EXCEPT !.kind = "press"].ink = e.ink
BY DEF MouseEvent

LEMMA KeepStep ==
  ASSUME NEW p \in BOOLEAN, NEW acc, NEW b \in BOOLEAN, KeptWell(p, acc, b), NEW e \in MouseEvent,
         e.kind # "move" => (e.kind = "press") = ~b, e.kind = "press" => e.ink
  PROVE  KeptWell(p, KeepEvent(acc, e), IF e.kind = "move" THEN b ELSE e.kind = "press")
<1> DEFINE c == IF e.kind = "move" THEN b ELSE e.kind = "press"
           kept == acc.kept
<1>1. /\ acc \in Acc /\ kept \in Seq(MouseEvent) /\ acc.held \in BOOLEAN /\ acc.owing \in BOOLEAN
      /\ Good(p, kept) /\ acc.held = After(p, kept)
      /\ acc.held => b
      /\ acc.owing => b /\ ~acc.held
  BY AccParts DEF KeptWell
<1>2. e.kind \in {"move", "press", "release"} /\ e.ink \in BOOLEAN
  BY EventParts
<1>3. /\ Append(kept, e) \in Seq(MouseEvent)
      /\ After(p, Append(kept, e)) = IF e.kind = "move" THEN After(p, kept) ELSE e.kind = "press"
      /\ (e.kind # "move" => (e.kind = "press") = ~acc.held) => Good(p, Append(kept, e))
  BY <1>1, OneEvent
<1>4. CASE Stale(e) /\ e.kind # "release"
  <2>1. KeepEvent(acc, e) = [acc EXCEPT !.owing = @ \/ e.kind = "press"]
    BY <1>4 DEF KeepEvent
  <2>2. KeepEvent(acc, e) \in Acc
    BY <1>1, <2>1 DEF Acc
  <2>3. /\ KeepEvent(acc, e).kept = kept /\ KeepEvent(acc, e).held = acc.held
        /\ KeepEvent(acc, e).owing = (acc.owing \/ e.kind = "press")
    BY <1>1, <2>1 DEF Acc
  <2> QED
    BY <1>1, <1>2, <1>4, <2>2, <2>3 DEF KeptWell
<1>5. CASE ~(Stale(e) /\ e.kind # "release") /\ e.kind = "move" /\ acc.owing /\ e.ink
  <2> DEFINE press == [e EXCEPT !.kind = "press"]
             grown == Append(kept, e)
  <2>1. KeepEvent(acc, e) = [kept |-> kept \o <<e, press>>, held |-> TRUE, owing |-> FALSE]
    BY <1>5 DEF KeepEvent
  <2>2. press \in MouseEvent /\ press.kind = "press" /\ press.ink
    BY <1>5, EventParts
  <2>3. kept \o <<e, press>> = Append(grown, press)
    <3> HIDE DEF press
    <3> QED
      BY <1>1, <2>2
  <2>4. grown \in Seq(MouseEvent) /\ After(p, grown) = acc.held /\ Good(p, grown)
    BY <1>1, <1>3, <1>5
  <2> HIDE DEF press, grown
  <2>5. /\ Append(grown, press) \in Seq(MouseEvent) /\ After(p, Append(grown, press)) = TRUE
        /\ Good(p, Append(grown, press))
    BY <1>1, <1>5, <2>2, <2>4, OneEvent
  <2> DEFINE all == Append(grown, press)
  <2>6. KeepEvent(acc, e) = [kept |-> all, held |-> TRUE, owing |-> FALSE]
    BY <2>1, <2>3, Zenon
  <2> HIDE DEF all
  <2>7. all \in Seq(MouseEvent) /\ After(p, all) = TRUE /\ Good(p, all)
    BY <2>5 DEF all
  <2>8. KeepEvent(acc, e) \in Acc
    BY <2>6, <2>7 DEF Acc
  <2>9. b
    BY <1>1, <1>5
  <2> QED
    BY <1>5, <2>6, <2>7, <2>8, <2>9 DEF KeptWell
<1>6. CASE ~(Stale(e) /\ e.kind # "release") /\ e.kind = "move" /\ ~(acc.owing /\ e.ink)
  <2>1. KeepEvent(acc, e) = [acc EXCEPT !.kept = Append(@, e), !.owing = FALSE]
    BY <1>6 DEF KeepEvent
  <2>2. KeepEvent(acc, e) \in Acc
    BY <1>1, <1>3, <2>1 DEF Acc
  <2>3. /\ KeepEvent(acc, e).kept = Append(kept, e) /\ KeepEvent(acc, e).held = acc.held
        /\ ~KeepEvent(acc, e).owing
    BY <1>1, <2>1 DEF Acc
  <2> QED
    BY <1>1, <1>3, <1>6, <2>2, <2>3 DEF KeptWell
<1>7. CASE ~(Stale(e) /\ e.kind # "release") /\ e.kind = "press"
  <2>1. KeepEvent(acc, e) = [acc EXCEPT !.kept = Append(@, e), !.held = TRUE]
    BY <1>7 DEF KeepEvent
  <2>2. KeepEvent(acc, e) \in Acc
    BY <1>1, <1>3, <2>1 DEF Acc
  <2>3. /\ KeepEvent(acc, e).kept = Append(kept, e) /\ KeepEvent(acc, e).held = TRUE
        /\ KeepEvent(acc, e).owing = acc.owing
    BY <1>1, <2>1 DEF Acc
  <2>4. ~b /\ ~acc.held /\ ~acc.owing
    BY <1>1, <1>7
  <2>5. After(p, Append(kept, e)) = TRUE /\ Good(p, Append(kept, e))
    BY <1>3, <1>7, <2>4
  <2> QED
    BY <1>7, <2>2, <2>3, <2>4, <2>5 DEF KeptWell
<1>8. CASE e.kind = "release" /\ acc.held
  <2>1. KeepEvent(acc, e) = [acc EXCEPT !.kept = Append(@, e), !.held = FALSE]
    BY <1>8 DEF KeepEvent
  <2>2. KeepEvent(acc, e) \in Acc
    BY <1>1, <1>3, <2>1 DEF Acc
  <2>3. /\ KeepEvent(acc, e).kept = Append(kept, e) /\ KeepEvent(acc, e).held = FALSE
        /\ KeepEvent(acc, e).owing = acc.owing
    BY <1>1, <2>1 DEF Acc
  <2>4. ~acc.owing
    BY <1>1, <1>8
  <2>5. After(p, Append(kept, e)) = FALSE /\ Good(p, Append(kept, e))
    BY <1>3, <1>8
  <2> QED
    BY <1>8, <2>2, <2>3, <2>4, <2>5 DEF KeptWell
<1>9. CASE e.kind = "release" /\ ~acc.held
  <2>1. KeepEvent(acc, e) = [acc EXCEPT !.owing = FALSE]
    BY <1>9 DEF KeepEvent
  <2>2. KeepEvent(acc, e) \in Acc
    BY <1>1, <2>1 DEF Acc
  <2>3. /\ KeepEvent(acc, e).kept = kept /\ KeepEvent(acc, e).held = FALSE
        /\ ~KeepEvent(acc, e).owing
    BY <1>1, <1>9, <2>1 DEF Acc
  <2> QED
    BY <1>1, <1>9, <2>2, <2>3 DEF KeptWell
<1> QED
  BY <1>2, <1>4, <1>5, <1>6, <1>7, <1>8, <1>9

LEMMA KeepType == ASSUME NEW acc \in Acc, NEW e \in MouseEvent PROVE KeepEvent(acc, e) \in Acc
<1>1. /\ acc.kept \in Seq(MouseEvent) /\ acc.held \in BOOLEAN /\ acc.owing \in BOOLEAN
      /\ Append(acc.kept, e) \in Seq(MouseEvent)
  BY AccParts
<1>2. acc.kept \o <<e, [e EXCEPT !.kind = "press"]>> \in Seq(MouseEvent)
  BY <1>1, EventParts
<1> QED
  BY <1>1, <1>2 DEF KeepEvent, Acc

LEMMA KeepingIs ==
  ASSUME NEW m \in Mice, Good(m.pressed, m.waiting)
  PROVE  KeptWell(m.pressed, Keeping(m), After(m.pressed, m.waiting))
<1> DEFINE w == m.waiting
           p == m.pressed
           N == Len(w)
           start == [kept |-> <<>>, held |-> p, owing |-> FALSE]
           IsPass(f) == f = [n \in 0 .. N |-> IF n = 0 THEN start ELSE KeepEvent(f[n - 1], w[n])]
<1>1. w \in Seq(MouseEvent) /\ p \in BOOLEAN
  BY DEF Mice
<1>2. N \in Nat /\ DOMAIN w = 1 .. N /\ \A n \in 1 .. N : w[n] \in MouseEvent
  BY <1>1, WholeEvents
<1>3. start \in Acc
  BY <1>1 DEF Acc
<1>4. \E f \in [0 .. N -> Acc] : IsPass(f)
  <2> DEFINE step == [x \in Acc \X (1 .. N) |-> KeepEvent(x[1], w[x[2]])]
  <2> HIDE DEF start, w, p, N
  <2>1. step \in [Acc \X (1 .. N) -> Acc]
    BY <1>2, KeepType
  <2>2. \A a \in Acc, n \in 1 .. N : step[<<a, n>>] = KeepEvent(a, w[n])
    OBVIOUS
  <2> HIDE DEF step
  <2>3. PICK f \in [0 .. N -> Acc] : IsRun(f, start, step, N)
    BY <1>2, <1>3, <2>1, RunExists
  <2> DEFINE g == [n \in 0 .. N |-> IF n = 0 THEN start ELSE KeepEvent(f[n - 1], w[n])]
  <2>4. \A n \in 0 .. N : f[n] = g[n]
    <3> TAKE n \in 0 .. N
    <3>1. f[n] = IF n = 0 THEN start ELSE step[<<f[n - 1], n>>]
      BY <2>3 DEF IsRun
    <3>2. n # 0 => n \in 1 .. N /\ f[n - 1] \in Acc
      BY <1>2
    <3> QED
      BY <2>2, <3>1, <3>2
  <2>5. f = g
    <3> HIDE DEF g
    <3>1. f = [n \in 0 .. N |-> f[n]]
      OBVIOUS
    <3>2. g = [n \in 0 .. N |-> g[n]]
      BY DEF g
    <3> QED
      BY <2>4, <3>1, <3>2
  <2> QED
    BY <2>5
<1>5. Keeping(m) = (CHOOSE f : IsPass(f))[N]
  BY DEF Keeping
<1> HIDE DEF IsPass
<1>6. PICK f : IsPass(f) /\ Keeping(m) = f[N]
  <2>1. IsPass(CHOOSE f : IsPass(f))
    BY <1>4
  <2> QED
    BY <1>5, <2>1
<1> HIDE DEF start, w, p, N
<1>7. f[0] = start /\ \A n \in 1 .. N : f[n] = KeepEvent(f[n - 1], w[n])
  <2>1. 0 \in 0 .. N /\ \A n \in 1 .. N : n \in 0 .. N /\ n # 0
    BY <1>2
  <2>2. \A n \in 0 .. N : f[n] = IF n = 0 THEN start ELSE KeepEvent(f[n - 1], w[n])
    BY <1>6 DEF IsPass
  <2> QED
    BY <2>1, <2>2
<1> DEFINE T == {n \in 0 .. N : KeptWell(p, f[n], Button(p, w, n))}
<1>8. 0 \in T
  <2>1. /\ start.kept = <<>> /\ start.held = p /\ ~start.owing
        /\ Button(p, w, 0) = p /\ Good(p, <<>>) /\ After(p, <<>>) = p
    BY NoButton, NoEvents DEF start
  <2>2. KeptWell(p, f[0], Button(p, w, 0))
    BY <1>1, <1>3, <1>7, <2>1 DEF KeptWell
  <2> QED
    BY <1>2, <2>2
<1>9. ASSUME NEW n \in 1 .. N, n - 1 \in T PROVE n \in T
  <2> DEFINE b == Button(p, w, n - 1)
  <2>1. n \in Nat \ {0} /\ n \in 0 .. N /\ w[n] \in MouseEvent /\ KeptWell(p, f[n - 1], b) /\ b \in BOOLEAN
    BY <1>1, <1>2, <1>9, ButtonType
  <2>2. /\ w[n].kind # "move" => (w[n].kind = "press") = ~b
        /\ w[n].kind = "press" => w[n].ink
    BY <1>2 DEF Good, Alternate, w, p
  <2>3. Button(p, w, n) = IF w[n].kind = "move" THEN b ELSE w[n].kind = "press"
    BY <1>1, <2>1, NextButton
  <2> HIDE DEF b
  <2>4. KeptWell(p, KeepEvent(f[n - 1], w[n]), IF w[n].kind = "move" THEN b ELSE w[n].kind = "press")
    BY <1>1, <2>1, <2>2, KeepStep
  <2> QED
    BY <1>7, <2>1, <2>3, <2>4
<1> HIDE DEF T
<1>10. 0 .. N \subseteq T
  BY <1>2, <1>8, <1>9, Induction
<1>11. KeptWell(p, f[N], Button(p, w, N))
  BY <1>2, <1>10 DEF T
<1> QED
  BY <1>6, <1>11 DEF After, N, w, p

-----------------------------------------------------------------------------
(* What becomes of the mouse.                                              *)

SoundMouse(m) ==
  /\ m \in Mice
  /\ Good(m.pressed, m.waiting) /\ m.planned = After(m.pressed, m.waiting)

LEMMA MouseParts ==
  ASSUME NEW m \in Mice
  PROVE  /\ m.waiting \in Seq(MouseEvent) /\ m.pressed \in BOOLEAN
         /\ m.planned \in BOOLEAN /\ m.wanted \in BOOLEAN
BY DEF Mice

LEMMA ExpireMouseIs ==
  ASSUME NEW m, SoundMouse(m)
  PROVE  /\ SoundMouse(ExpireMouse(m))
         /\ ExpireMouse(m).pressed = m.pressed /\ ExpireMouse(m).wanted = m.wanted
         /\ ExpireMouse(m).planned => m.planned
         /\ m.waiting = <<>> => ExpireMouse(m) = m
<1>1. /\ m \in Mice /\ m.waiting \in Seq(MouseEvent) /\ m.pressed \in BOOLEAN
      /\ m.planned \in BOOLEAN /\ m.wanted \in BOOLEAN
  BY MouseParts DEF SoundMouse
<1> DEFINE gone == \E i \in DOMAIN m.waiting : Stale(m.waiting[i]) /\ m.waiting[i].kind # "release"
<1>2. CASE ~gone
  BY <1>2 DEF ExpireMouse
<1>3. CASE gone
  <2> DEFINE k == Keeping(m)
  <2>1. ExpireMouse(m) = [m EXCEPT !.waiting = k.kept, !.planned = k.held]
    BY <1>3 DEF ExpireMouse
  <2>2. KeptWell(m.pressed, k, After(m.pressed, m.waiting))
    BY <1>1, KeepingIs DEF SoundMouse
  <2> HIDE DEF k
  <2>3. k.kept \in Seq(MouseEvent) /\ k.held \in BOOLEAN
    BY <2>2, AccParts DEF KeptWell
  <2>4. /\ ExpireMouse(m) \in Mice /\ ExpireMouse(m).pressed = m.pressed
        /\ ExpireMouse(m).wanted = m.wanted
        /\ ExpireMouse(m).waiting = k.kept /\ ExpireMouse(m).planned = k.held
    BY <1>1, <2>1, <2>3 DEF Mice
  <2>5. k.held => m.planned
    BY <2>2 DEF KeptWell, SoundMouse
  <2>6. Good(m.pressed, k.kept) /\ k.held = After(m.pressed, k.kept)
    BY <2>2 DEF KeptWell
  <2>7. m.waiting # <<>>
    BY <1>3
  <2> QED
    BY <2>4, <2>5, <2>6, <2>7 DEF SoundMouse
<1> QED
  BY <1>2, <1>3

LEMMA InsertedIs ==
  ASSUME NEW m, SoundMouse(m), NEW n \in 0 .. Len(m.waiting)
  PROVE  /\ SoundMouse(Inserted(m, n))
         /\ Inserted(m, n).planned = m.planned /\ Inserted(m, n).wanted = m.wanted
         /\ m.waiting = <<>> => Inserted(m, n).waiting = <<>> /\ Inserted(m, n).pressed = m.pressed
<1> DEFINE q == Button(m.pressed, m.waiting, n)
           rest == SubSeq(m.waiting, n + 1, Len(m.waiting))
<1>1. /\ m \in Mice /\ m.waiting \in Seq(MouseEvent) /\ m.pressed \in BOOLEAN
      /\ m.planned \in BOOLEAN /\ m.wanted \in BOOLEAN
  BY MouseParts DEF SoundMouse
<1>2. rest \in Seq(MouseEvent) /\ Good(q, rest) /\ After(q, rest) = After(m.pressed, m.waiting)
  BY <1>1, RestOfEvents DEF SoundMouse
<1>3. q \in BOOLEAN
  BY <1>1, ButtonType
<1>4. Inserted(m, n) = [m EXCEPT !.waiting = rest, !.pressed = q]
  BY DEF Inserted
<1>5. m.waiting = <<>> => rest = <<>> /\ q = m.pressed
  <2> SUFFICES ASSUME m.waiting = <<>> PROVE rest = <<>> /\ q = m.pressed
    OBVIOUS
  <2>1. n = 0
    OBVIOUS
  <2>2. q = m.pressed
    BY <2>1, NoButton
  <2>3. rest = <<>>
    BY <2>1
  <2> QED
    BY <2>2, <2>3
<1> HIDE DEF q, rest
<1>6. /\ Inserted(m, n) \in Mice /\ Inserted(m, n).pressed = q /\ Inserted(m, n).waiting = rest
      /\ Inserted(m, n).planned = m.planned /\ Inserted(m, n).wanted = m.wanted
  BY <1>1, <1>2, <1>3, <1>4 DEF Mice
<1> QED
  BY <1>2, <1>5, <1>6 DEF SoundMouse

LEMMA PumpedIs ==
  ASSUME NEW m, SoundMouse(m), NEW p \in Pumped(m)
  PROVE  /\ SoundMouse(p) /\ (p.planned => m.planned) /\ p.wanted = m.wanted
         /\ ~MouseBusy(m) => ~MouseBusy(p)
<1> DEFINE e == ExpireMouse(m)
<1>1. /\ SoundMouse(e) /\ e.pressed = m.pressed /\ e.wanted = m.wanted
      /\ e.planned => m.planned
      /\ m.waiting = <<>> => e = m
  BY ExpireMouseIs
<1>2. PICK n \in 0 .. Len(e.waiting) : p = Inserted(e, n)
  BY DEF Pumped
<1> HIDE DEF e
<1>3. /\ SoundMouse(p) /\ p.planned = e.planned /\ p.wanted = e.wanted
      /\ e.waiting = <<>> => p.waiting = <<>> /\ p.pressed = e.pressed
  BY <1>1, <1>2, InsertedIs
<1> QED
  BY <1>1, <1>3 DEF MouseBusy

LEMMA MouseForIs ==
  ASSUME NEW m, SoundMouse(m), NEW x \in Sample
  PROVE  SoundMouse(MouseFor(m, x)) /\ MouseFor(m, x).planned = (x.phase \in Draws)
<1> DEFINE want == x.phase \in {"down", "move"}
           Of(kind) == Event(kind, x.age, want)
           f == MouseFor(m, x)
           p == m.pressed
           w == m.waiting
<1>1. /\ m \in Mice /\ w \in Seq(MouseEvent) /\ p \in BOOLEAN
      /\ m.planned \in BOOLEAN /\ m.wanted \in BOOLEAN
  BY MouseParts DEF SoundMouse
<1>2. Good(p, w) /\ m.planned = After(p, w)
  BY DEF SoundMouse
<1>3. want \in BOOLEAN /\ x.age \in 0 .. INPUT_STALE
  BY DEF Sample
<1>10. want = (x.phase \in Draws)
  BY DEF want, Draws
<1> HIDE DEF want
<1>4. ASSUME NEW kind \in {"move", "press", "release"}
      PROVE  Of(kind) \in MouseEvent /\ Of(kind).kind = kind /\ Of(kind).ink = want
  BY <1>3 DEF Event, MouseEvent
<1> DEFINE moved == Append(w, Of("move"))
<1>5. moved \in Seq(MouseEvent) /\ Good(p, moved) /\ After(p, moved) = m.planned
  BY <1>1, <1>2, <1>4, OneEvent
<1>6. ASSUME NEW events \in Seq(MouseEvent),
             f = [m EXCEPT !.wanted = want, !.planned = want, !.waiting = events],
             Good(p, events), After(p, events) = want
      PROVE  SoundMouse(f) /\ f.planned = want
  <2> HIDE DEF f
  <2>1. f \in Mice /\ f.pressed = p /\ f.waiting = events /\ f.planned = want
    BY <1>1, <1>3, <1>6 DEF Mice
  <2> QED
    BY <1>6, <2>1 DEF SoundMouse
<1>7. CASE want = m.planned /\ (want \/ x.phase = "hover")
  <2>1. f = [m EXCEPT !.wanted = want, !.planned = want, !.waiting = w \o <<Of("move")>>]
    BY <1>3, <1>7 DEF MouseFor, want
  <2>2. w \o <<Of("move")>> = moved
    <3>1. Of("move") \in MouseEvent
      BY <1>4
    <3> HIDE DEF Of
    <3> QED
      BY <1>1, <3>1
  <2>3. f = [m EXCEPT !.wanted = want, !.planned = want, !.waiting = moved]
    BY <2>1, <2>2, Zenon
  <2> HIDE DEF f, moved
  <2>4. SoundMouse(f) /\ f.planned = want
    BY <1>5, <1>6, <1>7, <2>3
  <2> QED
    BY <1>10, <2>4 DEF f
<1>8. CASE want # m.planned
  <2> DEFINE edge == Of(IF want THEN "press" ELSE "release")
  <2>1. f = [m EXCEPT !.wanted = want, !.planned = want, !.waiting = w \o <<Of("move"), edge>>]
    BY <1>1, <1>3, <1>8 DEF MouseFor, want
  <2>2. edge \in MouseEvent /\ edge.kind = (IF want THEN "press" ELSE "release") /\ edge.ink = want
    BY <1>3, <1>4
  <2>3. w \o <<Of("move"), edge>> = Append(moved, edge)
    <3>1. Of("move") \in MouseEvent
      BY <1>4
    <3> HIDE DEF Of, edge
    <3> QED
      BY <1>1, <2>2, <3>1
  <2> HIDE DEF edge, moved
  <2>4. /\ Append(moved, edge) \in Seq(MouseEvent) /\ Good(p, Append(moved, edge))
        /\ After(p, Append(moved, edge)) = want
    BY <1>1, <1>3, <1>5, <1>8, <2>2, OneEvent
  <2>5. f = [m EXCEPT !.wanted = want, !.planned = want, !.waiting = Append(moved, edge)]
    BY <2>1, <2>3, Zenon DEF edge, moved
  <2> HIDE DEF f
  <2>6. SoundMouse(f) /\ f.planned = want
    BY <1>6, <2>4, <2>5
  <2> QED
    BY <1>10, <2>6 DEF f
<1>9. CASE ~want /\ ~m.planned /\ x.phase # "hover"
  <2>1. f = [m EXCEPT !.wanted = want, !.planned = want, !.waiting = w \o <<>>]
    BY <1>9 DEF MouseFor, want
  <2>2. w \o <<>> = w
    BY <1>1
  <2>3. f = [m EXCEPT !.wanted = want, !.planned = want, !.waiting = w]
    BY <2>1, <2>2, Zenon
  <2> HIDE DEF f, w
  <2>4. After(p, w) = want
    BY <1>1, <1>2, <1>3, <1>9
  <2>5. SoundMouse(f) /\ f.planned = want
    BY <1>1, <1>2, <1>6, <2>3, <2>4
  <2> QED
    BY <1>10, <2>5 DEF f
<1> QED
  BY <1>1, <1>3, <1>7, <1>8, <1>9

LEMMA DropMouseIs ==
  ASSUME NEW m \in Mice
  PROVE  /\ SoundMouse(DropMouseInput(m)) /\ ~DropMouseInput(m).planned
         /\ ~MouseBusy(m) => ~MouseBusy(DropMouseInput(m))
<1> DEFINE d == DropMouseInput(m)
           release == Event("release", 0, FALSE)
           w == IF m.pressed THEN Append(<<>>, release) ELSE <<>>
<1>1. m.pressed \in BOOLEAN
  BY MouseParts
<1>2. release \in MouseEvent /\ release.kind = "release"
  BY PenAssumption DEF Event, MouseEvent
<1>3. d = [waiting |-> w, pressed |-> m.pressed, planned |-> FALSE, wanted |-> FALSE]
  <2>1. <<release>> = Append(<<>>, release)
    <3> HIDE DEF release
    <3> QED
      OBVIOUS
  <2>2. d = [waiting |-> IF m.pressed THEN <<release>> ELSE <<>>, pressed |-> m.pressed,
             planned |-> FALSE, wanted |-> FALSE]
    <3>1. d = [NoMouse EXCEPT !.pressed = m.pressed,
                              !.waiting = IF m.pressed THEN <<release>> ELSE <<>>]
      BY DEF DropMouseInput
    <3> HIDE DEF d, release
    <3> QED
      BY <3>1 DEF NoMouse
  <2> HIDE DEF release, d
  <2> QED
    BY <2>1, <2>2
<1>4. w \in Seq(MouseEvent) /\ Good(m.pressed, w) /\ After(m.pressed, w) = FALSE
  <2>1. Good(m.pressed, <<>>) /\ After(m.pressed, <<>>) = m.pressed /\ <<>> \in Seq(MouseEvent)
    BY NoEvents
  <2> HIDE DEF release
  <2>2. CASE m.pressed
    BY <1>1, <1>2, <2>1, <2>2, OneEvent
  <2>3. CASE ~m.pressed
    BY <1>1, <2>1, <2>3
  <2> QED
    BY <2>2, <2>3
<1>5. ~m.pressed => w = <<>>
  OBVIOUS
<1> HIDE DEF w, d
<1>6. d \in Mice /\ d.waiting = w /\ d.pressed = m.pressed /\ d.planned = FALSE /\ d.wanted = FALSE
  BY <1>1, <1>3, <1>4 DEF Mice
<1> QED
  BY <1>4, <1>5, <1>6 DEF SoundMouse, MouseBusy, d

LEMMA AgedMouseIs ==
  ASSUME NEW m, SoundMouse(m), NEW a, a = [m EXCEPT !.waiting = Aged(m.waiting)]
  PROVE  SoundMouse(a) /\ a.planned = m.planned /\ (~MouseBusy(m) => ~MouseBusy(a))
<1> DEFINE w == m.waiting
           v == Aged(w)
           N == Len(w)
<1>1. /\ m \in Mice /\ w \in Seq(MouseEvent) /\ m.pressed \in BOOLEAN
      /\ m.planned \in BOOLEAN /\ m.wanted \in BOOLEAN
  BY MouseParts DEF SoundMouse
<1>2. N \in Nat /\ DOMAIN w = 1 .. N /\ \A i \in 1 .. N : w[i] \in MouseEvent
  BY <1>1, WholeEvents
<1>3. ASSUME NEW i \in 1 .. N
      PROVE  v[i] \in MouseEvent /\ v[i].kind = w[i].kind /\ v[i].ink = w[i].ink
  <2>1. v[i] = [w[i] EXCEPT !.age = Older(@)]
    BY <1>2 DEF Aged
  <2>2. w[i] \in MouseEvent /\ Older(w[i].age) \in 0 .. INPUT_STALE
    <3>1. w[i] \in MouseEvent
      BY <1>2
    <3>2. w[i].age \in 0 .. INPUT_STALE /\ INPUT_STALE \in Nat
      BY <3>1, EventParts, PenAssumption
    <3> QED
      BY <3>1, <3>2 DEF Older
  <2> QED
    BY <2>1, <2>2 DEF MouseEvent
<1>4. v \in Seq(MouseEvent) /\ Len(v) = N /\ DOMAIN v = 1 .. N
  <2>1. v = [i \in 1 .. N |-> v[i]]
    BY <1>2 DEF Aged
  <2> HIDE DEF v
  <2>2. v \in [1 .. N -> MouseEvent]
    BY <1>3, <2>1
  <2> QED
    BY <1>2, <2>2
<1> HIDE DEF v, w, N
<1>5. \A k \in 0 .. N : Button(m.pressed, v, k) = Button(m.pressed, w, k)
  <2> TAKE k \in 0 .. N
  <2>1. k \in Nat /\ \A i \in 1 .. k : v[i].kind = w[i].kind
    BY <1>2, <1>3
  <2> QED
    BY <2>1, SameButton
<1>6. Good(m.pressed, v)
  <2>1. \A i \in 1 .. N : i - 1 \in 0 .. N
    BY <1>2
  <2> QED
    BY <1>2, <1>3, <1>4, <1>5, <2>1 DEF SoundMouse, Good, Alternate, w
<1>7. After(m.pressed, v) = m.planned
  <2>1. N \in 0 .. N /\ Len(v) = N /\ Len(w) = N
    BY <1>2, <1>4 DEF N
  <2>2. m.planned = Button(m.pressed, w, N)
    BY <2>1 DEF SoundMouse, After, w
  <2> QED
    BY <1>5, <2>1, <2>2 DEF After
<1>8. a = [m EXCEPT !.waiting = v]
  BY DEF v, w
<1>9. /\ a \in Mice /\ a.waiting = v /\ a.pressed = m.pressed /\ a.planned = m.planned
      /\ a.wanted = m.wanted
  BY <1>1, <1>4, <1>8 DEF Mice
<1>10. w = <<>> => v = <<>>
  <2>1. w = <<>> => N = 0
    BY DEF N
  <2> QED
    BY <1>4, <2>1
<1> QED
  BY <1>6, <1>7, <1>9, <1>10 DEF SoundMouse, MouseBusy, w

-----------------------------------------------------------------------------
(* The device's contact, and samples as they come and go.                  *)

LEMMA ContactParts ==
  ASSUME NEW c \in Contacts
  PROVE  /\ c.state \in {"out", "hover", "contact"} /\ c.queue \in Seq(Sample)
         /\ c.there \in BOOLEAN /\ c.refused \in BOOLEAN /\ c.trial \in BOOLEAN
         /\ c.spaced \in BOOLEAN /\ c.resumed \in BOOLEAN
         /\ c.since \in 0 .. Stuck /\ c.left \in 0 .. STUCK_TRIAL
BY DEF Contacts

LEMMA Times ==
  /\ INPUT_STALE \in Nat \ {0} /\ STUCK_TRIAL \in Nat \ {0} /\ RETRY_INTERVAL \in Nat \ {0}
  /\ Stuck \in Nat /\ 0 \in 0 .. INPUT_STALE /\ 0 \in 0 .. Stuck
  /\ 0 \in 0 .. STUCK_TRIAL /\ STUCK_TRIAL \in 0 .. STUCK_TRIAL
  /\ 0 \in 0 .. RETRY_INTERVAL /\ RETRY_INTERVAL \in 0 .. RETRY_INTERVAL
BY PenAssumption DEF Stuck

LEMMA FreshIs ==
  ASSUME NEW phase \in Ink \cup Ends
  PROVE  Fresh(phase) \in Sample /\ Fresh(phase).phase = phase
BY Times DEF Fresh, Sample

LEMMA EmptyQueue == <<>> \in Seq(Sample) /\ ~EndIn(<<>>) /\ ~Open(<<>>)
BY DEF EndIn, Open

LEMMA FirstSample ==
  ASSUME NEW s \in Seq(Sample), s # <<>>
  PROVE  /\ Head(s) \in Sample /\ Head(s).phase \in Ink \cup Ends /\ Tail(s) \in Seq(Sample)
         /\ EndIn(s) <=> Head(s).phase \in Ends \/ EndIn(Tail(s))
         /\ Open(s) <=> Open(Tail(s)) \/ (Head(s).phase \in Draws /\ ~EndIn(Tail(s)))
<1> DEFINE t == Tail(s)
           N == Len(t)
<1>1. /\ N \in Nat /\ DOMAIN t = 1 .. N /\ DOMAIN s = 1 .. (N + 1)
      /\ t \in Seq(Sample) /\ s[1] = Head(s) /\ Head(s) \in Sample
      /\ \A i \in 1 .. N : t[i] = s[i + 1]
  OBVIOUS
<1>2. Head(s).phase \in Ink \cup Ends
  BY <1>1 DEF Sample
<1> HIDE DEF t, N
<1>3. \A i \in 1 .. (N + 1) : i = 1 \/ (i - 1 \in 1 .. N /\ s[i] = t[i - 1])
  <2> TAKE i \in 1 .. (N + 1)
  <2>1. i # 1 => i - 1 \in 1 .. N /\ (i - 1) + 1 = i
    BY <1>1
  <2> QED
    BY <1>1, <2>1
<1>4. \A i \in 1 .. N : i + 1 \in 1 .. (N + 1) /\ t[i] = s[i + 1] /\ 1 \in 1 .. (N + 1) /\ i + 1 > 1
  BY <1>1
<1>4a. 1 \in 1 .. (N + 1)
  BY <1>1
<1>5. EndIn(s) <=> Head(s).phase \in Ends \/ EndIn(t)
  <2>1. ASSUME EndIn(s) PROVE Head(s).phase \in Ends \/ EndIn(t)
    BY <1>1, <1>3, <2>1 DEF EndIn
  <2>2. ASSUME Head(s).phase \in Ends \/ EndIn(t) PROVE EndIn(s)
    BY <1>1, <1>4, <1>4a, <2>2 DEF EndIn
  <2> QED
    BY <2>1, <2>2
<1>6. ASSUME Open(t) PROVE Open(s)
  <2>1. PICK i \in 1 .. N : t[i].phase \in Draws /\ \A j \in 1 .. N : j > i => t[j].phase \notin Ends
    BY <1>1, <1>6 DEF Open
  <2>2. i + 1 \in DOMAIN s /\ s[i + 1].phase \in Draws
    BY <1>1, <1>4, <2>1
  <2>3. ASSUME NEW j \in DOMAIN s, j > i + 1 PROVE s[j].phase \notin Ends
    <3>1. j - 1 \in 1 .. N /\ j - 1 > i /\ s[j] = t[j - 1]
      BY <1>1, <1>3, <2>3
    <3> QED
      BY <2>1, <3>1
  <2> QED
    BY <2>2, <2>3 DEF Open
<1>7. ASSUME Head(s).phase \in Draws, ~EndIn(t) PROVE Open(s)
  <2>1. 1 \in DOMAIN s /\ s[1].phase \in Draws
    BY <1>1, <1>4a, <1>7
  <2>2. ASSUME NEW j \in DOMAIN s, j > 1 PROVE s[j].phase \notin Ends
    <3>1. j - 1 \in 1 .. N /\ s[j] = t[j - 1]
      BY <1>1, <1>3, <2>2
    <3> QED
      BY <1>1, <1>7, <3>1 DEF EndIn
  <2> QED
    BY <2>1, <2>2 DEF Open
<1>8. ASSUME Open(s) PROVE Open(t) \/ (Head(s).phase \in Draws /\ ~EndIn(t))
  <2>1. PICK i \in DOMAIN s : s[i].phase \in Draws /\ \A j \in DOMAIN s : j > i => s[j].phase \notin Ends
    BY <1>8 DEF Open
  <2>2. CASE i = 1
    <3>1. \A j \in 1 .. N : t[j].phase \notin Ends
      BY <1>1, <1>4, <2>1, <2>2
    <3> QED
      BY <1>1, <2>1, <2>2, <3>1 DEF EndIn
  <2>3. CASE i # 1
    <3>1. i - 1 \in 1 .. N /\ t[i - 1].phase \in Draws
      BY <1>1, <1>3, <2>1, <2>3
    <3>2. ASSUME NEW j \in 1 .. N, j > i - 1 PROVE t[j].phase \notin Ends
      <4>1. j + 1 \in DOMAIN s /\ j + 1 > i /\ t[j] = s[j + 1]
        BY <1>1, <1>4, <3>2
      <4> QED
        BY <2>1, <4>1
    <3> QED
      BY <1>1, <3>1, <3>2 DEF Open
  <2> QED
    BY <2>2, <2>3
<1> QED
  BY <1>1, <1>2, <1>5, <1>6, <1>7, <1>8 DEF t

LEMMA ExpireInkIs ==
  ASSUME NEW c \in Contacts
  PROVE  LET e == ExpireInk(c)
         IN  /\ e \in Contacts /\ e.state = c.state
             /\ EndIn(e.queue) <=> EndIn(c.queue)
             /\ Open(e.queue) => Open(c.queue)
<1> DEFINE kept == Lasting(c.queue)
           e == ExpireInk(c)
           same == c.resumed /\ Len(kept) = Len(c.queue)
<1>1. c.queue \in Seq(Sample)
  BY ContactParts
<1>2. kept \in Seq(Sample) /\ (EndIn(kept) <=> EndIn(c.queue)) /\ (Open(kept) => Open(c.queue))
  BY <1>1, LastingIs
<1>3. e = [c EXCEPT !.queue = kept, !.resumed = same]
  BY DEF ExpireInk
<1>4. same \in BOOLEAN
  OBVIOUS
<1> HIDE DEF e, kept, same
<1>5. e \in Contacts /\ e.state = c.state /\ e.queue = kept
  BY <1>2, <1>3, <1>4 DEF Contacts
<1> QED
  BY <1>2, <1>5 DEF e

LEMMA BeginFlushIs ==
  ASSUME NEW c \in Contacts
  PROVE  LET e == BeginFlush(c)
         IN  /\ e \in Contacts /\ e.state = c.state
             /\ EndIn(e.queue) <=> EndIn(c.queue)
             /\ Open(e.queue) => Open(c.queue)
<1> DEFINE x == ExpireInk(c)
           e == BeginFlush(c)
<1>1. x \in Contacts /\ x.state = c.state /\ (EndIn(x.queue) <=> EndIn(c.queue))
      /\ (Open(x.queue) => Open(c.queue))
  BY ExpireInkIs
<1>2. e = [x EXCEPT !.spaced = FALSE]
  BY DEF BeginFlush
<1> HIDE DEF x, e
<1>3. e \in Contacts /\ e.state = x.state /\ e.queue = x.queue
  BY <1>1, <1>2 DEF Contacts
<1> QED
  BY <1>1, <1>3 DEF e

LEMMA FrontSample ==
  ASSUME NEW s \in Seq(Sample), s # <<>>
  PROVE  Front(s) \in Seq(Sample) /\ Last(s) \in Sample /\ s = Append(Front(s), Last(s))
<1> DEFINE n == Len(s)
           f == SubSeq(s, 1, n - 1)
<1>1. n \in Nat \ {0} /\ n - 1 \in Nat /\ s[n] \in Sample
  OBVIOUS
<1>2. Front(s) = f /\ Last(s) = s[n]
  BY DEF Front, Last
<1>3. f \in Seq(Sample) /\ Len(f) = n - 1 /\ \A i \in 1 .. (n - 1) : f[i] = s[i]
  <2>1. \A i \in 1 .. (n - 1) : s[i] \in Sample
    OBVIOUS
  <2>2. /\ f \in Seq(Sample) /\ Len(f) = IF 1 <= n - 1 THEN (n - 1) - 1 + 1 ELSE 0
        /\ \A i \in 1 .. ((n - 1) - 1 + 1) : f[i] = s[1 + i - 1]
    <3> HIDE DEF n
    <3>1. n - 1 \in Int /\ 1 \in Int
      BY <1>1
    <3> QED
      BY <2>1, <3>1, SubSeqProperties
  <2> HIDE DEF f, n
  <2>3. (n - 1) - 1 + 1 = n - 1 /\ \A i \in 1 .. (n - 1) : 1 + i - 1 = i
    BY <1>1
  <2> QED
    BY <1>1, <2>2, <2>3
<1> DEFINE g == Append(f, s[n])
<1> HIDE DEF f
<1>4. /\ g \in Seq(Sample) /\ Len(g) = n /\ g[n] = s[n] /\ \A i \in 1 .. (n - 1) : g[i] = f[i]
  BY <1>1, <1>3
<1>5. \A i \in 1 .. n : g[i] = s[i]
  BY <1>1, <1>3, <1>4
<1> HIDE DEF g
<1>6. g = s
  BY <1>4, <1>5
<1> QED
  BY <1>1, <1>2, <1>3, <1>6 DEF g

LEMMA EnqueueIs ==
  ASSUME NEW c \in Contacts, NEW phase \in Ink \cup Ends
  PROVE  LET e == Enqueue(c, phase)
         IN  /\ e \in Contacts /\ e.state = c.state
             /\ EndIn(e.queue) <=> EndIn(c.queue) \/ phase \in Ends
             /\ Open(e.queue) => phase \in Draws \/ (Open(c.queue) /\ phase \notin Ends)
<1> DEFINE e == Enqueue(c, phase)
           q == c.queue
           x == Fresh(phase)
<1>1. q \in Seq(Sample) /\ x \in Sample /\ x.phase = phase
  BY ContactParts, FreshIs
<1>2. ASSUME NEW kept \in Seq(Sample), e = [c EXCEPT !.queue = kept]
      PROVE  e \in Contacts /\ e.state = c.state /\ e.queue = kept
  <2> HIDE DEF e
  <2> QED
    BY <1>2 DEF Contacts
<1>3. CASE ~Coalesces(c, phase)
  <2> DEFINE kept == Append(q, x)
  <2>1. e = [c EXCEPT !.queue = kept]
    BY <1>3 DEF Enqueue
  <2>2. /\ kept \in Seq(Sample) /\ (EndIn(kept) <=> EndIn(q) \/ phase \in Ends)
        /\ Open(kept) <=> phase \in Draws \/ (Open(q) /\ phase \notin Ends)
    <3> HIDE DEF x, q
    <3> QED
      BY <1>1, OneMore
  <2> HIDE DEF e, kept
  <2>3. e \in Contacts /\ e.state = c.state /\ e.queue = kept
    BY <1>2, <2>1, <2>2
  <2> QED
    BY <2>2, <2>3 DEF e
<1>4. CASE Coalesces(c, phase)
  <2> DEFINE front == Front(q)
             last == Last(q)
             kept == Append(front, x)
  <2>1. e = [c EXCEPT !.queue = kept]
    BY <1>4 DEF Enqueue
  <2>2. q # <<>> /\ last.phase \notin Ends /\ phase \notin Ends
    BY <1>1, <1>4 DEF Coalesces, Ends
  <2>3. front \in Seq(Sample) /\ last \in Sample /\ q = Append(front, last)
    BY <1>1, <2>2, FrontSample
  <2> HIDE DEF x, q, front, last, e
  <2>4. /\ kept \in Seq(Sample) /\ (EndIn(kept) <=> EndIn(front) \/ phase \in Ends)
        /\ Open(kept) <=> phase \in Draws \/ (Open(front) /\ phase \notin Ends)
    BY <1>1, <2>3, OneMore
  <2>5. /\ EndIn(q) <=> EndIn(front) \/ last.phase \in Ends
        /\ Open(q) <=> last.phase \in Draws \/ (Open(front) /\ last.phase \notin Ends)
    BY <2>3, OneMore
  <2> HIDE DEF kept
  <2>6. e \in Contacts /\ e.state = c.state /\ e.queue = kept
    BY <1>2, <2>1, <2>4
  <2> QED
    BY <2>2, <2>4, <2>5, <2>6 DEF e, q
<1> QED
  BY <1>3, <1>4

LEMMA AgedQueueIs ==
  ASSUME NEW s \in Seq(Sample)
  PROVE  /\ Aged(s) \in Seq(Sample) /\ (EndIn(Aged(s)) <=> EndIn(s)) /\ (Open(Aged(s)) <=> Open(s))
         /\ s = <<>> <=> Aged(s) = <<>>
<1> DEFINE v == Aged(s)
           N == Len(s)
<1>1. N \in Nat /\ DOMAIN s = 1 .. N /\ \A i \in 1 .. N : s[i] \in Sample
  BY WholeQueue
<1>2. ASSUME NEW i \in 1 .. N PROVE v[i] \in Sample /\ v[i].phase = s[i].phase
  <2>1. v[i] = [s[i] EXCEPT !.age = Older(@)]
    BY <1>1 DEF Aged
  <2>2. s[i] \in Sample /\ Older(s[i].age) \in 0 .. INPUT_STALE
    <3>1. s[i] \in Sample
      BY <1>1
    <3>2. s[i].age \in 0 .. INPUT_STALE /\ INPUT_STALE \in Nat
      BY <3>1, PenAssumption DEF Sample
    <3> QED
      BY <3>1, <3>2 DEF Older
  <2> QED
    BY <2>1, <2>2 DEF Sample
<1>3. v \in Seq(Sample) /\ Len(v) = N
  <2>1. v = [i \in 1 .. N |-> v[i]]
    BY <1>1 DEF Aged
  <2> HIDE DEF v
  <2>2. v \in [1 .. N -> Sample]
    BY <1>2, <2>1
  <2> QED
    BY <1>1, <2>2
<1> HIDE DEF v
<1>4. EndBy(v, N) = EndBy(s, N) /\ OpenBy(v, N) = OpenBy(s, N)
  BY <1>1, <1>2, SameSamples
<1>5. (EndIn(v) <=> EndIn(s)) /\ (Open(v) <=> Open(s))
  BY <1>3, <1>4, WholeQueue
<1>6. s = <<>> <=> v = <<>>
  BY <1>1, <1>3
<1> QED
  BY <1>3, <1>5, <1>6 DEF v

-----------------------------------------------------------------------------
(* What the relay still has to inject, as samples. *)

Samples(phases) == [i \in DOMAIN phases |-> Fresh(phases[i])]

LEMMA SamplesAre ==
  ASSUME NEW t \in Seq(Ink \cup Ends)
  PROVE  /\ Samples(t) \in Seq(Sample) /\ Len(Samples(t)) = Len(t)
         /\ \A i \in 1 .. Len(t) : Samples(t)[i] = Fresh(t[i]) /\ Samples(t)[i].phase = t[i]
<1> DEFINE v == Samples(t)
           N == Len(t)
<1>1. N \in Nat /\ DOMAIN t = 1 .. N /\ \A i \in 1 .. N : t[i] \in Ink \cup Ends
  OBVIOUS
<1>2. \A i \in 1 .. N : v[i] = Fresh(t[i]) /\ v[i] \in Sample /\ v[i].phase = t[i]
  BY <1>1, FreshIs DEF Samples
<1>3. v = [i \in 1 .. N |-> v[i]]
  BY <1>1 DEF Samples
<1> HIDE DEF v
<1>4. v \in [1 .. N -> Sample]
  BY <1>2, <1>3
<1>5. v \in Seq(Sample) /\ Len(v) = N
  BY <1>1, <1>4
<1> QED
  BY <1>2, <1>5 DEF v

LEMMA FirstToDo ==
  ASSUME NEW t \in Seq(Ink \cup Ends), t # <<>>
  PROVE  /\ Head(t) \in Ink \cup Ends /\ Tail(t) \in Seq(Ink \cup Ends)
         /\ EndIn(Samples(t)) <=> Head(t) \in Ends \/ EndIn(Samples(Tail(t)))
         /\ Open(Samples(t)) <=> Open(Samples(Tail(t))) \/ (Head(t) \in Draws /\ ~EndIn(Samples(Tail(t))))
<1> DEFINE v == Samples(t)
           w == Samples(Tail(t))
           N == Len(t)
<1>1. N \in Nat \ {0} /\ Tail(t) \in Seq(Ink \cup Ends) /\ Len(Tail(t)) = N - 1 /\ t[1] = Head(t)
      /\ \A i \in 1 .. (N - 1) : Tail(t)[i] = t[i + 1]
  OBVIOUS
<1>1a. Head(t) \in Ink \cup Ends
  OBVIOUS
<1>2. /\ v \in Seq(Sample) /\ Len(v) = N
      /\ \A i \in 1 .. N : v[i] = Fresh(t[i]) /\ v[i].phase = t[i]
  BY SamplesAre
<1>3. w \in Seq(Sample) /\ Len(w) = N - 1 /\ \A i \in 1 .. (N - 1) : w[i] = Fresh(Tail(t)[i])
  BY <1>1, SamplesAre
<1> HIDE DEF v, w
<1>4. w = Tail(v)
  <2>1. Len(Tail(v)) = N - 1 /\ Tail(v) \in Seq(Sample) /\ \A i \in 1 .. (N - 1) : Tail(v)[i] = v[i + 1]
    BY <1>1, <1>2
  <2>2. \A i \in 1 .. (N - 1) : w[i] = Tail(v)[i]
    <3> TAKE i \in 1 .. (N - 1)
    <3>1. i + 1 \in 1 .. N
      BY <1>1
    <3> QED
      BY <1>1, <1>2, <1>3, <2>1, <3>1
  <2> DEFINE u == Tail(v)
  <2> HIDE DEF u
  <2>3. u \in Seq(Sample) /\ Len(u) = N - 1 /\ \A i \in 1 .. (N - 1) : w[i] = u[i]
    BY <2>1, <2>2 DEF u
  <2>4. w = u
    BY <1>1, <1>3, <2>3
  <2> QED
    BY <2>4 DEF u
<1>5. v # <<>> /\ Head(v) = v[1] /\ v[1].phase = Head(t)
  BY <1>1, <1>2
<1>6. /\ EndIn(v) <=> Head(t) \in Ends \/ EndIn(w)
      /\ Open(v) <=> Open(w) \/ (Head(t) \in Draws /\ ~EndIn(w))
  BY <1>2, <1>4, <1>5, FirstSample
<1> QED
  BY <1>1, <1>1a, <1>6 DEF v, w

LEMMA NothingToDoIs == Samples(<<>>) = <<>> /\ ~EndIn(Samples(<<>>)) /\ ~Open(Samples(<<>>))
<1>1. DOMAIN <<>> = {}
  OBVIOUS
<1> QED
  BY <1>1 DEF Samples, EndIn, Open

-----------------------------------------------------------------------------
(* The inductive invariant.                                                *)

\* Without a device nothing waits for one, except within a pass; samples on
\* their way to the mouse leave the device empty; Windows holds what is known.
DeviceInv ==
  /\ ~slot.handle => contact.state = "out" /\ (at # "flush" => contact.queue = <<>>)
  /\ over # <<>> => at = "idle" /\ contact.queue = <<>> /\ contact.state = "out"
  /\ at = "gone" => ~slot.handle
  /\ pen = contact.state

\* The mouse is sound, and rests while the device has something.
MouseInv ==
  /\ SoundMouse(mouse)
  /\ contact.queue # <<>> \/ contact.state # "out" => ~MouseBusy(mouse)

\* Once the stroke is over, whatever is still drawn or held has its end behind
\* it: with the device, on its way to the mouse, or still to be injected.
StrokeInv ==
  held # "contact" =>
    /\ ~Open(Samples(todo))
    /\ Open(over) \/ Open(contact.queue) => EndIn(Samples(todo))
    /\ pen = "contact" \/ mouse.planned =>
         EndIn(over) \/ EndIn(contact.queue) \/ EndIn(Samples(todo))

IInv == TypeOK /\ DeviceInv /\ MouseInv /\ StrokeInv

LEMMA Resting == ASSUME NEW m, SoundMouse(m), ~MouseBusy(m) PROVE ~m.planned
BY NoEvents DEF SoundMouse, MouseBusy

LEMMA NoMouseIs == SoundMouse(NoMouse) /\ ~MouseBusy(NoMouse)
<1>1. /\ NoMouse.waiting = <<>> /\ NoMouse.pressed = FALSE
      /\ NoMouse.planned = FALSE /\ NoMouse.wanted = FALSE
  BY DEF NoMouse
<1>2. NoMouse \in Mice
  BY DEF NoMouse, Mice
<1> DEFINE m == NoMouse
<1> HIDE DEF m
<1>3. Good(m.pressed, m.waiting) /\ After(m.pressed, m.waiting) = m.pressed
  <2>1. m.waiting = <<>> /\ m.pressed \in BOOLEAN
    BY <1>1 DEF m
  <2> QED
    BY <2>1, NoEvents
<1>4. SoundMouse(m) /\ ~MouseBusy(m)
  BY <1>1, <1>2, <1>3 DEF SoundMouse, MouseBusy, m
<1> QED
  BY <1>4 DEF m

LEMMA NewContactIs ==
  ASSUME NEW trial \in BOOLEAN
  PROVE  /\ NewContact(trial) \in Contacts
         /\ NewContact(trial).state = "out" /\ NewContact(trial).queue = <<>>
<1>1. NewContact(trial).state = "out" /\ NewContact(trial).queue = <<>>
  BY DEF NewContact
<1>2. <<>> \in Seq(Sample) /\ (IF trial THEN STUCK_TRIAL ELSE 0) \in 0 .. STUCK_TRIAL
  BY Times
<1> QED
  BY <1>1, <1>2, Times DEF NewContact, Contacts

LEMMA CreatedIs ==
  ASSUME NEW s \in Slots, NEW t \in Created(s) PROVE t \in Slots
BY Times DEF Slots, Created

LEMMA NoDeviceIs == NoDevice \in Slots /\ ~NoDevice.handle
BY Times DEF Slots, NoDevice

LEMMA SlotParts ==
  ASSUME NEW s \in Slots
  PROVE  s.handle \in BOOLEAN /\ s.stuck \in BOOLEAN /\ s.retryIn \in 0 .. RETRY_INTERVAL
BY DEF Slots

\* What a step keeps that leaves the samples, the mouse and the device alone.
LEMMA Parts ==
  ASSUME IInv
  PROVE  /\ held \in {"none", "hover", "contact"} /\ todo \in Seq(Ink \cup Ends)
         /\ contact \in Contacts /\ contact.queue \in Seq(Sample) /\ over \in Seq(Sample)
         /\ contact.state \in {"out", "hover", "contact"}
         /\ slot \in Slots /\ slot.handle \in BOOLEAN
         /\ mouse \in Mice /\ SoundMouse(mouse)
BY ContactParts, SlotParts DEF IInv, TypeOK, MouseInv

LEMMA InitKeeps == ASSUME Init PROVE IInv
<1>1. slot \in Slots
  BY NoDeviceIs, CreatedIs DEF Init
<1>2. contact \in Contacts /\ contact.state = "out" /\ contact.queue = <<>>
  BY NewContactIs DEF Init
<1>3. SoundMouse(mouse) /\ ~mouse.planned
  BY NoMouseIs, Resting DEF Init
<1>4. TypeOK
  <2>1. mouse \in Mice
    BY <1>3 DEF SoundMouse
  <2>2. todo \in Seq(Ink \cup Ends) /\ over \in Seq(Sample) /\ runs \in 1 .. MaxRuns
    BY EmptyQueue, PenAssumption DEF Init
  <2>3. /\ held = "none" /\ dropped = FALSE /\ at = "idle" /\ hovering = FALSE
        /\ pen = "out" /\ owed = FALSE
    BY DEF Init
  <2> QED
    BY <1>1, <1>2, <2>1, <2>2, <2>3 DEF TypeOK
<1>5. DeviceInv
  BY <1>2 DEF Init, DeviceInv
<1>6. MouseInv
  BY <1>2, <1>3 DEF MouseInv
<1>7. StrokeInv
  BY <1>2, <1>3, EmptyQueue, NothingToDoIs DEF Init, StrokeInv
<1> QED
  BY <1>4, <1>5, <1>6, <1>7 DEF IInv

-----------------------------------------------------------------------------
(* The relay. *)

\* The samples a stroke ends with have its end in them.
LEMMA RelayedIs ==
  ASSUME held \in {"none", "hover", "contact"}, NEW phase \in Ink \cup Ends,
         NEW t \in Injected(phase)
  PROVE  /\ t \in Seq(Ink \cup Ends) /\ HeldWith(t) \in {"none", "hover", "contact"}
         /\ HeldWith(t) # "contact" =>
              ~Open(Samples(t)) /\ (held = "contact" => EndIn(Samples(t)))
<1> DEFINE All == Ink \cup Ends
<1>1. \A p \in All : p \in {"down", "move", "hover", "up", "cancel", "leave"}
  BY DEF Ink, Ends
<1>2. ASSUME NEW p \in All
      PROVE  /\ <<p>> \in Seq(All) /\ Last(<<p>>) = p /\ <<p>> # <<>>
             /\ EndIn(Samples(<<p>>)) <=> p \in Ends
             /\ Open(Samples(<<p>>)) <=> p \in Draws
  <2>1. <<p>> \in Seq(All) /\ <<p>> # <<>> /\ Head(<<p>>) = p /\ Tail(<<p>>) = <<>>
    OBVIOUS
  <2>2. Last(<<p>>) = p
    BY DEF Last
  <2> DEFINE s == <<p>>
             e == Tail(s)
  <2>3. s \in Seq(All) /\ s # <<>> /\ Head(s) = p /\ e = <<>>
    BY <2>1
  <2> HIDE DEF s, e
  <2>4. /\ EndIn(Samples(s)) <=> p \in Ends \/ EndIn(Samples(e))
        /\ Open(Samples(s)) <=> Open(Samples(e)) \/ (p \in Draws /\ ~EndIn(Samples(e)))
    BY <2>3, FirstToDo DEF e
  <2>5. ~EndIn(Samples(e)) /\ ~Open(Samples(e))
    BY <2>3, NothingToDoIs
  <2> QED
    BY <2>1, <2>2, <2>4, <2>5 DEF s
<1>3. ASSUME NEW p \in All, NEW q \in All
      PROVE  /\ <<p, q>> \in Seq(All) /\ Last(<<p, q>>) = q /\ <<p, q>> # <<>>
             /\ EndIn(Samples(<<p, q>>)) <=> p \in Ends \/ q \in Ends
             /\ Open(Samples(<<p, q>>)) <=> q \in Draws \/ (p \in Draws /\ q \notin Ends)
  <2>1. <<p, q>> \in Seq(All) /\ <<p, q>> # <<>> /\ Head(<<p, q>>) = p /\ Tail(<<p, q>>) = <<q>>
    OBVIOUS
  <2>2. Last(<<p, q>>) = q
    BY DEF Last
  <2> DEFINE s == <<p, q>>
             e == Tail(s)
  <2>3. s \in Seq(All) /\ s # <<>> /\ Head(s) = p /\ e = <<q>>
    BY <2>1
  <2> HIDE DEF s, e
  <2>4. /\ EndIn(Samples(s)) <=> p \in Ends \/ EndIn(Samples(e))
        /\ Open(Samples(s)) <=> Open(Samples(e)) \/ (p \in Draws /\ ~EndIn(Samples(e)))
    BY <2>3, FirstToDo DEF e
  <2>5. (EndIn(Samples(e)) <=> q \in Ends) /\ (Open(Samples(e)) <=> q \in Draws)
    BY <1>2, <2>3
  <2> QED
    BY <2>1, <2>2, <2>4, <2>5 DEF s
<1>4. "down" \in All /\ "move" \in All /\ "up" \in All /\ "cancel" \in All
  BY DEF Ink, Ends
<1>5. CASE held = "contact" /\ phase \in {"down", "hover", "leave"}
  <2>1. t = <<"cancel", phase>>
    BY <1>5 DEF Injected
  <2>2. HeldWith(t) = IF phase = "down" THEN "contact" ELSE IF phase = "hover" THEN "hover" ELSE "none"
    BY <1>3, <1>4, <1>5, <2>1 DEF HeldWith
  <2> QED
    BY <1>3, <1>4, <1>5, <2>1, <2>2 DEF Draws, Ends
<1>6. CASE held = "contact" /\ phase = "up"
  <2>1. t = <<"up">> \/ t = <<"move", "up">>
    BY <1>6 DEF Injected
  <2>2. HeldWith(t) = "none"
    BY <1>2, <1>3, <1>4, <2>1 DEF HeldWith
  <2>3. "up" \in Ends /\ "up" \notin Draws
    BY DEF Draws, Ends
  <2>4. CASE t = <<"up">>
    BY <1>2, <1>4, <2>2, <2>3, <2>4
  <2>5. CASE t = <<"move", "up">>
    BY <1>3, <1>4, <2>2, <2>3, <2>5
  <2> QED
    BY <2>1, <2>4, <2>5
<1>7. CASE held = "contact" /\ phase \in {"move", "cancel"}
  <2>1. t = <<phase>>
    BY <1>7 DEF Injected
  <2>2. HeldWith(t) = IF phase = "move" THEN "contact" ELSE "none"
    BY <1>2, <1>7, <2>1 DEF HeldWith
  <2> QED
    BY <1>2, <1>7, <2>1, <2>2 DEF Draws, Ends
<1>8. CASE held # "contact" /\ phase \in {"up", "cancel"}
  <2>1. t = <<>>
    BY <1>8 DEF Injected
  <2>2. HeldWith(t) = held /\ t \in Seq(All)
    BY <2>1 DEF HeldWith
  <2> QED
    BY <1>8, <2>1, <2>2, NothingToDoIs
<1>9. CASE held # "contact" /\ phase \in {"down", "move"}
  <2>1. t = <<"down">>
    BY <1>9 DEF Injected
  <2>2. HeldWith(t) = "contact"
    BY <1>2, <1>4, <2>1 DEF HeldWith
  <2> QED
    BY <1>2, <1>4, <2>1, <2>2
<1>10. CASE held # "contact" /\ phase \in {"hover", "leave"}
  <2>1. t = <<phase>>
    BY <1>10 DEF Injected
  <2>2. HeldWith(t) = IF phase = "hover" THEN "hover" ELSE "none"
    BY <1>2, <1>10, <2>1 DEF HeldWith
  <2> QED
    BY <1>2, <1>10, <2>1, <2>2 DEF Draws
<1> QED
  BY <1>1, <1>5, <1>6, <1>7, <1>8, <1>9, <1>10

LEMMA RelayKeeps ==
  ASSUME IInv, NEW phase \in Ink \cup Ends, NEW late \in BOOLEAN, Relay(phase, late) PROVE IInv'
<1>1. /\ at = "idle" /\ over = <<>> /\ todo = <<>>
      /\ UNCHANGED <<at, slot, contact, over, mouse, hovering, pen, owed, runs>>
  BY DEF Relay, AtRest
<1>2. dropped' \in BOOLEAN
  BY DEF Relay, DroppedAfter, IInv, TypeOK
<1>3. DeviceInv' /\ MouseInv'
  BY <1>1 DEF IInv, DeviceInv, MouseInv
<1>4. CASE UNCHANGED <<todo, held>>
  BY <1>1, <1>2, <1>3, <1>4 DEF IInv, TypeOK, StrokeInv
<1>5. CASE todo' \in Injected(phase) /\ held' = HeldWith(todo')
  <2>1. /\ todo' \in Seq(Ink \cup Ends) /\ held' \in {"none", "hover", "contact"}
        /\ held' # "contact" =>
             ~Open(Samples(todo')) /\ (held = "contact" => EndIn(Samples(todo')))
    BY <1>5, Parts, RelayedIs
  <2>2. TypeOK'
    BY <1>1, <1>2, <2>1 DEF IInv, TypeOK
  <2>3. StrokeInv'
    BY <1>1, <2>1, Parts, NothingToDoIs, EmptyQueue DEF IInv, StrokeInv
  <2> QED
    BY <1>3, <2>2, <2>3 DEF IInv
<1> QED
  BY <1>4, <1>5 DEF Relay

-----------------------------------------------------------------------------
(* Samples for the device or the mouse. *)

\* The mouse gets the next sample, of those handed over or still to do.
LEMMA MouseGets ==
  ASSUME NEW m, SoundMouse(m), NEW phase \in Ink \cup Ends, NEW x \in Sample, x.phase = phase,
         NEW n \in Pumped(MouseFor(m, x))
  PROVE  SoundMouse(n) /\ (n.planned => phase \in Draws)
<1> DEFINE f == MouseFor(m, x)
<1>1. SoundMouse(f) /\ f.planned = (phase \in Draws)
  BY MouseForIs
<1>2. n \in Pumped(f)
  OBVIOUS
<1> HIDE DEF f
<1> QED
  BY <1>1, <1>2, PumpedIs

LEMMA HandOverKeeps == ASSUME IInv, HandOver PROVE IInv'
<1> DEFINE x == Head(over)
<1>1. /\ over # <<>> /\ at = "idle" /\ over' = Tail(over) /\ mouse' \in Pumped(MouseFor(mouse, x))
      /\ UNCHANGED <<held, dropped, todo, at, slot, contact, hovering, pen, owed, runs>>
  BY DEF HandOver
<1>2. /\ x \in Sample /\ x.phase \in Ink \cup Ends /\ over' \in Seq(Sample)
      /\ EndIn(over) <=> x.phase \in Ends \/ EndIn(over')
      /\ Open(over) <=> Open(over') \/ (x.phase \in Draws /\ ~EndIn(over'))
  BY <1>1, Parts, FirstSample
<1> HIDE DEF x
<1>3. SoundMouse(mouse') /\ (mouse'.planned => x.phase \in Draws)
  BY <1>1, <1>2, Parts, MouseGets
<1>4. contact.queue = <<>> /\ contact.state = "out" /\ pen = "out"
  BY <1>1 DEF IInv, DeviceInv
<1>5. TypeOK'
  BY <1>1, <1>2, <1>3 DEF IInv, TypeOK, SoundMouse
<1>6. DeviceInv'
  BY <1>1, <1>4 DEF IInv, DeviceInv
<1>7. MouseInv'
  BY <1>1, <1>3, <1>4 DEF MouseInv
<1>8. StrokeInv'
  BY <1>1, <1>2, <1>3, <1>4, EmptyQueue DEF IInv, StrokeInv
<1> QED
  BY <1>5, <1>6, <1>7, <1>8 DEF IInv

\* A sample that joins a queue that goes one way or the other.
LEMMA Joined ==
  ASSUME IInv, todo # <<>>, NEW q,
         EndIn(q) <=> EndIn(contact.queue) \/ Head(todo) \in Ends,
         Open(q) => Head(todo) \in Draws \/ (Open(contact.queue) /\ Head(todo) \notin Ends),
         over = <<>>, held # "contact"
  PROVE  /\ ~Open(Samples(Tail(todo)))
         /\ Open(q) => EndIn(Samples(Tail(todo)))
         /\ pen = "contact" => EndIn(q) \/ EndIn(Samples(Tail(todo)))
         /\ Head(todo) \in Draws => EndIn(Samples(Tail(todo)))
<1>1. /\ Head(todo) \in Ink \cup Ends
      /\ EndIn(Samples(todo)) <=> Head(todo) \in Ends \/ EndIn(Samples(Tail(todo)))
      /\ Open(Samples(todo)) <=>
           Open(Samples(Tail(todo))) \/ (Head(todo) \in Draws /\ ~EndIn(Samples(Tail(todo))))
  BY Parts, FirstToDo
<1>2. ~EndIn(over)
  BY EmptyQueue
<1> QED
  BY <1>1, <1>2 DEF IInv, StrokeInv

LEMMA ToContactIs ==
  ASSUME NEW c \in Contacts, NEW phase \in Ink \cup Ends, NEW b \in BOOLEAN
  PROVE  LET e == Enqueue(ExpireInk(c), phase)
             f == IF b THEN BeginFlush(e) ELSE e
         IN  /\ f \in Contacts /\ f.state = c.state
             /\ EndIn(f.queue) <=> EndIn(c.queue) \/ phase \in Ends
             /\ Open(f.queue) => phase \in Draws \/ (Open(c.queue) /\ phase \notin Ends)
<1> DEFINE x == ExpireInk(c)
           e == Enqueue(x, phase)
           f == BeginFlush(e)
<1>1. /\ x \in Contacts /\ x.state = c.state /\ (EndIn(x.queue) <=> EndIn(c.queue))
      /\ Open(x.queue) => Open(c.queue)
  BY ExpireInkIs
<1> HIDE DEF x
<1>2. /\ e \in Contacts /\ e.state = x.state /\ (EndIn(e.queue) <=> EndIn(x.queue) \/ phase \in Ends)
      /\ Open(e.queue) => phase \in Draws \/ (Open(x.queue) /\ phase \notin Ends)
  BY <1>1, EnqueueIs
<1> HIDE DEF e
<1>3. f \in Contacts /\ f.state = e.state /\ (EndIn(f.queue) <=> EndIn(e.queue))
      /\ (Open(f.queue) => Open(e.queue))
  BY <1>2, BeginFlushIs
<1> HIDE DEF f
<1> QED
  BY <1>1, <1>2, <1>3 DEF x, e, f

LEMMA DeliverKeeps == ASSUME IInv, Deliver PROVE IInv'
<1> DEFINE phase == Head(todo)
<1>1. /\ at = "idle" /\ over = <<>> /\ todo # <<>> /\ todo' = Tail(todo)
      /\ hovering' \in BOOLEAN
      /\ UNCHANGED <<held, dropped, owed, runs>>
  BY DEF Deliver
<1>2. phase \in Ink \cup Ends /\ todo' \in Seq(Ink \cup Ends)
  BY <1>1, Parts, FirstToDo
<1>3. Fresh(phase) \in Sample /\ Fresh(phase).phase = phase
  BY <1>2, FreshIs
<1>4. PICK m \in Pumped(mouse) :
        IF MouseBusy(m) THEN ToMouse(m, phase) /\ UNCHANGED slot
        ELSE \/ ~Revives(phase) /\ ~slot.handle /\ ToMouse(m, phase) /\ UNCHANGED slot
             \/ ~Revives(phase) /\ slot.handle /\ mouse' = m /\ ToContact(contact, phase)
             \/ /\ Revives(phase)
                /\ slot' \in Created(slot)
                /\ LET new == NewContact(slot.stuck)
                   IN  IF slot'.handle
                       THEN /\ mouse' = m
                            /\ contact' = BeginFlush(Enqueue(new, phase))
                            /\ at' = "flush"
                            /\ UNCHANGED <<over, pen>>
                       ELSE /\ mouse' \in Pumped(MouseFor(m, Fresh(phase)))
                            /\ contact' = new
                            /\ UNCHANGED <<at, over, pen>>
  BY DEF Deliver
<1>5. /\ SoundMouse(m) /\ (m.planned => mouse.planned)
      /\ ~MouseBusy(mouse) => ~MouseBusy(m)
  BY <1>4, Parts, PumpedIs
<1> HIDE DEF phase
<1>6. ASSUME contact.queue = <<>>, contact.state = "out",
             mouse' \in Pumped(MouseFor(m, Fresh(phase))), slot' \in Slots,
             slot' = slot \/ ~slot.handle,
             contact' \in Contacts, contact'.queue = <<>>, contact'.state = "out",
             UNCHANGED <<at, over, pen>>
      PROVE  IInv'
  <2>1. SoundMouse(mouse') /\ (mouse'.planned => phase \in Draws)
    BY <1>2, <1>3, <1>5, <1>6, MouseGets
  <2>2. TypeOK'
    BY <1>1, <1>2, <1>6, <2>1 DEF IInv, TypeOK, SoundMouse
  <2>3. DeviceInv'
    BY <1>1, <1>6 DEF IInv, DeviceInv
  <2>4. MouseInv'
    BY <1>6, <2>1 DEF MouseInv
  <2>5. StrokeInv'
    <3> SUFFICES ASSUME held # "contact" PROVE StrokeInv'
      BY <1>1 DEF StrokeInv
    <3> DEFINE q == IF phase \in Ends THEN <<Fresh(phase)>> ELSE <<>>
    <3>1. ~Open(Samples(todo')) /\ (phase \in Draws => EndIn(Samples(todo')))
      <4>1. /\ EndIn(Samples(todo)) <=> phase \in Ends \/ EndIn(Samples(todo'))
            /\ Open(Samples(todo)) <=>
                 Open(Samples(todo')) \/ (phase \in Draws /\ ~EndIn(Samples(todo')))
        BY <1>1, Parts, FirstToDo DEF phase
      <4> QED
        BY <4>1 DEF IInv, StrokeInv
    <3>2. over' = <<>> /\ contact'.queue = <<>> /\ pen' = "out"
      BY <1>1, <1>6 DEF IInv, DeviceInv
    <3> QED
      BY <2>1, <3>1, <3>2, EmptyQueue DEF StrokeInv
  <2> QED
    BY <2>2, <2>3, <2>4, <2>5 DEF IInv
<1>7. ASSUME ~MouseBusy(m), mouse' = m, slot' \in Slots,
             contact' \in Contacts, UNCHANGED <<over, pen>>, at' \in {"idle", "flush"},
             contact'.state = contact.state, slot'.handle,
             EndIn(contact'.queue) <=> EndIn(contact.queue) \/ phase \in Ends,
             Open(contact'.queue) => phase \in Draws \/ (Open(contact.queue) /\ phase \notin Ends)
      PROVE  IInv'
  <2>1. TypeOK'
    BY <1>1, <1>2, <1>5, <1>7 DEF IInv, TypeOK, SoundMouse
  <2>2. DeviceInv'
    BY <1>1, <1>7 DEF IInv, DeviceInv
  <2>3. MouseInv' /\ ~mouse'.planned
    BY <1>5, <1>7, Resting DEF MouseInv
  <2>4. StrokeInv'
    <3> SUFFICES ASSUME held # "contact" PROVE StrokeInv'
      BY <1>1 DEF StrokeInv
    <3>1. /\ ~Open(Samples(todo')) /\ (Open(contact'.queue) => EndIn(Samples(todo')))
          /\ pen = "contact" => EndIn(contact'.queue) \/ EndIn(Samples(todo'))
      BY <1>1, <1>7, Joined DEF phase
    <3> QED
      BY <1>1, <1>7, <2>3, <3>1, EmptyQueue DEF StrokeInv
  <2> QED
    BY <2>1, <2>2, <2>3, <2>4 DEF IInv
<1>8. CASE ToMouse(m, phase) /\ UNCHANGED slot /\ (MouseBusy(m) \/ ~slot.handle)
  <2>1. contact.queue = <<>> /\ contact.state = "out"
    BY <1>1, <1>5, <1>8 DEF IInv, MouseInv, DeviceInv
  <2> QED
    BY <1>6, <1>8, <2>1, Parts DEF ToMouse
<1>9. CASE ~MouseBusy(m) /\ slot.handle /\ mouse' = m /\ ToContact(contact, phase)
  <2> DEFINE fresh == ExpireInk(contact)
  <2>1. CASE QueueStuck(fresh, phase)
    <3> DEFINE all == Append(fresh.queue, Fresh(phase))
    <3>1. /\ slot' \in Created(slot) /\ pen' = "out" /\ over' = all /\ UNCHANGED at
          /\ contact' = [fresh EXCEPT !.queue = <<>>, !.resumed = FALSE, !.state = "out"]
      BY <1>9, <2>1 DEF ToContact
    <3>2. /\ fresh \in Contacts /\ fresh.queue \in Seq(Sample)
          /\ EndIn(fresh.queue) <=> EndIn(contact.queue)
          /\ Open(fresh.queue) => Open(contact.queue)
      BY Parts, ExpireInkIs, ContactParts
    <3> HIDE DEF fresh
    <3>3. /\ all \in Seq(Sample)
          /\ EndIn(all) <=> EndIn(contact.queue) \/ phase \in Ends
          /\ Open(all) => phase \in Draws \/ (Open(contact.queue) /\ phase \notin Ends)
      BY <1>3, <3>2, OneMore
    <3> HIDE DEF all
    <3>4. contact' \in Contacts /\ contact'.queue = <<>> /\ contact'.state = "out"
      BY <3>1, <3>2, EmptyQueue DEF Contacts
    <3>5. slot' \in Slots
      BY <3>1, Parts, CreatedIs
    <3>6. TypeOK'
      BY <1>1, <1>2, <1>5, <1>9, <3>1, <3>3, <3>4, <3>5 DEF IInv, TypeOK, SoundMouse
    <3>7. DeviceInv'
      BY <1>1, <3>1, <3>4 DEF IInv, DeviceInv
    <3>8. MouseInv' /\ ~mouse'.planned
      BY <1>5, <1>9, <3>4, Resting DEF MouseInv
    <3>9. StrokeInv'
      <4> SUFFICES ASSUME held # "contact" PROVE StrokeInv'
        BY <1>1 DEF StrokeInv
      <4>1. ~Open(Samples(todo')) /\ (Open(all) => EndIn(Samples(todo')))
        BY <1>1, <3>3, Joined DEF phase
      <4> QED
        BY <3>1, <3>4, <3>8, <4>1, EmptyQueue DEF StrokeInv
    <3> QED
      BY <3>6, <3>7, <3>8, <3>9 DEF IInv
  <2>2. CASE ~QueueStuck(fresh, phase)
    <3>1. /\ UNCHANGED <<slot, over, pen>>
          /\ \/ contact' = Enqueue(fresh, phase) /\ UNCHANGED at
             \/ contact' = BeginFlush(Enqueue(fresh, phase)) /\ at' = "flush"
      BY <1>9, <2>2 DEF ToContact
    <3>2. /\ contact' \in Contacts /\ contact'.state = contact.state
          /\ EndIn(contact'.queue) <=> EndIn(contact.queue) \/ phase \in Ends
          /\ Open(contact'.queue) => phase \in Draws \/ (Open(contact.queue) /\ phase \notin Ends)
      <4>1. CASE contact' = Enqueue(fresh, phase)
        BY <1>2, <4>1, Parts, ToContactIs
      <4>2. CASE contact' = BeginFlush(Enqueue(fresh, phase))
        BY <1>2, <4>2, Parts, ToContactIs
      <4> QED
        BY <3>1, <4>1, <4>2
    <3>3. at' \in {"idle", "flush"} /\ slot' \in Slots /\ slot'.handle
      BY <1>1, <1>9, <3>1, Parts
    <3> QED
      BY <1>7, <1>9, <3>1, <3>2, <3>3
  <2> QED
    BY <2>1, <2>2
<1>10. CASE Revives(phase) /\ ~MouseBusy(m) /\ slot' \in Created(slot)
  <2> DEFINE new == NewContact(slot.stuck)
  <2>1. /\ ~slot.handle /\ contact.queue = <<>> /\ contact.state = "out"
        /\ slot' \in Slots /\ slot.stuck \in BOOLEAN
    BY <1>1, <1>10, Parts, CreatedIs, SlotParts DEF Revives, IInv, DeviceInv
  <2>2. new \in Contacts /\ new.state = "out" /\ new.queue = <<>>
    BY <2>1, NewContactIs
  <2>3. CASE slot'.handle
    <3> DEFINE e == Enqueue(new, phase)
    <3>1. mouse' = m /\ contact' = BeginFlush(e) /\ at' = "flush" /\ UNCHANGED <<over, pen>>
      BY <1>4, <1>10, <2>1, <2>3
    <3> HIDE DEF new
    <3>2. /\ e \in Contacts /\ e.state = "out" /\ (EndIn(e.queue) <=> EndIn(new.queue) \/ phase \in Ends)
          /\ Open(e.queue) => phase \in Draws \/ (Open(new.queue) /\ phase \notin Ends)
      BY <1>2, <2>2, EnqueueIs
    <3> HIDE DEF e
    <3>3. /\ contact' \in Contacts /\ contact'.state = "out"
          /\ EndIn(contact'.queue) <=> EndIn(e.queue)
          /\ Open(contact'.queue) => Open(e.queue)
      BY <3>1, <3>2, BeginFlushIs
    <3> QED
      BY <1>7, <1>10, <2>1, <2>2, <2>3, <3>1, <3>2, <3>3
  <2>4. CASE ~slot'.handle
    <3>1. mouse' \in Pumped(MouseFor(m, Fresh(phase))) /\ contact' = new /\ UNCHANGED <<at, over, pen>>
      BY <1>4, <1>10, <2>1, <2>4
    <3> QED
      BY <1>6, <2>1, <2>2, <3>1
  <2> QED
    BY <2>3, <2>4
<1> QED
  BY <1>4, <1>8, <1>9, <1>10

-----------------------------------------------------------------------------
(* A pass of flush. *)

\* Within a pass nothing is abandoned yet, and the mouse rests.
LEMMA Passing ==
  ASSUME IInv, Flushing
  PROVE  /\ at = "flush" /\ over = <<>> /\ contact.queue # <<>>
         /\ ~MouseBusy(mouse) /\ ~mouse.planned
         /\ Head(contact.queue).phase \in Ink \cup Ends
<1>1. at = "flush" /\ contact.queue # <<>>
  BY DEF Flushing
<1> QED
  BY <1>1, Parts, FirstSample, Resting DEF IInv, DeviceInv, MouseInv

\* A pass that changes the queue, what Windows holds and the device.
LEMMA QueueMoves ==
  ASSUME IInv, Flushing, UNCHANGED <<held, dropped, todo, mouse, hovering, owed, runs>>,
         contact' \in Contacts, slot' \in Slots, at' \in {"idle", "flush"},
         over' = over, pen' = contact'.state,
         Open(contact'.queue) => Open(contact.queue),
         contact'.state = "contact" => EndIn(contact'.queue) \/ Open(contact.queue),
         ~slot'.handle => contact'.state = "out" /\ at' = "flush"
  PROVE  IInv'
<1>1. /\ over' = <<>> /\ at = "flush" /\ contact.queue # <<>>
      /\ ~MouseBusy(mouse) /\ ~mouse.planned
  BY Passing
<1>2. TypeOK'
  <2>1. pen' \in {"out", "hover", "contact"} /\ over' \in Seq(Sample)
    BY <1>1, ContactParts, EmptyQueue
  <2> QED
    BY <2>1 DEF IInv, TypeOK
<1>3. DeviceInv'
  BY <1>1 DEF DeviceInv
<1>4. MouseInv'
  BY <1>1 DEF IInv, MouseInv
<1>5. StrokeInv'
  BY <1>1, EmptyQueue DEF IInv, StrokeInv, DeviceInv
<1> QED
  BY <1>2, <1>3, <1>4, <1>5 DEF IInv

\* A pass that gives the samples up to the mouse.
LEMMA QueueLeaves ==
  ASSUME IInv, Flushing, UNCHANGED <<held, dropped, todo, mouse, hovering, owed, runs>>,
         NEW c \in Contacts, c.queue = contact.queue, c.state = "out", Abandon(c),
         slot' \in Slots, pen' = "out"
  PROVE  IInv'
<1>1. /\ over = <<>> /\ at = "flush" /\ contact.queue # <<>>
      /\ ~MouseBusy(mouse) /\ ~mouse.planned
  BY Passing
<1>2. over' = contact.queue /\ contact' = [c EXCEPT !.queue = <<>>, !.resumed = FALSE] /\ at' = "idle"
  BY DEF Abandon
<1>3. contact' \in Contacts /\ contact'.queue = <<>> /\ contact'.state = "out"
  BY <1>2, EmptyQueue DEF Contacts
<1>4. TypeOK'
  <2>1. over' \in Seq(Sample) /\ at' \in {"idle", "flush", "gone"}
    BY <1>2, Parts
  <2> QED
    BY <1>3, <2>1 DEF IInv, TypeOK
<1>5. DeviceInv'
  BY <1>2, <1>3 DEF DeviceInv
<1>6. MouseInv'
  BY <1>3 DEF IInv, MouseInv
<1>7. StrokeInv'
  BY <1>1, <1>2, <1>3, EmptyQueue DEF IInv, StrokeInv
<1> QED
  BY <1>4, <1>5, <1>6, <1>7 DEF IInv

LEMMA FlushEndsKeeps == ASSUME IInv, FlushEnds PROVE IInv'
<1>1. /\ at = "flush" /\ contact.queue = <<>> /\ at' = "idle"
      /\ UNCHANGED <<held, dropped, todo, slot, contact, over, mouse, hovering, pen, owed, runs>>
  BY DEF FlushEnds
<1>2. TypeOK'
  BY <1>1 DEF IInv, TypeOK
<1>3. DeviceInv'
  BY <1>1 DEF IInv, DeviceInv
<1>4. MouseInv' /\ StrokeInv'
  BY <1>1 DEF IInv, MouseInv, StrokeInv
<1> QED
  BY <1>2, <1>3, <1>4 DEF IInv

\* Only an end has nothing to do, and only where there is no contact.
LEMMA NoFrame ==
  ASSUME NEW phase \in Ink \cup Ends, NEW state \in {"out", "hover", "contact"},
         NEW same \in BOOLEAN, NEW on \in BOOLEAN, Frame(phase, state, same, on) = "none"
  PROVE  state # "contact"
BY DEF Frame, Ink, Ends

LEMMA NothingToDoKeeps == ASSUME IInv, NothingToDo PROVE IInv'
<1> DEFINE q == Tail(contact.queue)
<1>1. /\ Flushing /\ NextFrame("none") /\ contact' = [contact EXCEPT !.queue = q, !.resumed = FALSE]
      /\ UNCHANGED <<held, dropped, todo, at, slot, over, mouse, hovering, pen, owed, runs>>
  BY DEF NothingToDo
<1>2. q \in Seq(Sample) /\ (Open(q) => Open(contact.queue))
  BY <1>1, Passing, Parts, FirstSample
<1>3. contact.state # "contact"
  BY <1>1, Passing, Parts, NoFrame DEF NextFrame
<1> HIDE DEF q
<1>4. contact' \in Contacts /\ contact'.queue = q /\ contact'.state = contact.state
  BY <1>1, <1>2, Parts DEF Contacts
<1>5. at = "flush" /\ slot \in Slots /\ pen = contact.state /\ (~slot.handle => contact.state = "out")
  BY <1>1, Parts, Passing DEF IInv, DeviceInv
<1> QED
  BY <1>1, <1>2, <1>3, <1>4, <1>5, QueueMoves

LEMMA NoHandleKeeps == ASSUME IInv, NoHandle PROVE IInv'
<1>1. /\ Flushing /\ ~slot.handle /\ Abandon(contact)
      /\ UNCHANGED <<held, dropped, todo, slot, mouse, hovering, pen, owed, runs>>
  BY DEF NoHandle
<1>2. contact.state = "out" /\ pen' = "out"
  BY <1>1 DEF IInv, DeviceInv
<1> QED
  BY <1>1, <1>2, Parts, QueueLeaves

LEMMA HoldBackKeeps == ASSUME IInv, HoldBack PROVE IInv'
<1>1. /\ Flushing /\ slot.handle /\ contact' = [contact EXCEPT !.spaced = TRUE] /\ at' = "idle"
      /\ UNCHANGED <<held, dropped, todo, slot, over, mouse, hovering, pen, owed, runs>>
  BY DEF HoldBack
<1>2. /\ contact' \in Contacts /\ contact'.queue = contact.queue
      /\ contact'.state = contact.state
  BY <1>1, Parts DEF Contacts
<1>3. over = <<>> /\ contact.queue # <<>> /\ pen = contact.state
  BY <1>1, Passing DEF IInv, DeviceInv
<1>4. TypeOK'
  BY <1>1, <1>2 DEF IInv, TypeOK
<1>5. DeviceInv' /\ MouseInv' /\ StrokeInv'
  BY <1>1, <1>2, <1>3 DEF IInv, DeviceInv, MouseInv, StrokeInv
<1> QED
  BY <1>4, <1>5 DEF IInv

\* A frame that leads to a contact leaves its end behind it, in the queue or,
\* where the queue draws on, wherever the end of that is.
LEMMA ProgressIs ==
  ASSUME NEW c \in Contacts, c.queue # <<>>, NEW same \in BOOLEAN, NEW on \in BOOLEAN,
         NEW frame, frame = Frame(Head(c.queue).phase, c.state, same, on), frame # "none"
  PROVE  LET p == Progress(c, frame)
         IN  /\ p \in Contacts /\ p.state = Reached(frame)
             /\ Open(p.queue) => Open(c.queue)
             /\ p.state = "contact" => EndIn(p.queue) \/ Open(c.queue)
<1> DEFINE p == Progress(c, frame)
           phase == Head(c.queue).phase
           rest == Tail(c.queue)
           done == Completes(phase, frame)
           q == IF done THEN rest ELSE c.queue
           there == ~done /\ frame = "move"
           resumed == IF done THEN FALSE ELSE c.resumed
           state == Reached(frame)
<1>1. /\ c.queue \in Seq(Sample) /\ c.resumed \in BOOLEAN /\ c.state \in {"out", "hover", "contact"}
  BY ContactParts
<1>2. /\ phase \in Ink \cup Ends /\ rest \in Seq(Sample)
      /\ EndIn(c.queue) <=> phase \in Ends \/ EndIn(rest)
      /\ Open(c.queue) <=> Open(rest) \/ (phase \in Draws /\ ~EndIn(rest))
  BY <1>1, FirstSample
<1>3. p = [c EXCEPT !.state = state, !.there = there, !.queue = q, !.resumed = resumed]
  BY DEF Progress
<1>4. frame = Frame(phase, c.state, same, on)
  OBVIOUS
<1> HIDE DEF phase, rest, p
<1>5. done \in BOOLEAN /\ state \in {"out", "hover", "contact"}
  BY DEF Completes, Reached
<1>6. state = "contact" => (done /\ phase \in Draws) \/ (~done /\ phase \in Ends)
  BY <1>1, <1>2, <1>4 DEF Frame, Completes, Reached, Draws, Ink, Ends
<1> HIDE DEF done, state
<1>7. q \in Seq(Sample) /\ there \in BOOLEAN /\ resumed \in BOOLEAN
  BY <1>1, <1>2, <1>5
<1>8. Open(q) => Open(c.queue)
  BY <1>2
<1>9. state = "contact" => EndIn(q) \/ Open(c.queue)
  BY <1>2, <1>5, <1>6
<1> HIDE DEF q, there, resumed
<1>10. p \in Contacts /\ p.state = state /\ p.queue = q
  BY <1>3, <1>5, <1>7 DEF Contacts
<1> QED
  BY <1>8, <1>9, <1>10 DEF p, state

LEMMA AcceptKeeps == ASSUME IInv, Accept PROVE IInv'
<1>1. /\ Flushing /\ slot.handle /\ slot' = [slot EXCEPT !.stuck = FALSE]
      /\ UNCHANGED <<held, dropped, todo, at, over, mouse, hovering, owed, runs>>
  BY DEF Accept
<1>2. PICK frame \in Ink \cup Ends :
        /\ NextFrame(frame)
        /\ contact' = [Progress(contact, frame) EXCEPT !.refused = FALSE, !.since = 0,
                                                       !.trial = FALSE, !.left = 0]
        /\ pen' = Reached(frame)
  BY DEF Accept
<1>3. frame # "none"
  BY DEF Ink, Ends
<1> DEFINE p == Progress(contact, frame)
<1>4. /\ p \in Contacts /\ p.state = Reached(frame)
      /\ Open(p.queue) => Open(contact.queue)
      /\ p.state = "contact" => EndIn(p.queue) \/ Open(contact.queue)
  BY <1>1, <1>2, <1>3, Parts, Passing, ProgressIs DEF NextFrame
<1>5. contact' = [p EXCEPT !.refused = FALSE, !.since = 0, !.trial = FALSE, !.left = 0]
  BY <1>2
<1> HIDE DEF p
<1>6. contact' \in Contacts /\ contact'.state = p.state /\ contact'.queue = p.queue
  BY <1>4, <1>5, Times DEF Contacts
<1>7. slot' \in Slots /\ slot'.handle
  BY <1>1, Parts DEF Slots
<1>8. at' = "flush"
  BY <1>1, Passing
<1> QED
  BY <1>1, <1>2, <1>4, <1>6, <1>7, <1>8, QueueMoves

LEMMA EndByRecreatingKeeps == ASSUME IInv, EndByRecreating PROVE IInv'
<1>1. /\ Flushing /\ slot.handle
      /\ UNCHANGED <<held, dropped, todo, at, over, mouse, hovering, owed, runs>>
  BY DEF EndByRecreating
<1>2. PICK frame \in {"cancel", "leave"} : NextFrame(frame) /\ Recreate(Progress(contact, frame))
  BY DEF EndByRecreating
<1>3. frame # "none" /\ Reached(frame) = "out"
  BY DEF Reached
<1> DEFINE p == Progress(contact, frame)
<1>4. /\ p \in Contacts /\ p.state = Reached(frame)
      /\ Open(p.queue) => Open(contact.queue)
  BY <1>1, <1>2, <1>3, Parts, Passing, ProgressIs DEF NextFrame
<1>5. slot' \in Created(slot) /\ pen' = "out" /\ contact' = p
  BY <1>2 DEF Recreate
<1> HIDE DEF p
<1>6. slot' \in Slots
  BY <1>5, Parts, CreatedIs
<1>7. at' = "flush"
  BY <1>1, Passing
<1> QED
  BY <1>1, <1>3, <1>4, <1>5, <1>6, <1>7, QueueMoves

LEMMA RejectKeeps == ASSUME IInv, Reject PROVE IInv'
<1> DEFINE out == [contact EXCEPT !.state = "out", !.there = FALSE]
<1>1. /\ Flushing /\ slot.handle /\ pen' = "out"
      /\ UNCHANGED <<held, dropped, todo, slot, mouse, hovering, owed, runs>>
  BY DEF Reject
<1>2. \/ Abandon(out)
      \/ contact' = [out EXCEPT !.resumed = TRUE] /\ UNCHANGED <<over, at>>
  BY DEF Reject
<1>3. out \in Contacts /\ out.state = "out" /\ out.queue = contact.queue
  BY Parts DEF Contacts
<1> HIDE DEF out
<1>4. CASE Abandon(out)
  BY <1>1, <1>3, <1>4, Parts, QueueLeaves
<1>5. CASE contact' = [out EXCEPT !.resumed = TRUE] /\ UNCHANGED <<over, at>>
  <2>1. contact' \in Contacts /\ contact'.state = "out" /\ contact'.queue = contact.queue
    BY <1>3, <1>5 DEF Contacts
  <2>2. at' = "flush"
    BY <1>1, <1>5, Passing
  <2> QED
    BY <1>1, <1>5, <2>1, <2>2, Parts, QueueMoves
<1> QED
  BY <1>2, <1>4, <1>5

LEMMA NotReadyKeeps == ASSUME IInv, NotReady PROVE IInv'
<1> DEFINE since == IF contact.refused THEN contact.since ELSE 0
           c == [contact EXCEPT !.refused = TRUE, !.since = since]
           out == [c EXCEPT !.state = "out", !.there = FALSE]
           gone == [handle |-> FALSE, retryIn |-> RETRY_INTERVAL, stuck |-> TRUE]
           tried == [out EXCEPT !.trial = TRUE, !.left = STUCK_TRIAL]
<1>1. /\ Flushing /\ slot.handle
      /\ UNCHANGED <<held, dropped, todo, mouse, hovering, owed, runs>>
  BY DEF NotReady
<1>2. \/ slot' = gone /\ pen' = "out" /\ Abandon(out)
      \/ Recreate(tried) /\ UNCHANGED <<at, over>>
      \/ contact' = c /\ at' = "idle" /\ UNCHANGED <<slot, over, pen>>
  BY DEF NotReady
<1>3. since \in 0 .. Stuck
  BY Parts, ContactParts, Times
<1>4. gone \in Slots
  BY Times DEF Slots
<1> HIDE DEF since, gone
<1>5. c \in Contacts /\ c.state = contact.state /\ c.queue = contact.queue
  BY <1>3, Parts DEF Contacts
<1> HIDE DEF c
<1>6. out \in Contacts /\ out.state = "out" /\ out.queue = contact.queue
  BY <1>5 DEF Contacts
<1> HIDE DEF out
<1>7. tried \in Contacts /\ tried.state = "out" /\ tried.queue = contact.queue
  BY <1>6, Times DEF Contacts
<1> HIDE DEF tried
<1>8. CASE slot' = gone /\ pen' = "out" /\ Abandon(out)
  BY <1>1, <1>4, <1>6, <1>8, QueueLeaves
<1>9. CASE Recreate(tried) /\ UNCHANGED <<at, over>>
  <2>1. slot' \in Created(slot) /\ pen' = "out" /\ contact' = tried
    BY <1>9 DEF Recreate
  <2>2. slot' \in Slots /\ at' = "flush"
    BY <1>1, <1>9, <2>1, Parts, CreatedIs, Passing
  <2> QED
    BY <1>1, <1>7, <1>9, <2>1, <2>2, QueueMoves
<1>10. CASE contact' = c /\ at' = "idle" /\ UNCHANGED <<slot, over, pen>>
  <2>1. over = <<>> /\ contact.queue # <<>> /\ pen = contact.state
    BY <1>1, Passing DEF IInv, DeviceInv
  <2>2. TypeOK'
    BY <1>1, <1>5, <1>10 DEF IInv, TypeOK
  <2>3. DeviceInv' /\ MouseInv' /\ StrokeInv'
    BY <1>1, <1>5, <1>10, <2>1 DEF IInv, DeviceInv, MouseInv, StrokeInv
  <2> QED
    BY <2>2, <2>3 DEF IInv
<1> QED
  BY <1>2, <1>8, <1>9, <1>10

-----------------------------------------------------------------------------
(* The tick, time, and the ends of sessions and runs. *)

LEMMA TickKeeps == ASSUME IInv, Tick PROVE IInv'
<1>1. /\ at = "idle" /\ over = <<>> /\ todo = <<>> /\ mouse' \in Pumped(mouse)
      /\ UNCHANGED <<held, dropped, slot, over, hovering, pen, owed, runs>>
  BY DEF Tick, AtRest
<1>2. /\ SoundMouse(mouse') /\ (mouse'.planned => mouse.planned)
      /\ ~MouseBusy(mouse) => ~MouseBusy(mouse')
  BY <1>1, Parts, PumpedIs
<1>3. /\ contact' \in Contacts /\ contact'.state = contact.state /\ at' \in {"idle", "flush"}
      /\ contact'.queue # <<>> => contact.queue # <<>>
      /\ EndIn(contact'.queue) <=> EndIn(contact.queue)
      /\ Open(contact'.queue) => Open(contact.queue)
      /\ ~slot.handle => contact'.queue = contact.queue
  <2>1. CASE slot.handle /\ contact.queue # <<>>
    <3>1. contact' = BeginFlush(contact) /\ at' = "flush"
      BY <2>1 DEF Tick
    <3> QED
      BY <2>1, <3>1, Parts, BeginFlushIs
  <2>2. CASE ~(slot.handle /\ contact.queue # <<>>)
    <3>1. UNCHANGED <<contact, at>>
      BY <2>2 DEF Tick
    <3> QED
      BY <1>1, <3>1, Parts
  <2> QED
    BY <2>1, <2>2
<1>4. todo' = <<>> \/ (held = "contact" /\ todo' = <<"move">>) \/ (held = "hover" /\ todo' = <<"hover">>)
  BY DEF Tick
<1>5. todo' \in Seq(Ink \cup Ends) /\ (held # "contact" => ~Open(Samples(todo')))
  <2>1. CASE todo' = <<>>
    BY <2>1, NothingToDoIs
  <2>2. ASSUME NEW phase \in {"move", "hover"}, todo' = <<phase>>
        PROVE  todo' \in Seq(Ink \cup Ends) /\ (Open(Samples(todo')) => phase = "move")
    <3> DEFINE t == <<phase>>
               rest == Tail(t)
    <3>1. t \in Seq(Ink \cup Ends) /\ t # <<>> /\ Head(t) = phase /\ rest = <<>>
      BY DEF Ink, Ends
    <3> HIDE DEF t, rest
    <3>2. Open(Samples(t)) <=> Open(Samples(rest)) \/ (phase \in Draws /\ ~EndIn(Samples(rest)))
      BY <3>1, FirstToDo DEF rest
    <3>3. Open(Samples(t)) => phase = "move"
      BY <3>1, <3>2, NothingToDoIs DEF Draws
    <3> QED
      BY <2>2, <3>1, <3>3 DEF t
  <2> QED
    BY <1>4, <2>1, <2>2
<1>6. TypeOK'
  BY <1>1, <1>2, <1>3, <1>5 DEF IInv, TypeOK, SoundMouse
<1>7. DeviceInv'
  BY <1>1, <1>3 DEF IInv, DeviceInv
<1>8. MouseInv'
  BY <1>2, <1>3 DEF IInv, MouseInv
<1>9. StrokeInv'
  BY <1>1, <1>2, <1>3, <1>5, NothingToDoIs, EmptyQueue DEF IInv, StrokeInv
<1> QED
  BY <1>6, <1>7, <1>8, <1>9 DEF IInv

LEMMA PassKeeps == ASSUME IInv, Pass PROVE IInv'
<1> DEFINE queue == Aged(contact.queue)
           since == IF contact.refused /\ contact.since < Stuck THEN contact.since + 1
                    ELSE contact.since
           left == IF contact.left > 0 THEN contact.left - 1 ELSE 0
           retryIn == IF slot.retryIn > 0 THEN slot.retryIn - 1 ELSE 0
<1>1. /\ contact' = [contact EXCEPT !.queue = queue, !.since = since, !.left = left]
      /\ slot' = [slot EXCEPT !.retryIn = retryIn]
      /\ mouse' = [mouse EXCEPT !.waiting = Aged(mouse.waiting)]
      /\ UNCHANGED <<held, dropped, todo, at, over, hovering, pen, owed, runs>>
  BY DEF Pass
<1>2. since \in 0 .. Stuck /\ left \in 0 .. STUCK_TRIAL
  BY Parts, ContactParts, Times
<1>3. retryIn \in 0 .. RETRY_INTERVAL
  BY Parts, SlotParts, Times
<1>4. /\ queue \in Seq(Sample) /\ (EndIn(queue) <=> EndIn(contact.queue))
      /\ Open(queue) <=> Open(contact.queue)
      /\ contact.queue = <<>> <=> queue = <<>>
  BY Parts, AgedQueueIs
<1>5. /\ SoundMouse(mouse') /\ mouse'.planned = mouse.planned
      /\ ~MouseBusy(mouse) => ~MouseBusy(mouse')
  BY <1>1, Parts, AgedMouseIs
<1> HIDE DEF queue, since, left, retryIn
<1>6. contact' \in Contacts /\ contact'.queue = queue /\ contact'.state = contact.state
  BY <1>1, <1>2, <1>4, Parts DEF Contacts
<1>7. slot' \in Slots /\ slot'.handle = slot.handle
  BY <1>1, <1>3, Parts DEF Slots
<1>8. TypeOK'
  BY <1>1, <1>5, <1>6, <1>7 DEF IInv, TypeOK, SoundMouse
<1>9. DeviceInv'
  BY <1>1, <1>4, <1>6, <1>7 DEF IInv, DeviceInv
<1>10. MouseInv'
  BY <1>4, <1>5, <1>6 DEF IInv, MouseInv
<1>11. StrokeInv'
  BY <1>1, <1>4, <1>5, <1>6 DEF IInv, StrokeInv
<1> QED
  BY <1>8, <1>9, <1>10, <1>11 DEF IInv

\* A reset between passes leaves nothing with the device, and nothing held.
LEMMA ResetContactIs ==
  ASSUME IInv, at = "idle", ResetContact
  PROVE  /\ contact' \in Contacts /\ contact'.queue = <<>> /\ contact'.state = "out"
         /\ slot' \in Slots /\ pen' = "out"
<1> DEFINE resumed == contact.resumed /\ contact.queue = <<>>
           empty == [contact EXCEPT !.queue = <<>>, !.there = FALSE, !.resumed = resumed]
           out == [empty EXCEPT !.state = "out"]
           accepted == [out EXCEPT !.refused = FALSE, !.since = 0, !.trial = FALSE, !.left = 0]
<1>1. \/ ~slot.handle /\ UNCHANGED <<contact, slot, pen>>
      \/ Recreate(out)
      \/ contact' = accepted /\ pen' = "out" /\ slot' = [slot EXCEPT !.stuck = FALSE]
      \/ contact.state = "out" /\ contact' = empty /\ UNCHANGED <<slot, pen>>
  BY DEF ResetContact
<1>2. resumed \in BOOLEAN
  BY Parts, ContactParts
<1> HIDE DEF resumed
<1>3. empty \in Contacts /\ empty.queue = <<>> /\ empty.state = contact.state
  BY <1>2, Parts, EmptyQueue DEF Contacts
<1> HIDE DEF empty
<1>4. out \in Contacts /\ out.queue = <<>> /\ out.state = "out"
  BY <1>3 DEF Contacts
<1> HIDE DEF out
<1>5. accepted \in Contacts /\ accepted.queue = <<>> /\ accepted.state = "out"
  BY <1>4, Times DEF Contacts
<1> HIDE DEF accepted
<1>6. CASE ~slot.handle /\ UNCHANGED <<contact, slot, pen>>
  BY <1>6, Parts DEF IInv, DeviceInv
<1>7. CASE Recreate(out)
  BY <1>4, <1>7, Parts, CreatedIs DEF Recreate
<1>8. CASE contact' = accepted /\ pen' = "out" /\ slot' = [slot EXCEPT !.stuck = FALSE]
  <2>1. slot' \in Slots
    BY <1>8, Parts DEF Slots
  <2> QED
    BY <1>5, <1>8, <2>1
<1>9. CASE contact.state = "out" /\ contact' = empty /\ UNCHANGED <<slot, pen>>
  BY <1>3, <1>9, Parts DEF IInv, DeviceInv
<1> QED
  BY <1>1, <1>6, <1>7, <1>8, <1>9

LEMMA ResetKeeps == ASSUME IInv, Reset PROVE IInv'
<1> DEFINE d == DropMouseInput(mouse)
<1>1. /\ at = "idle" /\ over = <<>> /\ todo = <<>>
      /\ UNCHANGED <<todo, at, over, owed, runs>>
      /\ held' = "none" /\ dropped' = FALSE /\ hovering' = FALSE
      /\ ResetContact /\ mouse' \in Pumped(d)
  BY DEF Reset, AtRest, Release
<1>2. SoundMouse(d) /\ ~d.planned
  BY Parts, DropMouseIs
<1> HIDE DEF d
<1>3. SoundMouse(mouse') /\ ~mouse'.planned
  BY <1>1, <1>2, PumpedIs
<1>4. /\ contact' \in Contacts /\ contact'.queue = <<>> /\ contact'.state = "out"
      /\ slot' \in Slots /\ pen' = "out"
  BY <1>1, ResetContactIs
<1>5. TypeOK'
  BY <1>1, <1>3, <1>4 DEF IInv, TypeOK, SoundMouse
<1>6. DeviceInv' /\ MouseInv'
  BY <1>1, <1>3, <1>4 DEF DeviceInv, MouseInv
<1>7. StrokeInv'
  BY <1>1, <1>3, <1>4, NothingToDoIs, EmptyQueue DEF StrokeInv
<1> QED
  BY <1>5, <1>6, <1>7 DEF IInv

LEMMA DropKeeps == ASSUME IInv, Drop PROVE IInv'
<1> DEFINE d == DropMouseInput(mouse)
<1>1. /\ over = <<>> /\ todo = <<>> /\ UNCHANGED <<todo, over, runs>>
      /\ held' = "none" /\ dropped' = FALSE /\ hovering' = FALSE /\ at' = "gone"
      /\ mouse' = NoMouse /\ contact' = NewContact(FALSE) /\ slot' = NoDevice /\ pen' = "out"
  BY DEF Drop, AtRest
<1>2. PICK m \in Pumped(d) : owed' = m.pressed
  BY DEF Drop
<1>3. SoundMouse(d)
  BY Parts, DropMouseIs
<1> HIDE DEF d
<1>4. owed' \in BOOLEAN
  BY <1>2, <1>3, PumpedIs, MouseParts DEF SoundMouse
<1>5. SoundMouse(mouse') /\ ~mouse'.planned
  BY <1>1, NoMouseIs, Resting
<1>6. contact' \in Contacts /\ contact'.queue = <<>> /\ contact'.state = "out"
  BY <1>1, NewContactIs
<1>7. slot' \in Slots /\ ~slot'.handle
  BY <1>1, NoDeviceIs
<1>8. TypeOK'
  BY <1>1, <1>4, <1>5, <1>6, <1>7 DEF IInv, TypeOK, SoundMouse
<1>9. DeviceInv' /\ MouseInv'
  BY <1>1, <1>5, <1>6, <1>7 DEF DeviceInv, MouseInv
<1>10. StrokeInv'
  BY <1>1, <1>5, <1>6, NothingToDoIs, EmptyQueue DEF StrokeInv
<1> QED
  BY <1>8, <1>9, <1>10 DEF IInv

LEMMA StartKeeps == ASSUME IInv, Start PROVE IInv'
<1> DEFINE m == [NoMouse EXCEPT !.pressed = owed]
<1>1. /\ at = "gone" /\ runs < MaxRuns /\ at' = "idle" /\ runs' = runs + 1 /\ owed' = FALSE
      /\ slot' \in Created(NoDevice) /\ mouse' = DropMouseInput(m)
      /\ UNCHANGED <<held, dropped, todo, contact, over, hovering, pen>>
  BY DEF Start
<1>2. m \in Mice
  BY NoMouseIs DEF SoundMouse, Mice, IInv, TypeOK
<1> HIDE DEF m
<1>3. SoundMouse(mouse') /\ ~mouse'.planned
  BY <1>1, <1>2, DropMouseIs
<1>4. slot' \in Slots
  BY <1>1, NoDeviceIs, CreatedIs
<1>5. contact.queue = <<>> /\ contact.state = "out" /\ over = <<>> /\ pen = "out"
  BY <1>1 DEF IInv, DeviceInv
<1>6. runs' \in 1 .. MaxRuns
  BY <1>1, PenAssumption DEF IInv, TypeOK
<1>7. TypeOK'
  BY <1>1, <1>3, <1>4, <1>6 DEF IInv, TypeOK, SoundMouse
<1>8. DeviceInv' /\ MouseInv'
  BY <1>1, <1>3, <1>5 DEF DeviceInv, MouseInv
<1>9. StrokeInv'
  BY <1>1, <1>3, <1>5, EmptyQueue DEF IInv, StrokeInv
<1> QED
  BY <1>7, <1>8, <1>9 DEF IInv

-----------------------------------------------------------------------------
(* The theorems. *)

LEMMA StepKeeps == ASSUME IInv, [Next]_vars PROVE IInv'
<1>1. CASE UNCHANGED vars
  BY <1>1 DEF vars, IInv, TypeOK, DeviceInv, MouseInv, StrokeInv
<1>2. ASSUME NEW phase \in Ink \cup Ends, NEW late \in BOOLEAN, Relay(phase, late) PROVE IInv'
  BY <1>2, RelayKeeps
<1>3. CASE Flush
  BY <1>3, FlushEndsKeeps, NothingToDoKeeps, NoHandleKeeps, HoldBackKeeps, AcceptKeeps,
     RejectKeeps, EndByRecreatingKeeps, NotReadyKeeps DEF Flush
<1> QED
  BY <1>1, <1>2, <1>3, DeliverKeeps, HandOverKeeps, TickKeeps, PassKeeps, ResetKeeps,
     DropKeeps, StartKeeps DEF Next

LEMMA InvariantHolds == Spec => []IInv
<1>1. Init => IInv
  BY InitKeeps
<1>2. IInv /\ [Next]_vars => IInv'
  BY StepKeeps
<1> QED
  BY <1>1, <1>2, PTL DEF Spec

\* What waits for the pen and for the mouse is made of samples and events, the
\* timers stay within their limits, however long the queues grow.
THEOREM PenTypeCorrect == Spec => []TypeOK
<1>1. IInv => TypeOK
  BY DEF IInv
<1> QED
  BY <1>1, InvariantHolds, PTL

\* The mouse is never pressed twice nor released without a press, presses only
\* what is still drawn, and has nothing while the device does: for any number
\* of events, dropped, inserted or planned in any order of calls.
THEOREM MouseIsSound == Spec => []MouseSound
<1>1. IInv => MouseSound
  BY DEF IInv, MouseInv, SoundMouse, Good, After, MouseSound
<1> QED
  BY <1>1, InvariantHolds, PTL

\* With no event waiting, or with a press last, the plan is what that leaves.
LEMMA LastEvent ==
  ASSUME NEW m, SoundMouse(m), ~m.planned, m.pressed
  PROVE  m.waiting # <<>> /\ Last(m.waiting).kind # "press"
<1> DEFINE w == m.waiting
           n == Len(w)
<1>1. w \in Seq(MouseEvent) /\ m.pressed \in BOOLEAN
  BY MouseParts DEF SoundMouse
<1>2. n \in Nat /\ Last(w) = w[n]
  BY <1>1 DEF Last
<1>3. ~Button(m.pressed, w, n)
  BY DEF SoundMouse, After
<1>4. w # <<>>
  BY <1>1, NoEvents DEF SoundMouse
<1>5. n \in 1 .. n
  BY <1>1, <1>4
<1> HIDE DEF w, n
<1>6. ASSUME w[n].kind = "press" PROVE FALSE
  <2>1. n \in {i \in 1 .. n : w[i].kind # "move"}
    BY <1>5, <1>6
  <2>2. \A j \in {i \in 1 .. n : w[i].kind # "move"} : j <= n
    BY <1>2
  <2>3. Button(m.pressed, w, n)
    BY <1>6, <2>1, <2>2 DEF Button
  <2> QED
    BY <1>3, <2>3
<1> QED
  BY <1>2, <1>4, <1>6 DEF w

\* An end in a queue that draws nothing after it leaves no draw last.
LEMMA LastSample ==
  ASSUME NEW s \in Seq(Sample), EndIn(s), ~Open(s)
  PROVE  s # <<>> /\ Last(s).phase \notin {"down", "move"}
<1>1. s # <<>>
  BY EmptyQueue
<1> DEFINE n == Len(s)
<1>2. n \in DOMAIN s /\ \A j \in DOMAIN s : ~(j > n)
  BY <1>1
<1>3. Last(s) = s[n]
  BY DEF Last
<1> HIDE DEF n
<1> QED
  BY <1>1, <1>2, <1>3 DEF Open, Draws

\* Once the iPad holds no stroke and nothing is on its way, a contact or a
\* button that is still down has its end waiting behind it, for any queues and
\* whatever Windows refused, rejected or lost before.
THEOREM NothingHeldAfter == Spec => []HeldForStroke
<1>1. ASSUME IInv PROVE HeldForStroke
  <2>1. pen = IF at = "gone" THEN "out" ELSE contact.state
    BY <1>1 DEF IInv, DeviceInv
  <2>2. ASSUME AtRest, held # "contact"
        PROVE  /\ pen = "contact" =>
                    contact.queue # <<>> /\ Last(contact.queue).phase \notin {"down", "move"}
               /\ mouse.pressed => mouse.waiting # <<>> /\ Last(mouse.waiting).kind # "press"
               /\ ~mouse.planned
    <3>1. /\ ~Open(contact.queue) /\ ~EndIn(over) /\ ~EndIn(Samples(todo))
          /\ pen = "contact" \/ mouse.planned => EndIn(contact.queue)
      BY <1>1, <2>2, NothingToDoIs, EmptyQueue DEF AtRest, IInv, StrokeInv
    <3>2. SoundMouse(mouse) /\ contact.queue \in Seq(Sample)
      BY <1>1, Parts
    <3>3. ~mouse.planned
      <4>1. EndIn(contact.queue) => contact.queue # <<>>
        BY EmptyQueue
      <4> QED
        BY <1>1, <3>1, <3>2, <4>1, Resting DEF IInv, MouseInv
    <3> QED
      BY <3>1, <3>2, <3>3, LastEvent, LastSample
  <2> QED
    BY <2>1, <2>2 DEF HeldForStroke
<1> QED
  BY <1>1, InvariantHolds, PTL
=============================================================================
