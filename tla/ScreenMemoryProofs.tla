-------------------------- MODULE ScreenMemoryProofs --------------------------
(***************************************************************************)
(* Theorems about ScreenMemory, for any fingerprints and any number of     *)
(* moves.                                                                  *)
(***************************************************************************)
EXTENDS ScreenMemory, TLAPS

-----------------------------------------------------------------------------
(* The queue: the jobs that wait, of which no two are for one file.        *)

Waiting(q) == {q[i] : i \in DOMAIN q}
OnePerFile(q) == \A i, k \in DOMAIN q : q[i].path = q[k].path => i = k

LEMMA WaitingJobs == ASSUME NEW J, NEW q \in Seq(J) PROVE Waiting(q) \subseteq J
BY DEF Waiting

LEMMA WithoutJobs ==
  ASSUME NEW J, NEW q \in Seq(J), OnePerFile(q), NEW p
  PROVE  /\ Without(q, p) \in Seq(J)
         /\ OnePerFile(Without(q, p))
         /\ Waiting(Without(q, p)) = {j \in Waiting(q) : j.path # p}
<1>1. CASE \E i \in DOMAIN q : q[i].path = p
  <2> DEFINE i == CHOOSE i \in DOMAIN q : q[i].path = p
             r == [k \in 1 .. (Len(q) - 1) |-> IF k < i THEN q[k] ELSE q[k + 1]]
  <2>1. i \in 1 .. Len(q) /\ q[i].path = p /\ Len(q) \in Nat
    BY <1>1
  <2>2. Without(q, p) = r
    BY <1>1 DEF Without
  <2> HIDE DEF i
  <2>3. r \in [1 .. (Len(q) - 1) -> J]
    BY <2>1
  <2>4. r \in Seq(J) /\ DOMAIN r = 1 .. (Len(q) - 1)
    BY <2>1, <2>3
  <2>5. \A k \in DOMAIN r : /\ k < i => k \in DOMAIN q /\ k # i /\ r[k] = q[k]
                            /\ ~(k < i) => k + 1 \in DOMAIN q /\ k + 1 # i /\ r[k] = q[k + 1]
    BY <2>1, <2>4
  <2>6. OnePerFile(r)
    BY <2>1, <2>4, <2>5 DEF OnePerFile
  <2>7. ASSUME NEW j \in Waiting(r) PROVE j \in Waiting(q) /\ j.path # p
    BY <2>1, <2>5, <2>7 DEF Waiting, OnePerFile
  <2>8. ASSUME NEW j \in Waiting(q), j.path # p PROVE j \in Waiting(r)
    <3>1. PICK k \in 1 .. Len(q) : j = q[k]
      BY DEF Waiting
    <3>2. k # i
      BY <2>1, <2>8, <3>1
    <3>3. CASE k < i
      <4>1. k \in DOMAIN r /\ r[k] = q[k]
        BY <2>1, <2>4, <3>1, <3>3
      <4> QED
        BY <3>1, <4>1 DEF Waiting
    <3>4. CASE i < k
      <4>1. k - 1 \in DOMAIN r /\ r[k - 1] = q[k]
        BY <2>1, <2>4, <3>1, <3>4
      <4> QED
        BY <3>1, <4>1 DEF Waiting
    <3> QED
      BY <2>1, <3>1, <3>2, <3>3, <3>4
  <2> QED
    BY <2>2, <2>4, <2>6, <2>7, <2>8
<1>2. CASE ~ \E i \in DOMAIN q : q[i].path = p
  BY <1>2 DEF Without, Waiting
<1> QED
  BY <1>1, <1>2

\* Queueing a file's next state: it replaces the one that waits.
LEMMA QueuedJobs ==
  ASSUME NEW J, NEW q \in Seq(J), OnePerFile(q), NEW p, NEW f, NEW v,
         [path |-> p, save |-> f, version |-> v] \in J
  PROVE  /\ Queued(q, p, f, v) \in Seq(J)
         /\ OnePerFile(Queued(q, p, f, v))
         /\ Waiting(Queued(q, p, f, v)) =
              {j \in Waiting(q) : j.path # p} \cup {[path |-> p, save |-> f, version |-> v]}
<1> DEFINE w == Without(q, p)
           job == [path |-> p, save |-> f, version |-> v]
           r == Append(w, job)
<1>1. w \in Seq(J) /\ OnePerFile(w) /\ Waiting(w) = {j \in Waiting(q) : j.path # p}
  BY WithoutJobs
<1>2. job.path = p /\ Queued(q, p, f, v) = r
  BY DEF Queued
<1> HIDE DEF w, job
<1>3. r \in Seq(J) /\ Len(w) \in Nat /\ DOMAIN w = 1 .. Len(w) /\ DOMAIN r = 1 .. (Len(w) + 1)
  BY <1>1 DEF job
<1>4. \A k \in 1 .. Len(w) : r[k] = w[k] /\ w[k] \in Waiting(w)
  BY <1>1, <1>3 DEF Waiting
<1>5. r[Len(w) + 1] = job
  BY <1>1, <1>3
<1>6. OnePerFile(r)
  BY <1>1, <1>2, <1>3, <1>4, <1>5 DEF OnePerFile
<1>7. Waiting(r) = Waiting(w) \cup {job}
  <2>1. ASSUME NEW k \in DOMAIN r PROVE r[k] \in Waiting(w) \cup {job}
    BY <1>3, <1>4, <1>5
  <2>2. \A k \in DOMAIN w : w[k] \in Waiting(r)
    BY <1>3, <1>4 DEF Waiting
  <2>3. job \in Waiting(r)
    BY <1>3, <1>5 DEF Waiting
  <2> QED
    BY <2>1, <2>2, <2>3 DEF Waiting
<1> QED
  BY <1>1, <1>2, <1>3, <1>6, <1>7 DEF job

\* Taking the job that waits longest.
LEMMA TakenJobs ==
  ASSUME NEW J, NEW q \in Seq(J), OnePerFile(q), q # << >>
  PROVE  /\ Head(q) \in J /\ Head(q) \in Waiting(q)
         /\ Tail(q) \in Seq(J)
         /\ OnePerFile(Tail(q))
         /\ Waiting(Tail(q)) = Waiting(q) \ {Head(q)}
<1> DEFINE r == Tail(q)
<1>1. Len(q) \in Nat \ {0} /\ DOMAIN q = 1 .. Len(q) /\ Head(q) = q[1] /\ 1 \in DOMAIN q
  OBVIOUS
<1>2. r \in Seq(J) /\ DOMAIN r = 1 .. (Len(q) - 1)
  BY <1>1
<1>3. \A k \in DOMAIN r : k + 1 \in DOMAIN q /\ k + 1 # 1 /\ r[k] = q[k + 1]
  BY <1>1, <1>2
<1> HIDE DEF r
<1>4. OnePerFile(r)
  BY <1>1, <1>2, <1>3 DEF OnePerFile
<1>5. ASSUME NEW j \in Waiting(r) PROVE j \in Waiting(q) /\ j # Head(q)
  BY <1>1, <1>3, <1>5 DEF Waiting, OnePerFile
<1>6. ASSUME NEW j \in Waiting(q), j # Head(q) PROVE j \in Waiting(r)
  <2>1. PICK k \in 1 .. Len(q) : j = q[k]
    BY <1>1 DEF Waiting
  <2>2. k - 1 \in DOMAIN r /\ r[k - 1] = q[k]
    BY <1>1, <1>2, <1>3, <1>6, <2>1
  <2> QED
    BY <2>1, <2>2 DEF Waiting
<1>7. Head(q) \in J /\ Head(q) \in Waiting(q)
  BY <1>1 DEF Waiting
<1>8. Waiting(r) = Waiting(q) \ {Head(q)}
  BY <1>5, <1>6
<1> QED
  BY <1>2, <1>4, <1>7, <1>8 DEF r

-----------------------------------------------------------------------------
(* Files and the bounds on what can have been asked.                       *)

LEMMA FileKinds ==
  /\ Nothing.state = "empty" /\ NoFile.state = "none" /\ Torn.state = "torn"
  /\ \A c : Exempt(c).state = "exempt"
  /\ \A f, n : Failure(f, n).state = "failure" /\ Failure(f, n).fp = f /\ Failure(f, n).n = n
  /\ \A m : {Nothing, NoFile, Torn} \cup Exempts \subseteq Files(m)
BY DEF Nothing, NoFile, Torn, Exempt, Failure, Files

\* Every fingerprint has its cards.
LEMMA OverrideFiles ==
  ASSUME NEW f \in Fingerprints PROVE Exempt(CardsOf(f)) \in Exempts
<1>1. CardsOf(f) \in Cards
  BY CardsAssumption DEF CardsOf
<1> QED
  BY <1>1 DEF Exempts

LEMMA FailureFiles ==
  /\ \A m, f, n : f \in Fingerprints /\ n \in 1 .. (m + 1) => Failure(f, n) \in Files(m)
  /\ \A m : \A file \in Files(m) :
       file.state = "failure" =>
         /\ file = Failure(file.fp, file.n)
         /\ file.fp \in Fingerprints /\ file.n \in 1 .. (m + 1)
  /\ \A m : \A file \in Files(m) : file.state = "empty" => file = Nothing
<1>1. \A m, f, n : f \in Fingerprints /\ n \in 1 .. (m + 1) => Failure(f, n) \in Files(m)
  BY DEF Files
<1>2. ASSUME NEW m, NEW file \in Files(m)
      PROVE  /\ file.state = "failure" =>
                  /\ file = Failure(file.fp, file.n)
                  /\ file.fp \in Fingerprints /\ file.n \in 1 .. (m + 1)
             /\ file.state = "empty" => file = Nothing
  <2>1. \/ file \in {Nothing, NoFile, Torn}
        \/ file \in Exempts
        \/ \E f \in Fingerprints, n \in 1 .. (m + 1) : file = Failure(f, n)
    BY DEF Files
  <2>2. file \in Exempts => file.state = "exempt"
    BY FileKinds DEF Exempts
  <2> QED
    BY <2>1, <2>2, FileKinds
<1> QED
  BY <1>1, <1>2

\* TypeOK, in the part no move widens and the part that bounds what is saved.
ControlType ==
  /\ app \in {"down", "up", "flushing", "written", "abandoned"}
  /\ fp \in Fingerprints
  /\ rule \in [matched : BOOLEAN, exempt : BOOLEAN, applied : BOOLEAN]
  /\ writer \in {"stopped", "running", "failed"}
  /\ due \in SUBSET Retriers
  /\ starting \in SUBSET Starters
  /\ thread \in [Starters -> {"none", "ready", "waiting"} \cup Steps]
  /\ busy \in BOOLEAN
  /\ uncleared \in {"no", "fresh", "due"}
  /\ held \in Holding
  /\ moves \in 0 .. MaxMoves

SavedType(m) ==
  /\ failed \in Counts(m)
  /\ jobs \in Seq(Jobs(m))
  /\ doing \in [Starters -> Jobs(m) \cup {NoFile}]
  /\ disk \in [Paths -> Files(m)]
  /\ want \in [Paths -> Files(m)]
  /\ asked \in [Paths -> Versions(m)]
  /\ landed \in [Paths -> Versions(m)]
  /\ tried \in [Paths -> Versions(m)]

LEMMA TypeParts ==
  /\ TypeOK <=> ControlType /\ SavedType(moves)
  /\ TypeOK' <=> ControlType' /\ SavedType(moves)'
BY DEF TypeOK, ControlType, SavedType

LEMMA BoundsGrow ==
  ASSUME NEW m \in Nat, NEW k \in {m, m + 1}
  PROVE  /\ k \in Nat
         /\ Versions(m) \subseteq Versions(k) /\ Counts(m) \subseteq Counts(k)
         /\ Files(m) \subseteq Files(k)
         /\ Jobs(m) \subseteq Jobs(k) /\ Seq(Jobs(m)) \subseteq Seq(Jobs(k))
<1>1. /\ k \in Nat /\ Versions(m) \subseteq Versions(k) /\ Counts(m) \subseteq Counts(k)
      /\ 1 .. (m + 1) \subseteq 1 .. (k + 1)
  BY DEF Versions, Counts
<1>2. Files(m) \subseteq Files(k)
  BY <1>1 DEF Files
<1>3. Jobs(m) \subseteq Jobs(k)
  BY <1>1, <1>2 DEF Jobs
<1> QED
  BY <1>1, <1>2, <1>3

LEMMA SavedGrows ==
  ASSUME NEW m \in Nat, NEW k \in {m, m + 1}, SavedType(m) PROVE SavedType(k)
BY BoundsGrow DEF SavedType

LEMMA MovesGrow ==
  ASSUME TypeOK, [Next]_vars
  PROVE  moves \in Nat /\ moves' \in 0 .. MaxMoves /\ moves' \in {moves, moves + 1}
<1>1. moves \in 0 .. MaxMoves /\ MaxMoves \in Nat
  BY BoundAssumption DEF TypeOK
<1>2. moves' = moves \/ (moves < MaxMoves /\ moves' = moves + 1)
  BY DEF Next, vars, Move, NoteFailure, Forget, Succeed, Tick, Wait, RetryDue, RetryStart, SpawnOk,
     SpawnFails, Take, Sleep, Write, RemoveFile, ReplaceFile, Truncate, Overwrite, Finish, Proceed,
     Quit, FlushEnds, Exit, Load, Hold
<1> QED
  BY <1>1, <1>2

-----------------------------------------------------------------------------
(* The inductive invariant: one writer at most, whose job and whose queue  *)
(* agree with what was asked of the files.                                 *)

\* The threads that have a job under way.
Workers == {s \in Starters : thread[s] \in Steps}
Alive(s) == s \in starting \/ thread[s] # "none"

\* Nothing of a run is left once the app is gone.
AllGone == app = "down" => jobs = << >> /\ due = {} /\ writer = "stopped"

\* One thread writes at most, and Saving::busy tells whether it does.
OneWriter ==
  /\ \A s, t \in Starters : Alive(s) /\ Alive(t) => s = t
  /\ \A s \in Starters : Alive(s) => writer = "running"
  /\ \A s \in starting : thread[s] = "none"
  /\ busy <=> Workers # {}

\* A job saves a state that was asked of its file, the last one if it is of
\* the last version.
JobSound(j) ==
  /\ j.version <= asked[j.path]
  /\ j.version = asked[j.path] => j.save = want[j.path]
  /\ j.path = "rule" => j.save.state = "exempt"
  /\ j.path = "record" => j.save = Nothing \/ j.save.state = "failure"

QueueInv ==
  /\ OnePerFile(jobs)
  /\ \A j \in Waiting(jobs) : JobSound(j) /\ j.version = asked[j.path]

\* The job under way is no older than the last one tried of its file.
WorkInv ==
  \A s \in Workers :
    /\ doing[s] \in Jobs(moves)
    /\ JobSound(doing[s])
    /\ tried[doing[s].path] <= doing[s].version
    /\ thread[s] # "replace" => doing[s].save = Nothing

VersionsInv == \A p \in Paths : landed[p] <= tried[p] /\ tried[p] <= asked[p]

\* What was asked last of a file has been tried, waits or is under way.
Owed ==
  app # "down" => \A p \in Paths :
    \/ tried[p] = asked[p]
    \/ \E j \in Waiting(jobs) : j.path = p
    \/ \E s \in Workers : doing[s].path = p /\ doing[s].version = asked[p]

\* What is asked of the record is what the memory knows.
Known ==
  /\ uncleared # "no" => want["record"] = Nothing
  /\ app # "down" /\ failed # 0 => want["record"] = Failure(fp, failed)

\* Without a failure known or a clear owed, no failure of this fingerprint is
\* in the file, on its way there or waiting to be.
Noticed ==
  app # "down" /\ failed = 0 /\ uncleared = "no" =>
    /\ ~HoldsFailure
    /\ \A j \in Waiting(jobs) : j.save.state # "failure"
    /\ \A s \in Workers : doing[s].save.state # "failure"

Remembered ==
  app # "down" /\ want["record"].state = "failure" /\ landed["record"] = asked["record"]
    => disk["record"] = want["record"]

SavingInv ==
  /\ AllGone /\ OneWriter /\ QueueInv /\ WorkInv /\ VersionsInv
  /\ Owed /\ Known /\ Noticed /\ Remembered

-----------------------------------------------------------------------------
(* One writer.                                                             *)

LEMMA StarterNames ==
  /\ Starters = {"load", "quit", "worker", "window"}
  /\ Retriers = {"worker", "window"} /\ Retriers \subseteq Starters
  /\ Steps = {"remove", "replace", "truncate", "overwrite"}
BY DEF Starters, Retriers, Steps

\* Only Saver::start takes on a writer, and only where there is none.
LEMMA StartsOne ==
  ASSUME OneWriter, NEW s \in Starters, Starts(s), UNCHANGED <<thread, busy>>
  PROVE  OneWriter'
<1>1. CASE writer = "running"
  BY <1>1 DEF Starts, OneWriter, Alive, Workers
<1>2. CASE writer # "running"
  <2>1. \A t \in Starters : ~Alive(t)
    BY <1>2 DEF OneWriter
  <2>2. writer' = "running" /\ starting' = starting \cup {s}
    BY <1>2 DEF Starts
  <2> QED
    BY <2>1, <2>2 DEF OneWriter, Alive, Workers
<1> QED
  BY <1>1, <1>2

\* A step of the one thread there is.
LEMMA ThreadSteps ==
  ASSUME TypeOK, OneWriter, NEW s \in Starters, thread[s] # "none", NEW step,
         thread' = [thread EXCEPT ![s] = step], step # "none",
         UNCHANGED <<writer, starting>>, busy' <=> step \in Steps
  PROVE  OneWriter'
<1>1. thread \in [Starters -> {"none", "ready", "waiting"} \cup Steps] /\ starting \subseteq Starters
  BY DEF TypeOK
<1>2. Alive(s) /\ writer = "running" /\ \A t \in Starters : Alive(t) => t = s
  BY DEF OneWriter, Alive
<1>3. \A t \in Starters : thread'[t] = IF t = s THEN step ELSE thread[t]
  BY <1>1
<1>4. \A t \in Starters : t # s => thread'[t] = "none" /\ t \notin starting'
  BY <1>2, <1>3 DEF Alive
<1>5. s \notin starting'
  BY DEF OneWriter
<1>6. "none" \notin Steps
  BY StarterNames
<1>7. Workers' = IF step \in Steps THEN {s} ELSE {}
  BY <1>3, <1>4, <1>6 DEF Workers
<1>8. \A t \in Starters : Alive(t)' <=> t = s
  BY <1>3, <1>4 DEF Alive
<1> QED
  BY <1>1, <1>2, <1>4, <1>5, <1>7, <1>8 DEF OneWriter

LEMMA StepOneWriter == ASSUME TypeOK, AllGone, OneWriter, [Next]_vars PROVE OneWriter'
<1>1. thread \in [Starters -> {"none", "ready", "waiting"} \cup Steps] /\ starting \subseteq Starters
  BY DEF TypeOK
<1>2. ASSUME UNCHANGED <<writer, starting, busy>>, thread' = thread \/ thread' = Woken
      PROVE  OneWriter'
  <2>1. \A s \in Starters : Alive(s)' <=> Alive(s)
    BY <1>1, <1>2 DEF Alive, Woken
  <2>2. Workers' = Workers
    BY <1>1, <1>2, StarterNames DEF Workers, Woken
  <2>3. \A s \in starting : thread'[s] = "none"
    BY <1>1, <1>2 DEF OneWriter, Woken
  <2> QED
    BY <1>2, <2>1, <2>2, <2>3 DEF OneWriter
<1>3. CASE NoteFailure \/ Forget \/ Succeed \/ Tick \/ Wait \/ FlushEnds \/ Hold \/ UNCHANGED vars
  BY <1>2, <1>3 DEF NoteFailure, Forget, Succeed, Tick, Wait, FlushEnds, Hold, Ask, saving, vars
<1>4. ASSUME NEW s \in Retriers, RetryDue(s) \/ RetryStart(s) PROVE OneWriter'
  BY <1>2, <1>4, StartsOne, StarterNames DEF RetryDue, RetryStart
<1>5. ASSUME NEW s \in Starters, SpawnOk(s) PROVE OneWriter'
  <2>1. /\ s \in starting /\ thread[s] = "none" /\ starting' = starting \ {s}
        /\ thread' = [thread EXCEPT ![s] = "ready"] /\ writer' = writer /\ busy' = busy
    BY <1>5 DEF SpawnOk
  <2>2. \A t \in Starters : thread'[t] = IF t = s THEN "ready" ELSE thread[t]
    BY <1>1, <2>1
  <2>3. (\A t \in Starters : Alive(t)' <=> Alive(t)) /\ Workers' = Workers
    BY <2>1, <2>2, StarterNames DEF Alive, Workers
  <2>4. \A t \in starting' : thread'[t] = "none"
    BY <1>1, <2>1, <2>2 DEF OneWriter
  <2> QED
    BY <2>1, <2>3, <2>4 DEF OneWriter
<1>6. ASSUME NEW s \in Starters, SpawnFails(s) PROVE OneWriter'
  <2>1. /\ s \in starting /\ starting' = starting \ {s} /\ writer' = "failed"
        /\ thread' = thread /\ busy' = busy /\ thread[s] = "none"
    BY <1>6 DEF SpawnFails, OneWriter
  <2>2. \A t \in Starters : t # s => ~Alive(t)
    BY <2>1 DEF OneWriter, Alive
  <2>3. (\A t \in Starters : ~Alive(t)') /\ Workers' = Workers
    BY <2>1, <2>2 DEF Alive, Workers
  <2> QED
    BY <1>1, <2>1, <2>3 DEF OneWriter
<1>7. ASSUME NEW s \in Starters, Take(s) PROVE OneWriter'
  <2>1. PICK step \in Steps : thread' = [thread EXCEPT ![s] = step]
    BY <1>7, StarterNames DEF Take
  <2>2. thread[s] # "none" /\ step # "none" /\ writer' = writer /\ starting' = starting /\ busy' = TRUE
    BY <1>7, StarterNames DEF Take
  <2> QED
    BY <2>1, <2>2, ThreadSteps
<1>8. ASSUME NEW s \in Starters, Sleep(s) PROVE OneWriter'
  <2>1. /\ thread' = [thread EXCEPT ![s] = "waiting"] /\ writer' = writer /\ starting' = starting
        /\ busy' = busy /\ thread[s] = "ready"
    BY <1>8 DEF Sleep
  <2>2. ~busy
    <3>1. ASSUME NEW t \in Workers PROVE FALSE
      <4>1. t = s
        BY <2>1, <3>1, StarterNames DEF OneWriter, Alive, Workers
      <4> QED
        BY <2>1, <3>1, <4>1, StarterNames DEF Workers
    <3> QED
      BY <3>1 DEF OneWriter
  <2>3. "waiting" \notin Steps /\ (busy' <=> "waiting" \in Steps)
    BY <2>1, <2>2, StarterNames
  <2> QED
    BY <2>1, <2>3, ThreadSteps
<1>9. ASSUME NEW s \in Starters, Write(s) PROVE OneWriter'
  <2>1. thread[s] \in Steps /\ thread[s] # "none"
    BY <1>9, StarterNames DEF Write, RemoveFile, ReplaceFile, Truncate, Overwrite
  <2>2. busy
    BY <2>1 DEF OneWriter, Workers
  <2>3. PICK step \in Steps \cup {"ready"} :
          /\ thread' = [thread EXCEPT ![s] = step] /\ writer' = writer /\ starting' = starting
          /\ (step \in Steps /\ busy' = busy) \/ (step = "ready" /\ busy' = FALSE)
    BY <1>9, StarterNames DEF Write, RemoveFile, ReplaceFile, Truncate, Overwrite, Finish, Proceed
  <2> QED
    BY <2>1, <2>2, <2>3, ThreadSteps, StarterNames
<1>10. CASE Quit
  BY <1>2, <1>10, StartsOne, StarterNames DEF Quit
<1>11. CASE Exit
  BY <1>11, StarterNames DEF Exit, OneWriter, Alive, Workers, Dead
<1>12. CASE Load
  <2>1. starting = {} /\ ~busy
    <3>1. app = "down" /\ writer # "running"
      BY <1>12 DEF Load, AllGone
    <3>2. \A s \in Starters : ~Alive(s)
      BY <3>1 DEF OneWriter
    <3>3. Workers = {}
      BY <3>2, StarterNames DEF Alive, Workers
    <3> QED
      BY <1>1, <3>2, <3>3 DEF OneWriter, Alive
  <2>2. /\ starting' = starting /\ busy' = busy
        /\ \/ thread' = Dead
           \/ thread' = [Dead EXCEPT !["load"] = "ready"] /\ writer' = "running"
    BY <1>12 DEF Load
  <2> QED
    BY <2>1, <2>2, StarterNames DEF OneWriter, Alive, Workers, Dead
<1> QED
  BY <1>3, <1>4, <1>5, <1>6, <1>7, <1>8, <1>9, <1>10, <1>11, <1>12 DEF Next

-----------------------------------------------------------------------------
(* The steps, in the groups the other parts of the invariant treat alike.  *)

\* Nothing is asked and nothing written: threads start, sleep and try the
\* next operation of a clear, waits elapse, and the app begins or stops to
\* wait for the writer.
Aside ==
  /\ UNCHANGED <<fp, failed, jobs, doing, files, asked, want>>
  /\ (app' = "down") <=> (app = "down")
  /\ (uncleared' = "no") <=> (uncleared = "no")
  /\ Workers' = Workers
  /\ \A s \in Workers : thread'[s] \in {thread[s], "replace"} \/ doing[s].save = Nothing

\* New states are asked of the files A.
Asking(A) ==
  /\ Runs /\ app' = app /\ A \subseteq Paths
  /\ want' \in [Paths -> Files(moves')] /\ \A p \in Paths \ A : want'[p] = want[p]
  /\ asked' \in [Paths -> Versions(moves')]
  /\ \A p \in Paths : asked'[p] = IF want'[p] = want[p] THEN asked[p] ELSE asked[p] + 1
  /\ jobs' \in Seq(Jobs(moves')) /\ OnePerFile(jobs')
  /\ Waiting(jobs') = {j \in Waiting(jobs) : j.path \notin A}
                       \cup {[path |-> p, save |-> want'[p], version |-> asked'[p]] : p \in A}
  /\ failed' \in Counts(moves')
  /\ "rule" \in A => want'["rule"].state = "exempt"
  /\ "record" \in A => want'["record"] = (IF failed' = 0 THEN Nothing ELSE Failure(fp, failed'))
  /\ "record" \in A => ((uncleared' = "no") <=> (failed' # 0))
  /\ "record" \notin A => failed' = failed /\ uncleared' = uncleared
  /\ UNCHANGED <<fp, doing, files>>
  /\ Workers' = Workers /\ \A s \in Workers : thread'[s] = thread[s]

\* A job is over: it has written its file's new state, or it has failed.
Ending(s, ok) ==
  /\ s \in Workers /\ Finish(s, ok)
  /\ \/ ok /\ (Lands(s, doing[s].save) \/ (doing[s].save = Nothing /\ Lands(s, NoFile)))
     \/ ~ok /\ UNCHANGED <<disk, landed>>

\* The record is torn, for a clear to overwrite it.
Tearing(s) ==
  /\ s \in Workers /\ doing[s].save = Nothing
  /\ disk' = [disk EXCEPT !["record"] = Torn]
  /\ thread' = [thread EXCEPT ![s] = "overwrite"]
  /\ UNCHANGED <<app, fp, failed, jobs, doing, busy, uncleared, landed, tried, asked, want>>

LEMMA WokenWork ==
  ASSUME TypeOK, thread' \in {thread, Woken}
  PROVE  Workers' = Workers /\ \A s \in Workers : thread'[s] = thread[s]
BY StarterNames DEF TypeOK, Woken, Workers

LEMMA AskAsks ==
  ASSUME TypeOK, QueueInv, Runs, NEW p \in Paths, NEW f, Ask(p, f),
         f \in Files(moves'), moves' \in {moves, moves + 1},
         moves' = moves => want[p] = f,
         p = "rule" => f.state = "exempt",
         p = "record" => f = (IF failed' = 0 THEN Nothing ELSE Failure(fp, failed')),
         p # "record" => failed' = failed,
         failed' \in Counts(moves'),
         UNCHANGED <<app, fp, files>>
  PROVE  Asking({p})
<1>1. /\ asked \in [Paths -> Versions(moves)] /\ want \in [Paths -> Files(moves)]
      /\ jobs \in Seq(Jobs(moves)) /\ moves \in Nat
  BY BoundAssumption DEF TypeOK
<1>2. /\ Versions(moves) \subseteq Versions(moves') /\ Files(moves) \subseteq Files(moves')
      /\ jobs \in Seq(Jobs(moves'))
  BY <1>1, BoundsGrow
<1>3. want' = [want EXCEPT ![p] = f] /\ want' \in [Paths -> Files(moves')]
  BY <1>1, <1>2 DEF Ask
<1>4. \A q \in Paths : asked'[q] = IF want'[q] = want[q] THEN asked[q] ELSE asked[q] + 1
  BY <1>1, <1>3 DEF Ask
<1>5. asked' \in [Paths -> Versions(moves')]
  BY <1>1, <1>2 DEF Ask, Versions
<1>6. /\ jobs' \in Seq(Jobs(moves')) /\ OnePerFile(jobs')
      /\ Waiting(jobs') = {j \in Waiting(jobs) : j.path # p}
                           \cup {[path |-> p, save |-> f, version |-> asked'[p]]}
  <2>1. [path |-> p, save |-> f, version |-> asked'[p]] \in Jobs(moves')
    BY <1>5 DEF Jobs
  <2>2. jobs' = Queued(jobs, p, f, asked'[p])
    BY DEF Ask
  <2> QED
    BY <1>2, <2>1, <2>2, QueuedJobs DEF QueueInv
<1>7. want'[p] = f /\ \A q \in Paths \ {p} : want'[q] = want[q]
  BY <1>1, <1>3
<1>8. p = "record" => ((uncleared' = "no") <=> (failed' # 0))
  BY FileKinds DEF Ask, UnclearedAfter
<1>9. p # "record" => p = "rule" /\ uncleared' = uncleared
  BY FileKinds DEF Ask, UnclearedAfter, Paths
<1>10. Waiting(jobs') = {j \in Waiting(jobs) : j.path \notin {p}}
                        \cup {[path |-> q, save |-> want'[q], version |-> asked'[q]] : q \in {p}}
  BY <1>6, <1>7
<1>11. Workers' = Workers /\ \A s \in Workers : thread'[s] = thread[s]
  <2>1. thread' \in {thread, Woken}
    BY DEF Ask
  <2> QED
    BY <2>1, WokenWork
<1>12. app' = app /\ UNCHANGED <<fp, doing, files>>
  BY DEF Ask
<1>13. /\ "record" \in {p} =>
             want'["record"] = (IF failed' = 0 THEN Nothing ELSE Failure(fp, failed'))
       /\ "record" \in {p} => ((uncleared' = "no") <=> (failed' # 0))
  BY <1>7, <1>8
<1>14. "record" \notin {p} => failed' = failed /\ uncleared' = uncleared
  BY <1>9
<1>15. ("rule" \in {p} => want'["rule"].state = "exempt") /\ {p} \subseteq Paths
  BY <1>7
<1>16. \A q \in Paths \ {p} : want'[q] = want[q]
  BY <1>7
<1> QED
  BY <1>3, <1>4, <1>5, <1>6, <1>10, <1>11, <1>12, <1>13, <1>14, <1>15, <1>16 DEF Asking

\* What a failure, a forgetting and the tick ask of the record.
LEMMA RecordAsked ==
  ASSUME TypeOK, SavingInv, [Next]_vars, NoteFailure \/ Forget \/ Tick
  PROVE  Asking({"record"})
<1>1. moves \in Nat /\ moves' \in {moves, moves + 1} /\ "record" \in Paths
  BY MovesGrow DEF Paths
<1>2. failed \in Counts(moves) /\ fp \in Fingerprints
  BY DEF TypeOK
<1>3. CASE NoteFailure
  <2>1. /\ Runs /\ moves' = moves + 1 /\ failed' = failed + 1
        /\ Ask("record", Failure(fp, failed + 1)) /\ UNCHANGED <<app, fp, files>>
    BY <1>3 DEF NoteFailure, Move
  <2>2. failed' \in Counts(moves') /\ failed' \in 1 .. (moves' + 1) /\ failed' # 0
    BY <1>1, <1>2, <2>1 DEF Counts
  <2>3. Failure(fp, failed + 1) \in Files(moves')
    BY <1>2, <2>1, <2>2, FailureFiles
  <2> QED
    BY <1>1, <2>1, <2>2, <2>3, AskAsks DEF SavingInv
<1>4. CASE Forget
  <2>1. /\ Runs /\ moves' = moves + 1 /\ failed' = 0
        /\ Ask("record", Nothing) /\ UNCHANGED <<app, fp, files>>
    BY <1>4 DEF Forget, Move
  <2>2. failed' \in Counts(moves') /\ Nothing \in Files(moves')
    BY <1>1, <2>1, FileKinds DEF Counts
  <2> QED
    BY <1>1, <2>1, <2>2, AskAsks DEF SavingInv
<1>5. CASE Tick
  <2>1. /\ Runs /\ uncleared = "due" /\ failed' = failed /\ moves' = moves
        /\ Ask("record", Nothing) /\ UNCHANGED <<app, fp, files>>
    BY <1>5 DEF Tick, ClearAgain, decided
  <2>2. want["record"] = Nothing /\ failed = 0
    BY <2>1, FileKinds DEF SavingInv, Known, Runs
  <2>3. failed' = 0 /\ failed' \in Counts(moves') /\ Nothing \in Files(moves')
    BY <1>1, <2>1, <2>2, FileKinds DEF Counts
  <2> QED
    BY <1>1, <2>1, <2>2, <2>3, AskAsks DEF SavingInv
<1> QED
  BY <1>3, <1>4, <1>5

\* A picture asks for the override, for the clear, for both or for neither.
LEMMA SucceedAsks ==
  ASSUME TypeOK, SavingInv, [Next]_vars, Succeed
  PROVE  \E A \in SUBSET Paths : Asking(A)
<1> DEFINE clears == failed # 0 \/ uncleared # "no"
           exempts == ~rule.exempt
           saved == Exempt(CardsOf(fp))
           two == IF exempts THEN Queued(jobs, "rule", saved, asked'["rule"]) ELSE jobs
           asks(p) == IF p = "rule" THEN exempts ELSE clears
           state(p) == IF p = "rule" THEN saved ELSE Nothing
           A == {p \in Paths : asks(p)}
           jobOf(p) == [path |-> p, save |-> state(p), version |-> asked'[p]]
<1>1. /\ Runs /\ moves \in Nat /\ moves' = moves + 1 /\ failed' = 0 /\ UNCHANGED <<app, fp, doing, files>>
      /\ want' = [p \in Paths |-> IF asks(p) THEN state(p) ELSE want[p]]
      /\ asked' = [p \in Paths |-> IF want'[p] = want[p] THEN asked[p] ELSE asked[p] + 1]
      /\ jobs' = IF clears THEN Queued(two, "record", Nothing, asked'["record"]) ELSE two
      /\ uncleared' = IF clears THEN "fresh" ELSE uncleared
      /\ thread' \in {thread, Woken}
  BY MovesGrow DEF Succeed, Move
<1>2. /\ asked \in [Paths -> Versions(moves)] /\ want \in [Paths -> Files(moves)]
      /\ jobs \in Seq(Jobs(moves)) /\ OnePerFile(jobs)
  BY DEF TypeOK, SavingInv, QueueInv
<1>3. /\ Files(moves) \subseteq Files(moves') /\ jobs \in Seq(Jobs(moves'))
  BY <1>1, <1>2, BoundsGrow
<1>4. Paths = {"record", "rule"} /\ \A p \in Paths : state(p) \in Files(moves')
  <2>1. saved \in Files(moves')
    BY OverrideFiles, FileKinds DEF TypeOK
  <2> HIDE DEF saved
  <2> QED
    BY <2>1, FileKinds DEF Paths
<1>5. want' \in [Paths -> Files(moves')] /\ \A p \in A : want'[p] = state(p)
  BY <1>1, <1>2, <1>3, <1>4
<1>6. \A p \in Paths \ A : want'[p] = want[p]
  BY <1>1
<1>7. asked' \in [Paths -> Versions(moves')]
  BY <1>1, <1>2 DEF Versions
<1>8. \A p \in Paths : asked'[p] = IF want'[p] = want[p] THEN asked[p] ELSE asked[p] + 1
  BY <1>1
<1>9. \A p \in Paths : jobOf(p) \in Jobs(moves') /\ jobOf(p).path = p
  BY <1>4, <1>7 DEF Jobs
<1>10. /\ two \in Seq(Jobs(moves')) /\ OnePerFile(two)
       /\ Waiting(two) = IF exempts THEN {j \in Waiting(jobs) : j.path # "rule"} \cup {jobOf("rule")}
                         ELSE Waiting(jobs)
  <2>1. CASE exempts
    <3>1. jobOf("rule") = [path |-> "rule", save |-> saved, version |-> asked'["rule"]]
      OBVIOUS
    <3>2. jobOf("rule") \in Jobs(moves')
      BY <1>4, <1>9
    <3>3. two = Queued(jobs, "rule", saved, asked'["rule"])
      BY <2>1
    <3> HIDE DEF two, jobOf
    <3> QED
      BY <1>2, <1>3, <2>1, <3>1, <3>2, <3>3, QueuedJobs
  <2>2. CASE ~exempts
    BY <1>2, <1>3, <2>2
  <2> QED
    BY <2>1, <2>2
<1> HIDE DEF two
<1>11. /\ jobs' \in Seq(Jobs(moves')) /\ OnePerFile(jobs')
       /\ Waiting(jobs') = IF clears THEN {j \in Waiting(two) : j.path # "record"} \cup {jobOf("record")}
                           ELSE Waiting(two)
  <2>1. CASE clears
    <3>1. jobOf("record") = [path |-> "record", save |-> Nothing, version |-> asked'["record"]]
      OBVIOUS
    <3>2. jobOf("record") \in Jobs(moves')
      BY <1>4, <1>9
    <3>3. jobs' = Queued(two, "record", Nothing, asked'["record"])
      BY <1>1, <2>1
    <3> HIDE DEF jobOf
    <3>4. [path |-> "record", save |-> Nothing, version |-> asked'["record"]] \in Jobs(moves')
      BY <3>1, <3>2
    <3>5. /\ jobs' \in Seq(Jobs(moves')) /\ OnePerFile(jobs')
          /\ Waiting(jobs') = {j \in Waiting(two) : j.path # "record"} \cup
               {[path |-> "record", save |-> Nothing, version |-> asked'["record"]]}
      BY <1>10, <3>3, <3>4, QueuedJobs
    <3> QED
      BY <2>1, <3>1, <3>5
  <2>2. CASE ~clears
    BY <1>1, <1>10, <2>2
  <2> QED
    BY <2>1, <2>2
<1>12. Waiting(jobs') = {j \in Waiting(jobs) : j.path \notin A}
                        \cup {[path |-> p, save |-> want'[p], version |-> asked'[p]] : p \in A}
  <2>1. \A p \in A : [path |-> p, save |-> want'[p], version |-> asked'[p]] = jobOf(p)
    BY <1>5
  <2>2. \A j \in Waiting(jobs) : j.path \in Paths
    <3>1. Waiting(jobs) \subseteq Jobs(moves)
      BY <1>2, WaitingJobs
    <3> QED
      BY <3>1 DEF Jobs
  <2> HIDE DEF jobOf
  <2>3. Waiting(jobs') = {j \in Waiting(jobs) : j.path \notin A} \cup {jobOf(p) : p \in A}
    BY <1>4, <1>9, <1>10, <1>11, <2>2
  <2> QED
    BY <2>1, <2>3
<1>13. /\ "rule" \in A => want'["rule"].state = "exempt"
       /\ "record" \in A => want'["record"] = Nothing /\ uncleared' = "fresh"
       /\ "record" \notin A => failed = 0 /\ uncleared' = uncleared
  BY <1>1, <1>4, <1>5, FileKinds
<1>14. failed' \in Counts(moves')
  BY <1>1 DEF Counts
<1>15. Workers' = Workers /\ \A s \in Workers : thread'[s] = thread[s]
  BY <1>1, WokenWork
<1> HIDE DEF A
<1>16. Asking(A) /\ A \subseteq Paths
  BY <1>1, <1>5, <1>6, <1>7, <1>8, <1>11, <1>12, <1>13, <1>14, <1>15 DEF Asking, A
<1> QED
  BY <1>16

\* An operation on a file ends its job, tears the record or leads to the next.
LEMMA WriteGroups ==
  ASSUME TypeOK, SavingInv, NEW s \in Starters, Write(s)
  PROVE  Aside \/ Tearing(s) \/ \E ok \in BOOLEAN : Ending(s, ok)
<1>1. thread \in [Starters -> {"none", "ready", "waiting"} \cup Steps]
  BY DEF TypeOK
<1>2. thread[s] \in Steps /\ s \in Workers
  BY StarterNames DEF Write, RemoveFile, ReplaceFile, Truncate, Overwrite, Workers
<1>3. thread[s] # "replace" => doing[s].save = Nothing
  BY <1>2 DEF SavingInv, WorkInv
<1>4. ASSUME NEW step \in Steps, Proceed(s, step), step = "replace" \/ doing[s].save = Nothing
      PROVE  Aside
  <2>1. /\ thread' = [thread EXCEPT ![s] = step]
        /\ UNCHANGED <<app, fp, failed, jobs, doing, uncleared, files, asked, want>>
    BY <1>4 DEF Proceed, decided
  <2>2. \A t \in Starters : thread'[t] = IF t = s THEN step ELSE thread[t]
    BY <1>1, <2>1
  <2>3. Workers' = Workers
    BY <1>2, <2>2 DEF Workers
  <2>4. \A t \in Workers : thread'[t] \in {thread[t], "replace"} \/ doing[t].save = Nothing
    BY <1>4, <2>2 DEF Workers
  <2> QED
    BY <2>1, <2>3, <2>4 DEF Aside
<1>5. CASE RemoveFile(s)
  <2>1. CASE Proceed(s, "replace")
    BY <1>4, <2>1, StarterNames
  <2>2. CASE Lands(s, NoFile) /\ Finish(s, TRUE)
    <3>1. doing[s].save = Nothing
      BY <1>3, <1>5, StarterNames DEF RemoveFile
    <3>2. Ending(s, TRUE)
      BY <1>2, <2>2, <3>1 DEF Ending
    <3> QED
      BY <3>2
  <2> QED
    BY <1>5, <2>1, <2>2 DEF RemoveFile
<1>6. CASE ReplaceFile(s)
  <2>1. CASE Proceed(s, "truncate") /\ doing[s].save = Nothing
    BY <1>4, <2>1, StarterNames
  <2>2. CASE Lands(s, doing[s].save) /\ Finish(s, TRUE)
    BY <1>2, <2>2 DEF Ending
  <2>3. CASE Finish(s, FALSE) /\ UNCHANGED <<disk, landed>>
    BY <1>2, <2>3 DEF Ending
  <2> QED
    BY <1>6, <2>1, <2>2, <2>3 DEF ReplaceFile
<1>7. CASE Truncate(s)
  <2>1. CASE Finish(s, FALSE) /\ UNCHANGED <<disk, landed>>
    BY <1>2, <2>1 DEF Ending
  <2>2. CASE /\ disk' = [disk EXCEPT !["record"] = Torn]
             /\ thread' = [thread EXCEPT ![s] = "overwrite"]
             /\ UNCHANGED <<app, decided, jobs, writer, due, starting, doing, busy, uncleared,
                            landed, tried, held, asked, want, moves>>
    BY <1>2, <1>3, <1>7, <2>2 DEF Tearing, Truncate, decided
  <2> QED
    BY <1>7, <2>1, <2>2 DEF Truncate
<1>8. CASE Overwrite(s)
  <2>1. CASE Lands(s, Nothing) /\ Finish(s, TRUE)
    <3>1. doing[s].save = Nothing
      BY <1>3, <1>8 DEF Overwrite
    <3>2. Lands(s, doing[s].save)
      BY <2>1, <3>1 DEF Lands
    <3>3. Ending(s, TRUE)
      BY <1>2, <2>1, <3>2 DEF Ending
    <3> QED
      BY <3>3
  <2>2. CASE Finish(s, FALSE) /\ UNCHANGED <<disk, landed>>
    BY <1>2, <2>2 DEF Ending
  <2> QED
    BY <1>8, <2>1, <2>2 DEF Overwrite
<1> QED
  BY <1>5, <1>6, <1>7, <1>8 DEF Write

LEMMA StepGroups ==
  ASSUME TypeOK, SavingInv, [Next]_vars
  PROVE  \/ Aside
         \/ \E A \in SUBSET Paths : Asking(A)
         \/ \E s \in Starters : Take(s) \/ Tearing(s) \/ \E ok \in BOOLEAN : Ending(s, ok)
         \/ Exit \/ Load
<1>1. thread \in [Starters -> {"none", "ready", "waiting"} \cup Steps] /\ Retriers \subseteq Starters
  BY StarterNames DEF TypeOK
<1>2. ASSUME UNCHANGED <<fp, failed, jobs, doing, files, asked, want>>,
             thread' = thread,
             (app' = "down") <=> (app = "down"), (uncleared' = "no") <=> (uncleared = "no")
      PROVE  Aside
  <2>1. Workers' = Workers /\ \A s \in Workers : thread'[s] = thread[s]
    BY <1>2 DEF Workers
  <2> QED
    BY <1>2, <2>1 DEF Aside
<1>3. CASE NoteFailure \/ Forget \/ Tick
  BY <1>3, RecordAsked DEF Paths
<1>4. CASE Succeed
  BY <1>4, SucceedAsks
<1>5. CASE Wait
  BY <1>2, <1>5 DEF Wait, decided
<1>6. ASSUME NEW s \in Retriers, RetryDue(s) \/ RetryStart(s) PROVE Aside
  BY <1>2, <1>6 DEF RetryDue, RetryStart, decided
<1>7. ASSUME NEW s \in Starters, SpawnFails(s) PROVE Aside
  BY <1>2, <1>7 DEF SpawnFails, decided
<1>8. ASSUME NEW s \in Starters, SpawnOk(s) \/ Sleep(s) PROVE Aside
  <2>1. PICK step \in {"ready", "waiting"} : thread' = [thread EXCEPT ![s] = step]
    BY <1>8 DEF SpawnOk, Sleep
  <2>2. thread[s] \notin Steps /\ step \notin Steps
    BY <1>8, StarterNames DEF SpawnOk, Sleep
  <2>3. Workers' = Workers /\ \A t \in Workers : thread'[t] = thread[t]
    BY <1>1, <2>1, <2>2 DEF Workers
  <2>4. UNCHANGED <<app, fp, failed, jobs, doing, uncleared, files, asked, want>>
    BY <1>8 DEF SpawnOk, Sleep, decided
  <2> QED
    BY <2>3, <2>4 DEF Aside
<1>9. CASE Quit
  BY <1>2, <1>9 DEF Quit, decided
<1>10. CASE FlushEnds
  BY <1>2, <1>10 DEF FlushEnds, decided, saving
<1>11. CASE Hold \/ UNCHANGED vars
  BY <1>2, <1>11 DEF Hold, vars, decided, saving
<1> QED
  BY <1>3, <1>4, <1>5, <1>6, <1>7, <1>8, <1>9, <1>10, <1>11, WriteGroups DEF Next

\* The app starts: either a rule that is lifted forgets the failure that was
\* read, which asks for a clear, or the memory takes the files as they are.
LEMMA LoadReads ==
  ASSUME TypeOK, SavingInv, [Next]_vars, Load
  PROVE  /\ app = "down" /\ app' = "up" /\ moves \in Nat /\ moves' = moves + 1
         /\ fp' \in Fingerprints /\ doing' = doing /\ due' = due /\ Workers' = {}
         /\ disk' \in [Paths -> Files(moves)] /\ landed' = asked /\ tried' = asked
         /\ \/ /\ failed' = 0 /\ uncleared' = "fresh"
               /\ want' = [disk EXCEPT !["record"] = Nothing]
               /\ asked' = [asked EXCEPT !["record"] = @ + 1]
               /\ jobs' = <<[path |-> "record", save |-> Nothing, version |-> asked'["record"]]>>
            \/ /\ want' = disk' /\ asked' = asked /\ jobs' = << >> /\ uncleared' = "no"
               /\ failed' \in Counts(moves)
               /\ failed' # 0 => disk'["record"] = Failure(fp', failed')
               /\ failed' = 0 => ~(disk'["record"].state = "failure" /\ disk'["record"].fp = fp')
<1>1. disk \in [Paths -> Files(moves)] /\ "record" \in Paths /\ moves \in Nat
  BY BoundAssumption DEF TypeOK, Paths
<1>2. PICK f \in Fingerprints, lifted \in BOOLEAN, drops \in BOOLEAN :
        /\ fp' = f
        /\ lifted => Loaded(f) # 0
        /\ drops => Loaded(f) = 0
        /\ failed' = IF lifted THEN 0 ELSE Loaded(f)
        /\ disk' = IF drops THEN [disk EXCEPT !["record"] = NoFile] ELSE disk
        /\ want' = IF lifted THEN [disk EXCEPT !["record"] = Nothing] ELSE disk'
        /\ asked' = IF lifted THEN [asked EXCEPT !["record"] = @ + 1] ELSE asked
        /\ jobs' = IF lifted
                   THEN <<[path |-> "record", save |-> Nothing, version |-> asked'["record"]]>>
                   ELSE << >>
        /\ uncleared' = IF lifted THEN "fresh" ELSE "no"
  <2>1. PICK f \in Fingerprints, matched \in BOOLEAN, spawned \in BOOLEAN, forRule \in BOOLEAN :
          LET exempt == disk["rule"] = Exempt(CardsOf(f))
              lifted == forRule /\ Loaded(f) # 0 /\ (~matched \/ exempt)
              drops == disk["record"] \notin {NoFile, Nothing} /\ Loaded(f) = 0 /\ held = "free"
          IN /\ fp' = f
             /\ failed' = IF lifted THEN 0 ELSE Loaded(f)
             /\ disk' = IF drops THEN [disk EXCEPT !["record"] = NoFile] ELSE disk
             /\ want' = IF lifted THEN [disk EXCEPT !["record"] = Nothing] ELSE disk'
             /\ asked' = IF lifted THEN [asked EXCEPT !["record"] = @ + 1] ELSE asked
             /\ jobs' = IF lifted THEN <<[path |-> "record", save |-> Nothing,
                                          version |-> asked'["record"]]>>
                        ELSE << >>
             /\ uncleared' = IF lifted THEN "fresh" ELSE "no"
    BY DEF Load
  <2> DEFINE lifted == forRule /\ Loaded(f) # 0 /\ (~matched \/ disk["rule"] = Exempt(CardsOf(f)))
             drops == disk["record"] \notin {NoFile, Nothing} /\ Loaded(f) = 0 /\ held = "free"
  <2>2. lifted \in BOOLEAN /\ drops \in BOOLEAN
    OBVIOUS
  <2>3. (lifted => Loaded(f) # 0) /\ (drops => Loaded(f) = 0)
    OBVIOUS
  <2>4. /\ fp' = f
        /\ failed' = IF lifted THEN 0 ELSE Loaded(f)
        /\ disk' = IF drops THEN [disk EXCEPT !["record"] = NoFile] ELSE disk
        /\ want' = IF lifted THEN [disk EXCEPT !["record"] = Nothing] ELSE disk'
        /\ asked' = IF lifted THEN [asked EXCEPT !["record"] = @ + 1] ELSE asked
        /\ jobs' = IF lifted THEN <<[path |-> "record", save |-> Nothing,
                                     version |-> asked'["record"]]>>
                   ELSE << >>
        /\ uncleared' = IF lifted THEN "fresh" ELSE "no"
    BY <2>1
  <2> HIDE DEF lifted, drops
  <2> QED
    BY <2>2, <2>3, <2>4
<1>3. /\ Loaded(f) \in Counts(moves)
      /\ Loaded(f) # 0 => disk["record"] = Failure(f, Loaded(f))
      /\ Loaded(f) = 0 => ~(disk["record"].state = "failure" /\ disk["record"].fp = f)
  <2>1. CASE disk["record"].state = "failure" /\ disk["record"].fp = f
    <3>1. disk["record"] = Failure(f, disk["record"].n) /\ disk["record"].n \in 1 .. (moves + 1)
      BY <1>1, <2>1, FailureFiles
    <3> QED
      BY <1>1, <2>1, <3>1 DEF Loaded, Counts
  <2>2. CASE ~(disk["record"].state = "failure" /\ disk["record"].fp = f)
    BY <1>1, <2>2 DEF Loaded, Counts
  <2> QED
    BY <2>1, <2>2
<1>4. /\ app = "down" /\ app' = "up" /\ moves' = moves + 1 /\ doing' = doing /\ due' = due
      /\ landed' = asked /\ tried' = asked
  BY DEF Load, Move
<1>5. Workers' = {}
  <2>1. thread' = Dead \/ thread' = [Dead EXCEPT !["load"] = "ready"]
    BY DEF Load
  <2> QED
    BY <2>1, StarterNames DEF Workers, Dead
<1>6. disk' \in [Paths -> Files(moves)]
  BY <1>1, <1>2, FileKinds
<1>7. CASE lifted
  BY <1>1, <1>2, <1>4, <1>5, <1>6, <1>7
<1>8. CASE ~lifted
  <2>1. /\ want' = disk' /\ asked' = asked /\ jobs' = << >> /\ uncleared' = "no"
        /\ failed' = Loaded(f) /\ failed' \in Counts(moves)
    BY <1>2, <1>3, <1>8
  <2>2. failed' # 0 => disk' = disk /\ disk'["record"] = Failure(fp', failed')
    BY <1>2, <1>3, <2>1
  <2>3. failed' = 0 => ~(disk'["record"].state = "failure" /\ disk'["record"].fp = fp')
    BY <1>1, <1>2, <1>3, <2>1, FileKinds
  <2> QED
    BY <1>1, <1>2, <1>4, <1>5, <1>6, <2>1, <2>2, <2>3
<1> QED
  BY <1>7, <1>8

-----------------------------------------------------------------------------
(* Type correctness, by the groups.                                        *)

LEMMA ControlKept == ASSUME TypeOK, SavingInv, [Next]_vars PROVE ControlType'
<1>1. ControlType /\ moves' \in 0 .. MaxMoves
  BY TypeParts, MovesGrow
<1>2. ASSUME NEW a, Ask("record", a)
      PROVE  /\ UNCHANGED <<writer, due, starting, busy>>
             /\ uncleared' \in {"no", "fresh", "due"} /\ thread' = Woken
  BY <1>1, <1>2 DEF Ask, UnclearedAfter, ControlType
<1>3. Woken \in [Starters -> {"none", "ready", "waiting"} \cup Steps]
  BY <1>1 DEF Woken, ControlType
<1>4. CASE NoteFailure
  BY <1>1, <1>2, <1>3, <1>4 DEF NoteFailure, ControlType
<1>5. CASE Forget \/ Tick
  BY <1>1, <1>2, <1>3, <1>5 DEF Forget, Tick, decided, ControlType
<1>6. CASE Succeed
  BY <1>1, <1>3, <1>6 DEF Succeed, ControlType
<1>7. CASE Wait \/ FlushEnds \/ Hold \/ UNCHANGED vars
  BY <1>1, <1>7 DEF Wait, FlushEnds, Hold, vars, decided, saving, ControlType
<1>8. ASSUME NEW s \in Starters, Starts(s) PROVE writer' \in {"stopped", "running", "failed"} /\ starting' \in SUBSET Starters
  BY <1>1, <1>8 DEF Starts, ControlType
<1>9. ASSUME NEW s \in Retriers, RetryDue(s) \/ RetryStart(s) PROVE ControlType'
  BY <1>1, <1>8, <1>9, StarterNames DEF RetryDue, RetryStart, decided, ControlType
<1>10. ASSUME NEW s \in Starters, SpawnOk(s) \/ SpawnFails(s) \/ Sleep(s) PROVE ControlType'
  BY <1>1, <1>10 DEF SpawnOk, SpawnFails, Sleep, decided, ControlType
<1>11. ASSUME NEW s \in Starters, Take(s) PROVE ControlType'
  BY <1>1, <1>11, StarterNames DEF Take, decided, ControlType
<1>12. ASSUME NEW s \in Starters, Write(s) PROVE ControlType'
  <2>1. CASE Proceed(s, "replace") \/ Proceed(s, "truncate")
    BY <1>1, <2>1, StarterNames DEF Proceed, decided, ControlType
  <2>2. CASE \E ok \in BOOLEAN : Finish(s, ok)
    BY <1>1, <2>2 DEF Finish, Finished, decided, ControlType
  <2>3. CASE Truncate(s)
    BY <1>1, <2>2, <2>3, StarterNames, ZenonT(60) DEF Truncate, decided, ControlType
  <2> QED
    BY <1>12, <2>1, <2>2, <2>3 DEF Write, RemoveFile, ReplaceFile, Overwrite
<1>13. CASE Quit
  BY <1>1, <1>8, <1>13, StarterNames DEF Quit, decided, ControlType
<1>14. CASE Exit
  BY <1>1, <1>14 DEF Exit, Dead, ControlType
<1>15. CASE Load
  BY <1>1, <1>15, StarterNames DEF Load, Dead, ControlType
<1> QED
  BY <1>4, <1>5, <1>6, <1>7, <1>9, <1>10, <1>11, <1>12, <1>13, <1>14, <1>15 DEF Next

LEMMA SavedKept == ASSUME TypeOK, SavingInv, [Next]_vars PROVE SavedType(moves)'
<1>1. /\ moves \in Nat /\ moves' \in Nat /\ moves' \in {moves, moves + 1}
      /\ SavedType(moves) /\ SavedType(moves')
  BY MovesGrow, TypeParts, SavedGrows
<1>2. /\ Jobs(moves) \subseteq Jobs(moves') /\ Versions(moves) \subseteq Versions(moves')
      /\ Files(moves) \subseteq Files(moves') /\ Counts(moves) \subseteq Counts(moves')
  BY <1>1, BoundsGrow
<1>3. CASE Aside
  BY <1>1, <1>3 DEF SavedType, Aside, files
<1>4. ASSUME NEW A \in SUBSET Paths, Asking(A) PROVE SavedType(moves)'
  BY <1>1, <1>4 DEF SavedType, Asking, files
<1>5. ASSUME NEW s \in Starters, Take(s) PROVE SavedType(moves)'
  <2>1. /\ jobs # << >> /\ jobs' = Tail(jobs) /\ doing' = [doing EXCEPT ![s] = Head(jobs)]
        /\ UNCHANGED <<failed, disk, want, asked, landed, tried>>
    BY <1>5 DEF Take, decided, files
  <2>2. Head(jobs) \in Jobs(moves') /\ Tail(jobs) \in Seq(Jobs(moves'))
    BY <1>1, <2>1, TakenJobs DEF SavedType, SavingInv, QueueInv
  <2> QED
    BY <1>1, <2>1, <2>2 DEF SavedType
<1>6. ASSUME NEW s \in Starters, Tearing(s) PROVE SavedType(moves)'
  BY <1>1, <1>6, FileKinds DEF SavedType, Tearing
<1>7. ASSUME NEW s \in Starters, NEW ok \in BOOLEAN, Ending(s, ok) PROVE SavedType(moves)'
  <2>1. doing[s] \in Jobs(moves)
    BY <1>7 DEF Ending, SavingInv, WorkInv
  <2>2. doing[s].path \in Paths /\ doing[s].save \in Files(moves') /\ doing[s].version \in Versions(moves')
    BY <1>2, <2>1 DEF Jobs
  <2>3. /\ UNCHANGED <<failed, jobs, want, asked>> /\ doing' = [doing EXCEPT ![s] = NoFile]
        /\ tried' = [tried EXCEPT ![doing[s].path] = doing[s].version]
    BY <1>7 DEF Ending, Finish, decided
  <2>4. disk' \in [Paths -> Files(moves')] /\ landed' \in [Paths -> Versions(moves')]
    BY <1>1, <1>7, <2>2, FileKinds DEF Ending, Lands, SavedType
  <2> QED
    BY <1>1, <2>2, <2>3, <2>4 DEF SavedType
<1>8. CASE Exit
  <2>1. /\ failed' = 0 /\ jobs' = << >> /\ doing' = [t \in Starters |-> NoFile]
        /\ UNCHANGED <<disk, landed, tried, asked, want>>
    BY <1>8 DEF Exit, files
  <2>2. 0 \in Counts(moves')
    <3>1. \A m \in Nat : 0 \in Counts(m)
      BY DEF Counts
    <3> QED
      BY <1>1, <3>1
  <2>3. << >> \in Seq(Jobs(moves'))
    OBVIOUS
  <2> QED
    BY <1>1, <2>1, <2>2, <2>3 DEF SavedType
<1>9. CASE Load
  <2>1. PICK lifted \in BOOLEAN :
          /\ want' = IF lifted THEN [disk EXCEPT !["record"] = Nothing] ELSE disk'
          /\ asked' = IF lifted THEN [asked EXCEPT !["record"] = @ + 1] ELSE asked
          /\ jobs' = IF lifted
                     THEN <<[path |-> "record", save |-> Nothing, version |-> asked'["record"]]>>
                     ELSE << >>
    BY <1>9, LoadReads
  <2>2. /\ moves' = moves + 1 /\ doing' = doing /\ disk' \in [Paths -> Files(moves')]
        /\ landed' = asked /\ tried' = asked /\ failed' \in Counts(moves')
    BY <1>1, <1>2, <1>9, LoadReads DEF Counts
  <2>3. "record" \in Paths /\ Nothing \in Files(moves') /\ << >> \in Seq(Jobs(moves'))
    BY FileKinds DEF Paths
  <2>4. want' \in [Paths -> Files(moves')]
    BY <1>1, <2>1, <2>2, <2>3 DEF SavedType
  <2>5. asked' \in [Paths -> Versions(moves')]
    <3>1. asked \in [Paths -> 0 .. moves]
      BY <1>1 DEF SavedType, Versions
    <3>2. asked' \in [Paths -> 0 .. (moves + 1)]
      BY <1>1, <2>1, <2>3, <3>1
    <3> QED
      BY <2>2, <3>2 DEF Versions
  <2>6. [path |-> "record", save |-> Nothing, version |-> asked'["record"]] \in Jobs(moves')
    BY <2>3, <2>5 DEF Jobs
  <2>7. jobs' \in Seq(Jobs(moves'))
    BY <2>1, <2>3, <2>6
  <2> QED
    BY <1>1, <2>2, <2>4, <2>5, <2>7 DEF SavedType
<1> QED
  BY <1>3, <1>4, <1>5, <1>6, <1>7, <1>8, <1>9, StepGroups

LEMMA StepType == ASSUME TypeOK, SavingInv, [Next]_vars PROVE TypeOK'
BY ControlKept, SavedKept, TypeParts

-----------------------------------------------------------------------------
(* Each part of the invariant is kept.                                     *)

LEMMA StepAllGone == ASSUME TypeOK, SavingInv, [Next]_vars PROVE AllGone'
<1>1. CASE Exit
  BY <1>1 DEF Exit, AllGone
<1>2. CASE app # "down"
  <2>1. CASE ~Exit
    <3>1. app' # "down"
      BY <1>2, <2>1 DEF Next, vars, NoteFailure, Forget, Succeed, Tick, Wait, RetryDue, RetryStart,
         SpawnOk, SpawnFails, Take, Sleep, Write, RemoveFile, ReplaceFile, Truncate, Overwrite,
         Finish, Proceed, Quit, FlushEnds, Load, Hold
    <3> QED
      BY <3>1 DEF AllGone
  <2> QED
    BY <1>1, <2>1
<1>3. CASE app = "down" /\ ~Exit
  <2>1. /\ jobs = << >> /\ due = {} /\ writer = "stopped" /\ ~Runs
        /\ \A s \in Starters : s \notin starting /\ thread[s] = "none"
    BY <1>3 DEF SavingInv, AllGone, OneWriter, Alive, Runs
  <2>2. CASE Load
    BY <2>2 DEF Load, AllGone
  <2>3. CASE Hold \/ UNCHANGED vars
    BY <2>1, <2>3 DEF Hold, AllGone, vars, saving
  <2>4. ~(NoteFailure \/ Forget \/ Succeed \/ Tick \/ Wait \/ Quit \/ FlushEnds)
    BY <1>3, <2>1 DEF NoteFailure, Forget, Succeed, Tick, Wait, Quit, FlushEnds
  <2>5. \A s \in Retriers : ~(RetryDue(s) \/ RetryStart(s))
    BY <1>3, <2>1 DEF RetryDue, RetryStart
  <2>6. \A s \in Starters : ~(SpawnOk(s) \/ SpawnFails(s) \/ Take(s) \/ Sleep(s) \/ Write(s))
    BY <2>1 DEF SpawnOk, SpawnFails, Take, Sleep, Write, RemoveFile, ReplaceFile, Truncate, Overwrite
  <2> QED
    BY <1>3, <2>2, <2>3, <2>4, <2>5, <2>6 DEF Next
<1> QED
  BY <1>1, <1>2, <1>3

\* The one writer has a job under way, or takes one.
LEMMA SoleWorker ==
  ASSUME SavingInv, NEW s \in Starters, thread[s] # "none"
  PROVE  /\ Workers \subseteq {s}
         /\ thread[s] \notin Steps => Workers = {}
BY StarterNames DEF SavingInv, OneWriter, Alive, Workers

LEMMA TakeTakes ==
  ASSUME TypeOK, SavingInv, NEW s \in Starters, Take(s)
  PROVE  /\ Workers = {} /\ Workers' = {s}
         /\ Head(jobs) \in Jobs(moves) /\ Head(jobs) \in Waiting(jobs) /\ doing'[s] = Head(jobs)
         /\ OnePerFile(jobs') /\ Waiting(jobs') = Waiting(jobs) \ {Head(jobs)}
         /\ thread'[s] = "replace" \/ Head(jobs).save = Nothing
         /\ UNCHANGED <<app, fp, failed, uncleared, files, asked, want, moves>>
<1>1. /\ jobs \in Seq(Jobs(moves)) /\ OnePerFile(jobs)
      /\ thread \in [Starters -> {"none", "ready", "waiting"} \cup Steps]
      /\ doing \in [Starters -> Jobs(moves) \cup {NoFile}]
  BY DEF TypeOK, SavingInv, QueueInv
<1>2. /\ thread[s] = "ready" /\ jobs # << >> /\ jobs' = Tail(jobs)
      /\ doing' = [doing EXCEPT ![s] = Head(jobs)]
      /\ thread' = [thread EXCEPT ![s] = IF Head(jobs).save = Nothing THEN "remove" ELSE "replace"]
      /\ UNCHANGED <<app, fp, failed, uncleared, files, asked, want, moves>>
  BY DEF Take, decided
<1>3. /\ Head(jobs) \in Jobs(moves) /\ Head(jobs) \in Waiting(jobs)
      /\ OnePerFile(jobs') /\ Waiting(jobs') = Waiting(jobs) \ {Head(jobs)}
  BY <1>1, <1>2, TakenJobs
<1>4. Workers = {}
  BY <1>2, SoleWorker, StarterNames
<1>5. \A t \in Starters :
        thread'[t] = IF t = s THEN IF Head(jobs).save = Nothing THEN "remove" ELSE "replace"
                     ELSE thread[t]
  BY <1>1, <1>2
<1>6. Workers' = {s}
  BY <1>4, <1>5, StarterNames DEF Workers
<1> QED
  BY <1>1, <1>2, <1>3, <1>4, <1>5, <1>6

LEMMA TearingTears ==
  ASSUME TypeOK, SavingInv, NEW s \in Starters, Tearing(s)
  PROVE  /\ Workers = {s} /\ Workers' = {s}
         /\ doing[s] \in Jobs(moves) /\ doing[s].save = Nothing /\ doing[s].path = "record"
<1>1. /\ thread \in [Starters -> {"none", "ready", "waiting"} \cup Steps] /\ s \in Workers
      /\ thread' = [thread EXCEPT ![s] = "overwrite"] /\ doing[s].save = Nothing
  BY DEF TypeOK, Tearing
<1>2. Workers = {s}
  BY <1>1, SoleWorker, StarterNames DEF Workers
<1>3. \A t \in Starters : thread'[t] = IF t = s THEN "overwrite" ELSE thread[t]
  BY <1>1
<1>4. Workers' = {s}
  BY <1>2, <1>3, StarterNames DEF Workers
<1>5. doing[s] \in Jobs(moves) /\ (doing[s].path = "rule" => doing[s].save.state = "exempt")
  BY <1>1 DEF SavingInv, WorkInv, JobSound
<1>6. doing[s].path = "record"
  BY <1>1, <1>5, FileKinds DEF Jobs, Paths
<1> QED
  BY <1>1, <1>2, <1>4, <1>5, <1>6

LEMMA EndingEnds ==
  ASSUME TypeOK, SavingInv, NEW s \in Starters, NEW ok \in BOOLEAN, Ending(s, ok)
  PROVE  /\ Workers = {s} /\ Workers' = {}
         /\ doing[s] \in Jobs(moves) /\ JobSound(doing[s])
         /\ tried[doing[s].path] <= doing[s].version
         /\ \A p \in Paths : tried'[p] = IF p = doing[s].path THEN doing[s].version ELSE tried[p]
         /\ \A p \in Paths \ {doing[s].path} : disk'[p] = disk[p] /\ landed'[p] = landed[p]
         /\ \/ /\ ok /\ landed'[doing[s].path] = doing[s].version
               /\ \/ disk'[doing[s].path] = doing[s].save
                  \/ disk'[doing[s].path] = NoFile /\ doing[s].save = Nothing
            \/ ~ok /\ disk'[doing[s].path] = disk[doing[s].path]
                   /\ landed'[doing[s].path] = landed[doing[s].path]
         /\ uncleared' = Finished(doing[s], ok)
         /\ UNCHANGED <<app, fp, failed, jobs, asked, want, moves>>
<1>1. /\ thread \in [Starters -> {"none", "ready", "waiting"} \cup Steps]
      /\ disk \in [Paths -> Files(moves)]
      /\ landed \in [Paths -> Versions(moves)] /\ tried \in [Paths -> Versions(moves)]
  BY DEF TypeOK
<1>2. /\ s \in Workers /\ thread' = [thread EXCEPT ![s] = "ready"]
      /\ tried' = [tried EXCEPT ![doing[s].path] = doing[s].version]
      /\ uncleared' = Finished(doing[s], ok)
      /\ UNCHANGED <<app, fp, failed, jobs, asked, want, moves>>
  BY DEF Ending, Finish, decided
<1>3. Workers = {s}
  BY <1>2, SoleWorker, StarterNames DEF Workers
<1>4. \A t \in Starters : thread'[t] = IF t = s THEN "ready" ELSE thread[t]
  BY <1>1, <1>2
<1>5. Workers' = {}
  BY <1>3, <1>4, StarterNames DEF Workers
<1>6. /\ doing[s] \in Jobs(moves) /\ JobSound(doing[s])
      /\ tried[doing[s].path] <= doing[s].version
  BY <1>2 DEF SavingInv, WorkInv
<1>7. doing[s].path \in Paths
  BY <1>6 DEF Jobs
<1>8. \A p \in Paths : tried'[p] = IF p = doing[s].path THEN doing[s].version ELSE tried[p]
  BY <1>1, <1>2
<1>9. \/ /\ ok /\ landed' = [landed EXCEPT ![doing[s].path] = doing[s].version]
         /\ \/ disk' = [disk EXCEPT ![doing[s].path] = doing[s].save]
            \/ disk' = [disk EXCEPT ![doing[s].path] = NoFile] /\ doing[s].save = Nothing
      \/ ~ok /\ disk' = disk /\ landed' = landed
  BY DEF Ending, Lands
<1>10. \A p \in Paths \ {doing[s].path} : disk'[p] = disk[p] /\ landed'[p] = landed[p]
  BY <1>1, <1>9
<1>11. \/ /\ ok /\ landed'[doing[s].path] = doing[s].version
          /\ \/ disk'[doing[s].path] = doing[s].save
             \/ disk'[doing[s].path] = NoFile /\ doing[s].save = Nothing
       \/ ~ok /\ disk'[doing[s].path] = disk[doing[s].path]
              /\ landed'[doing[s].path] = landed[doing[s].path]
  BY <1>1, <1>7, <1>9
<1> QED
  BY <1>2, <1>3, <1>5, <1>6, <1>8, <1>10, <1>11

\* Asking never lowers a version, and keeps the state of the version it keeps.
LEMMA AskedGrows ==
  ASSUME TypeOK, SavingInv, NEW A \in SUBSET Paths, Asking(A)
  PROVE  /\ \A p \in Paths : asked[p] \in Nat /\ asked'[p] \in Nat /\ asked[p] <= asked'[p]
         /\ \A p \in Paths : asked'[p] = asked[p] => want'[p] = want[p]
         /\ \A p \in Paths \ A : asked'[p] = asked[p] /\ want'[p] = want[p]
<1>1. asked \in [Paths -> Versions(moves)]
  BY DEF TypeOK
<1>2. \A p \in Paths : asked[p] \in Nat
  BY <1>1 DEF Versions
<1> QED
  BY <1>2 DEF Asking

LEMMA StepQueue == ASSUME TypeOK, SavingInv, [Next]_vars PROVE QueueInv'
<1>1. QueueInv /\ Waiting(jobs) \subseteq Jobs(moves)
  BY WaitingJobs DEF SavingInv, TypeOK
<1>2. ASSUME OnePerFile(jobs'), Waiting(jobs') \subseteq Waiting(jobs), UNCHANGED <<asked, want>>
      PROVE  QueueInv'
  BY <1>1, <1>2 DEF QueueInv, JobSound
<1>3. CASE Aside
  BY <1>1, <1>2, <1>3 DEF Aside, QueueInv
<1>4. ASSUME NEW A \in SUBSET Paths, Asking(A) PROVE QueueInv'
  <2>1. OnePerFile(jobs')
    BY <1>4 DEF Asking
  <2>2. ASSUME NEW j \in Waiting(jobs'), j \in Waiting(jobs), j.path \notin A
        PROVE  /\ j.version = asked'[j.path] /\ j.version <= asked'[j.path] /\ j.save = want'[j.path]
               /\ j.path = "rule" => j.save.state = "exempt"
               /\ j.path = "record" => j.save = Nothing \/ j.save.state = "failure"
    <3>1. j.path \in Paths \ A
      BY <1>1, <2>2 DEF Jobs
    <3>2. asked'[j.path] = asked[j.path] /\ want'[j.path] = want[j.path] /\ asked[j.path] \in Nat
      BY <1>4, <3>1, AskedGrows
    <3> QED
      BY <1>1, <2>2, <3>2 DEF QueueInv, JobSound
  <2>3. ASSUME NEW p \in A, NEW j, j = [path |-> p, save |-> want'[p], version |-> asked'[p]]
        PROVE  /\ j.version = asked'[j.path] /\ j.version <= asked'[j.path] /\ j.save = want'[j.path]
               /\ j.path = "rule" => j.save.state = "exempt"
               /\ j.path = "record" => j.save = Nothing \/ j.save.state = "failure"
    <3>1. j.path = p /\ j.save = want'[p] /\ j.version = asked'[p] /\ asked'[p] \in Nat
      BY <1>4, <2>3, AskedGrows
    <3>2. p = "record" => want'[p] = Nothing \/ want'[p].state = "failure"
      BY <1>4, FileKinds DEF Asking
    <3>3. p = "rule" => want'[p].state = "exempt"
      BY <1>4 DEF Asking
    <3> QED
      BY <3>1, <3>2, <3>3
  <2>4. \A j \in Waiting(jobs') :
          \/ j \in Waiting(jobs) /\ j.path \notin A
          \/ \E p \in A : j = [path |-> p, save |-> want'[p], version |-> asked'[p]]
    BY <1>4 DEF Asking
  <2> QED
    BY <2>1, <2>2, <2>3, <2>4 DEF QueueInv, JobSound
<1>5. ASSUME NEW s \in Starters, Take(s) PROVE QueueInv'
  BY <1>2, <1>5, TakeTakes
<1>6. ASSUME NEW s \in Starters, Tearing(s) PROVE QueueInv'
  BY <1>1, <1>2, <1>6 DEF Tearing, QueueInv
<1>7. ASSUME NEW s \in Starters, NEW ok \in BOOLEAN, Ending(s, ok) PROVE QueueInv'
  BY <1>1, <1>2, <1>7, EndingEnds DEF QueueInv
<1>8. CASE jobs' = << >>
  BY <1>8 DEF QueueInv, OnePerFile, Waiting
<1>9. CASE Load
  <2>1. CASE /\ want' = [disk EXCEPT !["record"] = Nothing]
             /\ asked' = [asked EXCEPT !["record"] = @ + 1]
             /\ jobs' = <<[path |-> "record", save |-> Nothing, version |-> asked'["record"]]>>
    <3> DEFINE job == [path |-> "record", save |-> Nothing, version |-> asked'["record"]]
    <3>1. "record" \in Paths /\ want'["record"] = Nothing /\ asked'["record"] \in Nat
      BY <2>1 DEF TypeOK, Paths, Versions
    <3>2. job.path = "record" /\ job.save = Nothing /\ job.version = asked'["record"]
      OBVIOUS
    <3>3. jobs' = <<job>>
      BY <2>1
    <3> HIDE DEF job
    <3>4. OnePerFile(jobs') /\ Waiting(jobs') = {job}
      BY <3>3 DEF OnePerFile, Waiting
    <3> QED
      BY <3>1, <3>2, <3>4 DEF QueueInv, JobSound
  <2> QED
    BY <1>8, <1>9, <2>1, LoadReads
<1>10. Exit => jobs' = << >>
  BY DEF Exit
<1> QED
  BY <1>3, <1>4, <1>5, <1>6, <1>7, <1>8, <1>9, <1>10, StepGroups

LEMMA StepWork == ASSUME TypeOK, SavingInv, [Next]_vars PROVE WorkInv'
<1>1. WorkInv /\ moves \in Nat /\ Jobs(moves) \subseteq Jobs(moves')
  BY MovesGrow, BoundsGrow DEF SavingInv
<1>2. CASE Aside
  BY <1>1, <1>2 DEF Aside, files, WorkInv, JobSound
<1>3. ASSUME NEW A \in SUBSET Paths, Asking(A) PROVE WorkInv'
  <2> SUFFICES ASSUME NEW s \in Workers
               PROVE  /\ doing[s] \in Jobs(moves')
                      /\ doing[s].version <= asked'[doing[s].path]
                      /\ doing[s].version = asked'[doing[s].path] => doing[s].save = want'[doing[s].path]
                      /\ doing[s].path = "rule" => doing[s].save.state = "exempt"
                      /\ doing[s].path = "record" => doing[s].save = Nothing \/ doing[s].save.state = "failure"
                      /\ tried[doing[s].path] <= doing[s].version
                      /\ thread[s] # "replace" => doing[s].save = Nothing
    BY <1>3 DEF Asking, files, WorkInv, JobSound
  <2>1. /\ doing[s] \in Jobs(moves) /\ JobSound(doing[s])
        /\ tried[doing[s].path] <= doing[s].version
        /\ thread[s] # "replace" => doing[s].save = Nothing
    BY <1>1 DEF WorkInv
  <2>2. doing[s].path \in Paths /\ doing[s].version \in Nat
    BY <1>1, <2>1 DEF Jobs, Versions
  <2>3. /\ asked[doing[s].path] \in Nat /\ asked'[doing[s].path] \in Nat
        /\ asked[doing[s].path] <= asked'[doing[s].path]
        /\ asked'[doing[s].path] = asked[doing[s].path] => want'[doing[s].path] = want[doing[s].path]
    BY <1>3, <2>2, AskedGrows
  <2> QED
    BY <1>1, <2>1, <2>2, <2>3 DEF JobSound
<1>4. ASSUME NEW s \in Starters, Take(s) PROVE WorkInv'
  <2>1. /\ Workers' = {s} /\ doing'[s] = Head(jobs) /\ Head(jobs) \in Jobs(moves)
        /\ Head(jobs) \in Waiting(jobs) /\ moves' = moves
        /\ UNCHANGED <<files, asked, want>>
        /\ thread'[s] = "replace" \/ Head(jobs).save = Nothing
    BY <1>4, TakeTakes
  <2>2. JobSound(Head(jobs)) /\ Head(jobs).version = asked[Head(jobs).path] /\ Head(jobs).path \in Paths
    BY <2>1 DEF SavingInv, QueueInv, Jobs
  <2>3. tried[Head(jobs).path] <= Head(jobs).version
    BY <2>2 DEF SavingInv, VersionsInv
  <2> QED
    BY <2>1, <2>2, <2>3 DEF WorkInv, JobSound, files
<1>5. ASSUME NEW s \in Starters, Tearing(s) PROVE WorkInv'
  <2>1. /\ Workers = {s} /\ Workers' = {s} /\ doing[s].save = Nothing
        /\ UNCHANGED <<doing, tried, asked, want>>
    BY <1>5, TearingTears DEF Tearing
  <2> QED
    BY <1>1, <2>1 DEF WorkInv, JobSound
<1>6. CASE Workers' = {}
  BY <1>6 DEF WorkInv
<1>7. Exit \/ Load => Workers' = {}
  <2>1. Exit => Workers' = {}
    BY StarterNames DEF Exit, Dead, Workers
  <2> QED
    BY <2>1, LoadReads
<1> QED
  BY <1>2, <1>3, <1>4, <1>5, <1>6, <1>7, EndingEnds, StepGroups

LEMMA StepVersions ==
  ASSUME TypeOK, SavingInv, [Next]_vars
  PROVE  VersionsInv' /\ \A p \in Paths : landed'[p] >= landed[p]
<1>1. \A p \in Paths : /\ landed[p] \in Nat /\ tried[p] \in Nat /\ asked[p] \in Nat
                      /\ landed[p] <= tried[p] /\ tried[p] <= asked[p]
  BY DEF TypeOK, SavingInv, VersionsInv, Versions
<1>2. CASE UNCHANGED <<landed, tried, asked>>
  BY <1>1, <1>2 DEF VersionsInv
<1>3. CASE Aside \/ Exit
  BY <1>2, <1>3 DEF Aside, Exit, files
<1>4. ASSUME NEW A \in SUBSET Paths, Asking(A)
      PROVE  VersionsInv' /\ \A p \in Paths : landed'[p] >= landed[p]
  <2>1. landed' = landed /\ tried' = tried
    BY <1>4 DEF Asking, files
  <2>2. \A p \in Paths : asked'[p] \in Nat /\ asked[p] <= asked'[p]
    BY <1>4, AskedGrows
  <2> QED
    BY <1>1, <2>1, <2>2 DEF VersionsInv
<1>5. ASSUME NEW s \in Starters, Take(s) PROVE UNCHANGED <<landed, tried, asked>>
  BY <1>5, TakeTakes DEF files
<1>6. ASSUME NEW s \in Starters, Tearing(s) PROVE UNCHANGED <<landed, tried, asked>>
  BY <1>6 DEF Tearing
<1>7. ASSUME NEW s \in Starters, NEW ok \in BOOLEAN, Ending(s, ok)
      PROVE  VersionsInv' /\ \A p \in Paths : landed'[p] >= landed[p]
  <2> DEFINE q == doing[s].path
             v == doing[s].version
  <2>1. q \in Paths /\ v \in Nat /\ tried[q] <= v /\ v <= asked[q] /\ asked' = asked
    BY <1>7, EndingEnds, MovesGrow DEF Jobs, Versions, JobSound
  <2>2. /\ \A p \in Paths : tried'[p] = IF p = q THEN v ELSE tried[p]
        /\ \A p \in Paths \ {q} : landed'[p] = landed[p]
        /\ landed'[q] \in {v, landed[q]}
    BY <1>7, EndingEnds
  <2> HIDE DEF q, v
  <2> QED
    BY <1>1, <2>1, <2>2 DEF VersionsInv
<1>8. CASE Load
  <2>1. landed' = asked /\ tried' = asked /\ asked \in [Paths -> Versions(moves)]
        /\ (asked' = asked \/ asked' = [asked EXCEPT !["record"] = @ + 1])
    BY <1>8, LoadReads DEF TypeOK
  <2>2. \A p \in Paths : asked[p] <= asked'[p]
    BY <1>1, <2>1
  <2> QED
    BY <1>1, <2>1, <2>2 DEF VersionsInv
<1> QED
  BY <1>2, <1>3, <1>4, <1>5, <1>6, <1>7, <1>8, StepGroups

LEMMA StepOwed == ASSUME TypeOK, SavingInv, [Next]_vars PROVE Owed'
<1> SUFFICES ASSUME app' # "down", NEW p \in Paths
             PROVE  \/ tried'[p] = asked'[p]
                    \/ \E j \in Waiting(jobs') : j.path = p
                    \/ \E s \in Workers' : doing'[s].path = p /\ doing'[s].version = asked'[p]
  BY DEF Owed
<1>1. app # "down" =>
        \/ tried[p] = asked[p]
        \/ \E j \in Waiting(jobs) : j.path = p
        \/ \E s \in Workers : doing[s].path = p /\ doing[s].version = asked[p]
  BY DEF SavingInv, Owed
<1>2. CASE Aside
  BY <1>1, <1>2 DEF Aside, files
<1>3. ASSUME NEW A \in SUBSET Paths, Asking(A)
      PROVE  \/ tried'[p] = asked'[p]
             \/ \E j \in Waiting(jobs') : j.path = p
             \/ \E s \in Workers' : doing'[s].path = p /\ doing'[s].version = asked'[p]
  <2>1. CASE p \in A
    <3>1. [path |-> p, save |-> want'[p], version |-> asked'[p]] \in Waiting(jobs')
      BY <1>3, <2>1 DEF Asking
    <3> QED
      BY <3>1
  <2>2. CASE p \notin A
    <3>1. asked'[p] = asked[p]
      BY <1>3, <2>2, AskedGrows
    <3>2. \A j \in Waiting(jobs) : j.path = p => j \in Waiting(jobs')
      BY <1>3, <2>2 DEF Asking
    <3>3. app # "down" /\ tried' = tried /\ doing' = doing /\ Workers' = Workers
      BY <1>3 DEF Asking, Runs, files
    <3> QED
      BY <1>1, <3>1, <3>2, <3>3
  <2> QED
    BY <2>1, <2>2
<1>4. ASSUME NEW s \in Starters, Take(s)
      PROVE  \/ tried'[p] = asked'[p]
             \/ \E j \in Waiting(jobs') : j.path = p
             \/ \E t \in Workers' : doing'[t].path = p /\ doing'[t].version = asked'[p]
  <2>1. /\ Workers = {} /\ Workers' = {s} /\ doing'[s] = Head(jobs) /\ Head(jobs) \in Waiting(jobs)
        /\ Waiting(jobs') = Waiting(jobs) \ {Head(jobs)}
        /\ app' = app /\ asked' = asked /\ tried' = tried
    BY <1>4, TakeTakes DEF files
  <2>2. Head(jobs).version = asked[Head(jobs).path]
    BY <2>1 DEF SavingInv, QueueInv
  <2> QED
    BY <1>1, <2>1, <2>2
<1>5. ASSUME NEW s \in Starters, Tearing(s)
      PROVE  \/ tried'[p] = asked'[p]
             \/ \E j \in Waiting(jobs') : j.path = p
             \/ \E t \in Workers' : doing'[t].path = p /\ doing'[t].version = asked'[p]
  <2>1. Workers' = Workers /\ UNCHANGED <<app, jobs, doing, tried, asked>>
    BY <1>5, TearingTears DEF Tearing
  <2> QED
    BY <1>1, <2>1
<1>6. ASSUME NEW s \in Starters, NEW ok \in BOOLEAN, Ending(s, ok)
      PROVE  tried'[p] = asked'[p] \/ \E j \in Waiting(jobs') : j.path = p
  <2>1. /\ Workers = {s} /\ UNCHANGED <<app, jobs, asked>>
        /\ tried'[p] = IF p = doing[s].path THEN doing[s].version ELSE tried[p]
    BY <1>6, EndingEnds
  <2>2. p = doing[s].path => doing[s].version <= asked[p] /\ tried[p] <= doing[s].version
    BY <1>6, EndingEnds DEF JobSound
  <2>3. doing[s].version \in Nat /\ tried[p] \in Nat /\ asked[p] \in Nat
    BY <1>6, EndingEnds, MovesGrow, SMTT(30) DEF Jobs, Versions, TypeOK
  <2> QED
    BY <1>1, <2>1, <2>2, <2>3
<1>7. CASE Load
  <2>1. tried' = asked /\ asked \in [Paths -> Versions(moves)]
    BY <1>7, LoadReads DEF TypeOK
  <2>2. CASE asked' = asked
    BY <2>1, <2>2
  <2>3. CASE /\ asked' = [asked EXCEPT !["record"] = @ + 1]
             /\ jobs' = <<[path |-> "record", save |-> Nothing, version |-> asked'["record"]]>>
    <3>1. [path |-> "record", save |-> Nothing, version |-> asked'["record"]] \in Waiting(jobs')
      BY <2>3 DEF Waiting
    <3> QED
      BY <2>1, <2>3, <3>1
  <2> QED
    BY <1>7, <2>2, <2>3, LoadReads
<1>8. ~Exit
  BY DEF Exit
<1> QED
  BY <1>2, <1>3, <1>4, <1>5, <1>6, <1>7, <1>8, StepGroups

LEMMA StepKnown == ASSUME TypeOK, SavingInv, [Next]_vars PROVE Known'
<1>1. Known
  BY DEF SavingInv
<1>2. CASE Aside
  BY <1>1, <1>2 DEF Aside, Known
<1>3. ASSUME NEW A \in SUBSET Paths, Asking(A) PROVE Known'
  <2>1. CASE "record" \in A
    BY <1>3, <2>1, FileKinds DEF Asking, Known
  <2>2. CASE "record" \notin A
    <3>1. "record" \in Paths \ A
      BY <2>2 DEF Paths
    <3> QED
      BY <1>1, <1>3, <2>2, <3>1 DEF Asking, Known
  <2> QED
    BY <2>1, <2>2
<1>4. ASSUME UNCHANGED <<app, fp, failed, want>>, uncleared' \in {"no", uncleared} PROVE Known'
  BY <1>1, <1>4 DEF Known
<1>5. ASSUME NEW s \in Starters, Take(s) \/ Tearing(s) PROVE Known'
  BY <1>4, <1>5, TakeTakes DEF Tearing
<1>6. ASSUME NEW s \in Starters, NEW ok \in BOOLEAN, Ending(s, ok) PROVE Known'
  BY <1>4, <1>6, EndingEnds DEF Finished
<1>7. CASE Exit
  BY <1>7 DEF Exit, Known
<1>8. CASE Load
  <2>1. CASE /\ failed' = 0 /\ want' = [disk EXCEPT !["record"] = Nothing]
    <3>1. want'["record"] = Nothing
      BY <2>1 DEF TypeOK, Paths
    <3> QED
      BY <2>1, <3>1 DEF Known
  <2>2. CASE /\ want' = disk' /\ uncleared' = "no"
             /\ failed' # 0 => disk'["record"] = Failure(fp', failed')
    BY <2>2 DEF Known
  <2> QED
    BY <1>8, <2>1, <2>2, LoadReads
<1> QED
  BY <1>2, <1>3, <1>5, <1>6, <1>7, <1>8, StepGroups

LEMMA StepNoticed == ASSUME TypeOK, SavingInv, [Next]_vars PROVE Noticed'
<1> SUFFICES ASSUME app' # "down", failed' = 0, uncleared' = "no"
             PROVE  /\ ~(disk'["record"].state = "failure" /\ disk'["record"].fp = fp')
                    /\ \A j \in Waiting(jobs') : j.save.state # "failure"
                    /\ \A s \in Workers' : doing'[s].save.state # "failure"
  BY DEF Noticed, HoldsFailure
<1> DEFINE Clean == /\ ~(disk'["record"].state = "failure" /\ disk'["record"].fp = fp')
                    /\ \A j \in Waiting(jobs') : j.save.state # "failure"
                    /\ \A s \in Workers' : doing'[s].save.state # "failure"
<1>1. app # "down" /\ failed = 0 /\ uncleared = "no" =>
        /\ ~(disk["record"].state = "failure" /\ disk["record"].fp = fp)
        /\ \A j \in Waiting(jobs) : j.save.state # "failure"
        /\ \A s \in Workers : doing[s].save.state # "failure"
  BY DEF SavingInv, Noticed, HoldsFailure
<1>2. CASE Aside
  BY <1>1, <1>2 DEF Aside, files
<1>3. ASSUME NEW A \in SUBSET Paths, Asking(A) PROVE Clean
  <2>1. "record" \notin A
    BY <1>3 DEF Asking
  <2>2. /\ app # "down" /\ failed = 0 /\ uncleared = "no" /\ fp' = fp /\ disk' = disk
        /\ doing' = doing /\ Workers' = Workers
    BY <1>3, <2>1 DEF Asking, Runs, files
  <2>3. ASSUME NEW p \in A PROVE want'[p].state # "failure"
    BY <1>3, <2>1, FileKinds DEF Asking, Paths
  <2>4. \A j \in Waiting(jobs') :
          j \in Waiting(jobs) \/ \E p \in A : j = [path |-> p, save |-> want'[p], version |-> asked'[p]]
    BY <1>3 DEF Asking
  <2> QED
    BY <1>1, <2>2, <2>3, <2>4
<1>4. ASSUME NEW s \in Starters, Take(s) PROVE Clean
  <2>1. /\ Workers' = {s} /\ doing'[s] = Head(jobs) /\ Head(jobs) \in Waiting(jobs)
        /\ Waiting(jobs') \subseteq Waiting(jobs)
        /\ UNCHANGED <<app, failed, uncleared, disk, fp>>
    BY <1>4, TakeTakes DEF files
  <2> QED
    BY <1>1, <2>1
<1>5. ASSUME NEW s \in Starters, Tearing(s) PROVE Clean
  <2>1. /\ Workers' = Workers /\ UNCHANGED <<app, fp, failed, uncleared, jobs, doing>>
        /\ disk' = [disk EXCEPT !["record"] = Torn]
    BY <1>5, TearingTears DEF Tearing
  <2>2. disk'["record"] = Torn
    BY <2>1 DEF TypeOK, Paths
  <2> QED
    BY <1>1, <2>1, <2>2, FileKinds
<1>6. ASSUME NEW s \in Starters, NEW ok \in BOOLEAN, Ending(s, ok) PROVE Clean
  <2>1. /\ Workers = {s} /\ Workers' = {} /\ doing[s] \in Jobs(moves) /\ JobSound(doing[s])
        /\ uncleared' = Finished(doing[s], ok)
        /\ UNCHANGED <<app, fp, failed, jobs>>
    BY <1>6, EndingEnds
  <2>2. doing[s].path \in Paths /\ "record" \in Paths
    BY <2>1 DEF Jobs, Paths
  <2>3. CASE uncleared = "no"
    <3>1. disk'["record"] \in {disk["record"], doing[s].save, NoFile}
      BY <1>6, <2>2, EndingEnds
    <3> QED
      BY <1>1, <2>1, <2>3, <3>1, FileKinds
  <2>4. CASE uncleared # "no"
    <3>1. doing[s].save = Nothing /\ ok /\ \A i \in DOMAIN jobs : jobs[i].path # doing[s].path
      BY <2>1, <2>4 DEF Finished
    <3>2. doing[s].path = "record"
      BY <2>1, <2>2, <3>1, FileKinds DEF JobSound, Paths
    <3>3. disk'["record"] \in {Nothing, NoFile}
      BY <1>6, <3>1, <3>2, EndingEnds, ZenonT(60)
    <3>4. \A j \in Waiting(jobs) : j.path # "record" /\ j \in Jobs(moves) /\ JobSound(j)
      <4>1. Waiting(jobs) \subseteq Jobs(moves)
        BY WaitingJobs DEF TypeOK
      <4> QED
        BY <3>1, <3>2, <4>1 DEF Waiting, SavingInv, QueueInv
    <3>5. \A j \in Waiting(jobs) : j.save.state = "exempt"
      BY <3>4 DEF Jobs, Paths, JobSound
    <3> QED
      BY <2>1, <3>3, <3>5, FileKinds
  <2> QED
    BY <2>3, <2>4
<1>7. CASE Load
  <2>1. /\ want' = disk' /\ jobs' = << >> /\ Workers' = {}
        /\ ~(disk'["record"].state = "failure" /\ disk'["record"].fp = fp')
    BY <1>7, LoadReads
  <2>2. Waiting(jobs') = {}
    BY <2>1 DEF Waiting
  <2> QED
    BY <2>1, <2>2
<1>8. ~Exit
  BY DEF Exit
<1> QED
  BY <1>2, <1>3, <1>4, <1>5, <1>6, <1>7, <1>8, StepGroups

LEMMA StepRemembered == ASSUME TypeOK, SavingInv, [Next]_vars PROVE Remembered'
<1> SUFFICES ASSUME app' # "down", want'["record"].state = "failure",
                    landed'["record"] = asked'["record"]
             PROVE  disk'["record"] = want'["record"]
  BY DEF Remembered
<1>1. app # "down" /\ want["record"].state = "failure" /\ landed["record"] = asked["record"]
        => disk["record"] = want["record"]
  BY DEF SavingInv, Remembered
<1>2. /\ "record" \in Paths
      /\ landed["record"] \in Nat /\ tried["record"] \in Nat /\ asked["record"] \in Nat
      /\ landed["record"] <= tried["record"] /\ tried["record"] <= asked["record"]
  BY DEF TypeOK, SavingInv, VersionsInv, Versions, Paths
<1>3. CASE Aside
  BY <1>1, <1>3 DEF Aside, files
<1>4. ASSUME NEW A \in SUBSET Paths, Asking(A) PROVE disk'["record"] = want'["record"]
  <2>1. asked'["record"] \in Nat /\ asked["record"] <= asked'["record"]
    BY <1>2, <1>4, AskedGrows
  <2>2. landed' = landed /\ disk' = disk /\ app # "down"
    BY <1>4 DEF Asking, Runs, files
  <2>3. asked'["record"] = asked["record"]
    BY <1>2, <2>1, <2>2
  <2>4. want'["record"] = want["record"]
    BY <1>2, <1>4, <2>3, AskedGrows
  <2> QED
    BY <1>1, <2>2, <2>3, <2>4
<1>5. ASSUME NEW s \in Starters, Take(s) PROVE disk'["record"] = want'["record"]
  BY <1>1, <1>5, TakeTakes DEF files
<1>6. ASSUME NEW s \in Starters, Tearing(s) PROVE FALSE
  <2>1. /\ doing[s].path = "record" /\ doing[s].save = Nothing /\ s \in Workers /\ doing[s] \in Jobs(moves)
        /\ UNCHANGED <<landed, asked, want>>
    BY <1>6, TearingTears DEF Tearing
  <2>2. doing[s].version \in Nat /\ tried["record"] <= doing[s].version /\ JobSound(doing[s])
    BY <2>1, MovesGrow DEF SavingInv, WorkInv, Jobs, Versions
  <2>3. doing[s].version = asked["record"]
    BY <1>2, <2>1, <2>2 DEF JobSound
  <2> QED
    BY <2>1, <2>2, <2>3, FileKinds DEF JobSound
<1>7. ASSUME NEW s \in Starters, NEW ok \in BOOLEAN, Ending(s, ok)
      PROVE  disk'["record"] = want'["record"]
  <2>1. app' = app /\ asked' = asked /\ want' = want /\ JobSound(doing[s])
    BY <1>7, EndingEnds
  <2>2. CASE disk'["record"] = disk["record"] /\ landed'["record"] = landed["record"]
    BY <1>1, <2>1, <2>2
  <2>3. CASE /\ doing[s].path = "record" /\ landed'["record"] = doing[s].version
             /\ disk'["record"] = doing[s].save \/ doing[s].save = Nothing
    <3>1. doing[s].save = want["record"]
      BY <2>1, <2>3 DEF JobSound
    <3> QED
      BY <2>1, <2>3, <3>1, FileKinds
  <2> QED
    BY <1>2, <1>7, <2>2, <2>3, EndingEnds
<1>8. CASE Load
  <2>1. want'["record"] = Nothing \/ want' = disk'
    BY <1>2, <1>8, LoadReads DEF TypeOK
  <2> QED
    BY <2>1, FileKinds
<1>9. ~Exit
  BY DEF Exit
<1> QED
  BY <1>3, <1>4, <1>5, <1>6, <1>7, <1>8, <1>9, StepGroups

-----------------------------------------------------------------------------
(* The theorems.                                                           *)

LEMMA StepSaving == ASSUME TypeOK, SavingInv, [Next]_vars PROVE SavingInv'
<1>1. OneWriter'
  BY StepOneWriter DEF SavingInv
<1> QED
  BY <1>1, StepAllGone, StepQueue, StepWork, StepVersions, StepOwed, StepKnown, StepNoticed,
     StepRemembered DEF SavingInv

LEMMA InitSaving == Init => TypeOK /\ SavingInv
<1> SUFFICES ASSUME Init PROVE TypeOK /\ SavingInv
  OBVIOUS
<1>1. /\ MaxMoves \in Nat /\ moves = 0 /\ fp \in Fingerprints /\ "record" \in Paths
  BY BoundAssumption DEF Init, Paths
<1>2. Failure(fp, 1) \in Files(moves) /\ NoFile \in Files(moves)
  BY <1>1, FailureFiles, FileKinds
<1>3. disk \in [Paths -> Files(moves)] /\ want = disk
  BY <1>2 DEF Init, Paths
<1>4. 0 \in Counts(moves) /\ 0 \in Versions(moves)
  BY <1>1 DEF Counts, Versions
<1>5. << >> \in Seq(Jobs(moves))
  OBVIOUS
<1>6. SavedType(moves)
  BY <1>3, <1>4, <1>5 DEF Init, SavedType
<1>7. ControlType
  <2>1. thread \in [Starters -> {"none", "ready", "waiting"} \cup Steps] /\ moves \in 0 .. MaxMoves
    BY <1>1 DEF Init
  <2>2. rule \in [matched : BOOLEAN, exempt : BOOLEAN, applied : BOOLEAN]
    BY DEF Init
  <2> QED
    BY <1>1, <2>1, <2>2 DEF Init, ControlType, Holding
<1>8. Workers = {} /\ \A s \in Starters : ~Alive(s)
  BY StarterNames DEF Init, Workers, Alive
<1>9. AllGone /\ OneWriter /\ Owed /\ Noticed /\ Remembered
  BY <1>8 DEF Init, AllGone, OneWriter, Owed, Noticed, Remembered
<1>10. QueueInv
  BY DEF Init, QueueInv, OnePerFile, Waiting
<1>11. WorkInv /\ VersionsInv /\ Known
  BY <1>8 DEF Init, WorkInv, VersionsInv, Known
<1> QED
  BY <1>6, <1>7, <1>9, <1>10, <1>11, TypeParts DEF SavingInv

LEMMA SavingInvariant == Spec => [](TypeOK /\ SavingInv)
<1>1. TypeOK /\ SavingInv /\ [Next]_vars => (TypeOK /\ SavingInv)'
  BY StepType, StepSaving
<1> QED
  BY InitSaving, <1>1, PTL DEF Spec

\* Every reachable state is well-typed; no version, count or job is beyond
\* what the moves so far can have asked.
THEOREM TypeCorrect == Spec => []TypeOK
BY SavingInvariant, PTL

\* What the next run reads is the newest state that was written, is this
\* run's failure with its count, and no failure forgotten stays in the file
\* without a clear that waits, is under way or is due: whatever crashes, a
\* thread that cannot start and another program's hold on the files do.
THEOREM RecordIsSound == Spec => RecordSound
<1>1. TypeOK /\ SavingInv /\ [Next]_vars => [\A p \in Paths : landed'[p] >= landed[p]]_vars
  BY StepVersions
<1>2. TypeOK /\ SavingInv => ForgottenNoticed
  BY DEF SavingInv, Noticed, ForgottenNoticed, Runs
<1>3. TypeOK /\ SavingInv => RememberedAsKnown
  <2> SUFFICES ASSUME TypeOK, SavingInv, Runs, failed # 0, landed["record"] = asked["record"]
               PROVE  disk["record"] = Failure(fp, failed)
    BY DEF RememberedAsKnown
  <2>1. app # "down" /\ want["record"] = Failure(fp, failed)
    BY DEF SavingInv, Known, Runs
  <2> QED
    BY <2>1, FileKinds DEF SavingInv, Remembered
<1> QED
  BY <1>1, <1>2, <1>3, SavingInvariant, PTL DEF Spec, RecordSound, NeverOlder

\* An app that quits with everything written has tried every save asked for.
THEOREM QuitWritesAll == Spec => WrittenAtQuit
<1>1. TypeOK /\ SavingInv /\ [Next]_vars => [app' = "written" /\ app # "written" => tried = asked]_vars
  <2> SUFFICES ASSUME TypeOK, SavingInv, [Next]_vars, app' = "written", app # "written"
               PROVE  tried = asked
    OBVIOUS
  <2>1. Quit \/ FlushEnds
    BY DEF Next, vars, NoteFailure, Forget, Succeed, Tick, Wait, RetryDue, RetryStart,
       SpawnOk, SpawnFails, Take, Sleep, Write, RemoveFile, ReplaceFile, Truncate, Overwrite,
       Finish, Proceed, Exit, Load, Hold
  <2>2. app # "down" /\ ~Pending
    BY <2>1 DEF Quit, FlushEnds
  <2>3. Workers = {} /\ Waiting(jobs) = {}
    BY <2>2 DEF Pending, SavingInv, OneWriter, Waiting
  <2>4. \A p \in Paths : tried[p] = asked[p]
    BY <2>2, <2>3 DEF SavingInv, Owed
  <2>5. tried \in [Paths -> Versions(moves)] /\ asked \in [Paths -> Versions(moves)]
    BY DEF TypeOK
  <2> QED
    BY <2>4, <2>5
<1> QED
  BY <1>1, SavingInvariant, PTL DEF Spec, WrittenAtQuit

=============================================================================
