----------------------------- MODULE ScreenMemory -----------------------------
(***************************************************************************)
(* The failure of the second screen that outlives a run of the app, and    *)
(* the thread that saves it (host/src/capture/second_screen/memory.rs).    *)
(*                                                                         *)
(* The memory decides what two files hold: the record of the failure, and  *)
(* the override that exempts this PC from the manifest's rules. It never   *)
(* touches the disk: it queues a job, and the saver's thread writes one    *)
(* file at a time. That thread may fail to start, another program may hold *)
(* the files, and the app may crash at any point or quit, which waits for  *)
(* the thread for a limited time.                                          *)
(*                                                                         *)
(* Every step between two locks of Saver::saving is an action, and each    *)
(* file operation of a job is one of its own. A file's version counts the  *)
(* states asked of it: asking for the state last asked for is no new one.  *)
(* The waits before a retry elapse by themselves (Wait, RetryStart).       *)
(*                                                                         *)
(* A definition right above another that it resembles, named for a         *)
(* mistake, is a faulty variant the specification does not use.            *)
(***************************************************************************)
EXTENDS Naturals, Sequences

CONSTANTS
  Fingerprints,  \* what the app, driver, Windows and cards may be
  Cards,         \* the fingerprints in groups of the same cards
  MaxMoves       \* bound: failures, successes, faults, crashes and restarts

ASSUME BoundAssumption == MaxMoves \in Nat /\ Fingerprints # {}
ASSUME CardsAssumption ==
  \A f \in Fingerprints : \E c \in Cards : f \in c /\ \A d \in Cards : f \in d => d = c

CardsOf(f) == CHOOSE c \in Cards : f \in c

Retriers == {"worker", "window"}
Starters == {"load", "quit"} \cup Retriers
Paths == {"record", "rule"}
NoFile == [state |-> "none"]
Torn == [state |-> "torn"]
Nothing == [state |-> "empty"]
Failure(f, n) == [state |-> "failure", fp |-> f, n |-> n]
Exempt(c) == [state |-> "exempt", cards |-> c]
Exempts == {Exempt(c) : c \in Cards}
Holding == {"free", "undeletable", "locked"}

VARIABLES
  app,       \* "down", "up", "flushing" (quitting), "written" or "abandoned"
  fp,        \* the fingerprint of this run
  failed,    \* Memory::failed, as its count of failures; 0 for none
  rule,      \* Memory::rule: matched, exempt, applied
  jobs,      \* Saving::jobs
  writer,    \* Saving::writer
  due,       \* who found that it is time to start the writer again
  starting,  \* who is inside Saver::start, past its check
  thread,    \* what the writer thread started by each does
  doing,     \* the job it took
  busy,      \* Saving::busy
  uncleared, \* Saving::uncleared: "no", "fresh" or "due" for a retry
  disk,      \* what each file holds
  held,      \* how another program holds the files
  asked,     \* the version of each file last asked for
  want,      \* the state that version is
  landed,    \* history: the version each file is at
  tried,     \* history: the version of each file last attempted
  moves

decided == <<fp, failed, rule>>
saving == <<jobs, writer, due, starting, thread, doing, busy, uncleared>>
files == <<disk, landed, tried>>
vars == <<app, decided, saving, files, held, asked, want, moves>>

\* What m moves can have asked of a file.
Versions(m) == 0..m
Files(m) == {NoFile, Torn, Nothing} \cup Exempts \cup {Failure(f, n) : f \in Fingerprints, n \in 1..(m + 1)}
Jobs(m) == [path : Paths, save : Files(m), version : Versions(m)]
Counts(m) == 0..(m + 1)
Steps == {"remove", "replace", "truncate", "overwrite"}

TypeOK ==
  /\ app \in {"down", "up", "flushing", "written", "abandoned"}
  /\ fp \in Fingerprints
  /\ failed \in Counts(moves)
  /\ rule \in [matched : BOOLEAN, exempt : BOOLEAN, applied : BOOLEAN]
  /\ jobs \in Seq(Jobs(moves))
  /\ writer \in {"stopped", "running", "failed"}
  /\ due \in SUBSET Retriers
  /\ starting \in SUBSET Starters
  /\ thread \in [Starters -> {"none", "ready", "waiting"} \cup Steps]
  /\ doing \in [Starters -> Jobs(moves) \cup {NoFile}]
  /\ busy \in BOOLEAN
  /\ uncleared \in {"no", "fresh", "due"}
  /\ disk \in [Paths -> Files(moves)]
  /\ held \in Holding
  /\ asked \in [Paths -> Versions(moves)]
  /\ want \in [Paths -> Files(moves)]
  /\ landed \in [Paths -> Versions(moves)] /\ tried \in [Paths -> Versions(moves)]
  /\ moves \in 0..MaxMoves

Init ==
  /\ app = "down" /\ fp \in Fingerprints /\ failed = 0
  /\ rule = [matched |-> FALSE, exempt |-> FALSE, applied |-> FALSE]
  /\ jobs = <<>> /\ writer = "stopped" /\ due = {} /\ starting = {} /\ busy = FALSE
  /\ thread = [s \in Starters |-> "none"] /\ doing = [s \in Starters |-> NoFile]
  /\ uncleared = "no"
  /\ disk \in {[p \in Paths |-> NoFile], [record |-> Failure(fp, 1), rule |-> NoFile]}
  /\ held = "free"
  /\ asked = [p \in Paths |-> 0] /\ want = disk
  /\ landed = [p \in Paths |-> 0] /\ tried = [p \in Paths |-> 0]
  /\ moves = 0

Move == moves < MaxMoves /\ moves' = moves + 1

Dead == [s \in Starters |-> "none"]

-----------------------------------------------------------------------------
(* The queue. *)

\* A file's next state replaces one still waiting to be written: a file has
\* one job in the queue at most (retain).
Without(q, p) ==
  IF \E i \in DOMAIN q: q[i].path = p
  THEN LET i == CHOOSE i \in DOMAIN q: q[i].path = p
       IN [k \in 1..(Len(q) - 1) |-> IF k < i THEN q[k] ELSE q[k + 1]]
  ELSE q

QueuedBehind(q, p, f, v) == Append(q, [path |-> p, save |-> f, version |-> v])
Queued(q, p, f, v) == Append(Without(q, p), [path |-> p, save |-> f, version |-> v])

\* A sleeping writer wakes once a job is queued.
WokenLate == thread
Woken == [s \in Starters |-> IF thread[s] = "waiting" THEN "ready" ELSE thread[s]]

UnclearedAfter(f) ==
  CASE f.state = "failure" -> "no"
    [] f = Nothing -> "fresh"
    [] OTHER -> uncleared

Ask(p, f) ==
  /\ asked' = IF want[p] = f THEN asked ELSE [asked EXCEPT ![p] = @ + 1]
  /\ want' = [want EXCEPT ![p] = f]
  /\ jobs' = Queued(jobs, p, f, asked'[p])
  /\ uncleared' = UnclearedAfter(f)
  /\ thread' = Woken
  /\ UNCHANGED <<writer, due, starting, doing, busy>>

-----------------------------------------------------------------------------
(* The memory. Any of its steps may come at any time the app runs; the     *)
(* transport may still take some while the app quits.                      *)

Runs == app \in {"up", "flushing"}

\* A failure to remember: by the proof, by an attach, or by a manifest's
\* rule (hold_for_rule), once in a run and with nothing saved.
NoteFailure ==
  /\ Runs /\ Move
  /\ failed' = failed + 1
  /\ Ask("record", Failure(fp, failed + 1))
  /\ \/ UNCHANGED rule
     \/ /\ rule.matched /\ ~rule.exempt /\ ~rule.applied /\ failed = 0
        /\ rule' = [rule EXCEPT !.applied = TRUE]
  /\ UNCHANGED <<app, fp, files, held>>

\* retry_clear: a minute after the last try.
ClearAgain == uncleared = "due"

\* Another mode was chosen: the failure is forgotten.
Forget ==
  /\ Runs /\ failed # 0
  /\ Move
  /\ failed' = 0
  /\ Ask("record", Nothing)
  /\ UNCHANGED <<app, fp, rule, files, held>>

\* A picture, or Try again. The override and the clear are two jobs, queued
\* one after the other; the first wakes the writer, but the order of the
\* queue is what it would be anyway.
Succeed ==
  /\ Runs /\ Move
  /\ failed' = 0
  /\ rule' = [rule EXCEPT !.exempt = TRUE]
  /\ LET clears == failed # 0 \/ uncleared # "no"
         exempts == ~rule.exempt
         saved == Exempt(CardsOf(fp))
         two == IF exempts THEN Queued(jobs, "rule", saved, asked'["rule"]) ELSE jobs
         asks(p) == IF p = "rule" THEN exempts ELSE clears
         state(p) == IF p = "rule" THEN saved ELSE Nothing
     IN /\ want' = [p \in Paths |-> IF asks(p) THEN state(p) ELSE want[p]]
        /\ asked' = [p \in Paths |-> IF want'[p] = want[p] THEN asked[p] ELSE asked[p] + 1]
        /\ jobs' = IF clears THEN Queued(two, "record", Nothing, asked'["record"]) ELSE two
        /\ uncleared' = IF clears THEN "fresh" ELSE uncleared
        /\ thread' = IF clears \/ exempts THEN Woken ELSE thread
  /\ UNCHANGED <<app, fp, writer, due, starting, doing, busy, files, held>>

\* The transport's tick.
Tick ==
  /\ Runs /\ ClearAgain
  /\ Ask("record", Nothing)
  /\ UNCHANGED <<app, decided, files, held, moves>>

\* CLEAR_RETRY elapses.
Wait ==
  /\ Runs /\ uncleared = "fresh"
  /\ uncleared' = "due"
  /\ UNCHANGED <<app, decided, jobs, writer, due, starting, thread, doing, busy, files, held,
                 asked, want, moves>>

-----------------------------------------------------------------------------
(* The writer's thread. *)

\* Saver::start, its check: only one starts the thread.
StartsAnyway(s) == writer' = "running" /\ starting' = starting \cup {s}
Starts(s) ==
  IF writer = "running" THEN UNCHANGED <<writer, starting>>
  ELSE writer' = "running" /\ starting' = starting \cup {s}

\* The worker or the window finds that the wait after the last try is over,
\* and then starts the thread.
RetryDue(s) ==
  /\ app = "up" /\ writer = "failed" /\ s \notin due
  /\ due' = due \cup {s}
  /\ UNCHANGED <<app, decided, jobs, writer, starting, thread, doing, busy, uncleared, files,
                 held, asked, want, moves>>

RetryStart(s) ==
  /\ s \in due
  /\ due' = due \ {s}
  /\ Starts(s)
  /\ UNCHANGED <<app, decided, jobs, thread, doing, busy, uncleared, files, held, asked, want, moves>>

SpawnOk(s) ==
  /\ s \in starting /\ thread[s] = "none"
  /\ starting' = starting \ {s}
  /\ thread' = [thread EXCEPT ![s] = "ready"]
  /\ UNCHANGED <<app, decided, jobs, writer, due, doing, busy, uncleared, files, held, asked, want, moves>>

SpawnFails(s) ==
  /\ s \in starting /\ Move
  /\ starting' = starting \ {s}
  /\ writer' = "failed"
  /\ UNCHANGED <<app, decided, jobs, due, thread, doing, busy, uncleared, files, held, asked, want>>

\* write, under the lock: a job to write, or sleep.
Take(s) ==
  /\ thread[s] = "ready" /\ jobs # <<>>
  /\ jobs' = Tail(jobs)
  /\ busy' = TRUE
  /\ doing' = [doing EXCEPT ![s] = Head(jobs)]
  /\ thread' = [thread EXCEPT ![s] = IF Head(jobs).save = Nothing THEN "remove" ELSE "replace"]
  /\ UNCHANGED <<app, decided, writer, due, starting, uncleared, files, held, asked, want, moves>>

Sleep(s) ==
  /\ thread[s] = "ready" /\ jobs = <<>>
  /\ thread' = [thread EXCEPT ![s] = "waiting"]
  /\ UNCHANGED <<app, decided, jobs, writer, due, starting, doing, busy, uncleared, files, held,
                 asked, want, moves>>

\* Saving::finish, back under the lock: ok tells whether the job succeeded.
\* A clear that failed stays uncleared, unless a failure was queued since.
FinishedAnyway(job, ok) == IF job.save = Nothing THEN "no" ELSE uncleared
Finished(job, ok) ==
  IF job.save = Nothing /\ ok /\ \A i \in DOMAIN jobs: jobs[i].path # job.path
  THEN "no" ELSE uncleared

Finish(s, ok) ==
  /\ thread' = [thread EXCEPT ![s] = "ready"]
  /\ doing' = [doing EXCEPT ![s] = NoFile]
  /\ busy' = FALSE
  /\ uncleared' = Finished(doing[s], ok)
  /\ tried' = [tried EXCEPT ![doing[s].path] = doing[s].version]
  /\ UNCHANGED <<app, decided, jobs, writer, due, starting, held, asked, want, moves>>

Lands(s, file) ==
  /\ disk' = [disk EXCEPT ![doing[s].path] = file]
  /\ landed' = [landed EXCEPT ![doing[s].path] = doing[s].version]

Proceed(s, step) ==
  /\ thread' = [thread EXCEPT ![s] = step]
  /\ UNCHANGED <<app, decided, jobs, writer, due, starting, doing, busy, uncleared, files, held,
                 asked, want, moves>>

\* clear, its first operation.
RemoveFile(s) ==
  /\ thread[s] = "remove"
  /\ \/ held = "free" /\ Lands(s, NoFile) /\ Finish(s, TRUE)
     \/ held # "free" /\ Proceed(s, "replace")

\* replace_file: a temporary file and a rename, so the old content or the
\* new one. Failing, a clear goes on and any other job ends.
ReplaceFile(s) ==
  /\ thread[s] = "replace"
  /\ \/ held = "free" /\ Lands(s, doing[s].save) /\ Finish(s, TRUE)
     \/ held # "free" /\ doing[s].save = Nothing /\ Proceed(s, "truncate")
     \/ held # "free" /\ doing[s].save # Nothing
        /\ Finish(s, FALSE) /\ UNCHANGED <<disk, landed>>

\* overwrite_file, its two steps, of which the second may fail too. A file
\* that is gone cannot be opened.
Truncate(s) ==
  /\ thread[s] = "truncate"
  /\ \/ /\ held # "locked" /\ disk["record"] # NoFile
        /\ disk' = [disk EXCEPT !["record"] = Torn]
        /\ thread' = [thread EXCEPT ![s] = "overwrite"]
        /\ UNCHANGED <<app, decided, jobs, writer, due, starting, doing, busy, uncleared,
                       landed, tried, held, asked, want, moves>>
     \/ /\ held = "locked" \/ disk["record"] = NoFile
        /\ Finish(s, FALSE) /\ UNCHANGED <<disk, landed>>

Overwrite(s) ==
  /\ thread[s] = "overwrite"
  /\ \/ Lands(s, Nothing) /\ Finish(s, TRUE)
     \/ Finish(s, FALSE) /\ UNCHANGED <<disk, landed>>

Write(s) == RemoveFile(s) \/ ReplaceFile(s) \/ Truncate(s) \/ Overwrite(s)

-----------------------------------------------------------------------------
(* Quitting, crashing and starting again. *)

\* finish_saving: flush, its first check and its start.
PendingWaiting == jobs # <<>>
Pending == busy \/ jobs # <<>>

Quit ==
  /\ app = "up" /\ Move
  /\ IF Pending
     THEN app' = "flushing" /\ Starts("quit")
     ELSE app' = "written" /\ UNCHANGED <<writer, starting>>
  /\ UNCHANGED <<decided, jobs, due, thread, doing, busy, uncleared, files, held, asked, want>>

FlushEnds ==
  /\ app = "flushing" /\ "quit" \notin starting
  /\ app' = IF ~Pending THEN "written" ELSE "abandoned"
  /\ UNCHANGED <<decided, saving, files, held, asked, want, moves>>

\* The app is gone, by a crash at any time or after it quit; only the files
\* are left.
Exit ==
  /\ app # "down"
  /\ IF app \in {"written", "abandoned"} THEN UNCHANGED moves ELSE Move
  /\ app' = "down" /\ failed' = 0
  /\ jobs' = <<>> /\ writer' = "stopped" /\ due' = {} /\ starting' = {} /\ busy' = FALSE
  /\ thread' = Dead /\ doing' = [s \in Starters |-> NoFile]
  /\ uncleared' = "no"
  /\ rule' = [matched |-> FALSE, exempt |-> FALSE, applied |-> FALSE]
  /\ UNCHANGED <<fp, files, held, asked, want>>

\* What load and set_rule read: the count of a failure of this fingerprint,
\* which a rule that does not apply any more forgets. A file of another
\* fingerprint, or one that cannot be read, is removed if it can be. An
\* override saved for other cards exempts nothing.
LoadedForAny(f) == IF disk["record"].state = "failure" THEN disk["record"].n ELSE 0
Loaded(f) ==
  IF disk["record"].state = "failure" /\ disk["record"].fp = f THEN disk["record"].n ELSE 0

Load ==
  /\ app = "down" /\ Move
  /\ \E f \in Fingerprints, matched \in BOOLEAN, spawned \in BOOLEAN, forRule \in BOOLEAN:
       LET exempt == disk["rule"] = Exempt(CardsOf(f))
           lifted == forRule /\ Loaded(f) # 0 /\ (~matched \/ exempt)
           drops == disk["record"] \notin {NoFile, Nothing} /\ Loaded(f) = 0 /\ held = "free"
       IN /\ fp' = f
          /\ rule' = [matched |-> matched, exempt |-> exempt, applied |-> FALSE]
          /\ failed' = IF lifted THEN 0 ELSE Loaded(f)
          /\ disk' = IF drops THEN [disk EXCEPT !["record"] = NoFile] ELSE disk
          /\ want' = IF lifted THEN [disk EXCEPT !["record"] = Nothing] ELSE disk'
          /\ asked' = IF lifted THEN [asked EXCEPT !["record"] = @ + 1] ELSE asked
          /\ jobs' = IF lifted THEN <<[path |-> "record", save |-> Nothing,
                                       version |-> asked'["record"]]>>
                     ELSE <<>>
          /\ uncleared' = IF lifted THEN "fresh" ELSE "no"
          /\ writer' = IF spawned THEN "running" ELSE "failed"
          /\ thread' = IF spawned THEN [Dead EXCEPT !["load"] = "ready"] ELSE Dead
  /\ app' = "up"
  /\ landed' = asked /\ tried' = asked
  /\ UNCHANGED <<due, starting, doing, busy, held>>

\* Another program takes or lets go of the files.
Hold ==
  /\ Move
  /\ held' \in Holding \ {held}
  /\ UNCHANGED <<app, decided, saving, files, asked, want>>

Next ==
  \/ NoteFailure \/ Forget \/ Succeed \/ Tick \/ Wait
  \/ \E s \in Retriers: RetryDue(s) \/ RetryStart(s)
  \/ \E s \in Starters: SpawnOk(s) \/ SpawnFails(s) \/ Take(s) \/ Sleep(s) \/ Write(s)
  \/ Quit \/ FlushEnds \/ Exit \/ Load \/ Hold

Spec == Init /\ [][Next]_vars

\* Threads run, waits elapse and ticks come. Nothing else need ever happen.
FairSpec ==
  /\ Spec
  /\ WF_vars(Tick) /\ WF_vars(Wait)
  /\ \A s \in Retriers: WF_vars(RetryDue(s)) /\ WF_vars(RetryStart(s))
  /\ \A s \in Starters: WF_vars(SpawnOk(s)) /\ WF_vars(Take(s) \/ Sleep(s) \/ Write(s))

-----------------------------------------------------------------------------
(* Properties. *)

\* An earlier state of a file never lands after a later one, whatever is
\* asked while the writer writes, fails to start or is started by two
\* threads at once: what Saver promises, and what its order of jobs is for.
NeverOlder == [][\A p \in Paths: landed'[p] >= landed[p]]_vars

HoldsFailure == disk["record"].state = "failure" /\ disk["record"].fp = fp

\* A failure this run has forgotten is not left in the file unnoticed: as
\* long as the file would hold the next run on the mirror, a clear of it is
\* waiting, under way or due (Saving::uncleared).
ForgottenNoticed == Runs /\ failed = 0 /\ HoldsFailure => uncleared # "no"

\* Once the state last asked for has landed, the next run finds the failure
\* this one knows, with its count, so that its wait is the right one.
RememberedAsKnown ==
  Runs /\ failed # 0 /\ landed["record"] = asked["record"]
    => disk["record"] = Failure(fp, failed)

\* Together: what the next run reads is the newest state that was written, it
\* is this run's failure, and a failure forgotten is not left unnoticed.
RecordSound == NeverOlder /\ []ForgottenNoticed /\ []RememberedAsKnown

\* Quitting with everything written leaves no save untried: none waiting
\* and none under way (finish_saving).
WrittenAtQuit == [][app' = "written" /\ app # "written" => tried = asked]_vars

\* A failure forgotten for good leaves the file in the end, once no program
\* holds it: whatever failed before, the clear is asked again and a writer
\* that could not start is started again (retry_clear, retry_start).
ForgottenIsCleared ==
  <>[](app = "up" /\ failed = 0 /\ held = "free") => <>[]~HoldsFailure
=============================================================================
