----------------------------- MODULE SecondScreen -----------------------------
(***************************************************************************)
(* The second screen: the virtual display the host turns on for a viewer,  *)
(* proves by its first image, keeps for a grace period and turns off       *)
(* (host/src/capture/second_screen.rs), with the capture generation that   *)
(* reconciles it (host/src/capture/mod.rs), the transport tick that        *)
(* decides for it (host/src/transport/mod.rs, execute_actions) and the     *)
(* quit (host/src/main.rs).                                                *)
(*                                                                         *)
(* Four threads take turns, each step one critical section of the code:    *)
(*   - the transport decides (Decide) and then, without the locks, carries *)
(*     the decision out (CarryOut);                                        *)
(*   - a capture generation looks at the mode and the status, and settles  *)
(*     on the mirror or the second screen;                                 *)
(*   - the worker takes one command at a time and changes the display;     *)
(*   - the window changes the mode, retries and quits.                     *)
(*                                                                         *)
(* Ages are relative to now and stop at the limit they are compared with.  *)
(* What Windows and its driver do is chosen freely. The saved failure is   *)
(* only held, due or forgotten here; the module ScreenMemory has the files.*)
(*                                                                         *)
(* A definition right above another that it resembles, named for a         *)
(* mistake, is a faulty variant the specification does not use.            *)
(***************************************************************************)
EXTENDS Integers, Sequences

CONSTANTS
  Gap,        \* MIN_TOGGLE_GAP
  Grace,      \* RELEASE_GRACE
  ProveTime,  \* PROVE_TIMEOUT
  LossLimit,  \* LOSS_LIMIT
  Saved,         \* an earlier run of the app saved a failure
  RuleNamesPC,   \* a manifest rule names this PC
  MirrorRefused, \* Windows refuses the mirror, so that it may be blocked
  MaxMoves,   \* bound: what users, viewers, Windows and faults do
  MaxQueue    \* bound: commands queued when a generation starts

ASSUME TimingAssumption ==
  /\ Gap \in Nat /\ Grace \in Nat /\ ProveTime \in Nat /\ LossLimit \in Nat
  /\ Saved \in BOOLEAN /\ RuleNamesPC \in BOOLEAN /\ MirrorRefused \in BOOLEAN
  /\ MaxMoves \in Nat /\ MaxQueue \in Nat

None == -1

Statuses == {"inactive", "waiting", "attaching", "active", "failed", "taskFailed"}

\* The generation's capture thread: where run_capture_loop is.
Phases == {"none", "look", "prove", "settle", "mirror", "open", "opening",
           "screen", "lost", "retrying"}
ScreenPhases == {"open", "opening", "screen", "lost", "retrying"}

Commands == {"attach", "release", "fallback"}

WorkerSteps ==
  {"idle", "attach", "reuse", "attachGap", "viewer", "lock", "enabling",
   "refused", "await", "settle", "offGap", "turningOff", "forget", "exit", "release",
   "releaseGap", "releasing"}

\* Proving. "current" says that its generation is the running one; otherwise
\* it is one that ended.
Proof == [on : BOOLEAN, current : BOOLEAN, age : 0..ProveTime, failed : BOOLEAN,
          interrupted : BOOLEAN, losses : 0..(LossLimit + 1), pending : BOOLEAN]

NoProof == [on |-> FALSE, current |-> FALSE, age |-> 0, failed |-> FALSE,
            interrupted |-> FALSE, losses |-> 0, pending |-> FALSE]

VARIABLES
  selected,       \* capture_target is VirtualExtended
  status,         \* vdd_status
  viewer,         \* no session, one on hold after a silence, or one heard from
  owned,          \* vdd_output names the display
  \* State
  switchPending, leftAge, releaseRequested, sinceToggle, attaching, proof,
  blockedWait,    \* blocked_retry_at lies ahead
  \* Memory
  memory,         \* "clear", "held" (its wait lasts) or "due"
  excused,
  rule,           \* a manifest rule applies that was not applied yet
  \* Worker
  queue, quitting, worker,
  failAs,         \* the status attach reports after turning the display off
  \* the transport and the generation
  todo,           \* "step" (a handler is about to call it) or the Step not carried out
  running,        \* SharedControl::running
  capture,
  leftThread,     \* a capture thread of the proof's generation was left behind
  sawUnwatched,   \* the capture thread read that ours is on and has no viewer
  \* Windows
  enabled,        \* the display is on
  shown,          \* Windows lists its output
  stray,          \* history: an Enable said nothing of the device it turned on,
                  \* or a Disable failed
  neglected,      \* history: a generation called our display waiting and did not
                  \* ask to turn it off, or it was reused with a request to
                  \* release it still standing, which asks for no other
  pictured,       \* history: this second screen delivered an image
  quit,           \* "no", "asked", "off" (the display was turned off), "done"
  moves

state == <<switchPending, leftAge, releaseRequested, sinceToggle, attaching, proof,
           blockedWait>>
memories == <<memory, excused, rule>>
windows == <<enabled, shown, stray, neglected, pictured>>
pipeline == <<running, capture, leftThread, sawUnwatched>>
vars == <<selected, status, viewer, owned, state, memories, queue, quitting, worker,
          failAs, todo, pipeline, windows, quit, moves>>

\* What the ages and the count of moves may be.
LeftAges == None..Grace
ToggleAges == 0..Gap
MoveCounts == 0..MaxMoves

TypeOK ==
  /\ selected \in BOOLEAN /\ status \in Statuses
  /\ viewer \in {"gone", "held", "here"} /\ owned \in BOOLEAN
  /\ switchPending \in BOOLEAN /\ leftAge \in LeftAges
  /\ releaseRequested \in BOOLEAN /\ sinceToggle \in ToggleAges
  /\ attaching \in BOOLEAN /\ proof \in Proof /\ blockedWait \in BOOLEAN
  /\ memory \in {"clear", "held", "due"} /\ excused \in BOOLEAN /\ rule \in BOOLEAN
  /\ queue \in Seq(Commands) /\ quitting \in BOOLEAN /\ worker \in WorkerSteps
  /\ failAs \in {"none", "failed", "taskFailed"}
  /\ todo \in {"none", "step", "attach", "switch", "release", "fallback"}
  /\ running \in BOOLEAN /\ capture \in Phases /\ leftThread \in BOOLEAN
  /\ sawUnwatched \in BOOLEAN
  /\ enabled \in BOOLEAN /\ shown \in BOOLEAN /\ stray \in BOOLEAN
  /\ neglected \in BOOLEAN /\ pictured \in BOOLEAN
  /\ quit \in {"no", "asked", "off", "done"} /\ moves \in MoveCounts

Init ==
  /\ selected \in BOOLEAN /\ status = "inactive" /\ viewer = "gone" /\ owned = FALSE
  /\ switchPending = FALSE /\ leftAge = None /\ releaseRequested = FALSE
  /\ sinceToggle = Gap /\ attaching = FALSE /\ proof = NoProof /\ blockedWait = FALSE
  /\ memory = (IF Saved THEN "held" ELSE "clear") /\ excused = FALSE /\ rule = RuleNamesPC
  /\ queue = <<>> /\ quitting = FALSE /\ worker = "idle" /\ failAs = "none"
  /\ todo = "none"
  /\ running = TRUE /\ capture = "look" /\ leftThread = FALSE /\ sawUnwatched = FALSE
  /\ enabled = FALSE /\ shown = FALSE /\ stray = FALSE /\ neglected = FALSE
  /\ pictured = FALSE
  /\ quit = "no" /\ moves = 0

Alive == quit # "done"
Move == moves < MaxMoves /\ moves' = moves + 1

-------------------------------------------------------------------------------
(* Pieces of State and Memory *)

\* mirror_blocked_now: Windows refused the mirror, and a fresh snapshot still
\* says why.
Blocked == IF MirrorRefused THEN BOOLEAN ELSE {FALSE}

\* send: nothing is queued once quitting began.
Send(command) == queue' = IF quitting THEN queue ELSE Append(queue, command)

\* Memory::note_failure: the wait begins anew.
NoteFailure == memory' = "held" /\ excused' = FALSE

\* Memory::forget after a picture or Try again: no rule applies any more.
ForgetOnSuccess == memory' = "clear" /\ excused' = FALSE /\ rule' = FALSE

\* State::remember, with "blocked" as mirror_blocked_now answers it.
Remember(passing, blocked) ==
  /\ blockedWait' = FALSE
  /\ rule' = rule
  /\ IF blocked THEN UNCHANGED <<memory, excused>>
     ELSE IF passing THEN excused' = TRUE /\ UNCHANGED memory
     ELSE NoteFailure

\* State::unproven.
UnprovenByError == proof.on /\ proof.failed
UnprovenWithoutDeadline == UnprovenByError
Unproven == proof.on /\ (proof.failed \/ proof.age = ProveTime)

\* Something that passes may explain the failure.
Passing == proof.interrupted \/ proof.pending \/ proof.losses > LossLimit

\* State::fail_unproven: the attempt ends and may be remembered. "away" is
\* desktop_away.
FailUnproven(blocked, away) ==
  /\ Unproven
  /\ proof' = NoProof /\ switchPending' = FALSE /\ leftAge' = None
  /\ releaseRequested' = FALSE
  /\ status' = "failed"
  /\ Remember(Passing \/ away, blocked)
  /\ UNCHANGED <<sinceToggle, attaching>>

\* note_attached: the display is the stream's next source.
NoteAttached ==
  /\ owned' = TRUE /\ status' = "active" /\ switchPending' = TRUE /\ proof' = NoProof
  /\ pictured' = FALSE /\ neglected' = releaseRequested

\* State::note_toggle.
NoteToggle == sinceToggle' = 0 /\ releaseRequested' = FALSE

-------------------------------------------------------------------------------
(* The transport: State::step, then what execute_actions does about it *)

\* Each disjunct is one way step returns.
Deselected ==
  /\ ~selected
  /\ memory' = "clear" /\ excused' = FALSE
  /\ switchPending' = FALSE /\ leftAge' = None /\ releaseRequested' = FALSE
  /\ proof' = NoProof /\ blockedWait' = FALSE
  /\ todo' = "none"
  /\ UNCHANGED <<status, sinceToggle, attaching, rule>>

FallsBack ==
  /\ selected
  /\ \E blocked \in Blocked, away \in BOOLEAN : FailUnproven(blocked, away)
  /\ todo' = "fallback"

\* A saved failure, or a rule that names this PC, holds the connection on the
\* mirror unless the mirror is blocked.
Held ==
  /\ status = "waiting" /\ viewer = "here"
  /\ \/ memory = "held" /\ UNCHANGED memories
     \/ memory = "clear" /\ rule /\ rule' = FALSE /\ NoteFailure
  /\ status' = "failed" /\ todo' = "none"
  /\ UNCHANGED state

Claims ==
  /\ status = "waiting" /\ viewer = "here"
  /\ \E blocked \in Blocked : blocked \/ ~(memory = "held" \/ (memory = "clear" /\ rule))
  /\ status' = "attaching" /\ attaching' = TRUE /\ todo' = "attach"
  /\ UNCHANGED <<switchPending, leftAge, releaseRequested, sinceToggle, proof,
                 blockedWait, memories>>

Watched ==
  /\ status = "active" /\ viewer = "here"
  /\ leftAge' = None /\ releaseRequested' = FALSE /\ switchPending' = FALSE
  /\ todo' = IF switchPending THEN "switch" ELSE "none"
  /\ UNCHANGED <<status, sinceToggle, attaching, proof, blockedWait, memories>>

Unwatched ==
  /\ status = "active" /\ viewer # "here" /\ ~releaseRequested
  /\ IF leftAge < Grace
     THEN /\ leftAge' = IF leftAge = None THEN 0 ELSE leftAge
          /\ todo' = "none"
          /\ UNCHANGED <<switchPending, releaseRequested>>
     ELSE /\ leftAge' = None /\ switchPending' = FALSE /\ releaseRequested' = TRUE
          /\ todo' = "release"
  /\ UNCHANGED <<status, sinceToggle, attaching, proof, blockedWait, memories>>

Nothing ==
  /\ todo = "step" /\ todo' = "none"
  /\ \/ status \notin {"waiting", "active"}
     \/ viewer # "here" /\ (status = "waiting" \/ releaseRequested)
  /\ UNCHANGED <<status, state, memories>>

\* next_step, on a tick and at the end of every packet's handler.
Decide ==
  /\ Alive
  /\ todo = "step" \/ (running /\ todo = "none")
  /\ \/ Deselected
     \/ FallsBack
     \/ selected /\ ~Unproven /\ (Held \/ Claims \/ Watched \/ Unwatched \/ Nothing)
  /\ UNCHANGED <<selected, viewer, owned, queue, quitting, worker, failAs, pipeline,
                 windows, quit, moves>>

\* The generation is told to end. Its capture thread may be left behind in a
\* driver call; one that ended is one that says nothing more.
StopPipeline ==
  /\ running' = FALSE /\ capture' = "none" /\ sawUnwatched' = FALSE
  /\ leftThread' = (proof.on /\ (proof.current \/ leftThread))

\* After a generation ended, its proof waits for the next one.
Orphaned == proof' = [proof EXCEPT !.current = FALSE]

CarryOut ==
  /\ Alive /\ todo \notin {"none", "step"} /\ todo' = "none"
  /\ CASE todo = "attach" -> Send("attach")
       [] todo = "fallback" -> Send("fallback")
       [] OTHER -> UNCHANGED queue
  /\ IF todo = "attach" \/ ~running
     THEN UNCHANGED <<pipeline, proof>>
     ELSE StopPipeline /\ Orphaned
  /\ UNCHANGED <<selected, status, viewer, owned, switchPending, leftAge,
                 releaseRequested, sinceToggle, attaching, blockedWait, memories,
                 quitting, worker, failAs, windows, quit, moves>>

\* note_connected, for a new session in Second screen mode.
NoteConnected ==
  IF ~selected THEN UNCHANGED <<status, blockedWait>>
  ELSE \/ /\ TRUE \in Blocked /\ status = "failed" /\ ~blockedWait
          /\ status' = "waiting" /\ UNCHANGED blockedWait
       \/ /\ TRUE \in Blocked /\ status = "failed" /\ blockedWait
          /\ UNCHANGED <<status, blockedWait>>
       \/ /\ blockedWait' = FALSE
          /\ status' = IF status = "failed" /\ memory = "due" /\ ~excused
                       THEN "waiting" ELSE status

-------------------------------------------------------------------------------
(* Viewers, the window and the supervisor *)

Arrive ==
  /\ Alive /\ Move /\ running /\ todo = "none" /\ viewer = "gone" /\ viewer' = "here"
  /\ NoteConnected /\ todo' = "step"
  /\ UNCHANGED <<selected, owned, switchPending, leftAge, releaseRequested, sinceToggle,
                 attaching, proof, memories, queue, quitting, worker, failAs, pipeline,
                 windows, quit>>

\* The session is silent and on hold, is heard again, or ends. It is silent
\* for seconds (LIVENESS_TIMEOUT) before the hold, and ticks saw it before.
Fade ==
  /\ Alive /\ running /\ todo = "none"
  /\ viewer # "gone" /\ viewer' \in {"here", "held", "gone"} \ {viewer}
  /\ IF viewer' = "held" THEN leftAge = None /\ Move ELSE UNCHANGED moves
  /\ todo' = "step"
  /\ UNCHANGED <<selected, status, owned, state, memories, queue, quitting, worker,
                 failAs, pipeline, windows, quit>>

\* set_capture_display: only the next generation acts on it.
Select ==
  /\ Alive /\ Move /\ quit = "no" /\ selected' = ~selected
  /\ UNCHANGED <<status, viewer, owned, state, memories, queue, quitting, worker, failAs,
                 todo, pipeline, windows, quit>>

\* retry: Try again, and every restart or start the user asks for.
Retry ==
  /\ Alive /\ Move /\ quit = "no"
  /\ ForgetOnSuccess
  /\ IF status \in {"failed", "taskFailed"} \/ (status = "attaching" /\ ~attaching)
     THEN status' = "waiting" /\ blockedWait' = FALSE
     ELSE UNCHANGED <<status, blockedWait>>
  /\ UNCHANGED <<selected, viewer, owned, switchPending, leftAge, releaseRequested,
                 sinceToggle, attaching, proof, queue, quitting, worker, failAs, todo,
                 pipeline, windows, quit>>

\* A restart by the user, the watchdog or after a failed stage.
Restart ==
  /\ Alive /\ Move /\ running /\ StopPipeline /\ Orphaned
  /\ UNCHANGED <<selected, status, viewer, owned, switchPending, leftAge,
                 releaseRequested, sinceToggle, attaching, blockedWait, memories, queue,
                 quitting, worker, failAs, todo, windows, quit>>

\* The watchdog restarts a capture that shows a viewer nothing, unless the
\* second screen is still proving itself (supervisor.rs, wedge_reason_at).
FrameSilent == viewer # "gone" /\ ~proof.on
Watchdog ==
  /\ Alive /\ running /\ capture \in ScreenPhases /\ ~pictured /\ FrameSilent
  /\ StopPipeline /\ UNCHANGED proof
  /\ UNCHANGED <<selected, status, viewer, owned, switchPending, leftAge,
                 releaseRequested, sinceToggle, attaching, blockedWait, memories, queue,
                 quitting, worker, failAs, todo, windows, quit, moves>>

\* The supervisor joins the transport that ended, and takes seconds to restart
\* a generation; MaxQueue says that the worker keeps up with it.
StartPipeline ==
  /\ ~running /\ quit = "no" /\ todo = "none" /\ Len(queue) < MaxQueue
  /\ running' = TRUE /\ capture' = "look"
  /\ UNCHANGED <<selected, status, viewer, owned, state, memories, queue, quitting,
                 worker, failAs, todo, leftThread, sawUnwatched, windows, quit, moves>>

\* One unit of time; ages stop where no condition tells them apart.
Later(age, limit) == IF age = None \/ age = limit THEN age ELSE age + 1
\* A hold ends sooner than the grace period that began with it (HOLD_LIMIT -
\* LIVENESS_TIMEOUT is less than RELEASE_GRACE).
HoldsAreShort == viewer = "held" => leftAge' # Grace
Pass ==
  /\ ~quitting
  /\ sinceToggle' = Later(sinceToggle, Gap)
  /\ leftAge' = Later(leftAge, Grace)
  /\ proof' = IF proof.on THEN [proof EXCEPT !.age = Later(@, ProveTime)] ELSE proof
  /\ HoldsAreShort
  /\ <<sinceToggle', leftAge', proof'>> # <<sinceToggle, leftAge, proof>>
  /\ UNCHANGED <<selected, status, viewer, owned, switchPending, releaseRequested,
                 attaching, blockedWait, memories, queue, quitting, worker, failAs, todo,
                 pipeline, windows, quit, moves>>

\* The wait after a saved failure, or after a blocked one, is over.
WaitOver ==
  /\ ~quitting
  /\ \/ memory = "held" /\ memory' = "due" /\ UNCHANGED blockedWait
     \/ blockedWait /\ blockedWait' = FALSE /\ UNCHANGED memory
  /\ UNCHANGED <<selected, status, viewer, owned, switchPending, leftAge,
                 releaseRequested, sinceToggle, attaching, proof, excused, rule, queue,
                 quitting, worker, failAs, todo, pipeline, windows, quit, moves>>

-------------------------------------------------------------------------------
(* A capture generation: reconcile_virtual_display, then capturing *)

\* The display is attached: ours, and Windows lists it.
Attached == owned /\ shown

\* Fails what is unproven first; then reads the mode, viewer and status.
Look ==
  /\ Alive /\ running /\ capture = "look"
  /\ \/ /\ selected /\ Unproven
        /\ \E blocked \in Blocked, away \in BOOLEAN : FailUnproven(blocked, away)
        /\ Send("fallback") /\ capture' = "mirror"
        /\ UNCHANGED sawUnwatched
     \/ /\ selected /\ ~Unproven
        /\ sawUnwatched' = (owned /\ viewer = "gone")
        /\ capture' = IF status \in {"attaching", "failed", "taskFailed"} THEN "mirror"
                      ELSE IF Attached /\ status = "active"
                              /\ (viewer # "gone" \/ ~releaseRequested)
                      THEN "prove" ELSE "settle"
        /\ UNCHANGED <<status, state, memories, queue>>
     \/ /\ ~selected
        /\ status' = "inactive" /\ capture' = "mirror"
        /\ IF owned THEN Send("release") ELSE UNCHANGED queue
        /\ UNCHANGED <<state, memories, sawUnwatched>>
  /\ UNCHANGED <<selected, viewer, owned, quitting, worker, failAs, todo, running,
                 leftThread, windows, quit, moves>>

\* start_proving: a later generation inherits the deadline and the failure.
Prove ==
  /\ Alive /\ capture = "prove" /\ capture' = "open"
  /\ proof' = IF proof.on
              THEN [proof EXCEPT !.current = TRUE, !.pending = @ /\ proof.current]
              ELSE [NoProof EXCEPT !.on = TRUE, !.current = TRUE]
  /\ leftThread' = FALSE
  /\ UNCHANGED <<selected, status, viewer, owned, switchPending, leftAge,
                 releaseRequested, sinceToggle, attaching, blockedWait, memories, queue,
                 quitting, worker, failAs, todo, running, sawUnwatched, windows, quit, moves>>

\* Nothing to capture yet: a viewer's next tick starts it. A viewer that
\* arrived meanwhile may have claimed it. The worker may also have attached it
\* since the status was read: it is neglected all the same.
Settle ==
  /\ Alive /\ capture = "settle" /\ capture' = "mirror"
  /\ status' = IF status = "attaching" THEN status ELSE "waiting"
  /\ neglected' = (status # "attaching" /\ owned /\ ~sawUnwatched)
  /\ IF sawUnwatched THEN Send("release") ELSE UNCHANGED queue
  /\ UNCHANGED <<selected, viewer, owned, state, memories, quitting, worker, failAs, todo,
                 running, leftThread, sawUnwatched, enabled, shown, stray, pictured,
                 quit, moves>>

\* A note by a capture thread concerns the proof of its own generation only.
ConcernsAnyone(thread) == proof.on
Concerns(thread) ==
  proof.on /\ thread = (IF proof.current THEN "running" ELSE "left")

\* Which thread of this generation, or of an earlier one, may speak now.
Speaks(thread, phases) ==
  \/ thread = "running" /\ capture \in phases
  \/ thread = "left" /\ leftThread
  \/ thread = "old" /\ running

\* Opening, or reopening after a loss, waits on a time-limited driver call.
DriverCall ==
  /\ Alive
  /\ \/ capture = "open" /\ capture' = "opening"
     \/ capture = "lost" /\ capture' = "retrying"
  /\ proof' = IF Concerns("running") THEN [proof EXCEPT !.pending = TRUE] ELSE proof
  /\ UNCHANGED <<selected, status, viewer, owned, switchPending, leftAge,
                 releaseRequested, sinceToggle, attaching, blockedWait, memories, queue,
                 quitting, worker, failAs, todo, running, leftThread, sawUnwatched, windows,
                 quit, moves>>

\* It succeeds; after a loss the proof starts over (note_recovery).
Opens ==
  /\ Alive /\ shown /\ capture \in {"opening", "retrying"} /\ capture' = "screen"
  /\ proof' = IF ~Concerns("running") THEN proof
              ELSE IF capture = "opening" THEN [proof EXCEPT !.pending = FALSE]
              ELSE [proof EXCEPT !.pending = FALSE, !.interrupted = FALSE, !.age = 0]
  /\ UNCHANGED <<selected, status, viewer, owned, switchPending, leftAge,
                 releaseRequested, sinceToggle, attaching, blockedWait, memories, queue,
                 quitting, worker, failAs, todo, running, leftThread, sawUnwatched, windows,
                 quit, moves>>

\* A retry fails: with an error that passes, or with one that does not.
RetryFails ==
  /\ Alive /\ capture = "retrying" /\ capture' = "lost"
  /\ \E passes \in BOOLEAN :
       proof' = IF Concerns("running")
                THEN [proof EXCEPT !.pending = FALSE, !.interrupted = passes]
                ELSE proof
  /\ UNCHANGED <<selected, status, viewer, owned, switchPending, leftAge,
                 releaseRequested, sinceToggle, attaching, blockedWait, memories, queue,
                 quitting, worker, failAs, todo, running, leftThread, sawUnwatched, windows,
                 quit, moves>>

\* note_interruption_while: a loss counts while the desktop is the user's.
InterruptedUnlimited(p, away) ==
  [p EXCEPT !.interrupted = TRUE, !.losses = IF away THEN @ ELSE @ + 1]
Interrupted(p, away) ==
  IF away THEN [p EXCEPT !.interrupted = TRUE]
  ELSE [p EXCEPT !.interrupted = TRUE,
                 !.losses = IF @ > LossLimit THEN @ ELSE @ + 1,
                 !.failed = @ \/ p.losses >= LossLimit]

\* The duplication is lost: a secure screen, a mode change, another app.
Loses ==
  /\ Alive /\ capture = "screen" /\ capture' = "lost"
  /\ \E away \in BOOLEAN :
       /\ IF away \/ ~proof.on THEN Move ELSE UNCHANGED moves
       /\ proof' = IF Concerns("running") THEN Interrupted(proof, away) ELSE proof
  /\ UNCHANGED <<selected, status, viewer, owned, switchPending, leftAge,
                 releaseRequested, sinceToggle, attaching, blockedWait, memories, queue,
                 quitting, worker, failAs, todo, running, leftThread, sawUnwatched, windows,
                 quit>>

\* The loop ends with an error: one that passes is waited out and looked at
\* again in this generation, another ends it (run_until_unblocked).
CaptureError ==
  /\ Alive /\ running
  /\ \E passes, away \in BOOLEAN, thread \in {"running", "left", "old"} :
       /\ Speaks(thread, ScreenPhases)
       /\ IF thread = "running" /\ shown THEN Move ELSE UNCHANGED moves
       /\ proof' = IF ~Concerns(thread) THEN proof
                   ELSE IF passes
                   THEN [Interrupted(proof, away) EXCEPT !.failed = TRUE, !.pending = FALSE]
                   ELSE [proof EXCEPT !.interrupted = FALSE, !.failed = TRUE,
                                      !.pending = FALSE, !.current = FALSE]
       /\ leftThread' = (leftThread /\ thread # "left")
       /\ capture' = IF thread # "running" THEN capture
                     ELSE IF passes THEN "look" ELSE "none"
       /\ running' = (running /\ (thread # "running" \/ passes))
  /\ UNCHANGED <<selected, status, viewer, owned, switchPending, leftAge,
                 releaseRequested, sinceToggle, attaching, blockedWait, memories, queue,
                 quitting, worker, failAs, todo, sawUnwatched, windows, quit>>

\* note_image: the picture is there, and a saved failure is forgotten.
Image ==
  /\ Alive
  /\ \E thread \in {"running", "left", "old"} :
       /\ Speaks(thread, {"screen"})
       /\ pictured' = (pictured \/ (shown /\ thread # "old"))
       /\ thread # "old" => shown
       /\ leftThread' = (leftThread /\ thread # "left")
       /\ IF Concerns(thread)
          THEN proof' = NoProof /\ ForgetOnSuccess
          ELSE UNCHANGED <<proof, memories>>
  /\ UNCHANGED <<selected, status, viewer, owned, switchPending, leftAge,
                 releaseRequested, sinceToggle, attaching, blockedWait, queue, quitting,
                 worker, failAs, todo, running, capture, sawUnwatched, enabled, shown, stray,
                 neglected, quit, moves>>

-------------------------------------------------------------------------------
(* The worker: run, attach, release, disable *)

Selected == selected /\ ~quitting

\* The claim is queued or being worked on: a release must leave it alone.
WantedByStatus == selected /\ status \in {"waiting", "attaching"}
Wanted == selected /\ attaching

WorkerOnly == UNCHANGED <<selected, viewer, memories, quitting, todo, pipeline, quit, moves>>

Take ==
  /\ Alive /\ worker = "idle" /\ ~quitting /\ queue # <<>>
  /\ queue' = Tail(queue)
  /\ worker' = IF Head(queue) = "attach" THEN "attach" ELSE "release"
  /\ WorkerOnly /\ UNCHANGED <<status, owned, state, failAs, windows>>

\* attach, up to the Enable. The display may still be on from before.
AttachBegins ==
  /\ Alive /\ worker = "attach" /\ worker' = IF Selected THEN "reuse" ELSE "exit"
  /\ WorkerOnly /\ UNCHANGED <<status, owned, state, queue, failAs, windows>>

Reuse ==
  /\ Alive /\ worker = "reuse"
  /\ IF Attached
     THEN /\ worker' = "exit" /\ NoteAttached
          /\ UNCHANGED <<leftAge, releaseRequested, sinceToggle, attaching, blockedWait,
                         enabled, shown, stray>>
     ELSE worker' = "attachGap" /\ UNCHANGED <<status, owned, state, windows>>
  /\ WorkerOnly /\ UNCHANGED <<queue, failAs>>

\* wait_for_toggle_gap.
GapOver == sinceToggle = Gap
AttachGap ==
  /\ Alive /\ worker = "attachGap"
  /\ \/ ~Selected /\ worker' = "exit"
     \/ Selected /\ GapOver /\ worker' = "viewer"
  /\ WorkerOnly /\ UNCHANGED <<status, owned, state, queue, failAs, windows>>

\* client_connected: a session on hold still counts.
\* The stream may be restarting; after STOPPED_WAIT it is left off.
AttachViewer ==
  /\ Alive /\ worker = "viewer"
  /\ worker' = IF viewer # "gone" /\ running THEN "lock" ELSE "exit"
  /\ WorkerOnly /\ UNCHANGED <<status, owned, state, queue, failAs, windows>>

\* enable: under the enable lock, never once quitting began.
EnableUnchecked ==
  /\ Alive /\ worker = "lock" /\ worker' = "enabling"
  /\ WorkerOnly /\ UNCHANGED <<status, owned, state, queue, failAs, windows>>
EnableBegins ==
  /\ Alive /\ worker = "lock" /\ worker' = IF quitting THEN "exit" ELSE "enabling"
  /\ WorkerOnly /\ UNCHANGED <<status, owned, state, queue, failAs, windows>>

\* The task worked; it failed and names the device it enabled; or it failed
\* and the device is missing, off, or on all the same.
EnableEnds ==
  /\ Alive /\ worker = "enabling" /\ NoteToggle
  /\ \/ worker' = "await" /\ enabled' = TRUE /\ UNCHANGED <<failAs, stray, moves>>
     \/ worker' = "offGap" /\ failAs' = "taskFailed" /\ enabled' = TRUE /\ Move
        /\ UNCHANGED stray
     \/ worker' = "refused" /\ Move /\ UNCHANGED failAs
        /\ \/ enabled' = TRUE /\ stray' = TRUE
           \/ UNCHANGED <<enabled, stray>>
  /\ UNCHANGED <<selected, viewer, memories, quitting, todo, pipeline, quit>>
  /\ UNCHANGED <<status, owned, switchPending, leftAge, attaching, proof, blockedWait,
                 queue, shown, neglected, pictured>>

\* The Enable failed and nothing is turned off.
Refused ==
  /\ Alive /\ worker = "refused" /\ worker' = "exit" /\ status' = "taskFailed"
  /\ WorkerOnly /\ UNCHANGED <<owned, state, queue, failAs, windows>>

\* wait_for_virtual_output: the mode changed, the output is there, or not.
AwaitForgets ==
  /\ Alive /\ worker = "await"
  /\ \/ ~Selected /\ worker' = "exit" /\ UNCHANGED failAs
     \/ Selected /\ shown /\ worker' = "settle" /\ UNCHANGED failAs
     \/ Selected /\ ~shown /\ worker' = "offGap" /\ failAs' = "failed"
  /\ WorkerOnly /\ UNCHANGED <<status, owned, state, queue, windows>>
Await ==
  /\ Alive /\ worker = "await"
  /\ \/ ~Selected /\ worker' = (IF quitting THEN "exit" ELSE "offGap") /\ UNCHANGED failAs
     \/ Selected /\ shown /\ worker' = "settle" /\ UNCHANGED failAs
     \/ Selected /\ ~shown /\ worker' = "offGap" /\ failAs' = "failed"
  /\ WorkerOnly /\ UNCHANGED <<status, owned, state, queue, windows>>

\* note_attached_if_selected, once the display's mode is set.
NotesAttached ==
  /\ Alive /\ worker = "settle"
  /\ IF Selected
     THEN /\ worker' = "exit" /\ NoteAttached
          /\ UNCHANGED <<leftAge, releaseRequested, sinceToggle, attaching, blockedWait,
                         enabled, shown, stray>>
     ELSE /\ worker' = IF quitting THEN "exit" ELSE "offGap"
          /\ UNCHANGED <<status, owned, state, windows>>
  /\ WorkerOnly /\ UNCHANGED <<queue, failAs>>

\* disable: after the gap, unless quitting, which turns it off at once.
OffAtOnce ==
  /\ Alive /\ worker = "offGap"
  /\ worker' = IF quitting THEN "forget" ELSE "turningOff"
  /\ WorkerOnly /\ UNCHANGED <<status, owned, state, queue, failAs, windows>>
OffGap ==
  /\ Alive /\ worker = "offGap"
  /\ \/ quitting /\ worker' = "forget"
     \/ ~quitting /\ GapOver /\ worker' = "turningOff"
  /\ WorkerOnly /\ UNCHANGED <<status, owned, state, queue, failAs, windows>>

\* The Disable task works, or fails and leaves the display on.
TurnOff ==
  \/ enabled' = FALSE /\ shown' = FALSE /\ stray' = FALSE
     /\ UNCHANGED <<neglected, pictured, moves>>
  \/ enabled /\ stray' = TRUE /\ Move
     /\ UNCHANGED <<enabled, shown, neglected, pictured>>

OffEnds ==
  /\ Alive /\ worker = "turningOff" /\ worker' = "forget"
  /\ TurnOff /\ NoteToggle
  /\ UNCHANGED <<selected, viewer, memories, quitting, todo, pipeline, quit, status, owned,
                 switchPending, leftAge, attaching, proof, blockedWait, queue, failAs>>

\* attach reports how it failed, once the display is off again.
AttachFails ==
  /\ Alive /\ worker = "forget" /\ worker' = "exit" /\ failAs' = "none"
  /\ owned' = FALSE
  /\ CASE failAs = "none" -> UNCHANGED <<status, blockedWait, memories>>
       [] failAs = "taskFailed" -> status' = "taskFailed" /\ UNCHANGED <<blockedWait, memories>>
       [] failAs = "failed" ->
            /\ status' = "failed"
            /\ \E blocked \in Blocked, away, copied \in BOOLEAN :
                 /\ rule' = rule
                 /\ blockedWait' = (blocked /\ copied)
                 /\ IF blocked THEN UNCHANGED <<memory, excused>>
                    ELSE IF away THEN excused' = TRUE /\ UNCHANGED memory
                    ELSE NoteFailure
  /\ UNCHANGED <<selected, viewer, quitting, todo, pipeline, quit, moves, switchPending,
                 leftAge, releaseRequested, sinceToggle, attaching, proof, queue, windows>>

\* AttachExit: however attach ends, its claim ends with it.
AttachExitKeepsStatus ==
  /\ Alive /\ worker = "exit" /\ worker' = "idle"
  /\ attaching' = FALSE
  /\ WorkerOnly
  /\ UNCHANGED <<status, owned, switchPending, leftAge, releaseRequested, sinceToggle,
                 proof, blockedWait, queue, failAs, windows>>
AttachExit ==
  /\ Alive /\ worker = "exit" /\ worker' = "idle"
  /\ status' = IF status = "attaching" THEN "waiting" ELSE status
  /\ attaching' = FALSE
  /\ WorkerOnly
  /\ UNCHANGED <<owned, switchPending, leftAge, releaseRequested, sinceToggle, proof,
                 blockedWait, queue, failAs, windows>>

ReleaseBegins ==
  /\ Alive /\ worker = "release"
  /\ worker' = IF ~owned \/ Wanted THEN "idle" ELSE "releaseGap"
  /\ WorkerOnly /\ UNCHANGED <<status, owned, state, queue, failAs, windows>>

ReleaseGap ==
  /\ Alive /\ worker = "releaseGap"
  /\ \/ (Wanted \/ quitting) /\ worker' = "idle"
     \/ ~Wanted /\ ~quitting /\ GapOver /\ worker' = "releasing"
  /\ WorkerOnly /\ UNCHANGED <<status, owned, state, queue, failAs, windows>>

ReleaseEnds ==
  /\ Alive /\ worker = "releasing" /\ worker' = "idle"
  /\ TurnOff /\ owned' = FALSE /\ NoteToggle
  /\ UNCHANGED <<selected, viewer, memories, quitting, todo, pipeline, quit, status,
                 switchPending, leftAge, attaching, proof, blockedWait, queue, failAs>>

-------------------------------------------------------------------------------
(* Windows, and quitting *)

\* The output is listed some time after the Enable, and may go again.
Lists ==
  /\ Alive /\ enabled
  /\ \/ ~shown /\ shown' = TRUE /\ UNCHANGED moves
     \/ shown /\ shown' = FALSE /\ Move
  /\ UNCHANGED <<selected, status, viewer, owned, state, memories, queue, quitting,
                 worker, failAs, todo, pipeline, enabled, stray, neglected, pictured, quit>>

\* main: the stream is stopped first; then shut_down.
Quit ==
  /\ quit = "no" /\ quit' = "asked" /\ Move
  /\ StopPipeline /\ Orphaned
  /\ UNCHANGED <<selected, status, viewer, owned, switchPending, leftAge,
                 releaseRequested, sinceToggle, attaching, blockedWait, memories, queue,
                 quitting, worker, failAs, todo, windows>>

ShutDown ==
  /\ quit = "asked" /\ ~quitting /\ quitting' = TRUE
  /\ UNCHANGED <<selected, status, viewer, owned, state, memories, queue, worker, failAs,
                 todo, pipeline, windows, quit, moves>>

\* shut_down has the enable lock, so no Enable is in flight; the Disable
\* waits for one already running. The worker may still be at work.
DisplayOffAtQuit ==
  /\ quitting /\ quit = "asked" /\ worker \notin {"enabling", "turningOff", "releasing"}
  /\ quit' = "off" /\ TurnOff
  /\ UNCHANGED <<selected, status, viewer, owned, state, memories, queue, quitting, worker,
                 failAs, todo, pipeline>>

Exit ==
  /\ quit = "off" /\ quit' = "done"
  /\ UNCHANGED <<selected, status, viewer, owned, state, memories, queue, quitting, worker,
                 failAs, todo, pipeline, windows, moves>>

-------------------------------------------------------------------------------
Transport == Decide \/ CarryOut
Capturing ==
  Look \/ Prove \/ Settle \/ DriverCall \/ Opens \/ RetryFails \/ Loses
  \/ CaptureError \/ Image
Attaching ==
  AttachBegins \/ Reuse \/ AttachGap \/ AttachViewer \/ EnableBegins
  \/ EnableEnds \/ Refused \/ Await \/ NotesAttached \/ AttachExit
TurningOff == OffGap \/ OffEnds \/ AttachFails \/ ReleaseBegins \/ ReleaseGap \/ ReleaseEnds
Working == Take \/ Attaching \/ TurningOff
Outside == Arrive \/ Fade \/ Select \/ Retry \/ Restart \/ Lists \/ Quit
Quitting == ShutDown \/ DisplayOffAtQuit \/ Exit

Next ==
  Transport \/ Capturing \/ Working \/ Outside \/ Quitting \/ Watchdog
  \/ StartPipeline \/ Pass \/ WaitOver

Spec == Init /\ [][Next]_vars

\* The threads go on, driver calls and holds end within their limits, and
\* time passes. Nothing is assumed of users, viewers, Windows or images.
Fairness ==
  /\ WF_vars(viewer = "held" /\ Fade)
  /\ WF_vars(Decide) /\ WF_vars(CarryOut) /\ WF_vars(StartPipeline) /\ WF_vars(Pass)
  /\ WF_vars(Watchdog) /\ WF_vars(Working) /\ WF_vars(Quitting)
  /\ WF_vars(Look) /\ WF_vars(Prove) /\ WF_vars(Settle) /\ WF_vars(DriverCall)
  /\ WF_vars(capture \in {"opening", "retrying"} /\ (Opens \/ RetryFails \/ CaptureError))

FairSpec == Spec /\ Fairness

-------------------------------------------------------------------------------
(* Properties *)

\* A display that is on is somebody's: recorded as ours, so that a capture
\* generation releases it, or still in the hands of the worker or the quit.
\* Only an Enable that failed without naming the device, or a Disable that
\* failed, can leave one behind.
DisplayAccounted ==
  enabled /\ ~stray =>
    owned \/ quitting \/ worker \in {"await", "settle", "offGap", "turningOff", "forget"}

\* The Disable at quit is the last change of the display, whatever the
\* worker was doing when quitting began.
OffAfterQuit == quit \in {"off", "done"} => ~enabled \/ stray

\* While the app runs, the display is not changed again within the gap.
TogglesApart == [][enabled' # enabled /\ ~quitting => sinceToggle = Gap]_vars

\* The display is accounted for, off for good after quitting, and not toggled
\* in quick succession, in every interleaving of the worker with the rest.
DisplayKept == [](DisplayAccounted /\ OffAfterQuit) /\ TogglesApart

\* A saved failure is forgotten for a picture of this second screen, another
\* mode or Try again, and for nothing an older capture thread reports.
ForgottenForCause ==
  [][memory # "clear" /\ memory' = "clear" => pictured' \/ ~selected \/ Retry]_vars

NobodyComesBack == <>[](viewer = "gone" /\ selected /\ quit = "no")

\* Once the viewer is gone for good the display is turned off, whatever was
\* under way: a start, a proof, a release or a fallback. Only a generation
\* that called it waiting on what it read before Windows listed the displays,
\* and a reuse that keeps an old request, can leave it on.
UnwatchedGoesOff == NobodyComesBack => <>[](~enabled \/ stray \/ neglected)

\* transport/mod.rs, of a display whose viewer is gone: "next_step turns it
\* off once the grace period ends".
GraceTurnsOff == NobodyComesBack => <>[](~enabled \/ stray)

\* A claim stands only while its attach is to be sent, queued or worked on,
\* or the app quits: no failure, retry, mode change or second claim strands a
\* viewer on a start that nobody makes (AttachExit, State::step).
ClaimWorked ==
  status = "attaching" =>
    /\ attaching
    /\ \/ quitting \/ todo = "attach" \/ \E i \in 1..Len(queue) : queue[i] = "attach"
       \/ worker \in WorkerSteps \ {"idle", "release", "releaseGap", "releasing"}

\* A start that was claimed ends, so no viewer waits for it for ever.
ClaimEnds == status = "attaching" /\ quit = "no" ~> status # "attaching" \/ quit # "no"

\* The second screen a viewer is shown has a picture in the end, or the
\* stream goes back to the mirror.
PictureOrMirror ==
  capture \in ScreenPhases ~> pictured \/ capture = "mirror" \/ viewer = "gone" \/ quit # "no"

===============================================================================
