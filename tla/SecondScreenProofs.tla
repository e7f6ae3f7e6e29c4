-------------------------- MODULE SecondScreenProofs --------------------------
(***************************************************************************)
(* Theorems about SecondScreen, for every gap, grace period, limit and     *)
(* bound.                                                                  *)
(***************************************************************************)
EXTENDS SecondScreen, TLAPS

-------------------------------------------------------------------------------
(* Type correctness. *)

LEMMA Ages ==
  /\ None \in LeftAges /\ 0 \in LeftAges
  /\ 0 \in ToggleAges /\ Gap \in ToggleAges
  /\ \A age \in LeftAges : Later(age, Grace) \in LeftAges
  /\ \A age \in ToggleAges : Later(age, Gap) \in ToggleAges
  /\ 0 \in MoveCounts
  /\ Move /\ moves \in MoveCounts => moves' \in MoveCounts
BY TimingAssumption DEF LeftAges, ToggleAges, MoveCounts, Later, None, Move

LEMMA ProofForms ==
  ASSUME NEW p \in Proof
  PROVE  /\ NoProof \in Proof
         /\ [NoProof EXCEPT !.on = TRUE, !.current = TRUE] \in Proof
         /\ [p EXCEPT !.current = FALSE] \in Proof
         /\ [p EXCEPT !.age = Later(@, ProveTime)] \in Proof
         /\ \A pending \in BOOLEAN : [p EXCEPT !.current = TRUE, !.pending = pending] \in Proof
         /\ [p EXCEPT !.pending = TRUE] \in Proof /\ [p EXCEPT !.pending = FALSE] \in Proof
         /\ [p EXCEPT !.pending = FALSE, !.interrupted = FALSE, !.age = 0] \in Proof
         /\ \A passes \in BOOLEAN : [p EXCEPT !.pending = FALSE, !.interrupted = passes] \in Proof
         /\ [p EXCEPT !.interrupted = FALSE, !.failed = TRUE, !.pending = FALSE,
                      !.current = FALSE] \in Proof
         /\ [p EXCEPT !.failed = TRUE, !.pending = FALSE] \in Proof
         /\ \A away \in BOOLEAN : Interrupted(p, away) \in Proof
<1>1. NoProof \in Proof
  BY TimingAssumption DEF NoProof, Proof
<1>2. Later(p.age, ProveTime) \in 0 .. ProveTime
  BY TimingAssumption DEF Later, Proof, None
<1>3. ASSUME NEW away \in BOOLEAN PROVE Interrupted(p, away) \in Proof
  <2>1. (IF p.losses > LossLimit THEN p.losses ELSE p.losses + 1) \in 0 .. (LossLimit + 1)
    BY TimingAssumption DEF Proof
  <2>2. (p.failed \/ p.losses >= LossLimit) \in BOOLEAN
    OBVIOUS
  <2> QED
    BY <2>1, <2>2 DEF Interrupted, Proof
<1>4. /\ [NoProof EXCEPT !.on = TRUE, !.current = TRUE] \in Proof
      /\ [p EXCEPT !.current = FALSE] \in Proof
      /\ \A pending \in BOOLEAN : [p EXCEPT !.current = TRUE, !.pending = pending] \in Proof
      /\ [p EXCEPT !.pending = TRUE] \in Proof /\ [p EXCEPT !.pending = FALSE] \in Proof
  BY <1>1 DEF Proof
<1>5. 0 \in 0..ProveTime
  BY TimingAssumption
<1>6. /\ [p EXCEPT !.pending = FALSE, !.interrupted = FALSE, !.age = 0] \in Proof
      /\ \A passes \in BOOLEAN : [p EXCEPT !.pending = FALSE, !.interrupted = passes] \in Proof
      /\ [p EXCEPT !.interrupted = FALSE, !.failed = TRUE, !.pending = FALSE,
                   !.current = FALSE] \in Proof
      /\ [p EXCEPT !.failed = TRUE, !.pending = FALSE] \in Proof
  BY <1>5 DEF Proof
<1>7. [p EXCEPT !.age = Later(@, ProveTime)] \in Proof
  BY <1>2 DEF Proof
<1> QED
  BY <1>1, <1>3, <1>4, <1>6, <1>7

\* The type invariant, by who keeps what.
ControlType ==
  /\ selected \in BOOLEAN /\ status \in Statuses
  /\ viewer \in {"gone", "held", "here"} /\ owned \in BOOLEAN
  /\ queue \in Seq(Commands) /\ quitting \in BOOLEAN /\ worker \in WorkerSteps
  /\ failAs \in {"none", "failed", "taskFailed"}
  /\ todo \in {"none", "step", "attach", "switch", "release", "fallback"}
  /\ quit \in {"no", "asked", "off", "done"} /\ moves \in MoveCounts
StateType ==
  /\ switchPending \in BOOLEAN /\ leftAge \in LeftAges
  /\ releaseRequested \in BOOLEAN /\ sinceToggle \in ToggleAges
  /\ attaching \in BOOLEAN /\ proof \in Proof /\ blockedWait \in BOOLEAN
MemoryType == memory \in {"clear", "held", "due"} /\ excused \in BOOLEAN /\ rule \in BOOLEAN
PipelineType ==
  /\ running \in BOOLEAN /\ capture \in Phases /\ leftThread \in BOOLEAN
  /\ sawUnwatched \in BOOLEAN
WindowsType ==
  /\ enabled \in BOOLEAN /\ shown \in BOOLEAN /\ stray \in BOOLEAN
  /\ neglected \in BOOLEAN /\ pictured \in BOOLEAN

LEMMA TypeParts ==
  /\ TypeOK <=> ControlType /\ StateType /\ MemoryType /\ PipelineType /\ WindowsType
  /\ TypeOK' <=> ControlType' /\ StateType' /\ MemoryType' /\ PipelineType' /\ WindowsType'
BY DEF TypeOK, ControlType, StateType, MemoryType, PipelineType, WindowsType

LEMMA PartsKept ==
  /\ StateType /\ UNCHANGED state => StateType'
  /\ MemoryType /\ UNCHANGED memories => MemoryType'
  /\ PipelineType /\ UNCHANGED pipeline => PipelineType'
  /\ WindowsType /\ UNCHANGED windows => WindowsType'
BY DEF StateType, MemoryType, PipelineType, WindowsType, state, memories, pipeline, windows

\* What several actions do to a part.
LEMMA MemoryForms ==
  ASSUME MemoryType
  PROVE  /\ NoteFailure /\ rule' = rule => MemoryType'
         /\ ForgetOnSuccess => MemoryType'
         /\ \A passing, blocked : Remember(passing, blocked) => MemoryType'
BY DEF NoteFailure, ForgetOnSuccess, Remember, MemoryType

LEMMA StopPipelineType == ASSUME StopPipeline, proof \in Proof, leftThread \in BOOLEAN
                          PROVE PipelineType'
BY DEF StopPipeline, PipelineType, Phases, Proof

LEMMA FailUnprovenType ==
  ASSUME TypeOK, NEW blocked \in BOOLEAN, NEW away \in BOOLEAN, FailUnproven(blocked, away)
  PROVE  status' \in Statuses /\ StateType' /\ MemoryType'
<1>1. NoProof \in Proof /\ StateType /\ MemoryType
  BY ProofForms, TypeParts DEF StateType
<1> QED
  BY <1>1, Ages, MemoryForms DEF FailUnproven, Remember, StateType, Statuses

LEMMA SendType ==
  ASSUME TypeOK, NEW command \in Commands, Send(command) PROVE queue' \in Seq(Commands)
BY DEF Send, TypeOK

LEMMA DecideType == ASSUME TypeOK, Decide PROVE TypeOK'
<1>1. /\ ControlType /\ StateType /\ MemoryType /\ PipelineType' /\ WindowsType'
      /\ NoProof \in Proof /\ Blocked \subseteq BOOLEAN
  BY TypeParts, PartsKept, ProofForms DEF Decide, Blocked, StateType
<1>2. CASE FallsBack
  <2>1. PICK blocked \in BOOLEAN, away \in BOOLEAN : FailUnproven(blocked, away)
    BY <1>1, <1>2 DEF FallsBack
  <2>2. status' \in Statuses /\ StateType' /\ MemoryType'
    BY <2>1, FailUnprovenType
  <2>3. ControlType'
    BY <1>1, <1>2, <2>2 DEF Decide, FallsBack, ControlType
  <2> QED
    BY <1>1, <2>2, <2>3, TypeParts
<1>3. CASE Deselected \/ Held \/ Claims \/ Watched \/ Unwatched \/ Nothing
  <2>1. ControlType'
    BY <1>1, <1>3
    DEF Decide, Deselected, Held, Claims, Watched, Unwatched, Nothing, ControlType, Statuses
  <2>2. StateType'
    BY <1>1, <1>3, Ages
    DEF Deselected, Held, Claims, Watched, Unwatched, Nothing, StateType, state
  <2>3. MemoryType'
    BY <1>1, <1>3
    DEF Deselected, Held, Claims, Watched, Unwatched, Nothing, NoteFailure, MemoryType, memories
  <2> QED
    BY <1>1, <2>1, <2>2, <2>3, TypeParts
<1> QED
  BY <1>2, <1>3 DEF Decide

LEMMA CarryOutType == ASSUME TypeOK, CarryOut PROVE TypeOK'
<1>1. /\ ControlType /\ StateType /\ MemoryType' /\ PipelineType /\ WindowsType'
      /\ proof \in Proof /\ leftThread \in BOOLEAN
  BY TypeParts, PartsKept DEF CarryOut, StateType, PipelineType
<1>2. queue' \in Seq(Commands)
  BY SendType DEF CarryOut, TypeOK, Commands
<1>3. ControlType'
  BY <1>1, <1>2 DEF CarryOut, ControlType
<1>4. proof' \in Proof /\ PipelineType'
  BY <1>1, StopPipelineType, ProofForms, PartsKept DEF CarryOut, Orphaned
<1>5. StateType'
  BY <1>1, <1>4 DEF CarryOut, StateType
<1> QED
  BY <1>1, <1>3, <1>4, <1>5, TypeParts

LEMMA OutsideType ==
  ASSUME TypeOK, Outside \/ Watchdog \/ StartPipeline \/ Pass \/ WaitOver \/ Quitting
  PROVE  TypeOK'
<1>1. /\ ControlType /\ StateType /\ MemoryType /\ PipelineType /\ WindowsType
      /\ proof \in Proof /\ leftThread \in BOOLEAN /\ moves \in MoveCounts
      /\ (Move => moves' \in MoveCounts)
  BY TypeParts, Ages DEF StateType, PipelineType, ControlType
<1>2. CASE Arrive \/ Fade
  <2>1. status' \in Statuses /\ blockedWait' \in BOOLEAN
    BY <1>1, <1>2 DEF Arrive, Fade, NoteConnected, ControlType, StateType, Statuses, state
  <2>2. StateType'
    BY <1>1, <1>2, <2>1 DEF Arrive, Fade, StateType, state
  <2>3. ControlType'
    BY <1>1, <1>2, <2>1 DEF Arrive, Fade, ControlType
  <2> QED
    BY <1>1, <1>2, <2>2, <2>3, PartsKept, TypeParts DEF Arrive, Fade
<1>3. CASE Select \/ Lists
  <2>1. selected' \in BOOLEAN
    BY <1>1, <1>3 DEF Select, Lists, ControlType
  <2>2. ControlType' /\ WindowsType'
    <3>1. ControlType'
      BY <1>1, <1>3, <2>1 DEF Select, Lists, ControlType
    <3>2. WindowsType'
      BY <1>1, <1>3 DEF Select, Lists, WindowsType, windows
    <3> QED
      BY <3>1, <3>2
  <2> QED
    BY <1>1, <1>3, <2>2, PartsKept, TypeParts DEF Select, Lists
<1>4. CASE Retry
  <2>0. status' \in Statuses /\ blockedWait' \in BOOLEAN
    BY <1>1, <1>4 DEF Retry, ControlType, StateType, Statuses
  <2>1. ControlType' /\ StateType'
    <3>1. ControlType'
      BY <1>1, <1>4, <2>0 DEF Retry, ControlType
    <3>2. StateType'
      BY <1>1, <1>4, <2>0 DEF Retry, StateType
    <3> QED
      BY <3>1, <3>2
  <2> QED
    BY <1>1, <1>4, <2>1, MemoryForms, PartsKept, TypeParts DEF Retry
<1>5. CASE Restart \/ Watchdog \/ Quit
  <2>1. StopPipeline /\ proof' \in Proof
    BY <1>1, <1>5, ProofForms DEF Restart, Watchdog, Quit, Orphaned
  <2>2. ControlType' /\ StateType'
    BY <1>1, <1>5, <2>1 DEF Restart, Watchdog, Quit, ControlType, StateType
  <2> QED
    BY <1>1, <1>5, <2>1, <2>2, StopPipelineType, PartsKept, TypeParts
    DEF Restart, Watchdog, Quit
<1>6. CASE StartPipeline
  <2>1. ControlType' /\ PipelineType'
    BY <1>1, <1>6 DEF StartPipeline, ControlType, PipelineType, Phases
  <2> QED
    BY <1>1, <1>6, <2>1, PartsKept, TypeParts DEF StartPipeline
<1>7. CASE Pass
  <2>1. /\ sinceToggle' \in ToggleAges /\ leftAge' \in LeftAges /\ proof' \in Proof
    BY <1>1, <1>7, Ages, ProofForms DEF Pass, StateType
  <2>2. ControlType' /\ StateType'
    BY <1>1, <1>7, <2>1 DEF Pass, ControlType, StateType
  <2> QED
    BY <1>1, <1>7, <2>2, PartsKept, TypeParts DEF Pass
<1>8. CASE WaitOver
  <2>1. ControlType' /\ StateType' /\ MemoryType'
    <3>1. ControlType'
      BY <1>1, <1>8 DEF WaitOver, ControlType
    <3>2. StateType' /\ MemoryType'
      BY <1>1, <1>8 DEF WaitOver, StateType, MemoryType
    <3> QED
      BY <3>1, <3>2
  <2> QED
    BY <1>1, <1>8, <2>1, PartsKept, TypeParts DEF WaitOver
<1>9. CASE Quitting
  <2>1. ControlType' /\ WindowsType'
    <3>1. ControlType'
      BY <1>1, <1>9 DEF Quitting, ShutDown, DisplayOffAtQuit, Exit, TurnOff, ControlType
    <3>2. WindowsType'
      BY <1>1, <1>9
      DEF Quitting, ShutDown, DisplayOffAtQuit, Exit, TurnOff, WindowsType, windows
    <3> QED
      BY <3>1, <3>2
  <2> QED
    BY <1>1, <1>9, <2>1, PartsKept, TypeParts DEF Quitting, ShutDown, DisplayOffAtQuit, Exit
<1> QED
  BY <1>2, <1>3, <1>4, <1>5, <1>6, <1>7, <1>8, <1>9 DEF Outside

LEMMA CapturingType == ASSUME TypeOK, Capturing PROVE TypeOK'
<1>1. /\ ControlType /\ StateType /\ MemoryType /\ PipelineType /\ WindowsType
      /\ proof \in Proof /\ leftThread \in BOOLEAN
      /\ (Move => moves' \in MoveCounts)
  BY TypeParts, Ages DEF StateType, PipelineType, ControlType
<1>2. CASE Look
  <2>1. queue' \in Seq(Commands) /\ PipelineType'
    BY <1>1, <1>2, SendType
    DEF Look, TypeOK, ControlType, PipelineType, Phases, Commands
  <2>2. status' \in Statuses /\ StateType' /\ MemoryType'
    <3>1. CASE selected /\ Unproven
      <4>1. PICK blocked \in BOOLEAN, away \in BOOLEAN : FailUnproven(blocked, away)
        BY <1>2, <3>1 DEF Look, Blocked
      <4> QED
        BY <4>1, FailUnprovenType
    <3>2. CASE ~(selected /\ Unproven)
      BY <1>1, <1>2, <3>2, PartsKept DEF Look, ControlType, Statuses
    <3> QED
      BY <3>1, <3>2
  <2>3. ControlType'
    BY <1>1, <1>2, <2>1, <2>2 DEF Look, ControlType
  <2> QED
    BY <1>1, <1>2, <2>1, <2>2, <2>3, PartsKept, TypeParts DEF Look
<1>3. CASE Settle
  <2>1. queue' \in Seq(Commands) /\ neglected' \in BOOLEAN
    BY <1>1, <1>3, SendType DEF Settle, ControlType, Commands
  <2>2. ControlType' /\ PipelineType' /\ WindowsType'
    BY <1>1, <1>3, <2>1
    DEF Settle, ControlType, Statuses, PipelineType, Phases, WindowsType
  <2> QED
    BY <1>1, <1>3, <2>2, PartsKept, TypeParts DEF Settle
<1>4. CASE Prove \/ DriverCall \/ Opens \/ RetryFails
  <2>1. proof' \in Proof
    <3>1. (proof.pending /\ proof.current) \in BOOLEAN
      OBVIOUS
    <3> QED
      BY <1>1, <1>4, <3>1, ProofForms DEF Prove, DriverCall, Opens, RetryFails
  <2>2. ControlType' /\ StateType' /\ PipelineType'
    <3>1. ControlType'
      BY <1>1, <1>4 DEF Prove, DriverCall, Opens, RetryFails, ControlType
    <3>2. StateType' /\ PipelineType'
      BY <1>1, <1>4, <2>1
      DEF Prove, DriverCall, Opens, RetryFails, StateType, PipelineType, Phases
    <3> QED
      BY <3>1, <3>2
  <2> QED
    BY <1>1, <1>4, <2>2, PartsKept, TypeParts DEF Prove, DriverCall, Opens, RetryFails
<1>5. CASE Loses
  <2>1. proof' \in Proof
    BY <1>1, <1>5, ProofForms DEF Loses
  <2>2. ControlType' /\ StateType' /\ PipelineType'
    <3>0. moves' \in MoveCounts
      BY <1>1, <1>5 DEF Loses, ControlType
    <3>1. ControlType'
      BY <1>1, <1>5, <3>0 DEF Loses, ControlType
    <3>2. StateType' /\ PipelineType'
      BY <1>1, <1>5, <2>1 DEF Loses, StateType, PipelineType, Phases
    <3> QED
      BY <3>1, <3>2
  <2> QED
    BY <1>1, <1>5, <2>2, PartsKept, TypeParts DEF Loses
<1>6. CASE CaptureError
  <2>1. PICK passes \in BOOLEAN, away \in BOOLEAN, thread \in {"running", "left", "old"} :
          /\ IF thread = "running" /\ shown THEN Move ELSE UNCHANGED moves
          /\ proof' = IF ~Concerns(thread) THEN proof
                      ELSE IF passes
                      THEN [Interrupted(proof, away) EXCEPT !.failed = TRUE, !.pending = FALSE]
                      ELSE [proof EXCEPT !.interrupted = FALSE, !.failed = TRUE,
                                         !.pending = FALSE, !.current = FALSE]
          /\ leftThread' = (leftThread /\ thread # "left")
          /\ capture' = IF thread # "running" THEN capture
                        ELSE IF passes THEN "look" ELSE "none"
          /\ running' = (running /\ (thread # "running" \/ passes))
    BY <1>6, ZenonT(60) DEF CaptureError
  <2>2. Interrupted(proof, away) \in Proof
    BY <1>1, ProofForms
  <2>3. [Interrupted(proof, away) EXCEPT !.failed = TRUE, !.pending = FALSE] \in Proof
    BY <2>2, ProofForms
  <2>4. proof' \in Proof
    BY <1>1, <2>1, <2>3, ProofForms
  <2>5. moves' \in MoveCounts
    BY <1>1, <2>1 DEF ControlType
  <2>6. leftThread' \in BOOLEAN /\ running' \in BOOLEAN
    BY <2>1
  <2>7. ControlType' /\ StateType'
    BY <1>1, <1>6, <2>4, <2>5 DEF CaptureError, ControlType, StateType
  <2>8. PipelineType'
    BY <1>1, <1>6, <2>1, <2>6 DEF CaptureError, PipelineType, Phases
  <2> QED
    BY <1>1, <1>6, <2>7, <2>8, PartsKept, TypeParts DEF CaptureError
<1>7. CASE Image
  <2>1. NoProof \in Proof
    BY <1>1, ProofForms
  <2>2. pictured' \in BOOLEAN /\ leftThread' \in BOOLEAN
    BY <1>7 DEF Image
  <2>3. ControlType' /\ StateType'
    BY <1>1, <1>7, <2>1 DEF Image, ControlType, StateType
  <2>4. PipelineType' /\ WindowsType'
    BY <1>1, <1>7, <2>2 DEF Image, PipelineType, WindowsType
  <2>5. MemoryType'
    BY <1>1, <1>7, MemoryForms, PartsKept DEF Image
  <2> QED
    BY <2>3, <2>4, <2>5, TypeParts
<1> QED
  BY <1>2, <1>3, <1>4, <1>5, <1>6, <1>7 DEF Capturing

LEMMA WorkingType == ASSUME TypeOK, Working PROVE TypeOK'
<1> USE DEF WorkerOnly
<1>1. /\ ControlType /\ StateType /\ MemoryType /\ PipelineType /\ WindowsType
      /\ NoProof \in Proof /\ (Move => moves' \in MoveCounts)
  BY TypeParts, Ages, ProofForms DEF StateType, ControlType
<1>2. CASE Take
  <2>1. ControlType'
    BY <1>1, <1>2 DEF Take, ControlType, WorkerSteps
  <2> QED
    BY <1>1, <1>2, <2>1, PartsKept, TypeParts DEF Take
<1>3. CASE Attaching
  <2>1. ControlType'
    BY <1>1, <1>3, ZenonT(60)
    DEF Attaching, AttachBegins, Reuse, AttachGap, AttachViewer, EnableBegins, EnableEnds,
        Refused, Await, NotesAttached, AttachExit, NoteAttached, ControlType, WorkerSteps,
        Statuses
  <2>2. StateType'
    BY <1>1, <1>3, Ages
    DEF Attaching, AttachBegins, Reuse, AttachGap, AttachViewer, EnableBegins, EnableEnds,
        Refused, Await, NotesAttached, AttachExit, NoteAttached, NoteToggle, StateType, state
  <2>3. WindowsType'
    BY <1>1, <1>3
    DEF Attaching, AttachBegins, Reuse, AttachGap, AttachViewer, EnableBegins, EnableEnds,
        Refused, Await, NotesAttached, AttachExit, NoteAttached, WindowsType, windows, StateType
  <2>4. UNCHANGED <<memories, pipeline>>
    BY <1>3
    DEF Attaching, AttachBegins, Reuse, AttachGap, AttachViewer, EnableBegins, EnableEnds,
        Refused, Await, NotesAttached, AttachExit
  <2> QED
    BY <1>1, <2>1, <2>2, <2>3, <2>4, PartsKept, TypeParts
<1>4. CASE OffGap \/ ReleaseBegins \/ ReleaseGap
  <2>1. ControlType'
    BY <1>1, <1>4 DEF OffGap, ReleaseBegins, ReleaseGap, ControlType, WorkerSteps
  <2> QED
    BY <1>1, <1>4, <2>1, PartsKept, TypeParts DEF OffGap, ReleaseBegins, ReleaseGap
<1>5. CASE OffEnds \/ ReleaseEnds
  <2>1. ControlType' /\ WindowsType'
    BY <1>1, <1>5, ZenonT(60) DEF OffEnds, ReleaseEnds, TurnOff, ControlType, WorkerSteps, WindowsType
  <2>2. StateType'
    BY <1>1, <1>5, Ages DEF OffEnds, ReleaseEnds, NoteToggle, StateType
  <2> QED
    BY <1>1, <1>5, <2>1, <2>2, PartsKept, TypeParts DEF OffEnds, ReleaseEnds
<1>6. CASE AttachFails
  <2>1. status' \in Statuses /\ blockedWait' \in BOOLEAN /\ MemoryType'
    <3>1. CASE failAs = "none"
      BY <1>1, <1>6, <3>1, PartsKept DEF AttachFails, ControlType, StateType
    <3>2. CASE failAs = "taskFailed"
      BY <1>1, <1>6, <3>2, PartsKept DEF AttachFails, Statuses, StateType
    <3>3. CASE failAs = "failed"
      BY <1>1, <1>6, <3>3 DEF AttachFails, NoteFailure, Statuses, MemoryType
    <3> QED
      BY <1>1, <3>1, <3>2, <3>3 DEF ControlType
  <2>2. ControlType' /\ StateType'
    BY <1>1, <1>6, <2>1, ZenonT(60) DEF AttachFails, ControlType, WorkerSteps, StateType
  <2> QED
    BY <1>1, <1>6, <2>1, <2>2, PartsKept, TypeParts DEF AttachFails
<1> QED
  BY <1>2, <1>3, <1>4, <1>5, <1>6 DEF Working, TurningOff

\* Every step keeps the state well-typed: the ages stop at their limits and a
\* proof counts at most one loss past its limit, whatever order the four
\* threads take turns in.
THEOREM TypeCorrect == Spec => []TypeOK
<1>1. Init => TypeOK
  <2> SUFFICES ASSUME Init PROVE TypeOK
    OBVIOUS
  <2>1. NoProof \in Proof
    BY TimingAssumption DEF NoProof, Proof
  <2>2. ControlType
    <3>1. << >> \in Seq(Commands)
      OBVIOUS
    <3> QED
      BY <3>1, Ages DEF Init, ControlType, Statuses, WorkerSteps
  <2>3. StateType
    BY <2>1, Ages DEF Init, StateType
  <2>4. MemoryType /\ PipelineType /\ WindowsType
    BY TimingAssumption DEF Init, MemoryType, PipelineType, WindowsType, Phases
  <2> QED
    BY <2>2, <2>3, <2>4, TypeParts
<1>2. TypeOK /\ [Next]_vars => TypeOK'
  <2>1. ControlType /\ UNCHANGED vars => ControlType'
    BY DEF vars, ControlType
  <2>2. TypeOK /\ UNCHANGED vars => TypeOK'
    BY <2>1, TypeParts, PartsKept DEF vars
  <2> QED
    BY <2>2, DecideType, CarryOutType, OutsideType, CapturingType, WorkingType
    DEF Next, Transport
<1> QED
  BY <1>1, <1>2, PTL DEF Spec

-------------------------------------------------------------------------------
(* The display: who answers for it, and when it may change. *)

\* What the theorem about the display is about.
display == <<owned, quitting, worker, sinceToggle, enabled, stray, quit>>

\* The worker's places between the wait for the gap and the change itself.
PastGap == {"viewer", "lock", "enabling", "turningOff", "releasing"}

\* A display that is on has an owner; at the end of an attach that failed it
\* is off.  Past the gap nothing else toggles it.  After the Disable at quit
\* no Enable is under way, and none begins.
DisplayInv ==
  /\ DisplayAccounted
  /\ worker = "forget" => ~enabled \/ stray \/ quitting
  /\ worker \in PastGap /\ ~quitting => sinceToggle = Gap
  /\ quit \in {"off", "done"} => quitting /\ worker # "enabling" /\ (~enabled \/ stray)

LEMMA DisplayUnchanged ==
  ASSUME DisplayInv, UNCHANGED display
  PROVE  DisplayInv' /\ (enabled' # enabled /\ ~quitting => sinceToggle = Gap)
BY DEF DisplayInv, DisplayAccounted, PastGap, display

LEMMA TransportLeavesDisplay ==
  ASSUME Transport \/ Capturing PROVE UNCHANGED display
<1> USE DEF display, state, memories, windows, pipeline
<1>1. CASE Decide
  BY <1>1 DEF Decide, Deselected, FallsBack, FailUnproven, Held, Claims, Watched, Unwatched,
              Nothing
<1>2. CASE CarryOut
  BY <1>2 DEF CarryOut
<1>3. CASE Look
  BY <1>3 DEF Look, FailUnproven
<1>4. CASE Prove \/ Settle \/ DriverCall \/ Opens \/ RetryFails \/ Loses \/ CaptureError \/ Image
  BY <1>4 DEF Prove, Settle, DriverCall, Opens, RetryFails, Loses, CaptureError, Image
<1> QED
  BY <1>1, <1>2, <1>3, <1>4 DEF Transport, Capturing

LEMMA OutsideLeavesDisplay ==
  ASSUME Arrive \/ Fade \/ Select \/ Retry \/ Restart \/ Watchdog \/ StartPipeline \/ WaitOver
         \/ Lists
  PROVE  UNCHANGED display
BY DEF Arrive, Fade, Select, Retry, Restart, Lists, Watchdog, StartPipeline, WaitOver, display,
       state, memories, windows, pipeline

\* Time passes: a gap that is over stays over.
LEMMA PassKeeps ==
  ASSUME DisplayInv, Pass
  PROVE  DisplayInv' /\ (enabled' # enabled /\ ~quitting => sinceToggle = Gap)
<1>1. sinceToggle = Gap => sinceToggle' = Gap
  BY DEF Pass, Later
<1>2. UNCHANGED <<owned, quitting, worker, enabled, stray, quit>>
  BY DEF Pass, windows
<1> QED
  BY <1>1, <1>2 DEF DisplayInv, DisplayAccounted, PastGap

LEMMA AttachingKeeps ==
  ASSUME DisplayInv, Take \/ Attaching
  PROVE  DisplayInv' /\ (enabled' # enabled /\ ~quitting => sinceToggle = Gap)
<1> USE DEF DisplayInv, DisplayAccounted, PastGap, WorkerOnly, state, windows, pipeline, memories
<1>1. CASE Take \/ AttachBegins
  BY <1>1 DEF Take, AttachBegins
<1>2. CASE Reuse
  BY <1>2 DEF Reuse, NoteAttached
<1>3. CASE AttachGap
  BY <1>3 DEF AttachGap, GapOver, Selected
<1>4. CASE AttachViewer \/ EnableBegins
  BY <1>4 DEF AttachViewer, EnableBegins
<1>5. CASE EnableEnds
  BY <1>5 DEF EnableEnds, NoteToggle
<1>6. CASE Refused \/ AttachExit
  BY <1>6 DEF Refused, AttachExit
<1>7. CASE Await
  BY <1>7 DEF Await, Selected
<1>8. CASE NotesAttached
  BY <1>8 DEF NotesAttached, NoteAttached, Selected
<1> QED
  BY <1>1, <1>2, <1>3, <1>4, <1>5, <1>6, <1>7, <1>8 DEF Attaching

LEMMA TurningOffKeeps ==
  ASSUME DisplayInv, TurningOff
  PROVE  DisplayInv' /\ (enabled' # enabled /\ ~quitting => sinceToggle = Gap)
<1> USE DEF DisplayInv, DisplayAccounted, PastGap, WorkerOnly, state, windows, pipeline, memories
<1>1. CASE OffGap
  BY <1>1 DEF OffGap, GapOver
<1>2. CASE OffEnds
  BY <1>2 DEF OffEnds, TurnOff, NoteToggle
<1>3. CASE AttachFails
  <2>1. UNCHANGED <<quitting, sinceToggle, enabled, stray, quit>> /\ worker = "forget"
        /\ worker' = "exit"
    BY <1>3 DEF AttachFails
  <2> QED
    BY <2>1
<1>4. CASE ReleaseBegins \/ ReleaseGap
  BY <1>4 DEF ReleaseBegins, ReleaseGap, GapOver
<1>5. CASE ReleaseEnds
  BY <1>5 DEF ReleaseEnds, TurnOff, NoteToggle
<1> QED
  BY <1>1, <1>2, <1>3, <1>4, <1>5 DEF TurningOff

LEMMA QuittingKeeps ==
  ASSUME DisplayInv, Quit \/ Quitting
  PROVE  DisplayInv' /\ (enabled' # enabled /\ ~quitting => sinceToggle = Gap)
<1> USE DEF DisplayInv, DisplayAccounted, PastGap, state, windows, pipeline, memories
<1>1. CASE Quit \/ ShutDown \/ Exit
  BY <1>1 DEF Quit, ShutDown, Exit
<1>2. CASE DisplayOffAtQuit
  BY <1>2 DEF DisplayOffAtQuit, TurnOff
<1> QED
  BY <1>1, <1>2 DEF Quitting

LEMMA DisplayStep ==
  ASSUME DisplayInv, [Next]_vars
  PROVE  DisplayInv' /\ (enabled' # enabled /\ ~quitting => sinceToggle = Gap)
<1>1. CASE UNCHANGED vars
  <2>1. UNCHANGED display
    BY <1>1 DEF vars, display, state, windows
  <2> QED
    BY <2>1, DisplayUnchanged
<1>2. CASE Transport \/ Capturing
  BY <1>2, TransportLeavesDisplay, DisplayUnchanged
<1>3. CASE Arrive \/ Fade \/ Select \/ Retry \/ Restart \/ Watchdog \/ StartPipeline \/ WaitOver
           \/ Lists
  BY <1>3, OutsideLeavesDisplay, DisplayUnchanged
<1>4. CASE Pass \/ Working \/ Quit \/ Quitting
  BY <1>4, PassKeeps, AttachingKeeps, TurningOffKeeps, QuittingKeeps DEF Working
<1> QED
  BY <1>1, <1>2, <1>3, <1>4 DEF Next, Outside

LEMMA DisplayInvariant == Spec => []DisplayInv
<1>1. Init => DisplayInv
  BY DEF Init, DisplayInv, DisplayAccounted, PastGap
<1>2. DisplayInv /\ [Next]_vars => DisplayInv'
  BY DisplayStep
<1> QED
  BY <1>1, <1>2, PTL DEF Spec

\* The display is accounted for while the app runs, off for good after the
\* Disable at quit, and toggled no sooner than the gap, whatever commands,
\* failures and mode changes the worker meets, and wherever it was when
\* quitting began.
THEOREM DisplayIsKept == Spec => DisplayKept
<1>1. DisplayInv => DisplayAccounted /\ OffAfterQuit
  BY DEF DisplayInv, OffAfterQuit
<1>2. DisplayInv /\ [Next]_vars => [enabled' # enabled /\ ~quitting => sinceToggle = Gap]_vars
  BY DisplayStep
<1> QED
  BY DisplayInvariant, <1>1, <1>2, PTL DEF Spec, DisplayKept, TogglesApart

-------------------------------------------------------------------------------
(* A saved failure is forgotten for cause. *)

\* A saved failure goes for a picture of this second screen, another mode or
\* Try again; a report of an older capture thread never clears it.
THEOREM ForgottenOnlyForCause == Spec => ForgottenForCause
<1>1. ASSUME TypeOK, [Next]_vars, memory # "clear", memory' = "clear"
      PROVE  pictured' \/ ~selected \/ Retry
  <2> USE <1>1 DEF memories, windows
  <2>1. CASE Decide
    BY <2>1 DEF Decide, Deselected, FallsBack, FailUnproven, Remember, Held, NoteFailure, Claims,
                Watched, Unwatched, Nothing
  <2>2. CASE CarryOut \/ Outside \/ Watchdog \/ StartPipeline \/ Pass \/ WaitOver \/ Quitting
    BY <2>2
    DEF CarryOut, Outside, Arrive, Fade, Select, Restart, Lists, Quit, Watchdog, StartPipeline,
        Pass, WaitOver, Quitting, ShutDown, DisplayOffAtQuit, Exit
  <2>3. CASE Look
    BY <2>3 DEF Look, FailUnproven, Remember, NoteFailure
  <2>4. CASE Prove \/ Settle \/ DriverCall \/ Opens \/ RetryFails \/ Loses \/ CaptureError
    BY <2>4 DEF Prove, Settle, DriverCall, Opens, RetryFails, Loses, CaptureError
  <2>5. CASE Image
    <3>1. PICK thread \in {"running", "left", "old"} :
            /\ pictured' = (pictured \/ (shown /\ thread # "old"))
            /\ thread # "old" => shown
            /\ IF Concerns(thread) THEN proof' = NoProof /\ ForgetOnSuccess
                                   ELSE UNCHANGED <<proof, memories>>
      BY <2>5 DEF Image
    <3>2. Concerns(thread)
      BY <3>1
    <3> QED
      BY <3>1, <3>2 DEF Concerns
  <2>6. CASE Take \/ Attaching
    BY <2>6
    DEF Take, Attaching, AttachBegins, Reuse, AttachGap, AttachViewer, EnableBegins, EnableEnds,
        Refused, Await, NotesAttached, AttachExit, WorkerOnly
  <2>7. CASE TurningOff
    <3>1. CASE AttachFails
      BY <3>1 DEF AttachFails, NoteFailure, TypeOK
    <3> QED
      BY <2>7, <3>1
      DEF TurningOff, OffGap, OffEnds, ReleaseBegins, ReleaseGap, ReleaseEnds, WorkerOnly
  <2>8. CASE UNCHANGED vars
    BY <2>8 DEF vars
  <2> QED
    BY <2>1, <2>2, <2>3, <2>4, <2>5, <2>6, <2>7, <2>8
    DEF Next, Transport, Capturing, Working
<1>2. TypeOK /\ [Next]_vars
        => [memory # "clear" /\ memory' = "clear" => pictured' \/ ~selected \/ Retry]_vars
  BY <1>1
<1> QED
  BY TypeCorrect, <1>2, PTL DEF Spec, ForgottenForCause

-------------------------------------------------------------------------------
(* A claim is being worked on. *)

Holds(q) == \E i \in 1..Len(q) : q[i] = "attach"

LEMMA QueueHolds ==
  ASSUME NEW q \in Seq(Commands)
  PROVE  /\ Holds(Append(q, "attach"))
         /\ Holds(q) => \A c \in Commands : Holds(Append(q, c))
         /\ Holds(q) /\ q # << >> /\ Head(q) # "attach" => Holds(Tail(q))
<1>1. Len(q) \in Nat
  OBVIOUS
<1>2. ASSUME NEW c \in Commands
      PROVE  /\ Len(Append(q, c)) = Len(q) + 1 /\ Append(q, c)[Len(q) + 1] = c
             /\ \A i \in 1..Len(q) : Append(q, c)[i] = q[i]
  OBVIOUS
<1>3. ASSUME NEW c \in Commands, c = "attach" \/ Holds(q) PROVE Holds(Append(q, c))
  <2>1. CASE c = "attach"
    BY <1>1, <1>2, <2>1 DEF Holds
  <2>2. CASE Holds(q)
    <3>1. PICK i \in 1..Len(q) : q[i] = "attach"
      BY <2>2 DEF Holds
    <3>2. i \in 1..Len(Append(q, c)) /\ Append(q, c)[i] = "attach"
      BY <1>1, <1>2, <3>1
    <3> QED
      BY <3>2 DEF Holds
  <2> QED
    BY <1>3, <2>1, <2>2
<1>4. ASSUME Holds(q), q # << >>, Head(q) # "attach" PROVE Holds(Tail(q))
  <2>1. PICK i \in 1..Len(q) : q[i] = "attach"
    BY <1>4 DEF Holds
  <2>2. i # 1
    BY <1>4, <2>1
  <2>3. i - 1 \in 1..Len(Tail(q)) /\ Tail(q)[i - 1] = q[i]
    BY <1>1, <1>4, <2>1, <2>2
  <2> QED
    BY <2>1, <2>3 DEF Holds
<1>5. "attach" \in Commands
  BY DEF Commands
<1> QED
  BY <1>3, <1>4, <1>5

\* Places of the worker in an attach.
AttachSteps == WorkerSteps \ {"idle", "release", "releaseGap", "releasing"}

LEMMA ClaimIs ==
  /\ ClaimWorked <=>
       (status = "attaching" =>
          attaching /\ (quitting \/ todo = "attach" \/ Holds(queue) \/ worker \in AttachSteps))
  /\ ClaimWorked' <=>
       (status' = "attaching" =>
          attaching' /\ (quitting' \/ todo' = "attach" \/ Holds(queue') \/ worker' \in AttachSteps))
BY DEF ClaimWorked, Holds, AttachSteps

LEMMA SendHolds ==
  ASSUME TypeOK, NEW c \in Commands, Send(c)
  PROVE  /\ Holds(queue) => Holds(queue')
         /\ c = "attach" => quitting \/ Holds(queue')
BY QueueHolds DEF Send, TypeOK

\* A step that leaves the claim and the worker alone, and may send a command.
LEMMA ClaimLeft ==
  ASSUME TypeOK, ClaimWorked, UNCHANGED <<attaching, quitting, worker>>,
         status' = "attaching" => status = "attaching",
         todo = "attach" => todo' = "attach",
         queue' = queue \/ \E c \in Commands : Send(c)
  PROVE  ClaimWorked'
BY SendHolds, ClaimIs

LEMMA ClaimStep == ASSUME TypeOK, ClaimWorked, [Next]_vars PROVE ClaimWorked'
<1> USE DEF state, windows
<1>1. CASE Decide
  <2>1. CASE Claims
    BY <1>1, <2>1, ClaimIs DEF Claims
  <2>2. CASE Deselected \/ FallsBack \/ Held \/ Watched \/ Unwatched \/ Nothing
    <3>1. /\ UNCHANGED <<attaching, quitting, worker, queue>>
          /\ status' = "attaching" => status = "attaching"
          /\ todo # "attach"
      BY <1>1, <2>2
      DEF Decide, Deselected, FallsBack, FailUnproven, Held, Watched, Unwatched, Nothing
    <3> QED
      BY <3>1, ClaimLeft
  <2> QED
    BY <1>1, <2>1, <2>2 DEF Decide
<1>2. CASE CarryOut
  <2>1. /\ UNCHANGED <<attaching, quitting, worker, status>>
        /\ todo = "attach" => Send("attach")
        /\ todo # "attach" => queue' = queue \/ Send("fallback")
    BY <1>2 DEF CarryOut
  <2>2. "attach" \in Commands /\ "fallback" \in Commands
    BY DEF Commands
  <2> QED
    BY <2>1, <2>2, SendHolds, ClaimIs
<1>3. CASE Outside \/ Watchdog \/ StartPipeline \/ Pass \/ WaitOver
  <2>1. /\ UNCHANGED <<attaching, quitting, worker, queue>>
        /\ status' = "attaching" => status = "attaching"
        /\ todo = "attach" => todo' = "attach"
    BY <1>3
    DEF Outside, Arrive, NoteConnected, Fade, Select, Retry, Restart, Lists, Quit, Watchdog,
        StartPipeline, Pass, WaitOver
  <2> QED
    BY <2>1, ClaimLeft
<1>4. CASE Capturing
  <2>1. /\ UNCHANGED <<attaching, quitting, worker, todo>>
        /\ status' = "attaching" => status = "attaching"
    BY <1>4
    DEF Capturing, Look, FailUnproven, Prove, Settle, DriverCall, Opens, RetryFails, Loses,
        CaptureError, Image
  <2>2. queue' = queue \/ \E c \in Commands : Send(c)
    BY <1>4
    DEF Capturing, Look, Prove, Settle, DriverCall, Opens, RetryFails, Loses,
        CaptureError, Image, Commands
  <2> QED
    BY <2>1, <2>2, ClaimLeft
<1>5. CASE Take
  <2>1. /\ UNCHANGED <<status, attaching, quitting, todo>> /\ worker = "idle"
        /\ queue # << >> /\ queue' = Tail(queue) /\ queue \in Seq(Commands)
        /\ Head(queue) = "attach" => worker' = "attach"
    BY <1>5 DEF Take, WorkerOnly, TypeOK
  <2> QED
    BY <2>1, QueueHolds, ClaimIs DEF AttachSteps, WorkerSteps
<1>6. CASE AttachBegins \/ Reuse \/ AttachGap \/ AttachViewer \/ EnableBegins \/ EnableEnds
           \/ Refused \/ Await \/ NotesAttached \/ OffGap \/ OffEnds
  <2>1. /\ status' = "attaching" => status = "attaching"
        /\ UNCHANGED attaching /\ worker' \in AttachSteps
    BY <1>6
    DEF AttachBegins, Reuse, AttachGap, AttachViewer, EnableBegins, EnableEnds, Refused, Await,
        NotesAttached, NoteAttached, OffGap, OffEnds, AttachSteps, WorkerSteps
  <2> QED
    BY <2>1, ClaimIs
<1>7. CASE AttachFails
  <2>1. status' = "attaching" => status = "attaching"
    BY <1>7 DEF AttachFails, TypeOK
  <2>2. UNCHANGED attaching /\ worker' = "exit"
    BY <1>7 DEF AttachFails
  <2> QED
    BY <2>1, <2>2, ClaimIs DEF AttachSteps, WorkerSteps
<1>8. CASE AttachExit
  BY <1>8, ClaimIs DEF AttachExit
<1>9. CASE ReleaseBegins \/ ReleaseGap \/ ReleaseEnds
  <2>1. /\ UNCHANGED <<status, attaching, quitting, todo, queue>>
        /\ worker \notin AttachSteps
    BY <1>9 DEF ReleaseBegins, ReleaseGap, ReleaseEnds, WorkerOnly, AttachSteps
  <2> QED
    BY <2>1, ClaimIs
<1>10. CASE Quitting
  <2>1. UNCHANGED <<status, attaching, todo, queue, worker>> /\ (quitting => quitting')
    BY <1>10 DEF Quitting, ShutDown, DisplayOffAtQuit, Exit
  <2> QED
    BY <2>1, ClaimIs
<1>11. CASE UNCHANGED vars
  BY <1>11 DEF vars, ClaimWorked
<1> QED
  BY <1>1, <1>2, <1>3, <1>4, <1>5, <1>6, <1>7, <1>8, <1>9, <1>10, <1>11
  DEF Next, Transport, Working, Attaching, TurningOff

\* A viewer's claim of the second screen is never stranded: while the status
\* says attaching, the attach that ends the claim is still to come or under
\* way.
THEOREM ClaimIsWorked == Spec => []ClaimWorked
<1>1. Init => ClaimWorked
  BY DEF Init, ClaimWorked
<1>2. TypeOK /\ ClaimWorked /\ [Next]_vars => ClaimWorked'
  BY ClaimStep
<1> QED
  BY TypeCorrect, <1>1, <1>2, PTL DEF Spec
===============================================================================
