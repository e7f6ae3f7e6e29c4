------------------------------ MODULE Supervisor ------------------------------
(***************************************************************************)
(* The pipeline supervisor of host/src/supervisor.rs with the generations  *)
(* it starts (pipeline.rs) and the parts of capture, encoder and transport *)
(* that decide when a stage ends and when its watchdog heartbeat stops.    *)
(*                                                                         *)
(* A generation has a pipeline thread, which starts the stages and then    *)
(* runs the transport, and one thread each for capture and encoder. A      *)
(* stage blocked in a driver call ("busy") sees no stop; stages that       *)
(* outlive their generation are the point of the model. Time is abstract:  *)
(* a backoff, a port recheck or a join deadline may end at any step, and   *)
(* silent holds the watchdog rules that a heartbeat's age fulfils.         *)
(*                                                                         *)
(* Completed reports change nothing in the machine and are left out, as    *)
(* are the audio stage, whose reports it ignores, and the attempt counter, *)
(* which only sets the length of the backoff.                              *)
(*                                                                         *)
(* A definition right above another that it resembles, named for a         *)
(* mistake, is a faulty variant the specification does not use.            *)
(***************************************************************************)
EXTENDS Integers, Sequences, FiniteSets

CONSTANTS
  MaxGenerations,  \* bound: generations started in a behaviour
  MaxMoves,        \* bound: commands, faults and other events from outside
  StormLimit       \* STORM_LIMIT

ASSUME BoundsAssumption ==
  MaxGenerations \in Nat \ {0} /\ MaxMoves \in Nat /\ StormLimit \in Nat

Generations == 1..MaxGenerations
None == 0

VARIABLES
  state,        \* Machine.state
  restarts,     \* how many automatic restarts are in the storm window
  generation,   \* CURRENT_GENERATION
  running,      \* SharedControl.running
  pc,           \* where the runtime loop is
  pipeline,     \* the generation whose thread it would join, or None
  thread,       \* each generation's pipeline thread
  capture,      \* each generation's capture thread
  encoder,      \* each generation's encoder thread
  commands,     \* SupervisorCommands not forwarded yet
  inbox,        \* SupMsgs
  silent,       \* watchdog rules whose heartbeat is too old
  watching,     \* a client session is active
  proving,      \* the second screen has shown no image yet
  portHeld,     \* another program holds the stream port
  moves,        \* events from outside so far
  told,         \* history: generations that were stopped while current
  failed        \* history: generations of which a stage failed or fell silent

threads == <<thread, capture, encoder>>
client == <<watching, proving>>
outside == <<client, portHeld, moves>>
vars == <<state, restarts, generation, running, pc, pipeline, threads, commands, inbox,
          silent, outside, told, failed>>

Command == [type : {"restart", "stop", "start", "shutdown"}, from : {"user", "transport"}]
Health == [type : {"failed", "portInUse"}, generation : Generations]
Rules == {"loop", "frame", "encode"}

TypeOK ==
  /\ state \in {"running", "backingOff", "waitingPort", "failed", "stopped", "shutDown"}
  /\ restarts \in 0..StormLimit
  /\ generation \in Generations
  /\ running \in BOOLEAN
  /\ pc \in {"waiting", "stopping", "restarting", "ending", "checking", "arming", "ended"}
  /\ pipeline \in Generations \cup {None}
  /\ thread \in [Generations -> {"none", "starting", "binding", "bound", "asking", "ended"}]
  /\ capture \in [Generations -> {"none", "looping", "busy", "ended"}]
  /\ encoder \in [Generations -> {"none", "looping", "busy", "ended"}]
  /\ commands \in Seq(Command)
  /\ inbox \in Seq(Command \cup Health)
  /\ silent \subseteq Rules
  /\ watching \in BOOLEAN /\ proving \in BOOLEAN /\ portHeld \in BOOLEAN
  /\ moves \in 0..MaxMoves
  /\ told \subseteq Generations /\ failed \subseteq Generations

\* The first generation is numbered either way, and started if the port is free.
Init ==
  /\ portHeld \in BOOLEAN
  /\ state = IF portHeld THEN "waitingPort" ELSE "running"
  /\ running = ~portHeld
  /\ pipeline = IF portHeld THEN None ELSE 1
  /\ thread = [g \in Generations |-> IF g = 1 /\ ~portHeld THEN "starting" ELSE "none"]
  /\ capture = [g \in Generations |-> "none"]
  /\ encoder = [g \in Generations |-> "none"]
  /\ restarts = 0 /\ generation = 1 /\ pc = "waiting"
  /\ commands = <<>> /\ inbox = <<>>
  /\ silent = {} /\ watching = FALSE /\ proving = FALSE /\ moves = 0
  /\ told = {} /\ failed = {}

\* One more event from outside.
Move == moves < MaxMoves /\ moves' = moves + 1

\* What the loops of a generation's capture and encoder check.
LiveByFlag(g) == running
Live(g) == running /\ generation = g

\* SharedControl.stop: the current generation is told to end.
Stop ==
  /\ running' = FALSE
  /\ told' = IF running THEN told \cup {generation} ELSE told

Report(g, type) == inbox' = Append(inbox, [type |-> type, generation |-> g])

PortFree == ~portHeld /\ \A g \in Generations : thread[g] \notin {"bound", "asking"}

-----------------------------------------------------------------------------
(* Commands on their way in.                                               *)

\* GUI and main; the quit stops the stream itself too.
User(type) ==
  /\ Move
  /\ commands' = Append(commands, [type |-> type, from |-> "user"])
  /\ IF type = "shutdown" THEN Stop ELSE UNCHANGED <<running, told>>
  /\ UNCHANGED <<state, restarts, generation, pc, pipeline, threads, inbox, silent,
                 client, portHeld, failed>>

Forward ==
  /\ commands # <<>> /\ pc # "ended"
  /\ inbox' = Append(inbox, Head(commands))
  /\ commands' = Tail(commands)
  /\ UNCHANGED <<state, restarts, generation, running, pc, pipeline, threads, silent,
                 outside, told, failed>>

-----------------------------------------------------------------------------
(* The runtime loop.                                                       *)

Join(next) == Stop /\ pc' = next

\* on_command: the state it leaves and the join it starts.
OnRestart ==
  IF state = "shutDown" THEN UNCHANGED <<state, restarts, pc, running, told>>
  ELSE restarts' = 0 /\ state' = state /\ Join("restarting")

OnStop ==
  IF state \in {"running", "backingOff", "waitingPort"}
  THEN state' = "stopped" /\ UNCHANGED restarts /\ Join("stopping")
  ELSE UNCHANGED <<state, restarts, pc, running, told>>

OnStart ==
  IF state \in {"stopped", "failed", "waitingPort"}
  THEN restarts' = 0 /\ state' = state /\ Join("restarting")
  ELSE UNCHANGED <<state, restarts, pc, running, told>>

OnShutdownStops == state' = "shutDown" /\ UNCHANGED restarts /\ Join("stopping")
OnShutdown == state' = "shutDown" /\ UNCHANGED restarts /\ Join("ending")

OnCommand(type) ==
  \/ type = "restart" /\ OnRestart
  \/ type = "stop" /\ OnStop
  \/ type = "start" /\ OnStart
  \/ type = "shutdown" /\ OnShutdown

\* auto_restart: any of the counted restarts may have left the window.
AutoRestartLate ==
  /\ \E recent \in 0..restarts :
       IF recent > StormLimit
       THEN state' = "failed" /\ restarts' = recent
       ELSE state' = "backingOff" /\ restarts' = recent + 1
  /\ Join("stopping")

AutoRestart ==
  /\ \E recent \in 0..restarts :
       IF recent >= StormLimit
       THEN state' = "failed" /\ restarts' = recent
       ELSE state' = "backingOff" /\ restarts' = recent + 1
  /\ Join("stopping")

WaitForPort == state' = "waitingPort" /\ UNCHANGED restarts

\* on_stage_exit: reports of another generation than the running one change nothing.
HeardAnyway(g) == state = "running"
HeardFrom(g) == state = "running" /\ g = generation

OnStageExit(health) ==
  \/ ~HeardFrom(health.generation) /\ UNCHANGED <<state, restarts, pc, running, told>>
  \/ HeardFrom(health.generation) /\ health.type = "failed" /\ AutoRestart
  \/ HeardFrom(health.generation) /\ health.type = "portInUse" /\ WaitForPort
     /\ Join("stopping")

Handle ==
  /\ pc = "waiting" /\ inbox # <<>>
  /\ LET message == Head(inbox) IN
       IF message \in Command THEN OnCommand(message.type) ELSE OnStageExit(message)
  /\ inbox' = Tail(inbox)
  /\ UNCHANGED <<generation, pipeline, threads, commands, silent, outside, failed>>

\* No message for 250 ms: a backoff or a recheck may be over.
DueAfterBackoff ==
  /\ pc = "waiting" /\ inbox = <<>>
  /\ state = "backingOff"
  /\ Join("restarting")
  /\ UNCHANGED <<state, restarts, generation, pipeline, threads, commands, inbox, silent,
                 outside, failed>>

Due ==
  /\ pc = "waiting" /\ inbox = <<>>
  /\ state \in {"backingOff", "waitingPort"}
  /\ Join("restarting")
  /\ UNCHANGED <<state, restarts, generation, pipeline, threads, commands, inbox, silent,
                 outside, failed>>

\* wedge_reason_at: the frame rule is for a connected client, and not for a
\* second screen that still proves itself.
FramesMissed == watching /\ ~proving /\ "frame" \in silent
WedgedByCapture == state = "running" /\ ("loop" \in silent \/ FramesMissed)
Wedged == state = "running" /\ ("loop" \in silent \/ "encode" \in silent \/ FramesMissed)

Watchdog ==
  /\ pc = "waiting" /\ inbox = <<>>
  /\ Wedged
  /\ AutoRestart
  /\ failed' = failed \cup {generation}
  /\ UNCHANGED <<generation, pipeline, threads, commands, inbox, silent, outside>>

Joining == pc \in {"stopping", "restarting", "ending"}

\* After the join: next command, port check, or the loop's end.
Joined ==
  /\ pipeline' = None
  /\ pc' = CASE pc = "stopping" -> "waiting"
             [] pc = "restarting" -> "checking"
             [] OTHER -> "ended"
  /\ UNCHANGED <<state, restarts, generation, running, threads, commands, inbox, silent,
                 client, portHeld, told, failed>>

JoinDone ==
  /\ Joining
  /\ pipeline # None => thread[pipeline] = "ended"
  /\ Joined /\ UNCHANGED moves

\* bounded_join gave up after 5 s: the thread is detached.
JoinTimesOut ==
  /\ Joining
  /\ pipeline # None /\ thread[pipeline] # "ended"
  /\ Move
  /\ Joined

CheckHeld ==
  /\ pc = "checking" /\ ~PortFree
  /\ WaitForPort
  /\ pc' = "waiting"
  /\ UNCHANGED <<generation, running, pipeline, threads, commands, inbox, silent, outside,
                 told, failed>>

\* The new generation is current before anything is armed.
CheckFreeSameGeneration ==
  /\ pc = "checking" /\ PortFree
  /\ state' = "running"
  /\ pc' = "arming"
  /\ UNCHANGED <<restarts, generation, running, pipeline, threads, commands, inbox, silent,
                 outside, told, failed>>

CheckFree ==
  /\ pc = "checking" /\ PortFree
  /\ generation < MaxGenerations
  /\ generation' = generation + 1
  /\ state' = "running"
  /\ pc' = "arming"
  /\ UNCHANGED <<restarts, running, pipeline, threads, commands, inbox, silent, outside,
                 told, failed>>

\* spawn_generation, heartbeats included.
Spawn ==
  /\ pc = "arming"
  /\ running' = TRUE
  /\ silent' = {}
  /\ thread' = [thread EXCEPT ![generation] = "starting"]
  /\ pipeline' = generation
  /\ pc' = "waiting"
  /\ UNCHANGED <<state, restarts, generation, capture, encoder, commands, inbox, outside,
                 told, failed>>

-----------------------------------------------------------------------------
(* A generation's threads: run_pipeline_supervised and its stages.         *)

supervisor == <<state, restarts, generation, pc, pipeline, portHeld>>

\* The pipeline thread starts capture and encoder, then binds the port. Capture
\* chooses its display: one that proves itself, or goes on doing so, or not.
Launch(g) ==
  /\ thread[g] = "starting"
  /\ thread' = [thread EXCEPT ![g] = "binding"]
  /\ capture' = [capture EXCEPT ![g] = "looping"]
  /\ encoder' = [encoder EXCEPT ![g] = "looping"]
  /\ proving' \in BOOLEAN
  /\ UNCHANGED <<supervisor, running, commands, inbox, silent, watching, moves, told, failed>>

\* No runtime, no FFmpeg, or a stage thread that cannot be started.
LaunchFails(g) ==
  /\ thread[g] = "starting"
  /\ Move
  /\ thread' = [thread EXCEPT ![g] = "ended"]
  /\ \E begun \in {"none", "looping"} : capture' = [capture EXCEPT ![g] = begun]
  /\ Report(g, "failed")
  /\ failed' = failed \cup {g}
  /\ UNCHANGED <<supervisor, running, encoder, commands, silent, client, told>>

Bind(g) ==
  /\ thread[g] = "binding" /\ PortFree
  /\ thread' = [thread EXCEPT ![g] = "bound"]
  /\ UNCHANGED <<supervisor, running, capture, encoder, commands, inbox, silent, client,
                 moves, told, failed>>

BindHeld(g) ==
  /\ thread[g] = "binding" /\ ~PortFree
  /\ thread' = [thread EXCEPT ![g] = "ended"]
  /\ Report(g, "portInUse")
  /\ UNCHANGED <<supervisor, running, capture, encoder, commands, silent, client, moves,
                 told, failed>>

\* The transport loop looks at running alone, whichever generation set it; it
\* also ends when its encoder is gone.
Stops(g) == ~running \/ encoder[g] = "ended"

TransportStops(g) ==
  /\ thread[g] = "bound" /\ Stops(g)
  /\ thread' = [thread EXCEPT ![g] = "ended"]
  /\ UNCHANGED <<supervisor, running, capture, encoder, commands, inbox, silent, client,
                 moves, told, failed>>

\* act, the network check or the second screen, which may have failed its
\* proof, wants a new pipeline: the transport stops this one, then asks.
TransportAsks(g) ==
  /\ thread[g] = "bound"
  /\ Move
  /\ Stop
  /\ proving' \in {proving, FALSE}
  /\ thread' = [thread EXCEPT ![g] = "asking"]
  /\ UNCHANGED <<supervisor, capture, encoder, commands, inbox, silent, watching, failed>>

TransportSends(g) ==
  /\ thread[g] = "asking"
  /\ thread' = [thread EXCEPT ![g] = "bound"]
  /\ commands' = Append(commands, [type |-> "restart", from |-> "transport"])
  /\ UNCHANGED <<supervisor, running, capture, encoder, inbox, silent, client, moves,
                 told, failed>>

\* A client's session begins or ends, both in the transport loop.
ClientComesOrGoes(g) ==
  /\ thread[g] = "bound"
  /\ Move
  /\ watching' = ~watching
  /\ UNCHANGED <<supervisor, running, threads, commands, inbox, silent, proving, told, failed>>

CaptureEnds(g) ==
  /\ capture[g] = "looping" /\ ~Live(g)
  /\ capture' = [capture EXCEPT ![g] = "ended"]
  /\ UNCHANGED <<supervisor, running, thread, encoder, commands, inbox, silent, client,
                 moves, told, failed>>

\* The encoder waits for frames: it ends when capture closed the slot, when a
\* frame finds it stopped, or when one finds the transport gone.
EncoderEnds(g) ==
  /\ encoder[g] = "looping"
  /\ \/ capture[g] = "ended"
     \/ capture[g] = "looping" /\ ~Live(g)
     \/ capture[g] = "looping" /\ thread[g] = "ended" /\ watching /\ ~proving
  /\ encoder' = [encoder EXCEPT ![g] = "ended"]
  /\ UNCHANGED <<supervisor, running, thread, capture, commands, inbox, silent, client,
                 moves, told, failed>>

\* A driver call that takes long, and its end; the stage looks at the flags
\* only after the frame in hand.
StageBlocks(g) ==
  /\ Move
  /\ \/ capture[g] = "looping" /\ capture' = [capture EXCEPT ![g] = "busy"] /\ UNCHANGED encoder
     \/ encoder[g] = "looping" /\ encoder' = [encoder EXCEPT ![g] = "busy"] /\ UNCHANGED capture
  /\ UNCHANGED <<supervisor, running, thread, commands, inbox, silent, client, told, failed>>

StageReturns(g) ==
  /\ \/ /\ capture[g] = "busy" /\ capture' = [capture EXCEPT ![g] = "looping"]
        /\ silent' \in {silent, silent \ {"frame"}}
        /\ UNCHANGED encoder
     \/ /\ encoder[g] = "busy" /\ encoder' = [encoder EXCEPT ![g] = "looping"]
        /\ silent' \in {silent, silent \ {"encode"}}
        /\ UNCHANGED capture
  /\ UNCHANGED <<supervisor, running, thread, commands, inbox, client, moves, told, failed>>

Ends(stage, g) == stage[g] \in {"looping", "busy"} /\ stage' = [stage EXCEPT ![g] = "ended"]

StageFails(g) ==
  /\ Move
  /\ \/ Ends(capture, g) /\ UNCHANGED <<encoder, thread>>
     \/ Ends(encoder, g) /\ UNCHANGED <<capture, thread>>
     \/ /\ thread[g] = "binding" /\ thread' = [thread EXCEPT ![g] = "ended"]
        /\ UNCHANGED <<capture, encoder>>
  /\ Report(g, "failed")
  /\ failed' = failed \cup {g}
  /\ UNCHANGED <<supervisor, running, commands, silent, client, told>>

\* A panic ends its thread without a report.
StagePanics(g) ==
  /\ Move
  /\ \/ Ends(capture, g) /\ UNCHANGED <<encoder, thread>>
     \/ Ends(encoder, g) /\ UNCHANGED <<capture, thread>>
     \/ /\ thread[g] = "bound" /\ thread' = [thread EXCEPT ![g] = "ended"]
        /\ UNCHANGED <<capture, encoder>>
  /\ failed' = failed \cup {g}
  /\ UNCHANGED <<supervisor, running, commands, inbox, silent, client, told>>

-----------------------------------------------------------------------------
(* Heartbeats, read by the watchdog for the running generation.            *)

\* Idle, the capture loop keeps all three; with a client it stamps itself, and
\* a frame stamps both stages it passes. A lost duplication gives no frames, nor
\* does a second screen that proves itself.
Beats ==
  IF watching /\ proving THEN {{"loop"}}
  ELSE IF watching
  THEN {{"loop"}, {"loop", "frame"} \cup {r \in {"encode"} : encoder[generation] = "looping"}}
  ELSE {Rules}

Beat ==
  /\ capture[generation] = "looping" /\ Live(generation)
  /\ \E beaten \in Beats : silent \cap beaten # {} /\ silent' = silent \ beaten
  /\ UNCHANGED <<supervisor, running, threads, commands, inbox, client, moves, told, failed>>

\* note_image: the second screen shows its first image.
FirstImage ==
  /\ proving
  /\ capture[generation] = "looping" /\ Live(generation)
  /\ proving' = FALSE
  /\ UNCHANGED <<supervisor, running, threads, commands, inbox, silent, watching, moves, told, failed>>

\* A heartbeat grows old in seconds: no message or request is on its way so long.
Settled ==
  /\ pc = "waiting" /\ commands = <<>> /\ inbox = <<>>
  /\ \A g \in Generations : thread[g] # "asking"

FallSilent(rule) ==
  /\ state = "running" /\ rule \notin silent /\ Settled
  /\ silent' = silent \cup {rule}
  /\ UNCHANGED <<supervisor, running, threads, commands, inbox, client, told, failed>>

\* The capture loop is not there; before it began only a slow start explains it.
LoopSilent ==
  /\ capture[generation] # "looping"
  /\ IF capture[generation] = "none" THEN Move ELSE UNCHANGED moves
  /\ FallSilent("loop")

\* A client watches and no frame came for long: the duplication is lost.
FrameSilent == watching /\ Move /\ FallSilent("frame")

\* Frames of the watching client go in and nothing comes out.
EncoderSilent ==
  /\ watching /\ ~proving
  /\ capture[generation] = "looping" /\ encoder[generation] \in {"busy", "ended"}
  /\ FallSilent("encode") /\ UNCHANGED moves

PortTaken ==
  /\ Move
  /\ PortFree \/ portHeld
  /\ portHeld' = ~portHeld
  /\ UNCHANGED <<state, restarts, generation, running, pc, pipeline, threads, commands, inbox,
                 silent, client, told, failed>>

-----------------------------------------------------------------------------
Loop ==
  Handle \/ Due \/ Watchdog \/ JoinDone \/ CheckHeld \/ CheckFree \/ Spawn

Transport(g) == TransportStops(g) \/ TransportSends(g)

Next ==
  \/ \E type \in {"restart", "stop", "start", "shutdown"} : User(type)
  \/ Forward \/ Loop \/ JoinTimesOut
  \/ Beat \/ FirstImage \/ LoopSilent \/ FrameSilent \/ EncoderSilent \/ PortTaken
  \/ \E g \in Generations :
       \/ Launch(g) \/ LaunchFails(g) \/ Bind(g) \/ BindHeld(g)
       \/ Transport(g) \/ TransportAsks(g) \/ ClientComesOrGoes(g)
       \/ CaptureEnds(g) \/ EncoderEnds(g)
       \/ StageBlocks(g) \/ StageReturns(g) \/ StageFails(g) \/ StagePanics(g)

Spec == Init /\ [][Next]_vars

\* Threads run and heartbeats age; nothing from outside need happen, and a
\* driver call need not return.
FairSpec ==
  /\ Spec
  /\ WF_vars(Forward) /\ WF_vars(Loop)
  /\ WF_vars(LoopSilent) /\ WF_vars(EncoderSilent)
  /\ \A g \in Generations :
       /\ WF_vars(Launch(g)) /\ WF_vars(Bind(g) \/ BindHeld(g)) /\ WF_vars(Transport(g))
       /\ WF_vars(CaptureEnds(g)) /\ WF_vars(EncoderEnds(g))

-----------------------------------------------------------------------------
\* "A straggler that only checked that flag would wake up and keep running
\* forever": a generation told to end never again finds itself live.
NoRevival == \A g \in told : ~Live(g)

\* Only a failure or silence of the running generation backs it off or counts
\* towards the storm: never a report of an older one, a stop or a held port.
RestartsEarned ==
  [][(state' \in {"backingOff", "failed"} /\ state' # state) => generation \in failed']_vars

\* A Stop, and the storm brake, hold until the user starts the stream again.
StaysDown ==
  [][(pc = "waiting" /\ pc' = "restarting" /\ state \in {"stopped", "failed"})
       => Head(inbox).from = "user"]_vars

Gone(g) == {capture[g], encoder[g]} \subseteq {"none", "ended"} /\ thread[g] = "ended"
Blocked(g) == "busy" \in {capture[g], encoder[g]}

\* Every thread of a generation told to end goes, however late it started or
\* was detached, unless a driver call keeps it.
ToldEnds == \A g \in Generations : (g \in told) ~> (Gone(g) \/ Blocked(g))

RunningOn(g) == state = "running" /\ generation = g

\* While a client watches, a crashed stage is noticed even if nothing reported
\* it. Encoder and transport are missed by the frames they do not pass on, which
\* a second screen that proves itself does not send.
WatchedCrashNoticed ==
  \A g \in Generations :
    (RunningOn(g) /\ (capture[g] = "ended"
                      \/ (watching /\ ~proving /\ "ended" \in {encoder[g], thread[g]})))
      ~> (~RunningOn(g) \/ (capture[g] # "ended" /\ ~watching))

\* install_failure_hooks of startup/mod.rs leaves panics of pipeline threads to
\* "the supervisor". With nobody watching, a transport that panicked is not missed.
CrashNoticed ==
  \A g \in Generations : (RunningOn(g) /\ thread[g] = "ended") ~> ~RunningOn(g)

\* A free port is noticed, even if an older generation held it meanwhile.
PortWaitEnds == (state = "waitingPort" /\ ~portHeld) ~> (state # "waitingPort" \/ portHeld)

\* The quit ends the loop, whatever it was doing.
QuitEnds ==
  (\E i \in DOMAIN commands : commands[i].type = "shutdown") ~> (pc = "ended")

\* Together: nothing the loop waits for, neither a port that is free nor the
\* join of a generation, keeps it from starting again or from ending.
WaitsEnd == PortWaitEnds /\ QuitEnds
=============================================================================
