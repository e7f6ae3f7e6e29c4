# EternalMonitor: the verified model

EternalMonitor turns an iPad into a second screen of a Windows PC. A Rust host (`src/host`) captures the desktop,
encodes it and streams it over UDP or a USB tunnel; a Swift app (`src/ios`) decodes it and sends touch, pencil and
keyboard events back; a Rust crate (`src/proto`) holds the wire protocol; a helper (`src/updater`) installs updates.

This directory holds TLA+ modules translated from that code, the TLC configurations that check them on small instances,
and theorems that the TLA+ proof system checks for every value of the constants. `PROJECT.json` maps each definition to
the lines it stands for, names the runs, the hazards and the theorems. Run `tlc -config X.cfg M` and `tlapm M.tla` here.

## 1. Inventory

State in *italics* is what the properties are about. "→" names what a component calls or sends.

| Component (source) | State | Operations | What makes it correct |
|---|---|---|---|
| Transport session (`host/src/transport/session.rs`) | *the one active session*, next id, *updating* gate, pending *goodbye* and *stopped* stream, the *ended* session answered again | HELLO2, BYE, ping, report, keyframe request, NACK, input, tick, link lost, `begin_update`, `end_update`, `shut_down`, `transport_resumed` | one client at a time; only a silent one loses its slot; the cable wins over Wi-Fi; nobody live is told to go; ends are reported once |
| Transport loop (`transport/mod.rs`) | sockets, media *target*, deferred packets, last heartbeats | a biased select over ticks, input, stop and datagrams; executes the session's `Actions` **after** the session lock is released → session, input relay, encoder (IDR), GUI | what the session decided is carried out before the next decision; media goes to the live session |
| Pairing (`pairing.rs`) | *required*, *token*, *code*; *failures per address*, one shared entry, *budget* over all addresses | `authorize`, `rotate_code`, `regenerate_token`, `resume_code_pairing` | the code that paired is replaced at once; tokens are given only to who paired; guesses are bounded however they are spread |
| Time-limited driver calls (`stall.rs`) | *lane* counters of abandoned calls, the hand-over lock, a channel per call | `run_in`: clear, spawn, wait, give up; the call's thread: return, send or release, free the lane | every result has one owner; lanes do not leak |
| Supervisor (`supervisor.rs`, `pipeline.rs`) | *machine state*, *running flag* (process-wide), *generation*, health inbox, commands, backoff, storm window | start, join with a deadline, detach, watch heartbeats, back off, fail, wait for the port, quit | an old generation never comes back; only real failures cost a restart; Stop stays stopped |
| Capture (`capture/mod.rs`, `dxgi.rs`, `recovery.rs`) | duplication, `FrameSlot`, heartbeats | acquire, publish, recover; reconcile the second screen | newest frame wins; a generation that finds no image tries again or ends |
| Second screen (`capture/second_screen.rs`) | *status*, *owned display*, *proof*, the worker's queue, the toggle gap | `step`, attach, prove, release, fall back, quit | the virtual display goes off again whatever fails; a viewer gets a picture or the mirror |
| Its memory (`second_screen/memory.rs`) | *failure and rule on disk*, jobs, writer's thread | save, clear, retry, flush at quit | no older state lands over a newer one |
| Encoder (`encoder/*`) | codec, keyframe wishes, reopen state | encode, reopen, force IDR | each IDR wish leads to one |
| USB tunnel (`transport/link.rs`, `usb.rs`) | *queue of whole frames*, control queue, keyframe backoff, writer | push, write, lose, park, flush, close | byte counts follow contents; only what decodes is written; a keyframe comes after a loss |
| Retransmission and repair (`transport/retransmit.rs`, `FrameAssembler.swift`) | *ring of sent frames*; *frames being put together*, deadlines | insert, resend; add, NACK, hold, expire | bounded stores; order; every loss settled |
| Rate control (`abr.rs`, `pacer.rs`) | rung, hold-off, token bucket | report, decide | climbs and falls within its ladder |
| Input relay and pen (`input/mod.rs`, `pen_contact.rs`, `pen_device.rs`) | *held keys and contacts*, edge history; *queue of pen samples*, *mouse fallback*, the synthetic device, a release owed | inject, dedupe, release all; deliver, flush, recreate, give up, hand over | nothing stays pressed for a client or stroke that is gone |
| Updates, restart (`updates.rs`, `handoff.rs`, `relaunch.rs`, `single_instance.rs`, `src/updater`) | *gate*, update state, worker's queue, *mutex*, copy, helper | check, download, hand over, relaunch, reopen | one host at a time; the app runs again whatever failed |
| Failure reporter, startup (`startup/*.rs`) | crash record, locks, display ownership | watch, repair, report | the display of a crashed host is turned off |
| Telemetry (`telemetry/*.rs`) | channel, disk outbox | enqueue, flush, retry | bounded, nothing twice |
| iPad connection (`ios/.../ConnectionManager.swift`, `ControlChannel.swift`) | connection state, retries, link choice | HELLO2 with retries, ping, switch to the cable | retries reach a session; a goodbye ends the right one |

**Interaction.** The GUI, the updater and `main` call the session and pairing under their own locks from other threads.
The transport task takes the session lock for one event, gets `Actions`, drops the lock and carries them out. The
supervisor's runtime thread owns the machine and a process-wide `running` flag that every stage of every generation
reads; stages report to it over a channel, heartbeats are shared atomics, commands come from the GUI, the transport and
the second screen. Driver calls (encoder open, duplication, display switch) run on throw-away threads with a deadline.

**What is hard.** A decision and its execution are two steps, with other threads between them. The session outlives the
pipeline, so restarts fall between any two events. Goodbyes and end reports wait in one slot each. A detached thread
finds the same flag its successor uses. Calls return at the very moment their callers give up. Datagrams are lost,
doubled and reordered. `PROJECT.json` lists these hazards at their lines with the properties that watch them.

## 2. Modules

| Module | Models | Composes |
|---|---|---|
| `Session` | the client slot, the loop that carries out its decisions, the credentials | session, transport loop, pairing, held input, update gate |
| `Slot`, `SessionSlot` | what the slot promises; Session under the refinement mapping | |
| `Stall` | one lane of time-limited calls | callers and call threads |
| `Supervisor` | generations of the pipeline | machine, runtime loop, stages, port, restart requests |
| `PairingLimits` | how often a code can be tried | limiter and budget |
| `SecondScreen` | the virtual display | worker, transport tick, capture generation, window, quit |
| `ScreenMemory` | its failure and rule on disk | memory, writer's thread, other programs, crashes |
| `Tunnel` | video over USB | encoder, transport loop, queue, writer |
| `Repair` | video over Wi-Fi | host's ring, network, iPad's assembler |
| `Pen` | the Apple Pencil on the PC | relay, native device, mouse, loop's tick, restarts |
| `Handoff` | the processes of one installation | window, update worker, restart copy, helper, mutex |

`MCSession`, `MCStall` and `MCPairingLimits` hold instances for TLC; the others need only numbers. `SessionProofs`,
`LimitsProofs` (Stall, PairingLimits and Supervisor), `SecondScreenProofs`, `ScreenMemoryProofs`, `TunnelProofs`,
`PenProofs`, `RepairProofs` and `HandoffProofs` hold the theorems. `LimitsProofs` extends three modules at once, so two of
them have names of their own (`LaneSpec`, `LaneTypeOK`, `SpawnCall` in Stall; `LimitsSpec`, `LimitsTypeOK`,
`AddressBlocked` in PairingLimits). In every module, a definition directly above another that it resembles and named for a
mistake (`IdReused` over `NextId`) is a faulty variant the specification does not use; for each property `PROJECT.json`
names one that breaks it.

**Session.** One action per handler: `TurnAway`, `Reack`, `Refuse`, `Admit` are the exits of `handle_hello`; `Bye`, `Ping`,
`Report`, `KeyframeRequest`, `Nack`, `Input`, `AnswerEnded` those of `handle`; `LinkLost` is `usb_link_lost`; the five
`Tick…` disjuncts those of `tick`; `TransportExit` and `TransportStart` bound a generation. A handler is enabled only when
`Idle`, fills `acts` (the code's `Actions`), and `Act` carries it out; the GUI and update threads (`BeginUpdate`,
`EndUpdate`, `ShutDown`, `RegenerateToken`, `RotateCode`, `SetRequired`) step between the two, as they do. A message may
arrive from any known source, naming any id, at any time, which covers loss, duplication, reordering and stale packets
without a network. Time is relative (deadline less now, silence so far) and saturates where no condition tells values apart.
A new code is any but the one before, as `random_code` draws it, so a code may come back after two rotations. `endedAs`,
`logged` and `said` (the latest session whose goodbye was sent) are history.

**Slot** is the promise without links, credentials, pending decisions and deadlines: who holds the slot, how long it has
been silent, who may take it from whom, when it may be given up. `SessionSlot` maps the session onto it; `KeepsSlot` is
`Slot!Spec`, so TLC checks that every step of Session is a step of Slot or a stutter.

**Stall.** Callers (`Clear`, `SpawnCall`, `Receive`, `Expire`, `ReceiveLate`, `GiveUp`) and one thread per call (`Return`,
`Lock`, `ReadGaveUp`, `Send`, `Release`, `FreeLane`) share the lane's counter, the hand-over lock and the channel. A call
may return, panic or hang; its thread may fail to start. Loading the lane and counting in it are separate steps, as in the
code.

**Supervisor.** The machine's states, the runtime loop's single thread (its place is a variable), the stages of every
generation, the process-wide running flag, health reports in flight, heartbeats as "seen lately", the port. A backoff, a
recheck or a join's deadline may end at any step, which covers every duration. While the second screen proves itself, missed
frames are no reason to restart (`FramesMissed`), and a transport or encoder that panics is noticed when the proof is over;
`WatchedCrashNoticed` says no more than that. If the transport panics during a proof and no image comes, the proof itself has
nobody to end it before the next generation: `next_step` and `take_unproven` run on the transport's tick.

**PairingLimits.** The table with its shared overflow entry, the budget over all addresses and the pause, with a clock.
`judged` is history: the guesses compared in the last budget window.

**SecondScreen.** Four threads, each step one critical section: the transport decides under the lock (`Decide` is
`State::step`) and carries out without it; a capture generation looks, proves and settles (`Look`, `Prove`, `Settle`); the
worker takes one command at a time (`Attach…`, `Await`, `Release…`), with driver calls that fail or hang; the window changes
the mode, retries and quits. Ages stop at the limit they are compared with. `stray` (an Enable that failed without naming
its device, a Disable that failed) and `neglected` (below) are history.

**ScreenMemory.** The memory queues jobs; the saver's thread, which may fail to start or be started twice at once, takes one
at a time, and each file operation of a job is an action of its own. What is kept for "these cards" is compared with the
cards of the app that loads it (`CardsOf`), and a write that fails leaves the file torn. Another program may lock a file or
keep it from being deleted; the app crashes anywhere or quits and waits for the thread. A version per file counts the states
asked of it. It is apart from SecondScreen because the two share only "a failure is held, due or forgotten".

**Tunnel.** The encoder answers a forced keyframe; the loop cuts a frame into fragments and pushes them one by one while the
writer takes whole or partial frames from the other end; both ends of the queue move between any two fragments. A frame's
age stands for `frame_seq`. Time passes whether or not the writer has work; only the encoder's next frame waits until the
writer has looked at the queue (`WriterAwake`). The code does not promise that: it is the assumption that a thread's own
steps take less than a frame interval, without which a writer that never runs refutes `KeyframeComes`. The keyframe backoff
doubles in the code; any wait from 1 to its maximum is allowed.

**Repair.** Fragments, NACKs and keyframe requests are sets and sequences of datagrams that are lost, delayed and reordered.
The assembler's step is computed on a record, because one datagram may complete, drain, drop, hold and request in one call.
Each stored instant is kept as the time since or left until it. `fed` (the frames the
latest step gave the decoder; within a step each leaves the store as it is given), `given` and `unasked` are history.

**Pen.** The relay turns an event into samples (`Relay`: `drop_late`, `relay_event`), the device takes them one by one
(`Deliver`), and a flush sends one frame per step (`Accept`, `Reject`, `NotReady`, `HoldBack`, `EndByRecreating`,
`NothingToDo`, `NoHandle`), which Windows may accept, refuse for now or reject. `HandOver` gives abandoned samples to the
mouse, whose events Windows inserts as a prefix. Positions are left out; whether an up lies where the contact is, or a
place is off the screen, is a choice, as is whether a frame must wait for its spacing. Windows' refusal to create a
device is a choice each time.

**Handoff.** Processes (launches, restart copies, the app the helper opens), the named mutex with its owner and who has
it open, the host's gate, update state and worker, the helper with Setup. The mutex is created with its first owner, and
abandoned when its process ends. Timeouts may pass whenever the awaited thing has not happened.

## 3. Runs

| Run | Instance | Properties | What it shows |
|---|---|---|---|
| `session_takeover` | A over Wi-Fi and USB, B (no device id, other port) over Wi-Fi; 3 sessions, 1 restart; 1.6M states | `TargetFollowsSession`, `HeldInputHasOwner`, `LiveLeftAlone`, `EndsReported`, `KeepsSlot` | slot, target, held input, goodbyes and reports stay consistent through holds, takeovers, link switches, restarts, updates and quitting; Session implements Slot |
| `session_live` | A with token or code, B with the next code; 2 sessions, 1 restart, fair; 303K | `PairingSound`, `SilentSessionEnds`, `GoodbyeIsSaid`, `ResumeForcesIdr` | the code that paired is replaced at once, ACKs carry only the current token, revoked sessions go; a silent client loses the slot, a stopped stream's goodbye is sent, or a later one's, unless the app quits; a resumed client gets its IDR |
| `stall` | 2 callers, 4 calls, limit 1, fair | `ResultsSound`, `LaneSound`, `CallsEnd` | one owner per result, an exact lane, release before the next call; every caller returns, only a call that never returns keeps its lane |
| `supervisor` | 6 generations, 2 outside moves, storm limit 1, fair | `NoRevival`, `RestartsEarned`, `ToldEnds`, `WatchedCrashNoticed`, `WaitsEnd` | no generation told to end becomes live again; only failures of the running one cost a restart; what is told to end ends, watched crashes are noticed, waits end |
| `pairing_limits` | 2 addresses, 1 own entry and the shared one, 3 codes, clock to 4 | `BudgetHolds`, `BanHolds` | the budget holds in every window, live bans are not lost |
| `second_screen` | gap, grace and proof of 1, 2 outside moves, fair; 315K | `DisplayKept`, `UnwatchedGoesOff`, `ClaimEnds`, `PictureOrMirror` | a display that is on is somebody's, is off for good after quitting and never toggled within the gap; unwatched it goes off; a viewer ends with a picture or the mirror |
| `screen_memory` | 3 fingerprints on 2 sets of cards, 4 faults or moves, fair; 343K | `RecordSound`, `WrittenAtQuit`, `ForgottenIsCleared` | what the next run reads is the newest state written and this run's failure; quitting leaves nothing untried; a forgotten failure leaves the file |
| `tunnel` | 2 frames, 3 fragments, 1 control packet, fair | `TunnelSound`, `KeyframeComes`, `OnlyDecodable` | counts and limits hold; a goodbye said to have left has left; a loss ends in a keyframe; what is written decodes |
| `repair` | 3 frames and 1 after a restart, a ring of 2 frames, a store of 3 frames and 5 bytes, 2 datagrams and 1 NACK under way; 401K | `StorageSound`, `LossIsAsked`, `GivenInOrder`, `HoldsEnd` | both stores count and bound what they hold; no frame the assembler drops is left without a newer complete keyframe or a request for one; none is given to the decoder twice, or after a newer one; the oldest frame is not held for ever, nor past a repair window while a newer one is complete |
| `pen` | INPUT_STALE, trial and retry of 1, queue limit 2, 2 runs of the pipeline, fair; 122K | `HeldForStroke`, `MouseSound`, `LetGo` | a contact or button that outlives its stroke has its end waiting behind it; the mouse is never pressed twice or out of a stroke; Windows lets go in the end, across restarts |
| `handoff` | 3 processes, 1 release, fair; 285K | `OneHost`, `GateKeeps`, `Reopens`, `RestartSaid` | two hosts never run; restart and update never hand over together; the app runs again after an update; a failed restart says so |
| `update_offered` | 2 processes, 2 releases | `OfferedHandsOver` | **violated** (§4) |

**Bounds, and why they are enough.** *Session*: three sessions are a live one, the one it replaced and the one that replaces
it, which is as far as any handler's memory reaches; the three HELLO2s reach each outcome of `same_device`, `Busy` and
`MediaTarget`. The timings keep the order the code's have (takeover < liveness < hold), with one value strictly between in
the takeover run; the keyframe limit is as long as the liveness timeout in the live run and off in the other, where nothing
depends on it. Two tokens and codes give "current" and "another" (with two codes, one that paired does come back). The live
run's HELLO2s leave input out, which the takeover run has. Time has no bound. *Stall*: a call abandoned, one racing it, and
one refused or cleared after each. *Supervisor*: `MaxMoves` bounds commands, failures, hangs and panics together.
*PairingLimits*: the clock reaches past one budget window from its start; two addresses and one entry are the full table and
one address more. *SecondScreen*: a saved failure and a rule that names the PC are there from the start, because they only
block; the mirror is not refused; two moves are a change of mind during a fault. *ScreenMemory*: a failure, a fault, an exit
and a start. *Tunnel*: the queue holds the frame being sent and one more, and a keyframe of two fragments and another frame
overrun its bytes. *Repair*: the ring overflows by one frame, the store by one byte (by frames only in the proof); the
restart's stragglers are one fragment. Three frames in the store are a held one, one that completes behind it and one that
hurries it; with two, an earlier and stronger form of `HoldsEnd` held that is false. *Pen*: the native queue overflows its
limit by one; a sample is fresh or stale; the run with `INPUT_STALE = 2` was also made without liveness (323K states).
*Handoff*: a host, a restart copy or the reopened app, and one more launch. `CHECK_DEADLOCK FALSE` stands where the bounds,
or quitting, end every behaviour.

**Fairness, and why the code justifies it.** *Session*: strong for `Tick`, because the loop's `select!` is `biased` and its
ticks come before datagrams; weak for `Act` (the same task goes on), `TransportStart` and time. `TransportStart` assumes
that a next generation starts: after the user's Stop, a storm brake or a port wait that never ends there may be none, and a
session left then has no loop to end it. Nothing is assumed of clients, GUI or updater. *Stall*: weak for the caller once
cleared and for the thread's steps, never for `Return`: a driver may hang for ever. *Supervisor*: weak for the runtime loop,
the forwarding of reports and the loops of stages that are not stuck; no command, fault, driver return or join's deadline is
fair. *SecondScreen*: weak for every thread's next step and for time, and for driver calls that do not hang; what users,
viewers and faults do is never fair. *ScreenMemory*: threads run, waits elapse, ticks come; no file is ever let go of by
fairness: `ForgottenIsCleared` has it as a premise. *Tunnel*: weak for both threads, strong for `Tick`, `StartFrame` and
`WriteFragment`, which others of the same loop (or a parked writer) interrupt again and again; the iPad reads. *Repair*
needs none, its properties are action properties. *Pen*: weak for `Deliver`, `HandOver` and `Flush` (one call on one task);
strong for `Tick`, the first branch of the biased loop; strong for `Accept` and `PumpAll`: Windows does not refuse what is
offered for ever, without which nothing can be promised. *Handoff*: weak for the restart's thread, the worker, the helper,
the frames of the window and a closing host.

## 4. Findings

`update_offered`: `docs/host-settings.md:13` promises that a check that replaces the chosen release before its handoff stops
the update. `take_ready` asks `still_offered` when it queues `Command::Install`, and `Worker::install` (`updates.rs:1963`)
does not ask again; a check already queued runs first, withdraws the release, and the install hands it over.

**Known disagreements.** Six more places where a comment or a document says more than the code does. Each was met while
modelling and found by TLC as a counterexample to the definition named; no run repeats them, except that
`UnwatchedGoesOff` names the one it makes room for.

1. `GraceTurnsOff` (SecondScreen), `capture/mod.rs:757`. `transport/mod.rs:842` says `next_step` turns the display of a gone
   viewer off once the grace period ends. `reconcile_virtual_display` reads the status and the viewer, lists the outputs,
   and then stores WaitingForClient over a status that became Active meanwhile, for which `step` never releases; and an
   attach that reuses a display whose release was asked for (`second_screen.rs:1350`) leaves `release_requested` set, so
   `step` does not ask again. `UnwatchedGoesOff` shows that these (`neglected`) are the only ways.
2. `EveryEndReported` (Session), `session.rs:910`. An end waits in one slot (`stopped`, `Actions::ended`), so a second end
   before the next tick overwrites it. What holds is `EndsReported`: none is reported twice, ends that are the client's
   doing are reported, and of a stop by the app and the end it meets in that slot, one is.
3. `AtMostMaxAbandoned` (Stall), `stall.rs:315`. The lane is read before the thread starts and counted when it is given up, so
   callers that read it together pass `MAX_ABANDONED` by one each. What holds, and is proved, is `LaneBound`; with one caller
   per lane the comment is right (`SoleCallerBounded`).
4. `StaysDown` (Supervisor), `supervisor.rs:130`. A Restart sent by the transport or the second screen before a Stop or the
   storm brake, handled after it, starts the stream again.
5. `CrashNoticed` (Supervisor), `supervisor.rs:414`. With nobody watching, idle capture keeps the heartbeats fresh, so a
   transport that panicked is never restarted. What holds is `WatchedCrashNoticed`.
6. `FailuresBlock` (PairingLimits), `pairing.rs:299`. The window starts at the first failure; the documented "five within 60
   seconds" can straddle two windows and not ban. What holds, and is proved, is `BudgetHolds` over all addresses.

Smaller observations. A launch that holds the mutex open while the old host exits makes the app the helper reopens quit,
which `updater/src/lib.rs:340` says cannot happen (Handoff's `lost`, which exempts the rest of its behaviour from
`Reopens`). A frame may be held for the maximum hold and one retry more, not "this long at most" (Repair; `HoldsEnd` says
how long). A hover that Windows holds can outlive its stroke when the down after it expired unsent (Pen; `HeldForStroke` is
about contacts and buttons).

## 5. Proofs

All theorems hold for every value of the constants that satisfies the named ASSUMEs, which ask no more than the code's own
constants grant: for Session `HellosAssumption`, `BoundsAssumption` and `TimingAssumption` (takeover ≤ liveness ≤ hold,
keyframe gap ≤ liveness); for Stall and Supervisor natural-number bounds; for PairingLimits `Window <= BudgetWindow`; for
SecondScreen natural numbers; for ScreenMemory a natural bound, at least one fingerprint, and each in one group of the same
cards (`CardsAssumption`); for Tunnel positive limits and frame sizes; for Repair positive limits and times (`RepairTimes`,
which only `HoldsEnd` needs, is not used); for Pen positive times and limits; for Handoff at least one process.

* **Session.** `SessionProofs` proves `TypeCorrect` and every safety property the runs check, along these inductive
  invariants, each with one step per action:
  * `SilenceInv` = `SilenceBound` and `LimitRunsOut`. The deadline and the silence move together, and so does the time since
    the last granted keyframe; that a resume always gets its IDR (`ResumedWithIdr`) needs the second part, and that only
    silent sessions are taken over or given up (`SlotTakenFromSilent`, `OnlySilentGivenUp`) follows from the first.
  * `AckRepeatable`: a session that keeps a token for a repeated ACK was authorized with it; so `OnlyCurrentTokenGiven`, and
    with `RevokedEnds` and `CodeReplacedAtOnce` (a code that paired is not the next one) the run's `PairingSound`
    (`PairingKept`).
  * `TargetInv`: while a decision is pending, either it sets the live session's target, or the target is already right;
    `LostMeansNobody` keeps a stale clearing from following an admission; so `VideoGoesToClient`.
  * `TellInv`: goodbyes pending, under way or answered again name sessions older than the live one; so `LiveNotToldToGo` and
    `LiveUndisturbed`.
  * `OnceInv`: an end sits in at most one of `acts`, `stopped` and `logged`, and only after it happened; so `ReportedOnce`,
    `EndsReachReport` and `EndsReportedRight`.
  * `SlotImplemented`, that Session implements Slot: `TurnInv` says the live session is the one admitted last and that its
    turn and those to come have no recorded end. With it and the invariants above every step maps to a step of Slot or a
    stutter: an admission to `Take`, packets heeded to `Hear`, an end of the live session to `End`, the clock to `Wait`. The
    refinement's safety part is all of `Slot!Spec`, which states no fairness.
  * `InputInv`: a key under way or held is the live session's, or its release is already decided; so `InputReleased`.
* **Stall.** `OwnerInv` = `TypeOK`, `CallersOwnCalls` and `ThreadsKnow`: where a caller and its thread stand says who owns the
  result. With it `LaneExact`, `OneOwner`, `NoneLost`, `ReleasedFirst`, `LaneBounded`, `SoleCallerBounded`, and their
  conjunctions that the run checks (`ResultsKept`, `LaneKept`).
* **Supervisor.** `FlagInv`: from a stop to the next spawn the flag is down, and who was told to end is of an older
  generation, so `NeverRevived`. `QueueInv`: failure reports in the inbox name generations that failed, so
  `OnlyEarnedRestarts`. `Types` and `QueueInv` give `SupervisorTypeCorrect`: the storm brake's count stays within its limit.
* **SecondScreen.** `TypeOK` bounds the ages, counts and the worker's queue (`TypeCorrect`). `DisplayInv` adds to
  `DisplayKept` what a worker's step knows of it: a display that is being turned on has passed the gap, one that is being
  turned off still is on its way off, and after the Disable at quit nothing is left that turns on; so `DisplayIsKept`. Two
  properties no run checks are proved beside it: `ForgottenOnlyForCause`, that a late report of an older capture thread
  never clears a saved failure, and `ClaimIsWorked`, the safety half of `ClaimEnds`: a claim always has an attach to come or
  under way.
* **ScreenMemory.** `SavingInv`: at most one thread writes (`OneWriter`), which `Starts` alone ensures; the queue has one
  job a file, of the last version asked (`QueueInv`); the job under way is no older than what was tried (`WorkInv`,
  `VersionsInv`); what was asked last has been tried, waits or is under way (`Owed`); and `Known`, `Noticed` and
  `Remembered` tie what is asked, under way and on disk to what the memory knows. The steps fall into six groups
  (`StepGroups`), and each part is kept by each group; so `RecordIsSound` and `QuitWritesAll`. TLC checked `SavingInv`
  before the proof.
* **Handoff.** `InstanceInv`: who hosts owns the mutex, and a copy and the app the helper opens are processes of their own,
  so `OneHostRuns`. `GateInv`: the gate's holder, the update's phase, the worker's step and the one install that may be
  queued agree, and a pending report is of the update that hands over; so `GateKept`. The proof found a `CASE` of
  `TakeCommand` with overlapping arms, which TLC reads in order and TLA+ does not; it is a disjunction now.
* **Tunnel.** `Counted`: the byte count is that of the fragments queued, and no limit is passed. The model states the bytes
  as the cardinality of a set of fragments, not as a sum folded over the queue, so that the library's facts about finite
  sets say what an append, a frame taken and a fragment added do to it (`BytesAppend`, `BytesFront`, `BytesTail`,
  `BytesGrow`). `PartialInv`: only the frame being sent is partial, and it is the last. `DecodeInv`: from the frame last
  shown through the writer's to the queue's newest, each is a keyframe or follows the one before, and unless a keyframe is
  awaited the next may follow the newest; so a loss that let one frame through undecodable would break it. `ToldInv`: what
  flush counts down is what must be written until the goodbye is, which is the last that waits. So `TunnelIsSound` and
  `WrittenDecodes`. TLC checked the invariant before the proof.
* **Pen.** `MouseInv`: the events that wait alternate from the button Windows holds, press only for ink, leave the button as
  planned, and are none while the device has a sample or a contact. `StrokeInv`: once the iPad holds no stroke, a queue that
  draws on (`Open`) has an end still to come, and what Windows or the mouse holds has an end (`EndIn`) with the device, on its
  way to the mouse or still to be injected. `DeviceInv` says where samples may be. Each holds for queues of any length because
  lemmas say what every operation on them does to `EndIn`, `Open` and the button: a frame done, a sample coalesced, a prefix
  inserted, stale ones dropped (`FirstSample`, `EnqueueIs`, `RestOfEvents`, `LastingIs`, `KeepingIs`). The last two are
  recursions over the queue. The library's induction theorems take an operator and cannot be instantiated; `Least`,
  `Induction` and `RunExists` do the same with a set, from the well-foundedness of `<`: the set of lengths for which the claim
  holds contains 0 and with each number the next. So `MouseIsSound` and `NothingHeldAfter`; TLC checked the invariant before
  the proof. For it, the passes of `expire_mouse` and `expire` are functions of the index instead of folds.
* **Repair.** `IInv` has three parts. `RingInv`: the ring's byte count is that of its frames, and an insert makes room
  before it adds (`Insert` takes the fewest frames that do). `WireInv`: datagrams and NACKs are well-formed. `PadInv` is
  what a step of the assembler finds, and one datagram or tick is a long chain of smaller steps (tick each frame, evict,
  store, hurry, expose, drain), so it is stated of the record they work on and each is proved to keep it: `Well` (the bytes
  are those received; what the step gave is newer than what was retired before it and not than what is retired now), `Above`
  (every frame kept is newer than every one retired) and `Settles` (a keyframe was asked for, or each dropped frame has a
  newer keyframe complete or given). A step that gives or drops needs all three: a frame given is above what was retired,
  hence in order and not dropped before. `Fits` (the limits) is kept by what only takes away, restored by `Room` before a
  fragment is stored. The timer's pass over the frames and the eviction loop are recursive functions; `Induction` over a set
  gives what they keep (`TickFramesIs`, `RoomIs`). So `StorageStaysSound`, `LossStaysAsked` and `GivenStaysInOrder`, each
  for any frame sizes, limits and times. Nothing is said of the order of the ring, nor of how a gap, a hold and their
  deadlines agree.
* **PairingLimits.** `BudgetInv` = `BudgetTypes`, `PauseInv` (a pause means the budget is spent and nothing is compared) and
  `CountInv` (the guesses compared lately are among those the budget counts), so `BudgetAlwaysHolds`. `LimiterTypes` bounds
  the table (`PairingTypeCorrect`). `BansKept` and `OwnEntryEarned` give `BansLast`.

**Only model-checked.** Repair's `HoldsEnd`: it needs an invariant of the deadlines (how far a gap, what is left of it, the
allowance used and the hold may be apart) that has not been proved, with one frame's clock read by another's step.
All liveness (`SilentSessionEnds`, `GoodbyeIsSaid`, `CallsEnd`,
`ToldEnds`, `WatchedCrashNoticed`, `WaitsEnd`, `UnwatchedGoesOff`, `ClaimEnds`, `PictureOrMirror`, `ForgottenIsCleared`,
`KeyframeComes`, `LetGo`, `Reopens`, `RestartSaid`): the prover does not reason about ENABLED and fairness.

## 6. Not modelled, and why

Left out within the modules:

* *Session*: log lines, counters, negotiated stream parameters; the `msg_seq` window of input packets ("late" is an input).
* *Supervisor, Stall*: backoff lengths; the audio stage, which the supervisor ignores; per-encoder limits.
* *SecondScreen*: facts gathered for a failure message, naming and positioning of the display. `HoldsAreShort`, that a held
  session ends before the grace period does (7 s < 10 s), is assumed from the constants of `session.rs` and
  `second_screen.rs`.
* *ScreenMemory*: the excused failures; a locked file is still readable; cards do not change within a run (between runs they
  do); closing the store.
* *Tunnel*: keyframes that do not fit `BYTE_LIMIT`, which no request can bring (`KeyframeComes` is about those that do); the
  audio queue, the frame over 4 MiB, a panic in the middle of a frame, the hub's subscription (`usb.rs`): a close that no
  generation hears is a silent client, which Session covers.
* *Repair*: frames lost whole, of which the assembler has nothing to drop (`LossIsAsked` is about those it began, and takes
  a newer complete keyframe for an answer); the backward jump by which hosts without epochs show a restart, the re-sync
  after 512 stragglers, malformed headers, the clearing of the ring when the target changes.
* *Pen*: keys and buttons, the dedupe of edges, pressure; a display that moves between the last move of an up and the up; a
  detached transport whose relay is dropped after the next device took `OWED_RELEASE`.
* *Handoff*: Later, notices and rollouts; the check at launch of a saved release; a mutex that cannot be checked; a copy or
  helper killed from outside; a last start that fails; the helper's result file. `HandoffEnds` is stated and not run. The gate
  is per process: a copy that waits for the mutex while a host the user launched updates is not excluded by it.

Not modelled at all: codecs, H.264/HEVC rewriting, PCM and resampling (data without control); Windows, IddCx and USB muxer
calls (external); the Rust reassembler, which only tests and tools use; drawing, translations, formatting, settings values,
diagnostics, installer, scripts and web pages (no protocol); the fault injector (test equipment). Most of the repository's
lines are of these kinds, tests or platform calls. The failure reporter, the telemetry outbox, rate control and the iPad's
connection have control of their own and are in the plan.

## 7. Plan

The order is that of the harm a mistake does. Done: Session with its refinement of Slot, Stall, Supervisor, PairingLimits,
SecondScreen, ScreenMemory, Tunnel, Repair, Pen, Handoff; every safety property but Repair's `HoldsEnd` is proved, and the
refinement of Slot.

1. **Proofs**: the deadlines of Repair, for `HoldsEnd`.
2. **SeqWindow** (wraps at a width given as a constant) against the set of numbers seen; the relay's keys, buttons and edge
   history.
3. **Connection**: the iPad's retries, link switch and goodbyes over a network that loses, doubles and reorders, composed
   with Session.
4. **Reporter**: crash records, display ownership and locks between processes, with SecondScreen.
5. The **abr** ladder and the telemetry outbox.
