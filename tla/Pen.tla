-------------------------------- MODULE Pen --------------------------------
(***************************************************************************)
(* The Apple Pencil on the PC: what the relay holds for the iPad           *)
(* (input/mod.rs), the synthetic pen device and the frames that bring      *)
(* Windows to each sample (input/pen_contact.rs), and the mouse that takes *)
(* over where native input fails (input/pen_device.rs).  All of it runs on *)
(* the transport loop, one call into Windows at a time; Windows may refuse *)
(* each of them for now or for good.                                       *)
(*                                                                         *)
(* A sample is its phase and how long ago it was received.  Where it lies  *)
(* is left out, except whether an up comes where the contact is and        *)
(* whether a place is still on the screen, which are choices.  Whether a   *)
(* frame must wait for its spacing is a choice too.  Time is in parts of   *)
(* INPUT_STALE and stands still while a call works through its samples.    *)
(***************************************************************************)
EXTENDS Naturals, Sequences, SequencesExt

CONSTANTS
  INPUT_STALE, STUCK_TRIAL, RETRY_INTERVAL,   \* in units of time
  QUEUE_LIMIT,
  MaxQueue, MaxWaiting,   \* bounds on samples and mouse events that wait
  MaxRuns                 \* bound on devices, one for each run of the pipeline

ASSUME PenAssumption ==
  /\ INPUT_STALE \in Nat \ {0} /\ STUCK_TRIAL \in Nat \ {0} /\ RETRY_INTERVAL \in Nat \ {0}
  /\ QUEUE_LIMIT \in Nat \ {0} /\ MaxQueue \in Nat /\ MaxQueue > QUEUE_LIMIT
  /\ MaxWaiting \in Nat \ {0} /\ MaxRuns \in Nat \ {0}

VARIABLES
  held,       \* InputRelay.held.pen: "none", "hover" or "contact"
  dropped,    \* DroppedPresses.pen: the start of this stroke came late
  todo,       \* phases the relay injects and the device has not been given
  at,         \* "idle", "flush" inside PenContact::flush, "gone" with no relay
  slot,       \* the device: whether there is one, when to ask again, stuck
  contact,    \* PenContact
  over,       \* PenContact.abandoned: samples for the mouse
  mouse,      \* Mouse
  hovering,   \* the last sample was a hover
  pen,        \* what Windows holds for the device: "out", "hover", "contact"
  owed,       \* OWED_RELEASE: the left button is held and its device is gone
  runs        \* devices so far

vars == <<held, dropped, todo, at, slot, contact, over, mouse, hovering, pen, owed, runs>>

Ink == {"down", "move", "hover"}
Ends == {"up", "cancel", "leave"}
Stuck == INPUT_STALE + STUCK_TRIAL

Fresh(phase) == [phase |-> phase, age |-> 0]
Stale(x) == x.age >= INPUT_STALE
Older(age) == IF age < INPUT_STALE THEN age + 1 ELSE age

\* PenContact::default, and PenContact::on_trial of a device asked for again.
NewContact(trial) ==
  [state |-> "out", there |-> FALSE, queue |-> <<>>, refused |-> FALSE, since |-> 0,
   trial |-> trial, left |-> IF trial THEN STUCK_TRIAL ELSE 0,
   spaced |-> FALSE, resumed |-> FALSE]

\* Slot::create, which Windows may refuse.
Created(s) ==
  {[s EXCEPT !.handle = TRUE, !.retryIn = 0],
   [s EXCEPT !.handle = FALSE, !.retryIn = RETRY_INTERVAL]}

NoDevice == [handle |-> FALSE, retryIn |-> 0, stuck |-> FALSE]
NoMouse == [waiting |-> <<>>, pressed |-> FALSE, planned |-> FALSE, wanted |-> FALSE]

Init ==
  /\ held = "none" /\ dropped = FALSE /\ todo = <<>> /\ over = <<>>
  /\ at = "idle"
  /\ slot \in Created(NoDevice)
  /\ contact = NewContact(FALSE)
  /\ mouse = NoMouse
  /\ hovering = FALSE
  /\ pen = "out"
  /\ owed = FALSE
  /\ runs = 1

-----------------------------------------------------------------------------
(* The mouse: events that wait for SendInput. *)

Event(kind, age, ink) == [kind |-> kind, age |-> age, ink |-> ink]

\* One event of those kept while stale ones go: held is the button after them,
\* owing a press that went.
KeepEvent(acc, e) ==
  IF Stale(e) /\ e.kind # "release"
  THEN [acc EXCEPT !.owing = @ \/ e.kind = "press"]
  ELSE CASE e.kind = "move" ->
              IF acc.owing /\ e.ink
              THEN [kept |-> acc.kept \o <<e, [e EXCEPT !.kind = "press"]>>, held |-> TRUE, owing |-> FALSE]
              ELSE [acc EXCEPT !.kept = Append(@, e), !.owing = FALSE]
         [] e.kind = "press" -> [acc EXCEPT !.kept = Append(@, e), !.held = TRUE]
         [] e.kind = "release" /\ acc.held ->
              [acc EXCEPT !.kept = Append(@, e), !.held = FALSE]
         [] OTHER -> [acc EXCEPT !.owing = FALSE]

\* PenDevice::expire_mouse goes over the events that wait.
Keeping(m) ==
  LET pass[n \in 0 .. Len(m.waiting)] ==
        IF n = 0 THEN [kept |-> <<>>, held |-> m.pressed, owing |-> FALSE]
        ELSE KeepEvent(pass[n - 1], m.waiting[n])
  IN  pass[Len(m.waiting)]

ExpireMouseKeepsPlan(m) == [m EXCEPT !.waiting = Keeping(m).kept]

ExpireMouse(m) ==
  IF \E i \in DOMAIN m.waiting : Stale(m.waiting[i]) /\ m.waiting[i].kind # "release"
  THEN [m EXCEPT !.waiting = Keeping(m).kept, !.planned = Keeping(m).held]
  ELSE m

\* The button after the first n of some events.
Button(pressed, events, n) ==
  LET edges == {i \in 1 .. n : events[i].kind # "move"}
  IN  IF edges = {} THEN pressed
      ELSE \E i \in edges : events[i].kind = "press" /\ \A j \in edges : j <= i

\* Windows inserts the first n of the waiting events.
Inserted(m, n) ==
  [m EXCEPT !.waiting = SubSeq(@, n + 1, Len(@)),
            !.pressed = Button(@, m.waiting, n)]

Pumped(m) ==
  LET fresh == ExpireMouse(m)
  IN  {Inserted(fresh, n) : n \in 0 .. Len(fresh.waiting)}

\* Mouse events for a sample, planned from the button the waiting ones leave.
MouseFor(m, sample) ==
  LET want == sample.phase \in {"down", "move"}
      Of(kind) == Event(kind, sample.age, want)
      events == CASE want /\ ~m.planned -> <<Of("move"), Of("press")>>
                  [] want /\ m.planned -> <<Of("move")>>
                  [] ~want /\ m.planned -> <<Of("move"), Of("release")>>
                  [] ~want /\ ~m.planned /\ sample.phase = "hover" -> <<Of("move")>>
                  [] OTHER -> <<>>
  IN  [m EXCEPT !.wanted = want, !.planned = want, !.waiting = @ \o events]

DropAllMouseInput(m) == [NoMouse EXCEPT !.pressed = m.pressed]

DropMouseInput(m) ==
  [NoMouse EXCEPT !.pressed = m.pressed,
                  !.waiting = IF m.pressed THEN <<Event("release", 0, FALSE)>> ELSE <<>>]

MouseBusy(m) == m.wanted \/ m.pressed \/ m.waiting # <<>>

-----------------------------------------------------------------------------
(* The native device. *)

\* What is left of a queue without its stale ink.
Lasting(queue) ==
  LET pass[n \in 0 .. Len(queue)] ==
        IF n = 0 THEN <<>>
        ELSE IF queue[n].phase \in Ink /\ Stale(queue[n]) THEN pass[n - 1]
        ELSE Append(pass[n - 1], queue[n])
  IN  pass[Len(queue)]

\* PenContact::expire.
ExpireInk(c) ==
  LET kept == Lasting(c.queue)
  IN  [c EXCEPT !.queue = kept, !.resumed = @ /\ Len(kept) = Len(c.queue)]

Coalesces(c, phase) ==
  /\ c.refused /\ Len(c.queue) > 1
  /\ Last(c.queue).phase \in {"move", "hover"} /\ phase \in {"move", "hover"}

Enqueue(c, phase) ==
  [c EXCEPT !.queue = IF Coalesces(c, phase) THEN Append(Front(@), Fresh(phase))
                      ELSE Append(@, Fresh(phase))]

\* PenContact::flush begins: a pass over the queue.
BeginFlush(c) == [ExpireInk(c) EXCEPT !.spaced = FALSE]

\* Samples that cannot be delivered natively are the mouse's.
Abandon(c) ==
  /\ over' = c.queue
  /\ contact' = [c EXCEPT !.queue = <<>>, !.resumed = FALSE]
  /\ at' = "idle"

\* Recreating the device ends what Windows holds for it.
Recreate(c) ==
  /\ slot' \in Created(slot)
  /\ pen' = "out"
  /\ contact' = c

\* The next frame that takes Windows from its state towards a sample. An up
\* that left the screen ends the contact where it is.
Frame(phase, state, same, on) ==
  CASE phase \in {"down", "hover"} -> IF state = "contact" THEN "cancel" ELSE phase
    [] phase = "move" -> IF state = "contact" THEN "move" ELSE "down"
    [] phase = "up" /\ state = "contact" ->
         IF ~on THEN "cancel" ELSE IF same THEN "up" ELSE "move"
    [] phase \in {"cancel", "leave"} /\ state = "contact" -> "cancel"
    [] phase = "leave" /\ state = "hover" -> "leave"
    [] OTHER -> "none"

\* The frame ends what a sample asks for; before it come only the end of an
\* old contact and the last move of an up.
Completes(phase, frame) ==
  ~(phase \in {"down", "hover"} /\ frame = "cancel") /\ ~(phase = "up" /\ frame = "move")

Reached(frame) ==
  CASE frame \in {"down", "move"} -> "contact" [] frame = "hover" -> "hover" [] OTHER -> "out"

\* What is left of the queue once a frame for its first sample is done.
Progress(c, frame) ==
  LET done == Completes(Head(c.queue).phase, frame)
  IN  [c EXCEPT !.state = Reached(frame), !.there = ~done /\ frame = "move",
                !.queue = IF done THEN Tail(@) ELSE @,
                !.resumed = IF done THEN FALSE ELSE @]

\* A frame for the first waiting sample, chosen for whether the up is where
\* the contact is and still on the screen.
NextFrame(frame) ==
  \E same, on \in BOOLEAN :
    /\ contact.there => same
    /\ frame = Frame(Head(contact.queue).phase, contact.state, same, on)

-----------------------------------------------------------------------------
(* The relay: InputRelay::relay_event and HeldInputs::drop_late. *)

AtRest == at = "idle" /\ over = <<>> /\ todo = <<>>

\* What the relay keeps of an event: late ones only end what is held.
Keeps(phase, late) ==
  CASE phase \in {"down", "hover"} -> ~late
    [] phase = "move" -> ~late /\ ~(dropped /\ held # "contact")
    [] OTHER -> held # "none" \/ (~late /\ ~dropped)

DroppedAfter(phase, late) ==
  CASE phase = "down" /\ late -> dropped \/ held # "contact"
    [] phase \in {"down", "hover"} /\ ~late -> FALSE
    [] phase \in Ends -> FALSE
    [] OTHER -> dropped

\* The samples injected for it, from what the relay holds.
Injected(phase) ==
  CASE held = "contact" /\ phase \in {"down", "hover", "leave"} -> {<<"cancel", phase>>}
    [] held = "contact" /\ phase = "up" -> {<<"up">>, <<"move", "up">>}
    [] held # "contact" /\ phase = "move" -> {<<"down">>}
    [] held # "contact" /\ phase \in {"up", "cancel"} -> {<<>>}
    [] OTHER -> {<<phase>>}

HeldWith(samples) ==
  IF samples = <<>> THEN held
  ELSE CASE Last(samples) \in {"down", "move"} -> "contact"
         [] Last(samples) = "hover" -> "hover"
         [] OTHER -> "none"

Relay(phase, late) ==
  /\ AtRest
  /\ Len(contact.queue) < MaxQueue /\ Len(mouse.waiting) < MaxWaiting
  /\ dropped' = DroppedAfter(phase, late)
  /\ IF Keeps(phase, late)
     THEN todo' \in Injected(phase) /\ held' = HeldWith(todo')
     ELSE UNCHANGED <<todo, held>>
  /\ UNCHANGED <<at, slot, contact, over, mouse, hovering, pen, owed, runs>>

-----------------------------------------------------------------------------
(* PenDevice::deliver, one sample. *)

Starts(phase) == phase = "down" \/ (phase = "hover" /\ ~hovering)

\* revive: where a stroke starts, a missing device is asked for again.
Revives(phase) == Starts(phase) /\ ~slot.handle /\ slot.retryIn = 0

ToMouse(m, phase) ==
  /\ mouse' \in Pumped(MouseFor(m, Fresh(phase)))
  /\ UNCHANGED <<at, contact, over, pen>>

\* Windows has refused the first waiting sample for a whole queue of them.
QueueStuck(c, phase) ==
  c.refused /\ Len(c.queue) >= QUEUE_LIMIT /\ ~Coalesces(c, phase)

ToContact(c, phase) ==
  LET fresh == ExpireInk(c)
  IN  IF QueueStuck(fresh, phase)
      THEN /\ slot' \in Created(slot)
           /\ pen' = "out"
           /\ over' = Append(fresh.queue, Fresh(phase))
           /\ contact' = [fresh EXCEPT !.queue = <<>>, !.resumed = FALSE, !.state = "out"]
           /\ UNCHANGED at
      ELSE /\ IF fresh.spaced /\ fresh.queue # <<>>
              THEN contact' = Enqueue(fresh, phase) /\ UNCHANGED at
              ELSE contact' = BeginFlush(Enqueue(fresh, phase)) /\ at' = "flush"
           /\ UNCHANGED <<slot, over, pen>>

Deliver ==
  /\ at = "idle" /\ over = <<>> /\ todo # <<>>
  /\ LET phase == Head(todo)
     IN  /\ todo' = Tail(todo)
         /\ hovering' = (phase = "hover")
         /\ \E m \in Pumped(mouse) :
              IF MouseBusy(m) THEN ToMouse(m, phase) /\ UNCHANGED slot
              ELSE \/ /\ ~Revives(phase) /\ ~slot.handle
                      /\ ToMouse(m, phase) /\ UNCHANGED slot
                   \/ /\ ~Revives(phase) /\ slot.handle
                      /\ mouse' = m
                      /\ ToContact(contact, phase)
                   \/ /\ Revives(phase)
                      /\ slot' \in Created(slot)
                      /\ LET new == NewContact(slot.stuck)
                         IN  IF slot'.handle
                             THEN /\ mouse' = m
                                  /\ contact' = BeginFlush(Enqueue(new, phase))
                                  /\ at' = "flush"
                                  /\ UNCHANGED <<over, pen>>
                             ELSE /\ mouse' \in Pumped(MouseFor(m, Fresh(phase)))
                                  /\ contact' = new
                                  /\ UNCHANGED <<at, over, pen>>
  /\ UNCHANGED <<held, dropped, owed, runs>>

\* hand_over: the next abandoned sample goes to the mouse.
HandOver ==
  /\ at = "idle" /\ over # <<>>
  /\ over' = Tail(over)
  /\ mouse' \in Pumped(MouseFor(mouse, Head(over)))
  /\ UNCHANGED <<held, dropped, todo, at, slot, contact, hovering, pen, owed, runs>>

-----------------------------------------------------------------------------
(* PenContact::flush: one frame, or the end of a pass. *)

Flushing == at = "flush" /\ contact.queue # <<>>

FlushEnds ==
  /\ at = "flush" /\ contact.queue = <<>>
  /\ at' = "idle"
  /\ UNCHANGED <<held, dropped, todo, slot, contact, over, mouse, hovering, pen, owed, runs>>

NothingToDo ==
  /\ Flushing /\ NextFrame("none")
  /\ contact' = [contact EXCEPT !.queue = Tail(@), !.resumed = FALSE]
  /\ UNCHANGED <<held, dropped, todo, at, slot, over, mouse, hovering, pen, owed, runs>>

NoHandle ==
  /\ Flushing /\ ~NextFrame("none") /\ ~slot.handle
  /\ Abandon(contact)
  /\ UNCHANGED <<held, dropped, todo, slot, mouse, hovering, pen, owed, runs>>

\* The frame would come too soon, or past this pass's budget.
HoldBack ==
  /\ Flushing /\ ~NextFrame("none") /\ slot.handle
  /\ contact' = [contact EXCEPT !.spaced = TRUE]
  /\ at' = "idle"
  /\ UNCHANGED <<held, dropped, todo, slot, over, mouse, hovering, pen, owed, runs>>

Accept ==
  /\ Flushing /\ slot.handle
  /\ \E frame \in Ink \cup Ends :
       /\ NextFrame(frame)
       /\ contact' = [Progress(contact, frame) EXCEPT !.refused = FALSE, !.since = 0,
                                                      !.trial = FALSE, !.left = 0]
       /\ pen' = Reached(frame)
  /\ slot' = [slot EXCEPT !.stuck = FALSE]
  /\ UNCHANGED <<held, dropped, todo, at, over, mouse, hovering, owed, runs>>

\* Windows rejects a frame and cancels the contact; a move or hover starts
\* again once, anything else is given up.
Reject ==
  /\ Flushing /\ slot.handle
  /\ \E frame \in {"down", "move", "hover", "up"} : NextFrame(frame)
  /\ pen' = "out"
  /\ LET out == [contact EXCEPT !.state = "out", !.there = FALSE]
     IN  IF contact.resumed \/ Head(contact.queue).phase \notin {"move", "hover"}
         THEN Abandon(out)
         ELSE contact' = [out EXCEPT !.resumed = TRUE] /\ UNCHANGED <<over, at>>
  /\ UNCHANGED <<held, dropped, todo, slot, mouse, hovering, owed, runs>>

\* An end that Windows rejects, or that would lie off the screen, is made by
\* recreating the device.
EndByRecreating ==
  /\ Flushing /\ slot.handle
  /\ \E frame \in {"cancel", "leave"} :
       /\ NextFrame(frame)
       /\ Recreate(Progress(contact, frame))
  /\ UNCHANGED <<held, dropped, todo, at, over, mouse, hovering, owed, runs>>

\* Windows is not ready: the sample waits, unless ink has waited so long that
\* native input is stuck. Then the device is recreated once, and given up
\* should the new one accept nothing either.
NotReady ==
  /\ Flushing /\ ~NextFrame("none") /\ slot.handle
  /\ LET c == [contact EXCEPT !.refused = TRUE, !.since = IF contact.refused THEN @ ELSE 0]
         inked == \E i \in DOMAIN c.queue : c.queue[i].phase \in Ink
         out == [c EXCEPT !.state = "out", !.there = FALSE]
         limit == IF c.state = "contact" THEN Stuck ELSE INPUT_STALE
     IN  \/ /\ inked /\ c.trial /\ c.left = 0
            /\ slot' = [handle |-> FALSE, retryIn |-> RETRY_INTERVAL, stuck |-> TRUE]
            /\ pen' = "out"
            /\ Abandon(out)
         \/ /\ inked /\ ~c.trial /\ c.since >= limit
            /\ Recreate([out EXCEPT !.trial = TRUE, !.left = STUCK_TRIAL])
            /\ UNCHANGED <<at, over>>
         \/ /\ ~inked \/ (c.trial /\ c.left > 0) \/ (~c.trial /\ c.since < limit)
            /\ contact' = c
            /\ at' = "idle"
            /\ UNCHANGED <<slot, over, pen>>
  /\ UNCHANGED <<held, dropped, todo, mouse, hovering, owed, runs>>

-----------------------------------------------------------------------------
(* The loop's tick, time, and the ends of sessions and runs. *)

TickNeededByDevice == slot.handle
TickNeeded == slot.handle \/ mouse.waiting # <<>>

\* keep_pen_alive: retry the mouse, flush, and refresh a still contact.
Tick ==
  /\ AtRest
  /\ TickNeeded
  /\ mouse' \in Pumped(mouse)
  /\ IF slot.handle /\ contact.queue # <<>>
     THEN contact' = BeginFlush(contact) /\ at' = "flush"
     ELSE UNCHANGED <<contact, at>>
  /\ todo' \in {<<>>, CASE held = "contact" -> <<"move">>
                        [] held = "hover" -> <<"hover">>
                        [] OTHER -> <<>>}
  /\ todo' # <<>> => Len(contact.queue) < MaxQueue /\ Len(mouse.waiting) < MaxWaiting
  /\ UNCHANGED <<held, dropped, slot, over, hovering, pen, owed, runs>>

Aged(s) == [i \in DOMAIN s |-> [s[i] EXCEPT !.age = Older(@)]]

Pass ==
  /\ AtRest
  /\ contact' = [contact EXCEPT !.queue = Aged(@), !.since = IF contact.refused /\ @ < Stuck THEN @ + 1 ELSE @,
                                !.left = IF @ > 0 THEN @ - 1 ELSE 0]
  /\ slot' = [slot EXCEPT !.retryIn = IF @ > 0 THEN @ - 1 ELSE 0]
  /\ mouse' = [mouse EXCEPT !.waiting = Aged(@)]
  /\ UNCHANGED <<held, dropped, todo, at, over, hovering, pen, owed, runs>>

\* PenContact::reset: what Windows never got is dropped, what it holds ends.
ResetContact ==
  LET empty == [contact EXCEPT !.queue = <<>>, !.there = FALSE,
                               !.resumed = @ /\ contact.queue = <<>>]
      out == [empty EXCEPT !.state = "out"]
      accepted == [out EXCEPT !.refused = FALSE, !.since = 0, !.trial = FALSE, !.left = 0]
  IN  IF ~slot.handle THEN UNCHANGED <<contact, slot, pen>>
      ELSE \/ /\ (contact.queue # <<>> /\ contact.refused) \/ contact.state # "out"
              /\ Recreate(out)
           \/ /\ ~(contact.queue # <<>> /\ contact.refused) /\ contact.state # "out"
              /\ contact' = accepted /\ pen' = "out"
              /\ slot' = [slot EXCEPT !.stuck = FALSE]
           \/ /\ ~(contact.queue # <<>> /\ contact.refused) /\ contact.state = "out"
              /\ contact' = empty
              /\ UNCHANGED <<slot, pen>>

\* InputRelay::reset: the session ended or was taken over.
Release ==
  /\ held' = "none" /\ dropped' = FALSE /\ hovering' = FALSE
  /\ ResetContact
  /\ mouse' \in Pumped(DropMouseInput(mouse))

Reset ==
  /\ AtRest
  /\ Release
  /\ UNCHANGED <<todo, at, over, owed, runs>>

\* The transport ends: its relay is reset and its device destroyed.
Drop ==
  /\ AtRest
  /\ held' = "none" /\ dropped' = FALSE /\ hovering' = FALSE
  /\ \E m \in Pumped(DropMouseInput(mouse)) : owed' = m.pressed
  /\ at' = "gone"
  /\ mouse' = NoMouse /\ contact' = NewContact(FALSE)
  /\ slot' = NoDevice /\ pen' = "out"
  /\ UNCHANGED <<todo, over, runs>>

\* PenDevice::new in the next run: a release left owed comes first.
Start ==
  /\ at = "gone" /\ runs < MaxRuns
  /\ at' = "idle"
  /\ runs' = runs + 1
  /\ slot' \in Created(NoDevice)
  /\ mouse' = DropMouseInput([NoMouse EXCEPT !.pressed = owed])
  /\ owed' = FALSE
  /\ UNCHANGED <<held, dropped, todo, contact, over, hovering, pen>>

Flush == FlushEnds \/ NothingToDo \/ NoHandle \/ HoldBack \/ Accept \/ Reject \/ EndByRecreating \/ NotReady

Next ==
  \/ \E phase \in Ink \cup Ends, late \in BOOLEAN : Relay(phase, late)
  \/ Deliver \/ HandOver \/ Flush
  \/ Tick \/ Pass \/ Reset \/ Drop \/ Start

Spec == Init /\ [][Next]_vars

\* Calls into Windows return. What waits is offered at every tick, and Windows
\* does not refuse for ever: a frame offered again and again is accepted, and
\* so are the mouse events.
PumpAll == Tick /\ mouse'.waiting = <<>>
FairSpec ==
  /\ Spec
  /\ WF_vars(Deliver) /\ WF_vars(HandOver) /\ WF_vars(Flush)
  /\ SF_vars(Tick) /\ SF_vars(Accept) /\ SF_vars(PumpAll)

-----------------------------------------------------------------------------
Sample == [phase : Ink \cup Ends, age : 0 .. INPUT_STALE]
MouseEvent == [kind : {"move", "press", "release"}, age : 0 .. INPUT_STALE, ink : BOOLEAN]

Slots == [handle : BOOLEAN, retryIn : 0 .. RETRY_INTERVAL, stuck : BOOLEAN]
Contacts ==
  [state : {"out", "hover", "contact"}, there : BOOLEAN, queue : Seq(Sample),
   refused : BOOLEAN, since : 0 .. Stuck, trial : BOOLEAN, left : 0 .. STUCK_TRIAL,
   spaced : BOOLEAN, resumed : BOOLEAN]
Mice == [waiting : Seq(MouseEvent), pressed : BOOLEAN, planned : BOOLEAN, wanted : BOOLEAN]

TypeOK ==
  /\ held \in {"none", "hover", "contact"} /\ dropped \in BOOLEAN
  /\ todo \in Seq(Ink \cup Ends) /\ at \in {"idle", "flush", "gone"}
  /\ slot \in Slots /\ contact \in Contacts /\ over \in Seq(Sample) /\ mouse \in Mice
  /\ hovering \in BOOLEAN /\ pen \in {"out", "hover", "contact"}
  /\ owed \in BOOLEAN /\ runs \in 1 .. MaxRuns

\* What Windows holds is known, and belongs to a stroke of the iPad: a contact
\* or button that outlives its stroke has its end waiting behind it, whatever
\* was refused, expired, abandoned or handed over on the way.
HeldForStroke ==
  /\ pen = IF at = "gone" THEN "out" ELSE contact.state
  /\ AtRest /\ held # "contact" =>
       /\ pen = "contact" =>
            contact.queue # <<>> /\ Last(contact.queue).phase \notin {"down", "move"}
       /\ mouse.pressed => mouse.waiting # <<>> /\ Last(mouse.waiting).kind # "press"
       /\ ~mouse.planned

\* The mouse is never pressed twice nor released without a press, a press is
\* only that of a stroke still drawn, and a stroke is on one path at a time.
Alternate(pressed, events) ==
  \A i \in DOMAIN events :
    events[i].kind # "move" => (events[i].kind = "press") = ~Button(pressed, events, i - 1)

MouseSound ==
  /\ Alternate(mouse.pressed, mouse.waiting)
  /\ \A i \in DOMAIN mouse.waiting : mouse.waiting[i].kind = "press" => mouse.waiting[i].ink
  /\ mouse.planned = Button(mouse.pressed, mouse.waiting, Len(mouse.waiting))
  /\ contact.queue # <<>> \/ contact.state # "out" => ~MouseBusy(mouse)

\* Once the iPad's stroke is over, Windows lets go of it: no contact and no
\* button stay down, as long as the pipeline runs or runs again.
Down == pen = "contact" \/ mouse.pressed \/ owed
LetGo == held # "contact" ~> ~Down \/ held = "contact" \/ at = "gone"
=============================================================================
