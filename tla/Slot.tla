-------------------------------- MODULE Slot --------------------------------
(***************************************************************************)
(* What the host promises of its one stream, whatever packets, ticks,      *)
(* restarts and updates bring about: who holds the slot, who may take it   *)
(* and from whom, and when its holder may be given up for dead.  Module    *)
(* SessionSlot shows that Session keeps these promises.                    *)
(***************************************************************************)
EXTENDS Integers

CONSTANTS
  Clients,        \* the ways a client may ask for the slot
  Same(_, _),     \* two of them come from one device
  OnCable(_),     \* asked for over the cable
  NoClient,
  Reasons,        \* why a stream may end
  Timeout,        \* silence after which a client may be given up
  Patience        \* ... and after which one that had a picture is

VARIABLES
  holder,         \* who holds the slot
  turn,           \* how many had it so far
  quiet,          \* how long its holder has been silent, at most Patience
  pictured,       \* its holder had a picture
  shut,           \* nobody is let in: an update takes over
  why             \* how the last turn ended, "none" while it lasts

vars == <<holder, turn, quiet, pictured, shut, why>>

Free == holder = NoClient

Init ==
  /\ holder = NoClient
  /\ turn = 0
  /\ quiet = 0
  /\ pictured = FALSE
  /\ shut = FALSE
  /\ why = "none"

\* Its own device may take the slot again, but not from its cable for its
\* Wi-Fi; another device only once the holder, who had a picture, went silent.
MayTake(c) ==
  \/ Free
  \/ Same(holder, c) /\ (OnCable(holder) => OnCable(c))
  \/ ~Same(holder, c) /\ pictured /\ quiet >= Timeout

Take(c) ==
  /\ ~shut
  /\ MayTake(c)
  /\ holder' = c
  /\ turn' = turn + 1
  /\ quiet' = 0
  /\ pictured' = FALSE
  /\ why' = "none"
  /\ UNCHANGED shut

Hear ==
  /\ ~Free
  /\ quiet' = 0
  /\ pictured' \in {pictured, TRUE}
  /\ UNCHANGED <<holder, turn, shut, why>>

Wait ==
  /\ ~Free
  /\ quiet' = IF quiet < Patience THEN quiet + 1 ELSE Patience
  /\ UNCHANGED <<holder, turn, pictured, shut, why>>

\* Silence alone ends a stream only after Timeout, and after Patience if its
\* client had a picture.
SilentEnough == quiet >= Timeout /\ (pictured => quiet >= Patience)

End(reason) ==
  /\ ~Free
  /\ reason = "liveness" => SilentEnough
  /\ holder' = NoClient
  /\ quiet' = 0
  /\ pictured' = FALSE
  /\ why' = reason
  /\ UNCHANGED <<turn, shut>>

\* Nobody is let in from here on, and nobody streams.
Shut ==
  /\ shut' = TRUE
  /\ holder' = NoClient
  /\ quiet' = 0
  /\ pictured' = FALSE
  /\ why' = IF Free THEN why ELSE "shutdown"
  /\ UNCHANGED turn

Open ==
  /\ shut' = FALSE
  /\ UNCHANGED <<holder, turn, quiet, pictured, why>>

Next ==
  \/ \E c \in Clients : Take(c)
  \/ Hear
  \/ Wait
  \/ \E reason \in Reasons : End(reason)
  \/ Shut
  \/ Open

Spec == Init /\ [][Next]_vars
=============================================================================
