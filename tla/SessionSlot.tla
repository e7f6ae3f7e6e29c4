----------------------------- MODULE SessionSlot -----------------------------
(***************************************************************************)
(* Session implements Slot: the slot is the session, seen without links,   *)
(* credentials, decisions under way and deadlines.                         *)
(***************************************************************************)
EXTENDS Session

\* SameDevice of a session begun by g.
SameClient(g, h) ==
  IF g.device # 0 /\ h.device # 0 THEN g.device = h.device ELSE SamePeer(g.from, h.from)
Cabled(h) == h.from.link = "usb"
NoHello == [nonce |-> "none"]

Slot == INSTANCE Slot WITH
  Clients <- Hellos, Same <- SameClient, OnCable <- Cabled, NoClient <- NoHello,
  Timeout <- LivenessTimeout, Patience <- HoldLimit,
  holder <- IF Active THEN session.hello ELSE NoHello,
  turn <- nextId - 1,
  quiet <- IF Active THEN session.silent ELSE 0,
  pictured <- Active /\ session.frames,
  shut <- updating,
  why <- IF nextId = 1 THEN "none" ELSE endedAs[nextId - 1]

\* The slot's promises hold of the session: a device takes a live slot only
\* from a client that had a picture and went silent, never trades its own cable
\* for its Wi-Fi, nobody streams during an update, and no client is given up
\* before its time (handle_hello, handle_bye, tick, begin_update).
KeepsSlot == Slot!Spec
=============================================================================
