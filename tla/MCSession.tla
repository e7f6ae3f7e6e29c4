------------------------------ MODULE MCSession ------------------------------
(***************************************************************************)
(* Small instances of Session: iPad A over Wi-Fi and over the cable, and   *)
(* iPad B over Wi-Fi.                                                      *)
(***************************************************************************)
EXTENDS SessionSlot

WifiA == [link |-> "udp", host |-> "a", port |-> 1]
WifiB == [link |-> "udp", host |-> "b", port |-> 1]
UsbA == [link |-> "usb", host |-> "a", port |-> 0]

Attempt(from, device, nonce) ==
  [from |-> from, device |-> device, nonce |-> nonce, listen |-> 0, token |-> 0,
   code |-> 0, v2 |-> TRUE, input |-> TRUE, nack |-> from.link = "udp"]

\* Takeovers: A on both links, and an old B that sends no device id and asks
\* for its media at another port.
TakeoverHellos ==
  {Attempt(WifiA, 1, 1), Attempt(UsbA, 1, 2),
   [Attempt(WifiB, 0, 3) EXCEPT !.listen = 5]}

\* Pairing and liveness, without input: A with its token or with the first
\* code, and B with the second code.
Presents(hello, t, c) == [hello EXCEPT !.token = t, !.code = c, !.input = FALSE]
LiveHellos ==
  {Presents(Attempt(WifiA, 1, 1), 0, 1), Presents(Attempt(WifiA, 1, 1), 1, 0),
   Presents(Attempt(WifiB, 2, 3), 0, 2)}
=============================================================================
