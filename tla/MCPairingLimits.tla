--------------------------- MODULE MCPairingLimits ---------------------------
(***************************************************************************)
(* Small instances of PairingLimits: two addresses, one entry and the      *)
(* shared one.                                                             *)
(***************************************************************************)
EXTENDS PairingLimits, TLC

CONSTANTS a1, a2

TwoAddresses == {a1, a2}
Symmetry == Permutations(TwoAddresses)
=============================================================================
