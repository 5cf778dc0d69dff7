----------------------------- MODULE MCListener -----------------------------
(***************************************************************************)
(* Instances of Listener for TLC.                                          *)
(***************************************************************************)
EXTENDS Listener, TLC

CONSTANTS
  e1  \* an unreadable ledger

Unreadable == {e1}
=============================================================================
