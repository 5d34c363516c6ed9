--------------------------- MODULE CaptureLedger ---------------------------
(***************************************************************************)
(* What a device round promises for one tag, whatever its batches, its     *)
(* staging and its stops: apps are on the board one at a time, an app      *)
(* whose evidence is in hand is never launched again, and evidence in hand *)
(* is never lost.                                                          *)
(***************************************************************************)
CONSTANTS App, NoApp

VARIABLES
  got,      \* apps whose stderr log is kept under the tag
  board     \* the app the round has on the board, or NoApp

ledger == <<got, board>>

LedgerInit ==
  /\ got = {}
  /\ board = NoApp

Launch(a) ==
  /\ board = NoApp
  /\ a \notin got
  /\ board' = a
  /\ UNCHANGED got

Keep ==
  /\ board # NoApp
  /\ got' = got \cup {board}
  /\ board' = NoApp

\* The launch gave no evidence: the app stays open for a later run.
GiveUp ==
  /\ board # NoApp
  /\ board' = NoApp
  /\ UNCHANGED got

LedgerNext == (\E a \in App : Launch(a)) \/ Keep \/ GiveUp

LedgerSpec == LedgerInit /\ [][LedgerNext]_ledger
=============================================================================
