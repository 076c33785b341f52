----------------------------- MODULE StatsLedger -----------------------------
(***************************************************************************)
(* What stats_service promises: results are appended to a ledger and never *)
(* change, and an award is given for good, and only to a user whose        *)
(* results deserve it.                                                     *)
(***************************************************************************)
EXTENDS Integers, Sequences

CONSTANTS
  Users,             \* who plays
  Entry,             \* the results
  Award,             \* what can be awarded
  Deserved(_, _, _)  \* the ledger gives the user a right to the award

VARIABLES
  ledger,   \* the results, in the order in which they were recorded
  awarded   \* the awards given: pairs of a user and an award

ledgerVars == <<ledger, awarded>>

LedgerInit == ledger = <<>> /\ awarded = {}

Record ==
  /\ ledger' \in Seq(Entry) /\ Len(ledger') = Len(ledger) + 1
  /\ \A i \in DOMAIN ledger : ledger'[i] = ledger[i]
  /\ UNCHANGED awarded

Give ==
  /\ awarded' \in SUBSET (Users \X Award)
  /\ awarded \subseteq awarded'
  /\ \A g \in awarded' \ awarded : Deserved(ledger, g[1], g[2])
  /\ UNCHANGED ledger

LedgerNext == Record \/ Give
LedgerSpec == LedgerInit /\ [][LedgerNext]_ledgerVars
==============================================================================
