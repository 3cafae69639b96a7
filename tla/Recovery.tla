------------------------------ MODULE Recovery -------------------------------
(***************************************************************************)
(* The recovery table of experiments/common/oasi_broker.py: what a process *)
(* that opens a sealed ledger may do, from the state of its attempt.       *)
(***************************************************************************)

\* Mutants of recovery_action: a wrong and a missing entry of the table.
recovery_action_aborts(state) ==
    IF state = "TERMINAL" THEN "COMPLETE_NO_REDISPATCH"
                          ELSE "ABORT_WITHOUT_EFFECT"

recovery_action_incomplete(state) ==
    IF state = "TERMINAL" THEN "COMPLETE_NO_REDISPATCH" ELSE "FAIL_CLOSED"

recovery_action(state) ==
    CASE state = "ABSENT"   -> "NO_ACTION"
      [] state = "PREPARED" -> "ABORT_WITHOUT_EFFECT"
      [] state = "CONSUMED" -> "BLOCK_NO_REDISPATCH"
      [] state = "RESULT"   -> "EMIT_TERMINAL_ONLY"
      [] state = "TERMINAL" -> "COMPLETE_NO_REDISPATCH"
      [] OTHER              -> "FAIL_CLOSED"

\* How far an attempt is, from its row: the abstract state of OneShot.tla.
Attempt(state) ==
    CASE state = "CONSUMED"                -> "consumed"
      [] state \in {"RESULT", "TERMINAL"}  -> "recorded"
      [] OTHER                             -> "open"
=============================================================================
