------------------------------- MODULE Trials --------------------------------
(***************************************************************************)
(* Every trial of S5 and S6, one operation of its script at a time: the    *)
(* state that a staged crash would leave is a state of this machine.       *)
(***************************************************************************)
EXTENDS TrialOps

S5 == INSTANCE ExperimentS5
S6 == INSTANCE ExperimentS6

VARIABLES
    experiment, mechanism, case,    \* the trial that run_one was called for
    script,                         \* the operations still to perform
    trial                           \* see TrialOps

vars == <<experiment, mechanism, case, script, trial>>

Init ==
    /\ experiment \in {"s5", "s6"}
    /\ mechanism \in Range(IF experiment = "s5" THEN S5!MECHANISMS
                                            ELSE S6!MECHANISMS)
    /\ case \in Range(IF experiment = "s5" THEN S5!CASES ELSE S6!CASES)
    /\ script = IF experiment = "s5" THEN S5!Script(mechanism, case)
                                     ELSE S6!Script(mechanism, case)
    /\ trial = InitTrial

Operation ==
    /\ trial.status = "running"
    /\ script # <<>>
    /\ trial' = Perform(trial, Head(script))
    /\ script' = Tail(script)
    /\ UNCHANGED <<experiment, mechanism, case>>

\* run_one: the effects are counted and the record is validated.
run_one ==
    /\ \/ trial.status = "running" /\ script = <<>>
       \/ trial.status = "returned"
    /\ trial' = [trial EXCEPT !.status =
          IF IF experiment = "s5"
             THEN S5!validate_record(S5!Record(mechanism, case, 1, trial))
             ELSE S6!validate_record(S6!Record(mechanism, case, 1, trial))
          THEN "recorded" ELSE "record violation"]
    /\ UNCHANGED <<experiment, mechanism, case, script>>

Ended == trial.status \notin {"running", "returned"} /\ UNCHANGED vars

Next == Operation \/ run_one \/ Ended

Spec == Init /\ [][Next]_vars

-----------------------------------------------------------------------------
(* Properties.                                                             *)

(* No trial fails one of its own checks: no frame is refused that should   *)
(* pass, no recovery drifts, no torn database opens, no result is lost and *)
(* validate_record accepts every record (the `raise` statements of the     *)
(* run_* functions and of run_one).                                        *)
ChecksHold == trial.status \in {"running", "returned", "recorded"}

(* The OASI trials carry out one attempt as the broker does: consumed      *)
(* before the effect, one effect, a result only after it, and nothing      *)
(* after a staged crash, replay or torn ledger (run_oasi of S5 and S6).    *)
Oasi(value, other) == IF mechanism = "OASI" THEN value ELSE other
Shot == INSTANCE OneShot
            WITH attempt <- Oasi(Attempt(trial.ledger.state), "open"),
                 effects <- Oasi(trial.effects, 0)
OneAttempt == Shot!Spec

(* What a record says happened did happen: the disposition, written by the *)
(* branch that staged the fault, agrees with the effects and the databases *)
(* the trial leaves.                                                       *)
DispositionTruthful ==
    LET says == trial.outcome.disposition
        n == trial.effects
    IN  trial.status = "recorded" =>
        /\ says \in {"REJECTED_BINDING", "REJECTED_SIGNATURE",
                     "ABORT_WITHOUT_EFFECT",
                     "BLOCK_NO_REDISPATCH_DELIVERY_LOST"} => n = 0
        /\ says \in {"REPLAY_REJECTED_RESULT_EXISTS",
                     "REPLAY_REJECTED_TERMINAL"} => n = 1
        /\ says \in {"RECOVERED_FROM_READY", "AMBIGUOUS_RECOVERED_FROM_READY",
                     "RECOVERED_FROM_READY_NO_CONSUMED_PHASE"} =>
              n >= 1 /\ trial.store.state = "RESULT"
        /\ says = "BLOCK_NO_REDISPATCH" => trial.ledger.state = "CONSUMED"
        /\ says = "BLOCKED_TORN_LEDGER" =>
              ~(trial.ledger.intact /\ trial.store.intact) /\ n = 1

(* The guarantee each baseline is named for, over every case but the two   *)
(* forged frames: B2 and B3 always deliver, and B3 of S5 exactly once      *)
(* although it dispatches again after a crash (run_coordinated).           *)
BaselineGuarantee ==
    /\ trial.status = "recorded"
    /\ case \notin {"cross_generation", "altered_signature"}
    => /\ mechanism \in {"B2_AT_LEAST_ONCE", "B3_IDEMPOTENT_UNAVAILABLE"} =>
             trial.effects >= 1
       /\ mechanism = "B3_IDEMPOTENT" => trial.effects = 1
=============================================================================
