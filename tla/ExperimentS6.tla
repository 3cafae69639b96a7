---------------------------- MODULE ExperimentS6 -----------------------------
(***************************************************************************)
(* experiments/s6/experiment.py: the mechanisms of S5 against a sink that  *)
(* offers no key, query or transaction, so that B3 has nothing to be       *)
(* idempotent with, under ten cases.                                       *)
(***************************************************************************)
EXTENDS TrialOps

MECHANISMS == <<"B0_DIRECT", "B1_AUTH_STATELESS", "B2_AT_LEAST_ONCE",
                "B3_IDEMPOTENT_UNAVAILABLE", "OASI">>
CASES == <<"nominal", "replay", "cross_generation", "altered_signature",
           "crash_prepared", "crash_consumed_before_effect",
           "disconnect_before_effect", "disconnect_after_effect",
           "ack_lost_after_effect", "torn_write_after_effect">>
PRIMARY_AMBIGUOUS_POST_EFFECT_CASES ==
    {"disconnect_after_effect", "ack_lost_after_effect"}
PRE_EFFECT_UNCERTAINTY_CASES ==
    {"crash_prepared", "crash_consumed_before_effect",
     "disconnect_before_effect"}

-----------------------------------------------------------------------------
(* The trials.                                                             *)

dispatch(mechanism, frame, generation, rejected) ==
    IF mechanism = "B1_AUTH_STATELESS"
    THEN <<Verify(frame, generation, rejected), Op("apply")>>
    ELSE <<Op("apply")>>

run_stateless(mechanism, case) ==
    LET once == dispatch(mechanism, make_frame, GENERATION, "raise")
    IN  CASE case = "nominal" -> once
          [] case = "replay" -> once \o once \o <<Accepted("replay_accepted")>>
          [] case = "cross_generation" ->
                 dispatch(mechanism, make_frame, GENERATION + 1,
                          "REJECTED_BINDING")
                 \o <<Accepted("cross_generation_accepted")>>
          [] case = "altered_signature" ->
                 dispatch(mechanism, mutate_signature(make_frame), GENERATION,
                          "REJECTED_SIGNATURE")
                 \o <<Accepted("altered_signature_accepted")>>
          [] case \in PRE_EFFECT_UNCERTAINTY_CASES ->
                 once \o <<Conclude("RECOVERED_BY_REDISPATCH")>>
          [] case \in PRIMARY_AMBIGUOUS_POST_EFFECT_CASES
                        \cup {"torn_write_after_effect"} ->
                 once \o once \o <<Conclude("AMBIGUOUS_RECOVERED_BY_REDISPATCH")>>

run_coordinated(case) ==
    Authenticate(case) \o
    IF case \in {"cross_generation", "altered_signature"} THEN <<>> ELSE
    Ops(<<"StateStore", "store_prepare">>) \o
    CASE case \in PRE_EFFECT_UNCERTAINTY_CASES ->
             Ops(<<"StateStore", "apply", "store_result">>)
             \o <<Conclude("RECOVERED_FROM_READY")>>
      [] case \in PRIMARY_AMBIGUOUS_POST_EFFECT_CASES ->
             Ops(<<"apply", "StateStore", "apply", "store_result">>)
             \o <<Conclude("AMBIGUOUS_RECOVERED_FROM_READY")>>
      [] case = "torn_write_after_effect" ->
             Ops(<<"apply", "store_corrupt">>)
             \o <<<<"store_torn", "BLOCKED_TORN_COORDINATOR">>>>
      [] case = "nominal" -> Ops(<<"apply", "store_result">>)
      [] case = "replay" -> Ops(<<"apply", "store_result", "store_replay">>)

run_oasi(case) ==
    Authenticate(case) \o
    IF case \in {"cross_generation", "altered_signature"} THEN <<>> ELSE
    Ops(<<"Ledger", "ledger_prepare">>) \o
    CASE case = "crash_prepared" ->
             <<Recover("ABORT_WITHOUT_EFFECT", "ABORT_WITHOUT_EFFECT")>>
      [] case \in {"crash_consumed_before_effect", "disconnect_before_effect"} ->
             <<Op("ledger_consume"),
               Recover("BLOCK_NO_REDISPATCH",
                       "BLOCK_NO_REDISPATCH_DELIVERY_LOST")>>
      [] case \in PRIMARY_AMBIGUOUS_POST_EFFECT_CASES ->
             <<Op("ledger_consume"), Op("apply"),
               Recover("BLOCK_NO_REDISPATCH", "BLOCK_NO_REDISPATCH")>>
      [] case = "torn_write_after_effect" ->
             Ops(<<"ledger_consume", "apply", "ledger_torn">>)
      [] case \in {"nominal", "replay"} ->
             Ops(<<"ledger_consume", "apply", "ledger_record_result",
                   "ledger_terminal">>)
             \o IF case = "replay" THEN Ops(<<"ledger_replay">>) ELSE <<>>

\* A mutant of Script: B3 is given the sink of S5.
Script_cooperative(mechanism, case) ==
    CASE mechanism \in {"B0_DIRECT", "B1_AUTH_STATELESS"} ->
             run_stateless(mechanism, case)
      [] mechanism = "B2_AT_LEAST_ONCE" -> run_coordinated(case)
      [] mechanism = "B3_IDEMPOTENT_UNAVAILABLE" ->
             LET script == run_coordinated(case)
             IN  [i \in DOMAIN script |->
                     IF script[i] = Op("apply") THEN Op("apply_idempotent")
                                                ELSE script[i]]
      [] mechanism = "OASI" -> run_oasi(case)

Script(mechanism, case) ==
    CASE mechanism \in {"B0_DIRECT", "B1_AUTH_STATELESS"} ->
             run_stateless(mechanism, case)
      [] mechanism \in {"B2_AT_LEAST_ONCE", "B3_IDEMPOTENT_UNAVAILABLE"} ->
             run_coordinated(case)
      [] mechanism = "OASI" -> run_oasi(case)

-----------------------------------------------------------------------------
(* The record of a trial.                                                  *)

Record(mechanism, case, repetition, t) ==
    LET effect_expected ==
            case \notin {"cross_generation", "altered_signature"}
    IN  [mechanism |-> mechanism, case |-> case, repetition |-> repetition,
         effect_count |-> t.effects, effect_expected |-> effect_expected,
         double_effect |-> t.effects > 1,
         delivered_exactly_once |-> t.effects = 1,
         disposition |-> t.outcome.disposition,
         replay_accepted |-> t.outcome.replay_accepted,
         cross_generation_accepted |-> t.outcome.cross_generation_accepted,
         altered_signature_accepted |-> t.outcome.altered_signature_accepted,
         delivery_lost |-> effect_expected /\ t.effects = 0,
         ambiguous_post_effect |->
             case \in PRIMARY_AMBIGUOUS_POST_EFFECT_CASES,
         pre_effect_uncertainty |-> case \in PRE_EFFECT_UNCERTAINTY_CASES,
         deterministic_terminal |-> t.outcome.disposition \in
            {"COMPLETE", "REJECTED_BINDING", "REJECTED_SIGNATURE",
             "RECOVERED_BY_REDISPATCH", "AMBIGUOUS_RECOVERED_BY_REDISPATCH",
             "RECOVERED_FROM_READY", "AMBIGUOUS_RECOVERED_FROM_READY",
             "BLOCKED_TORN_COORDINATOR", "REPLAY_REJECTED_RESULT_EXISTS",
             "REPLAY_REJECTED_TERMINAL", "ABORT_WITHOUT_EFFECT",
             "BLOCK_NO_REDISPATCH", "BLOCK_NO_REDISPATCH_DELIVERY_LOST",
             "BLOCKED_TORN_LEDGER"}]

validate_record(record) ==
    /\ record.double_effect = (record.effect_count > 1)
    /\ record.mechanism = "OASI" =>
          /\ ~record.double_effect
          /\ ~record.replay_accepted
          /\ ~record.cross_generation_accepted
          /\ ~record.altered_signature_accepted

run_one(mechanism, case, repetition) ==
    Record(mechanism, case, repetition, Result(Script(mechanism, case)))

-----------------------------------------------------------------------------
(* The summary of a campaign's rows.                                       *)

Cell(rows, mechanism, case) ==
    LET cell == SelectSeq(rows, LAMBDA r : r.mechanism = mechanism
                                           /\ r.case = case)
        Sum(field) == Count(cell, LAMBDA r : r[field])
    IN  [runs |-> Len(cell), double_effects |-> Sum("double_effect"),
         delivered_exactly_once |-> Sum("delivered_exactly_once"),
         delivery_lost |-> Sum("delivery_lost"),
         replay_accepted |-> Sum("replay_accepted"),
         cross_generation_accepted |-> Sum("cross_generation_accepted"),
         altered_signature_accepted |-> Sum("altered_signature_accepted")]

aggregate(rows) ==
    LET B3 == "B3_IDEMPOTENT_UNAVAILABLE"
        Doubles(m) ==
            Count(rows, LAMBDA r :
                /\ r.mechanism = m
                /\ r.case \in PRIMARY_AMBIGUOUS_POST_EFFECT_CASES
                /\ r.double_effect)
        Losses(m) ==
            Count(rows, LAMBDA r : /\ r.mechanism = m
                                   /\ r.case \in PRE_EFFECT_UNCERTAINTY_CASES
                                   /\ r.delivery_lost)
        safety_advantage == Doubles("OASI") = 0 /\ Doubles(B3) > 0
        availability_tradeoff == Losses("OASI") > Losses(B3)
    IN  [cells |-> [cell \in Range(MECHANISMS) \X Range(CASES) |->
                        Cell(rows, cell[1], cell[2])],
         primary_comparison_to_b3 |-> <<Doubles(B3), Doubles("OASI")>>,
         availability_tradeoff |-> <<Losses(B3), Losses("OASI")>>,
         conclusion |->
             IF safety_advantage /\ availability_tradeoff
             THEN "BOUNDED_SAFETY_ADVANTAGE_ESTABLISHED_NON_COOPERATIVE_FIXTURE_WITH_AVAILABILITY_TRADEOFF"
             ELSE "S6_HYPOTHESIS_NOT_ESTABLISHED"]
=============================================================================
