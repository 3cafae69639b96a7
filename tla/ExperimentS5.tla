---------------------------- MODULE ExperimentS5 -----------------------------
(***************************************************************************)
(* experiments/s5/experiment.py: the trials of five mechanisms under eight *)
(* cases, with a sink that can recognise a repeated key, the record each   *)
(* trial yields and the summary of a campaign.  Host timings and sizes,    *)
(* which no check compares between runs, are left out.                     *)
(***************************************************************************)
EXTENDS TrialOps

MECHANISMS == <<"B0_DIRECT", "B1_AUTH_STATELESS", "B2_AT_LEAST_ONCE",
                "B3_IDEMPOTENT", "OASI">>
CASES == <<"nominal", "replay", "cross_generation", "altered_signature",
           "crash_prepared", "crash_consumed",
           "crash_after_effect_before_result", "torn_write">>

-----------------------------------------------------------------------------
(* The trials.                                                             *)

\* A mutant of dispatch: the effect precedes the check of the frame.
dispatch_late(mechanism, frame, generation, rejected) ==
    IF mechanism = "B1_AUTH_STATELESS"
    THEN <<Op("apply"), Verify(frame, generation, rejected)>>
    ELSE <<Op("apply")>>

dispatch(mechanism, frame, generation, rejected) ==
    IF mechanism = "B1_AUTH_STATELESS"
    THEN <<Verify(frame, generation, rejected), Op("apply")>>
    ELSE <<Op("apply")>>

run_stateless(mechanism, case) ==
    LET once == dispatch(mechanism, make_frame, GENERATION, "raise")
    IN  CASE case = "nominal" -> once
          [] case = "replay" -> once \o once \o <<Accepted("replay_accepted")>>
          [] case = "cross_generation" ->
                 dispatch(mechanism, make_frame, GENERATION + 1,
                          "REJECTED_BINDING")
                 \o <<Accepted("cross_generation_accepted")>>
          [] case = "altered_signature" ->
                 dispatch(mechanism, mutate_signature(make_frame), GENERATION,
                          "REJECTED_SIGNATURE")
                 \o <<Accepted("altered_signature_accepted")>>
          [] case \in {"crash_prepared", "crash_consumed"} ->
                 once \o <<Conclude("RECOVERED_BY_REDISPATCH")>>
          [] case \in {"crash_after_effect_before_result", "torn_write"} ->
                 once \o once \o <<Conclude("RECOVERED_BY_REDISPATCH")>>

run_coordinated(mechanism, case) ==
    LET Apply == IF mechanism = "B3_IDEMPOTENT" THEN "apply_idempotent"
                                                ELSE "apply"
        recovered == Ops(<<"StateStore", Apply, "store_result">>)
    IN  Authenticate(case) \o
        IF case \in {"cross_generation", "altered_signature"} THEN <<>> ELSE
        Ops(<<"StateStore", "store_prepare">>) \o
        CASE case = "crash_prepared" ->
                 recovered \o <<Conclude("RECOVERED_FROM_READY")>>
          [] case = "crash_consumed" ->
                 recovered
                 \o <<Conclude("RECOVERED_FROM_READY_NO_CONSUMED_PHASE")>>
          [] case = "crash_after_effect_before_result" ->
                 <<Op(Apply)>> \o recovered
                 \o <<Conclude("RECOVERED_FROM_READY")>>
          [] case = "torn_write" ->
                 Ops(<<Apply, "store_corrupt">>)
                 \o <<<<"store_torn", "BLOCKED_TORN_LEDGER">>>>
          [] case = "nominal" -> Ops(<<Apply, "store_result">>)
          [] case = "replay" ->
                 Ops(<<Apply, "store_result", "store_replay">>)

\* A mutant of run_oasi: the effect is performed before it is consumed.
run_oasi_late(case) ==
    Authenticate(case) \o
    IF case \in {"cross_generation", "altered_signature"} THEN <<>> ELSE
    Ops(<<"Ledger", "ledger_prepare", "apply">>) \o
    IF case = "crash_after_effect_before_result"
    THEN <<Recover("ABORT_WITHOUT_EFFECT", "ABORT_WITHOUT_EFFECT")>>
    ELSE Ops(<<"ledger_consume", "ledger_record_result", "ledger_terminal">>)

run_oasi(case) ==
    Authenticate(case) \o
    IF case \in {"cross_generation", "altered_signature"} THEN <<>> ELSE
    Ops(<<"Ledger", "ledger_prepare">>) \o
    CASE case = "crash_prepared" ->
             <<Recover("ABORT_WITHOUT_EFFECT", "ABORT_WITHOUT_EFFECT")>>
      [] case = "crash_consumed" ->
             <<Op("ledger_consume"),
               Recover("BLOCK_NO_REDISPATCH", "BLOCK_NO_REDISPATCH")>>
      [] case = "crash_after_effect_before_result" ->
             <<Op("ledger_consume"), Op("apply"),
               Recover("BLOCK_NO_REDISPATCH", "BLOCK_NO_REDISPATCH")>>
      [] case = "torn_write" ->
             Ops(<<"ledger_consume", "apply", "ledger_torn">>)
      [] case \in {"nominal", "replay"} ->
             Ops(<<"ledger_consume", "apply", "ledger_record_result",
                   "ledger_terminal">>)
             \o IF case = "replay" THEN Ops(<<"ledger_replay">>) ELSE <<>>

Script(mechanism, case) ==
    CASE mechanism \in {"B0_DIRECT", "B1_AUTH_STATELESS"} ->
             run_stateless(mechanism, case)
      [] mechanism \in {"B2_AT_LEAST_ONCE", "B3_IDEMPOTENT"} ->
             run_coordinated(mechanism, case)
      [] mechanism = "OASI" -> run_oasi(case)

-----------------------------------------------------------------------------
(* The record of a trial.                                                  *)

Record(mechanism, case, repetition, t) ==
    [mechanism |-> mechanism, case |-> case, repetition |-> repetition,
     effect_count |-> t.effects, double_effect |-> t.effects > 1,
     delivered_exactly_once |-> t.effects = 1,
     disposition |-> t.outcome.disposition,
     replay_accepted |-> t.outcome.replay_accepted,
     cross_generation_accepted |-> t.outcome.cross_generation_accepted,
     altered_signature_accepted |-> t.outcome.altered_signature_accepted,
     deterministic_terminal |-> t.outcome.disposition \in
        {"COMPLETE", "REJECTED_BINDING", "REJECTED_SIGNATURE",
         "RECOVERED_BY_REDISPATCH", "RECOVERED_FROM_READY",
         "RECOVERED_FROM_READY_NO_CONSUMED_PHASE", "BLOCKED_TORN_LEDGER",
         "REPLAY_REJECTED_RESULT_EXISTS", "REPLAY_REJECTED_TERMINAL",
         "ABORT_WITHOUT_EFFECT", "BLOCK_NO_REDISPATCH"}]

\* The record is accepted; the other checks look at fields it always has.
validate_record(record) ==
    /\ record.double_effect = (record.effect_count > 1)
    /\ record.mechanism = "OASI" =>
          /\ ~record.double_effect
          /\ ~record.replay_accepted
          /\ ~record.cross_generation_accepted
          /\ ~record.altered_signature_accepted

run_one(mechanism, case, repetition) ==
    Record(mechanism, case, repetition, Result(Script(mechanism, case)))

-----------------------------------------------------------------------------
(* The summary of a campaign's rows, a sequence of records.                *)

Cell(rows, mechanism, case) ==
    LET cell == SelectSeq(rows, LAMBDA r : r.mechanism = mechanism
                                           /\ r.case = case)
        Sum(field) == Count(cell, LAMBDA r : r[field])
    IN  [runs |-> Len(cell), double_effects |-> Sum("double_effect"),
         delivered_exactly_once |-> Sum("delivered_exactly_once"),
         replay_accepted |-> Sum("replay_accepted"),
         cross_generation_accepted |-> Sum("cross_generation_accepted"),
         altered_signature_accepted |-> Sum("altered_signature_accepted")]

aggregate(rows) ==
    LET Doubles(m) ==
            Count(rows, LAMBDA r : r.mechanism = m /\ r.double_effect)
        Exact(m) ==
            Count(rows, LAMBDA r : r.mechanism = m /\ r.delivered_exactly_once)
        advantage == /\ Doubles("OASI") < Doubles("B3_IDEMPOTENT")
                     /\ Exact("OASI") >= Exact("B3_IDEMPOTENT")
    IN  [cells |-> [cell \in Range(MECHANISMS) \X Range(CASES) |->
                        Cell(rows, cell[1], cell[2])],
         comparison_to_b3 |-> <<Doubles("B3_IDEMPOTENT"), Doubles("OASI"),
                                Exact("B3_IDEMPOTENT"), Exact("OASI")>>,
         conclusion |->
             IF advantage
             THEN "OASI_ADVANTAGE_ESTABLISHED_IN_THIS_LOCAL_MODEL"
             ELSE "MECHANISM_ADVANTAGE_NOT_ESTABLISHED_AGAINST_B3"]
=============================================================================
