------------------------------ MODULE TrialOps -------------------------------
(***************************************************************************)
(* What the trials of experiments S5 and S6 are made of: the frame check,  *)
(* the effect sinks, the coordinator's StateStore, the broker's Ledger and *)
(* the operations a trial performs on them.                                *)
(*                                                                         *)
(* A trial is one process that works alone in a directory of its own; the  *)
(* crashes it measures are staged by the code (close and open again), so   *)
(* each operation is one step and takes the trial's state `t` to the next. *)
(* `t.status` is "running", "returned", or the error that escaped.         *)
(***************************************************************************)
EXTENDS Naturals, Sequences, SequencesExt, FiniteSets, Recovery

GENERATION == 1         \* the generation of the trial; any number
BINDING == "binding"    \* its context and attempt

\* make_frame and mutate_signature: the signature holds or it does not.
make_frame == [generation |-> GENERATION, binding |-> BINDING, signed |-> TRUE]
mutate_signature(frame) == [frame EXCEPT !.signed = FALSE]

\* A mutant of verify_frame: the generation is not compared.
verify_frame_unbound(frame, generation) ==
    IF frame.signed THEN "accepted" ELSE "signature"

verify_frame(frame, generation) ==
    IF ~frame.signed THEN "signature"
    ELSE IF frame.generation # generation THEN "generation"
    ELSE IF frame.binding # BINDING THEN "context_attempt"
    ELSE "accepted"

base_outcome == [disposition |-> "COMPLETE", replay_accepted |-> FALSE,
                 cross_generation_accepted |-> FALSE,
                 altered_signature_accepted |-> FALSE]

\* A database and its seal: absent, or a state and whether the seal matches.
NoFile == [state |-> "NONE", intact |-> TRUE]

InitTrial == [status |-> "running", effects |-> 0, dedup |-> FALSE,
              store |-> NoFile, ledger |-> NoFile, outcome |-> base_outcome]

Raised(t, error) == [t EXCEPT !.status = error]
Concludes(t, disposition) == [t EXCEPT !.outcome.disposition = disposition]

-----------------------------------------------------------------------------
(* The sinks.                                                              *)

\* NonCooperativeSink.apply, and EffectSink.apply without a key.
apply(t) == [t EXCEPT !.effects = @ + 1]

\* A mutant of apply_idempotent: the key is stored and not looked up.
apply_forgetful(t) == [apply(t) EXCEPT !.dedup = TRUE]

\* EffectSink.apply(idempotent=True): INSERT OR IGNORE on the key, and the
\* effect in the same transaction only if the key was new.
apply_idempotent(t) == IF t.dedup THEN t ELSE [apply(t) EXCEPT !.dedup = TRUE]

-----------------------------------------------------------------------------
(* StateStore: every method verifies the seal first.                       *)

StateStore(t) ==
    CASE t.store = NoFile -> [t EXCEPT !.store.state = "ABSENT"]
      [] ~t.store.intact  -> Raised(t, "seal mismatch")
      [] OTHER            -> t

StoreMoves(t, from, to, error) ==
    IF ~t.store.intact THEN Raised(t, "seal mismatch")
    ELSE IF t.store.state # from THEN Raised(t, error)
    ELSE [t EXCEPT !.store.state = to]

store_prepare(t) == StoreMoves(t, "ABSENT", "READY", "duplicate job")
store_result(t) == StoreMoves(t, "READY", "RESULT", "invalid result transition")
store_corrupt(t) == [t EXCEPT !.store.intact = FALSE]

\* store.state(key) after the store was opened again.
store_replay(t) ==
    LET u == StateStore(t)
    IN  IF u.status # "running" THEN u
        ELSE IF u.store.state # "RESULT" THEN Raised(u, "lost result")
        ELSE Concludes(u, "REPLAY_REJECTED_RESULT_EXISTS")

\* The store was torn: opening it must fail, and for that reason.
store_torn(t, disposition) ==
    IF StateStore(t).status = "seal mismatch"
    THEN Concludes(t, disposition)
    ELSE Raised(t, "torn coordinator accepted")

-----------------------------------------------------------------------------
(* The broker's Ledger, used by one process (Broker.tla models several).   *)

Ledger(t) ==
    CASE t.ledger = NoFile -> [t EXCEPT !.ledger.state = "ABSENT"]
      [] ~t.ledger.intact  -> Raised(t, "seal mismatch")
      [] OTHER             -> t

LedgerMoves(t, from, to) ==
    IF t.ledger.state = from THEN [t EXCEPT !.ledger.state = to]
                             ELSE Raised(t, "ProtocolError")

ledger_prepare(t) == LedgerMoves(t, "ABSENT", "PREPARED")

ledger_consume(t) == LedgerMoves(t, "PREPARED", "CONSUMED")
ledger_record_result(t) == LedgerMoves(t, "CONSUMED", "RESULT")
ledger_terminal(t) == LedgerMoves(t, "RESULT", "TERMINAL")

\* close, open again, and compare the recovery action with the expected one.
ledger_recovers(t, action, disposition) ==
    LET u == Ledger(t)
    IN  IF u.status # "running" THEN u
        ELSE IF recovery_action(u.ledger.state) # action
             THEN Raised(u, "recovery drift")
        ELSE Concludes(u, disposition)

\* TORN is appended to the closed file: opening it must fail.
ledger_torn(t) ==
    LET u == [t EXCEPT !.ledger.intact = FALSE]
    IN  IF Ledger(u).status = "seal mismatch"
        THEN Concludes(u, "BLOCKED_TORN_LEDGER")
        ELSE Raised(u, "torn OASI ledger accepted")

\* The replayed attempt: ProtocolError is the expected answer.
ledger_replay(t) ==
    IF ledger_consume(t).status = "ProtocolError"
    THEN Concludes(t, "REPLAY_REJECTED_TERMINAL")
    ELSE [t EXCEPT !.outcome.replay_accepted = TRUE]

-----------------------------------------------------------------------------
(* A trial's script is a sequence of these operations.                     *)

\* verify_frame; `rejected` is the disposition of an `except AuthReject` that
\* ends the trial, or "raise" where nothing catches it.
Verify(frame, generation, rejected) == <<"verify", frame, generation, rejected>>
Accepted(field) == <<"accepted", field>>
Conclude(disposition) == <<"conclude", disposition>>
Recover(action, disposition) == <<"ledger_recovers", action, disposition>>
Op(name) == <<name>>

verified(t, frame, generation, rejected) ==
    IF verify_frame(frame, generation) = "accepted" THEN t
    ELSE IF rejected = "raise" THEN Raised(t, "AuthReject")
    ELSE Raised(Concludes(t, rejected), "returned")

Perform(t, op) ==
    LET name == op[1]
    IN  CASE name = "verify"        -> verified(t, op[2], op[3], op[4])
          [] name = "accepted"      -> [t EXCEPT !.outcome[op[2]] = TRUE]
          [] name = "conclude"      -> Concludes(t, op[2])
          [] name = "apply"         -> apply(t)
          [] name = "apply_idempotent" -> apply_idempotent(t)
          [] name = "StateStore"    -> StateStore(t)
          [] name = "store_prepare" -> store_prepare(t)
          [] name = "store_result"  -> store_result(t)
          [] name = "store_corrupt" -> store_corrupt(t)
          [] name = "store_replay"  -> store_replay(t)
          [] name = "store_torn"    -> store_torn(t, op[2])
          [] name = "Ledger"        -> Ledger(t)
          [] name = "ledger_prepare" -> ledger_prepare(t)
          [] name = "ledger_consume" -> ledger_consume(t)
          [] name = "ledger_record_result" -> ledger_record_result(t)
          [] name = "ledger_terminal" -> ledger_terminal(t)
          [] name = "ledger_recovers" -> ledger_recovers(t, op[2], op[3])
          [] name = "ledger_torn"   -> ledger_torn(t)
          [] name = "ledger_replay" -> ledger_replay(t)

\* The frame checks that open run_coordinated and run_oasi.
Authenticate(case) ==
    CASE case = "cross_generation" ->
             <<Verify(make_frame, GENERATION + 1, "REJECTED_BINDING"),
               Accepted("cross_generation_accepted")>>
      [] case = "altered_signature" ->
             <<Verify(mutate_signature(make_frame), GENERATION,
                      "REJECTED_SIGNATURE"),
               Accepted("altered_signature_accepted")>>
      [] OTHER -> <<Verify(make_frame, GENERATION, "raise")>>

Ops(names) == [i \in 1..Len(names) |-> Op(names[i])]

\* An operation of the script; nothing follows a return or an exception.
Continue(t, op) == IF t.status = "running" THEN Perform(t, op) ELSE t

\* What the trial leaves when its script has run.
Result(script) == FoldLeft(Continue, InitTrial, script)

\* sum(bool(test) for row in rows), over a sequence of records.
Count(rows, Test(_)) == Cardinality({i \in DOMAIN rows : Test(rows[i])})
=============================================================================
