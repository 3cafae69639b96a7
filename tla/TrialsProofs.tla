---------------------------- MODULE TrialsProofs -----------------------------
(***************************************************************************)
(* What is proved about the trials of S5 and S6: no trial fails one of its *)
(* own checks, a record says what happened, each baseline keeps its        *)
(* guarantee, and the OASI trials are one-shot attempts.  Each script is   *)
(* taken apart as the code is: a piece of it leads from one state of the   *)
(* trial to another, and pieces that follow each other compose.            *)
(***************************************************************************)
EXTENDS Trials, SequenceTheorems, TLAPS

-----------------------------------------------------------------------------
(* The states of a trial.                                                  *)

STATUSES == {"running", "returned", "recorded"}
STATES == {"NONE", "ABSENT", "READY", "PREPARED", "CONSUMED", "RESULT",
           "TERMINAL"}
DISPOSITIONS ==
    {"COMPLETE", "REJECTED_BINDING", "REJECTED_SIGNATURE",
     "RECOVERED_BY_REDISPATCH", "AMBIGUOUS_RECOVERED_BY_REDISPATCH",
     "RECOVERED_FROM_READY", "RECOVERED_FROM_READY_NO_CONSUMED_PHASE",
     "AMBIGUOUS_RECOVERED_FROM_READY", "BLOCKED_TORN_COORDINATOR",
     "BLOCKED_TORN_LEDGER", "REPLAY_REJECTED_RESULT_EXISTS",
     "REPLAY_REJECTED_TERMINAL", "ABORT_WITHOUT_EFFECT",
     "BLOCK_NO_REDISPATCH", "BLOCK_NO_REDISPATCH_DELIVERY_LOST"}

Database == [state : STATES, intact : BOOLEAN]
Outcome == [disposition : DISPOSITIONS, replay_accepted : BOOLEAN,
            cross_generation_accepted : BOOLEAN,
            altered_signature_accepted : BOOLEAN]
Trial == [status : STATUSES, effects : Nat, dedup : BOOLEAN, store : Database,
          ledger : Database, outcome : Outcome]

Running(t) == t \in Trial /\ t.status = "running"

\* Nothing that should have been rejected was accepted.
Clean(t) ==
    /\ ~t.outcome.replay_accepted
    /\ ~t.outcome.cross_generation_accepted
    /\ ~t.outcome.altered_signature_accepted

\* What a trial that has come to its end must satisfy.
Truthful(t) ==
    LET says == t.outcome.disposition
        n == t.effects
    IN  /\ says \in {"REJECTED_BINDING", "REJECTED_SIGNATURE",
                     "ABORT_WITHOUT_EFFECT",
                     "BLOCK_NO_REDISPATCH_DELIVERY_LOST"} => n = 0
        /\ says \in {"REPLAY_REJECTED_RESULT_EXISTS",
                     "REPLAY_REJECTED_TERMINAL"} => n = 1
        /\ says \in {"RECOVERED_FROM_READY", "AMBIGUOUS_RECOVERED_FROM_READY",
                     "RECOVERED_FROM_READY_NO_CONSUMED_PHASE"} =>
              n >= 1 /\ t.store.state = "RESULT"
        /\ says = "BLOCK_NO_REDISPATCH" => t.ledger.state = "CONSUMED"
        /\ says = "BLOCKED_TORN_LEDGER" =>
              ~(t.ledger.intact /\ t.store.intact) /\ n = 1

Delivers(m, c, t) ==
    c \notin {"cross_generation", "altered_signature"} =>
        /\ m \in {"B2_AT_LEAST_ONCE", "B3_IDEMPOTENT_UNAVAILABLE"} =>
              t.effects >= 1
        /\ m = "B3_IDEMPOTENT" => t.effects = 1

EndsWell(m, c, t) ==
    /\ m = "OASI" => t.effects <= 1 /\ Clean(t)
    /\ Truthful(t)
    /\ Delivers(m, c, t)

-----------------------------------------------------------------------------
(* Scripts.                                                                *)

IsScript(s) == \E S : s \in Seq(S)

\* A step of the one-shot attempt, or none.
ShotStep(t, u) ==
    LET a == Attempt(t.ledger.state)
        b == Attempt(u.ledger.state)
    IN  \/ a = b /\ t.effects = u.effects
        \/ a = "open" /\ b = "consumed" /\ t.effects = u.effects
        \/ a = "consumed" /\ b = a /\ t.effects = 0 /\ u.effects = 1
        \/ /\ a = "consumed" /\ b = "recorded"
           /\ t.effects = 1 /\ u.effects = 1

\* One operation of a trial of mechanism m takes it from t to u.
Leads(m, t, op, u) ==
    /\ Running(t) /\ u = Perform(t, op) /\ u \in Trial
    /\ m = "OASI" => ShotStep(t, u)

\* The trial passes through the states of `notes`, from the first on.
Path(m, s, notes) ==
    /\ notes \in Seq(Trial) /\ Len(notes) \in 1..(Len(s) + 1)
    /\ \A i \in 1..(Len(notes) - 1) : Leads(m, notes[i], s[i], notes[i + 1])

\* The whole script leads from t to u.
Reaches(m, t, s, u) ==
    /\ IsScript(s)
    /\ \E notes \in Seq(Trial) :
          /\ Path(m, s, notes) /\ Len(notes) = Len(s) + 1
          /\ notes[1] = t /\ notes[Len(notes)] = u

\* The script, or the part of it before a return, ends well.
Succeeds(m, c, t, s) ==
    /\ IsScript(s)
    /\ \E notes \in Seq(Trial) :
          /\ Path(m, s, notes) /\ notes[1] = t
          /\ LET u == notes[Len(notes)]
             IN  /\ EndsWell(m, c, u)
                 /\ \/ u.status = "running" /\ Len(notes) = Len(s) + 1
                    \/ u.status = "returned"

\* A trial that has not ended performs the next operation, and goes on well.
LEMMA Advance ==
    ASSUME NEW m, NEW c, NEW t, NEW s, Succeeds(m, c, t, s),
           t.status = "running", s # <<>>
    PROVE  /\ Leads(m, t, Head(s), Perform(t, Head(s)))
           /\ Succeeds(m, c, Perform(t, Head(s)), Tail(s))
<1>1. PICK S : s \in Seq(S)
  BY DEF Succeeds, IsScript
<1>2. PICK notes \in Seq(Trial) :
         /\ Path(m, s, notes) /\ notes[1] = t
         /\ EndsWell(m, c, notes[Len(notes)])
         /\ \/ /\ notes[Len(notes)].status = "running"
               /\ Len(notes) = Len(s) + 1
            \/ notes[Len(notes)].status = "returned"
  BY DEF Succeeds
<1>3. Len(notes) \in Nat /\ Len(notes) >= 2 /\ Len(s) \in Nat /\ Len(s) >= 1
  <2>1. Len(s) \in Nat /\ Len(s) >= 1
    BY <1>1
  <2>2. Len(notes) \in Nat /\ Len(notes) >= 1
    BY <1>2, <2>1 DEF Path
  <2>3. Len(notes) # 1
    BY <1>2, <2>1
  <2>4. \A k \in Nat : k >= 1 /\ k # 1 => k >= 2
    OBVIOUS
  <2> QED
    BY <2>1, <2>2, <2>3, <2>4, Zenon
<1>4. Leads(m, t, s[1], notes[2]) /\ s[1] = Head(s)
  BY <1>1, <1>2, <1>3 DEF Path
<1> DEFINE rest == Tail(notes)
<1>5. /\ rest \in Seq(Trial) /\ Len(rest) = Len(notes) - 1
      /\ \A i \in 1..Len(rest) : rest[i] = notes[i + 1]
  BY <1>2, <1>3
<1>6. /\ Tail(s) \in Seq(S) /\ Len(Tail(s)) = Len(s) - 1
      /\ \A i \in 1..(Len(s) - 1) : Tail(s)[i] = s[i + 1]
  BY <1>1, <1>3
<1> HIDE DEF rest
<1>7. /\ Len(rest) \in 1..(Len(Tail(s)) + 1)
      /\ rest[1] = notes[2] /\ rest[Len(rest)] = notes[Len(notes)]
  BY <1>2, <1>3, <1>5, <1>6 DEF Path
<1>8. ASSUME NEW i \in 1..(Len(rest) - 1)
      PROVE  Leads(m, rest[i], Tail(s)[i], rest[i + 1])
  <2>1. i + 1 \in 1..(Len(notes) - 1) /\ i \in 1..(Len(s) - 1)
    BY <1>2, <1>3, <1>5 DEF Path
  <2>2. Leads(m, notes[i + 1], s[i + 1], notes[(i + 1) + 1])
    BY <1>2, <2>1 DEF Path
  <2>3. rest[i] = notes[i + 1] /\ rest[i + 1] = notes[(i + 1) + 1]
    BY <1>3, <1>5, <2>1
  <2> QED
    BY <1>6, <2>1, <2>2, <2>3
<1>9. Path(m, Tail(s), rest)
  BY <1>5, <1>7, <1>8 DEF Path
<1>10. \/ /\ rest[Len(rest)].status = "running"
          /\ Len(rest) = Len(Tail(s)) + 1
       \/ rest[Len(rest)].status = "returned"
  BY <1>2, <1>3, <1>5, <1>6, <1>7
<1>11. Succeeds(m, c, rest[1], Tail(s))
  BY <1>2, <1>5, <1>6, <1>7, <1>9, <1>10 DEF Succeeds, IsScript
<1>12. notes[2] = Perform(t, Head(s))
  BY <1>4 DEF Leads
<1> QED
  BY <1>4, <1>7, <1>11, <1>12

\* A script of one operation.
LEMMA One ==
    ASSUME NEW m, NEW t, NEW op, NEW u, Leads(m, t, op, u)
    PROVE  Reaches(m, t, <<op>>, u)
<1> DEFINE notes == <<t, u>>
<1>1. notes \in Seq(Trial) /\ Len(notes) = 2 /\ notes[1] = t /\ notes[2] = u
  BY DEF Leads, Running
<1>2. <<op>> \in Seq({op}) /\ Len(<<op>>) = 1 /\ <<op>>[1] = op
  OBVIOUS
<1> HIDE DEF notes
<1>3. \A i \in 1..(Len(notes) - 1) : i = 1
  BY <1>1
<1>4. Path(m, <<op>>, notes)
  BY <1>1, <1>2, <1>3 DEF Path
<1> QED
  <2>1. IsScript(<<op>>)
    BY <1>2 DEF IsScript
  <2>2. Len(notes) = Len(<<op>>) + 1 /\ notes[Len(notes)] = u
    BY <1>1, <1>2
  <2> QED
    BY <1>1, <1>4, <2>1, <2>2, Zenon DEF Reaches

\* No operation.
LEMMA None ==
    ASSUME NEW m, NEW t \in Trial
    PROVE  Reaches(m, t, <<>>, t)
<1> DEFINE notes == <<t>>
<1>1. notes \in Seq(Trial) /\ Len(notes) = 1 /\ notes[1] = t
  OBVIOUS
<1> HIDE DEF notes
<1>2. <<>> \in Seq({}) /\ Len(<<>>) = 0
  OBVIOUS
<1>3. Path(m, <<>>, notes)
  BY <1>1, <1>2 DEF Path
<1> QED
  BY <1>1, <1>2, <1>3 DEF Reaches, IsScript

\* Pieces of a script, one after the other.
LEMMA Then ==
    ASSUME NEW m, NEW t, NEW a, NEW u, NEW b, NEW w,
           Reaches(m, t, a, u), Reaches(m, u, b, w)
    PROVE  Reaches(m, t, a \o b, w)
<1>1. PICK A : a \in Seq(A)
  BY DEF Reaches, IsScript
<1>2. PICK B : b \in Seq(B)
  BY DEF Reaches, IsScript
<1>3. PICK x \in Seq(Trial) :
         Path(m, a, x) /\ Len(x) = Len(a) + 1 /\ x[1] = t /\ x[Len(x)] = u
  BY DEF Reaches
<1>4. PICK y \in Seq(Trial) :
         Path(m, b, y) /\ Len(y) = Len(b) + 1 /\ y[1] = u /\ y[Len(y)] = w
  BY DEF Reaches
<1>5. Len(a) \in Nat /\ Len(b) \in Nat
  BY <1>1, <1>2
<1> DEFINE n == Len(a) + Len(b) + 1
           notes == [i \in 1..n |-> IF i <= Len(a) THEN x[i] ELSE y[i - Len(a)]]
<1>6. a \in Seq(A \cup B) /\ b \in Seq(A \cup B)
  BY <1>1, <1>2
<1>7. /\ a \o b \in Seq(A \cup B) /\ Len(a \o b) = Len(a) + Len(b)
      /\ \A i \in 1..(Len(a) + Len(b)) :
            (a \o b)[i] = IF i <= Len(a) THEN a[i] ELSE b[i - Len(a)]
  BY <1>6, ConcatProperties
<1>8. notes \in Seq(Trial) /\ Len(notes) = n
  <2>1. \A i \in 1..n : (IF i <= Len(a) THEN x[i] ELSE y[i - Len(a)]) \in Trial
    BY <1>3, <1>4, <1>5
  <2> QED
    BY <1>5, <2>1
<1>9. \A i \in 1..n :
         notes[i] = IF i <= Len(a) THEN x[i] ELSE y[i - Len(a)]
  OBVIOUS
<1> HIDE DEF notes
<1>10. notes[1] = t /\ notes[n] = w
  BY <1>3, <1>4, <1>5, <1>9
<1>11. ASSUME NEW i \in 1..(n - 1)
       PROVE  Leads(m, notes[i], (a \o b)[i], notes[i + 1])
  <2>1. CASE i <= Len(a)
    <3>1. Leads(m, x[i], a[i], x[i + 1])
      BY <1>3, <1>5, <2>1 DEF Path
    <3>2. notes[i] = x[i] /\ (a \o b)[i] = a[i]
      <4>1. i \in 1..n /\ i \in 1..(Len(a) + Len(b))
        BY <1>5
      <4> QED
        BY <1>7, <1>9, <2>1, <4>1, Zenon
    <3>3. notes[i + 1] = x[i + 1]
      <4>1. i + 1 \in 1..n
        BY <1>5
      <4>2. CASE i + 1 <= Len(a)
        BY <1>9, <4>1, <4>2
      <4>3. CASE i = Len(a)
        <5>1. notes[i + 1] = y[1]
          BY <1>5, <1>9, <4>1, <4>3
        <5> QED
          BY <1>3, <1>4, <4>3, <5>1
      <4> QED
        BY <1>5, <2>1, <4>2, <4>3
    <3> QED
      BY <3>1, <3>2, <3>3
  <2>2. CASE i > Len(a)
    <3>1. i - Len(a) \in 1..(Len(y) - 1)
      BY <1>4, <1>5, <2>2
    <3>2. Leads(m, y[i - Len(a)], b[i - Len(a)], y[(i - Len(a)) + 1])
      BY <1>4, <3>1 DEF Path
    <3>3. notes[i] = y[i - Len(a)] /\ (a \o b)[i] = b[i - Len(a)]
      <4>1. i \in 1..n /\ i \in 1..(Len(a) + Len(b)) /\ ~(i <= Len(a))
        BY <1>5, <2>2
      <4> QED
        BY <1>7, <1>9, <4>1, Zenon
    <3>4. notes[i + 1] = y[(i - Len(a)) + 1]
      BY <1>5, <1>9, <2>2
    <3> QED
      BY <3>2, <3>3, <3>4
  <2> QED
    BY <1>5, <2>1, <2>2
<1>12. Len(notes) \in Nat \ {0} /\ Len(notes) = Len(a \o b) + 1
  BY <1>5, <1>7, <1>8
<1>13. Path(m, a \o b, notes)
  BY <1>5, <1>7, <1>8, <1>11, <1>12 DEF Path
<1> QED
  BY <1>7, <1>8, <1>10, <1>12, <1>13 DEF Reaches, IsScript

\* A script that runs to its end.
LEMMA ToTheEnd ==
    ASSUME NEW m, NEW c, NEW t, NEW s, NEW u, Reaches(m, t, s, u),
           Running(u), EndsWell(m, c, u)
    PROVE  Succeeds(m, c, t, s)
  BY DEF Reaches, Succeeds, Running

\* A script that returns from its first operation.
LEMMA AtOnce ==
    ASSUME NEW m, NEW c, NEW t, NEW S, NEW s \in Seq(S), Len(s) >= 1,
           NEW u, Leads(m, t, s[1], u), u.status = "returned",
           EndsWell(m, c, u)
    PROVE  Succeeds(m, c, t, s)
<1> DEFINE notes == <<t, u>>
<1>1. notes \in Seq(Trial) /\ Len(notes) = 2 /\ notes[1] = t /\ notes[2] = u
  BY DEF Leads, Running
<1> HIDE DEF notes
<1>2. Len(s) \in Nat
  OBVIOUS
<1>3. Len(notes) \in 1..(Len(s) + 1)
  BY <1>1, <1>2
<1>4. \A i \in 1..(Len(notes) - 1) : Leads(m, notes[i], s[i], notes[i + 1])
  BY <1>1
<1>5. Path(m, s, notes)
  BY <1>1, <1>3, <1>4 DEF Path
<1>6. IsScript(s)
  BY DEF IsScript
<1> QED
  BY <1>1, <1>5, <1>6 DEF Succeeds

-----------------------------------------------------------------------------
(* The operations.                                                         *)

\* Perform does what the operation is named for.
LEMMA Dispatch ==
    ASSUME NEW t, NEW x, NEW y
    PROVE  /\ Perform(t, Op("apply")) = apply(t)
           /\ Perform(t, Op("apply_idempotent")) = apply_idempotent(t)
           /\ Perform(t, Accepted(x)) = [t EXCEPT !.outcome[x] = TRUE]
           /\ Perform(t, Conclude(x)) = Concludes(t, x)
           /\ Perform(t, Op("StateStore")) = StateStore(t)
           /\ Perform(t, Op("store_prepare")) = store_prepare(t)
           /\ Perform(t, Op("store_result")) = store_result(t)
           /\ Perform(t, Op("store_corrupt")) = store_corrupt(t)
           /\ Perform(t, Op("store_replay")) = store_replay(t)
           /\ Perform(t, <<"store_torn", x>>) = store_torn(t, x)
           /\ Perform(t, Op("Ledger")) = Ledger(t)
           /\ Perform(t, Op("ledger_prepare")) = ledger_prepare(t)
           /\ Perform(t, Op("ledger_consume")) = ledger_consume(t)
           /\ Perform(t, Op("ledger_record_result")) = ledger_record_result(t)
           /\ Perform(t, Op("ledger_terminal")) = ledger_terminal(t)
           /\ Perform(t, Recover(x, y)) = ledger_recovers(t, x, y)
           /\ Perform(t, Op("ledger_torn")) = ledger_torn(t)
           /\ Perform(t, Op("ledger_replay")) = ledger_replay(t)
  BY DEF Perform, Op, Accepted, Conclude, Recover

(* The genuine frame passes; one of another generation and one that was    *)
(* altered end the trial with the disposition of their handler.            *)
LEMMA Frames ==
    ASSUME NEW t
    PROVE  /\ Perform(t, Verify(make_frame, GENERATION, "raise")) = t
           /\ Perform(t, Verify(make_frame, GENERATION + 1, "REJECTED_BINDING"))
                 = Raised(Concludes(t, "REJECTED_BINDING"), "returned")
           /\ Perform(t, Verify(mutate_signature(make_frame), GENERATION,
                                "REJECTED_SIGNATURE"))
                 = Raised(Concludes(t, "REJECTED_SIGNATURE"), "returned")
<1>1. /\ verify_frame(make_frame, GENERATION) = "accepted"
      /\ verify_frame(make_frame, GENERATION + 1) = "generation"
      /\ verify_frame(mutate_signature(make_frame), GENERATION) = "signature"
  BY DEF verify_frame, make_frame, mutate_signature, GENERATION, BINDING
<1>2. \A f, g, r : Perform(t, Verify(f, g, r)) = verified(t, f, g, r)
  BY DEF Perform, Verify
<1>3. verified(t, make_frame, GENERATION, "raise") = t
  BY <1>1 DEF verified
<1>4. verified(t, make_frame, GENERATION + 1, "REJECTED_BINDING")
         = Raised(Concludes(t, "REJECTED_BINDING"), "returned")
  BY <1>1 DEF verified
<1>5. verified(t, mutate_signature(make_frame), GENERATION,
               "REJECTED_SIGNATURE")
         = Raised(Concludes(t, "REJECTED_SIGNATURE"), "returned")
  BY <1>1 DEF verified
<1> QED
  BY <1>2, <1>3, <1>4, <1>5

\* A trial begins with nothing.
LEMMA Beginning ==
    /\ Running(InitTrial) /\ InitTrial.effects = 0 /\ ~InitTrial.dedup
    /\ InitTrial.store = NoFile /\ InitTrial.ledger = NoFile
    /\ InitTrial.outcome.disposition = "COMPLETE" /\ Clean(InitTrial)
<1>1. NoFile \in Database
  BY DEF NoFile, Database, STATES
<1>2. base_outcome \in Outcome
  BY DEF base_outcome, Outcome, DISPOSITIONS
<1>3. InitTrial \in Trial
  BY <1>1, <1>2 DEF InitTrial, Trial, STATUSES
<1>4. /\ InitTrial.effects = 0 /\ ~InitTrial.dedup
      /\ InitTrial.store = NoFile /\ InitTrial.ledger = NoFile
      /\ InitTrial.outcome = base_outcome /\ InitTrial.status = "running"
  BY DEF InitTrial
<1>5. /\ base_outcome.disposition = "COMPLETE"
      /\ ~base_outcome.replay_accepted
      /\ ~base_outcome.cross_generation_accepted
      /\ ~base_outcome.altered_signature_accepted
  BY DEF base_outcome
<1> QED
  BY <1>3, <1>4, <1>5 DEF Running, Clean

\* A conclusion changes nothing but what the record says.
LEMMA Concluded ==
    ASSUME NEW t \in Trial, NEW x \in DISPOSITIONS
    PROVE  LET u == Concludes(t, x)
           IN  /\ u \in Trial /\ u.status = t.status /\ u.effects = t.effects
               /\ u.dedup = t.dedup /\ u.store = t.store
               /\ u.ledger = t.ledger /\ u.outcome.disposition = x
               /\ Clean(t) => Clean(u)
  BY DEF Concludes, Trial, Outcome, Clean

\* What is raised ends the trial and changes nothing else.
LEMMA RaisedOnly ==
    ASSUME NEW t \in Trial, NEW x \in STATUSES
    PROVE  LET u == Raised(t, x)
           IN  /\ u \in Trial /\ u.status = x /\ u.effects = t.effects
               /\ u.dedup = t.dedup /\ u.store = t.store
               /\ u.ledger = t.ledger /\ u.outcome = t.outcome
  BY DEF Raised, Trial

\* An effect is counted, and nothing else changes.
LEMMA Applied ==
    ASSUME NEW t \in Trial
    PROVE  LET u == apply(t)
           IN  /\ u \in Trial /\ u.status = t.status
               /\ u.effects = t.effects + 1
               /\ u.dedup = t.dedup /\ u.store = t.store
               /\ u.ledger = t.ledger /\ u.outcome = t.outcome
  BY DEF apply, Trial

\* An idempotent effect happens once.
LEMMA AppliedOnce ==
    ASSUME NEW t \in Trial
    PROVE  LET u == apply_idempotent(t)
           IN  /\ u \in Trial /\ u.status = t.status
               /\ t.dedup => u.effects = t.effects
               /\ ~t.dedup => u.effects = t.effects + 1
               /\ u.dedup /\ u.store = t.store
               /\ u.ledger = t.ledger /\ u.outcome = t.outcome
<1>1. CASE t.dedup
  BY <1>1 DEF apply_idempotent
<1>2. CASE ~t.dedup
  <2>1. apply_idempotent(t) = [apply(t) EXCEPT !.dedup = TRUE]
    BY <1>2 DEF apply_idempotent
  <2> DEFINE u == apply(t)
  <2>2. /\ u \in Trial /\ u.status = t.status /\ u.effects = t.effects + 1
        /\ u.store = t.store /\ u.ledger = t.ledger
        /\ u.outcome = t.outcome
    BY Applied
  <2> HIDE DEF u
  <2> DEFINE w == [u EXCEPT !.dedup = TRUE]
  <2>3. /\ w \in Trial /\ w.status = u.status /\ w.effects = u.effects
        /\ w.dedup /\ w.store = u.store /\ w.ledger = u.ledger
        /\ w.outcome = u.outcome
    BY <2>2 DEF Trial
  <2> HIDE DEF w
  <2>4. apply_idempotent(t) = w
    BY <2>1 DEF u, w
  <2> QED
    BY <1>2, <2>2, <2>3, <2>4
<1> QED
  BY <1>1, <1>2

-----------------------------------------------------------------------------
(* The trials of a coordinator.                                            *)

APPLIES == {"apply", "apply_idempotent"}

\* The coordinator's job is in the given state, after n effects.
Coord(t, A, n, state) ==
    /\ Running(t) /\ t.effects = n
    /\ t.dedup <=> A = "apply_idempotent" /\ n > 0
    /\ t.store.state = state /\ t.store.intact
    /\ t.outcome.disposition = "COMPLETE"

\* How many effects there are after one more request for it.
More(A, n) == IF A = "apply_idempotent" /\ n > 0 THEN n ELSE n + 1

\* A store that is opened for the first time knows no job.
LEMMA CoordOpened ==
    ASSUME NEW m, m # "OASI", NEW A \in APPLIES
    PROVE  \E u : /\ Leads(m, InitTrial, Op("StateStore"), u)
                  /\ Coord(u, A, 0, "ABSENT")
<1> DEFINE t == InitTrial
           u == StateStore(t)
<1>1. /\ t \in Trial /\ t.status = "running" /\ t.effects = 0 /\ ~t.dedup
      /\ t.store = NoFile /\ t.outcome.disposition = "COMPLETE"
  BY Beginning DEF Running
<1> HIDE DEF t
<1>2. u = [t EXCEPT !.store.state = "ABSENT"] /\ t.store.intact
  BY <1>1 DEF StateStore, NoFile
<1>3. /\ u \in Trial /\ u.status = "running" /\ u.effects = 0 /\ ~u.dedup
      /\ u.store.state = "ABSENT" /\ u.store.intact
      /\ u.outcome = t.outcome
  BY <1>1, <1>2 DEF Trial, Database, STATES
<1>4. u = Perform(t, Op("StateStore"))
  BY Dispatch
<1> HIDE DEF u
<1>5. Coord(u, A, 0, "ABSENT") /\ Leads(m, t, Op("StateStore"), u)
  BY <1>1, <1>3, <1>4 DEF Coord, Leads, Running
<1> QED
  BY <1>5 DEF t

\* prepare, and the result, move the job on.
LEMMA CoordMoves ==
    ASSUME NEW m, m # "OASI", NEW A \in APPLIES, NEW n \in Nat, NEW t
    PROVE  /\ Coord(t, A, n, "ABSENT") =>
                 \E u : /\ Leads(m, t, Op("store_prepare"), u)
                        /\ Coord(u, A, n, "READY")
           /\ Coord(t, A, n, "READY") =>
                 \E u : /\ Leads(m, t, Op("store_result"), u)
                        /\ Coord(u, A, n, "RESULT")
<1>1. ASSUME NEW from, NEW to \in STATES, NEW error, Coord(t, A, n, from)
      PROVE  /\ StoreMoves(t, from, to, error) \in Trial
             /\ Coord(StoreMoves(t, from, to, error), A, n, to)
  <2> DEFINE u == [t EXCEPT !.store.state = to]
  <2>1. StoreMoves(t, from, to, error) = u
    BY <1>1 DEF StoreMoves, Coord
  <2>2. /\ u \in Trial /\ u.status = t.status /\ u.effects = t.effects
        /\ u.dedup = t.dedup /\ u.store.state = to
        /\ u.store.intact = t.store.intact /\ u.outcome = t.outcome
    BY <1>1 DEF Coord, Running, Trial, Database
  <2> HIDE DEF u
  <2> QED
    BY <1>1, <2>1, <2>2 DEF Coord, Running
<1>2. CASE Coord(t, A, n, "ABSENT")
  <2> DEFINE u == store_prepare(t)
  <2>1. u \in Trial /\ Coord(u, A, n, "READY")
    BY <1>1, <1>2 DEF store_prepare, STATES
  <2>2. u = Perform(t, Op("store_prepare"))
    BY Dispatch
  <2> HIDE DEF u
  <2>3. Leads(m, t, Op("store_prepare"), u)
    BY <1>2, <2>1, <2>2 DEF Leads, Coord
  <2>4. Coord(t, A, n, "READY") => FALSE
    BY <1>2 DEF Coord
  <2> QED
    BY <2>1, <2>3, <2>4
<1>3. CASE Coord(t, A, n, "READY")
  <2> DEFINE u == store_result(t)
  <2>1. u \in Trial /\ Coord(u, A, n, "RESULT")
    BY <1>1, <1>3 DEF store_result, STATES
  <2>2. u = Perform(t, Op("store_result"))
    BY Dispatch
  <2> HIDE DEF u
  <2>3. Leads(m, t, Op("store_result"), u)
    BY <1>3, <2>1, <2>2 DEF Leads, Coord
  <2>4. Coord(t, A, n, "ABSENT") => FALSE
    BY <1>3 DEF Coord
  <2> QED
    BY <2>1, <2>3, <2>4
<1> QED
  BY <1>2, <1>3

\* A whole store that is opened again is as it was.
LEMMA CoordReopened ==
    ASSUME NEW m, m # "OASI", NEW A \in APPLIES, NEW n \in Nat, NEW t,
           NEW state \in {"READY", "RESULT"}, Coord(t, A, n, state)
    PROVE  StateStore(t) = t /\ Leads(m, t, Op("StateStore"), t)
<1>1. t.store # NoFile
  <2>1. NoFile.state = "NONE" /\ t.store.state # "NONE"
    BY DEF NoFile, Coord
  <2> QED
    BY <2>1
<1>2. StateStore(t) = t
  BY <1>1 DEF StateStore, Coord
<1>3. Perform(t, Op("StateStore")) = t
  BY <1>2, Dispatch
<1> QED
  BY <1>2, <1>3 DEF Leads, Coord, Running

\* The effect is requested.
LEMMA CoordApplies ==
    ASSUME NEW m, m # "OASI", NEW A \in APPLIES, NEW n \in Nat, NEW t,
           Coord(t, A, n, "READY")
    PROVE  \E u : Leads(m, t, Op(A), u) /\ Coord(u, A, More(A, n), "READY")
<1>0. t \in Trial /\ t.status = "running"
  BY DEF Coord, Running
<1>1. CASE A = "apply"
  <2> DEFINE u == apply(t)
  <2>1. /\ u \in Trial /\ u.status = t.status /\ u.effects = t.effects + 1
        /\ u.dedup = t.dedup /\ u.store = t.store /\ u.outcome = t.outcome
    BY <1>0, Applied
  <2>2. u = Perform(t, Op(A))
    BY <1>1, Dispatch
  <2> HIDE DEF u
  <2>3. Coord(u, A, More(A, n), "READY")
    BY <1>0, <1>1, <2>1 DEF Coord, More, Running
  <2> QED
    BY <1>0, <2>1, <2>2, <2>3 DEF Leads, Running
<1>2. CASE A = "apply_idempotent"
  <2> DEFINE u == apply_idempotent(t)
  <2>1. /\ u \in Trial /\ u.status = t.status
        /\ t.dedup => u.effects = t.effects
        /\ ~t.dedup => u.effects = t.effects + 1
        /\ u.dedup /\ u.store = t.store /\ u.outcome = t.outcome
    BY <1>0, AppliedOnce
  <2>2. u = Perform(t, Op(A))
    BY <1>2, Dispatch
  <2> HIDE DEF u
  <2>3. u.effects = More(A, n) /\ More(A, n) > 0
    BY <1>2, <2>1 DEF Coord, More
  <2>4. Coord(u, A, More(A, n), "READY")
    BY <1>0, <1>2, <2>1, <2>3 DEF Coord, Running
  <2> QED
    BY <1>0, <2>1, <2>2, <2>4 DEF Leads, Running
<1> QED
  BY <1>1, <1>2 DEF APPLIES

\* What a conclusion, the replay and the torn store leave.
LEMMA CoordConcludes ==
    ASSUME NEW m, m # "OASI", NEW A \in APPLIES, NEW n \in Nat, NEW t,
           NEW x \in DISPOSITIONS
    PROVE  /\ Coord(t, A, n, "RESULT") =>
                 \E u : /\ Leads(m, t, Conclude(x), u) /\ Running(u)
                        /\ u.effects = n /\ u.store.state = "RESULT"
                        /\ u.outcome.disposition = x
           /\ Coord(t, A, n, "RESULT") =>
                 \E u : /\ Leads(m, t, Op("store_replay"), u) /\ Running(u)
                        /\ u.effects = n
                        /\ u.outcome.disposition =
                              "REPLAY_REJECTED_RESULT_EXISTS"
<1> DEFINE v == Concludes(t, x)
           w == Concludes(t, "REPLAY_REJECTED_RESULT_EXISTS")
<1> SUFFICES ASSUME Coord(t, A, n, "RESULT")
             PROVE  /\ \E u : /\ Leads(m, t, Conclude(x), u) /\ Running(u)
                              /\ u.effects = n /\ u.store.state = "RESULT"
                              /\ u.outcome.disposition = x
                    /\ \E u : /\ Leads(m, t, Op("store_replay"), u)
                              /\ Running(u) /\ u.effects = n
                              /\ u.outcome.disposition =
                                    "REPLAY_REJECTED_RESULT_EXISTS"
  OBVIOUS
<1>1. t \in Trial /\ t.status = "running"
  BY DEF Coord, Running
<1>2. /\ v \in Trial /\ v.status = t.status /\ v.effects = t.effects
      /\ v.store = t.store /\ v.outcome.disposition = x
  BY <1>1, Concluded
<1>3. /\ w \in Trial /\ w.status = t.status /\ w.effects = t.effects
      /\ w.outcome.disposition = "REPLAY_REJECTED_RESULT_EXISTS"
  BY <1>1, Concluded DEF DISPOSITIONS
<1>4. StateStore(t) = t
  BY CoordReopened
<1>5. store_replay(t) = w
  BY <1>1, <1>4 DEF store_replay, Coord
<1>6. v = Perform(t, Conclude(x)) /\ w = Perform(t, Op("store_replay"))
  BY <1>5, Dispatch
<1> HIDE DEF v, w
<1>7. /\ Leads(m, t, Conclude(x), v) /\ Running(v)
      /\ v.effects = n /\ v.store.state = "RESULT"
      /\ v.outcome.disposition = x
  BY <1>1, <1>2, <1>6 DEF Leads, Running, Coord
<1>8. /\ Leads(m, t, Op("store_replay"), w) /\ Running(w) /\ w.effects = n
      /\ w.outcome.disposition = "REPLAY_REJECTED_RESULT_EXISTS"
  BY <1>1, <1>3, <1>6 DEF Leads, Running, Coord
<1> QED
  BY <1>7, <1>8

\* The store is torn in u and found to be in v, after one effect.
Tears(m, t, x, u, v) ==
    /\ Leads(m, t, Op("store_corrupt"), u)
    /\ Leads(m, u, <<"store_torn", x>>, v) /\ Running(v)
    /\ v.effects = 1 /\ ~v.store.intact /\ v.outcome.disposition = x

\* A torn store is found when it is opened, and nothing is dispatched again.
LEMMA CoordTorn ==
    ASSUME NEW m, m # "OASI", NEW A, NEW t, Coord(t, A, 1, "READY"),
           NEW x \in DISPOSITIONS
    PROVE  \E u, v : Tears(m, t, x, u, v)
<1> DEFINE u == store_corrupt(t)
           v == Concludes(u, x)
<1>1. t \in Trial /\ t.status = "running" /\ t.effects = 1
      /\ t.store.state = "READY"
  BY DEF Coord, Running
<1>2. /\ u \in Trial /\ u.status = "running" /\ u.effects = 1
      /\ u.store.state = "READY" /\ ~u.store.intact
  BY <1>1 DEF store_corrupt, Trial, Database
<1>3. u = Perform(t, Op("store_corrupt"))
  BY Dispatch
<1> HIDE DEF u
<1>4. StateStore(u) = Raised(u, "seal mismatch")
  <2>1. NoFile.state = "NONE" /\ u.store.state # "NONE"
    BY <1>2 DEF NoFile
  <2>2. u.store # NoFile
    BY <2>1
  <2> QED
    BY <1>2, <2>2 DEF StateStore
<1>5. Raised(u, "seal mismatch").status = "seal mismatch"
  BY <1>2 DEF Raised, Trial
<1>6. store_torn(u, x) = v
  <2>1. StateStore(u).status = "seal mismatch"
    BY <1>4, <1>5
  <2> QED
    BY <2>1 DEF store_torn
<1>7. v = Perform(u, <<"store_torn", x>>)
  BY <1>6, Dispatch
<1>8. /\ v \in Trial /\ v.status = u.status /\ v.effects = u.effects
      /\ v.store = u.store /\ v.outcome.disposition = x
  BY <1>2, Concluded
<1> HIDE DEF v
<1>9. Leads(m, t, Op("store_corrupt"), u) /\ Leads(m, u, <<"store_torn", x>>, v)
  BY <1>1, <1>2, <1>3, <1>7, <1>8 DEF Leads, Running
<1> QED
  BY <1>2, <1>8, <1>9 DEF Running, Tears

-----------------------------------------------------------------------------
(* The trials of OASI.                                                     *)

\* The attempt is in the given state, after n effects.
Broker(t, n, state) ==
    /\ Running(t) /\ t.effects = n /\ Clean(t)
    /\ t.ledger.state = state /\ t.ledger.intact
    /\ t.outcome.disposition = "COMPLETE"

\* A ledger that is opened for the first time knows no attempt.
LEMMA BrokerOpened ==
    ASSUME NEW m
    PROVE  \E u : Leads(m, InitTrial, Op("Ledger"), u) /\ Broker(u, 0, "ABSENT")
<1> DEFINE t == InitTrial
           u == Ledger(t)
<1>1. /\ t \in Trial /\ t.status = "running" /\ t.effects = 0 /\ Clean(t)
      /\ t.ledger = NoFile /\ t.outcome.disposition = "COMPLETE"
  BY Beginning DEF Running
<1> HIDE DEF t
<1>2. /\ u = [t EXCEPT !.ledger.state = "ABSENT"] /\ t.ledger.intact
      /\ t.ledger.state = "NONE"
  BY <1>1 DEF Ledger, NoFile
<1>3. /\ u \in Trial /\ u.status = "running" /\ u.effects = 0
      /\ u.ledger.state = "ABSENT" /\ u.ledger.intact
      /\ u.outcome = t.outcome
  BY <1>1, <1>2 DEF Trial, Database, STATES
<1>4. u = Perform(t, Op("Ledger"))
  BY Dispatch
<1> HIDE DEF u
<1>5. ShotStep(t, u)
  BY <1>1, <1>2, <1>3 DEF ShotStep, Attempt
<1>6. Broker(u, 0, "ABSENT") /\ Leads(m, t, Op("Ledger"), u)
  BY <1>1, <1>3, <1>4, <1>5 DEF Broker, Leads, Running, Clean
<1> QED
  BY <1>6 DEF t

\* The ledger moves an attempt that is where it should be.
LEMMA BrokerMove ==
    ASSUME NEW m, NEW n \in Nat, NEW from \in STATES, NEW to \in STATES,
           NEW t, Broker(t, n, from), NEW op,
           Perform(t, op) = LedgerMoves(t, from, to),
           \/ Attempt(from) = Attempt(to)
           \/ Attempt(from) = "open" /\ Attempt(to) = "consumed"
           \/ Attempt(from) = "consumed" /\ Attempt(to) = "recorded" /\ n = 1
    PROVE  \E u : Leads(m, t, op, u) /\ Broker(u, n, to)
<1> DEFINE u == [t EXCEPT !.ledger.state = to]
<1>1. Perform(t, op) = u
  BY DEF LedgerMoves, Broker
<1>2. /\ u \in Trial /\ u.status = t.status /\ u.effects = t.effects
      /\ u.ledger.state = to /\ u.ledger.intact = t.ledger.intact
      /\ u.outcome = t.outcome
  BY DEF Broker, Running, Trial, Database
<1> HIDE DEF u
<1>3. ShotStep(t, u)
  BY <1>2 DEF ShotStep, Broker
<1> QED
  BY <1>1, <1>2, <1>3 DEF Broker, Leads, Running, Clean

\* The transitions of an attempt.
LEMMA BrokerMoves ==
    ASSUME NEW m, NEW n \in Nat, NEW t
    PROVE  /\ Broker(t, n, "ABSENT") =>
                 \E u : /\ Leads(m, t, Op("ledger_prepare"), u)
                        /\ Broker(u, n, "PREPARED")
           /\ Broker(t, n, "PREPARED") =>
                 \E u : /\ Leads(m, t, Op("ledger_consume"), u)
                        /\ Broker(u, n, "CONSUMED")
           /\ Broker(t, n, "CONSUMED") /\ n = 1 =>
                 \E u : /\ Leads(m, t, Op("ledger_record_result"), u)
                        /\ Broker(u, n, "RESULT")
           /\ Broker(t, n, "RESULT") =>
                 \E u : /\ Leads(m, t, Op("ledger_terminal"), u)
                        /\ Broker(u, n, "TERMINAL")
<1>1. {"ABSENT", "PREPARED", "CONSUMED", "RESULT", "TERMINAL"} \subseteq STATES
  BY DEF STATES
<1>2. /\ Attempt("ABSENT") = "open" /\ Attempt("PREPARED") = "open"
      /\ Attempt("CONSUMED") = "consumed"
      /\ Attempt("RESULT") = "recorded" /\ Attempt("TERMINAL") = "recorded"
  BY DEF Attempt
<1>3. /\ Perform(t, Op("ledger_prepare")) = LedgerMoves(t, "ABSENT", "PREPARED")
      /\ Perform(t, Op("ledger_consume"))
            = LedgerMoves(t, "PREPARED", "CONSUMED")
      /\ Perform(t, Op("ledger_record_result"))
            = LedgerMoves(t, "CONSUMED", "RESULT")
      /\ Perform(t, Op("ledger_terminal"))
            = LedgerMoves(t, "RESULT", "TERMINAL")
  BY Dispatch
  DEF ledger_prepare, ledger_consume, ledger_record_result, ledger_terminal
<1>4. Broker(t, n, "ABSENT") =>
         \E u : /\ Leads(m, t, Op("ledger_prepare"), u)
                /\ Broker(u, n, "PREPARED")
  BY <1>1, <1>2, <1>3, BrokerMove
<1>5. Broker(t, n, "PREPARED") =>
         \E u : /\ Leads(m, t, Op("ledger_consume"), u)
                /\ Broker(u, n, "CONSUMED")
  BY <1>1, <1>2, <1>3, BrokerMove
<1>6. Broker(t, n, "CONSUMED") /\ n = 1 =>
         \E u : /\ Leads(m, t, Op("ledger_record_result"), u)
                /\ Broker(u, n, "RESULT")
  BY <1>1, <1>2, <1>3, BrokerMove
<1>7. Broker(t, n, "RESULT") =>
         \E u : /\ Leads(m, t, Op("ledger_terminal"), u)
                /\ Broker(u, n, "TERMINAL")
  BY <1>1, <1>2, <1>3, BrokerMove
<1> QED
  BY <1>4, <1>5, <1>6, <1>7

\* The one effect of a consumed attempt.
LEMMA BrokerApplies ==
    ASSUME NEW m, NEW t, Broker(t, 0, "CONSUMED")
    PROVE  \E u : Leads(m, t, Op("apply"), u) /\ Broker(u, 1, "CONSUMED")
<1> DEFINE u == apply(t)
<1>1. t \in Trial /\ t.status = "running" /\ t.effects = 0
  BY DEF Broker, Running
<1>2. /\ u \in Trial /\ u.status = t.status /\ u.effects = t.effects + 1
      /\ u.ledger = t.ledger /\ u.outcome = t.outcome
  BY <1>1, Applied
<1>3. u = Perform(t, Op("apply"))
  BY Dispatch
<1> HIDE DEF u
<1>4. u.effects = 1
  BY <1>1, <1>2
<1>5. ShotStep(t, u)
  BY <1>1, <1>2, <1>4 DEF ShotStep, Broker, Attempt
<1> QED
  BY <1>1, <1>2, <1>3, <1>4, <1>5 DEF Broker, Leads, Running, Clean

\* In t the recovery action is the expected one; the disposition is noted.
Recovers(m, t, n, state, action, x, u) ==
    /\ Leads(m, t, Recover(action, x), u) /\ Running(u)
    /\ u.effects = n /\ Clean(u) /\ u.ledger.state = state
    /\ u.outcome.disposition = x

\* A ledger that is opened again after a crash tells the action to take.
LEMMA BrokerRecovers ==
    ASSUME NEW m, NEW n \in Nat, NEW state \in {"PREPARED", "CONSUMED"},
           NEW t, Broker(t, n, state), NEW x \in DISPOSITIONS, NEW action,
           action = recovery_action(state)
    PROVE  \E u : Recovers(m, t, n, state, action, x, u)
<1> DEFINE u == Concludes(t, x)
<1>1. t \in Trial /\ t.status = "running"
  BY DEF Broker, Running
<1>2. /\ u \in Trial /\ u.status = t.status /\ u.effects = t.effects
      /\ u.ledger = t.ledger /\ u.outcome.disposition = x
      /\ Clean(t) => Clean(u)
  BY <1>1, Concluded
<1>3. Ledger(t) = t
  <2>1. NoFile.state = "NONE" /\ t.ledger.state # "NONE"
    BY DEF NoFile, Broker
  <2>2. t.ledger # NoFile
    BY <2>1
  <2> QED
    BY <2>2 DEF Ledger, Broker
<1>4. ledger_recovers(t, action, x) = u
  <2>1. t.ledger.state = state
    BY DEF Broker
  <2>2. recovery_action(t.ledger.state) = action
    BY <2>1
  <2> QED
    BY <1>1, <1>3, <2>2 DEF ledger_recovers
<1>5. u = Perform(t, Recover(action, x))
  <2>1. Perform(t, Recover(action, x)) = ledger_recovers(t, action, x)
    BY DEF Perform, Recover
  <2> QED
    BY <1>4, <2>1
<1> HIDE DEF u
<1>6. ShotStep(t, u)
  BY <1>2 DEF ShotStep
<1> QED
  BY <1>1, <1>2, <1>5, <1>6 DEF Broker, Leads, Running, Recovers

\* A torn ledger is found when it is opened.
LEMMA BrokerTorn ==
    ASSUME NEW m, NEW n \in Nat, NEW t, Broker(t, n, "CONSUMED")
    PROVE  \E u : /\ Leads(m, t, Op("ledger_torn"), u) /\ Running(u)
                  /\ u.effects = n /\ Clean(u) /\ ~u.ledger.intact
                  /\ u.outcome.disposition = "BLOCKED_TORN_LEDGER"
<1> DEFINE v == [t EXCEPT !.ledger.intact = FALSE]
           u == Concludes(v, "BLOCKED_TORN_LEDGER")
<1>1. /\ t \in Trial /\ t.status = "running" /\ t.effects = n /\ Clean(t)
      /\ t.ledger.state = "CONSUMED"
  BY DEF Broker, Running
<1>2. /\ v \in Trial /\ v.status = "running" /\ v.effects = n
      /\ v.ledger.state = "CONSUMED" /\ ~v.ledger.intact
      /\ v.outcome = t.outcome
  BY <1>1 DEF Trial, Database
<1>3. ledger_torn(t) = IF Ledger(v).status = "seal mismatch" THEN u
                       ELSE Raised(v, "torn OASI ledger accepted")
  BY DEF ledger_torn
<1> HIDE DEF v
<1>4. Ledger(v) = Raised(v, "seal mismatch")
  <2>1. NoFile.state = "NONE" /\ v.ledger.state # "NONE"
    BY <1>2 DEF NoFile
  <2>2. v.ledger # NoFile
    BY <2>1
  <2> QED
    BY <1>2, <2>2 DEF Ledger
<1>5. Raised(v, "seal mismatch").status = "seal mismatch"
  BY <1>2 DEF Raised, Trial
<1>6. u = Perform(t, Op("ledger_torn"))
  BY <1>3, <1>4, <1>5, Dispatch
<1>7. Clean(v)
  BY <1>1, <1>2 DEF Clean
<1>8. /\ u \in Trial /\ u.status = "running" /\ u.effects = n
      /\ u.ledger = v.ledger /\ u.outcome.disposition = "BLOCKED_TORN_LEDGER"
      /\ Clean(u)
  BY <1>2, <1>7, Concluded DEF DISPOSITIONS
<1> HIDE DEF u
<1>9. ShotStep(t, u)
  BY <1>1, <1>2, <1>8 DEF ShotStep
<1> QED
  BY <1>1, <1>2, <1>6, <1>8, <1>9 DEF Leads, Running

\* A replay of a finished attempt is refused.
LEMMA BrokerReplays ==
    ASSUME NEW m, NEW n \in Nat, NEW t, Broker(t, n, "TERMINAL")
    PROVE  \E u : /\ Leads(m, t, Op("ledger_replay"), u) /\ Running(u)
                  /\ u.effects = n /\ Clean(u)
                  /\ u.outcome.disposition = "REPLAY_REJECTED_TERMINAL"
<1> DEFINE u == Concludes(t, "REPLAY_REJECTED_TERMINAL")
<1>1. t \in Trial /\ t.status = "running"
  BY DEF Broker, Running
<1>2. /\ u \in Trial /\ u.status = t.status /\ u.effects = t.effects
      /\ u.ledger = t.ledger
      /\ u.outcome.disposition = "REPLAY_REJECTED_TERMINAL"
      /\ Clean(t) => Clean(u)
  BY <1>1, Concluded DEF DISPOSITIONS
<1>3. ledger_consume(t) = Raised(t, "ProtocolError")
  BY DEF ledger_consume, LedgerMoves, Broker
<1>4. Raised(t, "ProtocolError").status = "ProtocolError"
  BY <1>1 DEF Raised, Trial
<1>5. u = Perform(t, Op("ledger_replay"))
  BY <1>3, <1>4, Dispatch DEF ledger_replay
<1> HIDE DEF u
<1>6. ShotStep(t, u)
  BY <1>2 DEF ShotStep
<1> QED
  BY <1>1, <1>2, <1>5, <1>6 DEF Broker, Leads, Running

-----------------------------------------------------------------------------
(* Pieces of scripts.                                                      *)

\* A short script is its first operation and the rest.
LEMMA SplitTwo ==
    ASSUME NEW a, NEW b
    PROVE  <<a>> \o <<b>> = <<a, b>>
<1> DEFINE S == {a, b}
           s == <<a>> \o <<b>>
<1>1. <<a>> \in Seq(S) /\ <<b>> \in Seq(S) /\ <<a, b>> \in Seq(S)
  OBVIOUS
<1>2. s \in Seq(S) /\ Len(s) = 2 /\ \A i \in 1..2 : s[i] = <<a, b>>[i]
  BY <1>1
<1> QED
  BY <1>1, <1>2, SeqEqual

\* The same of three operations.
LEMMA SplitThree ==
    ASSUME NEW a, NEW b, NEW c
    PROVE  <<a>> \o <<b, c>> = <<a, b, c>>
<1> DEFINE S == {a, b, c}
           s == <<a>> \o <<b, c>>
<1>1. <<a>> \in Seq(S) /\ <<b, c>> \in Seq(S) /\ <<a, b, c>> \in Seq(S)
  OBVIOUS
<1>2. s \in Seq(S) /\ Len(s) = 3 /\ \A i \in 1..3 : s[i] = <<a, b, c>>[i]
  BY <1>1
<1> QED
  BY <1>1, <1>2, SeqEqual

\* The same of four.
LEMMA SplitFour ==
    ASSUME NEW a, NEW b, NEW c, NEW d
    PROVE  <<a>> \o <<b, c, d>> = <<a, b, c, d>>
<1> DEFINE S == {a, b, c, d}
           s == <<a>> \o <<b, c, d>>
<1>1. /\ <<a>> \in Seq(S) /\ <<b, c, d>> \in Seq(S)
      /\ <<a, b, c, d>> \in Seq(S)
  OBVIOUS
<1>2. s \in Seq(S) /\ Len(s) = 4 /\ \A i \in 1..4 : s[i] = <<a, b, c, d>>[i]
  BY <1>1
<1> QED
  BY <1>1, <1>2, SeqEqual

\* Operations without arguments.
LEMMA OpsAre ==
    ASSUME NEW a, NEW b, NEW c, NEW d
    PROVE  /\ Ops(<<a>>) = <<Op(a)>>
           /\ Ops(<<a, b>>) = <<Op(a), Op(b)>>
           /\ Ops(<<a, b, c>>) = <<Op(a), Op(b), Op(c)>>
           /\ Ops(<<a, b, c, d>>) = <<Op(a), Op(b), Op(c), Op(d)>>
<1>1. Ops(<<a>>) = <<Op(a)>>
  BY DEF Ops
<1>2. Ops(<<a, b>>) = <<Op(a), Op(b)>>
  BY DEF Ops
<1>3. Ops(<<a, b, c>>) = <<Op(a), Op(b), Op(c)>>
  BY DEF Ops
<1>4. Ops(<<a, b, c, d>>) = <<Op(a), Op(b), Op(c), Op(d)>>
  BY DEF Ops
<1> QED
  BY <1>1, <1>2, <1>3, <1>4

\* Two operations.
LEMMA Two ==
    ASSUME NEW m, NEW t, NEW a, NEW u, NEW b, NEW v,
           Leads(m, t, a, u), Leads(m, u, b, v)
    PROVE  Reaches(m, t, <<a, b>>, v)
<1>1. Reaches(m, t, <<a>> \o <<b>>, v)
  BY One, Then
<1>2. <<a>> \o <<b>> = <<a, b>>
  BY SplitTwo
<1> QED
  BY <1>1, <1>2, Zenon

\* Three operations.
LEMMA Three ==
    ASSUME NEW m, NEW t, NEW a, NEW u, NEW b, NEW v, NEW c, NEW w,
           Leads(m, t, a, u), Leads(m, u, b, v), Leads(m, v, c, w)
    PROVE  Reaches(m, t, <<a, b, c>>, w)
<1>1. Reaches(m, t, <<a>>, u) /\ Reaches(m, u, <<b, c>>, w)
  BY One, Two
<1>2. Reaches(m, t, <<a>> \o <<b, c>>, w)
  BY <1>1, Then
<1>3. <<a>> \o <<b, c>> = <<a, b, c>>
  BY SplitThree
<1> QED
  BY <1>2, <1>3, Zenon

\* Four operations.
LEMMA Four ==
    ASSUME NEW m, NEW t, NEW a, NEW u, NEW b, NEW v, NEW c, NEW w,
           NEW d, NEW x,
           Leads(m, t, a, u), Leads(m, u, b, v), Leads(m, v, c, w),
           Leads(m, w, d, x)
    PROVE  Reaches(m, t, <<a, b, c, d>>, x)
<1>1. Reaches(m, t, <<a>>, u) /\ Reaches(m, u, <<b, c, d>>, x)
  BY One, Three
<1>2. Reaches(m, t, <<a>> \o <<b, c, d>>, x)
  BY <1>1, Then
<1>3. <<a>> \o <<b, c, d>> = <<a, b, c, d>>
  BY SplitFour
<1> QED
  BY <1>2, <1>3, Zenon

REJECTED_CASES == {"cross_generation", "altered_signature"}

\* The genuine frame is checked, and nothing else happens.
LEMMA Authentic ==
    ASSUME NEW m, NEW c, c \notin REJECTED_CASES
    PROVE  Reaches(m, InitTrial, Authenticate(c), InitTrial)
<1> DEFINE op == Verify(make_frame, GENERATION, "raise")
<1>1. Authenticate(c) = <<op>>
  BY DEF Authenticate, REJECTED_CASES
<1>2. Perform(InitTrial, op) = InitTrial
  BY Frames
<1> HIDE DEF op
<1>3. Leads(m, InitTrial, op, InitTrial)
  BY <1>2, Beginning DEF Leads, Running, ShotStep
<1> QED
  BY <1>1, <1>3, One

\* A frame that is rejected ends the trial before it did anything.
LEMMA Rejected ==
    ASSUME NEW m, NEW c \in REJECTED_CASES, NEW op,
           NEW x \in {"REJECTED_BINDING", "REJECTED_SIGNATURE"},
           Perform(InitTrial, op) = Raised(Concludes(InitTrial, x), "returned")
    PROVE  \E u : /\ Leads(m, InitTrial, op, u)
                  /\ u.status = "returned" /\ EndsWell(m, c, u)
<1> DEFINE v == Concludes(InitTrial, x)
           u == Raised(v, "returned")
<1>1. /\ InitTrial \in Trial /\ InitTrial.status = "running"
      /\ InitTrial.effects = 0 /\ Clean(InitTrial)
  BY Beginning DEF Running
<1>2. /\ v \in Trial /\ v.effects = 0 /\ v.outcome.disposition = x
      /\ v.ledger = InitTrial.ledger /\ Clean(v)
  BY <1>1, Concluded DEF DISPOSITIONS
<1> HIDE DEF v
<1>3. /\ u \in Trial /\ u.status = "returned" /\ u.effects = v.effects
      /\ u.ledger = v.ledger /\ u.outcome = v.outcome
  BY <1>2, RaisedOnly DEF STATUSES
<1>4. Perform(InitTrial, op) = u
  BY DEF v
<1> HIDE DEF u
<1>5. ShotStep(InitTrial, u)
  BY <1>1, <1>2, <1>3 DEF ShotStep
<1>6. Truthful(u) /\ Clean(u)
  BY <1>2, <1>3 DEF Truthful, Clean
<1>7. EndsWell(m, c, u)
  BY <1>2, <1>3, <1>6 DEF EndsWell, Delivers, REJECTED_CASES
<1> QED
  BY <1>1, <1>3, <1>4, <1>5, <1>7 DEF Leads, Running

\* So do the forged frames of the coordinator and the broker.
LEMMA Forged ==
    ASSUME NEW m, NEW c \in REJECTED_CASES
    PROVE  /\ Len(Authenticate(c)) = 2
           /\ \E S : Authenticate(c) \in Seq(S)
           /\ \E u : /\ Leads(m, InitTrial, Authenticate(c)[1], u)
                     /\ u.status = "returned" /\ EndsWell(m, c, u)
<1>2. CASE c = "cross_generation"
  <2> DEFINE op == Verify(make_frame, GENERATION + 1, "REJECTED_BINDING")
             next == Accepted("cross_generation_accepted")
  <2>1. Authenticate(c) = <<op, next>>
    BY <1>2 DEF Authenticate
  <2>2. Perform(InitTrial, op)
           = Raised(Concludes(InitTrial, "REJECTED_BINDING"), "returned")
    BY Frames
  <2> HIDE DEF op, next
  <2>3. <<op, next>> \in Seq({op, next}) /\ <<op, next>>[1] = op
    OBVIOUS
  <2> QED
    BY <2>1, <2>2, <2>3, Rejected
<1>3. CASE c = "altered_signature"
  <2> DEFINE op == Verify(mutate_signature(make_frame), GENERATION,
                          "REJECTED_SIGNATURE")
             next == Accepted("altered_signature_accepted")
  <2>1. Authenticate(c) = <<op, next>>
    BY <1>3 DEF Authenticate
  <2>2. Perform(InitTrial, op)
           = Raised(Concludes(InitTrial, "REJECTED_SIGNATURE"), "returned")
    BY Frames
  <2> HIDE DEF op, next
  <2>3. <<op, next>> \in Seq({op, next}) /\ <<op, next>>[1] = op
    OBVIOUS
  <2> QED
    BY <2>1, <2>2, <2>3, Rejected
<1> QED
  BY <1>2, <1>3 DEF REJECTED_CASES

\* The trial of a forged frame, whatever would have followed.
LEMMA ForgedSucceeds ==
    ASSUME NEW m, NEW c \in REJECTED_CASES
    PROVE  Succeeds(m, c, InitTrial, Authenticate(c) \o <<>>)
<1>1. PICK S : Authenticate(c) \in Seq(S)
  BY Forged
<1>2. /\ Authenticate(c) \o <<>> \in Seq(S)
      /\ Len(Authenticate(c) \o <<>>) >= 1
      /\ (Authenticate(c) \o <<>>)[1] = Authenticate(c)[1]
  <2>1. Len(Authenticate(c)) = 2
    BY Forged
  <2>2. Authenticate(c) \o <<>> = Authenticate(c)
    BY <1>1, ConcatEmptySeq
  <2> QED
    BY <1>1, <2>1, <2>2
<1>3. PICK u : /\ Leads(m, InitTrial, Authenticate(c)[1], u)
               /\ u.status = "returned" /\ EndsWell(m, c, u)
  BY Forged
<1> QED
  BY <1>2, <1>3, AtOnce

-----------------------------------------------------------------------------
(* run_coordinated.                                                        *)

COORDINATED == {"B2_AT_LEAST_ONCE", "B3_IDEMPOTENT",
                "B3_IDEMPOTENT_UNAVAILABLE"}

\* B3 of S5 asks for its effect by key.
Asks(m, A) ==
    /\ m \in COORDINATED /\ A \in APPLIES
    /\ m = "B3_IDEMPOTENT" => A = "apply_idempotent"

\* The job is prepared.
LEMMA CoordPrepared ==
    ASSUME NEW m, m # "OASI", NEW A \in APPLIES
    PROVE  \E t : /\ Reaches(m, InitTrial,
                             Ops(<<"StateStore", "store_prepare">>), t)
                  /\ Coord(t, A, 0, "READY")
<1>1. PICK t : /\ Leads(m, InitTrial, Op("StateStore"), t)
               /\ Coord(t, A, 0, "ABSENT")
  BY CoordOpened
<1>2. PICK u : Leads(m, t, Op("store_prepare"), u) /\ Coord(u, A, 0, "READY")
  BY <1>1, CoordMoves
<1>3. Reaches(m, InitTrial, <<Op("StateStore"), Op("store_prepare")>>, u)
  BY <1>1, <1>2, Two
<1> QED
  BY <1>2, <1>3, OpsAre

\* The job is dispatched, and its result stored.
LEMMA CoordFinishes ==
    ASSUME NEW m, m # "OASI", NEW A \in APPLIES, NEW n \in Nat, NEW t,
           Coord(t, A, n, "READY")
    PROVE  /\ \E u : /\ Reaches(m, t, Ops(<<A, "store_result">>), u)
                     /\ Coord(u, A, More(A, n), "RESULT")
           /\ \E u : /\ Reaches(m, t, Ops(<<"StateStore", A, "store_result">>),
                                u)
                     /\ Coord(u, A, More(A, n), "RESULT")
<1>0. More(A, n) \in Nat
  BY DEF More
<1>1. Leads(m, t, Op("StateStore"), t)
  BY CoordReopened
<1>2. PICK u : Leads(m, t, Op(A), u) /\ Coord(u, A, More(A, n), "READY")
  BY CoordApplies
<1>3. PICK v : /\ Leads(m, u, Op("store_result"), v)
               /\ Coord(v, A, More(A, n), "RESULT")
  BY <1>0, <1>2, CoordMoves
<1>4. Reaches(m, t, <<Op(A), Op("store_result")>>, v)
  BY <1>2, <1>3, Two
<1>5. Reaches(m, t, <<Op("StateStore"), Op(A), Op("store_result")>>, v)
  BY <1>1, <1>2, <1>3, Three
<1>6. Ops(<<A, "store_result">>) = <<Op(A), Op("store_result")>>
  BY OpsAre
<1>7. Ops(<<"StateStore", A, "store_result">>)
         = <<Op("StateStore"), Op(A), Op("store_result")>>
  BY OpsAre
<1> QED
  BY <1>3, <1>4, <1>5, <1>6, <1>7

\* A coordinator's trial: what follows when the job is prepared ends well.
LEMMA CoordTrial ==
    ASSUME NEW m, NEW A, Asks(m, A), NEW c, c \notin REJECTED_CASES, NEW s,
           \A t : Coord(t, A, 0, "READY") =>
              \E u : Reaches(m, t, s, u) /\ Running(u) /\ EndsWell(m, c, u)
    PROVE  Succeeds(m, c, InitTrial,
              Authenticate(c)
              \o (Ops(<<"StateStore", "store_prepare">>) \o s))
<1>0. m # "OASI" /\ A \in APPLIES
  BY DEF Asks, COORDINATED
<1> DEFINE first == Authenticate(c)
           second == Ops(<<"StateStore", "store_prepare">>)
<1>1. Reaches(m, InitTrial, first, InitTrial)
  BY Authentic
<1>2. PICK t : Reaches(m, InitTrial, second, t) /\ Coord(t, A, 0, "READY")
  BY <1>0, CoordPrepared
<1>3. PICK u : Reaches(m, t, s, u) /\ Running(u) /\ EndsWell(m, c, u)
  BY <1>2
<1> HIDE DEF first, second
<1>4. Reaches(m, InitTrial, second \o s, u)
  BY <1>2, <1>3, Then
<1>5. Reaches(m, InitTrial, first \o (second \o s), u)
  BY <1>1, <1>4, Then
<1>6. Succeeds(m, c, InitTrial, first \o (second \o s))
  BY <1>3, <1>5, ToTheEnd
<1> QED
  BY <1>6 DEF first, second

\* The ends of a coordinator's trials.
LEMMA CoordEnds ==
    ASSUME NEW m, NEW A, Asks(m, A), NEW c, NEW t, NEW n \in {1, 2},
           Running(t), t.effects = n, m = "B3_IDEMPOTENT" => n = 1
    PROVE  /\ t.outcome.disposition = "COMPLETE" => EndsWell(m, c, t)
           /\ /\ t.outcome.disposition = "REPLAY_REJECTED_RESULT_EXISTS"
              /\ n = 1
              => EndsWell(m, c, t)
           /\ /\ t.outcome.disposition \in
                    {"RECOVERED_FROM_READY", "AMBIGUOUS_RECOVERED_FROM_READY",
                     "RECOVERED_FROM_READY_NO_CONSUMED_PHASE"}
              /\ t.store.state = "RESULT"
              => EndsWell(m, c, t)
           /\ /\ t.outcome.disposition \in
                    {"BLOCKED_TORN_COORDINATOR", "BLOCKED_TORN_LEDGER"}
              /\ n = 1 /\ ~t.store.intact
              => EndsWell(m, c, t)
<1>1. m # "OASI"
  BY DEF Asks, COORDINATED
<1>2. Delivers(m, c, t)
  BY DEF Delivers
<1> QED
  BY <1>1, <1>2 DEF EndsWell, Truthful

\* nominal and replay.
LEMMA CoordNominal ==
    ASSUME NEW m, NEW A, Asks(m, A), NEW c, NEW t, Coord(t, A, 0, "READY")
    PROVE  /\ \E u : /\ Reaches(m, t, Ops(<<A, "store_result">>), u)
                     /\ Running(u) /\ EndsWell(m, c, u)
           /\ \E u : /\ Reaches(m, t,
                                Ops(<<A, "store_result", "store_replay">>), u)
                     /\ Running(u) /\ EndsWell(m, c, u)
<1>0. m # "OASI" /\ A \in APPLIES /\ More(A, 0) = 1
  BY DEF Asks, COORDINATED, More
<1>1. PICK u : /\ Leads(m, t, Op(A), u) /\ Coord(u, A, 1, "READY")
  BY <1>0, CoordApplies
<1>2. PICK v : Leads(m, u, Op("store_result"), v) /\ Coord(v, A, 1, "RESULT")
  BY <1>0, <1>1, CoordMoves
<1>3. "COMPLETE" \in DISPOSITIONS
  BY DEF DISPOSITIONS
<1>4. PICK w : /\ Leads(m, v, Op("store_replay"), w) /\ Running(w)
               /\ w.effects = 1
               /\ w.outcome.disposition = "REPLAY_REJECTED_RESULT_EXISTS"
  BY <1>0, <1>2, <1>3, CoordConcludes
<1>5. Reaches(m, t, <<Op(A), Op("store_result")>>, v)
  BY <1>1, <1>2, Two
<1>6. Reaches(m, t, <<Op(A), Op("store_result"), Op("store_replay")>>, w)
  BY <1>1, <1>2, <1>4, Three
<1>7. Running(v) /\ v.effects = 1 /\ v.outcome.disposition = "COMPLETE"
  BY <1>2 DEF Coord
<1>8. EndsWell(m, c, v)
  BY <1>7, CoordEnds
<1>9. EndsWell(m, c, w)
  BY <1>4, CoordEnds
<1>10. Ops(<<A, "store_result">>) = <<Op(A), Op("store_result")>>
  BY OpsAre
<1>11. Ops(<<A, "store_result", "store_replay">>)
          = <<Op(A), Op("store_result"), Op("store_replay")>>
  BY OpsAre
<1> QED
  BY <1>4, <1>5, <1>6, <1>7, <1>8, <1>9, <1>10, <1>11

READY_DISPOSITIONS ==
    {"RECOVERED_FROM_READY", "AMBIGUOUS_RECOVERED_FROM_READY",
     "RECOVERED_FROM_READY_NO_CONSUMED_PHASE"}

\* A prepared job that is dispatched again, after n effects.
LEMMA CoordRecovers ==
    ASSUME NEW m, NEW A, Asks(m, A), NEW c, NEW n \in {0, 1}, NEW t,
           Coord(t, A, n, "READY"), NEW x \in READY_DISPOSITIONS
    PROVE  \E u : /\ Reaches(m, t,
                        Ops(<<"StateStore", A, "store_result">>)
                        \o <<Conclude(x)>>, u)
                  /\ Running(u) /\ EndsWell(m, c, u)
<1>0. /\ m # "OASI" /\ A \in APPLIES /\ More(A, n) \in {1, 2}
      /\ m = "B3_IDEMPOTENT" => More(A, n) = 1
  BY DEF Asks, COORDINATED, APPLIES, More
<1>1. PICK u : /\ Reaches(m, t, Ops(<<"StateStore", A, "store_result">>), u)
               /\ Coord(u, A, More(A, n), "RESULT")
  BY <1>0, CoordFinishes
<1>2. x \in DISPOSITIONS /\ More(A, n) \in Nat
  BY <1>0 DEF READY_DISPOSITIONS, DISPOSITIONS
<1>3. PICK v : /\ Leads(m, u, Conclude(x), v) /\ Running(v)
               /\ v.effects = More(A, n) /\ v.store.state = "RESULT"
               /\ v.outcome.disposition = x
  BY <1>0, <1>1, <1>2, CoordConcludes
<1>4. Reaches(m, u, <<Conclude(x)>>, v)
  BY <1>3, One
<1>5. EndsWell(m, c, v)
  BY <1>0, <1>3, CoordEnds DEF READY_DISPOSITIONS
<1> QED
  BY <1>1, <1>3, <1>4, <1>5, Then

\* A crash between the effect and the result, in S5 and in S6.
LEMMA CoordAmbiguous ==
    ASSUME NEW m, NEW A, Asks(m, A), NEW c, NEW t, Coord(t, A, 0, "READY"),
           NEW x \in READY_DISPOSITIONS
    PROVE  /\ \E u : /\ Reaches(m, t,
                           (<<Op(A)>>
                            \o Ops(<<"StateStore", A, "store_result">>))
                           \o <<Conclude(x)>>, u)
                     /\ Running(u) /\ EndsWell(m, c, u)
           /\ \E u : /\ Reaches(m, t,
                           Ops(<<A, "StateStore", A, "store_result">>)
                           \o <<Conclude(x)>>, u)
                     /\ Running(u) /\ EndsWell(m, c, u)
<1>0. /\ m # "OASI" /\ A \in APPLIES /\ More(A, 0) = 1 /\ 0 \in Nat
      /\ 1 \in Nat
  BY DEF Asks, COORDINATED, APPLIES, More
<1> PICK k \in {1, 2} : k = More(A, 1) /\ (m = "B3_IDEMPOTENT" => k = 1)
  BY DEF Asks, APPLIES, More
<1>1. PICK u : Leads(m, t, Op(A), u) /\ Coord(u, A, 1, "READY")
  BY <1>0, CoordApplies
<1>2. Leads(m, u, Op("StateStore"), u)
  BY <1>0, <1>1, CoordReopened
<1>3. PICK v : Leads(m, u, Op(A), v) /\ Coord(v, A, k, "READY")
  BY <1>0, <1>1, CoordApplies, Zenon
<1>4. k \in Nat /\ x \in DISPOSITIONS
  BY DEF READY_DISPOSITIONS, DISPOSITIONS
<1>5. PICK w : /\ Leads(m, v, Op("store_result"), w)
               /\ Coord(w, A, k, "RESULT")
  BY <1>0, <1>3, <1>4, CoordMoves
<1>6. PICK y : /\ Leads(m, w, Conclude(x), y) /\ Running(y)
               /\ y.effects = k /\ y.store.state = "RESULT"
               /\ y.outcome.disposition = x
  BY <1>0, <1>4, <1>5, CoordConcludes
<1>7. EndsWell(m, c, y)
  BY <1>0, <1>6, CoordEnds DEF READY_DISPOSITIONS
<1> DEFINE again == Ops(<<"StateStore", A, "store_result">>)
           all == Ops(<<A, "StateStore", A, "store_result">>)
           last == <<Conclude(x)>>
<1>8. again = <<Op("StateStore"), Op(A), Op("store_result")>>
  BY OpsAre
<1>9. all = <<Op(A), Op("StateStore"), Op(A), Op("store_result")>>
  BY DEF Ops
<1>10. Reaches(m, t, <<Op(A)>>, u) /\ Reaches(m, w, last, y)
  BY <1>1, <1>6, One
<1> HIDE DEF again, all, last
<1>11. Reaches(m, u, again, w)
  BY <1>2, <1>3, <1>5, <1>8, Three
<1>12. Reaches(m, t, all, w)
  BY <1>1, <1>2, <1>3, <1>5, <1>9, Four
<1>13. Reaches(m, t, <<Op(A)>> \o again, w)
  BY <1>10, <1>11, Then
<1>14. Reaches(m, t, (<<Op(A)>> \o again) \o last, y)
  BY <1>10, <1>13, Then
<1>15. Reaches(m, t, all \o last, y)
  BY <1>10, <1>12, Then
<1> QED
  BY <1>6, <1>7, <1>14, <1>15 DEF again, all, last

\* A store that is torn after the effect.
LEMMA CoordBlocked ==
    ASSUME NEW m, NEW A, Asks(m, A), NEW c, NEW t, Coord(t, A, 0, "READY"),
           NEW x \in {"BLOCKED_TORN_COORDINATOR", "BLOCKED_TORN_LEDGER"}
    PROVE  \E u : /\ Reaches(m, t, Ops(<<A, "store_corrupt">>)
                                   \o <<<<"store_torn", x>>>>, u)
                  /\ Running(u) /\ EndsWell(m, c, u)
<1>0. /\ m # "OASI" /\ A \in APPLIES /\ More(A, 0) = 1 /\ 1 \in Nat
      /\ x \in DISPOSITIONS
  BY DEF Asks, COORDINATED, More, DISPOSITIONS
<1>1. PICK u : Leads(m, t, Op(A), u) /\ Coord(u, A, 1, "READY")
  BY <1>0, CoordApplies
<1>2. PICK v, w : Tears(m, u, x, v, w)
  BY <1>0, <1>1, CoordTorn
<1>2a. /\ Leads(m, u, Op("store_corrupt"), v)
       /\ Leads(m, v, <<"store_torn", x>>, w) /\ Running(w)
       /\ w.effects = 1 /\ ~w.store.intact /\ w.outcome.disposition = x
  BY <1>2 DEF Tears
<1>3. Reaches(m, t, <<Op(A), Op("store_corrupt")>>, v)
  BY <1>1, <1>2a, Two
<1>4. Ops(<<A, "store_corrupt">>) = <<Op(A), Op("store_corrupt")>>
  BY OpsAre
<1>5. Reaches(m, v, <<<<"store_torn", x>>>>, w)
  BY <1>2a, One
<1>6. EndsWell(m, c, w)
  BY <1>2a, CoordEnds
<1> QED
  BY <1>2a, <1>3, <1>4, <1>5, <1>6, Then

-----------------------------------------------------------------------------
(* run_oasi.                                                               *)

\* The attempt is prepared.
LEMMA BrokerPrepared ==
    ASSUME NEW m
    PROVE  \E t : /\ Reaches(m, InitTrial, Ops(<<"Ledger", "ledger_prepare">>),
                             t)
                  /\ Broker(t, 0, "PREPARED")
<1>0. 0 \in Nat
  OBVIOUS
<1>1. PICK t : Leads(m, InitTrial, Op("Ledger"), t) /\ Broker(t, 0, "ABSENT")
  BY BrokerOpened
<1>2. PICK u : Leads(m, t, Op("ledger_prepare"), u) /\ Broker(u, 0, "PREPARED")
  BY <1>0, <1>1, BrokerMoves
<1>3. Reaches(m, InitTrial, <<Op("Ledger"), Op("ledger_prepare")>>, u)
  BY <1>1, <1>2, Two
<1> QED
  BY <1>2, <1>3, OpsAre

\* An OASI trial: what follows when the attempt is prepared ends well.
LEMMA BrokerTrial ==
    ASSUME NEW c, c \notin REJECTED_CASES, NEW s,
           \A t : Broker(t, 0, "PREPARED") =>
              \E u : /\ Reaches("OASI", t, s, u) /\ Running(u)
                     /\ EndsWell("OASI", c, u)
    PROVE  Succeeds("OASI", c, InitTrial,
              Authenticate(c) \o (Ops(<<"Ledger", "ledger_prepare">>) \o s))
<1> DEFINE m == "OASI"
           first == Authenticate(c)
           second == Ops(<<"Ledger", "ledger_prepare">>)
<1>1. Reaches(m, InitTrial, first, InitTrial)
  BY Authentic
<1>2. PICK t : Reaches(m, InitTrial, second, t) /\ Broker(t, 0, "PREPARED")
  BY BrokerPrepared
<1>3. PICK u : Reaches(m, t, s, u) /\ Running(u) /\ EndsWell(m, c, u)
  BY <1>2
<1> HIDE DEF m, first, second
<1>4. Reaches(m, InitTrial, second \o s, u)
  BY <1>2, <1>3, Then
<1>5. Reaches(m, InitTrial, first \o (second \o s), u)
  BY <1>1, <1>4, Then
<1>6. Succeeds(m, c, InitTrial, first \o (second \o s))
  BY <1>3, <1>5, ToTheEnd
<1> QED
  BY <1>6 DEF m, first, second

\* The ends of an OASI trial.
LEMMA BrokerEnds ==
    ASSUME NEW c, NEW t, NEW n \in {0, 1}, Running(t), t.effects = n, Clean(t)
    PROVE  /\ t.outcome.disposition = "COMPLETE" => EndsWell("OASI", c, t)
           /\ t.outcome.disposition = "REPLAY_REJECTED_TERMINAL" /\ n = 1
              => EndsWell("OASI", c, t)
           /\ /\ t.outcome.disposition \in
                    {"ABORT_WITHOUT_EFFECT",
                     "BLOCK_NO_REDISPATCH_DELIVERY_LOST"}
              /\ n = 0
              => EndsWell("OASI", c, t)
           /\ /\ t.outcome.disposition = "BLOCK_NO_REDISPATCH"
              /\ t.ledger.state = "CONSUMED"
              => EndsWell("OASI", c, t)
           /\ /\ t.outcome.disposition = "BLOCKED_TORN_LEDGER" /\ n = 1
              /\ ~t.ledger.intact
              => EndsWell("OASI", c, t)
<1>1. Delivers("OASI", c, t)
  BY DEF Delivers
<1> QED
  BY <1>1 DEF EndsWell, Truthful

\* A crash before the attempt is consumed.
LEMMA BrokerAborts ==
    ASSUME NEW c, NEW t, Broker(t, 0, "PREPARED")
    PROVE  \E u : /\ Reaches("OASI", t, <<Recover("ABORT_WITHOUT_EFFECT",
                                               "ABORT_WITHOUT_EFFECT")>>, u)
                  /\ Running(u) /\ EndsWell("OASI", c, u)
<1> DEFINE x == "ABORT_WITHOUT_EFFECT"
<1>1. x \in DISPOSITIONS /\ x = recovery_action("PREPARED") /\ 0 \in Nat
  BY DEF DISPOSITIONS, recovery_action
<1>2. PICK u : Recovers("OASI", t, 0, "PREPARED", x, x, u)
  BY <1>1, BrokerRecovers
<1>3. /\ Leads("OASI", t, Recover(x, x), u) /\ Running(u)
      /\ u.effects = 0 /\ Clean(u) /\ u.outcome.disposition = x
  BY <1>2 DEF Recovers
<1>4. Reaches("OASI", t, <<Recover(x, x)>>, u)
  BY <1>3, One
<1>5. EndsWell("OASI", c, u)
  BY <1>3, BrokerEnds
<1> QED
  BY <1>3, <1>4, <1>5

\* A crash after it was consumed, before the effect and after it.
LEMMA BrokerBlocks ==
    ASSUME NEW c, NEW t, Broker(t, 0, "PREPARED"), NEW action,
           action = recovery_action("CONSUMED"),
           NEW x \in {"BLOCK_NO_REDISPATCH",
                      "BLOCK_NO_REDISPATCH_DELIVERY_LOST"}
    PROVE  /\ \E u : /\ Reaches("OASI", t, <<Op("ledger_consume"),
                                             Recover(action, x)>>, u)
                     /\ Running(u) /\ EndsWell("OASI", c, u)
           /\ x = "BLOCK_NO_REDISPATCH" =>
              \E u : /\ Reaches("OASI", t, <<Op("ledger_consume"), Op("apply"),
                                             Recover(action, x)>>, u)
                     /\ Running(u) /\ EndsWell("OASI", c, u)
<1>0. 0 \in Nat /\ 1 \in Nat /\ x \in DISPOSITIONS
  BY DEF DISPOSITIONS
<1>1. PICK u : /\ Leads("OASI", t, Op("ledger_consume"), u)
               /\ Broker(u, 0, "CONSUMED")
  BY <1>0, BrokerMoves
<1>2. PICK v : /\ Leads("OASI", u, Op("apply"), v) /\ Broker(v, 1, "CONSUMED")
  BY <1>1, BrokerApplies
<1>3. PICK w : Recovers("OASI", u, 0, "CONSUMED", action, x, w)
  BY <1>0, <1>1, BrokerRecovers
<1>4. PICK y : Recovers("OASI", v, 1, "CONSUMED", action, x, y)
  BY <1>0, <1>2, BrokerRecovers
<1>5. /\ Leads("OASI", u, Recover(action, x), w) /\ Running(w)
      /\ w.effects = 0 /\ Clean(w) /\ w.ledger.state = "CONSUMED"
      /\ w.outcome.disposition = x
      /\ Leads("OASI", v, Recover(action, x), y) /\ Running(y)
      /\ y.effects = 1 /\ Clean(y) /\ y.ledger.state = "CONSUMED"
      /\ y.outcome.disposition = x
  BY <1>3, <1>4 DEF Recovers
<1>6. Reaches("OASI", t, <<Op("ledger_consume"), Recover(action, x)>>, w)
  BY <1>1, <1>5, Two
<1>7. Reaches("OASI", t, <<Op("ledger_consume"), Op("apply"),
                           Recover(action, x)>>, y)
  BY <1>1, <1>2, <1>5, Three
<1>8. EndsWell("OASI", c, w)
  BY <1>5, BrokerEnds
<1>9. x = "BLOCK_NO_REDISPATCH" => EndsWell("OASI", c, y)
  BY <1>5, BrokerEnds
<1> QED
  BY <1>5, <1>6, <1>7, <1>8, <1>9

\* A ledger that is torn after the effect.
LEMMA BrokerBlocked ==
    ASSUME NEW c, NEW t, Broker(t, 0, "PREPARED")
    PROVE  \E u : /\ Reaches("OASI", t,
                        Ops(<<"ledger_consume", "apply", "ledger_torn">>), u)
                  /\ Running(u) /\ EndsWell("OASI", c, u)
<1>0. 0 \in Nat /\ 1 \in Nat
  OBVIOUS
<1>1. PICK u : /\ Leads("OASI", t, Op("ledger_consume"), u)
               /\ Broker(u, 0, "CONSUMED")
  BY <1>0, BrokerMoves
<1>2. PICK v : /\ Leads("OASI", u, Op("apply"), v) /\ Broker(v, 1, "CONSUMED")
  BY <1>1, BrokerApplies
<1>3. PICK w : /\ Leads("OASI", v, Op("ledger_torn"), w) /\ Running(w)
               /\ w.effects = 1 /\ Clean(w) /\ ~w.ledger.intact
               /\ w.outcome.disposition = "BLOCKED_TORN_LEDGER"
  BY <1>0, <1>2, BrokerTorn
<1>4. Reaches("OASI", t,
              <<Op("ledger_consume"), Op("apply"), Op("ledger_torn")>>, w)
  BY <1>1, <1>2, <1>3, Three
<1>5. EndsWell("OASI", c, w)
  BY <1>3, BrokerEnds
<1> QED
  BY <1>3, <1>4, <1>5, OpsAre

\* The attempt runs to its end, and is replayed or not.
LEMMA BrokerFinishes ==
    ASSUME NEW c, NEW t, Broker(t, 0, "PREPARED")
    PROVE  /\ \E u : /\ Reaches("OASI", t,
                           Ops(<<"ledger_consume", "apply",
                                 "ledger_record_result", "ledger_terminal">>)
                           \o <<>>, u)
                     /\ Running(u) /\ EndsWell("OASI", c, u)
           /\ \E u : /\ Reaches("OASI", t,
                           Ops(<<"ledger_consume", "apply",
                                 "ledger_record_result", "ledger_terminal">>)
                           \o Ops(<<"ledger_replay">>), u)
                     /\ Running(u) /\ EndsWell("OASI", c, u)
<1> DEFINE all == Ops(<<"ledger_consume", "apply", "ledger_record_result",
                        "ledger_terminal">>)
           again == Ops(<<"ledger_replay">>)
<1>0. 0 \in Nat /\ 1 \in Nat
  OBVIOUS
<1>1. PICK u : /\ Leads("OASI", t, Op("ledger_consume"), u)
               /\ Broker(u, 0, "CONSUMED")
  BY <1>0, BrokerMoves
<1>2. PICK v : /\ Leads("OASI", u, Op("apply"), v) /\ Broker(v, 1, "CONSUMED")
  BY <1>1, BrokerApplies
<1>3. PICK w : /\ Leads("OASI", v, Op("ledger_record_result"), w)
               /\ Broker(w, 1, "RESULT")
  BY <1>0, <1>2, BrokerMoves
<1>4. PICK x : /\ Leads("OASI", w, Op("ledger_terminal"), x)
               /\ Broker(x, 1, "TERMINAL")
  BY <1>0, <1>3, BrokerMoves
<1>5. PICK y : /\ Leads("OASI", x, Op("ledger_replay"), y) /\ Running(y)
               /\ y.effects = 1 /\ Clean(y)
               /\ y.outcome.disposition = "REPLAY_REJECTED_TERMINAL"
  BY <1>0, <1>4, BrokerReplays
<1>6. Reaches("OASI", t, <<Op("ledger_consume"), Op("apply"),
                    Op("ledger_record_result"), Op("ledger_terminal")>>, x)
  BY <1>1, <1>2, <1>3, <1>4, Four
<1>7. all = <<Op("ledger_consume"), Op("apply"), Op("ledger_record_result"),
              Op("ledger_terminal")>>
  BY DEF Ops
<1>8. again = <<Op("ledger_replay")>>
  BY OpsAre
<1>9. /\ Running(x) /\ x \in Trial /\ x.effects = 1 /\ Clean(x)
      /\ x.outcome.disposition = "COMPLETE"
  BY <1>4 DEF Broker, Running
<1>10. EndsWell("OASI", c, x) /\ EndsWell("OASI", c, y)
  BY <1>5, <1>9, BrokerEnds
<1> HIDE DEF all, again
<1>11. Reaches("OASI", t, all, x)
  BY <1>6, <1>7
<1>12. Reaches("OASI", x, again, y)
  BY <1>5, <1>8, One
<1>13. Reaches("OASI", x, <<>>, x)
  BY <1>9, None
<1>14. Reaches("OASI", t, all \o <<>>, x)
  BY <1>11, <1>13, Then
<1>15. Reaches("OASI", t, all \o again, y)
  BY <1>11, <1>12, Then
<1> QED
  BY <1>5, <1>9, <1>10, <1>14, <1>15 DEF all, again

-----------------------------------------------------------------------------
(* run_stateless.                                                          *)

STATELESS == {"B0_DIRECT", "B1_AUTH_STATELESS"}
FIELDS == {"replay_accepted", "cross_generation_accepted",
           "altered_signature_accepted"}

\* A stateless trial on its way has nothing to say yet.
Loose(t) == Running(t) /\ t.outcome.disposition = "COMPLETE"

\* A stateless trial ends well whatever number of effects it performed, as
\* long as its record claims none.
LEMMA StatelessEnds ==
    ASSUME NEW m \in STATELESS, NEW c, NEW t, Running(t),
           t.outcome.disposition \in
              {"COMPLETE", "RECOVERED_BY_REDISPATCH",
               "AMBIGUOUS_RECOVERED_BY_REDISPATCH"}
    PROVE  EndsWell(m, c, t)
<1>1. m # "OASI" /\ Delivers(m, c, t)
  BY DEF STATELESS, Delivers
<1> QED
  BY <1>1 DEF EndsWell, Truthful

\* A dispatch of the genuine frame, with its check or without.
LEMMA Dispatches ==
    ASSUME NEW m \in STATELESS, NEW t, Loose(t)
    PROVE  \E u : /\ Reaches(m, t, <<Op("apply")>>, u)
                  /\ Reaches(m, t, <<Verify(make_frame, GENERATION, "raise"),
                                     Op("apply")>>, u)
                  /\ Loose(u)
<1> DEFINE u == apply(t)
           op == Verify(make_frame, GENERATION, "raise")
<1>1. t \in Trial /\ t.status = "running" /\ m # "OASI"
  BY DEF Loose, Running, STATELESS
<1>2. /\ u \in Trial /\ u.status = t.status /\ u.outcome = t.outcome
  BY <1>1, Applied
<1>3. u = Perform(t, Op("apply")) /\ t = Perform(t, op)
  BY Dispatch, Frames
<1> HIDE DEF u, op
<1>4. Leads(m, t, Op("apply"), u) /\ Leads(m, t, op, t)
  BY <1>1, <1>2, <1>3 DEF Leads, Running
<1>5. Reaches(m, t, <<Op("apply")>>, u)
  BY <1>4, One
<1>6. Reaches(m, t, <<op, Op("apply")>>, u)
  BY <1>4, Two
<1>7. Loose(u)
  BY <1>1, <1>2 DEF Loose, Running
<1> QED
  BY <1>5, <1>6, <1>7 DEF op

\* What a stateless trial notes after its dispatches.
LEMMA StatelessNotes ==
    ASSUME NEW m \in STATELESS, NEW c, NEW t, Loose(t),
           NEW field \in FIELDS,
           NEW x \in {"RECOVERED_BY_REDISPATCH",
                      "AMBIGUOUS_RECOVERED_BY_REDISPATCH"}
    PROVE  /\ \E u : /\ Reaches(m, t, <<Accepted(field)>>, u)
                     /\ Running(u) /\ EndsWell(m, c, u)
           /\ \E u : /\ Reaches(m, t, <<Conclude(x)>>, u)
                     /\ Running(u) /\ EndsWell(m, c, u)
<1> DEFINE u == [t EXCEPT !.outcome[field] = TRUE]
           v == Concludes(t, x)
<1>1. t \in Trial /\ t.status = "running" /\ m # "OASI"
      /\ t.outcome.disposition = "COMPLETE"
  BY DEF Loose, Running, STATELESS
<1>2. /\ u \in Trial /\ u.status = "running"
      /\ u.outcome.disposition = "COMPLETE"
  BY <1>1 DEF Trial, Outcome, FIELDS
<1>3. /\ v \in Trial /\ v.status = "running" /\ v.outcome.disposition = x
  BY <1>1, Concluded DEF DISPOSITIONS
<1>4. u = Perform(t, Accepted(field)) /\ v = Perform(t, Conclude(x))
  BY Dispatch
<1> HIDE DEF u, v
<1>5. Leads(m, t, Accepted(field), u) /\ Leads(m, t, Conclude(x), v)
  BY <1>1, <1>2, <1>3, <1>4 DEF Leads, Running
<1>6. /\ Reaches(m, t, <<Accepted(field)>>, u)
      /\ Reaches(m, t, <<Conclude(x)>>, v)
  BY <1>5, One
<1>7. Running(u) /\ Running(v)
  BY <1>2, <1>3 DEF Running
<1>8. EndsWell(m, c, u) /\ EndsWell(m, c, v)
  BY <1>2, <1>3, <1>7, StatelessEnds
<1> QED
  BY <1>6, <1>7, <1>8

\* dispatch, for the frame that is genuine.
Once(m) ==
    IF m = "B1_AUTH_STATELESS"
    THEN <<Verify(make_frame, GENERATION, "raise"), Op("apply")>>
    ELSE <<Op("apply")>>

\* The stateless trials that dispatch once, and those that dispatch again.
LEMMA StatelessTrial ==
    ASSUME NEW m \in STATELESS, NEW c, NEW field \in FIELDS,
           NEW x \in {"RECOVERED_BY_REDISPATCH",
                      "AMBIGUOUS_RECOVERED_BY_REDISPATCH"}
    PROVE  /\ Succeeds(m, c, InitTrial, Once(m))
           /\ Succeeds(m, c, InitTrial, Once(m) \o <<Accepted(field)>>)
           /\ Succeeds(m, c, InitTrial, Once(m) \o <<Conclude(x)>>)
           /\ Succeeds(m, c, InitTrial,
                       Once(m) \o Once(m) \o <<Accepted(field)>>)
           /\ Succeeds(m, c, InitTrial, Once(m) \o Once(m) \o <<Conclude(x)>>)
<1> DEFINE once == Once(m)
           accepted == <<Accepted(field)>>
           concluded == <<Conclude(x)>>
<1>1. ASSUME NEW t, Loose(t)
      PROVE  \E u : Reaches(m, t, once, u) /\ Loose(u)
  BY <1>1, Dispatches DEF Once
<1>2. ASSUME NEW t, Loose(t)
      PROVE  /\ \E u : /\ Reaches(m, t, accepted, u)
                       /\ Running(u) /\ EndsWell(m, c, u)
             /\ \E u : /\ Reaches(m, t, concluded, u)
                       /\ Running(u) /\ EndsWell(m, c, u)
  BY <1>2, StatelessNotes
<1> HIDE DEF once, accepted, concluded
<1>3. Loose(InitTrial)
  BY Beginning DEF Loose
<1>4. PICK t : Reaches(m, InitTrial, once, t) /\ Loose(t)
  BY <1>1, <1>3
<1>5. PICK u : Reaches(m, t, once, u) /\ Loose(u)
  BY <1>1, <1>4
<1>6. Reaches(m, InitTrial, once \o once, u)
  BY <1>4, <1>5, Then
<1>7. Running(t) /\ EndsWell(m, c, t)
  BY <1>4, StatelessEnds DEF Loose
<1>8. Succeeds(m, c, InitTrial, once)
  BY <1>4, <1>7, ToTheEnd
<1>9. ASSUME NEW s, NEW v, Reaches(m, InitTrial, s, v), Loose(v)
      PROVE  /\ Succeeds(m, c, InitTrial, s \o accepted)
             /\ Succeeds(m, c, InitTrial, s \o concluded)
  <2>1. PICK w : Reaches(m, v, accepted, w) /\ Running(w) /\ EndsWell(m, c, w)
    BY <1>2, <1>9
  <2>2. PICK y : Reaches(m, v, concluded, y) /\ Running(y) /\ EndsWell(m, c, y)
    BY <1>2, <1>9
  <2>3. /\ Reaches(m, InitTrial, s \o accepted, w)
        /\ Reaches(m, InitTrial, s \o concluded, y)
    BY <1>9, <2>1, <2>2, Then
  <2> QED
    BY <2>1, <2>2, <2>3, ToTheEnd
<1>10. /\ Succeeds(m, c, InitTrial, once \o accepted)
       /\ Succeeds(m, c, InitTrial, once \o concluded)
  BY <1>4, <1>9
<1>11. /\ Succeeds(m, c, InitTrial, once \o once \o accepted)
       /\ Succeeds(m, c, InitTrial, once \o once \o concluded)
  BY <1>5, <1>6, <1>9
<1> QED
  BY <1>8, <1>10, <1>11 DEF once, accepted, concluded

\* The forged frames that B1 checks.
LEMMA StatelessForged ==
    ASSUME NEW m, NEW c \in REJECTED_CASES, NEW op, NEW next, NEW last,
           NEW x \in {"REJECTED_BINDING", "REJECTED_SIGNATURE"},
           Perform(InitTrial, op) = Raised(Concludes(InitTrial, x), "returned")
    PROVE  Succeeds(m, c, InitTrial, <<op, next>> \o <<last>>)
<1>1. PICK u : /\ Leads(m, InitTrial, op, u)
               /\ u.status = "returned" /\ EndsWell(m, c, u)
  BY Rejected
<1> DEFINE S == {op, next, last}
           s == <<op, next>> \o <<last>>
<1>2. s \in Seq(S) /\ Len(s) >= 1 /\ s[1] = op
  OBVIOUS
<1> HIDE DEF S, s
<1>3. Succeeds(m, c, InitTrial, s)
  BY <1>1, <1>2, AtOnce
<1> QED
  BY <1>3 DEF s

-----------------------------------------------------------------------------
(* The scripts of S5.                                                      *)

\* The operations that the module of the experiment names are those here.
LEMMA AlikeS5 ==
    /\ \A x : /\ S5!Op(x) = Op(x) /\ S5!Conclude(x) = Conclude(x)
              /\ S5!Accepted(x) = Accepted(x) /\ S5!Ops(x) = Ops(x)
              /\ S5!mutate_signature(x) = mutate_signature(x)
              /\ S5!Authenticate(x) = Authenticate(x)
    /\ \A x, y : S5!Recover(x, y) = Recover(x, y)
    /\ \A x, y, z : S5!Verify(x, y, z) = Verify(x, y, z)
    /\ S5!GENERATION = GENERATION /\ S5!make_frame = make_frame
<1>1. /\ \A x : /\ S5!Op(x) = Op(x) /\ S5!Conclude(x) = Conclude(x)
                /\ S5!Accepted(x) = Accepted(x)
      /\ \A x, y : S5!Recover(x, y) = Recover(x, y)
      /\ \A x, y, z : S5!Verify(x, y, z) = Verify(x, y, z)
  BY DEF S5!Op, Op, S5!Conclude, Conclude, S5!Accepted, Accepted,
         S5!Recover, Recover, S5!Verify, Verify
<1>2. \A x : S5!Ops(x) = Ops(x)
  BY <1>1 DEF S5!Ops, Ops
<1>3. \A x : S5!mutate_signature(x) = mutate_signature(x)
  BY DEF S5!mutate_signature, mutate_signature
<1>4. S5!GENERATION = GENERATION /\ S5!make_frame = make_frame
  BY DEF S5!GENERATION, GENERATION, S5!make_frame, make_frame,
         S5!BINDING, BINDING
<1>5. \A x : S5!Authenticate(x) = Authenticate(x)
  BY <1>1, <1>3, <1>4 DEF S5!Authenticate, Authenticate
<1> QED
  BY <1>1, <1>2, <1>3, <1>4, <1>5

\* The mechanisms and the cases of S5.
LEMMA RangesS5 ==
    /\ Range(S5!MECHANISMS) = {"B0_DIRECT", "B1_AUTH_STATELESS",
                               "B2_AT_LEAST_ONCE", "B3_IDEMPOTENT", "OASI"}
    /\ Range(S5!CASES) =
          {"nominal", "replay", "cross_generation", "altered_signature",
           "crash_prepared", "crash_consumed",
           "crash_after_effect_before_result", "torn_write"}
  BY DEF Range, S5!MECHANISMS, S5!CASES

\* run_stateless, with the frame it checks in each case.
LEMMA StatelessS5 ==
    ASSUME NEW m \in STATELESS, NEW c \in Range(S5!CASES)
    PROVE  Succeeds(m, c, InitTrial, S5!run_stateless(m, c))
<1> DEFINE once == Once(m)
           again == "RECOVERED_BY_REDISPATCH"
<1>1. S5!dispatch(m, S5!make_frame, S5!GENERATION, "raise") = once
  BY AlikeS5 DEF S5!dispatch, Once
<1>2. /\ "replay_accepted" \in FIELDS /\ "cross_generation_accepted" \in FIELDS
      /\ "altered_signature_accepted" \in FIELDS
  BY DEF FIELDS
<1>3. CASE c = "nominal"
  <2>1. S5!run_stateless(m, c) = once
    BY <1>1, <1>3 DEF S5!run_stateless
  <2> QED
    BY <1>2, <2>1, StatelessTrial
<1>4. CASE c = "replay"
  <2>1. S5!run_stateless(m, c)
           = once \o once \o <<Accepted("replay_accepted")>>
    BY <1>1, <1>4, AlikeS5 DEF S5!run_stateless
  <2> QED
    BY <1>2, <2>1, StatelessTrial
<1>5. CASE c \in {"crash_prepared", "crash_consumed"}
  <2>1. S5!run_stateless(m, c) = once \o <<Conclude(again)>>
    BY <1>1, <1>5, AlikeS5 DEF S5!run_stateless
  <2> QED
    BY <1>2, <2>1, StatelessTrial
<1>6. CASE c \in {"crash_after_effect_before_result", "torn_write"}
  <2>1. S5!run_stateless(m, c) = once \o once \o <<Conclude(again)>>
    BY <1>1, <1>6, AlikeS5 DEF S5!run_stateless
  <2> QED
    BY <1>2, <2>1, StatelessTrial
<1>7. CASE c = "cross_generation"
  <2> DEFINE op == Verify(make_frame, GENERATION + 1, "REJECTED_BINDING")
             last == Accepted("cross_generation_accepted")
  <2>1. Perform(InitTrial, op)
           = Raised(Concludes(InitTrial, "REJECTED_BINDING"), "returned")
    BY Frames
  <2>2. S5!run_stateless(m, c) =
           (IF m = "B1_AUTH_STATELESS" THEN <<op, Op("apply")>> ELSE once)
           \o <<last>>
    BY <1>7, AlikeS5 DEF S5!run_stateless, S5!dispatch, Once
  <2>3. m # "B1_AUTH_STATELESS" => Succeeds(m, c, InitTrial, once \o <<last>>)
    BY <1>2, StatelessTrial
  <2> HIDE DEF op, last, once
  <2>4. Succeeds(m, c, InitTrial, <<op, Op("apply")>> \o <<last>>)
    BY <1>7, <2>1, StatelessForged DEF REJECTED_CASES
  <2> QED
    BY <2>2, <2>3, <2>4
<1>8. CASE c = "altered_signature"
  <2> DEFINE op == Verify(mutate_signature(make_frame), GENERATION,
                          "REJECTED_SIGNATURE")
             last == Accepted("altered_signature_accepted")
  <2>1. Perform(InitTrial, op)
           = Raised(Concludes(InitTrial, "REJECTED_SIGNATURE"), "returned")
    BY Frames
  <2>2. S5!run_stateless(m, c) =
           (IF m = "B1_AUTH_STATELESS" THEN <<op, Op("apply")>> ELSE once)
           \o <<last>>
    BY <1>8, AlikeS5 DEF S5!run_stateless, S5!dispatch, Once
  <2>3. m # "B1_AUTH_STATELESS" => Succeeds(m, c, InitTrial, once \o <<last>>)
    BY <1>2, StatelessTrial
  <2> HIDE DEF op, last, once
  <2>4. Succeeds(m, c, InitTrial, <<op, Op("apply")>> \o <<last>>)
    BY <1>8, <2>1, StatelessForged DEF REJECTED_CASES
  <2> QED
    BY <2>2, <2>3, <2>4
<1> QED
  BY <1>3, <1>4, <1>5, <1>6, <1>7, <1>8, RangesS5

\* run_coordinated: B3 asks the sink by key.
LEMMA CoordinatedS5 ==
    ASSUME NEW m \in {"B2_AT_LEAST_ONCE", "B3_IDEMPOTENT"},
           NEW c \in Range(S5!CASES)
    PROVE  Succeeds(m, c, InitTrial, S5!run_coordinated(m, c))
<1> DEFINE A == IF m = "B3_IDEMPOTENT" THEN "apply_idempotent" ELSE "apply"
           prepared == Ops(<<"StateStore", "store_prepare">>)
           recovered == Ops(<<"StateStore", A, "store_result">>)
           ready == "RECOVERED_FROM_READY"
           unconsumed == "RECOVERED_FROM_READY_NO_CONSUMED_PHASE"
<1>1. Asks(m, A)
  BY DEF Asks, COORDINATED, APPLIES
<1>2. ready \in READY_DISPOSITIONS /\ unconsumed \in READY_DISPOSITIONS
  BY DEF READY_DISPOSITIONS
<1>3. CASE c \in REJECTED_CASES
  <2>1. S5!run_coordinated(m, c) = Authenticate(c) \o <<>>
    BY <1>3, AlikeS5 DEF S5!run_coordinated, REJECTED_CASES
  <2> QED
    BY <1>3, <2>1, ForgedSucceeds
<1>4. ASSUME NEW s, c \notin REJECTED_CASES,
             S5!run_coordinated(m, c) = Authenticate(c) \o (prepared \o s),
             \A t : Coord(t, A, 0, "READY") =>
                \E u : Reaches(m, t, s, u) /\ Running(u) /\ EndsWell(m, c, u)
      PROVE  Succeeds(m, c, InitTrial, S5!run_coordinated(m, c))
  <2> HIDE DEF A
  <2> QED
    BY <1>1, <1>4, CoordTrial
<1>5. CASE c = "crash_prepared"
  <2> DEFINE s == recovered \o <<Conclude(ready)>>
  <2>1. S5!run_coordinated(m, c) = Authenticate(c) \o (prepared \o s)
    BY <1>5, AlikeS5 DEF S5!run_coordinated
  <2>2. \A t : Coord(t, A, 0, "READY") =>
           \E u : Reaches(m, t, s, u) /\ Running(u) /\ EndsWell(m, c, u)
    BY <1>1, <1>2, CoordRecovers
  <2> QED
    BY <1>4, <1>5, <2>1, <2>2 DEF REJECTED_CASES
<1>6. CASE c = "crash_consumed"
  <2> DEFINE s == recovered \o <<Conclude(unconsumed)>>
  <2>1. S5!run_coordinated(m, c) = Authenticate(c) \o (prepared \o s)
    BY <1>6, AlikeS5 DEF S5!run_coordinated
  <2>2. \A t : Coord(t, A, 0, "READY") =>
           \E u : Reaches(m, t, s, u) /\ Running(u) /\ EndsWell(m, c, u)
    BY <1>1, <1>2, CoordRecovers
  <2> QED
    BY <1>4, <1>6, <2>1, <2>2 DEF REJECTED_CASES
<1>7. CASE c = "crash_after_effect_before_result"
  <2> DEFINE s == (<<Op(A)>> \o recovered) \o <<Conclude(ready)>>
  <2>1. S5!run_coordinated(m, c) = Authenticate(c) \o (prepared \o s)
    BY <1>7, AlikeS5 DEF S5!run_coordinated
  <2>2. \A t : Coord(t, A, 0, "READY") =>
           \E u : Reaches(m, t, s, u) /\ Running(u) /\ EndsWell(m, c, u)
    BY <1>1, <1>2, CoordAmbiguous
  <2> QED
    BY <1>4, <1>7, <2>1, <2>2 DEF REJECTED_CASES
<1>8. CASE c = "torn_write"
  <2> DEFINE s == Ops(<<A, "store_corrupt">>)
                  \o <<<<"store_torn", "BLOCKED_TORN_LEDGER">>>>
  <2>1. S5!run_coordinated(m, c) = Authenticate(c) \o (prepared \o s)
    BY <1>8, AlikeS5 DEF S5!run_coordinated
  <2>2. \A t : Coord(t, A, 0, "READY") =>
           \E u : Reaches(m, t, s, u) /\ Running(u) /\ EndsWell(m, c, u)
    BY <1>1, CoordBlocked
  <2> QED
    BY <1>4, <1>8, <2>1, <2>2 DEF REJECTED_CASES
<1>9. CASE c = "nominal"
  <2> DEFINE s == Ops(<<A, "store_result">>)
  <2>1. S5!run_coordinated(m, c) = Authenticate(c) \o (prepared \o s)
    BY <1>9, AlikeS5 DEF S5!run_coordinated
  <2>2. \A t : Coord(t, A, 0, "READY") =>
           \E u : Reaches(m, t, s, u) /\ Running(u) /\ EndsWell(m, c, u)
    BY <1>1, CoordNominal
  <2> QED
    BY <1>4, <1>9, <2>1, <2>2 DEF REJECTED_CASES
<1>10. CASE c = "replay"
  <2> DEFINE s == Ops(<<A, "store_result", "store_replay">>)
  <2>1. S5!run_coordinated(m, c) = Authenticate(c) \o (prepared \o s)
    BY <1>10, AlikeS5 DEF S5!run_coordinated
  <2>2. \A t : Coord(t, A, 0, "READY") =>
           \E u : Reaches(m, t, s, u) /\ Running(u) /\ EndsWell(m, c, u)
    BY <1>1, CoordNominal
  <2> QED
    BY <1>4, <1>10, <2>1, <2>2 DEF REJECTED_CASES
<1> QED
  BY <1>3, <1>5, <1>6, <1>7, <1>8, <1>9, <1>10, RangesS5 DEF REJECTED_CASES

\* run_oasi.
LEMMA OasiS5 ==
    ASSUME NEW c \in Range(S5!CASES)
    PROVE  Succeeds("OASI", c, InitTrial, S5!run_oasi(c))
<1> DEFINE prepared == Ops(<<"Ledger", "ledger_prepare">>)
           finished == Ops(<<"ledger_consume", "apply",
                             "ledger_record_result", "ledger_terminal">>)
           block == "BLOCK_NO_REDISPATCH"
           Ends(s) == \A t : Broker(t, 0, "PREPARED") =>
              \E u : /\ Reaches("OASI", t, s, u) /\ Running(u)
                     /\ EndsWell("OASI", c, u)
<1>1. recovery_action("CONSUMED") = block
  BY DEF recovery_action
<1>2. ASSUME NEW s, c \notin REJECTED_CASES, Ends(s),
             S5!run_oasi(c) = Authenticate(c) \o (prepared \o s)
      PROVE  Succeeds("OASI", c, InitTrial, S5!run_oasi(c))
  BY <1>2, BrokerTrial
<1>3. CASE c \in REJECTED_CASES
  <2>1. S5!run_oasi(c) = Authenticate(c) \o <<>>
    BY <1>3, AlikeS5 DEF S5!run_oasi, REJECTED_CASES
  <2> QED
    BY <1>3, <2>1, ForgedSucceeds
<1>4. CASE c = "crash_prepared"
  <2> DEFINE s == <<Recover("ABORT_WITHOUT_EFFECT", "ABORT_WITHOUT_EFFECT")>>
  <2>1. S5!run_oasi(c) = Authenticate(c) \o (prepared \o s)
    BY <1>4, AlikeS5 DEF S5!run_oasi
  <2>2. Ends(s)
    BY BrokerAborts
  <2> QED
    BY <1>2, <1>4, <2>1, <2>2 DEF REJECTED_CASES
<1>5. CASE c = "crash_consumed"
  <2> DEFINE s == <<Op("ledger_consume"), Recover(block, block)>>
  <2>1. S5!run_oasi(c) = Authenticate(c) \o (prepared \o s)
    BY <1>5, AlikeS5 DEF S5!run_oasi
  <2>2. Ends(s)
    BY <1>1, BrokerBlocks
  <2> QED
    BY <1>2, <1>5, <2>1, <2>2 DEF REJECTED_CASES
<1>6. CASE c = "crash_after_effect_before_result"
  <2> DEFINE s == <<Op("ledger_consume"), Op("apply"), Recover(block, block)>>
  <2>1. S5!run_oasi(c) = Authenticate(c) \o (prepared \o s)
    BY <1>6, AlikeS5 DEF S5!run_oasi
  <2>2. Ends(s)
    BY <1>1, BrokerBlocks
  <2> QED
    BY <1>2, <1>6, <2>1, <2>2 DEF REJECTED_CASES
<1>7. CASE c = "torn_write"
  <2> DEFINE s == Ops(<<"ledger_consume", "apply", "ledger_torn">>)
  <2>1. S5!run_oasi(c) = Authenticate(c) \o (prepared \o s)
    BY <1>7, AlikeS5 DEF S5!run_oasi
  <2>2. Ends(s)
    BY BrokerBlocked
  <2> QED
    BY <1>2, <1>7, <2>1, <2>2 DEF REJECTED_CASES
<1>8. CASE c = "nominal"
  <2> DEFINE s == finished \o <<>>
  <2>1. S5!run_oasi(c) = Authenticate(c) \o (prepared \o s)
    BY <1>8, AlikeS5 DEF S5!run_oasi
  <2>2. Ends(s)
    BY BrokerFinishes
  <2> QED
    BY <1>2, <1>8, <2>1, <2>2 DEF REJECTED_CASES
<1>9. CASE c = "replay"
  <2> DEFINE s == finished \o Ops(<<"ledger_replay">>)
  <2>1. S5!run_oasi(c) = Authenticate(c) \o (prepared \o s)
    BY <1>9, AlikeS5 DEF S5!run_oasi
  <2>2. Ends(s)
    BY BrokerFinishes
  <2> QED
    BY <1>2, <1>9, <2>1, <2>2 DEF REJECTED_CASES
<1> QED
  BY <1>3, <1>4, <1>5, <1>6, <1>7, <1>8, <1>9, RangesS5 DEF REJECTED_CASES

\* Every trial of S5 ends well.
LEMMA ScriptsS5 ==
    ASSUME NEW m \in Range(S5!MECHANISMS), NEW c \in Range(S5!CASES)
    PROVE  Succeeds(m, c, InitTrial, S5!Script(m, c))
<1>1. CASE m \in STATELESS
  <2>1. S5!Script(m, c) = S5!run_stateless(m, c)
    BY <1>1 DEF S5!Script, STATELESS
  <2> QED
    BY <1>1, <2>1, StatelessS5
<1>2. CASE m \in {"B2_AT_LEAST_ONCE", "B3_IDEMPOTENT"}
  <2>1. S5!Script(m, c) = S5!run_coordinated(m, c)
    BY <1>2 DEF S5!Script
  <2> QED
    BY <1>2, <2>1, CoordinatedS5
<1>3. CASE m = "OASI"
  <2>1. S5!Script(m, c) = S5!run_oasi(c)
    BY <1>3 DEF S5!Script
  <2> QED
    BY <1>3, <2>1, OasiS5
<1> QED
  BY <1>1, <1>2, <1>3, RangesS5 DEF STATELESS

-----------------------------------------------------------------------------
(* The scripts of S6.                                                      *)

\* The operations that the module of the experiment names are those here.
LEMMA AlikeS6 ==
    /\ \A x : /\ S6!Op(x) = Op(x) /\ S6!Conclude(x) = Conclude(x)
              /\ S6!Accepted(x) = Accepted(x) /\ S6!Ops(x) = Ops(x)
              /\ S6!mutate_signature(x) = mutate_signature(x)
              /\ S6!Authenticate(x) = Authenticate(x)
    /\ \A x, y : S6!Recover(x, y) = Recover(x, y)
    /\ \A x, y, z : S6!Verify(x, y, z) = Verify(x, y, z)
    /\ S6!GENERATION = GENERATION /\ S6!make_frame = make_frame
<1>1. /\ \A x : /\ S6!Op(x) = Op(x) /\ S6!Conclude(x) = Conclude(x)
                /\ S6!Accepted(x) = Accepted(x)
      /\ \A x, y : S6!Recover(x, y) = Recover(x, y)
      /\ \A x, y, z : S6!Verify(x, y, z) = Verify(x, y, z)
  BY DEF S6!Op, Op, S6!Conclude, Conclude, S6!Accepted, Accepted,
         S6!Recover, Recover, S6!Verify, Verify
<1>2. \A x : S6!Ops(x) = Ops(x)
  BY <1>1 DEF S6!Ops, Ops
<1>3. \A x : S6!mutate_signature(x) = mutate_signature(x)
  BY DEF S6!mutate_signature, mutate_signature
<1>4. S6!GENERATION = GENERATION /\ S6!make_frame = make_frame
  BY DEF S6!GENERATION, GENERATION, S6!make_frame, make_frame,
         S6!BINDING, BINDING
<1>5. \A x : S6!Authenticate(x) = Authenticate(x)
  BY <1>1, <1>3, <1>4 DEF S6!Authenticate, Authenticate
<1> QED
  BY <1>1, <1>2, <1>3, <1>4, <1>5

\* The mechanisms and the cases of S6.
LEMMA RangesS6 ==
    /\ Range(S6!MECHANISMS) =
          {"B0_DIRECT", "B1_AUTH_STATELESS", "B2_AT_LEAST_ONCE",
           "B3_IDEMPOTENT_UNAVAILABLE", "OASI"}
    /\ Range(S6!CASES) =
          {"nominal", "replay", "cross_generation", "altered_signature",
           "crash_prepared", "crash_consumed_before_effect",
           "disconnect_before_effect", "disconnect_after_effect",
           "ack_lost_after_effect", "torn_write_after_effect"}
  BY DEF Range, S6!MECHANISMS, S6!CASES

\* run_stateless, with the frame it checks in each case.
LEMMA StatelessS6 ==
    ASSUME NEW m \in STATELESS, NEW c \in Range(S6!CASES)
    PROVE  Succeeds(m, c, InitTrial, S6!run_stateless(m, c))
<1> USE DEF S6!PRE_EFFECT_UNCERTAINTY_CASES,
            S6!PRIMARY_AMBIGUOUS_POST_EFFECT_CASES
<1> DEFINE once == Once(m)
           again == "RECOVERED_BY_REDISPATCH"
           ambiguous == "AMBIGUOUS_RECOVERED_BY_REDISPATCH"
           before == {"crash_prepared", "crash_consumed_before_effect",
                      "disconnect_before_effect"}
           after == {"disconnect_after_effect", "ack_lost_after_effect",
                     "torn_write_after_effect"}
<1>1. S6!dispatch(m, S6!make_frame, S6!GENERATION, "raise") = once
  BY AlikeS6 DEF S6!dispatch, Once
<1>2. /\ "replay_accepted" \in FIELDS /\ "cross_generation_accepted" \in FIELDS
      /\ "altered_signature_accepted" \in FIELDS
  BY DEF FIELDS
<1>3. CASE c = "nominal"
  <2>1. S6!run_stateless(m, c) = once
    BY <1>1, <1>3 DEF S6!run_stateless
  <2> QED
    BY <1>2, <2>1, StatelessTrial
<1>4. CASE c = "replay"
  <2>1. S6!run_stateless(m, c)
           = once \o once \o <<Accepted("replay_accepted")>>
    BY <1>1, <1>4, AlikeS6 DEF S6!run_stateless
  <2> QED
    BY <1>2, <2>1, StatelessTrial
<1>5. CASE c \in before
  <2>1. S6!run_stateless(m, c) = once \o <<Conclude(again)>>
    BY <1>1, <1>5, AlikeS6 DEF S6!run_stateless
  <2> QED
    BY <1>2, <2>1, StatelessTrial
<1>6. CASE c \in after
  <2>1. S6!run_stateless(m, c) = once \o once \o <<Conclude(ambiguous)>>
    BY <1>1, <1>6, AlikeS6 DEF S6!run_stateless
  <2> QED
    BY <1>2, <2>1, StatelessTrial
<1>7. CASE c = "cross_generation"
  <2> DEFINE op == Verify(make_frame, GENERATION + 1, "REJECTED_BINDING")
             last == Accepted("cross_generation_accepted")
  <2>1. Perform(InitTrial, op)
           = Raised(Concludes(InitTrial, "REJECTED_BINDING"), "returned")
    BY Frames
  <2>2. S6!run_stateless(m, c) =
           (IF m = "B1_AUTH_STATELESS" THEN <<op, Op("apply")>> ELSE once)
           \o <<last>>
    BY <1>7, AlikeS6 DEF S6!run_stateless, S6!dispatch, Once
  <2>3. m # "B1_AUTH_STATELESS" => Succeeds(m, c, InitTrial, once \o <<last>>)
    BY <1>2, StatelessTrial
  <2> HIDE DEF op, last, once
  <2>4. Succeeds(m, c, InitTrial, <<op, Op("apply")>> \o <<last>>)
    BY <1>7, <2>1, StatelessForged DEF REJECTED_CASES
  <2> QED
    BY <2>2, <2>3, <2>4
<1>8. CASE c = "altered_signature"
  <2> DEFINE op == Verify(mutate_signature(make_frame), GENERATION,
                          "REJECTED_SIGNATURE")
             last == Accepted("altered_signature_accepted")
  <2>1. Perform(InitTrial, op)
           = Raised(Concludes(InitTrial, "REJECTED_SIGNATURE"), "returned")
    BY Frames
  <2>2. S6!run_stateless(m, c) =
           (IF m = "B1_AUTH_STATELESS" THEN <<op, Op("apply")>> ELSE once)
           \o <<last>>
    BY <1>8, AlikeS6 DEF S6!run_stateless, S6!dispatch, Once
  <2>3. m # "B1_AUTH_STATELESS" => Succeeds(m, c, InitTrial, once \o <<last>>)
    BY <1>2, StatelessTrial
  <2> HIDE DEF op, last, once
  <2>4. Succeeds(m, c, InitTrial, <<op, Op("apply")>> \o <<last>>)
    BY <1>8, <2>1, StatelessForged DEF REJECTED_CASES
  <2> QED
    BY <2>2, <2>3, <2>4
<1> QED
  BY <1>3, <1>4, <1>5, <1>6, <1>7, <1>8, RangesS6

\* run_coordinated, with the sink that knows no key.
LEMMA CoordinatedS6 ==
    ASSUME NEW m \in {"B2_AT_LEAST_ONCE", "B3_IDEMPOTENT_UNAVAILABLE"},
           NEW c \in Range(S6!CASES)
    PROVE  Succeeds(m, c, InitTrial, S6!run_coordinated(c))
<1> USE DEF S6!PRE_EFFECT_UNCERTAINTY_CASES,
            S6!PRIMARY_AMBIGUOUS_POST_EFFECT_CASES
<1> DEFINE A == "apply"
           prepared == Ops(<<"StateStore", "store_prepare">>)
           ready == "RECOVERED_FROM_READY"
           ambiguous == "AMBIGUOUS_RECOVERED_FROM_READY"
           Ends(s) == \A t : Coord(t, A, 0, "READY") =>
              \E u : Reaches(m, t, s, u) /\ Running(u) /\ EndsWell(m, c, u)
<1>1. Asks(m, A)
  BY DEF Asks, COORDINATED, APPLIES
<1>2. ready \in READY_DISPOSITIONS /\ ambiguous \in READY_DISPOSITIONS
  BY DEF READY_DISPOSITIONS
<1>3. CASE c \in REJECTED_CASES
  <2>1. S6!run_coordinated(c) = Authenticate(c) \o <<>>
    BY <1>3, AlikeS6 DEF S6!run_coordinated, REJECTED_CASES
  <2> QED
    BY <1>3, <2>1, ForgedSucceeds
<1>4. ASSUME NEW s, c \notin REJECTED_CASES, Ends(s),
             S6!run_coordinated(c) = Authenticate(c) \o (prepared \o s)
      PROVE  Succeeds(m, c, InitTrial, S6!run_coordinated(c))
  <2> HIDE DEF A
  <2> QED
    BY <1>1, <1>4, CoordTrial
<1>5. CASE c \in {"crash_prepared", "crash_consumed_before_effect",
                "disconnect_before_effect"}
  <2> DEFINE s == Ops(<<"StateStore", A, "store_result">>)
                  \o <<Conclude(ready)>>
  <2>1. S6!run_coordinated(c) = Authenticate(c) \o (prepared \o s)
    BY <1>5, AlikeS6 DEF S6!run_coordinated
  <2>2. Ends(s)
    BY <1>1, <1>2, CoordRecovers
  <2> QED
    BY <1>4, <1>5, <2>1, <2>2 DEF REJECTED_CASES
<1>6. CASE c \in {"disconnect_after_effect", "ack_lost_after_effect"}
  <2> DEFINE s == Ops(<<A, "StateStore", A, "store_result">>)
                  \o <<Conclude(ambiguous)>>
  <2>1. S6!run_coordinated(c) = Authenticate(c) \o (prepared \o s)
    BY <1>6, AlikeS6 DEF S6!run_coordinated
  <2>2. Ends(s)
    BY <1>1, <1>2, CoordAmbiguous
  <2> QED
    BY <1>4, <1>6, <2>1, <2>2 DEF REJECTED_CASES
<1>7. CASE c = "torn_write_after_effect"
  <2> DEFINE s == Ops(<<A, "store_corrupt">>)
                  \o <<<<"store_torn", "BLOCKED_TORN_COORDINATOR">>>>
  <2>1. S6!run_coordinated(c) = Authenticate(c) \o (prepared \o s)
    BY <1>7, AlikeS6 DEF S6!run_coordinated
  <2>2. Ends(s)
    BY <1>1, <1>2, CoordBlocked
  <2> QED
    BY <1>4, <1>7, <2>1, <2>2 DEF REJECTED_CASES
<1>8. CASE c = "nominal"
  <2> DEFINE s == Ops(<<A, "store_result">>)
  <2>1. S6!run_coordinated(c) = Authenticate(c) \o (prepared \o s)
    BY <1>8, AlikeS6 DEF S6!run_coordinated
  <2>2. Ends(s)
    BY <1>1, <1>2, CoordNominal
  <2> QED
    BY <1>4, <1>8, <2>1, <2>2 DEF REJECTED_CASES
<1>9. CASE c = "replay"
  <2> DEFINE s == Ops(<<A, "store_result", "store_replay">>)
  <2>1. S6!run_coordinated(c) = Authenticate(c) \o (prepared \o s)
    BY <1>9, AlikeS6 DEF S6!run_coordinated
  <2>2. Ends(s)
    BY <1>1, <1>2, CoordNominal
  <2> QED
    BY <1>4, <1>9, <2>1, <2>2 DEF REJECTED_CASES
<1> QED
  BY <1>3, <1>5, <1>6, <1>7, <1>8, <1>9, RangesS6 DEF REJECTED_CASES

\* run_oasi.
LEMMA OasiS6 ==
    ASSUME NEW c \in Range(S6!CASES)
    PROVE  Succeeds("OASI", c, InitTrial, S6!run_oasi(c))
<1> USE DEF S6!PRE_EFFECT_UNCERTAINTY_CASES,
            S6!PRIMARY_AMBIGUOUS_POST_EFFECT_CASES
<1> DEFINE prepared == Ops(<<"Ledger", "ledger_prepare">>)
           finished == Ops(<<"ledger_consume", "apply",
                             "ledger_record_result", "ledger_terminal">>)
           block == "BLOCK_NO_REDISPATCH"
           lost == "BLOCK_NO_REDISPATCH_DELIVERY_LOST"
           Ends(s) == \A t : Broker(t, 0, "PREPARED") =>
              \E u : /\ Reaches("OASI", t, s, u) /\ Running(u)
                     /\ EndsWell("OASI", c, u)
<1>1. recovery_action("CONSUMED") = block
  BY DEF recovery_action
<1>2. ASSUME NEW s, c \notin REJECTED_CASES, Ends(s),
             S6!run_oasi(c) = Authenticate(c) \o (prepared \o s)
      PROVE  Succeeds("OASI", c, InitTrial, S6!run_oasi(c))
  BY <1>2, BrokerTrial
<1>3. CASE c \in REJECTED_CASES
  <2>1. S6!run_oasi(c) = Authenticate(c) \o <<>>
    BY <1>3, AlikeS6 DEF S6!run_oasi, REJECTED_CASES
  <2> QED
    BY <1>3, <2>1, ForgedSucceeds
<1>4. CASE c = "crash_prepared"
  <2> DEFINE s == <<Recover("ABORT_WITHOUT_EFFECT", "ABORT_WITHOUT_EFFECT")>>
  <2>1. S6!run_oasi(c) = Authenticate(c) \o (prepared \o s)
    BY <1>4, AlikeS6 DEF S6!run_oasi
  <2>2. Ends(s)
    BY BrokerAborts
  <2> QED
    BY <1>2, <1>4, <2>1, <2>2 DEF REJECTED_CASES
<1>5. CASE c \in {"crash_consumed_before_effect", "disconnect_before_effect"}
  <2> DEFINE s == <<Op("ledger_consume"), Recover(block, lost)>>
  <2>1. S6!run_oasi(c) = Authenticate(c) \o (prepared \o s)
    BY <1>5, AlikeS6 DEF S6!run_oasi
  <2>2. Ends(s)
    BY <1>1, BrokerBlocks
  <2> QED
    BY <1>2, <1>5, <2>1, <2>2 DEF REJECTED_CASES
<1>6. CASE c \in {"disconnect_after_effect", "ack_lost_after_effect"}
  <2> DEFINE s == <<Op("ledger_consume"), Op("apply"), Recover(block, block)>>
  <2>1. S6!run_oasi(c) = Authenticate(c) \o (prepared \o s)
    BY <1>6, AlikeS6 DEF S6!run_oasi
  <2>2. Ends(s)
    BY <1>1, BrokerBlocks
  <2> QED
    BY <1>2, <1>6, <2>1, <2>2 DEF REJECTED_CASES
<1>7. CASE c = "torn_write_after_effect"
  <2> DEFINE s == Ops(<<"ledger_consume", "apply", "ledger_torn">>)
  <2>1. S6!run_oasi(c) = Authenticate(c) \o (prepared \o s)
    BY <1>7, AlikeS6 DEF S6!run_oasi
  <2>2. Ends(s)
    BY BrokerBlocked
  <2> QED
    BY <1>2, <1>7, <2>1, <2>2 DEF REJECTED_CASES
<1>8. CASE c = "nominal"
  <2> DEFINE s == finished \o <<>>
  <2>1. S6!run_oasi(c) = Authenticate(c) \o (prepared \o s)
    BY <1>8, AlikeS6 DEF S6!run_oasi
  <2>2. Ends(s)
    BY BrokerFinishes
  <2> QED
    BY <1>2, <1>8, <2>1, <2>2 DEF REJECTED_CASES
<1>9. CASE c = "replay"
  <2> DEFINE s == finished \o Ops(<<"ledger_replay">>)
  <2>1. S6!run_oasi(c) = Authenticate(c) \o (prepared \o s)
    BY <1>9, AlikeS6 DEF S6!run_oasi
  <2>2. Ends(s)
    BY BrokerFinishes
  <2> QED
    BY <1>2, <1>9, <2>1, <2>2 DEF REJECTED_CASES
<1> QED
  BY <1>3, <1>4, <1>5, <1>6, <1>7, <1>8, <1>9, RangesS6 DEF REJECTED_CASES

\* Every trial of S6 ends well.
LEMMA ScriptsS6 ==
    ASSUME NEW m \in Range(S6!MECHANISMS), NEW c \in Range(S6!CASES)
    PROVE  Succeeds(m, c, InitTrial, S6!Script(m, c))
<1>1. CASE m \in STATELESS
  <2>1. S6!Script(m, c) = S6!run_stateless(m, c)
    BY <1>1 DEF S6!Script, STATELESS
  <2> QED
    BY <1>1, <2>1, StatelessS6
<1>2. CASE m \in {"B2_AT_LEAST_ONCE", "B3_IDEMPOTENT_UNAVAILABLE"}
  <2>1. S6!Script(m, c) = S6!run_coordinated(c)
    BY <1>2 DEF S6!Script
  <2> QED
    BY <1>2, <2>1, CoordinatedS6
<1>3. CASE m = "OASI"
  <2>1. S6!Script(m, c) = S6!run_oasi(c)
    BY <1>3 DEF S6!Script
  <2> QED
    BY <1>3, <2>1, OasiS6
<1> QED
  BY <1>1, <1>2, <1>3, RangesS6 DEF STATELESS

-----------------------------------------------------------------------------
(* The invariant.                                                          *)

(* What is left of the script brings the trial to a good end; what has     *)
(* ended, ended well.  It holds at the start because each script was taken *)
(* apart above, and an operation takes its first piece off.                *)
IInv ==
    /\ experiment \in {"s5", "s6"} /\ trial \in Trial
    /\ trial.status \in {"running", "returned"} =>
          Succeeds(mechanism, case, trial, script)
    /\ trial.status = "recorded" => EndsWell(mechanism, case, trial)

\* A trial that is to end well is on its way or has returned; it has ended
\* well when its script is over or it has returned.
LEMMA Stops ==
    ASSUME NEW m, NEW c, NEW t, NEW s, Succeeds(m, c, t, s)
    PROVE  /\ t.status \in {"running", "returned"}
           /\ t.status = "returned" \/ s = <<>> => EndsWell(m, c, t)
<1>1. PICK notes \in Seq(Trial) :
         /\ Path(m, s, notes) /\ notes[1] = t
         /\ EndsWell(m, c, notes[Len(notes)])
         /\ \/ /\ notes[Len(notes)].status = "running"
               /\ Len(notes) = Len(s) + 1
            \/ notes[Len(notes)].status = "returned"
  BY DEF Succeeds
<1>2. PICK S : s \in Seq(S)
  BY DEF Succeeds, IsScript
<1>3. Len(s) \in Nat /\ Len(notes) \in 1..(Len(s) + 1)
  BY <1>1, <1>2 DEF Path
<1>4. CASE Len(notes) = 1
  BY <1>1, <1>4
<1>5. CASE Len(notes) # 1
  <2>1. \A k, n \in Nat : k \in 1..(n + 1) /\ k # 1 => 1 \in 1..(k - 1)
    OBVIOUS
  <2>2. Len(notes) \in Nat
    BY <1>1
  <2>3. 1 \in 1..(Len(notes) - 1)
    BY <1>3, <1>5, <2>1, <2>2
  <2>4. Leads(m, notes[1], s[1], notes[1 + 1])
    BY <1>1, <2>3 DEF Path
  <2>5. t.status = "running"
    BY <1>1, <2>4 DEF Leads, Running
  <2>6. s # <<>>
    <3>1. \A k, n \in Nat : k \in 1..(n + 1) /\ k # 1 => n # 0
      OBVIOUS
    <3>2. Len(s) # 0
      BY <1>3, <1>5, <2>2, <3>1
    <3> QED
      BY <3>2
  <2> QED
    BY <2>5, <2>6
<1> QED
  BY <1>4, <1>5

\* validate_record accepts the record of a trial that ended well.
LEMMA Accepts ==
    ASSUME NEW m, NEW c, NEW t \in Trial, EndsWell(m, c, t)
    PROVE  /\ S5!validate_record(S5!Record(m, c, 1, t))
           /\ S6!validate_record(S6!Record(m, c, 1, t))
<1>1. t.effects \in Nat /\ (m = "OASI" => t.effects <= 1 /\ Clean(t))
  BY DEF EndsWell, Trial
<1>2. m = "OASI" => ~(t.effects > 1)
  BY <1>1
<1>3. S5!validate_record(S5!Record(m, c, 1, t))
  BY <1>1, <1>2 DEF S5!validate_record, S5!Record, Clean
<1>4. S6!validate_record(S6!Record(m, c, 1, t))
  BY <1>1, <1>2 DEF S6!validate_record, S6!Record, Clean
<1> QED
  BY <1>3, <1>4

\* A trial starts with its whole script.
LEMMA Initially == Init => IInv
<1> SUFFICES ASSUME Init PROVE IInv
  OBVIOUS
<1>1. /\ trial = InitTrial /\ trial \in Trial /\ trial.status = "running"
      /\ experiment \in {"s5", "s6"}
  BY Beginning DEF Init, Running
<1>2. CASE experiment = "s5"
  <2>1. /\ mechanism \in Range(S5!MECHANISMS) /\ case \in Range(S5!CASES)
        /\ script = S5!Script(mechanism, case)
    BY <1>2 DEF Init
  <2> QED
    BY <1>1, <2>1, ScriptsS5 DEF IInv
<1>3. CASE experiment = "s6"
  <2>1. /\ mechanism \in Range(S6!MECHANISMS) /\ case \in Range(S6!CASES)
        /\ script = S6!Script(mechanism, case)
    BY <1>3 DEF Init
  <2> QED
    BY <1>1, <2>1, ScriptsS6 DEF IInv
<1> QED
  BY <1>1, <1>2, <1>3

\* An operation of the script.
LEMMA OperationKeeps ==
    ASSUME IInv, Operation
    PROVE  /\ IInv'
           /\ Leads(mechanism, trial, Head(script), trial')
<1>1. /\ trial.status = "running" /\ script # <<>>
      /\ trial' = Perform(trial, Head(script)) /\ script' = Tail(script)
      /\ mechanism' = mechanism /\ case' = case /\ experiment' = experiment
  BY DEF Operation
<1>2. Succeeds(mechanism, case, trial, script)
  BY <1>1 DEF IInv
<1>3. /\ Leads(mechanism, trial, Head(script), trial')
      /\ Succeeds(mechanism, case, trial', Tail(script))
  BY <1>1, <1>2, Advance
<1>4. trial' \in Trial
  BY <1>3 DEF Leads
<1>5. trial'.status \in {"running", "returned"}
  BY <1>3, Stops
<1> QED
  BY <1>1, <1>3, <1>4, <1>5 DEF IInv

\* run_one accepts the record.
LEMMA RunOneKeeps ==
    ASSUME IInv, run_one
    PROVE  /\ IInv'
           /\ trial' = Raised(trial, "recorded")
<1>1. /\ \/ trial.status = "running" /\ script = <<>>
         \/ trial.status = "returned"
      /\ mechanism' = mechanism /\ case' = case /\ experiment' = experiment
  BY DEF run_one
<1>2. trial \in Trial /\ Succeeds(mechanism, case, trial, script)
  BY <1>1 DEF IInv
<1>3. EndsWell(mechanism, case, trial)
  BY <1>1, <1>2, Stops
<1>4. /\ S5!validate_record(S5!Record(mechanism, case, 1, trial))
      /\ S6!validate_record(S6!Record(mechanism, case, 1, trial))
  BY <1>2, <1>3, Accepts
<1>5. trial' = Raised(trial, "recorded")
  BY <1>4 DEF run_one, Raised
<1> DEFINE u == Raised(trial, "recorded")
<1>6. /\ u \in Trial /\ u.status = "recorded" /\ u.effects = trial.effects
      /\ u.store = trial.store /\ u.ledger = trial.ledger
      /\ u.outcome = trial.outcome
  BY <1>2, RaisedOnly DEF STATUSES
<1> HIDE DEF u
<1>7. EndsWell(mechanism, case, u)
  BY <1>3, <1>6 DEF EndsWell, Truthful, Clean, Delivers
<1>8. trial' = u
  BY <1>5 DEF u
<1>9. experiment \in {"s5", "s6"}
  BY DEF IInv
<1> QED
  BY <1>1, <1>5, <1>6, <1>7, <1>8, <1>9 DEF IInv

\* Every step keeps the invariant.
LEMMA Steps == IInv /\ [Next]_vars => IInv'
<1> SUFFICES ASSUME IInv, [Next]_vars PROVE IInv'
  OBVIOUS
<1>1. CASE Operation
  BY <1>1, OperationKeeps
<1>2. CASE run_one
  BY <1>2, RunOneKeeps
<1>3. CASE UNCHANGED vars
  BY <1>3 DEF IInv, vars
<1> QED
  BY <1>1, <1>2, <1>3 DEF Next, Ended

(* Every state of a trial, and of every prefix of it that a staged crash   *)
(* leaves, can still end well (the run_* functions of S5 and S6).          *)
THEOREM Invariance == Spec => []IInv
  BY Initially, Steps, PTL DEF Spec

-----------------------------------------------------------------------------
(* The properties.                                                         *)

(* No trial fails one of its own checks (the raise statements of run_*,    *)
(* run_one and validate_record).                                           *)
THEOREM TrialsPass == Spec => []ChecksHold
<1>1. IInv => ChecksHold
  BY DEF IInv, ChecksHold, Trial, STATUSES
<1> QED
  BY <1>1, Invariance, PTL

(* A record's disposition agrees with the effects and the databases that   *)
(* the trial left.                                                         *)
THEOREM RecordsAreTruthful == Spec => []DispositionTruthful
<1>1. IInv => DispositionTruthful
  BY DEF IInv, DispositionTruthful, EndsWell, Truthful
<1> QED
  BY <1>1, Invariance, PTL

(* The at-least-once baselines deliver in every case but the forged        *)
(* frames, and the idempotent one delivers exactly once (run_coordinated). *)
THEOREM BaselinesDeliver == Spec => []BaselineGuarantee
<1>1. IInv => BaselineGuarantee
  BY DEF IInv, BaselineGuarantee, EndsWell, Delivers
<1> QED
  BY <1>1, Invariance, PTL

(* The OASI trials of both experiments implement the one-shot attempt that *)
(* the broker implements (run_oasi).                                       *)
THEOREM TrialsAreOneShot == Spec => OneAttempt
<1> DEFINE a == Oasi(Attempt(trial.ledger.state), "open")
           n == Oasi(trial.effects, 0)
<1>1. Init => Shot!Init
  BY Beginning DEF Init, Shot!Init, Oasi, NoFile, Attempt
<1>2. IInv /\ [Next]_vars => [Shot!Next]_<<a, n>>
  <2> SUFFICES ASSUME IInv, [Next]_vars
               PROVE  Shot!Next \/ UNCHANGED <<a, n>>
    OBVIOUS
  <2>1. CASE Operation
    <3>1. /\ mechanism' = mechanism
          /\ Leads(mechanism, trial, Head(script), trial')
      BY <2>1, OperationKeeps DEF Operation
    <3>2. CASE mechanism # "OASI"
      BY <3>1, <3>2 DEF Oasi
    <3>3. CASE mechanism = "OASI"
      <4>1. ShotStep(trial, trial')
        BY <3>1, <3>3 DEF Leads
      <4>2. /\ a = Attempt(trial.ledger.state) /\ n = trial.effects
            /\ a' = Attempt(trial'.ledger.state) /\ n' = trial'.effects
        BY <3>1, <3>3 DEF Oasi
      <4> QED
        BY <4>1, <4>2
        DEF ShotStep, Shot!Next, Shot!Consume, Shot!Perform, Shot!Record
    <3> QED
      BY <3>2, <3>3
  <2>2. CASE run_one
    <3>1. mechanism' = mechanism /\ trial' = Raised(trial, "recorded")
      BY <2>2, RunOneKeeps DEF run_one
    <3>2. trial'.effects = trial.effects /\ trial'.ledger = trial.ledger
      BY <3>1, RaisedOnly DEF IInv, STATUSES
    <3> QED
      BY <3>1, <3>2 DEF Oasi
  <2>3. CASE UNCHANGED vars
    BY <2>3 DEF vars, Oasi
  <2> QED
    BY <2>1, <2>2, <2>3 DEF Next, Ended
<1> QED
  BY <1>1, <1>2, Invariance, PTL DEF Spec, OneAttempt, Shot!Spec
=============================================================================
