---------------------------- MODULE LedgerProofs -----------------------------
(***************************************************************************)
(* Proofs about what the runtime writes into its ledger and about its      *)
(* counters, on top of the invariant of RuntimeProofs.                     *)
(***************************************************************************)
EXTENDS RuntimeProofs, SequenceTheorems, FiniteSetTheorems

(* The ledger still shows the BEGIN_ACTION of the transaction, under the   *)
(* lease and body in force, and nothing since but refused probes.          *)
BeginTrail ==
    \E b \in DOMAIN ledger :
        /\ ledger[b].event = "BEGIN_ACTION"
        /\ ledger[b].lease = active_lease
        /\ ledger[b].body = body
        /\ \A k \in (b + 1) .. Len(ledger) : ledger[k].event = "PROBE_REJECTED"

(* A pending transaction that captured a lease, and a WORK request in      *)
(* flight, have such a trail.                                              *)
TrailInv ==
    /\ pc \in Live /\ txn.pending /\ txn.captured_lease # NoLease => BeginTrail
    /\ pc = "ack" /\ expected.op = "WORK" => ~txn.pending /\ BeginTrail

CommitInv == CommitsAudited /\ TrailInv

\* A lease is absent or not newer than the body.
NotNewer(lease, b) ==
    lease # NoLease => /\ lease.generation <= b.generation
                       /\ lease.certificate <= b.certificate

\* No lease in the ledger is newer than the body.
LeaseOrder == \A j \in DOMAIN ledger : NotNewer(ledger[j].lease, body)

\* A rollback was accepted after the last quarantine.
RollbackTrail ==
    \E r \in DOMAIN ledger :
        /\ ledger[r].event = "ROLLBACK_ACK_ACCEPTED"
        /\ \A k \in r .. Len(ledger) : ledger[k].event # "QUARANTINE"

ProbeInv ==
    /\ pc = "hello" => ledger = <<>>
    /\ pc \in Live /\ rollback_confirmed => RollbackTrail
    /\ pc = "ack" /\ expected.op = "PROBE" =>
          /\ rollback_confirmed
          /\ Len(ledger) > 0 /\ ledger[Len(ledger)].event = "PROBE_REQUEST"
          /\ expected.id = body.certificate + 1

LeaseInv == LeasesAudited /\ LeaseOrder /\ ProbeInv

\* The counters, and what the transaction in flight will make of them.
CounterInv ==
    /\ CountersFit
    /\ stdin # <<>> /\ stdin[1].op = "WORK" => performed < U64_MAX
    /\ pc = "ack" /\ expected.op = "WORK" => expected.id <= U64_MAX
    /\ pc = "ack" /\ expected.op = "PROBE" =>
          expected.id <= U64_MAX /\ body.generation < U64_MAX

(* The metrics count the entries of the ledger, and each commit its        *)
(* acknowledgement, as long as the run goes on.                            *)
TallyInv ==
    /\ pc \in Live =>
          /\ Recorded("COMMIT") = metrics["allowed_commits"]
          /\ Recorded("QUARANTINE") = metrics["rollbacks"]
          /\ Recorded("ROLLBACK_ACK_ACCEPTED") = metrics["rollback_acks"]
          /\ metrics["verified_work_acks"] = metrics["allowed_commits"]
          /\ metrics["rollbacks"] = metrics["rollback_acks"]
                + (IF pc = "ack" /\ expected.op = "ROLLBACK" THEN 1 ELSE 0)
    /\ UnconfirmedEffectReported
    /\ DoneIsClean

HInv == CommitInv /\ LeaseInv /\ CounterInv /\ TallyInv

-----------------------------------------------------------------------------
(* What a handler adds to the ledger, in terms of positions.               *)

Kept == \A i \in 1 .. Len(ledger) : ledger'[i] = ledger[i]

Adds1(e) ==
    /\ Len(ledger') = Len(ledger) + 1
    /\ Kept
    /\ ledger'[Len(ledger) + 1] = e

Adds2(e, f) ==
    /\ Len(ledger') = Len(ledger) + 2
    /\ Kept
    /\ ledger'[Len(ledger) + 1] = e
    /\ ledger'[Len(ledger) + 2] = f

\* Entry e is recorded and the handler goes on to `next`, or it fails.
Wrote1(e, next) ==
    \/ Adds1(e) /\ pc' \in {next, "failed"}
    \/ ledger' = ledger /\ pc' = "failed"

\* Likewise for two entries.
Wrote2(e, f, next) ==
    \/ Adds2(e, f) /\ pc' \in {next, "failed"}
    \/ Adds1(e) /\ pc' = "failed"
    \/ ledger' = ledger /\ pc' = "failed"

\* The beginnings of sequences of one and two elements.
LEMMA Beginnings ==
    ASSUME NEW S, NEW e \in S, NEW f \in S
    PROVE  /\ SubSeq(<<e>>, 1, 0) = <<>> /\ SubSeq(<<e>>, 1, 1) = <<e>>
           /\ SubSeq(<<e, f>>, 1, 0) = <<>> /\ SubSeq(<<e, f>>, 1, 1) = <<e>>
           /\ SubSeq(<<e, f>>, 1, 2) = <<e, f>>
  <1>1. /\ <<e>> \in Seq(S) /\ Len(<<e>>) = 1
        /\ <<e, f>> \in Seq(S) /\ Len(<<e, f>>) = 2
        /\ <<e>>[1] = e /\ <<e, f>>[1] = e
    OBVIOUS
  <1>2. SubSeq(<<e>>, 1, 1) = <<e>> /\ SubSeq(<<e, f>>, 1, 2) = <<e, f>>
    BY <1>1, SubSeqFull
  <1>3. SubSeq(<<e>>, 1, 0) = <<>> /\ SubSeq(<<e, f>>, 1, 0) = <<>>
    BY <1>1, SubSeqEmpty
  <1>4. SubSeq(<<e, f>>, 1, 1) = <<e>>
    <2> DEFINE s == <<e, f>>
    <2>1. s \in Seq(S) /\ Len(s) = 2 /\ s[1] = e
      BY <1>1
    <2> HIDE DEF s
    <2>2. /\ SubSeq(s, 1, 1) \in Seq(S)
          /\ Len(SubSeq(s, 1, 1)) = 1
          /\ SubSeq(s, 1, 1)[1] = e
      BY <2>1
    <2> DEFINE t == <<e>>
                p == SubSeq(s, 1, 1)
    <2>3. t \in Seq(S) /\ Len(t) = 1 /\ t[1] = e
      BY <1>1
    <2>4. Len(p) = Len(t) /\ \A i \in 1 .. Len(p) : p[i] = t[i]
      BY <2>2, <2>3
    <2> HIDE DEF t, p
    <2>5. p = t
      BY <2>2, <2>3, <2>4, SeqEqual DEF p
    <2> QED
      BY <2>5 DEF s, t, p
  <1> QED
    BY <1>2, <1>3, <1>4

\* Record of one entry.
LEMMA GrowOne ==
    ASSUME TypeOK, NEW e \in Entries
    PROVE  /\ ledger' = ledger \o <<e>> => Adds1(e)
           /\ \A k \in 0 .. Len(<<e>>) :
                 ledger' = ledger \o SubSeq(<<e>>, 1, k) =>
                    ledger' = ledger \/ Adds1(e)
  <1>1. ledger' = ledger \o <<e>> => Adds1(e)
    BY DEF TypeOK, Adds1, Kept
  <1>2. SubSeq(<<e>>, 1, 0) = <<>> /\ SubSeq(<<e>>, 1, 1) = <<e>>
    BY Beginnings
  <1>3. ledger \o <<>> = ledger
    BY DEF TypeOK
  <1>4. 0 .. Len(<<e>>) = {0, 1}
    OBVIOUS
  <1> QED
    BY <1>1, <1>2, <1>3, <1>4

\* Record of two entries.
LEMMA GrowTwo ==
    ASSUME TypeOK, NEW e \in Entries, NEW f \in Entries
    PROVE  /\ ledger' = ledger \o <<e, f>> => Adds2(e, f)
           /\ \A k \in 0 .. Len(<<e, f>>) :
                 ledger' = ledger \o SubSeq(<<e, f>>, 1, k) =>
                    ledger' = ledger \/ Adds1(e) \/ Adds2(e, f)
  <1>1. ledger' = ledger \o <<e, f>> => Adds2(e, f)
    BY DEF TypeOK, Adds2, Kept
  <1>2. ledger' = ledger \o <<e>> => Adds1(e)
    BY DEF TypeOK, Adds1, Kept
  <1>3. /\ SubSeq(<<e, f>>, 1, 0) = <<>> /\ SubSeq(<<e, f>>, 1, 1) = <<e>>
        /\ SubSeq(<<e, f>>, 1, 2) = <<e, f>>
    BY Beginnings
  <1>4. ledger \o <<>> = ledger
    BY DEF TypeOK
  <1>5. 0 .. Len(<<e, f>>) = {0, 1, 2}
    OBVIOUS
  <1> QED
    BY <1>1, <1>2, <1>3, <1>4, <1>5

-----------------------------------------------------------------------------
(* What each handler writes, and where it leaves the main thread.          *)

\* The endings of a handler.
LEMMA FailFacts ==
    ASSUME Fail
    PROVE  /\ pc' = "failed"
           /\ UNCHANGED <<performed, transaction_nonce, expected>>
  BY DEF Fail

\* A request is sent, or the nonces have run out.
LEMMA TransactFacts ==
    ASSUME NEW op, NEW id, NEW actions, NEW b, Transact(op, id, actions, b)
    PROVE  /\ \/ Fail
              \/ /\ pc' = "ack"
                 /\ expected'.op = op /\ expected'.id = id
                 /\ expected'.actions = actions
                 /\ transaction_nonce < U64_MAX
                 /\ transaction_nonce' = transaction_nonce + 1
           /\ performed' = performed
  BY DEF Transact, Fail, Ack, CanIncrement

\* HELLO: the first lease is installed and recorded.
LEMMA HelloWrites ==
    ASSUME TypeOK, TypeOK', AcceptHello
    PROVE  /\ pc = "hello"
           /\ Wrote1(Entry("LEASE_INSTALLED", "ALLOW", body, active_lease'),
                     "loop")
           /\ UNCHANGED <<body, txn, metrics, action_counter,
                          rollback_confirmed, performed, transaction_nonce,
                          expected>>
           /\ \/ /\ active_lease' = active_lease /\ ledger' = ledger
                 /\ pc' = "failed"
              \/ \E t \in 0 .. U64_MAX : active_lease' = SomeLease(body, t)
  <1>1. Entry("LEASE_INSTALLED", "ALLOW", body, active_lease') \in Entries
    BY EntryType DEF TypeOK, LedgerEvents, Decisions
  <1>2. CASE DeadlineFits
    <2>1. \E t \in 0 .. U64_MAX : active_lease' = SomeLease(body, t)
      BY <1>2, U64Assumption, ScheduleAssumption
         DEF AcceptHello, DeadlineFits, TypeOK
    <2>2. Wrote1(Entry("LEASE_INSTALLED", "ALLOW", body, active_lease'), "loop")
      BY <1>1, <1>2, GrowOne DEF AcceptHello, Record, Resume, Fail, Wrote1
    <2> QED
      BY <1>2, <2>1, <2>2 DEF AcceptHello, Record, Resume, Fail
  <1>3. CASE ~DeadlineFits
    BY <1>3 DEF AcceptHello, Fail, Wrote1
  <1> QED
    BY <1>2, <1>3

\* begin: the capture of the active lease is recorded.
LEMMA BeginWrites ==
    ASSUME TypeOK, Begin
    PROVE  /\ pc = "loop"
           /\ Wrote1(Entry("BEGIN_ACTION", "ALLOW", body, active_lease), "loop")
           /\ pc' = "failed" \/ txn' = BegunTransaction(active_lease)
           /\ UNCHANGED <<body, active_lease, metrics, action_counter,
                          rollback_confirmed, performed, transaction_nonce,
                          expected>>
  <1>1. Entry("BEGIN_ACTION", "ALLOW", body, active_lease) \in Entries
    BY EntryType DEF TypeOK, LedgerEvents, Decisions
  <1> QED
    BY <1>1, GrowOne DEF Begin, Receive, Record, Resume, Fail, Wrote1

\* commit, blocked: the decision is recorded.
LEMMA BlockedWrites ==
    ASSUME TypeOK, CommitBlocked
    PROVE  /\ pc = "loop"
           /\ Wrote1(Entry("COMMIT_BLOCKED", Decision, body, active_lease),
                     "loop")
           /\ txn' = NewTransaction
           /\ metrics' = Count(metrics, {"blocked_commits",
                                         "stale_or_expired_blocked"})
           /\ UNCHANGED <<body, active_lease, action_counter,
                          rollback_confirmed, performed, transaction_nonce,
                          expected>>
  <1>1. Entry("COMMIT_BLOCKED", Decision, body, active_lease) \in Entries
    BY EntryType, DecisionType DEF TypeOK, LedgerEvents, Decision
  <1> QED
    BY <1>1, GrowOne DEF CommitBlocked, Receive, Record, Resume, Fail, Wrote1

\* quarantine: the withdrawal is recorded before ROLLBACK is sent.
LEMMA QuarantineWrites ==
    ASSUME TypeOK, TypeOK', NEW b \in BodyState, Quarantine(b)
    PROVE  /\ Wrote1(Entry("QUARANTINE", "BLOCK_QUARANTINE", body', NoLease),
                     "ack")
           /\ pc' = "ack" => /\ expected'.op = "ROLLBACK"
                             /\ metrics["rollbacks"] < U64_MAX
           /\ body' = [b EXCEPT !.quarantined = TRUE]
           /\ active_lease' = NoLease
           /\ txn' = NewTransaction
           /\ rollback_confirmed' = FALSE
           /\ \/ pc' = "failed" /\ ledger' = ledger /\ metrics' = metrics
              \/ metrics' = Count(metrics, {"rollbacks"} \cup
                      (IF body.quarantined THEN {} ELSE {"quarantines"}))
           /\ UNCHANGED <<action_counter, performed>>
           /\ \/ UNCHANGED transaction_nonce
              \/ /\ transaction_nonce < U64_MAX
                 /\ transaction_nonce' = transaction_nonce + 1
  <1>1. Entry("QUARANTINE", "BLOCK_QUARANTINE", body', NoLease) \in Entries
    BY EntryType DEF TypeOK, LedgerEvents, Decisions, OptionalLease
  <1>2. CASE CanIncrement({metrics["rollbacks"]})
    <2>1. \/ /\ ledger' = ledger \o <<Entry("QUARANTINE", "BLOCK_QUARANTINE",
                                            body', NoLease)>>
             /\ Transact("ROLLBACK", metrics'["rollbacks"], 0, body')
          \/ /\ \E k \in 0 .. Len(<<Entry("QUARANTINE", "BLOCK_QUARANTINE",
                                          body', NoLease)>>) :
                   ledger' = ledger \o
                      SubSeq(<<Entry("QUARANTINE", "BLOCK_QUARANTINE", body',
                                     NoLease)>>, 1, k)
             /\ Fail
      BY <1>2 DEF Quarantine, Record
    <2>2. Wrote1(Entry("QUARANTINE", "BLOCK_QUARANTINE", body', NoLease), "ack")
      BY <1>1, <2>1, GrowOne, TransactFacts DEF Fail, Wrote1
    <2>3. Fail \/ Transact("ROLLBACK", metrics'["rollbacks"], 0, body')
      BY <2>1
    <2> QED
      BY <1>2, <2>2, <2>3, TransactFacts DEF Quarantine, Fail, CanIncrement
  <1>3. CASE ~CanIncrement({metrics["rollbacks"]})
    BY <1>3 DEF Quarantine, Fail, Wrote1
  <1> QED
    BY <1>2, <1>3

\* functional_freshness_probe, refused.
LEMMA RefusedWrites ==
    ASSUME TypeOK, ProbeRefused
    PROVE  /\ pc = "loop"
           /\ Wrote1(Entry("PROBE_REJECTED", "BLOCK_QUARANTINE", body, NoLease),
                     "loop")
           /\ metrics' = Count(metrics, {"functional_probe_requests"})
           /\ UNCHANGED <<body, active_lease, txn, action_counter,
                          rollback_confirmed, performed, transaction_nonce,
                          expected>>
  <1>1. Entry("PROBE_REJECTED", "BLOCK_QUARANTINE", body, NoLease) \in Entries
    BY EntryType DEF TypeOK, LedgerEvents, Decisions, OptionalLease
  <1> QED
    BY <1>1, GrowOne DEF ProbeRefused, Receive, Record, Resume, Fail, Wrote1

\* functional_freshness_probe, up to the request.
LEMMA ProbeWrites ==
    ASSUME TypeOK, ProbeSent
    PROVE  /\ pc = "loop" /\ body.quarantined /\ rollback_confirmed
           /\ Wrote1(Entry("PROBE_REQUEST", "BLOCK_QUARANTINE", body, NoLease),
                     "ack")
           /\ pc' = "ack" => /\ expected'.op = "PROBE"
                             /\ expected'.id = body.certificate + 1
                             /\ body.certificate < U64_MAX
                             /\ body.generation < U64_MAX
           /\ metrics' = Count(metrics, {"functional_probe_requests"})
           /\ UNCHANGED <<body, active_lease, txn, action_counter,
                          rollback_confirmed, performed>>
           /\ \/ UNCHANGED transaction_nonce
              \/ /\ transaction_nonce < U64_MAX
                 /\ transaction_nonce' = transaction_nonce + 1
  <1> DEFINE e == Entry("PROBE_REQUEST", "BLOCK_QUARANTINE", body, NoLease)
  <1>1. e \in Entries
    BY EntryType DEF TypeOK, LedgerEvents, Decisions, OptionalLease
  <1>2. CASE CanIncrement({body.certificate, body.generation,
                           transaction_nonce})
    <2>1. \/ /\ ledger' = ledger \o <<e>>
             /\ Transact("PROBE", body.certificate + 1, 0, body)
          \/ /\ \E k \in 0 .. Len(<<e>>) :
                   ledger' = ledger \o SubSeq(<<e>>, 1, k)
             /\ Fail
      BY <1>2 DEF ProbeSent, Record
    <2> HIDE DEF e
    <2>2. Wrote1(e, "ack")
      BY <1>1, <2>1, GrowOne, TransactFacts DEF Fail, Wrote1
    <2>3. Fail \/ Transact("PROBE", body.certificate + 1, 0, body)
      BY <2>1
    <2>4. /\ body.certificate < U64_MAX /\ body.generation < U64_MAX
          /\ transaction_nonce < U64_MAX
      BY <1>2 DEF CanIncrement
    <2>5. CASE Fail
      <3>1. pc' = "failed" /\ UNCHANGED <<performed, transaction_nonce>>
        BY <2>5 DEF Fail
      <3> QED
        BY <2>2, <3>1 DEF ProbeSent, Receive, e
    <2>6. CASE ~Fail
      <3>1. /\ pc' = "ack" /\ expected'.op = "PROBE"
            /\ expected'.id = body.certificate + 1
            /\ transaction_nonce' = transaction_nonce + 1
            /\ performed' = performed
        BY <2>3, <2>6, TransactFacts
      <3> QED
        BY <2>2, <2>4, <3>1 DEF ProbeSent, Receive, e
    <2> QED
      BY <2>5, <2>6
  <1>3. CASE ~CanIncrement({body.certificate, body.generation,
                            transaction_nonce})
    BY <1>3 DEF ProbeSent, Receive, Fail, Wrote1
  <1> QED
    BY <1>2, <1>3

\* commit, allowed: WORK is sent and nothing is recorded yet.
LEMMA AllowedWrites ==
    ASSUME TypeOK, CommitAllowed
    PROVE  /\ pc = "loop" /\ Decision = "ALLOW"
           /\ pc' \in {"ack", "failed"}
           /\ pc' = "ack" => /\ expected'.op = "WORK"
                             /\ expected'.id = action_counter + 1
                             /\ action_counter < U64_MAX
           /\ txn' = NewTransaction
           /\ UNCHANGED <<body, active_lease, metrics, action_counter,
                          rollback_confirmed, ledger, performed>>
           /\ \/ UNCHANGED transaction_nonce
              \/ /\ transaction_nonce < U64_MAX
                 /\ transaction_nonce' = transaction_nonce + 1
  BY TransactFacts DEF CommitAllowed, Receive, Fail, CanIncrement

\* The end of the loop: STOP is sent and nothing is recorded.
LEMMA StopWrites ==
    ASSUME TypeOK, Stop
    PROVE  /\ pc = "loop"
           /\ pc' \in {"ack", "failed"}
           /\ pc' = "ack" => expected'.op = "STOP"
           /\ UNCHANGED <<body, active_lease, txn, metrics, action_counter,
                          rollback_confirmed, ledger, performed>>
           /\ \/ UNCHANGED transaction_nonce
              \/ /\ transaction_nonce < U64_MAX
                 /\ transaction_nonce' = transaction_nonce + 1
  BY TransactFacts DEF Stop, Receive, Fail

\* commit, acknowledged: two entries, and a failure only of the disk.
LEMMA WorkWrites ==
    ASSUME IInv, WorkAccepted
    PROVE  /\ pc = "ack" /\ expected.op = "WORK" /\ stdin = <<>>
           /\ Wrote2(Entry("CHILD_ACK_ACCEPTED", "ALLOW", body, active_lease),
                     Entry("COMMIT", "ALLOW", body, active_lease), "loop")
           /\ pc' = "failed" => "io" \in Faults
           /\ metrics' = [Count(metrics, {"allowed_commits",
                                          "verified_work_acks"})
                           EXCEPT !["child_actions"] = expected.actions]
           /\ action_counter' = expected.id
           /\ UNCHANGED <<body, active_lease, txn, rollback_confirmed,
                          performed, transaction_nonce, expected>>
  <1> DEFINE e == Entry("CHILD_ACK_ACCEPTED", "ALLOW", body, active_lease)
             f == Entry("COMMIT", "ALLOW", body, active_lease)
  <1>1. e \in Entries /\ f \in Entries
    BY EntryType DEF IInv, TypeOK, LedgerEvents, Decisions
  <1>2. CanIncrement({metrics["allowed_commits"]})
    BY DEF WorkAccepted, IInv, CountInv, CanIncrement
  <1>3. \/ ledger' = ledger \o <<e, f>> /\ Resume
        \/ /\ \E k \in 0 .. Len(<<e, f>>) :
                 ledger' = ledger \o SubSeq(<<e, f>>, 1, k)
           /\ Fail /\ "io" \in Faults
    BY <1>2 DEF WorkAccepted, Record
  <1>4. stdin = <<>>
    BY AckConsumed DEF WorkAccepted
  <1> HIDE DEF e, f
  <1>5. Wrote2(e, f, "loop")
    BY <1>1, <1>3, GrowTwo DEF IInv, Resume, Fail, Wrote2
  <1> QED
    BY <1>2, <1>3, <1>4, <1>5 DEF WorkAccepted, Resume, Fail, e, f

\* quarantine, acknowledged.
LEMMA RollbackWrites ==
    ASSUME TypeOK, RollbackAccepted
    PROVE  /\ pc = "ack" /\ expected.op = "ROLLBACK"
           /\ Wrote1(Entry("ROLLBACK_ACK_ACCEPTED", "BLOCK_QUARANTINE", body,
                           NoLease), "loop")
           /\ metrics' = Count(metrics, {"rollback_acks"})
           /\ rollback_confirmed' = TRUE
           /\ UNCHANGED <<body, active_lease, txn, action_counter, performed,
                          transaction_nonce, expected>>
  <1>1. Entry("ROLLBACK_ACK_ACCEPTED", "BLOCK_QUARANTINE", body, NoLease)
           \in Entries
    BY EntryType DEF TypeOK, LedgerEvents, Decisions, OptionalLease
  <1> QED
    BY <1>1, GrowOne DEF RollbackAccepted, Record, Resume, Fail, Wrote1

\* functional_freshness_probe, acknowledged: a new lease, two entries.
LEMMA RenewalWrites ==
    ASSUME TypeOK, TypeOK', ProbeAccepted
    PROVE  /\ pc = "ack" /\ expected.op = "PROBE"
           /\ UNCHANGED <<txn, action_counter, performed, transaction_nonce,
                          expected>>
           /\ \/ /\ pc' = "failed"
                 /\ UNCHANGED <<body, active_lease, rollback_confirmed,
                                metrics, ledger>>
              \/ /\ Wrote2(Entry("LEASE_INSTALLED", "ALLOW", body',
                                 active_lease'),
                           Entry("PROBE_ACCEPTED", "ALLOW", body',
                                 active_lease'), "loop")
                 /\ body' = [body EXCEPT !.certificate = expected.id,
                                         !.generation = @ + 1,
                                         !.quarantined = FALSE]
                 /\ \E t \in 0 .. U64_MAX : active_lease' = SomeLease(body', t)
                 /\ rollback_confirmed' = FALSE
                 /\ metrics' = Count(metrics, {"functional_probe_recoveries"})
  <1> DEFINE e == Entry("LEASE_INSTALLED", "ALLOW", body', active_lease')
             f == Entry("PROBE_ACCEPTED", "ALLOW", body', active_lease')
  <1>1. e \in Entries /\ f \in Entries
    BY EntryType DEF TypeOK, LedgerEvents, Decisions
  <1>2. CASE DeadlineFits
    <2>1. \/ ledger' = ledger \o <<e, f>> /\ Resume
          \/ /\ \E k \in 0 .. Len(<<e, f>>) :
                   ledger' = ledger \o SubSeq(<<e, f>>, 1, k)
             /\ Fail
      BY <1>2 DEF ProbeAccepted, Record
    <2>2. \E t \in 0 .. U64_MAX : active_lease' = SomeLease(body', t)
      <3>1. now + LeaseDuration \in 0 .. U64_MAX
        BY <1>2, U64Assumption, ScheduleAssumption DEF DeadlineFits, TypeOK
      <3>2. active_lease' = SomeLease(body', now + LeaseDuration)
        BY <1>2 DEF ProbeAccepted
      <3> QED
        BY <3>1, <3>2
    <2> HIDE DEF e, f
    <2>3. Wrote2(e, f, "loop")
      BY <1>1, <2>1, GrowTwo DEF Resume, Fail, Wrote2
    <2>4. /\ pc = "ack" /\ expected.op = "PROBE"
          /\ UNCHANGED <<txn, action_counter, performed, transaction_nonce,
                         expected>>
          /\ body' = [body EXCEPT !.certificate = expected.id,
                                  !.generation = @ + 1,
                                  !.quarantined = FALSE]
          /\ rollback_confirmed' = FALSE
          /\ metrics' = Count(metrics, {"functional_probe_recoveries"})
      BY <1>2, <2>1 DEF ProbeAccepted, Resume, Fail
    <2> QED
      BY <2>2, <2>3, <2>4 DEF e, f
  <1>3. CASE ~DeadlineFits
    BY <1>3 DEF ProbeAccepted, Fail
  <1> QED
    BY <1>2, <1>3

\* record_protocol_rejection: recorded unless the disk fails.
LEMMA RejectionWrites ==
    ASSUME TypeOK, TypeOK', ProtocolRejection
    PROVE  /\ pc' = "failed"
           /\ \/ Adds1(Entry("PROTOCOL_ACK_REJECTED", "BLOCK_QUARANTINE",
                             body', NoLease))
              \/ ledger' = ledger /\ "io" \in Faults
           /\ body' = [body EXCEPT !.quarantined = TRUE]
           /\ active_lease' = NoLease
           /\ metrics' = [Count(metrics, IF body.quarantined THEN {}
                                         ELSE {"quarantines"})
                          EXCEPT !["damage"] = 1]
           /\ UNCHANGED <<action_counter, performed, transaction_nonce,
                          expected>>
  <1>1. Entry("PROTOCOL_ACK_REJECTED", "BLOCK_QUARANTINE", body', NoLease)
           \in Entries
    BY EntryType DEF TypeOK, LedgerEvents, Decisions, OptionalLease
  <1> QED
    BY <1>1, GrowOne DEF ProtocolRejection, Record, Fail

\* quarantine, not acknowledged.
LEMMA RejectAckWrites ==
    ASSUME TypeOK, RejectAck, ~ProtocolRejection
    PROVE  /\ pc = "ack" /\ expected.op = "ROLLBACK"
           /\ Wrote1(Entry("ROLLBACK_ACK_REJECTED", "BLOCK_QUARANTINE", body,
                           NoLease), "failed")
           /\ pc' = "failed"
           /\ metrics' = [metrics EXCEPT !["damage"] = 1]
           /\ UNCHANGED <<body, active_lease, txn, action_counter,
                          rollback_confirmed, performed, transaction_nonce,
                          expected>>
  <1>1. Entry("ROLLBACK_ACK_REJECTED", "BLOCK_QUARANTINE", body, NoLease)
           \in Entries
    BY EntryType DEF TypeOK, LedgerEvents, Decisions, OptionalLease
  <1> QED
    BY <1>1, GrowOne DEF RejectAck, Record, Fail, Wrote1

\* The end of run: FINAL and the seal.
LEMMA FinishWrites ==
    ASSUME TypeOK, Finish
    PROVE  /\ pc = "exit"
           /\ \/ /\ pc' = "done" /\ child' = "reaped"
                 /\ Adds2(Entry("FINAL", IF FinalDamage = 0 THEN "ALLOW"
                                         ELSE "BLOCK_ACTION",
                                body, active_lease),
                          Entry("LEDGER_SEAL", "ALLOW", body, active_lease))
              \/ /\ Wrote2(Entry("FINAL", IF FinalDamage = 0 THEN "ALLOW"
                                          ELSE "BLOCK_ACTION",
                                 body, active_lease),
                           Entry("LEDGER_SEAL", "ALLOW", body, active_lease),
                           "failed")
                 /\ pc' = "failed"
           /\ metrics' = [metrics EXCEPT !["damage"] = FinalDamage]
           /\ UNCHANGED <<body, active_lease, txn, action_counter,
                          rollback_confirmed, performed, transaction_nonce,
                          expected>>
  <1> DEFINE e == Entry("FINAL", IF FinalDamage = 0 THEN "ALLOW"
                                 ELSE "BLOCK_ACTION", body, active_lease)
             f == Entry("LEDGER_SEAL", "ALLOW", body, active_lease)
  <1>1. e \in Entries /\ f \in Entries
    BY EntryType DEF TypeOK, LedgerEvents, Decisions
  <1>2. \/ ledger' = ledger \o <<e, f>> /\ pc' = "done" /\ child' = "reaped"
        \/ /\ \E k \in 0 .. Len(<<e, f>>) :
                 ledger' = ledger \o SubSeq(<<e, f>>, 1, k)
           /\ Fail
    BY DEF Finish, Record
  <1> HIDE DEF e, f
  <1>3. \/ pc' = "done" /\ child' = "reaped" /\ Adds2(e, f)
        \/ Wrote2(e, f, "failed") /\ pc' = "failed"
    BY <1>1, <1>2, GrowTwo DEF Fail, Wrote2
  <1> QED
    BY <1>3 DEF Finish, Record, Fail, e, f

-----------------------------------------------------------------------------
(* Steps that are not the main thread's.                                   *)

\* Child, scheduler, clock and a kill leave the coordinator's fields alone.
LEMMA OtherWrites ==
    ASSUME IInv, ~MainStep, [Next]_vars
    PROVE  /\ UNCHANGED <<body, active_lease, txn, metrics, action_counter,
                          transaction_nonce, rollback_confirmed, expected,
                          ledger>>
           /\ pc' = pc \/ pc' = "crashed"
           /\ pc \in Terminal => pc' = pc
           /\ \/ UNCHANGED <<performed, stdin>>
              \/ ChildPerform
  BY DEF Next, ChildStep, ChildHello, ChildReply, ChildExit, ChildPerform,
         ChildEndOfInput, ChildCrash, ChildHang, Send, Tick, ParentCrash,
         Ended, vars, runtimeVars, childVars, ExceptChild

-----------------------------------------------------------------------------
(* The audit trail of commits.                                             *)

\* What is added is not a COMMIT: the earlier ones keep their trail.
LEMMA KeepCommits ==
    ASSUME ledger \in Seq(Entries), ledger' \in Seq(Entries),
           CommitsAudited, Kept, Len(ledger') >= Len(ledger),
           \A i \in (Len(ledger) + 1) .. Len(ledger') :
              ledger'[i].event # "COMMIT"
    PROVE  CommitsAudited'
  <1>1. /\ Len(ledger) \in Nat /\ Len(ledger') \in Nat
        /\ DOMAIN ledger = 1 .. Len(ledger)
        /\ DOMAIN ledger' = 1 .. Len(ledger')
    OBVIOUS
  <1> SUFFICES ASSUME NEW i \in 1 .. Len(ledger'), ledger'[i].event = "COMMIT"
               PROVE  \E b \in 1 .. (i - 1) :
                         /\ ledger'[b].event = "BEGIN_ACTION"
                         /\ ledger'[b].lease # NoLease
                         /\ ledger'[b].lease = ledger'[i].lease
                         /\ ledger'[b].body = ledger'[i].body
                         /\ \A k \in (b + 1) .. (i - 1) :
                               ledger'[k].event \in {"CHILD_ACK_ACCEPTED",
                                                     "PROBE_REJECTED"}
    BY <1>1 DEF CommitsAudited
  <1>2. i \in 1 .. Len(ledger)
    BY <1>1
  <1>3. PICK b \in 1 .. (i - 1) :
            /\ ledger[b].event = "BEGIN_ACTION"
            /\ ledger[b].lease # NoLease
            /\ ledger[b].lease = ledger[i].lease
            /\ ledger[b].body = ledger[i].body
            /\ \A k \in (b + 1) .. (i - 1) :
                  ledger[k].event \in {"CHILD_ACK_ACCEPTED", "PROBE_REJECTED"}
    BY <1>1, <1>2 DEF CommitsAudited, Kept
  <1>4. b \in 1 .. Len(ledger) /\ \A k \in (b + 1) .. (i - 1) :
                                     k \in 1 .. Len(ledger)
    BY <1>1, <1>2
  <1> QED
    BY <1>2, <1>3, <1>4 DEF Kept

\* One entry more, or two, none of them a COMMIT.
LEMMA NoCommitAdded ==
    ASSUME ledger \in Seq(Entries), ledger' \in Seq(Entries), CommitsAudited,
           NEW e, NEW f, e.event # "COMMIT", f.event # "COMMIT",
           ledger' = ledger \/ Adds1(e) \/ Adds2(e, f)
    PROVE  CommitsAudited'
  <1>1. Len(ledger) \in Nat
    OBVIOUS
  <1>2. CASE ledger' = ledger
    BY <1>2 DEF CommitsAudited
  <1>3. CASE Adds1(e)
    BY <1>1, <1>3, KeepCommits DEF Adds1
  <1>4. CASE Adds2(e, f)
    <2>1. \A i \in (Len(ledger) + 1) .. Len(ledger') :
             i \in {Len(ledger) + 1, Len(ledger) + 2}
      BY <1>1, <1>4 DEF Adds2
    <2> QED
      BY <1>1, <1>4, <2>1, KeepCommits DEF Adds2
  <1> QED
    BY <1>2, <1>3, <1>4

\* One entry more, which is not a COMMIT.
LEMMA NoCommitAdded1 ==
    ASSUME ledger \in Seq(Entries), ledger' \in Seq(Entries), CommitsAudited,
           NEW e, e.event # "COMMIT", ledger' = ledger \/ Adds1(e)
    PROVE  CommitsAudited'
  BY NoCommitAdded

\* What an entry says.
LEMMA EntryFields ==
    ASSUME NEW event, NEW decision, NEW b, NEW lease
    PROVE  /\ Entry(event, decision, b, lease).event = event
           /\ Entry(event, decision, b, lease).decision = decision
           /\ Entry(event, decision, b, lease).body = b
           /\ Entry(event, decision, b, lease).lease = lease
  BY DEF Entry

\* A refused probe, recorded or not, leaves the trail as it is.
LEMMA LongerTrail ==
    ASSUME ledger \in Seq(Entries), ledger' \in Seq(Entries), BeginTrail,
           UNCHANGED <<body, active_lease>>,
           NEW e, e.event = "PROBE_REJECTED", ledger' = ledger \/ Adds1(e)
    PROVE  BeginTrail'
  <1>1. /\ Len(ledger) \in Nat /\ Len(ledger') \in Nat
        /\ DOMAIN ledger = 1 .. Len(ledger)
        /\ DOMAIN ledger' = 1 .. Len(ledger')
    OBVIOUS
  <1>2. PICK b \in 1 .. Len(ledger) :
            /\ ledger[b].event = "BEGIN_ACTION"
            /\ ledger[b].lease = active_lease
            /\ ledger[b].body = body
            /\ \A k \in (b + 1) .. Len(ledger) :
                  ledger[k].event = "PROBE_REJECTED"
    BY <1>1 DEF BeginTrail
  <1>3. CASE ledger' = ledger
    BY <1>3 DEF BeginTrail
  <1>4. CASE Adds1(e)
    <2>1. b \in 1 .. Len(ledger') /\ ledger'[b] = ledger[b]
      BY <1>1, <1>4 DEF Adds1, Kept
    <2>2. ASSUME NEW k \in (b + 1) .. Len(ledger')
          PROVE  ledger'[k].event = "PROBE_REJECTED"
      <3>1. CASE k = Len(ledger) + 1
        BY <1>4, <3>1 DEF Adds1
      <3>2. CASE k # Len(ledger) + 1
        <4>1. k \in (b + 1) .. Len(ledger) /\ k \in 1 .. Len(ledger)
          BY <1>1, <1>4, <3>2 DEF Adds1
        <4> QED
          BY <1>2, <1>4, <4>1 DEF Adds1, Kept
      <3> QED
        BY <3>1, <3>2
    <2> QED
      BY <1>1, <1>2, <2>1, <2>2 DEF BeginTrail
  <1> QED
    BY <1>3, <1>4

\* BEGIN starts the trail.
LEMMA NewTrail ==
    ASSUME ledger \in Seq(Entries), ledger' \in Seq(Entries),
           UNCHANGED <<body, active_lease>>,
           Adds1(Entry("BEGIN_ACTION", "ALLOW", body, active_lease))
    PROVE  BeginTrail'
  <1>1. /\ Len(ledger) \in Nat /\ Len(ledger') = Len(ledger) + 1
        /\ DOMAIN ledger' = 1 .. Len(ledger')
    BY DEF Adds1
  <1>2. /\ ledger'[Len(ledger')].event = "BEGIN_ACTION"
        /\ ledger'[Len(ledger')].lease = active_lease'
        /\ ledger'[Len(ledger')].body = body'
    BY <1>1 DEF Adds1, Entry
  <1>3. /\ Len(ledger') \in DOMAIN ledger'
        /\ (Len(ledger') + 1) .. Len(ledger') = {}
    BY <1>1
  <1> QED
    BY <1>2, <1>3 DEF BeginTrail

\* An acknowledged effect is recorded at the end of a trail.
LEMMA CommitAdded ==
    ASSUME ledger \in Seq(Entries), ledger' \in Seq(Entries), CommitsAudited,
           BeginTrail, active_lease # NoLease,
           Adds2(Entry("CHILD_ACK_ACCEPTED", "ALLOW", body, active_lease),
                 Entry("COMMIT", "ALLOW", body, active_lease))
    PROVE  CommitsAudited'
  <1>1. /\ Len(ledger) \in Nat /\ Len(ledger') = Len(ledger) + 2
        /\ DOMAIN ledger = 1 .. Len(ledger)
        /\ DOMAIN ledger' = 1 .. Len(ledger')
    BY DEF Adds2
  <1>2. /\ ledger'[Len(ledger) + 1].event = "CHILD_ACK_ACCEPTED"
        /\ ledger'[Len(ledger) + 2].lease = active_lease
        /\ ledger'[Len(ledger) + 2].body = body
    BY DEF Adds2, Entry
  <1>3. PICK b \in 1 .. Len(ledger) :
            /\ ledger[b].event = "BEGIN_ACTION"
            /\ ledger[b].lease = active_lease
            /\ ledger[b].body = body
            /\ \A k \in (b + 1) .. Len(ledger) :
                  ledger[k].event = "PROBE_REJECTED"
    BY <1>1 DEF BeginTrail
  <1>4. ASSUME NEW i \in 1 .. Len(ledger'), ledger'[i].event = "COMMIT"
        PROVE  \E c \in 1 .. (i - 1) :
                   /\ ledger'[c].event = "BEGIN_ACTION"
                   /\ ledger'[c].lease # NoLease
                   /\ ledger'[c].lease = ledger'[i].lease
                   /\ ledger'[c].body = ledger'[i].body
                   /\ \A k \in (c + 1) .. (i - 1) :
                         ledger'[k].event \in {"CHILD_ACK_ACCEPTED",
                                               "PROBE_REJECTED"}
    <2>1. CASE i = Len(ledger) + 2
      <3>1. b \in 1 .. (i - 1) /\ ledger'[b] = ledger[b]
        BY <1>1, <2>1 DEF Adds2, Kept
      <3>2. ASSUME NEW k \in (b + 1) .. (i - 1)
            PROVE  ledger'[k].event \in {"CHILD_ACK_ACCEPTED",
                                         "PROBE_REJECTED"}
        <4>1. CASE k = Len(ledger) + 1
          BY <1>2, <4>1
        <4>2. CASE k # Len(ledger) + 1
          <5>1. k \in (b + 1) .. Len(ledger) /\ k \in 1 .. Len(ledger)
            BY <1>1, <2>1, <4>2
          <5> QED
            BY <1>3, <5>1 DEF Adds2, Kept
        <4> QED
          BY <4>1, <4>2
      <3> QED
        BY <1>2, <1>3, <2>1, <3>1, <3>2
    <2>2. CASE i # Len(ledger) + 2
      <3>1. i \in 1 .. Len(ledger)
        BY <1>1, <1>2, <1>4, <2>2
      <3>2. PICK c \in 1 .. (i - 1) :
                /\ ledger[c].event = "BEGIN_ACTION"
                /\ ledger[c].lease # NoLease
                /\ ledger[c].lease = ledger[i].lease
                /\ ledger[c].body = ledger[i].body
                /\ \A k \in (c + 1) .. (i - 1) :
                      ledger[k].event \in {"CHILD_ACK_ACCEPTED",
                                           "PROBE_REJECTED"}
        BY <1>1, <1>4, <3>1 DEF CommitsAudited, Adds2, Kept
      <3>3. c \in 1 .. Len(ledger) /\ \A k \in (c + 1) .. (i - 1) :
                                         k \in 1 .. Len(ledger)
        BY <1>1, <3>1
      <3> QED
        BY <3>1, <3>2, <3>3 DEF Adds2, Kept
    <2> QED
      BY <2>1, <2>2
  <1> QED
    BY <1>1, <1>4 DEF CommitsAudited

\* Only a transaction that captured the active lease is allowed to commit.
LEMMA AllowNeedsCapture ==
    Decision = "ALLOW" => txn.pending /\ txn.captured_lease # NoLease
  BY DEF Decision, CommitDecision, validate_commit

\* The body that reset quarantines.
LEMMA ResetBody ==
    ASSUME NEW b \in BodyState
    PROVE  [b EXCEPT !.epoch = @ + 1, !.generation = @ + 1] \in BodyState
  <1>1. b.epoch + 1 \in Nat /\ b.generation + 1 \in Nat
    BY DEF BodyState
  <1> QED
    BY <1>1, BodyType

\* Every step of the main thread keeps the trail of commits.
LEMMA MainCommits ==
    ASSUME IInv, CommitInv, MainStep
    PROVE  CommitInv'
  <1>1. /\ TypeOK /\ TypeOK'
        /\ ledger \in Seq(Entries) /\ ledger' \in Seq(Entries)
        /\ CommitsAudited /\ TrailInv
    BY MainType DEF IInv, TypeOK, CommitInv
  <1>2. pc' \in {"failed", "done"} => TrailInv'
    BY DEF TrailInv, Live
  <1>3. ~txn'.pending /\ ~(pc' = "ack" /\ expected'.op = "WORK") => TrailInv'
    BY DEF TrailInv
  <1>4. pc \in {"loop", "ack"} /\ active_lease = NoLease /\ txn.pending =>
           txn.captured_lease = NoLease
    BY DEF IInv, AuthorityInv
  <1>5. CASE AcceptHello
    <2>1. ~txn.pending
      BY <1>1, <1>5, HelloWrites DEF IInv, AuthorityInv
    <2>2. /\ UNCHANGED txn /\ pc' \in {"loop", "failed"}
          /\ \/ Adds1(Entry("LEASE_INSTALLED", "ALLOW", body, active_lease'))
             \/ ledger' = ledger
      BY <1>1, <1>5, HelloWrites DEF Wrote1
    <2>3. CommitsAudited'
      BY <1>1, <2>2, NoCommitAdded1, EntryFields
    <2> QED
      BY <1>3, <2>1, <2>2, <2>3 DEF CommitInv
  <1>6. CASE RejectHello
    BY <1>1, <1>2, <1>6 DEF RejectHello, Fail, CommitInv, CommitsAudited
  <1>7. CASE Begin
    <2>1. /\ pc' \in {"loop", "failed"} /\ UNCHANGED <<body, active_lease>>
          /\ \/ Adds1(Entry("BEGIN_ACTION", "ALLOW", body, active_lease))
             \/ ledger' = ledger /\ pc' = "failed"
      BY <1>1, <1>7, BeginWrites DEF Wrote1
    <2>2. CommitsAudited'
      BY <1>1, <2>1, NoCommitAdded1, EntryFields
    <2>3. pc' = "failed" \/ BeginTrail'
      BY <1>1, <2>1, NewTrail
    <2> QED
      BY <1>2, <2>1, <2>2, <2>3 DEF CommitInv, TrailInv
  <1>8. CASE CommitAllowed
    <2>1. /\ pc = "loop" /\ txn' = NewTransaction
          /\ UNCHANGED <<body, active_lease, ledger>>
          /\ txn.pending /\ txn.captured_lease # NoLease
      BY <1>1, <1>8, AllowedWrites, AllowNeedsCapture
    <2>2. BeginTrail
      BY <1>1, <2>1 DEF TrailInv, Live
    <2>3. BeginTrail'
      BY <2>1, <2>2 DEF BeginTrail
    <2>4. CommitsAudited'
      BY <1>1, <2>1 DEF CommitsAudited
    <2> QED
      BY <2>1, <2>3, <2>4 DEF CommitInv, TrailInv, NewTransaction
  <1>9. CASE CommitBlocked
    <2>1. /\ txn' = NewTransaction /\ pc' \in {"loop", "failed"}
          /\ \/ Adds1(Entry("COMMIT_BLOCKED", Decision, body, active_lease))
             \/ ledger' = ledger
      BY <1>1, <1>9, BlockedWrites DEF Wrote1
    <2>2. CommitsAudited'
      BY <1>1, <2>1, NoCommitAdded1, EntryFields
    <2> QED
      BY <1>3, <2>1, <2>2 DEF CommitInv, NewTransaction
  <1>10. ASSUME NEW b \in BodyState, Quarantine(b)
         PROVE  CommitInv'
    <2>1. /\ txn' = NewTransaction /\ pc' \in {"ack", "failed"}
          /\ pc' = "ack" => expected'.op = "ROLLBACK"
          /\ \/ Adds1(Entry("QUARANTINE", "BLOCK_QUARANTINE", body', NoLease))
             \/ ledger' = ledger
      BY <1>1, <1>10, QuarantineWrites DEF Wrote1
    <2>2. CommitsAudited'
      BY <1>1, <2>1, NoCommitAdded1, EntryFields
    <2> QED
      BY <1>3, <2>1, <2>2 DEF CommitInv, NewTransaction
  <1>11. CASE Reset
    <2>1. CASE CanIncrement({body.epoch, body.generation})
      <3>1. [body EXCEPT !.epoch = @ + 1, !.generation = @ + 1] \in BodyState
        BY <1>1, ResetBody DEF TypeOK
      <3> QED
        BY <1>10, <1>11, <2>1, <3>1 DEF Reset
    <2>2. CASE ~CanIncrement({body.epoch, body.generation})
      BY <1>1, <1>2, <1>11, <2>2 DEF Reset, Fail, CommitInv, CommitsAudited
    <2> QED
      BY <2>1, <2>2
  <1>12. CASE Silence
    BY <1>1, <1>10, <1>12 DEF Silence, TypeOK
  <1>13. CASE ProbeRefused
    <2>1. /\ pc = "loop" /\ pc' \in {"loop", "failed"}
          /\ UNCHANGED <<body, active_lease, txn>>
          /\ \/ Adds1(Entry("PROBE_REJECTED", "BLOCK_QUARANTINE", body,
                            NoLease))
             \/ ledger' = ledger
      BY <1>1, <1>13, RefusedWrites DEF Wrote1
    <2>2. CommitsAudited'
      BY <1>1, <2>1, NoCommitAdded1, EntryFields
    <2>3. BeginTrail => BeginTrail'
      BY <1>1, <2>1, LongerTrail, EntryFields
    <2> QED
      BY <1>1, <2>1, <2>2, <2>3 DEF CommitInv, TrailInv, Live
  <1>14. CASE ProbeSent
    <2>1. /\ pc = "loop" /\ body.quarantined /\ UNCHANGED txn
          /\ pc' \in {"ack", "failed"}
          /\ pc' = "ack" => expected'.op = "PROBE"
          /\ \/ Adds1(Entry("PROBE_REQUEST", "BLOCK_QUARANTINE", body,
                            NoLease))
             \/ ledger' = ledger
      BY <1>1, <1>14, ProbeWrites DEF Wrote1
    <2>2. txn.pending => txn.captured_lease = NoLease
      BY <1>4, <2>1 DEF IInv, AuthorityInv
    <2>3. CommitsAudited'
      BY <1>1, <2>1, NoCommitAdded1, EntryFields
    <2> QED
      BY <2>1, <2>2, <2>3 DEF CommitInv, TrailInv
  <1>15. CASE Stop
    <2>1. /\ pc = "loop" /\ pc' \in {"ack", "failed"}
          /\ pc' = "ack" => expected'.op = "STOP"
          /\ UNCHANGED <<body, active_lease, txn, ledger>>
      BY <1>1, <1>15, StopWrites
    <2> QED
      BY <1>1, <2>1 DEF CommitInv, CommitsAudited, TrailInv, BeginTrail, Live
  <1>16. CASE WorkAccepted
    <2>1. /\ pc = "ack" /\ expected.op = "WORK" /\ UNCHANGED txn
          /\ pc' \in {"loop", "failed"}
          /\ \/ Adds2(Entry("CHILD_ACK_ACCEPTED", "ALLOW", body, active_lease),
                      Entry("COMMIT", "ALLOW", body, active_lease))
             \/ Adds1(Entry("CHILD_ACK_ACCEPTED", "ALLOW", body, active_lease))
             \/ ledger' = ledger
      BY <1>16, WorkWrites DEF Wrote2
    <2>2. active_lease # NoLease /\ ~txn.pending /\ BeginTrail
      BY <1>1, <2>1 DEF TrailInv, IInv, AuthorityInv
    <2>3. CommitsAudited'
      <3>1. CASE Adds2(Entry("CHILD_ACK_ACCEPTED", "ALLOW", body,
                             active_lease),
                       Entry("COMMIT", "ALLOW", body, active_lease))
        BY <1>1, <2>2, <3>1, CommitAdded
      <3>2. CASE \/ ledger' = ledger
                 \/ Adds1(Entry("CHILD_ACK_ACCEPTED", "ALLOW", body,
                                active_lease))
        BY SMTT(30), <1>1, <3>2, NoCommitAdded1, EntryFields
      <3> QED
        BY <2>1, <3>1, <3>2
    <2> QED
      BY <1>3, <2>1, <2>2, <2>3 DEF CommitInv
  <1>17. CASE RollbackAccepted
    <2>1. /\ pc = "ack" /\ expected.op = "ROLLBACK" /\ UNCHANGED txn
          /\ pc' \in {"loop", "failed"}
          /\ \/ Adds1(Entry("ROLLBACK_ACK_ACCEPTED", "BLOCK_QUARANTINE", body,
                            NoLease))
             \/ ledger' = ledger
      BY <1>1, <1>17, RollbackWrites DEF Wrote1
    <2>2. txn.pending => txn.captured_lease = NoLease
      BY <1>4, <2>1 DEF IInv, AuthorityInv
    <2>3. CommitsAudited'
      BY <1>1, <2>1, NoCommitAdded1, EntryFields
    <2> QED
      BY <2>1, <2>2, <2>3 DEF CommitInv, TrailInv
  <1>18. CASE ProbeAccepted
    <2>1. /\ pc = "ack" /\ expected.op = "PROBE" /\ UNCHANGED txn
          /\ pc' \in {"loop", "failed"}
          /\ \/ Adds2(Entry("LEASE_INSTALLED", "ALLOW", body', active_lease'),
                      Entry("PROBE_ACCEPTED", "ALLOW", body', active_lease'))
             \/ Adds1(Entry("LEASE_INSTALLED", "ALLOW", body', active_lease'))
             \/ ledger' = ledger
      BY <1>1, <1>18, RenewalWrites DEF Wrote2
    <2>2. txn.pending => txn.captured_lease = NoLease
      BY <1>4, <2>1 DEF IInv, AuthorityInv
    <2>3. CommitsAudited'
      BY SMTT(30), <1>1, <2>1, NoCommitAdded, EntryFields
    <2> QED
      BY <2>1, <2>2, <2>3 DEF CommitInv, TrailInv
  <1>19. CASE StopAccepted
    BY <1>1, <1>19 DEF StopAccepted, runtimeVars, CommitInv, CommitsAudited,
       TrailInv, BeginTrail, Live
  <1>20. CASE ProtocolRejection
    <2>1. /\ pc' = "failed"
          /\ \/ Adds1(Entry("PROTOCOL_ACK_REJECTED", "BLOCK_QUARANTINE", body',
                            NoLease))
             \/ ledger' = ledger
      BY <1>1, <1>20, RejectionWrites
    <2>2. CommitsAudited'
      BY <1>1, <2>1, NoCommitAdded1, EntryFields
    <2> QED
      BY <1>2, <2>1, <2>2 DEF CommitInv
  <1>21. CASE RejectAck /\ ~ProtocolRejection
    <2>1. /\ pc' = "failed"
          /\ \/ Adds1(Entry("ROLLBACK_ACK_REJECTED", "BLOCK_QUARANTINE", body,
                            NoLease))
             \/ ledger' = ledger
      BY <1>1, <1>21, RejectAckWrites DEF Wrote1
    <2>2. CommitsAudited'
      BY <1>1, <2>1, NoCommitAdded1, EntryFields
    <2> QED
      BY <1>2, <2>1, <2>2 DEF CommitInv
  <1>22. CASE Finish
    <2> DEFINE e == Entry("FINAL", IF FinalDamage = 0 THEN "ALLOW"
                                   ELSE "BLOCK_ACTION", body, active_lease)
               f == Entry("LEDGER_SEAL", "ALLOW", body, active_lease)
    <2>1. /\ pc' \in {"done", "failed"}
          /\ Adds2(e, f) \/ Adds1(e) \/ ledger' = ledger
      BY <1>1, <1>22, FinishWrites DEF Wrote2
    <2>2. e.event # "COMMIT" /\ f.event # "COMMIT"
      BY EntryFields
    <2> HIDE DEF e, f
    <2>3. CommitsAudited'
      BY <1>1, <2>1, <2>2, NoCommitAdded
    <2> QED
      BY <1>2, <2>1, <2>3 DEF CommitInv
  <1> QED
    BY <1>5, <1>6, <1>7, <1>8, <1>9, <1>11, <1>12, <1>13, <1>14, <1>15,
       <1>16, <1>17, <1>18, <1>19, <1>20, <1>21, <1>22
       DEF MainStep, UncleanExit

-----------------------------------------------------------------------------
(* The audit trail of leases.                                              *)

\* What is added is not a lease: the earlier ones keep their trail.
LEMMA KeepLeases ==
    ASSUME ledger \in Seq(Entries), ledger' \in Seq(Entries),
           LeasesAudited, Kept, Len(ledger') >= Len(ledger),
           NEW i \in DOMAIN ledger', i > 1, i <= Len(ledger),
           ledger'[i].event = "LEASE_INSTALLED"
    PROVE  /\ ledger'[i - 1].event = "PROBE_REQUEST"
           /\ \E r \in 1 .. (i - 1) :
                 /\ ledger'[r].event = "ROLLBACK_ACK_ACCEPTED"
                 /\ \A k \in r .. i : ledger'[k].event # "QUARANTINE"
           /\ \A j \in 1 .. (i - 1) : ledger'[j].lease # NoLease =>
                 /\ ledger'[j].lease.generation < ledger'[i].lease.generation
                 /\ ledger'[j].lease.certificate < ledger'[i].lease.certificate
  <1>1. /\ Len(ledger) \in Nat /\ DOMAIN ledger = 1 .. Len(ledger)
        /\ DOMAIN ledger' = 1 .. Len(ledger')
    OBVIOUS
  <1>2. /\ i \in 1 .. Len(ledger)
        /\ \A k \in 1 .. i : ledger'[k] = ledger[k]
        /\ i - 1 \in 1 .. i /\ i \in 1 .. i
        /\ \A k \in 1 .. (i - 1) : k \in 1 .. i
    BY <1>1 DEF Kept
  <1>3. /\ ledger[i - 1].event = "PROBE_REQUEST"
        /\ \E r \in 1 .. (i - 1) :
              /\ ledger[r].event = "ROLLBACK_ACK_ACCEPTED"
              /\ \A k \in r .. i : ledger[k].event # "QUARANTINE"
        /\ \A j \in 1 .. (i - 1) : ledger[j].lease # NoLease =>
              /\ ledger[j].lease.generation < ledger[i].lease.generation
              /\ ledger[j].lease.certificate < ledger[i].lease.certificate
    <2>1. i \in DOMAIN ledger /\ ledger[i].event = "LEASE_INSTALLED"
      BY <1>1, <1>2
    <2> QED
      BY <2>1 DEF LeasesAudited
  <1>4. PICK r \in 1 .. (i - 1) :
            /\ ledger[r].event = "ROLLBACK_ACK_ACCEPTED"
            /\ \A k \in r .. i : ledger[k].event # "QUARANTINE"
    BY <1>3
  <1>5. \A k \in r .. i : k \in 1 .. i
    BY <1>2
  <1>6. /\ ledger'[r].event = "ROLLBACK_ACK_ACCEPTED"
        /\ \A k \in r .. i : ledger'[k].event # "QUARANTINE"
    BY <1>2, <1>4, <1>5
  <1>7. ledger'[i - 1].event = "PROBE_REQUEST"
    BY <1>2, <1>3
  <1>8. ASSUME NEW j \in 1 .. (i - 1), ledger'[j].lease # NoLease
        PROVE  /\ ledger'[j].lease.generation < ledger'[i].lease.generation
               /\ ledger'[j].lease.certificate < ledger'[i].lease.certificate
    <2>1. ledger'[j] = ledger[j] /\ ledger'[i] = ledger[i]
      BY <1>2
    <2> QED
      BY <1>3, <1>8, <2>1
  <1> QED
    BY <1>6, <1>7, <1>8

\* One entry more, or two, none of them a lease.
LEMMA NoLeaseAdded ==
    ASSUME ledger \in Seq(Entries), ledger' \in Seq(Entries), LeasesAudited,
           NEW e, NEW f, e.event # "LEASE_INSTALLED",
           f.event # "LEASE_INSTALLED",
           ledger' = ledger \/ Adds1(e) \/ Adds2(e, f)
    PROVE  LeasesAudited'
  <1>1. /\ Len(ledger) \in Nat /\ DOMAIN ledger' = 1 .. Len(ledger')
    OBVIOUS
  <1>2. CASE ledger' = ledger
    BY <1>2 DEF LeasesAudited
  <1>3. CASE Adds1(e)
    <2>1. Kept /\ Len(ledger') >= Len(ledger)
      BY <1>1, <1>3 DEF Adds1
    <2>2. ASSUME NEW i \in DOMAIN ledger', ledger'[i].event = "LEASE_INSTALLED"
          PROVE  i <= Len(ledger)
      BY <1>1, <1>3, <2>2 DEF Adds1
    <2> QED
      BY <2>1, <2>2, KeepLeases DEF LeasesAudited
  <1>4. CASE Adds2(e, f)
    <2>1. Kept /\ Len(ledger') >= Len(ledger)
      BY <1>1, <1>4 DEF Adds2
    <2>2. ASSUME NEW i \in DOMAIN ledger', ledger'[i].event = "LEASE_INSTALLED"
          PROVE  i <= Len(ledger)
      <3>1. i \notin {Len(ledger) + 1, Len(ledger) + 2}
        BY <1>4, <2>2 DEF Adds2
      <3> QED
        BY <1>1, <1>4, <3>1 DEF Adds2
    <2> QED
      BY <2>1, <2>2, KeepLeases DEF LeasesAudited
  <1> QED
    BY <1>2, <1>3, <1>4

\* One entry more, which is not a lease.
LEMMA NoLeaseAdded1 ==
    ASSUME ledger \in Seq(Entries), ledger' \in Seq(Entries), LeasesAudited,
           NEW e, e.event # "LEASE_INSTALLED", ledger' = ledger \/ Adds1(e)
    PROVE  LeasesAudited'
  BY NoLeaseAdded

\* The body's generation and certificate have not gone back.
Advances ==
    body'.generation >= body.generation /\ body'.certificate >= body.certificate

\* No lease is newer than the body, after one entry or two.
LEMMA KeepOrder ==
    ASSUME ledger \in Seq(Entries), ledger' \in Seq(Entries),
           body \in BodyState, body' \in BodyState, LeaseOrder, Advances,
           NEW e, NEW f, NotNewer(e.lease, body'), NotNewer(f.lease, body'),
           ledger' = ledger \/ Adds1(e) \/ Adds2(e, f)
    PROVE  LeaseOrder'
  <1>1. /\ Len(ledger) \in Nat /\ DOMAIN ledger = 1 .. Len(ledger)
        /\ DOMAIN ledger' = 1 .. Len(ledger')
    OBVIOUS
  <1>2. ASSUME NEW j \in DOMAIN ledger, ledger'[j] = ledger[j]
        PROVE  NotNewer(ledger'[j].lease, body')
    <2>1. ledger[j] \in Entries
      BY ElementType
    <2>2. NotNewer(ledger[j].lease, body)
      BY DEF LeaseOrder
    <2>3. CASE ledger[j].lease = NoLease
      BY <1>2, <2>3 DEF NotNewer
    <2>4. CASE ledger[j].lease # NoLease
      <3>1. /\ ledger[j].lease.generation \in Nat
            /\ ledger[j].lease.certificate \in Nat
        BY <2>1, <2>4 DEF Entries, OptionalLease, SafetyLease
      <3>2. /\ body.generation \in Nat /\ body.certificate \in Nat
            /\ body'.generation \in Nat /\ body'.certificate \in Nat
        BY DEF BodyState
      <3>3. /\ ledger[j].lease.generation <= body.generation
            /\ ledger[j].lease.certificate <= body.certificate
        BY <2>2, <2>4 DEF NotNewer
      <3>4. /\ ledger[j].lease.generation <= body'.generation
            /\ ledger[j].lease.certificate <= body'.certificate
        BY <3>1, <3>2, <3>3 DEF Advances
      <3> QED
        BY <1>2, <3>4 DEF NotNewer
    <2> QED
      BY <2>3, <2>4
  <1>3. ASSUME NEW j \in DOMAIN ledger'
        PROVE  NotNewer(ledger'[j].lease, body')
    <2>1. \/ j \in DOMAIN ledger /\ ledger'[j] = ledger[j]
          \/ ledger'[j] \in {e, f}
      <3>1. CASE ledger' = ledger
        BY <3>1
      <3>2. CASE Adds1(e)
        BY <1>1, <3>2 DEF Adds1, Kept
      <3>3. CASE Adds2(e, f)
        <4>1. j \in 1 .. Len(ledger) \/ j \in {Len(ledger) + 1, Len(ledger) + 2}
          BY <1>1, <3>3 DEF Adds2
        <4> QED
          BY <1>1, <3>3, <4>1 DEF Adds2, Kept
      <3> QED
        BY <3>1, <3>2, <3>3
    <2> QED
      BY <1>2, <2>1
  <1> QED
    BY <1>3 DEF LeaseOrder

\* Likewise for one entry.
LEMMA KeepOrder1 ==
    ASSUME ledger \in Seq(Entries), ledger' \in Seq(Entries),
           body \in BodyState, body' \in BodyState, LeaseOrder, Advances,
           NEW e, NotNewer(e.lease, body'), ledger' = ledger \/ Adds1(e)
    PROVE  LeaseOrder'
  BY KeepOrder

\* The confirmed rollback is still after the last quarantine.
LEMMA KeepRollback ==
    ASSUME ledger \in Seq(Entries), ledger' \in Seq(Entries), RollbackTrail,
           NEW e, e.event # "QUARANTINE", ledger' = ledger \/ Adds1(e)
    PROVE  RollbackTrail'
  <1>1. /\ Len(ledger) \in Nat /\ DOMAIN ledger = 1 .. Len(ledger)
        /\ DOMAIN ledger' = 1 .. Len(ledger')
    OBVIOUS
  <1>2. CASE ledger' = ledger
    BY <1>2 DEF RollbackTrail
  <1>3. CASE Adds1(e)
    <2>1. PICK r \in 1 .. Len(ledger) :
              /\ ledger[r].event = "ROLLBACK_ACK_ACCEPTED"
              /\ \A k \in r .. Len(ledger) : ledger[k].event # "QUARANTINE"
      BY <1>1 DEF RollbackTrail
    <2>2. r \in DOMAIN ledger' /\ ledger'[r] = ledger[r]
      BY <1>1, <1>3 DEF Adds1, Kept
    <2>3. ASSUME NEW k \in r .. Len(ledger')
          PROVE  ledger'[k].event # "QUARANTINE"
      <3>1. CASE k = Len(ledger) + 1
        BY <1>3, <3>1 DEF Adds1
      <3>2. CASE k # Len(ledger) + 1
        <4>1. k \in r .. Len(ledger) /\ k \in 1 .. Len(ledger)
          BY <1>1, <1>3, <3>2 DEF Adds1
        <4> QED
          BY <1>3, <2>1, <4>1 DEF Adds1, Kept
      <3> QED
        BY <3>1, <3>2
    <2> QED
      BY <2>1, <2>2, <2>3 DEF RollbackTrail
  <1> QED
    BY <1>2, <1>3

\* A rollback accepted now is after every quarantine.
LEMMA NewRollback ==
    ASSUME ledger \in Seq(Entries), ledger' \in Seq(Entries),
           NEW e, e.event = "ROLLBACK_ACK_ACCEPTED", Adds1(e)
    PROVE  RollbackTrail'
  <1>1. /\ Len(ledger) \in Nat /\ DOMAIN ledger' = 1 .. Len(ledger')
        /\ Len(ledger') = Len(ledger) + 1
    BY DEF Adds1
  <1>2. /\ Len(ledger') \in DOMAIN ledger'
        /\ ledger'[Len(ledger')].event = "ROLLBACK_ACK_ACCEPTED"
        /\ \A k \in Len(ledger') .. Len(ledger') : k = Len(ledger')
    BY <1>1 DEF Adds1
  <1> QED
    BY <1>2 DEF RollbackTrail

\* A probe was answered: the new lease has its trail.
LEMMA LeaseAdded ==
    ASSUME ledger \in Seq(Entries), ledger' \in Seq(Entries),
           LeasesAudited, LeaseOrder, RollbackTrail, Len(ledger) > 0,
           ledger[Len(ledger)].event = "PROBE_REQUEST",
           body \in BodyState, NEW e, NEW f,
           e.event = "LEASE_INSTALLED", f.event = "PROBE_ACCEPTED",
           e.lease.generation = body.generation + 1,
           e.lease.certificate = body.certificate + 1,
           Adds1(e) \/ Adds2(e, f)
    PROVE  LeasesAudited'
  <1> DEFINE n == Len(ledger) + 1
  <1>1. /\ Len(ledger) \in Nat /\ DOMAIN ledger = 1 .. Len(ledger)
        /\ DOMAIN ledger' = 1 .. Len(ledger')
    OBVIOUS
  <1>2. /\ Kept /\ (Len(ledger') = n \/ Len(ledger') = n + 1)
        /\ ledger'[n] = e
        /\ Len(ledger') = n + 1 => ledger'[n + 1] = f
    <2>1. CASE Adds1(e)
      BY <1>1, <2>1 DEF Adds1
    <2>2. CASE Adds2(e, f)
      BY <1>1, <2>2 DEF Adds2
    <2> QED
      BY <2>1, <2>2
  <1>3. /\ n \in Nat /\ n > 1 /\ n - 1 \in 1 .. Len(ledger)
        /\ n - 1 = Len(ledger)
    BY <1>1
  <1>4. ledger'[n - 1].event = "PROBE_REQUEST"
    BY <1>2, <1>3 DEF Kept
  <1>5. PICK r \in 1 .. Len(ledger) :
            /\ ledger[r].event = "ROLLBACK_ACK_ACCEPTED"
            /\ \A k \in r .. Len(ledger) : ledger[k].event # "QUARANTINE"
    BY <1>1 DEF RollbackTrail
  <1>6. /\ r \in 1 .. (n - 1)
        /\ ledger'[r].event = "ROLLBACK_ACK_ACCEPTED"
    BY <1>2, <1>3, <1>5 DEF Kept
  <1>7. ASSUME NEW k \in r .. n
        PROVE  ledger'[k].event # "QUARANTINE"
    <2>1. CASE k = n
      BY <1>2, <2>1
    <2>2. CASE k # n
      <3>1. k \in r .. Len(ledger) /\ k \in 1 .. Len(ledger)
        BY <1>1, <2>2
      <3> QED
        BY <1>2, <1>5, <3>1 DEF Kept
    <2> QED
      BY <2>1, <2>2
  <1>8. ASSUME NEW j \in 1 .. (n - 1), ledger'[j].lease # NoLease
        PROVE  /\ ledger'[j].lease.generation < ledger'[n].lease.generation
               /\ ledger'[j].lease.certificate < ledger'[n].lease.certificate
    <2>1. j \in 1 .. Len(ledger) /\ ledger'[j] = ledger[j]
      BY <1>2, <1>3 DEF Kept
    <2>2. ledger[j] \in Entries /\ NotNewer(ledger[j].lease, body)
      BY <1>1, <2>1, ElementType DEF LeaseOrder
    <2>3. /\ ledger[j].lease.generation \in Nat
          /\ ledger[j].lease.certificate \in Nat
          /\ body.generation \in Nat /\ body.certificate \in Nat
      BY <1>8, <2>1, <2>2 DEF Entries, OptionalLease, SafetyLease, BodyState
    <2>4. /\ ledger[j].lease.generation <= body.generation
          /\ ledger[j].lease.certificate <= body.certificate
      BY <1>8, <2>1, <2>2 DEF NotNewer
    <2>5. /\ ledger'[n].lease.generation = body.generation + 1
          /\ ledger'[n].lease.certificate = body.certificate + 1
      BY <1>2
    <2>6. /\ ledger[j].lease.generation < body.generation + 1
          /\ ledger[j].lease.certificate < body.certificate + 1
      BY SMTT(30), <2>3, <2>4
    <2> QED
      BY <2>1, <2>5, <2>6
  <1>9. ASSUME NEW i \in DOMAIN ledger', i > 1,
               ledger'[i].event = "LEASE_INSTALLED"
        PROVE  i = n \/ i <= Len(ledger)
    <2>1. CASE Len(ledger') = n
      BY <1>1, <2>1
    <2>2. CASE Len(ledger') = n + 1
      <3>1. i # n + 1
        BY <1>2, <1>9, <2>2
      <3> QED
        BY <1>1, <2>2, <3>1
    <2> QED
      BY <1>2, <2>1, <2>2
  <1>10. Len(ledger') >= Len(ledger)
    <2>1. CASE Len(ledger') = n
      BY <1>1, <2>1
    <2>2. CASE Len(ledger') = n + 1
      BY <1>1, <2>2
    <2> QED
      BY <1>2, <2>1, <2>2
  <1> HIDE DEF n
  <1>11. \E s \in 1 .. (n - 1) :
             /\ ledger'[s].event = "ROLLBACK_ACK_ACCEPTED"
             /\ \A k \in s .. n : ledger'[k].event # "QUARANTINE"
    BY <1>6, <1>7
  <1>12. ASSUME NEW i \in DOMAIN ledger', i > 1,
                ledger'[i].event = "LEASE_INSTALLED"
         PROVE  /\ ledger'[i - 1].event = "PROBE_REQUEST"
                /\ \E s \in 1 .. (i - 1) :
                      /\ ledger'[s].event = "ROLLBACK_ACK_ACCEPTED"
                      /\ \A k \in s .. i : ledger'[k].event # "QUARANTINE"
                /\ \A j \in 1 .. (i - 1) : ledger'[j].lease # NoLease =>
                      /\ ledger'[j].lease.generation
                            < ledger'[i].lease.generation
                      /\ ledger'[j].lease.certificate
                            < ledger'[i].lease.certificate
    <2>1. CASE i = n
      BY <1>4, <1>8, <1>11, <2>1
    <2>2. CASE i <= Len(ledger)
      BY <1>2, <1>10, <1>12, <2>2, KeepLeases
    <2> QED
      BY <1>9, <1>12, <2>1, <2>2
  <1> QED
    BY <1>12 DEF LeasesAudited

\* The lease in force is the body's own.
LEMMA ActiveNotNewer ==
    ASSUME IInv, pc \in {"loop", "ack", "exit"}
    PROVE  NotNewer(active_lease, body) /\ NotNewer(NoLease, body)
  <1>1. CASE active_lease = NoLease
    BY <1>1 DEF NotNewer
  <1>2. CASE active_lease # NoLease
    <2>1. /\ authority_snapshot(body) = authority_snapshot(active_lease)
          /\ body \in BodyState
      BY <1>2 DEF IInv, AuthorityInv, TypeOK
    <2>2. /\ authority_snapshot(body).generation = body.generation
          /\ authority_snapshot(body).certificate = body.certificate
          /\ authority_snapshot(active_lease).generation
                = active_lease.generation
          /\ authority_snapshot(active_lease).certificate
                = active_lease.certificate
      BY DEF authority_snapshot
    <2> QED
      BY <2>1, <2>2 DEF NotNewer, BodyState
  <1> QED
    BY <1>1, <1>2

\* A handler that records, under the authority in force, neither a lease nor
\* a quarantine.
LEMMA PlainLeases ==
    ASSUME IInv, TypeOK', LeaseInv, UNCHANGED body,
           pc \in {"loop", "ack", "exit"}, pc' # "hello",
           pc' \in Live /\ rollback_confirmed' => rollback_confirmed,
           ~(pc' = "ack" /\ expected'.op = "PROBE"),
           NEW e, e.event \notin {"LEASE_INSTALLED", "QUARANTINE"},
           e.lease \in {active_lease, NoLease},
           ledger' = ledger \/ Adds1(e)
    PROVE  LeaseInv'
  <1>1. /\ ledger \in Seq(Entries) /\ ledger' \in Seq(Entries)
        /\ body \in BodyState /\ body' \in BodyState
        /\ LeasesAudited /\ LeaseOrder /\ ProbeInv
    BY DEF IInv, TypeOK, LeaseInv
  <1>2. Advances
    BY <1>1 DEF Advances, BodyState
  <1>3. NotNewer(e.lease, body')
    BY ActiveNotNewer
  <1>4. LeasesAudited'
    BY <1>1, NoLeaseAdded1
  <1>5. LeaseOrder'
    BY <1>1, <1>2, <1>3, KeepOrder1
  <1>6. RollbackTrail => RollbackTrail'
    BY <1>1, KeepRollback
  <1>7. ProbeInv'
    BY <1>1, <1>6 DEF ProbeInv, Live
  <1> QED
    BY <1>4, <1>5, <1>7 DEF LeaseInv

\* A handler that records nothing.
LEMMA SameLeases ==
    ASSUME LeaseInv, UNCHANGED <<body, ledger>>, pc \in Live, pc' # "hello",
           pc' \in Live /\ rollback_confirmed' => rollback_confirmed,
           ~(pc' = "ack" /\ expected'.op = "PROBE")
    PROVE  LeaseInv'
  BY DEF LeaseInv, LeasesAudited, LeaseOrder, ProbeInv, RollbackTrail

\* A handler that ends the run.
LEMMA LastLeases ==
    ASSUME LeasesAudited', LeaseOrder', pc' \in {"failed", "done"}
    PROVE  LeaseInv'
  BY DEF LeaseInv, ProbeInv, Live

\* quarantine and the rejection of an acknowledgement keep the trail.
LEMMA WithdrawnLeases ==
    ASSUME IInv, TypeOK', LeaseInv, Advances, pc' \in {"ack", "failed"},
           ~rollback_confirmed' \/ pc' = "failed",
           pc' = "ack" => expected'.op # "PROBE",
           NEW e, e.event # "LEASE_INSTALLED", e.lease = NoLease,
           ledger' = ledger \/ Adds1(e)
    PROVE  LeaseInv'
  <1>1. /\ ledger \in Seq(Entries) /\ ledger' \in Seq(Entries)
        /\ body \in BodyState /\ body' \in BodyState
        /\ LeasesAudited /\ LeaseOrder
    BY DEF IInv, TypeOK, LeaseInv
  <1>2. LeasesAudited'
    BY <1>1, NoLeaseAdded1
  <1>3. NotNewer(e.lease, body')
    BY DEF NotNewer
  <1>4. LeaseOrder'
    BY <1>1, <1>3, KeepOrder1
  <1> QED
    BY <1>2, <1>4 DEF LeaseInv, ProbeInv, Live

\* Every step of the main thread keeps the trail of leases.
LEMMA MainLeases ==
    ASSUME IInv, LeaseInv, MainStep
    PROVE  LeaseInv'
  <1>1. /\ TypeOK /\ TypeOK'
        /\ ledger \in Seq(Entries) /\ ledger' \in Seq(Entries)
        /\ body \in BodyState /\ body' \in BodyState
        /\ LeasesAudited /\ LeaseOrder /\ ProbeInv
    BY MainType DEF IInv, TypeOK, LeaseInv
  <1>2. UNCHANGED body => Advances
    BY <1>1 DEF Advances, BodyState
  <1>3. CASE AcceptHello
    <2>1. /\ ledger = <<>> /\ ~rollback_confirmed
          /\ UNCHANGED <<body, rollback_confirmed>>
          /\ pc' \in {"loop", "failed"}
      BY <1>1, <1>3, HelloWrites DEF ProbeInv, IInv, AuthorityInv, Wrote1
    <2>2. CASE ledger' = ledger
      BY <1>1, <1>3, <2>1, <2>2, HelloWrites, SameLeases DEF Live
    <2>3. CASE ledger' # ledger
      <3> DEFINE e == Entry("LEASE_INSTALLED", "ALLOW", body, active_lease')
      <3>1. Adds1(e) /\ e.lease = active_lease'
        BY <1>1, <1>3, <2>3, HelloWrites, EntryFields DEF Wrote1
      <3>2. \E t \in 0 .. U64_MAX : active_lease' = SomeLease(body, t)
        BY <1>1, <1>3, <2>3, HelloWrites
      <3>3. NotNewer(e.lease, body')
        BY <1>1, <2>1, <3>1, <3>2 DEF SomeLease, NotNewer, BodyState
      <3> HIDE DEF e
      <3>4. LeaseOrder'
        BY <1>1, <1>2, <2>1, <3>1, <3>3, KeepOrder1
      <3>5. DOMAIN ledger' = 1 .. 1
        BY <1>1, <2>1, <3>1 DEF Adds1
      <3>6. LeasesAudited'
        BY <3>5 DEF LeasesAudited
      <3> QED
        BY <2>1, <3>4, <3>6 DEF LeaseInv, ProbeInv
    <2> QED
      BY <2>2, <2>3
  <1>4. CASE RejectHello
    BY <1>4, SameLeases DEF RejectHello, Fail, Live
  <1>5. CASE Begin
    <2> DEFINE e == Entry("BEGIN_ACTION", "ALLOW", body, active_lease)
    <2>1. /\ pc = "loop" /\ pc' \in {"loop", "failed"}
          /\ UNCHANGED <<body, rollback_confirmed>>
          /\ \/ ledger' = ledger
             \/ Adds1(e)
      BY <1>1, <1>5, BeginWrites DEF Wrote1
    <2>2. e.event = "BEGIN_ACTION" /\ e.lease = active_lease
      BY EntryFields
    <2> HIDE DEF e
    <2> QED
      BY <1>1, <2>1, <2>2, PlainLeases
  <1>6. CASE CommitAllowed
    <2>1. /\ pc = "loop" /\ pc' \in {"ack", "failed"}
          /\ pc' = "ack" => expected'.op = "WORK"
          /\ UNCHANGED <<body, rollback_confirmed, ledger>>
      BY <1>1, <1>6, AllowedWrites
    <2> QED
      BY <2>1, SameLeases DEF Live
  <1>7. CASE CommitBlocked
    <2> DEFINE e == Entry("COMMIT_BLOCKED", Decision, body, active_lease)
    <2>1. /\ pc = "loop" /\ pc' \in {"loop", "failed"}
          /\ UNCHANGED <<body, rollback_confirmed>>
          /\ \/ ledger' = ledger
             \/ Adds1(e)
      BY <1>1, <1>7, BlockedWrites DEF Wrote1
    <2>2. e.event = "COMMIT_BLOCKED" /\ e.lease = active_lease
      BY EntryFields
    <2> HIDE DEF e
    <2> QED
      BY <1>1, <2>1, <2>2, PlainLeases
  <1>8. ASSUME NEW b \in BodyState, Quarantine(b),
               b.generation >= body.generation,
               b.certificate >= body.certificate
        PROVE  LeaseInv'
    <2> DEFINE e == Entry("QUARANTINE", "BLOCK_QUARANTINE", body', NoLease)
    <2>1. /\ pc' \in {"ack", "failed"} /\ ~rollback_confirmed'
          /\ pc' = "ack" => expected'.op = "ROLLBACK"
          /\ body' = [b EXCEPT !.quarantined = TRUE]
          /\ \/ ledger' = ledger
             \/ Adds1(e)
      BY <1>1, <1>8, QuarantineWrites DEF Wrote1
    <2>2. Advances
      BY <1>8, <2>1 DEF Advances, BodyState
    <2>3. e.event = "QUARANTINE" /\ e.lease = NoLease
      BY EntryFields
    <2> HIDE DEF e
    <2> QED
      BY <1>1, <2>1, <2>3, <2>2, WithdrawnLeases
  <1>9. CASE Reset
    <2>1. CASE CanIncrement({body.epoch, body.generation})
      <3> DEFINE b == [body EXCEPT !.epoch = @ + 1, !.generation = @ + 1]
      <3>1. b \in BodyState
        BY <1>1, ResetBody
      <3>2. b.generation >= body.generation /\ b.certificate >= body.certificate
        BY <1>1 DEF BodyState
      <3>3. Quarantine(b)
        BY <1>9, <2>1 DEF Reset
      <3> HIDE DEF b
      <3> QED
        BY <1>8, <3>1, <3>2, <3>3
    <2>2. CASE ~CanIncrement({body.epoch, body.generation})
      BY <1>9, <2>2, SameLeases DEF Reset, Receive, Fail, Live
    <2> QED
      BY <2>1, <2>2
  <1>10. CASE Silence
    <2>1. /\ body.generation >= body.generation
          /\ body.certificate >= body.certificate
      BY <1>1 DEF BodyState
    <2> QED
      BY <1>1, <1>8, <1>10, <2>1 DEF Silence
  <1>11. CASE ProbeRefused
    <2> DEFINE e == Entry("PROBE_REJECTED", "BLOCK_QUARANTINE", body, NoLease)
    <2>1. /\ pc = "loop" /\ pc' \in {"loop", "failed"}
          /\ UNCHANGED <<body, rollback_confirmed>>
          /\ \/ ledger' = ledger
             \/ Adds1(e)
      BY <1>1, <1>11, RefusedWrites DEF Wrote1
    <2>2. e.event = "PROBE_REJECTED" /\ e.lease = NoLease
      BY EntryFields
    <2> HIDE DEF e
    <2> QED
      BY <1>1, <2>1, <2>2, PlainLeases
  <1>12. CASE ProbeSent
    <2> DEFINE e == Entry("PROBE_REQUEST", "BLOCK_QUARANTINE", body, NoLease)
    <2>1. /\ pc = "loop" /\ pc' \in {"ack", "failed"} /\ rollback_confirmed
          /\ pc' = "ack" => expected'.id = body.certificate + 1
          /\ UNCHANGED <<body, rollback_confirmed>>
          /\ Adds1(e) \/ (ledger' = ledger /\ pc' = "failed")
      BY <1>1, <1>12, ProbeWrites DEF Wrote1
    <2>2. e.event = "PROBE_REQUEST" /\ e.lease = NoLease
      BY EntryFields
    <2> HIDE DEF e
    <2>3. NotNewer(e.lease, body')
      BY <2>2 DEF NotNewer
    <2>4. LeasesAudited'
      BY <1>1, <2>1, <2>2, NoLeaseAdded1
    <2>5. LeaseOrder'
      BY <1>1, <1>2, <2>1, <2>3, KeepOrder1
    <2>6. RollbackTrail'
      BY <1>1, <2>1, <2>2, KeepRollback DEF ProbeInv, Live
    <2>7. CASE Adds1(e)
      <3>1. Len(ledger') > 0 /\ ledger'[Len(ledger')].event = "PROBE_REQUEST"
        BY <1>1, <2>2, <2>7 DEF Adds1
      <3> QED
        BY <2>1, <2>4, <2>5, <2>6, <3>1 DEF LeaseInv, ProbeInv
    <2>8. CASE pc' = "failed"
      BY <2>4, <2>5, <2>8, LastLeases
    <2> QED
      BY <2>1, <2>7, <2>8
  <1>13. CASE Stop
    <2>1. /\ pc = "loop" /\ pc' \in {"ack", "failed"}
          /\ pc' = "ack" => expected'.op = "STOP"
          /\ UNCHANGED <<body, rollback_confirmed, ledger>>
      BY <1>1, <1>13, StopWrites
    <2> QED
      BY <2>1, SameLeases DEF Live
  <1>14. CASE WorkAccepted
    <2> DEFINE e == Entry("CHILD_ACK_ACCEPTED", "ALLOW", body, active_lease)
               f == Entry("COMMIT", "ALLOW", body, active_lease)
    <2>1. /\ pc = "ack" /\ expected.op = "WORK" /\ pc' \in {"loop", "failed"}
          /\ UNCHANGED <<body, rollback_confirmed>>
          /\ ledger' = ledger \/ Adds1(e) \/ Adds2(e, f)
      BY <1>14, WorkWrites DEF Wrote2
    <2>2. /\ e.event # "LEASE_INSTALLED" /\ e.lease = active_lease
          /\ f.event # "LEASE_INSTALLED" /\ f.lease = active_lease
      BY EntryFields
    <2> HIDE DEF e, f
    <2>3. NotNewer(e.lease, body') /\ NotNewer(f.lease, body')
      BY <2>1, <2>2, ActiveNotNewer
    <2>4. LeasesAudited'
      BY <1>1, <2>1, <2>2, NoLeaseAdded
    <2>5. LeaseOrder'
      BY <1>1, <1>2, <2>1, <2>3, KeepOrder
    <2>6. ~rollback_confirmed'
      BY <2>1 DEF IInv, AuthorityInv, Live
    <2> QED
      BY <2>1, <2>4, <2>5, <2>6 DEF LeaseInv, ProbeInv
  <1>15. CASE RollbackAccepted
    <2> DEFINE e == Entry("ROLLBACK_ACK_ACCEPTED", "BLOCK_QUARANTINE", body,
                          NoLease)
    <2>1. /\ pc = "ack" /\ pc' \in {"loop", "failed"} /\ UNCHANGED body
          /\ Adds1(e) \/ (ledger' = ledger /\ pc' = "failed")
      BY <1>1, <1>15, RollbackWrites DEF Wrote1
    <2>2. e.event = "ROLLBACK_ACK_ACCEPTED" /\ e.lease = NoLease
      BY EntryFields
    <2> HIDE DEF e
    <2>3. NotNewer(e.lease, body')
      BY <2>2 DEF NotNewer
    <2>4. LeasesAudited'
      BY <1>1, <2>1, <2>2, NoLeaseAdded1
    <2>5. LeaseOrder'
      BY <1>1, <1>2, <2>1, <2>3, KeepOrder1
    <2>6. pc' = "failed" \/ RollbackTrail'
      BY <1>1, <2>1, <2>2, NewRollback
    <2> QED
      BY <2>1, <2>4, <2>5, <2>6, LastLeases DEF LeaseInv, ProbeInv
  <1>16. CASE ProbeAccepted
    <2>1. CASE UNCHANGED <<body, ledger>> /\ pc' = "failed"
      BY <1>16, <2>1, SameLeases DEF ProbeAccepted, Live
    <2>2. CASE ~(UNCHANGED <<body, ledger>> /\ pc' = "failed")
      <3> DEFINE e == Entry("LEASE_INSTALLED", "ALLOW", body', active_lease')
                 f == Entry("PROBE_ACCEPTED", "ALLOW", body', active_lease')
      <3>1. /\ pc = "ack" /\ expected.op = "PROBE"
            /\ pc' \in {"loop", "failed"} /\ ~rollback_confirmed'
            /\ body' = [body EXCEPT !.certificate = expected.id,
                                    !.generation = @ + 1,
                                    !.quarantined = FALSE]
            /\ \E t \in 0 .. U64_MAX : active_lease' = SomeLease(body', t)
            /\ ledger' = ledger \/ Adds1(e) \/ Adds2(e, f)
        BY <1>1, <1>16, <2>2, RenewalWrites DEF Wrote2
      <3>2. /\ e.event = "LEASE_INSTALLED" /\ e.lease = active_lease'
            /\ f.event = "PROBE_ACCEPTED" /\ f.lease = active_lease'
        BY EntryFields
      <3> HIDE DEF e, f
      <3>3. /\ expected.id = body.certificate + 1 /\ RollbackTrail
            /\ Len(ledger) > 0
            /\ ledger[Len(ledger)].event = "PROBE_REQUEST"
        BY <1>1, <3>1 DEF ProbeInv, Live
      <3>4. /\ body'.certificate = body.certificate + 1
            /\ body'.generation = body.generation + 1
        BY <1>1, <3>1, <3>3 DEF BodyState
      <3>5. Advances
        BY <1>1, <3>4 DEF Advances, BodyState
      <3>6. /\ active_lease'.generation = body.generation + 1
            /\ active_lease'.certificate = body.certificate + 1
        BY <3>1, <3>4 DEF SomeLease
      <3>7. NotNewer(e.lease, body') /\ NotNewer(f.lease, body')
        BY <1>1, <3>2, <3>4, <3>6 DEF NotNewer, BodyState
      <3>8. LeaseOrder'
        BY <1>1, <3>1, <3>5, <3>7, KeepOrder
      <3>9. LeasesAudited'
        <4>1. CASE ledger' = ledger
          BY <1>1, <4>1 DEF LeasesAudited
        <4>2. CASE ledger' # ledger
          <5>1. Adds1(e) \/ Adds2(e, f)
            BY <3>1, <4>2
          <5>2. /\ e.lease.generation = body.generation + 1
                /\ e.lease.certificate = body.certificate + 1
            BY <3>2, <3>6
          <5> QED
            BY <1>1, <3>2, <3>3, <5>1, <5>2, LeaseAdded
        <4> QED
          BY <4>1, <4>2
      <3> QED
        BY <3>1, <3>8, <3>9 DEF LeaseInv, ProbeInv
    <2> QED
      BY <2>1, <2>2
  <1>17. CASE StopAccepted
    BY <1>17, SameLeases DEF StopAccepted, runtimeVars, Live
  <1>18. CASE ProtocolRejection
    <2> DEFINE e == Entry("PROTOCOL_ACK_REJECTED", "BLOCK_QUARANTINE", body',
                          NoLease)
    <2>1. /\ pc' = "failed" /\ body' = [body EXCEPT !.quarantined = TRUE]
          /\ \/ ledger' = ledger
             \/ Adds1(e)
      BY <1>1, <1>18, RejectionWrites
    <2>2. Advances
      BY <1>1, <2>1 DEF Advances, BodyState
    <2>3. e.event = "PROTOCOL_ACK_REJECTED" /\ e.lease = NoLease
      BY EntryFields
    <2> HIDE DEF e
    <2> QED
      BY <1>1, <2>1, <2>3, <2>2, WithdrawnLeases
  <1>19. CASE RejectAck /\ ~ProtocolRejection
    <2> DEFINE e == Entry("ROLLBACK_ACK_REJECTED", "BLOCK_QUARANTINE", body,
                          NoLease)
    <2>1. /\ pc' = "failed" /\ UNCHANGED body
          /\ \/ ledger' = ledger
             \/ Adds1(e)
      BY <1>1, <1>19, RejectAckWrites DEF Wrote1
    <2>2. e.event = "ROLLBACK_ACK_REJECTED" /\ e.lease = NoLease
      BY EntryFields
    <2> HIDE DEF e
    <2> QED
      BY <1>1, <1>2, <2>1, <2>2, WithdrawnLeases
  <1>20. CASE Finish
    <2> DEFINE e == Entry("FINAL", IF FinalDamage = 0 THEN "ALLOW"
                                   ELSE "BLOCK_ACTION", body, active_lease)
               f == Entry("LEDGER_SEAL", "ALLOW", body, active_lease)
    <2>1. /\ pc = "exit" /\ pc' \in {"done", "failed"} /\ UNCHANGED body
          /\ ledger' = ledger \/ Adds1(e) \/ Adds2(e, f)
      BY <1>1, <1>20, FinishWrites DEF Wrote2
    <2>2. /\ e.event # "LEASE_INSTALLED" /\ e.lease = active_lease
          /\ f.event # "LEASE_INSTALLED" /\ f.lease = active_lease
      BY EntryFields
    <2> HIDE DEF e, f
    <2>3. NotNewer(e.lease, body') /\ NotNewer(f.lease, body')
      BY <2>1, <2>2, ActiveNotNewer
    <2>4. LeasesAudited'
      BY <1>1, <2>1, <2>2, NoLeaseAdded
    <2>5. LeaseOrder'
      BY <1>1, <1>2, <2>1, <2>3, KeepOrder
    <2> QED
      BY <2>1, <2>4, <2>5, LastLeases
  <1> QED
    BY <1>3, <1>4, <1>5, <1>6, <1>7, <1>9, <1>10, <1>11, <1>12, <1>13,
       <1>14, <1>15, <1>16, <1>17, <1>18, <1>19, <1>20
       DEF MainStep, UncleanExit

-----------------------------------------------------------------------------
(* The counters.                                                           *)

MetricsFit(m) ==
    m \in [MetricNames -> Nat] /\ \A n \in MetricNames : m[n] <= U64_MAX

BodyFits(b) == {b.epoch, b.generation, b.certificate} \subseteq 0 .. U64_MAX

LeaseFits(l) == l # NoLease => l.valid_until <= U64_MAX

\* CountersFit, by the field it is about.
LEMMA FitParts ==
    ASSUME TypeOK
    PROVE  CountersFit <=>
              /\ MetricsFit(metrics) /\ BodyFits(body)
              /\ LeaseFits(active_lease)
              /\ action_counter <= U64_MAX /\ transaction_nonce <= U64_MAX
              /\ performed <= U64_MAX
  <1>1. /\ metrics \in [MetricNames -> Nat] /\ action_counter \in Nat
        /\ transaction_nonce \in Nat /\ performed \in Nat
    BY DEF TypeOK
  <1>2. \A c \in Nat : c <= U64_MAX <=> c \in 0 .. U64_MAX
    BY U64Assumption
  <1> QED
    BY <1>1, <1>2 DEF CountersFit, MetricsFit, BodyFits, LeaseFits

\* Likewise for the state a step leads to.
LEMMA FitNext ==
    ASSUME TypeOK', MetricsFit(metrics'), BodyFits(body'),
           LeaseFits(active_lease'), action_counter' <= U64_MAX,
           transaction_nonce' <= U64_MAX, performed' <= U64_MAX
    PROVE  CountersFit'
  <1>1. /\ action_counter' \in Nat /\ transaction_nonce' \in Nat
        /\ performed' \in Nat
    BY DEF TypeOK
  <1>2. \A c \in Nat : c <= U64_MAX <=> c \in 0 .. U64_MAX
    BY U64Assumption
  <1> QED
    BY <1>1, <1>2 DEF CountersFit, MetricsFit, BodyFits, LeaseFits

\* saturating_add stays within u64, and damage is 0 or 1.
LEMMA CountFits ==
    ASSUME NEW m, MetricsFit(m), NEW names
    PROVE  /\ MetricsFit(Count(m, names))
           /\ \A v \in 0 .. U64_MAX, n \in MetricNames :
                 /\ MetricsFit([m EXCEPT ![n] = v])
                 /\ MetricsFit([Count(m, names) EXCEPT ![n] = v])
  <1>1. ASSUME NEW c \in Nat, c <= U64_MAX
        PROVE  /\ SaturatingIncrement(c) \in Nat
               /\ SaturatingIncrement(c) <= U64_MAX
    BY <1>1, U64Assumption DEF SaturatingIncrement
  <1>2. MetricsFit(Count(m, names))
    BY <1>1 DEF MetricsFit, Count
  <1>3. ASSUME NEW k, MetricsFit(k), NEW v \in 0 .. U64_MAX,
               NEW n \in MetricNames
        PROVE  MetricsFit([k EXCEPT ![n] = v])
    <2>1. v \in Nat /\ v <= U64_MAX
      BY U64Assumption
    <2> QED
      BY <1>3, <2>1 DEF MetricsFit
  <1> QED
    BY <1>2, <1>3

\* What a handler leaves in the pipe does not make the child overflow.
LEMMA MainPipeFits ==
    ASSUME IInv', pc' # "crashed", stdin' # <<>>, stdin'[1].op = "WORK"
    PROVE  performed' < U64_MAX
  <1>1. pc' = "ack"
    BY DEF IInv, PipeInv, TypeOK, Terminal
  <1>2. expected'.op = "WORK"
    BY <1>1 DEF IInv, FlightInv
  <1> QED
    BY <1>1, <1>2, U64Assumption DEF IInv, CountInv, Live

\* A handler that leaves the body, the lease and the count of actions alone.
LEMMA PlainCounters ==
    ASSUME IInv, IInv', CounterInv, MetricsFit(metrics'),
           UNCHANGED <<body, active_lease, action_counter, performed>>,
           \/ UNCHANGED transaction_nonce
           \/ /\ transaction_nonce < U64_MAX
              /\ transaction_nonce' = transaction_nonce + 1,
           pc' # "crashed",
           pc' = "ack" => expected'.op \notin {"WORK", "PROBE"}
    PROVE  CounterInv'
  <1>1. TypeOK /\ TypeOK' /\ CountersFit
    BY DEF IInv, CounterInv
  <1>2. transaction_nonce' <= U64_MAX
    BY <1>1, FitParts, U64Assumption DEF TypeOK
  <1>3. CountersFit'
    <2>1. /\ BodyFits(body') /\ LeaseFits(active_lease')
          /\ action_counter' <= U64_MAX /\ performed' <= U64_MAX
      BY <1>1, FitParts
    <2> QED
      BY <1>1, <1>2, <2>1, FitNext
  <1> QED
    BY <1>3, MainPipeFits DEF CounterInv

\* Every step of the main thread keeps the counters within u64.
LEMMA MainCounters ==
    ASSUME IInv, IInv', CounterInv, MainStep
    PROVE  CounterInv'
  <1>1. TypeOK /\ TypeOK' /\ CountersFit
    BY DEF IInv, CounterInv
  <1>2. /\ MetricsFit(metrics) /\ BodyFits(body) /\ LeaseFits(active_lease)
        /\ action_counter <= U64_MAX /\ transaction_nonce <= U64_MAX
        /\ performed <= U64_MAX
    BY <1>1, FitParts
  <1>3. 0 \in 0 .. U64_MAX /\ 1 \in 0 .. U64_MAX
    BY U64Assumption
  <1>4. /\ action_counter \in Nat /\ transaction_nonce \in Nat
        /\ performed \in Nat /\ body \in BodyState
        /\ "damage" \in MetricNames /\ "child_actions" \in MetricNames
        /\ U64_MAX \in Nat
    BY <1>1, U64Assumption DEF TypeOK, MetricNames
  <1>5. \A b : \A t \in 0 .. U64_MAX : LeaseFits(SomeLease(b, t))
    BY <1>4 DEF LeaseFits, SomeLease
  <1>6. CASE AcceptHello
    <2>1. /\ pc' \in {"loop", "failed"}
          /\ UNCHANGED <<body, metrics, action_counter, performed,
                         transaction_nonce>>
          /\ \/ active_lease' = active_lease
             \/ \E t \in 0 .. U64_MAX : active_lease' = SomeLease(body, t)
      BY <1>1, <1>6, HelloWrites DEF Wrote1
    <2>2. LeaseFits(active_lease')
      BY <1>2, <1>5, <2>1
    <2>3. CountersFit'
      BY <1>1, <1>2, <2>1, <2>2, FitNext
    <2> QED
      BY <2>1, <2>3, MainPipeFits DEF CounterInv
  <1>7. CASE RejectHello
    BY <1>2, <1>7, PlainCounters DEF RejectHello, Fail
  <1>8. CASE Begin
    <2>1. /\ pc' \in {"loop", "failed"}
          /\ UNCHANGED <<body, active_lease, metrics, action_counter,
                         performed, transaction_nonce>>
      BY <1>1, <1>8, BeginWrites DEF Wrote1
    <2> QED
      BY <1>2, <2>1, PlainCounters
  <1>9. CASE CommitAllowed
    <2>1. /\ pc' \in {"ack", "failed"}
          /\ pc' = "ack" => /\ expected'.op = "WORK"
                            /\ expected'.id = action_counter + 1
                            /\ action_counter < U64_MAX
          /\ UNCHANGED <<body, active_lease, metrics, action_counter,
                         performed>>
          /\ \/ UNCHANGED transaction_nonce
             \/ /\ transaction_nonce < U64_MAX
                /\ transaction_nonce' = transaction_nonce + 1
      BY <1>1, <1>9, AllowedWrites
    <2>2. transaction_nonce' <= U64_MAX
      BY <1>2, <1>4, <2>1
    <2>3. CountersFit'
      BY <1>1, <1>2, <2>1, <2>2, FitNext
    <2>4. pc' = "ack" => expected'.id <= U64_MAX
      BY <1>4, <2>1
    <2> QED
      BY <2>1, <2>3, <2>4, MainPipeFits DEF CounterInv
  <1>10. CASE CommitBlocked
    <2>1. /\ pc' \in {"loop", "failed"}
          /\ metrics' = Count(metrics, {"blocked_commits",
                                        "stale_or_expired_blocked"})
          /\ UNCHANGED <<body, active_lease, action_counter, performed,
                         transaction_nonce>>
      BY <1>1, <1>10, BlockedWrites DEF Wrote1
    <2>2. MetricsFit(metrics')
      BY <1>2, <2>1, CountFits
    <2> QED
      BY <2>1, <2>2, PlainCounters
  <1>11. ASSUME NEW b \in BodyState, Quarantine(b), BodyFits(b)
         PROVE  CounterInv'
    <2>1. /\ pc' \in {"ack", "failed"}
          /\ pc' = "ack" => expected'.op = "ROLLBACK"
          /\ body' = [b EXCEPT !.quarantined = TRUE]
          /\ active_lease' = NoLease
          /\ UNCHANGED <<action_counter, performed>>
          /\ \/ UNCHANGED transaction_nonce
             \/ /\ transaction_nonce < U64_MAX
                /\ transaction_nonce' = transaction_nonce + 1
      BY <1>1, <1>11, QuarantineWrites DEF Wrote1
    <2>2. MetricsFit(metrics')
      <3>1. \/ metrics' = metrics
            \/ \E names : metrics' = Count(metrics, names)
        BY <1>1, <1>11, QuarantineWrites
      <3> QED
        BY <1>2, <3>1, CountFits
    <2>3. transaction_nonce' <= U64_MAX
      BY <1>2, <1>4, <2>1
    <2>4. BodyFits(body') /\ LeaseFits(active_lease')
      BY <1>11, <2>1 DEF BodyFits, LeaseFits, BodyState
    <2>5. CountersFit'
      BY <1>1, <1>2, <2>1, <2>2, <2>3, <2>4, FitNext
    <2> QED
      BY <2>1, <2>5, MainPipeFits DEF CounterInv
  <1>12. CASE Reset
    <2>1. CASE CanIncrement({body.epoch, body.generation})
      <3> DEFINE b == [body EXCEPT !.epoch = @ + 1, !.generation = @ + 1]
      <3>1. b \in BodyState
        BY <1>4, ResetBody
      <3>2. /\ body.epoch \in Nat /\ body.generation \in Nat
            /\ body.epoch < U64_MAX /\ body.generation < U64_MAX
            /\ body.certificate \in 0 .. U64_MAX
        BY <1>2, <1>4, <2>1 DEF CanIncrement, BodyState, BodyFits
      <3>3. /\ b.epoch = body.epoch + 1 /\ b.generation = body.generation + 1
            /\ b.certificate = body.certificate
        BY <1>4 DEF BodyState
      <3>4. Quarantine(b)
        BY <1>12, <2>1 DEF Reset
      <3> HIDE DEF b
      <3>5. b.epoch \in 0 .. U64_MAX /\ b.generation \in 0 .. U64_MAX
        BY <1>4, <3>2, <3>3
      <3>6. BodyFits(b)
        BY <3>2, <3>3, <3>5 DEF BodyFits
      <3> QED
        BY <1>11, <3>1, <3>4, <3>6
    <2>2. CASE ~CanIncrement({body.epoch, body.generation})
      BY <1>2, <1>12, <2>2, PlainCounters DEF Reset, Fail
    <2> QED
      BY <2>1, <2>2
  <1>13. CASE Silence
    BY <1>2, <1>4, <1>11, <1>13 DEF Silence
  <1>14. CASE ProbeRefused
    <2>1. /\ pc' \in {"loop", "failed"}
          /\ metrics' = Count(metrics, {"functional_probe_requests"})
          /\ UNCHANGED <<body, active_lease, action_counter, performed,
                         transaction_nonce>>
      BY <1>1, <1>14, RefusedWrites DEF Wrote1
    <2>2. MetricsFit(metrics')
      BY <1>2, <2>1, CountFits
    <2> QED
      BY <2>1, <2>2, PlainCounters
  <1>15. CASE ProbeSent
    <2>1. /\ pc' \in {"ack", "failed"}
          /\ pc' = "ack" => /\ expected'.op = "PROBE"
                            /\ expected'.id = body.certificate + 1
                            /\ body.certificate < U64_MAX
                            /\ body.generation < U64_MAX
          /\ metrics' = Count(metrics, {"functional_probe_requests"})
          /\ UNCHANGED <<body, active_lease, action_counter, performed>>
          /\ \/ UNCHANGED transaction_nonce
             \/ /\ transaction_nonce < U64_MAX
                /\ transaction_nonce' = transaction_nonce + 1
      BY <1>1, <1>15, ProbeWrites DEF Wrote1
    <2>2. MetricsFit(metrics') /\ transaction_nonce' <= U64_MAX
      BY <1>2, <1>4, <2>1, CountFits
    <2>3. CountersFit'
      BY <1>1, <1>2, <2>1, <2>2, FitNext
    <2>4. pc' = "ack" => expected'.id <= U64_MAX
      BY <1>4, <2>1 DEF BodyState
    <2> QED
      BY <2>1, <2>3, <2>4, MainPipeFits DEF CounterInv
  <1>16. CASE Stop
    <2>1. /\ pc' \in {"ack", "failed"}
          /\ pc' = "ack" => expected'.op = "STOP"
          /\ UNCHANGED <<body, active_lease, metrics, action_counter,
                         performed>>
          /\ \/ UNCHANGED transaction_nonce
             \/ /\ transaction_nonce < U64_MAX
                /\ transaction_nonce' = transaction_nonce + 1
      BY <1>1, <1>16, StopWrites
    <2> QED
      BY <1>2, <2>1, PlainCounters
  <1>17. CASE WorkAccepted
    <2>1. /\ pc = "ack" /\ expected.op = "WORK"
          /\ pc' \in {"loop", "failed"}
          /\ metrics' = [Count(metrics, {"allowed_commits",
                                         "verified_work_acks"})
                          EXCEPT !["child_actions"] = expected.actions]
          /\ action_counter' = expected.id
          /\ UNCHANGED <<body, active_lease, performed, transaction_nonce>>
      BY <1>17, WorkWrites DEF Wrote2
    <2>2. expected.actions \in 0 .. U64_MAX
      <3>1. /\ expected.actions = metrics["allowed_commits"] + 1
            /\ metrics["allowed_commits"] < U64_MAX
        BY <2>1 DEF IInv, CountInv
      <3>2. metrics["allowed_commits"] \in Nat
        BY <1>2 DEF MetricsFit, MetricNames
      <3> QED
        BY <1>4, <3>1, <3>2
    <2>3. MetricsFit(metrics')
      BY <1>2, <1>4, <2>1, <2>2, CountFits
    <2>4. action_counter' <= U64_MAX
      BY <2>1 DEF CounterInv
    <2>5. CountersFit'
      BY <1>1, <1>2, <2>1, <2>3, <2>4, FitNext
    <2> QED
      BY <2>1, <2>5, MainPipeFits DEF CounterInv
  <1>18. CASE RollbackAccepted
    <2>1. /\ pc' \in {"loop", "failed"}
          /\ metrics' = Count(metrics, {"rollback_acks"})
          /\ UNCHANGED <<body, active_lease, action_counter, performed,
                         transaction_nonce>>
      BY <1>1, <1>18, RollbackWrites DEF Wrote1
    <2>2. MetricsFit(metrics')
      BY <1>2, <2>1, CountFits
    <2> QED
      BY <2>1, <2>2, PlainCounters
  <1>19. CASE ProbeAccepted
    <2>1. CASE UNCHANGED <<body, active_lease, metrics>> /\ pc' = "failed"
      <3>1. UNCHANGED <<action_counter, performed, transaction_nonce>>
        BY <1>1, <1>19, RenewalWrites
      <3> QED
        BY <1>2, <2>1, <3>1, PlainCounters
    <2>2. CASE ~(UNCHANGED <<body, active_lease, metrics>> /\ pc' = "failed")
      <3>1. /\ pc = "ack" /\ expected.op = "PROBE"
            /\ pc' \in {"loop", "failed"}
            /\ UNCHANGED <<action_counter, performed, transaction_nonce>>
            /\ body' = [body EXCEPT !.certificate = expected.id,
                                    !.generation = @ + 1,
                                    !.quarantined = FALSE]
            /\ \E t \in 0 .. U64_MAX : active_lease' = SomeLease(body', t)
            /\ metrics' = Count(metrics, {"functional_probe_recoveries"})
        BY <1>1, <1>19, <2>2, RenewalWrites DEF Wrote2
      <3>2. /\ expected.id \in 0 .. U64_MAX /\ body.generation < U64_MAX
            /\ body.generation \in Nat /\ body.epoch \in 0 .. U64_MAX
        BY <1>1, <1>2, <1>4, <3>1
           DEF CounterInv, TypeOK, Messages, BodyFits, BodyState
      <3>3. /\ body'.certificate = expected.id
            /\ body'.generation = body.generation + 1
            /\ body'.epoch = body.epoch
        BY <1>4, <3>1 DEF BodyState
      <3>4. body'.generation \in 0 .. U64_MAX
        BY <1>4, <3>2, <3>3
      <3>5. BodyFits(body')
        BY <3>2, <3>3, <3>4 DEF BodyFits
      <3>6. LeaseFits(active_lease') /\ MetricsFit(metrics')
        BY <1>2, <1>5, <3>1, CountFits
      <3>7. CountersFit'
        BY <1>1, <1>2, <3>1, <3>5, <3>6, FitNext
      <3> QED
        BY <3>1, <3>7, MainPipeFits DEF CounterInv
    <2> QED
      BY <2>1, <2>2
  <1>20. CASE StopAccepted
    BY <1>2, <1>20, PlainCounters DEF StopAccepted, runtimeVars
  <1>21. CASE ProtocolRejection
    <2>1. /\ pc' = "failed" /\ body' = [body EXCEPT !.quarantined = TRUE]
          /\ active_lease' = NoLease
          /\ metrics' = [Count(metrics, IF body.quarantined THEN {}
                                        ELSE {"quarantines"})
                         EXCEPT !["damage"] = 1]
          /\ UNCHANGED <<action_counter, performed, transaction_nonce>>
      BY <1>1, <1>21, RejectionWrites
    <2>2. MetricsFit(metrics')
      BY <1>2, <1>3, <1>4, <2>1, CountFits
    <2>3. BodyFits(body') /\ LeaseFits(active_lease')
      BY <1>2, <1>4, <2>1 DEF BodyFits, LeaseFits, BodyState
    <2>4. CountersFit'
      BY <1>1, <1>2, <2>1, <2>2, <2>3, FitNext
    <2> QED
      BY <2>1, <2>4, MainPipeFits DEF CounterInv
  <1>22. CASE RejectAck /\ ~ProtocolRejection
    <2>1. /\ pc' = "failed" /\ metrics' = [metrics EXCEPT !["damage"] = 1]
          /\ UNCHANGED <<body, active_lease, action_counter, performed,
                         transaction_nonce>>
      BY <1>1, <1>22, RejectAckWrites
    <2>2. MetricsFit(metrics')
      BY <1>2, <1>3, <1>4, <2>1, CountFits
    <2> QED
      BY <2>1, <2>2, PlainCounters
  <1>23. CASE Finish
    <2>1. /\ pc' \in {"done", "failed"}
          /\ metrics' = [metrics EXCEPT !["damage"] = FinalDamage]
          /\ UNCHANGED <<body, active_lease, action_counter, performed,
                         transaction_nonce>>
      BY <1>1, <1>23, FinishWrites
    <2>2. FinalDamage \in 0 .. U64_MAX
      BY <1>3 DEF FinalDamage
    <2>3. MetricsFit(metrics')
      BY <1>2, <1>4, <2>1, <2>2, CountFits
    <2> QED
      BY <2>1, <2>3, PlainCounters
  <1> QED
    BY <1>6, <1>7, <1>8, <1>9, <1>10, <1>12, <1>13, <1>14, <1>15, <1>16,
       <1>17, <1>18, <1>19, <1>20, <1>21, <1>22, <1>23
       DEF MainStep, UncleanExit

-----------------------------------------------------------------------------
(* The metrics against the ledger.                                         *)

\* The positions of the entries of an event.
Marked(l, event) == {i \in DOMAIN l : l[i].event = event}

\* An entry more counts for its own event and for no other.
LEMMA MarkedOneMore ==
    ASSUME NEW S, NEW l \in Seq(S), NEW m \in Seq(S),
           Len(m) = Len(l) + 1, \A i \in 1 .. Len(l) : m[i] = l[i], NEW event
    PROVE  /\ Cardinality(Marked(l, event)) \in Nat
           /\ Cardinality(Marked(m, event)) = Cardinality(Marked(l, event))
                 + (IF m[Len(l) + 1].event = event THEN 1 ELSE 0)
  <1>1. /\ Len(l) \in Nat /\ DOMAIN l = 1 .. Len(l) /\ DOMAIN m = 1 .. Len(m)
    OBVIOUS
  <1>2. IsFiniteSet(Marked(l, event))
    <2>1. IsFiniteSet(1 .. Len(l))
      BY <1>1, FS_Interval
    <2>2. Marked(l, event) \in SUBSET (1 .. Len(l))
      BY <1>1 DEF Marked
    <2> QED
      BY <2>1, <2>2, FS_Subset
  <1>3. Cardinality(Marked(l, event)) \in Nat
    BY <1>2, FS_CardinalityType
  <1>4. CASE m[Len(l) + 1].event = event
    <2>1. Marked(m, event) = Marked(l, event) \cup {Len(l) + 1}
      BY <1>1, <1>4 DEF Marked
    <2>2. Len(l) + 1 \notin Marked(l, event)
      BY <1>1 DEF Marked
    <2>3. Cardinality(Marked(l, event) \cup {Len(l) + 1})
             = Cardinality(Marked(l, event)) + 1
      BY <1>2, <2>2, FS_AddElement
    <2>4. (IF m[Len(l) + 1].event = event THEN 1 ELSE 0) = 1
      BY <1>4
    <2>5. Cardinality(Marked(m, event)) = Cardinality(Marked(l, event)) + 1
      BY <2>1, <2>3
    <2> QED
      BY <1>3, <2>4, <2>5
  <1>5. CASE m[Len(l) + 1].event # event
    <2>1. Marked(m, event) = Marked(l, event)
      BY <1>1, <1>5 DEF Marked
    <2> QED
      BY <1>3, <1>5, <2>1
  <1> QED
    BY <1>3, <1>4, <1>5

\* How many entries of an event there are after a handler recorded one.
LEMMA CountedOne ==
    ASSUME ledger \in Seq(Entries), ledger' \in Seq(Entries), NEW e, Adds1(e),
           NEW event
    PROVE  Recorded(event)' = Recorded(event)
                              + (IF e.event = event THEN 1 ELSE 0)
  <1>1. /\ Cardinality(Marked(ledger', event))
              = Cardinality(Marked(ledger, event))
                + (IF ledger'[Len(ledger) + 1].event = event THEN 1 ELSE 0)
    BY MarkedOneMore DEF Adds1, Kept
  <1> QED
    BY <1>1 DEF Recorded, Marked, Adds1

\* Likewise for two.
LEMMA CountedTwo ==
    ASSUME ledger \in Seq(Entries), ledger' \in Seq(Entries), NEW e, NEW f,
           Adds2(e, f), NEW event
    PROVE  Recorded(event)' = Recorded(event)
                              + (IF e.event = event THEN 1 ELSE 0)
                              + (IF f.event = event THEN 1 ELSE 0)
  <1> DEFINE p == SubSeq(ledger', 1, Len(ledger) + 1)
  <1>1. Len(ledger) \in Nat /\ Len(ledger') = Len(ledger) + 2
    BY DEF Adds2
  <1>2. /\ p \in Seq(Entries) /\ Len(p) = Len(ledger) + 1
        /\ \A i \in 1 .. Len(p) : p[i] = ledger'[i]
    BY SMTT(30), <1>1
  <1> HIDE DEF p
  <1>3. /\ \A i \in 1 .. Len(ledger) : p[i] = ledger[i]
        /\ p[Len(ledger) + 1] = e /\ ledger'[Len(p) + 1] = f
        /\ Len(ledger') = Len(p) + 1
    BY SMTT(30), <1>1, <1>2 DEF Adds2, Kept
  <1>4. /\ Cardinality(Marked(ledger, event)) \in Nat
        /\ Cardinality(Marked(p, event)) = Cardinality(Marked(ledger, event))
              + (IF e.event = event THEN 1 ELSE 0)
    <2>1. /\ ledger \in Seq(Entries) /\ p \in Seq(Entries)
          /\ Len(p) = Len(ledger) + 1
          /\ \A i \in 1 .. Len(ledger) : p[i] = ledger[i]
      BY <1>2, <1>3
    <2>2. /\ Cardinality(Marked(ledger, event)) \in Nat
          /\ Cardinality(Marked(p, event)) = Cardinality(Marked(ledger, event))
                + (IF p[Len(ledger) + 1].event = event THEN 1 ELSE 0)
      BY SMTT(30), <2>1, MarkedOneMore
    <2> QED
      BY <1>3, <2>2
  <1>5. Cardinality(Marked(ledger', event)) = Cardinality(Marked(p, event))
              + (IF f.event = event THEN 1 ELSE 0)
    <2>1. \A i \in 1 .. Len(p) : ledger'[i] = p[i]
      BY <1>2
    <2> QED
      BY <1>2, <1>3, <2>1, MarkedOneMore
  <1> QED
    BY <1>4, <1>5 DEF Recorded, Marked

\* The number of entries of an event is a number.
LEMMA RecordedType ==
    ASSUME ledger \in Seq(Entries), NEW event
    PROVE  Recorded(event) \in Nat
  <1>1. Len(ledger) \in Nat /\ DOMAIN ledger = 1 .. Len(ledger)
    OBVIOUS
  <1>2. IsFiniteSet(1 .. Len(ledger))
    BY <1>1, FS_Interval
  <1>3. IsFiniteSet({i \in DOMAIN ledger : ledger[i].event = event})
    BY <1>1, <1>2, FS_Subset
  <1> QED
    BY <1>3, FS_CardinalityType DEF Recorded

Tallied == {"COMMIT", "QUARANTINE", "ROLLBACK_ACK_ACCEPTED"}

\* The tallies do not move when what is added is something else.
SameTally ==
    /\ Recorded("COMMIT")' = Recorded("COMMIT")
    /\ Recorded("QUARANTINE")' = Recorded("QUARANTINE")
    /\ Recorded("ROLLBACK_ACK_ACCEPTED")' = Recorded("ROLLBACK_ACK_ACCEPTED")

\* One entry more, or two, neither of them tallied.
LEMMA NotTallied ==
    ASSUME ledger \in Seq(Entries), ledger' \in Seq(Entries),
           NEW e, NEW f, e.event \notin Tallied, f.event \notin Tallied,
           ledger' = ledger \/ Adds1(e) \/ Adds2(e, f)
    PROVE  SameTally
  <1>1. /\ Recorded("COMMIT") \in Nat /\ Recorded("QUARANTINE") \in Nat
        /\ Recorded("ROLLBACK_ACK_ACCEPTED") \in Nat
    BY RecordedType
  <1>2. CASE ledger' = ledger
    BY <1>2 DEF SameTally, Recorded
  <1>3. CASE Adds1(e)
    BY <1>1, <1>3, CountedOne DEF SameTally, Tallied
  <1>4. CASE Adds2(e, f)
    BY <1>1, <1>4, CountedTwo DEF SameTally, Tallied
  <1> QED
    BY <1>2, <1>3, <1>4

\* The metrics that are tallied.
SameMetrics ==
    \A n \in {"allowed_commits", "verified_work_acks", "rollbacks",
              "rollback_acks"} : metrics'[n] = metrics[n]

\* A handler that counts and records none of what is tallied.
LEMMA PlainTally ==
    ASSUME IInv, TallyInv, SameTally, SameMetrics, UNCHANGED performed,
           pc \in Live, pc # "ack" \/ expected.op \notin {"WORK", "ROLLBACK"},
           pc' \in Live \cup {"failed"},
           pc' = "ack" => expected'.op # "ROLLBACK"
    PROVE  TallyInv'
  <1>1. performed = metrics["allowed_commits"]
    BY DEF IInv, CountInv
  <1>2. /\ Recorded("COMMIT") = metrics["allowed_commits"]
        /\ Recorded("QUARANTINE") = metrics["rollbacks"]
        /\ Recorded("ROLLBACK_ACK_ACCEPTED") = metrics["rollback_acks"]
        /\ metrics["verified_work_acks"] = metrics["allowed_commits"]
        /\ metrics["rollbacks"] = metrics["rollback_acks"] + 0
    BY DEF TallyInv
  <1>3. UnconfirmedEffectReported'
    BY <1>1, <1>2 DEF SameTally, UnconfirmedEffectReported
  <1>4. DoneIsClean'
    BY DEF DoneIsClean, Live
  <1>5. pc' \in Live =>
           /\ Recorded("COMMIT")' = metrics'["allowed_commits"]
           /\ Recorded("QUARANTINE")' = metrics'["rollbacks"]
           /\ Recorded("ROLLBACK_ACK_ACCEPTED")' = metrics'["rollback_acks"]
           /\ metrics'["verified_work_acks"] = metrics'["allowed_commits"]
           /\ metrics'["rollbacks"] = metrics'["rollback_acks"]
                 + (IF pc' = "ack" /\ expected'.op = "ROLLBACK" THEN 1 ELSE 0)
    BY <1>2 DEF SameTally, SameMetrics
  <1> QED
    BY <1>3, <1>4, <1>5 DEF TallyInv

\* A handler that fails when no effect is unconfirmed.
LEMMA FailTally ==
    ASSUME IInv, TallyInv, UNCHANGED performed, pc \in Live,
           pc # "ack" \/ expected.op # "WORK", pc' = "failed",
           Recorded("COMMIT")' = Recorded("COMMIT")
    PROVE  TallyInv'
  <1>1. /\ performed = metrics["allowed_commits"]
        /\ Recorded("COMMIT") = metrics["allowed_commits"]
    BY DEF IInv, CountInv, TallyInv
  <1> QED
    BY <1>1 DEF TallyInv, UnconfirmedEffectReported, DoneIsClean, Live

\* Counting other things leaves the tallied metrics alone.
LEMMA CountUntallied ==
    ASSUME metrics \in [MetricNames -> Nat], NEW names,
           names \cap {"allowed_commits", "verified_work_acks", "rollbacks",
                       "rollback_acks"} = {},
           metrics' = Count(metrics, names)
    PROVE  SameMetrics
  BY CountValue DEF SameMetrics, MetricNames

\* One entry more, which is not tallied.
LEMMA NotTallied1 ==
    ASSUME ledger \in Seq(Entries), ledger' \in Seq(Entries),
           NEW e, e.event \notin Tallied, ledger' = ledger \/ Adds1(e)
    PROVE  SameTally
  BY NotTallied

\* Every step of the main thread keeps the metrics and the ledger together.
LEMMA MainTally ==
    ASSUME IInv, CounterInv, TallyInv, MainStep
    PROVE  TallyInv'
  <1>1. /\ TypeOK /\ TypeOK' /\ metrics \in [MetricNames -> Nat]
        /\ ledger \in Seq(Entries) /\ ledger' \in Seq(Entries)
    BY MainType DEF IInv, TypeOK
  <1>2. UNCHANGED metrics => SameMetrics
    BY DEF SameMetrics
  <1>3. UNCHANGED ledger => SameTally
    BY DEF SameTally, Recorded
  <1>4. CASE AcceptHello
    <2> DEFINE e == Entry("LEASE_INSTALLED", "ALLOW", body, active_lease')
    <2>1. /\ pc = "hello" /\ pc' \in {"loop", "failed"}
          /\ UNCHANGED <<metrics, performed>>
          /\ ledger' = ledger \/ Adds1(e)
      BY <1>1, <1>4, HelloWrites DEF Wrote1
    <2>2. e.event = "LEASE_INSTALLED"
      BY EntryFields
    <2> HIDE DEF e
    <2>3. SameTally
      BY <1>1, <2>1, <2>2, NotTallied1 DEF Tallied
    <2> QED
      BY <1>2, <2>1, <2>3, PlainTally DEF Live
  <1>5. CASE RejectHello
    BY <1>2, <1>3, <1>5, PlainTally DEF RejectHello, Fail, Live
  <1>6. CASE Begin
    <2> DEFINE e == Entry("BEGIN_ACTION", "ALLOW", body, active_lease)
    <2>1. /\ pc = "loop" /\ pc' \in {"loop", "failed"}
          /\ UNCHANGED <<metrics, performed>>
          /\ ledger' = ledger \/ Adds1(e)
      BY <1>1, <1>6, BeginWrites DEF Wrote1
    <2>2. e.event = "BEGIN_ACTION"
      BY EntryFields
    <2> HIDE DEF e
    <2>3. SameTally
      BY <1>1, <2>1, <2>2, NotTallied1 DEF Tallied
    <2> QED
      BY <1>2, <2>1, <2>3, PlainTally DEF Live
  <1>7. CASE CommitAllowed
    <2>1. /\ pc = "loop" /\ pc' \in {"ack", "failed"}
          /\ pc' = "ack" => expected'.op = "WORK"
          /\ UNCHANGED <<metrics, performed, ledger>>
      BY <1>1, <1>7, AllowedWrites
    <2> QED
      BY <1>2, <1>3, <2>1, PlainTally DEF Live
  <1>8. CASE CommitBlocked
    <2> DEFINE e == Entry("COMMIT_BLOCKED", Decision, body, active_lease)
    <2>1. /\ pc = "loop" /\ pc' \in {"loop", "failed"}
          /\ UNCHANGED performed
          /\ metrics' = Count(metrics, {"blocked_commits",
                                        "stale_or_expired_blocked"})
          /\ ledger' = ledger \/ Adds1(e)
      BY <1>1, <1>8, BlockedWrites DEF Wrote1
    <2>2. e.event = "COMMIT_BLOCKED"
      BY EntryFields
    <2> HIDE DEF e
    <2>3. SameTally
      BY <1>1, <2>1, <2>2, NotTallied1 DEF Tallied
    <2>4. SameMetrics
      BY <1>1, <2>1, CountUntallied
    <2> QED
      BY <2>1, <2>3, <2>4, PlainTally DEF Live
  <1>9. ASSUME NEW b \in BodyState, Quarantine(b), pc = "loop"
        PROVE  TallyInv'
    <2> DEFINE e == Entry("QUARANTINE", "BLOCK_QUARANTINE", body', NoLease)
               names == {"rollbacks"} \cup
                        (IF body.quarantined THEN {} ELSE {"quarantines"})
    <2>1. /\ pc' \in {"ack", "failed"} /\ UNCHANGED performed
          /\ pc' = "ack" => /\ expected'.op = "ROLLBACK"
                            /\ metrics["rollbacks"] < U64_MAX
                            /\ metrics' = Count(metrics, names)
          /\ Adds1(e) \/ (ledger' = ledger /\ pc' = "failed")
      BY <1>1, <1>9, QuarantineWrites DEF Wrote1
    <2>2. e.event = "QUARANTINE"
      BY EntryFields
    <2> HIDE DEF e
    <2>3. /\ Recorded("COMMIT") \in Nat /\ Recorded("QUARANTINE") \in Nat
          /\ Recorded("ROLLBACK_ACK_ACCEPTED") \in Nat
      BY <1>1, RecordedType
    <2>4. Recorded("COMMIT")' = Recorded("COMMIT")
      BY <1>1, <1>3, <2>1, <2>2, <2>3, CountedOne DEF SameTally
    <2>5. CASE pc' = "failed"
      BY <1>9, <2>1, <2>4, <2>5, FailTally DEF Live
    <2>6. CASE pc' = "ack"
      <3>1. /\ Recorded("QUARANTINE")' = Recorded("QUARANTINE") + 1
            /\ Recorded("ROLLBACK_ACK_ACCEPTED")'
                  = Recorded("ROLLBACK_ACK_ACCEPTED")
        BY <1>1, <2>1, <2>2, <2>3, <2>6, CountedOne
      <3>2. /\ "rollbacks" \in names
            /\ {"allowed_commits", "verified_work_acks", "rollback_acks"}
                  \cap names = {}
        OBVIOUS
      <3>3. /\ metrics'["rollbacks"] = metrics["rollbacks"] + 1
            /\ metrics'["allowed_commits"] = metrics["allowed_commits"]
            /\ metrics'["verified_work_acks"] = metrics["verified_work_acks"]
            /\ metrics'["rollback_acks"] = metrics["rollback_acks"]
        <4>1. metrics' = Count(metrics, names) /\ metrics["rollbacks"] < U64_MAX
          BY <2>1, <2>6
        <4>2. /\ "allowed_commits" \notin names
              /\ "verified_work_acks" \notin names
              /\ "rollback_acks" \notin names
          BY <3>2
        <4>3. "rollbacks" \in names
          BY <3>2
        <4>4. {"allowed_commits", "verified_work_acks", "rollback_acks",
               "rollbacks"} \subseteq MetricNames
          BY DEF MetricNames
        <4> HIDE DEF names
        <4> QED
          BY <1>1, <4>1, <4>2, <4>3, <4>4, CountValue
      <3>4. /\ Recorded("COMMIT") = metrics["allowed_commits"]
            /\ Recorded("QUARANTINE") = metrics["rollbacks"]
            /\ Recorded("ROLLBACK_ACK_ACCEPTED") = metrics["rollback_acks"]
            /\ metrics["verified_work_acks"] = metrics["allowed_commits"]
            /\ metrics["rollbacks"] = metrics["rollback_acks"] + 0
        BY <1>9 DEF TallyInv, Live
      <3>5. metrics["rollbacks"] = metrics["rollback_acks"]
        BY <2>3, <3>4
      <3>6. UnconfirmedEffectReported' /\ DoneIsClean'
        BY <2>6 DEF UnconfirmedEffectReported, DoneIsClean
      <3> QED
        BY <2>1, <2>4, <2>6, <3>1, <3>3, <3>4, <3>5, <3>6 DEF TallyInv
    <2> QED
      BY <2>1, <2>5, <2>6
  <1>10. CASE Reset
    <2>1. CASE CanIncrement({body.epoch, body.generation})
      BY <1>1, <1>9, <1>10, <2>1, ResetBody DEF Reset, Receive, TypeOK
    <2>2. CASE ~CanIncrement({body.epoch, body.generation})
      BY <1>2, <1>3, <1>10, <2>2, PlainTally DEF Reset, Receive, Fail, Live
    <2> QED
      BY <2>1, <2>2
  <1>11. CASE Silence
    BY <1>1, <1>9, <1>11 DEF Silence, TypeOK
  <1>12. CASE ProbeRefused
    <2> DEFINE e == Entry("PROBE_REJECTED", "BLOCK_QUARANTINE", body, NoLease)
    <2>1. /\ pc = "loop" /\ pc' \in {"loop", "failed"}
          /\ UNCHANGED performed
          /\ metrics' = Count(metrics, {"functional_probe_requests"})
          /\ ledger' = ledger \/ Adds1(e)
      BY <1>1, <1>12, RefusedWrites DEF Wrote1
    <2>2. e.event = "PROBE_REJECTED"
      BY EntryFields
    <2> HIDE DEF e
    <2>3. SameTally
      BY <1>1, <2>1, <2>2, NotTallied1 DEF Tallied
    <2>4. SameMetrics
      BY <1>1, <2>1, CountUntallied
    <2> QED
      BY <2>1, <2>3, <2>4, PlainTally DEF Live
  <1>13. CASE ProbeSent
    <2> DEFINE e == Entry("PROBE_REQUEST", "BLOCK_QUARANTINE", body, NoLease)
    <2>1. /\ pc = "loop" /\ pc' \in {"ack", "failed"}
          /\ pc' = "ack" => expected'.op = "PROBE"
          /\ UNCHANGED performed
          /\ metrics' = Count(metrics, {"functional_probe_requests"})
          /\ ledger' = ledger \/ Adds1(e)
      BY <1>1, <1>13, ProbeWrites DEF Wrote1
    <2>2. e.event = "PROBE_REQUEST"
      BY EntryFields
    <2> HIDE DEF e
    <2>3. SameTally
      BY <1>1, <2>1, <2>2, NotTallied1 DEF Tallied
    <2>4. SameMetrics
      BY <1>1, <2>1, CountUntallied
    <2> QED
      BY <2>1, <2>3, <2>4, PlainTally DEF Live
  <1>14. CASE Stop
    <2>1. /\ pc = "loop" /\ pc' \in {"ack", "failed"}
          /\ pc' = "ack" => expected'.op = "STOP"
          /\ UNCHANGED <<metrics, performed, ledger>>
      BY <1>1, <1>14, StopWrites
    <2> QED
      BY <1>2, <1>3, <2>1, PlainTally DEF Live
  <1>15. CASE WorkAccepted
    <2> DEFINE e == Entry("CHILD_ACK_ACCEPTED", "ALLOW", body, active_lease)
               f == Entry("COMMIT", "ALLOW", body, active_lease)
               names == {"allowed_commits", "verified_work_acks"}
    <2>1. /\ pc = "ack" /\ expected.op = "WORK"
          /\ \/ Adds2(e, f) /\ pc' = "loop"
             \/ pc' = "failed" /\ "io" \in Faults
          /\ metrics' = [Count(metrics, names)
                          EXCEPT !["child_actions"] = expected.actions]
      BY <1>15, WorkWrites DEF Wrote2
    <2>2. e.event = "CHILD_ACK_ACCEPTED" /\ f.event = "COMMIT"
      BY EntryFields
    <2> HIDE DEF e, f
    <2>3. CASE pc' = "failed" /\ "io" \in Faults
      BY <2>3 DEF TallyInv, UnconfirmedEffectReported, DoneIsClean, Live
    <2>4. CASE Adds2(e, f) /\ pc' = "loop"
      <3>1. /\ Recorded("COMMIT") \in Nat /\ Recorded("QUARANTINE") \in Nat
            /\ Recorded("ROLLBACK_ACK_ACCEPTED") \in Nat
        BY <1>1, RecordedType
      <3>2. /\ Recorded("COMMIT")' = Recorded("COMMIT") + 1
            /\ Recorded("QUARANTINE")' = Recorded("QUARANTINE")
            /\ Recorded("ROLLBACK_ACK_ACCEPTED")'
                  = Recorded("ROLLBACK_ACK_ACCEPTED")
        BY <1>1, <2>2, <2>4, <3>1, CountedTwo
      <3>3. /\ Recorded("COMMIT") = metrics["allowed_commits"]
            /\ Recorded("QUARANTINE") = metrics["rollbacks"]
            /\ Recorded("ROLLBACK_ACK_ACCEPTED") = metrics["rollback_acks"]
            /\ metrics["verified_work_acks"] = metrics["allowed_commits"]
            /\ metrics["rollbacks"] = metrics["rollback_acks"] + 0
        BY <2>1 DEF TallyInv, Live
      <3>4. metrics["allowed_commits"] < U64_MAX
        BY <2>1 DEF IInv, CountInv
      <3>5. \A n \in MetricNames \ {"child_actions"} :
               metrics'[n] = Count(metrics, names)[n]
        BY <1>1, <2>1, CountType
      <3>6. /\ metrics'["allowed_commits"] = metrics["allowed_commits"] + 1
            /\ metrics'["verified_work_acks"]
                  = metrics["verified_work_acks"] + 1
            /\ metrics'["rollbacks"] = metrics["rollbacks"]
            /\ metrics'["rollback_acks"] = metrics["rollback_acks"]
        <4>1. /\ {"allowed_commits", "verified_work_acks"} \subseteq names
              /\ "rollbacks" \notin names /\ "rollback_acks" \notin names
          OBVIOUS
        <4>2. {"allowed_commits", "verified_work_acks", "rollback_acks",
               "rollbacks"} \subseteq MetricNames \ {"child_actions"}
          BY DEF MetricNames
        <4> HIDE DEF names
        <4> QED
          BY <1>1, <3>3, <3>4, <3>5, <4>1, <4>2, CountValue
      <3>7. UnconfirmedEffectReported' /\ DoneIsClean'
        BY <2>4 DEF UnconfirmedEffectReported, DoneIsClean
      <3> QED
        BY <2>4, <3>2, <3>3, <3>6, <3>7 DEF TallyInv
    <2> QED
      BY <2>1, <2>3, <2>4
  <1>16. CASE RollbackAccepted
    <2> DEFINE e == Entry("ROLLBACK_ACK_ACCEPTED", "BLOCK_QUARANTINE", body,
                          NoLease)
    <2>1. /\ pc = "ack" /\ expected.op = "ROLLBACK" /\ UNCHANGED performed
          /\ pc' \in {"loop", "failed"}
          /\ Adds1(e) \/ (ledger' = ledger /\ pc' = "failed")
          /\ metrics' = Count(metrics, {"rollback_acks"})
      BY <1>1, <1>16, RollbackWrites DEF Wrote1
    <2>2. e.event = "ROLLBACK_ACK_ACCEPTED"
      BY EntryFields
    <2> HIDE DEF e
    <2>3. /\ Recorded("COMMIT") \in Nat /\ Recorded("QUARANTINE") \in Nat
          /\ Recorded("ROLLBACK_ACK_ACCEPTED") \in Nat
      BY <1>1, RecordedType
    <2>4. Recorded("COMMIT")' = Recorded("COMMIT")
      BY <1>1, <1>3, <2>1, <2>2, <2>3, CountedOne DEF SameTally
    <2>5. CASE pc' = "failed"
      BY <2>1, <2>4, <2>5, FailTally DEF Live
    <2>6. CASE pc' = "loop"
      <3>1. /\ Recorded("QUARANTINE")' = Recorded("QUARANTINE")
            /\ Recorded("ROLLBACK_ACK_ACCEPTED")'
                  = Recorded("ROLLBACK_ACK_ACCEPTED") + 1
        BY <1>1, <2>1, <2>2, <2>3, <2>6, CountedOne
      <3>2. /\ Recorded("COMMIT") = metrics["allowed_commits"]
            /\ Recorded("QUARANTINE") = metrics["rollbacks"]
            /\ Recorded("ROLLBACK_ACK_ACCEPTED") = metrics["rollback_acks"]
            /\ metrics["verified_work_acks"] = metrics["allowed_commits"]
            /\ metrics["rollbacks"] = metrics["rollback_acks"] + 1
        BY <2>1 DEF TallyInv, Live
      <3>3. metrics["rollback_acks"] < U64_MAX
        BY <2>3, <3>2, U64Assumption DEF CounterInv, CountersFit, MetricNames
      <3>4. /\ metrics'["rollback_acks"] = metrics["rollback_acks"] + 1
            /\ metrics'["allowed_commits"] = metrics["allowed_commits"]
            /\ metrics'["verified_work_acks"] = metrics["verified_work_acks"]
            /\ metrics'["rollbacks"] = metrics["rollbacks"]
        BY SMTT(30), <1>1, <2>1, <3>3, CountValue DEF MetricNames
      <3>5. UnconfirmedEffectReported' /\ DoneIsClean'
        BY <2>6 DEF UnconfirmedEffectReported, DoneIsClean
      <3> QED
        BY <2>3, <2>4, <2>6, <3>1, <3>2, <3>4, <3>5 DEF TallyInv
    <2> QED
      BY <2>1, <2>5, <2>6
  <1>17. CASE ProbeAccepted
    <2> DEFINE e == Entry("LEASE_INSTALLED", "ALLOW", body', active_lease')
               f == Entry("PROBE_ACCEPTED", "ALLOW", body', active_lease')
    <2>1. /\ pc = "ack" /\ expected.op = "PROBE" /\ UNCHANGED performed
          /\ pc' \in {"loop", "failed"}
          /\ ledger' = ledger \/ Adds1(e) \/ Adds2(e, f)
          /\ \/ metrics' = metrics
             \/ metrics' = Count(metrics, {"functional_probe_recoveries"})
      BY <1>1, <1>17, RenewalWrites DEF Wrote2
    <2>2. e.event = "LEASE_INSTALLED" /\ f.event = "PROBE_ACCEPTED"
      BY EntryFields
    <2> HIDE DEF e, f
    <2>3. SameTally
      BY <1>1, <2>1, <2>2, NotTallied DEF Tallied
    <2>4. SameMetrics
      BY <1>1, <1>2, <2>1, CountUntallied
    <2> QED
      BY <2>1, <2>3, <2>4, PlainTally DEF Live
  <1>18. CASE StopAccepted
    BY <1>2, <1>3, <1>18, PlainTally DEF StopAccepted, runtimeVars, Live
  <1>19. CASE ProtocolRejection
    <2> DEFINE e == Entry("PROTOCOL_ACK_REJECTED", "BLOCK_QUARANTINE", body',
                          NoLease)
    <2>1. /\ pc' = "failed"
          /\ Adds1(e) \/ "io" \in Faults
      BY <1>1, <1>19, RejectionWrites
    <2>2. e.event = "PROTOCOL_ACK_REJECTED"
      BY EntryFields
    <2> HIDE DEF e
    <2>3. Adds1(e) => ledger'[Len(ledger')].event = "PROTOCOL_ACK_REJECTED"
      BY <2>2 DEF Adds1
    <2> QED
      BY <2>1, <2>3 DEF TallyInv, UnconfirmedEffectReported, DoneIsClean, Live
  <1>20. CASE RejectAck /\ ~ProtocolRejection
    <2> DEFINE e == Entry("ROLLBACK_ACK_REJECTED", "BLOCK_QUARANTINE", body,
                          NoLease)
    <2>1. /\ pc = "ack" /\ expected.op = "ROLLBACK" /\ pc' = "failed"
          /\ UNCHANGED performed
          /\ ledger' = ledger \/ Adds1(e)
      BY <1>1, <1>20, RejectAckWrites DEF Wrote1
    <2>2. e.event = "ROLLBACK_ACK_REJECTED"
      BY EntryFields
    <2> HIDE DEF e
    <2>3. SameTally
      BY <1>1, <2>1, <2>2, NotTallied1 DEF Tallied
    <2> QED
      BY <2>1, <2>3, FailTally DEF SameTally, Live
  <1>21. CASE Finish
    <2> DEFINE e == Entry("FINAL", IF FinalDamage = 0 THEN "ALLOW"
                                   ELSE "BLOCK_ACTION", body, active_lease)
               f == Entry("LEDGER_SEAL", "ALLOW", body, active_lease)
    <2>1. /\ pc = "exit" /\ UNCHANGED performed
          /\ \/ pc' = "done" /\ child' = "reaped" /\ Adds2(e, f)
             \/ /\ pc' = "failed"
                /\ ledger' = ledger \/ Adds1(e) \/ Adds2(e, f)
          /\ metrics' = [metrics EXCEPT !["damage"] = FinalDamage]
      BY <1>1, <1>21, FinishWrites DEF Wrote2
    <2>2. /\ metrics["child_actions"] = metrics["allowed_commits"]
          /\ performed = metrics["allowed_commits"]
      BY <2>1 DEF IInv, CountInv, Live
    <2>3. /\ Recorded("COMMIT") = metrics["allowed_commits"]
          /\ Recorded("QUARANTINE") = metrics["rollbacks"]
          /\ Recorded("ROLLBACK_ACK_ACCEPTED") = metrics["rollback_acks"]
          /\ metrics["verified_work_acks"] = metrics["allowed_commits"]
          /\ metrics["rollbacks"] = metrics["rollback_acks"] + 0
      BY <2>1 DEF TallyInv, Live
    <2>4. metrics["rollbacks"] = metrics["rollback_acks"]
      BY <1>1, <2>3, RecordedType
    <2>5. FinalDamage = 0
      BY <2>2, <2>3, <2>4 DEF FinalDamage
    <2>6. /\ e.event = "FINAL" /\ e.decision = "ALLOW"
          /\ f.event = "LEDGER_SEAL"
      BY <2>5, EntryFields
    <2> HIDE DEF e, f
    <2>7. SameTally
      BY <1>1, <2>1, <2>6, NotTallied DEF Tallied
    <2>8. CASE pc' = "failed"
      BY <2>1, <2>7, <2>8, FailTally DEF SameTally, Live
    <2>9. CASE pc' = "done" /\ child' = "reaped" /\ Adds2(e, f)
      <3>1. /\ Len(ledger) \in Nat
            /\ Len(ledger') = Len(ledger) + 2
            /\ Len(ledger') - 1 = Len(ledger) + 1
        BY <1>1, <2>9 DEF Adds2
      <3>2. /\ ledger'[Len(ledger')].event = "LEDGER_SEAL"
            /\ ledger'[Len(ledger') - 1].decision = "ALLOW"
        BY <2>6, <2>9, <3>1 DEF Adds2
      <3>3. metrics'["damage"] = 0
        BY <1>1, <2>1, <2>5 DEF MetricNames
      <3>4. DoneIsClean'
        BY <2>1, <2>2, <2>3, <2>4, <2>7, <2>9, <3>2, <3>3
           DEF DoneIsClean, SameTally
      <3> QED
        BY <2>9, <3>4 DEF TallyInv, UnconfirmedEffectReported, Live
    <2> QED
      BY <2>1, <2>8, <2>9
  <1> QED
    BY <1>4, <1>5, <1>6, <1>7, <1>8, <1>10, <1>11, <1>12, <1>13, <1>14,
       <1>15, <1>16, <1>17, <1>18, <1>19, <1>20, <1>21
       DEF MainStep, UncleanExit

-----------------------------------------------------------------------------
(* Steps that are not the main thread's keep all of it.                    *)

\* Child, scheduler, clock and a kill keep the history invariant.
LEMMA OtherHistory ==
    ASSUME IInv, HInv, ~MainStep, [Next]_vars
    PROVE  HInv'
  <1>1. /\ UNCHANGED <<body, active_lease, txn, metrics, action_counter,
                       transaction_nonce, rollback_confirmed, expected,
                       ledger>>
        /\ pc' = pc \/ pc' = "crashed"
        /\ pc \in Terminal => pc' = pc
        /\ UNCHANGED <<performed, stdin>> \/ ChildPerform
    BY OtherWrites
  <1>2. CommitInv'
    BY <1>1 DEF HInv, CommitInv, CommitsAudited, TrailInv, BeginTrail, Live
  <1>3. LeaseInv'
    BY <1>1 DEF HInv, LeaseInv, LeasesAudited, LeaseOrder, ProbeInv,
                RollbackTrail, Live
  <1>4. CounterInv'
    <2>1. CASE UNCHANGED <<performed, stdin>>
      BY <1>1, <2>1 DEF HInv, CounterInv, CountersFit
    <2>2. CASE ChildPerform
      <3>1. /\ stdin # <<>> /\ Len(stdin) = 1 /\ stdin' = Tail(stdin)
            /\ performed' = IF stdin[1].op = "WORK" THEN performed + 1
                            ELSE performed
        BY <2>2 DEF ChildPerform, IInv, PipeInv, TypeOK
      <3>2. stdin' = <<>>
        BY SMTT(30), <3>1 DEF IInv, TypeOK
      <3>3. performed' \in 0 .. U64_MAX
        BY <3>1, U64Assumption DEF HInv, CounterInv, CountersFit, IInv, TypeOK
      <3> QED
        BY <1>1, <3>2, <3>3 DEF HInv, CounterInv, CountersFit
    <2> QED
      BY <1>1, <2>1, <2>2
  <1>5. TallyInv'
    <2>1. pc' \in {"done", "failed"} => pc = pc' /\ child = "reaped"
      BY <1>1 DEF IInv, FlightInv
    <2>2. pc' \in {"done", "failed"} => UNCHANGED performed
      BY <1>1, <2>1 DEF ChildPerform
    <2>3. pc' = "done" => child' = "reaped"
      <3> SUFFICES ASSUME pc' = "done"
                   PROVE  child' = "reaped"
        OBVIOUS
      <3>1. child = "reaped" /\ pc = "done"
        BY <2>1
      <3> QED
        BY <3>1 DEF Next, ChildStep, ChildHello, ChildReply, ChildExit,
           ChildPerform, ChildEndOfInput, ChildCrash, ChildHang, Running, Send,
           Tick, ParentCrash, Ended, vars, childVars
    <2>4. UnconfirmedEffectReported'
      BY <1>1, <2>1, <2>2
         DEF HInv, TallyInv, UnconfirmedEffectReported, Recorded
    <2>5. DoneIsClean'
      BY <1>1, <2>1, <2>2, <2>3 DEF HInv, TallyInv, DoneIsClean, Recorded
    <2>6. pc' \in Live => pc' = pc
      BY <1>1 DEF Live
    <2> QED
      BY <1>1, <2>4, <2>5, <2>6 DEF HInv, TallyInv, Recorded
  <1> QED
    BY <1>2, <1>3, <1>4, <1>5 DEF HInv

\* The history invariant holds initially.
LEMMA InitHistory ==
    ASSUME Init
    PROVE  HInv
  <1>1. TypeOK
    BY InitType
  <1>2. CommitInv
    BY DEF Init, CommitInv, CommitsAudited, TrailInv, NewTransaction
  <1>3. LeaseInv
    BY DEF Init, LeaseInv, LeasesAudited, LeaseOrder, ProbeInv
  <1>4. CounterInv
    <2>1. \A n \in MetricNames : metrics[n] <= U64_MAX
      BY U64Assumption DEF Init
    <2>2. {action_counter, transaction_nonce, performed, body.epoch,
           body.generation, body.certificate} \subseteq 0 .. U64_MAX
      BY U64Assumption, ScheduleAssumption DEF Init
    <2> QED
      BY <2>1, <2>2 DEF Init, CounterInv, CountersFit
  <1>5. TallyInv
    <2>1. \A event : Recorded(event) = 0
      <3>1. \A event : {i \in DOMAIN ledger : ledger[i].event = event} = {}
        BY DEF Init
      <3> QED
        BY <3>1, FS_EmptySet DEF Recorded
    <2> QED
      BY <2>1 DEF Init, TallyInv, UnconfirmedEffectReported, DoneIsClean,
                  MetricNames
  <1> QED
    BY <1>2, <1>3, <1>4, <1>5 DEF HInv

(* What the ledger and the counters say about the run so far holds in      *)
(* every reachable state.                                                  *)
THEOREM History == Spec => []HInv
  <1>1. Init => HInv
    BY InitHistory
  <1>2. IInv /\ IInv' /\ HInv /\ [Next]_vars => HInv'
    <2> SUFFICES ASSUME IInv, IInv', HInv, [Next]_vars
                 PROVE  HInv'
      OBVIOUS
    <2>1. CASE MainStep
      BY <2>1, MainCommits, MainLeases, MainCounters, MainTally DEF HInv
    <2>2. CASE ~MainStep
      BY <2>2, OtherHistory
    <2> QED
      BY <2>1, <2>2
  <1> QED
    BY <1>1, <1>2, Inductive, PTL DEF Spec

-----------------------------------------------------------------------------
(* The properties.                                                         *)

(* Every COMMIT in the ledger has its BEGIN_ACTION under the same lease    *)
(* and body, with nothing but refused probes and the acknowledgement in    *)
(* between: begin and commit bracket an effect whatever the schedule, the  *)
(* child and the disk do.                                                  *)
THEOREM CommitsAreAudited == Spec => []CommitsAudited
  <1>1. HInv => CommitsAudited
    BY DEF HInv, CommitInv
  <1> QED
    BY <1>1, History, PTL

(* Every lease in the ledger after the first follows a rollback the child  *)
(* confirmed and a probe, and is newer than all the leases before it:      *)
(* authority comes back only through functional_freshness_probe.           *)
THEOREM LeasesAreAudited == Spec => []LeasesAudited
  <1>1. HInv => LeasesAudited
    BY DEF HInv, LeaseInv
  <1> QED
    BY <1>1, History, PTL

(* No counter of coordinator or child leaves u64, for every width: the     *)
(* coordinator's checked_add makes the child's own check unreachable.      *)
THEOREM CountersAlwaysFit == Spec => []CountersFit
  <1>1. HInv => CountersFit
    BY DEF HInv, CounterInv
  <1> QED
    BY <1>1, History, PTL

(* A run that returns Ok wrote a sealed ledger whose COMMIT entries are    *)
(* exactly the child's effects and whose quarantines were all rolled back, *)
(* and Runtime::run never seals a ledger with damage.                      *)
THEOREM DoneRunIsClean == Spec => []DoneIsClean
  <1>1. HInv => DoneIsClean
    BY DEF HInv, TallyInv
  <1> QED
    BY <1>1, History, PTL

(* A run that fails with a ledger it could write either recorded every     *)
(* effect as COMMIT or ends its ledger with the rejected acknowledgement   *)
(* (record_protocol_rejection).                                            *)
THEOREM UnconfirmedEffectsReported == Spec => []UnconfirmedEffectReported
  <1>1. HInv => UnconfirmedEffectReported
    BY DEF HInv, TallyInv
  <1> QED
    BY <1>1, History, PTL
=============================================================================
