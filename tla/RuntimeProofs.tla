---------------------------- MODULE RuntimeProofs ----------------------------
(***************************************************************************)
(* Proofs about Runtime, for every schedule, lease duration, set of faults *)
(* and width of the counters.                                              *)
(***************************************************************************)
EXTENDS Runtime, TLAPS

(***************************************************************************)
(* The inductive invariant.  None of the properties is inductive by        *)
(* itself: that an accepted ACK proves the effect happened rests on what   *)
(* can be in the pipe and in the reader's channel, and that on nonces.     *)
(***************************************************************************)

Live == {"hello", "loop", "ack", "exit"}

(* Nothing on the child's side is newer than the last nonce issued, and a  *)
(* request still in the pipe is the only one, and is unanswered.           *)
PipeInv ==
    /\ reply.nonce <= transaction_nonce
    /\ \A i \in DOMAIN responses : responses[i].nonce <= transaction_nonce
    /\ pc \in {"hello", "loop", "exit", "failed", "done"} => stdin = <<>>
    /\ child = "replying" =>
          /\ pc \in {"ack", "crashed"}
          /\ reply.nonce = transaction_nonce
          /\ \A i \in DOMAIN responses : responses[i].nonce < transaction_nonce
    /\ stdin # <<>> =>
          /\ Len(stdin) = 1
          /\ stdin[1].nonce = transaction_nonce
          /\ stdin[1].authority = authority_snapshot(body)
          /\ child # "replying"
          /\ reply.nonce < transaction_nonce
          /\ \A i \in DOMAIN responses : responses[i].nonce < transaction_nonce

(* The transaction in flight: the pipe holds the request, or the child has *)
(* read it and computed its answer.                                        *)
FlightInv ==
    /\ pc = "hello" => expected = Notice("HELLO")
    /\ pc = "ack" =>
          /\ expected.op \in Operations
          /\ expected.nonce = transaction_nonce
          /\ expected.op = "ROLLBACK" => expected.id = metrics["rollbacks"]
          /\ stdin # <<>> => /\ stdin[1].op = expected.op
                             /\ stdin[1].id = expected.id
          /\ stdin = <<>> => /\ reply.op = expected.op
                             /\ reply.id = expected.id
                             /\ reply.nonce = expected.nonce
    /\ pc = "loop" /\ rollback_confirmed =>
          /\ reply.op = "ROLLBACK"
          /\ reply.nonce = transaction_nonce
          /\ reply.id = metrics["rollbacks"]
    /\ pc \in {"failed", "done"} => child = "reaped"

\* The coordinator's counts against the effects the child performed.
CountInv ==
    /\ pc \in Live =>
          /\ metrics["child_actions"] = metrics["allowed_commits"]
          /\ pc # "ack" \/ expected.op # "WORK" =>
                performed = metrics["allowed_commits"]
    /\ pc = "ack" /\ expected.op = "WORK" =>
          /\ expected.actions = metrics["allowed_commits"] + 1
          /\ metrics["allowed_commits"] < U64_MAX
          /\ performed = metrics["allowed_commits"]
                         + (IF stdin = <<>> THEN 1 ELSE 0)
    /\ performed \in {metrics["allowed_commits"],
                      metrics["allowed_commits"] + 1}
    /\ stdin # <<>> /\ stdin[1].op = "WORK" =>
          performed = metrics["allowed_commits"]
    /\ pc = "done" => performed = metrics["allowed_commits"]

\* Who holds authority while what is in flight.
AuthorityInv ==
    /\ pc \notin {"hello", "failed", "crashed"} =>
          /\ body.quarantined <=> active_lease = NoLease
          /\ active_lease # NoLease =>
                authority_snapshot(body) = authority_snapshot(active_lease)
    /\ pc \notin {"failed", "crashed"} /\ txn.pending =>
          txn.captured_lease \in {active_lease, NoLease}
    /\ pc = "hello" =>
          ~txn.pending /\ ~body.quarantined /\ ~rollback_confirmed
    /\ pc \in Live /\ active_lease # NoLease => ~rollback_confirmed
    /\ pc = "ack" /\ expected.op = "WORK" => active_lease # NoLease
    /\ pc = "ack" /\ expected.op \in {"PROBE", "ROLLBACK"} =>
          active_lease = NoLease

IInv == TypeOK /\ PipeInv /\ FlightInv /\ CountInv /\ AuthorityInv

-----------------------------------------------------------------------------
(* Lemmas on the values the runtime builds.                                *)

\* A ledger or channel stays a sequence when all or some entries are added.
LEMMA ExtendSeq ==
    ASSUME NEW S, NEW s \in Seq(S), NEW e \in Seq(S)
    PROVE  /\ s \o e \in Seq(S)
           /\ \A k \in 0 .. Len(e) : s \o SubSeq(e, 1, k) \in Seq(S)
  OBVIOUS

\* One and two elements make a sequence.
LEMMA TwoElements ==
    ASSUME NEW S, NEW a \in S, NEW b \in S
    PROVE  <<a>> \in Seq(S) /\ <<a, b>> \in Seq(S)
  OBVIOUS

\* What is recorded is a ledger entry.
LEMMA EntryType ==
    ASSUME NEW event \in LedgerEvents, NEW decision \in Decisions,
           NEW b \in BodyState, NEW lease \in OptionalLease
    PROVE  Entry(event, decision, b, lease) \in Entries
  BY DEF Entry, Entries

\* The authority and the lease derived from a body are well typed.
LEMMA SnapshotType ==
    ASSUME NEW b \in BodyState
    PROVE  /\ authority_snapshot(b) \in AuthoritySnapshot
           /\ \A t \in Nat : SomeLease(b, t) \in SafetyLease
  BY DEF authority_snapshot, AuthoritySnapshot, SomeLease, SafetyLease,
         BodyState, PRINCIPAL_ID, RESOURCE_ID, ACTION_ID

\* HELLO, end of file and any other line are messages of the reader.
LEMMA NoticeType ==
    \A kind \in {"HELLO", "GARBAGE", "EOF"} : Notice(kind) \in Messages
  BY DEF Notice, Messages, NoAuthority, AuthoritySnapshot, Operations

\* The acknowledgement of a request is a message of the reader.
LEMMA AckType ==
    ASSUME NEW request \in Requests, NEW actions \in Nat
    PROVE  Ack(request, actions) \in Messages
  BY DEF Ack, Messages, Requests

\* Counting keeps the metrics natural numbers.
LEMMA CountType ==
    ASSUME NEW m \in [MetricNames -> Nat], NEW names
    PROVE  Count(m, names) \in [MetricNames -> Nat]
  BY U64Assumption DEF Count, SaturatingIncrement

\* AuthorityTransaction::commit returns one of the eleven decisions.
LEMMA DecisionType ==
    ASSUME NEW t, NEW b, NEW l, NEW r
    PROVE  CommitDecision(t, b, l, r) \in Decisions
  BY DEF CommitDecision, validate_commit, lease_replacement_decision,
         Decisions

\* Transactions before and after BEGIN are well typed.
LEMMA TransactionType ==
    /\ NewTransaction \in AuthorityTransaction
    /\ \A l \in OptionalLease : BegunTransaction(l) \in AuthorityTransaction
  BY DEF NewTransaction, BegunTransaction, AuthorityTransaction, OptionalLease

-----------------------------------------------------------------------------
(* How each ending of a handler leaves the child's side and the ledger.    *)

\* The control point and what coordinator and child share.
LinkType ==
    /\ pc \in {"hello", "loop", "ack", "exit"} \cup Terminal
    /\ transaction_nonce \in Nat
    /\ expected \in Messages
    /\ child \in {"boot", "ready", "replying", "leaving", "exited", "broken",
                  "hung", "reaped"}
    /\ stdin \in Seq(Requests)
    /\ stdin_open \in BOOLEAN
    /\ performed \in Nat
    /\ reply \in Messages
    /\ responses \in Seq(Messages)

\* Types of the child's side after a handler returns Err.
LEMMA FailType ==
    ASSUME TypeOK, Fail
    PROVE  LinkType'
  <1>1. <<>> \in Seq(Requests) /\ <<>> \in Seq(Messages)
    OBVIOUS
  <1> QED
    BY <1>1 DEF TypeOK, Fail, LinkType, Terminal

\* Types of the child's side after a handler returns Ok.
LEMMA ResumeType ==
    ASSUME TypeOK, Resume, responses' \in Seq(Messages)
    PROVE  LinkType'
  BY DEF TypeOK, Resume, LinkType, Terminal

\* Types of the child's side after a request was sent.
LEMMA TransactType ==
    ASSUME TypeOK, NEW op \in Operations, NEW id \in Nat, NEW actions \in Nat,
           NEW b \in BodyState, Transact(op, id, actions, b)
    PROVE  LinkType'
  <1> DEFINE request == [op |-> op, id |-> id, nonce |-> transaction_nonce + 1,
                         authority |-> authority_snapshot(b)]
  <1>1. CASE Fail
    BY <1>1, FailType
  <1>2. CASE ~Fail
    <2>1. request \in Requests
      BY SnapshotType DEF Requests, TypeOK
    <2>2. Ack(request, actions) \in Messages
      BY <2>1, AckType
    <2> HIDE DEF request
    <2>3. /\ pc' = "ack"
          /\ transaction_nonce' = transaction_nonce + 1
          /\ expected' = Ack(request, actions)
          /\ stdin' = Append(stdin, request)
          /\ UNCHANGED <<child, stdin_open, performed, reply, responses>>
      BY <1>2 DEF Transact, request
    <2> QED
      BY <2>1, <2>2, <2>3 DEF TypeOK, LinkType
  <1> QED
    BY <1>1, <1>2

\* What the handlers own: the runtime's fields and the ledger.
CoreType ==
    /\ body \in BodyState
    /\ active_lease \in OptionalLease
    /\ txn \in AuthorityTransaction
    /\ metrics \in [MetricNames -> Nat]
    /\ action_counter \in Nat
    /\ rollback_confirmed \in BOOLEAN
    /\ ledger \in Seq(Entries)

\* What the scheduler thread and the clock own.
SchedType ==
    /\ queue \in Seq(Events)
    /\ sent \in 0 .. Len(Schedule)
    /\ sent_at \in Nat
    /\ now \in Nat

\* The three groups make up the type invariant.
LEMMA TypeParts == CoreType' /\ LinkType' /\ SchedType' => TypeOK'
  BY DEF TypeOK, CoreType, LinkType, SchedType

\* What is taken off a queue, and what is left of it.
LEMMA TailType ==
    ASSUME NEW S, NEW s \in Seq(S), s # <<>>
    PROVE  Tail(s) \in Seq(S) /\ Head(s) \in S
  OBVIOUS

\* An element of a sequence over S is in S.
LEMMA ElementType ==
    ASSUME NEW S, NEW s \in Seq(S), NEW i \in DOMAIN s
    PROVE  s[i] \in S
  OBVIOUS

\* A step that leaves the scheduler, the clock and the queue alone, or takes
\* an event off the queue, keeps their types.
LEMMA SchedSame ==
    ASSUME TypeOK, UNCHANGED <<schedVars, now>>,
           queue' = queue \/ (queue # <<>> /\ queue' = Tail(queue))
    PROVE  SchedType'
  <1>1. queue' \in Seq(Events)
    BY TailType DEF TypeOK
  <1> QED
    BY <1>1 DEF TypeOK, SchedType, schedVars

\* A body that is quarantined, renewed or reset is a body.
LEMMA BodyType ==
    ASSUME NEW b \in BodyState, NEW e \in Nat, NEW g \in Nat, NEW c \in Nat,
           NEW q \in BOOLEAN
    PROVE  /\ [b EXCEPT !.quarantined = q] \in BodyState
           /\ [b EXCEPT !.epoch = e, !.generation = g] \in BodyState
           /\ [b EXCEPT !.certificate = c, !.generation = g,
                        !.quarantined = q] \in BodyState
  BY DEF BodyState

\* Recording one entry, or failing to, keeps the ledger a sequence of entries.
LEMMA RecordOne ==
    ASSUME TypeOK, NEW e \in Entries,
           \/ ledger' = ledger \o <<e>>
           \/ \E k \in 0 .. Len(<<e>>) :
                 ledger' = ledger \o SubSeq(<<e>>, 1, k)
    PROVE  ledger' \in Seq(Entries)
  BY ExtendSeq, TwoElements DEF TypeOK

\* Likewise for two entries.
LEMMA RecordTwo ==
    ASSUME TypeOK, NEW e \in Entries, NEW f \in Entries,
           \/ ledger' = ledger \o <<e, f>>
           \/ \E k \in 0 .. Len(<<e, f>>) :
                 ledger' = ledger \o SubSeq(<<e, f>>, 1, k)
    PROVE  ledger' \in Seq(Entries)
  BY ExtendSeq, TwoElements DEF TypeOK

\* quarantine keeps the types, whatever body it is given.
LEMMA QuarantineType ==
    ASSUME TypeOK, NEW b \in BodyState, Quarantine(b)
    PROVE  CoreType' /\ LinkType'
  <1>1. body' \in BodyState
    BY BodyType DEF Quarantine
  <1>2. active_lease' \in OptionalLease /\ txn' \in AuthorityTransaction
    BY TransactionType DEF Quarantine, OptionalLease
  <1>3. rollback_confirmed' \in BOOLEAN /\ action_counter' \in Nat
    BY DEF Quarantine, TypeOK
  <1>4. metrics' \in [MetricNames -> Nat] /\ metrics'["rollbacks"] \in Nat
    <2>1. metrics' \in [MetricNames -> Nat]
      <3>1. \/ metrics' = metrics
            \/ \E names : metrics' = Count(metrics, names)
        BY DEF Quarantine
      <3>2. metrics \in [MetricNames -> Nat]
        BY DEF TypeOK
      <3> QED
        BY <3>1, <3>2, CountType
    <2> QED
      BY <2>1 DEF MetricNames
  <1>5. Entry("QUARANTINE", "BLOCK_QUARANTINE", body', NoLease) \in Entries
    BY <1>1, EntryType DEF LedgerEvents, Decisions, OptionalLease
  <1>6. ledger' \in Seq(Entries)
    BY <1>5, RecordOne DEF Quarantine, Record, TypeOK
  <1>7. LinkType'
    <2>1. Fail \/ Transact("ROLLBACK", metrics'["rollbacks"], 0, body')
      BY DEF Quarantine, Record
    <2> QED
      BY <1>1, <1>4, <2>1, FailType, TransactType DEF Operations
  <1> QED
    BY <1>1, <1>2, <1>3, <1>4, <1>6, <1>7 DEF CoreType

\* record_protocol_rejection keeps the types.
LEMMA ProtocolRejectionType ==
    ASSUME TypeOK, ProtocolRejection
    PROVE  CoreType' /\ LinkType'
  <1>1. body' \in BodyState
    BY BodyType DEF ProtocolRejection, TypeOK
  <1>2. active_lease' \in OptionalLease /\ txn' \in AuthorityTransaction
    BY TransactionType DEF ProtocolRejection, OptionalLease
  <1>3. rollback_confirmed' \in BOOLEAN /\ action_counter' \in Nat
    BY DEF ProtocolRejection, TypeOK
  <1>4. metrics' \in [MetricNames -> Nat]
    BY CountType DEF ProtocolRejection, TypeOK
  <1>5. Entry("PROTOCOL_ACK_REJECTED", "BLOCK_QUARANTINE", body', NoLease)
           \in Entries
    BY <1>1, EntryType DEF LedgerEvents, Decisions, OptionalLease
  <1>6. ledger' \in Seq(Entries)
    BY <1>5, RecordOne DEF ProtocolRejection, Record
  <1>7. LinkType'
    BY FailType DEF ProtocolRejection, Record
  <1> QED
    BY <1>1, <1>2, <1>3, <1>4, <1>6, <1>7 DEF CoreType

-----------------------------------------------------------------------------
(* Type correctness.                                                       *)

\* Every step of the coordinator's main thread keeps the types.
LEMMA MainType ==
    ASSUME TypeOK, MainStep
    PROVE  TypeOK'
  <1> USE ScheduleAssumption
  <1>a. responses # <<>> => Tail(responses) \in Seq(Messages)
    BY TailType DEF TypeOK
  <1>b. NoLease \in OptionalLease
    BY DEF OptionalLease
  <1>c. \A event \in LedgerEvents, decision \in Decisions, b \in BodyState,
           lease \in OptionalLease :
              Entry(event, decision, b, lease) \in Entries
    BY EntryType
  <1>1. CASE AcceptHello
    <2>1. active_lease' \in OptionalLease
      BY <1>1, SnapshotType DEF AcceptHello, TypeOK, OptionalLease
    <2>2. Entry("LEASE_INSTALLED", "ALLOW", body, active_lease') \in Entries
      BY <2>1, <1>c DEF TypeOK, LedgerEvents, Decisions
    <2>3. ledger' \in Seq(Entries)
      BY <1>1, <2>2, RecordOne DEF AcceptHello, Record, TypeOK
    <2>4. LinkType'
      BY <1>1, <1>a, FailType, ResumeType DEF AcceptHello, Record, Acknowledged
    <2>5. CoreType'
      BY <1>1, <2>1, <2>3 DEF AcceptHello, TypeOK, CoreType
    <2>6. SchedType'
      BY <1>1 DEF AcceptHello, TypeOK, SchedType
    <2> QED
      BY <2>4, <2>5, <2>6, TypeParts
  <1>2. CASE RejectHello
    <2>1. LinkType'
      BY <1>2, FailType DEF RejectHello
    <2>2. CoreType' /\ SchedType'
      BY <1>2 DEF RejectHello, TypeOK, CoreType, SchedType, schedVars
    <2> QED
      BY <2>1, <2>2, TypeParts
  <1>3. CASE Begin
    <2>1. txn' \in AuthorityTransaction
      BY <1>3, TransactionType DEF Begin, TypeOK
    <2>2. Entry("BEGIN_ACTION", "ALLOW", body, active_lease) \in Entries
      BY <1>c DEF TypeOK, LedgerEvents, Decisions
    <2>3. ledger' \in Seq(Entries)
      BY <1>3, <2>2, RecordOne DEF Begin, Record, TypeOK
    <2>4. LinkType'
      BY <1>3, FailType, ResumeType DEF Begin, Record, TypeOK
    <2>5. CoreType'
      BY <1>3, <2>1, <2>3 DEF Begin, TypeOK, CoreType
    <2>6. SchedType'
      BY <1>3, SchedSame DEF Begin, Receive
    <2> QED
      BY <2>4, <2>5, <2>6, TypeParts
  <1>4. CASE CommitAllowed
    <2>1. /\ action_counter + 1 \in Nat
          /\ metrics["child_actions"] + 1 \in Nat
      <3>1. action_counter \in Nat /\ metrics \in [MetricNames -> Nat]
        BY DEF TypeOK
      <3>2. "child_actions" \in MetricNames
        BY DEF MetricNames
      <3>3. metrics["child_actions"] \in Nat
        BY <3>1, <3>2
      <3> QED
        BY <3>1, <3>3
    <2>2. LinkType'
      <3>1. Fail \/ Transact("WORK", action_counter + 1,
                             metrics["child_actions"] + 1, body)
        BY <1>4 DEF CommitAllowed
      <3> QED
        BY <2>1, <3>1, FailType, TransactType DEF TypeOK, Operations
    <2>3. CoreType'
      BY <1>4, TransactionType DEF CommitAllowed, TypeOK, CoreType
    <2>4. SchedType'
      BY <1>4, SchedSame DEF CommitAllowed, Receive
    <2> QED
      BY <2>2, <2>3, <2>4, TypeParts
  <1>5. CASE CommitBlocked
    <2>1. metrics' \in [MetricNames -> Nat]
      BY <1>5, CountType DEF CommitBlocked, TypeOK
    <2>2. Entry("COMMIT_BLOCKED", Decision, body, active_lease) \in Entries
      <3>1. Decision \in Decisions
        BY DecisionType DEF Decision
      <3> QED
        BY <3>1, <1>c DEF TypeOK, LedgerEvents
    <2>3. ledger' \in Seq(Entries)
      BY <1>5, <2>2, RecordOne DEF CommitBlocked, Record
    <2>4. LinkType'
      BY <1>5, FailType, ResumeType DEF CommitBlocked, Record, TypeOK
    <2>5. CoreType'
      BY <1>5, <2>1, <2>3, TransactionType DEF CommitBlocked, TypeOK, CoreType
    <2>6. SchedType'
      BY <1>5, SchedSame DEF CommitBlocked, Receive
    <2> QED
      BY <2>4, <2>5, <2>6, TypeParts
  <1>6. CASE Reset
    <2>1. SchedType'
      BY <1>6, SchedSame DEF Reset, Receive
    <2>2. CASE CanIncrement({body.epoch, body.generation})
      <3> DEFINE b == [body EXCEPT !.epoch = @ + 1, !.generation = @ + 1]
      <3>1. b \in BodyState
        <4>1. body.epoch + 1 \in Nat /\ body.generation + 1 \in Nat
          BY DEF TypeOK, BodyState
        <4> QED
          BY <4>1, BodyType DEF TypeOK
      <3>2. Quarantine(b)
        BY <1>6, <2>2 DEF Reset
      <3> QED
        BY <2>1, <3>1, <3>2, QuarantineType, TypeParts
    <2>3. CASE ~CanIncrement({body.epoch, body.generation})
      <3>1. LinkType'
        BY <1>6, <2>3, FailType DEF Reset
      <3>2. CoreType'
        BY <1>6, <2>3 DEF Reset, TypeOK, CoreType
      <3> QED
        BY <2>1, <3>1, <3>2, TypeParts
    <2> QED
      BY <2>2, <2>3
  <1>7. CASE Silence
    <2>1. SchedType'
      BY <1>7, SchedSame DEF Silence
    <2> QED
      BY <1>7, <2>1, QuarantineType, TypeParts DEF Silence, TypeOK
  <1>8. CASE ProbeRefused
    <2>1. metrics' \in [MetricNames -> Nat]
      BY <1>8, CountType DEF ProbeRefused, TypeOK
    <2>2. Entry("PROBE_REJECTED", "BLOCK_QUARANTINE", body, NoLease) \in Entries
      BY <1>b, <1>c DEF TypeOK, LedgerEvents, Decisions
    <2>3. ledger' \in Seq(Entries)
      BY <1>8, <2>2, RecordOne DEF ProbeRefused, Record
    <2>4. LinkType'
      BY <1>8, FailType, ResumeType DEF ProbeRefused, Record, TypeOK
    <2>5. CoreType'
      BY <1>8, <2>1, <2>3 DEF ProbeRefused, TypeOK, CoreType
    <2>6. SchedType'
      BY <1>8, SchedSame DEF ProbeRefused, Receive
    <2> QED
      BY <2>4, <2>5, <2>6, TypeParts
  <1>9. CASE ProbeSent
    <2>1. metrics' \in [MetricNames -> Nat]
      BY <1>9, CountType DEF ProbeSent, TypeOK
    <2>2. Entry("PROBE_REQUEST", "BLOCK_QUARANTINE", body, NoLease) \in Entries
      BY <1>b, <1>c DEF TypeOK, LedgerEvents, Decisions
    <2>3. ledger' \in Seq(Entries)
      BY <1>9, <2>2, RecordOne DEF ProbeSent, Record, TypeOK
    <2>4. LinkType'
      <3>1. body.certificate + 1 \in Nat
        BY DEF TypeOK, BodyState
      <3>2. Fail \/ Transact("PROBE", body.certificate + 1, 0, body)
        BY <1>9 DEF ProbeSent, Record
      <3> QED
        BY <3>1, <3>2, FailType, TransactType DEF TypeOK, Operations
    <2>5. CoreType'
      BY <1>9, <2>1, <2>3 DEF ProbeSent, TypeOK, CoreType
    <2>6. SchedType'
      BY <1>9, SchedSame DEF ProbeSent, Receive
    <2> QED
      BY <2>4, <2>5, <2>6, TypeParts
  <1>10. CASE Stop
    <2>1. LinkType'
      BY <1>10, TransactType DEF Stop, TypeOK, Operations
    <2>2. CoreType'
      BY <1>10 DEF Stop, TypeOK, CoreType
    <2>3. SchedType'
      BY <1>10, SchedSame DEF Stop, Receive
    <2> QED
      BY <2>1, <2>2, <2>3, TypeParts
  <1>11. CASE WorkAccepted
    <2>1. metrics' \in [MetricNames -> Nat]
      <3> DEFINE m == Count(metrics, {"allowed_commits", "verified_work_acks"})
      <3>1. m \in [MetricNames -> Nat]
        BY CountType DEF TypeOK
      <3>2. \/ metrics' = metrics
            \/ metrics' = [m EXCEPT !["child_actions"] = expected.actions]
        BY <1>11 DEF WorkAccepted
      <3>3. expected.actions \in Nat
        BY DEF TypeOK, Messages
      <3> HIDE DEF m
      <3> QED
        BY <3>1, <3>2, <3>3 DEF TypeOK
    <2>2. /\ Entry("CHILD_ACK_ACCEPTED", "ALLOW", body, active_lease) \in Entries
          /\ Entry("COMMIT", "ALLOW", body, active_lease) \in Entries
      BY <1>c DEF TypeOK, LedgerEvents, Decisions
    <2>3. ledger' \in Seq(Entries)
      BY <1>11, <2>2, RecordTwo DEF WorkAccepted, Record, TypeOK
    <2>4. LinkType'
      BY <1>11, <1>a, FailType, ResumeType
         DEF WorkAccepted, Record, Acknowledged
    <2>5. CoreType'
      BY <1>11, <2>1, <2>3 DEF WorkAccepted, TypeOK, CoreType, Messages
    <2>6. SchedType'
      BY <1>11, SchedSame DEF WorkAccepted
    <2> QED
      BY <2>4, <2>5, <2>6, TypeParts
  <1>12. CASE RollbackAccepted
    <2>1. metrics' \in [MetricNames -> Nat]
      BY <1>12, CountType DEF RollbackAccepted, TypeOK
    <2>2. Entry("ROLLBACK_ACK_ACCEPTED", "BLOCK_QUARANTINE", body, NoLease)
             \in Entries
      BY <1>b, <1>c DEF TypeOK, LedgerEvents, Decisions
    <2>3. ledger' \in Seq(Entries)
      BY <1>12, <2>2, RecordOne DEF RollbackAccepted, Record
    <2>4. LinkType'
      BY <1>12, <1>a, FailType, ResumeType
         DEF RollbackAccepted, Record, Acknowledged
    <2>5. CoreType'
      BY <1>12, <2>1, <2>3 DEF RollbackAccepted, TypeOK, CoreType
    <2>6. SchedType'
      BY <1>12, SchedSame DEF RollbackAccepted
    <2> QED
      BY <2>4, <2>5, <2>6, TypeParts
  <1>13. CASE ProbeAccepted
    <2>1. metrics' \in [MetricNames -> Nat]
      BY <1>13, CountType DEF ProbeAccepted, TypeOK
    <2>2. body' \in BodyState
      <3>1. expected.id \in Nat /\ body.generation + 1 \in Nat
        BY SMTT(30) DEF TypeOK, Messages, BodyState
      <3>2. \/ body' = body
            \/ body' = [body EXCEPT !.certificate = expected.id,
                                    !.generation  = body.generation + 1,
                                    !.quarantined = FALSE]
        BY <1>13 DEF ProbeAccepted
      <3> QED
        BY <3>1, <3>2 DEF TypeOK, BodyState
    <2>3. active_lease' \in OptionalLease
      <3>1. now + LeaseDuration \in Nat
        BY DEF TypeOK
      <3>2. active_lease' \in {active_lease, SomeLease(body', now + LeaseDuration)}
        BY <1>13 DEF ProbeAccepted
      <3> QED
        BY <2>2, <3>1, <3>2, SnapshotType DEF TypeOK, OptionalLease
    <2>4. /\ Entry("LEASE_INSTALLED", "ALLOW", body', active_lease') \in Entries
          /\ Entry("PROBE_ACCEPTED", "ALLOW", body', active_lease') \in Entries
      BY <2>2, <2>3, <1>c DEF LedgerEvents, Decisions
    <2>5. ledger' \in Seq(Entries)
      BY <1>13, <2>4, RecordTwo DEF ProbeAccepted, Record, TypeOK
    <2>6. LinkType'
      BY <1>13, <1>a, FailType, ResumeType
         DEF ProbeAccepted, Record, Acknowledged
    <2>7. CoreType'
      BY <1>13, <2>1, <2>2, <2>3, <2>5 DEF ProbeAccepted, TypeOK, CoreType
    <2>8. SchedType'
      BY <1>13, SchedSame DEF ProbeAccepted
    <2> QED
      BY <2>6, <2>7, <2>8, TypeParts
  <1>14. CASE StopAccepted
    <2>1. LinkType' /\ CoreType'
      BY <1>14, <1>a
         DEF StopAccepted, Acknowledged, TypeOK, LinkType, CoreType, runtimeVars
    <2>2. SchedType'
      BY <1>14, SchedSame DEF StopAccepted
    <2> QED
      BY <2>1, <2>2, TypeParts
  <1>15. CASE RejectAck
    <2>1. SchedType'
      BY <1>15, SchedSame DEF RejectAck
    <2>2. CASE expected.op = "ROLLBACK"
      <3>1. metrics' \in [MetricNames -> Nat]
        <4>1. metrics' = [metrics EXCEPT !["damage"] = 1]
          BY <1>15, <2>2 DEF RejectAck
        <4> QED
          BY <4>1 DEF TypeOK
      <3>2. Entry("ROLLBACK_ACK_REJECTED", "BLOCK_QUARANTINE", body, NoLease)
               \in Entries
        BY <1>b, <1>c DEF TypeOK, LedgerEvents, Decisions
      <3>3. ledger' \in Seq(Entries)
        BY <1>15, <2>2, <3>2, RecordOne DEF RejectAck, Record
      <3>4. LinkType'
        BY <1>15, <2>2, FailType DEF RejectAck, Record
      <3>5. CoreType'
        BY <1>15, <2>2, <3>1, <3>3 DEF RejectAck, TypeOK, CoreType
      <3> QED
        BY <2>1, <3>4, <3>5, TypeParts
    <2>3. CASE expected.op # "ROLLBACK"
      BY <1>15, <2>1, <2>3, ProtocolRejectionType, TypeParts DEF RejectAck
    <2> QED
      BY <2>2, <2>3
  <1>16. CASE Finish
    <2>1. metrics' \in [MetricNames -> Nat]
      BY <1>16 DEF Finish, FinalDamage, TypeOK
    <2> DEFINE d == IF FinalDamage = 0 THEN "ALLOW" ELSE "BLOCK_ACTION"
    <2>2. /\ Entry("FINAL", d, body, active_lease) \in Entries
          /\ Entry("LEDGER_SEAL", "ALLOW", body, active_lease) \in Entries
      BY <1>c DEF TypeOK, LedgerEvents, Decisions
    <2>3. ledger' \in Seq(Entries)
      BY <1>16, <2>2, RecordTwo DEF Finish, Record
    <2>4. LinkType'
      <3>1. <<>> \in Seq(Messages)
        OBVIOUS
      <3> QED
        BY <1>16, <3>1, FailType DEF Finish, Record, TypeOK, LinkType, Terminal
    <2>5. CoreType'
      BY <1>16, <2>1, <2>3 DEF Finish, TypeOK, CoreType
    <2>6. SchedType'
      BY <1>16, SchedSame DEF Finish
    <2> QED
      BY <2>4, <2>5, <2>6, TypeParts
  <1>17. CASE UncleanExit
    BY <1>17, SchedSame, ProtocolRejectionType, TypeParts DEF UncleanExit
  <1> QED
    BY <1>1, <1>2, <1>3, <1>4, <1>5, <1>6, <1>7, <1>8, <1>9, <1>10, <1>11,
       <1>12, <1>13, <1>14, <1>15, <1>16, <1>17 DEF MainStep

\* Every other step keeps the types: the child, its reader, the scheduler
\* thread, the clock, and the death of the coordinator.
LEMMA OtherType ==
    ASSUME TypeOK,
           \/ ChildStep \/ ChildCrash \/ ChildHang
           \/ Send \/ Tick \/ ParentCrash \/ Ended
    PROVE  TypeOK'
  <1>a. \A m \in Messages : Append(responses, m) \in Seq(Messages)
    BY DEF TypeOK
  <1>b. \A lines \in Seq(Messages) : responses \o lines \in Seq(Messages)
    BY ExtendSeq DEF TypeOK
  <1>1. CASE ChildPerform
    <2> DEFINE request == Head(stdin)
               actions == IF request.op = "WORK" THEN performed + 1
                                                 ELSE performed
    <2>1. request \in Requests /\ Tail(stdin) \in Seq(Requests)
      BY <1>1, TailType DEF ChildPerform, TypeOK
    <2>2. actions \in Nat
      BY DEF TypeOK
    <2>3. Ack(request, IF request.op = "WORK" THEN actions ELSE 0) \in Messages
      BY <2>1, <2>2, AckType
    <2>4. /\ performed' = actions
          /\ reply' = Ack(request, IF request.op = "WORK" THEN actions ELSE 0)
          /\ stdin' = Tail(stdin)
          /\ child' = "replying"
          /\ UNCHANGED <<ExceptChild, stdin_open, responses>>
      BY <1>1 DEF ChildPerform
    <2> HIDE DEF request, actions
    <2>5. LinkType'
      BY <2>1, <2>2, <2>3, <2>4
         DEF TypeOK, LinkType, ExceptChild, runtimeVars
    <2>6. CoreType' /\ SchedType'
      BY <2>4 DEF TypeOK, CoreType, SchedType, ExceptChild, runtimeVars,
                  schedVars
    <2> QED
      BY <2>5, <2>6, TypeParts
  <1>2. CASE ChildReply
    <2>1. responses' \in Seq(Messages)
      <3>1. PICK lines \in {<<reply>>, <<reply, reply>>,
                            <<Notice("GARBAGE")>>} :
               responses' = responses \/ responses' = responses \o lines
        BY <1>2 DEF ChildReply
      <3>2. lines \in Seq(Messages)
        BY TwoElements, NoticeType DEF TypeOK
      <3> QED
        BY <3>1, <3>2, <1>b DEF TypeOK
    <2> QED
      BY <1>2, <2>1 DEF ChildReply, TypeOK, ExceptChild, runtimeVars, schedVars
  <1>3. CASE ChildHello \/ ChildExit \/ ChildEndOfInput \/ ChildCrash
    <2>1. responses' \in Seq(Messages)
      BY <1>3, <1>a, NoticeType
         DEF ChildHello, ChildExit, ChildEndOfInput, ChildCrash
    <2> QED
      BY <1>3, <2>1 DEF ChildHello, ChildExit, ChildEndOfInput, ChildCrash,
                        TypeOK, ExceptChild, runtimeVars, schedVars
  <1>4. CASE ChildHang
    BY <1>4 DEF ChildHang, TypeOK, ExceptChild, runtimeVars, schedVars
  <1>5. CASE Send
    <2>1. PICK event \in Events : queue' = Append(queue, event)
      <3>1. sent + 1 \in DOMAIN Schedule
        BY <1>5, ScheduleAssumption DEF Send, TypeOK
      <3>2. Schedule[sent + 1].events \subseteq Events
        <4>1. Schedule[sent + 1] \in [delay : Nat, events : SUBSET Events]
          BY <3>1, ScheduleAssumption, ElementType
        <4> QED
          BY <4>1
      <3> QED
        BY <1>5, <3>2 DEF Send
    <2>2. queue' \in Seq(Events) /\ sent' \in 0 .. Len(Schedule)
      BY SMTT(30), <1>5, <2>1, ScheduleAssumption DEF Send, TypeOK
    <2> QED
      BY <1>5, <2>2 DEF Send, TypeOK, runtimeVars, childVars
  <1>6. CASE Tick
    BY <1>6 DEF Tick, TypeOK, runtimeVars, childVars, schedVars
  <1>7. CASE ParentCrash
    BY <1>7 DEF ParentCrash, TypeOK, Terminal, runtimeVars, schedVars
  <1>8. CASE Ended
    BY <1>8 DEF Ended, vars, TypeOK, runtimeVars, childVars, schedVars
  <1> QED
    BY <1>1, <1>2, <1>3, <1>4, <1>5, <1>6, <1>7, <1>8 DEF ChildStep

\* The types hold initially.
LEMMA InitType ==
    ASSUME Init
    PROVE  TypeOK
  <1>1. body \in BodyState
    BY ScheduleAssumption DEF Init, BodyState, BODY_UID
  <1>2. metrics \in [MetricNames -> Nat]
    BY DEF Init
  <1>3. CoreType
    <2>1. <<>> \in Seq(Entries)
      OBVIOUS
    <2> QED
      BY <1>1, <1>2, <2>1, TransactionType DEF Init, CoreType, OptionalLease
  <1>4. LinkType
    BY NoticeType DEF Init, LinkType
  <1>5. SchedType
    BY ScheduleAssumption DEF Init, SchedType
  <1> QED
    BY <1>3, <1>4, <1>5 DEF TypeOK, CoreType, LinkType, SchedType

(* Type correctness: every field of the runtime, every request and         *)
(* acknowledgement in the pipes and every ledger entry keeps its type in   *)
(* every reachable state, for every schedule and every set of faults.      *)
THEOREM TypeCorrect == Spec => []TypeOK
  <1>1. Init => TypeOK
    BY InitType
  <1>2. TypeOK /\ [Next]_vars => TypeOK'
    <2> SUFFICES ASSUME TypeOK, [Next]_vars
                 PROVE  TypeOK'
      OBVIOUS
    <2>1. CASE Next
      BY <2>1, MainType, OtherType DEF Next
    <2>2. CASE UNCHANGED vars
      BY <2>2 DEF vars, TypeOK, runtimeVars, childVars, schedVars
    <2> QED
      BY <2>1, <2>2
  <1> QED
    BY <1>1, <1>2, PTL DEF Spec

-----------------------------------------------------------------------------
(* Nonces in the reader's channel, and counters.                           *)

\* Nothing newer than n is left when a line is taken off the channel.
LEMMA NonceTail ==
    ASSUME NEW s \in Seq(Messages), s # <<>>, NEW n \in Nat,
           \A i \in DOMAIN s : s[i].nonce <= n
    PROVE  \A i \in DOMAIN Tail(s) : Tail(s)[i].nonce <= n
  OBVIOUS

\* Nothing newer than n is there after lines no newer than n are added.
LEMMA NonceExtend ==
    ASSUME NEW s \in Seq(Messages), NEW e \in Seq(Messages), NEW n \in Nat,
           \A i \in DOMAIN s : s[i].nonce <= n,
           \A i \in DOMAIN e : e[i].nonce <= n
    PROVE  \A i \in DOMAIN (s \o e) : (s \o e)[i].nonce <= n
  OBVIOUS

\* A notice carries nonce 0: it is older than every request.
LEMMA NonceNotice ==
    ASSUME NEW s \in Seq(Messages), NEW n \in Nat, NEW kind
    PROVE  /\ (\A i \in DOMAIN s : s[i].nonce <= n) =>
                 \A i \in DOMAIN Append(s, Notice(kind)) :
                    Append(s, Notice(kind))[i].nonce <= n
           /\ n > 0 /\ (\A i \in DOMAIN s : s[i].nonce < n) =>
                 \A i \in DOMAIN Append(s, Notice(kind)) :
                    Append(s, Notice(kind))[i].nonce < n
  BY DEF Notice

\* What Count does to a counter that is named, and to one that is not.
LEMMA CountValue ==
    ASSUME NEW m \in [MetricNames -> Nat], NEW names, NEW n \in MetricNames
    PROVE  /\ n \notin names => Count(m, names)[n] = m[n]
           /\ n \in names /\ m[n] < U64_MAX => Count(m, names)[n] = m[n] + 1
  BY DEF Count, SaturatingIncrement

-----------------------------------------------------------------------------
(* The invariant at each ending of a handler.                              *)

SafeInv == PipeInv /\ FlightInv /\ CountInv /\ AuthorityInv

\* Err: whatever was in flight, the child is reaped and its pipes are empty.
LEMMA FailSafe ==
    ASSUME IInv, Fail,
           performed' \in {metrics'["allowed_commits"],
                           metrics'["allowed_commits"] + 1}
    PROVE  SafeInv'
  <1>1. PipeInv'
    BY DEF IInv, PipeInv, Fail, TypeOK
  <1>2. FlightInv'
    BY DEF FlightInv, Fail
  <1>3. CountInv'
    BY DEF CountInv, Fail, Live
  <1>4. AuthorityInv'
    BY DEF AuthorityInv, Fail, Live
  <1> QED
    BY <1>1, <1>2, <1>3, <1>4 DEF SafeInv

\* Ok: back at the event loop with the pipe empty and the counts settled.
LEMMA ResumeSafe ==
    ASSUME IInv, TypeOK', Resume, stdin = <<>>, child # "replying",
           \/ responses' = responses
           \/ responses # <<>> /\ responses' = Tail(responses),
           metrics'["child_actions"] = metrics'["allowed_commits"],
           performed' = metrics'["allowed_commits"],
           rollback_confirmed' => /\ reply'.op = "ROLLBACK"
                                  /\ reply'.nonce = transaction_nonce'
                                  /\ reply'.id = metrics'["rollbacks"],
           body'.quarantined <=> active_lease' = NoLease,
           active_lease' # NoLease =>
              authority_snapshot(body') = authority_snapshot(active_lease'),
           active_lease' # NoLease => ~rollback_confirmed',
           txn'.pending => txn'.captured_lease \in {active_lease', NoLease}
    PROVE  SafeInv'
  <1>1. PipeInv'
    <2>1. \A i \in DOMAIN responses' : responses'[i].nonce <= transaction_nonce
      BY NonceTail DEF IInv, PipeInv, TypeOK
    <2> QED
      BY <2>1 DEF IInv, PipeInv, Resume
  <1>2. FlightInv'
    BY DEF FlightInv, Resume
  <1>3. CountInv'
    BY DEF CountInv, Resume, Live
  <1>4. AuthorityInv'
    BY DEF AuthorityInv, Resume, Live
  <1> QED
    BY <1>1, <1>2, <1>3, <1>4 DEF SafeInv

\* A transaction is started from the event loop: its nonce is newer than
\* anything the child has sent or computed.
LEMMA TransactSafe ==
    ASSUME IInv, TypeOK', pc = "loop",
           NEW op \in Operations, NEW id \in Nat, NEW actions \in Nat,
           NEW b \in BodyState, Transact(op, id, actions, b),
           authority_snapshot(b) = authority_snapshot(body'),
           op = "ROLLBACK" => id = metrics'["rollbacks"],
           op = "WORK" => /\ actions = metrics["allowed_commits"] + 1
                          /\ metrics["allowed_commits"] < U64_MAX
                          /\ active_lease' # NoLease,
           op \in {"PROBE", "ROLLBACK"} => active_lease' = NoLease,
           metrics'["child_actions"] = metrics["child_actions"],
           metrics'["allowed_commits"] = metrics["allowed_commits"],
           body'.quarantined <=> active_lease' = NoLease,
           active_lease' # NoLease =>
              authority_snapshot(body') = authority_snapshot(active_lease'),
           active_lease' # NoLease => ~rollback_confirmed',
           txn'.pending => txn'.captured_lease \in {active_lease', NoLease}
    PROVE  SafeInv'
  <1>0. /\ stdin = <<>> /\ child # "replying"
        /\ performed = metrics["allowed_commits"]
        /\ metrics["child_actions"] = metrics["allowed_commits"]
        /\ metrics["allowed_commits"] \in Nat
    BY DEF IInv, PipeInv, CountInv, Live, TypeOK, MetricNames
  <1>1. CASE Fail
    BY <1>0, <1>1, FailSafe DEF Fail
  <1>2. CASE ~Fail
    <2> DEFINE request == [op |-> op, id |-> id,
                           nonce |-> transaction_nonce + 1,
                           authority |-> authority_snapshot(b)]
    <2>1. /\ pc' = "ack"
          /\ transaction_nonce' = transaction_nonce + 1
          /\ expected' = Ack(request, actions)
          /\ stdin' = <<request>>
          /\ UNCHANGED <<child, stdin_open, performed, reply, responses>>
      BY <1>0, <1>2 DEF Transact
    <2>2. /\ expected'.op = op /\ expected'.id = id
          /\ expected'.nonce = transaction_nonce'
          /\ expected'.actions = actions
      BY <2>1 DEF Ack
    <2>3. /\ stdin' # <<>> /\ Len(stdin') = 1
          /\ stdin'[1].op = op /\ stdin'[1].id = id
          /\ stdin'[1].nonce = transaction_nonce'
          /\ stdin'[1].authority = authority_snapshot(body')
      BY <2>1
    <2> HIDE DEF request
    <2>4. PipeInv'
      <3>1. \A i \in DOMAIN responses : responses[i].nonce \in Nat
        <4>1. \A i \in DOMAIN responses : responses[i] \in Messages
          BY ElementType DEF IInv, TypeOK
        <4> QED
          BY <4>1 DEF Messages
      <3>2. reply.nonce \in Nat /\ transaction_nonce \in Nat
        BY DEF IInv, TypeOK, Messages
      <3> QED
        BY <1>0, <2>1, <2>3, <3>1, <3>2 DEF IInv, PipeInv
    <2>5. FlightInv'
      BY <2>1, <2>2, <2>3 DEF FlightInv
    <2>6. CountInv'
      BY <1>0, <2>1, <2>2, <2>3 DEF CountInv, Live
    <2>7. AuthorityInv'
      BY <2>1, <2>2 DEF AuthorityInv, Live
    <2> QED
      BY <2>4, <2>5, <2>6, <2>7 DEF SafeInv
  <1> QED
    BY <1>1, <1>2

\* An accepted ACK is the child's answer to the request in flight: nothing
\* else in the channel carries its nonce.
LEMMA AckConsumed ==
    ASSUME IInv, pc = "ack", Acknowledged
    PROVE  /\ stdin = <<>> /\ child # "replying" /\ responses # <<>>
           /\ reply.op = expected.op /\ reply.id = expected.id
           /\ reply.nonce = transaction_nonce
  <1>1. responses # <<>> /\ responses[1].nonce = transaction_nonce
    BY DEF Acknowledged, IInv, FlightInv, TypeOK
  <1>2. 1 \in DOMAIN responses /\ transaction_nonce \in Nat
    BY <1>1 DEF IInv, TypeOK
  <1> QED
    BY <1>1, <1>2 DEF IInv, PipeInv, FlightInv

-----------------------------------------------------------------------------
(* The invariant across each step of the main thread.                      *)

\* At the event loop nothing is in flight.
LEMMA LoopFacts ==
    ASSUME IInv, pc = "loop"
    PROVE  /\ stdin = <<>> /\ child # "replying"
           /\ performed = metrics["allowed_commits"]
           /\ metrics["child_actions"] = metrics["allowed_commits"]
           /\ rollback_confirmed => /\ reply.op = "ROLLBACK"
                                    /\ reply.nonce = transaction_nonce
                                    /\ reply.id = metrics["rollbacks"]
           /\ body.quarantined <=> active_lease = NoLease
           /\ active_lease # NoLease =>
                 authority_snapshot(body) = authority_snapshot(active_lease)
           /\ active_lease # NoLease => ~rollback_confirmed
           /\ txn.pending => txn.captured_lease \in {active_lease, NoLease}
  BY DEF IInv, PipeInv, FlightInv, CountInv, AuthorityInv, Live

\* Quarantine: authority is gone before ROLLBACK is written to the child.
LEMMA QuarantineSafe ==
    ASSUME IInv, TypeOK', pc = "loop", NEW b \in BodyState, Quarantine(b)
    PROVE  SafeInv'
  <1>1. /\ body' = [b EXCEPT !.quarantined = TRUE]
        /\ active_lease' = NoLease
        /\ txn' = NewTransaction
    BY DEF Quarantine
  <1>2. body'.quarantined /\ ~txn'.pending
    BY <1>1 DEF BodyState, NewTransaction
  <1>3. /\ metrics'["allowed_commits"] = metrics["allowed_commits"]
        /\ metrics'["child_actions"] = metrics["child_actions"]
    <2> DEFINE names == {"rollbacks"} \cup
                        (IF body.quarantined THEN {} ELSE {"quarantines"})
    <2>1. "allowed_commits" \notin names /\ "child_actions" \notin names
      OBVIOUS
    <2>2. metrics' = metrics \/ metrics' = Count(metrics, names)
      BY DEF Quarantine
    <2> HIDE DEF names
    <2>3. metrics \in [MetricNames -> Nat]
      BY DEF IInv, TypeOK
    <2>4. "allowed_commits" \in MetricNames /\ "child_actions" \in MetricNames
      BY DEF MetricNames
    <2> QED
      BY <2>1, <2>2, <2>3, <2>4, CountValue
  <1>4. CASE Fail
    BY <1>3, <1>4, LoopFacts, FailSafe DEF Fail
  <1>5. CASE ~Fail
    <2>1. Transact("ROLLBACK", metrics'["rollbacks"], 0, body')
      BY <1>5 DEF Quarantine, Record
    <2>2. metrics'["rollbacks"] \in Nat /\ body' \in BodyState
      BY DEF TypeOK, MetricNames
    <2> QED
      BY <1>1, <1>2, <1>3, <2>1, <2>2, TransactSafe DEF Operations
  <1> QED
    BY <1>4, <1>5

\* record_protocol_rejection ends the run.
LEMMA ProtocolRejectionSafe ==
    ASSUME IInv, ProtocolRejection
    PROVE  SafeInv'
  <1>1. metrics'["allowed_commits"] = metrics["allowed_commits"]
    <2> DEFINE names == IF body.quarantined THEN {} ELSE {"quarantines"}
    <2>1. "allowed_commits" \notin names
      OBVIOUS
    <2>2. metrics' = [Count(metrics, names) EXCEPT !["damage"] = 1]
      BY DEF ProtocolRejection
    <2> HIDE DEF names
    <2>3. metrics \in [MetricNames -> Nat]
      BY DEF IInv, TypeOK
    <2>4. "allowed_commits" \in MetricNames
      BY DEF MetricNames
    <2>5. Count(metrics, names) \in [MetricNames -> Nat]
      BY <2>3, CountType
    <2>6. metrics'["allowed_commits"] = Count(metrics, names)["allowed_commits"]
      BY <2>2, <2>4, <2>5
    <2> QED
      BY <2>1, <2>3, <2>4, <2>6, CountValue
  <1>2. Fail
    BY DEF ProtocolRejection, Record
  <1> QED
    BY <1>1, <1>2, FailSafe DEF Fail, IInv, CountInv

\* ALLOW needs an active lease.
LEMMA AllowNeedsLease ==
    Decision = "ALLOW" => active_lease # NoLease
  BY DEF Decision, CommitDecision


\* Every step of the main thread keeps the invariant.
LEMMA MainSafe ==
    ASSUME IInv, MainStep
    PROVE  SafeInv'
  <1>a. TypeOK /\ TypeOK' /\ metrics \in [MetricNames -> Nat]
    BY MainType DEF IInv, TypeOK
  <1>b. performed \in {metrics["allowed_commits"],
                       metrics["allowed_commits"] + 1}
    BY DEF IInv, CountInv
  <1>c. Fail /\ metrics'["allowed_commits"] = metrics["allowed_commits"]
           => SafeInv'
    BY <1>b, FailSafe DEF Fail
  <1>1. CASE AcceptHello
    <2>1. CASE Fail
      BY <1>1, <1>c, <2>1 DEF AcceptHello
    <2>2. CASE ~Fail
      <3>1. /\ Resume /\ responses # <<>> /\ responses' = Tail(responses)
            /\ active_lease' = SomeLease(body, now + LeaseDuration)
            /\ UNCHANGED <<body, txn, metrics, rollback_confirmed>>
        BY <1>1, <2>2 DEF AcceptHello, Record, Acknowledged
      <3>2. /\ stdin = <<>> /\ child # "replying"
            /\ ~txn.pending /\ ~body.quarantined /\ ~rollback_confirmed
        BY <1>1 DEF AcceptHello, IInv, PipeInv, AuthorityInv
      <3>3. /\ metrics["child_actions"] = metrics["allowed_commits"]
            /\ performed' = metrics["allowed_commits"]
        BY <1>1, <3>1 DEF AcceptHello, Resume, IInv, CountInv, Live
      <3>4. active_lease' # NoLease
        <4>1. active_lease' \in SafetyLease
          BY <3>1, SnapshotType, ScheduleAssumption DEF IInv, TypeOK
        <4> QED
          BY <4>1, NoLeaseAssumption
      <3>5. authority_snapshot(body) = authority_snapshot(active_lease')
        BY <3>1 DEF authority_snapshot, SomeLease
      <3> QED
        BY <1>a, <3>1, <3>2, <3>3, <3>4, <3>5, ResumeSafe
    <2> QED
      BY <2>1, <2>2
  <1>2. CASE RejectHello
    BY <1>2, <1>c DEF RejectHello
  <1>3. CASE Begin
    <2>1. CASE Fail
      BY <1>3, <1>c, <2>1 DEF Begin
    <2>2. CASE ~Fail
      <3>1. /\ pc = "loop" /\ Resume /\ responses' = responses
            /\ txn' = BegunTransaction(active_lease)
            /\ UNCHANGED <<body, active_lease, metrics, rollback_confirmed>>
        BY <1>3, <2>2 DEF Begin, Receive, Record
      <3>2. txn'.captured_lease = active_lease
        BY <3>1 DEF BegunTransaction
      <3>3. UNCHANGED <<performed, reply, transaction_nonce>>
        BY <3>1 DEF Resume
      <3> QED
        BY <1>a, <3>1, <3>2, <3>3, LoopFacts, ResumeSafe
    <2> QED
      BY <2>1, <2>2
  <1>4. CASE CommitAllowed
    <2>1. CASE Fail
      BY <1>4, <1>c, <2>1 DEF CommitAllowed
    <2>2. CASE ~Fail
      <3>1. /\ pc = "loop" /\ txn' = NewTransaction /\ Decision = "ALLOW"
            /\ metrics["child_actions"] < U64_MAX
            /\ Transact("WORK", action_counter + 1,
                        metrics["child_actions"] + 1, body)
            /\ UNCHANGED <<body, active_lease, metrics, rollback_confirmed>>
        BY <1>4, <2>2 DEF CommitAllowed, Receive, CanIncrement
      <3>2. active_lease # NoLease /\ ~txn'.pending
        BY <3>1, AllowNeedsLease DEF NewTransaction
      <3>3. /\ action_counter + 1 \in Nat
            /\ metrics["child_actions"] + 1 \in Nat
            /\ body \in BodyState
        BY SMTT(30) DEF IInv, TypeOK, MetricNames
      <3> QED
        BY <1>a, <3>1, <3>2, <3>3, LoopFacts, TransactSafe DEF Operations
    <2> QED
      BY <2>1, <2>2
  <1>5. CASE CommitBlocked
    <2>1. /\ pc = "loop" /\ txn' = NewTransaction
          /\ metrics' = Count(metrics, {"blocked_commits",
                                        "stale_or_expired_blocked"})
          /\ UNCHANGED <<body, active_lease, rollback_confirmed>>
      BY <1>5 DEF CommitBlocked, Receive
    <2>2. /\ metrics'["allowed_commits"] = metrics["allowed_commits"]
          /\ metrics'["child_actions"] = metrics["child_actions"]
          /\ metrics'["rollbacks"] = metrics["rollbacks"]
      BY <1>a, <2>1, CountValue DEF MetricNames
    <2>3. CASE Fail
      BY <1>c, <2>2, <2>3
    <2>4. CASE ~Fail
      <3>1. Resume /\ responses' = responses
        BY <1>5, <2>4 DEF CommitBlocked, Record
      <3>2. UNCHANGED <<performed, reply, transaction_nonce>>
        BY <3>1 DEF Resume
      <3>3. ~txn'.pending
        BY <2>1 DEF NewTransaction
      <3> QED
        BY <1>a, <2>1, <2>2, <3>1, <3>2, <3>3, LoopFacts, ResumeSafe
    <2> QED
      BY <2>3, <2>4
  <1>6. CASE Reset
    <2>1. CASE CanIncrement({body.epoch, body.generation})
      <3> DEFINE b == [body EXCEPT !.epoch = @ + 1, !.generation = @ + 1]
      <3>1. b \in BodyState
        <4>1. body.epoch + 1 \in Nat /\ body.generation + 1 \in Nat
          BY DEF IInv, TypeOK, BodyState
        <4> QED
          BY <4>1, BodyType DEF IInv, TypeOK
      <3>2. Quarantine(b) /\ pc = "loop"
        BY <1>6, <2>1 DEF Reset, Receive
      <3> QED
        BY <1>a, <3>1, <3>2, QuarantineSafe
    <2>2. CASE ~CanIncrement({body.epoch, body.generation})
      BY <1>6, <2>2, <1>c DEF Reset
    <2> QED
      BY <2>1, <2>2
  <1>7. CASE Silence
    BY <1>7, <1>a, QuarantineSafe DEF Silence, TypeOK
  <1>8. CASE ProbeRefused
    <2>1. /\ pc = "loop"
          /\ metrics' = Count(metrics, {"functional_probe_requests"})
          /\ UNCHANGED <<body, active_lease, txn, rollback_confirmed>>
      BY <1>8 DEF ProbeRefused, Receive
    <2>2. /\ metrics'["allowed_commits"] = metrics["allowed_commits"]
          /\ metrics'["child_actions"] = metrics["child_actions"]
          /\ metrics'["rollbacks"] = metrics["rollbacks"]
      BY <1>a, <2>1, CountValue DEF MetricNames
    <2>3. CASE Fail
      BY <1>c, <2>2, <2>3
    <2>4. CASE ~Fail
      <3>1. Resume /\ responses' = responses
        BY <1>8, <2>4 DEF ProbeRefused, Record
      <3>2. UNCHANGED <<performed, reply, transaction_nonce>>
        BY <3>1 DEF Resume
      <3> QED
        BY <1>a, <2>1, <2>2, <3>1, <3>2, LoopFacts, ResumeSafe
    <2> QED
      BY <2>3, <2>4
  <1>9. CASE ProbeSent
    <2>1. /\ pc = "loop" /\ body.quarantined
          /\ metrics' = Count(metrics, {"functional_probe_requests"})
          /\ UNCHANGED <<body, active_lease, txn, rollback_confirmed>>
      BY <1>9 DEF ProbeSent, Receive
    <2>2. /\ metrics'["allowed_commits"] = metrics["allowed_commits"]
          /\ metrics'["child_actions"] = metrics["child_actions"]
      BY <1>a, <2>1, CountValue DEF MetricNames
    <2>3. CASE Fail
      BY <1>c, <2>2, <2>3
    <2>4. CASE ~Fail
      <3>1. Transact("PROBE", body.certificate + 1, 0, body)
        BY <1>9, <2>4 DEF ProbeSent, Record
      <3>2. body.certificate + 1 \in Nat /\ body \in BodyState
        BY DEF IInv, TypeOK, BodyState
      <3> QED
        BY <1>a, <2>1, <2>2, <3>1, <3>2, LoopFacts, TransactSafe
           DEF Operations
    <2> QED
      BY <2>3, <2>4
  <1>10. CASE Stop
    <2>1. /\ pc = "loop" /\ Transact("STOP", action_counter, 0, body)
          /\ UNCHANGED <<body, active_lease, txn, metrics, rollback_confirmed>>
      BY <1>10 DEF Stop, Receive
    <2> QED
      BY <1>a, <2>1, LoopFacts, TransactSafe DEF TypeOK, Operations
  <1>11. CASE WorkAccepted
    <2>0. pc = "ack" /\ expected.op = "WORK" /\ Acknowledged
      BY <1>11 DEF WorkAccepted
    <2>1. /\ stdin = <<>> /\ child # "replying" /\ responses # <<>>
      BY <2>0, AckConsumed
    <2>2. /\ expected.actions = metrics["allowed_commits"] + 1
          /\ metrics["allowed_commits"] < U64_MAX
          /\ performed = metrics["allowed_commits"] + 1
      BY <2>0, <2>1 DEF IInv, CountInv
    <2>3. /\ metrics'["allowed_commits"] = performed
          /\ metrics'["child_actions"] = performed
      <3> DEFINE m == Count(metrics, {"allowed_commits", "verified_work_acks"})
      <3>1. /\ m \in [MetricNames -> Nat]
            /\ m["allowed_commits"] = metrics["allowed_commits"] + 1
        BY <1>a, <2>2, CountType, CountValue DEF MetricNames
      <3>2. metrics' = [m EXCEPT !["child_actions"] = expected.actions]
        BY <1>11, <2>2 DEF WorkAccepted, CanIncrement
      <3> HIDE DEF m
      <3> QED
        BY <2>2, <3>1, <3>2 DEF MetricNames
    <2>4. /\ UNCHANGED <<body, active_lease, txn, rollback_confirmed>>
          /\ Fail \/ (Resume /\ responses' = Tail(responses))
      BY <1>11 DEF WorkAccepted, Record
    <2>5. UNCHANGED performed
      BY <2>4 DEF Fail, Resume
    <2>6. CASE Fail
      BY <2>3, <2>5, <2>6, FailSafe
    <2>7. CASE Resume /\ responses' = Tail(responses)
      <3>1. /\ active_lease # NoLease /\ ~rollback_confirmed
            /\ body.quarantined <=> active_lease = NoLease
            /\ authority_snapshot(body) = authority_snapshot(active_lease)
            /\ txn.pending => txn.captured_lease \in {active_lease, NoLease}
        BY <2>0 DEF IInv, AuthorityInv, Live
      <3> QED
        BY <1>a, <2>1, <2>3, <2>4, <2>5, <2>7, <3>1, ResumeSafe
    <2> QED
      BY <2>4, <2>6, <2>7
  <1>12. CASE RollbackAccepted
    <2>0. /\ pc = "ack" /\ expected.op = "ROLLBACK" /\ Acknowledged
          /\ metrics' = Count(metrics, {"rollback_acks"})
          /\ UNCHANGED <<body, active_lease, txn>>
      BY <1>12 DEF RollbackAccepted
    <2>1. /\ stdin = <<>> /\ child # "replying" /\ responses # <<>>
          /\ reply.op = "ROLLBACK" /\ reply.id = expected.id
          /\ reply.nonce = transaction_nonce
      BY <2>0, AckConsumed
    <2>2. /\ metrics'["allowed_commits"] = metrics["allowed_commits"]
          /\ metrics'["child_actions"] = metrics["child_actions"]
          /\ metrics'["rollbacks"] = metrics["rollbacks"]
      BY <1>a, <2>0, CountValue DEF MetricNames
    <2>3. CASE Fail
      BY <1>c, <2>2, <2>3
    <2>4. CASE ~Fail
      <3>1. Resume /\ responses' = Tail(responses)
        BY <1>12, <2>4 DEF RollbackAccepted, Record
      <3>2. UNCHANGED <<performed, reply, transaction_nonce>>
        BY <3>1 DEF Resume
      <3>3. /\ performed = metrics["allowed_commits"]
            /\ metrics["child_actions"] = metrics["allowed_commits"]
        BY <2>0 DEF IInv, CountInv, Live
      <3>4. /\ active_lease = NoLease
            /\ body.quarantined <=> active_lease = NoLease
            /\ txn.pending => txn.captured_lease \in {active_lease, NoLease}
            /\ expected.id = metrics["rollbacks"]
        BY <2>0 DEF IInv, AuthorityInv, FlightInv, Live
      <3> QED
        BY <1>a, <2>0, <2>1, <2>2, <3>1, <3>2, <3>3, <3>4, ResumeSafe
    <2> QED
      BY <2>3, <2>4
  <1>13. CASE ProbeAccepted
    <2>0. pc = "ack" /\ expected.op = "PROBE" /\ Acknowledged /\ txn' = txn
      BY <1>13 DEF ProbeAccepted
    <2>1. stdin = <<>> /\ child # "replying" /\ responses # <<>>
      BY <2>0, AckConsumed
    <2>2. /\ metrics'["allowed_commits"] = metrics["allowed_commits"]
          /\ metrics'["child_actions"] = metrics["child_actions"]
      <3>1. \/ metrics' = metrics
            \/ metrics' = Count(metrics, {"functional_probe_recoveries"})
        BY <1>13 DEF ProbeAccepted
      <3> QED
        BY <1>a, <3>1, CountValue DEF MetricNames
    <2>3. CASE Fail
      BY <1>c, <2>2, <2>3
    <2>4. CASE ~Fail
      <3>1. /\ Resume /\ responses' = Tail(responses)
            /\ body' = [body EXCEPT !.certificate = expected.id,
                                    !.generation  = @ + 1,
                                    !.quarantined = FALSE]
            /\ active_lease' = SomeLease(body', now + LeaseDuration)
            /\ rollback_confirmed' = FALSE
        BY <1>13, <2>4 DEF ProbeAccepted, Record
      <3>2. UNCHANGED performed
        BY <3>1 DEF Resume
      <3>3. /\ performed = metrics["allowed_commits"]
            /\ metrics["child_actions"] = metrics["allowed_commits"]
        BY <2>0 DEF IInv, CountInv, Live
      <3>4. active_lease' # NoLease
        <4>1. active_lease' \in SafetyLease
          <5>1. body' \in BodyState /\ now + LeaseDuration \in Nat
            BY <1>a, ScheduleAssumption DEF TypeOK
          <5> QED
            BY <3>1, <5>1, SnapshotType
        <4> QED
          BY <4>1, NoLeaseAssumption
      <3>5. ~body'.quarantined
        BY <1>a, <3>1 DEF TypeOK, BodyState
      <3>6. authority_snapshot(body') = authority_snapshot(active_lease')
        BY <3>1 DEF authority_snapshot, SomeLease
      <3>7. txn.pending => txn.captured_lease = NoLease
        BY <2>0 DEF IInv, AuthorityInv, Live
      <3> QED
        BY <1>a, <2>0, <2>1, <2>2, <3>1, <3>2, <3>3, <3>4, <3>5, <3>6, <3>7,
           ResumeSafe
    <2> QED
      BY <2>3, <2>4
  <1>14. CASE StopAccepted
    <2>0. pc = "ack" /\ expected.op = "STOP" /\ Acknowledged
      BY <1>14 DEF StopAccepted
    <2>1. stdin = <<>> /\ child # "replying" /\ responses # <<>>
      BY <2>0, AckConsumed
    <2>2. /\ pc' = "exit" /\ responses' = Tail(responses)
          /\ UNCHANGED <<body, active_lease, txn, metrics, transaction_nonce,
                         rollback_confirmed, child, stdin, performed, reply>>
      BY <1>14 DEF StopAccepted, runtimeVars
    <2>3. PipeInv'
      <3>1. \A i \in DOMAIN responses' : responses'[i].nonce <= transaction_nonce
        BY <2>1, <2>2, NonceTail DEF IInv, PipeInv, TypeOK
      <3> QED
        BY <2>1, <2>2, <3>1 DEF IInv, PipeInv
    <2>4. FlightInv'
      BY <2>2 DEF FlightInv
    <2>5. CountInv'
      BY <2>0, <2>1, <2>2 DEF IInv, CountInv, Live
    <2>6. AuthorityInv'
      BY <2>0, <2>2 DEF IInv, AuthorityInv, Live
    <2> QED
      BY <2>3, <2>4, <2>5, <2>6 DEF SafeInv
  <1>15. CASE RejectAck
    <2>1. CASE expected.op = "ROLLBACK"
      <3>1. metrics' = [metrics EXCEPT !["damage"] = 1] /\ Fail
        BY <1>15, <2>1 DEF RejectAck, Record
      <3>2. metrics'["allowed_commits"] = metrics["allowed_commits"]
        BY <1>a, <3>1 DEF MetricNames
      <3> QED
        BY <1>c, <3>1, <3>2
    <2>2. CASE expected.op # "ROLLBACK"
      BY <1>15, <2>2, ProtocolRejectionSafe DEF RejectAck
    <2> QED
      BY <2>1, <2>2
  <1>16. CASE Finish
    <2>1. pc = "exit" /\ metrics' = [metrics EXCEPT !["damage"] = FinalDamage]
      BY <1>16 DEF Finish
    <2>2. /\ metrics'["allowed_commits"] = metrics["allowed_commits"]
          /\ metrics'["child_actions"] = metrics["child_actions"]
      BY <1>a, <2>1 DEF MetricNames
    <2>3. CASE Fail
      BY <1>c, <2>2, <2>3
    <2>4. CASE ~Fail
      <3>1. /\ pc' = "done" /\ child' = "reaped" /\ responses' = <<>>
            /\ UNCHANGED <<stdin, performed, reply, transaction_nonce, body,
                           active_lease, txn, rollback_confirmed>>
        BY <1>16, <2>4 DEF Finish, Record
      <3>2. stdin = <<>> /\ performed = metrics["allowed_commits"]
        BY <2>1 DEF IInv, PipeInv, CountInv, Live
      <3>3. PipeInv'
        BY <3>1, <3>2 DEF IInv, PipeInv
      <3>4. FlightInv'
        BY <3>1 DEF FlightInv
      <3>5. CountInv'
        BY <2>2, <3>1, <3>2 DEF CountInv, Live
      <3>6. AuthorityInv'
        BY <2>1, <3>1 DEF IInv, AuthorityInv, Live
      <3> QED
        BY <3>3, <3>4, <3>5, <3>6 DEF SafeInv
    <2> QED
      BY <2>3, <2>4
  <1>17. CASE UncleanExit
    BY <1>17, ProtocolRejectionSafe DEF UncleanExit
  <1> QED
    BY <1>1, <1>2, <1>3, <1>4, <1>5, <1>6, <1>7, <1>8, <1>9, <1>10, <1>11,
       <1>12, <1>13, <1>14, <1>15, <1>16, <1>17 DEF MainStep

-----------------------------------------------------------------------------
(* The invariant across every other step.                                  *)

\* A child that runs belongs to a coordinator that has not ended cleanly.
LEMMA RunningFacts ==
    ASSUME IInv, Running
    PROVE  pc \notin {"failed", "done"}
  BY DEF IInv, FlightInv, Running

\* The invariant does not mention the ledger, the scheduler or the clock.
LEMMA FrameSafe ==
    ASSUME IInv,
           UNCHANGED <<pc, body, active_lease, txn, metrics,
                       transaction_nonce, rollback_confirmed, expected, child,
                       stdin, performed, reply, responses>>
    PROVE  SafeInv'
  <1>1. PipeInv'
    BY DEF IInv, PipeInv
  <1>2. FlightInv'
    BY DEF IInv, FlightInv
  <1>3. CountInv'
    BY DEF IInv, CountInv, Live
  <1>4. AuthorityInv'
    BY DEF IInv, AuthorityInv, Live
  <1> QED
    BY <1>1, <1>2, <1>3, <1>4 DEF SafeInv

\* Every step of the child, the scheduler thread and the clock keeps the
\* invariant, and so do the faults.
LEMMA OtherSafe ==
    ASSUME IInv,
           \/ ChildStep \/ ChildCrash \/ ChildHang
           \/ Send \/ Tick \/ ParentCrash \/ Ended
    PROVE  SafeInv'
  <1>a. TypeOK /\ responses \in Seq(Messages) /\ transaction_nonce \in Nat
    BY DEF IInv, TypeOK
  <1>b. stdin # <<>> => transaction_nonce > 0
    BY DEF IInv, TypeOK, Messages, PipeInv
  <1>1. CASE ChildPerform
    <2> DEFINE request == stdin[1]
    <2>1. /\ stdin # <<>> /\ Len(stdin) = 1 /\ Head(stdin) = request
          /\ request.nonce = transaction_nonce
          /\ pc \in {"ack", "crashed"} /\ Tail(stdin) = <<>>
          /\ \A i \in DOMAIN responses : responses[i].nonce < transaction_nonce
      BY SMTT(30), <1>1 DEF ChildPerform, IInv, PipeInv, TypeOK, Terminal
    <2>2. /\ reply'.op = request.op /\ reply'.id = request.id
          /\ reply'.nonce = request.nonce
          /\ performed' = IF request.op = "WORK" THEN performed + 1
                                                 ELSE performed
          /\ stdin' = <<>> /\ child' = "replying"
          /\ UNCHANGED <<pc, body, active_lease, txn, metrics,
                         transaction_nonce, rollback_confirmed, expected,
                         responses>>
      BY <1>1, <2>1 DEF ChildPerform, Ack, ExceptChild, runtimeVars
    <2> HIDE DEF request
    <2>3. PipeInv'
      BY <1>a, <2>1, <2>2 DEF IInv, PipeInv
    <2>4. FlightInv'
      BY <2>1, <2>2 DEF IInv, FlightInv, request
    <2>5. CountInv'
      <3>1. metrics["allowed_commits"] \in Nat
        BY DEF IInv, TypeOK, MetricNames
      <3>2. pc = "ack" => expected.op = request.op
        BY <2>1 DEF IInv, FlightInv, request
      <3>3. request.op = "WORK" => performed = metrics["allowed_commits"]
        BY <2>1 DEF IInv, CountInv, request
      <3> QED
        BY <2>1, <2>2, <3>1, <3>2, <3>3 DEF IInv, CountInv, Live
    <2>6. AuthorityInv'
      BY <2>2 DEF IInv, AuthorityInv, Live
    <2> QED
      BY <2>3, <2>4, <2>5, <2>6 DEF SafeInv
  <1>2. CASE ChildReply
    <2>1. /\ child = "replying" /\ child' \in {"broken", "leaving", "ready"}
          /\ UNCHANGED <<pc, body, active_lease, txn, metrics,
                         transaction_nonce, rollback_confirmed, expected,
                         stdin, performed, reply>>
      BY <1>2 DEF ChildReply, ExceptChild, runtimeVars
    <2>2. /\ stdin = <<>> /\ pc \in {"ack", "crashed"}
      BY <2>1 DEF IInv, PipeInv
    <2>3. \A i \in DOMAIN responses' : responses'[i].nonce <= transaction_nonce
      <3>1. PICK lines \in {<<reply>>, <<reply, reply>>,
                            <<Notice("GARBAGE")>>} :
               responses' = responses \/ responses' = responses \o lines
        BY <1>2 DEF ChildReply
      <3>2. lines \in Seq(Messages)
        BY TwoElements, NoticeType DEF IInv, TypeOK
      <3>3. \A i \in DOMAIN lines : lines[i].nonce <= transaction_nonce
        BY <1>a DEF IInv, PipeInv, Notice
      <3> QED
        BY <1>a, <3>1, <3>2, <3>3, NonceExtend DEF IInv, PipeInv
    <2>4. PipeInv'
      BY <2>1, <2>2, <2>3 DEF IInv, PipeInv
    <2>5. FlightInv'
      BY <2>1, <2>2 DEF IInv, FlightInv
    <2>6. CountInv'
      BY <2>1 DEF IInv, CountInv, Live
    <2>7. AuthorityInv'
      BY <2>1 DEF IInv, AuthorityInv, Live
    <2> QED
      BY <2>4, <2>5, <2>6, <2>7 DEF SafeInv
  <1>3. CASE ChildHello \/ ChildExit \/ ChildEndOfInput \/ ChildCrash
             \/ ChildHang
    <2>1. /\ child' # "replying" /\ Running
          /\ \/ responses' = responses
             \/ \E kind \in {"HELLO", "EOF"} :
                   responses' = Append(responses, Notice(kind))
          /\ UNCHANGED <<pc, body, active_lease, txn, metrics,
                         transaction_nonce, rollback_confirmed, expected,
                         stdin, performed, reply>>
      BY <1>3 DEF ChildHello, ChildExit, ChildEndOfInput, ChildCrash,
                  ChildHang, Running, ExceptChild, runtimeVars
    <2>2. PipeInv'
      <3>1. \A i \in DOMAIN responses' : responses'[i].nonce <= transaction_nonce
        BY <1>a, <2>1, NonceNotice DEF IInv, PipeInv
      <3>2. stdin # <<>> => \A i \in DOMAIN responses' :
                               responses'[i].nonce < transaction_nonce
        BY <1>a, <1>b, <2>1, NonceNotice DEF IInv, PipeInv
      <3> QED
        BY <2>1, <3>1, <3>2 DEF IInv, PipeInv
    <2>3. FlightInv'
      BY <2>1, RunningFacts DEF IInv, FlightInv
    <2>4. CountInv'
      BY <2>1 DEF IInv, CountInv, Live
    <2>5. AuthorityInv'
      BY <2>1 DEF IInv, AuthorityInv, Live
    <2> QED
      BY <2>2, <2>3, <2>4, <2>5 DEF SafeInv
  <1>4. CASE ParentCrash
    <2>1. /\ pc' = "crashed"
          /\ UNCHANGED <<body, active_lease, txn, metrics,
                         transaction_nonce, rollback_confirmed, expected,
                         child, stdin, performed, reply, responses>>
      BY <1>4 DEF ParentCrash, runtimeVars
    <2>2. PipeInv'
      BY <2>1 DEF IInv, PipeInv
    <2>3. FlightInv'
      BY <2>1 DEF FlightInv
    <2>4. CountInv'
      BY <2>1 DEF IInv, CountInv, Live
    <2>5. AuthorityInv'
      BY <2>1 DEF AuthorityInv, Live
    <2> QED
      BY <2>2, <2>3, <2>4, <2>5 DEF SafeInv
  <1>5. CASE Send \/ Tick \/ Ended
    BY <1>5, FrameSafe
       DEF Send, Tick, Ended, vars, runtimeVars, childVars
  <1> QED
    BY <1>1, <1>2, <1>3, <1>4, <1>5 DEF ChildStep

\* The invariant holds initially.
LEMMA InitSafe ==
    ASSUME Init
    PROVE  IInv
  <1>1. TypeOK
    BY InitType
  <1>2. PipeInv
    BY DEF Init, PipeInv, Notice
  <1>3. FlightInv
    BY DEF Init, FlightInv
  <1>4. CountInv
    BY DEF Init, CountInv, Live, MetricNames
  <1>5. AuthorityInv
    BY DEF Init, AuthorityInv, Live, NewTransaction
  <1> QED
    BY <1>1, <1>2, <1>3, <1>4, <1>5 DEF IInv

(* The inductive invariant holds in every reachable state.                 *)
THEOREM Inductive == Spec => []IInv
  <1>1. Init => IInv
    BY InitSafe
  <1>2. IInv /\ [Next]_vars => IInv'
    <2> SUFFICES ASSUME IInv, [Next]_vars
                 PROVE  IInv'
      OBVIOUS
    <2>1. CASE Next
      BY <2>1, MainType, OtherType, MainSafe, OtherSafe
         DEF Next, IInv, SafeInv
    <2>2. CASE UNCHANGED vars
      <3>1. TypeOK'
        BY <2>2 DEF IInv, vars, TypeOK, runtimeVars, childVars, schedVars
      <3>2. SafeInv'
        BY <2>2, FrameSafe DEF vars, runtimeVars, childVars
      <3> QED
        BY <3>1, <3>2 DEF IInv, SafeInv
    <2> QED
      BY <2>1, <2>2
  <1> QED
    BY <1>1, <1>2, PTL DEF Spec

-----------------------------------------------------------------------------
(* The properties.                                                         *)

(* No effect without a commit and none twice, for every schedule and every *)
(* combination of lost, duplicated and garbled acknowledgements, failed    *)
(* ledger writes, and crashes of either process.                           *)
THEOREM EffectsAreAccounted == Spec => []EffectsAccounted
  <1>1. IInv => EffectsAccounted
    <2> SUFFICES ASSUME IInv
                 PROVE  EffectsAccounted
      OBVIOUS
    <2>1. pc \in Live \cup {"done", "failed", "crashed"}
      BY DEF IInv, TypeOK, Live, Terminal
    <2> QED
      BY <2>1 DEF IInv, CountInv, EffectsAccounted, Live
  <1> QED
    BY <1>1, Inductive, PTL

(* Withdrawn authority leaves nothing behind: quarantine, lease, body and  *)
(* captured lease agree at every point where the main thread can be.       *)
THEOREM AuthorityIsCoherent == Spec => []AuthorityCoherent
  <1>1. IInv => AuthorityCoherent
    BY DEF IInv, AuthorityInv, AuthorityCoherent
  <1> QED
    BY <1>1, Inductive, PTL

(* Between handlers the coordinator and the child agree, and no queued     *)
(* line can be mistaken for a future acknowledgement.                      *)
THEOREM LoopIsSynchronized == Spec => []LoopSynchronized
  <1>1. IInv => LoopSynchronized
    BY DEF IInv, PipeInv, FlightInv, LoopSynchronized
  <1> QED
    BY <1>1, Inductive, PTL

(* The child performs an effect only under the authority the coordinator   *)
(* holds at that moment, or after the coordinator died having held it.     *)
THEOREM EffectsUnderAuthority == Spec => EffectUnderAuthority
  <1> DEFINE Effect ==
         performed' # performed =>
          /\ Head(stdin).authority = authority_snapshot(body)
          /\ \/ pc = "crashed"
             \/ /\ active_lease # NoLease
                /\ ~body.quarantined
                /\ authority_snapshot(active_lease) = Head(stdin).authority
                /\ expected.op = "WORK" /\ expected.id = Head(stdin).id
  <1>1. IInv /\ [Next]_vars => [Effect]_vars
    <2> SUFFICES ASSUME IInv, Next, performed' # performed
                 PROVE  Effect
      BY DEF vars, childVars
    <2>1. ChildPerform
      BY DEF Next, MainStep, ChildStep, AcceptHello, RejectHello, Begin,
             CommitAllowed, CommitBlocked, Reset, Silence, Quarantine,
             ProbeRefused, ProbeSent, Stop, WorkAccepted, RollbackAccepted,
             ProbeAccepted, StopAccepted, RejectAck, ProtocolRejection,
             Finish, UncleanExit, ChildHello, ChildReply, ChildExit,
             ChildEndOfInput, ChildCrash, ChildHang, Send, Tick, ParentCrash,
             Ended, Record, Transact, Fail, Resume, vars, childVars
    <2>2. /\ stdin # <<>> /\ Head(stdin) = stdin[1] /\ stdin[1].op = "WORK"
          /\ pc \in {"ack", "crashed"}
      BY <2>1 DEF ChildPerform, IInv, PipeInv, TypeOK, Terminal
    <2>3. Head(stdin).authority = authority_snapshot(body)
      BY <2>2 DEF IInv, PipeInv
    <2>4. CASE pc = "ack"
      <3>1. expected.op = "WORK" /\ expected.id = stdin[1].id
        BY <2>2, <2>4 DEF IInv, FlightInv
      <3> QED
        BY <2>2, <2>3, <2>4, <3>1 DEF IInv, AuthorityInv
    <2> QED
      BY <2>2, <2>3, <2>4
  <1> QED
    BY <1>1, Inductive, PTL DEF Spec, EffectUnderAuthority
=============================================================================
