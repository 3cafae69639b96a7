------------------------------- MODULE Runtime -------------------------------
(***************************************************************************)
(* The reference runtime of src/runtime.rs: the coordinator's main thread, *)
(* the scheduler thread that feeds it events over an mpsc channel, and the *)
(* child process it drives over stdin and stdout.                          *)
(*                                                                         *)
(* Each blocking receive of the main thread is a control point (pc):       *)
(*   "hello"  Runtime::new waits for the child's HELLO                     *)
(*   "loop"   Runtime::run waits for an event or for the lease to run out  *)
(*   "ack"    transact_bound waits for the acknowledgement `expected`      *)
(*   "exit"   wait_for_clean_exit waits for the child to exit after STOP   *)
(* and the rest of a handler, up to its next blocking receive, is one      *)
(* action.  "done", "failed" and "crashed" are the ends of the process:    *)
(* Ok(metrics), Err returned by new or run, and the process killed.        *)
(*                                                                         *)
(* When a handler returns Err, Runtime is dropped: its fields are lost,    *)
(* the ledger stays as it was written, and Drop kills and reaps the child. *)
(***************************************************************************)
EXTENDS Authority, Sequences, FiniteSets

CONSTANTS
    Schedule,         \* what the scheduler thread sends, and after what delay
    LeaseDuration,    \* PolicyIr.lease_ns, in ticks of the clock
    FirstCertificate, \* body.certificate of Runtime::new
    Faults,           \* what may go wrong: see FaultKinds
    MaxTime,          \* bound: the clock stops here
    MaxIdleRollbacks  \* bound: rollbacks before idle 1 s timeouts stop

(* A position of the schedule is a delay and the events it may hold: one   *)
(* event for the schedule of the code, several to check all schedules of a *)
(* given length at once.                                                   *)
Events == {"BEGIN", "COMMIT", "RESET", "PROBE", "STOP"}

(* "io"        a call of Ledger::record or seal fails                      *)
(* "child"     the child process dies                                      *)
(* "hang"      the child process stops running without dying               *)
(* "garble"    the child writes a line other than the canonical ACK        *)
(* "duplicate" the child writes its ACK twice                              *)
(* "parent"    the coordinator process is killed                           *)
FaultKinds == {"io", "child", "hang", "garble", "duplicate", "parent"}

ASSUME ScheduleAssumption ==
    /\ Schedule \in Seq([delay : Nat, events : SUBSET Events])
    /\ LeaseDuration \in Nat \ {0}
    /\ FirstCertificate \in 0 .. U64_MAX
    /\ Faults \subseteq FaultKinds
    /\ MaxTime \in Nat
    /\ MaxIdleRollbacks \in Nat

VARIABLES
    pc,                  \* control point of the main thread
    body,                \* Runtime.body
    active_lease,        \* Runtime.active_lease
    txn,                 \* Runtime.authority_transaction
    metrics,             \* Runtime.metrics
    action_counter,      \* Runtime.action_counter
    transaction_nonce,   \* Runtime.transaction_nonce
    rollback_confirmed,  \* Runtime.rollback_confirmed
    expected,            \* the BoundExpectedAck of the transaction in flight
    ledger,              \* entries flushed to the ledger file
    child,               \* life cycle of the child process
    stdin,               \* requests in the child's stdin pipe
    stdin_open,          \* ChildProcess.input is Some
    performed,           \* child_loop's `actions`: WORK effects performed
    reply,               \* the last acknowledgement the child computed
    responses,           \* ChildProcess.responses, the reader's channel
    queue,               \* the mpsc channel from the scheduler thread
    sent,                \* events the scheduler thread has sent
    sent_at,             \* when the scheduler began its current sleep
    now                  \* monotonic_ns, in ticks

runtimeVars == <<body, active_lease, txn, metrics, action_counter,
                 transaction_nonce, rollback_confirmed>>
childVars   == <<child, stdin, stdin_open, performed, reply, responses>>
schedVars   == <<sent, sent_at>>
vars == <<pc, runtimeVars, expected, ledger, childVars, schedVars, queue,
          now>>

Terminal == {"done", "failed", "crashed"}

-----------------------------------------------------------------------------
(* Values.                                                                 *)

BODY_UID == 42330   \* 0x0A51A
PRINCIPAL_ID == 7
RESOURCE_ID  == 11
ACTION_ID    == 13

AuthoritySnapshot == [body_uid : Nat, epoch : Nat, generation : Nat,
                      certificate : Nat, principal_id : Nat,
                      resource_id : Nat, action_id : Nat]

authority_snapshot(b) ==
    [body_uid |-> b.body_uid, epoch |-> b.epoch, generation |-> b.generation,
     certificate |-> b.certificate, principal_id |-> PRINCIPAL_ID,
     resource_id |-> RESOURCE_ID, action_id |-> ACTION_ID]

Operations == {"WORK", "ROLLBACK", "PROBE", "STOP"}

Requests == [op : Operations, id : Nat, nonce : Nat,
             authority : AuthoritySnapshot]

(* A message of the reader thread: an acknowledgement line (its canonical  *)
(* text is a function of these fields; the work digest is one of id), the  *)
(* HELLO line, any other line or read error ("GARBAGE"), or end of file.   *)
(* The authority of the last three is that of no body.                     *)
Messages == [op : Operations \cup {"HELLO", "GARBAGE", "EOF"}, id : Nat,
             nonce : Nat, actions : Nat, authority : AuthoritySnapshot]

NoAuthority ==
    [body_uid |-> 0, epoch |-> 0, generation |-> 0, certificate |-> 0,
     principal_id |-> 0, resource_id |-> 0, action_id |-> 0]

Ack(request, actions) ==
    [op |-> request.op, id |-> request.id, nonce |-> request.nonce,
     actions |-> actions, authority |-> request.authority]

Notice(kind) == [op |-> kind, id |-> 0, nonce |-> 0, actions |-> 0,
                 authority |-> NoAuthority]

SomeLease(b, deadline) ==
    [body_uid |-> b.body_uid, epoch |-> b.epoch, generation |-> b.generation,
     certificate |-> b.certificate, valid_until |-> deadline,
     principal_id |-> PRINCIPAL_ID, resource_id |-> RESOURCE_ID,
     action_id |-> ACTION_ID]

\* checked_lease_deadline: the duration is compile_policy's, within bounds
DeadlineFits == now + LeaseDuration <= U64_MAX

MetricNames == {"allowed_commits", "blocked_commits",
                "stale_or_expired_blocked", "child_actions",
                "verified_work_acks", "quarantines", "rollbacks",
                "rollback_acks", "functional_probe_requests",
                "functional_probe_recoveries", "damage"}

\* One more of each of the named counters; checked ones are tested before.
Count(m, names) ==
    [n \in MetricNames |-> IF n \in names THEN SaturatingIncrement(m[n])
                                          ELSE m[n]]

LedgerEvents == {"LEASE_INSTALLED", "BEGIN_ACTION", "CHILD_ACK_ACCEPTED",
                 "COMMIT", "COMMIT_BLOCKED", "QUARANTINE",
                 "ROLLBACK_ACK_ACCEPTED", "ROLLBACK_ACK_REJECTED",
                 "PROTOCOL_ACK_REJECTED", "PROBE_REQUEST", "PROBE_ACCEPTED",
                 "PROBE_REJECTED", "FINAL", "LEDGER_SEAL"}

\* The authority fields of a LedgerEntry; its number is its position.
Entry(event, decision, b, lease) ==
    [event |-> event, decision |-> decision, body |-> b, lease |-> lease]

Entries == [event : LedgerEvents, decision : Decisions, body : BodyState,
            lease : OptionalLease]


-----------------------------------------------------------------------------
(* How a piece of a handler ends.  Each of these fixes pc, the transaction *)
(* in flight and the child's side; the caller fixes the rest.              *)

(* The handler returns Err: run returns it, Runtime is dropped, and        *)
(* terminate_and_reap closes stdin, kills the child and waits for it.      *)
Fail ==
    /\ pc' = "failed"
    /\ child' = "reaped"
    /\ stdin' = <<>>
    /\ stdin_open' = FALSE
    /\ responses' = <<>>
    /\ UNCHANGED <<performed, reply, transaction_nonce, expected>>

\* The handler returns Ok: the main thread is at recv_timeout again.
Resume ==
    /\ pc' = "loop"
    /\ UNCHANGED <<child, stdin, stdin_open, performed, reply,
                   transaction_nonce, expected>>

(* next_transaction_nonce, then transact_bound up to its recv_timeout: the *)
(* request is written and the acknowledgement it must get is fixed.  A     *)
(* write to a child that is gone fails and ends like a rejected ACK.       *)
Transact(op, id, actions, b) ==
    LET nonce   == transaction_nonce + 1
        request == [op |-> op, id |-> id, nonce |-> nonce,
                    authority |-> authority_snapshot(b)]
    IN  IF CanIncrement({transaction_nonce})
        THEN /\ pc' = "ack"
             /\ transaction_nonce' = nonce
             /\ expected' = Ack(request, actions)
             /\ stdin' = Append(stdin, request)
             /\ UNCHANGED <<child, stdin_open, performed, reply, responses>>
        ELSE Fail

(* Ledger::record, or record and seal, for each of the entries in turn.    *)
(* When one fails the handler returns Err with the earlier ones in the     *)
(* file.  The failed one may get there too: BufWriter flushes once more    *)
(* when it is dropped, and the sync of seal comes after its flush.         *)
Record(entries, Continue) ==
    \/ /\ ledger' = ledger \o entries
       /\ Continue
    \/ /\ "io" \in Faults
       /\ \E k \in 0 .. Len(entries) :
             ledger' = ledger \o SubSeq(entries, 1, k)
       /\ Fail

-----------------------------------------------------------------------------
(* Runtime::new, once the ledger is created and the child is spawned.      *)

Init ==
    /\ pc = "hello"
    /\ body = [body_uid |-> BODY_UID, epoch |-> 1, generation |-> 1,
               certificate |-> FirstCertificate, quarantined |-> FALSE]
    /\ active_lease = NoLease
    /\ txn = NewTransaction
    /\ metrics = [n \in MetricNames |-> 0]
    /\ action_counter = 0
    /\ transaction_nonce = 0
    /\ rollback_confirmed = FALSE
    /\ expected = Notice("HELLO")
    /\ ledger = <<>>
    /\ child = "boot"
    /\ stdin = <<>>
    /\ stdin_open = TRUE
    /\ performed = 0
    /\ reply = Notice("HELLO")
    /\ responses = <<>>
    /\ queue = <<>>
    /\ sent = 0
    /\ sent_at = 0
    /\ now = 0

\* A mutant of Acknowledged: only the operation of the line is compared.
AcknowledgedByOperation == responses # <<>> /\ Head(responses).op = expected.op

\* validate_hello and validate_bound_ack: the line is the canonical one.
Acknowledged == responses # <<>> /\ Head(responses) = expected

\* HELLO accepted: install_lease, and run starts the scheduler thread.
AcceptHello ==
    /\ pc = "hello"
    /\ Acknowledged
    /\ sent_at' = now
    /\ UNCHANGED <<body, txn, metrics, action_counter, rollback_confirmed,
                   queue, sent, now>>
    /\ IF DeadlineFits
       THEN /\ active_lease' = SomeLease(body, now + LeaseDuration)
            /\ Record(<<Entry("LEASE_INSTALLED", "ALLOW", body,
                              active_lease')>>,
                      Resume /\ responses' = Tail(responses))
       ELSE Fail /\ UNCHANGED <<active_lease, ledger>>

\* expect_hello fails: 1 s timeout, end of file, or another line.
RejectHello ==
    /\ pc = "hello"
    /\ ~Acknowledged
    /\ Fail
    /\ UNCHANGED <<body, active_lease, txn, metrics, action_counter,
                   rollback_confirmed, ledger, schedVars, queue, now>>

-----------------------------------------------------------------------------
(* The events of Runtime::run.                                             *)

\* The main thread takes the next event off the channel.
Receive(event) ==
    /\ pc = "loop"
    /\ queue # <<>>
    /\ Head(queue) = event
    /\ queue' = Tail(queue)
    /\ UNCHANGED <<schedVars, now>>

(* begin: captures the active lease, present or not.  A second BEGIN while *)
(* one is pending makes run return Err, with nothing recorded.             *)
Begin ==
    /\ Receive("BEGIN")
    /\ UNCHANGED <<body, active_lease, metrics, action_counter,
                   rollback_confirmed>>
    /\ IF txn.pending
       THEN Fail /\ UNCHANGED <<txn, ledger>>
       ELSE /\ txn' = BegunTransaction(active_lease)
            /\ Record(<<Entry("BEGIN_ACTION", "ALLOW", body, active_lease)>>,
                      Resume /\ UNCHANGED responses)

Decision ==
    CommitDecision(txn, body, active_lease,
                   [now |-> now, principal_id |-> PRINCIPAL_ID,
                    resource_id |-> RESOURCE_ID, action_id |-> ACTION_ID])

\* commit, allowed: the WORK request goes to the child.
CommitAllowed ==
    /\ Receive("COMMIT")
    /\ Decision = "ALLOW"
    /\ txn' = NewTransaction
    /\ UNCHANGED <<body, active_lease, metrics, action_counter,
                   rollback_confirmed, ledger>>
    /\ IF CanIncrement({action_counter, metrics["child_actions"]})
       THEN Transact("WORK", action_counter + 1,
                     metrics["child_actions"] + 1, body)
       ELSE Fail

\* commit, blocked: counted and recorded; authority is left as it is.
CommitBlocked ==
    /\ Receive("COMMIT")
    /\ Decision # "ALLOW"
    /\ txn' = NewTransaction
    /\ metrics' = Count(metrics, {"blocked_commits",
                                  "stale_or_expired_blocked"})
    /\ UNCHANGED <<body, active_lease, action_counter, rollback_confirmed>>
    /\ Record(<<Entry("COMMIT_BLOCKED", Decision, body, active_lease)>>,
              Resume /\ UNCHANGED responses)

(* quarantine, up to the ROLLBACK transaction: authority is withdrawn and  *)
(* the withdrawal recorded before the child is told.                       *)
Quarantine(b) ==
    /\ body' = [b EXCEPT !.quarantined = TRUE]
    /\ active_lease' = NoLease
    /\ txn' = NewTransaction
    /\ rollback_confirmed' = FALSE
    /\ UNCHANGED action_counter
    /\ IF CanIncrement({metrics["rollbacks"]})
       THEN /\ metrics' = Count(metrics, {"rollbacks"} \cup
                    (IF body.quarantined THEN {} ELSE {"quarantines"}))
            /\ Record(<<Entry("QUARANTINE", "BLOCK_QUARANTINE", body',
                              NoLease)>>,
                      Transact("ROLLBACK", metrics'["rollbacks"], 0, body'))
       ELSE Fail /\ UNCHANGED <<metrics, ledger>>

\* reset: a new epoch and generation, then quarantine.
Reset ==
    /\ Receive("RESET")
    /\ IF CanIncrement({body.epoch, body.generation})
       THEN Quarantine([body EXCEPT !.epoch = @ + 1, !.generation = @ + 1])
       ELSE /\ Fail
            /\ UNCHANGED <<body, active_lease, txn, metrics, action_counter,
                           rollback_confirmed, ledger>>

(* recv_timeout returns Timeout: no event is queued and the lease has run  *)
(* out, or there is no lease and a second has passed.  Nothing compares    *)
(* that second with the clock, so it may pass at any moment.               *)
Silence ==
    /\ pc = "loop"
    /\ queue = <<>>
    /\ IF active_lease # NoLease
       THEN now >= active_lease.valid_until
       ELSE metrics["rollbacks"] < MaxIdleRollbacks
    /\ Quarantine(body)
    /\ UNCHANGED <<schedVars, queue, now>>

(* functional_freshness_probe: refused and recorded unless a rollback was  *)
(* confirmed since the quarantine.                                         *)
ProbeRefused ==
    /\ Receive("PROBE")
    /\ ~body.quarantined \/ ~rollback_confirmed
    /\ metrics' = Count(metrics, {"functional_probe_requests"})
    /\ UNCHANGED <<body, active_lease, txn, action_counter,
                   rollback_confirmed>>
    /\ Record(<<Entry("PROBE_REJECTED", "BLOCK_QUARANTINE", body, NoLease)>>,
              Resume /\ UNCHANGED responses)

(* functional_freshness_probe, up to the PROBE transaction, which carries  *)
(* the certificate the new lease would have.                               *)
ProbeSent ==
    /\ Receive("PROBE")
    /\ body.quarantined /\ rollback_confirmed
    /\ metrics' = Count(metrics, {"functional_probe_requests"})
    /\ UNCHANGED <<body, active_lease, txn, action_counter,
                   rollback_confirmed>>
    /\ IF CanIncrement({body.certificate, body.generation,
                        transaction_nonce})
       THEN Record(<<Entry("PROBE_REQUEST", "BLOCK_QUARANTINE", body,
                           NoLease)>>,
                   Transact("PROBE", body.certificate + 1, 0, body))
       ELSE Fail /\ UNCHANGED ledger

(* The STOP event, or the scheduler thread gone: the loop ends and STOP is *)
(* sent to the child.                                                      *)
Stop ==
    /\ \/ Receive("STOP")
       \/ /\ pc = "loop"
          /\ queue = <<>> /\ sent = Len(Schedule)
          /\ UNCHANGED <<schedVars, queue, now>>
    /\ UNCHANGED <<body, active_lease, txn, metrics, action_counter,
                   rollback_confirmed, ledger>>
    /\ Transact("STOP", action_counter, 0, body)

-----------------------------------------------------------------------------
(* The rest of a handler, once the ACK it waits for has come.              *)

\* A mutant of WorkAccepted: metrics.child_actions is not updated.
WorkAcceptedUncounted ==
    /\ pc = "ack"
    /\ expected.op = "WORK"
    /\ Acknowledged
    /\ metrics' = Count(metrics, {"allowed_commits", "verified_work_acks"})
    /\ action_counter' = expected.id
    /\ UNCHANGED <<body, active_lease, txn, rollback_confirmed, schedVars,
                   queue, now>>
    /\ Record(<<Entry("CHILD_ACK_ACCEPTED", "ALLOW", body, active_lease),
                Entry("COMMIT", "ALLOW", body, active_lease)>>,
              Resume /\ responses' = Tail(responses))

\* commit: the effect is counted and recorded under the lease still active.
WorkAccepted ==
    /\ pc = "ack"
    /\ expected.op = "WORK"
    /\ Acknowledged
    /\ UNCHANGED <<body, active_lease, txn, rollback_confirmed, schedVars,
                   queue, now>>
    /\ IF CanIncrement({metrics["allowed_commits"]})
       THEN /\ metrics' = [Count(metrics, {"allowed_commits",
                                           "verified_work_acks"})
                           EXCEPT !["child_actions"] = expected.actions]
            /\ action_counter' = expected.id
            /\ Record(<<Entry("CHILD_ACK_ACCEPTED", "ALLOW", body,
                              active_lease),
                        Entry("COMMIT", "ALLOW", body, active_lease)>>,
                      Resume /\ responses' = Tail(responses))
       ELSE Fail /\ UNCHANGED <<metrics, action_counter, ledger>>

\* quarantine: the rollback is confirmed.
RollbackAccepted ==
    /\ pc = "ack"
    /\ expected.op = "ROLLBACK"
    /\ Acknowledged
    /\ rollback_confirmed' = TRUE
    /\ metrics' = Count(metrics, {"rollback_acks"})
    /\ UNCHANGED <<body, active_lease, txn, action_counter, schedVars,
                   queue, now>>
    /\ Record(<<Entry("ROLLBACK_ACK_ACCEPTED", "BLOCK_QUARANTINE", body,
                      NoLease)>>,
              Resume /\ responses' = Tail(responses))

\* A mutant of ProbeAccepted: the generation is not advanced.
ProbeAcceptedSameGeneration ==
    /\ pc = "ack"
    /\ expected.op = "PROBE"
    /\ Acknowledged
    /\ UNCHANGED <<txn, action_counter, schedVars, queue, now>>
    /\ IF DeadlineFits
       THEN /\ body' = [body EXCEPT !.certificate = expected.id,
                                    !.quarantined = FALSE]
            /\ active_lease' = SomeLease(body', now + LeaseDuration)
            /\ rollback_confirmed' = FALSE
            /\ metrics' = Count(metrics, {"functional_probe_recoveries"})
            /\ Record(<<Entry("LEASE_INSTALLED", "ALLOW", body',
                              active_lease'),
                        Entry("PROBE_ACCEPTED", "ALLOW", body',
                              active_lease')>>,
                      Resume /\ responses' = Tail(responses))
       ELSE /\ Fail
            /\ UNCHANGED <<body, active_lease, rollback_confirmed, metrics,
                           ledger>>

\* A mutant of ProbeAccepted: the lease is bound to the body before the probe.
ProbeAcceptedOldBody ==
    /\ pc = "ack"
    /\ expected.op = "PROBE"
    /\ Acknowledged
    /\ UNCHANGED <<txn, action_counter, schedVars, queue, now>>
    /\ IF DeadlineFits
       THEN /\ body' = [body EXCEPT !.certificate = expected.id,
                                    !.generation  = @ + 1,
                                    !.quarantined = FALSE]
            /\ active_lease' = SomeLease(body, now + LeaseDuration)
            /\ rollback_confirmed' = FALSE
            /\ metrics' = Count(metrics, {"functional_probe_recoveries"})
            /\ Record(<<Entry("LEASE_INSTALLED", "ALLOW", body',
                              active_lease'),
                        Entry("PROBE_ACCEPTED", "ALLOW", body',
                              active_lease')>>,
                      Resume /\ responses' = Tail(responses))
       ELSE /\ Fail
            /\ UNCHANGED <<body, active_lease, rollback_confirmed, metrics,
                           ledger>>

(* functional_freshness_probe: a new generation and certificate, and a     *)
(* lease that starts at this moment.                                       *)
ProbeAccepted ==
    /\ pc = "ack"
    /\ expected.op = "PROBE"
    /\ Acknowledged
    /\ UNCHANGED <<txn, action_counter, schedVars, queue, now>>
    /\ IF DeadlineFits
       THEN /\ body' = [body EXCEPT !.certificate = expected.id,
                                    !.generation  = @ + 1,
                                    !.quarantined = FALSE]
            /\ active_lease' = SomeLease(body', now + LeaseDuration)
            /\ rollback_confirmed' = FALSE
            /\ metrics' = Count(metrics, {"functional_probe_recoveries"})
            /\ Record(<<Entry("LEASE_INSTALLED", "ALLOW", body',
                              active_lease'),
                        Entry("PROBE_ACCEPTED", "ALLOW", body',
                              active_lease')>>,
                      Resume /\ responses' = Tail(responses))
       ELSE /\ Fail
            /\ UNCHANGED <<body, active_lease, rollback_confirmed, metrics,
                           ledger>>

\* stop_bound: wait_for_clean_exit closes stdin and polls the child.
StopAccepted ==
    /\ pc = "ack"
    /\ expected.op = "STOP"
    /\ Acknowledged
    /\ pc' = "exit"
    /\ stdin_open' = FALSE
    /\ responses' = Tail(responses)
    /\ UNCHANGED <<runtimeVars, expected, ledger, child, stdin, performed,
                   reply, schedVars, queue, now>>

\* A mutant of ProtocolRejection: nothing is recorded.
ProtocolRejectionUnrecorded ==
    /\ body' = [body EXCEPT !.quarantined = TRUE]
    /\ active_lease' = NoLease
    /\ txn' = NewTransaction
    /\ rollback_confirmed' = FALSE
    /\ metrics' = [Count(metrics, IF body.quarantined THEN {}
                                  ELSE {"quarantines"})
                   EXCEPT !["damage"] = 1]
    /\ UNCHANGED action_counter
    /\ UNCHANGED ledger
    /\ Fail

\* A mutant of ProtocolRejection: the child is not killed.
ProtocolRejectionKeepsChild ==
    /\ body' = [body EXCEPT !.quarantined = TRUE]
    /\ active_lease' = NoLease
    /\ txn' = NewTransaction
    /\ rollback_confirmed' = FALSE
    /\ metrics' = [Count(metrics, IF body.quarantined THEN {}
                                  ELSE {"quarantines"})
                   EXCEPT !["damage"] = 1]
    /\ UNCHANGED action_counter
    /\ ledger' = Append(ledger, Entry("PROTOCOL_ACK_REJECTED",
                                      "BLOCK_QUARANTINE", body', NoLease))
    /\ pc' = "failed"
    /\ UNCHANGED <<childVars, transaction_nonce, expected>>

\* record_protocol_rejection, whose caller then returns the error.
ProtocolRejection ==
    /\ body' = [body EXCEPT !.quarantined = TRUE]
    /\ active_lease' = NoLease
    /\ txn' = NewTransaction
    /\ rollback_confirmed' = FALSE
    /\ metrics' = [Count(metrics, IF body.quarantined THEN {}
                                  ELSE {"quarantines"})
                   EXCEPT !["damage"] = 1]
    /\ UNCHANGED action_counter
    /\ Record(<<Entry("PROTOCOL_ACK_REJECTED", "BLOCK_QUARANTINE", body',
                      NoLease)>>,
              Fail)

\* A mutant of RejectAck: the receive has no timeout.
RejectAckWaits ==
    \/ /\ pc = "ack"
       /\ responses = <<>>
       /\ UNCHANGED vars
    \/ /\ pc = "ack"
       /\ responses # <<>> /\ ~Acknowledged
       /\ ProtocolRejection
       /\ UNCHANGED <<schedVars, queue, now>>

(* transact_bound fails: another line, end of file, a read or write error, *)
(* or no line within a second.  The child is killed and reaped first, and  *)
(* the caller records the failure and returns it.                          *)
RejectAck ==
    /\ pc = "ack"
    /\ ~Acknowledged
    /\ IF expected.op = "ROLLBACK"
       THEN /\ metrics' = [metrics EXCEPT !["damage"] = 1]
            /\ UNCHANGED <<body, active_lease, txn, action_counter,
                           rollback_confirmed>>
            /\ Record(<<Entry("ROLLBACK_ACK_REJECTED", "BLOCK_QUARANTINE",
                              body, NoLease)>>,
                      Fail)
       ELSE ProtocolRejection
    /\ UNCHANGED <<schedVars, queue, now>>

-----------------------------------------------------------------------------
(* wait_for_clean_exit and the end of run.                                 *)

CleanExit == child = "exited" /\ responses = <<Notice("EOF")>>

FinalDamage ==
    IF \/ metrics["child_actions"] # metrics["allowed_commits"]
       \/ metrics["verified_work_acks"] # metrics["allowed_commits"]
       \/ metrics["rollback_acks"] # metrics["rollbacks"]
    THEN 1 ELSE 0

\* Status 0 and nothing but end of file left: FINAL is recorded and sealed.
Finish ==
    /\ pc = "exit"
    /\ CleanExit
    /\ metrics' = [metrics EXCEPT !["damage"] = FinalDamage]
    /\ UNCHANGED <<body, active_lease, txn, action_counter,
                   rollback_confirmed, schedVars, queue, now>>
    /\ Record(<<Entry("FINAL", IF FinalDamage = 0 THEN "ALLOW"
                                                  ELSE "BLOCK_ACTION",
                      body, active_lease),
                Entry("LEDGER_SEAL", "ALLOW", body, active_lease)>>,
              /\ pc' = "done"
              /\ child' = "reaped"
              /\ responses' = <<>>
              /\ UNCHANGED <<stdin, stdin_open, performed, reply,
                             transaction_nonce, expected>>)

(* The child exits with another status, has written more, or is still      *)
(* running after a second.                                                 *)
UncleanExit ==
    /\ pc = "exit"
    /\ ~CleanExit
    /\ ProtocolRejection
    /\ UNCHANGED <<schedVars, queue, now>>

-----------------------------------------------------------------------------
(* The child process: child_loop, and the reader thread that turns its     *)
(* stdout into `responses`.                                                *)

Running == child \in {"boot", "ready", "replying", "leaving"}

ExceptChild == <<pc, runtimeVars, expected, ledger, schedVars, queue, now>>

ChildHello ==
    /\ child = "boot"
    /\ child' = "ready"
    /\ responses' = Append(responses, Notice("HELLO"))
    /\ UNCHANGED <<ExceptChild, stdin, stdin_open, performed, reply>>

(* The child reads a request and, for WORK, performs the effect.  Its own  *)
(* checked_add is left out: CountersFit shows that `performed` stays a u64 *)
(* without it.                                                             *)
ChildPerform ==
    /\ child = "ready"
    /\ stdin # <<>>
    /\ LET request == Head(stdin)
           actions == IF request.op = "WORK" THEN performed + 1 ELSE performed
       IN  /\ performed' = actions
           /\ reply' = Ack(request, IF request.op = "WORK" THEN actions ELSE 0)
    /\ stdin' = Tail(stdin)
    /\ child' = "replying"
    /\ UNCHANGED <<ExceptChild, stdin_open, responses>>

(* The child writes its acknowledgement, and leaves after that of STOP.    *)
(* With the coordinator gone the write fails and child_loop returns Err.   *)
ChildReply ==
    /\ child = "replying"
    /\ \E lines \in {<<reply>>}
             \cup (IF "duplicate" \in Faults THEN {<<reply, reply>>} ELSE {})
             \cup (IF "garble" \in Faults THEN {<<Notice("GARBAGE")>>} ELSE {}) :
          IF pc = "crashed"
          THEN child' = "broken" /\ UNCHANGED responses
          ELSE /\ child' = IF reply.op = "STOP" THEN "leaving" ELSE "ready"
               /\ responses' = responses \o lines
    /\ UNCHANGED <<ExceptChild, stdin, stdin_open, performed, reply>>

\* child_loop returned Ok: the process exits with status 0.
ChildExit ==
    /\ child = "leaving"
    /\ child' = "exited"
    /\ responses' = Append(responses, Notice("EOF"))
    /\ UNCHANGED <<ExceptChild, stdin, stdin_open, performed, reply>>

\* A mutant of ChildEndOfInput: the child keeps polling its closed stdin.
ChildIgnoresEndOfInput ==
    /\ child = "ready"
    /\ stdin = <<>>
    /\ ~stdin_open
    /\ UNCHANGED vars

\* child_loop reads end of file before STOP and returns Err.
ChildEndOfInput ==
    /\ child = "ready"
    /\ stdin = <<>>
    /\ ~stdin_open
    /\ child' = "broken"
    /\ responses' = Append(responses, Notice("EOF"))
    /\ UNCHANGED <<ExceptChild, stdin, stdin_open, performed, reply>>

\* The child is killed or fails by itself.
ChildCrash ==
    /\ "child" \in Faults
    /\ Running
    /\ child' = "broken"
    /\ responses' = Append(responses, Notice("EOF"))
    /\ UNCHANGED <<ExceptChild, stdin, stdin_open, performed, reply>>

\* The child stops running; only a kill ends it.
ChildHang ==
    /\ "hang" \in Faults
    /\ Running
    /\ child' = "hung"
    /\ UNCHANGED <<ExceptChild, stdin, stdin_open, performed, reply,
                   responses>>

-----------------------------------------------------------------------------
(* The scheduler thread, the clock, and the death of the coordinator.      *)

\* A mutant of Send: the scheduler skips two events after the one it sends.
SendSkips ==
    /\ pc \notin Terminal \cup {"hello"}
    /\ sent < Len(Schedule)
    /\ now >= sent_at + Schedule[sent + 1].delay \/ now = MaxTime
    /\ \E event \in Schedule[sent + 1].events : queue' = Append(queue, event)
    /\ sent' = sent + 3
    /\ sent_at' = now
    /\ UNCHANGED <<pc, runtimeVars, expected, ledger, childVars, now>>

(* The scheduler sleeps at least the delay, then sends.  At the clock's    *)
(* bound the sleep counts as over.                                         *)
Send ==
    /\ pc \notin Terminal \cup {"hello"}
    /\ sent < Len(Schedule)
    /\ now >= sent_at + Schedule[sent + 1].delay \/ now = MaxTime
    /\ \E event \in Schedule[sent + 1].events : queue' = Append(queue, event)
    /\ sent' = sent + 1
    /\ sent_at' = now
    /\ UNCHANGED <<pc, runtimeVars, expected, ledger, childVars, now>>

Tick ==
    /\ pc \notin Terminal
    /\ now < MaxTime
    /\ now' = now + 1
    /\ UNCHANGED <<pc, runtimeVars, expected, ledger, childVars, schedVars,
                   queue>>

\* The coordinator is killed: its end of every pipe closes.
ParentCrash ==
    /\ "parent" \in Faults
    /\ pc \notin Terminal
    /\ pc' = "crashed"
    /\ stdin_open' = FALSE
    /\ UNCHANGED <<runtimeVars, expected, ledger, child, stdin, performed,
                   reply, responses, schedVars, queue, now>>

\* The end of a behaviour, so that TLC reports any other stop as a deadlock.
Ended ==
    /\ pc \in Terminal
    /\ ~Running
    /\ UNCHANGED vars

MainStep ==
    \/ AcceptHello \/ RejectHello
    \/ Begin \/ CommitAllowed \/ CommitBlocked \/ Reset
    \/ Silence \/ ProbeRefused \/ ProbeSent \/ Stop
    \/ WorkAccepted \/ RollbackAccepted \/ ProbeAccepted \/ StopAccepted
    \/ RejectAck \/ Finish \/ UncleanExit

ChildStep ==
    ChildHello \/ ChildPerform \/ ChildReply \/ ChildExit \/ ChildEndOfInput

Next ==
    \/ MainStep \/ ChildStep \/ ChildCrash \/ ChildHang
    \/ Send \/ Tick \/ ParentCrash \/ Ended

(* The main thread's receives all have timeouts, the scheduler sleeps for  *)
(* fixed times, the clock advances, and a child that is neither killed nor *)
(* stopped runs.                                                           *)
Fairness ==
    /\ WF_vars(MainStep)
    /\ WF_vars(ChildStep)
    /\ WF_vars(Send)
    /\ WF_vars(Tick)

Spec == Init /\ [][Next]_vars /\ Fairness

-----------------------------------------------------------------------------
(* Properties.                                                             *)

TypeOK ==
    /\ pc \in {"hello", "loop", "ack", "exit"} \cup Terminal
    /\ body \in BodyState
    /\ active_lease \in OptionalLease
    /\ txn \in AuthorityTransaction
    /\ metrics \in [MetricNames -> Nat]
    /\ action_counter \in Nat
    /\ transaction_nonce \in Nat
    /\ rollback_confirmed \in BOOLEAN
    /\ expected \in Messages
    /\ ledger \in Seq(Entries)
    /\ child \in {"boot", "ready", "replying", "leaving", "exited", "broken",
                  "hung", "reaped"}
    /\ stdin \in Seq(Requests)
    /\ stdin_open \in BOOLEAN
    /\ performed \in Nat
    /\ reply \in Messages
    /\ responses \in Seq(Messages)
    /\ queue \in Seq(Events)
    /\ sent \in 0 .. Len(Schedule)
    /\ sent_at \in Nat
    /\ now \in Nat

(* No effect without a commit, none twice: the child has performed exactly *)
(* the commits the coordinator counted, or one more, which is the WORK in  *)
(* flight or the one a failure of the run cut off from its acknowledgement *)
(* (commit, transact_bound and child_loop together).                       *)
EffectsAccounted ==
    /\ performed \in {metrics["allowed_commits"],
                      metrics["allowed_commits"] + 1}
    /\ performed # metrics["allowed_commits"] =>
          \/ pc = "ack" /\ expected.op = "WORK"
          \/ pc \in {"failed", "crashed"}

(* The audit trail of a COMMIT: an earlier BEGIN_ACTION recorded the same  *)
(* lease and body, and between the two the ledger shows no quarantine, no  *)
(* new lease and no other commit (begin, commit and quarantine).           *)
CommitsAudited ==
    \A i \in DOMAIN ledger : ledger[i].event = "COMMIT" =>
        \E b \in 1 .. (i - 1) :
            /\ ledger[b].event = "BEGIN_ACTION"
            /\ ledger[b].lease # NoLease
            /\ ledger[b].lease = ledger[i].lease
            /\ ledger[b].body = ledger[i].body
            /\ \A k \in (b + 1) .. (i - 1) :
                  ledger[k].event \in {"CHILD_ACK_ACCEPTED", "PROBE_REJECTED"}

(* The audit trail of a lease after the first: the child confirmed a       *)
(* rollback after the last quarantine and answered a probe, and the lease  *)
(* is of a later generation and certificate than every lease before it     *)
(* (quarantine and functional_freshness_probe).                            *)
LeasesAudited ==
    \A i \in DOMAIN ledger : ledger[i].event = "LEASE_INSTALLED" /\ i > 1 =>
        /\ ledger[i - 1].event = "PROBE_REQUEST"
        /\ \E r \in 1 .. (i - 1) :
              /\ ledger[r].event = "ROLLBACK_ACK_ACCEPTED"
              /\ \A k \in r .. i : ledger[k].event # "QUARANTINE"
        /\ \A j \in 1 .. (i - 1) : ledger[j].lease # NoLease =>
              /\ ledger[j].lease.generation < ledger[i].lease.generation
              /\ ledger[j].lease.certificate < ledger[i].lease.certificate

(* Between handlers coordinator and child agree: no request is left in the *)
(* pipe, nothing queued can pass for a future ACK, and a confirmed         *)
(* rollback is one the child really served last (transact_bound under      *)
(* duplicated, garbled and missing answers).                               *)
LoopSynchronized ==
    pc = "loop" =>
        /\ stdin = <<>>
        /\ \A i \in DOMAIN responses : responses[i].nonce <= transaction_nonce
        /\ rollback_confirmed =>
              /\ reply.op = "ROLLBACK"
              /\ reply.nonce = transaction_nonce
              /\ reply.id = metrics["rollbacks"]

(* Withdrawn authority leaves nothing behind: outside a failed run the     *)
(* body is quarantined exactly when no lease is active, a lease in force   *)
(* is the body's own, and a capture that differs from the active lease     *)
(* does not survive (quarantine, record_protocol_rejection, the probe).    *)
AuthorityCoherent ==
    pc \notin {"hello", "failed", "crashed"} =>
        /\ body.quarantined <=> active_lease = NoLease
        /\ active_lease # NoLease =>
              /\ authority_snapshot(body) = authority_snapshot(active_lease)
              /\ txn.pending => txn.captured_lease \in {active_lease, NoLease}

\* How many entries of an event the ledger holds.
Recorded(event) == Cardinality({i \in DOMAIN ledger : ledger[i].event = event})

(* A run that returns Ok is a clean one: the ledger is sealed and its      *)
(* COMMIT entries are the child's effects, every rollback was confirmed,   *)
(* and FINAL says ALLOW (run, stop_bound, wait_for_clean_exit).            *)
DoneIsClean ==
    pc = "done" =>
        /\ metrics["damage"] = 0
        /\ ledger[Len(ledger)].event = "LEDGER_SEAL"
        /\ ledger[Len(ledger) - 1].decision = "ALLOW"
        /\ child = "reaped"
        /\ Recorded("COMMIT") = performed
        /\ Recorded("QUARANTINE") = Recorded("ROLLBACK_ACK_ACCEPTED")

(* The child performs an effect only while the authority that was checked  *)
(* for it stands: the lease is active, the body is not quarantined, and    *)
(* the request carries the body's current authority.  Only the death of    *)
(* the coordinator lets a request already sent be performed unobserved.    *)
EffectUnderAuthority ==
    [][performed' # performed =>
          /\ Head(stdin).authority = authority_snapshot(body)
          /\ \/ pc = "crashed"
             \/ /\ active_lease # NoLease
                /\ ~body.quarantined
                /\ authority_snapshot(active_lease) = Head(stdin).authority
                /\ expected.op = "WORK" /\ expected.id = Head(stdin).id]_vars

(* An effect the ledger does not show as COMMIT is reported: when a run    *)
(* fails although its ledger could be written, either the COMMIT entries   *)
(* are exactly the child's effects, or the last entry says that an         *)
(* acknowledgement was rejected (commit and record_protocol_rejection, and *)
(* every early return of commit before the request is sent).               *)
UnconfirmedEffectReported ==
    pc = "failed" /\ "io" \notin Faults =>
        \/ Recorded("COMMIT") = performed
        \/ ledger[Len(ledger)].event = "PROTOCOL_ACK_REJECTED"

(* No counter wraps, on either side of the pipe: what is recorded, sent or *)
(* compared is always a u64 that the arithmetic really produced (the       *)
(* checked_add and saturating_add of Runtime, and child_loop's own         *)
(* checked_add, which the coordinator's check makes unreachable).          *)
CountersFit ==
    /\ \A n \in MetricNames : metrics[n] <= U64_MAX
    /\ {action_counter, transaction_nonce, performed, body.epoch,
        body.generation, body.certificate} \subseteq 0 .. U64_MAX
    /\ active_lease # NoLease => active_lease.valid_until <= U64_MAX

(* Every run ends, whatever the child does or fails to do: each receive of *)
(* the main thread times out (recv_timeout in run, transact_bound and      *)
(* expect_hello, the deadline in wait_for_clean_exit).                     *)
Termination == <>(pc \in Terminal)

(* No orphan: when the coordinator has ended, so does its child.  One that *)
(* returned has reaped it, hung or not (cleanup_error, Drop).  One that    *)
(* was killed reaps nothing: its child ends by itself, because child_loop  *)
(* treats end of input before STOP as an error, unless it hangs.  A hung   *)
(* child of a killed coordinator is the one that nothing in the code ends. *)
NoOrphan ==
    pc \in Terminal ~> \/ child \in {"exited", "broken", "reaped"}
                       \/ pc = "crashed" /\ child = "hung"

-----------------------------------------------------------------------------
(* What the documents and the demonstration say and the code does not do.  *)

(* ARCHITECTURE.md:39, "The same bound snapshot must remain valid at the   *)
(* commit boundary", with the revalidation drawn after the acknowledgement *)
(* (line 20): a COMMIT is recorded only while its lease is valid.          *)
CommitWithinLease ==
    [][\A i \in (Len(ledger) + 1) .. Len(ledger') :
          ledger'[i].event = "COMMIT" => now < ledger'[i].lease.valid_until]_vars

(* AERA_SPECIFICATION.md:43, "When commit cannot be authorized, the        *)
(* runtime records the rejection and follows a bounded rollback or         *)
(* quarantine path": a run does not complete with a blocked commit whose   *)
(* body was neither quarantined then nor later.                            *)
BlockedCommitQuarantines ==
    pc = "done" =>
        \A i \in DOMAIN ledger : ledger[i].event = "COMMIT_BLOCKED" =>
            \/ ledger[i].body.quarantined
            \/ \E j \in i .. Len(ledger) : ledger[j].event = "QUARANTINE"

(* src/bin/osia_core_demo.rs:18, the gate on a completed demonstration:    *)
(* "metrics.damage == 0 && metrics.blocked_commits >= 2".                  *)
DemoGate ==
    pc = "done" => metrics["damage"] = 0 /\ metrics["blocked_commits"] >= 2
====
