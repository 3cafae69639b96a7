------------------------------ MODULE Authority ------------------------------
(***************************************************************************)
(* The authority model of src/model.rs: the body, the safety lease bound   *)
(* to it, the eleven-decision commit oracle, and the single-use            *)
(* transaction that spans BEGIN and COMMIT.  Everything here is a pure     *)
(* operator; Runtime.tla supplies the state.                               *)
(*                                                                         *)
(* Rust's Option<SafetyLease> is a lease record or the model value NoLease *)
(***************************************************************************)
EXTENDS Naturals

CONSTANTS
    NoLease,        \* Option::None
    U64_MAX         \* largest u64: scaled down to reach the overflow paths

Decisions == {"ALLOW", "BLOCK_QUARANTINE", "BLOCK_BODY_UID", "BLOCK_EPOCH",
              "BLOCK_GENERATION", "BLOCK_CERTIFICATE", "BLOCK_EXPIRED",
              "BLOCK_PRINCIPAL", "BLOCK_RESOURCE", "BLOCK_ACTION",
              "BLOCK_NO_LEASE"}

BodyState == [body_uid : Nat, epoch : Nat, generation : Nat,
              certificate : Nat, quarantined : BOOLEAN]

SafetyLease == [body_uid : Nat, epoch : Nat, generation : Nat,
                certificate : Nat, valid_until : Nat, principal_id : Nat,
                resource_id : Nat, action_id : Nat]

OptionalLease == SafetyLease \cup {NoLease}

CommitRequest == [now : Nat, principal_id : Nat, resource_id : Nat,
                  action_id : Nat]

AuthorityTransaction == [pending : BOOLEAN, captured_lease : OptionalLease]

ASSUME NoLeaseAssumption == NoLease \notin SafetyLease
ASSUME U64Assumption == U64_MAX \in Nat \ {0}

-----------------------------------------------------------------------------
(* Checked u64 arithmetic.  Every checked_add in the runtime either yields *)
(* the sum or makes the caller return Err.                                 *)

\* A mutant of CanIncrement: off by one at the limit.
CanIncrementAtLimit(counters) == \A c \in counters : c <= U64_MAX

CanIncrement(counters) == \A c \in counters : c < U64_MAX

\* u64::saturating_add(1)
SaturatingIncrement(c) == IF c < U64_MAX THEN c + 1 ELSE U64_MAX

-----------------------------------------------------------------------------
(* The commit oracle.  The order of the tests is the order of the code:    *)
(* it decides which of several mismatches is reported.                     *)

validate_commit(body, lease, request) ==
    IF lease = NoLease                                 THEN "BLOCK_NO_LEASE"
    ELSE IF body.quarantined                           THEN "BLOCK_QUARANTINE"
    ELSE IF body.body_uid # lease.body_uid             THEN "BLOCK_BODY_UID"
    ELSE IF body.epoch # lease.epoch                   THEN "BLOCK_EPOCH"
    ELSE IF body.generation # lease.generation         THEN "BLOCK_GENERATION"
    ELSE IF body.certificate # lease.certificate       THEN "BLOCK_CERTIFICATE"
    ELSE IF request.now >= lease.valid_until           THEN "BLOCK_EXPIRED"
    ELSE IF request.principal_id # lease.principal_id  THEN "BLOCK_PRINCIPAL"
    ELSE IF request.resource_id # lease.resource_id    THEN "BLOCK_RESOURCE"
    ELSE IF request.action_id # lease.action_id        THEN "BLOCK_ACTION"
    ELSE "ALLOW"

lease_replacement_decision(captured, current) ==
    IF captured.body_uid # current.body_uid                THEN "BLOCK_BODY_UID"
    ELSE IF captured.epoch # current.epoch                 THEN "BLOCK_EPOCH"
    ELSE IF captured.generation # current.generation       THEN "BLOCK_GENERATION"
    ELSE IF captured.certificate # current.certificate     THEN "BLOCK_CERTIFICATE"
    ELSE IF captured.valid_until # current.valid_until     THEN "BLOCK_EXPIRED"
    ELSE IF captured.principal_id # current.principal_id   THEN "BLOCK_PRINCIPAL"
    ELSE IF captured.resource_id # current.resource_id     THEN "BLOCK_RESOURCE"
    ELSE IF captured.action_id # current.action_id         THEN "BLOCK_ACTION"
    ELSE "ALLOW"

-----------------------------------------------------------------------------
(* AuthorityTransaction: BEGIN captures, COMMIT consumes, abort clears.    *)

NewTransaction == [pending |-> FALSE, captured_lease |-> NoLease]

BegunTransaction(active) == [pending |-> TRUE, captured_lease |-> active]

(* A mutant of CommitDecision: the current lease is validated, not the one *)
(* captured at BEGIN.                                                      *)
CommitDecisionOfCurrent(txn, body, current, request) ==
    IF ~txn.pending
    THEN "BLOCK_NO_LEASE"
    ELSE validate_commit(body, current, request)

(* The decision of AuthorityTransaction::commit.  Whatever it returns, the *)
(* transaction is NewTransaction afterwards: pending and the capture are   *)
(* cleared before anything is compared.                                    *)
CommitDecision(txn, body, current, request) ==
    IF ~txn.pending \/ current = NoLease
    THEN "BLOCK_NO_LEASE"
    ELSE LET captured == validate_commit(body, txn.captured_lease, request)
         IN  IF captured # "ALLOW"
             THEN captured
             ELSE lease_replacement_decision(txn.captured_lease, current)
=============================================================================
