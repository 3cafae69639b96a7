------------------------------- MODULE Broker --------------------------------
(***************************************************************************)
(* The one-shot broker of experiments/common/oasi_broker.py: run_qemu      *)
(* drives a guest through PREPARE and EXECUTE and keeps a SQLite ledger    *)
(* whose bytes are sealed by a digest in a second file.                    *)
(*                                                                         *)
(* Several brokers may be started on the same ledger, socket and log       *)
(* paths, and each may raise or be killed between any two steps.  A SQLite *)
(* transaction is atomic and durable at COMMIT; the seal is written after  *)
(* it in two more steps, so a broker can die, or another broker act, in    *)
(* between.  The digest of the ledger's bytes is the number of times they  *)
(* have changed, `version`.                                                *)
(***************************************************************************)
EXTENDS Naturals, Sequences, Recovery

CONSTANTS
    Brokers,    \* processes that execute run_qemu
    NoSeal      \* the seal file does not exist

ASSUME SealAssumption == NoSeal \notin Nat

VARIABLES
    pc,         \* next step of each broker
    after,      \* the step that follows a broker's _seal
    digest,     \* the digest a broker has read and not yet published
    guest,      \* state of a broker's QEMU guest
    row,        \* [state, dispatch_count] of the attempts row
    events,     \* the hash-chained events table
    version,    \* digest of the ledger file: 0 while it does not exist
    seal,       \* digest in the seal file
    socket,     \* the socket path exists
    effects,    \* fixture effects the guests have performed
    advice      \* what recovery read from the ledger

diskVars == <<row, events, version, seal, socket>>
vars == <<pc, after, digest, guest, diskVars, effects, advice>>

States == {"ABSENT", "PREPARED", "CONSUMED", "RESULT", "TERMINAL"}
Ended == {"done", "refused", "raised", "killed"}
EventKinds == {"PREPARED", "CONSUMED_BEFORE_FIXTURE_NOOP",
               "FIXTURE_NOOP_RESULT", "TERMINAL"}
GuestStates == {"off", "ready", "prepared", "ordered", "executed"}

Init ==
    /\ pc = [b \in Brokers |-> "start"]
    /\ after = [b \in Brokers |-> "prepare"]
    /\ digest = [b \in Brokers |-> 0]
    /\ guest = [b \in Brokers |-> "off"]
    /\ row = [state |-> "ABSENT", dispatch_count |-> 0]
    /\ events = <<>>
    /\ version = 0
    /\ seal = NoSeal
    /\ socket = FALSE
    /\ effects = 0
    /\ advice = "NONE"

Goto(b, step) == pc' = [pc EXCEPT ![b] = step]

\* An exception: `finally` closes the channel and terminates the guest.
Raise(b) ==
    /\ Goto(b, "raised")
    /\ guest' = [guest EXCEPT ![b] = "off"]

-----------------------------------------------------------------------------
(* Start-up: run_qemu's refusal of existing paths, then Ledger.__init__,   *)
(* which looks again whether the file exists.                              *)

CheckPaths(b) ==
    /\ pc[b] = "start"
    /\ Goto(b, IF version > 0 \/ socket THEN "refused" ELSE "open")
    /\ UNCHANGED <<after, digest, guest, diskVars, effects, advice>>

OpenLedger(b) ==
    /\ pc[b] = "open"
    /\ Goto(b, CASE version = 0                   -> "create"
                 [] version > 0 /\ seal = version -> "prepare"
                 [] OTHER                         -> "refused")
    /\ UNCHANGED <<after, digest, guest, diskVars, effects, advice>>

(* connect and CREATE TABLE IF NOT EXISTS, then _seal as the file was new. *)
(* A file cut short inside this step has no seal and is refused like one   *)
(* cut short after it.                                                     *)
CreateTables(b) ==
    /\ pc[b] = "create"
    /\ version' = IF version = 0 THEN 1 ELSE version
    /\ after' = [after EXCEPT ![b] = "prepare"]
    /\ Goto(b, "seal")
    /\ UNCHANGED <<digest, guest, row, events, seal, socket, effects, advice>>

-----------------------------------------------------------------------------
(* The ledger's transactions.                                              *)

(* BEGIN IMMEDIATE ... COMMIT: the row is checked and updated and an event *)
(* appended, or ProtocolError is raised and everything rolled back.  _seal *)
(* follows, then the step `next`.                                          *)
Transaction(b, step, from, to, event, next) ==
    /\ pc[b] = step
    /\ IF row = from
       THEN /\ row' = to
            /\ events' = Append(events, event)
            /\ version' = version + 1
            /\ after' = [after EXCEPT ![b] = next]
            /\ Goto(b, "seal")
            /\ UNCHANGED guest
       ELSE /\ Raise(b)
            /\ UNCHANGED <<row, events, version, after>>
    /\ UNCHANGED <<digest, seal, socket, effects, advice>>

Row(state, count) == [state |-> state, dispatch_count |-> count]

\* A mutant of prepare: INSERT OR REPLACE.
prepare_replacing(b) ==
    /\ pc[b] = "prepare"
    /\ row' = Row("PREPARED", 0)
    /\ events' = Append(events, "PREPARED")
    /\ version' = version + 1
    /\ after' = [after EXCEPT ![b] = "bind"]
    /\ Goto(b, "seal")
    /\ UNCHANGED <<guest, digest, seal, socket, effects, advice>>

\* prepare: the primary key makes a second INSERT fail.
prepare(b) ==
    Transaction(b, "prepare", Row("ABSENT", 0), Row("PREPARED", 0),
                "PREPARED", "bind")

consume(b) ==
    Transaction(b, "consume", Row("PREPARED", 0), Row("CONSUMED", 1),
                "CONSUMED_BEFORE_FIXTURE_NOOP", "execute")

record_result(b) ==
    Transaction(b, "result", Row("CONSUMED", 1), Row("RESULT", 1),
                "FIXTURE_NOOP_RESULT", "terminal")

\* A mutant of terminal: the ledger is not sealed again.
terminal_unsealed(b) ==
    /\ pc[b] = "terminal"
    /\ row = Row("RESULT", 1)
    /\ row' = Row("TERMINAL", 1)
    /\ events' = Append(events, "TERMINAL")
    /\ version' = version + 1
    /\ Goto(b, "verify")
    /\ UNCHANGED <<after, guest, digest, seal, socket, effects, advice>>

terminal(b) ==
    Transaction(b, "terminal", Row("RESULT", 1), Row("TERMINAL", 1),
                "TERMINAL", "verify")

\* _seal: the ledger's bytes are read and hashed ...
ReadDigest(b) ==
    /\ pc[b] = "seal"
    /\ digest' = [digest EXCEPT ![b] = version]
    /\ Goto(b, "replace")
    /\ UNCHANGED <<after, guest, diskVars, effects, advice>>

\* ... and the seal file is replaced.
ReplaceSeal(b) ==
    /\ pc[b] = "replace"
    /\ seal' = digest[b]
    /\ Goto(b, after[b])
    /\ UNCHANGED <<after, digest, guest, row, events, version, socket,
                   effects, advice>>

-----------------------------------------------------------------------------
(* The dialogue with the guest.                                            *)

(* bind, listen, start QEMU and wait until it is ready.  bind fails if the *)
(* path exists; nothing ever removes it.                                   *)
StartGuest(b) ==
    /\ pc[b] = "bind"
    /\ IF socket
       THEN Raise(b) /\ UNCHANGED socket
       ELSE /\ socket' = TRUE
            /\ guest' = [guest EXCEPT ![b] = "ready"]
            /\ Goto(b, "frame")
    /\ UNCHANGED <<after, digest, row, events, version, seal, effects, advice>>

\* A mutant of PrepareGuest: EXECUTE is sent before the attempt is consumed.
PrepareGuestUnconsumed(b) ==
    /\ pc[b] = "frame"
    /\ guest' = [guest EXCEPT ![b] = "prepared"]
    /\ Goto(b, "execute")
    /\ UNCHANGED <<after, digest, diskVars, effects, advice>>

\* The PREPARE frame and its signed receipt.
PrepareGuest(b) ==
    /\ pc[b] = "frame"
    /\ guest' = [guest EXCEPT ![b] = "prepared"]
    /\ Goto(b, "consume")
    /\ UNCHANGED <<after, digest, diskVars, effects, advice>>

\* The EXECUTE frame is written to the channel.
SendExecute(b) ==
    /\ pc[b] = "execute"
    /\ guest' = [guest EXCEPT ![b] = "ordered"]
    /\ Goto(b, "receipt")
    /\ UNCHANGED <<after, digest, diskVars, effects, advice>>

(* The guest performs the effect.  It may outlive a broker that is killed, *)
(* which runs no `finally`.                                                *)
GuestExecutes(b) ==
    /\ guest[b] = "ordered"
    /\ guest' = [guest EXCEPT ![b] = "executed"]
    /\ effects' = effects + 1
    /\ UNCHANGED <<pc, after, digest, diskVars, advice>>

\* A mutant of AcceptReceipt: the receipt's status is not compared.
AcceptAnyReceipt(b) ==
    /\ pc[b] = "receipt"
    /\ guest' = [guest EXCEPT ![b] = "off"]
    /\ Goto(b, "result")
    /\ UNCHANGED <<after, digest, diskVars, effects, advice>>

\* The effect receipt and the terminal markers; then QEMU is terminated.
AcceptReceipt(b) ==
    /\ pc[b] = "receipt"
    /\ guest[b] = "executed"
    /\ guest' = [guest EXCEPT ![b] = "off"]
    /\ Goto(b, "result")
    /\ UNCHANGED <<after, digest, diskVars, effects, advice>>

Chain == <<"PREPARED", "CONSUMED_BEFORE_FIXTURE_NOOP", "FIXTURE_NOOP_RESULT",
           "TERMINAL">>

(* verify: the rows form the hash chain they were appended as, so only the *)
(* count can fail.                                                         *)
verify(b) ==
    /\ pc[b] = "verify"
    /\ IF row.dispatch_count <= 1
       THEN Goto(b, "done") /\ UNCHANGED guest
       ELSE Raise(b)
    /\ UNCHANGED <<after, digest, diskVars, effects, advice>>

-----------------------------------------------------------------------------
(* Failure and recovery.                                                   *)

\* A mutant of Interrupt: a missing receipt makes the broker send again.
InterruptRetries(b) ==
    /\ pc[b] = "receipt"
    /\ Goto(b, "execute")
    /\ UNCHANGED <<after, digest, guest, diskVars, effects, advice>>

(* A timeout, a bad frame or receipt, a guest that exits, or an I/O error. *)
(* An error in _seal comes after COMMIT: the ROLLBACK of the handler finds *)
(* no transaction and raises in its turn, so the row stays as committed.   *)
Interrupt(b) ==
    /\ pc[b] \notin Ended
    /\ Raise(b)
    /\ UNCHANGED <<after, digest, diskVars, effects, advice>>

Kill(b) ==
    /\ pc[b] \notin Ended
    /\ Goto(b, "killed")
    /\ UNCHANGED <<after, digest, guest, diskVars, effects, advice>>

(* A later process opens the ledger of a broker that did not finish, when  *)
(* no broker is left, and asks for the recovery action.                    *)
Recover ==
    /\ \A b \in Brokers : pc[b] \in Ended
    /\ version > 0
    /\ advice = "NONE"
    /\ advice' = IF seal = version THEN recovery_action(row.state)
                                   ELSE "SEAL_MISMATCH"
    /\ UNCHANGED <<pc, after, digest, guest, diskVars, effects>>

\* Nothing is left to do; a guest that was killed may never execute.
AllEnded ==
    /\ \A b \in Brokers : pc[b] \in Ended
    /\ UNCHANGED vars

BrokerStep(b) ==
    \/ CheckPaths(b) \/ OpenLedger(b) \/ CreateTables(b)
    \/ prepare(b) \/ consume(b) \/ record_result(b) \/ terminal(b)
    \/ ReadDigest(b) \/ ReplaceSeal(b)
    \/ StartGuest(b) \/ PrepareGuest(b) \/ SendExecute(b) \/ AcceptReceipt(b)
    \/ verify(b) \/ Interrupt(b)

Next ==
    \/ \E b \in Brokers : BrokerStep(b) \/ GuestExecutes(b) \/ Kill(b)
    \/ Recover
    \/ AllEnded

Spec == Init /\ [][Next]_vars

-----------------------------------------------------------------------------
(* Properties.                                                             *)

TypeOK ==
    /\ pc \in [Brokers -> {"start", "open", "create", "seal", "replace",
                           "prepare", "bind", "frame", "consume", "execute",
                           "receipt", "result", "terminal", "verify"}
                          \cup Ended]
    /\ after \in [Brokers -> {"prepare", "bind", "execute", "terminal",
                              "verify"}]
    /\ digest \in [Brokers -> Nat]
    /\ guest \in [Brokers -> GuestStates]
    /\ row \in [state : States, dispatch_count : Nat]
    /\ events \in Seq(EventKinds)
    /\ version \in Nat
    /\ seal \in Nat \cup {NoSeal}
    /\ socket \in BOOLEAN
    /\ effects \in Nat
    /\ advice \in {"NONE", "SEAL_MISMATCH", "NO_ACTION",
                   "ABORT_WITHOUT_EFFECT", "BLOCK_NO_REDISPATCH",
                   "EMIT_TERMINAL_ONLY", "COMPLETE_NO_REDISPATCH"}

(* One shot: however many brokers are started on the ledger, and whichever *)
(* die, at most one effect is performed or can still be (consume before    *)
(* EXECUTE, the primary key and the row check in one transaction).         *)
Orders == {b \in Brokers : guest[b] = "ordered"}
AtMostOneEffect ==
    /\ effects + (IF Orders = {} THEN 0 ELSE 1) <= 1
    /\ \A a, b \in Orders : a = b

(* Consumed before dispatch: an effect performed or ordered is already in  *)
(* the durable row and its event chain, whatever happens next.             *)
ConsumedBeforeEffect ==
    effects > 0 \/ Orders # {} =>
        /\ row.state \in {"CONSUMED", "RESULT", "TERMINAL"}
        /\ row.dispatch_count = 1
        /\ Len(events) >= 2 /\ events = SubSeq(Chain, 1, Len(events))

(* What recovery advises is right for good: after NO_ACTION or             *)
(* ABORT_WITHOUT_EFFECT no effect has been or will be performed, and after *)
(* EMIT_TERMINAL_ONLY or COMPLETE_NO_REDISPATCH exactly one was.           *)
AdviceSound ==
    /\ advice \in {"NO_ACTION", "ABORT_WITHOUT_EFFECT"} =>
          effects = 0 /\ Orders = {}
    /\ advice \in {"EMIT_TERMINAL_ONLY", "COMPLETE_NO_REDISPATCH"} =>
          effects = 1 /\ Orders = {}

(* A broker that returns its result has performed the effect and left a    *)
(* terminal row with the complete event chain.                             *)
DoneIsTerminal ==
    (\E b \in Brokers : pc[b] = "done") =>
        /\ row = Row("TERMINAL", 1)
        /\ events = Chain
        /\ effects = 1

(* The durable state only moves forward, one event per move (the four      *)
(* transactions of Ledger).                                                *)
LedgerForward ==
    [][row' # row => /\ Len(events') = Len(events) + 1
                     /\ events' = SubSeq(Chain, 1, Len(events'))]_vars

(* A seal that does not match the ledger has one of three causes, however  *)
(* the brokers race and die.  The ledger is new and not yet sealed; it is  *)
(* one transaction ahead of its seal, whose broker is about to write it or *)
(* was cut short before it did (_seal after COMMIT); or a broker whose     *)
(* INSERT is bound to fail, because the row is there, has published a      *)
(* digest it read earlier.  The broker that has the attempt never seals    *)
(* anything but the ledger it committed.                                   *)
SealExplained ==
    version > 0 /\ seal # version =>
        \E b \in Brokers :
            \/ /\ seal = NoSeal /\ version = 1
               /\ pc[b] \in {"seal", "replace", "raised", "killed"}
            \/ /\ after[b] # "prepare" /\ seal = version - 1
               /\ pc[b] \in {"seal", "replace", "raised", "killed"}
            \/ /\ after[b] = "prepare" /\ row.state # "ABSENT"
               /\ seal = digest[b]
               /\ pc[b] \in {"prepare", "raised", "killed"}

(* The brokers together carry out one attempt: what the ledger's row and   *)
(* the guests do is a behaviour of OneShot, in particular RESULT is        *)
(* committed only after the effect and no effect follows it.               *)
Shot == INSTANCE OneShot WITH attempt <- Attempt(row.state)
OneAttempt == Shot!Spec
=============================================================================
