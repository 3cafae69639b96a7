---------------------------- MODULE BrokerProofs -----------------------------
(***************************************************************************)
(* Proofs about the one-shot broker, for any set of brokers.               *)
(*                                                                         *)
(* The argument is one of ownership.  A broker whose prepare committed is  *)
(* the owner of the attempt: its `after` leaves "prepare" and never comes  *)
(* back.  The primary key makes the owner unique, so from then on only the *)
(* owner moves the row, starts a guest or orders the effect, and the row   *)
(* says exactly how far the owner has come, alive or not.                  *)
(***************************************************************************)
EXTENDS Broker, SequenceTheorems, TLAPS

-----------------------------------------------------------------------------
(* The inductive invariant.                                                *)

(* Where a broker is determines which step its last _seal led to and what  *)
(* state its guest is in; a killed broker may leave its guest behind.      *)
StageInv ==
    \A b \in Brokers :
        /\ pc[b] \in {"start", "open", "create", "prepare", "refused"} =>
              after[b] = "prepare" /\ guest[b] = "off"
        /\ pc[b] \in {"seal", "replace"} =>
              guest[b] = IF after[b] = "execute" THEN "prepared" ELSE "off"
        /\ pc[b] = "bind" => after[b] = "bind" /\ guest[b] = "off"
        /\ pc[b] = "frame" => after[b] = "bind" /\ guest[b] = "ready"
        /\ pc[b] = "consume" => after[b] = "bind" /\ guest[b] = "prepared"
        /\ pc[b] = "execute" => after[b] = "execute" /\ guest[b] = "prepared"
        /\ pc[b] = "receipt" =>
              after[b] = "execute" /\ guest[b] \in {"ordered", "executed"}
        /\ pc[b] = "result" => after[b] = "execute" /\ guest[b] = "off"
        /\ pc[b] = "terminal" => after[b] = "terminal" /\ guest[b] = "off"
        /\ pc[b] \in {"verify", "done"} =>
              after[b] = "verify" /\ guest[b] = "off"
        /\ pc[b] = "raised" => guest[b] = "off"
        /\ guest[b] \in {"ordered", "executed"} => after[b] = "execute"

Owns(b) == after[b] # "prepare"

\* There is one owner at most, and the row is as it left it.
OwnerInv ==
    /\ \A a, b \in Brokers : Owns(a) /\ Owns(b) => a = b
    /\ \A b \in Brokers :
          /\ after[b] = "bind" => row = Row("PREPARED", 0)
          /\ after[b] = "execute" => row = Row("CONSUMED", 1)
          /\ after[b] = "terminal" => row = Row("RESULT", 1)
          /\ after[b] = "verify" => row = Row("TERMINAL", 1)

\* The events are those of the transactions that led to the row.
EventInv ==
    /\ Len(events) \in 0..4
    /\ \A i \in 1..Len(events) : events[i] = Chain[i]
    /\ Len(events) = 0 => row = Row("ABSENT", 0)
    /\ Len(events) = 1 => row = Row("PREPARED", 0)
    /\ Len(events) = 2 => row = Row("CONSUMED", 1)
    /\ Len(events) = 3 => row = Row("RESULT", 1)
    /\ Len(events) = 4 => row = Row("TERMINAL", 1)

\* The effect is counted once, after CONSUMED and before RESULT.
EffectInv ==
    /\ effects \in {0, 1}
    /\ row.state \in {"ABSENT", "PREPARED"} => effects = 0
    /\ row.state \in {"RESULT", "TERMINAL"} => effects = 1
    /\ \A b \in Brokers :
          /\ after[b] = "execute" /\ guest[b] \in {"prepared", "ordered"} =>
                effects = 0
          /\ guest[b] = "executed" \/ pc[b] = "result" => effects = 1

\* Advice is given when nothing but a guest can still move.
AdviceInv ==
    /\ advice # "NONE" => \A b \in Brokers : pc[b] \in Ended
    /\ advice \in {"NO_ACTION", "ABORT_WITHOUT_EFFECT"} =>
          row.state \in {"ABSENT", "PREPARED"}
    /\ advice \in {"EMIT_TERMINAL_ONLY", "COMPLETE_NO_REDISPATCH"} =>
          row.state \in {"RESULT", "TERMINAL"}

(* A digest that is no longer the ledger's is only held by a broker that   *)
(* does not have the attempt; and until the file is sealed nothing is      *)
(* prepared in it.                                                         *)
SealInv ==
    /\ version = 0 => seal = NoSeal
    /\ seal = NoSeal => /\ row.state = "ABSENT"
                        /\ \A b \in Brokers : pc[b] # "prepare"
    /\ \A b \in Brokers :
          /\ pc[b] \in {"seal", "replace"} => version > 0
          /\ pc[b] = "replace" /\ digest[b] # version =>
                ~Owns(b) /\ row.state # "ABSENT"
    /\ SealExplained

IInv == TypeOK /\ StageInv /\ OwnerInv /\ EventInv /\ EffectInv /\ AdviceInv
        /\ SealInv

-----------------------------------------------------------------------------
(* The steps of one broker, and what the transactions have in common.      *)

\* The disjuncts of a step.
LEMMA NextCases ==
    ASSUME [Next]_vars
    PROVE  \/ \E b \in Brokers :
                 \/ CheckPaths(b) \/ OpenLedger(b) \/ CreateTables(b)
                 \/ prepare(b) \/ consume(b) \/ record_result(b) \/ terminal(b)
                 \/ ReadDigest(b) \/ ReplaceSeal(b)
                 \/ StartGuest(b) \/ PrepareGuest(b) \/ SendExecute(b)
                 \/ AcceptReceipt(b) \/ verify(b) \/ Interrupt(b)
                 \/ GuestExecutes(b) \/ Kill(b)
           \/ Recover
           \/ UNCHANGED vars
BY DEF Next, BrokerStep, AllEnded

\* Init establishes the invariant.
LEMMA InitInv == Init => IInv
<1> SUFFICES ASSUME Init PROVE IInv
    OBVIOUS
<1>1. TypeOK
    <2>1. events \in Seq(EventKinds)
        BY DEF Init
    <2>2. row \in [state : States, dispatch_count : Nat]
        BY DEF Init, States
    <2>3. QED
        BY <2>1, <2>2 DEF Init, TypeOK, GuestStates
<1>2. StageInv
    BY DEF Init, StageInv
<1>3. OwnerInv
    BY DEF Init, OwnerInv, Owns
<1>4. EventInv
    BY DEF Init, EventInv, Row
<1>5. EffectInv
    BY DEF Init, EffectInv
<1>6. AdviceInv /\ SealInv
    BY DEF Init, AdviceInv, SealInv, SealExplained
<1>7. QED
    BY <1>1, <1>2, <1>3, <1>4, <1>5, <1>6 DEF IInv

\* A transaction that writes a well-typed row and event keeps the types.
LEMMA TransactionType ==
    ASSUME TypeOK, NEW b \in Brokers, NEW step, NEW from,
           NEW to \in [state : States, dispatch_count : Nat],
           NEW event \in EventKinds,
           NEW next \in {"prepare", "bind", "execute", "terminal", "verify"},
           Transaction(b, step, from, to, event, next)
    PROVE  TypeOK'
<1>1. CASE row = from
    <2>1. /\ row' = to /\ events' = Append(events, event)
          /\ version' = version + 1 /\ after' = [after EXCEPT ![b] = next]
          /\ pc' = [pc EXCEPT ![b] = "seal"]
          /\ UNCHANGED <<guest, digest, seal, socket, effects, advice>>
        BY <1>1 DEF Transaction, Goto
    <2>2. events' \in Seq(EventKinds)
        BY <2>1 DEF TypeOK
    <2>3. pc' \in [Brokers -> {"start", "open", "create", "seal", "replace",
                              "prepare", "bind", "frame", "consume",
                              "execute", "receipt", "result", "terminal",
                              "verify"} \cup Ended]
        BY <2>1 DEF TypeOK
    <2>4. row' \in [state : States, dispatch_count : Nat]
        BY <2>1
    <2>5. QED
        BY <2>1, <2>2, <2>3, <2>4 DEF TypeOK
<1>2. CASE row # from
    BY <1>2 DEF Transaction, TypeOK, Goto, Raise, Ended, GuestStates
<1>3. QED
    BY <1>1, <1>2

\* The rows the transactions write are rows.
LEMMA RowTypes ==
    /\ Row("PREPARED", 0) \in [state : States, dispatch_count : Nat]
    /\ Row("CONSUMED", 1) \in [state : States, dispatch_count : Nat]
    /\ Row("RESULT", 1) \in [state : States, dispatch_count : Nat]
    /\ Row("TERMINAL", 1) \in [state : States, dispatch_count : Nat]
BY DEF Row, States

\* Every step keeps the variables in their types.
LEMMA TypeStep ==
    ASSUME TypeOK, [Next]_vars
    PROVE  TypeOK'
<1>4. ASSUME NEW b \in Brokers, prepare(b) PROVE TypeOK'
    <2>1. Transaction(b, "prepare", Row("ABSENT", 0),
                           Row("PREPARED", 0), "PREPARED", "bind")
        BY <1>4 DEF prepare
    <2>2. QED
        BY <2>1, RowTypes, TransactionType DEF EventKinds
<1>5. ASSUME NEW b \in Brokers, consume(b) PROVE TypeOK'
    <2>1. Transaction(b, "consume", Row("PREPARED", 0),
                           Row("CONSUMED", 1), "CONSUMED_BEFORE_FIXTURE_NOOP",
                           "execute")
        BY <1>5 DEF consume
    <2>2. QED
        BY <2>1, RowTypes, TransactionType DEF EventKinds
<1>6. ASSUME NEW b \in Brokers, record_result(b) PROVE TypeOK'
    <2>1. Transaction(b, "result", Row("CONSUMED", 1),
                           Row("RESULT", 1), "FIXTURE_NOOP_RESULT",
                           "terminal")
        BY <1>6 DEF record_result
    <2>2. QED
        BY <2>1, RowTypes, TransactionType DEF EventKinds
<1>7. ASSUME NEW b \in Brokers, terminal(b) PROVE TypeOK'
    <2>1. Transaction(b, "terminal", Row("RESULT", 1),
                           Row("TERMINAL", 1), "TERMINAL", "verify")
        BY <1>7 DEF terminal
    <2>2. QED
        BY <2>1, RowTypes, TransactionType DEF EventKinds
<1> USE DEF TypeOK, vars, diskVars, Goto, Raise, Ended
<1>1. ASSUME NEW b \in Brokers, CheckPaths(b) PROVE TypeOK'
    BY <1>1 DEF CheckPaths
<1>2. ASSUME NEW b \in Brokers, OpenLedger(b) PROVE TypeOK'
    BY <1>2 DEF OpenLedger
<1>3. ASSUME NEW b \in Brokers, CreateTables(b) PROVE TypeOK'
    BY <1>3 DEF CreateTables
<1>8. ASSUME NEW b \in Brokers, ReadDigest(b) PROVE TypeOK'
    BY <1>8 DEF ReadDigest
<1>9. ASSUME NEW b \in Brokers, ReplaceSeal(b) PROVE TypeOK'
    BY <1>9 DEF ReplaceSeal
<1>10. ASSUME NEW b \in Brokers, StartGuest(b) PROVE TypeOK'
    BY <1>10 DEF StartGuest, GuestStates
<1>11. ASSUME NEW b \in Brokers, PrepareGuest(b) PROVE TypeOK'
    BY <1>11 DEF PrepareGuest, GuestStates
<1>12. ASSUME NEW b \in Brokers, SendExecute(b) PROVE TypeOK'
    BY <1>12 DEF SendExecute, GuestStates
<1>13. ASSUME NEW b \in Brokers, AcceptReceipt(b) PROVE TypeOK'
    BY <1>13 DEF AcceptReceipt, GuestStates
<1>14. ASSUME NEW b \in Brokers, verify(b) PROVE TypeOK'
    BY <1>14 DEF verify, GuestStates
<1>15. ASSUME NEW b \in Brokers, Interrupt(b) PROVE TypeOK'
    BY <1>15 DEF Interrupt, GuestStates
<1>16. ASSUME NEW b \in Brokers, GuestExecutes(b) PROVE TypeOK'
    BY <1>16 DEF GuestExecutes, GuestStates
<1>17. ASSUME NEW b \in Brokers, Kill(b) PROVE TypeOK'
    BY <1>17 DEF Kill
<1>18. CASE Recover
    BY <1>18 DEF Recover, recovery_action, States
<1>19. CASE UNCHANGED vars
    BY <1>19
<1>20. QED
    BY <1>1, <1>2, <1>3, <1>4, <1>5, <1>6, <1>7, <1>8, <1>9, <1>10, <1>11,
       <1>12, <1>13, <1>14, <1>15, <1>16, <1>17, <1>18, <1>19, NextCases

\* Every step of a broker leads from one stage to the next.
LEMMA StageStep ==
    ASSUME TypeOK, StageInv, [Next]_vars
    PROVE  StageInv'
<1> USE DEF StageInv, TypeOK, vars, diskVars, Goto, Raise, Ended
<1>1. ASSUME NEW b \in Brokers, CheckPaths(b) PROVE StageInv'
    BY <1>1 DEF CheckPaths
<1>2. ASSUME NEW b \in Brokers, OpenLedger(b) PROVE StageInv'
    BY <1>2 DEF OpenLedger
<1>3. ASSUME NEW b \in Brokers, CreateTables(b) PROVE StageInv'
    BY <1>3 DEF CreateTables
<1>4. ASSUME NEW b \in Brokers, prepare(b) PROVE StageInv'
    BY <1>4 DEF prepare, Transaction, Row
<1>5. ASSUME NEW b \in Brokers, consume(b) PROVE StageInv'
    BY <1>5 DEF consume, Transaction, Row
<1>6. ASSUME NEW b \in Brokers, record_result(b) PROVE StageInv'
    BY <1>6 DEF record_result, Transaction, Row
<1>7. ASSUME NEW b \in Brokers, terminal(b) PROVE StageInv'
    BY <1>7 DEF terminal, Transaction, Row
<1>8. ASSUME NEW b \in Brokers, ReadDigest(b) PROVE StageInv'
    BY <1>8 DEF ReadDigest
<1>9. ASSUME NEW b \in Brokers, ReplaceSeal(b) PROVE StageInv'
    BY <1>9 DEF ReplaceSeal
<1>10. ASSUME NEW b \in Brokers, StartGuest(b) PROVE StageInv'
    BY <1>10 DEF StartGuest
<1>11. ASSUME NEW b \in Brokers, PrepareGuest(b) PROVE StageInv'
    BY <1>11 DEF PrepareGuest
<1>12. ASSUME NEW b \in Brokers, SendExecute(b) PROVE StageInv'
    BY <1>12 DEF SendExecute
<1>13. ASSUME NEW b \in Brokers, AcceptReceipt(b) PROVE StageInv'
    BY <1>13 DEF AcceptReceipt
<1>14. ASSUME NEW b \in Brokers, verify(b) PROVE StageInv'
    BY <1>14 DEF verify
<1>15. ASSUME NEW b \in Brokers, Interrupt(b) PROVE StageInv'
    BY <1>15 DEF Interrupt
<1>16. ASSUME NEW b \in Brokers, GuestExecutes(b) PROVE StageInv'
    BY <1>16 DEF GuestExecutes
<1>17. ASSUME NEW b \in Brokers, Kill(b) PROVE StageInv'
    BY <1>17 DEF Kill
<1>18. CASE Recover
    BY <1>18 DEF Recover
<1>19. CASE UNCHANGED vars
    BY <1>19
<1>20. QED
    BY <1>1, <1>2, <1>3, <1>4, <1>5, <1>6, <1>7, <1>8, <1>9, <1>10, <1>11,
       <1>12, <1>13, <1>14, <1>15, <1>16, <1>17, <1>18, <1>19, NextCases

-----------------------------------------------------------------------------
(* The transactions.                                                       *)

\* A transaction whose row check succeeded.
Commits(b, step, from, to, event, next) ==
    /\ pc[b] = step /\ pc' = [pc EXCEPT ![b] = "seal"]
    /\ row = from /\ row' = to
    /\ events' = Append(events, event)
    /\ version' = version + 1
    /\ after' = [after EXCEPT ![b] = next]
    /\ UNCHANGED <<guest, digest, seal, socket, effects, advice>>

Prepares(b) ==
    Commits(b, "prepare", Row("ABSENT", 0), Row("PREPARED", 0),
            "PREPARED", "bind")
Consumes(b) ==
    Commits(b, "consume", Row("PREPARED", 0), Row("CONSUMED", 1),
            "CONSUMED_BEFORE_FIXTURE_NOOP", "execute")
RecordsResult(b) ==
    Commits(b, "result", Row("CONSUMED", 1), Row("RESULT", 1),
            "FIXTURE_NOOP_RESULT", "terminal")
Terminates(b) ==
    Commits(b, "terminal", Row("RESULT", 1), Row("TERMINAL", 1),
            "TERMINAL", "verify")

\* A transaction commits, or raises and leaves the ledger alone.
LEMMA TransactionCases ==
    ASSUME NEW b, NEW step, NEW from, NEW to, NEW event, NEW next,
           Transaction(b, step, from, to, event, next)
    PROVE  \/ Commits(b, step, from, to, event, next)
           \/ /\ pc[b] = step /\ row # from /\ Raise(b)
              /\ UNCHANGED <<after, digest, diskVars, effects, advice>>
BY DEF Transaction, Commits, Goto, diskVars

(* What a step does to the row, the events and the ownership: nothing, or  *)
(* one of the four commits.                                                *)
LEMMA RowCases ==
    ASSUME TypeOK, StageInv, [Next]_vars
    PROVE  \/ UNCHANGED <<row, events, after>>
           \/ \E b \in Brokers : \/ Prepares(b) \/ Consumes(b)
                                 \/ RecordsResult(b) \/ Terminates(b)
<1> USE DEF vars, diskVars
<1>1. ASSUME NEW b \in Brokers,
             prepare(b) \/ consume(b) \/ record_result(b) \/ terminal(b)
      PROVE  \/ UNCHANGED <<row, events, after>>
             \/ Prepares(b) \/ Consumes(b) \/ RecordsResult(b) \/ Terminates(b)
    BY <1>1, TransactionCases
       DEF prepare, consume, record_result, terminal, Prepares, Consumes,
           RecordsResult, Terminates
<1>2. ASSUME NEW b \in Brokers, CreateTables(b)
      PROVE  UNCHANGED <<row, events, after>>
    BY <1>2 DEF CreateTables, StageInv, TypeOK
<1>3. ASSUME NEW b \in Brokers,
             CheckPaths(b) \/ OpenLedger(b) \/ ReadDigest(b) \/ ReplaceSeal(b)
             \/ StartGuest(b) \/ PrepareGuest(b) \/ SendExecute(b)
             \/ AcceptReceipt(b) \/ verify(b) \/ Interrupt(b)
             \/ GuestExecutes(b) \/ Kill(b)
      PROVE  UNCHANGED <<row, events, after>>
    BY <1>3 DEF CheckPaths, OpenLedger, ReadDigest, ReplaceSeal, StartGuest,
                PrepareGuest, SendExecute, AcceptReceipt, verify, Interrupt,
                GuestExecutes, Kill
<1>4. CASE Recover
    BY <1>4 DEF Recover
<1>5. QED
    BY <1>1, <1>2, <1>3, <1>4, NextCases

(* prepare finds the row absent, so nobody owned the attempt; the others   *)
(* are steps of the owner.                                                 *)
LEMMA OwnerStep ==
    ASSUME TypeOK, StageInv, OwnerInv, [Next]_vars
    PROVE  OwnerInv'
<1> USE DEF OwnerInv, Owns, Row, TypeOK
<1>1. CASE UNCHANGED <<row, events, after>>
    BY <1>1
<1>2. ASSUME NEW b \in Brokers, Prepares(b)
      PROVE  OwnerInv'
    BY <1>2 DEF Prepares, Commits
<1>3. ASSUME NEW b \in Brokers,
             Consumes(b) \/ RecordsResult(b) \/ Terminates(b)
      PROVE  OwnerInv'
    <2>1. Owns(b)
        BY <1>3 DEF Consumes, RecordsResult, Terminates, Commits, StageInv
    <2>2. \A a \in Brokers :
             a # b => after[a] = "prepare" /\ after'[a] = "prepare"
        BY <1>3, <2>1 DEF Consumes, RecordsResult, Terminates, Commits
    <2>3. CASE Consumes(b)
        BY <2>2, <2>3 DEF Consumes, Commits
    <2>4. CASE RecordsResult(b)
        BY <2>2, <2>4 DEF RecordsResult, Commits
    <2>5. CASE Terminates(b)
        BY <2>2, <2>5 DEF Terminates, Commits
    <2>6. QED
        BY <1>3, <2>3, <2>4, <2>5
<1>4. QED
    BY <1>1, <1>2, <1>3, RowCases

\* Appending the next event of the chain extends a prefix of it.
LEMMA AppendNext ==
    ASSUME NEW S, NEW s \in Seq(S), NEW n \in Nat, Len(s) = n,
           NEW c, \A i \in 1..n : s[i] = c[i],
           NEW e \in S, e = c[n + 1]
    PROVE  /\ Len(Append(s, e)) = n + 1
           /\ \A i \in 1..(n + 1) : Append(s, e)[i] = c[i]
OBVIOUS

\* Each commit appends the event of its row.
LEMMA EventStep ==
    ASSUME TypeOK, StageInv, EventInv, [Next]_vars
    PROVE  EventInv'
<1>1. CASE UNCHANGED <<row, events, after>>
    BY <1>1 DEF EventInv, Chain
<1>2. ASSUME NEW b \in Brokers, Prepares(b)
      PROVE  EventInv'
    <2>1. Len(events) = 0
        BY <1>2 DEF Prepares, Commits, EventInv, Row
    <2>2. Len(events') = 1 /\ \A i \in 1..1 : events'[i] = Chain[i]
        <3>1. /\ events \in Seq(EventKinds)
              /\ \A i \in 1..0 : events[i] = Chain[i]
            BY <2>1 DEF EventInv, TypeOK
        <3>2. /\ "PREPARED" \in EventKinds
              /\ "PREPARED" = Chain[0 + 1]
            BY DEF EventKinds, Chain
        <3>3. events' = Append(events, "PREPARED")
            BY <1>2 DEF Prepares, Commits
        <3>4. QED
            BY <2>1, <3>1, <3>2, <3>3, AppendNext
    <2>3. row' = Row("PREPARED", 0)
        BY <1>2 DEF Prepares, Commits
    <2>4. QED
        BY <2>2, <2>3 DEF EventInv
<1>3. ASSUME NEW b \in Brokers, Consumes(b)
      PROVE  EventInv'
    <2>1. Len(events) = 1
        BY <1>3 DEF Consumes, Commits, EventInv, Row
    <2>2. Len(events') = 2 /\ \A i \in 1..2 : events'[i] = Chain[i]
        <3>1. /\ events \in Seq(EventKinds)
              /\ \A i \in 1..1 : events[i] = Chain[i]
            BY <2>1 DEF EventInv, TypeOK
        <3>2. /\ "CONSUMED_BEFORE_FIXTURE_NOOP" \in EventKinds
              /\ "CONSUMED_BEFORE_FIXTURE_NOOP" = Chain[1 + 1]
            BY DEF EventKinds, Chain
        <3>3. events' = Append(events, "CONSUMED_BEFORE_FIXTURE_NOOP")
            BY <1>3 DEF Consumes, Commits
        <3>4. QED
            BY <2>1, <3>1, <3>2, <3>3, AppendNext
    <2>3. row' = Row("CONSUMED", 1)
        BY <1>3 DEF Consumes, Commits
    <2>4. QED
        BY <2>2, <2>3 DEF EventInv
<1>4. ASSUME NEW b \in Brokers, RecordsResult(b)
      PROVE  EventInv'
    <2>1. Len(events) = 2
        BY <1>4 DEF RecordsResult, Commits, EventInv, Row
    <2>2. Len(events') = 3 /\ \A i \in 1..3 : events'[i] = Chain[i]
        <3>1. /\ events \in Seq(EventKinds)
              /\ \A i \in 1..2 : events[i] = Chain[i]
            BY <2>1 DEF EventInv, TypeOK
        <3>2. /\ "FIXTURE_NOOP_RESULT" \in EventKinds
              /\ "FIXTURE_NOOP_RESULT" = Chain[2 + 1]
            BY DEF EventKinds, Chain
        <3>3. events' = Append(events, "FIXTURE_NOOP_RESULT")
            BY <1>4 DEF RecordsResult, Commits
        <3>4. QED
            BY <2>1, <3>1, <3>2, <3>3, AppendNext
    <2>3. row' = Row("RESULT", 1)
        BY <1>4 DEF RecordsResult, Commits
    <2>4. QED
        BY <2>2, <2>3 DEF EventInv
<1>5. ASSUME NEW b \in Brokers, Terminates(b)
      PROVE  EventInv'
    <2>1. Len(events) = 3
        BY <1>5 DEF Terminates, Commits, EventInv, Row
    <2>2. Len(events') = 4 /\ \A i \in 1..4 : events'[i] = Chain[i]
        <3>1. /\ events \in Seq(EventKinds)
              /\ \A i \in 1..3 : events[i] = Chain[i]
            BY <2>1 DEF EventInv, TypeOK
        <3>2. /\ "TERMINAL" \in EventKinds
              /\ "TERMINAL" = Chain[3 + 1]
            BY DEF EventKinds, Chain
        <3>3. events' = Append(events, "TERMINAL")
            BY <1>5 DEF Terminates, Commits
        <3>4. QED
            BY <2>1, <3>1, <3>2, <3>3, AppendNext
    <2>3. row' = Row("TERMINAL", 1)
        BY <1>5 DEF Terminates, Commits
    <2>4. QED
        BY <2>2, <2>3 DEF EventInv
<1>6. QED
    BY <1>1, <1>2, <1>3, <1>4, <1>5, RowCases

(* Only the owner's guest can be ordered or have executed: the effect it   *)
(* performs is the first, and the receipt comes after it.                  *)
LEMMA EffectStep ==
    ASSUME TypeOK, StageInv, OwnerInv, EffectInv, [Next]_vars
    PROVE  EffectInv'
<1> USE DEF StageInv, OwnerInv, Owns, EffectInv, Row, TypeOK, vars, diskVars,
            Goto, Raise, Ended, States
<1>1. ASSUME NEW b \in Brokers, CheckPaths(b) PROVE EffectInv'
    BY <1>1 DEF CheckPaths
<1>2. ASSUME NEW b \in Brokers, OpenLedger(b) PROVE EffectInv'
    BY <1>2 DEF OpenLedger
<1>3. ASSUME NEW b \in Brokers, CreateTables(b) PROVE EffectInv'
    BY <1>3 DEF CreateTables
<1>4. ASSUME NEW b \in Brokers, prepare(b) PROVE EffectInv'
    BY <1>4 DEF prepare, Transaction
<1>5. ASSUME NEW b \in Brokers, consume(b) PROVE EffectInv'
    BY <1>5 DEF consume, Transaction
<1>6. ASSUME NEW b \in Brokers, record_result(b) PROVE EffectInv'
    BY <1>6 DEF record_result, Transaction
<1>7. ASSUME NEW b \in Brokers, terminal(b) PROVE EffectInv'
    BY <1>7 DEF terminal, Transaction
<1>8. ASSUME NEW b \in Brokers, ReadDigest(b) PROVE EffectInv'
    BY <1>8 DEF ReadDigest
<1>9. ASSUME NEW b \in Brokers, ReplaceSeal(b) PROVE EffectInv'
    BY <1>9 DEF ReplaceSeal
<1>10. ASSUME NEW b \in Brokers, StartGuest(b) PROVE EffectInv'
    BY <1>10 DEF StartGuest
<1>11. ASSUME NEW b \in Brokers, PrepareGuest(b) PROVE EffectInv'
    BY <1>11 DEF PrepareGuest
<1>12. ASSUME NEW b \in Brokers, SendExecute(b) PROVE EffectInv'
    BY <1>12 DEF SendExecute
<1>13. ASSUME NEW b \in Brokers, AcceptReceipt(b) PROVE EffectInv'
    BY <1>13 DEF AcceptReceipt
<1>14. ASSUME NEW b \in Brokers, verify(b) PROVE EffectInv'
    BY <1>14 DEF verify
<1>15. ASSUME NEW b \in Brokers, Interrupt(b) PROVE EffectInv'
    BY <1>15 DEF Interrupt
<1>16. ASSUME NEW b \in Brokers, GuestExecutes(b) PROVE EffectInv'
    <2>1. /\ after[b] = "execute" /\ row = Row("CONSUMED", 1)
          /\ effects = 0 /\ effects' = 1
        BY <1>16 DEF GuestExecutes
    <2>2. row'.state = "CONSUMED"
        BY <1>16, <2>1 DEF GuestExecutes
    <2>3. \A a \in Brokers : after'[a] = "execute" => a = b
        BY <1>16, <2>1 DEF GuestExecutes
    <2>4. guest'[b] = "executed"
        BY <1>16 DEF GuestExecutes
    <2>5. QED
        BY <2>1, <2>2, <2>3, <2>4
<1>17. ASSUME NEW b \in Brokers, Kill(b) PROVE EffectInv'
    BY <1>17 DEF Kill
<1>18. CASE Recover
    BY <1>18 DEF Recover
<1>19. CASE UNCHANGED vars
    BY <1>19
<1>20. QED
    BY <1>1, <1>2, <1>3, <1>4, <1>5, <1>6, <1>7, <1>8, <1>9, <1>10, <1>11,
       <1>12, <1>13, <1>14, <1>15, <1>16, <1>17, <1>18, <1>19, NextCases

(* A broker that can still step has not ended, so no advice was given yet; *)
(* after the advice only a guest moves, which leaves the row alone.        *)
LEMMA AdviceStep ==
    ASSUME TypeOK, AdviceInv, [Next]_vars
    PROVE  AdviceInv'
<1> USE DEF diskVars
<1>1. ASSUME NEW b \in Brokers, BrokerStep(b) \/ Kill(b)
      PROVE  pc[b] \notin Ended /\ UNCHANGED advice
    BY <1>1 DEF BrokerStep, CheckPaths, OpenLedger, CreateTables, prepare,
                consume, record_result, terminal, Transaction, ReadDigest,
                ReplaceSeal, StartGuest, PrepareGuest, SendExecute,
                AcceptReceipt, verify, Interrupt, Kill, Ended
<1>2. ASSUME NEW b \in Brokers, pc[b] \notin Ended, UNCHANGED advice
      PROVE  AdviceInv'
    BY <1>2 DEF AdviceInv
<1>3. ASSUME NEW b \in Brokers, GuestExecutes(b)
      PROVE  AdviceInv'
    BY <1>3 DEF GuestExecutes, AdviceInv
<1>4. CASE Recover
    BY <1>4 DEF Recover, AdviceInv, recovery_action, TypeOK, States
<1>5. CASE UNCHANGED vars
    BY <1>5 DEF AdviceInv, vars
<1>6. QED
    BY <1>1, <1>2, <1>3, <1>4, <1>5 DEF Next, AllEnded

\* Broker b came too late for the attempt and has set the seal back.
TooLate(b) ==
    /\ after[b] = "prepare" /\ row.state # "ABSENT" /\ seal = digest[b]
    /\ pc[b] \in {"prepare", "raised", "killed"}

(* A commit leaves its own broker about to seal, and finds the seal either *)
(* current or set back by a broker that is still too late.                 *)
LEMMA CommitSeal ==
    ASSUME TypeOK, StageInv, OwnerInv, SealInv, NEW b \in Brokers, NEW next,
           Owns(b), pc[b] \in {"consume", "result", "terminal"},
           pc' = [pc EXCEPT ![b] = "seal"], next # "prepare",
           after' = [after EXCEPT ![b] = next], version' = version + 1,
           UNCHANGED <<digest, seal>>, row'.state # "ABSENT"
    PROVE  SealInv'
<1>1. row.state # "ABSENT" /\ seal \in Nat /\ version \in Nat \ {0}
    <2>1. after[b] \in {"bind", "execute", "terminal", "verify"}
        BY DEF TypeOK, Owns
    <2>2. row.state # "ABSENT"
        BY <2>1 DEF OwnerInv, Row
    <2>3. seal # NoSeal /\ version # 0
        BY <2>2 DEF SealInv
    <2>4. QED
        BY <2>2, <2>3 DEF TypeOK
<1>2. seal = version \/ \E c \in Brokers : TooLate(c)
    <2> SUFFICES ASSUME seal # version PROVE \E c \in Brokers : TooLate(c)
        OBVIOUS
    <2>1. PICK c \in Brokers :
             \/ seal = NoSeal /\ version = 1
             \/ /\ Owns(c) /\ pc[c] \in {"seal", "replace", "raised", "killed"}
             \/ TooLate(c)
        BY <1>1 DEF SealInv, SealExplained, TooLate, Owns
    <2>2. QED
        BY <1>1, <2>1, SealAssumption DEF OwnerInv
<1>3. pc'[b] = "seal" /\ after'[b] # "prepare"
    BY DEF TypeOK
<1>4. \A c \in Brokers \ {b} : pc'[c] = pc[c] /\ after'[c] = after[c]
    BY DEF TypeOK
<1>5. SealExplained'
    <2>1. CASE seal = version
        BY <2>1, <1>1, <1>3 DEF SealExplained
    <2>2. ASSUME NEW c \in Brokers, TooLate(c) PROVE SealExplained'
        <3>1. c # b
            BY <2>2 DEF TooLate, Owns
        <3>2. QED
            BY <2>2, <3>1, <1>4 DEF TooLate, SealExplained
    <2>3. QED
        BY <1>2, <2>1, <2>2
<1>6. \A c \in Brokers :
          /\ pc'[c] \in {"seal", "replace"} => version' > 0
          /\ pc'[c] = "replace" /\ digest'[c] # version' =>
                ~Owns(c)' /\ row'.state # "ABSENT"
    <2> SUFFICES ASSUME NEW c \in Brokers, pc'[c] = "replace"
                 PROVE  ~Owns(c)' /\ row'.state # "ABSENT"
        BY <1>1
    <2>1. c # b
        BY <1>3
    <2>2. QED
        BY <2>1, <1>4 DEF Owns, OwnerInv
<1>7. QED
    BY <1>1, <1>5, <1>6, SealAssumption DEF SealInv

(* ReplaceSeal publishes the ledger's digest, or makes its broker the one  *)
(* that is too late.                                                       *)
LEMMA SealStep ==
    ASSUME TypeOK, StageInv, OwnerInv, SealInv, [Next]_vars
    PROVE  SealInv'
<1> USE SealAssumption
    DEF StageInv, OwnerInv, Owns, SealInv, SealExplained, Row, TypeOK, vars,
        diskVars, Goto, Raise, Ended, States
<1>1. ASSUME NEW b \in Brokers, CreateTables(b) PROVE SealInv'
    <2>1. CASE version = 0
        BY <1>1, <2>1 DEF CreateTables
    <2>2. CASE version # 0
        BY <1>1, <2>2 DEF CreateTables
    <2>3. QED
        BY <2>1, <2>2
<1>2. ASSUME NEW b \in Brokers, prepare(b) PROVE SealInv'
    BY <1>2 DEF prepare, Transaction
<1>3. ASSUME NEW b \in Brokers, consume(b) PROVE SealInv'
    <2>1. CASE pc'[b] = "seal"
        <3>1. /\ pc[b] \in {"consume", "result", "terminal"} /\ Owns(b)
              /\ pc' = [pc EXCEPT ![b] = "seal"]
              /\ after' = [after EXCEPT ![b] = "execute"]
              /\ version' = version + 1 /\ UNCHANGED <<digest, seal>>
              /\ row'.state = "CONSUMED"
            BY <1>3, <2>1 DEF consume, Transaction
        <3>2. QED
            BY <3>1, CommitSeal
    <2>2. CASE pc'[b] # "seal"
        BY <1>3, <2>2 DEF consume, Transaction
    <2>3. QED
        BY <2>1, <2>2
<1>4. ASSUME NEW b \in Brokers, record_result(b) PROVE SealInv'
    <2>1. CASE pc'[b] = "seal"
        <3>1. /\ pc[b] \in {"consume", "result", "terminal"} /\ Owns(b)
              /\ pc' = [pc EXCEPT ![b] = "seal"]
              /\ after' = [after EXCEPT ![b] = "terminal"]
              /\ version' = version + 1 /\ UNCHANGED <<digest, seal>>
              /\ row'.state = "RESULT"
            BY <1>4, <2>1 DEF record_result, Transaction
        <3>2. QED
            BY <3>1, CommitSeal
    <2>2. CASE pc'[b] # "seal"
        BY <1>4, <2>2 DEF record_result, Transaction
    <2>3. QED
        BY <2>1, <2>2
<1>5. ASSUME NEW b \in Brokers, terminal(b) PROVE SealInv'
    <2>1. CASE pc'[b] = "seal"
        <3>1. /\ pc[b] \in {"consume", "result", "terminal"} /\ Owns(b)
              /\ pc' = [pc EXCEPT ![b] = "seal"]
              /\ after' = [after EXCEPT ![b] = "verify"]
              /\ version' = version + 1 /\ UNCHANGED <<digest, seal>>
              /\ row'.state = "TERMINAL"
            BY <1>5, <2>1 DEF terminal, Transaction
        <3>2. QED
            BY <3>1, CommitSeal
    <2>2. CASE pc'[b] # "seal"
        BY <1>5, <2>2 DEF terminal, Transaction
    <2>3. QED
        BY <2>1, <2>2
<1>6. ASSUME NEW b \in Brokers, ReadDigest(b) PROVE SealInv'
    BY <1>6 DEF ReadDigest
<1>7. ASSUME NEW b \in Brokers, ReplaceSeal(b) PROVE SealInv'
    BY <1>7 DEF ReplaceSeal
<1>8. ASSUME NEW b \in Brokers, OpenLedger(b) PROVE SealInv'
    BY <1>8 DEF OpenLedger
<1>9. ASSUME NEW b \in Brokers,
             CheckPaths(b) \/ StartGuest(b) \/ PrepareGuest(b)
             \/ SendExecute(b) \/ AcceptReceipt(b) \/ verify(b)
      PROVE  SealInv'
    BY <1>9 DEF CheckPaths, StartGuest, PrepareGuest, SendExecute,
                AcceptReceipt, verify
<1>10. ASSUME NEW b \in Brokers, Interrupt(b) \/ Kill(b) PROVE SealInv'
    BY <1>10 DEF Interrupt, Kill
<1>11. ASSUME NEW b \in Brokers, GuestExecutes(b) PROVE SealInv'
    BY <1>11 DEF GuestExecutes
<1>12. CASE Recover \/ UNCHANGED vars
    BY <1>12 DEF Recover
<1>13. QED
    BY <1>1, <1>2, <1>3, <1>4, <1>5, <1>6, <1>7, <1>8, <1>9, <1>10, <1>11,
       <1>12, NextCases

-----------------------------------------------------------------------------
(* The events as a prefix of the chain.                                    *)

\* The chain is a sequence of four events.
LEMMA ChainType == Chain \in Seq(EventKinds) /\ Len(Chain) = 4
BY DEF Chain, EventKinds

\* All of the chain.
LEMMA ChainWhole == SubSeq(Chain, 1, 4) = Chain
BY ChainType, SubSeqFull

\* A sequence that agrees with the chain as far as it goes is a prefix of it.
LEMMA ChainPrefix ==
    ASSUME NEW s \in Seq(EventKinds), Len(s) \in 0..4,
           \A i \in 1..Len(s) : s[i] = Chain[i]
    PROVE  s = SubSeq(Chain, 1, Len(s))
<1>1. \A i \in 1..Len(s) : s[i] = SubSeq(Chain, 1, Len(s))[i]
    BY ChainType
<1>2. Len(SubSeq(Chain, 1, Len(s))) = Len(s)
    BY ChainType
<1>3. SubSeq(Chain, 1, Len(s)) \in Seq(EventKinds)
    BY ChainType
<1>4. QED
    BY <1>1, <1>2, <1>3, SeqEqual

-----------------------------------------------------------------------------
(* The theorems.                                                           *)

\* The invariant holds of every behaviour of the brokers.
THEOREM Invariance == Spec => []IInv
<1>1. IInv /\ [Next]_vars => IInv'
    BY TypeStep, StageStep, OwnerStep, EventStep, EffectStep, AdviceStep,
       SealStep DEF IInv
<1>2. QED
    BY <1>1, InitInv, PTL DEF Spec

\* The variables keep their types, for any set of brokers.
THEOREM TypeCorrect == Spec => []TypeOK
<1>1. IInv => TypeOK
    BY DEF IInv
<1>2. QED
    BY <1>1, Invariance, PTL

(* However many brokers are started on one ledger and whichever of them    *)
(* die, at most one effect is performed or can still be (Ledger.consume    *)
(* before the EXECUTE frame of run_qemu).                                  *)
THEOREM EffectAtMostOnce == Spec => []AtMostOneEffect
<1>1. IInv => AtMostOneEffect
    <2> SUFFICES ASSUME IInv PROVE AtMostOneEffect
        OBVIOUS
    <2>1. \A b \in Orders : b \in Brokers /\ after[b] = "execute" /\ effects = 0
        BY DEF IInv, StageInv, EffectInv, Orders
    <2>2. \A a, b \in Orders : a = b
        BY <2>1 DEF IInv, OwnerInv, Owns
    <2>3. effects + (IF Orders = {} THEN 0 ELSE 1) <= 1
        BY <2>1 DEF IInv, EffectInv
    <2>4. QED
        BY <2>2, <2>3 DEF AtMostOneEffect
<1>2. QED
    BY <1>1, Invariance, PTL

(* An effect performed or ordered is already in the durable row and its    *)
(* event chain (Ledger.consume commits before EXECUTE is written).         *)
THEOREM DurablyConsumedFirst == Spec => []ConsumedBeforeEffect
<1>1. IInv => ConsumedBeforeEffect
    <2> SUFFICES ASSUME IInv, effects > 0 \/ Orders # {}
                 PROVE  /\ row.state \in {"CONSUMED", "RESULT", "TERMINAL"}
                        /\ row.dispatch_count = 1
                        /\ Len(events) >= 2
                        /\ events = SubSeq(Chain, 1, Len(events))
        BY DEF ConsumedBeforeEffect
    <2>1. row.state \in {"CONSUMED", "RESULT", "TERMINAL"}
        BY DEF IInv, TypeOK, States, StageInv, OwnerInv, EffectInv, Orders, Row
    <2>2. Len(events) \in 2..4 /\ row.dispatch_count = 1
        BY <2>1 DEF IInv, EventInv, Row
    <2>3. events = SubSeq(Chain, 1, Len(events))
        BY ChainPrefix DEF IInv, TypeOK, EventInv
    <2>4. QED
        BY <2>1, <2>2, <2>3
<1>2. QED
    BY <1>1, Invariance, PTL

(* What Ledger.recovery_action advises stays right, whatever a guest that  *)
(* outlived its broker still does.                                         *)
THEOREM RecoveryIsSound == Spec => []AdviceSound
<1>1. IInv => AdviceSound
    <2> SUFFICES ASSUME IInv PROVE AdviceSound
        OBVIOUS
    <2>1. row.state # "CONSUMED" => Orders = {}
        BY DEF IInv, StageInv, OwnerInv, Orders, Row
    <2>2. QED
        BY <2>1 DEF AdviceSound, IInv, AdviceInv, EffectInv
<1>2. QED
    BY <1>1, Invariance, PTL

(* A broker whose run_qemu returns has performed the effect and left a     *)
(* terminal row with the complete chain.                                   *)
THEOREM DoneMeansTerminal == Spec => []DoneIsTerminal
<1>1. IInv => DoneIsTerminal
    <2> SUFFICES ASSUME IInv, NEW b \in Brokers, pc[b] = "done"
                 PROVE  /\ row = Row("TERMINAL", 1)
                        /\ events = Chain /\ effects = 1
        BY DEF DoneIsTerminal
    <2>1. row = Row("TERMINAL", 1)
        BY DEF IInv, StageInv, OwnerInv
    <2>2. effects = 1
        BY <2>1 DEF IInv, EffectInv, Row
    <2>3. Len(events) = 4
        BY <2>1 DEF IInv, EventInv, Row
    <2>4. QED
        BY <2>1, <2>2, <2>3, ChainPrefix, ChainWhole DEF IInv, TypeOK, EventInv
<1>2. QED
    BY <1>1, Invariance, PTL

(* A seal that does not match is that of a new file, or one transaction    *)
(* behind a broker about to seal or cut short before it, or the earlier    *)
(* digest of a broker that came too late (Ledger._seal, whose reading and  *)
(* replacing others may come between, and which a kill may prevent).       *)
THEOREM SealIsExplained == Spec => []SealExplained
<1>1. IInv => SealExplained
    BY DEF IInv, SealInv
<1>2. QED
    BY <1>1, Invariance, PTL

(* Every change of the row appends the next event of the chain and nothing *)
(* else (the four transactions of Ledger).                                 *)
THEOREM LedgerMovesForward == Spec => LedgerForward
<1>1. IInv /\ IInv' /\ [Next]_vars =>
        [row' # row => /\ Len(events') = Len(events) + 1
                       /\ events' = SubSeq(Chain, 1, Len(events'))]_vars
    <2> SUFFICES ASSUME IInv, IInv', [Next]_vars, row' # row
                 PROVE  /\ Len(events') = Len(events) + 1
                        /\ events' = SubSeq(Chain, 1, Len(events'))
        OBVIOUS
    <2>1. PICK b \in Brokers : \/ Prepares(b) \/ Consumes(b)
                              \/ RecordsResult(b) \/ Terminates(b)
        BY RowCases DEF IInv
    <2>2. \E e \in EventKinds : events' = Append(events, e)
        BY <2>1 DEF Prepares, Consumes, RecordsResult, Terminates, Commits,
                    EventKinds
    <2>3. Len(events') = Len(events) + 1
        BY <2>2 DEF IInv, TypeOK
    <2>4. events' = SubSeq(Chain, 1, Len(events'))
        BY ChainPrefix DEF IInv, TypeOK, EventInv
    <2>5. QED
        BY <2>3, <2>4
<1>2. QED
    BY <1>1, Invariance, PTL DEF LedgerForward, Spec

\* How the four states of the row look to OneShot.
LEMMA Attempts ==
    /\ Attempt("ABSENT") = "open" /\ Attempt("PREPARED") = "open"
    /\ Attempt("CONSUMED") = "consumed"
    /\ Attempt("RESULT") = "recorded" /\ Attempt("TERMINAL") = "recorded"
BY Zenon DEF Attempt

(* The brokers together implement the one-shot attempt: consume, the guest's *)
(* effect and record_result are its three steps, everything else stutters. *)
THEOREM ImplementsOneShot == Spec => OneAttempt
<1>1. Init => Shot!Init
    BY Attempts DEF Init, Shot!Init
<1>2. IInv /\ [Next]_vars => [Shot!Next]_<<Attempt(row.state), effects>>
    <2> SUFFICES ASSUME IInv, [Next]_vars
                 PROVE  Shot!Next \/ UNCHANGED <<Attempt(row.state), effects>>
        OBVIOUS
    <2>1. ASSUME NEW b \in Brokers, GuestExecutes(b)
          PROVE  Shot!Perform
        <3>1. row.state = "CONSUMED" /\ effects = 0
            BY <2>1 DEF GuestExecutes, IInv, StageInv, OwnerInv, EffectInv, Row
        <3>2. UNCHANGED row /\ effects' = 1
            BY <2>1, <3>1 DEF GuestExecutes, diskVars
        <3>3. QED
            BY <3>1, <3>2, Attempts DEF Shot!Perform
    <2>2. ASSUME NEW b \in Brokers, Prepares(b)
          PROVE  UNCHANGED <<Attempt(row.state), effects>>
        BY <2>2, Attempts DEF Prepares, Commits, Row
    <2>3. ASSUME NEW b \in Brokers, Consumes(b)
          PROVE  Shot!Consume
        BY <2>3, Attempts DEF Consumes, Commits, Row, Shot!Consume
    <2>4. ASSUME NEW b \in Brokers, RecordsResult(b)
          PROVE  Shot!Record
        <3>1. effects = 1
            BY <2>4 DEF RecordsResult, Commits, IInv, EffectInv
        <3>2. QED
            BY <2>4, <3>1, Attempts DEF RecordsResult, Commits, Row, Shot!Record
    <2>5. ASSUME NEW b \in Brokers, Terminates(b)
          PROVE  UNCHANGED <<Attempt(row.state), effects>>
        BY <2>5, Attempts DEF Terminates, Commits, Row
    <2>6. (\E b \in Brokers : GuestExecutes(b)) \/ UNCHANGED effects
        <3>1. ASSUME NEW b \in Brokers,
                     prepare(b) \/ consume(b) \/ record_result(b) \/ terminal(b)
              PROVE  UNCHANGED effects
            BY <3>1 DEF prepare, consume, record_result, terminal, Transaction
        <3>2. ASSUME NEW b \in Brokers,
                     CheckPaths(b) \/ OpenLedger(b) \/ CreateTables(b)
                     \/ ReadDigest(b) \/ ReplaceSeal(b) \/ StartGuest(b)
                     \/ PrepareGuest(b) \/ SendExecute(b) \/ AcceptReceipt(b)
                     \/ verify(b) \/ Interrupt(b) \/ Kill(b)
              PROVE  UNCHANGED effects
            BY <3>2 DEF CheckPaths, OpenLedger, CreateTables, ReadDigest,
                        ReplaceSeal, StartGuest, PrepareGuest, SendExecute,
                        AcceptReceipt, verify, Interrupt, Kill
        <3>3. QED
            BY <3>1, <3>2, NextCases DEF Recover, vars
    <2>7. CASE UNCHANGED <<row, events, after>>
        BY <2>1, <2>6, <2>7 DEF Shot!Next
    <2>8. QED
        BY <2>2, <2>3, <2>4, <2>5, <2>7, RowCases DEF IInv, Shot!Next
<1>3. QED
    BY <1>1, <1>2, Invariance, PTL DEF Spec, OneAttempt, Shot!Spec
=============================================================================
