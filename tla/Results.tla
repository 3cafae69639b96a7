------------------------------- MODULE Results -------------------------------
(***************************************************************************)
(* From a finished campaign to an accepted result: the experiment's own    *)
(* verify_results.py, the manifest that seals the directory,               *)
(* tools/verify_experiments.py, and compare_experiment_categories.py       *)
(* against a second campaign.  Files may be damaged between any two of     *)
(* these, and a damaged set of rows may also come with a summary that was  *)
(* made from it, as a faulty experiment.py would leave.                    *)
(***************************************************************************)
EXTENDS Campaign

VARIABLES
    damaged,    \* the output that was damaged, or "NONE"
    accepted,   \* outputs that verify_experiments passes
    comparison  \* outputs compared, and whether they agree, or <<>>

resultVars == <<damaged, accepted, comparison>>

CheckResult(o) == <<o, "INDEPENDENT_VERIFY_RESULT.json">>
Manifest(o) == <<o, "RESULT_MANIFEST.sha256">>

Keys(rows) == {Key(rows[i]) : i \in DOMAIN rows}
Safe(row) == ~(\/ row.double_effect \/ row.replay_accepted
               \/ row.cross_generation_accepted
               \/ row.altered_signature_accepted)

\* main of verify_results.py, with the cell counts its aggregate demands.
verify_results(o) ==
    Exists(files, Raw(o)) /\ Exists(files, Summary(o)) /\
    LET rows == files[Raw(o)]
        computed == aggregate(rows)
        summary == files[Summary(o)]
    IN  /\ Len(rows) = TOTAL
        /\ Cardinality(Keys(rows)) = TOTAL
        /\ \A i \in DOMAIN rows : rows[i].mechanism = "OASI" => Safe(rows[i])
        /\ summary.raw_sha256 = rows
        /\ \A cell \in DOMAIN computed.cells :
              computed.cells[cell].runs = REPETITIONS
        /\ \A f \in DOMAIN computed : summary[f] = computed[f]

-----------------------------------------------------------------------------
(* tools/verify_experiments.py.                                            *)

\* The files of an output that a manifest has to cover.
Sealed(o) == {p \in DOMAIN files : p[1] = o /\ p # Dir(o) /\ p # Manifest(o)}

verify_manifest(o) ==
    /\ Exists(files, Manifest(o))
    /\ files[Manifest(o)] = Restrict(files, Sealed(o))

\* The fields in which all rows of a cell must agree.
Categorical(row) ==
    <<row.effect_count, row.double_effect, row.delivered_exactly_once,
      IF experiment = "s6" THEN row.delivery_lost ELSE FALSE,
      row.replay_accepted, row.cross_generation_accepted,
      row.altered_signature_accepted, row.disposition>>

\* A mutant of verify_campaign: the rows of a cell are not compared.
verify_campaign_totals(o) ==
    LET rows == files[Raw(o)]
        summary == files[Summary(o)]
    IN  /\ verify_manifest(o)
        /\ Len(rows) = TOTAL
        /\ summary.raw_sha256 = rows

verify_campaign(o) ==
    LET rows == files[Raw(o)]
        summary == files[Summary(o)]
        InCell(m, c) == {i \in DOMAIN rows : rows[i].mechanism = m
                                             /\ rows[i].case = c}
        computed == aggregate(rows)
    IN  /\ verify_manifest(o)
        /\ Len(rows) = TOTAL
        /\ Cardinality(Keys(rows)) = Len(rows)
        /\ Cardinality({<<rows[i].mechanism, rows[i].case>> :
                           i \in DOMAIN rows}) = Len(MECHANISMS) * Len(CASES)
        /\ \A i \in DOMAIN rows : rows[i].deterministic_terminal
        /\ \A i \in DOMAIN rows :
              LET cell == InCell(rows[i].mechanism, rows[i].case)
              IN  /\ {rows[j].repetition : j \in cell} = 1..REPETITIONS
                  /\ Cardinality({Categorical(rows[j]) : j \in cell}) = 1
        /\ summary.raw_sha256 = rows
        /\ files[CheckResult(o)] = [status |-> "PASS", runs |-> TOTAL]
        /\ summary.measured_runs = TOTAL
        /\ summary.cells = computed.cells

totals(rows, mechanism) ==
    LET In(r) == r.mechanism = mechanism
        Effects(i) == IF In(rows[i]) THEN rows[i].effect_count ELSE 0
    IN  <<S5!Count(rows, In),
          FoldLeft(+, 0, [i \in DOMAIN rows |-> Effects(i)]),
          S5!Count(rows, LAMBDA r : In(r) /\ r.double_effect),
          S5!Count(rows, LAMBDA r : In(r) /\ r.delivered_exactly_once),
          S5!Count(rows, LAMBDA r :
              In(r) /\ experiment = "s6" /\ r.delivery_lost),
          S5!Count(rows, LAMBDA r : In(r) /\ r.replay_accepted)>>

\* rows, effects, doubles, exact, lost and replay, for one repetition.
expected_s5 ==
    ("B0_DIRECT"         :> <<8, 11, 3, 5, 0, 1>>) @@
    ("B1_AUTH_STATELESS" :> <<8,  9, 3, 3, 0, 1>>) @@
    ("B2_AT_LEAST_ONCE"  :> <<8,  7, 1, 5, 0, 0>>) @@
    ("B3_IDEMPOTENT"     :> <<8,  6, 0, 6, 0, 0>>) @@
    ("OASI"              :> <<8,  4, 0, 4, 0, 0>>)

expected_s6 ==
    ("B0_DIRECT"                 :> <<10, 14, 4, 6, 0, 1>>) @@
    ("B1_AUTH_STATELESS"         :> <<10, 12, 4, 4, 0, 1>>) @@
    ("B2_AT_LEAST_ONCE"          :> <<10, 10, 2, 6, 0, 0>>) @@
    ("B3_IDEMPOTENT_UNAVAILABLE" :> <<10, 10, 2, 6, 0, 0>>) @@
    ("OASI"                      :> <<10,  5, 0, 5, 3, 0>>)

TotalsExpected(rows) ==
    LET expected == IF experiment = "s5" THEN expected_s5 ELSE expected_s6
    IN  \A m \in DOMAIN expected :
            totals(rows, m) = [i \in 1..6 |-> REPETITIONS * expected[m][i]]

\* The categorical records of two mechanisms, by case and repetition.
indexed(rows, mechanism) ==
    {<<rows[i].case, rows[i].repetition, Categorical(rows[i])>> :
         i \in {j \in DOMAIN rows : rows[j].mechanism = mechanism}}

Equivalent(rows) ==
    experiment = "s6" =>
        indexed(rows, "B2_AT_LEAST_ONCE")
            = indexed(rows, "B3_IDEMPOTENT_UNAVAILABLE")

verify_experiments(o) ==
    /\ Exists(files, Raw(o)) /\ Exists(files, Summary(o))
    /\ Exists(files, CheckResult(o))
    /\ verify_campaign(o)
    /\ TotalsExpected(files[Raw(o)])
    /\ Equivalent(files[Raw(o)])

-----------------------------------------------------------------------------
(* compare_experiment_categories.py: load and compare.                     *)

\* A mutant of load: the fields of a row are not read.
load_keys(rows) == Keys(rows)

load(rows) == {<<Key(rows[i]), Categorical(rows[i]),
                 rows[i].deterministic_terminal>> : i \in DOMAIN rows}

NoDuplicates(rows) == Cardinality(Keys(rows)) = Len(rows)

compare(sealed, rerun) ==
    /\ NoDuplicates(sealed) /\ NoDuplicates(rerun)
    /\ load(sealed) = load(rerun)

-----------------------------------------------------------------------------
(* The actions of the people who check.                                    *)

AllEnded == \A r \in Runs : pc[r] \in Ended
Finished(o) == AllEnded /\ Exists(files, Summary(o))

(* A campaign that has been repeated is compared; one that has not is      *)
(* verified and sealed.  The two do not touch each other's files, so       *)
(* nothing is lost by keeping them apart.                                  *)
Alone(o) == \A p \in Outputs \ {o} : ~Exists(files, Summary(p))

VerifyResults(o) ==
    /\ Finished(o) /\ Alone(o) /\ ~Exists(files, CheckResult(o))
    /\ verify_results(o)
    /\ files' = Put(files, CheckResult(o), [status |-> "PASS", runs |-> TOTAL])
    /\ UNCHANGED <<experiment, pc, locals, resultVars>>

SealDirectory(o) ==
    /\ Exists(files, CheckResult(o)) /\ ~Exists(files, Manifest(o))
    /\ files' = Put(files, Manifest(o), Restrict(files, Sealed(o)))
    /\ UNCHANGED <<experiment, pc, locals, resultVars>>

VerifyExperiments(o) ==
    /\ Finished(o) /\ o \notin accepted
    /\ verify_experiments(o)
    /\ accepted' = accepted \cup {o}
    /\ UNCHANGED <<vars, damaged, comparison>>

Compare(sealed, rerun) ==
    /\ sealed # rerun /\ Finished(sealed) /\ Finished(rerun)
    /\ Exists(files, Raw(sealed)) /\ Exists(files, Raw(rerun))
    /\ comparison = <<>>
    /\ comparison' = <<sealed, rerun,
                       compare(files[Raw(sealed)], files[Raw(rerun)])>>
    /\ UNCHANGED <<vars, damaged, accepted>>

-----------------------------------------------------------------------------
(* Damage to the rows of a finished campaign.                              *)

Drop(rows, i) == SubSeq(rows, 1, i - 1) \o SubSeq(rows, i + 1, Len(rows))

\* A row in which one thing is wrong.
Wrong(row) ==
    {[row EXCEPT !.double_effect = ~@],
     [row EXCEPT !.effect_count = 2, !.double_effect = TRUE],
     [row EXCEPT !.replay_accepted = ~@],
     [row EXCEPT !.disposition = "OTHER"],
     [row EXCEPT !.repetition = REPETITIONS + 1]} \ {row}

DamagedRows(rows, i) ==
    {Drop(rows, i), Append(rows, rows[i])}
        \cup {[rows EXCEPT ![i] = row] : row \in Wrong(rows[i])}

\* Bound: the rows that damage strikes; repetitions are alike.
Sampled(row) ==
    row.repetition = 1 /\ row.mechanism \in {"B0_DIRECT", "B3_IDEMPOTENT", "OASI"}

Resealed(o, rows) ==
    [measured_runs |-> Len(rows), raw_sha256 |-> rows] @@ aggregate(rows)

\* The moments at which damage is looked at: nothing was abandoned before.
Calm == \A r \in Runs : pc[r] \in {"done", "refused"}

Damage(o) ==
    /\ Finished(o) /\ Calm /\ Exists(files, Raw(o)) /\ damaged = "NONE"
    /\ damaged' = o
    /\ \E i \in {j \in DOMAIN files[Raw(o)] : Sampled(files[Raw(o)][j])} :
          \E rows \in DamagedRows(files[Raw(o)], i) :
             \/ files' = Put(files, Raw(o), rows)
             \/ files' = Put(Put(files, Raw(o), rows), Summary(o),
                             Resealed(o, rows))
    /\ UNCHANGED <<experiment, pc, locals, accepted, comparison>>

-----------------------------------------------------------------------------

ResultsInit ==
    /\ Init
    /\ damaged = "NONE" /\ accepted = {} /\ comparison = <<>>

ResultsNext ==
    \/ \E r \in Runs : CampaignStep(r) /\ UNCHANGED resultVars
    \/ \E o \in Outputs : \/ VerifyResults(o) \/ SealDirectory(o)
                          \/ VerifyExperiments(o) \/ Damage(o)
    \/ \E a, b \in Outputs : Compare(a, b)
    \/ AllEnded /\ UNCHANGED <<vars, resultVars>>

ResultsSpec == ResultsInit /\ [][ResultsNext]_<<vars, resultVars>>

-----------------------------------------------------------------------------
(* Properties.                                                             *)

\* The rows of an undisturbed campaign of each experiment.
Measured ==
    [s5 |-> {S5!run_one(m, c, k) : m \in Range(S5!MECHANISMS),
                c \in Range(S5!CASES), k \in 1..REPETITIONS},
     s6 |-> {S6!run_one(m, c, k) : m \in Range(S6!MECHANISMS),
                c \in Range(S6!CASES), k \in 1..REPETITIONS}]
Genuine(rows) == Len(rows) = TOTAL /\ Range(rows) = Measured[experiment]

(* RAW_RUNS.jsonl, once it exists, is the whole campaign: no run that was  *)
(* stopped, in the middle of a row or elsewhere, publishes rows, and what  *)
(* is published has one row per cell and repetition (os.replace after the  *)
(* loop).                                                                  *)
Appears(path) == ~Exists(files, path) /\ Exists(files', path)
RawIsComplete ==
    [][\A o \in Outputs : Appears(Raw(o)) =>
          Genuine(files[Raw(o)])']_<<vars, resultVars>>

(* A checkpoint never runs ahead of the durable rows: every case it calls  *)
(* completed is entirely in the partial or the published file (atomic_json *)
(* after the fsync of each row).                                           *)
DurableRows(o) ==
    IF Exists(files, Raw(o)) THEN Keys(files[Raw(o)])
    ELSE IF Exists(files, Partial(o)) THEN files[Partial(o)].rows ELSE {}
CheckpointSound ==
    \A o \in Outputs : Exists(files, Checkpoint(o)) /\ damaged # o =>
        LET point == files[Checkpoint(o)]
        IN  /\ point.measured_runs <= Cardinality(DurableRows(o))
            /\ {key \in Grid : \E i \in 1..point.completed_cases :
                                  CASES[i] = key[2]}
                  \subseteq DurableRows(o)

(* A finished campaign bears out what the project publishes: the totals    *)
(* and the B2/B3-U equivalence that verify_experiments expects, S5's       *)
(* negative conclusion and S6's bounded one.                               *)
PublishedResultsHold ==
    [][\A o \in Outputs : Appears(Summary(o)) =>
          (/\ verify_results(o)
           /\ TotalsExpected(files[Raw(o)]) /\ Equivalent(files[Raw(o)])
           /\ files[Summary(o)].conclusion =
                 IF experiment = "s5"
                 THEN "MECHANISM_ADVANTAGE_NOT_ESTABLISHED_AGAINST_B3"
                 ELSE "BOUNDED_SAFETY_ADVANTAGE_ESTABLISHED_NON_COOPERATIVE_FIXTURE_WITH_AVAILABILITY_TRADEOFF")'
      ]_<<vars, resultVars>>

(* A row that was lost, repeated or altered is never accepted, even when   *)
(* the summary was made again from the damaged rows (the checks of         *)
(* verify_results.py and verify_campaign together).                        *)
DamageIsRejected ==
    [][\A o \in accepted' \ accepted : Genuine(files[Raw(o)])]_accepted

(* Two campaigns compare equal, whatever the order they were measured in,  *)
(* exactly when neither was damaged (compare_experiment_categories.py).    *)
ComparisonExact ==
    [][comparison' # comparison =>
          (comparison'[3] <=> damaged \notin {comparison'[1], comparison'[2]})
      ]_<<vars, resultVars>>
=============================================================================
