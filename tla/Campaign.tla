------------------------------ MODULE Campaign -------------------------------
(***************************************************************************)
(* run_campaign of S5 and S6: a process measures every cell, appends each  *)
(* record durably to a partial file, checkpoints after each case, and      *)
(* publishes the rows and then their summary.  Several runs may be started *)
(* on the same scratch directory and on the same or other outputs, and     *)
(* each may raise or be killed at any step.                                *)
(***************************************************************************)
EXTENDS Naturals, Sequences, FiniteSets, SequencesExt, Files

CONSTANTS
    Runs,           \* processes that execute run_campaign
    Outputs,        \* output directories they may be given
    REPETITIONS,    \* measured trials of a cell: 30 in the code
    WARMUPS,        \* trials of a cell that are thrown away: 5 in the code
    Orders          \* orders of the five mechanisms that the shuffle yields

ASSUME RepetitionsAssumption == REPETITIONS \in Nat \ {0} /\ WARMUPS \in Nat

\* random.shuffle of the five mechanisms leaves all of them.
ASSUME OrdersAssumption ==
    \A order \in Orders : order \in Seq(1..5) /\ Range(order) = 1..5

\* The scratch directory is none of the outputs, nor is the absence of one.
ASSUME OutputsAssumption == Outputs \cap {"scratch", "NONE"} = {}

S5 == INSTANCE ExperimentS5
S6 == INSTANCE ExperimentS6

VARIABLES
    experiment,     \* "s5" or "s6": the program that is run
    pc,             \* next step of each run
    output,         \* the directory a run was given
    at,             \* where a run is: case index, repetition, mechanisms left
    records,        \* the records a run keeps in memory, by their keys
    files           \* the file system

locals == <<output, at, records>>
vars == <<experiment, pc, locals, files>>

Ended == {"done", "refused", "stopped"}

MECHANISMS == IF experiment = "s5" THEN S5!MECHANISMS ELSE S6!MECHANISMS
CASES == IF experiment = "s5" THEN S5!CASES ELSE S6!CASES
run_one(mechanism, case, repetition) ==
    IF experiment = "s5" THEN S5!run_one(mechanism, case, repetition)
                         ELSE S6!run_one(mechanism, case, repetition)
TOTAL == Len(MECHANISMS) * Len(CASES) * REPETITIONS
Key(row) == <<row.mechanism, row.case, row.repetition>>
Grid == {<<m, c, k>> : m \in Range(MECHANISMS), c \in Range(CASES),
                       k \in 1..REPETITIONS}

(* A set of records as the lines of a file.  A record is determined by its *)
(* key, so the set holds keys; no check depends on the order of the lines, *)
(* so it is the order of the grid whatever was measured first.             *)
CellOf(i) ==
    LET n == Len(MECHANISMS)
    IN  <<MECHANISMS[(i % n) + 1],
          CASES[((i \div n) \div REPETITIONS) + 1],
          ((i \div n) % REPETITIONS) + 1>>

Lines(keys) ==
    LET present == {i \in 0..(TOTAL - 1) : CellOf(i) \in keys}
        place(j) == CHOOSE i \in present :
                        Cardinality({k \in present : k < i}) = j - 1
        row(key) == run_one(key[1], key[2], key[3])
    IN  [j \in 1..Cardinality(present) |-> row(CellOf(place(j)))]

aggregate(rows) ==
    IF experiment = "s5" THEN S5!aggregate(rows) ELSE S6!aggregate(rows)

Scratch == <<"scratch">>
Dir(o) == <<o>>
Partial(o) == <<o, "RAW_RUNS.jsonl.partial">>
Raw(o) == <<o, "RAW_RUNS.jsonl">>
Checkpoint(o) == <<o, "CAMPAIGN_CHECKPOINT.json">>
Summary(o) == <<o, "SUMMARY.json">>

Init ==
    /\ experiment \in {"s5", "s6"}
    /\ pc = [r \in Runs |-> "start"]
    /\ output \in [Runs -> Outputs]
    /\ at = [r \in Runs |-> [case |-> 1, repetition |-> 1, left |-> <<>>]]
    /\ records = [r \in Runs |-> {}]
    /\ files = NoFiles

Goto(r, step) == pc' = [pc EXCEPT ![r] = step]

\* A step of run r that does not look back: what it writes, then the next.
Step(r, from, to, fs) ==
    /\ pc[r] = from
    /\ files' = fs
    /\ Goto(r, to)

-----------------------------------------------------------------------------

\* S5 looks at the output only; S6 at the scratch directory too.
CheckPaths(r) ==
    /\ Step(r, "start",
            IF \/ Exists(files, Dir(output[r]))
               \/ experiment = "s6" /\ Exists(files, Scratch)
            THEN "refused" ELSE "mkdir", files)
    /\ UNCHANGED <<experiment, locals>>

MakeOutput(r) ==
    /\ IF Exists(files, Dir(output[r]))
       THEN Step(r, "mkdir", "refused", files)
       ELSE Step(r, "mkdir", "scratch", Put(files, Dir(output[r]), {}))
    /\ UNCHANGED <<experiment, locals>>

\* A mutant of MakeScratch: mkdir(exist_ok=True).
MakeScratchAgain(r) ==
    /\ Step(r, "scratch", "open", Put(files, Scratch, {}))
    /\ UNCHANGED <<experiment, locals>>

\* The output is already there when a stale scratch directory is found.
MakeScratch(r) ==
    /\ IF Exists(files, Scratch)
       THEN Step(r, "scratch", "stopped", files)
       ELSE Step(r, "scratch", "open", Put(files, Scratch, {}))
    /\ UNCHANGED <<experiment, locals>>

\* The preregistration is copied and the partial file created.
OpenPartial(r) ==
    /\ Step(r, "open", "warmup",
            Put(files, Partial(output[r]), [rows |-> {}, torn |-> FALSE]))
    /\ UNCHANGED <<experiment, locals>>

\* WARMUPS trials of every mechanism; their records are dropped.
Warmup(r) ==
    /\ Step(r, "warmup", "measure", files)
    /\ \E order \in Orders :
          at' = [at EXCEPT ![r].repetition = 1, ![r].left = order]
    /\ UNCHANGED <<experiment, output, records>>

\* One measured trial; the row is in the file when fsync returns.
Measure(r) ==
    LET where == at[r]
        row == <<MECHANISMS[Head(where.left)], CASES[where.case],
                 where.repetition>>
        left == Tail(where.left)
        last == left = <<>> /\ where.repetition = REPETITIONS
    IN  /\ Step(r, "measure", IF last THEN "checkpoint" ELSE "measure",
                [files EXCEPT ![Partial(output[r])].rows = @ \cup {row}])
        /\ records' = [records EXCEPT ![r] = @ \cup {row}]
        /\ IF left = <<>> /\ ~last
           THEN \E order \in Orders :
                   at' = [at EXCEPT ![r].repetition = @ + 1, ![r].left = order]
           ELSE at' = [at EXCEPT ![r].left = left]
        /\ UNCHANGED <<experiment, output>>

\* A mutant of Progress: the case is counted before it is measured.
ProgressAhead(r) == [completed_cases |-> at[r].case + 1,
                     measured_runs |-> Cardinality(records[r]),
                     warmups_done |-> 0]

Progress(r) == [completed_cases |-> at[r].case,
                measured_runs |-> Cardinality(records[r]),
                warmups_done |-> at[r].case * WARMUPS * Len(MECHANISMS)]

\* S6 removes the old checkpoint before it writes the new one.
UnlinkCheckpoint(r) ==
    /\ experiment = "s6"
    /\ Step(r, "checkpoint", "write_checkpoint",
            Without(files, {Checkpoint(output[r])}))
    /\ UNCHANGED <<experiment, locals>>

\* A mutant of WriteCheckpoint: the loop ends one case early.
WriteCheckpointEarly(r) ==
    LET last == at[r].case + 1 = Len(CASES)
    IN  /\ Step(r, IF experiment = "s5" THEN "checkpoint" ELSE "write_checkpoint",
                IF last THEN "publish" ELSE "warmup",
                Put(files, Checkpoint(output[r]), Progress(r)))
        /\ at' = [at EXCEPT ![r].case = IF last THEN @ ELSE @ + 1]
        /\ UNCHANGED <<experiment, output, records>>

\* atomic_json, and on to the next case or out of the loop.
WriteCheckpoint(r) ==
    LET last == at[r].case = Len(CASES)
    IN  /\ Step(r, IF experiment = "s5" THEN "checkpoint" ELSE "write_checkpoint",
                IF last THEN "publish" ELSE "warmup",
                Put(files, Checkpoint(output[r]), Progress(r)))
        /\ at' = [at EXCEPT ![r].case = IF last THEN @ ELSE @ + 1]
        /\ UNCHANGED <<experiment, output, records>>

PublishRaw(r) ==
    LET partial == Partial(output[r])
    IN  /\ Step(r, "publish", "summary",
                Put(Without(files, {partial}), Raw(output[r]),
                    Lines(files[partial].rows)))
        /\ UNCHANGED <<experiment, locals>>

\* The counts come from memory and the digest from the published file.
WriteSummary(r) ==
    /\ Step(r, "summary", "cleanup",
            Put(files, Summary(output[r]),
                [measured_runs |-> Cardinality(records[r]),
                 raw_sha256 |-> files[Raw(output[r])]]
                @@ aggregate(Lines(records[r]))))
    /\ UNCHANGED <<experiment, locals>>

RemoveScratch(r) ==
    /\ Step(r, "cleanup", "done", Without(files, {Scratch}))
    /\ UNCHANGED <<experiment, locals>>

\* An exception, or the process is killed; nothing is cleaned up.
Stop(r) ==
    /\ pc[r] \notin Ended \cup {"start"}
    /\ Goto(r, "stopped")
    /\ UNCHANGED <<experiment, locals, files>>

\* Killed while a row is being written: part of a line is in the file.
StopInRow(r) ==
    /\ pc[r] = "measure"
    /\ files' = [files EXCEPT ![Partial(output[r])].torn = TRUE]
    /\ Goto(r, "stopped")
    /\ UNCHANGED <<experiment, locals>>

CampaignStep(r) ==
    \/ CheckPaths(r) \/ MakeOutput(r) \/ MakeScratch(r) \/ OpenPartial(r)
    \/ Warmup(r) \/ Measure(r)
    \/ UnlinkCheckpoint(r) \/ WriteCheckpoint(r) \/ PublishRaw(r)
    \/ WriteSummary(r) \/ RemoveScratch(r) \/ Stop(r) \/ StopInRow(r)

-----------------------------------------------------------------------------
(* Properties.                                                             *)

(* At most one run works in the scratch directory, and a run owns the      *)
(* output it writes, however starts and deaths interleave (the two mkdir   *)
(* calls that refuse an existing path).                                    *)
Working == {r \in Runs : pc[r] \notin Ended \cup {"start", "mkdir", "scratch"}}
OneCampaignAtATime ==
    \A a, b \in Working : a = b
=============================================================================
