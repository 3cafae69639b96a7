# A TLA+ verification of OASI / AERA

This directory models the parts of the repository that decide whether an effect
may happen, the experiments that measure them, and the tools that turn results
into a release, and checks and proves what makes them correct. Paths are relative to
the repository root (`src/runtime.rs` and so on); `PROJECT.json` gives, for every
definition, the lines it stands for.

## The system

| Part | Where | State it keeps | What it does |
|---|---|---|---|
| Authority model | `src/model.rs` | body (uid, epoch, generation, certificate, quarantined), safety lease, begun transaction | eleven-way commit decision; BEGIN captures a lease, COMMIT consumes it once |
| Coordinator | `src/runtime.rs` (`Runtime`) | body, active lease, transaction, metrics, counters, `rollback_confirmed` | one thread takes BEGIN, COMMIT, RESET, PROBE and STOP off an mpsc channel; a receive that times out is an expired lease |
| Scheduler thread | `src/runtime.rs` (`run`) | position in a fixed schedule | sleeps, then sends the next event |
| Child process | `src/runtime.rs` (`ChildProcess`, `child_loop`) | number of WORK effects | answers framed requests over pipes; a reader thread turns its output into a second channel |
| Wire protocol | `src/protocol.rs` | none | canonical lines; an ACK must equal the one line expected |
| Evidence ledger | `src/ledger.rs` | sequence number, hash, sealed flag, file | append, seal, verify, recover a valid prefix |
| Policy compiler | `src/model.rs` | none | bounds checks from policy to reflex program |
| Programs | `src/bin/` | none | demonstration with an exit gate, ledger verifier, semantic replay |
| One-shot broker | `experiments/common/oasi_broker.py` | SQLite row and event chain, a seal file with the digest of the database | PREPARE a guest, consume the attempt durably, EXECUTE, record the result |
| Experiments S5, S6 | `experiments/s5`, `experiments/s6` (`run_one`) | per trial: effect sink, coordinator store, broker ledger | five dispatch mechanisms under eight and ten injected faults |
| Campaign runner | the same files (`run_campaign`) | output and scratch directories, rows in memory and on disk, a checkpoint | measures every cell, publishes rows and summary |
| Result verification | `verify_results.py`, `tools/verify_experiments.py`, `tools/compare_experiment_categories.py` | a result file and a manifest | recomputes the summary, checks totals, compares a rerun |
| Deterministic archive | `tools/build_deterministic_zip.py`, `tools/verify_archive.py` | a partial file and the output | packs a reviewed tree; an independent program verifies it before and after publication |
| Article builder | `tools/build_article_verified.py` | snapshot of the sources, builds A and B | promotes article, figures, source manifest and receipt into the tree |
| Release metadata | `tools/rebuild_release_metadata.py` | listing of the tree | derives manifest, claims, SBOM, inventory and index |
| Release verifier | `tools/verify_release.py` | none | accepts or rejects a tree |

**How the parts interact.** The scheduler sends events to the coordinator. The
coordinator decides with the authority model, writes a request to the child,
blocks for one line from the reader thread, and records what happened in the
ledger. Every error path kills and reaps the child and makes `run` return `Err`.
The broker is a separate program: it talks to a guest over a socket and shares
its ledger, seal and socket paths with any other broker started on them. The
experiments use the broker's `Ledger` as a library, in one process per trial. The
tools meet only in the file system: campaigns share a scratch directory, archive
builders an output name, and article builders, the metadata rebuild and people the
release tree.

**What is hard.** The lease is checked before the child is awaited and relied on
afterwards. An acknowledgement can be lost, late, duplicated or malformed. The
lease timeout races queued events. A ledger write can fail when the effect is
already done. Either process can die at any point. The broker's durable row and
its seal are two writes, and nothing but the database keeps two brokers apart.
The tools write many files that vouch for each other and have no transaction: a
kill, an edit or a second tool may come between any two of them, and what they
leave behind is judged later by programs that share no code with them.
`PROJECT.json` lists these under `hazards`, each at its line.

## Modules

| Module | Models | Used by |
|---|---|---|
| `Authority` | `model.rs`: the decision oracle, the transaction, checked and saturating u64 arithmetic | extended by `Runtime` |
| `Runtime` | `runtime.rs`, the part of `protocol.rs` and `ledger.rs` it uses | `MCRuntime`, `RuntimeProofs` |
| `MCRuntime` | schedules for TLC | the five runtime runs |
| `RuntimeProofs` | the inductive invariant of the coordinator, and what follows from it | extended by `LedgerProofs` |
| `LedgerProofs` | the history of the ledger: what every entry presupposes | |
| `Recovery` | the broker's recovery table, and how far an attempt is | `Broker`, `TrialOps` |
| `OneShot` | abstract specification of a one-shot attempt | implemented by `Broker` and `Trials` |
| `Broker` | `oasi_broker.py`: `run_qemu` and its `Ledger` | `MCBroker` |
| `MCBroker` | symmetry for TLC | the run `broker` |
| `BrokerProofs` | the broker's invariants and its refinement of `OneShot`, proved | |
| `TrialOps` | frames, sinks, `StateStore` and `Ledger` as one trial uses them | `ExperimentS5`, `ExperimentS6`, `Trials` |
| `ExperimentS5`, `ExperimentS6` | mechanisms, cases, records and summaries | `Trials`, `Campaign` |
| `Trials` | every trial, operation by operation | the run `trials` |
| `TrialsProofs` | every trial ends well, and OASI's implement `OneShot`, proved | |
| `Files` | the file system of the tools | the modules below |
| `Campaign` | `run_campaign` | extended by `Results` |
| `Results` | the programs that verify and compare results, and damage | `MCResults`, the run `results` |
| `ResultsProofs` | locks, checkpoints and published rows of campaigns, proved | extended by `DamageProofs` |
| `DamageProofs` | what accepting and comparing results proves, for any number of repetitions | |
| `Archive` | archive builder and verifier | `MCArchive`, the run `archive` |
| `ArchiveProofs` | the archive's five properties, proved | |
| `Article` | article builder | extended by `Release` |
| `Release` | metadata rebuild, release verifier, people | `MCRelease`, the three release runs |
| `MCRelease` | symmetry, options and reviewed lists for TLC | |
| `ReleaseProofs` | the five properties of the release tree, proved | |

### `Runtime`

The main thread's blocking receives are its control points, the variable `pc`:
waiting for HELLO, for an event, for an acknowledgement, for the child to exit.
Everything a handler does between two receives is one action, because nothing
else reads or writes those fields: `CommitAllowed` is `commit` up to the WORK
request, `WorkAccepted` the rest of it once the ACK came, `RejectAck` the rest
when it did not. `Quarantine`, `ProbeSent` and `Stop` are split the same way. A
handler that returns `Err` ends in `Fail`: the run is over, the child is killed
and reaped, and the fields of `Runtime` are lost; only the ledger remains.

The child (`ChildHello`, `ChildPerform`, `ChildReply`, `ChildExit`,
`ChildEndOfInput`), the scheduler (`Send`) and the clock (`Tick`) interleave with
it. Performing an effect and writing its acknowledgement are two steps, so the
child can die, hang or be killed in between.

Abstractions:

- A protocol line is a record of its fields. `validate_bound_ack` compares the
  line with the canonical text of the expected one, which is equality of records.
  Anything else (a malformed line, a wrong checksum, a read error) is `GARBAGE`.
  The work digest is a function of the identifier and is left out.
- A ledger entry keeps its event, decision, body and lease. Sequence number and
  hash chain are its position. A failed `record` or `seal` ends the run with the
  failed entry in the file or not (`BufWriter` flushes again when dropped).
  The ledger's own sequence number is not bounded by `U64_MAX`.
- One-second timeouts may fire at any moment: the clock counts ticks of about
  25 ms and nothing compares those timeouts with the lease.

`Faults` selects what may go wrong: a ledger call fails (`io`), the child dies
(`child`), hangs (`hang`), writes a wrong line (`garble`) or its ACK twice
(`duplicate`), the coordinator is killed (`parent`).

### `Broker`

Each broker runs the steps of `run_qemu`. A SQLite transaction is one atomic step;
reading the database to hash it and replacing the seal file are two more, and
another broker, an exception or a kill may come between any of them. The digest
of the ledger is the number of times its bytes have changed. `Recover` is a later
process that opens the ledger after everyone has ended and asks
`recovery_action`. Frames and signatures are abstracted to whether a receipt is
accepted. The guest is external: it performs the effect at most once per EXECUTE
and may outlive a broker that was killed.

`OneShot` says what all this is for: an attempt is consumed once, its effect
happens at most once and only then, and a result is recorded only for an effect
that happened. `Broker!OneAttempt` is the refinement: the attempt is read off the
ledger's row and the effects are the guests'.

### `TrialOps`, `ExperimentS5`, `ExperimentS6`, `Trials`

A trial is sequential and stages its own crashes, so each branch of `run_stateless`,
`run_coordinated` and `run_oasi` is a script, a sequence of operations on the
trial's sink and databases; `Perform` is what an operation does, and an operation
that raises ends the trial. Closing and opening a database again is the operation
`StateStore` or `Ledger`, which fails on a broken seal. `Trials` runs the scripts
one operation at a time, so that the OASI trials can be shown to implement
`OneShot` as well; `Result` runs one at once, for `Campaign`. Keys, contexts and
signatures are whether they match. Timings, memory and confidence intervals, which
no verifier compares between runs, are left out.

### `Campaign`, `Results`

A file is a path in the function `files`, os.replace and mkdir are atomic, and a
digest is the content. A record is determined by its mechanism, case and
repetition, so a file of rows is a set of these keys until it is published, and
then the sequence of records (`Lines`, by the places `CellOf` counts). A measured
row, with its flush and fsync, is one step; `StopInRow` is a kill in the middle of
it. The verification programs only read, and their verdicts are operators.
`SealDirectory` makes the result manifest, which no program of the repository does.
`Damage` drops, repeats or alters a row, and makes the summary again from the
damaged rows or not.

### `Archive`

A builder reads the allowlist and the tree, reads every file ahead, opens the
partial file exclusively, writes the members one by one from the tree as it then
is, closes it, has it verified by a second program (which parses the allowlist and
reads the tree again), looks for an output once more, replaces it, verifies again
and compares the digest. Each of these is a step between which the tree and the
allowlist may be edited, another builder may work, or the builder may die. An
archive is its members, whether it is closed, and whether there is a gap or a
comment; `verify_archive` is what the verifier demands, `Packed` the reference it
is held against.

### `Article`, `Release`

The tree has one or two files of each kind: normative sources, a build definition,
promoted outputs, a document, experiment rows, the citation, and every derived
file; people add a note, or a document or rows with a letter outside ASCII in
their names. A path is a sequence of one to three parts: the name, the suffix of a
temporary file, and a mark for a directory in the place of one, which blocks
`atomic_write` and which `all_files` never lists.

A builder is called with any `Options`: `--phase`, `--expected-article-doi` and
`--expected-pages` are independent, as in `parse_args`, and `source_snapshot` only
refuses some combinations. Sources are read one by one. What a build yields depends
on the snapshot and on a variant the input does not determine; its validation
record holds the pages, the log (`Logs`: which allowed warnings it has, of which
`PinnedLogs` are those that `verify_release.py` pins, PDF version included) and the
figure's metrics; the tools' versions are any of `Toolchains`. So A and B may
differ in their outputs, which the builder notices, or only in their records, which
it does not. Comparing the snapshot with the tree, and reading the promoted files
back, are single steps: an edit in the middle of such a loop has the same effect on
the result as one just before or after it.

The rebuild is given a list from `Reviewed`, or adopts the one in the tree.
`ReviewedAssumption` is what `parse_canonical_allowlist` enforces, no more: a list may
name a temporary file, or leave out one that the rebuild derives. `names` is the
listing of line 169, taken once, before the derived files are written. `Fails` are
the ways in which a derived file ends the rebuild: evidence is missing, a path
cannot be encoded as ASCII (claims, SBOM and inventory are encoded as UTF-8), or
something is where the temporary file should be; `FailReplace` is an `os.replace`
whose temporary file somebody took away.

`verify_release` is a conjunction of what each part of the program checks,
evaluated on the tree as it is. `clean` remembers the tools whose tree nobody else
touched since they began, so that properties can speak of undisturbed runs.

## Runs

| Run | Instance | Shows |
|---|---|---|
| `runtime_demo` | the schedule of the code, all faults, 3 ticks | effects and commits stay in step, leases return only after a confirmed rollback and a probe, queued lines cannot be mistaken, success means clean; every run ends, and its child with it (exempt is the hung child of a coordinator that was killed, which nothing in the code would end) |
| `runtime_any` | every sequence of 5 events, late ACKs and timeouts, u64 of maximum 4 | every COMMIT has its BEGIN in the ledger; quarantine, lease, body and capture agree; no counter that gets to the limit wraps; no overflow path leaves an effect unreported |
| `broker` | three brokers on the same paths | one effect at most, recorded before it can happen; recovery advice stays true; the durable state only moves forward; together they implement `OneShot` |
| `trials` | every mechanism and case of S5 and S6 | no trial fails its own checks; dispositions tell what happened; OASI implements `OneShot`; B3 of S5 delivers exactly once |
| `results` | two campaigns, shared scratch, two outputs, both experiments | campaigns never share the scratch directory; only whole campaigns are published; checkpoints are not ahead; the published totals and conclusions follow from the code; damage is rejected; a rerun compares equal exactly when nothing was damaged |
| `archive` | a builder with and one without `--overwrite`, two edits, valid and faulty allowlists | the output is always a whole archive of a valid allowlist; nothing is overwritten unasked; success means current; an undisturbed build succeeds; the verifier accepts only the canonical archive |
| `release` | two article builders, a rebuild, two starts, one edit | an accepted tree is consistent whatever died or overlapped; the receipt comes last |
| `release_alone` | one builder with any options, logs and tools, or one rebuild with any list, after two edits | on which receipts builder and verifier agree; what an undisturbed rebuild leaves current, and when its indexes verify; what one that fails leaves |
| `runtime_expiry`, `runtime_blocked`, `runtime_gate` | the schedule of the code, no faults | the first three findings below |
| `release_failed` | one rebuild, one edit | the fourth |

**Bounds.** `MaxTime` stops the clock; at the bound a sleep counts as over, so no
behaviour is cut off for want of time. With a lease of two ticks, three cover the
first lease, and one a probe brought back, expiring before, during and after a
commit; that the safety properties hold for longer is proved. `MaxIdleRollbacks` bounds
the one-second timeouts of a quarantined coordinator, each of which only repeats
the rollback: two rollbacks in `runtime_any`, where the second can be such a
timeout; none are needed for the schedule of the code, whose events keep coming.
Five events are enough for BEGIN, RESET, PROBE, COMMIT in every order with one to
spare; delays are lower bounds, so schedules without delays allow everything
others do. `U64_MAX` is 4 in `runtime_any` (with the first certificate at 3) so
that nonces, epoch, generation, certificate, metrics and lease deadlines reach it
within five events, and 1000 elsewhere so that none does. Only two commits fit in
five events, so the action counter and the child's effects reach 2; that they fit
as well is the theorem `CountersAlwaysFit`. Ledger failures and duplicated ACKs are
left to `runtime_demo`: `UnconfirmedEffectReported` speaks of a ledger that can be
written, and the theorems about the four properties of `runtime_any` hold under
every set of faults. Three brokers
are one more than any race in the code involves; they are interchangeable, and no
action names one, so the symmetry is sound. The same holds of campaigns, outputs
and article builders.

In `results`, two repetitions are the fewest that distinguish one row of a cell
from all of them (the expected totals scale with the number); the mechanisms are
measured in two opposite orders (`Orders`); damage strikes rows of three mechanisms
(`Sampled`), one that doubles, one that never does and OASI, after every run ended
regularly (`Calm`); and a campaign is either verified or compared (`Alone`), since
neither touches what the other reads. In `archive`, two edits suffice to change the
allowlist and the tree, in either order, between any two reads of them. In
`release`, two starts are two builds, two rebuilds or one of each, overlapping or
one after the other; one edit (which may also be two files at once) comes at any
point, and variants are two, because builds must be able to differ. The properties
of `release_alone` speak of tools nobody disturbs, so one start is enough; two edits
before it set up two obstacles at once, and instead of variants there are three
logs (two pinned ones, which may differ between A and B, and one that is allowed
but not pinned), two sets of tools, and lists with and without each file in
question.

**Fairness.** Weak fairness of the main thread (each of its receives has a
timeout), of the child's own steps while it is neither dead nor hung, of the
scheduler (it sleeps for fixed times) and of the clock. `ChildCrash`, `ChildHang`
and `ParentCrash` have none. Only `runtime_demo` depends on it; the other modules'
properties are all safety: those programs end by themselves, and what matters is
what they leave.

**Deadlock** is checked in every run: `Ended`, `AllEnded` and their like are the
only states without another step.

Every property of a passing run has a mutant in `PROJECT.json`: a plausible slip
in the code (a dropped comparison, a missing reset, an off-by-one at the limit)
under which TLC finds the property violated.

## Findings

1. **A COMMIT can be recorded after its lease expired** (`runtime_expiry`).
   `commit` validates at `src/runtime.rs:620`, waits for the child for up to a
   second, and records at line 674 without looking at the clock again.
   `ARCHITECTURE.md:39` requires the snapshot to "remain valid at the commit
   boundary" and draws the revalidation after the acknowledgement. What does hold,
   and is proved, is `EffectUnderAuthority`: the body's authority has not changed.
2. **A blocked commit leads to no rollback or quarantine** (`runtime_blocked`), as
   `AERA_SPECIFICATION.md:43` says it does: `src/runtime.rs:681` only counts and
   records it.
3. **The demonstration's gate depends on timing** (`runtime_gate`). A correct,
   fault-free run fails `src/bin/osia_core_demo.rs:18` when the probe's ACK is
   processed late enough for the commit 70 ms later to find its lease valid.

4. **A rebuild that fails has changed files** (`release_failed`).
   `rebuild_release_metadata.py:166` says that a failed rebuild "leaves every release
   artifact byte-identical". With a claim's evidence missing and a list that omits
   it, the rebuild ends at line 238, after `experiments/MANIFEST.sha256` was
   replaced. A public path with a letter outside ASCII ends it at line 336, after
   claims, SBOM, inventory and allowlist were; a file or directory
   `SBOM.spdx.json.tmp` at line 154, after the claims. What does hold, and is proved,
   is `FailedRebuildIsCurrent`: it stops at whole, current files, in order, and
   before the manifest.

Smaller things the models brought up:

- The builder succeeds with receipts that `verify_release.py` rejects in every phase:
  `--phase pre-doi` together with a DOI (line 152 looks at the DOI only in the final
  phase), `--expected-pages` other than 13, tools other than the pinned ones,
  warnings that are allowed but not pinned, and records of A and B that differ,
  which `compare_builds` does not compare. `BuildSatisfiesVerifier` is exact about
  this: an undisturbed build is accepted if and only if none of these happened.
- The rebuild takes its listing before it writes (line 169). If a derived file, such
  as the SBOM, neither exists nor is on the list that is adopted, the rebuild creates
  it and ends well, and the indexes omit it: the release is rejected.
  `RebuildSatisfiesVerifier` is exact about this too.
- `Ledger._seal` (`oasi_broker.py:166`) hashes and replaces without a lock. A broker
  that comes too late can hash before and replace after the successful one, and then
  sets the seal back, so that a ledger whose attempt succeeded is refused as tampered
  with when it is opened again. `SealExplained` says that every stale seal has such
  an explanation.
- `run_campaign` of S5 creates the output before it finds a stale scratch
  directory, and so leaves an empty output; S6 looks at both first, although not
  atomically. Neither ever shares the scratch directory (`OneCampaignAtATime`).

## What is proved

Every theorem holds for every value of the constants: no bound of a run is
assumed. Each component has one inductive invariant, which TLC checked on the
run's instance before it was proved (but for that of `TrialsProofs`, which
quantifies over sequences of states); the properties follow from it.

### `RuntimeProofs`: the coordinator and its child

For every schedule, lease duration, first certificate, set of faults and value of
`U64_MAX`:

- `TypeCorrect`: `Spec => []TypeOK`.
- `EffectsAreAccounted`: no effect without a commit, none twice.
- `AuthorityIsCoherent`: quarantine, lease, body and captured lease agree.
- `LoopIsSynchronized`: between handlers the pipe is empty and no queued line can
  pass for a future acknowledgement.
- `EffectsUnderAuthority`: the child performs an effect only under the authority
  the coordinator holds at that moment, or held when it was killed.

None of the properties is inductive. That an accepted ACK proves the effect depends
on what else could be in the reader's channel, so the invariant `IInv` says where
nonces can be. `PipeInv`: nothing on the child's side is newer than the last nonce
issued, and an unread request is the only one and unanswered. `FlightInv`: the
transaction in flight is either the request in the pipe or the answer the child has
computed. `CountInv`: the two sides' counters differ by at most the WORK in flight.
`AuthorityInv`: WORK is in flight only under an active lease, PROBE and ROLLBACK
only without one. From these `AckConsumed` follows: a line equal to the expected one
can only be the child's answer to this request. `FailSafe`, `ResumeSafe` and
`TransactSafe` show the invariant for the three ways a handler can end, and the
proof for each action reduces to them.

### `LedgerProofs`: what the evidence says

- `CommitsAreAudited`: every COMMIT has a BEGIN_ACTION of the same lease and body
  before it, with nothing in between that could have changed either.
- `LeasesAreAudited`: a later lease is recorded directly behind a probe, after a
  rollback that was confirmed since the last quarantine, and is newer than all
  leases before it.
- `DoneRunIsClean`: a run that returns `Ok` has a sealed ledger whose COMMITs are the
  child's effects, and every rollback was confirmed.
- `UnconfirmedEffectsReported`: when a run fails although its ledger could be
  written, the COMMITs are the effects or the last entry reports a rejected ACK.
- `CountersAlwaysFit`: no u64 of either process leaves its range.

These speak of entries written long ago, so `HInv` is added to `IInv`: it says what
must be at the end of the ledger for the coordinator to be in the state it is in. An
open transaction has its BEGIN_ACTION with nothing decisive after it (`TrailInv`), a
confirmed rollback its entry after the last quarantine (`ProbeInv`), no recorded
lease is newer than the body (`LeaseOrder`), and the metrics count the entries of
each kind (`TallyInv`, which needs cardinalities under `Append`). The ledger only
grows, so an entry's own past never changes; each action appends entries whose
presuppositions `HInv` supplies.

### `BrokerProofs`: any number of brokers on the same paths

- `EffectAtMostOnce`, `DurablyConsumedFirst`: one effect at most, and the attempt is
  in the database before it.
- `RecoveryIsSound`, `DoneMeansTerminal`, `LedgerMovesForward`.
- `SealIsExplained`: in every state, a seal that does not match its ledger is that of
  a new file, or one transaction behind a broker that is about to seal it or was
  killed or interrupted before it could, or the earlier digest of a broker that came
  too late.
- `ImplementsOneShot`: `Spec => OneAttempt`, the refinement of `OneShot`; the initial
  states map to its initial states and each step to a step or a stutter.

The argument is ownership. The row of the database is the only thing that keeps
brokers apart: `OwnerInv` says that the steps after PREPARE belong to the one broker
whose transaction inserted the row, and that the row is as it left it; `StageInv`
what guest such a broker has; `EventInv` that the event chain is the one that led to
the row; `EffectInv` that the effect is counted once, between CONSUMED and RESULT;
`SealInv` that a seal which does not match is one that a broker between its two
writes explains; `AdviceInv` that advice is given when nothing but a guest can still
move.

### `ArchiveProofs`: any builders, edits, names and allowlists

- `OutputIsAllowed`: the output is always a whole archive of a valid allowlist.
- `SuccessMeansCurrent`: a builder that reports success has published the tree.
- `UnhinderedSucceeds`: a build nothing disturbs succeeds.
- `VerifierIsExact`: the verifier accepts the canonical archive and nothing else.
- `NothingReplacedUnasked`: without `--overwrite` no output is ever replaced.

The file opened exclusively is a lock (`LockInv`). What a builder read ahead is
related to what it has written so far (`ListInv`, `FreshInv`), and what the second
program accepted to what is published (`SettledInv`); `CleanInv` carries the
undisturbed builder from one read to the next. The core is pure: `VerifierExact`,
that `verify_archive` holds of exactly the archive `Packed`, for allowlists of any
length. It needs induction over the sequence `InOrder` builds; the provers cannot
instantiate the library's induction schemes, so it is done by taking a least
counterexample (`Least`, from `WFMin`, which has a set as its parameter).

### `ResultsProofs`: any number of campaigns, outputs and repetitions

- `ScratchIsExclusive`: at most one campaign works in the scratch directory.
- `CheckpointsAreSound`: a checkpoint is never ahead of the durable rows.
- `OnlyWholeCampaigns`: rows that are published are those of a whole campaign, one
  for each mechanism, case and repetition.

The two `mkdir` calls are locks (`LockInv`): a run past the first one owns its
output, past both also the scratch directory, and no directory it made is ever made
again. So the partial file is the run's memory (`RunInv`), although runs die and
others are started beside it. `Reached` is the loop invariant of the three nested
loops; at their end it gives the whole grid. `LinesAreGenuine` then says that
counting through the grid yields each key once, for any number of repetitions.

### `DamageProofs`: what the verification of results is worth

- `DamagedResultsRejected`: with at least two repetitions of a cell, a campaign on
  which `Damage` struck (it drops, repeats or alters one sampled row) is not accepted.
- `ComparisonsAreExact`: two campaigns compare equal exactly when neither is damaged.

`RowsInv` adds to the campaigns' invariant that published rows are `Whole`, the rows
of every cell and repetition in measuring order, or `Whole` struck once. A dropped or
repeated row changes the number of rows (`NumberShows`); an altered one has a
repetition out of range or a field unlike its own record's (`WrongShows`), and the
second repetition of its cell, which is intact, shows it: `verify_campaign` wants one
categorical record per cell. That is why the theorem needs two repetitions, of which
the code makes thirty; with a single one an altered disposition would pass
`verify_campaign`. The comparison needs no such condition, since it holds the rows
against those of another run.

### `TrialsProofs`: the trials of S5 and S6

- `TrialsPass`, `RecordsAreTruthful`, `BaselinesDeliver`: the three invariants of the
  run `trials`.
- `TrialsAreOneShot`: the OASI trials implement `OneShot`.

The invariant is that what is left of a trial's script brings it to a good end
(`Succeeds`). It is preserved because an operation takes the first piece off
(`Advance`); that it holds at first is the work. The scripts are taken apart as the
code is: lemmas say what one operation does to the coordinator's or the broker's
state, `Then` composes pieces, and each branch of each `run_*` function is a chain of
them. The run covers the same trials; the proof says why they end well, for both
experiments from the same lemmas. It also found that two guards of `verified`
overlapped for the genuine frame, so that the definition depended on which one is
tried first; the checks of `TrialOps` are now chains of IF, as in the code.

### `ReleaseProofs`: any builders, options, lists and edits

- `AcceptedTreesAreConsistent`: what the article part of the verifier accepts is one
  build of the sources beside it; what all of it accepts is also in one phase.
- `ReceiptComesLast`: an undisturbed promotion replaces the receipt when everything
  it attests is in place.
- `BuildsVerify`: the verifier accepts the article of an undisturbed build if and
  only if its receipt is in `DemandedBesides`, for any options, tools and logs.
- `RebuildsVerify`: an undisturbed rebuild leaves every derived file current, and
  its indexes verify if and only if the list, whatever it is, names everything.
- `FailedRebuildsAreCurrent`: a rebuild that one of its checks ended, undisturbed,
  stops at whole, current files and before the manifest.

Acceptance rests on what is true of the tree whoever wrote it (`TreeInv`): a receipt
was made by one build of the sources it lists. It is kept because `ReadInv` and
`WorkInv` say that what a builder promotes was built from what it read, however the
tree has changed since. The promises to an undisturbed tool rest on an account of its
progress: `CleanBuild` says that every file already promoted is what this builder has
to promote, `CleanRebuild` that every file already derived is what the rebuild would
derive now (`Fresh`), although later ones list it, and which public files there are:
those found at first, the derived files written so far, and the temporary file. A
file that is written must then leave those before it fresh, which is what the order
of the rebuild is for (`RebuildOne`); the same account gives `WrittenCurrent`, which
is why a rebuild may fail at any file.

### Assumptions

All are `ASSUME`s that TLC evaluates in the runs: `NoLease` is not a lease; `U64_MAX`
is at least 1 and the first certificate fits; schedule, lease duration and bounds
have their types; `NoSeal` is not a digest and a link not a content; the names of a
tree are distinct, and allowlists list such names; there is at least one repetition;
an order contains all five mechanisms; the scratch directory is none of the outputs;
a build has some outcome, and the pinned logs are some of the logs
(`OutcomesAssumption`); builders are called with options (`ArgumentsAssumption`); a
reviewed list is not empty and does not name the indexes (`ReviewedAssumption`); and
the rebuild and its temporary files have names that no article builder has.

### Only model-checked

- `Termination` and `NoOrphan` of `Runtime`: liveness is out of the prover's reach.
- `PublishedResultsHold` of `Results`: the totals that the verifier expects, computed
  over the fixed trials. It compares numbers that folds over scripts and
  cardinalities yield with literals, which a run evaluates and a proof would repeat.
- The four findings: they are counterexamples.

## Plan

Done: the modules above, their runs, the refinements of `OneShot`, and the proofs
about each of them. What is left is `EvidenceLedger`: the file of `ledger.rs` as a
sequence of lines with torn tails, `verify_reader` as an acceptor,
`recover_valid_prefix`, and truncation by `Ledger::create`.

## Not modelled

- Text of frames, checksums, hashes and signatures: their effect is that a line or
  a receipt is accepted or not. Collisions are not considered.
- The unbound protocol (`transact`, `parse_request`), which only tests use.
- The file of the evidence ledger below the level of entries (torn bytes, the life
  of the file across runs), and with it the two small programs that read it.
- `compile_policy` and `verify_reflex`: comparisons of constants, with no state.
- What `verify_release.py` and `verify_experiments.py` compare with literals of
  their own: licence texts, qualification records, the details of the
  citation file, required and forbidden phrases, pins of executed sources, the JSON
  schema validator. They relate no two files that a tool could leave apart.
- Symbolic links and unportable names outside `Archive`; zip headers bit by bit.
- The version of a program that Python had loaded before its file was edited.
- A process other than the archive builders that creates the output between the check
  and the replacement (`build_deterministic_zip.py:355-357`), which would overwrite it.
- The paper, figures, schemas and recorded results.

## Running it

    tlc -workers 2 -config RuntimeDemo.cfg MCRuntime
    tlc -workers 2 -config Broker.cfg MCBroker
    tlc -workers 2 -config Trials.cfg Trials
    tlc -workers 2 -config Results.cfg MCResults
    tlc -workers 2 -config Archive.cfg MCArchive
    tlc -workers 2 -config Release.cfg MCRelease
    tlc -workers 2 -config ReleaseAlone.cfg MCRelease
    tlc -workers 2 -config ReleaseFailed.cfg MCRelease      # finding 4
    tlapm RuntimeProofs.tla
    tlapm LedgerProofs.tla
    tlapm BrokerProofs.tla
    tlapm ArchiveProofs.tla
    tlapm ResultsProofs.tla
    tlapm DamageProofs.tla
    tlapm TrialsProofs.tla
    tlapm ReleaseProofs.tla
