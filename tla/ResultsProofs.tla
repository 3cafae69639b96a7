---------------------------- MODULE ResultsProofs ----------------------------
(***************************************************************************)
(* What is proved about campaigns and their results, for any number of     *)
(* runs, outputs and repetitions: at most one campaign works in the        *)
(* scratch directory, a checkpoint never runs ahead of the durable rows,   *)
(* and rows are published only when they are those of a whole campaign.    *)
(***************************************************************************)
EXTENDS Results, FiniteSetTheorems, TLAPS

-----------------------------------------------------------------------------
(* Paths.                                                                  *)

\* The paths of a campaign are distinct.
LEMMA Paths ==
    ASSUME NEW o \in Outputs, NEW p \in Outputs
    PROVE  /\ Dir(o) = Dir(p) => o = p
           /\ Partial(o) = Partial(p) => o = p
           /\ Raw(o) = Raw(p) => o = p
           /\ Checkpoint(o) = Checkpoint(p) => o = p
           /\ Dir(o) \notin {Partial(p), Raw(p), Checkpoint(p), Summary(p),
                             CheckResult(p), Manifest(p), Scratch}
           /\ Partial(o) \notin {Raw(p), Checkpoint(p), Summary(p),
                                 CheckResult(p), Manifest(p), Scratch}
           /\ Raw(o) \notin {Checkpoint(p), Summary(p), CheckResult(p),
                             Manifest(p), Scratch}
           /\ Checkpoint(o) \notin {Summary(p), CheckResult(p), Manifest(p),
                                    Scratch}
           /\ Scratch \notin {Summary(p), CheckResult(p), Manifest(p)}
  BY OutputsAssumption
  DEF Dir, Partial, Raw, Checkpoint, Summary, CheckResult, Manifest, Scratch

-----------------------------------------------------------------------------
(* Lines.                                                                  *)

\* Quotient and remainder are unique.
LEMMA DivModUnique ==
    ASSUME NEW a \in Nat, NEW b \in Nat, NEW d \in Nat \ {0}, b < d
    PROVE  /\ (a * d + b) \div d = a
           /\ (a * d + b) % d = b
  OBVIOUS

\* A number below c * d has a quotient below c.
LEMMA DivBound ==
    ASSUME NEW a \in Nat, NEW c \in Nat, NEW d \in Nat \ {0}, a < c * d
    PROVE  /\ a \div d \in 0 .. (c - 1)
           /\ a % d \in 0 .. (d - 1)
  OBVIOUS

\* Five mechanisms; eight cases of S5, ten of S6.
LEMMA Sizes ==
    ASSUME experiment \in {"s5", "s6"}
    PROVE  /\ Len(MECHANISMS) = 5 /\ Len(CASES) \in {8, 10}
           /\ DOMAIN MECHANISMS = 1..5
           /\ DOMAIN CASES = 1..Len(CASES)
<1>1. Len(MECHANISMS) = 5 /\ DOMAIN MECHANISMS = 1..5
  BY DEF MECHANISMS, S5!MECHANISMS, S6!MECHANISMS
<1>2. CASE experiment = "s5"
  <2>1. Len(CASES) = 8 /\ DOMAIN CASES = 1..8
    BY <1>2 DEF CASES, S5!CASES
  <2> QED
    BY <1>1, <2>1
<1>3. CASE experiment = "s6"
  <2>1. Len(CASES) = 10 /\ DOMAIN CASES = 1..10
    BY <1>3 DEF CASES, S6!CASES
  <2> QED
    BY <1>1, <2>1
<1> QED
  BY <1>2, <1>3

\* The record of a trial bears the key of the trial.
LEMMA RecordKey ==
    ASSUME NEW m, NEW c, NEW k
    PROVE  Key(run_one(m, c, k)) = <<m, c, k>>
  BY DEF Key, run_one, S5!run_one, S6!run_one, S5!Record, S6!Record

\* Counting from 0 to TOTAL - 1 visits every cell of the grid.
LEMMA CellsAreGrid ==
    ASSUME experiment \in {"s5", "s6"}
    PROVE  /\ TOTAL \in Nat \ {0}
           /\ \A i \in 0..(TOTAL - 1) : CellOf(i) \in Grid
           /\ \A key \in Grid : \E i \in 0..(TOTAL - 1) : CellOf(i) = key
<1> DEFINE R == REPETITIONS
<1> DEFINE C == Len(CASES)
<1>1. R \in Nat \ {0} /\ C \in Nat \ {0}
  BY RepetitionsAssumption, Sizes
<1>2. Len(MECHANISMS) = 5 /\ DOMAIN MECHANISMS = 1..5 /\ DOMAIN CASES = 1..C
  BY Sizes
<1>3. TOTAL = 5 * C * R
  BY <1>2 DEF TOTAL
<1>4. PICK X \in Nat \ {0} : X = C * R
  BY <1>1
<1>5. TOTAL = X * 5 /\ TOTAL \in Nat \ {0}
  BY <1>1, <1>3, <1>4
<1>6. \A i : CellOf(i) = <<MECHANISMS[(i % 5) + 1],
                          CASES[((i \div 5) \div R) + 1],
                          ((i \div 5) % R) + 1>>
  BY <1>2 DEF CellOf
<1>7. \A m \in 1..5, c \in 1..C, k \in 1..R :
            <<MECHANISMS[m], CASES[c], k>> \in Grid
  BY <1>2 DEF Grid, Range
<1> HIDE DEF R, C
<1>8. ASSUME NEW i \in 0..(TOTAL - 1)
      PROVE  CellOf(i) \in Grid
  <2>1. i \in Nat /\ i < X * 5
    BY <1>5
  <2>2. i \div 5 \in 0..(X - 1) /\ i % 5 \in 0..4
    BY <2>1, <1>4, DivBound
  <2> DEFINE j == i \div 5
  <2>3. j \in Nat /\ j < C * R
    BY <2>2, <1>4
  <2> HIDE DEF j
  <2>4. j \div R \in 0..(C - 1) /\ j % R \in 0..(R - 1)
    BY <2>3, <1>1, DivBound
  <2>5. (j \div R) + 1 \in 1..C /\ (j % R) + 1 \in 1..R
    BY <2>4, <1>1
  <2>6. (i % 5) + 1 \in 1..5
    BY <2>2
  <2>7. CellOf(i) = <<MECHANISMS[(i % 5) + 1], CASES[(j \div R) + 1],
                      (j % R) + 1>>
    BY <1>6 DEF j
  <2> QED
    BY <2>5, <2>6, <2>7, <1>7
<1>9. ASSUME NEW key \in Grid
      PROVE  \E i \in 0..(TOTAL - 1) : CellOf(i) = key
  <2>1. PICK m \in 1..5, c \in 1..C, k \in 1..R :
               key = <<MECHANISMS[m], CASES[c], k>>
    BY <1>2 DEF Grid, Range, R
  <2> DEFINE j == (c - 1) * R + (k - 1)
  <2> DEFINE i == j * 5 + (m - 1)
  <2>2. c - 1 \in Nat /\ k - 1 \in Nat /\ k - 1 < R
    BY <1>1
  <2>3. j \div R = c - 1 /\ j % R = k - 1
    BY <2>2, <1>1, DivModUnique
  <2>4. j \in Nat /\ j < X
    <3>1. (c - 1) * R \in Nat /\ (c - 1) * R <= (C - 1) * R
      BY <1>1, <2>2
    <3>2. (C - 1) * R = X - R
      BY <1>1, <1>4
    <3> QED
      BY <3>1, <3>2, <2>2, <1>1, <1>4
  <2> HIDE DEF j
  <2>5. i \div 5 = j /\ i % 5 = m - 1
    BY <2>4, DivModUnique
  <2>6. i \in 0..(TOTAL - 1)
    BY <2>4, <1>5, <1>4
  <2>7. /\ (i % 5) + 1 = m /\ ((i \div 5) \div R) + 1 = c
        /\ ((i \div 5) % R) + 1 = k
    BY <2>3, <2>5, <1>1
  <2> HIDE DEF i
  <2>8. CellOf(i) = key
    BY <2>7, <2>1, <1>6
  <2> QED
    BY <2>6, <2>8
<1> QED
  BY <1>5, <1>8, <1>9

\* The lines of the whole grid, one by one.
LEMMA LinesOfAll ==
    ASSUME experiment \in {"s5", "s6"}
    PROVE  Lines(Grid) = [j \in 1..TOTAL |->
               run_one(CellOf(j - 1)[1], CellOf(j - 1)[2], CellOf(j - 1)[3])]
<1> DEFINE present == {i \in 0..(TOTAL - 1) : CellOf(i) \in Grid}
<1> DEFINE place(j) == CHOOSE i \in present :
                          Cardinality({k \in present : k < i}) = j - 1
<1> DEFINE row(key) == run_one(key[1], key[2], key[3])
<1>1. TOTAL \in Nat \ {0} /\ present = 0..(TOTAL - 1)
  BY CellsAreGrid
<1>2. Cardinality(present) = TOTAL
  <2>1. 0 \in Int /\ TOTAL - 1 \in Int /\ ~(0 > TOTAL - 1)
    BY <1>1
  <2>2. Cardinality(0..(TOTAL - 1)) = (TOTAL - 1) - 0 + 1
    BY <2>1, FS_Interval
  <2>3. Cardinality(present) = Cardinality(0..(TOTAL - 1))
    BY <1>1, Zenon
  <2> HIDE DEF present
  <2> QED
    BY <1>1, <2>2, <2>3
<1>3. ASSUME NEW i \in present
      PROVE  Cardinality({k \in present : k < i}) = i
  <2>1. {k \in present : k < i} = 0..(i - 1)
    BY <1>1
  <2>2. i \in Nat /\ Cardinality(0..(i - 1)) = i
    BY <1>1, FS_Interval
  <2> QED
    BY <2>1, <2>2
<1>4. ASSUME NEW j \in 1..TOTAL
      PROVE  place(j) = j - 1
  <2>1. j - 1 \in present
    BY <1>1
  <2>2. /\ place(j) \in present
        /\ Cardinality({k \in present : k < place(j)}) = j - 1
    BY <2>1, <1>3
  <2> QED
    BY <2>2, <1>3
<1>5. Lines(Grid) = [j \in 1..Cardinality(present) |-> row(CellOf(place(j)))]
  BY DEF Lines
<1> HIDE DEF present, place, row
<1>6. Lines(Grid) = [j \in 1..TOTAL |-> row(CellOf(j - 1))]
  BY <1>2, <1>4, <1>5
<1> QED
  BY <1>6 DEF row

(* The lines of the whole grid are the rows of an undisturbed campaign,    *)
(* one for each key.                                                       *)
LEMMA LinesAreGenuine ==
    ASSUME experiment \in {"s5", "s6"}
    PROVE  Genuine(Lines(Grid)) /\ Keys(Lines(Grid)) = Grid
<1> DEFINE rows == Lines(Grid)
<1> DEFINE row(key) == run_one(key[1], key[2], key[3])
<1>1. TOTAL \in Nat /\ rows = [j \in 1..TOTAL |-> row(CellOf(j - 1))]
  BY LinesOfAll, CellsAreGrid
<1>2. \A j \in 1..TOTAL : CellOf(j - 1) \in Grid
  BY <1>1, CellsAreGrid
<1>3. \A key \in Grid : \E j \in 1..TOTAL : CellOf(j - 1) = key
  <2> SUFFICES ASSUME NEW key \in Grid
               PROVE  \E j \in 1..TOTAL : CellOf(j - 1) = key
    OBVIOUS
  <2>1. PICK i \in 0..(TOTAL - 1) : CellOf(i) = key
    BY CellsAreGrid
  <2>2. i + 1 \in 1..TOTAL /\ (i + 1) - 1 = i
    BY <1>1
  <2> QED
    BY <2>1, <2>2
<1>4. \A key \in Grid : key = <<key[1], key[2], key[3]>>
  BY DEF Grid
<1>5. \A key \in Grid : Key(row(key)) = key
  BY <1>4, RecordKey
<1>6. Measured[experiment] = {row(key) : key \in Grid}
  <2>1. CASE experiment = "s5"
    <3>1. Measured[experiment] =
             {S5!run_one(m, c, k) : m \in Range(S5!MECHANISMS),
                 c \in Range(S5!CASES), k \in 1..REPETITIONS}
      BY <2>1 DEF Measured
    <3>2. Grid = {<<m, c, k>> : m \in Range(S5!MECHANISMS),
                    c \in Range(S5!CASES), k \in 1..REPETITIONS}
      BY <2>1 DEF Grid, MECHANISMS, CASES
    <3>3. \A m, c, k : row(<<m, c, k>>) = S5!run_one(m, c, k)
      BY <2>1 DEF run_one
    <3> HIDE DEF row
    <3>4. ASSUME NEW x \in Measured[experiment]
          PROVE  x \in {row(key) : key \in Grid}
      <4>1. PICK m \in Range(S5!MECHANISMS), c \in Range(S5!CASES),
                 k \in 1..REPETITIONS : x = S5!run_one(m, c, k)
        BY <3>1
      <4>2. <<m, c, k>> \in Grid /\ x = row(<<m, c, k>>)
        BY <4>1, <3>2, <3>3
      <4> QED
        BY <4>2
    <3>5. ASSUME NEW key \in Grid
          PROVE  row(key) \in Measured[experiment]
      <4>1. PICK m \in Range(S5!MECHANISMS), c \in Range(S5!CASES),
                 k \in 1..REPETITIONS : key = <<m, c, k>>
        BY <3>2
      <4>2. row(key) = S5!run_one(m, c, k)
        BY <4>1, <3>3
      <4> QED
        BY <4>2, <3>1
    <3> QED
      BY <3>4, <3>5
  <2>2. CASE experiment = "s6"
    <3>1. Measured[experiment] =
             {S6!run_one(m, c, k) : m \in Range(S6!MECHANISMS),
                 c \in Range(S6!CASES), k \in 1..REPETITIONS}
      BY <2>2 DEF Measured
    <3>2. Grid = {<<m, c, k>> : m \in Range(S6!MECHANISMS),
                    c \in Range(S6!CASES), k \in 1..REPETITIONS}
      BY <2>2 DEF Grid, MECHANISMS, CASES
    <3>3. \A m, c, k : row(<<m, c, k>>) = S6!run_one(m, c, k)
      BY <2>2 DEF run_one
    <3> HIDE DEF row
    <3>4. ASSUME NEW x \in Measured[experiment]
          PROVE  x \in {row(key) : key \in Grid}
      <4>1. PICK m \in Range(S6!MECHANISMS), c \in Range(S6!CASES),
                 k \in 1..REPETITIONS : x = S6!run_one(m, c, k)
        BY <3>1
      <4>2. <<m, c, k>> \in Grid /\ x = row(<<m, c, k>>)
        BY <4>1, <3>2, <3>3
      <4> QED
        BY <4>2
    <3>5. ASSUME NEW key \in Grid
          PROVE  row(key) \in Measured[experiment]
      <4>1. PICK m \in Range(S6!MECHANISMS), c \in Range(S6!CASES),
                 k \in 1..REPETITIONS : key = <<m, c, k>>
        BY <3>2
      <4>2. row(key) = S6!run_one(m, c, k)
        BY <4>1, <3>3
      <4> QED
        BY <4>2, <3>1
    <3> QED
      BY <3>4, <3>5
  <2> QED
    BY <2>1, <2>2
<1> HIDE DEF rows, row
<1>7. Len(rows) = TOTAL /\ DOMAIN rows = 1..TOTAL
  BY <1>1
<1>8. Range(rows) = {row(key) : key \in Grid}
  BY <1>1, <1>2, <1>3, <1>7 DEF Range
<1>9. Keys(rows) = Grid
  BY <1>1, <1>2, <1>3, <1>5, <1>7 DEF Keys
<1> QED
  BY <1>6, <1>7, <1>8, <1>9 DEF Genuine, rows

-----------------------------------------------------------------------------
(* The invariant.                                                          *)

(* Phases of a run: it has made its output; it works in the scratch        *)
(* directory; it has no rows yet; its partial file is open.                *)
Past == {"scratch", "open", "warmup", "measure", "checkpoint",
         "write_checkpoint", "publish", "summary", "cleanup"}
Inside == Past \ {"scratch"}
Before == {"start", "mkdir", "scratch", "open"}
Loop == {"warmup", "measure", "checkpoint", "write_checkpoint", "publish"}
STEPS == {"start", "mkdir"} \cup Past \cup Ended

TypeInv ==
    /\ experiment \in {"s5", "s6"}
    /\ pc \in [Runs -> STEPS]
    /\ output \in [Runs -> Outputs]
    /\ at \in [Runs -> [case : 1..Len(CASES), repetition : 1..REPETITIONS,
                        left : Seq(1..5)]]
    /\ records \in [Runs -> SUBSET Grid]
    /\ files = [path \in DOMAIN files |-> files[path]]

(* The two mkdir calls are locks: an output and the scratch directory have *)
(* one live run each.                                                      *)
LockInv ==
    \A q, s \in Runs :
        /\ pc[q] \in Past /\ pc[s] \in Past /\ output[q] = output[s] => q = s
        /\ pc[q] \in Inside /\ pc[s] \in Inside => q = s

\* The keys hold every mechanism and repetition of the first n cases.
HasCases(mechanisms, cases, keys, n) ==
    \A m \in 1..5, i \in 1..n, k \in 1..REPETITIONS :
        <<mechanisms[m], cases[i], k>> \in keys

(* What a run has measured where it is.  Repetitions before the present    *)
(* one are whole, and of the present one only the mechanisms left lack.    *)
Reached(r) ==
    LET where == at[r]
        Has(m, k) == <<MECHANISMS[m], CASES[where.case], k>> \in records[r]
        Whole(n) == HasCases(MECHANISMS, CASES, records[r], n)
    IN  /\ pc[r] \in {"warmup", "measure"} => Whole(where.case - 1)
        /\ pc[r] = "measure" =>
              /\ where.left # <<>>
              /\ \A m \in 1..5, k \in 1..(where.repetition - 1) : Has(m, k)
              /\ \A m \in 1..5 :
                    m \in Range(where.left) \/ Has(m, where.repetition)
        /\ pc[r] \in {"checkpoint", "write_checkpoint"} => Whole(where.case)
        /\ pc[r] = "publish" => Whole(Len(CASES))

\* No run has come as far as to write rows into the output.
Fresh(o) == {Partial(o), Raw(o), Checkpoint(o)} \cap DOMAIN files = {}

RunInv(r) ==
    /\ pc[r] \in Before => at[r].case = 1 /\ records[r] = {}
    /\ pc[r] \in Inside => Exists(files, Scratch)
    /\ pc[r] \in Past => Exists(files, Dir(output[r]))
    /\ pc[r] \in {"scratch", "open"} => Fresh(output[r])
    /\ pc[r] \in Loop =>
          /\ ~Exists(files, Raw(output[r]))
          /\ Exists(files, Partial(output[r]))
          /\ files[Partial(output[r])] = [rows |-> records[r], torn |-> FALSE]
    /\ Reached(r)

\* What is durable in an output bears its checkpoint out.
OutputInv(o) ==
    /\ ~Exists(files, Dir(o)) => Fresh(o)
    /\ Exists(files, Checkpoint(o)) /\ damaged # o =>
          LET point == files[Checkpoint(o)]
          IN  /\ point.measured_runs \in Nat
              /\ point.measured_runs <= Cardinality(DurableRows(o))
              /\ DurableRows(o) \subseteq Grid
              /\ HasCases(MECHANISMS, CASES, DurableRows(o),
                          point.completed_cases)

IInv ==
    /\ TypeInv /\ LockInv
    /\ \A r \in Runs : RunInv(r)
    /\ \A o \in Outputs : OutputInv(o)

-----------------------------------------------------------------------------
(* A step of one run disturbs neither the other runs nor other outputs.    *)

\* The step leaves the path as it is.
Same(path) ==
    /\ Exists(files', path) <=> Exists(files, path)
    /\ Exists(files, path) => files'[path] = files[path]

KeyPaths(o) == {Dir(o), Partial(o), Raw(o), Checkpoint(o)}

\* Which experiment is run never changes, nor do its tables.
LEMMA SameExperiment ==
    ASSUME experiment' = experiment
    PROVE  MECHANISMS' = MECHANISMS /\ CASES' = CASES /\ Grid' = Grid
  BY DEF MECHANISMS, CASES, Grid

\* A run that stays where it is, while its files do.
LEMMA OtherRunKeeps ==
    ASSUME NEW q \in Runs, RunInv(q),
           experiment' = experiment, pc'[q] = pc[q], output'[q] = output[q],
           at'[q] = at[q], records'[q] = records[q],
           pc[q] \in Past => \A p \in KeyPaths(output[q]) : Same(p),
           pc[q] \in Inside => Exists(files', Scratch)
    PROVE  RunInv(q)'
<1>1. MECHANISMS' = MECHANISMS /\ CASES' = CASES
  BY SameExperiment
<1>2. Reached(q)'
  BY <1>1 DEF RunInv, Reached
<1>3. pc[q] \in {"scratch", "open"} => Fresh(output[q])'
  BY DEF RunInv, Fresh, Same, KeyPaths, Past, Exists
<1>4. pc[q] \in Past => Exists(files', Dir(output[q]))
  BY DEF RunInv, Same, KeyPaths
<1>5. pc[q] \in Loop =>
          /\ ~Exists(files', Raw(output[q]))
          /\ Exists(files', Partial(output[q]))
          /\ files'[Partial(output[q])] = [rows |-> records[q], torn |-> FALSE]
  BY DEF RunInv, Same, KeyPaths, Loop, Past
<1> QED
  BY <1>2, <1>3, <1>4, <1>5 DEF RunInv

\* An output whose files stay as they are.
LEMMA OtherOutputKeeps ==
    ASSUME NEW o \in Outputs, OutputInv(o), experiment' = experiment,
           damaged' # o => damaged # o,
           \A p \in KeyPaths(o) : Same(p)
    PROVE  OutputInv(o)'
<1>1. MECHANISMS' = MECHANISMS /\ CASES' = CASES /\ Grid' = Grid
  BY SameExperiment
<1>2. Exists(files', Dir(o)) <=> Exists(files, Dir(o))
  BY DEF Same, KeyPaths
<1>3. Fresh(o) => Fresh(o)'
  BY DEF Fresh, Same, KeyPaths, Exists
<1>4. DurableRows(o)' = DurableRows(o)
  BY DEF DurableRows, Same, KeyPaths
<1>5. /\ Exists(files', Checkpoint(o)) <=> Exists(files, Checkpoint(o))
      /\ Exists(files, Checkpoint(o)) =>
            files'[Checkpoint(o)] = files[Checkpoint(o)]
  BY DEF Same, KeyPaths
<1> QED
  BY <1>1, <1>2, <1>3, <1>4, <1>5 DEF OutputInv

(* A step of run r keeps the invariant if it keeps the run's own part,     *)
(* touches no other output, and takes a lock only when it is free.         *)
LEMMA StepKeeps ==
    ASSUME IInv, NEW r \in Runs, NEW s \in STEPS,
           experiment' = experiment, output' = output, damaged' = damaged,
           pc' = [pc EXCEPT ![r] = s],
           at' \in [Runs -> [case : 1..Len(CASES), repetition : 1..REPETITIONS,
                             left : Seq(1..5)]],
           \A q \in Runs \ {r} : at'[q] = at[q],
           records' \in [Runs -> SUBSET Grid],
           \A q \in Runs \ {r} : records'[q] = records[q],
           files' = [path \in DOMAIN files' |-> files'[path]],
           \A o \in Outputs \ {output[r]} : \A p \in KeyPaths(o) : Same(p),
           \/ files' = files
           \/ pc[r] \in Past
           \/ ~Exists(files, Dir(output[r])),
           s \in Past => pc[r] \in Past \/ ~Exists(files, Dir(output[r])),
           s \in Inside => pc[r] \in Inside \/ ~Exists(files, Scratch),
           \/ pc[r] \in Inside
           \/ Exists(files, Scratch) => Exists(files', Scratch),
           RunInv(r)', OutputInv(output[r])'
    PROVE  IInv'
<1>1. /\ experiment \in {"s5", "s6"} /\ pc \in [Runs -> STEPS]
      /\ output \in [Runs -> Outputs]
  BY DEF IInv, TypeInv
<1>2. CASES' = CASES /\ Grid' = Grid
  BY SameExperiment
<1>3. pc'[r] = s /\ \A q \in Runs \ {r} : pc'[q] = pc[q]
  BY <1>1
<1>4. TypeInv'
  BY <1>1, <1>2 DEF TypeInv
<1>5. ASSUME NEW q \in Runs \ {r}
      PROVE  RunInv(q)'
  <2>1. RunInv(q) /\ RunInv(r)
    BY DEF IInv
  <2>2. ASSUME pc[q] \in Past
        PROVE  \A p \in KeyPaths(output[q]) : Same(p)
    <3>1. CASE output[q] # output[r]
      BY <3>1, <1>1
    <3>2. CASE output[q] = output[r]
      <4>1. pc[r] \notin Past
        BY <2>2, <3>2 DEF IInv, LockInv
      <4>2. Exists(files, Dir(output[r]))
        BY <2>1, <2>2, <3>2 DEF RunInv
      <4>3. files' = files
        BY <4>1, <4>2
      <4> QED
        BY <4>3 DEF Same
    <3> QED
      BY <3>1, <3>2
  <2>3. ASSUME pc[q] \in Inside
        PROVE  Exists(files', Scratch)
    <3>1. pc[r] \notin Inside
      BY <2>3 DEF IInv, LockInv
    <3>2. Exists(files, Scratch)
      BY <2>1, <2>3 DEF RunInv
    <3> QED
      BY <3>1, <3>2
  <2> QED
    BY <2>1, <2>2, <2>3, <1>3, OtherRunKeeps
<1>6. \A q \in Runs : RunInv(q)'
  BY <1>5
<1>7. ASSUME NEW o \in Outputs
      PROVE  OutputInv(o)'
  <2>1. CASE o = output[r]
    BY <2>1
  <2>2. CASE o # output[r]
    <3>1. OutputInv(o)
      BY DEF IInv
    <3> QED
      BY <2>2, <3>1, OtherOutputKeeps
  <2> QED
    BY <2>1, <2>2
<1>8. ASSUME NEW q \in Runs \ {r}
      PROVE  /\ ~(pc'[q] \in Past /\ s \in Past /\ output[q] = output[r])
             /\ ~(pc'[q] \in Inside /\ s \in Inside)
  <2>1. RunInv(q) /\ pc'[q] = pc[q]
    BY <1>3 DEF IInv
  <2>2. pc[q] \in Past /\ output[q] = output[r] =>
           pc[r] \notin Past /\ Exists(files, Dir(output[r]))
    BY <2>1 DEF IInv, LockInv, RunInv
  <2>3. pc[q] \in Inside => pc[r] \notin Inside /\ Exists(files, Scratch)
    BY <2>1 DEF IInv, LockInv, RunInv
  <2> QED
    BY <2>1, <2>2, <2>3
<1>9. LockInv'
  <2> SUFFICES ASSUME NEW q \in Runs, NEW t \in Runs, q # t
               PROVE  /\ ~(/\ pc'[q] \in Past /\ pc'[t] \in Past
                           /\ output[q] = output[t])
                      /\ ~(pc'[q] \in Inside /\ pc'[t] \in Inside)
    BY DEF LockInv
  <2>1. CASE q = r
    BY <2>1, <1>3, <1>8
  <2>2. CASE t = r
    BY <2>2, <1>3, <1>8
  <2>3. CASE q # r /\ t # r
    BY <2>3, <1>3 DEF IInv, LockInv
  <2> QED
    BY <2>1, <2>2, <2>3
<1> QED
  BY <1>4, <1>6, <1>7, <1>9 DEF IInv

-----------------------------------------------------------------------------
(* The steps of a campaign.                                                *)

\* What a written path leaves ...
LEMMA PutStep ==
    ASSUME NEW path, NEW content, files' = Put(files, path, content)
    PROVE  /\ files' = [p \in DOMAIN files' |-> files'[p]]
           /\ Exists(files', path) /\ files'[path] = content
           /\ \A p : p # path => Same(p)
           /\ \A p : Exists(files, p) => Exists(files', p)
  BY DEF Put, Exists, Same

\* ... and a removed path.
LEMMA WithoutStep ==
    ASSUME NEW path, files' = Without(files, {path})
    PROVE  /\ files' = [p \in DOMAIN files' |-> files'[p]]
           /\ ~Exists(files', path)
           /\ \A p : p # path => Same(p)
  BY DEF Without, Restrict, Exists, Same

\* Nothing is written.
LEMMA UnchangedStep ==
    ASSUME files' = files
    PROVE  \A p : Same(p)
  BY DEF Same

\* A step that ends a run, or lets it go on to mkdir, and writes nothing.
LEMMA QuietKeeps ==
    ASSUME IInv, NEW r \in Runs, NEW s \in Ended \cup {"mkdir"},
           s = "mkdir" => pc[r] = "start",
           pc' = [pc EXCEPT ![r] = s],
           files' = files, UNCHANGED <<experiment, locals, resultVars>>
    PROVE  IInv'
<1>1. pc \in [Runs -> STEPS] /\ output[r] \in Outputs
  BY DEF IInv, TypeInv
<1>2. \A p : Same(p)
  BY UnchangedStep
<1>3. OutputInv(output[r])'
  BY <1>1, <1>2, OtherOutputKeeps DEF IInv, locals, resultVars
<1>4. s \in STEPS /\ s \notin Past /\ s \notin Inside /\ s \notin Loop
      /\ (s \in Before => pc[r] \in Before)
  BY DEF STEPS, Past, Inside, Loop, Ended, Before
<1>5. pc'[r] = s
  BY <1>1
<1>6. Reached(r)'
  BY <1>4, <1>5 DEF Reached, Ended
<1>7. RunInv(r)'
  <2>1. s \notin {"scratch", "open"}
    BY DEF Ended
  <2>2. RunInv(r)
    BY DEF IInv
  <2> QED
    BY <1>4, <1>5, <1>6, <2>1, <2>2 DEF RunInv, locals
<1>8. /\ at \in [Runs -> [case : 1..Len(CASES), repetition : 1..REPETITIONS,
                          left : Seq(1..5)]]
      /\ records \in [Runs -> SUBSET Grid]
      /\ files = [path \in DOMAIN files |-> files[path]]
  BY DEF IInv, TypeInv
<1> QED
  BY <1>2, <1>3, <1>4, <1>7, <1>8, StepKeeps DEF locals, resultVars

\* The existence checks at the start.
LEMMA CheckPathsKeeps ==
    ASSUME IInv, NEW r \in Runs, CheckPaths(r), UNCHANGED resultVars
    PROVE  IInv'
<1>1. PICK s \in {"refused", "mkdir"} : pc' = [pc EXCEPT ![r] = s]
  BY DEF CheckPaths, Step, Goto
<1> QED
  BY <1>1, QuietKeeps DEF CheckPaths, Step, Ended

\* An exception or a kill between two steps.
LEMMA StopKeeps ==
    ASSUME IInv, NEW r \in Runs, Stop(r), UNCHANGED resultVars
    PROVE  IInv'
  BY QuietKeeps DEF Stop, Goto, Ended

\* mkdir of the output takes its lock, and finds it empty.
LEMMA MakeOutputKeeps ==
    ASSUME IInv, NEW r \in Runs, MakeOutput(r), UNCHANGED resultVars
    PROVE  IInv'
<1>0. PICK o \in Outputs : output[r] = o
  BY DEF IInv, TypeInv
<1>1. pc \in [Runs -> STEPS] /\ RunInv(r) /\ OutputInv(o)
  BY DEF IInv, TypeInv
<1>2. CASE Exists(files, Dir(o))
  BY <1>0, <1>2, QuietKeeps DEF MakeOutput, Step, Goto, Ended
<1>3. CASE ~Exists(files, Dir(o))
  <2>1. /\ pc[r] = "mkdir" /\ pc' = [pc EXCEPT ![r] = "scratch"]
        /\ files' = Put(files, Dir(o), {})
        /\ UNCHANGED <<experiment, output, at, records, damaged>>
    BY <1>0, <1>3 DEF MakeOutput, Step, Goto, locals, resultVars
  <2>2. /\ files' = [p \in DOMAIN files' |-> files'[p]]
        /\ Exists(files', Dir(o))
        /\ \A p : p # Dir(o) => Same(p)
        /\ \A p : Exists(files, p) => Exists(files', p)
    BY <2>1, PutStep
  <2>3. Fresh(o)'
    <3>1. Fresh(o)
      BY <1>1, <1>3 DEF OutputInv
    <3>2. Same(Partial(o)) /\ Same(Raw(o)) /\ Same(Checkpoint(o))
      BY <1>1, <2>2, Paths
    <3> QED
      BY <3>1, <3>2 DEF Fresh, Same, Exists
  <2>4. OutputInv(o)'
    BY <2>2, <2>3 DEF OutputInv, Fresh, Exists
  <2>5. pc'[r] = "scratch" /\ output'[r] = o
    BY <1>0, <1>1, <2>1
  <2>6. RunInv(r)'
    <3>1. Reached(r)'
      BY <2>5 DEF Reached
    <3>2. at'[r].case = 1 /\ records'[r] = {}
      BY <1>1, <2>1 DEF RunInv, Before
    <3> QED
      BY <2>2, <2>3, <2>5, <3>1, <3>2 DEF RunInv, Inside, Loop
  <2>7. \A p \in Outputs \ {o} : \A path \in KeyPaths(p) : Same(path)
    BY <1>1, <2>2, Paths DEF KeyPaths
  <2>8. "scratch" \in STEPS /\ "scratch" \notin Inside
    BY DEF STEPS, Past, Inside
  <2>9. TypeInv
    BY DEF IInv
  <2> QED
    BY <1>0, <1>3, <2>1, <2>2, <2>4, <2>6, <2>7, <2>8, <2>9, StepKeeps
    DEF TypeInv
<1> QED
  BY <1>2, <1>3

\* mkdir of the scratch directory takes the other lock.
LEMMA MakeScratchKeeps ==
    ASSUME IInv, NEW r \in Runs, MakeScratch(r), UNCHANGED resultVars
    PROVE  IInv'
<1>0. PICK o \in Outputs : output[r] = o
  BY DEF IInv, TypeInv
<1>1. pc \in [Runs -> STEPS] /\ RunInv(r) /\ OutputInv(o)
  BY DEF IInv, TypeInv
<1>2. CASE Exists(files, Scratch)
  BY <1>0, <1>2, QuietKeeps DEF MakeScratch, Step, Goto, Ended
<1>3. CASE ~Exists(files, Scratch)
  <2>1. /\ pc[r] = "scratch" /\ pc' = [pc EXCEPT ![r] = "open"]
        /\ files' = Put(files, Scratch, {})
        /\ UNCHANGED <<experiment, output, at, records, damaged>>
    BY <1>0, <1>3 DEF MakeScratch, Step, Goto, locals, resultVars
  <2>2. /\ files' = [p \in DOMAIN files' |-> files'[p]]
        /\ Exists(files', Scratch)
        /\ \A p : p # Scratch => Same(p)
    BY <2>1, PutStep
  <2>3. \A p \in Outputs : \A path \in KeyPaths(p) : Same(path)
    BY <2>2, Paths DEF KeyPaths
  <2>4. OutputInv(o)'
    BY <1>1, <2>1, <2>3, OtherOutputKeeps
  <2>5. pc'[r] = "open" /\ output'[r] = o
    BY <1>0, <1>1, <2>1
  <2>6. pc[r] \in Past \cap Before /\ "open" \in Past \cap Before
    BY <2>1 DEF Past, Before
  <2>7. RunInv(r)'
    <3>1. Reached(r)'
      BY <2>5 DEF Reached
    <3>2. at'[r].case = 1 /\ records'[r] = {}
      BY <1>0, <1>1, <2>1, <2>6 DEF RunInv
    <3>3. Fresh(o) /\ Exists(files, Dir(o))
      BY <1>0, <1>1, <2>1, <2>6 DEF RunInv
    <3>4. Fresh(o)' /\ Exists(files', Dir(o))
      BY <3>3, <2>3, <1>1 DEF Fresh, Same, Exists, KeyPaths
    <3> QED
      BY <2>2, <2>5, <3>1, <3>2, <3>4 DEF RunInv, Loop
  <2>8. "open" \in STEPS
    BY DEF STEPS, Past
  <2>9. TypeInv
    BY DEF IInv
  <2> QED
    BY <1>0, <1>3, <2>1, <2>2, <2>3, <2>4, <2>6, <2>7, <2>8, <2>9, StepKeeps
    DEF TypeInv
<1> QED
  BY <1>2, <1>3

\* The same for a run that holds both locks.
LEMMA InsideKeeps ==
    ASSUME IInv, NEW r \in Runs, NEW s \in STEPS, NEW o \in Outputs,
           output[r] = o, pc[r] \in Inside,
           experiment' = experiment, output' = output, damaged' = damaged,
           pc' = [pc EXCEPT ![r] = s],
           at' \in [Runs -> [case : 1..Len(CASES), repetition : 1..REPETITIONS,
                             left : Seq(1..5)]],
           \A q \in Runs \ {r} : at'[q] = at[q],
           records' \in [Runs -> SUBSET Grid],
           \A q \in Runs \ {r} : records'[q] = records[q],
           files' = [path \in DOMAIN files' |-> files'[path]],
           \A p \in Outputs \ {o} : \A path \in KeyPaths(p) : Same(path),
           RunInv(r)', OutputInv(o)'
    PROVE  IInv'
<1>1. pc[r] \in Past
  BY DEF Inside
<1>2. OutputInv(output[r])'
  BY DEF OutputInv
<1> QED
  BY <1>1, StepKeeps

\* Where the phases of a run lie.
LEMMA InsideSteps ==
    /\ Inside \subseteq Past /\ Past \subseteq STEPS /\ Loop \subseteq Inside
    /\ {"open", "summary", "cleanup"} \subseteq Inside
  BY DEF Inside, Past, STEPS, Loop

\* The partial file starts with no rows, as the memory does.
LEMMA OpenPartialKeeps ==
    ASSUME IInv, NEW r \in Runs, OpenPartial(r), UNCHANGED resultVars
    PROVE  IInv'
<1>0. PICK o \in Outputs : output[r] = o
  BY DEF IInv, TypeInv
<1>1. pc \in [Runs -> STEPS] /\ RunInv(r) /\ OutputInv(o) /\ TypeInv
  BY DEF IInv, TypeInv
<1>2. /\ pc[r] = "open" /\ pc' = [pc EXCEPT ![r] = "warmup"]
      /\ files' = Put(files, Partial(o), [rows |-> {}, torn |-> FALSE])
      /\ UNCHANGED <<experiment, output, at, records, damaged>>
  BY <1>0 DEF OpenPartial, Step, Goto, locals, resultVars
<1>3. /\ files' = [p \in DOMAIN files' |-> files'[p]]
      /\ Exists(files', Partial(o))
      /\ files'[Partial(o)] = [rows |-> {}, torn |-> FALSE]
      /\ \A p : p # Partial(o) => Same(p)
      /\ \A p : Exists(files, p) => Exists(files', p)
  BY <1>2, PutStep
<1>4. /\ Exists(files, Dir(o)) /\ Exists(files, Scratch) /\ Fresh(o)
      /\ at[r].case = 1 /\ records[r] = {}
  BY <1>0, <1>1, <1>2, InsideSteps DEF RunInv, Before
<1>5. ~Exists(files', Raw(o)) /\ ~Exists(files', Checkpoint(o))
  BY <1>3, <1>4, Paths DEF Same, Fresh, Exists
<1>6. pc'[r] = "warmup"
  BY <1>1, <1>2
<1>7. RunInv(r)'
  <2>1. Reached(r)'
    BY <1>2, <1>4, <1>6 DEF Reached, HasCases
  <2>2. "warmup" \notin Before /\ "warmup" \notin {"scratch", "open"}
    BY DEF Before
  <2> QED
    BY <1>0, <1>2, <1>3, <1>4, <1>5, <1>6, <2>1, <2>2 DEF RunInv
<1>8. OutputInv(o)'
  BY <1>3, <1>4, <1>5 DEF OutputInv
<1>9. \A p \in Outputs \ {o} : \A path \in KeyPaths(p) : Same(path)
  BY <1>3, Paths DEF KeyPaths
<1>10. pc[r] \in Inside /\ "warmup" \in STEPS
  BY <1>2, InsideSteps DEF Loop
<1> QED
  BY <1>0, <1>1, <1>2, <1>3, <1>7, <1>8, <1>9, <1>10, InsideKeeps DEF TypeInv

\* An order leaves no mechanism out.
LEMMA OrderFacts ==
    ASSUME NEW order \in Orders
    PROVE  order \in Seq(1..5) /\ order # <<>> /\ Range(order) = 1..5
<1>1. order \in Seq(1..5) /\ Range(order) = 1..5
  BY OrdersAssumption
<1>2. 1 \in Range(order)
  BY <1>1
<1>3. order # <<>>
  BY <1>2 DEF Range
<1> QED
  BY <1>1, <1>3

\* The place of one run is changed to another possible one.
LEMMA PlaceStep ==
    ASSUME TypeInv, NEW r \in Runs, NEW k \in 1..REPETITIONS,
           NEW order \in Seq(1..5),
           at' = [at EXCEPT ![r].repetition = k, ![r].left = order]
    PROVE  /\ at'[r].case = at[r].case /\ at'[r].repetition = k
           /\ at'[r].left = order
           /\ \A q \in Runs \ {r} : at'[q] = at[q]
           /\ at' \in [Runs -> [case : 1..Len(CASES),
                                repetition : 1..REPETITIONS, left : Seq(1..5)]]
<1> DEFINE Place == [case : 1..Len(CASES), repetition : 1..REPETITIONS,
                     left : Seq(1..5)]
<1>1. at \in [Runs -> Place]
  BY DEF TypeInv
<1> DEFINE w == [at[r] EXCEPT !.repetition = k, !.left = order]
<1>2. /\ w \in Place
      /\ w.case = at[r].case /\ w.repetition = k /\ w.left = order
  BY <1>1
<1>3. at' = [at EXCEPT ![r] = w]
  OBVIOUS
<1> HIDE DEF w, Place
<1>4. /\ at' \in [Runs -> Place] /\ at'[r] = w
      /\ \A q \in Runs \ {r} : at'[q] = at[q]
  BY <1>1, <1>2, <1>3
<1> QED
  BY <1>2, <1>4 DEF Place

\* The warmups leave nothing, and the first repetition begins.
LEMMA WarmupKeeps ==
    ASSUME IInv, NEW r \in Runs, Warmup(r), UNCHANGED resultVars
    PROVE  IInv'
<1>0. PICK o \in Outputs : output[r] = o
  BY DEF IInv, TypeInv
<1>1. pc \in [Runs -> STEPS] /\ RunInv(r) /\ OutputInv(o) /\ TypeInv
  BY DEF IInv, TypeInv
<1>2. /\ pc[r] = "warmup" /\ pc' = [pc EXCEPT ![r] = "measure"]
      /\ files' = files
      /\ UNCHANGED <<experiment, output, records, damaged>>
  BY DEF Warmup, Step, Goto, resultVars
<1>3. PICK order \in Orders :
         at' = [at EXCEPT ![r].repetition = 1, ![r].left = order]
  BY DEF Warmup
<1>4. order \in Seq(1..5) /\ order # <<>> /\ Range(order) = 1..5
  BY OrderFacts
<1>5. /\ at'[r].case = at[r].case /\ at'[r].repetition = 1
      /\ at'[r].left = order
      /\ \A q \in Runs \ {r} : at'[q] = at[q]
      /\ at' \in [Runs -> [case : 1..Len(CASES), repetition : 1..REPETITIONS,
                           left : Seq(1..5)]]
  <2>1. 1 \in 1..REPETITIONS
    BY RepetitionsAssumption
  <2> QED
    BY <1>1, <1>3, <1>4, <2>1, PlaceStep
<1>6. pc'[r] = "measure" /\ MECHANISMS' = MECHANISMS /\ CASES' = CASES
  BY <1>1, <1>2, SameExperiment
<1>7. Reached(r)'
  <2>1. HasCases(MECHANISMS, CASES, records[r], at[r].case - 1)
    BY <1>1, <1>2 DEF RunInv, Reached
  <2> QED
    BY <1>2, <1>4, <1>5, <1>6, <2>1 DEF Reached
<1>8. pc[r] \in Loop /\ "measure" \in Loop
      /\ "measure" \notin Before \cup {"scratch", "open"}
  BY <1>2 DEF Loop, Before
<1>9. RunInv(r)'
  BY <1>1, <1>2, <1>6, <1>7, <1>8, InsideSteps DEF RunInv
<1>10. \A p : Same(p)
  BY <1>2, UnchangedStep
<1>11. OutputInv(o)'
  BY <1>1, <1>2, <1>10, OtherOutputKeeps
<1>12. pc[r] \in Inside /\ "measure" \in STEPS
  BY <1>8, InsideSteps
<1> QED
  BY <1>0, <1>1, <1>2, <1>5, <1>9, <1>10, <1>11, <1>12, InsideKeeps
  DEF TypeInv

\* Without a checkpoint there is nothing to bear out.
LEMMA UnlinkCheckpointKeeps ==
    ASSUME IInv, NEW r \in Runs, UnlinkCheckpoint(r), UNCHANGED resultVars
    PROVE  IInv'
<1>0. PICK o \in Outputs : output[r] = o
  BY DEF IInv, TypeInv
<1>1. pc \in [Runs -> STEPS] /\ RunInv(r) /\ OutputInv(o) /\ TypeInv
  BY DEF IInv, TypeInv
<1>2. /\ pc[r] = "checkpoint" /\ pc' = [pc EXCEPT ![r] = "write_checkpoint"]
      /\ files' = Without(files, {Checkpoint(o)})
      /\ UNCHANGED <<experiment, output, at, records, damaged>>
  BY <1>0 DEF UnlinkCheckpoint, Step, Goto, locals, resultVars
<1>3. /\ files' = [p \in DOMAIN files' |-> files'[p]]
      /\ ~Exists(files', Checkpoint(o))
      /\ \A p : p # Checkpoint(o) => Same(p)
  BY <1>2, WithoutStep
<1>4. Same(Dir(o)) /\ Same(Partial(o)) /\ Same(Raw(o)) /\ Same(Scratch)
  BY <1>3, Paths
<1>5. pc'[r] = "write_checkpoint" /\ MECHANISMS' = MECHANISMS
      /\ CASES' = CASES
  BY <1>1, <1>2, SameExperiment
<1>6. pc[r] \in Loop /\ "write_checkpoint" \in Loop
      /\ "write_checkpoint" \notin Before \cup {"scratch", "open"}
  BY <1>2 DEF Loop, Before
<1>7. RunInv(r)'
  <2>1. Reached(r)'
    BY <1>1, <1>2, <1>5 DEF RunInv, Reached
  <2>2. /\ Exists(files', Scratch) /\ Exists(files', Dir(o))
        /\ ~Exists(files', Raw(o)) /\ Exists(files', Partial(o))
        /\ files'[Partial(o)] = [rows |-> records[r], torn |-> FALSE]
    BY <1>0, <1>1, <1>4, <1>6, InsideSteps DEF RunInv, Same
  <2> QED
    BY <1>0, <1>2, <1>5, <1>6, <2>1, <2>2 DEF RunInv
<1>8. OutputInv(o)'
  <2>1. Exists(files', Dir(o))
    BY <1>0, <1>1, <1>4, <1>6, InsideSteps DEF RunInv, Same
  <2> QED
    BY <1>3, <2>1 DEF OutputInv
<1>9. \A p \in Outputs \ {o} : \A path \in KeyPaths(p) : Same(path)
  BY <1>3, Paths DEF KeyPaths
<1>10. pc[r] \in Inside /\ "write_checkpoint" \in STEPS
  BY <1>6, InsideSteps
<1> QED
  BY <1>0, <1>1, <1>2, <1>3, <1>7, <1>8, <1>9, <1>10, InsideKeeps DEF TypeInv

\* The summary touches no rows.
LEMMA WriteSummaryKeeps ==
    ASSUME IInv, NEW r \in Runs, WriteSummary(r), UNCHANGED resultVars
    PROVE  IInv'
<1>0. PICK o \in Outputs : output[r] = o
  BY DEF IInv, TypeInv
<1>1. pc \in [Runs -> STEPS] /\ RunInv(r) /\ OutputInv(o) /\ TypeInv
  BY DEF IInv, TypeInv
<1>2. /\ pc[r] = "summary" /\ pc' = [pc EXCEPT ![r] = "cleanup"]
      /\ \E content : files' = Put(files, Summary(o), content)
      /\ UNCHANGED <<experiment, output, at, records, damaged>>
  BY <1>0 DEF WriteSummary, Step, Goto, locals, resultVars
<1>3. /\ files' = [p \in DOMAIN files' |-> files'[p]]
      /\ \A p : p # Summary(o) => Same(p)
      /\ \A p : Exists(files, p) => Exists(files', p)
  <2>1. PICK content : files' = Put(files, Summary(o), content)
    BY <1>2
  <2> QED
    BY <2>1, PutStep
<1>4. \A p \in Outputs : \A path \in KeyPaths(p) : Same(path)
  BY <1>3, Paths DEF KeyPaths
<1>5. pc'[r] = "cleanup"
  BY <1>1, <1>2
<1>6. RunInv(r)'
  <2>1. Reached(r)'
    BY <1>5 DEF Reached
  <2>2. "cleanup" \notin Before \cup Loop \cup {"scratch", "open"}
    BY DEF Before, Loop
  <2>3. Exists(files', Scratch) /\ Exists(files', Dir(o))
    BY <1>0, <1>1, <1>2, <1>3, InsideSteps DEF RunInv
  <2> QED
    BY <1>0, <1>2, <1>5, <2>1, <2>2, <2>3 DEF RunInv
<1>7. OutputInv(o)'
  BY <1>1, <1>2, <1>4, OtherOutputKeeps
<1>8. pc[r] \in Inside /\ "cleanup" \in STEPS
  BY <1>2, InsideSteps
<1> QED
  BY <1>0, <1>1, <1>2, <1>3, <1>4, <1>6, <1>7, <1>8, InsideKeeps DEF TypeInv

\* The scratch directory goes when its only user is done.
LEMMA RemoveScratchKeeps ==
    ASSUME IInv, NEW r \in Runs, RemoveScratch(r), UNCHANGED resultVars
    PROVE  IInv'
<1>0. PICK o \in Outputs : output[r] = o
  BY DEF IInv, TypeInv
<1>1. pc \in [Runs -> STEPS] /\ RunInv(r) /\ OutputInv(o) /\ TypeInv
  BY DEF IInv, TypeInv
<1>2. /\ pc[r] = "cleanup" /\ pc' = [pc EXCEPT ![r] = "done"]
      /\ files' = Without(files, {Scratch})
      /\ UNCHANGED <<experiment, output, at, records, damaged>>
  BY <1>0 DEF RemoveScratch, Step, Goto, locals, resultVars
<1>3. /\ files' = [p \in DOMAIN files' |-> files'[p]]
      /\ \A p : p # Scratch => Same(p)
  BY <1>2, WithoutStep
<1>4. \A p \in Outputs : \A path \in KeyPaths(p) : Same(path)
  BY <1>3, Paths DEF KeyPaths
<1>5. pc'[r] = "done"
  BY <1>1, <1>2
<1>6. RunInv(r)'
  <2>1. Reached(r)'
    BY <1>5 DEF Reached
  <2>2. "done" \notin Before \cup Past /\ "done" \in STEPS
    BY DEF Before, Past, STEPS, Ended
  <2> QED
    BY <1>5, <2>1, <2>2, InsideSteps DEF RunInv
<1>7. OutputInv(o)'
  BY <1>1, <1>2, <1>4, OtherOutputKeeps
<1>8. pc[r] \in Inside /\ "done" \in STEPS
  BY <1>2, InsideSteps DEF STEPS, Ended
<1> QED
  BY <1>0, <1>1, <1>2, <1>3, <1>4, <1>6, <1>7, <1>8, InsideKeeps DEF TypeInv

-----------------------------------------------------------------------------
(* The steps that make rows durable.                                       *)

\* The grid is finite, and more rows are not fewer.
LEMMA MoreRows ==
    ASSUME experiment \in {"s5", "s6"},
           NEW a \in SUBSET Grid, NEW b \in SUBSET a
    PROVE  /\ Cardinality(a) \in Nat /\ Cardinality(b) \in Nat
           /\ Cardinality(b) <= Cardinality(a)
<1>1. TOTAL \in Nat \ {0} /\ Grid = {CellOf(i) : i \in 0..(TOTAL - 1)}
  BY CellsAreGrid
<1>2. IsFiniteSet(0..(TOTAL - 1))
  <2>1. 0 \in Int /\ TOTAL - 1 \in Int
    BY <1>1
  <2> QED
    BY <2>1, FS_Interval
<1>3. [i \in 0..(TOTAL - 1) |-> CellOf(i)] \in Surjection(0..(TOTAL - 1), Grid)
  BY <1>1 DEF Surjection
<1>4. IsFiniteSet(Grid)
  BY <1>2, <1>3, FS_Surjection
<1>5. IsFiniteSet(a)
  BY <1>4, FS_Subset
<1>6. IsFiniteSet(b) /\ Cardinality(b) <= Cardinality(a)
  BY <1>5, FS_Subset
<1> QED
  BY <1>5, <1>6, FS_CardinalityType

\* Taking the first of a sequence loses only that.
LEMMA HeadTail ==
    ASSUME NEW left \in Seq(1..5), left # <<>>
    PROVE  /\ Head(left) \in 1..5 /\ Tail(left) \in Seq(1..5)
           /\ \A m \in Range(left) : m = Head(left) \/ m \in Range(Tail(left))
           /\ Tail(left) = <<>> => Range(Tail(left)) = {}
<1>1. Head(left) \in 1..5 /\ Tail(left) \in Seq(1..5) /\ Head(left) = left[1]
  OBVIOUS
<1>2. ASSUME NEW m \in Range(left), m # Head(left)
      PROVE  m \in Range(Tail(left))
  <2>1. PICK i \in DOMAIN left : left[i] = m
    BY DEF Range
  <2>2. i \in 2..Len(left)
    BY <1>1, <1>2, <2>1
  <2>3. i - 1 \in DOMAIN Tail(left) /\ Tail(left)[i - 1] = left[i]
    BY <2>2
  <2> QED
    BY <2>1, <2>3 DEF Range
<1>3. Tail(left) = <<>> => Range(Tail(left)) = {}
  BY DEF Range
<1> QED
  BY <1>1, <1>2, <1>3

\* A row is appended to a partial file.
LEMMA GrownFile ==
    ASSUME NEW keys, NEW row, NEW torn
    PROVE  [[rows |-> keys, torn |-> torn] EXCEPT !.rows = @ \cup {row}] =
               [rows |-> keys \cup {row}, torn |-> torn]
  OBVIOUS

(* A measured row: what was whole stays whole, and the mechanism is no     *)
(* longer missing; at the end of the last repetition the case is whole.    *)
LEMMA MeasureKeeps ==
    ASSUME IInv, NEW r \in Runs, Measure(r), UNCHANGED resultVars
    PROVE  IInv'
<1>0. PICK o \in Outputs : output[r] = o
  BY DEF IInv, TypeInv
<1>1. pc \in [Runs -> STEPS] /\ RunInv(r) /\ OutputInv(o) /\ TypeInv
  BY DEF IInv, TypeInv
<1> DEFINE Place == [case : 1..Len(CASES), repetition : 1..REPETITIONS,
                     left : Seq(1..5)]
<1>2. PICK w \in Place : at[r] = w
  BY <1>1 DEF TypeInv
<1>3. PICK keys \in SUBSET Grid : records[r] = keys
  BY <1>1 DEF TypeInv
<1>4. PICK row : row = <<MECHANISMS[Head(w.left)], CASES[w.case], w.repetition>>
  OBVIOUS
<1>5. PICK left : left = Tail(w.left)
  OBVIOUS
<1> DEFINE last == left = <<>> /\ w.repetition = REPETITIONS
<1> DEFINE s == IF last THEN "checkpoint" ELSE "measure"
<1>51. PICK more : more = keys \cup {row}
  OBVIOUS
<1>6. /\ pc[r] = "measure" /\ pc' = [pc EXCEPT ![r] = s]
      /\ files' = [files EXCEPT ![Partial(o)].rows = @ \cup {row}]
      /\ records' = [records EXCEPT ![r] = more]
      /\ IF left = <<>> /\ ~last
         THEN \E order \in Orders :
                 at' = [at EXCEPT ![r].repetition = @ + 1, ![r].left = order]
         ELSE at' = [at EXCEPT ![r].left = left]
      /\ UNCHANGED <<experiment, output, damaged>>
  BY <1>0, <1>2, <1>3, <1>4, <1>5, <1>51 DEF Measure, Step, Goto, resultVars
<1>7. /\ experiment \in {"s5", "s6"} /\ w.case \in 1..Len(CASES)
      /\ Len(CASES) \in Nat /\ w.case \in Nat \ {0}
      /\ w.repetition \in 1..REPETITIONS /\ w.left \in Seq(1..5)
  BY <1>1, <1>2, Sizes DEF TypeInv
<1>8. /\ w.left # <<>>
      /\ HasCases(MECHANISMS, CASES, keys, w.case - 1)
      /\ \A m \in 1..5, k \in 1..(w.repetition - 1) :
            <<MECHANISMS[m], CASES[w.case], k>> \in keys
      /\ \A m \in 1..5 :
            \/ m \in Range(w.left)
            \/ <<MECHANISMS[m], CASES[w.case], w.repetition>> \in keys
  BY <1>1, <1>2, <1>3, <1>6 DEF RunInv, Reached
<1>9. /\ HasCases(MECHANISMS, CASES, more, w.case - 1)
      /\ \A m \in 1..5, k \in 1..(w.repetition - 1) :
            <<MECHANISMS[m], CASES[w.case], k>> \in more
      /\ \A m \in 1..5 :
            \/ m \in Range(left)
            \/ <<MECHANISMS[m], CASES[w.case], w.repetition>> \in more
      /\ left = <<>> =>
            /\ \A m \in 1..5, k \in 1..w.repetition :
                  <<MECHANISMS[m], CASES[w.case], k>> \in more
            /\ w.repetition = REPETITIONS =>
                  HasCases(MECHANISMS, CASES, more, w.case)
  <2>1. more = keys \cup
               {<<MECHANISMS[Head(w.left)], CASES[w.case], w.repetition>>}
    BY <1>4, <1>51
  <2>2. /\ HasCases(MECHANISMS, CASES, more, w.case - 1)
        /\ \A m \in 1..5, k \in 1..(w.repetition - 1) :
              <<MECHANISMS[m], CASES[w.case], k>> \in more
        /\ \A m \in 1..5 :
              \/ m \in Range(Tail(w.left))
              \/ <<MECHANISMS[m], CASES[w.case], w.repetition>> \in more
        /\ Tail(w.left) = <<>> =>
              /\ \A m \in 1..5, k \in 1..w.repetition :
                    <<MECHANISMS[m], CASES[w.case], k>> \in more
              /\ w.repetition = REPETITIONS =>
                    HasCases(MECHANISMS, CASES, more, w.case)
    <3>1. PICK mechs, cases, c, rep, old :
             /\ mechs = MECHANISMS /\ cases = CASES /\ c = w.case
             /\ rep = w.repetition /\ old = w.left
      OBVIOUS
    <3>2. /\ c \in Nat \ {0} /\ rep \in 1..REPETITIONS
          /\ old \in Seq(1..5) /\ old # <<>>
          /\ HasCases(mechs, cases, keys, c - 1)
          /\ \A m \in 1..5, k \in 1..(rep - 1) :
                <<mechs[m], cases[c], k>> \in keys
          /\ \A m \in 1..5 :
                m \in Range(old) \/ <<mechs[m], cases[c], rep>> \in keys
      BY <3>1, <1>7, <1>8
    <3>3. more = keys \cup {<<mechs[Head(old)], cases[c], rep>>}
      BY <3>1, <2>1
    <3>4. /\ HasCases(mechs, cases, more, c - 1)
          /\ \A m \in 1..5, k \in 1..(rep - 1) :
                <<mechs[m], cases[c], k>> \in more
          /\ \A m \in 1..5 : \/ m \in Range(Tail(old))
                             \/ <<mechs[m], cases[c], rep>> \in more
          /\ Tail(old) = <<>> =>
                /\ \A m \in 1..5, k \in 1..rep :
                      <<mechs[m], cases[c], k>> \in more
                /\ rep = REPETITIONS => HasCases(mechs, cases, more, c)
      <4>1. HasCases(mechs, cases, more, c - 1)
        BY <3>2, <3>3 DEF HasCases
      <4>2. \A m \in 1..5, k \in 1..(rep - 1) :
               <<mechs[m], cases[c], k>> \in more
        BY <3>2, <3>3
      <4>3. \A m \in 1..5 : \/ m \in Range(Tail(old))
                            \/ <<mechs[m], cases[c], rep>> \in more
        BY <3>2, <3>3, HeadTail
      <4>4. ASSUME Tail(old) = <<>>
            PROVE  \A m \in 1..5, k \in 1..rep :
                      <<mechs[m], cases[c], k>> \in more
        <5>1. \A m \in 1..5 : <<mechs[m], cases[c], rep>> \in more
          BY <3>2, <4>3, <4>4, HeadTail
        <5>2. \A k \in 1..rep : k = rep \/ k \in 1..(rep - 1)
          BY <3>2, RepetitionsAssumption
        <5> QED
          BY <4>2, <5>1, <5>2
      <4>5. ASSUME Tail(old) = <<>>, rep = REPETITIONS
            PROVE  HasCases(mechs, cases, more, c)
        <5>1. \A i \in 1..c : i = c \/ i \in 1..(c - 1)
          BY <3>2
        <5> QED
          BY <4>1, <4>4, <4>5, <5>1 DEF HasCases
      <4> QED
        BY <4>1, <4>2, <4>3, <4>4, <4>5
    <3> QED
      BY <3>1, <3>4
  <2> QED
    BY <1>5, <2>2
<1>10. left \in Seq(1..5) /\ Head(w.left) \in 1..5
  BY <1>5, <1>7, <1>8, HeadTail
<1>11. more \in SUBSET Grid
  <2>1. row \in Grid
    BY <1>4, <1>7, <1>10, Sizes DEF Grid, Range
  <2> QED
    BY <1>51, <2>1
<1>12. records' \in [Runs -> SUBSET Grid] /\ records'[r] = more
       /\ \A q \in Runs \ {r} : records'[q] = records[q]
  BY <1>1, <1>6, <1>11 DEF TypeInv
<1>13. s \in STEPS /\ pc'[r] = s /\ pc[r] \in Loop /\ s \in Loop
       /\ s \notin Before \cup {"scratch", "open"}
  BY <1>1, <1>6 DEF STEPS, Past, Loop, Before
<1>14. MECHANISMS' = MECHANISMS /\ CASES' = CASES /\ Grid' = Grid
  BY <1>6, SameExperiment
<1>15. /\ at' \in [Runs -> Place]
       /\ \A q \in Runs \ {r} : at'[q] = at[q]
       /\ Reached(r)'
  <2>1. CASE left = <<>> /\ ~last
    <3>1. PICK order \in Orders :
             at' = [at EXCEPT ![r].repetition = @ + 1, ![r].left = order]
      BY <1>6, <2>1
    <3>2. at' = [at EXCEPT ![r].repetition = w.repetition + 1,
                           ![r].left = order]
      BY <3>1, <1>2
    <3>3. w.repetition + 1 \in 1..REPETITIONS
          /\ (w.repetition + 1) - 1 = w.repetition
      BY <1>7, <2>1, RepetitionsAssumption
    <3>4. order \in Seq(1..5) /\ order # <<>> /\ Range(order) = 1..5
      BY OrderFacts
    <3>5. /\ at'[r].case = w.case /\ at'[r].repetition = w.repetition + 1
          /\ at'[r].left = order
          /\ \A q \in Runs \ {r} : at'[q] = at[q]
          /\ at' \in [Runs -> Place]
      BY <1>1, <1>2, <3>2, <3>3, <3>4, PlaceStep
    <3>6. s = "measure"
      BY <2>1
    <3>7. Reached(r)'
      BY <1>9, <1>12, <1>13, <1>14, <2>1, <3>3, <3>4, <3>5, <3>6 DEF Reached
    <3> QED
      BY <3>5, <3>7
  <2>2. CASE ~(left = <<>> /\ ~last)
    <3>1. at' = [at EXCEPT ![r].left = left]
      BY <1>6, <2>2
    <3>2. at' = [at EXCEPT ![r].repetition = w.repetition, ![r].left = left]
      BY <3>1, <1>1, <1>2 DEF TypeInv
    <3>3. /\ at'[r].case = w.case /\ at'[r].repetition = w.repetition
          /\ at'[r].left = left
          /\ \A q \in Runs \ {r} : at'[q] = at[q]
          /\ at' \in [Runs -> Place]
      BY <1>1, <1>2, <3>2, <1>7, <1>10, PlaceStep
    <3>4. Reached(r)'
      <4>1. CASE last
        <5>1. s = "checkpoint" /\ HasCases(MECHANISMS, CASES, more, w.case)
          BY <4>1, <1>9
        <5> QED
          BY <5>1, <1>12, <1>13, <1>14, <3>3 DEF Reached
      <4>2. CASE ~last
        <5>1. s = "measure" /\ left # <<>>
          BY <4>2, <2>2
        <5> QED
          BY <5>1, <1>9, <1>12, <1>13, <1>14, <3>3 DEF Reached
      <4> QED
        BY <4>1, <4>2
    <3> QED
      BY <3>3, <3>4
  <2> QED
    BY <2>1, <2>2
<1>16. /\ Exists(files, Scratch) /\ Exists(files, Dir(o))
       /\ ~Exists(files, Raw(o)) /\ Exists(files, Partial(o))
       /\ files[Partial(o)] = [rows |-> keys, torn |-> FALSE]
  BY <1>0, <1>1, <1>3, <1>13, InsideSteps DEF RunInv
<1>17. /\ files' = [p \in DOMAIN files' |-> files'[p]]
       /\ DOMAIN files' = DOMAIN files
       /\ files'[Partial(o)] = [rows |-> more, torn |-> FALSE]
       /\ \A p : p # Partial(o) => Same(p)
  <2> DEFINE file == [files[Partial(o)] EXCEPT !.rows = @ \cup {row}]
  <2>1. file = [rows |-> more, torn |-> FALSE]
    <3>1. PICK old : old = files[Partial(o)]
      OBVIOUS
    <3> DEFINE no == FALSE
    <3>2. old = [rows |-> keys, torn |-> no]
      BY <3>1, <1>16
    <3> HIDE DEF no
    <3>3. [[rows |-> keys, torn |-> no] EXCEPT !.rows = @ \cup {row}] =
             [rows |-> keys \cup {row}, torn |-> no]
      BY GrownFile, Zenon
    <3>4. [old EXCEPT !.rows = @ \cup {row}] =
             [rows |-> keys \cup {row}, torn |-> no]
      BY <3>2, <3>3, Zenon
    <3> QED
      BY <3>1, <3>4, <1>51, Zenon DEF no
  <2>2. files' = [files EXCEPT ![Partial(o)] = file]
    BY <1>6
  <2> HIDE DEF file
  <2>3. /\ files' = [p \in DOMAIN files' |-> files'[p]]
        /\ DOMAIN files' = DOMAIN files
        /\ files'[Partial(o)] = file
        /\ \A p : p # Partial(o) => Same(p)
    BY <1>1, <1>16, <2>2 DEF TypeInv, Same, Exists
  <2> QED
    BY <2>1, <2>3
<1>18. RunInv(r)'
  BY <1>0, <1>6, <1>12, <1>13, <1>15, <1>16, <1>17 DEF RunInv, Exists
<1>19. OutputInv(o)'
  <2>1. DurableRows(o) = keys /\ DurableRows(o)' = more
    BY <1>16, <1>17 DEF DurableRows, Exists
  <2>2. keys \in SUBSET more
    BY <1>51
  <2>3. Cardinality(keys) \in Nat /\ Cardinality(more) \in Nat
        /\ Cardinality(keys) <= Cardinality(more)
    BY <1>7, <1>11, <2>2, MoreRows
  <2>4. Same(Checkpoint(o))
    BY <1>17, Paths
  <2>5. ASSUME Exists(files', Checkpoint(o)), damaged # o
        PROVE  LET point == files'[Checkpoint(o)]
               IN  /\ point.measured_runs \in Nat
                   /\ point.measured_runs <= Cardinality(more)
                   /\ HasCases(MECHANISMS, CASES, more, point.completed_cases)
    <3> DEFINE point == files[Checkpoint(o)]
    <3>1. files'[Checkpoint(o)] = point /\ Exists(files, Checkpoint(o))
      BY <2>4, <2>5 DEF Same
    <3>2. /\ point.measured_runs \in Nat
          /\ point.measured_runs <= Cardinality(keys)
          /\ HasCases(MECHANISMS, CASES, keys, point.completed_cases)
      BY <1>1, <2>1, <2>5, <3>1 DEF OutputInv
    <3> HIDE DEF point
    <3>3. point.measured_runs <= Cardinality(more)
      BY <2>3, <3>2
    <3>4. HasCases(MECHANISMS, CASES, more, point.completed_cases)
      BY <2>2, <3>2 DEF HasCases
    <3> QED
      BY <3>1, <3>2, <3>3, <3>4
  <2> QED
    BY <1>6, <1>11, <1>14, <1>16, <1>17, <2>1, <2>5 DEF OutputInv, Exists
<1>20. \A p \in Outputs \ {o} : \A path \in KeyPaths(p) : Same(path)
  BY <1>17, Paths DEF KeyPaths
<1>21. pc[r] \in Inside
  BY <1>13, InsideSteps
<1> HIDE DEF s
<1> QED
  BY <1>0, <1>6, <1>12, <1>13, <1>15, <1>17, <1>18, <1>19, <1>20, <1>21,
     InsideKeeps

\* The case of one run is changed to another possible one.
LEMMA CaseStep ==
    ASSUME TypeInv, NEW r \in Runs, NEW c \in 1..Len(CASES),
           at' = [at EXCEPT ![r].case = c]
    PROVE  /\ at'[r].case = c
           /\ \A q \in Runs \ {r} : at'[q] = at[q]
           /\ at' \in [Runs -> [case : 1..Len(CASES),
                                repetition : 1..REPETITIONS, left : Seq(1..5)]]
<1> DEFINE Place == [case : 1..Len(CASES), repetition : 1..REPETITIONS,
                     left : Seq(1..5)]
<1>1. at \in [Runs -> Place]
  BY DEF TypeInv
<1> DEFINE w == [at[r] EXCEPT !.case = c]
<1>2. w \in Place /\ w.case = c
  BY <1>1
<1>3. at' = [at EXCEPT ![r] = w]
  OBVIOUS
<1> HIDE DEF w, Place
<1>4. /\ at' \in [Runs -> Place] /\ at'[r] = w
      /\ \A q \in Runs \ {r} : at'[q] = at[q]
  BY <1>1, <1>2, <1>3
<1> QED
  BY <1>2, <1>4 DEF Place

\* The checkpoint says what memory and partial file hold.
LEMMA WriteCheckpointKeeps ==
    ASSUME IInv, NEW r \in Runs, WriteCheckpoint(r), UNCHANGED resultVars
    PROVE  IInv'
<1>0. PICK o \in Outputs : output[r] = o
  BY DEF IInv, TypeInv
<1>1. pc \in [Runs -> STEPS] /\ RunInv(r) /\ OutputInv(o) /\ TypeInv
  BY DEF IInv, TypeInv
<1>2. PICK c \in 1..Len(CASES) : at[r].case = c
  BY <1>1 DEF TypeInv
<1>3. PICK keys \in SUBSET Grid : records[r] = keys
  BY <1>1 DEF TypeInv
<1> DEFINE last == c = Len(CASES)
<1> DEFINE s == IF last THEN "publish" ELSE "warmup"
<1> DEFINE next == IF last THEN c ELSE c + 1
<1>4. /\ pc[r] \in {"checkpoint", "write_checkpoint"}
      /\ pc' = [pc EXCEPT ![r] = s]
      /\ files' = Put(files, Checkpoint(o), Progress(r))
      /\ at' = [at EXCEPT ![r].case = next]
      /\ UNCHANGED <<experiment, output, records, damaged>>
  BY <1>0, <1>2 DEF WriteCheckpoint, Step, Goto, resultVars
<1>5. experiment \in {"s5", "s6"} /\ Len(CASES) \in Nat
  BY <1>1, Sizes DEF TypeInv
<1>6. next \in 1..Len(CASES)
  BY <1>5
<1>7. /\ at'[r].case = next /\ \A q \in Runs \ {r} : at'[q] = at[q]
      /\ at' \in [Runs -> [case : 1..Len(CASES), repetition : 1..REPETITIONS,
                           left : Seq(1..5)]]
  <2> HIDE DEF next
  <2> QED
    BY <1>1, <1>4, <1>6, CaseStep
<1>8. HasCases(MECHANISMS, CASES, keys, c)
  BY <1>1, <1>2, <1>3, <1>4 DEF RunInv, Reached
<1>9. PICK point : point = Progress(r)
  OBVIOUS
<1>10. point.completed_cases = c /\ point.measured_runs = Cardinality(keys)
  BY <1>2, <1>3, <1>9 DEF Progress
<1>11. /\ files' = [p \in DOMAIN files' |-> files'[p]]
       /\ Exists(files', Checkpoint(o)) /\ files'[Checkpoint(o)] = point
       /\ \A p : p # Checkpoint(o) => Same(p)
       /\ \A p : Exists(files, p) => Exists(files', p)
  <2>1. files' = Put(files, Checkpoint(o), point)
    BY <1>4, <1>9
  <2> QED
    BY <2>1, PutStep
<1>12. Same(Dir(o)) /\ Same(Partial(o)) /\ Same(Raw(o)) /\ Same(Scratch)
  BY <1>11, Paths
<1>13. /\ MECHANISMS' = MECHANISMS /\ CASES' = CASES /\ Grid' = Grid
  BY <1>4, SameExperiment
<1>14. s \in STEPS /\ pc'[r] = s /\ pc[r] \in Loop /\ s \in Loop
       /\ s \notin Before \cup {"scratch", "open"}
  BY <1>1, <1>4 DEF STEPS, Past, Loop, Before
<1>15. /\ Exists(files', Scratch) /\ Exists(files', Dir(o))
       /\ ~Exists(files', Raw(o)) /\ Exists(files', Partial(o))
       /\ files'[Partial(o)] = [rows |-> keys, torn |-> FALSE]
  BY <1>0, <1>1, <1>3, <1>12, <1>14, InsideSteps DEF RunInv, Same
<1>16. RunInv(r)'
  <2>1. Reached(r)'
    <3>1. CASE last
      BY <3>1, <1>3, <1>4, <1>8, <1>13, <1>14 DEF Reached
    <3>2. CASE ~last
      <4>1. s = "warmup" /\ at'[r].case - 1 = c
        BY <3>2, <1>7, <1>5
      <4> QED
        BY <4>1, <1>3, <1>4, <1>8, <1>13, <1>14 DEF Reached
    <3> QED
      BY <3>1, <3>2
  <2> QED
    BY <1>0, <1>3, <1>4, <1>14, <1>15, <2>1 DEF RunInv
<1>17. OutputInv(o)'
  <2>1. DurableRows(o)' = keys
    BY <1>15 DEF DurableRows
  <2>2. Cardinality(keys) \in Nat /\ Cardinality(keys) <= Cardinality(keys)
    BY <1>5, <1>3, MoreRows
  <2> QED
    BY <1>8, <1>10, <1>11, <1>13, <1>15, <2>1, <2>2 DEF OutputInv
<1>18. \A p \in Outputs \ {o} : \A path \in KeyPaths(p) : Same(path)
  BY <1>11, Paths DEF KeyPaths
<1>19. pc[r] \in Inside
  BY <1>14, InsideSteps
<1>20. /\ records' \in [Runs -> SUBSET Grid]
       /\ \A q \in Runs \ {r} : records'[q] = records[q]
  BY <1>1, <1>4 DEF TypeInv
<1> HIDE DEF s, next
<1> QED
  BY <1>0, <1>4, <1>7, <1>11, <1>14, <1>16, <1>17, <1>18, <1>19, <1>20,
     InsideKeeps

\* A run that is killed within a row leaves the whole rows before it.
LEMMA StopInRowKeeps ==
    ASSUME IInv, NEW r \in Runs, StopInRow(r), UNCHANGED resultVars
    PROVE  IInv'
<1>0. PICK o \in Outputs : output[r] = o
  BY DEF IInv, TypeInv
<1>1. pc \in [Runs -> STEPS] /\ RunInv(r) /\ OutputInv(o) /\ TypeInv
  BY DEF IInv, TypeInv
<1>2. PICK keys \in SUBSET Grid : records[r] = keys
  BY <1>1 DEF TypeInv
<1>3. PICK file : file = [files[Partial(o)] EXCEPT !.torn = TRUE]
  OBVIOUS
<1>4. /\ pc[r] = "measure" /\ pc' = [pc EXCEPT ![r] = "stopped"]
      /\ files' = [files EXCEPT ![Partial(o)] = file]
      /\ UNCHANGED <<experiment, output, at, records, damaged>>
  BY <1>0, <1>3 DEF StopInRow, Goto, locals, resultVars
<1>5. pc[r] \in Loop /\ pc[r] \in Inside
  BY <1>4, InsideSteps DEF Loop
<1>6. /\ Exists(files, Dir(o))
      /\ ~Exists(files, Raw(o)) /\ Exists(files, Partial(o))
      /\ files[Partial(o)] = [rows |-> keys, torn |-> FALSE]
  BY <1>0, <1>1, <1>2, <1>5, InsideSteps DEF RunInv
<1>7. file.rows = keys
  BY <1>3, <1>6
<1>8. /\ files' = [p \in DOMAIN files' |-> files'[p]]
      /\ DOMAIN files' = DOMAIN files
      /\ files'[Partial(o)] = file
      /\ \A p : p # Partial(o) => Same(p)
  BY <1>1, <1>4, <1>6 DEF TypeInv, Same, Exists
<1>9. /\ MECHANISMS' = MECHANISMS /\ CASES' = CASES /\ Grid' = Grid
  BY <1>4, SameExperiment
<1>10. OutputInv(o)'
  <2>1. DurableRows(o) = keys
    BY <1>6 DEF DurableRows
  <2>2. DurableRows(o)' = keys
    BY <1>6, <1>7, <1>8 DEF DurableRows, Exists
  <2>3. Same(Checkpoint(o)) /\ Same(Dir(o))
    BY <1>8, Paths
  <2> QED
    BY <1>1, <1>4, <1>6, <1>9, <2>1, <2>2, <2>3 DEF OutputInv, Same
<1>11. "stopped" \in STEPS /\ "stopped" \notin Past \cup Before \cup Loop
       /\ pc'[r] = "stopped"
  BY <1>1, <1>4 DEF STEPS, Ended, Past, Before, Loop
<1>12. RunInv(r)'
  <2>1. Reached(r)'
    BY <1>11 DEF Reached
  <2> QED
    BY <1>11, <2>1, InsideSteps DEF RunInv
<1>13. \A p \in Outputs \ {o} : \A path \in KeyPaths(p) : Same(path)
  BY <1>8, Paths DEF KeyPaths
<1> QED
  BY <1>0, <1>1, <1>4, <1>5, <1>8, <1>10, <1>11, <1>12, <1>13, InsideKeeps
  DEF TypeInv

(* When the loop is over, every cell of the grid has been measured, and    *)
(* the published rows are exactly those of an undisturbed campaign.        *)
LEMMA PublishRawKeeps ==
    ASSUME IInv, NEW r \in Runs, PublishRaw(r), UNCHANGED resultVars
    PROVE  /\ IInv'
           /\ \A p \in Outputs :
                 Exists(files', Raw(p)) =>
                    \/ Exists(files, Raw(p))
                    \/ files'[Raw(p)] = Lines(Grid)
<1>0. PICK o \in Outputs : output[r] = o
  BY DEF IInv, TypeInv
<1>1. pc \in [Runs -> STEPS] /\ RunInv(r) /\ OutputInv(o) /\ TypeInv
  BY DEF IInv, TypeInv
<1>2. PICK keys \in SUBSET Grid : records[r] = keys
  BY <1>1 DEF TypeInv
<1>3. PICK rows : rows = Lines(files[Partial(o)].rows)
  OBVIOUS
<1>4. /\ pc[r] = "publish" /\ pc' = [pc EXCEPT ![r] = "summary"]
      /\ files' = Put(Without(files, {Partial(o)}), Raw(o), rows)
      /\ UNCHANGED <<experiment, output, at, records, damaged>>
  BY <1>0, <1>3 DEF PublishRaw, Step, Goto, locals, resultVars
<1>5. experiment \in {"s5", "s6"} /\ Len(CASES) \in Nat
  BY <1>1, Sizes DEF TypeInv
<1>6. pc[r] \in Loop /\ pc[r] \in Inside
  BY <1>4, InsideSteps DEF Loop
<1>7. /\ Exists(files, Dir(o)) /\ Exists(files, Scratch)
      /\ Exists(files, Partial(o))
      /\ files[Partial(o)] = [rows |-> keys, torn |-> FALSE]
  BY <1>0, <1>1, <1>2, <1>6, InsideSteps DEF RunInv
<1>8. keys = Grid
  <2>1. HasCases(MECHANISMS, CASES, keys, Len(CASES))
    BY <1>1, <1>2, <1>4 DEF RunInv, Reached
  <2>2. ASSUME NEW key \in Grid
        PROVE  key \in keys
    <3>1. PICK m \in 1..5, i \in 1..Len(CASES), k \in 1..REPETITIONS :
             key = <<MECHANISMS[m], CASES[i], k>>
      BY <1>5, Sizes DEF Grid, Range
    <3> QED
      BY <2>1, <3>1 DEF HasCases
  <2> QED
    BY <2>2
<1>9. rows = Lines(Grid)
  <2>1. files[Partial(o)].rows = Grid
    BY <1>7, <1>8
  <2> QED
    BY <1>3, <2>1, Zenon
<1>10. Keys(rows) = Grid
  BY <1>5, <1>9, LinesAreGenuine
<1>11. /\ files' = [p \in DOMAIN files' |-> files'[p]]
       /\ Exists(files', Raw(o)) /\ files'[Raw(o)] = rows
       /\ \A p : p \notin {Partial(o), Raw(o)} => Same(p)
  BY <1>4 DEF Put, Without, Restrict, Exists, Same
<1>12. Same(Dir(o)) /\ Same(Checkpoint(o)) /\ Same(Scratch)
  BY <1>11, Paths
<1>13. pc'[r] = "summary" /\ "summary" \in STEPS /\ "summary" \notin Before
       /\ "summary" \notin Loop
  BY <1>1, <1>4 DEF Before, Loop, STEPS, Past
<1>14. RunInv(r)'
  <2>1. Reached(r)'
    BY <1>13 DEF Reached
  <2>2. Exists(files', Dir(o)) /\ Exists(files', Scratch)
    BY <1>7, <1>12 DEF Same
  <2> QED
    BY <1>0, <1>4, <1>13, <2>1, <2>2 DEF RunInv
<1>15. MECHANISMS' = MECHANISMS /\ CASES' = CASES /\ Grid' = Grid
  BY <1>4, SameExperiment
<1>16. OutputInv(o)'
  <2>1. DurableRows(o)' = Grid
    BY <1>10, <1>11 DEF DurableRows
  <2>2. ASSUME Exists(files', Checkpoint(o)), damaged # o
        PROVE  LET point == files'[Checkpoint(o)]
               IN  /\ point.measured_runs \in Nat
                   /\ point.measured_runs <= Cardinality(Grid)
                   /\ HasCases(MECHANISMS, CASES, Grid, point.completed_cases)
    <3> DEFINE point == files[Checkpoint(o)]
    <3>1. files'[Checkpoint(o)] = point /\ Exists(files, Checkpoint(o))
      BY <1>12, <2>2 DEF Same
    <3>2. /\ point.measured_runs \in Nat
          /\ point.measured_runs <= Cardinality(DurableRows(o))
          /\ DurableRows(o) \subseteq Grid
          /\ HasCases(MECHANISMS, CASES, DurableRows(o),
                      point.completed_cases)
      BY <1>1, <2>2, <3>1 DEF OutputInv
    <3> HIDE DEF point
    <3>3. /\ Cardinality(DurableRows(o)) <= Cardinality(Grid)
          /\ Cardinality(DurableRows(o)) \in Nat /\ Cardinality(Grid) \in Nat
      BY <1>5, <3>2, MoreRows
    <3>4. point.measured_runs <= Cardinality(Grid)
      BY <3>2, <3>3
    <3>5. HasCases(MECHANISMS, CASES, Grid, point.completed_cases)
      BY <3>2 DEF HasCases
    <3> QED
      BY <3>1, <3>2, <3>4, <3>5
  <2>3. Exists(files', Dir(o))
    BY <1>7, <1>12 DEF Same
  <2> QED
    BY <1>4, <1>15, <2>1, <2>2, <2>3 DEF OutputInv
<1>17. \A p \in Outputs \ {o} : \A path \in KeyPaths(p) : Same(path)
  BY <1>11, Paths DEF KeyPaths
<1>18. IInv'
  BY <1>0, <1>1, <1>4, <1>6, <1>11, <1>13, <1>14, <1>16, <1>17, InsideKeeps
  DEF TypeInv
<1>19. ASSUME NEW p \in Outputs, Exists(files', Raw(p))
       PROVE  Exists(files, Raw(p)) \/ files'[Raw(p)] = Lines(Grid)
  <2>1. CASE p = o
    BY <2>1, <1>9, <1>11
  <2>2. CASE p # o
    <3>1. Same(Raw(p))
      BY <2>2, <1>17 DEF KeyPaths
    <3> QED
      BY <3>1, <1>19 DEF Same
  <2> QED
    BY <2>1, <2>2
<1> QED
  BY <1>18, <1>19

-----------------------------------------------------------------------------
(* The people who check, and damage.                                       *)

\* A step that touches neither a run nor a file of the campaigns.
LEMMA BystanderKeeps ==
    ASSUME IInv, UNCHANGED <<experiment, pc, locals>>, damaged' = damaged,
           files' = [p \in DOMAIN files' |-> files'[p]],
           \A o \in Outputs : \A p \in KeyPaths(o) : Same(p),
           Same(Scratch)
    PROVE  IInv'
<1>1. MECHANISMS' = MECHANISMS /\ CASES' = CASES /\ Grid' = Grid
  BY SameExperiment
<1>2. TypeInv' /\ LockInv'
  BY <1>1 DEF IInv, TypeInv, LockInv, locals
<1>3. ASSUME NEW q \in Runs
      PROVE  RunInv(q)'
  <2>1. RunInv(q) /\ output[q] \in Outputs
    BY DEF IInv, TypeInv
  <2>2. pc[q] \in Inside => Exists(files', Scratch)
    BY <2>1 DEF RunInv, Same
  <2> QED
    BY <2>1, <2>2, OtherRunKeeps DEF locals
<1>4. ASSUME NEW o \in Outputs
      PROVE  OutputInv(o)'
  BY OtherOutputKeeps DEF IInv
<1> QED
  BY <1>2, <1>3, <1>4 DEF IInv

\* verify_results.py and the manifest add files of their own.
LEMMA CheckKeeps ==
    ASSUME IInv, NEW o \in Outputs, VerifyResults(o) \/ SealDirectory(o)
    PROVE  /\ IInv'
           /\ \A p \in Outputs : Same(Raw(p))
<1>1. PICK path \in {CheckResult(o), Manifest(o)} :
         \E content : files' = Put(files, path, content)
  BY DEF VerifyResults, SealDirectory
<1>2. PICK content : files' = Put(files, path, content)
  BY <1>1
<1>3. /\ files' = [p \in DOMAIN files' |-> files'[p]]
      /\ \A p : p # path => Same(p)
  BY <1>2, PutStep
<1>4. \A p \in Outputs : \A q \in KeyPaths(p) : Same(q)
  BY <1>3, Paths DEF KeyPaths
<1>5. Same(Scratch)
  BY <1>3, Paths
<1>6. UNCHANGED <<experiment, pc, locals>> /\ damaged' = damaged
  BY DEF VerifyResults, SealDirectory, resultVars
<1>7. IInv'
  BY <1>3, <1>4, <1>5, <1>6, BystanderKeeps
<1> QED
  BY <1>4, <1>7 DEF KeyPaths

\* A step that reads only.
LEMMA LookKeeps ==
    ASSUME IInv, UNCHANGED vars, damaged' = damaged
    PROVE  /\ IInv'
           /\ \A p \in Outputs : Same(Raw(p))
<1>1. \A p : Same(p)
  BY UnchangedStep DEF vars
<1>2. files' = [p \in DOMAIN files' |-> files'[p]]
  BY DEF IInv, TypeInv, vars
<1> QED
  BY <1>1, <1>2, BystanderKeeps DEF vars

\* Damage comes when all runs have ended, and makes no new file of rows.
LEMMA DamageKeeps ==
    ASSUME IInv, NEW o \in Outputs, Damage(o)
    PROVE  /\ IInv'
           /\ \A p \in Outputs : Exists(files', Raw(p)) => Exists(files, Raw(p))
<1>1. /\ Exists(files, Raw(o)) /\ damaged' = o /\ damaged = "NONE"
      /\ \A r \in Runs : pc[r] \in Ended
      /\ UNCHANGED <<experiment, pc, locals>>
  BY DEF Damage, Finished, AllEnded
<1>2. /\ files' = [p \in DOMAIN files' |-> files'[p]]
      /\ \A p : p \notin {Raw(o), Summary(o)} => Same(p)
      /\ Exists(files', Raw(o))
  <2>1. PICK rows : \/ files' = Put(files, Raw(o), rows)
                    \/ files' = Put(Put(files, Raw(o), rows), Summary(o),
                                    Resealed(o, rows))
    BY DEF Damage
  <2>2. CASE files' = Put(files, Raw(o), rows)
    BY <2>2, PutStep
  <2>3. CASE files' = Put(Put(files, Raw(o), rows), Summary(o),
                          Resealed(o, rows))
    <3>1. PICK content : content = Resealed(o, rows)
      OBVIOUS
    <3>2. files' = Put(Put(files, Raw(o), rows), Summary(o), content)
      BY <2>3, <3>1
    <3> QED
      BY <3>2 DEF Put, Same, Exists
  <2> QED
    BY <2>1, <2>2, <2>3
<1>3. MECHANISMS' = MECHANISMS /\ CASES' = CASES /\ Grid' = Grid
  BY <1>1, SameExperiment
<1>4. TypeInv' /\ LockInv'
  BY <1>1, <1>2, <1>3 DEF IInv, TypeInv, LockInv, locals
<1>5. ASSUME NEW r \in Runs
      PROVE  RunInv(r)'
  <2>1. pc'[r] \in Ended
    BY <1>1
  <2>2. pc'[r] \notin Past \cup Before \cup Loop
    BY <2>1 DEF Past, Before, Loop, Ended
  <2>3. Reached(r)'
    BY <2>1 DEF Reached, Ended
  <2> QED
    BY <2>2, <2>3, InsideSteps DEF RunInv, Before
<1>6. \A p \in Outputs \ {o} : \A path \in KeyPaths(p) : Same(path)
  BY <1>2, Paths DEF KeyPaths
<1>7. ASSUME NEW p \in Outputs \ {o}
      PROVE  OutputInv(p)'
  <2>1. OutputInv(p) /\ damaged # p
    BY <1>1, OutputsAssumption DEF IInv
  <2> QED
    BY <1>1, <1>6, <2>1, OtherOutputKeeps
<1>8. OutputInv(o)'
  <2>1. Exists(files, Dir(o))
    BY <1>1 DEF IInv, OutputInv, Fresh, Exists
  <2>2. Same(Dir(o))
    BY <1>2, Paths
  <2> QED
    BY <1>1, <2>1, <2>2 DEF OutputInv, Same
<1>9. IInv'
  BY <1>4, <1>5, <1>7, <1>8 DEF IInv
<1> QED
  BY <1>1, <1>6, <1>9 DEF KeyPaths, Same

-----------------------------------------------------------------------------
(* Every step.                                                             *)

\* Nothing exists before the first run.
LEMMA InitHolds ==
    ASSUME ResultsInit
    PROVE  IInv
<1>1. /\ experiment \in {"s5", "s6"} /\ pc = [r \in Runs |-> "start"]
      /\ output \in [Runs -> Outputs] /\ files = NoFiles
      /\ at = [r \in Runs |-> [case |-> 1, repetition |-> 1, left |-> <<>>]]
      /\ records = [r \in Runs |-> {}]
  BY DEF ResultsInit, Init
<1>2. 1 \in 1..Len(CASES) /\ 1 \in 1..REPETITIONS /\ <<>> \in Seq(1..5)
  <2>1. Len(CASES) \in {8, 10}
    BY <1>1, Sizes
  <2>2. 1 \in 1..Len(CASES)
    BY <2>1
  <2>3. 1 \in 1..REPETITIONS
    BY RepetitionsAssumption
  <2> QED
    BY <2>2, <2>3
<1>3. "start" \in STEPS \cap Before /\ "start" \notin Past \cup Loop
  BY DEF STEPS, Before, Past, Loop
<1>4. DOMAIN files = {}
  BY <1>1 DEF NoFiles
<1>5. files = [path \in DOMAIN files |-> files[path]]
  BY <1>1 DEF NoFiles
<1>6. TypeInv
  BY <1>1, <1>2, <1>3, <1>5 DEF TypeInv
<1>7. LockInv
  BY <1>1, <1>3, InsideSteps DEF LockInv
<1>8. ASSUME NEW r \in Runs
      PROVE  RunInv(r)
  <2>1. pc[r] = "start" /\ at[r].case = 1 /\ records[r] = {}
    BY <1>1
  <2>2. Reached(r)
    BY <2>1 DEF Reached
  <2> QED
    BY <1>3, <2>1, <2>2, InsideSteps DEF RunInv
<1>9. ASSUME NEW o \in Outputs
      PROVE  OutputInv(o)
  BY <1>4 DEF OutputInv, Fresh, Exists
<1> QED
  BY <1>6, <1>7, <1>8, <1>9 DEF IInv

\* All steps of a run.
LEMMA CampaignStepKeeps ==
    ASSUME IInv, NEW r \in Runs, CampaignStep(r), UNCHANGED resultVars
    PROVE  IInv'
  BY CheckPathsKeeps, MakeOutputKeeps, MakeScratchKeeps, OpenPartialKeeps,
     WarmupKeeps, MeasureKeeps, UnlinkCheckpointKeeps, WriteCheckpointKeeps,
     PublishRawKeeps, WriteSummaryKeeps, RemoveScratchKeeps, StopKeeps,
     StopInRowKeeps
  DEF CampaignStep

\* Of all the steps of a run only PublishRaw makes a RAW_RUNS.jsonl.
LEMMA OnlyPublishRaw ==
    ASSUME IInv, NEW r \in Runs, CampaignStep(r), ~PublishRaw(r),
           NEW p \in Outputs, Exists(files', Raw(p))
    PROVE  Exists(files, Raw(p))
<1>0. PICK o \in Outputs : output[r] = o
  BY DEF IInv, TypeInv
<1> DEFINE Kept == Exists(files', Raw(p)) => Exists(files, Raw(p))
<1>1. ASSUME NEW path, NEW content, path # Raw(p),
             files' = Put(files, path, content)
      PROVE  Kept
  BY <1>1, PutStep DEF Same
<1>2. ASSUME NEW path, path # Raw(p), files' = Without(files, {path})
      PROVE  Kept
  BY <1>2, WithoutStep DEF Same
<1>3. ASSUME DOMAIN files' = DOMAIN files
      PROVE  Kept
  BY <1>3 DEF Exists
<1>4. Raw(p) \notin {Dir(o), Scratch, Partial(o), Checkpoint(o), Summary(o)}
  BY Paths
<1>5. CASE CheckPaths(r) \/ Warmup(r) \/ Stop(r)
  BY <1>3, <1>5 DEF CheckPaths, Warmup, Stop, Step
<1>6. CASE Measure(r) \/ StopInRow(r)
  <2>1. DOMAIN files' = DOMAIN files
    BY <1>6 DEF Measure, StopInRow, Step
  <2> QED
    BY <1>3, <2>1
<1>7. CASE UnlinkCheckpoint(r) \/ RemoveScratch(r)
  BY <1>0, <1>2, <1>4, <1>7 DEF UnlinkCheckpoint, RemoveScratch, Step
<1>8. CASE MakeOutput(r) \/ MakeScratch(r)
  BY <1>0, <1>1, <1>3, <1>4, <1>8 DEF MakeOutput, MakeScratch, Step
<1>9. CASE OpenPartial(r) \/ WriteCheckpoint(r) \/ WriteSummary(r)
  <2>1. \E path \in {Partial(o), Checkpoint(o), Summary(o)} :
           \E content : files' = Put(files, path, content)
    BY <1>0, <1>9 DEF OpenPartial, WriteCheckpoint, WriteSummary, Step
  <2> QED
    BY <1>1, <1>4, <2>1
<1> QED
  BY <1>5, <1>6, <1>7, <1>8, <1>9 DEF CampaignStep

\* All steps.
LEMMA NextKeeps ==
    ASSUME IInv, [ResultsNext]_<<vars, resultVars>>
    PROVE  IInv'
<1>1. ASSUME NEW r \in Runs, CampaignStep(r), UNCHANGED resultVars
      PROVE  IInv'
  BY <1>1, CampaignStepKeeps
<1>2. ASSUME NEW o \in Outputs, VerifyResults(o) \/ SealDirectory(o)
      PROVE  IInv'
  BY <1>2, CheckKeeps
<1>3. ASSUME NEW o \in Outputs, VerifyExperiments(o)
      PROVE  IInv'
  BY <1>3, LookKeeps DEF VerifyExperiments
<1>4. ASSUME NEW o \in Outputs, Damage(o)
      PROVE  IInv'
  BY <1>4, DamageKeeps
<1>5. ASSUME NEW a \in Outputs, NEW b \in Outputs, Compare(a, b)
      PROVE  IInv'
  BY <1>5, LookKeeps DEF Compare
<1>6. ASSUME UNCHANGED <<vars, resultVars>>
      PROVE  IInv'
  BY <1>6, LookKeeps DEF resultVars
<1> QED
  BY <1>1, <1>2, <1>3, <1>4, <1>5, <1>6 DEF ResultsNext

(* IInv is an inductive invariant of the campaigns.                        *)
THEOREM Invariance == ResultsSpec => []IInv
<1>1. ResultsInit => IInv
  BY InitHolds
<1>2. IInv /\ [ResultsNext]_<<vars, resultVars>> => IInv'
  BY NextKeeps
<1> QED
  BY <1>1, <1>2, PTL DEF ResultsSpec

(* However many campaigns are started on a scratch directory, and wherever *)
(* they die, at most one works in it (mkdir without exist_ok).             *)
THEOREM ScratchIsExclusive == ResultsSpec => []OneCampaignAtATime
<1>1. IInv => OneCampaignAtATime
  <2> SUFFICES ASSUME IInv, NEW a \in Working, NEW b \in Working
               PROVE  a = b
    BY DEF OneCampaignAtATime
  <2>1. a \in Runs /\ b \in Runs /\ pc[a] \in Inside /\ pc[b] \in Inside
    BY DEF IInv, TypeInv, Working, STEPS, Inside, Past
  <2> QED
    BY <2>1 DEF IInv, LockInv
<1> QED
  BY <1>1, Invariance, PTL

(* Whatever a checkpoint calls completed or counts as measured is durable, *)
(* in the partial or in the published file, at any moment a run is killed. *)
THEOREM CheckpointsAreSound == ResultsSpec => []CheckpointSound
<1>1. IInv => CheckpointSound
  <2> SUFFICES ASSUME IInv, NEW o \in Outputs,
                      Exists(files, Checkpoint(o)), damaged # o
               PROVE  LET point == files[Checkpoint(o)]
                      IN  /\ point.measured_runs <= Cardinality(DurableRows(o))
                          /\ {key \in Grid :
                                 \E i \in 1..point.completed_cases :
                                    CASES[i] = key[2]}
                                \subseteq DurableRows(o)
    BY DEF CheckpointSound
  <2> DEFINE point == files[Checkpoint(o)]
  <2>1. /\ point.measured_runs <= Cardinality(DurableRows(o))
        /\ HasCases(MECHANISMS, CASES, DurableRows(o), point.completed_cases)
        /\ experiment \in {"s5", "s6"}
    BY DEF IInv, OutputInv, TypeInv
  <2> HIDE DEF point
  <2>2. ASSUME NEW key \in Grid, NEW i \in 1..point.completed_cases,
               CASES[i] = key[2]
        PROVE  key \in DurableRows(o)
    <3>1. PICK m \in 1..5, j \in 1..Len(CASES), k \in 1..REPETITIONS :
             key = <<MECHANISMS[m], CASES[j], k>>
      BY <2>1, Sizes DEF Grid, Range
    <3>2. key = <<MECHANISMS[m], CASES[i], k>>
      BY <2>2, <3>1
    <3> QED
      BY <2>1, <3>2 DEF HasCases
  <2> QED
    BY <2>1, <2>2 DEF point
<1> QED
  BY <1>1, Invariance, PTL

(* A RAW_RUNS.jsonl that appears has one row for every mechanism, case and *)
(* repetition, each the record of its trial: a campaign that was stopped   *)
(* publishes nothing (os.replace after the loop).                          *)
THEOREM OnlyWholeCampaigns == ResultsSpec => RawIsComplete
<1>1. ASSUME IInv, [ResultsNext]_<<vars, resultVars>>
      PROVE  \A o \in Outputs : Appears(Raw(o)) => Genuine(files[Raw(o)])'
  <2> SUFFICES ASSUME NEW o \in Outputs, ~Exists(files, Raw(o)),
                      Exists(files', Raw(o))
               PROVE  Genuine(files[Raw(o)])'
    BY DEF Appears
  <2>1. CASE \E r \in Runs : CampaignStep(r) /\ UNCHANGED resultVars
    <3>1. PICK r \in Runs : CampaignStep(r) /\ UNCHANGED resultVars
      BY <2>1
    <3>2. PublishRaw(r)
      BY <1>1, <3>1, OnlyPublishRaw
    <3>3. files'[Raw(o)] = Lines(Grid)
      BY <1>1, <3>1, <3>2, PublishRawKeeps
    <3>4. experiment' = experiment /\ experiment \in {"s5", "s6"}
      BY <1>1, <3>2 DEF PublishRaw, IInv, TypeInv
    <3>5. Genuine(Lines(Grid))
      BY <3>4, LinesAreGenuine
    <3>6. TOTAL' = TOTAL /\ Measured' = Measured
      BY <3>4 DEF TOTAL, MECHANISMS, CASES, Measured
    <3> QED
      BY <3>3, <3>4, <3>5, <3>6 DEF Genuine
  <2>2. CASE \E p \in Outputs : VerifyResults(p) \/ SealDirectory(p)
    BY <1>1, <2>2, CheckKeeps DEF Same
  <2>3. CASE \E p \in Outputs : VerifyExperiments(p)
    BY <2>3 DEF VerifyExperiments, vars
  <2>4. CASE \E p \in Outputs : Damage(p)
    BY <1>1, <2>4, DamageKeeps
  <2>5. CASE \E a, b \in Outputs : Compare(a, b)
    BY <2>5 DEF Compare, vars
  <2>6. CASE UNCHANGED <<vars, resultVars>>
    BY <2>6 DEF vars
  <2> QED
    BY <1>1, <2>1, <2>2, <2>3, <2>4, <2>5, <2>6 DEF ResultsNext
<1> QED
  BY <1>1, Invariance, PTL DEF ResultsSpec, RawIsComplete
=============================================================================
