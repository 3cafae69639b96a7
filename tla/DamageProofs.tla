---------------------------- MODULE DamageProofs -----------------------------
(***************************************************************************)
(* What the checks of a finished campaign are worth, for any number of     *)
(* runs, outputs and repetitions: damaged rows are never accepted, and two *)
(* campaigns compare equal exactly when neither is damaged.                *)
(***************************************************************************)
EXTENDS ResultsProofs, SequenceTheorems

-----------------------------------------------------------------------------
(* The rows of a whole campaign, and what damage makes of them.            *)

RowAt(j) ==
    LET key == CellOf(j - 1)
    IN  run_one(key[1], key[2], key[3])
Whole == [j \in 1..TOTAL |-> RowAt(j)]

Struck(rows) ==
    \E i \in 1..TOTAL : Sampled(Whole[i]) /\ rows \in DamagedRows(Whole, i)

(* Published rows are whole, or damaged since; and nothing runs any more   *)
(* once there was damage.                                                  *)
RowsInv ==
    /\ damaged # "NONE" => AllEnded
    /\ \A o \in Outputs : Exists(files, Raw(o)) =>
          IF damaged = o THEN Struck(files[Raw(o)])
          ELSE files[Raw(o)] = Whole

\* The rows depend on nothing but the experiment.
LEMMA SameRows ==
    ASSUME experiment' = experiment
    PROVE  /\ TOTAL' = TOTAL /\ Whole' = Whole
           /\ \A rows : Struck(rows) => Struck(rows)'
<1>1. MECHANISMS' = MECHANISMS /\ CASES' = CASES
  BY SameExperiment
<1>2. TOTAL' = TOTAL
  BY <1>1 DEF TOTAL
<1>3. \A j : CellOf(j)' = CellOf(j)
  BY <1>1 DEF CellOf
<1>4. \A m, c, k : run_one(m, c, k)' = run_one(m, c, k)
  BY DEF run_one
<1>5. \A j : RowAt(j)' = RowAt(j)
  BY <1>3, <1>4 DEF RowAt, CellOf, run_one, MECHANISMS, CASES
<1>6. Whole' = Whole
  BY <1>2, <1>5 DEF Whole
<1> QED
  BY <1>2, <1>6 DEF Struck

\* No mechanism and no case is listed twice.
LEMMA ListsDistinct ==
    ASSUME experiment \in {"s5", "s6"}
    PROVE  /\ \A m, n \in 1..5 : MECHANISMS[m] = MECHANISMS[n] => m = n
           /\ \A c, d \in 1..Len(CASES) : CASES[c] = CASES[d] => c = d
<1>1. CASE experiment = "s5"
  BY <1>1 DEF MECHANISMS, CASES, S5!MECHANISMS, S5!CASES
<1>2. CASE experiment = "s6"
  BY <1>2 DEF MECHANISMS, CASES, S6!MECHANISMS, S6!CASES
<1> QED
  BY <1>1, <1>2

\* A number is determined by its quotient and remainder.
LEMMA DivModSame ==
    ASSUME NEW a \in Nat, NEW b \in Nat, NEW d \in Nat \ {0},
           a \div d = b \div d, a % d = b % d
    PROVE  a = b
  OBVIOUS

\* Counting visits no cell twice.
LEMMA CellsDistinct ==
    ASSUME experiment \in {"s5", "s6"}, NEW i \in 0..(TOTAL - 1),
           NEW j \in 0..(TOTAL - 1), CellOf(i) = CellOf(j)
    PROVE  i = j
<1> DEFINE R == REPETITIONS
           C == Len(CASES)
<1>0. Len(MECHANISMS) = 5 /\ Len(CASES) \in {8, 10}
  BY Sizes
<1>1. R \in Nat \ {0} /\ C \in Nat \ {0} /\ Len(MECHANISMS) = 5
  <2>1. C \in Nat \ {0}
    BY <1>0
  <2> QED
    BY <1>0, <2>1, RepetitionsAssumption
<1>2. PICK X \in Nat \ {0} : X = C * R
  BY <1>1
<1>3. TOTAL = X * 5
  BY <1>1, <1>2 DEF TOTAL
<1>4. \A k : CellOf(k) = <<MECHANISMS[(k % 5) + 1],
                          CASES[((k \div 5) \div R) + 1],
                          ((k \div 5) % R) + 1>>
  BY <1>1 DEF CellOf
<1> HIDE DEF R, C
<1>5. ASSUME NEW k \in 0..(TOTAL - 1)
      PROVE  /\ k \in Nat /\ (k % 5) + 1 \in 1..5 /\ k \div 5 \in Nat
             /\ ((k \div 5) \div R) + 1 \in 1..C
             /\ ((k \div 5) % R) \in Nat /\ ((k \div 5) \div R) \in Nat
  <2>1. k \in Nat /\ k < X * 5
    BY <1>3
  <2>2. k \div 5 \in 0..(X - 1) /\ k % 5 \in 0..4
    BY <2>1, <1>2, DivBound
  <2> DEFINE q == k \div 5
  <2>3. q \in Nat /\ q < C * R
    BY <2>2, <1>2
  <2> HIDE DEF q
  <2>4. q \div R \in 0..(C - 1) /\ q % R \in 0..(R - 1)
    BY <2>3, <1>1, DivBound
  <2>5. (q \div R) + 1 \in 1..C /\ q % R \in Nat /\ q \div R \in Nat
    BY <2>4, <1>1
  <2> QED
    BY <2>1, <2>2, <2>3, <2>5 DEF q
<1> DEFINE p == i \div 5
           q == j \div 5
<1>6. /\ MECHANISMS[(i % 5) + 1] = MECHANISMS[(j % 5) + 1]
      /\ CASES[(p \div R) + 1] = CASES[(q \div R) + 1]
      /\ (p % R) + 1 = (q % R) + 1
  BY <1>4
<1>7. (i % 5) + 1 = (j % 5) + 1 /\ (p \div R) + 1 = (q \div R) + 1
  BY <1>5, <1>6, ListsDistinct DEF C
<1>8. p \in Nat /\ q \in Nat /\ p \div R = q \div R /\ p % R = q % R
  BY <1>5, <1>6, <1>7
<1> HIDE DEF p, q
<1>9. p = q
  BY <1>1, <1>8, DivModSame
<1>10. i \in Nat /\ j \in Nat /\ i \div 5 = j \div 5 /\ i % 5 = j % 5
  BY <1>5, <1>7, <1>9 DEF p, q
<1> QED
  BY <1>10, DivModSame

\* A whole campaign has one row for each key.
LEMMA WholeFacts ==
    ASSUME experiment \in {"s5", "s6"}
    PROVE  /\ TOTAL \in Nat \ {0} /\ DOMAIN Whole = 1..TOTAL
           /\ Whole \in Seq(Range(Whole)) /\ Len(Whole) = TOTAL
           /\ Whole = Lines(Grid)
           /\ \A j \in 1..TOTAL : Key(Whole[j]) \in Grid
           /\ \A j, k \in 1..TOTAL : Key(Whole[j]) = Key(Whole[k]) => j = k
           /\ \A key \in Grid : \E j \in 1..TOTAL :
                 Whole[j] = run_one(key[1], key[2], key[3])
           /\ \A j \in 1..TOTAL : \E key \in Grid :
                 Whole[j] = run_one(key[1], key[2], key[3])
           /\ Cardinality(Keys(Whole)) = TOTAL
           /\ IsFiniteSet(Keys(Whole))
<1>1. TOTAL \in Nat \ {0} /\ DOMAIN Whole = 1..TOTAL /\ Whole = Lines(Grid)
  BY CellsAreGrid, LinesOfAll DEF Whole, RowAt
<1>2. \A j \in 1..TOTAL : Whole[j] = RowAt(j)
  BY DEF Whole
<1>3. Whole \in Seq(Range(Whole)) /\ Len(Whole) = TOTAL
  BY <1>1 DEF Range, Whole
<1>4. \A j \in 1..TOTAL : j - 1 \in 0..(TOTAL - 1) /\ CellOf(j - 1) \in Grid
  BY <1>1, CellsAreGrid
<1>5. \A key \in Grid : key = <<key[1], key[2], key[3]>>
  BY DEF Grid
<1>6. \A j \in 1..TOTAL : Key(Whole[j]) = CellOf(j - 1)
  BY <1>2, <1>4, <1>5, RecordKey DEF RowAt
<1>7. \A j, k \in 1..TOTAL : Key(Whole[j]) = Key(Whole[k]) => j = k
  <2> SUFFICES ASSUME NEW j \in 1..TOTAL, NEW k \in 1..TOTAL,
                      CellOf(j - 1) = CellOf(k - 1)
               PROVE  j = k
    BY <1>6
  <2>1. j - 1 = k - 1
    BY <1>4, CellsDistinct
  <2> QED
    BY <1>1, <2>1
<1>8. \A key \in Grid : \E j \in 1..TOTAL :
         Whole[j] = run_one(key[1], key[2], key[3])
  <2> SUFFICES ASSUME NEW key \in Grid
               PROVE  \E j \in 1..TOTAL :
                         Whole[j] = run_one(key[1], key[2], key[3])
    OBVIOUS
  <2>1. PICK i \in 0..(TOTAL - 1) : CellOf(i) = key
    BY CellsAreGrid
  <2>2. i + 1 \in 1..TOTAL /\ (i + 1) - 1 = i
    BY <1>1
  <2> QED
    BY <1>2, <2>1, <2>2 DEF RowAt
<1>9. \A j \in 1..TOTAL : \E key \in Grid :
         Whole[j] = run_one(key[1], key[2], key[3])
  BY <1>2, <1>4 DEF RowAt
<1>10. Cardinality(Keys(Whole)) = TOTAL /\ IsFiniteSet(Keys(Whole))
  <2> DEFINE f == [j \in 1..TOTAL |-> Key(Whole[j])]
             K == Keys(Whole)
  <2>1. K = {Key(Whole[j]) : j \in 1..TOTAL}
    BY <1>1 DEF Keys
  <2>2. f \in Bijection(1..TOTAL, K)
    BY <1>7, <2>1 DEF Bijection, Injection, Surjection, IsInjective
  <2>3. ExistsBijection(1..TOTAL, K)
    BY <2>2 DEF ExistsBijection
  <2>4. TOTAL \in Nat /\ IsFiniteSet(1..TOTAL)
    BY <1>1, FS_Interval
  <2> QED
    BY <2>3, <2>4, FS_CountingElements, FS_Bijection
<1> QED
  BY <1>1, <1>3, <1>4, <1>6, <1>7, <1>8, <1>9, <1>10

-----------------------------------------------------------------------------
(* A row, and a row in which one thing is wrong.                           *)

\* The fields of a row that damage changes.
Fields == {"double_effect", "effect_count", "replay_accepted", "disposition",
           "repetition", "mechanism", "case"}

\* A row is a record with these fields.
LEMMA RowShape ==
    ASSUME NEW m, NEW c, NEW k
    PROVE  LET row == run_one(m, c, k)
           IN  /\ Fields \subseteq DOMAIN row
               /\ row = [f \in DOMAIN row |-> row[f]]
               /\ row.mechanism = m /\ row.case = c /\ row.repetition = k
<1>1. CASE experiment = "s5"
  BY <1>1 DEF Fields, run_one, S5!run_one, S5!Record
<1>2. CASE experiment # "s5"
  BY <1>2 DEF Fields, run_one, S6!run_one, S6!Record
<1> QED
  BY <1>1, <1>2

\* The rows of a cell agree in everything that is compared.
LEMMA CategoryOfCell ==
    ASSUME experiment \in {"s5", "s6"}, NEW m, NEW c, NEW k, NEW l
    PROVE  Categorical(run_one(m, c, k)) = Categorical(run_one(m, c, l))
<1>1. CASE experiment = "s5"
  <2>1. experiment # "s6"
    BY <1>1
  <2> QED
    BY <1>1, <2>1 DEF Categorical, run_one, S5!run_one, S5!Record
<1>2. CASE experiment = "s6"
  <2>1. experiment # "s5"
    BY <1>2
  <2> QED
    BY <1>2, <2>1 DEF Categorical, run_one, S6!run_one, S6!Record
<1> QED
  BY <1>1, <1>2

\* A wrong row shows in its repetition or in what is compared.
LEMMA WrongShows ==
    ASSUME NEW m, NEW c, NEW k, NEW wrong \in Wrong(run_one(m, c, k))
    PROVE  /\ wrong.mechanism = m /\ wrong.case = c
           /\ \/ wrong.repetition = REPETITIONS + 1
              \/ /\ wrong.repetition = k
                 /\ Categorical(wrong) # Categorical(run_one(m, c, k))
<1> DEFINE row == run_one(m, c, k)
<1>1. /\ Fields \subseteq DOMAIN row /\ row = [f \in DOMAIN row |-> row[f]]
      /\ row.mechanism = m /\ row.case = c /\ row.repetition = k
  BY RowShape
<1>2. /\ wrong \in Wrong(row) /\ wrong # row
  BY DEF Wrong
<1> HIDE DEF row
<1>3. ASSUME NEW f \in Fields \ {"mechanism", "case", "repetition"}, NEW v,
             wrong = [row EXCEPT ![f] = v]
      PROVE  /\ wrong.mechanism = m /\ wrong.case = c /\ wrong.repetition = k
             /\ wrong[f] # row[f]
  BY <1>1, <1>2, <1>3 DEF Fields
<1>4. ASSUME NEW v, wrong = [row EXCEPT !.double_effect = v]
      PROVE  /\ wrong.mechanism = m /\ wrong.case = c /\ wrong.repetition = k
             /\ Categorical(wrong) # Categorical(row)
  BY <1>3, <1>4 DEF Fields, Categorical
<1>5. ASSUME NEW v, wrong = [row EXCEPT !.replay_accepted = v]
      PROVE  /\ wrong.mechanism = m /\ wrong.case = c /\ wrong.repetition = k
             /\ Categorical(wrong) # Categorical(row)
  BY <1>3, <1>5 DEF Fields, Categorical
<1>6. ASSUME NEW v, wrong = [row EXCEPT !.disposition = v]
      PROVE  /\ wrong.mechanism = m /\ wrong.case = c /\ wrong.repetition = k
             /\ Categorical(wrong) # Categorical(row)
  BY <1>3, <1>6 DEF Fields, Categorical
<1>7. ASSUME NEW v, NEW w,
             wrong = [row EXCEPT !.effect_count = v, !.double_effect = w]
      PROVE  /\ wrong.mechanism = m /\ wrong.case = c /\ wrong.repetition = k
             /\ Categorical(wrong) # Categorical(row)
  <2>1. /\ wrong.mechanism = m /\ wrong.case = c /\ wrong.repetition = k
        /\ wrong.effect_count = v /\ wrong.double_effect = w
    BY <1>1, <1>7 DEF Fields
  <2>2. ~(row.effect_count = v /\ row.double_effect = w)
    BY <1>1, <1>2, <1>7 DEF Fields
  <2> QED
    BY <2>1, <2>2 DEF Categorical
<1>8. ASSUME NEW v, wrong = [row EXCEPT !.repetition = v]
      PROVE  wrong.mechanism = m /\ wrong.case = c /\ wrong.repetition = v
  BY <1>1, <1>8 DEF Fields
<1> QED
  BY <1>2, <1>4, <1>5, <1>6, <1>7, <1>8 DEF Wrong, row

\* Lost and repeated rows show in the number of rows.
LEMMA NumberShows ==
    ASSUME experiment \in {"s5", "s6"}, NEW i \in 1..TOTAL
    PROVE  /\ Len(Drop(Whole, i)) = TOTAL - 1
           /\ Len(Append(Whole, Whole[i])) = TOTAL + 1
<1> DEFINE S == Range(Whole)
<1>1. /\ TOTAL \in Nat \ {0} /\ Whole \in Seq(S) /\ Len(Whole) = TOTAL
      /\ Whole[i] \in S
  BY WholeFacts DEF Range
<1> DEFINE a == SubSeq(Whole, 1, i - 1)
           b == SubSeq(Whole, i + 1, TOTAL)
<1>2. a \in Seq(S) /\ Len(a) = i - 1
  BY <1>1, SubSeqProperties
<1>3. b \in Seq(S) /\ Len(b) = TOTAL - i
  BY <1>1, SubSeqProperties
<1> HIDE DEF a, b, S
<1>4. Len(a \o b) = TOTAL - 1
  <2>1. Len(a \o b) = Len(a) + Len(b)
    BY <1>2, <1>3, ConcatProperties
  <2> QED
    BY <1>1, <1>2, <1>3, <2>1
<1>5. Drop(Whole, i) = a \o b
  BY <1>1 DEF Drop, a, b
<1> QED
  BY <1>1, <1>4, <1>5, AppendProperties

-----------------------------------------------------------------------------
(* The verdicts.                                                           *)

\* A set with one element has no two.
LEMMA OneElement ==
    ASSUME NEW S, IsFiniteSet(S), Cardinality(S) = 1, NEW x \in S, NEW y \in S
    PROVE  x = y
  BY FS_Singleton

(* A campaign with two or more repetitions in which a row was lost, added  *)
(* or changed is rejected: the rows of its cell no longer agree.           *)
LEMMA StruckRejected ==
    ASSUME experiment \in {"s5", "s6"}, REPETITIONS >= 2, NEW o,
           Struck(files[Raw(o)]), verify_campaign(o)
    PROVE  FALSE
<1> DEFINE rows == files[Raw(o)]
           Cell(i) == {j \in DOMAIN rows : rows[j].mechanism = rows[i].mechanism
                                           /\ rows[j].case = rows[i].case}
<1>1. /\ Len(rows) = TOTAL
      /\ \A i \in DOMAIN rows :
            /\ {rows[j].repetition : j \in Cell(i)} = 1..REPETITIONS
            /\ Cardinality({Categorical(rows[j]) : j \in Cell(i)}) = 1
  BY DEF verify_campaign
<1>2. PICK i \in 1..TOTAL :
         Sampled(Whole[i]) /\ rows \in DamagedRows(Whole, i)
  BY DEF Struck
<1> HIDE DEF rows
<1>3. TOTAL \in Nat
  BY WholeFacts
<1>4. rows # Drop(Whole, i) /\ rows # Append(Whole, Whole[i])
  <2>1. TOTAL - 1 # TOTAL /\ TOTAL + 1 # TOTAL
    BY <1>3
  <2> QED
    BY <1>1, <2>1, NumberShows
<1>5. PICK wrong \in Wrong(Whole[i]) : rows = [Whole EXCEPT ![i] = wrong]
  BY <1>2, <1>4 DEF DamagedRows
<1>6. PICK key \in Grid : Whole[i] = run_one(key[1], key[2], key[3])
  BY WholeFacts
<1> DEFINE m == key[1]
           c == key[2]
           k == key[3]
<1>7. /\ <<m, c, 2>> \in Grid /\ k = 1 /\ 2 \in 1..REPETITIONS
      /\ 1 \in 1..REPETITIONS
  <2>1. PICK a \in Range(MECHANISMS), b \in Range(CASES),
             d \in 1..REPETITIONS : key = <<a, b, d>>
    BY DEF Grid
  <2>2. m = a /\ c = b /\ k = d
    BY <2>1
  <2>3. 2 \in 1..REPETITIONS /\ 1 \in 1..REPETITIONS
    BY RepetitionsAssumption
  <2>4. Whole[i].repetition = k
    BY <1>6, RowShape
  <2>5. k = 1
    BY <1>2, <2>4 DEF Sampled
  <2> QED
    BY <2>2, <2>3, <2>5 DEF Grid
<1>8. PICK j \in 1..TOTAL : Whole[j] = run_one(m, c, 2)
  <2>1. \E j \in 1..TOTAL : Whole[j] = run_one(<<m, c, 2>>[1], <<m, c, 2>>[2],
                                               <<m, c, 2>>[3])
    BY <1>7, WholeFacts, Zenon
  <2> QED
    BY <2>1
<1> HIDE DEF m, c, k
<1>9. Whole[i] = run_one(m, c, 1) /\ wrong \in Wrong(run_one(m, c, 1))
  BY <1>5, <1>6, <1>7 DEF m, c, k
<1>10. i # j
  <2>1. Whole[i].repetition = 1 /\ Whole[j].repetition = 2
    BY <1>8, <1>9, RowShape
  <2> QED
    BY <2>1
<1>11. /\ DOMAIN rows = 1..TOTAL /\ rows[i] = wrong /\ rows[j] = Whole[j]
       /\ i \in DOMAIN rows /\ j \in DOMAIN rows
  BY <1>5, <1>10, WholeFacts
<1>12. /\ wrong.mechanism = m /\ wrong.case = c
       /\ \/ wrong.repetition = REPETITIONS + 1
          \/ Categorical(wrong) # Categorical(run_one(m, c, 1))
  BY <1>9, WrongShows
<1>13. Whole[j].mechanism = m /\ Whole[j].case = c
  BY <1>8, RowShape
<1>14. i \in Cell(i) /\ j \in Cell(i)
  BY <1>11, <1>12, <1>13
<1>15. wrong.repetition \in 1..REPETITIONS
  <2>1. {rows[n].repetition : n \in Cell(i)} = 1..REPETITIONS
    BY <1>1, <1>11
  <2>2. rows[i].repetition \in {rows[n].repetition : n \in Cell(i)}
    BY <1>14
  <2> QED
    BY <1>11, <2>1, <2>2
<1>16. Categorical(rows[i]) = Categorical(rows[j])
  <2> DEFINE I == Cell(i)
             f == [n \in I |-> Categorical(rows[n])]
             S == {Categorical(rows[n]) : n \in I}
  <2>1. IsFiniteSet(I)
    <3>1. I \subseteq 1..TOTAL /\ IsFiniteSet(1..TOTAL)
      BY <1>3, <1>11, FS_Interval
    <3> HIDE DEF I
    <3> QED
      BY <3>1, FS_Subset
  <2>2. Cardinality(S) = 1
    BY <1>1, <1>11
  <2>3. i \in I /\ j \in I
    BY <1>14
  <2> HIDE DEF I
  <2>4. f \in Surjection(I, S)
    BY DEF Surjection
  <2>5. IsFiniteSet(S)
    <3> HIDE DEF f, S
    <3> QED
      BY <2>1, <2>4, FS_Surjection
  <2>6. Categorical(rows[i]) \in S /\ Categorical(rows[j]) \in S
    BY <2>3
  <2> HIDE DEF S
  <2> QED
    BY <2>2, <2>5, <2>6, OneElement
<1>17. Categorical(wrong) = Categorical(run_one(m, c, 1))
  BY <1>8, <1>11, <1>16, CategoryOfCell
<1>18. wrong.repetition # REPETITIONS + 1
  BY <1>15, RepetitionsAssumption
<1> QED
  BY <1>12, <1>17, <1>18

\* What is loaded from rows tells their keys.
LEMMA LoadTellsKeys ==
    ASSUME NEW s, NEW t, load(s) = load(t)
    PROVE  Keys(s) = Keys(t)
<1>1. ASSUME NEW u, NEW v, load(u) = load(v), NEW key \in Keys(u)
      PROVE  key \in Keys(v)
  <2>1. PICK i \in DOMAIN u : key = Key(u[i])
    BY <1>1 DEF Keys
  <2>2. <<Key(u[i]), Categorical(u[i]), u[i].deterministic_terminal>>
           \in load(v)
    BY <1>1 DEF load
  <2>3. PICK j \in DOMAIN v : Key(u[i]) = Key(v[j])
    BY <2>2 DEF load
  <2> QED
    BY <2>1, <2>3 DEF Keys
<1> QED
  BY <1>1

(* Two whole campaigns compare equal; a damaged one and a whole one never  *)
(* do, whatever the number of repetitions.                                 *)
LEMMA ComparisonTells ==
    ASSUME experiment \in {"s5", "s6"}
    PROVE  /\ compare(Whole, Whole)
           /\ \A rows : Struck(rows) =>
                 ~compare(rows, Whole) /\ ~compare(Whole, rows)
<1>1. /\ TOTAL \in Nat \ {0} /\ Cardinality(Keys(Whole)) = TOTAL
      /\ Len(Whole) = TOTAL /\ DOMAIN Whole = 1..TOTAL
  BY WholeFacts
<1>2. compare(Whole, Whole)
  BY <1>1 DEF compare, NoDuplicates
<1>3. ASSUME NEW rows, Struck(rows), NoDuplicates(rows),
             load(rows) = load(Whole)
      PROVE  FALSE
  <2>1. PICK i \in 1..TOTAL : rows \in DamagedRows(Whole, i)
    BY <1>3 DEF Struck
  <2>2. Len(rows) = TOTAL
    BY <1>1, <1>3, LoadTellsKeys DEF NoDuplicates
  <2>3. rows # Drop(Whole, i) /\ rows # Append(Whole, Whole[i])
    <3>1. TOTAL - 1 # TOTAL /\ TOTAL + 1 # TOTAL
      BY <1>1
    <3> QED
      BY <2>2, <3>1, NumberShows
  <2>4. PICK wrong \in Wrong(Whole[i]) : rows = [Whole EXCEPT ![i] = wrong]
    BY <2>1, <2>3 DEF DamagedRows
  <2>5. PICK key \in Grid : Whole[i] = run_one(key[1], key[2], key[3])
    BY WholeFacts
  <2>6. /\ wrong.mechanism = key[1] /\ wrong.case = key[2]
        /\ \/ wrong.repetition = REPETITIONS + 1
           \/ /\ wrong.repetition = key[3]
              /\ Categorical(wrong) # Categorical(Whole[i])
    BY <2>4, <2>5, WrongShows
  <2>7. i \in DOMAIN rows /\ rows[i] = wrong
    BY <1>1, <2>4
  <2>8. <<Key(wrong), Categorical(wrong), wrong.deterministic_terminal>>
           \in load(Whole)
    BY <1>3, <2>7 DEF load
  <2>9. PICK j \in 1..TOTAL : /\ Key(wrong) = Key(Whole[j])
                              /\ Categorical(wrong) = Categorical(Whole[j])
    BY <1>1, <2>8 DEF load
  <2>10. wrong.repetition \in 1..REPETITIONS
    <3>1. Key(Whole[j]) \in Grid
      BY WholeFacts
    <3> QED
      BY <2>9, <3>1 DEF Key, Grid
  <2>11. wrong.repetition # REPETITIONS + 1
    BY <2>10, RepetitionsAssumption
  <2>12. Key(Whole[i]) = <<key[1], key[2], key[3]>>
    BY <2>5, RecordKey
  <2>13. Key(wrong) = Key(Whole[i])
    BY <2>6, <2>11, <2>12 DEF Key
  <2>14. i = j
    BY <2>9, <2>13, WholeFacts
  <2> QED
    BY <2>6, <2>9, <2>11, <2>14
<1> QED
  BY <1>2, <1>3 DEF compare

-----------------------------------------------------------------------------
(* The invariant of the rows.                                              *)

\* A step that leaves all published rows, and the damage, as they are.
LEMMA RowsStay ==
    ASSUME RowsInv, experiment' = experiment, damaged' = damaged,
           damaged # "NONE" => AllEnded',
           \A p \in Outputs : Same(Raw(p))
    PROVE  RowsInv'
<1>1. Whole' = Whole /\ \A rows : Struck(rows) => Struck(rows)'
  BY SameRows
<1>2. ASSUME NEW o \in Outputs, Exists(files', Raw(o))
      PROVE  IF damaged = o THEN Struck(files'[Raw(o)])
             ELSE files'[Raw(o)] = Whole
  <2>1. Exists(files, Raw(o)) /\ files'[Raw(o)] = files[Raw(o)]
    BY <1>2 DEF Same
  <2> QED
    BY <2>1 DEF RowsInv
<1>3. ASSUME NEW o \in Outputs, Exists(files, Raw(o))'
      PROVE  (IF damaged = o THEN Struck(files[Raw(o)])
              ELSE files[Raw(o)] = Whole)'
  <2>1. Raw(o)' = Raw(o)
    BY DEF Raw
  <2>2. CASE damaged = o
    <3>1. Struck(files'[Raw(o)])
      BY <1>2, <1>3, <2>2
    <3> QED
      BY <1>1, <2>2, <3>1 DEF Struck
  <2>3. CASE damaged # o
    <3>1. files'[Raw(o)] = Whole
      BY <1>2, <1>3, <2>3
    <3> QED
      BY <1>1, <2>3, <3>1
  <2> QED
    BY <2>2, <2>3
<1>4. (damaged # "NONE" => AllEnded)'
  OBVIOUS
<1> QED
  BY <1>3, <1>4 DEF RowsInv

\* Only PublishRaw touches the rows that are published.
LEMMA RawStays ==
    ASSUME IInv, NEW r \in Runs, CampaignStep(r), ~PublishRaw(r),
           NEW p \in Outputs
    PROVE  Same(Raw(p))
<1>0. PICK o \in Outputs : output[r] = o
  BY DEF IInv, TypeInv
<1>1. ASSUME NEW path, NEW content, path # Raw(p),
             files' = Put(files, path, content)
      PROVE  Same(Raw(p))
  BY <1>1, PutStep
<1>2. ASSUME NEW path, path # Raw(p), files' = Without(files, {path})
      PROVE  Same(Raw(p))
  BY <1>2, WithoutStep
<1>3. ASSUME files' = files
      PROVE  Same(Raw(p))
  BY <1>3 DEF Same
<1>4. Raw(p) \notin {Dir(o), Scratch, Partial(o), Checkpoint(o), Summary(o)}
  BY Paths
<1>5. CASE CheckPaths(r) \/ Warmup(r) \/ Stop(r)
  BY <1>3, <1>5 DEF CheckPaths, Warmup, Stop, Step
<1>6. CASE Measure(r) \/ StopInRow(r)
  <2>1. \E content : files' = [files EXCEPT ![Partial(o)] = content]
    BY <1>0, <1>6 DEF Measure, StopInRow, Step
  <2>2. PICK content : files' = [files EXCEPT ![Partial(o)] = content]
    BY <2>1
  <2> QED
    BY <1>4, <2>2 DEF Same, Exists
<1>7. CASE UnlinkCheckpoint(r) \/ RemoveScratch(r)
  BY <1>0, <1>2, <1>4, <1>7 DEF UnlinkCheckpoint, RemoveScratch, Step
<1>8. CASE MakeOutput(r) \/ MakeScratch(r)
  BY <1>0, <1>1, <1>3, <1>4, <1>8 DEF MakeOutput, MakeScratch, Step
<1>9. CASE OpenPartial(r) \/ WriteCheckpoint(r) \/ WriteSummary(r)
  <2>1. \E path \in {Partial(o), Checkpoint(o), Summary(o)} :
           \E content : files' = Put(files, path, content)
    BY <1>0, <1>9 DEF OpenPartial, WriteCheckpoint, WriteSummary, Step
  <2> QED
    BY <1>1, <1>4, <2>1
<1> QED
  BY <1>5, <1>6, <1>7, <1>8, <1>9 DEF CampaignStep

\* No run that has ended takes a step, and no step changes the experiment.
LEMMA LiveStep ==
    ASSUME NEW r \in Runs, CampaignStep(r)
    PROVE  pc[r] \notin Ended /\ experiment' = experiment
<1>1. CASE CheckPaths(r) \/ MakeOutput(r) \/ MakeScratch(r) \/ OpenPartial(r)
  BY <1>1 DEF CheckPaths, MakeOutput, MakeScratch, OpenPartial, Step, Ended
<1>2. CASE Warmup(r) \/ Measure(r) \/ Stop(r) \/ StopInRow(r)
  BY <1>2 DEF Warmup, Measure, Stop, StopInRow, Step, Ended
<1>3. CASE UnlinkCheckpoint(r) \/ WriteCheckpoint(r) \/ RemoveScratch(r)
  BY <1>3 DEF UnlinkCheckpoint, WriteCheckpoint, RemoveScratch, Step, Ended
<1>4. CASE PublishRaw(r) \/ WriteSummary(r)
  BY <1>4 DEF PublishRaw, WriteSummary, Step, Ended
<1> QED
  BY <1>1, <1>2, <1>3, <1>4 DEF CampaignStep

\* The rows that PublishRaw moves into place are whole.
LEMMA PublishedWhole ==
    ASSUME IInv, RowsInv, NEW r \in Runs, PublishRaw(r), UNCHANGED resultVars
    PROVE  RowsInv'
<1>0. PICK o \in Outputs : output[r] = o
  BY DEF IInv, TypeInv
<1>1. PICK rows : rows = Lines(files[Partial(o)].rows)
  OBVIOUS
<1>2. /\ pc[r] = "publish" /\ experiment' = experiment /\ damaged' = damaged
      /\ files' = Put(Without(files, {Partial(o)}), Raw(o), rows)
  BY <1>0, <1>1 DEF PublishRaw, Step, resultVars
<1>3. damaged = "NONE"
  BY <1>2 DEF RowsInv, AllEnded, Ended
<1>4. experiment \in {"s5", "s6"} /\ ~Exists(files, Raw(o))
  BY <1>0, <1>2 DEF IInv, TypeInv, RunInv, Loop
<1>5. Whole' = Whole /\ Whole = Lines(Grid)
  BY <1>2, <1>4, SameRows, WholeFacts
<1>6. ASSUME NEW p \in Outputs, Exists(files', Raw(p))
      PROVE  damaged # p /\ files'[Raw(p)] = Whole
  <2>1. damaged # p
    BY <1>3, OutputsAssumption
  <2>2. CASE p = o
    BY <1>4, <1>5, <1>6, <2>1, <2>2, PublishRawKeeps
  <2>3. CASE p # o
    <3>1. Raw(p) \notin {Raw(o), Partial(o)}
      BY <2>3, Paths
    <3>2. Exists(files, Raw(p)) /\ files'[Raw(p)] = files[Raw(p)]
      BY <1>2, <1>6, <3>1 DEF Put, Without, Restrict, Exists
    <3> QED
      BY <2>1, <3>2 DEF RowsInv
  <2> QED
    BY <2>2, <2>3
<1>7. (damaged # "NONE" => AllEnded)'
  BY <1>2, <1>3
<1>8. ASSUME NEW p \in Outputs, Exists(files, Raw(p))'
      PROVE  (damaged # p /\ files[Raw(p)] = Whole)'
  <2>1. Raw(p)' = Raw(p)
    BY DEF Raw
  <2> QED
    BY <1>2, <1>5, <1>6, <1>8, <2>1
<1> QED
  BY <1>7, <1>8 DEF RowsInv

\* Damage strikes whole rows, of one output.
LEMMA DamageStrikes ==
    ASSUME IInv, RowsInv, NEW o \in Outputs, Damage(o)
    PROVE  RowsInv'
<1>1. /\ AllEnded /\ Exists(files, Raw(o)) /\ damaged = "NONE"
      /\ damaged' = o /\ experiment' = experiment /\ pc' = pc
  BY DEF Damage, Finished
<1>2. experiment \in {"s5", "s6"}
  BY DEF IInv, TypeInv
<1>3. files[Raw(o)] = Whole /\ DOMAIN Whole = 1..TOTAL
  BY <1>1, <1>2, OutputsAssumption, WholeFacts DEF RowsInv
<1>4. PICK i \in {j \in DOMAIN Whole : Sampled(Whole[j])} :
         \E rows \in DamagedRows(Whole, i) :
            \/ files' = Put(files, Raw(o), rows)
            \/ files' = Put(Put(files, Raw(o), rows), Summary(o),
                            Resealed(o, rows))
  BY <1>3 DEF Damage
<1>5. PICK rows \in DamagedRows(Whole, i) :
         \/ files' = Put(files, Raw(o), rows)
         \/ files' = Put(Put(files, Raw(o), rows), Summary(o),
                         Resealed(o, rows))
  BY <1>4
<1>6. Struck(rows)
  BY <1>3, <1>4, <1>5 DEF Struck
<1>7. PICK summary : summary = Resealed(o, rows)
  OBVIOUS
<1>8. \/ files' = Put(files, Raw(o), rows)
      \/ files' = Put(Put(files, Raw(o), rows), Summary(o), summary)
  BY <1>5, <1>7
<1>9. Raw(o) # Summary(o)
  BY Paths
<1>10. files'[Raw(o)] = rows
  BY <1>8, <1>9 DEF Put
<1>11. ASSUME NEW p \in Outputs, p # o, Exists(files', Raw(p))
       PROVE  files'[Raw(p)] = Whole
  <2>1. Raw(p) \notin {Raw(o), Summary(o)}
    BY <1>11, Paths
  <2>2. Same(Raw(p))
    <3>1. CASE files' = Put(files, Raw(o), rows)
      BY <2>1, <3>1, PutStep
    <3>2. CASE files' = Put(Put(files, Raw(o), rows), Summary(o), summary)
      BY <2>1, <3>2 DEF Put, Same, Exists
    <3> QED
      BY <1>8, <3>1, <3>2
  <2>3. Exists(files, Raw(p)) /\ files'[Raw(p)] = files[Raw(p)]
    BY <1>11, <2>2 DEF Same
  <2> QED
    BY <1>1, <2>3, OutputsAssumption DEF RowsInv
<1>12. Whole' = Whole /\ Struck(rows)'
  BY <1>1, <1>6, SameRows
<1>13. (damaged # "NONE" => AllEnded)'
  BY <1>1 DEF AllEnded
<1>14. ASSUME NEW p \in Outputs, Exists(files, Raw(p))'
       PROVE  (IF damaged = p THEN Struck(files[Raw(p)])
               ELSE files[Raw(p)] = Whole)'
  <2>1. Raw(p)' = Raw(p)
    BY DEF Raw
  <2>2. CASE p = o
    <3>1. files'[Raw(p)'] = rows
      BY <1>10, <2>1, <2>2
    <3> QED
      BY <1>1, <1>12, <2>2, <3>1 DEF Struck
  <2>3. CASE p # o
    BY <1>1, <1>11, <1>12, <1>14, <2>1, <2>3
  <2> QED
    BY <2>2, <2>3
<1> QED
  BY <1>13, <1>14 DEF RowsInv

\* All steps.
LEMMA RowsNext ==
    ASSUME IInv, RowsInv, [ResultsNext]_<<vars, resultVars>>
    PROVE  RowsInv'
<1>1. ASSUME NEW r \in Runs, CampaignStep(r), UNCHANGED resultVars
      PROVE  RowsInv'
  <2>1. damaged = "NONE" /\ damaged' = damaged /\ experiment' = experiment
    BY <1>1, LiveStep DEF RowsInv, AllEnded, resultVars
  <2>2. CASE PublishRaw(r)
    BY <1>1, <2>2, PublishedWhole
  <2>3. CASE ~PublishRaw(r)
    <3>1. \A p \in Outputs : Same(Raw(p))
      BY <1>1, <2>3, RawStays
    <3> QED
      BY <2>1, <3>1, RowsStay
  <2> QED
    BY <2>2, <2>3
<1>2. ASSUME NEW o \in Outputs, VerifyResults(o) \/ SealDirectory(o)
      PROVE  RowsInv'
  <2>1. UNCHANGED <<experiment, pc, damaged>>
    BY <1>2 DEF VerifyResults, SealDirectory, resultVars
  <2>2. damaged # "NONE" => AllEnded'
    BY <2>1 DEF RowsInv, AllEnded
  <2>3. \A p \in Outputs : Same(Raw(p))
    BY <1>2, CheckKeeps
  <2> QED
    BY <2>1, <2>2, <2>3, RowsStay
<1>3. ASSUME UNCHANGED <<vars, damaged>>
      PROVE  RowsInv'
  <2>1. damaged # "NONE" => AllEnded'
    BY <1>3 DEF RowsInv, AllEnded, vars
  <2>2. \A p \in Outputs : Same(Raw(p))
    BY <1>3, LookKeeps
  <2> QED
    BY <1>3, <2>1, <2>2, RowsStay DEF vars
<1>4. ASSUME NEW o \in Outputs, VerifyExperiments(o)
      PROVE  RowsInv'
  BY <1>3, <1>4 DEF VerifyExperiments
<1>5. ASSUME NEW a \in Outputs, NEW b \in Outputs, Compare(a, b)
      PROVE  RowsInv'
  BY <1>3, <1>5 DEF Compare
<1>6. ASSUME UNCHANGED <<vars, resultVars>>
      PROVE  RowsInv'
  BY <1>3, <1>6 DEF resultVars
<1> QED
  BY <1>1, <1>2, <1>4, <1>5, <1>6, DamageStrikes DEF ResultsNext

(* However campaigns run, die and are damaged: published rows are those of *)
(* a whole campaign, or those of one that one stroke of damage has hit.    *)
THEOREM RowsInvariance == ResultsSpec => [](IInv /\ RowsInv)
<1>1. ResultsInit => IInv /\ RowsInv
  <2>1. ResultsInit => IInv
    BY InitHolds
  <2>2. ResultsInit => RowsInv
    BY DEF ResultsInit, Init, RowsInv, NoFiles, Exists
  <2> QED
    BY <2>1, <2>2
<1>2. IInv /\ RowsInv /\ [ResultsNext]_<<vars, resultVars>>
         => (IInv /\ RowsInv)'
  BY NextKeeps, RowsNext
<1> QED
  BY <1>1, <1>2, PTL DEF ResultsSpec

(* With two or more repetitions of a cell, verify_experiments accepts a    *)
(* campaign only with the rows that were measured: a row that was lost,    *)
(* repeated or altered is found, even when the summary was made again from *)
(* the damaged rows.                                                       *)
THEOREM DamagedResultsRejected ==
    REPETITIONS >= 2 => (ResultsSpec => DamageIsRejected)
<1> SUFFICES ASSUME REPETITIONS >= 2
             PROVE  ResultsSpec => DamageIsRejected
  OBVIOUS
<1>1. ASSUME IInv, RowsInv, [ResultsNext]_<<vars, resultVars>>
      PROVE  [\A o \in accepted' \ accepted : Genuine(files[Raw(o)])]_accepted
  <2> SUFFICES ASSUME NEW o \in accepted' \ accepted
               PROVE  Genuine(files[Raw(o)])
    OBVIOUS
  <2>1. PICK p \in Outputs : VerifyExperiments(p)
    BY <1>1 DEF ResultsNext, VerifyResults, SealDirectory, Damage, Compare,
                resultVars
  <2>2. o = p
    BY <2>1 DEF VerifyExperiments
  <2>3. Exists(files, Raw(p)) /\ verify_campaign(p)
    BY <2>1 DEF VerifyExperiments, verify_experiments
  <2>4. experiment \in {"s5", "s6"}
    BY <1>1 DEF IInv, TypeInv
  <2>5. ~Struck(files[Raw(p)])
    BY <2>3, <2>4, StruckRejected
  <2>6. files[Raw(p)] = Whole
    BY <1>1, <2>3, <2>5 DEF RowsInv
  <2>7. Genuine(Whole)
    BY <2>4, WholeFacts, LinesAreGenuine
  <2> QED
    BY <2>2, <2>6, <2>7
<1> QED
  BY <1>1, RowsInvariance, PTL DEF ResultsSpec, DamageIsRejected

(* compare_experiment_categories.py calls two finished campaigns equal     *)
(* exactly when neither was damaged, whatever the number of repetitions.   *)
THEOREM ComparisonsAreExact == ResultsSpec => ComparisonExact
<1>1. ASSUME IInv, RowsInv, [ResultsNext]_<<vars, resultVars>>,
             comparison' # comparison
      PROVE  comparison'[3] <=>
                damaged \notin {comparison'[1], comparison'[2]}
  <2>1. PICK a, b \in Outputs : Compare(a, b)
    BY <1>1 DEF ResultsNext, VerifyResults, SealDirectory, Damage,
                VerifyExperiments, resultVars
  <2> DEFINE verdict == compare(files[Raw(a)], files[Raw(b)])
  <2>2. /\ a # b /\ Exists(files, Raw(a)) /\ Exists(files, Raw(b))
        /\ comparison' = <<a, b, verdict>>
    BY <2>1 DEF Compare
  <2>3. experiment \in {"s5", "s6"}
    BY <1>1 DEF IInv, TypeInv
  <2>4. /\ IF damaged = a THEN Struck(files[Raw(a)])
           ELSE files[Raw(a)] = Whole
        /\ IF damaged = b THEN Struck(files[Raw(b)])
           ELSE files[Raw(b)] = Whole
    BY <1>1, <2>2 DEF RowsInv
  <2>5. verdict <=> damaged \notin {a, b}
    BY <2>2, <2>3, <2>4, ComparisonTells
  <2> HIDE DEF verdict
  <2>6. /\ comparison'[1] = a /\ comparison'[2] = b
        /\ comparison'[3] = verdict
    BY <2>2
  <2> QED
    BY <2>5, <2>6
<1> QED
  BY <1>1, RowsInvariance, PTL DEF ResultsSpec, ComparisonExact
=============================================================================
