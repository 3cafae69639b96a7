---------------------------- MODULE ArchiveProofs ----------------------------
(***************************************************************************)
(* Proofs about Archive, for any builders, names, allowlists and edits.    *)
(* Three arguments are put together: the partial file is a lock, since it  *)
(* is created exclusively and every step from its creation to os.replace   *)
(* belongs to one builder; the verifier accepts an archive exactly when it *)
(* is the packed form of the allowlist; and once a builder has published,  *)
(* with no edit since, whoever publishes next has verified against the     *)
(* same allowlist and tree.                                                *)
(***************************************************************************)
EXTENDS Archive, WellFoundedInduction, FiniteSetTheorems, SequenceTheorems,
        TLAPS

-----------------------------------------------------------------------------
(* The inductive invariant.                                                *)

Again == {"verify_again", "source_again", "archive_again", "compare"}
Steps == Idle \cup Holding \cup {"parse", "read"} \cup Again

Members == [name : Range(Names), data : Contents, mode : {644, 755},
            fixed : BOOLEAN]
ArchiveType == [members : Seq(Members), closed : BOOLEAN,
                gap : BOOLEAN, comment : BOOLEAN]

\* f is a function on some names, with values in data.
ByName(f, data) ==
    /\ f = [name \in DOMAIN f |-> f[name]]
    /\ DOMAIN f \subseteq Range(Names)
    /\ \A name \in DOMAIN f : f[name] \in data

\* listed is what some valid allowlist says.
Valid(listed) ==
    /\ listed # Invalid
    /\ \E lines \in Allowlists : listed = parse_allowlist(lines)

TypeOK ==
    /\ ByName(source, Contents \cup {Link})
    /\ allowlist \in Allowlists
    /\ DOMAIN files \subseteq {Output, Partial}
    /\ files = [path \in DOMAIN files |-> files[path]]
    /\ \A path \in DOMAIN files : files[path] \in ArchiveType
    /\ pc \in [Builders -> Steps]
    /\ DOMAIN expected = Builders
    /\ expected = [b \in Builders |-> expected[b]]
    /\ left \in [Builders -> Seq(Range(Names))]
    /\ hash \in [Builders -> ArchiveType]
    /\ clean \subseteq Builders /\ settled \subseteq Builders

\* The partial file is a lock: who is at work on it has it to himself.
LockInv ==
    /\ \A b \in Builders : pc[b] \in Holding => Exists(files, Partial)
    /\ \A a, b \in Builders : pc[a] \in Holding /\ pc[b] \in Holding => a = b
    /\ \A b \in Builders \ Overwriting :
          pc[b] = "replace" => ~Exists(files, Output)

\* What a builder knows of the allowlist and of its partial archive.
ListOf(b) ==
    /\ pc[b] \in Steps \ (Idle \cup {"parse"}) => Valid(expected[b])
    /\ pc[b] \in {"look_again", "replace"} =>
          files[Partial] = Packed(expected[b])

ListInv == \A b \in Builders : ListOf(b)

Verified == {"verify_source", "verify_archive", "look_again", "replace"}

\* Whoever is about to publish after that verified against the same list.
FreshInv ==
    settled # {} =>
        /\ Exists(files, Output)
        /\ \A a \in Builders : pc[a] \in Verified =>
              expected[a] = parse_allowlist(allowlist)

\* A builder since whose publication nothing was edited.
SettledOf(b) ==
    /\ pc[b] \in Again \cup Idle
    /\ pc[b] = "source_again" =>
          /\ expected[b] = parse_allowlist(allowlist)
          /\ DOMAIN source = DOMAIN expected[b]
          /\ \A name \in DOMAIN source :
                name \in Range(left[b]) \/ source[name] = expected[b][name]
    /\ pc[b] \in {"archive_again", "compare", "done"} =>
          parse_allowlist(allowlist) = source
    /\ pc[b] = "archive_again" => expected[b] = source
    /\ pc[b] \in {"compare", "done"} => files[Output] = Packed(source)

SettledInv == \A b \in settled : SettledOf(b)

\* The archive of the first n files of the tree, not yet closed.
Begun(n) ==
    LET names == InOrder(DOMAIN source)
    IN  [members |-> [i \in 1..n |-> Member(names[i], source[names[i]])],
         closed |-> FALSE, gap |-> FALSE, comment |-> FALSE]

\* Nothing stands in the way of builder b.
CleanWorld(b) ==
    /\ \A other \in Builders \ {b} : pc[other] \in Idle
    /\ source # Invalid /\ parse_allowlist(allowlist) = source
    /\ inspect_source(source)

\* How far an unhindered build has come.
CleanOf(b) ==
    /\ pc[b] # "raised"
    /\ pc[b] \in {"parse", "read"} => ~Exists(files, Partial)
    /\ pc[b] \in {"parse", "read"} \cup Holding =>
          b \in Overwriting \/ ~Exists(files, Output)
    /\ pc[b] \in {"read", "verify_source", "source_again"} =>
          Range(left[b]) \subseteq DOMAIN source
    /\ pc[b] \in Steps \ (Idle \cup {"parse"}) => expected[b] = source
    /\ pc[b] = "write" =>
          \E n \in 0..Len(InOrder(DOMAIN source)) :
             /\ files[Partial] = Begun(n)
             /\ left[b] = SubSeq(InOrder(DOMAIN source), n + 1,
                                 Len(InOrder(DOMAIN source)))
    /\ pc[b] \in Holding \ {"write"} => files[Partial] = Packed(source)
    /\ pc[b] \in Again =>
          Exists(files, Output) /\ files[Output] = Packed(source)
    /\ pc[b] \in (Holding \cup Again) \ {"write", "digest"} =>
          hash[b] = Packed(source)

CleanInv == \A b \in clean : CleanWorld(b) /\ CleanOf(b)

IInv ==
    /\ TypeOK /\ LockInv /\ ListInv /\ FreshInv /\ SettledInv /\ CleanInv
    /\ PublishedIsAllowed

-----------------------------------------------------------------------------
(* Sequences of names.                                                     *)

(* Every set of naturals that is not empty has a least member: what stands *)
(* for induction below.                                                    *)
LEMMA Least ==
    ASSUME NEW T \in SUBSET Nat, T # {}
    PROVE  \E x \in T : \A y \in T : x <= y
<1> DEFINE R == {p \in Nat \X Nat : p[1] < p[2]}
<1>1. R = OpToRel(<, Nat)
  BY DEF OpToRel
<1>2. PICK x \in T : \A y \in T : ~(<<y, x>> \in OpToRel(<, Nat))
  BY NatLessThanWellFounded, WFMin, Zenon
<1>3. \A y \in T : ~(<<y, x>> \in R)
  BY <1>1, <1>2
<1>4. ASSUME NEW y \in T, ~(x <= y) PROVE FALSE
  <2>1. x \in Nat /\ y \in Nat /\ y < x
    BY <1>4
  <2>2. <<y, x>> \in R
    BY <2>1
  <2> QED BY <1>3, <2>2
<1> QED BY <1>4

(* Distinct, a comparison of two sizes as in the code, says that no two    *)
(* places of the sequence are the same.                                    *)
LEMMA DistinctPlaces ==
    ASSUME NEW S, NEW s \in Seq(S)
    PROVE  Distinct(s) <=> \A i, j \in DOMAIN s : s[i] = s[j] => i = j
<1>1. DOMAIN s = 1 .. Len(s) /\ Len(s) \in Nat
  OBVIOUS
<1>2. s \in [1 .. Len(s) -> Range(s)]
  BY <1>1 DEF Range
<1>3. s \in Surjection(1 .. Len(s), Range(s))
  BY <1>1, <1>2 DEF Surjection, Range
<1>4. IsFiniteSet(1 .. Len(s)) /\ Cardinality(1 .. Len(s)) = Len(s)
  BY <1>1, FS_Interval
<1>5. Distinct(s) <=> s \in Injection(1 .. Len(s), Range(s))
  BY <1>3, <1>4, FS_Surjection DEF Distinct
<1>6. s \in Injection(1 .. Len(s), Range(s))
         <=> \A i, j \in DOMAIN s : s[i] = s[j] => i = j
  BY <1>1, <1>2 DEF Injection, IsInjective
<1> QED BY <1>5, <1>6

\* What the recursion of InOrder says of a function on 0 .. n.
Keeps(f, n, names) ==
    f = [i \in 0 .. n |->
            IF i = 0 THEN <<>>
            ELSE IF Names[i] \in names THEN Append(f[i - 1], Names[i])
            ELSE f[i - 1]]

(* The recursion of InOrder has a solution.                                *)
LEMMA KeepsExists ==
    ASSUME NEW names, NEW n \in 0 .. Len(Names)
    PROVE  \E f \in [0 .. n -> Seq(Range(Names))] : Keeps(f, n, names)
<1> DEFINE Has(k) == \E f \in [0 .. k -> Seq(Range(Names))] : Keeps(f, k, names)
           Bad == {k \in 0 .. Len(Names) : ~Has(k)}
<1>0. /\ Names \in Seq(Range(Names)) /\ Len(Names) \in Nat
      /\ \A i \in 1 .. Len(Names) : Names[i] \in Range(Names)
  BY NamesAssumption DEF Range
<1>1. Has(0)
  <2> DEFINE f == [i \in 0 .. 0 |-> <<>>]
  <2>1. f \in [0 .. 0 -> Seq(Range(Names))]
    OBVIOUS
  <2>2. Keeps(f, 0, names)
    BY DEF Keeps
  <2> QED BY <2>1, <2>2
<1>2. ASSUME NEW k \in 1 .. Len(Names), Has(k - 1)
      PROVE  Has(k)
  <2>1. PICK f \in [0 .. k - 1 -> Seq(Range(Names))] : Keeps(f, k - 1, names)
    BY <1>2
  <2> DEFINE top == IF Names[k] \in names THEN Append(f[k - 1], Names[k])
                                          ELSE f[k - 1]
             g == [i \in 0 .. k |-> IF i = k THEN top ELSE f[i]]
  <2>2. top \in Seq(Range(Names))
    <3>1. f[k - 1] \in Seq(Range(Names))
      BY <1>0
    <3> QED BY <1>0, <3>1
  <2>3. g \in [0 .. k -> Seq(Range(Names))]
    BY <1>0, <2>2
  <2>4. \A i \in 0 .. k :
           g[i] = IF i = 0 THEN <<>>
                  ELSE IF Names[i] \in names THEN Append(g[i - 1], Names[i])
                  ELSE g[i - 1]
    <3> SUFFICES ASSUME NEW i \in 0 .. k
                 PROVE  g[i] = IF i = 0 THEN <<>>
                               ELSE IF Names[i] \in names
                                    THEN Append(g[i - 1], Names[i])
                               ELSE g[i - 1]
      OBVIOUS
    <3>1. CASE i = k
      BY <1>0, <3>1
    <3>2. CASE i # k
      <4>1. i \in 0 .. k - 1 /\ g[i] = f[i]
        BY <1>0, <3>2
      <4>2. i # 0 => i - 1 \in 0 .. k - 1 /\ g[i - 1] = f[i - 1]
        BY <1>0, <3>2
      <4> QED BY <2>1, <4>1, <4>2 DEF Keeps
    <3> QED BY <3>1, <3>2
  <2>5. Keeps(g, k, names)
    BY <2>3, <2>4 DEF Keeps
  <2> QED BY <2>3, <2>5
<1>3. SUFFICES ASSUME Bad # {} PROVE FALSE
  OBVIOUS
<1> HIDE DEF Has
<1>4. PICK m \in Bad : \A k \in Bad : m <= k
  <2>1. Bad \in SUBSET Nat
    BY <1>0
  <2> QED BY <1>3, <2>1, Least
<1>5. m # 0 /\ m \in 1 .. Len(Names)
  BY <1>0, <1>1, <1>4
<1>6. m - 1 \in 0 .. Len(Names) /\ m - 1 \notin Bad
  BY <1>0, <1>4, <1>5
<1> QED BY <1>2, <1>4, <1>5, <1>6

(* Ordinal finds the place of a name.                                      *)
LEMMA OrdinalOfName ==
    ASSUME NEW i \in 1 .. Len(Names)
    PROVE  Ordinal(Names[i]) = i
<1>1. DOMAIN Names = 1 .. Len(Names)
  BY NamesAssumption
<1>2. \E k \in DOMAIN Names : Names[k] = Names[i]
  BY <1>1
<1>3. Ordinal(Names[i]) \in DOMAIN Names /\ Names[Ordinal(Names[i])] = Names[i]
  BY <1>2 DEF Ordinal
<1> QED BY <1>1, <1>3, NamesAssumption

\* s is made of the first n names that are among names, in their order.
Kept(s, n, names) ==
    /\ s \in Seq(Range(Names))
    /\ \A i \in DOMAIN s : s[i] \in names /\ Ordinal(s[i]) \in 1 .. n
    /\ \A k \in 1 .. n :
          Names[k] \in names => \E i \in DOMAIN s : s[i] = Names[k]
    /\ \A i, j \in DOMAIN s : i < j => Ordinal(s[i]) < Ordinal(s[j])

(* One turn of the recursion: name n + 1 is put at the end or left out.    *)
LEMMA KeptNext ==
    ASSUME NEW names, NEW n \in 1 .. Len(Names), NEW s, Kept(s, n - 1, names)
    PROVE  Kept(IF Names[n] \in names THEN Append(s, Names[n]) ELSE s, n, names)
<1>0. /\ Names \in Seq(Range(Names)) /\ Len(Names) \in Nat /\ n \in Nat
      /\ Names[n] \in Range(Names) /\ Ordinal(Names[n]) = n
  BY NamesAssumption, OrdinalOfName DEF Range
<1>1. s \in Seq(Range(Names)) /\ DOMAIN s = 1 .. Len(s) /\ Len(s) \in Nat
  BY DEF Kept
<1>2. CASE Names[n] \notin names
  <2>1. \A k \in 1 .. n : Names[k] \in names => k \in 1 .. n - 1
    BY <1>0, <1>2
  <2>2. \A i \in DOMAIN s : Ordinal(s[i]) \in 1 .. n
    BY <1>0 DEF Kept
  <2> QED BY <1>2, <2>1, <2>2 DEF Kept
<1>3. CASE Names[n] \in names
  <2> DEFINE t == Append(s, Names[n])
  <2>1. /\ t \in Seq(Range(Names)) /\ Len(t) = Len(s) + 1
        /\ DOMAIN t = 1 .. Len(s) + 1
        /\ t[Len(s) + 1] = Names[n]
        /\ \A i \in 1 .. Len(s) : t[i] = s[i]
    BY <1>0, <1>1
  <2> HIDE DEF t
  <2>2. \A i \in DOMAIN t : i \in DOMAIN s \/ i = Len(s) + 1
    BY <1>1, <2>1
  <2>3. \A i \in DOMAIN t : t[i] \in names /\ Ordinal(t[i]) \in 1 .. n
    BY <1>0, <1>1, <1>3, <2>1, <2>2 DEF Kept
  <2>4. ASSUME NEW k \in 1 .. n, Names[k] \in names
        PROVE  \E i \in DOMAIN t : t[i] = Names[k]
    <3>1. CASE k = n
      BY <1>1, <2>1, <3>1
    <3>2. CASE k # n
      <4>1. PICK i \in DOMAIN s : s[i] = Names[k]
        BY <1>0, <2>4, <3>2 DEF Kept
      <4>2. i \in DOMAIN t /\ t[i] = Names[k]
        BY <1>1, <2>1, <4>1
      <4> QED BY <4>2
    <3> QED BY <3>1, <3>2
  <2>5. ASSUME NEW i \in DOMAIN t, NEW j \in DOMAIN t, i < j
        PROVE  Ordinal(t[i]) < Ordinal(t[j])
    <3>1. i \in DOMAIN s /\ t[i] = s[i]
      BY <1>1, <2>1, <2>5
    <3>2. CASE j \in DOMAIN s
      BY <1>1, <2>1, <2>5, <3>1, <3>2 DEF Kept
    <3>3. CASE j = Len(s) + 1
      <4>1. Ordinal(s[i]) \in 1 .. n - 1
        BY <3>1 DEF Kept
      <4> QED BY <1>0, <2>1, <3>1, <3>3, <4>1
    <3> QED BY <2>2, <3>2, <3>3
  <2>6. Kept(t, n, names)
    BY <2>1, <2>3, <2>4, <2>5 DEF Kept
  <2> QED BY <1>3, <2>6 DEF t
<1> QED BY <1>2, <1>3

(* InOrder lists every name of the set, each once and in the order of      *)
(* Names: the sorted() of the builder and of the verifier.                 *)
LEMMA InOrderKept ==
    ASSUME NEW names
    PROVE  Kept(InOrder(names), Len(Names), names)
<1>0. Len(Names) \in Nat
  BY NamesAssumption
<1> DEFINE f == CHOOSE g : Keeps(g, Len(Names), names)
<1>1. Keeps(f, Len(Names), names)
  BY <1>0, KeepsExists
<1>2. InOrder(names) = f[Len(Names)]
  BY DEF InOrder, Keeps
<1> HIDE DEF f
<1> DEFINE Bad == {k \in 0 .. Len(Names) : ~Kept(f[k], k, names)}
<1>3. 0 \notin Bad
  <2>1. f[0] = <<>>
    BY <1>0, <1>1 DEF Keeps
  <2>2. <<>> \in Seq(Range(Names)) /\ DOMAIN <<>> = {} /\ 1 .. 0 = {}
    OBVIOUS
  <2>3. Kept(<<>>, 0, names)
    BY <2>2 DEF Kept
  <2> QED BY <2>1, <2>3
<1>4. ASSUME NEW k \in 1 .. Len(Names), k - 1 \notin Bad
      PROVE  k \notin Bad
  <2>1. Kept(f[k - 1], k - 1, names)
    BY <1>0, <1>4
  <2>2. f[k] = IF Names[k] \in names THEN Append(f[k - 1], Names[k])
               ELSE f[k - 1]
    <3>1. k \in 0 .. Len(Names) /\ k # 0
      BY <1>0
    <3>2. \A i \in 0 .. Len(Names) :
             f[i] = IF i = 0 THEN <<>>
                    ELSE IF Names[i] \in names THEN Append(f[i - 1], Names[i])
                    ELSE f[i - 1]
      <4> DEFINE g == [i \in 0 .. Len(Names) |->
                          IF i = 0 THEN <<>>
                          ELSE IF Names[i] \in names
                               THEN Append(f[i - 1], Names[i])
                          ELSE f[i - 1]]
      <4>1. f = g
        BY <1>1, Zenon DEF Keeps
      <4>2. \A i \in 0 .. Len(Names) :
               g[i] = IF i = 0 THEN <<>>
                      ELSE IF Names[i] \in names
                           THEN Append(f[i - 1], Names[i])
                      ELSE f[i - 1]
        BY Zenon
      <4> HIDE DEF g
      <4> QED BY <4>1, <4>2
    <3> QED BY <3>1, <3>2
  <2>3. Kept(f[k], k, names)
    BY <2>1, <2>2, KeptNext
  <2> QED BY <2>3
<1>5. SUFFICES ASSUME Bad # {} PROVE FALSE
  <2>1. Len(Names) \notin Bad
    BY <1>5
  <2> QED BY <1>0, <1>2, <2>1
<1>6. PICK m \in Bad : \A k \in Bad : m <= k
  <2>1. Bad \in SUBSET Nat
    BY <1>0
  <2> QED BY <1>5, <2>1, Least
<1>7. m \in 1 .. Len(Names) /\ m - 1 \notin Bad
  <2>1. m \in 0 .. Len(Names) /\ m # 0
    BY <1>3, <1>6
  <2> HIDE DEF Bad
  <2> QED BY <1>0, <1>6, <2>1
<1> QED BY <1>4, <1>6, <1>7

(* InOrder in the words of the checks that the code makes on it.           *)
LEMMA InOrderFacts ==
    ASSUME NEW names \in SUBSET Range(Names)
    PROVE  /\ InOrder(names) \in Seq(Range(Names))
           /\ Len(InOrder(names)) \in Nat
           /\ DOMAIN InOrder(names) = 1 .. Len(InOrder(names))
           /\ Range(InOrder(names)) = names
           /\ Sorted(InOrder(names))
           /\ \A i, j \in DOMAIN InOrder(names) :
                 InOrder(names)[i] = InOrder(names)[j] => i = j
<1> DEFINE s == InOrder(names)
<1>1. Kept(s, Len(Names), names)
  BY InOrderKept
<1> HIDE DEF s
<1>2. s \in Seq(Range(Names)) /\ Len(s) \in Nat /\ DOMAIN s = 1 .. Len(s)
  BY <1>1 DEF Kept
<1>3. \A name \in names : \E k \in 1 .. Len(Names) : Names[k] = name
  BY NamesAssumption DEF Range
<1>4. Range(s) = names
  <2>1. Range(s) \subseteq names
    BY <1>1 DEF Kept, Range
  <2>2. names \subseteq Range(s)
    BY <1>1, <1>3 DEF Kept, Range
  <2> QED BY <2>1, <2>2
<1>5. \A i \in DOMAIN s : Ordinal(s[i]) \in 1 .. Len(Names)
  BY <1>1 DEF Kept
<1>6. \A i, j \in DOMAIN s : i < j => Ordinal(s[i]) < Ordinal(s[j])
  BY <1>1 DEF Kept
<1>7. Sorted(s)
  BY <1>5, <1>6, NamesAssumption DEF Sorted
<1>8. ASSUME NEW i \in DOMAIN s, NEW j \in DOMAIN s, s[i] = s[j], i # j
      PROVE  FALSE
  <2>1. i < j \/ j < i
    BY <1>2, <1>8
  <2>2. Ordinal(s[i]) \in Nat /\ Ordinal(s[j]) = Ordinal(s[i])
    BY <1>5, <1>8, NamesAssumption
  <2> QED BY <1>6, <2>1, <2>2
<1> QED BY <1>2, <1>4, <1>7, <1>8 DEF s

\* No two of the names are the same under NFC and casefold.
FoldApart(names) == \A a, b \in names : Fold[a] = Fold[b] => a = b

(* The count of folded names, for a list of distinct names.                *)
LEMMA FoldedApart ==
    ASSUME NEW s \in Seq(Range(Names)),
           \A i, j \in DOMAIN s : s[i] = s[j] => i = j
    PROVE  Distinct(Folded(s)) <=> FoldApart(Range(s))
<1> DEFINE S == {Fold[name] : name \in Range(Names)}
<1>1. DOMAIN s = 1 .. Len(s) /\ Len(s) \in Nat
  OBVIOUS
<1>2. \A i \in DOMAIN s : s[i] \in Range(Names)
  BY <1>1
<1>3. Folded(s) \in Seq(S) /\ DOMAIN Folded(s) = DOMAIN s
  <2>1. [i \in 1 .. Len(s) |-> Fold[s[i]]] \in Seq(S)
    BY <1>1, <1>2, IsASeq
  <2> QED BY <1>1, <2>1 DEF Folded
<1>4. Distinct(Folded(s))
         <=> \A i, j \in DOMAIN s : Fold[s[i]] = Fold[s[j]] => i = j
  <2>1. Distinct(Folded(s)) <=> \A i, j \in DOMAIN Folded(s) :
                                   Folded(s)[i] = Folded(s)[j] => i = j
    BY <1>3, DistinctPlaces
  <2>2. \A i \in DOMAIN s : Folded(s)[i] = Fold[s[i]]
    BY DEF Folded
  <2> QED BY <1>3, <2>1, <2>2
<1>5. (\A i, j \in DOMAIN s : Fold[s[i]] = Fold[s[j]] => i = j)
         <=> FoldApart(Range(s))
  BY DEF FoldApart, Range
<1> QED BY <1>4, <1>5

(* What parse_allowlist lets through.                                      *)
LEMMA ParseFacts ==
    ASSUME NEW lines \in Allowlists, parse_allowlist(lines) # Invalid
    PROVE  /\ ByName(parse_allowlist(lines), Contents)
           /\ DOMAIN parse_allowlist(lines) # {}
           /\ DOMAIN parse_allowlist(lines) \subseteq Portable
           /\ FoldApart(DOMAIN parse_allowlist(lines))
<1> DEFINE names == [i \in DOMAIN lines |-> lines[i][1]]
           listed == [name \in Range(names) |->
                        lines[CHOOSE i \in DOMAIN lines : names[i] = name][2]]
<1>1. /\ parse_allowlist(lines) = listed
      /\ lines # <<>> /\ Range(names) \subseteq Portable
      /\ Distinct(names) /\ Distinct(Folded(names))
  BY DEF parse_allowlist, validate_portable_name
<1>2. /\ lines \in Seq(Range(Names) \X Contents)
      /\ DOMAIN lines = 1 .. Len(lines) /\ Len(lines) \in Nat
  BY AllowlistsAssumption
<1>3. \A i \in DOMAIN lines : /\ lines[i][1] \in Range(Names)
                              /\ lines[i][2] \in Contents
  <2>1. \A i \in DOMAIN lines : lines[i] \in Range(Names) \X Contents
    BY <1>2
  <2> QED BY <2>1
<1>4. names \in Seq(Range(Names)) /\ DOMAIN names = DOMAIN lines
  <2>1. [i \in 1 .. Len(lines) |-> lines[i][1]] \in Seq(Range(Names))
    BY <1>2, <1>3, IsASeq
  <2> QED BY <1>2, <2>1
<1>5. Range(names) \subseteq Range(Names)
  BY <1>3 DEF Range
<1>6. ASSUME NEW name \in Range(names)
      PROVE  listed[name] \in Contents
  <2> DEFINE i == CHOOSE k \in DOMAIN lines : names[k] = name
  <2>1. \E k \in DOMAIN lines : names[k] = name
    BY DEF Range
  <2>2. i \in DOMAIN lines
    BY <2>1
  <2> HIDE DEF i
  <2>3. lines[i][2] \in Contents
    BY <1>3, <2>2
  <2> QED BY <2>3 DEF i
<1>7. Range(names) # {}
  <2>1. 1 \in DOMAIN lines
    BY <1>1, <1>2
  <2> QED BY <2>1 DEF Range
<1>8. FoldApart(Range(names))
  <2>1. \A i, j \in DOMAIN names : names[i] = names[j] => i = j
    BY <1>1, <1>4, DistinctPlaces
  <2> QED BY <1>1, <1>4, <2>1, FoldedApart
<1>9. ByName(listed, Contents) /\ DOMAIN listed = Range(names)
  <2>1. DOMAIN listed = Range(names)
    OBVIOUS
  <2>2. listed = [name \in DOMAIN listed |-> listed[name]]
    OBVIOUS
  <2> HIDE DEF listed
  <2> QED BY <1>5, <1>6, <2>1, <2>2 DEF ByName
<1> HIDE DEF listed, names
<1> QED BY <1>1, <1>7, <1>8, <1>9

(* The packed form of a listing is an archive.                             *)
LEMMA PackedType ==
    ASSUME NEW tree, ByName(tree, Contents)
    PROVE  Packed(tree) \in ArchiveType
<1> DEFINE s == InOrder(DOMAIN tree)
           members == [i \in DOMAIN s |-> Member(s[i], tree[s[i]])]
<1>1. /\ s \in Seq(Range(Names)) /\ Len(s) \in Nat
      /\ DOMAIN s = 1 .. Len(s) /\ Range(s) = DOMAIN tree
  BY InOrderFacts DEF ByName
<1>2. Packed(tree) = [members |-> members, closed |-> TRUE,
                      gap |-> FALSE, comment |-> FALSE]
  BY DEF Packed
<1> HIDE DEF s
<1>3. ASSUME NEW i \in 1 .. Len(s)
      PROVE  Member(s[i], tree[s[i]]) \in Members
  <2>1. s[i] \in DOMAIN tree /\ s[i] \in Range(Names)
    BY <1>1 DEF Range
  <2>2. tree[s[i]] \in Contents
    BY <2>1 DEF ByName
  <2> QED BY <2>1, <2>2 DEF Member, Members, canonical_mode
<1>4. members \in Seq(Members)
  BY <1>1, <1>3, IsASeq
<1> HIDE DEF members
<1> QED BY <1>2, <1>4 DEF ArchiveType

(* Builder and verifier agree on the mode of a file.                       *)
LEMMA SameMode == \A name : verifier_mode(name) = canonical_mode(name)
BY DEF verifier_mode, canonical_mode

(* The fields of a member.                                                 *)
LEMMA MemberFields ==
    ASSUME NEW name, NEW data, NEW m, m = Member(name, data)
    PROVE  /\ m.name = name /\ m.data = data
           /\ m.mode = verifier_mode(name) /\ m.fixed
<1>1. m = [name |-> name, data |-> data, mode |-> canonical_mode(name),
           fixed |-> TRUE]
  BY DEF Member
<1>2. m.name = name /\ m.data = data /\ m.mode = canonical_mode(name)
  BY <1>1
<1>3. m.fixed
  BY <1>1
<1> QED BY <1>2, <1>3, SameMode

(* The verifier accepts an archive exactly when it is, member for member,  *)
(* what the builder packs for the allowlist.                               *)
LEMMA VerifierExact ==
    ASSUME NEW archive \in ArchiveType, NEW listed,
           ByName(listed, Contents), DOMAIN listed \subseteq Portable,
           FoldApart(DOMAIN listed)
    PROVE  verify_archive(archive, listed) <=> archive = Packed(listed)
<1> DEFINE members == archive.members
           names == [i \in DOMAIN members |-> members[i].name]
           s == InOrder(DOMAIN listed)
           packed == [i \in DOMAIN s |-> Member(s[i], listed[s[i]])]
<1>1. /\ s \in Seq(Range(Names)) /\ Len(s) \in Nat
      /\ DOMAIN s = 1 .. Len(s) /\ Range(s) = DOMAIN listed
      /\ Sorted(s) /\ \A i, j \in DOMAIN s : s[i] = s[j] => i = j
  BY InOrderFacts DEF ByName
<1>2. Packed(listed) = [members |-> packed, closed |-> TRUE,
                        gap |-> FALSE, comment |-> FALSE]
  BY DEF Packed
<1>3. /\ members \in Seq(Members) /\ DOMAIN members = 1 .. Len(members)
      /\ \A i \in DOMAIN members : members[i] \in Members
      /\ archive.closed \in BOOLEAN /\ archive.gap \in BOOLEAN
      /\ archive.comment \in BOOLEAN
      /\ archive = [members |-> members, closed |-> archive.closed,
                    gap |-> archive.gap, comment |-> archive.comment]
  BY DEF ArchiveType
<1>4. members = [i \in DOMAIN members |-> members[i]]
  BY <1>3
<1>5. ASSUME verify_archive(archive, listed)
      PROVE  archive = Packed(listed)
  <2>1. /\ archive.closed /\ ~archive.comment /\ ~archive.gap
        /\ names = s
        /\ \A i \in DOMAIN members :
              /\ members[i].fixed
              /\ members[i].mode = verifier_mode(names[i])
              /\ members[i].data = listed[names[i]]
    BY <1>5 DEF verify_archive, verify_eocd, verify_local_headers
  <2>2. DOMAIN members = DOMAIN s
    <3>1. DOMAIN names = DOMAIN members
      OBVIOUS
    <3> QED BY <2>1, <3>1
  <2>3. \A i \in DOMAIN members : members[i].name = s[i]
    <3>1. \A i \in DOMAIN members : names[i] = members[i].name
      OBVIOUS
    <3> HIDE DEF names, s, members
    <3> QED BY <2>1, <3>1
  <2> HIDE DEF names, s
  <2>4. ASSUME NEW i \in DOMAIN members
        PROVE  members[i] = Member(s[i], listed[s[i]])
    <3>1. /\ members[i].name = s[i] /\ members[i].data = listed[s[i]]
          /\ members[i].mode = canonical_mode(s[i])
          /\ members[i].fixed = TRUE
      BY <1>3, <2>1, <2>3, SameMode DEF Members
    <3>2. members[i] = [name |-> members[i].name, data |-> members[i].data,
                        mode |-> members[i].mode, fixed |-> members[i].fixed]
      BY <1>3 DEF Members
    <3> QED BY <3>1, <3>2 DEF Member
  <2>5. members = packed
    BY <1>4, <2>2, <2>4
  <2> HIDE DEF packed, members
  <2> QED BY <1>2, <1>3, <2>1, <2>5
<1>6. ASSUME archive = Packed(listed)
      PROVE  verify_archive(archive, listed)
  <2>1. /\ archive.closed = TRUE /\ archive.gap = FALSE
        /\ archive.comment = FALSE /\ members = packed
    BY <1>2, <1>6
  <2>2. DOMAIN members = DOMAIN s
    BY <2>1
  <2>3. \A i \in DOMAIN s : members[i] = Member(s[i], listed[s[i]])
    BY <2>1
  <2>4. \A i \in DOMAIN s : s[i] \in Portable
    BY <1>1 DEF Range
  <2>5. Distinct(s) /\ Distinct(Folded(s))
    BY <1>1, DistinctPlaces, FoldedApart
  <2>6. \A i \in DOMAIN s : /\ members[i].name = s[i]
                            /\ members[i].data = listed[s[i]]
                            /\ members[i].mode = verifier_mode(s[i])
                            /\ members[i].fixed
    <3> HIDE DEF s, members, packed
    <3> QED BY <2>3, MemberFields
  <2>7. names = s
    <3>1. s = [i \in DOMAIN s |-> s[i]]
      BY <1>1
    <3> HIDE DEF s, members
    <3> QED BY <2>2, <2>6, <3>1
  <2>8. verify_eocd(archive) /\ verify_local_headers(archive)
    BY <2>1, <2>2, <2>6 DEF verify_eocd, verify_local_headers
  <2>9. \A i \in DOMAIN members :
           /\ validate_portable_name(names[i])
           /\ members[i].fixed
           /\ members[i].mode = verifier_mode(names[i])
           /\ members[i].data = listed[names[i]]
    <3> HIDE DEF s, members, names
    <3> QED BY <2>2, <2>4, <2>6, <2>7 DEF validate_portable_name
  <2>10. Sorted(names) /\ Distinct(names) /\ Distinct(Folded(names))
    <3> HIDE DEF s, names
    <3> QED BY <1>1, <2>5, <2>7
  <2> QED BY <2>7, <2>8, <2>9, <2>10 DEF verify_archive
<1> QED BY <1>5, <1>6

(* Of what a valid allowlist says, whoever parsed it.                      *)
LEMMA ValidFacts ==
    ASSUME NEW listed, Valid(listed)
    PROVE  /\ listed # Invalid /\ ByName(listed, Contents)
           /\ DOMAIN listed \subseteq Portable /\ FoldApart(DOMAIN listed)
BY ParseFacts DEF Valid

(* The packed form of a valid listing is what PublishedIsAllowed asks for. *)
LEMMA AllowedArchive ==
    ASSUME NEW listed, Valid(listed)
    PROVE  \E lines \in Allowlists :
              LET l == parse_allowlist(lines)
              IN  l # Invalid /\ Packed(listed) = Packed(l)
BY DEF Valid

(* An archive in which one thing was changed is still an archive.          *)
LEMMA ChangedType ==
    ASSUME NEW archive \in ArchiveType, NEW other \in Changed(archive)
    PROVE  other \in ArchiveType
<1> DEFINE members == archive.members
           At(i) == {[members[i] EXCEPT !.data = data] : data \in Contents}
                    \cup {[members[i] EXCEPT !.mode = mode] :
                             mode \in {644, 755}}
                    \cup {[members[i] EXCEPT !.fixed = FALSE]}
           others == {Append(members, members[i]) : i \in DOMAIN members}
                     \cup {RemoveAt(members, i) : i \in DOMAIN members}
                     \cup {Reverse(members)}
                     \cup UNION {{[members EXCEPT ![i] = m] : m \in At(i)} :
                                    i \in DOMAIN members}
<1>1. /\ members \in Seq(Members) /\ DOMAIN members = 1 .. Len(members)
      /\ Len(members) \in Nat
      /\ \A i \in DOMAIN members : members[i] \in Members
  BY DEF ArchiveType
<1>2. \/ \E ms \in others : other = [archive EXCEPT !.members = ms]
      \/ other = [archive EXCEPT !.gap = TRUE]
      \/ other = [archive EXCEPT !.comment = TRUE]
  BY DEF Changed
<1>3. ASSUME NEW i \in DOMAIN members
      PROVE  RemoveAt(members, i) \in Seq(Members)
  <2>1. SubSeq(members, 1, i - 1) \in Seq(Members)
    BY <1>1, SubSeqProperties
  <2>2. SubSeq(members, i + 1, Len(members)) \in Seq(Members)
    BY <1>1, SubSeqProperties
  <2> QED BY <2>1, <2>2, ConcatProperties DEF RemoveAt
<1>4. Reverse(members) \in Seq(Members)
  <2>1. \A i \in 1 .. Len(members) :
           members[(Len(members) - i) + 1] \in Members
    BY <1>1
  <2>2. [i \in 1 .. Len(members) |-> members[(Len(members) - i) + 1]]
           \in Seq(Members)
    BY <1>1, <2>1, IsASeq
  <2> QED BY <2>2 DEF Reverse
<1>5. ASSUME NEW i \in DOMAIN members, NEW m \in At(i)
      PROVE  m \in Members
  <2> DEFINE x == members[i]
  <2>1. x \in Members
    BY <1>1
  <2>2. \/ \E data \in Contents : m = [x EXCEPT !.data = data]
        \/ \E mode \in {644, 755} : m = [x EXCEPT !.mode = mode]
        \/ m = [x EXCEPT !.fixed = FALSE]
    OBVIOUS
  <2> HIDE DEF x
  <2>3. CASE \E data \in Contents : m = [x EXCEPT !.data = data]
    BY <2>1, <2>3 DEF Members
  <2>4. CASE \E mode \in {644, 755} : m = [x EXCEPT !.mode = mode]
    BY <2>1, <2>4 DEF Members
  <2>5. CASE m = [x EXCEPT !.fixed = FALSE]
    <3>1. \E fixed \in BOOLEAN : m = [x EXCEPT !.fixed = fixed]
      BY <2>5, Zenon
    <3> QED BY <2>1, <3>1 DEF Members
  <2> QED BY <2>2, <2>3, <2>4, <2>5
<1>6. ASSUME NEW ms \in others PROVE ms \in Seq(Members)
  <2>1. CASE \E i \in DOMAIN members : ms = Append(members, members[i])
    BY <1>1, <2>1
  <2>2. CASE \E i \in DOMAIN members : ms = RemoveAt(members, i)
    BY <1>3, <2>2
  <2>3. CASE ms = Reverse(members)
    BY <1>4, <2>3
  <2>4. CASE \E i \in DOMAIN members : \E m \in At(i) :
                ms = [members EXCEPT ![i] = m]
    <3>0. PICK i \in DOMAIN members : \E m \in At(i) :
                  ms = [members EXCEPT ![i] = m]
      BY <2>4
    <3>1. PICK m \in At(i) : ms = [members EXCEPT ![i] = m]
      BY <3>0
    <3>2. m \in Members
      BY <1>5
    <3> HIDE DEF At, members
    <3> QED BY <1>1, <3>1, <3>2, ExceptSeq
  <2> QED BY <2>1, <2>2, <2>3, <2>4
<1> HIDE DEF others, members
<1>7. CASE \E ms \in others : other = [archive EXCEPT !.members = ms]
  BY <1>6, <1>7 DEF ArchiveType
<1>8. CASE other = [archive EXCEPT !.gap = TRUE]
  BY <1>8 DEF ArchiveType
<1>9. CASE other = [archive EXCEPT !.comment = TRUE]
  BY <1>9 DEF ArchiveType
<1> QED BY <1>2, <1>7, <1>8, <1>9

(* The verifier's exactness on whatever lies in the directory.             *)
LEMMA CanonicalOnly ==
    ASSUME TypeOK
    PROVE  AcceptsOnlyCanonical
<1> SUFFICES ASSUME parse_allowlist(allowlist) # Invalid,
                    NEW p \in DOMAIN files,
                    NEW archive \in {files[p]} \cup Changed(files[p])
             PROVE  verify_archive(archive, parse_allowlist(allowlist))
                       <=> archive = Packed(parse_allowlist(allowlist))
  BY DEF AcceptsOnlyCanonical
<1>1. archive \in ArchiveType
  BY ChangedType DEF TypeOK
<1>2. Valid(parse_allowlist(allowlist))
  BY DEF TypeOK, Valid
<1> QED BY <1>1, <1>2, ValidFacts, VerifierExact

-----------------------------------------------------------------------------
(* Local steps.                                                            *)

\* The step of a builder that changes nothing but what it knows itself.
Local(b, step) ==
    /\ pc' = [pc EXCEPT ![b] = step]
    /\ UNCHANGED <<source, allowlist, files, clean, settled>>
    /\ \A a \in Builders \ {b} : /\ expected'[a] = expected[a]
                                 /\ left'[a] = left[a]
                                 /\ hash'[a] = hash[a]

(* What is left to show of a local step: that the builder itself still     *)
(* knows what its next step relies on.                                     *)
LEMMA LocalStep ==
    ASSUME IInv, TypeOK', NEW b \in Builders, NEW step \in Steps,
           Local(b, step), pc[b] \notin Idle,
           step \in Holding => pc[b] \in Holding,
           step = "replace" => b \in Overwriting \/ ~Exists(files, Output),
           ListOf(b)',
           step \in Verified /\ settled # {} =>
              expected'[b] = parse_allowlist(allowlist),
           b \in settled => SettledOf(b)',
           b \in clean => CleanOf(b)'
    PROVE  IInv'
<1>1. pc \in [Builders -> Steps] /\ pc'[b] = step
      /\ \A a \in Builders \ {b} : pc'[a] = pc[a]
  BY DEF IInv, TypeOK, Local
<1>2. UNCHANGED <<source, allowlist, files, clean, settled>>
  BY DEF Local
<1>3. LockInv'
  BY <1>1, <1>2 DEF IInv, LockInv, Exists
<1>4. ListInv'
  <2> SUFFICES ASSUME NEW a \in Builders \ {b} PROVE ListOf(a)'
    BY DEF ListInv
  <2>1. ListOf(a)
    BY DEF IInv, ListInv
  <2> QED BY <1>1, <1>2, <2>1 DEF ListOf, Local
<1>5. FreshInv'
  BY <1>1, <1>2 DEF IInv, FreshInv, Exists, Local
<1>6. SettledInv'
  <2> SUFFICES ASSUME NEW a \in settled \ {b} PROVE SettledOf(a)'
    BY <1>2 DEF SettledInv
  <2>1. SettledOf(a) /\ a \in Builders
    BY DEF IInv, SettledInv, TypeOK
  <2> QED BY <1>1, <1>2, <2>1 DEF SettledOf, Local
<1>7. CleanInv'
  <2>1. clean \subseteq {b}
    BY DEF IInv, CleanInv, CleanWorld, TypeOK
  <2>2. ASSUME b \in clean PROVE CleanWorld(b)'
    <3>1. CleanWorld(b)
      BY <2>2 DEF IInv, CleanInv
    <3> QED BY <1>1, <1>2, <3>1 DEF CleanWorld, inspect_source
  <2> QED BY <1>2, <2>1, <2>2 DEF CleanInv
<1>8. PublishedIsAllowed'
  BY <1>2 DEF IInv, PublishedIsAllowed, Exists
<1> QED BY <1>3, <1>4, <1>5, <1>6, <1>7, <1>8 DEF IInv

(* The shape of a local step.                                              *)
LEMMA LocalMove ==
    ASSUME TypeOK, NEW b \in Builders, NEW step \in Steps,
           NEW e, NEW l \in Seq(Range(Names)), NEW h \in ArchiveType,
           pc' = [pc EXCEPT ![b] = step],
           UNCHANGED <<source, allowlist, files, clean, settled>>,
           expected' = [expected EXCEPT ![b] = e],
           left' = [left EXCEPT ![b] = l],
           hash' = [hash EXCEPT ![b] = h]
    PROVE  /\ TypeOK' /\ Local(b, step)
           /\ pc'[b] = step /\ expected'[b] = e /\ left'[b] = l /\ hash'[b] = h
<1>1. pc' \in [Builders -> Steps] /\ pc'[b] = step
  BY DEF TypeOK
<1>2. left' \in [Builders -> Seq(Range(Names))] /\ left'[b] = l
      /\ \A a \in Builders \ {b} : left'[a] = left[a]
  BY DEF TypeOK
<1>3. hash' \in [Builders -> ArchiveType] /\ hash'[b] = h
      /\ \A a \in Builders \ {b} : hash'[a] = hash[a]
  BY DEF TypeOK
<1>4. /\ DOMAIN expected' = Builders /\ expected'[b] = e
      /\ expected' = [a \in Builders |-> expected'[a]]
      /\ \A a \in Builders \ {b} : expected'[a] = expected[a]
  <2> DEFINE g == [expected EXCEPT ![b] = e]
  <2>1. DOMAIN expected = Builders
    BY DEF TypeOK
  <2>2. /\ DOMAIN g = Builders /\ g[b] = e /\ g = [a \in Builders |-> g[a]]
        /\ \A a \in Builders \ {b} : g[a] = expected[a]
    BY <2>1
  <2> HIDE DEF g
  <2>3. expected' = g
    BY DEF g
  <2> QED BY <2>2, <2>3
<1>5. TypeOK'
  BY <1>1, <1>2, <1>3, <1>4 DEF TypeOK, ByName
<1>6. Local(b, step)
  BY <1>2, <1>3, <1>4 DEF Local
<1> QED BY <1>1, <1>2, <1>3, <1>4, <1>5, <1>6

(* A variable that is left alone is updated with what it holds.            *)
LEMMA SameValues ==
    ASSUME TypeOK, NEW b \in Builders
    PROVE  /\ pc = [pc EXCEPT ![b] = pc[b]] /\ pc[b] \in Steps
           /\ expected = [expected EXCEPT ![b] = expected[b]]
           /\ left = [left EXCEPT ![b] = left[b]]
           /\ left[b] \in Seq(Range(Names))
           /\ hash = [hash EXCEPT ![b] = hash[b]] /\ hash[b] \in ArchiveType
<1>1. pc = [pc EXCEPT ![b] = pc[b]] /\ pc[b] \in Steps
  BY DEF TypeOK
<1>2. left = [left EXCEPT ![b] = left[b]] /\ left[b] \in Seq(Range(Names))
  BY DEF TypeOK
<1>3. hash = [hash EXCEPT ![b] = hash[b]] /\ hash[b] \in ArchiveType
  BY DEF TypeOK
<1>4. expected = [expected EXCEPT ![b] = expected[b]]
  <2>1. /\ DOMAIN expected = Builders
        /\ expected = [a \in Builders |-> expected[a]]
    BY DEF TypeOK
  <2> QED BY <2>1
<1> QED BY <1>1, <1>2, <1>3, <1>4

(* A step that moves on and learns nothing.                                *)
LEMMA MoveOnly ==
    ASSUME TypeOK, NEW b \in Builders, NEW step \in Steps,
           pc' = [pc EXCEPT ![b] = step],
           UNCHANGED <<source, allowlist, files, clean, settled, locals>>
    PROVE  /\ TypeOK' /\ Local(b, step)
           /\ pc'[b] = step /\ expected'[b] = expected[b]
           /\ left'[b] = left[b] /\ hash'[b] = hash[b]
<1>1. UNCHANGED <<expected, left, hash>>
  BY DEF locals
<1>2. /\ left[b] \in Seq(Range(Names)) /\ hash[b] \in ArchiveType
      /\ expected' = [expected EXCEPT ![b] = expected[b]]
      /\ left' = [left EXCEPT ![b] = left[b]]
      /\ hash' = [hash EXCEPT ![b] = hash[b]]
  BY <1>1, SameValues
<1> DEFINE e == expected[b]
           l == left[b]
           h == hash[b]
<1>3. /\ l \in Seq(Range(Names)) /\ h \in ArchiveType
      /\ expected' = [expected EXCEPT ![b] = e]
      /\ left' = [left EXCEPT ![b] = l] /\ hash' = [hash EXCEPT ![b] = h]
  BY <1>2
<1> HIDE DEF e, l, h
<1>4. /\ TypeOK' /\ Local(b, step)
      /\ pc'[b] = step /\ expected'[b] = e /\ left'[b] = l /\ hash'[b] = h
  BY <1>3, LocalMove
<1> QED BY <1>4 DEF e, l, h

(* Leaving with an error, of a build that was interfered with.             *)
LEMMA Raised ==
    ASSUME IInv, NEW b \in Builders, pc[b] \notin Idle, b \notin clean,
           Raise(b), Quiet
    PROVE  IInv'
<1>1. "raised" \in Steps /\ "raised" \in Idle /\ "raised" \notin Holding
      /\ "raised" \notin Verified
  BY DEF Steps, Idle, Holding, Verified
<1>2. /\ pc' = [pc EXCEPT ![b] = "raised"]
      /\ UNCHANGED <<source, allowlist, files, clean, settled, locals>>
  BY DEF Raise, Goto, Quiet, world
<1>3. TypeOK' /\ Local(b, "raised") /\ pc'[b] = "raised"
  BY <1>1, <1>2, MoveOnly DEF IInv
<1>4. ListOf(b)'
  BY <1>1, <1>3 DEF ListOf
<1>5. SettledOf(b)'
  BY <1>1, <1>3 DEF SettledOf
<1> QED BY <1>1, <1>3, <1>4, <1>5, LocalStep

(* A builder that is at work and not past publication is not settled.      *)
LEMMA NotSettled ==
    ASSUME IInv, NEW b \in Builders, pc[b] \notin Again \cup Idle
    PROVE  b \notin settled
BY DEF IInv, SettledInv, SettledOf

(* Names that are read and left.                                           *)
LEMMA TailNames ==
    ASSUME NEW S, NEW s \in Seq(S), s # <<>>
    PROVE  /\ Tail(s) \in Seq(S) /\ Head(s) \in Range(s)
           /\ Range(Tail(s)) \subseteq Range(s)
           /\ \A name \in Range(s) : name = Head(s) \/ name \in Range(Tail(s))
<1>1. /\ Len(s) \in Nat /\ Len(s) # 0 /\ DOMAIN s = 1 .. Len(s)
      /\ Tail(s) \in Seq(S) /\ Len(Tail(s)) = Len(s) - 1
      /\ DOMAIN Tail(s) = 1 .. Len(s) - 1 /\ Head(s) = s[1]
      /\ \A i \in 1 .. Len(s) - 1 : Tail(s)[i] = s[i + 1]
  BY HeadTailProperties
<1>2. Head(s) \in Range(s)
  BY <1>1 DEF Range
<1>3. \A i \in DOMAIN Tail(s) : i + 1 \in DOMAIN s
  BY <1>1
<1>4. Range(Tail(s)) \subseteq Range(s)
  BY <1>1, <1>3 DEF Range
<1>5. ASSUME NEW i \in DOMAIN s
      PROVE  s[i] = Head(s) \/ s[i] \in Range(Tail(s))
  <2>1. CASE i = 1
    BY <1>1, <2>1
  <2>2. CASE i # 1
    <3>1. i - 1 \in DOMAIN Tail(s) /\ Tail(s)[i - 1] = s[i]
      BY <1>1, <2>2
    <3> QED BY <3>1 DEF Range
  <2> QED BY <2>1, <2>2
<1> QED BY <1>1, <1>2, <1>4, <1>5 DEF Range

-----------------------------------------------------------------------------
(* The local steps of a builder.                                           *)

(* The allowlist in force is valid, or it is refused.                      *)
LEMMA ListedNow ==
    ASSUME TypeOK, parse_allowlist(allowlist) # Invalid
    PROVE  /\ Valid(parse_allowlist(allowlist))
           /\ LET listed == parse_allowlist(allowlist)
              IN  /\ InOrder(DOMAIN listed) \in Seq(Range(Names))
                  /\ Range(InOrder(DOMAIN listed)) = DOMAIN listed
<1>1. Valid(parse_allowlist(allowlist))
  BY DEF TypeOK, Valid
<1>2. ByName(parse_allowlist(allowlist), Contents)
  BY <1>1, ValidFacts
<1> QED BY <1>1, <1>2, InOrderFacts DEF ByName

(* What a build that nothing interferes with finds.                        *)
LEMMA CleanFacts ==
    ASSUME IInv, NEW b \in clean
    PROVE  /\ b \in Builders /\ CleanWorld(b) /\ CleanOf(b)
           /\ parse_allowlist(allowlist) = source /\ source # Invalid
           /\ inspect_source(source) /\ Valid(source)
           /\ \A name \in DOMAIN source :
                 read_stable(name, source) /\ stable_digest(name, source)
<1>1. b \in Builders /\ CleanWorld(b) /\ CleanOf(b) /\ TypeOK
  BY DEF IInv, CleanInv, TypeOK
<1>2. /\ parse_allowlist(allowlist) = source /\ source # Invalid
      /\ inspect_source(source)
  BY <1>1 DEF CleanWorld
<1>3. Valid(source)
  BY <1>1, <1>2, ListedNow
<1> QED BY <1>1, <1>2, <1>3
        DEF inspect_source, read_stable, stable_digest

(* Parse, and the verifier's first step: the allowlist and the names of    *)
(* the tree are read.                                                      *)
LEMMA AllowlistRead ==
    ASSUME IInv, NEW b \in Builders, NEW step \in Steps,
           pc[b] \notin Idle, Quiet,
           LET listed == parse_allowlist(allowlist)
           IN  IF listed = Invalid \/ ~inspect_source(listed) THEN Raise(b)
               ELSE /\ expected' = [expected EXCEPT ![b] = listed]
                    /\ Reads(b, DOMAIN listed)
                    /\ Goto(b, step)
                    /\ UNCHANGED <<files, hash, settled>>,
           \/ pc[b] = "parse" /\ step = "read"
           \/ pc[b] = "verify" /\ step = "verify_source"
           \/ pc[b] = "verify_again" /\ step = "source_again"
    PROVE  IInv'
<1> DEFINE listed == parse_allowlist(allowlist)
           l == InOrder(DOMAIN listed)
<1>1. CASE listed = Invalid \/ ~inspect_source(listed)
  <2>1. b \notin clean
    BY <1>1, CleanFacts
  <2> QED BY <1>1, <2>1, Raised
<1>2. CASE ~(listed = Invalid \/ ~inspect_source(listed))
  <2>1. Valid(listed) /\ l \in Seq(Range(Names)) /\ Range(l) = DOMAIN listed
    BY <1>2, ListedNow DEF IInv
  <2>2. hash[b] \in ArchiveType /\ hash' = [hash EXCEPT ![b] = hash[b]]
    BY <1>2, SameValues DEF IInv
  <2>3. /\ pc' = [pc EXCEPT ![b] = step]
        /\ UNCHANGED <<source, allowlist, files, clean, settled>>
        /\ expected' = [expected EXCEPT ![b] = listed]
        /\ left' = [left EXCEPT ![b] = l]
    BY <1>2 DEF Goto, Reads, Quiet, world
  <2>4. inspect_source(listed)
    BY <1>2
  <2> DEFINE h == hash[b]
  <2>5. h \in ArchiveType /\ hash' = [hash EXCEPT ![b] = h]
    BY <2>2
  <2>10. listed = parse_allowlist(allowlist)
    OBVIOUS
  <2> HIDE DEF h, l, listed
  <2>6. /\ TypeOK' /\ Local(b, step) /\ pc'[b] = step
        /\ expected'[b] = listed /\ left'[b] = l /\ hash'[b] = h
    BY <2>1, <2>3, <2>5, LocalMove DEF IInv
  <2>7. ListOf(b)'
    BY <2>1, <2>6 DEF ListOf
  <2>8. ASSUME b \in settled PROVE SettledOf(b)'
    <3>1. pc[b] = "verify_again" /\ step = "source_again"
      BY <2>8, NotSettled DEF Again, Idle
    <3>2. DOMAIN source = DOMAIN listed
      BY <2>4 DEF inspect_source
    <3> QED BY <2>1, <2>3, <2>6, <2>10, <3>1, <3>2
            DEF SettledOf, Again, Idle
  <2>9. ASSUME b \in clean PROVE CleanOf(b)'
    <3>1. CleanOf(b) /\ listed = source
      BY <2>9, <2>10, CleanFacts
    <3>2. step \in {"read", "verify_source", "source_again"}
      OBVIOUS
    <3>3. CASE step = "read"
      BY <2>1, <2>3, <2>6, <3>1, <3>3
         DEF CleanOf, Steps, Idle, Holding, Again
    <3>4. CASE step = "verify_source"
      BY <2>1, <2>3, <2>6, <3>1, <3>4
         DEF CleanOf, Steps, Idle, Holding, Again, h
    <3>5. CASE step = "source_again"
      BY <2>1, <2>3, <2>6, <3>1, <3>5
         DEF CleanOf, Steps, Idle, Holding, Again, h
    <3> QED BY <3>2, <3>3, <3>4, <3>5
  <2>11. /\ step \in Holding => pc[b] \in Holding
         /\ step # "replace"
    BY DEF Holding
  <2> QED BY <2>6, <2>7, <2>8, <2>9, <2>10, <2>11, LocalStep
<1> QED BY <1>1, <1>2

(* The builder reads the allowlist.                                        *)
LEMMA ParseKeeps ==
    ASSUME IInv, NEW b \in Builders, Parse(b)
    PROVE  IInv'
<1>1. "read" \in Steps /\ pc[b] = "parse" /\ pc[b] \notin Idle
  BY DEF Parse, Steps, Idle
<1> QED BY <1>1, AllowlistRead DEF Parse

(* A file is read and found as listed, or the builder leaves.              *)
LEMMA ReadAheadKeeps ==
    ASSUME IInv, NEW b \in Builders, ReadAhead(b)
    PROVE  IInv'
<1>1. pc[b] = "read" /\ pc[b] \notin Idle /\ pc[b] \in Steps
      /\ left[b] # <<>> /\ left[b] \in Seq(Range(Names)) /\ Quiet
  BY SameValues DEF ReadAhead, Idle, IInv
<1>2. CASE ~read_stable(Head(left[b]), expected[b])
  <2>1. ASSUME b \in clean PROVE FALSE
    <3>1. Range(left[b]) \subseteq DOMAIN source /\ expected[b] = source
      BY <1>1, <2>1, CleanFacts DEF CleanOf, Idle
    <3> QED BY <1>1, <1>2, <2>1, <3>1, CleanFacts, TailNames
  <2> QED BY <1>1, <1>2, <2>1, Raised DEF ReadAhead
<1>3. CASE read_stable(Head(left[b]), expected[b])
  <2> DEFINE l == Tail(left[b])
             e == expected[b]
             h == hash[b]
             p == pc[b]
  <2>1. l \in Seq(Range(Names)) /\ Range(l) \subseteq Range(left[b])
    BY <1>1, TailNames
  <2>2. /\ UNCHANGED <<source, allowlist, files, clean, settled>>
        /\ pc' = [pc EXCEPT ![b] = p] /\ p \in Steps /\ p = "read"
        /\ expected' = [expected EXCEPT ![b] = e]
        /\ left' = [left EXCEPT ![b] = l]
        /\ hash' = [hash EXCEPT ![b] = h] /\ h \in ArchiveType
    BY <1>1, <1>3, SameValues DEF ReadAhead, Quiet, world, IInv
  <2> HIDE DEF l, e, h, p
  <2>3. /\ TypeOK' /\ Local(b, p) /\ pc'[b] = p
        /\ expected'[b] = e /\ left'[b] = l /\ hash'[b] = h
    BY <2>1, <2>2, LocalMove DEF IInv
  <2>4. ListOf(b)'
    BY <1>1, <2>2, <2>3 DEF ListOf, IInv, ListInv, e
  <2>5. b \notin settled
    BY <1>1, NotSettled DEF Again
  <2>6. ASSUME b \in clean PROVE CleanOf(b)'
    BY <1>1, <2>1, <2>2, <2>3, <2>6, CleanFacts
       DEF CleanOf, e, Holding, Again
  <2>7. p \notin Holding /\ p # "replace" /\ p \notin Verified
    BY <2>2 DEF Holding, Verified
  <2> QED BY <1>1, <2>2, <2>3, <2>4, <2>5, <2>6, <2>7, LocalStep
<1> QED BY <1>2, <1>3

(* Who holds the partial file finds it.                                    *)
LEMMA HeldPartial ==
    ASSUME IInv, NEW b \in Builders, pc[b] \in Holding
    PROVE  Exists(files, Partial) /\ files[Partial] \in ArchiveType
BY DEF IInv, LockInv, TypeOK, Exists

(* The digest that is kept is that of the partial archive.                 *)
LEMMA DigestKeeps ==
    ASSUME IInv, NEW b \in Builders, Digest(b)
    PROVE  IInv'
<1>1. pc[b] = "digest" /\ pc[b] \notin Idle /\ pc[b] \in Holding
  BY DEF Digest, Idle, Holding
<1> DEFINE l == left[b]
           e == expected[b]
           h == Archive(Partial)
<1>2. h = files[Partial] /\ h \in ArchiveType
  BY <1>1, HeldPartial DEF Archive
<1>3. /\ UNCHANGED <<source, allowlist, files, clean, settled>>
      /\ pc' = [pc EXCEPT ![b] = "verify"]
      /\ expected' = [expected EXCEPT ![b] = e]
      /\ left' = [left EXCEPT ![b] = l] /\ l \in Seq(Range(Names))
      /\ hash' = [hash EXCEPT ![b] = h]
  BY SameValues DEF Digest, Quiet, world, IInv, Goto
<1>4. "verify" \in Steps /\ "verify" \in Holding /\ "verify" \notin Verified
  BY DEF Steps, Holding, Verified
<1> HIDE DEF l, e, h
<1>5. /\ TypeOK' /\ Local(b, "verify") /\ pc'[b] = "verify"
      /\ expected'[b] = e /\ left'[b] = l /\ hash'[b] = h
  <2>1. TypeOK /\ h \in ArchiveType /\ l \in Seq(Range(Names))
    BY <1>2, <1>3 DEF IInv
  <2> QED BY <1>3, <1>4, <2>1, LocalMove, Zenon
<1>6. ListOf(b)'
  <2>1. Valid(expected[b])
    BY <1>1 DEF IInv, ListInv, ListOf, Steps, Idle, Holding
  <2> QED BY <1>5, <2>1 DEF ListOf, e
<1>7. b \notin settled
  BY <1>1, NotSettled DEF Again
<1>8. ASSUME b \in clean PROVE CleanOf(b)'
  <2>1. CleanOf(b)
    BY <1>8, CleanFacts
  <2> QED BY <1>1, <1>2, <1>3, <1>5, <2>1
          DEF CleanOf, e, Holding, Again, Steps, Idle
<1> QED BY <1>1, <1>4, <1>5, <1>6, <1>7, <1>8, LocalStep

(* The verifier reads one file of the tree, or is done with the tree.      *)
LEMMA VerifySourceKeeps ==
    ASSUME IInv, NEW b \in Builders, NEW from, NEW to,
           VerifySource(b, from, to),
           \/ from = "verify_source" /\ to = "verify_archive"
           \/ from = "source_again" /\ to = "archive_again"
    PROVE  IInv'
<1>1. /\ pc[b] = from /\ pc[b] \notin Idle /\ pc[b] \in Steps /\ to \in Steps
      /\ left[b] \in Seq(Range(Names)) /\ Quiet
      /\ Valid(expected[b]) /\ TypeOK
  <2>1. pc[b] = from /\ from \in {"verify_source", "source_again"}
        /\ to \in {"verify_archive", "archive_again"} /\ Quiet
    BY DEF VerifySource
  <2>2. pc[b] \in Steps \ (Idle \cup {"parse"}) /\ to \in Steps
    BY <2>1 DEF Steps, Idle, Holding, Again
  <2> QED BY <2>1, <2>2, SameValues DEF IInv, ListInv, ListOf
<1>2. CASE left[b] = <<>>
  <2>1. /\ pc' = [pc EXCEPT ![b] = to]
        /\ UNCHANGED <<source, allowlist, files, clean, settled, locals>>
    BY <1>2 DEF VerifySource, Quiet, world, Goto
  <2>2. /\ TypeOK' /\ Local(b, to) /\ pc'[b] = to
        /\ expected'[b] = expected[b] /\ left'[b] = left[b]
        /\ hash'[b] = hash[b]
    BY <1>1, <2>1, MoveOnly
  <2>3. ListOf(b)'
    BY <1>1, <2>2 DEF ListOf
  <2>4. ASSUME b \in settled PROVE SettledOf(b)'
    <3>1. SettledOf(b) /\ from = "source_again" /\ to = "archive_again"
      BY <1>1, <2>4, NotSettled DEF IInv, SettledInv, Again, Idle
    <3>2. Range(left[b]) = {}
      BY <1>2 DEF Range
    <3>3. /\ expected[b] = parse_allowlist(allowlist)
          /\ DOMAIN source = DOMAIN expected[b]
          /\ \A name \in DOMAIN source : source[name] = expected[b][name]
      BY <1>1, <3>1, <3>2 DEF SettledOf
    <3>4. /\ source = [name \in DOMAIN source |-> source[name]]
          /\ expected[b] = [name \in DOMAIN expected[b] |-> expected[b][name]]
      BY <1>1, ValidFacts DEF TypeOK, ByName
    <3>5. expected[b] = source
      BY <3>3, <3>4
    <3> QED BY <2>1, <2>2, <3>1, <3>3, <3>5 DEF SettledOf, Again
  <2>5. ASSUME b \in clean PROVE CleanOf(b)'
    <3>1. CleanOf(b)
      BY <2>5, CleanFacts
    <3> QED BY <1>1, <2>1, <2>2, <3>1
            DEF CleanOf, Holding, Again, Steps, Idle
  <2>6. /\ to \in Holding => pc[b] \in Holding
        /\ to # "replace"
        /\ to \in Verified => pc[b] \in Verified
    BY <1>1 DEF Holding, Verified
  <2>7. to \in Verified /\ settled # {} =>
           expected'[b] = parse_allowlist(allowlist)
    BY <2>2, <2>6 DEF IInv, FreshInv
  <2> QED BY <1>1, <2>2, <2>3, <2>4, <2>5, <2>6, <2>7, LocalStep
<1>3. CASE left[b] # <<>> /\ ~stable_digest(Head(left[b]), expected[b])
  <2>1. ASSUME b \in clean PROVE FALSE
    <3>1. Range(left[b]) \subseteq DOMAIN source /\ expected[b] = source
      BY <1>1, <2>1, CleanFacts DEF CleanOf, Idle
    <3> QED BY <1>1, <1>3, <2>1, <3>1, CleanFacts, TailNames
  <2> QED BY <1>1, <1>3, <2>1, Raised DEF VerifySource
<1>4. CASE left[b] # <<>> /\ stable_digest(Head(left[b]), expected[b])
  <2> DEFINE l == Tail(left[b])
             e == expected[b]
             h == hash[b]
             p == pc[b]
  <2>1. /\ l \in Seq(Range(Names)) /\ Range(l) \subseteq Range(left[b])
        /\ \A name \in Range(left[b]) :
              name = Head(left[b]) \/ name \in Range(l)
    BY <1>1, <1>4, TailNames
  <2>2. /\ UNCHANGED <<source, allowlist, files, clean, settled>>
        /\ pc' = [pc EXCEPT ![b] = p] /\ p \in Steps /\ p = from
        /\ expected' = [expected EXCEPT ![b] = e]
        /\ left' = [left EXCEPT ![b] = l]
        /\ hash' = [hash EXCEPT ![b] = h] /\ h \in ArchiveType
    BY <1>1, <1>4, SameValues DEF VerifySource, Quiet, world
  <2> HIDE DEF l, e, h, p
  <2>3. /\ TypeOK' /\ Local(b, p) /\ pc'[b] = p
        /\ expected'[b] = e /\ left'[b] = l /\ hash'[b] = h
    BY <1>1, <2>1, <2>2, LocalMove
  <2>4. ListOf(b)'
    BY <1>1, <2>2, <2>3 DEF ListOf, e
  <2>5. ASSUME b \in settled PROVE SettledOf(b)'
    <3>1. SettledOf(b) /\ from = "source_again"
      BY <1>1, <2>5, NotSettled DEF IInv, SettledInv, Again, Idle
    <3>2. source[Head(left[b])] = expected[b][Head(left[b])]
      BY <1>4 DEF stable_digest
    <3> QED BY <1>1, <2>1, <2>2, <2>3, <3>1, <3>2 DEF SettledOf, e
  <2>6. ASSUME b \in clean PROVE CleanOf(b)'
    <3>1. CleanOf(b)
      BY <2>6, CleanFacts
    <3> QED BY <1>1, <2>1, <2>2, <2>3, <3>1
            DEF CleanOf, e, h, Holding, Again, Steps, Idle
  <2>7. /\ p \in Holding => pc[b] \in Holding
        /\ p # "replace"
        /\ p \in Verified => pc[b] \in Verified
    BY <1>1, <2>2 DEF Holding, Verified
  <2>8. p \in Verified /\ settled # {} =>
           expected'[b] = parse_allowlist(allowlist)
    BY <2>3, <2>7 DEF IInv, FreshInv, e
  <2> QED BY <1>1, <2>2, <2>3, <2>4, <2>5, <2>6, <2>7, <2>8, LocalStep
<1> QED BY <1>2, <1>3, <1>4

(* The verifier looks at the archive: what it lets through is the packed   *)
(* form of the allowlist it has parsed.                                    *)
LEMMA VerifyArchiveKeeps ==
    ASSUME IInv, NEW b \in Builders, NEW from, NEW to, NEW path,
           VerifyArchive(b, from, to, path),
           \/ from = "verify_archive" /\ to = "look_again" /\ path = Partial
           \/ from = "archive_again" /\ to = "compare" /\ path = Output
    PROVE  IInv'
<1>1. /\ pc[b] = from /\ pc[b] \notin Idle /\ to \in Steps
      /\ Quiet /\ Valid(expected[b]) /\ TypeOK
  <2>1. pc[b] = from /\ from \in {"verify_archive", "archive_again"}
        /\ to \in {"look_again", "compare"} /\ Quiet
    BY DEF VerifyArchive
  <2>2. pc[b] \in Steps \ (Idle \cup {"parse"}) /\ to \in Steps
    BY <2>1 DEF Steps, Idle, Holding, Again
  <2> QED BY <2>1, <2>2 DEF IInv, ListInv, ListOf
<1>2. Exists(files, path) => (verify_archive(files[path], expected[b])
                                 <=> files[path] = Packed(expected[b]))
  <2> SUFFICES ASSUME Exists(files, path)
               PROVE  verify_archive(files[path], expected[b])
                         <=> files[path] = Packed(expected[b])
    OBVIOUS
  <2>1. files[path] \in ArchiveType
    BY <1>1 DEF TypeOK, Exists
  <2> QED BY <1>1, <2>1, ValidFacts, VerifierExact
<1>3. CASE ~(Exists(files, path) /\ verify_archive(files[path], expected[b]))
  <2>1. ASSUME b \in clean PROVE FALSE
    <3>1. CleanOf(b)
      BY <2>1, CleanFacts
    <3>2. /\ expected[b] = source
          /\ Exists(files, path) /\ files[path] = Packed(source)
      BY <1>1, <3>1, HeldPartial DEF CleanOf, Holding, Again, Steps, Idle
    <3> QED BY <1>2, <1>3, <3>2
  <2> QED BY <1>1, <1>3, <2>1, Raised DEF VerifyArchive
<1>4. CASE Exists(files, path) /\ verify_archive(files[path], expected[b])
  <2>1. /\ pc' = [pc EXCEPT ![b] = to]
        /\ UNCHANGED <<source, allowlist, files, clean, settled, locals>>
    BY <1>4 DEF VerifyArchive, Quiet, world, Goto
  <2>2. /\ TypeOK' /\ Local(b, to) /\ pc'[b] = to
        /\ expected'[b] = expected[b] /\ left'[b] = left[b]
        /\ hash'[b] = hash[b]
    BY <1>1, <2>1, MoveOnly
  <2>0. files[path] = Packed(expected[b])
    BY <1>2, <1>4
  <2>3. ListOf(b)'
    BY <1>1, <2>0, <2>1, <2>2 DEF ListOf
  <2>4. ASSUME b \in settled PROVE SettledOf(b)'
    <3>1. SettledOf(b) /\ from = "archive_again" /\ to = "compare"
      BY <1>1, <2>4, NotSettled DEF IInv, SettledInv, Again, Idle
    <3> QED BY <1>1, <2>0, <2>1, <2>2, <3>1 DEF SettledOf, Again
  <2>5. ASSUME b \in clean PROVE CleanOf(b)'
    <3>1. CleanOf(b)
      BY <2>5, CleanFacts
    <3> QED BY <1>1, <2>1, <2>2, <3>1
            DEF CleanOf, Holding, Again, Steps, Idle
  <2>6. /\ to \in Holding => pc[b] \in Holding
        /\ to # "replace"
        /\ to \in Verified => pc[b] \in Verified
    BY <1>1 DEF Holding, Verified
  <2>7. to \in Verified /\ settled # {} =>
           expected'[b] = parse_allowlist(allowlist)
    BY <2>2, <2>6 DEF IInv, FreshInv
  <2> QED BY <1>1, <2>2, <2>3, <2>4, <2>5, <2>6, <2>7, LocalStep
<1> QED BY <1>3, <1>4

(* The verifier on the partial archive.                                    *)
LEMMA VerifyPartialKeeps ==
    ASSUME IInv, NEW b \in Builders, VerifyPartial(b)
    PROVE  IInv'
<1>1. CASE VerifyAllowlist(b, "verify", "verify_source")
  <2>1. "verify_source" \in Steps /\ pc[b] = "verify" /\ pc[b] \notin Idle
    BY <1>1 DEF VerifyAllowlist, Steps, Idle, Holding
  <2> QED BY <1>1, <2>1, AllowlistRead DEF VerifyAllowlist
<1>2. CASE VerifySource(b, "verify_source", "verify_archive")
  BY <1>2, VerifySourceKeeps
<1>3. CASE VerifyArchive(b, "verify_archive", "look_again", Partial)
  BY <1>3, VerifyArchiveKeeps
<1> QED BY <1>1, <1>2, <1>3 DEF VerifyPartial

(* The verifier on the published archive.                                  *)
LEMMA VerifyOutputKeeps ==
    ASSUME IInv, NEW b \in Builders, VerifyOutput(b)
    PROVE  IInv'
<1>1. CASE VerifyAllowlist(b, "verify_again", "source_again")
  <2>1. /\ "source_again" \in Steps
        /\ pc[b] = "verify_again" /\ pc[b] \notin Idle
    BY <1>1 DEF VerifyAllowlist, Steps, Idle, Again
  <2> QED BY <1>1, <2>1, AllowlistRead DEF VerifyAllowlist
<1>2. CASE VerifySource(b, "source_again", "archive_again")
  BY <1>2, VerifySourceKeeps
<1>3. CASE VerifyArchive(b, "archive_again", "compare", Output)
  BY <1>3, VerifyArchiveKeeps
<1> QED BY <1>1, <1>2, <1>3 DEF VerifyOutput

(* The output is looked for again, with the partial file in hand.          *)
LEMMA LookAgainKeeps ==
    ASSUME IInv, NEW b \in Builders, LookAgain(b)
    PROVE  IInv'
<1>1. /\ pc[b] = "look_again" /\ pc[b] \notin Idle /\ pc[b] \in Holding
      /\ pc[b] \in Verified /\ Quiet /\ TypeOK
      /\ "replace" \in Steps /\ "replace" \in Verified
  BY DEF LookAgain, Idle, Holding, Verified, Steps, IInv
<1>2. CASE b \notin Overwriting /\ Exists(files, Output)
  <2>1. b \notin clean
    BY <1>1, <1>2, CleanFacts DEF CleanOf
  <2> QED BY <1>1, <1>2, <2>1, Raised DEF LookAgain
<1>3. CASE ~(b \notin Overwriting /\ Exists(files, Output))
  <2>1. /\ pc' = [pc EXCEPT ![b] = "replace"]
        /\ UNCHANGED <<source, allowlist, files, clean, settled, locals>>
    BY <1>3 DEF LookAgain, Quiet, world, Goto
  <2>2. /\ TypeOK' /\ Local(b, "replace") /\ pc'[b] = "replace"
        /\ expected'[b] = expected[b] /\ left'[b] = left[b]
        /\ hash'[b] = hash[b]
    BY <1>1, <2>1, MoveOnly
  <2>3. ListOf(b)'
    <3>1. ListOf(b)
      BY DEF IInv, ListInv
    <3> QED BY <1>1, <2>1, <2>2, <3>1
            DEF ListOf, Steps, Idle, Holding
  <2>4. b \notin settled
    BY <1>1, NotSettled DEF Again
  <2>5. ASSUME b \in clean PROVE CleanOf(b)'
    <3>1. CleanOf(b)
      BY <2>5, CleanFacts
    <3> QED BY <1>1, <2>1, <2>2, <3>1
            DEF CleanOf, Holding, Again, Steps, Idle
  <2>6. settled # {} => expected'[b] = parse_allowlist(allowlist)
    BY <1>1, <2>2 DEF IInv, FreshInv
  <2> QED BY <1>1, <1>3, <2>2, <2>3, <2>4, <2>5, <2>6, LocalStep
<1> QED BY <1>2, <1>3

(* The last check, and the report of success.                              *)
LEMMA CompareDigestKeeps ==
    ASSUME IInv, NEW b \in Builders, CompareDigest(b)
    PROVE  IInv'
<1> DEFINE step == IF Archive(Output) = hash[b] THEN "done" ELSE "raised"
<1>1. /\ pc[b] = "compare" /\ pc[b] \notin Idle /\ TypeOK
      /\ step \in Steps /\ step \in Idle /\ step \notin Holding
      /\ step \notin Verified /\ step # "replace"
  BY DEF CompareDigest, Idle, Steps, Holding, Verified, IInv
<1>2. /\ pc' = [pc EXCEPT ![b] = step]
      /\ UNCHANGED <<source, allowlist, files, clean, settled, locals>>
  BY DEF CompareDigest, Quiet, world, Goto
<1>3. step \in {"done", "raised"}
  OBVIOUS
<1>4. ASSUME b \in clean PROVE step = "done"
  <2>1. CleanOf(b)
    BY <1>4, CleanFacts
  <2>2. Exists(files, Output) /\ files[Output] = hash[b]
    BY <1>1, <2>1 DEF CleanOf, Again
  <2> QED BY <2>2 DEF Archive
<1> HIDE DEF step
<1>5. /\ TypeOK' /\ Local(b, step) /\ pc'[b] = step
      /\ expected'[b] = expected[b] /\ left'[b] = left[b]
      /\ hash'[b] = hash[b]
  BY <1>1, <1>2, MoveOnly
<1>6. ListOf(b)'
  BY <1>1, <1>3, <1>5 DEF ListOf
<1>7. ASSUME b \in settled PROVE SettledOf(b)'
  <2>1. SettledOf(b)
    BY <1>7 DEF IInv, SettledInv
  <2> QED BY <1>1, <1>2, <1>3, <1>5, <2>1 DEF SettledOf
<1>8. ASSUME b \in clean PROVE CleanOf(b)'
  BY <1>4, <1>5, <1>8 DEF CleanOf, Holding, Again, Steps, Idle
<1> QED BY <1>1, <1>5, <1>6, <1>7, <1>8, LocalStep

(* A killed builder leaves its partial file and holds it no more.          *)
LEMMA KillKeeps ==
    ASSUME IInv, NEW b \in Builders, Kill(b)
    PROVE  IInv'
<1>1. /\ pc[b] \notin Idle /\ TypeOK
      /\ "killed" \in Steps /\ "killed" \in Idle /\ "killed" \notin Holding
      /\ "killed" \notin Verified
  BY DEF Kill, Idle, Steps, Holding, Verified, IInv
<1>2. /\ pc' = [pc EXCEPT ![b] = "killed"]
      /\ UNCHANGED <<source, allowlist, files, clean, settled, locals>>
  BY DEF Kill, world, Goto, ghosts
<1>3. /\ TypeOK' /\ Local(b, "killed") /\ pc'[b] = "killed"
  BY <1>1, <1>2, MoveOnly
<1>4. ListOf(b)'
  BY <1>1, <1>3 DEF ListOf
<1>5. SettledOf(b)'
  BY <1>1, <1>3 DEF SettledOf
<1>6. CleanOf(b)'
  BY <1>3 DEF CleanOf, Holding, Again, Steps, Idle
<1> QED BY <1>1, <1>3, <1>4, <1>5, <1>6, LocalStep

-----------------------------------------------------------------------------
(* The steps that touch the files, the tree or the allowlist.              *)

(* A builder begins, or is refused because of what it finds.               *)
LEMMA StartKeeps ==
    ASSUME IInv, NEW b \in Builders, Start(b)
    PROVE  IInv'
<1> DEFINE step == IF \/ Exists(files, Partial)
                      \/ Exists(files, Output) /\ b \notin Overwriting
                   THEN "raised" ELSE "parse"
<1>1. /\ step \in Steps /\ step \notin Holding /\ step \notin Verified
      /\ step \in Idle \cup {"parse"} /\ step # "replace"
  BY DEF Steps, Idle, Holding, Verified
<1>2. /\ pc[b] \in Idle /\ TypeOK
      /\ pc' = [pc EXCEPT ![b] = step]
      /\ clean' = IF Unhindered(b) THEN {b} ELSE {}
      /\ settled' = settled \ {b}
      /\ UNCHANGED <<source, allowlist, files>>
  BY DEF Start, Goto, world, IInv
<1>3. Unhindered(b) => step = "parse" /\ ~Exists(files, Partial)
                       /\ (b \in Overwriting \/ ~Exists(files, Output))
  BY DEF Unhindered
<1> HIDE DEF step
<1>4. /\ pc' \in [Builders -> Steps] /\ pc'[b] = step
      /\ \A a \in Builders \ {b} : pc'[a] = pc[a]
  BY <1>1, <1>2 DEF TypeOK
<1>5. /\ expected' = [expected EXCEPT ![b] = Invalid]
      /\ left' = [left EXCEPT ![b] = <<>>]
      /\ hash' = [hash EXCEPT ![b] = NoArchive]
  BY DEF Start
<1>6. NoArchive \in ArchiveType /\ <<>> \in Seq(Range(Names))
  BY DEF NoArchive, ArchiveType
<1>7. /\ left' \in [Builders -> Seq(Range(Names))]
      /\ hash' \in [Builders -> ArchiveType]
      /\ DOMAIN expected' = Builders
      /\ expected' = [a \in Builders |-> expected'[a]]
      /\ \A a \in Builders \ {b} :
            expected'[a] = expected[a] /\ left'[a] = left[a]
  <2>1. /\ left' \in [Builders -> Seq(Range(Names))]
        /\ \A a \in Builders \ {b} : left'[a] = left[a]
    BY <1>2, <1>5, <1>6 DEF TypeOK
  <2>2. hash' \in [Builders -> ArchiveType]
    BY <1>2, <1>5, <1>6 DEF TypeOK
  <2>3. /\ DOMAIN expected' = Builders
        /\ expected' = [a \in Builders |-> expected'[a]]
        /\ \A a \in Builders \ {b} : expected'[a] = expected[a]
    <3> DEFINE g == [expected EXCEPT ![b] = Invalid]
    <3>1. DOMAIN expected = Builders
      BY <1>2 DEF TypeOK
    <3>2. /\ DOMAIN g = Builders /\ g = [a \in Builders |-> g[a]]
          /\ \A a \in Builders \ {b} : g[a] = expected[a]
      BY <3>1
    <3> HIDE DEF g
    <3>3. expected' = g
      BY <1>5 DEF g
    <3> QED BY <3>2, <3>3
  <2> QED BY <2>1, <2>2, <2>3
<1>8. TypeOK'
  BY <1>2, <1>4, <1>7 DEF TypeOK, ByName
<1>9. LockInv'
  BY <1>1, <1>2, <1>4 DEF IInv, LockInv, Exists
<1>10. ListInv'
  <2> SUFFICES ASSUME NEW a \in Builders PROVE ListOf(a)'
    BY DEF ListInv
  <2>1. ListOf(a)
    BY DEF IInv, ListInv
  <2>2. CASE a = b
    BY <1>1, <1>4, <2>2 DEF ListOf, Idle
  <2>3. CASE a # b
    BY <1>2, <1>4, <1>7, <2>1, <2>3 DEF ListOf
  <2> QED BY <2>2, <2>3
<1>11. FreshInv'
  BY <1>1, <1>2, <1>4, <1>7 DEF IInv, FreshInv, Exists
<1>12. SettledInv'
  <2> SUFFICES ASSUME NEW a \in settled \ {b} PROVE SettledOf(a)'
    BY <1>2 DEF SettledInv
  <2>1. SettledOf(a) /\ a \in Builders
    BY <1>2 DEF IInv, SettledInv, TypeOK
  <2> QED BY <1>2, <1>4, <1>7, <2>1 DEF SettledOf
<1>13. CleanInv'
  <2> SUFFICES ASSUME Unhindered(b) PROVE CleanWorld(b)' /\ CleanOf(b)'
    BY <1>2 DEF CleanInv
  <2>1. CleanWorld(b)'
    <3>1. /\ \A other \in Builders \ {b} : pc[other] \in Idle
          /\ source # Invalid /\ parse_allowlist(allowlist) = source
          /\ inspect_source(source)
      BY DEF Unhindered
    <3> QED BY <1>2, <1>4, <3>1 DEF CleanWorld, inspect_source
  <2>2. CleanOf(b)'
    BY <1>2, <1>3, <1>4
       DEF CleanOf, Steps, Idle, Holding, Again, Exists
  <2> QED BY <2>1, <2>2
<1>14. PublishedIsAllowed'
  BY <1>2 DEF IInv, PublishedIsAllowed, Exists
<1> QED BY <1>8, <1>9, <1>10, <1>11, <1>12, <1>13, <1>14 DEF IInv

(* What is left to show of a step on the partial file by the builder that  *)
(* holds it, or that has just created it.                                  *)
LEMMA PartialStep ==
    ASSUME IInv, TypeOK', NEW b \in Builders,
           NEW step \in {"write", "digest", "raised"},
           pc[b] \in {"read", "write"}, pc' = [pc EXCEPT ![b] = step],
           UNCHANGED <<source, allowlist, expected, clean, settled>>,
           \A a \in Builders \ {b} : left'[a] = left[a] /\ pc[a] \notin Holding,
           DOMAIN files' = DOMAIN files \cup {Partial},
           Exists(files, Output) => files'[Output] = files[Output],
           b \in clean => CleanOf(b)'
    PROVE  IInv'
<1>1. /\ pc \in [Builders -> Steps] /\ pc'[b] = step
      /\ \A a \in Builders \ {b} : pc'[a] = pc[a]
  BY DEF IInv, TypeOK
<1>2. /\ Output # Partial
      /\ step \notin Verified /\ step # "replace"
      /\ pc[b] \notin Again \cup Idle
      /\ \A a \in Builders \ {b} : pc[a] \notin Verified /\ pc[a] # "replace"
  BY DEF Output, Partial, Verified, Again, Idle, Holding
<1>3. Exists(files, Output)' <=> Exists(files, Output)
  BY <1>2 DEF Exists
<1>4. LockInv'
  BY <1>1, <1>2 DEF LockInv, Exists
<1>5. ListInv'
  <2> SUFFICES ASSUME NEW a \in Builders PROVE ListOf(a)'
    BY DEF ListInv
  <2>1. ListOf(a)
    BY DEF IInv, ListInv
  <2>2. CASE a = b
    <3>1. Valid(expected[b])
      BY <2>1, <2>2 DEF ListOf, Steps, Idle, Holding
    <3> QED BY <1>1, <2>2, <3>1 DEF ListOf
  <2>3. CASE a # b
    <3>1. pc'[a] \notin {"look_again", "replace"}
      BY <1>1, <2>3 DEF Holding
    <3> QED BY <1>1, <2>1, <2>3, <3>1 DEF ListOf
  <2> QED BY <2>2, <2>3
<1>6. FreshInv'
  BY <1>1, <1>2, <1>3 DEF IInv, FreshInv
<1>7. SettledInv'
  <2> SUFFICES ASSUME NEW a \in settled PROVE SettledOf(a)'
    BY DEF SettledInv
  <2>1. SettledOf(a) /\ a \in Builders /\ a # b
    BY <1>2, NotSettled DEF IInv, SettledInv, TypeOK
  <2>2. files'[Output] = files[Output]
    BY DEF IInv, FreshInv
  <2> QED BY <1>1, <2>1, <2>2 DEF SettledOf
<1>8. CleanInv'
  <2>1. clean \subseteq {b}
    BY <1>2 DEF IInv, CleanInv, CleanWorld, TypeOK
  <2>2. ASSUME b \in clean PROVE CleanWorld(b)'
    <3>1. CleanWorld(b)
      BY <2>2 DEF IInv, CleanInv
    <3> QED BY <1>1, <3>1 DEF CleanWorld, inspect_source
  <2> QED BY <2>1, <2>2 DEF CleanInv
<1>9. PublishedIsAllowed'
  BY <1>3 DEF IInv, PublishedIsAllowed, Exists
<1> QED BY <1>4, <1>5, <1>6, <1>7, <1>8, <1>9 DEF IInv

(* An archive with another list of members, and one that is closed.        *)
LEMMA ArchiveUpdate ==
    ASSUME NEW a, NEW ms, NEW c, NEW g, NEW k, NEW x,
           a = [members |-> ms, closed |-> c, gap |-> g, comment |-> k]
    PROVE  /\ a.members = ms
           /\ [a EXCEPT !.members = x] =
                 [members |-> x, closed |-> c, gap |-> g, comment |-> k]
           /\ [a EXCEPT !.closed = x] =
                 [members |-> ms, closed |-> x, gap |-> g, comment |-> k]
OBVIOUS

(* An archive that has begun and one that is complete.                     *)
LEMMA BegunFacts ==
    ASSUME ByName(source, Contents)
    PROVE  LET order == InOrder(DOMAIN source)
           IN  /\ order \in Seq(Range(Names)) /\ Len(order) \in Nat
               /\ Range(order) = DOMAIN source
               /\ Begun(0) = NoArchive
               /\ \A n \in 0 .. Len(order) :
                     /\ Begun(n).members \in Seq(Members)
                     /\ Len(Begun(n).members) = n
               /\ \A n \in 0 .. Len(order) - 1 :
                     [Begun(n) EXCEPT !.members =
                        Append(@, Member(order[n + 1], source[order[n + 1]]))]
                        = Begun(n + 1)
               /\ [Begun(Len(order)) EXCEPT !.closed = TRUE] = Packed(source)
<1> DEFINE order == InOrder(DOMAIN source)
           first(n) == [i \in 1..n |-> Member(order[i], source[order[i]])]
<1>1. /\ order \in Seq(Range(Names)) /\ Len(order) \in Nat
      /\ DOMAIN order = 1 .. Len(order) /\ Range(order) = DOMAIN source
  BY InOrderFacts DEF ByName
<1>2. \A n : Begun(n) = [members |-> first(n), closed |-> FALSE,
                         gap |-> FALSE, comment |-> FALSE]
  BY DEF Begun
<1>3. Packed(source) = [members |-> first(Len(order)), closed |-> TRUE,
                        gap |-> FALSE, comment |-> FALSE]
  BY <1>1 DEF Packed
<1> HIDE DEF order
<1>4. \A i \in 1 .. Len(order) :
         Member(order[i], source[order[i]]) \in Members
  <2> SUFFICES ASSUME NEW i \in 1 .. Len(order)
               PROVE  Member(order[i], source[order[i]]) \in Members
    OBVIOUS
  <2>1. order[i] \in DOMAIN source /\ order[i] \in Range(Names)
    BY <1>1 DEF Range
  <2>2. source[order[i]] \in Contents
    BY <2>1 DEF ByName
  <2> QED BY <2>1, <2>2 DEF Member, Members, canonical_mode
<1>5. \A n \in 0 .. Len(order) : first(n) \in Seq(Members)
                                 /\ Len(first(n)) = n
  <2> SUFFICES ASSUME NEW n \in 0 .. Len(order)
               PROVE  first(n) \in Seq(Members) /\ Len(first(n)) = n
    OBVIOUS
  <2>1. n \in Nat /\ \A i \in 1 .. n : i \in 1 .. Len(order)
    BY <1>1
  <2>2. first(n) \in Seq(Members)
    BY <1>4, <2>1, IsASeq
  <2>3. DOMAIN first(n) = 1 .. n
    OBVIOUS
  <2> QED BY <2>1, <2>2, <2>3, LenProperties
<1>6. ASSUME NEW n \in 0 .. Len(order) - 1
      PROVE  Append(first(n), Member(order[n + 1], source[order[n + 1]]))
                = first(n + 1)
  <2> DEFINE m == Member(order[n + 1], source[order[n + 1]])
  <2>1. /\ n \in 0 .. Len(order) /\ n + 1 \in 1 .. Len(order) /\ n \in Nat
        /\ n + 1 \in 0 .. Len(order)
    BY <1>1
  <2>2. /\ first(n) \in Seq(Members) /\ Len(first(n)) = n /\ m \in Members
        /\ first(n + 1) \in Seq(Members) /\ Len(first(n + 1)) = n + 1
    BY <1>4, <1>5, <2>1
  <2>3. /\ Append(first(n), m) \in Seq(Members)
        /\ Len(Append(first(n), m)) = n + 1
        /\ \A i \in 1 .. n : Append(first(n), m)[i] = first(n)[i]
        /\ Append(first(n), m)[n + 1] = m
    BY <2>1, <2>2, AppendProperties
  <2>4. \A i \in 1 .. n : first(n)[i] = first(n + 1)[i]
    BY <2>1
  <2>5. first(n + 1)[n + 1] = m
    BY <2>1
  <2> HIDE DEF m, first
  <2>6. \A i \in 1 .. n + 1 : Append(first(n), m)[i] = first(n + 1)[i]
    BY <2>1, <2>3, <2>4, <2>5
  <2>7. Append(first(n), m) = first(n + 1)
    BY <2>2, <2>3, <2>6, SeqEqual
  <2> QED BY <2>7 DEF m
<1> HIDE DEF first
<1>7. Begun(0) = NoArchive
  <2>1. first(0) = <<>>
    <3>1. first(0) \in Seq(Members) /\ Len(first(0)) = 0
      BY <1>1, <1>5
    <3> QED BY <3>1, EmptySeq
  <2> QED BY <1>2, <2>1 DEF NoArchive
<1>8. \A n \in 0 .. Len(order) - 1 :
         [Begun(n) EXCEPT !.members =
            Append(@, Member(order[n + 1], source[order[n + 1]]))]
            = Begun(n + 1)
  <2> SUFFICES ASSUME NEW n \in 0 .. Len(order) - 1
               PROVE  [Begun(n) EXCEPT !.members = Append(@,
                          Member(order[n + 1], source[order[n + 1]]))]
                         = Begun(n + 1)
    OBVIOUS
  <2> DEFINE m == Member(order[n + 1], source[order[n + 1]])
             a == Begun(n)
             x == Append(first(n), m)
  <2>1. a = [members |-> first(n), closed |-> FALSE,
             gap |-> FALSE, comment |-> FALSE]
    BY <1>2, Zenon
  <2>2. Begun(n + 1) = [members |-> x, closed |-> FALSE,
                        gap |-> FALSE, comment |-> FALSE]
    BY <1>2, <1>6, Zenon
  <2> HIDE DEF a, m
  <2>3. a.members = first(n)
    BY <2>1
  <2> HIDE DEF x
  <2>4. [a EXCEPT !.members = x] = [members |-> x, closed |-> FALSE,
                                    gap |-> FALSE, comment |-> FALSE]
    <3> DEFINE no == FALSE
               ms == first(n)
    <3>1. a = [members |-> ms, closed |-> no, gap |-> no, comment |-> no]
      BY <2>1
    <3> HIDE DEF no, ms
    <3>2. [a EXCEPT !.members = x] = [members |-> x, closed |-> no,
                                      gap |-> no, comment |-> no]
      BY <3>1, ArchiveUpdate
    <3> QED BY <3>2, Zenon DEF no
  <2>5. [a EXCEPT !.members = Append(@, m)] = [a EXCEPT !.members = x]
    BY <2>3 DEF x
  <2> QED BY <2>2, <2>4, <2>5 DEF a, m
<1>9. [Begun(Len(order)) EXCEPT !.closed = TRUE] = Packed(source)
  <2> DEFINE a == Begun(Len(order))
             ms == first(Len(order))
  <2>1. a = [members |-> ms, closed |-> FALSE, gap |-> FALSE, comment |-> FALSE]
    BY <1>2, Zenon
  <2> HIDE DEF a, ms
  <2>2. [a EXCEPT !.closed = TRUE] =
           [members |-> ms, closed |-> TRUE, gap |-> FALSE, comment |-> FALSE]
    <3> DEFINE no == FALSE
               yes == TRUE
    <3>1. a = [members |-> ms, closed |-> no, gap |-> no, comment |-> no]
      BY <2>1
    <3> HIDE DEF no, yes
    <3>2. [a EXCEPT !.closed = yes] = [members |-> ms, closed |-> yes,
                                       gap |-> no, comment |-> no]
      BY <3>1, ArchiveUpdate
    <3> QED BY <3>2, Zenon DEF no, yes
  <2> QED BY <1>3, <2>2, Zenon DEF a, ms
<1>10. \A n : Begun(n).members = first(n)
  BY <1>2
<1> QED BY <1>1, <1>5, <1>7, <1>8, <1>9, <1>10 DEF order

(* What stays true of the types when only files changes, at Partial.       *)
LEMMA PartialType ==
    ASSUME TypeOK, NEW b \in Builders, NEW step \in Steps,
           pc' = [pc EXCEPT ![b] = step],
           UNCHANGED <<source, allowlist, expected, hash, clean, settled>>,
           left' \in [Builders -> Seq(Range(Names))],
           DOMAIN files' = DOMAIN files \cup {Partial},
           files' = [path \in DOMAIN files' |-> files'[path]],
           files'[Partial] \in ArchiveType,
           \A path \in DOMAIN files \ {Partial} : files'[path] = files[path]
    PROVE  TypeOK'
<1>1. pc' \in [Builders -> Steps]
  BY DEF TypeOK
<1>2. \A path \in DOMAIN files' : files'[path] \in ArchiveType
  BY DEF TypeOK
<1> QED BY <1>1, <1>2 DEF TypeOK, ByName

(* Of the tree of an unhindered build.                                     *)
LEMMA CleanTree ==
    ASSUME IInv, NEW b \in clean
    PROVE  ByName(source, Contents)
BY CleanFacts, ValidFacts

(* Exclusive creation: the partial file did not exist, so nobody held it.  *)
LEMMA OpenPartialKeeps ==
    ASSUME IInv, NEW b \in Builders, OpenPartial(b)
    PROVE  IInv'
<1>1. /\ pc[b] = "read" /\ pc[b] \notin Idle /\ "write" \in Steps
      /\ Quiet /\ TypeOK /\ pc[b] \in Steps \ (Idle \cup {"parse"})
  BY DEF OpenPartial, Idle, Steps, Holding, IInv
<1>2. CASE Exists(files, Partial)
  <2>1. b \notin clean
    BY <1>1, <1>2, CleanFacts DEF CleanOf
  <2> QED BY <1>1, <1>2, <2>1, Raised DEF OpenPartial
<1>3. CASE ~Exists(files, Partial)
  <2> DEFINE order == InOrder(DOMAIN expected[b])
  <2>1. /\ files' = Put(files, Partial, NoArchive)
        /\ left' = [left EXCEPT ![b] = order]
        /\ pc' = [pc EXCEPT ![b] = "write"]
        /\ UNCHANGED <<source, allowlist, expected, hash, clean, settled>>
    BY <1>1, <1>3 DEF OpenPartial, Quiet, world, Reads, Goto
  <2>2. order \in Seq(Range(Names))
    <3>1. Valid(expected[b])
      BY <1>1 DEF IInv, ListInv, ListOf
    <3> QED BY <3>1, ValidFacts, InOrderFacts DEF ByName
  <2>3. /\ left' \in [Builders -> Seq(Range(Names))] /\ left'[b] = order
        /\ \A a \in Builders \ {b} : left'[a] = left[a]
    BY <1>1, <2>1, <2>2 DEF TypeOK
  <2>4. /\ DOMAIN files' = DOMAIN files \cup {Partial}
        /\ files' = [path \in DOMAIN files' |-> files'[path]]
        /\ files'[Partial] = NoArchive
        /\ \A path \in DOMAIN files \ {Partial} : files'[path] = files[path]
    <3> DEFINE fs == Put(files, Partial, NoArchive)
    <3>1. /\ DOMAIN fs = DOMAIN files \cup {Partial}
          /\ fs = [path \in DOMAIN fs |-> fs[path]]
          /\ fs[Partial] = NoArchive
          /\ \A path \in DOMAIN files \ {Partial} : fs[path] = files[path]
      BY DEF Put
    <3>2. files' = fs
      BY <2>1
    <3> HIDE DEF fs
    <3> QED BY <3>1, <3>2
  <2>5. NoArchive \in ArchiveType
    BY DEF NoArchive, ArchiveType
  <2>6. TypeOK'
    BY <1>1, <2>1, <2>3, <2>4, <2>5, PartialType
  <2>7. \A a \in Builders : pc[a] \notin Holding
    BY <1>3 DEF IInv, LockInv
  <2>8. Exists(files, Output) => files'[Output] = files[Output]
    BY <2>4 DEF Exists, Output, Partial
  <2>9. ASSUME b \in clean PROVE CleanOf(b)'
    <3>1. CleanOf(b) /\ ByName(source, Contents) /\ pc'[b] = "write"
      BY <1>1, <2>1, <2>9, CleanFacts, CleanTree DEF TypeOK
    <3>2. expected[b] = source /\ (b \in Overwriting \/ ~Exists(files, Output))
      BY <1>1, <3>1 DEF CleanOf
    <3>3. ~Exists(files, Output) => ~Exists(files, Output)'
      BY <2>4 DEF Exists, Output, Partial
    <3>4. /\ Begun(0) = NoArchive /\ Len(order) \in Nat
          /\ order = InOrder(DOMAIN source)
      BY <3>1, <3>2, BegunFacts
    <3>5. order = SubSeq(order, 0 + 1, Len(order))
      BY <2>2, SubSeqFull
    <3>6. /\ Begun(0)' = Begun(0)
          /\ InOrder(DOMAIN source)' = InOrder(DOMAIN source)
      BY <2>1 DEF Begun
    <3> HIDE DEF order
    <3>7. \E n \in 0 .. Len(InOrder(DOMAIN source))' :
             /\ files'[Partial] = Begun(n)'
             /\ left'[b] = SubSeq(InOrder(DOMAIN source), n + 1,
                                  Len(InOrder(DOMAIN source)))'
      <4>1. 0 \in 0 .. Len(InOrder(DOMAIN source))'
        BY <3>4, <3>6
      <4>2. files'[Partial] = Begun(0)'
        BY <2>4, <3>4, <3>6
      <4>3. left'[b] = SubSeq(InOrder(DOMAIN source), 0 + 1,
                              Len(InOrder(DOMAIN source)))'
        BY <2>3, <3>4, <3>5, <3>6
      <4> QED BY <4>1, <4>2, <4>3
    <3> QED BY <2>1, <3>1, <3>2, <3>3, <3>7
            DEF CleanOf, Steps, Idle, Holding, Again
  <2> QED BY <1>1, <2>1, <2>3, <2>4, <2>6, <2>7, <2>8, <2>9, PartialStep
<1> QED BY <1>2, <1>3

(* A member is stored, or the half-written archive is closed and left.     *)
LEMMA WriteMemberKeeps ==
    ASSUME IInv, NEW b \in Builders, WriteMember(b)
    PROVE  IInv'
<1> DEFINE name == Head(left[b])
           m == Member(name, source[name])
           old == files[Partial]
<1>1. /\ pc[b] = "write" /\ pc[b] \in Holding /\ Quiet /\ TypeOK
      /\ pc[b] \in Steps /\ "raised" \in Steps /\ left[b] # <<>>
      /\ UNCHANGED <<source, allowlist, expected, hash, clean, settled>>
      /\ left[b] \in Seq(Range(Names))
      /\ pc[b] \in Steps \ (Idle \cup {"parse"})
  BY SameValues DEF WriteMember, Idle, Steps, Holding, IInv, Quiet, world
<1>2. Exists(files, Partial) /\ old \in ArchiveType
      /\ \A a \in Builders \ {b} : pc[a] \notin Holding
  BY <1>1, HeldPartial DEF IInv, LockInv
<1>3. Valid(expected[b]) /\ ByName(expected[b], Contents)
  BY <1>1, ValidFacts DEF IInv, ListInv, ListOf
<1>4. CASE read_stable(name, expected[b])
  <2> DEFINE new == [old EXCEPT !.members = Append(@, m)]
             l == Tail(left[b])
  <2>1. /\ files' = [files EXCEPT ![Partial] = new]
        /\ left' = [left EXCEPT ![b] = l]
        /\ pc' = [pc EXCEPT ![b] = "write"]
    BY <1>1, <1>4, SameValues DEF WriteMember
  <2>2. m \in Members
    <3>1. /\ name \in DOMAIN source /\ name \in Range(Names)
          /\ source[name] # Link /\ source[name] \in Contents \cup {Link}
      <4> HIDE DEF name
      <4> QED BY <1>1, <1>4 DEF read_stable, require_plain_file, ByName, TypeOK
    <3> QED BY <3>1 DEF Member, Members, canonical_mode
  <2> HIDE DEF m
  <2>3. new \in ArchiveType
    BY SMTT(30), <1>2, <2>2 DEF ArchiveType
  <2>4. l \in Seq(Range(Names))
    BY <1>1, TailNames
  <2> HIDE DEF new, l, old
  <2>5. /\ left' \in [Builders -> Seq(Range(Names))] /\ left'[b] = l
        /\ \A a \in Builders \ {b} : left'[a] = left[a]
    BY <1>1, <2>1, <2>4 DEF TypeOK
  <2>6. /\ DOMAIN files' = DOMAIN files \cup {Partial}
        /\ files' = [path \in DOMAIN files' |-> files'[path]]
        /\ files'[Partial] = new
        /\ \A path \in DOMAIN files \ {Partial} : files'[path] = files[path]
    <3>1. Partial \in DOMAIN files
      BY <1>2 DEF Exists
    <3> QED BY <2>1, <3>1
  <2>7. TypeOK'
    BY <1>1, <2>1, <2>3, <2>5, <2>6, PartialType
  <2>8. Exists(files, Output) => files'[Output] = files[Output]
    BY <2>6 DEF Exists, Output, Partial
  <2>9. ASSUME b \in clean PROVE CleanOf(b)'
    <3> DEFINE order == InOrder(DOMAIN source)
               last == Len(order)
    <3>1. /\ CleanOf(b) /\ ByName(source, Contents)
          /\ pc'[b] = "write"
      BY <1>1, <2>1, <2>9, CleanFacts, CleanTree DEF TypeOK
    <3>2. /\ expected[b] = source
          /\ b \in Overwriting \/ ~Exists(files, Output)
      BY <1>1, <3>1 DEF CleanOf
    <3>3. ~Exists(files, Output) => ~Exists(files, Output)'
      BY <2>6 DEF Exists, Output, Partial
    <3>4. /\ order \in Seq(Range(Names)) /\ last \in Nat
          /\ \A n \in 0 .. last - 1 :
                [Begun(n) EXCEPT !.members =
                    Append(@, Member(order[n + 1], source[order[n + 1]]))]
                   = Begun(n + 1)
      BY <3>1, BegunFacts
    <3>5. PICK n \in 0 .. last : /\ files[Partial] = Begun(n)
                                 /\ left[b] = SubSeq(order, n + 1, last)
      BY <1>1, <3>1 DEF CleanOf
    <3>6. /\ \A k : Begun(k)' = Begun(k)
          /\ InOrder(DOMAIN source)' = order
      BY <1>1 DEF Begun
    <3> HIDE DEF order
    <3>7. n \in 0 .. last - 1 /\ n + 1 \in 0 .. last /\ n \in Nat
      <4>1. CASE n = last
        <5>1. SubSeq(order, n + 1, last) = <<>>
          BY <3>4, <4>1, SubSeqEmpty
        <5> QED BY <1>1, <3>5, <5>1
      <4> QED BY <3>4, <4>1
    <3>8. name = order[n + 1] /\ l = SubSeq(order, (n + 1) + 1, last)
      <4>1. n + 1 \in 1 .. last + 1 /\ n + 1 \in Int /\ last \in Int
        BY <3>4, <3>7
      <4>2. /\ Head(SubSeq(order, n + 1, last)) = order[n + 1]
            /\ Tail(SubSeq(order, n + 1, last))
                  = SubSeq(order, (n + 1) + 1, last)
        <5> DEFINE i == n + 1
        <5>1. i \in 1 .. Len(order) /\ last \in i .. Len(order)
          BY <3>4, <3>7
        <5> HIDE DEF i
        <5>2. /\ Head(SubSeq(order, i, last)) = order[i]
              /\ Tail(SubSeq(order, i, last)) = SubSeq(order, i + 1, last)
          BY <3>4, <5>1, HeadTailOfSubSeq
        <5> QED BY <5>2 DEF i
      <4> QED BY <3>5, <4>2 DEF l
    <3>9. new = Begun(n + 1)
      BY <3>4, <3>5, <3>7, <3>8 DEF new, m, old
    <3>10. \E k \in 0 .. Len(InOrder(DOMAIN source))' :
              /\ files'[Partial] = Begun(k)'
              /\ left'[b] = SubSeq(InOrder(DOMAIN source), k + 1,
                                   Len(InOrder(DOMAIN source)))'
      <4>1. n + 1 \in 0 .. Len(InOrder(DOMAIN source))'
        BY <3>6, <3>7
      <4>2. files'[Partial] = Begun(n + 1)'
        BY <2>6, <3>6, <3>9
      <4>3. left'[b] = SubSeq(InOrder(DOMAIN source), (n + 1) + 1,
                              Len(InOrder(DOMAIN source)))'
        BY <2>5, <3>6, <3>8
      <4> QED BY <4>1, <4>2, <4>3
    <3> QED BY <1>1, <2>1, <3>1, <3>2, <3>3, <3>10
            DEF CleanOf, Steps, Idle, Holding, Again
  <2> QED BY <1>1, <1>2, <2>1, <2>5, <2>6, <2>7, <2>8, <2>9, PartialStep
<1>5. CASE ~read_stable(name, expected[b])
  <2> DEFINE new == [old EXCEPT !.closed = TRUE]
  <2>1. /\ files' = [files EXCEPT ![Partial] = new]
        /\ left' = left
        /\ pc' = [pc EXCEPT ![b] = "raised"]
    BY <1>1, <1>5 DEF WriteMember, Goto
  <2>2. ASSUME b \in clean PROVE FALSE
    <3> DEFINE order == InOrder(DOMAIN source)
               last == Len(order)
    <3>1. CleanOf(b) /\ ByName(source, Contents)
      BY <2>2, CleanFacts, CleanTree
    <3>2. expected[b] = source
      BY <1>1, <3>1 DEF CleanOf
    <3>3. /\ order \in Seq(Range(Names)) /\ last \in Nat
          /\ Range(order) = DOMAIN source
      BY <3>1, BegunFacts
    <3>4. PICK n \in 0 .. last : left[b] = SubSeq(order, n + 1, last)
      BY <1>1, <3>1 DEF CleanOf
    <3> HIDE DEF order
    <3>5. n \in 0 .. last - 1
      <4>1. CASE n = last
        <5>1. SubSeq(order, n + 1, last) = <<>>
          BY <3>3, <4>1, SubSeqEmpty
        <5> QED BY <1>1, <3>4, <5>1
      <4> QED BY <3>3, <4>1
    <3>6. name = order[n + 1]
      <4>1. n + 1 \in 1 .. last + 1 /\ n + 1 \in Int /\ last \in Int
        BY <3>3, <3>5
      <4>2. Head(SubSeq(order, n + 1, last)) = order[n + 1]
        BY <3>3, <3>5, <4>1, HeadTailOfSubSeq
      <4> QED BY <3>4, <4>2
    <3>7. order[n + 1] \in Range(order)
      BY <3>3, <3>5 DEF Range
    <3> HIDE DEF name
    <3> QED BY <1>5, <2>2, <3>2, <3>3, <3>6, <3>7, CleanFacts
  <2>3. new \in ArchiveType
    <3> DEFINE yes == TRUE
    <3>1. yes \in BOOLEAN
      OBVIOUS
    <3> HIDE DEF yes, old
    <3>2. [old EXCEPT !.closed = yes] \in ArchiveType
      BY <1>2, <3>1 DEF ArchiveType
    <3> QED BY <3>2 DEF yes
  <2> HIDE DEF new, old
  <2>4. left' \in [Builders -> Seq(Range(Names))]
        /\ \A a \in Builders \ {b} : left'[a] = left[a]
    BY <1>1, <2>1 DEF TypeOK
  <2>5. /\ DOMAIN files' = DOMAIN files \cup {Partial}
        /\ files' = [path \in DOMAIN files' |-> files'[path]]
        /\ files'[Partial] = new
        /\ \A path \in DOMAIN files \ {Partial} : files'[path] = files[path]
    <3>1. Partial \in DOMAIN files
      BY <1>2 DEF Exists
    <3> QED BY <2>1, <3>1
  <2>6. TypeOK'
    BY <1>1, <2>1, <2>3, <2>4, <2>5, PartialType
  <2>7. Exists(files, Output) => files'[Output] = files[Output]
    BY <2>5 DEF Exists, Output, Partial
  <2> QED BY <1>1, <1>2, <2>1, <2>2, <2>4, <2>5, <2>6, <2>7, PartialStep
<1> QED BY <1>4, <1>5

(* All members are stored: the archive is the packed form of the tree.     *)
LEMMA ClosePartialKeeps ==
    ASSUME IInv, NEW b \in Builders, ClosePartial(b)
    PROVE  IInv'
<1> DEFINE old == files[Partial]
           new == [old EXCEPT !.closed = TRUE]
<1>1. /\ pc[b] = "write" /\ pc[b] \in Holding /\ TypeOK
      /\ "digest" \in Steps /\ left[b] = <<>>
      /\ pc' = [pc EXCEPT ![b] = "digest"]
      /\ files' = [files EXCEPT ![Partial] = new]
      /\ UNCHANGED <<source, allowlist, expected, left, hash, clean, settled>>
  BY DEF ClosePartial, Idle, Steps, Holding, IInv, Quiet, world, locals, Goto
<1>2. Exists(files, Partial) /\ old \in ArchiveType
      /\ \A a \in Builders \ {b} : pc[a] \notin Holding
  BY <1>1, HeldPartial DEF IInv, LockInv
<1>3. new \in ArchiveType
  <2> DEFINE yes == TRUE
  <2>1. yes \in BOOLEAN
    OBVIOUS
  <2> HIDE DEF yes, old
  <2>2. [old EXCEPT !.closed = yes] \in ArchiveType
    BY <1>2, <2>1 DEF ArchiveType
  <2> QED BY <2>2 DEF yes
<1> HIDE DEF new, old
<1>4. left' \in [Builders -> Seq(Range(Names))]
      /\ \A a \in Builders \ {b} : left'[a] = left[a]
  BY <1>1 DEF TypeOK
<1>5. /\ DOMAIN files' = DOMAIN files \cup {Partial}
      /\ files' = [path \in DOMAIN files' |-> files'[path]]
      /\ files'[Partial] = new
      /\ \A path \in DOMAIN files \ {Partial} : files'[path] = files[path]
  <2>1. Partial \in DOMAIN files
    BY <1>2 DEF Exists
  <2> QED BY <1>1, <2>1
<1>6. TypeOK'
  BY <1>1, <1>3, <1>4, <1>5, PartialType
<1>7. Exists(files, Output) => files'[Output] = files[Output]
  BY <1>5 DEF Exists, Output, Partial
<1>8. ASSUME b \in clean PROVE CleanOf(b)'
  <2> DEFINE order == InOrder(DOMAIN source)
             last == Len(order)
  <2>1. CleanOf(b) /\ ByName(source, Contents) /\ pc'[b] = "digest"
    BY <1>1, <1>8, CleanFacts, CleanTree DEF TypeOK
  <2>2. /\ order \in Seq(Range(Names)) /\ last \in Nat
        /\ [Begun(last) EXCEPT !.closed = TRUE] = Packed(source)
    BY <2>1, BegunFacts
  <2>3. PICK n \in 0 .. last : /\ files[Partial] = Begun(n)
                               /\ left[b] = SubSeq(order, n + 1, last)
    BY <1>1, <2>1 DEF CleanOf
  <2> HIDE DEF order
  <2>4. n = last
    <3> SUFFICES ASSUME n # last PROVE FALSE
      OBVIOUS
    <3> DEFINE i == n + 1
    <3>1. /\ i \in Int /\ last \in Int /\ i <= last
          /\ \A k \in i .. last : order[k] \in Range(Names)
      BY <2>2
    <3> HIDE DEF i
    <3>2. Len(SubSeq(order, i, last)) = last - i + 1
      BY <3>1, SubSeqProperties
    <3>3. left[b] = SubSeq(order, i, last) /\ Len(left[b]) = 0
      BY <1>1, <2>3 DEF i
    <3> QED BY <3>1, <3>2, <3>3
  <2>5. files'[Partial] = Packed(source)
    BY <1>5, <2>2, <2>3, <2>4 DEF new, old
  <2>6. ~Exists(files, Output) => ~Exists(files, Output)'
    BY <1>5 DEF Exists, Output, Partial
  <2> QED BY <1>1, <2>1, <2>5, <2>6
          DEF CleanOf, Steps, Idle, Holding, Again
<1> QED BY <1>1, <1>2, <1>4, <1>5, <1>6, <1>7, <1>8, PartialStep

(* os.replace: what is published is the packed form of a valid allowlist,  *)
(* the one in force if anything has been settled since the last edit.      *)
LEMMA PublishKeeps ==
    ASSUME IInv, NEW b \in Builders, Publish(b)
    PROVE  IInv'
<1>1. /\ pc[b] = "replace" /\ pc[b] \in Holding /\ pc[b] \in Verified
      /\ TypeOK /\ "verify_again" \in Steps
      /\ pc[b] \in Steps \ (Idle \cup {"parse"})
  BY DEF Publish, Idle, Steps, Holding, Again, Verified, IInv
<1>2. /\ Exists(files, Partial) /\ files[Partial] \in ArchiveType
      /\ \A a \in Builders \ {b} : pc[a] \notin Holding
      /\ Output # Partial
  BY <1>1, HeldPartial DEF IInv, LockInv, Output, Partial
<1>3. /\ files' = Replace(files, Partial, Output)
      /\ settled' = settled \cup {b}
      /\ pc' = [pc EXCEPT ![b] = "verify_again"]
      /\ UNCHANGED <<source, allowlist, clean, expected, left, hash>>
  BY <1>2 DEF Publish, Quiet, world, locals, Goto
<1>4. Valid(expected[b]) /\ files[Partial] = Packed(expected[b])
  BY <1>1 DEF IInv, ListInv, ListOf
<1>5. /\ DOMAIN files' = (DOMAIN files \ {Partial}) \cup {Output}
      /\ files' = [path \in DOMAIN files' |-> files'[path]]
      /\ files'[Output] = files[Partial]
      /\ \A path \in DOMAIN files' \ {Output} :
            path \in DOMAIN files /\ files'[path] = files[path]
  <2> DEFINE fs == Replace(files, Partial, Output)
  <2>1. /\ DOMAIN fs = (DOMAIN files \ {Partial}) \cup {Output}
        /\ fs = [path \in DOMAIN fs |-> fs[path]]
        /\ fs[Output] = files[Partial]
        /\ \A path \in DOMAIN fs \ {Output} :
              path \in DOMAIN files /\ fs[path] = files[path]
    BY DEF Replace, Put, Without, Restrict
  <2>2. files' = fs
    BY <1>3
  <2> HIDE DEF fs
  <2> QED BY <2>1, <2>2
<1>6. /\ pc' \in [Builders -> Steps] /\ pc'[b] = "verify_again"
      /\ \A a \in Builders \ {b} : pc'[a] = pc[a]
  BY <1>1, <1>3 DEF TypeOK
<1>7. TypeOK'
  <2>1. \A path \in DOMAIN files' : files'[path] \in ArchiveType
    BY <1>1, <1>2, <1>5 DEF TypeOK
  <2>2. DOMAIN files' \subseteq {Output, Partial}
    BY <1>1, <1>5 DEF TypeOK
  <2> QED BY <1>1, <1>3, <1>5, <1>6, <2>1, <2>2 DEF TypeOK, ByName
<1>8. \A a \in Builders : pc'[a] \notin Holding /\ pc'[a] \notin Verified
                          /\ pc'[a] \notin {"look_again", "replace"}
  BY <1>2, <1>6 DEF Holding, Verified
<1>9. LockInv'
  BY <1>8 DEF LockInv
<1>10. ListInv'
  <2> SUFFICES ASSUME NEW a \in Builders PROVE ListOf(a)'
    BY DEF ListInv
  <2>1. ListOf(a)
    BY DEF IInv, ListInv
  <2>2. CASE a = b
    BY <1>3, <1>4, <1>8, <2>2 DEF ListOf
  <2>3. CASE a # b
    BY <1>3, <1>6, <1>8, <2>1, <2>3 DEF ListOf
  <2> QED BY <2>2, <2>3
<1>11. FreshInv'
  BY <1>5, <1>8 DEF FreshInv, Exists
<1>12. SettledInv'
  <2> SUFFICES ASSUME NEW a \in settled \cup {b} PROVE SettledOf(a)'
    BY <1>3 DEF SettledInv
  <2>1. CASE a = b
    BY <1>6, <2>1 DEF SettledOf, Again
  <2>2. CASE a # b
    <3>1. SettledOf(a) /\ a \in Builders /\ settled # {}
      BY <1>1, <2>2 DEF IInv, SettledInv, TypeOK
    <3>2. files'[Output] = Packed(parse_allowlist(allowlist))
      BY <1>1, <1>4, <1>5, <3>1 DEF IInv, FreshInv
    <3> QED BY <1>3, <1>6, <2>2, <3>1, <3>2 DEF SettledOf
  <2> QED BY <2>1, <2>2
<1>13. CleanInv'
  <2>1. clean \subseteq {b}
    BY <1>1 DEF IInv, CleanInv, CleanWorld, TypeOK
  <2>2. ASSUME b \in clean PROVE CleanWorld(b)' /\ CleanOf(b)'
    <3>1. CleanWorld(b) /\ CleanOf(b)
      BY <2>2 DEF IInv, CleanInv
    <3>2. CleanWorld(b)'
      BY <1>3, <1>6, <3>1 DEF CleanWorld, inspect_source
    <3>3. files'[Output] = Packed(source) /\ Exists(files, Output)'
      BY <1>1, <1>5, <3>1 DEF CleanOf, Exists, Holding
    <3>4. CleanOf(b)'
      BY <1>1, <1>3, <1>6, <3>1, <3>3
         DEF CleanOf, Steps, Idle, Holding, Again
    <3> QED BY <3>2, <3>4
  <2> QED BY <1>3, <2>1, <2>2 DEF CleanInv
<1>14. PublishedIsAllowed'
  BY <1>4, <1>5, AllowedArchive DEF PublishedIsAllowed
<1> QED BY <1>7, <1>9, <1>10, <1>11, <1>12, <1>13, <1>14 DEF IInv

(* An edit ends every claim about the present tree and allowlist, and      *)
(* touches nothing else.                                                   *)
LEMMA EditKeeps ==
    ASSUME IInv, Edit
    PROVE  IInv'
<1>1. /\ clean' = {} /\ settled' = {} /\ TypeOK
      /\ UNCHANGED <<files, pc, expected, left, hash>>
  BY DEF Edit, locals, IInv
<1>2. ByName(source, Contents \cup {Link})'
  <2>0. ByName(source, Contents \cup {Link})
    BY <1>1 DEF TypeOK
  <2>1. CASE \E name \in Range(Names), data \in Contents \cup {Link} :
                source' = Put(source, name, data)
    <3>1. PICK name \in Range(Names), data \in Contents \cup {Link} :
                  source' = Put(source, name, data)
      BY <2>1
    <3> DEFINE tree == Put(source, name, data)
    <3>2. ByName(tree, Contents \cup {Link})
      BY <2>0 DEF ByName, Put
    <3>3. source' = tree
      BY <3>1
    <3> HIDE DEF tree
    <3> QED BY <3>2, <3>3 DEF ByName
  <2>2. CASE \E name \in DOMAIN source : source' = Without(source, {name})
    <3>1. PICK name \in DOMAIN source : source' = Without(source, {name})
      BY <2>2
    <3> DEFINE tree == Without(source, {name})
    <3>2. ByName(tree, Contents \cup {Link})
      BY <2>0 DEF ByName, Without, Restrict
    <3>3. source' = tree
      BY <3>1
    <3> HIDE DEF tree
    <3> QED BY <3>2, <3>3 DEF ByName
  <2>3. CASE UNCHANGED source
    BY <2>0, <2>3 DEF ByName
  <2> QED BY <2>1, <2>2, <2>3 DEF Edit
<1>3. allowlist' \in Allowlists
  BY <1>1 DEF Edit, TypeOK
<1>4. TypeOK'
  BY <1>1, <1>2, <1>3 DEF TypeOK
<1>5. LockInv'
  BY <1>1 DEF IInv, LockInv, Exists
<1>6. ListInv'
  BY <1>1 DEF IInv, ListInv, ListOf
<1>7. FreshInv' /\ SettledInv' /\ CleanInv'
  BY <1>1 DEF FreshInv, SettledInv, CleanInv
<1>8. PublishedIsAllowed'
  BY <1>1 DEF IInv, PublishedIsAllowed, Exists
<1> QED BY <1>4, <1>5, <1>6, <1>7, <1>8 DEF IInv

(* A leftover that nobody holds is removed.                                *)
LEMMA RemovePartialKeeps ==
    ASSUME IInv, RemovePartial
    PROVE  IInv'
<1>1. /\ \A b \in Builders : pc[b] \notin Holding
      /\ TypeOK /\ Output # Partial /\ Exists(files, Partial)
      /\ UNCHANGED <<source, allowlist, pc, expected, left, hash, clean,
                     settled>>
  BY DEF RemovePartial, world, locals, ghosts, IInv, Output, Partial
<1>2. /\ DOMAIN files' = DOMAIN files \ {Partial}
      /\ files' = [path \in DOMAIN files' |-> files'[path]]
      /\ \A path \in DOMAIN files' : files'[path] = files[path]
  <2> DEFINE fs == Without(files, {Partial})
  <2>1. /\ DOMAIN fs = DOMAIN files \ {Partial}
        /\ fs = [path \in DOMAIN fs |-> fs[path]]
        /\ \A path \in DOMAIN fs : fs[path] = files[path]
    BY DEF Without, Restrict
  <2>2. files' = fs
    BY DEF RemovePartial
  <2> HIDE DEF fs
  <2> QED BY <2>1, <2>2
<1>3. /\ Exists(files, Output)' <=> Exists(files, Output)
      /\ Exists(files, Output) => files'[Output] = files[Output]
  BY <1>1, <1>2 DEF Exists
<1>4. TypeOK'
  <2>1. \A path \in DOMAIN files' : files'[path] \in ArchiveType
    BY <1>1, <1>2 DEF TypeOK
  <2>2. DOMAIN files' \subseteq {Output, Partial}
    BY <1>1, <1>2 DEF TypeOK
  <2> QED BY <1>1, <1>2, <2>1, <2>2 DEF TypeOK, ByName
<1>5. \A b \in Builders : pc[b] \notin Verified
                          /\ pc[b] \notin {"look_again", "replace"}
  BY <1>1 DEF Holding, Verified
<1>6. LockInv'
  BY <1>1, <1>5 DEF LockInv
<1>7. ListInv'
  BY <1>1, <1>5 DEF IInv, ListInv, ListOf
<1>8. FreshInv'
  BY <1>1, <1>3, <1>5 DEF IInv, FreshInv
<1>9. SettledInv'
  <2> SUFFICES ASSUME NEW a \in settled PROVE SettledOf(a)'
    BY <1>1 DEF SettledInv
  <2>1. SettledOf(a)
    BY DEF IInv, SettledInv
  <2>2. files'[Output] = files[Output]
    BY <1>3 DEF IInv, FreshInv
  <2> QED BY <1>1, <2>1, <2>2 DEF SettledOf
<1>10. CleanInv'
  <2> SUFFICES ASSUME NEW b \in clean PROVE CleanWorld(b)' /\ CleanOf(b)'
    BY <1>1 DEF CleanInv
  <2>1. b \in Builders /\ CleanWorld(b) /\ CleanOf(b) /\ pc[b] \notin Holding
    BY <1>1 DEF IInv, CleanInv, TypeOK
  <2>2. CleanWorld(b)'
    BY <1>1, <2>1 DEF CleanWorld, inspect_source
  <2>3. ~Exists(files, Partial)' /\ pc[b] # "write"
    BY <1>2, <2>1 DEF Exists, Holding
  <2>4. CleanOf(b)'
    BY <1>1, <1>3, <2>1, <2>3 DEF CleanOf
  <2> QED BY <2>2, <2>4
<1>11. PublishedIsAllowed'
  BY <1>3 DEF IInv, PublishedIsAllowed, Exists
<1> QED BY <1>4, <1>6, <1>7, <1>8, <1>9, <1>10, <1>11 DEF IInv

(* A step that changes nothing.                                            *)
LEMMA StutterKeeps ==
    ASSUME IInv, UNCHANGED vars
    PROVE  IInv'
<1>1. UNCHANGED <<source, allowlist, files, pc, expected, left, hash, clean,
                  settled>>
  BY DEF vars, locals, ghosts
<1>2. TypeOK' /\ LockInv'
  BY <1>1 DEF IInv, TypeOK, ByName, LockInv, Exists
<1>3. ListInv' /\ FreshInv' /\ SettledInv'
  BY <1>1 DEF IInv, ListInv, ListOf, FreshInv, SettledInv, SettledOf, Exists
<1>4. CleanInv'
  <2> SUFFICES ASSUME NEW b \in clean PROVE CleanWorld(b)' /\ CleanOf(b)'
    BY <1>1 DEF CleanInv
  <2>1. CleanWorld(b) /\ CleanOf(b)
    BY DEF IInv, CleanInv
  <2>2. CleanWorld(b)'
    BY <1>1, <2>1 DEF CleanWorld, inspect_source
  <2>3. CleanOf(b)'
    BY <1>1, <2>1 DEF CleanOf, Exists, Begun
  <2> QED BY <2>2, <2>3
<1>5. PublishedIsAllowed'
  BY <1>1 DEF IInv, PublishedIsAllowed, Exists
<1> QED BY <1>2, <1>3, <1>4, <1>5 DEF IInv

(* The tree is as listed, nothing is built and nobody is at work.          *)
LEMMA InitHolds ==
    ASSUME Init
    PROVE  IInv
<1>1. /\ allowlist \in Allowlists /\ source = parse_allowlist(allowlist)
      /\ parse_allowlist(allowlist) # Invalid
      /\ files = NoFiles /\ pc = [b \in Builders |-> "killed"]
      /\ expected = [b \in Builders |-> Invalid]
      /\ left = [b \in Builders |-> <<>>]
      /\ hash = [b \in Builders |-> NoArchive]
      /\ clean = {} /\ settled = {}
  BY DEF Init
<1>2. ByName(source, Contents \cup {Link})
  <2>1. ByName(parse_allowlist(allowlist), Contents)
    BY <1>1, ParseFacts
  <2> QED BY <1>1, <2>1 DEF ByName
<1>3. DOMAIN files = {} /\ files = [path \in DOMAIN files |-> files[path]]
  BY <1>1 DEF NoFiles
<1>4. /\ "killed" \in Steps /\ "killed" \in Idle /\ "killed" \notin Holding
      /\ NoArchive \in ArchiveType /\ <<>> \in Seq(Range(Names))
  BY DEF Steps, Idle, Holding, NoArchive, ArchiveType
<1>5. TypeOK
  <2>1. /\ DOMAIN expected = Builders
        /\ expected = [b \in Builders |-> expected[b]]
    BY <1>1
  <2> QED BY <1>1, <1>2, <1>3, <1>4, <2>1 DEF TypeOK
<1>6. LockInv /\ ListInv
  BY <1>1, <1>4 DEF LockInv, ListInv, ListOf
<1>7. FreshInv /\ SettledInv /\ CleanInv
  BY <1>1 DEF FreshInv, SettledInv, CleanInv
<1>8. PublishedIsAllowed
  BY <1>3 DEF PublishedIsAllowed, Exists
<1> QED BY <1>5, <1>6, <1>7, <1>8 DEF IInv

(* One step of one builder.                                                *)
LEMMA BuilderKeeps ==
    ASSUME IInv, NEW b \in Builders, Builder(b)
    PROVE  IInv'
BY StartKeeps, ParseKeeps, ReadAheadKeeps, OpenPartialKeeps, WriteMemberKeeps,
   ClosePartialKeeps, DigestKeeps, VerifyPartialKeeps, LookAgainKeeps,
   PublishKeeps, VerifyOutputKeeps, CompareDigestKeeps, KillKeeps DEF Builder

-----------------------------------------------------------------------------
(* The theorems.                                                           *)

(* The invariant holds of every behaviour, for any builders, names and     *)
(* allowlists.                                                             *)
THEOREM Invariance == Spec => []IInv
<1>1. Init => IInv
  BY InitHolds
<1>2. IInv /\ [Next]_vars => IInv'
  BY BuilderKeeps, EditKeeps, RemovePartialKeeps, StutterKeeps DEF Next
<1> QED BY <1>1, <1>2, PTL DEF Spec

(* Whatever is found under the output name is a whole archive of one valid *)
(* allowlist (exclusive creation of the partial, verification before       *)
(* os.replace).                                                            *)
THEOREM OutputIsAllowed == Spec => []PublishedIsAllowed
<1>1. IInv => PublishedIsAllowed
  BY DEF IInv
<1> QED BY <1>1, Invariance, PTL

(* A builder that reports success has published what the tree and the      *)
(* allowlist say, unless they were edited since (the verifier's second     *)
(* pass and the comparison of digests).                                    *)
THEOREM SuccessMeansCurrent == Spec => []SuccessIsCurrent
<1>1. IInv => SuccessIsCurrent
  BY DEF IInv, SettledInv, SettledOf, FreshInv, SuccessIsCurrent
<1> QED BY <1>1, Invariance, PTL

(* A build that nothing interferes with, of a tree that is as listed, is   *)
(* never refused: builder and verifier agree on every byte.                *)
THEOREM UnhinderedSucceeds == Spec => []UnhinderedBuildSucceeds
<1>1. IInv => UnhinderedBuildSucceeds
  BY DEF IInv, CleanInv, CleanOf, UnhinderedBuildSucceeds
<1> QED BY <1>1, Invariance, PTL

(* The verifier accepts an archive exactly when it is, member for member,  *)
(* what the builder packs for the allowlist in force.                      *)
THEOREM VerifierIsExact == Spec => []AcceptsOnlyCanonical
<1>1. IInv => AcceptsOnlyCanonical
  BY CanonicalOnly DEF IInv
<1> QED BY <1>1, Invariance, PTL

(* A builder without --overwrite never replaces an output, although the    *)
(* test and os.replace are two steps: only the holder of the partial file  *)
(* can publish.                                                            *)
THEOREM NothingReplacedUnasked == Spec => NeverReplacedUnasked
<1> DEFINE Asked ==
        \A b \in Builders \ Overwriting :
            pc[b] = "replace" /\ pc'[b] \notin {"replace", "killed"}
                => ~Exists(files, Output)
<1>1. IInv => [Asked]_vars
  BY DEF IInv, LockInv
<1>2. [][Asked]_vars <=> NeverReplacedUnasked
  BY DEF NeverReplacedUnasked
<1> QED BY <1>1, <1>2, Invariance, PTL
=============================================================================
