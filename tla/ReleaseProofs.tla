---------------------------- MODULE ReleaseProofs ----------------------------
(***************************************************************************)
(* Proofs about Release, for any builders, options, outcomes of builds,    *)
(* reviewed lists and bounds.  What the verifier accepts rests on a fact   *)
(* that holds however the tools overlap or die: a receipt in the tree was  *)
(* made by one build, whose sources and outputs it describes.  What a tool *)
(* promises when nobody interferes rests on an account of its progress:    *)
(* the files it has already written still are what it would write now.     *)
(***************************************************************************)
EXTENDS Release, SequenceTheorems, TLAPS

-----------------------------------------------------------------------------
(* The inductive invariant.                                                *)

Working == {"unchanged", "promote", "replace", "check"}
BuildSteps == Ended \cup Working \cup {"snapshot"}
RebuildSteps == Ended \cup {"precheck", "write", "replace"}
Originals == {Main, Figure, Definition}

TypeInv ==
    /\ DOMAIN pc = Tools /\ pc = [p \in Tools |-> pc[p]]
    /\ \A b \in Builders : pc[b] \in BuildSteps
    /\ pc[Rebuild] \in RebuildSteps
    /\ argument \in [Builders -> Options]
    /\ DOMAIN snapshot = Builders
    /\ snapshot = [b \in Builders |-> snapshot[b]]
    /\ DOMAIN built = Builders /\ built = [b \in Builders |-> built[b]]
    /\ DOMAIN todo = Tools /\ todo = [p \in Tools |-> todo[p]]
    /\ clean \subseteq Tools

\* The outputs of a build, which depend on its sources and one variant.
Made(sources, v) ==
    [path \in Outputs |->
        IF path = FigurePdf THEN <<sources[Figure], v>>
        ELSE <<sources[Main], sources[Figure], v>>]

\* A receipt describes one build of sources that the checks do not refuse.
Genuine(receipt) ==
    LET sources == receipt.source_manifest
    IN  /\ validate(sources)
        /\ \E v \in Variants : receipt.promoted_outputs = Made(sources, v)

TreeInv == Exists(files, Receipt) => Genuine(files[Receipt])

\* What is left of the promotion, and of the rebuild.
ToPromote ==
    {<<ArticlePdf, FigurePdf, SourceManifest, Receipt>>,
     <<FigurePdf, SourceManifest, Receipt>>, <<SourceManifest, Receipt>>,
     <<Receipt>>}
ToRebuild ==
    {<<ExperimentManifest, Claims, Sbom, Inventory, Allowlist, Manifest>>,
     <<Claims, Sbom, Inventory, Allowlist, Manifest>>,
     <<Sbom, Inventory, Allowlist, Manifest>>,
     <<Inventory, Allowlist, Manifest>>, <<Allowlist, Manifest>>,
     <<ExperimentManifest, Claims, Sbom, Inventory, Manifest>>,
     <<Claims, Sbom, Inventory, Manifest>>, <<Sbom, Inventory, Manifest>>,
     <<Inventory, Manifest>>, <<Manifest>>}

\* What a builder has read and still has to do.
ReadInv(b) ==
    /\ pc[b] \in Ended => DOMAIN snapshot[b] = {}
    /\ pc[b] = "snapshot" =>
          \/ todo[b] = <<Main, Figure, Definition>> /\ DOMAIN snapshot[b] = {}
          \/ todo[b] = <<Figure, Definition>> /\ DOMAIN snapshot[b] = {Main}
          \/ todo[b] = <<Definition>> /\ DOMAIN snapshot[b] = {Main, Figure}
          \/ todo[b] = <<>> /\ DOMAIN snapshot[b] = Originals
    /\ pc[b] \in Working => DOMAIN snapshot[b] = Originals
    /\ Figure \in DOMAIN snapshot[b] =>
          PhaseAgrees(snapshot[b][Main], argument[b].phase,
                      argument[b].expected_article_doi)

\* What a builder has built and has to promote.
WorkInv(b) ==
    /\ pc[b] \in Working =>
          /\ validate(snapshot[b])
          /\ \E v \in Variants :
                /\ built[b].outputs = Made(snapshot[b], v)
                /\ built[b].A.svg = <<snapshot[b][Figure], v>>
    /\ pc[b] \in {"promote", "replace"} => todo[b] \in ToPromote
    /\ pc[b] = "check" => todo[b] = <<>>
    /\ pc[b] = "replace" =>
          Has(files, PartialOf(Head(todo[b]), b), Promoted(b, Head(todo[b])))

\* What a builder that nobody disturbed knows of the tree.
CleanBuild(b) ==
    /\ \A path \in DOMAIN snapshot[b] : Has(files, path, snapshot[b][path])
    /\ pc[b] \in {"promote", "replace", "check"} =>
          \A path \in Range(Promotions) \ Range(todo[b]) :
              Has(files, path, Promoted(b, path))
    /\ pc[b] = "done" =>
          ((\E doi \in {"none", "doi"} : verify_article(files, doi))
              <=> DemandedBesides(files[Receipt]))

Rebuilding == pc[Rebuild] \in {"write", "replace"}

RebuildInv ==
    Rebuilding => names \cap INDEXES = {} /\ todo[Rebuild] \in ToRebuild

\* The paths the rebuild derives, and what each has to be when `listing`
\* is what it found at first.
DerivedPaths == Range(REBUILD) \cup INDEXES
Public(listing) == listing \cup Range(REBUILD)
Fresh(fs, listing, path) ==
    CASE path = ExperimentManifest ->
            Digests(fs, {p \in listing : InExperiments(p)})
      [] path = Claims -> Digests(fs, Evidence)
      [] path = Sbom -> Digests(fs, Public(listing) \ {Sbom, Inventory})
      [] path = Inventory -> Digests(fs, Public(listing) \ {Inventory})
      [] path = Allowlist -> listing
      [] path = Manifest -> Digests(fs, listing)

\* The temporary file of the rebuild, if it has one now.
TmpNow == {TmpOf(Head(todo[Rebuild])) : x \in {pc[Rebuild]} \cap {"replace"}}

\* What FailedRebuildIsCurrent says of a rebuild that failed.
Current ==
    /\ Manifest \notin changed
    /\ \A i \in DOMAIN REBUILD : REBUILD[i] \in changed =>
          \A j \in 1..i : Has(files, REBUILD[j], Derived(REBUILD[j]))

\* How far a rebuild that nobody disturbed has come.
CleanRebuild ==
    /\ pc[Rebuild] = "precheck" => changed = {}
    /\ Rebuilding =>
          LET left == todo[Rebuild]
              tmp == TmpOf(Head(left))
          IN  /\ all_files(files) =
                    names \cup (Range(REBUILD) \ Range(left)) \cup TmpNow
              /\ changed \subseteq DerivedPaths \ Range(left)
              /\ \A p \in DerivedPaths \ Range(left) :
                    Has(files, p, Fresh(files, names, p))
              /\ pc[Rebuild] = "replace" =>
                    /\ tmp \notin names
                    /\ files[tmp] = Fresh(files, names, Head(left))
    /\ RebuildSatisfiesVerifier /\ FailedRebuildIsCurrent

IInv ==
    /\ TypeInv /\ TreeInv /\ RebuildInv
    /\ \A b \in Builders : ReadInv(b) /\ WorkInv(b)
    /\ \A b \in Builders \cap clean : CleanBuild(b)
    /\ Rebuild \in clean => CleanRebuild

-----------------------------------------------------------------------------
(* File systems.                                                           *)

\* The digests of some files: a function on those of them that exist.
LEMMA DigestsFacts ==
    ASSUME NEW fs, NEW paths
    PROVE  /\ DOMAIN Digests(fs, paths) = paths \cap DOMAIN fs
           /\ \A p \in paths \cap DOMAIN fs : Digests(fs, paths)[p] = fs[p]
  BY DEF Digests, Restrict

-----------------------------------------------------------------------------
(* Paths.                                                                  *)

\* The paths of the tree that are not a tool's temporary files.
Plain == REQUIRED \cup INDEXES \cup {Stray, Accented, AccentedRows}

\* Temporary files have two parts, the other files one.
LEMMA PlainParts ==
    ASSUME NEW p \in Plain
    PROVE  p = <<p[1]>> /\ Len(p) = 1
  BY DEF Plain, REQUIRED, INDEXES, Stray, Accented, AccentedRows, Main,
         Figure, Definition, ArticlePdf, FigurePdf, SourceManifest, Receipt,
         Doc, Rows, Citation, ExperimentManifest, Claims, Sbom, Inventory,
         Allowlist, Manifest

\* A second part is added to a path.
LEMMA TwoParts ==
    ASSUME NEW s, NEW t
    PROVE  <<s>> \o <<t>> = <<s, t>>
<1> DEFINE u == <<s>> \o <<t>>
           v == <<s, t>>
<1>1. <<s>> \in Seq({s, t}) /\ <<t>> \in Seq({s, t})
  OBVIOUS
<1>2. /\ u \in Seq({s, t}) /\ v \in Seq({s, t}) /\ Len(u) = 2 /\ Len(v) = 2
      /\ u[1] = v[1] /\ u[2] = v[2]
  BY <1>1
<1> HIDE DEF u, v
<1>3. u = v
  BY <1>2, SeqEqual
<1> QED
  BY <1>3 DEF u, v

\* A third part is added to a sequence of two.
LEMMA ThreeParts ==
    ASSUME NEW s, NEW t, NEW r
    PROVE  <<s, t>> \o <<r>> = <<s, t, r>>
<1> DEFINE u == <<s, t>> \o <<r>>
           v == <<s, t, r>>
<1>1. <<s, t>> \in Seq({s, t, r}) /\ <<r>> \in Seq({s, t, r})
  OBVIOUS
<1>2. /\ u \in Seq({s, t, r}) /\ v \in Seq({s, t, r})
      /\ Len(u) = 3 /\ Len(v) = 3
      /\ u[1] = v[1] /\ u[2] = v[2] /\ u[3] = v[3]
  BY <1>1
<1> HIDE DEF u, v
<1>3. u = v
  BY <1>2, SeqEqual
<1> QED
  BY <1>3 DEF u, v

\* The temporary files of tools and paths are distinct.
LEMMA TemporaryPaths ==
    ASSUME NEW p \in Plain, NEW q \in Plain, NEW b \in Builders,
           NEW c \in Builders
    PROVE  /\ PartialOf(p, b) \notin Plain /\ TmpOf(p) \notin Plain
           /\ PartialOf(p, b) = PartialOf(q, c) => p = q /\ b = c
           /\ TmpOf(p) = TmpOf(q) => p = q
           /\ PartialOf(p, b) # TmpOf(q)
           /\ Len(PartialOf(p, b)) = 2 /\ Len(TmpOf(p)) = 2
<1>1. PartialOf(p, b) = <<p[1], b>> /\ TmpOf(p) = <<p[1], "tmp">>
  BY PlainParts, TwoParts DEF PartialOf, TmpOf
<1>2. PartialOf(q, c) = <<q[1], c>> /\ TmpOf(q) = <<q[1], "tmp">>
  BY PlainParts, TwoParts DEF PartialOf, TmpOf
<1>3. p = <<p[1]>> /\ q = <<q[1]>>
  BY PlainParts
<1>4. \A r \in Plain : Len(r) = 1
  BY PlainParts
<1>5. Len(PartialOf(p, b)) = 2 /\ Len(TmpOf(p)) = 2
  BY <1>1
<1>6. PartialOf(p, b) = PartialOf(q, c) => p[1] = q[1] /\ b = c
  BY <1>1, <1>2
<1>7. TmpOf(p) = TmpOf(q) => p[1] = q[1]
  BY <1>1, <1>2
<1>8. PartialOf(p, b) # TmpOf(q)
  BY <1>1, <1>2, RebuildAssumption
<1> QED
  BY <1>3, <1>4, <1>5, <1>6, <1>7, <1>8

\* The paths that are compared below are distinct.
LEMMA DistinctPaths ==
    /\ Main # Figure /\ Definition \notin {Main, Figure}
    /\ Range(NORMATIVE) = {Main, Figure}
    /\ ArticlePdf # FigurePdf
    /\ SourceManifest \notin Outputs
    /\ Receipt \notin Outputs \cup {SourceManifest}
    /\ Originals \cap (Outputs \cup {SourceManifest, Receipt}) = {}
    /\ Range(Promotions) = {ArticlePdf, FigurePdf, SourceManifest, Receipt}
    /\ Range(Promotions) \subseteq Plain
  BY DEF Main, Figure, Definition, ArticlePdf, FigurePdf, SourceManifest,
         Receipt, Outputs, Originals, NORMATIVE, Promotions, Range, Plain,
         REQUIRED

-----------------------------------------------------------------------------
(* Sequences of paths.                                                     *)

\* One promotion after the other, the receipt last.
LEMMA PromoteOne ==
    ASSUME NEW left \in ToPromote
    PROVE  /\ left # <<>> /\ Head(left) \in Range(Promotions)
           /\ Range(left) \subseteq Range(Promotions)
           /\ Range(left) = {Head(left)} \cup Range(Tail(left))
           /\ Tail(left) \in ToPromote \cup {<<>>}
           /\ Head(left) = Receipt => Range(left) = {Receipt}
           /\ Head(left) # Receipt => Tail(left) # <<>>
<1>1. CASE left = <<ArticlePdf, FigurePdf, SourceManifest, Receipt>>
  BY <1>1, DistinctPaths DEF Range, ToPromote, Outputs
<1>2. CASE left = <<FigurePdf, SourceManifest, Receipt>>
  BY <1>2, DistinctPaths DEF Range, ToPromote, Outputs
<1>3. CASE left = <<SourceManifest, Receipt>>
  BY <1>3, DistinctPaths DEF Range, ToPromote, Outputs
<1>4. CASE left = <<Receipt>>
  BY <1>4, DistinctPaths DEF Range, ToPromote, Outputs
<1> QED
  BY <1>1, <1>2, <1>3, <1>4 DEF ToPromote

\* The paths that the rebuild derives are distinct and not its inputs.
LEMMA DerivedDistinct ==
    /\ DerivedPaths = {ExperimentManifest, Claims, Sbom, Inventory, Allowlist,
                       Manifest}
    /\ ExperimentManifest \notin {Claims, Sbom, Inventory, Allowlist, Manifest}
    /\ Claims \notin {Sbom, Inventory, Allowlist, Manifest}
    /\ Sbom \notin {Inventory, Allowlist, Manifest}
    /\ Inventory \notin {Allowlist, Manifest} /\ Allowlist # Manifest
    /\ Evidence \cap DerivedPaths = {}
    /\ Receipt \notin DerivedPaths
    /\ DerivedPaths \subseteq Plain
    /\ Range(REBUILD) = {ExperimentManifest, Claims, Sbom, Inventory}
    /\ Range(REBUILD) \subseteq REQUIRED
    /\ \A p \in Range(REBUILD) : ~InExperiments(p)
  BY DEF DerivedPaths, REBUILD, INDEXES, Range, ExperimentManifest, Claims,
         Sbom, Inventory, Allowlist, Manifest, Evidence, Doc, Rows, Receipt,
         Plain, REQUIRED, InExperiments, AccentedRows

\* One derived file after the other, each after those that it lists.
LEMMA RebuildOne ==
    ASSUME NEW left \in ToRebuild
    PROVE  /\ left # <<>> /\ Head(left) \in DerivedPaths
           /\ Range(left) \subseteq DerivedPaths
           /\ Range(left) = {Head(left)} \cup Range(Tail(left))
           /\ Tail(left) \in ToRebuild \cup {<<>>}
           /\ Tail(left) = <<>> <=> Head(left) = Manifest
           /\ Manifest \in Range(left) /\ Head(left) \notin Range(Tail(left))
           /\ ExperimentManifest \in Range(left) =>
                 Claims \in Range(left) /\ Head(left) = ExperimentManifest
           /\ Claims \in Range(left) =>
                 /\ Sbom \in Range(left)
                 /\ Head(left) \in {ExperimentManifest, Claims}
           /\ Sbom \in Range(left) =>
                 /\ Inventory \in Range(left)
                 /\ Head(left) \in {ExperimentManifest, Claims, Sbom}
           /\ Inventory \in Range(left) => Head(left) \in Range(REBUILD)
<1> USE DerivedDistinct DEF Range, ToRebuild, INDEXES
<1>1. CASE left = <<ExperimentManifest, Claims, Sbom, Inventory, Allowlist,
                    Manifest>>
  BY <1>1
<1>2. CASE left = <<Claims, Sbom, Inventory, Allowlist, Manifest>>
  BY <1>2
<1>3. CASE left = <<Sbom, Inventory, Allowlist, Manifest>>
  BY <1>3
<1>4. CASE left = <<Inventory, Allowlist, Manifest>>
  BY <1>4
<1>5. CASE left = <<Allowlist, Manifest>>
  BY <1>5
<1>6. CASE left = <<ExperimentManifest, Claims, Sbom, Inventory, Manifest>>
  BY <1>6
<1>7. CASE left = <<Claims, Sbom, Inventory, Manifest>>
  BY <1>7
<1>8. CASE left = <<Sbom, Inventory, Manifest>>
  BY <1>8
<1>9. CASE left = <<Inventory, Manifest>>
  BY <1>9
<1>10. CASE left = <<Manifest>>
  BY <1>10
<1> QED
  BY <1>1, <1>2, <1>3, <1>4, <1>5, <1>6, <1>7, <1>8, <1>9, <1>10

-----------------------------------------------------------------------------
(* Tools that a step does not move.                                        *)

SameTool(b) ==
    /\ pc'[b] = pc[b] /\ todo'[b] = todo[b]
    /\ argument'[b] = argument[b] /\ snapshot'[b] = snapshot[b]
    /\ built'[b] = built[b]

\* What a builder would promote depends on its own data only.
LEMMA SamePromoted ==
    ASSUME NEW b \in Builders, argument'[b] = argument[b],
           snapshot'[b] = snapshot[b], built'[b] = built[b], NEW path
    PROVE  Promoted(b, path)' = Promoted(b, path)
  BY DEF Promoted, build_receipt, manifest_bytes

\* A builder keeps its invariant while others move.
LEMMA SameBuilder ==
    ASSUME IInv, NEW b \in Builders, SameTool(b),
           pc[b] = "replace" =>
              LET partial == PartialOf(Head(todo[b]), b)
              IN  Has(files', partial, files[partial]),
           b \in clean' => b \in clean /\ files' = files
    PROVE  /\ ReadInv(b)' /\ WorkInv(b)'
           /\ b \in clean' => CleanBuild(b)'
<1>1. ReadInv(b) /\ WorkInv(b)
  BY DEF IInv
<1>2. ReadInv(b)'
  BY <1>1 DEF ReadInv, SameTool
<1>3. \A path : Promoted(b, path)' = Promoted(b, path)
  BY SamePromoted DEF SameTool
<1>4. WorkInv(b)'
  BY <1>1, <1>3 DEF WorkInv, SameTool, Has, Exists
<1>5. ASSUME b \in clean'
      PROVE  CleanBuild(b)'
  <2>1. CleanBuild(b) /\ files' = files
    BY <1>5 DEF IInv
  <2> QED
    BY <2>1, <1>3 DEF CleanBuild, SameTool
<1> QED
  BY <1>2, <1>4, <1>5

\* What is derived before the indexes depends on the tree only.
LEMMA SameDerived ==
    ASSUME files' = files, NEW p \in Range(REBUILD)
    PROVE  Derived(p)' = Derived(p)
  BY DerivedDistinct DEF Derived

\* The promises of a rebuild that ended stay kept in the same tree.
LEMMA SameCurrent ==
    ASSUME files' = files, changed' = changed, Current
    PROVE  Current'
<1>1. \A i \in DOMAIN REBUILD : REBUILD[i] \in Range(REBUILD)
  BY DEF Range
<1>2. \A i \in DOMAIN REBUILD : Derived(REBUILD[i])' = Derived(REBUILD[i])
  BY <1>1, SameDerived
<1>3. ASSUME NEW i \in DOMAIN REBUILD, NEW j \in 1..i
      PROVE  j \in DOMAIN REBUILD
  BY <1>3 DEF REBUILD
<1> QED
  BY <1>2, <1>3 DEF Current

\* The rebuild keeps its invariant while others move.
LEMMA SameRebuild ==
    ASSUME IInv, pc'[Rebuild] = pc[Rebuild], todo'[Rebuild] = todo[Rebuild],
           UNCHANGED rebuildLocals,
           Rebuild \in clean' => Rebuild \in clean /\ files' = files
    PROVE  /\ RebuildInv'
           /\ Rebuild \in clean' => CleanRebuild'
<1>1. RebuildInv /\ names' = names /\ adopted' = adopted /\ changed' = changed
  BY DEF IInv, rebuildLocals
<1>2. RebuildInv'
  BY <1>1 DEF RebuildInv, Rebuilding
<1>3. ASSUME Rebuild \in clean'
      PROVE  CleanRebuild'
  <2>1. CleanRebuild /\ files' = files /\ Rebuild \in clean
    BY <1>3 DEF IInv
  <2>2. RebuildSatisfiesVerifier' /\ FailedRebuildIsCurrent'
    BY <1>1, <2>1, SameCurrent
    DEF CleanRebuild, RebuildSatisfiesVerifier, FailedRebuildIsCurrent, Current
  <2>3. TmpNow' = TmpNow
    BY DEF TmpNow
  <2> QED
    BY <1>1, <2>1, <2>2, <2>3 DEF CleanRebuild, Rebuilding
<1> QED
  BY <1>2, <1>3

-----------------------------------------------------------------------------
(* The steps of a builder, as others see them.                             *)

\* A tool that ends: its private data are gone, and nobody else's.
LEMMA EndFrame ==
    ASSUME TypeInv, NEW b \in Builders, NEW how \in Ended, End(b, how)
    PROVE  /\ pc'[b] = how /\ argument'[b] = Defaults
           /\ snapshot'[b] = NoFiles /\ todo'[b] = <<>>
           /\ \A c \in Builders \ {b} : SameTool(c)
           /\ pc'[Rebuild] = pc[Rebuild] /\ todo'[Rebuild] = todo[Rebuild]
           /\ DOMAIN pc' = Tools /\ pc' = [p \in Tools |-> pc'[p]]
           /\ argument' \in [Builders -> Options]
           /\ DOMAIN snapshot' = Builders
           /\ snapshot' = [c \in Builders |-> snapshot'[c]]
           /\ DOMAIN built' = Builders
           /\ built' = [c \in Builders |-> built'[c]]
           /\ DOMAIN todo' = Tools /\ todo' = [p \in Tools |-> todo'[p]]
<1> USE RebuildAssumption DEF TypeInv, End, Goto, Tools
<1>0. Defaults \in Options
  BY DEF Defaults, Options
<1>1. /\ pc'[b] = how /\ pc'[Rebuild] = pc[Rebuild]
      /\ \A c \in Builders \ {b} : pc'[c] = pc[c]
      /\ DOMAIN pc' = Tools /\ pc' = [p \in Tools |-> pc'[p]]
  OBVIOUS
<1>2. /\ todo'[b] = <<>> /\ todo'[Rebuild] = todo[Rebuild]
      /\ \A c \in Builders \ {b} : todo'[c] = todo[c]
      /\ DOMAIN todo' = Tools /\ todo' = [p \in Tools |-> todo'[p]]
  OBVIOUS
<1>3. /\ argument'[b] = Defaults
      /\ \A c \in Builders \ {b} : argument'[c] = argument[c]
      /\ argument' \in [Builders -> Options]
  BY <1>0
<1>4. /\ snapshot'[b] = NoFiles
      /\ \A c \in Builders \ {b} : snapshot'[c] = snapshot[c]
      /\ DOMAIN snapshot' = Builders
      /\ snapshot' = [c \in Builders |-> snapshot'[c]]
  OBVIOUS
<1>5. /\ \A c \in Builders \ {b} : built'[c] = built[c]
      /\ DOMAIN built' = Builders /\ built' = [c \in Builders |-> built'[c]]
  OBVIOUS
<1> QED
  BY <1>1, <1>2, <1>3, <1>4, <1>5 DEF SameTool

\* A builder that ends otherwise than well keeps the invariant.
LEMMA EndInv ==
    ASSUME TypeInv, NEW b \in Builders, NEW how \in Ended \ {"done"},
           End(b, how)
    PROVE  ReadInv(b)' /\ WorkInv(b)' /\ CleanBuild(b)'
<1>1. pc'[b] = how /\ snapshot'[b] = NoFiles
  BY EndFrame
<1>2. DOMAIN snapshot'[b] = {}
  BY <1>1 DEF NoFiles
<1> QED
  BY <1>1, <1>2 DEF ReadInv, WorkInv, CleanBuild, Ended, Working

\* Everyone but b stands still, and is disturbed if the tree changes.
Frame(b) ==
    /\ TypeInv'
    /\ \A c \in Builders \ {b} : SameTool(c)
    /\ pc'[Rebuild] = pc[Rebuild] /\ todo'[Rebuild] = todo[Rebuild]
    /\ \A p \in Tools \ {b} : p \in clean' => p \in clean /\ files' = files

\* The tree stays the same, or at most b has not been disturbed.
Disturbs(b) ==
    /\ clean' \subseteq clean \cup {b}
    /\ files' = files \/ clean' \subseteq {b}

\* The ways in which a step of a builder may touch the others.
LEMMA EndMoves ==
    ASSUME TypeInv, NEW b \in Builders, NEW how \in Ended, End(b, how),
           Disturbs(b)
    PROVE  Frame(b)
<1>a. pc'[b] = how /\ \A c \in Builders \ {b} : pc'[c] = pc[c]
  BY EndFrame DEF SameTool
<1>1. \A c \in Builders : pc'[c] \in BuildSteps
  BY <1>a DEF TypeInv, BuildSteps
<1>2. pc'[Rebuild] \in RebuildSteps
  BY EndFrame DEF TypeInv
<1>3. clean' \subseteq Tools
  BY DEF TypeInv, Tools, Disturbs
<1>4. TypeInv'
  BY <1>1, <1>2, <1>3, EndFrame DEF TypeInv
<1>5. \A p \in Tools \ {b} : p \in clean' => p \in clean /\ files' = files
  BY DEF Disturbs
<1> QED
  BY <1>4, <1>5, EndFrame DEF Frame

\* The same for a builder that goes on to another step.
LEMMA StepMoves ==
    ASSUME TypeInv, NEW b \in Builders, NEW step \in BuildSteps,
           NEW arg \in Options, NEW snap, NEW made, NEW left,
           pc' = [pc EXCEPT ![b] = step],
           argument' = [argument EXCEPT ![b] = arg],
           snapshot' = [snapshot EXCEPT ![b] = snap],
           built' = [built EXCEPT ![b] = made],
           todo' = [todo EXCEPT ![b] = left],
           Disturbs(b)
    PROVE  /\ Frame(b)
           /\ pc'[b] = step /\ argument'[b] = arg /\ snapshot'[b] = snap
           /\ built'[b] = made /\ todo'[b] = left
<1>0. /\ b \in Tools /\ Rebuild \in Tools /\ b # Rebuild
      /\ Builders \subseteq Tools
  BY RebuildAssumption DEF Tools
<1>1. /\ pc'[b] = step /\ pc'[Rebuild] = pc[Rebuild]
      /\ \A c \in Builders \ {b} : pc'[c] = pc[c]
      /\ DOMAIN pc' = Tools /\ pc' = [p \in Tools |-> pc'[p]]
  BY <1>0 DEF TypeInv
<1>2. /\ todo'[b] = left /\ todo'[Rebuild] = todo[Rebuild]
      /\ \A c \in Builders \ {b} : todo'[c] = todo[c]
      /\ DOMAIN todo' = Tools /\ todo' = [p \in Tools |-> todo'[p]]
  BY <1>0 DEF TypeInv
<1>3. /\ argument'[b] = arg
      /\ \A c \in Builders \ {b} : argument'[c] = argument[c]
      /\ argument' \in [Builders -> Options]
  BY DEF TypeInv
<1>4. /\ snapshot'[b] = snap
      /\ \A c \in Builders \ {b} : snapshot'[c] = snapshot[c]
      /\ DOMAIN snapshot' = Builders
      /\ snapshot' = [c \in Builders |-> snapshot'[c]]
  BY DEF TypeInv
<1>5. /\ built'[b] = made
      /\ \A c \in Builders \ {b} : built'[c] = built[c]
      /\ DOMAIN built' = Builders /\ built' = [c \in Builders |-> built'[c]]
  BY DEF TypeInv
<1>6. \A c \in Builders : pc'[c] \in BuildSteps
  BY <1>1 DEF TypeInv
<1>7. pc'[Rebuild] \in RebuildSteps /\ clean' \subseteq Tools
  BY <1>0, <1>1 DEF TypeInv, Disturbs
<1>8. TypeInv'
  BY <1>1, <1>2, <1>3, <1>4, <1>5, <1>6, <1>7 DEF TypeInv
<1>9. \A c \in Builders \ {b} : SameTool(c)
  BY <1>1, <1>2, <1>3, <1>4, <1>5 DEF SameTool
<1> QED
  BY <1>1, <1>2, <1>3, <1>4, <1>5, <1>8, <1>9 DEF Frame, Disturbs

\* What does not change is what it was.
LEMMA SameValues ==
    ASSUME TypeInv, NEW b \in Builders
    PROVE  /\ pc = [pc EXCEPT ![b] = pc[b]]
           /\ todo = [todo EXCEPT ![b] = todo[b]]
           /\ argument = [argument EXCEPT ![b] = argument[b]]
           /\ snapshot = [snapshot EXCEPT ![b] = snapshot[b]]
           /\ built = [built EXCEPT ![b] = built[b]]
           /\ pc[b] \in BuildSteps /\ argument[b] \in Options
  BY DEF TypeInv

-----------------------------------------------------------------------------
(* The steps of a builder.                                                 *)

\* The files that builder b alone writes, or promotes.
Touched(b) ==
    Range(Promotions) \cup {PartialOf(path, b) : path \in Range(Promotions)}

\* What every step of builder b is shown to establish.
Good(b) ==
    /\ Frame(b) /\ TreeInv' /\ ReadInv(b)' /\ WorkInv(b)'
    /\ b \in clean' => CleanBuild(b)'
    /\ \A path \in DOMAIN files \ Touched(b) : Has(files', path, files[path])

\* A step that ends the builder and leaves the tree alone.
LEMMA EndGood ==
    ASSUME IInv, NEW b \in Builders, NEW how \in Ended \ {"done"},
           End(b, how), UNCHANGED <<files, clean>>
    PROVE  Good(b)
<1>1. Frame(b)
  BY EndMoves DEF IInv, Disturbs
<1>2. ReadInv(b)' /\ WorkInv(b)' /\ CleanBuild(b)'
  BY EndInv DEF IInv
<1>3. TreeInv'
  BY DEF IInv, TreeInv
<1> QED
  BY <1>1, <1>2, <1>3 DEF Good, Has, Exists

\* The builder starts.
LEMMA StartBuildGood ==
    ASSUME IInv, NEW b \in Builders, NEW options \in Arguments,
           StartBuild(b, options)
    PROVE  Good(b)
<1>1. /\ Frame(b) /\ pc'[b] = "snapshot" /\ snapshot'[b] = snapshot[b]
      /\ todo'[b] = NORMATIVE \o <<Definition>>
  <2>1. "snapshot" \in BuildSteps /\ TypeInv /\ options \in Options
    BY ArgumentsAssumption DEF BuildSteps, IInv
  <2>2. /\ pc' = [pc EXCEPT ![b] = "snapshot"]
        /\ argument' = [argument EXCEPT ![b] = options]
        /\ snapshot' = [snapshot EXCEPT ![b] = snapshot[b]]
        /\ built' = [built EXCEPT ![b] = built[b]]
        /\ todo' = [todo EXCEPT ![b] = NORMATIVE \o <<Definition>>]
        /\ Disturbs(b)
    BY <2>1, SameValues DEF Disturbs, StartBuild, Goto
  <2> QED
    BY <2>1, <2>2, StepMoves
<1>2. DOMAIN snapshot'[b] = {}
  BY <1>1 DEF IInv, ReadInv, StartBuild
<1>3. todo'[b] = <<Main, Figure, Definition>>
  BY <1>1, ThreeParts DEF NORMATIVE
<1>4. ReadInv(b)' /\ WorkInv(b)' /\ CleanBuild(b)'
  BY <1>1, <1>2, <1>3 DEF ReadInv, WorkInv, CleanBuild, Ended, Working
<1>5. TreeInv' /\ files' = files
  BY DEF IInv, TreeInv, StartBuild
<1> QED
  BY <1>1, <1>4, <1>5 DEF Good, Has, Exists

\* A source is read: what was read before stays as it was.
LEMMA ReadSourceGood ==
    ASSUME IInv, NEW b \in Builders, ReadSource(b)
    PROVE  Good(b)
<1> DEFINE path == Head(todo[b])
           snap == Put(snapshot[b], path, files[path])
<1>1. CASE End(b, "raised")
  BY <1>1, EndGood DEF ReadSource, Ended
<1>2. CASE ~End(b, "raised")
  <2>1. /\ pc[b] = "snapshot" /\ todo[b] # <<>> /\ Exists(files, path)
        /\ DOMAIN snap = Range(NORMATIVE) =>
              PhaseAgrees(snap[Main], argument[b].phase,
                          argument[b].expected_article_doi)
        /\ snapshot' = [snapshot EXCEPT ![b] = snap]
        /\ todo' = [todo EXCEPT ![b] = Tail(@)]
        /\ UNCHANGED <<pc, argument, built, files, starts, clean>>
    BY <1>2 DEF ReadSource
  <2>2. /\ Frame(b) /\ pc'[b] = "snapshot" /\ argument'[b] = argument[b]
        /\ snapshot'[b] = snap /\ todo'[b] = Tail(todo[b])
    <3> DEFINE left == Tail(todo[b])
    <3>1. /\ TypeInv /\ "snapshot" \in BuildSteps
          /\ argument[b] \in Options
          /\ pc' = [pc EXCEPT ![b] = "snapshot"]
          /\ argument' = [argument EXCEPT ![b] = argument[b]]
          /\ snapshot' = [snapshot EXCEPT ![b] = snap]
          /\ built' = [built EXCEPT ![b] = built[b]]
          /\ todo' = [todo EXCEPT ![b] = left]
          /\ Disturbs(b)
      BY <2>1, SameValues DEF Disturbs, IInv
    <3> HIDE DEF snap, left
    <3>2. /\ Frame(b) /\ pc'[b] = "snapshot" /\ argument'[b] = argument[b]
          /\ snapshot'[b] = snap /\ todo'[b] = left
      BY <3>1, StepMoves
    <3> QED
      BY <3>2 DEF left
  <2>3. /\ DOMAIN snap = DOMAIN snapshot[b] \cup {path}
        /\ snap[path] = files[path]
        /\ \A p \in DOMAIN snapshot[b] \ {path} : snap[p] = snapshot[b][p]
    BY DEF Put
  <2> HIDE DEF snap
  <2>4. ReadInv(b) /\ Main # Figure /\ Definition \notin {Main, Figure}
        /\ Range(NORMATIVE) = {Main, Figure}
    BY DistinctPaths DEF IInv
  <2>5. ReadInv(b)'
    <3>1. CASE todo[b] = <<Main, Figure, Definition>>
               /\ DOMAIN snapshot[b] = {}
      <4>1. path = Main /\ Tail(todo[b]) = <<Figure, Definition>>
        BY <3>1
      <4> QED
        BY <2>2, <2>3, <2>4, <3>1, <4>1 DEF ReadInv, Ended, Working
    <3>2. CASE todo[b] = <<Figure, Definition>> /\ DOMAIN snapshot[b] = {Main}
      <4>1. path = Figure /\ Tail(todo[b]) = <<Definition>>
        BY <3>2
      <4>2. PhaseAgrees(snap[Main], argument[b].phase,
                        argument[b].expected_article_doi)
        BY <2>1, <2>3, <2>4, <3>2, <4>1
      <4> QED
        BY <2>2, <2>3, <2>4, <3>2, <4>1, <4>2 DEF ReadInv, Ended, Working
    <3>3. CASE todo[b] = <<Definition>> /\ DOMAIN snapshot[b] = {Main, Figure}
      <4>1. path = Definition /\ Tail(todo[b]) = <<>>
        BY <3>3
      <4>2. PhaseAgrees(snap[Main], argument[b].phase,
                        argument[b].expected_article_doi)
        BY <2>3, <2>4, <3>3, <4>1 DEF ReadInv
      <4> QED
        BY <2>2, <2>3, <2>4, <3>3, <4>1, <4>2
        DEF ReadInv, Ended, Working, Originals
    <3> QED
      BY <2>1, <2>4, <3>1, <3>2, <3>3 DEF ReadInv
  <2>6. WorkInv(b)'
    BY <2>2 DEF WorkInv, Working
  <2>7. ASSUME b \in clean'
        PROVE  CleanBuild(b)'
    <3>1. CleanBuild(b) /\ files' = files
      BY <2>1, <2>7 DEF IInv
    <3>2. \A p \in DOMAIN snap : Has(files, p, snap[p])
      BY <2>1, <2>3, <3>1 DEF CleanBuild, Has, Exists
    <3> QED
      BY <2>2, <3>1, <3>2 DEF CleanBuild
  <2>8. TreeInv'
    BY <2>1 DEF IInv, TreeInv
  <2> QED
    BY <2>1, <2>2, <2>5, <2>6, <2>7, <2>8 DEF Good, Has, Exists
<1> QED
  BY <1>1, <1>2

\* Both builds are made of the snapshot, and pass the checks.
LEMMA BuildGood ==
    ASSUME IInv, NEW b \in Builders, Build(b)
    PROVE  Good(b)
<1>1. CASE End(b, "raised")
  BY <1>1, EndGood DEF Build, Ended
<1>2. CASE ~End(b, "raised")
  <2> DEFINE pages == argument[b].expected_pages
  <2>1. PICK toolchain \in Toolchains, va \in Variants, vb \in Variants,
             log_a \in Logs, log_b \in Logs :
           LET A == build_once(snapshot[b], pages, va, log_a)
               B == build_once(snapshot[b], pages, vb, log_b)
           IN  built' = [built EXCEPT ![b] =
                            [outputs |-> A.outputs, toolchain |-> toolchain,
                             A |-> A.validation, B |-> B.validation]]
    BY <1>2 DEF Build
  <2> DEFINE A == build_once(snapshot[b], pages, va, log_a)
             B == build_once(snapshot[b], pages, vb, log_b)
             made == [outputs |-> A.outputs, toolchain |-> toolchain,
                      A |-> A.validation, B |-> B.validation]
  <2>2. /\ made.outputs = Made(snapshot[b], va)
        /\ made.A.svg = <<snapshot[b][Figure], va>>
    BY DEF build_once, Made
  <2> HIDE DEF made
  <2>3. /\ pc[b] = "snapshot" /\ todo[b] = <<>> /\ validate(snapshot[b])
        /\ pc' = [pc EXCEPT ![b] = "unchanged"]
        /\ UNCHANGED <<argument, snapshot, todo, files, starts, clean>>
    BY <1>2 DEF Build, Goto
  <2>4. /\ Frame(b) /\ pc'[b] = "unchanged" /\ built'[b] = made
        /\ argument'[b] = argument[b] /\ snapshot'[b] = snapshot[b]
    <3>1. /\ TypeInv /\ "unchanged" \in BuildSteps
          /\ argument[b] \in Options
          /\ pc' = [pc EXCEPT ![b] = "unchanged"]
          /\ argument' = [argument EXCEPT ![b] = argument[b]]
          /\ snapshot' = [snapshot EXCEPT ![b] = snapshot[b]]
          /\ built' = [built EXCEPT ![b] = made]
          /\ todo' = [todo EXCEPT ![b] = todo[b]]
          /\ Disturbs(b)
      BY <2>1, <2>3, SameValues DEF Disturbs, IInv, BuildSteps, Working, made
    <3> QED
      BY <3>1, StepMoves
  <2>5. DOMAIN snapshot[b] = Originals
    <3>1. Definition \in DOMAIN snapshot[b] \/ todo[b] # <<>>
      BY <2>3 DEF IInv, ReadInv, Originals
    <3> QED
      BY <2>3, <3>1, DistinctPaths DEF IInv, ReadInv
  <2>6. ReadInv(b)'
    <3>1. Figure \in DOMAIN snapshot[b] =>
             PhaseAgrees(snapshot[b][Main], argument[b].phase,
                         argument[b].expected_article_doi)
      BY DEF IInv, ReadInv
    <3> QED
      BY <2>4, <2>5, <3>1 DEF ReadInv, Ended, Working
  <2>7. WorkInv(b)'
    BY <2>2, <2>3, <2>4 DEF WorkInv
  <2>8. b \in clean' => CleanBuild(b)'
    <3>1. b \in clean => CleanBuild(b)
      BY DEF IInv
    <3> QED
      BY <2>3, <2>4, <3>1 DEF CleanBuild
  <2>9. TreeInv'
    BY <2>3 DEF IInv, TreeInv
  <2> QED
    BY <2>3, <2>4, <2>6, <2>7, <2>8, <2>9 DEF Good, Has, Exists
<1> QED
  BY <1>1, <1>2

\* The sources are compared with the tree before anything is promoted.
LEMMA AssertUnchangedGood ==
    ASSUME IInv, NEW b \in Builders, AssertUnchanged(b)
    PROVE  Good(b)
<1>1. CASE End(b, "raised")
  BY <1>1, EndGood DEF AssertUnchanged, Ended
<1>2. CASE ~End(b, "raised")
  <2>1. /\ pc[b] = "unchanged" /\ pc' = [pc EXCEPT ![b] = "promote"]
        /\ todo' = [todo EXCEPT ![b] = Promotions]
        /\ UNCHANGED <<argument, snapshot, built, files, starts, clean>>
    BY <1>2 DEF AssertUnchanged, Goto, builderLocals
  <2>2. /\ Frame(b) /\ pc'[b] = "promote" /\ built'[b] = built[b]
        /\ argument'[b] = argument[b] /\ snapshot'[b] = snapshot[b]
        /\ todo'[b] = Promotions
    <3>1. /\ TypeInv /\ "promote" \in BuildSteps
          /\ argument[b] \in Options
          /\ pc' = [pc EXCEPT ![b] = "promote"]
          /\ argument' = [argument EXCEPT ![b] = argument[b]]
          /\ snapshot' = [snapshot EXCEPT ![b] = snapshot[b]]
          /\ built' = [built EXCEPT ![b] = built[b]]
          /\ todo' = [todo EXCEPT ![b] = Promotions]
          /\ Disturbs(b)
      BY <2>1, SameValues DEF Disturbs, IInv, BuildSteps, Working
    <3> QED
      BY <3>1, StepMoves
  <2>3. ReadInv(b) /\ WorkInv(b) /\ (b \in clean => CleanBuild(b))
    BY DEF IInv
  <2>4. ReadInv(b)'
    BY <2>1, <2>2, <2>3 DEF ReadInv, Ended, Working
  <2>5. WorkInv(b)'
    BY <2>1, <2>2, <2>3 DEF WorkInv, Working, Promotions, ToPromote
  <2>6. b \in clean' => CleanBuild(b)'
    BY <2>1, <2>2, <2>3 DEF CleanBuild
  <2>7. TreeInv'
    BY <2>1 DEF IInv, TreeInv
  <2> QED
    BY <2>1, <2>2, <2>4, <2>5, <2>6, <2>7 DEF Good, Has, Exists
<1> QED
  BY <1>1, <1>2

\* The receipt of a build describes that build.
LEMMA ReceiptGenuine ==
    ASSUME NEW b \in Builders, ReadInv(b), WorkInv(b), pc[b] \in Working
    PROVE  Genuine(build_receipt(b))
<1> DEFINE sources == manifest_bytes(snapshot[b])
<1>1. DOMAIN snapshot[b] = Originals /\ validate(snapshot[b])
  BY DEF ReadInv, WorkInv
<1>2. sources[Main] = snapshot[b][Main] /\ sources[Figure] = snapshot[b][Figure]
  BY <1>1, DistinctPaths DEF manifest_bytes, Originals, Digests, Restrict
<1> HIDE DEF sources
<1>3. /\ build_receipt(b).source_manifest = sources
      /\ build_receipt(b).promoted_outputs = built[b].outputs
  BY DEF build_receipt, sources
<1>4. PICK v \in Variants : built[b].outputs = Made(snapshot[b], v)
  BY DEF WorkInv
<1>5. Made(sources, v) = Made(snapshot[b], v)
  BY <1>2 DEF Made
<1>6. validate(sources)
  BY <1>1, <1>2 DEF validate
<1> QED
  BY <1>3, <1>4, <1>5, <1>6 DEF Genuine

\* Where a builder's temporary file is.
LEMMA PartialPlace ==
    ASSUME NEW b \in Builders, NEW path \in Range(Promotions)
    PROVE  /\ PartialOf(path, b) \notin Plain /\ PartialOf(path, b) # path
           /\ PartialOf(path, b) \in Touched(b) /\ path \in Touched(b)
           /\ path \in Plain /\ Receipt \in Plain
           /\ Originals \subseteq Plain
<1>1. path \in Plain
  BY DistinctPaths
<1>2. PartialOf(path, b) \notin Plain
  BY <1>1, TemporaryPaths
<1>3. PartialOf(path, b) \in Touched(b) /\ path \in Touched(b)
  BY DEF Touched
<1>4. Receipt \in Plain /\ Originals \subseteq Plain
  BY DEF Plain, REQUIRED, Originals
<1> QED
  BY <1>1, <1>2, <1>3, <1>4

\* The partial file is new, so nothing in the tree is lost.
LEMMA WritePartialGood ==
    ASSUME IInv, NEW b \in Builders, WritePartial(b)
    PROVE  Good(b)
<1> DEFINE path == Head(todo[b])
           partial == PartialOf(path, b)
           content == Promoted(b, path)
           fs == Put(files, partial, content)
<1>1. CASE Exists(files, partial)
  <2>1. End(b, "raised") /\ UNCHANGED <<files, clean>>
    BY <1>1 DEF WritePartial, Writes
  <2> QED
    BY <2>1, EndGood DEF Ended
<1>2. CASE ~Exists(files, partial)
  <2>1. /\ pc[b] = "promote" /\ pc' = [pc EXCEPT ![b] = "replace"]
        /\ files' = fs /\ clean' = IF fs = files THEN clean ELSE clean \cap {b}
        /\ UNCHANGED <<argument, snapshot, built, todo>>
    BY <1>2 DEF WritePartial, Writes, Goto, builderLocals
  <2>2. ReadInv(b) /\ WorkInv(b) /\ (b \in clean => CleanBuild(b)) /\ TreeInv
    BY DEF IInv
  <2>3. todo[b] \in ToPromote /\ path \in Range(Promotions)
    BY <2>1, <2>2, PromoteOne DEF WorkInv
  <2>4. partial \notin Plain
    BY <2>3, PartialPlace
  <2>5. /\ DOMAIN fs = DOMAIN files \cup {partial} /\ fs[partial] = content
        /\ \A p \in DOMAIN files : Has(fs, p, files[p])
    <3> HIDE DEF content, partial
    <3> QED
      BY <1>2 DEF Put, Has, Exists
  <2> HIDE DEF fs
  <2>6. /\ Frame(b) /\ pc'[b] = "replace" /\ built'[b] = built[b]
        /\ argument'[b] = argument[b] /\ snapshot'[b] = snapshot[b]
        /\ todo'[b] = todo[b]
    <3> DEFINE arg == argument[b]
               snap == snapshot[b]
               made == built[b]
               left == todo[b]
    <3>1. /\ TypeInv /\ "replace" \in BuildSteps /\ arg \in Options
          /\ pc' = [pc EXCEPT ![b] = "replace"]
          /\ argument' = [argument EXCEPT ![b] = arg]
          /\ snapshot' = [snapshot EXCEPT ![b] = snap]
          /\ built' = [built EXCEPT ![b] = made]
          /\ todo' = [todo EXCEPT ![b] = left]
          /\ Disturbs(b)
      BY <2>1, SameValues DEF Disturbs, IInv, BuildSteps, Working
    <3> HIDE DEF arg, snap, made, left
    <3>2. /\ Frame(b) /\ pc'[b] = "replace" /\ argument'[b] = arg
          /\ snapshot'[b] = snap /\ built'[b] = made /\ todo'[b] = left
      BY <3>1, StepMoves
    <3> QED
      BY <3>2 DEF arg, snap, made, left
  <2>7. \A p : Promoted(b, p)' = Promoted(b, p)
    BY <2>6, SamePromoted
  <2>8. ReadInv(b)'
    BY <2>1, <2>2, <2>6 DEF ReadInv, Ended, Working
  <2>9. WorkInv(b)'
    <3>1. Has(files', partial, content)
      BY <2>1, <2>5 DEF Has, Exists
    <3> QED
      BY <2>1, <2>2, <2>3, <2>6, <2>7, <3>1 DEF WorkInv, Working
  <2>10. b \in clean' => CleanBuild(b)'
    <3> SUFFICES ASSUME b \in clean'
                 PROVE  CleanBuild(b)'
      OBVIOUS
    <3>1. CleanBuild(b)
      BY <2>1, <2>2
    <3>2. \A p, c : Has(files, p, c) => Has(files', p, c)
      BY <2>1, <2>5 DEF Has, Exists
    <3> QED
      BY <2>1, <2>6, <2>7, <3>1, <3>2 DEF CleanBuild
  <2>11. TreeInv'
    <3>1. Receipt # partial
      BY <2>3, <2>4, PartialPlace
    <3> QED
      BY <2>1, <2>2, <2>5, <3>1 DEF TreeInv, Has, Exists
  <2> QED
    BY <2>1, <2>5, <2>6, <2>8, <2>9, <2>10, <2>11 DEF Good
<1> QED
  BY <1>1, <1>2

\* The partial file, which is the builder's own, replaces what it is for.
LEMMA ReplaceOutputGood ==
    ASSUME IInv, NEW b \in Builders, ReplaceOutput(b)
    PROVE  Good(b)
<1> DEFINE path == Head(todo[b])
           partial == PartialOf(path, b)
           left == Tail(todo[b])
           step == IF left = <<>> THEN "check" ELSE "promote"
           fs == Replace(files, partial, path)
<1>1. /\ pc[b] = "replace" /\ pc' = [pc EXCEPT ![b] = step]
      /\ todo' = [todo EXCEPT ![b] = left]
      /\ files' = fs /\ clean' = IF fs = files THEN clean ELSE clean \cap {b}
      /\ UNCHANGED <<argument, snapshot, built>>
  BY DEF ReplaceOutput, Writes, Goto, builderLocals
<1>2. ReadInv(b) /\ WorkInv(b) /\ (b \in clean => CleanBuild(b)) /\ TreeInv
  BY DEF IInv
<1>3. /\ todo[b] \in ToPromote /\ path \in Range(Promotions)
      /\ Range(todo[b]) = {path} \cup Range(left)
      /\ left \in ToPromote \cup {<<>>}
  BY <1>1, <1>2, PromoteOne DEF WorkInv
<1>4. Has(files, partial, Promoted(b, path))
  BY <1>1, <1>2 DEF WorkInv
<1>5. partial \notin Plain /\ path \in Plain /\ partial # path
  BY <1>3, PartialPlace
<1>6. /\ DOMAIN fs = (DOMAIN files \ {partial}) \cup {path}
      /\ fs[path] = Promoted(b, path)
      /\ \A p \in DOMAIN files \ {partial, path} : fs[p] = files[p]
  <2> HIDE DEF partial, path
  <2> QED
    BY <1>4, <1>5 DEF Has, Exists, Replace, Put, Without, Restrict
<1> HIDE DEF fs
<1>7. /\ Frame(b) /\ pc'[b] = step /\ built'[b] = built[b]
      /\ argument'[b] = argument[b] /\ snapshot'[b] = snapshot[b]
      /\ todo'[b] = left
  <2> DEFINE arg == argument[b]
             snap == snapshot[b]
             made == built[b]
  <2>1. /\ TypeInv /\ step \in BuildSteps /\ arg \in Options
        /\ pc' = [pc EXCEPT ![b] = step]
        /\ argument' = [argument EXCEPT ![b] = arg]
        /\ snapshot' = [snapshot EXCEPT ![b] = snap]
        /\ built' = [built EXCEPT ![b] = made]
        /\ todo' = [todo EXCEPT ![b] = left]
        /\ Disturbs(b)
    BY <1>1, SameValues DEF Disturbs, IInv, BuildSteps, Working
  <2> HIDE DEF arg, snap, made, left, step
  <2>2. /\ Frame(b) /\ pc'[b] = step /\ argument'[b] = arg
        /\ snapshot'[b] = snap /\ built'[b] = made /\ todo'[b] = left
    BY <2>1, StepMoves
  <2> QED
    BY <2>2 DEF arg, snap, made
<1>8. \A p : Promoted(b, p)' = Promoted(b, p)
  BY <1>7, SamePromoted
<1>9. ReadInv(b)'
  BY <1>1, <1>2, <1>7 DEF ReadInv, Ended, Working
<1>10. WorkInv(b)'
  <2>1. /\ validate(snapshot[b])
        /\ \E v \in Variants :
              /\ built[b].outputs = Made(snapshot[b], v)
              /\ built[b].A.svg = <<snapshot[b][Figure], v>>
    BY <1>1, <1>2 DEF WorkInv, Working
  <2>2. left = <<>> \/ left \in ToPromote
    BY <1>3
  <2> HIDE DEF left
  <2> QED
    BY <1>7, <2>1, <2>2 DEF WorkInv
<1>11. b \in clean' => CleanBuild(b)'
  <2> SUFFICES ASSUME b \in clean'
               PROVE  CleanBuild(b)'
    OBVIOUS
  <2>1. CleanBuild(b)
    BY <1>1, <1>2
  <2>2. \A p \in DOMAIN snapshot[b] : Has(files', p, snapshot[b][p])
    <3>1. DOMAIN snapshot[b] = Originals
      BY <1>1, <1>2 DEF ReadInv, Working
    <3>2. \A p \in Originals : p # path /\ p # partial
      BY <1>3, <1>5, DistinctPaths, PartialPlace DEF Outputs
    <3> QED
      BY <1>1, <1>6, <2>1, <3>1, <3>2 DEF CleanBuild, Has, Exists
  <2>3. \A p \in Range(Promotions) \ Range(left) :
           Has(files', p, Promoted(b, p))
    <3>1. Has(files', path, Promoted(b, path))
      BY <1>1, <1>6 DEF Has, Exists
    <3>2. \A p \in Range(Promotions) \ Range(todo[b]) :
             p \notin {path, partial} /\ Has(files, p, Promoted(b, p))
      BY <1>1, <1>3, <1>5, <2>1, DistinctPaths DEF CleanBuild
    <3> QED
      BY <1>1, <1>3, <1>6, <3>1, <3>2 DEF Has, Exists
  <2> QED
    BY <1>7, <1>8, <2>2, <2>3 DEF CleanBuild
<1>12. TreeInv'
  <2>1. Receipt # partial
    BY <1>3, <1>5, PartialPlace
  <2>3. CASE path = Receipt
    <3>1. Promoted(b, Receipt) = build_receipt(b)
      BY DistinctPaths DEF Promoted, Outputs
    <3>2. Genuine(build_receipt(b))
      BY <1>1, <1>2, ReceiptGenuine DEF Working
    <3> QED
      BY <1>1, <1>6, <2>3, <3>1, <3>2 DEF TreeInv
  <2>4. CASE path # Receipt
    BY <1>1, <1>2, <1>6, <2>1, <2>4 DEF TreeInv, Exists
  <2> QED
    BY <2>3, <2>4
<1>13. \A p \in DOMAIN files \ Touched(b) : Has(files', p, files[p])
  BY <1>1, <1>3, <1>6, PartialPlace DEF Has, Exists
<1> QED
  BY <1>7, <1>9, <1>10, <1>11, <1>12, <1>13 DEF Good

\* A build that fails while it promotes removes its own partial file.
LEMMA FailWriteGood ==
    ASSUME IInv, NEW b \in Builders, FailWrite(b)
    PROVE  Good(b)
<1> DEFINE path == Head(todo[b])
           partial == PartialOf(path, b)
           fs == Without(files, {partial})
<1>1. /\ pc[b] = "replace" /\ End(b, "raised") /\ files' = fs
      /\ clean' = IF fs = files THEN clean ELSE clean \cap {b}
  BY DEF FailWrite, Writes
<1>2. path \in Range(Promotions)
  BY <1>1, PromoteOne DEF IInv, WorkInv
<1>3. partial \notin Plain /\ partial \in Touched(b)
  BY <1>2, PartialPlace
<1>4. \A p \in DOMAIN files \ {partial} : Has(fs, p, files[p])
  BY DEF Without, Restrict, Has, Exists
<1>5. DOMAIN fs \subseteq DOMAIN files
  BY DEF Without, Restrict
<1> HIDE DEF fs
<1>6. Frame(b)
  BY <1>1, EndMoves DEF IInv, Disturbs, Ended
<1>7. ReadInv(b)' /\ WorkInv(b)' /\ CleanBuild(b)'
  BY <1>1, EndInv DEF IInv, Ended
<1>8. TreeInv'
  BY <1>1, <1>2, <1>3, <1>4, <1>5, PartialPlace DEF IInv, TreeInv, Has, Exists
<1> QED
  BY <1>1, <1>3, <1>4, <1>6, <1>7, <1>8 DEF Good

\* An accepted receipt meets what the verifier demands besides.
LEMMA AcceptedDemands ==
    ASSUME NEW doi, verify_article(files, doi)
    PROVE  DemandedBesides(files[Receipt])
  BY DEF verify_article, verify_receipt, verify_validations, DemandedBesides

\* If b made what is in the tree, the verifier demands nothing else.
LEMMA PromotedVerifies ==
    ASSUME IInv, NEW b \in Builders \cap clean, pc[b] = "check",
           \A path \in Range(Promotions) :
              Exists(files, path) /\ files[path] = Promoted(b, path),
           DemandedBesides(files[Receipt])
    PROVE  \E doi \in {"none", "doi"} : verify_article(files, doi)
<1> DEFINE phase == argument[b].phase
           doi == argument[b].expected_article_doi
           snap == snapshot[b]
           receipt == files[Receipt]
<1>1. /\ ReadInv(b) /\ WorkInv(b) /\ CleanBuild(b)
      /\ doi \in {"none", "doi"}
  BY DEF IInv, TypeInv, Options
<1>2. /\ DOMAIN snap = Originals /\ PhaseAgrees(snap[Main], phase, doi)
      /\ \A p \in Originals : p \in DOMAIN files /\ files[p] = snap[p]
  BY <1>1 DEF ReadInv, CleanBuild, Working, Originals, Has, Exists
<1>3. /\ {Main, Figure} \subseteq Originals /\ {Definition} \subseteq Originals
      /\ Range(NORMATIVE) = {Main, Figure}
  BY DistinctPaths DEF Originals
<1>4. /\ manifest_bytes(snap) = Digests(files, Range(NORMATIVE))
      /\ Digests(snap, {Definition}) = Digests(files, {Definition})
  BY <1>2, <1>3 DEF manifest_bytes, Digests, Restrict
<1>5. /\ Exists(files, SourceManifest) /\ Exists(files, Receipt)
      /\ files[SourceManifest] = manifest_bytes(snap)
      /\ receipt = build_receipt(b)
      /\ \A p \in Outputs : Exists(files, p) /\ files[p] = built[b].outputs[p]
  BY DistinctPaths DEF Promoted, Outputs
<1>6. PICK v \in Variants : /\ built[b].outputs = Made(snap, v)
                            /\ built[b].A.svg = <<snap[Figure], v>>
  BY <1>1 DEF WorkInv, Working
<1>7. Digests(files, Outputs) = built[b].outputs
  <2>1. built[b].outputs = [p \in Outputs |-> built[b].outputs[p]]
    BY <1>6 DEF Made
  <2>2. Outputs \cap DOMAIN files = Outputs
    BY <1>5 DEF Exists
  <2> QED
    BY <1>5, <2>1, <2>2 DEF Digests, Restrict
<1>8. /\ receipt.phase = phase /\ receipt.expected_article_doi = doi
      /\ receipt.source_manifest = manifest_bytes(snap)
      /\ receipt.build_definitions = Digests(snap, {Definition})
      /\ receipt.promoted_outputs = built[b].outputs
      /\ receipt.builds.A = built[b].A /\ receipt.builds.B = built[b].B
  BY <1>5 DEF build_receipt
<1> HIDE DEF receipt
<1>9. /\ phase = PhaseOf(doi) /\ receipt.toolchain = EXPECTED_ARTICLE_TOOLCHAIN
      /\ receipt.builds.A = receipt.builds.B
      /\ receipt.builds.A.pages = 13
      /\ receipt.builds.A.latex_log \in PinnedLogs
  BY <1>8 DEF DemandedBesides, receipt
<1>10. verify_sources(files)
  BY <1>2, <1>3, <1>4, <1>5 DEF verify_sources, Has
<1>11. verify_receipt(files, doi)
  BY <1>4, <1>5, <1>7, <1>8, <1>9 DEF verify_receipt, Has, receipt
<1>12. verify_validations(files)
  <2>1. Has(files, FigurePdf, receipt.builds.A.svg)
    BY <1>5, <1>6, <1>8, DistinctPaths DEF Has, Made, Outputs
  <2> QED
    BY <1>5, <1>9, <2>1 DEF verify_validations, receipt
<1>13. verify_main(files, doi)
  BY <1>2, <1>3, <1>9 DEF verify_main, Exists
<1>14. verify_article(files, doi)
  BY <1>10, <1>11, <1>12, <1>13 DEF verify_article
<1> QED
  BY <1>1, <1>14

\* The promoted files are read back, and the build ends well or not.
LEMMA CheckPromotedGood ==
    ASSUME IInv, NEW b \in Builders, CheckPromoted(b)
    PROVE  Good(b)
<1> DEFINE same == \A path \in Range(Promotions) :
                      Exists(files, path) /\ files[path] = Promoted(b, path)
<1>1. CASE ~same
  BY <1>1, EndGood DEF CheckPromoted, Ended
<1>2. CASE same
  <2>1. pc[b] = "check" /\ End(b, "done") /\ UNCHANGED <<files, clean>>
    BY <1>2 DEF CheckPromoted
  <2>2. Frame(b) /\ TypeInv
    BY <2>1, EndMoves DEF IInv, Disturbs, Ended
  <2>3. /\ pc'[b] = "done" /\ snapshot'[b] = NoFiles
        /\ DOMAIN snapshot'[b] = {}
    BY <2>1, <2>2, EndFrame DEF Ended, NoFiles
  <2>4. ReadInv(b)' /\ WorkInv(b)'
    BY <2>3 DEF ReadInv, WorkInv, Ended, Working
  <2>5. b \in clean' => CleanBuild(b)'
    <3> SUFFICES ASSUME b \in clean
                 PROVE  (\E doi \in {"none", "doi"} :
                            verify_article(files, doi))
                        <=> DemandedBesides(files[Receipt])
      BY <2>1, <2>3 DEF CleanBuild
    <3> QED
      BY <1>2, <2>1, AcceptedDemands, PromotedVerifies
  <2>6. TreeInv'
    BY <2>1 DEF IInv, TreeInv
  <2> QED
    BY <2>1, <2>2, <2>4, <2>5, <2>6 DEF Good, Has, Exists
<1> QED
  BY <1>1, <1>2

\* Every step of a builder.
LEMMA BuilderGood ==
    ASSUME IInv, NEW b \in Builders, BuilderStep(b)
    PROVE  Good(b)
<1>1. CASE KillBuild(b)
  BY <1>1, EndGood DEF KillBuild, Ended
<1> QED
  BY <1>1, StartBuildGood, ReadSourceGood, BuildGood, AssertUnchangedGood,
     WritePartialGood, ReplaceOutputGood, FailWriteGood, CheckPromotedGood
  DEF BuilderStep

\* A step of a builder preserves the invariant.
LEMMA BuilderNext ==
    ASSUME IInv, NEW b \in Builders, BuilderStep(b),
           UNCHANGED <<rebuildLocals, edits>>
    PROVE  IInv'
<1>1. Good(b)
  BY BuilderGood
<1>2. /\ Frame(b) /\ TypeInv' /\ TreeInv'
      /\ \A path \in DOMAIN files \ Touched(b) : Has(files', path, files[path])
  BY <1>1 DEF Good, Frame
<1>3. ASSUME NEW c \in Builders
      PROVE  /\ ReadInv(c)' /\ WorkInv(c)'
             /\ c \in clean' => CleanBuild(c)'
  <2>1. CASE c = b
    BY <1>1, <2>1 DEF Good
  <2>2. CASE c # b
    <3>1. SameTool(c) /\ (c \in clean' => c \in clean /\ files' = files)
      BY <1>2, <2>2 DEF Frame, Tools
    <3>2. ASSUME pc[c] = "replace"
          PROVE  LET partial == PartialOf(Head(todo[c]), c)
                 IN  Has(files', partial, files[partial])
      <4> DEFINE path == Head(todo[c])
                 partial == PartialOf(path, c)
      <4>1. path \in Range(Promotions) /\ partial \in DOMAIN files
        BY <3>2, PromoteOne DEF IInv, WorkInv, Has, Exists
      <4>2. path \in Plain /\ Range(Promotions) \subseteq Plain
        BY <4>1, DistinctPaths
      <4>3. partial \notin Touched(b)
        <5> HIDE DEF path
        <5>1. partial \notin Plain
          BY <4>2, TemporaryPaths
        <5>2. \A q \in Range(Promotions) : partial # PartialOf(q, b)
          BY <2>2, <4>2, TemporaryPaths
        <5> QED
          BY <4>2, <5>1, <5>2 DEF Touched
      <4> QED
        BY <1>2, <4>1, <4>3
    <3> QED
      BY <3>1, <3>2, SameBuilder
  <2> QED
    BY <2>1, <2>2
<1>4. RebuildInv' /\ (Rebuild \in clean' => CleanRebuild')
  <2>1. /\ pc'[Rebuild] = pc[Rebuild] /\ todo'[Rebuild] = todo[Rebuild]
        /\ Rebuild \in clean' => Rebuild \in clean /\ files' = files
    BY <1>2, RebuildAssumption DEF Frame, Tools
  <2> QED
    BY <2>1, SameRebuild
<1> QED
  BY <1>2, <1>3, <1>4 DEF IInv

-----------------------------------------------------------------------------
(* What the rebuild derives.                                               *)

\* The files whose digests a derived file holds.
Listed(listing, path) ==
    CASE path = ExperimentManifest -> {p \in listing : InExperiments(p)}
      [] path = Claims -> Evidence
      [] path = Sbom -> Public(listing) \ {Sbom, Inventory}
      [] path = Inventory -> Public(listing) \ {Inventory}
      [] path = Allowlist -> {}
      [] path = Manifest -> listing

\* A derived file is as fresh as the files it lists.
LEMMA FreshSame ==
    ASSUME NEW fs, NEW gs, NEW listing, NEW path \in DerivedPaths,
           \A p \in Listed(listing, path) :
              /\ p \in DOMAIN fs <=> p \in DOMAIN gs
              /\ p \in DOMAIN fs => fs[p] = gs[p]
    PROVE  Fresh(fs, listing, path) = Fresh(gs, listing, path)
<1>1. ASSUME NEW S, \A p \in S : /\ p \in DOMAIN fs <=> p \in DOMAIN gs
                                 /\ p \in DOMAIN fs => fs[p] = gs[p]
      PROVE  Digests(fs, S) = Digests(gs, S)
  <2>1. S \cap DOMAIN fs = S \cap DOMAIN gs
    BY <1>1
  <2> QED
    BY <1>1, <2>1 DEF Digests, Restrict
<1>2. CASE path = Allowlist
  BY <1>2, DerivedDistinct DEF Fresh
<1>3. CASE path # Allowlist
  <2>1. /\ Fresh(fs, listing, path) = Digests(fs, Listed(listing, path))
        /\ Fresh(gs, listing, path) = Digests(gs, Listed(listing, path))
    BY <1>3, DerivedDistinct DEF Fresh, Listed
  <2> QED
    BY <1>1, <2>1
<1> QED
  BY <1>2, <1>3

\* What the rebuild puts under a path is what has to be there, if all that
\* this path lists among the derived files has been written.
LEMMA DerivedFresh ==
    ASSUME NEW left \in ToRebuild,
           all_files(files) = names \cup (Range(REBUILD) \ Range(left)),
           NEW p \in DerivedPaths, p \in Range(left) => p = Head(left)
    PROVE  Derived(p) = Fresh(files, names, p)
<1>1. experiment_files(files) = {q \in names : InExperiments(q)}
  BY DerivedDistinct DEF experiment_files
<1>2. p = Sbom => {ExperimentManifest, Claims} \cap Range(left) = {}
  BY RebuildOne, DerivedDistinct
<1>3. p = Inventory =>
         {ExperimentManifest, Claims, Sbom} \cap Range(left) = {}
  BY RebuildOne, DerivedDistinct
<1>4. p = Sbom => all_files(files) \ {Sbom, Inventory}
                     = Public(names) \ {Sbom, Inventory}
  BY <1>2, DerivedDistinct DEF Public
<1>5. p = Inventory =>
         all_files(files) \ {Inventory} = Public(names) \ {Inventory}
  BY <1>3, DerivedDistinct DEF Public
<1> QED
  BY <1>1, <1>4, <1>5, DerivedDistinct DEF Derived, Fresh

\* The files that have been written are as a rebuild that fails leaves them.
LEMMA WrittenCurrent ==
    ASSUME NEW left \in ToRebuild,
           all_files(files) = names \cup (Range(REBUILD) \ Range(left)),
           changed \subseteq DerivedPaths \ Range(left),
           \A p \in DerivedPaths \ Range(left) :
              Has(files, p, Fresh(files, names, p))
    PROVE  Current
<1>1. Manifest \notin changed
  BY RebuildOne
<1>2. ASSUME NEW p \in DerivedPaths \ Range(left)
      PROVE  Has(files, p, Derived(p))
  BY <1>2, DerivedFresh
<1>3. /\ DOMAIN REBUILD = 1..4
      /\ REBUILD[1] = ExperimentManifest /\ REBUILD[2] = Claims
      /\ REBUILD[3] = Sbom /\ REBUILD[4] = Inventory
  BY DEF REBUILD
<1>4. ASSUME NEW i \in 1..4, REBUILD[i] \in changed, NEW j \in 1..i
      PROVE  REBUILD[j] \in DerivedPaths \ Range(left)
  <2>1. REBUILD[i] \notin Range(left)
    BY <1>4
  <2>2. /\ Inventory \notin Range(left) => Sbom \notin Range(left)
        /\ Sbom \notin Range(left) => Claims \notin Range(left)
        /\ Claims \notin Range(left) => ExperimentManifest \notin Range(left)
    BY RebuildOne
  <2>3. REBUILD[j] \notin Range(left)
    <3>1. i \in {1, 2, 3, 4} /\ j \in {1, 2, 3, 4} /\ j <= i
      BY <1>4
    <3>2. CASE i = 1
      BY <1>3, <2>1, <3>1, <3>2
    <3>3. CASE i = 2
      BY <1>3, <2>1, <2>2, <3>1, <3>3
    <3>4. CASE i = 3
      BY <1>3, <2>1, <2>2, <3>1, <3>4
    <3>5. CASE i = 4
      BY <1>3, <2>1, <2>2, <3>1, <3>5
    <3> QED
      BY <3>1, <3>2, <3>3, <3>4, <3>5
  <2>4. j \in 1..4
    BY <1>4
  <2> QED
    BY <1>3, <2>3, <2>4, DerivedDistinct
<1> QED
  BY <1>1, <1>2, <1>3, <1>4 DEF Current

\* If every derived file is fresh, the verifier has nothing to object to,
\* unless the list left out what a release consists of.
LEMMA FreshVerifies ==
    ASSUME NEW fs, NEW listing, all_files(fs) = Public(listing),
           \A p \in DerivedPaths : Has(fs, p, Fresh(fs, listing, p))
    PROVE  /\ verify_claims(fs) /\ verify_inventory(fs) /\ verify_sbom(fs)
           /\ Has(fs, ExperimentManifest, Digests(fs, experiment_files(fs)))
           /\ verify_indexes(fs) <=> REQUIRED \subseteq fs[Allowlist]
<1>1. /\ Has(fs, ExperimentManifest,
             Digests(fs, {p \in listing : InExperiments(p)}))
      /\ Has(fs, Claims, Digests(fs, Evidence))
      /\ Has(fs, Sbom, Digests(fs, Public(listing) \ {Sbom, Inventory}))
      /\ Has(fs, Inventory, Digests(fs, Public(listing) \ {Inventory}))
      /\ Has(fs, Allowlist, listing) /\ Has(fs, Manifest, Digests(fs, listing))
  BY DerivedDistinct DEF Fresh
<1>2. experiment_files(fs) = {p \in listing : InExperiments(p)}
  BY DerivedDistinct DEF experiment_files, Public
<1>3. verify_claims(fs)
  <2>1. /\ DOMAIN Digests(fs, Evidence) = Evidence \cap DOMAIN fs
        /\ \A p \in Evidence \cap DOMAIN fs : Digests(fs, Evidence)[p] = fs[p]
    BY DigestsFacts
  <2> QED
    BY <1>1, <2>1 DEF verify_claims, Has, Exists
<1>4. verify_indexes(fs) => REQUIRED \subseteq fs[Allowlist]
  BY DEF verify_indexes, Has
<1>5. ASSUME REQUIRED \subseteq fs[Allowlist]
      PROVE  verify_indexes(fs)
  <2>1. REQUIRED \subseteq listing /\ fs[Allowlist] = listing
    BY <1>1, <1>5 DEF Has
  <2>2. all_files(fs) = listing
    BY <2>1, DerivedDistinct DEF Public
  <2> QED
    BY <1>1, <2>1, <2>2 DEF verify_indexes
<1> QED
  BY <1>1, <1>2, <1>3, <1>4, <1>5 DEF verify_inventory, verify_sbom

-----------------------------------------------------------------------------
(* The steps of the rebuild.                                               *)

\* A sequence grows by one at its end.
LEMMA AddLast ==
    ASSUME NEW S, NEW s \in Seq(S), NEW e \in S
    PROVE  /\ s \o <<e>> \in Seq(S) /\ Len(s \o <<e>>) = Len(s) + 1
           /\ \A i \in 1..Len(s) : (s \o <<e>>)[i] = s[i]
           /\ (s \o <<e>>)[Len(s) + 1] = e
<1>1. <<e>> \in Seq(S) /\ Len(<<e>>) = 1 /\ <<e>>[1] = e
  OBVIOUS
<1> QED
  BY <1>1, ConcatProperties

\* The list of what to derive, with or without an allowlist.
LEMMA Worklist ==
    /\ REBUILD \o <<>> \o <<Manifest>> =
          <<ExperimentManifest, Claims, Sbom, Inventory, Manifest>>
    /\ REBUILD \o <<Allowlist>> \o <<Manifest>> =
          <<ExperimentManifest, Claims, Sbom, Inventory, Allowlist, Manifest>>
<1> DEFINE S == DerivedPaths
           u == REBUILD \o <<>> \o <<Manifest>>
           v == <<ExperimentManifest, Claims, Sbom, Inventory, Manifest>>
           x == REBUILD \o <<Allowlist>> \o <<Manifest>>
           y == <<ExperimentManifest, Claims, Sbom, Inventory, Allowlist,
                  Manifest>>
<1>1. /\ REBUILD \in Seq(S) /\ Len(REBUILD) = 4
      /\ REBUILD[1] = ExperimentManifest /\ REBUILD[2] = Claims
      /\ REBUILD[3] = Sbom /\ REBUILD[4] = Inventory
      /\ <<Manifest>> \in Seq(S) /\ <<Allowlist>> \in Seq(S)
  <2>1. {ExperimentManifest, Claims, Sbom, Inventory, Allowlist, Manifest} = S
    BY DerivedDistinct
  <2> HIDE DEF S
  <2> QED
    BY <2>1 DEF REBUILD
<1>2. v \in Seq(S) /\ y \in Seq(S)
  <2>1. {ExperimentManifest, Claims, Sbom, Inventory, Allowlist, Manifest} = S
    BY DerivedDistinct
  <2> HIDE DEF S
  <2> QED
    BY <2>1
<1> HIDE DEF S
<1> DEFINE w == REBUILD \o <<Allowlist>>
<1>a. REBUILD \o <<>> = REBUILD
  BY <1>1, ConcatEmptySeq
<1>b. u = REBUILD \o <<Manifest>> /\ x = w \o <<Manifest>>
  BY <1>a
<1>c. Manifest \in S /\ Allowlist \in S
  BY DerivedDistinct DEF S
<1> HIDE DEF REBUILD
<1>d. w \in Seq(S) /\ Len(w) = 5 /\ w[5] = Allowlist
      /\ w[1] = ExperimentManifest /\ w[2] = Claims /\ w[3] = Sbom
      /\ w[4] = Inventory
  <2>1. /\ w \in Seq(S) /\ Len(w) = Len(REBUILD) + 1
        /\ \A i \in 1..Len(REBUILD) : w[i] = REBUILD[i]
        /\ w[Len(REBUILD) + 1] = Allowlist
    BY <1>1, <1>c, AddLast, Zenon
  <2> HIDE DEF w
  <2> QED
    BY <1>1, <2>1
<1> HIDE DEF w, u, x
<1>3. /\ u \in Seq(S) /\ Len(u) = 5 /\ Len(v) = 5
      /\ u[1] = v[1] /\ u[2] = v[2] /\ u[3] = v[3] /\ u[4] = v[4]
      /\ u[5] = v[5]
  <2>1. u \in Seq(S) /\ Len(u) = 5 /\ u[5] = Manifest
        /\ u[1] = ExperimentManifest /\ u[2] = Claims /\ u[3] = Sbom
        /\ u[4] = Inventory
    <3> DEFINE z == REBUILD \o <<Manifest>>
    <3>1. /\ z \in Seq(S) /\ Len(z) = Len(REBUILD) + 1
          /\ \A i \in 1..Len(REBUILD) : z[i] = REBUILD[i]
          /\ z[Len(REBUILD) + 1] = Manifest
      BY <1>1, <1>c, AddLast, Zenon
    <3>2. u = z
      BY <1>b
    <3> HIDE DEF z
    <3> QED
      BY <1>1, <3>1, <3>2
  <2> QED
    BY <2>1
<1>4. /\ x \in Seq(S) /\ Len(x) = 6 /\ Len(y) = 6
      /\ x[1] = y[1] /\ x[2] = y[2] /\ x[3] = y[3] /\ x[4] = y[4]
      /\ x[5] = y[5] /\ x[6] = y[6]
  <2>1. x \in Seq(S) /\ Len(x) = 6 /\ x[6] = Manifest
        /\ x[1] = w[1] /\ x[2] = w[2] /\ x[3] = w[3]
        /\ x[4] = w[4] /\ x[5] = w[5]
    <3> DEFINE z == w \o <<Manifest>>
    <3>1. /\ z \in Seq(S) /\ Len(z) = Len(w) + 1
          /\ \A i \in 1..Len(w) : z[i] = w[i]
          /\ z[Len(w) + 1] = Manifest
      BY <1>d, <1>c, AddLast, Zenon
    <3>2. x = z
      BY <1>b
    <3> HIDE DEF z
    <3> QED
      BY <1>d, <3>1, <3>2
  <2> QED
    BY <2>1, <1>d
<1> HIDE DEF v, y
<1>5. u = v
  BY <1>2, <1>3, SeqEqual
<1>6. x = y
  BY <1>2, <1>4, SeqEqual
<1> QED
  BY <1>5, <1>6 DEF u, v, x, y

\* The rebuild stands at a step, with these paths left.
RebuildAt(step, left) ==
    /\ pc' = [pc EXCEPT ![Rebuild] = step]
    /\ todo' = [todo EXCEPT ![Rebuild] = left]
    /\ UNCHANGED builderLocals

\* The builders stand still, and are disturbed if the tree changes.
BuildersStill ==
    \A b \in Builders :
        SameTool(b) /\ (b \in clean' => b \in clean /\ files' = files)

\* What a step of the rebuild does to the others.
LEMMA RebuildMoves ==
    ASSUME TypeInv, NEW step \in RebuildSteps, NEW left,
           RebuildAt(step, left), Disturbs(Rebuild)
    PROVE  /\ TypeInv' /\ BuildersStill
           /\ pc'[Rebuild] = step /\ todo'[Rebuild] = left
<1>0. Rebuild \in Tools /\ Rebuild \notin Builders /\ Builders \subseteq Tools
  BY RebuildAssumption DEF Tools
<1>1. /\ pc'[Rebuild] = step /\ \A b \in Builders : pc'[b] = pc[b]
      /\ DOMAIN pc' = Tools /\ pc' = [p \in Tools |-> pc'[p]]
  BY <1>0 DEF TypeInv, RebuildAt
<1>2. /\ todo'[Rebuild] = left /\ \A b \in Builders : todo'[b] = todo[b]
      /\ DOMAIN todo' = Tools /\ todo' = [p \in Tools |-> todo'[p]]
  BY <1>0 DEF TypeInv, RebuildAt
<1>3. UNCHANGED <<argument, snapshot, built>>
  BY DEF RebuildAt, builderLocals
<1>4. TypeInv'
  BY <1>0, <1>1, <1>2, <1>3 DEF TypeInv, Disturbs
<1>5. \A b \in Builders : SameTool(b)
  BY <1>1, <1>2, <1>3 DEF SameTool
<1> QED
  BY <1>0, <1>1, <1>2, <1>4, <1>5 DEF BuildersStill, Disturbs

\* What a list that is not assigned to was, it is.
LEMMA SameList ==
    ASSUME TypeInv
    PROVE  todo = [todo EXCEPT ![Rebuild] = todo[Rebuild]]
  BY DEF TypeInv

\* The files that the rebuild writes.
Rewritten == DerivedPaths \cup {TmpOf(path) : path \in DerivedPaths}

\* What every step of the rebuild is shown to establish.
GoodRebuild ==
    /\ TypeInv' /\ TreeInv' /\ RebuildInv' /\ BuildersStill
    /\ Rebuild \in clean' => CleanRebuild'
    /\ \A path \in DOMAIN files \ Rewritten : Has(files', path, files[path])

\* A step that ends the rebuild, not well, and leaves the tree alone.
LEMMA EndRebuildGood ==
    ASSUME IInv, NEW how \in {"raised", "killed"}, EndRebuild(how),
           UNCHANGED <<files, clean, changed, builderLocals>>,
           how = "raised" /\ Rebuild \in clean => Current
    PROVE  GoodRebuild
<1>1. TypeInv' /\ BuildersStill /\ pc'[Rebuild] = how
  <2>1. how \in RebuildSteps /\ TypeInv /\ RebuildAt(how, <<>>)
        /\ Disturbs(Rebuild)
    BY DEF RebuildSteps, Ended, IInv, EndRebuild, Goto, RebuildAt, Disturbs
  <2> QED
    BY <2>1, RebuildMoves
<1>2. RebuildInv'
  BY <1>1 DEF RebuildInv, Rebuilding, EndRebuild
<1>3. Rebuild \in clean' => CleanRebuild'
  <2>1. how = "raised" /\ Rebuild \in clean => Current'
    BY SameCurrent
  <2>2. Rebuild \in clean' => FailedRebuildIsCurrent'
    BY <1>1, <2>1 DEF FailedRebuildIsCurrent, Current
  <2> QED
    BY <1>1, <2>2 DEF CleanRebuild, Rebuilding, RebuildSatisfiesVerifier
<1>4. TreeInv'
  BY DEF IInv, TreeInv
<1> QED
  BY <1>1, <1>2, <1>3, <1>4 DEF GoodRebuild, Has, Exists

\* The rebuild starts.
LEMMA StartRebuildGood ==
    ASSUME IInv, NEW reviewed \in Reviewed \cup {{}}, StartRebuild(reviewed)
    PROVE  GoodRebuild
<1>1. TypeInv' /\ BuildersStill /\ pc'[Rebuild] = "precheck"
  <2> DEFINE left == todo[Rebuild]
  <2>1. /\ "precheck" \in RebuildSteps /\ TypeInv
        /\ todo = [todo EXCEPT ![Rebuild] = left]
    BY SameList DEF RebuildSteps, IInv
  <2> HIDE DEF left
  <2>2. RebuildAt("precheck", left) /\ Disturbs(Rebuild)
    BY <2>1 DEF StartRebuild, Goto, RebuildAt, Disturbs
  <2> QED
    BY <2>1, <2>2, RebuildMoves
<1>2. RebuildInv'
  BY <1>1 DEF RebuildInv, Rebuilding, StartRebuild
<1>3. CleanRebuild'
  BY <1>1 DEF CleanRebuild, Rebuilding, RebuildSatisfiesVerifier,
              FailedRebuildIsCurrent, StartRebuild
<1>4. TreeInv' /\ files' = files
  BY DEF IInv, TreeInv, StartRebuild
<1> QED
  BY <1>1, <1>2, <1>3, <1>4 DEF GoodRebuild, Has, Exists

\* The public files are compared with the reviewed list.
LEMMA PrecheckGood ==
    ASSUME IInv, Precheck
    PROVE  GoodRebuild
<1> DEFINE listing == all_files(files)
           reviewed == IF adopted # {} THEN adopted ELSE files[Allowlist]
           refused == \/ adopted = {} /\ ~Exists(files, Allowlist)
                      \/ reviewed # listing
           list == IF adopted # {} THEN <<Allowlist>> ELSE <<>>
           left == REBUILD \o list \o <<Manifest>>
<1>0. /\ TypeInv /\ TreeInv /\ RebuildInv /\ pc[Rebuild] = "precheck"
      /\ Rebuild \in clean => CleanRebuild
      /\ UNCHANGED <<files, builderLocals, clean, changed>>
  BY DEF IInv, Precheck
<1>1. Rebuild \in clean => changed = {}
  BY <1>0 DEF CleanRebuild
<1>2. CASE refused
  <2>1. EndRebuild("raised")
    BY <1>2 DEF Precheck
  <2>2. changed = {} => Current
    BY DEF Current
  <2> QED
    BY <1>0, <1>1, <2>1, <2>2, EndRebuildGood
<1>3. CASE ~refused
  <2>1. /\ names' = listing /\ adopted' = adopted
        /\ todo' = [todo EXCEPT ![Rebuild] = left]
        /\ pc' = [pc EXCEPT ![Rebuild] = "write"]
    BY <1>3 DEF Precheck, Goto
  <2>2. /\ listing = reviewed /\ listing \cap INDEXES = {}
        /\ adopted = {} => Has(files, Allowlist, listing)
    BY <1>3 DEF all_files, Has, Exists
  <2>3. left \in ToRebuild /\ Head(left) = ExperimentManifest
        /\ Range(left) = IF adopted # {} THEN DerivedPaths
                         ELSE DerivedPaths \ {Allowlist}
    <3>1. CASE adopted # {}
      <4>1. left = <<ExperimentManifest, Claims, Sbom, Inventory, Allowlist,
                     Manifest>>
        BY <3>1, Worklist
      <4> HIDE DEF left
      <4> QED
        BY <3>1, <4>1, DerivedDistinct DEF ToRebuild, Range
    <3>2. CASE adopted = {}
      <4>1. left = <<ExperimentManifest, Claims, Sbom, Inventory, Manifest>>
        BY <3>2, Worklist
      <4> HIDE DEF left
      <4> QED
        BY <3>2, <4>1, DerivedDistinct DEF ToRebuild, Range
    <3> QED
      BY <3>1, <3>2
  <2> HIDE DEF left, listing, reviewed, refused
  <2>4. /\ TypeInv' /\ BuildersStill /\ pc'[Rebuild] = "write"
        /\ todo'[Rebuild] = left
    <3>1. "write" \in RebuildSteps /\ RebuildAt("write", left)
          /\ Disturbs(Rebuild)
      BY <1>0, <2>1 DEF RebuildSteps, RebuildAt, Disturbs
    <3> QED
      BY <1>0, <3>1, RebuildMoves
  <2>5. RebuildInv'
    BY <1>0, <2>1, <2>2, <2>3, <2>4 DEF RebuildInv, Rebuilding
  <2>6. TmpNow' = {}
    BY <2>4 DEF TmpNow
  <2>7. Rebuild \in clean' => CleanRebuild'
    <3>1. all_files(files)' = names' \cup (Range(REBUILD) \ Range(left))
                                \cup TmpNow'
      BY <1>0, <2>1, <2>3, <2>6, DerivedDistinct DEF listing
    <3>2. \A p \in DerivedPaths \ Range(left) :
             Has(files', p, Fresh(files', names', p))
      <4>1. adopted = {} => Fresh(files, listing, Allowlist) = listing
        BY DerivedDistinct DEF Fresh
      <4> QED
        BY <1>0, <2>1, <2>2, <2>3, <4>1
    <3> QED
      BY <1>0, <1>1, <2>1, <2>4, <3>1, <3>2
      DEF CleanRebuild, Rebuilding, RebuildSatisfiesVerifier,
          FailedRebuildIsCurrent
  <2>8. TreeInv'
    BY <1>0 DEF TreeInv
  <2> QED
    BY <1>0, <2>4, <2>5, <2>7, <2>8 DEF GoodRebuild, Has, Exists
<1> QED
  BY <1>2, <1>3

\* What a derived file lists was found at first or is a plain file, and it
\* lists neither itself nor what is derived after it.
LEMMA ListedFacts ==
    ASSUME NEW listing, listing \cap INDEXES = {}, NEW path \in DerivedPaths
    PROVE  /\ Listed(listing, path) \subseteq listing \cup Plain
           /\ path \notin Listed(listing, path)
           /\ path \in {ExperimentManifest, Claims, Allowlist} =>
                 Listed(listing, path) \cap DerivedPaths = {}
           /\ {Sbom, Inventory, Allowlist, Manifest} \cap Listed(listing, Sbom)
                 = {}
           /\ {Inventory, Allowlist, Manifest} \cap Listed(listing, Inventory)
                 = {}
<1>1. Evidence \subseteq Plain /\ Public(listing) \subseteq listing \cup Plain
  BY DerivedDistinct DEF Evidence, Plain, REQUIRED, Public
<1>2. /\ Listed(listing, ExperimentManifest)
             = {p \in listing : InExperiments(p)}
      /\ Listed(listing, Claims) = Evidence
      /\ Listed(listing, Sbom) = Public(listing) \ {Sbom, Inventory}
      /\ Listed(listing, Inventory) = Public(listing) \ {Inventory}
      /\ Listed(listing, Allowlist) = {}
      /\ Listed(listing, Manifest) = listing
  BY DerivedDistinct DEF Listed
<1>3. Allowlist \notin Public(listing) /\ Manifest \notin Public(listing)
  BY DerivedDistinct DEF INDEXES, Public
<1>4. {p \in listing : InExperiments(p)} \cap DerivedPaths = {}
  BY DerivedDistinct DEF DerivedPaths
<1>5. Manifest \notin listing
  BY DEF INDEXES
<1> QED
  BY <1>1, <1>2, <1>3, <1>4, <1>5, DerivedDistinct

\* The rebuild's temporary file of a path, and no other file, is new.
LEMMA TmpPlace ==
    ASSUME NEW path \in DerivedPaths
    PROVE  /\ TmpOf(path) \notin Plain /\ TmpOf(path) \in Rewritten
           /\ ~IsDirectory(TmpOf(path)) /\ ~IsDirectory(path)
<1>1. path \in Plain
  BY DerivedDistinct
<1>2. TmpOf(path) = <<path[1], "tmp">> /\ \A q \in Plain : Len(q) = 1
  BY <1>1, PlainParts, TwoParts DEF TmpOf
<1>3. TmpOf(path) \notin Plain /\ Len(TmpOf(path)) = 2
  BY <1>2
<1> QED
  BY <1>1, <1>2, <1>3 DEF Rewritten, IsDirectory

\* What an undisturbed rebuild that still has to write something knows.
LEMMA Progress ==
    ASSUME IInv, Rebuilding, Rebuild \in clean
    PROVE  LET left == todo[Rebuild]
               tmp == TmpOf(Head(left))
           IN  /\ left \in ToRebuild /\ names \cap INDEXES = {}
               /\ all_files(files) =
                     names \cup (Range(REBUILD) \ Range(left)) \cup TmpNow
               /\ changed \subseteq DerivedPaths \ Range(left)
               /\ \A p \in DerivedPaths \ Range(left) :
                     Has(files, p, Fresh(files, names, p))
               /\ pc[Rebuild] = "replace" =>
                     /\ tmp \notin names
                     /\ files[tmp] = Fresh(files, names, Head(left))
  BY DEF IInv, RebuildInv, CleanRebuild

\* The temporary file is refused, or written.
LEMMA WriteTmpGood ==
    ASSUME IInv, WriteTmp
    PROVE  GoodRebuild
<1> DEFINE left == todo[Rebuild]
           path == Head(left)
           tmp == TmpOf(path)
           fs == Put(files, tmp, Derived(path))
           written == names \cup (Range(REBUILD) \ Range(left))
<1>0. /\ TypeInv /\ TreeInv /\ RebuildInv /\ pc[Rebuild] = "write"
      /\ Rebuilding /\ UNCHANGED builderLocals
  BY DEF IInv, WriteTmp, Rebuilding
<1>1. /\ names \cap INDEXES = {} /\ left \in ToRebuild
      /\ path \in DerivedPaths
  BY <1>0, RebuildOne DEF RebuildInv
<1>2. tmp \notin Plain /\ tmp \in Rewritten /\ ~IsDirectory(tmp)
  BY <1>1, TmpPlace
<1>3. TmpNow = {}
  BY <1>0 DEF TmpNow
<1>4. ASSUME Rebuild \in clean
      PROVE  /\ all_files(files) = written
             /\ changed \subseteq DerivedPaths \ Range(left)
             /\ \A p \in DerivedPaths \ Range(left) :
                   Has(files, p, Fresh(files, names, p))
  BY <1>0, <1>3, <1>4, Progress
<1>5. CASE Fails(path)
  <2>1. EndRebuild("raised") /\ UNCHANGED <<files, clean, changed>>
    BY <1>5 DEF WriteTmp
  <2>2. Rebuild \in clean => Current
    BY <1>1, <1>4, WrittenCurrent
  <2> QED
    BY <1>0, <2>1, <2>2, EndRebuildGood
<1>6. CASE ~Fails(path)
  <2>1. /\ Writes(Rebuild, fs) /\ pc' = [pc EXCEPT ![Rebuild] = "replace"]
        /\ todo' = todo /\ names' = names /\ adopted' = adopted
        /\ changed' = changed /\ files' = fs
    BY <1>6 DEF WriteTmp, Goto, Writes, rebuildLocals
  <2>2. /\ TypeInv' /\ BuildersStill /\ pc'[Rebuild] = "replace"
        /\ todo'[Rebuild] = left
    <3>1. todo = [todo EXCEPT ![Rebuild] = left]
      BY <1>0, SameList
    <3>2. Disturbs(Rebuild)
      BY <2>1 DEF Writes, Disturbs
    <3> HIDE DEF left
    <3>3. "replace" \in RebuildSteps /\ RebuildAt("replace", left)
      BY <1>0, <2>1, <3>1 DEF RebuildSteps, RebuildAt
    <3> QED
      BY <1>0, <3>2, <3>3, RebuildMoves
  <2>3. /\ DOMAIN fs = DOMAIN files \cup {tmp} /\ fs[tmp] = Derived(path)
        /\ \A p \in DOMAIN files \ {tmp} : fs[p] = files[p]
        /\ tmp \notin DOMAIN files
    <3> HIDE DEF tmp
    <3>1. tmp \notin DOMAIN files
      BY <1>6 DEF Fails, Exists, tmp
    <3> QED
      BY <3>1 DEF Put
  <2> HIDE DEF fs
  <2>4. TreeInv'
    <3>1. Receipt \in Plain
      BY DEF Plain, REQUIRED
    <3> QED
      BY <1>0, <1>2, <2>1, <2>3, <3>1 DEF TreeInv, Exists
  <2>5. RebuildInv'
    BY <1>1, <2>1, <2>2 DEF RebuildInv, Rebuilding
  <2>6. Rebuild \in clean' => CleanRebuild'
    <3> SUFFICES ASSUME Rebuild \in clean'
                 PROVE  CleanRebuild'
      OBVIOUS
    <3>1. Rebuild \in clean
      BY <2>1 DEF Writes
    <3>2. TmpNow' = {tmp}
      BY <2>2 DEF TmpNow
    <3>3. all_files(fs) = written \cup {tmp} /\ tmp \notin names
      <4>1. tmp \notin INDEXES
        BY <1>2 DEF Plain
      <4>2. all_files(fs) = all_files(files) \cup {tmp}
        <5> HIDE DEF tmp
        <5> QED
          BY <1>2, <2>3, <4>1 DEF all_files
      <4>3. names \subseteq DOMAIN files
        BY <1>4, <3>1 DEF all_files
      <4> QED
        BY <1>4, <2>3, <3>1, <4>2, <4>3
    <3>4. ASSUME NEW p \in DerivedPaths
          PROVE  Fresh(fs, names, p) = Fresh(files, names, p)
      <4>0. Listed(names, p) \subseteq names \cup Plain
        BY <1>1, ListedFacts, Zenon
      <4>1. tmp \notin Listed(names, p)
        BY <1>2, <3>3, <4>0
      <4>2. \A q \in Listed(names, p) :
               /\ q \in DOMAIN fs <=> q \in DOMAIN files
               /\ q \in DOMAIN fs => fs[q] = files[q]
        BY <2>3, <4>1
      <4> QED
        BY <4>2, FreshSame
    <3>5. fs[tmp] = Fresh(fs, names, path)
      BY <1>1, <1>4, <2>3, <3>1, <3>4, DerivedFresh
    <3>6. \A p \in DerivedPaths \ Range(left) : Has(fs, p, Fresh(fs, names, p))
      <4>1. tmp \notin DerivedPaths
        BY <1>2, DerivedDistinct
      <4> QED
        BY <1>4, <2>3, <3>1, <3>4, <4>1 DEF Has, Exists
    <3> QED
      BY <1>4, <2>1, <2>2, <3>1, <3>2, <3>3, <3>5, <3>6
      DEF CleanRebuild, Rebuilding, RebuildSatisfiesVerifier,
          FailedRebuildIsCurrent
  <2>7. \A p \in DOMAIN files \ Rewritten : Has(files', p, files[p])
    BY <1>2, <2>1, <2>3 DEF Has, Exists
  <2> QED
    BY <2>2, <2>4, <2>5, <2>6, <2>7 DEF GoodRebuild
<1> QED
  BY <1>5, <1>6

\* The temporary file is not taken away unless somebody disturbs the rebuild.
LEMMA FailReplaceGood ==
    ASSUME IInv, FailReplace
    PROVE  GoodRebuild
<1>1. /\ pc[Rebuild] = "replace" /\ Rebuilding
      /\ ~Exists(files, TmpOf(Head(todo[Rebuild])))
      /\ EndRebuild("raised")
      /\ UNCHANGED <<files, builderLocals, clean, changed>>
  BY DEF FailReplace, Rebuilding
<1>2. Rebuild \notin clean
  <2> SUFFICES ASSUME Rebuild \in clean
               PROVE  FALSE
    OBVIOUS
  <2>1. TmpNow \subseteq all_files(files)
    BY <1>1, Progress
  <2>2. TmpOf(Head(todo[Rebuild])) \in TmpNow
    BY <1>1 DEF TmpNow
  <2> QED
    BY <1>1, <2>1, <2>2 DEF all_files, Exists
<1> QED
  BY <1>1, <1>2, EndRebuildGood

\* The file is replaced, and those derived before it stay fresh.
LEMMA ReplaceMetadataGood ==
    ASSUME IInv, ReplaceMetadata
    PROVE  GoodRebuild
<1> DEFINE left == todo[Rebuild]
           path == Head(left)
           rest == Tail(left)
           tmp == TmpOf(path)
           fs == Replace(files, tmp, path)
           step == IF rest = <<>> THEN "done" ELSE "write"
<1>0. /\ TypeInv /\ TreeInv /\ RebuildInv /\ pc[Rebuild] = "replace"
      /\ Rebuilding /\ tmp \in DOMAIN files /\ UNCHANGED builderLocals
  BY DEF IInv, ReplaceMetadata, Rebuilding, Exists
<1>1. names \cap INDEXES = {} /\ left \in ToRebuild
  BY <1>0 DEF RebuildInv
<1>2. /\ path \in DerivedPaths /\ rest \in ToRebuild \cup {<<>>}
      /\ Range(left) = {path} \cup Range(rest) /\ path \notin Range(rest)
      /\ rest = <<>> <=> path = Manifest
  BY <1>1, RebuildOne
<1>3. /\ tmp \notin Plain /\ tmp \in Rewritten /\ path \in Plain
      /\ ~IsDirectory(path)
  BY <1>2, TmpPlace, DerivedDistinct
<1>4. /\ files' = fs /\ Writes(Rebuild, fs)
      /\ changed' \subseteq changed \cup {path}
      /\ todo' = [todo EXCEPT ![Rebuild] = rest]
      /\ pc' = [pc EXCEPT ![Rebuild] = step]
      /\ rest # <<>> => names' = names
  <2>1. Writes(Rebuild, fs) /\ changed' \subseteq changed \cup {path}
    BY DEF ReplaceMetadata
  <2>2. CASE rest = <<>>
    BY <2>1, <2>2 DEF ReplaceMetadata, EndRebuild, Goto, Writes
  <2>3. CASE rest # <<>>
    BY <2>1, <2>3 DEF ReplaceMetadata, Goto, Writes
  <2> QED
    BY <2>2, <2>3
<1>5. /\ TypeInv' /\ BuildersStill /\ pc'[Rebuild] = step
      /\ todo'[Rebuild] = rest
  <2>1. Disturbs(Rebuild)
    BY <1>4 DEF Writes, Disturbs
  <2>2. step \in RebuildSteps /\ RebuildAt(step, rest)
    BY <1>0, <1>4 DEF RebuildSteps, RebuildAt, Ended
  <2> HIDE DEF step, rest
  <2> QED
    BY <1>0, <2>1, <2>2, RebuildMoves
<1>6. /\ DOMAIN fs = (DOMAIN files \ {tmp}) \cup {path}
      /\ fs[path] = files[tmp]
      /\ \A p \in DOMAIN files \ {tmp, path} : fs[p] = files[p]
  <2>1. tmp # path
    BY <1>3
  <2> HIDE DEF tmp, path
  <2> QED
    BY <2>1 DEF Replace, Put, Without, Restrict
<1> HIDE DEF fs
<1>7. TreeInv'
  <2>1. Receipt # path /\ Receipt \in Plain
    BY <1>2, DerivedDistinct DEF Plain, REQUIRED
  <2> QED
    BY <1>0, <1>3, <1>4, <1>6, <2>1 DEF TreeInv, Exists
<1>8. RebuildInv'
  <2>1. CASE rest = <<>>
    BY <1>5, <2>1 DEF RebuildInv, Rebuilding
  <2>2. CASE rest # <<>>
    <3>1. names' \cap INDEXES = {} /\ todo'[Rebuild] \in ToRebuild
      BY <1>1, <1>2, <1>4, <1>5, <2>2
    <3> QED
      BY <3>1 DEF RebuildInv
  <2> QED
    BY <2>1, <2>2
<1>9. Rebuild \in clean' => CleanRebuild'
  <2> SUFFICES ASSUME Rebuild \in clean'
               PROVE  CleanRebuild'
    OBVIOUS
  <2>1. Rebuild \in clean /\ TmpNow = {tmp}
    BY <1>0, <1>4 DEF Writes, TmpNow
  <2>2. /\ all_files(files) =
              names \cup (Range(REBUILD) \ Range(left)) \cup {tmp}
        /\ changed \subseteq DerivedPaths \ Range(left)
        /\ \A p \in DerivedPaths \ Range(left) :
              Has(files, p, Fresh(files, names, p))
        /\ tmp \notin names
        /\ files[tmp] = Fresh(files, names, path)
    BY <1>0, <2>1, Progress
  <2>3. all_files(fs) = names \cup (Range(REBUILD) \ Range(rest))
    <3>1. all_files(fs) = (all_files(files) \ {tmp}) \cup ({path} \ INDEXES)
      <4> HIDE DEF tmp, path
      <4> QED
        BY <1>3, <1>6 DEF all_files
    <3>2. tmp \notin Range(REBUILD) /\ tmp \notin names
      BY <1>3, <2>2, DerivedDistinct
    <3>3. path \in Range(REBUILD) <=> path \notin INDEXES
      BY <1>2, DerivedDistinct DEF DerivedPaths, INDEXES
    <3> HIDE DEF tmp, path, rest, left
    <3>4. all_files(fs) = names \cup (Range(REBUILD) \ Range(left))
                             \cup ({path} \ INDEXES)
      BY <2>2, <3>1, <3>2
    <3> QED
      BY <1>2, <3>3, <3>4
  <2>4. ASSUME NEW p \in DerivedPaths \ Range(rest)
        PROVE  Fresh(fs, names, p) = Fresh(files, names, p)
    <3>0. Listed(names, p) \subseteq names \cup Plain
      BY <1>1, ListedFacts, Zenon
    <3>1. tmp \notin Listed(names, p)
      BY <1>3, <2>2, <3>0
    <3>2. path \notin Listed(names, p)
      <4>1. CASE p = path
        BY <1>1, <4>1, ListedFacts
      <4>2. CASE p # path
        <5>1. p \notin Range(left)
          BY <1>2, <4>2
        <5>2. p # Manifest
          BY <1>1, <5>1, RebuildOne
        <5>3. CASE p \in {ExperimentManifest, Claims, Allowlist}
          BY <1>1, <1>2, <5>3, ListedFacts
        <5>4. CASE p = Sbom
          <6>1. path \notin {ExperimentManifest, Claims}
            BY <1>1, <5>1, <5>4, RebuildOne
          <6>2. path \in {Sbom, Inventory, Allowlist, Manifest}
            BY <1>2, <6>1, DerivedDistinct
          <6> QED
            BY <1>1, <5>4, <6>2, ListedFacts
        <5>5. CASE p = Inventory
          <6>1. path \notin {ExperimentManifest, Claims, Sbom}
            BY <1>1, <5>1, <5>5, RebuildOne
          <6>2. path \in {Inventory, Allowlist, Manifest}
            BY <1>2, <6>1, DerivedDistinct
          <6> QED
            BY <1>1, <5>5, <6>2, ListedFacts
        <5> QED
          BY <5>2, <5>3, <5>4, <5>5, DerivedDistinct
      <4> QED
        BY <4>1, <4>2
    <3>3. \A q \in Listed(names, p) :
             /\ q \in DOMAIN fs <=> q \in DOMAIN files
             /\ q \in DOMAIN fs => fs[q] = files[q]
      BY <1>6, <3>1, <3>2
    <3> QED
      BY <3>3, FreshSame
  <2>5. ASSUME NEW p \in DerivedPaths \ Range(rest)
        PROVE  Has(fs, p, Fresh(fs, names, p))
    <3>1. Fresh(fs, names, p) = Fresh(files, names, p)
      BY <2>4
    <3>2. CASE p = path
      BY <1>6, <2>2, <3>1, <3>2 DEF Has, Exists
    <3>3. CASE p # path
      <4>1. Has(files, p, Fresh(files, names, p)) /\ p # tmp
        BY <1>2, <1>3, <2>2, <2>5, <3>3, DerivedDistinct
      <4> QED
        BY <1>6, <3>1, <3>3, <4>1 DEF Has, Exists
    <3> QED
      BY <3>2, <3>3
  <2>6. CASE rest = <<>>
    <3>1. Range(rest) = {} /\ pc'[Rebuild] = "done"
      BY <1>5, <2>6 DEF Range
    <3>2. all_files(fs) = Public(names)
      BY <2>3, <3>1 DEF Public
    <3>3. \A p \in DerivedPaths : Has(fs, p, Fresh(fs, names, p))
      BY <2>5, <3>1
    <3>4. RebuildSatisfiesVerifier'
      BY <1>4, <3>2, <3>3, FreshVerifies DEF RebuildSatisfiesVerifier
    <3> QED
      BY <3>1, <3>4 DEF CleanRebuild, Rebuilding, FailedRebuildIsCurrent
  <2>7. CASE rest # <<>>
    <3>1. /\ pc'[Rebuild] = "write" /\ names' = names /\ TmpNow' = {}
      BY <1>4, <1>5, <2>7 DEF TmpNow
    <3>2. changed' \subseteq DerivedPaths \ Range(rest)
      <4> HIDE DEF path, rest, left
      <4> QED
        BY <1>2, <1>4, <2>2
    <3>3. all_files(files)' = names' \cup (Range(REBUILD) \ Range(rest))
                                 \cup TmpNow'
      BY <1>4, <2>3, <3>1
    <3> QED
      BY <1>4, <1>5, <2>5, <3>1, <3>2, <3>3
      DEF CleanRebuild, Rebuilding, RebuildSatisfiesVerifier,
          FailedRebuildIsCurrent
  <2> QED
    BY <2>6, <2>7
<1>10. \A p \in DOMAIN files \ Rewritten : Has(files', p, files[p])
  <2>1. path \in Rewritten
    BY <1>2 DEF Rewritten
  <2> QED
    BY <1>3, <1>4, <1>6, <2>1 DEF Has, Exists
<1> QED
  BY <1>5, <1>7, <1>8, <1>9, <1>10 DEF GoodRebuild

\* Every step of the rebuild.
LEMMA RebuildStepGood ==
    ASSUME IInv, RebuildStep
    PROVE  GoodRebuild
<1>1. CASE KillRebuild
  BY <1>1, EndRebuildGood DEF KillRebuild
<1> QED
  BY <1>1, StartRebuildGood, PrecheckGood, WriteTmpGood, ReplaceMetadataGood,
     FailReplaceGood
  DEF RebuildStep

\* A step of the rebuild preserves the invariant.
LEMMA RebuildNext ==
    ASSUME IInv, RebuildStep
    PROVE  IInv'
<1>1. GoodRebuild
  BY RebuildStepGood
<1>2. ASSUME NEW b \in Builders
      PROVE  /\ ReadInv(b)' /\ WorkInv(b)'
             /\ b \in clean' => CleanBuild(b)'
  <2>1. SameTool(b) /\ (b \in clean' => b \in clean /\ files' = files)
    BY <1>1 DEF GoodRebuild, BuildersStill
  <2>2. ASSUME pc[b] = "replace"
        PROVE  LET partial == PartialOf(Head(todo[b]), b)
               IN  Has(files', partial, files[partial])
    <3> DEFINE path == Head(todo[b])
               partial == PartialOf(path, b)
    <3>1. path \in Plain /\ partial \in DOMAIN files
      BY <2>2, PromoteOne, DistinctPaths DEF IInv, WorkInv, Has, Exists
    <3>2. partial \notin Rewritten
      <4> HIDE DEF path
      <4>1. partial \notin Plain
        BY <3>1, TemporaryPaths
      <4>2. \A q \in DerivedPaths : partial # TmpOf(q)
        BY <3>1, DerivedDistinct, TemporaryPaths
      <4> QED
        BY <4>1, <4>2, DerivedDistinct DEF Rewritten
    <3> QED
      BY <1>1, <3>1, <3>2 DEF GoodRebuild
  <2> QED
    BY <2>1, <2>2, SameBuilder
<1> QED
  BY <1>1, <1>2 DEF IInv, GoodRebuild

-----------------------------------------------------------------------------
(* People.                                                                 *)

\* The files to which an edit gives contents: some of them, in the way of
\* the rebuild, are not those of a release.
Obstacles == {TmpOf(Sbom), DirectoryAt(Sbom)}
Editable ==
    {Main, Figure, Definition, Doc, Rows, Citation, FigurePdf, Stray,
     Accented, AccentedRows} \cup Obstacles

\* The files in the rebuild's way are no file of a release, nor a builder's.
LEMMA ObstacleFacts ==
    /\ Obstacles \cap Plain = {}
    /\ \A p \in Plain, b \in Builders : PartialOf(p, b) \notin Obstacles
<1>1. Sbom \in Plain
  BY DEF Plain, REQUIRED
<1>2. TmpOf(Sbom) = <<Sbom[1], "tmp">>
  BY <1>1, PlainParts, TwoParts DEF TmpOf
<1>3. DirectoryAt(Sbom) = <<Sbom[1], "tmp", "/">>
  BY <1>2, ThreeParts DEF DirectoryAt
<1>4. Len(DirectoryAt(Sbom)) = 3
  BY <1>3
<1>5. Len(TmpOf(Sbom)) = 2
  BY <1>2
<1>6. \A p \in Plain : Len(p) = 1
  BY PlainParts
<1>7. ASSUME NEW p \in Plain, NEW b \in Builders
      PROVE  PartialOf(p, b) # TmpOf(Sbom) /\ Len(PartialOf(p, b)) = 2
  BY <1>1, TemporaryPaths
<1> QED
  BY <1>4, <1>5, <1>6, <1>7 DEF Obstacles

\* An edit puts or removes such files, or others of a release.
LEMMA EditedFacts ==
    ASSUME NEW fs \in Edited
    PROVE  /\ \A p \in DOMAIN files \ (Plain \cup Obstacles) :
                 Has(fs, p, files[p])
           /\ \A p \in DOMAIN fs \ Editable : Has(files, p, fs[p])
<1> DEFINE P(gs) == /\ \A p \in DOMAIN files \ (Plain \cup Obstacles) :
                          Has(gs, p, files[p])
                    /\ \A p \in DOMAIN gs \ Editable : Has(files, p, gs[p])
<1>0. Editable \subseteq Plain \cup Obstacles
  BY DEF Editable, Plain, REQUIRED
<1>1. ASSUME NEW q \in Editable, NEW c
      PROVE  P(Put(files, q, c))
  BY <1>0 DEF Put, Has, Exists
<1>2. ASSUME NEW q \in Plain \cup Obstacles
      PROVE  P(Without(files, {q}))
  BY DEF Without, Restrict, Has, Exists
<1>3. P(Without(Put(files, Rows, "rerun"), {Doc}))
  <2> DEFINE gs == Put(files, Rows, "rerun")
  <2>1. P(gs) /\ Doc \in Plain
    BY <1>1 DEF Editable, Plain, REQUIRED
  <2> HIDE DEF gs
  <2>2. /\ DOMAIN Without(gs, {Doc}) = DOMAIN gs \ {Doc}
        /\ \A p \in DOMAIN gs \ {Doc} : Without(gs, {Doc})[p] = gs[p]
    BY DEF Without, Restrict
  <2>3. P(Without(gs, {Doc}))
    BY <2>1, <2>2 DEF Has, Exists
  <2> QED
    BY <2>3 DEF gs
<1>4. Added \subseteq Editable
  BY DEF Added, Editable, Obstacles
<1>5. Removed \subseteq Plain \cup Obstacles
  BY DEF Removed, Added, Obstacles, Plain, REQUIRED, INDEXES
<1>6. \/ \E q \in Editable : \E c : fs = Put(files, q, c)
      \/ \E q \in Plain \cup Obstacles : fs = Without(files, {q})
      \/ fs = Without(Put(files, Rows, "rerun"), {Doc})
  BY <1>4, <1>5 DEF Edited, Editable
<1> HIDE DEF P
<1>7. P(fs)
  BY <1>1, <1>2, <1>3, <1>6
<1> QED
  BY <1>7 DEF P

\* While everyone stands still, the tree may change where nobody works.
LEMMA OthersMove ==
    ASSUME IInv, clean' = {}, TreeInv',
           UNCHANGED <<pc, builderLocals, todo, rebuildLocals>>,
           \A b \in Builders : pc[b] = "replace" =>
              LET partial == PartialOf(Head(todo[b]), b)
              IN  Has(files', partial, files[partial])
    PROVE  IInv'
<1>1. TypeInv' /\ \A b \in Builders : SameTool(b)
  BY DEF IInv, TypeInv, builderLocals, SameTool
<1>2. ASSUME NEW b \in Builders
      PROVE  ReadInv(b)' /\ WorkInv(b)'
  BY <1>1, SameBuilder
<1>3. RebuildInv'
  BY SameRebuild
<1> QED
  BY <1>1, <1>2, <1>3 DEF IInv

\* An edit preserves the invariant: it disturbs everyone.
LEMMA EditNext ==
    ASSUME IInv, Edit
    PROVE  IInv'
<1>1. /\ \A p \in DOMAIN files \ (Plain \cup Obstacles) :
            Has(files', p, files[p])
      /\ \A p \in DOMAIN files' \ Editable : Has(files, p, files'[p])
  <2>1. files' \in Edited
    BY DEF Edit
  <2> QED
    BY <2>1, EditedFacts
<1>2. TreeInv'
  <2>1. Receipt \notin Editable
    <3>1. Receipt \notin Obstacles
      BY ObstacleFacts DEF Plain, REQUIRED
    <3> QED
      BY <3>1 DEF Editable, Main, Figure, Definition, Doc, Rows, Citation,
                  FigurePdf, Stray, Accented, AccentedRows, Receipt
  <2> QED
    BY <1>1, <2>1 DEF IInv, TreeInv, Has, Exists
<1>3. ASSUME NEW b \in Builders, pc[b] = "replace"
      PROVE  LET partial == PartialOf(Head(todo[b]), b)
             IN  Has(files', partial, files[partial])
  <2> DEFINE path == Head(todo[b])
             partial == PartialOf(path, b)
  <2>1. path \in Plain /\ partial \in DOMAIN files
    BY <1>3, PromoteOne, DistinctPaths DEF IInv, WorkInv, Has, Exists
  <2>2. partial \notin Plain \cup Obstacles
    <3> HIDE DEF path
    <3> QED
      BY <2>1, TemporaryPaths, ObstacleFacts
  <2> QED
    BY <1>1, <2>1, <2>2
<1> QED
  BY <1>2, <1>3, OthersMove DEF Edit

\* Removing leftovers preserves the invariant: nobody is using them.
LEMMA CleanUpNext ==
    ASSUME IInv, CleanUp
    PROVE  IInv'
<1> DEFINE left == {path \in DOMAIN files : Len(path) > 1}
<1>1. files' = Without(files, left) /\ \A p \in Tools : pc[p] \in Ended
  BY DEF CleanUp
<1>2. TreeInv'
  <2> HIDE DEF left
  <2>1. \A p \in DOMAIN files' : Has(files, p, files'[p])
    BY <1>1 DEF Without, Restrict, Has, Exists
  <2> QED
    BY <2>1 DEF IInv, TreeInv, Has, Exists
<1>3. \A p \in Tools : pc[p] # "replace"
  BY <1>1 DEF Ended
<1> QED
  BY <1>2, <1>3, OthersMove DEF CleanUp, Tools

-----------------------------------------------------------------------------
(* The first state.                                                        *)

\* The receipt of a release describes the build of its sources.
LEMMA FirstReceipt ==
    ASSUME NEW v \in Variants, NEW log
    PROVE  Genuine(ReceiptOf(Sources, build_once(Sources, 13, v, log)))
<1> DEFINE made == build_once(Sources, 13, v, log)
           sources == manifest_bytes(Sources)
<1>1. Main # Figure /\ Range(NORMATIVE) = {Main, Figure}
  BY DistinctPaths
<1>2. sources[Main] = Sources[Main] /\ sources[Figure] = Sources[Figure]
  <2>1. {Main, Figure} \subseteq DOMAIN Sources
    BY DEF Sources
  <2> HIDE DEF Sources
  <2> QED
    BY <1>1, <2>1 DEF manifest_bytes, Digests, Restrict
<1>3. Sources[Figure] = "v1"
  <2>1. Figure \notin {Main, Definition, Doc, Rows, Citation}
    BY DEF Main, Figure, Definition, Doc, Rows, Citation
  <2> QED
    BY <2>1 DEF Sources
<1>4. validate(sources)
  BY <1>2, <1>3 DEF validate, Defective
<1>5. made.outputs = Made(sources, v)
  <2> HIDE DEF sources
  <2> QED
    BY <1>2 DEF build_once, Made
<1> HIDE DEF made, sources
<1>6. /\ ReceiptOf(Sources, made).source_manifest = sources
      /\ ReceiptOf(Sources, made).promoted_outputs = made.outputs
  BY DEF ReceiptOf, sources
<1>7. Genuine(ReceiptOf(Sources, made))
  BY <1>4, <1>5, <1>6 DEF Genuine
<1> QED
  BY <1>7 DEF made

\* A release has that receipt.
LEMMA FirstTree ==
    Genuine(Released[Receipt])
<1> DEFINE v == CHOOSE v \in Variants : TRUE
           log == CHOOSE l \in PinnedLogs : TRUE
           receipt == ReceiptOf(Sources, build_once(Sources, 13, v, log))
           a == WithArticle(Sources)
           l == WithLedgers(a)
           s == WithSbom(l)
           i == WithInventory(s)
<1>0. v \in Variants
  BY OutcomesAssumption
<1>1. Receipt \in DOMAIN a /\ a[Receipt] = receipt
  <2> HIDE DEF receipt
  <2> QED
    BY DEF WithArticle, Put, receipt
<1> HIDE DEF a
<1>2. Receipt \in DOMAIN l /\ l[Receipt] = a[Receipt]
  BY <1>1, DerivedDistinct DEF WithLedgers, Put
<1> HIDE DEF l
<1>3. Receipt \in DOMAIN s /\ s[Receipt] = l[Receipt]
  BY <1>2, DerivedDistinct DEF WithSbom, Put
<1> HIDE DEF s
<1>4. Receipt \in DOMAIN i /\ i[Receipt] = s[Receipt]
  BY <1>3, DerivedDistinct DEF WithInventory, Put
<1> HIDE DEF i
<1>5. Released = Put(Put(i, Allowlist, DOMAIN i), Manifest, i)
  BY DEF Released, WithIndexes, i, s, l, a
<1>6. Released[Receipt] = i[Receipt]
  BY <1>4, <1>5, DerivedDistinct DEF Put
<1>7. Genuine(receipt)
  BY <1>0, FirstReceipt
<1> HIDE DEF receipt
<1> QED
  BY <1>1, <1>2, <1>3, <1>4, <1>6, <1>7

\* The first state satisfies the invariant.
LEMMA InitInv == Init => IInv
<1> SUFFICES ASSUME Init
             PROVE  IInv
  OBVIOUS
<1>1. TypeInv
  <2>1. Defaults \in Options
    BY DEF Defaults, Options
  <2>2. argument \in [Builders -> Options]
    BY <2>1 DEF Init
  <2> QED
    BY <2>2, RebuildAssumption
    DEF Init, TypeInv, Tools, BuildSteps, RebuildSteps, Ended
<1>2. TreeInv
  BY FirstTree DEF Init, TreeInv
<1>3. \A p \in Tools : pc[p] = "killed"
  BY DEF Init
<1>4. RebuildInv
  BY <1>3 DEF Init, RebuildInv, Rebuilding, Tools
<1>5. \A b \in Builders : ReadInv(b) /\ WorkInv(b)
  BY <1>3 DEF Init, ReadInv, WorkInv, Tools, NoFiles, Ended, Working
<1> QED
  BY <1>1, <1>2, <1>4, <1>5 DEF IInv, Init

-----------------------------------------------------------------------------
(* The theorems.                                                           *)

\* Every step preserves the invariant.
LEMMA NextInv == IInv /\ [Next]_vars => IInv'
<1> SUFFICES ASSUME IInv, [Next]_vars
             PROVE  IInv'
  OBVIOUS
<1>1. CASE UNCHANGED vars
  <2>1. /\ UNCHANGED <<files, pc, builderLocals, todo, clean, rebuildLocals>>
        /\ UNCHANGED <<argument, snapshot, built, names, adopted, changed>>
    BY <1>1 DEF vars, builderLocals, rebuildLocals
  <2>2. TypeInv' /\ TreeInv' /\ \A b \in Builders : SameTool(b)
    BY <2>1 DEF IInv, TypeInv, TreeInv, SameTool
  <2>3. ASSUME NEW b \in Builders
        PROVE  /\ ReadInv(b)' /\ WorkInv(b)'
               /\ b \in clean' => CleanBuild(b)'
    <3>1. pc[b] = "replace" =>
             LET partial == PartialOf(Head(todo[b]), b)
             IN  Has(files', partial, files[partial])
      BY <2>1 DEF IInv, WorkInv, Has, Exists
    <3> QED
      BY <2>1, <2>2, <3>1, SameBuilder
  <2>4. RebuildInv' /\ (Rebuild \in clean' => CleanRebuild')
    BY <2>1, SameRebuild
  <2> QED
    BY <2>2, <2>3, <2>4 DEF IInv
<1>2. CASE Next
  BY <1>1, <1>2, BuilderNext, RebuildNext, EditNext, CleanUpNext DEF Next
<1> QED
  BY <1>1, <1>2

(* The inductive invariant holds in every state that builders, rebuild,    *)
(* people and kills can reach.                                             *)
THEOREM Invariance == Spec => []IInv
<1>1. Init => IInv
  BY InitInv
<1>2. IInv /\ [Next]_vars => IInv'
  BY NextInv
<1> QED
  BY <1>1, <1>2, PTL DEF Spec

\* A genuine receipt that agrees with the tree: the article part.
LEMMA ArticleConsistent ==
    ASSUME IInv, NEW doi \in {"none", "doi"}, verify_article(files, doi)
    PROVE  /\ Range(NORMATIVE) \subseteq DOMAIN files
           /\ \E v \in Variants :
                 /\ files[ArticlePdf] = <<files[Main], files[Figure], v>>
                 /\ files[FigurePdf] = <<files[Figure], v>>
           /\ ~Defective(files[Figure])
<1> DEFINE receipt == files[Receipt]
           sources == receipt.source_manifest
<1>1. verify_sources(files) /\ verify_receipt(files, doi)
  BY DEF verify_article
<1>2. /\ Range(NORMATIVE) \subseteq DOMAIN files
      /\ Has(files, SourceManifest, Digests(files, Range(NORMATIVE)))
      /\ Has(files, SourceManifest, sources) /\ Exists(files, Receipt)
      /\ Digests(files, Outputs) = receipt.promoted_outputs
  BY <1>1 DEF verify_sources, verify_receipt
<1>3. Genuine(receipt)
  BY <1>2 DEF IInv, TreeInv
<1>4. PICK v \in Variants :
         receipt.promoted_outputs = Made(sources, v)
  BY <1>3 DEF Genuine
<1>5. validate(sources)
  BY <1>3 DEF Genuine
<1> HIDE DEF receipt, sources
<1>6. sources[Main] = files[Main] /\ sources[Figure] = files[Figure]
  <2>1. sources = Digests(files, Range(NORMATIVE))
    BY <1>2 DEF Has
  <2> QED
    BY <1>2, <2>1, DistinctPaths DEF Digests, Restrict
<1>7. Digests(files, Outputs) =
         [path \in Outputs |->
            IF path = FigurePdf THEN <<sources[Figure], v>>
            ELSE <<sources[Main], sources[Figure], v>>]
  BY <1>2, <1>4 DEF Made
<1>8. /\ files[ArticlePdf] = <<files[Main], files[Figure], v>>
      /\ files[FigurePdf] = <<files[Figure], v>>
  <2> DEFINE made == Digests(files, Outputs)
  <2>1. /\ DOMAIN made = Outputs \cap DOMAIN files
        /\ \A p \in Outputs \cap DOMAIN files : made[p] = files[p]
    BY DigestsFacts
  <2>2. /\ DOMAIN made = Outputs
        /\ made[ArticlePdf] = <<sources[Main], sources[Figure], v>>
        /\ made[FigurePdf] = <<sources[Figure], v>>
    BY <1>7, DistinctPaths DEF Outputs
  <2> HIDE DEF made
  <2> QED
    BY <1>6, <2>1, <2>2 DEF Outputs
<1>9. ~Defective(files[Figure])
  BY <1>5, <1>6 DEF validate
<1> QED
  BY <1>2, <1>8, <1>9

\* The rest of the verifier: source and citation are in one phase.
LEMMA ReleaseConsistent ==
    ASSUME NEW doi \in {"none", "doi"}, verify_release(files, doi)
    PROVE  Announces(files[Main]) <=> files[Citation] = "no doi"
  BY DEF verify_release, verify_citation, verify_article, verify_main, Has,
         PhaseAgrees, PhaseOf, Announces, Mentions

(* A tree that verify_release accepts is what it says, whatever tools were *)
(* killed or overlapped: its PDF and figure come from one build of the     *)
(* sources beside them, and source and citation are in the same phase.     *)
THEOREM AcceptedTreesAreConsistent == Spec => []AcceptedIsConsistent
<1>1. IInv => AcceptedIsConsistent
  BY ArticleConsistent, ReleaseConsistent DEF AcceptedIsConsistent
<1> QED
  BY <1>1, Invariance, PTL

(* verify_release accepts the article of a build that succeeds undisturbed *)
(* exactly if the receipt meets the demands the builder does not make:     *)
(* phase and DOI that fit, 13 pages, the pinned tools and warnings, equal  *)
(* validation records.  This holds for any options, tools and logs.        *)
THEOREM BuildsVerify == Spec => []BuildSatisfiesVerifier
<1>1. IInv => BuildSatisfiesVerifier
  BY DEF IInv, CleanBuild, BuildSatisfiesVerifier
<1> QED
  BY <1>1, Invariance, PTL

(* A rebuild that succeeds undisturbed leaves every derived file current,  *)
(* although each lists files that the same rebuild rewrites, and indexes   *)
(* that satisfy the verifier exactly if the reviewed list, whatever it is, *)
(* named all that a release consists of.                                   *)
THEOREM RebuildsVerify == Spec => []RebuildSatisfiesVerifier
<1>1. IInv => RebuildSatisfiesVerifier
  BY DEF IInv, CleanRebuild, RebuildSatisfiesVerifier
<1> QED
  BY <1>1, Invariance, PTL

(* A rebuild that its own checks end, undisturbed, has left the manifest   *)
(* alone; what it changed is current, and so is what comes before that.    *)
THEOREM FailedRebuildsAreCurrent == Spec => []FailedRebuildIsCurrent
<1>1. IInv => FailedRebuildIsCurrent
  BY DEF IInv, CleanRebuild, FailedRebuildIsCurrent
<1> QED
  BY <1>1, Invariance, PTL

\* What a builder that still has to replace its receipt does next.
LEMMA ReceiptStep ==
    ASSUME IInv, Next, NEW b \in Builders, pc[b] = "replace",
           pc'[b] \in {"promote", "check"}
    PROVE  ReplaceOutput(b)
<1>1. CASE BuilderStep(b)
  <2>1. \A how \in Ended : End(b, how) => pc'[b] = how
    BY EndFrame DEF IInv
  <2>2. ~FailWrite(b) /\ ~KillBuild(b)
    BY <2>1 DEF FailWrite, KillBuild, Ended
  <2>3. \A options \in Arguments : ~StartBuild(b, options)
    BY DEF StartBuild, Ended
  <2> QED
    BY <1>1, <2>2, <2>3
    DEF BuilderStep, ReadSource, Build, AssertUnchanged, WritePartial,
        CheckPromoted
<1>2. ASSUME NEW c \in Builders \ {b}, BuilderStep(c)
      PROVE  FALSE
  BY <1>2, BuilderGood DEF Good, Frame, SameTool
<1>3. CASE RebuildStep
  BY <1>3, RebuildStepGood DEF GoodRebuild, BuildersStill, SameTool
<1>4. CASE Edit \/ CleanUp \/ UNCHANGED vars
  BY <1>4 DEF Edit, CleanUp, vars
<1> QED
  BY <1>1, <1>2, <1>3, <1>4 DEF Next

\* The receipt that enters the tree attests what is already there.
LEMMA ReceiptAttests ==
    ASSUME IInv, NEW b \in Builders, b \in clean', ReplaceOutput(b),
           Head(todo[b]) = Receipt
    PROVE  /\ Digests(files, Outputs) = files'[Receipt].promoted_outputs
           /\ files[SourceManifest] = files'[Receipt].source_manifest
<1> DEFINE partial == PartialOf(Receipt, b)
<1>1. /\ pc[b] = "replace" /\ b \in clean /\ ReadInv(b) /\ WorkInv(b)
      /\ CleanBuild(b) /\ files' = Replace(files, partial, Receipt)
  BY DEF ReplaceOutput, Writes, IInv
<1>2. Range(todo[b]) = {Receipt}
  BY <1>1, PromoteOne DEF WorkInv
<1>3. \A path \in Outputs \cup {SourceManifest} :
         Has(files, path, Promoted(b, path))
  BY <1>1, <1>2, DistinctPaths DEF CleanBuild, Outputs
<1>4. files[partial] = build_receipt(b)
  BY <1>1, DistinctPaths DEF WorkInv, Has, Promoted
<1>5. files'[Receipt] = build_receipt(b)
  <2> HIDE DEF partial
  <2> QED
    BY <1>1, <1>4 DEF Replace, Put
<1>6. /\ files'[Receipt].promoted_outputs = built[b].outputs
      /\ files'[Receipt].source_manifest = manifest_bytes(snapshot[b])
  BY <1>5 DEF build_receipt
<1>7. Digests(files, Outputs) = built[b].outputs
  <2>1. PICK v \in Variants : built[b].outputs = Made(snapshot[b], v)
    BY <1>1 DEF WorkInv, Working
  <2>2. built[b].outputs = [p \in Outputs |-> built[b].outputs[p]]
    BY <2>1 DEF Made
  <2>3. \A p \in Outputs : p \in DOMAIN files /\ files[p] = built[b].outputs[p]
    BY <1>3, DistinctPaths DEF Promoted, Has, Exists, Outputs
  <2>4. Outputs \cap DOMAIN files = Outputs
    BY <2>3
  <2> QED
    BY <2>2, <2>3, <2>4 DEF Digests, Restrict
<1>8. files[SourceManifest] = manifest_bytes(snapshot[b])
  BY <1>3, DistinctPaths DEF Promoted, Has
<1> QED
  BY <1>6, <1>7, <1>8

(* The receipt of an undisturbed build enters the tree after the files and *)
(* the source manifest it attests: a killed build leaves no receipt.       *)
THEOREM ReceiptComesLast == Spec => ReceiptLast
<1> DEFINE Step ==
        \A b \in clean' \cap Builders :
          (/\ pc[b] = "replace" /\ Head(todo[b]) = Receipt
           /\ pc'[b] \in {"promote", "check"}) =>
              /\ Digests(files, Outputs) = files'[Receipt].promoted_outputs
              /\ files[SourceManifest] = files'[Receipt].source_manifest
<1>1. IInv /\ [Next]_vars => [Step]_vars
  BY ReceiptStep, ReceiptAttests
<1> QED
  BY <1>1, Invariance, PTL DEF Spec, ReceiptLast
=============================================================================
