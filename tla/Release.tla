------------------------------- MODULE Release -------------------------------
(***************************************************************************)
(* rebuild_release_metadata.py, which derives the release's metadata from  *)
(* the tree one file after the other, and verify_release.py, which accepts *)
(* or rejects a tree.  Article builders work on the same tree, people edit *)
(* it, and every tool may be killed at any step.                           *)
(***************************************************************************)
EXTENDS Article

CONSTANTS
    Rebuild,        \* the process that runs rebuild_release_metadata.py
    Reviewed,       \* path lists that people have reviewed
    MaxEdits        \* bound: edits by people

\* A process is not another, and its number not the suffix "tmp".
ASSUME RebuildAssumption == Rebuild \notin Builders /\ "tmp" \notin Builders

VARIABLES
    names,      \* the rebuild's listing of the public files, from its start
    adopted,    \* the reviewed allowlist it was given, or {}
    changed,    \* files to which the rebuild has given another content
    edits       \* edits so far

rebuildLocals == <<names, adopted, changed>>
vars == <<files, pc, builderLocals, todo, starts, clean, rebuildLocals, edits>>

Tools == Builders \cup {Rebuild}

\* A document, an experiment's rows, the citation file; then the metadata.
Doc == <<"README.md">>
Rows == <<"experiments/RAW_RUNS.jsonl">>
Citation == <<"CITATION.cff">>
ExperimentManifest == <<"experiments/MANIFEST.sha256">>
Claims == <<"CLAIMS_EVIDENCE_LEDGER.json">>
Sbom == <<"SBOM.spdx.json">>
Inventory == <<"LICENSE_INVENTORY.json">>
Allowlist == <<"PUBLIC_ALLOWLIST.txt">>
Manifest == <<"PUBLIC_MANIFEST.sha256">>

INDEXES == {Allowlist, Manifest}
Evidence == {Doc, Rows}

\* What else people may add; the last two have a letter outside ASCII.
Stray == <<"notes.txt">>
Accented == <<"ACCENTED.txt">>
AccentedRows == <<"experiments/ACCENTED.jsonl">>
NonAscii == {Accented, AccentedRows}

\* What parse_canonical_allowlist demands of a list, among other things.
ASSUME ReviewedAssumption ==
    \A list \in Reviewed : list # {} /\ list \cap INDEXES = {}

\* Everything a release consists of.
REQUIRED == {Main, Figure, Definition, ArticlePdf, FigurePdf, SourceManifest,
             Receipt, Doc, Rows, Citation, ExperimentManifest, Claims, Sbom,
             Inventory}

\* path.with_name(path.name + ".tmp"), and a directory of that name.
TmpOf(path) == path \o <<"tmp">>
DirectoryAt(path) == TmpOf(path) \o <<"/">>
IsDirectory(path) == Len(path) = 3

\* all_files and public_files: partial files are files too.
all_files(fs) == {path \in DOMAIN fs \ INDEXES : ~IsDirectory(path)}
InExperiments(path) ==
    /\ path # ExperimentManifest
    /\ path[1] \in {Rows[1], ExperimentManifest[1], AccentedRows[1]}
experiment_files(fs) == {path \in all_files(fs) : InExperiments(path)}

-----------------------------------------------------------------------------
(* verify_release.py.  An error does not stop it, so it is a conjunction.  *)

Has(fs, path, content) == Exists(fs, path) /\ fs[path] = content

verify_indexes(fs) ==
    /\ REQUIRED \subseteq all_files(fs)
    /\ Has(fs, Manifest, Digests(fs, all_files(fs)))
    /\ Has(fs, Allowlist, all_files(fs))

\* Private text, inflated claims and the phrases that must be there.
verify_text(fs) == Exists(fs, Doc) /\ fs[Doc] # "private"

verify_claims(fs) ==
    /\ Exists(fs, Claims)
    /\ \A path \in DOMAIN fs[Claims] : Has(fs, path, fs[Claims][path])

\* The call of verify_experiments.py: the manifest and the pinned rows.
verify_sealed(fs) ==
    /\ Has(fs, ExperimentManifest,
           Digests(fs, experiment_files(fs)))
    /\ Has(fs, Rows, "sealed")

verify_inventory(fs) ==
    Has(fs, Inventory, Digests(fs, all_files(fs) \ {Inventory}))

verify_sbom(fs) ==
    Has(fs, Sbom, Digests(fs, all_files(fs) \ {Sbom, Inventory}))

\* The citation has the DOI if the program is run for the final phase.
verify_citation(fs, doi) ==
    Has(fs, Citation, IF doi = "none" THEN "no doi" ELSE doi)

\* A mutant of verify_sources: the manifest need only be there.
verify_sources_present(fs) == Exists(fs, SourceManifest)

verify_sources(fs) ==
    /\ Range(NORMATIVE) \subseteq DOMAIN fs
    /\ Has(fs, SourceManifest, Digests(fs, Range(NORMATIVE)))

PhaseOf(doi) == IF doi = "none" THEN "pre-doi" ELSE "final"

verify_receipt(fs, doi) ==
    Exists(fs, Receipt) /\
    LET receipt == fs[Receipt]
    IN  /\ receipt.toolchain = EXPECTED_ARTICLE_TOOLCHAIN
        /\ receipt.phase = PhaseOf(doi)
        /\ receipt.expected_article_doi = doi
        /\ Has(fs, SourceManifest, receipt.source_manifest)
        /\ Digests(fs, {Definition}) = receipt.build_definitions
        /\ Digests(fs, Outputs) = receipt.promoted_outputs

\* The records of builds A and B are as pinned, and the same.
verify_validations(fs) ==
    Exists(fs, Receipt) /\
    LET builds == fs[Receipt].builds
    IN  /\ \A validation \in {builds.A, builds.B} :
              /\ validation.pages = 13
              /\ validation.latex_log \in PinnedLogs
              /\ Has(fs, FigurePdf, validation.svg)
        /\ builds.A = builds.B

verify_main(fs, doi) ==
    Exists(fs, Main) /\ PhaseAgrees(fs[Main], PhaseOf(doi), doi)

verify_article(fs, doi) ==
    /\ verify_sources(fs) /\ verify_receipt(fs, doi)
    /\ verify_validations(fs) /\ verify_main(fs, doi)

verify_release(fs, doi) ==
    /\ verify_indexes(fs) /\ verify_text(fs) /\ verify_claims(fs)
    /\ verify_sealed(fs) /\ verify_inventory(fs) /\ verify_sbom(fs)
    /\ verify_citation(fs, doi) /\ verify_article(fs, doi)

-----------------------------------------------------------------------------
(* rebuild_release_metadata.py.                                            *)

\* A mutant of REBUILD: the SBOM is written before what it lists.
REBUILD_sbom_first == <<ExperimentManifest, Sbom, Claims, Inventory>>

\* The files in the order in which they are derived from each other.
REBUILD == <<ExperimentManifest, Claims, Sbom, Inventory>>

\* What the rebuild puts under a path, from the tree as it now is.
Derived(path) ==
    CASE path = ExperimentManifest ->
            Digests(files, experiment_files(files))
      [] path = Claims -> Digests(files, Evidence)
      [] path = Sbom -> Digests(files, all_files(files) \ {Sbom, Inventory})
      [] path = Inventory -> Digests(files, all_files(files) \ {Inventory})
      [] path = Allowlist -> names
      [] path = Manifest -> Digests(files, names)

\* The inputs whose absence ends the program when it derives a path.
Needs(path) ==
    IF path = Claims THEN Evidence ELSE IF path = Manifest THEN names ELSE {}

\* The paths written into a file whose text is encoded as ASCII.
Encoded(path) ==
    CASE path = ExperimentManifest -> experiment_files(files)
      [] path = Manifest -> names
      [] OTHER -> {}

StartRebuild(reviewed) ==
    /\ pc[Rebuild] \in Ended /\ starts < MaxStarts
    /\ starts' = starts + 1
    /\ clean' = clean \cup {Rebuild}
    /\ adopted' = reviewed
    /\ changed' = {}
    /\ Goto(Rebuild, "precheck")
    /\ UNCHANGED <<files, builderLocals, todo, names, edits>>

EndRebuild(how) ==
    /\ Goto(Rebuild, how)
    /\ todo' = [todo EXCEPT ![Rebuild] = <<>>]
    /\ names' = {} /\ adopted' = {}

(* Nothing is written unless the files are exactly the reviewed ones: the  *)
(* adopted list, or by default the one in the tree.                        *)
Precheck ==
    LET listing == all_files(files)
        reviewed == IF adopted # {} THEN adopted ELSE files[Allowlist]
    IN  /\ pc[Rebuild] = "precheck"
        /\ IF (adopted = {} /\ ~Exists(files, Allowlist)) \/ reviewed # listing
           THEN EndRebuild("raised")
           ELSE /\ names' = listing
                /\ todo' = [todo EXCEPT ![Rebuild] = REBUILD \o
                        (IF adopted # {} THEN <<Allowlist>> ELSE <<>>)
                        \o <<Manifest>>]
                /\ Goto(Rebuild, "write")
                /\ UNCHANGED adopted
        /\ UNCHANGED <<files, builderLocals, starts, clean, changed, edits>>

(* A file cannot be derived, its text cannot be encoded, or atomic_write   *)
(* finds its temporary file, or a directory in its place.                  *)
Fails(path) ==
    \/ ~(Needs(path) \subseteq DOMAIN files)
    \/ Encoded(path) \cap NonAscii # {}
    \/ Exists(files, TmpOf(path)) \/ Exists(files, DirectoryAt(path))

\* The temporary file is written ...
WriteTmp ==
    LET path == Head(todo[Rebuild])
    IN  /\ pc[Rebuild] = "write" /\ todo[Rebuild] # <<>>
        /\ IF Fails(path)
           THEN EndRebuild("raised") /\ UNCHANGED <<files, clean, changed>>
           ELSE /\ Writes(Rebuild, Put(files, TmpOf(path), Derived(path)))
                /\ Goto(Rebuild, "replace")
                /\ UNCHANGED <<todo, rebuildLocals>>
        /\ UNCHANGED <<builderLocals, starts, edits>>

\* ... which replaces the file, unless somebody has taken it away.
ReplaceMetadata ==
    LET path == Head(todo[Rebuild])
        fs == Replace(files, TmpOf(path), path)
    IN  /\ pc[Rebuild] = "replace" /\ Exists(files, TmpOf(path))
        /\ Writes(Rebuild, fs)
        /\ changed' = IF Has(files, path, fs[path]) THEN changed
                      ELSE changed \cup {path}
        /\ IF Tail(todo[Rebuild]) = <<>> THEN EndRebuild("done")
           ELSE /\ todo' = [todo EXCEPT ![Rebuild] = Tail(@)]
                /\ Goto(Rebuild, "write")
                /\ UNCHANGED <<names, adopted>>
        /\ UNCHANGED <<builderLocals, starts, edits>>
FailReplace ==
    /\ pc[Rebuild] = "replace"
    /\ ~Exists(files, TmpOf(Head(todo[Rebuild])))
    /\ EndRebuild("raised")
    /\ UNCHANGED <<files, builderLocals, starts, clean, changed, edits>>

KillRebuild ==
    /\ pc[Rebuild] \notin Ended
    /\ EndRebuild("killed")
    /\ UNCHANGED <<files, builderLocals, starts, clean, changed, edits>>

-----------------------------------------------------------------------------
(* People.                                                                 *)

\* Files they add, or leave where the rebuild wants to write, or delete.
Added == {Stray, Accented, AccentedRows, TmpOf(Sbom), DirectoryAt(Sbom)}
Removed == Added \cup {Doc, Figure, FigurePdf, Receipt, ExperimentManifest,
                      Claims, Sbom, Inventory, Allowlist}

\* A file of the tree is changed, deleted, restored or added; or two are.
Edited ==
    {Put(files, Main, m) : m \in {"pre", "doi"}}
    \cup {Put(files, Figure, f) : f \in {"v1", "v2", "overfull"}}
    \cup {Put(files, Definition, "t2")}
    \cup {Put(files, Doc, d) : d \in {"d1", "d2", "private"}}
    \cup {Put(files, Rows, r) : r \in {"sealed", "rerun"}}
    \cup {Put(files, Citation, c) : c \in {"no doi", "doi"}}
    \cup {Put(files, FigurePdf, <<"by hand">>)}
    \cup {Put(files, path, NoFiles) : path \in Added}
    \cup {Without(files, {path}) : path \in Removed}
    \cup {Without(Put(files, Rows, "rerun"), {Doc})}

Edit ==
    /\ edits < MaxEdits
    /\ edits' = edits + 1
    /\ files' \in Edited \ {files}
    /\ clean' = {}
    /\ UNCHANGED <<pc, builderLocals, todo, starts, rebuildLocals>>

\* What is left in the way of the tools is removed while none is running.
CleanUp ==
    LET left == {path \in DOMAIN files : Len(path) > 1}
    IN  /\ left # {} /\ \A p \in Tools : pc[p] \in Ended
        /\ files' = Without(files, left)
        /\ clean' = {}
        /\ UNCHANGED <<pc, builderLocals, todo, starts, rebuildLocals, edits>>

-----------------------------------------------------------------------------

\* The tree of a release: each file is added when what it lists is there.
Sources ==
    [path \in {Main, Figure, Definition, Doc, Rows, Citation} |->
        CASE path = Main -> "pre"
          [] path = Figure -> "v1"
          [] path = Definition -> "t1"
          [] path = Doc -> "d1"
          [] path = Rows -> "sealed"
          [] path = Citation -> "no doi"]
ReceiptOf(fs, made) ==
    [phase |-> "pre-doi", expected_article_doi |-> "none",
     source_manifest |-> manifest_bytes(fs),
     build_definitions |-> Digests(fs, {Definition}),
     promoted_outputs |-> made.outputs,
     toolchain |-> EXPECTED_ARTICLE_TOOLCHAIN,
     builds |-> [A |-> made.validation, B |-> made.validation]]
WithArticle(fs) ==
    LET variant == CHOOSE v \in Variants : TRUE
        log == CHOOSE l \in PinnedLogs : TRUE
        made == build_once(fs, 13, variant, log)
        WithArticlePdf == Put(fs, ArticlePdf, made.outputs[ArticlePdf])
        WithPdfs == Put(WithArticlePdf, FigurePdf, made.outputs[FigurePdf])
    IN  Put(Put(WithPdfs, SourceManifest, manifest_bytes(fs)),
            Receipt, ReceiptOf(fs, made))
WithLedgers(fs) ==
    Put(Put(fs, ExperimentManifest, Digests(fs, {Rows})),
        Claims, Digests(fs, Evidence))
WithSbom(fs) == Put(fs, Sbom, fs)
WithInventory(fs) == Put(fs, Inventory, fs)
WithIndexes(fs) == Put(Put(fs, Allowlist, DOMAIN fs), Manifest, fs)
Released ==
    WithIndexes(WithInventory(WithSbom(WithLedgers(WithArticle(Sources)))))

Init ==
    /\ files = Released
    /\ pc = [p \in Tools |-> "killed"]
    /\ argument = [b \in Builders |-> Defaults]
    /\ snapshot = [b \in Builders |-> NoFiles]
    /\ built = [b \in Builders |-> NoBuild]
    /\ todo = [p \in Tools |-> <<>>]
    /\ names = {} /\ adopted = {} /\ changed = {}
    /\ starts = 0 /\ edits = 0 /\ clean = {}

RebuildStep ==
    \/ \E reviewed \in Reviewed \cup {{}} : StartRebuild(reviewed)
    \/ Precheck \/ WriteTmp \/ ReplaceMetadata \/ FailReplace \/ KillRebuild

Next ==
    \/ \E b \in Builders : BuilderStep(b) /\ UNCHANGED <<rebuildLocals, edits>>
    \/ RebuildStep \/ Edit \/ CleanUp
    \/ (\A p \in Tools : pc[p] \in Ended) /\ UNCHANGED vars

Spec == Init /\ [][Next]_vars

-----------------------------------------------------------------------------
(* Properties.                                                             *)

(* A tree that verify_release accepts is what it says.  If the article     *)
(* part passes, the PDF and the figure come from one build of the sources  *)
(* beside them, none of which the checks of the build refuse; if all of it *)
(* passes, source and citation are in the same DOI phase.  This holds in   *)
(* every state, whatever tools died or overlapped on the way there.        *)
AcceptedIsConsistent ==
    \A doi \in {"none", "doi"} :
        /\ verify_article(files, doi) =>
              /\ Range(NORMATIVE) \subseteq DOMAIN files
              /\ \E v \in Variants :
                    /\ files[ArticlePdf] = <<files[Main], files[Figure], v>>
                    /\ files[FigurePdf] = <<files[Figure], v>>
              /\ ~Defective(files[Figure])
        /\ verify_release(files, doi) =>
              (Announces(files[Main]) <=> files[Citation] = "no doi")

(* The receipt of a build enters the tree only after everything it attests *)
(* (promotion in sorted order, receipt last), unless another tool or a     *)
(* person meddled: a killed build leaves no receipt of its own.            *)
ReceiptLast ==
    [][\A b \in clean' \cap Builders :
          (/\ pc[b] = "replace" /\ Head(todo[b]) = Receipt
           /\ pc'[b] \in {"promote", "check"}) =>
              /\ Digests(files, Outputs) = files'[Receipt].promoted_outputs
              /\ files[SourceManifest] = files'[Receipt].source_manifest]_vars

(* What verify_release demands of a receipt and the builder does not:      *)
(* phase and DOI that fit, 13 pages whatever --expected-pages says, the    *)
(* pinned tools, the pinned warnings and not just allowed ones, and two    *)
(* validation records that are the same.                                   *)
DemandedBesides(receipt) ==
    /\ receipt.phase = PhaseOf(receipt.expected_article_doi)
    /\ receipt.builds.A.pages = 13
    /\ receipt.toolchain = EXPECTED_ARTICLE_TOOLCHAIN
    /\ receipt.builds.A.latex_log \in PinnedLogs
    /\ receipt.builds.A = receipt.builds.B

(* A build that succeeds without interference satisfies the article part   *)
(* of verify_release exactly if its receipt meets these further demands:   *)
(* builder and verifier disagree on nothing else.                          *)
BuildSatisfiesVerifier ==
    \A b \in Builders :
        pc[b] = "done" /\ b \in clean =>
            ((\E doi \in {"none", "doi"} : verify_article(files, doi))
                <=> DemandedBesides(files[Receipt]))

(* A rebuild that succeeds without interference leaves every derived file  *)
(* current, although each lists others that the same rebuild rewrites; and *)
(* the indexes satisfy the verifier exactly if the reviewed list named all *)
(* that a release consists of.  The listing is taken before the derived    *)
(* files are written, so one that did not exist yet is left out of both.   *)
RebuildSatisfiesVerifier ==
    pc[Rebuild] = "done" /\ Rebuild \in clean =>
        /\ verify_claims(files)
        /\ verify_inventory(files) /\ verify_sbom(files)
        /\ Has(files, ExperimentManifest,
               Digests(files, experiment_files(files)))
        /\ verify_indexes(files) <=> REQUIRED \subseteq files[Allowlist]

(* A rebuild that one of its own checks ends, without interference, leaves *)
(* the manifest alone, and the files it changed are current, as are those  *)
(* that come before one of them: it stops at a whole file, not at random.  *)
FailedRebuildIsCurrent ==
    pc[Rebuild] = "raised" /\ Rebuild \in clean =>
        /\ Manifest \notin changed
        /\ \A i \in DOMAIN REBUILD : REBUILD[i] \in changed =>
              \A j \in 1..i : Has(files, REBUILD[j], Derived(REBUILD[j]))

-----------------------------------------------------------------------------
(* What the comment above the first write says and the code does not do.   *)

(* src/tools/rebuild_release_metadata.py:166, "Membership, path safety,    *)
(* and the project-reviewed allowlist boundary are checked before the      *)
(* first mutation.  A failed/default rebuild therefore leaves every        *)
(* release artifact byte-identical."                                       *)
FailedRebuildKeepsFiles ==
    pc[Rebuild] = "raised" /\ Rebuild \in clean => changed = {}
=============================================================================
