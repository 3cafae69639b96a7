------------------------------- MODULE Article -------------------------------
(***************************************************************************)
(* build_article_verified.py: builders take a snapshot of the article's    *)
(* sources, build it twice in private directories, compare the results,    *)
(* and replace the article, its figure, the source manifest and, last, the *)
(* receipt in the tree, one file at a time.  Builders run concurrently,    *)
(* and each may be killed at any step.                                     *)
(***************************************************************************)
EXTENDS Naturals, Sequences, FiniteSets, SequencesExt, Files

CONSTANTS
    Builders,   \* processes that run the article builder, again and again
    Arguments,  \* the command lines builders are called with
    Variants,   \* files of the TeX tools that the input does not determine
    Logs,       \* what logs and PDF files say of a build: warnings, versions
    PinnedLogs, \* those with the warning lines and versions that are pinned
    Toolchains, \* versions of the tools that may be found
    MaxStarts   \* bound: tools started in a behaviour

ASSUME OutcomesAssumption ==
    /\ Variants # {}
    /\ PinnedLogs # {} /\ PinnedLogs \subseteq Logs

VARIABLES
    files,      \* the release tree
    pc,         \* next step of each tool
    argument,   \* a builder's --phase, --expected-article-doi and pages
    snapshot,   \* the sources and definitions a builder has read
    built,      \* what its builds A and B came to
    todo,       \* the paths a tool has still to treat in its present loop
    starts,     \* tools started so far
    clean       \* tools since whose start nobody else changed the tree

builderLocals == <<argument, snapshot, built>>

\* Normative sources, a build definition, and what a build promotes.
Main == <<"main.tex">>
Figure == <<"fig.tex">>
Definition == <<"build_article_verified.py">>
ArticlePdf == <<"ARTICLE.pdf">>
FigurePdf == <<"fig.pdf">>
SourceManifest == <<"ARTICLE_SOURCE_MANIFEST.sha256">>
Receipt == <<"BUILD_RECEIPT.json">>

NORMATIVE == <<Main, Figure>>
Outputs == {ArticlePdf, FigurePdf}

Digests(fs, paths) == Restrict(fs, paths \cap DOMAIN fs)

\* What a main.tex says of its DOI: it has one, or it announces one.
Announces(main) == main = "pre"
Mentions(main, doi) == main = doi

\* A figure that the checks of logs, PDF and SVG refuse.
Defective(figure) == figure = "overfull"

Ended == {"done", "raised", "killed"}

\* The options of parse_args, which are independent, and their defaults.
Options == [phase : {"pre-doi", "final"},
            expected_article_doi : {"none", "doi"},
            expected_pages : Nat \ {0}]
Defaults == [phase |-> "pre-doi", expected_article_doi |-> "none",
             expected_pages |-> 13]

ASSUME ArgumentsAssumption == Arguments \subseteq Options

\* The versions of the tools that verify_release wants.
EXPECTED_ARTICLE_TOOLCHAIN == "pinned"

NoBuild == [outputs |-> NoFiles, toolchain |-> EXPECTED_ARTICLE_TOOLCHAIN,
            A |-> NoFiles, B |-> NoFiles]

-----------------------------------------------------------------------------
(* Pure parts.                                                             *)

\* source_snapshot's demands on what it has read: only "final" uses the DOI.
PhaseAgrees(main, phase, doi) ==
    IF phase = "pre-doi" THEN Announces(main)
    ELSE doi # "none" /\ Mentions(main, doi) /\ ~Announces(main)

\* A mutant of manifest_bytes: the figures are left out.
manifest_bytes_main(snap) == Digests(snap, {Main})

manifest_bytes(snap) == Digests(snap, Range(NORMATIVE))

(* One build: its files, and its validation record.  An article that has   *)
(* not the expected number of pages ends it.                               *)
build_once(snap, expected_pages, variant, log) ==
    [outputs |-> [path \in Outputs |->
                    IF path = FigurePdf THEN <<snap[Figure], variant>>
                    ELSE <<snap[Main], snap[Figure], variant>>],
     validation |-> [pages |-> expected_pages, latex_log |-> log,
                     svg |-> <<snap[Figure], variant>>]]

\* Warnings have to be allowed ones, not to be the ones that are pinned.
validate(snap) == ~Defective(snap[Figure])

compare_builds(a, b) == a.outputs = b.outputs

\* Outputs, manifest and definitions as metrics; both validation records.
build_receipt(b) ==
    [phase |-> argument[b].phase,
     expected_article_doi |-> argument[b].expected_article_doi,
     source_manifest |-> manifest_bytes(snapshot[b]),
     build_definitions |-> Digests(snapshot[b], {Definition}),
     promoted_outputs |-> built[b].outputs,
     toolchain |-> built[b].toolchain,
     builds |-> [A |-> built[b].A, B |-> built[b].B]]

\* A mutant of Promotions: the receipt is published first.
Promotions_receipt_first == <<Receipt, ArticlePdf, FigurePdf, SourceManifest>>

Promotions == <<ArticlePdf, FigurePdf, SourceManifest, Receipt>>

\* What builder b puts under a path.
Promoted(b, path) ==
    CASE path \in Outputs -> built[b].outputs[path]
      [] path = SourceManifest -> manifest_bytes(snapshot[b])
      [] path = Receipt -> build_receipt(b)

\* path.parent / f".{path.name}.{os.getpid()}.partial"
PartialOf(path, b) == path \o <<b>>

-----------------------------------------------------------------------------

Goto(p, step) == pc' = [pc EXCEPT ![p] = step]

\* A tool ends; its private data are gone.
End(b, how) ==
    /\ Goto(b, how)
    /\ argument' = [argument EXCEPT ![b] = Defaults]
    /\ snapshot' = [snapshot EXCEPT ![b] = NoFiles]
    /\ built' = [built EXCEPT ![b] = NoBuild]
    /\ todo' = [todo EXCEPT ![b] = <<>>]

\* A step of tool p that may change the tree, and so disturb the others.
Writes(p, fs) ==
    /\ files' = fs
    /\ clean' = IF fs = files THEN clean ELSE clean \cap {p}

StartBuild(b, options) ==
    /\ pc[b] \in Ended /\ starts < MaxStarts
    /\ starts' = starts + 1
    /\ clean' = clean \cup {b}
    /\ argument' = [argument EXCEPT ![b] = options]
    /\ todo' = [todo EXCEPT ![b] = NORMATIVE \o <<Definition>>]
    /\ Goto(b, "snapshot")
    /\ UNCHANGED <<files, snapshot, built>>

\* The sources, and then the build definitions, are read one by one.
ReadSource(b) ==
    LET path == Head(todo[b])
        snap == Put(snapshot[b], path, files[path])
        read == DOMAIN snap
        phase == argument[b].phase
        doi == argument[b].expected_article_doi
    IN  /\ pc[b] = "snapshot" /\ todo[b] # <<>>
        /\ IF \/ ~Exists(files, path)
              \/ read = Range(NORMATIVE) /\ ~PhaseAgrees(snap[Main], phase, doi)
           THEN End(b, "raised")
           ELSE /\ snapshot' = [snapshot EXCEPT ![b] = snap]
                /\ todo' = [todo EXCEPT ![b] = Tail(@)]
                /\ UNCHANGED <<pc, argument, built>>
        /\ UNCHANGED <<files, starts, clean>>

(* Builds A and B, in a private directory, and their comparison.  A tool   *)
(* that is missing, fails or runs out of time ends the build as well.      *)
Build(b) ==
    LET pages == argument[b].expected_pages
    IN  /\ pc[b] = "snapshot" /\ todo[b] = <<>>
        /\ \/ /\ validate(snapshot[b])
              /\ \E toolchain \in Toolchains, va, vb \in Variants,
                   log_a, log_b \in Logs :
                    LET A == build_once(snapshot[b], pages, va, log_a)
                        B == build_once(snapshot[b], pages, vb, log_b)
                    IN  /\ compare_builds(A, B)
                        /\ built' = [built EXCEPT ![b] =
                              [outputs |-> A.outputs, toolchain |-> toolchain,
                               A |-> A.validation, B |-> B.validation]]
              /\ Goto(b, "unchanged")
              /\ UNCHANGED <<argument, snapshot, todo>>
           \/ End(b, "raised")
        /\ UNCHANGED <<files, starts, clean>>

(* assert_snapshot_unchanged, for the sources and for the definitions.  An *)
(* edit behind its back is like one that comes just after it.              *)
AssertUnchanged(b) ==
    /\ pc[b] = "unchanged"
    /\ IF snapshot[b] = Digests(files, DOMAIN snapshot[b])
       THEN /\ Goto(b, "promote")
            /\ todo' = [todo EXCEPT ![b] = Promotions]
            /\ UNCHANGED builderLocals
       ELSE End(b, "raised")
    /\ UNCHANGED <<files, starts, clean>>

\* atomic_write creates its partial file ...
WritePartial(b) ==
    LET partial == PartialOf(Head(todo[b]), b)
    IN  /\ pc[b] = "promote" /\ todo[b] # <<>>
        /\ IF Exists(files, partial) THEN End(b, "raised") /\ Writes(b, files)
           ELSE /\ Writes(b, Put(files, partial, Promoted(b, Head(todo[b]))))
                /\ Goto(b, "replace")
                /\ UNCHANGED <<builderLocals, todo>>
        /\ UNCHANGED starts

\* ... and replaces the file with it.
ReplaceOutput(b) ==
    LET path == Head(todo[b])
    IN  /\ pc[b] = "replace"
        /\ Writes(b, Replace(files, PartialOf(path, b), path))
        /\ IF Tail(todo[b]) = <<>>
           THEN Goto(b, "check") ELSE Goto(b, "promote")
        /\ todo' = [todo EXCEPT ![b] = Tail(@)]
        /\ UNCHANGED <<builderLocals, starts>>

\* An OSError on the way: the finally clause removes the partial file.
FailWrite(b) ==
    /\ pc[b] = "replace"
    /\ Writes(b, Without(files, {PartialOf(Head(todo[b]), b)}))
    /\ End(b, "raised")
    /\ UNCHANGED starts

\* The promoted files are read back.
CheckPromoted(b) ==
    /\ pc[b] = "check"
    /\ End(b, IF \A path \in Range(Promotions) :
                    Exists(files, path) /\ files[path] = Promoted(b, path)
              THEN "done" ELSE "raised")
    /\ UNCHANGED <<files, starts, clean>>

KillBuild(b) ==
    /\ pc[b] \notin Ended
    /\ End(b, "killed")
    /\ UNCHANGED <<files, starts, clean>>

BuilderStep(b) ==
    \/ \E options \in Arguments : StartBuild(b, options)
    \/ ReadSource(b) \/ Build(b) \/ AssertUnchanged(b)
    \/ WritePartial(b) \/ ReplaceOutput(b) \/ FailWrite(b)
    \/ CheckPromoted(b) \/ KillBuild(b)
=============================================================================
