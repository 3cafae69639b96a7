------------------------------- MODULE Archive -------------------------------
(***************************************************************************)
(* build_deterministic_zip.py and verify_archive.py.  Builders pack the    *)
(* source tree into one output file through a partial file beside it; the  *)
(* independent verifier, a process of its own, reads the allowlist and the *)
(* tree again before and after the output is replaced.  Meanwhile people   *)
(* edit the tree and the allowlist, builders are killed, and partial files *)
(* are left behind.                                                        *)
(***************************************************************************)
EXTENDS Naturals, Sequences, FiniteSets, SequencesExt, Files

CONSTANTS
    Builders,       \* processes that run the builder, each again and again
    Overwriting,    \* the builders that are given --overwrite
    Names,          \* relative paths, in ordinal order
    Portable,       \* the names validate_portable_name accepts
    Fold,           \* a name's normal form under NFC and casefold
    Suffix,         \* a name's suffix
    Contents,       \* contents of a source file
    Link,           \* what stands for a symbolic link or other special file
    Allowlists,     \* allowlists a person may write: lines of name and content
    MaxEdits        \* bound: edits of the tree and of the allowlist

ASSUME BuildersAssumption == Overwriting \subseteq Builders

ASSUME LinkAssumption == Link \notin Contents

\* A name has one place in the order.
ASSUME NamesAssumption ==
    /\ Names \in Seq(Range(Names))
    /\ \A i, j \in DOMAIN Names : Names[i] = Names[j] => i = j

ASSUME AllowlistsAssumption ==
    Allowlists \subseteq Seq(Range(Names) \X Contents)

VARIABLES
    source,     \* the source tree: contents by name
    allowlist,  \* the lines of the allowlist
    files,      \* the output and the partial file, where they exist
    pc,         \* next step of each builder
    expected,   \* the allowlist as a builder, or its verifier, has parsed it
    left,       \* the files that are still to be read in this pass
    hash,       \* digest of a builder's partial archive
    edits,      \* number of edits so far
    clean,      \* builders that nothing has interfered with since they began
    settled     \* builders since whose publication nothing was edited

locals == <<expected, left, hash>>
ghosts == <<edits, clean, settled>>
vars == <<source, allowlist, files, pc, locals, ghosts>>

Output == "out.zip"
Partial == "out.zip.partial"
NoArchive == [members |-> <<>>, closed |-> FALSE,
              gap |-> FALSE, comment |-> FALSE]
Archive(path) == IF Exists(files, path) THEN files[path] ELSE NoArchive

Idle == {"done", "raised", "killed"}
Holding == {"write", "digest", "verify", "verify_source", "verify_archive",
            "look_again", "replace"}

-----------------------------------------------------------------------------
(* Pure parts.                                                             *)

Ordinal(name) == CHOOSE i \in DOMAIN Names : Names[i] = name
Sorted(names) ==
    \A i, j \in DOMAIN names : i < j => Ordinal(names[i]) <= Ordinal(names[j])
Distinct(names) == Cardinality(Range(names)) = Len(names)
Folded(names) == [i \in DOMAIN names |-> Fold[names[i]]]

Invalid == NoFiles

validate_portable_name(name) == name \in Portable
require_plain_file(entry) == entry # Link

\* The contents by name, or Invalid where the code raises.
parse_allowlist(lines) ==
    LET names == [i \in DOMAIN lines |-> lines[i][1]]
    IN  IF /\ lines # <<>>
           /\ \A name \in Range(names) : validate_portable_name(name)
           /\ Distinct(names) /\ Sorted(names) /\ Distinct(Folded(names))
        THEN [name \in Range(names) |->
                 lines[CHOOSE i \in DOMAIN lines : names[i] = name][2]]
        ELSE Invalid

\* sorted(expected)
InOrder(names) ==
    LET kept[i \in 0..Len(Names)] ==
            IF i = 0 THEN <<>>
            ELSE IF Names[i] \in names THEN Append(kept[i - 1], Names[i])
            ELSE kept[i - 1]
    IN  kept[Len(Names)]

\* The tree holds exactly the listed names, all of them safe.
inspect_source(listed) ==
    /\ \A name \in DOMAIN source : /\ validate_portable_name(name)
                                  /\ require_plain_file(source[name])
    /\ Distinct(Folded(InOrder(DOMAIN source)))
    /\ DOMAIN source = DOMAIN listed

(* A file changed during the read is noticed by its identity, size or      *)
(* time; in any case only the listed content is let through.               *)
read_stable(name, listed) ==
    /\ name \in DOMAIN source /\ require_plain_file(source[name])
    /\ source[name] = listed[name]

\* The verifier's counterpart of read_stable.
stable_digest(name, listed) ==
    /\ name \in DOMAIN source /\ require_plain_file(source[name])
    /\ source[name] = listed[name]

lower(suffix) == IF suffix = ".PY" THEN ".py" ELSE suffix

\* A mutant of canonical_mode: the builder forgets lower().
canonical_mode_exact(name) == IF Suffix[name] \in {".py", ".sh"} THEN 755 ELSE 644

\* The builder's canonical_mode.
canonical_mode(name) ==
    IF lower(Suffix[name]) \in {".py", ".sh"} THEN 755 ELSE 644

\* The verifier's own canonical_mode.
verifier_mode(name) ==
    IF lower(Suffix[name]) \in {".py", ".sh"} THEN 755 ELSE 644

\* A member as writestr stores it under the fixed ZipInfo.
Member(name, data) ==
    [name |-> name, data |-> data, mode |-> canonical_mode(name), fixed |-> TRUE]

\* A complete end record with nothing after it, and no comment.
verify_eocd(archive) == archive.closed /\ ~archive.comment

\* Local headers follow each other without a gap and match the directory.
verify_local_headers(archive) ==
    ~archive.gap /\ \A i \in DOMAIN archive.members : archive.members[i].fixed

(* A mutant of verify_archive: each member is looked up in the allowlist,  *)
(* but the list of members is compared with it only as a set.              *)
verify_archive_lookup(archive, listed) ==
    LET members == archive.members
        names == [i \in DOMAIN members |-> members[i].name]
    IN  /\ verify_eocd(archive) /\ verify_local_headers(archive)
        /\ Range(names) = DOMAIN listed
        /\ \A i \in DOMAIN members :
              /\ members[i].mode = verifier_mode(names[i])
              /\ members[i].data = listed[names[i]]

(* The names are the listed ones in order, with the listed bytes and       *)
(* canonical metadata (fixed: time, creator, flags, level-9 DEFLATE).      *)
verify_archive(archive, listed) ==
    LET members == archive.members
        names == [i \in DOMAIN members |-> members[i].name]
    IN  /\ verify_eocd(archive) /\ verify_local_headers(archive)
        /\ Sorted(names) /\ Distinct(names) /\ Distinct(Folded(names))
        /\ names = InOrder(DOMAIN listed)
        /\ \A i \in DOMAIN members :
              /\ validate_portable_name(names[i])
              /\ members[i].fixed
              /\ members[i].mode = verifier_mode(names[i])
              /\ members[i].data = listed[names[i]]

-----------------------------------------------------------------------------

Init ==
    /\ allowlist \in Allowlists /\ parse_allowlist(allowlist) # Invalid
    /\ source = parse_allowlist(allowlist)
    /\ files = NoFiles
    /\ pc = [b \in Builders |-> "killed"]
    /\ expected = [b \in Builders |-> Invalid]
    /\ left = [b \in Builders |-> <<>>]
    /\ hash = [b \in Builders |-> NoArchive]
    /\ edits = 0 /\ clean = {} /\ settled = {}

Goto(b, step) == pc' = [pc EXCEPT ![b] = step]
Reads(b, names) == left' = [left EXCEPT ![b] = InOrder(names)]

\* Leave with a BoundaryError or an OSError.
Raise(b) == Goto(b, "raised") /\ UNCHANGED <<files, locals, settled>>

world == <<source, allowlist>>

\* What a builder's step leaves alone besides what it names itself.
Quiet == UNCHANGED <<world, edits, clean>>

\* What it means that nothing should stand in a build's way.
Unhindered(b) ==
    /\ \A other \in Builders \ {b} : pc[other] \in Idle
    /\ ~Exists(files, Partial)
    /\ b \in Overwriting \/ ~Exists(files, Output)
    /\ parse_allowlist(allowlist) # Invalid /\ inspect_source(source)
    /\ parse_allowlist(allowlist) = source

\* main begins: leftovers and an existing output are refused.
Start(b) ==
    /\ pc[b] \in Idle
    /\ clean' = IF Unhindered(b) THEN {b} ELSE {}
    /\ settled' = settled \ {b}
    /\ IF Exists(files, Partial) \/ (Exists(files, Output) /\ b \notin Overwriting)
       THEN Goto(b, "raised") ELSE Goto(b, "parse")
    /\ expected' = [expected EXCEPT ![b] = Invalid]
    /\ left' = [left EXCEPT ![b] = <<>>]
    /\ hash' = [hash EXCEPT ![b] = NoArchive]
    /\ UNCHANGED <<world, files, edits>>

Parse(b) ==
    LET listed == parse_allowlist(allowlist)
    IN  /\ pc[b] = "parse" /\ Quiet
        /\ IF listed = Invalid \/ ~inspect_source(listed) THEN Raise(b)
           ELSE /\ expected' = [expected EXCEPT ![b] = listed]
                /\ Reads(b, DOMAIN listed)
                /\ Goto(b, "read")
                /\ UNCHANGED <<files, hash, settled>>

\* Every byte is read once before anything is created.
ReadAhead(b) ==
    /\ pc[b] = "read" /\ left[b] # <<>> /\ Quiet
    /\ IF ~read_stable(Head(left[b]), expected[b]) THEN Raise(b)
       ELSE /\ left' = [left EXCEPT ![b] = Tail(@)]
            /\ UNCHANGED <<files, pc, expected, hash, settled>>

\* A mutant of OpenPartial: mode "w+b".
OpenPartialAnyway(b) ==
    /\ pc[b] = "read" /\ left[b] = <<>> /\ Quiet
    /\ files' = Put(files, Partial, NoArchive)
    /\ Reads(b, DOMAIN expected[b])
    /\ Goto(b, "write")
    /\ UNCHANGED <<expected, hash, settled>>

\* partial.open("x+b") fails if another builder got there first.
OpenPartial(b) ==
    /\ pc[b] = "read" /\ left[b] = <<>> /\ Quiet
    /\ IF Exists(files, Partial) THEN Raise(b)
       ELSE /\ files' = Put(files, Partial, NoArchive)
            /\ Reads(b, DOMAIN expected[b])
            /\ Goto(b, "write")
            /\ UNCHANGED <<expected, hash, settled>>

(* Each file is read a second time and stored.  If it has changed, leaving *)
(* the with block closes the ZipFile: what stays behind is a well-formed   *)
(* archive of the members so far.                                          *)
WriteMember(b) ==
    LET name == Head(left[b])
    IN  /\ pc[b] = "write" /\ left[b] # <<>> /\ Quiet
        /\ IF read_stable(name, expected[b])
           THEN /\ files' = [files EXCEPT ![Partial].members =
                                Append(@, Member(name, source[name]))]
                /\ left' = [left EXCEPT ![b] = Tail(@)]
                /\ UNCHANGED pc
           ELSE /\ files' = [files EXCEPT ![Partial].closed = TRUE]
                /\ Goto(b, "raised")
                /\ UNCHANGED left
        /\ UNCHANGED <<expected, hash, settled>>

ClosePartial(b) ==
    /\ pc[b] = "write" /\ left[b] = <<>> /\ Quiet
    /\ files' = [files EXCEPT ![Partial].closed = TRUE]
    /\ Goto(b, "digest")
    /\ UNCHANGED <<locals, settled>>

Digest(b) ==
    /\ pc[b] = "digest" /\ Quiet
    /\ hash' = [hash EXCEPT ![b] = Archive(Partial)]
    /\ Goto(b, "verify")
    /\ UNCHANGED <<files, expected, left, settled>>

(* The verifier, on the partial archive and later on the output: it parses *)
(* the allowlist, reads the tree, and looks at the archive.  It goes on    *)
(* after an error, to report them all; the builder raises in the end.      *)
VerifyAllowlist(b, from, to) ==
    LET listed == parse_allowlist(allowlist)
    IN  /\ pc[b] = from /\ Quiet
        /\ IF listed = Invalid \/ ~inspect_source(listed) THEN Raise(b)
           ELSE /\ expected' = [expected EXCEPT ![b] = listed]
                /\ Reads(b, DOMAIN listed)
                /\ Goto(b, to)
                /\ UNCHANGED <<files, hash, settled>>

VerifySource(b, from, to) ==
    /\ pc[b] = from /\ Quiet
    /\ IF left[b] = <<>> THEN Goto(b, to) /\ UNCHANGED <<files, locals, settled>>
       ELSE IF ~stable_digest(Head(left[b]), expected[b]) THEN Raise(b)
       ELSE /\ left' = [left EXCEPT ![b] = Tail(@)]
            /\ UNCHANGED <<files, pc, expected, hash, settled>>

VerifyArchive(b, from, to, path) ==
    /\ pc[b] = from /\ Quiet
    /\ IF Exists(files, path) /\ verify_archive(files[path], expected[b])
       THEN Goto(b, to) /\ UNCHANGED <<files, locals, settled>>
       ELSE Raise(b)

VerifyPartial(b) ==
    \/ VerifyAllowlist(b, "verify", "verify_source")
    \/ VerifySource(b, "verify_source", "verify_archive")
    \/ VerifyArchive(b, "verify_archive", "look_again", Partial)

\* A mutant of LookAgain: the output is not looked for a second time.
LookAgainNot(b) ==
    /\ pc[b] = "look_again" /\ Quiet
    /\ Goto(b, "replace") /\ UNCHANGED <<files, locals, settled>>

\* "output appeared during build; preserving verified partial"
LookAgain(b) ==
    /\ pc[b] = "look_again" /\ Quiet
    /\ IF b \notin Overwriting /\ Exists(files, Output) THEN Raise(b)
       ELSE Goto(b, "replace") /\ UNCHANGED <<files, locals, settled>>

\* A mutant of Publish: the published archive is not verified again.
ReplaceLast(b) ==
    /\ pc[b] = "replace" /\ Exists(files, Partial) /\ Quiet
    /\ files' = Replace(files, Partial, Output)
    /\ settled' = settled \cup {b}
    /\ Goto(b, "compare")
    /\ UNCHANGED locals

\* os.replace and the two fsync calls.
Publish(b) ==
    /\ pc[b] = "replace" /\ Quiet
    /\ IF ~Exists(files, Partial) THEN Raise(b)
       ELSE /\ files' = Replace(files, Partial, Output)
            /\ settled' = settled \cup {b}
            /\ Goto(b, "verify_again")
            /\ UNCHANGED locals

VerifyOutput(b) ==
    \/ VerifyAllowlist(b, "verify_again", "source_again")
    \/ VerifySource(b, "source_again", "archive_again")
    \/ VerifyArchive(b, "archive_again", "compare", Output)

\* The last check: the output is still what was digested as a partial.
CompareDigest(b) ==
    /\ pc[b] = "compare" /\ Quiet
    /\ Goto(b, IF Archive(Output) = hash[b] THEN "done" ELSE "raised")
    /\ UNCHANGED <<files, locals, settled>>

Kill(b) ==
    /\ pc[b] \notin Idle
    /\ Goto(b, "killed")
    /\ UNCHANGED <<world, files, locals, ghosts>>

-----------------------------------------------------------------------------
(* People.                                                                 *)

\* A source file is written or deleted, or another allowlist is put there.
Edit ==
    /\ edits < MaxEdits
    /\ edits' = edits + 1
    /\ \/ \E name \in Range(Names), data \in Contents \cup {Link} :
             source' = Put(source, name, data) /\ source' # source
          /\ UNCHANGED allowlist
       \/ \E name \in DOMAIN source : source' = Without(source, {name})
          /\ UNCHANGED allowlist
       \/ allowlist' \in Allowlists \ {allowlist} /\ UNCHANGED source
    /\ clean' = {} /\ settled' = {}
    /\ UNCHANGED <<files, pc, locals>>

\* A leftover is thrown away, once no builder is at work on it.
RemovePartial ==
    /\ Exists(files, Partial) /\ \A b \in Builders : pc[b] \notin Holding
    /\ files' = Without(files, {Partial})
    /\ UNCHANGED <<world, pc, locals, ghosts>>

Builder(b) ==
    \/ Start(b) \/ Parse(b) \/ ReadAhead(b) \/ OpenPartial(b)
    \/ WriteMember(b) \/ ClosePartial(b) \/ Digest(b) \/ VerifyPartial(b)
    \/ LookAgain(b) \/ Publish(b) \/ VerifyOutput(b) \/ CompareDigest(b)
    \/ Kill(b)

Next == (\E b \in Builders : Builder(b)) \/ Edit \/ RemovePartial

Spec == Init /\ [][Next]_vars

-----------------------------------------------------------------------------
(* Properties.                                                             *)

\* The archive of a tree: the reference the verifier is held against.
Packed(tree) ==
    LET names == InOrder(DOMAIN tree)
    IN  [members |-> [i \in DOMAIN names |-> Member(names[i], tree[names[i]])],
         closed |-> TRUE, gap |-> FALSE, comment |-> FALSE]

(* Whatever is found under the output name is a whole archive of one valid *)
(* allowlist, although builders race, die half-way and leave partial files *)
(* (exclusive creation of the partial, verification before os.replace).    *)
PublishedIsAllowed ==
    Exists(files, Output) =>
        \E lines \in Allowlists :
            LET listed == parse_allowlist(lines)
            IN  listed # Invalid /\ files[Output] = Packed(listed)

(* A builder without --overwrite never replaces an output, not even one    *)
(* that appeared after it began.  The test and os.replace are two steps;   *)
(* what closes the gap is that only the holder of the partial can publish. *)
NeverReplacedUnasked ==
    [][\A b \in Builders \ Overwriting :
          pc[b] = "replace" /\ pc'[b] \notin {"replace", "killed"}
              => ~Exists(files, Output)]_vars

(* When a builder reports success and nothing was edited since it          *)
(* published, the output, the allowlist and the tree are the same files    *)
(* (the verifier's second pass and the comparison of digests).             *)
SuccessIsCurrent ==
    \A b \in Builders : pc[b] = "done" /\ b \in settled =>
        /\ Exists(files, Output) /\ files[Output] = Packed(source)
        /\ parse_allowlist(allowlist) = source

(* A build that nothing interferes with, of a tree that is as listed, is   *)
(* not refused: builder and verifier, which share no code, agree on every  *)
(* byte of the archive.                                                    *)
UnhinderedBuildSucceeds ==
    \A b \in clean : pc[b] # "raised"

\* An archive with one thing changed.
Changed(archive) ==
    LET members == archive.members
        At(i) == {[members[i] EXCEPT !.data = data] : data \in Contents}
                 \cup {[members[i] EXCEPT !.mode = mode] : mode \in {644, 755}}
                 \cup {[members[i] EXCEPT !.fixed = FALSE]}
        others == {Append(members, members[i]) : i \in DOMAIN members}
                  \cup {RemoveAt(members, i) : i \in DOMAIN members}
                  \cup {Reverse(members)}
                  \cup UNION {{[members EXCEPT ![i] = m] : m \in At(i)} :
                                 i \in DOMAIN members}
    IN  {[archive EXCEPT !.members = ms] : ms \in others}
            \cup {[archive EXCEPT !.gap = TRUE],
                  [archive EXCEPT !.comment = TRUE]}

(* The verifier accepts an archive exactly when it is byte for byte the    *)
(* one the builder would write for the allowlist: any other archive, a     *)
(* changed output or a leftover partial file is rejected.                  *)
AcceptsOnlyCanonical ==
    LET listed == parse_allowlist(allowlist)
    IN  listed # Invalid =>
          \A archive \in UNION {{files[p]} \cup Changed(files[p]) :
                                   p \in DOMAIN files} :
              verify_archive(archive, listed) <=> archive = Packed(listed)
=============================================================================
