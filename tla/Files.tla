-------------------------------- MODULE Files --------------------------------
(***************************************************************************)
(* A file system as the tools use it: a function from the paths that exist *)
(* to their contents.  A directory is a path like another.  os.replace is  *)
(* atomic, and a file opened with mode "x" or a directory made with mkdir  *)
(* fails if the path exists.  The digest of a content is the content.      *)
(***************************************************************************)
EXTENDS TLC, Functions

NoFiles == [path \in {} |-> {}]
Exists(fs, path) == path \in DOMAIN fs
Put(fs, path, content) ==
    [p \in DOMAIN fs \cup {path} |-> IF p = path THEN content ELSE fs[p]]
Without(fs, paths) == Restrict(fs, DOMAIN fs \ paths)

\* os.replace(from, to)
Replace(fs, from, to) == Put(Without(fs, {from}), to, fs[from])
=============================================================================
