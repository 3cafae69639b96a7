------------------------------ MODULE MCArchive ------------------------------
(* One builder with --overwrite and one without; names that collide under  *)
(* casefold, a name that is reserved, and a suffix in capitals.            *)
EXTENDS Archive

NamesDef == <<"B.md", "NUL", "a.PY", "b.md">>
PortableDef == {"B.md", "a.PY", "b.md"}
FoldDef == [name \in Range(NamesDef) |-> IF name = "B.md" THEN "b.md" ELSE name]
SuffixDef == [name \in Range(NamesDef) |->
                 CASE name = "a.PY" -> ".PY" [] name = "NUL" -> "" [] OTHER -> ".md"]

\* Two releases, and allowlists with each kind of mistake.
AllowlistsDef ==
    {<<<<"a.PY", 1>>, <<"b.md", 1>>>>,
     <<<<"a.PY", 1>>, <<"b.md", 2>>>>,
     <<<<"b.md", 1>>, <<"a.PY", 1>>>>,
     <<<<"a.PY", 1>>, <<"a.PY", 2>>>>,
     <<<<"B.md", 1>>, <<"b.md", 1>>>>,
     <<<<"NUL", 1>>, <<"a.PY", 1>>>>,
     <<>>}
=============================================================================
