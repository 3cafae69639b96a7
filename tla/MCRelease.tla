------------------------------ MODULE MCRelease ------------------------------
(* Article builders, which are interchangeable, and one rebuild.           *)
EXTENDS Release

Interchangeable == Permutations(Builders)

\* How a builder is called in each phase, and with the options mixed up.
PreDoi == Defaults
Final == [Defaults EXCEPT !.phase = "final", !.expected_article_doi = "doi"]
PreDoiWithDoi == [Defaults EXCEPT !.expected_article_doi = "doi"]
FinalWithoutDoi == [Defaults EXCEPT !.phase = "final"]
OtherPages == [Defaults EXCEPT !.expected_pages = 14]

TwoPhases == {PreDoi, Final}
AllArguments == {PreDoi, Final, PreDoiWithDoi, FinalWithoutDoi, OtherPages}

\* The files of a release, and one more or one less.
ThreeLists == {REQUIRED, REQUIRED \cup {Stray}, REQUIRED \ {Doc}}
AllLists == {REQUIRED} \cup {REQUIRED \cup {path} : path \in Added}
            \cup {REQUIRED \ {path} : path \in Removed}
=============================================================================
