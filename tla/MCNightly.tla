------------------------------- MODULE MCNightly -------------------------------
EXTENDS Nightly

\* Packages 1 and 3 are from the bucket main, package 2 from winget.
MCHome == [i \in Ids |-> IF i = 2 THEN Winget ELSE "main"]

\* Two full crawls, one in which packages change or go, and one in which all go.
MCFeeds == {<<"old", "old", "new">>, <<"new", "listed", Refused>>,
            <<Refused, "new", Unlisted>>, <<Refused, Refused, Unlisted>>}

\* The old content has two installers, the new one another and one of them; what is
\* listed differs from the old one in its lists alone.
MCOffers == [c \in Contents |-> IF c = "new" THEN {2, 3} ELSE {1, 2}]
MCTrimmed == [c \in Contents |-> IF c = "listed" THEN "old" ELSE c]
================================================================================
