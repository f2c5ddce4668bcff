------------------------------ MODULE MCSearch ------------------------------
(***************************************************************************)
(* Values for the constants of Search: three commits, three documents of   *)
(* one to three chunks, and the requests of each run.                      *)
(***************************************************************************)
EXTENDS Search

CONSTANTS main, feature

\* Commit 1 adds two documents, 2 changes one, 3 deletes the other and adds
\* a third.
ThreeCommits ==
    << [del |-> {}, add |-> {1, 2}],
       [del |-> {1}, add |-> {1}],
       [del |-> {2}, add |-> {3}] >>

\* The rows that exist, with their chunks: nearest to the text first.
TextRanking == << <<1, 1>>, <<2, 1>>, <<1, 1>>, <<1, 2>>, <<1, 1>>, <<1, 2>>,
                  <<1, 2>>, <<3, 3>>, <<3, 3>>, <<2, 1>> >>
\* Full-text matches: document 2 first.
TextMatches == << <<2, 1>>, <<2, 1>>, <<1, 2>>, <<3, 3>>, <<1, 1>> >>

TextOnly == [p \in Row \cup {Text} |-> TextRanking]

Ancestors(c) == [i \in 1 .. (c - 1) |-> c - i]
Read(op, b, c, w, start, count, d) ==
    [op |-> op, path |-> b, branch |-> b, commit |-> c, window |-> w,
     start |-> start, count |-> count, doc |-> d]

\* Pages of one or two documents of an indexed or a lagging commit, by commit
\* or by branch, on a branch with and without lineage, and what /similar and
\* /embeddings ask.
SearchRequests ==
    {Read(op, main, 3, Ancestors(3), start, 2 - start, 1) :
        op \in {"vector", "fts"}, start \in 0 .. 1}
    \cup {Read("vector", main, 2, Ancestors(2), 0, 1, 1)}
    \cup {Read("hybrid", main, 3, Ancestors(3), 0, 3, 1),
          Read("vector", main, None, << >>, 0, 1, 1),
          [Read("vector", main, None, << >>, 0, 1, 1) EXCEPT !.branch = feature],
          Read("vector", feature, 3, Ancestors(3), 0, 1, 1),
          Read("vector", main, 3, <<1>>, 2, 1, 1),
          Read("embeddings", main, 2, << >>, 0, 1, 1),
          Read("similar", main, 3, Ancestors(3), 0, 1, 2),
          Read("similar", feature, 1, << >>, 0, 1, 1)}

\* Commit 2 changes document 1: it resembled 2 before, and resembles 3 now.
ChangeOne == << [del |-> {}, add |-> {1, 2, 3}], [del |-> {1}, add |-> {1}] >>
Resemblance ==
    [p \in Row \cup {Text} |->
        << <<1, 1>>, <<1, 2>> >>
        \o (IF p = <<1, 2>> THEN << <<3, 1>>, <<2, 1>> >>
                            ELSE << <<2, 1>>, <<3, 1>> >>)]
SimilarRequests == {Read("similar", main, 1, << >>, 0, 1, 1)}
NoMatches == << >>
=============================================================================
