---------------------------- MODULE MCResolution ----------------------------
(***************************************************************************)
(* Snapshots and scopes for the runs of Resolution.                        *)
(***************************************************************************)
EXTENDS Resolution

\* Documents of one, two or three chunks, and one that is not there.
Short == {<<x>> : x \in {0, 1, 4}}
Long == {<<x, y>> : x \in {0, 1, 4}, y \in {0, 1, 4}}
ThreeDocuments ==
    {<<a, b, c>> : a \in Short \cup Long, b \in {<<1>>, <<4>>, <<0, 4>>, <<4, 1, 1>>},
                   c \in {<< >>, <<0>>, <<4>>, <<1, 0>>}}
SomeScopes == {<<{1, 2, 3}, {}>>, <<{1, 2}, {}>>, <<{1, 2}, {3}>>, <<{1}, {2, 3}>>,
               <<{1, 2}, {2, 3}>>}

\* Two unlike documents of the set, and a third outside it.
TwoOfThree == {<< <<0>>, <<4>>, <<c>> >> : c \in {0, 1, 4}}
FirstTwo == {<<{1, 2}, {}>>}
=============================================================================
