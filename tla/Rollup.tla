------------------------------- MODULE Rollup -------------------------------
(***************************************************************************)
(* The arithmetic of index segments (rollup.rs): which pushes are          *)
(* boundaries, how many merges a boundary push runs, and which segments of *)
(* an index one merge takes.                                               *)
(***************************************************************************)
EXTENDS Naturals, Sequences

Base == 3              \* of boundaries and of the cascade

should_index_commit(position) == (position + 1) % Base = 0

merges_needed[n \in Nat] ==
    IF n > 0 /\ n % Base = 0 THEN 1 + merges_needed[n \div Base] ELSE 0

\* optimize_indices(merge(n)): the n newest segments become one.
Newest(s, n) == IF Len(s) > n THEN SubSeq(s, Len(s) - n + 1, Len(s)) ELSE s
Older(s, n) == SubSeq(s, 1, Len(s) - Len(Newest(s, n)))
=============================================================================
