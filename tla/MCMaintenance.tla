--------------------------- MODULE MCMaintenance ---------------------------
(***************************************************************************)
(* What runs behind the requests: the retagging of commits (Compaction),   *)
(* the index files (IndexFiles) and the shared tables (Tables).  These     *)
(* have no state in common, so that a behaviour runs one part and leaves   *)
(* the others as they were: interleaving them would multiply states and    *)
(* add no case.                                                            *)
(***************************************************************************)
EXTENDS MCCompaction, IndexFiles, Tables

VARIABLE part

Parts == {"retag", "index", "handles", "count", "tasks"}

MaintInit ==
    /\ part \in Parts
    /\ Init /\ IxInit /\ TabInit
    /\ (part = "index") = (segs # << >>)

\* A request for statistics is followed as long as it has a domain to count
\* exactly; without one it is a reader like any other.
Countable == stat'.pc = "idle" \/ ~(stat'.scope \subseteq unsure')

MaintNext ==
    /\ UNCHANGED part
    /\ \/ part = "retag" /\ Next /\ UNCHANGED <<ixVars, tabVars>>
       \/ part = "index" /\ IxNext /\ UNCHANGED <<vars, tabVars>>
       \/ part = "handles" /\ CacheNext /\ UNCHANGED <<vars, ixVars>>
       \/ part = "count" /\ CountNext /\ Countable /\ UNCHANGED <<vars, ixVars>>
       \/ part = "tasks" /\ TaskNext /\ UNCHANGED <<vars, ixVars>>

MaintSpec == MaintInit /\ [][MaintNext]_<<part, vars, ixVars, tabVars>>

\* Type correctness of the components.
MaintTypeOK == CompTypeOK /\ IxTypeOK /\ TabTypeOK
=============================================================================
