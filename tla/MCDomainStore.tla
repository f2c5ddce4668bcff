---------------------------- MODULE MCDomainStore ----------------------------
(***************************************************************************)
(* Values for the constants of DomainStore: the requests that clients may  *)
(* send in each run.  Clients choose among them freely, in any order, and  *)
(* may send the same request again.                                        *)
(***************************************************************************)
EXTENDS DomainStore, TLC

CONSTANTS main, feature,   \* branches
          c1, c2, c3,      \* commits
          d1               \* a document

PushReq(c, b, par, ins, chg, del, exp) ==
    [commit |-> c, branch |-> b, parent |-> par,
     ins |-> ins, chg |-> chg, del |-> del, expected |-> exp]
AdminReq(op, b, s, t) == [op |-> op, branch |-> b, source |-> s, target |-> t]

InsertC1 == PushReq(c1, main, None, {d1}, {}, {}, FALSE)

\* On main: c1 inserts the document, c2 changes it and declares its count.
InsertThenChange == {InsertC1, PushReq(c2, main, None, {}, {d1}, {}, TRUE)}

\* Two branches: feature forks from c1 or, if c1 is not indexed, from main.
MainAndFeature ==
    {InsertC1, PushReq(c2, feature, c1, {}, {d1}, {}, FALSE),
     PushReq(c3, main, None, {}, {}, {d1}, FALSE)}

\* One commit on main, which clients send again and again.
InsertOnly == {InsertC1}

\* Pushes that contend for main, one of them of a commit that is also pushed
\* to feature, which forks from main or fails.
Contention ==
    {InsertC1, PushReq(c2, main, None, {}, {d1}, {}, FALSE),
     PushReq(c2, feature, c1, {}, {}, {}, FALSE)}

ReadMain == {AdminReq("lastIndexed", main, c1, c1)}
AnyAdmin ==
    ReadMain \cup {AdminReq("assign", main, c1, c3),
                   AdminReq("deleteBranch", main, c1, c1),
                   AdminReq("deleteDomain", main, c1, c1)}

\* The requests of one life of the process.
RequestSpec == Init /\ [][RequestNext]_vars

PushSymmetry == Permutations(Push)
ActorSymmetry == Permutations(Push) \cup Permutations(Admin)
=============================================================================
