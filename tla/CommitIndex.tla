----------------------------- MODULE CommitIndex -----------------------------
(***************************************************************************)
(* What a domain promises to those who read indexed commits, without       *)
(* datasets, versions, tags, caches, locks or processes.  A commit shows   *)
(* nothing until it is published; from then on it shows the same branch    *)
(* and the same rows, through crashes, failed requests and other pushes,   *)
(* until a client orders its branch or the domain to be deleted.  Nothing  *)
(* is promised of how much an order that fails has deleted.                *)
(***************************************************************************)
CONSTANTS Commit, Branch,
          Contents   \* what a commit may show: sets of rows

VARIABLES shown,     \* [Commit -> {} or the singleton of what it shows]
          orders     \* the deletions under way, each a set of branches

Entry == [branch : Branch, rows : Contents]
Orders == SUBSET SUBSET Branch

Init == shown = [c \in Commit |-> {}] /\ orders = {}

Publish(c, e) ==
    /\ shown[c] = {}
    /\ shown' = [shown EXCEPT ![c] = {e}]
    /\ orders' = orders

\* The order may end with this step.
Retract(order, gone) ==
    /\ \A c \in gone : \E e \in shown[c] : e.branch \in order
    /\ shown' = [c \in Commit |-> IF c \in gone THEN {} ELSE shown[c]]
    /\ orders' \in Orders

\* Orders come and go; a deletion may also be given up.
Order == shown' = shown /\ orders' \in Orders

Next ==
    \/ Order
    \/ \E c \in Commit : \E e \in Entry : Publish(c, e)
    \/ \E order \in orders, gone \in SUBSET Commit : Retract(order, gone)

Spec == Init /\ [][Next]_<<shown, orders>>
=============================================================================
