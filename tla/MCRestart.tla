----------------------------- MODULE MCRestart -----------------------------
(***************************************************************************)
(* What survives a process: the indexed commits of one domain, over        *)
(* crashes and restarts (DomainStore), and the data directory that         *)
(* processes start on and stop on (Lifecycle).  The two have no state in   *)
(* common; a behaviour runs one part.                                      *)
(***************************************************************************)
EXTENDS MCDomainStore, Lifecycle

CONSTANTS j1, j2, x1, x2   \* jobs and domains
VARIABLE part

\* Three environments that differ in a prefix or in slot 2; an empty directory,
\* one of before there was a lock file, one of before prefixes were recorded.
Plain == [model |-> "known", override |-> FALSE, model2 |-> Missing]
SomeEnvs == {Plain, [Plain EXCEPT !.override = TRUE], [Plain EXCEPT !.model2 = "other"]}
SomeStores ==
    {[params |-> NoFile, vectors |-> {}], [params |-> NoFile, vectors |-> {Space(Plain)}],
     [params |-> [NoFile EXCEPT !.model = "known"], vectors |-> {Space(Plain)}]}
OneDbEach == (j1 :> x1) @@ (j2 :> x2)

RestartInit ==
    /\ part \in {"domain", "starts", "stops"}
    /\ Init /\ LifeInit
    /\ part # "starts" => params # NoFile

\* "starts" varies what processes are started with, "stops" what they do until
\* they end, with one start fewer.
RestartNext ==
    /\ UNCHANGED part
    /\ \/ part = "domain" /\ Next /\ UNCHANGED lifeVars
       \/ part = "starts" /\ LifeNext(Envs, BOOLEAN, {j1}, {FALSE}) /\ UNCHANGED vars
       \/ part = "stops" /\ LifeNext({Plain}, {TRUE}, Job, {TRUE}) /\ UNCHANGED vars
                            /\ past'.boots < MaxBoots

RestartSpec == RestartInit /\ [][RestartNext]_<<part, vars, lifeVars>>

RestartSymmetry == PushSymmetry \cup Permutations(Proc)
=============================================================================
