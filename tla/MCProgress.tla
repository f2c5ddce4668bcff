----------------------------- MODULE MCProgress -----------------------------
(***************************************************************************)
(* What must happen: the pushes of one domain (DomainStore), and the body  *)
(* of one of them on its way through the channels (PushIngest).  The two   *)
(* have no state in common; a behaviour runs one part, and the server is   *)
(* fair to that part.                                                      *)
(***************************************************************************)
EXTENDS MCDomainStore, MCPushIngest

VARIABLE part

ProgressInit ==
    /\ part \in {"domain", "body"} /\ Init /\ IngInit
    /\ part = "domain" => lines = (CHOOSE b \in Bodies : TRUE) /\ streaming /\ declared

ProgressNext ==
    /\ UNCHANGED part
    /\ \/ part = "domain" /\ Next /\ UNCHANGED ingVars
       \/ part = "body" /\ IngNext /\ UNCHANGED vars

\* The fairness of FairSpec and of IngSpec, each for its part.
Pushing(A) == part = "domain" /\ Alone(A)
Reading(A) == part = "body" /\ A

ProgressSpec ==
    /\ ProgressInit /\ [][ProgressNext]_<<part, vars, ingVars>>
    /\ \A p \in Push : /\ WF_vars(Pushing(PushStep(p)))
                        /\ SF_vars(Pushing(Fork(p)))
                        /\ SF_vars(Pushing(Open(p)))
    /\ WF_ingVars(Reading(ReaderTask)) /\ WF_ingVars(Reading(PipelineTask))
=============================================================================
