------------------------------ MODULE MCReads ------------------------------
(***************************************************************************)
(* The requests that need vectors: commit resolution and search (Search),  *)
(* the embedding client (Embedding), duplicates, candidates and the stream *)
(* of embeddings (Resolution).  The three have no state in common, so that *)
(* a behaviour runs one of them, its part, and leaves the others as they   *)
(* were.                                                                   *)
(***************************************************************************)
EXTENDS MCSearch, Embedding, MCResolution

VARIABLE part

ReadsInit ==
    /\ part \in {"search", "embed", "scan"}
    /\ Init /\ EmbInit /\ ResInit
    /\ part # "embed" => slot1 = "plain" /\ slot2 = "plain"
    /\ part # "scan" => corpus = CHOOSE c \in Corpora : TRUE

ReadsNext ==
    /\ UNCHANGED part
    /\ \/ part = "search" /\ Next /\ UNCHANGED <<embVars, resVars>>
       \/ part = "embed" /\ EmbNext /\ UNCHANGED <<vars, resVars>>
       \/ part = "scan" /\ ResNext /\ UNCHANGED <<vars, embVars>>

ReadsSpec == ReadsInit /\ [][ReadsNext]_<<part, vars, embVars, resVars>>

\* Type correctness of the three components.
ReadsTypeOK == ReadTypeOK /\ EmbTypeOK /\ ResTypeOK

\* Token 9 makes the provider reject a request; 7 ends inside a character, and
\* chunks of the first document begin or end there.
TwoPushes == {<< <<1, 7, 1, 1>>, <<9>>, <<7, 1>> >>, << <<2>>, <<7, 1>> >>}
OneQuestion == {<<2>>}
CallerSymmetry == Permutations(Callers)
=============================================================================
