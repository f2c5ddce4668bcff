---------------------------- MODULE MCPushIngest ----------------------------
(***************************************************************************)
(* Bodies for the runs of PushIngest.                                      *)
(***************************************************************************)
EXTENDS PushIngest

CONSTANTS doc1, doc2, doc3   \* documents

L(op, d, wide) == [op |-> op, doc |-> d, wide |-> wide]

\* Three documents in two micro-batches; an insert beside a deletion, with a
\* multi-byte character and a render error; an aborted body; and a malformed
\* line between a changed document and a deletion.
MixedBodies ==
    {<<L("Inserted", doc3, FALSE), L("Changed", doc1, FALSE), L("Inserted", doc2, FALSE)>>,
     <<L("Inserted", doc2, TRUE), L("Error", NoDoc, FALSE), L("Deleted", doc3, FALSE)>>,
     <<L("Changed", doc1, FALSE), L("blank", NoDoc, FALSE), L("Abort", NoDoc, FALSE)>>,
     <<L("Changed", doc1, FALSE), L("malformed", NoDoc, FALSE), L("Deleted", doc3, FALSE)>>}

\* Changed documents only: the first fills a micro-batch.
ChangedBodies == {<<L("Changed", doc1, FALSE), L("Changed", doc2, FALSE)>>}
=============================================================================
