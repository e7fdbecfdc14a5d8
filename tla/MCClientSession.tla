-------------------------- MODULE MCClientSession --------------------------
EXTENDS ClientSession

MCFxHash == [id \in ClientIdentifiers |-> IF id = "b" THEN 1 ELSE 0]
=============================================================================
