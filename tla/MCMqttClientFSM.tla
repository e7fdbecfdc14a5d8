-------------------------- MODULE MCMqttClientFSM --------------------------
EXTENDS MqttClientFSM

\* Three client identifiers, two of which collide.
MCFxHash == [id \in ClientIdentifiers |-> IF id = "c" THEN 1 ELSE 0]
=============================================================================
