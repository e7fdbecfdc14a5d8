------------------------------ MODULE MCTopic ------------------------------
EXTENDS Topic

MCBytes == [level \in Paths \cup {Joined, Invalid} |-> IF level \in {"a", "/"} THEN 1 ELSE 2]
=============================================================================
