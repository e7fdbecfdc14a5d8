---------------------------- MODULE AtLeastOnce ----------------------------
(***************************************************************************)
(* What QoS 1 promises for one direction of a session: a message the       *)
(* sender has accepted reaches the receiver, at least once, and only then  *)
(* does the sender forget it.                                              *)
(***************************************************************************)
CONSTANT Message

VARIABLES accepted,  \* the messages the sender took responsibility for
          received,  \* the messages that reached the receiver
          released   \* the messages the sender has forgotten again

vars == <<accepted, received, released>>

Init == accepted = {} /\ received = {} /\ released = {}

Accept(m) ==
    /\ m \notin accepted
    /\ accepted' = accepted \cup {m}
    /\ UNCHANGED <<received, released>>

Receive(m) ==
    /\ m \in accepted
    /\ received' = received \cup {m}
    /\ UNCHANGED <<accepted, released>>

Release(m) ==
    /\ m \in received
    /\ released' = released \cup {m}
    /\ UNCHANGED <<accepted, received>>

Next == \E m \in Message : Accept(m) \/ Receive(m) \/ Release(m)

Safety == Init /\ [][Next]_vars

\* Every accepted message is delivered, and the sender learns of it.
Spec == Safety /\ \A m \in Message : WF_vars(Receive(m)) /\ WF_vars(Release(m))
=============================================================================
