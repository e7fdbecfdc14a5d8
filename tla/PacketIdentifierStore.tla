----------------------- MODULE PacketIdentifierStore -----------------------
(***************************************************************************)
(* What the trait PacketIdentifierStore promises its user: a table that    *)
(* says, for every identifier the store manages, whether it is free or     *)
(* what it is in use for.  Which free identifier is handed out is left     *)
(* open.  `ret` is the value the last call returned (None for ()).         *)
(***************************************************************************)
CONSTANTS Slots,             \* the identifiers the store manages
          PacketIdentifiers, \* every value of the NonZeroU16 PacketIdentifier
          None               \* Option::None

VARIABLES usage, ret

PacketIdentifierUsage == {"Publish", "NonPublish"}

vars == <<usage, ret>>

Init == usage = [id \in Slots |-> "Free"] /\ ret = None

\* get_next_free returns a free identifier, now in use for u ...
GetNextFree(u, id) ==
    /\ id \in Slots /\ usage[id] = "Free"
    /\ usage' = [usage EXCEPT ![id] = u]
    /\ ret' = id

\* ... and None only when there is none.
Exhausted ==
    /\ \A id \in Slots : usage[id] # "Free"
    /\ ret' = None
    /\ UNCHANGED usage

Release(id) ==
    /\ id \in Slots
    /\ usage' = [usage EXCEPT ![id] = "Free"]
    /\ ret' = None

ReleaseNonPublishSlots ==
    /\ usage' = [id \in Slots |->
                    IF usage[id] = "Publish" THEN "Publish" ELSE "Free"]
    /\ ret' = None

\* contains returns the identifier itself for true and None for false.
Contains(id) ==
    /\ ret' = IF id \in Slots /\ usage[id] # "Free" THEN id ELSE None
    /\ UNCHANGED usage

Next ==
    \/ \E u \in PacketIdentifierUsage, id \in Slots : GetNextFree(u, id)
    \/ Exhausted
    \/ \E id \in Slots : Release(id)
    \/ ReleaseNonPublishSlots
    \/ \E id \in PacketIdentifiers : Contains(id)

Spec == Init /\ [][Next]_vars
=============================================================================
