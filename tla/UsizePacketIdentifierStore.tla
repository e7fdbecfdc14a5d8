--------------------- MODULE UsizePacketIdentifierStore ---------------------
(***************************************************************************)
(* UsizePacketIdentifierStore: two usize bit masks.  A mask is the set of  *)
(* the indices of its one bits; identifier n is bit n - 1.  The methods    *)
(* are actions on client_pis, so that the client state machine, which owns *)
(* the store, uses them as conjuncts of its own actions.                   *)
(***************************************************************************)
EXTENDS Integers

CONSTANTS USIZE_BITS,            \* usize::BITS
          MAX_PACKET_IDENTIFIER, \* u16::MAX
          None                   \* Option::None

\* The `expect` of get_next_free: bit_index + 1 fits a NonZeroU16.
ASSUME UsizeBitsAssumption ==
    /\ USIZE_BITS \in Nat \ {0}
    /\ MAX_PACKET_IDENTIFIER \in Nat
    /\ USIZE_BITS <= MAX_PACKET_IDENTIFIER

\* None is not a packet identifier (the niche of NonZeroU16).
ASSUME NoneAssumption == None \notin Int

VARIABLE client_pis

PacketIdentifierUsage == {"Publish", "NonPublish"}
PacketIdentifiers == 1 .. MAX_PACKET_IDENTIFIER
BitIndices == 0 .. USIZE_BITS - 1

EmptyStore == [slots |-> {}, is_publish |-> {}]

StoreType == [slots : SUBSET BitIndices, is_publish : SUBSET BitIndices]

-----------------------------------------------------------------------------
\* Mutant: the loop runs to usize::BITS inclusive.
IsNextFreeInclusive(bit) ==
    /\ bit \in 0 .. USIZE_BITS
    /\ bit \notin client_pis.slots
    /\ \A lower \in 0 .. bit - 1 : lower \in client_pis.slots

\* Mutant: the occupied-slot test is inverted for the highest bit.
IsNextFreeIgnoresSlots(bit) ==
    /\ bit \in BitIndices
    /\ bit \notin client_pis.slots \/ bit = USIZE_BITS - 1
    /\ \A lower \in 0 .. bit - 1 : lower \in client_pis.slots

\* The loop over the bits stops at the lowest one that is zero in slots.
IsNextFree(bit) ==
    /\ bit \in BitIndices
    /\ bit \notin client_pis.slots
    /\ \A lower \in 0 .. bit - 1 : lower \in client_pis.slots

\* get_next_free(u) returns id.
GetNextFree(u, id) ==
    \/ \E bit \in 0 .. USIZE_BITS :
          /\ IsNextFree(bit)
          /\ client_pis' =
                [slots      |-> client_pis.slots \cup {bit},
                 is_publish |-> client_pis.is_publish \cup
                                   (IF u = "Publish" THEN {bit} ELSE {})]
          /\ id = bit + 1
    \/ /\ BitIndices \subseteq client_pis.slots
       /\ id = None
       /\ UNCHANGED client_pis

\* The assertion release starts with.
ReleaseInRange(id) == id - 1 < USIZE_BITS

\* Mutant: only the slot is cleared.
ReleaseKeepsUsage(id) ==
    /\ ReleaseInRange(id)
    /\ client_pis' = [client_pis EXCEPT !.slots = @ \ {id - 1}]

Release(id) ==
    /\ ReleaseInRange(id)
    /\ client_pis' = [slots      |-> client_pis.slots \ {id - 1},
                      is_publish |-> client_pis.is_publish \ {id - 1}]

\* Mutant: everything goes.
ReleaseAllSlots == client_pis' = EmptyStore

ReleaseNonPublishSlots ==
    client_pis' = [client_pis EXCEPT
                      !.slots = client_pis.slots \cap client_pis.is_publish]

Contains(id) == id - 1 < USIZE_BITS /\ id - 1 \in client_pis.slots

-----------------------------------------------------------------------------
\* The identifiers in use, and those of them in use for a publish.
InUse == {bit + 1 : bit \in client_pis.slots}
InUseForPublish == {bit + 1 : bit \in client_pis.slots \cap client_pis.is_publish}

(***************************************************************************)
(* No bit of is_publish survives the slot it describes.  get_next_free     *)
(* only ever adds to is_publish, so a stale bit would turn the slot's next *)
(* use, whatever it is for, into a publish that reset_connection keeps     *)
(* forever.                                                                *)
(***************************************************************************)
NoStaleUsage == client_pis.is_publish \subseteq client_pis.slots
=============================================================================
