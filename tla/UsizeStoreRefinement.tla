------------------------ MODULE UsizeStoreRefinement ------------------------
(***************************************************************************)
(* What each method of UsizePacketIdentifierStore does to the sets of      *)
(* identifiers in use, for every width of usize: whoever owns a store      *)
(* reasons with these facts instead of with bits.  Then the store on its   *)
(* own: any sequence of calls, each with the value it returns recorded in  *)
(* `ret`, and the proof that it is a PacketIdentifierStore.                *)
(***************************************************************************)
EXTENDS UsizePacketIdentifierStore, TLAPS

StoreOK == client_pis \in StoreType /\ NoStaleUsage

\* A new store is well formed and has no identifier in use.
LEMMA EmptyStoreOK ==
    client_pis = EmptyStore => StoreOK /\ InUse = {} /\ InUseForPublish = {}
BY DEF EmptyStore, StoreOK, StoreType, NoStaleUsage, InUse, InUseForPublish

\* The identifiers in use are those of the slots of a usize.
LEMMA InUseInRange ==
    StoreOK => /\ InUse \subseteq 1 .. USIZE_BITS
               /\ 1 .. USIZE_BITS \subseteq PacketIdentifiers
               /\ InUseForPublish \subseteq InUse
BY UsizeBitsAssumption
   DEF StoreOK, StoreType, BitIndices, PacketIdentifiers, InUse, InUseForPublish

\* get_next_free hands out an identifier that was free, and allocates it,
\* and nothing else, for the usage asked for.
LEMMA GetNextFreeSome ==
    ASSUME NEW u \in PacketIdentifierUsage, NEW id \in PacketIdentifiers,
           StoreOK, GetNextFree(u, id)
    PROVE  /\ StoreOK'
           /\ id \notin InUse
           /\ InUse' = InUse \cup {id}
           /\ InUseForPublish' = InUseForPublish \cup (IF u = "Publish" THEN {id} ELSE {})
<1>1. PICK bit \in 0 .. USIZE_BITS :
          /\ IsNextFree(bit)
          /\ client_pis' =
                [slots      |-> client_pis.slots \cup {bit},
                 is_publish |-> client_pis.is_publish \cup
                                   (IF u = "Publish" THEN {bit} ELSE {})]
          /\ id = bit + 1
    BY NoneAssumption DEF GetNextFree, PacketIdentifiers
<1>2. bit \in BitIndices /\ bit \notin client_pis.slots
    BY <1>1 DEF IsNextFree
<1>3. StoreOK'
    BY <1>1, <1>2 DEF StoreOK, StoreType, NoStaleUsage
<1>4. client_pis.slots \subseteq Int /\ client_pis.is_publish \subseteq client_pis.slots
    BY UsizeBitsAssumption DEF StoreOK, StoreType, BitIndices, NoStaleUsage
<1>5. id \notin InUse
    BY <1>1, <1>2, <1>4 DEF InUse
<1>6. InUse' = InUse \cup {id}
    BY <1>1 DEF InUse
<1>7. client_pis'.slots \cap client_pis'.is_publish =
          (client_pis.slots \cap client_pis.is_publish) \cup
              (IF u = "Publish" THEN {bit} ELSE {})
    BY <1>1, <1>2, <1>4
<1>8. InUseForPublish' = InUseForPublish \cup (IF u = "Publish" THEN {id} ELSE {})
    BY <1>1, <1>7 DEF InUseForPublish
<1> QED BY <1>3, <1>5, <1>6, <1>8

\* get_next_free returns None only from a full store, which it leaves alone.
LEMMA GetNextFreeNone ==
    ASSUME NEW u \in PacketIdentifierUsage, StoreOK, GetNextFree(u, None)
    PROVE  UNCHANGED client_pis /\ InUse = 1 .. USIZE_BITS
<1>1. BitIndices \subseteq client_pis.slots /\ UNCHANGED client_pis
    BY NoneAssumption, UsizeBitsAssumption DEF GetNextFree
<1>2. client_pis.slots = BitIndices
    BY <1>1 DEF StoreOK, StoreType
<1>3. \A id \in 1 .. USIZE_BITS : id - 1 \in BitIndices /\ id = (id - 1) + 1
    BY UsizeBitsAssumption DEF BitIndices
<1>4. 1 .. USIZE_BITS \subseteq InUse
    BY <1>2, <1>3 DEF InUse
<1> QED BY <1>1, <1>4, InUseInRange

\* release frees the identifier it is given, whatever its usage, and no other.
LEMMA ReleaseFrees ==
    ASSUME NEW id \in PacketIdentifiers, StoreOK, Release(id)
    PROVE  /\ StoreOK'
           /\ InUse' = InUse \ {id}
           /\ InUseForPublish' = InUseForPublish \ {id}
<1>1. /\ client_pis'.slots = client_pis.slots \ {id - 1}
      /\ client_pis'.is_publish = client_pis.is_publish \ {id - 1}
    BY DEF Release
<1>2. StoreOK'
    BY DEF Release, StoreOK, StoreType, NoStaleUsage
<1>3. client_pis.slots \subseteq Int /\ id \in Int
    BY UsizeBitsAssumption DEF StoreOK, StoreType, BitIndices, PacketIdentifiers
<1>4. InUse' = InUse \ {id}
    BY <1>1, <1>3 DEF InUse
<1>5. InUseForPublish' = InUseForPublish \ {id}
    BY <1>1, <1>3 DEF InUseForPublish
<1> QED BY <1>2, <1>4, <1>5

\* release_non_publish_slots keeps the publishes and frees everything else.
LEMMA ReleaseNonPublishSlotsFrees ==
    ASSUME StoreOK, ReleaseNonPublishSlots
    PROVE  /\ StoreOK'
           /\ InUse' = InUseForPublish
           /\ InUseForPublish' = InUseForPublish
<1>1. /\ client_pis'.slots = client_pis.slots \cap client_pis.is_publish
      /\ client_pis'.is_publish = client_pis.is_publish
      /\ client_pis' \in StoreType
    BY DEF ReleaseNonPublishSlots, StoreOK, StoreType
<1>2. StoreOK'
    BY <1>1 DEF StoreOK, NoStaleUsage
<1> QED BY <1>1, <1>2 DEF InUse, InUseForPublish

-----------------------------------------------------------------------------
VARIABLE ret

storeVars == <<client_pis, ret>>

StoreInit == client_pis = EmptyStore /\ ret = None

CallGetNextFree ==
    \E u \in PacketIdentifierUsage, id \in PacketIdentifiers \cup {None} :
        GetNextFree(u, id) /\ ret' = id

CallRelease ==
    \E id \in PacketIdentifiers : Release(id) /\ ret' = None

CallReleaseNonPublishSlots == ReleaseNonPublishSlots /\ ret' = None

CallContains ==
    \E id \in PacketIdentifiers :
        /\ ret' = IF Contains(id) THEN id ELSE None
        /\ UNCHANGED client_pis

StoreNext ==
    \/ CallGetNextFree
    \/ CallRelease
    \/ CallReleaseNonPublishSlots
    \/ CallContains

StoreSpec == StoreInit /\ [][StoreNext]_storeVars

-----------------------------------------------------------------------------
\* The masks only hold bits of a usize, and calls return identifiers.
StoreTypeOK ==
    /\ client_pis \in StoreType
    /\ ret \in PacketIdentifiers \cup {None}

\* The table the two masks stand for.
UsageOf(store) ==
    [id \in 1 .. USIZE_BITS |->
        IF id - 1 \notin store.slots THEN "Free"
        ELSE IF id - 1 \in store.is_publish THEN "Publish" ELSE "NonPublish"]

Abstract ==
    INSTANCE PacketIdentifierStore
        WITH Slots <- 1 .. USIZE_BITS,
             usage <- UsageOf(client_pis)

(***************************************************************************)
(* The two masks implement the table of the trait: an identifier handed    *)
(* out was free, is in use for what was asked, comes back only when it or  *)
(* all non-publish slots are released, and None means that every slot is   *)
(* taken.                                                                  *)
(***************************************************************************)
ImplementsStore == Abstract!Spec

-----------------------------------------------------------------------------
\* The store's invariant: its type and NoStaleUsage, which needs only itself.
StoreInv == StoreTypeOK /\ NoStaleUsage

\* A new store satisfies it.
LEMMA StoreInvInit == StoreInit => StoreInv
BY EmptyStoreOK DEF StoreInit, StoreInv, StoreTypeOK, StoreOK

\* No call of the store falsifies it.
LEMMA StoreInvStep == StoreInv /\ [StoreNext]_storeVars => StoreInv'
<1> SUFFICES ASSUME StoreInv, [StoreNext]_storeVars PROVE StoreInv'
    OBVIOUS
<1> USE DEF StoreInv, StoreTypeOK, StoreOK
<1>1. CASE CallGetNextFree
  <2> PICK u \in PacketIdentifierUsage, id \in PacketIdentifiers \cup {None} :
          GetNextFree(u, id) /\ ret' = id
      BY <1>1 DEF CallGetNextFree
  <2>1. CASE id \in PacketIdentifiers
      BY <2>1, GetNextFreeSome
  <2>2. CASE id = None
      BY <2>2, GetNextFreeNone DEF NoStaleUsage
  <2> QED BY <2>1, <2>2
<1>2. CASE CallRelease
    BY <1>2, ReleaseFrees DEF CallRelease
<1>3. CASE CallReleaseNonPublishSlots
    BY <1>3, ReleaseNonPublishSlotsFrees DEF CallReleaseNonPublishSlots
<1>4. CASE CallContains
    BY <1>4 DEF CallContains, NoStaleUsage
<1>5. CASE UNCHANGED storeVars
    BY <1>5 DEF storeVars, NoStaleUsage
<1> QED BY <1>1, <1>2, <1>3, <1>4, <1>5 DEF StoreNext

(***************************************************************************)
(* get_next_free, release and release_non_publish_slots only ever leave    *)
(* bits of a usize in the masks, and get_next_free returns a valid         *)
(* identifier or None, for every width of usize.                           *)
(***************************************************************************)
THEOREM StoreTypeCorrect == StoreSpec => []StoreTypeOK
<1>1. StoreInv => StoreTypeOK
    BY DEF StoreInv
<1> QED BY StoreInvInit, StoreInvStep, <1>1, PTL DEF StoreSpec

\* No sequence of calls of the store leaves an is_publish bit without its slot.
THEOREM StoreHasNoStaleUsage == StoreSpec => []NoStaleUsage
<1>1. StoreInv => NoStaleUsage
    BY DEF StoreInv
<1> QED BY StoreInvInit, StoreInvStep, <1>1, PTL DEF StoreSpec

-----------------------------------------------------------------------------
\* Every call of the masks is the call of the table with the same name.
LEMMA StepRefines ==
    StoreInv /\ StoreInv' /\ [StoreNext]_storeVars => [Abstract!Next]_(Abstract!vars)
<1> SUFFICES ASSUME StoreInv, StoreInv', [StoreNext]_storeVars
             PROVE  Abstract!Next \/ UNCHANGED Abstract!vars
    OBVIOUS
<1> DEFINE table == UsageOf(client_pis)
<1> USE UsizeBitsAssumption DEF BitIndices
<1>0. /\ client_pis.slots \subseteq BitIndices
      /\ client_pis.is_publish \subseteq client_pis.slots
    BY DEF StoreInv, StoreTypeOK, NoStaleUsage, StoreType
<1>1. CASE CallGetNextFree
  <2> PICK u \in PacketIdentifierUsage, id \in PacketIdentifiers \cup {None} :
          GetNextFree(u, id) /\ ret' = id
      BY <1>1 DEF CallGetNextFree
  <2>1. CASE BitIndices \subseteq client_pis.slots /\ id = None /\ UNCHANGED client_pis
    <3>1. \A i \in 1 .. USIZE_BITS : table[i] # "Free"
      <4> TAKE i \in 1 .. USIZE_BITS
      <4>1. i - 1 \in client_pis.slots
          BY <2>1
      <4> QED BY <4>1 DEF UsageOf
    <3>2. UNCHANGED table
        BY <2>1 DEF UsageOf
    <3> QED BY <3>1, <3>2, <2>1 DEF Abstract!Next, Abstract!Exhausted, UsageOf
  <2>2. ASSUME NEW bit \in 0 .. USIZE_BITS,
               IsNextFree(bit),
               client_pis' =
                  [slots      |-> client_pis.slots \cup {bit},
                   is_publish |-> client_pis.is_publish \cup
                                     (IF u = "Publish" THEN {bit} ELSE {})],
               id = bit + 1
        PROVE  Abstract!Next
    <3>1. id \in 1 .. USIZE_BITS /\ bit = id - 1 /\ bit \notin client_pis.slots
        BY <2>2 DEF IsNextFree
    <3>2. table[id] = "Free"
        BY <3>1 DEF UsageOf
    <3>3. \A i \in 1 .. USIZE_BITS : table'[i] = IF i = id THEN u ELSE table[i]
      <4> TAKE i \in 1 .. USIZE_BITS
      <4>1. CASE i = id
          BY <4>1, <3>1, <2>2, <1>0 DEF UsageOf, PacketIdentifierUsage
      <4>2. CASE i # id
        <5>1. i - 1 # bit
            BY <4>2, <3>1
        <5> QED BY <5>1, <4>2, <2>2 DEF UsageOf
      <4> QED BY <4>1, <4>2
    <3>4. table' = [table EXCEPT ![id] = u]
        BY <3>3 DEF UsageOf
    <3>5. Abstract!GetNextFree(u, id)
        BY <3>1, <3>2, <3>4 DEF Abstract!GetNextFree, UsageOf
    <3> QED BY <3>1, <3>5 DEF Abstract!Next, Abstract!PacketIdentifierUsage, PacketIdentifierUsage
  <2> QED BY <2>1, <2>2 DEF GetNextFree
<1>2. CASE CallRelease
  <2> PICK id \in PacketIdentifiers : Release(id) /\ ret' = None
      BY <1>2 DEF CallRelease
  <2>1. id \in 1 .. USIZE_BITS
      BY DEF Release, ReleaseInRange, PacketIdentifiers
  <2>2. \A i \in 1 .. USIZE_BITS : table'[i] = IF i = id THEN "Free" ELSE table[i]
    <3> TAKE i \in 1 .. USIZE_BITS
    <3>1. CASE i = id
        BY <3>1, <2>1 DEF Release, UsageOf
    <3>2. CASE i # id
      <4>1. i - 1 # id - 1
          BY <3>2, <2>1
      <4> QED BY <4>1, <3>2 DEF Release, UsageOf
    <3> QED BY <3>1, <3>2
  <2>3. table' = [table EXCEPT ![id] = "Free"]
      BY <2>2, <2>1 DEF UsageOf
  <2>4. Abstract!Release(id)
      BY <2>1, <2>3 DEF Abstract!Release, UsageOf
  <2> QED BY <2>1, <2>4 DEF Abstract!Next
<1>3. CASE CallReleaseNonPublishSlots
  <2>1. /\ client_pis'.slots = client_pis.slots \cap client_pis.is_publish
        /\ client_pis'.is_publish = client_pis.is_publish
      BY <1>3 DEF CallReleaseNonPublishSlots, ReleaseNonPublishSlots,
                  StoreInv, StoreTypeOK, StoreType
  <2>2. table' = [id \in 1 .. USIZE_BITS |->
                     IF table[id] = "Publish" THEN "Publish" ELSE "Free"]
      BY <2>1, <1>0 DEF UsageOf
  <2>3. Abstract!ReleaseNonPublishSlots
      BY <2>2, <1>3 DEF Abstract!ReleaseNonPublishSlots, UsageOf, CallReleaseNonPublishSlots
  <2> QED BY <2>3 DEF Abstract!Next
<1>4. CASE CallContains
  <2> PICK id \in PacketIdentifiers :
          /\ ret' = IF Contains(id) THEN id ELSE None
          /\ UNCHANGED client_pis
      BY <1>4 DEF CallContains
  <2>1. Contains(id) <=> id \in 1 .. USIZE_BITS /\ table[id] # "Free"
      BY <1>0 DEF Contains, UsageOf, PacketIdentifiers
  <2>2. UNCHANGED table
      BY DEF UsageOf
  <2>3. Abstract!Contains(id)
      BY <2>1, <2>2 DEF Abstract!Contains, UsageOf
  <2> QED BY <2>3 DEF Abstract!Next
<1>5. CASE UNCHANGED storeVars
    BY <1>5 DEF storeVars, Abstract!vars
<1> QED BY <1>1, <1>2, <1>3, <1>4, <1>5 DEF StoreNext

(***************************************************************************)
(* UsizePacketIdentifierStore is a PacketIdentifierStore: with any number  *)
(* of bits, every call changes and returns what the trait's table says.    *)
(***************************************************************************)
THEOREM UsizeStoreImplementsStore == StoreSpec => ImplementsStore
<1>1. StoreInit => Abstract!Init
  <2> SUFFICES ASSUME StoreInit PROVE Abstract!Init
      OBVIOUS
  <2>1. client_pis.slots = {}
      BY DEF StoreInit, EmptyStore
  <2> QED BY <2>1 DEF StoreInit, Abstract!Init, UsageOf
<1> QED BY <1>1, StoreInvInit, StoreInvStep, StepRefines, PTL
        DEF StoreSpec, ImplementsStore, Abstract!Spec
=============================================================================
