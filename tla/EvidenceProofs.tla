---------------------------- MODULE EvidenceProofs ----------------------------
(***************************************************************************)
(* Where evidence may lie, for any sets of players, areas and items and    *)
(* any capacities.                                                         *)
(*                                                                         *)
(* The safety of disabled inventories rests on NothingOrphaned: disabling  *)
(* empties the inventories of the registered, and only these hold items.   *)
(***************************************************************************)
EXTENDS Observer, FiniteSetTheorems, TLAPS

Tidy ==
  /\ EvidenceTypeOK
  /\ UnmanagedAreEmpty
  /\ DisabledAreEmpty
  /\ NothingOrphaned

LEMMA TidyInit == Init => Tidy
  BY EvidenceConstants
  DEF Init, Tidy, EvidenceTypeOK, UnmanagedAreEmpty, DisabledAreEmpty,
      NothingOrphaned, Items, Inventory

(* Whoever edits an inventory that is there sees to it that it is one that *)
(* may hold items.                                                         *)
LEMMA EditableMayHold ==
  ASSUME Tidy, NEW c \in Client, status[c] = "Active",
         NEW i \in Inventory, CanEdit(c, i)
  PROVE  IF i \in Area THEN owners[i] # {}
         ELSE enabled /\ i \in Registered
  BY DEF CanEdit, Inventory, Registered

(* Items that are discarded, or whose reveal mark changes, disturb nothing *)
(* unless an inventory stops being one that may hold items.                *)
LEMMA TidyLess ==
  ASSUME Tidy, EvidenceTypeOK',
         \A e \in Item : holder'[e] \in {holder[e], NoInventory},
         \A e \in Item :
           LET i == holder'[e] IN
             /\ i \in Area => owners'[i] # {}
             /\ i \in Client => enabled' /\ i \in Registered'
  PROVE  Tidy'
  BY EvidenceConstants
  DEF Tidy, EvidenceTypeOK, UnmanagedAreEmpty, DisabledAreEmpty,
      NothingOrphaned, Items, Inventory

(* New items in an inventory that may hold items disturb nothing. *)
LEMMA TidyPut ==
  ASSUME Tidy, UNCHANGED placeVars,
         NEW c \in Client, status[c] = "Active",
         NEW i \in Inventory, CanEdit(c, i),
         NEW gone \in SUBSET Item, NEW N \in SUBSET Item, NEW R \in SUBSET N,
         Put(gone, i, N, R)
  PROVE  Tidy'
<1>1. IF i \in Area THEN owners[i] # {} ELSE enabled /\ i \in Registered
  BY EditableMayHold
<1>2. EvidenceTypeOK'
  BY DEF Tidy, EvidenceTypeOK, Put, placeVars, Inventory
<1>3. \A e \in Item : holder'[e] \in {holder[e], NoInventory, i}
  BY DEF Put
<1> QED
  BY <1>1, <1>2, <1>3, EvidenceConstants
  DEF Tidy, EvidenceTypeOK, UnmanagedAreEmpty, DisabledAreEmpty, NothingOrphaned,
      Items, Inventory, Registered, placeVars

LEMMA TidyNext == Tidy /\ [Next]_evidenceVars => Tidy'
<1> SUFFICES ASSUME Tidy, [Next]_evidenceVars PROVE Tidy'
  OBVIOUS
<1> DEFINE Mayhold(e) == LET i == holder[e] IN
                           /\ i \in Area => owners[i] # {}
                           /\ i \in Client => enabled /\ i \in Registered
<1>0. \A e \in Item : Mayhold(e)
  BY DEF Tidy, EvidenceTypeOK, UnmanagedAreEmpty, DisabledAreEmpty, NothingOrphaned, Items
<1>1. ASSUME NEW c \in Client, Enter(c) \/ LoseSocket(c) \/ Recover(c)
      PROVE  Tidy'
  <2>1. EvidenceTypeOK'
    BY <1>1 DEF Tidy, EvidenceTypeOK, Enter, LoseSocket, Recover, itemVars
  <2>2. Registered \subseteq Registered' /\ UNCHANGED <<owners, enabled, holder>>
    BY <1>1 DEF Tidy, EvidenceTypeOK, Enter, LoseSocket, Recover, itemVars, Registered
  <2> QED
    BY <1>0, <2>1, <2>2, TidyLess
<1>2. ASSUME NEW c \in Client, Expire(c)
      PROVE  Tidy'
  <2>1. EvidenceTypeOK'
    BY <1>2 DEF Tidy, EvidenceTypeOK, Expire, Discard
  <2>2. Registered' = Registered /\ UNCHANGED enabled
    BY <1>2 DEF Tidy, EvidenceTypeOK, Expire, Registered, Live
  <2>3. \A e \in Item : holder'[e] = IF holder[e] \in LeftAlone(c) THEN NoInventory
                                     ELSE holder[e]
    BY <1>2 DEF Expire, Discard, In
  <2>4. \A a \in Area \ LeftAlone(c) : owners[a] # {} => owners'[a] # {}
    BY <1>2 DEF Expire, LeftAlone, Tidy, EvidenceTypeOK
  <2> QED
    BY <1>0, <2>1, <2>2, <2>3, <2>4, EvidenceConstants, TidyLess
<1>3. ASSUME NEW c \in Client, Remove(c)
      PROVE  Tidy'
  <2>1. EvidenceTypeOK'
    BY <1>3, EvidenceConstants DEF Tidy, EvidenceTypeOK, Remove, Discard
  <2>2. Registered' = Registered \ {c} /\ UNCHANGED <<owners, enabled>>
    BY <1>3 DEF Tidy, EvidenceTypeOK, Remove, Registered
  <2>3. \A e \in Item : holder'[e] = IF holder[e] = c THEN NoInventory ELSE holder[e]
    BY <1>3 DEF Remove, Discard, In
  <2> QED
    BY <1>0, <2>1, <2>2, <2>3, EvidenceConstants, TidyLess
<1>4. ASSUME NEW c \in Client, NEW a \in Area, ChangeArea(c, a)
      PROVE  Tidy'
  <2>1. EvidenceTypeOK'
    BY <1>4 DEF Tidy, EvidenceTypeOK, ChangeArea, itemVars
  <2>2. UNCHANGED <<status, owners, enabled, holder>>
    BY <1>4 DEF ChangeArea, itemVars
  <2> QED
    BY <1>0, <2>1, <2>2, TidyLess DEF Registered
<1>5. ASSUME NEW c \in Client, NEW a \in Area, AddOwner(c, a)
      PROVE  Tidy'
  <2>1. EvidenceTypeOK'
    BY <1>5 DEF Tidy, EvidenceTypeOK, AddOwner, itemVars
  <2>2. UNCHANGED <<status, enabled, holder>>
    BY <1>5 DEF AddOwner, itemVars
  <2>3. \A b \in Area : owners[b] \subseteq owners'[b]
    BY <1>5 DEF AddOwner, Tidy, EvidenceTypeOK
  <2> QED
    BY <1>0, <2>1, <2>2, <2>3, TidyLess DEF Registered
<1>6. ASSUME NEW c \in Client, NEW a \in Area, RemoveOwner(c, a)
      PROVE  Tidy'
  <2>1. EvidenceTypeOK'
    BY <1>6 DEF Tidy, EvidenceTypeOK, RemoveOwner, Discard
  <2>2. UNCHANGED <<status, enabled>>
    BY <1>6 DEF RemoveOwner
  <2>3. \A e \in Item : holder'[e] = IF holder[e] \in {a} \cap LeftAlone(c)
                                     THEN NoInventory ELSE holder[e]
    BY <1>6 DEF RemoveOwner, Discard, In
  <2>4. \A b \in Area \ ({a} \cap LeftAlone(c)) : owners[b] # {} => owners'[b] # {}
    BY <1>6 DEF RemoveOwner, LeftAlone, Tidy, EvidenceTypeOK
  <2> QED
    BY <1>0, <2>1, <2>2, <2>3, <2>4, EvidenceConstants, TidyLess DEF Registered
<1>7. CASE ToggleInventory
  <2>1. EvidenceTypeOK'
    BY <1>7 DEF Tidy, EvidenceTypeOK, ToggleInventory, Discard, itemVars
  <2>2. UNCHANGED <<status, owners>>
    BY <1>7 DEF ToggleInventory
  <2>3. CASE enabled
    <3>1. \A e \in Item : holder'[e] = IF holder[e] \in Registered THEN NoInventory
                                       ELSE holder[e]
      BY <1>7, <2>3 DEF ToggleInventory, Discard, In
    <3> QED
      BY <1>0, <2>1, <2>2, <3>1, EvidenceConstants, TidyLess DEF Registered
  <2>4. CASE ~enabled
    <3>1. enabled' /\ UNCHANGED holder
      BY <1>7, <2>4 DEF ToggleInventory, itemVars
    <3> QED
      BY <1>0, <2>1, <2>2, <3>1, TidyLess DEF Registered
  <2> QED
    BY <2>3, <2>4
<1>8. ASSUME NEW c \in Client, NEW i \in Inventory, NEW N \in SUBSET Item,
             NEW R \in SUBSET N, Append(c, i, N, R) \/ Replace(c, i, N, R)
      PROVE  Tidy'
  <2>1. CASE Append(c, i, N, R)
    BY <2>1, TidyPut, {} \in SUBSET Item DEF Append
  <2>2. CASE Replace(c, i, N, R)
    BY <2>2, TidyPut, Items(i) \in SUBSET Item DEF Replace, Items
  <2> QED
    BY <1>8, <2>1, <2>2
<1>9. ASSUME NEW c \in Client, NEW e \in Item,
             \/ RemoveEvidence(c, e)
             \/ UpdateEvidence(c, e)
             \/ Present(c, e)
             \/ PresentRecorded(c, e)
      PROVE  Tidy'
  <2>1. EvidenceTypeOK'
    BY <1>9 DEF Tidy, EvidenceTypeOK, RemoveEvidence, UpdateEvidence, Present,
                PresentRecorded, Reveal, Discard, placeVars
  <2>2. /\ UNCHANGED <<status, owners, enabled>>
        /\ \A f \in Item : holder'[f] \in {holder[f], NoInventory}
    BY <1>9 DEF RemoveEvidence, UpdateEvidence, Present, PresentRecorded, Reveal,
                Discard, placeVars
  <2> QED
    BY <1>0, <2>1, <2>2, EvidenceConstants, TidyLess DEF Registered
<1>10. CASE UNCHANGED evidenceVars
  <2>1. EvidenceTypeOK' /\ UNCHANGED <<status, owners, enabled, holder>>
    BY <1>10 DEF Tidy, EvidenceTypeOK, evidenceVars
  <2> QED
    BY <1>0, <2>1, TidyLess DEF Registered
<1> QED
  BY <1>1, <1>2, <1>3, <1>4, <1>5, <1>6, <1>7, <1>8, <1>9, <1>10 DEF Next

(* Capacities *)

LEMMA ItemsFinite ==
  ASSUME NEW i, NEW S, S \subseteq Items(i)
  PROVE  IsFiniteSet(Items(i)) /\ IsFiniteSet(S) /\ Cardinality(S) <= Cardinality(Items(i))
  BY EvidenceConstants, FS_Subset, Items(i) \in SUBSET Item DEF Items

LEMMA CapacityNext ==
  Tidy /\ CapacityHolds /\ [Next]_evidenceVars => CapacityHolds'
<1> SUFFICES ASSUME Tidy, CapacityHolds, [Next]_evidenceVars, NEW j \in Inventory
             PROVE  Cardinality(Items(j)') <= Capacity(j)
  BY DEF CapacityHolds, Capacity
<1>1. /\ Cardinality(Items(j)) <= Capacity(j)
      /\ Capacity(j) \in Nat
      /\ IsFiniteSet(Items(j)) /\ Cardinality(Items(j)) \in Nat
  BY EvidenceConstants, ItemsFinite, FS_CardinalityType DEF CapacityHolds, Capacity
<1>2. CASE Items(j)' \subseteq Items(j)
  <2>1. /\ IsFiniteSet(Items(j)')
        /\ Cardinality(Items(j)') <= Cardinality(Items(j))
    BY <1>1, <1>2, FS_Subset
  <2>2. Cardinality(Items(j)') \in Nat
    BY <2>1, FS_CardinalityType
  <2> QED
    BY <1>1, <2>1, <2>2
<1>3. ASSUME NEW c \in Client, NEW i \in Inventory, NEW N \in SUBSET Item,
             NEW R \in SUBSET N, Append(c, i, N, R)
      PROVE  Cardinality(Items(j)') <= Capacity(j)
  <2>1. CASE i # j
    BY <1>2, <1>3, <2>1 DEF Append, Put, Items
  <2>2. CASE i = j
    <3>1. Items(j)' = Items(j) \cup N /\ Items(j) \cap N = {}
      BY <1>3, <2>2, EvidenceConstants DEF Append, Put, Items, FreshItems, Inventory
    <3>2. IsFiniteSet(N) /\ Cardinality(N) \in Nat
      BY EvidenceConstants, FS_Subset, FS_CardinalityType
    <3>3. Cardinality(Items(j) \cup N)
            = Cardinality(Items(j)) + Cardinality(N) - Cardinality(Items(j) \cap N)
      BY <1>1, <3>2, FS_Union
    <3>4. Cardinality(Items(j) \cap N) = 0
      BY <3>1, FS_EmptySet
    <3>5. Cardinality(Items(j)) + Cardinality(N) <= Capacity(j)
      BY <1>3, <2>2 DEF Append
    <3> QED
      BY <1>1, <3>1, <3>2, <3>3, <3>4, <3>5
  <2> QED
    BY <2>1, <2>2
<1>4. ASSUME NEW c \in Client, NEW i \in Inventory, NEW N \in SUBSET Item,
             NEW R \in SUBSET N, Replace(c, i, N, R)
      PROVE  Cardinality(Items(j)') <= Capacity(j)
  <2>1. CASE i # j
    BY <1>2, <1>4, <2>1, EvidenceConstants DEF Replace, Put, Items, Inventory
  <2>2. CASE i = j
    <3>1. Items(j)' = N
      BY <1>4, <2>2, EvidenceConstants DEF Replace, Put, Items, Inventory
    <3> QED
      BY <1>4, <2>2, <3>1 DEF Replace
  <2> QED
    BY <2>1, <2>2
<1>5. ASSUME NEW c \in Client, NEW a \in Area,
             \/ Enter(c) \/ LoseSocket(c) \/ Recover(c) \/ Expire(c) \/ Remove(c)
             \/ ChangeArea(c, a) \/ AddOwner(c, a) \/ RemoveOwner(c, a)
      PROVE  Items(j)' \subseteq Items(j)
  BY <1>5, EvidenceConstants
  DEF Enter, LoseSocket, Recover, Expire, Remove, ChangeArea, AddOwner, RemoveOwner,
      Discard, itemVars, Items, Inventory
<1>6. ASSUME NEW c \in Client, NEW e \in Item,
             \/ RemoveEvidence(c, e) \/ UpdateEvidence(c, e)
             \/ Present(c, e) \/ PresentRecorded(c, e)
      PROVE  Items(j)' \subseteq Items(j)
  BY <1>6, EvidenceConstants
  DEF RemoveEvidence, UpdateEvidence, Present, PresentRecorded, Reveal, Discard, Items,
      Inventory
<1>7. ASSUME ToggleInventory \/ UNCHANGED evidenceVars
      PROVE  Items(j)' \subseteq Items(j)
  BY <1>7, EvidenceConstants
  DEF ToggleInventory, Discard, itemVars, evidenceVars, Items, Inventory
<1> QED
  BY <1>2, <1>3, <1>4, <1>5, <1>6, <1>7, EvidenceConstants DEF Next

(* From here on Tidy and Capacity hold in every behaviour of Evidence.     *)
LEMMA TidyAlways == Spec => [](Tidy /\ CapacityHolds)
<1>1. Init => CapacityHolds
  <2> SUFFICES ASSUME Init, NEW i \in Inventory
               PROVE  Cardinality(Items(i)) <= Capacity(i)
    BY DEF CapacityHolds
  <2>1. Items(i) = {}
    BY EvidenceConstants DEF Init, Items, Inventory
  <2> QED
    BY <2>1, FS_EmptySet, EvidenceConstants DEF Capacity
<1> QED
  BY <1>1, TidyInit, TidyNext, CapacityNext, PTL DEF Spec

(* An area without case managers holds no evidence, whichever way it lost  *)
(* them (Server, the handler of ownersChanged).                            *)
THEOREM EvidenceUnmanaged == Spec => []UnmanagedAreEmpty
  BY TidyAlways, PTL DEF Tidy

(* While personal inventories are disabled there is nothing in them        *)
(* (Server::setPersonalInventoriesEnabled).                                *)
THEOREM EvidenceDisabled == Spec => []DisabledAreEmpty
  BY TidyAlways, PTL DEF Tidy

(* Types, and no item outlives the registration of its holder              *)
(* (AOClientRegistry::remove).                                             *)
THEOREM EvidenceKept == Spec => [](EvidenceTypeOK /\ NothingOrphaned)
  BY TidyAlways, PTL DEF Tidy

(* No inventory exceeds its capacity (InventoryTransferPacket). *)
THEOREM EvidenceCapacity == Spec => []CapacityHolds
  BY TidyAlways, PTL

-----------------------------------------------------------------------------
(* The life of a client, as Session and Roster have it                     *)

lifeOf ==
  [c \in Client |-> IF status[c] \in {"Active", "Inactive"} THEN "Live" ELSE status[c]]

Lifecycle == INSTANCE ClientLifecycle WITH life <- lifeOf

LEMMA LifecycleStep ==
  ASSUME EvidenceTypeOK, [Next]_evidenceVars
  PROVE  [Lifecycle!Next]_lifeOf
<1> USE DEF EvidenceTypeOK, lifeOf
<1>1. ASSUME NEW c \in Client, Enter(c) PROVE Lifecycle!Enter(c)
  BY <1>1 DEF Enter, Lifecycle!Enter
<1>2. ASSUME NEW c \in Client, Expire(c) PROVE Lifecycle!Expire({c})
  BY <1>2 DEF Expire, Live, Lifecycle!Expire
<1>3. ASSUME NEW c \in Client, Remove(c) PROVE Lifecycle!Leave(c)
  BY <1>3 DEF Remove, Lifecycle!Leave
<1>4. ASSUME NEW c \in Client, LoseSocket(c) \/ Recover(c) PROVE UNCHANGED lifeOf
  BY <1>4 DEF LoseSocket, Recover
<1>5. ASSUME NEW c \in Client,
             \/ \E a \in Area : ChangeArea(c, a) \/ AddOwner(c, a) \/ RemoveOwner(c, a)
             \/ \E i \in Inventory, N \in SUBSET Item : \E R \in SUBSET N :
                  Append(c, i, N, R) \/ Replace(c, i, N, R)
             \/ \E e \in Item : \/ RemoveEvidence(c, e) \/ UpdateEvidence(c, e)
                                \/ Present(c, e) \/ PresentRecorded(c, e)
      PROVE  UNCHANGED lifeOf
  <2>1. UNCHANGED status
    BY <1>5 DEF ChangeArea, AddOwner, RemoveOwner, Append, Replace, RemoveEvidence,
                UpdateEvidence, Present, PresentRecorded, Reveal, placeVars
  <2> QED
    BY <2>1
<1>6. CASE ToggleInventory
  BY <1>6 DEF ToggleInventory
<1>7. CASE UNCHANGED evidenceVars
  BY <1>7 DEF evidenceVars
<1> HIDE DEF lifeOf
<1>8. ASSUME NEW c \in Client, Lifecycle!Expire({c}) PROVE Lifecycle!Next
  <2>1. {c} \in SUBSET Client
    OBVIOUS
  <2> QED
    BY <1>8, <2>1 DEF Lifecycle!Next
<1> QED
  BY <1>1, <1>2, <1>3, <1>4, <1>5, <1>6, <1>7, <1>8 DEF Next, Lifecycle!Next

(* The players that own evidence and watch it live as sessions and areas   *)
(* have it: they enter, expire once, never come back and leave.            *)
THEOREM EvidenceImplementsLifecycle == Spec => Lifecycle!Spec
<1>1. Init => Lifecycle!Init
  BY DEF Init, Lifecycle!Init, lifeOf
<1>2. EvidenceTypeOK /\ [Next]_evidenceVars => [Lifecycle!Next]_lifeOf
  BY LifecycleStep
<1>3. Tidy => EvidenceTypeOK
  BY DEF Tidy
<1> QED
  BY <1>1, <1>2, <1>3, TidyAlways, PTL DEF Spec, Lifecycle!Spec

-----------------------------------------------------------------------------
(* Screens *)

(* Observers only watch: whatever they ship, the evidence changes as       *)
(* Evidence says, so that all of the above holds of ObserverSpec.          *)
LEMMA ObserverStep == [ObserverNext]_vars => [Next]_evidenceVars
<1>1. ASSUME NEW c \in Client,
             \/ Entered(c) \/ LostSocket(c) \/ Recovered(c) \/ TakenOver(c)
             \/ Expired(c) \/ Removed(c)
      PROVE  [Next]_evidenceVars
  BY <1>1 DEF Entered, LostSocket, Recovered, TakenOver, Expired, Removed, Next
<1>2. ASSUME NEW c \in Client, NEW a \in Area,
             ChangedArea(c, a) \/ AddedOwner(c, a) \/ RemovedOwner(c, a)
      PROVE  Next
  BY <1>2 DEF ChangedArea, AddedOwner, RemovedOwner, Next
<1>3. ASSUME NEW c \in Client, NEW i \in Inventory, NEW N \in SUBSET Item,
             NEW R \in SUBSET N, Appended(c, i, N, R) \/ Replaced(c, i, N, R)
      PROVE  Next
  BY <1>3 DEF Appended, Replaced, Next
<1>4. ASSUME NEW c \in Client, NEW e \in Item,
             RemovedEvidence(c, e) \/ UpdatedEvidence(c, e) \/ Presented(c, e)
      PROVE  Next
  BY <1>4 DEF RemovedEvidence, UpdatedEvidence, Presented, Next
<1>5. ToggledInventory => Next
  BY DEF ToggledInventory, Next
<1>6. UNCHANGED vars => UNCHANGED evidenceVars
  BY DEF vars, evidenceVars
<1> QED
  BY <1>1, <1>2, <1>3, <1>4, <1>5, <1>6 DEF ObserverNext

THEOREM ObserverImplementsEvidence == ObserverSpec => Spec
<1>1. ObserverInit => Init
  BY DEF ObserverInit
<1> QED
  BY <1>1, ObserverStep, PTL DEF ObserverSpec, Spec

(* An observer has shipped what its client may see, and one that is gone   *)
(* has shipped nothing.                                                    *)
Cached ==
  /\ shipped \in [Client -> SUBSET Item]
  /\ \A c \in Client : shipped[c] = IF c \in Registered THEN VisibleItems(c) ELSE {}

(* What a client sees of an item depends on where players and the item are,*)
(* on case managers, on the switch for personal inventories and on whether *)
(* the item is revealed, and on nothing else.                              *)
LEMMA SameView ==
  ASSUME NEW c \in Client, NEW e \in Item,
         UNCHANGED <<Registered, area, owners, enabled>>,
         holder'[e] = holder[e], e \in revealed' <=> e \in revealed
  PROVE  e \in VisibleItems(c)' <=> e \in VisibleItems(c)
  BY DEF VisibleItems, Visible, CanEdit, CanView, Reachable

(* What Ship leaves in the caches. *)
LEMMA ShipCaches ==
  ASSUME NEW gone, NEW synced, NEW told, NEW joined, NEW left, NEW c \in Client,
         Ship(gone, synced, told, joined, left),
         joined = Registered' \ Registered
  PROVE  /\ shipped' = [d \in Client |-> shipped'[d]]
         /\ shipped'[c] = IF c \notin Registered' THEN {}
                          ELSE IF c \in Registered THEN Synchronized(c, gone, synced)
                          ELSE VisibleItems(c)'
<1>1. shipped' = [d \in Client |->
                    IF d \in Registered \cap Registered' THEN Synchronized(d, gone, synced)
                    ELSE IF d \in joined THEN VisibleItems(d)' ELSE {}]
  BY DEF Ship
<1>2. \A d \in Client :
        shipped'[d] = IF d \in Registered \cap Registered' THEN Synchronized(d, gone, synced)
                      ELSE IF d \in joined THEN VisibleItems(d)' ELSE {}
  BY <1>1
<1>3. shipped' = [d \in Client |-> shipped'[d]]
  BY <1>1
<1> QED
  BY <1>2, <1>3

(* A cache is right when, for each client that stays, the items that are   *)
(* not synchronized are those that were visible, are not unshipped and are *)
(* still visible.                                                          *)
LEMMA ShipKeepsCached ==
  ASSUME Cached,
         NEW gone, NEW synced, NEW told, NEW joined, NEW left,
         Ship(gone, synced, told, joined, left),
         joined = Registered' \ Registered,
         \A c \in Registered \cap Registered' : \A e \in Item \ synced :
           e \in VisibleItems(c)' <=> e \in VisibleItems(c) \ gone
  PROVE  Cached'
<1>1. ASSUME NEW c \in Client
      PROVE  shipped'[c] = IF c \in Registered' THEN VisibleItems(c)' ELSE {}
  <2>1. CASE c \in Registered \cap Registered'
    <3>1. shipped'[c] = ((VisibleItems(c) \ gone) \ synced) \cup (synced \cap VisibleItems(c)')
      BY <2>1, ShipCaches DEF Synchronized, Cached
    <3>2. VisibleItems(c) \subseteq Item /\ VisibleItems(c)' \subseteq Item
      BY DEF VisibleItems
    <3>3. \A e \in Item \ synced : e \in VisibleItems(c)' <=> e \in VisibleItems(c) \ gone
      BY <2>1
    <3> HIDE DEF VisibleItems
    <3> QED
      BY <2>1, <3>1, <3>2, <3>3
  <2>2. CASE c \notin Registered \cap Registered'
    BY <2>2, ShipCaches
  <2> QED
    BY <2>1, <2>2
<1>2. \A c \in Client : VisibleItems(c)' \subseteq Item
  BY DEF VisibleItems
<1>3. shipped' = [c \in Client |-> shipped'[c]]
  <2>1. CASE Client = {}
    BY <2>1, ShipCaches DEF Ship
  <2>2. CASE Client # {}
    BY <2>2, ShipCaches
  <2> QED
    BY <2>1, <2>2
<1>4. shipped' \in [Client -> SUBSET Item]
  BY <1>1, <1>2, <1>3
<1> QED
  BY <1>1, <1>4 DEF Cached

(* Synchronizing every item is enough if discarded items were unshipped.   *)
LEMMA ShipAll ==
  ASSUME Cached,
         NEW gone, NEW told, NEW joined, NEW left,
         Ship(gone, AllItems, told, joined, left),
         joined = Registered' \ Registered,
         \A e \in Item : holder[e] # NoInventory /\ holder'[e] = NoInventory => e \in gone
  PROVE  Cached'
<1>1. \A c \in Client : \A e \in Item \ AllItems :
        e \in VisibleItems(c)' <=> e \in VisibleItems(c) \ gone
  BY DEF VisibleItems, AllItems
<1>2. Registered \subseteq Client
  BY DEF Registered
<1> QED
  BY <1>1, <1>2, ShipKeepsCached

(* The observers that ship nothing need nothing. *)
LEMMA SameViewCached ==
  ASSUME Cached,
         UNCHANGED <<Registered, area, owners, enabled, holder, revealed>>,
         NoShipment
  PROVE  Cached'
<1>1. \A c \in Client : \A e \in Item : e \in VisibleItems(c)' <=> e \in VisibleItems(c)
  BY SameView
<1>2. Registered \subseteq Client
  BY DEF Registered
<1> QED
  BY <1>1, <1>2, ShipKeepsCached DEF NoShipment

(* While personal inventories are empty, nobody sees more or less when they*)
(* are enabled or disabled.                                                *)
LEMMA ToggleUnseen ==
  ASSUME Tidy, UNCHANGED <<Registered, area, owners, holder, revealed>>,
         \A e \in Item : holder[e] \notin Client,
         NEW c \in Client, NEW e \in Item
  PROVE  e \in VisibleItems(c)' <=> e \in VisibleItems(c)
<1>1. holder[e] \in Area \cup {NoInventory}
  BY DEF Tidy, EvidenceTypeOK, Inventory
<1> QED
  BY <1>1 DEF VisibleItems, Visible, CanEdit, CanView, Reachable

LEMMA CachedNext ==
  Tidy /\ Tidy' /\ Cached /\ [ObserverNext]_vars => Cached'
<1> SUFFICES ASSUME Tidy, Tidy', Cached, [ObserverNext]_vars
             PROVE  Cached'
  OBVIOUS
<1>1. ASSUME NEW c \in Client, Entered(c)
      PROVE  Cached'
  <2>1. {c} = Registered' \ Registered
    BY <1>1 DEF Entered, Enter, Registered, Tidy, EvidenceTypeOK
  <2>2. holder' = holder
    BY <1>1 DEF Entered, Enter, itemVars
  <2> QED
    BY <1>1, <2>1, <2>2, ShipAll DEF Entered
<1>2. ASSUME NEW c \in Client, LostSocket(c)
      PROVE  Cached'
  <2>1. UNCHANGED <<Registered, area, owners, enabled, holder, revealed>>
    BY <1>2 DEF LostSocket, LoseSocket, itemVars, Registered, Tidy, EvidenceTypeOK
  <2> QED
    BY <1>2, <2>1, SameViewCached DEF LostSocket
<1>3. ASSUME NEW c \in Client, Recovered(c)
      PROVE  Cached'
  <2>1. UNCHANGED <<Registered, area, owners, enabled, holder, revealed>> /\ c \in Registered
    BY <1>3 DEF Recovered, Recover, itemVars, Registered, Tidy, EvidenceTypeOK
  <2>2. \A d \in Client : VisibleItems(d)' = VisibleItems(d)
    BY <2>1 DEF VisibleItems, Visible, CanEdit, CanView, Reachable
  <2>3. \A d \in Client : VisibleItems(d) \subseteq Item
    BY DEF VisibleItems
  <2>4. shipped' = [shipped EXCEPT ![c] = VisibleItems(c)']
    BY <1>3 DEF Recovered, Resume
  <2> QED
    BY <2>1, <2>2, <2>3, <2>4 DEF Cached
<1>4. ASSUME NEW c \in Client, TakenOver(c)
      PROVE  Cached'
  <2>1. UNCHANGED <<status, area, owners, enabled, holder, revealed, shipped>>
    BY <1>4 DEF TakenOver, evidenceVars
  <2> QED
    BY <2>1 DEF Cached, Registered, VisibleItems, Visible, CanEdit, CanView, Reachable
<1>5. ASSUME NEW c \in Client, Expired(c)
      PROVE  Cached'
  <2>1. Registered' = Registered
    BY <1>5 DEF Expired, Expire, Registered, Live, Tidy, EvidenceTypeOK
  <2>2. CASE Managed(c) = {}
    <3>1. \A a \in Area : c \notin owners[a]
      BY <2>2 DEF Managed
    <3>2. UNCHANGED owners
      BY <1>5, <3>1 DEF Expired, Expire, Tidy, EvidenceTypeOK
    <3>3. LeftAlone(c) = {}
      BY <3>1 DEF LeftAlone
    <3>4. UNCHANGED <<area, enabled, holder, revealed>>
      BY <1>5, <3>3 DEF Expired, Expire, Discard, In, Tidy, EvidenceTypeOK
    <3> QED
      BY <1>5, <2>1, <2>2, <3>2, <3>4, SameViewCached DEF Expired
  <2>3. CASE Managed(c) # {}
    <3>1. \A e \in Item : holder[e] # NoInventory /\ holder'[e] = NoInventory
                            => e \in In(LeftAlone(c))
      BY <1>5 DEF Expired, Expire, Discard
    <3> QED
      BY <1>5, <2>1, <2>3, <3>1, ShipAll DEF Expired
  <2> QED
    BY <2>2, <2>3
<1>6. ASSUME NEW c \in Client, Removed(c)
      PROVE  Cached'
  <2>1. /\ Registered' = Registered \ {c} /\ UNCHANGED <<owners, enabled>>
        /\ \A d \in Client \ {c} : area'[d] = area[d]
    BY <1>6 DEF Removed, Remove, Registered, Tidy, EvidenceTypeOK
  <2>2. \A e \in Item : IF e \in In({c}) THEN holder'[e] = NoInventory
                        ELSE holder'[e] = holder[e] /\ (e \in revealed' <=> e \in revealed)
    BY <1>6 DEF Removed, Remove, Discard
  <2>3. ASSUME NEW d \in Registered', NEW e \in Item
        PROVE  e \in VisibleItems(d)' <=> e \in VisibleItems(d) \ In({c})
    <3>1. d \in Client \ {c}
      BY <2>1 DEF Registered
    <3>2. CASE e \in In({c})
      BY <2>2, <3>2 DEF VisibleItems
    <3>3. CASE e \notin In({c})
      <4>1. holder[e] # c
        BY <3>3 DEF In
      <4>2. \A i \in Registered \ {c} : area'[i] = area[i]
        BY <2>1 DEF Registered
      <4> QED
        BY <2>1, <2>2, <3>1, <3>3, <4>1, <4>2
        DEF VisibleItems, Visible, CanEdit, CanView, Reachable
    <3> QED
      BY <3>2, <3>3
  <2>4. {} = Registered' \ Registered
    BY <2>1
  <2>5. Ship(In({c}), {}, {c}, {}, {c})
    BY <1>6 DEF Removed
  <2> QED
    BY <2>3, <2>4, <2>5, ShipKeepsCached
<1>7. ASSUME NEW c \in Client, NEW a \in Area,
             ChangedArea(c, a) \/ AddedOwner(c, a) \/ RemovedOwner(c, a)
      PROVE  Cached'
  <2>1. Registered' = Registered
    BY <1>7 DEF ChangedArea, ChangeArea, AddedOwner, AddOwner, RemovedOwner, RemoveOwner,
                Registered
  <2>2. CASE ChangedArea(c, a)
    BY <2>1, <2>2, ShipAll DEF ChangedArea, ChangeArea, itemVars
  <2>3. CASE AddedOwner(c, a)
    BY <2>1, <2>3, ShipAll DEF AddedOwner, AddOwner, itemVars
  <2>4. CASE RemovedOwner(c, a)
    <3>1. \A e \in Item : holder[e] # NoInventory /\ holder'[e] = NoInventory
                            => e \in In({a} \cap LeftAlone(c))
      BY <2>4 DEF RemovedOwner, RemoveOwner, Discard
    <3> QED
      BY <2>1, <2>4, <3>1, ShipAll DEF RemovedOwner
  <2> QED
    BY <1>7, <2>2, <2>3, <2>4
<1>8. CASE ToggledInventory
  <2>1. UNCHANGED <<status, area, owners>> /\ Registered' = Registered
    BY <1>8 DEF ToggledInventory, ToggleInventory, Registered
  <2>2. CASE enabled /\ In(Registered) # {}
    <3>1. \A e \in Item : holder[e] # NoInventory /\ holder'[e] = NoInventory
                            => e \in In(Registered)
      BY <1>8, <2>2 DEF ToggledInventory, ToggleInventory, Discard
    <3> QED
      BY <1>8, <2>1, <2>2, <3>1, ShipAll DEF ToggledInventory
  <2>3. CASE ~(enabled /\ In(Registered) # {})
    <3>1. \A e \in Item : holder[e] \notin Client
      BY <2>3 DEF Tidy, DisabledAreEmpty, NothingOrphaned, Items, In
    <3>2. UNCHANGED <<holder, revealed>>
      BY <1>8, <2>3 DEF ToggledInventory, ToggleInventory, Discard, itemVars,
                        Tidy, EvidenceTypeOK
    <3>3. \A c \in Client : \A e \in Item :
            e \in VisibleItems(c)' <=> e \in VisibleItems(c)
      BY <2>1, <3>1, <3>2, ToggleUnseen
    <3>4. Ship({}, {}, Registered, {}, {})
      BY <1>8, <2>3 DEF ToggledInventory
    <3>5. Registered \subseteq Client
      BY DEF Registered
    <3> QED
      BY <2>1, <3>3, <3>4, <3>5, ShipKeepsCached
  <2> QED
    BY <2>2, <2>3
<1>9. ASSUME NEW c \in Client, NEW i \in Inventory, NEW N \in SUBSET Item,
             NEW R \in SUBSET N, Appended(c, i, N, R)
      PROVE  Cached'
  <2>1. UNCHANGED <<Registered, area, owners, enabled>>
    BY <1>9 DEF Appended, Append, placeVars, Registered
  <2>2. \A e \in Item \ N : holder'[e] = holder[e] /\ (e \in revealed' <=> e \in revealed)
    BY <1>9 DEF Appended, Append, Put
  <2>3. \A d \in Client : \A e \in Item \ N : e \in VisibleItems(d)' <=> e \in VisibleItems(d)
    BY <2>1, <2>2, SameView
  <2>4. Registered \subseteq Client
    BY DEF Registered
  <2> QED
    BY <1>9, <2>1, <2>3, <2>4, ShipKeepsCached DEF Appended
<1>10. ASSUME NEW c \in Client, NEW i \in Inventory, NEW N \in SUBSET Item,
              NEW R \in SUBSET N, Replaced(c, i, N, R)
       PROVE  Cached'
  <2>1. UNCHANGED Registered
    BY <1>10 DEF Replaced, Replace, placeVars, Registered
  <2>2. \A e \in Item : holder[e] # NoInventory /\ holder'[e] = NoInventory => e \in Items(i)
    BY <1>10, EvidenceConstants DEF Replaced, Replace, Put, Inventory
  <2>3. {} = Registered' \ Registered
    BY <2>1
  <2>4. Ship(Items(i), AllItems, {}, {}, {})
    BY <1>10 DEF Replaced
  <2> QED
    BY <2>2, <2>3, <2>4, ShipAll
<1>11. ASSUME NEW c \in Client, NEW e \in Item,
              RemovedEvidence(c, e) \/ UpdatedEvidence(c, e) \/ Presented(c, e)
       PROVE  Cached'
  <2>1. UNCHANGED <<Registered, area, owners, enabled>>
    BY <1>11 DEF RemovedEvidence, UpdatedEvidence, Presented, RemoveEvidence,
                 UpdateEvidence, Present, PresentRecorded, Reveal, placeVars, Registered
  <2>2. \A f \in Item \ {e} : holder'[f] = holder[f] /\ (f \in revealed' <=> f \in revealed)
    BY <1>11 DEF RemovedEvidence, UpdatedEvidence, Presented, RemoveEvidence,
                 UpdateEvidence, Present, PresentRecorded, Reveal, Discard
  <2>3. \A d \in Client : \A f \in Item \ {e} :
          f \in VisibleItems(d)' <=> f \in VisibleItems(d)
    BY <2>1, <2>2, SameView
  <2>4. Registered \subseteq Client
    BY DEF Registered
  <2>5. CASE RemovedEvidence(c, e)
    <3>1. holder'[e] = NoInventory
      BY <2>5 DEF RemovedEvidence, RemoveEvidence, Discard
    <3>2. \A d \in Client : e \notin VisibleItems(d)'
      BY <3>1 DEF VisibleItems
    <3> QED
      BY <2>1, <2>3, <2>4, <2>5, <3>2, ShipKeepsCached DEF RemovedEvidence
  <2>6. CASE UpdatedEvidence(c, e) \/ Presented(c, e)
    <3>1. Ship({}, {e}, {}, {}, {})
      BY <2>6 DEF UpdatedEvidence, Presented
    <3> QED
      BY <2>1, <2>3, <2>4, <3>1, ShipKeepsCached
  <2> QED
    BY <1>11, <2>5, <2>6
<1>12. CASE UNCHANGED vars
  <2>1. UNCHANGED <<status, area, owners, enabled, holder, revealed, shipped>>
    BY <1>12 DEF vars
  <2> QED
    BY <2>1 DEF Cached, Registered, VisibleItems, Visible, CanEdit, CanView, Reachable
<1> QED
  BY <1>1, <1>2, <1>3, <1>4, <1>5, <1>6, <1>7, <1>8, <1>9, <1>10, <1>11, <1>12
  DEF ObserverNext

(* What an observer remembers to have shipped is what its client may see,  *)
(* although several changes synchronize some items or none                 *)
(* (ClientGameObserver, its connections).                                  *)
THEOREM ObserverCaches == ObserverSpec => []CacheIsVisible
<1>1. ObserverInit => Tidy /\ Cached
  <2>1. ObserverInit => Cached
    BY DEF ObserverInit, Init, Cached, Registered
  <2> QED
    BY <2>1, TidyInit DEF ObserverInit
<1>2. Tidy /\ Cached /\ [ObserverNext]_vars => (Tidy /\ Cached)'
  BY TidyNext, CachedNext, ObserverStep
<1>3. Cached => CacheIsVisible
  BY DEF Cached, CacheIsVisible, Registered
<1> QED
  BY <1>1, <1>2, <1>3, PTL DEF ObserverSpec

-----------------------------------------------------------------------------
(* Pictures *)

(* What peers show is what a snapshot would; what waits for a peer is so.  *)
Shown ==
  /\ picture \in [Client -> SUBSET Fact]
  /\ queue \in [Client -> [add : SUBSET Fact, drop : SUBSET Fact]]
  /\ behind \subseteq Client
  /\ \A c \in Client :
       CASE status[c] = "Active" ->
              /\ picture[c] \subseteq Snapshot(c)
              /\ c \notin behind => picture[c] = Snapshot(c)
              /\ queue[c] = NoQueue
         [] status[c] = "Inactive" ->
              /\ picture[c] = {}
              /\ queue[c].add \subseteq Snapshot(c)
              /\ queue[c].drop \cap Snapshot(c) = {}
         [] OTHER -> picture[c] = {} /\ queue[c] = NoQueue

(* The kinds of facts are apart. *)
LEMMA FactKinds ==
  /\ \A e \in Item : \A x \in Inventory : e # Player(x) /\ e # Edit(x)
  /\ \A x, y : Player(x) # Edit(y)
  /\ \A x, y : Player(x) = Player(y) => x = y
  /\ \A x, y : Edit(x) = Edit(y) => x = y
<1>1. \A e \in Item : \A x \in Inventory : e # Player(x) /\ e # Edit(x)
  BY ObserverConstants
<1>2. /\ \A x, y : Player(x) # Edit(y)
      /\ \A x, y : Player(x) = Player(y) => x = y
      /\ \A x, y : Edit(x) = Edit(y) => x = y
  BY DEF Player, Edit
<1> QED
  BY <1>1, <1>2

LEMMA NoQueueType == NoQueue \in [add : SUBSET Fact, drop : SUBSET Fact]
  BY DEF NoQueue

LEMMA SnapshotFacts ==
  ASSUME NEW c \in Client
  PROVE  Snapshot(c) \subseteq Fact
<1>1. Registered \subseteq Client /\ Editable(c) \subseteq Inventory
      /\ VisibleItems(c) \subseteq Item
  BY DEF Registered, Editable, Inventory, VisibleItems
<1> QED
  BY <1>1 DEF Snapshot, Fact

(* What Ship tells a client that stays: the facts that are new to it or    *)
(* may be, and those that are no more.                                     *)
Asserts(c, told, joined) ==
  (shipped'[c] \ shipped[c]) \cup {Edit(i) : i \in told \cap Editable(c)'}
    \cup {Player(d) : d \in joined}

Retracts(c, told, left) ==
  (shipped[c] \ shipped'[c]) \cup {Edit(i) : i \in told \ Editable(c)'}
    \cup {Player(d) : d \in left}

LEMMA ToldIsSo ==
  ASSUME Cached, Cached', NEW c \in Registered, c \in Registered',
         NEW told \in SUBSET Inventory, NEW joined, NEW left,
         joined = Registered' \ Registered, left = Registered \ Registered',
         \A i \in Inventory \ told : i \in Editable(c)' <=> i \in Editable(c)
  PROVE  /\ Asserts(c, told, joined) \subseteq Snapshot(c)'
         /\ Retracts(c, told, left) \cap Snapshot(c)' = {}
         /\ Snapshot(c)' \subseteq Snapshot(c) \cup Asserts(c, told, joined)
         /\ Snapshot(c) \subseteq Snapshot(c)' \cup Retracts(c, told, left)
         /\ Asserts(c, told, joined) \subseteq Fact
         /\ Retracts(c, told, left) \subseteq Fact
<1>1. shipped[c] = VisibleItems(c) /\ shipped'[c] = VisibleItems(c)'
  BY DEF Cached, Registered
<1>2. /\ VisibleItems(c) \subseteq Item /\ VisibleItems(c)' \subseteq Item
      /\ Editable(c) \subseteq Inventory /\ Editable(c)' \subseteq Inventory
      /\ Registered \subseteq Client /\ Registered' \subseteq Client
      /\ Client \subseteq Inventory
  BY DEF VisibleItems, Editable, Registered, Inventory
<1> DEFINE V == VisibleItems(c)
           W == VisibleItems(c)'
           E == Editable(c)
           F == Editable(c)'
           R == Registered
           S == Registered'
<1>3. /\ Snapshot(c) = {Player(d) : d \in R} \cup {Edit(i) : i \in E} \cup V
      /\ Snapshot(c)' = {Player(d) : d \in S} \cup {Edit(i) : i \in F} \cup W
  BY DEF Snapshot
<1>4. /\ Asserts(c, told, joined) =
           (W \ V) \cup {Edit(i) : i \in told \cap F} \cup {Player(d) : d \in S \ R}
      /\ Retracts(c, told, left) =
           (V \ W) \cup {Edit(i) : i \in told \ F} \cup {Player(d) : d \in R \ S}
  BY <1>1 DEF Asserts, Retracts
<1>5. /\ V \subseteq Item /\ W \subseteq Item /\ E \subseteq Inventory /\ F \subseteq Inventory
      /\ R \subseteq Inventory /\ S \subseteq Inventory /\ R \subseteq Client /\ S \subseteq Client
      /\ \A i \in Inventory \ told : i \in F <=> i \in E
  BY <1>2
<1> HIDE DEF V, W, E, F, R, S
<1>6. Asserts(c, told, joined) \subseteq Snapshot(c)'
  BY <1>3, <1>4
<1>7. Retracts(c, told, left) \cap Snapshot(c)' = {}
  <2> SUFFICES ASSUME NEW x \in Retracts(c, told, left), x \in Snapshot(c)'
               PROVE  FALSE
    OBVIOUS
  <2>1. CASE x \in V \ W
    <3>1. x \in Item
      BY <1>5, <2>1
    <3>2. x \notin {Player(d) : d \in S} /\ x \notin {Edit(i) : i \in F}
      BY <1>5, <3>1, FactKinds
    <3> QED
      BY <1>3, <2>1, <3>2
  <2>2. ASSUME NEW i \in told \ F, x = Edit(i) PROVE FALSE
    <3>1. x \notin W
      BY <1>5, <2>2, FactKinds
    <3>2. x \notin {Player(d) : d \in S}
      BY <2>2, FactKinds
    <3>3. x \notin {Edit(j) : j \in F}
      BY <2>2, FactKinds
    <3> QED
      BY <1>3, <3>1, <3>2, <3>3
  <2>3. ASSUME NEW d \in R \ S, x = Player(d) PROVE FALSE
    <3>1. x \notin W
      BY <1>5, <2>3, FactKinds
    <3>2. x \notin {Player(f) : f \in S}
      BY <2>3, FactKinds
    <3>3. x \notin {Edit(j) : j \in F}
      BY <2>3, FactKinds
    <3> QED
      BY <1>3, <3>1, <3>2, <3>3
  <2> QED
    BY <1>4, <2>1, <2>2, <2>3
<1>8. Snapshot(c)' \subseteq Snapshot(c) \cup Asserts(c, told, joined)
  <2>1. \A i \in F : i \in E \/ i \in told \cap F
    BY <1>5
  <2>2. {Edit(i) : i \in F} \subseteq {Edit(i) : i \in E} \cup {Edit(i) : i \in told \cap F}
    BY <2>1
  <2>3. {Player(d) : d \in S} \subseteq {Player(d) : d \in R} \cup {Player(d) : d \in S \ R}
    OBVIOUS
  <2> QED
    BY <1>3, <1>4, <2>2, <2>3
<1>9. Snapshot(c) \subseteq Snapshot(c)' \cup Retracts(c, told, left)
  <2>1. \A i \in E : i \in F \/ i \in told \ F
    BY <1>5
  <2>2. {Edit(i) : i \in E} \subseteq {Edit(i) : i \in F} \cup {Edit(i) : i \in told \ F}
    BY <2>1
  <2>3. {Player(d) : d \in R} \subseteq {Player(d) : d \in S} \cup {Player(d) : d \in R \ S}
    OBVIOUS
  <2> QED
    BY <1>3, <1>4, <2>2, <2>3
<1>10. Asserts(c, told, joined) \subseteq Fact /\ Retracts(c, told, left) \subseteq Fact
  BY <1>4, <1>5 DEF Fact
<1> QED
  BY <1>6, <1>7, <1>8, <1>9, <1>10

(* Packets that tell every change keep what peers show, and what waits for *)
(* them, so.                                                               *)
LEMMA ShipKeepsShown ==
  ASSUME EvidenceTypeOK, EvidenceTypeOK', Cached, Cached', Shown,
         NEW gone, NEW synced, NEW told \in SUBSET Inventory, NEW joined, NEW left,
         Ship(gone, synced, told, joined, left),
         joined = Registered' \ Registered, left = Registered \ Registered',
         \A c \in Registered \cap Registered' : \A i \in Inventory \ told :
           i \in Editable(c)' <=> i \in Editable(c),
         \A c \in Client : status'[c] = "Active" => status[c] = "Active" \/ c \in joined,
         \A c \in Client : status'[c] = "Inactive" => status[c] \in {"Active", "Inactive"}
  PROVE  Shown'
<1>1. /\ picture' = [c \in Client |->
           IF status'[c] # "Active" THEN {}
           ELSE IF c \in joined THEN Snapshot(c)'
           ELSE (picture[c] \ Retracts(c, told, left))
                  \cup (Asserts(c, told, joined) \cap Followed(c))]
      /\ queue' = [c \in Client |->
           IF status'[c] # "Inactive" THEN NoQueue
           ELSE [add  |-> (queue[c].add \ Retracts(c, told, left)) \cup Asserts(c, told, joined),
                 drop |-> (queue[c].drop \ Asserts(c, told, joined))
                            \cup Retracts(c, told, left)]]
      /\ behind' = {c \in behind : status'[c] = "Active"}
  BY DEF Ship, Asserts, Retracts
<1>2. /\ \A c \in Client : picture[c] \subseteq Fact
      /\ \A c \in Client : queue[c] \in [add : SUBSET Fact, drop : SUBSET Fact]
      /\ behind \subseteq Client
  BY DEF Shown
<1>3. \A c \in Client : Snapshot(c) \subseteq Fact /\ Snapshot(c)' \subseteq Fact
  BY SnapshotFacts DEF Snapshot, Fact, Registered, Editable, Inventory, VisibleItems
<1>4. ASSUME NEW c \in Client, status'[c] = "Active"
      PROVE  /\ picture'[c] \subseteq Snapshot(c)' /\ picture'[c] \subseteq Fact
             /\ c \notin behind' => picture'[c] = Snapshot(c)'
             /\ queue'[c] = NoQueue
  <2>1. queue'[c] = NoQueue
    BY <1>1, <1>4
  <2>2. CASE c \in joined
    <3>1. picture'[c] = Snapshot(c)'
      BY <1>1, <1>4, <2>2
    <3> QED
      BY <1>3, <2>1, <3>1
  <2>3. CASE c \notin joined
    <3>1. status[c] = "Active" /\ c \in Registered /\ c \in Registered'
      BY <1>4, <2>3 DEF Registered
    <3> DEFINE A == Asserts(c, told, joined)
               D == Retracts(c, told, left)
               N == Snapshot(c)'
               O == Snapshot(c)
    <3>2. /\ A \subseteq N /\ D \cap N = {} /\ N \subseteq O \cup A
          /\ O \subseteq N \cup D /\ A \subseteq Fact
      BY <3>1, ToldIsSo
    <3>3. picture[c] \subseteq O /\ (c \notin behind => picture[c] = O)
      BY <3>1 DEF Shown
    <3>4. picture'[c] = (picture[c] \ D) \cup (A \cap Followed(c))
      BY <1>1, <1>4, <2>3
    <3>5. c \notin behind' => c \notin behind /\ Followed(c) = Fact
      BY <1>1, <1>4 DEF Followed
    <3>6. picture[c] \subseteq Fact
      BY <1>2
    <3> HIDE DEF A, D, N, O
    <3>7. picture'[c] \subseteq N /\ picture'[c] \subseteq Fact
      BY <3>2, <3>3, <3>4, <3>6
    <3>8. c \notin behind' => picture'[c] = N
      BY <3>2, <3>3, <3>4, <3>5
    <3> QED
      BY <2>1, <3>7, <3>8 DEF N
  <2> QED
    BY <2>2, <2>3
<1>5. ASSUME NEW c \in Client, status'[c] = "Inactive"
      PROVE  /\ picture'[c] = {}
             /\ queue'[c].add \subseteq Snapshot(c)'
             /\ queue'[c].drop \cap Snapshot(c)' = {}
             /\ queue'[c] \in [add : SUBSET Fact, drop : SUBSET Fact]
  <2>1. picture'[c] = {}
    BY <1>1, <1>5
  <2>2. status[c] \in {"Active", "Inactive"} /\ c \in Registered /\ c \in Registered'
    BY <1>5 DEF Registered
  <2> DEFINE A == Asserts(c, told, joined)
             D == Retracts(c, told, left)
             N == Snapshot(c)'
             O == Snapshot(c)
  <2>3. /\ A \subseteq N /\ D \cap N = {} /\ N \subseteq O \cup A
        /\ O \subseteq N \cup D /\ A \subseteq Fact /\ D \subseteq Fact
    BY <2>2, ToldIsSo
  <2>4. queue[c].add \subseteq O /\ queue[c].drop \cap O = {}
    BY <2>2 DEF Shown, NoQueue
  <2>5. queue'[c] = [add |-> (queue[c].add \ D) \cup A, drop |-> (queue[c].drop \ A) \cup D]
    BY <1>1, <1>5
  <2>6. queue[c].add \subseteq Fact /\ queue[c].drop \subseteq Fact
    BY <1>2
  <2> HIDE DEF A, D, N, O
  <2>7. /\ queue'[c].add = (queue[c].add \ D) \cup A
        /\ queue'[c].drop = (queue[c].drop \ A) \cup D
    BY <2>5
  <2>8. queue'[c].add \subseteq N /\ queue'[c].drop \cap N = {}
    BY <2>3, <2>4, <2>7
  <2>9. queue'[c] \in [add : SUBSET Fact, drop : SUBSET Fact]
    BY <2>3, <2>5, <2>6
  <2> QED
    BY <2>1, <2>8, <2>9 DEF N
<1>6. ASSUME NEW c \in Client, status'[c] \notin {"Active", "Inactive"}
      PROVE  picture'[c] = {} /\ queue'[c] = NoQueue
  BY <1>1, <1>6
<1>7. picture' \in [Client -> SUBSET Fact]
  <2>1. \A c \in Client : picture'[c] \in SUBSET Fact
    BY <1>4, <1>5, <1>6
  <2>2. picture' = [c \in Client |-> picture'[c]]
    BY <1>1
  <2> QED
    BY <2>1, <2>2
<1>8. queue' \in [Client -> [add : SUBSET Fact, drop : SUBSET Fact]]
  <2>1. \A c \in Client : queue'[c] \in [add : SUBSET Fact, drop : SUBSET Fact]
    BY <1>4, <1>5, <1>6, NoQueueType
  <2>2. queue' = [c \in Client |-> queue'[c]]
    BY <1>1
  <2> QED
    BY <2>1, <2>2
<1>9. behind' \subseteq Client
  BY <1>1, <1>2
<1> QED
  BY <1>4, <1>5, <1>6, <1>7, <1>8, <1>9 DEF Shown

(* The permissions of a client that stays, unless told. *)
LEMMA SameEditable ==
  ASSUME EvidenceTypeOK, EvidenceTypeOK', NEW c \in Registered, c \in Registered',
         NEW i \in Inventory,
         i \in Area => (c \in owners'[i] <=> c \in owners[i]),
         i = c => enabled' = enabled
  PROVE  i \in Editable(c)' <=> i \in Editable(c)
<1>1. CASE i \in Area
  BY <1>1 DEF Editable, CanEdit
<1>2. CASE i \notin Area
  BY <1>2 DEF Editable, CanEdit
<1> QED
  BY <1>1, <1>2

LEMMA ShownNext ==
  /\ Tidy /\ Tidy' /\ Cached /\ Cached' /\ Shown /\ [ObserverNext]_vars
  => Shown'
<1> SUFFICES ASSUME Tidy, Tidy', Cached, Cached', Shown, [ObserverNext]_vars
             PROVE  Shown'
  OBVIOUS
<1>0. EvidenceTypeOK /\ EvidenceTypeOK'
  BY DEF Tidy
<1>1. /\ status \in [Client -> {"Absent", "Active", "Inactive", "Expired"}]
      /\ owners \in [Area -> SUBSET Client]
      /\ Client \subseteq Inventory /\ Area \subseteq Inventory
      /\ Registered \subseteq Inventory /\ Registered \subseteq Client
  BY <1>0 DEF EvidenceTypeOK, Inventory, Registered
<1>2. ASSUME UNCHANGED <<status, owners, enabled>>,
             NEW gone, NEW synced, Ship(gone, synced, {}, {}, {})
      PROVE  Shown'
  <2>1. Registered' = Registered
    BY <1>2 DEF Registered
  <2>2. \A c \in Registered \cap Registered' : \A i \in Inventory \ {} :
          i \in Editable(c)' <=> i \in Editable(c)
    BY <1>0, <1>2, <2>1, SameEditable
  <2>3. {} \in SUBSET Inventory /\ {} = Registered' \ Registered /\ {} = Registered \ Registered'
    BY <2>1
  <2> QED
    BY <1>0, <1>2, <2>2, <2>3, ShipKeepsShown
<1>3. ASSUME NEW c \in Client, Entered(c) PROVE Shown'
  <2>1. /\ status[c] = "Absent" /\ status' = [status EXCEPT ![c] = "Active"]
        /\ UNCHANGED <<owners, enabled>>
        /\ Ship({}, AllItems, {c}, {c}, {})
    BY <1>3 DEF Entered, Enter
  <2>2. Registered' = Registered \cup {c} /\ c \notin Registered
    BY <1>1, <2>1 DEF Registered
  <2>3. {c} \in SUBSET Inventory /\ {c} = Registered' \ Registered
        /\ {} = Registered \ Registered'
    BY <1>1, <2>2
  <2>4. \A d \in Registered \cap Registered' : \A i \in Inventory \ {c} :
          i \in Editable(d)' <=> i \in Editable(d)
    BY <1>0, <2>1, SameEditable
  <2>5. \A d \in Client : status'[d] = "Active" => status[d] = "Active" \/ d \in {c}
    BY <1>1, <2>1
  <2>6. \A d \in Client : status'[d] = "Inactive" => status[d] \in {"Active", "Inactive"}
    BY <1>1, <2>1
  <2> QED
    BY <1>0, <2>1, <2>3, <2>4, <2>5, <2>6, ShipKeepsShown
<1>4. ASSUME NEW c \in Client, LostSocket(c) PROVE Shown'
  <2>1. /\ status[c] = "Active" /\ status' = [status EXCEPT ![c] = "Inactive"]
        /\ UNCHANGED <<owners, enabled>>
        /\ Ship({}, {}, {}, {}, {})
    BY <1>4 DEF LostSocket, LoseSocket, NoShipment
  <2>2. Registered' = Registered
    BY <1>1, <2>1 DEF Registered
  <2>3. {} \in SUBSET Inventory /\ {} = Registered' \ Registered /\ {} = Registered \ Registered'
    BY <2>2
  <2>4. \A d \in Registered \cap Registered' : \A i \in Inventory \ {} :
          i \in Editable(d)' <=> i \in Editable(d)
    BY <1>0, <2>1, SameEditable
  <2>5. \A d \in Client : status'[d] = "Active" => status[d] = "Active" \/ d \in {}
    BY <1>1, <2>1
  <2>6. \A d \in Client : status'[d] = "Inactive" => status[d] \in {"Active", "Inactive"}
    BY <1>1, <2>1
  <2> QED
    BY <1>0, <2>1, <2>3, <2>4, <2>5, <2>6, ShipKeepsShown
<1>5. ASSUME NEW c \in Client, Recovered(c) PROVE Shown'
  <2>1. /\ status[c] = "Inactive" /\ status' = [status EXCEPT ![c] = "Active"]
        /\ UNCHANGED <<area, owners, enabled, holder, revealed, behind>>
        /\ picture' = [picture EXCEPT ![c] = (Snapshot(c)' \ queue[c].drop) \cup queue[c].add]
        /\ queue' = [queue EXCEPT ![c] = NoQueue]
    BY <1>5 DEF Recovered, Recover, Resume, itemVars
  <2>2. Registered' = Registered
    BY <1>1, <2>1 DEF Registered
  <2>3. \A d \in Client : Snapshot(d)' = Snapshot(d)
    BY <2>1, <2>2 DEF Snapshot, Editable, VisibleItems, Visible, CanEdit, CanView, Reachable
  <2>4. queue[c].add \subseteq Snapshot(c) /\ queue[c].drop \cap Snapshot(c) = {}
    BY <2>1 DEF Shown
  <2>5. (Snapshot(c)' \ queue[c].drop) \cup queue[c].add = Snapshot(c)'
    <3>1. Snapshot(c)' = Snapshot(c)
      BY <2>3
    <3> HIDE DEF Snapshot
    <3> QED
      BY <2>4, <3>1
  <2>6. picture' = [picture EXCEPT ![c] = Snapshot(c)] /\ Snapshot(c) \subseteq Fact
    BY <2>1, <2>3, <2>5, SnapshotFacts
  <2>7. /\ picture' \in [Client -> SUBSET Fact]
        /\ queue' \in [Client -> [add : SUBSET Fact, drop : SUBSET Fact]]
        /\ behind' \subseteq Client
    BY <2>1, <2>6, NoQueueType DEF Shown
  <2>8. /\ status'[c] = "Active" /\ picture'[c] = Snapshot(c) /\ queue'[c] = NoQueue
        /\ \A d \in Client \ {c} :
             status'[d] = status[d] /\ picture'[d] = picture[d] /\ queue'[d] = queue[d]
    BY <1>1, <2>1, <2>6 DEF Shown
  <2> QED
    BY <2>1, <2>3, <2>7, <2>8 DEF Shown
<1>6. ASSUME NEW c \in Client, TakenOver(c) PROVE Shown'
  <2>1. /\ status[c] = "Active" /\ picture' = [picture EXCEPT ![c] = {}]
        /\ behind' = behind \cup {c}
        /\ UNCHANGED <<status, area, owners, enabled, holder, revealed, queue>>
    BY <1>6 DEF TakenOver, evidenceVars
  <2>2. \A d \in Client : Snapshot(d)' = Snapshot(d)
    BY <2>1 DEF Snapshot, Editable, Registered, VisibleItems, Visible, CanEdit, CanView,
                Reachable
  <2>3. /\ picture' \in [Client -> SUBSET Fact] /\ behind' \subseteq Client
        /\ picture'[c] = {} /\ \A d \in Client \ {c} : picture'[d] = picture[d]
    BY <2>1 DEF Shown
  <2> QED
    BY <2>1, <2>2, <2>3 DEF Shown
<1>7. ASSUME NEW c \in Client, Expired(c) PROVE Shown'
  <2>1. /\ c \in Live /\ status' = [status EXCEPT ![c] = "Expired"]
        /\ owners' = [a \in Area |-> owners[a] \ {c}] /\ enabled' = enabled
    BY <1>7 DEF Expired, Expire
  <2>2. Registered' = Registered
    BY <1>1, <2>1 DEF Registered, Live
  <2>3. Managed(c) \in SUBSET Inventory /\ {} \in SUBSET Inventory
        /\ {} = Registered' \ Registered /\ {} = Registered \ Registered'
    BY <1>1, <2>2 DEF Managed
  <2>4. \A d \in Registered \cap Registered' : \A i \in Inventory \ Managed(c) :
          i \in Editable(d)' <=> i \in Editable(d)
    <3>1. \A i \in Area \ Managed(c) : owners'[i] = owners[i]
      BY <1>1, <2>1 DEF Managed
    <3> QED
      BY <1>0, <2>1, <3>1, SameEditable
  <2>5. \A d \in Client : status'[d] = "Active" => status[d] = "Active" \/ d \in {}
    BY <1>1, <2>1
  <2>6. \A d \in Client : status'[d] = "Inactive" => status[d] \in {"Active", "Inactive"}
    BY <1>1, <2>1
  <2>7. CASE Managed(c) = {}
    <3>1. Ship({}, {}, Managed(c), {}, {})
      BY <1>7, <2>7 DEF Expired, NoShipment
    <3> HIDE DEF Managed
    <3> QED
      BY <1>0, <2>3, <2>4, <2>5, <2>6, <3>1, ShipKeepsShown
  <2>8. CASE Managed(c) # {}
    <3>1. Ship(In(LeftAlone(c)), AllItems, Managed(c), {}, {})
      BY <1>7, <2>8 DEF Expired
    <3> QED
      BY <1>0, <2>3, <2>4, <2>5, <2>6, <3>1, ShipKeepsShown
  <2> QED
    BY <2>7, <2>8
<1>8. ASSUME NEW c \in Client, Removed(c) PROVE Shown'
  <2>1. /\ status[c] = "Expired" /\ status' = [status EXCEPT ![c] = "Absent"]
        /\ UNCHANGED <<owners, enabled>>
        /\ Ship(In({c}), {}, {c}, {}, {c})
    BY <1>8 DEF Removed, Remove
  <2>2. Registered' = Registered \ {c} /\ c \in Registered
    BY <1>1, <2>1 DEF Registered
  <2>3. {c} \in SUBSET Inventory /\ {} = Registered' \ Registered
        /\ {c} = Registered \ Registered'
    BY <1>1, <2>2
  <2>4. \A d \in Registered \cap Registered' : \A i \in Inventory \ {c} :
          i \in Editable(d)' <=> i \in Editable(d)
    BY <1>0, <2>1, SameEditable
  <2>5. \A d \in Client : status'[d] = "Active" => status[d] = "Active" \/ d \in {}
    BY <1>1, <2>1
  <2>6. \A d \in Client : status'[d] = "Inactive" => status[d] \in {"Active", "Inactive"}
    BY <1>1, <2>1
  <2> QED
    BY <1>0, <2>1, <2>3, <2>4, <2>5, <2>6, ShipKeepsShown
<1>9. ASSUME NEW c \in Client, NEW a \in Area, ChangedArea(c, a) PROVE Shown'
  BY <1>2, <1>9 DEF ChangedArea, ChangeArea
<1>10. ASSUME NEW c \in Client, NEW a \in Area, AddedOwner(c, a) \/ RemovedOwner(c, a)
       PROVE  Shown'
  <2>1. /\ UNCHANGED <<status, enabled>>
        /\ \A b \in Area \ {a} : owners'[b] = owners[b]
        /\ \E gone : Ship(gone, AllItems, {a}, {}, {})
    BY <1>1, <1>10 DEF AddedOwner, AddOwner, RemovedOwner, RemoveOwner
  <2>2. Registered' = Registered
    BY <2>1 DEF Registered
  <2>3. {a} \in SUBSET Inventory /\ {} = Registered' \ Registered
        /\ {} = Registered \ Registered'
    BY <1>1, <2>2
  <2>4. \A d \in Registered \cap Registered' : \A i \in Inventory \ {a} :
          i \in Editable(d)' <=> i \in Editable(d)
    BY <1>0, <2>1, SameEditable
  <2> QED
    BY <1>0, <2>1, <2>3, <2>4, ShipKeepsShown
<1>11. CASE ToggledInventory
  <2>1. /\ UNCHANGED <<status, owners>>
        /\ \E gone, synced : Ship(gone, synced, Registered, {}, {})
    BY <1>11 DEF ToggledInventory, ToggleInventory
  <2>2. Registered' = Registered
    BY <2>1 DEF Registered
  <2>3. Registered \in SUBSET Inventory /\ {} = Registered' \ Registered
        /\ {} = Registered \ Registered'
    BY <1>1, <2>2
  <2>4. \A d \in Registered \cap Registered' : \A i \in Inventory \ Registered :
          i \in Editable(d)' <=> i \in Editable(d)
    BY <1>0, <2>1, SameEditable
  <2> HIDE DEF Registered
  <2> QED
    BY <1>0, <2>1, <2>3, <2>4, ShipKeepsShown
<1>12. ASSUME NEW c \in Client, NEW i \in Inventory, NEW N \in SUBSET Item,
              NEW R \in SUBSET N, Appended(c, i, N, R) \/ Replaced(c, i, N, R)
       PROVE  Shown'
  BY <1>2, <1>12 DEF Appended, Append, Replaced, Replace, placeVars
<1>13. ASSUME NEW c \in Client, NEW e \in Item,
              RemovedEvidence(c, e) \/ UpdatedEvidence(c, e) \/ Presented(c, e)
       PROVE  Shown'
  BY <1>2, <1>13 DEF RemovedEvidence, RemoveEvidence, UpdatedEvidence, UpdateEvidence,
       Presented, Present, PresentRecorded, Reveal, placeVars
<1>14. CASE UNCHANGED vars
  <2>1. UNCHANGED <<status, area, owners, enabled, holder, revealed, picture, queue, behind>>
    BY <1>14 DEF vars
  <2>2. \A d \in Client : Snapshot(d)' = Snapshot(d)
    BY <2>1 DEF Snapshot, Editable, Registered, VisibleItems, Visible, CanEdit, CanView,
                Reachable
  <2> QED
    BY <2>1, <2>2 DEF Shown
<1> QED
  BY <1>3, <1>4, <1>5, <1>6, <1>7, <1>8, <1>9, <1>10, <1>11, <1>12, <1>13, <1>14
  DEF ObserverNext

LEMMA ShownAlways == ObserverSpec => [](Tidy /\ Cached /\ Shown)
<1>1. ObserverInit => Tidy /\ Cached /\ Shown
  <2> SUFFICES ASSUME ObserverInit PROVE Tidy /\ Cached /\ Shown
    OBVIOUS
  <2>1. Tidy
    BY TidyInit DEF ObserverInit
  <2>2. Cached
    BY DEF ObserverInit, Init, Cached, Registered
  <2>3. /\ picture = [c \in Client |-> {}] /\ queue = [c \in Client |-> NoQueue]
        /\ behind = {} /\ status = [c \in Client |-> "Absent"]
    BY DEF ObserverInit, Init
  <2>4. Shown
    BY <2>3, NoQueueType DEF Shown
  <2> QED
    BY <2>1, <2>2, <2>4
<1>2. Tidy /\ Cached /\ Shown /\ [ObserverNext]_vars => (Tidy /\ Cached /\ Shown)'
  BY TidyNext, CachedNext, ShownNext, ObserverStep
<1> QED
  BY <1>1, <1>2, PTL DEF ObserverSpec

(* Every variable of the screens holds a value of its kind. *)
THEOREM ObserverTypes == ObserverSpec => []TypeOK
<1>1. Tidy /\ Cached /\ Shown => TypeOK
  BY DEF Tidy, Cached, Shown, TypeOK
<1> QED
  BY <1>1, ShownAlways, PTL

(* What packets, queues and snapshots add up to on a screen is what a      *)
(* snapshot of the moment would show, for any number of players, areas and *)
(* items and however long a player was away.                               *)
THEOREM ObserverShowsTruth == ObserverSpec => []PictureIsTruth
<1>1. Shown => PictureIsTruth
  BY DEF Shown, PictureIsTruth
<1> QED
  BY <1>1, ShownAlways, PTL

(* Nobody's screen holds a hidden item of others but that of who manages   *)
(* the area and, of a player's, is there.                                  *)
THEOREM ObserverHides == ObserverSpec => []HiddenStaysHidden
<1>1. Tidy /\ Cached /\ Shown => HiddenStaysHidden
  <2> SUFFICES ASSUME Tidy, Shown, NEW c \in Client, NEW e \in (picture[c] \cap Item) \ revealed
               PROVE  IF holder[e] \in Area THEN c \in owners[holder[e]]
                      ELSE \/ holder[e] = c
                           \/ area[holder[e]] = area[c] /\ c \in owners[area[c]]
    BY DEF HiddenStaysHidden
  <2>1. status[c] = "Active" /\ picture[c] \subseteq Snapshot(c)
    BY DEF Shown, Tidy, EvidenceTypeOK
  <2>2. e \in VisibleItems(c)
    <3>1. e \notin {Player(d) : d \in Registered} /\ e \notin {Edit(i) : i \in Editable(c)}
      BY FactKinds DEF Registered, Editable, Inventory
    <3> QED
      BY <2>1, <3>1 DEF Snapshot
  <2>3. holder[e] \in Inventory /\ area[c] \in Area /\ Visible(c, e)
    BY <2>2 DEF VisibleItems, Tidy, EvidenceTypeOK
  <2>4. CASE holder[e] \in Area
    BY <2>3, <2>4, EvidenceConstants DEF Visible, CanEdit, Reachable, Registered
  <2>5. CASE holder[e] \notin Area
    BY <2>3, <2>5 DEF Visible, CanEdit, CanView, Reachable
  <2> QED
    BY <2>4, <2>5
<1> QED
  BY <1>1, ShownAlways, PTL
=============================================================================
