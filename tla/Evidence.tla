------------------------------- MODULE Evidence -------------------------------
(***************************************************************************)
(* Evidence in inventories (InventoryRegistry), and who may see and edit   *)
(* it.                                                                     *)
(*                                                                         *)
(* Every area and every registered client has an inventory; here it goes   *)
(* by the name of its holder.  Permissions are not stored: the handle of   *)
(* an inventory computes them from who manages an area, where players are, *)
(* and whether personal inventories are enabled.  Observer says what of    *)
(* this reaches the players' screens.                                      *)
(*                                                                         *)
(* Roster says when players move and come to manage areas; here both are   *)
(* free, within what its commands allow, and nothing happens to a player   *)
(* between expiry and removal (as with TargetsExpired = FALSE in Roster).  *)
(* An item is its identifier, where it lies and whether it is revealed;    *)
(* its text is left out.                                                   *)
(***************************************************************************)
EXTENDS Integers, FiniteSets

CONSTANTS
  Client, Area, Item,
  NoInventory,
  DefaultArea,        \* Server::defaultArea()
  InventorySize,      \* ConfigManager::maxInventorySize()
  PersonalSize        \* ConfigManager::maxPersonalInventorySize()

ASSUME EvidenceConstants ==
  /\ Client \cap Area = {} /\ NoInventory \notin Client \cup Area
  /\ IsFiniteSet(Item)
  /\ DefaultArea \in Area
  /\ InventorySize \in Nat /\ PersonalSize \in Nat

VARIABLES
  status,     \* AOClient::m_session_status; "Absent" is unregistered
  area,       \* AOClient::m_area_id
  owners,     \* AreaData::m_owners
  enabled,    \* Server::m_personal_inventories_enabled
  holder,     \* InventoryRegistry::_owners; NoInventory when there is no such item
  revealed    \* the items with Evidence::revealed

placeVars == <<status, area, owners, enabled>>
itemVars == <<holder, revealed>>
evidenceVars == <<status, area, owners, enabled, holder, revealed>>

Inventory == Client \cup Area

Registered == {c \in Client : status[c] # "Absent"}
Live == {c \in Client : status[c] \in {"Active", "Inactive"}}
Items(i) == {e \in Item : holder[e] = i}

-----------------------------------------------------------------------------
(* Permissions and visibility *)

CanEdit(c, i) ==
  IF i \in Area THEN c \in owners[i]
  ELSE enabled /\ c = i

(* Who manages an area looks into the inventories of the players in it.    *)
CanView(c, i) ==
  \/ CanEdit(c, i)
  \/ i \in Area
  \/ enabled /\ {c, i} \subseteq Registered /\ area[c] = area[i] /\ c \in owners[area[c]]

Reachable(c, i) == i = area[c] \/ (i \in Registered /\ area[i] = area[c])

(* Mistake: whoever may view an inventory sees all of it, wherever it is.  *)
SeeWhatMayBeViewed(c, e) ==
  \/ CanEdit(c, holder[e])
  \/ Reachable(c, holder[e]) /\ (e \in revealed \/ CanView(c, holder[e]))

(* ClientGameObserver::isEvidenceVisible *)
Visible(c, e) ==
  \/ CanEdit(c, holder[e])
  \/ /\ Reachable(c, holder[e])
     /\ e \in revealed \/ (holder[e] # area[c] /\ CanView(c, holder[e]))

Capacity(i) == IF i \in Area THEN InventorySize ELSE PersonalSize

-----------------------------------------------------------------------------
(* Changes of the registry *)

(* InventoryRegistry::discard for the items of gone; their marks go too.   *)
Discard(gone) ==
  /\ holder' = [e \in Item |-> IF e \in gone THEN NoInventory ELSE holder[e]]
  /\ revealed' = revealed \ gone

(* The items of the inventories in I. *)
In(I) == {e \in Item : holder[e] \in I}

(* Discards the items of gone and creates those of N in inventory i, R of  *)
(* them revealed.                                                          *)
Put(gone, i, N, R) ==
  /\ holder' = [e \in Item |-> IF e \in N THEN i
                               ELSE IF e \in gone THEN NoInventory ELSE holder[e]]
  /\ revealed' = (revealed \ gone) \cup R

FreshItems(N) == N \cap {e \in Item : holder[e] # NoInventory} = {}

-----------------------------------------------------------------------------
Init ==
  /\ status = [c \in Client |-> "Absent"]
  /\ area = [c \in Client |-> DefaultArea]
  /\ owners = [a \in Area |-> {}]
  /\ enabled = TRUE
  /\ holder = [e \in Item |-> NoInventory]
  /\ revealed = {}

(* AOClientRegistry::create and AOClient::beginSession *)
Enter(c) ==
  /\ status[c] = "Absent"
  /\ status' = [status EXCEPT ![c] = "Active"]
  /\ UNCHANGED <<area, owners, enabled, itemVars>>

LoseSocket(c) ==
  /\ status[c] = "Active"
  /\ status' = [status EXCEPT ![c] = "Inactive"]
  /\ UNCHANGED <<area, owners, enabled, itemVars>>

Recover(c) ==
  /\ status[c] = "Inactive"
  /\ status' = [status EXCEPT ![c] = "Active"]
  /\ UNCHANGED <<area, owners, enabled, itemVars>>

(* Areas whose last owner c is: the server empties their inventories.      *)
LeftAlone(c) == {a \in Area : owners[a] = {c}}

(* AOClient::markExpired *)
Expire(c) ==
  /\ c \in Live
  /\ status' = [status EXCEPT ![c] = "Expired"]
  /\ owners' = [a \in Area |-> owners[a] \ {c}]
  /\ Discard(In(LeftAlone(c)))
  /\ UNCHANGED <<area, enabled>>

(* Mistake: the inventory of a removed client is not emptied. *)
RemoveAlone(c) ==
  /\ status[c] = "Expired"
  /\ status' = [status EXCEPT ![c] = "Absent"]
  /\ area' = [area EXCEPT ![c] = DefaultArea]
  /\ UNCHANGED <<owners, enabled, itemVars>>

(* Mistake: an identifier that is free again is in no area. *)
RemoveToNowhere(c) ==
  /\ status[c] = "Expired"
  /\ status' = [status EXCEPT ![c] = "Absent"]
  /\ area' = [area EXCEPT ![c] = NoInventory]
  /\ Discard(In({c}))
  /\ UNCHANGED <<owners, enabled>>

(* AOClientRegistry::remove *)
Remove(c) ==
  /\ status[c] = "Expired"
  /\ status' = [status EXCEPT ![c] = "Absent"]
  /\ area' = [area EXCEPT ![c] = DefaultArea]
  /\ Discard(In({c}))
  /\ UNCHANGED <<owners, enabled>>

ChangeArea(c, a) ==
  /\ c \in Live /\ area[c] # a
  /\ area' = [area EXCEPT ![c] = a]
  /\ UNCHANGED <<status, owners, enabled, itemVars>>

(* /cm for oneself in an area nobody manages, or by one who manages it.    *)
AddOwner(c, a) ==
  /\ c \in Live \ owners[a]
  /\ \/ owners[a] = {} /\ area[c] = a /\ status[c] = "Active"
     \/ \E o \in owners[a] : area[o] = a /\ status[o] = "Active"
  /\ owners' = [owners EXCEPT ![a] = @ \cup {c}]
  /\ UNCHANGED <<status, area, enabled, itemVars>>

(* Mistake: an area that nobody manages any more keeps its evidence.       *)
KeepEvidence(c, a) ==
  /\ c \in owners[a]
  /\ owners' = [owners EXCEPT ![a] = @ \ {c}]
  /\ UNCHANGED <<status, area, enabled, itemVars>>

(* /uncm, by a player in the area *)
RemoveOwner(c, a) ==
  /\ c \in owners[a]
  /\ \E o \in Client : status[o] = "Active" /\ area[o] = a
  /\ owners' = [owners EXCEPT ![a] = @ \ {c}]
  /\ Discard(In({a} \cap LeftAlone(c)))
  /\ UNCHANGED <<status, area, enabled>>

(* Mistake: disabling only hides the personal inventories. *)
HideOnly ==
  /\ enabled' = ~enabled
  /\ UNCHANGED <<status, area, owners, itemVars>>

(* /toggleinventory *)
ToggleInventory ==
  /\ \E c \in Client : status[c] = "Active"
  /\ enabled' = ~enabled
  /\ IF enabled THEN Discard(In(Registered)) ELSE UNCHANGED itemVars
  /\ UNCHANGED <<status, area, owners>>

(* Mistake: what the inventory holds already is not counted. *)
AppendUncounted(c, i, N, R) ==
  /\ status[c] = "Active" /\ CanEdit(c, i)
  /\ N # {} /\ FreshItems(N) /\ R \subseteq N
  /\ Cardinality(N) <= Capacity(i)
  /\ Put({}, i, N, R)
  /\ UNCHANGED placeVars

(* InventoryTransferPacket with mode Append *)
Append(c, i, N, R) ==
  /\ status[c] = "Active" /\ CanEdit(c, i)
  /\ N # {} /\ FreshItems(N) /\ R \subseteq N
  /\ Cardinality(Items(i)) + Cardinality(N) <= Capacity(i)
  /\ Put({}, i, N, R)
  /\ UNCHANGED placeVars

(* InventoryTransferPacket with mode Replace *)
Replace(c, i, N, R) ==
  /\ status[c] = "Active" /\ CanEdit(c, i)
  /\ FreshItems(N) /\ R \subseteq N
  /\ Cardinality(N) <= Capacity(i)
  /\ Put(Items(i), i, N, R)
  /\ UNCHANGED placeVars

(* EvidenceRecordPacket with action Remove *)
RemoveEvidence(c, e) ==
  /\ status[c] = "Active"
  /\ holder[e] # NoInventory /\ CanEdit(c, holder[e])
  /\ Discard({e})
  /\ UNCHANGED placeVars

(* EvidenceUpdatePacket: the new version may be revealed or hidden.        *)
UpdateEvidence(c, e) ==
  /\ status[c] = "Active"
  /\ holder[e] # NoInventory /\ CanEdit(c, holder[e])
  /\ revealed' = IF e \in revealed THEN revealed \ {e} ELSE revealed \cup {e}
  /\ UNCHANGED <<placeVars, holder>>

Reveal(e) ==
  /\ holder[e] # NoInventory /\ e \notin revealed
  /\ revealed' = revealed \cup {e}
  /\ UNCHANGED <<placeVars, holder>>

(* An in-character message that presents an item its speaker sees.         *)
Present(c, e) == status[c] = "Active" /\ Visible(c, e) /\ Reveal(e)

(* A message that plays a statement back presents what the statement did,  *)
(* whoever may see that by now; a testimony loaded from a file may name    *)
(* any item.                                                               *)
PresentRecorded(c, e) == status[c] = "Active" /\ Reveal(e)

Next ==
  \/ \E c \in Client :
       \/ Enter(c)
       \/ LoseSocket(c)
       \/ Recover(c)
       \/ Expire(c)
       \/ Remove(c)
       \/ \E a \in Area : ChangeArea(c, a) \/ AddOwner(c, a) \/ RemoveOwner(c, a)
       \/ \E i \in Inventory, N \in SUBSET Item : \E R \in SUBSET N :
            Append(c, i, N, R) \/ Replace(c, i, N, R)
       \/ \E e \in Item : \/ RemoveEvidence(c, e)
                          \/ UpdateEvidence(c, e)
                          \/ Present(c, e)
                          \/ PresentRecorded(c, e)
  \/ ToggleInventory

Spec == Init /\ [][Next]_evidenceVars

-----------------------------------------------------------------------------
(* Properties *)

(* Every variable holds a value of its kind. *)
EvidenceTypeOK ==
  /\ status \in [Client -> {"Absent", "Active", "Inactive", "Expired"}]
  /\ area \in [Client -> Area]
  /\ owners \in [Area -> SUBSET Client]
  /\ enabled \in BOOLEAN
  /\ holder \in [Item -> Inventory \cup {NoInventory}]
  /\ revealed \in SUBSET Item

(* An area that nobody manages has no evidence: the next to manage it does *)
(* not inherit a case.                                                     *)
UnmanagedAreEmpty == \A a \in Area : owners[a] = {} => Items(a) = {}

(* commandhelp.json, toggleinventory: "Disabling clears every personal     *)
(* inventory."  Nor can any be filled until they are enabled again.        *)
DisabledAreEmpty == ~enabled => \A c \in Client : Items(c) = {}

(* Items lie in inventories that exist: of a player that was removed no    *)
(* item remains that others could still update or present.                 *)
NothingOrphaned == \A e \in Item : holder[e] \in Client => holder[e] \in Registered

(* config.ini, max_inventory_size and max_personal_inventory_size: "The    *)
(* maximum number of evidence an inventory can hold", appended or replaced.*)
CapacityHolds == \A i \in Inventory : Cardinality(Items(i)) <= Capacity(i)

=============================================================================
