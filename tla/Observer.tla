------------------------------- MODULE Observer -------------------------------
(***************************************************************************)
(* What the players' screens show (ClientGameObserver, the packet queue of *)
(* a lost session, and snapshots), on top of the evidence of Evidence.     *)
(*                                                                         *)
(* Each registered client has an observer, which remembers the items it    *)
(* has shipped and follows the signals of registries, areas and clients.   *)
(* A peer shows what the packets it got assert and do not retract: its     *)
(* picture, a set of these facts:                                          *)
(*   - the item e is there,                                                *)
(*   - <<"player", c>>: the player c is on the server,                     *)
(*   - <<"edit", i>>: the inventory i may be edited.                       *)
(* Packets for an inactive client are queued.  About one fact the last     *)
(* packet counts and packets about different facts commute, so a queue is  *)
(* the set of facts it ends up asserting and the set it ends up retracting.*)
(*                                                                         *)
(* External and assumed: a peer that connects shows nothing at first, and  *)
(* drops the items of an inventory whose record is removed; identifiers of *)
(* items are never used twice (theory::IdCounter).                         *)
(***************************************************************************)
EXTENDS Evidence

VARIABLES
  shipped,    \* ClientGameObserver::_shippedEvidence
  picture,    \* what the peer of an active client shows
  queue,      \* AOClient::_queuedPackets
  behind      \* the clients whose peer took the session over without a snapshot

vars == <<status, area, owners, enabled, holder, revealed,
          shipped, picture, queue, behind>>

Player(c) == <<"player", c>>
Edit(i) == <<"edit", i>>

(* No item looks like a player or a permission. *)
ASSUME ObserverConstants ==
  \A e \in Item : \A x \in Inventory : e \notin {Player(x), Edit(x)}

Fact == Item \cup {Player(c) : c \in Client} \cup {Edit(i) : i \in Inventory}

(* Of a peer that is behind only the items are followed. *)
Followed(c) == IF c \in behind THEN Item ELSE Fact

NoQueue == [add |-> {}, drop |-> {}]

VisibleItems(c) == {e \in Item : holder[e] # NoInventory /\ Visible(c, e)}
Editable(c) == {i \in Registered \cup Area : CanEdit(c, i)}

(* What ClientGameObserver::shipSnapshot ships to client c, if it shipped  *)
(* no item before.                                                         *)
Snapshot(c) ==
  {Player(d) : d \in Registered} \cup {Edit(i) : i \in Editable(c)} \cup VisibleItems(c)

-----------------------------------------------------------------------------
(* Signals *)

(* The packets that observers send, from the second state of a step: they  *)
(* unship the items of gone, synchronize the items of synced, and tell the *)
(* permission for the inventories of told.                                 *)
Synchronized(c, gone, synced) ==
  ((shipped[c] \ gone) \ synced) \cup (synced \cap VisibleItems(c)')

Ship(gone, synced, told, joined, left) ==
  LET others == Registered \cap Registered'
      asserts(c) == (shipped'[c] \ shipped[c])
                      \cup {Edit(i) : i \in told \cap Editable(c)'}
                      \cup {Player(d) : d \in joined}
      retracts(c) == (shipped[c] \ shipped'[c])
                       \cup {Edit(i) : i \in told \ Editable(c)'}
                       \cup {Player(d) : d \in left} IN
  /\ shipped' = [c \in Client |->
                   IF c \in others THEN Synchronized(c, gone, synced)
                   ELSE IF c \in joined THEN VisibleItems(c)' ELSE {}]
  /\ picture' = [c \in Client |->
                   IF status'[c] # "Active" THEN {}
                   ELSE IF c \in joined THEN Snapshot(c)'
                   ELSE (picture[c] \ retracts(c)) \cup (asserts(c) \cap Followed(c))]
  /\ queue' = [c \in Client |->
                 IF status'[c] # "Inactive" THEN NoQueue
                 ELSE [add  |-> (queue[c].add \ retracts(c)) \cup asserts(c),
                       drop |-> (queue[c].drop \ asserts(c)) \cup retracts(c)]]
  /\ behind' = {c \in behind : status'[c] = "Active"}

AllItems == {e \in Item : holder'[e] # NoInventory}
NoShipment == Ship({}, {}, {}, {}, {})

(* An identifier nobody has heard of, or will hear of from a queue.        *)
Unheard(N) ==
  \A c \in Client :
    N \cap (shipped[c] \cup picture[c] \cup queue[c].add \cup queue[c].drop) = {}

-----------------------------------------------------------------------------
ObserverInit ==
  /\ Init
  /\ shipped = [c \in Client |-> {}]
  /\ picture = [c \in Client |-> {}]
  /\ queue = [c \in Client |-> NoQueue]
  /\ behind = {}

(* The inventory and the client are announced, the observer of the client  *)
(* itself ships a snapshot, and everybody sees it enter the default area.  *)
Entered(c) == Enter(c) /\ Ship({}, AllItems, {c}, {c}, {})

LostSocket(c) == LoseSocket(c) /\ NoShipment

(* Mistake: the observer does not forget what the former peer was shipped. *)
KeepShipped(c) ==
  LET seen == Snapshot(c)' \ shipped[c] IN
  /\ shipped' = [shipped EXCEPT ![c] = VisibleItems(c)']
  /\ picture' = [picture EXCEPT ![c] = (seen \ queue[c].drop) \cup queue[c].add]
  /\ queue' = [queue EXCEPT ![c] = NoQueue]
  /\ UNCHANGED behind

(* The client is active again: the observer ships a snapshot, then         *)
(* AOClient::resumeSession sends the packets that were queued before it.   *)
Resume(c) ==
  /\ shipped' = [shipped EXCEPT ![c] = VisibleItems(c)']
  /\ picture' = [picture EXCEPT ![c] = (Snapshot(c)' \ queue[c].drop) \cup queue[c].add]
  /\ queue' = [queue EXCEPT ![c] = NoQueue]
  /\ UNCHANGED behind

Recovered(c) == Recover(c) /\ Resume(c)

(* A session is recovered while its former socket is still open: the       *)
(* status does not change, so the observer hears nothing.                  *)
TakenOver(c) ==
  /\ status[c] = "Active"
  /\ picture' = [picture EXCEPT ![c] = {}]
  /\ behind' = behind \cup {c}
  /\ UNCHANGED <<evidenceVars, shipped, queue>>

Managed(c) == {a \in Area : c \in owners[a]}

(* Only an area that loses an owner signals. *)
Expired(c) ==
  /\ Expire(c)
  /\ IF Managed(c) = {} THEN NoShipment
     ELSE Ship(In(LeftAlone(c)), AllItems, Managed(c), {}, {})

Removed(c) == Remove(c) /\ Ship(In({c}), {}, {c}, {}, {c})

(* Mistake: moving players does not synchronize evidence. *)
MovedSilently(c, a) == ChangeArea(c, a) /\ NoShipment

ChangedArea(c, a) == ChangeArea(c, a) /\ Ship({}, AllItems, {}, {}, {})

AddedOwner(c, a) == AddOwner(c, a) /\ Ship({}, AllItems, {a}, {}, {})

RemovedOwner(c, a) ==
  RemoveOwner(c, a) /\ Ship(In({a} \cap LeftAlone(c)), AllItems, {a}, {}, {})

(* Clearing an inventory that was not empty synchronizes everything; the   *)
(* permissions are told in any case.                                       *)
ToggledInventory ==
  /\ ToggleInventory
  /\ IF enabled /\ In(Registered) # {}
     THEN Ship(In(Registered), AllItems, Registered, {}, {})
     ELSE Ship({}, {}, Registered, {}, {})

Appended(c, i, N, R) == Append(c, i, N, R) /\ Unheard(N) /\ Ship({}, N, {}, {}, {})

Replaced(c, i, N, R) ==
  Replace(c, i, N, R) /\ Unheard(N) /\ Ship(Items(i), AllItems, {}, {}, {})

RemovedEvidence(c, e) == RemoveEvidence(c, e) /\ Ship({e}, {}, {}, {}, {})

UpdatedEvidence(c, e) == UpdateEvidence(c, e) /\ Ship({}, {e}, {}, {}, {})

Presented(c, e) ==
  (Present(c, e) \/ PresentRecorded(c, e)) /\ Ship({}, {e}, {}, {}, {})

ObserverNext ==
  \/ \E c \in Client :
       \/ Entered(c)
       \/ LostSocket(c)
       \/ Recovered(c)
       \/ TakenOver(c)
       \/ Expired(c)
       \/ Removed(c)
       \/ \E a \in Area : ChangedArea(c, a) \/ AddedOwner(c, a) \/ RemovedOwner(c, a)
       \/ \E i \in Inventory, N \in SUBSET Item : \E R \in SUBSET N :
            Appended(c, i, N, R) \/ Replaced(c, i, N, R)
       \/ \E e \in Item : \/ RemovedEvidence(c, e)
                          \/ UpdatedEvidence(c, e)
                          \/ Presented(c, e)
  \/ ToggledInventory

ObserverSpec == ObserverInit /\ [][ObserverNext]_vars

-----------------------------------------------------------------------------
(* Properties *)

(* Every variable holds a value of its kind. *)
TypeOK ==
  /\ EvidenceTypeOK
  /\ shipped \in [Client -> SUBSET Item]
  /\ picture \in [Client -> SUBSET Fact]
  /\ queue \in [Client -> [add : SUBSET Fact, drop : SUBSET Fact]]
  /\ behind \subseteq Client

(* The cache of every observer is what its client may see now, although    *)
(* only some of the changes that matter synchronize it.                    *)
CacheIsVisible == \A c \in Registered : shipped[c] = VisibleItems(c)

(* A connected player sees nothing but what a snapshot of this moment would*)
(* show, and all of that unless its session was taken over while active:   *)
(* after a recovery too, where packets queued before the snapshot arrive   *)
(* after it.                                                               *)
PictureIsTruth ==
  \A c \in Client : status[c] = "Active" =>
    /\ picture[c] \subseteq Snapshot(c)
    /\ c \notin behind => picture[c] = Snapshot(c)

(* A hidden item of an area is shown to who manages the area only, a       *)
(* hidden personal one to its holder and to who manages the area the       *)
(* holder is in, while there.                                              *)
HiddenStaysHidden ==
  \A c \in Client : \A e \in (picture[c] \cap Item) \ revealed :
    IF holder[e] \in Area THEN c \in owners[holder[e]]
    ELSE \/ holder[e] = c
         \/ area[holder[e]] = area[c] /\ c \in owners[area[c]]

=============================================================================
