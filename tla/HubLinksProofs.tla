--------------------------- MODULE HubLinksProofs ---------------------------
(***************************************************************************)
(* What HubLinks.tla promises, for any number of links and any limits, to  *)
(* any callers of create, revoke, configure and close.                     *)
(*                                                                         *)
(* LimitHeld counts links and reserved slots together, so it is inductive  *)
(* only with SlotsAreReturned (a slot given back belonged to a create), and *)
(* that needs Fresh: the number of the next link is not in use.            *)
(***************************************************************************)
EXTENDS HubLinks, FiniteSetTheorems, TLAPS

USE DEF linkVars

(* Links that were not created yet are unused. *)
Fresh == \A l \in Links : l > created => phase[l] = "unused"

(* close() has waited for the creates, then for the deletes. *)
Waited ==
    /\ hub \in {"deletes", "closed"} => Creating = {} /\ links = {}
    /\ hub = "closed" => Deleting = {}

Counts == SlotsAreReturned /\ LimitHeld

LinkInv == LinkTypeOK /\ Fresh /\ Counts /\ Waited

----------------------------------------------------------------------------
(* Counting *)

LEMMA LinksFinite ==
  /\ IsFiniteSet(Links)
  /\ IsFiniteSet(links) /\ Cardinality(links) \in Nat
  /\ IsFiniteSet(Creating) /\ Cardinality(Creating) \in Nat
<1>1. IsFiniteSet(Links)
  BY MaxLinksAssumption, FS_Interval DEF Links
<1>2. links \in SUBSET Links /\ Creating \in SUBSET Links
  BY DEF links, Creating
<1> QED
  BY <1>1, <1>2, FS_Subset, FS_CardinalityType

(* One link enters a phase: how the two sets the Hub counts change. *)
LEMMA OneLinkMoves ==
  ASSUME LinkTypeOK, NEW l \in Links, NEW p \in Phases,
         phase' = [phase EXCEPT ![l] = p]
  PROVE  /\ phase' \in [Links -> Phases]
         /\ links' = IF p = "live" THEN links \cup {l} ELSE links \ {l}
         /\ Creating' = IF p \in {"starting", "failing"} THEN Creating \cup {l}
                                                         ELSE Creating \ {l}
<1>1. phase \in [Links -> Phases]
  BY DEF LinkTypeOK
<1>2. phase'[l] = p /\ \A m \in Links \ {l} : phase'[m] = phase[m]
  BY <1>1
<1>3. phase' \in [Links -> Phases]
  BY <1>1
<1>4. links' = IF p = "live" THEN links \cup {l} ELSE links \ {l}
  BY <1>2 DEF links
<1>5. Creating' = IF p \in {"starting", "failing"} THEN Creating \cup {l}
                                                   ELSE Creating \ {l}
  BY <1>2 DEF Creating
<1> QED BY <1>3, <1>4, <1>5

(* Links of the table are revoked. *)
LEMMA RevokedLinksMove ==
  ASSUME LinkTypeOK, NEW L \in SUBSET links, RevokeAll(L)
  PROVE  /\ phase' \in [Links -> Phases]
         /\ links' = links \ L
         /\ Creating' = Creating
         /\ expired' \subseteq links'
<1>1. L \subseteq Links /\ \A l \in L : phase[l] = "live"
  BY DEF links
<1>2. \A l \in Links : phase'[l] = IF l \in L THEN "stopping" ELSE phase[l]
  BY DEF RevokeAll
<1>3. phase' \in [Links -> Phases]
  BY DEF RevokeAll, LinkTypeOK, Phases
<1>4. links' = links \ L
  BY <1>1, <1>2 DEF links
<1>5. Creating' = Creating
  BY <1>1, <1>2 DEF Creating
<1>6. expired' \subseteq links'
  BY <1>4 DEF RevokeAll, LinkTypeOK
<1> QED BY <1>3, <1>4, <1>5, <1>6

----------------------------------------------------------------------------
(* Every action, reduced to what it does to the counted sets *)

(* A link leaves Creating and its slot is returned, for good or for a      *)
(* place in the table.                                                     *)
SlotReturned ==
    \E l \in Creating :
        /\ Creating' = Creating \ {l} /\ starting' = starting - 1
        /\ links' = links \/ links' = links \cup {l}
        /\ maxActive' = maxActive

SlotTaken ==
    \E l \in Links \ Creating :
        /\ ~CreateRefused
        /\ Creating' = Creating \cup {l} /\ starting' = starting + 1
        /\ links' = links /\ maxActive' = maxActive

TableShrinks ==
    /\ links' \subseteq links
    /\ Creating' = Creating /\ starting' = starting /\ maxActive' = maxActive

LimitChanges ==
    /\ links' = links /\ Creating' = Creating /\ starting' = starting
    /\ maxActive' >= InUse /\ maxActive' \in Nat

LEMMA CountsKept ==
  ASSUME LinkTypeOK, Counts, SlotReturned \/ SlotTaken \/ TableShrinks \/ LimitChanges
  PROVE  Counts' /\ starting' \in Nat
<1> USE LinksFinite
<1>0. starting \in Nat /\ maxActive \in Nat /\ InUse = Cardinality(links) + starting
  BY LimitsAssumption DEF LinkTypeOK, InUse
<1>1. CASE SlotReturned
  <2>1. PICK l \in Creating :
          /\ Creating' = Creating \ {l} /\ starting' = starting - 1
          /\ links' = links \/ links' = links \cup {l}
          /\ maxActive' = maxActive
    BY <1>1 DEF SlotReturned
  <2>2. Cardinality(Creating') = Cardinality(Creating) - 1
    BY <2>1, FS_RemoveElement
  <2>3. Cardinality(Creating') \in Nat
    BY <2>1, FS_RemoveElement, FS_CardinalityType
  <2>4. Cardinality(links') \in Nat /\ Cardinality(links') =< Cardinality(links) + 1
    BY <2>1, FS_AddElement
  <2> QED
    BY <1>0, <2>1, <2>2, <2>3, <2>4 DEF Counts, SlotsAreReturned, LimitHeld, InUse
<1>2. CASE SlotTaken
  <2>1. PICK l \in Links \ Creating :
          /\ ~CreateRefused
          /\ Creating' = Creating \cup {l} /\ starting' = starting + 1
          /\ links' = links /\ maxActive' = maxActive
    BY <1>2 DEF SlotTaken
  <2>2. Cardinality(Creating') = Cardinality(Creating) + 1
    BY <2>1, FS_AddElement
  <2>3. InUse < maxActive
    BY <1>0, <2>1 DEF CreateRefused
  <2> QED
    BY <1>0, <2>1, <2>2, <2>3 DEF Counts, SlotsAreReturned, LimitHeld, InUse
<1>3. CASE TableShrinks
  <2>1. Cardinality(links') \in Nat /\ Cardinality(links') =< Cardinality(links)
    BY <1>3, FS_Subset, FS_CardinalityType DEF TableShrinks
  <2> QED
    BY <1>0, <1>3, <2>1 DEF TableShrinks, Counts, SlotsAreReturned, LimitHeld, InUse
<1>4. CASE LimitChanges
  BY <1>0, <1>4 DEF LimitChanges, Counts, SlotsAreReturned, LimitHeld, InUse
<1> QED BY <1>1, <1>2, <1>3, <1>4

(* What a step has to show so that the invariant is kept. *)
Typed ==
    /\ phase' \in [Links -> Phases] /\ created' \in 0..MaxLinks
    /\ maxActive' \in Limits /\ lasting' \subseteq Links
    /\ expired' \subseteq links' /\ hub' \in HubStates

Kept ==
    /\ Typed /\ Fresh' /\ Waited'
    /\ SlotReturned \/ SlotTaken \/ TableShrinks \/ LimitChanges

LEMMA KeptSuffices ==
  ASSUME LinkInv, Kept PROVE LinkInv'
<1>1. Counts' /\ starting' \in Nat
  BY CountsKept DEF LinkInv, Kept
<1>2. LinkTypeOK'
  BY <1>1 DEF Kept, Typed, LinkTypeOK
<1> QED BY <1>1, <1>2 DEF LinkInv, Kept

----------------------------------------------------------------------------
(* The actions *)

LEMMA CreateKept ==
  ASSUME LinkInv, NEW forever \in BOOLEAN, Create(forever) PROVE Kept
<1> USE DEF LinkInv
<1>1. NextLink \in Links /\ NextLink \notin Creating \cup links /\ NextLink \in 0..MaxLinks
  <2>1. created \in Nat /\ created < MaxLinks /\ MaxLinks \in Nat
    BY MaxLinksAssumption DEF Create, LinkTypeOK
  <2>2. NextLink \in Links /\ NextLink > created /\ NextLink \in 0..MaxLinks
    BY <2>1 DEF NextLink, Links
  <2> QED BY <2>2 DEF Fresh, Creating, links
<1>2. /\ phase' \in [Links -> Phases]
      /\ links' = links \ {NextLink}
      /\ Creating' = Creating \cup {NextLink}
  BY <1>1, OneLinkMoves DEF Create, Phases
<1>3. Typed
  BY <1>1, <1>2 DEF Create, Typed, LinkTypeOK
<1>4. Fresh'
  <2> SUFFICES ASSUME NEW l \in Links, l > created' PROVE phase'[l] = "unused"
    BY DEF Fresh
  <2>1. created' = created + 1 /\ created \in Nat /\ l \in Nat
    BY DEF Create, NextLink, LinkTypeOK, Links
  <2>2. l > created /\ l # NextLink
    BY <2>1 DEF NextLink
  <2> QED BY <2>2 DEF Create, LinkTypeOK, Fresh
<1>5. Waited'
  BY DEF Create, CreateRefused, Waited
<1>6. SlotTaken
  <2>1. NextLink \in Links \ Creating
    BY <1>1
  <2>2. links' = links
    BY <1>1, <1>2
  <2>3. starting' = starting + 1 /\ maxActive' = maxActive /\ ~CreateRefused
    BY DEF Create
  <2> QED BY <1>2, <2>1, <2>2, <2>3 DEF SlotTaken
<1> QED BY <1>3, <1>4, <1>5, <1>6 DEF Kept

(* A link that moves on was created before. *)
LEMMA MovedStaysFresh ==
  ASSUME LinkInv, NEW l \in Links, phase[l] # "unused", NEW p \in Phases,
         phase' = [phase EXCEPT ![l] = p], created' = created
  PROVE  Fresh'
  BY DEF LinkInv, LinkTypeOK, Fresh

LEMMA WorkerReadyKept ==
  ASSUME LinkInv, NEW l \in Links, WorkerReady(l) PROVE Kept
<1> USE DEF LinkInv
<1>1. l \in Creating /\ l \notin links
  BY DEF WorkerReady, Creating, links
<1>2. PICK p \in {"live", "failing"} : phase' = [phase EXCEPT ![l] = p]
  BY DEF WorkerReady
<1>3. /\ phase' \in [Links -> Phases]
      /\ links' = IF p = "live" THEN links \cup {l} ELSE links \ {l}
      /\ Creating' = IF p \in {"starting", "failing"} THEN Creating \cup {l}
                                                      ELSE Creating \ {l}
  BY <1>2, OneLinkMoves DEF Phases
<1>4. Typed
  BY <1>1, <1>3 DEF WorkerReady, Typed, LinkTypeOK
<1>5. Fresh'
  BY <1>2, MovedStaysFresh DEF WorkerReady, Phases
<1>6. Waited'
  BY <1>1 DEF WorkerReady, Waited, HubStates
<1>7. SlotReturned \/ TableShrinks
  <2>1. phase[l] = "starting" /\ maxActive' = maxActive /\ phase'[l] = p
    BY <1>2 DEF WorkerReady, LinkTypeOK
  <2>2. CASE hub = "open"
    <3>1. p = "live" /\ starting' = starting - 1
      BY <2>1, <2>2 DEF WorkerReady, LinkTypeOK
    <3> QED BY <1>1, <1>3, <2>1, <3>1 DEF SlotReturned
  <2>3. CASE hub # "open"
    <3>1. p = "failing" /\ starting' = starting
      BY <2>1, <2>3 DEF WorkerReady, LinkTypeOK
    <3> QED BY <1>1, <1>3, <2>1, <3>1 DEF TableShrinks
  <2> QED BY <2>2, <2>3
<1> QED BY <1>4, <1>5, <1>6, <1>7 DEF Kept

LEMMA CreateFailsKept ==
  ASSUME LinkInv, NEW l \in Links, CreateFails(l) PROVE Kept
<1> USE DEF LinkInv
<1>1. l \in Creating /\ l \notin links
  BY DEF CreateFails, Creating, links
<1>2. phase' \in [Links -> Phases] /\ links' = links /\ Creating' = Creating \ {l}
  <2>1. phase' = [phase EXCEPT ![l] = "failed"] /\ "failed" \in Phases
    BY DEF CreateFails, Phases
  <2>2. /\ phase' \in [Links -> Phases]
        /\ links' = links \ {l} /\ Creating' = Creating \ {l}
    BY <2>1, OneLinkMoves
  <2> QED BY <1>1, <2>2
<1>3. Typed
  BY <1>2 DEF CreateFails, Typed, LinkTypeOK
<1>4. Fresh'
  BY <1>1, MovedStaysFresh DEF CreateFails, Creating, Phases
<1>5. Waited'
  BY <1>1 DEF CreateFails, Waited
<1>6. SlotReturned
  BY <1>1, <1>2 DEF CreateFails, SlotReturned
<1> QED BY <1>3, <1>4, <1>5, <1>6 DEF Kept

(* Revocations: what they share, wherever they come from. *)
LEMMA RevokeAllKept ==
  ASSUME LinkInv, NEW L \in SUBSET links, RevokeAll(L),
         UNCHANGED <<created, starting, maxActive, lasting>>, hub' \in HubStates
  PROVE  Typed /\ Fresh' /\ TableShrinks /\ links' = links \ L /\ Creating' = Creating
<1> USE DEF LinkInv
<1>1. /\ phase' \in [Links -> Phases]
      /\ links' = links \ L /\ Creating' = Creating /\ expired' \subseteq links'
  BY RevokedLinksMove
<1>2. Typed
  BY <1>1 DEF Typed, LinkTypeOK
<1>3. Fresh'
  <2> SUFFICES ASSUME NEW l \in Links, l > created PROVE phase'[l] = "unused"
    BY DEF Fresh
  <2>1. phase[l] = "unused"
    BY DEF Fresh
  <2> QED BY <2>1 DEF RevokeAll, links
<1> QED BY <1>1, <1>2, <1>3 DEF TableShrinks

LEMMA RevokeKept ==
  ASSUME LinkInv, NEW l \in Links, Revoke(l) PROVE Kept
<1>1. {l} \in SUBSET links /\ RevokeAll({l}) /\ hub' = hub /\ hub \in HubStates
  BY DEF Revoke, LinkInv, LinkTypeOK
<1>2. Typed /\ Fresh' /\ TableShrinks
  BY <1>1, RevokeAllKept DEF Revoke
<1>3. Waited'
  BY <1>1 DEF LinkInv, Waited
<1> QED BY <1>2, <1>3 DEF Kept

LEMMA SweepKept ==
  ASSUME LinkInv, Sweep PROVE Kept
<1>1. expired \in SUBSET links /\ hub' = "open"
  BY DEF Sweep, LinkInv, LinkTypeOK
<1>2. Typed /\ Fresh' /\ TableShrinks
  BY <1>1, RevokeAllKept DEF Sweep, HubStates
<1>3. Waited'
  BY <1>1 DEF Waited
<1> QED BY <1>2, <1>3 DEF Kept

LEMMA CreatesSettledKept ==
  ASSUME LinkInv, CreatesSettled PROVE Kept
<1>1. Typed /\ Fresh' /\ TableShrinks /\ links' = {} /\ Creating' = {}
  BY RevokeAllKept DEF CreatesSettled, HubStates
<1>2. Waited'
  BY <1>1 DEF CreatesSettled, Waited
<1> QED BY <1>1, <1>2 DEF Kept

LEMMA WorkerClosedKept ==
  ASSUME LinkInv, NEW l \in Links, WorkerClosed(l) PROVE Kept
<1> USE DEF LinkInv
<1>1. phase' \in [Links -> Phases] /\ links' = links /\ Creating' = Creating
  <2>1. l \notin links /\ l \notin Creating
    BY DEF WorkerClosed, links, Creating
  <2>2. phase' = [phase EXCEPT ![l] = "gone"] /\ "gone" \in Phases
    BY DEF WorkerClosed, Phases
  <2>3. /\ phase' \in [Links -> Phases]
        /\ links' = links \ {l} /\ Creating' = Creating \ {l}
    BY <2>2, OneLinkMoves
  <2> QED BY <2>1, <2>3
<1>2. Typed
  BY <1>1 DEF WorkerClosed, Typed, LinkTypeOK
<1>3. Fresh'
  BY MovedStaysFresh DEF WorkerClosed, Phases
<1>4. l \in Deleting /\ hub' = hub
  BY DEF WorkerClosed, Deleting
<1>5. Waited'
  BY <1>1, <1>4 DEF Waited
<1>6. TableShrinks
  BY <1>1 DEF WorkerClosed, TableShrinks
<1> QED BY <1>2, <1>3, <1>5, <1>6 DEF Kept

(* The steps that move no link. *)
LEMMA OthersKept ==
  ASSUME LinkInv,
         \/ \E l \in Links : Expire(l)
         \/ \E limit \in Limits : Configure(limit)
         \/ CloseHub \/ ListenersClosed \/ DeletesSettled
  PROVE  Kept
<1> USE DEF LinkInv
<1>1. /\ UNCHANGED <<phase, created, starting, lasting>>
      /\ expired' = expired \/ \E l \in links : expired' = expired \cup {l}
      /\ hub' \in HubStates
  BY DEF Expire, Configure, CloseHub, ListenersClosed, DeletesSettled, HubStates, LinkTypeOK
<1>2. links' = links /\ Creating' = Creating /\ Deleting' = Deleting
  BY <1>1 DEF links, Creating, Deleting
<1>3. \/ maxActive' = maxActive
      \/ maxActive' \in Limits /\ maxActive' >= InUse
  BY DEF Expire, Configure, CloseHub, ListenersClosed, DeletesSettled
<1>4. Typed
  BY <1>1, <1>2, <1>3 DEF Typed, LinkTypeOK
<1>5. Fresh'
  BY <1>1 DEF Fresh
<1>6. \/ hub' = hub
      \/ hub' \in {"closing", "creates"}
      \/ hub = "deletes" /\ hub' = "closed" /\ Deleting = {}
  BY DEF Expire, Configure, CloseHub, ListenersClosed, DeletesSettled
<1>7. Waited'
  BY <1>2, <1>6 DEF Waited
<1>8. TableShrinks \/ LimitChanges
  BY <1>1, <1>2, <1>3, LimitsAssumption DEF TableShrinks, LimitChanges
<1> QED BY <1>4, <1>5, <1>7, <1>8 DEF Kept

----------------------------------------------------------------------------
LEMMA InitLinkInv == LinkInit => LinkInv
<1> SUFFICES ASSUME LinkInit PROVE LinkInv
  OBVIOUS
<1>1. links = {} /\ Creating = {}
  BY DEF LinkInit, links, Creating
<1>2. LinkTypeOK
  BY <1>1, MaxLinksAssumption DEF LinkInit, LinkTypeOK, Phases, HubStates
<1>3. Fresh /\ Waited
  BY DEF LinkInit, Fresh, Waited
<1>4. Cardinality(links) = 0 /\ Cardinality(Creating) = 0
  BY <1>1, FS_EmptySet
<1>5. starting = 0 /\ maxActive \in Nat
  BY LimitsAssumption DEF LinkInit
<1>6. Counts
  BY <1>4, <1>5 DEF Counts, SlotsAreReturned, LimitHeld, InUse
<1> QED BY <1>2, <1>3, <1>6 DEF LinkInv

LEMMA NextLinkInv == LinkInv /\ [LinkNext]_linkVars => LinkInv'
<1> SUFFICES ASSUME LinkInv, [LinkNext]_linkVars PROVE LinkInv'
  OBVIOUS
<1>1. CASE LinkNext
  <2>1. Kept
    BY <1>1, CreateKept, WorkerReadyKept, CreateFailsKept, RevokeKept, SweepKept,
       CreatesSettledKept, WorkerClosedKept, OthersKept DEF LinkNext
  <2> QED BY <2>1, KeptSuffices
<1>2. CASE UNCHANGED linkVars
  BY <1>2 DEF LinkInv, LinkTypeOK, Fresh, Counts, SlotsAreReturned, LimitHeld, InUse,
              Waited, links, Creating, Deleting
<1> QED BY <1>1, <1>2

LEMMA LinkInvHolds == LinkSpec => []LinkInv
  BY InitLinkInv, NextLinkInv, PTL DEF LinkSpec

(* The Hub's state is well formed, whoever calls it: expired links are in  *)
(* the table until they are revoked (hub/manager.mjs).                     *)
THEOREM LinksAreTyped == LinkSpec => []LinkTypeOK
<1>1. LinkInv => LinkTypeOK
  BY DEF LinkInv
<1> QED BY <1>1, LinkInvHolds, PTL

(* `starting' counts the creates under way, so no way out of createInner   *)
(* loses a slot or gives one back twice.                                   *)
THEOREM SlotsReturned == LinkSpec => []SlotsAreReturned
<1>1. LinkInv => SlotsAreReturned
  BY DEF LinkInv, Counts
<1> QED BY <1>1, LinkInvHolds, PTL

(* maxActive bounds links and pending creates together at all times, also  *)
(* across configure().                                                     *)
THEOREM LimitIsHeld == LinkSpec => []LimitHeld
<1>1. LinkInv => LimitHeld
  BY DEF LinkInv, Counts
<1> QED BY <1>1, LinkInvHolds, PTL

(* close() resolves only when no worker starts, serves or stops.           *)
THEOREM CloseIsQuiet == LinkSpec => []ClosedIsQuiet
<1>1. LinkInv => ClosedIsQuiet
  <2> SUFFICES ASSUME LinkInv, hub = "closed", NEW l \in Links
               PROVE  phase[l] \in {"unused", "failed", "gone"}
    BY DEF ClosedIsQuiet
  <2>1. l \notin links /\ l \notin Creating /\ l \notin Deleting
    BY DEF LinkInv, Waited
  <2> QED BY <2>1 DEF LinkInv, LinkTypeOK, Phases, links, Creating, Deleting
<1> QED BY <1>1, LinkInvHolds, PTL
=============================================================================
