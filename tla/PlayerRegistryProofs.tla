----------------------- MODULE PlayerRegistryProofs ------------------------
(***************************************************************************)
(* Proofs about PlayerRegistry, for any players, ids, guids, kinds and     *)
(* places.  Nothing but the constants' assumptions is used.                *)
(***************************************************************************)
EXTENDS PlayerRegistry, TLAPS

\* What the histories hold, and that a place is taken only by a player that is there.
HeldInv ==
  /\ \A p \in Player : life[p] = "none" => heldID[p] = {} /\ heldGuid[p] = {}
  /\ \A p \in Player, k \in Kind : life[p] = "none" => place[p][k] = 0
  /\ \A p \in Player : life[p] # "none" =>
        playerID[p] \in heldID[p] /\ playerGuid[p] \in heldGuid[p]
  /\ \A e \in m_players : e.playerGuid \in heldGuid[e.player]
  /\ \A id \in PlayerID, g \in Guid : <<id, g>> \in outdated =>
        \E q \in Player : id \in heldID[q] /\ g \in heldGuid[q]

\* An entry of a player whose guid was not changed under it has that guid, and its
\* player is the container's.
OwnInv ==
  /\ \A e \in m_players :
        \/ e.player \in rekeyed
        \/ life[e.player] = "container" /\ e.playerGuid = playerGuid[e.player]
  /\ \A p \in rekeyed : life[p] # "none"

\* p is there under the keys and at the place that e lists, and the observers were told
\* of that place.
ListedBy(e, p) == /\ life[p] \in {"app", "container"} /\ e.kind \notin silent[p]
                  /\ place[p][e.kind] = e.place
                  /\ playerID[p] = e.playerID /\ playerGuid[p] = e.playerGuid

Listed(e) == \/ \E p \in Player : ListedBy(e, p)
             \/ <<e.playerID, e.playerGuid>> \in outdated

\* GroupsTrue, and the observers were told of the place of the player that an entry lists.
ListInv == \A e \in m_serverPlayers : Listed(e)

\* A player that PlacedIsGrouped speaks of, and the entry it promises.
Attended(p, k) ==
  /\ Known(p) /\ place[p][k] # 0 /\ k \notin silent[p]
  /\ \A q \in Player \ {p} : heldID[q] \cap heldID[p] = {}
  /\ \A id \in heldID[p], g \in heldGuid[p] : <<id, g>> \notin outdated

Entry(p, k) == [kind |-> k, place |-> place[p][k], playerID |-> playerID[p],
                playerGuid |-> playerGuid[p]]

\* The inductive invariant.
IInv == TypeOK /\ HeldInv /\ OwnInv /\ ListInv /\ KeptUnlessGuidShared /\ PlacedIsGrouped
-----------------------------------------------------------------------------

\* No step takes the state out of its types or puts a key in twice.
LEMMA TypeStep ==
  ASSUME TypeOK, [Next]_vars
  PROVE  TypeOK'
<1>1. ASSUME NEW p \in Player, NEW id \in PlayerID, NEW g \in Guid, New(p, id, g)
      PROVE  TypeOK'
  BY <1>1, ChangesAssumption, KeysAssumption DEF TypeOK, IndexesOK, PlayerDetailWrapper,
        Member, New, Construct, keys, history
<1>2. ASSUME NEW p \in Player, NEW id \in PlayerID, NEW g \in Guid, AddNew(p, id, g)
      PROVE  TypeOK'
  <2>1. m_players' \subseteq PlayerDetailWrapper
    BY <1>2 DEF TypeOK, AddNew, Construct, Wrapper, PlayerDetailWrapper
  <2>2. \A e, f \in m_players' : e.playerGuid = f.playerGuid => e = f
    BY <1>2 DEF TypeOK, IndexesOK, AddNew, CanInsert, Wrapper
  <2>3. life' \in [Player -> {"none", "app", "container", "leaked", "freed"}]
    BY <1>2 DEF TypeOK, AddNew
  <2>4. /\ playerID' \in [Player -> PlayerID] /\ playerGuid' \in [Player -> Guid]
        /\ heldID' \in [Player -> SUBSET PlayerID] /\ heldGuid' \in [Player -> SUBSET Guid]
        /\ container' \in [Player -> BOOLEAN]
    BY <1>2 DEF TypeOK, AddNew, Construct
  <2>5. QED
    BY <1>2, <2>1, <2>2, <2>3, <2>4
    DEF TypeOK, IndexesOK, AddNew, Construct
<1>3. ASSUME NEW p \in Player, Add(p)
      PROVE  TypeOK'
  <2>1. m_players' \subseteq PlayerDetailWrapper
    BY <1>3 DEF TypeOK, Add, Wrapper, PlayerDetailWrapper
  <2>2. \A e, f \in m_players' : e.playerGuid = f.playerGuid => e = f
    BY <1>3 DEF TypeOK, IndexesOK, Add, CanInsert, Wrapper
  <2>3. QED
    BY <1>3, <2>1, <2>2 DEF TypeOK, IndexesOK, Add, keys, history
<1>4. ASSUME NEW p \in Player, Remove(p)
      PROVE  TypeOK'
  BY <1>4, ChangesAssumption, KeysAssumption DEF TypeOK, IndexesOK, PlayerDetailWrapper,
        Member, Remove, Known, SameKey, keys, history
<1>5. ASSUME NEW p \in Player, Destroy(p)
      PROVE  TypeOK'
  BY <1>5, ChangesAssumption, KeysAssumption DEF TypeOK, IndexesOK, PlayerDetailWrapper,
        Member, Destroy, Free, Unheard, Leaves, keys, history
<1>6. ASSUME NEW p \in Player, NEW k \in Kind, NEW new \in Place \cup {0}, SetPlace(p, k, new)
      PROVE  TypeOK'
  <2>1. place' \in [Player -> [Kind -> Place \cup {0}]]
    BY <1>6 DEF TypeOK, SetPlace, Notify
  <2>2. m_serverPlayers' \subseteq Member
    BY <1>6 DEF TypeOK, SetPlace, Notify, Update, AddPlayer, DeletePlayer, Member
  <2>3. \A e, f \in m_serverPlayers' :
          e.kind = f.kind /\ e.place = f.place /\ e.playerID = f.playerID => e = f
    BY <1>6 DEF TypeOK, IndexesOK, SetPlace, Notify, Update, AddPlayer, DeletePlayer
  <2>4. silent' \in [Player -> SUBSET Kind]
    BY <1>6 DEF TypeOK, SetPlace, Notify
  <2>5. outdated' \subseteq PlayerID \X Guid
    BY <1>6 DEF TypeOK, SetPlace, Unheard
  <2>6. QED
    BY <1>6, <2>1, <2>2, <2>3, <2>4, <2>5 DEF TypeOK, IndexesOK, SetPlace, Notify, keys
<1>7. ASSUME NEW p \in Player, NEW id \in PlayerID, SetPlayerID(p, id)
      PROVE  TypeOK'
  BY <1>7, ChangesAssumption, KeysAssumption DEF TypeOK, IndexesOK, PlayerDetailWrapper,
        Member, SetPlayerID, Known, Outdate, Placed, keys, history
<1>8. ASSUME NEW p \in Player, NEW g \in Guid, SetPlayerGuid(p, g)
      PROVE  TypeOK'
  BY <1>8, ChangesAssumption, KeysAssumption DEF TypeOK, IndexesOK, PlayerDetailWrapper,
        Member, SetPlayerGuid, Known, Outdate, Placed, Indexed, keys, history
<1>9. ASSUME NEW id \in PlayerID, Delete(id)
      PROVE  TypeOK'
  BY <1>9, ChangesAssumption, KeysAssumption DEF TypeOK, IndexesOK, PlayerDetailWrapper,
        Member, Delete, Free, Unheard, Leaves, Erase, keys, history
<1>10. ASSUME Shutdown
      PROVE  TypeOK'
  BY <1>10, ChangesAssumption, KeysAssumption DEF TypeOK, IndexesOK, PlayerDetailWrapper,
        Member, Shutdown, DeleteAll, Indexed, keys, history
<1>11. ASSUME UNCHANGED vars
      PROVE  TypeOK'
  BY <1>11, ChangesAssumption, KeysAssumption DEF TypeOK, IndexesOK, PlayerDetailWrapper,
        Member, vars, keys, history
<1>12. ASSUME NEW p \in Player, SetContainer(p)
      PROVE  TypeOK'
  BY <1>12, ChangesAssumption, KeysAssumption DEF TypeOK, IndexesOK, PlayerDetailWrapper,
        Member, SetContainer, Known, keys, history
<1>13. QED
  BY <1>1, <1>2, <1>3, <1>4, <1>5, <1>6, <1>7, <1>8, <1>9, <1>10, <1>11, <1>12 DEF Next

\* The histories only grow, except that a constructor starts them.
LEMMA HeldStep ==
  ASSUME TypeOK, HeldInv, [Next]_vars
  PROVE  HeldInv'
<1>1. ASSUME NEW p \in Player, NEW id \in PlayerID, NEW g \in Guid, New(p, id, g)
      PROVE  HeldInv'
  <2>1. life[p] = "none" /\ heldID[p] = {} /\ heldGuid[p] = {}
    BY <1>1 DEF HeldInv, New, Construct
  <2>2. /\ life'[p] # "none" /\ heldID'[p] = {id} /\ heldGuid'[p] = {g}
        /\ playerID'[p] = id /\ playerGuid'[p] = g
        /\ UNCHANGED <<place, outdated>>
    BY <1>1 DEF TypeOK, New, Construct
  <2>3. \A q \in Player : q # p =>
          /\ life'[q] = life[q] /\ playerID'[q] = playerID[q] /\ playerGuid'[q] = playerGuid[q]
          /\ heldID'[q] = heldID[q] /\ heldGuid'[q] = heldGuid[q]
    BY <1>1 DEF TypeOK, New, Construct
  <2>4. \A e \in m_players' : e.playerGuid \in heldGuid'[e.player]
    BY <1>1, <2>1, <2>2, <2>3 DEF TypeOK, HeldInv, PlayerDetailWrapper, New
  <2>5. \A i \in PlayerID, h \in Guid : <<i, h>> \in outdated' =>
          \E q \in Player : i \in heldID'[q] /\ h \in heldGuid'[q]
    BY <2>1, <2>2, <2>3 DEF HeldInv
  <2>6. QED
    BY <2>2, <2>3, <2>4, <2>5 DEF HeldInv
<1>2. ASSUME NEW p \in Player, NEW id \in PlayerID, NEW g \in Guid, AddNew(p, id, g)
      PROVE  HeldInv'
  <2>1. life[p] = "none" /\ heldID[p] = {} /\ heldGuid[p] = {}
    BY <1>2 DEF HeldInv, AddNew, Construct
  <2>2. /\ life'[p] # "none" /\ heldID'[p] = {id} /\ heldGuid'[p] = {g}
        /\ playerID'[p] = id /\ playerGuid'[p] = g
        /\ UNCHANGED <<place, outdated>>
    BY <1>2 DEF TypeOK, AddNew, Construct
  <2>3. \A q \in Player : q # p =>
          /\ life'[q] = life[q] /\ playerID'[q] = playerID[q] /\ playerGuid'[q] = playerGuid[q]
          /\ heldID'[q] = heldID[q] /\ heldGuid'[q] = heldGuid[q]
    BY <1>2 DEF TypeOK, AddNew, Construct
  <2>4. \A e \in m_players' : e.playerGuid \in heldGuid'[e.player]
    BY <1>2, <2>1, <2>2, <2>3 DEF TypeOK, HeldInv, PlayerDetailWrapper, AddNew, CanInsert, Wrapper
  <2>5. \A i \in PlayerID, h \in Guid : <<i, h>> \in outdated' =>
          \E q \in Player : i \in heldID'[q] /\ h \in heldGuid'[q]
    BY <2>1, <2>2, <2>3 DEF HeldInv
  <2>6. QED
    BY <2>2, <2>3, <2>4, <2>5 DEF HeldInv
<1>3. ASSUME NEW p \in Player, Add(p)
      PROVE  HeldInv'
  BY <1>3 DEF TypeOK, HeldInv, Add, Known, CanInsert, Wrapper, keys, history
<1>4. ASSUME NEW p \in Player, Remove(p)
      PROVE  HeldInv'
  BY <1>4 DEF TypeOK, HeldInv, Remove, Known, SameKey, keys, history
<1>5. ASSUME NEW p \in Player, Destroy(p)
      PROVE  HeldInv'
  BY <1>5 DEF TypeOK, HeldInv, Destroy, Free, Unheard, Leaves, keys, history
<1>6. ASSUME NEW p \in Player, NEW k \in Kind, NEW new \in Place \cup {0}, SetPlace(p, k, new)
      PROVE  HeldInv'
  BY <1>6 DEF TypeOK, HeldInv, SetPlace, Unheard, Notify, Known, keys, history
<1>7. ASSUME NEW p \in Player, NEW id \in PlayerID, SetPlayerID(p, id)
      PROVE  HeldInv'
  BY <1>7 DEF TypeOK, HeldInv, SetPlayerID, Known, Outdate, Placed, keys, history
<1>8. ASSUME NEW p \in Player, NEW g \in Guid, SetPlayerGuid(p, g)
      PROVE  HeldInv'
  BY <1>8 DEF TypeOK, HeldInv, SetPlayerGuid, Known, Outdate, Placed, Indexed, keys, history
<1>9. ASSUME NEW id \in PlayerID, Delete(id)
      PROVE  HeldInv'
  BY <1>9 DEF TypeOK, PlayerDetailWrapper, HeldInv, Delete, Free, Unheard, Erase, keys, history
<1>10. ASSUME Shutdown
      PROVE  HeldInv'
  BY <1>10 DEF TypeOK, HeldInv, Shutdown, DeleteAll, Indexed, keys, history
<1>11. ASSUME UNCHANGED vars
      PROVE  HeldInv'
  BY <1>11 DEF TypeOK, HeldInv, vars, keys, history
<1>12. ASSUME NEW p \in Player, SetContainer(p)
      PROVE  HeldInv'
  BY <1>12 DEF TypeOK, HeldInv, SetContainer, Known, keys, history
<1>13. QED
  BY <1>1, <1>2, <1>3, <1>4, <1>5, <1>6, <1>7, <1>8, <1>9, <1>10, <1>11, <1>12 DEF Next

\* A guid that stays under its entry leads back to it.
LEMMA OwnStep ==
  ASSUME TypeOK, HeldInv, OwnInv, [Next]_vars
  PROVE  OwnInv'
<1>1. ASSUME NEW p \in Player, NEW id \in PlayerID, NEW g \in Guid, New(p, id, g)
      PROVE  OwnInv'
  BY <1>1 DEF TypeOK, IndexesOK, PlayerDetailWrapper, HeldInv, OwnInv, New, Construct, keys,
        history
<1>2. ASSUME NEW p \in Player, NEW id \in PlayerID, NEW g \in Guid, AddNew(p, id, g)
      PROVE  OwnInv'
  BY <1>2 DEF TypeOK, IndexesOK, PlayerDetailWrapper, HeldInv, OwnInv, AddNew, Construct,
        CanInsert, Wrapper, keys, history
<1>3. ASSUME NEW p \in Player, Add(p)
      PROVE  OwnInv'
  BY <1>3 DEF TypeOK, IndexesOK, PlayerDetailWrapper, HeldInv, OwnInv, Add, Known, CanInsert,
        Wrapper, keys, history
<1>4. ASSUME NEW p \in Player, Remove(p)
      PROVE  OwnInv'
  BY <1>4 DEF TypeOK, IndexesOK, PlayerDetailWrapper, HeldInv, OwnInv, Remove, Known,
        SameKey, keys, history
<1>5. ASSUME NEW p \in Player, Destroy(p)
      PROVE  OwnInv'
  BY <1>5 DEF TypeOK, IndexesOK, PlayerDetailWrapper, HeldInv, OwnInv, Destroy, Free, Leaves,
        keys, history
<1>6. ASSUME NEW p \in Player, NEW k \in Kind, NEW new \in Place \cup {0}, SetPlace(p, k, new)
      PROVE  OwnInv'
  BY <1>6 DEF TypeOK, IndexesOK, PlayerDetailWrapper, HeldInv, OwnInv, SetPlace, Notify, Known,
        Update, AddPlayer, DeletePlayer, keys, history
<1>7. ASSUME NEW p \in Player, NEW id \in PlayerID, SetPlayerID(p, id)
      PROVE  OwnInv'
  BY <1>7 DEF TypeOK, IndexesOK, PlayerDetailWrapper, HeldInv, OwnInv, SetPlayerID, Known,
        Outdate, Placed, keys, history
<1>8. ASSUME NEW p \in Player, NEW g \in Guid, SetPlayerGuid(p, g)
      PROVE  OwnInv'
  BY <1>8 DEF TypeOK, IndexesOK, PlayerDetailWrapper, HeldInv, OwnInv, SetPlayerGuid, Known,
        Outdate, Placed, Indexed, keys, history
<1>9. ASSUME NEW id \in PlayerID, Delete(id)
      PROVE  OwnInv'
  BY <1>9 DEF TypeOK, IndexesOK, PlayerDetailWrapper, HeldInv, OwnInv, Delete, Free, Leaves,
        Erase, keys, history
<1>10. ASSUME Shutdown
      PROVE  OwnInv'
  BY <1>10 DEF TypeOK, IndexesOK, PlayerDetailWrapper, HeldInv, OwnInv, Shutdown, DeleteAll,
      Indexed,
        keys, history
<1>11. ASSUME UNCHANGED vars
      PROVE  OwnInv'
  BY <1>11 DEF TypeOK, IndexesOK, PlayerDetailWrapper, HeldInv, OwnInv, vars, keys, history
<1>12. ASSUME NEW p \in Player, SetContainer(p)
      PROVE  OwnInv'
  BY <1>12 DEF TypeOK, IndexesOK, PlayerDetailWrapper, HeldInv, OwnInv, SetContainer, Known,
        keys, history
<1>13. QED
  BY <1>1, <1>2, <1>3, <1>4, <1>5, <1>6, <1>7, <1>8, <1>9, <1>10, <1>11, <1>12 DEF Next

\* Whoever leaves a place or its keys takes its entry along, or the keys are
\* recorded.
LEMMA ListStep ==
  ASSUME TypeOK, HeldInv, ListInv, [Next]_vars
  PROVE  ListInv'
<1>1. ASSUME NEW p \in Player, NEW id \in PlayerID, NEW g \in Guid, New(p, id, g)
      PROVE  ListInv'
  <2> SUFFICES ASSUME NEW e \in m_serverPlayers'
               PROVE  Listed(e)'
    BY DEF ListInv
  <2>1. /\ e \in m_serverPlayers /\ Listed(e) /\ outdated' = outdated /\ life[p] = "none"
        /\ \A q \in Player : q # p => /\ life'[q] = life[q]
                                      /\ playerID'[q] = playerID[q]
                                      /\ playerGuid'[q] = playerGuid[q]
        /\ place' = place /\ silent' = silent
    BY <1>1 DEF TypeOK, ListInv, New, Construct
  <2>2. ASSUME NEW q \in Player, ListedBy(e, q)
        PROVE  ListedBy(e, q)'
    BY <2>1, <2>2 DEF ListedBy
  <2>3. QED
    BY <2>1, <2>2 DEF Listed
<1>2. ASSUME NEW p \in Player, NEW id \in PlayerID, NEW g \in Guid, AddNew(p, id, g)
      PROVE  ListInv'
  <2> SUFFICES ASSUME NEW e \in m_serverPlayers'
               PROVE  Listed(e)'
    BY DEF ListInv
  <2>1. /\ e \in m_serverPlayers /\ Listed(e) /\ outdated' = outdated /\ life[p] = "none"
        /\ \A q \in Player : q # p => /\ life'[q] = life[q]
                                      /\ playerID'[q] = playerID[q]
                                      /\ playerGuid'[q] = playerGuid[q]
        /\ place' = place /\ silent' = silent
    BY <1>2 DEF TypeOK, ListInv, AddNew, Construct
  <2>2. ASSUME NEW q \in Player, ListedBy(e, q)
        PROVE  ListedBy(e, q)'
    BY <2>1, <2>2 DEF ListedBy
  <2>3. QED
    BY <2>1, <2>2 DEF Listed
<1>3. ASSUME NEW p \in Player, Add(p)
      PROVE  ListInv'
  <2> SUFFICES ASSUME NEW e \in m_serverPlayers'
               PROVE  Listed(e)'
    BY DEF ListInv
  <2>1. e \in m_serverPlayers /\ Listed(e) /\ outdated' = outdated
    BY <1>3 DEF ListInv, Add, Known, CanInsert, Wrapper, history
  <2>2. ASSUME NEW q \in Player, ListedBy(e, q)
        PROVE  ListedBy(e, q)'
    BY <1>3, <2>2 DEF TypeOK, ListedBy, Add, Known, CanInsert, Wrapper, keys, history
  <2>3. QED
    BY <2>1, <2>2 DEF Listed
<1>4. ASSUME NEW p \in Player, Remove(p)
      PROVE  ListInv'
  <2> SUFFICES ASSUME NEW e \in m_serverPlayers'
               PROVE  Listed(e)'
    BY DEF ListInv
  <2>1. e \in m_serverPlayers /\ Listed(e) /\ outdated' = outdated
    BY <1>4 DEF ListInv, Remove, Known, SameKey, history
  <2>2. ASSUME NEW q \in Player, ListedBy(e, q)
        PROVE  ListedBy(e, q)'
    BY <1>4, <2>2 DEF TypeOK, ListedBy, Remove, Known, SameKey, keys, history
  <2>3. QED
    BY <2>1, <2>2 DEF Listed
<1>5. ASSUME NEW p \in Player, Destroy(p)
      PROVE  ListInv'
  <2>0. Free(p)
    BY <1>5 DEF Destroy
  <2> SUFFICES ASSUME NEW e \in m_serverPlayers'
               PROVE  Listed(e)'
    BY DEF ListInv
  <2>1. e \in m_serverPlayers /\ Listed(e) /\ outdated \subseteq outdated'
    BY <2>0 DEF ListInv, Free, Leaves
  <2>2. ASSUME NEW q \in Player, ListedBy(e, q)
        PROVE  Listed(e)'
    <3>1. CASE q = p
      <4>1. ~container[p]
        BY <2>0, <2>1, <2>2, <3>1 DEF Free, Leaves, ListedBy
      <4>2. e.kind \in Kind /\ e.place # 0
        BY <2>1, KeysAssumption DEF TypeOK, Member
      <4>3. <<e.playerID, e.playerGuid>> \in outdated'
        BY <2>0, <2>2, <3>1, <4>1, <4>2 DEF Free, Unheard, ListedBy
      <4>4. QED
        BY <4>3 DEF Listed
    <3>2. CASE q # p
      BY <2>0, <2>2, <3>2 DEF TypeOK, Free, ListedBy, Listed, keys
    <3>3. QED
      BY <3>1, <3>2
  <2>3. QED
    BY <2>1, <2>2 DEF Listed
<1>6. ASSUME NEW p \in Player, NEW k \in Kind, NEW new \in Place \cup {0}, SetPlace(p, k, new)
      PROVE  ListInv'
  <2> SUFFICES ASSUME NEW e \in m_serverPlayers'
               PROVE  Listed(e)'
    BY DEF ListInv
  <2>0. outdated \subseteq outdated' /\ e \in Member
    <3>1. TypeOK' /\ Member' = Member
      BY <1>6, TypeStep DEF Next, Member
    <3>2. QED
      BY <1>6, <3>1 DEF TypeOK, SetPlace
  <2>1. ASSUME NEW q \in Player, NEW j \in Kind, ~(q = p /\ j = k)
        PROVE  place'[q][j] = place[q][j] /\ (j \in silent'[q] => j \in silent[q])
    BY <1>6, <2>1 DEF TypeOK, SetPlace, Notify
  <2>2. CASE e \in m_serverPlayers
    <3>1. ASSUME NEW q \in Player, ListedBy(e, q)
          PROVE  Listed(e)'
      <4>1. e.kind \in Kind /\ e.place # 0
        BY <2>0, KeysAssumption DEF Member
      <4>2. CASE q = p /\ e.kind = k
        <5>1. ~container[p]
          BY <1>6, <2>2, <3>1, <4>2
          DEF ListedBy, SetPlace, Notify, Update, AddPlayer, DeletePlayer
        <5>2. <<e.playerID, e.playerGuid>> \in outdated'
          BY <1>6, <3>1, <4>1, <4>2, <5>1 DEF ListedBy, SetPlace, Unheard
        <5>3. QED
          BY <5>2 DEF Listed
      <4>3. CASE ~(q = p /\ e.kind = k)
        BY <1>6, <2>1, <3>1, <4>1, <4>3 DEF ListedBy, Listed, SetPlace, keys
      <4>4. QED
        BY <4>2, <4>3
    <3>2. QED
      BY <2>0, <2>2, <3>1 DEF ListInv, Listed
  <2>3. CASE e \notin m_serverPlayers
    <3>1. /\ container[p] /\ e = [kind |-> k, place |-> new, playerID |-> playerID[p],
                                  playerGuid |-> playerGuid[p]]
      BY <1>6, <2>3 DEF SetPlace, Notify, Update, AddPlayer, DeletePlayer
    <3>2. ListedBy(e, p)'
      BY <1>6, <3>1 DEF TypeOK, ListedBy, SetPlace, Notify, Known, keys
    <3>3. QED
      BY <3>2 DEF Listed
  <2>4. QED
    BY <2>2, <2>3
<1>7. ASSUME NEW p \in Player, NEW id \in PlayerID, SetPlayerID(p, id)
      PROVE  ListInv'
  <2> SUFFICES ASSUME NEW e \in m_serverPlayers'
               PROVE  Listed(e)'
    BY DEF ListInv
  <2>1. e \in m_serverPlayers /\ Listed(e) /\ outdated \subseteq outdated'
    BY <1>7 DEF ListInv, SetPlayerID, Outdate
  <2>2. e \in Member
    BY <2>1 DEF TypeOK
  <2>3. ASSUME NEW q \in Player, ListedBy(e, q)
        PROVE  Listed(e)'
    <3>1. CASE q = p
      <4>1. Placed(p)
        BY <2>2, <2>3, <3>1, KeysAssumption DEF ListedBy, Placed, Member
      <4>2. <<e.playerID, e.playerGuid>> \in outdated'
        BY <1>7, <2>3, <3>1, <4>1 DEF ListedBy, SetPlayerID, Outdate
      <4>3. QED
        BY <4>2 DEF Listed
    <3>2. CASE q # p
      BY <1>7, <2>3, <3>2 DEF TypeOK, ListedBy, Listed, SetPlayerID
    <3>3. QED
      BY <3>1, <3>2
  <2>4. QED
    BY <2>1, <2>3 DEF Listed
<1>8. ASSUME NEW p \in Player, NEW g \in Guid, SetPlayerGuid(p, g)
      PROVE  ListInv'
  <2> SUFFICES ASSUME NEW e \in m_serverPlayers'
               PROVE  Listed(e)'
    BY DEF ListInv
  <2>1. e \in m_serverPlayers /\ Listed(e) /\ outdated \subseteq outdated'
    BY <1>8 DEF ListInv, SetPlayerGuid, Outdate
  <2>2. e \in Member
    BY <2>1 DEF TypeOK
  <2>3. ASSUME NEW q \in Player, ListedBy(e, q)
        PROVE  Listed(e)'
    <3>1. CASE q = p
      <4>1. Placed(p)
        BY <2>2, <2>3, <3>1, KeysAssumption DEF ListedBy, Placed, Member
      <4>2. <<e.playerID, e.playerGuid>> \in outdated'
        BY <1>8, <2>3, <3>1, <4>1 DEF ListedBy, SetPlayerGuid, Outdate
      <4>3. QED
        BY <4>2 DEF Listed
    <3>2. CASE q # p
      BY <1>8, <2>3, <3>2 DEF TypeOK, ListedBy, Listed, SetPlayerGuid
    <3>3. QED
      BY <3>1, <3>2
  <2>4. QED
    BY <2>1, <2>3 DEF Listed
<1>9. ASSUME NEW id \in PlayerID, Delete(id)
      PROVE  ListInv'
  <2>0. PICK p \in Player : Free(p)
    BY <1>9 DEF TypeOK, PlayerDetailWrapper, Delete
  <2> SUFFICES ASSUME NEW e \in m_serverPlayers'
               PROVE  Listed(e)'
    BY DEF ListInv
  <2>1. e \in m_serverPlayers /\ Listed(e) /\ outdated \subseteq outdated'
    BY <2>0 DEF ListInv, Free, Leaves
  <2>2. ASSUME NEW q \in Player, ListedBy(e, q)
        PROVE  Listed(e)'
    <3>1. CASE q = p
      <4>1. ~container[p]
        BY <2>0, <2>1, <2>2, <3>1 DEF Free, Leaves, ListedBy
      <4>2. e.kind \in Kind /\ e.place # 0
        BY <2>1, KeysAssumption DEF TypeOK, Member
      <4>3. <<e.playerID, e.playerGuid>> \in outdated'
        BY <2>0, <2>2, <3>1, <4>1, <4>2 DEF Free, Unheard, ListedBy
      <4>4. QED
        BY <4>3 DEF Listed
    <3>2. CASE q # p
      BY <2>0, <2>2, <3>2 DEF TypeOK, Free, ListedBy, Listed, keys
    <3>3. QED
      BY <3>1, <3>2
  <2>3. QED
    BY <2>1, <2>2 DEF Listed
<1>10. ASSUME Shutdown
      PROVE  ListInv'
  BY <1>10 DEF ListInv, Shutdown, DeleteAll
<1>11. ASSUME UNCHANGED vars
      PROVE  ListInv'
  BY <1>11 DEF ListInv, Listed, ListedBy, vars, keys, history
<1>12. ASSUME NEW p \in Player, SetContainer(p)
      PROVE  ListInv'
  BY <1>12 DEF ListInv, Listed, ListedBy, SetContainer, keys, history
<1>13. QED
  BY <1>1, <1>2, <1>3, <1>4, <1>5, <1>6, <1>7, <1>8, <1>9, <1>10, <1>11, <1>12 DEF Next

\* Only the removal of an entry of the same guid takes a player out of the index.
LEMMA KeptStep ==
  ASSUME TypeOK, HeldInv, KeptUnlessGuidShared, [Next]_vars
  PROVE  KeptUnlessGuidShared'
<1>1. ASSUME NEW p \in Player, NEW id \in PlayerID, NEW g \in Guid, New(p, id, g)
      PROVE  KeptUnlessGuidShared'
  BY <1>1 DEF TypeOK, HeldInv, KeptUnlessGuidShared, Indexed, New, Construct, keys, history
<1>2. ASSUME NEW p \in Player, NEW id \in PlayerID, NEW g \in Guid, AddNew(p, id, g)
      PROVE  KeptUnlessGuidShared'
  <2> SUFFICES ASSUME NEW q \in Player, life'[q] = "container",
                      \A r \in Player \ {q} : heldGuid'[r] \cap heldGuid'[q] = {}
               PROVE  Indexed(q)'
    BY Zenon DEF KeptUnlessGuidShared
  <2>1. CASE q = p
    <3>1. Wrapper(p, id, g) \in m_players'
      BY <1>2, <2>1 DEF TypeOK, AddNew
    <3>2. QED
      BY <2>1, <3>1 DEF Wrapper, Indexed
  <2>2. CASE q # p
    <3>1. m_players \subseteq m_players' /\ life[q] = "container"
      BY <1>2, <2>2 DEF TypeOK, AddNew
    <3>2. \A r \in Player : heldGuid[r] \subseteq heldGuid'[r]
      BY <1>2 DEF TypeOK, HeldInv, AddNew, Construct
    <3>3. QED
      BY <3>1, <3>2 DEF KeptUnlessGuidShared, Indexed
  <2>3. QED
    BY <2>1, <2>2
<1>3. ASSUME NEW p \in Player, Add(p)
      PROVE  KeptUnlessGuidShared'
  <2> SUFFICES ASSUME NEW q \in Player, life'[q] = "container",
                      \A r \in Player \ {q} : heldGuid'[r] \cap heldGuid'[q] = {}
               PROVE  Indexed(q)'
    BY Zenon DEF KeptUnlessGuidShared
  <2>1. m_players \subseteq m_players' /\ heldGuid' = heldGuid
    BY <1>3 DEF Add, history
  <2>2. CASE life[q] = "container"
    BY <2>1, <2>2 DEF KeptUnlessGuidShared, Indexed
  <2>3. CASE life[q] # "container"
    <3>1. q = p /\ Wrapper(p, playerID[p], playerGuid[p]) \in m_players'
      BY <1>3, <2>3 DEF TypeOK, Add
    <3>2. QED
      BY <3>1 DEF Wrapper, Indexed
  <2>4. QED
    BY <2>2, <2>3
<1>4. ASSUME NEW p \in Player, Remove(p)
      PROVE  KeptUnlessGuidShared'
  BY <1>4 DEF TypeOK, HeldInv, KeptUnlessGuidShared, Indexed, Remove, Known, SameKey, keys,
        history
<1>5. ASSUME NEW p \in Player, Destroy(p)
      PROVE  KeptUnlessGuidShared'
  <2> SUFFICES ASSUME NEW q \in Player, life'[q] = "container",
                      \A r \in Player \ {q} : heldGuid'[r] \cap heldGuid'[q] = {}
               PROVE  Indexed(q)'
    BY Zenon DEF KeptUnlessGuidShared
  <2>1. life[q] = "container" /\ heldGuid' = heldGuid /\ m_players' = m_players
    BY <1>5 DEF TypeOK, Destroy, Free
  <2>2. QED
    BY <2>1 DEF KeptUnlessGuidShared, Indexed
<1>6. ASSUME NEW p \in Player, NEW k \in Kind, NEW new \in Place \cup {0}, SetPlace(p, k, new)
      PROVE  KeptUnlessGuidShared'
  BY <1>6 DEF TypeOK, HeldInv, KeptUnlessGuidShared, Indexed, SetPlace, Notify, Known, Update,
        AddPlayer, DeletePlayer, keys, history
<1>7. ASSUME NEW p \in Player, NEW id \in PlayerID, SetPlayerID(p, id)
      PROVE  KeptUnlessGuidShared'
  BY <1>7 DEF TypeOK, HeldInv, KeptUnlessGuidShared, Indexed, SetPlayerID, Known, Outdate,
        Placed, keys, history
<1>8. ASSUME NEW p \in Player, NEW g \in Guid, SetPlayerGuid(p, g)
      PROVE  KeptUnlessGuidShared'
  BY <1>8 DEF TypeOK, HeldInv, KeptUnlessGuidShared, Indexed, SetPlayerGuid, Known, Outdate,
        Placed, Indexed, keys, history
<1>9. ASSUME NEW id \in PlayerID, Delete(id)
      PROVE  KeptUnlessGuidShared'
  <2> SUFFICES ASSUME NEW q \in Player, life'[q] = "container",
                      \A r \in Player \ {q} : heldGuid'[r] \cap heldGuid'[q] = {}
               PROVE  Indexed(q)'
    BY Zenon DEF KeptUnlessGuidShared
  <2>1. PICK w \in m_players : Free(w.player) /\ m_players' = m_players \ {w}
    BY <1>9 DEF Delete, Erase
  <2>2. w.player \in Player
    BY DEF TypeOK, PlayerDetailWrapper
  <2>3. life[q] = "container" /\ q # w.player /\ heldGuid' = heldGuid
    BY <2>1, <2>2 DEF TypeOK, Free
  <2>4. Indexed(q)
    BY <2>3 DEF KeptUnlessGuidShared
  <2>5. QED
    BY <2>1, <2>3, <2>4 DEF Indexed
<1>10. ASSUME Shutdown
      PROVE  KeptUnlessGuidShared'
  BY <1>10 DEF TypeOK, HeldInv, KeptUnlessGuidShared, Indexed, Shutdown, DeleteAll, Indexed,
      keys, history
<1>11. ASSUME UNCHANGED vars
      PROVE  KeptUnlessGuidShared'
  BY <1>11 DEF TypeOK, HeldInv, KeptUnlessGuidShared, Indexed, vars, keys, history
<1>12. ASSUME NEW p \in Player, SetContainer(p)
      PROVE  KeptUnlessGuidShared'
  BY <1>12 DEF TypeOK, HeldInv, KeptUnlessGuidShared, Indexed, SetContainer, keys, history
<1>13. QED
  BY <1>1, <1>2, <1>3, <1>4, <1>5, <1>6, <1>7, <1>8, <1>9, <1>10, <1>11, <1>12 DEF Next

\* Only a player of the same id gets in the way of one that notifies.
LEMMA PlacedStep ==
  ASSUME TypeOK, HeldInv, ListInv, PlacedIsGrouped, [Next]_vars
  PROVE  PlacedIsGrouped'
<1>1. ASSUME NEW p \in Player, NEW id \in PlayerID, NEW g \in Guid, New(p, id, g)
      PROVE  PlacedIsGrouped'
  <2> SUFFICES ASSUME NEW q \in Player, NEW j \in Kind, Attended(q, j)'
               PROVE  Entry(q, j)' \in m_serverPlayers'
    BY DEF PlacedIsGrouped, Attended, Entry
  <2>1. /\ q # p /\ life'[q] = life[q] /\ playerID'[q] = playerID[q]
        /\ playerGuid'[q] = playerGuid[q]
        /\ UNCHANGED <<place, up, silent, outdated, m_serverPlayers>>
    BY <1>1 DEF TypeOK, HeldInv, Attended, New, Construct
  <2>2. \A r \in Player : heldID[r] \subseteq heldID'[r] /\ heldGuid[r] \subseteq heldGuid'[r]
    BY <1>1 DEF TypeOK, HeldInv, New, Construct
  <2>3. Attended(q, j)
    BY <2>1, <2>2 DEF Attended, Known
  <2>4. QED
    BY <2>1, <2>3 DEF PlacedIsGrouped, Attended, Entry
<1>2. ASSUME NEW p \in Player, NEW id \in PlayerID, NEW g \in Guid, AddNew(p, id, g)
      PROVE  PlacedIsGrouped'
  <2> SUFFICES ASSUME NEW q \in Player, NEW j \in Kind, Attended(q, j)'
               PROVE  Entry(q, j)' \in m_serverPlayers'
    BY DEF PlacedIsGrouped, Attended, Entry
  <2>1. /\ q # p /\ life'[q] = life[q] /\ playerID'[q] = playerID[q]
        /\ playerGuid'[q] = playerGuid[q]
        /\ UNCHANGED <<place, up, silent, outdated, m_serverPlayers>>
    BY <1>2 DEF TypeOK, HeldInv, Attended, AddNew, Construct
  <2>2. \A r \in Player : heldID[r] \subseteq heldID'[r] /\ heldGuid[r] \subseteq heldGuid'[r]
    BY <1>2 DEF TypeOK, HeldInv, AddNew, Construct
  <2>3. Attended(q, j)
    BY <2>1, <2>2 DEF Attended, Known
  <2>4. QED
    BY <2>1, <2>3 DEF PlacedIsGrouped, Attended, Entry
<1>3. ASSUME NEW p \in Player, Add(p)
      PROVE  PlacedIsGrouped'
  <2> SUFFICES ASSUME NEW q \in Player, NEW j \in Kind, Attended(q, j)'
               PROVE  Entry(q, j)' \in m_serverPlayers'
    BY DEF PlacedIsGrouped, Attended, Entry
  <2>1. UNCHANGED <<keys, place, up, history, m_serverPlayers>> /\ Known(q)
    BY <1>3 DEF TypeOK, Attended, Add, Known
  <2>2. QED
    BY <2>1 DEF PlacedIsGrouped, Attended, Entry, keys, history
<1>4. ASSUME NEW p \in Player, Remove(p)
      PROVE  PlacedIsGrouped'
  BY <1>4 DEF TypeOK, HeldInv, PlacedIsGrouped, Known, Remove, Known, SameKey, keys, history
<1>5. ASSUME NEW p \in Player, Destroy(p)
      PROVE  PlacedIsGrouped'
  BY <1>5 DEF TypeOK, HeldInv, PlacedIsGrouped, Known, Destroy, Free, Leaves, keys, history
<1>6. ASSUME NEW p \in Player, NEW k \in Kind, NEW new \in Place \cup {0}, SetPlace(p, k, new)
      PROVE  PlacedIsGrouped'
  <2> SUFFICES ASSUME NEW q \in Player, NEW j \in Kind, Attended(q, j)'
               PROVE  Entry(q, j)' \in m_serverPlayers'
    BY DEF PlacedIsGrouped, Attended, Entry
  <2>1. UNCHANGED <<life, keys, up, heldID, heldGuid>> /\ outdated \subseteq outdated'
    BY <1>6 DEF SetPlace
  <2>2. CASE ~(q = p /\ j = k)
    <3>1. place'[q][j] = place[q][j] /\ (j \in silent[q] => j \in silent'[q])
      BY <1>6, <2>2 DEF TypeOK, SetPlace, Notify
    <3>2. Attended(q, j)
      BY <2>1, <3>1 DEF Attended, Known, keys
    <3>3. Entry(q, j) \in m_serverPlayers /\ Entry(q, j)' = Entry(q, j)
      BY <2>1, <3>1, <3>2 DEF PlacedIsGrouped, Attended, Entry, keys
    <3>4. q = p \/ playerID[q] # playerID[p]
      BY <1>6, <3>2 DEF HeldInv, Attended, SetPlace, Notify, Known
    <3>5. Entry(q, j).kind = j /\ Entry(q, j).playerID = playerID[q]
      BY DEF Entry
    <3>6. QED
      BY <1>6, <2>2, <3>3, <3>4, <3>5 DEF SetPlace, Notify, Update, AddPlayer, DeletePlayer
  <2>3. CASE q = p /\ j = k
    <3>1. container[p] /\ place'[p][k] = new /\ new # 0 /\ place[p][k] # new
      BY <1>6, <2>3 DEF TypeOK, SetPlace, Notify, Attended
    <3>2. ASSUME NEW e \in m_serverPlayers, e.kind = k, e.place = new, e.playerID = playerID[p]
          PROVE  FALSE
      <4>1. e \in Member
        BY <3>2 DEF TypeOK
      <4>2. ASSUME NEW r \in Player, e.playerID \in heldID[r]
            PROVE  r = p
        BY <1>6, <2>1, <2>3, <3>2, <4>2 DEF HeldInv, Attended, SetPlace, Notify, Notify, Known
      <4>3. ASSUME NEW r \in Player, ListedBy(e, r)
            PROVE  FALSE
        BY <3>1, <3>2, <4>2, <4>3 DEF HeldInv, ListedBy
      <4>4. ASSUME <<e.playerID, e.playerGuid>> \in outdated
            PROVE  FALSE
        <5>1. PICK r \in Player : e.playerID \in heldID[r] /\ e.playerGuid \in heldGuid[r]
          BY <4>1, <4>4 DEF HeldInv, Member
        <5>2. QED
          BY <2>1, <2>3, <4>2, <4>4, <5>1 DEF Attended
      <4>5. QED
        BY <4>3, <4>4 DEF ListInv, Listed
    <3>3. m_serverPlayers' = DeletePlayer(m_serverPlayers, k, place[p][k], playerID[p])
                             \cup {[kind |-> k, place |-> new, playerID |-> playerID[p],
                                    playerGuid |-> playerGuid[p]]}
      BY <1>6, <3>1, <3>2 DEF SetPlace, Notify, Update, AddPlayer, DeletePlayer
    <3>4. QED
      BY <2>1, <2>3, <3>1, <3>3 DEF Entry, keys
  <2>4. QED
    BY <2>2, <2>3
<1>7. ASSUME NEW p \in Player, NEW id \in PlayerID, SetPlayerID(p, id)
      PROVE  PlacedIsGrouped'
  <2> SUFFICES ASSUME NEW q \in Player, NEW j \in Kind, Attended(q, j)'
               PROVE  Entry(q, j)' \in m_serverPlayers'
    BY DEF PlacedIsGrouped, Attended, Entry
  <2>1. /\ UNCHANGED <<life, place, up, silent, m_serverPlayers>>
        /\ \A r \in Player : heldID[r] \subseteq heldID'[r] /\ heldGuid[r] \subseteq heldGuid'[r]
        /\ outdated \subseteq outdated'
    BY <1>7 DEF TypeOK, SetPlayerID, Outdate
  <2>2. Attended(q, j)
    BY <2>1 DEF Attended, Known
  <2>3. q # p
    <3>1. SUFFICES ASSUME q = p
                   PROVE  FALSE
      OBVIOUS
    <3>2. Placed(p)
      BY <2>1, <3>1 DEF Attended, Placed
    <3>3. <<playerID[p], playerGuid[p]>> \in outdated'
      BY <1>7, <3>2 DEF SetPlayerID, Outdate
    <3>4. playerID[p] \in heldID'[p] /\ playerGuid[p] \in heldGuid'[p]
      BY <1>7, <2>1 DEF HeldInv, SetPlayerID, Known
    <3>5. QED
      BY <3>1, <3>3, <3>4 DEF Attended
  <2>4. Entry(q, j)' = Entry(q, j)
    BY <1>7, <2>1, <2>3 DEF TypeOK, Entry, SetPlayerID
  <2>5. QED
    BY <2>1, <2>2, <2>4 DEF PlacedIsGrouped, Attended, Entry
<1>8. ASSUME NEW p \in Player, NEW g \in Guid, SetPlayerGuid(p, g)
      PROVE  PlacedIsGrouped'
  <2> SUFFICES ASSUME NEW q \in Player, NEW j \in Kind, Attended(q, j)'
               PROVE  Entry(q, j)' \in m_serverPlayers'
    BY DEF PlacedIsGrouped, Attended, Entry
  <2>1. /\ UNCHANGED <<life, place, up, silent, m_serverPlayers>>
        /\ \A r \in Player : heldID[r] \subseteq heldID'[r] /\ heldGuid[r] \subseteq heldGuid'[r]
        /\ outdated \subseteq outdated'
    BY <1>8 DEF TypeOK, SetPlayerGuid, Outdate
  <2>2. Attended(q, j)
    BY <2>1 DEF Attended, Known
  <2>3. q # p
    <3>1. SUFFICES ASSUME q = p
                   PROVE  FALSE
      OBVIOUS
    <3>2. Placed(p)
      BY <2>1, <3>1 DEF Attended, Placed
    <3>3. <<playerID[p], playerGuid[p]>> \in outdated'
      BY <1>8, <3>2 DEF SetPlayerGuid, Outdate
    <3>4. playerID[p] \in heldID'[p] /\ playerGuid[p] \in heldGuid'[p]
      BY <1>8, <2>1 DEF HeldInv, SetPlayerGuid, Known
    <3>5. QED
      BY <3>1, <3>3, <3>4 DEF Attended
  <2>4. Entry(q, j)' = Entry(q, j)
    BY <1>8, <2>1, <2>3 DEF TypeOK, Entry, SetPlayerGuid
  <2>5. QED
    BY <2>1, <2>2, <2>4 DEF PlacedIsGrouped, Attended, Entry
<1>9. ASSUME NEW id \in PlayerID, Delete(id)
      PROVE  PlacedIsGrouped'
  <2> SUFFICES ASSUME NEW q \in Player, NEW j \in Kind, Attended(q, j)'
               PROVE  Entry(q, j)' \in m_serverPlayers'
    BY DEF PlacedIsGrouped, Attended, Entry
  <2>1. PICK w \in m_players : life[w.player] # "freed" /\ Free(w.player)
    BY <1>9 DEF Delete
  <2>2. /\ w.player \in Player /\ q # w.player /\ life'[q] = life[q]
        /\ place'[q] = place[q] /\ UNCHANGED <<keys, up, heldID, heldGuid, silent>>
        /\ outdated \subseteq outdated'
    BY <2>1 DEF TypeOK, PlayerDetailWrapper, Attended, Known, Free
  <2>3. Attended(q, j)
    BY <2>2 DEF Attended, Known, keys
  <2>4. playerID[w.player] # playerID[q]
    BY <2>2, <2>3 DEF HeldInv, Attended, Known
  <2>5. Entry(q, j) \in m_serverPlayers /\ Entry(q, j)' = Entry(q, j)
    BY <2>2, <2>3 DEF PlacedIsGrouped, Attended, Entry, keys
  <2>6. Entry(q, j).playerID = playerID[q]
    BY DEF Entry
  <2>7. QED
    BY <2>1, <2>4, <2>5, <2>6 DEF Free, Leaves
<1>10. ASSUME Shutdown
      PROVE  PlacedIsGrouped'
  BY <1>10 DEF TypeOK, HeldInv, PlacedIsGrouped, Known, Shutdown, DeleteAll, Indexed, keys, history
<1>11. ASSUME UNCHANGED vars
      PROVE  PlacedIsGrouped'
  BY <1>11 DEF TypeOK, HeldInv, PlacedIsGrouped, Known, vars, keys, history
<1>12. ASSUME NEW p \in Player, SetContainer(p)
      PROVE  PlacedIsGrouped'
  BY <1>12 DEF PlacedIsGrouped, Known, SetContainer, keys, history
<1>13. QED
  BY <1>1, <1>2, <1>3, <1>4, <1>5, <1>6, <1>7, <1>8, <1>9, <1>10, <1>11, <1>12 DEF Next

\* The invariant holds of a new manager.
LEMMA InitInv == Init => IInv
  BY KeysAssumption, ChangesAssumption
  DEF Init, IInv, TypeOK, IndexesOK, HeldInv, OwnInv, ListInv, KeptUnlessGuidShared,
      PlacedIsGrouped, Known

\* Every call keeps it.
LEMMA NextInv == IInv /\ [Next]_vars => IInv'
  BY TypeStep, HeldStep, OwnStep, ListStep, KeptStep, PlacedStep DEF IInv

\* The inductive invariant.
THEOREM InvAlways == Spec => []IInv
  BY InitInv, NextInv, PTL DEF Spec

\* The state keeps its types; no guid is in the index twice, no id twice in a group.
THEOREM RegistryTypeCorrect == Spec => []TypeOK
<1>1. IInv => TypeOK
  BY DEF IInv
<1>2. QED
  BY <1>1, InvAlways, PTL

\* A player in the index is there, unless its guid was changed while it was in it.
THEOREM NoDanglingAlways == Spec => []NoDangling
<1>1. IInv => NoDangling
  BY DEF IInv, OwnInv, NoDangling
<1>2. QED
  BY <1>1, InvAlways, PTL

\* The groups list only players that are there, or keys that were given up.
THEOREM GroupsTrueAlways == Spec => []GroupsTrue
<1>1. IInv => GroupsTrue
  BY DEF IInv, ListInv, Listed, ListedBy, GroupsTrue
<1>2. QED
  BY <1>1, InvAlways, PTL

\* A player that takes its place in the container's sight is listed there, unless
\* another has had its id or its keys change under it.
THEOREM PlacedIsGroupedAlways == Spec => []PlacedIsGrouped
<1>1. IInv => PlacedIsGrouped
  BY DEF IInv
<1>2. QED
  BY <1>1, InvAlways, PTL

\* Only a player that has had the same guid can push a player out of the index.
THEOREM KeptUnlessGuidSharedAlways == Spec => []KeptUnlessGuidShared
<1>1. IInv => KeptUnlessGuidShared
  BY DEF IInv
<1>2. QED
  BY <1>1, InvAlways, PTL
=============================================================================
