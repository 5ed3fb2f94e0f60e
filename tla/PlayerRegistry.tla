--------------------------- MODULE PlayerRegistry ---------------------------
(***************************************************************************)
(* SPlayerManager of contrib/scgl: the container of players with its two   *)
(* indexes, and the groups of players by game server and by room that      *)
(* follow the players as observers.                                        *)
(*                                                                         *)
(* Everything runs on the logic thread, a call is a step.  The indexes and *)
(* the groups hold copies of a player's keys, and the container frees      *)
(* players that the application can also hold: the model lets the          *)
(* application do whatever the interface allows with a player it has been  *)
(* given and that is still there.  It has set a creator and a deletor, new *)
(* and delete: the container has none of its own.                          *)
(***************************************************************************)
EXTENDS Naturals, FiniteSets

CONSTANTS Player,    \* the CPlayerDetail objects
          PlayerID,  \* with 0, the id of a player that has none yet
          Guid,
          Kind,      \* Notify_GameServer and Notify_Room
          Place,     \* server guids and room ids other than 0
          MaxChange  \* bound on the changes of keys

ASSUME KeysAssumption == 0 \in PlayerID /\ 0 \notin Place
ASSUME ChangesAssumption == MaxChange \in Nat

VARIABLES
  life,           \* "none", "freed", or who is to free it
  playerID, playerGuid,
  place,          \* m_gameServerGuid and m_roomID
  container,      \* m_container is set
  m_players,      \* PlayerMap: copies of the keys
  m_serverPlayers,\* the groups of both observers
  up,             \* the manager exists
  heldID,         \* history: the ids a player has had
  heldGuid,       \* history: its guids
  rekeyed,        \* history: players whose guid changed while they were in m_players
  outdated,       \* history: keys under which a player had a place when it gave up
                  \* the keys, or gave up the place or was freed and nobody was told
  silent,         \* history: the last change of place was not notified
  changes         \* history: counted against MaxChange

keys    == <<playerID, playerGuid>>
history == <<heldID, heldGuid, rekeyed, outdated, silent, changes>>
vars    == <<life, keys, place, container, m_players, m_serverPlayers, up, history>>

PlayerDetailWrapper == [playerID : PlayerID, playerGuid : Guid, player : Player]
Member == [kind : Kind, place : Place, playerID : PlayerID, playerGuid : Guid]

\* hashed_unique on the guid, and one entry for an id in each std::map.
IndexesOK ==
  /\ \A e, f \in m_players : e.playerGuid = f.playerGuid => e = f
  /\ \A e, f \in m_serverPlayers :
        e.kind = f.kind /\ e.place = f.place /\ e.playerID = f.playerID => e = f

\* The types, and what the containers themselves keep unique.
TypeOK ==
  /\ life \in [Player -> {"none", "app", "container", "leaked", "freed"}]
  /\ playerID \in [Player -> PlayerID] /\ playerGuid \in [Player -> Guid]
  /\ place \in [Player -> [Kind -> Place \cup {0}]]
  /\ container \in [Player -> BOOLEAN]
  /\ m_players \subseteq PlayerDetailWrapper
  /\ m_serverPlayers \subseteq Member
  /\ up \in BOOLEAN
  /\ heldID \in [Player -> SUBSET PlayerID] /\ heldGuid \in [Player -> SUBSET Guid]
  /\ rekeyed \subseteq Player
  /\ outdated \subseteq PlayerID \X Guid
  /\ silent \in [Player -> SUBSET Kind] /\ changes \in 0 .. MaxChange
  /\ IndexesOK

Init ==
  /\ life = [p \in Player |-> "none"]
  /\ playerID = [p \in Player |-> 0]
  /\ playerGuid \in {[p \in Player |-> g] : g \in Guid}
  /\ place = [p \in Player |-> [k \in Kind |-> 0]]
  /\ container = [p \in Player |-> FALSE]
  /\ m_players = {} /\ m_serverPlayers = {}
  /\ up = TRUE
  /\ heldID = [p \in Player |-> {}] /\ heldGuid = [p \in Player |-> {}]
  /\ rekeyed = {} /\ outdated = {}
  /\ silent = [p \in Player |-> {}] /\ changes = 0
-----------------------------------------------------------------------------
Wrapper(p, id, guid) == [playerID |-> id, playerGuid |-> guid, player |-> p]

Indexed(p) == \E e \in m_players : e.player = p

\* Mutant: the index on the guid is not unique.
CanInsertAlways(guid) == TRUE

\* insert(...).second
CanInsert(guid) == \A e \in m_players : e.playerGuid # guid

\* The application has a pointer to a player that is still there.
Known(p) == up /\ life[p] \in {"app", "container"}

\* The constructor.
Construct(p, id, guid) ==
  /\ up /\ life[p] = "none"
  /\ playerID' = [playerID EXCEPT ![p] = id]
  /\ playerGuid' = [playerGuid EXCEPT ![p] = guid]
  /\ heldID' = [heldID EXCEPT ![p] = {id}]
  /\ heldGuid' = [heldGuid EXCEPT ![p] = {guid}]
  /\ UNCHANGED <<place, m_serverPlayers, up, rekeyed, outdated, silent,
                 changes>>

\* A player that the application makes for itself.
New(p, id, guid) ==
  /\ Construct(p, id, guid)
  /\ life' = [life EXCEPT ![p] = "app"]
  /\ UNCHANGED <<container, m_players>>

\* Add(playerID, playerGuid) of an id that is not there: what m_creator has made
\* is forgotten when its guid is taken.
AddNew(p, id, guid) ==
  /\ \A e \in m_players : e.playerID # id
  /\ Construct(p, id, guid)
  /\ container' = [container EXCEPT ![p] = TRUE]
  /\ IF CanInsert(guid)
     THEN /\ m_players' = m_players \cup {Wrapper(p, id, guid)}
          /\ life' = [life EXCEPT ![p] = "container"]
     ELSE /\ life' = [life EXCEPT ![p] = "leaked"]
          /\ UNCHANGED m_players

\* Add(player)
Add(p) ==
  /\ Known(p)
  /\ container' = [container EXCEPT ![p] = TRUE]
  /\ IF CanInsert(playerGuid[p])
     THEN /\ m_players' = m_players \cup {Wrapper(p, playerID[p], playerGuid[p])}
          /\ life' = [life EXCEPT ![p] = "container"]
     ELSE UNCHANGED <<m_players, life>>
  /\ UNCHANGED <<keys, place, m_serverPlayers, up, history>>
-----------------------------------------------------------------------------
(* The observers.                                                          *)

\* Mutant: the last if is dropped, the whole group is erased.
DeletePlayerGroup(groups, kind, from, id) ==
  {e \in groups : ~(e.kind = kind /\ e.place = from)}

\* DeletePlayer, and nothing if the player had no place.
DeletePlayer(groups, kind, from, id) ==
  {e \in groups : ~(e.kind = kind /\ e.place = from /\ e.playerID = id)}

\* AddPlayer: insert leaves an entry of that id as it is.
AddPlayer(groups, kind, to, id, guid) ==
  IF to = 0 \/ \E e \in groups : e.kind = kind /\ e.place = to /\ e.playerID = id
  THEN groups
  ELSE groups \cup {[kind |-> kind, place |-> to, playerID |-> id, playerGuid |-> guid]}

\* Update of either observer.
Update(p, kind, new) ==
  AddPlayer(DeletePlayer(m_serverPlayers, kind, place[p][kind], playerID[p]),
            kind, new, playerID[p], playerGuid[p])

\* Notify calls the one observer of this kind, if the player knows the container.
Notify(p, kind, new) ==
  IF container[p]
  THEN /\ m_serverPlayers' = Update(p, kind, new)
       /\ silent' = [silent EXCEPT ![p] = @ \ {kind}]
  ELSE /\ silent' = [silent EXCEPT ![p] = @ \cup {kind}]
       /\ UNCHANGED m_serverPlayers

\* The keys of the player, if it is to leave its listed place in one of the kinds and
\* no observer will be told.
Unheard(p, kinds) ==
  {<<playerID[p], playerGuid[p]>> : k \in {j \in kinds : /\ ~container[p] /\ j \notin silent[p]
                                                      /\ place[p][j] # 0}}

\* SetGameServerGuid and SetRoomID
SetPlace(p, kind, new) ==
  /\ Known(p) /\ place[p][kind] # new
  /\ place' = [place EXCEPT ![p][kind] = new]
  /\ Notify(p, kind, new)
  /\ outdated' = outdated \cup Unheard(p, {kind})
  /\ UNCHANGED <<life, keys, container, m_players, up, heldID, heldGuid, rekeyed, changes>>

\* SetContainer, of NULL or of a container that is not the manager's, which the
\* application has no pointer to: the observers hear of the player no more.
SetContainer(p) ==
  /\ Known(p) /\ container[p]
  /\ container' = [container EXCEPT ![p] = FALSE]
  /\ UNCHANGED <<life, keys, place, m_players, m_serverPlayers, up, history>>

\* Mutant: the destructor resets nothing.
LeavesNothing(p) == m_serverPlayers

\* The groups after ~CPlayerDetail.
Leaves(p) ==
  IF container[p]
  THEN {e \in m_serverPlayers : ~(e.place = place[p][e.kind] /\ e.playerID = playerID[p])}
  ELSE m_serverPlayers
-----------------------------------------------------------------------------
Placed(p) == \E k \in Kind : place[p][k] # 0

Outdate(p) ==
  /\ changes < MaxChange /\ changes' = changes + 1
  /\ outdated' = IF Placed(p) THEN outdated \cup {<<playerID[p], playerGuid[p]>>} ELSE outdated

\* The setters of the keys; neither the indexes nor the groups hear of it.
SetPlayerID(p, id) ==
  /\ Known(p) /\ playerID[p] # id
  /\ playerID' = [playerID EXCEPT ![p] = id]
  /\ heldID' = [heldID EXCEPT ![p] = @ \cup {id}]
  /\ Outdate(p)
  /\ UNCHANGED <<life, playerGuid, place, container, m_players, m_serverPlayers, up, heldGuid,
                 rekeyed, silent>>

SetPlayerGuid(p, guid) ==
  /\ Known(p) /\ playerGuid[p] # guid
  /\ playerGuid' = [playerGuid EXCEPT ![p] = guid]
  /\ heldGuid' = [heldGuid EXCEPT ![p] = @ \cup {guid}]
  /\ rekeyed' = IF Indexed(p) THEN rekeyed \cup {p} ELSE rekeyed
  /\ Outdate(p)
  /\ UNCHANGED <<life, playerID, place, container, m_players, m_serverPlayers, up, heldID,
                 silent>>
-----------------------------------------------------------------------------
\* The deletor, which deletes, and the application's delete of a player of its own.
Free(p) ==
  /\ life' = [life EXCEPT ![p] = "freed"]
  /\ m_serverPlayers' = Leaves(p)
  /\ place' = [place EXCEPT ![p] = [k \in Kind |-> 0]]
  /\ outdated' = outdated \cup Unheard(p, Kind)
  /\ UNCHANGED <<keys, container, up, heldID, heldGuid, rekeyed, silent, changes>>

\* Mutant: the entry stays.
EraseNothing(e) == UNCHANGED m_players

Erase(e) == m_players' = m_players \ {e}

\* Delete(playerID): one of the entries of that id, whatever the player's is by
\* now.  What happens when its player has been freed already is not described.
Delete(id) ==
  /\ up /\ id # 0
  /\ \E e \in m_players : /\ e.playerID = id
                          /\ life[e.player] # "freed"
                          /\ Free(e.player)
                          /\ Erase(e)

\* Mutant: it looks for the id.
SameKeyID(e, p) == e.playerID = playerID[p]

\* What Remove(player) finds.
SameKey(e, p) == e.playerGuid = playerGuid[p]

\* Remove(player): true means that the player is the caller's again.
Remove(p) ==
  /\ Known(p)
  /\ \E e \in m_players : /\ SameKey(e, p)
                          /\ m_players' = m_players \ {e}
  /\ life' = [life EXCEPT ![p] = "app"]
  /\ UNCHANGED <<keys, place, container, m_serverPlayers, up, history>>

Destroy(p) ==
  /\ up /\ life[p] = "app"
  /\ Free(p)
  /\ UNCHANGED m_players

\* ~CPlayerContainer
DeleteAll ==
  /\ life' = [p \in Player |-> IF Indexed(p) THEN "freed" ELSE life[p]]
  /\ place' = [p \in Player |-> IF Indexed(p) THEN [k \in Kind |-> 0] ELSE place[p]]
  /\ m_players' = {}

\* ~SPlayerManager: the observers go first, so that the players that the container
\* frees notify nobody.
Shutdown ==
  /\ up /\ up' = FALSE
  /\ m_serverPlayers' = {}
  /\ DeleteAll
  /\ UNCHANGED <<keys, container, history>>

Next ==
  \/ \E p \in Player :
       \/ \E id \in PlayerID, g \in Guid : New(p, id, g) \/ AddNew(p, id, g)
       \/ Add(p) \/ Remove(p) \/ Destroy(p) \/ SetContainer(p)
       \/ \E k \in Kind, new \in Place \cup {0} : SetPlace(p, k, new)
       \/ \E id \in PlayerID : SetPlayerID(p, id)
       \/ \E g \in Guid : SetPlayerGuid(p, g)
  \/ \E id \in PlayerID : Delete(id)
  \/ Shutdown

Spec == Init /\ [][Next]_vars
-----------------------------------------------------------------------------
\* A player in the index is there, unless its guid was changed while it was in the
\* index: then it can be in it twice, or Remove can return it and leave it there.
NoDangling ==
  \A e \in m_players : life[e.player] \in {"app", "container"} \/ e.player \in rekeyed

\* A group lists only players that are there and have the place that the group
\* stands for, under the keys they have; an entry that does not was left by a
\* change of keys, or by a player that had been taken from the container with
\* SetContainer before it moved or was freed.
GroupsTrue ==
  \A e \in m_serverPlayers :
    \/ \E p \in Player : /\ life[p] \in {"app", "container"}
                         /\ place[p][e.kind] = e.place
                         /\ playerID[p] = e.playerID /\ playerGuid[p] = e.playerGuid
    \/ <<e.playerID, e.playerGuid>> \in outdated

\* A player that took its place while it was known to the container is listed
\* there, as long as no other player has had an id of its and its own keys have
\* not been changed under its place.
PlacedIsGrouped ==
  \A p \in Player, k \in Kind :
    /\ Known(p) /\ place[p][k] # 0 /\ k \notin silent[p]
    /\ \A q \in Player \ {p} : heldID[q] \cap heldID[p] = {}
    /\ \A id \in heldID[p], g \in heldGuid[p] : <<id, g>> \notin outdated
    => [kind |-> k, place |-> place[p][k], playerID |-> playerID[p],
        playerGuid |-> playerGuid[p]] \in m_serverPlayers

\* A player that the container has taken over stays in its index until it is freed
\* or given back, so that it is freed in the end; only another player that has had
\* the same guid can push it out.
KeptUnlessGuidShared ==
  \A p \in Player :
    /\ life[p] = "container"
    /\ \A q \in Player \ {p} : heldGuid[q] \cap heldGuid[p] = {}
    => Indexed(p)
=============================================================================
