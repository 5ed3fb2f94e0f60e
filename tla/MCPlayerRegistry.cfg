SPECIFICATION Spec
CONSTANTS
  Player = {p1, p2}
  PlayerID = {0, i1, i2}
  Guid = {g1, g2}
  Kind = {"room"}
  Place = {r1, r2}
  MaxChange = 1
INVARIANTS TypeOK NoDangling GroupsTrue PlacedIsGrouped KeptUnlessGuidShared
SYMMETRY Symmetric
CHECK_DEADLOCK FALSE
