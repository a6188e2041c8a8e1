SPECIFICATION Spec
CONSTANTS
  Nodes = {n1, n2}
  Users = {u1, u2}
  Workers = {w1, w2}
  None = None
  MaxTable = 1
  MaxTickets = 2
SYMMETRY Symmetry
INVARIANTS
  OneNodePlays
  OwnerFollowsStore
