SPECIFICATION Spec
CONSTANTS
  Clients = {c1, c2}
  Users = {u1, u2}
  PairMax = 2
  IpMax = 3
  PairLock = 1
  IpLock = 2
  MaxPairs = 2
  MaxIps = 1
  Window = 2
  LeaseTimeout = 1
  CleanupInterval = 1
  Tokens = {1, 2, 3, 4, 5, 6}
  Horizon = 4
  Skew = 1
SYMMETRY Symmetry
INVARIANTS NeverOverLimit
PROPERTY LocksLast
