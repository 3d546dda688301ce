CONSTANTS
  Starts = {s1, s2}
  Kills = {k1, k2}
  Nobody = Nobody

SPECIFICATION FairSpec

INVARIANTS
  NothingEscapes
  SawItsOwnGenesis
  KilledIsGone

PROPERTY EveryCallAnswered

\* Every request has been answered, or the server is down.
CHECK_DEADLOCK FALSE
