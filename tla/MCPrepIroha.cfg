CONSTANTS
  Revisions = {v1, v2}
  Clones = {c1}
  Nothing = Nothing

SPECIFICATION PrepSpec

INVARIANTS
  AcceptedIsOfOneSource
  FreshRunDelivers
