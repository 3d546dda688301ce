---------------------------- MODULE MCEventSocket ----------------------------
(* One connection, two callers of stop(), three messages from the peer. *)
EXTENDS EventSocket

MCConns == {"c1"}
MCClosers == {"k1", "k2"}
MCMessages == 1..3
MCRequests == {"Next"}
=============================================================================
