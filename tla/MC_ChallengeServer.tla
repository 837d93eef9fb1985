------------------------ MODULE MC_ChallengeServer ------------------------
(* Three clients, one of which connects and stays silent, served by two   *)
(* worker threads with room for four descriptors.                         *)
EXTENDS ChallengeServer

CONSTANTS c1, c2, c3

MCConns    == {c1, c2, c3}
MCStallers == {c1}
=============================================================================
