---------------------------- MODULE MCVisibility ----------------------------
(* Small instances of Visibility and of HeartbeatServer for TLC: server says *)
(* which of the two programs runs.                                         *)
EXTENDS HeartbeatServer, TLC

VARIABLE server

Symmetry == Permutations(Users)

\* The monster starts at one end of the row; users start where they like.
BothInit == Init /\ server \in {"game", "lesson"} /\ \A n \in Npcs : pos[n] = L - 1
BothNext ==
  \/ server = "game" /\ Next /\ UNCHANGED server
  \/ server = "lesson" /\ BeatNext /\ UNCHANGED server
BothSpec == BothInit /\ [][BothNext]_<<vars, server>>
=============================================================================
