----------------------------- MODULE NpcTiming ------------------------------
(***************************************************************************)
(* NpcScheduler with a history of its clock: late says that time has gone  *)
(* on while an event was due or a worker was busy.  As long as it has not, *)
(* the server keeps up, and more can be said of when a monster moves.      *)
(***************************************************************************)
EXTENDS NpcScheduler

VARIABLE late

\* Nothing is due or being handled.
CaughtUp ==
  /\ \A w \in Workers : worker[w].pc = "idle"
  /\ \A n \in Npcs, c \in Chains : Live(n, c) => Waiting(chain[n][c])
  /\ \A n \in Npcs, k \in Kills : respawn[n][k].at # "none" => Waiting(respawn[n][k])

-----------------------------------------------------------------------------
TimedInit == Init /\ late = FALSE
TimedNext == Next /\ late' = (late \/ (Tick /\ ~CaughtUp))
TimedSpec == TimedInit /\ [][TimedNext]_<<vars, late>>
TimedLiveSpec == TimedSpec /\ Fairness

-----------------------------------------------------------------------------
\* Where the server keeps up, a monster that has been dead for longer than a
\* move period has no chain left: it does not walk while it is dead, and no
\* scan restarts it.
DeadChainStops ==
  ~late /\ CaughtUp =>
    \A n \in Npcs, c \in Chains :
      /\ invisible[n]
      /\ \A k \in Kills : respawn[n][k].at = "queued"
                           => respawn[n][k].left < RespawnDelay - MoveDelay
      => ~Live(n, c)
=============================================================================
