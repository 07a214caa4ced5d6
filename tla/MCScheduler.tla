---------------------------- MODULE MCScheduler ----------------------------
(* Events of the Scheduler runs: 2 and 4 are team-scoped, 3 is claimable    *)
(* without a team, the others are plain.                                    *)
EXTENDS Scheduler

MCTeam == {2, 4}
MCFewTeam == {2}
MCClaimable == {3}
=============================================================================
