------------------------ MODULE MCConsensusAgreement ------------------------
(* TLC instance of ConsensusAgreement: five situations, each with its own   *)
(* bounds, in one run.                                                      *)
EXTENDS ConsensusAgreement, MCConsensusModule

CONSTANT OneLane   \* the lane used where rounds do not overtake each other

\* A fresh cluster elects leaders twice, with a heartbeat, a stop and a
\* restart from storage in between.
Elections == [FullBudget EXCEPT !.elections = 2, !.rounds = 1, !.fails = 0,
                                !.log = 0, !.lanes = OneLane]

\* The same without the heartbeat, and with a call for a vote that fails.
LostVotes == [FullBudget EXCEPT !.elections = 2, !.rounds = 0, !.fails = 1,
                                !.log = 0, !.lanes = OneLane]

\* A leader's rounds of AppendEntries overtake each other.
Reordering == [FullBudget EXCEPT !.elections = 0, !.fails = 0, !.stops = 0,
                                 !.restarts = 0, !.rounds = 2]

\* A CM stops and restarts during replication and the next election.
Restarts == [FullBudget EXCEPT !.elections = 1, !.rounds = 1, !.fails = 0,
                               !.log = 1, !.lanes = OneLane]

\* The logs have diverged and the next election is near.
Divergence == [FullBudget EXCEPT !.elections = 1, !.rounds = 3, !.fails = 0,
                                 !.stops = 0, !.restarts = 0,
                                 !.lanes = OneLane]

Situations ==
    \/ Fresh(Elections)
    \/ Fresh(LostVotes)
    \/ LedInit(Reordering)
    \/ LedInit(Restarts)
    \/ Diverged(<<1, 1>>, Divergence)

SituationsSpec == Situations /\ [][Next]_vars
=============================================================================
