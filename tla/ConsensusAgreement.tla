------------------------- MODULE ConsensusAgreement -------------------------
(***************************************************************************)
(* ConsensusModule implements Agreement.                                   *)
(*                                                                         *)
(* commitIndex is not persisted: a cluster whose CMs are restarted forgets *)
(* what it had committed until a leader commits again.  What has been      *)
(* chosen is therefore the history variable of that name.                  *)
(***************************************************************************)
EXTENDS ConsensusModule

Abstract == INSTANCE Agreement WITH delivered <- applied

\* What has been chosen is in the storage of a majority, whoever was
\* restarted since: a majority that is left can always be brought back to it.
\* Only a leadership that a restart made its CM forget can undo this.
ChosenDurable ==
    forgotten = {} => \E Q \in SUBSET Server :
        IsQuorum(Q) /\ \A i \in Q : Abstract!StartsWith(storage[i].log, chosen)

\* As long as no leadership was forgotten, every step of the cluster is one the
\* abstract specification allows: what one leader has committed is what every
\* later one goes on from, and no CM delivers anything else.  Deliveries are
\* excepted once a request was misdated.
Implements ==
    /\ Abstract!Init
    /\ [][forgotten' = {} /\ (misdated' = {} \/ UNCHANGED applied)
            => Abstract!Next]_(Abstract!agreementVars)
=============================================================================
