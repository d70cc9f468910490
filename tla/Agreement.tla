----------------------------- MODULE Agreement -----------------------------
(***************************************************************************)
(* What a cluster of consensus modules promises its clients, without terms, *)
(* votes, logs or messages: there is one growing sequence of chosen        *)
(* entries, and every CM delivers a prefix of it on its commitChan, from   *)
(* the start again whenever it is restarted.                               *)
(***************************************************************************)
EXTENDS Naturals, Sequences

CONSTANT Server   \* the CMs

VARIABLES
    chosen,     \* the entries agreed on so far
    delivered   \* delivered[i]: what CM i's client has received since its start

agreementVars == <<chosen, delivered>>

\* t starts with s.
StartsWith(t, s) == Len(s) <= Len(t) /\ SubSeq(t, 1, Len(s)) = s

Init ==
    /\ chosen = <<>>
    /\ delivered = [i \in Server |-> <<>>]

\* More entries are agreed on; none that was is given up.
Choose ==
    /\ chosen' # chosen
    /\ StartsWith(chosen', chosen)
    /\ UNCHANGED delivered

\* CM i delivers some more of what has been chosen.
Deliver(i) ==
    /\ StartsWith(delivered'[i], delivered[i])
    /\ StartsWith(chosen, delivered'[i])
    /\ delivered' = [delivered EXCEPT ![i] = delivered'[i]]
    /\ UNCHANGED chosen

\* CM i starts afresh.
Reset(i) ==
    /\ delivered' = [delivered EXCEPT ![i] = <<>>]
    /\ UNCHANGED chosen

Next == Choose \/ \E i \in Server : Deliver(i) \/ Reset(i)

Spec == Init /\ [][Next]_agreementVars
=============================================================================
