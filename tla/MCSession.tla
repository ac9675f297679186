----------------------------- MODULE MCSession -----------------------------
EXTENDS ControlSession

\* Once two threads set the session up at the same time, no passing property
\* says anything more: such set-ups are followed to their first reply only.
OverlapBound ==
    overlap => /\ texts = 0 /\ Len(inbox) <= 1
               /\ \A a \in Actors : step[a] \in {"none", "connect"} \/ req[a] = 1
=============================================================================
