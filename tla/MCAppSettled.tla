----------------------------- MODULE MCAppSettled -----------------------------
\* Checks AppSettled with a template for moby and one for containerd.
EXTENDS AppSettled

\* The behaviours that begin with an App that is to run moby: half of those that
\* leave it as it is, stop it, or switch to containerd.
InitMoby == Init /\ running /\ cm.data \in Docker
FromMoby == InitMoby /\ [][Next]_vars /\ Fairness
=============================================================================
