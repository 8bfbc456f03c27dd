--------------------------- MODULE MCPreferences ---------------------------
(***************************************************************************)
(* Two preferences of three values, of which one must be off.              *)
(***************************************************************************)
EXTENDS Preferences
CONSTANTS k1, k2, on, off, auto
MCKeys == {k1, k2}
MCValues == {on, off, auto}
MCInvalid == {s \in Specs : s[k1] # off /\ s[k2] # off}

\* The behaviours that begin with one of them on.
InitOn == Init /\ hist[1][k1] = on /\ hist[1][k2] = off
FromOn == InitOn /\ [][Next]_vars /\ WF_vars(Task)
=============================================================================
