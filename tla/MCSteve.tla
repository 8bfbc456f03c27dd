------------------------------- MODULE MCSteve -------------------------------
\* Checks Steve with three processes.
EXTENDS Steve
=============================================================================
