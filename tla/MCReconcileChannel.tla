------------------------- MODULE MCReconcileChannel -------------------------
\* Checks ReconcileChannel with two LimaVMs.
EXTENDS ReconcileChannel
=============================================================================
