------------------------- MODULE MCOverlayHistory -------------------------
\* Small instances of OverlayHistory.
EXTENDS OverlayHistory
=============================================================================
