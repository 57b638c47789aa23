------------------------ MODULE MCEventBatchCaches ------------------------
\* Small instances of EventBatchCaches.
EXTENDS EventBatchCaches
=============================================================================
