--------------------------- MODULE MCSyncPipeline ---------------------------
(* Model checking instance of SyncPipeline.                                *)
EXTENDS SyncPipeline, TLC

CONSTANTS c1, e1, e2

(* One calendar with two events.                                           *)
OneCalendar == (c1 :> {e1, e2})

=============================================================================
