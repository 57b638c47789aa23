----------------------- MODULE MCNotificationDelivery -----------------------
(* Model checking instance of NotificationDelivery: a single row that may be
   of any kind. *)
EXTENDS NotificationDelivery, TLC

CONSTANTS r1, k1

(* One kind for each way a row is delivered and swept. *)
EachPath == [{r1} -> {"change", "removed", "publication", "message", "activity"}]

SoleKey  == r1 :> k1

Sole     == {{r1}}

=============================================================================
