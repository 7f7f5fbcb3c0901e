----------------------- MODULE MCNotificationDelivery -----------------------
(* Instances of NotificationDelivery: two events, two relay workers. *)
EXTENDS NotificationDelivery

CONSTANTS e1, e2, w1, w2
=============================================================================
