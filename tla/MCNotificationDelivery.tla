----------------------- MODULE MCNotificationDelivery -----------------------
(* Instances of NotificationDelivery for TLC.                              *)
EXTENDS NotificationDelivery, TLC

CONSTANTS ping, alert, mail, w1, w2

MCDeliveries == {ping, alert}
MCOneDelivery == {ping}
MCTests == {ping}
MCDestinations == {mail}
MCTarget == [d \in Deliveries |-> mail]
MCOneWorker == {w1}
MCWorkers == {w1, w2}
WorkerSymmetry == Permutations(MCWorkers)

NoFaults == {}
CrashAndConfiguration == {"crash", "configuration"}
OneWorkerFaults == {"crash", "expiry", "configuration"}
=============================================================================
