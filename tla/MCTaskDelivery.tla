--------------------------- MODULE MCTaskDelivery ---------------------------
(* TaskDelivery on small sets of messages.                                 *)
EXTENDS TaskDeliveryProperties, TLC

CONSTANTS t1, t2, b1   \* two tasks and a malformed message

OneTask == {t1}
TwoTasks == {t1, t2}
AllMessages == {t1, t2, b1}
NoneMalformed == {}
OneMalformed == {b1}

AllFaults == Kinds
ConnectionsAndSignal == {"consumer", "producer", "signal"}
ProducerFault == {"producer"}
BrokerFault == {"broker"}
AllFailing == Steps
NoneFailing == {}

TaskSymmetry == Permutations({t1, t2})
=============================================================================
