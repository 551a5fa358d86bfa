---------------------------- MODULE TaskAttempt ----------------------------
(***************************************************************************)
(* One attempt at a task as TaskDelivery sees it: prepared, then stored,   *)
(* then announced; it may fail at each point, with the rows stored when    *)
(* the failure is that of the commit, and the announcement sent when it is *)
(* that of the publish.                                                    *)
(***************************************************************************)
VARIABLES phase, stored, announced

attempt == <<phase, stored, announced>>

Init == phase = "prepare" /\ stored = FALSE /\ announced = FALSE

Prepare ==
    /\ phase = "prepare"
    /\ phase' \in {"insert", "failed"}
    /\ UNCHANGED <<stored, announced>>

Insert ==
    /\ phase = "insert"
    /\ phase' = "publish" /\ stored' = TRUE
    /\ UNCHANGED announced

InsertFailed ==
    /\ phase = "insert"
    /\ phase' = "failed" /\ stored' \in BOOLEAN
    /\ UNCHANGED announced

Publish ==
    /\ phase = "publish"
    /\ \/ phase' = "sending" /\ announced' = TRUE
       \/ phase' = "failed" /\ UNCHANGED announced
    /\ UNCHANGED stored

Published ==
    /\ phase = "sending"
    /\ phase' \in {"succeeded", "failed"}
    /\ UNCHANGED <<stored, announced>>

Next == Prepare \/ Insert \/ InsertFailed \/ Publish \/ Published

Spec == Init /\ [][Next]_attempt
=============================================================================
