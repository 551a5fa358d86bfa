---------------------------- MODULE AtLeastOnce ----------------------------
(***************************************************************************)
(* What the service promises of a task message, whatever fails meanwhile.  *)
(*                                                                         *)
(* A submitted task stays pending until it is done or dropped, once and    *)
(* for good.  It may be attempted several times: each attempt may store    *)
(* its rows, and may announce the task downstream only after it stored     *)
(* them; nothing is stored or announced for a task that is settled.  A     *)
(* task is done only when an attempt has stored and announced it.          *)
(***************************************************************************)
CONSTANTS Tasks,      \* the task messages
          Attempts    \* names of the attempts at a task

VARIABLES status,     \* status[m]: absent, pending, done or dropped
          saved,      \* saved[m]: the attempts whose rows are stored
          announced   \* announced[m]: the attempts that announced m downstream

promise == <<status, saved, announced>>

PromiseTypeOK ==
    /\ status \in [Tasks -> {"absent", "pending", "done", "dropped"}]
    /\ saved \in [Tasks -> SUBSET Attempts]
    /\ announced \in [Tasks -> SUBSET Attempts]

Init ==
    /\ status = [m \in Tasks |-> "absent"]
    /\ saved = [m \in Tasks |-> {}]
    /\ announced = [m \in Tasks |-> {}]

Submit(m) ==
    /\ status[m] = "absent"
    /\ status' = [status EXCEPT ![m] = "pending"]
    /\ UNCHANGED <<saved, announced>>

Save(m, a) ==
    /\ status[m] = "pending"
    /\ saved' = [saved EXCEPT ![m] = @ \union {a}]
    /\ UNCHANGED <<status, announced>>

Announce(m, a) ==
    /\ status[m] = "pending"
    /\ a \in saved[m]
    /\ announced' = [announced EXCEPT ![m] = @ \union {a}]
    /\ UNCHANGED <<status, saved>>

Finish(m) ==
    /\ status[m] = "pending"
    /\ announced[m] # {}
    /\ status' = [status EXCEPT ![m] = "done"]
    /\ UNCHANGED <<saved, announced>>

Drop(m) ==
    /\ status[m] = "pending"
    /\ status' = [status EXCEPT ![m] = "dropped"]
    /\ UNCHANGED <<saved, announced>>

Next ==
    \E m \in Tasks :
        \/ Submit(m) \/ Finish(m) \/ Drop(m)
        \/ \E a \in Attempts : Save(m, a) \/ Announce(m, a)

Spec == Init /\ [][Next]_promise
=============================================================================
