------------------------------ MODULE RunLoop ------------------------------
(***************************************************************************)
(* What the loop of the consumer promises: it connects again for as long   *)
(* as nobody asks it to stop, it stops only when asked to, and then it     *)
(* does stop.  The request is a flag that the loop can see at any time;    *)
(* ConsumerRun has the watch channel that stands for it in the code.       *)
(***************************************************************************)
VARIABLES
    place,  \* where the loop is
    asked   \* somebody asked it to stop

vars == <<place, asked>>

Init == place = "top" /\ asked = FALSE

Ask == ~asked /\ asked' = TRUE /\ UNCHANGED place

Move(from, to) == place \in from /\ place' \in to /\ UNCHANGED asked

Connect == Move({"top"}, {"connecting"})
Answer == Move({"connecting"}, {"session", "waiting"})
Lose == Move({"session"}, {"waiting"})
Again == Move({"waiting"}, {"top"})
Stop == asked /\ Move({"top", "session", "waiting"}, {"stopped"})

Next == Ask \/ Connect \/ Answer \/ Lose \/ Again \/ Stop

Safety == Init /\ [][Next]_vars
Spec == Safety /\ WF_vars(Connect) /\ WF_vars(Answer) /\ WF_vars(Again) /\ SF_vars(Stop)
=============================================================================
