---------------------------- MODULE MCDemoMode ----------------------------
(* DemoMode with two tasks.                                                *)
EXTENDS DemoMode

CONSTANTS t1, t2

TwoTasks == {t1, t2}
TheCalls == TwoTasks \X (1 .. Prompts)
=============================================================================
