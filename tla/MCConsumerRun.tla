--------------------------- MODULE MCConsumerRun ---------------------------
(* ConsumerRun with small widths.                                          *)
EXTENDS ConsumerRun
=============================================================================
