---------------------------- MODULE MCTraceFlush ----------------------------
(***************************************************************************)
(* A small instance of TraceFlush.                                         *)
(***************************************************************************)
EXTENDS TraceFlush

AllFunctions == {"api", "send_confirmation", "send_newsletter"}
AllFaults == FlushFaultKinds
=============================================================================
