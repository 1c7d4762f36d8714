---------------------------- MODULE MCQueueMemcpy ----------------------------
(***************************************************************************)
(* The two ways the driver uses the queue.  On a report port the receiver  *)
(* drops the oldest frame when there is no room and nobody flushes; on the *)
(* command port the thread of a request flushes and pops.                  *)
(***************************************************************************)
EXTENDS QueueMemcpy

ReportCalls  == [t \in Threads |-> IF t = "recv" THEN {"push", "pop"} ELSE {"pop"}]
CommandCalls == [t \in Threads |-> IF t = "recv" THEN {"push"} ELSE {"pop", "flush"}]

BothUses == {ReportCalls, CommandCalls}
=============================================================================
