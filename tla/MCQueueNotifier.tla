-------------------------- MODULE MCQueueNotifier --------------------------
(* Small instances of QueueNotifier for TLC. *)
EXTENDS QueueNotifier

\* Faults of every kind, one of each.
OneOfEach == [k \in FaultKinds |-> 1]

\* Only errors that are worth a retry.
Outages == [k \in FaultKinds |-> IF k = "transient" THEN 3 ELSE 0]

\* No disk faults, several ends of the process.
Crashes == [transient |-> 1, unacked |-> 1, permanent |-> 1, disk |-> 0, crash |-> 2]
=============================================================================
