---------------------------- MODULE AlertChannel ----------------------------
(***************************************************************************)
(* What the offline queue promises (README.md, "Offline Queue"), without   *)
(* files, locks or goroutines: a channel that takes alerts one at a time,  *)
(* keeps at most about Cap of them while it cannot deliver, and delivers   *)
(* in order.  An alert is the number under which it was accepted.          *)
(* QueueNotifier implements this; Daemon is built on it.                   *)
(***************************************************************************)
EXTENDS Integers, FiniteSets

CONSTANT Cap

VARIABLES up,          \* the process runs
          busy,        \* a call of Send has not returned
          accepted,    \* number of alerts accepted
          pending,     \* those the channel still answers for
          taken,       \* those the receiver has taken
          refused      \* those the receiver has refused for good

vars == <<up, busy, accepted, pending, taken, refused>>

Init == /\ up = TRUE
        /\ busy = FALSE
        /\ accepted = 0 /\ pending = {} /\ taken = {} /\ refused = {}

\* Send is called with the next alert.
Accept ==
  /\ up /\ ~busy
  /\ busy' = TRUE
  /\ accepted' = accepted + 1
  /\ pending' = pending \union {accepted + 1}
  /\ UNCHANGED <<up, taken, refused>>

\* Any of the following steps may also be the one with which Send returns.
MayReturn == busy' \in {busy, FALSE}

Return == busy /\ busy' = FALSE /\ UNCHANGED <<up, accepted, pending, taken, refused>>

\* First deliveries are in order.  (The receiver may get a copy of what it has
\* taken; that changes nothing here.)
Deliver(e) ==
  /\ up /\ MayReturn
  /\ \A d \in taken \union pending : d # e => (d < e <=> d \in taken)
  /\ taken' = taken \union {e}
  /\ pending' = pending \ {e}
  /\ refused' = refused \ {e}
  /\ UNCHANGED <<up, accepted>>

\* The receiver refuses an alert; the channel may forget it at once or later.
Refuse(e) ==
  /\ up /\ MayReturn
  /\ refused' = refused \union {e}
  /\ pending' \in {pending, pending \ {e}}
  /\ UNCHANGED <<up, accepted, taken>>

\* An alert may be dropped while Cap younger ones are pending.
Overflowed(e) == Cardinality({p \in pending : p > e}) >= Cap

Forget(e) ==
  /\ up /\ MayReturn
  /\ Overflowed(e) \/ e \in refused
  /\ pending' = pending \ {e}
  /\ UNCHANGED <<up, accepted, taken, refused>>

\* The process ends.  The alert in the hands of Send may be gone, and one that
\* was dropped while it was being sent.
Interrupt(gone) ==
  /\ up
  /\ \A e \in gone : (busy /\ e = accepted) \/ Overflowed(e)
  /\ up' = FALSE /\ busy' = FALSE
  /\ pending' = pending \ gone
  /\ UNCHANGED <<accepted, taken, refused>>

Resume == ~up /\ up' = TRUE /\ UNCHANGED <<busy, accepted, pending, taken, refused>>

Work == Return \/ \E e \in pending : Deliver(e) \/ Refuse(e) \/ Forget(e)

Next == Accept \/ Work \/ Resume \/ \E gone \in SUBSET pending : Interrupt(gone)

Spec == Init /\ [][Next]_vars
=============================================================================
