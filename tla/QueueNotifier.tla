--------------------------- MODULE QueueNotifier ---------------------------
(***************************************************************************)
(* The queueing notifier of internal/queue/notifier.go.  Two goroutines    *)
(* share the queue: the sender (the dispatcher, which calls Send for one   *)
(* event after the other) and the flusher (Run, which calls Flush every    *)
(* FlushInterval).  sendMu serialises their use of the inner notifier;     *)
(* every queue method takes the queue's own lock for its duration, so a    *)
(* method is one step and the code between two methods is not.             *)
(*                                                                         *)
(* The environment may refuse a message for now, refuse it for good, take  *)
(* it and lose the answer, fail to write or read the file, and end the     *)
(* process at any point.  Budget bounds how often each of these happens,   *)
(* MaxEvents how many alerts there are.                                    *)
(***************************************************************************)
EXTENDS Queue, FiniteSets

FaultKinds == {"transient", "unacked", "permanent", "disk", "crash"}

CONSTANTS MaxEvents,           \* alerts handed to Send
          Budget               \* how many faults of each kind may happen

ASSUME BudgetAssumption == /\ MaxEvents \in Nat
                           /\ Budget \in [FaultKinds -> Nat]

VARIABLES
  up,         \* the process runs
  q,          \* the queue in memory
  file,       \* queue.jsonl
  sendMu,     \* who holds Notifier.sendMu
  sender,     \* where the sender is in Send
  flusher,    \* where the flusher is in Run and Flush
  front,      \* what Flush last got from Front: the id and the event
  snap,       \* what Flush read from Dropped
  handed,     \* alerts handed to Send so far; the latest is number handed
  faults,     \* faults so far, by kind
  \* History, read by the properties only:
  delivered,  \* alerts Telegram has taken
  repeats,    \* deliveries of an alert it had taken before
  rejected,   \* alerts given up after a permanent error
  capped,     \* alerts discarded by the cap
  lost,       \* alerts that were in the hands of Send when the process ended
  announced   \* drops announced in delivered summaries

queueVars   == <<q, file>>
threadVars  == <<sendMu, sender, flusher, front, snap>>
historyVars == <<delivered, repeats, rejected, capped, lost, announced>>
vars == <<up, queueVars, threadVars, handed, faults, historyVars>>

NoFront == [id |-> 0, event |-> 0]

Init ==
  /\ up = TRUE
  /\ q = NewQueue
  /\ file = NoFile
  /\ sendMu = "free"
  /\ sender = "idle"
  /\ flusher = "idle"
  /\ front = NoFront
  /\ snap = 0
  /\ handed = 0
  /\ faults = [k \in FaultKinds |-> 0]
  /\ delivered = {}
  /\ repeats = 0
  /\ rejected = {}
  /\ capped = {}
  /\ lost = {}
  /\ announced = 0
-----------------------------------------------------------------------------
Fault(k) == /\ faults[k] < Budget[k]
            /\ faults' = [faults EXCEPT ![k] = @ + 1]

\* persistLocked: the file becomes the image of the new queue, or writing it
\* failed and the old file is still there.
Persist(newQ) ==
  \/ file' = Image(newQ) /\ UNCHANGED faults
  \/ Fault("disk") /\ UNCHANGED file

\* The inner notifier's answer to a message: nil, a permanent error, or a
\* transient one.  An unacked message was taken although the answer is an error.
Answered(outcome) ==
  IF outcome = "ok" THEN UNCHANGED faults ELSE Fault(outcome)

Outcomes == {"ok", "transient", "unacked", "permanent"}
Taken(outcome) == outcome \in {"ok", "unacked"}
Retry(outcome) == outcome \in {"transient", "unacked"}

\* Telegram's side of sending event e.
Deliver(e, outcome) ==
  /\ delivered' = IF Taken(outcome) THEN delivered \union {e} ELSE delivered
  /\ repeats' = IF Taken(outcome) /\ e \in delivered THEN repeats + 1 ELSE repeats
  /\ rejected' = IF outcome = "permanent" THEN rejected \union {e} ELSE rejected
-----------------------------------------------------------------------------
(* Send, called by the dispatcher. *)

\* Send is called with the next event; it looks at Len before locking.
SendCheck ==
  /\ up /\ sender = "idle"
  /\ handed < MaxEvents
  /\ handed' = handed + 1
  /\ sender' = IF Len(q.entries) > 0 THEN "push" ELSE "wait"
  /\ UNCHANGED <<up, queueVars, sendMu, flusher, front, snap, faults, historyVars>>

SendLock ==
  /\ up /\ sender = "wait"
  /\ sendMu = "free"
  /\ sendMu' = "sender"
  /\ sender' = "recheck"
  /\ UNCHANGED <<up, queueVars, flusher, front, snap, handed, faults, historyVars>>

SendRecheck ==
  /\ up /\ sender = "recheck"
  /\ sender' = IF Len(q.entries) > 0 THEN "push" ELSE "sending"
  /\ UNCHANGED <<up, queueVars, sendMu, flusher, front, snap, handed, faults,
                 historyVars>>

\* The deferred unlock, if the sender has locked.
SenderUnlock == sendMu' = IF sendMu = "sender" THEN "free" ELSE sendMu

\* Mutated: a failed event is not queued.
SendDirectOnly(outcome) ==
  /\ up /\ sender = "sending"
  /\ Answered(outcome)
  /\ Deliver(handed, outcome)
  /\ sender' = "idle" /\ SenderUnlock
  /\ UNCHANGED <<up, queueVars, flusher, front, snap, handed, capped, lost, announced>>

SendDirect(outcome) ==
  /\ up /\ sender = "sending"
  /\ Answered(outcome)
  /\ Deliver(handed, outcome)
  /\ IF Retry(outcome)
     THEN sender' = "push" /\ UNCHANGED sendMu
     ELSE sender' = "idle" /\ SenderUnlock
  /\ UNCHANGED <<up, queueVars, flusher, front, snap, handed, capped, lost, announced>>

\* enqueue: Push keeps the event in memory even when writing the file fails.
SendPush ==
  /\ up /\ sender = "push"
  /\ q' = Push(q, handed)
  /\ Persist(q')
  /\ capped' = capped \union ((Events(q) \union {handed}) \ Events(q'))
  /\ sender' = "idle"
  /\ SenderUnlock
  /\ UNCHANGED <<up, flusher, front, snap, handed, delivered, repeats, rejected,
                 lost, announced>>
-----------------------------------------------------------------------------
(* Run and Flush. *)

\* The timer fires (or Run starts): Flush looks at Len, then at Dropped.
FlushCheckLen ==
  /\ up /\ flusher = "idle"
  /\ flusher' = IF Len(q.entries) = 0 THEN "checkDropped" ELSE "lock"
  /\ UNCHANGED <<up, queueVars, sendMu, sender, front, snap, handed, faults, historyVars>>

\* Mutated: an empty queue ends Flush, drops or not.
FlushCheckLenOnly ==
  /\ up /\ flusher = "checkDropped"
  /\ flusher' = "idle"
  /\ UNCHANGED <<up, queueVars, sendMu, sender, front, snap, handed, faults, historyVars>>

FlushCheckDropped ==
  /\ up /\ flusher = "checkDropped"
  /\ flusher' = IF q.dropped = 0 THEN "idle" ELSE "lock"
  /\ UNCHANGED <<up, queueVars, sendMu, sender, front, snap, handed, faults, historyVars>>

FlushLock ==
  /\ up /\ flusher = "lock"
  /\ sendMu = "free"
  /\ sendMu' = "flusher"
  /\ flusher' = "readDropped"
  /\ UNCHANGED <<up, queueVars, sender, front, snap, handed, faults, historyVars>>

FlushReadDropped ==
  /\ up /\ flusher = "readDropped"
  /\ snap' = q.dropped
  /\ flusher' = IF q.dropped > 0 THEN "summary" ELSE "next"
  /\ UNCHANGED <<up, queueVars, sendMu, sender, front, handed, faults, historyVars>>

\* Mutated: Flush returns without unlocking.
FlushReturnLocked ==
  /\ flusher' = "idle"
  /\ UNCHANGED sendMu
  /\ front' = NoFront
  /\ snap' = 0

\* Flush returns: the deferred unlock, then Run waits for its timer.  What
\* Front and Dropped returned goes out of scope.
FlushReturn ==
  /\ flusher' = "idle"
  /\ sendMu' = "free"
  /\ front' = NoFront
  /\ snap' = 0

\* "<snap> alerts dropped while offline".
FlushSummary(outcome) ==
  /\ up /\ flusher = "summary"
  /\ Answered(outcome)
  /\ announced' = IF Taken(outcome) THEN announced + snap ELSE announced
  /\ IF Retry(outcome)
     THEN FlushReturn
     ELSE flusher' = "reset" /\ UNCHANGED <<sendMu, front, snap>>
  /\ UNCHANGED <<up, queueVars, sender, handed, delivered, repeats, rejected,
                 capped, lost>>

FlushReset ==
  /\ up /\ flusher = "reset"
  /\ q' = ResetDropped(q)
  /\ Persist(q')
  /\ flusher' = "next"
  /\ snap' = 0
  /\ UNCHANGED <<up, sendMu, sender, front, handed, historyVars>>

\* Mutated: the newest entry is taken.
FlushFrontNewest ==
  /\ up /\ flusher = "next"
  /\ IF q.entries = <<>>
     THEN FlushReturn
     ELSE LET last == q.entries[Len(q.entries)] IN
          /\ front' = [id |-> last.seq, event |-> last.event]
          /\ flusher' = "sending"
          /\ UNCHANGED <<sendMu, snap>>
  /\ UNCHANGED <<up, queueVars, sender, handed, faults, historyVars>>

FlushFront ==
  /\ up /\ flusher = "next"
  /\ IF q.entries = <<>>
     THEN FlushReturn
     ELSE /\ front' = [id |-> Head(q.entries).seq, event |-> Head(q.entries).event]
          /\ flusher' = "sending"
          /\ UNCHANGED <<sendMu, snap>>
  /\ UNCHANGED <<up, queueVars, sender, handed, faults, historyVars>>

FlushSend(outcome) ==
  /\ up /\ flusher = "sending"
  /\ Answered(outcome)
  /\ Deliver(front.event, outcome)
  /\ IF Retry(outcome)
     THEN FlushReturn
     ELSE flusher' = "remove" /\ UNCHANGED <<sendMu, front, snap>>
  /\ UNCHANGED <<up, queueVars, sender, handed, capped, lost, announced>>

\* Mutated: the file keeps the removed entry.
FlushRemoveUnsaved ==
  /\ up /\ flusher = "remove"
  /\ q' = Remove(q, front.id)
  /\ flusher' = "next"
  /\ front' = NoFront
  /\ UNCHANGED <<up, file, sendMu, sender, snap, handed, faults, historyVars>>

\* Remove does not touch the file when the entry is already gone.
FlushRemove ==
  /\ up /\ flusher = "remove"
  /\ q' = Remove(q, front.id)
  /\ IF q' = q THEN UNCHANGED <<file, faults>> ELSE Persist(q')
  /\ flusher' = "next"
  /\ front' = NoFront
  /\ UNCHANGED <<up, sendMu, sender, snap, handed, historyVars>>
-----------------------------------------------------------------------------
(* The process. *)

\* The process ends at any point: memory is gone, the file stays.
Crash ==
  /\ up
  /\ Fault("crash")
  /\ up' = FALSE
  /\ lost' = IF sender = "idle" THEN lost ELSE lost \union {handed}
  /\ q' = NewQueue
  /\ sendMu' = "free"
  /\ sender' = "idle"
  /\ flusher' = "idle"
  /\ front' = NoFront
  /\ snap' = 0
  /\ UNCHANGED <<file, handed, delivered, repeats, rejected, capped, announced>>

\* systemd starts it again and cmdRun opens the queue.  A file that cannot be
\* read leaves an empty queue, with which the daemon goes on.
Restart ==
  /\ ~up
  /\ up' = TRUE
  /\ \/ q' = Open(file) /\ UNCHANGED faults
     \/ q' = NewQueue /\ Fault("disk")
  /\ UNCHANGED <<file, threadVars, handed, historyVars>>
-----------------------------------------------------------------------------
SenderStep == \/ SendLock \/ SendRecheck \/ SendPush
              \/ \E o \in Outcomes : SendDirect(o)

FlusherStep == \/ FlushCheckLen \/ FlushCheckDropped \/ FlushLock
               \/ FlushReadDropped \/ FlushReset \/ FlushFront \/ FlushRemove
               \/ \E o \in Outcomes : FlushSummary(o) \/ FlushSend(o)

Next == SendCheck \/ SenderStep \/ FlusherStep \/ Crash \/ Restart

Spec == Init /\ [][Next]_vars

\* A call of Send proceeds, the flusher's timer fires again and again (Run
\* loops until the context ends) and systemd restarts the process.
Fairness == WF_vars(SenderStep) /\ WF_vars(FlusherStep) /\ WF_vars(Restart)

FairSpec == Spec /\ Fairness
-----------------------------------------------------------------------------
TypeOK ==
  /\ up \in BOOLEAN
  /\ q \in QueueState
  /\ file \in FileState
  /\ sendMu \in {"free", "sender", "flusher"}
  /\ sender \in {"idle", "wait", "recheck", "sending", "push"}
  /\ flusher \in {"idle", "checkDropped", "lock", "readDropped", "summary",
                  "reset", "next", "sending", "remove"}
  /\ front \in [id : Nat, event : Nat]
  /\ snap \in Nat
  /\ handed \in Nat
  /\ faults \in [FaultKinds -> Nat]
  /\ delivered \subseteq Nat
  /\ repeats \in Nat
  /\ rejected \subseteq Nat
  /\ capped \subseteq Nat
  /\ lost \subseteq Nat
  /\ announced \in Nat

\* The alerts the notifier still has to deal with: those in the queue, in
\* memory or on disk, the one the flusher is sending and the one in Send.
Queued == IF up THEN Events(q) ELSE {file.events[i] : i \in DOMAIN file.events}

InFlight == IF flusher = "sending" THEN {front.event} ELSE {}

InSend == IF sender = "idle" THEN {} ELSE {handed}

Unsettled == Queued \union InFlight \union InSend

\* An alert handed to the notifier does not vanish (README.md "Offline Queue"):
\* it is delivered, refused for good, counted as dropped, or still there.  Only
\* the end of the process takes one away, the one Send was working on, so at
\* most one each time.  An unwritten file and an end together may cost more.
NothingVanishes ==
  faults["disk"] = 0 \/ faults["crash"] = 0 =>
    /\ 1..handed \subseteq delivered \union rejected \union capped
                           \union lost \union Unsettled
    /\ Cardinality(lost) <= faults["crash"]

\* Alerts reach Telegram in the order they were handed over: one that it takes
\* for the first time is newer than all it has taken ("order is kept",
\* notifier.go).  An old file brings dropped alerts back, so the file must have
\* been written each time.
OrderKept ==
  [][faults'["disk"] = 0 =>
       \A e \in delivered' \ delivered : \A d \in delivered : d < e]_vars

\* An alert is delivered again only because the answer to it was lost or the
\* process ended between sending and removing it, once for each such event.
RepeatsExplained ==
  faults["disk"] = 0 => repeats <= faults["unacked"] + faults["crash"]

\* Drops that are still to be announced: between a delivered summary and
\* ResetDropped the counter still holds what the summary said.
Unannounced == IF flusher = "reset" THEN q.dropped - snap ELSE q.dropped

\* No summary announces drops that did not happen, nor the same drop twice,
\* unless its answer was lost or the process ended before the counter was reset.
NotOverAnnounced ==
  (faults["unacked"] = 0 /\ faults["crash"] = 0) =>
     announced + Unannounced <= Cardinality(capped)

\* README.md: older entries "are dropped and reported once".  Every drop has been
\* announced or is still counted, when nothing but transient errors happens.
EveryDropReported ==
  (\A k \in FaultKinds \ {"transient"} : faults[k] = 0) =>
     announced + Unannounced = Cardinality(capped)

\* While the flusher is sending an entry it got from Front, that entry is the
\* oldest in the queue, or the cap has discarded it; Remove hits no other.
FrontStaysInFront ==
  flusher \in {"sending", "remove"} =>
    \A i \in DOMAIN q.entries :
       /\ q.entries[i].event >= front.event
       /\ q.entries[i].seq = front.id <=> q.entries[i].event = front.event
       /\ q.entries[i].seq = front.id => i = 1

\* Every alert handed over is settled in the end, once the faults stop.
EveryAlertSettles ==
  \A e \in 1..MaxEvents : e \in Unsettled ~> e \notin Unsettled

\* Drops that are counted while no summary is under way are all announced in
\* the end, through outages and ends of the process, unless a summary is refused
\* for good (notifier.go counts them as told then).  Drops made during a summary
\* are another matter: see EveryDropReported.  No more than MaxEvents - Max
\* drops can be made.
DropsAnnounced ==
  \A told \in 0..(MaxEvents - Max), n \in 1..(MaxEvents - Max) :
     (up /\ flusher \notin {"summary", "reset"} /\ announced = told /\ q.dropped = n)
       ~> (announced >= told + n \/ faults["permanent"] > 0)

\* Send returns, however long the flusher holds the lock: the dispatcher is never
\* stuck in it (Daemon relies on this).
SendReturns == sender # "idle" ~> sender = "idle"
-----------------------------------------------------------------------------
\* The notifier implements AlertChannel.  An alert is pending until Telegram has
\* taken it or it has left the queue and the flusher's hands.
Channel == INSTANCE AlertChannel WITH
             Cap <- Max, busy <- sender # "idle", accepted <- handed,
             pending <- Unsettled \ delivered, taken <- delivered,
             refused <- rejected \ delivered

\* Every step of the notifier is a step of the channel or invisible to it, as
\* long as the file can be written: order, no silent loss, a bounded backlog.
ImplementsChannel == Channel!Spec
=============================================================================
