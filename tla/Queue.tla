------------------------------- MODULE Queue -------------------------------
(***************************************************************************)
(* The data structure of internal/queue/queue.go: a FIFO of undelivered    *)
(* alerts with a cap, a counter of the alerts the cap discarded, and the   *)
(* image of both that is kept in queue.jsonl.                              *)
(*                                                                         *)
(* A queue is a record q; each operator is the effect of one method on it, *)
(* which the method has while it holds q.mu.  An event is represented by   *)
(* the position at which the dispatcher handed it to the notifier.         *)
(***************************************************************************)
EXTENDS Integers, Sequences

CONSTANT Max                   \* entries kept; DefaultMax is 500

\* Open replaces a cap of zero or less by DefaultMax, so a cap is positive.
ASSUME MaxAssumption == Max \in Nat \ {0}

Entry == [seq : Nat, event : Nat]

QueueState == [entries : Seq(Entry), nextSeq : Nat, dropped : Nat]

\* What queue.jsonl holds; no events and no drops is a missing file.
FileState == [dropped : Nat, events : Seq(Nat)]

NoFile == [dropped |-> 0, events |-> <<>>]

NewQueue == [entries |-> <<>>, nextSeq |-> 0, dropped |-> 0]
-----------------------------------------------------------------------------
\* Mutated: the new event goes to the front.
appendLockedFront(q, e) ==
  [entries |-> <<[seq |-> q.nextSeq + 1, event |-> e]>> \o q.entries,
   nextSeq |-> q.nextSeq + 1,
   dropped |-> q.dropped]

appendLocked(q, e) ==
  [entries |-> Append(q.entries, [seq |-> q.nextSeq + 1, event |-> e]),
   nextSeq |-> q.nextSeq + 1,
   dropped |-> q.dropped]

Excess(q) == Len(q.entries) - Max

\* Mutated: the cap discards the newest entries; the counter goes down.
trimLockedNewest(q) ==
  IF Excess(q) > 0
  THEN [q EXCEPT !.entries = SubSeq(@, 1, Max), !.dropped = @ + Excess(q)]
  ELSE q

trimLockedDown(q) ==
  IF Excess(q) > 0
  THEN [entries |-> SubSeq(q.entries, Excess(q) + 1, Len(q.entries)),
        nextSeq |-> q.nextSeq,
        dropped |-> q.dropped - Excess(q)]
  ELSE q

trimLocked(q) ==
  IF Excess(q) > 0
  THEN [entries |-> SubSeq(q.entries, Excess(q) + 1, Len(q.entries)),
        nextSeq |-> q.nextSeq,
        dropped |-> q.dropped + Excess(q)]
  ELSE q

Push(q, e) == trimLocked(appendLocked(q, e))

\* Positions of the entry with the given id; Remove takes the first.
Position(q, id) == {i \in DOMAIN q.entries : q.entries[i].seq = id}

Remove(q, id) ==
  IF Position(q, id) = {}
  THEN q
  ELSE LET i == CHOOSE i \in Position(q, id) :
                  \A j \in Position(q, id) : i <= j
       IN  [q EXCEPT !.entries =
              SubSeq(@, 1, i - 1) \o SubSeq(@, i + 1, Len(@))]

\* Mutated: the counter is not cleared.
ResetDroppedNot(q) == q

ResetDropped(q) == [q EXCEPT !.dropped = 0]

\* The bytes persistLocked writes: the drop count, then the events.  The
\* sequence numbers stay in memory.
Image(q) ==
  [dropped |-> q.dropped,
   events  |-> [i \in DOMAIN q.entries |-> q.entries[i].event]]

\* Open appends every stored event to an empty queue and applies the cap.
Open(file) ==
  trimLocked(
    [entries |-> [i \in DOMAIN file.events |->
                    [seq |-> i, event |-> file.events[i]]],
     nextSeq |-> Len(file.events),
     dropped |-> file.dropped])

Events(q) == {q.entries[i].event : i \in DOMAIN q.entries}
=============================================================================
