---------------------------- MODULE Suppression ----------------------------
(***************************************************************************)
(* The two filters of the dispatcher: the cooldowns of                     *)
(* internal/core/cooldowns.go and the deduplication of                     *)
(* internal/core/dedup.go.  Both are maps that grow as alerts pass; here   *)
(* they are functions on the keys they hold, and the operators return the  *)
(* map after the call.  Only one goroutine at a time calls them, so their  *)
(* mutexes are not modelled.  An event is its source, type and text (the   *)
(* title and the message); its other fields play no part.                  *)
(***************************************************************************)
EXTENDS Integers

CONSTANT Duration     \* cooldown in seconds, for the event types that have one

ASSUME DurationAssumption == \A t \in DOMAIN Duration : Duration[t] \in Nat

\* The map m with k mapped to v.
Put(m, k, v) == [x \in DOMAIN m \union {k} |-> IF x = k THEN v ELSE m[x]]

\* A map without entries.
NoEntries == [x \in {} |-> 0]
-----------------------------------------------------------------------------
\* The duration of a type, zero when it has none.
Cooldown(type) == IF type \in DOMAIN Duration THEN Duration[type] ELSE 0

\* Mutated: cooldowns of different sources are one.
CooldownKeyType(e) == e.type

CooldownKey(e) == <<e.source, e.type>>

\* Mutated: allowed at the deadline.
IsAllowedAt(cooledUntil, e, now) ==
  CooldownKey(e) \in DOMAIN cooledUntil => now >= cooledUntil[CooldownKey(e)]

IsAllowed(cooledUntil, e, now) ==
  CooldownKey(e) \in DOMAIN cooledUntil => now > cooledUntil[CooldownKey(e)]

RecordCooldown(cooledUntil, e, now) ==
  IF Cooldown(e.type) = 0 THEN cooledUntil
  ELSE Put(cooledUntil, CooldownKey(e), now + Cooldown(e.type))
-----------------------------------------------------------------------------
DedupKey(e) == <<e.source, e.type, e.text>>

\* The last alert of each source is remembered, not all of them.
IsNew(lastKeys, e) ==
  e.source \in DOMAIN lastKeys => lastKeys[e.source] # DedupKey(e)

\* Mutated: the first key of a source stays.
RecordFirstKey(lastKeys, e) ==
  IF e.source \in DOMAIN lastKeys THEN lastKeys
  ELSE Put(lastKeys, e.source, DedupKey(e))

RecordKey(lastKeys, e) == Put(lastKeys, e.source, DedupKey(e))
=============================================================================
