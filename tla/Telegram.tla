----------------------------- MODULE Telegram ------------------------------
(***************************************************************************)
(* The Telegram notifier of internal/notifier/telegram.go: one call of     *)
(* Send, which formats the alert, posts it up to maxRetries times and      *)
(* waits between the attempts.  It is the inner notifier of QueueNotifier, *)
(* where a call is one step with an outcome; here the attempts and what    *)
(* Telegram does with each of them are apart.                              *)
(*                                                                         *)
(* A text is a sequence of symbols: a plain byte, a byte that is itself a  *)
(* semicolon, a character that HTML escapes, a character of two bytes.     *)
(* html.EscapeString makes bytes of it, and truncateEscaped works on       *)
(* those.  The head, the tail and the line feeds around the message count  *)
(* as "fixed" bytes.  Time is counted in seconds.                          *)
(***************************************************************************)
EXTENDS Integers, SequencesExt, FiniteSetsExt

CONSTANTS Limit,       \* maxMessageLen
          MinRoom,     \* the room below which details are not worth showing
          Events,      \* alerts: [fixed, message, details]
          RetryAfters, \* values of retry_after in an answer 429 (0: none)
          Durations    \* how long an attempt may take, up to Timeout

maxRetries    == 3
maxRetryAfter == 30
Timeout       == 10    \* of the HTTP client
Pre           == 12    \* a line feed, <pre> and </pre>

Symbols == {"plain", "semicolon", "special", "accent"}

ASSUME TelegramAssumption ==
  /\ Limit \in Nat /\ MinRoom \in Nat
  /\ Events \subseteq [fixed : Nat, message : Seq(Symbols), details : Seq(Symbols)]
  /\ RetryAfters \subseteq Nat
  /\ Durations \subseteq 0 .. Timeout

VARIABLES
  event,      \* the alert handed to Send
  chat,       \* Telegram knows the chat of the configuration
  text,       \* what formatMessage made of the alert: [message, details, pre]
  attempt,    \* attempts finished
  result,     \* what Send returned: "nil", "permanent", "retries"; "none" so far
  elapsed,    \* seconds since the call
  taken,      \* how often Telegram took the alert (history)
  limited     \* attempts answered with 429 (history)

vars == <<event, chat, text, attempt, result, elapsed, taken, limited>>
-----------------------------------------------------------------------------
(* formatMessage and truncateEscaped. *)

\* The bytes of a symbol once escaped: "rune" starts a character of several
\* bytes, "cont" continues it; "semi" is a semicolon.
Bytes == [plain     |-> <<"x">>,
          semicolon |-> <<"semi">>,
          special   |-> <<"&", "x", "x", "semi">>,
          accent    |-> <<"rune", "cont">>]

EscapeString(s) == FlattenSeq([i \in DOMAIN s |-> Bytes[s[i]]])

ellipsis == <<"rune", "cont", "cont">>

isRuneStart(b) == b # "cont"

\* The first byte left out is moved back to the start of its character ...
CutAtRune(s, max) ==
  CHOOSE c \in 0 .. max - Len(ellipsis) :
    /\ c = 0 \/ isRuneStart(s[c + 1])
    /\ \A d \in c + 1 .. max - Len(ellipsis) : ~ isRuneStart(s[d + 1])

\* ... and then to the last "&", unless a semicolon follows it in time.
Cut(s, max) ==
  LET cut == CutAtRune(s, max)
      amp == Max({0} \union {i \in 1 .. cut : s[i] = "&"})
  IN  IF amp > 0 /\ \A i \in amp .. cut : s[i] # "semi" THEN amp - 1 ELSE cut

truncateEscaped(s, max) ==
  CASE Len(s) <= max -> s
    [] Len(s) > max /\ max <= Len(ellipsis) -> <<>>
    [] OTHER -> SubSeq(s, 1, Cut(s, max)) \o ellipsis

formatMessage(e) ==
  LET budget == Limit - e.fixed
      message == truncateEscaped(EscapeString(e.message), budget)
      room == budget - Len(message) - Pre
      shown == e.details # <<>> /\ room > MinRoom
  IN  [message |-> message,
       details |-> IF shown THEN truncateEscaped(EscapeString(e.details), room) ELSE <<>>,
       pre     |-> IF shown THEN Pre ELSE 0]
-----------------------------------------------------------------------------
(* Telegram: it takes a text of at most Limit characters (not bytes) whose *)
(* entities and characters are whole, for a chat it knows, and rejects any *)
(* other with 400.                                                         *)

Characters(s) == Cardinality({i \in DOMAIN s : isRuneStart(s[i])})

\* Every byte belongs to a whole character or entity.
Whole(s) ==
  /\ \A i \in DOMAIN s : s[i] = "&" => i + 3 <= Len(s) /\ s[i + 3] = "semi"
  /\ \A i \in DOMAIN s : s[i] = "rune" => i < Len(s) /\ s[i + 1] = "cont"
  /\ \A i \in DOMAIN s : s[i] = "cont" => i > 1 /\ s[i - 1] \in {"rune", "cont"}

Accepts ==
  /\ chat
  /\ event.fixed + text.pre + Characters(text.message) + Characters(text.details) <= Limit
  /\ Whole(text.message) /\ Whole(text.details)
-----------------------------------------------------------------------------
Init ==
  /\ event \in Events
  /\ chat \in BOOLEAN
  /\ text = formatMessage(event)
  /\ attempt = 0
  /\ result = "none"
  /\ elapsed = 0
  /\ taken = 0
  /\ limited = 0

Attempting == result = "none" /\ attempt < maxRetries

\* The answer 2xx.
Delivered(d) ==
  /\ Attempting
  /\ Accepts
  /\ taken' = taken + 1
  /\ attempt' = attempt + 1
  /\ result' = "nil"
  /\ elapsed' = elapsed + d
  /\ UNCHANGED <<event, chat, text, limited>>

\* The answer 400 or 413: no further attempt.
Rejected(d) ==
  /\ Attempting
  /\ ~ Accepts
  /\ attempt' = attempt + 1
  /\ result' = "permanent"
  /\ elapsed' = elapsed + d
  /\ UNCHANGED <<event, chat, text, taken, limited>>

\* The attempt failed after d seconds; Send sleeps, after the last one too.
TryAgain(d, wait) ==
  /\ Attempting
  /\ attempt' = attempt + 1
  /\ elapsed' = elapsed + d + wait
  /\ UNCHANGED <<event, chat, text, result>>

BackOff == 2 ^ attempt

\* No connection, or none in time; or an answer of another status.
NotReached(d) ==
  /\ TryAgain(d, BackOff)
  /\ UNCHANGED <<taken, limited>>

\* Telegram takes the alert and its answer does not arrive.
AnswerLost(d) ==
  /\ Accepts
  /\ TryAgain(d, BackOff)
  /\ taken' = taken + 1
  /\ UNCHANGED limited

\* The answer 429: its retry_after counts if it is longer than the back-off
\* and not longer than Send is willing to sleep.
RetryWait(ra) == IF ra > BackOff /\ ra <= maxRetryAfter THEN ra ELSE BackOff

RateLimited(d, ra) ==
  /\ TryAgain(d, RetryWait(ra))
  /\ limited' = limited + 1
  /\ UNCHANGED taken

\* The same with err shadowed inside the loop and returned after it.
GiveUpSilently ==
  /\ result = "none" /\ attempt = maxRetries
  /\ result' = "nil"
  /\ UNCHANGED <<event, chat, text, attempt, elapsed, taken, limited>>

\* After the last attempt, the error of that attempt.
GiveUp ==
  /\ result = "none" /\ attempt = maxRetries
  /\ result' = "retries"
  /\ UNCHANGED <<event, chat, text, attempt, elapsed, taken, limited>>

Next ==
  \/ \E d \in Durations :
       \/ Delivered(d) \/ Rejected(d) \/ NotReached(d) \/ AnswerLost(d)
       \/ \E ra \in RetryAfters : RateLimited(d, ra)
  \/ GiveUp

Spec == Init /\ [][Next]_vars
-----------------------------------------------------------------------------
(* The outcome of the call as QueueNotifier knows it. *)
Outcome ==
  CASE result = "nil"       -> "ok"
    [] result = "permanent" -> "permanent"
    [] result = "retries"   -> IF taken = 0 THEN "transient" ELSE "unacked"
    [] OTHER                -> "pending"

\* As much of a text as can be shown in max bytes, said without bytes: all of
\* it, or its longest beginning that leaves room for the ellipsis.
ShownOf(s, max) ==
  LET Fits(n) == Len(EscapeString(SubSeq(s, 1, n))) <= max - Len(ellipsis)
  IN  IF Len(EscapeString(s)) <= max THEN EscapeString(s)
      ELSE IF max <= Len(ellipsis) THEN <<>>
      ELSE EscapeString(SubSeq(s, 1, CHOOSE n \in 0 .. Len(s) :
             /\ Fits(n)
             /\ \A m \in n + 1 .. Len(s) : ~ Fits(m))) \o ellipsis

(* No alert is given up because of its message or its details, however long *)
(* they are and wherever the cut falls: a permanent error means that the    *)
(* chat is unknown or the title and the other fixed lines alone are too     *)
(* long.  And the cut takes no more of the message than it must.            *)
TextAccepted ==
  /\ result = "permanent" => ~ chat \/ event.fixed > Limit
  /\ text.message = ShownOf(event.message, Limit - event.fixed)

(* What Send returns is true of what Telegram has: nil and Telegram has the  *)
(* alert, a permanent error and it has not (so the queue may forget it);     *)
(* and it is one of the outcomes QueueNotifier reckons with.  The call holds *)
(* sendMu for at most two minutes, and 37 seconds when no answer was 429,    *)
(* whatever Telegram asks for in retry_after.                                *)
ResultHonest ==
  /\ Outcome = "ok" => taken >= 1
  /\ Outcome = "permanent" => taken = 0
  /\ taken <= maxRetries
  /\ elapsed <= maxRetries * (Timeout + maxRetryAfter)
  /\ limited = 0 => elapsed <= maxRetries * Timeout + 7
=============================================================================
