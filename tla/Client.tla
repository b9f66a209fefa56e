-------------------------------- MODULE Client --------------------------------
(* One call of the Slack client, with its retries (internal/slack/client.go   *)
(* and errors.go). A call is a record that one attempt after the other        *)
(* advances; what an attempt meets is external. Times are milliseconds.       *)
EXTENDS Integers

CONSTANTS Budget,         \* retryBudget
          HTTPTimeout     \* of one attempt

-----------------------------------------------------------------------------
(* What an attempt meets: an error of the transport, a status that is no      *)
(* success, an answer that cannot be read, or Slack's own word. carried tells *)
(* whether Slack did what it was asked: a refusal means that it did not, an   *)
(* error of its servers, or of a proxy before them, means nothing.            *)

TransportErrors == {"dns", "dial", "refused", "read", "write", "reset", "eof", "other"}

NeverSent == {"dns", "dial", "refused"}

Statuses == {"302", "400", "401", "403", "404", "429", "500", "503"}

SlackCodes == {"ratelimited", "service_unavailable", "internal_error", "request_timeout",
               "fatal_error", "channel_not_found", "invalid_blocks", "a new one"}

Refusals == {"400", "401", "403", "404", "429", "ratelimited", "channel_not_found", "invalid_blocks"}

World ==
    [met : {"transport"}, error : TransportErrors \ NeverSent, carried : BOOLEAN]
    \cup [met : {"transport"}, error : NeverSent, carried : {FALSE}]
    \cup [met : {"status"}, error : Statuses \cap Refusals, carried : {FALSE}]
    \cup [met : {"status"}, error : Statuses \ Refusals, carried : BOOLEAN]
    \cup [met : {"ok=false"}, error : SlackCodes \cap Refusals, carried : {FALSE}]
    \cup [met : {"ok=false"}, error : SlackCodes \ Refusals, carried : BOOLEAN]
    \cup [met : {"cut off", "garbled"}, error : {"none"}, carried : BOOLEAN]
    \cup [met : {"ok"}, error : {"none"}, carried : {TRUE}]

-----------------------------------------------------------------------------
(* How it is classified.                                                     *)

(* No answer, so no status.                                                   *)
ClassifyTransport(error) == [kind |-> "transient", http |-> FALSE, safe |-> error \in NeverSent]

ClassifyHTTPStatus(status) ==
    CASE status = "400" -> "bug"
      [] status \in {"401", "403", "404"} -> "persistent"
      [] status \in {"429", "500", "503"} -> "transient"
      [] OTHER -> "unknown"

\* A code nobody has classified is not retried.
ClassifySlackCode(code) ==
    CASE code \in {"ratelimited", "service_unavailable", "internal_error", "request_timeout",
                  "fatal_error"} -> "transient"
      [] code = "invalid_blocks" -> "bug"
      [] OTHER -> "persistent"

\* An answer that was cut off or cannot be decoded carries no status.
Attempt(w) ==
    CASE w.met = "ok" -> [kind |-> "none", http |-> TRUE, safe |-> TRUE]
      [] w.met = "transport" -> ClassifyTransport(w.error)
      [] w.met = "status" ->
            [kind |-> ClassifyHTTPStatus(w.error), http |-> TRUE, safe |-> TRUE]
      [] w.met = "ok=false" ->
            [kind |-> ClassifySlackCode(w.error), http |-> TRUE, safe |-> TRUE]
      [] OTHER -> [kind |-> "transient", http |-> FALSE, safe |-> FALSE]

-----------------------------------------------------------------------------
(* The loop.                                                                 *)

(* doubts (history) counts the attempts that were made after an answer that   *)
(* is no refusal.                                                             *)
NewCall == [attempt |-> 1, now |-> 0, carried |-> 0, doubts |-> 0, ended |-> "no"]

Doubtful(w) == w.met \in {"status", "ok=false"} /\ w.error \notin Refusals

\* parseRetryAfter: a negative or unreadable header is no header; 0 is none.
ParseRetryAfter(seconds) == IF seconds < 0 THEN 0 ELSE seconds * 1000

\* Half of the base is drawn, a quarter taken off.
NextBackoff(attempt, retryAfter) ==
    LET base == CASE attempt = 1 -> 500 [] attempt = 2 -> 1000 [] OTHER -> 2000
    IN IF retryAfter > 0 THEN {IF retryAfter > 60000 THEN 60000 ELSE retryAfter}
       ELSE {base - base \div 4, base, base + base \div 4 - 1}

\* A wait that would pass the deadline is not begun.
GiveUp(now, wait) == now + wait > Budget \/ Budget = 0

\* Mutant: a transient error is retried whatever became of the request.
RetryAnyTransient(a) == a.kind = "transient"

Retried(a) == a.kind = "transient" /\ (a.http \/ a.safe)

\* retryingDo, from one attempt to the next: it meets w after taking some time,
\* and the wait that follows is one of NextBackoff's. A cancelled context ends
\* the call before an attempt or in the wait.
RetryingDo(c, w, took, retryAfter) ==
    LET a == Attempt(w)
        after == [c EXCEPT !.now = @ + took, !.carried = IF w.carried THEN @ + 1 ELSE @]
        End(how) == {[after EXCEPT !.ended = how]}
    IN IF a.kind = "none" THEN End("delivered")
       ELSE IF ~Retried(a) THEN End("failed")
       ELSE UNION {IF GiveUp(after.now, wait) THEN End("failed")
                   ELSE {[after EXCEPT !.now = @ + wait, !.attempt = @ + 1,
                                       !.doubts = IF Doubtful(w) THEN @ + 1 ELSE @]} :
                        wait \in NextBackoff(c.attempt, ParseRetryAfter(retryAfter))}

Cancel(c) == [c EXCEPT !.ended = "cancelled"]
=============================================================================
