------------------------------- MODULE Limiter -------------------------------
(***************************************************************************)
(* The per-channel flood detector of internal/alertmanager/ratelimit.go.   *)
(* A bucket holds the ages of the approvals in the window, oldest first,   *)
(* and the age of the last notice; an age is what matters of a time.       *)
(***************************************************************************)
EXTENDS Integers, Sequences

CONSTANTS PerChannel, Window, NoticeEvery

\* validateAlertmanager: a limiter that limits has a window and a notice interval.
Configured ==
    /\ PerChannel \in Nat
    /\ PerChannel > 0 => Window \in Nat \ {0} /\ NoticeEvery \in Nat \ {0}

Never == -1   \* lastNotice.IsZero()

NewBucket == [approvals |-> <<>>, dropped |-> 0, lastNotice |-> Never, engaged |-> FALSE]

\* bucket.prune: approvals at least a window old are gone.
Prune(b) ==
    LET Young(age) == age < Window
    IN  [b EXCEPT !.approvals = SelectSeq(@, Young)]

\* Limiter.Allow.
Allow(bucket) ==
    LET b == Prune(bucket)
        out(allowed, justEngaged, next) ==
            [allowed |-> allowed, justEngaged |-> justEngaged, bucket |-> next]
    IN  IF PerChannel = 0 THEN out(TRUE, FALSE, bucket)
        ELSE IF Len(b.approvals) >= PerChannel
        THEN out(FALSE, ~b.engaged, [b EXCEPT !.dropped = @ + 1, !.engaged = TRUE])
        ELSE out(TRUE, FALSE, [b EXCEPT !.approvals = Append(@, 0), !.engaged = FALSE])

NoticeDueResets(b) ==                        \* mutant: the count is cleared, due or not
    IF PerChannel = 0 \/ b.dropped = 0 THEN [n |-> 0, bucket |-> b]
    ELSE IF b.lastNotice \in 0 .. NoticeEvery - 1 THEN [n |-> 0, bucket |-> [b EXCEPT !.dropped = 0]]
    ELSE [n |-> b.dropped, bucket |-> [b EXCEPT !.dropped = 0, !.lastNotice = 0]]

\* Limiter.NoticeDue: the count to report, 0 for no notice.
NoticeDue(b) ==
    IF PerChannel = 0 \/ b.dropped = 0 \/ b.lastNotice \in 0 .. NoticeEvery - 1
    THEN [n |-> 0, bucket |-> b]
    ELSE [n |-> b.dropped, bucket |-> [b EXCEPT !.dropped = 0, !.lastNotice = 0]]

\* processAlert: what a drop reports.  The first drop of an engagement reports at
\* least itself, due or not.
ThrottleNotice(justEngaged, n) == IF justEngaged /\ n = 0 THEN 1 ELSE n

\* Time passes.  An approval that left the window and a notice that is due again
\* are forgotten at once: no call tells the difference.
Older(b) ==
    LET aged == [i \in DOMAIN b.approvals |-> b.approvals[i] + 1]
    IN  [Prune([b EXCEPT !.approvals = aged]) EXCEPT
            !.lastNotice = IF @ \in 0 .. NoticeEvery - 2 THEN @ + 1 ELSE Never]
=============================================================================
