-------------------------------- MODULE Alert --------------------------------
(***************************************************************************)
(* The uptime state machine of internal/alert and the part of the monitor  *)
(* row it lives in.  A row is a record with the fields status, openedAt,   *)
(* remindedAt and thread (the reference to the Slack parent message, 0     *)
(* for none); a SQL NULL or a zero Go time is NoTime.                      *)
(***************************************************************************)
EXTENDS Integers

NoTime == -1

Status == {"up", "down", "temporary-paused"}

EventType == {"none", "open", "resolve", "reminder"}

NewRow == [status |-> "up", openedAt |-> NoTime, remindedAt |-> NoTime, thread |-> 0]

\* store.MonitorRow.State: the part of a row the state machine works on.
State(r) == [status |-> r.status, openedAt |-> r.openedAt, remindedAt |-> r.remindedAt]

ResumeUp(r) ==                               \* mutant: always up, as before the fix
    IF r.status # "temporary-paused" THEN r ELSE [r EXCEPT !.status = "up"]

\* scheduler.Tick: a monitor that comes back from temporary-paused continues
\* the incident it was in, if any.
Resume(r) ==
    IF r.status # "temporary-paused" THEN r
    ELSE [r EXCEPT !.status = IF r.openedAt # NoTime THEN "down" ELSE "up"]

ReminderSwapped(st, at, interval) ==         \* mutant: the operands swapped
    interval > 0 /\ st.remindedAt - at >= interval

ReminderDue(st, at, interval) == interval > 0 /\ at - st.remindedAt >= interval

\* Apply: the event a check of outcome ok at time "at" produces, and the next
\* state.
Apply(st, ok, at, interval) ==
    CASE st.status = "up" /\ ~ok ->
            [event |-> "open",
             next |-> [status |-> "down", openedAt |-> at, remindedAt |-> at]]
      [] st.status = "down" /\ ok ->
            [event |-> "resolve",
             next |-> [status |-> "up", openedAt |-> NoTime, remindedAt |-> NoTime]]
      [] st.status = "down" /\ ~ok /\ ReminderDue(st, at, interval) ->
            [event |-> "reminder", next |-> [st EXCEPT !.remindedAt = at]]
      [] OTHER -> [event |-> "none", next |-> st]

\* Repo.ApplyCheck writes the next state over whatever the row holds; on a
\* resolve the thread reference is cleared, otherwise it is left alone.
ApplyCheck(r, next, event) ==
    [status |-> next.status, openedAt |-> next.openedAt, remindedAt |-> next.remindedAt,
     thread |-> IF event = "resolve" THEN 0 ELSE r.thread]

\* Repo.MarkTemporaryPaused overwrites the status and nothing else.
MarkTemporaryPaused(r) == [r EXCEPT !.status = "temporary-paused"]
=============================================================================
