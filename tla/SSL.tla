--------------------------------- MODULE SSL ---------------------------------
(***************************************************************************)
(* The certificate state machine of internal/alert/ssl.go and the ssl_*    *)
(* columns of a monitor's row.  Times are numbers; a zero Go time or a SQL *)
(* NULL is NoTime, and the status of a row that was never checked is "".   *)
(***************************************************************************)
EXTENDS Integers

NoTime == -1

SSLStatus == {"", "ok", "ssl-expiring", "ssl-skipped"}

NewSSL == [status |-> "", openedAt |-> NoTime, remindedAt |-> NoTime,
           expiresAt |-> NoTime, thread |-> 0]

\* MonitorRow.SSL: the part of the columns the state machine works on.
SSLOf(r) == [status |-> r.status, openedAt |-> r.openedAt, remindedAt |-> r.remindedAt]

Plain(status) == [status |-> status, openedAt |-> NoTime, remindedAt |-> NoTime]

\* The reminder interval in force: once the certificate is within the
\* escalation threshold it is one day, whatever is configured.
Cadence(ttl, c) == IF ttl <= c.escalation THEN c.day ELSE c.interval

\* ApplySSL: c is the SSLCheck of one tick.
ApplySSL(prev, c) ==
    LET ttl == c.expiresAt - c.at
        Out(next, event) == [next |-> next, event |-> event]
    IN  CASE ~c.tlsBearing -> Out(Plain("ssl-skipped"), "none")
          [] c.tlsBearing /\ c.expiresAt = NoTime -> Out(prev, "none")
          [] c.tlsBearing /\ c.expiresAt # NoTime /\ prev.status # "ssl-expiring" ->
                IF ttl <= c.alert
                THEN Out([status |-> "ssl-expiring", openedAt |-> c.at, remindedAt |-> c.at],
                         "ssl_open")
                ELSE Out(Plain("ok"), "none")
          [] c.tlsBearing /\ c.expiresAt # NoTime /\ prev.status = "ssl-expiring" ->
                IF ttl > c.alert THEN Out(Plain("ok"), "ssl_resolve")
                ELSE IF Cadence(ttl, c) > 0 /\ c.at - prev.remindedAt >= Cadence(ttl, c)
                     THEN Out([prev EXCEPT !.remindedAt = c.at], "ssl_reminder")
                     ELSE Out(prev, "none")

ApplySSLCheckResets(r, next, expiresAt, event) ==   \* mutant: no certificate, no incident
    [status |-> IF expiresAt = NoTime THEN "ok" ELSE next.status, openedAt |-> next.openedAt,
     remindedAt |-> next.remindedAt, expiresAt |-> expiresAt, thread |-> r.thread]

\* Repo.ApplySSLCheck: the columns after the tick.  ssl_expires_at is written
\* as observed, so a tick without a certificate clears it.
ApplySSLCheck(r, next, expiresAt, event) ==
    [status |-> next.status, openedAt |-> next.openedAt, remindedAt |-> next.remindedAt,
     expiresAt |-> expiresAt, thread |-> IF event = "ssl_resolve" THEN 0 ELSE r.thread]
=============================================================================
