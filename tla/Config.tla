------------------------------- MODULE Config --------------------------------
(* What internal/config accepts at load of the blocks that refer to others or *)
(* form trees, as Blocks has them. Durations are seconds.                     *)
(* A rule is a Cascade rule with a field when: "empty", "selects" or          *)
(* "malformed"; a value source has scopes, the annotation keys it names.      *)
EXTENDS Cascade, Blocks, FiniteSets

CONSTANTS Proxies,   \* slugs of proxies
          Markup     \* raw <...> mentions

Minute == 60
Hour == 3600

NotifyEntries == Handles \cup Markup

Entries(list) == ToSet(list)

-----------------------------------------------------------------------------
(* kube.match                                                                *)

RequiredAtRoot ==
    {"path", "httpMethod", "acceptedStatusCodes", "interval", "timeout", "retries",
     "retryBackoff", "followRedirects", "reminderInterval", "sslAlertThreshold",
     "sslEscalationThreshold", "sslReminderInterval", "slack"}

(* The floor a required key has where it is set; the channel's is elsewhere.  *)
AtRoot(key, v) ==
    /\ key = "path" => v \in Absolute
    /\ key = "httpMethod" => v \in Methods
    /\ key = "acceptedStatusCodes" => v # <<>> /\ Entries(v) \subseteq Codes
    /\ key = "interval" => v >= 30
    /\ key = "retries" => v >= 0
    /\ key = "retryBackoff" => v >= 1
    /\ key \in {"reminderInterval", "sslReminderInterval"} => v >= Hour
    /\ key \in {"timeout", "sslAlertThreshold", "sslEscalationThreshold"} => v > 0

CheckKubeRequiredAtRoot(r) ==
    \A key \in RequiredAtRoot :
        IF key \in DOMAIN r.cfg THEN AtRoot(key, r.cfg[key])
        ELSE \E s \in Entries(r.from) : s.key = key /\ s.hasDefault

(* Literals set anywhere in the tree. An empty slack or proxy is let through. *)
KubeLiteral(key, v) ==
    /\ key = "httpMethod" => v \in Methods
    /\ key = "scheme" => v \in {"http", "https"}
    /\ key = "path" => v \in Absolute
    /\ key = "slack" => v \in Channels \cup {NoText}
    /\ key = "proxy" => v \in Proxies \cup {NoText}
    /\ key = "notify" => Entries(v.values) \subseteq NotifyEntries
    /\ key = "tags" => Entries(v.values) \subseteq TagNames
    /\ key = "acceptedStatusCodes" => Entries(v) \subseteq Codes

(* A default is reviewed text and held to the literal's rule.                 *)
SourceDefault(s) ==
    /\ Entries(s.default) \subseteq
          (IF s.key = "notify" THEN NotifyEntries ELSE Good[s.key])
    /\ s.key = "acceptedStatusCodes" => s.default # <<>>

KubeValueSource(c, s) ==
    /\ s.key \notin DOMAIN c
    /\ Cardinality(s.scopes) = 1 /\ Malformed \notin s.scopes
    /\ s.hasDefault => SourceDefault(s)

(* A list's plain source and its override twin exclude each other.            *)
OneSourceEach(from) ==
    \A i, j \in DOMAIN from : from[i].key = from[j].key => i = j

KubeConfigOK(c, from) ==
    /\ \A key \in DOMAIN c : KubeLiteral(key, c[key])
    /\ \A s \in Entries(from) : KubeValueSource(c, s)
    /\ OneSourceEach(from)

KubeRule(r) ==
    /\ r.when # Malformed
    /\ r.final => r.when # "empty"
    /\ KubeConfigOK(r.cfg, r.from)

(* Parents are declared monitors, so kube rules may only name those.          *)
KubeDependsOnRefs(r, monitors) ==
    "dependsOn" \in DOMAIN r.cfg => Entries(r.cfg.dependsOn.values) \subseteq monitors

ValidateKube(rules, monitors) ==
    /\ rules # <<>>
    /\ rules[1].when = "empty" /\ CheckKubeRequiredAtRoot(rules[1])
    /\ \A r \in RulesOf(rules) : KubeRule(r) /\ KubeDependsOnRefs(r, monitors)

-----------------------------------------------------------------------------
(* alertmanager                                                              *)

(* The defaults are filled in only when the whole block is absent.            *)
RateLimitDefaults(rl) ==
    IF rl.perChannel = 0 /\ rl.window = 0 /\ rl.noticeEvery = 0
    THEN [perChannel |-> 10, window |-> 30 * Minute, noticeEvery |-> 24 * Hour]
    ELSE rl

RateLimitOK(rl) ==
    /\ rl.perChannel >= 0
    /\ rl.perChannel > 0 => rl.window > 0 /\ rl.noticeEvery > 0

(* Emptiness where the kube tree has presence.                                *)
IsSetLiterally(c, key) ==
    IF key = "slack" THEN c.slack # NoText ELSE c.notify.values # <<>> \/ c.notify.override

AMValueSource(c, s, kube) ==
    /\ ~IsSetLiterally(c, s.key)
    /\ s.scopes = {"namespaceAnnotation"} /\ kube
    /\ s.key = "notify" => Handles # {}
    /\ s.hasDefault => SourceDefault(s)

AMRule(r, kube) ==
    /\ r.when # Malformed
    /\ r.final => r.when # "empty"
    /\ r.cfg.slack \in Channels \cup {NoText}
    /\ Entries(r.cfg.notify.values) \subseteq NotifyEntries
    /\ \A s \in Entries(r.from) : AMValueSource(r.cfg, s, kube)
    /\ OneSourceEach(r.from)

AMRoot(r) ==
    /\ r.when = "empty"
    /\ r.cfg.slack # NoText \/ \E s \in Entries(r.from) : s.key = "slack" /\ s.hasDefault

ValidateAlertmanager(rules, kube) ==
    /\ rules # <<>> /\ AMRoot(rules[1])
    /\ \A r \in RulesOf(rules) : AMRule(r, kube)

-----------------------------------------------------------------------------
(* monitors and smtpMonitors: protocol is "http", "https" or "smtp".          *)

ThresholdsOK(m) ==
    /\ m.sslAlert > 0 /\ m.sslEscalation > 0 /\ m.sslReminder > 0
    /\ m.sslAlert > m.sslEscalation

RetryWindow(m) == m.retries * (m.timeout + m.retryBackoff)

(* An empty mode is starttls.                                                 *)
TLSBearing(m) == m.protocol = "https" \/ (m.protocol = "smtp" /\ m.tlsMode # "none")

TracksSSL(m) == TLSBearing(m) /\ ~m.insecureSkipVerify

(* What both kinds of monitor are held to.                                    *)
MonitorOK(m) ==
    /\ m.slug # Malformed /\ m.slack \in Channels /\ m.proxy \in Proxies \cup {NoText}
    /\ Entries(m.notify) \subseteq NotifyEntries
    /\ m.timeout < m.interval /\ RetryWindow(m) < m.interval
    /\ TracksSSL(m) => ThresholdsOK(m)

SMTPMonitorOK(m) ==
    /\ MonitorOK(m)
    /\ m.host # NoText /\ m.port \in 1 .. MaxPort
    /\ m.tlsMode \in {NoText, "starttls", "implicit", "none"}

ValidateMonitor(m) == IF m.protocol = "smtp" THEN SMTPMonitorOK(m) ELSE MonitorOK(m)

(* The plan the scheduler gets from a declared monitor.                       *)
StaticPlan(m) ==
    [channel |-> m.slack, interval |-> m.interval, timeout |-> m.timeout,
     retries |-> m.retries, backoff |-> m.retryBackoff,
     tls |-> TLSBearing(m), skipVerify |-> m.insecureSkipVerify,
     alert |-> m.sslAlert, escalation |-> m.sslEscalation, sslReminder |-> m.sslReminder]

(* Mutant: the thresholds of an unverified certificate are used.              *)
SSLTrackedAnyTLS(p) == p.tls

(* Tick: whether the certificate of a plan is tracked.                        *)
SSLTracked(p) == p.tls /\ ~p.skipVerify

(* How long one check can take: the first attempt and every retry time out.   *)
LongestCheck(p) == (p.retries + 1) * p.timeout + p.retries * p.backoff

-----------------------------------------------------------------------------
(* slack.coalesce and selfHealth. 0 is an absent key.                         *)

EffectivePendingWait(co) ==
    IF co.pendingWait > 0 THEN co.pendingWait
    ELSE IF co.groupWait > 0 THEN co.groupWait ELSE 30

EffectiveBurstThreshold(co) ==
    IF co.burstThreshold = -1 THEN 5 ELSE co.burstThreshold

EffectiveBurstWindow(co) ==
    LET w == IF co.burstWindow > 0 THEN co.burstWindow ELSE 5 * Minute
    IN IF w < EffectivePendingWait(co) THEN EffectivePendingWait(co) ELSE w

EffectiveGroupInterval(co) == IF co.groupInterval > 0 THEN co.groupInterval ELSE 5 * Minute

EffectiveRepeatInterval(co) == IF co.repeatInterval > 0 THEN co.repeatInterval ELSE 10 * Minute

(* An unset burst threshold is -1 here; the file is refused a negative one.   *)
ValidateCoalesce(co) ==
    /\ ~(co.pendingWait > 0 /\ co.groupWait > 0)
    /\ co.burstThreshold \in {-1, 0} \/ co.burstThreshold >= 2
    /\ co.burstWindow > 0 => co.burstWindow >= EffectivePendingWait(co)

ValidateSelfHealth(sh) ==
    /\ sh.minMonitors = 0 \/ sh.minMonitors >= 2
    /\ sh.channel \in Channels \cup {NoText}

EffectiveWindow(sh) == IF sh.window > 0 THEN sh.window ELSE 90

EffectiveMinMonitors(sh) == IF sh.minMonitors > 0 THEN sh.minMonitors ELSE 3
=============================================================================
