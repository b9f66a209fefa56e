-------------------------------- MODULE Probe --------------------------------
(***************************************************************************)
(* What one probe reports (internal/probe) as a function of what the       *)
(* network and the target do to it (internal/httpcheck and                 *)
(* internal/smtpcheck).  A fault is the first thing that goes wrong on the *)
(* way to the target; a certificate is abstracted to its expiry.           *)
(***************************************************************************)
EXTENDS Integers

\* The error a connection attempt ends with, in the order classify unwraps it:
\* a lookup that timed out is a lookup error, not a timeout.
NetError == {"nxdomain", "dns timeout", "bad certificate", "tls alert", "i/o timeout",
             "refused"}

\* classify, of httpcheck and of smtpcheck.
Classify(err) ==
    CASE err \in {"nxdomain", "dns timeout"} -> "dns"
      [] err \in {"bad certificate", "tls alert"} -> "tls"
      [] err = "i/o timeout" -> "timeout"
      [] OTHER -> "dial"

\* probe.Result: ok stands for an empty Error, code for a decisive protocol code.
Result(ok, code, kind, cert) == [ok |-> ok, code |-> code, kind |-> kind, cert |-> cert]

NoCert == -1

\* What an HTTP target does: the error of client.Do or "answered", whether the
\* status is one of AcceptedStatusCodes, and the certificate of the connection.
HTTPWorld(certs) == [err : NetError \cup {"answered", "bad request"}, accepted : BOOLEAN,
                     cert : certs \cup {NoCert}]

\* httpcheck.Check: an error of the transport carries neither code nor
\* certificate; an unwelcome status carries both.
HTTPCheck(w) ==
    CASE w.err = "bad request" -> Result(FALSE, FALSE, "none", NoCert)
      [] w.err \in NetError -> Result(FALSE, FALSE, Classify(w.err), NoCert)
      [] w.err = "answered" ->
            Result(w.accepted, TRUE, IF w.accepted THEN "none" ELSE "http", w.cert)

SMTPStep == {"dial", "implicit tls", "banner", "ehlo", "starttls", "done"}

\* What an SMTP relay does: the step it fails at ("done": none), the error there,
\* or a refusal in the protocol, and its certificate.
SMTPWorld(certs) == [step : SMTPStep, err : NetError \cup {"reply"}, cert : certs \cup {NoCert}]

\* smtpcheck.Config.run for TLS mode "implicit", "starttls" or "none".  A step the
\* mode does not take cannot fail; a reply code is an application failure and a
\* failed implicit handshake is a TLS failure whatever the error.
SMTPRun(mode, w) ==
    LET fails == /\ w.step # "done"
                 /\ w.step = "implicit tls" => mode = "implicit"
                 /\ w.step = "starttls" => mode = "starttls"
                 /\ w.step \in {"dial", "implicit tls"} => w.err # "reply"
    IN  CASE ~fails -> Result(TRUE, TRUE, "none", IF mode = "none" THEN NoCert ELSE w.cert)
          [] fails /\ w.step = "implicit tls" -> Result(FALSE, FALSE, "tls", NoCert)
          [] fails /\ w.step # "implicit tls" /\ w.err = "reply" ->
                Result(FALSE, TRUE, "http", NoCert)
          [] OTHER -> Result(FALSE, FALSE, Classify(w.err), NoCert)

\* The results a probe of each kind can come back with.
HTTPResults(certs) == {HTTPCheck(w) : w \in HTTPWorld(certs)}
SMTPResults(mode, certs) == {SMTPRun(mode, w) : w \in SMTPWorld(certs)}
=============================================================================
