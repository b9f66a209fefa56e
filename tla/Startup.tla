-------------------------------- MODULE Startup --------------------------------
(* What stands between an accepted file and a running process: the schema of  *)
(* the database, the proxies, the Slack tokens and their workspace, and the   *)
(* people the file names (internal/migrate, proxypool, slack, lifecycle).     *)
(* environ is a function from the names of environment variables to their     *)
(* values, "" for one that is unset.                                          *)
EXTENDS Integers, Sequences, SequencesExt, FiniteSets

CONSTANT Latest     \* the version of the newest embedded migration

-----------------------------------------------------------------------------
(* The schema. A database without a version is at 0.                          *)

Fresh == [version |-> 0, dirty |-> FALSE]

(* External: golang-migrate marks the version dirty while it applies it.      *)
Applying(schema, v) == [version |-> v, dirty |-> TRUE]

Applied(schema) == [schema EXCEPT !.dirty = FALSE]

(* migrate.Check: what serve insists on.                                      *)
Check(schema) == ~schema.dirty /\ schema.version = Latest

(* Nothing is pending, whether the schema is dirty or newer than the binary.  *)
NothingPending(schema) == schema.version >= Latest

(* The library refuses to go on from a dirty version.                         *)
MayApply(schema) == ~NothingPending(schema) /\ ~schema.dirty

-----------------------------------------------------------------------------
(* Proxies.                                                                  *)

DefaultPort == 1080

Direct == [ok |-> TRUE, via |-> "direct", port |-> 0, auth |-> <<>>]

Refused == [ok |-> FALSE, via |-> "none", port |-> 0, auth |-> <<>>]

(* Mutant: an unset variable is an empty password.                            *)
BuildOneUnset(p, environ) ==
    IF p.protocol # "socks5" THEN Refused
    ELSE [ok |-> TRUE, via |-> p.server, port |-> IF p.port = 0 THEN DefaultPort ELSE p.port,
          auth |-> IF p.username = "" THEN <<>>
                   ELSE <<p.username, IF p.passwordEnv = "" THEN "" ELSE environ[p.passwordEnv]>>]

BuildOne(p, environ) ==
    LET port == IF p.port = 0 THEN DefaultPort ELSE p.port
        Dial(auth) == [ok |-> TRUE, via |-> p.server, port |-> port, auth |-> auth]
    IN IF p.protocol # "socks5" THEN Refused
       ELSE IF p.username = "" THEN Dial(<<>>)
       ELSE IF p.passwordEnv = "" THEN Dial(<<p.username, "">>)
       ELSE IF environ[p.passwordEnv] = "" THEN Refused
       ELSE Dial(<<p.username, environ[p.passwordEnv]>>)

(* A map built from a sequence: a slug that occurs twice is its last entry.   *)
LastOf(entries, slug) ==
    CHOOSE i \in DOMAIN entries :
        /\ entries[i].slug = slug
        /\ \A j \in DOMAIN entries : entries[j].slug = slug => j <= i

BySlug(entries, value(_)) ==
    [slug \in {e.slug : e \in ToSet(entries)} |-> value(entries[LastOf(entries, slug)])]

Build(proxies, environ) ==
    LET one(p) == BuildOne(p, environ)
    IN [ok |-> \A p \in ToSet(proxies) : one(p).ok, dialers |-> BySlug(proxies, one)]

(* A slug the pool does not know is dialled directly.                         *)
Get(pool, slug) == IF slug \in DOMAIN pool.dialers THEN pool.dialers[slug] ELSE Direct

-----------------------------------------------------------------------------
(* Slack tokens and their workspace. VerifyOnce gets the answers of auth.test *)
(* in the order of the tokens: a team, or Silent for a call that failed.      *)

Silent == "silent"

ResolveSlackTokens(channels, environ) ==
    LET info(c) == [id |-> c.id, token |-> environ[c.tokenEnv]]
    IN [ok |-> \A c \in ToSet(channels) : environ[c.tokenEnv] # "", channels |-> BySlug(channels, info)]

(* The tokens that answered.                                                  *)
Heard(answers) == {i \in DOMAIN answers : answers[i] # Silent}

VerifyOnce(answers) ==
    LET heard == Heard(answers)
        team == IF heard = {} THEN "" ELSE answers[Min(heard)]
    IN IF \E i \in heard : answers[i] # team
       THEN [multi |-> TRUE, healthy |-> FALSE, team |-> ""]
       ELSE [multi |-> FALSE, healthy |-> heard = DOMAIN answers, team |-> team]

-----------------------------------------------------------------------------
(* People. A notify entry is <<"slug", name>> or a raw mention, which is      *)
(* <<"user", id>>, <<"subteam", id>> or <<"other", text>>; a mapping is a     *)
(* function from slugs to <<prefix, id>>, the id with its first letter.       *)

IsRawMarkup(entry) == entry[1] # "slug"

Dropped == <<"dropped", "">>

Mention(entry, mapping) ==
    IF IsRawMarkup(entry) THEN entry
    ELSE IF entry[2] \notin DOMAIN mapping THEN Dropped
    ELSE CASE mapping[entry[2]][1] = "U" -> <<"user", mapping[entry[2]][2]>>
           [] mapping[entry[2]][1] = "S" -> <<"subteam", mapping[entry[2]][2]>>
           [] OTHER -> Dropped

(* Each mention once.                                                         *)
ResolveMentions(notify, mapping) == {Mention(n, mapping) : n \in notify} \ {Dropped}

(* The reverse lookup takes the first slug of a map that has no order.        *)
IdToSlugs(mapping) ==
    {f \in [{mapping[s][2] : s \in DOMAIN mapping} -> DOMAIN mapping] :
        \A id \in DOMAIN f : mapping[f[id]][2] = id}

(* What the config dialog shows of a mention.                                 *)
DisplayMention(m, idToSlug) ==
    IF m[1] = "other" THEN [slug |-> "", id |-> "", raw |-> m[2]]
    ELSE [slug |-> IF m[2] \in DOMAIN idToSlug THEN idToSlug[m[2]] ELSE "", id |-> m[2], raw |-> ""]

(* One pass of the mapping validator over an entry: users.info for each user, *)
(* one usergroups.list for all subteams. slack tells whom Slack knows and     *)
(* which calls fail.                                                          *)
EntryOK(id, slack) ==
    CASE id[1] = "U" -> id[2] \in slack.users \ slack.silent
      [] id[1] = "S" -> ~slack.groupsFail /\ id[2] \in slack.groups
      [] OTHER -> FALSE

(* Without a token the pass is skipped and the last one stands.               *)
VerifyMapping(last, mapping, token, slack) ==
    IF token = "" THEN last ELSE {[slug |-> s, ok |-> EntryOK(mapping[s], slack)] : s \in DOMAIN mapping}
=============================================================================
