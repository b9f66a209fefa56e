-------------------------------- MODULE Blocks --------------------------------
(* What internal/config accepts at load: proxies, slack.channels and          *)
(* slack.userMapping. A document is its already decoded blocks; text patterns *)
(* (slugs, environment names, globs, label keys) are either fine or           *)
(* "malformed".                                                               *)
EXTENDS Integers, Sequences, SequencesExt

Malformed == "malformed"

Distinct(blocks) == IsInjective([i \in DOMAIN blocks |-> blocks[i].slug])

MaxPort == 64 * 1024 - 1

ProxyOK(p) ==
    /\ p.slug # Malformed /\ p.protocol = "socks5" /\ p.server # "" /\ p.port \in 0 .. MaxPort
    /\ p.passwordEnv # "" => p.passwordEnv # Malformed /\ p.username # ""

ProxiesOK(proxies) == Distinct(proxies) /\ \A p \in ToSet(proxies) : ProxyOK(p)

(* A direct message is no channel.                                            *)
ChannelsOK(channels) ==
    /\ channels # <<>> /\ Distinct(channels)
    /\ \A c \in ToSet(channels) : Malformed \notin {c.slug, c.id, c.tokenEnv} /\ c.id # "D"

(* mapping is a function from slugs to <<first letter, id>>.                  *)
UserMappingOK(mapping) ==
    \A s \in DOMAIN mapping : s # Malformed /\ mapping[s][1] \in {"U", "S"}

(* entry is <<"slug", name>> or raw markup.                                   *)
IsValidNotifyEntry(entry, mapping) == entry[1] = "slug" => entry[2] \in DOMAIN mapping
=============================================================================
