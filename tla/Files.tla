--------------------------------- MODULE Files ---------------------------------
(* Beside the inputs of Rules those that only recursion over them explains:   *)
(* the graph of dependsOn, the text of the file and its mappings; and what    *)
(* the program's walks over them, and over a match tree, have to find.        *)
EXTENDS Rules

CONSTANTS Graphs,        \* dependsOn, from slugs to sequences of slugs
          Order,         \* the slugs as the file declares them
          EnvNames, Env, \* environment variables
          Texts,         \* of the file
          Known,         \* the keys a mapping may have
          Mappings       \* of the file

L == INSTANCE Loader

TakeGraph == \E g \in Graphs : subject' = [kind |-> "graph", deps |-> g]

TakeText == \E t \in Texts : subject' = [kind |-> "text", text |-> t]

TakeMapping == \E m \in Mappings : subject' = [kind |-> "mapping", mapping |-> m]

Step ==
    \/ Is("none") /\ (TakeGraph \/ TakeText \/ TakeMapping)
    \/ RulesStep

-----------------------------------------------------------------------------

(* The nodes of a tree in document order, each with the labels above it.      *)
RECURSIVE Nodes(_, _)
Nodes(rules, above) ==
    IF rules = <<>> THEN <<>>
    ELSE LET r == Head(rules)
         IN <<[rule |-> r, above |-> above]>> \o Nodes(r.nested, above \cup {r.label})
            \o Nodes(Tail(rules), above)

(* The matching rules by a definition without a walk: a node counts if it and *)
(* all above it match and no matching final node before it, other than those  *)
(* above it, does.                                                            *)
MatchingLabels(rules, hits) ==
    LET nodes == Nodes(rules, {})
        Hit(n) == {n.rule.label} \cup n.above \subseteq hits
        Cut(i) == \E j \in 1 .. i - 1 : /\ Hit(nodes[j]) /\ nodes[j].rule.final
                                        /\ nodes[j].rule.label \notin nodes[i].above
        kept == SelectSeq([i \in DOMAIN nodes |-> [n |-> nodes[i], in |-> ~Cut(i)]],
                          LAMBDA x : x.in /\ Hit(x.n))
    IN [i \in DOMAIN kept |-> kept[i].n.rule.label]

\* The walk of the kube tree stops exactly where final says: the subtree of a final
\* rule still counts, whatever comes after it does not, at any depth.
FinalEndsTheWalk ==
    Is("host") =>
        LET stack == WalkRules(subject.tree, subject.hits)
        IN [i \in DOMAIN stack |-> stack[i].label] = MatchingLabels(subject.tree, subject.hits)

Edges(deps) == {<<m, p>> \in (DOMAIN deps) \X (DOMAIN deps) : p \in ToSet(deps[m])}

RECURSIVE Reach(_, _)
Reach(edges, from) ==
    LET next == from \cup {e[2] : e \in {d \in edges : d[1] \in from}}
    IN IF next = from THEN from ELSE Reach(edges, next)

\* A configuration is refused for a cycle exactly when some monitor depends on itself
\* through others, wherever the walk enters the graph and although unknown parents are
\* skipped: the evaluator's walk over parents would not end.  What is accepted besides
\* names no parent that is not there.
CyclesRefused ==
    Is("graph") =>
        LET deps == subject.deps
            Above(m) == Reach(Edges(deps), ToSet(deps[m]) \cap DOMAIN deps)
        IN /\ L!DetectDependsOnCycle(deps, Order) <=> \E m \in DOMAIN deps : m \in Above(m)
           /\ L!DependsOnOK(deps, Order) <=>
                 \A m \in DOMAIN deps : m \notin Above(m) /\ ToSet(deps[m]) \subseteq DOMAIN deps

Doubled(t) == FlattenSeq([i \in DOMAIN t |-> IF t[i] = "$" THEN <<"$", "$">> ELSE <<t[i]>>])

\* Doubling every dollar protects any text from expansion, braces, fallbacks and all.
EscapeRoundTrips ==
    Is("text") => L!Interpolate(Doubled(subject.text)) = L!Text(subject.text)

\* A key the loader believes to be set is a key it has checked, also when it came in
\* through merge keys and aliases: two walks over the same tree.
SetKeysAreChecked ==
    Is("mapping") /\ L!ValidateUnknownKeys(subject.mapping) =>
        L!CollectMappingKeys(subject.mapping) \subseteq Known

\* What the file says is what the program reads in it: each of its walks, over a match
\* tree, a graph, a text or the keys of a mapping, finds what the definition says.
WalksAreExact == FinalEndsTheWalk /\ CyclesRefused /\ EscapeRoundTrips /\ SetKeysAreChecked

=============================================================================
