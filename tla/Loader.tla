------------------------------- MODULE Loader --------------------------------
(* What happens to the file before it is decoded: environment references are  *)
(* expanded, and the keys of its mappings are collected and checked through   *)
(* merge keys and aliases (interp.go, config.go, unknown_keys.go). And, after *)
(* that, the search for a cycle in dependsOn.                                 *)
EXTENDS Integers, Sequences, SequencesExt, FiniteSets

-----------------------------------------------------------------------------
(* A text is a sequence of characters. Names and fallbacks stand for one      *)
(* character each; ":-" is one too, as is "nl", the end of a line.            *)

CONSTANTS EnvNames, Env     \* well-formed names; the variables that are set

\* The index of the brace that closes a reference opened before i, 0 for none.
RECURSIVE IndexCloseBrace(_, _)
IndexCloseBrace(s, i) ==
    IF i > Len(s) \/ s[i] = "nl" THEN 0
    ELSE IF s[i] = "}" THEN i ELSE IndexCloseBrace(s, i + 1)

Failed == [ok |-> FALSE, text |-> <<>>]

Text(t) == [ok |-> TRUE, text |-> t]

Lookup(name) ==
    IF name \in DOMAIN Env THEN Text(Env[name]) ELSE Failed

\* A fallback stands in for a variable that is unset or empty.
ResolveInterp(expr) ==
    IF expr = <<>> \/ expr[1] \notin EnvNames THEN Failed
    ELSE IF Len(expr) > 1 /\ expr[2] = ":-"
         THEN IF Lookup(expr[1]).text # <<>> THEN Lookup(expr[1])
              ELSE Text(SubSeq(expr, 3, Len(expr)))
    ELSE IF Len(expr) = 1 THEN Lookup(expr[1]) ELSE Failed

Join(a, b) == [ok |-> a.ok /\ b.ok, text |-> a.text \o b.text]

RECURSIVE InterpolateFrom(_, _)

InterpolateFrom(s, i) ==
    IF i > Len(s) THEN Text(<<>>)
    ELSE IF s[i] # "$" THEN Join(Text(<<s[i]>>), InterpolateFrom(s, i + 1))
    ELSE IF i < Len(s) /\ s[i + 1] = "$"
         THEN Join(Text(<<"$">>), InterpolateFrom(s, i + 2))
    ELSE IF i < Len(s) /\ s[i + 1] = "{"
         THEN LET end == IndexCloseBrace(s, i + 2)
              IN IF end = 0 THEN Join(Failed, InterpolateFrom(s, i + 1))
                 ELSE Join(ResolveInterp(SubSeq(s, i + 2, end - 1)),
                           InterpolateFrom(s, end + 1))
    ELSE Join(Text(<<"$">>), InterpolateFrom(s, i + 1))

Interpolate(s) == InterpolateFrom(s, 1)

-----------------------------------------------------------------------------
(* A node is [kind |-> "scalar"], [kind |-> "map", entries], a sequence of    *)
(* [key, value], [kind |-> "seq", items] or [kind |-> "alias", to].           *)

CONSTANT Known        \* the keys of the struct a mapping is decoded into

RECURSIVE CollectMappingKeys(_), WalkMergedMapping(_)

Union(f(_), s) == UNION {f(x) : x \in ToSet(s)}

(* The keys IsSet answers for: the mapping's own and those merged into it.    *)
CollectMappingKeys(node) ==
    CASE node.kind = "alias" -> CollectMappingKeys(node.to)
      [] node.kind = "map" ->
            LET Merged(v) == CASE v.kind \in {"alias", "map"} -> CollectMappingKeys(v)
                               [] v.kind = "seq" -> Union(CollectMappingKeys, v.items)
                               [] OTHER -> {}
                Keys(e) == IF e.key = "<<" THEN Merged(e.value) ELSE {e.key}
            IN Union(Keys, node.entries)
      [] OTHER -> {}

(* The keys the check of unknown keys compares with the struct's.             *)
WalkMapping(node) ==
    IF node.kind # "map" THEN {}
    ELSE LET Keys(e) == IF e.key = "<<" THEN WalkMergedMapping(e.value) ELSE {e.key}
         IN Union(Keys, node.entries)

WalkMergedMapping(node) ==
    CASE node.kind = "alias" -> WalkMergedMapping(node.to)
      [] node.kind = "seq" -> Union(WalkMergedMapping, node.items)
      [] OTHER -> WalkMapping(node)

ValidateUnknownKeys(node) ==
    (IF node.kind = "alias" THEN WalkMapping(node.to) ELSE WalkMapping(node)) \subseteq Known

-----------------------------------------------------------------------------
(* dependsOn. deps is a function from the declared slugs to the sequence of   *)
(* their parents; a walk colours the nodes it has entered and left.           *)

RECURSIVE Dfs(_, _, _), DfsAll(_, _, _)

(* Mutant: a node is blackened on the way in, so no back edge is ever seen.   *)
DfsBlackFirst(deps, n, w) ==
    CASE w.color[n] = "gray" -> [w EXCEPT !.cycle = TRUE]
      [] w.color[n] = "black" -> w
      [] OTHER -> DfsAll(deps, deps[n], [w EXCEPT !.color[n] = "black"])

Dfs(deps, n, w) ==
    CASE w.color[n] = "gray" -> [w EXCEPT !.cycle = TRUE]
      [] w.color[n] = "black" -> w
      [] OTHER -> LET below == DfsAll(deps, deps[n], [w EXCEPT !.color[n] = "gray"])
                  IN IF below.cycle THEN below ELSE [below EXCEPT !.color[n] = "black"]

(* An unknown parent is reported elsewhere and skipped; a cycle ends the walk. *)
DfsAll(deps, nodes, w) ==
    IF nodes = <<>> \/ w.cycle THEN w
    ELSE DfsAll(deps, Tail(nodes),
                IF Head(nodes) \in DOMAIN deps THEN Dfs(deps, Head(nodes), w) ELSE w)

DetectDependsOnCycle(deps, order) ==
    DfsAll(deps, order, [color |-> [n \in DOMAIN deps |-> "white"], cycle |-> FALSE]).cycle

(* Every parent is a declared monitor, not the monitor itself, and no cycle.  *)
DependsOnOK(deps, order) ==
    /\ \A m \in DOMAIN deps : ToSet(deps[m]) \subseteq DOMAIN deps \ {m}
    /\ ~DetectDependsOnCycle(deps, order)
=============================================================================
