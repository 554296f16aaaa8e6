---- MODULE Planner ----
(***************************************************************************)
(* plan_chain of core/planner/search.py: one request searches the call     *)
(* graph, breadth first, for chains of CLIs that lead from the goal's      *)
(* inputs to its outputs or to its action.  It reads the capability rows   *)
(* and the edges in separate statements; a populate may commit its rows    *)
(* and, later, its edges in between, or die between the two.               *)
(***************************************************************************)
EXTENDS Naturals, Sequences, FiniteSets

CONSTANTS
    Slugs,          \* CLIs, numbered in the order of their names
    Types,          \* typed ports
    Hubs,           \* bare hub types: a persisted edge needs a shared tag
    Terms,          \* producer terms
    Matches,        \* <<term, slug>>: term_matches on slug, text and vocabulary
    MaxDepth,       \* max_chain_depth
    MaxChains,      \* max_candidate_chains
    Fleets,         \* capability rows the registry may hold
    Goals,          \* requests
    MaxCommits      \* bound: commits of other processes

Worst == <<"destructive", "unknown", "network", "external", "writes-fs", "none">>
Effects == {Worst[i] : i \in DOMAIN Worst}
RequiresTag == [email |-> "send", notify |-> "notify", webhook |-> "webhook", file_write |-> "persist"]
Verbs == DOMAIN RequiresTag

Capability == [ins : SUBSET Types, outs : SUBSET Types, tags : SUBSET STRING,
               effect : Effects, declared : BOOLEAN]
Edge  == [from : Slugs, to : Slugs, via : Types]
Goal  == [ins : SUBSET Types, outs : SUBSET Types, allow : SUBSET Effects,
          actions : Seq(STRING), terms : SUBSET Terms]
Chain == [path : Seq(Slugs), vias : Seq(Types)]

ASSUME PlannerAssumption ==
    /\ Slugs \subseteq Nat
    /\ MaxDepth \in Nat \ {0} /\ MaxChains \in Nat /\ MaxCommits \in Nat
    /\ Fleets \subseteq [Slugs -> SUBSET Capability]
    /\ Goals \subseteq Goal

VARIABLES
    caps,       \* committed Capability rows of each slug
    disabled,   \* slugs of the committed Cli rows with enabled = False
    edges,      \* committed CliEdge rows
    torn,       \* populate committed its rows and not yet, or never, its edges
    commits,    \* commits of other processes so far
    goal,       \* the request
    pc,
    index,      \* the capability rows the request read: _cap_index
    adjacent,   \* the edges it read and those it synthesized
    starts,     \* start slugs still to search from
    frontier,   \* the queue of partial chains
    found,      \* candidate chains
    answer,
    calm        \* no populate's commit pending or made since the request began (history)

tables == <<caps, disabled, edges, torn, commits>>
search == <<goal, pc, index, adjacent, starts, frontier, found, answer>>
vars   == <<tables, search, calm>>
----
(* What the search asks of a slug's capability rows. *)

Produces(rows) == UNION {c.outs : c \in rows}
Consumes(rows) == UNION {c.ins : c \in rows}
Tags(rows)     == UNION {c.tags : c \in rows}
VerbsOf(rows)  == {v \in Verbs : RequiresTag[v] \in Tags(rows)}
Inferred(rows) == \E c \in rows : ~c.declared

SideEffect(rows) ==
    IF \E i \in DOMAIN Worst : \E c \in rows : c.effect = Worst[i]
    THEN Worst[CHOOSE i \in DOMAIN Worst :
            /\ \E c \in rows : c.effect = Worst[i]
            /\ \A j \in 1 .. i - 1 : \A c \in rows : c.effect # Worst[j]]
    ELSE "unknown"

Excluded(rows, allow) ==
    /\ SideEffect(rows) \notin {"none"} \cup allow
    /\ \/ SideEffect(rows) \in {"destructive", "unknown"}
       \/ \E c \in rows : c.effect = SideEffect(rows) /\ ~c.declared

DesiredEdges(t) ==
    {e \in Edge :
        /\ e.from # e.to
        /\ e.via \in Produces(t[e.from]) \cap Consumes(t[e.to])
        /\ e.via \in Hubs => Tags(t[e.from]) \cap Tags(t[e.to]) # {}}
----
Init ==
    /\ caps \in Fleets
    /\ disabled = {}
    /\ edges = DesiredEdges(caps)
    /\ torn = FALSE
    /\ commits = 0
    /\ goal \in Goals
    /\ pc = "asked"
    /\ index = [s \in Slugs |-> {}]
    /\ adjacent = {}
    /\ starts = {}
    /\ frontier = {}
    /\ found = {}
    /\ answer = {}
    /\ calm = TRUE

(* Other processes: populate's two commits, a script that disables a row.  *)
PopulateRows ==
    /\ commits < MaxCommits
    /\ caps' \in Fleets
    /\ torn' = TRUE
    /\ commits' = commits + 1
    /\ calm' = FALSE
    /\ UNCHANGED <<disabled, edges, search>>

PopulateEdges ==
    /\ torn
    /\ edges' = DesiredEdges(caps)
    /\ torn' = FALSE
    /\ UNCHANGED <<caps, disabled, commits, search, calm>>

Disable(s) ==
    /\ commits < MaxCommits
    /\ disabled' = disabled \cup {s}
    /\ commits' = commits + 1
    /\ UNCHANGED <<caps, edges, torn, search, calm>>
----
(* The request. *)

Indexed    == {s \in Slugs : index[s] # {}}
Acting     == goal.actions # <<>>
PureAction == Acting /\ goal.outs = {}

(* _action_terminals: the slugs that perform the requested verb. *)
Performers(rows) == {s \in Slugs : goal.actions[1] \in VerbsOf(rows[s])}
Terminals        == IF Acting THEN Performers(index) ELSE {}

StartSlugs(rows) ==
    LET has == {s \in Slugs : rows[s] # {}}
    IN  (IF goal.ins # {} THEN {s \in has : Consumes(rows[s]) \cap goal.ins # {}}
                          ELSE {s \in has : Consumes(rows[s]) = {}})
        \cup (IF PureAction THEN Performers(rows) ELSE {})

(* Two verbs, a verb nobody knows, or a terminal of two verbs: ValueError. *)
Refused(rows) ==
    /\ Acting
    /\ \/ Len(goal.actions) > 1
       \/ goal.actions[1] \notin Verbs
       \/ \E s \in Slugs : Cardinality(VerbsOf(rows[s])) > 1

ReadCaps ==
    /\ pc = "asked"
    /\ LET rows == [s \in Slugs |-> IF s \in disabled THEN {} ELSE caps[s]]
       IN  /\ index' = rows
           /\ pc' = IF Refused(rows) THEN "refused" ELSE "indexed"
           /\ starts' = IF Refused(rows) THEN {} ELSE StartSlugs(rows)
    /\ calm' = ~torn
    /\ UNCHANGED <<tables, goal, adjacent, frontier, found, answer>>

(* Defect variant of Synthesized: the edge is labelled with the verb.      *)
SynthesizedByVerb ==
    {[from |-> s, to |-> t, via |-> goal.actions[1]] : s \in Indexed, t \in Terminals}

(* A terminal of the requested verb is reachable from every producer of    *)
(* one of its inputs, whatever the persisted edges say.                    *)
Synthesized ==
    {e \in Edge :
        /\ e.to \in Terminals
        /\ e.from \in Indexed \ {e.to}
        /\ e.via \in Produces(index[e.from]) \cap Consumes(index[e.to])}

(* Defect variant of ReadEdges: edges of disabled rows are kept.           *)
ReadEdgesAll ==
    /\ pc = "indexed"
    /\ adjacent' = edges \cup Synthesized
    /\ pc' = "search"
    /\ UNCHANGED <<tables, goal, index, starts, frontier, found, answer, calm>>

ReadEdges ==
    /\ pc = "indexed"
    /\ adjacent' = {e \in edges : {e.from, e.to} \cap disabled = {}} \cup Synthesized
    /\ pc' = "search"
    /\ UNCHANGED <<tables, goal, index, starts, frontier, found, answer, calm>>

Start(s) ==
    /\ pc = "search"
    /\ frontier = {}
    /\ s \in starts
    /\ starts' = starts \ {s}
    /\ frontier' = {[path |-> <<s>>, vias |-> <<>>]}
    /\ UNCHANGED <<tables, goal, pc, index, adjacent, found, answer, calm>>
----
(* One turn of the breadth-first loop takes a shortest partial chain. *)

Final(n)    == n.path[Len(n.path)]
Hops(n)    == {n.path[i] : i \in 1 .. Len(n.path)}
Earlier(n) == {n.path[i] : i \in 1 .. Len(n.path) - 1}

Taken(n) ==
    /\ pc = "search"
    /\ n \in frontier
    /\ \A m \in frontier : Len(n.path) <= Len(m.path)

Pruned(n) == Excluded(index[Final(n)], goal.allow) /\ Final(n) \notin Terminals
Ends(n) ==
    IF Acting THEN Final(n) \in Terminals
    ELSE Produces(index[Final(n)]) \cap goal.outs # {}
(* Defect variant of Meets: the action's own output counts as the artifact.*)
MeetsItself(n) ==
    (Acting /\ goal.outs # {}) =>
        \E s \in Hops(n) : Produces(index[s]) \cap goal.outs # {}

Meets(n) ==
    (Acting /\ goal.outs # {}) =>
        \E s \in Earlier(n) : Produces(index[s]) \cap goal.outs # {}

Extensions(n) ==
    {[path |-> Append(n.path, e.to), vias |-> Append(n.vias, e.via)] :
        e \in {a \in adjacent :
                  /\ a.from = Final(n)
                  /\ a.to \notin Hops(n)
                  /\ Len(n.path) < MaxDepth}}

(* An edge led to a slug without capability rows: caps[tail] raises.  *)
Fail(n) ==
    /\ Taken(n)
    /\ Final(n) \notin Indexed
    /\ pc' = "failed"
    /\ UNCHANGED <<tables, goal, index, adjacent, starts, frontier, found, answer, calm>>

Prune(n) ==
    /\ Taken(n)
    /\ Final(n) \in Indexed
    /\ Pruned(n)
    /\ frontier' = frontier \ {n}
    /\ UNCHANGED <<tables, goal, pc, index, adjacent, starts, found, answer, calm>>

Finish(n) ==
    /\ Taken(n)
    /\ Final(n) \in Indexed
    /\ ~Pruned(n)
    /\ Ends(n)
    /\ frontier' = frontier \ {n}
    /\ found' = IF Meets(n) THEN found \cup {n} ELSE found
    /\ UNCHANGED <<tables, goal, pc, index, adjacent, starts, answer, calm>>

(* Defect variant of Expand: the chain is looked at, not taken.            *)
ExpandPeeked(n) ==
    /\ Taken(n)
    /\ Final(n) \in Indexed
    /\ ~Pruned(n)
    /\ ~Ends(n)
    /\ frontier' = frontier \cup Extensions(n)
    /\ UNCHANGED <<tables, goal, pc, index, adjacent, starts, found, answer, calm>>

Expand(n) ==
    /\ Taken(n)
    /\ Final(n) \in Indexed
    /\ ~Pruned(n)
    /\ ~Ends(n)
    /\ frontier' = (frontier \ {n}) \cup Extensions(n)
    /\ UNCHANGED <<tables, goal, pc, index, adjacent, starts, found, answer, calm>>
----
(* Ranking: by length, side effects, confidence, then names. *)

EffectCount(n) == Cardinality({i \in 1 .. Len(n.path) : SideEffect(index[n.path[i]]) # "none"})
Unverified(n)  == \E s \in Hops(n) : Inferred(index[s])

NamedBefore(p, q) ==
    \E i \in 1 .. Len(p) : p[i] < q[i] /\ \A j \in 1 .. i - 1 : p[j] = q[j]

Before(m, n) ==
    \/ Len(m.path) < Len(n.path)
    \/ /\ Len(m.path) = Len(n.path)
       /\ \/ EffectCount(m) < EffectCount(n)
          \/ /\ EffectCount(m) = EffectCount(n)
             /\ \/ ~Unverified(m) /\ Unverified(n)
                \/ (Unverified(m) <=> Unverified(n)) /\ NamedBefore(m.path, n.path)

(* Every term is matched by some producer: a final action is none. *)
Producers(n) == IF Final(n) \in Terminals THEN Earlier(n) ELSE Hops(n)
Relevant(n)  == \A t \in goal.terms : \E s \in Producers(n) : <<t, s>> \in Matches

Best(ranked) ==
    {kept \in SUBSET ranked :
        /\ Cardinality(kept) =
              IF Cardinality(ranked) <= MaxChains THEN Cardinality(ranked) ELSE MaxChains
        /\ \A m \in kept : \A n \in ranked \ kept : ~Before(n, m)}

(* Defect variant of Answer: the cut is made before the relevance filter.  *)
AnswerCutFirst ==
    /\ pc = "search"
    /\ starts = {} /\ frontier = {}
    /\ \E kept \in Best(found) : answer' = {n \in kept : Relevant(n)}
    /\ pc' = "answered"
    /\ UNCHANGED <<tables, goal, index, adjacent, starts, frontier, found, calm>>

Answer ==
    /\ pc = "search"
    /\ starts = {} /\ frontier = {}
    /\ answer' \in Best({n \in found : Relevant(n)})
    /\ pc' = "answered"
    /\ UNCHANGED <<tables, goal, index, adjacent, starts, frontier, found, calm>>

(* core/planner/probe.py: the grounding facts about one slug.  It reads    *)
(* the slug's capability rows itself, disabled or not.                     *)
Reachable(s) == pc = "answered" /\ \E n \in answer : s \in Hops(n)

(* Defect variant of HopExcluded: a slug without rows is asked of the prune.*)
HopExcludedUnguarded(s) == Excluded(caps[s], goal.allow)

HopExcluded(s) == caps[s] = {} \/ Excluded(caps[s], goal.allow)

Step ==
    \/ ReadCaps \/ ReadEdges \/ Answer
    \/ \E s \in starts : Start(s)
    \/ \E n \in frontier : Fail(n) \/ Prune(n) \/ Finish(n) \/ Expand(n)

Next ==
    \/ PopulateRows \/ PopulateEdges
    \/ \E s \in Slugs : Disable(s)
    \/ Step

Spec     == Init /\ [][Next]_vars
FairSpec == Spec /\ WF_vars(Step)
----
(* What must hold. *)

TypeOK ==
    /\ caps \in [Slugs -> SUBSET Capability] /\ index \in [Slugs -> SUBSET Capability]
    /\ disabled \subseteq Slugs /\ starts \subseteq Slugs
    /\ edges \subseteq Edge /\ adjacent \subseteq Edge
    /\ torn \in BOOLEAN /\ calm \in BOOLEAN /\ commits \in Nat
    /\ goal \in Goal
    /\ pc \in {"asked", "refused", "indexed", "search", "failed", "answered"}
    /\ frontier \subseteq Chain /\ found \subseteq Chain /\ answer \subseteq Chain

(* The hops of a chain are distinct, joined by edges read or synthesized,  *)
(* within the depth; the first may start and none but the last ends it.    *)
Walk(n) ==
    /\ Len(n.path) \in 1 .. MaxDepth
    /\ Len(n.vias) = Len(n.path) - 1
    /\ n.path[1] \in StartSlugs(index)
    /\ \A i \in 1 .. Len(n.path) - 1 :
          [from |-> n.path[i], to |-> n.path[i + 1], via |-> n.vias[i]] \in adjacent
    /\ \A i, j \in 1 .. Len(n.path) : n.path[i] = n.path[j] => i = j
    /\ \A i \in 1 .. Len(n.path) - 1 :
          IF Acting THEN n.path[i] \notin Terminals
          ELSE Produces(index[n.path[i]]) \cap goal.outs = {}

Delivers(n) ==
    /\ Final(n) \in Indexed
    /\ IF Acting
       THEN /\ Final(n) \in Terminals
            /\ goal.outs # {} => \E s \in Earlier(n) : Produces(index[s]) \cap goal.outs # {}
       ELSE Produces(index[Final(n)]) \cap goal.outs # {}

(* Every candidate is a walk through the graph that was read and delivers  *)
(* what was asked; the artifact of a goal with an action comes from a hop  *)
(* before the action.  (plan_chain, search.py 205-245)                     *)
ChainsDeliver == \A n \in found \cup answer : Walk(n) /\ Delivers(n)

(* What the caller must have consented to, as the code judges it, which    *)
(* looks at a slug's worst effect alone: that effect is none, or of a      *)
(* class the caller allowed, or neither destructive nor unknown and        *)
(* declared by every capability that has it.  (search.py 71-84)            *)
Consented(s) ==
    \/ SideEffect(index[s]) \in {"none"} \cup goal.allow
    \/ /\ SideEffect(index[s]) \notin {"destructive", "unknown"}
       /\ \A c \in index[s] : c.effect = SideEffect(index[s]) => c.declared

(* What the docstring of _hop_excluded says instead: no planned hop but    *)
(* the requested action carries an inferred effect, other than none, that  *)
(* the caller did not allow, whatever else the slug does.  The code lets   *)
(* one pass behind a worse effect that is declared or allowed.             *)
(* (search.py 64-67)                                                       *)
UnverifiedEffectsExcluded ==
    \A n \in found \cup answer : \A s \in Hops(n) \ Terminals : \A c \in index[s] :
        c.declared \/ c.effect \in {"none"} \cup goal.allow

(* Nothing is missed: the answer is the best of all the walks that         *)
(* deliver, match the producer terms and have, but for the action, hops    *)
(* that are Consented, which is the code's rule and not the docstring's.   *)
(* The reference enumerates them without a search.                         *)
AllChains ==
    UNION {[path : [1 .. k -> Slugs], vias : [1 .. k - 1 -> Types]] : k \in 1 .. MaxDepth}

AnswerIsBest ==
    pc = "answered" =>
        answer \in Best({n \in AllChains :
            /\ Walk(n) /\ Delivers(n) /\ Relevant(n)
            /\ \A s \in Hops(n) \ Terminals : Consented(s)})

(* The search meets an edge to a slug it has no capability rows for only   *)
(* when a populate died between its two commits, is between them, or has   *)
(* committed since the request began.  (search.py 198)                     *)
FailsOnlyTorn == pc = "failed" => ~calm

(* The probe's explanation and the plan agree when no populate interferes: *)
(* a slug it reports excluded is planned only as the requested action, and *)
(* one without capability rows is reported excluded.  (probe.py 76-108)    *)
ProbeExplains ==
    pc = "answered" /\ calm =>
        \A s \in Slugs :
            /\ HopExcluded(s) /\ Reachable(s) => s \in Terminals
            /\ caps[s] = {} => HopExcluded(s) /\ ~Reachable(s)

(* Every request is refused, fails or is answered.  *)
Terminates == <>(pc \in {"refused", "failed", "answered"})
====
