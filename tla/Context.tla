------------------------------ MODULE Context ------------------------------
(***************************************************************************)
(* What the model is shown (src/src/context/context.c) and the two tables  *)
(* a run keeps for it, the graph (src/src/graph/graph.c) and the facts     *)
(* (src/src/memory/memory.c).  Operators only: module Observe keeps the    *)
(* state.                                                                  *)
(*                                                                         *)
(* A context is a sequence of units, one for every form or line that the   *)
(* renderer writes, <<its name, what it is about>>.  The units stand for   *)
(* their text; a capacity counts units as the code's counts bytes.         *)
(***************************************************************************)
EXTENDS Integers, Sequences, FiniteSets, FiniteSetsExt, SequencesExt

CONSTANTS
    MaxNodes,   \* SPG_GRAPH_MAX_NODES
    MaxEdges,   \* SPG_GRAPH_MAX_EDGES
    MaxFacts,   \* SPG_MEMORY_MAX_FACTS
    RefCap,     \* the length of each array of references in the workspace
    ContextCap  \* context_capacity

ASSUME ContextAssumption ==
    /\ {MaxNodes, MaxEdges, MaxFacts, RefCap} \subseteq Nat
    /\ ContextCap \in Nat \ {0}

-----------------------------------------------------------------------------
(* The graph: nodes in the order they were added, edges as pairs of        *)
(* indices.  An operation returns [ok, g]; g is the graph as the operation *)
(* leaves it, in the code also when it fails.                              *)

EmptyGraph == [nodes |-> <<>>, edges |-> <<>>]

NoScores == [confidence |-> 0, utility |-> 0, risk |-> 0, novelty |-> 0, cost |-> 0]

AddNode(g, kind) ==
    IF Len(g.nodes) >= MaxNodes
    THEN [ok |-> FALSE, g |-> g]
    ELSE [ok |-> TRUE,
          g  |-> [g EXCEPT !.nodes = Append(@, [kind   |-> kind,
                                                flags  |-> {"open"},
                                                scores |-> NoScores])]]

\* The nodes a walk along the edges finds from s.
Reaches(g, s) ==
    LET found[k \in 0..Len(g.nodes)] ==
            IF k = 0 THEN {s}
            ELSE LET near == found[k - 1]
                 IN near \cup {e[2] : e \in {x \in ToSet(g.edges) : x[1] \in near}}
    IN found[Len(g.nodes)]

AddEdge(g, from, to) ==
    IF \/ from = to
       \/ from \in Reaches(g, to)
       \/ Len(g.edges) >= MaxEdges
    THEN [ok |-> FALSE, g |-> g]
    ELSE [ok |-> TRUE, g |-> [g EXCEPT !.edges = Append(@, <<from, to>>)]]

SetScores(g, n, scores) == [g EXCEPT !.nodes[n].scores = scores]
SetFlags(g, n, flags)   == [g EXCEPT !.nodes[n].flags = flags]

(* A node with its scores, and an edge that links it; the node stays when  *)
(* the edge fails.                                                         *)
AddScored(r, kind, flags, scores, Edge(_)) ==
    LET a == AddNode(r.g, kind)
        n == Len(a.g.nodes)
    IN IF ~(r.ok /\ a.ok) THEN [ok |-> FALSE, g |-> r.g]
       ELSE LET s == SetFlags(SetScores(a.g, n, scores), n, flags)
            IN AddEdge(s, Edge(n)[1], Edge(n)[2])

\* add_graph_updates: what the model was shown, and the plan it answered with.
ActorUpdates(g) ==
    AddScored(AddNode(g, "observation"), "plan", {"open"},
              [confidence |-> 5000, utility |-> 5000, risk |-> 0,
               novelty |-> 5000, cost |-> 0],
              LAMBDA n : <<n, n - 1>>)

\* The plan of the running step: the last one there is.
PlanNode(g) == Max({n \in DOMAIN g.nodes : g.nodes[n].kind = "plan"})

\* add_deny_graph
DenyUpdates(g) ==
    AddScored([ok |-> TRUE, g |-> g], "policy_decision", {"blocked"},
              [NoScores EXCEPT !.confidence = 10000],
              LAMBDA n : <<PlanNode(g), n>>)

\* add_graph_result
SimUpdates(g, mutated) ==
    AddScored([ok |-> TRUE, g |-> g], "result", {"open"},
              [confidence |-> 10000, utility |-> IF mutated THEN 7500 ELSE 0,
               risk |-> 0, novelty |-> 2500, cost |-> 0],
              LAMBDA n : <<PlanNode(g), n>>)

-----------------------------------------------------------------------------
(* The facts, in the order they were added.                                *)

AddFact(facts, event, confidence) ==
    IF Len(facts) >= MaxFacts
    THEN [ok |-> FALSE, f |-> facts]
    ELSE [ok |-> TRUE,
          f  |-> Append(facts, [kind       |-> "artifact",
                                status     |-> "active",
                                event      |-> event,
                                linked     |-> TRUE,
                                confidence |-> confidence])]

-----------------------------------------------------------------------------
(* Ranks.                                                                  *)

NodeWeight == [goal |-> 9000, plan |-> 8500, action |-> 8000,
               policy_decision |-> 7600, result |-> 7200, memory |-> 6900,
               hypothesis |-> 6500, observation |-> 6000, eval_mark |-> 5400]

GraphRank(n) ==
    LET bonus   == (IF "open" \in n.flags THEN 5000 ELSE 0)
                   + (IF "blocked" \in n.flags THEN 1200 ELSE 0)
        flagged == NodeWeight[n.kind] + bonus
        closed  == IF "closed" \in n.flags /\ flagged >= 2500 THEN 2500 ELSE 0
    IN flagged - closed
       + n.scores.confidence \div 2 + n.scores.utility + n.scores.novelty \div 2
       + (10000 - n.scores.risk) \div 3 + (10000 - n.scores.cost) \div 4

FactWeight == [constraint |-> 9000, artifact |-> 8200, relation |-> 7800,
               entity |-> 7200, observation |-> 6800]

FactRank(f) ==
    FactWeight[f.kind]
    + (IF f.status = "active" THEN 6000 ELSE IF f.status = "superseded" THEN 1200 ELSE 0)
    + f.confidence
    + (IF f.linked THEN 1000 ELSE 0)
    + (IF f.event > 1000000 THEN 1000 ELSE f.event \div 1000)

(* References [index, rank]: the higher rank first, then the lower index.  *)
(* Events are ranked by their sequence, so the latest come first.          *)
Before(a, b) == a.rank > b.rank \/ (a.rank = b.rank /\ a.index < b.index)

\* A full list that keeps what it has.
InsertRefFirst(v, cap, r) ==
    IF Len(v.refs) >= cap
    THEN [v EXCEPT !.truncated = TRUE]
    ELSE [v EXCEPT !.refs = Append(@, r)]

(* insert_graph_ref, insert_memory_ref, insert_recent_journal_ref: a       *)
(* reference goes to its place; a full list loses its last one, and says   *)
(* so.                                                                     *)
InsertRef(v, cap, r) ==
    IF cap = 0 \/ (Len(v.refs) = cap /\ ~Before(r, v.refs[Len(v.refs)]))
    THEN [v EXCEPT !.truncated = TRUE]
    ELSE LET kept == SubSeq(v.refs, 1, IF Len(v.refs) = cap THEN cap - 1 ELSE Len(v.refs))
             pos  == Max({0} \cup {i \in DOMAIN kept : ~Before(r, kept[i])}) + 1
         IN [refs |-> InsertAt(kept, pos, r),
             truncated |-> v.truncated \/ Len(v.refs) = cap]

Lesser(a, b) == IF a < b THEN a ELSE b

Candidates(seq, Rank(_)) == [i \in DOMAIN seq |-> [index |-> i, rank |-> Rank(seq[i])]]

Ranked(cands, limit) ==
    LET view[n \in 0..Len(cands)] ==
            IF n = 0 THEN [refs |-> <<>>, truncated |-> FALSE]
            ELSE InsertRef(view[n - 1], Lesser(limit, RefCap), cands[n])
    IN view[Len(cands)]

Remaining(configured, consumed) ==
    IF consumed >= configured THEN 0 ELSE configured - consumed

(* spg_context_build.  headers is the header log of the journal: sequence  *)
(* numbers, oldest first; the references to it end up oldest first again.  *)
BuildView(graph, facts, headers, limit, configured, consumed) ==
    LET recent == Ranked([i \in DOMAIN headers |-> [index |-> i, rank |-> headers[i]]],
                         limit)
    IN [budgets |-> [configured |-> configured, consumed |-> consumed,
                     remaining  |-> Remaining(configured, consumed)],
        graph   |-> Ranked(Candidates(graph.nodes, GraphRank), limit),
        memory  |-> Ranked(Candidates(facts, FactRank), limit),
        journal |-> [recent EXCEPT !.refs = Reverse(@)]]

-----------------------------------------------------------------------------
(* Rendering.                                                              *)

Unit(name, about)      == <<name, about>>
Optional(name, about)  == IF about = "none" THEN <<>> ELSE <<Unit(name, about)>>

(* Everything that is the same in every context of a run.                  *)
ConstantUnits(fixed) ==
    <<Unit("contract", "schema")>>
    \o Optional("directive", fixed.directive)
    \o Optional("user_profile", fixed.user_profile)
    \o Optional("goal", fixed.goal)
    \o Optional("tools", fixed.tools)
    \o Optional("exemplars", fixed.exemplars)

ListUnits(name, v) ==
    <<Unit(name, IF v.truncated THEN "truncated" ELSE "complete")>>
    \o [i \in DOMAIN v.refs |-> Unit(name, v.refs[i])]

(* The units below the boundary; machine is what render_machine writes.    *)
VaryingUnits(view, src, machine) ==
    <<Unit("budgets", view.budgets)>>
    \o Optional("host_status", src.host_status)
    \o machine
    \o ListUnits("graph", view.graph)
    \o ListUnits("memory", view.memory)
    \o Optional("memory_index", src.memory_index)
    \o Optional("observation", src.observation)
    \o ListUnits("recent_events", view.journal)

\* out_prefix_len: where the constant part ends.
PrefixLen(const, var) == Lesser(Len(const), ContextCap - 1)

(* spg_context_render: what does not fit is cut off and counted, the last  *)
(* place is kept for the terminator, and a cut context is an error.        *)
Render(const, var) ==
    LET all == const \o var
    IN [status   |-> IF Len(all) + 1 <= ContextCap THEN "ok" ELSE "limit",
        text     |-> SubSeq(all, 1, Lesser(Len(all), ContextCap - 1)),
        prefix   |-> PrefixLen(const, var),
        required |-> Len(all) + 1]
=============================================================================
