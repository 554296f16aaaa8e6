---- MODULE MCRegistry ----
(* Instances of Registry for TLC: slugs, ports, feeds and starting tables. *)
EXTENDS Registry, TLC

CONSTANTS s1, s2, s3, hand, net

MCTypes == {"pdf", "json"}
Port(ins, outs, tags) == [ins |-> ins, outs |-> outs, tags |-> tags]
Producer == Port({}, {"pdf"}, {"x"})
Consumer == Port({"pdf"}, {"json"}, {"x"})
MCPorts == {EmptyPort, Producer, Consumer, Port({}, {"json"}, {}), Port({}, {"pdf", "json"}, {"x"}),
            Port({"pdf"}, {"pdf", "json"}, {"x"}), Port({}, {"pdf", "json"}, {})}
NoTyped == [s \in Slugs |-> {}]
TypedS1 == [s \in Slugs |-> IF s = s1 THEN {"json"} ELSE {}]

Rec(text, ns, port) == [text |-> text, ns |-> ns, port |-> port]

(* a feed of three that shrinks, and one whose records change *)
FullFeed  == (s1 :> Rec("feed", FALSE, Producer)) @@ (s2 :> Rec("placeholder", FALSE, Consumer))
             @@ (s3 :> Rec("feed", FALSE, Consumer))
FeedFeeds == {FullFeed, [s \in {s1, s2} |-> FullFeed[s]], [s \in {s3} |-> FullFeed[s]],
              (s1 :> Rec("placeholder", FALSE, Consumer))}

PairFeed  == (s1 :> Rec("feed", FALSE, Producer)) @@ (s2 :> Rec("feed", FALSE, Consumer))
PairFeeds == {PairFeed, (s1 :> Rec("feed", TRUE, Producer)) @@ (s2 :> Rec("feed", FALSE, Consumer)),
              (s2 :> Rec("feed", TRUE, Consumer)), <<>>}

NewTable(f) == [s \in Slugs |-> IF s \in DOMAIN f THEN NewRow(f[s]) ELSE NoRow]
WithSmoke(t, s, smoke) == [t EXCEPT ![s].launch.smoke = smoke]

(* The table with some rows registered by hand, and nothing else changed.  *)
ByHand(t, S, caps) ==
    [s \in Slugs |-> IF s \in S THEN [t[s] EXCEPT !.cls = "manual_register", !.caps = caps] ELSE t[s]]
Described(t) == [t EXCEPT ![s1].descProv = "manual", ![s1].desc = "manual"]

FeedTables ==
    {NewTable(FullFeed), NewTable(<<>>),
     ByHand(NewTable([s \in {s1, s2} |-> FullFeed[s]]), {s2}, {[prov |-> "manual", port |-> Producer]}),
     Described(ByHand(NewTable(FullFeed), {s3}, {}))}

(* a gated and a safe smoke; an installed row; a row once swept as not     *)
(* standalone, which the feed then calls standalone                        *)
PairTables ==
    {WithSmoke(WithSmoke(NewTable(PairFeed), s1, net), s2, hand),
     WithSmoke([ByHand(NewTable(PairFeed), {s1}, {}) EXCEPT ![s1].launch.layout = "install"], s2, net),
     [NewTable(PairFeed) EXCEPT ![s2].ns = TRUE, ![s2].health = "not_standalone", ![s2].checked = 0]}

(* and a table without a slug that its feed, or an operator, may bring     *)
ScriptTables == PairTables \cup {NewTable([s \in {s1} |-> PairFeed[s]])}

MCProposals == {[s \in Slugs |-> {}],
                [s \in Slugs |-> {[prov |-> "llm", port |-> Consumer]}],
                [s \in Slugs |-> IF s = s3 THEN {} ELSE {[prov |-> "static", port |-> Producer]}]}
ProcSymmetry == Permutations(Procs)
====
