---- MODULE PlannerProofs ----
(* The planner's chains are sound for every catalog, goal and bound.       *)
EXTENDS Planner, SequenceTheorems, TLAPS

(* The chains of the queue are walks whose hops but the last were judged.  *)
Judged(n) ==
    /\ Walk(n)
    /\ \A s \in Earlier(n) : s \in Indexed /\ Consented(s)

Kept(n) ==
    /\ Walk(n)
    /\ Delivers(n)
    /\ \A s \in Earlier(n) : Consented(s)
    /\ Consented(Final(n)) \/ (Acting /\ Final(n) \in Terminals)

(* Before the search nothing is queued; the answer is chosen among found.  *)
Quiet ==
    /\ pc \in {"asked", "refused", "indexed"} => frontier = {} /\ found = {}
    /\ pc = "asked" => starts = {}
    /\ starts \subseteq StartSlugs(index)
    /\ answer \subseteq found

Sound ==
    /\ \A n \in frontier : Judged(n)
    /\ \A n \in found : Kept(n)

(* What the request read is of one piece as long as it is calm.            *)
Whole ==
    /\ ~torn => \A e \in edges : caps[e.from] # {} /\ caps[e.to] # {}
    /\ pc = "indexed" /\ calm =>
          ~torn /\ \A s \in Slugs \ disabled : index[s] = caps[s]
    /\ pc \in {"search", "failed"} /\ calm =>
          /\ \A e \in adjacent : e.to \in Indexed
          /\ \A n \in frontier : Final(n) \in Indexed
    /\ pc = "failed" => ~calm

----
(* A slug that is not excluded is one the caller consents to.              *)
LEMMA NotExcluded ==
    ASSUME NEW s \in Slugs, ~Excluded(index[s], goal.allow)
    PROVE  Consented(s)
BY DEF Excluded, Consented

(* A start slug has capability rows.                                       *)
LEMMA StartsAreIndexed ==
    ASSUME NEW s \in StartSlugs(index)
    PROVE  s \in Slugs /\ index[s] # {}
<1>1. \A r \in Slugs : index[r] = {} => VerbsOf(index[r]) = {}
  BY DEF VerbsOf, Tags
<1> QED
  BY <1>1 DEF StartSlugs, Performers
----
(* Type correctness. *)

(* DesiredEdges, the synthesized edges and the extensions are well typed.  *)
LEMMA OperatorTypes ==
    ASSUME TypeOK
    PROVE  /\ DesiredEdges(caps) \subseteq Edge
           /\ Synthesized \subseteq Edge
           /\ \A r \in [Slugs -> SUBSET Capability] : StartSlugs(r) \subseteq Slugs
           /\ \A n \in frontier : Extensions(n) \subseteq Chain
<1>1. DesiredEdges(caps) \subseteq Edge /\ Synthesized \subseteq Edge
  BY DEF DesiredEdges, Synthesized
<1>2. \A r \in [Slugs -> SUBSET Capability] : StartSlugs(r) \subseteq Slugs
  BY DEF StartSlugs, Performers
<1>3. ASSUME NEW n \in frontier, NEW e \in adjacent
      PROVE  [path |-> Append(n.path, e.to), vias |-> Append(n.vias, e.via)] \in Chain
  <2>1. n.path \in Seq(Slugs) /\ n.vias \in Seq(Types) /\ e.to \in Slugs /\ e.via \in Types
    BY <1>3 DEF TypeOK, Chain, Edge
  <2> QED
    BY <2>1 DEF Chain
<1>4. \A n \in frontier : Extensions(n) \subseteq Chain
  BY <1>3 DEF Extensions
<1> QED
  BY <1>1, <1>2, <1>4

(* The initial state is well typed.                                        *)
LEMMA TypeInit == Init => TypeOK
<1> SUFFICES ASSUME Init PROVE TypeOK
  OBVIOUS
<1>1. caps \in [Slugs -> SUBSET Capability] /\ goal \in Goal
  BY PlannerAssumption DEF Init
<1>2. index \in [Slugs -> SUBSET Capability]
  BY DEF Init
<1>3. edges \subseteq Edge
  BY DEF Init, DesiredEdges
<1> QED
  BY <1>1, <1>2, <1>3 DEF Init, TypeOK

(* Every step keeps the types.                                             *)
LEMMA TypeNext == TypeOK /\ [Next]_vars => TypeOK'
<1> SUFFICES ASSUME TypeOK, [Next]_vars PROVE TypeOK'
  OBVIOUS
<1>1. CASE PopulateRows
  <2>1. caps' \in [Slugs -> SUBSET Capability] /\ commits' \in Nat
    BY <1>1, PlannerAssumption DEF PopulateRows, TypeOK
  <2> QED
    BY <1>1, <2>1 DEF PopulateRows, search, TypeOK
<1>2. CASE PopulateEdges
  <2>1. edges' \subseteq Edge
    BY <1>2, OperatorTypes DEF PopulateEdges
  <2> QED
    BY <1>2, <2>1 DEF PopulateEdges, search, TypeOK
<1>3. ASSUME NEW s \in Slugs, Disable(s) PROVE TypeOK'
  BY <1>3 DEF Disable, search, TypeOK
<1>4. CASE ReadCaps
  <2> DEFINE rows == [s \in Slugs |-> IF s \in disabled THEN {} ELSE caps[s]]
  <2>1. rows \in [Slugs -> SUBSET Capability]
    BY DEF TypeOK
  <2>2. index' = rows /\ starts' \subseteq Slugs
    BY <1>4, <2>1, OperatorTypes DEF ReadCaps
  <2>3. pc' \in {"refused", "indexed"}
    BY <1>4 DEF ReadCaps
  <2>4. calm' \in BOOLEAN
    BY <1>4, Zenon DEF ReadCaps, TypeOK
  <2> QED
    BY <1>4, <2>1, <2>2, <2>3, <2>4 DEF ReadCaps, tables, TypeOK
<1>5. CASE ReadEdges
  <2>1. adjacent' \subseteq Edge
    BY <1>5, OperatorTypes DEF ReadEdges, TypeOK
  <2> QED
    BY <1>5, <2>1 DEF ReadEdges, tables, TypeOK
<1>6. CASE Answer
  <2>1. answer' \subseteq Chain
    BY <1>6 DEF Answer, Best, TypeOK
  <2> QED
    BY <1>6, <2>1 DEF Answer, tables, TypeOK
<1>7. ASSUME NEW s \in starts, Start(s) PROVE TypeOK'
  <2>1. s \in Slugs
    BY <1>7 DEF TypeOK
  <2>2. [path |-> <<s>>, vias |-> <<>>] \in Chain
    BY <2>1 DEF Chain
  <2> QED
    BY <1>7, <2>2 DEF Start, tables, TypeOK
<1>8. ASSUME NEW n \in frontier, Fail(n) PROVE TypeOK'
  BY <1>8 DEF Fail, tables, TypeOK
<1>9. ASSUME NEW n \in frontier, Prune(n) PROVE TypeOK'
  BY <1>9 DEF Prune, tables, TypeOK
<1>10. ASSUME NEW n \in frontier, Finish(n) PROVE TypeOK'
  BY <1>10 DEF Finish, tables, TypeOK
<1>11. ASSUME NEW n \in frontier, Expand(n) PROVE TypeOK'
  <2>1. frontier' \subseteq Chain
    BY <1>11, OperatorTypes DEF Expand, TypeOK
  <2> QED
    BY <1>11, <2>1 DEF Expand, tables, TypeOK
<1>12. CASE UNCHANGED vars
  BY <1>12 DEF vars, tables, search, TypeOK
<1> QED
  BY <1>1, <1>2, <1>3, <1>4, <1>5, <1>6, <1>7, <1>8, <1>9, <1>10, <1>11, <1>12 DEF Next, Step

(* The planner's state is always well typed, for every catalog and goal.   *)
THEOREM TypeCorrect == Spec => []TypeOK
<1> QED
  BY TypeInit, TypeNext, PTL DEF Spec
----
(* Soundness. *)

(* What a chain is judged by does not change during the search.            *)
LEMMA JudgedStays ==
    ASSUME UNCHANGED <<goal, index, adjacent>>, NEW n
    PROVE  /\ Judged(n)' <=> Judged(n)
           /\ Kept(n)' <=> Kept(n)
           /\ StartSlugs(index)' = StartSlugs(index)
<1>1. Terminals' = Terminals /\ Indexed' = Indexed /\ (Acting' <=> Acting)
  BY DEF Terminals, Performers, Indexed, Acting
<1>2. StartSlugs(index)' = StartSlugs(index)
  BY DEF StartSlugs, Performers, PureAction, Acting
<1>3. \A s : Consented(s)' <=> Consented(s)
  BY DEF Consented
<1>4. Walk(n)' <=> Walk(n)
  BY <1>1, <1>2 DEF Walk
<1>5. Delivers(n)' <=> Delivers(n)
  BY <1>1 DEF Delivers
<1> QED
  BY <1>1, <1>2, <1>3, <1>4, <1>5 DEF Judged, Kept

(* A chain of one start slug is judged.                                    *)
LEMMA FirstChain ==
    ASSUME NEW s \in StartSlugs(index), TypeOK
    PROVE  Judged([path |-> <<s>>, vias |-> <<>>])
<1> DEFINE n == [path |-> <<s>>, vias |-> <<>>]
<1>1. n.path = <<s>> /\ n.vias = <<>> /\ Len(n.path) = 1 /\ Len(n.vias) = 0 /\ n.path[1] = s
  OBVIOUS
<1>2. Earlier(n) = {}
  BY <1>1 DEF Earlier
<1>3. Walk(n)
  <2> HIDE DEF n
  <2> QED
    BY <1>1, PlannerAssumption DEF Walk
<1> QED
  BY <1>2, <1>3 DEF Judged

(* An expanded chain was judged at its last hop, and ended nowhere.        *)
LEMMA LongerChain ==
    ASSUME TypeOK, NEW n \in frontier, Judged(n),
           Final(n) \in Indexed, ~Pruned(n), ~Ends(n), NEW m \in Extensions(n)
    PROVE  Judged(m)
<1>1. PICK e \in adjacent : /\ e.from = Final(n) /\ e.to \notin Hops(n) /\ Len(n.path) < MaxDepth
                            /\ m = [path |-> Append(n.path, e.to), vias |-> Append(n.vias, e.via)]
  BY DEF Extensions
<1>2. n \in Chain /\ e \in Edge /\ e.to \in Slugs /\ e.via \in Types
  BY <1>1 DEF TypeOK, Edge
<1>3. Len(n.path) \in Nat \ {0} /\ Len(n.vias) = Len(n.path) - 1 /\ Walk(n)
  BY PlannerAssumption DEF Judged, Walk
<1>4. /\ Len(m.path) = Len(n.path) + 1 /\ Len(m.vias) = Len(n.path)
      /\ \A i \in 1 .. Len(n.path) : m.path[i] = n.path[i]
      /\ m.path[Len(n.path) + 1] = e.to
      /\ \A i \in 1 .. Len(n.path) - 1 : m.vias[i] = n.vias[i]
      /\ m.vias[Len(n.path)] = e.via
      /\ Earlier(m) = Hops(n)
  <2>1. n.path \in Seq(Slugs) /\ n.vias \in Seq(Types)
    BY <1>2 DEF Chain
  <2>2. m.path = Append(n.path, e.to) /\ m.vias = Append(n.vias, e.via)
    BY <1>1
  <2>3. Len(m.path) = Len(n.path) + 1 /\ Len(m.vias) = Len(n.path)
    BY <1>2, <1>3, <2>1, <2>2
  <2>4. /\ \A i \in 1 .. Len(n.path) : m.path[i] = n.path[i]
        /\ m.path[Len(n.path) + 1] = e.to
        /\ \A i \in 1 .. Len(n.path) - 1 : m.vias[i] = n.vias[i]
        /\ m.vias[Len(n.path)] = e.via
    BY <1>2, <1>3, <2>1, <2>2
  <2>5. Earlier(m) = Hops(n)
    <3>1. Len(m.path) - 1 = Len(n.path)
      BY <1>3, <2>3
    <3> QED
      BY <2>4, <3>1 DEF Earlier, Hops
  <2> QED
    BY <2>3, <2>4, <2>5
<1> DEFINE k == Len(n.path)
<1>5. n.path[k] = Final(n)
  BY DEF Final
<1>6. k \in 1 .. MaxDepth /\ k + 1 \in 1 .. MaxDepth /\ k \in Nat
  BY <1>1, <1>3, PlannerAssumption DEF Walk
<1>7. IF Acting THEN n.path[k] \notin Terminals ELSE Produces(index[n.path[k]]) \cap goal.outs = {}
  BY <1>5 DEF Ends
<1>8. e = [from |-> n.path[k], to |-> e.to, via |-> e.via]
  BY <1>1, <1>2, <1>5 DEF Edge
<1>9. Walk(m)
  <2>1. m.path[1] \in StartSlugs(index)
    BY <1>3, <1>4, <1>6 DEF Walk
  <2>2. \A i \in 1 .. k :
          [from |-> m.path[i], to |-> m.path[i + 1], via |-> m.vias[i]] \in adjacent
    <3> SUFFICES ASSUME NEW i \in 1 .. k
                 PROVE  [from |-> m.path[i], to |-> m.path[i + 1], via |-> m.vias[i]] \in adjacent
      OBVIOUS
    <3>1. CASE i = k
      BY <1>1, <1>4, <1>6, <1>8, <3>1
    <3>2. CASE i # k
      <4>1. i \in 1 .. k - 1 /\ i + 1 \in 1 .. k
        BY <1>6, <3>2
      <4> QED
        BY <1>3, <1>4, <4>1 DEF Walk
    <3> QED
      BY <3>1, <3>2
  <2>3. \A i, j \in 1 .. k + 1 : m.path[i] = m.path[j] => i = j
    <3>1. \A i \in 1 .. k : m.path[i] # e.to
      BY <1>1, <1>4 DEF Hops
    <3>2. \A i \in 1 .. k + 1 : i \in 1 .. k \/ i = k + 1
      BY <1>6
    <3> QED
      BY <1>3, <1>4, <3>1, <3>2 DEF Walk
  <2>4. \A i \in 1 .. k :
          IF Acting THEN m.path[i] \notin Terminals
          ELSE Produces(index[m.path[i]]) \cap goal.outs = {}
    <3>1. \A i \in 1 .. k : i \in 1 .. k - 1 \/ i = k
      BY <1>6
    <3>2. \A i \in 1 .. k - 1 :
            IF Acting THEN n.path[i] \notin Terminals
            ELSE Produces(index[n.path[i]]) \cap goal.outs = {}
      BY <1>3 DEF Walk
    <3>3. \A i \in 1 .. k : m.path[i] = n.path[i]
      BY <1>4
    <3> HIDE DEF k
    <3> QED
      BY <1>7, <3>1, <3>2, <3>3
  <2>5. Len(m.path) - 1 = k /\ Len(m.vias) = Len(m.path) - 1 /\ Len(m.path) \in 1 .. MaxDepth
    BY <1>4, <1>6
  <2>6. Len(m.path) = k + 1
    BY <1>4
  <2> HIDE DEF k
  <2> QED
    BY <2>1, <2>2, <2>3, <2>4, <2>5, <2>6 DEF Walk
<1>10. Final(n) \notin Terminals
  BY DEF Ends, Terminals
<1>11. Final(n) \in Slugs
  BY DEF Indexed
<1>12. Consented(Final(n))
  BY <1>10, <1>11, NotExcluded DEF Pruned
<1>13. \A s \in Hops(n) : s \in Earlier(n) \/ s = Final(n)
  <2>1. \A i \in 1 .. k : i \in 1 .. k - 1 \/ i = k
    BY <1>6
  <2> QED
    BY <2>1, <1>5 DEF Hops, Earlier
<1> QED
  BY <1>4, <1>9, <1>12, <1>13 DEF Judged

(* A finished chain that meets the goal is kept.                           *)
LEMMA FinishedChain ==
    ASSUME TypeOK, NEW n \in frontier, Judged(n),
           Final(n) \in Indexed, ~Pruned(n), Ends(n), Meets(n)
    PROVE  Kept(n)
<1>1. Delivers(n)
  BY DEF Delivers, Ends, Meets
<1>2. Consented(Final(n)) \/ (Acting /\ Final(n) \in Terminals)
  <2>1. Final(n) \in Slugs
    BY DEF Indexed
  <2>2. Final(n) \in Terminals => Acting
    BY DEF Terminals
  <2> QED
    BY <2>1, <2>2, NotExcluded DEF Pruned
<1> QED
  BY <1>1, <1>2 DEF Judged, Kept

(* Nothing is queued at first.                                             *)
LEMMA SoundInit == Init => Quiet /\ Sound
BY DEF Init, Quiet, Sound

(* Every step keeps queued chains judged and candidates sound.             *)
LEMMA SoundNext == TypeOK /\ Quiet /\ Sound /\ [Next]_vars => Quiet' /\ Sound'
<1> SUFFICES ASSUME TypeOK, Quiet, Sound, [Next]_vars PROVE Quiet' /\ Sound'
  OBVIOUS
<1>1. ASSUME UNCHANGED search PROVE Quiet' /\ Sound'
  <2>1. UNCHANGED <<goal, index, adjacent, pc, starts, frontier, found, answer>>
    BY <1>1 DEF search
  <2>2. \A n : (Judged(n)' <=> Judged(n)) /\ (Kept(n)' <=> Kept(n))
    BY <2>1, JudgedStays
  <2>3. StartSlugs(index)' = StartSlugs(index)
    BY <2>1, JudgedStays
  <2> QED
    BY <2>1, <2>2, <2>3 DEF Quiet, Sound
<1>2. CASE ReadCaps
  <2>1. frontier' = {} /\ found' = {} /\ answer' = {}
    BY <1>2 DEF ReadCaps, Quiet
  <2>2. starts' \subseteq StartSlugs(index)' /\ pc' \in {"refused", "indexed"}
    <3>1. goal' = goal
      BY <1>2 DEF ReadCaps
    <3>2. starts' = {} \/ starts' = StartSlugs(index')
      BY <1>2 DEF ReadCaps
    <3>3. StartSlugs(index)' = StartSlugs(index')
      BY <3>1 DEF StartSlugs, Performers, PureAction, Acting
    <3> QED
      BY <1>2, <3>2, <3>3 DEF ReadCaps
  <2> QED
    BY <2>1, <2>2 DEF Quiet, Sound
<1>3. CASE ReadEdges
  <2>1. frontier' = {} /\ found' = {} /\ answer' = {} /\ pc' = "search"
    BY <1>3 DEF ReadEdges, Quiet
  <2>2. starts' \subseteq StartSlugs(index)'
    <3>1. starts' = starts /\ goal' = goal /\ index' = index
      BY <1>3 DEF ReadEdges
    <3>2. StartSlugs(index)' = StartSlugs(index)
      BY <3>1 DEF StartSlugs, Performers, PureAction, Acting
    <3> QED
      BY <3>1, <3>2 DEF Quiet
  <2> QED
    BY <2>1, <2>2 DEF Quiet, Sound
<1>4. ASSUME UNCHANGED <<goal, index, adjacent>>, pc = "search",
             pc' \in {"search", "failed", "answered"},
             starts' \subseteq starts, answer' \subseteq found',
             \A n \in frontier' : Judged(n), \A n \in found' : Kept(n)
      PROVE  Quiet' /\ Sound'
  <2>1. \A n : (Judged(n)' <=> Judged(n)) /\ (Kept(n)' <=> Kept(n))
    BY <1>4, JudgedStays
  <2>2. StartSlugs(index)' = StartSlugs(index)
    BY <1>4, JudgedStays
  <2> QED
    BY <1>4, <2>1, <2>2 DEF Quiet, Sound
<1>5. CASE Answer
  <2>1. answer' \subseteq found
    BY <1>5 DEF Answer, Best
  <2> QED
    BY <1>4, <1>5, <2>1 DEF Answer, Quiet, Sound
<1>6. ASSUME NEW s \in starts, Start(s) PROVE Quiet' /\ Sound'
  <2>1. Judged([path |-> <<s>>, vias |-> <<>>])
    BY FirstChain DEF Quiet
  <2> QED
    BY <1>4, <1>6, <2>1 DEF Start, Quiet, Sound
<1>7. ASSUME NEW n \in frontier, Fail(n) PROVE Quiet' /\ Sound'
  BY <1>4, <1>7 DEF Fail, Taken, Quiet, Sound
<1>8. ASSUME NEW n \in frontier, Prune(n) PROVE Quiet' /\ Sound'
  BY <1>4, <1>8 DEF Prune, Taken, Quiet, Sound
<1>9. ASSUME NEW n \in frontier, Finish(n) PROVE Quiet' /\ Sound'
  <2>1. \A m \in found' : Kept(m)
    BY <1>9, FinishedChain DEF Finish, Sound
  <2>2. answer' \subseteq found'
    BY <1>9 DEF Finish, Quiet
  <2>3. \A m \in frontier' : Judged(m)
    BY <1>9 DEF Finish, Sound
  <2> QED
    BY <1>4, <1>9, <2>1, <2>2, <2>3 DEF Finish, Taken
<1>10. ASSUME NEW n \in frontier, Expand(n) PROVE Quiet' /\ Sound'
  <2>1. \A m \in frontier' : Judged(m)
    BY <1>10, LongerChain DEF Expand, Sound
  <2>2. answer' \subseteq found' /\ \A m \in found' : Kept(m)
    BY <1>10 DEF Expand, Quiet, Sound
  <2> QED
    BY <1>4, <1>10, <2>1, <2>2 DEF Expand, Taken
<1>11. CASE PopulateRows
  BY <1>1, <1>11 DEF PopulateRows
<1>12. CASE PopulateEdges
  BY <1>1, <1>12 DEF PopulateEdges
<1>13. ASSUME NEW s \in Slugs, Disable(s) PROVE Quiet' /\ Sound'
  BY <1>1, <1>13 DEF Disable
<1>14. CASE UNCHANGED vars
  BY <1>1, <1>14 DEF vars
<1> QED
  BY <1>2, <1>3, <1>5, <1>6, <1>7, <1>8, <1>9, <1>10, <1>11, <1>12, <1>13, <1>14 DEF Next, Step

(* Every candidate and every answer is a walk through the graph that was   *)
(* read and delivers the goal, for every catalog, depth and cap.           *)
THEOREM SoundChains == Spec => []ChainsDeliver
<1>1. Quiet /\ Sound => ChainsDeliver
  BY DEF Quiet, Sound, Kept, ChainsDeliver
<1> QED
  BY TypeInit, TypeNext, SoundInit, SoundNext, <1>1, PTL DEF Spec
----
(* Failure. *)

(* The edges computed from a table join slugs that have capability rows.   *)
LEMMA EdgesJoinRows ==
    ASSUME NEW t \in [Slugs -> SUBSET Capability]
    PROVE  \A e \in DesiredEdges(t) : t[e.from] # {} /\ t[e.to] # {}
BY DEF DesiredEdges, Produces, Consumes

(* At first the edges belong to the capability rows.                       *)
LEMMA WholeInit == Init => Whole
<1> SUFFICES ASSUME Init PROVE Whole
  OBVIOUS
<1>1. caps \in [Slugs -> SUBSET Capability]
  BY PlannerAssumption DEF Init
<1>2. \A e \in edges : caps[e.from] # {} /\ caps[e.to] # {}
  BY <1>1, EdgesJoinRows DEF Init
<1> QED
  BY <1>2 DEF Init, Whole

(* While it is calm every chain of the queue ends in a slug with rows.     *)
LEMMA WholeNext == TypeOK /\ Quiet /\ Whole /\ [Next]_vars => Whole'
<1> SUFFICES ASSUME TypeOK, Quiet, Whole, [Next]_vars PROVE Whole'
  OBVIOUS
<1>1. CASE PopulateRows
  BY <1>1 DEF PopulateRows, search, Whole, TypeOK
<1>2. CASE PopulateEdges
  <2>1. \A e \in edges' : caps[e.from] # {} /\ caps[e.to] # {}
    BY <1>2, EdgesJoinRows DEF PopulateEdges, TypeOK
  <2>2. Indexed' = Indexed
    BY <1>2 DEF PopulateEdges, search, Indexed
  <2> QED
    BY <1>2, <2>1, <2>2 DEF PopulateEdges, search, Whole, TypeOK
<1>3. ASSUME NEW s \in Slugs, Disable(s) PROVE Whole'
  <2>1. Indexed' = Indexed
    BY <1>3 DEF Disable, search, Indexed
  <2> QED
    BY <1>3, <2>1 DEF Disable, search, Whole, TypeOK
<1>4. CASE ReadCaps
  <2>1. pc' = "indexed" \/ pc' = "refused"
    BY <1>4 DEF ReadCaps
  <2>2. \A s \in Slugs \ disabled : index'[s] = caps[s]
    BY <1>4 DEF ReadCaps, TypeOK
  <2>3. calm' => ~torn
    BY <1>4 DEF ReadCaps
  <2> QED
    BY <1>4, <2>1, <2>2, <2>3 DEF ReadCaps, tables, Whole
<1>5. CASE ReadEdges
  <2>1. calm => \A e \in adjacent' : e.to \in Indexed
    <3> SUFFICES ASSUME calm, NEW e \in adjacent' PROVE e.to \in Indexed
      OBVIOUS
    <3>1. CASE e \in Synthesized
      BY <3>1 DEF Synthesized, Terminals, Performers, Indexed, VerbsOf, Tags
    <3>2. CASE e \in edges /\ {e.from, e.to} \cap disabled = {}
      BY <1>5, <3>2 DEF ReadEdges, Whole, TypeOK, Edge, Indexed
    <3> QED
      BY <1>5, <3>1, <3>2 DEF ReadEdges
  <2>2. Indexed' = Indexed /\ frontier' = {} /\ pc' = "search"
    BY <1>5 DEF ReadEdges, Quiet, Indexed
  <2> QED
    BY <1>5, <2>1, <2>2 DEF ReadEdges, tables, Whole
<1>6. ASSUME UNCHANGED <<caps, edges, torn, index, adjacent, calm>>, pc = "search",
             pc' \in {"search", "answered"},
             calm => \A n \in frontier' : Final(n) \in Indexed
      PROVE  Whole'
  <2>1. Indexed' = Indexed
    BY <1>6 DEF Indexed
  <2> QED
    BY <1>6, <2>1 DEF Whole
<1>7. CASE Answer
  BY <1>6, <1>7 DEF Answer, tables, Whole
<1>8. ASSUME NEW s \in starts, Start(s) PROVE Whole'
  <2>1. Final([path |-> <<s>>, vias |-> <<>>]) = s
    BY DEF Final
  <2>2. s \in Indexed
    BY StartsAreIndexed DEF Quiet, Indexed
  <2> QED
    BY <1>6, <1>8, <2>1, <2>2 DEF Start, tables
<1>9. ASSUME NEW n \in frontier, Fail(n) PROVE Whole'
  <2>1. ~calm
    BY <1>9 DEF Fail, Taken, Whole
  <2> QED
    BY <1>9, <2>1 DEF Fail, tables, Whole
<1>10. ASSUME NEW n \in frontier, Prune(n) PROVE Whole'
  BY <1>6, <1>10 DEF Prune, Taken, tables, Whole
<1>11. ASSUME NEW n \in frontier, Finish(n) PROVE Whole'
  BY <1>6, <1>11 DEF Finish, Taken, tables, Whole
<1>12. ASSUME NEW n \in frontier, Expand(n) PROVE Whole'
  <2>1. ASSUME calm, NEW m \in Extensions(n) PROVE Final(m) \in Indexed
    <3>1. PICK e \in adjacent :
            m = [path |-> Append(n.path, e.to), vias |-> Append(n.vias, e.via)]
      BY DEF Extensions
    <3>2. n.path \in Seq(Slugs) /\ e.to \in Slugs
      BY DEF TypeOK, Chain, Edge
    <3>3. m.path = Append(n.path, e.to)
      BY <3>1
    <3>4. Len(m.path) = Len(n.path) + 1 /\ m.path[Len(n.path) + 1] = e.to
      BY <3>2, <3>3
    <3> QED
      BY <1>12, <2>1, <3>4 DEF Expand, Taken, Whole, Final
  <2> QED
    BY <1>6, <1>12, <2>1 DEF Expand, Taken, tables, Whole
<1>13. CASE UNCHANGED vars
  <2>1. Indexed' = Indexed
    BY <1>13 DEF vars, search, Indexed
  <2> QED
    BY <1>13, <2>1 DEF vars, tables, search, Whole
<1> QED
  BY <1>1, <1>2, <1>3, <1>4, <1>5, <1>7, <1>8, <1>9, <1>10, <1>11, <1>12, <1>13 DEF Next, Step

(* The search raises for a missing slug only when a populate's commits are *)
(* torn, pending or made since the request began.                          *)
THEOREM FailureNeedsPopulate == Spec => []FailsOnlyTorn
<1>1. Whole => FailsOnlyTorn
  BY DEF Whole, FailsOnlyTorn
<1> QED
  BY TypeInit, TypeNext, SoundInit, SoundNext, WholeInit, WholeNext, <1>1, PTL DEF Spec
----
(* Completeness: what is wanted is found, or still to come. *)

Wanted(n) ==
    /\ Walk(n) /\ Delivers(n)
    /\ \A s \in Hops(n) \ Terminals : Consented(s)

(* m is the beginning of n, as far as the search took it.                  *)
Begins(m, n) ==
    /\ Len(m.path) \in 1 .. Len(n.path)
    /\ Len(m.vias) = Len(m.path) - 1
    /\ \A i \in 1 .. Len(m.path) : m.path[i] = n.path[i]
    /\ \A i \in 1 .. Len(m.path) - 1 : m.vias[i] = n.vias[i]

Pending(n) == n.path[1] \in starts \/ \E m \in frontier : Begins(m, n)

Complete ==
    /\ pc = "indexed" => starts = StartSlugs(index)
    /\ pc = "search" => \A n \in Chain : Wanted(n) => n \in found \/ Pending(n)
    /\ pc = "answered" =>
          /\ \A n \in Chain : Wanted(n) => n \in found
          /\ answer \in Best({n \in found : Relevant(n)})

(* The reference enumerates the chains that are walks.                     *)
LEMMA WalksAreEnumerated ==
    ASSUME NEW n, Walk(n)
    PROVE  n \in AllChains <=> n \in Chain
<1>1. Len(n.path) \in Nat \ {0} /\ Len(n.vias) = Len(n.path) - 1 /\ Len(n.path) \in 1 .. MaxDepth
  BY PlannerAssumption DEF Walk
<1>2. ASSUME n \in Chain PROVE n \in AllChains
  <2>1. /\ n = [path |-> n.path, vias |-> n.vias]
        /\ n.path \in [1 .. Len(n.path) -> Slugs]
        /\ n.vias \in [1 .. Len(n.path) - 1 -> Types]
    BY <1>1, <1>2 DEF Chain
  <2>2. n \in [path : [1 .. Len(n.path) -> Slugs], vias : [1 .. Len(n.path) - 1 -> Types]]
    BY <2>1
  <2> QED
    BY <1>1, <2>2 DEF AllChains
<1>3. ASSUME n \in AllChains PROVE n \in Chain
  <2>1. PICK k \in 1 .. MaxDepth : n \in [path : [1 .. k -> Slugs], vias : [1 .. k - 1 -> Types]]
    BY <1>3 DEF AllChains
  <2>2. n.path \in Seq(Slugs) /\ n.vias \in Seq(Types)
    BY <2>1, PlannerAssumption
  <2> QED
    BY <2>1, <2>2 DEF Chain
<1> QED
  BY <1>2, <1>3

(* A beginning as long as the chain is the chain.                          *)
LEMMA WholeBeginning ==
    ASSUME NEW m \in Chain, NEW n \in Chain, Walk(n), Begins(m, n), Len(m.path) = Len(n.path)
    PROVE  m = n
<1>1. /\ m.path \in Seq(Slugs) /\ n.path \in Seq(Slugs) /\ m.vias \in Seq(Types) /\ n.vias \in Seq(Types)
      /\ m = [path |-> m.path, vias |-> m.vias] /\ n = [path |-> n.path, vias |-> n.vias]
  BY DEF Chain
<1>2. m.path = n.path
  BY <1>1, SeqEqual DEF Begins
<1>3. m.vias = n.vias
  BY <1>1, SeqEqual DEF Begins, Walk
<1> QED
  BY <1>1, <1>2, <1>3

(* No beginning of a wanted chain is pruned.                               *)
LEMMA WantedNotPruned ==
    ASSUME NEW n, NEW m, Wanted(n), Begins(m, n)
    PROVE  ~Pruned(m)
<1>1. Final(m) \in Hops(n)
  <2>1. m.path[Len(m.path)] = n.path[Len(m.path)] /\ Len(m.path) \in 1 .. Len(n.path)
    BY DEF Begins
  <2> QED
    BY <2>1 DEF Final, Hops
<1>2. ASSUME Consented(Final(m)) PROVE ~Excluded(index[Final(m)], goal.allow)
  BY <1>2 DEF Consented, Excluded
<1> QED
  BY <1>1, <1>2 DEF Wanted, Pruned

(* A beginning of a wanted chain ends the search there only as a whole.    *)
LEMMA WantedEnds ==
    ASSUME NEW n \in Chain, NEW m \in Chain, Wanted(n), Begins(m, n)
    PROVE  Ends(m) <=> m = n
<1>1. Len(m.path) \in 1 .. Len(n.path) /\ Len(n.path) \in Nat /\ Walk(n)
  BY DEF Begins, Wanted, Chain
<1>2. Final(m) = n.path[Len(m.path)]
  BY <1>1 DEF Final, Begins
<1>3. CASE Len(m.path) = Len(n.path)
  <2>1. m = n
    BY <1>1, <1>3, WholeBeginning
  <2> QED
    BY <2>1 DEF Wanted, Delivers, Ends
<1>4. CASE Len(m.path) # Len(n.path)
  <2>1. Len(m.path) \in 1 .. Len(n.path) - 1
    BY <1>1, <1>4
  <2> QED
    BY <1>1, <1>2, <1>4, <2>1 DEF Walk, Ends
<1> QED
  BY <1>3, <1>4

(* The next beginning of a wanted chain is among the extensions.           *)
LEMMA WantedExtends ==
    ASSUME TypeOK, NEW n \in Chain, NEW m \in Chain, Wanted(n), Begins(m, n), m # n
    PROVE  \E x \in Extensions(m) : Begins(x, n)
<1> DEFINE k == Len(m.path)
           e == [from |-> n.path[k], to |-> n.path[k + 1], via |-> n.vias[k]]
           x == [path |-> Append(m.path, e.to), vias |-> Append(m.vias, e.via)]
<1>1. /\ Walk(n) /\ k \in 1 .. Len(n.path) /\ Len(n.path) \in 1 .. MaxDepth
      /\ Len(m.vias) = k - 1 /\ k \in Nat /\ Len(n.path) \in Nat
  BY PlannerAssumption DEF Begins, Wanted, Walk, Chain
<1>2. k # Len(n.path)
  BY <1>1, WholeBeginning
<1>3. k \in 1 .. Len(n.path) - 1 /\ k + 1 \in 1 .. Len(n.path) /\ k < MaxDepth
  BY <1>1, <1>2, PlannerAssumption
<1>4. e \in adjacent /\ e.to \in Slugs /\ e.via \in Types
  <2>1. e \in adjacent
    BY <1>1, <1>3 DEF Walk
  <2> QED
    BY <2>1 DEF TypeOK, Edge
<1>5. e.from = Final(m)
  BY <1>1 DEF Begins, Final
<1>6. e.to \notin Hops(m)
  <2>1. \A i \in 1 .. k : m.path[i] = n.path[i] /\ i \in 1 .. Len(n.path) /\ i # k + 1
    BY <1>1 DEF Begins
  <2>2. \A i \in 1 .. k : n.path[i] # n.path[k + 1]
    BY <1>1, <1>3, <2>1 DEF Walk
  <2> QED
    BY <2>1, <2>2 DEF Hops
<1>7. x \in Extensions(m)
  BY <1>3, <1>4, <1>5, <1>6 DEF Extensions
<1>8. /\ Len(x.path) = k + 1 /\ Len(x.vias) = k
      /\ \A i \in 1 .. k : x.path[i] = m.path[i]
      /\ x.path[k + 1] = n.path[k + 1]
      /\ \A i \in 1 .. k - 1 : x.vias[i] = m.vias[i]
      /\ x.vias[k] = n.vias[k]
  <2>1. m.path \in Seq(Slugs) /\ m.vias \in Seq(Types) /\ n.path[k + 1] \in Slugs /\ n.vias[k] \in Types
    BY <1>4 DEF Chain
  <2>2. x.path = Append(m.path, n.path[k + 1]) /\ x.vias = Append(m.vias, n.vias[k])
    OBVIOUS
  <2> HIDE DEF x, e
  <2> QED
    BY <1>1, <2>1, <2>2
<1>9. Begins(x, n)
  <2> HIDE DEF x, e
  <2>1. \A i \in 1 .. k + 1 : x.path[i] = n.path[i]
    <3>1. \A i \in 1 .. k + 1 : i \in 1 .. k \/ i = k + 1
      BY <1>1
    <3> QED
      BY <1>8, <3>1 DEF Begins
  <2>2. \A i \in 1 .. k : x.vias[i] = n.vias[i]
    <3>1. \A i \in 1 .. k : i \in 1 .. k - 1 \/ i = k
      BY <1>1
    <3> QED
      BY <1>8, <3>1 DEF Begins
  <2>3. Len(x.path) \in 1 .. Len(n.path) /\ Len(x.vias) = Len(x.path) - 1
    BY <1>1, <1>3, <1>8
  <2> HIDE DEF k
  <2>4. Len(x.path) = k + 1 /\ Len(x.path) - 1 = k
    BY <1>1, <1>8
  <2> QED
    BY <2>1, <2>2, <2>3, <2>4 DEF Begins
<1> QED
  BY <1>7, <1>9

(* What is wanted does not change during the search.                       *)
LEMMA WantedStays ==
    ASSUME UNCHANGED <<goal, index, adjacent>>, NEW n
    PROVE  (Wanted(n)' <=> Wanted(n)) /\ (Relevant(n)' <=> Relevant(n))
<1>1. Terminals' = Terminals /\ Indexed' = Indexed /\ (Acting' <=> Acting)
  BY DEF Terminals, Performers, Indexed, Acting
<1>2. StartSlugs(index)' = StartSlugs(index)
  BY DEF StartSlugs, Performers, PureAction, Acting
<1>3. \A s : Consented(s)' <=> Consented(s)
  BY DEF Consented
<1>4. (Walk(n)' <=> Walk(n)) /\ (Delivers(n)' <=> Delivers(n))
  BY <1>1, <1>2 DEF Walk, Delivers
<1>5. Producers(n)' = Producers(n)
  BY <1>1 DEF Producers
<1> QED
  BY <1>1, <1>3, <1>4, <1>5 DEF Wanted, Relevant

(* The chains kept by the search are wanted.                               *)
LEMMA KeptIsWanted ==
    ASSUME NEW n, Kept(n)
    PROVE  Wanted(n)
<1>1. Walk(n) /\ Len(n.path) \in Nat \ {0}
  BY PlannerAssumption DEF Kept, Walk
<1>2. \A s \in Hops(n) : s \in Earlier(n) \/ s = Final(n)
  <2>1. \A i \in 1 .. Len(n.path) : i \in 1 .. Len(n.path) - 1 \/ i = Len(n.path)
    BY <1>1
  <2> QED
    BY <2>1 DEF Hops, Earlier, Final
<1> QED
  BY <1>1, <1>2 DEF Kept, Wanted

(* Every step keeps the wanted chains found or still to come.              *)
LEMMA CompleteNext == TypeOK /\ Quiet /\ Complete /\ [Next]_vars => Complete'
<1> SUFFICES ASSUME TypeOK, Quiet, Complete, [Next]_vars PROVE Complete'
  OBVIOUS
<1>1. ASSUME UNCHANGED search PROVE Complete'
  <2>1. UNCHANGED <<goal, index, adjacent, pc, starts, frontier, found, answer>>
    BY <1>1 DEF search
  <2>2. \A n : (Wanted(n)' <=> Wanted(n)) /\ (Relevant(n)' <=> Relevant(n))
    BY <2>1, WantedStays
  <2>3. StartSlugs(index)' = StartSlugs(index) /\ \A n : Pending(n)' <=> Pending(n)
    BY <2>1, JudgedStays DEF Pending
  <2>4. \A S : Best(S)' = Best(S)
    BY <2>1 DEF Best, Before, EffectCount, Unverified
  <2>5. {n \in found : Relevant(n)}' = {n \in found : Relevant(n)}
    BY <2>1, <2>2
  <2> HIDE DEF Best, Wanted, Relevant, Pending
  <2> QED
    BY <2>1, <2>2, <2>3, <2>4, <2>5 DEF Complete
<1>2. CASE ReadCaps
  <2>1. goal' = goal /\ pc' \in {"refused", "indexed"}
    BY <1>2 DEF ReadCaps
  <2>2. pc' = "indexed" => starts' = StartSlugs(index')
    BY <1>2 DEF ReadCaps
  <2>3. StartSlugs(index)' = StartSlugs(index')
    BY <2>1 DEF StartSlugs, Performers, PureAction, Acting
  <2> QED
    BY <2>1, <2>2, <2>3 DEF Complete
<1>3. CASE ReadEdges
  <2>1. starts' = StartSlugs(index)'
    <3>1. starts' = starts /\ goal' = goal /\ index' = index /\ pc = "indexed"
      BY <1>3 DEF ReadEdges
    <3>2. StartSlugs(index)' = StartSlugs(index)
      BY <3>1 DEF StartSlugs, Performers, PureAction, Acting
    <3> QED
      BY <3>1, <3>2 DEF Complete
  <2>2. \A n \in Chain : Wanted(n)' => Pending(n)'
    BY <2>1 DEF Wanted, Walk, Pending
  <2> QED
    BY <1>3, <2>2 DEF ReadEdges, Complete
<1>4. ASSUME UNCHANGED <<goal, index, adjacent>>, pc = "search", pc' = "search",
             \A n \in Chain : Wanted(n) => n \in found' \/ Pending(n)'
      PROVE  Complete'
  <2>1. \A n : Wanted(n)' <=> Wanted(n)
    BY <1>4, WantedStays
  <2> QED
    BY <1>4, <2>1 DEF Complete
<1>5. CASE Answer
  <2>1. UNCHANGED <<goal, index, adjacent, found>> /\ pc' = "answered" /\ pc = "search"
    BY <1>5 DEF Answer
  <2>2. \A n : (Wanted(n)' <=> Wanted(n)) /\ (Relevant(n)' <=> Relevant(n))
    BY <2>1, WantedStays
  <2>3. \A n \in Chain : Wanted(n) => n \in found
    BY <1>5, <2>1 DEF Answer, Complete, Pending
  <2>4. answer' \in Best({n \in found : Relevant(n)})
    BY <1>5 DEF Answer
  <2>5. {n \in found : Relevant(n)}' = {n \in found : Relevant(n)}
    BY <2>1, <2>2
  <2>6. \A S : Best(S)' = Best(S)
    BY <2>1 DEF Best, Before, EffectCount, Unverified
  <2> HIDE DEF Best, Wanted, Relevant
  <2> QED
    BY <2>1, <2>2, <2>3, <2>4, <2>5, <2>6 DEF Complete
<1>6. ASSUME NEW s \in starts, Start(s) PROVE Complete'
  <2> SUFFICES ASSUME NEW n \in Chain, Wanted(n) PROVE n \in found' \/ Pending(n)'
    BY <1>4, <1>6 DEF Start
  <2>1. n \in found \/ n.path[1] \in starts
    BY <1>6 DEF Start, Complete, Pending
  <2>2. CASE n.path[1] = s
    <3> DEFINE m == [path |-> <<s>>, vias |-> <<>>]
    <3>1. Len(n.path) \in Nat \ {0}
      BY PlannerAssumption DEF Wanted, Walk
    <3>2. m.path[1] = n.path[1] /\ Len(m.path) = 1 /\ Len(m.vias) = 0
      BY <2>2
    <3>3. m \in frontier'
      BY <1>6 DEF Start
    <3> HIDE DEF m
    <3>4. Begins(m, n)
      BY <3>1, <3>2 DEF Begins
    <3> QED
      BY <3>3, <3>4 DEF Pending
  <2> QED
    BY <1>6, <2>1, <2>2 DEF Start, Pending
<1>7. ASSUME NEW n \in frontier, Fail(n) PROVE Complete'
  BY <1>7 DEF Fail, Complete
<1>8. ASSUME NEW m \in frontier, Prune(m) PROVE Complete'
  <2>1. \A n \in Chain : Wanted(n) => n \in found' \/ Pending(n)'
    BY <1>8, WantedNotPruned DEF Prune, Taken, Complete, Pending
  <2> QED
    BY <1>4, <1>8, <2>1 DEF Prune, Taken
<1>9. ASSUME NEW m \in frontier, Finish(m) PROVE Complete'
  <2> SUFFICES ASSUME NEW n \in Chain, Wanted(n) PROVE n \in found' \/ Pending(n)'
    BY <1>4, <1>9 DEF Finish, Taken
  <2>1. m \in Chain /\ (n \in found \/ Pending(n))
    BY <1>9 DEF Finish, Taken, TypeOK, Complete
  <2>2. CASE Begins(m, n)
    <3>1. m = n
      BY <1>9, <2>1, <2>2, WantedEnds DEF Finish
    <3>2. Meets(n)
      BY DEF Wanted, Delivers, Meets
    <3> QED
      BY <1>9, <3>1, <3>2 DEF Finish
  <2> QED
    BY <1>9, <2>1, <2>2 DEF Finish, Pending
<1>10. ASSUME NEW m \in frontier, Expand(m) PROVE Complete'
  <2> SUFFICES ASSUME NEW n \in Chain, Wanted(n) PROVE n \in found' \/ Pending(n)'
    BY <1>4, <1>10 DEF Expand, Taken
  <2>1. m \in Chain /\ (n \in found \/ Pending(n))
    BY <1>10 DEF Expand, Taken, TypeOK, Complete
  <2>2. CASE Begins(m, n)
    <3>1. m # n
      BY <1>10, <2>1, <2>2, WantedEnds DEF Expand
    <3>2. \E x \in Extensions(m) : Begins(x, n)
      BY <2>1, <2>2, <3>1, WantedExtends
    <3> QED
      BY <1>10, <3>2 DEF Expand, Pending
  <2> QED
    BY <1>10, <2>1, <2>2 DEF Expand, Pending
<1>11. CASE PopulateRows
  BY <1>1, <1>11 DEF PopulateRows
<1>12. CASE PopulateEdges
  BY <1>1, <1>12 DEF PopulateEdges
<1>13. ASSUME NEW s \in Slugs, Disable(s) PROVE Complete'
  BY <1>1, <1>13 DEF Disable
<1>14. CASE UNCHANGED vars
  BY <1>1, <1>14 DEF vars
<1> QED
  BY <1>2, <1>3, <1>5, <1>6, <1>7, <1>8, <1>9, <1>10, <1>11, <1>12, <1>13, <1>14 DEF Next, Step

(* The answer is the best of all the chains that walk the graph that was   *)
(* read, deliver the goal, are consented to and match its terms: the       *)
(* search misses none, for every catalog, goal, depth and cap.             *)
THEOREM BestAnswer == Spec => []AnswerIsBest
<1>1. TypeOK /\ Sound /\ Complete => AnswerIsBest
  <2> SUFFICES ASSUME TypeOK, Sound, Complete, pc = "answered" PROVE AnswerIsBest
    BY DEF AnswerIsBest
  <2> DEFINE All == {n \in AllChains :
                        /\ Walk(n) /\ Delivers(n) /\ Relevant(n)
                        /\ \A s \in Hops(n) \ Terminals : Consented(s)}
             Mine == {n \in found : Relevant(n)}
  <2>1. \A n : n \in All <=> n \in AllChains /\ Wanted(n) /\ Relevant(n)
    BY DEF Wanted
  <2>2. \A n : Wanted(n) => (n \in AllChains <=> n \in Chain)
    BY WalksAreEnumerated DEF Wanted
  <2>3. \A n : n \in found <=> n \in Chain /\ Wanted(n)
    BY KeptIsWanted DEF TypeOK, Sound, Complete
  <2>4. \A n : n \in Mine <=> n \in found /\ Relevant(n)
    OBVIOUS
  <2>5. answer \in Best(Mine)
    BY DEF Complete
  <2>6. AnswerIsBest <=> answer \in Best(All)
    BY DEF AnswerIsBest
  <2> HIDE DEF All, Mine, Best, Wanted, Relevant
  <2>7. All = Mine
    BY <2>1, <2>2, <2>3, <2>4
  <2> QED
    BY <2>5, <2>6, <2>7
<1>2. Init => Complete
  BY DEF Init, Complete
<1> QED
  BY TypeInit, TypeNext, SoundInit, SoundNext, CompleteNext, <1>1, <1>2, PTL DEF Spec
----
(* The probe. *)

(* Every hop of a candidate was indexed, from the rows as they still are   *)
(* while it is calm.                                                       *)
Grounded ==
    /\ calm /\ pc # "asked" => \A s \in Indexed : index[s] = caps[s]
    /\ \A n \in found : Hops(n) \subseteq Indexed

(* Every step keeps the candidates grounded.                               *)
LEMMA GroundedNext == TypeOK /\ Quiet /\ Sound /\ Grounded /\ [Next]_vars => Grounded'
<1> SUFFICES ASSUME TypeOK, Quiet, Sound, Grounded, [Next]_vars PROVE Grounded'
  OBVIOUS
<1>1. ASSUME UNCHANGED <<caps, index>>, calm' => calm, pc # "asked" \/ pc' = "asked",
             \A n \in found' : Hops(n) \subseteq Indexed
      PROVE  Grounded'
  <2>1. Indexed' = Indexed
    BY <1>1 DEF Indexed
  <2> QED
    BY <1>1, <2>1 DEF Grounded, Hops
<1>2. CASE ReadCaps
  <2> DEFINE rows == [s \in Slugs |-> IF s \in disabled THEN {} ELSE caps[s]]
  <2>1. index' = rows /\ caps' = caps /\ found' = {}
    BY <1>2 DEF ReadCaps, tables, Quiet
  <2>2. \A s \in Slugs : index'[s] # {} => index'[s] = caps'[s]
    BY <2>1
  <2> QED
    BY <2>1, <2>2 DEF Grounded, Indexed
<1>3. CASE PopulateRows
  <2>1. Indexed' = Indexed /\ found' = found /\ ~calm'
    BY <1>3 DEF PopulateRows, search, Indexed
  <2> QED
    BY <2>1 DEF Grounded, Hops
<1>4. ASSUME NEW m \in frontier, Finish(m) PROVE Grounded'
  <2>1. Judged(m) /\ Final(m) \in Indexed
    BY <1>4 DEF Finish, Sound
  <2>2. Hops(m) \subseteq Indexed
    <3>1. Len(m.path) \in Nat \ {0} /\ Earlier(m) \subseteq Indexed
      BY <2>1, PlannerAssumption DEF Judged, Walk
    <3>2. \A i \in 1 .. Len(m.path) : i \in 1 .. Len(m.path) - 1 \/ i = Len(m.path)
      BY <3>1
    <3> QED
      BY <2>1, <3>1, <3>2 DEF Hops, Earlier, Final
  <2>3. \A n \in found' : Hops(n) \subseteq Indexed
    BY <1>4, <2>2 DEF Finish, Grounded
  <2> QED
    BY <1>1, <1>4, <2>3 DEF Finish, Taken, tables
<1>5. CASE PopulateEdges
  BY <1>1, <1>5 DEF PopulateEdges, search, Grounded
<1>6. ASSUME NEW s \in Slugs, Disable(s) PROVE Grounded'
  BY <1>1, <1>6 DEF Disable, search, Grounded
<1>7. CASE ReadEdges
  BY <1>1, <1>7 DEF ReadEdges, tables, Grounded
<1>8. CASE Answer
  BY <1>1, <1>8 DEF Answer, tables, Grounded
<1>9. ASSUME NEW s \in starts, Start(s) PROVE Grounded'
  BY <1>1, <1>9 DEF Start, tables, Grounded
<1>10. ASSUME NEW m \in frontier, Fail(m) PROVE Grounded'
  BY <1>1, <1>10 DEF Fail, Taken, tables, Grounded
<1>11. ASSUME NEW m \in frontier, Prune(m) PROVE Grounded'
  BY <1>1, <1>11 DEF Prune, Taken, tables, Grounded
<1>12. ASSUME NEW m \in frontier, Expand(m) PROVE Grounded'
  BY <1>1, <1>12 DEF Expand, Taken, tables, Grounded
<1>13. CASE UNCHANGED vars
  BY <1>1, <1>13 DEF vars, tables, search, Grounded
<1> QED
  BY <1>2, <1>3, <1>4, <1>5, <1>6, <1>7, <1>8, <1>9, <1>10, <1>11, <1>12, <1>13 DEF Next, Step

(* While no populate interferes the probe and the plan agree: an excluded  *)
(* slug is planned only as the action, one without rows never.             *)
THEOREM ProbeAgrees == Spec => []ProbeExplains
<1>1. TypeOK /\ Quiet /\ Sound /\ Grounded => ProbeExplains
  <2> SUFFICES ASSUME Quiet, Sound, Grounded, pc = "answered", calm, NEW s \in Slugs
               PROVE  /\ HopExcluded(s) /\ Reachable(s) => s \in Terminals
                      /\ caps[s] = {} => HopExcluded(s) /\ ~Reachable(s)
    BY DEF ProbeExplains
  <2>1. ASSUME Reachable(s)
        PROVE  caps[s] # {} /\ index[s] = caps[s] /\ (Consented(s) \/ s \in Terminals)
    <3>1. PICK n \in found : s \in Hops(n)
      BY <2>1 DEF Reachable, Quiet
    <3>2. Wanted(n)
      BY KeptIsWanted DEF Sound
    <3> QED
      BY <3>1, <3>2 DEF Grounded, Indexed, Wanted
  <2>2. Consented(s) => ~Excluded(index[s], goal.allow)
    BY DEF Consented, Excluded
  <2> QED
    BY <2>1, <2>2 DEF HopExcluded
<1>2. Init => Grounded
  BY DEF Init, Grounded
<1> QED
  BY TypeInit, TypeNext, SoundInit, SoundNext, GroundedNext, <1>1, <1>2, PTL DEF Spec
====
