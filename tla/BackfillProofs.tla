---- MODULE BackfillProofs ----
(***************************************************************************)
(* What a backfill writes, for every catalog, source, answer of the router *)
(* and number of runs: the evidence of the sources is kept, an outage      *)
(* condemns no row, and a commit was judged.                               *)
(***************************************************************************)
EXTENDS Backfill, TLAPS

(* A capability claims no less than its source proves. *)
Evident(s, cap) ==
    /\ cap.owner \in {"static", "llm"} => s \in Python /\ FileOutputs(Source[s]) \subseteq cap.outs
    /\ cap.owner = "static" => cap = Extracted(Source[s]) /\ cap.ins # {} /\ cap.outs # {}

(* A proposal is a text with no capability or an evident one. *)
Sensible(s, p) == p \in Proposal /\ (p.cap # None => s \in Python /\ p.cap \in Capability /\ Evident(s, p.cap))

Proposals(ps) == ps \in [DOMAIN ps -> Proposal] /\ DOMAIN ps \subseteq Slugs /\ \A s \in DOMAIN ps : Sensible(s, ps[s])
Opinions(vs)  == vs \in [DOMAIN vs -> Verdict] /\ DOMAIN vs \subseteq Slugs

(* What the runs know. *)
LocalOK ==
    /\ lock \in Runs \cup {None}
    /\ pc \in [Runs -> Phases]
    /\ kind \in [Runs -> {"dry", "commit", "replay"}]
    /\ props = [r \in Runs |-> props[r]] /\ \A r \in Runs : Proposals(props[r])
    /\ verdicts = [r \in Runs |-> verdicts[r]] /\ \A r \in Runs : Opinions(verdicts[r])
    /\ calibrated \in [Runs -> BOOLEAN]
    /\ first \in [Runs -> Slugs \cup {None}]
    /\ judged = [r \in Runs |-> judged[r]]

(* The tables and the files: every proposal there is sensible, and no      *)
(* verdict is an outage.                                                   *)
TablesOK(clis, typed) ==
    /\ clis \in [DOMAIN clis -> CliRow] /\ DOMAIN clis \subseteq Slugs
    /\ typed \in [DOMAIN typed -> CapRow] /\ DOMAIN typed \subseteq Slugs
    /\ \A s \in DOMAIN typed : Evident(s, typed[s].cap)

SharedOK ==
    /\ TablesOK(cli, caps)
    /\ changes \in Nat
    /\ proposalsFile = None \/ Proposals(proposalsFile)
    /\ reportFile = None \/ Opinions(reportFile)

TypeOK == LocalOK /\ SharedOK

(* What a run knows in each phase.                                         *)
Phased(r) ==
    /\ pc[r] \in {"load", "match"} => kind[r] = "replay"
    /\ pc[r] = "verdicts" => first[r] \in Judged(verdicts[r])
    /\ pc[r] \in {"look", "verdicts", "proposals", "report", "gate", "wait", "persist", "commit"} =>
          /\ Covers(props[r], verdicts[r])
          /\ kind[r] = "commit" => judged[r] = props[r]
    /\ pc[r] \in {"wait", "persist", "commit"} => Passes(r)

AllPhased == \A r \in Runs : Phased(r)
----
(* What is generated. *)

(* What the extractor reads off a program is typed, and its outputs hold   *)
(* the files the program provably writes.                                  *)
LEMMA ExtractorTypes ==
    ASSUME NEW p \in Program
    PROVE  /\ FileOutputs(p) \subseteq FilePorts /\ FileOutputs(p) \subseteq Outputs(p)
           /\ Inputs(p) \subseteq Ports /\ Outputs(p) \subseteq Ports /\ SideEffect(p) \in Effects
           /\ Extracted(p) \in Capability
<1>1. FileOutputs(p) \subseteq FilePorts
  <2>1. \A c \in p.calls : c.port # None => c.port \in FilePorts
    BY DEF Program, Call
  <2> QED
    BY <2>1, ExtractorAssumption DEF FileOutputs, Calls
<1>2. FileOutputs(p) \subseteq Outputs(p)
  BY DEF Outputs, Written, FileOutputs
<1>3. Inputs(p) \subseteq Ports
  BY DEF Inputs, ArgType, Program, Arg, Ports, ArgTypes
<1>4. Written(p) \subseteq Ports
  BY <1>1 DEF Written, Ports, ArgTypes
<1>5. Outputs(p) \subseteq Ports
  BY <1>4 DEF Outputs, Ports, ArgTypes
<1>6. SideEffect(p) \in Effects
  BY DEF SideEffect, Effects, Program, Parsed
<1> QED
  BY <1>1, <1>2, <1>3, <1>5, <1>6 DEF Extracted, Capability, Owners

(* Adding the file outputs adds the file outputs.                          *)
LEMMA FileOutputsAdded ==
    ASSUME NEW p \in Program, NEW cap \in Capability
    PROVE  /\ WithFileOutputs(cap, p) \in Capability
           /\ FileOutputs(p) \subseteq WithFileOutputs(cap, p).outs
           /\ WithFileOutputs(cap, p).owner = cap.owner
<1>1. FileOutputs(p) \subseteq Ports
  BY ExtractorTypes DEF Ports
<1> QED
  BY <1>1 DEF WithFileOutputs, Capability

(* Every generated capability is evident: read off the source as a whole,  *)
(* or the router's with the files the source proves.                       *)
LEMMA GeneratedEvident ==
    ASSUME NEW s \in Python, NEW cap \in Capabilities(s)
    PROVE  cap \in Capability /\ Evident(s, cap)
<1>1. Source[s] \in Program
  BY BackfillAssumption
<1>2. CASE Fallback(s)
  <2>1. PICK c \in Inferred : cap = WithFileOutputs(c, Source[s])
    BY <1>2 DEF Capabilities
  <2>2. c \in Capability /\ c.owner = "llm"
    BY BackfillAssumption DEF Inferred, Nothing, Capability, Owners, Effects
  <2> QED
    BY <1>1, <2>1, <2>2, FileOutputsAdded DEF Evident
<1>3. CASE ~Fallback(s)
  <2> DEFINE c == Extracted(Source[s])
  <2>1. cap = WithFileOutputs(c, Source[s])
    BY <1>3 DEF Capabilities
  <2>2. c \in Capability /\ c.ins # {} /\ c.outs # {} /\ FileOutputs(Source[s]) \subseteq c.outs
    BY <1>1, <1>3, ExtractorTypes DEF Fallback, Extracted
  <2>3. cap = c
    <3>1. c.outs \cup FileOutputs(Source[s]) = c.outs
      BY <2>2
    <3> HIDE DEF c
    <3> QED
      BY <2>1, <2>2, <3>1 DEF WithFileOutputs, Capability
  <2> QED
    BY <2>2, <2>3 DEF Evident
<1> QED
  BY <1>2, <1>3

(* A repair of a sensible proposal is sensible.                            *)
LEMMA RepairsSensible ==
    ASSUME NEW s \in Slugs, NEW p, Sensible(s, p), NEW q \in RepairsOf(s, p)
    PROVE  Sensible(s, q)
<1>1. q \in [text : Texts, cap : IF p.cap = None THEN {None} ELSE Mended(p.cap, Source[s])]
  BY DEF RepairsOf
<1>2. CASE p.cap = None
  BY <1>1, <1>2 DEF Sensible, Proposal
<1>3. CASE p.cap # None
  <2>1. s \in Python /\ p.cap \in Capability /\ Source[s] \in Program
    BY <1>3, BackfillAssumption DEF Sensible
  <2>2. q.cap \in Mended(p.cap, Source[s]) /\ q.text \in Texts /\ q = [text |-> q.text, cap |-> q.cap]
    BY <1>1, <1>3
  <2>3. PICK r \in Replies :
          \E c \in [owner : {"llm"}, ins : {p.cap.ins, r.ins}, outs : {p.cap.outs, r.outs},
                    effect : {p.cap.effect, r.effect}] : q.cap = WithFileOutputs(c, Source[s])
    BY <2>2 DEF Mended
  <2>4. PICK c \in [owner : {"llm"}, ins : {p.cap.ins, r.ins}, outs : {p.cap.outs, r.outs},
                    effect : {p.cap.effect, r.effect}] : q.cap = WithFileOutputs(c, Source[s])
    BY <2>3
  <2>5. c \in Capability /\ c.owner = "llm"
    BY <2>1, <2>4, BackfillAssumption DEF Capability, Owners
  <2>6. q.cap \in Capability /\ Evident(s, q.cap)
    BY <2>1, <2>4, <2>5, FileOutputsAdded DEF Evident
  <2> QED
    BY <2>1, <2>2, <2>6 DEF Sensible, Proposal
<1> QED
  BY <1>2, <1>3

(* What a row adopts is sensible, judged as it is, with a verdict.         *)
LEMMA ResultsSensible ==
    ASSUME NEW s \in Slugs, NEW a \in Results[s]
    PROVE  Sensible(s, a.row) /\ a.verdict \in Verdict /\ a.judged = a.row
<1>1. PICK p \in Generated(s) : \E v \in CheckRow(p) : a \in Adoptable(s, p, v)
  BY DEF Results
<1>2. Sensible(s, p)
  <2>1. p.text \in Texts /\ p.cap \in Capabilities(s) /\ p = [text |-> p.text, cap |-> p.cap]
    BY <1>1, BackfillAssumption DEF Generated, Described
  <2>2. CASE s \in Python
    <3>1. p.cap \in Capability /\ Evident(s, p.cap)
      BY <2>1, <2>2, GeneratedEvident
    <3> QED
      BY <2>1, <2>2, <3>1 DEF Sensible, Proposal
  <2>3. CASE s \notin Python
    BY <2>1, <2>3 DEF Capabilities, Sensible, Proposal
  <2> QED
    BY <2>2, <2>3
<1>3. \A x : CheckRow(x) \subseteq Verdict /\ Outcome("ok") \in Verdict
  <2>1. \A answer : Outcome(answer) \in Verdict
    BY Zenon DEF Outcome, Verdict
  <2> QED
    BY <2>1 DEF CheckRow
<1>4. PICK v \in CheckRow(p) : a \in Adoptable(s, p, v)
  BY <1>1
<1>5. CASE a = [row |-> p, verdict |-> v, judged |-> p]
  BY <1>2, <1>3, <1>5
<1>6. ASSUME NEW q \in RepairsOf(s, p), a = [row |-> q, verdict |-> Outcome("ok"), judged |-> q]
      PROVE  Sensible(s, a.row) /\ a.verdict \in Verdict /\ a.judged = a.row
  BY <1>2, <1>3, <1>6, RepairsSensible
<1> QED
  BY <1>4, <1>5, <1>6 DEF Adoptable
----
(* Type correctness. *)

(* A run that writes a field of its own keeps the types of the others.     *)
LEMMA OwnField ==
    ASSUME NEW f, f = [r \in Runs |-> f[r]], NEW r \in Runs, NEW x
    PROVE  /\ [f EXCEPT ![r] = x] = [q \in Runs |-> IF q = r THEN x ELSE f[q]]
           /\ [f EXCEPT ![r] = x][r] = x
           /\ \A q \in Runs \ {r} : [f EXCEPT ![r] = x][q] = f[q]
BY Zenon

(* The empty sets of proposals and verdicts.                               *)
LEMMA EmptyTypes == Proposals(Empty) /\ Opinions(Empty)
BY DEF Proposals, Opinions, Empty

(* Every row of the two tables is typed.                                   *)
LEMMA RowTypes ==
    ASSUME SharedOK
    PROVE  /\ \A s \in DOMAIN cli : s \in Slugs /\ cli[s] \in CliRow
           /\ \A s \in DOMAIN caps : s \in Slugs /\ caps[s] \in CapRow
           /\ \A s : CapOf(s) \in CapRow /\ Evident(s, CapOf(s).cap)
<1>1. [cap |-> EmptyCap, verdict |-> None] \in CapRow /\ \A s : Evident(s, EmptyCap)
  BY DEF EmptyCap, CapRow, Capability, Owners, Effects, Evident
<1> QED
  BY <1>1 DEF SharedOK, TablesOK, CapOf

(* Init *)
LEMMA TypeInit == Init => TypeOK
<1> SUFFICES ASSUME Init PROVE TypeOK
  OBVIOUS
<1>1. LocalOK
  <2>1. props = [r \in Runs |-> props[r]] /\ verdicts = [r \in Runs |-> verdicts[r]] /\ judged = [r \in Runs |-> judged[r]]
    BY DEF Init
  <2>2. \A r \in Runs : Proposals(props[r]) /\ Opinions(verdicts[r])
    BY EmptyTypes DEF Init
  <2>3. lock \in Runs \cup {None} /\ pc \in [Runs -> Phases] /\ kind \in [Runs -> {"dry", "commit", "replay"}]
        /\ calibrated \in [Runs -> BOOLEAN] /\ first \in [Runs -> Slugs \cup {None}]
    BY DEF Init, Phases
  <2> QED
    BY <2>1, <2>2, <2>3 DEF LocalOK
<1>2. cli \in [DOMAIN cli -> CliRow] /\ DOMAIN cli \subseteq Slugs
  BY BackfillAssumption DEF Init, CliRow, Owners
<1>3. caps \in [DOMAIN caps -> CapRow] /\ DOMAIN caps = {} /\ changes \in Nat
  BY DEF Init, Empty
<1>4. proposalsFile = None \/ Proposals(proposalsFile)
  <2> SUFFICES ASSUME proposalsFile \in Earlier PROVE Proposals(proposalsFile)
    BY DEF Init
  <2>1. \A s \in DOMAIN proposalsFile : Sensible(s, proposalsFile[s])
    BY EarlierAssumption, ResultsSensible
  <2> QED
    BY <2>1, EarlierAssumption DEF Proposals
<1>5. reportFile = None \/ Opinions(reportFile)
  <2>1. Outcome("ok") \in Verdict
    BY DEF Outcome, Verdict
  <2>2. CASE proposalsFile \in Earlier /\ reportFile = [s \in DOMAIN proposalsFile |-> Outcome("ok")]
    <3>1. DOMAIN proposalsFile \subseteq Slugs
      BY <2>2, EarlierAssumption
    <3> QED
      BY <2>1, <2>2, <3>1 DEF Opinions
  <2> QED
    BY <2>2 DEF Init
<1> QED
  BY <1>1, <1>2, <1>3, <1>4, <1>5 DEF TypeOK, SharedOK, TablesOK

(* A run that ends forgets everything.                                     *)
LEMMA EndTypes ==
    ASSUME LocalOK, NEW r \in Runs, End(r)
    PROVE  LocalOK'
<1>1. pc' \in [Runs -> Phases] /\ kind' \in [Runs -> {"dry", "commit", "replay"}] /\ lock' \in Runs \cup {None}
  BY DEF End, Goto, LocalOK, Phases
<1>2. calibrated' \in [Runs -> BOOLEAN] /\ first' \in [Runs -> Slugs \cup {None}]
  BY DEF End, LocalOK
<1>3. props' = [q \in Runs |-> IF q = r THEN Empty ELSE props[q]]
  BY OwnField, Zenon DEF End, LocalOK
<1>4. verdicts' = [q \in Runs |-> IF q = r THEN Empty ELSE verdicts[q]]
  BY OwnField, Zenon DEF End, LocalOK
<1>5. judged' = [q \in Runs |-> IF q = r THEN Empty ELSE judged[q]]
  BY OwnField, Zenon DEF End, LocalOK
<1>6. props' = [q \in Runs |-> props'[q]] /\ verdicts' = [q \in Runs |-> verdicts'[q]] /\ judged' = [q \in Runs |-> judged'[q]]
  BY <1>3, <1>4, <1>5
<1>7. \A q \in Runs : Proposals(props'[q]) /\ Opinions(verdicts'[q])
  BY <1>3, <1>4, EmptyTypes DEF LocalOK
<1> QED
  BY <1>1, <1>2, <1>6, <1>7 DEF LocalOK, Proposals, Opinions

(* What a run proposes, and the verdicts, are typed and belong together.   *)
LEMMA Proposed ==
    ASSUME TypeOK, NEW adopted \in [Enabled -> UNION {Results[s] : s \in Enabled}],
           \A s \in Enabled : adopted[s] \in Results[s]
    PROVE  /\ Proposals([s \in Enabled |-> adopted[s].row])
           /\ Opinions([s \in Enabled |-> adopted[s].verdict])
           /\ [s \in Enabled |-> adopted[s].judged] = [s \in Enabled |-> adopted[s].row]
<1>1. Enabled \subseteq Slugs
  BY DEF Enabled, TypeOK, SharedOK, TablesOK
<1>2. \A s \in Enabled : Sensible(s, adopted[s].row) /\ adopted[s].verdict \in Verdict /\ adopted[s].judged = adopted[s].row
  BY <1>1, ResultsSensible
<1>3. \A s \in Enabled : adopted[s].row \in Proposal
  BY <1>2 DEF Sensible
<1> HIDE DEF Enabled
<1> QED
  BY <1>1, <1>2, <1>3 DEF Proposals, Opinions

(* Verdicts written to the capability table leave it typed and evident.    *)
LEMMA VerdictTypes ==
    ASSUME SharedOK, NEW vs, Opinions(vs), NEW ss \in SUBSET (DOMAIN vs)
    PROVE  LET after == WithVerdicts(vs, ss) IN
           /\ after \in [DOMAIN caps \cup ss -> CapRow] /\ DOMAIN caps \cup ss \subseteq Slugs
           /\ \A s \in DOMAIN after : Evident(s, after[s].cap)
<1>1. ss \subseteq Slugs /\ DOMAIN caps \subseteq Slugs /\ \A s \in ss : vs[s] \in Verdict
  BY DEF Opinions, SharedOK, TablesOK
<1>2. \A s \in ss : /\ [CapOf(s) EXCEPT !.verdict = vs[s]] \in CapRow
                     /\ [CapOf(s) EXCEPT !.verdict = vs[s]].cap = CapOf(s).cap
  BY <1>1, RowTypes DEF CapRow
<1>3. \A s \in DOMAIN caps : caps[s] \in CapRow /\ Evident(s, caps[s].cap)
  BY RowTypes DEF SharedOK, TablesOK
<1> HIDE DEF CapOf
<1>4. \A s \in DOMAIN caps \cup ss :
         WithVerdicts(vs, ss)[s] \in CapRow /\ Evident(s, WithVerdicts(vs, ss)[s].cap)
  BY <1>2, <1>3, RowTypes DEF WithVerdicts
<1> QED
  BY <1>1, <1>4 DEF WithVerdicts

(* So do committed proposals.                                              *)
LEMMA CommitTypes ==
    ASSUME SharedOK, NEW ps, Proposals(ps)
    PROVE  /\ WrittenCli(ps) \in [DOMAIN cli -> CliRow]
           /\ WrittenCaps(ps) \in [DOMAIN WrittenCaps(ps) -> CapRow]
           /\ DOMAIN WrittenCaps(ps) \subseteq DOMAIN caps \cup DOMAIN cli
           /\ \A s \in DOMAIN WrittenCaps(ps) : Evident(s, WrittenCaps(ps)[s].cap)
<1>1. \A s \in DOMAIN ps : ps[s].text \in Texts /\ (ps[s].cap # None => ps[s].cap \in Capability /\ Evident(s, ps[s].cap))
  BY DEF Proposals, Sensible, Proposal
<1>2. WrittenCli(ps) \in [DOMAIN cli -> CliRow]
  <2>1. \A s \in DOMAIN cli : s \in DOMAIN ps =>
          [cli[s] EXCEPT !.text = ps[s].text, !.owner = "llm"] \in CliRow
    BY <1>1, RowTypes DEF CliRow, Owners
  <2> QED
    BY <2>1, RowTypes DEF WrittenCli
<1> DEFINE typed == {s \in Present(ps) : ps[s].cap # None}
<1>3. typed \subseteq DOMAIN ps \cap DOMAIN cli
  BY DEF Present
<1>4. \A s \in typed : /\ [CapOf(s) EXCEPT !.cap = ps[s].cap] \in CapRow
                        /\ [CapOf(s) EXCEPT !.cap = ps[s].cap].cap = ps[s].cap
                        /\ Evident(s, ps[s].cap)
  BY <1>1, <1>3, RowTypes DEF CapRow
<1>5. WrittenCaps(ps) = [s \in DOMAIN caps \cup typed |->
            IF s \in typed /\ NotManual(CapOf(s).cap.owner)
            THEN [CapOf(s) EXCEPT !.cap = ps[s].cap] ELSE CapOf(s)]
  BY DEF WrittenCaps
<1> HIDE DEF typed, CapOf
<1>6. \A s \in DOMAIN caps \cup typed :
         /\ WrittenCaps(ps)[s] \in CapRow
         /\ Evident(s, WrittenCaps(ps)[s].cap)
  BY <1>4, <1>5, RowTypes
<1> QED
  BY <1>2, <1>3, <1>5, <1>6

(* Others keep the types of the tables.                                    *)
LEMMA OthersTypes == SharedOK /\ Others => SharedOK'
<1> SUFFICES ASSUME SharedOK, Others PROVE SharedOK'
  OBVIOUS
<1>1. changes' \in Nat /\ UNCHANGED files
  BY DEF Others, SharedOK
<1>2. cli \in [DOMAIN cli -> CliRow] /\ DOMAIN cli \subseteq Slugs
  BY DEF SharedOK, TablesOK
<1>3. caps \in [DOMAIN caps -> CapRow] /\ DOMAIN caps \subseteq Slugs /\ \A s \in DOMAIN caps : Evident(s, caps[s].cap)
  BY DEF SharedOK, TablesOK
<1>4. TablesOK(cli', caps') => SharedOK'
  BY <1>1 DEF SharedOK, files, TablesOK, Proposals, Opinions
<1>5. ASSUME NEW s \in DOMAIN cli, cli' = Restrict(cli, DOMAIN cli \ {s}), caps' = Restrict(caps, DOMAIN caps \ {s})
      PROVE  TablesOK(cli', caps')
  BY <1>2, <1>3, <1>5 DEF Restrict, TablesOK
<1>6. ASSUME NEW s \in Slugs \ DOMAIN cli, UNCHANGED caps,
             cli' = [t \in DOMAIN cli \cup {s} |-> IF t = s THEN
                        [text |-> None, owner |-> "none", enabled |-> TRUE] ELSE cli[t]]
      PROVE  TablesOK(cli', caps')
  <2>1. [text |-> None, owner |-> "none", enabled |-> TRUE] \in CliRow
    BY DEF CliRow, Owners
  <2> QED
    BY <1>2, <1>3, <1>6, <2>1 DEF TablesOK
<1>7. ASSUME NEW s \in DOMAIN cli, UNCHANGED caps, cli' = [cli EXCEPT ![s].enabled = FALSE]
      PROVE  TablesOK(cli', caps')
  <2>1. [cli[s] EXCEPT !.enabled = FALSE] \in CliRow
    BY <1>2 DEF CliRow
  <2>2. cli' = [cli EXCEPT ![s] = [cli[s] EXCEPT !.enabled = FALSE]]
    BY <1>7
  <2> QED
    BY <1>2, <1>3, <1>7, <2>1, <2>2 DEF TablesOK
<1>8. ASSUME NEW s \in DOMAIN cli, cli' = [cli EXCEPT ![s].owner = "manual"],
             caps' = [t \in DOMAIN caps \cup {s} |->
                        IF t = s THEN [CapOf(s) EXCEPT !.cap.owner = "manual"] ELSE caps[t]]
      PROVE  TablesOK(cli', caps')
  <2>1. [cli[s] EXCEPT !.owner = "manual"] \in CliRow
    BY <1>2 DEF CliRow, Owners
  <2>2. cli' = [cli EXCEPT ![s] = [cli[s] EXCEPT !.owner = "manual"]]
    BY <1>8
  <2>3. cli' \in [DOMAIN cli -> CliRow]
    BY <1>2, <2>1, <2>2
  <2> DEFINE c == CapOf(s)
             new == [cap |-> [owner |-> "manual", ins |-> c.cap.ins, outs |-> c.cap.outs, effect |-> c.cap.effect],
                     verdict |-> c.verdict]
  <2>4. c \in CapRow
    BY RowTypes
  <2>5. new \in CapRow /\ new.cap.owner = "manual"
    BY <2>4 DEF CapRow, Capability, Owners
  <2>6. [c EXCEPT !.cap.owner = "manual"] = new
    <3>1. c = [cap |-> c.cap, verdict |-> c.verdict]
          /\ c.cap = [owner |-> c.cap.owner, ins |-> c.cap.ins, outs |-> c.cap.outs, effect |-> c.cap.effect]
      BY <2>4 DEF CapRow, Capability
    <3> HIDE DEF c
    <3> QED
      BY <3>1
  <2>7. Evident(s, new.cap)
    BY <2>5 DEF Evident
  <2>8. caps' = [t \in DOMAIN caps \cup {s} |-> IF t = s THEN new ELSE caps[t]]
    BY <1>8, <2>6
  <2> HIDE DEF new
  <2> QED
    BY <1>2, <1>3, <2>3, <2>5, <2>7, <2>8 DEF TablesOK
<1> QED
  BY <1>4, <1>5, <1>6, <1>7, <1>8 DEF Others

(* Every step keeps the types, the evidence of the sources among them.     *)
LEMMA TypeNext == TypeOK /\ AllPhased /\ [Next]_vars => TypeOK'
<1> SUFFICES ASSUME TypeOK, AllPhased, [Next]_vars PROVE TypeOK'
  OBVIOUS
<1> USE DEF TypeOK
<1>0. /\ \A r \in Runs : Proposals(props[r]) /\ Opinions(verdicts[r])
      /\ props = [r \in Runs |-> props[r]] /\ verdicts = [r \in Runs |-> verdicts[r]]
      /\ judged = [r \in Runs |-> judged[r]]
  BY DEF LocalOK
<1>1. ASSUME UNCHANGED <<lock, local>>, pc' \in [Runs -> Phases] PROVE LocalOK'
  BY <1>1 DEF LocalOK, local, Proposals, Opinions
<1>2. ASSUME UNCHANGED <<cli, caps, changes, files>> PROVE SharedOK'
  BY <1>2 DEF SharedOK, TablesOK, files, Proposals, Opinions
<1>3. ASSUME NEW r \in Runs, NEW phase \in Phases, Goto(r, phase) PROVE pc' \in [Runs -> Phases]
  BY <1>3 DEF Goto, LocalOK
<1>4. CASE Others
  BY <1>1, <1>4, OthersTypes DEF Others, LocalOK
<1>5. CASE UNCHANGED vars
  BY <1>1, <1>2, <1>5 DEF vars, local, files, LocalOK
<1>6. ASSUME NEW r \in Runs, Start(r) PROVE TypeOK'
  <2>1. pc' \in [Runs -> Phases] /\ kind' \in [Runs -> {"dry", "commit", "replay"}]
    BY <1>6 DEF Start, Goto, LocalOK, Phases
  <2> QED
    BY <1>2, <1>6, <2>1 DEF Start, LocalOK, Proposals, Opinions
<1>7. ASSUME NEW r \in Runs, Acquire(r) PROVE TypeOK'
  <2>1. pc' \in [Runs -> Phases] /\ lock' \in Runs
    BY <1>7 DEF Acquire, Goto, LocalOK, Phases
  <2> QED
    BY <1>2, <1>7, <2>1 DEF Acquire, local, LocalOK, Proposals, Opinions
<1>8. ASSUME NEW r \in Runs, End(r), UNCHANGED <<cli, caps, changes, files>> PROVE TypeOK'
  BY <1>2, <1>8, EndTypes
<1>9. ASSUME NEW r \in Runs, Propose(r) PROVE TypeOK'
  <2>1. PICK adopted \in [Enabled -> UNION {Results[s] : s \in Enabled}] :
          /\ \A s \in Enabled : adopted[s] \in Results[s]
          /\ props' = [props EXCEPT ![r] = [s \in Enabled |-> adopted[s].row]]
          /\ verdicts' = [verdicts EXCEPT ![r] = [s \in Enabled |-> adopted[s].verdict]]
          /\ judged' = [judged EXCEPT ![r] = [s \in Enabled |-> adopted[s].judged]]
    BY <1>9 DEF Propose
  <2> DEFINE ps == [s \in Enabled |-> adopted[s].row]
             vs == [s \in Enabled |-> adopted[s].verdict]
             js == [s \in Enabled |-> adopted[s].judged]
  <2>2. Proposals(ps) /\ Opinions(vs)
    BY <2>1, Proposed
  <2>3. /\ props' = [q \in Runs |-> IF q = r THEN ps ELSE props[q]]
        /\ verdicts' = [q \in Runs |-> IF q = r THEN vs ELSE verdicts[q]]
        /\ judged' = [q \in Runs |-> IF q = r THEN js ELSE judged[q]]
    BY <1>0, <2>1, OwnField, Zenon
  <2>4. calibrated' \in [Runs -> BOOLEAN]
    <3>1. PICK b \in BOOLEAN : calibrated' = [calibrated EXCEPT ![r] = kind[r] = "commit" /\ b]
      BY <1>9 DEF Propose
    <3>2. (kind[r] = "commit" /\ b) \in BOOLEAN
      BY Zenon
    <3> DEFINE c == (kind[r] = "commit" /\ b)
    <3> HIDE DEF c
    <3>3. calibrated' = [calibrated EXCEPT ![r] = c] /\ c \in BOOLEAN
      BY <3>1, <3>2 DEF c
    <3> QED
      BY <3>3, Zenon DEF LocalOK
  <2>5. pc' \in [Runs -> Phases]
    BY <1>9 DEF Propose, Goto, LocalOK, Phases
  <2> HIDE DEF ps, vs, js
  <2>6. /\ \A q \in Runs : Proposals(props'[q]) /\ Opinions(verdicts'[q])
        /\ props' = [q \in Runs |-> props'[q]] /\ verdicts' = [q \in Runs |-> verdicts'[q]]
        /\ judged' = [q \in Runs |-> judged'[q]]
    BY <1>0, <2>2, <2>3
  <2> QED
    BY <1>2, <1>9, <2>4, <2>5, <2>6 DEF Propose, LocalOK, Proposals, Opinions
<1>10. ASSUME NEW r \in Runs, Look(r) PROVE TypeOK'
  <2>1. pc' \in [Runs -> Phases] /\ first' \in [Runs -> Slugs \cup {None}]
    BY <1>0, <1>10 DEF Look, Goto, LocalOK, Phases, Judged, Opinions
  <2> QED
    BY <1>2, <1>10, <2>1 DEF Look, LocalOK, Proposals, Opinions
<1>11. ASSUME NEW r \in Runs, DryVerdicts(r) PROVE TypeOK'
  <2> DEFINE ss == {first[r]} \cup (Judged(verdicts[r]) \cap DOMAIN cli)
  <2>1. ss \in SUBSET (DOMAIN verdicts[r]) /\ Opinions(verdicts[r])
    BY <1>0, <1>11 DEF DryVerdicts, AllPhased, Phased, Judged
  <2>2. TablesOK(cli', caps')
    <3>1. caps' = WithVerdicts(verdicts[r], ss) /\ cli' = cli
      BY <1>11 DEF DryVerdicts
    <3> HIDE DEF ss
    <3>2. DOMAIN caps' = DOMAIN caps \cup ss
      BY <3>1 DEF WithVerdicts
    <3> QED
      BY <2>1, <3>1, <3>2, VerdictTypes DEF SharedOK, TablesOK
  <2>3. pc' \in [Runs -> Phases] /\ first' \in [Runs -> Slugs \cup {None}]
    BY <1>11 DEF DryVerdicts, Goto, LocalOK, Phases
  <2>4. SharedOK'
    BY <1>11, <2>2 DEF DryVerdicts, SharedOK, TablesOK, files, Proposals, Opinions
  <2>5. LocalOK'
    BY <1>11, <2>3 DEF DryVerdicts, LocalOK, Proposals, Opinions
  <2> QED
    BY <2>4, <2>5
<1>12. ASSUME NEW r \in Runs, WriteProposals(r) PROVE TypeOK'
  <2>1. SharedOK'
    BY <1>0, <1>12 DEF WriteProposals, SharedOK, TablesOK, Proposals, Opinions
  <2>2. "report" \in Phases
    BY DEF Phases
  <2>3. pc' \in [Runs -> Phases]
    BY <1>3, <1>12, <2>2 DEF WriteProposals
  <2> QED
    BY <1>1, <1>12, <2>1, <2>3 DEF WriteProposals
<1>13. ASSUME NEW r \in Runs, WriteReport(r) PROVE TypeOK'
  <2>1. SharedOK'
    BY <1>0, <1>13 DEF WriteReport, SharedOK, TablesOK, Proposals, Opinions
  <2>2. "gate" \in Phases
    BY DEF Phases
  <2>3. LocalOK'
    BY <1>1, <1>3, <1>13, <2>2, EndTypes DEF WriteReport
  <2> QED
    BY <2>1, <2>3
<1>14. ASSUME NEW r \in Runs, LoadProposals(r) PROVE TypeOK'
  <2>1. Proposals(proposalsFile)
    BY <1>14 DEF LoadProposals, SharedOK
  <2>2. props' = [q \in Runs |-> IF q = r THEN proposalsFile ELSE props[q]]
    BY <1>0, <1>14, OwnField, Zenon DEF LoadProposals
  <2>3. props' = [q \in Runs |-> props'[q]] /\ \A q \in Runs : Proposals(props'[q])
    BY <1>0, <2>1, <2>2
  <2>4. pc' \in [Runs -> Phases]
    BY <1>14 DEF LoadProposals, Goto, LocalOK, Phases
  <2> QED
    BY <1>2, <1>14, <2>3, <2>4 DEF LoadProposals, LocalOK, Proposals, Opinions
<1>15. ASSUME NEW r \in Runs, LoadReport(r) PROVE TypeOK'
  <2>1. Opinions(reportFile)
    BY <1>15 DEF LoadReport, SharedOK
  <2>2. verdicts' = [q \in Runs |-> IF q = r THEN reportFile ELSE verdicts[q]]
    BY <1>0, <1>15, OwnField, Zenon DEF LoadReport
  <2>3. verdicts' = [q \in Runs |-> verdicts'[q]] /\ \A q \in Runs : Opinions(verdicts'[q])
    BY <1>0, <2>1, <2>2
  <2>4. pc' \in [Runs -> Phases] /\ calibrated' \in [Runs -> BOOLEAN]
    BY <1>15 DEF LoadReport, Goto, LocalOK, Phases
  <2> QED
    BY <1>2, <1>15, <2>3, <2>4 DEF LoadReport, LocalOK, Proposals, Opinions
<1>16. ASSUME NEW r \in Runs, Gate(r) PROVE TypeOK'
  <2>1. "wait" \in Phases
    BY DEF Phases
  <2> QED
    BY <1>1, <1>2, <1>3, <1>16, <2>1 DEF Gate
<1>17. ASSUME NEW r \in Runs, Persist(r) PROVE TypeOK'
  <2> DEFINE ss == Judged(verdicts[r]) \cap DOMAIN cli
  <2>1. ss \in SUBSET (DOMAIN verdicts[r]) /\ Opinions(verdicts[r]) /\ "commit" \in Phases
    BY <1>0 DEF Judged, Phases
  <2>2. TablesOK(cli', caps')
    <3>1. caps' = WithVerdicts(verdicts[r], ss) /\ cli' = cli
      BY <1>17 DEF Persist
    <3> HIDE DEF ss
    <3>2. DOMAIN caps' = DOMAIN caps \cup ss
      BY <3>1 DEF WithVerdicts
    <3> QED
      BY <2>1, <3>1, <3>2, VerdictTypes DEF SharedOK, TablesOK
  <2>3. SharedOK'
    BY <1>17, <2>2 DEF Persist, SharedOK, TablesOK, files, Proposals, Opinions
  <2>4. pc' \in [Runs -> Phases]
    BY <1>3, <1>17, <2>1 DEF Persist
  <2> QED
    BY <1>1, <1>17, <2>3, <2>4 DEF Persist
<1>18. ASSUME NEW r \in Runs, Commit(r) PROVE TypeOK'
  <2>1. TablesOK(cli', caps')
    <3>1. cli' = WrittenCli(props[r]) /\ caps' = WrittenCaps(props[r]) /\ Proposals(props[r])
      BY <1>0, <1>18 DEF Commit
    <3>2. DOMAIN WrittenCli(props[r]) = DOMAIN cli
      BY DEF WrittenCli
    <3> QED
      BY <3>1, <3>2, CommitTypes DEF SharedOK, TablesOK
  <2>2. SharedOK'
    BY <1>18, <2>1 DEF Commit, SharedOK, TablesOK, files, Proposals, Opinions
  <2> QED
    BY <1>18, <2>2, EndTypes DEF Commit
<1>19. ASSUME NEW r \in Runs, Stop(r) \/ Missing(r) \/ Uncovered(r) \/ Refuse(r) \/ Die(r) PROVE TypeOK'
  BY <1>8, <1>19 DEF Stop, Missing, Uncovered, Refuse, Die
<1> QED
  BY <1>4, <1>5, <1>6, <1>7, <1>9, <1>10, <1>11, <1>12, <1>13, <1>14, <1>15, <1>16, <1>17, <1>18, <1>19
     DEF Next, Work
----
(* What each phase knows. *)

(* A step that leaves a run alone leaves it what it knows.                 *)
LEMMA PhasedStays ==
    ASSUME NEW r, pc'[r] = pc[r], kind'[r] = kind[r], props'[r] = props[r], verdicts'[r] = verdicts[r],
           calibrated'[r] = calibrated[r], first'[r] = first[r], judged'[r] = judged[r]
    PROVE  Phased(r)' <=> Phased(r)
<1>1. Judged(verdicts[r])' = Judged(verdicts[r])
  BY DEF Judged
<1>2. Passes(r)' <=> Passes(r)
  BY DEF Passes, Tolerable, Fails
<1>3. Covers(props[r], verdicts[r])' <=> Covers(props[r], verdicts[r])
  BY DEF Covers
<1> QED
  BY <1>1, <1>2, <1>3 DEF Phased

(* The others are left alone.                                              *)
LEMMA OthersAlone ==
    ASSUME LocalOK, NEW r \in Runs, NEW q \in Runs \ {r},
           Start(r) \/ Acquire(r) \/ Work(r) \/ Die(r)
    PROVE  /\ pc'[q] = pc[q] /\ kind'[q] = kind[q] /\ props'[q] = props[q] /\ verdicts'[q] = verdicts[q]
           /\ calibrated'[q] = calibrated[q] /\ first'[q] = first[q] /\ judged'[q] = judged[q]
<1>0. /\ pc = [p \in Runs |-> pc[p]] /\ kind = [p \in Runs |-> kind[p]]
      /\ props = [p \in Runs |-> props[p]] /\ verdicts = [p \in Runs |-> verdicts[p]]
      /\ calibrated = [p \in Runs |-> calibrated[p]] /\ first = [p \in Runs |-> first[p]]
      /\ judged = [p \in Runs |-> judged[p]]
  BY DEF LocalOK
<1>1. CASE End(r)
  BY <1>0, <1>1 DEF End, Goto
<1>2. CASE Start(r)
  BY <1>0, <1>2 DEF Start, Goto
<1>3. CASE Acquire(r) \/ Gate(r) \/ Persist(r) \/ WriteProposals(r)
  BY <1>0, <1>3 DEF Acquire, Gate, Persist, WriteProposals, local, Goto
<1>4. CASE Propose(r)
  BY <1>0, <1>4 DEF Propose, Goto
<1>5. CASE Look(r) \/ DryVerdicts(r)
  BY <1>0, <1>5 DEF Look, DryVerdicts, Goto
<1>6. CASE LoadProposals(r) \/ LoadReport(r)
  BY <1>0, <1>6 DEF LoadProposals, LoadReport, Goto
<1>7. CASE WriteReport(r)
  BY <1>0, <1>1, <1>7 DEF WriteReport, local, Goto
<1> QED
  BY <1>1, <1>2, <1>3, <1>4, <1>5, <1>6, <1>7 DEF Work, Stop, Missing, Uncovered, Refuse, Commit, Die

(* At first no run has a phase to know anything in.                        *)
LEMMA PhasedInit == Init => AllPhased
BY DEF Init, AllPhased, Phased

(* Every step of a run leaves it with what its next phase must know.       *)
LEMMA PhasedNext == TypeOK /\ AllPhased /\ [Next]_vars => AllPhased'
<1> SUFFICES ASSUME TypeOK, AllPhased, [Next]_vars PROVE AllPhased'
  OBVIOUS
<1>0. /\ pc = [p \in Runs |-> pc[p]] /\ kind = [p \in Runs |-> kind[p]]
      /\ props = [p \in Runs |-> props[p]] /\ verdicts = [p \in Runs |-> verdicts[p]]
      /\ calibrated = [p \in Runs |-> calibrated[p]] /\ first = [p \in Runs |-> first[p]]
      /\ judged = [p \in Runs |-> judged[p]]
  BY DEF TypeOK, LocalOK
<1>1. ASSUME UNCHANGED <<pc, local>> PROVE AllPhased'
  BY <1>1, PhasedStays DEF AllPhased, local
<1>2. CASE Others
  BY <1>1, <1>2 DEF Others
<1>3. CASE UNCHANGED vars
  BY <1>1, <1>3 DEF vars, local
<1>4. ASSUME NEW r \in Runs, Start(r) \/ Acquire(r) \/ Work(r) \/ Die(r), Phased(r)' PROVE AllPhased'
  <2>1. \A q \in Runs \ {r} : Phased(q)'
    BY <1>4, OthersAlone, PhasedStays DEF TypeOK, AllPhased
  <2> QED
    BY <1>4, <2>1 DEF AllPhased
<1>5. ASSUME NEW r \in Runs, Start(r) \/ Acquire(r) \/ Work(r) \/ Die(r) PROVE Phased(r)'
  <2>0. Phased(r)
    BY DEF AllPhased
  <2>1. CASE End(r)
    <3>1. pc'[r] = "ended"
      BY <1>0, <2>1 DEF End, Goto
    <3> QED
      BY <3>1 DEF Phased
  <2>2. CASE Start(r)
    <3>1. PICK k \in {"dry", "commit", "replay"} :
            /\ kind' = [kind EXCEPT ![r] = k]
            /\ Goto(r, IF k = "replay" THEN "load" ELSE "fetch")
      BY <2>2 DEF Start
    <3>2. kind'[r] = k /\ pc'[r] = (IF k = "replay" THEN "load" ELSE "fetch")
      BY <1>0, <3>1 DEF Goto
    <3> QED
      BY <3>2 DEF Phased
  <2>3. ASSUME UNCHANGED local, NEW phase \in {"report", "gate", "wait", "persist", "commit"}, Goto(r, phase),
               pc[r] \in {"proposals", "report", "gate", "wait", "persist"},
               phase \in {"wait", "persist", "commit"} => Passes(r)
        PROVE  Phased(r)'
    <3>1. pc'[r] = phase
      BY <1>0, <2>3 DEF Goto
    <3>2. (Passes(r)' <=> Passes(r)) /\ (Covers(props[r], verdicts[r])' <=> Covers(props[r], verdicts[r]))
      BY <2>3 DEF local, Passes, Tolerable, Fails, Covers
    <3>3. kind' = kind /\ judged' = judged /\ props' = props
      BY <2>3 DEF local
    <3> QED
      BY <2>0, <2>3, <3>1, <3>2, <3>3 DEF Phased
  <2>4. CASE Acquire(r)
    BY <2>0, <2>3, <2>4 DEF Acquire, Phased
  <2>5. CASE Gate(r)
    BY <2>3, <2>5 DEF Gate
  <2>6. CASE Persist(r)
    BY <2>0, <2>3, <2>6 DEF Persist, Phased
  <2>7. CASE WriteProposals(r)
    BY <2>3, <2>7 DEF WriteProposals
  <2>8. CASE WriteReport(r)
    BY <2>1, <2>3, <2>8 DEF WriteReport
  <2>9. CASE Propose(r)
    <3>1. PICK adopted \in [Enabled -> UNION {Results[s] : s \in Enabled}] :
            /\ \A s \in Enabled : adopted[s] \in Results[s]
            /\ props' = [props EXCEPT ![r] = [s \in Enabled |-> adopted[s].row]]
            /\ verdicts' = [verdicts EXCEPT ![r] = [s \in Enabled |-> adopted[s].verdict]]
            /\ judged' = [judged EXCEPT ![r] = [s \in Enabled |-> adopted[s].judged]]
      BY <2>9 DEF Propose
    <3>2. judged'[r] = props'[r]
      <4>1. [s \in Enabled |-> adopted[s].judged] = [s \in Enabled |-> adopted[s].row]
        BY <3>1, Proposed
      <4>2. props'[r] = [s \in Enabled |-> adopted[s].row] /\ judged'[r] = [s \in Enabled |-> adopted[s].judged]
        BY <1>0, <3>1, OwnField, Zenon
      <4> QED
        BY <4>1, <4>2
    <3>3. DOMAIN props'[r] = DOMAIN verdicts'[r]
      BY <1>0, <3>1
    <3>4. pc'[r] \in {"look", "proposals"}
      BY <1>0, <2>9 DEF Propose, Goto
    <3> QED
      BY <3>2, <3>3, <3>4 DEF Phased, Covers
  <2>10. CASE Look(r)
    <3>1. UNCHANGED <<props, verdicts, kind, judged>> /\ pc[r] = "look"
      BY <2>10 DEF Look
    <3>2. pc'[r] = "proposals" \/ (pc'[r] = "verdicts" /\ first'[r] \in Judged(verdicts[r]))
      BY <1>0, <2>10 DEF Look, Goto
    <3>3. Judged(verdicts[r])' = Judged(verdicts[r])
      BY <3>1 DEF Judged
    <3> QED
      BY <2>0, <3>1, <3>2, <3>3 DEF Phased, Covers
  <2>11. CASE DryVerdicts(r)
    <3>1. UNCHANGED <<props, verdicts, kind, judged>> /\ pc[r] = "verdicts" /\ pc'[r] = "proposals"
      BY <1>0, <2>11 DEF DryVerdicts, Goto
    <3> QED
      BY <2>0, <3>1 DEF Phased, Covers
  <2>12. CASE LoadProposals(r)
    <3>1. kind' = kind /\ pc[r] = "load" /\ pc'[r] = "match"
      BY <1>0, <2>12 DEF LoadProposals, Goto
    <3> QED
      BY <2>0, <3>1 DEF Phased
  <2>13. CASE LoadReport(r)
    <3>1. kind' = kind /\ props' = props /\ pc[r] = "match" /\ pc'[r] = "gate" /\ verdicts'[r] = reportFile
      BY <1>0, <2>13 DEF LoadReport, Goto
    <3> QED
      BY <2>0, <2>13, <3>1 DEF LoadReport, Phased, Covers
  <2> QED
    BY <1>5, <2>1, <2>2, <2>4, <2>5, <2>6, <2>7, <2>8, <2>9, <2>10, <2>11, <2>12, <2>13
       DEF Work, Stop, Missing, Uncovered, Refuse, Commit, Die
<1> QED
  BY <1>2, <1>3, <1>4, <1>5 DEF Next

(* The state of a backfill is always well typed, and every capability the  *)
(* tables hold, a run or a file proposes is evident.                       *)
THEOREM TypeCorrect == Spec => [](TypeOK /\ AllPhased)
<1> QED
  BY TypeInit, TypeNext, PhasedInit, PhasedNext, PTL DEF Spec

(* Whatever the router answers and whoever replays which file, no written  *)
(* capability claims less than its source proves.                          *)
THEOREM EvidenceIsKept == Spec => []EvidenceKept
<1>1. TypeOK => EvidenceKept
  BY DEF TypeOK, SharedOK, TablesOK, Evident, EvidenceKept
<1> QED
  BY <1>1, TypeCorrect, PTL
----
(* Outages. *)

(* A step that writes verdicts writes none of a row that was not reached.  *)
LEMMA OutageNext == TypeOK /\ AllPhased /\ OutageNeverCondemns /\ [Next]_vars => OutageNeverCondemns'
<1> SUFFICES ASSUME TypeOK, AllPhased, OutageNeverCondemns, [Next]_vars PROVE OutageNeverCondemns'
  OBVIOUS
<1>0. SharedOK
  BY DEF TypeOK
<1>1. CASE caps' = caps
  BY <1>1 DEF OutageNeverCondemns
<1>2. ASSUME NEW r \in Runs, NEW ss \in SUBSET Judged(verdicts[r]), caps' = WithVerdicts(verdicts[r], ss)
      PROVE  OutageNeverCondemns'
  <2>1. \A s \in ss : /\ ~verdicts[r][s].unreachable
                       /\ [CapOf(s) EXCEPT !.verdict = verdicts[r][s]].verdict = verdicts[r][s]
    BY <1>0, RowTypes DEF Judged, CapRow
  <2> HIDE DEF CapOf
  <2>2. \A s \in DOMAIN caps' : s \in ss \/ (s \in DOMAIN caps /\ caps'[s] = caps[s])
    BY <1>2 DEF WithVerdicts
  <2>3. \A s \in ss : caps'[s].verdict = verdicts[r][s]
    BY <1>2, <2>1 DEF WithVerdicts
  <2> QED
    BY <2>1, <2>2, <2>3 DEF OutageNeverCondemns
<1>3. ASSUME \A s \in DOMAIN caps' : caps'[s].verdict = CapOf(s).verdict PROVE OutageNeverCondemns'
  <2>1. \A s : CapOf(s).verdict # None => ~CapOf(s).verdict.unreachable
    BY DEF CapOf, OutageNeverCondemns
  <2> QED
    BY <1>3, <2>1 DEF OutageNeverCondemns
<1>4. ASSUME NEW r \in Runs, Commit(r) PROVE OutageNeverCondemns'
  <2>1. caps' = WrittenCaps(props[r])
    BY <1>4 DEF Commit
  <2>2. \A s, x : [CapOf(s) EXCEPT !.cap = x].verdict = CapOf(s).verdict
    BY <1>0, RowTypes DEF CapRow
  <2> HIDE DEF CapOf
  <2>3. \A s \in DOMAIN caps' : caps'[s].verdict = CapOf(s).verdict
    BY <2>1, <2>2 DEF WrittenCaps
  <2> QED
    BY <1>3, <2>3
<1>5. CASE Others
  <2>1. ASSUME NEW s \in DOMAIN cli, caps' = Restrict(caps, DOMAIN caps \ {s})
        PROVE  OutageNeverCondemns'
    BY <2>1 DEF Restrict, OutageNeverCondemns
  <2>2. ASSUME NEW s \in DOMAIN cli,
               caps' = [t \in DOMAIN caps \cup {s} |->
                          IF t = s THEN [CapOf(s) EXCEPT !.cap.owner = "manual"] ELSE caps[t]]
        PROVE  OutageNeverCondemns'
    <3>1. [CapOf(s) EXCEPT !.cap.owner = "manual"].verdict = CapOf(s).verdict
      BY <1>0, RowTypes DEF CapRow
    <3>2. \A t \in DOMAIN caps : CapOf(t) = caps[t]
      BY DEF CapOf
    <3> HIDE DEF CapOf
    <3>3. \A t \in DOMAIN caps' : caps'[t].verdict = CapOf(t).verdict
      BY <2>2, <3>1, <3>2
    <3> QED
      BY <1>3, <3>3
  <2> QED
    BY <1>1, <1>5, <2>1, <2>2 DEF Others
<1>6. ASSUME NEW r \in Runs, Persist(r) PROVE OutageNeverCondemns'
  BY <1>2, <1>6 DEF Persist
<1>7. ASSUME NEW r \in Runs, DryVerdicts(r) PROVE OutageNeverCondemns'
  <2>1. first[r] \in Judged(verdicts[r])
    BY <1>7 DEF DryVerdicts, AllPhased, Phased
  <2> QED
    BY <1>2, <1>7, <2>1 DEF DryVerdicts
<1> QED
  BY <1>1, <1>4, <1>5, <1>6, <1>7
     DEF Next, Work, vars, Start, Acquire, Stop, Propose, Look, WriteProposals, WriteReport, LoadProposals,
         Missing, LoadReport, Uncovered, Gate, Refuse, Die

(* No sanity verdict in the tables stems from a router that was not        *)
(* reached, whichever runs and replays wrote it.                           *)
THEOREM OutagesNeverCondemn == Spec => []OutageNeverCondemns
<1>1. Init => OutageNeverCondemns
  BY DEF Init, Empty, OutageNeverCondemns
<1> QED
  BY <1>1, OutageNext, TypeCorrect, PTL DEF Spec
----
(* Commits and orphans. *)

(* Whatever is committed was let through by a calibrated judge, and few    *)
(* enough of its rows failed; a commit that judged its own proposals       *)
(* judged the very text it writes.                                         *)
THEOREM CommitsAreEarned == Spec => CommitsEarned
<1>1. AllPhased =>
        [\A r \in Runs : Commit(r) =>
            /\ calibrated[r]
            /\ DOMAIN verdicts[r] = DOMAIN props[r]
            /\ Cardinality(Fails(verdicts[r])) * Den <= Num * Cardinality(DOMAIN verdicts[r])
            /\ kind[r] = "commit" => judged[r] = props[r]]_vars
  BY DEF AllPhased, Phased, Commit, Passes, Tolerable, Covers
<1> QED
  BY <1>1, TypeCorrect, PTL DEF CommitsEarned

(* A capability without its CLI appears only in the unlocked step of a dry *)
(* run, whose first row left between its look and its write.               *)
THEOREM OnlyUnlockedOrphans == Spec => OrphansOnlyUnlocked
<1>1. [Next]_vars =>
        [\A s \in DOMAIN caps' \ DOMAIN cli' :
            \/ s \in DOMAIN caps \ DOMAIN cli
            \/ \E r \in Runs : DryVerdicts(r) /\ s = first[r]]_vars
  <2> SUFFICES ASSUME Next, NEW s \in DOMAIN caps' \ DOMAIN cli',
                      ~\E r \in Runs : DryVerdicts(r) /\ s = first[r]
               PROVE  s \in DOMAIN caps \ DOMAIN cli
    BY DEF vars
  <2>1. CASE Others
    <3>1. ASSUME NEW x \in DOMAIN cli, cli' = Restrict(cli, DOMAIN cli \ {x}),
                 caps' = Restrict(caps, DOMAIN caps \ {x})
          PROVE  s \in DOMAIN caps \ DOMAIN cli
      BY <3>1 DEF Restrict
    <3>2. ASSUME NEW row, NEW x, cli' = [t \in DOMAIN cli \cup {x} |-> IF t = x THEN row ELSE cli[t]],
                 caps' = caps
          PROVE  s \in DOMAIN caps \ DOMAIN cli
      BY <3>2
    <3>3. ASSUME NEW x \in DOMAIN cli, cli' = [cli EXCEPT ![x].enabled = FALSE], caps' = caps
          PROVE  s \in DOMAIN caps \ DOMAIN cli
      BY <3>3
    <3>4. ASSUME NEW x \in DOMAIN cli, NEW row, cli' = [cli EXCEPT ![x].owner = "manual"],
                 caps' = [t \in DOMAIN caps \cup {x} |-> IF t = x THEN row ELSE caps[t]]
          PROVE  s \in DOMAIN caps \ DOMAIN cli
      BY <3>4
    <3> QED
      BY <2>1, <3>1, <3>2, <3>3, <3>4, Zenon DEF Others
  <2>2. ASSUME NEW r \in Runs, DryVerdicts(r) PROVE s \in DOMAIN caps \ DOMAIN cli
    BY <2>2 DEF DryVerdicts, WithVerdicts
  <2>3. ASSUME NEW r \in Runs, Persist(r) PROVE s \in DOMAIN caps \ DOMAIN cli
    BY <2>3 DEF Persist, WithVerdicts
  <2>4. ASSUME NEW r \in Runs, Commit(r) PROVE s \in DOMAIN caps \ DOMAIN cli
    BY <2>4 DEF Commit, WrittenCli, WrittenCaps, Present
  <2>5. CASE UNCHANGED <<cli, caps>>
    BY <2>5
  <2> QED
    BY <2>1, <2>2, <2>3, <2>4, <2>5
       DEF Next, Work, Start, Acquire, Stop, Propose, Look, WriteProposals, WriteReport, LoadProposals,
           Missing, LoadReport, Uncovered, Gate, Refuse, Die
<1> QED
  BY <1>1, PTL DEF Spec, OrphansOnlyUnlocked
====
