---- MODULE Backfill ----
(***************************************************************************)
(* tools/backfill_capabilities.py: a run proposes a description and a       *)
(* capability for every enabled row, has them judged and repaired, writes   *)
(* the proposals and the report, and commits them if the judge is           *)
(* calibrated and few enough rows failed.  A dry run stops at the files; a   *)
(* replay commits files an earlier run left.  Runs overlap and die, rows     *)
(* come, go and change owner meanwhile; only the commit holds the lock.      *)
(***************************************************************************)
EXTENDS Extractor, FiniteSetsExt, Functions

CONSTANTS
    Slugs,
    Python,         \* the CLIs written in Python
    Source,         \* their programs, blank where the file cannot be read
    Replies,        \* the capabilities the router may name
    Texts,          \* the descriptions the router may write
    Purposeless,    \* "unknown purpose (slug)"
    Corrupt,        \* descriptions the mechanical prefilter rejects
    FallbackCap,    \* FALLBACK_CAP
    Num, Den,       \* SANITY_FAILURE_THRESHOLD = Num / Den
    Earlier,        \* proposals an earlier run may have left
    Registered,     \* the CLIs that are registered at first
    Runs,
    MaxChanges      \* bound: changes of the tables by others

ASSUME BackfillAssumption ==
    /\ Python \cup Registered \subseteq Slugs
    /\ Source \in [Python -> Program]
    /\ Replies \subseteq [ins : SUBSET Ports, outs : SUBSET Ports, effect : Effects]
    /\ Purposeless \in Texts /\ Corrupt \subseteq Texts /\ None \notin Texts \cup Runs
    /\ FallbackCap \in Nat /\ Num \in Nat /\ Den \in Nat \ {0} /\ MaxChanges \in Nat

Owners     == {"none", "static", "llm", "manual"}
Capability == [owner : Owners, ins : SUBSET Ports, outs : SUBSET Ports, effect : Effects]
Proposal   == [text : Texts, cap : Capability \cup {None}]
Verdict  == [ok : BOOLEAN, unreachable : BOOLEAN]
CliRow   == [text : Texts \cup {None}, owner : Owners, enabled : BOOLEAN]
CapRow   == [cap : Capability, verdict : Verdict \cup {None}]

VARIABLES
    cli,        \* the cli table: a row for each registered slug
    caps,       \* the capability table: at most a row for each slug
    changes,    \* changes by others so far
    proposalsFile, reportFile,  \* the two .jsonl files, None before the first run
    lock,       \* the run in with_file_lock, or None
    pc, kind,   \* phase and kind of each run
    props,      \* proposals of each run, by slug
    verdicts,   \* its sanity results, by slug
    calibrated, \* the real checker agreed with the calibration set
    first,      \* the row the dry run found before its write transaction began
    judged      \* the proposals its verdicts are about (history)

vars == <<cli, caps, changes, proposalsFile, reportFile, lock, pc, kind, props, verdicts,
          calibrated, first, judged>>

Phases == {"idle", "fetch", "look", "verdicts", "proposals", "report", "load", "match",
           "gate", "wait", "persist", "commit", "ended"}
Empty  == [s \in {} |-> None]
----
(* Generation.  A router that fails names no purpose and no capability.     *)

(* regenerate_description *)
Described(s) == IF s \notin Python \/ Source[s].text = "blank" THEN {Purposeless} ELSE Texts

(* infer_capability_llm *)
Nothing == [ins |-> {}, outs |-> {}, effect |-> "unknown"]
Inferred ==
    {[owner |-> "llm", ins |-> r.ins, outs |-> r.outs, effect |-> r.effect] : r \in Replies \cup {Nothing}}

Fallback(s) == s \in Python /\ (Inputs(Source[s]) = {} \/ Outputs(Source[s]) = {})

(* extract_capability, with the LLM where it found no inputs or no outputs; *)
(* what the source proves is added to either.                               *)
Capabilities(s) ==
    IF s \notin Python THEN {None}
    ELSE {WithFileOutputs(c, Source[s]) : c \in IF Fallback(s) THEN Inferred ELSE {Extracted(Source[s])}}

Generated(s) == [text : Described(s), cap : Capabilities(s)]

(* check_row: a corrupt text fails without asking; otherwise the router     *)
(* judges it, is asked once more when it gave no usable answer, and only    *)
(* the second failure decides between a bad row and an outage.              *)
Answers == {"ok", "bad", "unusable", "unreachable"}
Usable(answer) == answer \in {"ok", "bad"}

Outcome(answer) == [ok |-> answer = "ok", unreachable |-> answer = "unreachable"]

CheckRow(p) ==
    IF p.text \in Corrupt THEN {Outcome("bad")}
    ELSE {Outcome(IF Usable(one) THEN one ELSE two) : one \in Answers, two \in Answers}

Fails(vs) == {s \in DOMAIN vs : ~vs[s].ok}

(* sanity_fail_rate <= SANITY_FAILURE_THRESHOLD *)
Tolerable(vs) == Cardinality(Fails(vs)) * Den <= Num * Cardinality(DOMAIN vs)

(* repair_row: the router's text and fields, the old ones where it named    *)
(* none; a capability becomes the router's, no capability stays none.       *)
Mended(cap, p) ==
    {WithFileOutputs(c, p) : c \in UNION {
        [owner : {"llm"}, ins : {cap.ins, r.ins}, outs : {cap.outs, r.outs},
         effect : {cap.effect, r.effect}] : r \in Replies}}

RepairsOf(s, p) == [text : Texts, cap : IF p.cap = None THEN {None} ELSE Mended(p.cap, Source[s])]

(* Defect variant of Adoptable: a new text is taken without a second check. *)
AdoptableUnchecked(s, p, v) ==
    IF v.ok THEN {[row |-> p, verdict |-> v, judged |-> p]}
    ELSE {[row |-> [p EXCEPT !.text = q.text], verdict |-> Outcome("ok"), judged |-> p] :
             q \in RepairsOf(s, p)}

(* A failed row keeps its proposal and verdict, or takes a repair that      *)
(* passed a check of its own.                                               *)
Adoptable(s, p, v) ==
    {[row |-> p, verdict |-> v, judged |-> p]} \cup
    {[row |-> q, verdict |-> Outcome("ok"), judged |-> q] :
        q \in {x \in RepairsOf(s, p) : ~v.ok /\ Outcome("ok") \in CheckRow(x)}}

Results ==
    [s \in Slugs |-> UNION {UNION {Adoptable(s, p, v) : v \in CheckRow(p)} : p \in Generated(s)}]

(* The files an earlier run left are such results. *)
ASSUME EarlierAssumption ==
    \A f \in Earlier :
        /\ f \in [DOMAIN f -> Proposal] /\ DOMAIN f \subseteq Slugs
        /\ \A s \in DOMAIN f : \E a \in Results[s] : f[s] = a.row
----
(* Database writes. *)

(* Defect variant of Judged: an outage is written as a verdict, too.        *)
JudgedAll(vs) == DOMAIN vs

Judged(vs) == {s \in DOMAIN vs : ~vs[s].unreachable}

(* _ensure_capability_row *)
EmptyCap == [owner |-> "none", ins |-> {}, outs |-> {}, effect |-> "unknown"]
CapOf(s) == IF s \in DOMAIN caps THEN caps[s] ELSE [cap |-> EmptyCap, verdict |-> None]

(* _persist_sanity: an empty capability row where there was none. *)
WithVerdicts(vs, ss) ==
    [s \in DOMAIN caps \cup ss |->
        IF s \in ss THEN [CapOf(s) EXCEPT !.verdict = vs[s]] ELSE caps[s]]

NotManual(owner) == owner # "manual"

(* Defect variant of Present: write_commit trusts the rows it read.         *)
PresentOnce(ps) == DOMAIN ps

Present(ps) == DOMAIN ps \cap DOMAIN cli

(* write_commit: parent and capability ownership are independent guards.    *)
WrittenCli(ps) ==
    [s \in DOMAIN cli |->
        IF s \in DOMAIN ps /\ NotManual(cli[s].owner)
        THEN [cli[s] EXCEPT !.text = ps[s].text, !.owner = "llm"] ELSE cli[s]]

WrittenCaps(ps) ==
    LET typed == {s \in Present(ps) : ps[s].cap # None}
    IN  [s \in DOMAIN caps \cup typed |->
            IF s \in typed /\ NotManual(CapOf(s).cap.owner)
            THEN [CapOf(s) EXCEPT !.cap = ps[s].cap] ELSE CapOf(s)]
----
Init ==
    /\ cli = [s \in Registered |-> [text |-> None, owner |-> "none", enabled |-> TRUE]]
    /\ caps = Empty
    /\ changes = 0
    /\ \/ proposalsFile = None /\ reportFile = None
       \/ /\ proposalsFile \in Earlier
          /\ reportFile = [s \in DOMAIN proposalsFile |-> Outcome("ok")]
    /\ lock = None
    /\ pc = [r \in Runs |-> "idle"]
    /\ kind = [r \in Runs |-> "dry"]
    /\ props = [r \in Runs |-> Empty]
    /\ verdicts = [r \in Runs |-> Empty]
    /\ calibrated = [r \in Runs |-> FALSE]
    /\ first = [r \in Runs |-> None]
    /\ judged = [r \in Runs |-> Empty]

files == <<proposalsFile, reportFile>>
local == <<kind, props, verdicts, calibrated, first, judged>>

Goto(r, phase) == pc' = [pc EXCEPT ![r] = phase]

(* The process and all it knows is gone. *)
End(r) ==
    /\ Goto(r, "ended")
    /\ lock' = IF lock = r THEN None ELSE lock
    /\ props' = [props EXCEPT ![r] = Empty]
    /\ verdicts' = [verdicts EXCEPT ![r] = Empty]
    /\ calibrated' = [calibrated EXCEPT ![r] = FALSE]
    /\ first' = [first EXCEPT ![r] = None]
    /\ judged' = [judged EXCEPT ![r] = Empty]
    /\ kind' = [kind EXCEPT ![r] = "dry"]

(* Others: populate removes and adds rows and hygiene disables them, under  *)
(* the lock; an operator takes a text or a capability over at any time.     *)
Others ==
    /\ changes < MaxChanges
    /\ changes' = changes + 1
    /\ \/ /\ lock = None
          /\ \E s \in DOMAIN cli :
                /\ cli' = Restrict(cli, DOMAIN cli \ {s})
                /\ caps' = Restrict(caps, DOMAIN caps \ {s})
       \/ /\ lock = None
          /\ \E s \in Slugs \ DOMAIN cli :
                cli' = [t \in DOMAIN cli \cup {s} |-> IF t = s THEN
                    [text |-> None, owner |-> "none", enabled |-> TRUE] ELSE cli[t]]
          /\ UNCHANGED caps
       \/ /\ lock = None
          /\ \E s \in DOMAIN cli : cli' = [cli EXCEPT ![s].enabled = FALSE]
          /\ UNCHANGED caps
       \/ /\ \E s \in DOMAIN cli :
                /\ cli' = [cli EXCEPT ![s].owner = "manual"]
                /\ caps' = [t \in DOMAIN caps \cup {s} |->
                        IF t = s THEN [CapOf(s) EXCEPT !.cap.owner = "manual"] ELSE caps[t]]
    /\ UNCHANGED <<files, lock, pc, local>>
----
Start(r) ==
    /\ pc[r] = "idle"
    /\ \E k \in {"dry", "commit", "replay"} :
        /\ kind' = [kind EXCEPT ![r] = k]
        /\ Goto(r, IF k = "replay" THEN "load" ELSE "fetch")
    /\ UNCHANGED <<cli, caps, changes, files, lock, props, verdicts, calibrated, first, judged>>

Enabled == {s \in DOMAIN cli : cli[s].enabled}

(* STOP when too many rows need the LLM. *)
Stop(r) ==
    /\ pc[r] = "fetch"
    /\ Cardinality({s \in Enabled : Fallback(s)}) > FallbackCap
    /\ End(r)
    /\ UNCHANGED <<cli, caps, changes, files>>

(* The enabled rows are read once; what follows, until the first write, is  *)
(* the run's own: a proposal for each row, the calibration of the judge,    *)
(* a verdict on each proposal and one repair for each that failed.  A dry   *)
(* run only prints its calibration.                                         *)
Propose(r) ==
    /\ pc[r] = "fetch"
    /\ Cardinality({s \in Enabled : Fallback(s)}) <= FallbackCap
    /\ \E adopted \in [Enabled -> UNION {Results[s] : s \in Enabled}] :
        /\ \A s \in Enabled : adopted[s] \in Results[s]
        /\ props' = [props EXCEPT ![r] = [s \in Enabled |-> adopted[s].row]]
        /\ verdicts' = [verdicts EXCEPT ![r] = [s \in Enabled |-> adopted[s].verdict]]
        /\ judged' = [judged EXCEPT ![r] = [s \in Enabled |-> adopted[s].judged]]
    /\ \E b \in BOOLEAN : calibrated' = [calibrated EXCEPT ![r] = kind[r] = "commit" /\ b]
    /\ Goto(r, IF kind[r] = "dry" THEN "look" ELSE "proposals")
    /\ UNCHANGED <<cli, caps, changes, files, lock, kind, first>>

(* A dry run persists its verdicts without the lock.  The row is looked up  *)
(* before the first write opens the transaction.                            *)
Look(r) ==
    /\ pc[r] = "look"
    /\ LET found == Judged(verdicts[r]) \cap DOMAIN cli
       IN  IF found = {} THEN Goto(r, "proposals") /\ UNCHANGED first
           ELSE /\ \E s \in found : first' = [first EXCEPT ![r] = s]
                /\ Goto(r, "verdicts")
    /\ UNCHANGED <<cli, caps, changes, files, lock, kind, props, verdicts, calibrated, judged>>

DryVerdicts(r) ==
    /\ pc[r] = "verdicts"
    /\ caps' = WithVerdicts(verdicts[r], {first[r]} \cup (Judged(verdicts[r]) \cap DOMAIN cli))
    /\ first' = [first EXCEPT ![r] = None]
    /\ Goto(r, "proposals")
    /\ UNCHANGED <<cli, changes, files, lock, kind, props, verdicts, calibrated, judged>>

(* Each file is replaced at once, one after the other. *)
WriteProposals(r) ==
    /\ pc[r] = "proposals"
    /\ proposalsFile' = props[r]
    /\ Goto(r, "report")
    /\ UNCHANGED <<cli, caps, changes, reportFile, lock, local>>

WriteReport(r) ==
    /\ pc[r] = "report"
    /\ reportFile' = verdicts[r]
    /\ IF kind[r] = "dry" THEN End(r)
       ELSE Goto(r, "gate") /\ UNCHANGED <<lock, local>>
    /\ UNCHANGED <<cli, caps, changes, proposalsFile>>
----
LoadProposals(r) ==
    /\ pc[r] = "load"
    /\ proposalsFile # None
    /\ props' = [props EXCEPT ![r] = proposalsFile]
    /\ Goto(r, "match")
    /\ UNCHANGED <<cli, caps, changes, files, lock, kind, verdicts, calibrated, first, judged>>

Missing(r) ==
    /\ \/ pc[r] = "load" /\ proposalsFile = None
       \/ pc[r] = "match" /\ reportFile = None
    /\ End(r)
    /\ UNCHANGED <<cli, caps, changes, files>>

(* One verdict for each proposal, none for another slug. *)
Covers(ps, vs) == DOMAIN ps = DOMAIN vs

LoadReport(r) ==
    /\ pc[r] = "match"
    /\ reportFile # None
    /\ Covers(props[r], reportFile)
    /\ verdicts' = [verdicts EXCEPT ![r] = reportFile]
    /\ \E b \in BOOLEAN : calibrated' = [calibrated EXCEPT ![r] = b]
    /\ Goto(r, "gate")
    /\ UNCHANGED <<cli, caps, changes, files, lock, kind, props, first, judged>>

Uncovered(r) ==
    /\ pc[r] = "match"
    /\ reportFile # None
    /\ ~Covers(props[r], reportFile)
    /\ End(r)
    /\ UNCHANGED <<cli, caps, changes, files>>

Passes(r) == calibrated[r] /\ Tolerable(verdicts[r])

Gate(r) ==
    /\ pc[r] = "gate"
    /\ Passes(r)
    /\ Goto(r, "wait")
    /\ UNCHANGED <<cli, caps, changes, files, lock, local>>

Refuse(r) ==
    /\ pc[r] = "gate"
    /\ ~Passes(r)
    /\ End(r)
    /\ UNCHANGED <<cli, caps, changes, files>>

(* The backup and the columns it needs, then two transactions. *)
Acquire(r) ==
    /\ pc[r] = "wait"
    /\ lock = None
    /\ lock' = r
    /\ Goto(r, "persist")
    /\ UNCHANGED <<cli, caps, changes, files, local>>

Persist(r) ==
    /\ pc[r] = "persist"
    /\ caps' = WithVerdicts(verdicts[r], Judged(verdicts[r]) \cap DOMAIN cli)
    /\ Goto(r, "commit")
    /\ UNCHANGED <<cli, changes, files, lock, local>>

Commit(r) ==
    /\ pc[r] = "commit"
    /\ cli' = WrittenCli(props[r])
    /\ caps' = WrittenCaps(props[r])
    /\ End(r)
    /\ UNCHANGED <<changes, files>>

(* Killed, or an error of the disk or the database that nothing catches.    *)
Die(r) ==
    /\ pc[r] \notin {"idle", "ended"}
    /\ End(r)
    /\ UNCHANGED <<cli, caps, changes, files>>

Work(r) ==
    \/ Stop(r) \/ Propose(r)
    \/ Look(r) \/ DryVerdicts(r) \/ WriteProposals(r) \/ WriteReport(r)
    \/ LoadProposals(r) \/ Missing(r) \/ LoadReport(r) \/ Uncovered(r)
    \/ Gate(r) \/ Refuse(r) \/ Persist(r) \/ Commit(r)

Next == Others \/ \E r \in Runs : Start(r) \/ Acquire(r) \/ Work(r) \/ Die(r)

Spec == Init /\ [][Next]_vars
----
(* Whatever is committed was let through by a calibrated judge: every row   *)
(* has a verdict, and at most the tolerated share failed, rows that could   *)
(* not be judged included.  In a commit that judged its proposals itself    *)
(* each verdict is about the very text that is written, repaired or not.    *)
CommitsEarned ==
    [][\A r \in Runs : Commit(r) =>
        /\ calibrated[r]
        /\ DOMAIN verdicts[r] = DOMAIN props[r]
        /\ Cardinality(Fails(verdicts[r])) * Den <= Num * Cardinality(DOMAIN verdicts[r])
        /\ kind[r] = "commit" => judged[r] = props[r]]_vars

(* Whatever the LLM answers, repairs or omits, whoever replays which file:  *)
(* a capability the backfill owns has every file port its source proves,    *)
(* and one it calls static is all the extractor's, inputs and outputs both. *)
EvidenceKept ==
    \A s \in DOMAIN caps : LET cap == caps[s].cap IN
        /\ cap.owner \in {"static", "llm"} => s \in Python /\ FileOutputs(Source[s]) \subseteq cap.outs
        /\ cap.owner = "static" => cap = Extracted(Source[s]) /\ cap.ins # {} /\ cap.outs # {}

(* An outage is not a judgement: no row's sanity verdict stems from a       *)
(* router that was not reached, by whatever run or replay.                  *)
OutageNeverCondemns ==
    \A s \in DOMAIN caps : caps[s].verdict # None => ~caps[s].verdict.unreachable

(* "no orphans": a commit never leaves a capability without its CLI, for    *)
(* rows may have left since they were read.  The one step that does is a    *)
(* dry run's, which holds no lock between its look and its write.           *)
OrphansOnlyUnlocked ==
    [][\A s \in DOMAIN caps' \ DOMAIN cli' :
        \/ s \in DOMAIN caps \ DOMAIN cli
        \/ \E r \in Runs : DryVerdicts(r) /\ s = first[r]]_vars
====
