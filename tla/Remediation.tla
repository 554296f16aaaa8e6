---- MODULE Remediation ----
(***************************************************************************)
(* The remediation pass of core/remediation: a run reads the unhealthy     *)
(* rows, classifies their failure notes, may ask Hermes about the ones it  *)
(* cannot classify, may install packages for the ones it can, writes the   *)
(* proposals file and then files one issue per cluster of proposals.  Runs *)
(* overlap, die at any point and are started again; only an armed run      *)
(* holds the registry's lock.                                              *)
(***************************************************************************)
EXTENDS Naturals, FiniteSets, FiniteSetsExt

CONSTANTS
    Slugs, Modules, Vars,   \* CLIs; import names; environment variables
    Mapped,         \* IMPORT_TO_PACKAGE: distribution of an import name
    Local,          \* <<slug, module>>: the module lies next to the script
    ModuleMode,     \* <<slug, module>>: python -m finds the module
    Notes,          \* the failure notes that occur
    Replies,        \* the diagnoses Hermes may return
    Batch,          \* rows per Hermes request
    CommandLines,   \* options of the runs: --file, --apply-safe, --max-llm-calls
    Fleets,         \* notes the first run may find
    Runs,           \* invocations of the command
    None,
    MaxChanges      \* bound: changes of the fleet by the prober

Classes == {"pip-3rd-party", "pip-unknown", "wrong-cwd", "code-bug", "env-missing", "unknown"}
FixKinds == {"auto-safe", "propose-only", "needs-human"}
(* None among the targets: one that is not text, which only a reply holds.  *)
Targets == {"", None} \cup Modules \cup Vars \cup {Mapped[m] : m \in DOMAIN Mapped}

Note == [syntax : BOOLEAN, missing : Modules \cup {None}, key : Vars \cup {None},
         words : BOOLEAN, nofile : BOOLEAN]
Proposal == [class : Classes, fix : FixKinds, target : Targets, inferred : BOOLEAN]
Hash     == [class : Classes, target : Targets, members : SUBSET Slugs]
Issue    == [by : Runs, hash : Hash, open : BOOLEAN]
Options  == [file : BOOLEAN, armed : BOOLEAN, calls : Nat]

ASSUME RemediationAssumption ==
    /\ Notes \subseteq Note
    /\ DOMAIN Mapped \subseteq Modules
    /\ Replies \subseteq [class : Classes, target : Targets]
    /\ CommandLines \subseteq Options
    /\ Fleets \subseteq [Slugs -> Notes \cup {None}]
    /\ Batch \in Nat \ {0} /\ MaxChanges \in Nat
    /\ None \notin Runs

VARIABLES
    note,       \* the note of each unhealthy row, None for a healthy one
    changes,    \* fleet changes so far
    lock,       \* the armed run in with_file_lock, or None
    pc,         \* phase of each run
    options,    \* its command line
    rows,       \* the notes it read
    props,      \* its proposal for each slug it read
    pending,    \* rows it has still to ask Hermes about, or to fix
    asked,      \* Hermes requests it made
    records,    \* rows whose Hermes request failed
    installed,  \* slugs it installed a package for (history)
    envelope,   \* the proposals file each run wrote, if it did
    known,      \* hashes of the open issues it listed
    refs,       \* clusters it handled
    issues,     \* the tracker
    exit,       \* how it ended
    overlapped  \* pairs of runs that were filing at the same time (history)

vars == <<note, changes, lock, pc, options, rows, props, pending, asked, records,
          installed, envelope, known, refs, issues, exit, overlapped>>

Phases == {"idle", "wait", "read", "diagnose", "fix", "write", "list", "file", "ended"}
(* "filed", "warned" and "no-tracker" all exit 0, "4" is the code of a write *)
(* that failed, "crashed" an exception nothing catches.                     *)
Outcomes == {"none", "filed", "warned", "no-tracker", "4", "crashed", "killed"}
----
(* Defect variant of Verdict: no target. *)
VerdictBare(class, fix, target) == [class |-> class, fix |-> fix, inferred |-> FALSE]

(* classify_failure: the first signal of the note decides. *)

Verdict(class, fix, target) ==
    [class |-> class, fix |-> fix, target |-> target, inferred |-> FALSE]
Unknown == Verdict("unknown", "needs-human", "")

MissingModule(s, m) ==
    IF m \in DOMAIN Mapped             THEN Verdict("pip-3rd-party", "auto-safe", Mapped[m])
    ELSE IF <<s, m>> \in Local \cup ModuleMode THEN Verdict("wrong-cwd", "propose-only", m)
    ELSE                                    Verdict("pip-unknown", "propose-only", m)

Classify(s, n) ==
    IF n.syntax               THEN Verdict("code-bug", "needs-human", "")
    ELSE IF n.missing # None  THEN MissingModule(s, n.missing)
    ELSE IF n.key # None      THEN Verdict("env-missing", "propose-only", n.key)
    ELSE IF n.words           THEN Verdict("env-missing", "propose-only", "")
    ELSE IF n.nofile          THEN Verdict("wrong-cwd", "propose-only", "")
    ELSE Unknown

(* The fix kind of a diagnosis derives from its class: never auto-safe.    *)
FixKindOf(class) ==
    IF class \in {"code-bug", "unknown"} THEN "needs-human" ELSE "propose-only"

Diagnosed(reply) ==
    [class |-> reply.class, fix |-> FixKindOf(reply.class),
     target |-> reply.target, inferred |-> TRUE]

(* Defect variant of Eligible: the class alone.                            *)
EligibleByClass(p) == p.class = "pip-3rd-party"

Eligible(p) ==
    /\ p.class = "pip-3rd-party"
    /\ ~p.inferred
    /\ p.target \in {Mapped[m] : m \in DOMAIN Mapped}

(* One issue per class and target; its hash names the members, too.        *)
Filed(ps)    == {s \in DOMAIN ps : ps[s].fix \in {"propose-only", "needs-human"}}
HashOf(ps, s) ==
    [class |-> ps[s].class, target |-> ps[s].target,
     members |-> {t \in Filed(ps) : ps[t].class = ps[s].class /\ ps[t].target = ps[s].target}]
Clusters(ps) == {HashOf(ps, s) : s \in Filed(ps)}
----
NoProposals == [s \in {} |-> Unknown]
NoNotes     == [s \in {} |-> None]

Init ==
    /\ note \in Fleets
    /\ changes = 0
    /\ lock = None
    /\ pc = [r \in Runs |-> "idle"]
    /\ options = [r \in Runs |-> [file |-> FALSE, armed |-> FALSE, calls |-> 0]]
    /\ rows = [r \in Runs |-> NoNotes]
    /\ props = [r \in Runs |-> NoProposals]
    /\ pending = [r \in Runs |-> {}]
    /\ asked = [r \in Runs |-> 0]
    /\ records = [r \in Runs |-> {}]
    /\ installed = [r \in Runs |-> {}]
    /\ envelope = [r \in Runs |-> {}]
    /\ known = [r \in Runs |-> {}]
    /\ refs = [r \in Runs |-> {}]
    /\ issues = {}
    /\ exit = [r \in Runs |-> "none"]
    /\ overlapped = {}

run   == <<options, rows, props, pending, asked, records, installed, envelope, known, refs, exit>>
world == <<note, changes, lock, issues, overlapped>>

Goto(r, phase) == pc' = [pc EXCEPT ![r] = phase]

(* What the process kept to itself is gone with it. *)
End(r, code) ==
    /\ Goto(r, "ended")
    /\ exit' = [exit EXCEPT ![r] = code]
    /\ lock' = IF lock = r THEN None ELSE lock
    /\ pending' = [pending EXCEPT ![r] = {}]
    /\ asked' = [asked EXCEPT ![r] = 0]
    /\ known' = [known EXCEPT ![r] = {}]
    /\ refs' = [refs EXCEPT ![r] = {}]

(* The prober, under the lock, heals a row or finds it failing; a human     *)
(* closes issues.                                                           *)
Reprobe(s) ==
    /\ changes < MaxChanges
    /\ lock = None
    /\ \E n \in (Notes \cup {None}) \ {note[s]} : note' = [note EXCEPT ![s] = n]
    /\ changes' = changes + 1
    /\ UNCHANGED <<lock, pc, run, issues, overlapped>>

Close(i) ==
    /\ changes < MaxChanges
    /\ i.open
    /\ issues' = (issues \ {i}) \cup {[i EXCEPT !.open = FALSE]}
    /\ changes' = changes + 1
    /\ UNCHANGED <<note, lock, pc, run, overlapped>>
----
Begin(r) ==
    /\ pc[r] = "idle"
    /\ \E o \in CommandLines :
        /\ options' = [options EXCEPT ![r] = o]
        /\ Goto(r, IF o.armed THEN "wait" ELSE "read")
    /\ UNCHANGED <<world, rows, props, pending, asked, records, installed, envelope,
                   known, refs, exit>>

Acquire(r) ==
    /\ pc[r] = "wait"
    /\ lock = None
    /\ lock' = r
    /\ Goto(r, "read")
    /\ UNCHANGED <<note, changes, run, issues, overlapped>>

(* Defect variant of Abstained: Hermes is asked about every row. *)
AbstainedAll(ps) == DOMAIN ps

Abstained(ps) == {s \in DOMAIN ps : ps[s].class = "unknown"}

(* The deterministic pass. *)
Read(r) ==
    /\ pc[r] = "read"
    /\ LET bad == {s \in Slugs : note[s] # None}
           ps  == [s \in bad |-> Classify(s, note[s])]
       IN  /\ rows' = [rows EXCEPT ![r] = [s \in bad |-> note[s]]]
           /\ props' = [props EXCEPT ![r] = ps]
           /\ pending' = [pending EXCEPT ![r] =
                    IF options[r].calls > 0 THEN Abstained(ps) ELSE {}]
    /\ Goto(r, "diagnose")
    /\ UNCHANGED <<world, options, asked, records, installed, envelope, known, refs, exit>>

(* One Hermes request about the next rows, while the budget lasts.  *)
NextBatch(r) ==
    {b \in SUBSET pending[r] :
        Cardinality(b) = IF Cardinality(pending[r]) < Batch THEN Cardinality(pending[r]) ELSE Batch}

Asks(r) == pc[r] = "diagnose" /\ pending[r] # {} /\ asked[r] < options[r].calls

Answered(r) ==
    /\ Asks(r)
    /\ \E b \in NextBatch(r) : \E reply \in [b -> Replies \cup {None}] :
        /\ props' = [props EXCEPT ![r] = [s \in DOMAIN props[r] |->
                IF s \in b /\ reply[s] # None THEN Diagnosed(reply[s])
                ELSE props[r][s]]]
        /\ pending' = [pending EXCEPT ![r] = pending[r] \ b]
    /\ asked' = [asked EXCEPT ![r] = asked[r] + 1]
    /\ UNCHANGED <<world, pc, options, rows, records, installed, envelope, known, refs, exit>>

(* Refused, timed out, not a 200, or not to be parsed: the rows stay       *)
(* unknown and the attempt is recorded.                                    *)
Degraded(r) ==
    /\ Asks(r)
    /\ \E b \in NextBatch(r) :
        /\ records' = [records EXCEPT ![r] = records[r] \cup b]
        /\ pending' = [pending EXCEPT ![r] = pending[r] \ b]
    /\ asked' = [asked EXCEPT ![r] = asked[r] + 1]
    /\ UNCHANGED <<world, pc, options, rows, props, installed, envelope, known, refs, exit>>

(* The connection is dropped while the answer is awaited: an OSError that  *)
(* the adapter does not catch and the command takes for a failed write.    *)
Dropped(r) ==
    /\ Asks(r)
    /\ End(r, "4")
    /\ UNCHANGED <<note, changes, issues, overlapped, options, rows, props, records,
                   installed, envelope>>

(* Defect variant of Diagnosis: every row must have been asked about.      *)
DiagnosisDrained(r) ==
    /\ pc[r] = "diagnose"
    /\ pending[r] = {}
    /\ pending' = [pending EXCEPT ![r] =
            IF options[r].armed THEN {s \in DOMAIN props[r] : Eligible(props[r][s])} ELSE {}]
    /\ Goto(r, "fix")
    /\ UNCHANGED <<world, options, rows, props, asked, records, installed, envelope,
                   known, refs, exit>>

(* Rows beyond the budget stay unknown.  *)
Diagnosis(r) ==
    /\ pc[r] = "diagnose"
    /\ ~Asks(r)
    /\ pending' = [pending EXCEPT ![r] =
            IF options[r].armed THEN {s \in DOMAIN props[r] : Eligible(props[r][s])} ELSE {}]
    /\ Goto(r, "fix")
    /\ UNCHANGED <<world, options, rows, props, asked, records, installed, envelope,
                   known, refs, exit>>

(* SafeFixer.apply on one proposal: refused, or installed and probed; only *)
(* a passed probe flips the row, in a commit of its own.                   *)
Fix(r, s) ==
    /\ pc[r] = "fix"
    /\ s \in pending[r]
    /\ pending' = [pending EXCEPT ![r] = pending[r] \ {s}]
    /\ \E outcome \in {"refused", "install-failed", "timeout", "reprobe-failed", "fixed"} :
        /\ installed' = [installed EXCEPT ![r] =
                IF outcome = "refused" THEN installed[r] ELSE installed[r] \cup {s}]
        /\ note' = IF outcome = "fixed" THEN [note EXCEPT ![s] = None] ELSE note
    /\ UNCHANGED <<changes, lock, issues, overlapped, pc, options, rows, props, asked, records,
                   envelope, known, refs, exit>>

(* Defect variant of Fixed: the issues are filed before the file is written.*)
FixedFilesFirst(r) ==
    /\ pc[r] = "fix"
    /\ pending[r] = {}
    /\ Goto(r, "list")
    /\ UNCHANGED <<world, run>>

Fixed(r) ==
    /\ pc[r] = "fix"
    /\ pending[r] = {}
    /\ Goto(r, "write")
    /\ UNCHANGED <<world, run>>
----
(* write_proposals replaces the file at once, or leaves it as it was. *)
Write(r) ==
    /\ pc[r] = "write"
    /\ envelope' = [envelope EXCEPT ![r] = {[props |-> props[r], records |-> records[r]]}]
    /\ Goto(r, "list")
    /\ UNCHANGED <<world, options, rows, props, pending, asked, records, installed, known,
                   refs, exit>>

WriteFails(r) ==
    /\ pc[r] = "write"
    /\ End(r, "4")
    /\ UNCHANGED <<note, changes, issues, overlapped, options, rows, props, records,
                   installed, envelope>>

(* Without paperclip.sh nothing is filed; a dry run asks the tracker       *)
(* nothing.                                                                *)
Unavailable(r) ==
    /\ pc[r] = "list"
    /\ End(r, "no-tracker")
    /\ UNCHANGED <<note, changes, issues, overlapped, options, rows, props, records,
                   installed, envelope>>

FilingNow(r) == {q \in Runs \ {r} : options[r].file /\ pc[q] = "file" /\ options[q].file}

(* Defect variant of OpenHashes: the open issues are not asked for.        *)
OpenHashesNone(r) == {}

OpenHashes(r) == IF options[r].file THEN {i.hash : i \in {j \in issues : j.open}} ELSE {}

List(r) ==
    /\ pc[r] = "list"
    /\ known' = [known EXCEPT ![r] = OpenHashes(r)]
    /\ overlapped' = overlapped \cup {{r, q} : q \in FilingNow(r)}
    /\ Goto(r, "file")
    /\ UNCHANGED <<note, changes, lock, issues, options, rows, props, pending, asked, records,
                   installed, envelope, refs, exit>>

(* Defect variant of Todo: a cluster is known by its class and target.     *)
TodoByKey(r) ==
    {h \in Clusters(props[r]) :
        \A k \in known[r] \cup refs[r] : <<k.class, k.target>> # <<h.class, h.target>>}

Todo(r) == Clusters(props[r]) \ (known[r] \cup refs[r])

Create(r) ==
    /\ pc[r] = "file"
    /\ \E h \in {c \in Todo(r) : c.target # None} :
        /\ refs' = [refs EXCEPT ![r] = refs[r] \cup {h}]
        /\ issues' = IF options[r].file THEN issues \cup {[by |-> r, hash |-> h, open |-> TRUE]}
                     ELSE issues
    /\ UNCHANGED <<note, changes, lock, overlapped, pc, options, rows, props, pending, asked,
                   records, installed, envelope, known, exit>>

(* paperclip.sh fails, with or without having created the issue: the       *)
(* command warns and exits 0.                                              *)
TrackerFails(r) ==
    /\ options[r].file
    /\ \/ pc[r] = "list" /\ issues' = issues
       \/ /\ pc[r] = "file"
          /\ \E h \in {c \in Todo(r) : c.target # None} :
                issues' \in {issues, issues \cup {[by |-> r, hash |-> h, open |-> TRUE]}}
    /\ End(r, "warned")
    /\ UNCHANGED <<note, changes, overlapped, options, rows, props, records,
                   installed, envelope>>

(* A target that is not text cannot be hashed.                             *)
Unhashable(r) ==
    /\ pc[r] = "file"
    /\ \E h \in Todo(r) : h.target = None
    /\ End(r, "crashed")
    /\ UNCHANGED <<note, changes, issues, overlapped, options, rows, props, records,
                   installed, envelope>>

Filing(r) ==
    /\ pc[r] = "file"
    /\ Todo(r) = {}
    /\ End(r, "filed")
    /\ UNCHANGED <<note, changes, issues, overlapped, options, rows, props, records,
                   installed, envelope>>

Die(r) ==
    /\ pc[r] \notin {"idle", "ended"}
    /\ End(r, "killed")
    /\ UNCHANGED <<note, changes, issues, overlapped, options, rows, props, records,
                   installed, envelope>>

(* Hermes, pip and the probe have timeouts, paperclip.sh has none.         *)
Work(r) ==
    \/ Read(r)
    \/ Answered(r) \/ Degraded(r) \/ Dropped(r) \/ Diagnosis(r)
    \/ (\E s \in Slugs : Fix(r, s)) \/ Fixed(r)
    \/ Write(r) \/ WriteFails(r)
Tracker(r) ==
    \/ Unavailable(r) \/ List(r) \/ Create(r) \/ TrackerFails(r) \/ Unhashable(r) \/ Filing(r)

Next ==
    \/ \E s \in Slugs : Reprobe(s)
    \/ \E i \in issues : Close(i)
    \/ \E r \in Runs : Begin(r) \/ Acquire(r) \/ Work(r) \/ Tracker(r) \/ Die(r)

Spec     == Init /\ [][Next]_vars
FairSpec == Spec /\ \A r \in Runs : WF_vars(Work(r))
----
(* Every variable keeps its shape. *)
TypeOK ==
    /\ note \in [Slugs -> Notes \cup {None}]
    /\ changes \in 0..MaxChanges
    /\ lock \in Runs \cup {None}
    /\ pc \in [Runs -> Phases]
    /\ options \in [Runs -> Options]
    /\ \A r \in Runs :
        /\ DOMAIN rows[r] \subseteq Slugs
        /\ \A s \in DOMAIN rows[r] : rows[r][s] \in Notes
        /\ DOMAIN props[r] = DOMAIN rows[r]
        /\ \A s \in DOMAIN props[r] : props[r][s] \in Proposal
        /\ pending[r] \cup records[r] \cup installed[r] \subseteq DOMAIN rows[r]
        /\ asked[r] \in 0..options[r].calls
        /\ known[r] \cup refs[r] \subseteq Hash
    /\ issues \subseteq Issue
    /\ exit \in [Runs -> Outcomes]

(* "proposals.json is the reconciliation source of truth if filing later    *)
(* crashes": whatever a run filed before it died is a cluster of the file    *)
(* that very run wrote.                                                      *)
EnvelopeFirst ==
    \A i \in issues : \E file \in envelope[i.by] : i.hash \in Clusters(file.props)

(* A cluster has one open issue however often the command is run, dies and  *)
(* is run again, except when two runs were filing at the same time; and of  *)
(* those at least one was not armed, for armed runs hold the lock.          *)
IssueOnce ==
    /\ \A i, j \in issues :
        i # j /\ i.open /\ j.open /\ i.hash = j.hash => {i.by, j.by} \in overlapped
    /\ \A p \in overlapped : \E r \in p : ~options[r].armed

(* A run that reports its issues filed left no proposal out: each row it    *)
(* could not fix by itself is named by an issue of its class and target.    *)
NothingForgotten ==
    \A r \in Runs : exit[r] = "filed" /\ options[r].file =>
        \A s \in Filed(props[r]) : \E i \in issues :
            /\ s \in i.hash.members
            /\ i.hash.class = props[r][s].class /\ i.hash.target = props[r][s].target

(* What Hermes says is never installed: packages are installed only for a   *)
(* row whose own note names a mapped import, by a run that was armed.       *)
OnlyMappedInstalled ==
    \A r \in Runs : \A s \in installed[r] :
        /\ options[r].armed
        /\ rows[r][s].missing \in DOMAIN Mapped
        /\ props[r][s].target = Mapped[rows[r][s].missing]

(* Hermes decides about abstained rows only, and a request that failed      *)
(* leaves them unknown and on record: in the file, too.                     *)
VerdictsStand ==
    \A r \in Runs : \A s \in DOMAIN props[r] :
        /\ props[r][s].inferred => Classify(s, rows[r][s]) = Unknown
        /\ ~props[r][s].inferred => props[r][s] = Classify(s, rows[r][s])
        /\ s \in records[r] => props[r][s] = Unknown
        /\ envelope[r] \subseteq {[props |-> props[r], records |-> records[r]]}

(* Hermes down, slow or confused, pip failing: a run that has what it needs *)
(* of the lock writes its file or ends, whatever paperclip.sh does to the   *)
(* other runs.                                                              *)
Reports == \A r \in Runs : pc[r] = "read" ~> envelope[r] # {} \/ pc[r] = "ended"
====
