---- MODULE Registry ----
(***************************************************************************)
(* The registry database under its command-line commands.  Each command is *)
(* a process: it waits for the sidecar file lock, loads rows into its      *)
(* session, works for as long as its probes and subprocesses take, and     *)
(* commits in one or more transactions.  A process may die at any point;   *)
(* the operating system then drops its lock.  The maintenance scripts of   *)
(* scripts/, tools/ and fleet-clis/ write the same rows without the lock.  *)
(***************************************************************************)
EXTENDS RegistryRows

CONSTANTS
    Procs,              \* command processes
    Free,               \* nobody holds the file lock
    Commands,           \* the locked commands in use
    Scripts,            \* the unlocked scripts in use
    InitialTables,      \* tables the registry may start from
    Lingering,          \* slugs whose program may leave a child that holds its output
    MaxBegun,           \* bound: commands and scripts begun in a behaviour
    MaxTime             \* bound: the clock

VARIABLES
    rows,       \* the committed Cli and Capability tables
    edges,      \* the committed CliEdge table
    clock,
    lock,       \* the process in with_file_lock, or Free
    pc,         \* the phase each process is in
    job,        \* the command's parameters and progress
    loaded,     \* the rows each process holds in its session
    script,     \* the unlocked script under way
    begun,      \* commands and scripts begun so far
    torn,       \* a populate died between its two commits (history)
    registered  \* rows inserted by hand and never removed since (history)

vars == <<rows, edges, clock, lock, pc, job, loaded, script, begun, torn, registered>>

CommandNames == {"populate", "probe", "smoke", "remediate", "ingest", "backfill", "hygiene"}
ScriptNames  == {"seed", "reclassify", "envgate", "disable", "reeval", "judge", "register"}
Phases       == CommandNames \cup {"idle", "wait", "edges", "commit", "filing"}

(* Where a database may start: no pass without its smoke, no placeholder    *)
(* that is marked as written by hand.                                       *)
SoundRow(row) ==
    /\ row.work = "pass" => row.launch.smoke # NoSmoke
    /\ row.descProv = "manual" => row.desc # "placeholder"

ASSUME RegistryAssumption ==
    /\ Free \notin Procs
    /\ Commands \subseteq CommandNames
    /\ Scripts \subseteq ScriptNames
    /\ Lingering \subseteq Slugs
    /\ InitialTables \subseteq Table
    /\ \A t \in InitialTables : \A s \in Existing(t) : SoundRow(t[s])
    /\ MaxBegun \in Nat /\ MaxTime \in Nat

NoJob == [cmd |-> "idle", feed |-> NoFeed, sel |-> {}, proposal |-> [s \in Slugs |-> {}],
          began |-> 0, network |-> FALSE, dry |-> FALSE, live |-> FALSE]
NoScript   == [kind |-> "none", sel |-> {}, loaded |-> [s \in Slugs |-> NoRow]]
EmptyTable == [s \in Slugs |-> NoRow]

Job == [cmd : Commands \cup {"idle"}, feed : Incoming \cup {NoFeed}, sel : SUBSET Slugs,
        proposal : [Slugs -> SUBSET Capability], began : Nat,
        network : BOOLEAN, dry : BOOLEAN, live : BOOLEAN]

Init ==
    /\ rows \in InitialTables
    /\ edges = DesiredEdges(rows)
    /\ clock = 0
    /\ lock = Free
    /\ pc = [p \in Procs |-> "idle"]
    /\ job = [p \in Procs |-> NoJob]
    /\ loaded = [p \in Procs |-> EmptyTable]
    /\ script = NoScript
    /\ begun = 0
    /\ torn = FALSE
    /\ registered = {}

----
(* Entering and leaving a command *)

NewJob(c, dry, sel, proposal) ==
    [cmd |-> c, feed |-> NoFeed, sel |-> sel, proposal |-> proposal,
     began |-> 0, network |-> FALSE, dry |-> dry, live |-> FALSE]

(* The backfill makes its proposals from a table it reads before locking.  *)
Begin(p) ==
    /\ pc[p] = "idle"
    /\ begun < MaxBegun
    /\ \/ \E c \in Commands \ {"backfill"}, dry \in BOOLEAN :
            /\ dry => c \in {"populate", "probe", "smoke"}
            /\ job' = [job EXCEPT ![p] = NewJob(c, dry, {}, NoJob.proposal)]
       \/ \E proposal \in Proposals :
            /\ "backfill" \in Commands
            /\ job' = [job EXCEPT ![p] =
                    NewJob("backfill", FALSE, {s \in Existing(rows) : rows[s].enabled}, proposal)]
    /\ begun' = begun + 1
    /\ pc' = [pc EXCEPT ![p] = "wait"]
    /\ UNCHANGED <<rows, edges, clock, lock, loaded, script, torn, registered>>

(* Inside the lock a command first loads its rows; populate has just read  *)
(* the feed, and drops from it the records whose script is gone.           *)
Admit(p, j) ==
    \/ /\ j.cmd = "populate"
       /\ \E f \in Incoming : job' = [job EXCEPT ![p].feed = f]
    \/ /\ j.cmd = "probe"
       /\ \E sel \in SUBSET Slugs : job' = [job EXCEPT ![p].sel = sel, ![p].began = clock]
    \/ /\ j.cmd = "smoke"
       /\ \E sel \in SUBSET Slugs, network \in BOOLEAN :
            job' = [job EXCEPT ![p].sel = Selected(rows, sel), ![p].network = network]
    \/ /\ j.cmd = "remediate"
       /\ \E sel \in SUBSET {s \in Existing(rows) : rows[s].health = "unhealthy"} :
            job' = [job EXCEPT ![p].sel = sel]
    \/ /\ j.cmd = "ingest"
       /\ \E sel \in SUBSET Slugs : job' = [job EXCEPT ![p].sel = sel]
    \/ /\ j.cmd \in {"backfill", "hygiene"}
       /\ job' = job

(* Defect variant of Acquire: nobody waits for the lock.                    *)
AcquireAtOnce(p) ==
    /\ pc[p] = "wait"
    /\ lock' = p
    /\ pc' = [pc EXCEPT ![p] = job[p].cmd]
    /\ loaded' = [loaded EXCEPT ![p] = rows]
    /\ Admit(p, job[p])
    /\ UNCHANGED <<rows, edges, clock, script, begun, torn, registered>>

Acquire(p) ==
    /\ pc[p] = "wait"
    /\ lock = Free
    /\ lock' = p
    /\ pc' = [pc EXCEPT ![p] = job[p].cmd]
    /\ loaded' = [loaded EXCEPT ![p] = rows]
    /\ Admit(p, job[p])
    /\ UNCHANGED <<rows, edges, clock, script, begun, torn, registered>>

Leave(p) ==
    /\ lock' = IF lock = p THEN Free ELSE lock
    /\ pc' = [pc EXCEPT ![p] = "idle"]
    /\ job' = [job EXCEPT ![p] = NoJob]
    /\ loaded' = [loaded EXCEPT ![p] = EmptyTable]

(* The process is killed, or an exception leaves the command: what it did  *)
(* not commit is lost, the lock is dropped.                                *)
Die(p) ==
    /\ pc[p] # "idle"
    /\ Leave(p)
    /\ torn' = (torn \/ pc[p] = "edges")
    /\ UNCHANGED <<rows, edges, clock, script, begun, registered>>

(* --dry-run of populate, probe and smoke: report, write nothing.  *)
ReportOnly(p) ==
    /\ pc[p] \in {"populate", "probe", "smoke"}
    /\ job[p].dry
    /\ Leave(p)
    /\ UNCHANGED <<rows, edges, clock, script, begun, torn, registered>>
----
(* populate: refuse, or upsert and remove in one transaction and recompute *)
(* the call graph in a second one.                                         *)

PopulateRefuse(p) ==
    /\ pc[p] = "populate"
    /\ ~job[p].dry
    /\ BreakerTrips(loaded[p], job[p].feed)
    /\ Leave(p)
    /\ UNCHANGED <<rows, edges, clock, script, begun, torn, registered>>

(* The first record's INSERT opens the transaction. A row of that slug,    *)
(* inserted by hand between populate's last look for it and that INSERT,   *)
(* makes it fail.  Any row inserted sooner was found and is taken over;    *)
(* none can be inserted later.                                             *)
Clash(p) ==
    \E s \in DOMAIN job[p].feed : loaded[p][s] = NoRow /\ rows[s] # NoRow

PopulateClash(p) ==
    /\ pc[p] = "populate"
    /\ ~job[p].dry
    /\ ~BreakerTrips(loaded[p], job[p].feed)
    /\ Clash(p)
    /\ Leave(p)
    /\ UNCHANGED <<rows, edges, clock, script, begun, torn, registered>>

(* Defect variant of PopulateUpsert: the breaker is not consulted.          *)
PopulateUpsertAnyway(p) ==
    /\ pc[p] = "populate"
    /\ ~job[p].dry
    /\ rows' = PopulateRows(rows, loaded[p], job[p].feed)
    /\ pc' = [pc EXCEPT ![p] = "edges"]
    /\ registered' = registered \cap Existing(rows')
    /\ UNCHANGED <<edges, clock, lock, job, loaded, script, begun, torn>>

PopulateUpsert(p) ==
    /\ pc[p] = "populate"
    /\ ~job[p].dry
    /\ ~BreakerTrips(loaded[p], job[p].feed)
    /\ rows' = PopulateRows(rows, loaded[p], job[p].feed)
    /\ pc' = [pc EXCEPT ![p] = "edges"]
    /\ registered' = registered \cap Existing(rows')
    /\ UNCHANGED <<edges, clock, lock, job, loaded, script, begun, torn>>

(* Defect variant of PopulateEdges: the call graph is left as it was.       *)
PopulateEdgesNot(p) ==
    /\ pc[p] = "edges"
    /\ Leave(p)
    /\ UNCHANGED <<rows, edges, clock, script, begun, torn, registered>>

PopulateEdges(p) ==
    /\ pc[p] = "edges"
    /\ edges' = DesiredEdges(rows)
    /\ torn' = FALSE
    /\ Leave(p)
    /\ UNCHANGED <<rows, clock, script, begun, registered>>

Probe(p) ==
    /\ pc[p] = "probe"
    /\ ~job[p].dry
    /\ \E passed \in SUBSET Probed(loaded[p], job[p].sel) :
          rows' = ProbeRows(rows, loaded[p], job[p].sel, passed, job[p].began)
    /\ Leave(p)
    /\ UNCHANGED <<edges, clock, script, begun, torn, registered>>

(* After its first commit a session reloads a row when it next reads it. *)
Held(p, s) == IF job[p].live THEN rows[s] ELSE loaded[p][s]

(* Defect variant of SmokeSkip: a gated row is tried again.                 *)
SmokeSkipNot(p) ==
    /\ pc[p] = "smoke"
    /\ \E s \in job[p].sel : Gated(Held(p, s), job[p].network)
    /\ UNCHANGED vars

SmokeSkip(p) ==
    /\ pc[p] = "smoke"
    /\ ~job[p].dry
    /\ \E s \in job[p].sel :
        /\ Gated(Held(p, s), job[p].network)
        /\ job' = [job EXCEPT ![p].sel = @ \ {s}]
    /\ UNCHANGED <<rows, edges, clock, lock, pc, loaded, script, begun, torn, registered>>

SmokeWrite(p) ==
    /\ pc[p] = "smoke"
    /\ ~job[p].dry
    /\ \E s \in job[p].sel : \E verdict \in Verdicts(Held(p, s)) :
        /\ ~Gated(Held(p, s), job[p].network)
        /\ rows' = [rows EXCEPT ![s] = SmokeRow(rows[s], Held(p, s), verdict)]
        /\ job' = [job EXCEPT ![p].sel = @ \ {s}, ![p].live = TRUE]
    /\ UNCHANGED <<edges, clock, lock, pc, loaded, script, begun, torn, registered>>

(* Defect variant of RemediateFix: any row of the table, not one it chose.  *)
RemediateFixAny(p) ==
    /\ pc[p] = "remediate"
    /\ \E s \in Existing(rows) : rows' = [rows EXCEPT ![s] = FixRow(rows[s])]
    /\ UNCHANGED <<edges, clock, lock, pc, job, loaded, script, begun, torn, registered>>

(* A fix whose re-probe exits 0 flips its row; any other leaves no trace. *)
RemediateFix(p) ==
    /\ pc[p] = "remediate"
    /\ \E s \in job[p].sel :
        /\ rows' = [rows EXCEPT ![s] = FixRow(rows[s])]
        /\ job' = [job EXCEPT ![p].sel = @ \ {s}, ![p].live = TRUE]
    /\ UNCHANGED <<edges, clock, lock, pc, loaded, script, begun, torn, registered>>

(* The last row is done: smoke_rows and the armed remediation without      *)
(* --file return.                                                          *)
SweepEnds(p) ==
    /\ \/ pc[p] = "smoke" /\ job[p].sel = {}
       \/ pc[p] = "remediate"
    /\ Leave(p)
    /\ UNCHANGED <<rows, edges, clock, script, begun, torn, registered>>

(* With --file it turns to the tracker, still inside the lock. *)
FileIssues(p) ==
    /\ pc[p] = "remediate"
    /\ pc' = [pc EXCEPT ![p] = "filing"]
    /\ UNCHANGED <<rows, edges, clock, lock, job, loaded, script, begun, torn, registered>>

(* paperclip.sh has answered or failed, if it ever does: no call of it has *)
(* a timeout.                                                              *)
FilingEnds(p) ==
    /\ pc[p] = "filing"
    /\ Leave(p)
    /\ UNCHANGED <<rows, edges, clock, script, begun, torn, registered>>
----
Ingest(p) ==
    /\ pc[p] = "ingest"
    /\ rows' = IngestRows(rows, job[p].sel)
    /\ Leave(p)
    /\ UNCHANGED <<edges, clock, script, begun, torn, registered>>

(* backfill --commit: the sanity verdicts in one transaction (a verdict    *)
(* nobody could give is skipped), then the proposals in another.           *)
BackfillPersist(p) ==
    /\ pc[p] = "backfill"
    /\ \E judged \in SUBSET job[p].sel : rows' = PersistRows(rows, judged)
    /\ pc' = [pc EXCEPT ![p] = "commit"]
    /\ UNCHANGED <<edges, clock, lock, job, loaded, script, begun, torn, registered>>

(* Defect variant of BackfillCommit: writes back what was loaded first.     *)
BackfillCommitStale(p) ==
    /\ pc[p] = "commit"
    /\ rows' = CommitRows(loaded[p], job[p].sel, job[p].proposal)
    /\ Leave(p)
    /\ UNCHANGED <<edges, clock, script, begun, torn, registered>>

BackfillCommit(p) ==
    /\ pc[p] = "commit"
    /\ rows' = CommitRows(rows, job[p].sel, job[p].proposal)
    /\ Leave(p)
    /\ UNCHANGED <<edges, clock, script, begun, torn, registered>>

Hygiene(p) ==
    /\ pc[p] = "hygiene"
    /\ \E missing \in SUBSET Placeholders(rows) : rows' = HygieneRows(rows, missing)
    /\ Leave(p)
    /\ UNCHANGED <<edges, clock, script, begun, torn, registered>>

Tick ==
    /\ clock < MaxTime
    /\ clock' = clock + 1
    /\ UNCHANGED <<rows, edges, lock, pc, job, loaded, script, begun, torn, registered>>

Step(p) ==
    \/ Acquire(p) \/ ReportOnly(p)
    \/ PopulateRefuse(p) \/ PopulateClash(p) \/ PopulateUpsert(p) \/ PopulateEdges(p)
    \/ Probe(p) \/ SmokeSkip(p) \/ SmokeWrite(p)
    \/ RemediateFix(p) \/ SweepEnds(p) \/ FileIssues(p)
    \/ Ingest(p) \/ BackfillPersist(p) \/ BackfillCommit(p) \/ Hygiene(p)

LockedNext == Tick \/ \E p \in Procs : Begin(p) \/ Step(p) \/ FilingEnds(p) \/ Die(p)
----
(* The unlocked scripts: read, take their time, write.  judge is a dry run *)
(* of the backfill, which writes its sanity verdicts all the same.         *)

Targets(k) ==
    CASE k = "seed"       -> {s \in Existing(rows) : rows[s].launch.layout # "install"}
      [] k = "reclassify" -> {s \in Existing(rows) : rows[s].health # "healthy"}
      [] k = "envgate"    -> {s \in Existing(rows) : rows[s].health # "healthy"}
      [] k = "disable"    -> {s \in Existing(rows) : rows[s].enabled}
      [] k = "reeval"     -> {s \in Existing(rows) \cap NoParser :
                                rows[s].enabled /\ rows[s].health # "healthy"}
      [] k = "judge"      -> {s \in Existing(rows) : rows[s].enabled}
      [] k = "register"   -> Slugs

ScriptRead ==
    /\ script = NoScript
    /\ begun < MaxBegun
    /\ \E k \in Scripts : \E sel \in SUBSET Targets(k) :
        /\ sel # {}
        /\ k = "register" => Cardinality(sel) = 1
        /\ k = "disable" => 100 * Cardinality(sel) < Threshold * Cardinality(Existing(rows))
        /\ script' = [kind |-> k, sel |-> sel, loaded |-> rows]
    /\ begun' = begun + 1
    /\ UNCHANGED <<rows, edges, clock, lock, pc, job, loaded, torn, registered>>

(* apply.sh keeps at most one manual capability and drops any other row.   *)
ManualCaps(old, port) ==
    {[prov |-> "manual", port |-> port]}
    \cup IF \E c \in old : c.prov = "manual" THEN {c \in old : c.prov # "manual"} ELSE {}

(* register_cli.py inserts the row, or refreshes its launch_spec and its   *)
(* description; whether it keeps a smoke is not said.                      *)
RegisteredRow(s, smoke, port, health) ==
    IF rows[s] = NoRow
    THEN [NewRow([text |-> "feed", ns |-> FALSE, port |-> port]) EXCEPT
            !.cls = "manual_register", !.caps = ManualCaps({}, port), !.health = health]
    ELSE [rows[s] EXCEPT !.caps = ManualCaps(@, port), !.desc = "feed",
            !.launch = [layout |-> "feed",
                        smoke |-> IF smoke = @.smoke THEN smoke ELSE NoSmoke]]

ScriptRow(k, s, smoke, port, health) ==
    CASE k = "seed"       -> [rows[s] EXCEPT !.launch = [script.loaded[s].launch EXCEPT !.smoke = smoke]]
      [] k = "reclassify" -> [rows[s] EXCEPT !.health = "healthy"]
      [] k = "envgate"    -> [rows[s] EXCEPT !.health = "skipped_needs_env"]
      [] k = "disable"    -> [rows[s] EXCEPT !.enabled = FALSE, !.health = "unknown"]
      [] k = "reeval"     -> [rows[s] EXCEPT !.ns = TRUE, !.health = "not_standalone"]
      [] k = "judge"      -> [rows[s] EXCEPT !.caps = EnsuredCaps(@)]
      [] k = "register"   -> RegisteredRow(s, smoke, port, health)

ScriptWrite ==
    /\ script # NoScript
    /\ \E smoke \in Smokes, port \in Ports, health \in {"healthy", "unhealthy"} :
         rows' = [s \in Slugs |->
                    IF s \in script.sel /\ (rows[s] # NoRow \/ script.kind = "register")
                    THEN ScriptRow(script.kind, s, smoke, port, health) ELSE rows[s]]
    /\ registered' = registered \cup {s \in script.sel : rows[s] = NoRow /\ script.kind = "register"}
    /\ script' = NoScript
    /\ UNCHANGED <<edges, clock, lock, pc, job, loaded, begun, torn>>

ScriptNext == ScriptRead \/ ScriptWrite

Next == LockedNext \/ ScriptNext

(* The registry when every writer takes the lock, and as it is.  *)
LockedSpec == Init /\ [][LockedNext]_vars
Spec       == Init /\ [][Next]_vars

(* The command runs a program that leaves a child with its output open.    *)
(* Closing the pipe waits for the thread that reads it, and that one for   *)
(* the child, whatever the timeout.                                        *)
Lingers(p) ==
    \/ pc[p] = "probe" /\ Probed(loaded[p], job[p].sel) \cap Lingering # {}
    \/ /\ pc[p] = "smoke"
       /\ \E s \in job[p].sel \cap Lingering :
             SmokeOf(Held(p, s)) # NoSmoke /\ ~Gated(Held(p, s), job[p].network)

(* A command that has its lock goes on: the lock is a blocking one, and    *)
(* the other waits inside it have timeouts.  The tracker may never answer: *)
(* nothing makes FilingEnds happen.                                        *)
FairSpec == Spec /\ \A p \in Procs : WF_vars(Step(p) /\ ~Lingers(p))
----
Inside(p) == pc[p] \notin {"idle", "wait"}

(* Every variable has its type; a history variable and the locals of an    *)
(* idle process say nothing.                                               *)
TypeOK ==
    /\ rows \in Table
    /\ edges \subseteq Edge
    /\ clock \in Nat
    /\ lock \in Procs \cup {Free}
    /\ pc \in [Procs -> Phases]
    /\ job \in [Procs -> Job]
    /\ loaded \in [Procs -> Table]
    /\ begun \in Nat
    /\ torn \in BOOLEAN
    /\ registered \subseteq Slugs

(* with_file_lock: whoever is inside a command holds the lock, and no one  *)
(* else is inside; and what a command loaded is still what the database    *)
(* holds when it comes to write it back (a probe sweep or a populate       *)
(* works for minutes between the two).                                     *)
SessionsFresh ==
    \A p \in Procs :
        /\ Inside(p) <=> lock = p
        /\ Inside(p) /\ pc[p] \notin {"edges", "commit"} /\ ~job[p].live => loaded[p] = rows

(* With every writer under the lock, each commit of each command is one    *)
(* step of the serial registry: a function of the table it commits to.     *)
Serial == INSTANCE RegistrySerial WITH rows <- rows, edges <- edges, clock <- clock
SerialSpec == Serial!Spec

(* populate's delete guard: a row whose source_class is not the feed's is  *)
(* never deleted, whatever the feed holds and whoever dies or interleaves. *)
ForeignRowsKept ==
    [][\A s \in Existing(rows) : rows[s].cls \notin FeedOwned => rows'[s] # NoRow]_vars

(* What an operator or the backfill owns outlives every command for as     *)
(* long as the row does: a manual capability stays as it is, a row with a  *)
(* preserved capability keeps one, and a marked description keeps its mark *)
(* (manual stays manual) and, if manual, its text, but for okf-ingest.     *)
OwnersKept ==
    [][\A s \in Existing(rows) \cap Existing(rows') :
        /\ {c \in rows[s].caps : c.prov = "manual"} \subseteq rows'[s].caps
        /\ (\E c \in rows[s].caps : c.prov \in Preserved)
              => \E c \in rows'[s].caps : c.prov \in Preserved
        /\ rows[s].descProv \in Preserved => rows'[s].descProv \in Preserved
        /\ rows[s].descProv = "manual" =>
              /\ rows'[s].descProv = "manual"
              /\ rows'[s].desc \in {rows[s].desc, "okf"}]_vars

(* The mass-removal breaker bounds every step by the rows that are there   *)
(* when it commits, not by those that were there when it decided.          *)
BreakerBounds ==
    [][LET gone == Existing(rows) \ Existing(rows')
       IN  gone # {} => 100 * Cardinality(gone) < Threshold * Cardinality(Existing(rows))]_vars

(* The call graph names no removed slug, except between populate's two     *)
(* commits or after a populate that died between them.                     *)
NoDanglingEdges ==
    ~torn /\ (\A p \in Procs : pc[p] # "edges")
        => \A e \in edges : {e[1], e[2]} \subseteq Existing(rows)

(* A hand-written smoke is never erased from a row: docs/launch-spec.md,   *)
(* populate keeps the smoke key when it rewrites launch_spec; the prober's *)
(* refresh keeps the keys that are not its own.                            *)
SmokeNeverErased ==
    [][\A s \in Existing(rows) \cap Existing(rows') :
        rows[s].launch.smoke # NoSmoke => rows'[s].launch.smoke # NoSmoke]_vars

(* A pass earned by an operator run of a gated smoke is taken away only by *)
(* another run that was allowed to execute it, or from a row the registry  *)
(* holds to be no standalone CLI.                                          *)
GatedPassSurvives ==
    [][\A s \in Existing(rows) \cap Existing(rows') :
        rows[s].work = "pass" /\ rows'[s].work # "pass" /\ ~rows[s].ns
            => rows[s].launch.smoke \in SafeSmokes \/ \E p \in Procs : job[p].network]_vars

(* work_status is evidence: a row that passed has the smoke it passed.     *)
PassHasSmoke ==
    \A s \in Existing(rows) : rows[s].work = "pass" => rows[s].launch.smoke # NoSmoke

(* A row registered by hand is not the feed's to delete, whatever the feed *)
(* says (core/populate.py:22).                                             *)
RegisteredRowsKept == [][\A s \in registered : rows'[s] # NoRow]_vars

(* Only a foreign program can keep the lock: a command that got it comes   *)
(* to its end, however its rivals run or die and whatever the rows it      *)
(* sweeps are, unless it is an armed remediation waiting for paperclip.sh  *)
(* (paperclip_adapter.py:42 and 57) or a sweep waiting for a child that a  *)
(* program left (prober.py:114, smoke.py:103).  Which waiter gets the lock *)
(* next, and that each of them does, flock does not say.                   *)
LockReleased ==
    \A p \in Procs : (lock = p) ~> (lock # p \/ pc[p] = "filing" \/ Lingers(p))
====
