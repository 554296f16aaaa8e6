# A TLA+ model of a2a-cli-registry

This directory models the registry: a local SQLite database of command-line
tools, what its commands and maintenance scripts do to it when they run side by
side and die half way, how they open it, the server that answers from it, the
planner that searches it, the passes that mend its failing rows and describe
its undescribed ones with the help of an LLM, and the webhook bus that is to
announce its changes. The modules are written from the source; every definition
that stands for code names its lines in `PROJECT.json` under `map`.

## 1. Inventory of the system

| Part | State it keeps | Operations | What makes it correct |
|---|---|---|---|
| Tables (`core/models.py`) | `Cli`, `Capability`, `CliEdge`, `Subscriber`, `Delivery` | none of their own | columns owned by one writer are not lost to another |
| Populate (`core/populate.py`) | reads a feed file into `Cli`, `Capability` | upsert, guarded removal, dry run | never removes what the feed does not own, never a mass of rows, keeps hand-written data |
| Call graph (`core/graph/edges.py`) | `CliEdge` | recompute at the end of populate | names no removed CLI |
| Prober (`core/prober/prober.py`) | `health_status`, its date, part of `launch_spec` | sweep of all or some slugs | verdicts have dates, hand-set keys survive |
| Smoke runner (`core/prober/smoke.py`) | `work_status` | sweep, one commit per row | a gated smoke's verdict is left alone; a pass has its smoke |
| Lock and sessions (`core/store/db.py`, `core/cli/main.py`) | `<db>.lock` | `with_file_lock` around mutating commands | what is written back is what was read; the lock is given up |
| Backfill (`tools/backfill_capabilities.py` and helpers) | descriptions, capabilities, their provenance; a proposals and a report file | propose, judge and repair before the lock, two transactions under it; replay of the files | never touches what is marked manual, commits only what was judged, keeps what the source proves |
| Hygiene (`tools/registry_hygiene.py`) | placeholder rows, typed outputs | one transaction under the lock | same |
| OKF (`core/okf/`) | a bundle of Markdown concepts | produce, ingest | the round trip changes descriptions only |
| Remediation (`core/remediation/`) | `proposals.json`, issues, `health_status` | classify, diagnose, fix, write envelope, file | envelope before filing, a cluster filed once, nothing left out, only mapped packages installed |
| Scripts (`scripts/`, `tools/reclassify_*`, `fleet-clis/*/seed/apply.sh`) | the same rows | read, work, write, **without the lock** | see the findings |
| Notifier (`core/notifier/bus.py`) | `Subscriber.seq`, `Delivery` | `enqueue_event`, `deliver` | numbers accounted for and in order, verdicts earned and final |
| Schema (`core/store/db.py`, `core/store/migrations.py`) | tables, columns, the owner that moved with a column | create, check then `ALTER`, migrate | idempotent under races and deaths |
| Planner (`core/planner/`) | none | breadth-first search over the call graph | every chain delivers by hops the prune admits, the best is not missed |
| Playbooks (`core/playbooks/`) | full-text index | drop and rebuild on read | a reader sees a whole index |
| Server, A2A, MCP | one connection for all requests, one MCP session | REST and MCP requests | a request sees what it built; no transaction is left open |
| Catalog, cards, ARD, web, TUI | none | read-only queries | not stateful |

The parts meet in the database. A mutating command holds a sidecar file lock,
loads rows into an ORM session, works for seconds to minutes (subprocesses,
probes, LLM calls), and commits: once (probe, ingest, hygiene), once per row
(smoke, armed remediation), or in two transactions (populate: rows then edges;
backfill: verdicts then proposals). The maintenance scripts write the same rows
with no lock. So the hard behaviour is: stale sessions written back, a process
that dies between two commits, owners overwriting each other over a sequence of
commands, boundaries (breaker, time to live), and in the notifier concurrent
callers and crashes between commits; in the passes that ask an LLM, answers
that are late, wrong or missing, and files or issues that outlive the run; in
the server, requests that share one connection. `PROJECT.json` lists them as hazards with
the property that covers each, or the reason none does yet.

## 2. Modules

| Module | What it is |
|---|---|
| `RegistryRows` | the tables, and the effect of each command's transaction on them, as operators |
| `Registry` | processes, lock, sessions, deaths, unlocked scripts: one action per step |
| `RegistrySerial` | the abstract specification: one table, one transaction at a time |
| `Notifier` | `enqueue_event` and `deliver` with concurrent, crashing callers |
| `Planner` | one `plan_chain` request over the tables while they change, and the probe |
| `Remediation` | overlapping remediation runs, the tracker, Hermes, the prober's new notes |
| `Extractor` | what the static extractor reads off a source, as operators |
| `Backfill` | overlapping backfill runs, their files, gates and commits (extends `Extractor`) |
| `Schema` | commands that open a database of any age at once |
| `Server` | the server's requests over one connection, beside the commands (extends `Schema`) |
| `MCRegistry`, `MCNotifier`, `MCPlanner`, `MCRemediation`, `MCBackfill`, `MCServer` | constants for TLC |
| `RegistryProofs` | invariants and safety theorems of `Registry`, with the scripts and under the lock |
| `RegistryKeepsProofs` | what rows and edges keep under the lock: smokes, passes, owners, ends |
| `RegistryRefinement` | `Registry` under the lock implements `RegistrySerial` |
| `NotifierProofs` | invariants and safety theorems of `Notifier` |
| `PlannerProofs` | invariants and safety theorems of `Planner` |
| `RemediationProofs` | invariants and safety theorems of `Remediation` |
| `BackfillProofs` | invariants and safety theorems of `Backfill` |
| `ServerProofs` | invariants and safety theorems of `Schema` and `Server` |

### Registry: state and actions

A `Row` is a `Cli` row with the `Capability` rows of its slug; a table maps each
slug to a row or `NoRow`. `rows` and `edges` are what is committed. For each
process `pc` is the phase (`idle`, `wait` for the lock, then the command's
name; `edges` and `commit` are the gaps between the two transactions of
populate and backfill, `filing` is an armed remediate that files under the lock), `job` its parameters and progress, `loaded` the rows in
its session. `lock` is the process inside `with_file_lock`. `clock` is the time
the prober compares with the time to live. `torn` and `registered` are history
variables.

* `Begin` takes the command line (dry run included). The backfill makes its
  proposals from the rows enabled now, before it has the lock (`run_pipeline`).
* `Acquire` gets the lock and loads the rows; `Admit` fixes what the command
  reads at that moment: populate its feed (less the records whose script is
  gone, when `drop_missing_paths` is set), probe its selection and start time,
  smoke the enabled rows and whether gated ones may run, remediation the
  unhealthy rows it will fix.
* `PopulateRefuse`, `PopulateClash`, `PopulateUpsert`, `PopulateEdges`: breaker,
  a failed INSERT, first commit, second commit. Populate looks each slug up once
  more before it writes it (`Got`), so a row inserted by hand since the first
  read is taken over like any other. Only the first record can fail: its INSERT
  opens the transaction, and a row inserted between that lookup and the INSERT
  meets it; `PopulateClash` may happen there, and need not.
* `Probe`: one commit of all verdicts. A row is not standalone, unprobeable
  (stale or unknown) or probed (healthy or unhealthy, a free choice).
* `SmokeSkip`, `SmokeWrite`, `SweepEnds`: one row at a time. Rows come in any
  order, of which the code's sorted order is one.
* `RemediateFix`: a fix whose re-probe succeeded; any other fix writes nothing
  (it may, as `fixed_by`, only note that it was tried). After the last one
  `SweepEnds` is the return without `--file`; with it `FileIssues` turns to the
  tracker inside the lock, and `FilingEnds` is the tracker's answer or failure.
* `Ingest`, `BackfillPersist`, `BackfillCommit`, `Hygiene`.
* `Die` at any point: uncommitted work and the lock are gone. It also stands for
  an exception that ends the command and for the backfill's refusal to commit.
* `ScriptRead`, `ScriptWrite`: the unlocked scripts, one at a time: the smoke seed, the three
  reclassifiers, disabling of missing paths, re-evaluation, hand registration,
  and the dry run of the backfill (`judge`), which saves sanity verdicts, and an
  empty capability row where there is none, without the lock.

Three details of the ORM matter and are modelled. A session writes only the
columns whose value differs from the one it loaded (`Column`). A session that
committed reloads a row when it reads it next (`job.live`, `Held`). Populate
reads the old capability rows while it already holds SQLite's write lock, so
`FeedCaps` sees the committed ones.

`LockedSpec` is the registry in which every writer takes the lock, `Spec` adds
the unlocked scripts.

What is abstracted: a description is one of five origins and a port one of the
instance's; `launch_spec` is its layout (as an install placeholder, as the feed
writes it, as the probe refreshes it) and its smoke; `work_checked_at`,
`a2a_invokable`, `fixed_by`, `bucket`, `project` and time stamps are left out;
a smoke that is present but empty counts as none; adapters that give no launch
fields are the install layout; a bundle is the set of slugs whose text differs;
the two percentages 0.30 of populate and of the disabling script share the
constant `Threshold`, and the code's float ratio is compared as integers. Of
`apply.sh`, the call of `register_cli.py` (not in the repository) and the
capability upsert that follows are one step, and whether `register_cli.py`
keeps a smoke is a free choice.

### RegistrySerial

What the lock is for: every commit of every command is a function of the table
as it is at that commit. There is no session, process or lock in it. The
refinement mapping is the identity on `rows`, `edges` and `clock`;
`Begin`, `Acquire`, `Die` and the other steps that write nothing stutter.

### Notifier

`seq` is the committed `Subscriber.seq`, `outbox` the committed `Delivery`
rows. A call of `enqueue_event` has a step `bump` (increment and commit, which
takes the previous subscriber's pending delivery row with it) and `read`
(refresh, a transaction of its own); `Return` is the final commit.
`EnqueueDies` loses what is pending but not the number. `deliver` loads
`attempts` before the POST; `Refused` writes that value plus one and maybe
`dead_lettered`, `Saved` writes `delivered`, `Unrecorded` is a crash or a commit
that fails. No caller of either function exists outside the tests, so callers
are free: several at once, retries of settled rows. `accepted`, `failures`,
`died`, `lost` and a call's `earlier` are history. Payload, signature and the address
guard are left out.

### Planner

`caps`, `disabled` and `edges` are the committed tables as the planner sees
them; `PopulateRows` and `PopulateEdges` are the two commits of populate, and
`torn` says that the second is outstanding or never came. A request reads the
capability rows (`ReadCaps`), then the edges (`ReadEdges`), adds the edges to
the action's performers that no hub rule lets persist (`Synthesized`), and
searches from each start (`Start`) by `Prune`, `Finish`, `Expand` or, at a slug
it has no rows for, `Fail`. The queue is the set of partial chains, which the
code takes out in order; since the result is sorted at the end, the order
matters only among chains that compare equal, and `Best` allows each. `Answer`
filters by producer terms, ranks by the code's sort key and cuts. `HopExcluded`
and `Reachable` are what `probe` reports of a slug. Text matching of a term is
the constant relation `Matches`.

### Remediation

A run has a phase `pc` and what it read (`rows`), concluded (`props`), has left
to ask or fix (`pending`), wrote (`envelope`) and filed (`refs`, `issues`).
`Read`, then `Answered`, `Degraded` or `Dropped` for each batch Hermes gets
until the cap or the end (`Diagnosis`), then for an armed run `Fix` for each
row, `Write`, `List`, `Create` per cluster, `Filing`. `Classify` is the order of
signals in a note, `Eligible` the rule of the fixer, `HashOf` the identity of a
cluster: class, target and members; `envelope` is empty until the file is
written. `Reprobe` is the prober changing a note,
`Close` the operator closing an issue. `Unavailable`, `TrackerFails`,
`WriteFails`, `Unhashable` (a target that is not text) and `Die` are how a run
ends early. `overlapped` and `installed` are history variables.

### Extractor and Backfill

A source is a set of declared arguments, imports and calls; `Extracted` is what
`extract_capability` makes of it, `FileOutputs` the ports its literal
destinations prove. A backfill run reads the enabled rows once and computes its
proposals, verdicts and repairs in one step (`Propose`): no shared state is
touched meanwhile, and what the router answers is a free choice per call. Then
come the steps others can see: `Look` and `DryVerdicts` (a dry run's unlocked
verdicts, the lookup that precedes the transaction apart from the rest),
`WriteProposals`, `WriteReport`, `Gate` or `Refuse`, `Acquire`, `Persist`,
`Commit`; for a replay `LoadProposals` and `LoadReport` in their place. `Others`
is what populate, hygiene and an operator do to the rows. `judged` is a history
variable: the proposals the verdicts are about.

### Schema and Server

`proc[p].path` is what is left of a command (`init`, `lock`, `read`, `write`,
`serve`, in the order `main.py` has them for it), `step` and `todo` where it is
inside `init_db`. `txn` is SQLite's single writer; a statement that needs it
while another holds it waits five seconds and may then raise (`Locked`).
`create_all` looks for all tables first and then creates what it missed, so two
of them race (`CreateFails`); the owner migration looks again inside its
transaction (`Migrate`).

`Server` adds the requests of the process that serves: `work` is the playbook
index as its one connection sees it, `disk` as committed. An `INSERT` opens a
transaction, DDL commits itself unless one is open, and `Commit` or `Rollback`
of one request takes along what another has in flight. A REST request ends with
its session and a rollback, the MCP session never ends.

## 3. Runs

| Run | Of | Checks | Shows | States |
|---|---|---|---|---|
| `registry_feed` | `LockedSpec` | `TypeOK`, `SessionsFresh`, `NoDanglingEdges`, `OwnersKept`, `SerialSpec` | two processes run populate, ingest, backfill and hygiene over three slugs and feeds that shrink: sessions are fresh, manual data survives, edges dangle only in populate's gap, every commit is a serial step | 75,888 |
| `registry_sweep` | `LockedSpec` | `PassHasSmoke`, `SmokeNeverErased`, `GatedPassSurvives`, `SerialSpec` | populate, probe, smoke and the armed fix while the clock moves: smokes and gated passes survive, a pass has its smoke | 162,426 |
| `registry_scripts` | `FairSpec` | `ForeignRowsKept`, `BreakerBounds`, `LockReleased` | all seven commands and the seven unlocked writers: what holds without the lock, and that only a foreign program without a timeout can keep it | 66,992 |
| `notifier` | `FairSpec` | `TypeOK`, `SeqAccounts`, `SeqInOrder`, `EnqueueCompletes`, `VerdictsEarned`, `VerdictsFinal` | two callers of each function on the same rows, crashing: no increment is lost, a later call numbers higher, a call that lives serves everybody, verdicts are earned and final | 211,436 |
| `planner` | `FairSpec` | `TypeOK`, `ChainsDeliver`, `AnswerIsBest`, `FailsOnlyTorn`, `ProbeExplains`, `Terminates` | seven fleets, eleven requests, a populate or a disable between the two reads: what is planned delivers, nothing the code's rule admits is missed | 19,888 |
| `remediation` | `FairSpec` | `TypeOK`, `EnvelopeFirst`, `IssueOnce`, `NothingForgotten`, `OnlyMappedInstalled`, `VerdictsStand`, `Reports` | two overlapping, dying runs, a tracker that hangs or fails, a Hermes that is late, wrong or down | 873,095 |
| `backfill` | `Spec` | `EvidenceKept`, `CommitsEarned`, `OutageNeverCondemns`, `OrphansOnlyUnlocked` | two overlapping backfills (dry, committing, replaying), outages, repairs, deaths, rows that change owner | 1,455,506 |
| `server` | `ServerSpec` | `InitSound`, `OwnersMigrated`, `AloneComplete`, `IdleHoldsNothing` | remediate opens a new, cut short, old or current database beside the server or a command that locks before or after `init_db`; then requests share one connection | 689,869 |
| `registry_registered` | `Spec` | `RegisteredRowsKept`, **violated** | finding 1 | |
| `registry_smoke_lost` | `Spec` | `SmokeNeverErased`, **violated** | finding 2 | |
| `notifier_seq` | `Spec` | `SeqUnique`, **violated** | finding 3 | |
| `planner_effects` | `Spec` | `UnverifiedEffectsExcluded`, **violated** | finding 4 | |

Bounds. `MaxBegun` limits the commands and scripts begun in a behaviour (3: two
of them interleaved and a third after or during a death; 2 in the runs with
many commands), `MaxTime` the clock, `MaxPosts` the calls of `deliver` and
`Posted` the subscribers they are for (one of two, with its two rows: rows do
not touch one another there; two attempts that fail and one that races them
are what it takes to settle a row twice). Three
slugs let a feed lose less, exactly and more than half of the table
(`Threshold` 50); with two slugs a threshold of 60 makes removal of one legal
and of both not, without the boundary, which `registry_feed` has. Two
processes are enough for every pairwise interleaving of a read and a write; the
theorems below are for any number. Starting tables: empty, as populated, with
rows registered by hand and with manual descriptions and capabilities, with a
gated and a safe smoke, with an installed row, with a slug missing, and with a row the last sweep
found not standalone.

`MaxCommits` (1) is what others commit during a plan: the two reads of a request
have one gap, and a populate before it, in it, cut short or followed by its
edges are all the cases there are; depth 3 on four slugs has chains that reach
the bound, cycles, two performers and a cut to one answer. `MaxChanges` is the
changes of notes by the prober (1) or of the tables by others (1): with two runs
a change before, between and after them. Hermes gets one row per batch and one
call, so that one row is answered and another is not. The backfill's threshold
is a half instead of a tenth: with one row a failure refuses, with two it is
tolerated and two are not. `MaxRequests` is three requests on a current
database, two overlapping and one after them, and one on the others, where the
question is the race of schema creation; `MaxWrites` is one commit of a command,
enough to make a signature stale.

`CHECK_DEADLOCK FALSE` because the bounds let every
behaviour end; processes and slugs are symmetric only where no property or
constant names them (`SYMMETRY` over processes and runs, in runs without liveness).

Fairness. The registry's `FairSpec` gives weak fairness to those steps of a command
whose waits inside the lock have a timeout: ten seconds for a probe, a minute for
a smoke by default, those of `pip`, of a re-probe in the fixer and of Hermes
(whose timeout is per read of the socket: that it does not answer a byte at a
time is assumed). Two waits have none and get no fairness. An armed remediation
with `--file` calls `paperclip.sh` (`FilingEnds`). And a probed or smoked program
that leaves a child behind, outside its process group or after a normal exit,
with its output open: the timeout is for the program alone, and closing the pipe
waits for the thread that reads it, which waits for the child
(`prober.py:114`, `smoke.py:103`). `Lingering` is the set of slugs whose program
may do so, one of two in `registry_scripts`, and `Lingers` the moment. So
`LockReleased` says that who holds the lock gives it up or is held by one of
these. Getting the lock in any order has no fairness: `flock` promises none, and
starvation of a waiter is not excluded. In the notifier weak fairness is on `enqueue_event`
only, which waits for the database alone; `deliver` may never be called. The
planner's search is a loop that waits for nothing. In the remediation it is on
the steps up to the proposals file, whose waits have timeouts (Hermes, `pip`, the
probe), and not on the tracker: `paperclip.sh` is called without one, so a run
may hang there for ever, holding the lock if it is armed. `Reports` is about
runs that have got past the lock for that reason. A backfill and the server are
checked for safety only.

`mutants` in `PROJECT.json` gives for each property of each passing run one
plausible bug that makes TLC report the property violated; their forms stand
before the definitions they replace, marked "Defect variant".

### Findings

1. **A hand-registered row becomes the feed's.** `core/populate.py:111` sets
   `source_class` on every row the feed names. A row registered by hand whose
   slug the feed lists once belongs to the feed afterwards, and a later feed
   without it deletes it with its manual capability, against the comment at
   line 22. `apply.sh` writes the slug to the feed in the same breath in which
   it registers the row.
2. **A seeded smoke can be erased.** `scripts/apply_smoke_seed.py` takes no
   lock; a probe or populate that loaded the row earlier writes its
   `launch_spec` back, without the smoke. Among locked commands it is safe
   (`registry_sweep`).
3. **Two deliveries of a subscriber can carry one number.** The increment in
   `enqueue_event` is atomic, its read-back is not part of it. No number is
   lost (`SeqAccounts`), but one is used twice and one not at all.
4. **An unverified effect hides behind a worse one.** The docstring at
   `core/planner/search.py:64` excludes a hop that carries an inferred effect the
   caller did not allow. The code looks at the slug's worst effect only, so an
   inferred `writes-fs` passes behind a `network` that is declared or allowed.
   `Consented` states what the code does, and `AnswerIsBest` is about that.

Seen while modelling and not turned into a run of their own; where a property
holds only with an exception, the exception is named in it:

* Lock and schema. `core/cli/main.py:66` says the lock is held before `init_db`
  so that two first runs cannot race; only discover and okf-ingest do so, the
  others call `init_db` first (line 326), and the loser of a race for a table
  ends with "already exists" (`InitSound`, second conjunct). Line 285 says
  remediation without `--apply-safe` never writes the database, but
  `ensure_fixed_by_column` may alter it without the lock.
* `core/store/migrations.py:29` says no command can read a database until the
  `work_status` columns exist, "unlike fixed_by"; but every `select(Cli)` names
  `fixed_by` too, and remediate, the one command that would add it, reads the
  rows first and exits 2 (`InitSound`, third conjunct).
* Server. `core/store/db.py:54` speaks of proper isolation of the sessions;
  requests share one connection, so overlapping playbook requests fail or read
  half an index (`AloneComplete` is about requests that are alone), and an MCP
  call that fails half way leaves the server's write transaction open until the
  next request rolls it back (the exception in `IdleHoldsNothing`).
* Remediation. `hermes_adapter.py:4` says Hermes never fails the pass; a dropped
  connection ends it with exit 4 and a diagnosis whose target is not text with a
  crash. `paperclip_adapter.py:18` says that what is not filed is re-filed by
  the caller; no caller does. A tracker that fails half way is reported with
  `issues_filed=0` although issues exist. `remediate-run.sh` works on copies of
  the database, so the lock does not serialise live runs.
* Prober. `prober.py:67` says that a probe is killed after ten seconds; one whose
  program leaves a child with its output open waits for that child, inside the
  lock (the exception `Lingers` in `LockReleased`).
* Backfill. A replay compares the slugs of its two files only
  (`backfill_capabilities.py:363`), so files of two runs may be committed
  together, with verdicts about other proposals (`CommitsEarned` asks for the
  very text only of a commit that judged its own).
* Extractor. Lines 436-437 say that sibling subcommands do not contaminate each
  other; `args.file.write_text(...)` in a subcommand whose only argument is
  `file` is nevertheless "none" when a sibling declares `file` and another
  argument (`OutputAttrs` is a union over parsers). With `open(args.file, "w")`
  it is "writes-fs".
* `deliver` promises that no exception reaches its caller, but the commit of a
  failed attempt (`bus.py:201`) is not wrapped.

## 4. Proofs

All proofs hold for every value of the constants that the named assumptions
allow. `RowsAssumption`: finitely many slugs, feeds and proposals of the right
types, a proposal's capability is `static` or `llm`. `RegistryAssumption`: among
other types, that each initial table is one the commands can have left behind
(`SoundRow`: a pass has its smoke, a manual description is not a placeholder).
`NotifierAssumption`, `PlannerAssumption`, `RemediationAssumption` and
`BackfillAssumption` are about types and bounds only. `ExtractorAssumption` says
that a saved canvas is one of the file ports, `EarlierAssumption` that the files
a replay may find were generated by an earlier run from the same sources.
`SchemaAssumption`: the list of tables has `cli` and `capability` and nothing
twice, a starting database has some of the tables and later columns.
`ServerAssumption`: the playbooks are a sequence, a query matches some of them, and
a dropped table is not one of the contents an index may have.

**Registry as it is** (`Spec`: commands under the lock, scripts without it).
`TypeOK` is not inductive: what populate writes is a table because the rows it
loaded minutes ago are still there, whoever wrote in between. `OpenInv` adds that
a process is inside a command if and only if it holds the lock (`Exclusive`),
what each phase knows of its job (`Working`: its feed is a feed, the rows it is
to smoke or fix are there), what a seed script had read (`ScriptRight`), and, the
point of it, `Stays(loaded[p], rows)`: scripts add rows and change them, but no row
a command has loaded disappears or changes its class before the command itself
removes it. `CommandStays` and `ScriptWriteStays` show that every write but one
keeps the rows that are there, and `UpsertRemoves` that populate's first commit
removes what it counted when it decided. From `OpenInv`:

* `TypeCorrect`;
* `ForeignRowsAreKept`: a row that is not the feed's was not the feed's when
  populate loaded it, or was not there to be loaded;
* `BreakerBoundsRemovals`: what goes is a share, below the threshold, of what was
  loaded, and at least as much is there now;
* `NoEdgeDangles` (in `RegistryKeepsProofs`): a removal leads to the gap between
  populate's commits, and what `DesiredEdges` computes joins rows that are there
  (`EdgesExist`).

**Registry under the lock** (`LockedSpec`: every writer takes it). With the
scripts what follows is false (finding 2), so the theorems are about the lock:
`Inv == TypeOK /\ SessionsFresh /\ JobsRight`, where `SessionsFresh` says that
what a command loaded is what is committed until it writes, and `JobsRight` that
the rows a sweep has yet to reach are as they were chosen and the start time has
passed. `LeavingKeepsInv` and `StayingKeepsInv` carry the two shapes of a step: a
command that writes and drops the lock, and one that writes and goes on. From
`Inv`, `LockKeepsSessionsFresh`, and `LockedImplementsSerial`: each action maps to
one action of `RegistrySerial` or to a stutter, because `loaded[p] = rows` when a
command writes.

`RegistryKeepsProofs` adds what a row keeps. `RowSteps` reduces every step, by
`Inv`, to one fact about each row: it is as it was, new, removed, or what one of
the command operators of `RegistryRows` makes of it. So each theorem is about
those operators alone: `SmokesAreKept`, `OwnersAreKept`, `GatedPassesSurvive`,
and `PassesHaveSmokes` with the invariant `RowsSound`.

**Notifier.** `WellFormed` (types, and a call under way has an event and a
subscriber where its step needs them) gives `TypeCorrect`; with what a worker
knows of its row (`RecordsEarned`) it gives `VerdictsAreEarned`: a worker's copy of
`attempts` never exceeds the failures, so lost increments only delay a dead
letter. `Settled` (the row a call has pending is not queued, and no two calls
have the same event) gives `VerdictsAreFinal`. `NumbersAccounted` adds that the
sets `SeqAccounts` counts are finite, which they are because each step adds at
most one element; no bound on events or callers is needed. `NumbersInOrder`
adds `NumbersBelow`: every queued number of a subscriber is at most its `seq`,
no call gives a number above it, and what was queued before a call began
(`earlier`, a history field of the call) is numbered below what the call has
taken. Calls that overlap may share a number (finding 3), calls that follow one
another cannot.

**Planner.** `TypeOK` is inductive. `Sound` says that every queued chain is a walk
whose hops but the last the prune admits (`Consented`, in `Judged`), and every
candidate one that delivers besides (`Kept`); `Quiet` that there is none of
either before the search, and that answers are candidates. From them
`SoundChains`. `Whole` says that edges read with no populate torn, pending or
since join slugs whose rows were read, and gives `FailureNeedsPopulate`. `Complete` is the other direction: during the search
every chain that is a walk, delivers and passes the prune (`Wanted`) is found, or
has its start or a beginning of it still queued (`Pending`). It is kept because
the prune drops no edge such a chain uses (`WantedNotPruned`), and a beginning
that is taken off the queue is either the chain itself or is extended towards it
(`WantedExtends`). When the queue is empty nothing is pending, which gives
`BestAnswer` without induction on the length of a chain. `Grounded` (every hop of a
candidate was indexed, from the rows as they still are) gives `ProbeAgrees`.

**Remediation.** The invariant is `AllRight /\ Locked /\ FilingRight`. `Right(r)`
is what one run knows at each phase: which rows have a verdict and of whom, what
is queued, what the file says, what was installed; it gives
`HermesVerdictsStand` and `OnlyMappedIsInstalled`. `Locked`: an armed run at work
holds the lock. `FilingRight` relates runs, files and issues: who filed has
written what it files (`Recorded`), what a run takes for filed is filed, and all
of it when it says so (`Accounted`), a run that files knows the open issues of
all but those it overlaps with (`Seen`, `Paired`), two runs that file together
are not both armed (`Unarmed`), and an open issue is the only one of its cluster
but for those (`Once`). None of the three stands by
itself: that an armed run does not file twice needs the lock, that nothing is
forgotten needs what the run judged. It gives `EnvelopeBeforeIssues`,
`IssuedOnce` and `NothingIsForgotten`. TLC checked each part as an invariant
first.

**Backfill.** `TypeOK` of `BackfillProofs` says more than types: every capability in
the tables, in a run's proposals and in the files is `Evident`, that is a generated
one claims at least the file outputs its source proves and a static one is what
the extractor reads. The files have to be in it, because a replay commits what
another run wrote. `AllPhased` is what a run knows in each phase: from the verdicts
on, they cover its proposals and, unless it replays, are about these very texts;
behind the gate, they pass it. `EvidenceIsKept` and `CommitsAreEarned` follow;
`OutagesNeverCondemn` and `OnlyUnlockedOrphans` are steps over them.

**Schema and server.** `SchemaInv` is what each statement of `init_db` knows: where
on its path a command is (`Routed`), that a table `create_all` has yet to create is
still on its list and a column that is missing still to be looked at (`Knows`),
that with every command locking first what one found missing stays missing
(`Excludes`), and what a command that is past `init_db`, or failed, found (`Found`).
It gives `OpensSoundly`; `SchemaInv` is kept by the server's steps too
(`ServesOnly`), which gives `ServesSoundly` and `OwnersCopiedOnce`.

`ServerInv` adds the one connection. `Writer`: who holds SQLite's transaction is a
migration, a command's write or a server that is up, and only the holder changes
the version. `Shared`: what the connection sees is what is committed unless a
transaction is open. `AloneOK`: nobody else is in flight beside a request that is
alone, what it has built of the index holds every hit that is not still to be
inserted (`Builds`), and its signatures are not older than it is (`Signs`). `Owned`:
an open transaction is that of a REST request, of an MCP call that is inserting,
or was left by one that an overlapping request made fail. An overlapped request
knows nothing of the index, which is why `AloneIsComplete` is about the others;
`IdleIsFree` is `Owned` with nobody in flight. TLC checked the parts of `SchemaInv`
and `ServerInv` as invariants of `server` first, and `OpenInv` as one of
`registry_scripts`.

**Model-checked only.** The liveness properties `LockReleased`, `EnqueueCompletes`,
`Terminates` and `Reports`: fairness and enabledness are beyond the proof system.
Every invariant and action property of the passing runs is stated by a theorem.

## 5. Not modelled

* OKF production and the front matter: files derived from rows; of the round trip
  only the ingest, which writes the registry, is modelled.
* The child process of a probe (`probe_one`: drain thread, kill, output cap): its
  outcome is a free choice in `Registry`.
* The port scan: the code promises nothing, and the server fails to start when
  it loses the port.
* Text: the matching of goals and notes, intent tags, prompts, the source analysis
  of `classify_standalone`, and what an LLM answers. Where a model needs the
  outcome it is a constant relation or a free choice.
* The routing of A2A and MCP requests, their tokens, and the catalog queries
  behind them: read-only, over the session that is modelled.
* The feed bridge (one-shot file conversions before populate reads them), the
  announcer (a stateless loop), cards, ARD, web and terminal views (rendering).

## 6. Plan

Done, in this order: the registry under the lock, its serial specification and
the refinement; the unlocked scripts; the notifier; remediation; schema; planner;
backfill with its files and gates; the playbook index in the server; the proofs
of section 4. Left, in the order of what it would add:

1. `OkfRoundTrip`: produce, edit, ingest, populate; which descriptions survive
   when the ingest leaves their provenance as it was.
2. `ProbeOne`: child, drain thread, timeout and kill; a verdict in bounded time,
   and a pipe that never blocks the child.
3. `PortScan`: probe, release, bind against another process.
