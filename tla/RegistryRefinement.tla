---- MODULE RegistryRefinement ----
(***************************************************************************)
(* The registry under its lock implements the serial registry: whatever    *)
(* the processes do and wherever they die, every commit is one transaction *)
(* on the table as it stands.                                              *)
(***************************************************************************)
EXTENDS RegistryProofs

(* The table's types and helpers mean the same in both specifications.     *)
LEMMA SameHelpers ==
    /\ \A t : Serial!Existing(t) = Existing(t)
    /\ \A c, l, n : Serial!Column(c, l, n) = Column(c, l, n)
    /\ Serial!Incoming = Incoming
  <1>1. \A t : Serial!Existing(t) = Existing(t)
    BY DEF Serial!Existing, Existing
  <1>2. \A c, l, n : Serial!Column(c, l, n) = Column(c, l, n)
    BY DEF Serial!Column, Column
  <1>3. Serial!Incoming = Incoming
    BY DEF Serial!Incoming, Incoming, Serial!Gone, Gone, Serial!Without, Without
  <1> QED
    BY <1>1, <1>2, <1>3

(* populate and the call graph mean the same in both specifications.       *)
LEMMA SameFeed ==
    /\ \A t, f : Serial!BreakerTrips(t, f) <=> BreakerTrips(t, f)
    /\ \A t, l, f : Serial!PopulateRows(t, l, f) = PopulateRows(t, l, f)
    /\ \A t : Serial!DesiredEdges(t) = DesiredEdges(t)
  <1>1. \A t, f : Serial!ToRemove(t, f) = ToRemove(t, f)
    BY SameHelpers DEF Serial!ToRemove, ToRemove, Serial!FeedOwned, FeedOwned
  <1>2. \A t, f : Serial!BreakerTrips(t, f) <=> BreakerTrips(t, f)
    BY SameHelpers, <1>1 DEF Serial!BreakerTrips, BreakerTrips, Serial!Cardinality, Cardinality
  <1>3. \A old, rec : Serial!FeedCaps(old, rec) = FeedCaps(old, rec)
    BY DEF Serial!FeedCaps, FeedCaps, Serial!Preserved, Preserved
  <1>4. \A rec : Serial!NewRow(rec) = NewRow(rec)
    BY <1>3 DEF Serial!NewRow, NewRow, Serial!NeverChecked, NeverChecked
  <1>5. \A row, old, rec : Serial!UpsertRow(row, old, rec) = UpsertRow(row, old, rec)
    <2> TAKE row, old, rec
    <2>1. \A c, l, n : Serial!Column(c, l, n) = Column(c, l, n)
      BY SameHelpers
    <2>2. Serial!FeedCaps(row.caps, rec) = FeedCaps(row.caps, rec) /\ Serial!Preserved = Preserved
      BY <1>3 DEF Serial!Preserved, Preserved
    <2> QED
      BY <2>1, <2>2 DEF Serial!UpsertRow, UpsertRow
  <1>6. \A t, l, f : Serial!PopulateRows(t, l, f) = PopulateRows(t, l, f)
    BY <1>4, <1>5, <1>1 DEF Serial!PopulateRows, PopulateRows, Serial!Got, Got
  <1>7. \A t : Serial!DesiredEdges(t) = DesiredEdges(t)
    BY DEF Serial!DesiredEdges, DesiredEdges, Serial!Edge, Edge, Serial!Outs, Outs,
           Serial!Ins, Ins, Serial!Tags, Tags, Serial!Caps, Caps
  <1> QED
    BY <1>2, <1>6, <1>7

(* So do the sweeps of probe, smoke and the remediation.                   *)
LEMMA SameSweeps ==
    /\ \A t, sel : Serial!Probed(t, sel) = Probed(t, sel)
    /\ \A t, l, sel, passed, now :
          Serial!ProbeRows(t, l, sel, passed, now) = ProbeRows(t, l, sel, passed, now)
    /\ \A old, network : Serial!Gated(old, network) <=> Gated(old, network)
    /\ \A old : Serial!Verdicts(old) = Verdicts(old)
    /\ \A row, old, v : Serial!SmokeRow(row, old, v) = SmokeRow(row, old, v)
    /\ \A row : Serial!FixRow(row) = FixRow(row)
  <1>1. \A t, sel : Serial!Selected(t, sel) = Selected(t, sel)
    BY DEF Serial!Selected, Selected
  <1>2. \A t, sel : Serial!NotStandalone(t, sel) = NotStandalone(t, sel)
    BY <1>1 DEF Serial!NotStandalone, NotStandalone
  <1>3. \A t, sel : Serial!Unprobeable(t, sel) = Unprobeable(t, sel)
    BY <1>1, <1>2 DEF Serial!Unprobeable, Unprobeable
  <1>4. \A t, sel : Serial!Probed(t, sel) = Probed(t, sel)
    BY <1>1, <1>2 DEF Serial!Probed, Probed
  <1>5. \A old, now : Serial!UnprobeableHealth(old, now) = UnprobeableHealth(old, now)
    BY DEF Serial!UnprobeableHealth, UnprobeableHealth, Serial!NeverChecked, NeverChecked
  <1>6. \A old : Serial!Refreshed(old) = Refreshed(old)
    BY DEF Serial!Refreshed, Refreshed
  <1>7. \A row, old, h, c, n : Serial!SweptRow(row, old, h, c, n) = SweptRow(row, old, h, c, n)
    <2> TAKE row, old, h, c, n
    <2>1. /\ Serial!Column(row.health, old.health, h) = Column(row.health, old.health, h)
          /\ Serial!Column(row.checked, old.checked, c) = Column(row.checked, old.checked, c)
          /\ Serial!Column(row.ns, old.ns, n) = Column(row.ns, old.ns, n)
          /\ Serial!Column(row.launch, old.launch, Serial!Refreshed(old))
                 = Column(row.launch, old.launch, Refreshed(old))
      BY <1>6, SameHelpers
    <2> QED
      BY <2>1 DEF Serial!SweptRow, SweptRow
  <1>8. ASSUME NEW t, NEW l, NEW sel, NEW passed, NEW now
        PROVE  Serial!ProbeRows(t, l, sel, passed, now) = ProbeRows(t, l, sel, passed, now)
    BY <1>2, <1>3, <1>4, <1>5, <1>7 DEF Serial!ProbeRows, ProbeRows
  <1>9. \A old : Serial!SmokeOf(old) = SmokeOf(old)
    BY DEF Serial!SmokeOf, SmokeOf
  <1>10. \A old, network : Serial!Gated(old, network) <=> Gated(old, network)
    BY <1>9 DEF Serial!Gated, Gated
  <1>11. \A old : Serial!Verdicts(old) = Verdicts(old)
    BY <1>9 DEF Serial!Verdicts, Verdicts
  <1>12. \A row, old, v : Serial!SmokeRow(row, old, v) = SmokeRow(row, old, v)
    BY SameHelpers DEF Serial!SmokeRow, SmokeRow
  <1>13. \A row : Serial!FixRow(row) = FixRow(row)
    BY DEF Serial!FixRow, FixRow
  <1> QED
    BY <1>4, <1>8, <1>10, <1>11, <1>12, <1>13

(* And okf-ingest, the backfill and hygiene.                               *)
LEMMA SameWriters ==
    /\ \A t, b : Serial!IngestRows(t, b) = IngestRows(t, b)
    /\ \A t, j : Serial!PersistRows(t, j) = PersistRows(t, j)
    /\ \A t, j, pr : Serial!CommitRows(t, j, pr) = CommitRows(t, j, pr)
    /\ \A t : Serial!Placeholders(t) = Placeholders(t)
    /\ \A t, m : Serial!HygieneRows(t, m) = HygieneRows(t, m)
  <1>1. \A t, b : Serial!IngestRows(t, b) = IngestRows(t, b)
    BY SameHelpers DEF Serial!IngestRows, IngestRows
  <1>2. \A old : Serial!EnsuredCaps(old) = EnsuredCaps(old)
    BY DEF Serial!EnsuredCaps, EnsuredCaps, Serial!EmptyPort, EmptyPort
  <1>3. \A t, j : Serial!PersistRows(t, j) = PersistRows(t, j)
    BY SameHelpers, <1>2 DEF Serial!PersistRows, PersistRows
  <1>4. \A row, caps : Serial!CommitRow(row, caps) = CommitRow(row, caps)
    BY <1>2 DEF Serial!CommitRow, CommitRow
  <1>5. \A t, j, pr : Serial!CommitRows(t, j, pr) = CommitRows(t, j, pr)
    BY SameHelpers, <1>4 DEF Serial!CommitRows, CommitRows
  <1>6. \A t : Serial!Placeholders(t) = Placeholders(t)
    BY SameHelpers DEF Serial!Placeholders, Placeholders
  <1>7. \A port, s : Serial!Typed(port, s) = Typed(port, s)
    BY DEF Serial!Typed, Typed
  <1>8. \A old, s : Serial!TypedCaps(old, s) = TypedCaps(old, s)
    BY <1>7 DEF Serial!TypedCaps, TypedCaps
  <1>9. \A row, s, m : Serial!HygieneRow(row, s, m) = HygieneRow(row, s, m)
    BY <1>8 DEF Serial!HygieneRow, HygieneRow
  <1>10. \A t, m : Serial!HygieneRows(t, m) = HygieneRows(t, m)
    BY SameHelpers, <1>9 DEF Serial!HygieneRows, HygieneRows
  <1> QED
    BY <1>1, <1>3, <1>5, <1>6, <1>10
----
(* A step that leaves the tables and the clock alone.                      *)
LEMMA QuietStep ==
    ASSUME NEW p \in Procs,
           \/ Begin(p) \/ Acquire(p) \/ Die(p) \/ ReportOnly(p) \/ PopulateRefuse(p)
           \/ PopulateClash(p) \/ SmokeSkip(p) \/ SweepEnds(p) \/ FileIssues(p) \/ FilingEnds(p)
    PROVE  UNCHANGED Serial!vars
  BY DEF Serial!vars, Begin, Acquire, Die, ReportOnly, PopulateRefuse, PopulateClash,
         SmokeSkip, SweepEnds, FileIssues, FilingEnds

(* populate's first commit is a serial Populate.                           *)
LEMMA PopulateStep ==
    ASSUME Inv, NEW p \in Procs, PopulateUpsert(p)
    PROVE  Serial!Populate
  <1>1. pc[p] = "populate" /\ JobRight(p)
    BY DEF PopulateUpsert, Inv, JobsRight
  <1>2. loaded[p] = rows /\ job[p].feed \in Incoming
    BY <1>1, PhaseInside, Fresh DEF JobRight, CommandNames
  <1>3. /\ ~BreakerTrips(rows, job[p].feed)
        /\ rows' = PopulateRows(rows, rows, job[p].feed)
        /\ UNCHANGED <<edges, clock>>
    BY <1>2 DEF PopulateUpsert
  <1>4. /\ job[p].feed \in Serial!Incoming
        /\ ~Serial!BreakerTrips(rows, job[p].feed)
        /\ rows' = Serial!PopulateRows(rows, rows, job[p].feed)
    BY <1>2, <1>3, SameHelpers, SameFeed
  <1> QED
    BY <1>3, <1>4 DEF Serial!Populate

(* populate's second commit is a serial Recompute.                         *)
LEMMA RecomputeStep ==
    ASSUME NEW p \in Procs, PopulateEdges(p)
    PROVE  Serial!Recompute
  BY SameFeed DEF PopulateEdges, Serial!Recompute

(* A sweep commits what a serial Probe would, dated when it began.         *)
LEMMA ProbeStep ==
    ASSUME Inv, NEW p \in Procs, Probe(p)
    PROVE  Serial!Probe
  <1>1. pc[p] = "probe" /\ JobRight(p) /\ job[p] \in Job /\ clock \in Nat
    BY DEF Probe, Inv, TypeOK, JobsRight
  <1>2. loaded[p] = rows
    BY <1>1, PhaseInside, Fresh DEF JobRight, CommandNames
  <1>3. job[p].sel \in SUBSET Slugs /\ job[p].began \in Nat
    BY <1>1 DEF Job
  <1>4. job[p].began \in 0..clock
    BY <1>1, <1>3 DEF JobRight
  <1>5. PICK passed \in SUBSET Probed(rows, job[p].sel) :
            rows' = ProbeRows(rows, rows, job[p].sel, passed, job[p].began)
    BY <1>2 DEF Probe
  <1>6. /\ passed \in SUBSET Serial!Probed(rows, job[p].sel)
        /\ rows' = Serial!ProbeRows(rows, rows, job[p].sel, passed, job[p].began)
    BY <1>5, SameSweeps
  <1>7. UNCHANGED <<edges, clock>>
    BY DEF Probe
  <1> QED
    BY <1>3, <1>4, <1>6, <1>7 DEF Serial!Probe

(* Each smoke verdict is a serial Smoke of the row as it stands.           *)
LEMMA SmokeStep ==
    ASSUME Inv, NEW p \in Procs, SmokeWrite(p)
    PROVE  Serial!Smoke
  <1>1. pc[p] = "smoke" /\ JobRight(p) /\ job \in [Procs -> Job] /\ job[p] \in Job
    BY DEF SmokeWrite, Inv, TypeOK, JobsRight
  <1>2. PICK s \in job[p].sel, verdict \in {"unknown", "pass", "fail"} :
            /\ verdict \in Verdicts(Held(p, s))
            /\ ~Gated(Held(p, s), job[p].network)
            /\ rows' = [rows EXCEPT ![s] = SmokeRow(rows[s], Held(p, s), verdict)]
    BY DEF SmokeWrite, Verdicts
  <1>3. Held(p, s) = rows[s] /\ s \in Existing(rows) /\ rows[s].enabled
    BY <1>1, <1>2, PhaseInside, Fresh DEF Held, JobRight, CommandNames
  <1>4. job[p].network \in BOOLEAN
    BY <1>1 DEF Job
  <1>5. /\ s \in Serial!Existing(rows)
        /\ verdict \in Serial!Verdicts(rows[s])
        /\ ~Serial!Gated(rows[s], job[p].network)
        /\ rows' = [rows EXCEPT ![s] = Serial!SmokeRow(rows[s], rows[s], verdict)]
    BY <1>2, <1>3, SameHelpers, SameSweeps
  <1>6. UNCHANGED <<edges, clock>>
    BY DEF SmokeWrite
  <1> QED
    BY <1>3, <1>4, <1>5, <1>6 DEF Serial!Smoke

(* Each armed fix is a serial Fix of a row that is still unhealthy.        *)
LEMMA FixStep ==
    ASSUME Inv, NEW p \in Procs, RemediateFix(p)
    PROVE  Serial!Fix
  <1>1. pc[p] = "remediate" /\ JobRight(p) /\ UNCHANGED <<edges, clock>>
    BY DEF RemediateFix, Inv, JobsRight
  <1>2. PICK s \in job[p].sel : rows' = [rows EXCEPT ![s] = FixRow(rows[s])]
    BY DEF RemediateFix
  <1>3. /\ s \in Serial!Existing(rows) /\ rows[s].health = "unhealthy"
        /\ rows' = [rows EXCEPT ![s] = Serial!FixRow(rows[s])]
    BY <1>1, <1>2, SameHelpers, SameSweeps DEF JobRight
  <1> QED
    BY <1>1, <1>3 DEF Serial!Fix

(* okf-ingest, both commits of the backfill, and hygiene.                  *)
LEMMA WriterStep ==
    ASSUME Inv, NEW p \in Procs,
           Ingest(p) \/ BackfillPersist(p) \/ BackfillCommit(p) \/ Hygiene(p)
    PROVE  Serial!Ingest \/ Serial!Persist \/ Serial!Commit \/ Serial!Hygiene
  <1>1. /\ job[p] \in Job /\ JobRight(p)
        /\ UNCHANGED <<edges, clock>>
    BY DEF Inv, TypeOK, JobsRight, Ingest, BackfillPersist, BackfillCommit, Hygiene
  <1>2. job[p].sel \in SUBSET Slugs
    BY <1>1 DEF Job
  <1>3. CASE Ingest(p)
    BY <1>1, <1>2, <1>3, SameWriters DEF Ingest, Serial!Ingest
  <1>4. CASE BackfillPersist(p)
    <2>1. PICK judged \in SUBSET job[p].sel : rows' = PersistRows(rows, judged)
      BY <1>4 DEF BackfillPersist
    <2> QED
      BY <1>1, <1>2, <2>1, SameWriters DEF Serial!Persist
  <1>5. CASE BackfillCommit(p)
    <2>1. job[p].proposal \in Proposals
      BY <1>1, <1>5 DEF JobRight, BackfillCommit
    <2>2. rows' = Serial!CommitRows(rows, job[p].sel, job[p].proposal)
      BY <1>5, SameWriters DEF BackfillCommit
    <2> QED
      BY <1>1, <1>2, <2>1, <2>2 DEF Serial!Commit
  <1>6. CASE Hygiene(p)
    <2>1. PICK missing \in SUBSET Placeholders(rows) : rows' = HygieneRows(rows, missing)
      BY <1>6 DEF Hygiene
    <2> QED
      BY <1>1, <2>1, SameWriters DEF Serial!Hygiene
  <1> QED
    BY <1>3, <1>4, <1>5, <1>6

(* Every step of the locked registry is a serial step or a stutter.        *)
LEMMA StepIsSerial == Inv /\ [LockedNext]_vars => [Serial!Next]_(Serial!vars)
  <1> SUFFICES ASSUME Inv, [LockedNext]_vars PROVE Serial!Next \/ UNCHANGED Serial!vars
    OBVIOUS
  <1>1. CASE Tick
    BY <1>1 DEF Tick, Serial!Tick, Serial!Next
  <1>2. ASSUME NEW p \in Procs, Begin(p) \/ FilingEnds(p) \/ Die(p) PROVE UNCHANGED Serial!vars
    BY <1>2, QuietStep
  <1>3. ASSUME NEW p \in Procs, Step(p) PROVE Serial!Next \/ UNCHANGED Serial!vars
    BY <1>3, QuietStep, PopulateStep, RecomputeStep, ProbeStep, SmokeStep, FixStep, WriterStep
    DEF Step, Serial!Next
  <1>4. CASE UNCHANGED vars
    BY <1>4 DEF vars, Serial!vars
  <1> QED
    BY <1>1, <1>2, <1>3, <1>4 DEF LockedNext

(* Under the lock every commit of every command is one step of the serial  *)
(* registry, whatever the number of processes and wherever they die.       *)
THEOREM LockedImplementsSerial == LockedSpec => SerialSpec
  <1>1. Init => Serial!Init
    BY SameFeed DEF Init, Serial!Init
  <1> QED
    BY <1>1, InvHolds, StepIsSerial, PTL DEF LockedSpec, SerialSpec, Serial!Spec
====
