---- MODULE RegistryKeepsProofs ----
(***************************************************************************)
(* What the commands leave alone in a row, for any number of processes,    *)
(* rows, feeds and proposals: since every session is fresh, a step changes *)
(* a row as one command's operator does, applied to the row as it is.      *)
(***************************************************************************)
EXTENDS RegistryProofs

(* The ways a locked step may change a row.                                *)
Changed(s, new) ==
    LET row == rows[s]
    IN  \/ new = row
        \/ \E rec : new = UpsertRow(row, row, rec)
        \/ \E health, checked, ns : new = SweptRow(row, row, health, checked, ns)
        \/ \E p \in Procs : \E verdict \in Verdicts(row) :
              ~Gated(row, job[p].network) /\ new = SmokeRow(row, row, verdict)
        \/ new = FixRow(row)
        \/ new = [row EXCEPT !.desc = "okf"]
        \/ new = [row EXCEPT !.caps = EnsuredCaps(@)]
        \/ \E proposal \in Proposals : new = CommitRow(row, proposal[s])
        \/ \E missing : new = HygieneRow(row, s, missing)

(* A row of the next table is new, or is the old one changed.              *)
RowStep(s) ==
    IF rows[s] = NoRow THEN \E rec : rows'[s] = NewRow(rec) ELSE Changed(s, rows'[s])

(* Steps that write no row.                                                *)
LEMMA QuietSteps ==
    ASSUME NEW p \in Procs,
           \/ Begin(p) \/ Acquire(p) \/ Die(p) \/ ReportOnly(p) \/ PopulateRefuse(p)
           \/ PopulateClash(p) \/ PopulateEdges(p) \/ SmokeSkip(p) \/ SweepEnds(p)
           \/ FileIssues(p) \/ FilingEnds(p)
    PROVE  UNCHANGED rows
  BY DEF Begin, Acquire, Die, ReportOnly, PopulateRefuse, PopulateClash, PopulateEdges,
         SmokeSkip, SweepEnds, FileIssues, FilingEnds

(* Every step does so to every row there is afterwards.                    *)
LEMMA RowSteps ==
    ASSUME Inv, [LockedNext]_vars, NEW s \in Existing(rows')
    PROVE  RowStep(s)
  <1>0. rows \in Table /\ s \in Slugs /\ rows'[s] # NoRow
    BY DEF Inv, TypeOK, Existing
  <1>1. CASE UNCHANGED rows
    BY <1>0, <1>1 DEF RowStep, Changed
  <1>2. ASSUME NEW p \in Procs, PopulateUpsert(p)
        PROVE  RowStep(s)
    <2>1. pc[p] = "populate" /\ JobRight(p)
      BY <1>2 DEF PopulateUpsert, Inv, JobsRight
    <2>2. loaded[p] = rows
      BY <2>1, PhaseInside, Fresh DEF JobRight, CommandNames
    <2>3. rows' = PopulateRows(rows, rows, job[p].feed)
      BY <1>2, <2>2 DEF PopulateUpsert
    <2>4. \/ s \in DOMAIN job[p].feed /\ rows[s] = NoRow /\ rows'[s] = NewRow(job[p].feed[s])
          \/ s \in DOMAIN job[p].feed /\ rows[s] # NoRow
             /\ rows'[s] = UpsertRow(rows[s], rows[s], job[p].feed[s])
          \/ rows'[s] = rows[s]
      BY <1>0, <2>3 DEF PopulateRows, Got
    <2> QED
      BY <1>0, <2>4 DEF RowStep, Changed
  <1>3. ASSUME NEW p \in Procs, Probe(p) PROVE RowStep(s)
    <2>1. pc[p] = "probe" /\ JobRight(p)
      BY <1>3 DEF Probe, Inv, JobsRight
    <2>2. loaded[p] = rows
      BY <2>1, PhaseInside, Fresh DEF JobRight, CommandNames
    <2>3. PICK passed : rows' = ProbeRows(rows, rows, job[p].sel, passed, job[p].began)
      BY <1>3, <2>2 DEF Probe
    <2>4. \/ \E health, checked, ns : rows'[s] = SweptRow(rows[s], rows[s], health, checked, ns)
                                      /\ s \in Selected(rows, job[p].sel)
          \/ rows'[s] = rows[s]
      BY <1>0, <2>3 DEF ProbeRows, NotStandalone, Unprobeable, Probed
    <2> QED
      BY <1>0, <2>4 DEF RowStep, Changed, Selected
  <1>4. ASSUME NEW p \in Procs, SmokeWrite(p) PROVE RowStep(s)
    <2>1. pc[p] = "smoke" /\ JobRight(p)
      BY <1>4 DEF SmokeWrite, Inv, JobsRight
    <2>2. \A u : Held(p, u) = rows[u]
      BY <2>1, PhaseInside, Fresh DEF Held, CommandNames
    <2>3. PICK u \in job[p].sel : \E verdict \in Verdicts(rows[u]) :
              /\ ~Gated(rows[u], job[p].network)
              /\ rows' = [rows EXCEPT ![u] = SmokeRow(rows[u], rows[u], verdict)]
      BY <1>4, <2>2 DEF SmokeWrite
    <2>4. rows[u] # NoRow
      BY <2>1 DEF JobRight, Existing
    <2> QED
      BY <1>0, <2>3, <2>4 DEF RowStep, Changed, Table
  <1>5. ASSUME NEW p \in Procs, RemediateFix(p) PROVE RowStep(s)
    <2>1. PICK u \in job[p].sel : rows' = [rows EXCEPT ![u] = FixRow(rows[u])]
      BY <1>5 DEF RemediateFix
    <2>2. rows[u] # NoRow
      BY <1>5 DEF RemediateFix, Inv, JobsRight, JobRight, Existing
    <2> QED
      BY <1>0, <2>1, <2>2 DEF RowStep, Changed, Table
  <1>6. ASSUME NEW p \in Procs, Ingest(p) \/ BackfillPersist(p) \/ Hygiene(p) PROVE RowStep(s)
    <2>1. CASE Ingest(p)
      BY <1>0, <2>1 DEF Ingest, IngestRows, RowStep, Changed, Existing
    <2>2. CASE BackfillPersist(p)
      BY <1>0, <2>2 DEF BackfillPersist, PersistRows, RowStep, Changed, Existing
    <2>3. CASE Hygiene(p)
      BY <1>0, <2>3 DEF Hygiene, HygieneRows, RowStep, Changed, Existing
    <2> QED
      BY <1>6, <2>1, <2>2, <2>3
  <1>7. ASSUME NEW p \in Procs, BackfillCommit(p) PROVE RowStep(s)
    <2>1. pc[p] = "commit" /\ rows' = CommitRows(rows, job[p].sel, job[p].proposal)
      BY <1>7 DEF BackfillCommit
    <2>2. job[p].proposal \in Proposals
      BY <2>1 DEF Inv, JobsRight, JobRight
    <2>3. rows'[s] = rows[s] \/ (rows[s] # NoRow /\ rows'[s] = CommitRow(rows[s], job[p].proposal[s]))
      BY <1>0, <2>1 DEF CommitRows, Existing
    <2> QED
      BY <1>0, <2>2, <2>3 DEF RowStep, Changed
  <1>8. CASE Tick \/ UNCHANGED vars
    BY <1>1, <1>8 DEF Tick, vars
  <1> QED
    BY <1>1, <1>2, <1>3, <1>4, <1>5, <1>6, <1>7, <1>8, QuietSteps DEF LockedNext, Step
----
(* Rows stay sound, and smokes are kept. *)

RowsSound == \A s \in Existing(rows) : SoundRow(rows[s])

(* What no command does to a row: take its smoke, let it pass without one, *)
(* leave a placeholder under the mark of a human.                          *)
LEMMA ChangedSound ==
    ASSUME NEW s, rows[s] \in Row, SoundRow(rows[s]), NEW new, Changed(s, new)
    PROVE  /\ SoundRow(new)
           /\ new.launch.smoke = rows[s].launch.smoke
  <1> DEFINE row == rows[s]
  <1>0. row \in Row /\ row.launch \in Launch
    BY DEF Row
  <1> HIDE DEF row
  <1>1. ASSUME NEW rec, new = UpsertRow(row, row, rec)
        PROVE  SoundRow(new) /\ new.launch.smoke = row.launch.smoke
    <2>1. new.launch = [layout |-> "feed", smoke |-> row.launch.smoke]
      BY <1>0, <1>1 DEF UpsertRow, Column, Row
    <2>2. new.work = row.work /\ new.descProv = row.descProv
      BY <1>0, <1>1 DEF UpsertRow, Row
    <2>3. row.descProv = "manual" => new.desc = row.desc
      BY <1>0, <1>1 DEF UpsertRow, Row, Preserved
    <2> QED
      BY <2>1, <2>2, <2>3 DEF SoundRow, row
  <1>2. ASSUME NEW health, NEW checked, NEW ns, new = SweptRow(row, row, health, checked, ns)
        PROVE  SoundRow(new) /\ new.launch.smoke = row.launch.smoke
    <2>1. new.launch = Refreshed(row) /\ new.work = row.work
          /\ new.descProv = row.descProv /\ new.desc = row.desc
      BY <1>0, <1>2 DEF SweptRow, Column, Row
    <2>2. Refreshed(row).smoke = row.launch.smoke
      BY DEF Refreshed
    <2> QED
      BY <2>1, <2>2 DEF SoundRow, row
  <1>3. ASSUME NEW verdict \in Verdicts(row), new = SmokeRow(row, row, verdict)
        PROVE  SoundRow(new) /\ new.launch.smoke = row.launch.smoke
    <2>1. /\ new.work = verdict /\ new.launch = row.launch
          /\ new.descProv = row.descProv /\ new.desc = row.desc
      BY <1>0, <1>3 DEF SmokeRow, Column, Row
    <2>2. verdict = "pass" => row.launch.smoke # NoSmoke
      BY DEF Verdicts, SmokeOf
    <2> QED
      BY <2>1, <2>2 DEF SoundRow, row
  <1>4. CASE \/ new = row \/ new = FixRow(row) \/ new = [row EXCEPT !.desc = "okf"]
             \/ new = [row EXCEPT !.caps = EnsuredCaps(@)]
    BY <1>0, <1>4 DEF FixRow, SoundRow, Row, row
  <1>5. ASSUME NEW caps, new = CommitRow(row, caps)
        PROVE  SoundRow(new) /\ new.launch.smoke = row.launch.smoke
    BY <1>0, <1>5 DEF CommitRow, SoundRow, Row, row
  <1>6. ASSUME NEW missing, new = HygieneRow(row, s, missing)
        PROVE  SoundRow(new) /\ new.launch.smoke = row.launch.smoke
    BY <1>0, <1>6 DEF HygieneRow, SoundRow, Row, row
  <1> QED
    BY <1>1, <1>2, <1>3, <1>4, <1>5, <1>6 DEF Changed, row

(* Rows are sound in the table a registry starts from, and stay so.        *)
LEMMA SoundStep == Inv /\ RowsSound /\ [LockedNext]_vars => RowsSound'
  <1> SUFFICES ASSUME Inv, RowsSound, [LockedNext]_vars, NEW s \in Existing(rows')
               PROVE  SoundRow(rows'[s])
    BY DEF RowsSound, Existing
  <1>1. RowStep(s)
    BY RowSteps
  <1>2. CASE rows[s] = NoRow
    <2>1. PICK rec : rows'[s] = NewRow(rec)
      BY <1>1, <1>2 DEF RowStep
    <2> QED
      BY <2>1 DEF NewRow, SoundRow
  <1>3. CASE rows[s] # NoRow
    <2>1. s \in Existing(rows) /\ rows[s] \in Row
      BY <1>3, RowOfTable DEF Inv, TypeOK, Existing
    <2> QED
      BY <1>1, <1>3, <2>1, ChangedSound DEF RowStep, RowsSound
  <1> QED
    BY <1>2, <1>3

(* So they are sound throughout.                                           *)
LEMMA SoundHolds == LockedSpec => []RowsSound
  <1>1. Init => RowsSound
    BY RegistryAssumption DEF Init, RowsSound
  <1> QED
    BY <1>1, SoundStep, InvHolds, PTL DEF LockedSpec

(* work_status is evidence: a row that passed has the smoke it passed.     *)
THEOREM PassesHaveSmokes == LockedSpec => []PassHasSmoke
  <1>1. RowsSound => PassHasSmoke
    BY DEF RowsSound, SoundRow, PassHasSmoke
  <1> QED
    BY <1>1, SoundHolds, PTL

(* Among commands that take the lock no smoke is ever erased.              *)
THEOREM SmokesAreKept == LockedSpec => SmokeNeverErased
  <1>1. Inv /\ RowsSound /\ [LockedNext]_vars =>
            [\A s \in Existing(rows) \cap Existing(rows') :
                rows[s].launch.smoke # NoSmoke => rows'[s].launch.smoke # NoSmoke]_vars
    <2> SUFFICES ASSUME Inv, RowsSound, [LockedNext]_vars,
                        NEW s \in Existing(rows) \cap Existing(rows'),
                        rows[s].launch.smoke # NoSmoke
                 PROVE  rows'[s].launch.smoke # NoSmoke
      OBVIOUS
    <2>1. rows[s] \in Row /\ rows[s] # NoRow /\ SoundRow(rows[s])
      BY RowOfTable DEF Inv, TypeOK, Existing, RowsSound
    <2> QED
      BY <2>1, RowSteps, ChangedSound DEF RowStep
  <1> QED
    BY <1>1, InvHolds, SoundHolds, PTL DEF LockedSpec, SmokeNeverErased

(* A pass of a gated smoke is taken away only by a run allowed to execute  *)
(* it, or from a row that is no standalone CLI.                            *)
THEOREM GatedPassesSurvive == LockedSpec => GatedPassSurvives
  <1>1. Inv /\ RowsSound /\ [LockedNext]_vars =>
            [\A s \in Existing(rows) \cap Existing(rows') :
                rows[s].work = "pass" /\ rows'[s].work # "pass" /\ ~rows[s].ns
                    => rows[s].launch.smoke \in SafeSmokes \/ \E p \in Procs : job[p].network]_vars
    <2> SUFFICES ASSUME Inv, RowsSound, [LockedNext]_vars,
                        NEW s \in Existing(rows) \cap Existing(rows'),
                        rows[s].work = "pass", rows'[s].work # "pass", ~rows[s].ns
                 PROVE  rows[s].launch.smoke \in SafeSmokes \/ \E p \in Procs : job[p].network
      OBVIOUS
    <2> DEFINE row == rows[s]
               new == rows'[s]
    <2>1. row \in Row /\ row # NoRow /\ row.launch.smoke # NoSmoke
      BY RowOfTable DEF Inv, TypeOK, Existing, RowsSound, SoundRow
    <2>2. Changed(s, new)
      BY <2>1, RowSteps DEF RowStep
    <2> HIDE DEF row, new
    <2>3. row.work = "pass" /\ new.work # "pass" /\ ~row.ns
      BY DEF row, new
    <2>4. ASSUME NEW p \in Procs, NEW verdict \in Verdicts(row), ~Gated(row, job[p].network)
          PROVE  row.launch.smoke \in SafeSmokes \/ job[p].network
      BY <2>1, <2>3, <2>4 DEF Gated, SmokeOf
    <2>5. \A rec : new # UpsertRow(row, row, rec)
      BY <2>1, <2>3 DEF UpsertRow, Row
    <2>6. \A health, checked, ns : new # SweptRow(row, row, health, checked, ns)
      BY <2>1, <2>3 DEF SweptRow, Row
    <2>7. new # row /\ new # FixRow(row) /\ new # [row EXCEPT !.desc = "okf"]
          /\ new # [row EXCEPT !.caps = EnsuredCaps(@)]
      BY <2>1, <2>3 DEF FixRow, Row
    <2>8. /\ \A caps : new # CommitRow(row, caps)
          /\ \A missing : new # HygieneRow(row, s, missing)
      BY <2>1, <2>3 DEF CommitRow, HygieneRow, Row
    <2>9. \E p \in Procs : \E verdict \in Verdicts(row) : ~Gated(row, job[p].network)
      BY <2>2, <2>5, <2>6, <2>7, <2>8 DEF Changed, row
    <2> QED
      BY <2>4, <2>9 DEF row
  <1> QED
    BY <1>1, InvHolds, SoundHolds, PTL DEF LockedSpec, GatedPassSurvives
----
(* Owners. *)

(* What OwnersKept says of one row.                                        *)
OwnerKept(row, new) ==
    /\ {c \in row.caps : c.prov = "manual"} \subseteq new.caps
    /\ (\E c \in row.caps : c.prov \in Preserved) => \E c \in new.caps : c.prov \in Preserved
    /\ row.descProv \in Preserved => new.descProv \in Preserved
    /\ row.descProv = "manual" =>
          new.descProv = "manual" /\ new.desc \in {row.desc, "okf"}

(* No command's operator takes a row's owner from it.                      *)
LEMMA ChangedKeepsOwner ==
    ASSUME NEW s \in Slugs, rows[s] \in Row, SoundRow(rows[s]), NEW new, Changed(s, new)
    PROVE  OwnerKept(rows[s], new)
  <1> DEFINE row == rows[s]
  <1>0. row \in Row /\ row.caps \in SUBSET Capability
        /\ (row.descProv = "manual" => row.desc # "placeholder")
    BY DEF Row, SoundRow
  <1> HIDE DEF row
  <1>1. ASSUME NEW rec, new = UpsertRow(row, row, rec) PROVE OwnerKept(row, new)
    <2>1. /\ new.caps = FeedCaps(row.caps, rec) /\ new.descProv = row.descProv
          /\ row.descProv \in Preserved => new.desc = row.desc
      BY <1>0, <1>1 DEF UpsertRow, Row
    <2>2. (\E c \in row.caps : c.prov \in Preserved) => new.caps = row.caps
      BY <2>1 DEF FeedCaps
    <2> QED
      BY <2>1, <2>2 DEF OwnerKept, Preserved
  <1>2. ASSUME NEW health, NEW checked, NEW ns, new = SweptRow(row, row, health, checked, ns)
        PROVE  OwnerKept(row, new)
    BY <1>0, <1>2 DEF SweptRow, Row, OwnerKept
  <1>3. ASSUME NEW verdict, new = SmokeRow(row, row, verdict) PROVE OwnerKept(row, new)
    BY <1>0, <1>3 DEF SmokeRow, Row, OwnerKept
  <1>4. ASSUME new = row \/ new = FixRow(row) \/ new = [row EXCEPT !.desc = "okf"]
        PROVE  OwnerKept(row, new)
    BY <1>0, <1>4 DEF FixRow, Row, OwnerKept
  <1>5. ASSUME new = [row EXCEPT !.caps = EnsuredCaps(@)] PROVE OwnerKept(row, new)
    <2>1. row.caps \subseteq EnsuredCaps(row.caps)
      BY DEF EnsuredCaps
    <2>2. new.caps = EnsuredCaps(row.caps) /\ new.descProv = row.descProv /\ new.desc = row.desc
      BY <1>0, <1>5 DEF Row
    <2> QED
      BY <2>1, <2>2 DEF OwnerKept
  <1>6. ASSUME NEW proposal \in Proposals, new = CommitRow(row, proposal[s])
        PROVE  OwnerKept(row, new)
    <2> DEFINE caps == proposal[s]
               old  == EnsuredCaps(row.caps)
    <2>1. /\ new.descProv = (IF row.descProv = "manual" THEN "manual" ELSE "llm")
          /\ row.descProv = "manual" => new.desc = row.desc
          /\ new.caps = IF caps = {} THEN row.caps
                        ELSE {c \in old : c.prov = "manual"}
                             \cup {n \in caps : \E c \in old : c.prov # "manual"}
      BY <1>0, <1>6 DEF CommitRow, Row
    <2>2. \A c \in caps : c.prov \in Preserved
      BY RowsAssumption DEF Preserved
    <2>3. row.caps \subseteq old
      BY DEF EnsuredCaps
    <2> HIDE DEF caps, old
    <2>4. ASSUME caps # {}, NEW c \in row.caps, c.prov \in Preserved
          PROVE  \E d \in new.caps : d.prov \in Preserved
      <3>1. CASE c.prov = "manual"
        BY <2>1, <2>3, <2>4, <3>1
      <3>2. CASE c.prov # "manual"
        <4>1. caps \subseteq new.caps
          BY <2>1, <2>3, <2>4, <3>2
        <4> QED
          BY <2>2, <2>4, <4>1
      <3> QED
        BY <3>1, <3>2
    <2>5. {c \in row.caps : c.prov = "manual"} \subseteq new.caps
      BY <2>1, <2>3
    <2>6. (\E c \in row.caps : c.prov \in Preserved) => \E c \in new.caps : c.prov \in Preserved
      BY <2>1, <2>4
    <2> QED
      BY <2>1, <2>5, <2>6 DEF OwnerKept, Preserved
  <1>7. ASSUME NEW missing, new = HygieneRow(row, s, missing) PROVE OwnerKept(row, new)
    <2>1. CASE row.enabled /\ row.desc = "placeholder"
      BY <1>0, <1>7, <2>1 DEF HygieneRow, Row, OwnerKept, Preserved
    <2>2. CASE row.enabled /\ row.desc # "placeholder"
      <3>1. new.caps = TypedCaps(row.caps, s) /\ new.descProv = row.descProv /\ new.desc = row.desc
        BY <1>0, <1>7, <2>2 DEF HygieneRow, Row
      <3>2. \A c \in row.caps : \E d \in TypedCaps(row.caps, s) : d.prov = c.prov
        <4>1. ASSUME NEW c \in row.caps, c.prov # "manual"
              PROVE  [prov |-> c.prov, port |-> Typed(c.port, s)] \in TypedCaps(row.caps, s)
          BY <4>1 DEF TypedCaps
        <4>2. ASSUME NEW c \in row.caps, c.prov = "manual" PROVE c \in TypedCaps(row.caps, s)
          BY <4>2 DEF TypedCaps
        <4> QED
          BY <4>1, <4>2
      <3>3. {c \in row.caps : c.prov = "manual"} \subseteq TypedCaps(row.caps, s)
        BY DEF TypedCaps
      <3> QED
        BY <3>1, <3>2, <3>3 DEF OwnerKept
    <2>3. CASE ~row.enabled
      BY <1>0, <1>7, <2>3 DEF HygieneRow, OwnerKept
    <2> QED
      BY <1>0, <2>1, <2>2, <2>3 DEF Row
  <1> QED
    BY <1>1, <1>2, <1>3, <1>4, <1>5, <1>6, <1>7 DEF Changed, row

(* What an operator or the backfill owns outlives every command for as     *)
(* long as the row does.                                                   *)
THEOREM OwnersAreKept == LockedSpec => OwnersKept
  <1> DEFINE Kept == \A s \in Existing(rows) \cap Existing(rows') : OwnerKept(rows[s], rows'[s])
  <1>1. Inv /\ RowsSound /\ [LockedNext]_vars => Kept
    <2> SUFFICES ASSUME Inv, RowsSound, [LockedNext]_vars,
                        NEW s \in Existing(rows) \cap Existing(rows')
                 PROVE  OwnerKept(rows[s], rows'[s])
      OBVIOUS
    <2>1. s \in Slugs /\ rows[s] \in Row /\ rows[s] # NoRow /\ SoundRow(rows[s])
      BY RowOfTable DEF Inv, TypeOK, Existing, RowsSound
    <2> QED
      BY <2>1, RowSteps, ChangedKeepsOwner DEF RowStep
  <1>2. Kept => [\A s \in Existing(rows) \cap Existing(rows') :
                    /\ {c \in rows[s].caps : c.prov = "manual"} \subseteq rows'[s].caps
                    /\ (\E c \in rows[s].caps : c.prov \in Preserved)
                          => \E c \in rows'[s].caps : c.prov \in Preserved
                    /\ rows[s].descProv \in Preserved => rows'[s].descProv \in Preserved
                    /\ rows[s].descProv = "manual" =>
                          /\ rows'[s].descProv = "manual"
                          /\ rows'[s].desc \in {rows[s].desc, "okf"}]_vars
    BY DEF OwnerKept
  <1> QED
    BY <1>1, <1>2, InvHolds, SoundHolds, PTL DEF LockedSpec, OwnersKept
----
(* The call graph. *)

(* The edges a table implies join rows of it.                              *)
LEMMA EdgesExist ==
    ASSUME NEW e \in DesiredEdges(rows)
    PROVE  {e[1], e[2]} \subseteq Existing(rows)
  <1>1. e[1] \in Slugs /\ e[2] \in Slugs /\ e[3] \in Outs(rows, e[1]) /\ e[3] \in Ins(rows, e[2])
    BY DEF DesiredEdges, Edge
  <1>2. \A s \in Slugs : rows[s] = NoRow => Outs(rows, s) = {} /\ Ins(rows, s) = {}
    BY DEF Outs, Ins, Caps
  <1> QED
    BY <1>1, <1>2 DEF Existing

(* The call graph names no removed slug but between populate's commits, or *)
(* after a populate that died there.                                       *)
LEMMA GraphStep == OpenInv /\ NoDanglingEdges /\ [Next]_vars => NoDanglingEdges'
  <1> SUFFICES ASSUME OpenInv, NoDanglingEdges, [Next]_vars, ~torn',
                      \A p \in Procs : pc'[p] # "edges", NEW e \in edges'
               PROVE  {e[1], e[2]} \subseteq Existing(rows')
    BY DEF NoDanglingEdges
  <1>0. pc \in [Procs -> Phases] /\ torn \in BOOLEAN
    BY DEF OpenInv, TypeOK
  <1>1. Existing(rows) \subseteq Existing(rows')
    <2>1. ASSUME NEW p \in Procs, PopulateUpsert(p) PROVE FALSE
      BY <1>0, <2>1 DEF PopulateUpsert
    <2> QED
      BY <2>1, OnlyPopulateRemoves DEF Stays
  <1>2. ASSUME NEW p \in Procs, PopulateEdges(p)
        PROVE  {e[1], e[2]} \subseteq Existing(rows')
    BY <1>2, EdgesExist DEF PopulateEdges
  <1>3. ASSUME edges' = edges, ~torn, \A p \in Procs : pc[p] # "edges"
        PROVE  {e[1], e[2]} \subseteq Existing(rows')
    BY <1>1, <1>3 DEF NoDanglingEdges
  <1>4. ASSUME NEW p \in Procs, Begin(p) \/ Step(p) \/ FilingEnds(p) \/ Die(p), ~PopulateEdges(p)
        PROVE  edges' = edges /\ ~torn /\ \A q \in Procs : pc[q] # "edges"
    <2>1. CASE Begin(p)
      BY <1>0, <2>1 DEF Begin
    <2>2. CASE Die(p)
      BY <1>0, <2>2 DEF Die, Leave
    <2>3. CASE Acquire(p)
      BY <1>0, <2>3 DEF Acquire
    <2>4. CASE \/ ReportOnly(p) \/ PopulateRefuse(p) \/ PopulateClash(p) \/ SweepEnds(p)
               \/ FilingEnds(p) \/ Probe(p) \/ Ingest(p) \/ BackfillCommit(p) \/ Hygiene(p)
      <3>1. /\ pc[p] # "edges" /\ pc' = [pc EXCEPT ![p] = "idle"]
            /\ UNCHANGED <<edges, torn>>
        BY <2>4 DEF ReportOnly, PopulateRefuse, PopulateClash, SweepEnds, FilingEnds, Probe,
                    Ingest, BackfillCommit, Hygiene, Leave
      <3> QED
        BY <1>0, <3>1
    <2>5. CASE PopulateUpsert(p)
      BY <1>0, <2>5 DEF PopulateUpsert
    <2>6. CASE SmokeSkip(p) \/ SmokeWrite(p) \/ RemediateFix(p)
      BY <2>6 DEF SmokeSkip, SmokeWrite, RemediateFix
    <2>7. CASE FileIssues(p) \/ BackfillPersist(p)
      BY <1>0, <2>7 DEF FileIssues, BackfillPersist
    <2> QED
      BY <1>4, <2>1, <2>2, <2>3, <2>4, <2>5, <2>6, <2>7 DEF Step
  <1>5. CASE Tick \/ ScriptNext \/ UNCHANGED vars
    BY <1>3, <1>5 DEF Tick, ScriptNext, ScriptRead, ScriptWrite, vars
  <1> QED
    BY <1>2, <1>3, <1>4, <1>5 DEF Next, LockedNext, Step

(* However populate, its rivals, its deaths and the scripts interleave,    *)
(* the call graph dangles only in the gap between its two commits.         *)
THEOREM NoEdgeDangles == Spec => []NoDanglingEdges
  <1>1. Init => NoDanglingEdges
    BY EdgesExist DEF Init, NoDanglingEdges
  <1> QED
    BY <1>1, GraphStep, OpenHolds, PTL DEF Spec
====
