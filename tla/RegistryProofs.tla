---- MODULE RegistryProofs ----
(***************************************************************************)
(* What holds of the registry for any number of processes, rows, feeds and *)
(* commands: first as it is, the unlocked scripts writing between any two  *)
(* steps of a command, then what the file lock adds when every writer      *)
(* takes it, that a command writes back to the very table it read.         *)
(***************************************************************************)
EXTENDS Registry, FiniteSetTheorems, TLAPS

(* First the tables alone: what each command writes is a table of rows,    *)
(* whatever the slugs, ports, feeds and proposals are.                     *)

(* A slug of a table that is there is a row.                               *)
LEMMA RowOfTable ==
    ASSUME NEW t \in Table, NEW s \in Slugs, t[s] # NoRow
    PROVE  t[s] \in Row
  BY DEF Table

(* A table that another one still holds: its rows are all there, each of   *)
(* the class it was.                                                       *)
Stays(t, u) == \A s \in Existing(t) : s \in Existing(u) /\ u[s].cls = t[s].cls

(* Which a table does itself.                                              *)
LEMMA StaysItself == ASSUME NEW t PROVE Stays(t, t)
  BY DEF Stays

(* What populate takes from the feed are feed records.                     *)
LEMMA IncomingRecords ==
    ASSUME NEW f \in Incoming
    PROVE  DOMAIN f \subseteq Slugs /\ \A s \in DOMAIN f : f[s] \in FeedRecord
  <1>1. PICK g \in Feeds, gone \in Gone : f = Without(g, gone)
    BY DEF Incoming
  <1>2. IsFeed(g)
    BY RowsAssumption
  <1> QED
    BY <1>1, <1>2 DEF IsFeed, Without

(* The capabilities populate leaves a row are capabilities.                *)
LEMMA FeedCapsType ==
    ASSUME NEW old \in SUBSET Capability, NEW rec \in FeedRecord
    PROVE  FeedCaps(old, rec) \in SUBSET Capability
  BY DEF FeedCaps, Capability, Provenances, FeedRecord

(* A record the registry has not seen becomes a row.                       *)
LEMMA NewRowType ==
    ASSUME NEW rec \in FeedRecord
    PROVE  NewRow(rec) \in Row
  <1>1. FeedCaps({}, rec) \in SUBSET Capability
    BY FeedCapsType
  <1>2. rec.text \in Texts /\ rec.ns \in BOOLEAN
    BY DEF FeedRecord, Texts
  <1> QED
    BY <1>1, <1>2
    DEF NewRow, Row, Classes, FeedOwned, Provenances, Healths, NeverChecked, Launch, Layouts

(* A record it has seen leaves a row.                                      *)
LEMMA UpsertRowType ==
    ASSUME NEW row \in Row, NEW old \in Row, NEW rec \in FeedRecord
    PROVE  UpsertRow(row, old, rec) \in Row
  <1> DEFINE cls    == Column(row.cls, old.cls, "cli_audit")
             desc   == IF old.descProv \in Preserved THEN row.desc
                       ELSE Column(row.desc, old.desc, rec.text)
             ns     == Column(row.ns, old.ns, rec.ns)
             launch == Column(row.launch, old.launch, [layout |-> "feed", smoke |-> old.launch.smoke])
             caps   == FeedCaps(row.caps, rec)
  <1>1. UpsertRow(row, old, rec)
            = [row EXCEPT !.cls = cls, !.desc = desc, !.ns = ns, !.launch = launch, !.caps = caps]
    BY DEF UpsertRow
  <1>2. cls \in Classes
    BY DEF Column, Row, Classes, FeedOwned
  <1>3. desc \in Texts
    BY DEF Column, Row, Texts, FeedRecord
  <1>4. ns \in BOOLEAN
    BY DEF Column, Row, FeedRecord
  <1>5. launch \in Launch
    BY DEF Column, Row, Launch, Layouts
  <1>6. caps \in SUBSET Capability
    BY FeedCapsType DEF Row
  <1> HIDE DEF cls, desc, ns, launch, caps
  <1> QED
    BY <1>1, <1>2, <1>3, <1>4, <1>5, <1>6 DEF Row

(* populate writes a table although rows were added or changed since it    *)
(* read the one it loaded, and the rows that go are those it counted.      *)
LEMMA PopulateRowsType ==
    ASSUME NEW t \in Table, NEW l \in Table, Stays(l, t), NEW f \in Incoming
    PROVE  PopulateRows(t, l, f) \in Table /\ Existing(t) \ Existing(PopulateRows(t, l, f)) = ToRemove(l, f)
  <1>1. ASSUME NEW s \in Slugs
        PROVE  /\ PopulateRows(t, l, f)[s] \in Row \cup {NoRow}
               /\ s \in DOMAIN f => PopulateRows(t, l, f)[s] \in Row
    <2>1. CASE s \in DOMAIN f /\ Got(t, l, s) = NoRow
      BY <2>1, IncomingRecords, NewRowType DEF PopulateRows
    <2>2. CASE s \in DOMAIN f /\ Got(t, l, s) # NoRow
      <3> DEFINE got == Got(t, l, s)
      <3>1. t[s] # NoRow
        BY <2>2 DEF Got, Stays, Existing
      <3>2. t[s] \in Row /\ got \in Row /\ f[s] \in FeedRecord
        BY <2>2, <3>1, RowOfTable, IncomingRecords DEF Got
      <3>3. PopulateRows(t, l, f)[s] = UpsertRow(t[s], got, f[s])
        BY <2>2 DEF PopulateRows
      <3> HIDE DEF got
      <3> QED
        BY <3>2, <3>3, UpsertRowType
    <2>3. CASE s \notin DOMAIN f
      BY <2>3 DEF PopulateRows, Table
    <2> QED
      BY <2>1, <2>2, <2>3
  <1>2. PopulateRows(t, l, f) \in Table
    BY <1>1 DEF PopulateRows, Table
  <1>3. ASSUME NEW s \in Slugs, t[s] # NoRow
        PROVE  PopulateRows(t, l, f)[s] = NoRow <=> s \in ToRemove(l, f)
    <2>1. CASE s \in DOMAIN f
      BY <1>1, <2>1, RowsAssumption DEF ToRemove
    <2>2. CASE s \notin DOMAIN f
      BY <1>3, <2>2 DEF PopulateRows
    <2> QED
      BY <2>1, <2>2
  <1>4. ToRemove(l, f) \subseteq Existing(t)
    BY DEF ToRemove, Stays
  <1> QED
    BY <1>2, <1>3, <1>4 DEF Existing
----
(* A sweep leaves a row, if the verdict and its date are right.            *)
LEMMA SweptRowType ==
    ASSUME NEW row \in Row, NEW old \in Row, NEW health \in Healths,
           NEW checked \in Nat \cup {NeverChecked}, NEW ns \in BOOLEAN
    PROVE  /\ SweptRow(row, old, health, checked, ns) \in Row
           /\ SweptRow(row, old, health, checked, ns).cls = row.cls
  <1> DEFINE h == Column(row.health, old.health, health)
             c == Column(row.checked, old.checked, checked)
             n == Column(row.ns, old.ns, ns)
             l == Column(row.launch, old.launch, Refreshed(old))
  <1>1. SweptRow(row, old, health, checked, ns)
            = [row EXCEPT !.health = h, !.checked = c, !.ns = n, !.launch = l]
    BY DEF SweptRow
  <1>2. h \in Healths /\ c \in Nat \cup {NeverChecked} /\ n \in BOOLEAN
    BY DEF Column, Row
  <1>3. l \in Launch
    BY DEF Column, Row, Refreshed, Launch, Layouts
  <1> HIDE DEF h, c, n, l
  <1> DEFINE r1 == [row EXCEPT !.health = h]
             r2 == [r1 EXCEPT !.checked = c]
             r3 == [r2 EXCEPT !.ns = n]
             r4 == [r3 EXCEPT !.launch = l]
  <1>4. SweptRow(row, old, health, checked, ns) = r4
    BY <1>1
  <1>5. r1 \in Row /\ r1.cls = row.cls
    BY <1>2 DEF Row
  <1> HIDE DEF r1
  <1>6. r2 \in Row /\ r2.cls = row.cls
    BY <1>2, <1>5 DEF Row
  <1> HIDE DEF r2
  <1>7. r3 \in Row /\ r3.cls = row.cls
    BY <1>2, <1>6 DEF Row
  <1> HIDE DEF r3
  <1>8. r4 \in Row /\ r4.cls = row.cls
    BY <1>3, <1>7 DEF Row
  <1> QED
    BY <1>4, <1>8

(* A probe sweep writes a table although rows changed while it probed.     *)
LEMMA ProbeRowsType ==
    ASSUME NEW t \in Table, NEW o \in Table, Stays(o, t),
           NEW sel \in SUBSET Slugs, NEW passed, NEW now \in Nat
    PROVE  ProbeRows(t, o, sel, passed, now) \in Table /\ Stays(t, ProbeRows(t, o, sel, passed, now))
  <1> DEFINE new(s) == ProbeRows(t, o, sel, passed, now)[s]
  <1>1. ASSUME NEW s \in Slugs, o[s] # NoRow PROVE t[s] \in Row /\ o[s] \in Row
    BY <1>1, RowOfTable DEF Stays, Existing
  <1>2. ASSUME NEW s \in Slugs
        PROVE  (new(s) \in Row /\ new(s).cls = t[s].cls) \/ (new(s) = NoRow /\ t[s] = NoRow)
    <2>1. CASE s \in NotStandalone(o, sel)
      <3>1. t[s] \in Row /\ o[s] \in Row
        BY <1>1, <2>1 DEF NotStandalone, Selected
      <3>2. PICK health, ns : health = "not_standalone" /\ ns = TRUE
        OBVIOUS
      <3>3. health \in Healths /\ now \in Nat \cup {NeverChecked} /\ ns \in BOOLEAN
        BY <3>2 DEF Healths
      <3>4. new(s) = SweptRow(t[s], o[s], health, now, ns)
        BY <2>1, <3>2 DEF ProbeRows
      <3> HIDE DEF new
      <3> QED
        BY <3>1, <3>3, <3>4, SweptRowType
    <2>2. CASE s \notin NotStandalone(o, sel) /\ s \in Unprobeable(o, sel)
      <3>1. t[s] \in Row /\ o[s] \in Row
        BY <1>1, <2>2 DEF Unprobeable, Selected
      <3>2. new(s) = SweptRow(t[s], o[s], UnprobeableHealth(o[s], now), o[s].checked, o[s].ns)
        BY <2>2 DEF ProbeRows
      <3>3. PICK health, checked, ns :
                health = UnprobeableHealth(o[s], now) /\ checked = o[s].checked /\ ns = o[s].ns
        OBVIOUS
      <3>4. health \in Healths /\ checked \in Nat \cup {NeverChecked} /\ ns \in BOOLEAN
        BY <3>1, <3>3 DEF UnprobeableHealth, Healths, Row
      <3>5. new(s) = SweptRow(t[s], o[s], health, checked, ns)
        BY <3>2, <3>3
      <3> HIDE DEF new
      <3> QED
        BY <3>1, <3>4, <3>5, SweptRowType
    <2>3. CASE s \notin NotStandalone(o, sel) /\ s \notin Unprobeable(o, sel) /\ s \in Probed(o, sel)
      <3>1. t[s] \in Row /\ o[s] \in Row
        BY <1>1, <2>3 DEF Probed, Selected
      <3>2. new(s) = SweptRow(t[s], o[s], IF s \in passed THEN "healthy" ELSE "unhealthy", now, o[s].ns)
        BY <2>3 DEF ProbeRows
      <3>3. /\ (IF s \in passed THEN "healthy" ELSE "unhealthy") \in Healths
            /\ o[s].ns \in BOOLEAN
        BY <3>1 DEF Healths, Row
      <3> QED
        BY <3>1, <3>2, <3>3, SweptRowType
    <2>4. CASE s \notin NotStandalone(o, sel) /\ s \notin Unprobeable(o, sel) /\ s \notin Probed(o, sel)
      BY <2>4 DEF ProbeRows, Table
    <2> QED
      BY <2>1, <2>2, <2>3, <2>4
  <1>3. ProbeRows(t, o, sel, passed, now) = [s \in Slugs |-> new(s)]
    BY DEF ProbeRows
  <1> HIDE DEF new
  <1> QED
    BY <1>2, <1>3, RowsAssumption DEF Table, Existing, Stays

(* A smoke verdict leaves a row.                                           *)
LEMMA SmokeRowType ==
    ASSUME NEW row \in Row, NEW old, NEW verdict \in Verdicts(old)
    PROVE  SmokeRow(row, old, verdict) \in Row /\ SmokeRow(row, old, verdict).cls = row.cls
  <1>1. Column(row.work, old.work, verdict) \in {"unknown", "pass", "fail"}
    BY DEF Column, Row, Verdicts
  <1> QED
    BY <1>1 DEF SmokeRow, Row

(* An armed fix leaves a row.                                              *)
LEMMA FixRowType ==
    ASSUME NEW row \in Row
    PROVE  FixRow(row) \in Row /\ FixRow(row).cls = row.cls
  BY DEF FixRow, Row, Healths
----
(* okf-ingest leaves a table.                                              *)
LEMMA IngestRowsType ==
    ASSUME NEW t \in Table, NEW bundle
    PROVE  IngestRows(t, bundle) \in Table /\ Stays(t, IngestRows(t, bundle))
  <1>1. ASSUME NEW s \in Existing(t) PROVE [t[s] EXCEPT !.desc = "okf"] \in Row /\ [t[s] EXCEPT !.desc = "okf"].cls = t[s].cls
    BY RowOfTable DEF Existing, Row, Texts
  <1>2. ASSUME NEW s \in Slugs
        PROVE  /\ IngestRows(t, bundle)[s] \in Row \cup {NoRow}
               /\ t[s] # NoRow => IngestRows(t, bundle)[s] \in Row /\ IngestRows(t, bundle)[s].cls = t[s].cls
    BY <1>1, RowOfTable DEF IngestRows, Table, Existing
  <1> QED
    BY <1>2, RowsAssumption DEF IngestRows, Table, Existing, Stays

(* The empty capability row the backfill ensures is a capability.          *)
LEMMA EnsuredCapsType ==
    ASSUME NEW old \in SUBSET Capability
    PROVE  EnsuredCaps(old) \in SUBSET Capability
  BY RowsAssumption DEF EnsuredCaps, Capability, Provenances, EmptyPort

(* The backfill's sanity verdicts leave a table.                           *)
LEMMA PersistRowsType ==
    ASSUME NEW t \in Table, NEW judged
    PROVE  PersistRows(t, judged) \in Table /\ Stays(t, PersistRows(t, judged))
  <1>1. ASSUME NEW s \in Existing(t)
        PROVE  /\ [t[s] EXCEPT !.caps = EnsuredCaps(@)] \in Row
               /\ [t[s] EXCEPT !.caps = EnsuredCaps(@)].cls = t[s].cls
    <2>1. t[s] \in Row /\ EnsuredCaps(t[s].caps) \in SUBSET Capability
      BY RowOfTable, EnsuredCapsType DEF Existing, Row
    <2> QED
      BY <2>1 DEF Row
  <1>2. ASSUME NEW s \in Slugs
        PROVE  /\ PersistRows(t, judged)[s] \in Row \cup {NoRow}
               /\ t[s] # NoRow => PersistRows(t, judged)[s] \in Row /\ PersistRows(t, judged)[s].cls = t[s].cls
    BY <1>1, RowOfTable DEF PersistRows, Table, Existing
  <1> QED
    BY <1>2, RowsAssumption DEF PersistRows, Table, Existing, Stays

(* A committed proposal leaves a row.                                      *)
LEMMA CommitRowType ==
    ASSUME NEW row \in Row, NEW caps \in SUBSET Capability
    PROVE  CommitRow(row, caps) \in Row /\ CommitRow(row, caps).cls = row.cls
  <1> DEFINE desc == IF row.descProv = "manual" THEN row.desc ELSE "llm"
             prov == IF row.descProv = "manual" THEN row.descProv ELSE "llm"
             new  == IF caps = {} THEN row.caps
                     ELSE {c \in EnsuredCaps(row.caps) : c.prov = "manual"}
                          \cup {n \in caps : \E c \in EnsuredCaps(row.caps) : c.prov # "manual"}
  <1>1. CommitRow(row, caps) = [row EXCEPT !.desc = desc, !.descProv = prov, !.caps = new]
    BY DEF CommitRow
  <1>2. desc \in Texts /\ prov \in Provenances
    BY DEF Row, Texts, Provenances
  <1>3. new \in SUBSET Capability
    BY EnsuredCapsType DEF Row
  <1> HIDE DEF desc, prov, new
  <1> QED
    BY <1>1, <1>2, <1>3 DEF Row

(* The committed proposals leave a table.                                  *)
LEMMA CommitRowsType ==
    ASSUME NEW t \in Table, NEW judged, NEW proposal \in [Slugs -> SUBSET Capability]
    PROVE  CommitRows(t, judged, proposal) \in Table /\ Stays(t, CommitRows(t, judged, proposal))
  <1>1. ASSUME NEW s \in Existing(t) PROVE CommitRow(t[s], proposal[s]) \in Row /\ CommitRow(t[s], proposal[s]).cls = t[s].cls
    BY RowOfTable, CommitRowType DEF Existing
  <1>2. ASSUME NEW s \in Slugs
        PROVE  /\ CommitRows(t, judged, proposal)[s] \in Row \cup {NoRow}
               /\ t[s] # NoRow => CommitRows(t, judged, proposal)[s] \in Row /\ CommitRows(t, judged, proposal)[s].cls = t[s].cls
    BY <1>1, RowOfTable DEF CommitRows, Table, Existing
  <1> QED
    BY <1>2, RowsAssumption DEF CommitRows, Table, Existing, Stays

(* Hygiene leaves a row, its outputs within the ports.                     *)
LEMMA HygieneRowType ==
    ASSUME NEW row \in Row, NEW s \in Slugs, NEW missing
    PROVE  HygieneRow(row, s, missing) \in Row /\ HygieneRow(row, s, missing).cls = row.cls
  <1>1. [row EXCEPT !.enabled = FALSE] \in Row
    BY DEF Row
  <1>2. [row EXCEPT !.desc = "manual", !.descProv = "manual"] \in Row
    BY DEF Row, Texts, Provenances
  <1>3. TypedCaps(row.caps, s) \in SUBSET Capability
    <2>1. row.caps \in SUBSET Capability
      BY DEF Row
    <2>2. \A c \in Capability : [prov |-> c.prov, port |-> Typed(c.port, s)] \in Capability
      BY RowsAssumption DEF Capability
    <2> QED
      BY <2>1, <2>2 DEF TypedCaps
  <1>4. [row EXCEPT !.caps = TypedCaps(row.caps, s)] \in Row
    BY <1>3 DEF Row
  <1> QED
    BY <1>1, <1>2, <1>4 DEF HygieneRow

(* Hygiene leaves a table.                                                 *)
LEMMA HygieneRowsType ==
    ASSUME NEW t \in Table, NEW missing
    PROVE  HygieneRows(t, missing) \in Table /\ Stays(t, HygieneRows(t, missing))
  <1>1. ASSUME NEW s \in Existing(t) PROVE HygieneRow(t[s], s, missing) \in Row /\ HygieneRow(t[s], s, missing).cls = t[s].cls
    BY RowOfTable, HygieneRowType DEF Existing
  <1>2. ASSUME NEW s \in Slugs
        PROVE  /\ HygieneRows(t, missing)[s] \in Row \cup {NoRow}
               /\ t[s] # NoRow => HygieneRows(t, missing)[s] \in Row /\ HygieneRows(t, missing)[s].cls = t[s].cls
    BY <1>1, RowOfTable DEF HygieneRows, Table, Existing
  <1> QED
    BY <1>2, RowsAssumption DEF HygieneRows, Table, Existing, Stays
----

(* What Leave resets a process to is of the right types.                   *)
LEMMA NoJobType == NoJob \in Job /\ EmptyTable \in Table /\ NoJob.cmd = "idle"
  BY DEF NoJob, Job, EmptyTable, Table

(* A phase of the name of a command, and no other, is inside the lock.     *)
LEMMA PhaseInside ==
    ASSUME NEW p \in Procs, pc[p] \in CommandNames \cup {"edges", "commit"}
    PROVE  Inside(p)
  BY DEF Inside, CommandNames

(* The variables that Leave resets keep their types.                       *)
LEMMA LeaveType ==
    ASSUME TypeOK, NEW p \in Procs, Leave(p)
    PROVE  /\ lock' \in Procs \cup {Free}
           /\ pc' \in [Procs -> Phases]
           /\ job' \in [Procs -> Job]
           /\ loaded' \in [Procs -> Table]
  BY NoJobType DEF TypeOK, Leave, Phases

(* A command that begins has a job of a command in use.                    *)
LEMMA BeginJob ==
    ASSUME NEW p \in Procs, Begin(p)
    PROVE  \E j \in Job :
              /\ job' = [job EXCEPT ![p] = j]
              /\ j.cmd \in Commands /\ ~j.live
              /\ j.cmd = "backfill" => j.proposal \in Proposals
  <1>1. CASE \E c \in Commands \ {"backfill"}, dry \in BOOLEAN :
                job' = [job EXCEPT ![p] = NewJob(c, dry, {}, NoJob.proposal)]
    <2>1. PICK c \in Commands \ {"backfill"}, dry \in BOOLEAN :
              job' = [job EXCEPT ![p] = NewJob(c, dry, {}, NoJob.proposal)]
      BY <1>1
    <2>2. NewJob(c, dry, {}, NoJob.proposal) \in Job
      BY NoJobType DEF NewJob, Job
    <2> QED
      BY <2>1, <2>2 DEF NewJob
  <1>2. CASE \E proposal \in Proposals :
                /\ "backfill" \in Commands
                /\ job' = [job EXCEPT ![p] =
                      NewJob("backfill", FALSE, {s \in Existing(rows) : rows[s].enabled}, proposal)]
    <2> DEFINE sel == {s \in Existing(rows) : rows[s].enabled}
    <2>1. PICK proposal \in Proposals :
              job' = [job EXCEPT ![p] = NewJob("backfill", FALSE, sel, proposal)]
      BY <1>2
    <2>2. sel \in SUBSET Slugs /\ "backfill" \in Commands
      BY <1>2 DEF Existing
    <2> HIDE DEF sel
    <2>3. NewJob("backfill", FALSE, sel, proposal) \in Job
      BY <2>2, RowsAssumption DEF NewJob, Job
    <2> QED
      BY <2>1, <2>2, <2>3 DEF NewJob
  <1> QED
    BY <1>1, <1>2 DEF Begin

(* What a command knows of its job once it has the lock.                   *)
Admitted(p) ==
    /\ job' \in [Procs -> Job]
    /\ \A q \in Procs : q # p => job'[q] = job[q]
    /\ job'[p].cmd = job[p].cmd /\ job'[p].proposal = job[p].proposal /\ job'[p].live = job[p].live
    /\ job'[p].cmd = "populate" => job'[p].feed \in Incoming
    /\ job'[p].cmd = "probe" => job'[p].began <= clock
    /\ job'[p].cmd = "smoke" => \A s \in job'[p].sel : s \in Existing(rows) /\ rows[s].enabled
    /\ job'[p].cmd = "remediate" =>
          \A s \in job'[p].sel : s \in Existing(rows) /\ rows[s].health = "unhealthy"

(* Whoever gets the lock knows that of its job.                            *)
LEMMA AcquireJob ==
    ASSUME TypeOK, NEW p \in Procs, Acquire(p)
    PROVE  Admitted(p)
  <1>0. Admit(p, job[p]) /\ job \in [Procs -> Job] /\ clock \in Nat
    BY DEF Acquire, TypeOK
  <1>1. ASSUME job[p].cmd = "populate",
               NEW f \in Incoming, job' = [job EXCEPT ![p].feed = f]
        PROVE  Admitted(p)
    BY <1>0, <1>1 DEF Job, Admitted
  <1>2. ASSUME job[p].cmd = "probe", NEW sel \in SUBSET Slugs,
               job' = [job EXCEPT ![p].sel = sel, ![p].began = clock]
        PROVE  Admitted(p)
    <2> DEFINE k == [job[p] EXCEPT !.sel = sel, !.began = clock]
    <2>1. k \in Job
      BY <1>0, <1>2 DEF Job
    <2>2. /\ k.cmd = job[p].cmd /\ k.proposal = job[p].proposal /\ k.live = job[p].live
          /\ k.began = clock
      BY <1>0 DEF Job
    <2>3. job' = [job EXCEPT ![p] = k]
      BY <1>0, <1>2
    <2> HIDE DEF k
    <2>4. job'[p] = k /\ job' \in [Procs -> Job] /\ \A q \in Procs : q # p => job'[q] = job[q]
      BY <1>0, <2>1, <2>3
    <2>5. clock <= clock
      BY <1>0
    <2> QED
      BY <1>2, <2>2, <2>4, <2>5 DEF Admitted
  <1>3. ASSUME job[p].cmd = "smoke", NEW sel \in SUBSET Slugs, NEW network \in BOOLEAN,
               job' = [job EXCEPT ![p].sel = Selected(rows, sel), ![p].network = network]
        PROVE  Admitted(p)
    <2>1. /\ Selected(rows, sel) \in SUBSET Slugs
          /\ \A s \in Selected(rows, sel) : s \in Existing(rows) /\ rows[s].enabled
      BY <1>3 DEF Selected, Existing
    <2> DEFINE k == [job[p] EXCEPT !.sel = Selected(rows, sel), !.network = network]
    <2>2. k \in Job /\ k.cmd = "smoke" /\ k.sel = Selected(rows, sel)
          /\ k.proposal = job[p].proposal /\ k.live = job[p].live
      BY <1>0, <1>3, <2>1 DEF Job
    <2>3. job' = [job EXCEPT ![p] = k]
      BY <1>0, <1>3
    <2> HIDE DEF k
    <2>4. job'[p] = k /\ job' \in [Procs -> Job] /\ \A q \in Procs : q # p => job'[q] = job[q]
      BY <1>0, <2>2, <2>3
    <2> QED
      BY <1>3, <2>1, <2>2, <2>4 DEF Admitted
  <1>4. ASSUME job[p].cmd = "remediate",
               NEW sel \in SUBSET {s \in Existing(rows) : rows[s].health = "unhealthy"},
               job' = [job EXCEPT ![p].sel = sel]
        PROVE  Admitted(p)
    <2>1. sel \in SUBSET Slugs
      BY <1>4 DEF Existing
    <2> DEFINE k == [job[p] EXCEPT !.sel = sel]
    <2>2. k \in Job /\ k.cmd = "remediate" /\ k.sel = sel
          /\ k.proposal = job[p].proposal /\ k.live = job[p].live
      BY <1>0, <1>4, <2>1 DEF Job
    <2>3. job' = [job EXCEPT ![p] = k]
      BY <1>0, <1>4
    <2> HIDE DEF k
    <2>4. job'[p] = k /\ job' \in [Procs -> Job] /\ \A q \in Procs : q # p => job'[q] = job[q]
      BY <1>0, <2>2, <2>3
    <2> QED
      BY <1>4, <2>2, <2>4 DEF Admitted
  <1>5. ASSUME job[p].cmd = "ingest", NEW sel \in SUBSET Slugs,
               job' = [job EXCEPT ![p].sel = sel]
        PROVE  Admitted(p)
    BY <1>0, <1>5 DEF Job, Admitted
  <1>6. ASSUME job[p].cmd \in {"backfill", "hygiene"}, job' = job
        PROVE  Admitted(p)
    BY <1>0, <1>6 DEF Admitted
  <1> QED
    BY <1>0, <1>1, <1>2, <1>3, <1>4, <1>5, <1>6 DEF Admit

----
(* The registry as it is *)

(* What is so of a command whatever the scripts do beside it: it has the   *)
(* feed it read, the rows it is to smoke or to fix are there, and so are   *)
(* those it loaded, until it removes some itself.                          *)
Working(p) ==
    /\ pc[p] = "wait" => job[p].cmd \in Commands
    /\ pc[p] = "populate" => job[p].feed \in Incoming
    /\ pc[p] \in {"smoke", "remediate"} => job[p].sel \subseteq Existing(rows)
    /\ Inside(p) /\ pc[p] # "edges" => Stays(loaded[p], rows)

(* The lock admits one command.                                            *)
Exclusive == \A p \in Procs : Inside(p) <=> lock = p

(* The script under way writes rows; a seed had read those it rewrites.    *)
ScriptRight ==
    script # NoScript =>
        /\ script.kind \in ScriptNames /\ script.sel \subseteq Slugs /\ script.loaded \in Table
        /\ script.kind = "seed" => script.sel \subseteq Existing(script.loaded)

OpenInv == TypeOK /\ Exclusive /\ ScriptRight /\ \A p \in Procs : Working(p)

(* It holds in every starting table.                                       *)
LEMMA OpenInit == Init => OpenInv
  <1> SUFFICES ASSUME Init PROVE OpenInv
    OBVIOUS
  <1>1. TypeOK
    BY NoJobType, RegistryAssumption DEF Init, TypeOK, Phases, DesiredEdges
  <1>2. Exclusive
    BY RegistryAssumption DEF Init, Exclusive, Inside
  <1>3. ScriptRight /\ \A p \in Procs : Working(p)
    BY DEF Init, ScriptRight, Working, Inside
  <1> QED
    BY <1>1, <1>2, <1>3 DEF OpenInv

(* One row written in place leaves a table that keeps the others.          *)
LEMMA OneRowStays ==
    ASSUME NEW t \in Table, NEW s \in Existing(t), NEW new \in Row, new.cls = t[s].cls,
           NEW u, u = [t EXCEPT ![s] = new]
    PROVE  u \in Table /\ Stays(t, u)
  BY RowsAssumption DEF Table, Existing, Stays

(* register_cli.py leaves a row, of its class if it was there.             *)
LEMMA RegisteredRowType ==
    ASSUME rows \in Table, NEW s \in Slugs, NEW smoke \in Smokes, NEW port \in Ports,
           NEW health \in {"healthy", "unhealthy"}, NEW new, new = RegisteredRow(s, smoke, port, health)
    PROVE  new \in Row /\ (rows[s] # NoRow => new.cls = rows[s].cls)
  <1>1. \A old \in SUBSET Capability : ManualCaps(old, port) \in SUBSET Capability
    BY DEF ManualCaps, Capability, Provenances
  <1>2. CASE rows[s] = NoRow
    <2>1. PICK rec : rec = [text |-> "feed", ns |-> FALSE, port |-> port]
      OBVIOUS
    <2>2. rec \in FeedRecord
      BY <2>1 DEF FeedRecord
    <2>3. PICK row : row = NewRow(rec)
      OBVIOUS
    <2>4. row \in Row
      BY <2>2, <2>3, NewRowType
    <2>5. PICK caps : caps = ManualCaps({}, port)
      OBVIOUS
    <2>6. caps \in SUBSET Capability
      BY <1>1, <2>5
    <2>7. new = [row EXCEPT !.cls = "manual_register", !.caps = caps, !.health = health]
      BY <1>2, <2>1, <2>3, <2>5 DEF RegisteredRow
    <2> QED
      BY <1>2, <2>4, <2>6, <2>7 DEF Row, Classes, Healths
  <1>3. CASE rows[s] # NoRow
    <2>1. rows[s] \in Row
      BY <1>3, RowOfTable
    <2>2. PICK row, caps, launch :
              /\ row = rows[s] /\ caps = ManualCaps(row.caps, port)
              /\ launch = [layout |-> "feed", smoke |-> IF smoke = row.launch.smoke THEN smoke ELSE NoSmoke]
      OBVIOUS
    <2>3. row \in Row /\ caps \in SUBSET Capability
      BY <1>1, <2>1, <2>2 DEF Row
    <2>4. launch \in Launch
      BY <2>2 DEF Launch, Layouts
    <2>5. new = [row EXCEPT !.caps = caps, !.desc = "feed", !.launch = launch]
      BY <1>3, <2>2 DEF RegisteredRow
    <2> QED
      BY <2>2, <2>3, <2>4, <2>5 DEF Row, Texts
  <1> QED
    BY <1>2, <1>3

(* Every script leaves a row, of its class if it was there.                *)
LEMMA ScriptRowType ==
    ASSUME rows \in Table, NEW s \in Slugs, NEW k \in ScriptNames,
           NEW smoke \in Smokes, NEW port \in Ports, NEW health \in {"healthy", "unhealthy"},
           rows[s] # NoRow \/ k = "register", k = "seed" => script.loaded[s] \in Row,
           NEW new, new = ScriptRow(k, s, smoke, port, health)
    PROVE  new \in Row /\ (rows[s] # NoRow => new.cls = rows[s].cls)
  <1>1. CASE k = "register"
    <2>1. new = RegisteredRow(s, smoke, port, health)
      BY <1>1 DEF ScriptRow
    <2> QED
      BY <2>1, RegisteredRowType
  <1>2. k # "register" => rows[s] \in Row
    BY RowOfTable
  <1>3. CASE k = "seed"
    <2>1. PICK row, old, launch : /\ row = rows[s] /\ old = script.loaded[s].launch
                                  /\ launch = [old EXCEPT !.smoke = smoke]
      OBVIOUS
    <2>2. row \in Row /\ old \in Launch
      BY <1>2, <1>3, <2>1 DEF Row
    <2>3. launch \in Launch
      BY <2>1, <2>2 DEF Launch
    <2>4. new = [row EXCEPT !.launch = launch]
      BY <1>3, <2>1 DEF ScriptRow
    <2> QED
      BY <2>1, <2>2, <2>3, <2>4 DEF Row
  <1>4. CASE k \in {"reclassify", "envgate"}
    <2>1. new \in {[rows[s] EXCEPT !.health = "healthy"], [rows[s] EXCEPT !.health = "skipped_needs_env"]}
      BY <1>4 DEF ScriptRow
    <2> QED
      BY <1>2, <1>4, <2>1 DEF Row, Healths
  <1>5. CASE k = "disable"
    <2>1. new = [rows[s] EXCEPT !.enabled = FALSE, !.health = "unknown"]
      BY <1>5 DEF ScriptRow
    <2> QED
      BY <1>2, <1>5, <2>1 DEF Row, Healths
  <1>6. CASE k = "reeval"
    <2>1. new = [rows[s] EXCEPT !.ns = TRUE, !.health = "not_standalone"]
      BY <1>6 DEF ScriptRow
    <2> QED
      BY <1>2, <1>6, <2>1 DEF Row, Healths
  <1>7. CASE k = "judge"
    <2>1. PICK row, caps : row = rows[s] /\ caps = EnsuredCaps(row.caps)
      OBVIOUS
    <2>2. row \in Row /\ caps \in SUBSET Capability
      BY <1>2, <1>7, <2>1, EnsuredCapsType DEF Row
    <2>3. new = [row EXCEPT !.caps = caps]
      BY <1>7, <2>1 DEF ScriptRow
    <2> QED
      BY <2>1, <2>2, <2>3 DEF Row
  <1> QED
    BY <1>1, <1>3, <1>4, <1>5, <1>6, <1>7 DEF ScriptNames

(* A script adds a row or changes rows in place.                           *)
LEMMA ScriptWriteStays ==
    ASSUME OpenInv, ScriptWrite
    PROVE  rows' \in Table /\ Stays(rows, rows')
  <1>1. /\ rows \in Table /\ script.kind \in ScriptNames /\ script.loaded \in Table
        /\ script.kind = "seed" => script.sel \subseteq Existing(script.loaded)
    BY DEF OpenInv, TypeOK, ScriptRight, ScriptWrite
  <1>2. PICK smoke \in Smokes, port \in Ports, health \in {"healthy", "unhealthy"} :
            rows' = [s \in Slugs |->
                       IF s \in script.sel /\ (rows[s] # NoRow \/ script.kind = "register")
                       THEN ScriptRow(script.kind, s, smoke, port, health) ELSE rows[s]]
    BY DEF ScriptWrite
  <1>3. ASSUME NEW s \in Slugs
        PROVE  /\ rows'[s] \in Row \cup {NoRow}
               /\ rows[s] # NoRow => rows'[s] # NoRow /\ rows'[s].cls = rows[s].cls
    <2>1. CASE s \in script.sel /\ (rows[s] # NoRow \/ script.kind = "register")
      <3>1. rows'[s] = ScriptRow(script.kind, s, smoke, port, health)
        BY <1>2, <2>1
      <3>2. script.kind = "seed" => script.loaded[s] \in Row
        BY <1>1, <2>1, RowOfTable DEF Existing
      <3>3. rows'[s] \in Row /\ (rows[s] # NoRow => rows'[s].cls = rows[s].cls)
        BY <1>1, <2>1, <3>1, <3>2, ScriptRowType
      <3> QED
        BY <3>3, RowsAssumption
    <2>2. CASE ~(s \in script.sel /\ (rows[s] # NoRow \/ script.kind = "register"))
      BY <1>1, <1>2, <2>2 DEF Table
    <2> QED
      BY <2>1, <2>2
  <1> QED
    BY <1>2, <1>3 DEF Table, Stays, Existing

(* So does every step of a command but populate's first commit.            *)
LEMMA CommandStays ==
    ASSUME OpenInv, NEW p \in Procs,
           Begin(p) \/ Die(p) \/ FilingEnds(p) \/ (Step(p) /\ ~PopulateUpsert(p))
    PROVE  rows' \in Table /\ Stays(rows, rows')
  <1>1. rows \in Table /\ loaded[p] \in Table /\ job[p] \in Job /\ Working(p)
    BY DEF OpenInv, TypeOK
  <1>2. CASE rows' = rows
    BY <1>1, <1>2, StaysItself
  <1>3. CASE Probe(p)
    <2>1. /\ pc[p] = "probe"
          /\ \E passed : rows' = ProbeRows(rows, loaded[p], job[p].sel, passed, job[p].began)
      BY <1>3 DEF Probe
    <2>2. Stays(loaded[p], rows)
      BY <1>1, <2>1, PhaseInside DEF Working, CommandNames
    <2>3. job[p].sel \in SUBSET Slugs /\ job[p].began \in Nat
      BY <1>1 DEF Job
    <2> QED
      BY <1>1, <2>1, <2>2, <2>3, ProbeRowsType
  <1>4. CASE SmokeWrite(p)
    <2>1. PICK s \in job[p].sel : \E verdict \in Verdicts(Held(p, s)) :
              rows' = [rows EXCEPT ![s] = SmokeRow(rows[s], Held(p, s), verdict)]
      BY <1>4 DEF SmokeWrite
    <2>2. s \in Existing(rows) /\ rows[s] \in Row
      BY <1>1, <1>4, RowOfTable DEF SmokeWrite, Working, Existing
    <2>3. PICK old, verdict : /\ old = Held(p, s) /\ verdict \in Verdicts(old)
                              /\ rows' = [rows EXCEPT ![s] = SmokeRow(rows[s], old, verdict)]
      BY <2>1
    <2>4. SmokeRow(rows[s], old, verdict) \in Row /\ SmokeRow(rows[s], old, verdict).cls = rows[s].cls
      BY <2>2, <2>3, SmokeRowType
    <2> QED
      BY <1>1, <2>2, <2>3, <2>4, OneRowStays
  <1>5. CASE RemediateFix(p)
    <2>1. PICK s \in job[p].sel : rows' = [rows EXCEPT ![s] = FixRow(rows[s])]
      BY <1>5 DEF RemediateFix
    <2>2. s \in Existing(rows) /\ rows[s] \in Row
      BY <1>1, <1>5, RowOfTable DEF RemediateFix, Working, Existing
    <2>3. PICK new : rows' = [rows EXCEPT ![s] = new] /\ new \in Row /\ new.cls = rows[s].cls
      BY <2>1, <2>2, FixRowType
    <2> QED
      BY <1>1, <2>2, <2>3, OneRowStays
  <1>6. CASE Ingest(p) \/ BackfillPersist(p) \/ BackfillCommit(p) \/ Hygiene(p)
    <2>1. job[p].proposal \in [Slugs -> SUBSET Capability]
      BY <1>1 DEF Job
    <2> QED
      BY <1>1, <1>6, <2>1, IngestRowsType, PersistRowsType, CommitRowsType, HygieneRowsType
      DEF Ingest, BackfillPersist, BackfillCommit, Hygiene
  <1>7. CASE \/ Begin(p) \/ Die(p) \/ Acquire(p) \/ ReportOnly(p) \/ PopulateRefuse(p)
             \/ PopulateClash(p) \/ PopulateEdges(p) \/ SmokeSkip(p) \/ SweepEnds(p)
             \/ FileIssues(p) \/ FilingEnds(p)
    BY <1>2, <1>7 DEF Begin, Acquire, Die, ReportOnly, PopulateRefuse, PopulateClash, PopulateEdges,
                      SmokeSkip, SweepEnds, FileIssues, FilingEnds
  <1> QED
    BY <1>3, <1>4, <1>5, <1>6, <1>7 DEF Step

(* populate's first commit removes what it counted when it decided.        *)
LEMMA UpsertRemoves ==
    ASSUME OpenInv, NEW p \in Procs, PopulateUpsert(p)
    PROVE  /\ rows' \in Table /\ Inside(p)
           /\ Stays(loaded[p], rows) /\ job[p].feed \in Incoming
           /\ ~BreakerTrips(loaded[p], job[p].feed)
           /\ Existing(rows) \ Existing(rows') = ToRemove(loaded[p], job[p].feed)
  <1>1. rows \in Table /\ loaded[p] \in Table /\ Working(p)
    BY DEF OpenInv, TypeOK
  <1>2. /\ pc[p] = "populate" /\ rows' = PopulateRows(rows, loaded[p], job[p].feed)
        /\ ~BreakerTrips(loaded[p], job[p].feed)
    BY DEF PopulateUpsert
  <1>3. Inside(p) /\ Stays(loaded[p], rows) /\ job[p].feed \in Incoming
    BY <1>1, <1>2, PhaseInside DEF Working, CommandNames
  <1> QED
    BY <1>1, <1>2, <1>3, PopulateRowsType
----
(* A command that is not the one to move goes on as before.                *)
LEMMA OthersWork ==
    ASSUME OpenInv, NEW q \in Procs, pc'[q] = pc[q], job'[q] = job[q], loaded'[q] = loaded[q],
           Stays(rows, rows') \/ ~Inside(q)
    PROVE  Working(q)'
  <1>1. Working(q)
    BY DEF OpenInv
  <1>2. CASE Stays(rows, rows')
    BY <1>1, <1>2 DEF Working, Stays, Existing, Inside
  <1>3. CASE ~Inside(q)
    BY <1>1, <1>3, PhaseInside DEF Working, Inside, CommandNames
  <1> QED
    BY <1>2, <1>3

(* A command that leaves, having written or not.                           *)
LEMMA LeavingKeepsOpen ==
    ASSUME OpenInv, NEW p \in Procs, Leave(p), rows' \in Table, Stays(rows, rows'),
           edges' \subseteq Edge, torn' \in BOOLEAN, UNCHANGED <<clock, begun, registered, script>>
    PROVE  OpenInv'
  <1>1. /\ TypeOK /\ Exclusive /\ ScriptRight
        /\ pc \in [Procs -> Phases] /\ job \in [Procs -> Job] /\ loaded \in [Procs -> Table]
    BY DEF OpenInv, TypeOK
  <1>2. TypeOK'
    BY <1>1, LeaveType DEF TypeOK
  <1>3. /\ pc'[p] = "idle"
        /\ \A q \in Procs : q # p => pc'[q] = pc[q] /\ job'[q] = job[q] /\ loaded'[q] = loaded[q]
    BY <1>1 DEF Leave
  <1>4. Exclusive'
    BY <1>1, <1>3, RegistryAssumption DEF Leave, Exclusive, Inside
  <1>5. ScriptRight'
    BY <1>1 DEF ScriptRight
  <1>6. ASSUME NEW q \in Procs PROVE Working(q)'
    <2>1. CASE q = p
      BY <1>3, <2>1 DEF Working, Inside
    <2>2. CASE q # p
      BY <1>3, <2>2, OthersWork
    <2> QED
      BY <2>1, <2>2
  <1> QED
    BY <1>2, <1>4, <1>5, <1>6 DEF OpenInv

(* A command that goes on inside.                                          *)
LEMMA StayingKeepsOpen ==
    ASSUME OpenInv, NEW p \in Procs, Inside(p), pc[p] # "edges",
           NEW phase \in Phases \ {"idle", "wait", "populate"}, pc' = [pc EXCEPT ![p] = phase],
           NEW k \in Job, job' = [job EXCEPT ![p] = k],
           rows' \in Table, Stays(rows, rows') \/ phase = "edges", registered' \subseteq Slugs,
           UNCHANGED <<edges, clock, lock, loaded, begun, torn, script>>,
           phase \in {"smoke", "remediate"} => k.sel \subseteq Existing(rows')
    PROVE  OpenInv'
  <1>1. /\ TypeOK /\ Exclusive /\ ScriptRight /\ Working(p)
        /\ pc \in [Procs -> Phases] /\ job \in [Procs -> Job]
    BY DEF OpenInv, TypeOK
  <1>2. TypeOK'
    BY <1>1 DEF TypeOK
  <1>3. /\ pc'[p] = phase /\ job'[p] = k
        /\ \A q \in Procs : q # p => pc'[q] = pc[q] /\ job'[q] = job[q] /\ ~Inside(q)
    BY <1>1 DEF Exclusive
  <1>4. Exclusive'
    BY <1>1, <1>3 DEF Exclusive, Inside
  <1>5. ScriptRight'
    BY <1>1 DEF ScriptRight
  <1>6. Working(p)'
    BY <1>1, <1>3 DEF Working, Stays
  <1>7. ASSUME NEW q \in Procs, q # p PROVE Working(q)'
    BY <1>3, <1>7, OthersWork
  <1> QED
    BY <1>2, <1>4, <1>5, <1>6, <1>7 DEF OpenInv

(* The two ways in.                                                        *)
LEMMA EnteringKeepsOpen ==
    ASSUME OpenInv, NEW p \in Procs, Begin(p) \/ Acquire(p)
    PROVE  OpenInv'
  <1>1. /\ TypeOK /\ Exclusive /\ ScriptRight /\ Working(p)
        /\ pc \in [Procs -> Phases] /\ job \in [Procs -> Job] /\ loaded \in [Procs -> Table]
    BY DEF OpenInv, TypeOK
  <1>2. UNCHANGED <<rows, edges, clock, script, torn, registered>> /\ Stays(rows, rows')
    BY StaysItself DEF Begin, Acquire
  <1>3. ScriptRight'
    BY <1>1, <1>2 DEF ScriptRight
  <1>4. CASE Begin(p)
    <2>1. PICK j \in Job : job' = [job EXCEPT ![p] = j] /\ j.cmd \in Commands
      BY <1>4, BeginJob
    <2>2. /\ pc[p] = "idle" /\ pc' = [pc EXCEPT ![p] = "wait"]
          /\ begun' = begun + 1 /\ UNCHANGED <<lock, loaded>>
      BY <1>4 DEF Begin
    <2>3. TypeOK'
      BY <1>1, <1>2, <2>1, <2>2 DEF TypeOK, Phases
    <2>4. \A q \in Procs : IF q = p THEN pc'[q] = "wait" /\ job'[q] = j
                           ELSE pc'[q] = pc[q] /\ job'[q] = job[q]
      BY <1>1, <2>1, <2>2
    <2>5. Exclusive'
      BY <1>1, <2>2, <2>4 DEF Exclusive, Inside
    <2>6. Working(p)'
      BY <2>1, <2>4 DEF Working, Inside
    <2>7. ASSUME NEW q \in Procs, q # p PROVE Working(q)'
      BY <1>2, <2>2, <2>4, <2>7, OthersWork
    <2> QED
      BY <1>3, <2>3, <2>5, <2>6, <2>7 DEF OpenInv
  <1>5. CASE Acquire(p)
    <2>1. Admitted(p)
      BY <1>1, <1>5, AcquireJob
    <2>2. /\ pc[p] = "wait" /\ lock = Free /\ lock' = p /\ begun' = begun
          /\ pc' = [pc EXCEPT ![p] = job[p].cmd] /\ loaded' = [loaded EXCEPT ![p] = rows]
      BY <1>5 DEF Acquire
    <2>3. job[p].cmd \in CommandNames
      BY <1>1, <2>2, RegistryAssumption DEF Working
    <2>4. TypeOK'
      BY <1>1, <1>2, <2>1, <2>2, <2>3 DEF TypeOK, Phases, Admitted
    <2>5. \A q \in Procs : IF q = p THEN pc'[q] = job[p].cmd /\ loaded'[q] = rows
                           ELSE pc'[q] = pc[q] /\ loaded'[q] = loaded[q] /\ job'[q] = job[q]
      BY <1>1, <2>1, <2>2 DEF Admitted
    <2>6. Exclusive'
      <3>1. Inside(p)'
        BY <2>3, <2>5 DEF Inside, CommandNames
      <3>2. \A q \in Procs : q # p => ~Inside(q)'
        BY <1>1, <2>2, <2>5, RegistryAssumption DEF Exclusive, Inside
      <3> QED
        BY <2>2, <3>1, <3>2 DEF Exclusive
    <2>7. Working(p)'
      BY <1>2, <2>1, <2>3, <2>5, StaysItself DEF Working, Admitted, CommandNames
    <2>8. ASSUME NEW q \in Procs, q # p PROVE Working(q)'
      BY <1>2, <2>5, <2>8, OthersWork
    <2> QED
      BY <1>3, <2>4, <2>6, <2>7, <2>8 DEF OpenInv
  <1> QED
    BY <1>4, <1>5

(* Every way out.                                                          *)
LEMMA OutKeepsOpen ==
    ASSUME OpenInv, NEW p \in Procs,
           \/ Die(p) \/ ReportOnly(p) \/ PopulateRefuse(p) \/ PopulateClash(p) \/ SweepEnds(p)
           \/ FilingEnds(p) \/ PopulateEdges(p) \/ Probe(p) \/ Ingest(p) \/ BackfillCommit(p) \/ Hygiene(p)
    PROVE  OpenInv'
  <1>1. edges \subseteq Edge /\ torn \in BOOLEAN
    BY DEF OpenInv, TypeOK
  <1>2. Leave(p) /\ UNCHANGED <<clock, begun, registered, script>>
    BY DEF Die, ReportOnly, PopulateRefuse, PopulateClash, SweepEnds, FilingEnds, PopulateEdges, Probe, Ingest,
           BackfillCommit, Hygiene
  <1>3. rows' \in Table /\ Stays(rows, rows')
    <2>1. ~PopulateUpsert(p)
      <3>1. pc \in [Procs -> Phases] /\ pc' = [pc EXCEPT ![p] = "idle"]
        BY <1>2 DEF OpenInv, TypeOK, Leave
      <3> QED
        BY <3>1 DEF PopulateUpsert
    <2> QED
      BY <2>1, CommandStays DEF Step
  <1>4. edges' \subseteq Edge
    BY <1>1 DEF Die, ReportOnly, PopulateRefuse, PopulateClash, SweepEnds, FilingEnds, PopulateEdges, Probe, Ingest,
                BackfillCommit, Hygiene, DesiredEdges
  <1>5. torn' \in BOOLEAN
    BY <1>1, Zenon DEF Die, ReportOnly, PopulateRefuse, PopulateClash, SweepEnds, FilingEnds, PopulateEdges, Probe,
                       Ingest, BackfillCommit, Hygiene
  <1> QED
    BY <1>2, <1>3, <1>4, <1>5, LeavingKeepsOpen

(* The steps within a command.                                             *)
LEMMA InsideKeepsOpen ==
    ASSUME OpenInv, NEW p \in Procs,
           \/ PopulateUpsert(p) \/ SmokeSkip(p) \/ SmokeWrite(p) \/ RemediateFix(p)
           \/ FileIssues(p) \/ BackfillPersist(p)
    PROVE  OpenInv'
  <1>1. /\ registered \subseteq Slugs /\ pc \in [Procs -> Phases] /\ job \in [Procs -> Job]
        /\ job[p] \in Job /\ Working(p)
    BY DEF OpenInv, TypeOK
  <1>2. /\ pc[p] \in {"populate", "smoke", "remediate", "backfill"}
        /\ UNCHANGED <<edges, clock, lock, loaded, begun, torn, script>>
        /\ registered' \subseteq Slugs
    BY <1>1 DEF PopulateUpsert, SmokeSkip, SmokeWrite, RemediateFix, FileIssues, BackfillPersist
  <1>3. Inside(p) /\ pc[p] # "edges"
    BY <1>2, PhaseInside DEF CommandNames
  <1>4. CASE PopulateUpsert(p)
    <2>1. pc' = [pc EXCEPT ![p] = "edges"] /\ job' = [job EXCEPT ![p] = job[p]]
      BY <1>1, <1>4 DEF PopulateUpsert
    <2>2. rows' \in Table /\ "edges" \in Phases \ {"idle", "wait", "populate"}
      BY <1>4, UpsertRemoves DEF Phases
    <2> QED
      BY <1>1, <1>2, <1>3, <2>1, <2>2, StayingKeepsOpen
  <1>5. CASE SmokeSkip(p) \/ SmokeWrite(p) \/ RemediateFix(p)
    <2>1. ~PopulateUpsert(p) /\ pc[p] \in {"smoke", "remediate"} /\ pc' = [pc EXCEPT ![p] = pc[p]]
      BY <1>1, <1>5 DEF SmokeSkip, SmokeWrite, RemediateFix, PopulateUpsert
    <2>2. rows' \in Table /\ Stays(rows, rows')
      BY <1>5, <2>1, CommandStays DEF Step
    <2>3. PICK k \in Job : job' = [job EXCEPT ![p] = k] /\ k.sel \subseteq job[p].sel
      <3>1. PICK s \in job[p].sel : \/ job' = [job EXCEPT ![p].sel = job[p].sel \ {s}]
                                    \/ job' = [job EXCEPT ![p].sel = job[p].sel \ {s}, ![p].live = TRUE]
        BY <1>5 DEF SmokeSkip, SmokeWrite, RemediateFix
      <3> DEFINE k1 == [job[p] EXCEPT !.sel = job[p].sel \ {s}]
                 k2 == [job[p] EXCEPT !.sel = job[p].sel \ {s}, !.live = TRUE]
      <3>2. /\ k1 \in Job /\ k1.sel \subseteq job[p].sel
            /\ k2 \in Job /\ k2.sel \subseteq job[p].sel
        BY <1>1 DEF Job
      <3>3. job' = [job EXCEPT ![p] = k1] \/ job' = [job EXCEPT ![p] = k2]
        BY <1>1, <3>1
      <3> HIDE DEF k1, k2
      <3> QED
        BY <3>2, <3>3
    <2>4. k.sel \subseteq Existing(rows')
      BY <1>1, <2>1, <2>2, <2>3 DEF Working, Stays
    <2>5. pc[p] \in Phases \ {"idle", "wait", "populate"}
      BY <1>1, <2>1
    <2> QED
      BY <1>2, <1>3, <2>1, <2>2, <2>3, <2>4, <2>5, StayingKeepsOpen
  <1>6. CASE BackfillPersist(p)
    <2>1. /\ ~PopulateUpsert(p) /\ pc' = [pc EXCEPT ![p] = "commit"]
          /\ job' = [job EXCEPT ![p] = job[p]]
      BY <1>1, <1>6 DEF BackfillPersist, PopulateUpsert
    <2>2. /\ rows' \in Table /\ Stays(rows, rows')
          /\ "commit" \in Phases \ {"idle", "wait", "populate"}
      BY <1>6, <2>1, CommandStays DEF Step, Phases
    <2> QED
      BY <1>1, <1>2, <1>3, <2>1, <2>2, StayingKeepsOpen
  <1>7. CASE FileIssues(p)
    <2>1. /\ ~PopulateUpsert(p) /\ pc' = [pc EXCEPT ![p] = "filing"]
          /\ job' = [job EXCEPT ![p] = job[p]]
      BY <1>1, <1>7 DEF FileIssues, PopulateUpsert
    <2>2. /\ rows' \in Table /\ Stays(rows, rows')
          /\ "filing" \in Phases \ {"idle", "wait", "populate"}
      BY <1>7, <2>1, CommandStays DEF Step, Phases
    <2> QED
      BY <1>1, <1>2, <1>3, <2>1, <2>2, StayingKeepsOpen
  <1> QED
    BY <1>4, <1>5, <1>6, <1>7

(* The clock and the scripts, which move no command.                       *)
LEMMA OutsideKeepsOpen ==
    ASSUME OpenInv, Tick \/ ScriptNext \/ UNCHANGED vars
    PROVE  OpenInv'
  <1>1. TypeOK /\ Exclusive /\ ScriptRight
    BY DEF OpenInv
  <1>2. UNCHANGED <<edges, lock, pc, job, loaded, torn>>
    BY DEF Tick, ScriptNext, ScriptRead, ScriptWrite, vars
  <1>3. rows' \in Table /\ Stays(rows, rows')
    <2>1. CASE ScriptWrite
      BY <2>1, ScriptWriteStays
    <2>2. CASE rows' = rows
      BY <1>1, <2>2, StaysItself DEF TypeOK
    <2> QED
      BY <2>1, <2>2 DEF Tick, ScriptNext, ScriptRead, vars
  <1>4. clock' \in Nat /\ begun' \in Nat
    BY <1>1 DEF TypeOK, Tick, ScriptNext, ScriptRead, ScriptWrite, vars
  <1>5. registered' \subseteq Slugs
    BY <1>1 DEF TypeOK, Tick, ScriptNext, ScriptRead, ScriptWrite, ScriptRight, vars
  <1>6. TypeOK'
    BY <1>1, <1>2, <1>3, <1>4, <1>5 DEF TypeOK
  <1>7. Exclusive'
    BY <1>1, <1>2 DEF Exclusive, Inside
  <1>8. ASSUME NEW q \in Procs PROVE Working(q)'
    BY <1>2, <1>3, OthersWork
  <1>9. ScriptRight'
    <2>1. CASE script' = script
      BY <1>1, <2>1 DEF ScriptRight
    <2>2. CASE ScriptWrite
      BY <2>2 DEF ScriptWrite, ScriptRight
    <2>3. CASE ScriptRead
      <3>1. PICK k \in Scripts : \E sel \in SUBSET Targets(k) :
                script' = [kind |-> k, sel |-> sel, loaded |-> rows]
        BY <2>3 DEF ScriptRead
      <3>2. k \in ScriptNames
        BY RegistryAssumption
      <3>3. Targets(k) \subseteq Slugs /\ (k = "seed" => Targets(k) \subseteq Existing(rows))
        BY <3>2 DEF Targets, ScriptNames, Existing
      <3>4. /\ script'.kind = k /\ script'.loaded = rows
            /\ script'.sel \subseteq Targets(k)
        BY <3>1
      <3> QED
        BY <1>1, <3>2, <3>3, <3>4 DEF TypeOK, ScriptRight
    <2> QED
      BY <2>1, <2>2, <2>3 DEF Tick, ScriptNext, vars
  <1> QED
    BY <1>6, <1>7, <1>8, <1>9 DEF OpenInv

(* Every step of the registry keeps the invariant.                         *)
LEMMA OpenStep == OpenInv /\ [Next]_vars => OpenInv'
  <1> SUFFICES ASSUME OpenInv, [Next]_vars PROVE OpenInv'
    OBVIOUS
  <1>1. ASSUME NEW p \in Procs, Begin(p) \/ Step(p) \/ FilingEnds(p) \/ Die(p) PROVE OpenInv'
    BY <1>1, EnteringKeepsOpen, OutKeepsOpen, InsideKeepsOpen DEF Step
  <1> QED
    BY <1>1, OutsideKeepsOpen DEF Next, LockedNext

(* So it holds throughout.                                                 *)
LEMMA OpenHolds == Spec => []OpenInv
  BY OpenInit, OpenStep, PTL DEF Spec

(* Whatever the commands, scripts and feeds, every variable keeps its      *)
(* type.                                                                   *)
THEOREM TypeCorrect == Spec => []TypeOK
  <1>1. OpenInv => TypeOK
    BY DEF OpenInv
  <1> QED
    BY <1>1, OpenHolds, PTL
----
(* What a step may remove *)

(* Only populate removes rows: of those it loaded the ones it counted for  *)
(* the breaker that let it pass, and all of them are still there.          *)
LEMMA OnlyPopulateRemoves ==
    ASSUME OpenInv, [Next]_vars
    PROVE  \/ Stays(rows, rows')
           \/ \E p \in Procs :
                /\ PopulateUpsert(p) /\ Stays(loaded[p], rows)
                /\ ~BreakerTrips(loaded[p], job[p].feed)
                /\ Existing(rows) \ Existing(rows') = ToRemove(loaded[p], job[p].feed)
  <1>1. ASSUME NEW p \in Procs, PopulateUpsert(p)
        PROVE  /\ Stays(loaded[p], rows)
               /\ ~BreakerTrips(loaded[p], job[p].feed)
               /\ Existing(rows) \ Existing(rows') = ToRemove(loaded[p], job[p].feed)
    BY <1>1, UpsertRemoves
  <1>2. ASSUME NEW p \in Procs,
               Begin(p) \/ Die(p) \/ FilingEnds(p) \/ (Step(p) /\ ~PopulateUpsert(p))
        PROVE  Stays(rows, rows')
    BY <1>2, CommandStays
  <1>3. CASE ScriptWrite
    BY <1>3, ScriptWriteStays
  <1>4. CASE Tick \/ ScriptRead \/ UNCHANGED vars
    BY <1>4, StaysItself DEF Tick, ScriptRead, vars
  <1> QED
    BY <1>1, <1>2, <1>3, <1>4 DEF Next, LockedNext, ScriptNext, Step

(* No feed ever deletes a row whose source_class is not its own, not even  *)
(* one a script registered while populate was reading its feed.            *)
THEOREM ForeignRowsAreKept == Spec => ForeignRowsKept
  <1>1. OpenInv /\ [Next]_vars
            => [\A s \in Existing(rows) : rows[s].cls \notin FeedOwned => rows'[s] # NoRow]_vars
    <2> SUFFICES ASSUME OpenInv, [Next]_vars, NEW s \in Existing(rows), rows[s].cls \notin FeedOwned
                 PROVE  rows'[s] # NoRow
      OBVIOUS
    <2>1. CASE Stays(rows, rows')
      BY <2>1 DEF Stays, Existing
    <2>2. ASSUME NEW p \in Procs, Stays(loaded[p], rows),
                 Existing(rows) \ Existing(rows') = ToRemove(loaded[p], job[p].feed)
          PROVE  rows'[s] # NoRow
      <3>1. s \notin ToRemove(loaded[p], job[p].feed)
        BY <2>2 DEF ToRemove, Stays
      <3> QED
        BY <2>2, <3>1 DEF Existing
    <2> QED
      BY <2>1, <2>2, OnlyPopulateRemoves
  <1> QED
    BY <1>1, OpenHolds, PTL DEF Spec, ForeignRowsKept

(* No step removes as many rows as the mass-removal threshold: the breaker *)
(* bounds what is there when it commits, not only what it read, since in   *)
(* between rows are added and none is taken away.                          *)
THEOREM BreakerBoundsRemovals == Spec => BreakerBounds
  <1> DEFINE gone == Existing(rows) \ Existing(rows')
  <1>1. ASSUME OpenInv, [Next]_vars, gone # {}
        PROVE  100 * Cardinality(gone) < Threshold * Cardinality(Existing(rows))
    <2>1. PICK p \in Procs : /\ Stays(loaded[p], rows) /\ ~BreakerTrips(loaded[p], job[p].feed)
                             /\ gone = ToRemove(loaded[p], job[p].feed)
      BY <1>1, OnlyPopulateRemoves DEF Stays
    <2> DEFINE read == Existing(loaded[p])
    <2>2. read # {} /\ gone \subseteq read
      BY <1>1, <2>1 DEF ToRemove
    <2>3. read \subseteq Existing(rows) /\ Existing(rows) \subseteq Slugs
      BY <2>1 DEF Stays, Existing
    <2>4. IsFiniteSet(Existing(rows))
      BY <2>3, RowsAssumption, FS_Subset
    <2>5. IsFiniteSet(read) /\ Cardinality(read) <= Cardinality(Existing(rows))
      BY <2>3, <2>4, FS_Subset
    <2>6. IsFiniteSet(gone)
      BY <2>4, FS_Subset
    <2>7. ~(100 * Cardinality(gone) >= Threshold * Cardinality(read))
      BY <2>1, <2>2 DEF BreakerTrips
    <2> HIDE DEF gone, read
    <2>8. PICK g \in Nat, r \in Nat, e \in Nat :
              g = Cardinality(gone) /\ r = Cardinality(read) /\ e = Cardinality(Existing(rows))
      BY <2>4, <2>5, <2>6, FS_CardinalityType
    <2>9. Threshold \in Nat /\ r <= e /\ ~(100 * g >= Threshold * r)
      BY <2>5, <2>7, <2>8, RowsAssumption
    <2>10. Threshold * r <= Threshold * e
      BY <2>8, <2>9
    <2>11. 100 * g < Threshold * e
      BY <2>8, <2>9, <2>10
    <2> QED
      BY <2>8, <2>11
  <1>2. OpenInv /\ [Next]_vars
            => [gone # {} => 100 * Cardinality(gone) < Threshold * Cardinality(Existing(rows))]_vars
    BY <1>1
  <1> QED
    BY <1>2, OpenHolds, PTL DEF Spec, BreakerBounds
----
(* The registry when every writer takes the lock *)

(* What a command knows of its job: the feed it read, the proposals it     *)
(* made, the rows it chose, and that those it has left are as it found     *)
(* them.                                                                   *)
JobRight(p) ==
    /\ pc[p] = "wait" => job[p].cmd \in Commands
    /\ pc[p] = "populate" => job[p].feed \in Incoming
    /\ pc[p] \in {"backfill", "commit"} \/ job[p].cmd = "backfill" => job[p].proposal \in Proposals
    /\ pc[p] = "probe" => job[p].began <= clock
    /\ pc[p] \in {"wait", "populate", "probe"} => ~job[p].live
    /\ pc[p] = "smoke" => \A s \in job[p].sel : s \in Existing(rows) /\ rows[s].enabled
    /\ pc[p] = "remediate" =>
          \A s \in job[p].sel : s \in Existing(rows) /\ rows[s].health = "unhealthy"

JobsRight == \A p \in Procs : JobRight(p)

Inv == TypeOK /\ SessionsFresh /\ JobsRight

(* No one else is inside a command.                                        *)
LEMMA Alone ==
    ASSUME Inv, NEW p \in Procs, Inside(p)
    PROVE  /\ lock = p
           /\ \A q \in Procs : q # p => ~Inside(q)
  BY DEF Inv, SessionsFresh

(* What loaded and committed tables a command inside works with are.       *)
LEMMA Fresh ==
    ASSUME Inv, NEW p \in Procs, Inside(p), pc[p] \notin {"edges", "commit"}, ~job[p].live
    PROVE  loaded[p] = rows
  BY DEF Inv, SessionsFresh

(* The invariant holds in every starting table.                            *)
LEMMA InvInit == Init => Inv
  <1> SUFFICES ASSUME Init PROVE Inv
    OBVIOUS
  <1>1. TypeOK
    BY NoJobType, RegistryAssumption DEF Init, TypeOK, Phases, DesiredEdges
  <1>2. SessionsFresh
    BY RegistryAssumption DEF Init, SessionsFresh, Inside
  <1>3. JobsRight
    BY NoJobType DEF Init, JobsRight, JobRight
  <1> QED
    BY <1>1, <1>2, <1>3 DEF Inv

(* Leaving: whatever the command wrote, everyone else is outside, or it    *)
(* was itself outside and wrote nothing.                                   *)
LEMMA LeaveKeepsInv ==
    ASSUME Inv, NEW p \in Procs, Leave(p), TypeOK',
           Inside(p) \/ rows' = rows, clock' = clock
    PROVE  Inv'
  <1>1. /\ pc \in [Procs -> Phases] /\ job \in [Procs -> Job] /\ loaded \in [Procs -> Table]
        /\ SessionsFresh /\ JobsRight
    BY DEF Inv, TypeOK
  <1>2. /\ pc'[p] = "idle" /\ job'[p] = NoJob
        /\ \A q \in Procs : q # p => /\ pc'[q] = pc[q] /\ job'[q] = job[q]
                                     /\ loaded'[q] = loaded[q]
    BY <1>1 DEF Leave
  <1>3. CASE Inside(p)
    <2>1. lock = p /\ lock' = Free /\ \A q \in Procs : ~Inside(q)'
      BY <1>2, <1>3, Alone DEF Leave, Inside
    <2>2. SessionsFresh'
      BY <2>1, RegistryAssumption DEF SessionsFresh
    <2>3. JobsRight'
      BY <1>1, <1>2, <2>1, NoJobType DEF JobsRight, JobRight, Inside
    <2> QED
      BY <2>2, <2>3 DEF Inv
  <1>4. CASE ~Inside(p)
    <2>1. lock # p /\ lock' = lock /\ rows' = rows
      BY <1>1, <1>4 DEF Leave, SessionsFresh
    <2>2. SessionsFresh'
      BY <1>1, <1>2, <2>1 DEF SessionsFresh, Inside
    <2>3. JobsRight'
      BY <1>1, <1>2, <2>1, NoJobType DEF JobsRight, JobRight
    <2> QED
      BY <2>2, <2>3 DEF Inv
  <1> QED
    BY <1>3, <1>4

----
(* Each step keeps the invariant *)

(* A command that begins is outside, its parameters well formed.           *)
LEMMA BeginKeepsInv ==
    ASSUME Inv, NEW p \in Procs, Begin(p)
    PROVE  Inv'
  <1>0. TypeOK /\ SessionsFresh /\ JobsRight
    BY DEF Inv
  <1>1. PICK j \in Job :
            /\ job' = [job EXCEPT ![p] = j]
            /\ j.cmd \in Commands /\ ~j.live
            /\ j.cmd = "backfill" => j.proposal \in Proposals
    BY BeginJob
  <1>2. /\ pc' = [pc EXCEPT ![p] = "wait"] /\ pc[p] = "idle"
        /\ begun' = begun + 1
        /\ UNCHANGED <<rows, edges, clock, lock, loaded, torn, registered>>
    BY DEF Begin
  <1>3. TypeOK'
    BY <1>0, <1>1, <1>2 DEF TypeOK, Phases
  <1>4. \A q \in Procs : IF q = p THEN pc'[q] = "wait" /\ job'[q] = j
                         ELSE pc'[q] = pc[q] /\ job'[q] = job[q]
    BY <1>0, <1>1, <1>2 DEF TypeOK
  <1>5. SessionsFresh'
    BY <1>0, <1>2, <1>4 DEF SessionsFresh, Inside
  <1>6. JobsRight'
    BY <1>0, <1>1, <1>2, <1>4 DEF JobsRight, JobRight
  <1> QED
    BY <1>3, <1>5, <1>6 DEF Inv

(* A command that gets the lock loads the table as it is.                  *)
LEMMA AcquireKeepsInv ==
    ASSUME Inv, NEW p \in Procs, Acquire(p)
    PROVE  Inv'
  <1>0. TypeOK /\ SessionsFresh /\ JobsRight /\ job[p] \in Job
    BY DEF Inv, TypeOK
  <1>1. /\ pc[p] = "wait" /\ lock = Free /\ lock' = p
        /\ pc' = [pc EXCEPT ![p] = job[p].cmd]
        /\ loaded' = [loaded EXCEPT ![p] = rows]
        /\ UNCHANGED <<rows, edges, clock, begun, torn, registered>>
    BY DEF Acquire
  <1>2. job[p].cmd \in Commands /\ job[p].cmd \in CommandNames
    BY <1>0, <1>1, RegistryAssumption DEF JobsRight, JobRight
  <1> DEFINE j == job'[p]
  <1>3. /\ job' \in [Procs -> Job]
        /\ \A q \in Procs : q # p => job'[q] = job[q]
        /\ j.cmd = job[p].cmd /\ j.proposal = job[p].proposal /\ j.live = job[p].live
        /\ j.cmd = "populate" => j.feed \in Incoming
        /\ j.cmd = "probe" => j.began <= clock
        /\ j.cmd = "smoke" => \A s \in j.sel : s \in Existing(rows) /\ rows[s].enabled
        /\ j.cmd = "remediate" =>
              \A s \in j.sel : s \in Existing(rows) /\ rows[s].health = "unhealthy"
    BY <1>0, AcquireJob DEF j, Admitted
  <1> HIDE DEF j
  <1>4. \A q \in Procs : IF q = p THEN pc'[q] = job[p].cmd /\ loaded'[q] = rows
                         ELSE pc'[q] = pc[q] /\ loaded'[q] = loaded[q]
    BY <1>0, <1>1 DEF TypeOK
  <1>5. TypeOK'
    BY <1>0, <1>1, <1>2, <1>3 DEF TypeOK, Phases
  <1>6. SessionsFresh'
    <2>1. Inside(p)' /\ ~Inside(p)
      BY <1>1, <1>2, <1>4 DEF Inside, CommandNames
    <2>2. \A q \in Procs : q # p => ~Inside(q) /\ ~Inside(q)'
      BY <1>0, <1>1, <1>4, RegistryAssumption DEF SessionsFresh, Inside
    <2> QED
      BY <1>1, <1>4, <2>1, <2>2 DEF SessionsFresh
  <1>7. JobsRight'
    <2>1. JobRight(p)'
      BY <1>0, <1>1, <1>2, <1>3, <1>4 DEF JobsRight, JobRight, CommandNames, j
    <2>2. ASSUME NEW q \in Procs, q # p PROVE JobRight(q)'
      BY <1>0, <1>1, <1>3, <1>4, <2>2 DEF JobsRight, JobRight
    <2> QED
      BY <2>1, <2>2 DEF JobsRight
  <1> QED
    BY <1>5, <1>6, <1>7 DEF Inv

(* A command that leaves, having written a table or nothing.               *)
LEMMA LeavingKeepsInv ==
    ASSUME Inv, NEW p \in Procs, Leave(p),
           rows' \in Table, Inside(p) \/ rows' = rows,
           edges' \subseteq Edge, torn' \in BOOLEAN,
           UNCHANGED <<clock, begun, registered>>
    PROVE  Inv'
  <1>1. TypeOK
    BY DEF Inv
  <1>2. TypeOK'
    BY <1>1, LeaveType DEF TypeOK
  <1> QED
    BY <1>2, LeaveKeepsInv

(* A command that goes on: it holds the lock, so that what it writes is    *)
(* stale for nobody, and it will not write back what it loaded.            *)
LEMMA StayingKeepsInv ==
    ASSUME Inv, NEW p \in Procs, Inside(p),
           NEW phase \in Phases \ {"idle", "wait"}, pc' = [pc EXCEPT ![p] = phase],
           NEW k \in Job, job' = [job EXCEPT ![p] = k],
           rows' \in Table, registered' \subseteq Slugs,
           UNCHANGED <<edges, clock, lock, loaded, begun, torn>>,
           phase \in {"edges", "commit"} \/ k.live \/ (loaded[p] = rows'),
           JobRight(p)'
    PROVE  Inv'
  <1>1. /\ TypeOK /\ SessionsFresh /\ JobsRight
        /\ pc \in [Procs -> Phases] /\ job \in [Procs -> Job]
    BY DEF Inv, TypeOK
  <1>2. TypeOK'
    BY <1>1 DEF TypeOK
  <1>3. /\ pc'[p] = phase /\ job'[p] = k
        /\ \A q \in Procs : q # p => pc'[q] = pc[q] /\ job'[q] = job[q] /\ ~Inside(q)
    BY <1>1, Alone
  <1>4. lock = p
    BY Alone
  <1>5. SessionsFresh'
    <2>1. Inside(p)'
      BY <1>3 DEF Inside
    <2>2. ASSUME NEW q \in Procs, q # p PROVE ~Inside(q)'
      BY <1>3, <2>2 DEF Inside
    <2> QED
      BY <1>3, <1>4, <2>1, <2>2 DEF SessionsFresh
  <1>6. JobsRight'
    <2>1. ASSUME NEW q \in Procs, q # p PROVE JobRight(q)'
      <3>1. pc[q] \in {"idle", "wait"} /\ JobRight(q)
        BY <1>1, <1>3, <2>1 DEF JobsRight, Inside
      <3> QED
        BY <1>3, <2>1, <3>1 DEF JobRight
    <2> QED
      BY <2>1 DEF JobsRight
  <1> QED
    BY <1>2, <1>5, <1>6 DEF Inv

(* Commands that end without a write: killed, dry, refused, failed, done.  *)
LEMMA QuietLeavesKeepInv ==
    ASSUME Inv, NEW p \in Procs,
           \/ ReportOnly(p) \/ PopulateRefuse(p) \/ PopulateClash(p)
           \/ SweepEnds(p) \/ FilingEnds(p) \/ Die(p)
    PROVE  Inv'
  <1>1. /\ Leave(p)
        /\ UNCHANGED <<rows, edges, clock, begun, registered>>
    BY DEF ReportOnly, PopulateRefuse, PopulateClash, SweepEnds, FilingEnds, Die
  <1>2. rows \in Table /\ edges \subseteq Edge /\ torn \in BOOLEAN
    BY DEF Inv, TypeOK
  <1>3. torn' \in BOOLEAN
    BY <1>2, Zenon DEF ReportOnly, PopulateRefuse, PopulateClash, SweepEnds, FilingEnds, Die
  <1> QED
    BY <1>1, <1>2, <1>3, LeavingKeepsInv

(* The commands that write and leave in one commit.                        *)
LEMMA WritingLeavesKeepInv ==
    ASSUME Inv, NEW p \in Procs,
           PopulateEdges(p) \/ Probe(p) \/ Ingest(p) \/ BackfillCommit(p) \/ Hygiene(p)
    PROVE  Inv'
  <1>1. /\ rows \in Table /\ edges \subseteq Edge /\ torn \in BOOLEAN
        /\ job[p] \in Job /\ JobRight(p)
    BY DEF Inv, TypeOK, JobsRight
  <1>2. CASE PopulateEdges(p)
    <2>1. Leave(p) /\ UNCHANGED <<rows, clock, begun, registered>> /\ torn' = FALSE
      BY <1>2 DEF PopulateEdges
    <2>2. edges' \subseteq Edge
      BY <1>2 DEF PopulateEdges, DesiredEdges
    <2> QED
      BY <1>1, <2>1, <2>2, LeavingKeepsInv
  <1>3. CASE Probe(p)
    <2>1. /\ pc[p] = "probe" /\ Leave(p) /\ UNCHANGED <<edges, clock, begun, torn, registered>>
          /\ \E passed : rows' = ProbeRows(rows, loaded[p], job[p].sel, passed, job[p].began)
      BY <1>3 DEF Probe
    <2>2. Inside(p) /\ loaded[p] = rows
      BY <1>1, <2>1, PhaseInside, Fresh DEF JobRight, CommandNames
    <2>3. job[p].sel \in SUBSET Slugs /\ job[p].began \in Nat
      BY <1>1 DEF Job
    <2>4. rows' \in Table
      BY <1>1, <2>1, <2>2, <2>3, StaysItself, ProbeRowsType
    <2> QED
      BY <1>1, <2>1, <2>2, <2>4, LeavingKeepsInv
  <1>4. CASE Ingest(p)
    <2>1. /\ pc[p] = "ingest" /\ Leave(p) /\ UNCHANGED <<edges, clock, begun, torn, registered>>
          /\ rows' = IngestRows(rows, job[p].sel)
      BY <1>4 DEF Ingest
    <2>2. rows' \in Table /\ Inside(p)
      BY <1>1, <2>1, IngestRowsType, PhaseInside DEF CommandNames
    <2> QED
      BY <1>1, <2>1, <2>2, LeavingKeepsInv
  <1>5. CASE BackfillCommit(p)
    <2>1. /\ pc[p] = "commit" /\ Leave(p) /\ UNCHANGED <<edges, clock, begun, torn, registered>>
          /\ rows' = CommitRows(rows, job[p].sel, job[p].proposal)
      BY <1>5 DEF BackfillCommit
    <2>2. job[p].proposal \in [Slugs -> SUBSET Capability]
      BY <1>1 DEF Job
    <2>3. rows' \in Table /\ Inside(p)
      BY <1>1, <2>1, <2>2, CommitRowsType, PhaseInside
    <2> QED
      BY <1>1, <2>1, <2>3, LeavingKeepsInv
  <1>6. CASE Hygiene(p)
    <2>1. /\ pc[p] = "hygiene" /\ Leave(p) /\ UNCHANGED <<edges, clock, begun, torn, registered>>
          /\ \E missing : rows' = HygieneRows(rows, missing)
      BY <1>6 DEF Hygiene
    <2>2. rows' \in Table /\ Inside(p)
      BY <1>1, <2>1, HygieneRowsType, PhaseInside DEF CommandNames
    <2> QED
      BY <1>1, <2>1, <2>2, LeavingKeepsInv
  <1> QED
    BY <1>2, <1>3, <1>4, <1>5, <1>6

(* populate's first commit: a table again, and the session is not used.    *)
LEMMA PopulateKeepsInv ==
    ASSUME Inv, NEW p \in Procs, PopulateUpsert(p)
    PROVE  Inv'
  <1>1. /\ rows \in Table /\ registered \subseteq Slugs
        /\ job \in [Procs -> Job] /\ job[p] \in Job /\ JobRight(p)
    BY DEF Inv, TypeOK, JobsRight
  <1>2. /\ pc[p] = "populate" /\ pc' = [pc EXCEPT ![p] = "edges"]
        /\ rows' = PopulateRows(rows, loaded[p], job[p].feed)
        /\ registered' \subseteq Slugs
        /\ UNCHANGED <<edges, clock, lock, job, loaded, begun, torn>>
    BY <1>1 DEF PopulateUpsert
  <1>3. Inside(p) /\ loaded[p] = rows /\ job[p].feed \in Incoming
    BY <1>1, <1>2, PhaseInside, Fresh DEF JobRight, CommandNames
  <1>4. rows' \in Table
    BY <1>1, <1>2, <1>3, StaysItself, PopulateRowsType
  <1>5. job' = [job EXCEPT ![p] = job[p]] /\ "edges" \in Phases \ {"idle", "wait"}
    BY <1>1, <1>2 DEF Phases
  <1>6. JobRight(p)'
    <2>1. pc'[p] = "edges" /\ job'[p] = job[p]
      BY <1>2 DEF Inv, TypeOK
    <2> QED
      BY <1>1, <2>1 DEF JobRight
  <1> QED
    BY <1>1, <1>2, <1>3, <1>4, <1>5, <1>6, StayingKeepsInv

(* A sweep drops the row it is done with from its selection; no row of the *)
(* selection is touched before its turn.                                   *)
LEMMA SmokeKeepsInv ==
    ASSUME Inv, NEW p \in Procs, SmokeSkip(p) \/ SmokeWrite(p)
    PROVE  Inv'
  <1>1. /\ rows \in Table /\ registered \subseteq Slugs /\ pc \in [Procs -> Phases]
        /\ job \in [Procs -> Job] /\ job[p] \in Job /\ JobRight(p)
        /\ pc[p] = "smoke"
    BY DEF Inv, TypeOK, JobsRight, SmokeSkip, SmokeWrite
  <1>2. Inside(p) /\ pc' = [pc EXCEPT ![p] = "smoke"] /\ "smoke" \in Phases \ {"idle", "wait"}
    BY <1>1, PhaseInside DEF CommandNames, Phases, SmokeSkip, SmokeWrite
  <1>3. UNCHANGED <<edges, clock, lock, loaded, begun, torn, registered>>
    BY DEF SmokeSkip, SmokeWrite
  <1>4. \A s \in job[p].sel : s \in Existing(rows) /\ rows[s].enabled
    BY <1>1 DEF JobRight
  <1>5. CASE SmokeSkip(p)
    <2>1. PICK s \in job[p].sel : job' = [job EXCEPT ![p].sel = job[p].sel \ {s}]
      BY <1>1, <1>5 DEF SmokeSkip
    <2> DEFINE k == [job[p] EXCEPT !.sel = job[p].sel \ {s}]
    <2>2. /\ k \in Job /\ k.sel = job[p].sel \ {s}
          /\ k.cmd = job[p].cmd /\ k.proposal = job[p].proposal /\ k.live = job[p].live
      BY <1>1 DEF Job
    <2>3. job' = [job EXCEPT ![p] = k] /\ rows' = rows
      BY <1>1, <1>5, <2>1 DEF SmokeSkip
    <2> HIDE DEF k
    <2>4. k.live \/ loaded[p] = rows'
      BY <1>1, <1>2, <2>2, <2>3, Fresh
    <2>5. JobRight(p)'
      <3>1. pc'[p] = "smoke" /\ job'[p] = k
        BY <1>1, <1>2, <2>3
      <3> QED
        BY <1>1, <1>4, <2>2, <2>3, <3>1 DEF JobRight
    <2> QED
      BY <1>1, <1>2, <1>3, <2>2, <2>3, <2>4, <2>5, StayingKeepsInv
  <1>6. CASE SmokeWrite(p)
    <2>1. PICK s \in job[p].sel, verdict \in {"unknown", "pass", "fail"} :
              /\ verdict \in Verdicts(Held(p, s))
              /\ rows' = [rows EXCEPT ![s] = SmokeRow(rows[s], Held(p, s), verdict)]
              /\ job' = [job EXCEPT ![p].sel = job[p].sel \ {s}, ![p].live = TRUE]
      BY <1>1, <1>6 DEF SmokeWrite, Verdicts
    <2> DEFINE k == [job[p] EXCEPT !.sel = job[p].sel \ {s}, !.live = TRUE]
    <2>2. /\ k \in Job /\ k.sel = job[p].sel \ {s}
          /\ k.cmd = job[p].cmd /\ k.proposal = job[p].proposal /\ k.live
      BY <1>1 DEF Job
    <2>3. job' = [job EXCEPT ![p] = k]
      BY <1>1, <2>1
    <2> HIDE DEF k
    <2>4. Held(p, s) = rows[s] /\ rows[s] \in Row /\ s \in Slugs
      BY <1>1, <1>2, <1>4, <2>1, Fresh, RowOfTable DEF Held, Existing
    <2> DEFINE new == SmokeRow(rows[s], rows[s], verdict)
    <2>5. rows' = [rows EXCEPT ![s] = new] /\ new \in Row
      BY <2>1, <2>4, SmokeRowType
    <2> HIDE DEF new
    <2>6. rows' \in Table /\ \A u \in Slugs : u # s => rows'[u] = rows[u]
      BY <1>1, <2>4, <2>5 DEF Table
    <2>7. JobRight(p)'
      <3>1. pc'[p] = "smoke" /\ job'[p] = k
        BY <1>1, <1>2, <2>3
      <3>2. \A u \in k.sel : u \in Existing(rows') /\ rows'[u].enabled
        BY <1>4, <2>2, <2>6 DEF Existing
      <3> QED
        BY <1>1, <2>2, <3>1, <3>2 DEF JobRight
    <2> QED
      BY <1>1, <1>2, <1>3, <2>2, <2>3, <2>6, <2>7, StayingKeepsInv
  <1> QED
    BY <1>5, <1>6

(* The remediation finds each row it has yet to reach as it chose it.      *)
LEMMA FixKeepsInv ==
    ASSUME Inv, NEW p \in Procs, RemediateFix(p)
    PROVE  Inv'
  <1>1. /\ rows \in Table /\ registered \subseteq Slugs /\ pc \in [Procs -> Phases]
        /\ job \in [Procs -> Job] /\ job[p] \in Job /\ JobRight(p)
        /\ pc[p] = "remediate"
        /\ UNCHANGED <<edges, clock, lock, loaded, begun, torn, registered>>
    BY DEF Inv, TypeOK, JobsRight, RemediateFix
  <1>2. Inside(p) /\ pc' = [pc EXCEPT ![p] = "remediate"] /\ "remediate" \in Phases \ {"idle", "wait"}
    BY <1>1, PhaseInside DEF CommandNames, Phases, RemediateFix
  <1>3. \A s \in job[p].sel : s \in Existing(rows) /\ rows[s].health = "unhealthy"
    BY <1>1 DEF JobRight
  <1>4. PICK s \in job[p].sel :
            /\ rows' = [rows EXCEPT ![s] = FixRow(rows[s])]
            /\ job' = [job EXCEPT ![p].sel = job[p].sel \ {s}, ![p].live = TRUE]
    BY <1>1 DEF RemediateFix
  <1> DEFINE k   == [job[p] EXCEPT !.sel = job[p].sel \ {s}, !.live = TRUE]
             new == FixRow(rows[s])
  <1>5. /\ k \in Job /\ k.sel = job[p].sel \ {s}
        /\ k.cmd = job[p].cmd /\ k.proposal = job[p].proposal /\ k.live
    BY <1>1 DEF Job
  <1>6. job' = [job EXCEPT ![p] = k]
    BY <1>1, <1>4
  <1>7. s \in Slugs /\ rows[s] \in Row /\ new \in Row
    BY <1>1, <1>3, RowOfTable, FixRowType DEF Existing
  <1> HIDE DEF k, new
  <1>8. rows' \in Table /\ \A u \in Slugs : u # s => rows'[u] = rows[u]
    BY <1>1, <1>4, <1>7 DEF Table, new
  <1>9. JobRight(p)'
    <2>1. pc'[p] = "remediate" /\ job'[p] = k
      BY <1>1, <1>2, <1>6
    <2>2. \A u \in k.sel : u \in Existing(rows') /\ rows'[u].health = "unhealthy"
      BY <1>3, <1>5, <1>8 DEF Existing
    <2> QED
      BY <1>1, <1>5, <2>1, <2>2 DEF JobRight
  <1> QED
    BY <1>1, <1>2, <1>5, <1>6, <1>8, <1>9, StayingKeepsInv

(* The tracker is no concern of the tables.                                *)
LEMMA FilingKeepsInv ==
    ASSUME Inv, NEW p \in Procs, FileIssues(p)
    PROVE  Inv'
  <1>1. /\ rows \in Table /\ registered \subseteq Slugs /\ pc \in [Procs -> Phases]
        /\ job \in [Procs -> Job] /\ job[p] \in Job /\ JobRight(p)
    BY DEF Inv, TypeOK, JobsRight
  <1>2. /\ pc[p] = "remediate" /\ pc' = [pc EXCEPT ![p] = "filing"]
        /\ UNCHANGED <<rows, edges, clock, lock, job, loaded, begun, torn, registered>>
    BY DEF FileIssues
  <1>3. Inside(p) /\ job' = [job EXCEPT ![p] = job[p]] /\ "filing" \in Phases \ {"idle", "wait"}
    BY <1>1, <1>2, PhaseInside DEF Phases, CommandNames
  <1>4. job[p].live \/ loaded[p] = rows'
    BY <1>2, <1>3, Fresh
  <1>5. JobRight(p)'
    <2>1. pc'[p] = "filing" /\ job'[p] = job[p]
      BY <1>1, <1>2
    <2> QED
      BY <1>1, <1>2, <2>1 DEF JobRight
  <1> QED
    BY <1>1, <1>2, <1>3, <1>4, <1>5, StayingKeepsInv

(* The backfill's first commit.                                            *)
LEMMA PersistKeepsInv ==
    ASSUME Inv, NEW p \in Procs, BackfillPersist(p)
    PROVE  Inv'
  <1>1. /\ rows \in Table /\ registered \subseteq Slugs /\ pc \in [Procs -> Phases]
        /\ job \in [Procs -> Job] /\ job[p] \in Job /\ JobRight(p)
    BY DEF Inv, TypeOK, JobsRight
  <1>2. /\ pc[p] = "backfill" /\ pc' = [pc EXCEPT ![p] = "commit"]
        /\ \E judged : rows' = PersistRows(rows, judged)
        /\ UNCHANGED <<edges, clock, lock, job, loaded, begun, torn, registered>>
    BY DEF BackfillPersist
  <1>3. rows' \in Table
    BY <1>1, <1>2, PersistRowsType
  <1>4. Inside(p) /\ job' = [job EXCEPT ![p] = job[p]] /\ "commit" \in Phases \ {"idle", "wait"}
    BY <1>1, <1>2, PhaseInside DEF Phases, CommandNames
  <1>5. JobRight(p)'
    <2>1. pc'[p] = "commit" /\ job'[p] = job[p]
      BY <1>1, <1>2
    <2> QED
      BY <1>1, <1>2, <2>1 DEF JobRight
  <1> QED
    BY <1>1, <1>2, <1>3, <1>4, <1>5, StayingKeepsInv

(* The clock moves away from no date the sweeps have noted.                *)
LEMMA TickKeepsInv ==
    ASSUME Inv, Tick
    PROVE  Inv'
  <1>1. /\ TypeOK /\ SessionsFresh /\ JobsRight /\ clock \in Nat /\ job \in [Procs -> Job]
    BY DEF Inv, TypeOK
  <1>2. /\ clock' = clock + 1
        /\ UNCHANGED <<rows, edges, lock, pc, job, loaded, begun, torn, registered>>
    BY DEF Tick
  <1>3. clock' \in Nat
    BY <1>1, <1>2
  <1>4. TypeOK'
    BY <1>1, <1>2, <1>3 DEF TypeOK
  <1>5. SessionsFresh'
    BY <1>1, <1>2 DEF SessionsFresh, Inside
  <1>6. ASSUME NEW p \in Procs PROVE JobRight(p)'
    <2>1. JobRight(p) /\ job[p].began \in Nat
      BY <1>1 DEF JobsRight, Job
    <2>2. pc[p] = "probe" => job[p].began <= clock'
      BY <1>1, <1>2, <2>1 DEF JobRight
    <2> QED
      BY <1>2, <2>1, <2>2 DEF JobRight
  <1> QED
    BY <1>4, <1>5, <1>6 DEF Inv, JobsRight

(* Every step of the locked registry keeps the invariant.                  *)
LEMMA InvStep == Inv /\ [LockedNext]_vars => Inv'
  <1> SUFFICES ASSUME Inv, [LockedNext]_vars PROVE Inv'
    OBVIOUS
  <1>1. CASE Tick
    BY <1>1, TickKeepsInv
  <1>2. ASSUME NEW p \in Procs, Begin(p) PROVE Inv'
    BY <1>2, BeginKeepsInv
  <1>3. ASSUME NEW p \in Procs, Step(p) PROVE Inv'
    BY <1>3, AcquireKeepsInv, QuietLeavesKeepInv, WritingLeavesKeepInv, PopulateKeepsInv,
       SmokeKeepsInv, FixKeepsInv, FilingKeepsInv, PersistKeepsInv DEF Step
  <1>4. ASSUME NEW p \in Procs, FilingEnds(p) \/ Die(p) PROVE Inv'
    BY <1>4, QuietLeavesKeepInv
  <1>5. CASE UNCHANGED vars
    BY <1>5 DEF vars, Inv, TypeOK, SessionsFresh, JobsRight, JobRight, Inside
  <1> QED
    BY <1>1, <1>2, <1>3, <1>4, <1>5 DEF LockedNext

(* So the invariant holds throughout.                                      *)
LEMMA InvHolds == LockedSpec => []Inv
  BY InvInit, InvStep, PTL DEF LockedSpec

(* with_file_lock is enough: what a command writes back it has read from   *)
(* the table as it still is, however long it worked in between.            *)
THEOREM LockKeepsSessionsFresh == LockedSpec => []SessionsFresh
  <1>1. Inv => SessionsFresh
    BY DEF Inv
  <1> QED
    BY <1>1, InvHolds, PTL
====
