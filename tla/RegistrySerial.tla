---- MODULE RegistrySerial ----
(***************************************************************************)
(* What the file lock is for: the registry seen as one table on which one  *)
(* transaction at a time takes effect, each of them a function of the      *)
(* table as it stands when it commits.  No session, no snapshot, no        *)
(* process: a command that wrote back what it had loaded too long ago      *)
(* would be a step this specification does not have.                       *)
(***************************************************************************)
EXTENDS RegistryRows

CONSTANTS InitialTables, MaxTime

VARIABLES rows, edges, clock

vars == <<rows, edges, clock>>

Init ==
    /\ rows \in InitialTables
    /\ edges = DesiredEdges(rows)
    /\ clock = 0

Populate ==
    /\ \E f \in Incoming :
         /\ ~BreakerTrips(rows, f)
         /\ rows' = PopulateRows(rows, rows, f)
    /\ UNCHANGED <<edges, clock>>

Recompute ==
    /\ edges' = DesiredEdges(rows)
    /\ UNCHANGED <<rows, clock>>

Probe ==
    /\ \E sel \in SUBSET Slugs, began \in 0..clock :
         \E passed \in SUBSET Probed(rows, sel) :
            rows' = ProbeRows(rows, rows, sel, passed, began)
    /\ UNCHANGED <<edges, clock>>

Smoke ==
    /\ \E s \in Existing(rows), network \in BOOLEAN : \E verdict \in Verdicts(rows[s]) :
         /\ rows[s].enabled
         /\ ~Gated(rows[s], network)
         /\ rows' = [rows EXCEPT ![s] = SmokeRow(rows[s], rows[s], verdict)]
    /\ UNCHANGED <<edges, clock>>

Fix ==
    /\ \E s \in Existing(rows) :
         /\ rows[s].health = "unhealthy"
         /\ rows' = [rows EXCEPT ![s] = FixRow(rows[s])]
    /\ UNCHANGED <<edges, clock>>

Ingest ==
    /\ \E bundle \in SUBSET Slugs : rows' = IngestRows(rows, bundle)
    /\ UNCHANGED <<edges, clock>>

Persist ==
    /\ \E judged \in SUBSET Slugs : rows' = PersistRows(rows, judged)
    /\ UNCHANGED <<edges, clock>>

Commit ==
    /\ \E sel \in SUBSET Slugs, proposal \in Proposals : rows' = CommitRows(rows, sel, proposal)
    /\ UNCHANGED <<edges, clock>>

Hygiene ==
    /\ \E missing \in SUBSET Placeholders(rows) : rows' = HygieneRows(rows, missing)
    /\ UNCHANGED <<edges, clock>>

Tick ==
    /\ clock < MaxTime
    /\ clock' = clock + 1
    /\ UNCHANGED <<rows, edges>>

Next == Populate \/ Recompute \/ Probe \/ Smoke \/ Fix \/ Ingest \/ Persist \/ Commit \/ Hygiene \/ Tick

Spec == Init /\ [][Next]_vars
====
