---- MODULE RegistryRows ----
(***************************************************************************)
(* The registry's tables and what each command writes into them.  A row    *)
(* stands for one Cli row together with the Capability rows of its slug    *)
(* (core/models.py); every operator below is the effect of one             *)
(* transaction, as a function of the committed table and of the rows the   *)
(* command loaded into its session earlier.  There is no state here: the   *)
(* processes, the file lock and the interleavings are in Registry, the     *)
(* serial system it must look like in RegistrySerial.                      *)
(***************************************************************************)
EXTENDS Integers, FiniteSets

CONSTANTS
    Slugs,          \* primary keys a Cli row may have
    Types,          \* port types
    Registered,     \* the vocabulary's registered ports
    Hubs,           \* the bare hub types, text and json
    Ports,          \* capability contents: [ins, outs, tags]
    Smokes,         \* hand-written smoke specifications
    SafeSmokes,     \* those whose side_effects are none or tmp
    NoSmoke,        \* a launch_spec without a smoke key
    NoRow,          \* no Cli row with this slug
    NoParser,       \* slugs whose script classify_standalone rejects
    NoCommand,      \* slugs for which no adapter yields a health command
    TypedOutputs,   \* the outputs a slug's source proves, per slug
    Feeds,          \* what the cli-audit feed file may hold
    DropMissingPaths, \* [populate].drop_missing_paths
    Proposals,      \* backfill proposals: a set of at most one capability per slug
    Threshold,      \* mass_removal_threshold, in percent
    StalenessTTL    \* staleness_ttl

NeverChecked == -1      \* health_checked_at is NULL

Provenances == {"none", "manual", "static", "llm"}
Preserved   == {"manual", "static", "llm"}      \* PRESERVED_PROVENANCE
FeedOwned   == {"cli_audit"}                    \* FEED_OWNED_SOURCE_CLASSES
Classes     == FeedOwned \cup {"manual_register"}
Texts       == {"feed", "placeholder", "llm", "manual", "okf"}
Healths     == {"unknown", "healthy", "unhealthy", "stale", "not_standalone",
                "skipped_needs_env"}
Layouts     == {"install", "feed", "probe"}

Capability == [prov : Provenances, port : Ports]
Launch     == [layout : Layouts, smoke : Smokes \cup {NoSmoke}]
Row == [cls      : Classes,
        desc     : Texts,
        descProv : Provenances,
        caps     : SUBSET Capability,
        ns       : BOOLEAN,
        health   : Healths,
        checked  : Nat \cup {NeverChecked},
        work     : {"unknown", "pass", "fail"},
        launch   : Launch,
        enabled  : BOOLEAN]
Table      == [Slugs -> Row \cup {NoRow}]
FeedRecord == [text : {"feed", "placeholder"}, ns : BOOLEAN, port : Ports]
IsFeed(f)  == /\ f = [s \in DOMAIN f |-> f[s]]
              /\ DOMAIN f \subseteq Slugs
              /\ \A s \in DOMAIN f : f[s] \in FeedRecord
Edge       == Slugs \X Slugs \X Types

(* a port with the outputs added that the source of the slug proves *)
Typed(port, s) == [port EXCEPT !.outs = @ \cup TypedOutputs[s]]

ASSUME RowsAssumption ==
    /\ IsFiniteSet(Slugs)
    /\ Ports \subseteq [ins : SUBSET Types, outs : SUBSET Types, tags : SUBSET STRING]
    /\ \A p \in Ports, s \in Slugs : Typed(p, s) \in Ports
    /\ [ins |-> {}, outs |-> {}, tags |-> {}] \in Ports
    /\ SafeSmokes \subseteq Smokes
    /\ NoSmoke \notin Smokes
    /\ NoRow \notin Row
    /\ \A f \in Feeds : IsFeed(f)
    /\ DropMissingPaths \in BOOLEAN
    /\ Proposals \subseteq [Slugs -> SUBSET Capability]
    /\ \A pr \in Proposals, s \in Slugs : \A c \in pr[s] : c.prov \in {"static", "llm"}
    /\ Threshold \in Nat
    /\ StalenessTTL \in Nat

EmptyPort == [ins |-> {}, outs |-> {}, tags |-> {}]
NoFeed    == [s \in {} |-> NoRow]

Existing(t) == {s \in Slugs : t[s] # NoRow}

(* A session UPDATEs only the columns whose value differs from the one it  *)
(* loaded: another writer's value survives when the command leaves the     *)
(* loaded value as it was.                                                 *)
Column(committed, loaded, new) == IF new = loaded THEN committed ELSE new
----
(* populate: the records it takes from the feed (those whose script is     *)
(* gone dropped, if so configured), which rows the feed may remove, and    *)
(* when it must refuse.                                                    *)

Gone == IF DropMissingPaths THEN SUBSET Slugs ELSE {{}}
Without(f, gone) == [s \in DOMAIN f \ gone |-> f[s]]
Incoming == UNION {{Without(f, gone) : gone \in Gone} : f \in Feeds}

ToRemove(t, f) == {s \in Existing(t) \ DOMAIN f : t[s].cls \in FeedOwned}

BreakerTrips(t, f) ==
    /\ Existing(t) # {}
    /\ 100 * Cardinality(ToRemove(t, f)) >= Threshold * Cardinality(Existing(t))

(* Defect variant of FeedCaps: the capability row is always recreated.      *)
FeedCapsAlways(old, rec) == {[prov |-> "none", port |-> rec.port]}

FeedCaps(old, rec) ==
    IF \E c \in old : c.prov \in Preserved
    THEN old
    ELSE {[prov |-> "none", port |-> rec.port]}

NewRow(rec) ==
    [cls |-> "cli_audit", desc |-> rec.text, descProv |-> "none",
     caps |-> FeedCaps({}, rec), ns |-> rec.ns, health |-> "unknown",
     checked |-> NeverChecked, work |-> "unknown",
     launch |-> [layout |-> "feed", smoke |-> NoSmoke], enabled |-> TRUE]

(* Defect variant of UpsertRow: the adapter's launch_spec as it is.         *)
UpsertRowNoSmoke(row, old, rec) ==
    [row EXCEPT
        !.cls    = Column(@, old.cls, "cli_audit"),
        !.desc   = IF old.descProv \in Preserved THEN @ ELSE Column(@, old.desc, rec.text),
        !.ns     = Column(@, old.ns, rec.ns),
        !.launch = [layout |-> "feed", smoke |-> NoSmoke],
        !.caps   = FeedCaps(@, rec)]

UpsertRow(row, old, rec) ==
    [row EXCEPT
        !.cls    = Column(@, old.cls, "cli_audit"),
        !.desc   = IF old.descProv \in Preserved THEN @ ELSE Column(@, old.desc, rec.text),
        !.ns     = Column(@, old.ns, rec.ns),
        !.launch = Column(@, old.launch, [layout |-> "feed", smoke |-> old.launch.smoke]),
        !.caps   = FeedCaps(@, rec)]

(* session.get: a row the session holds as it was loaded; a slug it does   *)
(* not hold is looked up once more, so a row inserted since is taken over. *)
Got(t, loaded, s) == IF loaded[s] = NoRow THEN t[s] ELSE loaded[s]

(* Defect variant of PopulateRows: removes what the feed lacks, unguarded.  *)
PopulateRowsMirror(t, loaded, f) ==
    [s \in Slugs |->
        IF s \in DOMAIN f
        THEN IF Got(t, loaded, s) = NoRow THEN NewRow(f[s])
             ELSE UpsertRow(t[s], Got(t, loaded, s), f[s])
        ELSE NoRow]

PopulateRows(t, loaded, f) ==
    [s \in Slugs |->
        IF s \in DOMAIN f
        THEN IF Got(t, loaded, s) = NoRow THEN NewRow(f[s])
             ELSE UpsertRow(t[s], Got(t, loaded, s), f[s])
        ELSE IF s \in ToRemove(loaded, f) THEN NoRow ELSE t[s]]

(* The call graph the capabilities imply (compute_edges, _desired_edges). *)

Caps(t, s)  == IF t[s] = NoRow THEN {} ELSE t[s].caps
Outs(t, s)  == UNION {c.port.outs : c \in Caps(t, s)}
Ins(t, s)   == UNION {c.port.ins : c \in Caps(t, s)}
Tags(t, s)  == UNION {c.port.tags : c \in Caps(t, s)}

DesiredEdges(t) ==
    {e \in Edge :
        /\ e[1] # e[2]
        /\ e[3] \in Outs(t, e[1]) \cap Ins(t, e[2]) \cap Registered
        /\ e[3] \in Hubs => Tags(t, e[1]) \cap Tags(t, e[2]) # {}}
----
(* probe_fleet and probe_slugs. *)

Selected(t, sel)      == {s \in sel : t[s] # NoRow /\ t[s].enabled}
NotStandalone(t, sel) == {s \in Selected(t, sel) : t[s].ns \/ s \in NoParser}
Unprobeable(t, sel)   == (Selected(t, sel) \ NotStandalone(t, sel)) \cap NoCommand
Probed(t, sel)        == Selected(t, sel) \ (NotStandalone(t, sel) \cup NoCommand)

UnprobeableHealth(old, now) ==
    IF old.checked # NeverChecked /\ now - old.checked > StalenessTTL
    THEN "stale" ELSE "unknown"

(* Defect variant of Refreshed: a new launch_spec, hand-set keys dropped.   *)
RefreshedAnew(old) ==
    IF old.launch.layout = "install" THEN old.launch ELSE [layout |-> "probe", smoke |-> NoSmoke]

Refreshed(old) ==
    IF old.launch.layout = "install" THEN old.launch
    ELSE [layout |-> "probe", smoke |-> old.launch.smoke]

SweptRow(row, old, health, checked, ns) ==
    [row EXCEPT
        !.health  = Column(@, old.health, health),
        !.checked = Column(@, old.checked, checked),
        !.ns      = Column(@, old.ns, ns),
        !.launch  = Column(@, old.launch, Refreshed(old))]

(* passed is the set of probed slugs whose command exited 0 in time *)
ProbeRows(t, loaded, sel, passed, now) ==
    [s \in Slugs |->
        IF s \in NotStandalone(loaded, sel)
        THEN SweptRow(t[s], loaded[s], "not_standalone", now, TRUE)
        ELSE IF s \in Unprobeable(loaded, sel)
        THEN SweptRow(t[s], loaded[s], UnprobeableHealth(loaded[s], now),
                      loaded[s].checked, loaded[s].ns)
        ELSE IF s \in Probed(loaded, sel)
        THEN SweptRow(t[s], loaded[s],
                      IF s \in passed THEN "healthy" ELSE "unhealthy", now, loaded[s].ns)
        ELSE t[s]]

(* smoke_rows: the smoke a row would run, whether it is gated, the verdict. *)

SmokeOf(old)        == IF old.ns THEN NoSmoke ELSE old.launch.smoke
(* Defect variant of Gated: side effects nobody listed count as safe.       *)
GatedNever(old, network) == FALSE

Gated(old, network) == SmokeOf(old) # NoSmoke /\ ~network /\ SmokeOf(old) \notin SafeSmokes
Verdicts(old)       == IF SmokeOf(old) = NoSmoke THEN {"unknown"} ELSE {"pass", "fail"}

SmokeRow(row, old, verdict) == [row EXCEPT !.work = Column(@, old.work, verdict)]
----
(* The armed remediation, okf-ingest, the backfill's writer and hygiene. *)

FixRow(row) == [row EXCEPT !.health = "healthy"]

IngestRows(t, bundle) ==
    [s \in Slugs |-> IF s \in bundle \cap Existing(t) THEN [t[s] EXCEPT !.desc = "okf"] ELSE t[s]]

EnsuredCaps(old) == IF old = {} THEN {[prov |-> "none", port |-> EmptyPort]} ELSE old

PersistRows(t, judged) ==
    [s \in Slugs |->
        IF s \in judged \cap Existing(t) THEN [t[s] EXCEPT !.caps = EnsuredCaps(@)] ELSE t[s]]

(* Defect variant of CommitRow: a provenance no reader knows.               *)
CommitRowUnknown(row, caps) == [row EXCEPT !.desc = "llm", !.descProv = "backfill"]

CommitRow(row, caps) ==
    [row EXCEPT
        !.desc     = IF row.descProv = "manual" THEN @ ELSE "llm",
        !.descProv = IF @ = "manual" THEN @ ELSE "llm",
        !.caps     = IF caps = {} THEN @
                     ELSE {c \in EnsuredCaps(@) : c.prov = "manual"}
                          \cup {new \in caps : \E c \in EnsuredCaps(@) : c.prov # "manual"}]

(* a proposal is {} (description only) or the one capability proposed *)
CommitRows(t, judged, proposal) ==
    [s \in Slugs |->
        IF s \in judged \cap Existing(t) THEN CommitRow(t[s], proposal[s]) ELSE t[s]]

Placeholders(t) == {s \in Existing(t) : t[s].enabled /\ t[s].desc = "placeholder"}

TypedCaps(old, s) ==
    {c \in old : c.prov = "manual"}
    \cup {[prov |-> c.prov, port |-> Typed(c.port, s)] : c \in {d \in old : d.prov # "manual"}}

HygieneRow(row, s, missing) ==
    IF row.enabled /\ row.desc = "placeholder"
    THEN IF s \in missing
         THEN [row EXCEPT !.enabled = FALSE]
         ELSE [row EXCEPT !.desc = "manual", !.descProv = "manual"]
    ELSE IF row.enabled THEN [row EXCEPT !.caps = TypedCaps(@, s)] ELSE row

HygieneRows(t, missing) ==
    [s \in Slugs |-> IF s \in Existing(t) THEN HygieneRow(t[s], s, missing) ELSE t[s]]
====
