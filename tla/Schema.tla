---- MODULE Schema ----
(***************************************************************************)
(* How a command opens the registry: init_db (store/db.py) with its        *)
(* migrations (store/migrations.py), and what main.py does around it.      *)
(* Several commands start at once on a database that may be new, old or    *)
(* current.  Some take the file lock before init_db, most take it after,   *)
(* serve never does.                                                       *)
(*                                                                         *)
(* SQLite has one writer at a time: txn.  A statement that needs it waits  *)
(* five seconds and then raises.  DDL outside a transaction commits itself.*)
(***************************************************************************)
EXTENDS Integers, Sequences

CONSTANTS
    Procs,          \* commands started
    MayBe,          \* the commands each of them may be
    Tables,         \* the tables of SQLModel.metadata, in create_all's order
    InitialDBs,     \* databases found: [tables, cols]
    LegacyOwners,   \* owners of the slug's old capability rows
    WrittenOwners,  \* owners a command's commit may leave
    MaxWrites,      \* bound on the commits of the commands
    Free,           \* nobody holds the lock, or the transaction
    None            \* no owner

Kinds   == {"discover", "populate", "remediate", "serve"}
Owners  == {"manual", "llm", "static"}

TableSet    == {Tables[i] : i \in 1..Len(Tables)}
InitColumns == {"description_provenance", "work_status", "work_checked_at"}
Columns     == InitColumns \cup {"fixed_by"}

(* Every table is listed once; a database has at most these and columns of *)
(* these versions.                                                         *)
ASSUME SchemaAssumption ==
    /\ Tables \in Seq(STRING) /\ {"cli", "capability"} \subseteq TableSet
    /\ \A i, j \in 1..Len(Tables) : Tables[i] = Tables[j] => i = j
    /\ InitialDBs \subseteq [tables : SUBSET TableSet, cols : SUBSET Columns]
    /\ MayBe \in [Procs -> SUBSET Kinds]
    /\ LegacyOwners \subseteq Owners
    /\ WrittenOwners \subseteq Owners \cup {None}
    /\ None \notin Owners
    /\ Free \notin Procs
    /\ MaxWrites \in Nat

VARIABLES
    tables,     \* tables that exist
    cols,       \* columns of table cli that later versions added
    owner,      \* description_provenance of a row
    version,    \* commits of the commands, so what the row holds
    born,       \* the tables the commands found
    lock,       \* holder of the file lock
    txn,        \* holder of SQLite's write transaction
    proc        \* what each command is doing

db         == <<tables, cols, owner, version>>
schemaVars == <<tables, cols, owner, version, born, lock, txn, proc>>

(* What a command does, in order.                                          *)
Path(k) == CASE k = "discover"  -> <<"lock", "init", "read", "write">>
             [] k = "populate"  -> <<"init", "lock", "read", "write">>
             [] k = "remediate" -> <<"init", "read", "lock", "fixed", "write">>
             [] k = "serve"     -> <<"init", "serve">>

(* step is the statement init_db is at, todo what is left of its loop,     *)
(* missing the tables create_all found missing, end how the command ended. *)
Fresh(k) == [kind |-> k, path |-> Path(k), step |-> "look", todo |-> <<>>, missing |-> <<>>, end |-> "none"]

SchemaInit ==
    /\ \E d \in InitialDBs : tables = d.tables /\ cols = d.cols
    /\ owner = None
    /\ version = 0
    /\ born = tables
    /\ lock = Free
    /\ txn = Free
    /\ proc \in [Procs -> {Fresh(k) : k \in Kinds}]
    /\ \A p \in Procs : proc[p].kind \in MayBe[p]

At(p, phase)    == proc[p].end = "none" /\ proc[p].path # <<>> /\ Head(proc[p].path) = phase
InInit(p, s)    == At(p, "init") /\ proc[p].step = s
PastInit(p)     == \A i \in 1..Len(proc[p].path) : proc[p].path[i] # "init"
Goes(p, s, l)   == proc' = [proc EXCEPT ![p].step = s, ![p].todo = l]
Advances(p)     == proc' = [proc EXCEPT ![p].path = Tail(@)]

(* The command raises, is killed or returns: the lock file and the         *)
(* connection are closed with it.                                          *)
Ends(p, how) ==
    /\ proc' = [proc EXCEPT ![p] = [proc[p] EXCEPT !.path = <<>>, !.step = "look", !.todo = <<>>,
                                                   !.missing = <<>>, !.end = how]]
    /\ lock' = IF lock = p THEN Free ELSE lock
    /\ txn'  = IF txn = p THEN Free ELSE txn
----
Acquire(p) ==
    /\ At(p, "lock")
    /\ lock = Free
    /\ lock' = p
    /\ Advances(p)
    /\ UNCHANGED <<db, born, txn>>

(* init_db: the migration takes the write lock only when it has work to do *)
Look(p) ==
    /\ InInit(p, "look")
    /\ IF "cli" \in tables /\ "description_provenance" \notin cols
         THEN Goes(p, "begin", <<>>)
         ELSE Goes(p, "check", Tables)
    /\ UNCHANGED <<db, born, lock, txn>>

BeginImmediate(p) ==
    /\ InInit(p, "begin")
    /\ txn = Free
    /\ txn' = p
    /\ Goes(p, "migrate", <<>>)
    /\ UNCHANGED <<db, born, lock>>

Strongest ==
    IF "capability" \notin tables \/ LegacyOwners = {} THEN None
    ELSE CHOOSE o \in LegacyOwners :
           /\ "manual" \in LegacyOwners => o = "manual"
           /\ "manual" \notin LegacyOwners /\ "llm" \in LegacyOwners => o = "llm"

(* Defect variants of Migrate: the column is not looked up again inside    *)
(* the transaction; it is, and the owners are copied all the same.         *)
MigrateUnchecked(p) ==
    /\ InInit(p, "migrate")
    /\ IF "description_provenance" \in cols
         THEN Ends(p, "exists") /\ UNCHANGED <<db, born>>
         ELSE /\ cols' = cols \cup {"description_provenance"}
              /\ owner' = Strongest
              /\ txn' = Free
              /\ Goes(p, "check", Tables)
              /\ UNCHANGED <<tables, version, born, lock>>

MigrateAlways(p) ==
    /\ InInit(p, "migrate")
    /\ cols' = cols \cup {"description_provenance"}
    /\ owner' = Strongest
    /\ txn' = Free
    /\ Goes(p, "check", Tables)
    /\ UNCHANGED <<tables, version, born, lock>>

Migrate(p) ==
    /\ InInit(p, "migrate")
    /\ owner' = IF "description_provenance" \in cols THEN owner ELSE Strongest
    /\ cols' = cols \cup {"description_provenance"}
    /\ txn' = Free
    /\ Goes(p, "check", Tables)
    /\ UNCHANGED <<tables, version, born, lock>>

(* create_all looks for every table first, one query each, and then        *)
(* creates those it did not find, one commit each.                         *)
Check(p) ==
    /\ InInit(p, "check")
    /\ LET t == Head(proc[p].todo)
           m == IF t \in tables THEN proc[p].missing ELSE Append(proc[p].missing, t)
           rest == Tail(proc[p].todo)
       IN proc' = [proc EXCEPT ![p] =
             [proc[p] EXCEPT !.missing = m,
                             !.step = IF rest = <<>> THEN "create" ELSE "check",
                             !.todo = IF rest = <<>> THEN m ELSE rest]]
    /\ UNCHANGED <<db, born, lock, txn>>

Create(p) ==
    /\ InInit(p, "create")
    /\ proc[p].todo # <<>>
    /\ Head(proc[p].todo) \notin tables
    /\ txn = Free
    /\ tables' = tables \cup {Head(proc[p].todo)}
    /\ cols' = IF Head(proc[p].todo) = "cli" THEN Columns ELSE cols
    /\ Goes(p, "create", Tail(proc[p].todo))
    /\ UNCHANGED <<owner, version, born, lock, txn>>

(* "table already exists": nothing catches it *)
CreateFails(p) ==
    /\ InInit(p, "create")
    /\ proc[p].todo # <<>>
    /\ Head(proc[p].todo) \in tables
    /\ Ends(p, "exists")
    /\ UNCHANGED <<db, born>>

Created(p) ==
    /\ InInit(p, "create")
    /\ proc[p].todo = <<>>
    /\ proc' = [proc EXCEPT ![p] = [proc[p] EXCEPT
            !.step = "columns", !.todo = <<"work_status", "work_checked_at">>, !.missing = <<>>]]
    /\ UNCHANGED <<db, born, lock, txn>>

(* ensure_work_status_columns: looks for a column, then adds it *)
LookColumn(p) ==
    /\ InInit(p, "columns")
    /\ proc[p].todo # <<>>
    /\ IF Head(proc[p].todo) \in cols THEN Goes(p, "columns", Tail(proc[p].todo))
                                      ELSE Goes(p, "alter", proc[p].todo)
    /\ UNCHANGED <<db, born, lock, txn>>

(* "duplicate column" is success: another command won *)
AlterColumn(p) ==
    /\ InInit(p, "alter")
    /\ txn = Free
    /\ cols' = cols \cup {Head(proc[p].todo)}
    /\ Goes(p, "columns", Tail(proc[p].todo))
    /\ UNCHANGED <<tables, owner, version, born, lock, txn>>

Opened(p) ==
    /\ InInit(p, "columns")
    /\ proc[p].todo = <<>>
    /\ Advances(p)
    /\ UNCHANGED <<db, born, lock, txn>>

(* The first select(Cli) names every column of the model: on a database    *)
(* without fixed_by it raises, and a remediate that would add the column   *)
(* has exited by then.                                                     *)
Read(p) ==
    /\ At(p, "read")
    /\ cols = Columns
    /\ Advances(p)
    /\ UNCHANGED <<db, born, lock, txn>>

Unreadable(p) ==
    /\ At(p, "read")
    /\ cols # Columns
    /\ Ends(p, "unreadable")
    /\ UNCHANGED <<db, born>>

EnsureFixedBy(p) ==
    /\ At(p, "fixed")
    /\ txn = Free \/ "fixed_by" \in cols
    /\ cols' = cols \cup {"fixed_by"}
    /\ Advances(p)
    /\ UNCHANGED <<tables, owner, version, born, lock, txn>>

(* the command's own transaction, from its first flush to its commit *)
BeginWrite(p) ==
    /\ At(p, "write")
    /\ version < MaxWrites
    /\ txn = Free
    /\ txn' = p
    /\ UNCHANGED <<db, born, lock, proc>>

CommitWrite(p) ==
    /\ At(p, "write")
    /\ txn = p
    /\ owner' \in WrittenOwners
    /\ version' = version + 1
    /\ Ends(p, "done")
    /\ UNCHANGED <<tables, cols, born>>

(* "database is locked", after five seconds of somebody else's transaction *)
NeedsWriter(p) ==
    \/ InInit(p, "begin")
    \/ InInit(p, "create") /\ proc[p].todo # <<>>
    \/ InInit(p, "alter")
    \/ At(p, "write")

Locked(p) ==
    /\ NeedsWriter(p)
    /\ txn \notin {Free, p}
    /\ Ends(p, "locked")
    /\ UNCHANGED <<db, born>>

Die(p) ==
    /\ proc[p].end = "none"
    /\ Ends(p, "killed")
    /\ UNCHANGED <<db, born>>

Opening(p) ==
    \/ Look(p) \/ BeginImmediate(p) \/ Migrate(p) \/ Check(p) \/ Create(p)
    \/ CreateFails(p) \/ Created(p) \/ LookColumn(p) \/ AlterColumn(p) \/ Opened(p)

Working(p) ==
    \/ Acquire(p) \/ Read(p) \/ Unreadable(p) \/ EnsureFixedBy(p)
    \/ BeginWrite(p) \/ CommitWrite(p) \/ Locked(p)

SchemaNext == \E p \in Procs : Opening(p) \/ Working(p) \/ Die(p)

SchemaSpec == SchemaInit /\ [][SchemaNext]_schemaVars
----
(* init_db may run anywhere, any number of times at once and cut short: a  *)
(* command that got past it finds every table and every column it adds,    *)
(* and it raises "already exists" only on a database whose tables were     *)
(* missing when the commands started, and only where a command that does   *)
(* not lock first is among them.  What a command cannot read is a database *)
(* older than fixed_by (db.py:8-42, migrations.py:27-78).                  *)
InitSound ==
    /\ \A p \in Procs : PastInit(p) /\ proc[p].end = "none" =>
          tables = TableSet /\ InitColumns \subseteq cols
    /\ \A p \in Procs : proc[p].end = "exists" =>
          born # TableSet /\ \E q \in Procs : proc[q].kind # "discover"
    /\ \A p \in Procs : proc[p].end = "unreadable" => "fixed_by" \notin cols

(* The owner a row had before the column moved is copied once, with the    *)
(* column and strongest first; afterwards only a command's commit changes  *)
(* it, however late another command's migration runs                       *)
(* (migrations.py:70-89).                                                  *)
OwnersMigrated ==
    [][/\ {"cli", "capability"} \subseteq tables /\ LegacyOwners # {}
             /\ "description_provenance" \in cols' \ cols =>
           owner' \in LegacyOwners /\ ("manual" \in LegacyOwners => owner' = "manual")
       /\ "description_provenance" \in cols /\ owner' # owner =>
             \E p \in Procs : At(p, "write") /\ txn = p]_schemaVars
====
