---- MODULE MCServer ----
(* Instances of Schema and Server for TLC. *)
EXTENDS Server, TLC

CONSTANTS srv, c1, a, b

(* remediate takes the longest path: beside it, the server or a command *)
(* that locks before or after init_db                                   *)
MCMayBe  == [p \in Procs |-> IF p = srv THEN {"serve", "discover", "populate"}
                                       ELSE {"remediate"}]
MCTables == <<"capability", "cli">>
MCBooks  == <<a, b>>

(* no database, one cut short, one older than each migration, a current one *)
MCDatabases ==
{ [tables |-> {}, cols |-> {}],
      [tables |-> {"capability"}, cols |-> {}],
      [tables |-> {"capability", "cli"}, cols |-> {}],
      [tables |-> {"capability", "cli"}, cols |-> {"fixed_by"}],
      [tables |-> {"capability", "cli"}, cols |-> Columns] }

(* several requests on a current database, one on the others *)
MCRequests == [d \in MCDatabases |-> IF d.cols = Columns THEN 3 ELSE 1]
====
