---- MODULE Server ----
(***************************************************************************)
(* The serving process and the playbook index.  Every playbook request     *)
(* drops the two index tables, builds them again from the folder and only  *)
(* then reads them (playbooks/index.py, queries.py, resolve.py).  REST     *)
(* requests run in the server's threads, each with a session of its own;   *)
(* MCP calls run one at a time in a session that lives as long as the app. *)
(* All of them share ONE connection (db.py:17-21): a commit or a rollback  *)
(* of one request takes along what another has in flight.                  *)
(*                                                                         *)
(* Composed with Schema: the server opens the registry like any command,   *)
(* and the commands that write it run beside it as processes.              *)
(***************************************************************************)
EXTENDS Schema

CONSTANTS
    Serve,          \* the command that serves
    Rest, Mcp,      \* requests in flight: threads of the pool, the MCP session
    Playbooks,      \* the folder, sorted by slug
    Hits,           \* playbooks the query matches
    MaxRequests,    \* bound on the requests served, for each database found
    Gone            \* a table that does not exist

Books == {Playbooks[i] : i \in 1..Len(Playbooks)}

ASSUME ServerAssumption ==
    /\ Serve \in Procs
    /\ MaxRequests \in [InitialDBs -> Nat]
    /\ Rest \cap Mcp = {}
    /\ Playbooks \in Seq(Books) /\ Hits \subseteq Books
    /\ \A S \in (SUBSET Books) \cup (SUBSET (Books \X (0..MaxWrites))) : Gone # S

VARIABLES
    disk,       \* the index as committed: [fts, sig]
    work,       \* the index as the server's connection sees it
    request,    \* what each request is doing
    left        \* requests that may still begin

serverVars == <<disk, work, request, left>>
vars       == <<schemaVars, serverVars>>

Requests == Rest \cup Mcp
NoIndex  == [fts |-> Gone, sig |-> Gone]

(* alone: no other request was in flight at any time; at: the version when *)
(* it began; seen, stale: its answer; error: how it failed; torn: some     *)
(* request in this slot failed while another overlapped it.                *)
Idle == [step |-> "idle", kind |-> "none", todo |-> <<>>, seen |-> {}, stale |-> {},
         alone |-> TRUE, at |-> 0, error |-> "none", torn |-> FALSE]

ServerInit ==
    /\ SchemaInit
    /\ disk = NoIndex
    /\ work = NoIndex
    /\ request = [r \in Requests |-> Idle]
    /\ left = MaxRequests[[tables |-> tables, cols |-> cols]]

Up     == At(Serve, "serve")
Active == {r \in Requests : request[r].step # "idle"}
Open   == txn = Serve

RequestAt(r, s) == Up /\ request[r].step = s
Steps(r, s)     == request' = [request EXCEPT ![r].step = s]

(* pysqlite opens a transaction for an INSERT, and none for DDL: a DROP or *)
(* a CREATE commits itself unless some request has a transaction open.     *)
CanWrite == txn \in {Free, Serve}

Ddl(index) ==
    /\ CanWrite
    /\ work' = index
    /\ disk' = IF Open THEN disk ELSE index
    /\ UNCHANGED txn

Insert(index) ==
    /\ CanWrite
    /\ txn' = Serve
    /\ work' = index
    /\ UNCHANGED disk

Commit   == disk' = work /\ txn' = (IF Open THEN Free ELSE txn) /\ UNCHANGED work
Rollback == work' = disk /\ txn' = (IF Open THEN Free ELSE txn) /\ UNCHANGED disk

Others == <<db, born, lock, proc, left>>
----
Closed(r) == [Idle EXCEPT !.torn = request[r].torn]

(* A request begins: get_playbook and resolve_playbook read no full text,  *)
(* "plain" is any request that is not about playbooks.                     *)
Begin(r) ==
    /\ RequestAt(r, "idle")
    /\ left > 0
    /\ left' = left - 1
    /\ \E k \in {"search", "detail", "plain"} :
         request' = [q \in Requests |->
             IF q = r THEN [Closed(r) EXCEPT !.step = IF k = "plain" THEN "close" ELSE "drop fts",
                                        !.kind = k, !.at = version, !.alone = Active = {}]
             ELSE [request[q] EXCEPT !.alone = request[q].step = "idle"]]
    /\ UNCHANGED <<schemaVars, disk, work>>

DropFts(r) ==
    /\ RequestAt(r, "drop fts")
    /\ Ddl([work EXCEPT !.fts = Gone])
    /\ Steps(r, "drop sig")
    /\ UNCHANGED Others

(* Defect variant of DropSig: the signatures of the last request are kept. *)
DropSigNot(r) ==
    /\ RequestAt(r, "drop sig")
    /\ Ddl(work)
    /\ Steps(r, "create fts")
    /\ UNCHANGED Others

DropSig(r) ==
    /\ RequestAt(r, "drop sig")
    /\ Ddl([work EXCEPT !.sig = Gone])
    /\ Steps(r, "create fts")
    /\ UNCHANGED Others

CreateFts(r) ==
    /\ RequestAt(r, "create fts")
    /\ work.fts = Gone
    /\ Ddl([work EXCEPT !.fts = {}])
    /\ Steps(r, "create sig")
    /\ UNCHANGED Others

CreateSig(r) ==
    /\ RequestAt(r, "create sig")
    /\ work.sig = Gone
    /\ Ddl([work EXCEPT !.sig = {}])
    /\ request' = [request EXCEPT ![r].step = "insert fts", ![r].todo = Playbooks]
    /\ UNCHANGED Others

InsertFts(r) ==
    /\ RequestAt(r, "insert fts")
    /\ request[r].todo # <<>>
    /\ work.fts # Gone
    /\ Insert([work EXCEPT !.fts = @ \cup {Head(request[r].todo)}])
    /\ Steps(r, "insert sig")
    /\ UNCHANGED Others

(* the signature of the CLI the playbook uses, as the row is now *)
InsertSig(r) ==
    /\ RequestAt(r, "insert sig")
    /\ work.sig # Gone
    /\ Insert([work EXCEPT !.sig = @ \cup {<<Head(request[r].todo), version>>}])
    /\ request' = [request EXCEPT ![r].step = "insert fts", ![r].todo = Tail(@)]
    /\ UNCHANGED Others

CommitIndex(r) ==
    /\ RequestAt(r, "insert fts")
    /\ request[r].todo = <<>>
    /\ Commit
    /\ Steps(r, "release")
    /\ UNCHANGED Others

(* the session gives the connection back after its commit: the pool resets *)
(* it with a rollback                                                      *)
Release(r) ==
    /\ RequestAt(r, "release")
    /\ Rollback
    /\ Steps(r, "retrieve")
    /\ UNCHANGED Others

Sorted(S) == SelectSeq(Playbooks, LAMBDA pb : pb \in S)

Retrieve(r) ==
    /\ RequestAt(r, "retrieve")
    /\ request[r].kind = "search" => work.fts # Gone
    /\ LET found == IF request[r].kind = "search" THEN Hits \cap work.fts ELSE Hits
       IN request' = [request EXCEPT ![r] =
              [request[r] EXCEPT !.step = "drift", !.todo = Sorted(found), !.seen = found]]
    /\ UNCHANGED <<schemaVars, disk, work, left>>

(* the signature stored for a playbook against the one the row has now *)
Drift(r) ==
    /\ RequestAt(r, "drift")
    /\ request[r].todo # <<>>
    /\ work.sig # Gone
    /\ LET pb == Head(request[r].todo)
           cached == {c \in work.sig : c[1] = pb}
       IN \E old \in IF cached = {} THEN {version} ELSE {c[2] : c \in cached} :
            request' = [request EXCEPT ![r] =
                [request[r] EXCEPT !.todo = Tail(request[r].todo),
                                   !.stale = IF old = version THEN @ ELSE @ \cup {pb}]]
    /\ UNCHANGED <<schemaVars, disk, work, left>>

Answer(r) ==
    /\ RequestAt(r, "drift")
    /\ request[r].todo = <<>>
    /\ Steps(r, "close")
    /\ UNCHANGED <<schemaVars, disk, work, left>>

(* "no such table", "table already exists": nothing catches it *)
Fail(r) ==
    /\ \/ RequestAt(r, "create fts") /\ work.fts # Gone
       \/ RequestAt(r, "create sig") /\ work.sig # Gone
       \/ RequestAt(r, "insert fts") /\ request[r].todo # <<>> /\ work.fts = Gone
       \/ RequestAt(r, "insert sig") /\ work.sig = Gone
       \/ RequestAt(r, "retrieve") /\ request[r].kind = "search" /\ work.fts = Gone
       \/ RequestAt(r, "drift") /\ request[r].todo # <<>> /\ work.sig = Gone
    /\ request' = [request EXCEPT ![r] =
           [request[r] EXCEPT !.step = "close", !.error = "table", !.torn = @ \/ ~request[r].alone]]
    /\ UNCHANGED <<schemaVars, disk, work, left>>

(* "database is locked": a command's transaction outlasted five seconds *)
RequestLocked(r) ==
    /\ Up
    /\ request[r].step \in {"drop fts", "drop sig", "create fts", "create sig",
                            "insert fts", "insert sig"}
    /\ ~CanWrite
    /\ request' = [request EXCEPT ![r].step = "close", ![r].error = "locked"]
    /\ UNCHANGED <<schemaVars, disk, work, left>>

(* Defect variant of Close: the REST sessions stay, too.                   *)
CloseKept(r) ==
    /\ RequestAt(r, "close")
    /\ UNCHANGED <<disk, work, txn>>
    /\ request' = [request EXCEPT ![r] = Closed(r)]
    /\ UNCHANGED Others

(* A REST request closes its session, and the connection is rolled back;   *)
(* the MCP session stays.                                                  *)
Close(r) ==
    /\ RequestAt(r, "close")
    /\ IF r \in Rest THEN Rollback ELSE UNCHANGED <<disk, work, txn>>
    /\ request' = [request EXCEPT ![r] = Closed(r)]
    /\ UNCHANGED Others

Requesting(r) ==
    \/ Begin(r) \/ DropFts(r) \/ DropSig(r) \/ CreateFts(r) \/ CreateSig(r)
    \/ InsertFts(r) \/ InsertSig(r) \/ CommitIndex(r) \/ Release(r)
    \/ Retrieve(r) \/ Drift(r) \/ Answer(r) \/ Fail(r) \/ RequestLocked(r) \/ Close(r)

(* the server dies: its requests die with it, what is not committed is gone *)
ServerDies ==
    /\ Die(Serve)
    /\ work' = disk
    /\ request' = [r \in Requests |-> Idle]
    /\ UNCHANGED <<disk, left>>

Commanding ==
    /\ \E p \in Procs : Opening(p) \/ Working(p) \/ (p # Serve /\ Die(p))
    /\ UNCHANGED serverVars

ServerNext == Commanding \/ ServerDies \/ \E r \in Requests : Requesting(r)

ServerSpec == ServerInit /\ [][ServerNext]_vars
----
(* Whatever the requests before it left behind, whoever overlapped, failed *)
(* or was rolled back, a request that is alone from beginning to end finds *)
(* every playbook its query matches, fails only when a command holds the   *)
(* database for five seconds, and calls a playbook stale only when the     *)
(* registry changed under it (index.py:11-62).                             *)
AloneComplete ==
    \A r \in Active :
        request[r].alone /\ request[r].step = "close" /\ request[r].kind # "plain" =>
            /\ request[r].error \in {"none", "locked"}
            /\ request[r].error = "none" => request[r].seen = Hits
            /\ request[r].stale # {} => version # request[r].at

(* Between requests the server holds no transaction, so it never keeps the *)
(* commands locked out; but for the one case of a call in the MCP session, *)
(* which nobody closes or rolls back, that failed because a request        *)
(* overlapped it (db.py:46-58, app.py:44-56).                              *)
IdleHoldsNothing ==
    Up /\ Active = {} =>
        \/ ~Open /\ work = disk
        \/ \E m \in Mcp : request[m].torn
====
