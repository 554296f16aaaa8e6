---- MODULE ServerProofs ----
(***************************************************************************)
(* How commands open the registry and what the server's requests find, for *)
(* any number of commands, tables, requests and playbooks.                 *)
(***************************************************************************)
EXTENDS Server, SequenceTheorems, TLAPS

Elems(s)    == {s[i] : i \in 1 .. Len(s)}
Distinct(s) == \A i, j \in 1 .. Len(s) : s[i] = s[j] => i = j

(* What is left of a command's path before and after it opened.            *)
Before(k) ==
    IF k = "discover" THEN {<<"lock", "init", "read", "write">>, <<"init", "read", "write">>}
    ELSE IF k = "populate" THEN {<<"init", "lock", "read", "write">>}
    ELSE IF k = "remediate" THEN {<<"init", "read", "lock", "fixed", "write">>}
    ELSE {<<"init", "serve">>}

After(k) ==
    IF k = "discover" THEN {<<"read", "write">>, <<"write">>}
    ELSE IF k = "populate" THEN {<<"lock", "read", "write">>, <<"read", "write">>, <<"write">>}
    ELSE IF k = "remediate"
    THEN {<<"read", "lock", "fixed", "write">>, <<"lock", "fixed", "write">>, <<"fixed", "write">>, <<"write">>}
    ELSE {<<"serve">>}

(* What is left of it once the command has read every column.              *)
Informed == {<<"lock", "fixed", "write">>, <<"fixed", "write">>, <<"write">>}

(* An empty sequence has no elements.                                      *)
LEMMA ElemsEmpty == Elems(<<>>) = {} /\ Distinct(<<>>)
BY DEF Elems, Distinct

(* The elements of a sequence are its head and those of its tail.          *)
LEMMA ElemsTail ==
    ASSUME NEW S, NEW s \in Seq(S), s # <<>>
    PROVE  /\ Head(s) \in S /\ Tail(s) \in Seq(S)
           /\ Elems(s) = {Head(s)} \cup Elems(Tail(s))
           /\ Distinct(s) => Distinct(Tail(s)) /\ Head(s) \notin Elems(Tail(s))
<1>1. /\ Head(s) = s[1] /\ Head(s) \in S /\ Tail(s) \in Seq(S) /\ Len(s) \in Nat \ {0} /\ Len(Tail(s)) = Len(s) - 1
      /\ \A i \in 1 .. Len(s) - 1 : Tail(s)[i] = s[i + 1]
  BY HeadTailProperties, LenProperties, EmptySeq
<1>2. \A x : x \in Elems(s) <=> x = Head(s) \/ x \in Elems(Tail(s))
  <2>1. ASSUME NEW i \in 1 .. Len(s) PROVE s[i] = Head(s) \/ s[i] \in Elems(Tail(s))
    <3>1. CASE i = 1
      BY <1>1, <3>1
    <3>2. CASE i # 1
      <4>1. i - 1 \in 1 .. Len(s) - 1 /\ s[i] = Tail(s)[i - 1]
        BY <1>1, <3>2
      <4> QED
        BY <1>1, <4>1 DEF Elems
    <3> QED
      BY <3>1, <3>2
  <2>2. ASSUME NEW i \in 1 .. Len(s) - 1 PROVE Tail(s)[i] \in Elems(s)
    <3>1. i + 1 \in 1 .. Len(s) /\ Tail(s)[i] = s[i + 1]
      BY <1>1
    <3> QED
      BY <3>1 DEF Elems
  <2>3. Head(s) \in Elems(s)
    BY <1>1 DEF Elems
  <2> QED
    BY <1>1, <2>1, <2>2, <2>3 DEF Elems
<1>3. ASSUME Distinct(s) PROVE Distinct(Tail(s)) /\ Head(s) \notin Elems(Tail(s))
  <2>1. \A i \in 1 .. Len(s) - 1 : i + 1 \in 1 .. Len(s) /\ 1 \in 1 .. Len(s) /\ i + 1 # 1
    BY <1>1
  <2>2. \A i, j \in 1 .. Len(s) - 1 : i + 1 = j + 1 => i = j
    BY <1>1
  <2> QED
    BY <1>1, <1>3, <2>1, <2>2 DEF Distinct, Elems
<1> QED
  BY <1>1, <1>2, <1>3

(* The elements of a sequence with one more.                               *)
LEMMA ElemsAppend ==
    ASSUME NEW S, NEW s \in Seq(S), NEW x \in S
    PROVE  /\ Append(s, x) \in Seq(S)
           /\ Elems(Append(s, x)) = Elems(s) \cup {x}
           /\ Distinct(s) /\ x \notin Elems(s) => Distinct(Append(s, x))
<1>1. /\ Append(s, x) \in Seq(S) /\ Len(Append(s, x)) = Len(s) + 1 /\ Len(s) \in Nat
      /\ \A i \in 1 .. Len(s) : Append(s, x)[i] = s[i]
      /\ Append(s, x)[Len(s) + 1] = x
  BY AppendProperties, LenProperties
<1>2. \A i \in 1 .. Len(s) + 1 : i \in 1 .. Len(s) \/ i = Len(s) + 1
  BY <1>1
<1>3. \A i \in 1 .. Len(s) : i \in 1 .. Len(s) + 1 /\ i # Len(s) + 1
  BY <1>1
<1>4. Len(s) + 1 \in 1 .. Len(s) + 1
  BY <1>1
<1> DEFINE t == Append(s, x)
<1> HIDE DEF t
<1>5. /\ t \in Seq(S) /\ Len(t) = Len(s) + 1 /\ t[Len(s) + 1] = x
      /\ \A i \in 1 .. Len(s) : t[i] = s[i]
  BY <1>1 DEF t
<1>6. Elems(t) = Elems(s) \cup {x}
  <2>1. \A y : y \in Elems(t) <=> y \in Elems(s) \/ y = x
    BY <1>2, <1>3, <1>4, <1>5 DEF Elems
  <2> QED
    BY <2>1
<1>7. Distinct(s) /\ x \notin Elems(s) => Distinct(t)
  BY <1>2, <1>3, <1>5 DEF Distinct, Elems
<1> QED
  BY <1>5, <1>6, <1>7 DEF t

(* The paths, as they shrink.                                              *)
LEMMA PathSteps ==
    ASSUME NEW k \in Kinds, NEW path \in Before(k) \cup After(k)
    PROVE  /\ path # <<>> /\ Path(k) \in Before(k)
           /\ path \in Before(k) /\ path \notin After(k) <=> \E i \in 1 .. Len(path) : path[i] = "init"
           /\ Head(path) = "lock" => Tail(path) \in Before(k) \cup After(k)
           /\ Head(path) = "lock" /\ k # "discover" => path \in After(k) /\ Tail(path) \in After(k)
           /\ Head(path) = "lock" /\ k = "discover" => Tail(path) \notin After(k)
           /\ Head(path) = "init" => path \in Before(k) /\ path \notin After(k) \cup Informed /\ Tail(path) \in After(k)
           /\ Head(path) \in {"read", "fixed", "write", "serve"} => path \in After(k)
           /\ Head(path) \in {"read", "fixed"} => Tail(path) \in After(k)
           /\ Head(path) \in {"lock", "init"} /\ Tail(path) \in Informed => path \in Informed
           /\ Head(path) = "fixed" => path \in Informed
           /\ k = "discover" => (path = Path(k) <=> Head(path) = "lock") /\ Tail(path) # Path(k)
<1>1. CASE k = "discover"
  <2>1. path \in {<<"lock", "init", "read", "write">>, <<"init", "read", "write">>, <<"read", "write">>, <<"write">>}
    BY <1>1 DEF Before, After
  <2>2. Path(k) = <<"lock", "init", "read", "write">>
    BY <1>1, Zenon DEF Path
  <2>3. CASE path = <<"lock", "init", "read", "write">>
    BY <1>1, <2>2, <2>3 DEF Before, After, Informed
  <2>4. CASE path = <<"init", "read", "write">>
    BY <1>1, <2>2, <2>4 DEF Before, After, Informed
  <2>5. CASE path = <<"read", "write">>
    BY <1>1, <2>2, <2>5 DEF Before, After, Informed
  <2>6. CASE path = <<"write">>
    BY <1>1, <2>2, <2>6 DEF Before, After, Informed
  <2> QED
    BY <2>1, <2>3, <2>4, <2>5, <2>6
<1>2. CASE k = "populate"
  <2>1. path \in {<<"init", "lock", "read", "write">>, <<"lock", "read", "write">>, <<"read", "write">>, <<"write">>}
    BY <1>2 DEF Before, After
  <2>2. Path(k) = <<"init", "lock", "read", "write">>
    BY <1>2, Zenon DEF Path
  <2>3. CASE path = <<"init", "lock", "read", "write">>
    BY <1>2, <2>2, <2>3 DEF Before, After, Informed
  <2>4. CASE path = <<"lock", "read", "write">>
    BY <1>2, <2>2, <2>4 DEF Before, After, Informed
  <2>5. CASE path = <<"read", "write">>
    BY <1>2, <2>2, <2>5 DEF Before, After, Informed
  <2>6. CASE path = <<"write">>
    BY <1>2, <2>2, <2>6 DEF Before, After, Informed
  <2> QED
    BY <2>1, <2>3, <2>4, <2>5, <2>6
<1>3. CASE k = "remediate"
  <2>1. path \in {<<"init", "read", "lock", "fixed", "write">>, <<"read", "lock", "fixed", "write">>,
                <<"lock", "fixed", "write">>, <<"fixed", "write">>, <<"write">>}
    BY <1>3 DEF Before, After
  <2>2. Path(k) = <<"init", "read", "lock", "fixed", "write">>
    BY <1>3, Zenon DEF Path
  <2>3. CASE path = <<"init", "read", "lock", "fixed", "write">>
    BY <1>3, <2>2, <2>3 DEF Before, After, Informed
  <2>4. CASE path = <<"read", "lock", "fixed", "write">>
    BY <1>3, <2>2, <2>4 DEF Before, After, Informed
  <2>5. CASE path = <<"lock", "fixed", "write">>
    BY <1>3, <2>2, <2>5 DEF Before, After, Informed
  <2>6. CASE path = <<"fixed", "write">>
    BY <1>3, <2>2, <2>6 DEF Before, After, Informed
  <2>7. CASE path = <<"write">>
    BY <1>3, <2>2, <2>7 DEF Before, After, Informed
  <2> QED
    BY <2>1, <2>3, <2>4, <2>5, <2>6, <2>7
<1>4. CASE k = "serve"
  <2>1. path \in {<<"init", "serve">>, <<"serve">>}
    BY <1>4 DEF Before, After
  <2>2. Path(k) = <<"init", "serve">>
    BY <1>4, Zenon DEF Path
  <2>3. CASE path = <<"init", "serve">>
    BY <1>4, <2>2, <2>3 DEF Before, After, Informed
  <2>4. CASE path = <<"serve">>
    BY <1>4, <2>2, <2>4 DEF Before, After, Informed
  <2> QED
    BY <2>1, <2>3, <2>4
<1> QED
  BY <1>1, <1>2, <1>3, <1>4 DEF Kinds
----
(* Opening the registry. *)

WorkColumns == {"work_status", "work_checked_at"}
Phases      == {"lock", "init", "read", "fixed", "write", "serve"}
Steps0      == {"look", "begin", "migrate", "check", "create", "columns", "alter"}
Command     == [kind : Kinds, path : Seq(Phases), step : Steps0, todo : Seq(TableSet \cup WorkColumns),
                missing : Seq(TableSet), end : {"none", "exists", "unreadable", "done", "locked", "killed"}]

SchemaTypes ==
    /\ tables \subseteq TableSet /\ born \subseteq tables /\ cols \subseteq Columns
    /\ lock \in Procs \cup {Free}
    /\ proc \in [Procs -> Command]

AllDiscover == \A q \in Procs : proc[q].kind = "discover"

(* Where a command is on its path.  A discover has the lock once it moved. *)
Routed(p) ==
    IF proc[p].end # "none" THEN proc[p].path = <<>> /\ proc[p].step = "look"
    ELSE /\ proc[p].path \in Before(proc[p].kind) \cup After(proc[p].kind)
         /\ proc[p].kind = "discover" /\ proc[p].path # Path("discover") => lock = p
         /\ proc[p].kind = "discover" /\ proc[p].path = Path("discover") => proc[p].step = "look"

(* What each statement of init_db knows of the tables and the columns: a   *)
(* table that create_all does not find is still on its list.               *)
Knows(p) ==
    LET todo == proc[p].todo
        missing == proc[p].missing
        step == proc[p].step
    IN  /\ step \in {"look", "begin", "migrate"} => missing = <<>>
        /\ step \in {"check", "create", "columns", "alter"} /\ "cli" \in tables => "description_provenance" \in cols
        /\ step = "check" =>
              /\ todo # <<>> /\ todo \in Seq(TableSet)
              /\ TableSet \subseteq tables \cup Elems(missing) \cup Elems(todo)
              /\ Distinct(todo) /\ Distinct(missing) /\ Elems(todo) \cap Elems(missing) = {}
              /\ Elems(missing) \cap born = {}
        /\ step = "create" =>
              /\ todo \in Seq(TableSet) /\ TableSet \subseteq tables \cup Elems(todo)
              /\ Distinct(todo) /\ Elems(todo) \cap born = {}
        /\ step \in {"columns", "alter"} =>
              /\ tables = TableSet
              /\ todo \in Seq(WorkColumns) /\ WorkColumns \subseteq cols \cup Elems(todo)
        /\ step = "alter" => todo # <<>>

(* When every command locks first, what one found missing stays missing.   *)
Excludes(p) ==
    AllDiscover =>
        /\ proc[p].step = "check" => Elems(proc[p].missing) \cap tables = {}
        /\ proc[p].step = "create" => Elems(proc[p].todo) \cap tables = {}

(* What a command past init_db, or one that raised, found.                 *)
Found(p) ==
    /\ proc[p].path \in After(proc[p].kind) => tables = TableSet /\ InitColumns \subseteq cols
    /\ proc[p].path \in Informed => cols = Columns
    /\ proc[p].end = "exists" => born # TableSet /\ ~AllDiscover
    /\ proc[p].end = "unreadable" => "cli" \in tables /\ "fixed_by" \notin cols

ProcOK(p) == Routed(p) /\ Knows(p) /\ Excludes(p) /\ Found(p)

SchemaInv == SchemaTypes /\ \A p \in Procs : ProcOK(p)

(* The list of the tables.                                                 *)
LEMMA TablesList ==
    /\ Tables \in Seq(TableSet) /\ Elems(Tables) = TableSet /\ Distinct(Tables) /\ Tables # <<>>
<1>1. Tables \in Seq(STRING) /\ Len(Tables) \in Nat /\ Distinct(Tables)
  BY SchemaAssumption DEF Distinct
<1>2. Tables \in Seq(TableSet)
  BY <1>1, SeqDef DEF TableSet
<1>3. Elems(Tables) = TableSet
  BY DEF Elems, TableSet
<1>4. Tables # <<>>
  BY <1>3, SchemaAssumption, ElemsEmpty
<1> QED
  BY <1>1, <1>2, <1>3, <1>4

(* A sequence over a set is one over a larger set.                         *)
LEMMA SeqWider ==
    ASSUME NEW A, NEW B, A \subseteq B, NEW s \in Seq(A)
    PROVE  s \in Seq(B)
BY SeqDef, LenProperties

(* What the three ways to move a command do to its record.                 *)
LEMMA GoesTo ==
    ASSUME SchemaTypes, NEW p \in Procs, NEW s \in Steps0, NEW l \in Seq(TableSet \cup WorkColumns), Goes(p, s, l)
    PROVE  /\ proc' \in [Procs -> Command] /\ \A q \in Procs \ {p} : proc'[q] = proc[q]
           /\ proc'[p].step = s /\ proc'[p].todo = l
           /\ proc'[p].kind = proc[p].kind /\ proc'[p].path = proc[p].path
           /\ proc'[p].missing = proc[p].missing /\ proc'[p].end = proc[p].end
<1>1. proc[p] \in Command
  BY DEF SchemaTypes
<1>2. [proc[p] EXCEPT !.step = s, !.todo = l] \in Command
  BY <1>1 DEF Command
<1>3. proc' = [proc EXCEPT ![p] = [proc[p] EXCEPT !.step = s, !.todo = l]]
  BY <1>1 DEF Goes, SchemaTypes, Command
<1> QED
  BY <1>1, <1>2, <1>3 DEF SchemaTypes, Command

(* A phase of the path is done.                                            *)
LEMMA AdvancesTo ==
    ASSUME SchemaTypes, NEW p \in Procs, Advances(p), proc[p].path # <<>>
    PROVE  /\ proc' \in [Procs -> Command] /\ \A q \in Procs \ {p} : proc'[q] = proc[q]
           /\ proc'[p].path = Tail(proc[p].path)
           /\ proc'[p].kind = proc[p].kind /\ proc'[p].step = proc[p].step /\ proc'[p].todo = proc[p].todo
           /\ proc'[p].missing = proc[p].missing /\ proc'[p].end = proc[p].end
<1>1. proc[p] \in Command /\ Tail(proc[p].path) \in Seq(Phases)
  BY HeadTailProperties DEF SchemaTypes, Command
<1>2. [proc[p] EXCEPT !.path = Tail(proc[p].path)] \in Command
  BY <1>1 DEF Command
<1>3. proc' = [proc EXCEPT ![p] = [proc[p] EXCEPT !.path = Tail(proc[p].path)]]
  BY <1>1 DEF Advances, SchemaTypes, Command
<1> QED
  BY <1>1, <1>2, <1>3 DEF SchemaTypes, Command

(* The command is over.                                                    *)
LEMMA EndsAs ==
    ASSUME SchemaTypes, NEW p \in Procs, NEW how \in {"exists", "unreadable", "done", "locked", "killed"}, Ends(p, how)
    PROVE  /\ proc' \in [Procs -> Command] /\ \A q \in Procs \ {p} : proc'[q] = proc[q]
           /\ proc'[p].path = <<>> /\ proc'[p].step = "look" /\ proc'[p].todo = <<>> /\ proc'[p].missing = <<>>
           /\ proc'[p].end = how /\ proc'[p].kind = proc[p].kind
           /\ lock' \in {lock, Free} /\ (lock' # lock => lock = p)
<1> DEFINE over == [proc[p] EXCEPT !.path = <<>>, !.step = "look", !.todo = <<>>, !.missing = <<>>, !.end = how]
<1>1. proc[p] \in Command
  BY DEF SchemaTypes
<1>2. over \in Command
  <2>1. <<>> \in Seq(Phases) /\ <<>> \in Seq(TableSet) /\ <<>> \in Seq(TableSet \cup WorkColumns)
    OBVIOUS
  <2>2. "look" \in Steps0
    BY DEF Steps0
  <2> QED
    BY <1>1, <2>1, <2>2 DEF Command
<1>3. proc' = [proc EXCEPT ![p] = over]
  BY DEF Ends
<1>4. lock' \in {lock, Free} /\ (lock' # lock => lock = p)
  BY DEF Ends
<1>5. /\ over.path = <<>> /\ over.step = "look" /\ over.todo = <<>> /\ over.missing = <<>>
      /\ over.end = how /\ over.kind = proc[p].kind
  BY <1>1 DEF Command
<1> HIDE DEF over
<1> QED
  BY <1>1, <1>2, <1>3, <1>4, <1>5 DEF SchemaTypes

(* What a step of p may do to what the other commands know.                *)
Frame(p) ==
    /\ \A q \in Procs \ {p} : proc'[q] = proc[q]
    /\ proc'[p].kind = proc[p].kind
    /\ born' = born /\ tables \subseteq tables' /\ cols \subseteq cols'
    /\ lock' # lock => lock \in {p, Free}
    /\ tables' # tables => At(p, "init")
    /\ "cli" \in tables' \ tables => cols' = Columns
    /\ "fixed_by" \in cols' \ cols => "cli" \notin tables

(* The others keep what they know.                                         *)
LEMMA OthersKnow ==
    ASSUME SchemaInv, SchemaTypes', NEW p \in Procs, Frame(p), NEW q \in Procs \ {p}
    PROVE  ProcOK(q)'
<1>1. ProcOK(q) /\ ProcOK(p) /\ proc'[q] = proc[q]
  BY DEF SchemaInv, Frame
<1>2. AllDiscover' <=> AllDiscover
  BY DEF AllDiscover, Frame
<1>3. lock = q => lock' = q
  BY SchemaAssumption DEF Frame
<1>4. Routed(q)'
  BY <1>1, <1>3 DEF ProcOK, Routed
<1>5. /\ tables \subseteq tables' /\ tables' \subseteq TableSet /\ cols \subseteq cols' /\ cols' \subseteq Columns
      /\ born' = born
      /\ "cli" \in tables' \ tables => cols' = Columns
      /\ "fixed_by" \in cols' \ cols => "cli" \notin tables
  BY DEF Frame, SchemaTypes
<1>6. Knows(q)'
  <2>1. tables = TableSet => tables' = TableSet
    BY <1>5
  <2>2. "description_provenance" \in Columns
    BY DEF Columns, InitColumns
  <2>3. /\ Elems(proc[q].todo)' = Elems(proc[q].todo) /\ (Distinct(proc[q].todo)' <=> Distinct(proc[q].todo))
        /\ Elems(proc[q].missing)' = Elems(proc[q].missing) /\ (Distinct(proc[q].missing)' <=> Distinct(proc[q].missing))
    BY <1>1 DEF Elems, Distinct
  <2> QED
    BY <1>1, <1>5, <2>1, <2>2, <2>3 DEF ProcOK, Knows
<1>7. Excludes(q)'
  <2>1. CASE tables' = tables
    BY <1>1, <1>2, <2>1 DEF ProcOK, Excludes
  <2>2. CASE tables' # tables /\ AllDiscover
    <3>1. At(p, "init") /\ proc[p].kind = "discover" /\ proc[q].kind = "discover"
      BY <2>2 DEF Frame, AllDiscover
    <3>2. lock = p
      <4>1. proc[p].path \in Before("discover") \cup After("discover") /\ Head(proc[p].path) = "init"
        BY <1>1, <3>1 DEF ProcOK, Routed, At
      <4>2. proc[p].path # Path("discover")
        BY <4>1, PathSteps DEF Kinds
      <4> QED
        BY <1>1, <3>1, <4>2 DEF ProcOK, Routed, At
    <3>3. proc[q].step = "look"
      BY <1>1, <3>1, <3>2 DEF ProcOK, Routed
    <3> QED
      BY <1>1, <3>3 DEF Excludes
  <2> QED
    BY <1>2, <2>1, <2>2 DEF Excludes
<1>8. Found(q)'
  <2>1. tables = TableSet => tables' = TableSet
    BY <1>5
  <2>2. cols = Columns => cols' = Columns
    BY <1>5
  <2>3. After(proc[q].kind)' = After(proc[q].kind)
    BY <1>1 DEF After
  <2> QED
    BY <1>1, <1>2, <1>5, <2>1, <2>2, <2>3 DEF ProcOK, Found
<1> QED
  BY <1>4, <1>6, <1>7, <1>8 DEF ProcOK

(* Nothing of the invariant is about the transaction, the owner or the     *)
(* version.                                                                *)
LEMMA SchemaInvStays ==
    ASSUME SchemaInv, UNCHANGED <<tables, cols, born, lock, proc>>
    PROVE  SchemaInv'
<1>1. SchemaTypes'
  BY DEF SchemaInv, SchemaTypes
<1>2. ASSUME NEW p \in Procs PROVE ProcOK(p)'
  <2>1. ProcOK(p)
    BY DEF SchemaInv
  <2>2. /\ Elems(proc[p].todo)' = Elems(proc[p].todo) /\ (Distinct(proc[p].todo)' <=> Distinct(proc[p].todo))
        /\ Elems(proc[p].missing)' = Elems(proc[p].missing) /\ (Distinct(proc[p].missing)' <=> Distinct(proc[p].missing))
        /\ AllDiscover' <=> AllDiscover
    BY DEF Elems, Distinct, AllDiscover
  <2>3. /\ After(proc[p].kind)' = After(proc[p].kind) /\ Before(proc[p].kind)' = Before(proc[p].kind)
        /\ Path("discover")' = Path("discover")
    BY DEF After, Before, Path
  <2>4. Routed(p)' /\ Found(p)'
    BY <2>1, <2>2, <2>3 DEF ProcOK, Routed, Found
  <2>5. Knows(p)' /\ Excludes(p)'
    BY <2>1, <2>2 DEF ProcOK, Knows, Excludes
  <2> QED
    BY <2>4, <2>5 DEF ProcOK
<1> QED
  BY <1>1, <1>2 DEF SchemaInv

(* A step keeps the invariant when it keeps the frame and its own part.    *)
LEMMA StepKeeps ==
    ASSUME SchemaInv, NEW p \in Procs, SchemaTypes', Frame(p), ProcOK(p)'
    PROVE  SchemaInv'
BY OthersKnow DEF SchemaInv

(* A command may end anywhere.                                             *)
LEMMA EndsKeeps ==
    ASSUME SchemaInv, NEW p \in Procs, NEW how \in {"exists", "unreadable", "done", "locked", "killed"},
           Ends(p, how), UNCHANGED <<tables, cols, born>>,
           how = "exists" => born # TableSet /\ ~AllDiscover,
           how = "unreadable" => "cli" \in tables /\ "fixed_by" \notin cols
    PROVE  SchemaInv'
<1>1. SchemaTypes
  BY DEF SchemaInv
<1>2. /\ proc' \in [Procs -> Command] /\ \A q \in Procs \ {p} : proc'[q] = proc[q]
      /\ proc'[p].path = <<>> /\ proc'[p].step = "look" /\ proc'[p].todo = <<>> /\ proc'[p].missing = <<>>
      /\ proc'[p].end = how /\ proc'[p].kind = proc[p].kind
      /\ lock' \in {lock, Free} /\ (lock' # lock => lock = p)
  BY <1>1, EndsAs
<1>3. SchemaTypes'
  BY <1>1, <1>2 DEF SchemaTypes
<1>4. Frame(p)
  BY <1>2 DEF Frame
<1>5. AllDiscover' <=> AllDiscover
  BY <1>2 DEF AllDiscover
<1>6. proc'[p].path \notin After(proc'[p].kind) /\ proc'[p].path \notin Informed
  BY <1>2 DEF After, Informed
<1>7. ProcOK(p)'
  <2>1. Routed(p)'
    BY <1>2 DEF Routed
  <2>2. Knows(p)' /\ Excludes(p)'
    BY <1>2 DEF Knows, Excludes
  <2>3. After(proc[p].kind)' = After(proc'[p].kind)
    BY DEF After
  <2>4. Found(p)'
    BY <1>2, <1>5, <1>6, <2>3 DEF Found
  <2> QED
    BY <2>1, <2>2, <2>4 DEF ProcOK
<1> QED
  BY <1>3, <1>4, <1>7, StepKeeps

(* A command that goes on to its next phase found what it needs there.     *)
LEMMA AdvancesKeeps ==
    ASSUME SchemaInv, NEW p \in Procs, NEW h \in {"lock", "init", "read", "fixed"}, At(p, h), Advances(p),
           UNCHANGED <<tables, born>>, cols \subseteq cols', cols' \subseteq Columns,
           "fixed_by" \in cols' \ cols => "cli" \notin tables,
           lock' # lock => lock = Free /\ lock' = p,
           h = "lock" => lock' = p,
           h = "init" => tables = TableSet /\ InitColumns \subseteq cols,
           h = "read" => cols = Columns
    PROVE  SchemaInv'
<1>1. SchemaTypes /\ ProcOK(p) /\ proc[p] \in Command /\ proc[p].end = "none" /\ Head(proc[p].path) = h /\ proc[p].path # <<>>
  BY DEF SchemaInv, At, SchemaTypes
<1> DEFINE k == proc[p].kind
           path == proc[p].path
<1>2. k \in Kinds /\ path \in Before(k) \cup After(k)
  BY <1>1 DEF ProcOK, Routed, Command
<1>3. /\ proc' \in [Procs -> Command] /\ \A q \in Procs \ {p} : proc'[q] = proc[q]
      /\ proc'[p].path = Tail(path)
      /\ proc'[p].kind = k /\ proc'[p].step = proc[p].step /\ proc'[p].todo = proc[p].todo
      /\ proc'[p].missing = proc[p].missing /\ proc'[p].end = "none"
  BY <1>1, AdvancesTo
<1>4. SchemaTypes'
  BY <1>1, <1>3 DEF SchemaTypes
<1>5. Frame(p)
  BY <1>3 DEF Frame
<1>6. AllDiscover' <=> AllDiscover
  BY <1>3 DEF AllDiscover
<1>7. /\ After(proc[p].kind)' = After(k) /\ Before(proc[p].kind)' = Before(k)
      /\ Elems(proc[p].todo)' = Elems(proc[p].todo) /\ (Distinct(proc[p].todo)' <=> Distinct(proc[p].todo))
      /\ Elems(proc[p].missing)' = Elems(proc[p].missing) /\ (Distinct(proc[p].missing)' <=> Distinct(proc[p].missing))
  BY <1>3 DEF After, Before, Elems, Distinct
<1>8. Routed(p)'
  <2>1. Tail(path) \in Before(k) \cup After(k)
    BY <1>1, <1>2, PathSteps
  <2>2. ASSUME k = "discover" PROVE Tail(path) # Path("discover") /\ lock' = p
    <3>1. Tail(path) # Path("discover") /\ (h # "lock" => path # Path("discover"))
      BY <1>1, <1>2, <2>2, PathSteps
    <3>2. h # "lock" => lock = p
      BY <1>1, <2>2, <3>1 DEF ProcOK, Routed
    <3> QED
      BY <3>1, <3>2, SchemaAssumption
  <2>3. Path("discover")' = Path("discover")
    BY DEF Path
  <2> QED
    BY <1>3, <1>7, <2>1, <2>2, <2>3 DEF Routed
<1>9. Knows(p)' /\ Excludes(p)'
  BY <1>1, <1>3, <1>6, <1>7 DEF ProcOK, Knows, Excludes
<1>10. Found(p)'
  <2>1. ASSUME Tail(path) \in After(k) PROVE tables = TableSet /\ InitColumns \subseteq cols
    <3>1. h = "init" \/ path \in After(k)
      BY <1>1, <1>2, <2>1, PathSteps
    <3> QED
      BY <1>1, <3>1 DEF ProcOK, Found
  <2>2. ASSUME Tail(path) \in Informed PROVE cols = Columns
    <3>1. h = "read" \/ path \in Informed
      BY <1>1, <1>2, <2>2, PathSteps
    <3> QED
      BY <1>1, <3>1 DEF ProcOK, Found
  <2> QED
    BY <1>3, <1>7, <2>1, <2>2 DEF Found
<1>11. ProcOK(p)'
  BY <1>8, <1>9, <1>10 DEF ProcOK
<1> QED
  BY <1>4, <1>5, <1>11, StepKeeps

(* A statement of init_db keeps what follows when it knows what the next   *)
(* one must know.                                                          *)
LEMMA StatementKeeps ==
    ASSUME SchemaInv, NEW p \in Procs, At(p, "init"), SchemaTypes', Frame(p), UNCHANGED lock,
           proc'[p].path = proc[p].path, proc'[p].end = proc[p].end, Knows(p)', Excludes(p)'
    PROVE  SchemaInv'
<1>1. SchemaTypes /\ ProcOK(p) /\ proc[p] \in Command /\ proc[p].end = "none" /\ Head(proc[p].path) = "init"
  BY DEF SchemaInv, At, SchemaTypes
<1> DEFINE k == proc[p].kind
           path == proc[p].path
<1>2. k \in Kinds /\ path \in Before(k) \cup After(k)
  BY <1>1 DEF ProcOK, Routed, Command
<1>3. path \in Before(k) /\ path \notin After(k) \cup Informed /\ (k = "discover" => path # Path("discover"))
  BY <1>1, <1>2, PathSteps
<1>4. proc'[p].kind = k
  BY DEF Frame
<1>5. After(proc[p].kind)' = After(k) /\ Before(proc[p].kind)' = Before(k) /\ Path("discover")' = Path("discover")
  BY <1>4 DEF After, Before, Path
<1>6. Routed(p)' /\ Found(p)'
  BY <1>1, <1>3, <1>4, <1>5 DEF ProcOK, Routed, Found
<1>7. ProcOK(p)'
  BY <1>6 DEF ProcOK
<1> QED
  BY <1>7, StepKeeps

(* A command inside init_db.                                               *)
LEMMA InsideInit ==
    ASSUME SchemaInv, NEW p \in Procs, NEW s, InInit(p, s)
    PROVE  /\ SchemaTypes /\ At(p, "init") /\ proc[p].step = s /\ proc[p] \in Command
           /\ Knows(p) /\ Excludes(p) /\ Routed(p)
BY DEF SchemaInv, SchemaTypes, ProcOK, InInit

(* The first look, and the migration it may lead to.                       *)
LEMMA MigrationKeeps ==
    ASSUME SchemaInv, NEW p \in Procs, Look(p) \/ BeginImmediate(p) \/ Migrate(p)
    PROVE  SchemaInv'
<1>0. /\ Tables \in Seq(TableSet \cup WorkColumns) /\ <<>> \in Seq(TableSet \cup WorkColumns)
      /\ {"begin", "migrate", "check"} \subseteq Steps0
  BY TablesList, SeqWider DEF Steps0
<1>1. PICK s \in {"look", "begin", "migrate"} : InInit(p, s)
  BY DEF Look, BeginImmediate, Migrate
<1>2. /\ SchemaTypes /\ At(p, "init") /\ proc[p] \in Command /\ proc[p].missing = <<>>
  BY <1>1, InsideInit DEF Knows
<1>3. /\ UNCHANGED <<tables, born, lock>>
      /\ cols' = cols \/ cols' = cols \cup {"description_provenance"}
  BY DEF Look, BeginImmediate, Migrate, db
<1>4. cols \subseteq cols' /\ cols' \subseteq Columns /\ ("fixed_by" \in cols' => "fixed_by" \in cols)
  BY <1>2, <1>3 DEF SchemaTypes, Columns, InitColumns
<1>5. ASSUME NEW n \in {"begin", "migrate"}, Goes(p, n, <<>>) PROVE SchemaInv'
  <2>1. /\ proc' \in [Procs -> Command] /\ \A q \in Procs \ {p} : proc'[q] = proc[q]
        /\ proc'[p].step = n /\ proc'[p].kind = proc[p].kind /\ proc'[p].path = proc[p].path
        /\ proc'[p].missing = proc[p].missing /\ proc'[p].end = proc[p].end
    BY <1>0, <1>2, <1>5, GoesTo
  <2>2. SchemaTypes' /\ Frame(p)
    BY <1>2, <1>3, <1>4, <2>1 DEF SchemaTypes, Frame
  <2>3. Knows(p)' /\ Excludes(p)'
    BY <1>2, <2>1 DEF Knows, Excludes
  <2> QED
    BY <1>2, <1>3, <2>1, <2>2, <2>3, StatementKeeps
<1>6. ASSUME Goes(p, "check", Tables), "cli" \in tables => "description_provenance" \in cols' PROVE SchemaInv'
  <2>1. /\ proc' \in [Procs -> Command] /\ \A q \in Procs \ {p} : proc'[q] = proc[q]
        /\ proc'[p].step = "check" /\ proc'[p].todo = Tables
        /\ proc'[p].kind = proc[p].kind /\ proc'[p].path = proc[p].path
        /\ proc'[p].missing = proc[p].missing /\ proc'[p].end = proc[p].end
    BY <1>0, <1>2, <1>6, GoesTo
  <2>2. SchemaTypes' /\ Frame(p)
    BY <1>2, <1>3, <1>4, <2>1 DEF SchemaTypes, Frame
  <2>3. /\ Elems(proc[p].todo)' = TableSet /\ Distinct(proc[p].todo)'
        /\ Elems(proc[p].missing)' = {} /\ Distinct(proc[p].missing)'
    BY <1>2, <2>1, TablesList, ElemsEmpty DEF Elems, Distinct
  <2>4. Knows(p)' /\ Excludes(p)'
    BY <1>2, <1>3, <1>6, <2>1, <2>3, TablesList DEF Knows, Excludes
  <2> QED
    BY <1>2, <1>3, <2>1, <2>2, <2>4, StatementKeeps
<1>7. CASE Look(p)
  BY <1>5, <1>6, <1>7 DEF Look, db
<1>8. CASE BeginImmediate(p)
  BY <1>5, <1>8 DEF BeginImmediate
<1>9. CASE Migrate(p)
  BY <1>6, <1>9 DEF Migrate
<1> QED
  BY <1>7, <1>8, <1>9

(* Each table is in the database, on the list of the missing, or still to  *)
(* be looked for.                                                          *)
LEMMA CheckKeeps ==
    ASSUME SchemaInv, NEW p \in Procs, Check(p)
    PROVE  SchemaInv'
<1> DEFINE todo == proc[p].todo
           missing == proc[p].missing
           t == Head(todo)
           m == IF t \in tables THEN missing ELSE Append(missing, t)
           rest == Tail(todo)
           next == [proc[p] EXCEPT !.missing = m, !.step = IF rest = <<>> THEN "create" ELSE "check",
                                   !.todo = IF rest = <<>> THEN m ELSE rest]
<1>1. /\ SchemaTypes /\ At(p, "init") /\ proc[p].step = "check" /\ proc[p] \in Command
      /\ Knows(p) /\ Excludes(p)
  BY InsideInit DEF Check
<1>2. /\ todo # <<>> /\ todo \in Seq(TableSet) /\ missing \in Seq(TableSet)
      /\ TableSet \subseteq tables \cup Elems(missing) \cup Elems(todo)
      /\ Distinct(todo) /\ Distinct(missing) /\ Elems(todo) \cap Elems(missing) = {}
      /\ Elems(missing) \cap born = {}
      /\ born \subseteq tables /\ ("cli" \in tables => "description_provenance" \in cols)
      /\ AllDiscover => Elems(missing) \cap tables = {}
  BY <1>1 DEF Knows, Excludes, Command, SchemaTypes
<1>3. /\ t \in TableSet /\ rest \in Seq(TableSet) /\ Elems(todo) = {t} \cup Elems(rest)
      /\ Distinct(rest) /\ t \notin Elems(rest)
  BY <1>2, ElemsTail
<1>4. /\ m \in Seq(TableSet) /\ Distinct(m) /\ Elems(m) = (IF t \in tables THEN Elems(missing) ELSE Elems(missing) \cup {t})
  <2> HIDE DEF t, missing
  <2>1. t \in TableSet /\ t \notin Elems(missing)
    BY <1>2, <1>3
  <2>2. /\ Append(missing, t) \in Seq(TableSet) /\ Distinct(Append(missing, t))
        /\ Elems(Append(missing, t)) = Elems(missing) \cup {t}
    BY <1>2, <2>1, ElemsAppend
  <2>3. CASE t \in tables
    BY <1>2, <2>3
  <2>4. CASE t \notin tables
    BY <2>2, <2>4
  <2> QED
    BY <2>3, <2>4
<1>5. /\ TableSet \subseteq tables \cup Elems(m) \cup Elems(rest) /\ Elems(rest) \cap Elems(m) = {}
      /\ Elems(m) \cap born = {} /\ (AllDiscover => Elems(m) \cap tables = {})
  BY <1>2, <1>3, <1>4
<1>6. proc' = [proc EXCEPT ![p] = next] /\ UNCHANGED <<tables, cols, born, lock>>
  BY DEF Check, db
<1>7. /\ m \in Seq(TableSet \cup WorkColumns) /\ rest \in Seq(TableSet \cup WorkColumns)
      /\ {"create", "check"} \subseteq Steps0
  BY <1>3, <1>4, SeqWider DEF Steps0
<1>8. /\ next \in Command /\ next.missing = m /\ next.step = (IF rest = <<>> THEN "create" ELSE "check")
      /\ next.todo = (IF rest = <<>> THEN m ELSE rest)
      /\ next.kind = proc[p].kind /\ next.path = proc[p].path /\ next.end = proc[p].end
  <2> HIDE DEF m, rest
  <2> QED
    BY <1>1, <1>4, <1>7 DEF Command
<1> HIDE DEF next, m, rest, t, todo, missing
<1>9. /\ proc' \in [Procs -> Command] /\ \A q \in Procs \ {p} : proc'[q] = proc[q]
      /\ proc'[p] = next
  BY <1>1, <1>6, <1>8 DEF SchemaTypes
<1>10. SchemaTypes' /\ Frame(p)
  BY <1>1, <1>6, <1>8, <1>9 DEF SchemaTypes, Frame
<1>11. AllDiscover' <=> AllDiscover
  BY <1>8, <1>9 DEF AllDiscover
<1>12. Knows(p)' /\ Excludes(p)'
  <2>1. CASE rest = <<>>
    <3>1. proc'[p].step = "create" /\ proc'[p].todo = m /\ Elems(rest) = {}
      BY <1>8, <1>9, <2>1, ElemsEmpty
    <3>2. Elems(proc[p].todo)' = Elems(m) /\ Distinct(proc[p].todo)'
      BY <1>4, <3>1 DEF Elems, Distinct
    <3> QED
      BY <1>2, <1>4, <1>5, <1>6, <1>11, <3>1, <3>2 DEF Knows, Excludes
  <2>2. CASE rest # <<>>
    <3>1. proc'[p].step = "check" /\ proc'[p].todo = rest /\ proc'[p].missing = m
      BY <1>8, <1>9, <2>2
    <3>2. /\ Elems(proc[p].todo)' = Elems(rest) /\ Distinct(proc[p].todo)'
          /\ Elems(proc[p].missing)' = Elems(m) /\ Distinct(proc[p].missing)'
      BY <1>3, <1>4, <3>1 DEF Elems, Distinct
    <3> QED
      BY <1>2, <1>3, <1>4, <1>5, <1>6, <1>11, <2>2, <3>1, <3>2 DEF Knows, Excludes
  <2> QED
    BY <2>1, <2>2
<1> QED
  BY <1>1, <1>6, <1>8, <1>9, <1>10, <1>12, StatementKeeps

(* The missing tables are created one by one.                              *)
LEMMA CreateKeeps ==
    ASSUME SchemaInv, NEW p \in Procs, Create(p)
    PROVE  SchemaInv'
<1> DEFINE todo == proc[p].todo
           t == Head(todo)
           rest == Tail(todo)
<1>1. /\ SchemaTypes /\ At(p, "init") /\ proc[p].step = "create" /\ proc[p] \in Command
      /\ Knows(p) /\ Excludes(p)
  BY InsideInit DEF Create
<1>2. /\ todo # <<>> /\ todo \in Seq(TableSet) /\ TableSet \subseteq tables \cup Elems(todo)
      /\ Distinct(todo) /\ Elems(todo) \cap born = {}
      /\ "cli" \in tables => "description_provenance" \in cols
  BY <1>1 DEF Knows, Create
<1>3. /\ t \in TableSet /\ rest \in Seq(TableSet) /\ Elems(todo) = {t} \cup Elems(rest)
      /\ Distinct(rest) /\ t \notin Elems(rest)
  BY <1>2, ElemsTail
<1>4. rest \in Seq(TableSet \cup WorkColumns) /\ "create" \in Steps0
  BY <1>3, SeqWider DEF Steps0
<1>5. Goes(p, "create", rest)
  BY DEF Create
<1>6. /\ tables' = tables \cup {t} /\ UNCHANGED <<born, lock>>
      /\ cols' = (IF t = "cli" THEN Columns ELSE cols) /\ t \notin tables
  BY DEF Create
<1> HIDE DEF t, rest
<1>7. /\ proc' \in [Procs -> Command] /\ \A q \in Procs \ {p} : proc'[q] = proc[q]
      /\ proc'[p].step = "create" /\ proc'[p].todo = rest
      /\ proc'[p].kind = proc[p].kind /\ proc'[p].path = proc[p].path
      /\ proc'[p].missing = proc[p].missing /\ proc'[p].end = proc[p].end
  BY <1>1, <1>4, <1>5, GoesTo
<1>8. "description_provenance" \in Columns
  BY DEF Columns, InitColumns
<1>9. SchemaTypes' /\ Frame(p)
  BY <1>1, <1>3, <1>6, <1>7 DEF SchemaTypes, Frame
<1>10. Elems(proc[p].todo)' = Elems(rest) /\ Distinct(proc[p].todo)'
  BY <1>3, <1>7 DEF Elems, Distinct
<1>11. AllDiscover' <=> AllDiscover
  BY <1>7 DEF AllDiscover
<1>12. Knows(p)'
  BY <1>2, <1>3, <1>6, <1>7, <1>8, <1>10 DEF Knows
<1>13. Excludes(p)'
  BY <1>1, <1>3, <1>6, <1>7, <1>10, <1>11 DEF Excludes
<1> QED
  BY <1>1, <1>6, <1>7, <1>9, <1>12, <1>13, StatementKeeps

(* A table is there already only if it was not when the commands started,  *)
(* and some command does not lock first.                                   *)
LEMMA CreateFailsKeeps ==
    ASSUME SchemaInv, NEW p \in Procs, CreateFails(p)
    PROVE  SchemaInv'
<1> DEFINE todo == proc[p].todo
<1>1. /\ SchemaTypes /\ At(p, "init") /\ proc[p].step = "create" /\ proc[p] \in Command
      /\ Knows(p) /\ Excludes(p)
  BY InsideInit DEF CreateFails
<1>2. /\ todo # <<>> /\ todo \in Seq(TableSet) /\ Elems(todo) \cap born = {} /\ Head(todo) \in tables
      /\ AllDiscover => Elems(todo) \cap tables = {}
  BY <1>1 DEF Knows, Excludes, CreateFails
<1>3. Head(todo) \in TableSet /\ Head(todo) \in Elems(todo)
  BY <1>2, ElemsTail
<1>4. born # TableSet /\ ~AllDiscover
  BY <1>2, <1>3
<1> QED
  BY <1>4, EndsKeeps DEF CreateFails, db

(* All tables are there; the columns are looked for and added.             *)
LEMMA ColumnsKeep ==
    ASSUME SchemaInv, NEW p \in Procs, Created(p) \/ LookColumn(p) \/ AlterColumn(p)
    PROVE  SchemaInv'
<1> DEFINE todo == proc[p].todo
<1>1. PICK s \in {"create", "columns", "alter"} : InInit(p, s)
  BY DEF Created, LookColumn, AlterColumn
<1>2. /\ SchemaTypes /\ At(p, "init") /\ proc[p].step = s /\ proc[p] \in Command /\ Knows(p)
  BY <1>1, InsideInit
<1>3. UNCHANGED <<tables, born, lock>>
  BY DEF Created, LookColumn, AlterColumn, db
<1>4. TableSet \subseteq tables => tables = TableSet
  BY <1>2 DEF SchemaTypes
<1>5. "cli" \in tables => "description_provenance" \in cols
  BY <1>2 DEF Knows
<1>6. ASSUME NEW n \in {"columns", "alter"}, NEW l \in Seq(WorkColumns), tables = TableSet,
             cols \subseteq cols', cols' \subseteq cols \cup WorkColumns,
             WorkColumns \subseteq cols' \cup Elems(l), n = "alter" => l # <<>>,
             proc' \in [Procs -> Command], \A q \in Procs \ {p} : proc'[q] = proc[q],
             proc'[p].step = n, proc'[p].todo = l,
             proc'[p].kind = proc[p].kind, proc'[p].path = proc[p].path, proc'[p].end = proc[p].end
      PROVE  SchemaInv'
  <2>1. cols' \subseteq Columns /\ ("fixed_by" \in cols' => "fixed_by" \in cols)
    BY <1>2, <1>6 DEF SchemaTypes, Columns, InitColumns, WorkColumns
  <2>2. SchemaTypes' /\ Frame(p)
    BY <1>2, <1>3, <1>6, <2>1 DEF SchemaTypes, Frame
  <2>3. Elems(proc[p].todo)' = Elems(l)
    BY <1>6 DEF Elems
  <2>4. Knows(p)' /\ Excludes(p)'
    BY <1>3, <1>5, <1>6, <2>3 DEF Knows, Excludes
  <2> QED
    BY <1>2, <1>3, <1>6, <2>2, <2>4, StatementKeeps
<1>7. CASE Created(p)
  <2> DEFINE l == <<"work_status", "work_checked_at">>
             next == [proc[p] EXCEPT !.step = "columns", !.todo = l, !.missing = <<>>]
  <2>1. l \in Seq(WorkColumns) /\ Elems(l) = WorkColumns /\ l \in Seq(TableSet \cup WorkColumns)
    BY DEF WorkColumns, Elems
  <2>2. tables = TableSet
    <3>1. proc[p].step = "create" /\ todo = <<>>
      BY <1>7 DEF Created, InInit
    <3> QED
      BY <1>2, <1>4, <3>1, ElemsEmpty DEF Knows
  <2>3. proc' = [proc EXCEPT ![p] = next] /\ cols' = cols
    BY <1>7 DEF Created, db
  <2>4. /\ next \in Command /\ next.step = "columns" /\ next.todo = l
        /\ next.kind = proc[p].kind /\ next.path = proc[p].path /\ next.end = proc[p].end
    <3>1. <<>> \in Seq(TableSet) /\ "columns" \in Steps0
      BY DEF Steps0
    <3> HIDE DEF l
    <3> QED
      BY <1>2, <2>1, <3>1 DEF Command
  <2> HIDE DEF next, l
  <2>5. /\ proc' \in [Procs -> Command] /\ \A q \in Procs \ {p} : proc'[q] = proc[q]
        /\ proc'[p] = next
    BY <1>2, <2>3, <2>4 DEF SchemaTypes
  <2> QED
    BY <1>6, <2>1, <2>2, <2>3, <2>4, <2>5
<1>8. CASE LookColumn(p) \/ AlterColumn(p)
  <2>1. proc[p].step \in {"columns", "alter"} /\ todo # <<>>
    BY <1>2, <1>8 DEF LookColumn, AlterColumn, InInit, Knows
  <2>2. tables = TableSet /\ todo \in Seq(WorkColumns) /\ WorkColumns \subseteq cols \cup Elems(todo)
    BY <1>2, <2>1 DEF Knows
  <2>3. /\ Head(todo) \in WorkColumns /\ Tail(todo) \in Seq(WorkColumns)
        /\ Elems(todo) = {Head(todo)} \cup Elems(Tail(todo))
    BY <2>1, <2>2, ElemsTail
  <2>4. /\ todo \in Seq(TableSet \cup WorkColumns) /\ Tail(todo) \in Seq(TableSet \cup WorkColumns)
        /\ {"columns", "alter"} \subseteq Steps0
    BY <2>2, <2>3, SeqWider DEF Steps0
  <2>5. ASSUME NEW n \in {"columns", "alter"}, NEW l \in {todo, Tail(todo)}, Goes(p, n, l),
               cols' = cols \/ cols' = cols \cup {Head(todo)},
               n = "alter" => l = todo, l = todo \/ Head(todo) \in cols'
        PROVE  SchemaInv'
    <3>1. /\ proc' \in [Procs -> Command] /\ \A q \in Procs \ {p} : proc'[q] = proc[q]
          /\ proc'[p].step = n /\ proc'[p].todo = l
          /\ proc'[p].kind = proc[p].kind /\ proc'[p].path = proc[p].path /\ proc'[p].end = proc[p].end
      BY <1>2, <2>4, <2>5, GoesTo
    <3>2. WorkColumns \subseteq cols' \cup Elems(l)
      <4>1. CASE l = todo
        BY <2>2, <2>5, <4>1
      <4>2. CASE l = Tail(todo) /\ Head(todo) \in cols'
        BY <2>2, <2>3, <2>5, <4>2
      <4> QED
        BY <2>5, <4>1, <4>2
    <3>3. l \in Seq(WorkColumns) /\ (n = "alter" => l # <<>>)
      BY <2>1, <2>2, <2>3, <2>5
    <3>4. cols \subseteq cols' /\ cols' \subseteq cols \cup WorkColumns
      BY <2>3, <2>5
    <3> HIDE DEF todo
    <3> QED
      BY <1>6, <2>2, <3>1, <3>2, <3>3, <3>4
  <2>6. CASE LookColumn(p)
    BY <2>5, <2>6 DEF LookColumn, db
  <2>7. CASE AlterColumn(p)
    BY <2>5, <2>7 DEF AlterColumn
  <2> QED
    BY <1>8, <2>6, <2>7
<1> QED
  BY <1>7, <1>8

(* Every table and every column is there: the command goes on.             *)
LEMMA OpenedKeeps ==
    ASSUME SchemaInv, NEW p \in Procs, Opened(p)
    PROVE  SchemaInv'
<1>1. /\ SchemaTypes /\ At(p, "init") /\ proc[p].step = "columns" /\ Knows(p)
  BY InsideInit DEF Opened
<1>2. /\ tables = TableSet /\ WorkColumns \subseteq cols \cup Elems(proc[p].todo)
      /\ "cli" \in tables => "description_provenance" \in cols
  BY <1>1 DEF Knows
<1>3. Elems(proc[p].todo) = {}
  BY ElemsEmpty DEF Opened
<1>4. InitColumns \subseteq cols
  BY <1>2, <1>3, SchemaAssumption DEF InitColumns, WorkColumns
<1>5. Advances(p) /\ UNCHANGED <<tables, cols, born, lock>>
  BY DEF Opened, db
<1>6. cols' \subseteq Columns
  BY <1>1, <1>5 DEF SchemaTypes
<1> QED
  BY <1>1, <1>2, <1>4, <1>5, <1>6, AdvancesKeeps

(* Where a command reads, it is past init_db; where it ensures fixed_by,   *)
(* it has read every column.                                               *)
LEMMA PastOpening ==
    ASSUME SchemaInv, NEW p \in Procs
    PROVE  /\ At(p, "read") \/ At(p, "fixed") \/ At(p, "write") \/ At(p, "serve") =>
                tables = TableSet /\ InitColumns \subseteq cols
           /\ At(p, "fixed") => cols = Columns
<1>1. ASSUME proc[p].end = "none"
      PROVE  proc[p].kind \in Kinds /\ proc[p].path \in Before(proc[p].kind) \cup After(proc[p].kind)
  BY <1>1 DEF SchemaInv, SchemaTypes, ProcOK, Routed, Command
<1>2. ASSUME proc[p].end = "none", Head(proc[p].path) \in {"read", "fixed", "write", "serve"}
      PROVE  /\ proc[p].path \in After(proc[p].kind)
             /\ Head(proc[p].path) = "fixed" => proc[p].path \in Informed
  BY <1>1, <1>2, PathSteps
<1> QED
  BY <1>2 DEF At, SchemaInv, ProcOK, Found

(* The phases after init_db.                                               *)
LEMMA WorkingKeeps ==
    ASSUME SchemaInv, NEW p \in Procs, Working(p)
    PROVE  SchemaInv'
<1>1. SchemaTypes
  BY DEF SchemaInv
<1>2. CASE Acquire(p)
  <2>1. UNCHANGED <<tables, cols, born>> /\ cols' \subseteq Columns
    BY <1>1, <1>2 DEF Acquire, db, SchemaTypes
  <2> QED
    BY <1>2, <2>1, AdvancesKeeps DEF Acquire
<1>3. CASE Read(p)
  <2>1. UNCHANGED <<tables, cols, born, lock>> /\ cols' \subseteq Columns
    BY <1>1, <1>3 DEF Read, db, SchemaTypes
  <2> QED
    BY <1>3, <2>1, AdvancesKeeps DEF Read
<1>4. CASE Unreadable(p)
  <2>1. tables = TableSet /\ InitColumns \subseteq cols /\ cols # Columns
    BY <1>4, PastOpening DEF Unreadable
  <2>2. "cli" \in tables /\ "fixed_by" \notin cols
    BY <1>1, <2>1, SchemaAssumption DEF SchemaTypes, Columns
  <2> QED
    BY <1>4, <2>2, EndsKeeps DEF Unreadable, db
<1>5. CASE EnsureFixedBy(p)
  <2>1. cols = Columns
    BY <1>5, PastOpening DEF EnsureFixedBy
  <2>2. cols' = cols /\ UNCHANGED <<tables, born, lock>>
    BY <1>5, <2>1 DEF EnsureFixedBy, Columns
  <2> QED
    BY <1>5, <2>1, <2>2, AdvancesKeeps DEF EnsureFixedBy
<1>6. CASE BeginWrite(p)
  BY <1>6, SchemaInvStays DEF BeginWrite, db
<1>7. CASE CommitWrite(p)
  BY <1>7, EndsKeeps DEF CommitWrite
<1>8. CASE Locked(p)
  BY <1>8, EndsKeeps DEF Locked, db
<1> QED
  BY <1>2, <1>3, <1>4, <1>5, <1>6, <1>7, <1>8 DEF Working

(* Every step of a command keeps the invariant.                            *)
LEMMA CommandKeeps ==
    ASSUME SchemaInv, NEW p \in Procs, Opening(p) \/ Working(p) \/ Die(p)
    PROVE  SchemaInv'
<1>1. CASE Die(p)
  BY <1>1, EndsKeeps DEF Die, db
<1> QED
  BY <1>1, MigrationKeeps, CheckKeeps, CreateKeeps, CreateFailsKeeps, ColumnsKeep, OpenedKeeps, WorkingKeeps
  DEF Opening

(* It holds of whatever database is found.                                 *)
LEMMA SchemaInvInit == SchemaInit => SchemaInv
<1> SUFFICES ASSUME SchemaInit PROVE SchemaInv
  OBVIOUS
<1>1. PICK d \in InitialDBs : tables = d.tables /\ cols = d.cols
  BY DEF SchemaInit
<1>2. tables \subseteq TableSet /\ cols \subseteq Columns
  BY <1>1, SchemaAssumption
<1>3. ASSUME NEW k \in Kinds
      PROVE  /\ Fresh(k) \in Command /\ Fresh(k).kind = k /\ Fresh(k).path = Path(k) /\ Fresh(k).step = "look"
             /\ Fresh(k).missing = <<>> /\ Fresh(k).end = "none" /\ Path(k) \in Before(k) \ (After(k) \cup Informed)
  <2>1. Path(k) \in Before(k) /\ Path(k) \in Seq(Phases)
    <3>4. \E path : path \in Before(k) \cup After(k)
      <4>1. Before(k) # {}
        BY DEF Before
      <4> QED
        BY <4>1
    <3>5. Path(k) \in Before(k)
      BY <3>4, PathSteps
    <3>6. ASSUME NEW path \in Before(k) PROVE path \in Seq(Phases)
      <4>1. <<"init", "serve">> \in Seq(Phases)
        BY DEF Phases
      <4>2. <<"init", "read", "write">> \in Seq(Phases)
        BY DEF Phases
      <4>3. <<"lock", "init", "read", "write">> \in Seq(Phases)
        BY DEF Phases
      <4>4. <<"init", "lock", "read", "write">> \in Seq(Phases)
        BY DEF Phases
      <4>5. <<"init", "read", "lock", "fixed", "write">> \in Seq(Phases)
        BY DEF Phases
      <4> QED
        BY <4>1, <4>2, <4>3, <4>4, <4>5, Zenon DEF Before
    <3> QED
      BY <3>5, <3>6
  <2>2. Path(k) \notin After(k) /\ Path(k) \notin Informed
    BY <2>1 DEF Before, After, Informed, Kinds
  <2>3. <<>> \in Seq(TableSet) /\ <<>> \in Seq(TableSet \cup WorkColumns) /\ "look" \in Steps0
    BY DEF Steps0
  <2> QED
    BY <2>1, <2>2, <2>3 DEF Fresh, Command
<1>4. proc \in [Procs -> Command] /\ \A p \in Procs : \E k \in Kinds : proc[p] = Fresh(k)
  BY <1>3 DEF SchemaInit
<1>5. SchemaTypes
  BY <1>2, <1>4 DEF SchemaInit, SchemaTypes
<1>6. ASSUME NEW p \in Procs PROVE ProcOK(p)
  <2>1. PICK k \in Kinds : proc[p] = Fresh(k)
    BY <1>4
  <2>2. Routed(p) /\ Knows(p) /\ Excludes(p) /\ Found(p)
    BY <1>3, <2>1 DEF Routed, Knows, Excludes, Found
  <2> QED
    BY <2>2 DEF ProcOK
<1> QED
  BY <1>5, <1>6 DEF SchemaInv

(* What init_db promises follows from it.                                  *)
LEMMA InitSoundHolds == SchemaInv => InitSound
<1> SUFFICES ASSUME SchemaInv PROVE InitSound
  OBVIOUS
<1>1. ASSUME NEW p \in Procs, PastInit(p), proc[p].end = "none"
      PROVE  tables = TableSet /\ InitColumns \subseteq cols
  <2>1. proc[p].kind \in Kinds /\ proc[p].path \in Before(proc[p].kind) \cup After(proc[p].kind)
    BY <1>1 DEF SchemaInv, SchemaTypes, ProcOK, Routed, Command
  <2>2. proc[p].path \in After(proc[p].kind)
    BY <1>1, <2>1, PathSteps DEF PastInit
  <2> QED
    BY <2>2 DEF SchemaInv, ProcOK, Found
<1>2. ASSUME NEW p \in Procs, proc[p].end = "exists"
      PROVE  born # TableSet /\ \E q \in Procs : proc[q].kind # "discover"
  BY <1>2 DEF SchemaInv, ProcOK, Found, AllDiscover
<1>3. ASSUME NEW p \in Procs, proc[p].end = "unreadable" PROVE "fixed_by" \notin cols
  BY <1>3 DEF SchemaInv, ProcOK, Found
<1> QED
  BY <1>1, <1>2, <1>3 DEF InitSound

(* However many commands open the registry at once, and wherever they are  *)
(* cut short: the ones past init_db find every table and column it adds,   *)
(* and "already exists" is raised only where tables were missing and a     *)
(* command opens without the lock (db.py:8-42, migrations.py:27-78).       *)
THEOREM OpensSoundly == SchemaSpec => []InitSound
<1>1. SchemaInv /\ [SchemaNext]_schemaVars => SchemaInv'
  <2>1. CASE UNCHANGED schemaVars
    BY <2>1, SchemaInvStays DEF schemaVars
  <2> QED
    BY <2>1, CommandKeeps DEF SchemaNext
<1> QED
  BY <1>1, SchemaInvInit, InitSoundHolds, PTL DEF SchemaSpec
----
(* The owners. *)

(* What OwnersMigrated says of one step.                                   *)
OwnersStep ==
    /\ {"cli", "capability"} \subseteq tables /\ LegacyOwners # {}
            /\ "description_provenance" \in cols' \ cols =>
          owner' \in LegacyOwners /\ ("manual" \in LegacyOwners => owner' = "manual")
    /\ "description_provenance" \in cols /\ owner' # owner =>
            \E p \in Procs : At(p, "write") /\ txn = p

(* The strongest of the old owners is one of them, and "manual" if that is.*)
LEMMA StrongestOwner ==
    ASSUME "capability" \in tables, LegacyOwners # {}
    PROVE  Strongest \in LegacyOwners /\ ("manual" \in LegacyOwners => Strongest = "manual")
<1> DEFINE Best(o) == /\ "manual" \in LegacyOwners => o = "manual"
                      /\ "manual" \notin LegacyOwners /\ "llm" \in LegacyOwners => o = "llm"
<1>1. Strongest = CHOOSE o \in LegacyOwners : Best(o)
  BY DEF Strongest
<1>2. \E o \in LegacyOwners : Best(o)
  OBVIOUS
<1>3. (CHOOSE o \in LegacyOwners : Best(o)) \in LegacyOwners /\ Best(CHOOSE o \in LegacyOwners : Best(o))
  <2> HIDE DEF Best
  <2> QED
    BY <1>2
<1> QED
  BY <1>1, <1>3

(* Nothing but the migration adds the column to a table that is there, and *)
(* nothing but a command's commit changes the owner once it is.            *)
LEMMA CommandOwners ==
    ASSUME SchemaInv, NEW p \in Procs, Opening(p) \/ Working(p) \/ Die(p)
    PROVE  OwnersStep
<1>1. CASE owner' = owner /\ cols' = cols
  BY <1>1 DEF OwnersStep
<1>2. CASE Migrate(p)
  BY <1>2, StrongestOwner DEF Migrate, OwnersStep
<1>3. CASE Create(p)
  BY <1>3 DEF Create, OwnersStep
<1>4. CASE AlterColumn(p)
  <2>1. proc[p].step = "alter" /\ Knows(p)
    BY <1>4, InsideInit DEF AlterColumn
  <2>2. proc[p].todo # <<>> /\ proc[p].todo \in Seq(WorkColumns)
    BY <2>1 DEF Knows
  <2>3. Head(proc[p].todo) \in WorkColumns
    BY <2>2, ElemsTail
  <2> QED
    BY <1>4, <2>3 DEF AlterColumn, OwnersStep, WorkColumns
<1>5. CASE EnsureFixedBy(p)
  BY <1>5 DEF EnsureFixedBy, OwnersStep
<1>6. CASE CommitWrite(p)
  BY <1>6 DEF CommitWrite, OwnersStep
<1>7. CASE \/ Look(p) \/ BeginImmediate(p) \/ Check(p) \/ CreateFails(p) \/ Created(p) \/ LookColumn(p) \/ Opened(p)
           \/ Acquire(p) \/ Read(p) \/ Unreadable(p) \/ BeginWrite(p) \/ Locked(p) \/ Die(p)
  BY <1>1, <1>7 DEF Look, BeginImmediate, Check, CreateFails, Created, LookColumn, Opened,
                    Acquire, Read, Unreadable, BeginWrite, Locked, Die, db
<1> QED
  BY <1>2, <1>3, <1>4, <1>5, <1>6, <1>7 DEF Opening, Working

(* The server's requests leave the schema and the commands alone.          *)
LEMMA RequestLeaves ==
    ASSUME NEW r \in Requests, Requesting(r)
    PROVE  UNCHANGED <<tables, cols, owner, version, born, lock, proc>>
BY DEF Requesting, Begin, DropFts, DropSig, CreateFts, CreateSig, InsertFts, InsertSig, CommitIndex, Release,
       Retrieve, Drift, Answer, Fail, RequestLocked, Close, Others, db, schemaVars

(* So a step of the composed system is a command's, or leaves them alone.  *)
LEMMA ServerStep ==
    ASSUME [ServerNext]_vars
    PROVE  \/ \E p \in Procs : Opening(p) \/ Working(p) \/ Die(p)
           \/ UNCHANGED <<tables, cols, owner, version, born, lock, proc>>
<1>1. CASE ServerDies
  BY <1>1, ServerAssumption DEF ServerDies
<1>2. CASE \E r \in Requests : Requesting(r)
  BY <1>2, RequestLeaves
<1> QED
  BY <1>1, <1>2 DEF ServerNext, Commanding, vars, schemaVars

(* The invariant holds beside the server, too.                             *)
LEMMA SchemaInvAlways == ServerSpec => []SchemaInv
<1>1. ServerInit => SchemaInv
  BY SchemaInvInit DEF ServerInit
<1>2. SchemaInv /\ [ServerNext]_vars => SchemaInv'
  BY ServerStep, CommandKeeps, SchemaInvStays
<1> QED
  BY <1>1, <1>2, PTL DEF ServerSpec

(* With a server whose requests share its connection beside them, the      *)
(* commands still find what init_db promises (db.py:8-42).                 *)
THEOREM ServesSoundly == ServerSpec => []InitSound
BY SchemaInvAlways, InitSoundHolds, PTL

(* The owner of a description is copied with the column, once and strongest*)
(* first, and never again, however late another command's migration runs   *)
(* (migrations.py:70-89).                                                  *)
THEOREM OwnersCopiedOnce == ServerSpec => OwnersMigrated
<1>1. SchemaInv /\ [ServerNext]_vars => [OwnersStep]_schemaVars
  <2> SUFFICES ASSUME SchemaInv, [ServerNext]_vars PROVE [OwnersStep]_schemaVars
    OBVIOUS
  <2>1. CASE UNCHANGED <<tables, cols, owner, version, born, lock, proc>>
    BY <2>1 DEF OwnersStep
  <2> QED
    BY <2>1, ServerStep, CommandOwners
<1> QED
  BY <1>1, SchemaInvAlways, PTL DEF ServerSpec, OwnersMigrated, OwnersStep
----
(* The server's connection and its requests. *)

ReqSteps == {"idle", "drop fts", "drop sig", "create fts", "create sig", "insert fts", "insert sig",
             "release", "retrieve", "drift", "close"}
Index    == [fts : (SUBSET Books) \cup {Gone}, sig : (SUBSET (Books \X (0 .. MaxWrites))) \cup {Gone}]

(* Who holds the transaction: a migration, a command's write, or a server  *)
(* that is up.  Only its holder adds to the version.                       *)
Writer ==
    /\ version \in 0 .. MaxWrites
    /\ txn \in Procs \cup {Free}
    /\ \A p \in Procs : InInit(p, "migrate") => txn = p
    /\ \A p \in Procs : txn = p =>
          \/ InInit(p, "migrate")
          \/ At(p, "write") /\ version < MaxWrites
          \/ p = Serve /\ Up

Record(q) ==
    q = [step |-> q.step, kind |-> q.kind, todo |-> q.todo, seen |-> q.seen, stale |-> q.stale,
         alone |-> q.alone, at |-> q.at, error |-> q.error, torn |-> q.torn]

(* What a request is, whatever it does, at version v.                      *)
RequestOK(q, v) ==
    /\ Record(q)
    /\ q.step \in ReqSteps /\ q.alone \in BOOLEAN /\ q.torn \in BOOLEAN
    /\ q.at \in 0 .. v
    /\ q.step \in {"insert fts", "insert sig"} => q.todo \in Seq(Books)
    /\ q.step = "insert sig" => q.todo # <<>>
    /\ q.step # "close" => q.error = "none"

(* What the server's connection sees is what is committed, unless a        *)
(* request holds a transaction; and only a server that is up has requests. *)
Shared ==
    /\ work \in Index /\ disk \in Index
    /\ ~Open \/ ~Up => work = disk
    /\ ~Up => \A r \in Requests : request[r].step = "idle"

(* The index a request that is alone has built so far, w, with d committed;*)
Builds(q, w, d) ==
    /\ q.step \in {"drop sig", "create fts"} => w.fts = Gone
    /\ q.step \in {"create fts", "create sig"} => w.sig = Gone
    /\ q.step \in {"create sig", "insert fts", "insert sig", "release", "retrieve"} => w.fts # Gone
    /\ q.step \in {"insert fts", "insert sig", "release", "retrieve", "drift"} => w.sig # Gone
    /\ q.step = "insert fts" => Hits \subseteq w.fts \cup Elems(q.todo)
    /\ q.step = "insert sig" => Hits \subseteq w.fts \cup Elems(Tail(q.todo))
    /\ q.step = "release" => w = d
    /\ q.step \in {"release", "retrieve"} => Hits \subseteq w.fts
    /\ q.step = "drift" => q.seen = Hits
    /\ q.step = "close" => q.error \in {"none", "locked"}
    /\ q.step = "close" /\ q.kind # "plain" /\ q.error = "none" => q.seen = Hits

(* the signatures in it, none older than the request.                      *)
Signs(q, w, v) ==
    /\ q.step \in {"insert fts", "insert sig", "release", "retrieve", "drift"} =>
          \A c \in w.sig : q.at <= c[2] /\ c[2] <= v
    /\ q.stale # {} => q.at < v

AloneOK(r) ==
    request[r].alone /\ request[r].step # "idle" =>
        /\ \A q \in Requests \ {r} : request[q].step = "idle"
        /\ Builds(request[r], work, disk) /\ Signs(request[r], work, version)

(* A transaction is somebody's: of a REST request, of an MCP call that is  *)
(* inserting, or of one that failed because another request overlapped it. *)
Owned ==
    Up /\ Open =>
        \/ \E r \in Rest : request[r].step # "idle"
        \/ \E m \in Mcp : request[m].step \in {"insert fts", "insert sig"} \/ request[m].torn

ServerInv ==
    /\ SchemaInv /\ Writer /\ Shared /\ Owned
    /\ request = [r \in Requests |-> request[r]]
    /\ \A r \in Requests : RequestOK(request[r], version) /\ AloneOK(r)

(* What a command's step does to the transaction and the version.          *)
LEMMA CommandMoves ==
    ASSUME SchemaInv, Writer, NEW p \in Procs, Opening(p) \/ Working(p) \/ Die(p)
    PROVE  /\ \A q \in Procs \ {p} : proc'[q] = proc[q]
           /\ txn' = txn \/ (txn = Free /\ txn' = p) \/ (txn = p /\ txn' = Free)
           /\ InInit(p, "migrate")' => txn' = p
           /\ txn' = p => InInit(p, "migrate")' \/ (At(p, "write")' /\ version' < MaxWrites)
           /\ version' = version \/ (txn = p /\ version' = version + 1 /\ version < MaxWrites)
<1> DEFINE Goal == /\ \A q \in Procs \ {p} : proc'[q] = proc[q]
                   /\ txn' = txn \/ (txn = Free /\ txn' = p) \/ (txn = p /\ txn' = Free)
                   /\ InInit(p, "migrate")' => txn' = p
                   /\ txn' = p => InInit(p, "migrate")' \/ (At(p, "write")' /\ version' < MaxWrites)
                   /\ version' = version \/ (txn = p /\ version' = version + 1 /\ version < MaxWrites)
<1>0. /\ SchemaTypes /\ Routed(p) /\ proc[p] \in Command /\ Free \notin Procs
      /\ version \in 0 .. MaxWrites /\ (InInit(p, "migrate") => txn = p)
      /\ txn = p => InInit(p, "migrate") \/ (At(p, "write") /\ version < MaxWrites) \/ (p = Serve /\ Up)
  BY SchemaAssumption DEF SchemaInv, SchemaTypes, ProcOK, Writer
<1>1. CASE Look(p) \/ Create(p) \/ LookColumn(p) \/ AlterColumn(p) \/ Check(p) \/ Created(p)
  <2>1. /\ At(p, "init") /\ ~InInit(p, "migrate") /\ txn' = txn /\ version' = version
        /\ \A q \in Procs \ {p} : proc'[q] = proc[q]
    BY <1>0, <1>1 DEF Look, Create, LookColumn, AlterColumn, Check, Created, InInit, Goes, db, SchemaTypes
  <2>2. ~InInit(p, "migrate")'
    <3>1. CASE Look(p) \/ Create(p) \/ LookColumn(p) \/ AlterColumn(p)
      BY <1>0, <3>1 DEF Look, Create, LookColumn, AlterColumn, InInit, Goes, SchemaTypes, Command
    <3>2. CASE Check(p) \/ Created(p)
      <4>1. CASE Check(p)
        <5> DEFINE m == IF Head(proc[p].todo) \in tables THEN proc[p].missing
                        ELSE Append(proc[p].missing, Head(proc[p].todo))
                   s == IF Tail(proc[p].todo) = <<>> THEN "create" ELSE "check"
                   l == IF Tail(proc[p].todo) = <<>> THEN m ELSE Tail(proc[p].todo)
        <5>1. proc' = [proc EXCEPT ![p] = [proc[p] EXCEPT !.missing = m, !.step = s, !.todo = l]]
          BY <4>1 DEF Check
        <5>2. s # "migrate"
          OBVIOUS
        <5> HIDE DEF m, s, l
        <5>3. proc'[p].step = s
          BY <1>0, <5>1 DEF SchemaTypes, Command
        <5> QED
          BY <5>2, <5>3 DEF InInit
      <4>2. CASE Created(p)
        <5>1. proc'[p].step = "columns"
          BY <1>0, <4>2 DEF Created, SchemaTypes, Command
        <5> QED
          BY <5>1 DEF InInit
      <4> QED
        BY <3>2, <4>1, <4>2
    <3> QED
      BY <1>1, <3>1, <3>2
  <2>3. txn # p /\ ~(p = Serve /\ Up)
    BY <1>0, <2>1 DEF At, Up
  <2> QED
    BY <2>1, <2>2, <2>3
<1>2. CASE BeginImmediate(p)
  <2>1. InInit(p, "migrate")' /\ \A q \in Procs \ {p} : proc'[q] = proc[q]
    BY <1>0, <1>2 DEF BeginImmediate, Goes, InInit, At, SchemaTypes, Command
  <2>2. txn = Free /\ txn' = p /\ version' = version /\ ~(p = Serve /\ Up)
    BY <1>2 DEF BeginImmediate, InInit, At, Up, db
  <2> QED
    BY <2>1, <2>2
<1>3. CASE Migrate(p)
  <2>1. ~InInit(p, "migrate")' /\ \A q \in Procs \ {p} : proc'[q] = proc[q]
    BY <1>0, <1>3 DEF Migrate, Goes, InInit, SchemaTypes, Command
  <2>2. txn = p /\ txn' = Free /\ version' = version /\ ~(p = Serve /\ Up)
    BY <1>0, <1>3 DEF Migrate, InInit, At, Up
  <2> QED
    BY <1>0, <2>1, <2>2
<1>4. CASE Opened(p) \/ Acquire(p) \/ Read(p) \/ EnsureFixedBy(p)
  <2>1. PICK h \in {"init", "lock", "read", "fixed"} : At(p, h) /\ ~InInit(p, "migrate")
    BY <1>4 DEF Opened, Acquire, Read, EnsureFixedBy, InInit, At
  <2>2. Advances(p) /\ txn' = txn /\ version' = version
    BY <1>4 DEF Opened, Acquire, Read, EnsureFixedBy, db
  <2>3. /\ \A q \in Procs \ {p} : proc'[q] = proc[q]
        /\ proc'[p].path = Tail(proc[p].path) /\ proc'[p].step = proc[p].step
    BY <1>0, <2>1, <2>2, AdvancesTo DEF At
  <2>4. /\ proc[p].kind \in Kinds /\ proc[p].path \in Before(proc[p].kind) \cup After(proc[p].kind)
        /\ Head(proc[p].path) = h
        /\ proc[p].kind = "discover" /\ proc[p].path = Path("discover") => proc[p].step = "look"
    BY <1>0, <2>1 DEF Routed, At, Command
  <2>5. Tail(proc[p].path) \in After(proc[p].kind) \/ proc[p].step = "look"
    BY <2>4, PathSteps
  <2>6. ASSUME NEW t \in After(proc[p].kind) PROVE Head(t) # "init"
    BY <2>4, <2>6, PathSteps
  <2>7. ~InInit(p, "migrate")'
    BY <2>3, <2>5, <2>6 DEF InInit, At
  <2>8. txn # p /\ ~(p = Serve /\ Up)
    BY <1>0, <2>1 DEF At, Up
  <2> QED
    BY <2>2, <2>3, <2>7, <2>8
<1>5. ASSUME NEW how \in {"exists", "unreadable", "done", "locked", "killed"}, Ends(p, how), version' = version
      PROVE  Goal
  <2>1. /\ \A q \in Procs \ {p} : proc'[q] = proc[q]
        /\ proc'[p].end = how
    BY <1>0, <1>5, EndsAs
  <2>2. txn' = IF txn = p THEN Free ELSE txn
    BY <1>5 DEF Ends
  <2>3. ~InInit(p, "migrate")'
    BY <2>1 DEF InInit, At
  <2> QED
    BY <1>0, <1>5, <2>1, <2>2, <2>3
<1>6. CASE CreateFails(p) \/ Unreadable(p) \/ Locked(p) \/ Die(p)
  <2>1. version' = version
    BY <1>6 DEF CreateFails, Unreadable, Locked, Die, db
  <2>2. \E how \in {"exists", "unreadable", "done", "locked", "killed"} : Ends(p, how)
    BY <1>6 DEF CreateFails, Unreadable, Locked, Die
  <2> HIDE DEF Goal
  <2>3. Goal
    BY <1>5, <2>1, <2>2
  <2> QED
    BY <2>3 DEF Goal
<1>7. CASE CommitWrite(p)
  <2>1. At(p, "write") /\ txn = p /\ version' = version + 1 /\ Ends(p, "done")
    BY <1>7 DEF CommitWrite
  <2>2. /\ \A q \in Procs \ {p} : proc'[q] = proc[q]
        /\ proc'[p].end = "done"
    BY <1>0, <2>1, EndsAs
  <2>3. txn' = Free /\ ~InInit(p, "migrate")'
    BY <2>1, <2>2 DEF Ends, InInit, At
  <2>4. version < MaxWrites /\ ~(p = Serve /\ Up)
    BY <1>0, <2>1 DEF InInit, At, Up
  <2> QED
    BY <1>0, <2>1, <2>2, <2>3, <2>4
<1>8. CASE BeginWrite(p)
  <2>1. At(p, "write") /\ version < MaxWrites /\ txn = Free /\ txn' = p /\ version' = version /\ proc' = proc
    BY <1>8 DEF BeginWrite, db
  <2>2. At(p, "write")' /\ ~(p = Serve /\ Up)
    BY <2>1 DEF At, Up
  <2> QED
    BY <2>1, <2>2
<1> QED
  BY <1>1, <1>2, <1>3, <1>4, <1>6, <1>7, <1>8 DEF Opening, Working

(* A command that serves does nothing else.                                *)
LEMMA ServesOnly ==
    ASSUME NEW p \in Procs, Opening(p) \/ Working(p)
    PROVE  ~At(p, "serve")
<1>1. PICK h \in {"init", "lock", "read", "fixed", "write"} : At(p, h)
  BY DEF Opening, Working, Look, BeginImmediate, Migrate, Check, Create, CreateFails, Created, LookColumn,
         AlterColumn, Opened, Acquire, Read, Unreadable, EnsureFixedBy, BeginWrite, CommitWrite, Locked,
         NeedsWriter, InInit
<1> QED
  BY <1>1 DEF At

(* The transaction still has its holder after it.                          *)
LEMMA WriterCommand ==
    ASSUME SchemaInv, Writer, NEW p \in Procs, Opening(p) \/ Working(p) \/ Die(p)
    PROVE  Writer' /\ version' >= version
<1>0. /\ \A q \in Procs \ {p} : proc'[q] = proc[q]
      /\ txn' = txn \/ (txn = Free /\ txn' = p) \/ (txn = p /\ txn' = Free)
      /\ InInit(p, "migrate")' => txn' = p
      /\ txn' = p => InInit(p, "migrate")' \/ (At(p, "write")' /\ version' < MaxWrites)
      /\ version' = version \/ (txn = p /\ version' = version + 1 /\ version < MaxWrites)
  BY CommandMoves
<1>1. version \in 0 .. MaxWrites /\ MaxWrites \in Nat /\ txn \in Procs \cup {Free} /\ Free \notin Procs
  BY SchemaAssumption DEF Writer
<1>2. version' \in 0 .. MaxWrites /\ version' >= version /\ txn' \in Procs \cup {Free}
  BY <1>0, <1>1
<1>3. ASSUME NEW q \in Procs \ {p}
      PROVE  /\ InInit(q, "migrate")' <=> InInit(q, "migrate")
             /\ At(q, "write")' <=> At(q, "write")
             /\ q = Serve => (Up' <=> Up)
  BY <1>0 DEF InInit, At, Up
<1>4. ASSUME NEW q \in Procs, InInit(q, "migrate")' PROVE txn' = q
  BY <1>0, <1>1, <1>3, <1>4 DEF Writer
<1>5. ASSUME NEW q \in Procs, txn' = q
      PROVE  InInit(q, "migrate")' \/ (At(q, "write")' /\ version' < MaxWrites) \/ (q = Serve /\ Up')
  <2>1. CASE q = p
    BY <1>0, <1>5, <2>1
  <2>2. CASE q # p
    <3>1. txn = q /\ version' = version
      BY <1>0, <1>1, <1>5, <2>2
    <3> QED
      BY <1>3, <2>2, <3>1 DEF Writer
  <2> QED
    BY <2>1, <2>2
<1> QED
  BY <1>2, <1>4, <1>5 DEF Writer

(* A request that does not move is what it was, at a later version, too.   *)
LEMMA LaterVersion ==
    ASSUME NEW q, NEW v \in Nat, NEW x \in Nat, v <= x
    PROVE  /\ RequestOK(q, v) => RequestOK(q, x)
           /\ \A w \in Index : RequestOK(q, v) /\ Builds(q, w, disk) /\ Signs(q, w, v) => Signs(q, w, x)
<1>1. 0 .. v \subseteq 0 .. x
  OBVIOUS
<1>2. RequestOK(q, v) => RequestOK(q, x)
  BY <1>1 DEF RequestOK
<1>3. ASSUME NEW w \in Index, RequestOK(q, v), Builds(q, w, disk), Signs(q, w, v) PROVE Signs(q, w, x)
  <2>1. ASSUME q.step \in {"insert fts", "insert sig", "release", "retrieve", "drift"}, NEW c \in w.sig
        PROVE  q.at <= c[2] /\ c[2] <= x
    <3>1. w.sig \in SUBSET (Books \X (0 .. MaxWrites))
      BY <1>3, <2>1 DEF Builds, Index
    <3>2. c[2] \in 0 .. MaxWrites
      <4>1. c \in Books \X (0 .. MaxWrites)
        BY <2>1, <3>1
      <4> QED
        BY <4>1
    <3>3. q.at <= c[2] /\ c[2] <= v
      BY <1>3, <2>1 DEF Signs
    <3> QED
      BY <3>2, <3>3, SchemaAssumption
  <2>2. q.stale # {} => q.at < x
    <3>1. q.at \in 0 .. v
      BY <1>3 DEF RequestOK
    <3>2. q.stale # {} => q.at < v
      BY <1>3 DEF Signs
    <3> QED
      BY <3>1, <3>2
  <2> QED
    BY <2>1, <2>2 DEF Signs
<1> QED
  BY <1>2, <1>3

(* A command's step keeps what the server and its requests rely on.        *)
LEMMA CommandingKeeps == ServerInv /\ Commanding => ServerInv'
<1> SUFFICES ASSUME ServerInv, Commanding PROVE ServerInv'
  OBVIOUS
<1>1. PICK p \in Procs : Opening(p) \/ Working(p) \/ (p # Serve /\ Die(p))
  BY DEF Commanding
<1>2. SchemaInv' /\ Writer' /\ version' >= version
  BY <1>1, CommandKeeps, WriterCommand DEF ServerInv
<1>3. UNCHANGED <<disk, work, request>>
  BY DEF Commanding, serverVars
<1>4. /\ \A q \in Procs \ {p} : proc'[q] = proc[q]
      /\ txn' = txn \/ (txn = Free /\ txn' = p) \/ (txn = p /\ txn' = Free)
  BY <1>1, CommandMoves DEF ServerInv
<1>5. p = Serve => ~Up
  BY <1>1, ServesOnly DEF Up
<1>6. Serve \in Procs /\ Free \notin Procs
  BY ServerAssumption, SchemaAssumption
<1>7. Up => Up' /\ (Open' <=> Open)
  BY <1>4, <1>5, <1>6 DEF Up, At, Open
<1>8. Shared'
  BY <1>3, <1>7 DEF ServerInv, Shared, Index
<1>9. Owned'
  <2>1. CASE Up
    BY <1>3, <1>7, <2>1 DEF ServerInv, Owned
  <2>2. CASE ~Up /\ Up' /\ Open'
    <3>1. p = Serve
      BY <1>4, <1>6, <2>2 DEF Up, At
    <3>2. At(Serve, "write")' \/ InInit(Serve, "migrate")'
      BY <1>1, <2>2, <3>1, CommandMoves DEF ServerInv, Open
    <3> QED
      BY <2>2, <3>2 DEF Up, At, InInit
  <2> QED
    BY <2>1, <2>2 DEF Owned
<1>10. ASSUME NEW r \in Requests PROVE RequestOK(request[r], version)' /\ AloneOK(r)'
  <2>1. RequestOK(request[r], version) /\ AloneOK(r) /\ work \in Index /\ version \in Nat /\ version' \in Nat
    BY <1>2, SchemaAssumption DEF ServerInv, Shared, Writer
  <2>2. RequestOK(request[r], version')
    BY <1>2, <2>1, LaterVersion
  <2>3. AloneOK(r) => (request[r].alone /\ request[r].step # "idle" =>
            /\ \A q \in Requests \ {r} : request[q].step = "idle"
            /\ Builds(request[r], work, disk) /\ Signs(request[r], work, version'))
    BY <1>2, <2>1, LaterVersion DEF AloneOK
  <2>4. RequestOK(request[r], version)'
    BY <1>3, <2>2 DEF RequestOK, Record
  <2>5. /\ Builds(request[r], work, disk)' <=> Builds(request[r], work, disk)
        /\ Signs(request[r], work, version)' <=> Signs(request[r], work, version')
    BY <1>3 DEF Builds, Signs, Elems
  <2>6. AloneOK(r)'
    BY <1>3, <2>1, <2>3, <2>5 DEF AloneOK
  <2> QED
    BY <2>4, <2>6
<1> QED
  BY <1>2, <1>3, <1>8, <1>9, <1>10 DEF ServerInv, Requests

(* Nobody has asked anything yet.                                          *)
LEMMA ServerInvInit == ServerInit => ServerInv
<1> SUFFICES ASSUME ServerInit PROVE ServerInv
  OBVIOUS
<1>1. SchemaInv
  BY SchemaInvInit DEF ServerInit
<1>2. /\ request = [r \in Requests |-> Idle] /\ work = NoIndex /\ disk = NoIndex
      /\ version = 0 /\ txn = Free /\ MaxWrites \in Nat /\ Free \notin Procs /\ Serve \in Procs
  BY SchemaAssumption, ServerAssumption DEF ServerInit, SchemaInit
<1>3. ASSUME NEW p \in Procs PROVE ~InInit(p, "migrate")
  <2>1. PICK k \in Kinds : proc[p] = Fresh(k)
    BY DEF ServerInit, SchemaInit
  <2> QED
    BY <2>1 DEF InInit, Fresh
<1>4. Writer
  BY <1>2, <1>3 DEF Writer
<1>5. Shared /\ Owned
  BY <1>2 DEF Shared, Owned, Index, NoIndex, Open, Idle
<1>6. RequestOK(Idle, 0)
  BY DEF RequestOK, Record, Idle, ReqSteps
<1>7. ASSUME NEW r \in Requests PROVE RequestOK(request[r], version) /\ AloneOK(r)
  BY <1>2, <1>6 DEF AloneOK, Idle
<1> QED
  BY <1>1, <1>2, <1>4, <1>5, <1>7 DEF ServerInv

(* The server dies, and what its connection had not committed with it.     *)
LEMMA ServerDiesKeeps == ServerInv /\ ServerDies => ServerInv'
<1> SUFFICES ASSUME ServerInv, ServerDies PROVE ServerInv'
  OBVIOUS
<1>1. Serve \in Procs /\ Die(Serve) /\ work' = disk /\ disk' = disk /\ request' = [r \in Requests |-> Idle]
  BY ServerAssumption DEF ServerDies
<1>2. SchemaInv' /\ Writer' /\ version' >= version
  BY <1>1, CommandKeeps, WriterCommand DEF ServerInv
<1>3. proc'[Serve].end = "killed"
  <2>1. SchemaTypes
    BY DEF ServerInv, SchemaInv
  <2> QED
    BY <1>1, <2>1, EndsAs DEF Die
<1>4. ~Up'
  BY <1>3 DEF Up, At
<1>5. Shared' /\ Owned'
  BY <1>1, <1>4 DEF ServerInv, Shared, Owned, Index, Idle
<1>6. version' \in Nat /\ RequestOK(Idle, version')
  BY <1>2, SchemaAssumption DEF Writer, RequestOK, Record, Idle, ReqSteps
<1>7. ASSUME NEW r \in Requests PROVE RequestOK(request[r], version)' /\ AloneOK(r)'
  <2>1. request'[r] = Idle
    BY <1>1
  <2>2. RequestOK(request[r], version)' <=> RequestOK(request'[r], version')
    BY DEF RequestOK, Record
  <2> QED
    BY <1>6, <2>1, <2>2 DEF AloneOK, Idle
<1> QED
  BY <1>1, <1>2, <1>5, <1>7 DEF ServerInv, Requests
----
(* The requests. *)

(* What a request may do to the connection keeps it.                       *)
LEMMA ConnectionKeeps ==
    ASSUME Writer, Shared, Up, UNCHANGED <<version, proc>>, NEW index \in Index,
           Ddl(index) \/ Insert(index) \/ Commit \/ Rollback \/ UNCHANGED <<disk, work, txn>>
    PROVE  Writer' /\ work' \in Index /\ disk' \in Index /\ Up' /\ (~Open' => work' = disk')
<1>1. Up' /\ work \in Index /\ disk \in Index /\ (~Open => work = disk) /\ Serve \in Procs /\ Free \notin Procs
  BY ServerAssumption, SchemaAssumption DEF Up, At, Shared
<1>2. \/ txn' = txn
      \/ txn \in {Free, Serve} /\ txn' \in {Free, Serve}
  BY DEF Ddl, Insert, Commit, Rollback, CanWrite, Open
<1>3. Writer'
  <2>1. ASSUME NEW p \in Procs
        PROVE  /\ InInit(p, "migrate")' <=> InInit(p, "migrate")
               /\ At(p, "write")' <=> At(p, "write")
               /\ InInit(p, "migrate") => p # Serve
    BY DEF InInit, At, Up
  <2>2. txn' \in Procs \cup {Free}
    BY <1>1, <1>2 DEF Writer
  <2>3. ASSUME NEW p \in Procs, InInit(p, "migrate")' PROVE txn' = p
    BY <1>1, <1>2, <2>1, <2>3 DEF Writer
  <2>4. ASSUME NEW p \in Procs, txn' = p
        PROVE  InInit(p, "migrate")' \/ (At(p, "write")' /\ version' < MaxWrites) \/ (p = Serve /\ Up')
    BY <1>1, <1>2, <2>1, <2>4 DEF Writer
  <2> QED
    BY <2>2, <2>3, <2>4 DEF Writer
<1>4. work' \in Index /\ disk' \in Index /\ (~Open' => work' = disk')
  <2>1. CASE Ddl(index)
    BY <1>1, <2>1 DEF Ddl, Open
  <2>2. CASE Insert(index)
    BY <1>1, <2>2 DEF Insert, Open
  <2>3. CASE Commit \/ Rollback \/ UNCHANGED <<disk, work, txn>>
    BY <1>1, <2>3 DEF Commit, Rollback, Open
  <2> QED
    BY <2>1, <2>2, <2>3
<1> QED
  BY <1>1, <1>3, <1>4

(* A request that is not alone leaves nothing to show of the others, which *)
(* are not alone either.                                                   *)
LEMMA RequestKeeps ==
    ASSUME ServerInv, NEW r \in Requests, Up, request[r].step # "idle",
           UNCHANGED <<tables, cols, owner, version, born, lock, proc>>,
           NEW q, request' = [request EXCEPT ![r] = q], RequestOK(q, version),
           q.alone /\ q.step # "idle" => request[r].alone, request[r].torn => q.torn,
           r \in Rest => q.step # "idle" \/ Rollback,
           NEW index \in Index,
           \/ Ddl(index) \/ Commit \/ Rollback \/ UNCHANGED <<disk, work, txn>>
           \/ Insert(index) /\ q.step \in {"insert fts", "insert sig"},
           Commit \/ Rollback \/ ~Open \/ q.torn \/ r \in Rest \/ q.step \in {"insert fts", "insert sig"}
              \/ request[r].step \notin {"insert fts", "insert sig"},
           q.alone /\ q.step # "idle" /\ Builds(request[r], work, disk) /\ Signs(request[r], work, version) =>
              Builds(q, work', disk') /\ Signs(q, work', version)
    PROVE  ServerInv'
<1>1. SchemaInv'
  BY SchemaInvStays DEF ServerInv
<1>2. Writer' /\ work' \in Index /\ disk' \in Index /\ Up' /\ (~Open' => work' = disk')
  BY ConnectionKeeps DEF ServerInv
<1>3. /\ request' = [x \in Requests |-> request'[x]] /\ request'[r] = q
      /\ \A x \in Requests \ {r} : request'[x] = request[x]
  BY DEF ServerInv
<1>4. Shared'
  BY <1>2 DEF Shared
<1>5. Owned'
  <2> SUFFICES ASSUME Open'
               PROVE  \/ \E x \in Rest : request'[x].step # "idle"
                      \/ \E m \in Mcp : request'[m].step \in {"insert fts", "insert sig"} \/ request'[m].torn
    BY DEF Owned
  <2>1. ~Commit /\ ~Rollback
    BY SchemaAssumption, ServerAssumption DEF Commit, Rollback, Open
  <2>2. CASE Insert(index) /\ q.step \in {"insert fts", "insert sig"}
    <3>1. request'[r].step \in {"insert fts", "insert sig"}
      BY <1>3, <2>2
    <3> QED
      BY <3>1 DEF Requests
  <2>3. CASE Open
    <3>1. CASE r \in Rest
      BY <1>3, <2>1, <3>1
    <3>2. CASE r \notin Rest
      <4>1. CASE \E x \in Rest : request[x].step # "idle"
        BY <1>3, <3>2, <4>1 DEF Requests
      <4>2. CASE \E m \in Mcp : request[m].step \in {"insert fts", "insert sig"} \/ request[m].torn
        BY <1>3, <2>1, <2>3, <3>2, <4>2 DEF Requests
      <4> QED
        BY <2>3, <4>1, <4>2 DEF ServerInv, Owned
    <3> QED
      BY <3>1, <3>2
  <2>4. (Insert(index) /\ q.step \in {"insert fts", "insert sig"}) \/ Open
    BY <2>1 DEF Ddl, Open
  <2> QED
    BY <2>2, <2>3, <2>4
<1>6. ASSUME NEW x \in Requests PROVE RequestOK(request[x], version)' /\ AloneOK(x)'
  <2>1. RequestOK(request[x], version)' <=> RequestOK(request'[x], version)
    BY DEF RequestOK, Record
  <2>2. /\ Builds(request[x], work, disk)' <=> Builds(request'[x], work', disk')
        /\ Signs(request[x], work, version)' <=> Signs(request'[x], work', version)
    BY DEF Builds, Signs, Elems
  <2>3. CASE x = r
    <3>1. RequestOK(request[x], version)'
      BY <1>3, <2>1, <2>3
    <3>2. ASSUME q.alone, q.step # "idle"
          PROVE  /\ \A y \in Requests \ {r} : request'[y].step = "idle"
                 /\ Builds(q, work', disk') /\ Signs(q, work', version)
      BY <1>3, <3>2 DEF ServerInv, AloneOK
    <3>3. AloneOK(x)'
      BY <1>3, <2>2, <2>3, <3>2 DEF AloneOK
    <3> QED
      BY <3>1, <3>3
  <2>4. CASE x # r
    <3>1. request'[x] = request[x] /\ r \in Requests \ {x}
      BY <1>3, <2>4
    <3>2. RequestOK(request[x], version)'
      BY <2>1, <3>1 DEF ServerInv
    <3>3. ~(request[x].alone /\ request[x].step # "idle")
      BY <3>1 DEF ServerInv, AloneOK
    <3>4. AloneOK(x)'
      BY <3>1, <3>3 DEF AloneOK
    <3> QED
      BY <3>2, <3>4
  <2> QED
    BY <2>3, <2>4
<1> QED
  BY <1>1, <1>2, <1>3, <1>4, <1>5, <1>6 DEF ServerInv, Requests

(* The record of a request that moved to step s, with what the move set.   *)
Moved(q, s, todo, seen, stale, error, torn) ==
    [step |-> s, kind |-> q.kind, todo |-> todo, seen |-> seen, stale |-> stale,
     alone |-> q.alone, at |-> q.at, error |-> error, torn |-> torn]

(* An update of one field.                                                 *)
LEMMA OneUpdate ==
    ASSUME NEW q, Record(q), NEW x
    PROVE  /\ [q EXCEPT !.step = x] = Moved(q, x, q.todo, q.seen, q.stale, q.error, q.torn)
           /\ [q EXCEPT !.todo = x] = Moved(q, q.step, x, q.seen, q.stale, q.error, q.torn)
           /\ [q EXCEPT !.seen = x] = Moved(q, q.step, q.todo, x, q.stale, q.error, q.torn)
           /\ [q EXCEPT !.stale = x] = Moved(q, q.step, q.todo, q.seen, x, q.error, q.torn)
           /\ [q EXCEPT !.error = x] = Moved(q, q.step, q.todo, q.seen, q.stale, x, q.torn)
           /\ [q EXCEPT !.torn = x] = Moved(q, q.step, q.todo, q.seen, q.stale, q.error, x)
<1>1. DOMAIN q = {"step", "kind", "todo", "seen", "stale", "alone", "at", "error", "torn"} /\ q = [x0 \in DOMAIN q |-> q[x0]]
  BY DEF Record
<1>2. [q EXCEPT !.step = x] = Moved(q, x, q.todo, q.seen, q.stale, q.error, q.torn)
  BY <1>1 DEF Moved
<1>3. [q EXCEPT !.todo = x] = Moved(q, q.step, x, q.seen, q.stale, q.error, q.torn)
  BY <1>1 DEF Moved
<1>4. [q EXCEPT !.seen = x] = Moved(q, q.step, q.todo, x, q.stale, q.error, q.torn)
  BY <1>1 DEF Moved
<1>5. [q EXCEPT !.stale = x] = Moved(q, q.step, q.todo, q.seen, x, q.error, q.torn)
  BY <1>1 DEF Moved
<1>6. [q EXCEPT !.error = x] = Moved(q, q.step, q.todo, q.seen, q.stale, x, q.torn)
  BY <1>1 DEF Moved
<1>7. [q EXCEPT !.torn = x] = Moved(q, q.step, q.todo, q.seen, q.stale, q.error, x)
  BY <1>1 DEF Moved
<1> QED
  BY <1>2, <1>3, <1>4, <1>5, <1>6, <1>7

(* The fields of such a record.                                            *)
LEMMA MovedFields ==
    ASSUME NEW q, NEW s, NEW todo, NEW seen, NEW stale, NEW error, NEW torn, NEW m,
           m = Moved(q, s, todo, seen, stale, error, torn)
    PROVE  /\ Record(m) /\ m.step = s /\ m.kind = q.kind /\ m.todo = todo /\ m.seen = seen /\ m.stale = stale
           /\ m.alone = q.alone /\ m.at = q.at /\ m.error = error /\ m.torn = torn
BY DEF Moved, Record

(* The updates of the actions: what is left to do ...                      *)
LEMMA UpdateTodo ==
    ASSUME NEW q, Record(q), NEW s, NEW todo
    PROVE  [q EXCEPT !.step = s, !.todo = todo] = Moved(q, s, todo, q.seen, q.stale, q.error, q.torn)
<1> DEFINE one   == [q EXCEPT !.step = s]
           two   == [one EXCEPT !.todo = todo]
<1>0. [q EXCEPT !.step = s, !.todo = todo] = two
  OBVIOUS
<1>1. one = Moved(q, s, q.todo, q.seen, q.stale, q.error, q.torn)
  BY OneUpdate
<1> HIDE DEF one, two
<1>2. two = Moved(q, s, todo, q.seen, q.stale, q.error, q.torn)
  <2>1. Record(one)
    BY <1>1, MovedFields
  <2>2. two = Moved(one, one.step, todo, one.seen, one.stale, one.error, one.torn)
    BY <2>1, OneUpdate, Zenon DEF two
  <2>3. Moved(one, one.step, todo, one.seen, one.stale, one.error, one.torn) = Moved(q, s, todo, q.seen, q.stale, q.error, q.torn)
    BY <1>1, MovedFields DEF Moved
  <2> QED
    BY <2>2, <2>3
<1> QED
  BY <1>0, <1>2

(* ... what was found ...                                                  *)
LEMMA UpdateSeen ==
    ASSUME NEW q, Record(q), NEW s, NEW todo, NEW seen
    PROVE  [q EXCEPT !.step = s, !.todo = todo, !.seen = seen] = Moved(q, s, todo, seen, q.stale, q.error, q.torn)
<1> DEFINE one   == [q EXCEPT !.step = s]
           two   == [one EXCEPT !.todo = todo]
           three == [two EXCEPT !.seen = seen]
<1>0. [q EXCEPT !.step = s, !.todo = todo, !.seen = seen] = three
  OBVIOUS
<1>1. one = Moved(q, s, q.todo, q.seen, q.stale, q.error, q.torn)
  BY OneUpdate
<1> HIDE DEF one, two, three
<1>2. two = Moved(q, s, todo, q.seen, q.stale, q.error, q.torn)
  <2>1. Record(one)
    BY <1>1, MovedFields
  <2>2. two = Moved(one, one.step, todo, one.seen, one.stale, one.error, one.torn)
    BY <2>1, OneUpdate, Zenon DEF two
  <2>3. Moved(one, one.step, todo, one.seen, one.stale, one.error, one.torn) = Moved(q, s, todo, q.seen, q.stale, q.error, q.torn)
    BY <1>1, MovedFields DEF Moved
  <2> QED
    BY <2>2, <2>3
<1>3. three = Moved(q, s, todo, seen, q.stale, q.error, q.torn)
  <2>1. Record(two)
    BY <1>2, MovedFields
  <2>2. three = Moved(two, two.step, two.todo, seen, two.stale, two.error, two.torn)
    BY <2>1, OneUpdate, Zenon DEF three
  <2>3. Moved(two, two.step, two.todo, seen, two.stale, two.error, two.torn) = Moved(q, s, todo, seen, q.stale, q.error, q.torn)
    BY <1>2, MovedFields DEF Moved
  <2> QED
    BY <2>2, <2>3
<1> QED
  BY <1>0, <1>3

(* ... what is stale ...                                                   *)
LEMMA UpdateStale ==
    ASSUME NEW q, Record(q), NEW todo, NEW stale
    PROVE  [q EXCEPT !.todo = todo, !.stale = stale] = Moved(q, q.step, todo, q.seen, stale, q.error, q.torn)
<1> DEFINE one   == [q EXCEPT !.todo = todo]
           two   == [one EXCEPT !.stale = stale]
<1>0. [q EXCEPT !.todo = todo, !.stale = stale] = two
  OBVIOUS
<1>1. one = Moved(q, q.step, todo, q.seen, q.stale, q.error, q.torn)
  BY OneUpdate
<1> HIDE DEF one, two
<1>2. two = Moved(q, q.step, todo, q.seen, stale, q.error, q.torn)
  <2>1. Record(one)
    BY <1>1, MovedFields
  <2>2. two = Moved(one, one.step, one.todo, one.seen, stale, one.error, one.torn)
    BY <2>1, OneUpdate, Zenon DEF two
  <2>3. Moved(one, one.step, one.todo, one.seen, stale, one.error, one.torn) = Moved(q, q.step, todo, q.seen, stale, q.error, q.torn)
    BY <1>1, MovedFields DEF Moved
  <2> QED
    BY <2>2, <2>3
<1> QED
  BY <1>0, <1>2

(* ... that it failed.                                                     *)
LEMMA UpdateError ==
    ASSUME NEW q, Record(q), NEW s, NEW error
    PROVE  [q EXCEPT !.step = s, !.error = error] = Moved(q, s, q.todo, q.seen, q.stale, error, q.torn)
<1> DEFINE one   == [q EXCEPT !.step = s]
           two   == [one EXCEPT !.error = error]
<1>0. [q EXCEPT !.step = s, !.error = error] = two
  OBVIOUS
<1>1. one = Moved(q, s, q.todo, q.seen, q.stale, q.error, q.torn)
  BY OneUpdate
<1> HIDE DEF one, two
<1>2. two = Moved(q, s, q.todo, q.seen, q.stale, error, q.torn)
  <2>1. Record(one)
    BY <1>1, MovedFields
  <2>2. two = Moved(one, one.step, one.todo, one.seen, one.stale, error, one.torn)
    BY <2>1, OneUpdate, Zenon DEF two
  <2>3. Moved(one, one.step, one.todo, one.seen, one.stale, error, one.torn) = Moved(q, s, q.todo, q.seen, q.stale, error, q.torn)
    BY <1>1, MovedFields DEF Moved
  <2> QED
    BY <2>2, <2>3
<1> QED
  BY <1>0, <1>2

(* A request in flight, and what it may rely on when it is alone.          *)
LEMMA InFlight ==
    ASSUME ServerInv, NEW r \in Requests, NEW s, RequestAt(r, s)
    PROVE  /\ Up /\ request[r].step = s /\ Record(request[r]) /\ RequestOK(request[r], version)
           /\ work \in Index /\ work = [fts |-> work.fts, sig |-> work.sig]
           /\ work.fts \in (SUBSET Books) \cup {Gone} /\ work.sig \in (SUBSET (Books \X (0 .. MaxWrites))) \cup {Gone}
           /\ version \in 0 .. MaxWrites /\ version \in Nat /\ request[r].at <= version /\ version <= version
<1>1. Up /\ request[r].step = s /\ RequestOK(request[r], version) /\ work \in Index
  BY DEF ServerInv, RequestAt, Shared
<1>2. Record(request[r])
  BY <1>1 DEF RequestOK
<1>3. version \in 0 .. MaxWrites /\ version \in Nat
  BY SchemaAssumption DEF ServerInv, Writer
<1>4. /\ work = [fts |-> work.fts, sig |-> work.sig]
      /\ work.fts \in (SUBSET Books) \cup {Gone} /\ work.sig \in (SUBSET (Books \X (0 .. MaxWrites))) \cup {Gone}
  BY <1>1 DEF Index
<1>5. request[r].at <= version /\ version <= version
  <2>1. request[r].at \in 0 .. version
    BY <1>1 DEF RequestOK
  <2> QED
    BY <1>3, <2>1
<1> QED
  BY <1>1, <1>2, <1>3, <1>4, <1>5

(* A statement of a request in flight that does not end it.                *)
LEMMA StatementOf ==
    ASSUME ServerInv, NEW r \in Requests, Up, request[r].step \notin {"idle", "close"},
           NEW q, request' = [request EXCEPT ![r] = q], Record(q), q.step \in ReqSteps \ {"idle"},
           q.alone = request[r].alone, q.torn = request[r].torn, q.at = request[r].at, q.error = request[r].error,
           q.step \in {"insert fts", "insert sig"} => q.todo \in Seq(Books),
           q.step = "insert sig" => q.todo # <<>>,
           UNCHANGED <<tables, cols, owner, version, born, lock, proc>>,
           NEW index \in Index,
           \/ Ddl(index) \/ Commit \/ Rollback \/ UNCHANGED <<disk, work, txn>>
           \/ Insert(index) /\ q.step \in {"insert fts", "insert sig"},
           Commit \/ q.step \in {"insert fts", "insert sig"} \/ request[r].step \notin {"insert fts", "insert sig"},
           request[r].alone /\ Builds(request[r], work, disk) /\ Signs(request[r], work, version) =>
              Builds(q, work', disk') /\ Signs(q, work', version)
    PROVE  ServerInv'
<1>1. RequestOK(request[r], version)
  BY DEF ServerInv
<1>2. RequestOK(q, version)
  BY <1>1 DEF RequestOK
<1>3. /\ request[r].step # "idle" /\ q.step # "idle" /\ (q.alone => request[r].alone) /\ (request[r].torn => q.torn)
      /\ q.alone /\ Builds(request[r], work, disk) /\ Signs(request[r], work, version) =>
            Builds(q, work', disk') /\ Signs(q, work', version)
  OBVIOUS
<1> QED
  BY <1>2, <1>3, RequestKeeps

(* A request that only steps on.                                           *)
LEMMA StepsTo ==
    ASSUME ServerInv, NEW r \in Requests, NEW s, Steps(r, s)
    PROVE  request' = [request EXCEPT ![r] = Moved(request[r], s, request[r].todo, request[r].seen, request[r].stale,
                                                   request[r].error, request[r].torn)]
<1>1. request' = [request EXCEPT ![r] = [request[r] EXCEPT !.step = s]]
  BY DEF Steps
<1>2. Record(request[r])
  BY DEF ServerInv, RequestOK
<1> QED
  BY <1>1, <1>2, OneUpdate

(* Dropping and creating the tables, statement by statement.               *)
LEMMA RebuildKeeps ==
    ASSUME ServerInv, NEW r \in Requests, DropFts(r) \/ DropSig(r) \/ CreateFts(r)
    PROVE  ServerInv'
<1> DEFINE q0 == request[r]
<1>1. ASSUME NEW at0 \in {"drop fts", "drop sig", "create fts"}, RequestAt(r, at0), NEW s \in {"drop sig", "create fts", "create sig"},
             NEW index \in Index, Ddl(index), Steps(r, s), Others' = Others,
             q0.alone /\ Builds(q0, work, disk) =>
                /\ s \in {"drop sig", "create fts"} => index.fts = Gone
                /\ s \in {"create fts", "create sig"} => index.sig = Gone
                /\ s = "create sig" => index.fts # Gone
      PROVE  ServerInv'
  <2>1. PICK q : q = Moved(request[r], s, request[r].todo, request[r].seen, request[r].stale, request[r].error, request[r].torn)
    OBVIOUS
  <2>2. request' = [request EXCEPT ![r] = q]
    BY <1>1, <2>1, StepsTo
  <2>3. /\ Record(q) /\ q.step = s /\ q.alone = q0.alone /\ q.at = q0.at /\ q.stale = q0.stale
        /\ q.error = q0.error /\ q.torn = q0.torn
    BY <2>1 DEF Moved, Record
  <2>4. work' = index
    BY <1>1 DEF Ddl
  <2>5. q0.alone /\ Builds(q0, work, disk) /\ Signs(q0, work, version) => Builds(q, work', disk') /\ Signs(q, work', version)
    BY <1>1, <2>3, <2>4 DEF Builds, Signs
  <2>6. UNCHANGED <<tables, cols, owner, version, born, lock, proc>>
    BY <1>1 DEF Others, db
  <2>7. /\ s \in ReqSteps \ {"idle"} /\ Up /\ q0.step = at0 /\ at0 \notin {"idle", "close", "insert fts", "insert sig"}
    BY <1>1, InFlight DEF ReqSteps
  <2> HIDE DEF q0
  <2> QED
    BY <1>1, <2>2, <2>3, <2>5, <2>6, <2>7, StatementOf DEF q0
<1>2. CASE DropFts(r)
  <2> DEFINE index == [work EXCEPT !.fts = Gone]
  <2>1. RequestAt(r, "drop fts") /\ Ddl(index) /\ Steps(r, "drop sig") /\ Others' = Others
    BY <1>2 DEF DropFts
  <2>2. work \in Index
    BY <2>1, InFlight
  <2>3. index \in Index /\ index.fts = Gone
    BY <2>2 DEF Index
  <2> HIDE DEF index
  <2> QED
    BY <1>1, <2>1, <2>3
<1>3. CASE DropSig(r)
  <2> DEFINE index == [work EXCEPT !.sig = Gone]
  <2>1. RequestAt(r, "drop sig") /\ Ddl(index) /\ Steps(r, "create fts") /\ Others' = Others
    BY <1>3 DEF DropSig
  <2>2. work \in Index /\ q0.step = "drop sig"
    BY <2>1, InFlight
  <2>3. index \in Index /\ index.sig = Gone /\ index.fts = work.fts
    BY <2>2 DEF Index
  <2>4. Builds(q0, work, disk) => work.fts = Gone
    BY <2>2 DEF Builds
  <2> HIDE DEF index
  <2> QED
    BY <1>1, <2>1, <2>3, <2>4
<1>4. CASE CreateFts(r)
  <2> DEFINE index == [work EXCEPT !.fts = {}]
  <2>1. RequestAt(r, "create fts") /\ Ddl(index) /\ Steps(r, "create sig") /\ Others' = Others
    BY <1>4 DEF CreateFts
  <2>2. work \in Index /\ q0.step = "create fts"
    BY <2>1, InFlight
  <2>3. index \in Index /\ index.sig = work.sig /\ index.fts = {}
    BY <2>2 DEF Index
  <2>4. Builds(q0, work, disk) => work.sig = Gone
    BY <2>2 DEF Builds
  <2>5. {} # Gone
    BY ServerAssumption
  <2> HIDE DEF index
  <2> QED
    BY <1>1, <2>1, <2>3, <2>4, <2>5
<1> QED
  BY <1>2, <1>3, <1>4

(* The signatures' table is created, and the folder is what is left to do. *)
LEMMA CreateSigKeeps ==
    ASSUME ServerInv, NEW r \in Requests, CreateSig(r)
    PROVE  ServerInv'
<1> DEFINE q0 == request[r]
           index == [work EXCEPT !.sig = {}]
<1>1. RequestAt(r, "create sig") /\ Ddl(index) /\ UNCHANGED Others
      /\ request' = [request EXCEPT ![r].step = "insert fts", ![r].todo = Playbooks]
  BY DEF CreateSig
<1>2. /\ Up /\ q0.step = "create sig" /\ Record(q0) /\ work \in Index
      /\ work.fts \in (SUBSET Books) \cup {Gone}
  BY <1>1, InFlight
<1>3. PICK q : q = Moved(request[r], "insert fts", Playbooks, request[r].seen, request[r].stale, request[r].error, request[r].torn)
  OBVIOUS
<1>4. request' = [request EXCEPT ![r] = q]
  <2>1. request' = [request EXCEPT ![r] = [request[r] EXCEPT !.step = "insert fts", !.todo = Playbooks]]
    BY <1>1 DEF ServerInv
  <2>2. q = [request[r] EXCEPT !.step = "insert fts", !.todo = Playbooks]
    BY <1>2, <1>3, UpdateTodo
  <2> QED
    BY <2>1, <2>2
<1>5. /\ Record(q) /\ q.step = "insert fts" /\ q.todo = Playbooks /\ q.alone = q0.alone /\ q.at = q0.at /\ q.stale = q0.stale
      /\ q.error = q0.error /\ q.torn = q0.torn
  BY <1>3 DEF Moved, Record
<1>6. index \in Index /\ index.sig = {} /\ index.fts = work.fts /\ work' = index
  BY <1>1, <1>2 DEF Index, Ddl
<1> HIDE DEF index
<1>7. {} # Gone /\ Playbooks \in Seq(Books) /\ Hits \subseteq Elems(Playbooks)
  BY ServerAssumption DEF Elems, Books
<1>8. Builds(q0, work, disk) => work.fts # Gone
  BY <1>2 DEF Builds
<1>9. q0.alone /\ Builds(q0, work, disk) /\ Signs(q0, work, version) => Builds(q, work', disk') /\ Signs(q, work', version)
  <2>1. Builds(q0, work, disk) => Builds(q, work', disk')
    BY <1>5, <1>6, <1>7, <1>8 DEF Builds
  <2>2. Signs(q0, work, version) => Signs(q, work', version)
    BY <1>5, <1>6 DEF Signs
  <2> QED
    BY <2>1, <2>2
<1>10. UNCHANGED <<tables, cols, owner, version, born, lock, proc>> /\ q.step \in ReqSteps \ {"idle"}
  BY <1>1, <1>5 DEF Others, db, ReqSteps
<1> QED
  BY <1>1, <1>2, <1>4, <1>5, <1>6, <1>7, <1>9, <1>10, StatementOf

(* A playbook's text is inserted.                                          *)
LEMMA InsertFtsKeeps ==
    ASSUME ServerInv, NEW r \in Requests, InsertFts(r)
    PROVE  ServerInv'
<1> DEFINE q0 == request[r]
           new == work.fts \cup {Head(q0.todo)}
           index == [work EXCEPT !.fts = new]
<1>1. /\ RequestAt(r, "insert fts") /\ Insert(index) /\ UNCHANGED Others /\ Steps(r, "insert sig")
      /\ q0.todo # <<>> /\ work.fts # Gone
  BY DEF InsertFts
<1>2. /\ Up /\ q0.step = "insert fts" /\ Record(q0) /\ work \in Index
      /\ work.fts \in (SUBSET Books) \cup {Gone} /\ RequestOK(q0, version)
  BY <1>1, InFlight
<1>3. PICK q : q = Moved(request[r], "insert sig", request[r].todo, request[r].seen, request[r].stale, request[r].error, request[r].torn)
  OBVIOUS
<1>4. request' = [request EXCEPT ![r] = q]
  BY <1>1, <1>3, StepsTo
<1>5. /\ Record(q) /\ q.step = "insert sig" /\ q.todo = q0.todo /\ q.alone = q0.alone /\ q.at = q0.at /\ q.stale = q0.stale
      /\ q.error = q0.error /\ q.torn = q0.torn
  BY <1>3 DEF Moved, Record
<1>6. q0.todo \in Seq(Books) /\ Head(q0.todo) \in Books /\ Elems(q0.todo) = {Head(q0.todo)} \cup Elems(Tail(q0.todo))
  <2>1. q0.todo \in Seq(Books)
    BY <1>2 DEF RequestOK
  <2> QED
    BY <1>1, <2>1, ElemsTail
<1>7. new \in SUBSET Books /\ new # Gone
  BY <1>1, <1>2, <1>6, ServerAssumption
<1> HIDE DEF new
<1>8. index \in Index /\ index.sig = work.sig /\ index.fts = new /\ work' = index
  BY <1>1, <1>2, <1>7 DEF Index, Insert
<1> HIDE DEF index
<1>9. q0.alone /\ Builds(q0, work, disk) /\ Signs(q0, work, version) => Builds(q, work', disk') /\ Signs(q, work', version)
  <2>1. Builds(q0, work, disk) => work.sig # Gone /\ Hits \subseteq work.fts \cup Elems(q0.todo)
    BY <1>2 DEF Builds
  <2>2. Hits \subseteq work.fts \cup Elems(q0.todo) => Hits \subseteq new \cup Elems(Tail(q0.todo))
    BY <1>6 DEF new
  <2>3. Builds(q0, work, disk) => Builds(q, work', disk')
    BY <1>5, <1>7, <1>8, <2>1, <2>2 DEF Builds
  <2>4. Signs(q0, work, version) => Signs(q, work', version)
    BY <1>2, <1>5, <1>8 DEF Signs
  <2> QED
    BY <2>3, <2>4
<1>10. UNCHANGED <<tables, cols, owner, version, born, lock, proc>> /\ q.step \in ReqSteps \ {"idle"}
  BY <1>1, <1>5 DEF Others, db, ReqSteps
<1> QED
  BY <1>1, <1>2, <1>4, <1>5, <1>6, <1>8, <1>9, <1>10, StatementOf

(* A playbook's signature is inserted, of the row as it is now.            *)
LEMMA InsertSigKeeps ==
    ASSUME ServerInv, NEW r \in Requests, InsertSig(r)
    PROVE  ServerInv'
<1> DEFINE q0 == request[r]
           new == work.sig \cup {<<Head(q0.todo), version>>}
           index == [work EXCEPT !.sig = new]
<1>1. /\ RequestAt(r, "insert sig") /\ Insert(index) /\ UNCHANGED Others /\ work.sig # Gone
      /\ request' = [request EXCEPT ![r].step = "insert fts", ![r].todo = Tail(@)]
  BY DEF InsertSig
<1>2. /\ Up /\ q0.step = "insert sig" /\ Record(q0) /\ work \in Index /\ version \in 0 .. MaxWrites
      /\ work.sig \in (SUBSET (Books \X (0 .. MaxWrites))) \cup {Gone} /\ RequestOK(q0, version) /\ version \in Nat
  BY <1>1, InFlight
<1>3. PICK q : q = Moved(request[r], "insert fts", Tail(request[r].todo), request[r].seen, request[r].stale, request[r].error, request[r].torn)
  OBVIOUS
<1>4. request' = [request EXCEPT ![r] = q]
  <2>1. request' = [request EXCEPT ![r] = [request[r] EXCEPT !.step = "insert fts", !.todo = Tail(request[r].todo)]]
    BY <1>1, <1>2 DEF ServerInv, Record
  <2>2. q = [request[r] EXCEPT !.step = "insert fts", !.todo = Tail(request[r].todo)]
    BY <1>2, <1>3, UpdateTodo
  <2> QED
    BY <2>1, <2>2
<1>5. /\ Record(q) /\ q.step = "insert fts" /\ q.todo = Tail(q0.todo) /\ q.alone = q0.alone /\ q.at = q0.at /\ q.stale = q0.stale
      /\ q.error = q0.error /\ q.torn = q0.torn
  BY <1>3 DEF Moved, Record
<1>6. Head(q0.todo) \in Books /\ Tail(q0.todo) \in Seq(Books) /\ q0.at <= version
  <2>1. q0.todo \in Seq(Books) /\ q0.todo # <<>>
    BY <1>2 DEF RequestOK
  <2>2. q0.at <= version
    BY <1>1, InFlight
  <2>3. Head(q0.todo) \in Books /\ Tail(q0.todo) \in Seq(Books)
    BY <2>1, ElemsTail
  <2> QED
    BY <2>2, <2>3
<1>7. new \in SUBSET (Books \X (0 .. MaxWrites)) /\ new # Gone
  <2>1. work.sig \in SUBSET (Books \X (0 .. MaxWrites)) /\ <<Head(q0.todo), version>> \in Books \X (0 .. MaxWrites)
    BY <1>1, <1>2, <1>6
  <2>2. new \in SUBSET (Books \X (0 .. MaxWrites))
    BY <2>1
  <2> HIDE DEF new
  <2> QED
    BY <2>2, ServerAssumption
<1>8. \A c \in new : c \in work.sig \/ c[2] = version
  OBVIOUS
<1> HIDE DEF new
<1>9. index \in Index /\ index.sig = new /\ index.fts = work.fts /\ work' = index
  BY <1>1, <1>2, <1>7 DEF Index, Insert
<1> HIDE DEF index
<1>10. q0.alone /\ Builds(q0, work, disk) /\ Signs(q0, work, version) => Builds(q, work', disk') /\ Signs(q, work', version)
  <2>1. Builds(q0, work, disk) => work.fts # Gone /\ Hits \subseteq work.fts \cup Elems(Tail(q0.todo))
    BY <1>2 DEF Builds
  <2>2. Builds(q0, work, disk) => Builds(q, work', disk')
    BY <1>5, <1>7, <1>9, <2>1 DEF Builds
  <2>3. Signs(q0, work, version) => Signs(q, work', version)
    <3> SUFFICES ASSUME Signs(q0, work, version) PROVE Signs(q, work', version)
      OBVIOUS
    <3>1. \A c \in work.sig : q.at <= c[2] /\ c[2] <= version
      BY <1>2, <1>5 DEF Signs
    <3>2. \A c \in work'.sig : q.at <= c[2] /\ c[2] <= version
      <4>1. q.at <= version /\ version <= version
        BY <1>1, <1>5, InFlight
      <4> QED
        BY <1>8, <1>9, <3>1, <4>1
    <3>3. q.stale # {} => q.at < version
      BY <1>5 DEF Signs
    <3> QED
      BY <3>2, <3>3 DEF Signs
  <2> QED
    BY <2>2, <2>3
<1>11. UNCHANGED <<tables, cols, owner, version, born, lock, proc>> /\ q.step \in ReqSteps \ {"idle"}
  BY <1>1, <1>5 DEF Others, db, ReqSteps
<1>12. /\ request[r].step = "insert sig" /\ Insert(index) /\ q.step = "insert fts" /\ q.todo \in Seq(Books)
       /\ request[r].alone /\ Builds(request[r], work, disk) /\ Signs(request[r], work, version) =>
             Builds(q, work', disk') /\ Signs(q, work', version)
  BY <1>1, <1>2, <1>5, <1>6, <1>10
<1> HIDE DEF q0
<1> QED
  BY <1>2, <1>4, <1>5, <1>9, <1>11, <1>12, StatementOf DEF q0

(* The index is committed, and the connection reset.                       *)
LEMMA CommitKeeps ==
    ASSUME ServerInv, NEW r \in Requests, CommitIndex(r) \/ Release(r)
    PROVE  ServerInv'
<1> DEFINE q0 == request[r]
<1>1. CASE CommitIndex(r)
  <2>1. RequestAt(r, "insert fts") /\ Commit /\ UNCHANGED Others /\ Steps(r, "release") /\ q0.todo = <<>>
    BY <1>1 DEF CommitIndex
  <2>2. Up /\ q0.step = "insert fts" /\ work \in Index
    BY <2>1, InFlight
  <2>3. PICK q : q = Moved(request[r], "release", request[r].todo, request[r].seen, request[r].stale, request[r].error, request[r].torn)
    OBVIOUS
  <2>4. request' = [request EXCEPT ![r] = q]
    BY <2>1, <2>3, StepsTo
  <2>5. /\ Record(q) /\ q.step = "release" /\ q.alone = q0.alone /\ q.at = q0.at /\ q.stale = q0.stale
        /\ q.error = q0.error /\ q.torn = q0.torn
    BY <2>3 DEF Moved, Record
  <2>6. work' = work /\ disk' = work /\ Elems(q0.todo) = {}
    BY <2>1, ElemsEmpty DEF Commit
  <2>7. q0.alone /\ Builds(q0, work, disk) /\ Signs(q0, work, version) => Builds(q, work', disk') /\ Signs(q, work', version)
    BY <2>2, <2>5, <2>6 DEF Builds, Signs
  <2>8. UNCHANGED <<tables, cols, owner, version, born, lock, proc>> /\ q.step \in ReqSteps \ {"idle"}
    BY <2>1, <2>5 DEF Others, db, ReqSteps
  <2> QED
    BY <2>1, <2>2, <2>4, <2>5, <2>7, <2>8, StatementOf
<1>2. CASE Release(r)
  <2>1. RequestAt(r, "release") /\ Rollback /\ UNCHANGED Others /\ Steps(r, "retrieve")
    BY <1>2 DEF Release
  <2>2. Up /\ q0.step = "release" /\ work \in Index
    BY <2>1, InFlight
  <2>3. PICK q : q = Moved(request[r], "retrieve", request[r].todo, request[r].seen, request[r].stale, request[r].error, request[r].torn)
    OBVIOUS
  <2>4. request' = [request EXCEPT ![r] = q]
    BY <2>1, <2>3, StepsTo
  <2>5. /\ Record(q) /\ q.step = "retrieve" /\ q.alone = q0.alone /\ q.at = q0.at /\ q.stale = q0.stale
        /\ q.error = q0.error /\ q.torn = q0.torn
    BY <2>3 DEF Moved, Record
  <2>6. work' = disk
    BY <2>1 DEF Rollback
  <2>7. q0.alone /\ Builds(q0, work, disk) /\ Signs(q0, work, version) => Builds(q, work', disk') /\ Signs(q, work', version)
    BY <2>2, <2>5, <2>6 DEF Builds, Signs
  <2>8. UNCHANGED <<tables, cols, owner, version, born, lock, proc>> /\ q.step \in ReqSteps \ {"idle"}
    BY <2>1, <2>5 DEF Others, db, ReqSteps
  <2> QED
    BY <2>1, <2>2, <2>4, <2>5, <2>7, <2>8, StatementOf
<1> QED
  BY <1>1, <1>2

(* The index is read.                                                      *)
LEMMA ReadingKeeps ==
    ASSUME ServerInv, NEW r \in Requests, Retrieve(r) \/ Drift(r) \/ Answer(r)
    PROVE  ServerInv'
<1> DEFINE q0 == request[r]
<1>0. UNCHANGED <<tables, cols, owner, version, born, lock, proc, disk, work, txn>>
  BY DEF Retrieve, Drift, Answer, schemaVars
<1>1. CASE Retrieve(r)
  <2> DEFINE found == IF q0.kind = "search" THEN Hits \cap work.fts ELSE Hits
  <2>1. /\ RequestAt(r, "retrieve")
        /\ request' = [request EXCEPT ![r] = [request[r] EXCEPT !.step = "drift", !.todo = Sorted(found), !.seen = found]]
    BY <1>1 DEF Retrieve
  <2>2. Up /\ q0.step = "retrieve" /\ work \in Index /\ Record(q0)
    BY <2>1, InFlight
  <2>3. PICK q : q = Moved(request[r], "drift", Sorted(found), found, request[r].stale, request[r].error, request[r].torn)
    OBVIOUS
  <2>4. request' = [request EXCEPT ![r] = q]
    <3> HIDE DEF found
    <3>1. q = [request[r] EXCEPT !.step = "drift", !.todo = Sorted(found), !.seen = found]
      BY <2>2, <2>3, UpdateSeen
    <3> QED
      BY <2>1, <3>1
  <2>5. /\ Record(q) /\ q.step = "drift" /\ q.alone = q0.alone /\ q.at = q0.at /\ q.stale = q0.stale
        /\ q.error = q0.error /\ q.torn = q0.torn /\ q.seen = found
    <3> HIDE DEF found
    <3> QED
      BY <2>3 DEF Moved, Record
  <2>6. q0.alone /\ Builds(q0, work, disk) /\ Signs(q0, work, version) => Builds(q, work', disk') /\ Signs(q, work', version)
    <3>1. Builds(q0, work, disk) => found = Hits /\ work.sig # Gone
      BY <2>2 DEF Builds
    <3> HIDE DEF found
    <3>2. Builds(q0, work, disk) => Builds(q, work', disk')
      BY <1>0, <2>5, <3>1 DEF Builds
    <3>3. Signs(q0, work, version) => Signs(q, work', version)
      BY <1>0, <2>2, <2>5 DEF Signs
    <3> QED
      BY <3>2, <3>3
  <2>7. q.step \in ReqSteps \ {"idle"}
    BY <2>5 DEF ReqSteps
  <2> HIDE DEF found
  <2> QED
    BY <1>0, <2>2, <2>4, <2>5, <2>6, <2>7, StatementOf
<1>2. CASE Drift(r)
  <2>1. RequestAt(r, "drift")
    BY <1>2 DEF Drift
  <2> DEFINE pb == Head(q0.todo)
             cached == {c \in work.sig : c[1] = pb}
  <2>2. PICK old \in IF cached = {} THEN {version} ELSE {c[2] : c \in cached} :
            request' = [request EXCEPT ![r] = [request[r] EXCEPT !.todo = Tail(request[r].todo),
                            !.stale = IF old = version THEN @ ELSE @ \cup {pb}]]
    BY <1>2 DEF Drift
  <2> DEFINE stale == IF old = version THEN q0.stale ELSE q0.stale \cup {pb}
  <2>3. /\ Up /\ q0.step = "drift" /\ work \in Index /\ Record(q0) /\ version \in Nat
        /\ work.sig \in (SUBSET (Books \X (0 .. MaxWrites))) \cup {Gone}
    BY <2>1, InFlight
  <2>4. PICK q : q = Moved(request[r], request[r].step, Tail(request[r].todo), request[r].seen, stale, request[r].error, request[r].torn)
    OBVIOUS
  <2>5. request' = [request EXCEPT ![r] = q]
    <3>1. request' = [request EXCEPT ![r] = [request[r] EXCEPT !.todo = Tail(request[r].todo), !.stale = stale]]
      BY <2>2, <2>3 DEF Record
    <3> HIDE DEF stale
    <3>2. q = [request[r] EXCEPT !.todo = Tail(request[r].todo), !.stale = stale]
      BY <2>3, <2>4, UpdateStale
    <3> QED
      BY <3>1, <3>2
  <2>6. /\ Record(q) /\ q.step = "drift" /\ q.alone = q0.alone /\ q.at = q0.at /\ q.stale = stale
        /\ q.error = q0.error /\ q.torn = q0.torn /\ q.seen = q0.seen
    <3> HIDE DEF stale
    <3> QED
      BY <2>3, <2>4 DEF Moved, Record
  <2>7. ASSUME Builds(q0, work, disk), Signs(q0, work, version) PROVE Builds(q, work', disk') /\ Signs(q, work', version)
    <3>1. q0.seen = Hits /\ work.sig # Gone
      BY <2>3, <2>7 DEF Builds
    <3>2. \A c \in work.sig : q0.at <= c[2] /\ c[2] <= version
      BY <2>3, <2>7 DEF Signs
    <3>3. q0.stale # {} => q0.at < version
      BY <2>7 DEF Signs
    <3>4. ASSUME old # version PROVE q0.at < version
      <4>1. PICK c \in work.sig : old = c[2]
        BY <2>2, <3>4
      <4>2. c[2] \in 0 .. MaxWrites
        <5>1. c \in Books \X (0 .. MaxWrites)
          BY <2>3, <3>1, <4>1
        <5> QED
          BY <5>1
      <4>3. q0.at <= c[2] /\ c[2] <= version /\ c[2] # version
        BY <3>2, <3>4, <4>1
      <4>4. q0.at \in Nat
        <5>1. RequestOK(q0, version)
          BY <2>1, InFlight
        <5>2. q0.at \in 0 .. version
          BY <5>1 DEF RequestOK
        <5> QED
          BY <5>2
      <4> QED
        BY <2>3, <4>2, <4>3, <4>4, SchemaAssumption
    <3>5. stale # {} => q0.at < version
      BY <3>3, <3>4
    <3> HIDE DEF stale, q0
    <3>6. Builds(q, work', disk')
      BY <1>0, <2>6, <3>1 DEF Builds
    <3>7. Signs(q, work', version)
      BY <1>0, <2>6, <3>2, <3>5 DEF Signs
    <3> QED
      BY <3>6, <3>7
  <2>8. q.step \in ReqSteps \ {"idle"}
    BY <2>6 DEF ReqSteps
  <2> HIDE DEF stale
  <2> QED
    BY <1>0, <2>3, <2>5, <2>6, <2>7, <2>8, StatementOf
<1>3. CASE Answer(r)
  <2>1. RequestAt(r, "drift") /\ Steps(r, "close")
    BY <1>3 DEF Answer
  <2>2. Up /\ q0.step = "drift" /\ work \in Index /\ RequestOK(q0, version)
    BY <2>1, InFlight
  <2>3. PICK q : q = Moved(request[r], "close", request[r].todo, request[r].seen, request[r].stale, request[r].error, request[r].torn)
    OBVIOUS
  <2>4. request' = [request EXCEPT ![r] = q]
    BY <2>1, <2>3, StepsTo
  <2>5. /\ Record(q) /\ q.step = "close" /\ q.alone = q0.alone /\ q.at = q0.at /\ q.stale = q0.stale
        /\ q.error = q0.error /\ q.torn = q0.torn /\ q.seen = q0.seen
    BY <2>3 DEF Moved, Record
  <2>6. q0.error = "none"
    BY <2>2 DEF RequestOK
  <2>7. q0.alone /\ Builds(q0, work, disk) /\ Signs(q0, work, version) => Builds(q, work', disk') /\ Signs(q, work', version)
    BY <1>0, <2>2, <2>5, <2>6 DEF Builds, Signs
  <2>8. q.step \in ReqSteps \ {"idle"}
    BY <2>5 DEF ReqSteps
  <2> QED
    BY <1>0, <2>2, <2>4, <2>5, <2>7, <2>8, StatementOf
<1> QED
  BY <1>1, <1>2, <1>3

(* A request that fails is not alone.                                      *)
LEMMA FailKeeps ==
    ASSUME ServerInv, NEW r \in Requests, Fail(r)
    PROVE  ServerInv'
<1> DEFINE q0 == request[r]
<1>0. UNCHANGED <<tables, cols, owner, version, born, lock, proc, disk, work, txn>>
  BY DEF Fail, schemaVars
<1>1. PICK s \in ReqSteps \ {"idle", "close"} : RequestAt(r, s)
  BY DEF Fail, ReqSteps
<1>2. /\ Up /\ q0.step = s /\ work \in Index /\ Record(q0) /\ RequestOK(q0, version)
  BY <1>1, InFlight
<1>3. ~q0.alone
  <2>1. q0.alone => Builds(q0, work, disk)
    BY <1>2 DEF ServerInv, AloneOK
  <2>2. ~Builds(q0, work, disk)
    BY <1>2 DEF Fail, RequestAt, Builds
  <2> QED
    BY <2>1, <2>2
<1> DEFINE torn == q0.torn \/ ~q0.alone
<1>4. torn = TRUE
  BY <1>3
<1>5. request' = [request EXCEPT ![r] = [request[r] EXCEPT !.step = "close", !.error = "table", !.torn = torn]]
  BY <1>2 DEF Fail, Record
<1> HIDE DEF torn
<1>6. PICK one, two, q : /\ one = [request[r] EXCEPT !.step = "close"] /\ two = [one EXCEPT !.error = "table"]
                         /\ q = [two EXCEPT !.torn = torn]
  OBVIOUS
<1>7. request' = [request EXCEPT ![r] = q]
  BY <1>5, <1>6
<1>8. Record(q) /\ q.step = "close" /\ q.alone = q0.alone /\ q.at = q0.at /\ q.torn = TRUE
  <2>1. one = Moved(request[r], "close", request[r].todo, request[r].seen, request[r].stale, request[r].error, request[r].torn)
    BY <1>2, <1>6, OneUpdate
  <2>2. Record(one) /\ one.step = "close" /\ one.alone = q0.alone /\ one.at = q0.at
    BY <2>1 DEF Moved, Record
  <2>3. two = Moved(one, one.step, one.todo, one.seen, one.stale, "table", one.torn)
    <3>1. Record(one)
      BY <2>2
    <3>2. [one EXCEPT !.error = "table"] = Moved(one, one.step, one.todo, one.seen, one.stale, "table", one.torn)
      BY <3>1, OneUpdate, Zenon
    <3> QED
      BY <1>6, <3>2
  <2>4. Record(two) /\ two.step = "close" /\ two.alone = q0.alone /\ two.at = q0.at
    BY <2>2, <2>3 DEF Moved, Record
  <2>5. q = Moved(two, two.step, two.todo, two.seen, two.stale, two.error, torn)
    <3>1. Record(two)
      BY <2>4
    <3>2. [two EXCEPT !.torn = torn] = Moved(two, two.step, two.todo, two.seen, two.stale, two.error, torn)
      BY <3>1, OneUpdate, Zenon
    <3> QED
      BY <1>6, <3>2
  <2> QED
    BY <1>4, <2>4, <2>5 DEF Moved, Record
<1>9. RequestOK(q, version)
  BY <1>2, <1>8 DEF RequestOK, ReqSteps
<1>10. q0.step # "idle" /\ q.step # "idle" /\ q.torn /\ ~q.alone
  BY <1>2, <1>3, <1>8
<1> QED
  BY <1>0, <1>2, <1>7, <1>9, <1>10, RequestKeeps

(* A request gives up on a command's transaction.                          *)
LEMMA LockedKeeps ==
    ASSUME ServerInv, NEW r \in Requests, RequestLocked(r)
    PROVE  ServerInv'
<1> DEFINE q0 == request[r]
<1>0. UNCHANGED <<tables, cols, owner, version, born, lock, proc, disk, work, txn>>
  BY DEF RequestLocked, schemaVars
<1>1. PICK s \in ReqSteps \ {"idle", "close"} : RequestAt(r, s)
  BY DEF RequestLocked, RequestAt, ReqSteps
<1>2. /\ Up /\ q0.step = s /\ work \in Index /\ Record(q0) /\ RequestOK(q0, version)
  BY <1>1, InFlight
<1>3. ~Open
  BY DEF RequestLocked, CanWrite, Open
<1>4. request' = [request EXCEPT ![r] = [request[r] EXCEPT !.step = "close", !.error = "locked"]]
  BY <1>2 DEF RequestLocked, ServerInv, Record
<1>5. PICK q : q = Moved(request[r], "close", request[r].todo, request[r].seen, request[r].stale, "locked", request[r].torn)
  OBVIOUS
<1>6. request' = [request EXCEPT ![r] = q]
  <2>1. q = [request[r] EXCEPT !.step = "close", !.error = "locked"]
    BY <1>2, <1>5, UpdateError
  <2> QED
    BY <1>4, <2>1
<1>7. /\ Record(q) /\ q.step = "close" /\ q.alone = q0.alone /\ q.at = q0.at /\ q.torn = q0.torn /\ q.stale = q0.stale
      /\ q.error = "locked"
  BY <1>5 DEF Moved, Record
<1>8. RequestOK(q, version)
  BY <1>2, <1>7 DEF RequestOK, ReqSteps
<1>9. Builds(q, work', disk') /\ (Signs(q0, work, version) => Signs(q, work', version))
  BY <1>0, <1>7 DEF Builds, Signs
<1>10. q0.step # "idle" /\ q.step # "idle" /\ (q.alone => q0.alone) /\ (q0.torn => q.torn)
  BY <1>2, <1>7
<1> QED
  BY <1>0, <1>2, <1>3, <1>6, <1>8, <1>9, <1>10, RequestKeeps

(* The record of a slot whose request is over.                             *)
LEMMA ClosedRecord ==
    ASSUME NEW r
    PROVE  Closed(r) = [step |-> "idle", kind |-> "none", todo |-> <<>>, seen |-> {}, stale |-> {},
                        alone |-> TRUE, at |-> 0, error |-> "none", torn |-> request[r].torn]
<1>1. PICK i, torn : i = Idle /\ torn = request[r].torn
  OBVIOUS
<1>2. Record(i)
  BY <1>1 DEF Record, Idle
<1>3. [i EXCEPT !.torn = torn] = Moved(i, i.step, i.todo, i.seen, i.stale, i.error, torn)
  BY <1>2, OneUpdate
<1> QED
  BY <1>1, <1>3 DEF Closed, Moved, Idle

(* Such a slot's record is sound at every version of the catalogue.        *)
LEMMA ClosedIs ==
    ASSUME NEW r, request[r].torn \in BOOLEAN
    PROVE  /\ Closed(r) = [step |-> "idle", kind |-> "none", todo |-> <<>>, seen |-> {}, stale |-> {},
                           alone |-> TRUE, at |-> 0, error |-> "none", torn |-> request[r].torn]
           /\ \A v \in Nat : RequestOK(Closed(r), v)
<1>1. Closed(r) = [step |-> "idle", kind |-> "none", todo |-> <<>>, seen |-> {}, stale |-> {},
                   alone |-> TRUE, at |-> 0, error |-> "none", torn |-> request[r].torn]
  BY ClosedRecord
<1> QED
  BY <1>1 DEF RequestOK, Record, ReqSteps

(* A request is over; a REST request's session is closed with it.          *)
LEMMA CloseKeeps ==
    ASSUME ServerInv, NEW r \in Requests, Close(r)
    PROVE  ServerInv'
<1> DEFINE q0 == request[r]
<1>1. /\ RequestAt(r, "close") /\ UNCHANGED Others /\ request' = [request EXCEPT ![r] = Closed(r)]
      /\ Rollback \/ UNCHANGED <<disk, work, txn>>
      /\ r \in Rest => Rollback
  BY DEF Close
<1>2. Up /\ q0.step = "close" /\ work \in Index /\ RequestOK(q0, version) /\ version \in Nat
  BY <1>1, InFlight
<1>3. q0.torn \in BOOLEAN
  BY <1>2 DEF RequestOK
<1>4. PICK q : q = Closed(r)
  OBVIOUS
<1>5. RequestOK(q, version) /\ q.step = "idle" /\ q.torn = q0.torn
  BY <1>2, <1>3, <1>4, ClosedIs
<1>6. UNCHANGED <<tables, cols, owner, version, born, lock, proc>>
  BY <1>1 DEF Others, db
<1>7. q0.step # "idle" /\ q0.step \notin {"insert fts", "insert sig"} /\ (q0.torn => q.torn)
  BY <1>2, <1>5
<1> QED
  BY <1>1, <1>2, <1>4, <1>5, <1>6, <1>7, RequestKeeps

(* A request that another one overlaps.                                    *)
LEMMA Overlapped ==
    ASSUME NEW q, Record(q), NEW b, NEW m, m = [q EXCEPT !.alone = b]
    PROVE  /\ Record(m) /\ m.step = q.step /\ m.kind = q.kind /\ m.todo = q.todo /\ m.seen = q.seen
           /\ m.stale = q.stale /\ m.alone = b /\ m.at = q.at /\ m.error = q.error /\ m.torn = q.torn
<1>1. DOMAIN q = {"step", "kind", "todo", "seen", "stale", "alone", "at", "error", "torn"} /\ q = [x \in DOMAIN q |-> q[x]]
  BY DEF Record
<1>2. m = [step |-> q.step, kind |-> q.kind, todo |-> q.todo, seen |-> q.seen, stale |-> q.stale,
           alone |-> b, at |-> q.at, error |-> q.error, torn |-> q.torn]
  BY <1>1
<1> QED
  BY <1>2 DEF Record

(* The record of a request that begins.                                    *)
NewRequest(r, s, k, alone) == [Closed(r) EXCEPT !.step = s, !.kind = k, !.at = version, !.alone = alone]

(* It keeps only whether the slot's last request was torn.                 *)
LEMMA Begun ==
    ASSUME NEW r, NEW s, NEW k, NEW alone, NEW q, q = NewRequest(r, s, k, alone)
    PROVE  /\ Record(q) /\ q.step = s /\ q.kind = k /\ q.at = version /\ q.alone = alone
           /\ q.stale = {} /\ q.error = "none" /\ q.torn = request[r].torn
<1> DEFINE Slot == [step : {"idle", s}, kind : {"none", k}, todo : {<<>>}, seen : {{}}, stale : {{}}, alone : {TRUE, alone},
                    at : {0, version}, error : {"none"}, torn : {request[r].torn}]
<1>2. PICK c : c = Closed(r)
  OBVIOUS
<1>3. c \in Slot
  <2>1. c = [step |-> "idle", kind |-> "none", todo |-> <<>>, seen |-> {}, stale |-> {},
             alone |-> TRUE, at |-> 0, error |-> "none", torn |-> request[r].torn]
    BY <1>2, ClosedRecord, Zenon
  <2> QED
    BY <2>1
<1>4. q \in Slot /\ q.step = s /\ q.kind = k /\ q.at = version /\ q.alone = alone
  BY <1>2, <1>3 DEF NewRequest
<1>5. Record(q) /\ q.stale = {} /\ q.error = "none" /\ q.torn = request[r].torn
  BY <1>4 DEF Record
<1> QED
  BY <1>4, <1>5

(* A request begins: alone if nobody is in flight, and then nobody is.     *)
LEMMA BeginKeeps ==
    ASSUME ServerInv, NEW r \in Requests, Begin(r)
    PROVE  ServerInv'
<1>0. /\ UNCHANGED <<tables, cols, owner, version, born, lock, proc, disk, work, txn>>
      /\ RequestAt(r, "idle")
  BY DEF Begin, schemaVars
<1>1. Up /\ request[r].step = "idle" /\ version \in Nat
  BY <1>0, InFlight
<1>2. PICK k \in {"search", "detail", "plain"} : request' = [q \in Requests |->
             IF q = r THEN [Closed(r) EXCEPT !.step = IF k = "plain" THEN "close" ELSE "drop fts",
                                        !.kind = k, !.at = version, !.alone = Active = {}]
             ELSE [request[q] EXCEPT !.alone = request[q].step = "idle"]]
  BY DEF Begin
<1> DEFINE s == IF k = "plain" THEN "close" ELSE "drop fts"
           alone == Active = {}
           new == request'[r]
<1>3. new = NewRequest(r, s, k, alone)
  BY <1>2 DEF NewRequest
<1>4. s \in {"close", "drop fts"} /\ alone \in BOOLEAN /\ (s = "close" <=> k = "plain")
  BY <1>2
<1> HIDE DEF s, alone, new
<1>5. /\ Record(new) /\ new.step = s /\ new.kind = k /\ new.at = version /\ new.alone = alone
      /\ new.stale = {} /\ new.error = "none" /\ new.torn = request[r].torn
  <2>1. PICK q, x, y : q = new /\ x = s /\ y = alone
    OBVIOUS
  <2>2. q = NewRequest(r, x, k, y)
    BY <1>3, <2>1
  <2>3. /\ Record(q) /\ q.step = x /\ q.kind = k /\ q.at = version /\ q.alone = y
        /\ q.stale = {} /\ q.error = "none" /\ q.torn = request[r].torn
    BY <2>2, Begun
  <2> QED
    BY <2>1, <2>3
<1>6. ASSUME NEW x \in Requests \ {r}
      PROVE  /\ RequestOK(request'[x], version) /\ request'[x].step = request[x].step
             /\ request'[x].torn = request[x].torn /\ request'[x].alone = (request[x].step = "idle")
  <2>1. request'[x] = [request[x] EXCEPT !.alone = (request[x].step = "idle")]
    BY <1>2
  <2>2. RequestOK(request[x], version) /\ Record(request[x])
    BY DEF ServerInv, RequestOK
  <2>3. PICK m, b : m = request'[x] /\ b = (request[x].step = "idle")
    OBVIOUS
  <2>4. /\ Record(m) /\ m.step = request[x].step /\ m.todo = request[x].todo /\ m.alone = b /\ m.at = request[x].at
        /\ m.error = request[x].error /\ m.torn = request[x].torn
    BY <2>1, <2>2, <2>3, Overlapped
  <2>5. b \in BOOLEAN
    BY <2>3
  <2>6. RequestOK(m, version)
    BY <2>2, <2>4, <2>5 DEF RequestOK
  <2> QED
    BY <2>3, <2>4, <2>6
<1>7. SchemaInv'
  BY <1>0, SchemaInvStays DEF ServerInv
<1>8. Writer' /\ Up'
  BY <1>0, <1>1 DEF ServerInv, Writer, InInit, At, Up
<1>9. Shared'
  BY <1>0, <1>8 DEF ServerInv, Shared, Index, Open
<1>10. Owned'
  <2> SUFFICES ASSUME Open'
               PROVE  \/ \E x \in Rest : request'[x].step # "idle"
                      \/ \E m \in Mcp : request'[m].step \in {"insert fts", "insert sig"} \/ request'[m].torn
    BY DEF Owned
  <2>1. Open
    BY <1>0 DEF Open
  <2>2. CASE \E x \in Rest : request[x].step # "idle"
    BY <1>1, <1>6, <2>2 DEF Requests
  <2>3. CASE \E m \in Mcp : request[m].step \in {"insert fts", "insert sig"} \/ request[m].torn
    <3>1. PICK m \in Mcp : request[m].step \in {"insert fts", "insert sig"} \/ request[m].torn
      BY <2>3
    <3>2. CASE m = r
      BY <1>1, <1>5, <3>1, <3>2 DEF new
    <3>3. CASE m # r
      BY <1>6, <3>1, <3>3 DEF Requests
    <3> QED
      BY <3>2, <3>3
  <2> QED
    BY <1>1, <2>1, <2>2, <2>3 DEF ServerInv, Owned
<1>11. ASSUME NEW x \in Requests PROVE RequestOK(request[x], version)' /\ AloneOK(x)'
  <2>1. RequestOK(request[x], version)' <=> RequestOK(request'[x], version)
    BY <1>0 DEF RequestOK, Record
  <2>2. /\ Builds(request[x], work, disk)' <=> Builds(request'[x], work', disk')
        /\ Signs(request[x], work, version)' <=> Signs(request'[x], work', version)
    BY <1>0 DEF Builds, Signs, Elems
  <2>3. CASE x = r
    <3>1. RequestOK(new, version)
      <4>1. RequestOK(request[r], version)
        BY DEF ServerInv
      <4>2. request[r].torn \in BOOLEAN
        BY <4>1 DEF RequestOK
      <4>3. version \in 0 .. version
        BY <1>1
      <4> QED
        BY <1>4, <1>5, <4>2, <4>3 DEF RequestOK, ReqSteps
    <3>2. ASSUME alone
          PROVE  /\ \A y \in Requests \ {r} : request'[y].step = "idle"
                 /\ Builds(new, work', disk') /\ Signs(new, work', version)
      <4>1. \A y \in Requests \ {r} : request'[y].step = "idle"
        BY <1>6, <3>2 DEF alone, Active
      <4>2. Builds(new, work', disk') /\ Signs(new, work', version)
        BY <1>4, <1>5 DEF Builds, Signs
      <4> QED
        BY <4>1, <4>2
    <3>3. AloneOK(x)'
      BY <1>5, <2>2, <2>3, <3>2 DEF AloneOK, new
    <3> QED
      BY <2>1, <2>3, <3>1, <3>3 DEF new
  <2>4. CASE x # r
    <3>1. RequestOK(request[x], version)'
      BY <1>6, <2>1, <2>4
    <3>2. AloneOK(x)'
      BY <1>6, <2>4 DEF AloneOK
    <3> QED
      BY <3>1, <3>2
  <2> QED
    BY <2>3, <2>4
<1>12. request' = [x \in Requests |-> request'[x]]
  BY <1>2
<1> QED
  BY <1>7, <1>8, <1>9, <1>10, <1>11, <1>12 DEF ServerInv, Requests

(* Every step keeps it.                                                    *)
LEMMA ServerInvNext == ServerInv /\ [ServerNext]_vars => ServerInv'
<1> SUFFICES ASSUME ServerInv, [ServerNext]_vars PROVE ServerInv'
  OBVIOUS
<1>1. CASE Commanding
  BY <1>1, CommandingKeeps
<1>2. CASE ServerDies
  BY <1>2, ServerDiesKeeps
<1>3. ASSUME NEW r \in Requests, Requesting(r) PROVE ServerInv'
  BY <1>3, BeginKeeps, RebuildKeeps, CreateSigKeeps, InsertFtsKeeps, InsertSigKeeps, CommitKeeps, ReadingKeeps,
     FailKeeps, LockedKeeps, CloseKeeps DEF Requesting
<1>4. CASE UNCHANGED vars
  <2>1. SchemaInv'
    BY <1>4, SchemaInvStays DEF ServerInv, vars, schemaVars
  <2>2. /\ Writer' /\ Shared' /\ Owned'
    BY <1>4 DEF ServerInv, Writer, Shared, Owned, Index, Open, Up, InInit, At, vars, schemaVars, serverVars
  <2>3. ASSUME NEW r \in Requests PROVE RequestOK(request[r], version)' /\ AloneOK(r)'
    <3>1. RequestOK(request[r], version) /\ AloneOK(r)
      BY DEF ServerInv
    <3>2. RequestOK(request[r], version)'
      BY <1>4, <3>1 DEF RequestOK, Record, vars, schemaVars, serverVars
    <3>3. /\ Builds(request[r], work, disk)' <=> Builds(request[r], work, disk)
          /\ Signs(request[r], work, version)' <=> Signs(request[r], work, version)
      BY <1>4 DEF Builds, Signs, Elems, vars, schemaVars, serverVars
    <3>4. AloneOK(r)'
      BY <1>4, <3>1, <3>3 DEF AloneOK, vars, serverVars
    <3> QED
      BY <3>2, <3>4
  <2> QED
    BY <1>4, <2>1, <2>2, <2>3 DEF ServerInv, Requests, vars, serverVars
<1> QED
  BY <1>1, <1>2, <1>3, <1>4 DEF ServerNext

(* The server's invariant.                                                 *)
LEMMA ServerInvAlways == ServerSpec => []ServerInv
BY ServerInvInit, ServerInvNext, PTL DEF ServerSpec

(* Whatever was left behind and whoever failed before, a playbook request  *)
(* that is alone from beginning to end finds every match, fails only on a  *)
(* command's transaction, and calls stale only what a command wrote        *)
(* meanwhile (index.py:11-62).                                             *)
THEOREM AloneIsComplete == ServerSpec => []AloneComplete
<1>1. ServerInv => AloneComplete
  <2> SUFFICES ASSUME ServerInv, NEW r \in Active, request[r].alone, request[r].step = "close", request[r].kind # "plain"
               PROVE  /\ request[r].error \in {"none", "locked"}
                      /\ request[r].error = "none" => request[r].seen = Hits
                      /\ request[r].stale # {} => version # request[r].at
    BY DEF AloneComplete
  <2>1. r \in Requests
    BY DEF Active
  <2>2. RequestOK(request[r], version) /\ Builds(request[r], work, disk) /\ Signs(request[r], work, version) /\ version \in Nat
    BY <2>1, SchemaAssumption DEF ServerInv, AloneOK, Writer
  <2>3. request[r].at \in 0 .. version
    BY <2>2 DEF RequestOK
  <2>4. request[r].stale # {} => request[r].at < version
    BY <2>2 DEF Signs
  <2>5. request[r].stale # {} => version # request[r].at
    BY <2>2, <2>3, <2>4
  <2> QED
    BY <2>2, <2>5 DEF Builds
<1> QED
  BY <1>1, ServerInvAlways, PTL

(* Between requests the server holds no transaction and nothing that is    *)
(* not committed, but for an MCP call that failed because another request  *)
(* overlapped it (db.py:46-58, app.py:44-56).                              *)
THEOREM IdleIsFree == ServerSpec => []IdleHoldsNothing
<1>1. ServerInv => IdleHoldsNothing
  <2> SUFFICES ASSUME ServerInv, Up, Active = {} PROVE (~Open /\ work = disk) \/ \E m \in Mcp : request[m].torn
    BY DEF IdleHoldsNothing
  <2>1. \A r \in Requests : request[r].step = "idle"
    BY DEF Active
  <2>2. Open => \E m \in Mcp : request[m].torn
    BY <2>1 DEF ServerInv, Owned, Requests
  <2> QED
    BY <2>2 DEF ServerInv, Shared
<1> QED
  BY <1>1, ServerInvAlways, PTL
====
