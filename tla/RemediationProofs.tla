---- MODULE RemediationProofs ----
(* What remediation runs keep, however many overlap and wherever they die.  *)
EXTENDS Remediation, TLAPS

(* Each variable of the runs has a value for each run.                      *)
Shapes ==
    /\ DOMAIN rows = Runs /\ DOMAIN props = Runs /\ DOMAIN pending = Runs
    /\ DOMAIN asked = Runs /\ DOMAIN records = Runs /\ DOMAIN installed = Runs
    /\ DOMAIN envelope = Runs /\ DOMAIN known = Runs /\ DOMAIN refs = Runs

(* The part of TypeOK that is about one run.                                *)
RunTyped(r) ==
    /\ DOMAIN rows[r] \subseteq Slugs
    /\ \A s \in DOMAIN rows[r] : rows[r][s] \in Notes
    /\ DOMAIN props[r] = DOMAIN rows[r]
    /\ \A s \in DOMAIN props[r] : props[r][s] \in Proposal
    /\ pending[r] \cup records[r] \cup installed[r] \subseteq DOMAIN rows[r]
    /\ asked[r] \in 0..options[r].calls
    /\ known[r] \cup refs[r] \subseteq Hash

(* A run left alone stays as it is.                                         *)
Alone(r) ==
    /\ pc'[r] = pc[r] /\ options'[r] = options[r] /\ rows'[r] = rows[r]
    /\ props'[r] = props[r] /\ pending'[r] = pending[r] /\ asked'[r] = asked[r]
    /\ records'[r] = records[r] /\ installed'[r] = installed[r]
    /\ envelope'[r] = envelope[r] /\ known'[r] = known[r] /\ refs'[r] = refs[r]
    /\ exit'[r] = exit[r]

(* A run that has not read yet has nothing.                                 *)
Unread(r) ==
    pc[r] \in {"idle", "wait", "read"} =>
        /\ asked[r] = 0 /\ exit[r] = "none" /\ envelope[r] = {}
        /\ records[r] = {} /\ installed[r] = {} /\ known[r] = {} /\ refs[r] = {}

Typed == TypeOK /\ Shapes /\ \A r \in Runs : Unread(r)
----
(* Types. *)

(* The classifier yields proposals.                                         *)
LEMMA ClassifyTyped ==
    ASSUME NEW s, NEW n \in Notes
    PROVE  Classify(s, n) \in Proposal
<1>1. n \in Note
  BY RemediationAssumption
<1>2. ASSUME NEW m \in Modules PROVE MissingModule(s, m) \in Proposal
  <2>1. m \in DOMAIN Mapped => Mapped[m] \in Targets
    BY DEF Targets
  <2>2. m \in Targets
    BY <1>2 DEF Targets
  <2> QED
    BY <2>1, <2>2 DEF MissingModule, Verdict, Proposal, Classes, FixKinds
<1>3. n.key # None => n.key \in Targets
  BY <1>1 DEF Note, Targets
<1>4. "" \in Targets
  BY DEF Targets
<1>5. n.missing # None => MissingModule(s, n.missing) \in Proposal
  BY <1>1, <1>2 DEF Note
<1> QED
  BY <1>1, <1>3, <1>4, <1>5 DEF Classify, Verdict, Unknown, Proposal, Classes, FixKinds

(* What Hermes replies becomes a proposal.                                  *)
LEMMA DiagnosedTyped ==
    ASSUME NEW reply \in Replies
    PROVE  Diagnosed(reply) \in Proposal
<1>1. reply.class \in Classes /\ reply.target \in Targets
  BY RemediationAssumption
<1>2. FixKindOf(reply.class) \in FixKinds
  BY DEF FixKindOf, FixKinds
<1> QED
  BY <1>1, <1>2 DEF Diagnosed, Proposal

(* The hash of a cluster names its class, target and members.               *)
LEMMA ClustersTyped ==
    ASSUME NEW r \in Runs, RunTyped(r)
    PROVE  Clusters(props[r]) \subseteq Hash
<1> SUFFICES ASSUME NEW s \in Filed(props[r]) PROVE HashOf(props[r], s) \in Hash
  BY DEF Clusters
<1>1. props[r][s] \in Proposal
  BY DEF Filed, RunTyped
<1>2. Filed(props[r]) \subseteq Slugs
  BY DEF Filed, RunTyped
<1> QED
  BY <1>1, <1>2 DEF HashOf, Hash, Proposal

(* TypeOK run by run.                                                       *)
LEMMA RunsTyped == Typed => \A r \in Runs : RunTyped(r)
BY DEF Typed, TypeOK, RunTyped

(* The types of a run that is left alone are kept.                          *)
LEMMA AloneTyped ==
    ASSUME NEW r \in Runs, RunTyped(r), Alone(r)
    PROVE  RunTyped(r)'
BY DEF RunTyped, Alone

(* A step of a run: all of them but those of the prober and of the tracker. *)
RunStep(r) ==
    Begin(r) \/ Acquire(r) \/ Work(r) \/ Tracker(r) \/ Die(r)

(* A run that ends touches its own variables and the lock.                  *)
LEMMA Ending ==
    ASSUME Typed, NEW r \in Runs, NEW code \in Outcomes, End(r, code),
           UNCHANGED <<options, rows, props, records, installed, envelope>>
    PROVE  /\ \A q \in Runs \ {r} : Alone(q)
           /\ Shapes'
           /\ RunTyped(r)'
           /\ pc' \in [Runs -> Phases] /\ options' \in [Runs -> Options]
           /\ exit' \in [Runs -> Outcomes]
           /\ lock' \in Runs \cup {None}
<1>1. /\ pc' \in [Runs -> Phases] /\ options' \in [Runs -> Options]
      /\ exit' \in [Runs -> Outcomes]
      /\ lock' \in Runs \cup {None}
  BY DEF Typed, TypeOK, End, Goto, Phases
<1>2. Shapes' /\ \A q \in Runs \ {r} : Alone(q)
  BY DEF Typed, TypeOK, Shapes, End, Goto, Alone
<1>3. RunTyped(r)
  BY RunsTyped
<1>4. options[r].calls \in Nat
  BY DEF Typed, TypeOK, Options
<1>5. /\ pending'[r] = {} /\ asked'[r] = 0 /\ known'[r] = {} /\ refs'[r] = {}
      /\ options'[r] = options[r] /\ rows'[r] = rows[r] /\ props'[r] = props[r]
      /\ records'[r] = records[r] /\ installed'[r] = installed[r]
  BY DEF Typed, Shapes, End
<1>6. 0 \in 0..options[r].calls
  BY <1>4
<1> QED
  BY <1>1, <1>2, <1>3, <1>5, <1>6 DEF RunTyped

(* Every way to end is one of the outcomes.                                 *)
LEMMA EndingSteps ==
    ASSUME NEW r \in Runs,
           \/ Dropped(r) \/ WriteFails(r) \/ Unavailable(r) \/ TrackerFails(r)
           \/ Unhashable(r) \/ Filing(r) \/ Die(r)
    PROVE  /\ \E code \in Outcomes : End(r, code)
           /\ UNCHANGED <<options, rows, props, records, installed, envelope>>
           /\ UNCHANGED <<note, changes, overlapped>>
BY DEF Dropped, WriteFails, Unavailable, TrackerFails, Unhashable, Filing, Die, Outcomes

(* The others are alone in every step of a run.                             *)
LEMMA OthersAlone ==
    ASSUME Typed, NEW r \in Runs, RunStep(r)
    PROVE  /\ \A q \in Runs \ {r} : Alone(q)
           /\ Shapes'
<1>1. CASE Begin(r)
  BY <1>1 DEF Typed, TypeOK, Shapes, Begin, Goto, world, Alone
<1>2. CASE Acquire(r)
  BY <1>2 DEF Typed, TypeOK, Shapes, Acquire, Goto, run, Alone
<1>3. CASE Read(r)
  BY <1>3 DEF Typed, TypeOK, Shapes, Read, Goto, world, Alone
<1>4. CASE Answered(r)
  BY <1>4 DEF Typed, Shapes, Answered, world, Alone
<1>5. CASE Degraded(r)
  BY <1>5 DEF Typed, Shapes, Degraded, world, Alone
<1>6. CASE Diagnosis(r)
  BY <1>6 DEF Typed, TypeOK, Shapes, Diagnosis, Goto, world, Alone
<1>7. ASSUME NEW s \in Slugs, Fix(r, s) PROVE Shapes' /\ \A q \in Runs \ {r} : Alone(q)
  BY <1>7 DEF Typed, Shapes, Fix, Alone
<1>8. CASE Fixed(r)
  BY <1>8 DEF Typed, TypeOK, Shapes, Fixed, Goto, run, Alone
<1>9. CASE Write(r)
  BY <1>9 DEF Typed, TypeOK, Shapes, Write, Goto, world, Alone
<1>10. CASE List(r)
  BY <1>10 DEF Typed, TypeOK, Shapes, List, Goto, Alone
<1>11. CASE Create(r)
  BY <1>11 DEF Typed, Shapes, Create, Alone
<1>12. CASE \/ Dropped(r) \/ WriteFails(r) \/ Unavailable(r) \/ TrackerFails(r)
            \/ Unhashable(r) \/ Filing(r) \/ Die(r)
  BY <1>12, EndingSteps, Ending
<1> QED
  BY <1>1, <1>2, <1>3, <1>4, <1>5, <1>6, <1>7, <1>8, <1>9, <1>10, <1>11, <1>12
     DEF RunStep, Work, Tracker

(* A step of a run keeps what the run itself has well typed.                *)
LEMMA RunTypes ==
    ASSUME Typed, NEW r \in Runs, RunStep(r)
    PROVE  RunTyped(r)' /\ Unread(r)'
<1>0. RunTyped(r) /\ options[r].calls \in Nat /\ Shapes /\ Unread(r) /\ pc \in [Runs -> Phases]
  BY RunsTyped DEF Typed, TypeOK, Options
<1>1. CASE Begin(r)
  <2>1. options'[r].calls \in Nat /\ asked'[r] = 0
    BY <1>0, <1>1, RemediationAssumption DEF Begin, Typed, TypeOK, Options, Unread
  <2>2. /\ rows' = rows /\ props' = props /\ pending' = pending /\ records' = records
        /\ installed' = installed /\ known' = known /\ refs' = refs
    BY <1>1 DEF Begin
  <2>3. RunTyped(r)'
    BY <1>0, <2>1, <2>2 DEF RunTyped
  <2>4. Unread(r)'
    BY <1>0, <1>1 DEF Begin, Unread
  <2> QED
    BY <2>3, <2>4
<1>2. CASE Acquire(r)
  BY <1>0, <1>2 DEF Acquire, run, RunTyped, Unread
<1>3. CASE Read(r)
  <2> DEFINE bad == {s \in Slugs : note[s] # None}
             ps  == [s \in bad |-> Classify(s, note[s])]
  <2>1. \A s \in bad : note[s] \in Notes
    BY DEF Typed, TypeOK
  <2>2. \A s \in bad : Classify(s, note[s]) \in Proposal
    BY <2>1, ClassifyTyped
  <2>3. rows'[r] = [s \in bad |-> note[s]] /\ props'[r] = ps
    BY <1>0, <1>3 DEF Read, Shapes
  <2>4. pending'[r] \subseteq bad
    BY <1>0, <1>3 DEF Read, Shapes, Abstained
  <2>5. /\ records'[r] = {} /\ installed'[r] = {} /\ known'[r] = {} /\ refs'[r] = {}
        /\ asked'[r] = 0 /\ options'[r].calls \in Nat
    BY <1>0, <1>3 DEF Read, Unread
  <2>6. pc'[r] = "diagnose"
    BY <1>0, <1>3 DEF Read, Goto
  <2> QED
    BY <2>1, <2>2, <2>3, <2>4, <2>5, <2>6 DEF RunTyped, Unread
<1>4. CASE Answered(r)
  <2>1. PICK b \in NextBatch(r) : \E reply \in [b -> Replies \cup {None}] :
        /\ props' = [props EXCEPT ![r] = [s \in DOMAIN props[r] |->
                IF s \in b /\ reply[s] # None THEN Diagnosed(reply[s])
                ELSE props[r][s]]]
        /\ pending' = [pending EXCEPT ![r] = pending[r] \ b]
    BY <1>4 DEF Answered
  <2>2. PICK reply \in [b -> Replies \cup {None}] :
           /\ props'[r] = [s \in DOMAIN props[r] |->
                IF s \in b /\ reply[s] # None THEN Diagnosed(reply[s]) ELSE props[r][s]]
           /\ pending'[r] = pending[r] \ b
    BY <1>0, <2>1 DEF Shapes
  <2>3. \A s \in DOMAIN props'[r] : props'[r][s] \in Proposal
    BY <1>0, <2>2, DiagnosedTyped DEF RunTyped
  <2>4. asked'[r] \in 0..options'[r].calls
    BY <1>0, <1>4 DEF Answered, Asks, RunTyped, Shapes
  <2>5. DOMAIN props'[r] = DOMAIN props[r]
    BY <2>2
  <2> QED
    BY <1>0, <1>4, <2>2, <2>3, <2>4, <2>5 DEF Answered, Asks, RunTyped, Unread
<1>5. CASE Degraded(r)
  <2>1. PICK b \in NextBatch(r) :
           records'[r] = records[r] \cup b /\ pending'[r] = pending[r] \ b
    BY <1>0, <1>5 DEF Degraded, Shapes
  <2>2. b \subseteq pending[r]
    BY DEF NextBatch
  <2>3. asked'[r] \in 0..options'[r].calls
    BY <1>0, <1>5 DEF Degraded, Asks, RunTyped, Shapes
  <2> QED
    BY <1>0, <1>5, <2>1, <2>2, <2>3 DEF Degraded, Asks, RunTyped, Unread
<1>6. CASE Diagnosis(r)
  <2>1. pending'[r] \subseteq DOMAIN props[r]
    BY <1>0, <1>6 DEF Diagnosis, Shapes
  <2>2. pc'[r] = "fix"
    BY <1>0, <1>6 DEF Diagnosis, Goto
  <2> QED
    BY <1>0, <1>6, <2>1, <2>2 DEF Diagnosis, RunTyped, Unread
<1>7. ASSUME NEW s \in Slugs, Fix(r, s) PROVE RunTyped(r)' /\ Unread(r)'
  <2>1. pending'[r] \subseteq pending[r] /\ installed'[r] \subseteq installed[r] \cup {s}
    BY <1>0, <1>7 DEF Fix, Shapes
  <2> QED
    BY <1>0, <1>7, <2>1 DEF Fix, RunTyped, Unread
<1>8. CASE Fixed(r)
  BY <1>0, <1>8 DEF Fixed, Goto, run, RunTyped, Unread
<1>9. CASE Write(r)
  BY <1>0, <1>9 DEF Write, Goto, RunTyped, Unread
<1>10. CASE List(r)
  <2>1. known'[r] = OpenHashes(r) /\ pc'[r] = "file"
    BY <1>0, <1>10 DEF List, Goto, Shapes
  <2>2. OpenHashes(r) \subseteq Hash
    BY DEF OpenHashes, Typed, TypeOK, Issue
  <2> QED
    BY <1>0, <1>10, <2>1, <2>2 DEF List, RunTyped, Unread
<1>11. CASE Create(r)
  <2>1. PICK h \in Todo(r) : refs'[r] = refs[r] \cup {h}
    BY <1>0, <1>11 DEF Create, Shapes
  <2>2. h \in Hash
    BY <1>0, ClustersTyped DEF Todo
  <2> QED
    BY <1>0, <1>11, <2>1, <2>2 DEF Create, RunTyped, Unread
<1>12. CASE \/ Dropped(r) \/ WriteFails(r) \/ Unavailable(r) \/ TrackerFails(r)
            \/ Unhashable(r) \/ Filing(r) \/ Die(r)
  <2>1. pc'[r] = "ended"
    BY <1>0, <1>12, EndingSteps DEF End, Goto
  <2> QED
    BY <1>12, <2>1, EndingSteps, Ending DEF Unread
<1> QED
  BY <1>1, <1>2, <1>3, <1>4, <1>5, <1>6, <1>7, <1>8, <1>9, <1>10, <1>11, <1>12
     DEF RunStep, Work, Tracker

(* A step of a run keeps the types of what all share.                       *)
LEMMA WorldTyped ==
    ASSUME Typed, NEW r \in Runs, RunStep(r)
    PROVE  /\ note' \in [Slugs -> Notes \cup {None}]
           /\ changes' \in 0..MaxChanges
           /\ lock' \in Runs \cup {None}
           /\ pc' \in [Runs -> Phases]
           /\ options' \in [Runs -> Options]
           /\ issues' \subseteq Issue
           /\ exit' \in [Runs -> Outcomes]
<1> USE DEF Typed, TypeOK, Goto, Phases
<1>1. CASE Begin(r)
  <2>1. PICK o \in CommandLines : options' = [options EXCEPT ![r] = o]
    BY <1>1 DEF Begin
  <2>2. options' \in [Runs -> Options]
    BY <2>1, RemediationAssumption
  <2> QED
    BY <1>1, <2>2 DEF Begin, world
<1>2. CASE Acquire(r)
  BY <1>2 DEF Acquire, run
<1>3. CASE Read(r) \/ Diagnosis(r) \/ Write(r)
  BY <1>3 DEF Read, Diagnosis, Write, world
<1>4. CASE Answered(r) \/ Degraded(r)
  BY <1>4 DEF Answered, Degraded, world
<1>5. ASSUME NEW s \in Slugs, Fix(r, s)
      PROVE  /\ note' \in [Slugs -> Notes \cup {None}]
             /\ UNCHANGED <<changes, lock, pc, options, issues, exit>>
  BY <1>5 DEF Fix
<1>6. CASE Fixed(r)
  BY <1>6 DEF Fixed, run, world
<1>7. CASE List(r)
  BY <1>7 DEF List
<1>8. CASE Create(r) \/ TrackerFails(r)
  <2>1. \/ issues' = issues
        \/ \E h \in Clusters(props[r]) :
               issues' = issues \cup {[by |-> r, hash |-> h, open |-> TRUE]}
    BY <1>8 DEF Create, TrackerFails, Todo
  <2>2. Clusters(props[r]) \subseteq Hash
    BY RunsTyped, ClustersTyped
  <2>3. issues' \subseteq Issue
    <3>1. issues \subseteq Issue
      OBVIOUS
    <3>2. \A h \in Hash : [by |-> r, hash |-> h, open |-> TRUE] \in Issue
      BY DEF Issue
    <3>3. ASSUME NEW h \in Clusters(props[r]),
                 issues' = issues \cup {[by |-> r, hash |-> h, open |-> TRUE]}
          PROVE  issues' \subseteq Issue
      <4>1. [by |-> r, hash |-> h, open |-> TRUE] \in Issue
        BY <2>2, <3>2
      <4> QED
        BY <3>1, <3>3, <4>1
    <3> QED
      BY <2>1, <3>1, <3>3
  <2>4. CASE Create(r)
    BY <2>3, <2>4 DEF Create
  <2>5. CASE TrackerFails(r)
    <3>1. PICK code \in Outcomes : End(r, code)
      BY <2>5, EndingSteps
    <3>2. /\ pc' \in [Runs -> Phases] /\ options' \in [Runs -> Options]
          /\ exit' \in [Runs -> Outcomes] /\ lock' \in Runs \cup {None}
      BY <2>5, <3>1, EndingSteps, Ending
    <3> QED
      BY <2>3, <2>5, <3>2 DEF TrackerFails
  <2> QED
    BY <1>8, <2>4, <2>5
<1>9. CASE \/ Dropped(r) \/ WriteFails(r) \/ Unavailable(r)
           \/ Unhashable(r) \/ Filing(r) \/ Die(r)
  <2>1. issues' = issues
    BY <1>9 DEF Dropped, WriteFails, Unavailable, Unhashable, Filing, Die
  <2> QED
    BY <1>9, <2>1, EndingSteps, Ending
<1> QED
  BY <1>1, <1>2, <1>3, <1>4, <1>5, <1>6, <1>7, <1>8, <1>9 DEF RunStep, Work, Tracker

(* Types are kept by every step.                                            *)
LEMMA TypedKept == Typed /\ [Next]_vars => Typed'
<1> SUFFICES ASSUME Typed, [Next]_vars PROVE Typed'
  OBVIOUS
<1> USE DEF Typed
<1>0. \A r \in Runs : RunTyped(r)
  BY RunsTyped
<1>1. ASSUME NEW s \in Slugs, Reprobe(s) PROVE Typed'
  <2>1. note' \in [Slugs -> Notes \cup {None}] /\ changes' \in 0..MaxChanges
    BY <1>1, RemediationAssumption DEF Reprobe, TypeOK
  <2> QED
    BY <1>1, <2>1 DEF Reprobe, run, TypeOK, Shapes, Unread
<1>2. ASSUME NEW i \in issues, Close(i) PROVE Typed'
  <2>1. issues' \subseteq Issue
    <3>1. [i EXCEPT !.open = FALSE] \in Issue
      BY DEF TypeOK, Issue
    <3> QED
      BY <1>2, <3>1 DEF Close, TypeOK
  <2>2. changes' \in 0..MaxChanges
    BY <1>2, RemediationAssumption DEF Close, TypeOK
  <2> QED
    BY <1>2, <2>1, <2>2 DEF Close, run, TypeOK, Shapes, Unread
<1>3. ASSUME NEW r \in Runs, RunStep(r) PROVE Typed'
  <2>1. RunTyped(r)' /\ Unread(r)'
    BY <1>3, RunTypes
  <2>2. Shapes' /\ \A q \in Runs \ {r} : Alone(q)
    BY <1>3, OthersAlone
  <2>3. \A q \in Runs \ {r} : RunTyped(q)'
    BY <1>0, <2>2, AloneTyped
  <2>4. \A q \in Runs \ {r} : Unread(q)'
    BY <2>2 DEF Unread, Alone
  <2>5. \A q \in Runs : RunTyped(q)' /\ Unread(q)'
    BY <2>1, <2>3, <2>4
  <2>6. TypeOK'
    BY <1>3, <2>5, WorldTyped DEF TypeOK, RunTyped
  <2> QED
    BY <2>2, <2>5, <2>6
<1>4. CASE UNCHANGED vars
  BY <1>4 DEF vars, TypeOK, Shapes, Unread
<1> QED
  BY <1>1, <1>2, <1>3, <1>4 DEF Next, RunStep

(* Nothing has been read or filed at first.                                 *)
LEMMA TypedInit == Init => Typed
<1> SUFFICES ASSUME Init PROVE Typed
  OBVIOUS
<1>1. \A r \in Runs : /\ DOMAIN rows[r] = {} /\ DOMAIN props[r] = {} /\ pending[r] = {}
                      /\ asked[r] = 0 /\ records[r] = {} /\ installed[r] = {}
                      /\ known[r] = {} /\ refs[r] = {} /\ options[r].calls = 0
  BY DEF Init, NoNotes, NoProposals
<1>2. pc \in [Runs -> Phases] /\ options \in [Runs -> Options] /\ exit \in [Runs -> Outcomes]
  BY DEF Init, Phases, Options, Outcomes
<1>3. /\ note \in [Slugs -> Notes \cup {None}] /\ changes \in 0..MaxChanges
      /\ lock = None /\ issues = {}
  BY RemediationAssumption DEF Init
<1>4. TypeOK
  <2>1. \A r \in Runs : asked[r] \in 0..options[r].calls
    BY <1>1
  <2> QED
    BY <1>1, <1>2, <1>3, <2>1 DEF TypeOK
<1>5. Shapes /\ \A r \in Runs : Unread(r)
  BY <1>1 DEF Init, Shapes, Unread
<1> QED
  BY <1>4, <1>5 DEF Typed

(* Every variable of the remediation keeps its type, for any fleet, number  *)
(* of runs and command lines.                                               *)
THEOREM TypeCorrect == Spec => []TypeOK
<1>1. Typed => TypeOK
  BY DEF Typed
<1> QED
  BY TypedInit, TypedKept, <1>1, PTL DEF Spec
----
(* What a run knows of its own proposals. *)

(* Until the requests to Hermes are over nothing is installed, until the    *)
(* file is written there is none, and only a run that files has references. *)
Phased(r) ==
    /\ pc[r] \in {"idle", "wait", "read", "diagnose"} => installed[r] = {}
    /\ pc[r] \in {"idle", "wait", "read", "diagnose", "fix", "write"} => envelope[r] = {}
    /\ pc[r] \in {"list", "file"} => envelope[r] # {}
    /\ pc[r] # "file" => refs[r] = {}
    /\ pc[r] # "ended" => exit[r] = "none"

(* A row Hermes is still to be asked about has no verdict of its, a row to  *)
(* be fixed is one the fixer accepts.                                       *)
Queued(r) ==
    /\ pc[r] = "diagnose" =>
          \A s \in pending[r] : props[r][s] = Unknown /\ s \notin records[r]
    /\ pc[r] = "fix" =>
          \A s \in pending[r] : options[r].armed /\ Eligible(props[r][s])

Judged(r) ==
    \A s \in DOMAIN props[r] :
        /\ props[r][s].inferred => Classify(s, rows[r][s]) = Unknown
        /\ ~props[r][s].inferred => props[r][s] = Classify(s, rows[r][s])
        /\ s \in records[r] => props[r][s] = Unknown

Right(r) ==
    /\ Phased(r) /\ Queued(r) /\ Judged(r)
    /\ envelope[r] \subseteq {[props |-> props[r], records |-> records[r]]}
    /\ \A s \in installed[r] : options[r].armed /\ Eligible(props[r][s])

(* The classifier alone never marks a verdict inferred, and "unknown" is    *)
(* one verdict.                                                             *)
LEMMA ClassifyPlain ==
    ASSUME NEW s, NEW n
    PROVE  /\ ~Classify(s, n).inferred
           /\ Classify(s, n).class = "unknown" => Classify(s, n) = Unknown
           /\ Classify(s, n).class = "pip-3rd-party" =>
                 n.missing \in DOMAIN Mapped /\ Classify(s, n).target = Mapped[n.missing]
BY DEF Classify, MissingModule, Verdict, Unknown

(* A run that is left alone stays right.                                    *)
LEMMA AloneRight ==
    ASSUME NEW r \in Runs, Right(r), Alone(r)
    PROVE  Right(r)'
BY DEF Right, Phased, Queued, Judged, Alone

(* A step of a run keeps it right.                                          *)
LEMMA RightKept ==
    ASSUME Typed, NEW r \in Runs, Right(r), RunStep(r)
    PROVE  Right(r)'
<1>0. Shapes /\ RunTyped(r) /\ Unread(r) /\ pc \in [Runs -> Phases]
      /\ options \in [Runs -> Options] /\ exit \in [Runs -> Outcomes]
  BY RunsTyped DEF Typed, TypeOK
<1> USE <1>0 DEF Goto
<1>1. CASE Begin(r)
  <2>1. /\ rows' = rows /\ props' = props /\ records' = records /\ envelope' = envelope
        /\ installed' = installed /\ refs' = refs /\ exit' = exit
        /\ pc[r] = "idle" /\ pc'[r] \in {"wait", "read"}
    BY <1>1 DEF Begin
  <2> QED
    BY <2>1 DEF Right, Phased, Queued, Judged
<1>2. CASE Acquire(r)
  <2>1. UNCHANGED run /\ pc[r] = "wait" /\ pc'[r] = "read"
    BY <1>2 DEF Acquire
  <2> QED
    BY <2>1 DEF run, Right, Phased, Queued, Judged
<1>3. CASE Read(r)
  <2> DEFINE bad == {s \in Slugs : note[s] # None}
             ps  == [s \in bad |-> Classify(s, note[s])]
  <2>1. /\ rows'[r] = [s \in bad |-> note[s]] /\ props'[r] = ps
        /\ pending'[r] \subseteq Abstained(ps)
        /\ pc[r] = "read" /\ pc'[r] = "diagnose"
        /\ UNCHANGED <<records, installed, envelope, refs, exit>>
    BY <1>3 DEF Read, Shapes
  <2> HIDE DEF ps
  <2>2. DOMAIN ps = bad /\ \A s \in bad : ps[s] = Classify(s, rows'[r][s])
    BY <2>1 DEF ps
  <2>3. \A s \in bad : ~ps[s].inferred /\ (ps[s].class = "unknown" => ps[s] = Unknown)
    BY <2>2, ClassifyPlain
  <2>4. records'[r] = {} /\ installed'[r] = {} /\ envelope'[r] = {} /\ refs'[r] = {}
        /\ exit'[r] = "none"
    BY <2>1 DEF Unread
  <2>5. \A s \in pending'[r] : props'[r][s] = Unknown
    BY <2>1, <2>2, <2>3 DEF Abstained
  <2> QED
    BY <2>1, <2>2, <2>3, <2>4, <2>5 DEF Right, Phased, Queued, Judged
<1>4. CASE Answered(r)
  <2>1. PICK b \in NextBatch(r) : \E reply \in [b -> Replies \cup {None}] :
        /\ props' = [props EXCEPT ![r] = [s \in DOMAIN props[r] |->
                IF s \in b /\ reply[s] # None THEN Diagnosed(reply[s])
                ELSE props[r][s]]]
        /\ pending' = [pending EXCEPT ![r] = pending[r] \ b]
    BY <1>4 DEF Answered
  <2>2. PICK reply \in [b -> Replies \cup {None}] :
           /\ props'[r] = [s \in DOMAIN props[r] |->
                IF s \in b /\ reply[s] # None THEN Diagnosed(reply[s]) ELSE props[r][s]]
           /\ pending'[r] = pending[r] \ b
    BY <2>1 DEF Shapes
  <2>3. b \subseteq pending[r] /\ pc[r] = "diagnose"
        /\ UNCHANGED <<pc, options, rows, records, installed, envelope, refs, exit>>
    BY <1>4 DEF NextBatch, Answered, Asks
  <2>4. \A s \in b : props[r][s] = Unknown /\ s \notin records[r] /\ s \in DOMAIN props[r]
    BY <2>3 DEF Right, Queued, RunTyped
  <2>5. \A s \in b : Classify(s, rows[r][s]) = Unknown
    <3>1. ~Unknown.inferred
      BY DEF Unknown, Verdict
    <3> QED
      BY <2>4, <3>1 DEF Right, Judged
  <2>6. \A s \in DOMAIN props[r] \ b : props'[r][s] = props[r][s]
    BY <2>2
  <2>7. \A s \in b : props'[r][s].inferred \/ props'[r][s] = Unknown
    BY <2>2, <2>4 DEF Diagnosed
  <2>8. Judged(r)'
    BY <2>2, <2>3, <2>4, <2>5, <2>6, <2>7 DEF Right, Judged
  <2>9. Queued(r)'
    BY <2>2, <2>3, <2>6 DEF Right, Queued, RunTyped
  <2> QED
    BY <2>3, <2>8, <2>9 DEF Right, Phased
<1>5. CASE Degraded(r)
  <2>1. PICK b \in NextBatch(r) :
           records'[r] = records[r] \cup b /\ pending'[r] = pending[r] \ b
    BY <1>5 DEF Degraded, Shapes
  <2>2. b \subseteq pending[r] /\ pc[r] = "diagnose"
        /\ UNCHANGED <<pc, options, rows, props, installed, envelope, refs, exit>>
    BY <1>5 DEF NextBatch, Degraded, Asks
  <2> QED
    BY <2>1, <2>2 DEF Right, Phased, Queued, Judged
<1>6. CASE Diagnosis(r)
  <2>1. /\ pc[r] = "diagnose" /\ pc'[r] = "fix"
        /\ \A s \in pending'[r] : options[r].armed /\ Eligible(props[r][s])
        /\ UNCHANGED <<options, rows, props, records, installed, envelope, refs, exit>>
    BY <1>6 DEF Diagnosis, Shapes
  <2> QED
    BY <2>1 DEF Right, Phased, Queued, Judged
<1>7. ASSUME NEW s \in Slugs, Fix(r, s) PROVE Right(r)'
  <2>1. /\ pending'[r] \subseteq pending[r] /\ installed'[r] \subseteq installed[r] \cup {s}
        /\ s \in pending[r] /\ pc[r] = "fix"
        /\ UNCHANGED <<pc, options, rows, props, records, envelope, refs, exit>>
    BY <1>7 DEF Fix, Shapes
  <2> QED
    BY <2>1 DEF Right, Phased, Queued, Judged
<1>8. CASE Fixed(r)
  <2>1. UNCHANGED run /\ pc[r] = "fix" /\ pc'[r] = "write"
    BY <1>8 DEF Fixed
  <2> QED
    BY <2>1 DEF run, Right, Phased, Queued, Judged
<1>9. CASE Write(r)
  <2>1. /\ envelope'[r] = {[props |-> props[r], records |-> records[r]]}
        /\ pc[r] = "write" /\ pc'[r] = "list"
        /\ UNCHANGED <<options, rows, props, records, installed, refs, exit>>
    BY <1>9 DEF Write, Shapes
  <2> QED
    BY <2>1 DEF Right, Phased, Queued, Judged
<1>10. CASE List(r)
  <2>1. /\ pc[r] = "list" /\ pc'[r] = "file"
        /\ UNCHANGED <<options, rows, props, records, installed, envelope, refs, exit>>
    BY <1>10 DEF List
  <2> QED
    BY <2>1 DEF Right, Phased, Queued, Judged
<1>11. CASE Create(r)
  <2>1. /\ pc[r] = "file"
        /\ UNCHANGED <<pc, options, rows, props, records, installed, envelope, exit>>
    BY <1>11 DEF Create
  <2> QED
    BY <2>1 DEF Right, Phased, Queued, Judged
<1>12. CASE \/ Dropped(r) \/ WriteFails(r) \/ Unavailable(r) \/ TrackerFails(r)
            \/ Unhashable(r) \/ Filing(r) \/ Die(r)
  <2>1. /\ pc'[r] = "ended" /\ refs'[r] = {}
        /\ UNCHANGED <<options, rows, props, records, installed, envelope>>
    BY <1>12, EndingSteps DEF End, Shapes
  <2> QED
    BY <2>1 DEF Right, Phased, Queued, Judged
<1> QED
  BY <1>1, <1>2, <1>3, <1>4, <1>5, <1>6, <1>7, <1>8, <1>9, <1>10, <1>11, <1>12
     DEF RunStep, Work, Tracker

AllRight == Typed /\ \A r \in Runs : Right(r)

(* The prober and the tracker touch no run.                                 *)
LEMMA OutsideSteps ==
    ASSUME \/ \E s \in Slugs : Reprobe(s)
           \/ \E i \in issues : Close(i)
           \/ UNCHANGED vars
    PROVE  /\ \A r \in Runs : Alone(r)
           /\ UNCHANGED <<lock, pc, options, overlapped>>
BY DEF Reprobe, Close, vars, run, Alone

(* Every run stays right.                                                   *)
LEMMA AllRightKept == AllRight /\ [Next]_vars => AllRight'
<1> SUFFICES ASSUME AllRight, [Next]_vars PROVE AllRight'
  OBVIOUS
<1>1. Typed'
  BY TypedKept DEF AllRight
<1>2. ASSUME NEW r \in Runs, RunStep(r) PROVE AllRight'
  <2>1. Right(r)'
    BY <1>2, RightKept DEF AllRight
  <2>2. \A q \in Runs \ {r} : Alone(q)
    BY <1>2, OthersAlone DEF AllRight
  <2>3. \A q \in Runs \ {r} : Right(q)'
    BY <2>2, AloneRight DEF AllRight
  <2> QED
    BY <1>1, <2>1, <2>3 DEF AllRight
<1>3. CASE \/ \E s \in Slugs : Reprobe(s)
           \/ \E i \in issues : Close(i)
           \/ UNCHANGED vars
  <2>1. \A r \in Runs : Alone(r)
    BY <1>3, OutsideSteps
  <2>2. \A r \in Runs : Right(r)'
    BY <2>1, AloneRight DEF AllRight
  <2> QED
    BY <1>1, <2>2 DEF AllRight
<1> QED
  BY <1>2, <1>3 DEF Next, RunStep

(* No run has concluded anything at first.                                  *)
LEMMA AllRightInit == Init => AllRight
<1> SUFFICES ASSUME Init, NEW r \in Runs PROVE Right(r)
  BY TypedInit DEF AllRight
<1>1. /\ pc[r] = "idle" /\ DOMAIN props[r] = {} /\ installed[r] = {}
      /\ envelope[r] = {} /\ refs[r] = {} /\ exit[r] = "none"
  BY DEF Init, NoProposals
<1> QED
  BY <1>1 DEF Right, Phased, Queued, Judged

(* Hermes decides about abstained rows only, failed requests leave them     *)
(* unknown, and the file says so: for any replies, batches and deaths.      *)
THEOREM HermesVerdictsStand == Spec => []VerdictsStand
<1>1. AllRight => VerdictsStand
  BY DEF AllRight, Right, Judged, VerdictsStand
<1> QED
  BY AllRightInit, AllRightKept, <1>1, PTL DEF Spec

(* What Hermes says is never installed.                                     *)
THEOREM OnlyMappedIsInstalled == Spec => []OnlyMappedInstalled
<1>1. AllRight => OnlyMappedInstalled
  <2> SUFFICES ASSUME AllRight, NEW r \in Runs, NEW s \in installed[r]
               PROVE  /\ options[r].armed
                      /\ rows[r][s].missing \in DOMAIN Mapped
                      /\ props[r][s].target = Mapped[rows[r][s].missing]
    BY DEF OnlyMappedInstalled
  <2>1. options[r].armed /\ Eligible(props[r][s]) /\ s \in DOMAIN props[r]
    BY RunsTyped DEF AllRight, Right, RunTyped
  <2>2. props[r][s] = Classify(s, rows[r][s]) /\ props[r][s].class = "pip-3rd-party"
    BY <2>1 DEF AllRight, Right, Judged, Eligible
  <2> QED
    BY <2>1, <2>2, ClassifyPlain
<1> QED
  BY AllRightInit, AllRightKept, <1>1, PTL DEF Spec
----
(* Files and issues. *)

(* An armed run that is at work holds the lock.                             *)
Locked ==
    \A r \in Runs :
        options[r].armed /\ pc[r] \notin {"idle", "wait", "ended"} => lock = r

(* The lock is kept by its holder.                                          *)
LEMMA LockedKept == Typed /\ Locked /\ [Next]_vars => Locked'
<1> SUFFICES ASSUME Typed, Locked, [Next]_vars, NEW q \in Runs,
                    options'[q].armed, pc'[q] \notin {"idle", "wait", "ended"}
             PROVE  lock' = q
  BY DEF Locked
<1>0. pc \in [Runs -> Phases] /\ options \in [Runs -> Options] /\ None \notin Runs
  BY RemediationAssumption DEF Typed, TypeOK
<1>1. CASE (\E s \in Slugs : Reprobe(s)) \/ (\E i \in issues : Close(i)) \/ UNCHANGED vars
  BY <1>1, OutsideSteps DEF Locked
<1>2. ASSUME NEW r \in Runs, RunStep(r) PROVE lock' = q
  <2>1. CASE Begin(r)
    <3>1. lock' = lock /\ (~options'[r].armed \/ pc'[r] = "wait")
      BY <1>0, <2>1 DEF Begin, Goto, world, Typed, TypeOK
    <3>2. q # r => pc'[q] = pc[q] /\ options'[q] = options[q]
      BY <1>2, OthersAlone DEF Alone
    <3> QED
      BY <3>1, <3>2 DEF Locked
  <2>2. CASE Acquire(r)
    <3>1. lock = None /\ lock' = r
      BY <2>2 DEF Acquire
    <3>2. q # r => pc'[q] = pc[q] /\ options'[q] = options[q]
      BY <1>2, OthersAlone DEF Alone
    <3> QED
      BY <1>0, <3>1, <3>2 DEF Locked
  <2>3. CASE \/ Read(r) \/ Answered(r) \/ Degraded(r) \/ Diagnosis(r)
             \/ (\E s \in Slugs : Fix(r, s)) \/ Fixed(r)
             \/ Write(r) \/ List(r) \/ Create(r)
    <3>1. UNCHANGED <<lock, options>>
      BY <2>3 DEF Read, Answered, Degraded, Diagnosis, Fix, Fixed, Write, List, Create, run, world
    <3>2. pc[r] \notin {"idle", "wait", "ended"}
      BY <2>3 DEF Read, Answered, Degraded, Diagnosis, Fix, Fixed, Write, List, Create, Asks
    <3>3. q # r => pc'[q] = pc[q]
      BY <1>2, OthersAlone DEF Alone
    <3> QED
      BY <3>1, <3>2, <3>3 DEF Locked
  <2>4. CASE \/ Dropped(r) \/ WriteFails(r) \/ Unavailable(r) \/ TrackerFails(r)
             \/ Unhashable(r) \/ Filing(r) \/ Die(r)
    <3>1. /\ options' = options /\ pc' = [pc EXCEPT ![r] = "ended"]
          /\ lock' = IF lock = r THEN None ELSE lock
      BY <2>4, EndingSteps DEF End, Goto
    <3> QED
      BY <1>0, <3>1 DEF Locked
  <2> QED
    BY <1>2, <2>1, <2>2, <2>3, <2>4 DEF RunStep, Work, Tracker
<1> QED
  BY <1>1, <1>2 DEF Next, RunStep

(* An issue is of a cluster of the file its run wrote; while the run files, *)
(* it remembers.                                                            *)
Recorded ==
    \A i \in issues :
        /\ options[i.by].file /\ pc[i.by] \in {"file", "ended"} /\ envelope[i.by] # {}
        /\ i.hash \in Clusters(props[i.by])
        /\ pc[i.by] = "file" => i.hash \in refs[i.by]

(* What a run takes for filed is filed, and all of it when it says so.      *)
Issued(h) == \E i \in issues : i.hash = h
Accounted ==
    \A r \in Runs : options[r].file =>
        /\ pc[r] = "file" => \A h \in known[r] \cup refs[r] : Issued(h)
        /\ exit[r] = "filed" => \A h \in Clusters(props[r]) : Issued(h)

(* A run that files knows the open issues of the others, unless they filed  *)
(* at the same time.                                                        *)
IsFiling(r) == pc[r] = "file" /\ options[r].file
Seen ==
    \A r \in Runs : IsFiling(r) =>
        \A i \in issues : i.open /\ i.by # r => i.hash \in known[r] \/ {r, i.by} \in overlapped
Paired ==
    \A q, r \in Runs : q # r /\ IsFiling(q) /\ IsFiling(r) => {q, r} \in overlapped

(* One of two runs that filed at the same time was not armed.               *)
Unarmed ==
    \A p \in overlapped : \E q \in p : q \in Runs /\ ~options[q].armed /\ pc[q] # "idle"
Once ==
    \A i, j \in issues :
        i # j /\ i.open /\ j.open /\ i.hash = j.hash => {i.by, j.by} \in overlapped

FilingRight == Recorded /\ Accounted /\ Seen /\ Paired /\ Unarmed /\ Once

Inv == AllRight /\ Locked /\ FilingRight

(* Steps of a run that file nothing and list nothing.                       *)
LEMMA QuietKeeps ==
    ASSUME FilingRight, issues \subseteq Issue, NEW r \in Runs,
           \A q \in Runs \ {r} : Alone(q),
           UNCHANGED <<issues, overlapped>>,
           pc[r] # "ended", pc'[r] \notin {"idle", "file"},
           pc[r] # "idle" => options'[r] = options[r],
           pc[r] = "file" => /\ pc'[r] = "ended" /\ props'[r] = props[r]
                             /\ envelope'[r] = envelope[r],
           exit'[r] = "filed" => pc[r] = "file" /\ Todo(r) = {}
    PROVE  FilingRight'
<1>0. \A i \in issues : i.by \in Runs
  BY DEF Issue
<1>1. Recorded'
  <2> SUFFICES ASSUME NEW i \in issues
      PROVE  /\ options'[i.by].file /\ pc'[i.by] \in {"file", "ended"} /\ envelope'[i.by] # {}
             /\ i.hash \in Clusters(props'[i.by])
             /\ pc'[i.by] = "file" => i.hash \in refs'[i.by]
    BY DEF Recorded, Clusters, Filed, HashOf
  <2>1. /\ i.by \in Runs
        /\ options[i.by].file /\ pc[i.by] \in {"file", "ended"} /\ envelope[i.by] # {}
        /\ i.hash \in Clusters(props[i.by])
        /\ pc[i.by] = "file" => i.hash \in refs[i.by]
    BY <1>0 DEF FilingRight, Recorded
  <2>2. CASE i.by = r
    BY <2>1, <2>2
  <2>3. CASE i.by # r
    <3>1. Alone(i.by)
      BY <2>1, <2>3
    <3> QED
      BY <2>1, <3>1 DEF Alone
  <2> QED
    BY <2>2, <2>3
<1>2. Accounted'
  <2>1. ASSUME NEW q \in Runs \ {r} PROVE
           options'[q].file =>
              /\ pc'[q] = "file" => \A h \in known'[q] \cup refs'[q] : Issued(h)'
              /\ exit'[q] = "filed" => \A h \in Clusters(props'[q]) : Issued(h)'
    <3>1. \A h : Issued(h)' <=> Issued(h)
      BY DEF Issued
    <3>2. /\ options'[q] = options[q] /\ pc'[q] = pc[q] /\ exit'[q] = exit[q]
          /\ known'[q] = known[q] /\ refs'[q] = refs[q] /\ props'[q] = props[q]
      BY <2>1 DEF Alone
    <3> QED
      BY <3>1, <3>2 DEF FilingRight, Accounted
  <2>2. options'[r].file =>
              /\ pc'[r] = "file" => \A h \in known'[r] \cup refs'[r] : Issued(h)'
              /\ exit'[r] = "filed" => \A h \in Clusters(props'[r]) : Issued(h)'
    BY DEF FilingRight, Accounted, Issued, Todo
  <2> QED
    BY <2>1, <2>2 DEF Accounted, Clusters, Filed, HashOf
<1>3. Seen' /\ Paired'
  BY DEF FilingRight, Seen, Paired, IsFiling, Alone
<1>4. Unarmed' /\ Once'
  BY DEF FilingRight, Unarmed, Once, Alone
<1> QED
  BY <1>1, <1>2, <1>3, <1>4 DEF FilingRight

(* A run that files one more cluster, or tries to and stops.                *)
LEMMA FilingKeeps ==
    ASSUME FilingRight, issues \subseteq Issue, NEW r \in Runs, Shapes, NEW h \in Todo(r),
           \A q \in Runs \ {r} : Alone(q),
           pc[r] = "file", exit[r] = "none", envelope[r] # {},
           UNCHANGED <<overlapped, options, props, envelope>>,
           \/ issues' = issues
           \/ options[r].file /\ issues' = issues \cup {[by |-> r, hash |-> h, open |-> TRUE]},
           \/ /\ UNCHANGED <<pc, known, exit>>
              /\ refs' = [refs EXCEPT ![r] = refs[r] \cup {h}]
              /\ options[r].file => [by |-> r, hash |-> h, open |-> TRUE] \in issues'
           \/ pc'[r] = "ended" /\ exit'[r] # "filed"
    PROVE  FilingRight'
<1> DEFINE new == [by |-> r, hash |-> h, open |-> TRUE]
<1>0. /\ \A i \in issues : i.by \in Runs
      /\ new.by = r /\ new.hash = h
      /\ h \in Clusters(props[r]) /\ h \notin known[r] \cup refs[r]
      /\ \A q \in Runs : Clusters(props[q])' = Clusters(props[q])
  BY DEF Issue, Todo, Clusters, Filed, HashOf
<1>1. issues \subseteq issues' /\ \A i \in issues' : i \in issues \/ (i = new /\ options[r].file)
  OBVIOUS
<1> HIDE DEF new
<1>2. pc'[r] \in {"file", "ended"} /\ (pc'[r] = "file" => refs'[r] = refs[r] \cup {h})
  BY DEF Shapes
<1>3. Recorded'
  <2> SUFFICES ASSUME NEW i \in issues'
               PROVE  /\ options'[i.by].file /\ pc'[i.by] \in {"file", "ended"}
                      /\ envelope'[i.by] # {}
                      /\ i.hash \in Clusters(props'[i.by])
                      /\ pc'[i.by] = "file" => i.hash \in refs'[i.by]
    BY DEF Recorded
  <2>1. CASE i \in issues
    BY <1>0, <1>2, <2>1 DEF FilingRight, Recorded, Alone
  <2>2. CASE i = new /\ options[r].file
    BY <1>0, <1>2, <2>2
  <2> QED
    BY <1>1, <2>1, <2>2
<1>4. Accounted'
  <2>1. \A g : Issued(g) => Issued(g)'
    BY <1>1 DEF Issued
  <2>2. ASSUME NEW q \in Runs \ {r}, options'[q].file
        PROVE  /\ pc'[q] = "file" => \A g \in known'[q] \cup refs'[q] : Issued(g)'
               /\ exit'[q] = "filed" => \A g \in Clusters(props[q]) : Issued(g)'
    BY <2>1, <2>2 DEF FilingRight, Accounted, Alone
  <2>3. ASSUME options'[r].file
        PROVE  /\ pc'[r] = "file" => \A g \in known'[r] \cup refs'[r] : Issued(g)'
               /\ exit'[r] # "filed"
    <3>1. CASE pc'[r] = "ended" /\ exit'[r] # "filed"
      BY <3>1
    <3>2. CASE /\ UNCHANGED <<pc, known, exit>>
               /\ refs' = [refs EXCEPT ![r] = refs[r] \cup {h}]
               /\ options[r].file => new \in issues'
      <4>1. Issued(h)'
        BY <1>0, <2>3, <3>2 DEF Issued
      <4>2. \A g \in known[r] \cup refs[r] : Issued(g)'
        BY <2>1, <2>3 DEF FilingRight, Accounted
      <4> QED
        BY <1>2, <3>2, <4>1, <4>2
    <3> QED
      BY <3>1, <3>2 DEF new
  <2> QED
    BY <1>0, <2>2, <2>3 DEF Accounted
<1>5. Seen'
  <2> SUFFICES ASSUME NEW q \in Runs, pc'[q] = "file", options'[q].file,
                      NEW i \in issues', i.open, i.by # q
               PROVE  i.hash \in known'[q] \/ {q, i.by} \in overlapped'
    BY DEF Seen, IsFiling
  <2>1. pc[q] = "file" /\ options[q].file /\ known'[q] = known[q]
    BY DEF Alone
  <2>2. CASE i \in issues
    BY <2>1, <2>2 DEF FilingRight, Seen, IsFiling
  <2>3. CASE i = new /\ options[r].file
    BY <1>0, <2>1, <2>3 DEF FilingRight, Paired, IsFiling
  <2> QED
    BY <1>1, <2>2, <2>3
<1>6. Paired' /\ Unarmed'
  BY <1>2 DEF FilingRight, Paired, Unarmed, IsFiling, Alone
<1>7. Once'
  <2>1. ASSUME options[r].file, NEW i \in issues, i.open, i.hash = h
        PROVE  {i.by, r} \in overlapped
    <3>1. i.by # r
      BY <1>0, <2>1 DEF FilingRight, Recorded
    <3>2. {r, i.by} \in overlapped
      BY <1>0, <2>1, <3>1 DEF FilingRight, Seen, IsFiling
    <3>3. {r, i.by} = {i.by, r}
      OBVIOUS
    <3> QED
      BY <3>2, <3>3
  <2> SUFFICES ASSUME NEW i \in issues', NEW j \in issues',
                      i # j, i.open, j.open, i.hash = j.hash
               PROVE  {i.by, j.by} \in overlapped
    BY DEF Once
  <2>2. CASE i \in issues /\ j \in issues
    BY <2>2 DEF FilingRight, Once
  <2>3. CASE i \in issues /\ j = new /\ options[r].file
    BY <1>0, <2>1, <2>3
  <2>4. CASE j \in issues /\ i = new /\ options[r].file
    <3>1. {j.by, r} \in overlapped /\ {j.by, r} = {r, j.by}
      BY <1>0, <2>1, <2>4
    <3> QED
      BY <1>0, <2>4, <3>1
  <2> QED
    BY <1>1, <2>2, <2>3, <2>4
<1> QED
  BY <1>3, <1>4, <1>5, <1>6, <1>7 DEF FilingRight

(* A run that has listed the open issues knows them, and is known to        *)
(* overlap with those that file already.                                    *)
LEMMA ListKeeps ==
    ASSUME Typed, Locked, FilingRight, NEW r \in Runs, Right(r), List(r)
    PROVE  FilingRight'
<1>1. /\ pc[r] = "list" /\ pc' = [pc EXCEPT ![r] = "file"] /\ pc'[r] = "file"
      /\ known' = [known EXCEPT ![r] = OpenHashes(r)] /\ known'[r] = OpenHashes(r)
      /\ refs'[r] = {} /\ exit'[r] = "none"
      /\ overlapped' = overlapped \cup {{r, q} : q \in FilingNow(r)}
      /\ UNCHANGED <<issues, lock, options, props, envelope, refs, exit>>
  BY DEF List, Goto, Right, Phased, Typed, TypeOK, Shapes
<1>2. \A q \in Runs \ {r} : pc'[q] = pc[q] /\ known'[q] = known[q]
  BY <1>1 DEF Typed, TypeOK, Shapes
<1>3. \A i \in issues : i.by \in Runs
  BY DEF Typed, TypeOK, Issue
<1>4. Recorded'
  BY <1>1, <1>2, <1>3 DEF FilingRight, Recorded, Clusters, Filed, HashOf
<1>5. Accounted'
  <2>1. options[r].file => \A h \in OpenHashes(r) : Issued(h)
    BY DEF OpenHashes, Issued
  <2>2. \A h : Issued(h)' <=> Issued(h)
    BY <1>1 DEF Issued
  <2>3. \A q \in Runs : Clusters(props[q])' = Clusters(props[q])
    BY <1>1 DEF Clusters, Filed, HashOf
  <2>4. ASSUME NEW q \in Runs, options'[q].file
        PROVE  /\ pc'[q] = "file" => \A h \in known'[q] \cup refs'[q] : Issued(h)
               /\ exit'[q] = "filed" => \A h \in Clusters(props[q]) : Issued(h)
    <3>1. CASE q = r
      BY <1>1, <2>1, <2>4, <3>1
    <3>2. CASE q # r
      BY <1>1, <1>2, <2>4, <3>2 DEF FilingRight, Accounted
    <3> QED
      BY <3>1, <3>2
  <2> QED
    BY <2>2, <2>3, <2>4 DEF Accounted
<1>6. Seen'
  <2>1. options[r].file => \A i \in issues : i.open => i.hash \in OpenHashes(r)
    BY DEF OpenHashes
  <2> QED
    BY <1>1, <1>2, <2>1 DEF FilingRight, Seen, IsFiling
<1>7. Paired'
  <2>1. \A q \in Runs \ {r} : options[r].file /\ IsFiling(q) => {r, q} \in overlapped'
    BY <1>1 DEF FilingNow, IsFiling
  <2>2. \A q : {r, q} = {q, r}
    OBVIOUS
  <2>3. \A q \in Runs \ {r} : IsFiling(q)' = IsFiling(q)
    BY <1>1, <1>2 DEF IsFiling
  <2> SUFFICES ASSUME NEW p \in Runs, NEW q \in Runs, p # q, IsFiling(p)', IsFiling(q)'
               PROVE  {p, q} \in overlapped'
    BY DEF Paired
  <2>4. CASE p = r
    BY <1>1, <2>1, <2>3, <2>4 DEF IsFiling
  <2>5. CASE q = r
    BY <1>1, <2>1, <2>2, <2>3, <2>5 DEF IsFiling
  <2>6. CASE p # r /\ q # r
    BY <1>1, <2>3, <2>6 DEF FilingRight, Paired
  <2> QED
    BY <2>4, <2>5, <2>6
<1>8. Unarmed'
  <2>1. ASSUME NEW q \in FilingNow(r)
        PROVE  \E m \in {r, q} : m \in Runs /\ ~options[m].armed /\ pc[m] # "idle"
    <3>1. q \in Runs /\ q # r /\ pc[q] = "file"
      BY DEF FilingNow
    <3>2. ~options[r].armed \/ ~options[q].armed
      BY <1>1, <3>1 DEF Locked
    <3> QED
      BY <1>1, <3>1, <3>2
  <2>2. \A p \in overlapped' : \E m \in p : m \in Runs /\ ~options[m].armed /\ pc[m] # "idle"
    BY <1>1, <2>1 DEF FilingRight, Unarmed
  <2>3. \A m \in Runs : pc[m] # "idle" => pc'[m] # "idle"
    BY <1>1, <1>2
  <2> QED
    BY <1>1, <2>2, <2>3 DEF Unarmed
<1>9. Once'
  BY <1>1 DEF FilingRight, Once
<1> QED
  BY <1>4, <1>5, <1>6, <1>7, <1>8, <1>9 DEF FilingRight

(* A human who closes an issue takes nothing back.                          *)
LEMMA CloseKeeps ==
    ASSUME FilingRight, issues \subseteq Issue, NEW i \in issues, Close(i)
    PROVE  FilingRight'
<1> DEFINE closed == [i EXCEPT !.open = FALSE]
<1>1. closed.by = i.by /\ closed.hash = i.hash /\ ~closed.open
  BY DEF Issue
<1>2. /\ issues' = (issues \ {i}) \cup {closed}
      /\ UNCHANGED <<pc, options, props, envelope, known, refs, exit, overlapped>>
  BY DEF Close, run
<1> HIDE DEF closed
<1>3. \A j \in issues' : /\ \E k \in issues : k.by = j.by /\ k.hash = j.hash
                         /\ j.open => j \in issues
  BY <1>1, <1>2
<1>4. Recorded'
  <2> SUFFICES ASSUME NEW j \in issues'
      PROVE  /\ options[j.by].file /\ pc[j.by] \in {"file", "ended"} /\ envelope[j.by] # {}
             /\ j.hash \in Clusters(props[j.by])
             /\ pc[j.by] = "file" => j.hash \in refs[j.by]
    BY <1>2 DEF Recorded, Clusters, Filed, HashOf
  <2>1. PICK k \in issues : k.by = j.by /\ k.hash = j.hash
    BY <1>3
  <2> QED
    BY <2>1 DEF FilingRight, Recorded
<1>5. Accounted'
  <2>1. \A h : Issued(h) => Issued(h)'
    BY <1>1, <1>2 DEF Issued
  <2> QED
    BY <1>2, <2>1 DEF FilingRight, Accounted, Clusters, Filed, HashOf
<1>6. Seen' /\ Paired' /\ Unarmed' /\ Once'
  BY <1>2, <1>3 DEF FilingRight, Seen, Paired, Unarmed, Once, IsFiling
<1> QED
  BY <1>4, <1>5, <1>6 DEF FilingRight

(* The invariant that the three filing properties need, step by step.       *)
LEMMA InvKept == Inv /\ [Next]_vars => Inv'
<1> SUFFICES ASSUME Inv, [Next]_vars PROVE Inv'
  OBVIOUS
<1>0. /\ Typed /\ Locked /\ FilingRight /\ issues \subseteq Issue /\ Shapes
      /\ \A r \in Runs : Right(r)
  BY DEF Inv, AllRight, Typed, TypeOK
<1>1. AllRight' /\ Locked'
  BY AllRightKept, LockedKept DEF Inv, AllRight
<1> SUFFICES FilingRight'
  BY <1>1 DEF Inv
<1>2. ASSUME NEW i \in issues, Close(i) PROVE FilingRight'
  BY <1>0, <1>2, CloseKeeps
<1>3. CASE (\E s \in Slugs : Reprobe(s)) \/ UNCHANGED vars
  <2>1. UNCHANGED <<issues, overlapped, pc, options, props, envelope, known, refs, exit>>
    BY <1>3 DEF Reprobe, vars, run
  <2>2. Recorded' /\ Accounted'
    BY <1>0, <2>1 DEF FilingRight, Recorded, Accounted, Issued, Clusters, Filed, HashOf
  <2>3. Seen' /\ Paired' /\ Unarmed' /\ Once'
    BY <1>0, <2>1 DEF FilingRight, Seen, Paired, IsFiling, Unarmed, Once
  <2> QED
    BY <2>2, <2>3 DEF FilingRight
<1>4. ASSUME NEW r \in Runs, RunStep(r) PROVE FilingRight'
  <2>0. /\ \A q \in Runs \ {r} : Alone(q)
        /\ pc \in [Runs -> Phases]
        /\ pc[r] # "ended" => exit[r] = "none"
    BY <1>0, <1>4, OthersAlone DEF Right, Phased, Typed, TypeOK
  <2>1. CASE \/ Begin(r) \/ Acquire(r) \/ Read(r) \/ Answered(r) \/ Degraded(r)
             \/ Diagnosis(r) \/ (\E s \in Slugs : Fix(r, s)) \/ Fixed(r) \/ Write(r)
    <3>1. /\ pc[r] \notin {"file", "ended"}
          /\ UNCHANGED <<issues, overlapped, exit>>
      BY <2>1 DEF Begin, Acquire, Read, Answered, Degraded, Diagnosis, Fix, Fixed, Write,
                  Asks, run, world
    <3>2. CASE Begin(r)
      <4>1. pc[r] = "idle" /\ pc'[r] \in {"wait", "read"}
        BY <2>0, <3>2 DEF Begin, Goto
      <4> QED
        BY <1>0, <2>0, <3>1, <4>1, QuietKeeps
    <3>3. CASE \/ Acquire(r) \/ Read(r) \/ Answered(r) \/ Degraded(r) \/ Diagnosis(r)
               \/ (\E s \in Slugs : Fix(r, s)) \/ Fixed(r) \/ Write(r)
      <4>1. options' = options
        BY <3>3 DEF Acquire, Read, Answered, Degraded, Diagnosis, Fix, Fixed, Write, run
      <4>2. pc'[r] \notin {"idle", "file"}
        <5>1. CASE Acquire(r) \/ Read(r) \/ Diagnosis(r) \/ Fixed(r) \/ Write(r)
          BY <2>0, <5>1 DEF Acquire, Read, Diagnosis, Fixed, Write, Goto
        <5>2. CASE Answered(r) \/ Degraded(r) \/ (\E s \in Slugs : Fix(r, s))
          BY <5>2 DEF Answered, Degraded, Fix, Asks
        <5> QED
          BY <3>3, <5>1, <5>2
      <4> QED
        BY <1>0, <2>0, <3>1, <4>1, <4>2, QuietKeeps
    <3> QED
      BY <2>1, <3>2, <3>3
  <2>2. CASE List(r)
    BY <1>0, <2>2, ListKeeps
  <2>3. CASE Create(r)
    <3>1. PICK h \in Todo(r) :
             /\ refs' = [refs EXCEPT ![r] = refs[r] \cup {h}]
             /\ issues' = IF options[r].file THEN issues \cup {[by |-> r, hash |-> h, open |-> TRUE]}
                          ELSE issues
      BY <2>3 DEF Create
    <3>2. /\ pc[r] = "file" /\ envelope[r] # {} /\ exit[r] = "none"
          /\ UNCHANGED <<overlapped, options, props, envelope, pc, known, exit>>
      BY <1>0, <2>3 DEF Create, Right, Phased
    <3> QED
      BY <1>0, <2>0, <3>1, <3>2, FilingKeeps
  <2>4. CASE TrackerFails(r) /\ issues' # issues
    <3>1. PICK h \in Todo(r) : issues' = issues \cup {[by |-> r, hash |-> h, open |-> TRUE]}
      BY <2>4 DEF TrackerFails
    <3>2. /\ pc[r] = "file" /\ options[r].file /\ envelope[r] # {} /\ exit[r] = "none"
          /\ UNCHANGED <<overlapped, options, props, envelope>>
          /\ pc'[r] = "ended" /\ exit'[r] # "filed"
      BY <1>0, <2>0, <2>4 DEF TrackerFails, End, Goto, Right, Phased, Typed, TypeOK
    <3> QED
      BY <1>0, <2>0, <3>1, <3>2, FilingKeeps
  <2>5. CASE \/ Dropped(r) \/ WriteFails(r) \/ Unavailable(r) \/ Unhashable(r) \/ Filing(r)
             \/ Die(r) \/ (TrackerFails(r) /\ issues' = issues)
    <3>1. /\ pc'[r] = "ended" /\ pc[r] # "ended"
          /\ UNCHANGED <<issues, overlapped, options, props, envelope>>
      <4>1. PICK code \in Outcomes : End(r, code)
        BY <2>5, EndingSteps
      <4>2. UNCHANGED <<overlapped, options, props, envelope>>
        BY <2>5, EndingSteps
      <4>3. issues' = issues /\ pc[r] # "ended"
        BY <2>5 DEF Dropped, WriteFails, Unavailable, Unhashable, Filing, Die, TrackerFails, Asks
      <4> QED
        BY <2>0, <4>1, <4>2, <4>3 DEF End, Goto
    <3>2. exit'[r] = "filed" => pc[r] = "file" /\ Todo(r) = {}
      BY <1>0, <2>5 DEF Dropped, WriteFails, Unavailable, Unhashable, Filing, Die, TrackerFails,
                        End, Typed, TypeOK
    <3> QED
      BY <1>0, <2>0, <3>1, <3>2, QuietKeeps
  <2> QED
    BY <1>4, <2>1, <2>2, <2>3, <2>4, <2>5 DEF RunStep, Work, Tracker
<1> QED
  <2>1. Next => \/ \E s \in Slugs : Reprobe(s)
                \/ \E i \in issues : Close(i)
                \/ \E r \in Runs : RunStep(r)
    BY DEF Next, RunStep
  <2> QED
    BY <1>2, <1>3, <1>4, <2>1

(* There is no issue, and nobody files, at first.                           *)
LEMMA InvInit == Init => Inv
<1> SUFFICES ASSUME Init PROVE Inv
  OBVIOUS
<1>1. issues = {} /\ overlapped = {} /\ \A r \in Runs : pc[r] = "idle" /\ exit[r] = "none"
  BY DEF Init
<1>2. Locked /\ FilingRight
  BY <1>1 DEF Locked, FilingRight, Recorded, Accounted, Seen, Paired, IsFiling, Unarmed, Once
<1> QED
  BY <1>2, AllRightInit DEF Inv

(* Whatever was filed before a run died is a cluster of the file that run   *)
(* wrote.                                                                   *)
THEOREM EnvelopeBeforeIssues == Spec => []EnvelopeFirst
<1>1. Inv => EnvelopeFirst
  <2> SUFFICES ASSUME Inv, NEW i \in issues
               PROVE  \E file \in envelope[i.by] : i.hash \in Clusters(file.props)
    BY DEF EnvelopeFirst
  <2>1. /\ i.by \in Runs /\ envelope[i.by] # {} /\ i.hash \in Clusters(props[i.by])
    BY DEF Inv, AllRight, Typed, TypeOK, Issue, FilingRight, Recorded
  <2>2. PICK file \in envelope[i.by] : TRUE
    BY <2>1
  <2>3. file.props = props[i.by]
    BY <2>1, <2>2 DEF Inv, AllRight, Right
  <2> QED
    BY <2>1, <2>2, <2>3
<1> QED
  BY InvInit, InvKept, <1>1, PTL DEF Spec

(* However many runs overlap, die and are run again: two open issues of one *)
(* cluster are of runs that filed at the same time, one of them not armed.  *)
THEOREM IssuedOnce == Spec => []IssueOnce
<1>1. Inv => IssueOnce
  BY DEF Inv, AllRight, Typed, TypeOK, Issue, FilingRight, Once, Unarmed, IssueOnce
<1> QED
  BY InvInit, InvKept, <1>1, PTL DEF Spec

(* A run that reports its issues filed has left no row out.                 *)
THEOREM NothingIsForgotten == Spec => []NothingForgotten
<1>1. Inv => NothingForgotten
  <2> SUFFICES ASSUME Inv, NEW r \in Runs, exit[r] = "filed", options[r].file,
                      NEW s \in Filed(props[r])
               PROVE  \E i \in issues :
                         /\ s \in i.hash.members
                         /\ i.hash.class = props[r][s].class
                         /\ i.hash.target = props[r][s].target
    BY DEF NothingForgotten
  <2>1. PICK i \in issues : i.hash = HashOf(props[r], s)
    BY DEF Inv, FilingRight, Accounted, Issued, Clusters
  <2>2. s \in i.hash.members
    BY <2>1 DEF HashOf, Filed
  <2> QED
    BY <2>1, <2>2 DEF HashOf
<1> QED
  BY InvInit, InvKept, <1>1, PTL DEF Spec
====
