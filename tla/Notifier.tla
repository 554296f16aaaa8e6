---- MODULE Notifier ----
(***************************************************************************)
(* The webhook bus (core/notifier/bus.py).  enqueue_event numbers one      *)
(* delivery per enabled subscriber: a commit per subscriber increments its *)
(* seq, the number is read back, and the delivery row itself goes out with *)
(* the next commit.  deliver POSTs one row and records the outcome on it,  *)
(* from the row it loaded before the POST; nothing stops two callers from  *)
(* delivering the same row, or one that is settled already.                *)
(***************************************************************************)
EXTENDS Integers, FiniteSets

CONSTANTS
    Enqueuers,  \* callers of enqueue_event
    Workers,    \* callers of deliver
    Subs,       \* the enabled subscribers
    Events,     \* event ids, one per call of enqueue_event
    None,       \* no row, no event, no subscriber
    Threshold,  \* DEAD_LETTER_THRESHOLD
    MaxPosts,   \* bound: calls of deliver in a behaviour
    Posted      \* bound: the subscribers whose deliveries are posted

VARIABLES
    seq,        \* the committed Subscriber.seq
    outbox,     \* the committed Delivery rows
    call,       \* each enqueuer's call of enqueue_event
    post,       \* each worker's call of deliver
    posts,      \* calls of deliver so far
    died,       \* events whose enqueue_event did not return (history)
    lost,       \* per subscriber, numbers taken by a call that died (history)
    accepted,   \* rows an endpoint has answered 200 to (history)
    failures    \* failed POSTs per row (history)

vars == <<seq, outbox, call, post, posts, died, lost, accepted, failures>>
bus  == <<seq, call, died, lost>>
mail == <<post, posts, accepted, failures>>

Rows     == Events \X Subs
Delivery == [seq : Nat, attempts : Nat, delivered : BOOLEAN, dead_lettered : BOOLEAN]

ASSUME NotifierAssumption ==
    /\ Threshold \in Nat \ {0}
    /\ MaxPosts \in Nat
    /\ Posted \subseteq Subs
    /\ None \notin Events \cup Subs \cup Rows \cup Delivery

Queued == {r \in Rows : outbox[r] # None}

(* sub is the subscriber whose number the call has taken and not flushed   *)
(* yet, num the number its delivery will carry once it has been read;      *)
(* earlier the rows that were queued when the call began (history).        *)
Call   == [step : {"idle", "bump", "read"}, event : Events \cup {None}, todo : SUBSET Subs,
           sub : Subs \cup {None}, num : Nat, earlier : SUBSET Rows]
NoCall == [step |-> "idle", event |-> None, todo |-> {}, sub |-> None, num |-> 0, earlier |-> {}]
NewCall(ev) == [NoCall EXCEPT !.step = "bump", !.event = ev, !.todo = Subs, !.earlier = Queued]

Post   == [step : {"idle", "post", "save"}, row : Rows \cup {None}, attempts : Nat]
NoPost == [step |-> "idle", row |-> None, attempts |-> 0]

Init ==
    /\ seq = [s \in Subs |-> 0]
    /\ outbox = [r \in Rows |-> None]
    /\ call = [e \in Enqueuers |-> NoCall]
    /\ post = [w \in Workers |-> NoPost]
    /\ posts = 0
    /\ died = {}
    /\ lost = [s \in Subs |-> 0]
    /\ accepted = {}
    /\ failures = [r \in Rows |-> 0]

Used   == {r[1] : r \in Queued} \cup died \cup {call[e].event : e \in Enqueuers}
----
(* enqueue_event *)

(* Defect variant of NewDelivery: dead_lettered is left unset.             *)
NewDeliveryUnset(n) == [seq |-> n, attempts |-> 0, delivered |-> FALSE, dead_lettered |-> None]

NewDelivery(n) == [seq |-> n, attempts |-> 0, delivered |-> FALSE, dead_lettered |-> FALSE]

(* every commit of the call takes the delivery it has pending with it *)
Flushed(c) == IF c.sub = None THEN outbox
              ELSE [outbox EXCEPT ![<<c.event, c.sub>>] = NewDelivery(c.num)]

Enqueue(e) ==
    /\ call[e].step = "idle"
    /\ \E ev \in Events \ Used : call' = [call EXCEPT ![e] = NewCall(ev)]
    /\ UNCHANGED <<seq, outbox, died, lost, mail>>

Taken(c, s) == [c EXCEPT !.step = "read", !.todo = c.todo \ {s}, !.sub = s, !.num = 0]

(* Defect variant of Bump: the number is the count of the subscriber's     *)
(* deliveries.                                                             *)
BumpCounted(e) ==
    /\ call[e].step = "bump"
    /\ \E s \in call[e].todo :
         /\ seq' = [seq EXCEPT ![s] = Cardinality({r \in Queued : r[2] = s}) + 1]
         /\ call' = [call EXCEPT ![e] = Taken(call[e], s)]
    /\ outbox' = Flushed(call[e])
    /\ UNCHANGED <<died, lost, mail>>

Bump(e) ==
    /\ call[e].step = "bump"
    /\ \E s \in call[e].todo :
         /\ seq' = [seq EXCEPT ![s] = @ + 1]
         /\ call' = [call EXCEPT ![e] = Taken(call[e], s)]
    /\ outbox' = Flushed(call[e])
    /\ UNCHANGED <<died, lost, mail>>

(* Defect variant of Numbered: the position in the loop is the number.     *)
NumberedByLoop(c) == [c EXCEPT !.step = "bump", !.num = Cardinality(Subs \ c.todo)]

(* session.refresh: a transaction of its own, after the commit *)
Numbered(c) == [c EXCEPT !.step = "bump", !.num = seq[c.sub]]

ReadBack(e) ==
    /\ call[e].step = "read"
    /\ call' = [call EXCEPT ![e] = Numbered(call[e])]
    /\ UNCHANGED <<seq, outbox, died, lost, mail>>

(* Defect variant of Return: returns after any subscriber.                  *)
ReturnEarly(e) ==
    /\ call[e].step = "bump"
    /\ outbox' = Flushed(call[e])
    /\ call' = [call EXCEPT ![e] = NoCall]
    /\ UNCHANGED <<seq, died, lost, mail>>

Return(e) ==
    /\ call[e].step = "bump"
    /\ call[e].todo = {}
    /\ outbox' = Flushed(call[e])
    /\ call' = [call EXCEPT ![e] = NoCall]
    /\ UNCHANGED <<seq, died, lost, mail>>

(* The process dies, or a commit raises: what is pending is gone, the      *)
(* subscriber's number is not.                                             *)
EnqueueDies(e) ==
    /\ call[e].step # "idle"
    /\ died' = died \cup {call[e].event}
    /\ lost' = [s \in Subs |-> IF s = call[e].sub THEN lost[s] + 1 ELSE lost[s]]
    /\ call' = [call EXCEPT ![e] = NoCall]
    /\ UNCHANGED <<seq, outbox, mail>>
----
(* deliver *)

Deliver(w) ==
    /\ post[w].step = "idle"
    /\ posts < MaxPosts
    /\ \E r \in {q \in Queued : q[2] \in Posted} :
         post' = [post EXCEPT ![w] = [step |-> "post", row |-> r, attempts |-> outbox[r].attempts]]
    /\ posts' = posts + 1
    /\ UNCHANGED <<bus, outbox, accepted, failures>>

Ends(w) == post' = [post EXCEPT ![w] = NoPost]

Accepted(w) ==
    /\ post[w].step = "post"
    /\ accepted' = accepted \cup {post[w].row}
    /\ post' = [post EXCEPT ![w].step = "save"]
    /\ UNCHANGED <<bus, outbox, posts, failures>>

(* Defect variant of Saved: a success takes the row out of the dead letters. *)
SavedRevived(w) ==
    /\ post[w].step = "save"
    /\ outbox' = [outbox EXCEPT ![post[w].row] =
            [outbox[post[w].row] EXCEPT !.delivered = TRUE, !.dead_lettered = FALSE]]
    /\ Ends(w)
    /\ UNCHANGED <<bus, posts, accepted, failures>>

Saved(w) ==
    /\ post[w].step = "save"
    /\ outbox' = [outbox EXCEPT ![post[w].row] = [outbox[post[w].row] EXCEPT !.delivered = TRUE]]
    /\ Ends(w)
    /\ UNCHANGED <<bus, posts, accepted, failures>>

(* Defect variant of Attempted: dead-lettered one attempt early.           *)
AttemptedEarly(r, before) ==
    [r EXCEPT !.attempts = before + 1,
              !.dead_lettered = IF before + 2 >= Threshold THEN TRUE ELSE r.dead_lettered]

(* A POST that raised or was not answered 200 counts an attempt; the row's *)
(* other columns are left as another caller may have set them.             *)
Attempted(r, before) ==
    [r EXCEPT !.attempts = before + 1,
              !.dead_lettered = IF before + 1 >= Threshold THEN TRUE ELSE r.dead_lettered]

Refused(w) ==
    /\ post[w].step = "post"
    /\ failures' = [failures EXCEPT ![post[w].row] = @ + 1]
    /\ outbox' = [outbox EXCEPT ![post[w].row] = Attempted(outbox[post[w].row], post[w].attempts)]
    /\ Ends(w)
    /\ UNCHANGED <<bus, posts, accepted>>

(* The outcome is not recorded: the process dies, or the commit fails,     *)
(* which deliver swallows after a 200 and lets through after a failure.    *)
Unrecorded(w) ==
    /\ post[w].step # "idle"
    /\ Ends(w)
    /\ UNCHANGED <<bus, outbox, posts, accepted, failures>>

EnqueueStep(e) == Bump(e) \/ ReadBack(e) \/ Return(e)
PostStep(w)    == Accepted(w) \/ Saved(w) \/ Refused(w) \/ Unrecorded(w)

Next ==
    \/ \E e \in Enqueuers : Enqueue(e) \/ EnqueueStep(e) \/ EnqueueDies(e)
    \/ \E w \in Workers : Deliver(w) \/ PostStep(w)

Spec == Init /\ [][Next]_vars

(* enqueue_event waits for nothing but the database, whose lock every      *)
(* transaction drops at its commit.                                        *)
FairSpec == Spec /\ \A e \in Enqueuers : WF_vars(EnqueueStep(e))
----
TypeOK ==
    /\ seq \in [Subs -> Nat]
    /\ outbox \in [Rows -> Delivery \cup {None}]
    /\ call \in [Enqueuers -> Call]
    /\ post \in [Workers -> Post]
    /\ posts \in Nat
    /\ died \subseteq Events
    /\ lost \in [Subs -> Nat]
    /\ accepted \subseteq Rows
    /\ failures \in [Rows -> Nat]

(* Every number of a subscriber is accounted for: it went to a delivery    *)
(* row, is held by a call under way, or was lost with a call that died; so *)
(* no increment is lost between concurrent calls, and a gap in what a      *)
(* subscriber receives is no event it missed by anything but a crash.      *)
SeqAccounts ==
    \A s \in Subs :
        seq[s] = Cardinality({r \in Queued : r[2] = s})
                 + Cardinality({e \in Enqueuers : call[e].sub = s}) + lost[s]

(* Calls that follow one another number a subscriber's deliveries in their *)
(* order, whatever else runs or dies beside them: a row that is queued     *)
(* carries a higher number than every row of the subscriber that was       *)
(* queued before its call began.                                           *)
SeqInOrder ==
    [][\A e \in Enqueuers : \A r \in Queued' \ Queued : \A q \in call[e].earlier :
        r[1] = call[e].event /\ q[2] = r[2] => outbox[q].seq < outbox'[r].seq]_vars

(* No two deliveries of a subscriber carry the same number (bus.py:100 to  *)
(* 106: two concurrent calls for the same subscriber do not race, sub.seq  *)
(* holds the committed incremented value).                                 *)
SeqUnique ==
    \A q, r \in Queued : q[2] = r[2] /\ outbox[q].seq = outbox[r].seq => q = r

(* What deliver settled stays settled, whoever else delivers the same row: *)
(* its number never changes, delivered and dead_lettered are never unset.  *)
VerdictsFinal ==
    [][\A r \in Queued :
        /\ r \in Queued'
        /\ outbox'[r].seq = outbox[r].seq
        /\ outbox[r].delivered => outbox'[r].delivered
        /\ outbox[r].dead_lettered => outbox'[r].dead_lettered]_vars

(* No verdict without its reason: a delivered row was accepted by the      *)
(* endpoint, a dead-lettered one failed at least Threshold times, however  *)
(* many callers count the attempts of the same row.                        *)
VerdictsEarned ==
    \A r \in Queued :
        /\ outbox[r].delivered => r \in accepted
        /\ outbox[r].attempts <= failures[r]
        /\ outbox[r].dead_lettered => failures[r] >= Threshold

(* An event that is being enqueued gets its row for every subscriber,      *)
(* unless its call dies: no subscriber is forgotten for another.           *)
EnqueueCompletes ==
    \A ev \in Events :
        (\E e \in Enqueuers : call[e].event = ev)
            ~> (ev \in died \/ \A s \in Subs : <<ev, s>> \in Queued)
====
