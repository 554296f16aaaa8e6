---- MODULE NotifierProofs ----
(***************************************************************************)
(* What holds of the webhook bus for any number of subscribers, events,    *)
(* callers and attempts.                                                   *)
(***************************************************************************)
EXTENDS Notifier, FiniteSetTheorems, TLAPS

(* A call under way has its event, and the subscriber it read back for; a  *)
(* POST under way is of a row that is queued.                              *)
CallsUnderWay ==
    /\ \A e \in Enqueuers :
        /\ call[e].step # "idle" => call[e].event \in Events
        /\ call[e].step = "read" => call[e].sub \in Subs
        /\ call[e].step = "idle" => call[e].sub = None
    /\ \A w \in Workers : post[w].step # "idle" => post[w].row \in Queued

WellFormed == TypeOK /\ CallsUnderWay

(* A commit of a call adds at most the one delivery it has pending.        *)
LEMMA FlushedType ==
    ASSUME TypeOK, NEW c \in Call, c.event \in Events
    PROVE  /\ Flushed(c) \in [Rows -> Delivery \cup {None}]
           /\ \A r \in Queued : Flushed(c)[r] # None
  <1>1. NewDelivery(c.num) \in Delivery
    BY DEF NewDelivery, Delivery, Call
  <1>2. None \notin Delivery
    BY NotifierAssumption
  <1>3. CASE c.sub = None
    BY <1>3 DEF Flushed, TypeOK, Queued
  <1>4. CASE c.sub # None
    <2>1. <<c.event, c.sub>> \in Rows
      BY <1>4 DEF Call, Rows
    <2>2. Flushed(c) = [outbox EXCEPT ![<<c.event, c.sub>>] = NewDelivery(c.num)]
      BY <1>4 DEF Flushed
    <2> QED
      BY <1>1, <1>2, <2>1, <2>2 DEF TypeOK, Queued
  <1> QED
    BY <1>3, <1>4

(* Recording a failure yields a delivery row with its own number.          *)
LEMMA AttemptedType ==
    ASSUME NEW r \in Delivery, NEW n \in Nat
    PROVE  Attempted(r, n) \in Delivery
  <1> DEFINE dead == IF n + 1 >= Threshold THEN TRUE ELSE r.dead_lettered
  <1>1. r.dead_lettered \in BOOLEAN /\ r.delivered \in BOOLEAN /\ r.seq \in Nat
    BY DEF Delivery
  <1>2. dead \in BOOLEAN
    BY <1>1
  <1>3. n + 1 \in Nat
    OBVIOUS
  <1>4. Attempted(r, n) = [r EXCEPT !.attempts = n + 1, !.dead_lettered = dead]
    BY DEF Attempted
  <1> HIDE DEF dead
  <1> QED
    BY <1>2, <1>3, <1>4 DEF Delivery

(* The bus starts well formed, and every step leaves it so.                *)
LEMMA WellFormedInit == Init => WellFormed
  BY NotifierAssumption
  DEF Init, WellFormed, TypeOK, CallsUnderWay, Call, NoCall, Post, NoPost, Queued, Rows

(* Every step of the bus leaves it well formed.                            *)
LEMMA WellFormedStep == WellFormed /\ [Next]_vars => WellFormed'
  <1> SUFFICES ASSUME WellFormed, [Next]_vars PROVE WellFormed'
    OBVIOUS
  <1> USE NotifierAssumption DEF WellFormed
  <1>1. ASSUME NEW e \in Enqueuers, Enqueue(e) PROVE WellFormed'
    <2>1. PICK ev \in Events : call' = [call EXCEPT ![e] = NewCall(ev)]
      BY <1>1 DEF Enqueue
    <2>2. NewCall(ev) \in Call
      BY DEF NewCall, NoCall, Call, Queued
    <2>3. TypeOK'
      BY <1>1, <2>1, <2>2 DEF Enqueue, mail, TypeOK
    <2>4. CallsUnderWay'
      BY <1>1, <2>1 DEF Enqueue, mail, TypeOK, CallsUnderWay, NewCall, Queued
    <2> QED
      BY <2>3, <2>4
  <1>2. ASSUME NEW e \in Enqueuers, Bump(e) PROVE WellFormed'
    <2>1. PICK s \in call[e].todo :
            /\ seq' = [seq EXCEPT ![s] = @ + 1]
            /\ call' = [call EXCEPT ![e] = Taken(call[e], s)]
      BY <1>2 DEF Bump
    <2>2. s \in Subs /\ call[e] \in Call /\ call[e].event \in Events
      BY <1>2 DEF Bump, TypeOK, CallsUnderWay, Call
    <2>3. /\ outbox' \in [Rows -> Delivery \cup {None}]
          /\ Queued \subseteq Queued'
      BY <1>2, <2>2, FlushedType DEF Bump, Queued
    <2>4. Taken(call[e], s) \in Call
      BY <2>2 DEF Call, Taken
    <2>5. seq' \in [Subs -> Nat] /\ call' \in [Enqueuers -> Call]
      BY <2>1, <2>2, <2>4 DEF TypeOK
    <2>6. TypeOK'
      BY <1>2, <2>3, <2>5 DEF Bump, mail, TypeOK
    <2>7. CallsUnderWay'
      BY <1>2, <2>1, <2>2, <2>3 DEF Bump, mail, TypeOK, CallsUnderWay, Call, Taken
    <2> QED
      BY <2>6, <2>7
  <1>3. ASSUME NEW e \in Enqueuers, ReadBack(e) PROVE WellFormed'
    <2>1. call[e] \in Call /\ seq[call[e].sub] \in Nat
      BY <1>3 DEF ReadBack, TypeOK, CallsUnderWay
    <2> QED
      BY <1>3, <2>1 DEF ReadBack, Numbered, mail, TypeOK, CallsUnderWay, Call, Queued
  <1>4. ASSUME NEW e \in Enqueuers, Return(e) PROVE WellFormed'
    <2>1. call[e] \in Call /\ call[e].event \in Events
      BY <1>4 DEF Return, TypeOK, CallsUnderWay
    <2>2. /\ outbox' \in [Rows -> Delivery \cup {None}]
          /\ Queued \subseteq Queued'
      BY <1>4, <2>1, FlushedType DEF Return, Queued
    <2>3. call' = [call EXCEPT ![e] = NoCall] /\ NoCall \in Call
      BY <1>4 DEF Return, NoCall, Call
    <2>4. TypeOK'
      BY <1>4, <2>2, <2>3 DEF Return, mail, TypeOK
    <2>5. CallsUnderWay'
      BY <1>4, <2>2, <2>3 DEF Return, mail, TypeOK, CallsUnderWay, NoCall
    <2> QED
      BY <2>4, <2>5
  <1>5. ASSUME NEW e \in Enqueuers, EnqueueDies(e) PROVE WellFormed'
    BY <1>5 DEF EnqueueDies, mail, TypeOK, CallsUnderWay, Call, NoCall, Queued
  <1>6. ASSUME NEW w \in Workers, Deliver(w) PROVE WellFormed'
    <2>1. PICK r \in Queued :
            post' = [post EXCEPT ![w] = [step |-> "post", row |-> r, attempts |-> outbox[r].attempts]]
      BY <1>6 DEF Deliver
    <2>2. r \in Rows /\ outbox[r].attempts \in Nat
      BY DEF TypeOK, Queued, Delivery
    <2> QED
      BY <1>6, <2>1, <2>2 DEF Deliver, bus, TypeOK, CallsUnderWay, Post, Queued
  <1>7. ASSUME NEW w \in Workers, Accepted(w) PROVE WellFormed'
    BY <1>7 DEF Accepted, bus, TypeOK, CallsUnderWay, Post, Queued
  <1>8. ASSUME NEW w \in Workers, Saved(w) PROVE WellFormed'
    <2>1. post[w].row \in Queued /\ outbox[post[w].row] \in Delivery
      BY <1>8 DEF Saved, TypeOK, CallsUnderWay, Queued
    <2>2. [outbox[post[w].row] EXCEPT !.delivered = TRUE] \in Delivery
      BY <2>1 DEF Delivery
    <2> QED
      BY <1>8, <2>1, <2>2 DEF Saved, Ends, bus, TypeOK, CallsUnderWay, Post, NoPost, Queued
  <1>9. ASSUME NEW w \in Workers, Refused(w) PROVE WellFormed'
    <2>1. post[w].row \in Queued /\ outbox[post[w].row] \in Delivery /\ post[w].attempts \in Nat
      BY <1>9 DEF Refused, TypeOK, CallsUnderWay, Queued, Post
    <2>2. Attempted(outbox[post[w].row], post[w].attempts) \in Delivery
      BY <2>1, AttemptedType
    <2>6. outbox' = [outbox EXCEPT ![post[w].row] =
                        Attempted(outbox[post[w].row], post[w].attempts)]
      BY <1>9 DEF Refused
    <2>3. outbox' \in [Rows -> Delivery \cup {None}] /\ Queued \subseteq Queued'
      BY <2>1, <2>2, <2>6 DEF TypeOK, Queued
    <2>4. failures' \in [Rows -> Nat]
      BY <1>9, <2>1 DEF Refused, TypeOK, Queued
    <2>5. post' \in [Workers -> Post]
      BY <1>9 DEF Refused, Ends, TypeOK, Post, NoPost
    <2> QED
      BY <1>9, <2>3, <2>4, <2>5 DEF Refused, Ends, bus, TypeOK, CallsUnderWay, NoPost
  <1>10. ASSUME NEW w \in Workers, Unrecorded(w) PROVE WellFormed'
    BY <1>10 DEF Unrecorded, Ends, bus, TypeOK, CallsUnderWay, Post, NoPost, Queued
  <1>11. CASE UNCHANGED vars
    BY <1>11 DEF vars, TypeOK, CallsUnderWay, Queued
  <1> QED
    BY <1>1, <1>2, <1>3, <1>4, <1>5, <1>6, <1>7, <1>8, <1>9, <1>10, <1>11
    DEF Next, EnqueueStep, PostStep

(* Every variable of the bus has its type in every state of every          *)
(* behaviour, whatever the numbers of callers, subscribers and events.     *)
THEOREM TypeCorrect == Spec => []TypeOK
  <1>1. WellFormed => TypeOK
    BY DEF WellFormed
  <1> QED
    BY <1>1, WellFormedInit, WellFormedStep, PTL DEF Spec
----
(* Verdicts are earned *)

(* What a worker is about to record it has reason to record.               *)
RecordsEarned ==
    \A w \in Workers :
        /\ post[w].step = "post" => post[w].attempts <= failures[post[w].row]
        /\ post[w].step = "save" => post[w].row \in accepted

Earned == WellFormed /\ VerdictsEarned /\ RecordsEarned

(* A delivery row that a call flushes has not failed and is not settled.   *)
LEMMA FlushedEarned ==
    ASSUME Earned, NEW c \in Call, c.event \in Events,
           outbox' = Flushed(c), UNCHANGED <<accepted, failures>>
    PROVE  VerdictsEarned'
  <1> DEFINE new == <<c.event, c.sub>>
  <1>1. CASE c.sub = None
    BY <1>1 DEF Earned, VerdictsEarned, Flushed, Queued
  <1>2. CASE c.sub # None
    <2>1. new \in Rows
      BY <1>2 DEF Call, Rows
    <2>2. outbox' = [outbox EXCEPT ![new] = NewDelivery(c.num)]
      BY <1>2 DEF Flushed
    <2>3. outbox \in [Rows -> Delivery \cup {None}] /\ failures[new] \in Nat
      BY <2>1 DEF Earned, WellFormed, TypeOK
    <2> HIDE DEF new
    <2>4. ASSUME NEW r \in Queued', r # new
          PROVE  r \in Queued /\ outbox'[r] = outbox[r]
      BY <2>1, <2>2, <2>3, <2>4 DEF Queued
    <2>5. outbox'[new] = NewDelivery(c.num)
      BY <2>1, <2>2, <2>3
    <2> QED
      BY <2>3, <2>4, <2>5 DEF Earned, VerdictsEarned, NewDelivery
  <1> QED
    BY <1>1, <1>2

(* No row, no verdict to earn.                                             *)
LEMMA EarnedInit == Init => Earned
  BY WellFormedInit DEF Init, Earned, VerdictsEarned, RecordsEarned, Queued, NoPost

(* Every step leaves every verdict earned.                                 *)
LEMMA EarnedStep == Earned /\ [Next]_vars => Earned'
  <1> SUFFICES ASSUME Earned, [Next]_vars PROVE VerdictsEarned' /\ RecordsEarned'
    BY WellFormedStep DEF Earned
  <1>0. WellFormed /\ TypeOK /\ CallsUnderWay /\ VerdictsEarned /\ RecordsEarned
    BY DEF Earned, WellFormed
  <1>1. ASSUME NEW e \in Enqueuers, Enqueue(e) PROVE VerdictsEarned' /\ RecordsEarned'
    BY <1>0, <1>1 DEF Enqueue, mail, VerdictsEarned, RecordsEarned, Queued
  <1>2. ASSUME NEW e \in Enqueuers, Bump(e) \/ Return(e) PROVE VerdictsEarned' /\ RecordsEarned'
    <2>1. call[e] \in Call /\ call[e].event \in Events /\ outbox' = Flushed(call[e])
      BY <1>0, <1>2 DEF Bump, Return, TypeOK, CallsUnderWay
    <2>2. UNCHANGED <<post, accepted, failures>>
      BY <1>2 DEF Bump, Return, mail
    <2> QED
      BY <1>0, <2>1, <2>2, FlushedEarned DEF RecordsEarned
  <1>3. ASSUME NEW e \in Enqueuers, ReadBack(e) \/ EnqueueDies(e)
        PROVE  VerdictsEarned' /\ RecordsEarned'
    BY <1>0, <1>3 DEF ReadBack, EnqueueDies, mail, VerdictsEarned, RecordsEarned, Queued
  <1>4. ASSUME NEW w \in Workers, Deliver(w) PROVE VerdictsEarned' /\ RecordsEarned'
    BY <1>0, <1>4 DEF Deliver, bus, TypeOK, VerdictsEarned, RecordsEarned, Queued
  <1>5. ASSUME NEW w \in Workers, Accepted(w) PROVE VerdictsEarned' /\ RecordsEarned'
    BY <1>0, <1>5 DEF Accepted, bus, TypeOK, Post, VerdictsEarned, RecordsEarned, Queued
  <1>6. ASSUME NEW w \in Workers, Saved(w) PROVE VerdictsEarned' /\ RecordsEarned'
    <2> DEFINE row == post[w].row
    <2>1. row \in Queued /\ row \in Rows /\ row \in accepted /\ outbox[row] \in Delivery
      BY <1>0, <1>6 DEF Saved, TypeOK, CallsUnderWay, RecordsEarned, Queued
    <2>2. outbox' = [outbox EXCEPT ![row] = [outbox[row] EXCEPT !.delivered = TRUE]]
      BY <1>6 DEF Saved
    <2> HIDE DEF row
    <2>3. VerdictsEarned'
      BY <1>0, <1>6, <2>1, <2>2 DEF Saved, TypeOK, VerdictsEarned, Queued, Delivery
    <2>4. RecordsEarned'
      BY <1>0, <1>6 DEF Saved, Ends, TypeOK, NoPost, RecordsEarned
    <2> QED
      BY <2>3, <2>4
  <1>7. ASSUME NEW w \in Workers, Refused(w) PROVE VerdictsEarned' /\ RecordsEarned'
    <2> DEFINE row == post[w].row
               old == outbox[row]
    <2>1. /\ row \in Queued /\ row \in Rows /\ old \in Delivery
          /\ post[w].attempts \in Nat /\ post[w].attempts <= failures[row]
      BY <1>0, <1>7 DEF Refused, TypeOK, CallsUnderWay, RecordsEarned, Queued, Post
    <2>2. outbox' = [outbox EXCEPT ![row] = Attempted(old, post[w].attempts)]
      BY <1>7 DEF Refused
    <2>3. failures' = [failures EXCEPT ![row] = failures[row] + 1] /\ accepted' = accepted
      BY <1>7 DEF Refused
    <2>4. failures \in [Rows -> Nat] /\ Threshold \in Nat
      BY <1>0, NotifierAssumption DEF TypeOK
    <2>5. /\ Attempted(old, post[w].attempts).attempts = post[w].attempts + 1
          /\ Attempted(old, post[w].attempts).delivered = old.delivered
          /\ Attempted(old, post[w].attempts).dead_lettered =>
                old.dead_lettered \/ post[w].attempts + 1 >= Threshold
      BY <2>1 DEF Attempted, Delivery
    <2> HIDE DEF row
    <2>6. ASSUME NEW r \in Queued', r # row
          PROVE  r \in Queued /\ outbox'[r] = outbox[r] /\ failures'[r] = failures[r]
      BY <1>0, <2>1, <2>2, <2>3, <2>6 DEF TypeOK, Queued
    <2>7. outbox'[row] = Attempted(old, post[w].attempts) /\ failures'[row] = failures[row] + 1
      BY <1>0, <2>1, <2>2, <2>3 DEF TypeOK
    <2>8. VerdictsEarned'
      BY <1>0, <2>1, <2>3, <2>4, <2>5, <2>6, <2>7 DEF VerdictsEarned
    <2>9. RecordsEarned'
      <3>1. ASSUME NEW v \in Workers, post'[v].step # "idle"
            PROVE  post'[v] = post[v]
        BY <1>0, <1>7, <3>1 DEF Refused, Ends, TypeOK, NoPost
      <3>2. ASSUME NEW v \in Workers, post[v].step = "post"
            PROVE  post[v].row \in Rows /\ post[v].attempts \in Nat
        BY <1>0, <3>2 DEF TypeOK, CallsUnderWay, Queued, Post
      <3>3. \A r \in Rows : failures[r] <= failures'[r] /\ failures'[r] \in Nat /\ failures[r] \in Nat
        BY <2>1, <2>3, <2>4
      <3> QED
        BY <1>0, <2>3, <3>1, <3>2, <3>3 DEF RecordsEarned
    <2> QED
      BY <2>8, <2>9
  <1>8. ASSUME NEW w \in Workers, Unrecorded(w) PROVE VerdictsEarned' /\ RecordsEarned'
    BY <1>0, <1>8 DEF Unrecorded, Ends, bus, TypeOK, NoPost, VerdictsEarned, RecordsEarned, Queued
  <1>9. CASE UNCHANGED vars
    BY <1>0, <1>9 DEF vars, VerdictsEarned, RecordsEarned, Queued
  <1> QED
    BY <1>1, <1>2, <1>3, <1>4, <1>5, <1>6, <1>7, <1>8, <1>9 DEF Next, EnqueueStep, PostStep

(* A delivered row was accepted and a dead-lettered one failed at least    *)
(* Threshold times, for any number of workers on the same row: the count   *)
(* of attempts may lose increments, it never runs ahead of the failures.   *)
THEOREM VerdictsAreEarned == Spec => []VerdictsEarned
  <1>1. Earned => VerdictsEarned
    BY DEF Earned
  <1> QED
    BY <1>1, EarnedInit, EarnedStep, PTL DEF Spec
----
(* Settled rows stay settled *)

(* A row that a call is still to queue is in no table yet, and no other    *)
(* call is to queue it.                                                    *)
ToQueue(c) == {r \in Rows : r[1] = c.event /\ (r[2] \in c.todo \/ r[2] = c.sub)}

QueuedOnce ==
    \A e \in Enqueuers : call[e].step # "idle" =>
        /\ ToQueue(call[e]) \cap Queued = {}
        /\ call[e].sub \notin call[e].todo
        /\ \A f \in Enqueuers : f # e => call[f].event # call[e].event

Settled == WellFormed /\ QueuedOnce

(* No call is under way at first.                                          *)
LEMMA SettledInit == Init => Settled
  BY WellFormedInit DEF Init, Settled, QueuedOnce, NoCall

(* A commit of a call leaves every row it finds, and adds none but its own. *)
LEMMA FlushedAdds ==
    ASSUME Settled, NEW e \in Enqueuers, call[e].step # "idle"
    PROVE  /\ \A r \in Queued : Flushed(call[e])[r] = outbox[r]
           /\ \A r \in Rows \ Queued :
                Flushed(call[e])[r] # None =>
                    /\ r = <<call[e].event, call[e].sub>>
                    /\ Flushed(call[e])[r] = NewDelivery(call[e].num)
  <1>1. call[e] \in Call /\ call[e].event \in Events
    BY DEF Settled, WellFormed, TypeOK, CallsUnderWay
  <1>2. CASE call[e].sub = None
    BY <1>2 DEF Flushed, Queued
  <1>3. CASE call[e].sub # None
    <2> DEFINE new == <<call[e].event, call[e].sub>>
    <2>1. new \in Rows /\ new \in ToQueue(call[e])
      BY <1>1, <1>3 DEF Call, Rows, ToQueue
    <2>2. new \notin Queued
      BY <2>1 DEF Settled, QueuedOnce
    <2>3. Flushed(call[e]) = [outbox EXCEPT ![new] = NewDelivery(call[e].num)]
      BY <1>3 DEF Flushed
    <2> HIDE DEF new
    <2>4. \A r \in Queued : Flushed(call[e])[r] = outbox[r]
      BY <2>1, <2>2, <2>3 DEF Settled, WellFormed, TypeOK, Queued
    <2>5. \A r \in Rows \ Queued :
            Flushed(call[e])[r] # None =>
                r = new /\ Flushed(call[e])[r] = NewDelivery(call[e].num)
      BY <2>1, <2>3 DEF Settled, WellFormed, TypeOK, Queued
    <2> QED
      BY <2>4, <2>5 DEF new
  <1> QED
    BY <1>2, <1>3

(* Every step leaves a row to the one call that queues it.                 *)
LEMMA SettledStep == Settled /\ [Next]_vars => Settled'
  <1> SUFFICES ASSUME Settled, [Next]_vars PROVE QueuedOnce'
    BY WellFormedStep DEF Settled
  <1>0. WellFormed /\ TypeOK /\ CallsUnderWay /\ QueuedOnce /\ WellFormed'
    BY WellFormedStep DEF Settled, WellFormed
  <1>1. ASSUME NEW e \in Enqueuers, Enqueue(e) PROVE QueuedOnce'
    <2>1. PICK ev \in Events \ Used : call' = [call EXCEPT ![e] = NewCall(ev)]
      BY <1>1 DEF Enqueue
    <2>2. outbox' = outbox /\ Queued' = Queued
      BY <1>1 DEF Enqueue, Queued
    <2>3. /\ \A f \in Enqueuers : call[f].event # ev
          /\ \A r \in Queued : r[1] # ev
      BY <2>1 DEF Used
    <2>4. \A f \in Enqueuers : f # e => call'[f] = call[f]
      BY <1>0, <2>1 DEF TypeOK
    <2>5. /\ call'[e].event = ev /\ call'[e].sub = None
          /\ call'[e].todo = Subs /\ call'[e].step = "bump"
      BY <1>0, <2>1 DEF TypeOK, NewCall, NoCall
    <2>6. None \notin Subs
      BY NotifierAssumption
    <2> QED
      BY <1>0, <2>2, <2>3, <2>4, <2>5, <2>6 DEF QueuedOnce, ToQueue
  <1>2. ASSUME NEW e \in Enqueuers, Bump(e) PROVE QueuedOnce'
    <2>1. PICK s \in call[e].todo : call' = [call EXCEPT ![e] = Taken(call[e], s)]
      BY <1>2 DEF Bump
    <2>2. /\ call[e].step # "idle" /\ call[e] \in Call
          /\ outbox' = Flushed(call[e])
      BY <1>0, <1>2 DEF Bump, TypeOK
    <2>3. \A r \in Queued' : r \in Queued \/ r = <<call[e].event, call[e].sub>>
      BY <2>2, FlushedAdds DEF Queued, Settled
    <2>4. \A f \in Enqueuers : f # e => call'[f] = call[f]
      BY <1>0, <2>1 DEF TypeOK
    <2>5. /\ call'[e].event = call[e].event
          /\ call'[e].todo = call[e].todo \ {s}
          /\ call'[e].sub = s
      BY <1>0, <2>1, <2>2 DEF TypeOK, Taken, Call
    <2>6. ASSUME NEW f \in Enqueuers, call'[f].step # "idle"
          PROVE  ToQueue(call'[f]) \cap Queued' = {}
      <3>1. CASE f = e
        BY <1>0, <2>2, <2>3, <2>5, <3>1 DEF QueuedOnce, ToQueue, Rows
      <3>2. CASE f # e
        BY <1>0, <2>2, <2>3, <2>4, <2>6, <3>2 DEF QueuedOnce, ToQueue, Rows
      <3> QED
        BY <3>1, <3>2
    <2> QED
      BY <1>0, <2>2, <2>4, <2>5, <2>6 DEF QueuedOnce
  <1>3. ASSUME NEW e \in Enqueuers, ReadBack(e) PROVE QueuedOnce'
    <2>1. /\ call[e].step # "idle" /\ Queued' = Queued
          /\ call' = [call EXCEPT ![e] = Numbered(call[e])]
      BY <1>3 DEF ReadBack, Queued
    <2>2. \A f \in Enqueuers :
            /\ call'[f].event = call[f].event
            /\ call'[f].todo = call[f].todo
            /\ call'[f].sub = call[f].sub
            /\ call'[f].step # "idle" => call[f].step # "idle"
      BY <1>0, <2>1 DEF TypeOK, Numbered, Call
    <2> QED
      BY <1>0, <2>1, <2>2 DEF QueuedOnce, ToQueue
  <1>4. ASSUME NEW e \in Enqueuers, Return(e) \/ EnqueueDies(e) PROVE QueuedOnce'
    <2>1. /\ call' = [call EXCEPT ![e] = NoCall]
          /\ call[e].step # "idle"
          /\ outbox' = Flushed(call[e]) \/ outbox' = outbox
      BY <1>4 DEF Return, EnqueueDies
    <2>2. \A r \in Queued' : r \in Queued \/ r = <<call[e].event, call[e].sub>>
      BY <2>1, FlushedAdds DEF Queued, Settled
    <2>3. /\ call'[e].step = "idle"
          /\ call'[e].event = None
          /\ \A f \in Enqueuers : f # e => call'[f] = call[f]
      BY <1>0, <2>1 DEF TypeOK, NoCall
    <2>4. \A f \in Enqueuers : call[f].step # "idle" => call[f].event # None
      BY <1>0, NotifierAssumption DEF CallsUnderWay
    <2> QED
      BY <1>0, <2>1, <2>2, <2>3, <2>4 DEF QueuedOnce, ToQueue, Rows
  <1>5. ASSUME NEW w \in Workers, Deliver(w) \/ PostStep(w) PROVE QueuedOnce'
    <2>1. call' = call /\ Queued' \subseteq Queued
      BY <1>0, <1>5 DEF Deliver, PostStep, Accepted, Saved, Refused, Unrecorded, bus,
                        TypeOK, CallsUnderWay, Queued
    <2> QED
      BY <1>0, <2>1 DEF QueuedOnce
  <1>6. CASE UNCHANGED vars
    BY <1>0, <1>6 DEF vars, QueuedOnce, Queued
  <1> QED
    BY <1>1, <1>2, <1>3, <1>4, <1>5, <1>6 DEF Next, EnqueueStep

(* The number of a delivery row is fixed when the row is queued, and no    *)
(* step unsets delivered or dead_lettered: not a second enqueue, not a     *)
(* worker that loaded the row before another settled it.                   *)
THEOREM VerdictsAreFinal == Spec => VerdictsFinal
  <1> DEFINE Kept == \A r \in Queued :
                        /\ r \in Queued'
                        /\ outbox'[r].seq = outbox[r].seq
                        /\ outbox[r].delivered => outbox'[r].delivered
                        /\ outbox[r].dead_lettered => outbox'[r].dead_lettered
  <1>1. ASSUME Settled, [Next]_vars PROVE [Kept]_vars
    <2>0. WellFormed /\ TypeOK /\ CallsUnderWay
      BY <1>1 DEF Settled, WellFormed
    <2>1. ASSUME outbox' = outbox PROVE Kept
      BY <2>1 DEF Queued
    <2>2. ASSUME NEW e \in Enqueuers, Bump(e) \/ Return(e) PROVE Kept
      <3>1. call[e].step # "idle" /\ outbox' = Flushed(call[e])
        BY <2>2 DEF Bump, Return
      <3>2. \A r \in Queued : outbox'[r] = outbox[r]
        BY <1>1, <3>1, FlushedAdds
      <3> QED
        BY <3>2 DEF Queued
    <2>3. ASSUME NEW w \in Workers, Saved(w) PROVE Kept
      BY <2>0, <2>3, NotifierAssumption
      DEF Saved, TypeOK, CallsUnderWay, Queued, Delivery
    <2>4. ASSUME NEW w \in Workers, Refused(w) PROVE Kept
      <3> DEFINE row == post[w].row
                 old == outbox[row]
      <3>1. row \in Queued /\ row \in Rows /\ old \in Delivery /\ post[w].attempts \in Nat
        BY <2>0, <2>4 DEF Refused, TypeOK, CallsUnderWay, Queued, Post
      <3>2. outbox' = [outbox EXCEPT ![row] = Attempted(old, post[w].attempts)]
        BY <2>4 DEF Refused
      <3>3. /\ Attempted(old, post[w].attempts).seq = old.seq
            /\ Attempted(old, post[w].attempts).delivered = old.delivered
            /\ old.dead_lettered => Attempted(old, post[w].attempts).dead_lettered
            /\ Attempted(old, post[w].attempts) # None
        <4>1. Attempted(old, post[w].attempts) \in Delivery
          BY <3>1, AttemptedType
        <4> QED
          BY <3>1, <4>1, NotifierAssumption DEF Attempted, Delivery
      <3> HIDE DEF row
      <3>4. \A r \in Queued : r # row => outbox'[r] = outbox[r]
        BY <2>0, <3>1, <3>2 DEF TypeOK, Queued
      <3>5. outbox'[row] = Attempted(old, post[w].attempts)
        BY <2>0, <3>1, <3>2 DEF TypeOK
      <3> QED
        BY <3>1, <3>3, <3>4, <3>5 DEF Queued
    <2> QED
      BY <1>1, <2>1, <2>2, <2>3, <2>4
      DEF Next, vars, EnqueueStep, PostStep, Enqueue, ReadBack, EnqueueDies, Deliver, Accepted,
          Unrecorded
  <1> QED
    BY <1>1, SettledInit, SettledStep, PTL DEF Spec, VerdictsFinal
----
(* Calls that follow one another number their deliveries in that order     *)

(* No row is numbered above its subscriber's seq, and no call gives a      *)
(* number above it.  What was queued before a call began is still queued,  *)
(* and is numbered below what the call has taken.                          *)
NumbersBelow ==
    /\ \A r \in Queued : outbox[r].seq <= seq[r[2]]
    /\ \A e \in Enqueuers :
        /\ call[e].earlier \subseteq Queued
        /\ call[e].sub \in Subs /\ call[e].step = "bump" => call[e].num <= seq[call[e].sub]
        /\ \A q \in call[e].earlier : q[2] = call[e].sub =>
            /\ outbox[q].seq < seq[q[2]]
            /\ call[e].step = "bump" => outbox[q].seq < call[e].num

InOrderInv == Settled /\ NumbersBelow

(* A commit of a call changes no row it finds, and the one it adds is      *)
(* numbered no higher than its subscriber's seq before the commit.         *)
LEMMA FlushedBelow ==
    ASSUME Settled, NumbersBelow, NEW e \in Enqueuers, call[e].step = "bump",
           outbox' = Flushed(call[e])
    PROVE  /\ Queued \subseteq Queued'
           /\ \A q \in Queued : outbox'[q] = outbox[q]
           /\ \A r \in Queued' : r[2] \in Subs /\ outbox'[r].seq \in Nat
                                 /\ outbox'[r].seq <= seq[r[2]]
  <1>0. /\ TypeOK /\ CallsUnderWay /\ call[e] \in Call
        /\ \A r \in Queued : r \in Rows /\ r[2] \in Subs /\ outbox[r].seq \in Nat
    BY NotifierAssumption DEF Settled, WellFormed, TypeOK, Queued, Rows, Delivery
  <1>1. ASSUME NEW r \in Queued
        PROVE  r \in Queued' /\ outbox'[r] = outbox[r]
    BY <1>1, FlushedAdds DEF Queued
  <1>2. ASSUME NEW r \in Queued', r \notin Queued
        PROVE  r[2] \in Subs /\ outbox'[r].seq \in Nat /\ outbox'[r].seq <= seq[r[2]]
    <2>1. r \in Rows /\ r[2] = call[e].sub /\ outbox'[r] = NewDelivery(call[e].num)
      BY <1>2, FlushedAdds DEF Queued
    <2>2. r[2] \in Subs /\ call[e].num \in Nat
      BY <1>0, <2>1 DEF Rows, Call
    <2> QED
      BY <2>1, <2>2 DEF NumbersBelow, NewDelivery
  <1> QED
    BY <1>0, <1>1, <1>2 DEF NumbersBelow

(* Every step leaves a subscriber's numbers below its seq.                 *)
LEMMA NumbersBelowStep ==
    ASSUME Settled, NumbersBelow, [Next]_vars
    PROVE  NumbersBelow'
  <1>0. /\ WellFormed /\ TypeOK /\ CallsUnderWay
        /\ None \notin Subs
        /\ \A r \in Queued : r \in Rows /\ r[2] \in Subs /\ outbox[r] \in Delivery /\ outbox[r].seq \in Nat
        /\ \A e \in Enqueuers : call[e] \in Call /\ call[e].num \in Nat
        /\ \A s \in Subs : seq[s] \in Nat
    BY NotifierAssumption DEF Settled, WellFormed, TypeOK, Queued, Rows, Delivery, Call
  <1>1. ASSUME NEW e \in Enqueuers, Enqueue(e) PROVE NumbersBelow'
    <2>1. PICK ev \in Events : call' = [call EXCEPT ![e] = NewCall(ev)]
      BY <1>1 DEF Enqueue
    <2>2. /\ call'[e].earlier = Queued /\ call'[e].sub = None
          /\ \A f \in Enqueuers : f # e => call'[f] = call[f]
      BY <1>0, <2>1 DEF TypeOK, NewCall, NoCall
    <2>3. seq' = seq /\ outbox' = outbox /\ Queued' = Queued
      BY <1>1 DEF Enqueue, Queued
    <2> QED
      BY <1>0, <2>2, <2>3 DEF NumbersBelow
  <1>2. ASSUME NEW e \in Enqueuers, Bump(e) PROVE NumbersBelow'
    <2>1. PICK s \in call[e].todo :
            /\ seq' = [seq EXCEPT ![s] = seq[s] + 1]
            /\ call' = [call EXCEPT ![e] = Taken(call[e], s)]
      BY <1>2 DEF Bump
    <2>2. call[e].step = "bump" /\ s \in Subs /\ outbox' = Flushed(call[e])
      BY <1>0, <1>2 DEF Bump, Call
    <2>3. /\ call'[e].step = "read" /\ call'[e].sub = s /\ call'[e].earlier = call[e].earlier
          /\ \A f \in Enqueuers : f # e => call'[f] = call[f]
      BY <1>0, <2>1 DEF TypeOK, Taken, Call
    <2>4. \A t \in Subs : seq'[t] \in Nat /\ seq'[t] = IF t = s THEN seq[t] + 1 ELSE seq[t]
      BY <1>0, <2>1, <2>2 DEF TypeOK
    <2>5. /\ Queued \subseteq Queued'
          /\ \A q \in Queued : outbox'[q] = outbox[q]
          /\ \A r \in Queued' : r[2] \in Subs /\ outbox'[r].seq \in Nat /\ outbox'[r].seq <= seq[r[2]]
      BY <2>2, FlushedBelow
    <2>6. ASSUME NEW r \in Queued' PROVE outbox'[r].seq <= seq'[r[2]]
      BY <1>0, <2>4, <2>5
    <2>7. ASSUME NEW f \in Enqueuers, f # e
          PROVE  /\ call'[f].earlier \subseteq Queued'
                 /\ call'[f].sub \in Subs /\ call'[f].step = "bump" => call'[f].num <= seq'[call'[f].sub]
                 /\ \A q \in call'[f].earlier : q[2] = call'[f].sub =>
                      /\ outbox'[q].seq < seq'[q[2]]
                      /\ call'[f].step = "bump" => outbox'[q].seq < call'[f].num
      BY <1>0, <2>3, <2>4, <2>5, <2>7 DEF NumbersBelow
    <2>8. ASSUME NEW q \in call'[e].earlier, q[2] = s PROVE q \in Queued /\ outbox'[q].seq < seq'[s]
      BY <1>0, <2>2, <2>3, <2>4, <2>5, <2>8 DEF NumbersBelow
    <2> QED
      BY <2>3, <2>5, <2>6, <2>7, <2>8 DEF NumbersBelow
  <1>3. ASSUME NEW e \in Enqueuers, ReadBack(e) PROVE NumbersBelow'
    <2>1. /\ call' = [call EXCEPT ![e] = Numbered(call[e])]
          /\ seq' = seq /\ outbox' = outbox /\ Queued' = Queued
          /\ call[e].sub \in Subs
      BY <1>0, <1>3 DEF ReadBack, Queued, CallsUnderWay
    <2>2. /\ call'[e].sub = call[e].sub /\ call'[e].earlier = call[e].earlier
          /\ call'[e].num = seq[call[e].sub]
          /\ \A f \in Enqueuers : f # e => call'[f] = call[f]
      BY <1>0, <2>1 DEF TypeOK, Numbered, Call
    <2> QED
      BY <1>0, <2>1, <2>2 DEF NumbersBelow
  <1>4. ASSUME NEW e \in Enqueuers, Return(e) PROVE NumbersBelow'
    <2>1. call[e].step = "bump" /\ outbox' = Flushed(call[e]) /\ seq' = seq
      BY <1>4 DEF Return
    <2>2. /\ call'[e] = NoCall
          /\ \A f \in Enqueuers : f # e => call'[f] = call[f]
      BY <1>0, <1>4 DEF Return, TypeOK
    <2>3. /\ Queued \subseteq Queued'
          /\ \A q \in Queued : outbox'[q] = outbox[q]
          /\ \A r \in Queued' : outbox'[r].seq <= seq[r[2]]
      BY <2>1, FlushedBelow
    <2> QED
      BY <1>0, <2>1, <2>2, <2>3 DEF NumbersBelow, NoCall
  <1>5. ASSUME NEW e \in Enqueuers, EnqueueDies(e) PROVE NumbersBelow'
    <2>1. /\ call'[e] = NoCall
          /\ \A f \in Enqueuers : f # e => call'[f] = call[f]
          /\ seq' = seq /\ outbox' = outbox /\ Queued' = Queued
      BY <1>0, <1>5 DEF EnqueueDies, TypeOK, Queued
    <2> QED
      BY <1>0, <2>1 DEF NumbersBelow, NoCall
  <1>6. ASSUME NEW w \in Workers, Deliver(w) \/ PostStep(w) PROVE NumbersBelow'
    <2>1. call' = call /\ seq' = seq
      BY <1>6 DEF Deliver, PostStep, Accepted, Saved, Refused, Unrecorded, bus
    <2>2. /\ Queued' = Queued
          /\ \A r \in Queued : outbox'[r].seq = outbox[r].seq
      <3>1. CASE outbox' = outbox
        BY <3>1 DEF Queued
      <3>2. CASE Saved(w)
        <4> DEFINE new == [outbox[post[w].row] EXCEPT !.delivered = TRUE]
        <4>1. post[w].row \in Queued /\ outbox[post[w].row] \in Delivery
          BY <1>0, <3>2 DEF Saved, CallsUnderWay
        <4>2. new \in Delivery /\ new.seq = outbox[post[w].row].seq
          BY <4>1 DEF Delivery
        <4>3. outbox' = [outbox EXCEPT ![post[w].row] = new]
          BY <3>2 DEF Saved
        <4> HIDE DEF new
        <4> QED
          BY <1>0, <4>1, <4>2, <4>3, NotifierAssumption DEF TypeOK, Queued
      <3>3. CASE Refused(w)
        <4>1. post[w].row \in Queued /\ outbox[post[w].row] \in Delivery /\ post[w].attempts \in Nat
          BY <1>0, <3>3 DEF Refused, CallsUnderWay, TypeOK, Post
        <4>2. Attempted(outbox[post[w].row], post[w].attempts) # None
          BY <4>1, AttemptedType, NotifierAssumption
        <4> QED
          BY <1>0, <3>3, <4>1, <4>2 DEF Refused, Attempted, TypeOK, Queued, Delivery
      <3> QED
        BY <1>6, <3>1, <3>2, <3>3 DEF Deliver, PostStep, Accepted, Unrecorded
    <2> QED
      BY <2>1, <2>2 DEF NumbersBelow
  <1>7. CASE UNCHANGED vars
    BY <1>7 DEF vars, NumbersBelow, Queued
  <1> QED
    BY <1>1, <1>2, <1>3, <1>4, <1>5, <1>6, <1>7 DEF Next, EnqueueStep

(* However calls overlap, crash and are made again, a row carries a higher *)
(* number than every row of its subscriber that was queued before its call *)
(* began.                                                                  *)
THEOREM NumbersInOrder == Spec => SeqInOrder
  <1> DEFINE Ordered ==
        \A e \in Enqueuers : \A r \in Queued' \ Queued : \A q \in call[e].earlier :
            r[1] = call[e].event /\ q[2] = r[2] => outbox[q].seq < outbox'[r].seq
  <1>1. Init => InOrderInv
    BY SettledInit, NotifierAssumption DEF Init, InOrderInv, NumbersBelow, NoCall, Queued
  <1>2. InOrderInv /\ [Next]_vars => InOrderInv'
    BY SettledStep, NumbersBelowStep DEF InOrderInv
  <1>3. ASSUME InOrderInv, [Next]_vars PROVE [Ordered]_vars
    <2>1. ASSUME NEW f \in Enqueuers, Bump(f) \/ Return(f) PROVE Ordered
      <3>1. /\ call[f].step = "bump" /\ outbox' = Flushed(call[f])
        BY <2>1 DEF Bump, Return
      <3>2. ASSUME NEW e \in Enqueuers, NEW r \in Queued' \ Queued, NEW q \in call[e].earlier,
                   r[1] = call[e].event, q[2] = r[2]
            PROVE  outbox[q].seq < outbox'[r].seq
        <4>1. /\ r = <<call[f].event, call[f].sub>>
              /\ outbox'[r] = NewDelivery(call[f].num)
          BY <1>3, <3>1, <3>2, FlushedAdds DEF Queued, InOrderInv
        <4>2. e = f
          BY <1>3, <3>1, <3>2, <4>1 DEF InOrderInv, Settled, QueuedOnce
        <4> QED
          BY <1>3, <3>1, <3>2, <4>1, <4>2 DEF InOrderInv, NumbersBelow, NewDelivery
      <3> QED
        BY <3>2
    <2>2. ASSUME Queued' \subseteq Queued PROVE Ordered
      BY <2>2
    <2>3. ASSUME NEW w \in Workers, Saved(w) \/ Refused(w) PROVE Queued' \subseteq Queued
      BY <1>3, <2>3 DEF InOrderInv, Settled, WellFormed, CallsUnderWay, Saved, Refused, TypeOK, Queued
    <2> QED
      BY <1>3, <2>1, <2>2, <2>3
      DEF Next, vars, EnqueueStep, PostStep, Enqueue, ReadBack, EnqueueDies, Deliver, Accepted,
          Unrecorded, Queued
  <1> QED
    BY <1>1, <1>2, <1>3, PTL DEF Spec, SeqInOrder
----
(* What a number of s can be: on a queued row, or held by a call.          *)
QueuedOf(s) == {r \in Queued : r[2] = s}
Holders(s)  == {e \in Enqueuers : call[e].sub = s}

(* SeqAccounts needs the sets it counts to be finite: they grow by one at  *)
(* a time, whatever the numbers of events and callers.                     *)
Counted(s) ==
    /\ IsFiniteSet(QueuedOf(s)) /\ IsFiniteSet(Holders(s))
    /\ seq[s] = Cardinality(QueuedOf(s)) + Cardinality(Holders(s)) + lost[s]
AllCounted == \A s \in Subs : Counted(s)

(* No subscriber has a number at first.                                    *)
LEMMA CountedInit == Init => AllCounted
  <1> SUFFICES ASSUME Init, NEW s \in Subs PROVE Counted(s)
    BY DEF AllCounted
  <1>1. QueuedOf(s) = {}
    BY DEF Init, QueuedOf, Queued
  <1>2. Holders(s) = {}
    BY NotifierAssumption DEF Init, Holders, NoCall
  <1>3. seq[s] = 0 /\ lost[s] = 0
    BY DEF Init
  <1> QED
    BY <1>1, <1>2, <1>3, FS_EmptySet DEF Counted

(* A commit of a call queues the row of the subscriber whose number it     *)
(* holds, which was not queued before.                                     *)
LEMMA FlushedCounts ==
    ASSUME Settled, NEW e \in Enqueuers, call[e].step # "idle", outbox' = Flushed(call[e]),
           NEW s \in Subs
    PROVE  /\ call[e].sub # s => QueuedOf(s)' = QueuedOf(s)
           /\ call[e].sub = s =>
                \E r : r \notin QueuedOf(s) /\ QueuedOf(s)' = QueuedOf(s) \cup {r}
  <1> DEFINE new == <<call[e].event, call[e].sub>>
  <1>1. call[e] \in Call /\ call[e].event \in Events /\ None \notin Subs
    BY NotifierAssumption DEF Settled, WellFormed, TypeOK, CallsUnderWay
  <1>2. \A r \in Queued : outbox'[r] # None
    BY FlushedAdds DEF Queued
  <1>3. \A r \in Rows \ Queued : outbox'[r] # None => r = new
    BY FlushedAdds
  <1>4. new[2] = call[e].sub
    OBVIOUS
  <1>5. CASE call[e].sub # s
    BY <1>2, <1>3, <1>4, <1>5 DEF QueuedOf, Queued
  <1>6. CASE call[e].sub = s
    <2>1. new \in Rows /\ new \in ToQueue(call[e])
      BY <1>1, <1>6 DEF Rows, ToQueue
    <2>2. new \notin Queued
      BY <2>1 DEF Settled, QueuedOnce
    <2>3. call[e].sub # None
      BY <1>1, <1>6
    <2>4. outbox'[new] = NewDelivery(call[e].num)
      BY <2>1, <2>3 DEF Flushed, Settled, WellFormed, TypeOK
    <2>5. outbox'[new] # None
      <3>1. NewDelivery(call[e].num) \in Delivery
        BY <1>1 DEF NewDelivery, Delivery, Call
      <3> QED
        BY <2>4, <3>1, NotifierAssumption
    <2> HIDE DEF new
    <2>6. QueuedOf(s)' = QueuedOf(s) \cup {new}
      BY <1>2, <1>3, <1>4, <1>6, <2>1, <2>5 DEF QueuedOf, Queued
    <2> QED
      BY <1>6, <2>2, <2>6 DEF QueuedOf
  <1> QED
    BY <1>5, <1>6

(* A step of one call changes who holds a number of s for that call alone. *)
LEMMA HoldersChange ==
    ASSUME TypeOK, NEW e \in Enqueuers, NEW c, call' = [call EXCEPT ![e] = c], NEW s \in Subs
    PROVE  Holders(s)' = IF c.sub = s THEN Holders(s) \cup {e} ELSE Holders(s) \ {e}
  BY DEF TypeOK, Holders

(* Every step keeps the account: a number is taken, queued or lost once.   *)
LEMMA CountedStep == Settled /\ AllCounted /\ [Next]_vars => AllCounted'
  <1> SUFFICES ASSUME Settled, AllCounted, [Next]_vars, NEW s \in Subs PROVE Counted(s)'
    BY DEF AllCounted
  <1>0. /\ IsFiniteSet(QueuedOf(s)) /\ IsFiniteSet(Holders(s))
        /\ seq[s] = Cardinality(QueuedOf(s)) + Cardinality(Holders(s)) + lost[s]
        /\ Cardinality(QueuedOf(s)) \in Nat /\ Cardinality(Holders(s)) \in Nat
        /\ seq[s] \in Nat /\ lost[s] \in Nat
        /\ None \notin Subs
        /\ TypeOK
    BY FS_CardinalityType, NotifierAssumption DEF AllCounted, Counted, Settled, WellFormed, TypeOK
  <1>1. ASSUME QueuedOf(s)' = QueuedOf(s), Holders(s)' = Holders(s),
               seq'[s] = seq[s], lost'[s] = lost[s]
        PROVE  Counted(s)'
    BY <1>0, <1>1 DEF Counted
  <1>2. ASSUME NEW e \in Enqueuers, Enqueue(e) PROVE Counted(s)'
    <2>1. PICK ev \in Events : call' = [call EXCEPT ![e] = NewCall(ev)]
      BY <1>2 DEF Enqueue
    <2>2. call[e].sub = None /\ NewCall(ev).sub = None
      BY <1>2 DEF Enqueue, Settled, WellFormed, CallsUnderWay, NewCall, NoCall
    <2>3. Holders(s)' = Holders(s)
      BY <1>0, <2>1, <2>2, HoldersChange DEF Holders
    <2> QED
      BY <1>1, <1>2, <2>3 DEF Enqueue, QueuedOf, Queued
  <1>3. ASSUME NEW e \in Enqueuers, Bump(e) PROVE Counted(s)'
    <2>1. PICK t \in call[e].todo :
            seq' = [seq EXCEPT ![t] = @ + 1] /\ call' = [call EXCEPT ![e] = Taken(call[e], t)]
      BY <1>3 DEF Bump
    <2>2. t \in Subs
      BY <1>0 DEF TypeOK, Call
    <2>3. Taken(call[e], t).sub = t
      BY <1>0 DEF TypeOK, Call, Taken
    <2>4. Holders(s)' = IF t = s THEN Holders(s) \cup {e} ELSE Holders(s) \ {e}
      BY <1>0, <2>1, <2>3, HoldersChange
    <2>5. seq'[s] = (IF t = s THEN seq[s] + 1 ELSE seq[s]) /\ lost'[s] = lost[s]
      BY <1>0, <1>3, <2>1 DEF Bump, TypeOK
    <2>6. e \in Holders(s) <=> call[e].sub = s
      BY DEF Holders
    <2>7. /\ call[e].sub # s => QueuedOf(s)' = QueuedOf(s)
          /\ call[e].sub = s =>
                \E r : r \notin QueuedOf(s) /\ QueuedOf(s)' = QueuedOf(s) \cup {r}
      BY <1>3, FlushedCounts DEF Bump
    <2>8. CASE call[e].sub # s
      <3>1. IsFiniteSet(Holders(s)') /\
            Cardinality(Holders(s)') = Cardinality(Holders(s)) + (IF t = s THEN 1 ELSE 0)
        <4>1. CASE t = s
          BY <1>0, <2>4, <2>6, <2>8, <4>1, FS_AddElement
        <4>2. CASE t # s
          BY <1>0, <2>4, <2>6, <2>8, <4>2, FS_RemoveElement
        <4> QED
          BY <4>1, <4>2
      <3> QED
        BY <1>0, <2>5, <2>7, <2>8, <3>1 DEF Counted
    <2>9. CASE call[e].sub = s
      <3>1. IsFiniteSet(Holders(s)') /\
            Cardinality(Holders(s)') = Cardinality(Holders(s)) - (IF t = s THEN 0 ELSE 1)
        <4>1. CASE t = s
          BY <1>0, <2>4, <2>6, <2>9, <4>1, FS_AddElement
        <4>2. CASE t # s
          BY <1>0, <2>4, <2>6, <2>9, <4>2, FS_RemoveElement
        <4> QED
          BY <4>1, <4>2
      <3>2. IsFiniteSet(QueuedOf(s)') /\ Cardinality(QueuedOf(s)') = Cardinality(QueuedOf(s)) + 1
        BY <1>0, <2>7, <2>9, FS_AddElement
      <3> QED
        BY <1>0, <2>5, <3>1, <3>2 DEF Counted
    <2> QED
      BY <2>8, <2>9
  <1>4. ASSUME NEW e \in Enqueuers, ReadBack(e) PROVE Counted(s)'
    <2>1. Numbered(call[e]).sub = call[e].sub
      BY <1>0 DEF TypeOK, Call, Numbered
    <2>2. Holders(s)' = Holders(s)
      BY <1>0, <1>4, <2>1, HoldersChange DEF ReadBack, Holders
    <2> QED
      BY <1>1, <1>4, <2>2 DEF ReadBack, QueuedOf, Queued
  <1>5. ASSUME NEW e \in Enqueuers, Return(e) \/ EnqueueDies(e) PROVE Counted(s)'
    <2>1. Holders(s)' = Holders(s) \ {e}
      <3>1. NoCall.sub = None
        BY DEF NoCall
      <3> QED
        BY <1>0, <1>5, <3>1, HoldersChange DEF Return, EnqueueDies
    <2>2. /\ IsFiniteSet(Holders(s)')
          /\ Cardinality(Holders(s)') =
                IF call[e].sub = s THEN Cardinality(Holders(s)) - 1 ELSE Cardinality(Holders(s))
      <3>1. e \in Holders(s) <=> call[e].sub = s
        BY DEF Holders
      <3> QED
        BY <1>0, <2>1, <3>1, FS_RemoveElement
    <2>3. CASE Return(e)
      <3>1. /\ call[e].sub # s => QueuedOf(s)' = QueuedOf(s)
            /\ call[e].sub = s =>
                \E r : r \notin QueuedOf(s) /\ QueuedOf(s)' = QueuedOf(s) \cup {r}
        BY <2>3, FlushedCounts DEF Return
      <3>2. /\ IsFiniteSet(QueuedOf(s)')
            /\ Cardinality(QueuedOf(s)') =
                IF call[e].sub = s THEN Cardinality(QueuedOf(s)) + 1 ELSE Cardinality(QueuedOf(s))
        BY <1>0, <3>1, FS_AddElement
      <3> QED
        BY <1>0, <2>2, <2>3, <3>2 DEF Return, Counted
    <2>4. CASE EnqueueDies(e)
      <3>1. QueuedOf(s)' = QueuedOf(s) /\ seq'[s] = seq[s]
        BY <2>4 DEF EnqueueDies, QueuedOf, Queued
      <3>2. lost'[s] = IF call[e].sub = s THEN lost[s] + 1 ELSE lost[s]
        BY <2>4 DEF EnqueueDies
      <3> QED
        BY <1>0, <2>2, <3>1, <3>2 DEF Counted
    <2> QED
      BY <1>5, <2>3, <2>4
  <1>6. ASSUME NEW w \in Workers, Deliver(w) \/ PostStep(w) PROVE Counted(s)'
    <2>1. seq' = seq /\ call' = call /\ lost' = lost
      BY <1>6 DEF Deliver, PostStep, Accepted, Saved, Refused, Unrecorded, bus
    <2>2. ASSUME NEW r \in Rows PROVE outbox'[r] # None <=> outbox[r] # None
      <3>1. CASE outbox' = outbox
        BY <3>1
      <3>2. CASE Saved(w) \/ Refused(w)
        <4>1. post[w].row \in Queued
          BY <3>2 DEF Settled, WellFormed, CallsUnderWay, Saved, Refused
        <4>2. outbox[post[w].row] \in Delivery
          BY <1>0, <4>1 DEF TypeOK, Queued
        <4>3. /\ [outbox[post[w].row] EXCEPT !.delivered = TRUE] \in Delivery
              /\ Attempted(outbox[post[w].row], post[w].attempts) \in Delivery
          BY <1>0, <4>2, AttemptedType DEF TypeOK, Post, Delivery
        <4>4. PICK d \in Delivery : outbox' = [outbox EXCEPT ![post[w].row] = d]
          BY <3>2, <4>3 DEF Saved, Refused
        <4>5. d # None
          BY NotifierAssumption
        <4> QED
          BY <1>0, <4>1, <4>4, <4>5 DEF TypeOK, Queued
      <3> QED
        BY <1>6, <3>1, <3>2 DEF Deliver, PostStep, Accepted, Unrecorded
    <2>3. QueuedOf(s)' = QueuedOf(s)
      BY <2>2 DEF QueuedOf, Queued
    <2>4. Holders(s)' = Holders(s)
      BY <2>1 DEF Holders
    <2> QED
      BY <1>1, <2>1, <2>3, <2>4
  <1>7. CASE UNCHANGED vars
    BY <1>1, <1>7 DEF vars, QueuedOf, Queued, Holders
  <1> QED
    BY <1>2, <1>3, <1>4, <1>5, <1>6, <1>7 DEF Next, EnqueueStep

(* No increment of a subscriber's seq is lost, whatever callers overlap or *)
(* die: a gap in the numbers it receives is a call that did not return.    *)
THEOREM NumbersAccounted == Spec => []SeqAccounts
  <1>1. AllCounted => SeqAccounts
    BY DEF AllCounted, Counted, QueuedOf, Holders, SeqAccounts
  <1> QED
    BY SettledInit, SettledStep, CountedInit, CountedStep, <1>1, PTL DEF Spec
====
