-------------------------- MODULE EventQueueProofs --------------------------
(***************************************************************************)
(* What the operations of the event queue do, for any set of timers: the   *)
(* facts the proofs about the modules that own timers rest on.             *)
(***************************************************************************)
EXTENDS EventQueue, TLAPS

\* Scheduling a timer sets its delay, leaves the others alone and inserts it
\* after all that are pending.
LEMMA ScheduleAfterQueue ==
  ASSUME NEW T, NEW q, IsQueue(q, T), NEW t \in T, NEW d \in Nat
  PROVE  /\ IsQueue(ScheduleAfter(q, t, d), T)
         /\ Scheduled(ScheduleAfter(q, t, d)) = Scheduled(q) \cup {t}
         /\ ScheduleAfter(q, t, d).left[t] = d
         /\ \A u \in T \ {t} : ScheduleAfter(q, t, d).left[u] = q.left[u]
         /\ \A u \in T, v \in T :
               <<u, v>> \in ScheduleAfter(q, t, d).before <=>
                  <<u, v>> \in q.before \/ (v = t /\ u \in Scheduled(q) \ {t})
<1> DEFINE r == ScheduleAfter(q, t, d)
<1>1. /\ r = [left |-> r.left, before |-> r.before]
      /\ r.left = [q.left EXCEPT ![t] = d]
      /\ r.before = q.before \cup {<<u, t>> : u \in Scheduled(q) \ {t}}
  BY DEF ScheduleAfter
<1>2. q.left \in [T -> {NotScheduled} \cup Nat] /\ q.before \subseteq T \X T
  BY DEF IsQueue
<1> HIDE DEF r
<1>3. /\ r.left \in [T -> {NotScheduled} \cup Nat]
      /\ r.left[t] = d /\ \A u \in T \ {t} : r.left[u] = q.left[u]
  BY <1>1, <1>2
<1>4. Scheduled(q) \subseteq T
  BY <1>2 DEF Scheduled
<1>5. r.before \subseteq T \X T
  BY <1>1, <1>2, <1>4
<1>6. Scheduled(r) = Scheduled(q) \cup {t}
  <2>1. d # NotScheduled
    BY DEF NotScheduled
  <2> QED BY <1>2, <1>3, <2>1 DEF Scheduled
<1>7. \A u \in T, v \in T :
         <<u, v>> \in r.before <=> <<u, v>> \in q.before \/ (v = t /\ u \in Scheduled(q) \ {t})
  BY <1>1
<1> QED BY <1>1, <1>3, <1>5, <1>6, <1>7 DEF IsQueue, r

\* Cancelling a timer removes it and leaves the others alone.
LEMMA CancelQueue ==
  ASSUME NEW T, NEW q, IsQueue(q, T), NEW t \in T
  PROVE  /\ IsQueue(Cancel(q, t), T)
         /\ Scheduled(Cancel(q, t)) = Scheduled(q) \ {t}
         /\ \A u \in T \ {t} : Cancel(q, t).left[u] = q.left[u]
         /\ \A u \in T, v \in T :
               <<u, v>> \in Cancel(q, t).before <=> <<u, v>> \in q.before /\ u # t /\ v # t
<1> DEFINE r == Cancel(q, t)
<1>1. /\ r = [left |-> r.left, before |-> r.before]
      /\ r.left = [q.left EXCEPT ![t] = NotScheduled]
      /\ r.before = {p \in q.before : p[1] # t /\ p[2] # t}
  BY DEF Cancel
<1>2. q.left \in [T -> {NotScheduled} \cup Nat] /\ q.before \subseteq T \X T
  BY DEF IsQueue
<1> HIDE DEF r
<1>3. /\ r.left \in [T -> {NotScheduled} \cup Nat]
      /\ r.left[t] = NotScheduled /\ \A u \in T \ {t} : r.left[u] = q.left[u]
  BY <1>1, <1>2
<1>4. r.before \subseteq T \X T
  BY <1>1, <1>2
<1>5. Scheduled(r) = Scheduled(q) \ {t}
  BY <1>2, <1>3 DEF Scheduled
<1>6. \A u \in T, v \in T :
         <<u, v>> \in r.before <=> <<u, v>> \in q.before /\ u # t /\ v # t
  BY <1>1
<1> QED BY <1>1, <1>3, <1>4, <1>5, <1>6 DEF IsQueue, r

\* Letting time pass brings every pending timer nearer by as much.
LEMMA ElapseQueue ==
  ASSUME NEW T, NEW q, IsQueue(q, T), NEW d \in Nat, MayElapse(q, d)
  PROVE  /\ IsQueue(Elapse(q, d), T)
         /\ Scheduled(Elapse(q, d)) = Scheduled(q)
         /\ \A u \in Scheduled(q) : Elapse(q, d).left[u] = q.left[u] - d
         /\ Elapse(q, d).before = q.before
<1> DEFINE r == Elapse(q, d)
<1>1. /\ r = [left |-> r.left, before |-> r.before]
      /\ r.left = [t \in DOMAIN q.left |->
                      IF t \in Scheduled(q) THEN q.left[t] - d ELSE NotScheduled]
      /\ r.before = q.before
  BY DEF Elapse
<1>2. q.left \in [T -> {NotScheduled} \cup Nat] /\ q.before \subseteq T \X T
  BY DEF IsQueue
<1>3. DOMAIN q.left = T /\ Scheduled(q) = {t \in T : q.left[t] # NotScheduled}
  BY <1>2 DEF Scheduled
<1> HIDE DEF r
<1>4. \A u \in Scheduled(q) : q.left[u] \in Nat /\ q.left[u] - d \in Nat
  <2>1. \A u \in Scheduled(q) : q.left[u] \in Nat /\ d =< q.left[u]
    BY <1>2, <1>3 DEF MayElapse
  <2> QED BY <2>1
<1>5. \A u \in T : r.left[u] = IF u \in Scheduled(q) THEN q.left[u] - d ELSE NotScheduled
  BY <1>1, <1>3
<1>6. r.left \in [T -> {NotScheduled} \cup Nat]
  BY <1>1, <1>3, <1>4
<1>7. Scheduled(r) = Scheduled(q)
  <2>1. \A u \in Scheduled(q) : q.left[u] - d # NotScheduled
    BY <1>4 DEF NotScheduled
  <2>2. Scheduled(r) = {t \in T : r.left[t] # NotScheduled}
    BY <1>6 DEF Scheduled
  <2> QED BY <1>3, <1>5, <2>1, <2>2
<1> QED BY <1>1, <1>2, <1>3, <1>5, <1>6, <1>7 DEF IsQueue, r

\* Delivering the next timer removes it; the others come nearer by the time
\* that passed, and none is overtaken.
LEMMA DeliverQueue ==
  ASSUME NEW T, NEW q, IsQueue(q, T), NEW t \in T, IsNext(q, t)
  PROVE  /\ IsQueue(Deliver(q, t), T)
         /\ q.left[t] \in Nat
         /\ Scheduled(Deliver(q, t)) = Scheduled(q) \ {t}
         /\ \A u \in Scheduled(q) \ {t} :
               Deliver(q, t).left[u] = q.left[u] - q.left[t]
         /\ \A u \in T, v \in T :
               <<u, v>> \in Deliver(q, t).before <=> <<u, v>> \in q.before /\ u # t /\ v # t
<1>1. q.left \in [T -> {NotScheduled} \cup Nat] /\ Scheduled(q) \subseteq T
  BY DEF IsQueue, Scheduled
<1>2. q.left[t] \in Nat
  BY <1>1 DEF IsNext, Scheduled
<1>3. MayElapse(q, q.left[t])
  <2> SUFFICES ASSUME NEW u \in Scheduled(q) PROVE q.left[t] =< q.left[u]
    BY DEF MayElapse
  <2>1. q.left[u] \in Nat
    BY <1>1 DEF Scheduled
  <2>2. u = t \/ q.left[t] < q.left[u] \/ q.left[t] = q.left[u]
    BY DEF IsNext
  <2> QED BY <1>2, <2>1, <2>2
<1> DEFINE e == Elapse(q, q.left[t])
<1>4. /\ IsQueue(e, T) /\ Scheduled(e) = Scheduled(q) /\ e.before = q.before
      /\ \A u \in Scheduled(q) : e.left[u] = q.left[u] - q.left[t]
  BY <1>2, <1>3, ElapseQueue
<1> HIDE DEF e
<1>5. /\ IsQueue(Cancel(e, t), T)
      /\ Scheduled(Cancel(e, t)) = Scheduled(e) \ {t}
      /\ \A u \in T \ {t} : Cancel(e, t).left[u] = e.left[u]
      /\ \A u \in T, v \in T :
            <<u, v>> \in Cancel(e, t).before <=> <<u, v>> \in e.before /\ u # t /\ v # t
  BY <1>4, CancelQueue
<1> QED BY <1>1, <1>2, <1>4, <1>5 DEF Deliver, e
=============================================================================
