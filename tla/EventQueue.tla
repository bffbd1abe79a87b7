----------------------------- MODULE EventQueue -----------------------------
(***************************************************************************)
(* The simulation kernel's future event set, as much of it as the modules  *)
(* of src/handover rely on: scheduleAt, cancelEvent and the order in which *)
(* pending messages are delivered.  It is code outside the repository: the *)
(* operators are modelled from how handleMessage and scheduleAt are used.  *)
(*                                                                         *)
(* A queue is relative to the present: left[t] is the time still to pass   *)
(* before timer t arrives, and <<t, u>> \in before says t was inserted     *)
(* earlier than u, which decides between arrivals at the same instant.     *)
(***************************************************************************)
EXTENDS Integers

NotScheduled == -1

EmptyQueue(Timers) == [left   |-> [t \in Timers |-> NotScheduled],
                       before |-> {}]

IsQueue(q, Timers) ==
    /\ q = [left |-> q.left, before |-> q.before]
    /\ q.left \in [Timers -> {NotScheduled} \cup Nat]
    /\ q.before \subseteq Timers \X Timers

Scheduled(q) == {t \in DOMAIN q.left : q.left[t] # NotScheduled}

\* scheduleAt(simTime() + delay, t), for a message that is not pending.
ScheduleAfter(q, t, delay) ==
    [left   |-> [q.left EXCEPT ![t] = delay],
     before |-> q.before \cup {<<u, t>> : u \in Scheduled(q) \ {t}}]

\* cancelEvent(t), also of a message that is not pending.
Cancel(q, t) ==
    [left   |-> [q.left EXCEPT ![t] = NotScheduled],
     before |-> {p \in q.before : p[1] # t /\ p[2] # t}]

\* t is the next message the kernel delivers: the earliest, and among equals
\* the one inserted first.
IsNext(q, t) ==
    /\ t \in Scheduled(q)
    /\ \A u \in Scheduled(q) \ {t} :
          \/ q.left[t] < q.left[u]
          \/ q.left[t] = q.left[u] /\ <<t, u>> \in q.before

\* Time advances by d, at most up to the next arrival.
MayElapse(q, d) == \A t \in Scheduled(q) : d <= q.left[t]

Elapse(q, d) ==
    [left   |-> [t \in DOMAIN q.left |->
                    IF t \in Scheduled(q) THEN q.left[t] - d ELSE NotScheduled],
     before |-> q.before]

\* The queue while handleMessage(t) runs: t has left it and the clock stands
\* at its arrival time.
Deliver(q, t) == Cancel(Elapse(q, q.left[t]), t)
=============================================================================
