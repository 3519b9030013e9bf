-------------------------- MODULE ThreadPoolProofs --------------------------
(***************************************************************************)
(* For any number of workers, clients and tasks: the pool of               *)
(* threads_pool.cpp keeps its types, no worker sleeps on work or on the    *)
(* stop flag, and it implements TaskPool.                                  *)
(***************************************************************************)
EXTENDS ThreadPool, TLAPS, FiniteSetTheorems, SequenceTheorems

Begun == Len(accepted) - Len(queue)

\* The queue is what is left of the tasks accepted.
QueueIsTheRest ==
  /\ Len(queue) <= Len(accepted)
  /\ \A i \in 1 .. Len(queue) : queue[i] = accepted[Begun + i]

AcceptedOnce ==
  \A i, j \in 1 .. Len(accepted) : accepted[i] = accepted[j] => i = j

\* A task that has begun is run by one worker or done, not both; a task that
\* has not is neither.
BegunOnce ==
  /\ \A v, w \in Worker : task[v] = task[w] /\ task[v] # NoTask => v = w
  /\ \A w \in Worker : task[w] \notin done
  /\ \A i \in 1 .. Begun : accepted[i] \in done \/ \E w \in Worker : task[w] = accepted[i]
  /\ \A t \in done : \E i \in 1 .. Begun : accepted[i] = t
  /\ \A w \in Worker : task[w] # NoTask => \E i \in 1 .. Begun : accepted[i] = task[w]

\* A worker exits only when nothing is left, and nothing comes after that.
Drained ==
  /\ At("exited") # {} => stop /\ queue = <<>>
  /\ owner \in {"closed", "gone"} => At("exited") = Worker

(* The inductive invariant.  Refinement needs the tasks' invariants (that a *)
(* task ends once) and Drained (that shutdown returns after the last one).  *)
IInv ==
  /\ TypeOK
  /\ NoWorkerSleepsOnWork
  /\ NoLostStop
  /\ QueueIsTheRest
  /\ AcceptedOnce
  /\ BegunOnce
  /\ Drained

-----------------------------------------------------------------------------
(* Types *)

LEMMA TypeInit == Init => TypeOK
BY DEF Init, TypeOK, WorkerPlace, ClientPlace, OwnerPlace

LEMMA TypeStep ==
  ASSUME TypeOK, [Next]_vars
  PROVE  TypeOK'
<1> USE DEF TypeOK, WorkerPlace, ClientPlace, OwnerPlace
<1>1. ASSUME NEW c \in Client, NEW t \in Task, Enqueue(c, t)
      PROVE  TypeOK'
  <2>1. queue' \in Seq(Task) /\ accepted' \in Seq(Task)
    <3>1. \/ queue' = queue /\ accepted' = accepted
          \/ queue' = Append(queue, t) /\ accepted' = Append(accepted, t)
      BY <1>1, Zenon DEF Enqueue
    <3>2. Append(queue, t) \in Seq(Task) /\ Append(accepted, t) \in Seq(Task)
      OBVIOUS
    <3> QED
      BY <3>1, <3>2
  <2>2. client' \in [Client -> ClientPlace] /\ rejected' \in SUBSET Task
    BY <1>1 DEF Enqueue
  <2> QED
    BY <1>1, <2>1, <2>2 DEF Enqueue
<1>2. ASSUME NEW c \in Client, NotifyOne(c)
      PROVE  TypeOK'
  <2>1. worker' \in [Worker -> WorkerPlace]
    BY <1>2 DEF NotifyOne, At
  <2>2. client' \in [Client -> ClientPlace]
    BY <1>2 DEF NotifyOne
  <2>3. \A w \in Worker : worker'[w] = "running" <=> worker[w] = "running"
    BY <1>2 DEF NotifyOne, At
  <2> QED
    BY <1>2, <2>1, <2>2, <2>3 DEF NotifyOne
<1>3. ASSUME NEW w \in Worker, Wait(w) \/ Exit(w) \/ SpuriousWakeup(w)
      PROVE  TypeOK'
  BY <1>3 DEF Wait, Exit, SpuriousWakeup, Goes
<1>4. ASSUME NEW w \in Worker, Take(w)
      PROVE  TypeOK'
  <2>1. Head(queue) \in Task /\ Tail(queue) \in Seq(Task)
    BY <1>4, HeadTailProperties DEF Take
  <2> QED
    BY <1>4, <2>1, NoTaskAssumption DEF Take, Goes
<1>5. ASSUME NEW w \in Worker, Finish(w)
      PROVE  TypeOK'
  <2>1. task[w] \in Task
    BY <1>5 DEF Finish, Goes
  <2> QED
    BY <1>5, <2>1 DEF Finish, Goes
<1>6. CASE OwnerStep
  BY <1>6 DEF OwnerStep, Shutdown, NotifyAll, Join, Destroy
<1>7. CASE Finished \/ UNCHANGED vars
  BY <1>7 DEF Finished, vars
<1> QED
  BY <1>1, <1>2, <1>3, <1>4, <1>5, <1>6, <1>7 DEF Next, ClientStep, WorkerStep

-----------------------------------------------------------------------------
(* Sleeping workers *)

LEMMA FiniteSets ==
  ASSUME NEW place
  PROVE  /\ IsFiniteSet(At(place)) /\ Cardinality(At(place)) \in Nat
         /\ IsFiniteSet(Signalling) /\ Cardinality(Signalling) \in Nat
<1>1. At(place) \subseteq Worker /\ Signalling \subseteq Client
  BY DEF At, Signalling
<1>2. IsFiniteSet(At(place)) /\ IsFiniteSet(Signalling)
  BY <1>1, WorkerAssumption, ClientAssumption, FS_Subset
<1> QED
  BY <1>2, FS_CardinalityType

\* A worker more, and a worker less, at a place.
LEMMA WorkerArrives ==
  ASSUME TypeOK, NEW w \in Worker, NEW place,
         worker[w] # place, worker' = [worker EXCEPT ![w] = place]
  PROVE  Cardinality(At(place)') = Cardinality(At(place)) + 1
<1>1. At(place)' = At(place) \cup {w} /\ w \notin At(place)
  BY DEF At, TypeOK
<1> QED
  BY <1>1, FiniteSets, FS_AddElement

LEMMA WorkerLeaves ==
  ASSUME TypeOK, NEW w \in Worker, NEW place, NEW to, to # place,
         worker[w] = place, worker' = [worker EXCEPT ![w] = to]
  PROVE  Cardinality(At(place)') = Cardinality(At(place)) - 1
<1>1. At(place)' = At(place) \ {w} /\ w \in At(place)
  BY DEF At, TypeOK
<1> QED
  BY <1>1, FiniteSets, FS_RemoveElement

\* Signals are counted up by enqueue, down by notify_one.
LEMMA SignalArrives ==
  ASSUME TypeOK, NEW c \in Client, client[c] = "idle",
         client' = [client EXCEPT ![c] = "notify"]
  PROVE  Cardinality(Signalling') = Cardinality(Signalling) + 1
<1>1. Signalling' = Signalling \cup {c} /\ c \notin Signalling
  BY DEF Signalling, TypeOK
<1> QED
  BY <1>1, FiniteSets, FS_AddElement

LEMMA SignalLeaves ==
  ASSUME TypeOK, NEW c \in Client, client[c] = "notify",
         client' = [client EXCEPT ![c] = "idle"]
  PROVE  Cardinality(Signalling') = Cardinality(Signalling) - 1
<1>1. Signalling' = Signalling \ {c} /\ c \in Signalling
  BY DEF Signalling, TypeOK
<1> QED
  BY <1>1, FiniteSets, FS_RemoveElement

\* A task more is a signal more; a signal less is a ready worker more, unless
\* nobody waits; a worker starts to wait only when nothing is left; and who
\* takes a task was ready.
LEMMA SleepStep ==
  ASSUME TypeOK, NoWorkerSleepsOnWork, [Next]_vars
  PROVE  NoWorkerSleepsOnWork'
<1> DEFINE R == Cardinality(At("ready"))
           S == Cardinality(Signalling)
<1>0. R \in Nat /\ S \in Nat /\ R' \in Nat /\ S' \in Nat /\ Len(queue) \in Nat
  <2>1. R \in Nat /\ S \in Nat
    BY FiniteSets
  <2>2. At("ready")' \subseteq Worker /\ Signalling' \subseteq Client
    BY DEF At, Signalling
  <2>3. R' \in Nat /\ S' \in Nat
    BY <2>2, WorkerAssumption, ClientAssumption, FS_Subset, FS_CardinalityType
  <2> QED
    BY <2>1, <2>3 DEF TypeOK
<1>1. ASSUME NEW c \in Client, NEW t \in Task, Enqueue(c, t)
      PROVE  NoWorkerSleepsOnWork'
  <2>1. At("waiting")' = At("waiting") /\ R' = R
    BY <1>1 DEF Enqueue, At
  <2>2. CASE stop
    <3>1. queue' = queue /\ S' = S
      BY <1>1, <2>2 DEF Enqueue, Signalling
    <3> QED
      BY <1>0, <2>1, <3>1 DEF NoWorkerSleepsOnWork
  <2>3. CASE ~stop
    <3>1. S' = S + 1
      BY <1>1, <2>3, SignalArrives DEF Enqueue
    <3>2. Len(queue') = Len(queue) + 1
      BY <1>1, <2>3 DEF Enqueue, TypeOK
    <3> QED
      BY <1>0, <2>1, <3>1, <3>2 DEF NoWorkerSleepsOnWork
  <2> QED
    BY <2>2, <2>3
<1>2. ASSUME NEW c \in Client, NotifyOne(c)
      PROVE  NoWorkerSleepsOnWork'
  <2>1. queue' = queue /\ S' = S - 1
    BY <1>2, SignalLeaves DEF NotifyOne
  <2>2. CASE At("waiting") = {} /\ worker' = worker
    BY <2>2 DEF NoWorkerSleepsOnWork, At
  <2>3. ASSUME NEW w \in At("waiting"), worker' = [worker EXCEPT ![w] = "ready"]
        PROVE  NoWorkerSleepsOnWork'
    <3>1. w \in Worker /\ worker[w] = "waiting"
      BY <2>3 DEF At
    <3>2. R' = R + 1
      BY <2>3, <3>1, WorkerArrives
    <3> QED
      BY <1>0, <2>1, <2>3, <3>2 DEF NoWorkerSleepsOnWork
  <2> QED
    BY <1>2, <2>2, <2>3 DEF NotifyOne
<1>3. ASSUME NEW w \in Worker, Wait(w)
      PROVE  NoWorkerSleepsOnWork'
  <2>1. Len(queue') = 0
    BY <1>3 DEF Wait
  <2> QED
    BY <1>0, <2>1 DEF NoWorkerSleepsOnWork
<1>4. ASSUME NEW w \in Worker, Take(w)
      PROVE  NoWorkerSleepsOnWork'
  <2>1. Len(queue') = Len(queue) - 1
    BY <1>4 DEF Take, TypeOK
  <2>2. R' = R - 1
    BY <1>4, WorkerLeaves DEF Take, Goes
  <2>3. At("waiting")' = At("waiting") /\ S' = S
    BY <1>4 DEF Take, Goes, At, Signalling, TypeOK
  <2> QED
    BY <1>0, <2>1, <2>2, <2>3 DEF NoWorkerSleepsOnWork
<1>5. ASSUME NEW w \in Worker, Exit(w)
      PROVE  NoWorkerSleepsOnWork'
  <2>1. Len(queue') = 0
    BY <1>5 DEF Exit
  <2> QED
    BY <1>0, <2>1 DEF NoWorkerSleepsOnWork
<1>6. ASSUME NEW w \in Worker, Finish(w) \/ SpuriousWakeup(w)
      PROVE  NoWorkerSleepsOnWork'
  <2>1. worker[w] # "ready" /\ worker' = [worker EXCEPT ![w] = "ready"] /\ queue' = queue
    BY <1>6 DEF Finish, SpuriousWakeup, Goes
  <2>2. R' = R + 1
    BY <2>1, WorkerArrives
  <2>3. At("waiting")' \subseteq At("waiting") /\ S' = S
    BY <1>6, <2>1 DEF Finish, SpuriousWakeup, At, Signalling, TypeOK
  <2> QED
    BY <1>0, <2>1, <2>2, <2>3 DEF NoWorkerSleepsOnWork
<1>7. CASE NotifyAll
  <2>1. At("waiting")' = {}
    BY <1>7 DEF NotifyAll, At
  <2> QED
    BY <2>1 DEF NoWorkerSleepsOnWork
<1>8. CASE Shutdown \/ Join \/ Destroy \/ Finished \/ UNCHANGED vars
  BY <1>8 DEF Shutdown, Join, Destroy, Finished, vars, NoWorkerSleepsOnWork, At, Signalling
<1> QED
  BY <1>1, <1>2, <1>3, <1>4, <1>5, <1>6, <1>7, <1>8 DEF Next, ClientStep, WorkerStep, OwnerStep

LEMMA StopStep ==
  ASSUME TypeOK, NoLostStop, [Next]_vars
  PROVE  NoLostStop'
<1> USE DEF NoLostStop, stop, At
<1>1. ASSUME NEW c \in Client, NEW t \in Task, Enqueue(c, t)
      PROVE  NoLostStop'
  BY <1>1 DEF Enqueue
<1>2. ASSUME NEW c \in Client, NotifyOne(c)
      PROVE  NoLostStop'
  BY <1>2 DEF NotifyOne, TypeOK
<1>3. ASSUME NEW w \in Worker, WorkerStep(w) \/ SpuriousWakeup(w)
      PROVE  NoLostStop'
  BY <1>3 DEF WorkerStep, Wait, Take, Exit, Finish, SpuriousWakeup, Goes, TypeOK
<1>4. CASE OwnerStep \/ Finished \/ UNCHANGED vars
  BY <1>4 DEF OwnerStep, Shutdown, NotifyAll, Join, Destroy, Finished, vars
<1> QED
  BY <1>1, <1>2, <1>3, <1>4 DEF Next, ClientStep

-----------------------------------------------------------------------------
(* Tasks: accepted once, taken in order, run once *)

Order == QueueIsTheRest /\ AcceptedOnce /\ BegunOnce

\* What of the state the invariants on tasks depend on.
LEMMA OrderFrame ==
  ASSUME Order, UNCHANGED <<queue, accepted, task, done>>
  PROVE  Order'
BY DEF Order, QueueIsTheRest, AcceptedOnce, BegunOnce, Begun

LEMMA OrderAccept ==
  ASSUME TypeOK, Order, NEW c \in Client, NEW t \in Task, Enqueue(c, t), ~stop
  PROVE  Order'
<1>1. /\ queue' = Append(queue, t) /\ accepted' = Append(accepted, t)
      /\ task' = task /\ done' = done
  BY DEF Enqueue
<1>2. /\ Len(queue') = Len(queue) + 1 /\ Len(accepted') = Len(accepted) + 1
      /\ \A i \in 1 .. Len(queue) : queue'[i] = queue[i]
      /\ \A i \in 1 .. Len(accepted) : accepted'[i] = accepted[i]
      /\ queue'[Len(queue) + 1] = t /\ accepted'[Len(accepted) + 1] = t
  BY <1>1 DEF TypeOK
<1>3. Len(queue) \in Nat /\ Len(accepted) \in Nat /\ Len(queue) <= Len(accepted)
  BY DEF TypeOK, Order, QueueIsTheRest
<1>4. Begun' = Begun
  BY <1>2, <1>3 DEF Begun
<1>5. QueueIsTheRest'
  <2> SUFFICES ASSUME NEW i \in 1 .. Len(queue) + 1
               PROVE  queue'[i] = accepted'[Begun + i]
    BY <1>2, <1>3, <1>4 DEF QueueIsTheRest
  <2>1. CASE i = Len(queue) + 1
    BY <1>2, <1>3, <2>1 DEF Begun
  <2>2. CASE i \in 1 .. Len(queue)
    BY <1>2, <1>3, <2>2 DEF Begun, Order, QueueIsTheRest
  <2> QED
    BY <1>3, <2>1, <2>2
<1>6. AcceptedOnce'
  <2>1. \A i \in 1 .. Len(accepted) : accepted[i] # t
    BY DEF Enqueue, New, TypeOK
  <2> QED
    BY <1>2, <1>3, <2>1 DEF Order, AcceptedOnce
<1>7. BegunOnce'
  <2>1. \A i \in 1 .. Begun : accepted'[i] = accepted[i]
    BY <1>2, <1>3 DEF Begun
  <2>2. /\ \A u, v \in Worker : task'[u] = task'[v] /\ task'[u] # NoTask => u = v
        /\ \A w \in Worker : task'[w] \notin done'
    BY <1>1, Zenon DEF Order, BegunOnce
  <2>3. \A i \in 1 .. Begun : accepted'[i] \in done' \/ \E w \in Worker : task'[w] = accepted'[i]
    BY <1>1, <2>1, Zenon DEF Order, BegunOnce
  <2>4. \A s \in done' : \E i \in 1 .. Begun : accepted'[i] = s
    BY <1>1, <2>1, Zenon DEF Order, BegunOnce
  <2>5. \A w \in Worker : task'[w] # NoTask => \E i \in 1 .. Begun : accepted'[i] = task'[w]
    BY <1>1, <2>1, Zenon DEF Order, BegunOnce
  <2> QED
    BY <1>4, <2>2, <2>3, <2>4, <2>5, Zenon DEF BegunOnce
<1> QED
  BY <1>5, <1>6, <1>7 DEF Order

LEMMA OrderTake ==
  ASSUME TypeOK, Order, NEW w \in Worker, Take(w)
  PROVE  Order'
<1> DEFINE t == Head(queue)
<1>1. /\ queue # <<>> /\ queue' = Tail(queue) /\ task' = [task EXCEPT ![w] = t]
      /\ accepted' = accepted /\ done' = done /\ task[w] = NoTask
  BY DEF Take, Goes, TypeOK
<1>2. /\ Len(queue) \in Nat \ {0} /\ Len(queue') = Len(queue) - 1
      /\ \A i \in 1 .. Len(queue) - 1 : queue'[i] = queue[i + 1]
      /\ t = queue[1] /\ t \in Task
  BY <1>1 DEF TypeOK
<1>3. Len(accepted) \in Nat /\ Len(queue) <= Len(accepted)
  BY DEF TypeOK, Order, QueueIsTheRest
<1>4. Begun' = Begun + 1 /\ Begun \in Nat /\ Begun + 1 \in 1 .. Len(accepted)
  BY <1>1, <1>2, <1>3 DEF Begun
<1>5. accepted[Begun + 1] = t
  BY <1>2, <1>3 DEF Order, QueueIsTheRest
<1>6. QueueIsTheRest'
  <2> SUFFICES ASSUME NEW i \in 1 .. Len(queue) - 1
               PROVE  queue'[i] = accepted[Begun + 1 + i]
    BY <1>1, <1>2, <1>3, <1>4 DEF QueueIsTheRest
  <2>1. i + 1 \in 1 .. Len(queue) /\ queue'[i] = queue[i + 1]
    BY <1>2
  <2>2. queue[i + 1] = accepted[Begun + (i + 1)]
    BY <2>1 DEF Order, QueueIsTheRest
  <2> QED
    BY <1>4, <2>1, <2>2
<1>7. AcceptedOnce'
  BY <1>1 DEF Order, AcceptedOnce
<1>8. t \notin done /\ \A v \in Worker : task[v] # t
  <2>1. \A i \in 1 .. Begun : accepted[i] # t
    BY <1>3, <1>4, <1>5 DEF Order, AcceptedOnce, Begun
  <2>2. t # NoTask
    BY <1>2, NoTaskAssumption
  <2> QED
    BY <2>1, <2>2 DEF Order, BegunOnce
<1>9. BegunOnce'
  <2> HIDE DEF t
  <2>1. task'[w] = t /\ \A v \in Worker \ {w} : task'[v] = task[v]
    BY <1>1 DEF TypeOK
  <2>2. \A i \in 1 .. Begun + 1 : i \in 1 .. Begun \/ i = Begun + 1
    BY <1>4
  <2>3. \A i \in 1 .. Begun : i \in 1 .. Begun + 1
    BY <1>4
  <2>4. /\ \A u, v \in Worker : task'[u] = task'[v] /\ task'[u] # NoTask => u = v
        /\ \A v \in Worker : task'[v] \notin done
    BY <1>8, <2>1 DEF Order, BegunOnce
  <2>5. \A i \in 1 .. Begun + 1 : accepted[i] \in done \/ \E v \in Worker : task'[v] = accepted[i]
    <3> SUFFICES ASSUME NEW i \in 1 .. Begun, accepted[i] \notin done
                 PROVE  \E v \in Worker : task'[v] = accepted[i]
      BY <1>5, <2>1, <2>2
    <3>1. PICK v \in Worker : task[v] = accepted[i]
      BY DEF Order, BegunOnce
    <3>2. accepted[i] \in Task
      BY <1>3, <1>4 DEF TypeOK
    <3>3. v # w
      BY <1>1, <3>1, <3>2, NoTaskAssumption
    <3> QED
      BY <2>1, <3>1, <3>3
  <2>6. /\ \A s \in done : \E i \in 1 .. Begun + 1 : accepted[i] = s
        /\ \A v \in Worker : task'[v] # NoTask => \E i \in 1 .. Begun + 1 : accepted[i] = task'[v]
    BY <1>4, <1>5, <2>1, <2>3 DEF Order, BegunOnce
  <2> QED
    BY <1>1, <1>4, <2>4, <2>5, <2>6 DEF BegunOnce
<1> QED
  BY <1>6, <1>7, <1>9 DEF Order

LEMMA OrderFinish ==
  ASSUME TypeOK, Order, NEW w \in Worker, Finish(w)
  PROVE  Order'
<1>1. /\ queue' = queue /\ accepted' = accepted
      /\ task' = [task EXCEPT ![w] = NoTask] /\ done' = done \cup {task[w]}
      /\ task[w] # NoTask
  BY DEF Finish, Goes, TypeOK
<1>2. QueueIsTheRest' /\ AcceptedOnce' /\ Begun' = Begun
  BY <1>1 DEF Order, QueueIsTheRest, AcceptedOnce, Begun
<1>3. task'[w] = NoTask /\ \A v \in Worker \ {w} : task'[v] = task[v]
  BY <1>1 DEF TypeOK
<1>4. NoTask \notin done /\ NoTask # task[w]
  BY <1>1, NoTaskAssumption DEF TypeOK
<1>5. BegunOnce'
  BY <1>1, <1>2, <1>3, <1>4 DEF Order, BegunOnce
<1> QED
  BY <1>2, <1>5 DEF Order

LEMMA OrderStep ==
  ASSUME TypeOK, Order, [Next]_vars
  PROVE  Order'
<1>1. ASSUME NEW c \in Client, NEW t \in Task, Enqueue(c, t)
      PROVE  Order'
  <2>1. CASE stop
    BY <1>1, <2>1, OrderFrame DEF Enqueue
  <2> QED
    BY <1>1, <2>1, OrderAccept
<1>2. ASSUME NEW c \in Client, NotifyOne(c)
      PROVE  Order'
  BY <1>2, OrderFrame DEF NotifyOne
<1>3. ASSUME NEW w \in Worker, Wait(w) \/ Exit(w) \/ SpuriousWakeup(w)
      PROVE  Order'
  BY <1>3, OrderFrame DEF Wait, Exit, SpuriousWakeup
<1>4. CASE OwnerStep \/ Finished \/ UNCHANGED vars
  BY <1>4, OrderFrame DEF OwnerStep, Shutdown, NotifyAll, Join, Destroy, Finished, vars
<1> QED
  BY <1>1, <1>2, <1>3, <1>4, OrderTake, OrderFinish DEF Next, ClientStep, WorkerStep

-----------------------------------------------------------------------------
(* The end of the pool *)

LEMMA DrainedStep ==
  ASSUME TypeOK, Drained, [Next]_vars
  PROVE  Drained'
<1> USE DEF Drained, stop, At
<1>1. ASSUME NEW c \in Client, NEW t \in Task, Enqueue(c, t)
      PROVE  Drained'
  BY <1>1 DEF Enqueue
<1>2. ASSUME NEW c \in Client, NotifyOne(c)
      PROVE  Drained'
  BY <1>2 DEF NotifyOne, TypeOK
<1>3. ASSUME NEW w \in Worker, WorkerStep(w) \/ SpuriousWakeup(w)
      PROVE  Drained'
  BY <1>3 DEF WorkerStep, Wait, Take, Exit, Finish, SpuriousWakeup, Goes, TypeOK
<1>4. CASE OwnerStep \/ Finished \/ UNCHANGED vars
  BY <1>4 DEF OwnerStep, Shutdown, NotifyAll, Join, Destroy, Finished, vars, TypeOK
<1> QED
  BY <1>1, <1>2, <1>3, <1>4 DEF Next, ClientStep

-----------------------------------------------------------------------------
(* Theorems *)

LEMMA InitIInv == Init => IInv
<1> SUFFICES ASSUME Init PROVE IInv
  OBVIOUS
<1>1. TypeOK
  BY TypeInit
<1>2. At("waiting") = {} /\ At("exited") = {}
  BY DEF Init, At
<1>3. NoWorkerSleepsOnWork /\ NoLostStop /\ Drained
  BY <1>2 DEF Init, NoWorkerSleepsOnWork, NoLostStop, Drained
<1>4. QueueIsTheRest /\ AcceptedOnce /\ BegunOnce
  BY DEF Init, QueueIsTheRest, AcceptedOnce, BegunOnce, Begun
<1> QED
  BY <1>1, <1>3, <1>4 DEF IInv

LEMMA StepIInv == IInv /\ [Next]_vars => IInv'
BY TypeStep, SleepStep, StopStep, OrderStep, DrainedStep DEF IInv, Order

\* The queue, the threads' places and the tasks they hold keep their types
\* under every interleaving of enqueue, the workers and shutdown.
THEOREM TypeCorrect == Spec => []TypeOK
<1>1. IInv => TypeOK
  BY DEF IInv
<1> QED
  BY <1>1, InitIInv, StepIInv, PTL DEF Spec

\* With any number of workers and clients, no worker of threads_pool.cpp sleeps
\* on a task that no signal or awake worker is there for.
THEOREM NoneSleepsOnWork == Spec => []NoWorkerSleepsOnWork
<1>1. IInv => NoWorkerSleepsOnWork
  BY DEF IInv
<1> QED
  BY <1>1, InitIInv, StepIInv, PTL DEF Spec

\* Once shutdown has passed the flag to the workers none of them is left waiting.
THEOREM StopArrives == Spec => []NoLostStop
<1>1. IInv => NoLostStop
  BY DEF IInv
<1> QED
  BY <1>1, InitIInv, StepIInv, PTL DEF Spec

\* Each step of the pool is a step of TaskPool or changes none of its state.
LEMMA PoolInit == Init => Pool!Init
BY DEF Init, Pool!Init, phase

LEMMA PoolAccept ==
  ASSUME IInv, NEW c \in Client, NEW t \in Task, Enqueue(c, t)
  PROVE  Pool!Accept(t) \/ Pool!Reject(t)
<1>1. Pool!New(t)
  BY DEF Enqueue, New, Pool!New, Pool!Elements
<1>2. phase' = phase /\ done' = done
  BY DEF Enqueue, phase
<1>3. CASE stop
  <2>1. UNCHANGED <<queue, accepted>> /\ rejected' = rejected \cup {t} /\ phase # "open"
    BY <1>3 DEF Enqueue, phase, stop
  <2> QED
    BY <1>1, <1>2, <2>1 DEF Pool!Reject
<1>4. CASE ~stop
  <2>1. /\ queue' = Append(queue, t) /\ accepted' = Append(accepted, t) /\ rejected' = rejected
        /\ phase = "open"
    BY <1>4 DEF Enqueue, phase, stop
  <2>2. Len(accepted') - Len(queue') = Len(accepted) - Len(queue)
    BY <2>1 DEF IInv, TypeOK
  <2> QED
    BY <1>1, <1>2, <2>1, <2>2 DEF Pool!Accept
<1> QED
  BY <1>3, <1>4

LEMMA PoolStart ==
  ASSUME IInv, NEW w \in Worker, Take(w)
  PROVE  Pool!Start
<1>1. /\ queue # <<>> /\ queue' = Tail(queue) /\ UNCHANGED <<accepted, rejected, done>>
      /\ phase' = phase
  BY DEF Take, phase
<1>2. /\ Len(queue) \in Nat \ {0} /\ Len(queue') = Len(queue) - 1 /\ Len(accepted) \in Nat
      /\ Len(queue) <= Len(accepted)
  BY <1>1 DEF IInv, TypeOK, QueueIsTheRest
<1>3. Len(accepted') - Len(queue') = Len(accepted) - Len(queue) + 1
  BY <1>1, <1>2
<1> QED
  BY <1>1, <1>2, <1>3 DEF Pool!Start

LEMMA PoolFinish ==
  ASSUME IInv, NEW w \in Worker, Finish(w)
  PROVE  task[w] \in Task /\ Pool!Finish(task[w])
<1>1. /\ UNCHANGED <<queue, accepted, rejected>> /\ done' = done \cup {task[w]}
      /\ phase' = phase
  BY DEF Finish, phase
<1>2. task[w] \in Task /\ task[w] # NoTask
  BY NoTaskAssumption DEF Finish, Goes, IInv, TypeOK
<1>3. task[w] \notin done /\ \E i \in 1 .. Begun : accepted[i] = task[w]
  BY <1>2 DEF IInv, BegunOnce
<1>4. task[w] \in Pool!Started \ done
  BY <1>3 DEF Pool!Started, Begun
<1> QED
  BY <1>1, <1>2, <1>4 DEF Pool!Finish

\* When the workers are gone the queue is empty and nobody runs a task: all
\* the tasks have begun, and all that have begun are done.
LEMMA PoolClosed ==
  ASSUME IInv, Join
  PROVE  Pool!Closed
<1>1. /\ UNCHANGED <<queue, accepted, rejected, done>> /\ phase = "closing" /\ phase' = "closed"
  BY DEF Join, phase
<1>2. At("exited") = Worker /\ At("exited") # {}
  BY WorkerAssumption DEF Join
<1>3. queue = <<>>
  BY <1>2 DEF IInv, Drained
<1>4. \A w \in Worker : task[w] = NoTask
  BY <1>2 DEF At, IInv, TypeOK
<1>5. Begun = Len(accepted) /\ Len(accepted) \in Nat
  BY <1>3 DEF Begun, IInv, TypeOK
<1>6. \A i \in 1 .. Len(accepted) : accepted[i] \in Task
  BY DEF IInv, TypeOK
<1>7. \A i \in 1 .. Len(accepted) : accepted[i] \in done
  BY <1>4, <1>5, <1>6, NoTaskAssumption DEF IInv, BegunOnce
<1>8. Pool!Elements(accepted) \subseteq done
  BY <1>7 DEF Pool!Elements, IInv, TypeOK
<1> QED
  BY <1>1, <1>8 DEF Pool!Closed

LEMMA PoolStep == IInv /\ [Next]_vars => [Pool!Next]_(Pool!vars)
<1> SUFFICES ASSUME IInv, [Next]_vars PROVE [Pool!Next]_(Pool!vars)
  OBVIOUS
<1>1. ASSUME NEW c \in Client, NEW t \in Task, Enqueue(c, t)
      PROVE  Pool!Next
  BY <1>1, PoolAccept DEF Pool!Next
<1>2. ASSUME NEW w \in Worker, Take(w)
      PROVE  Pool!Next
  BY <1>2, PoolStart DEF Pool!Next
<1>3. ASSUME NEW w \in Worker, Finish(w)
      PROVE  Pool!Next
  BY <1>3, PoolFinish DEF Pool!Next
<1>4. CASE Shutdown
  <2>1. /\ UNCHANGED <<queue, accepted, rejected, done>> /\ phase = "open" /\ phase' = "closing"
    BY <1>4 DEF Shutdown, phase
  <2> QED
    BY <2>1 DEF Pool!Next, Pool!Close
<1>5. CASE Join
  BY <1>5, PoolClosed DEF Pool!Next
<1>6. ASSUME \/ \E c \in Client : NotifyOne(c)
             \/ \E w \in Worker : Wait(w) \/ Exit(w) \/ SpuriousWakeup(w)
             \/ NotifyAll \/ Destroy \/ Finished \/ UNCHANGED vars
      PROVE  UNCHANGED Pool!vars
  BY <1>6 DEF NotifyOne, Wait, Exit, SpuriousWakeup, NotifyAll, Destroy, Finished, vars, phase,
              Pool!vars
<1> QED
  BY <1>1, <1>2, <1>3, <1>4, <1>5, <1>6 DEF Next, ClientStep, WorkerStep, OwnerStep

\* The pool of threads_pool.cpp implements TaskPool: every accepted task begins
\* once, in order, and ends once, none is accepted after shutdown, and when
\* shutdown returns all have run.
THEOREM Implements == Spec => ImplementsPool
<1> QED
  BY PoolInit, PoolStep, InitIInv, StepIInv, PTL DEF Spec, ImplementsPool, Pool!Spec

=============================================================================
