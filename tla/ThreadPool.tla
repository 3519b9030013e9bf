----------------------------- MODULE ThreadPool -----------------------------
(***************************************************************************)
(* pthreads (utils/threads_pool.h and .cpp): worker threads that take      *)
(* tasks from one queue, under _queue_mutex and _queue_cond.               *)
(*                                                                         *)
(* One step is what a thread does under one hold of the mutex, or one      *)
(* notification.  Clients are threads that call enqueue; the owner is the  *)
(* thread that calls shutdown and the destructor.  pendingTasks, isRunning *)
(* and waitAll only read.  A task returns and does not use the pool.       *)
(***************************************************************************)
EXTENDS Naturals, Sequences, FiniteSets

CONSTANTS Worker,   \* the threads of the pool
          Client,   \* the threads that call enqueue
          Task,     \* the calls of enqueue
          NoTask    \* a worker has no task

ASSUME WorkerAssumption == IsFiniteSet(Worker) /\ Worker # {}
ASSUME ClientAssumption == IsFiniteSet(Client)
ASSUME NoTaskAssumption == NoTask \notin Task

VARIABLES queue,    \* _task_queue
          worker,   \* where each worker is
          task,     \* the task each worker runs
          client,   \* where each client is
          owner,    \* where the owner is
          accepted, \* history: the tasks put on the queue, in order
          rejected, \* history: the tasks whose enqueue threw
          done      \* history: the tasks that have run

vars == <<queue, worker, task, client, owner, accepted, rejected, done>>

\* "ready": has the mutex, or is about to take it, to test the predicate of
\* the wait: when it starts, after a task, when it is notified or wakes up.
WorkerPlace == {"ready", "waiting", "running", "exited"}

\* "notify": has put its task on the queue and has still to signal it.
ClientPlace == {"idle", "notify"}

OwnerPlace == {"open", "notify", "join", "closed", "gone"}

\* _stop: set by shutdown, and never unset.
stop == owner # "open"

At(place) == {w \in Worker : worker[w] = place}
Signalling == {c \in Client : client[c] = "notify"}

Init ==
  /\ queue = <<>>
  /\ worker = [w \in Worker |-> "ready"] /\ task = [w \in Worker |-> NoTask]
  /\ client = [c \in Client |-> "idle"] /\ owner = "open"
  /\ accepted = <<>> /\ rejected = {} /\ done = {}

-----------------------------------------------------------------------------
(* enqueue *)

New(t) == t \notin {accepted[i] : i \in DOMAIN accepted} \cup rejected

\* Under the lock: throws when the pool is stopped.
Enqueue(c, t) ==
  /\ client[c] = "idle" /\ owner # "gone" /\ New(t)
  /\ \/ /\ stop
        /\ rejected' = rejected \cup {t}
        /\ UNCHANGED <<queue, accepted, client>>
     \/ /\ ~stop
        /\ queue' = Append(queue, t) /\ accepted' = Append(accepted, t)
        /\ client' = [client EXCEPT ![c] = "notify"]
        /\ UNCHANGED rejected
  /\ UNCHANGED <<worker, task, owner, done>>

\* Mutant of NotifyOne: signals only for the first task on the queue.
NotifyFirst(c) ==
  /\ client[c] = "notify"
  /\ client' = [client EXCEPT ![c] = "idle"]
  /\ \/ /\ Len(queue) = 1
        /\ \E w \in At("waiting") : worker' = [worker EXCEPT ![w] = "ready"]
     \/ (Len(queue) # 1 \/ At("waiting") = {}) /\ UNCHANGED worker
  /\ UNCHANGED <<queue, task, owner, accepted, rejected, done>>

\* notify_one, without the lock: any one of the waiting threads.
NotifyOne(c) ==
  /\ client[c] = "notify"
  /\ client' = [client EXCEPT ![c] = "idle"]
  /\ \/ \E w \in At("waiting") : worker' = [worker EXCEPT ![w] = "ready"]
     \/ At("waiting") = {} /\ UNCHANGED worker
  /\ UNCHANGED <<queue, task, owner, accepted, rejected, done>>

-----------------------------------------------------------------------------
(* The loop of a worker *)

Goes(w, from, to) == worker[w] = from /\ worker' = [worker EXCEPT ![w] = to]

\* Mutants of Wait: the predicate without the queue, and without the flag.
WaitDespiteTasks(w) ==
  /\ Goes(w, "ready", "waiting") /\ ~stop
  /\ UNCHANGED <<queue, task, client, owner, accepted, rejected, done>>

WaitDespiteStop(w) ==
  /\ Goes(w, "ready", "waiting") /\ queue = <<>>
  /\ UNCHANGED <<queue, task, client, owner, accepted, rejected, done>>

Wait(w) ==
  /\ Goes(w, "ready", "waiting") /\ queue = <<>> /\ ~stop
  /\ UNCHANGED <<queue, task, client, owner, accepted, rejected, done>>

\* Tasks left on the queue when the pool is stopped are still taken.
Take(w) ==
  /\ Goes(w, "ready", "running") /\ queue # <<>>
  /\ task' = [task EXCEPT ![w] = Head(queue)] /\ queue' = Tail(queue)
  /\ UNCHANGED <<client, owner, accepted, rejected, done>>

\* Mutant of Exit: a stopped worker leaves the tasks on the queue.
ExitAtOnce(w) ==
  /\ Goes(w, "ready", "exited") /\ stop
  /\ UNCHANGED <<queue, task, client, owner, accepted, rejected, done>>

Exit(w) ==
  /\ Goes(w, "ready", "exited") /\ queue = <<>> /\ stop
  /\ UNCHANGED <<queue, task, client, owner, accepted, rejected, done>>

\* Mutant of Finish: the worker keeps its task.
FinishKept(w) ==
  /\ Goes(w, "running", "ready")
  /\ done' = done \cup {task[w]}
  /\ UNCHANGED <<queue, task, client, owner, accepted, rejected>>

\* task() returns; the function object dies at the end of the loop's body.
Finish(w) ==
  /\ Goes(w, "running", "ready")
  /\ done' = done \cup {task[w]} /\ task' = [task EXCEPT ![w] = NoTask]
  /\ UNCHANGED <<queue, client, owner, accepted, rejected>>

\* A wait may end for no reason.
SpuriousWakeup(w) ==
  /\ Goes(w, "waiting", "ready")
  /\ UNCHANGED <<queue, task, client, owner, accepted, rejected, done>>

-----------------------------------------------------------------------------
(* shutdown and the destructor, which calls it if nobody did *)

\* The flag is set under the lock.  A second shutdown finds nobody waiting and
\* no thread joinable: it changes nothing.
Shutdown ==
  /\ owner = "open"
  /\ owner' = "notify"
  /\ UNCHANGED <<queue, worker, task, client, accepted, rejected, done>>

\* Mutant of NotifyAll: one worker is woken.
NotifyAny ==
  /\ owner = "notify"
  /\ owner' = "join"
  /\ \/ \E w \in At("waiting") : worker' = [worker EXCEPT ![w] = "ready"]
     \/ At("waiting") = {} /\ UNCHANGED worker
  /\ UNCHANGED <<queue, task, client, accepted, rejected, done>>

\* notify_all, without the lock.
NotifyAll ==
  /\ owner = "notify"
  /\ owner' = "join"
  /\ worker' = [w \in Worker |-> IF worker[w] = "waiting" THEN "ready" ELSE worker[w]]
  /\ UNCHANGED <<queue, task, client, accepted, rejected, done>>

\* The threads are joined one after the other; the last join is the one that
\* matters.
Join ==
  /\ owner = "join" /\ At("exited") = Worker
  /\ owner' = "closed"
  /\ UNCHANGED <<queue, worker, task, client, accepted, rejected, done>>

\* The callers' part: the pool is not destroyed while one of them is in it.
Destroy ==
  /\ owner = "closed" /\ Signalling = {}
  /\ owner' = "gone"
  /\ UNCHANGED <<queue, worker, task, client, accepted, rejected, done>>

Finished == owner = "gone" /\ UNCHANGED vars

-----------------------------------------------------------------------------
ClientStep(c) == (\E t \in Task : Enqueue(c, t)) \/ NotifyOne(c)

WorkerStep(w) == Wait(w) \/ Take(w) \/ Exit(w) \/ Finish(w)

OwnerStep == Shutdown \/ NotifyAll \/ Join \/ Destroy

Next ==
  \/ \E c \in Client : ClientStep(c)
  \/ \E w \in Worker : WorkerStep(w) \/ SpuriousWakeup(w)
  \/ OwnerStep \/ Finished

Spec == Init /\ [][Next]_vars

\* Every worker is scheduled and gets the mutex, tasks return, and a call that
\* has begun goes on; nobody owes the pool a call or a worker a wake-up.
Fairness ==
  /\ \A w \in Worker : WF_vars(WorkerStep(w))
  /\ \A c \in Client : WF_vars(NotifyOne(c))
  /\ WF_vars(NotifyAll) /\ WF_vars(Join)

FairSpec == Spec /\ Fairness

-----------------------------------------------------------------------------
(* Properties *)

\* The queue, the threads' places and the history variables have their types,
\* and exactly the running workers hold a task.
TypeOK ==
  /\ queue \in Seq(Task) /\ accepted \in Seq(Task)
  /\ worker \in [Worker -> WorkerPlace] /\ client \in [Client -> ClientPlace]
  /\ task \in [Worker -> Task \cup {NoTask}]
  /\ \A w \in Worker : worker[w] = "running" <=> task[w] # NoTask
  /\ owner \in OwnerPlace
  /\ rejected \in SUBSET Task /\ done \in SUBSET Task

\* No worker sleeps on a task that it could run: while one waits, the workers
\* about to test the queue and the signals about to be sent are enough for
\* the tasks on it.  (notify_one comes after the unlock, and a worker that
\* comes back from a task may take what the worker signalled was woken for.)
NoWorkerSleepsOnWork ==
  At("waiting") # {} => Len(queue) <= Cardinality(At("ready")) + Cardinality(Signalling)

\* A worker that waits while the pool is stopped is about to be notified.
NoLostStop == (stop /\ At("waiting") # {}) => owner = "notify"

phase == CASE owner = "open" -> "open"
           [] owner \in {"notify", "join"} -> "closing"
           [] OTHER -> "closed"

Pool == INSTANCE TaskPool WITH started <- Len(accepted) - Len(queue), state <- phase

\* The pool of threads_pool.cpp keeps TaskPool's promises: every task accepted
\* starts once, in order, and ends once; none is accepted after shutdown has
\* set _stop; when shutdown returns all have run.
ImplementsPool == Pool!Spec

\* The future that enqueue returns becomes ready.
AcceptedTasksRun ==
  \A t \in Task : (t \in {accepted[i] : i \in DOMAIN accepted}) ~> (t \in done)

\* shutdown returns: no worker is left waiting, and none waits for a task.
ShutdownReturns == (owner = "notify") ~> (owner = "closed")

=============================================================================
