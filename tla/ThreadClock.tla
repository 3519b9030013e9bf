----------------------------- MODULE ThreadClock -----------------------------
(***************************************************************************)
(* Thread_clockr (timer/timer.cpp): a heap of timers, a map from timer id  *)
(* to the version that is current, and a thread that sleeps until the      *)
(* earliest timer is due, takes the due timers off the heap and runs the   *)
(* callbacks of those that are current.                                    *)
(*                                                                         *)
(* Two threads: main (the event loop, which adds, modifies and deletes     *)
(* timers and finally runs the destructor) and clock.  One step is what a  *)
(* thread does under one hold of _mutex, or one unlocked access to shared  *)
(* state.  Only the loop of handle_timer holds the mutex over many steps,  *)
(* because main reads the map and the heap's size without it meanwhile.    *)
(***************************************************************************)
EXTENDS Integers, Sequences, FiniteSets, SequencesExt

CONSTANTS Id,         \* timer ids: file descriptors of connections
          Delay,      \* the delays timers are given (TIME_OUT in Webserver.h)
          MaxPush,    \* bound: timers pushed in a behaviour
          LastPush,   \* bound: the last second in which a timer is pushed
          MaxNow,     \* bound: the last second of a behaviour
          NoVersion   \* the map has no entry for an id

ASSUME DelayAssumption == Delay \subseteq Nat
ASSUME BoundAssumption == MaxPush \in Nat /\ LastPush \in Nat /\ MaxNow \in Nat
ASSUME NoVersionAssumption == NoVersion \notin Int

VARIABLES now,        \* time(nullptr)
          queue,      \* _timer_queue, the timers on the heap
          map,        \* _timer_map
          main,       \* where main is
          id,         \* the id of main's mod_timer call
          version,    \* new_version of that call
          clock,      \* where the clock thread is
          wait,       \* wait_time
          deadline,   \* until when wait_for sleeps
          sampled,    \* handle_timer's now
          batch,      \* handle_timer's callbacks, as the timers they belong to
          pushed,     \* history: timers pushed so far
          latest,     \* history: the timer last pushed for each id (0: none)
          life        \* history: what happened to each id, see Life

mainVars == <<main, id, version>>
clockVars == <<clock, wait, deadline, sampled, batch>>
history == <<pushed, latest, life>>
vars == <<now, queue, map, main, id, version, clock, wait, deadline,
          sampled, batch, pushed, latest, life>>

Timer == [n : Nat, id : Id, expire : Nat, version : Int]

\* An id that was added at most once and then only modified; one that del_timer
\* zeroed or that was added a second time.
Life == {"fresh", "reset"}

Waiting == {"timedWait", "idleWait"}

ClockPlace == {"check", "sample", "branch", "timedEnter", "timedWait", "timedAwake",
               "idleEnter", "idleWait", "idleAwake", "test", "pop", "run", "done"}

\* _stop_flag: set by the destructor, and never unset.
stop == main \in {"notify", "join", "joined"}

\* handle_timer holds the mutex while it takes timers off the heap.
Unlocked == clock # "pop"

\* notify_one and notify_all: nobody but the clock thread ever waits.  A thread
\* that is notified is awake but has still to get the mutex back.
Notify == clock' = IF clock = "timedWait" THEN "timedAwake"
                   ELSE IF clock = "idleWait" THEN "idleAwake"
                   ELSE clock

\* The heap's top: of the timers that expire first, any.
Tops == {e \in queue : \A f \in queue : e.expire <= f.expire}

-----------------------------------------------------------------------------
(* Operations of the class, called by main *)

\* Mutant of Push: nobody is notified.
PushSilently(i, delay, v) ==
  /\ pushed < MaxPush /\ now <= LastPush
  /\ pushed' = pushed + 1
  /\ queue' = queue \cup {[n |-> pushed + 1, id |-> i, expire |-> now + delay, version |-> v]}
  /\ map' = [map EXCEPT ![i] = v]
  /\ latest' = [latest EXCEPT ![i] = pushed + 1]
  /\ UNCHANGED clock

\* What add_timer does under the lock.
Push(i, delay, v) ==
  /\ pushed < MaxPush /\ now <= LastPush
  /\ pushed' = pushed + 1
  /\ queue' = queue \cup {[n |-> pushed + 1, id |-> i, expire |-> now + delay, version |-> v]}
  /\ map' = [map EXCEPT ![i] = v]
  /\ latest' = [latest EXCEPT ![i] = pushed + 1]
  /\ Notify

\* The server always adds with version 1.
AddTimer(i, delay) ==
  /\ main = "ready" /\ Unlocked
  /\ Push(i, delay, 1)
  /\ life' = IF life[i] = "fresh" /\ map[i] = NoVersion THEN life
             ELSE [life EXCEPT ![i] = "reset"]
  /\ UNCHANGED <<now, mainVars, wait, deadline, sampled, batch>>

\* mod_timer, under its first lock: operator[] inserts 0 for an unknown id.
ModBump(i) ==
  /\ main = "ready" /\ Unlocked /\ pushed < MaxPush /\ now <= LastPush
  /\ map' = [map EXCEPT ![i] = IF @ = NoVersion THEN 1 ELSE @ + 1]
  /\ main' = "bumped" /\ id' = i
  /\ UNCHANGED <<now, queue, version, clockVars, history>>

\* mod_timer reads the version back without the lock; the entry may have been
\* zeroed or erased since, and is inserted again if it was erased.
ModRead ==
  /\ main = "bumped"
  /\ map' = [map EXCEPT ![id] = IF @ = NoVersion THEN 0 ELSE @]
  /\ version' = map'[id]
  /\ main' = "read"
  /\ UNCHANGED <<now, queue, id, clockVars, history>>

ModPush(delay) ==
  /\ main = "read" /\ Unlocked
  /\ Push(id, delay, version)
  /\ main' = "ready"
  /\ UNCHANGED <<now, id, version, wait, deadline, sampled, batch, life>>

\* What del_timer does under the lock, on either thread.
Delete(i) ==
  /\ Unlocked
  /\ \/ /\ map[i] # NoVersion
        /\ map' = [map EXCEPT ![i] = 0] /\ life' = [life EXCEPT ![i] = "reset"]
     \/ map[i] = NoVersion /\ UNCHANGED <<map, life>>

DelTimer(i) ==
  /\ main = "ready"
  /\ Delete(i)
  /\ IF map[i] # NoVersion THEN Notify ELSE UNCHANGED clock
  /\ UNCHANGED <<now, queue, mainVars, wait, deadline, sampled, batch,
                 pushed, latest>>

-----------------------------------------------------------------------------
(* The destructor, on main *)

\* The heap's size is read without the lock.
DtorSize ==
  /\ main = "ready"
  /\ main' = IF queue # {} THEN "clear" ELSE "stop"
  /\ UNCHANGED <<now, queue, map, id, version, clockVars, history>>

\* del_all_timer; the map is left as it is.
DtorClear ==
  /\ main = "clear" /\ Unlocked
  /\ queue' = {}
  /\ main' = "stop"
  /\ UNCHANGED <<now, map, id, version, clockVars, history>>

\* The flag is stop.
DtorStop ==
  /\ main = "stop" /\ Unlocked
  /\ main' = "notify"
  /\ UNCHANGED <<now, queue, map, id, version, clockVars, history>>

\* Mutant of DtorNotify: the clock thread is not woken.
DtorNoNotify ==
  /\ main = "notify"
  /\ main' = "join"
  /\ UNCHANGED <<now, queue, map, id, version, clockVars, history>>

DtorNotify ==
  /\ main = "notify"
  /\ Notify
  /\ main' = "join"
  /\ UNCHANGED <<now, queue, map, id, version, wait, deadline, sampled, batch, history>>

DtorJoin ==
  /\ main = "join" /\ clock = "done"
  /\ main' = "joined"
  /\ UNCHANGED <<now, queue, map, id, version, clockVars, history>>

-----------------------------------------------------------------------------
(* The clock thread *)

GoTo(place) == clock' = place

Goes(from, to) == clock = from /\ GoTo(to)

shared == <<now, queue, map, mainVars, history>>

\* while (!_stop_flag)
Check ==
  /\ clock = "check"
  /\ GoTo(IF stop THEN "done" ELSE "sample")
  /\ UNCHANGED <<shared, wait, deadline, sampled, batch>>

\* wait_time, computed under the lock, which is then given up.
Sample ==
  /\ Goes("sample", "branch")
  /\ \/ queue # {} /\ ~stop /\ \E e \in Tops : wait' = e.expire - now
     \/ (queue = {} \/ stop) /\ wait' = 0
  /\ UNCHANGED <<shared, deadline, sampled, batch>>

\* Mutant of Branch: a timer that is overdue is waited for.
BranchOverdue ==
  /\ clock = "branch"
  /\ \/ ~stop /\ wait # 0 /\ GoTo("timedEnter")
     \/ ~stop /\ wait = 0 /\ queue = {} /\ GoTo("idleEnter")
     \/ (stop \/ (wait = 0 /\ queue # {})) /\ GoTo("test")
  /\ UNCHANGED <<shared, wait, deadline, sampled, batch>>

\* The heap is tested for emptiness without the lock.
Branch ==
  /\ clock = "branch"
  /\ \/ ~stop /\ wait > 0 /\ GoTo("timedEnter")
     \/ ~stop /\ wait <= 0 /\ queue = {} /\ GoTo("idleEnter")
     \/ (stop \/ (wait <= 0 /\ queue # {})) /\ GoTo("test")
  /\ UNCHANGED <<shared, wait, deadline, sampled, batch>>

\* wait_for with its predicate: only the stop flag ends it early.
TimedEnter ==
  /\ clock = "timedEnter"
  /\ GoTo(IF stop THEN "test" ELSE "timedWait")
  /\ deadline' = now + wait
  /\ UNCHANGED <<shared, wait, sampled, batch>>

\* Mutant of IdleEnter: a wait without a predicate.
IdleEnterUntested ==
  /\ Goes("idleEnter", "idleWait")
  /\ UNCHANGED <<shared, wait, deadline, sampled, batch>>

IdleEnter ==
  /\ clock = "idleEnter"
  /\ GoTo(IF stop \/ queue # {} THEN "test" ELSE "idleWait")
  /\ UNCHANGED <<shared, wait, deadline, sampled, batch>>

\* The thread is awake, by a notification, a timeout or for no reason, and has
\* the mutex: it tests the predicate and goes on or waits again.
Wake ==
  /\ \/ /\ clock \in {"timedWait", "timedAwake"}
        /\ GoTo(IF stop \/ now >= deadline THEN "test" ELSE "timedWait")
     \/ /\ clock \in {"idleWait", "idleAwake"}
        /\ GoTo(IF stop \/ queue # {} THEN "test" ELSE "idleWait")
  /\ UNCHANGED <<shared, wait, deadline, sampled, batch>>

\* A wake-up that has a cause: the only kind the scheduler owes the thread.
CausedWake ==
  /\ clock \in {"timedAwake", "idleAwake"} \/ (clock = "timedWait" /\ now >= deadline)
  /\ Wake

\* if (!_stop_flag) handle_timer(), as far as its lock and its reading of time.
Test ==
  /\ clock = "test"
  /\ GoTo(IF stop THEN "check" ELSE "pop")
  /\ sampled' = now /\ batch' = <<>>
  /\ UNCHANGED <<shared, wait, deadline>>

\* Mutant of Due: a timer is due only after the second it expires in.
DueLater == {e \in Tops : e.expire < sampled}

Due == {e \in Tops : e.expire <= sampled}

\* Mutant of Stale: the version is only compared with a deleted timer's.
StaleIfDeleted(e) == map[e.id] = 0 /\ e.version # 0

\* The tests of one turn of handle_timer's loop, in their order.
Stale(e) == map[e.id] # NoVersion /\ map[e.id] # e.version
Dead(e) == ~Stale(e) /\ e.version = 0
Fires(e) == ~Stale(e) /\ e.version # 0

Pop(e) ==
  /\ clock = "pop" /\ e \in Due
  /\ queue' = queue \ {e}
  /\ map' = IF Dead(e) THEN [map EXCEPT ![e.id] = NoVersion] ELSE map
  /\ batch' = IF Fires(e) THEN Append(batch, e) ELSE batch
  /\ UNCHANGED <<now, mainVars, clock, wait, deadline, sampled, history>>

PopDone ==
  /\ Goes("pop", "run") /\ Due = {}
  /\ UNCHANGED <<shared, wait, deadline, sampled, batch>>

\* A callback of the batch, without the lock: timer_task does nothing, or
\* closes its connection and deletes its timer on this thread.
Callback ==
  /\ clock = "run" /\ batch # <<>>
  /\ batch' = Tail(batch)
  /\ \/ UNCHANGED <<map, life>>
     \/ Delete(Head(batch).id)
  /\ UNCHANGED <<now, queue, mainVars, clock, wait, deadline, sampled,
                 pushed, latest>>

RunDone ==
  /\ Goes("run", "check") /\ batch = <<>>
  /\ UNCHANGED <<shared, wait, deadline, sampled, batch>>

-----------------------------------------------------------------------------
\* Bounded, but so that a mod_timer that has begun can still push, that every
\* timer can be due and that every sleep can end.
Tick ==
  /\ now < MaxNow \/ (clock \in {"timedWait", "timedAwake"} /\ now < deadline)
  /\ main \in {"bumped", "read"} => now < LastPush
  /\ now' = now + 1
  /\ UNCHANGED <<queue, map, mainVars, clockVars, history>>

\* The destructor has returned; the threads are gone.
Finished ==
  /\ main = "joined"
  /\ UNCHANGED vars

Init ==
  /\ now = 0 /\ queue = {} /\ map = [i \in Id |-> NoVersion]
  /\ main = "ready" /\ id \in Id /\ version = 0
  /\ clock = "check" /\ wait = 0 /\ deadline = 0
  /\ sampled = 0 /\ batch = <<>>
  /\ pushed = 0 /\ latest = [i \in Id |-> 0] /\ life = [i \in Id |-> "fresh"]

Modify == ModRead \/ \E delay \in Delay : ModPush(delay)

Destroy == DtorClear \/ DtorStop \/ DtorNotify \/ DtorJoin

Main ==
  \/ \E i \in Id, delay \in Delay : AddTimer(i, delay)
  \/ \E i \in Id : ModBump(i)
  \/ Modify
  \/ \E i \in Id : DelTimer(i)
  \/ DtorSize
  \/ Destroy

ClockStep ==
  \/ Check \/ Sample \/ Branch \/ TimedEnter \/ IdleEnter \/ Test
  \/ \E e \in queue : Pop(e)
  \/ PopDone \/ Callback \/ RunDone

Next == Main \/ ClockStep \/ Wake \/ Tick \/ Finished

Spec == Init /\ [][Next]_vars

\* Both threads are scheduled, time passes and a call that has begun goes on;
\* nothing makes the server call the class again, nor wakes the clock thread
\* without a cause.
Fairness ==
  /\ WF_vars(ClockStep) /\ WF_vars(CausedWake) /\ WF_vars(Tick)
  /\ WF_vars(Modify) /\ WF_vars(Destroy)

FairSpec == Spec /\ Fairness

-----------------------------------------------------------------------------
(* Properties *)

\* The heap, the version map and what the two threads have on their stacks
\* have their types; a version mod_timer has read is a number, and a wait with
\* a deadline is never begun for a timer that is overdue.
TypeOK ==
  /\ now \in Nat /\ queue \in SUBSET Timer
  /\ map \in [Id -> Int \cup {NoVersion}]
  /\ main \in {"ready", "bumped", "read", "clear", "stop", "notify", "join", "joined"}
  /\ id \in Id /\ version \in Int
  /\ clock \in ClockPlace
  /\ wait \in Int /\ deadline \in Int
  /\ clock = "timedEnter" => wait > 0
  /\ sampled \in Nat /\ batch \in Seq(Timer)
  /\ pushed \in Nat /\ latest \in [Id -> Nat] /\ life \in [Id -> Life]

\* Main is between the increment of an id's version and its push.
Modifying(i) == main \in {"bumped", "read"} /\ id = i

\* The skip rule of handle_timer (timer.cpp:66-84), on ids that are added once
\* and then only modified, as a connection's id is while it is open: a due
\* timer runs its callback if and only if it is the one last pushed for its id
\* and no mod_timer of that id is half done.  In particular no interleaving of
\* a mod_timer with handle_timer makes both the old and the new timer run, or
\* neither.
RunsExactlyTheLatest ==
  [][\A e \in queue \ queue' :
       (clock = "pop" /\ life[e.id] = "fresh") =>
         (batch' # batch <=> (e.n = latest[e.id] /\ ~Modifying(e.id)))]_vars

\* The clock thread never sleeps, with nobody about to wake it, while it has
\* something to do: without a deadline while a timer is on the heap, or while
\* the destructor waits for it.  (The heap and the stop flag are also tested
\* before the mutex is taken for the wait.)
NoLostWakeup ==
  /\ clock = "idleWait" => queue = {}
  /\ (clock \in Waiting /\ stop) => main = "notify"

\* Every timer pushed on the heap is taken off it: run, skipped or cleared.
EveryTimerLeaves ==
  \A k \in 1 .. MaxPush : (\E e \in queue : e.n = k) ~> (\A e \in queue : e.n # k)

\* How Timers sees main, the clock thread and handle_timer's now.
Caller == CASE main \in {"clear", "stop"} -> "ending"
            [] main \in {"notify", "join"} -> "stopped"
            [] OTHER -> main
Thread == CASE clock \in {"pop", "run"} -> clock
            [] clock = "done" -> "gone"
            [] OTHER -> "idle"
Limit == IF clock = "pop" THEN sampled ELSE 0

Service == INSTANCE Timers WITH caller <- Caller, clock <- Thread, sampled <- Limit

\* What the event loop relies on (Timers): whichever way the thread waits and
\* is woken, a timer that is due is taken off in a batch under the mutex, the
\* callback of a current one runs, and nothing else happens to a timer; and a
\* thread that has something to do does it.
ImplementsTimers == Service!TimersSpec

\* The destructor, once begun, returns: the clock thread ends whatever it is
\* doing, waiting with or without a deadline, popping or running callbacks.
DestructorReturns == (main \in {"clear", "stop"}) ~> (main = "joined")

=============================================================================
