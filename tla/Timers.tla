-------------------------------- MODULE Timers --------------------------------
(***************************************************************************)
(* What Thread_clockr promises to the event loop that uses it: timers are  *)
(* pushed, superseded and deleted; those that are due are taken off in     *)
(* batches, under the mutex, and the callbacks of the current ones run     *)
(* after it, on another thread.  How the thread waits for the earliest     *)
(* timer is left to ThreadClock, which implements this; Reactor is built   *)
(* on it.                                                                  *)
(***************************************************************************)
EXTENDS Integers, Sequences

CONSTANTS Id, Delay, NoVersion,
          MaxPush, LastPush  \* bounds: timers pushed, and until which second

ASSUME TimersAssumption == Delay \subseteq Nat /\ NoVersion \notin Nat

VARIABLES now,        \* seconds
          queue,      \* timers pushed and not taken off
          map,        \* the current version of each id
          caller,     \* where the owner of the service is in a call
          id,         \* the id of its mod_timer
          version,    \* new_version of its mod_timer
          clock,      \* "idle", "pop" (has the mutex), "run" or "gone"
          sampled,    \* while "pop": the time up to which timers are due
          batch,      \* timers taken off whose callbacks have not run
          pushed      \* history: timers pushed so far

timerVars == <<now, queue, map, caller, id, version, clock, sampled, batch, pushed>>
callVars == <<caller, id, version>>
clockVars == <<clock, sampled, batch>>

Unlocked == clock # "pop"

TimersInit ==
  /\ now = 0 /\ queue = {} /\ map = [i \in Id |-> NoVersion]
  /\ caller = "ready" /\ id \in Id /\ version = 0
  /\ clock = "idle" /\ sampled = 0 /\ batch = <<>> /\ pushed = 0

-----------------------------------------------------------------------------
(* Calls of the owner; a mod_timer is three steps *)

Push(i, delay, v) ==
  /\ Unlocked /\ pushed < MaxPush /\ now <= LastPush
  /\ pushed' = pushed + 1
  /\ queue' = queue \cup {[n |-> pushed + 1, id |-> i, expire |-> now + delay, version |-> v]}
  /\ map' = [map EXCEPT ![i] = v]

Add(i, delay) ==
  /\ caller = "ready" /\ Push(i, delay, 1)
  /\ UNCHANGED <<now, callVars, clockVars>>

Bump(i) ==
  /\ caller = "ready" /\ Unlocked
  /\ map' = [map EXCEPT ![i] = IF @ = NoVersion THEN 1 ELSE @ + 1]
  /\ caller' = "bumped" /\ id' = i
  /\ UNCHANGED <<now, queue, version, clockVars, pushed>>

\* Without the mutex.
ReadVersion ==
  /\ caller = "bumped"
  /\ map' = [map EXCEPT ![id] = IF @ = NoVersion THEN 0 ELSE @]
  /\ version' = map'[id] /\ caller' = "read"
  /\ UNCHANGED <<now, queue, id, clockVars, pushed>>

PushModified(delay) ==
  /\ caller = "read" /\ Push(id, delay, version)
  /\ caller' = "ready"
  /\ UNCHANGED <<now, id, version, clockVars>>

\* del_timer, on either thread.
Delete(i) ==
  /\ Unlocked
  /\ map' = [map EXCEPT ![i] = IF @ = NoVersion THEN @ ELSE 0]

Remove(i) ==
  /\ caller = "ready" /\ Delete(i)
  /\ UNCHANGED <<now, queue, callVars, clockVars, pushed>>

\* The destructor: it may clear the heap, stops the thread and joins it.
Calls(from, to) == caller = from /\ caller' = to

End ==
  /\ Calls("ready", "ending")
  /\ UNCHANGED <<now, queue, map, id, version, clockVars, pushed>>

Clear ==
  /\ caller = "ending" /\ Unlocked
  /\ queue' = {}
  /\ UNCHANGED <<now, map, callVars, clockVars, pushed>>

Stop ==
  /\ Calls("ending", "stopped") /\ Unlocked
  /\ UNCHANGED <<now, queue, map, id, version, clockVars, pushed>>

Join ==
  /\ Calls("stopped", "joined") /\ clock = "gone"
  /\ UNCHANGED <<now, queue, map, id, version, clockVars, pushed>>

-----------------------------------------------------------------------------
(* The clock thread *)

Take ==
  /\ clock = "idle" /\ caller \notin {"stopped", "joined"}
  /\ clock' = "pop" /\ sampled' = now
  /\ UNCHANGED <<now, queue, map, callVars, batch, pushed>>

DueBy(t) == {e \in queue : e.expire <= t}

Stale(e) == map[e.id] # NoVersion /\ map[e.id] # e.version

\* A current timer with version 0 was deleted: its id is forgotten.
Pop(e) ==
  /\ clock = "pop" /\ e \in DueBy(sampled)
  /\ queue' = queue \ {e}
  /\ \/ Stale(e) /\ UNCHANGED <<map, batch>>
     \/ /\ ~Stale(e) /\ e.version = 0
        /\ map' = [map EXCEPT ![e.id] = NoVersion] /\ UNCHANGED batch
     \/ ~Stale(e) /\ e.version # 0 /\ batch' = Append(batch, e) /\ UNCHANGED map
  /\ UNCHANGED <<now, callVars, clock, sampled, pushed>>

PopDone ==
  /\ clock = "pop" /\ DueBy(sampled) = {}
  /\ clock' = "run" /\ sampled' = 0
  /\ UNCHANGED <<now, queue, map, callVars, batch, pushed>>

\* A callback returns, and may have deleted the timer of its id.
Return ==
  /\ clock = "run" /\ batch # <<>> /\ batch' = Tail(batch)
  /\ UNCHANGED <<now, queue, callVars, clock, sampled, pushed>>

CallbackKeeps == Return /\ UNCHANGED map
CallbackDeletes == Return /\ Delete(Head(batch).id)

RunDone ==
  /\ clock = "run" /\ batch = <<>> /\ clock' = "idle"
  /\ UNCHANGED <<now, queue, map, callVars, sampled, batch, pushed>>

Exit ==
  /\ clock = "idle" /\ caller = "stopped" /\ clock' = "gone"
  /\ UNCHANGED <<now, queue, map, callVars, sampled, batch, pushed>>

Elapse == now' = now + 1 /\ UNCHANGED <<queue, map, callVars, clockVars, pushed>>

TimersNext ==
  \/ \E i \in Id : Bump(i) \/ Remove(i) \/ \E delay \in Delay : Add(i, delay)
  \/ ReadVersion \/ \E delay \in Delay : PushModified(delay)
  \/ End \/ Clear \/ Stop \/ Join
  \/ Take \/ (\E e \in queue : Pop(e)) \/ PopDone
  \/ CallbackKeeps \/ CallbackDeletes \/ RunDone \/ Exit
  \/ Elapse

\* The thread takes timers that are due, finishes a batch, and ends when told.
TakeDue == DueBy(now) # {} /\ Take

Progress ==
  \/ TakeDue \/ (\E e \in queue : Pop(e)) \/ PopDone
  \/ CallbackKeeps \/ CallbackDeletes \/ RunDone \/ Exit

\* Types, for the modules that are built on this one.
Timer == [n : Nat, id : Id, expire : Nat, version : Nat]

TimersOK ==
  /\ now \in Nat /\ pushed \in Nat /\ queue \in SUBSET Timer
  /\ map \in [Id -> Nat \cup {NoVersion}]
  /\ caller \in {"ready", "bumped", "read", "ending", "stopped", "joined"}
  /\ id \in Id /\ version \in Nat
  /\ clock \in {"idle", "pop", "run", "gone"} /\ sampled \in Nat /\ batch \in Seq(Timer)

TimersSafety == TimersInit /\ [][TimersNext]_timerVars

TimersSpec == TimersSafety /\ WF_timerVars(Progress)

=============================================================================
