------------------------------- MODULE Reactor -------------------------------
(***************************************************************************)
(* Webserver: the event loop on the main thread, the connections it        *)
(* accepts, reads and closes, their timers (Timers) and objects            *)
(* (ConnPool), timer_task on the clock thread, the signal that ends the    *)
(* loop, and the destructor.                                               *)
(*                                                                         *)
(* Descriptors are numbered as they are accepted.  The kernel would use    *)
(* the number of a closed one again, but the program does not get that     *)
(* far: the first acquire after a Release builds its object on a stack.    *)
(* Clients send, close and reset at will, so they have no state: what recv *)
(* and epoll_wait return is chosen.  Killed and undefined are ends of the  *)
(* process: by SIGPIPE, or by a step that has no defined outcome.          *)
(***************************************************************************)
EXTENDS Timers, ConnPool, FiniteSets

CONSTANTS TimeOut,    \* TIME_OUT
          MaxEvents,  \* MAX_EVENTS
          MaxNow      \* bound: the last second of a behaviour

\* 0 is false, which deal_NewConn returns as a descriptor when it fails.
ASSUME ReactorAssumption ==
  /\ IsFiniteSet(Fd) /\ Fd = 1 .. Cardinality(Fd)
  /\ Id = Fd \cup {0} /\ Delay = {TimeOut}
  /\ MaxEvents \in Nat \ {0} /\ MaxNow \in Nat

VARIABLES at,       \* where the main thread is
          events,   \* what epoll_wait returned and is not handled yet
          event,    \* the event being handled
          block,    \* what the first half of acquire has read
          open,     \* open descriptors of connections
          watched,  \* those of them in the epoll set
          accepted, \* history: connections accepted so far
          signal,   \* "none", "pending" (in the socketpair), "seen": _stop_flag
          task,     \* where the clock thread's close_conn is
          closing   \* the descriptor it closes

loopVars == <<at, events, event, block>>
fdVars == <<open, watched, accepted>>
taskVars == <<task, closing>>
vars == <<timerVars, poolVars, loopVars, fdVars, signal, taskVars>>

Event == [kind : {"accept", "in", "hup", "pipe"}, fd : Id]

Readable(f) == [kind |-> "in", fd |-> f]
HungUp(f) == [kind |-> "hup", fd |-> f]
Connect == [kind |-> "accept", fd |-> 0]
Signalled == [kind |-> "pipe", fd |-> 0]

Place == {"wait", "next", "accept", "acquire", "add", "recv", "handle", "modify",
          "pipe", "close", "release", "pipes", "pipe closed", "save", "members",
          "pool", "gone", "killed", "undefined"}

Over == {"gone", "killed", "undefined"}

GoTo(p) == at' = p
Goes(p, q) == at = p /\ GoTo(q)

Init ==
  /\ TimersInit /\ id = 0 /\ PoolInit
  /\ at = "wait" /\ events = {} /\ event = Signalled /\ block = Null
  /\ open = {} /\ watched = {} /\ accepted = 0
  /\ signal = "none" /\ task = "none" /\ closing = 0

-----------------------------------------------------------------------------
(* EventLoop *)

\* Each descriptor gives one event: a hang-up is tested before input.
Ready ==
  {Readable(f) : f \in watched} \cup {HungUp(f) : f \in watched}
    \cup (IF accepted + 1 \in Fd THEN {Connect} ELSE {})
    \cup (IF signal = "pending" THEN {Signalled} ELSE {})

Pushes(E) == {e \in E : e.kind \in {"accept", "in"}}

\* epoll_wait returns some events; a signal that is pending is one of them.
\* Events that lead to a timer come while the bounds of the timers allow it.
Poll ==
  /\ Goes("wait", "next") /\ signal # "seen"
  /\ \E E \in SUBSET Ready :
       /\ E # {} /\ Cardinality(E) <= MaxEvents
       /\ \A f \in watched : ~({Readable(f), HungUp(f)} \subseteq E)
       /\ signal = "pending" => Signalled \in E
       /\ Pushes(E) # {} => now <= LastPush /\ pushed + Cardinality(Pushes(E)) <= MaxPush
       /\ events' = E
  /\ UNCHANGED <<timerVars, poolVars, event, block, fdVars, signal, taskVars>>

First == [accept |-> "accept", in |-> "recv", hup |-> "close", pipe |-> "pipe"]

\* The loop over the events, which the stop flag breaks.
NextEvent ==
  /\ at = "next"
  /\ \/ /\ signal # "seen"
        /\ \E e \in events : event' = e /\ events' = events \ {e} /\ GoTo(First[e.kind])
     \/ /\ signal = "seen" \/ events = {}
        /\ GoTo("wait") /\ events' = {} /\ event' = Signalled
  /\ UNCHANGED <<timerVars, poolVars, block, fdVars, signal, taskVars>>

\* deal_NewConn: accept, the epoll set, and the first half of acquire.
Accept ==
  /\ at = "accept"
  /\ accepted' = accepted + 1
  /\ open' = open \cup {accepted'} /\ watched' = watched \cup {accepted'}
  /\ block' = free
  /\ \/ free = Null /\ GoTo("add") /\ UNCHANGED event
     \/ free # Null /\ GoTo("acquire") /\ event' = [event EXCEPT !.fd = accepted']
  /\ UNCHANGED <<timerVars, poolVars, events, signal, taskVars>>

\* The client has gone before accept.
AcceptFails ==
  /\ Goes("accept", "add")
  /\ UNCHANGED <<timerVars, poolVars, events, event, block, fdVars, signal, taskVars>>

\* The second half of acquire, and add_map; an object that is built elsewhere
\* overwrites the frames of a stack, or what else is there.
Acquire ==
  /\ at = "acquire"
  /\ \/ block \in Block /\ Construct(block, event.fd, now) /\ GoTo("add")
     \/ block = Wild /\ GoTo("undefined") /\ UNCHANGED poolVars
  /\ UNCHANGED <<timerVars, events, event, block, fdVars, signal, taskVars>>

AddTimer ==
  /\ Goes("add", "next")
  /\ Add(event.fd, TimeOut)
  /\ UNCHANGED <<poolVars, events, event, block, fdVars, signal, taskVars>>

\* deal_Read as far as recv, which fails on a descriptor that is closed.
Recv ==
  /\ at = "recv"
  /\ LET b == get(event.fd)
     IN \/ b = Null /\ GoTo("modify") /\ UNCHANGED poolVars
        \/ /\ b # Null /\ desc[b] \in open /\ GoTo("handle")
           /\ Receive(b, now) /\ UNCHANGED <<free, object>>
        \/ b # Null /\ GoTo("close") /\ UNCHANGED poolVars
  /\ UNCHANGED <<timerVars, events, event, block, fdVars, signal, taskVars>>

\* The rest of deal_Read: no whole request or no handler for it; "hello"; a
\* command of the store.  If the clock thread has released the object, its
\* request may be gone when it is used.  A send to a client that has reset the
\* connection raises SIGPIPE.
Handle ==
  /\ at = "handle"
  /\ LET b == object[event.fd]
     IN \/ GoTo("modify") /\ UNCHANGED <<active, spoilt>>
        \/ GoTo("modify") /\ active' = [active EXCEPT ![b] = now] /\ UNCHANGED spoilt
        \/ GoTo("modify") /\ Command(b, now)
        \/ event.fd \notin open /\ GoTo("undefined") /\ UNCHANGED <<active, spoilt>>
        \/ desc[b] \in open /\ GoTo("killed") /\ UNCHANGED <<active, spoilt>>
  /\ UNCHANGED <<timerVars, free, link, desc, object, events, event, block, fdVars, signal, taskVars>>

\* Mutant of ModTimer: only a read that was handled renews the timer.
ModTimerIfHandled ==
  /\ at = "modify"
  /\ \/ Bump(event.fd) /\ UNCHANGED at
     \/ caller = "ready" /\ GoTo("next") /\ UNCHANGED timerVars
     \/ ReadVersion /\ UNCHANGED at
     \/ PushModified(TimeOut) /\ GoTo("next")
  /\ UNCHANGED <<poolVars, events, event, block, fdVars, signal, taskVars>>

\* mod_timer, whatever deal_Read did.
ModTimer ==
  /\ at = "modify"
  /\ \/ Bump(event.fd) /\ UNCHANGED at
     \/ ReadVersion /\ UNCHANGED at
     \/ PushModified(TimeOut) /\ GoTo("next")
  /\ UNCHANGED <<poolVars, events, event, block, fdVars, signal, taskVars>>

\* Where close_conn returns to.
AfterClose == IF event.kind = "in" THEN "modify" ELSE "next"

\* Mutant of Close: the descriptor stays in the epoll set.
CloseWatched ==
  /\ at = "close"
  /\ \/ get(event.fd) = Null /\ GoTo(AfterClose) /\ UNCHANGED timerVars
     \/ get(event.fd) # Null /\ GoTo("release") /\ Remove(event.fd)
  /\ UNCHANGED <<poolVars, events, event, block, fdVars, signal, taskVars>>

\* close_conn on the main thread, as far as del_timer.
Close ==
  /\ at = "close"
  /\ \/ /\ get(event.fd) = Null /\ GoTo(AfterClose)
        /\ UNCHANGED <<timerVars, watched>>
     \/ /\ get(event.fd) # Null /\ GoTo("release")
        /\ watched' = watched \ {event.fd} /\ Remove(event.fd)
  /\ UNCHANGED <<poolVars, events, event, block, open, accepted, signal, taskVars>>

\* The object's destructor closes its descriptor, open or not.
CloseRelease ==
  /\ Goes("release", AfterClose)
  /\ Release(event.fd) /\ open' = open \ {desc[object[event.fd]]}
  /\ UNCHANGED <<timerVars, events, event, block, watched, accepted, signal, taskVars>>

-----------------------------------------------------------------------------
(* Signals and the end *)

\* sigint_handler: any number of times.
Signal ==
  /\ at \notin Over
  /\ \/ signal = "none" /\ signal' = "pending" /\ UNCHANGED at
     \/ Goes("pipe closed", "killed") /\ UNCHANGED signal
  /\ UNCHANGED <<timerVars, poolVars, events, event, block, fdVars, taskVars>>

\* Mutant of DelSignal: one of the two signals is taken and not obeyed.
DelSignalIgnores ==
  /\ Goes("pipe", "next") /\ signal' \in {"seen", "none"}
  /\ UNCHANGED <<timerVars, poolVars, events, event, block, fdVars, taskVars>>

\* del_signal: both signals that are caught mean to stop.
DelSignal ==
  /\ Goes("pipe", "next") /\ signal' = "seen"
  /\ UNCHANGED <<timerVars, poolVars, events, event, block, fdVars, taskVars>>

\* The loop ends; ~Webserver closes both ends of the socketpair and saves the
\* table, then the members are destroyed: the timers, the connection pool, and
\* the rest.
Leave ==
  /\ \/ signal = "seen" /\ Goes("wait", "pipes")
     \/ Goes("pipes", "pipe closed")
     \/ Goes("pipe closed", "save")
     \/ Goes("save", "members")
     \/ Goes("pool", "gone")
  /\ UNCHANGED <<timerVars, poolVars, events, event, block, fdVars, signal, taskVars>>

DestroyTimers ==
  /\ at = "members"
  /\ \/ (End \/ Clear \/ Stop) /\ UNCHANGED at
     \/ Join /\ GoTo("pool")
  /\ UNCHANGED <<poolVars, events, event, block, fdVars, signal, taskVars>>

-----------------------------------------------------------------------------
(* The clock thread *)

\* Mutant of Expired: the times are compared with <.
ExpiredLater(f) == get(f) # Null /\ active[get(f)] + TimeOut < now

Expired(f) == get(f) # Null /\ active[get(f)] + TimeOut <= now

\* timer_task: a connection that was active since is left alone, and its timer
\* is gone.
TimerTask ==
  /\ clock = "run" /\ batch # <<>> /\ task = "none"
  /\ LET f == Head(batch).id
     IN \/ ~Expired(f) /\ CallbackKeeps /\ UNCHANGED taskVars
        \/ Expired(f) /\ task' = "close" /\ closing' = f /\ UNCHANGED timerVars
  /\ UNCHANGED <<poolVars, loopVars, fdVars, signal>>

TaskClose ==
  /\ task = "close" /\ task' = "release"
  /\ watched' = watched \ {closing} /\ CallbackDeletes
  /\ UNCHANGED <<poolVars, loopVars, open, accepted, signal, closing>>

TaskRelease ==
  /\ task = "release" /\ task' = "none" /\ closing' = 0
  /\ Release(closing) /\ open' = open \ {desc[object[closing]]}
  /\ UNCHANGED <<timerVars, loopVars, watched, accepted, signal>>

\* Steps of the timer thread when it is in no callback.
Thread(A) == task = "none" /\ A /\ UNCHANGED <<poolVars, loopVars, fdVars, signal, taskVars>>

TakeTimers == Thread(Take)
TakeDueTimers == Thread(TakeDue)
HandleTimers == Thread((\E e \in queue : Pop(e)) \/ PopDone \/ RunDone \/ Exit)

-----------------------------------------------------------------------------
\* The main thread is on its way to a push.
Pushing ==
  \/ Pushes(events) # {}
  \/ at \in {"accept", "acquire", "add", "recv", "handle", "modify"}
  \/ at \in {"close", "release"} /\ event.kind = "in"

\* Bounded: what has begun in the last second for pushes ends in it.
Tick ==
  /\ now < MaxNow /\ (now = LastPush => ~Pushing)
  /\ Elapse
  /\ UNCHANGED <<poolVars, loopVars, fdVars, signal, taskVars>>

Main ==
  \/ NextEvent \/ Accept \/ AcceptFails \/ Acquire \/ AddTimer
  \/ Recv \/ Handle \/ ModTimer \/ Close \/ CloseRelease
  \/ DelSignal \/ Leave \/ DestroyTimers

Callbacks == TimerTask \/ TaskClose \/ TaskRelease \/ HandleTimers

Finished == at \in Over /\ UNCHANGED vars

Running(A) == at \notin Over /\ A

Next ==
  \/ Running(Poll) \/ Main \/ Running(TakeTimers) \/ Running(Callbacks) \/ Running(Tick)
  \/ Signal \/ Finished

Spec == Init /\ [][Next]_vars

\* The main thread runs, gets the timers' mutex when the clock thread gives it
\* up again and again (between two batches that thread sleeps), and comes back
\* from epoll_wait when a signal is pending; the clock thread takes timers that
\* are due, as ThreadClock does, and runs; time passes.  Clients owe nothing.
Fairness ==
  /\ SF_vars(Main \/ (signal = "pending" /\ Poll))
  /\ WF_vars(Running(TakeDueTimers \/ Callbacks)) /\ WF_vars(Running(Tick))

FairSpec == Spec /\ Fairness

-----------------------------------------------------------------------------
(* Properties *)

PoolOK ==
  /\ free \in Block \cup {Null, Wild} /\ block \in Block \cup {Null, Wild}
  /\ link \in [Block -> Block \cup {Null, Wild}]
  /\ desc \in [Block -> Fd \cup {0, Wild}] /\ object \in [Fd -> Block \cup {Null}]
  /\ active \in [Block -> Int] /\ spoilt \subseteq Block

LoopOK ==
  /\ at \in Place /\ events \subseteq Event /\ event \in Event
  /\ signal \in {"none", "pending", "seen"}
  /\ task \in {"none", "close", "release"} /\ closing \in Id

FdOK == watched \subseteq open /\ open \subseteq 1 .. accepted /\ accepted \in Fd \cup {0}

\* The state has its types; what is watched is open, and was accepted.
TypeOK == TimersOK /\ PoolOK /\ LoopOK /\ FdOK

\* A connection that has an object.
Served(f) == f \in open /\ object[f] # Null

\* One over whose time and descriptor no neighbour has written characters since
\* it was last read.
Intact(f) == Served(f) /\ object[f] \notin spoilt

\* What can still close or renew the timer of f: the current timer on the heap,
\* a callback that has not run, a close_conn under way, or the main thread on
\* its way to push f's timer.
CurrentTimer(f) == \E e \in queue : e.id = f /\ e.version = map[f] /\ e.version # 0
CallbackDue(f) == \E k \in DOMAIN batch : batch[k].id = f
Closing(f) == (task # "none" /\ closing = f) \/ (at \in {"close", "release"} /\ event.fd = f)
Renewing(f) == at \in {"add", "handle", "modify"} /\ event.fd = f

\* In every interleaving of accepts, reads, closes and the callbacks of old
\* timers, while the server serves, a connection that is open and has an object
\* will be closed by something that is already on its way, or has its timer
\* renewed.  Only a long request or reply of its neighbour can rob it of that,
\* and only until it is read again: a time made of characters may make
\* timer_task let its last timer go, and a descriptor made of characters leaves
\* its own open.  (Webserver.cpp:112-116, 155, and timer.cpp:66-84 together.)
EveryConnectionTimed ==
  (at \notin Over /\ caller \in {"ready", "bumped", "read"}) =>
     \A f \in Fd : Intact(f) =>
        CurrentTimer(f) \/ CallbackDue(f) \/ Closing(f) \/ Renewing(f)

\* No block of the pool serves two open connections, however the free list, the
\* objects that lie over it and the two threads' close_conn of one descriptor
\* interleave.
BlocksNotShared == \A f, g \in Fd : Served(f) /\ Served(g) /\ object[f] = object[g] => f = g

\* A connection whose client is silent from some time on is closed (timer_task),
\* unless the process ends before, or a long request or reply of its neighbour
\* takes the place of its descriptor or of the time of its last activity.  (The
\* bounds make every client silent.)
IdleConnectionsClose ==
  \A f \in Fd : Served(f) ~> (f \notin open \/ at \in Over \/ object[f] \in spoilt)

\* A signal that is in the socketpair ends the process, whatever the clock
\* thread is doing to the members that are being destroyed.
SignalEnds == signal = "pending" ~> at \in Over

\* memory.h:75 "回收对象" (take the object back): what Release has taken back can
\* be acquired again, and the server goes on.
AcquireServes == at = "undefined" => event.kind # "accept"

\* Webserver.cpp:100 "关闭连接和移除定时器" (close the connection and remove its
\* timer): a descriptor is closed once.
ClosedOnce ==
  [][/\ CloseRelease => event.fd \in open
     /\ TaskRelease => closing \in open]_vars

=============================================================================
