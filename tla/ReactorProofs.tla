----------------------------- MODULE ReactorProofs -----------------------------
(***************************************************************************)
(* Theorems about Reactor.                                                 *)
(***************************************************************************)
EXTENDS Reactor, TLAPS, FiniteSetTheorems, SequenceTheorems

USE TimersAssumption, BlocksAssumption, AddressAssumption, GarbageAssumption

LEMMA FdIsNat == Fd \subseteq Nat /\ Fd \subseteq Id /\ TimeOut \in Nat /\ TimeOut \in Delay
BY ReactorAssumption, FS_CardinalityType

\* The kinds of steps, one by one.
Named ==
  \/ Poll \/ NextEvent \/ Accept \/ AcceptFails \/ Acquire \/ AddTimer
  \/ Recv \/ Handle \/ ModTimer \/ Close \/ CloseRelease
  \/ DelSignal \/ Leave \/ DestroyTimers
  \/ TakeTimers \/ TimerTask \/ TaskClose \/ TaskRelease \/ HandleTimers
  \/ Tick \/ Signal \/ UNCHANGED vars

LEMMA Steps == [Next]_vars => Named
BY DEF Next, Named, Main, Running, Callbacks, Finished

-----------------------------------------------------------------------------
(* The steps of the reactor are steps of the timer service *)

LEMMA TimersStep == LoopOK /\ [Next]_vars => [TimersNext]_timerVars
<1> SUFFICES ASSUME LoopOK, Named PROVE [TimersNext]_timerVars
  BY Steps
<1> USE FdIsNat
<1>e. event.fd \in Id
  BY DEF LoopOK, Event
<1>1. CASE AddTimer
  BY <1>1, <1>e DEF AddTimer, TimersNext
<1>2. CASE ModTimer
  BY <1>2, <1>e DEF ModTimer, TimersNext
<1>3. CASE Close
  BY <1>3, <1>e DEF Close, TimersNext
<1>4. CASE DestroyTimers
  BY <1>4 DEF DestroyTimers, TimersNext
<1>5. CASE TakeTimers \/ HandleTimers
  BY <1>5 DEF TakeTimers, HandleTimers, Thread, TimersNext
<1>6. CASE TimerTask \/ TaskClose
  BY <1>6 DEF TimerTask, TaskClose, TimersNext
<1>7. CASE Tick
  BY <1>7 DEF Tick, TimersNext
<1>8. CASE UNCHANGED vars
  BY <1>8 DEF vars, timerVars
<1>9. CASE Poll \/ NextEvent \/ Accept \/ AcceptFails \/ Acquire \/ Recv \/ Handle
  BY <1>9 DEF Poll, NextEvent, Accept, AcceptFails, Acquire, Recv, Handle
<1>10. CASE CloseRelease \/ DelSignal \/ Leave \/ TaskRelease \/ Signal
  BY <1>10 DEF CloseRelease, DelSignal, Leave, TaskRelease, Signal
<1> QED
  BY <1>1, <1>2, <1>3, <1>4, <1>5, <1>6, <1>7, <1>8, <1>9, <1>10 DEF Named

LEMMA TimersTypes == TimersOK /\ [TimersNext]_timerVars => TimersOK'
<1> SUFFICES ASSUME TimersOK, [TimersNext]_timerVars PROVE TimersOK'
  OBVIOUS
<1> USE DEF TimersOK, timerVars, callVars, clockVars
<1>1. ASSUME NEW i \in Id, NEW delay \in Delay, NEW v \in Nat, Push(i, delay, v)
      PROVE queue' \in SUBSET Timer /\ map' \in [Id -> Nat \cup {NoVersion}] /\ pushed' \in Nat
  <2>1. [n |-> pushed + 1, id |-> i, expire |-> now + delay, version |-> v] \in Timer
    BY DEF Timer
  <2> QED
    BY <1>1, <2>1 DEF Push
<1>2. ASSUME NEW i \in Id, Delete(i) PROVE map' \in [Id -> Nat \cup {NoVersion}]
  BY <1>2 DEF Delete
<1>3. ASSUME NEW i \in Id, NEW delay \in Delay, Add(i, delay) PROVE TimersOK'
  BY <1>3, <1>1 DEF Add
<1>4. ASSUME NEW i \in Id, Bump(i) PROVE TimersOK'
  BY <1>4 DEF Bump
<1>5. ASSUME NEW i \in Id, Remove(i) PROVE TimersOK'
  BY <1>5, <1>2 DEF Remove
<1>6. CASE ReadVersion
  BY <1>6 DEF ReadVersion
<1>7. ASSUME NEW delay \in Delay, PushModified(delay) PROVE TimersOK'
  BY <1>7, <1>1 DEF PushModified
<1>8. CASE End \/ Clear \/ Stop \/ Join
  BY <1>8 DEF End, Clear, Stop, Join, Calls
<1>9. CASE Take \/ PopDone \/ RunDone \/ Exit \/ Elapse
  BY <1>9 DEF Take, PopDone, RunDone, Exit, Elapse
<1>10. ASSUME NEW e \in queue, Pop(e) PROVE TimersOK'
  <2>1. e \in Timer /\ e.id \in Id
    BY DEF Timer
  <2>2. map' \in [Id -> Nat \cup {NoVersion}]
    BY <1>10, <2>1 DEF Pop
  <2>3. batch' \in Seq(Timer)
    BY <1>10, <2>1 DEF Pop
  <2> QED
    BY <1>10, <2>2, <2>3 DEF Pop
<1>11. CASE CallbackKeeps \/ CallbackDeletes
  <2>1. Return /\ batch # <<>>
    BY <1>11 DEF CallbackKeeps, CallbackDeletes, Return
  <2>2. batch' \in Seq(Timer) /\ Head(batch) \in Timer
    <3>1. batch \in Seq(Timer) /\ batch' = Tail(batch)
      BY <2>1 DEF Return
    <3> QED
      BY <2>1, <3>1, HeadTailProperties
  <2>4. Head(batch).id \in Id
    BY <2>2 DEF Timer
  <2>3. map' \in [Id -> Nat \cup {NoVersion}]
    BY <1>11, <1>2, <2>4 DEF CallbackKeeps, CallbackDeletes
  <2> QED
    BY <2>1, <2>2, <2>3 DEF Return
<1>12. CASE UNCHANGED timerVars
  BY <1>12
<1> QED
  BY <1>3, <1>4, <1>5, <1>6, <1>7, <1>8, <1>9, <1>10, <1>11, <1>12 DEF TimersNext

-----------------------------------------------------------------------------
(* Types of the rest *)

\* The pool's blocks are handed out in order: what is free lies above every
\* object, also while acquire has read the free list and not yet written it.
Below(b) == \A f \in Fd : object[f] = Null \/ object[f] < b

PoolInv ==
  /\ \A b \in Block : link[b] \in {Null, b + 1, Wild}
  /\ free \in Block => Below(free)
  /\ at = "acquire" /\ block \in Block => Below(block)
  /\ \A f, g \in Fd : object[f] = object[g] /\ object[f] # Null => f = g

\* The descriptor in a connection's object is its own, unless a neighbour has
\* spoilt it.
DescInv ==
  \A f \in Fd : object[f] # Null =>
    /\ desc[object[f]] \in {f, Wild}
    /\ object[f] \notin spoilt => desc[object[f]] = f

\* A connection that waits is accepted once.
AcceptOnce ==
  /\ \A e \in events : e.kind = "accept" => e = Connect /\ accepted + 1 \in Fd /\ at # "accept"
  /\ at = "accept" => accepted + 1 \in Fd

\* Objects are those of accepted connections; what a close_conn is about to
\* close is no longer watched.
FdInv ==
  /\ \A f \in Fd : object[f] # Null => f <= accepted
  /\ at = "acquire" => event.fd = accepted
  /\ at = "release" => event.fd \in Fd /\ object[event.fd] # Null /\ event.fd \notin watched
  /\ task # "none" => closing \in Fd /\ object[closing] # Null
  /\ task = "release" => closing \notin watched
  /\ AcceptOnce

LEMMA PoolTypes == TypeOK /\ [Next]_vars => PoolOK'
<1> SUFFICES ASSUME TypeOK, Named PROVE PoolOK'
  BY Steps
<1> USE FdIsNat DEF PoolOK
<1>t. PoolOK /\ now \in Nat
  BY DEF TypeOK, TimersOK
<1>e. event.fd \in Fd \cup {0}
  BY ReactorAssumption DEF TypeOK, LoopOK, Event
<1>1. CASE Accept
  BY <1>1, <1>t DEF Accept, poolVars
<1>2. CASE Acquire
  <2>1. CASE block \in Block /\ Construct(block, event.fd, now)
    <3>1. free' \in Block \cup {Null, Wild} /\ spoilt' \subseteq Block
      BY <2>1, <1>t DEF Construct
    <3>2. link' \in [Block -> Block \cup {Null, Wild}]
      BY <2>1, <1>t DEF Construct
    <3>3. object' \in [Fd -> Block \cup {Null}]
      BY <2>1, <1>t DEF Construct
    <3>4. active' \in [Block -> Int]
      BY <2>1, <1>t DEF Construct
    <3>5. desc' \in [Block -> Fd \cup {0, Wild}]
      BY <2>1, <1>e, <1>t DEF Construct
    <3> QED
      BY <3>1, <3>2, <3>3, <3>4, <3>5, <1>2, <1>t DEF Acquire
  <2>2. CASE UNCHANGED poolVars
    BY <2>2, <1>2, <1>t DEF Acquire, poolVars
  <2> QED
    BY <2>1, <2>2, <1>2 DEF Acquire
<1>3. CASE Recv
  BY <1>3, <1>t DEF Recv, Receive, poolVars
<1>4. CASE Handle
  BY <1>4, <1>t DEF Handle, Command
<1>5. CASE CloseRelease \/ TaskRelease
  BY <1>5, <1>t DEF CloseRelease, TaskRelease, Release, loopVars
<1>6. CASE UNCHANGED <<poolVars, block>>
  BY <1>6, <1>t DEF poolVars
<1>7. CASE Poll \/ NextEvent \/ AcceptFails \/ AddTimer \/ ModTimer \/ Close \/ DelSignal \/ Leave
  BY <1>6, <1>7 DEF Poll, NextEvent, AcceptFails, AddTimer, ModTimer, Close, DelSignal, Leave
<1>8. CASE DestroyTimers \/ TakeTimers \/ TimerTask \/ TaskClose \/ HandleTimers \/ Tick \/ Signal
  BY <1>6, <1>8 DEF DestroyTimers, TakeTimers, TimerTask, TaskClose, HandleTimers, Tick, Signal,
                    Thread, loopVars
<1>9. CASE UNCHANGED vars
  BY <1>6, <1>9 DEF vars, loopVars
<1> QED
  BY <1>1, <1>2, <1>3, <1>4, <1>5, <1>7, <1>8, <1>9 DEF Named

\* Where the event loop sends an event.
LEMMA EventPlaces ==
  ASSUME LoopOK, NEW e \in events
  PROVE  /\ e \in Event /\ First[e.kind] \in {"accept", "recv", "close", "pipe"}
         /\ First[e.kind] = "accept" <=> e.kind = "accept"
BY DEF LoopOK, Event, First

LEMMA OpenFds == FdOK => open \subseteq Fd /\ watched \subseteq Fd
<1> SUFFICES ASSUME FdOK PROVE \A f \in 1 .. accepted : f \in Fd
  BY DEF FdOK
<1>1. accepted \in Nat
  BY FdIsNat, ReactorAssumption DEF FdOK
<1> QED
  BY <1>1, ReactorAssumption, FS_CardinalityType DEF FdOK

LEMMA ReadyEvents == TypeOK => \A e \in Ready : e \in Event /\ (e.kind = "accept" => e = Connect /\ accepted + 1 \in Fd)
<1> SUFFICES ASSUME TypeOK, NEW e \in Ready PROVE e \in Event /\ (e.kind = "accept" => e = Connect /\ accepted + 1 \in Fd)
  OBVIOUS
<1>1. 0 \in Id /\ accepted \in Nat
  BY FdIsNat, ReactorAssumption DEF TypeOK, FdOK
<1>2. \A f \in watched : f \in Id
  BY OpenFds, FdIsNat DEF TypeOK
<1> QED
  BY <1>1, <1>2 DEF Ready, Readable, HungUp, Connect, Signalled, Event

LEMMA LoopTypes == TypeOK /\ FdInv /\ [Next]_vars => LoopOK'
<1> SUFFICES ASSUME TypeOK, FdInv, Named PROVE LoopOK'
  BY Steps
<1> USE FdIsNat DEF LoopOK, Place
<1>t. LoopOK
  BY DEF TypeOK
<1>1. CASE Poll
  BY <1>1, <1>t, ReadyEvents DEF Poll, taskVars, Goes, GoTo
<1>2. CASE NextEvent
  <2>1. CASE \E e \in events : event' = e /\ events' = events \ {e} /\ GoTo(First[e.kind])
    BY <2>1, <1>2, <1>t, EventPlaces DEF NextEvent, taskVars, GoTo
  <2>2. CASE GoTo("wait") /\ events' = {} /\ event' = Signalled
    <3>1. Signalled \in Event
      BY ReactorAssumption DEF Signalled, Event
    <3> QED
      BY <2>2, <3>1, <1>2, <1>t DEF NextEvent, taskVars, GoTo
  <2> QED
    BY <2>1, <2>2, <1>2 DEF NextEvent
<1>3. CASE Accept
  <2>1. accepted' \in Id
    BY <1>3 DEF Accept, FdInv, AcceptOnce
  <2>2. event' \in Event
    BY <1>3, <2>1, <1>t DEF Accept, Event
  <2> QED
    BY <1>3, <2>2, <1>t DEF Accept, taskVars, GoTo
<1>4. CASE AcceptFails \/ Acquire \/ AddTimer \/ Recv \/ Handle
  BY <1>4, <1>t DEF AcceptFails, Acquire, AddTimer, Recv, Handle, Goes, GoTo, taskVars
<1>5. CASE ModTimer \/ Close \/ CloseRelease \/ DelSignal \/ Leave \/ DestroyTimers
  BY <1>5, <1>t DEF ModTimer, Close, CloseRelease, DelSignal, Leave, DestroyTimers,
                    Goes, GoTo, taskVars, AfterClose
<1>6. CASE TakeTimers \/ HandleTimers \/ Tick
  BY <1>6, <1>t DEF TakeTimers, HandleTimers, Tick, Thread, loopVars, taskVars
<1>7. CASE TimerTask
  <2>1. ASSUME clock = "run" /\ batch # <<>> PROVE Head(batch).id \in Id
    <3>1. Head(batch) \in Timer
      BY <2>1, HeadTailProperties DEF TypeOK, TimersOK
    <3> QED
      BY <3>1 DEF Timer
  <2> QED
    BY <1>7, <2>1, <1>t DEF TimerTask, loopVars, taskVars
<1>8. CASE TaskClose \/ TaskRelease
  BY <1>8, <1>t, ReactorAssumption DEF TaskClose, TaskRelease, loopVars
<1>9. CASE Signal
  BY <1>9, <1>t DEF Signal, Goes, GoTo, taskVars
<1>10. CASE UNCHANGED vars
  BY <1>10, <1>t DEF vars, loopVars, taskVars
<1> QED
  BY <1>1, <1>2, <1>3, <1>4, <1>5, <1>6, <1>7, <1>8, <1>9, <1>10 DEF Named

LEMMA FdTypes == TypeOK /\ FdInv /\ DescInv /\ [Next]_vars => FdOK'
<1> SUFFICES ASSUME TypeOK, FdInv, DescInv, Named PROVE FdOK'
  BY Steps
<1> USE FdIsNat DEF FdOK
<1>t. FdOK /\ accepted \in Nat
  BY DEF TypeOK
<1>1. CASE Accept
  BY <1>1, <1>t DEF Accept, FdInv, AcceptOnce
<1>2. CASE Close \/ TaskClose
  BY <1>2, <1>t DEF Close, TaskClose, fdVars
<1>3. CASE CloseRelease \/ TaskRelease
  <2>1. PICK f \in Fd : open' = open \ {desc[object[f]]} /\ f \notin watched /\ object[f] # Null
    BY <1>3 DEF CloseRelease, TaskRelease, Goes, FdInv
  <2>2. desc[object[f]] \in {f, Wild}
    BY <2>1 DEF DescInv
  <2>3. Wild \notin watched
    BY <1>t, OpenFds
  <2>4. watched' = watched /\ accepted' = accepted
    BY <1>3 DEF CloseRelease, TaskRelease
  <2> QED
    BY <2>1, <2>2, <2>3, <2>4, <1>t
<1>4. CASE UNCHANGED fdVars
  BY <1>4, <1>t DEF fdVars
<1>5. CASE Poll \/ NextEvent \/ AcceptFails \/ Acquire \/ AddTimer \/ Recv \/ Handle \/ ModTimer
  BY <1>4, <1>5 DEF Poll, NextEvent, AcceptFails, Acquire, AddTimer, Recv, Handle, ModTimer
<1>6. CASE DelSignal \/ Leave \/ DestroyTimers \/ TakeTimers \/ TimerTask \/ HandleTimers \/ Tick \/ Signal
  BY <1>4, <1>6 DEF DelSignal, Leave, DestroyTimers, TakeTimers, TimerTask, HandleTimers, Tick,
                    Signal, Thread
<1>7. CASE UNCHANGED vars
  BY <1>4, <1>7 DEF vars
<1> QED
  BY <1>1, <1>2, <1>3, <1>5, <1>6, <1>7 DEF Named

-----------------------------------------------------------------------------
(* Blocks and descriptors *)

LEMMA PoolStep == TypeOK /\ PoolInv /\ [Next]_vars => PoolInv'
<1> SUFFICES ASSUME TypeOK, PoolInv, Named PROVE PoolInv'
  BY Steps
<1>t. PoolOK
  BY DEF TypeOK
<1>0. ASSUME UNCHANGED object, \A b \in Block : link'[b] \in {link[b], Wild}, free' \in {free, Wild},
             at' = "acquire" => at = "acquire" /\ block' = block
      PROVE  PoolInv'
  BY <1>0 DEF PoolInv, Below
<1>1. CASE Accept
  BY <1>1, <1>t DEF Accept, GoTo, poolVars, PoolInv, Below
<1>2. CASE Acquire
  <2>1. CASE block \in Block /\ Construct(block, event.fd, now) /\ GoTo("add")
    <3>1. Below(block)
      BY <2>1, <1>2 DEF Acquire, PoolInv
    <3>2. object' = [object EXCEPT ![event.fd] = block] /\ free' = link[block]
      BY <2>1 DEF Construct
    <3>3. \A b \in Block : link'[b] \in {Null, b + 1, Wild}
      BY <2>1, <1>t DEF Construct, PoolOK, PoolInv
    <3>4. \A f, g \in Fd : object'[f] = object'[g] /\ object'[f] # Null => f = g
      BY <3>1, <3>2, <2>1, <1>t DEF PoolOK, PoolInv, Below, Block
    <3>5. free' \in Block => Below(free)'
      <4>1. free' \in Block => free' = block + 1
        BY <3>2, <2>1 DEF PoolInv
      <4> QED
        BY <4>1, <3>1, <3>2, <2>1, <1>t DEF PoolOK, Below, Block
    <3> QED
      BY <3>3, <3>4, <3>5, <2>1 DEF PoolInv, GoTo
  <2>2. CASE GoTo("undefined") /\ UNCHANGED poolVars
    BY <2>2, <1>0 DEF GoTo, poolVars
  <2> QED
    BY <2>1, <2>2, <1>2 DEF Acquire
<1>3. CASE CloseRelease \/ TaskRelease
  BY <1>3, <1>0 DEF CloseRelease, TaskRelease, Release, Goes, GoTo, AfterClose, loopVars
<1>4. CASE NextEvent
  <2>1. \A e \in events : First[e.kind] # "acquire"
    BY EventPlaces DEF TypeOK
  <2> QED
    BY <2>1, <1>4, <1>0 DEF NextEvent, GoTo, poolVars
<1>8. CASE Recv
  BY <1>8, <1>0, <1>t DEF Recv, Receive, PoolOK, GoTo, poolVars
<1>5. CASE Poll \/ AcceptFails \/ AddTimer \/ Handle \/ ModTimer \/ Close \/ DelSignal \/ Leave
  BY <1>5, <1>0 DEF Poll, AcceptFails, AddTimer, Handle, ModTimer, Close, DelSignal, Leave,
                    Goes, GoTo, AfterClose, poolVars
<1>6. CASE DestroyTimers \/ TakeTimers \/ TimerTask \/ TaskClose \/ HandleTimers \/ Tick \/ Signal
  BY <1>6, <1>0 DEF DestroyTimers, TakeTimers, TimerTask, TaskClose, HandleTimers, Tick, Signal,
                    Thread, Goes, GoTo, poolVars, loopVars
<1>7. CASE UNCHANGED vars
  BY <1>7, <1>0 DEF vars, poolVars, loopVars
<1> QED
  BY <1>1, <1>2, <1>3, <1>4, <1>5, <1>6, <1>7, <1>8 DEF Named

LEMMA DescStep == TypeOK /\ PoolInv /\ DescInv /\ [Next]_vars => DescInv'
<1> SUFFICES ASSUME TypeOK, PoolInv, DescInv, Named PROVE DescInv'
  BY Steps
<1>t. PoolOK /\ \A f \in Fd : object[f] # Null => object[f] \in Block
  BY DEF TypeOK, PoolOK
<1>0. ASSUME UNCHANGED <<object, desc>>, spoilt \subseteq spoilt' PROVE DescInv'
  BY <1>0 DEF DescInv
<1>1. CASE Acquire
  <2>1. CASE block \in Block /\ Construct(block, event.fd, now)
    <3> SUFFICES ASSUME NEW f \in Fd, object'[f] # Null
                 PROVE  desc'[object'[f]] \in {f, Wild} /\ (object'[f] \notin spoilt' => desc'[object'[f]] = f)
      BY DEF DescInv
    <3>1. CASE f = event.fd
      BY <3>1, <2>1, <1>t DEF Construct, PoolOK
    <3>2. CASE f # event.fd
      <4>1. object'[f] = object[f]
        BY <3>2, <2>1, <1>t DEF Construct, PoolOK
      <4>2. object[f] \in Block /\ object[f] < block
        BY <4>1, <2>1, <1>1, <1>t DEF PoolInv, Below, Acquire
      <4>3. desc'[object[f]] = desc[object[f]] /\ (object[f] \notin spoilt' => object[f] \notin spoilt)
        BY <4>2, <2>1 DEF Construct, Covered, Block
      <4> QED
        BY <4>1, <4>2, <4>3 DEF DescInv
    <3> QED
      BY <3>1, <3>2
  <2> QED
    BY <2>1, <1>0, <1>1 DEF Acquire, poolVars
<1>2. CASE Recv
  <2>1. CASE get(event.fd) # Null /\ desc[get(event.fd)] \in open /\ Receive(get(event.fd), now) /\ UNCHANGED object
    <3> DEFINE b == get(event.fd)
    <3>1. event.fd \in Fd /\ b = object[event.fd] /\ b \in Block
      BY <2>1, <1>t DEF get
    <3>2. Wild \notin open
      BY OpenFds DEF TypeOK
    <3>3. desc[b] = event.fd
      BY <3>1, <3>2, <2>1 DEF DescInv
    <3>4. \A c \in Block : /\ desc'[c] \in {desc[c], Wild}
                           /\ c \notin spoilt' => desc'[c] = desc[c] /\ (c = b \/ c \notin spoilt)
      BY <2>1, <3>1, <1>t DEF Receive, PoolOK
    <3> HIDE DEF b
    <3> SUFFICES ASSUME NEW f \in Fd, object[f] # Null
                 PROVE  desc'[object[f]] \in {f, Wild} /\ (object[f] \notin spoilt' => desc'[object[f]] = f)
      BY <2>1 DEF DescInv
    <3>5. object[f] = b => f = event.fd
      BY <3>1 DEF PoolInv
    <3> QED
      BY <3>1, <3>3, <3>4, <3>5, <1>t DEF DescInv
  <2> QED
    BY <2>1, <1>0, <1>2 DEF Recv, poolVars
<1>3. CASE Handle
  BY <1>3, <1>0 DEF Handle, Command
<1>4. CASE CloseRelease \/ TaskRelease
  BY <1>4, <1>0 DEF CloseRelease, TaskRelease, Release
<1>5. CASE Poll \/ NextEvent \/ Accept \/ AcceptFails \/ AddTimer \/ ModTimer \/ Close \/ DelSignal \/ Leave
  BY <1>5, <1>0 DEF Poll, NextEvent, Accept, AcceptFails, AddTimer, ModTimer, Close, DelSignal, Leave,
                    poolVars
<1>6. CASE DestroyTimers \/ TakeTimers \/ TimerTask \/ TaskClose \/ HandleTimers \/ Tick \/ Signal
  BY <1>6, <1>0 DEF DestroyTimers, TakeTimers, TimerTask, TaskClose, HandleTimers, Tick, Signal,
                    Thread, poolVars
<1>7. CASE UNCHANGED vars
  BY <1>7, <1>0 DEF vars, poolVars
<1> QED
  BY <1>1, <1>2, <1>3, <1>4, <1>5, <1>6, <1>7 DEF Named

LEMMA AcceptStep == TypeOK /\ AcceptOnce /\ [Next]_vars => AcceptOnce'
<1> SUFFICES ASSUME TypeOK, AcceptOnce, Named PROVE AcceptOnce'
  BY Steps
<1> USE DEF AcceptOnce
<1>0. ASSUME events' \subseteq events, accepted' = accepted, at' = "accept" => at = "accept"
      PROVE  AcceptOnce'
  BY <1>0
<1>1. CASE Poll
  BY <1>1, ReadyEvents DEF Poll, Goes, GoTo, fdVars
<1>2. CASE NextEvent
  <2>1. CASE \E e \in events : event' = e /\ events' = events \ {e} /\ GoTo(First[e.kind])
    <3>1. PICK e \in events : events' = events \ {e} /\ at' = First[e.kind]
      BY <2>1 DEF GoTo
    <3>2. at' = "accept" <=> e.kind = "accept"
      BY <3>1, EventPlaces DEF TypeOK
    <3>3. accepted' = accepted
      BY <1>2 DEF NextEvent, fdVars
    <3> QED
      BY <3>1, <3>2, <3>3
  <2>2. CASE GoTo("wait") /\ events' = {}
    BY <2>2 DEF GoTo
  <2> QED
    BY <2>1, <2>2, <1>2 DEF NextEvent
<1>3. CASE Accept
  BY <1>3 DEF Accept, GoTo
<1>4. CASE AcceptFails \/ Acquire \/ AddTimer \/ Recv \/ Handle \/ ModTimer \/ Close \/ CloseRelease
  BY <1>4, <1>0 DEF AcceptFails, Acquire, AddTimer, Recv, Handle, ModTimer, Close, CloseRelease,
                    Goes, GoTo, AfterClose, fdVars
<1>5. CASE DelSignal \/ Leave \/ DestroyTimers \/ Signal
  BY <1>5, <1>0 DEF DelSignal, Leave, DestroyTimers, Signal, Goes, GoTo, fdVars
<1>6. CASE TakeTimers \/ TimerTask \/ TaskClose \/ TaskRelease \/ HandleTimers \/ Tick
  BY <1>6, <1>0 DEF TakeTimers, TimerTask, TaskClose, TaskRelease, HandleTimers, Tick, Thread,
                    loopVars, fdVars
<1>7. CASE UNCHANGED vars
  BY <1>7, <1>0 DEF vars, loopVars, fdVars
<1> QED
  BY <1>1, <1>2, <1>3, <1>4, <1>5, <1>6, <1>7 DEF Named

LEMMA FdStep == TypeOK /\ FdInv /\ [Next]_vars => FdInv'
<1> SUFFICES ASSUME TypeOK, FdInv, [Next]_vars, Named PROVE FdInv'
  BY Steps
<1>a. AcceptOnce'
  BY AcceptStep DEF FdInv
<1>t. PoolOK /\ FdOK /\ accepted \in Nat
  BY FdIsNat DEF TypeOK, FdOK
<1>0. ASSUME UNCHANGED <<object, watched, accepted>>,
             UNCHANGED taskVars,
             at' \in {"acquire", "release"} => at' = at /\ event' = event
      PROVE  FdInv'
  BY <1>0, <1>a DEF FdInv, taskVars
<1>1. CASE Accept
  <2>1. accepted' = accepted + 1 /\ watched' = watched \cup {accepted + 1} /\ UNCHANGED <<object, taskVars>>
    BY <1>1 DEF Accept, poolVars
  <2>2. task = "release" => closing # accepted + 1
    BY <1>t, FdIsNat DEF FdInv
  <2>3. at' \in {"acquire", "add"} /\ (at' = "acquire" => event'.fd = accepted')
    BY <1>1 DEF Accept, GoTo, TypeOK, LoopOK, Event
  <2> QED
    BY <2>1, <2>2, <2>3, <1>a, <1>t, FdIsNat DEF FdInv, taskVars
<1>2. CASE Acquire
  <2>1. \A f \in Fd : object'[f] # object[f] => f = event.fd /\ object'[f] # Null
    BY <1>2, <1>t DEF Acquire, Construct, PoolOK, poolVars
  <2>2. event.fd = accepted /\ at' \in {"add", "undefined"} /\ UNCHANGED <<task, closing, watched, accepted>>
    BY <1>2 DEF Acquire, FdInv, GoTo, fdVars, taskVars
  <2>3. \A f \in Fd : object'[f] # Null => f <= accepted'
    BY <2>1, <2>2, <1>t, FdIsNat DEF FdInv
  <2>4. task' # "none" => closing' \in Fd /\ object'[closing'] # Null
    BY <2>1, <2>2 DEF FdInv
  <2> QED
    BY <2>2, <2>3, <2>4, <1>a DEF FdInv
<1>3. CASE Close
  BY <1>3, <1>0, <1>a DEF Close, get, GoTo, AfterClose, poolVars, FdInv, taskVars
<1>4. CASE CloseRelease
  BY <1>4, <1>a DEF CloseRelease, Release, Goes, GoTo, AfterClose, FdInv, taskVars
<1>5. CASE TimerTask
  BY <1>5, <1>a DEF TimerTask, Expired, get, FdInv, taskVars, poolVars, loopVars, fdVars
<1>6. CASE TaskClose \/ TaskRelease
  BY <1>6, <1>a DEF TaskClose, TaskRelease, Release, FdInv, poolVars, loopVars
<1>7. CASE NextEvent
  <2>1. \A e \in events : First[e.kind] \notin {"acquire", "release"}
    BY EventPlaces DEF TypeOK
  <2> QED
    BY <2>1, <1>7, <1>0 DEF NextEvent, GoTo, poolVars, fdVars
<1>8. CASE Poll \/ AcceptFails \/ AddTimer \/ Recv \/ Handle \/ ModTimer \/ DelSignal \/ Leave
  BY <1>8, <1>0 DEF Poll, AcceptFails, AddTimer, Recv, Handle, ModTimer, DelSignal, Leave,
                    Goes, GoTo, poolVars, fdVars
<1>9. CASE DestroyTimers \/ Signal \/ TakeTimers \/ HandleTimers \/ Tick
  BY <1>9, <1>0 DEF DestroyTimers, Signal, TakeTimers, HandleTimers, Tick, Thread, Goes, GoTo,
                    poolVars, loopVars, fdVars
<1>10. CASE UNCHANGED vars
  BY <1>10, <1>0 DEF vars, poolVars, loopVars, fdVars
<1> QED
  BY <1>1, <1>2, <1>3, <1>4, <1>5, <1>6, <1>7, <1>8, <1>9, <1>10 DEF Named

-----------------------------------------------------------------------------
(* The two threads and the timer service *)

\* Times of the past.
PastInv == sampled <= now /\ \A k \in DOMAIN batch : batch[k].expire <= now

ActiveInv == \A b \in Block : b \notin spoilt => active[b] \in 0 .. now

\* A close_conn of the clock thread is that of the callback it is in.
TaskInv == task = "close" => clock = "run" /\ batch # <<>> /\ Head(batch).id = closing

\* The main thread is in a mod_timer only for the event it handles, and handles
\* a request only of a connection that has an object.
CallInv ==
  /\ caller \in {"bumped", "read"} => at = "modify" /\ id = event.fd
  /\ at = "handle" => event.fd \in Fd /\ object[event.fd] # Null

\* A version that mod_timer increments or has read is not that of a deleted
\* timer, unless the connection is being closed.
VersionInv ==
  \A f \in Fd : (Intact(f) /\ ~Closing(f) /\ id = f) =>
    /\ caller = "bumped" => map[f] \in Nat \ {0}
    /\ caller = "read" => version # 0

\* A timer that is due no earlier than the connection times out: when its
\* callback finds the connection active, another such timer is there.
Covers(e, f) == e.id = f /\ e.expire >= active[object[f]] + TimeOut

Timed(f) ==
  \/ \E e \in queue : Covers(e, f) /\ e.version = map[f] /\ e.version # 0
  \/ \E k \in DOMAIN batch : Covers(batch[k], f)

Serving == at \notin Over /\ caller \in {"ready", "bumped", "read"}

TimedInv == Serving => \A f \in Fd : Intact(f) => Timed(f) \/ Closing(f) \/ Renewing(f)

\* Which steps change what the clock thread has, and what main's calls have.
ClockSteps == TakeTimers \/ TimerTask \/ TaskClose \/ HandleTimers
CallSteps == ModTimer \/ DestroyTimers

LEMMA ClockFrame == Named => UNCHANGED clockVars \/ ClockSteps
<1> SUFFICES ASSUME Named, ~ClockSteps PROVE UNCHANGED clockVars
  OBVIOUS
<1> USE DEF ClockSteps
<1>1. CASE AddTimer \/ ModTimer \/ Close
  BY <1>1 DEF AddTimer, ModTimer, Close, Add, Bump, ReadVersion, PushModified, Remove, timerVars, clockVars
<1>2. CASE DestroyTimers \/ Tick
  BY <1>2 DEF DestroyTimers, Tick, End, Clear, Stop, Join, Elapse
<1>3. CASE UNCHANGED timerVars
  BY <1>3 DEF timerVars, clockVars
<1>4. CASE Poll \/ NextEvent \/ Accept \/ AcceptFails \/ Acquire \/ Recv \/ Handle \/ CloseRelease
  BY <1>3, <1>4 DEF Poll, NextEvent, Accept, AcceptFails, Acquire, Recv, Handle, CloseRelease
<1>5. CASE DelSignal \/ Leave \/ TaskRelease \/ Signal \/ UNCHANGED vars
  BY <1>3, <1>5 DEF DelSignal, Leave, TaskRelease, Signal, vars
<1> QED
  BY <1>1, <1>2, <1>4, <1>5 DEF Named

LEMMA CallFrame == Named => UNCHANGED callVars \/ CallSteps
<1> SUFFICES ASSUME Named, ~CallSteps PROVE UNCHANGED callVars
  OBVIOUS
<1> USE DEF CallSteps
<1>1. CASE AddTimer \/ Tick
  BY <1>1 DEF AddTimer, Tick, Add, Elapse
<1>2. CASE Close
  BY <1>2 DEF Close, Remove, timerVars, callVars
<1>3. CASE UNCHANGED timerVars
  BY <1>3 DEF timerVars, callVars
<1>4. CASE Poll \/ NextEvent \/ Accept \/ AcceptFails \/ Acquire \/ Recv \/ Handle \/ CloseRelease
  BY <1>3, <1>4 DEF Poll, NextEvent, Accept, AcceptFails, Acquire, Recv, Handle, CloseRelease
<1>5. CASE DelSignal \/ Leave \/ TaskRelease \/ Signal \/ UNCHANGED vars
  BY <1>3, <1>5 DEF DelSignal, Leave, TaskRelease, Signal, vars
<1>6. CASE TakeTimers \/ HandleTimers
  BY <1>6 DEF TakeTimers, HandleTimers, Thread, Take, Pop, PopDone, RunDone, Exit
<1>7. CASE TimerTask \/ TaskClose
  BY <1>3, <1>7 DEF TimerTask, TaskClose, CallbackKeeps, CallbackDeletes, Return
<1> QED
  BY <1>1, <1>2, <1>4, <1>5, <1>6, <1>7 DEF Named

LEMMA PastStep == TimersOK /\ PastInv /\ [TimersNext]_timerVars => PastInv'
<1> SUFFICES ASSUME TimersOK, PastInv, [TimersNext]_timerVars PROVE PastInv'
  OBVIOUS
<1> USE DEF PastInv, TimersOK, timerVars, callVars, clockVars
<1>1. ASSUME NEW i \in Id, NEW delay \in Delay, Add(i, delay) PROVE PastInv'
  BY <1>1 DEF Add
<1>2. ASSUME NEW i \in Id, Bump(i) \/ Remove(i) PROVE PastInv'
  BY <1>2 DEF Bump, Remove
<1>3. ASSUME NEW delay \in Delay, PushModified(delay) PROVE PastInv'
  BY <1>3 DEF PushModified
<1>4. CASE ReadVersion \/ End \/ Clear \/ Stop \/ Join \/ Take \/ PopDone \/ RunDone \/ Exit
  BY <1>4 DEF ReadVersion, End, Clear, Stop, Join, Calls, Take, PopDone, RunDone, Exit
<1>5. CASE Elapse
  <2>1. \A k \in DOMAIN batch : batch[k].expire \in Nat
    <3>1. \A k \in DOMAIN batch : batch[k] \in Timer
      OBVIOUS
    <3> QED
      BY <3>1 DEF Timer
  <2> QED
    BY <1>5, <2>1 DEF Elapse
<1>6. ASSUME NEW e \in queue, Pop(e) PROVE PastInv'
  <2>1. e \in Timer /\ e.expire \in Nat /\ e.expire <= now
    BY <1>6 DEF Timer, Pop, DueBy
  <2>2. CASE batch' = Append(batch, e)
    BY <1>6, <2>1, <2>2 DEF Pop
  <2>3. CASE batch' = batch
    BY <1>6, <2>3 DEF Pop
  <2> QED
    BY <1>6, <2>2, <2>3 DEF Pop
<1>7. CASE CallbackKeeps \/ CallbackDeletes
  <2>1. batch # <<>> /\ batch' = Tail(batch) /\ UNCHANGED <<now, sampled>>
    BY <1>7 DEF CallbackKeeps, CallbackDeletes, Return
  <2>2. \A k \in DOMAIN batch' : k + 1 \in DOMAIN batch /\ batch'[k] = batch[k + 1]
    BY <2>1, HeadTailProperties
  <2> QED
    BY <2>1, <2>2
<1>8. CASE UNCHANGED timerVars
  BY <1>8
<1> QED
  BY <1>1, <1>2, <1>3, <1>4, <1>5, <1>6, <1>7, <1>8 DEF TimersNext

LEMMA ActiveStep == TypeOK /\ ActiveInv /\ [Next]_vars => ActiveInv'
<1> SUFFICES ASSUME TypeOK, ActiveInv, [Next]_vars, Named PROVE ActiveInv'
  BY Steps
<1> USE DEF ActiveInv
<1>t. now \in Nat /\ active \in [Block -> Int]
  BY DEF TypeOK, TimersOK, PoolOK
<1>n. now' = now \/ now' = now + 1
  <2>1. CASE UNCHANGED timerVars
    BY <2>1 DEF timerVars
  <2>2. CASE TimersNext
    BY <2>2 DEF TimersNext, Add, Bump, Remove, ReadVersion, PushModified, End, Clear, Stop, Join, Take, Pop,
                PopDone, CallbackKeeps, CallbackDeletes, Return, RunDone, Exit, Elapse
  <2> QED
    BY <2>1, <2>2, TimersStep DEF TypeOK
<1>1. CASE Acquire
  BY <1>1, <1>t, <1>n DEF Acquire, Construct, poolVars, timerVars
<1>2. CASE Recv
  BY <1>2, <1>t, <1>n DEF Recv, Receive, poolVars, timerVars
<1>3. CASE Handle
  BY <1>3, <1>t, <1>n DEF Handle, Command, timerVars
<1>4. CASE UNCHANGED <<active, spoilt>>
  BY <1>4, <1>t, <1>n
<1>5. CASE Poll \/ NextEvent \/ Accept \/ AcceptFails \/ AddTimer \/ ModTimer \/ Close \/ CloseRelease
  BY <1>4, <1>5 DEF Poll, NextEvent, Accept, AcceptFails, AddTimer, ModTimer, Close, CloseRelease,
                    Release, poolVars
<1>6. CASE DelSignal \/ Leave \/ DestroyTimers \/ Signal \/ TakeTimers \/ HandleTimers \/ Tick
  BY <1>4, <1>6 DEF DelSignal, Leave, DestroyTimers, Signal, TakeTimers, HandleTimers, Tick, Thread,
                    poolVars
<1>7. CASE TimerTask \/ TaskClose \/ TaskRelease \/ UNCHANGED vars
  BY <1>4, <1>7 DEF TimerTask, TaskClose, TaskRelease, Release, poolVars, vars
<1> QED
  BY <1>1, <1>2, <1>3, <1>5, <1>6, <1>7 DEF Named

LEMMA TaskStep == TypeOK /\ TaskInv /\ [Next]_vars => TaskInv'
<1> SUFFICES ASSUME TypeOK, TaskInv, Named PROVE TaskInv'
  BY Steps
<1> USE DEF TaskInv
<1>1. CASE ClockSteps
  BY <1>1 DEF ClockSteps, TakeTimers, TimerTask, TaskClose, HandleTimers, Thread, taskVars, timerVars
<1>2. ASSUME UNCHANGED clockVars, UNCHANGED taskVars PROVE TaskInv'
  BY <1>2 DEF clockVars, taskVars
<1>3. CASE TaskRelease
  BY <1>3 DEF TaskRelease
<1>4. ASSUME UNCHANGED clockVars, ~TaskRelease, ~ClockSteps PROVE TaskInv'
  <2>1. CASE Poll \/ NextEvent \/ Accept \/ AcceptFails \/ Acquire \/ Recv \/ Handle \/ CloseRelease
    BY <2>1, <1>2, <1>4 DEF Poll, NextEvent, Accept, AcceptFails, Acquire, Recv, Handle, CloseRelease
  <2>2. CASE AddTimer \/ ModTimer \/ Close \/ DelSignal \/ Leave \/ DestroyTimers \/ Tick \/ Signal
    BY <2>2, <1>2, <1>4 DEF AddTimer, ModTimer, Close, DelSignal, Leave, DestroyTimers, Tick, Signal
  <2>3. CASE UNCHANGED vars
    BY <2>3, <1>2, <1>4 DEF vars
  <2> QED
    BY <2>1, <2>2, <2>3, <1>4 DEF Named, ClockSteps
<1> QED
  BY <1>1, <1>3, <1>4, ClockFrame

LEMMA CallStep == TypeOK /\ CallInv /\ [Next]_vars => CallInv'
<1> SUFFICES ASSUME TypeOK, CallInv, Named PROVE CallInv'
  BY Steps
<1> USE DEF CallInv
<1>t. PoolOK
  BY DEF TypeOK
<1>0. ASSUME UNCHANGED callVars, UNCHANGED <<at, event, object>> PROVE CallInv'
  BY <1>0 DEF callVars
<1>1. ASSUME UNCHANGED callVars, at # "modify", at' # "handle" PROVE CallInv'
  BY <1>1 DEF callVars
<1>2. CASE ModTimer
  BY <1>2 DEF ModTimer, Bump, ReadVersion, PushModified, GoTo
<1>3. CASE Recv
  <2>1. UNCHANGED callVars /\ at = "recv" /\ UNCHANGED <<event, object>>
    BY <1>3 DEF Recv, poolVars, timerVars, callVars
  <2>2. at' = "handle" => get(event.fd) # Null
    BY <1>3 DEF Recv, GoTo
  <2> QED
    BY <2>1, <2>2 DEF get, callVars
<1>4. CASE DestroyTimers
  BY <1>4 DEF DestroyTimers, End, Clear, Stop, Join, Calls, GoTo, callVars
<1>5. CASE NextEvent
  <2>1. \A e \in events : First[e.kind] # "handle"
    BY EventPlaces DEF TypeOK
  <2> QED
    BY <2>1, <1>5, <1>1, CallFrame DEF NextEvent, GoTo, CallSteps, ModTimer, DestroyTimers
<1>6. CASE Poll \/ Accept \/ AcceptFails \/ Acquire \/ AddTimer \/ Handle \/ Close \/ CloseRelease
  <2>1. at # "modify" /\ at # "members" /\ at' # "handle"
    BY <1>6 DEF Poll, Accept, AcceptFails, Acquire, AddTimer, Handle, Close, CloseRelease, Goes, GoTo, AfterClose
  <2> QED
    BY <2>1, <1>1, CallFrame DEF CallSteps, ModTimer, DestroyTimers
<1>7. CASE DelSignal \/ Leave
  <2>1. at # "modify" /\ at # "members" /\ at' # "handle"
    BY <1>7 DEF DelSignal, Leave, Goes, GoTo
  <2> QED
    BY <2>1, <1>1, CallFrame DEF CallSteps, ModTimer, DestroyTimers
<1>8. CASE Signal
  BY <1>8 DEF Signal, Goes, GoTo, timerVars, callVars, poolVars
<1>9. CASE TakeTimers \/ HandleTimers \/ Tick \/ TimerTask \/ TaskClose \/ TaskRelease \/ UNCHANGED vars
  <2>1. UNCHANGED <<at, event, object>>
    BY <1>9 DEF TakeTimers, HandleTimers, Tick, TimerTask, TaskClose, TaskRelease, Release, Thread, vars,
                poolVars, loopVars
  <2>2. UNCHANGED callVars
    BY <1>9, CallFrame DEF CallSteps, ModTimer, DestroyTimers, TakeTimers, HandleTimers, Tick, TimerTask,
                TaskClose, TaskRelease, Thread, vars, timerVars, callVars, Take, Pop, PopDone, RunDone, Exit,
                Elapse, CallbackKeeps, CallbackDeletes, Return
  <2> QED
    BY <2>1, <2>2, <1>0
<1> QED
  BY <1>2, <1>3, <1>4, <1>5, <1>6, <1>7, <1>8, <1>9 DEF Named

-----------------------------------------------------------------------------
(* Versions *)

LEMMA VersionStep ==
  TypeOK /\ DescInv /\ TaskInv /\ CallInv /\ VersionInv /\ [Next]_vars => VersionInv'
<1> SUFFICES ASSUME TypeOK, DescInv, TaskInv, CallInv, VersionInv, [Next]_vars, Named,
                    NEW f \in Fd, Intact(f)', ~Closing(f)', id' = f,
                    caller' \in {"bumped", "read"}
             PROVE  /\ caller' = "bumped" => map'[f] \in Nat \ {0}
                    /\ caller' = "read" => version' # 0
  BY Steps DEF VersionInv
<1>t. TimersOK /\ f \in Id
  BY FdIsNat DEF TypeOK
<1>1. CASE ModTimer
  <2>1. CASE Bump(event.fd)
    BY <2>1, <1>t DEF Bump, TimersOK
  <2>2. CASE ReadVersion
    <3>1. UNCHANGED <<at, event, object, spoilt, open, task, closing>>
      BY <2>2, <1>1 DEF ModTimer, ReadVersion, Bump, PushModified, poolVars, fdVars, taskVars
    <3>2. Intact(f) /\ ~Closing(f) /\ id = f /\ caller = "bumped"
      BY <3>1, <2>2 DEF ReadVersion, Intact, Served, Closing
    <3>3. map[f] \in Nat \ {0}
      BY <3>2 DEF VersionInv
    <3> QED
      BY <3>2, <3>3, <2>2, <1>t DEF ReadVersion, TimersOK
  <2>3. CASE PushModified(TimeOut)
    BY <2>3 DEF PushModified
  <2> QED
    BY <2>1, <2>2, <2>3, <1>1 DEF ModTimer
<1>2. CASE DestroyTimers
  BY <1>2 DEF DestroyTimers, End, Clear, Stop, Join, Calls, callVars
<1>3. ASSUME UNCHANGED callVars PROVE at = "modify" /\ caller = caller' /\ version' = version /\ id = f
  BY <1>3 DEF CallInv, callVars
<1>4. ASSUME UNCHANGED <<callVars, at, event, object, spoilt>>, UNCHANGED taskVars,
             open' = open, map'[f] = map[f] \/ map[f] \notin Nat \ {0}
      PROVE  /\ caller' = "bumped" => map'[f] \in Nat \ {0}
             /\ caller' = "read" => version' # 0
  BY <1>4 DEF callVars, taskVars, VersionInv, Intact, Served, Closing
<1>5. CASE TakeTimers \/ Tick \/ UNCHANGED vars
  BY <1>5, <1>4 DEF TakeTimers, Tick, Thread, Take, Elapse, vars, poolVars, loopVars, fdVars, timerVars, callVars
<1>6. CASE HandleTimers
  <2>1. UNCHANGED <<callVars, at, event, object, spoilt>> /\ UNCHANGED taskVars /\ open' = open
    BY <1>6 DEF HandleTimers, Thread, Pop, PopDone, RunDone, Exit, poolVars, loopVars, fdVars
  <2>2. map'[f] = map[f] \/ map[f] \notin Nat \ {0}
    <3>1. CASE PopDone \/ RunDone \/ Exit
      BY <3>1 DEF PopDone, RunDone, Exit
    <3>2. ASSUME NEW e \in queue, Pop(e) PROVE map'[f] = map[f] \/ map[f] \notin Nat \ {0}
      BY <3>2, <1>t DEF Pop, Stale, TimersOK
    <3> QED
      BY <3>1, <3>2, <1>6 DEF HandleTimers, Thread
  <2> QED
    BY <2>1, <2>2, <1>4
<1>7. CASE TimerTask
  <2>1. UNCHANGED <<callVars, map, at, event, object, spoilt, open>>
    BY <1>7 DEF TimerTask, CallbackKeeps, Return, timerVars, callVars, poolVars, loopVars, fdVars
  <2>2. Intact(f) /\ ~Closing(f) /\ id = f
    BY <2>1, <1>7 DEF TimerTask, Intact, Served, Closing, taskVars, callVars
  <2> QED
    BY <2>1, <2>2 DEF VersionInv, callVars
<1>8. CASE TaskClose
  <2>1. UNCHANGED <<callVars, at, event, object, spoilt, open>> /\ task = "close" /\ task' = "release" /\ closing' = closing
    BY <1>8 DEF TaskClose, CallbackDeletes, Return, poolVars, loopVars, taskVars
  <2>2. closing # f
    BY <2>1 DEF Closing
  <2>3. Intact(f) /\ ~Closing(f) /\ id = f
    BY <2>1, <2>2 DEF Intact, Served, Closing, callVars
  <2>4. map'[f] = map[f]
    BY <2>1, <2>2, <1>8, <1>t DEF TaskClose, CallbackDeletes, Delete, TaskInv, TimersOK
  <2> QED
    BY <2>1, <2>3, <2>4 DEF VersionInv, callVars
<1>9. CASE TaskRelease
  <2>1. /\ UNCHANGED <<callVars, map, at, event, object, spoilt>> /\ task = "release"
        /\ open' = open \ {desc[object[closing]]}
    BY <1>9 DEF TaskRelease, Release, timerVars, callVars, loopVars
  <2>2. Intact(f) /\ f # closing
    BY <2>1 DEF Intact, Served, DescInv
  <2>3. ~Closing(f) /\ id = f
    BY <2>1, <2>2 DEF Closing, callVars
  <2> QED
    BY <2>1, <2>2, <2>3 DEF VersionInv, callVars
<1>10. CASE Poll \/ NextEvent \/ Accept \/ AcceptFails \/ Acquire \/ AddTimer \/ Recv \/ Handle
  <2>1. at # "modify" /\ at # "members"
    BY <1>10 DEF Poll, NextEvent, Accept, AcceptFails, Acquire, AddTimer, Recv, Handle, Goes
  <2> QED
    BY <2>1, <1>3, CallFrame DEF CallSteps, ModTimer, DestroyTimers
<1>11. CASE Close \/ CloseRelease \/ DelSignal \/ Leave
  <2>1. at # "modify" /\ at # "members"
    BY <1>11 DEF Close, CloseRelease, DelSignal, Leave, Goes
  <2> QED
    BY <2>1, <1>3, CallFrame DEF CallSteps, ModTimer, DestroyTimers
<1>12. CASE Signal
  <2>1. UNCHANGED callVars /\ (at' = at \/ at = "pipe closed")
    BY <1>12 DEF Signal, Goes, timerVars, callVars
  <2>2. at' = at
    BY <2>1, <1>3
  <2> QED
    BY <2>1, <2>2, <1>4, <1>12 DEF Signal, timerVars, poolVars, fdVars
<1> QED
  BY <1>1, <1>2, <1>5, <1>6, <1>7, <1>8, <1>9, <1>10, <1>11, <1>12 DEF Named

-----------------------------------------------------------------------------
(* Every connection has its timer *)

LEMMA ServingBack == Named /\ Serving' => Serving
<1> SUFFICES ASSUME Named, Serving' PROVE Serving
  OBVIOUS
<1>1. caller \in {"ready", "bumped", "read"}
  <2>1. CASE UNCHANGED callVars
    BY <2>1 DEF callVars, Serving
  <2>2. CASE ModTimer
    BY <2>2 DEF ModTimer, Bump, ReadVersion, PushModified
  <2>3. CASE DestroyTimers
    BY <2>3 DEF DestroyTimers, End, Clear, Stop, Join, Calls, callVars, Serving
  <2> QED
    BY <2>1, <2>2, <2>3, CallFrame DEF CallSteps
<1>2. at \notin Over
  <2>1. CASE at' = at
    BY <2>1 DEF Serving
  <2>2. CASE Poll \/ NextEvent \/ Accept \/ AcceptFails \/ Acquire \/ AddTimer \/ Recv \/ Handle \/ ModTimer
    BY <2>2 DEF Poll, NextEvent, Accept, AcceptFails, Acquire, AddTimer, Recv, Handle, ModTimer, Goes, Over
  <2>3. CASE Close \/ CloseRelease \/ DelSignal \/ Leave \/ DestroyTimers \/ Signal
    BY <2>3 DEF Close, CloseRelease, DelSignal, Leave, DestroyTimers, Signal, Goes, Over
  <2>4. CASE TakeTimers \/ TimerTask \/ TaskClose \/ TaskRelease \/ HandleTimers \/ Tick \/ UNCHANGED vars
    BY <2>1, <2>4 DEF TakeTimers, TimerTask, TaskClose, TaskRelease, HandleTimers, Tick, Thread, vars, loopVars
  <2> QED
    BY <2>2, <2>3, <2>4 DEF Named
<1> QED
  BY <1>1, <1>2 DEF Serving

\* A timer that covers f goes on covering it.
LEMMA TimedStays ==
  ASSUME TypeOK, NEW f \in Fd, Timed(f), object[f] \in Block, object'[f] = object[f],
         active'[object[f]] \in Int, active'[object[f]] <= active[object[f]],
         map'[f] = map[f], queue \subseteq queue', batch' = batch
  PROVE  Timed(f)'
<1>1. \A e \in Timer : Covers(e, f) => e.id = f /\ e.expire >= active'[object'[f]] + TimeOut
  BY FdIsNat DEF Covers, TypeOK, PoolOK, Timer
<1>2. CASE \E e \in queue : Covers(e, f) /\ e.version = map[f] /\ e.version # 0
  BY <1>1, <1>2 DEF TypeOK, TimersOK, Timed, Covers
<1>3. CASE \E k \in DOMAIN batch : Covers(batch[k], f)
  <2>1. \A k \in DOMAIN batch : batch[k] \in Timer
    BY DEF TypeOK, TimersOK
  <2> QED
    BY <1>1, <1>3, <2>1 DEF Timed, Covers
<1> QED
  BY <1>2, <1>3 DEF Timed

\* A timer that is pushed for f covers it.
LEMMA PushedCovers ==
  ASSUME TypeOK, ActiveInv, NEW f \in Fd, object[f] \in Block \ spoilt, object' = object, active' = active,
         NEW v \in Nat \ {0}, Push(f, TimeOut, v)
  PROVE  Timed(f)'
<1> DEFINE e == [n |-> pushed + 1, id |-> f, expire |-> now + TimeOut, version |-> v]
<1>1. e \in queue' /\ map'[f] = v
  BY FdIsNat DEF Push, TypeOK, TimersOK
<1>2. e.expire >= active[object[f]] + TimeOut
  BY FdIsNat DEF ActiveInv, TypeOK, TimersOK, PoolOK
<1> QED
  BY <1>1, <1>2 DEF Timed, Covers

\* A push for another id does not matter.
LEMMA PushOther ==
  ASSUME TypeOK, NEW f \in Fd, Timed(f), object[f] \in Block, object' = object, active' = active,
         batch' = batch, NEW i, i # f, NEW v, Push(i, TimeOut, v)
  PROVE  Timed(f)'
<1>1. map'[f] = map[f] /\ queue \subseteq queue'
  BY FdIsNat DEF Push, TypeOK, TimersOK
<1>2. active[object[f]] \in Int
  BY DEF TypeOK, PoolOK
<1> QED
  BY <1>1, <1>2, TimedStays

IInv ==
  /\ TypeOK /\ PoolInv /\ FdInv
  /\ DescInv /\ PastInv /\ ActiveInv /\ TaskInv /\ CallInv
  /\ VersionInv /\ TimedInv

\* Goal(f) is what has to be shown after each kind of step.
Goal(f) == Timed(f) \/ Closing(f) \/ Renewing(f)

LEMMA TimedStep == IInv /\ [Next]_vars => TimedInv'
<1> SUFFICES ASSUME IInv, Named, Serving', NEW f \in Fd, Intact(f)' PROVE Goal(f)'
  BY Steps DEF TimedInv, Goal
<1> USE DEF IInv
<1>s. Serving
  BY ServingBack
<1>t. PoolOK /\ TimersOK /\ LoopOK /\ f \in Id
  BY FdIsNat DEF TypeOK
<1>g. ASSUME Intact(f) PROVE Goal(f) /\ object[f] \in Block \ spoilt
  BY <1>g, <1>s, <1>t DEF TimedInv, Goal, Intact, Served, PoolOK
<1>0. ASSUME UNCHANGED timerVars, UNCHANGED <<object, active, spoilt>>, Intact(f),
             Closing(f) => Closing(f)', Renewing(f) => Renewing(f)'
      PROVE  Goal(f)'
  <2>1. Timed(f) => Timed(f)'
    BY <1>0 DEF Timed, Covers, timerVars
  <2> QED
    BY <1>0, <1>g, <2>1 DEF Goal
<1>1. CASE Poll \/ NextEvent \/ DelSignal \/ Leave
  <2>1. UNCHANGED timerVars /\ UNCHANGED <<object, active, spoilt>> /\ UNCHANGED <<open, task, closing>>
    BY <1>1 DEF Poll, NextEvent, DelSignal, Leave, poolVars, fdVars, taskVars
  <2>2. at \notin {"close", "release", "add", "handle", "modify"}
    BY <1>1 DEF Poll, NextEvent, DelSignal, Leave, Goes
  <2> QED
    BY <2>1, <2>2, <1>0 DEF Intact, Served, Closing, Renewing
<1>2. CASE Accept \/ AcceptFails
  <2>1. UNCHANGED timerVars /\ UNCHANGED <<object, active, spoilt>> /\ UNCHANGED <<task, closing>> /\ at = "accept"
    BY <1>2 DEF Accept, AcceptFails, Goes, poolVars, taskVars
  <2>2. Intact(f)
    <3>1. f \in open' /\ object[f] # Null
      BY <2>1 DEF Intact, Served
    <3>2. f <= accepted /\ accepted \in Nat
      BY <3>1, FdIsNat DEF FdInv, TypeOK, FdOK
    <3> QED
      BY <3>1, <3>2, <2>1, <1>2, FdIsNat DEF Accept, AcceptFails, fdVars, Intact, Served
  <2> QED
    BY <2>1, <2>2, <1>0 DEF Closing, Renewing
<1>3. CASE Acquire
  <2>1. CASE block \in Block /\ Construct(block, event.fd, now) /\ GoTo("add")
    <3>1. UNCHANGED timerVars /\ event' = event /\ UNCHANGED <<open, task, closing>> /\ at = "acquire"
      BY <1>3 DEF Acquire, fdVars, taskVars
    <3>2. CASE f = event.fd
      BY <3>1, <3>2, <2>1 DEF Goal, Renewing, GoTo
    <3>3. CASE f # event.fd
      <4>1. object'[f] = object[f]
        BY <3>3, <2>1, <1>t DEF Construct, PoolOK
      <4>3. object[f] # Null /\ object[f] # block
        BY <4>1, <2>1, <3>1 DEF PoolInv, Below, Block, Intact, Served
      <4>2. Intact(f)
        BY <4>1, <4>3, <3>1, <2>1 DEF Intact, Served, Construct
      <4>a. active[object[f]] \in 0 .. now
        BY <4>2, <1>g DEF ActiveInv
      <4>4. active'[object[f]] \in Int /\ active'[object[f]] <= active[object[f]]
        BY <4>2, <4>3, <4>a, <2>1, <1>g, <1>t DEF Construct, PoolOK, TimersOK
      <4>5. Timed(f) => Timed(f)'
        BY <4>1, <4>2, <4>4, <3>1, <1>g, TimedStays DEF timerVars
      <4>6. Closing(f) => Closing(f)'
        BY <3>1 DEF Closing
      <4> QED
        BY <4>2, <4>5, <4>6, <3>1, <1>g DEF Goal, Renewing
    <3> QED
      BY <3>2, <3>3
  <2>2. CASE GoTo("undefined")
    BY <2>2 DEF Serving, GoTo, Over
  <2> QED
    BY <2>1, <2>2, <1>3 DEF Acquire
<1>4. CASE AddTimer
  <2>1. /\ at = "add" /\ Push(event.fd, TimeOut, 1) /\ batch' = batch
        /\ UNCHANGED <<object, active, spoilt, open, task, closing>>
    BY <1>4 DEF AddTimer, Add, Goes, clockVars, poolVars, fdVars, taskVars
  <2>2. Intact(f)
    BY <2>1 DEF Intact, Served
  <2>3. CASE f = event.fd
    BY <2>1, <2>2, <2>3, <1>g, PushedCovers DEF Goal
  <2>4. CASE f # event.fd
    <3>1. Timed(f) => Timed(f)'
      BY <2>1, <2>2, <2>4, <1>g, PushOther
    <3>2. Closing(f) => Closing(f)'
      BY <2>1 DEF Closing
    <3> QED
      BY <3>1, <3>2, <2>1, <2>2, <2>4, <1>g DEF Goal, Renewing
  <2> QED
    BY <2>3, <2>4
<1>5. CASE Recv
  <2>1. UNCHANGED timerVars /\ UNCHANGED <<object, event, open, task, closing>> /\ at = "recv"
    BY <1>5 DEF Recv, poolVars, fdVars, taskVars
  <2>2. Served(f) /\ object[f] \in Block
    BY <2>1, <1>t DEF Intact, Served, PoolOK
  <2>3. CASE f = event.fd
    <3>1. get(event.fd) # Null
      BY <2>2, <2>3 DEF get, Served
    <3>2. at' \in {"handle", "close"}
      BY <3>1, <1>5 DEF Recv, GoTo
    <3> QED
      BY <3>2, <2>1, <2>3 DEF Goal, Closing, Renewing
  <2>4. CASE f # event.fd
    <3>1. active'[object[f]] = active[object[f]] /\ Intact(f)
      <4>1. ASSUME get(event.fd) # Null PROVE event.fd \in Fd /\ get(event.fd) = object[event.fd]
        BY <4>1 DEF get
      <4>2. get(event.fd) # Null => get(event.fd) # object[f]
        BY <4>1, <2>2, <2>4 DEF PoolInv, Served
      <4>3. CASE UNCHANGED poolVars
        BY <4>3, <2>1 DEF poolVars, Intact, Served
      <4>4. CASE get(event.fd) # Null /\ Receive(get(event.fd), now)
        <5>1. object[f] \notin spoilt'
          BY <2>1 DEF Intact
        <5> QED
          BY <4>2, <4>4, <5>1, <2>2, <1>t DEF Receive, PoolOK, Intact
      <4> QED
        BY <4>3, <4>4, <1>5 DEF Recv
    <3>2. active[object[f]] \in Int
      BY <2>2, <1>t DEF PoolOK
    <3>3. Timed(f) => Timed(f)'
      BY <3>1, <3>2, <2>1, <2>2, <1>g, TimedStays DEF timerVars
    <3>4. Closing(f) => Closing(f)'
      BY <2>1 DEF Closing
    <3> QED
      BY <3>1, <3>3, <3>4, <2>1, <1>g DEF Goal, Renewing
  <2> QED
    BY <2>3, <2>4
<1>6. CASE Handle
  <2>1. UNCHANGED timerVars /\ UNCHANGED <<object, event, open, task, closing>> /\ at = "handle"
    BY <1>6 DEF Handle, fdVars, taskVars
  <2>2. Intact(f) /\ event.fd \in Fd /\ object[event.fd] \in Block
    <3>1. spoilt \subseteq spoilt'
      BY <1>6 DEF Handle, Command
    <3> QED
      BY <3>1, <2>1, <1>t DEF Intact, Served, CallInv, PoolOK
  <2>a. active[object[f]] \in 0 .. now /\ object[f] \notin spoilt'
    BY <2>1, <2>2, <1>g DEF ActiveInv, Intact
  <2>3. at' = "modify"
    BY <1>6 DEF Handle, GoTo, Serving, Over
  <2>4. CASE f = event.fd
    BY <2>1, <2>3, <2>4 DEF Goal, Renewing
  <2>5. CASE f # event.fd
    <3>1. object[f] # object[event.fd]
      BY <2>2, <2>5 DEF PoolInv, Intact, Served
    <3>2. active'[object[f]] \in Int /\ active'[object[f]] <= active[object[f]]
      <4>1. CASE UNCHANGED active \/ active' = [active EXCEPT ![object[event.fd]] = now]
        BY <4>1, <3>1, <2>a, <2>2, <1>g, <1>t DEF PoolOK, TimersOK
      <4>2. CASE Command(object[event.fd], now)
        BY <4>2, <3>1, <2>a, <2>2, <1>g, <1>t DEF Command, PoolOK, TimersOK
      <4> QED
        BY <4>1, <4>2, <1>6 DEF Handle
    <3>3. Timed(f) => Timed(f)'
      BY <3>2, <2>1, <2>2, <1>g, TimedStays DEF timerVars
    <3>4. Closing(f) => Closing(f)'
      BY <2>1 DEF Closing
    <3> QED
      BY <3>3, <3>4, <2>1, <2>2, <2>5, <1>g DEF Goal, Renewing
  <2> QED
    BY <2>4, <2>5
<1>7. CASE ModTimer
  <2>1. UNCHANGED <<object, active, spoilt, event, open, task, closing>> /\ at = "modify"
    BY <1>7 DEF ModTimer, poolVars, fdVars, taskVars
  <2>2. Intact(f) /\ (Closing(f) => Closing(f)')
    BY <2>1 DEF Intact, Served, Closing
  <2>a. active[object[f]] \in Int /\ object[f] \in Block \ spoilt
    BY <2>2, <1>g, <1>t DEF PoolOK
  <2>3. CASE (Bump(event.fd) \/ ReadVersion) /\ UNCHANGED at
    <3>1. CASE f = event.fd
      BY <3>1, <2>1, <2>3 DEF Goal, Renewing
    <3>2. CASE f # event.fd
      <4>1. map'[f] = map[f] /\ queue' = queue /\ batch' = batch
        BY <3>2, <2>3, <1>t DEF Bump, ReadVersion, CallInv, TimersOK, clockVars
      <4>2. Timed(f) => Timed(f)'
        BY <4>1, <2>1, <2>a, TimedStays
      <4> QED
        BY <4>2, <3>2, <2>1, <2>2, <1>g DEF Goal, Renewing
    <3> QED
      BY <3>1, <3>2
  <2>4. CASE PushModified(TimeOut)
    <3>1. caller = "read" /\ Push(id, TimeOut, version) /\ batch' = batch /\ id = event.fd
      BY <2>4 DEF PushModified, clockVars, CallInv
    <3>2. CASE f = event.fd
      <4>1. CASE Closing(f)
        BY <4>1, <2>2 DEF Goal
      <4>2. CASE ~Closing(f)
        <5>1. version \in Nat \ {0}
          BY <4>2, <3>1, <3>2, <2>2, <1>t DEF VersionInv, TimersOK
        <5> QED
          BY <5>1, <3>1, <3>2, <2>1, <2>a, PushedCovers DEF Goal
      <4> QED
        BY <4>1, <4>2
    <3>3. CASE f # event.fd
      <4>1. Timed(f) => Timed(f)'
        BY <3>1, <3>3, <2>1, <2>a, PushOther
      <4> QED
        BY <4>1, <3>3, <2>1, <2>2, <1>g DEF Goal, Renewing
    <3> QED
      BY <3>2, <3>3
  <2> QED
    BY <2>3, <2>4, <1>7 DEF ModTimer
<1>8. CASE Close
  <2>1. UNCHANGED <<object, active, spoilt, event, open, task, closing>> /\ at = "close"
    BY <1>8 DEF Close, poolVars, taskVars
  <2>2. Intact(f)
    BY <2>1 DEF Intact, Served
  <2>3. CASE f = event.fd
    <3>1. at' = "release"
      BY <1>8, <2>2, <2>3 DEF Close, get, Intact, Served, GoTo
    <3> QED
      BY <3>1, <2>1, <2>3 DEF Goal, Closing
  <2>4. CASE f # event.fd
    <3>1. map'[f] = map[f] /\ queue' = queue /\ batch' = batch
      BY <2>4, <1>8, <1>t DEF Close, Remove, Delete, TimersOK, timerVars, clockVars
    <3>2. active[object[f]] \in Int
      BY <2>2, <1>g, <1>t DEF PoolOK
    <3>3. Timed(f) => Timed(f)'
      BY <3>1, <3>2, <2>1, <2>2, <1>g, TimedStays
    <3> QED
      BY <3>3, <2>1, <2>2, <2>4, <1>g DEF Goal, Closing, Renewing
  <2> QED
    BY <2>3, <2>4
<1>9. CASE CloseRelease
  <2>1. UNCHANGED timerVars /\ UNCHANGED <<object, active, spoilt, task, closing>> /\ at = "release"
        /\ open' = open \ {desc[object[event.fd]]}
    BY <1>9 DEF CloseRelease, Release, Goes, taskVars
  <2>2. Intact(f) /\ f # event.fd
    BY <2>1 DEF Intact, Served, DescInv
  <2> QED
    BY <2>1, <2>2, <1>0 DEF Closing, Renewing
<1>10. CASE DestroyTimers
  BY <1>10, <1>s DEF DestroyTimers, End, Clear, Stop, Join, Calls, Serving, callVars
<1>11. CASE TakeTimers
  <2>1. /\ UNCHANGED <<queue, map, batch>> /\ UNCHANGED <<object, active, spoilt>>
        /\ UNCHANGED <<at, event, open, task, closing>>
    BY <1>11 DEF TakeTimers, Thread, Take, poolVars, loopVars, fdVars, taskVars
  <2>2. Timed(f) => Timed(f)'
    BY <2>1 DEF Timed, Covers
  <2> QED
    BY <2>1, <2>2, <1>g DEF Goal, Closing, Renewing, Intact, Served
<1>12. CASE TimerTask
  <2>1. UNCHANGED <<queue, map, object, active, spoilt, at, event, open>> /\ task = "none" /\ batch # <<>>
    BY <1>12 DEF TimerTask, CallbackKeeps, Return, poolVars, loopVars, fdVars, timerVars
  <2>2. Intact(f) /\ (Renewing(f) => Renewing(f)') /\ (Closing(f) => Closing(f)')
    BY <2>1 DEF Intact, Served, Closing, Renewing
  <2>3. CASE ~Expired(Head(batch).id) /\ CallbackKeeps
    <3>1. batch' = Tail(batch)
      BY <2>3 DEF CallbackKeeps, Return
    <3>2. \A k \in DOMAIN batch : k # 1 => k - 1 \in DOMAIN batch' /\ batch'[k - 1] = batch[k]
      BY <3>1, <2>1, HeadTailProperties DEF TimersOK, TypeOK
    <3>3. ~Covers(batch[1], f)
      <4>1. SUFFICES ASSUME Covers(batch[1], f) PROVE FALSE
        OBVIOUS
      <4>2. Head(batch) = batch[1] /\ 1 \in DOMAIN batch /\ batch[1] \in Timer
        BY <2>1, <1>t, HeadTailProperties DEF TimersOK
      <4>3. batch[1].expire <= now /\ batch[1].expire \in Nat
        BY <4>2 DEF PastInv, Timer
      <4>4. get(f) = object[f] /\ get(f) # Null /\ active[object[f]] \in Int
        BY <2>2, <1>g, <1>t DEF get, Intact, Served, PoolOK
      <4>5. active[object[f]] + TimeOut > now
        BY <4>1, <4>2, <4>4, <2>3, <1>t, FdIsNat DEF Expired, Covers, TimersOK
      <4> QED
        BY <4>1, <4>3, <4>4, <4>5, <1>t, FdIsNat DEF Covers, TimersOK
    <3>4. Timed(f) => Timed(f)'
      BY <3>2, <3>3, <2>1 DEF Timed, Covers
    <3> QED
      BY <3>4, <2>2, <1>g DEF Goal
  <2>4. CASE UNCHANGED timerVars
    BY <2>1, <2>2, <2>4, <1>0
  <2> QED
    BY <2>3, <2>4, <1>12 DEF TimerTask
<1>13. CASE TaskClose
  <2>1. /\ UNCHANGED <<queue, object, active, spoilt, at, event, open, closing>>
        /\ task = "close" /\ task' = "release" /\ batch # <<>> /\ batch' = Tail(batch)
    BY <1>13 DEF TaskClose, CallbackDeletes, Return, poolVars, loopVars
  <2>2. Intact(f)
    BY <2>1 DEF Intact, Served
  <2>3. CASE f = closing
    BY <2>1, <2>3 DEF Goal, Closing
  <2>4. CASE f # closing
    <3>1. Head(batch).id = closing /\ Head(batch) = batch[1]
      BY <2>1, HeadTailProperties DEF TaskInv
    <3>2. map'[f] = map[f]
      BY <3>1, <2>4, <1>13, <1>t DEF TaskClose, CallbackDeletes, Delete, TimersOK
    <3>3. \A k \in DOMAIN batch : k # 1 => k - 1 \in DOMAIN batch' /\ batch'[k - 1] = batch[k]
      BY <2>1, HeadTailProperties DEF TimersOK, TypeOK
    <3>4. Timed(f) => Timed(f)'
      BY <3>1, <3>2, <3>3, <2>1, <2>4 DEF Timed, Covers
    <3> QED
      BY <3>4, <2>1, <2>2, <2>4, <1>g DEF Goal, Closing, Renewing
  <2> QED
    BY <2>3, <2>4
<1>14. CASE TaskRelease
  <2>1. UNCHANGED timerVars /\ UNCHANGED <<object, active, spoilt, at, event>>
        /\ open' = open \ {desc[object[closing]]}
    BY <1>14 DEF TaskRelease, Release, loopVars
  <2>2. Intact(f) /\ f # closing
    BY <2>1 DEF Intact, Served, DescInv
  <2> QED
    BY <2>1, <2>2, <1>0 DEF Closing, Renewing
<1>15. CASE HandleTimers
  <2>1. UNCHANGED <<object, active, spoilt, at, event, open, task, closing>>
    BY <1>15 DEF HandleTimers, Thread, poolVars, loopVars, fdVars, taskVars
  <2>2. Intact(f)
    BY <2>1 DEF Intact, Served
  <2>3. Timed(f) => Timed(f)'
    <3>1. CASE PopDone \/ RunDone \/ Exit
      BY <3>1, <2>1 DEF PopDone, RunDone, Exit, Timed, Covers
    <3>2. ASSUME NEW e \in queue, Pop(e), Timed(f) PROVE Timed(f)'
      <4>1. e \in Timer /\ e.version \in Nat /\ e.id \in Id /\ batch \in Seq(Timer)
        BY <1>t DEF TimersOK, Timer
      <4>2. \A k \in DOMAIN batch : k \in DOMAIN batch' /\ batch'[k] = batch[k]
        BY <3>2, <4>1 DEF Pop
      <4>3. CASE \E k \in DOMAIN batch : Covers(batch[k], f)
        BY <4>2, <4>3, <2>1 DEF Timed, Covers
      <4>4. ASSUME NEW d \in queue, Covers(d, f), d.version = map[f], d.version # 0
            PROVE  Timed(f)'
        <5>1. CASE d = e
          <6>1. ~Stale(e)
            BY <5>1, <4>4 DEF Stale, Covers
          <6>2. batch' = Append(batch, e)
            BY <6>1, <5>1, <4>4, <3>2 DEF Pop
          <6>3. Len(batch) + 1 \in DOMAIN batch' /\ batch'[Len(batch) + 1] = e
            BY <6>2, <4>1
          <6> QED
            BY <6>3, <5>1, <4>4, <2>1 DEF Timed, Covers
        <5>2. CASE d # e
          <6>1. d \in queue'
            BY <5>2, <3>2 DEF Pop
          <6>2. map'[f] = map[f]
            <7>1. d.version \in Nat
              BY <1>t DEF TimersOK, Timer
            <7>2. ASSUME ~Stale(e), e.version = 0 PROVE e.id # f
              BY <7>1, <7>2, <4>4 DEF Stale
            <7> QED
              BY <7>2, <3>2, <4>1, <1>t DEF Pop, TimersOK
          <6> QED
            BY <6>1, <6>2, <4>4, <2>1 DEF Timed, Covers
        <5> QED
          BY <5>1, <5>2
      <4> QED
        BY <4>3, <4>4, <3>2 DEF Timed
    <3> QED
      BY <3>1, <3>2, <1>15 DEF HandleTimers, Thread
  <2> QED
    BY <2>1, <2>2, <2>3, <1>g DEF Goal, Closing, Renewing
<1>16. CASE Tick
  <2>1. UNCHANGED <<queue, map, batch, object, active, spoilt>> /\ UNCHANGED <<at, event, open, task, closing>>
    BY <1>16 DEF Tick, Elapse, clockVars, poolVars, loopVars, fdVars, taskVars
  <2>2. Timed(f) => Timed(f)'
    BY <2>1 DEF Timed, Covers
  <2> QED
    BY <2>1, <2>2, <1>g DEF Goal, Closing, Renewing, Intact, Served
<1>17. CASE Signal
  <2>1. UNCHANGED timerVars /\ UNCHANGED <<object, active, spoilt>> /\ UNCHANGED <<event, open, task, closing>>
        /\ (at' = at \/ at = "pipe closed")
    BY <1>17 DEF Signal, Goes, poolVars, fdVars, taskVars
  <2> QED
    BY <2>1, <1>0 DEF Intact, Served, Closing, Renewing
<1>18. CASE UNCHANGED vars
  <2>1. UNCHANGED timerVars /\ UNCHANGED <<object, active, spoilt>> /\ UNCHANGED <<at, event, open, task, closing>>
    BY <1>18 DEF vars, poolVars, loopVars, fdVars, taskVars
  <2> QED
    BY <2>1, <1>0 DEF Intact, Served, Closing, Renewing
<1> QED
  BY <1>1, <1>2, <1>3, <1>4, <1>5, <1>6, <1>7, <1>8, <1>9, <1>10, <1>11, <1>12, <1>13, <1>14,
     <1>15, <1>16, <1>17, <1>18 DEF Named

-----------------------------------------------------------------------------
(* Theorems *)

LEMMA InitInv == Init => IInv
<1> SUFFICES ASSUME Init PROVE IInv
  OBVIOUS
<1> USE FdIsNat DEF Init, TimersInit, PoolInit
<1>1. TimersOK
  BY ReactorAssumption DEF TimersOK
<1>2. PoolOK
  BY DEF PoolOK, Block
<1>3. LoopOK
  BY ReactorAssumption DEF LoopOK, Place, Signalled, Event
<1>4. FdOK /\ FdInv
  BY DEF FdOK, FdInv, AcceptOnce
<1>5. PoolInv
  BY <1>2 DEF PoolInv, Below, PoolOK
<1>6. PastInv /\ ActiveInv /\ TaskInv /\ CallInv /\ DescInv
  BY DEF DescInv, PastInv, ActiveInv, TaskInv, CallInv
<1>7. VersionInv /\ TimedInv
  BY DEF VersionInv, TimedInv, Intact, Served
<1> QED
  BY <1>1, <1>2, <1>3, <1>4, <1>5, <1>6, <1>7 DEF IInv, TypeOK

LEMMA InvStep == IInv /\ [Next]_vars => IInv'
<1> SUFFICES ASSUME IInv, [Next]_vars PROVE IInv'
  OBVIOUS
<1>1. TypeOK' /\ PastInv'
  BY TimersStep, TimersTypes, PastStep, PoolTypes, LoopTypes, FdTypes DEF IInv, TypeOK
<1>2. PoolInv' /\ FdInv' /\ DescInv' /\ ActiveInv' /\ TaskInv' /\ CallInv'
  BY PoolStep, FdStep, DescStep, ActiveStep, TaskStep, CallStep DEF IInv
<1>3. VersionInv' /\ TimedInv'
  BY VersionStep, TimedStep DEF IInv
<1> QED
  BY <1>1, <1>2, <1>3 DEF IInv

LEMMA InvHolds == Spec => []IInv
BY InitInv, InvStep, PTL DEF Spec

\* The state of the reactor keeps its types, and what is watched is open,
\* under every interleaving of the two threads and of signals.
THEOREM TypeCorrect == Spec => []TypeOK
<1>1. IInv => TypeOK
  BY DEF IInv
<1> QED
  BY <1>1, InvHolds, PTL

\* For any number of blocks and connections, no block of the pool serves two
\* open connections, though objects lie over the free list and Release puts a
\* place on a stack on it.
THEOREM BlocksStayApart == Spec => []BlocksNotShared
<1>1. IInv => BlocksNotShared
  BY DEF IInv, PoolInv, BlocksNotShared, Served
<1> QED
  BY <1>1, InvHolds, PTL

\* For any number of connections, timers and seconds: while the server serves,
\* each connection that is open has a timer that is current, a callback that is
\* due, or a thread that is about to close it or to renew its timer.
THEOREM ConnectionsAreTimed == Spec => []EveryConnectionTimed
<1>1. IInv => EveryConnectionTimed
  <2> SUFFICES ASSUME IInv, Serving, NEW f \in Fd, Intact(f)
               PROVE  CurrentTimer(f) \/ CallbackDue(f) \/ Closing(f) \/ Renewing(f)
    BY DEF EveryConnectionTimed, Serving
  <2>1. Timed(f) => CurrentTimer(f) \/ CallbackDue(f)
    BY DEF Timed, Covers, CurrentTimer, CallbackDue
  <2> QED
    BY <2>1 DEF IInv, TimedInv
<1> QED
  BY <1>1, InvHolds, PTL

=============================================================================
