------------------------- MODULE ThreadClockProofs -------------------------
(***************************************************************************)
(* For any number of ids, any delays and any bounds: the types, the        *)
(* absence of lost wake-ups, and the rule that of an id that is only       *)
(* modified exactly the timer last pushed is run; and that the class       *)
(* implements the timer service on which the event loop is built.          *)
(***************************************************************************)
EXTENDS ThreadClock, TLAPS, SequenceTheorems, NumberLemmas

\* The versions of one id that was never deleted or added again.  The map has
\* the version of the timer last pushed, or the next one while a mod_timer of
\* that id is half done, and every older timer on the heap has a lower one.
VersionsOK(i) ==
  life[i] = "fresh" =>
    /\ map[i] = NoVersion =>
         ~Modifying(i) /\ \A e \in queue : e.id # i
    /\ map[i] # NoVersion => map[i] >= 1
    /\ \A e \in queue : e.id = i =>
         /\ e.version >= 1
         /\ Modifying(i) => e.version < map[i]
         /\ ~Modifying(i) => /\ e.version <= map[i]
                             /\ e.version = map[i] <=> e.n = latest[i]
    /\ (main = "read" /\ id = i) => version = map[i]

\* Timers are numbered in the order of their pushes.
Numbered == \A e \in queue : e.n <= pushed

IInv ==
  /\ TypeOK
  /\ NoLostWakeup
  /\ Numbered
  /\ \A i \in Id : VersionsOK(i)

\* The step that RunsExactlyTheLatest speaks of.
RunsLatestStep ==
  \A e \in queue \ queue' :
    (clock = "pop" /\ life[e.id] = "fresh") =>
      (batch' # batch <=> (e.n = latest[e.id] /\ ~Modifying(e.id)))

-----------------------------------------------------------------------------
(* Types *)

LEMMA InitTypeOK == Init => TypeOK
<1> SUFFICES ASSUME Init PROVE TypeOK
  OBVIOUS
<1>1. /\ map \in [Id -> Int \cup {NoVersion}] /\ latest \in [Id -> Nat]
      /\ life \in [Id -> Life] /\ clock # "timedEnter"
  BY DEF Init, Life
<1>2. queue \in SUBSET Timer /\ batch \in Seq(Timer)
  BY DEF Init
<1>3. /\ now = 0 /\ main = "ready" /\ id \in Id /\ version = 0
      /\ clock \in ClockPlace /\ wait = 0 /\ deadline = 0
      /\ sampled = 0 /\ pushed = 0
  BY DEF Init, ClockPlace
<1> QED
  BY <1>1, <1>2, <1>3 DEF TypeOK

LEMMA NotifyTypes ==
  ASSUME clock \in ClockPlace, Notify
  PROVE  clock' \in ClockPlace /\ (clock' = "timedEnter" => clock = "timedEnter")
BY DEF ClockPlace, Notify

\* The timer a push adds, and what else the push leaves.
LEMMA PushTypes ==
  ASSUME TypeOK, NEW i \in Id, NEW delay \in Delay, NEW v \in Int, Push(i, delay, v)
  PROVE  /\ queue' \in SUBSET Timer /\ map' \in [Id -> Int \cup {NoVersion}]
         /\ pushed' \in Nat /\ latest' \in [Id -> Nat] /\ clock' \in ClockPlace
         /\ clock' = "timedEnter" => wait > 0
<1>1. now + delay \in Nat
  BY DelayAssumption DEF TypeOK
<1>2. [n |-> pushed + 1, id |-> i, expire |-> now + delay, version |-> v] \in Timer
  BY <1>1 DEF TypeOK, Timer
<1>3. queue' \in SUBSET Timer
  BY <1>2 DEF TypeOK, Push
<1>4. pushed' \in Nat
  BY DEF TypeOK, Push
<1>5. map' \in [Id -> Int \cup {NoVersion}]
  BY DEF TypeOK, Push
<1>6. latest' \in [Id -> Nat]
  BY <1>4 DEF TypeOK, Push
<1>7. clock' \in ClockPlace /\ (clock' = "timedEnter" => wait > 0)
  BY NotifyTypes DEF TypeOK, Push
<1> QED
  BY <1>3, <1>4, <1>5, <1>6, <1>7

LEMMA DeleteTypes ==
  ASSUME TypeOK, NEW i \in Id, Delete(i)
  PROVE  life' \in [Id -> Life] /\ map' \in [Id -> Int \cup {NoVersion}]
<1>1. life' = life \/ life' = [life EXCEPT ![i] = "reset"]
  BY DEF Delete
<1>2. "reset" \in Life
  BY DEF Life
<1>3. life' \in [Id -> Life]
  BY <1>1, <1>2 DEF TypeOK
<1>4. map' \in [Id -> Int \cup {NoVersion}]
  BY DEF Delete, TypeOK
<1> QED
  BY <1>3, <1>4

LEMMA MainTypes ==
  ASSUME TypeOK, Main
  PROVE  TypeOK'
<1> USE DEF mainVars, clockVars, history, Unlocked
<1>1. ASSUME NEW i \in Id, NEW delay \in Delay, AddTimer(i, delay)
      PROVE  TypeOK'
  <2>1. Push(i, delay, 1)
    BY <1>1, Zenon DEF AddTimer
  <2>2. life' \in [Id -> Life]
    BY <1>1 DEF AddTimer, TypeOK, Life
  <2>3. /\ queue' \in SUBSET Timer /\ map' \in [Id -> Int \cup {NoVersion}]
        /\ pushed' \in Nat /\ latest' \in [Id -> Nat] /\ clock' \in ClockPlace
        /\ clock' = "timedEnter" => wait > 0
    <3>1. 1 \in Int
      OBVIOUS
    <3> QED
      BY <2>1, <3>1, PushTypes, Zenon
  <2> QED
    BY <1>1, <2>2, <2>3 DEF AddTimer, TypeOK
<1>2. ASSUME NEW i \in Id, ModBump(i)
      PROVE  TypeOK'
  <2>1. life' \in [Id -> Life]
    BY <1>2 DEF ModBump, TypeOK
  <2>2. map' \in [Id -> Int \cup {NoVersion}]
    BY <1>2, NoVersionAssumption DEF ModBump, TypeOK
  <2> QED
    BY <1>2, <2>1, <2>2 DEF ModBump, TypeOK
<1>3. CASE ModRead
  BY <1>3 DEF ModRead, TypeOK
<1>4. ASSUME NEW delay \in Delay, ModPush(delay)
      PROVE  TypeOK'
  <2>1. Push(id, delay, version) /\ id \in Id /\ version \in Int
    BY <1>4 DEF ModPush, TypeOK
  <2>2. life' \in [Id -> Life]
    BY <1>4 DEF ModPush, TypeOK
  <2> QED
    BY <1>4, <2>1, <2>2, PushTypes DEF ModPush, TypeOK
<1>5. ASSUME NEW i \in Id, DelTimer(i)
      PROVE  TypeOK'
  <2>1. Delete(i)
    BY <1>5, Zenon DEF DelTimer
  <2>2. clock' \in ClockPlace /\ (clock' = "timedEnter" => wait > 0)
    BY <1>5, NotifyTypes DEF DelTimer, TypeOK
  <2> QED
    BY <1>5, <2>1, <2>2, DeleteTypes DEF DelTimer, TypeOK
<1>6. CASE DtorSize
  BY <1>6 DEF DtorSize, TypeOK
<1>7. CASE Destroy
  <2>1. CASE DtorNotify
    BY <2>1, NotifyTypes DEF DtorNotify, TypeOK
  <2> QED
    BY <1>7, <2>1 DEF Destroy, DtorClear, DtorStop, DtorJoin, TypeOK
<1> QED
  BY <1>1, <1>2, <1>3, <1>4, <1>5, <1>6, <1>7 DEF Main, Modify

LEMMA PopTypes ==
  ASSUME TypeOK, NEW e \in queue, Pop(e)
  PROVE  TypeOK'
<1>1. e \in Timer /\ e.id \in Id
  BY DEF TypeOK, Timer
<1>2. map' \in [Id -> Int \cup {NoVersion}]
  BY <1>1 DEF Pop, TypeOK
<1>3. batch' \in Seq(Timer)
  BY <1>1 DEF Pop, TypeOK
<1>4. queue' \in SUBSET Timer
  BY DEF Pop, TypeOK
<1> QED
  BY <1>2, <1>3, <1>4 DEF Pop, TypeOK, mainVars, history

LEMMA CallbackTypes ==
  ASSUME TypeOK, Callback
  PROVE  TypeOK'
<1>1. batch \in Seq(Timer) /\ batch # <<>> /\ batch' = Tail(batch)
  BY DEF Callback, TypeOK
<1>2. batch' \in Seq(Timer) /\ Head(batch) \in Timer
  BY <1>1, HeadTailProperties
<1>3. Head(batch).id \in Id
  BY <1>2 DEF Timer
<1>4. UNCHANGED <<map, life>> \/ Delete(Head(batch).id)
  BY Zenon DEF Callback
<1>5. life' \in [Id -> Life] /\ map' \in [Id -> Int \cup {NoVersion}]
  BY <1>3, <1>4, DeleteTypes DEF TypeOK
<1> QED
  BY <1>2, <1>5 DEF Callback, TypeOK, mainVars

LEMMA ClockTypes ==
  ASSUME TypeOK, ClockStep \/ Wake
  PROVE  TypeOK'
<1> USE DEF shared, mainVars, history, GoTo, Goes
<1>1. clock' \in ClockPlace
  BY DEF ClockStep, Check, Sample, Branch, TimedEnter, IdleEnter, Wake, Test, Pop, PopDone,
         Callback, RunDone, ClockPlace, TypeOK
<1>2. CASE Check \/ Branch \/ PopDone \/ RunDone
  BY <1>1, <1>2 DEF Check, Branch, PopDone, RunDone, TypeOK
<1>3. CASE Sample
  <2>1. \A e \in queue : e.expire - now \in Int
    BY DEF TypeOK, Timer
  <2>2. wait' \in Int
    BY <1>3, <2>1 DEF Sample, Tops
  <2> QED
    BY <1>1, <1>3, <2>2 DEF Sample, TypeOK
<1>4. CASE TimedEnter \/ IdleEnter \/ Wake
  BY <1>1, <1>4 DEF TimedEnter, IdleEnter, Wake, TypeOK
<1>5. CASE Test
  BY <1>1, <1>5 DEF Test, TypeOK
<1> QED
  BY <1>2, <1>3, <1>4, <1>5, PopTypes, CallbackTypes DEF ClockStep

LEMMA NextTypes ==
  ASSUME TypeOK, [Next]_vars
  PROVE  TypeOK'
<1>1. CASE Tick \/ Finished \/ UNCHANGED vars
  BY <1>1 DEF Tick, Finished, vars, TypeOK, mainVars, clockVars, history
<1> QED
  BY <1>1, MainTypes, ClockTypes DEF Next

-----------------------------------------------------------------------------
(* Wake-ups *)

\* Whatever puts a timer on the heap or raises the flag also signals a thread
\* that waits, and a thread that starts to wait has tested both under the lock.
LEMMA WakeupStep ==
  ASSUME TypeOK, NoLostWakeup, [Next]_vars
  PROVE  NoLostWakeup'
<1> USE DEF NoLostWakeup, Waiting, stop, Notify, mainVars, clockVars, history
<1>1. ASSUME NEW i \in Id, NEW delay \in Delay, AddTimer(i, delay)
      PROVE  NoLostWakeup'
  BY <1>1 DEF AddTimer, Push
<1>2. CASE Modify
  BY <1>2 DEF Modify, ModRead, ModPush, Push
<1>3. ASSUME NEW i \in Id, ModBump(i) \/ DelTimer(i)
      PROVE  NoLostWakeup'
  BY <1>3 DEF ModBump, DelTimer
<1>4. CASE DtorSize \/ Destroy
  BY <1>4 DEF DtorSize, Destroy, DtorClear, DtorStop, DtorNotify, DtorJoin
<1>5. CASE ClockStep \/ Wake
  <2> USE DEF shared, GoTo, Goes
  <2>1. CASE Check \/ Sample \/ Branch \/ Test \/ PopDone \/ RunDone \/ Callback
    BY <2>1 DEF Check, Sample, Branch, Test, PopDone, RunDone, Callback
  <2>2. CASE TimedEnter \/ IdleEnter \/ Wake
    BY <2>2 DEF TimedEnter, IdleEnter, Wake
  <2>3. ASSUME NEW e \in queue, Pop(e)
        PROVE  NoLostWakeup'
    BY <2>3 DEF Pop
  <2> QED
    BY <1>5, <2>1, <2>2, <2>3 DEF ClockStep
<1>6. CASE Tick \/ Finished \/ UNCHANGED vars
  BY <1>6 DEF Tick, Finished, vars
<1> QED
  BY <1>1, <1>2, <1>3, <1>4, <1>5, <1>6 DEF Next, Main

-----------------------------------------------------------------------------
(* Versions *)

\* A push numbers its timer above all others.
LEMMA PushNumbered ==
  ASSUME TypeOK, Numbered, NEW i \in Id, NEW delay \in Delay, NEW v \in Int, Push(i, delay, v)
  PROVE  Numbered'
BY DEF TypeOK, Numbered, Push, Timer

LEMMA NumberedStep ==
  ASSUME TypeOK, Numbered, [Next]_vars
  PROVE  Numbered'
<1> USE DEF mainVars, clockVars, history, shared
<1>1. ASSUME NEW i \in Id, NEW delay \in Delay, AddTimer(i, delay)
      PROVE  Numbered'
  <2>1. Push(i, delay, 1)
    BY <1>1, Zenon DEF AddTimer
  <2>2. 1 \in Int
    OBVIOUS
  <2> QED
    BY <2>1, <2>2, PushNumbered, Zenon
<1>2. ASSUME NEW delay \in Delay, ModPush(delay)
      PROVE  Numbered'
  <2>1. Push(id, delay, version) /\ id \in Id /\ version \in Int
    BY <1>2, Zenon DEF ModPush, TypeOK
  <2> QED
    BY <2>1, PushNumbered, Zenon
<1>3. CASE ModRead \/ (\E i \in Id : ModBump(i) \/ DelTimer(i)) \/ DtorSize \/ Destroy
  BY <1>3 DEF ModRead, ModBump, DelTimer, DtorSize, Destroy, DtorClear, DtorStop,
              DtorNotify, DtorJoin, Numbered
<1>4. ASSUME NEW e \in queue, Pop(e)
      PROVE  Numbered'
  BY <1>4 DEF Pop, Numbered
<1>5. CASE Check \/ Sample \/ Branch \/ TimedEnter \/ IdleEnter \/ Wake \/ Test \/ PopDone
           \/ Callback \/ RunDone \/ Tick \/ Finished \/ UNCHANGED vars
  BY <1>5 DEF Check, Sample, Branch, TimedEnter, IdleEnter, Wake, Test, PopDone, Callback,
              RunDone, Tick, Finished, vars, Numbered
<1> QED
  BY <1>1, <1>2, <1>3, <1>4, <1>5 DEF Next, Main, Modify, ClockStep

\* What VersionsOK(i) depends on; steps that leave all of it keep it.
LEMMA VersionsFrame ==
  ASSUME NEW i \in Id, VersionsOK(i),
         \A e \in queue' : e.id = i => e \in queue,
         map'[i] = map[i], latest'[i] = latest[i], life'[i] = "fresh" => life[i] = "fresh",
         Modifying(i)' <=> Modifying(i),
         (main' = "read" /\ id' = i) => (main = "read" /\ id = i /\ version' = version)
  PROVE  VersionsOK(i)'
BY DEF VersionsOK

\* A push of the map's version, after which the timers before it are old.
LEMMA VersionsPush ==
  ASSUME TypeOK, Numbered, NEW i \in Id, NEW delay \in Delay, NEW v \in Int, Push(i, delay, v),
         v >= 1, \A e \in queue : e.id = i => e.version >= 1 /\ e.version < v,
         main' = "ready"
  PROVE  VersionsOK(i)'
<1> DEFINE new == [n |-> pushed + 1, id |-> i, expire |-> now + delay, version |-> v]
<1>1. queue' = queue \cup {new} /\ map'[i] = v /\ latest'[i] = pushed + 1
  BY DEF Push, TypeOK
<1>2. \A e \in queue : e.n # pushed + 1
  BY DEF TypeOK, Numbered, Timer
<1>3. new.n = pushed + 1 /\ new.id = i /\ new.version = v
  OBVIOUS
<1> HIDE DEF new
<1>4. ASSUME NEW e \in queue', e.id = i
      PROVE  e.version >= 1 /\ e.version <= v /\ (e.version = v <=> e.n = pushed + 1)
  <2>1. CASE e = new
    BY <1>3, <2>1
  <2>2. CASE e \in queue
    <3>1. e.version \in Int /\ e.version >= 1 /\ e.version < v
      BY <1>4, <2>2 DEF TypeOK, Timer
    <3> QED
      BY <1>2, <2>2, <3>1
  <2> QED
    BY <1>1, <2>1, <2>2
<1> QED
  BY <1>1, <1>4, NoVersionAssumption DEF VersionsOK, Modifying

\* Steps of main, for one id.
LEMMA VersionsMain ==
  ASSUME IInv, Main, NEW i \in Id
  PROVE  VersionsOK(i)'
<1> USE DEF mainVars, clockVars, history
<1>1. TypeOK /\ Numbered /\ VersionsOK(i)
  BY DEF IInv
<1>2. ASSUME NEW j \in Id, NEW delay \in Delay, AddTimer(j, delay)
      PROVE  VersionsOK(i)'
  <2>1. Push(j, delay, 1) /\ main = "ready" /\ main' = "ready"
    BY <1>2, Zenon DEF AddTimer
  <2>2. CASE j # i
    <3>1. life'[i] = life[i] /\ id' = id /\ version' = version
      BY <1>1, <1>2, <2>2 DEF AddTimer, TypeOK
    <3>2. /\ \A e \in queue' : e.id = i => e \in queue
          /\ map'[i] = map[i] /\ latest'[i] = latest[i]
      BY <1>1, <2>1, <2>2 DEF Push, TypeOK
    <3> QED
      BY <1>1, <2>1, <3>1, <3>2, VersionsFrame DEF Modifying
  <2>3. CASE j = i /\ map[i] # NoVersion
    BY <1>1, <1>2, <2>3 DEF AddTimer, TypeOK, VersionsOK
  <2>4. CASE j = i /\ map[i] = NoVersion /\ life[i] = "fresh"
    <3>1. \A e \in queue : e.id # i
      BY <1>1, <2>4 DEF VersionsOK
    <3>2. Push(i, delay, 1) /\ 1 \in Int /\ 1 >= 1
      BY <2>1, <2>4
    <3> QED
      BY <1>1, <2>1, <3>1, <3>2, VersionsPush
  <2>5. CASE j = i /\ map[i] = NoVersion /\ life[i] # "fresh"
    <3>1. life'[i] = "reset"
      BY <1>1, <1>2, <2>5 DEF AddTimer, TypeOK
    <3> QED
      BY <3>1 DEF VersionsOK
  <2> QED
    BY <2>2, <2>3, <2>4, <2>5
<1>3. ASSUME NEW j \in Id, ModBump(j)
      PROVE  VersionsOK(i)'
  <2>1. /\ main = "ready" /\ main' = "bumped" /\ id' = j
        /\ queue' = queue /\ latest' = latest /\ life' = life
        /\ map' = [map EXCEPT ![j] = IF @ = NoVersion THEN 1 ELSE @ + 1]
    BY <1>3, Zenon DEF ModBump
  <2>4. life'[i] = "fresh" => life[i] = "fresh"
    BY <2>1
  <2>2. CASE j # i
    <3>1. map'[i] = map[i]
      BY <1>1, <2>1, <2>2 DEF TypeOK
    <3> QED
      BY <1>1, <2>1, <2>2, <2>4, <3>1, VersionsFrame DEF Modifying
  <2>3. CASE j = i
    <3>1. map'[i] = IF map[i] = NoVersion THEN 1 ELSE map[i] + 1
      BY <1>1, <2>1, <2>3 DEF TypeOK
    <3>2. map[i] # NoVersion => map[i] \in Int
      BY <1>1 DEF TypeOK
    <3>3. \A e \in queue : e.version \in Int
      BY <1>1 DEF TypeOK, Timer
    <3> QED
      BY <1>1, <2>1, <2>3, <2>4, <3>1, <3>2, <3>3, NoVersionAssumption DEF VersionsOK, Modifying
  <2> QED
    BY <2>2, <2>3
<1>4. CASE ModRead
  <2>1. /\ main = "bumped" /\ main' = "read" /\ id' = id /\ version' = map'[id]
        /\ queue' = queue /\ latest' = latest /\ life' = life
        /\ map' = [map EXCEPT ![id] = IF @ = NoVersion THEN 0 ELSE @]
    BY <1>4 DEF ModRead
  <2>2. CASE id # i
    <3>1. map'[i] = map[i]
      BY <1>1, <2>1, <2>2 DEF TypeOK
    <3> QED
      BY <1>1, <2>1, <2>2, <3>1, VersionsFrame DEF Modifying
  <2>3. CASE id = i /\ life[i] = "fresh"
    <3>1. Modifying(i) /\ Modifying(i)'
      BY <2>1, <2>3 DEF Modifying
    <3>2. map[i] # NoVersion
      BY <1>1, <2>3, <3>1 DEF VersionsOK
    <3>3. map'[i] = map[i] /\ version' = map'[i]
      BY <1>1, <2>1, <2>3, <3>2 DEF TypeOK
    <3> QED
      BY <1>1, <2>1, <2>3, <3>1, <3>3 DEF VersionsOK
  <2>4. CASE id = i /\ life[i] # "fresh"
    BY <2>1, <2>4 DEF VersionsOK
  <2> QED
    BY <2>2, <2>3, <2>4
<1>5. ASSUME NEW delay \in Delay, ModPush(delay)
      PROVE  VersionsOK(i)'
  <2>1. Push(id, delay, version) /\ main = "read" /\ main' = "ready"
    BY <1>5, Zenon DEF ModPush
  <2>2. id' = id /\ version' = version /\ life' = life
    BY <1>5, Zenon DEF ModPush
  <2>6. life'[i] = "fresh" => life[i] = "fresh"
    BY <2>2
  <2>3. CASE id # i
    <3>1. /\ \A e \in queue' : e.id = i => e \in queue
          /\ map'[i] = map[i] /\ latest'[i] = latest[i]
      BY <1>1, <2>1, <2>3 DEF Push, TypeOK
    <3> QED
      BY <1>1, <2>1, <2>2, <2>3, <2>6, <3>1, VersionsFrame DEF Modifying
  <2>4. CASE id = i /\ life[i] = "fresh"
    <3>1. Modifying(i)
      BY <2>1, <2>4 DEF Modifying
    <3>2. map[i] # NoVersion /\ version = map[i] /\ version >= 1
      BY <1>1, <2>1, <2>4, <3>1 DEF VersionsOK
    <3>3. \A e \in queue : e.id = i => e.version >= 1 /\ e.version < version
      BY <1>1, <2>4, <3>1, <3>2 DEF VersionsOK
    <3>4. Push(i, delay, version) /\ version \in Int
      BY <1>1, <2>1, <2>4 DEF TypeOK
    <3> QED
      BY <1>1, <2>1, <3>2, <3>3, <3>4, VersionsPush
  <2>5. CASE id = i /\ life[i] # "fresh"
    BY <2>5, <2>6 DEF VersionsOK
  <2> QED
    BY <2>3, <2>4, <2>5
<1>6. ASSUME NEW j \in Id, DelTimer(j)
      PROVE  VersionsOK(i)'
  <2>1. /\ \/ map' = [map EXCEPT ![j] = 0] /\ life' = [life EXCEPT ![j] = "reset"]
           \/ map' = map /\ life' = life
        /\ queue' = queue /\ latest' = latest /\ main' = main /\ id' = id /\ version' = version
    BY <1>6 DEF DelTimer, Delete
  <2>2. CASE j # i
    BY <1>1, <2>1, <2>2, VersionsFrame DEF TypeOK, Modifying
  <2>3. CASE j = i
    BY <1>1, <2>1, <2>3 DEF TypeOK, VersionsOK, Modifying
  <2> QED
    BY <2>2, <2>3
<1>7. CASE DtorSize \/ Destroy
  <2>1. /\ queue' \subseteq queue /\ map' = map /\ latest' = latest /\ life' = life
        /\ id' = id /\ version' = version
        /\ main \notin {"bumped", "read"} /\ main' \notin {"bumped", "read"}
    BY <1>7 DEF DtorSize, Destroy, DtorClear, DtorStop, DtorNotify, DtorJoin
  <2> QED
    BY <1>1, <2>1, VersionsFrame DEF Modifying
<1> QED
  BY <1>2, <1>3, <1>4, <1>5, <1>6, <1>7 DEF Main, Modify

\* Steps of the clock thread: a timer that leaves the heap erases the map's
\* entry only if its version is 0, and a callback may delete its id.
LEMMA VersionsClock ==
  ASSUME IInv, ClockStep \/ Wake \/ Tick \/ Finished \/ UNCHANGED vars, NEW i \in Id
  PROVE  VersionsOK(i)'
<1> USE DEF mainVars, clockVars, history, shared
<1>1. TypeOK /\ VersionsOK(i)
  BY DEF IInv
<1>2. ASSUME NEW e \in queue, Pop(e)
      PROVE  VersionsOK(i)'
  <2>1. /\ queue' = queue \ {e} /\ latest' = latest /\ life' = life
        /\ main' = main /\ id' = id /\ version' = version
        /\ map' = IF Dead(e) THEN [map EXCEPT ![e.id] = NoVersion] ELSE map
    BY <1>2 DEF Pop
  <2>2. CASE life[i] = "fresh"
    <3>1. e.id = i => e.version # 0
      BY <1>1, <2>2 DEF VersionsOK
    <3>2. map'[i] = map[i]
      BY <1>1, <2>1, <3>1 DEF Dead, TypeOK, Timer
    <3> QED
      BY <1>1, <2>1, <3>2, VersionsFrame DEF Modifying
  <2>3. CASE life[i] # "fresh"
    BY <2>1, <2>3 DEF VersionsOK
  <2> QED
    BY <2>2, <2>3
<1>3. CASE Callback
  <2>1. /\ queue' = queue /\ latest' = latest
        /\ main' = main /\ id' = id /\ version' = version
    BY <1>3 DEF Callback
  <2>2. UNCHANGED <<map, life>> \/ Delete(Head(batch).id)
    BY <1>3, Zenon DEF Callback
  <2>3. CASE UNCHANGED <<map, life>>
    BY <1>1, <2>1, <2>3, VersionsFrame DEF Modifying
  <2>4. CASE Delete(Head(batch).id)
    <3> DEFINE j == Head(batch).id
    <3>1. \/ map' = [map EXCEPT ![j] = 0] /\ life' = [life EXCEPT ![j] = "reset"]
          \/ map' = map /\ life' = life
      BY <2>4 DEF Delete
    <3> HIDE DEF j
    <3>2. CASE j # i
      BY <1>1, <2>1, <3>1, <3>2, VersionsFrame DEF TypeOK, Modifying
    <3>3. CASE j = i
      BY <1>1, <2>1, <3>1, <3>3 DEF TypeOK, VersionsOK, Modifying
    <3> QED
      BY <3>2, <3>3
  <2> QED
    BY <2>2, <2>3, <2>4
<1>4. CASE Check \/ Sample \/ Branch \/ TimedEnter \/ IdleEnter \/ Wake \/ Test \/ PopDone
           \/ RunDone \/ Tick \/ Finished \/ UNCHANGED vars
  <2>1. UNCHANGED <<queue, map, latest, life, main, id, version>>
    BY <1>4 DEF Check, Sample, Branch, TimedEnter, IdleEnter, Wake, Test, PopDone,
                RunDone, Tick, Finished, vars
  <2> QED
    BY <1>1, <2>1, VersionsFrame DEF Modifying
<1> QED
  BY <1>2, <1>3, <1>4 DEF ClockStep

-----------------------------------------------------------------------------
(* Theorems *)

LEMMA InitIInv == Init => IInv
<1> SUFFICES ASSUME Init PROVE IInv
  OBVIOUS
<1>1. TypeOK
  BY InitTypeOK
<1>2. NoLostWakeup /\ Numbered
  BY DEF Init, NoLostWakeup, Waiting, Numbered
<1>3. \A i \in Id : VersionsOK(i)
  BY DEF Init, VersionsOK, Modifying
<1> QED
  BY <1>1, <1>2, <1>3 DEF IInv

LEMMA StepIInv == IInv /\ [Next]_vars => IInv'
<1> SUFFICES ASSUME IInv, [Next]_vars PROVE IInv'
  OBVIOUS
<1>1. TypeOK' /\ NoLostWakeup' /\ Numbered'
  BY NextTypes, WakeupStep, NumberedStep DEF IInv
<1>2. \A i \in Id : VersionsOK(i)'
  BY VersionsMain, VersionsClock DEF Next
<1> QED
  BY <1>1, <1>2 DEF IInv

\* The heap, the version map and both threads' local state keep their types
\* under every interleaving of the operations of Thread_clockr.
THEOREM TypeCorrect == Spec => []TypeOK
<1>1. IInv => TypeOK
  BY DEF IInv
<1> QED
  BY <1>1, InitIInv, StepIInv, PTL DEF Spec

\* The clock thread of timer.cpp never sleeps unnoticed with a timer on an
\* empty-looking heap or with the destructor waiting to join it.
THEOREM WakeupsArrive == Spec => []NoLostWakeup
<1>1. IInv => NoLostWakeup
  BY DEF IInv
<1> QED
  BY <1>1, InitIInv, StepIInv, PTL DEF Spec

\* handle_timer's version test runs, of an id that is only modified, exactly
\* the timer last pushed, for any number of ids and timers and any delays.
THEOREM LatestRuns == Spec => RunsExactlyTheLatest
<1>1. ASSUME IInv, [Next]_vars
      PROVE  [RunsLatestStep]_vars
  <2> SUFFICES ASSUME NEW e \in queue \ queue', clock = "pop", life[e.id] = "fresh"
               PROVE  batch' # batch <=> (e.n = latest[e.id] /\ ~Modifying(e.id))
    BY DEF RunsLatestStep
  <2>1. PICK f \in queue : Pop(f)
    <3> USE DEF mainVars, clockVars, history, shared, Unlocked
    <3>1. ~Main
      BY DEF Main, Modify, Destroy, AddTimer, Push, ModBump, ModRead, ModPush, DelTimer,
             DtorSize, DtorClear, DtorStop, DtorNotify, DtorJoin
    <3>2. ~ (Wake \/ Tick \/ Finished \/ UNCHANGED vars)
      BY DEF Wake, Tick, Finished, vars
    <3> QED
      BY <1>1, <3>1, <3>2 DEF Next, ClockStep, Check, Sample, Branch, TimedEnter, IdleEnter,
         Test, PopDone, Callback, RunDone
  <2>2. e = f
    BY <2>1 DEF Pop
  <2>3. e.id \in Id /\ e.version \in Int /\ VersionsOK(e.id) /\ batch \in Seq(Timer)
    BY <1>1 DEF IInv, TypeOK, Timer
  <2>4. map[e.id] \in Int
    BY <1>1, <2>3 DEF VersionsOK, IInv, TypeOK
  <2>5. Fires(e) <=> (e.n = latest[e.id] /\ ~Modifying(e.id))
    BY <2>3, <2>4, NoVersionAssumption DEF Fires, Stale, VersionsOK
  <2>6. Append(batch, e) # batch
    BY <2>3
  <2> QED
    BY <2>1, <2>2, <2>5, <2>6 DEF Pop
<1> QED
  BY <1>1, InitIInv, StepIInv, PTL DEF Spec, RunsExactlyTheLatest, RunsLatestStep

-----------------------------------------------------------------------------
(* The service *)

\* Between two calls of handle_timer there is no batch, and the destructor has
\* waited for the end of the thread.
BatchOK ==
  /\ clock \notin {"pop", "run"} => batch = <<>>
  /\ main = "joined" => clock = "done"

LEMMA BatchStep == TypeOK /\ BatchOK /\ [Next]_vars => BatchOK'
<1> SUFFICES ASSUME TypeOK, BatchOK, [Next]_vars PROVE BatchOK'
  OBVIOUS
<1> USE DEF BatchOK, Notify, mainVars, clockVars, history, stop
<1>1. ASSUME NEW i \in Id, NEW delay \in Delay, AddTimer(i, delay)
      PROVE  BatchOK'
  BY <1>1 DEF AddTimer, Push, Unlocked
<1>2. CASE Modify
  BY <1>2 DEF Modify, ModRead, ModPush, Push, Unlocked
<1>3. ASSUME NEW i \in Id, ModBump(i) \/ DelTimer(i)
      PROVE  BatchOK'
  BY <1>3 DEF ModBump, DelTimer
<1>4. CASE DtorSize \/ Destroy
  BY <1>4 DEF DtorSize, Destroy, DtorClear, DtorStop, DtorNotify, DtorJoin
<1>5. CASE ClockStep \/ Wake
  <2> USE DEF shared, GoTo, Goes
  <2>1. CASE Check \/ Sample \/ Branch \/ Test \/ PopDone \/ RunDone \/ Callback
    BY <2>1 DEF Check, Sample, Branch, Test, PopDone, RunDone, Callback
  <2>2. CASE TimedEnter \/ IdleEnter \/ Wake
    BY <2>2 DEF TimedEnter, IdleEnter, Wake
  <2>3. ASSUME NEW e \in queue, Pop(e)
        PROVE  BatchOK'
    BY <2>3 DEF Pop
  <2> QED
    BY <1>5, <2>1, <2>2, <2>3 DEF ClockStep
<1>6. CASE Tick \/ Finished \/ UNCHANGED vars
  BY <1>6 DEF Tick, Finished, vars
<1> QED
  BY <1>1, <1>2, <1>3, <1>4, <1>5, <1>6 DEF Next, Main

\* When the top of the heap is not due, nothing on it is.
LEMMA TopsFirst ==
  ASSUME TypeOK, Due = {}, NEW e \in queue
  PROVE  e.expire > sampled
<1> DEFINE times == {f.expire : f \in queue}
<1>1. \A f \in queue : f.expire \in Nat
  BY DEF TypeOK, Timer
<1>2. PICK m \in times : \A n \in times : m <= n
  <2>1. times \subseteq Nat /\ times # {}
    BY <1>1
  <2> HIDE DEF times
  <2> QED
    BY <2>1, LeastNumber
<1>3. PICK top \in queue : top.expire = m
  BY <1>2
<1>4. top \in Tops
  BY <1>2, <1>3 DEF Tops
<1>5. ~ (top.expire <= sampled)
  BY <1>4 DEF Due
<1>6. top.expire \in Nat /\ e.expire \in Nat /\ sampled \in Nat /\ top.expire <= e.expire
  BY <1>1, <1>2, <1>3 DEF TypeOK
<1> QED
  BY <1>5, <1>6


\* What a notification wakes, the service does not see.
LEMMA NotifyUnseen ==
  ASSUME Notify, UNCHANGED sampled
  PROVE  UNCHANGED <<Thread, Limit>>
BY DEF Notify, Thread, Limit

LEMMA MutexSeen == Unlocked <=> Service!Unlocked
BY DEF Unlocked, Service!Unlocked, Thread

LEMMA ServicePush ==
  ASSUME Unlocked, NEW i \in Id, NEW delay \in Delay, NEW v \in Int, Push(i, delay, v)
  PROVE  Service!Push(i, delay, v)
BY MutexSeen DEF Push, Service!Push

LEMMA ServiceDelete ==
  ASSUME TypeOK, NEW i \in Id, Delete(i)
  PROVE  Service!Delete(i)
<1>1. map' = [map EXCEPT ![i] = IF @ = NoVersion THEN @ ELSE 0]
  BY DEF Delete, TypeOK
<1> QED
  BY <1>1, MutexSeen DEF Delete, Service!Delete

\* Each call of main, and each step of its longer calls, is one of the
\* service's.
LEMMA ServiceMain ==
  ASSUME TypeOK, BatchOK, Main
  PROVE  [Service!TimersNext]_(Service!timerVars)
<1> USE MutexSeen
<1> USE DEF Service!timerVars, Service!callVars, Service!clockVars, mainVars, clockVars, history
<1>1. ASSUME NEW i \in Id, NEW delay \in Delay, AddTimer(i, delay)
      PROVE  Service!TimersNext
  <2>1. Service!Push(i, delay, 1)
    BY <1>1, ServicePush DEF AddTimer
  <2>2. UNCHANGED <<Thread, Limit>>
    BY <1>1, NotifyUnseen DEF AddTimer, Push
  <2>3. Caller = "ready" /\ UNCHANGED Caller
    BY <1>1 DEF AddTimer, Caller
  <2>4. Service!Add(i, delay)
    BY <1>1, <2>1, <2>2, <2>3 DEF AddTimer, Service!Add
  <2> QED
    BY <2>4 DEF Service!TimersNext
<1>2. ASSUME NEW i \in Id, ModBump(i)
      PROVE  Service!TimersNext
  <2>1. Caller = "ready" /\ Caller' = "bumped" /\ UNCHANGED <<Thread, Limit>>
    BY <1>2 DEF ModBump, Caller, Thread, Limit
  <2>2. Service!Bump(i)
    BY <1>2, <2>1 DEF ModBump, Service!Bump
  <2> QED
    BY <2>2 DEF Service!TimersNext
<1>3. CASE ModRead
  <2>1. Caller = "bumped" /\ Caller' = "read" /\ UNCHANGED <<Thread, Limit>>
    BY <1>3 DEF ModRead, Caller, Thread, Limit
  <2>2. Service!ReadVersion
    BY <1>3, <2>1 DEF ModRead, Service!ReadVersion
  <2> QED
    BY <2>2 DEF Service!TimersNext
<1>4. ASSUME NEW delay \in Delay, ModPush(delay)
      PROVE  Service!TimersNext
  <2>1. Service!Push(id, delay, version)
    BY <1>4, ServicePush DEF ModPush, TypeOK
  <2>2. UNCHANGED <<Thread, Limit>>
    BY <1>4, NotifyUnseen DEF ModPush, Push
  <2>3. Caller = "read" /\ Caller' = "ready"
    BY <1>4 DEF ModPush, Caller
  <2>4. Service!PushModified(delay)
    BY <1>4, <2>1, <2>2, <2>3 DEF ModPush, Service!PushModified
  <2> QED
    BY <2>4 DEF Service!TimersNext
<1>5. ASSUME NEW i \in Id, DelTimer(i)
      PROVE  Service!TimersNext
  <2>1. Service!Delete(i)
    BY <1>5, ServiceDelete DEF DelTimer
  <2>2. UNCHANGED <<Thread, Limit>>
    BY <1>5, NotifyUnseen DEF DelTimer, Thread, Limit
  <2>3. Caller = "ready" /\ UNCHANGED Caller
    BY <1>5 DEF DelTimer, Caller
  <2>4. Service!Remove(i)
    BY <1>5, <2>1, <2>2, <2>3 DEF DelTimer, Service!Remove
  <2> QED
    BY <2>4 DEF Service!TimersNext
<1>6. CASE DtorSize
  <2>1. Caller = "ready" /\ Caller' = "ending" /\ UNCHANGED <<Thread, Limit>>
    BY <1>6 DEF DtorSize, Caller, Thread, Limit
  <2>2. Service!End
    BY <1>6, <2>1 DEF DtorSize, Service!End, Service!Calls
  <2> QED
    BY <2>2 DEF Service!TimersNext
<1>7. CASE DtorClear
  <2>1. Caller = "ending" /\ Caller' = "ending" /\ UNCHANGED <<Thread, Limit>>
    BY <1>7 DEF DtorClear, Caller, Thread, Limit
  <2>2. Service!Clear
    BY <1>7, <2>1 DEF DtorClear, Service!Clear
  <2> QED
    BY <2>2 DEF Service!TimersNext
<1>8. CASE DtorStop
  <2>1. Caller = "ending" /\ Caller' = "stopped" /\ UNCHANGED <<Thread, Limit>>
    BY <1>8 DEF DtorStop, Caller, Thread, Limit
  <2>2. Service!Stop
    BY <1>8, <2>1 DEF DtorStop, Service!Stop, Service!Calls
  <2> QED
    BY <2>2 DEF Service!TimersNext
<1>9. CASE DtorNotify
  <2>1. UNCHANGED <<Thread, Limit>>
    BY <1>9, NotifyUnseen DEF DtorNotify
  <2>2. UNCHANGED Caller
    BY <1>9 DEF DtorNotify, Caller
  <2> QED
    BY <1>9, <2>1, <2>2 DEF DtorNotify
<1>10. CASE DtorJoin
  <2>1. Caller = "stopped" /\ Caller' = "joined" /\ Thread = "gone" /\ UNCHANGED <<Thread, Limit>>
    BY <1>10 DEF DtorJoin, Caller, Thread, Limit
  <2>2. Service!Join
    BY <1>10, <2>1 DEF DtorJoin, Service!Join, Service!Calls
  <2> QED
    BY <2>2 DEF Service!TimersNext
<1> QED
  BY <1>1, <1>2, <1>3, <1>4, <1>5, <1>6, <1>7, <1>8, <1>9, <1>10 DEF Main, Modify, Destroy

\* The clock thread waits, wakes and tests unseen; it takes timers off, runs
\* their callbacks and ends as the service says.
LEMMA ServiceClock ==
  ASSUME TypeOK, BatchOK, ClockStep \/ Wake
  PROVE  [Service!TimersNext]_(Service!timerVars)
<1> USE DEF Service!timerVars, Service!callVars, Service!clockVars,
            shared, mainVars, history, GoTo, Goes
<1>1. ASSUME UNCHANGED <<now, queue, map, main, id, version, sampled, batch, pushed>>,
             clock \notin {"pop", "run", "done"}, clock' \notin {"pop", "run", "done"}
      PROVE  UNCHANGED Service!timerVars
  BY <1>1 DEF Caller, Thread, Limit
<1>2. CASE Sample \/ Branch \/ TimedEnter \/ IdleEnter \/ Wake
  BY <1>1, <1>2 DEF Sample, Branch, TimedEnter, IdleEnter, Wake
<1>3. CASE Check
  <2>1. CASE ~stop
    BY <1>1, <1>3, <2>1 DEF Check
  <2>2. CASE stop
    <3>1. Caller = "stopped" /\ Thread = "idle" /\ Thread' = "gone" /\ UNCHANGED <<Caller, Limit>>
      BY <1>3, <2>2 DEF Check, Caller, Thread, Limit, stop, BatchOK
    <3>2. Service!Exit
      BY <1>3, <3>1 DEF Check, Service!Exit
    <3> QED
      BY <3>2 DEF Service!TimersNext
  <2> QED
    BY <2>1, <2>2
<1>4. CASE Test
  <2>1. batch' = batch
    BY <1>4 DEF Test, BatchOK
  <2>2. CASE stop
    <3>1. UNCHANGED <<Caller, Thread, Limit>>
      BY <1>4, <2>2 DEF Test, Caller, Thread, Limit
    <3> QED
      BY <1>4, <2>1, <3>1 DEF Test
  <2>3. CASE ~stop
    <3>1. /\ Caller \notin {"stopped", "joined"} /\ UNCHANGED Caller
          /\ Thread = "idle" /\ Thread' = "pop" /\ Limit' = now
      BY <1>4, <2>3 DEF Test, Caller, Thread, Limit, stop, TypeOK
    <3>2. Service!Take
      BY <1>4, <2>1, <3>1 DEF Test, Service!Take
    <3> QED
      BY <3>2 DEF Service!TimersNext
  <2> QED
    BY <2>2, <2>3
<1>5. ASSUME NEW e \in queue, Pop(e)
      PROVE  Service!TimersNext
  <2>1. Thread = "pop" /\ Limit = sampled /\ UNCHANGED <<Caller, Thread, Limit>>
    BY <1>5 DEF Pop, Caller, Thread, Limit
  <2>2. e \in Service!DueBy(Limit)
    BY <1>5, <2>1 DEF Pop, Due, Service!DueBy
  <2>3. Service!Pop(e)
    BY <1>5, <2>1, <2>2 DEF Pop, Service!Pop, Stale, Dead, Fires, Service!Stale
  <2> QED
    BY <1>5, <2>3 DEF Service!TimersNext
<1>6. CASE PopDone
  <2>1. Thread = "pop" /\ Thread' = "run" /\ Limit = sampled /\ Limit' = 0 /\ UNCHANGED Caller
    BY <1>6 DEF PopDone, Caller, Thread, Limit
  <2>2. Service!DueBy(Limit) = {}
    <3>1. \A e \in queue : e.expire > sampled /\ e.expire \in Nat
      BY <1>6, TopsFirst DEF PopDone, TypeOK, Timer
    <3> QED
      BY <2>1, <3>1 DEF Service!DueBy, TypeOK
  <2>3. Service!PopDone
    BY <1>6, <2>1, <2>2 DEF PopDone, Service!PopDone
  <2> QED
    BY <2>3 DEF Service!TimersNext
<1>7. CASE Callback
  <2>1. Thread = "run" /\ UNCHANGED <<Caller, Thread, Limit>>
    BY <1>7 DEF Callback, Caller, Thread, Limit
  <2>2. Service!Return
    BY <1>7, <2>1 DEF Callback, Service!Return
  <2>3. Head(batch).id \in Id
    <3>1. Head(batch) \in Timer
      BY <1>7, HeadTailProperties DEF Callback, TypeOK
    <3> QED
      BY <3>1 DEF Timer
  <2>4. CASE UNCHANGED map
    BY <2>2, <2>4 DEF Service!TimersNext, Service!CallbackKeeps
  <2>5. CASE Delete(Head(batch).id)
    BY <2>2, <2>3, <2>5, ServiceDelete DEF Service!TimersNext, Service!CallbackDeletes
  <2> QED
    BY <1>7, <2>4, <2>5 DEF Callback
<1>8. CASE RunDone
  <2>1. Thread = "run" /\ Thread' = "idle" /\ UNCHANGED <<Caller, Limit>>
    BY <1>8 DEF RunDone, Caller, Thread, Limit
  <2>2. Service!RunDone
    BY <1>8, <2>1 DEF RunDone, Service!RunDone
  <2> QED
    BY <2>2 DEF Service!TimersNext
<1> QED
  BY <1>2, <1>3, <1>4, <1>5, <1>6, <1>7, <1>8 DEF ClockStep

LEMMA ServiceInit == Init => Service!TimersInit
BY DEF Init, Service!TimersInit, Caller, Thread, Limit

LEMMA ServiceStep == TypeOK /\ BatchOK /\ [Next]_vars => [Service!TimersNext]_(Service!timerVars)
<1> SUFFICES ASSUME TypeOK, BatchOK, [Next]_vars
             PROVE  [Service!TimersNext]_(Service!timerVars)
  OBVIOUS
<1> USE DEF Service!timerVars, Service!callVars, Service!clockVars, mainVars, clockVars, history
<1>1. CASE Tick
  <2>1. UNCHANGED <<Caller, Thread, Limit>>
    BY <1>1 DEF Tick, Caller, Thread, Limit
  <2>2. Service!Elapse
    BY <1>1, <2>1 DEF Tick, Service!Elapse
  <2> QED
    BY <2>2 DEF Service!TimersNext
<1>2. CASE Finished \/ UNCHANGED vars
  BY <1>2 DEF Finished, vars, Caller, Thread, Limit
<1> QED
  BY <1>1, <1>2, ServiceMain, ServiceClock DEF Next

\* Whatever the heap's top, the thread's waits and main's unlocked accesses
\* interleave to, the class does what the service Timers allows, step by step:
\* no timer is taken before it is due, or left when it is, none but a current
\* one gets a callback, and the thread ends only when it was told to.
THEOREM ImplementsService == Spec => Service!TimersSafety
<1>1. Init => BatchOK
  BY DEF Init, BatchOK
<1> QED
  BY <1>1, InitTypeOK, NextTypes, BatchStep, ServiceInit, ServiceStep, PTL
     DEF Spec, Service!TimersSafety

=============================================================================
