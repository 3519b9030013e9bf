------------------------------ MODULE TaskPool ------------------------------
(***************************************************************************)
(* What the thread pool of utils promises the callers of enqueue and       *)
(* shutdown: a task that is accepted is run once, tasks start in the order *)
(* in which they were accepted, no task is accepted once the pool is       *)
(* closing, and shutdown returns when every accepted task has run.  There  *)
(* are no threads, mutex or condition variable here; ThreadPool implements *)
(* this module.                                                            *)
(***************************************************************************)
EXTENDS Naturals, Sequences

CONSTANT Task       \* the calls of enqueue

VARIABLES accepted, \* the tasks accepted, in order
          rejected, \* the tasks whose enqueue threw
          started,  \* how many of the accepted tasks have started
          done,     \* the tasks that have run to their end
          state     \* "open", "closing" or "closed"

vars == <<accepted, rejected, started, done, state>>

Elements(s) == {s[i] : i \in DOMAIN s}

Started == {accepted[i] : i \in 1 .. started}

Init ==
  /\ accepted = <<>> /\ rejected = {} /\ started = 0 /\ done = {}
  /\ state = "open"

New(t) == t \notin Elements(accepted) \cup rejected

Accept(t) ==
  /\ state = "open" /\ New(t)
  /\ accepted' = Append(accepted, t)
  /\ UNCHANGED <<rejected, started, done, state>>

Reject(t) ==
  /\ state # "open" /\ New(t)
  /\ rejected' = rejected \cup {t}
  /\ UNCHANGED <<accepted, started, done, state>>

Start ==
  /\ started < Len(accepted)
  /\ started' = started + 1
  /\ UNCHANGED <<accepted, rejected, done, state>>

Finish(t) ==
  /\ t \in Started \ done
  /\ done' = done \cup {t}
  /\ UNCHANGED <<accepted, rejected, started, state>>

Close ==
  /\ state = "open"
  /\ state' = "closing"
  /\ UNCHANGED <<accepted, rejected, started, done>>

Closed ==
  /\ state = "closing" /\ Elements(accepted) \subseteq done
  /\ state' = "closed"
  /\ UNCHANGED <<accepted, rejected, started, done>>

Next ==
  \/ \E t \in Task : Accept(t) \/ Reject(t) \/ Finish(t)
  \/ Start \/ Close \/ Closed

Spec == Init /\ [][Next]_vars

=============================================================================
