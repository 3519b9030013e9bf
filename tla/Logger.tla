-------------------------------- MODULE Logger --------------------------------
(***************************************************************************)
(* kv_log (log/log.cpp), called by the main thread and the clock thread    *)
(* through LOG_INFO and LOG_ERROR: write_log and then flush_log.  The log  *)
(* file is changed when the day of the month differs from _today, which    *)
(* only init sets, and at every _max_log_lines-th line.                    *)
(*                                                                         *)
(* The time is read, converted by localtime into a buffer that all threads *)
(* share, and copied, before the mutex is taken; so is the test of _fp.    *)
(*                                                                         *)
(* The program may end at any point and be started again, on the same day  *)
(* or on a later one: files are opened with "a" and keep what earlier runs *)
(* left in them, while the lines are counted from 0 again.                 *)
(***************************************************************************)
EXTENDS Integers, Sequences, FiniteSets, SequencesExt

CONSTANTS Thread,
          MaxLines,  \* SPLIT_LINES
          Month,     \* after how many days a day of the month comes again
          NoFile,    \* a null _fp
          MaxDay,    \* bound: the last day
          MaxWrites, \* bound: lines of a run
          MaxRuns    \* bound: runs after the first

ASSUME LoggerAssumption ==
  /\ MaxLines \in Nat \ {0} /\ Month \in Nat \ {0}
  /\ MaxDay \in Nat /\ MaxWrites \in Nat /\ MaxRuns \in Nat /\ IsFiniteSet(Thread)

VARIABLES day,      \* the day of gettimeofday
          tm,       \* the day in localtime's buffer
          used,     \* _used_lines
          fp,       \* the file that _fp is open on
          buffered, \* lines in _fp's stdio buffer
          disk,     \* the lines of this run in each file
          place,    \* where each thread is
          stamp,    \* t, then the copy my_tm, as a day
          mine,     \* history: each thread's last line, 0 if it is lost
          process,  \* "up", or "crashed" by a null _fp
          started,  \* the day this run began, whose day of the month is _today
          old,      \* what earlier runs left in each file
          runs      \* how many they were

vars == <<day, tm, used, fp, buffered, disk, place, stamp, mine, process, started, old, runs>>

Day == 0 .. MaxDay

\* File names: of a start, of a later day, and of a full file with its number.
First(d) == <<d, "first", 0>>
Daily(d) == <<d, "daily", 0>>
Split(d, k) == <<d, "split", k>>
File == {First(d) : d \in Day} \cup {Daily(d) : d \in Day}
          \cup {Split(d, k) : d \in Day, k \in 1 .. MaxWrites}

ASSUME NoFileAssumption == NoFile \notin File

mday(d) == d % Month
today == mday(started)

\* The constructor and its init: fopen may fail.
Init ==
  /\ day = 0 /\ started = 0 /\ tm = 0 /\ used = 0 /\ fp \in {First(0), NoFile} /\ buffered = <<>>
  /\ disk = [f \in File |-> <<>>]
  /\ place = [h \in Thread |-> "idle"] /\ stamp = [h \in Thread |-> 0]
  /\ mine = [h \in Thread |-> 0] /\ process = "up"
  /\ old = [f \in File |-> <<>>] /\ runs = 0

-----------------------------------------------------------------------------
Goes(h, p, q) == process = "up" /\ place[h] = p /\ place' = [place EXCEPT ![h] = q]

earlier == <<started, old, runs>>
file == <<used, fp, buffered, disk, mine, process, earlier>>

\* Threads whose line has no number yet.
Busy == {g \in Thread : place[g] \in {"convert", "copy", "write"}}

\* write_log, before the mutex is taken.
Enter(h) ==
  /\ fp # NoFile /\ Goes(h, "idle", "convert")
  /\ used + Cardinality(Busy) < MaxWrites
  /\ stamp' = [stamp EXCEPT ![h] = day]
  /\ UNCHANGED <<day, tm, file>>

Convert(h) ==
  /\ Goes(h, "convert", "copy")
  /\ tm' = stamp[h]
  /\ UNCHANGED <<day, stamp, file>>

Copy(h) ==
  /\ Goes(h, "copy", "write")
  /\ stamp' = [stamp EXCEPT ![h] = tm]
  /\ UNCHANGED <<day, tm, file>>

\* Mutant of Full: the lines are counted from 0.
FullLater(n) == n % MaxLines = 1 /\ n > MaxLines + 1

Full(n) == n % MaxLines = 0

Line(h) == [n |-> used + 1, day |-> stamp[h]]

\* Mutant of NewName: the number is the line's in its file.
NewNameModulo(d, n) == IF mday(d) # today THEN Daily(d) ELSE Split(d, n % MaxLines)

\* Mutant of NewName: the name has the day it is, not that of the line.
NewNameNow(d, n) == IF mday(d) # today THEN Daily(day) ELSE Split(day, n \div MaxLines)

NewName(d, n) == IF mday(d) # today THEN Daily(d) ELSE Split(d, n \div MaxLines)

Written == [disk EXCEPT ![fp] = @ \o buffered]

\* Mutant of Closed: the old file is not flushed and closed.
LeftOpen == disk

Closed == Written

\* write_log under the mutex, with a file.
WriteLine(h) ==
  /\ fp # NoFile /\ Goes(h, "write", "flush")
  /\ used' = used + 1
  /\ \/ /\ mday(stamp[h]) = today /\ ~Full(used + 1)
        /\ buffered' = Append(buffered, Line(h)) /\ mine' = [mine EXCEPT ![h] = used + 1]
        /\ UNCHANGED <<fp, disk>>
     \/ /\ mday(stamp[h]) # today \/ Full(used + 1)
        /\ disk' = Closed
        /\ \/ /\ fp' = NewName(stamp[h], used + 1)
              /\ buffered' = <<Line(h)>> /\ mine' = [mine EXCEPT ![h] = used + 1]
           \/ fp' = NoFile /\ buffered' = <<>> /\ mine' = [mine EXCEPT ![h] = 0]
  /\ UNCHANGED <<day, tm, stamp, process, earlier>>

\* Another thread's fopen has failed since _fp was tested.
WriteNull(h) ==
  /\ fp = NoFile /\ process = "up" /\ place[h] = "write"
  /\ process' = "crashed"
  /\ UNCHANGED <<day, tm, used, fp, buffered, disk, place, stamp, mine, earlier>>

\* Mutant of flush_log: the line stays in the buffer until the file is closed.
FlushNothing(h) ==
  /\ Goes(h, "flush", "idle")
  /\ UNCHANGED <<day, tm, stamp, file>>

flush_log(h) ==
  /\ Goes(h, "flush", "idle")
  /\ \/ fp # NoFile /\ disk' = Written /\ buffered' = <<>>
     \/ fp = NoFile /\ UNCHANGED <<disk, buffered>>
  /\ UNCHANGED <<day, tm, used, fp, stamp, mine, process, earlier>>

Midnight ==
  /\ day < MaxDay /\ day' = day + 1
  /\ UNCHANGED <<tm, place, stamp, file>>

\* Mutant of Left: a new run opens its file with "w".
LeftTruncated(kept) == [f \in File |-> IF f = First(day) THEN <<>> ELSE old[f] \o kept[f]]

Left(kept) == [f \in File |-> old[f] \o kept[f]]

\* The process ends, and what is in the buffer is lost or, when the destructor
\* closes the file, written; then the program is started again.
Restart ==
  /\ runs < MaxRuns /\ runs' = runs + 1
  /\ \/ old' = Left(disk)
     \/ fp # NoFile /\ old' = Left(Written)
  /\ disk' = [f \in File |-> <<>>] /\ buffered' = <<>> /\ used' = 0
  /\ started' = day /\ tm' = day /\ fp' \in {First(day), NoFile}
  /\ place' = [h \in Thread |-> "idle"] /\ stamp' = [h \in Thread |-> day]
  /\ mine' = [h \in Thread |-> 0] /\ process' = "up"
  /\ UNCHANGED day

Next ==
  \/ \E h \in Thread : \/ Enter(h) \/ Convert(h) \/ Copy(h)
                       \/ WriteLine(h) \/ WriteNull(h) \/ flush_log(h)
  \/ Midnight \/ Restart

Spec == Init /\ [][Next]_vars

-----------------------------------------------------------------------------
(* Properties *)

Stored(f) == old[f] \o disk[f]
Lines(f) == disk[f] \o (IF fp = f THEN buffered ELSE <<>>)
Numbers(f) == {l.n : l \in ToSet(Lines(f))}

TypeOK ==
  /\ day \in Day /\ tm \in Day /\ used \in 0 .. MaxWrites
  /\ fp \in File \cup {NoFile}
  /\ buffered \in Seq([n : 1 .. used, day : Day])
  /\ disk \in [File -> Seq([n : 1 .. used, day : Day])]
  /\ place \in [Thread -> {"idle", "convert", "copy", "write", "flush"}]
  /\ stamp \in [Thread -> Day] /\ mine \in [Thread -> 0 .. used]
  /\ process \in {"up", "crashed"}
  /\ started \in Day /\ runs \in 0 .. MaxRuns
  /\ old \in [File -> Seq([n : 1 .. MaxWrites, day : Day])]

\* Over all changes of the file, every line of a run is in exactly one file,
\* once, and in the order in which the threads had the mutex; only the line
\* whose file could not be opened is lost.
OnceInOrder ==
  /\ \A f \in File : \A i, j \in DOMAIN Lines(f) : i < j => Lines(f)[i].n < Lines(f)[j].n
  /\ \A f, g \in File : f # g => Numbers(f) \cap Numbers(g) = {}
  /\ UNION {Numbers(f) : f \in File}
       = IF fp = NoFile THEN 1 .. used - 1 ELSE 1 .. used

\* The macros flush after the mutex was given up, and maybe another file than
\* the one the line was written to: when they have returned, the line is on
\* disk all the same.
LoggedIsOnDisk ==
  \A h \in Thread : (place[h] = "idle" /\ mine[h] # 0) =>
     \E f \in File : \E l \in ToSet(disk[f]) : l.n = mine[h]

\* A line whose day of the month is not that of the start is in the file of the
\* day it carries, whichever line of another day was written before it.
DaysApart ==
  \A f \in File : \A l \in ToSet(Lines(f)) : mday(l.day) # today => f = Daily(l.day)

\* Every run of the program adds at most MaxLines lines to a file of its start,
\* or of a day with its number: the size of such a file is bounded by the number
\* of runs, and by MaxLines alone only if no two runs begin on the same day.
FilesSplit ==
  \A f \in File : f[2] # "daily" => Len(old[f] \o Lines(f)) <= MaxLines * (runs + 1)

\* Files are opened again and again, by one run and by the next, which may have
\* crashed: what was once on disk in a file stays, before all that is added.
FilesGrow == [][\A f \in File : IsPrefix(Stored(f), Stored(f)')]_vars

=============================================================================
