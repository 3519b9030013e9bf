----------------------------- MODULE LoggerProofs -----------------------------
(***************************************************************************)
(* For any number of threads, days, lines and runs of the program, any     *)
(* length of the files and of the months: types, and that no change of     *)
(* files, crash or restart loses, doubles, reorders or misplaces a line.   *)
(***************************************************************************)
EXTENDS Logger, TLAPS, SequenceTheorems, FiniteSetTheorems

LEMMA AppendLater ==
  ASSUME NEW S, NEW s \in Seq(S), NEW t \in Seq(S), NEW e \in S
  PROVE  s \o Append(t, e) = Append(s \o t, e)
OBVIOUS

LEMMA ConcatSet ==
  ASSUME NEW S, NEW s \in Seq(S), NEW t \in Seq(S)
  PROVE  ToSet(s) \subseteq ToSet(s \o t) /\ ToSet(t) \subseteq ToSet(s \o t)
<1>1. /\ Len(s) \in Nat /\ Len(t) \in Nat /\ DOMAIN s = 1 .. Len(s) /\ DOMAIN t = 1 .. Len(t)
      /\ DOMAIN (s \o t) = 1 .. Len(s) + Len(t)
      /\ \A i \in 1 .. Len(s) : (s \o t)[i] = s[i]
      /\ \A i \in 1 .. Len(t) : (s \o t)[Len(s) + i] = t[i]
  OBVIOUS
<1>2. \A i \in 1 .. Len(t) : Len(s) + i \in 1 .. Len(s) + Len(t)
  BY <1>1
<1>3. \A i \in 1 .. Len(s) : i \in 1 .. Len(s) + Len(t)
  BY <1>1
<1> QED
  BY <1>1, <1>2, <1>3 DEF ToSet

USE LoggerAssumption, NoFileAssumption

\* Lines with numbers up to k.
Entry(k) == [n : 1 .. k, day : Day]

\* There is room for the lines of the threads that have begun one.
Room == used + Cardinality(Busy) <= MaxWrites

\* The number of the first line that a file without a name of its own day has:
\* it is kept in the third part of its name.
Base(f) == MaxLines * f[3]

\* A file of this kind has lines of one group of MaxLines only, and while it is
\* open the next line is of that group.
InGroup(f) ==
  /\ Len(Lines(f)) <= MaxLines
  /\ Lines(f) # <<>> => Base(f) <= used
  /\ fp = f => /\ Base(f) <= used /\ used < Base(f) + MaxLines
               /\ Len(Lines(f)) <= used + 1 - Base(f)

Groups == \A f \in File : f[2] # "daily" => InGroup(f)

\* So have what the earlier runs left.
OldGroups == \A f \in File : f[2] # "daily" => Len(old[f]) <= MaxLines * runs

\* The line a thread has logged is on disk, or in the buffer that this thread
\* is about to flush.
Flushable(h) ==
  place[h] = "flush" /\ fp # NoFile /\ \E l \in ToSet(buffered) : l.n = mine[h]

OnDisk(h) == \E f \in File : \E l \in ToSet(disk[f]) : l.n = mine[h]

Logged == \A h \in Thread : mine[h] # 0 => OnDisk(h) \/ Flushable(h)

-----------------------------------------------------------------------------
(* Arithmetic of the groups *)

LEMMA Quotient ==
  ASSUME NEW n \in Nat \ {0}, n % MaxLines = 0
  PROVE  n \div MaxLines \in 1 .. n /\ n = MaxLines * (n \div MaxLines)
<1> DEFINE q == n \div MaxLines
<1>1. q \in Int /\ n = MaxLines * q + (n % MaxLines)
  OBVIOUS
<1>2. q \in Int /\ n = MaxLines * q
  BY <1>1
<1> HIDE DEF q
<1>3. q > 0 /\ q <= n
  BY <1>2
<1> QED
  BY <1>2, <1>3 DEF q

LEMMA GroupEnds ==
  ASSUME NEW k \in Nat, NEW n \in Nat,
         MaxLines * k <= n, n < MaxLines * k + MaxLines, ~Full(n + 1)
  PROVE  n + 1 < MaxLines * k + MaxLines
<1>1. MaxLines * (k + 1) = MaxLines * k + MaxLines /\ MaxLines * k \in Nat
  OBVIOUS
<1>2. (MaxLines * (k + 1)) % MaxLines = 0
  OBVIOUS
<1> QED
  BY <1>1, <1>2 DEF Full

-----------------------------------------------------------------------------
(* Types *)

LEMMA FileNames ==
  /\ \A f \in File : f[3] \in Nat
  /\ \A d \in Day : First(d) \in File /\ Daily(d) \in File
  /\ \A d \in Day : \A k \in 1 .. MaxWrites : Split(d, k) \in File
  /\ \A d : Daily(d)[2] = "daily" /\ First(d)[2] = "first" /\ First(d)[3] = 0
  /\ \A d, k : Split(d, k)[2] = "split" /\ Split(d, k)[3] = k
BY DEF File, First, Daily, Split

LEMMA NewNameTypes ==
  ASSUME NEW d \in Day, NEW n \in 1 .. MaxWrites, mday(d) # today \/ Full(n)
  PROVE  NewName(d, n) \in File
<1>1. CASE mday(d) # today
  BY <1>1, FileNames DEF NewName
<1>2. CASE mday(d) = today
  <2>1. n \div MaxLines \in 1 .. MaxWrites
    BY <1>2, Quotient DEF Full
  <2> QED
    BY <1>2, <2>1, FileNames DEF NewName
<1> QED
  BY <1>1, <1>2

LEMMA BusyFinite == IsFiniteSet(Busy) /\ Cardinality(Busy) \in Nat
BY FS_Subset, FS_CardinalityType DEF Busy

\* A thread that writes is one of the busy ones.
LEMMA WriterHasRoom ==
  ASSUME TypeOK, Room, NEW h \in Thread, place[h] = "write"
  PROVE  used + 1 <= MaxWrites
<1>1. Busy # {}
  BY DEF Busy
<1>2. Cardinality(Busy) >= 1
  BY <1>1, BusyFinite, FS_EmptySet
<1> QED
  BY <1>2, BusyFinite DEF Room, TypeOK

LEMMA NewFile ==
  ASSUME TypeOK, Room, NEW h \in Thread, place[h] = "write", mday(stamp[h]) # today \/ Full(used + 1)
  PROVE  NewName(stamp[h], used + 1) \in File
<1>1. used + 1 <= MaxWrites
  BY WriterHasRoom
<1>2. used \in Nat /\ stamp[h] \in Day
  BY DEF TypeOK
<1>3. used + 1 \in 1 .. MaxWrites
  BY <1>1, <1>2
<1> QED
  BY <1>2, <1>3, NewNameTypes

LEMMA EntryTypes ==
  ASSUME TypeOK
  PROVE  /\ used \in Nat /\ disk \in [File -> Seq(Entry(used))]
         /\ buffered \in Seq(Entry(used)) /\ <<>> \in Seq(Entry(used))
<1>1. used \in Nat /\ <<>> \in Seq(Entry(used))
  BY DEF TypeOK
<1>2. disk \in [File -> Seq(Entry(used))] /\ buffered \in Seq(Entry(used))
  BY DEF TypeOK, Entry
<1> QED
  BY <1>1, <1>2

\* Lines of this run and of earlier ones.
LEMMA AllEntries ==
  ASSUME TypeOK
  PROVE  /\ Entry(used) \subseteq Entry(MaxWrites)
         /\ \A f \in File : /\ old[f] \in Seq(Entry(MaxWrites)) /\ disk[f] \in Seq(Entry(MaxWrites))
                            /\ Stored(f) \in Seq(Entry(MaxWrites))
         /\ buffered \in Seq(Entry(MaxWrites)) /\ <<>> \in Seq(Entry(MaxWrites))
<1>1. Entry(used) \subseteq Entry(MaxWrites)
  BY DEF Entry, TypeOK
<1>2. buffered \in Seq(Entry(MaxWrites)) /\ <<>> \in Seq(Entry(MaxWrites))
  BY <1>1, EntryTypes, SeqMonotonic
<1>3. ASSUME NEW f \in File
      PROVE  /\ old[f] \in Seq(Entry(MaxWrites)) /\ disk[f] \in Seq(Entry(MaxWrites))
             /\ Stored(f) \in Seq(Entry(MaxWrites))
  <2>1. old[f] \in Seq(Entry(MaxWrites))
    BY DEF TypeOK, Entry
  <2>2. disk[f] \in Seq(Entry(used))
    BY EntryTypes
  <2>3. disk[f] \in Seq(Entry(MaxWrites))
    BY <1>1, <2>2, SeqMonotonic
  <2> QED
    BY <2>1, <2>3, ConcatProperties DEF Stored
<1> QED
  BY <1>1, <1>2, <1>3

LEMMA EntriesGrow ==
  ASSUME NEW k \in Nat, NEW s \in Seq(Entry(k))
  PROVE  s \in Seq(Entry(k + 1))
<1>1. Entry(k) \subseteq Entry(k + 1)
  BY DEF Entry
<1> QED
  BY <1>1, SeqMonotonic

LEMMA WrittenTypes ==
  ASSUME TypeOK, fp # NoFile
  PROVE  Written \in [File -> Seq(Entry(used))]
BY ConcatProperties DEF TypeOK, Written, Entry

LEMMA TypesInit == Init => TypeOK
<1> SUFFICES ASSUME Init PROVE TypeOK
  OBVIOUS
<1>1. 0 \in Day /\ fp \in File \cup {NoFile} /\ started \in Day /\ runs \in 0 .. MaxRuns
  BY FileNames DEF Init, Day
<1>2. \A S : <<>> \in Seq(S)
  OBVIOUS
<1> QED
  BY <1>1, <1>2 DEF Init, TypeOK

\* What the earlier runs leave, with or without the lines of the buffer.
LEMMA LeftTypes ==
  ASSUME TypeOK, NEW kept \in [File -> Seq(Entry(used))]
  PROVE  /\ Left(kept) \in [File -> Seq(Entry(MaxWrites))]
         /\ \A f \in File : /\ Left(kept)[f] = old[f] \o kept[f]
                            /\ old[f] \in Seq(Entry(MaxWrites)) /\ kept[f] \in Seq(Entry(MaxWrites))
<1>1. Entry(used) \subseteq Entry(MaxWrites)
  BY AllEntries
<1>2. \A f \in File : kept[f] \in Seq(Entry(MaxWrites)) /\ old[f] \in Seq(Entry(MaxWrites))
  <2> SUFFICES ASSUME NEW f \in File
               PROVE  kept[f] \in Seq(Entry(MaxWrites)) /\ old[f] \in Seq(Entry(MaxWrites))
    OBVIOUS
  <2>1. kept[f] \in Seq(Entry(used))
    OBVIOUS
  <2> QED
    BY <1>1, <2>1, AllEntries, SeqMonotonic
<1>3. \A f \in File : old[f] \o kept[f] \in Seq(Entry(MaxWrites))
  BY <1>2, ConcatProperties
<1> QED
  BY <1>2, <1>3 DEF Left

LEMMA RestartLeaves ==
  ASSUME TypeOK, Restart
  PROVE  \E kept \in [File -> Seq(Entry(used))] :
            old' = Left(kept) /\ (kept = disk \/ (fp # NoFile /\ kept = Written))
<1>1. disk \in [File -> Seq(Entry(used))]
  BY EntryTypes
<1>2. fp # NoFile => Written \in [File -> Seq(Entry(used))]
  BY WrittenTypes
<1> QED
  BY <1>1, <1>2 DEF Restart

LEMMA TypesStep == TypeOK /\ Room /\ [Next]_vars => TypeOK'
<1> SUFFICES ASSUME TypeOK, Room, [Next]_vars PROVE TypeOK'
  OBVIOUS
<1> USE DEF file, earlier, Goes
<1>1. ASSUME NEW h \in Thread, Enter(h) \/ Convert(h) \/ Copy(h)
      PROVE  TypeOK'
  <2>1. UNCHANGED <<day, used, fp, buffered, disk, mine, process, started, old, runs>>
    BY <1>1 DEF Enter, Convert, Copy
  <2>2. place' \in [Thread -> {"idle", "convert", "copy", "write", "flush"}]
    <3>1. \E p \in {"convert", "copy", "write"} : place' = [place EXCEPT ![h] = p]
      BY <1>1 DEF Enter, Convert, Copy
    <3> QED
      BY <3>1 DEF TypeOK
  <2>3. stamp' \in [Thread -> Day] /\ tm' \in Day
    <3>1. /\ \E d \in {day, tm, stamp[h]} : stamp' = stamp \/ stamp' = [stamp EXCEPT ![h] = d]
          /\ tm' \in {tm, stamp[h]}
      BY <1>1 DEF Enter, Convert, Copy
    <3>2. day \in Day /\ tm \in Day /\ stamp[h] \in Day /\ stamp \in [Thread -> Day]
      BY DEF TypeOK
    <3> QED
      BY <3>1, <3>2
  <2> QED
    BY <2>1, <2>2, <2>3 DEF TypeOK
<1>2. ASSUME NEW h \in Thread, WriteLine(h)
      PROVE  TypeOK'
  <2>1. used' = used + 1 /\ used' \in 1 .. MaxWrites /\ used \in Nat
    <3>1. used' = used + 1 /\ place[h] = "write"
      BY <1>2 DEF WriteLine
    <3>2. used \in Nat
      BY DEF TypeOK
    <3> QED
      BY <3>1, <3>2, WriterHasRoom
  <2>2. Line(h) \in Entry(used + 1)
    BY <2>1 DEF Line, Entry, TypeOK
  <2>3. buffered \in Seq(Entry(used + 1)) /\ disk \in [File -> Seq(Entry(used + 1))]
    BY <2>1, EntriesGrow DEF TypeOK, Entry
  <2>4. Written \in [File -> Seq(Entry(used + 1))]
    <3>1. Written \in [File -> Seq(Entry(used))]
      BY <1>2, WrittenTypes DEF WriteLine
    <3> QED
      BY <2>1, <3>1, EntriesGrow
  <2>5. disk' \in [File -> Seq(Entry(used'))]
    BY <1>2, <2>1, <2>3, <2>4 DEF WriteLine, Closed
  <2>6. buffered' \in Seq(Entry(used'))
    <3>1. Append(buffered, Line(h)) \in Seq(Entry(used + 1))
      BY <2>2, <2>3, AppendProperties
    <3>2. <<Line(h)>> \in Seq(Entry(used + 1)) /\ <<>> \in Seq(Entry(used + 1))
      BY <2>2
    <3> QED
      BY <1>2, <2>1, <3>1, <3>2 DEF WriteLine
  <2>7. fp' \in File \cup {NoFile}
    BY <1>2, <2>1, NewNameTypes DEF WriteLine, TypeOK
  <2>8. mine' \in [Thread -> 0 .. used']
    <3>1. mine \in [Thread -> 0 .. used']
      BY <2>1 DEF TypeOK
    <3>2. \A n \in {0, used'} : [mine EXCEPT ![h] = n] \in [Thread -> 0 .. used']
      BY <2>1, <3>1
    <3> QED
      BY <1>2, <2>1, <3>2 DEF WriteLine
  <2>9. place' \in [Thread -> {"idle", "convert", "copy", "write", "flush"}]
    BY <1>2 DEF WriteLine, TypeOK
  <2>10. UNCHANGED <<day, tm, stamp, process, started, old, runs>>
    BY <1>2 DEF WriteLine
  <2>11. used' \in 0 .. MaxWrites
    BY <2>1
  <2>12. /\ day' \in Day /\ tm' \in Day /\ stamp' \in [Thread -> Day] /\ process' \in {"up", "crashed"}
         /\ started' \in Day /\ runs' \in 0 .. MaxRuns
         /\ old' \in [File -> Seq([n : 1 .. MaxWrites, day : Day])]
    BY <2>10 DEF TypeOK
  <2> QED
    BY <2>5, <2>6, <2>7, <2>8, <2>9, <2>11, <2>12, Zenon DEF TypeOK, Entry
<1>3. ASSUME NEW h \in Thread, WriteNull(h)
      PROVE  TypeOK'
  BY <1>3 DEF WriteNull, TypeOK
<1>4. ASSUME NEW h \in Thread, flush_log(h)
      PROVE  TypeOK'
  <2>1. disk' \in [File -> Seq(Entry(used))] /\ buffered' \in Seq(Entry(used))
    <3>1. disk \in [File -> Seq(Entry(used))] /\ buffered \in Seq(Entry(used))
      BY DEF TypeOK, Entry
    <3>2. fp # NoFile => Written \in [File -> Seq(Entry(used))]
      BY WrittenTypes
    <3>3. <<>> \in Seq(Entry(used))
      OBVIOUS
    <3> QED
      BY <1>4, <3>1, <3>2, <3>3 DEF flush_log
  <2>2. place' \in [Thread -> {"idle", "convert", "copy", "write", "flush"}]
    BY <1>4 DEF flush_log, TypeOK
  <2>3. UNCHANGED <<day, tm, used, fp, stamp, mine, process, started, old, runs>>
    BY <1>4 DEF flush_log
  <2> QED
    BY <2>1, <2>2, <2>3 DEF TypeOK, Entry
<1>5. CASE Midnight
  <2>1. day' \in Day
    BY <1>5 DEF Midnight, TypeOK, Day
  <2>2. UNCHANGED <<tm, used, fp, buffered, disk, place, stamp, mine, process, started, old, runs>>
    BY <1>5 DEF Midnight
  <2> QED
    BY <2>1, <2>2 DEF TypeOK
<1>6. CASE UNCHANGED vars
  BY <1>6 DEF vars, TypeOK
<1>7. CASE Restart
  <2>1. day \in Day /\ First(day) \in File
    BY FileNames DEF TypeOK
  <2>2. /\ day' = day /\ started' = day /\ tm' = day /\ used' = 0 /\ process' = "up"
        /\ fp' \in {First(day), NoFile} /\ buffered' = <<>> /\ disk' = [f \in File |-> <<>>]
        /\ place' = [h \in Thread |-> "idle"] /\ stamp' = [h \in Thread |-> day]
        /\ mine' = [h \in Thread |-> 0] /\ runs' = runs + 1 /\ runs < MaxRuns
    BY <1>7 DEF Restart
  <2>3. old' \in [File -> Seq([n : 1 .. MaxWrites, day : Day])]
    BY <1>7, RestartLeaves, LeftTypes DEF Entry
  <2>4. disk' \in [File -> Seq([n : 1 .. used', day : Day])] /\ buffered' \in Seq([n : 1 .. used', day : Day])
    BY <2>2
  <2>5. mine' \in [Thread -> 0 .. used'] /\ used' \in 0 .. MaxWrites /\ runs' \in 0 .. MaxRuns
    BY <2>2 DEF TypeOK
  <2>6. /\ day' \in Day /\ tm' \in Day /\ started' \in Day /\ stamp' \in [Thread -> Day]
        /\ fp' \in File \cup {NoFile} /\ process' \in {"up", "crashed"}
        /\ place' \in [Thread -> {"idle", "convert", "copy", "write", "flush"}]
    BY <2>1, <2>2
  <2> QED
    BY <2>3, <2>4, <2>5, <2>6 DEF TypeOK
<1> QED
  BY <1>1, <1>2, <1>3, <1>4, <1>5, <1>6, <1>7 DEF Next

LEMMA RoomStep == TypeOK /\ Room /\ [Next]_vars => Room'
<1> SUFFICES ASSUME TypeOK, Room, [Next]_vars PROVE Room'
  OBVIOUS
<1> USE DEF Goes, file
<1>1. ASSUME NEW h \in Thread, Enter(h)
      PROVE  Room'
  <2>1. Busy' = Busy \cup {h} /\ used' = used
    BY <1>1 DEF Enter, Busy, TypeOK
  <2>2. used + Cardinality(Busy) < MaxWrites
    BY <1>1 DEF Enter
  <2>3. Cardinality(Busy') <= Cardinality(Busy) + 1 /\ Cardinality(Busy') \in Nat
    <3>1. IsFiniteSet(Busy \cup {h})
          /\ Cardinality(Busy \cup {h}) = IF h \in Busy THEN Cardinality(Busy) ELSE Cardinality(Busy) + 1
      BY BusyFinite, FS_AddElement
    <3> QED
      BY <2>1, <3>1, BusyFinite
  <2> QED
    BY <2>1, <2>2, <2>3, BusyFinite DEF Room, TypeOK
<1>2. ASSUME NEW h \in Thread, WriteLine(h)
      PROVE  Room'
  <2>1. Busy' = Busy \ {h} /\ h \in Busy /\ used' = used + 1
    BY <1>2 DEF WriteLine, Busy, TypeOK
  <2>2. Cardinality(Busy') = Cardinality(Busy) - 1
    BY <2>1, BusyFinite, FS_RemoveElement
  <2> QED
    BY <2>1, <2>2, BusyFinite DEF Room, TypeOK
<1>3. ASSUME Busy' = Busy, used' = used PROVE Room'
  BY <1>3 DEF Room
<1>4. ASSUME NEW h \in Thread, Convert(h) \/ Copy(h) \/ WriteNull(h) \/ flush_log(h)
      PROVE  Room'
  <2>1. used' = used
    BY <1>4 DEF Convert, Copy, WriteNull, flush_log
  <2>2. Busy' = Busy
    BY <1>4 DEF Convert, Copy, WriteNull, flush_log, Busy, TypeOK
  <2> QED
    BY <1>3, <2>1, <2>2
<1>5. CASE Midnight \/ UNCHANGED vars
  BY <1>3, <1>5 DEF Midnight, vars, Busy
<1>6. CASE Restart
  <2>1. Busy' = {} /\ used' = 0
    BY <1>6 DEF Restart, Busy
  <2> QED
    BY <2>1, FS_EmptySet DEF Room
<1> QED
  BY <1>1, <1>2, <1>4, <1>5, <1>6 DEF Next

-----------------------------------------------------------------------------
(* What a step does to the lines of the files *)

\* A line is added to one file.
Adds(f, l) == \A g \in File : Lines(g)' = IF g = f THEN Append(Lines(g), l) ELSE Lines(g)

Keeps == \A g \in File : Lines(g)' = Lines(g)

LEMMA LinesTypes ==
  ASSUME TypeOK
  PROVE  \A f \in File : Lines(f) \in Seq(Entry(used))
<1> SUFFICES ASSUME NEW f \in File PROVE Lines(f) \in Seq(Entry(used))
  OBVIOUS
<1>1. disk[f] \in Seq(Entry(used)) /\ buffered \in Seq(Entry(used)) /\ <<>> \in Seq(Entry(used))
  BY EntryTypes
<1> QED
  BY <1>1, ConcatProperties DEF Lines

\* Closing or flushing a file moves lines that it had already.
LEMMA WrittenLines ==
  ASSUME TypeOK, fp # NoFile, NEW g \in File
  PROVE  Written[g] = Lines(g)
<1>1. disk[g] \in Seq(Entry(used))
  BY DEF TypeOK, Entry
<1> QED
  BY <1>1, ConcatEmptySeq DEF Written, Lines, TypeOK

\* A line goes to the file that is open after it, whatever happened before.
LEMMA WriteAdds ==
  ASSUME TypeOK, Room, NEW h \in Thread, WriteLine(h)
  PROVE  /\ fp \in File /\ used' = used + 1
         /\ fp' \in File => Adds(fp', Line(h))
         /\ fp' \notin File => Keeps /\ fp' = NoFile
<1>1. fp \in File /\ used' = used + 1
  BY DEF WriteLine, TypeOK
<1>2. \A g \in File : disk[g] \in Seq(Entry(used + 1)) /\ buffered \in Seq(Entry(used + 1))
                      /\ Lines(g) \in Seq(Entry(used + 1))
  <2> SUFFICES ASSUME NEW g \in File
               PROVE  /\ disk[g] \in Seq(Entry(used + 1)) /\ buffered \in Seq(Entry(used + 1))
                      /\ Lines(g) \in Seq(Entry(used + 1))
    OBVIOUS
  <2>1. /\ used \in Nat /\ disk[g] \in Seq(Entry(used)) /\ buffered \in Seq(Entry(used))
        /\ Lines(g) \in Seq(Entry(used))
    BY EntryTypes, LinesTypes
  <2> QED
    BY <2>1, EntriesGrow
<1>3. Line(h) \in Entry(used + 1)
  BY DEF Line, Entry, TypeOK
<1>4. CASE fp' = fp /\ disk' = disk /\ buffered' = Append(buffered, Line(h))
  <2>1. disk[fp] \o Append(buffered, Line(h)) = Append(disk[fp] \o buffered, Line(h))
    <3> DEFINE E == Entry(used + 1)
    <3>1. disk[fp] \in Seq(E) /\ buffered \in Seq(E) /\ Line(h) \in E
      BY <1>1, <1>2, <1>3
    <3> HIDE DEF E
    <3>2. \A s, t \in Seq(E) : \A e \in E : s \o Append(t, e) = Append(s \o t, e)
      BY AppendLater
    <3> QED
      BY <3>1, <3>2, Zenon
  <2>2. Adds(fp', Line(h))
    BY <1>4, <2>1 DEF Adds, Lines
  <2> QED
    BY <1>1, <1>4, <2>2
<1>5. CASE disk' = Written /\ fp' \in File /\ buffered' = <<Line(h)>>
  <2>1. \A g \in File : disk'[g] = Lines(g) /\ Lines(g) \o <<>> = Lines(g)
    BY <1>1, <1>2, <1>5, WrittenLines, ConcatEmptySeq, NoFileAssumption
  <2>2. \A g \in File : Lines(g) \o <<Line(h)>> = Append(Lines(g), Line(h))
    BY <1>2, <1>3, AppendIsConcat
  <2>3. Adds(fp', Line(h))
    BY <1>5, <2>1, <2>2 DEF Adds, Lines
  <2> QED
    BY <1>1, <1>5, <2>3
<1>6. CASE disk' = Written /\ fp' = NoFile /\ buffered' = <<>>
  <2>1. \A g \in File : disk'[g] = Lines(g) /\ Lines(g) \o <<>> = Lines(g) /\ g # NoFile
    BY <1>1, <1>2, <1>6, WrittenLines, ConcatEmptySeq, NoFileAssumption
  <2>2. Keeps
    BY <1>6, <2>1 DEF Keeps, Lines
  <2> QED
    BY <1>1, <1>6, <2>2
<1>7. TypeOK'
  BY TypesStep DEF Next
<1>8. fp' = NoFile \/ fp' \in File
  BY <1>7 DEF TypeOK
<1>9. CASE mday(stamp[h]) = today /\ ~Full(used + 1)
  BY <1>4, <1>9 DEF WriteLine
<1>10. CASE mday(stamp[h]) # today \/ Full(used + 1)
  <2>1. NewName(stamp[h], used + 1) \in File
    BY <1>10, NewFile DEF WriteLine, Goes
  <2> QED
    BY <1>5, <1>6, <1>10, <2>1 DEF WriteLine, Closed
<1> QED
  BY <1>9, <1>10

LEMMA OthersKeep ==
  ASSUME TypeOK, [Next]_vars, ~ Restart, ~ \E h \in Thread : WriteLine(h)
  PROVE  Keeps /\ UNCHANGED <<used, fp, mine, earlier>>
<1> USE DEF Goes, file, earlier
<1>1. ASSUME NEW h \in Thread, flush_log(h)
      PROVE  Keeps /\ UNCHANGED <<used, fp, mine, earlier>>
  <2>1. UNCHANGED <<used, fp, mine, earlier>>
    BY <1>1 DEF flush_log
  <2>2. CASE fp # NoFile /\ disk' = Written /\ buffered' = <<>>
    <3>1. \A g \in File : disk'[g] = Lines(g) /\ Lines(g) \o <<>> = Lines(g)
      BY <2>2, WrittenLines, LinesTypes, ConcatEmptySeq
    <3> QED
      BY <2>1, <2>2, <3>1 DEF Keeps, Lines
  <2>3. CASE UNCHANGED <<disk, buffered>>
    BY <2>1, <2>3 DEF Keeps, Lines
  <2> QED
    BY <1>1, <2>2, <2>3 DEF flush_log
<1>2. ASSUME UNCHANGED <<used, fp, mine, disk, buffered, earlier>>
      PROVE  Keeps /\ UNCHANGED <<used, fp, mine, earlier>>
  BY <1>2 DEF Keeps, Lines
<1>3. ASSUME NEW h \in Thread, Enter(h) \/ Convert(h) \/ Copy(h) \/ WriteNull(h)
      PROVE  UNCHANGED <<used, fp, mine, disk, buffered, earlier>>
  BY <1>3 DEF Enter, Convert, Copy, WriteNull
<1>4. CASE Midnight \/ UNCHANGED vars
  BY <1>2, <1>4 DEF Midnight, vars
<1> QED
  BY <1>1, <1>2, <1>3, <1>4 DEF Next

\* A new run begins without lines of its own.
LEMMA RestartFresh ==
  ASSUME Restart
  PROVE  /\ \A f \in File : Lines(f)' = <<>> /\ Numbers(f)' = {}
         /\ used' = 0 /\ fp' \in {First(day), NoFile} /\ runs' = runs + 1
         /\ \A h \in Thread : mine'[h] = 0
<1>1. \A f \in File : Lines(f)' = <<>>
  BY DEF Restart, Lines
<1>2. \A f \in File : Numbers(f)' = {}
  BY <1>1 DEF Numbers, ToSet
<1> QED
  BY <1>1, <1>2 DEF Restart

-----------------------------------------------------------------------------
(* The properties *)

Increasing(s) == \A i, j \in DOMAIN s : i < j => s[i].n < s[j].n

LEMMA IncreasingAppend ==
  ASSUME NEW k \in Nat, NEW s \in Seq(Entry(k)), Increasing(s), NEW l \in Entry(k + 1), l.n = k + 1
  PROVE  Increasing(Append(s, l))
<1>1. \A i \in 1 .. Len(s) : s[i].n \in 1 .. k
  <2> SUFFICES ASSUME NEW i \in 1 .. Len(s) PROVE s[i].n \in 1 .. k
    OBVIOUS
  <2>1. s[i] \in Entry(k)
    BY ElementOfSeq
  <2> QED
    BY <2>1 DEF Entry
<1>2. /\ Len(s) \in Nat /\ DOMAIN s = 1 .. Len(s) /\ DOMAIN Append(s, l) = 1 .. Len(s) + 1
      /\ \A i \in 1 .. Len(s) : Append(s, l)[i] = s[i]
      /\ Append(s, l)[Len(s) + 1] = l
  BY AppendProperties, LenProperties
<1> QED
  BY <1>1, <1>2 DEF Increasing

LEMMA AppendSet ==
  ASSUME NEW S, NEW s \in Seq(S), NEW l \in S
  PROVE  ToSet(Append(s, l)) = ToSet(s) \cup {l}
<1>1. /\ Len(s) \in Nat /\ DOMAIN s = 1 .. Len(s) /\ DOMAIN Append(s, l) = 1 .. Len(s) + 1
      /\ \A i \in 1 .. Len(s) : Append(s, l)[i] = s[i]
      /\ Append(s, l)[Len(s) + 1] = l
  BY AppendProperties, LenProperties
<1> QED
  BY <1>1 DEF ToSet

LEMMA LineTypes ==
  ASSUME TypeOK, NEW h \in Thread
  PROVE  Line(h) \in Entry(used + 1) /\ Line(h).n = used + 1 /\ Line(h).day = stamp[h]
<1>1. used \in Nat /\ stamp[h] \in Day
  BY DEF TypeOK
<1> QED
  BY <1>1 DEF Line, Entry

LEMMA NumbersBelow ==
  ASSUME TypeOK
  PROVE  \A f \in File : Numbers(f) \subseteq 1 .. used
<1> SUFFICES ASSUME NEW f \in File PROVE Numbers(f) \subseteq 1 .. used
  OBVIOUS
<1>1. Lines(f) \in Seq(Entry(used))
  BY LinesTypes
<1>2. \A l \in ToSet(Lines(f)) : l \in Entry(used)
  BY <1>1, LenProperties, ElementOfSeq DEF ToSet
<1> QED
  BY <1>2 DEF Numbers, Entry

LEMMA NumbersAdded ==
  ASSUME TypeOK, NEW f \in File, NEW l \in Entry(used + 1), Adds(f, l)
  PROVE  \A g \in File : Numbers(g)' = IF g = f THEN Numbers(g) \cup {l.n} ELSE Numbers(g)
<1> SUFFICES ASSUME NEW g \in File
             PROVE  Numbers(g)' = IF g = f THEN Numbers(g) \cup {l.n} ELSE Numbers(g)
  OBVIOUS
<1>1. Lines(g) \in Seq(Entry(used + 1))
  BY LinesTypes, EntryTypes, EntriesGrow
<1>2. Lines(g)' = IF g = f THEN Append(Lines(g), l) ELSE Lines(g)
  BY DEF Adds
<1>3. ToSet(Append(Lines(g), l)) = ToSet(Lines(g)) \cup {l}
  BY <1>1, AppendSet
<1>4. Numbers(g)' = {k.n : k \in ToSet(Lines(g)')}
  BY DEF Numbers
<1> QED
  BY <1>2, <1>3, <1>4 DEF Numbers

LEMMA OrderStep == TypeOK /\ Room /\ OnceInOrder /\ [Next]_vars => OnceInOrder'
<1> SUFFICES ASSUME TypeOK, Room, OnceInOrder, [Next]_vars PROVE OnceInOrder'
  OBVIOUS
<1>0. \A f \in File : Increasing(Lines(f))
  BY DEF OnceInOrder, Increasing
<1>1. CASE Keeps /\ used' = used /\ fp' = fp
  <2>1. \A f \in File : Lines(f)' = Lines(f) /\ Numbers(f)' = Numbers(f)
    BY <1>1 DEF Keeps, Numbers
  <2> QED
    BY <1>1, <2>1 DEF OnceInOrder
<1>2. ASSUME NEW h \in Thread, WriteLine(h)
      PROVE  OnceInOrder'
  <2>1. /\ fp \in File /\ fp # NoFile /\ used' = used + 1 /\ used \in Nat
        /\ Line(h) \in Entry(used + 1) /\ Line(h).n = used + 1
    BY <1>2, WriteAdds, LineTypes, EntryTypes
  <2>2. UNION {Numbers(f) : f \in File} = 1 .. used
    BY <2>1 DEF OnceInOrder
  <2>3. CASE fp' \in File
    <3>1. Adds(fp', Line(h)) /\ fp' # NoFile
      BY <1>2, <2>3, WriteAdds
    <3>2. \A g \in File : Numbers(g)' = IF g = fp' THEN Numbers(g) \cup {used + 1} ELSE Numbers(g)
      BY <2>1, <2>3, <3>1, NumbersAdded
    <3>3. \A g \in File : Numbers(g) \subseteq 1 .. used
      BY NumbersBelow
    <3>4. ASSUME NEW f \in File, NEW g \in File, f # g
          PROVE  Numbers(f)' \cap Numbers(g)' = {}
      <4>1. Numbers(f) \cap Numbers(g) = {}
        BY <3>4 DEF OnceInOrder
      <4>2. used + 1 \notin Numbers(f) /\ used + 1 \notin Numbers(g)
        BY <2>1, <3>3
      <4> QED
        BY <3>2, <3>4, <4>1, <4>2
    <3>5. UNION {Numbers(f)' : f \in File} = 1 .. used'
      <4>1. UNION {Numbers(f)' : f \in File} = (UNION {Numbers(f) : f \in File}) \cup {used + 1}
        <5>1. \A n : (\E f \in File : n \in Numbers(f)') <=> (\E f \in File : n \in Numbers(f)) \/ n = used + 1
          BY <2>3, <3>2
        <5> QED
          BY <5>1, Zenon
      <4>2. 1 .. used + 1 = (1 .. used) \cup {used + 1}
        BY <2>1
      <4> QED
        BY <2>1, <2>2, <4>1, <4>2
    <3>6. \A f \in File : Increasing(Lines(f)')
      <4> SUFFICES ASSUME NEW f \in File PROVE Increasing(Lines(f)')
        OBVIOUS
      <4>1. Lines(f) \in Seq(Entry(used)) /\ Increasing(Lines(f))
        BY <1>0, LinesTypes
      <4>2. Increasing(Append(Lines(f), Line(h)))
        BY <2>1, <4>1, IncreasingAppend
      <4> QED
        BY <3>1, <4>1, <4>2 DEF Adds
    <3> QED
      BY <3>1, <3>4, <3>5, <3>6 DEF OnceInOrder, Increasing
  <2>4. CASE fp' \notin File
    <3>1. Keeps /\ fp' = NoFile
      BY <1>2, <2>4, WriteAdds
    <3>2. \A f \in File : Lines(f)' = Lines(f) /\ Numbers(f)' = Numbers(f)
      BY <3>1 DEF Keeps, Numbers
    <3>3. UNION {Numbers(f)' : f \in File} = 1 .. used' - 1
      BY <2>1, <2>2, <3>2
    <3> QED
      BY <3>1, <3>2, <3>3 DEF OnceInOrder
  <2> QED
    BY <2>3, <2>4
<1>3. CASE Restart
  <2>1. \A f \in File : Lines(f)' = <<>> /\ Numbers(f)' = {}
    BY <1>3, RestartFresh
  <2>2. used' = 0
    BY <1>3, RestartFresh
  <2>3. UNION {Numbers(f)' : f \in File} = {}
    BY <2>1
  <2> QED
    BY <2>1, <2>2, <2>3 DEF OnceInOrder
<1> QED
  BY <1>1, <1>2, <1>3, OthersKeep

LEMMA DaysStep == TypeOK /\ Room /\ DaysApart /\ [Next]_vars => DaysApart'
<1> SUFFICES ASSUME TypeOK, Room, DaysApart, [Next]_vars PROVE DaysApart'
  OBVIOUS
<1>1. CASE Keeps /\ started' = started
  BY <1>1 DEF Keeps, DaysApart, today
<1>2. ASSUME NEW h \in Thread, WriteLine(h), fp' \in File
      PROVE  DaysApart'
  <2>1. Adds(fp', Line(h)) /\ Line(h) \in Entry(used + 1) /\ Line(h).day = stamp[h]
    BY <1>2, WriteAdds, LineTypes
  <2>0. started' = started
    BY <1>2 DEF WriteLine, earlier
  <2>2. mday(stamp[h]) # today => fp' = Daily(stamp[h])
    BY <1>2, NoFileAssumption DEF WriteLine, NewName
  <2> SUFFICES ASSUME NEW f \in File, NEW l \in ToSet(Lines(f)'), mday(l.day) # today
               PROVE  f = Daily(l.day)
    BY <2>0 DEF DaysApart, today
  <2>3. Lines(f) \in Seq(Entry(used + 1))
    BY LinesTypes, EntryTypes, EntriesGrow
  <2>4. CASE f = fp'
    <3>1. ToSet(Lines(f)') = ToSet(Lines(f)) \cup {Line(h)}
      <4>1. Lines(f)' = Append(Lines(f), Line(h))
        BY <2>1, <2>4 DEF Adds
      <4>2. ToSet(Append(Lines(f), Line(h))) = ToSet(Lines(f)) \cup {Line(h)}
        BY <2>1, <2>3, AppendSet
      <4> QED
        BY <4>1, <4>2
    <3>2. CASE l = Line(h)
      BY <2>1, <2>2, <2>4, <3>2
    <3> QED
      BY <3>1, <3>2 DEF DaysApart
  <2>5. CASE f # fp'
    BY <2>1, <2>5 DEF Adds, DaysApart
  <2> QED
    BY <2>4, <2>5
<1>3. CASE Restart
  BY <1>3, RestartFresh DEF DaysApart, ToSet
<1>4. ASSUME NEW h \in Thread, WriteLine(h) PROVE started' = started
  BY <1>4 DEF WriteLine, earlier
<1> QED
  BY <1>1, <1>2, <1>3, <1>4, OthersKeep, WriteAdds DEF earlier

LEMMA LoggedStep == TypeOK /\ Room /\ Logged /\ [Next]_vars => Logged'
<1> SUFFICES ASSUME TypeOK, Room, Logged, [Next]_vars PROVE Logged'
  OBVIOUS
<1> USE DEF Goes, file
\* A line that is on disk stays there, and what is written goes there.
<1>1. ASSUME fp # NoFile, disk' = Written
      PROVE  /\ \A h \in Thread : mine'[h] = mine[h] /\ OnDisk(h) => OnDisk(h)'
             /\ \A h \in Thread : mine'[h] = mine[h] /\ Flushable(h) => OnDisk(h)'
  <2>1. \A f \in File : disk'[f] = Lines(f)
    BY <1>1, WrittenLines
  <2>2. \A f \in File : ToSet(disk[f]) \subseteq ToSet(Lines(f))
    <3> SUFFICES ASSUME NEW f \in File PROVE ToSet(disk[f]) \subseteq ToSet(Lines(f))
      OBVIOUS
    <3>1. disk[f] \in Seq(Entry(used)) /\ buffered \in Seq(Entry(used))
      BY EntryTypes
    <3>2. Lines(f) = disk[f] \/ Lines(f) = disk[f] \o buffered
      BY <3>1, ConcatEmptySeq DEF Lines
    <3> QED
      BY <3>1, <3>2, ConcatSet
  <2>3. fp \in File /\ ToSet(buffered) \subseteq ToSet(Lines(fp))
    <3>1. fp \in File /\ disk[fp] \in Seq(Entry(used)) /\ buffered \in Seq(Entry(used))
      BY <1>1, EntryTypes DEF TypeOK
    <3> QED
      BY <3>1, ConcatSet DEF Lines
  <2> QED
    BY <2>1, <2>2, <2>3 DEF OnDisk, Flushable
<1>2. ASSUME NEW h \in Thread, UNCHANGED <<fp, disk, buffered, mine>>,
             Enter(h) \/ Convert(h) \/ Copy(h)
      PROVE  Logged'
  <2>1. ASSUME NEW g \in Thread, Flushable(g)
        PROVE  Flushable(g)'
    BY <1>2, <2>1 DEF Enter, Convert, Copy, Flushable, TypeOK
  <2> QED
    BY <1>2, <2>1 DEF Logged, OnDisk
<1>3. ASSUME UNCHANGED <<fp, disk, buffered, mine, place>>
      PROVE  Logged'
  BY <1>3 DEF Logged, OnDisk, Flushable
<1>4. ASSUME NEW h \in Thread, flush_log(h)
      PROVE  Logged'
  <2> SUFFICES ASSUME NEW g \in Thread, mine'[g] # 0
               PROVE  OnDisk(g)' \/ Flushable(g)'
    BY DEF Logged
  <2>1. mine' = mine /\ fp' = fp
    BY <1>4 DEF flush_log
  <2>2. OnDisk(g) \/ Flushable(g)
    BY <2>1 DEF Logged
  <2>3. CASE fp # NoFile
    BY <1>1, <1>4, <2>1, <2>2, <2>3 DEF flush_log
  <2>4. CASE fp = NoFile
    BY <1>4, <2>1, <2>2, <2>4 DEF flush_log, OnDisk, Flushable
  <2> QED
    BY <2>3, <2>4
<1>5. ASSUME NEW h \in Thread, WriteLine(h)
      PROVE  Logged'
  <2> SUFFICES ASSUME NEW g \in Thread, mine'[g] # 0
               PROVE  OnDisk(g)' \/ Flushable(g)'
    BY DEF Logged
  <2>1. fp # NoFile /\ place' = [place EXCEPT ![h] = "flush"] /\ buffered \in Seq(Entry(used + 1))
    BY <1>5, EntryTypes, EntriesGrow DEF WriteLine
  <2>2. Line(h) \in Entry(used + 1) /\ Line(h).n = used + 1
    BY LineTypes
  <2>3. CASE g = h
    <3>1. fp' # NoFile /\ mine'[h] = used + 1 /\ place'[h] = "flush"
      <4>1. place'[h] = "flush" /\ place[h] = "write" /\ used' = used + 1
        BY <1>5, <2>1 DEF WriteLine, TypeOK
      <4>2. mday(stamp[h]) # today \/ Full(used + 1) => NewName(stamp[h], used + 1) # NoFile
        BY <4>1, NewFile, NoFileAssumption
      <4>3. mine' = [mine EXCEPT ![h] = used + 1] /\ fp' # NoFile
        BY <1>5, <2>1, <2>3, <4>2 DEF WriteLine, TypeOK
      <4> QED
        BY <4>1, <4>3 DEF TypeOK
    <3>2. Line(h) \in ToSet(buffered')
      <4>1. ToSet(Append(buffered, Line(h))) = ToSet(buffered) \cup {Line(h)}
        BY <2>1, <2>2, AppendSet
      <4>2. ToSet(<<Line(h)>>) = {Line(h)}
        BY DEF ToSet
      <4> QED
        BY <1>5, <3>1, <4>1, <4>2 DEF WriteLine
    <3> QED
      BY <2>2, <2>3, <3>1, <3>2 DEF Flushable
  <2>4. CASE g # h
    <3>1. mine'[g] = mine[g] /\ place'[g] = place[g]
      BY <1>5, <2>4 DEF WriteLine, TypeOK
    <3>2. OnDisk(g) \/ Flushable(g)
      BY <3>1 DEF Logged
    <3>3. CASE disk' = Written
      BY <1>1, <2>1, <3>1, <3>2, <3>3
    <3>4. CASE fp' = fp /\ disk' = disk /\ buffered' = Append(buffered, Line(h))
      <4>1. ToSet(buffered') = ToSet(buffered) \cup {Line(h)}
        BY <2>1, <2>2, <3>4, AppendSet
      <4> QED
        BY <3>1, <3>2, <3>4, <4>1 DEF OnDisk, Flushable
    <3> QED
      BY <1>5, <3>3, <3>4 DEF WriteLine, Closed
  <2> QED
    BY <2>3, <2>4
<1>6. ASSUME NEW h \in Thread, WriteNull(h)
      PROVE  Logged'
  BY <1>3, <1>6 DEF WriteNull
<1>7. CASE Midnight \/ UNCHANGED vars
  BY <1>3, <1>7 DEF Midnight, vars
<1>8. ASSUME NEW h \in Thread, Enter(h) \/ Convert(h) \/ Copy(h)
      PROVE  UNCHANGED <<fp, disk, buffered, mine>>
  BY <1>8 DEF Enter, Convert, Copy
<1>9. CASE Restart
  BY <1>9, RestartFresh DEF Logged
<1> QED
  BY <1>2, <1>4, <1>5, <1>6, <1>7, <1>8, <1>9 DEF Next

\* What a run leaves is what it has written, or less by the lines of the buffer.
LEMMA LeftLengths ==
  ASSUME TypeOK, Restart
  PROVE  \A f \in File : \E n \in Nat : n <= Len(Lines(f)) /\ Len(old'[f]) = Len(old[f]) + n
<1>1. PICK kept \in [File -> Seq(Entry(used))] :
         old' = Left(kept) /\ (kept = disk \/ (fp # NoFile /\ kept = Written))
  BY RestartLeaves
<1> SUFFICES ASSUME NEW f \in File
             PROVE  \E n \in Nat : n <= Len(Lines(f)) /\ Len(old'[f]) = Len(old[f]) + n
  OBVIOUS
<1>2. Len(old'[f]) = Len(old[f]) + Len(kept[f]) /\ Len(kept[f]) \in Nat
  <2>1. /\ old'[f] = old[f] \o kept[f]
        /\ old[f] \in Seq(Entry(MaxWrites)) /\ kept[f] \in Seq(Entry(MaxWrites))
    BY <1>1, LeftTypes
  <2> QED
    BY <2>1, ConcatProperties, LenProperties
<1>3. Len(kept[f]) <= Len(Lines(f))
  <2>1. disk[f] \in Seq(Entry(used)) /\ buffered \in Seq(Entry(used)) /\ <<>> \in Seq(Entry(used))
    BY EntryTypes
  <2>2. Len(disk[f]) <= Len(Lines(f))
    <3>1. \A t \in Seq(Entry(used)) : Len(disk[f]) <= Len(disk[f] \o t)
      BY <2>1
    <3> QED
      BY <2>1, <3>1 DEF Lines
  <2>3. CASE kept = disk
    BY <2>2, <2>3
  <2>4. CASE fp # NoFile /\ kept = Written
    <3>1. kept[f] = Lines(f) /\ Len(Lines(f)) \in Nat
      BY <2>4, WrittenLines, LinesTypes, LenProperties
    <3> QED
      BY <3>1
  <2> QED
    BY <1>1, <2>3, <2>4
<1> QED
  BY <1>2, <1>3

LEMMA OldStep == TypeOK /\ Room /\ Groups /\ OldGroups /\ [Next]_vars => OldGroups'
<1> SUFFICES ASSUME TypeOK, Room, Groups, OldGroups, [Next]_vars PROVE OldGroups'
  OBVIOUS
<1>1. CASE UNCHANGED <<old, runs>>
  BY <1>1 DEF OldGroups
<1>2. CASE Restart
  <2> SUFFICES ASSUME NEW f \in File, f[2] # "daily"
               PROVE  Len(old'[f]) <= MaxLines * runs'
    BY DEF OldGroups
  <2>1. PICK n \in Nat : n <= Len(Lines(f)) /\ Len(old'[f]) = Len(old[f]) + n
    BY <1>2, LeftLengths
  <2>2. Len(Lines(f)) <= MaxLines /\ Len(old[f]) <= MaxLines * runs
    BY DEF Groups, InGroup, OldGroups
  <2>3. Len(Lines(f)) \in Nat /\ Len(old[f]) \in Nat /\ runs \in Nat
    BY LinesTypes, LenProperties DEF TypeOK
  <2>4. runs' = runs + 1 /\ MaxLines * (runs + 1) = MaxLines * runs + MaxLines /\ MaxLines * runs \in Nat
    BY <1>2, <2>3, RestartFresh
  <2> QED
    BY <2>1, <2>2, <2>3, <2>4
<1>3. ASSUME NEW h \in Thread, WriteLine(h) PROVE UNCHANGED <<old, runs>>
  BY <1>3 DEF WriteLine, earlier
<1> QED
  BY <1>1, <1>2, <1>3, OthersKeep DEF earlier

LEMMA GroupsStep == TypeOK /\ Room /\ Groups /\ [Next]_vars => Groups'
<1> SUFFICES ASSUME TypeOK, Room, Groups, [Next]_vars PROVE Groups'
  OBVIOUS
<1>1. CASE Keeps /\ used' = used /\ fp' = fp
  BY <1>1 DEF Keeps, Groups, InGroup, Base
<1>2. ASSUME NEW h \in Thread, WriteLine(h)
      PROVE  Groups'
  <2> SUFFICES ASSUME NEW f \in File, f[2] # "daily"
               PROVE  InGroup(f)'
    BY DEF Groups
  <2>1. /\ used' = used + 1 /\ used \in Nat /\ fp # NoFile
        /\ Line(h) \in Entry(used + 1) /\ Lines(f) \in Seq(Entry(used + 1))
        /\ f[3] \in Nat /\ Base(f) \in Nat /\ Len(Lines(f)) \in Nat
    <3>1. used \in Nat /\ Lines(f) \in Seq(Entry(used)) /\ f[3] \in Nat
      BY EntryTypes, LinesTypes, FileNames
    <3>2. Lines(f) \in Seq(Entry(used + 1)) /\ Len(Lines(f)) \in Nat
      BY <3>1, EntriesGrow, LenProperties
    <3>3. Base(f) \in Nat
      BY <3>1 DEF Base
    <3>4. used' = used + 1 /\ fp # NoFile
      BY <1>2 DEF WriteLine
    <3> QED
      BY <3>1, <3>2, <3>3, <3>4, LineTypes
  <2>2. InGroup(f)
    BY DEF Groups
  <2>3. ASSUME fp' # f, Lines(f)' = Lines(f)
        PROVE  InGroup(f)'
    BY <2>1, <2>2, <2>3 DEF InGroup, Base
  <2>4. CASE fp' = f
    <3>1. Lines(f)' = Append(Lines(f), Line(h))
      BY <1>2, <2>4, WriteAdds DEF Adds
    <3>2. Len(Lines(f)') = Len(Lines(f)) + 1
      BY <2>1, <3>1, AppendProperties
    <3>3. CASE fp' = fp /\ ~Full(used + 1)
      <4>1. Base(f) <= used /\ used < Base(f) + MaxLines /\ Len(Lines(f)) <= used + 1 - Base(f)
        BY <2>2, <2>4, <3>3 DEF InGroup
      <4>2. used + 1 < Base(f) + MaxLines
        BY <2>1, <3>3, <4>1, GroupEnds DEF Base
      <4>3. Base(f)' = Base(f)
        BY DEF Base
      <4> QED
        BY <2>1, <3>2, <4>1, <4>2, <4>3 DEF InGroup
    <3>4. CASE fp' = NewName(stamp[h], used + 1) /\ (mday(stamp[h]) # today \/ Full(used + 1))
      <4>1. f = Split(stamp[h], (used + 1) \div MaxLines) /\ Full(used + 1)
        BY <2>4, <3>4, FileNames DEF NewName
      <4>2. Base(f) = used + 1
        <5>1. f[3] = (used + 1) \div MaxLines
          BY <4>1, FileNames
        <5>2. used + 1 \in Nat \ {0} /\ (used + 1) % MaxLines = 0
          BY <2>1, <4>1 DEF Full
        <5> QED
          BY <5>1, <5>2, Quotient DEF Base
      <4>3. Lines(f) = <<>>
        BY <2>1, <2>2, <4>2 DEF InGroup
      <4>4. Len(Lines(f)') = 1 /\ Base(f)' = used + 1
        BY <3>2, <4>2, <4>3 DEF Base
      <4> QED
        BY <2>1, <4>4 DEF InGroup
    <3> QED
      BY <1>2, <2>4, <3>3, <3>4, NoFileAssumption DEF WriteLine
  <2>5. CASE fp' # f
    <3>1. Lines(f)' = Lines(f)
      BY <1>2, <2>5, WriteAdds DEF Adds, Keeps
    <3> QED
      BY <2>3, <2>5, <3>1
  <2> QED
    BY <2>4, <2>5
<1>3. CASE Restart
  <2> SUFFICES ASSUME NEW f \in File, f[2] # "daily"
               PROVE  InGroup(f)'
    BY DEF Groups
  <2>1. Lines(f)' = <<>> /\ used' = 0 /\ fp' \in {First(day), NoFile}
    BY <1>3, RestartFresh
  <2>2. fp' = f => Base(f)' = 0
    <3>1. day \in Day /\ First(day)[3] = 0
      BY FileNames DEF TypeOK
    <3> QED
      BY <2>1, <3>1, NoFileAssumption DEF Base
  <2> QED
    BY <2>1, <2>2 DEF InGroup
<1> QED
  BY <1>1, <1>2, <1>3, OthersKeep

-----------------------------------------------------------------------------
(* Theorems *)

IInv == TypeOK /\ Room /\ OnceInOrder /\ Logged /\ DaysApart /\ Groups /\ OldGroups

LEMMA InitIInv == Init => IInv
<1> SUFFICES ASSUME Init PROVE IInv
  OBVIOUS
<1>1. TypeOK
  BY TypesInit
<1>2. Room
  <2>1. Busy = {}
    BY DEF Init, Busy
  <2> QED
    BY <2>1, FS_EmptySet DEF Init, Room
<1>3. \A f \in File : Lines(f) = <<>>
  BY DEF Init, Lines
<1>4. \A f \in File : Numbers(f) = {}
  BY <1>3 DEF Numbers, ToSet
<1>5. OnceInOrder
  <2>1. UNION {Numbers(f) : f \in File} = {}
    BY <1>4
  <2>2. used = 0
    BY DEF Init
  <2> QED
    BY <1>3, <1>4, <2>1, <2>2 DEF OnceInOrder
<1>6. Logged
  BY DEF Init, Logged
<1>7. DaysApart
  BY <1>3 DEF DaysApart, ToSet
<1>8. Groups
  <2>1. used = 0 /\ fp \in {First(0), NoFile} /\ First(0)[3] = 0
    BY DEF Init, First
  <2>2. \A f \in File : fp = f => Base(f) = 0
    BY <2>1, NoFileAssumption DEF Base
  <2> QED
    BY <1>3, <2>1, <2>2 DEF Groups, InGroup
<1>9. OldGroups
  BY DEF Init, OldGroups
<1> QED
  BY <1>1, <1>2, <1>5, <1>6, <1>7, <1>8, <1>9 DEF IInv

LEMMA StepIInv == IInv /\ [Next]_vars => IInv'
BY TypesStep, RoomStep, OrderStep, LoggedStep, DaysStep, GroupsStep, OldStep DEF IInv

\* log.cpp's state keeps its types: in particular the names of its files are
\* those of days and of multiples of _max_log_lines.
THEOREM TypeCorrect == Spec => []TypeOK
<1>1. IInv => TypeOK
  BY DEF IInv
<1> QED
  BY <1>1, InitIInv, StepIInv, PTL DEF Spec

\* write_log loses, doubles or reorders no line when it changes files, for any
\* number of threads, days and lines.
THEOREM LinesKeepOrder == Spec => []OnceInOrder
<1>1. IInv => OnceInOrder
  BY DEF IInv
<1> QED
  BY <1>1, InitIInv, StepIInv, PTL DEF Spec

\* When LOG_INFO or LOG_ERROR has returned its line is on disk, although the
\* mutex is given up between write_log and flush_log.
THEOREM ReturnedIsOnDisk == Spec => []LoggedIsOnDisk
<1>1. IInv => LoggedIsOnDisk
  BY DEF IInv, Logged, OnDisk, Flushable, LoggedIsOnDisk
<1> QED
  BY <1>1, InitIInv, StepIInv, PTL DEF Spec

\* write_log puts a line of another day of the month into the file of the day
\* it carries, whatever localtime's shared buffer made of its day.
THEOREM DaysStayApart == Spec => []DaysApart
<1>1. IInv => DaysApart
  BY DEF IInv
<1> QED
  BY <1>1, InitIInv, StepIInv, PTL DEF Spec

\* write_log splits: a file of a start or of a number gets at most
\* _max_log_lines lines from each run of the program, however often it is
\* started on the same day.
THEOREM FilesStaySplit == Spec => []FilesSplit
<1>1. IInv => FilesSplit
  <2> SUFFICES ASSUME IInv, NEW f \in File, f[2] # "daily"
               PROVE  Len(old[f] \o Lines(f)) <= MaxLines * (runs + 1)
    BY DEF FilesSplit
  <2>0. TypeOK /\ Groups /\ OldGroups
    BY DEF IInv
  <2>1. Len(Lines(f)) <= MaxLines /\ Len(old[f]) <= MaxLines * runs
    BY <2>0 DEF Groups, InGroup, OldGroups
  <2>2. Lines(f) \in Seq(Entry(used)) /\ old[f] \in Seq(Entry(MaxWrites)) /\ runs \in Nat
    <3>1. Lines(f) \in Seq(Entry(used)) /\ old[f] \in Seq(Entry(MaxWrites))
      BY <2>0, LinesTypes, AllEntries
    <3>2. runs \in Nat
      BY <2>0 DEF TypeOK
    <3> QED
      BY <3>1, <3>2
  <2>3. Len(old[f] \o Lines(f)) = Len(old[f]) + Len(Lines(f))
    BY <2>2
  <2>4. MaxLines * (runs + 1) = MaxLines * runs + MaxLines /\ MaxLines * runs \in Nat
    BY <2>2
  <2>5. Len(Lines(f)) \in Nat /\ Len(old[f]) \in Nat
    BY <2>2, LenProperties
  <2> QED
    BY <2>1, <2>3, <2>4, <2>5
<1> QED
  BY <1>1, InitIInv, StepIInv, PTL DEF Spec

LEMMA PrefixConcat ==
  ASSUME NEW S, NEW s \in Seq(S), NEW t \in Seq(S)
  PROVE  IsPrefix(s, s \o t) /\ IsPrefix(s, s)
<1>1. Len(s) \in Nat /\ Len(t) \in Nat /\ Len(s \o t) = Len(s) + Len(t)
  OBVIOUS
<1>2. SubSeq(s \o t, 1, Len(s)) = s /\ SubSeq(s, 1, Len(s)) = s
  OBVIOUS
<1> QED
  BY <1>1, <1>2 DEF IsPrefix

\* Every step adds to a file what may be nothing.
LEMMA StoredGrows ==
  ASSUME TypeOK, Room, [Next]_vars, NEW f \in File
  PROVE  \E t \in Seq(Entry(MaxWrites)) : Stored(f)' = Stored(f) \o t
<1> DEFINE E == Entry(MaxWrites)
<1>1. old[f] \in Seq(E) /\ disk[f] \in Seq(E) /\ buffered \in Seq(E) /\ <<>> \in Seq(E)
  BY AllEntries
<1> HIDE DEF E
<1>2. Stored(f) \in Seq(E) /\ Stored(f) = Stored(f) \o <<>>
  BY <1>1, ConcatProperties, ConcatEmptySeq DEF Stored
<1>3. CASE old' = old /\ disk' = disk
  BY <1>1, <1>2, <1>3 DEF Stored, E
<1>4. Stored(f) \o buffered = old[f] \o (disk[f] \o buffered)
  <2>1. (old[f] \o disk[f]) \o buffered = old[f] \o (disk[f] \o buffered)
    <3>1. \A s, t, u \in Seq(E) : (s \o t) \o u = s \o (t \o u)
      BY ConcatAssociative
    <3> QED
      BY <1>1, <3>1, Zenon
  <2> QED
    BY <2>1 DEF Stored
<1>5. CASE old' = old /\ disk' = Written
  <2>1. disk'[f] = disk[f] \o buffered \/ disk'[f] = disk[f]
    BY <1>5 DEF Written, TypeOK
  <2> QED
    BY <1>1, <1>2, <1>4, <1>5, <2>1 DEF Stored, E
<1>6. CASE Restart
  <2>1. PICK kept \in [File -> Seq(Entry(used))] :
           old' = Left(kept) /\ (kept = disk \/ (fp # NoFile /\ kept = Written))
    BY <1>6, RestartLeaves
  <2>2. kept[f] = disk[f] \/ kept[f] = disk[f] \o buffered
    BY <2>1 DEF Written, TypeOK
  <2>3. disk'[f] = <<>> /\ old'[f] = old[f] \o kept[f] /\ old[f] \o kept[f] \in Seq(E)
    BY <1>1, <1>6, <2>1, <2>2, ConcatProperties DEF Restart, Left
  <2>4. Stored(f)' = old[f] \o kept[f]
    BY <2>3, ConcatEmptySeq DEF Stored
  <2> QED
    BY <1>1, <1>2, <1>4, <2>2, <2>4 DEF Stored, E
<1>7. ASSUME NEW h \in Thread, WriteLine(h) \/ flush_log(h)
      PROVE  old' = old /\ (disk' = disk \/ disk' = Written)
  BY <1>7 DEF WriteLine, flush_log, Closed, earlier
<1>8. ASSUME NEW h \in Thread, Enter(h) \/ Convert(h) \/ Copy(h) \/ WriteNull(h)
      PROVE  old' = old /\ disk' = disk
  BY <1>8 DEF Enter, Convert, Copy, WriteNull, file, earlier
<1>9. CASE Midnight \/ UNCHANGED vars
  BY <1>3, <1>9 DEF Midnight, vars, file, earlier
<1> QED
  BY <1>3, <1>5, <1>6, <1>7, <1>8, <1>9 DEF Next

\* Whatever threads, changes of files, crashes and restarts do, no file of the
\* log is emptied or rewritten: fopen appends.
THEOREM FilesOnlyGrow == Spec => FilesGrow
<1>1. IInv /\ [Next]_vars => [\A f \in File : IsPrefix(Stored(f), Stored(f)')]_vars
  <2> SUFFICES ASSUME IInv, [Next]_vars, NEW f \in File
               PROVE  IsPrefix(Stored(f), Stored(f)')
    OBVIOUS
  <2>1. TypeOK /\ Room
    BY DEF IInv
  <2>2. PICK t \in Seq(Entry(MaxWrites)) : Stored(f)' = Stored(f) \o t
    BY <2>1, StoredGrows
  <2>3. Stored(f) \in Seq(Entry(MaxWrites))
    BY <2>1, AllEntries
  <2> QED
    BY <2>2, <2>3, PrefixConcat
<1> QED
  BY <1>1, InitIInv, StepIInv, PTL DEF Spec, FilesGrow

=============================================================================
