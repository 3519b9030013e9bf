--------------------------- MODULE KVEngineProofs ---------------------------
(***************************************************************************)
(* For any strings, any hash function and any number of slots, over any    *)
(* number of runs, crashes and full disks: the types of table and file,    *)
(* the table's chains and counter; and, if no client uses a string that    *)
(* the format of the file cannot hold, that a start restores what the last *)
(* complete save wrote and, of a save that was cut, nothing else, and that *)
(* all its lives together are those of the dictionary KVStore.             *)
(***************************************************************************)
EXTENDS KVEngine, KVHashProofs, NumberLemmas

String == Seq(Piece)

\* A line of which loading makes a key and a value of the table.
LineOK(l) == l \in String /\ Len(l) >= 1 /\ (Len(l) = 1 \/ RestOf(l) \in Value)

FileOK(f) == f \in Seq(String) /\ \A n \in DOMAIN f : LineOK(f[n])

-----------------------------------------------------------------------------
(* Sequences *)

LEMMA SubSeqLen ==
  ASSUME NEW S, NEW s \in Seq(S), NEW m \in 1 .. Len(s) + 1, NEW n \in m - 1 .. Len(s)
  PROVE  /\ SubSeq(s, m, n) \in Seq(S)
         /\ Len(SubSeq(s, m, n)) = n - m + 1
         /\ \A i \in 1 .. n - m + 1 : SubSeq(s, m, n)[i] = s[m + i - 1]
<1>1. Len(s) \in Nat
  OBVIOUS
<1>2. m \in Int /\ n \in Int /\ m >= 1 /\ n <= Len(s) /\ n >= m - 1
  BY <1>1
<1>3. \A i \in m .. n : s[i] \in S
  BY <1>1, <1>2, ElementOfSeq
<1>4. /\ SubSeq(s, m, n) \in Seq(S)
      /\ Len(SubSeq(s, m, n)) = IF m <= n THEN n - m + 1 ELSE 0
      /\ \A i \in 1 .. n - m + 1 : SubSeq(s, m, n)[i] = s[m + i - 1]
  BY <1>2, <1>3, SubSeqProperties
<1>5. (IF m <= n THEN n - m + 1 ELSE 0) = n - m + 1
  BY <1>2
<1> QED
  BY <1>4, <1>5, Zenon

\* The pieces of a tail are pieces of the sequence.
LEMMA SubSeqOfTail ==
  ASSUME NEW S, NEW s \in Seq(S), s # <<>>,
         NEW m \in 1 .. Len(s), NEW n \in m - 1 .. Len(s) - 1
  PROVE  SubSeq(Tail(s), m, n) = SubSeq(s, m + 1, n + 1)
<1> DEFINE t == Tail(s)
           a == SubSeq(t, m, n)
           b == SubSeq(s, m + 1, n + 1)
<1>1. Len(s) \in Nat /\ m \in Nat /\ n \in Int /\ m >= 1 /\ n >= m - 1 /\ n <= Len(s) - 1
  OBVIOUS
<1>2. t \in Seq(S) /\ Len(t) = Len(s) - 1 /\ \A i \in 1 .. Len(t) : t[i] = s[i + 1]
  BY HeadTailProperties
<1> HIDE DEF t
<1>3. m \in 1 .. Len(t) + 1 /\ n \in m - 1 .. Len(t)
  BY <1>1, <1>2
<1>4. m + 1 \in 1 .. Len(s) + 1 /\ n + 1 \in (m + 1) - 1 .. Len(s)
  BY <1>1
<1>5. a \in Seq(S) /\ Len(a) = n - m + 1 /\ \A i \in 1 .. n - m + 1 : a[i] = t[m + i - 1]
  BY <1>2, <1>3, SubSeqLen
<1>6. /\ b \in Seq(S) /\ Len(b) = (n + 1) - (m + 1) + 1
      /\ \A i \in 1 .. (n + 1) - (m + 1) + 1 : b[i] = s[(m + 1) + i - 1]
  BY <1>4, SubSeqLen
<1> HIDE DEF a, b
<1>7. ASSUME NEW i \in 1 .. Len(a) PROVE a[i] = b[i]
  <2>1. /\ i \in 1 .. n - m + 1 /\ i \in 1 .. (n + 1) - (m + 1) + 1
        /\ m + i - 1 \in 1 .. Len(t) /\ (m + i - 1) + 1 = (m + 1) + i - 1
    BY <1>1, <1>2, <1>5
  <2> QED
    BY <1>2, <1>5, <1>6, <2>1
<1>8. Len(a) = Len(b)
  BY <1>1, <1>5, <1>6
<1>9. a = b
  BY <1>5, <1>6, <1>7, <1>8, SeqEqual
<1> QED
  BY <1>9 DEF a, b, t

\* What follows the head of a sequence that is cut behind i - 1 and continued
\* with p.
LEMMA CutTail ==
  ASSUME NEW S, NEW s \in Seq(S), NEW p \in S, NEW i \in 1 .. Len(s),
         NEW c, c = Append(SubSeq(s, 1, i - 1), p)
  PROVE  /\ c \in Seq(S) /\ Len(c) = i
         /\ c[i] = p
         /\ \A j \in 1 .. i - 1 : c[j] = s[j]
         /\ i > 1 => /\ Head(c) = Head(s)
                     /\ Tail(c) = Append(SubSeq(Tail(s), 1, i - 2), p)
<1> DEFINE a == SubSeq(s, 1, i - 1)
<1>1. Len(s) \in Nat /\ i \in Nat /\ i >= 1 /\ i <= Len(s) /\ s # <<>>
  OBVIOUS
<1>2. 1 \in 1 .. Len(s) + 1 /\ i - 1 \in 1 - 1 .. Len(s)
  BY <1>1
<1>3. a \in Seq(S) /\ Len(a) = (i - 1) - 1 + 1 /\ \A j \in 1 .. (i - 1) - 1 + 1 : a[j] = s[1 + j - 1]
  BY <1>2, SubSeqLen
<1>4. ASSUME i > 1
      PROVE  /\ a # <<>> /\ Head(a) = Head(s)
             /\ Tail(a) = SubSeq(Tail(s), 1, i - 2)
  <2>1. i - 1 \in 1 .. Len(s) /\ 1 \in 1 .. Len(s) /\ i - 2 \in 0 .. Len(s) - 1
    BY <1>1, <1>4
  <2>2. Head(a) = s[1] /\ Tail(a) = SubSeq(s, 2, i - 1)
    BY <2>1, HeadTailOfSubSeq
  <2>3. SubSeq(Tail(s), 1, i - 2) = SubSeq(s, 1 + 1, (i - 2) + 1)
    BY <1>1, <2>1, SubSeqOfTail
  <2>4. 1 + 1 = 2 /\ (i - 2) + 1 = i - 1
    BY <1>1
  <2>5. Len(a) # 0
    BY <1>1, <1>3, <1>4
  <2>6. Head(s) = s[1]
    BY <1>1
  <2> HIDE DEF a
  <2>7. a # <<>>
    BY <2>5
  <2> QED
    BY <2>2, <2>3, <2>4, <2>6, <2>7
<1>0. c = Append(a, p)
  OBVIOUS
<1> HIDE DEF a
<1>5. /\ c \in Seq(S) /\ c # <<>>
      /\ Len(c) = Len(a) + 1
      /\ \A j \in 1 .. Len(a) : c[j] = a[j]
      /\ c[Len(a) + 1] = p
  BY <1>0, <1>3, AppendProperties
<1>6. i > 1 => Head(c) = Head(a) /\ Tail(c) = Append(Tail(a), p)
  BY <1>0, <1>3, <1>4, HeadTailAppend
<1>7. Len(a) = i - 1 /\ Len(a) + 1 = i /\ \A j \in 1 .. i - 1 : 1 + j - 1 = j
  BY <1>1, <1>3
<1>8. \A j \in 1 .. i - 1 : c[j] = s[j]
  BY <1>1, <1>3, <1>5, <1>7
<1> QED
  BY <1>4, <1>5, <1>6, <1>7, <1>8

LEMMA CutTailLong ==
  ASSUME NEW S, NEW s \in Seq(S), NEW p \in S, NEW i \in 1 .. Len(s), i > 1
  PROVE  /\ Head(Append(SubSeq(s, 1, i - 1), p)) = Head(s)
         /\ Tail(Append(SubSeq(s, 1, i - 1), p)) = Append(SubSeq(Tail(s), 1, i - 2), p)
<1> DEFINE c == Append(SubSeq(s, 1, i - 1), p)
<1>1. c = Append(SubSeq(s, 1, i - 1), p)
  OBVIOUS
<1> HIDE DEF c
<1>2. i > 1 => /\ Head(c) = Head(s)
               /\ Tail(c) = Append(SubSeq(Tail(s), 1, i - 2), p)
  BY <1>1, CutTail
<1> QED
  BY <1>2 DEF c

\* Linking one more element before a sequence, and cutting it off again.
LEMMA ConsTail ==
  ASSUME NEW S, NEW e \in S, NEW s \in Seq(S)
  PROVE  /\ <<e>> \o s \in Seq(S) /\ Len(<<e>> \o s) = Len(s) + 1 /\ <<e>> \o s # <<>>
         /\ (<<e>> \o s)[1] = e
         /\ \A i \in 2 .. Len(s) + 1 : (<<e>> \o s)[i] = s[i - 1]
         /\ Head(<<e>> \o s) = e
         /\ Tail(<<e>> \o s) = s
<1> DEFINE l == <<e>> \o s
<1>1. /\ l \in Seq(S) /\ Len(l) = Len(s) + 1
      /\ l[1] = e /\ \A i \in 2 .. Len(s) + 1 : l[i] = s[i - 1]
  BY ConsProperties
<1>2. Len(s) \in Nat
  OBVIOUS
<1> HIDE DEF l
<1>3. l # <<>>
  BY <1>1, <1>2
<1>4. Head(l) = e
  BY <1>1, <1>3
<1>5. Tail(l) \in Seq(S) /\ Len(Tail(l)) = Len(l) - 1 /\ \A i \in 1 .. Len(Tail(l)) : Tail(l)[i] = l[i + 1]
  BY <1>1, <1>3, HeadTailProperties
<1>6. Len(Tail(l)) = Len(s)
  BY <1>1, <1>2, <1>5
<1>7. \A i \in 1 .. Len(Tail(l)) : Tail(l)[i] = s[i]
  <2> SUFFICES ASSUME NEW i \in 1 .. Len(Tail(l)) PROVE Tail(l)[i] = s[i]
    OBVIOUS
  <2>1. i + 1 \in 2 .. Len(s) + 1 /\ (i + 1) - 1 = i
    BY <1>2, <1>6
  <2> QED
    BY <1>1, <1>5, <2>1
<1>8. Tail(l) = s
  BY <1>5, <1>6, <1>7, SeqEqual
<1> QED
  BY <1>1, <1>3, <1>4, <1>8 DEF l

-----------------------------------------------------------------------------
(* Lines *)

\* What can be the last piece of a line that was cut.
Ends == {Torn} \cup {Upper[u] : u \in Broken}

LEMMA Strings ==
  /\ Key \subseteq String /\ Value \subseteq String
  /\ \A k \in Key : k # <<>> /\ Len(k) \in Nat /\ Len(k) >= 1
  /\ \A v \in Value : v # <<>> /\ Len(v) \in Nat /\ Len(v) >= 1
  /\ Word \subseteq Piece /\ Ends \subseteq Piece
  /\ Ends \cap Broken = {}
  /\ \A u \in Broken : Upper[u] \in Ends /\ Lower[u] \in Word
BY WordAssumption, EmptySeq DEF String, Piece, Ends

LEMMA CutAtPlace ==
  ASSUME NEW l \in String, BrokenAt(l) # {}
  PROVE  /\ CutAt(l) \in BrokenAt(l)
         /\ CutAt(l) \in 1 .. Len(l)
         /\ l[CutAt(l)] \in Broken
         /\ \A j \in BrokenAt(l) : CutAt(l) <= j
<1>1. BrokenAt(l) \subseteq 1 .. Len(l) /\ BrokenAt(l) \subseteq Nat
  BY DEF BrokenAt, String
<1>2. CutAt(l) \in BrokenAt(l) /\ \A j \in BrokenAt(l) : CutAt(l) <= j
  BY <1>1, LeastChosen DEF CutAt
<1> QED
  BY <1>1, <1>2 DEF BrokenAt

\* Loading makes a string of the table of the first word of a line, and of what
\* follows its first colon.
LEMMA LineParts ==
  ASSUME NEW l, LineOK(l)
  PROVE  /\ KeyOf(l) \in Key
         /\ Len(l) \in Nat /\ Len(l) >= 1
         /\ Len(l) > 1 => RestOf(l) \in Value
<1>1. Len(l) \in Nat /\ Len(l) >= 1 /\ l \in String
  BY DEF LineOK, String
<1>2. l # <<>>
  BY <1>1
<1>3. Head(l) \in Piece
  BY <1>1, <1>2, HeadTailProperties DEF String
<1>4. KeyOf(l) \in Key
  BY <1>3, StringsAssumption DEF KeyOf
<1> QED
  BY <1>1, <1>4 DEF LineOK

LEMMA Longer == ASSUME NEW n \in Nat, NEW i \in Nat, i <= n, i > 1 PROVE n > 1
OBVIOUS

LEMMA OnlyOne == ASSUME NEW n \in Nat, n >= 1, ~ (n > 1) PROVE n = 1
OBVIOUS

LEMMA Below ==
  ASSUME NEW n \in Nat, NEW i \in 1 .. n, NEW j \in 1 .. i, j # i
  PROVE  j \in 1 .. i - 1 /\ j \in 1 .. n /\ j # n
OBVIOUS

LEMMA TailOfLine ==
  ASSUME NEW l, LineOK(l), NEW i \in Nat, i <= Len(l), i > 1
  PROVE  Tail(l) \in Value /\ Len(Tail(l)) = Len(l) - 1 /\ Tail(l) \in String
<1>1. Len(l) \in Nat /\ RestOf(l) \in Value
  BY LineParts, Longer, Zenon
<1>2. l \in String /\ l # <<>>
  BY LineParts DEF LineOK, String
<1> QED
  BY <1>1, <1>2, HeadTailProperties DEF String, RestOf

\* A cut leaves of a line a line: one that fgets makes, one that a crash makes.
LEMMA CutLineOK ==
  ASSUME NEW l, LineOK(l), NEW i \in 1 .. Len(l), NEW p \in Ends
  PROVE  LineOK(Append(SubSeq(l, 1, i - 1), p))
<1> DEFINE c == Append(SubSeq(l, 1, i - 1), p)
<1>1. l \in String /\ p \in Piece /\ Len(l) \in Nat /\ i \in Nat /\ i >= 1 /\ i <= Len(l)
  BY Strings, LineParts DEF LineOK
<1>2. /\ c \in String /\ Len(c) = i
      /\ i > 1 => RestOf(c) = Append(SubSeq(Tail(l), 1, i - 2), p)
  <2>1. c = Append(SubSeq(l, 1, i - 1), p)
    OBVIOUS
  <2> HIDE DEF c
  <2> QED
    BY <1>1, <2>1, CutTail DEF String, RestOf
<1> HIDE DEF c
<1>3. CASE i = 1
  BY <1>2, <1>3 DEF LineOK, c
<1>4. CASE i > 1
  <2>1. Tail(l) \in Value /\ Len(Tail(l)) = Len(l) - 1 /\ Tail(l) \in String
    BY <1>1, <1>4, TailOfLine, Zenon
  <2>2. i - 1 \in DOMAIN Tail(l) /\ (i - 1) - 1 = i - 2
    BY <1>1, <1>4, <2>1 DEF String
  <2>3. Append(SubSeq(Tail(l), 1, (i - 1) - 1), p) \in Value
    BY <2>1, <2>2, StringsAssumption DEF Ends
  <2> QED
    <3>1. RestOf(c) \in Value
      BY <1>2, <1>4, <2>2, <2>3
    <3>2. Len(c) >= 1
      BY <1>1, <1>2
    <3>3. LineOK(c)
      BY <1>2, <3>1, <3>2, Zenon DEF LineOK
    <3> QED
      BY <3>3 DEF c
<1> QED
  BY <1>1, <1>3, <1>4

LEMMA FetchedOK ==
  ASSUME NEW l, LineOK(l)
  PROVE  LineOK(Fetched(l))
<1>1. l \in String
  BY DEF LineOK
<1> QED
  BY <1>1, CutAtPlace, CutLineOK, Strings DEF Fetched

LEMMA PieceOfLineOK ==
  ASSUME NEW l, LineOK(l), NEW i \in 1 .. Len(l)
  PROVE  LineOK(SubSeq(l, 1, i))
<1> DEFINE c == SubSeq(l, 1, i)
<1>1. l \in String /\ Len(l) \in Nat /\ i \in Nat /\ i >= 1 /\ i <= Len(l)
  BY LineParts DEF LineOK
<1>2. 1 \in 1 .. Len(l) + 1 /\ i \in 1 - 1 .. Len(l) /\ i - 1 + 1 = i
  BY <1>1
<1>3. c \in String /\ Len(c) = i - 1 + 1
  BY <1>1, <1>2, SubSeqLen DEF String
<1>4. Len(c) = i
  BY <1>2, <1>3
<1>5. Len(c) >= 1
  BY <1>1, <1>4
<1>6. CASE i = 1
  BY <1>3, <1>4, <1>5, <1>6 DEF LineOK
<1>7. CASE i > 1
  <2>1. Tail(l) \in Value /\ Len(Tail(l)) = Len(l) - 1 /\ Tail(l) \in String
    BY <1>1, <1>7, TailOfLine, Zenon
  <2>2. 1 \in 1 .. Len(l) /\ i \in 1 .. Len(l) /\ i - 1 \in 1 - 1 .. Len(l) - 1
    BY <1>1
  <2>3. Tail(c) = SubSeq(l, 1 + 1, i)
    BY <1>1, <2>2, HeadTailOfSubSeq DEF String
  <2>4. SubSeq(Tail(l), 1, i - 1) = SubSeq(l, 1 + 1, i - 1 + 1)
    BY <1>1, <2>2, SubSeqOfTail DEF String
  <2>5. 1 \in DOMAIN Tail(l) /\ i - 1 \in 1 .. Len(Tail(l))
    BY <1>1, <1>7, <2>1 DEF String
  <2>6. SubSeq(Tail(l), 1, i - 1) \in Value
    BY <2>1, <2>5, StringsAssumption
  <2>7. RestOf(c) \in Value
    BY <1>2, <2>3, <2>4, <2>6 DEF RestOf
  <2> QED
    BY <1>3, <1>5, <2>7 DEF LineOK
<1> QED
  BY <1>1, <1>6, <1>7

LEMMA LeftOK ==
  ASSUME NEW l, LineOK(l)
  PROVE  Left(l) = <<>> \/ LineOK(Left(l))
<1> DEFINE i == CutAt(l)
           s == SubSeq(l, i + 1, Len(l))
           c == <<Lower[l[i]]>> \o s
<1> SUFFICES ASSUME BrokenAt(l) # {} PROVE LineOK(c)
  BY DEF Left
<1>1. l \in String /\ Len(l) \in Nat /\ i \in Nat /\ i >= 1 /\ i <= Len(l)
  BY LineParts, CutAtPlace DEF LineOK
<1>9. Lower[l[i]] \in Piece
  BY <1>1, CutAtPlace, Strings
<1> HIDE DEF i
<1>2. i + 1 \in 1 .. Len(l) + 1 /\ Len(l) \in (i + 1) - 1 .. Len(l)
  BY <1>1
<1>3. s \in String /\ Len(s) = Len(l) - (i + 1) + 1
  BY <1>1, <1>2, SubSeqLen DEF String
<1> HIDE DEF s
<1>4. c \in String /\ Len(c) = Len(s) + 1 /\ RestOf(c) = s
  BY <1>3, <1>9, ConsTail DEF String, RestOf
<1> HIDE DEF c
<1>8. Len(s) \in Nat /\ Len(c) >= 1
  BY <1>3, <1>4 DEF String
<1>5. CASE i = Len(l)
  <2>1. Len(c) = 1
    BY <1>1, <1>3, <1>4, <1>5
  <2> QED
    BY <1>4, <1>8, <2>1 DEF LineOK
<1>6. CASE i < Len(l)
  <2>1. Tail(l) \in Value /\ Len(Tail(l)) = Len(l) - 1 /\ Tail(l) \in String
    <3>1. i + 1 \in Nat /\ i + 1 <= Len(l) /\ i + 1 > 1
      BY <1>1, <1>6
    <3> QED
      BY <3>1, TailOfLine, Zenon
  <2>2. i \in 1 .. Len(l) /\ Len(l) - 1 \in i - 1 .. Len(l) - 1 /\ Len(l) - 1 + 1 = Len(l)
    BY <1>1, <1>6
  <2>3. SubSeq(Tail(l), i, Len(l) - 1) = SubSeq(l, i + 1, Len(l) - 1 + 1)
    BY <1>1, <2>2, SubSeqOfTail DEF String
  <2>4. i \in DOMAIN Tail(l) /\ Len(l) - 1 \in i .. Len(Tail(l))
    BY <1>1, <1>6, <2>1 DEF String
  <2>5. SubSeq(Tail(l), i, Len(l) - 1) \in Value
    BY <2>1, <2>4, StringsAssumption
  <2>6. s \in Value
    BY <2>2, <2>3, <2>5 DEF s
  <2> QED
    BY <1>4, <1>8, <2>6 DEF LineOK
<1>7. LineOK(c)
  BY <1>1, <1>5, <1>6
<1> QED
  BY <1>7 DEF c, s, i

LEMMA TornLineOK ==
  ASSUME NEW l, LineOK(l), NEW c \in CutLine(l)
  PROVE  LineOK(c)
<1>1. DOMAIN l = 1 .. Len(l) /\ BrokenAt(l) \subseteq 1 .. Len(l)
  BY DEF LineOK, String, BrokenAt
<1>2. CASE c \in {Append(SubSeq(l, 1, i - 1), Torn) : i \in DOMAIN l}
  BY <1>1, <1>2, CutLineOK DEF Ends
<1>3. CASE c \in {SubSeq(l, 1, i) : i \in BrokenAt(l)}
  BY <1>1, <1>3, PieceOfLineOK
<1> QED
  BY <1>2, <1>3 DEF CutLine

-----------------------------------------------------------------------------
(* The invariant of types *)

\* The pairs of the table make lines: a key of several words was brought by a
\* client, with a client's value.
DictOK(d) ==
  \A k \in DOMAIN d : Len(k) = 1 \/ (k \in ClientKey /\ d[k] \in ClientValue)

\* ETypeOK is not inductive: that loading finds a key and a value in each line
\* depends on how every line of the file came about.
TInv ==
  /\ IInv
  /\ ETypeOK
  /\ DictOK(Contents)
  /\ FileOK(out)
  /\ rest = <<>> \/ LineOK(rest)
  /\ disk = NoFile \/ FileOK(disk)
  /\ phase = "loading" => disk # NoFile /\ read <= Len(disk)
  /\ phase # "loading" => read = 0 /\ rest = <<>>

LEMMA PairLineOK ==
  ASSUME NEW k \in Key, NEW v \in Value, Len(k) = 1 \/ (k \in ClientKey /\ v \in ClientValue)
  PROVE  LineOK(k \o v)
<1> DEFINE l == k \o v
<1>1. k \in String /\ v \in String /\ Len(k) \in Nat /\ Len(k) >= 1 /\ Len(v) \in Nat /\ Len(v) >= 1
  BY Strings
<1>2. l \in String /\ Len(l) = Len(k) + Len(v)
  BY <1>1, ConcatProperties DEF String
<1>3. CASE Len(k) = 1
  <2>0. k[1] \in Piece
    <3>1. 1 \in 1 .. Len(k)
      BY <1>3
    <3>2. k \in Seq(Piece)
      BY <1>1 DEF String
    <3> QED
      BY <3>1, <3>2, ElementOfSeq
  <2>1. k = <<k[1]>> /\ k[1] \in Piece
    <3>1. <<k[1]>> \in Seq(Piece) /\ Len(<<k[1]>>) = 1 /\ \A i \in 1 .. 1 : <<k[1]>>[i] = k[i]
      BY <2>0
    <3>2. k \in Seq(Piece)
      BY <1>1 DEF String
    <3> QED
      BY <1>3, <2>0, <3>1, <3>2, SeqEqual
  <2>2. l = <<k[1]>> \o v
    BY <2>1
  <2>3. RestOf(l) = v
    BY <1>1, <2>1, <2>2, ConsTail DEF RestOf, String
  <2> HIDE DEF l
  <2>4. Len(l) >= 1
    BY <1>1, <1>2
  <2>5. LineOK(l)
    BY <1>2, <2>3, <2>4 DEF LineOK
  <2> QED
    BY <2>5 DEF l
<1>4. CASE k \in ClientKey /\ v \in ClientValue
  <2>1. RestOf(l) \in Value
    BY <1>4, StringsAssumption DEF RestOf
  <2> HIDE DEF l
  <2>2. Len(l) >= 1
    BY <1>1, <1>2
  <2>3. LineOK(l)
    BY <1>2, <2>1, <2>2 DEF LineOK
  <2> QED
    BY <2>3 DEF l
<1> QED
  BY <1>3, <1>4

\* A node is the pair of a stored key.
LEMMA NodeIsStored ==
  ASSUME IInv, NEW s \in Slot, NEW i \in DOMAIN nodes[s]
  PROVE  /\ nodes[s][i] \in Node
         /\ nodes[s][i].key \in StoredKeys /\ Hash[nodes[s][i].key] = s
         /\ Place(nodes[s][i].key) = i
         /\ Contents[nodes[s][i].key] = nodes[s][i].value
<1> DEFINE k == nodes[s][i].key
<1>1. nodes \in [Slot -> Seq(Node)] /\ WellPlaced /\ NoDuplicate
  BY DEF IInv, HTypeOK, ChainsOK
<1>2. nodes[s][i] \in Node
  BY <1>1
<1>3. k \in Key /\ Hash[k] = s
  BY <1>1, <1>2 DEF WellPlaced, Node
<1>4. Stored(k) /\ Place(k) = i /\ ValueOf(k) = nodes[s][i].value
  BY <1>1, <1>3, LookupFinds
<1> QED
  BY <1>2, <1>3, <1>4 DEF StoredKeys, Contents

LEMMA ContentsType ==
  ASSUME IInv
  PROVE  /\ DOMAIN Contents = StoredKeys /\ StoredKeys \subseteq Key
         /\ \A k \in DOMAIN Contents : Contents[k] \in Value
BY LookupIsNode DEF IInv, HTypeOK, ChainsOK, Contents, StoredKeys

LEMMA NodeLineOK ==
  ASSUME IInv, DictOK(Contents), NEW s \in Slot, NEW i \in DOMAIN nodes[s]
  PROVE  LineOK(Line(nodes[s][i]))
<1> DEFINE k == nodes[s][i].key
           v == nodes[s][i].value
<1>1. k \in DOMAIN Contents /\ Contents[k] = v /\ k \in Key /\ v \in Value
  BY NodeIsStored, ContentsType DEF Node
<1>2. Len(k) = 1 \/ (k \in ClientKey /\ v \in ClientValue)
  BY <1>1 DEF DictOK
<1> QED
  BY <1>1, <1>2, PairLineOK DEF Line

\* What a file of lines stays through: a line more, a cut.
LEMMA FileWithLine ==
  ASSUME NEW f, FileOK(f), NEW l, LineOK(l)
  PROVE  FileOK(Append(f, l))
<1> DEFINE g == Append(f, l)
<1>1. f \in Seq(String) /\ l \in String /\ Len(f) \in Nat
  BY DEF FileOK, LineOK
<1>2. g \in Seq(String) /\ Len(g) = Len(f) + 1 /\ g[Len(f) + 1] = l
      /\ \A n \in 1 .. Len(f) : g[n] = f[n]
  BY <1>1, AppendProperties
<1> HIDE DEF g
<1>3. ASSUME NEW n \in DOMAIN g PROVE LineOK(g[n])
  <2>1. n \in 1 .. Len(f) \/ n = Len(f) + 1
    BY <1>1, <1>2
  <2>2. CASE n \in 1 .. Len(f)
    BY <1>1, <1>2, <2>2 DEF FileOK
  <2>3. CASE n = Len(f) + 1
    BY <1>2, <2>3
  <2> QED
    BY <2>1, <2>2, <2>3
<1>4. FileOK(g)
  BY <1>2, <1>3 DEF FileOK
<1> QED
  BY <1>4 DEF g

LEMMA FileCut ==
  ASSUME NEW f, FileOK(f), NEW n \in 0 .. Len(f)
  PROVE  FileOK(SubSeq(f, 1, n)) /\ Len(SubSeq(f, 1, n)) = n
         /\ \A m \in 1 .. n : SubSeq(f, 1, n)[m] = f[m]
<1> DEFINE g == SubSeq(f, 1, n)
<1>1. f \in Seq(String) /\ Len(f) \in Nat /\ n \in Nat /\ n <= Len(f)
  BY DEF FileOK
<1>2. 1 \in 1 .. Len(f) + 1 /\ n \in 1 - 1 .. Len(f) /\ n - 1 + 1 = n
  BY <1>1
<1>3. g \in Seq(String) /\ Len(g) = n - 1 + 1
      /\ \A m \in 1 .. n - 1 + 1 : g[m] = f[1 + m - 1]
  BY <1>1, <1>2, SubSeqLen
<1> HIDE DEF g
<1>4. \A m \in 1 .. n : g[m] = f[m] /\ m \in DOMAIN f
  BY <1>1, <1>2, <1>3
<1>5. DOMAIN g = 1 .. n
  BY <1>1, <1>2, <1>3
<1>6. FileOK(g)
  BY <1>3, <1>4, <1>5 DEF FileOK
<1> QED
  BY <1>2, <1>3, <1>4, <1>6 DEF g

LEMMA FlushedOK ==
  ASSUME FileOK(out), NEW f \in Flushed
  PROVE  FileOK(f)
<1>1. CASE f \in {SubSeq(out, 1, n) : n \in 0 .. Len(out)}
  BY <1>1, FileCut
<1>2. CASE \E n \in DOMAIN out : \E l \in CutLine(out[n]) : f = Append(SubSeq(out, 1, n - 1), l)
  <2>1. PICK n \in DOMAIN out : \E l \in CutLine(out[n]) : f = Append(SubSeq(out, 1, n - 1), l)
    BY <1>2
  <2>2. PICK l \in CutLine(out[n]) : f = Append(SubSeq(out, 1, n - 1), l)
    BY <2>1
  <2>3. LineOK(l)
    BY TornLineOK DEF FileOK
  <2>4. n - 1 \in 0 .. Len(out)
    BY DEF FileOK
  <2> QED
    BY <2>2, <2>3, <2>4, FileCut, FileWithLine
<1> QED
  BY <1>1, <1>2 DEF Flushed

\* fgets has a line before it, and leaves one or nothing of it.
LEMMA PendingOK ==
  ASSUME TInv, phase = "loading", ~Loaded
  PROVE  /\ LineOK(Pending) /\ LineOK(Fetched(Pending))
         /\ rest = <<>> => read + 1 \in DOMAIN disk
<1>1. FileOK(disk) /\ read <= Len(disk) /\ read \in Nat /\ Len(disk) \in Nat
  BY DEF TInv, ETypeOK, FileOK
<1>2. CASE rest = <<>>
  <2>1. read # Len(disk)
    BY <1>2 DEF Loaded
  <2>2. read + 1 \in DOMAIN disk
    BY <1>1, <2>1 DEF FileOK
  <2> QED
    BY <1>1, <1>2, <2>2, FetchedOK DEF Pending, FileOK
<1>3. CASE rest # <<>>
  BY <1>3, FetchedOK DEF TInv, Pending
<1> QED
  BY <1>2, <1>3

LEMMA ReadOnOK ==
  ASSUME TInv, phase = "loading", ~Loaded, ReadOn
  PROVE  /\ read' \in Nat /\ read' <= Len(disk)
         /\ rest' = <<>> \/ LineOK(rest')
<1>1. rest' = <<>> \/ LineOK(rest')
  BY PendingOK, LeftOK DEF ReadOn
<1>2. FileOK(disk) /\ read <= Len(disk) /\ read \in Nat /\ Len(disk) \in Nat
  BY DEF TInv, ETypeOK, FileOK
<1>3. CASE rest = <<>>
  <2>1. read' = read + 1 /\ read + 1 \in 1 .. Len(disk)
    BY <1>2, <1>3, PendingOK DEF ReadOn, FileOK
  <2> QED
    BY <1>1, <1>2, <2>1
<1>4. CASE rest # <<>>
  <2>1. read' = read
    BY <1>4 DEF ReadOn
  <2> QED
    BY <1>1, <1>2, <2>1
<1> QED
  BY <1>1, <1>3, <1>4

-----------------------------------------------------------------------------
(* What the steps do to the stored pairs *)

LEMMA InitEmpty == HInit => StoredKeys = {}
BY HashAssumption DEF HInit, EmptyTable, StoredKeys, Stored, Places

LEMMA Emptied ==
  ASSUME FreshTable
  PROVE  IInv' /\ DOMAIN Contents' = {}
<1>1. HInit'
  BY DEF FreshTable, NoReply, HInit, EmptyTable
<1>2. IInv'
  BY <1>1, InitIInv, PTL
<1>3. (StoredKeys = {})'
  BY <1>1, InitEmpty, PTL
<1> QED
  BY <1>2, <1>3 DEF Contents

LEMMA SameTable ==
  ASSUME IInv, UNCHANGED table, UNCHANGED <<tokens, wmsg>> \/ NoReply
  PROVE  IInv' /\ Contents' = Contents
<1>1. tokens' \in Commands /\ wmsg' \in Replies
  BY ReplyTypes DEF IInv, HTypeOK, NoReply
<1> QED
  BY <1>1, TableUnchanged

\* A command leaves the pairs, takes one away, or stores one of the clients'.
LEMMA ServeEffect ==
  ASSUME IInv, Serve
  PROVE  /\ IInv'
         /\ \/ Contents' = Contents
            \/ \E k \in Key : Contents' = Map!Without(k)
            \/ \E k \in ClientKey, v \in ClientValue : Contents' = Map!With(k, v)
<1>1. /\ Operand(ClientKey) \subseteq Operand(Key) /\ Operand(ClientValue) \subseteq Operand(Value)
      /\ \A k \in Operand(ClientKey) : k # NULL => k \in ClientKey
      /\ \A v \in Operand(ClientValue) : v # NULL => v \in ClientValue
  BY WordAssumption DEF Operand
<1>2. NULL \notin DOMAIN Contents
  BY ContentsType, NullAssumption
<1>3. ASSUME NEW k \in Operand(ClientKey), NEW v \in Operand(ClientValue), Hset(k, v)
      PROVE  /\ IInv'
             /\ Contents' = Contents \/ (k \in ClientKey /\ v \in ClientValue /\ Contents' = Map!With(k, v))
  <2>1. k \in Operand(Key) /\ v \in Operand(Value)
    BY <1>1
  <2>2. IInv' /\ Map!Hset(k, v)
    BY <1>3, <2>1, SetStep
  <2>3. Contents' = Contents \/ (NULL \notin {k, v} /\ Contents' = Map!With(k, v))
    BY <2>2 DEF Map!Hset, Map!Reply
  <2> QED
    BY <1>1, <2>2, <2>3
<1>4. ASSUME NEW k \in Operand(ClientKey), NEW v \in Operand(ClientValue), Hmod(k, v)
      PROVE  /\ IInv'
             /\ Contents' = Contents \/ (k \in ClientKey /\ v \in ClientValue /\ Contents' = Map!With(k, v))
  <2>1. k \in Operand(Key) /\ v \in Operand(Value)
    BY <1>1
  <2>2. IInv' /\ Map!Hmod(k, v)
    BY <1>4, <2>1, ModStep
  <2>3. Contents' = Contents \/ (k \in DOMAIN Contents /\ v # NULL /\ Contents' = Map!With(k, v))
    BY <2>2 DEF Map!Hmod, Map!Reply
  <2> QED
    BY <1>1, <1>2, <2>2, <2>3
<1>5. ASSUME NEW k \in Operand(ClientKey), Hget(k)
      PROVE  IInv' /\ Contents' = Contents
  BY <1>1, <1>5, GetStep DEF Map!Hget, Map!Reply
<1>6. ASSUME NEW k \in Operand(ClientKey), Hdel(k)
      PROVE  IInv' /\ (Contents' = Contents \/ (k \in Key /\ Contents' = Map!Without(k)))
  <2>1. k \in Operand(Key)
    BY <1>1
  <2>2. IInv' /\ Map!Hdel(k)
    BY <1>6, <2>1, DelStep
  <2>3. Contents' = Contents \/ (k \in DOMAIN Contents /\ Contents' = Map!Without(k))
    BY <2>2 DEF Map!Hdel, Map!Reply
  <2> QED
    BY <2>2, <2>3, ContentsType, Zenon
<1>7. ASSUME Hcount
      PROVE  IInv' /\ Contents' = Contents
  BY <1>7, CountStep DEF Map!Hcount, Map!Reply
<1>8. ASSUME OtherCommand \/ EmptyMessage
      PROVE  IInv' /\ Contents' = Contents
  BY <1>8, OtherStep DEF Map!OtherCommand, Map!EmptyMessage, Map!Reply
<1> QED
  BY <1>3, <1>4, <1>5, <1>6, <1>7, <1>8 DEF Serve

\* A line of two words or more stores its pair, if the key is new.
LEMMA LoadEffect ==
  ASSUME TInv, LoadLine, NEW line, line = Fetched(Pending)
  PROVE  /\ IInv' /\ LineOK(line) /\ KeyOf(line) \in Key /\ Len(line) \in Nat /\ Len(line) >= 1
         /\ \/ /\ Len(line) > 1 /\ KeyOf(line) \notin DOMAIN Contents
               /\ RestOf(line) \in Value
               /\ Contents' = Map!With(KeyOf(line), RestOf(line))
            \/ /\ Len(line) = 1 \/ KeyOf(line) \in DOMAIN Contents
               /\ Contents' = Contents
<1> DEFINE k == KeyOf(line)
           v == RestOf(line)
<1>1. LineOK(line)
  BY PendingOK DEF LoadLine
<1>2. k \in Key /\ Len(line) \in Nat /\ Len(line) >= 1 /\ (Len(line) > 1 => v \in Value)
  BY <1>1, LineParts
<1>3. IInv /\ tokens' \in Commands /\ wmsg' \in Replies
  BY DEF LoadLine, TInv, IInv, HTypeOK
<1>4. k \in DOMAIN Contents <=> Stored(k)
  BY <1>2 DEF Contents, StoredKeys
<1>5. CASE Len(line) > 1 /\ ~Stored(k) /\ PutNew(k, v)
  <2>1. v \in Value
    BY <1>2, <1>5
  <2>2. IInv' /\ Contents' = Map!With(k, v)
    BY <1>2, <1>3, <1>5, <2>1, PutNewSimulates
  <2> QED
    BY <1>1, <1>2, <1>4, <1>5, <2>1, <2>2
<1>6. CASE ~ (Len(line) > 1 /\ ~Stored(k)) /\ UNCHANGED table
  <2>1. IInv' /\ Contents' = Contents
    BY <1>3, <1>6, TableUnchanged
  <2>2. Len(line) = 1 \/ Stored(k)
    <3>1. ASSUME ~ Stored(k) PROVE Len(line) = 1
      <4>1. ~ (Len(line) > 1)
        BY <1>6, <3>1, Zenon
      <4> QED
        BY <1>2, <4>1, OnlyOne, Zenon
    <3> QED
      BY <3>1
  <2> QED
    BY <1>1, <1>2, <1>4, <2>1, <2>2
<1> QED
  BY <1>5, <1>6 DEF LoadLine

\* What a pair stored, or one erased, leaves of the others.
LEMMA EntriesWith ==
  ASSUME NEW k, NEW v, Contents' = Map!With(k, v)
  PROVE  /\ DOMAIN Contents' = DOMAIN Contents \cup {k} /\ Contents'[k] = v
         /\ \A x \in DOMAIN Contents \ {k} : Contents'[x] = Contents[x]
BY DEF Map!With

LEMMA EntriesWithout ==
  ASSUME NEW k, Contents' = Map!Without(k)
  PROVE  /\ DOMAIN Contents' = DOMAIN Contents \ {k}
         /\ \A x \in DOMAIN Contents \ {k} : Contents'[x] = Contents[x]
BY DEF Map!Without

-----------------------------------------------------------------------------
(* The types, step by step *)

\* A table that is empty, with the cursors at their beginning: what Crash,
\* SaveClose and SaveFails leave.
LEMMA GoneTypes ==
  ASSUME Gone, disk' = NoFile \/ FileOK(disk'),
         DOMAIN saved \subseteq Key /\ \A k \in DOMAIN saved : saved[k] \in Value,
         saved' = saved, whole' \in BOOLEAN
  PROVE  TInv'
<1>1. IInv' /\ DOMAIN Contents' = {}
  BY Emptied DEF Gone
<1>2. DictOK(Contents')
  BY <1>1 DEF DictOK
<1>3. <<>> \in Seq(String) /\ <<>> \in Seq(Piece) /\ 0 \in 0 .. MAX_TABLE_SIZE /\ FileOK(<<>>)
  BY EmptySeq, SlotAssumption DEF FileOK
<1>4. disk' = NoFile \/ disk' \in Seq(Seq(Piece))
  BY DEF FileOK, String
<1>5. ETypeOK'
  BY <1>1, <1>3, <1>4 DEF ETypeOK, IInv, Gone, String
<1> QED
  BY <1>1, <1>2, <1>3, <1>5 DEF TInv, Gone

LEMMA LoadOpenTypes == ASSUME TInv, LoadOpen PROVE TInv'
<1>1. IInv' /\ DOMAIN Contents' = {}
  BY Emptied DEF LoadOpen
<1>2. DictOK(Contents')
  BY <1>1 DEF DictOK
<1>3. ETypeOK'
  BY <1>1 DEF TInv, ETypeOK, IInv, LoadOpen, file, cursors
<1>4. FileOK(disk) /\ read = 0 /\ rest = <<>>
  BY DEF TInv, LoadOpen
<1>5. 0 <= Len(disk)
  BY <1>4 DEF FileOK
<1> QED
  BY <1>1, <1>2, <1>3, <1>4, <1>5 DEF TInv, LoadOpen, file, cursors

LEMMA LoadNothingTypes == ASSUME TInv, LoadNothing PROVE TInv'
<1>1. IInv' /\ DOMAIN Contents' = {}
  BY Emptied DEF LoadNothing
<1>2. DictOK(Contents')
  BY <1>1 DEF DictOK
<1>3. ETypeOK'
  BY <1>1 DEF TInv, ETypeOK, IInv, LoadNothing, file, cursors
<1> QED
  BY <1>1, <1>2, <1>3 DEF TInv, LoadNothing, file, cursors

LEMMA LoadLineTypes == ASSUME TInv, LoadLine PROVE TInv'
<1> DEFINE line == Fetched(Pending)
           k == KeyOf(line)
           v == RestOf(line)
<1>1. IInv' /\ k \in Key
      /\ \/ Contents' = Map!With(k, v)
         \/ Contents' = Contents
  BY LoadEffect
<1>2. Len(k) = 1
  BY DEF KeyOf
<1> HIDE DEF k, v
<1>3. DictOK(Contents')
  <2>1. DictOK(Contents)
    BY DEF TInv
  <2>2. CASE Contents' = Contents
    BY <2>1, <2>2 DEF DictOK
  <2>3. CASE Contents' = Map!With(k, v)
    <3>1. /\ DOMAIN Contents' = DOMAIN Contents \cup {k} /\ Contents'[k] = v
          /\ \A x \in DOMAIN Contents \ {k} : Contents'[x] = Contents[x]
      BY <2>3, EntriesWith
    <3> QED
      BY <1>1, <1>2, <2>1, <3>1 DEF DictOK
  <2> QED
    BY <1>1, <2>2, <2>3
<1>4. read' \in Nat /\ read' <= Len(disk) /\ (rest' = <<>> \/ LineOK(rest'))
  BY ReadOnOK DEF LoadLine
<1>5. rest' \in Seq(Piece)
  BY <1>4, EmptySeq DEF LineOK, String
<1>6. ETypeOK'
  BY <1>1, <1>4, <1>5 DEF TInv, ETypeOK, IInv, LoadLine, file
<1> QED
  BY <1>1, <1>3, <1>4, <1>6 DEF TInv, LoadLine, file

LEMMA LoadDoneTypes == ASSUME TInv, LoadDone PROVE TInv'
<1>1. IInv' /\ Contents' = Contents
  BY SameTable DEF TInv, LoadDone
<1>2. ETypeOK'
  BY <1>1 DEF TInv, ETypeOK, IInv, LoadDone, file
<1> QED
  BY <1>1, <1>2 DEF TInv, LoadDone, Loaded, file

LEMMA ServeTypes == ASSUME TInv, Serve PROVE TInv'
<1>1. /\ IInv'
      /\ \/ Contents' = Contents
         \/ \E k \in Key : Contents' = Map!Without(k)
         \/ \E k \in ClientKey, v \in ClientValue : Contents' = Map!With(k, v)
  BY ServeEffect DEF TInv
<1>2. DictOK(Contents')
  <2>1. DictOK(Contents)
    BY DEF TInv
  <2>2. CASE Contents' = Contents
    BY <2>1, <2>2 DEF DictOK
  <2>3. ASSUME NEW k \in Key, Contents' = Map!Without(k) PROVE DictOK(Contents')
    <3>1. /\ DOMAIN Contents' = DOMAIN Contents \ {k}
          /\ \A x \in DOMAIN Contents \ {k} : Contents'[x] = Contents[x]
      BY <2>3, EntriesWithout
    <3> QED
      BY <2>1, <3>1 DEF DictOK
  <2>4. ASSUME NEW k \in ClientKey, NEW v \in ClientValue, Contents' = Map!With(k, v)
        PROVE  DictOK(Contents')
    <3>1. /\ DOMAIN Contents' = DOMAIN Contents \cup {k} /\ Contents'[k] = v
          /\ \A x \in DOMAIN Contents \ {k} : Contents'[x] = Contents[x]
      BY <2>4, EntriesWith
    <3> QED
      BY <2>1, <3>1 DEF DictOK
  <2> QED
    BY <1>1, <2>1, <2>2, <2>3, <2>4
<1>3. UNCHANGED <<phase, file, cursors>>
  BY DEF Serve
<1>4. ETypeOK'
  BY <1>1, <1>3 DEF TInv, ETypeOK, IInv, file, cursors
<1> QED
  BY <1>1, <1>2, <1>3, <1>4 DEF TInv, file, cursors

LEMMA SaveOpenTypes == ASSUME TInv, SaveOpen PROVE TInv'
<1>1. IInv' /\ Contents' = Contents
  BY SameTable DEF TInv, SaveOpen
<1>2. <<>> \in Seq(String) /\ 0 \in 0 .. MAX_TABLE_SIZE /\ FileOK(<<>>)
  BY EmptySeq, SlotAssumption DEF FileOK
<1>3. saved' = Contents /\ DOMAIN saved' \subseteq Key /\ \A k \in DOMAIN saved' : saved'[k] \in Value
  BY ContentsType DEF TInv, SaveOpen
<1>4. ETypeOK'
  BY <1>1, <1>2, <1>3 DEF TInv, ETypeOK, IInv, SaveOpen, String
<1> QED
  BY <1>1, <1>2, <1>4 DEF TInv, SaveOpen

LEMMA SaveNodeTypes == ASSUME TInv, SaveNode PROVE TInv'
<1>1. IInv' /\ Contents' = Contents
  BY SameTable DEF TInv, SaveNode
<1>2. LineOK(Line(nodes[slot][at]))
  BY NodeLineOK DEF TInv, SaveNode
<1>3. FileOK(out')
  BY <1>2, FileWithLine DEF TInv, SaveNode
<1>4. ETypeOK'
  BY <1>1, <1>3 DEF TInv, ETypeOK, IInv, SaveNode, file, FileOK, String
<1> QED
  BY <1>1, <1>3, <1>4 DEF TInv, SaveNode, file

LEMMA SaveNextSlotTypes == ASSUME TInv, SaveNextSlot PROVE TInv'
<1>1. IInv' /\ Contents' = Contents
  BY SameTable DEF TInv, SaveNextSlot
<1>2. slot' \in 0 .. MAX_TABLE_SIZE
  BY SlotAssumption DEF SaveNextSlot
<1>3. ETypeOK'
  BY <1>1, <1>2 DEF TInv, ETypeOK, IInv, SaveNextSlot, file
<1> QED
  BY <1>1, <1>3 DEF TInv, SaveNextSlot, file

LEMMA EndTypes == ASSUME TInv, SaveClose \/ SaveFails \/ Crash PROVE TInv'
<1>1. Gone /\ saved' = saved /\ whole' \in BOOLEAN
  BY DEF TInv, ETypeOK, SaveClose, SaveFails, Crash, file
<1>2. disk' \in Flushed \/ disk' = out \/ disk' = disk
  BY DEF SaveClose, SaveFails, Crash, file
<1>3. disk' = NoFile \/ FileOK(disk')
  BY <1>2, FlushedOK DEF TInv
<1> QED
  BY <1>1, <1>3, GoneTypes DEF TInv, ETypeOK

LEMMA TInvInit == EInit => TInv
<1> SUFFICES ASSUME EInit PROVE TInv
  OBVIOUS
<1>1. IInv /\ StoredKeys = {}
  BY InitIInv, InitEmpty DEF EInit
<1>2. DictOK(Contents)
  BY <1>1 DEF DictOK, Contents
<1>3. <<>> \in Seq(String) /\ <<>> \in Seq(Piece) /\ 0 \in 0 .. MAX_TABLE_SIZE /\ FileOK(<<>>)
  BY EmptySeq, SlotAssumption DEF FileOK
<1>4. ETypeOK
  BY <1>1, <1>3 DEF ETypeOK, IInv, EInit, String
<1> QED
  BY <1>1, <1>2, <1>3, <1>4 DEF TInv, EInit

LEMMA TInvStep ==
  ASSUME TInv, [ENext]_evars
  PROVE  TInv'
<1>1. CASE ENext
  BY <1>1, LoadOpenTypes, LoadNothingTypes, LoadLineTypes, LoadDoneTypes, ServeTypes,
     SaveOpenTypes, SaveNodeTypes, SaveNextSlotTypes, EndTypes DEF ENext
<1>2. CASE UNCHANGED evars
  <2>1. IInv' /\ Contents' = Contents
    BY <1>2, SameTable DEF TInv, evars, table
  <2> QED
    BY <1>2, <2>1 DEF TInv, ETypeOK, IInv, evars, FileOK, LineOK
<1> QED
  BY <1>1, <1>2

LEMMA TInvAlways == ESpec => []TInv
<1>1. EInit => TInv
  BY TInvInit
<1>2. TInv /\ [ENext]_evars => TInv'
  BY TInvStep
<1> QED
  BY <1>1, <1>2, PTL DEF ESpec

\* Whatever the clients send, and wherever a crash or a full disk cuts a file,
\* what loading stores are strings, and the file stays one of lines that have
\* a key, a colon and a value, or no colon at all.
THEOREM EngineTypeCorrect == ESpec => []ETypeOK
<1>1. TInv => ETypeOK
  BY DEF TInv
<1> QED
  BY <1>1, TInvAlways, PTL

\* Through loading, commands, saving, crashes and restarts, hash->count stays
\* the number of keys that a lookup finds, for the chains stay well formed.
THEOREM EngineCountCorrect == ESpec => []CountExact
<1>1. TInv => CountExact
  BY DEF TInv, IInv
<1> QED
  BY <1>1, TInvAlways, PTL

-----------------------------------------------------------------------------
(* Lines of strings that the format of the file can hold *)

PlainKey(k) == k \in Key /\ Len(k) = 1 /\ BrokenAt(k) = {}

PlainValue(v) == v \in Value /\ BrokenAt(v) \subseteq {Len(v)}

PlainDict(d) == \A k \in DOMAIN d : PlainKey(k) /\ PlainValue(d[k])

\* What fgets can leave of such a line.
Crumbs == {<<>>} \cup {<<p>> : p \in Word}

LEMMA CutPlain ==
  ASSUME NEW s \in String, BrokenAt(s) \subseteq {Len(s)},
         NEW i \in 1 .. Len(s), NEW p \in Ends,
         NEW c, c = Append(SubSeq(s, 1, i - 1), p)
  PROVE  BrokenAt(c) = {} /\ c \in String /\ Len(c) = i
<1>1. p \in Piece /\ p \notin Broken
  BY Strings
<1>2. c \in String /\ Len(c) = i /\ c[i] = p /\ \A j \in 1 .. i - 1 : c[j] = s[j]
  BY <1>1, CutTail DEF String
<1>3. Len(s) \in Nat /\ i \in Nat /\ i <= Len(s) /\ DOMAIN s = 1 .. Len(s) /\ DOMAIN c = 1 .. i
  BY <1>2 DEF String
<1>4. ASSUME NEW j \in 1 .. i, c[j] \in Broken PROVE FALSE
  <2>1. j # i
    BY <1>1, <1>2, <1>4
  <2>2. j \in 1 .. i - 1 /\ j \in 1 .. Len(s) /\ j # Len(s)
    BY <1>3, <2>1, Below, Zenon
  <2>3. s[j] \in Broken
    BY <1>2, <1>4, <2>2
  <2> QED
    BY <1>3, <2>2, <2>3 DEF BrokenAt
<1> QED
  BY <1>2, <1>3, <1>4 DEF BrokenAt

\* The line of a pair: one word, and the value behind it.
LEMMA PairLine ==
  ASSUME NEW k, PlainKey(k), NEW v, PlainValue(v), NEW l, l = k \o v
  PROVE  /\ l \in String /\ v \in String /\ Len(v) \in Nat /\ Len(v) >= 1
         /\ Len(l) = Len(v) + 1 /\ l # <<>>
         /\ KeyOf(l) = k /\ RestOf(l) = v
         /\ \A i \in 1 .. Len(v) : l[i + 1] = v[i]
         /\ BrokenAt(l) = {i + 1 : i \in BrokenAt(v)}
         /\ BrokenAt(l) \subseteq {Len(l)}
<1> DEFINE p == k[1]
<1>1. k \in Seq(Piece) /\ Len(k) = 1 /\ v \in Seq(Piece) /\ Len(v) \in Nat /\ Len(v) >= 1
  BY Strings DEF PlainKey, PlainValue, String
<1>2. p \in Piece /\ p \notin Broken
  <2>1. 1 \in DOMAIN k
    BY <1>1
  <2>2. 1 \notin BrokenAt(k)
    BY DEF PlainKey
  <2>3. p \notin Broken
    BY <2>1, <2>2 DEF BrokenAt
  <2>4. 1 \in 1 .. Len(k)
    BY <1>1
  <2> QED
    BY <1>1, <2>3, <2>4, ElementOfSeq
<1>3. k = <<p>>
  <2>1. <<p>> \in Seq(Piece) /\ Len(<<p>>) = 1 /\ \A i \in 1 .. 1 : <<p>>[i] = k[i]
    BY <1>2
  <2> QED
    BY <1>1, <2>1, SeqEqual
<1> HIDE DEF p
<1>4. /\ l \in Seq(Piece) /\ Len(l) = Len(v) + 1 /\ l # <<>>
      /\ l[1] = p /\ \A i \in 2 .. Len(v) + 1 : l[i] = v[i - 1]
      /\ Head(l) = p /\ Tail(l) = v
  BY <1>1, <1>2, <1>3, ConsTail
<1>5. DOMAIN v = 1 .. Len(v) /\ DOMAIN l = 1 .. Len(v) + 1
  BY <1>1, <1>4
<1>6. \A i \in 1 .. Len(v) : i + 1 \in 2 .. Len(v) + 1 /\ l[i + 1] = v[i]
  BY <1>1, <1>4
<1>7. ASSUME NEW i \in BrokenAt(l) PROVE i - 1 \in BrokenAt(v) /\ i = (i - 1) + 1
  <2>1. i \in 1 .. Len(v) + 1 /\ l[i] \in Broken
    BY <1>5 DEF BrokenAt
  <2>2. i # 1
    BY <1>2, <1>4, <2>1
  <2>3. i \in 2 .. Len(v) + 1 /\ i - 1 \in 1 .. Len(v) /\ i = (i - 1) + 1
    BY <1>1, <2>1, <2>2
  <2> QED
    BY <1>4, <1>5, <2>1, <2>3 DEF BrokenAt
<1>8. ASSUME NEW i \in BrokenAt(v) PROVE i + 1 \in BrokenAt(l) /\ i = Len(v)
  <2>1. i \in 1 .. Len(v) /\ v[i] \in Broken
    BY <1>5 DEF BrokenAt
  <2>2. i + 1 \in 1 .. Len(v) + 1
    BY <1>1, <2>1
  <2> QED
    BY <1>5, <1>6, <2>1, <2>2 DEF BrokenAt, PlainValue
<1>9. BrokenAt(l) = {i + 1 : i \in BrokenAt(v)}
  BY <1>7, <1>8
<1>10. BrokenAt(l) \subseteq {Len(l)}
  BY <1>4, <1>8, <1>9
<1> QED
  BY <1>1, <1>3, <1>4, <1>6, <1>9, <1>10 DEF KeyOf, RestOf, String

\* Loading makes of it the key and what fgets takes of the value, and leaves
\* no second pair behind.
LEMMA PairFetched ==
  ASSUME NEW k, PlainKey(k), NEW v, PlainValue(v), NEW l, l = k \o v
  PROVE  /\ Len(Fetched(l)) > 1 /\ KeyOf(Fetched(l)) = k /\ RestOf(Fetched(l)) = Fetched(v)
         /\ Left(l) \in Crumbs
         /\ PlainValue(Fetched(v))
<1> DEFINE n == Len(v)
<1>1. /\ l \in String /\ v \in String /\ n \in Nat /\ n >= 1
      /\ Len(l) = n + 1 /\ l # <<>>
      /\ KeyOf(l) = k /\ RestOf(l) = v
      /\ BrokenAt(l) = {i + 1 : i \in BrokenAt(v)}
  BY PairLine
<1>2. BrokenAt(l) \subseteq {n + 1} /\ BrokenAt(v) \subseteq {n}
  BY PairLine DEF PlainValue
<1>3. CASE BrokenAt(v) = {}
  <2>1. BrokenAt(l) = {}
    BY <1>1, <1>3
  <2>2. Fetched(l) = l /\ Left(l) = <<>> /\ Fetched(v) = v
    BY <1>3, <2>1 DEF Fetched, Left
  <2>3. n + 1 > 1
    BY <1>1
  <2> QED
    BY <1>1, <2>2, <2>3 DEF Crumbs
<1>4. CASE BrokenAt(v) # {}
  <2> DEFINE c == Fetched(l)
             d == Fetched(v)
  <2>1. BrokenAt(l) # {}
    BY <1>1, <1>4
  <2>2. CutAt(l) = n + 1 /\ CutAt(v) = n
    BY <1>1, <1>2, <1>4, <2>1, CutAtPlace
  <2> DEFINE up == Upper[v[n]]
             low == Lower[v[n]]
  <2>a. l[n + 1] = v[n] /\ up \in Ends /\ low \in Word
    <3>1. n \in 1 .. n
      BY <1>1
    <3>2. l[n + 1] = v[n]
      BY <3>1, PairLine
    <3>3. v[n] \in Broken
      BY <1>1, <1>4, <2>2, CutAtPlace
    <3> QED
      BY <3>2, <3>3, Strings
  <2>3. c = Append(SubSeq(l, 1, (n + 1) - 1), up)
    BY <2>1, <2>2, <2>a DEF Fetched
  <2>4. d = Append(SubSeq(v, 1, n - 1), up)
    BY <1>4, <2>2 DEF Fetched
  <2> HIDE DEF c, d, up, low
  <2>5. n + 1 \in 1 .. Len(l) /\ n + 1 > 1 /\ (n + 1) - 2 = n - 1 /\ up \in Piece
    BY <1>1, <2>a, Strings
  <2>6. /\ Len(c) = n + 1 /\ Head(c) = Head(l)
        /\ Tail(c) = Append(SubSeq(Tail(l), 1, (n + 1) - 2), up)
    BY <1>1, <2>3, <2>5, CutTail DEF String
  <2>7. Len(c) > 1 /\ KeyOf(c) = k /\ RestOf(c) = d
    BY <1>1, <2>4, <2>5, <2>6 DEF KeyOf, RestOf
  <2>8. Left(l) = <<low>>
    <3>1. Left(l) = <<low>> \o SubSeq(l, (n + 1) + 1, n + 1)
      BY <1>1, <2>1, <2>2, <2>a DEF Left, low
    <3>2. SubSeq(l, (n + 1) + 1, n + 1) \in Seq(Piece) /\ Len(SubSeq(l, (n + 1) + 1, n + 1)) = 0
      <4>1. (n + 1) + 1 \in 1 .. Len(l) + 1 /\ n + 1 \in (n + 1) + 1 - 1 .. Len(l)
            /\ (n + 1) - ((n + 1) + 1) + 1 = 0
        BY <1>1
      <4> QED
        BY <1>1, <4>1, SubSeqLen DEF String
    <3>3. SubSeq(l, (n + 1) + 1, n + 1) = <<>>
      BY <3>2, EmptySeq
    <3> QED
      <4>1. <<low>> \in Seq(Piece)
        BY <2>a, Strings
      <4> QED
        BY <3>1, <3>3, <4>1, ConcatEmptySeq
  <2>9. PlainValue(d)
    <3>1. n \in 1 .. Len(v) /\ n \in DOMAIN v
      BY <1>1 DEF String
    <3>2. BrokenAt(d) = {}
      <4>1. v \in String /\ BrokenAt(v) \subseteq {Len(v)} /\ up \in Ends
        BY <1>1, <1>2, <2>a
      <4> QED
        BY <2>4, <3>1, <4>1, CutPlain
    <3>3. d \in Value
      BY <2>4, <2>a, <3>1, StringsAssumption DEF PlainValue, Ends
    <3> QED
      BY <3>2, <3>3 DEF PlainValue
  <2> QED
    BY <2>7, <2>8, <2>9, <2>a DEF c, d, Crumbs
<1> QED
  BY <1>3, <1>4

\* What is left of it is read as lines without a colon.
LEMMA CrumbRead ==
  ASSUME NEW c \in Crumbs, c # <<>>
  PROVE  Len(Fetched(c)) = 1 /\ Left(c) \in Crumbs
<1>1. PICK p \in Word : c = <<p>>
  BY DEF Crumbs
<1>2. c \in String /\ Len(c) = 1 /\ DOMAIN c = {1} /\ c[1] = p
  BY <1>1, Strings DEF String
<1>3. CASE BrokenAt(c) = {}
  BY <1>2, <1>3 DEF Fetched, Left, Crumbs
<1>4. CASE BrokenAt(c) # {}
  <2>1. CutAt(c) = 1 /\ p \in Broken
    BY <1>2, <1>4, CutAtPlace
  <2>2. SubSeq(c, 1, 1 - 1) = <<>> /\ SubSeq(c, 1 + 1, 1) = <<>>
    <3>1. SubSeq(c, 1, 1 - 1) \in Seq(Piece) /\ Len(SubSeq(c, 1, 1 - 1)) = 0
      BY <1>2, SubSeqLen DEF String
    <3>2. SubSeq(c, 1 + 1, 1) \in Seq(Piece) /\ Len(SubSeq(c, 1 + 1, 1)) = 0
      BY <1>2, SubSeqLen DEF String
    <3> QED
      BY <3>1, <3>2, EmptySeq
  <2>3. Fetched(c) = <<Upper[p]>>
    <3>1. Fetched(c) = Append(SubSeq(c, 1, 1 - 1), Upper[c[1]])
      BY <1>4, <2>1 DEF Fetched
    <3>2. Fetched(c) = Append(<<>>, Upper[p])
      BY <1>2, <2>2, <3>1, Zenon
    <3> QED
      BY <3>2
  <2>4. Left(c) = <<Lower[p]>>
    <3>1. Left(c) = <<Lower[c[1]]>> \o SubSeq(c, 1 + 1, Len(c))
      BY <1>4, <2>1 DEF Left
    <3>2. Left(c) = <<Lower[p]>> \o <<>>
      BY <1>2, <2>2, <3>1, Zenon
    <3>3. <<Lower[p]>> \in Seq(Word)
      BY <2>1, Strings
    <3> QED
      BY <3>2, <3>3, ConcatEmptySeq
  <2> QED
    BY <2>1, <2>3, <2>4, Strings DEF Crumbs
<1> QED
  BY <1>3, <1>4

\* Of a line that a crash cut, loading makes the key, if it is there, and some
\* beginning of the value.
LEMMA PairTorn ==
  ASSUME NEW k, PlainKey(k), NEW v, PlainValue(v), NEW l, l = k \o v, NEW c \in CutLine(l)
  PROVE  /\ Left(c) \in Crumbs
         /\ Len(Fetched(c)) > 1 =>
              KeyOf(Fetched(c)) = k /\ PlainValue(RestOf(Fetched(c)))
<1> DEFINE n == Len(v)
<1>1. /\ l \in String /\ v \in String /\ n \in Nat /\ n >= 1
      /\ Len(l) = n + 1 /\ l # <<>>
      /\ KeyOf(l) = k /\ RestOf(l) = v
      /\ BrokenAt(l) \subseteq {Len(l)}
  BY PairLine
<1>5. DOMAIN l = 1 .. Len(l) /\ l \in Seq(Piece)
  BY <1>1 DEF String
<1>2. ASSUME NEW i \in DOMAIN l, c = Append(SubSeq(l, 1, i - 1), Torn)
      PROVE  /\ Left(c) = <<>>
             /\ Len(Fetched(c)) > 1 =>
                  KeyOf(Fetched(c)) = k /\ PlainValue(RestOf(Fetched(c)))
  <2>1. BrokenAt(c) = {} /\ Len(c) = i
    <3>1. i \in 1 .. Len(l) /\ Torn \in Ends
      BY <1>5 DEF Ends
    <3> QED
      <4>1. l \in String /\ BrokenAt(l) \subseteq {Len(l)}
        BY <1>1
      <4>2. c = Append(SubSeq(l, 1, i - 1), Torn)
        BY <1>2
      <4>3. BrokenAt(c) = {}
        BY <3>1, <4>1, <4>2, CutPlain
      <4>4. Len(c) = i
        BY <3>1, <4>1, <4>2, CutPlain
      <4> QED
        BY <4>3, <4>4
  <2>2. Fetched(c) = c /\ Left(c) = <<>>
    BY <2>1 DEF Fetched, Left
  <2>3. ASSUME i > 1 PROVE KeyOf(c) = k /\ PlainValue(RestOf(c))
    <3>1. Torn \in Ends /\ Torn \in Piece /\ i \in 1 .. Len(l)
      BY <1>5, Strings DEF Ends
    <3>2. Head(c) = Head(l) /\ Tail(c) = Append(SubSeq(Tail(l), 1, i - 2), Torn)
      <4>1. l \in Seq(Piece) /\ i \in 1 .. Len(l) /\ i > 1
        BY <1>5, <2>3, <3>1
      <4>2. c = Append(SubSeq(l, 1, i - 1), Torn)
        BY <1>2
      <4> QED
        BY <3>1, <4>1, <4>2, CutTailLong, Zenon
    <3>3. i - 1 \in 1 .. n /\ i - 1 \in DOMAIN v /\ (i - 1) - 1 = i - 2
      BY <1>1, <2>3 DEF String
    <3>4. RestOf(c) = Append(SubSeq(v, 1, (i - 1) - 1), Torn)
      BY <1>1, <3>2, <3>3 DEF RestOf
    <3>5. RestOf(c) \in Value
      BY <3>3, <3>4, StringsAssumption DEF PlainValue
    <3>6. BrokenAt(RestOf(c)) = {}
      BY <1>1, <3>1, <3>3, <3>4, CutPlain DEF PlainValue
    <3> QED
      BY <1>1, <3>2, <3>5, <3>6 DEF PlainValue, KeyOf
  <2> QED
    BY <2>1, <2>2, <2>3
<1>3. ASSUME NEW i \in BrokenAt(l), c = SubSeq(l, 1, i)
      PROVE  c = l
  <2>1. i = n + 1 /\ 1 \in 1 .. Len(l) + 1 /\ i \in 1 - 1 .. Len(l) /\ i - 1 + 1 = n + 1
    BY <1>1, <1>3
  <2>2. c \in Seq(Piece) /\ Len(c) = i - 1 + 1 /\ \A j \in 1 .. i - 1 + 1 : c[j] = l[1 + j - 1]
    BY <1>1, <1>3, <2>1, SubSeqLen DEF String
  <2>3. Len(c) = n + 1 /\ \A j \in 1 .. n + 1 : c[j] = l[j]
    BY <1>1, <2>1, <2>2
  <2> QED
    BY <1>1, <2>2, <2>3, SeqEqual DEF String
<1>4. c = l => Left(c) \in Crumbs /\ KeyOf(Fetched(c)) = k /\ PlainValue(RestOf(Fetched(c)))
  BY PairFetched
<1> QED
  BY <1>2, <1>3, <1>4 DEF CutLine, Crumbs

-----------------------------------------------------------------------------
(* The invariant of saving and loading *)

Pair(k) == k \o saved[k]

\* A line that restores a pair of the table that was saved.
Restores(l) ==
  /\ Len(Fetched(l)) > 1
  /\ \E k \in DOMAIN saved : KeyOf(Fetched(l)) = k /\ RestOf(Fetched(l)) = Fetched(saved[k])
  /\ Left(l) \in Crumbs

\* A line that restores the key of one, if any, and leaves no other pair behind.
Harmless(l) ==
  /\ Len(Fetched(l)) > 1 =>
       KeyOf(Fetched(l)) \in DOMAIN saved /\ PlainValue(RestOf(Fetched(l)))
  /\ Left(l) \in Crumbs

Sound(f) == \A n \in DOMAIN f : Harmless(f[n]) /\ (n < Len(f) => Restores(f[n]))

Complete(f) ==
  /\ \A n \in DOMAIN f : Restores(f[n])
  /\ \A k \in DOMAIN saved : \E n \in DOMAIN f : KeyOf(Fetched(f[n])) = k

\* The node of k is before the cursor of save_to_disk.
Visited(k) == Hash[k] < slot \/ (Hash[k] = slot /\ Place(k) < at)

SavingInv ==
  phase = "saving" =>
    /\ saved = Contents /\ whole = FALSE /\ at >= 1
    /\ \A n \in DOMAIN out : \E k \in DOMAIN saved : out[n] = Pair(k)
    /\ \A k \in DOMAIN saved : Visited(k) => \E n \in DOMAIN out : out[n] = Pair(k)

\* The line n is one that stores the key k, if it is the first such.
Brings(n, k) == Len(Fetched(disk[n])) > 1 /\ KeyOf(Fetched(disk[n])) = k

LoadingInv ==
  phase = "loading" =>
    /\ \A k \in DOMAIN Contents :
         \E n \in 1 .. read : Brings(n, k) /\ Contents[k] = RestOf(Fetched(disk[n]))
    /\ \A n \in 1 .. read :
         Len(Fetched(disk[n])) > 1 => KeyOf(Fetched(disk[n])) \in DOMAIN Contents
    /\ rest \in Crumbs

\* What the file holds is what was saved; what loading has stored is what it
\* has read of the file; what saving has written is what it has visited.
PInv ==
  /\ ClientsPlain
  /\ TInv
  /\ PlainDict(Contents) /\ PlainDict(saved)
  /\ disk # NoFile => Sound(disk) /\ (whole => Complete(disk))
  /\ SavingInv
  /\ LoadingInv

LEMMA RestoresHarmless ==
  ASSUME PlainDict(saved), NEW l, Restores(l)
  PROVE  Harmless(l)
<1>1. PICK k \in DOMAIN saved : KeyOf(Fetched(l)) = k /\ RestOf(Fetched(l)) = Fetched(saved[k])
  BY DEF Restores
<1>2. PlainValue(Fetched(saved[k]))
  BY PairFetched DEF PlainDict
<1> QED
  BY <1>1, <1>2 DEF Restores, Harmless

LEMMA PairRestores ==
  ASSUME PlainDict(saved), NEW k \in DOMAIN saved
  PROVE  Restores(Pair(k)) /\ KeyOf(Fetched(Pair(k))) = k
BY PairFetched DEF PlainDict, Restores, Pair

LEMMA TornHarmless ==
  ASSUME PlainDict(saved), NEW k \in DOMAIN saved, NEW c \in CutLine(Pair(k))
  PROVE  Harmless(c)
BY PairTorn DEF PlainDict, Harmless, Pair

-----------------------------------------------------------------------------
(* The file a save leaves *)

\* Whatever part of the stream reaches the file, all but its last line are
\* whole lines.
LEMMA FlushedSound ==
  ASSUME TInv, PlainDict(saved), \A n \in DOMAIN out : \E k \in DOMAIN saved : out[n] = Pair(k),
         NEW f \in Flushed
  PROVE  Sound(f)
<1>1. FileOK(out) /\ DOMAIN out = 1 .. Len(out) /\ Len(out) \in Nat /\ out \in Seq(String)
  BY DEF TInv, FileOK
<1>2. \A n \in 1 .. Len(out) : Restores(out[n]) /\ Harmless(out[n])
  BY <1>1, PairRestores, RestoresHarmless
<1>3. CASE f \in {SubSeq(out, 1, n) : n \in 0 .. Len(out)}
  <2>1. PICK n \in 0 .. Len(out) : f = SubSeq(out, 1, n)
    BY <1>3
  <2>2. Len(f) = n /\ (\A m \in 1 .. n : f[m] = out[m]) /\ f \in Seq(String)
    BY <1>1, <2>1, FileCut DEF FileOK
  <2>3. DOMAIN f = 1 .. n /\ \A m \in 1 .. n : m \in 1 .. Len(out)
    BY <1>1, <2>2
  <2> QED
    BY <1>2, <2>2, <2>3 DEF Sound
<1>4. CASE \E n \in DOMAIN out : \E l \in CutLine(out[n]) : f = Append(SubSeq(out, 1, n - 1), l)
  <2>1. PICK n \in DOMAIN out : \E l \in CutLine(out[n]) : f = Append(SubSeq(out, 1, n - 1), l)
    BY <1>4
  <2>2. PICK l \in CutLine(out[n]) : f = Append(SubSeq(out, 1, n - 1), l)
    BY <2>1
  <2> DEFINE g == SubSeq(out, 1, n - 1)
  <2>3. n - 1 \in 0 .. Len(out) /\ n \in Nat /\ n - 1 \in Nat
    BY <1>1
  <2>4. Len(g) = n - 1 /\ (\A m \in 1 .. n - 1 : g[m] = out[m]) /\ g \in Seq(String)
    BY <1>1, <2>3, FileCut DEF FileOK
  <2>5. LineOK(l) /\ l \in String
    BY <1>1, TornLineOK DEF FileOK, LineOK
  <2>6. f = Append(g, l)
    BY <2>2
  <2> HIDE DEF g
  <2>7. f \in Seq(String) /\ Len(f) = Len(g) + 1 /\ f[Len(g) + 1] = l
        /\ \A m \in 1 .. Len(g) : f[m] = g[m]
    BY <2>4, <2>5, <2>6, AppendProperties
  <2>8. Len(f) = n /\ DOMAIN f = 1 .. n /\ f[n] = l
    BY <2>3, <2>4, <2>7
  <2>9. \A m \in 1 .. n - 1 : f[m] = out[m] /\ m \in 1 .. Len(out)
    BY <1>1, <2>3, <2>4, <2>7
  <2>10. Harmless(l)
    BY TornHarmless
  <2>11. \A m \in 1 .. n : m = n \/ m \in 1 .. n - 1
    BY <2>3
  <2>12. ~ (n < n)
    BY <2>3
  <2> QED
    BY <1>2, <2>8, <2>9, <2>10, <2>11, <2>12 DEF Sound
<1> QED
  BY <1>3, <1>4 DEF Flushed

\* Once the outer loop has ended, every node has been visited.
LEMMA OutComplete ==
  ASSUME PInv, phase = "saving", slot \notin Slot
  PROVE  Sound(out) /\ Complete(out)
<1>1. /\ \A n \in DOMAIN out : \E k \in DOMAIN saved : out[n] = Pair(k)
      /\ \A k \in DOMAIN saved : Visited(k) => \E n \in DOMAIN out : out[n] = Pair(k)
      /\ PlainDict(saved) /\ DOMAIN saved \subseteq Key
  BY DEF PInv, SavingInv, TInv, ETypeOK
<1>2. \A n \in DOMAIN out : Restores(out[n]) /\ Harmless(out[n])
  BY <1>1, PairRestores, RestoresHarmless
<1>3. slot = MAX_TABLE_SIZE
  BY SlotAssumption DEF PInv, TInv, ETypeOK
<1>4. \A k \in DOMAIN saved : Visited(k)
  BY <1>1, <1>3, SlotAssumption, HashAssumption DEF Visited
<1>5. \A k \in DOMAIN saved : \E n \in DOMAIN out : KeyOf(Fetched(out[n])) = k
  BY <1>1, <1>4, PairRestores
<1> QED
  BY <1>2, <1>5 DEF Sound, Complete

-----------------------------------------------------------------------------
(* The invariant, step by step *)

\* The file and what it was made from are as they were, and neither loop runs.
LEMMA FileKept ==
  ASSUME PInv, TInv', PlainDict(Contents'), UNCHANGED file, phase' \in {"down", "serving"}
  PROVE  PInv'
BY DEF PInv, SavingInv, LoadingInv, file, ClientsPlain, BrokenAt, PlainDict, PlainKey, PlainValue,
       Sound, Complete, Restores, Harmless

LEMMA EmptyPlain == ASSUME FreshTable PROVE PlainDict(Contents')
BY Emptied DEF PlainDict

LEMMA LoadOpenPlain == ASSUME PInv, LoadOpen PROVE PInv'
<1>1. TInv' /\ PlainDict(Contents') /\ DOMAIN Contents' = {}
  BY LoadOpenTypes, EmptyPlain, Emptied DEF PInv, LoadOpen
<1>2. read' = 0 /\ rest' = <<>> /\ UNCHANGED file
  BY DEF PInv, TInv, LoadOpen, file, cursors
<1>3. LoadingInv' /\ SavingInv'
  BY <1>1, <1>2 DEF LoadingInv, SavingInv, LoadOpen, Crumbs
<1> QED
  BY <1>1, <1>2, <1>3 DEF PInv, file, ClientsPlain, BrokenAt, PlainDict, PlainKey, PlainValue,
     Sound, Complete, Restores, Harmless

LEMMA LoadNothingPlain == ASSUME PInv, LoadNothing PROVE PInv'
BY LoadNothingTypes, EmptyPlain, FileKept DEF PInv, LoadNothing

LEMMA LoadDonePlain == ASSUME PInv, LoadDone PROVE PInv'
<1>1. Contents' = Contents
  BY SameTable DEF PInv, TInv, LoadDone
<1> QED
  BY <1>1, LoadDoneTypes, FileKept DEF PInv, LoadDone

LEMMA ServePlain == ASSUME PInv, Serve PROVE PInv'
<1>1. \/ Contents' = Contents
      \/ \E k \in Key : Contents' = Map!Without(k)
      \/ \E k \in ClientKey, v \in ClientValue : Contents' = Map!With(k, v)
  BY ServeEffect DEF PInv, TInv
<1>2. \A k \in ClientKey, v \in ClientValue : PlainKey(k) /\ PlainValue(v)
  BY WordAssumption DEF PInv, ClientsPlain, PlainKey, PlainValue
<1>3. PlainDict(Contents)
  BY DEF PInv
<1>4. ASSUME Contents' = Contents PROVE PlainDict(Contents')
  BY <1>3, <1>4 DEF PlainDict
<1>5. ASSUME NEW k \in Key, Contents' = Map!Without(k) PROVE PlainDict(Contents')
  <2>1. /\ DOMAIN Contents' = DOMAIN Contents \ {k}
        /\ \A x \in DOMAIN Contents \ {k} : Contents'[x] = Contents[x]
    BY <1>5, EntriesWithout
  <2> QED
    BY <1>3, <2>1 DEF PlainDict
<1>6. ASSUME NEW k \in ClientKey, NEW v \in ClientValue, Contents' = Map!With(k, v)
      PROVE  PlainDict(Contents')
  <2>1. /\ DOMAIN Contents' = DOMAIN Contents \cup {k} /\ Contents'[k] = v
        /\ \A x \in DOMAIN Contents \ {k} : Contents'[x] = Contents[x]
    BY <1>6, EntriesWith
  <2>2. PlainKey(k) /\ PlainValue(v)
    BY <1>2
  <2> QED
    BY <1>3, <2>1, <2>2 DEF PlainDict
<1>7. PlainDict(Contents')
  BY <1>1, <1>3, <1>4, <1>5, <1>6
<1>8. phase' = "serving" /\ UNCHANGED file
  BY DEF Serve
<1> QED
  BY <1>7, <1>8, ServeTypes, FileKept DEF PInv

\* A remainder stores nothing; a line of the file stores at most its own key.
LEMMA LoadLinePlain == ASSUME PInv, LoadLine PROVE PInv'
<1> DEFINE line == Fetched(Pending)
           k == KeyOf(line)
           v == RestOf(line)
<1>1. /\ LineOK(line) /\ k \in Key /\ Len(line) \in Nat /\ Len(line) >= 1
      /\ \/ Len(line) > 1 /\ k \notin DOMAIN Contents /\ Contents' = Map!With(k, v)
         \/ (Len(line) = 1 \/ k \in DOMAIN Contents) /\ Contents' = Contents
  BY LoadEffect DEF PInv
<1>2. /\ phase = "loading" /\ phase' = "loading" /\ UNCHANGED file /\ ~Loaded
      /\ rest' = Left(Pending) /\ read' = IF rest = <<>> THEN read + 1 ELSE read
  BY DEF LoadLine, ReadOn
<1>3. /\ \A x \in DOMAIN Contents :
           \E n \in 1 .. read : Brings(n, x) /\ Contents[x] = RestOf(Fetched(disk[n]))
      /\ \A n \in 1 .. read :
           Len(Fetched(disk[n])) > 1 => KeyOf(Fetched(disk[n])) \in DOMAIN Contents
      /\ rest \in Crumbs /\ read \in Nat /\ disk # NoFile /\ Sound(disk)
      /\ PlainDict(Contents) /\ PlainDict(saved) /\ DOMAIN saved \subseteq Key
  BY <1>2 DEF PInv, TInv, ETypeOK, LoadingInv
<1>4. TInv'
  BY LoadLineTypes DEF PInv
<1>5. /\ PlainDict(Contents')
      /\ \A x \in DOMAIN Contents' :
           \E n \in 1 .. read' : Brings(n, x) /\ Contents'[x] = RestOf(Fetched(disk[n]))
      /\ \A n \in 1 .. read' :
           Len(Fetched(disk[n])) > 1 => KeyOf(Fetched(disk[n])) \in DOMAIN Contents'
      /\ rest' \in Crumbs
  <2>1. CASE rest # <<>>
    <3>1. Pending = rest /\ read' = read
      BY <1>2, <2>1 DEF Pending
    <3>3. Len(line) = 1 /\ rest' \in Crumbs
      BY <1>2, <1>3, <2>1, <3>1, CrumbRead
    <3>4. Contents' = Contents
      <4>1. ~ (Len(line) > 1)
        BY <3>3
      <4> QED
        BY <1>1, <4>1
    <3> QED
      BY <1>3, <3>1, <3>3, <3>4
  <2>2. CASE rest = <<>>
    <3>1. read + 1 \in DOMAIN disk /\ Pending = disk[read + 1] /\ read' = read + 1
      BY <1>2, <2>2, PendingOK DEF Pending, PInv
    <3>2. Harmless(disk[read + 1])
      BY <1>3, <3>1 DEF Sound
    <3>3. rest' \in Crumbs /\ (Len(line) > 1 => k \in DOMAIN saved /\ PlainValue(v))
      BY <1>2, <3>1, <3>2 DEF Harmless
    <3>4. \A n \in 1 .. read' : n \in 1 .. read \/ n = read + 1
      BY <1>3, <3>1
    <3>5. 1 .. read \subseteq 1 .. read' /\ read + 1 \in 1 .. read'
      BY <1>3, <3>1
    <3>6. line = Fetched(disk[read + 1])
      BY <3>1
    <3> HIDE DEF line
    <3>7. CASE Len(line) > 1 /\ k \notin DOMAIN Contents /\ Contents' = Map!With(k, v)
      <4>1. /\ DOMAIN Contents' = DOMAIN Contents \cup {k} /\ Contents'[k] = v
            /\ \A x \in DOMAIN Contents : Contents'[x] = Contents[x]
        BY <3>7 DEF Map!With
      <4>2. PlainKey(k)
        BY <1>3, <3>3, <3>7 DEF PlainDict
      <4>3. PlainDict(Contents')
        BY <1>3, <3>3, <3>7, <4>1, <4>2 DEF PlainDict
      <4>4. Brings(read + 1, k) /\ Contents'[k] = RestOf(Fetched(disk[read + 1]))
        BY <3>6, <3>7, <4>1 DEF Brings
      <4>5. \A x \in DOMAIN Contents' :
              \E n \in 1 .. read' : Brings(n, x) /\ Contents'[x] = RestOf(Fetched(disk[n]))
        BY <1>3, <3>5, <4>1, <4>4
      <4>6. \A n \in 1 .. read' :
              Len(Fetched(disk[n])) > 1 => KeyOf(Fetched(disk[n])) \in DOMAIN Contents'
        BY <1>3, <3>4, <3>6, <4>1
      <4> QED
        BY <3>3, <4>3, <4>5, <4>6
    <3>8. CASE (Len(line) = 1 \/ k \in DOMAIN Contents) /\ Contents' = Contents
      <4>1. Len(Fetched(disk[read + 1])) > 1 => KeyOf(Fetched(disk[read + 1])) \in DOMAIN Contents
        <5>1. Len(line) = 1 => ~ (Len(line) > 1)
          OBVIOUS
        <5> QED
          BY <3>6, <3>8, <5>1, Zenon
      <4> QED
        BY <1>3, <3>3, <3>4, <3>5, <3>8, <4>1
    <3> QED
      BY <1>1, <3>7, <3>8
  <2> QED
    BY <2>1, <2>2
<1>6. LoadingInv' /\ SavingInv'
  <2>1. disk' = disk /\ phase' = "loading"
    BY <1>2 DEF file
  <2>2. SavingInv'
    BY <2>1 DEF SavingInv
  <2> HIDE DEF line, k, v
  <2>3. LoadingInv'
    BY <1>5, <2>1 DEF LoadingInv, Brings
  <2> QED
    BY <2>2, <2>3
<1> QED
  BY <1>2, <1>4, <1>5, <1>6 DEF PInv, file, ClientsPlain, BrokenAt, PlainDict, PlainKey, PlainValue,
     Sound, Complete, Restores, Harmless

LEMMA SaveOpenPlain == ASSUME PInv, SaveOpen PROVE PInv'
<1>1. TInv' /\ Contents' = Contents
  BY SaveOpenTypes, SameTable DEF PInv, TInv, SaveOpen
<1>2. /\ phase' = "saving" /\ disk' = <<>> /\ out' = <<>> /\ slot' = 0 /\ at' = 1
      /\ saved' = Contents /\ whole' = FALSE /\ nodes' = nodes
  BY DEF SaveOpen, table
<1>3. PlainDict(Contents') /\ PlainDict(saved')
  BY <1>1, <1>2 DEF PInv
<1>4. \A k \in DOMAIN saved' : ~ Visited(k)'
  <2> SUFFICES ASSUME NEW k \in DOMAIN Contents PROVE ~ (Hash[k] < 0 \/ (Hash[k] = 0 /\ Place(k)' < 1))
    BY <1>2 DEF Visited
  <2>1. k \in Key /\ Stored(k)
    BY ContentsType DEF PInv, TInv, StoredKeys
  <2>2. Place(k) \in 1 .. Len(nodes[Hash[k]])
    BY <2>1, LookupIsNode DEF PInv, TInv, IInv, HTypeOK, ChainsOK
  <2>3. Place(k)' = Place(k)
    BY <1>2 DEF Place, Places
  <2>4. Hash[k] \in 0 .. MAX_TABLE_SIZE - 1
    BY <2>1, HashAssumption, SlotAssumption
  <2> QED
    BY <2>2, <2>3, <2>4, SlotAssumption
<1>5. SavingInv' /\ LoadingInv'
  BY <1>1, <1>2, <1>4 DEF SavingInv, LoadingInv
<1>6. Sound(<<>>)'
  BY DEF Sound
<1> QED
  BY <1>1, <1>2, <1>3, <1>5, <1>6 DEF PInv, ClientsPlain, BrokenAt, Sound

\* The node written is the one whose place the cursor passes.
LEMMA SaveNodePlain == ASSUME PInv, SaveNode PROVE PInv'
<1> DEFINE k == nodes[slot][at].key
<1>1. TInv' /\ Contents' = Contents
  BY SaveNodeTypes, SameTable DEF PInv, TInv, SaveNode
<1>2. /\ phase = "saving" /\ phase' = "saving" /\ nodes' = nodes /\ UNCHANGED file
      /\ slot' = slot /\ at' = at + 1 /\ out' = Append(out, Line(nodes[slot][at]))
      /\ slot \in Slot /\ at \in DOMAIN nodes[slot]
  BY DEF SaveNode, table
<1>3. /\ saved = Contents /\ whole = FALSE /\ at >= 1
      /\ \A n \in DOMAIN out : \E x \in DOMAIN saved : out[n] = Pair(x)
      /\ \A x \in DOMAIN saved : Visited(x) => \E n \in DOMAIN out : out[n] = Pair(x)
  BY <1>2 DEF PInv, SavingInv
<1>4. IInv /\ at \in Nat /\ out \in Seq(String) /\ LineOK(Line(nodes[slot][at]))
  BY <1>2, NodeLineOK DEF PInv, TInv, ETypeOK, FileOK
<1>5. k \in DOMAIN saved /\ Line(nodes[slot][at]) = Pair(k)
  BY <1>2, <1>3, <1>4, NodeIsStored, ContentsType DEF Line, Pair
<1>6. /\ DOMAIN out' = DOMAIN out \cup {Len(out) + 1}
      /\ \A n \in DOMAIN out : out'[n] = out[n]
      /\ out'[Len(out) + 1] = Pair(k)
  <2>1. Line(nodes[slot][at]) \in String /\ Len(out) \in Nat /\ DOMAIN out = 1 .. Len(out)
    BY <1>4 DEF LineOK
  <2>2. out' \in Seq(String) /\ Len(out') = Len(out) + 1
        /\ (\A n \in 1 .. Len(out) : out'[n] = out[n])
        /\ out'[Len(out) + 1] = Line(nodes[slot][at])
    BY <1>2, <1>4, <2>1, AppendProperties
  <2>3. DOMAIN out' = 1 .. Len(out) + 1
    BY <2>2
  <2> QED
    BY <1>5, <2>1, <2>2, <2>3
<1>7. ASSUME NEW x \in DOMAIN saved, Visited(x)'
      PROVE  Visited(x) \/ x = k
  <2>1. x \in Key /\ Stored(x)
    BY <1>3, <1>4, ContentsType DEF StoredKeys
  <2>2. Place(x) \in 1 .. Len(nodes[Hash[x]]) /\ nodes[Hash[x]][Place(x)].key = x
    BY <1>4, <2>1, LookupIsNode DEF IInv, HTypeOK, ChainsOK
  <2>3. Place(x)' = Place(x)
    BY <1>2 DEF Place, Places
  <2>4. Hash[x] < slot \/ (Hash[x] = slot /\ Place(x) < at + 1)
    BY <1>2, <1>7, <2>3 DEF Visited
  <2>5. Place(x) \in Nat
    BY <2>2
  <2>6. Place(x) < at + 1 => Place(x) < at \/ Place(x) = at
    BY <1>4, <2>5
  <2> QED
    BY <2>2, <2>4, <2>6 DEF Visited
<1> HIDE DEF k
<1>8. /\ \A n \in DOMAIN out' : \E x \in DOMAIN saved : out'[n] = Pair(x)
      /\ \A x \in DOMAIN saved : Visited(x)' => \E n \in DOMAIN out' : out'[n] = Pair(x)
  BY <1>3, <1>5, <1>6, <1>7
<1>9. SavingInv' /\ LoadingInv'
  <2>1. at + 1 >= 1 /\ saved' = saved /\ whole' = whole
    BY <1>2, <1>3, <1>4 DEF file
  <2>2. /\ \A n \in DOMAIN out' : \E x \in DOMAIN saved' : out'[n] = Pair(x)'
        /\ \A x \in DOMAIN saved' : Visited(x)' => \E n \in DOMAIN out' : out'[n] = Pair(x)'
    BY <1>8, <2>1 DEF Pair
  <2>3. SavingInv'
    BY <1>1, <1>2, <1>3, <2>1, <2>2 DEF SavingInv
  <2> QED
    BY <1>2, <2>3 DEF LoadingInv
<1> QED
  BY <1>1, <1>2, <1>9 DEF PInv, file, ClientsPlain, BrokenAt, PlainDict, PlainKey, PlainValue,
     Sound, Complete, Restores, Harmless

\* A chain is left when all of its nodes are before the cursor.
LEMMA SaveNextSlotPlain == ASSUME PInv, SaveNextSlot PROVE PInv'
<1>1. TInv' /\ Contents' = Contents
  BY SaveNextSlotTypes, SameTable DEF PInv, TInv, SaveNextSlot
<1>2. /\ phase = "saving" /\ phase' = "saving" /\ nodes' = nodes /\ UNCHANGED file
      /\ slot' = slot + 1 /\ at' = 1 /\ out' = out
      /\ slot \in Slot /\ at \notin DOMAIN nodes[slot]
  BY DEF SaveNextSlot, table
<1>3. /\ saved = Contents /\ whole = FALSE /\ at >= 1
      /\ \A n \in DOMAIN out : \E x \in DOMAIN saved : out[n] = Pair(x)
      /\ \A x \in DOMAIN saved : Visited(x) => \E n \in DOMAIN out : out[n] = Pair(x)
  BY <1>2 DEF PInv, SavingInv
<1>4. IInv /\ at \in Nat /\ slot \in Int
  BY DEF PInv, TInv, ETypeOK
<1>7. ASSUME NEW x \in DOMAIN saved, Visited(x)'
      PROVE  Visited(x)
  <2>1. x \in Key /\ Stored(x)
    BY <1>3, <1>4, ContentsType DEF StoredKeys
  <2>2. Place(x) \in DOMAIN nodes[Hash[x]] /\ Place(x) \in Nat /\ Place(x) >= 1
        /\ \A i \in Nat : i >= 1 /\ i \notin DOMAIN nodes[Hash[x]] => Place(x) < i
    <3>1. Place(x) \in 1 .. Len(nodes[Hash[x]])
      BY <1>4, <2>1, LookupIsNode DEF IInv, HTypeOK, ChainsOK
    <3>2. nodes[Hash[x]] \in Seq(Node)
      BY <1>4, <2>1, HashAssumption DEF IInv, HTypeOK
    <3> QED
      BY <3>1, <3>2
  <2>3. Place(x)' = Place(x)
    BY <1>2 DEF Place, Places
  <2>4. Hash[x] < slot + 1 \/ (Hash[x] = slot + 1 /\ Place(x) < 1)
    BY <1>2, <1>7, <2>3 DEF Visited
  <2>5. Hash[x] \in Int
    BY <2>1, HashAssumption, SlotAssumption
  <2>6. Hash[x] < slot \/ Hash[x] = slot
    BY <1>4, <2>2, <2>4, <2>5
  <2> QED
    BY <1>2, <1>3, <1>4, <2>2, <2>6 DEF Visited
<1>8. \A x \in DOMAIN saved : Visited(x)' => \E n \in DOMAIN out : out[n] = Pair(x)
  BY <1>3, <1>7
<1>9. SavingInv' /\ LoadingInv'
  BY <1>1, <1>2, <1>3, <1>8 DEF SavingInv, LoadingInv, file, Pair
<1> QED
  BY <1>1, <1>2, <1>9 DEF PInv, file, ClientsPlain, BrokenAt, PlainDict, PlainKey, PlainValue,
     Sound, Complete, Restores, Harmless

LEMMA EndPlain == ASSUME PInv, SaveClose \/ SaveFails \/ Crash PROVE PInv'
<1>1. TInv' /\ PlainDict(Contents') /\ saved' = saved /\ phase' = "down"
  BY EndTypes, EmptyPlain DEF PInv, SaveClose, SaveFails, Crash, Gone, file
<1>2. CASE UNCHANGED file
  BY <1>1, <1>2, FileKept
<1>3. CASE phase = "saving" /\ disk' \in Flushed /\ whole' = whole
  <2>1. /\ \A n \in DOMAIN out : \E k \in DOMAIN saved : out[n] = Pair(k)
        /\ whole = FALSE /\ PlainDict(saved)
    BY <1>3 DEF PInv, SavingInv
  <2>2. Sound(disk')
    BY <1>3, <2>1, FlushedSound DEF PInv
  <2> QED
    BY <1>1, <1>3, <2>1, <2>2 DEF PInv, SavingInv, LoadingInv, ClientsPlain, BrokenAt,
       PlainDict, PlainKey, PlainValue, Sound, Complete, Restores, Harmless
<1>4. CASE phase = "saving" /\ slot \notin Slot /\ disk' = out
  <2>1. Sound(disk') /\ Complete(disk')
    BY <1>4, OutComplete
  <2> QED
    BY <1>1, <2>1 DEF PInv, SavingInv, LoadingInv, ClientsPlain, BrokenAt,
       PlainDict, PlainKey, PlainValue, Sound, Complete, Restores, Harmless
<1> QED
  BY <1>2, <1>3, <1>4 DEF SaveClose, SaveFails, Crash, file

LEMMA PInvInit == ClientsPlain /\ EInit => PInv
<1> SUFFICES ASSUME ClientsPlain, EInit PROVE PInv
  OBVIOUS
<1>1. TInv /\ StoredKeys = {}
  BY TInvInit, InitEmpty DEF EInit
<1>2. PlainDict(Contents) /\ PlainDict(saved)
  BY <1>1 DEF PlainDict, Contents, EInit
<1> QED
  BY <1>1, <1>2 DEF PInv, EInit, SavingInv, LoadingInv

LEMMA PInvStep ==
  ASSUME PInv, [ENext]_evars
  PROVE  PInv'
<1>1. CASE ENext
  BY <1>1, LoadOpenPlain, LoadNothingPlain, LoadLinePlain, LoadDonePlain, ServePlain,
     SaveOpenPlain, SaveNodePlain, SaveNextSlotPlain, EndPlain DEF ENext
<1>2. CASE UNCHANGED evars
  <2>1. TInv' /\ Contents' = Contents
    BY <1>2, TInvStep, SameTable DEF PInv, TInv, evars, table
  <2>2. /\ phase' = phase /\ disk' = disk /\ read' = read /\ rest' = rest /\ out' = out
        /\ slot' = slot /\ at' = at /\ saved' = saved /\ whole' = whole /\ nodes' = nodes
    BY <1>2 DEF evars
  <2>3. SavingInv'
    BY <2>1, <2>2 DEF PInv, SavingInv, Visited, Place, Places, Pair
  <2>4. LoadingInv'
    BY <2>1, <2>2 DEF PInv, LoadingInv, Brings
  <2> QED
    BY <2>1, <2>2, <2>3, <2>4 DEF PInv, ClientsPlain, BrokenAt, PlainDict, PlainKey,
       PlainValue, Sound, Complete, Restores, Harmless
<1> QED
  BY <1>1, <1>2

LEMMA PInvAlways == ClientsPlain /\ ESpec => []PInv
<1>1. ClientsPlain /\ EInit => PInv
  BY PInvInit
<1>2. PInv /\ [ENext]_evars => PInv'
  BY PInvStep
<1> QED
  BY <1>1, <1>2, PTL DEF ESpec

-----------------------------------------------------------------------------
(* What a start restores *)

LEMMA RestoredOnLoad == PInv => RestoresWhatWasSaved
<1> SUFFICES ASSUME PInv, Loaded, whole
             PROVE  Contents = [k \in DOMAIN saved |-> Fetched(saved[k])]
  BY DEF RestoresWhatWasSaved
<1>1. /\ Complete(disk) /\ LoadingInv /\ phase = "loading" /\ read = Len(disk)
      /\ FileOK(disk)
  BY DEF PInv, TInv, Loaded
<1>2. DOMAIN disk = 1 .. read
  BY <1>1 DEF FileOK
<1>3. ASSUME NEW k \in DOMAIN Contents
      PROVE  k \in DOMAIN saved /\ Contents[k] = Fetched(saved[k])
  BY <1>1, <1>2 DEF LoadingInv, Brings, Complete, Restores
<1>4. ASSUME NEW k \in DOMAIN saved
      PROVE  k \in DOMAIN Contents
  BY <1>1, <1>2 DEF LoadingInv, Complete, Restores
<1>5. DOMAIN Contents = DOMAIN saved
  BY <1>3, <1>4
<1>6. Contents = [k \in DOMAIN Contents |-> Contents[k]]
  BY DEF Contents
<1> QED
  BY <1>3, <1>5, <1>6

LEMMA SalvagedOnLoad == PInv => SalvagesOnlySaved
<1> SUFFICES ASSUME PInv, Loaded
             PROVE  /\ StoredKeys \subseteq DOMAIN saved
                    /\ \A k, l \in StoredKeys :
                         Contents[k] # Fetched(saved[k]) /\ Contents[l] # Fetched(saved[l]) => k = l
                    /\ whole => StoredKeys = DOMAIN saved
  BY DEF SalvagesOnlySaved
<1>1. /\ Sound(disk) /\ LoadingInv /\ phase = "loading" /\ read = Len(disk) /\ read \in Nat
      /\ FileOK(disk) /\ DOMAIN Contents = StoredKeys
  BY ContentsType DEF PInv, TInv, ETypeOK, Loaded
<1>2. DOMAIN disk = 1 .. read
  BY <1>1 DEF FileOK
<1>3. ASSUME NEW k \in StoredKeys
      PROVE  k \in DOMAIN saved
  BY <1>1, <1>2 DEF LoadingInv, Brings, Sound, Harmless
<1>4. ASSUME NEW k \in StoredKeys, Contents[k] # Fetched(saved[k])
      PROVE  KeyOf(Fetched(disk[read])) = k
  <2>1. PICK n \in 1 .. read : Brings(n, k) /\ Contents[k] = RestOf(Fetched(disk[n]))
    BY <1>1 DEF LoadingInv
  <2>2. ~ Restores(disk[n])
    BY <1>4, <2>1 DEF Restores, Brings
  <2>3. ~ (n < read)
    BY <1>1, <1>2, <2>2 DEF Sound
  <2>4. n = read
    BY <1>1, <2>3
  <2> QED
    BY <2>1, <2>4 DEF Brings
<1>5. whole => StoredKeys = DOMAIN saved
  <2> SUFFICES ASSUME whole PROVE StoredKeys = DOMAIN saved
    OBVIOUS
  <2>1. Contents = [k \in DOMAIN saved |-> Fetched(saved[k])]
    BY RestoredOnLoad DEF RestoresWhatWasSaved
  <2> QED
    BY <1>1, <2>1
<1> QED
  BY <1>3, <1>4, <1>5

\* If no client uses a string that the format cannot hold: what a complete save
\* wrote is what the next start restores, for every set of strings, every hash
\* function and every number of slots, over any number of runs.
THEOREM SavedIsRestored == ClientsPlain => (ESpec => []RestoresWhatWasSaved)
BY PInvAlways, RestoredOnLoad, PTL

\* And of a save that a crash or a full disk cut, a start restores pairs of the
\* table that was saved and nothing else, but for the value of one key.
THEOREM SalvagedIsSaved == ClientsPlain => (ESpec => []SalvagesOnlySaved)
BY PInvAlways, SalvagedOnLoad, PTL

-----------------------------------------------------------------------------
(* The engine implements KVStore *)

EmptyDict == [k \in {} |-> NULL]
Kept == [k \in DOMAIN saved |-> Fetched(saved[k])]

\* No command has run since the process began.
Quiet == phase \in {"down", "loading"} => tokens = <<>> /\ wmsg = <<>>

LEMMA EmptiedDict == ASSUME FreshTable PROVE Contents' = EmptyDict
<1>1. DOMAIN Contents' = {}
  BY Emptied
<1> QED
  BY <1>1 DEF Contents, EmptyDict

\* What of the engine's state is behind the variables of KVStore.
LEMMA Mapped ==
  /\ phase \in {"serving", "saving"} => Served = Contents /\ Stage = phase
  /\ phase' \in {"serving", "saving"} => Served' = Contents' /\ Stage' = phase'
  /\ phase \in {"down", "loading"} => Served = EmptyDict /\ Stage = "down"
  /\ phase' \in {"down", "loading"} => Served' = EmptyDict /\ Stage' = "down"
BY DEF Served, Stage, EmptyDict

LEMMA Stutter ==
  ASSUME Served' = Served, Stage' = Stage, UNCHANGED <<tokens, wmsg, saved, whole>>
  PROVE  UNCHANGED Store!svars
BY DEF Store!svars

LEMMA ServeStore ==
  ASSUME IInv, Serve
  PROVE  Store!Command
<1> USE DEF Store!Operand, Store!Reply, Map!Reply
<1>1. phase = "serving" /\ phase' = "serving" /\ saved' = saved /\ whole' = whole
  BY DEF Serve, file
<1>2. Served = Contents /\ Served' = Contents' /\ Stage = "serving" /\ Stage' = "serving"
  BY <1>1, Mapped
<1>3. /\ Operand(ClientKey) \subseteq Operand(Key) /\ Operand(ClientValue) \subseteq Operand(Value)
      /\ Operand(ClientKey) = Store!Operand(ClientKey)
      /\ Operand(ClientValue) = Store!Operand(ClientValue)
  BY WordAssumption DEF Operand
<1>4. ASSUME NEW k \in Operand(ClientKey), NEW v \in Operand(ClientValue), Hset(k, v)
      PROVE  Store!Hset(k, v)
  <2>1. Map!Hset(k, v)
    BY <1>3, <1>4, SetStep
  <2>2. Store!With(k, v) = Map!With(k, v)
    BY <1>2 DEF Map!With, Store!With
  <2> QED
    BY <1>2, <2>1, <2>2 DEF Map!Hset, Store!Hset
<1>5. ASSUME NEW k \in Operand(ClientKey), NEW v \in Operand(ClientValue), Hmod(k, v)
      PROVE  Store!Hmod(k, v)
  <2>1. Map!Hmod(k, v)
    BY <1>3, <1>5, ModStep
  <2>2. Store!With(k, v) = Map!With(k, v)
    BY <1>2 DEF Map!With, Store!With
  <2> QED
    BY <1>2, <2>1, <2>2 DEF Map!Hmod, Store!Hmod
<1>6. ASSUME NEW k \in Operand(ClientKey), Hget(k)
      PROVE  Store!Hget(k)
  BY <1>2, <1>3, <1>6, GetStep DEF Map!Hget, Store!Hget
<1>7. ASSUME NEW k \in Operand(ClientKey), Hdel(k)
      PROVE  Store!Hdel(k)
  BY <1>2, <1>3, <1>7, DelStep DEF Map!Hdel, Store!Hdel, Map!Without, Store!Without
<1>8. ASSUME Hcount
      PROVE  Store!Hcount
  <2>1. \A S : Store!Cardinality(S) = Map!Cardinality(S)
    BY Zenon DEF Map!Cardinality, Store!Cardinality, Map!IsFiniteSet, Store!IsFiniteSet
  <2> QED
    BY <1>2, <1>8, <2>1, CountStep DEF Map!Hcount, Store!Hcount
<1>9. ASSUME OtherCommand \/ EmptyMessage
      PROVE  Store!OtherCommand \/ Store!EmptyMessage
  BY <1>2, <1>9, OtherStep DEF Map!OtherCommand, Store!OtherCommand,
     Map!EmptyMessage, Store!EmptyMessage
<1>10. Store!Next
  BY <1>3, <1>4, <1>5, <1>6, <1>7, <1>8, <1>9 DEF Serve, Store!Next
<1> QED
  BY <1>1, <1>2, <1>10 DEF Store!Command

LEMMA StartStore ==
  ASSUME PInv, Quiet, LoadNothing \/ LoadDone
  PROVE  Store!Start /\ Quiet'
<1>1. /\ phase \in {"down", "loading"} /\ phase' = "serving"
      /\ saved' = saved /\ whole' = whole
      /\ tokens' = <<>> /\ wmsg' = <<>>
  BY DEF LoadNothing, LoadDone, Loaded, Quiet, FreshTable, NoReply, file
<1>2. Served' = Contents' /\ Stage = "down" /\ Stage' = "serving"
  BY <1>1, Mapped
<1>3. \/ Contents' = EmptyDict
      \/ whole /\ Contents' = Kept
      \/ /\ ~whole /\ DOMAIN Contents' \subseteq DOMAIN Kept
         /\ \A k, l \in DOMAIN Contents' :
              Contents'[k] # Kept[k] /\ Contents'[l] # Kept[l] => k = l
  <2>1. CASE LoadNothing
    BY <2>1, EmptiedDict DEF LoadNothing
  <2>2. CASE LoadDone
    <3>1. Contents' = Contents /\ Loaded /\ DOMAIN Contents = StoredKeys
      BY <2>2, SameTable, ContentsType DEF PInv, TInv, LoadDone
    <3>2. CASE whole
      BY <3>1, <3>2, RestoredOnLoad DEF RestoresWhatWasSaved, Kept
    <3>3. CASE ~whole
      BY <3>1, <3>3, SalvagedOnLoad DEF SalvagesOnlySaved, Kept
    <3> QED
      BY <3>2, <3>3
  <2> QED
    BY <2>1, <2>2
<1> QED
  BY <1>1, <1>2, <1>3 DEF Store!Start, Store!Salvaged, Store!Silent, Store!EmptyDict,
     EmptyDict, Kept, Quiet

LEMMA SaveStore ==
  ASSUME PInv, SaveOpen
  PROVE  Store!Save /\ Quiet'
<1>1. /\ phase = "serving" /\ phase' = "saving" /\ tokens' = <<>> /\ wmsg' = <<>>
      /\ saved' = Contents /\ whole' = FALSE /\ Contents' = Contents
  BY SameTable DEF SaveOpen, NoReply, PInv, TInv
<1>2. Served = Contents /\ Served' = Contents /\ Stage = "serving" /\ Stage' = "saving"
  BY <1>1, Mapped
<1>3. \A k \in DOMAIN Contents : [v \in Value |-> Fetched(v)][Contents[k]] = Fetched(Contents[k])
  BY ContentsType DEF PInv, TInv
<1> QED
  BY <1>1, <1>2, <1>3 DEF Store!Save, Store!Silent, Quiet

LEMMA StopStore ==
  ASSUME PInv, Quiet, SaveClose \/ SaveFails \/ Crash
  PROVE  (Store!Stop \/ UNCHANGED Store!svars) /\ Quiet'
<1>1. /\ phase' = "down" /\ saved' = saved /\ tokens' = <<>> /\ wmsg' = <<>>
      /\ phase \in {"loading", "serving", "saving"}
      /\ whole' = whole \/ (phase = "saving" /\ whole' = TRUE)
  BY DEF SaveClose, SaveFails, Crash, Gone, FreshTable, NoReply, file, PInv, TInv, ETypeOK
<1>2. Served' = EmptyDict /\ Stage' = "down"
  BY <1>1, Mapped
<1>3. CASE phase = "loading"
  BY <1>1, <1>2, <1>3, Mapped, Stutter DEF Quiet
<1>4. CASE phase \in {"serving", "saving"}
  BY <1>1, <1>2, <1>4, Mapped DEF Store!Stop, Store!Silent, Store!EmptyDict, EmptyDict, Quiet
<1> QED
  BY <1>1, <1>3, <1>4

\* Every step of the engine is a step of KVStore or none.
LEMMA StoreStep ==
  ASSUME PInv, Quiet, [ENext]_evars
  PROVE  Quiet' /\ [Store!SNext]_(Store!svars)
<1>1. CASE LoadOpen
  BY <1>1, Mapped, Stutter DEF LoadOpen, FreshTable, NoReply, Quiet, file
<1>2. CASE LoadNothing \/ LoadDone
  BY <1>2, StartStore DEF Store!SNext
<1>3. CASE LoadLine
  BY <1>3, Mapped, Stutter DEF LoadLine, Quiet, file
<1>4. CASE Serve
  BY <1>4, ServeStore DEF Store!SNext, PInv, TInv, Serve, Quiet
<1>5. CASE SaveOpen
  BY <1>5, SaveStore DEF Store!SNext
<1>6. CASE SaveNode \/ SaveNextSlot
  <2>1. Contents' = Contents
    BY <1>6, SameTable DEF PInv, TInv, SaveNode, SaveNextSlot
  <2> QED
    BY <1>6, <2>1, Mapped, Stutter DEF SaveNode, SaveNextSlot, Quiet, file
<1>7. CASE SaveClose \/ SaveFails \/ Crash
  BY <1>7, StopStore DEF Store!SNext
<1>8. CASE UNCHANGED evars
  <2>1. Contents' = Contents
    BY <1>8, SameTable DEF PInv, TInv, evars, table
  <2> QED
    BY <1>8, <2>1, Stutter DEF evars, Quiet, Served, Stage
<1> QED
  BY <1>1, <1>2, <1>3, <1>4, <1>5, <1>6, <1>7, <1>8 DEF ENext

LEMMA StoreInit == EInit => Quiet /\ Store!SInit
<1> SUFFICES ASSUME EInit PROVE Quiet /\ Store!SInit
  OBVIOUS
<1>1. phase = "down" /\ tokens = <<>> /\ wmsg = <<>> /\ saved = EmptyDict /\ whole = FALSE
  BY DEF EInit, HInit, EmptyDict
<1>2. Served = EmptyDict /\ Stage = "down"
  BY <1>1, Mapped
<1>3. Kept = EmptyDict
  BY <1>1 DEF Kept, EmptyDict
<1> QED
  BY <1>1, <1>2, <1>3 DEF Quiet, Store!SInit, Store!Init, Store!EmptyDict, EmptyDict, Kept

\* If no client uses a string that the format cannot hold, the engine of hash.cpp
\* and kvstore.cpp is, over all its lives, the dictionary of KVStore: the replies
\* of each life, and what goes from one to the next.
THEOREM EngineImplementsStore == ClientsPlain => (ESpec => ImplementsStore)
<1>1. EInit => Quiet /\ Store!SInit
  BY StoreInit
<1>2. PInv /\ Quiet /\ [ENext]_evars => Quiet' /\ [Store!SNext]_(Store!svars)
  BY StoreStep
<1> QED
  BY <1>1, <1>2, PInvAlways, PTL DEF ESpec, ImplementsStore, Store!SSpec

=============================================================================
