------------------------------ MODULE KVEngine ------------------------------
(***************************************************************************)
(* The life of the key-value engine across runs of the process:            *)
(* init_kvengine builds an empty table and loads kvstore_data.db into it,  *)
(* commands run, exit_kvengine rewrites the file.  The process may die at  *)
(* any point, in the middle of the rewriting too.                          *)
(*                                                                         *)
(* A string is a sequence of words, the pieces between its colons: what is *)
(* written of the pair (k, v) is k \o v, and cutting a line at its first   *)
(* colon yields its first word and the rest.  A word may hold newlines:    *)
(* messages are split at spaces only.  Where fgets ends a line inside a    *)
(* word, at a newline or because its buffer is full, what it is read next  *)
(* begins with the rest of that word.                                      *)
(***************************************************************************)
EXTENDS KVHash

CONSTANTS MAX_TABLE_SIZE,
          Word,         \* strings without a colon
          Broken,       \* those in which fgets ends a line: they hold a newline,
                        \* or are longer than its buffer (others fit in it together)
          Upper, Lower, \* what of such a word it returns, and what is left
          Torn,         \* what is left of a word cut by a crash
          ClientKey,    \* the keys and values the clients' commands carry
          ClientValue,
          NoFile        \* the state of the disk before the first save

\* Pieces of the lines the engine reads.
Piece == Word \cup {Torn}

ASSUME SlotAssumption == MAX_TABLE_SIZE \in Nat /\ Slot = 0 .. MAX_TABLE_SIZE - 1

ASSUME WordAssumption ==
  /\ Broken \subseteq Word /\ Torn \notin Word
  /\ Upper \in [Broken -> Word \ Broken] /\ Lower \in [Broken -> Word]
  /\ ClientKey \subseteq Key /\ ClientValue \subseteq Value
  /\ Key \subseteq Seq(Piece) /\ Value \subseteq Seq(Piece)
  /\ <<>> \notin Key \cup Value

\* Key and Value stand for all strings: what loading makes of a line is in them.
ASSUME StringsAssumption ==
  /\ \A p \in Piece : <<p>> \in Key
  /\ \A k \in ClientKey, v \in ClientValue : Tail(k \o v) \in Value
  /\ \A v \in Value : \A i \in DOMAIN v :
       /\ \A j \in i .. Len(v) : SubSeq(v, i, j) \in Value
       /\ \A p \in {Torn} \cup {Upper[u] : u \in Broken} :
            Append(SubSeq(v, 1, i - 1), p) \in Value

VARIABLES phase,    \* "down", "loading", "serving" or "saving"
          disk,     \* kvstore_data.db, what was written of each pair, or NoFile
          read,     \* loading: of how many of these fgets has read
          rest,     \* loading: what it has left of the last of them, or <<>>
          out,      \* saving: what fprintf has written of each pair since fopen
          slot,     \* saving: the slot and, in its chain, the place of the node
          at,       \* to be written next
          saved,    \* history: the contents of the table the last save began with
          whole     \* history: the file is the result of a save that was closed

file == <<disk, saved, whole>>
cursors == <<read, rest, out, slot, at>>
evars == <<nodes, count, tokens, wmsg, phase, disk, read, rest, out, slot, at, saved, whole>>

\* What fprintf writes of a pair: both strings raw, whatever is in them.
Line(node) == node.key \o node.value

\* What fgets makes of it: it ends a line in the first broken word, and reads
\* what is left as the next.
BrokenAt(line) == {i \in DOMAIN line : line[i] \in Broken}
CutAt(line) == CHOOSE i \in BrokenAt(line) : \A j \in BrokenAt(line) : i <= j

Fetched(line) ==
  IF BrokenAt(line) = {} THEN line
  ELSE Append(SubSeq(line, 1, CutAt(line) - 1), Upper[line[CutAt(line)]])

Left(line) ==
  IF BrokenAt(line) = {} THEN <<>>
  ELSE <<Lower[line[CutAt(line)]]>> \o SubSeq(line, CutAt(line) + 1, Len(line))

-----------------------------------------------------------------------------
(* init_kvengine: init_hashtable, then load_from_disk *)

NoReply == tokens' = <<>> /\ wmsg' = <<>>

\* As EmptyTable; a fault on a slot that is not zero is Crash.
FreshTable == nodes' = [s \in Slot |-> <<>>] /\ count' = 0 /\ NoReply

\* The file is there and fopen succeeds.
LoadOpen ==
  /\ phase = "down" /\ disk # NoFile
  /\ FreshTable
  /\ phase' = "loading"
  /\ UNCHANGED <<file, cursors>>

\* No file, or a file that cannot be opened: init_kvengine ignores the result
\* of load_from_disk and the engine serves an empty table.
LoadNothing ==
  /\ phase = "down"
  /\ FreshTable
  /\ phase' = "serving"
  /\ UNCHANGED <<file, cursors>>

\* Mutant of KeyOf: the line is cut at its last colon.
KeyOfLastColon(line) == SubSeq(line, 1, Len(line) - 1)

KeyOf(line) == <<Head(line)>>
RestOf(line) == Tail(line)

\* What fgets has before it.
Pending == IF rest = <<>> THEN disk[read + 1] ELSE rest

ReadOn ==
  /\ rest' = Left(Pending)
  /\ read' = IF rest = <<>> THEN read + 1 ELSE read

\* The end of the fgets loop.
Loaded == phase = "loading" /\ read = Len(disk) /\ rest = <<>>

\* Mutant of LoadLine: a line without a colon is stored too.
LoadAnyLine ==
  /\ phase = "loading" /\ ~Loaded
  /\ LET line == Fetched(Pending)
     IN \/ ~Stored(KeyOf(line)) /\ PutNew(KeyOf(line), RestOf(line))
        \/ Stored(KeyOf(line)) /\ UNCHANGED table
  /\ ReadOn
  /\ UNCHANGED <<tokens, wmsg, phase, out, slot, at, file>>

\* One turn of the fgets loop.  A line without a colon is ignored, and so is
\* one whose key is already in the table.
LoadLine ==
  /\ phase = "loading" /\ ~Loaded
  /\ LET line == Fetched(Pending)
         fresh == Len(line) > 1 /\ ~Stored(KeyOf(line))
     IN \/ fresh /\ PutNew(KeyOf(line), RestOf(line))
        \/ ~fresh /\ UNCHANGED table
  /\ ReadOn
  /\ UNCHANGED <<tokens, wmsg, phase, out, slot, at, file>>

LoadDone ==
  /\ Loaded
  /\ phase' = "serving" /\ read' = 0
  /\ UNCHANGED <<table, tokens, wmsg, rest, out, slot, at, file>>

-----------------------------------------------------------------------------
(* Commands, on the strings clients send *)

Serve ==
  /\ phase = "serving"
  /\ \/ \E k \in Operand(ClientKey), v \in Operand(ClientValue) : Hset(k, v) \/ Hmod(k, v)
     \/ \E k \in Operand(ClientKey) : Hget(k) \/ Hdel(k)
     \/ Hcount \/ OtherCommand \/ EmptyMessage
  /\ UNCHANGED <<phase, file, cursors>>

-----------------------------------------------------------------------------
(* exit_kvengine: save_to_disk, then dest_hashtable and the end of the process *)

\* fopen(filename, "w") empties the file before anything is written.
SaveOpen ==
  /\ phase = "serving"
  /\ phase' = "saving"
  /\ disk' = <<>> /\ out' = <<>> /\ slot' = 0 /\ at' = 1
  /\ saved' = Contents /\ whole' = FALSE
  /\ NoReply
  /\ UNCHANGED <<table, read, rest>>

\* A turn of the inner loop, on a node of the slot's chain.
SaveNode ==
  /\ phase = "saving" /\ slot \in Slot /\ at \in DOMAIN nodes[slot]
  /\ out' = Append(out, Line(nodes[slot][at])) /\ at' = at + 1
  /\ UNCHANGED <<table, tokens, wmsg, phase, read, rest, slot, file>>

\* Mutant of SaveNextSlot: the loop ends before the last node of a chain.
SaveNextSlotEarly ==
  /\ phase = "saving" /\ slot \in Slot /\ at + 1 \notin DOMAIN nodes[slot]
  /\ slot' = slot + 1 /\ at' = 1
  /\ UNCHANGED <<table, tokens, wmsg, phase, read, rest, out, file>>

\* The end of the chain: the outer loop goes on.
SaveNextSlot ==
  /\ phase = "saving" /\ slot \in Slot /\ at \notin DOMAIN nodes[slot]
  /\ slot' = slot + 1 /\ at' = 1
  /\ UNCHANGED <<table, tokens, wmsg, phase, read, rest, out, file>>

\* What stays of the table and the cursors when the process is gone.
Gone ==
  /\ phase' = "down"
  /\ FreshTable
  /\ read' = 0 /\ rest' = <<>> /\ out' = <<>> /\ slot' = 0 /\ at' = 1

\* What a cut inside a pair leaves of it; one behind the place where fgets ends
\* a line in a word leaves a second line, without a colon.
CutLine(line) == {Append(SubSeq(line, 1, i - 1), Torn) : i \in DOMAIN line}
                   \cup {SubSeq(line, 1, i) : i \in BrokenAt(line)}

\* What can be in the file of the lines given to the stream, when the process
\* dies or the disk is full: the stream passes on its buffer when that is full,
\* wherever it falls in a line.
Flushed == {SubSeq(out, 1, n) : n \in 0 .. Len(out)}
             \cup UNION {{Append(SubSeq(out, 1, n - 1), l) : l \in CutLine(out[n])}
                           : n \in DOMAIN out}

\* fclose writes what is still in the stream's buffer.  When the disk is full,
\* nobody notices.
SaveClose ==
  /\ phase = "saving" /\ slot \notin Slot
  /\ \/ disk' = out /\ whole' = TRUE
     \/ disk' \in Flushed /\ UNCHANGED whole
  /\ Gone
  /\ UNCHANGED saved

\* fopen fails: nothing is saved and the table is destroyed all the same.
SaveFails ==
  /\ phase = "serving"
  /\ Gone
  /\ UNCHANGED file

-----------------------------------------------------------------------------
(* The end of the process at any point: a kill, a fault, the assert of modify *)

Crash ==
  /\ phase # "down"
  /\ \/ phase = "saving" /\ disk' \in Flushed
     \/ phase # "saving" /\ UNCHANGED disk
  /\ Gone
  /\ UNCHANGED <<saved, whole>>

EInit ==
  /\ HInit
  /\ phase = "down" /\ disk = NoFile
  /\ read = 0 /\ rest = <<>> /\ out = <<>> /\ slot = 0 /\ at = 1
  /\ saved = [k \in {} |-> NULL] /\ whole = FALSE

ENext ==
  \/ LoadOpen \/ LoadNothing \/ LoadLine \/ LoadDone
  \/ Serve
  \/ SaveOpen \/ SaveNode \/ SaveNextSlot \/ SaveClose \/ SaveFails
  \/ Crash

ESpec == EInit /\ [][ENext]_evars

-----------------------------------------------------------------------------
(* Properties *)

\* The table, the file, the cursors of the two loops and the history variables
\* have their types: every line the program writes, tears or cuts is such that
\* the key and the value that loading makes of it are strings of the table.
ETypeOK ==
  /\ HTypeOK
  /\ phase \in {"down", "loading", "serving", "saving"}
  /\ disk = NoFile \/ disk \in Seq(Seq(Piece))
  /\ read \in Nat /\ rest \in Seq(Piece)
  /\ out \in Seq(Seq(Piece)) /\ slot \in 0 .. MAX_TABLE_SIZE /\ at \in Nat
  /\ DOMAIN saved \subseteq Key /\ \A k \in DOMAIN saved : saved[k] \in Value
  /\ whole \in BOOLEAN

\* No client uses a string that becomes another key in the file: a key with a
\* colon, with a newline or longer than a line of fgets, or a value with a colon
\* behind a newline or behind what a line has room for ("x\nb:y").
ClientsPlain ==
  /\ \A k \in ClientKey : Len(k) = 1 /\ BrokenAt(k) = {}
  /\ \A v \in ClientValue : BrokenAt(v) \subseteq {Len(v)}

\* kvstore.cpp:166 "Load existing data from disk" and :170 "Save data to disk
\* before exiting": what an exit saved, the next start restores, a value with a
\* newline or too long for a line of fgets as what comes before that, whatever
\* the order in which the chains are written, read back and rebuilt, and whatever
\* the clients did before (MOD, DEL and SET again of a key).
RestoresWhatWasSaved ==
  (Loaded /\ whole) => Contents = [k \in DOMAIN saved |-> Fetched(saved[k])]

\* A start after a crash in the middle of a save, or a save to a full disk,
\* restores only what was being saved: each key is one of the table's, with its
\* value, but for at most one key, the last written, whose value was cut.
SalvagesOnlySaved ==
  Loaded =>
    /\ StoredKeys \subseteq DOMAIN saved
    /\ \A k, l \in StoredKeys :
         Contents[k] # Fetched(saved[k]) /\ Contents[l] # Fetched(saved[l]) => k = l
    /\ whole => StoredKeys = DOMAIN saved

\* Over all its lives, the process is the dictionary that KVStore describes: the
\* commands of each are a dictionary's, on a table that loading has rebuilt, and
\* what a life began with is what the last save kept or, cut, part of it.
Served == IF phase \in {"serving", "saving"} THEN Contents ELSE [k \in {} |-> NULL]
Stage == IF phase = "loading" THEN "down" ELSE phase

Store == INSTANCE KVStore WITH
           Key <- ClientKey, Value <- ClientValue,
           Clip <- [v \in Value |-> Fetched(v)],
           dict <- Served, phase <- Stage, cut <- ~whole,
           kept <- [k \in DOMAIN saved |-> Fetched(saved[k])]

ImplementsStore == Store!SSpec

=============================================================================
