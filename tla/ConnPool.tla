------------------------------- MODULE ConnPool -------------------------------
(***************************************************************************)
(* Conn_pool (utils/memory.h): blocks of one piece of memory, a free list  *)
(* linked through their first words, and a map from descriptors to         *)
(* connection objects.                                                     *)
(*                                                                         *)
(* The blocks are 1024 bytes apart, but an object has 2104: the object of  *)
(* block b lies over the first words of b + 1 and b + 2, the links of free *)
(* blocks and the descriptors of objects.  Its read buffer, at its offset  *)
(* 20, has that of b + 1 at its bytes 1004 to 1011; its write buffer, at   *)
(* 1052, has the time of the last activity of the object of b - 1, at      *)
(* 2096, at its bytes 20 to 27.  What else objects write over their        *)
(* neighbours are buffers, ring counters and request pointers, which only  *)
(* Connection has.                                                         *)
(***************************************************************************)
EXTENDS Integers

CONSTANTS Fd,       \* descriptors of connections
          Blocks,   \* total_blocks
          Null,     \* no block, no object
          Wild,     \* any other address: of a variable, or made of characters;
                    \* also a descriptor made of characters: at least a space, 32,
                    \* which is more than those of connections (a bound)
          Garbage   \* the times that characters make

ASSUME BlocksAssumption == Blocks \in Nat \ {0}

Block == 0 .. Blocks - 1

ASSUME AddressAssumption ==
  /\ Null # Wild /\ Null \notin Block /\ Wild \notin Block \cup Fd \cup {0}

ASSUME GarbageAssumption == Garbage \subseteq Int

VARIABLES free,     \* free_list
          link,     \* the next pointer in a block's first word
          desc,     \* _fd of the object in a block, there too
          object,   \* _map: an entry is made once and never erased
          active,   \* _last_active_time of the object in a block
          spoilt    \* history: blocks where that or the descriptor is made of
                    \* characters, or was, and nothing was received since

poolVars == <<free, link, desc, object, active, spoilt>>

PoolInit ==
  /\ free = 0
  /\ link = [b \in Block |-> IF b + 1 \in Block THEN b + 1 ELSE Null]
  /\ desc = [b \in Block |-> 0] /\ object = [f \in Fd |-> Null]
  /\ active = [b \in Block |-> 0] /\ spoilt = {}

\* get of a descriptor that has no entry reads behind the map's last node,
\* where there is a null pointer.
get(f) == IF f \in Fd THEN object[f] ELSE Null

\* Over which blocks' first words, and over which objects' last words, the
\* object of b lies.
Covered(b) == {b + 1, b + 2}
Overlaid(b) == {b - 1, b - 2}

\* The second half of acquire, whose first half has read b from free_list, and
\* add_map: the link is read, then the object is made of zeros.
Construct(b, f, t) ==
  /\ free' = link[b]
  /\ link' = [c \in Block |-> IF c \in Covered(b) THEN Null ELSE link[c]]
  /\ desc' = [c \in Block |-> IF c = b THEN f ELSE IF c \in Covered(b) THEN 0 ELSE desc[c]]
  /\ active' = [c \in Block |-> IF c = b THEN t
                                ELSE IF c \in Overlaid(b) THEN 0 ELSE active[c]]
  /\ object' = [object EXCEPT ![f] = b] /\ spoilt' = spoilt \ {b}

\* The object of b has received.  More than 1004 bytes lie over the first word
\* of b + 1.
Receive(b, t) ==
  \E over \in {{}, {c \in Block : c = b + 1}} :
    /\ link' = [c \in Block |-> IF c \in over THEN Wild ELSE link[c]]
    /\ desc' = [c \in Block |-> IF c \in over THEN Wild ELSE desc[c]]
    /\ active' = [active EXCEPT ![b] = t]
    /\ spoilt' = (spoilt \ {b}) \cup over

\* A command clears its reply buffer and writes the reply there: over the time
\* of the object of b - 1 come zeros or, if HGET answers with 21 characters or
\* more, some of these.
Command(b, t) ==
  \E past \in {0} \cup Garbage :
    /\ active' = [c \in Block |-> IF c = b THEN t ELSE IF c = b - 1 THEN past ELSE active[c]]
    /\ spoilt' = IF past = 0 THEN spoilt ELSE spoilt \cup {c \in Block : c = b - 1}

\* Mutant of Release: the block itself is freed.
ReleaseBlock(f) ==
  /\ free' = object[f] /\ link' = [link EXCEPT ![object[f]] = free]
  /\ UNCHANGED <<desc, object, active, spoilt>>

\* Release pushes the address of its own parameter, not the block's, and leaves
\* the object and its entry.
Release(f) ==
  /\ free' = Wild
  /\ UNCHANGED <<link, desc, object, active, spoilt>>

=============================================================================
