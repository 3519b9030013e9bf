------------------------------- MODULE KVHash -------------------------------
(***************************************************************************)
(* The in-memory engine of kv_core: the chained hash table of hash.cpp and *)
(* the commands kvstore.cpp runs on it.                                    *)
(*                                                                         *)
(* Commands run one after the other on the event loop's thread, so each is *)
(* one step.  An operand missing from the message is read from the         *)
(* uninitialized token array of kvstore_request: it is NULL, some string,  *)
(* or a pointer that faults (the last ends the process: KVEngine's Crash). *)
(***************************************************************************)
EXTENDS Integers, Sequences, FiniteSets, SequencesExt

CONSTANTS Key,      \* key strings
          Value,    \* value strings
          Slot,     \* indices of the table, 0 .. MAX_TABLE_SIZE - 1
          Hash,     \* the slot of each key (_hash on keys of 7-bit characters)
          Fit,      \* what the reply buffer holds of a value: its first
                    \* BUFFER_LENGTH - 1 characters
          NULL      \* a null pointer

ASSUME HashAssumption == Hash \in [Key -> Slot]
ASSUME FitAssumption == Fit \in [Value -> Value]
ASSUME NullAssumption == NULL \notin Key /\ NULL \notin Value

VARIABLES nodes,    \* nodes[s]: the chain of slot s, head first
          count,    \* the element counter hash->count
          tokens,   \* the words of the last command
          wmsg      \* the reply buffer of the last command

table == <<nodes, count>>
hvars == <<nodes, count, tokens, wmsg>>

Node == [key : Key, value : Value]

\* Tokens a command can find in the place of an operand.
Operand(S) == S \cup {NULL}

Replies == {<<>>, <<"ERROR">>, <<"SUCCESS">>, <<"EXISTS">>, <<"NO EXIST">>}
             \cup ({"VALUE"} \X Value)
             \cup ({"COUNT"} \X Int)

Commands == {<<>>, <<"HCOUNT">>, <<"OTHER">>}
              \cup ({"HGET", "HDEL"} \X Operand(Key))
              \cup ({"HSET", "HMOD"} \X Operand(Key) \X Operand(Value))

-----------------------------------------------------------------------------
(* The table's operations *)

\* The slots are malloc'ed and not zeroed: they are empty if the block is fresh
\* from the system, and a walk along any other slot faults.
EmptyTable == nodes = [s \in Slot |-> <<>>] /\ count = 0

\* Places of the nodes of k in its chain; the scans stop at the first.
Places(k) == {i \in DOMAIN nodes[Hash[k]] : nodes[Hash[k]][i].key = k}

\* A null key is refused before any chain is read.
Stored(k) == k # NULL /\ Places(k) # {}

Place(k) == CHOOSE i \in Places(k) : \A j \in Places(k) : i <= j

ValueOf(k) == nodes[Hash[k]][Place(k)].value

\* Mutant of PutNew: the counter is forgotten.
PutNewUncounted(k, v) ==
  /\ nodes' = [nodes EXCEPT ![Hash[k]] = <<[key |-> k, value |-> v]>> \o @]
  /\ UNCHANGED count

\* A new node goes to the head of its chain.
PutNew(k, v) ==
  /\ nodes' = [nodes EXCEPT ![Hash[k]] = <<[key |-> k, value |-> v]>> \o @]
  /\ count' = count + 1

\* Mutant of Unlink: the head of the chain goes, whichever node was found.
UnlinkHead(k) ==
  /\ nodes' = [nodes EXCEPT ![Hash[k]] = Tail(@)]
  /\ count' = count - 1

\* The node found is unlinked, wherever it is in its chain.
Unlink(k) ==
  /\ nodes' = [nodes EXCEPT ![Hash[k]] = RemoveAt(@, Place(k))]
  /\ count' = count - 1

Overwrite(k, v) ==
  /\ nodes' = [nodes EXCEPT ![Hash[k]][Place(k)].value = v]
  /\ UNCHANGED count

-----------------------------------------------------------------------------
(* The commands of kvstore_parser_protocol *)

HInit == EmptyTable /\ tokens = <<>> /\ wmsg = <<>>

ReplyOnly(r) == wmsg' = r /\ UNCHANGED table

\* Mutant of Hset: the chain is not searched first.
HsetUnsearched(k, v) ==
  /\ tokens' = <<"HSET", k, v>>
  /\ \/ NULL \in {k, v} /\ ReplyOnly(<<"ERROR">>)
     \/ NULL \notin {k, v} /\ PutNew(k, v) /\ wmsg' = <<"SUCCESS">>

Hset(k, v) ==
  /\ tokens' = <<"HSET", k, v>>
  /\ \/ NULL \in {k, v} /\ ReplyOnly(<<"ERROR">>)
     \/ NULL \notin {k, v} /\ Stored(k) /\ ReplyOnly(<<"EXISTS">>)
     \/ /\ NULL \notin {k, v} /\ ~Stored(k)
        /\ PutNew(k, v)
        /\ wmsg' = <<"SUCCESS">>

Hget(k) ==
  /\ tokens' = <<"HGET", k>>
  /\ \/ Stored(k) /\ ReplyOnly(<<"VALUE", Fit[ValueOf(k)]>>)
     \/ ~Stored(k) /\ ReplyOnly(<<"NO EXIST">>)

\* A key that is not there makes delete_kv_hashtable return -1, a null key -2:
\* both are below 0, so both get the reply ERROR and none gets NO EXIST.
Hdel(k) ==
  /\ tokens' = <<"HDEL", k>>
  /\ \/ Stored(k) /\ Unlink(k) /\ wmsg' = <<"SUCCESS">>
     \/ ~Stored(k) /\ ReplyOnly(<<"ERROR">>)

\* Mutant of Hmod: the value is not tested.
HmodUntested(k, v) ==
  /\ tokens' = <<"HMOD", k, v>>
  /\ \/ Stored(k) /\ Overwrite(k, v) /\ wmsg' = <<"SUCCESS">>
     \/ ~Stored(k) /\ ReplyOnly(<<"ERROR">>)

Hmod(k, v) ==
  /\ tokens' = <<"HMOD", k, v>>
  /\ \/ Stored(k) /\ v # NULL /\ Overwrite(k, v) /\ wmsg' = <<"SUCCESS">>
     \/ (~Stored(k) \/ v = NULL) /\ ReplyOnly(<<"ERROR">>)

\* A negative counter would be answered with ERROR.
Hcount ==
  /\ tokens' = <<"HCOUNT">>
  /\ ReplyOnly(IF count < 0 THEN <<"ERROR">> ELSE <<"COUNT", count>>)

\* A command that is not one of the five: SET, RGET, a misspelt one.
OtherCommand == tokens' = <<"OTHER">> /\ ReplyOnly(<<"ERROR">>)

\* A message without a word returns before the reply buffer is cleared: the
\* reply of an earlier command stays in it.
EmptyMessage == tokens' = <<>> /\ UNCHANGED <<nodes, count, wmsg>>

Command ==
  \/ \E k \in Operand(Key), v \in Operand(Value) : Hset(k, v)
  \/ \E k \in Operand(Key), v \in Operand(Value) : Hmod(k, v)
  \/ \E k \in Operand(Key) : Hget(k)
  \/ \E k \in Operand(Key) : Hdel(k)
  \/ Hcount
  \/ OtherCommand
  \/ EmptyMessage

HSpec == HInit /\ [][Command]_hvars

-----------------------------------------------------------------------------
(* Properties *)

\* The table and the reply have their types; every chain is a list of nodes.
HTypeOK ==
  /\ nodes \in [Slot -> Seq(Node)]
  /\ count \in Int
  /\ tokens \in Commands
  /\ wmsg \in Replies

\* Every node sits in the chain its key hashes to, and no two nodes of a chain
\* have the same key: the scans of put, get, delete and modify in hash.cpp,
\* which stop at the first match of one chain, never miss or shadow a node,
\* whatever sequence of inserts at the head and unlinks built the chains.
WellPlaced ==
  \A s \in Slot : \A i \in DOMAIN nodes[s] : Hash[nodes[s][i].key] = s

NoDuplicate ==
  \A s \in Slot : \A i, j \in DOMAIN nodes[s] :
    nodes[s][i].key = nodes[s][j].key => i = j

ChainsOK == WellPlaced /\ NoDuplicate

StoredKeys == {k \in Key : Stored(k)}

\* hash->count, which HCOUNT answers and nothing recomputes, is the number of
\* keys a lookup finds, after any sequence of commands.
CountExact == IsFiniteSet(StoredKeys) /\ count = Cardinality(StoredKeys)

Contents == [k \in StoredKeys |-> ValueOf(k)]

Map == INSTANCE KVMap WITH dict <- Contents

\* The commands of kvstore.cpp on the chained table of hash.cpp do to the
\* stored pairs, and reply, exactly what the dictionary of KVMap does.
ImplementsMap == Map!Spec

=============================================================================
