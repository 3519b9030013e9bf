------------------------------- MODULE KVMap -------------------------------
(***************************************************************************)
(* What the key-value engine promises its caller: a dictionary and, for    *)
(* each command, the reply left in the caller's buffer wmsg.  There are no *)
(* chains, slots or element counter here; KVHash implements this module.   *)
(***************************************************************************)
EXTENDS Naturals, FiniteSets

CONSTANTS Key,      \* the keys a command can name
          Value,    \* the values a command can carry
          Fit,      \* what a reply holds of a value: Fit[v]
          NULL      \* an operand that reads as a null pointer

VARIABLES dict,     \* the dictionary: a function whose domain is the stored keys
          tokens,   \* the words of the last command
          wmsg      \* the reply buffer

vars == <<dict, tokens, wmsg>>

Operand(S) == S \cup {NULL}

EmptyDict == [k \in {} |-> NULL]

With(k, v) == [x \in DOMAIN dict \cup {k} |-> IF x = k THEN v ELSE dict[x]]

Without(k) == [x \in DOMAIN dict \ {k} |-> dict[x]]

Reply(d, r) == dict' = d /\ wmsg' = r

Init == dict = EmptyDict /\ tokens = <<>> /\ wmsg = <<>>

\* Stores a new key; never overwrites one.
Hset(k, v) ==
  /\ tokens' = <<"HSET", k, v>>
  /\ \/ NULL \in {k, v} /\ Reply(dict, <<"ERROR">>)
     \/ NULL \notin {k, v} /\ k \in DOMAIN dict /\ Reply(dict, <<"EXISTS">>)
     \/ NULL \notin {k, v} /\ k \notin DOMAIN dict /\ Reply(With(k, v), <<"SUCCESS">>)

Hget(k) ==
  /\ tokens' = <<"HGET", k>>
  /\ \/ k \in DOMAIN dict /\ Reply(dict, <<"VALUE", Fit[dict[k]]>>)
     \/ k \notin DOMAIN dict /\ Reply(dict, <<"NO EXIST">>)

Hdel(k) ==
  /\ tokens' = <<"HDEL", k>>
  /\ \/ k \in DOMAIN dict /\ Reply(Without(k), <<"SUCCESS">>)
     \/ k \notin DOMAIN dict /\ Reply(dict, <<"ERROR">>)

\* Replaces the value of a stored key; never creates one.
Hmod(k, v) ==
  /\ tokens' = <<"HMOD", k, v>>
  /\ \/ k \in DOMAIN dict /\ v # NULL /\ Reply(With(k, v), <<"SUCCESS">>)
     \/ (k \notin DOMAIN dict \/ v = NULL) /\ Reply(dict, <<"ERROR">>)

Hcount ==
  /\ tokens' = <<"HCOUNT">>
  /\ Reply(dict, <<"COUNT", Cardinality(DOMAIN dict)>>)

OtherCommand == tokens' = <<"OTHER">> /\ Reply(dict, <<"ERROR">>)

\* A message of no words is not answered: the last reply stays in the buffer.
EmptyMessage == tokens' = <<>> /\ UNCHANGED <<dict, wmsg>>

Next ==
  \/ \E k \in Operand(Key), v \in Operand(Value) : Hset(k, v) \/ Hmod(k, v)
  \/ \E k \in Operand(Key) : Hget(k) \/ Hdel(k)
  \/ Hcount
  \/ OtherCommand
  \/ EmptyMessage

Spec == Init /\ [][Next]_vars

=============================================================================
