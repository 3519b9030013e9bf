------------------------------- MODULE KVStore -------------------------------
(***************************************************************************)
(* What the key-value engine promises over all the lives of the process:   *)
(* while it serves, the dictionary of KVMap; from one life to the next,    *)
(* the dictionary as it was when the last one ended.  There are no lines,  *)
(* files or chains here; KVEngine implements this module.                  *)
(***************************************************************************)
EXTENDS KVMap

CONSTANT Clip       \* what the file keeps of a value: Clip[v]

VARIABLES phase,    \* "down", "serving" or "saving"
          kept,     \* what the next start is to find
          cut       \* whether the save that was to keep it has not ended

svars == <<dict, tokens, wmsg, phase, kept, cut>>

Silent == tokens' = <<>> /\ wmsg' = <<>>

\* A part of what was to be kept, with at most one other value.
Salvaged(d) ==
  /\ DOMAIN d \subseteq DOMAIN kept
  /\ \A k, l \in DOMAIN d : d[k] # kept[k] /\ d[l] # kept[l] => k = l

SInit == Init /\ phase = "down" /\ kept = EmptyDict /\ cut = TRUE

\* A file that cannot be opened is taken for one that is not there.
Start ==
  /\ phase = "down" /\ phase' = "serving"
  /\ \/ dict' = EmptyDict
     \/ ~cut /\ dict' = kept
     \/ cut /\ Salvaged(dict')
  /\ Silent
  /\ UNCHANGED <<kept, cut>>

Command == phase = "serving" /\ Next /\ UNCHANGED <<phase, kept, cut>>

Save ==
  /\ phase = "serving" /\ phase' = "saving"
  /\ kept' = [k \in DOMAIN dict |-> Clip[dict[k]]] /\ cut' = TRUE
  /\ Silent
  /\ UNCHANGED dict

\* The process ends, in whatever way; only at the end of a save is what was to
\* be kept safe.
Stop ==
  /\ phase # "down" /\ phase' = "down"
  /\ dict' = EmptyDict
  /\ cut' = cut \/ (phase = "saving" /\ cut' = FALSE)
  /\ Silent
  /\ UNCHANGED kept

SNext == Start \/ Command \/ Save \/ Stop

SSpec == SInit /\ [][SNext]_svars

=============================================================================
