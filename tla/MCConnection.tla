---------------------------- MODULE MCConnection ----------------------------
(***************************************************************************)
(* Four requests of a few cells: a long and a short command, a request     *)
(* without a body and one for which there is no handler.                   *)
(***************************************************************************)
EXTENDS Connection

CONSTANTS long, short, hello, lost

MCRequest == {long, short, hello, lost}
MCBody == [r \in MCRequest |->
             CASE r = long -> <<"char", "space", "char", "char">>
               [] r = short -> <<"char", "space", "char">>
               [] OTHER -> <<>>]
MCAnnounced == {long, short}
MCRoute == [r \in MCRequest |-> CASE r = hello -> "hello" [] r = lost -> "none" [] OTHER -> "kvstore"]

=============================================================================
