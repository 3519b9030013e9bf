----------------------------- MODULE Connection -----------------------------
(***************************************************************************)
(* One connection, from its socket to the handler of a request:            *)
(* Webserver::deal_Read, ConnectionInfo::read and convert_request, the     *)
(* ring buffer, the HTTP parser, the router, the handlers.                 *)
(*                                                                         *)
(* The ring buffer holds no position for the next byte that recv writes:   *)
(* recv writes at the start of the buffer each time, only the counters go  *)
(* round, and the parser is given as many bytes as the counters say are    *)
(* free.  Whatever an earlier read left behind the new bytes is seen too.  *)
(*                                                                         *)
(* A cell is a byte that matters, or a run of bytes that do not differ in  *)
(* effect: the start line of a request (method and URL, which select the   *)
(* handler), its headers, the empty line that ends its head, and each      *)
(* character or space of its body.  Requests are well formed, and a client *)
(* sends the next one when all bytes of the last were received: recv cuts  *)
(* a request in pieces, but does not join two.                             *)
(***************************************************************************)
EXTENDS Integers, Sequences, FiniteSets

CONSTANTS Request,  \* requests that differ
          Body,     \* the body of each, a sequence of "char" and "space"
          Announced,\* those that have a Content-Length header
          Route,    \* "kvstore", "hello", or "none": no handler for its URL
          Size,     \* RING_BUFFER_SIZE
          Nul,      \* a zero byte
          MaxSent   \* bound: requests a client sends

ASSUME RequestAssumption ==
  /\ Body \in [Request -> Seq({"char", "space"})]
  /\ Route \in [Request -> {"kvstore", "hello", "none"}]
  /\ Announced \subseteq Request
ASSUME SizeAssumption == Size \in Nat \ {0} /\ MaxSent \in Nat
ASSUME NulAssumption == Nul \notin Request \X Nat

VARIABLES wire,     \* bytes sent and not yet received
          peer,     \* "open" or "closed": the client's end
          state,    \* "open" or "closed": the server's end
          buffer,   \* _read_buffer._buffer
          tail,     \* _read_buffer._tail
          handled,  \* history: the handlers' runs
          sent,     \* history: how many requests were sent
          longest   \* history: the most bytes one read returned

vars == <<wire, peer, state, buffer, tail, handled, sent, longest>>

\* Cells of a request: 1 start line, 2 headers, 3 end of the head, then the body.
HeadLen == 3
Length(r) == HeadLen + Len(Body[r])
Cells(r) == [i \in 1 .. Length(r) |-> <<r, i>>]
Cell == UNION {{<<r, i>> : i \in 1 .. Length(r)} : r \in Request}

Is(c, i) == c # Nul /\ c[2] = i
IsSpace(c) == c # Nul /\ c[2] > HeadLen /\ Body[c[1]][c[2] - HeadLen] = "space"
IsChar(c) == c # Nul /\ ~IsSpace(c)

Place == 0 .. Size - 1

-----------------------------------------------------------------------------
(* ring_buffer *)

\* The read buffer's _head: readed is never called on it.
head == 0

\* A full ring has its tail where its head is, and counts as empty.
not_useSize(h, t) == Size - (IF t >= h THEN t - h ELSE Size - h + t)

\* Mutant of writed: the tail does not go round.
writedStraight(t, len) == t + len

writed(t, len) == (t + len) % Size

-----------------------------------------------------------------------------
(* convert_request *)

First(S) == CHOOSE p \in S : \A q \in S : p <= q

Found(b, view, i) == {p \in Place : p < view /\ Is(b[p], i)}

HeadEnd(b, view) == First(Found(b, view, 3))

\* The Content-Length headers the parser sees; it takes the first, if it is in
\* the head.
LengthHeaders(b, view) == {p \in Found(b, view, 2) : b[p][1] \in Announced}

\* A request begins with the name of a method that is registered.
get_parser(b, view) == view > 0 /\ Is(b[0], 1)

\* The content length is compared with the bytes the parser was given, not with
\* those received.
is_complete_message(b, view) ==
  /\ Found(b, view, 3) # {}
  /\ \A p \in LengthHeaders(b, view) :
       (p = First(LengthHeaders(b, view)) /\ p < HeadEnd(b, view))
         => view >= HeadEnd(b, view) + 1 + Len(Body[b[p][1]])

\* The parser is given the free bytes of the ring.
View(t) == not_useSize(head, t)

convert_request(b, t) == get_parser(b, View(t)) /\ is_complete_message(b, View(t))

\* The request's _data is a string: it ends at the first zero byte behind the
\* head, wherever that is (the bytes after the buffer, _head, are zero).
TextEnd(b, from) == First({p \in from .. Size : p = Size \/ b[p] = Nul})
Text(b, from) == [i \in 1 .. TextEnd(b, from) - from |-> b[from + i - 1]]

\* strtok puts a zero byte behind each word of the string.
Tokenized(b, from) ==
  [p \in Place |-> IF /\ p > from /\ p < TextEnd(b, from)
                      /\ IsSpace(b[p]) /\ IsChar(b[p - 1])
                   THEN Nul ELSE b[p]]

-----------------------------------------------------------------------------
(* deal_Read *)

Run(r, text) == [request |-> r, text |-> text]

\* The handler of the method and URL in the start line.
get_handler(b) == Route[b[0][1]]

\* "hello" does not look at the body.
Handle(b, view) ==
  LET r == b[0][1]
      data == HeadEnd(b, view) + 1
  IN CASE get_handler(b) = "kvstore" ->
            /\ handled' = Append(handled, Run(r, Text(b, data)))
            /\ buffer' = Tokenized(b, data)
       [] get_handler(b) = "hello" ->
            /\ handled' = Append(handled, Run(r, <<>>))
            /\ buffer' = b
       [] OTHER -> buffer' = b /\ UNCHANGED handled

\* Mutant of Received: recv writes behind what was read before.
ReceivedAtTail(n) ==
  [p \in Place |-> IF p \in tail .. tail + n - 1 THEN wire[p - tail + 1] ELSE buffer[p]]

\* n bytes have arrived and fit: recv puts them at the start of the buffer.
Received(n) == [p \in Place |-> IF p < n THEN wire[p + 1] ELSE buffer[p]]

Read(n) ==
  /\ state = "open"
  /\ n \in 1 .. Len(wire) /\ n <= not_useSize(head, tail)
  /\ wire' = SubSeq(wire, n + 1, Len(wire))
  /\ tail' = writed(tail, n)
  /\ longest' = IF n > longest THEN n ELSE longest
  /\ LET b == Received(n)
     IN \/ convert_request(b, tail') /\ Handle(b, View(tail'))
        \/ ~convert_request(b, tail') /\ buffer' = b /\ UNCHANGED handled
  /\ UNCHANGED <<peer, state, sent>>

\* recv returns 0, at the end of the stream or when it is asked for 0 bytes.
ReadNothing ==
  /\ state = "open"
  /\ (wire = <<>> /\ peer = "closed") \/ (wire # <<>> /\ not_useSize(head, tail) = 0)
  /\ state' = "closed"
  /\ UNCHANGED <<wire, peer, buffer, tail, handled, sent, longest>>

-----------------------------------------------------------------------------
(* The client *)

Send(r) ==
  /\ peer = "open" /\ wire = <<>> /\ sent < MaxSent
  /\ wire' = Cells(r)
  /\ sent' = sent + 1
  /\ UNCHANGED <<peer, state, buffer, tail, handled, longest>>

\* The end of the stream; resets are not modelled.
CloseByPeer ==
  /\ peer = "open"
  /\ peer' = "closed"
  /\ UNCHANGED <<wire, state, buffer, tail, handled, sent, longest>>

\* The connection object is zeroed when it is made.
Init ==
  /\ wire = <<>> /\ peer = "open" /\ state = "open"
  /\ buffer = [p \in Place |-> Nul] /\ tail = 0
  /\ handled = <<>> /\ sent = 0 /\ longest = 0

Next ==
  \/ \E r \in Request : Send(r)
  \/ \E n \in 1 .. Len(wire) : Read(n)
  \/ ReadNothing \/ CloseByPeer

Spec == Init /\ [][Next]_vars

-----------------------------------------------------------------------------
(* Properties *)

\* The buffer holds bytes that were sent or zeros, the counters stay in it.
TypeOK ==
  /\ wire \in Seq(Cell) /\ peer \in {"open", "closed"} /\ state \in {"open", "closed"}
  /\ buffer \in [Place -> Cell \cup {Nul}] /\ tail \in Place
  /\ handled \in Seq([request : Request, text : Seq(Cell)])
  /\ sent \in Nat /\ longest \in 0 .. Size

\* An open connection is never taken for one that its peer has closed: recv is
\* not asked for 0 bytes, however the counter goes round.
ClosedByPeerOnly == state = "closed" => peer = "closed" /\ wire = <<>>

\* What the handler of r is to be given.
Expected(r) == Run(r, IF Route[r] = "kvstore" THEN SubSeq(Cells(r), HeadLen + 1, Length(r))
                      ELSE <<>>)

\* The step reads one whole request r.
Takes(r) == wire = Cells(r) /\ wire' = <<>>

\* deal_Read, on a request that arrives in one piece: if twice its length is
\* still free in the ring, and no read was longer before, the handler of its
\* URL runs on its body and on nothing else, whatever the connection has
\* received and executed before.
WholeRequestsRun ==
  [][\A r \in Request :
       (Takes(r) /\ tail + 2 * Length(r) <= Size /\ longest <= Length(r)) =>
         handled' = IF Route[r] = "none" THEN handled ELSE Append(handled, Expected(r))]_vars

\* http_task.h:15 headers["Connection"] = "keep-alive": on a connection that is
\* kept, a request sent when all before it were answered, and read in one
\* piece, is executed as it was sent.
KeptAliveRequestsRun ==
  [][\A r \in Request :
       (Takes(r) /\ Route[r] # "none" /\ Len(handled) = sent - 1)
         => handled' = Append(handled, Expected(r))]_vars

\* protocol_parser.h:15 NEEED_MORE_DATA, with protocol_parser.cpp:29 "解析
\* Content-Length" (parse the Content-Length): a request of which a part has
\* not arrived is not executed.
IncompleteIsNotRun ==
  [][\A r \in Request :
       (wire = Cells(r) /\ wire' # <<>> /\ wire' # wire /\ longest = 0) => handled' = handled]_vars

=============================================================================
