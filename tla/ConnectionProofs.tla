-------------------------- MODULE ConnectionProofs --------------------------
(***************************************************************************)
(* For any requests, any size of the ring and any number of requests on a  *)
(* connection: the types, that an open connection is never taken for a     *)
(* closed one, and that a request read whole into a ring with twice its    *)
(* length free is executed as it was sent.                                 *)
(***************************************************************************)
EXTENDS Connection, TLAPS, SequenceTheorems, NumberLemmas

\* Behind the longest read the buffer is still as it was zeroed.  Nothing else
\* ends the string that the handlers make of a body.
ZeroBehindLongest == \A p \in Place : p >= longest => buffer[p] = Nul

IInv == TypeOK /\ ClosedByPeerOnly /\ ZeroBehindLongest

-----------------------------------------------------------------------------
(* Numbers *)

\* First finds the least member of a set of numbers.
LEMMA FirstProperties ==
  ASSUME NEW S, S \subseteq Nat, S # {}
  PROVE  First(S) \in S /\ \A q \in S : First(S) <= q
BY LeastChosen DEF First

LEMMA FirstIs ==
  ASSUME NEW S, S \subseteq Nat, NEW m \in S, \A q \in S : m <= q
  PROVE  First(S) = m
<1>1. First(S) \in S /\ First(S) <= m /\ m <= First(S)
  BY FirstProperties
<1>2. First(S) \in Nat /\ m \in Nat
  BY <1>1
<1> QED
  BY <1>1, <1>2

LEMMA PlaceNumbers == /\ Place \subseteq Nat
                      /\ \A p \in Place : p < Size
                      /\ 0 \in Place
BY SizeAssumption DEF Place

\* As long as the tail is in the buffer, recv has room: the counters never say
\* that the ring is full.
LEMMA RoomLeft ==
  ASSUME NEW t \in Place
  PROVE  not_useSize(head, t) = Size - t /\ Size - t >= 1
BY SizeAssumption DEF Place, not_useSize, head

LEMMA TailStays ==
  ASSUME NEW t \in Place, NEW n \in Nat
  PROVE  writed(t, n) \in Place
BY SizeAssumption DEF Place, writed

-----------------------------------------------------------------------------
(* Cells *)

LEMMA LengthNumber ==
  ASSUME NEW r \in Request
  PROVE  Len(Body[r]) \in Nat /\ Length(r) \in Nat /\ Length(r) >= 3
BY RequestAssumption DEF Length, HeadLen

LEMMA CellsProperties ==
  ASSUME NEW r \in Request
  PROVE  /\ Cells(r) \in Seq(Cell)
         /\ Len(Cells(r)) = Length(r)
         /\ \A i \in 1 .. Length(r) : Cells(r)[i] = <<r, i>>
<1>1. Length(r) \in Nat
  BY LengthNumber
<1>2. \A i \in 1 .. Length(r) : <<r, i>> \in Cell
  BY DEF Cell
<1> QED
  BY <1>1, <1>2 DEF Cells

LEMMA CellIs ==
  ASSUME NEW c \in Cell
  PROVE  /\ c # Nul
         /\ c[1] \in Request /\ c[2] \in 1 .. Length(c[1])
         /\ c = <<c[1], c[2]>>
<1> PICK r \in Request : \E i \in 1 .. Length(r) : c = <<r, i>>
  BY DEF Cell
<1>1. PICK i \in 1 .. Length(r) : c = <<r, i>>
  OBVIOUS
<1>2. i \in Nat
  BY <1>1, LengthNumber
<1>3. c[1] = r /\ c[2] = i
  BY <1>1
<1>4. <<r, i>> \in Request \X Nat
  BY <1>2
<1> QED
  BY <1>1, <1>3, <1>4, NulAssumption

-----------------------------------------------------------------------------
(* The parser *)

Buffers == [Place -> Cell \cup {Nul}]

LEMMA ReceivedType ==
  ASSUME TypeOK, NEW n \in 1 .. Len(wire)
  PROVE  Received(n) \in Buffers
<1>1. ASSUME NEW p \in Place, p < n PROVE wire[p + 1] \in Cell
  <2>1. p + 1 \in 1 .. Len(wire) /\ wire \in Seq(Cell)
    BY <1>1, PlaceNumbers DEF TypeOK
  <2> QED
    BY <2>1, ElementOfSeq
<1>2. \A p \in Place : buffer[p] \in Cell \cup {Nul}
  BY DEF TypeOK
<1> QED
  BY <1>1, <1>2 DEF Received, Buffers

\* The head of a complete message ends inside the buffer.
LEMMA HeadEndInside ==
  ASSUME NEW b \in Buffers, NEW view, Found(b, view, 3) # {}
  PROVE  HeadEnd(b, view) \in Found(b, view, 3) /\ HeadEnd(b, view) \in Place
<1>1. Found(b, view, 3) \subseteq Nat /\ Found(b, view, 3) \subseteq Place
  BY PlaceNumbers DEF Found
<1> QED
  BY <1>1, FirstProperties DEF HeadEnd

\* The text the handlers are given ends at the first zero, or where the buffer
\* ends.
LEMMA TextEndProperties ==
  ASSUME NEW b \in Buffers, NEW from \in 0 .. Size
  PROVE  /\ TextEnd(b, from) \in from .. Size
         /\ \A p \in from .. TextEnd(b, from) - 1 : b[p] \in Cell
<1> DEFINE ends == {p \in from .. Size : p = Size \/ b[p] = Nul}
<1>1. ends \subseteq Nat /\ Size \in ends /\ Size \in Nat
  BY SizeAssumption
<1>2. TextEnd(b, from) \in ends /\ \A p \in ends : TextEnd(b, from) <= p
  <2> HIDE DEF ends
  <2>1. First(ends) \in ends /\ \A p \in ends : First(ends) <= p
    BY <1>1, FirstProperties
  <2> QED
    BY <2>1 DEF TextEnd, ends
<1>3. ASSUME NEW p \in from .. TextEnd(b, from) - 1
      PROVE  b[p] \in Cell
  <2>1. p \in Nat /\ p >= from /\ p < TextEnd(b, from) /\ TextEnd(b, from) <= Size
    BY <1>1, <1>2, <1>3
  <2>2. p \notin ends /\ p \in from .. Size /\ p \in Place
    BY <1>1, <1>2, <2>1 DEF Place
  <2> QED
    BY <2>2 DEF Buffers
<1> QED
  BY <1>2, <1>3

LEMMA TextType ==
  ASSUME NEW b \in Buffers, NEW from \in 0 .. Size
  PROVE  Text(b, from) \in Seq(Cell)
<1> DEFINE n == TextEnd(b, from) - from
<1>1. n \in Nat
  BY TextEndProperties, SizeAssumption
<1>2. ASSUME NEW i \in 1 .. n PROVE b[from + i - 1] \in Cell
  <2>1. from + i - 1 \in from .. TextEnd(b, from) - 1
    BY <1>1, TextEndProperties, SizeAssumption
  <2> QED
    BY <2>1, TextEndProperties
<1> HIDE DEF n
<1>3. [i \in 1 .. n |-> b[from + i - 1]] \in Seq(Cell)
  BY <1>1, <1>2
<1> QED
  BY <1>3 DEF Text, n

LEMMA TokenizedType ==
  ASSUME NEW b \in Buffers, NEW from
  PROVE  Tokenized(b, from) \in Buffers
BY DEF Tokenized, Buffers

\* The handler of a request that the parser accepts runs on cells, and leaves
\* zeros where there were zeros.
LEMMA HandleEffect ==
  ASSUME TypeOK, NEW b \in Buffers, NEW t \in Place, convert_request(b, t), Handle(b, View(t))
  PROVE  /\ handled' \in Seq([request : Request, text : Seq(Cell)])
         /\ buffer' \in Buffers
         /\ \A p \in Place : b[p] = Nul => buffer'[p] = Nul
<1> DEFINE data == HeadEnd(b, View(t)) + 1
           r == b[0][1]
<1>1. HeadEnd(b, View(t)) \in Place
  BY HeadEndInside DEF convert_request, is_complete_message
<1>2. data \in 0 .. Size
  BY <1>1, SizeAssumption DEF Place
<1>3. r \in Request
  <2>1. b[0] \in Cell
    BY PlaceNumbers DEF convert_request, get_parser, Is, Buffers
  <2> QED
    BY <2>1, CellIs
<1> HIDE DEF data
<1>4. /\ Run(r, Text(b, data)) \in [request : Request, text : Seq(Cell)]
      /\ Run(r, <<>>) \in [request : Request, text : Seq(Cell)]
  <2>1. Text(b, data) \in Seq(Cell) /\ <<>> \in Seq(Cell)
    BY <1>2, TextType
  <2> QED
    BY <1>3, <2>1 DEF Run
<1> HIDE DEF r
<1>5. handled \in Seq([request : Request, text : Seq(Cell)])
  BY DEF TypeOK
<1>6. CASE get_handler(b) = "kvstore"
  <2>1. handled' = Append(handled, Run(r, Text(b, data))) /\ buffer' = Tokenized(b, data)
    BY <1>6 DEF Handle, data, r
  <2>2. \A p \in Place : b[p] = Nul => Tokenized(b, data)[p] = Nul
    BY DEF Tokenized
  <2> QED
    BY <1>4, <1>5, <2>1, <2>2, TokenizedType, AppendProperties
<1>7. CASE get_handler(b) = "hello"
  <2>1. handled' = Append(handled, Run(r, <<>>)) /\ buffer' = b
    BY <1>7 DEF Handle, r
  <2> QED
    BY <1>4, <1>5, <2>1, AppendProperties
<1>8. CASE get_handler(b) # "kvstore" /\ get_handler(b) # "hello"
  <2>1. buffer' = b /\ UNCHANGED handled
    BY <1>8 DEF Handle
  <2> QED
    BY <1>5, <2>1
<1> QED
  BY <1>6, <1>7, <1>8

-----------------------------------------------------------------------------
(* The inductive invariant *)

LEMMA InitIInv == Init => IInv
<1> SUFFICES ASSUME Init PROVE IInv
  OBVIOUS
<1>1. <<>> \in Seq(Cell) /\ <<>> \in Seq([request : Request, text : Seq(Cell)])
  OBVIOUS
<1>2. TypeOK
  BY <1>1, PlaceNumbers, SizeAssumption DEF Init, TypeOK
<1>3. ClosedByPeerOnly /\ ZeroBehindLongest
  BY DEF Init, ClosedByPeerOnly, ZeroBehindLongest
<1> QED
  BY <1>2, <1>3 DEF IInv

LEMMA ReadStep ==
  ASSUME IInv, NEW n \in 1 .. Len(wire), Read(n)
  PROVE  IInv'
<1> DEFINE b == Received(n)
           Runs == Seq([request : Request, text : Seq(Cell)])
<1>1. TypeOK /\ ZeroBehindLongest
  BY DEF IInv
<1>2. n \in Nat /\ Len(wire) \in Nat /\ n <= Len(wire) /\ wire \in Seq(Cell)
  BY <1>1 DEF TypeOK
<1>3. wire' \in Seq(Cell)
  <2>1. \A i \in n + 1 .. Len(wire) : wire[i] \in Cell
    BY <1>2, ElementOfSeq
  <2>2. SubSeq(wire, n + 1, Len(wire)) \in Seq(Cell)
    BY <1>2, <2>1, SubSeqProperties
  <2> QED
    BY <2>2 DEF Read
<1>4. tail' \in Place
  BY <1>1, <1>2, TailStays DEF Read, TypeOK
<1>5. longest' \in 0 .. Size /\ longest' >= longest /\ longest' >= n
  <2>1. n <= Size /\ longest \in 0 .. Size
    <3>1. tail \in Place /\ tail \in Nat /\ Size \in Nat
      BY <1>1, PlaceNumbers, SizeAssumption DEF TypeOK
    <3>2. n <= Size - tail
      BY <3>1, RoomLeft DEF Read
    <3> QED
      BY <1>1, <1>2, <3>1, <3>2 DEF TypeOK
  <2> QED
    BY <1>2, <2>1, SizeAssumption DEF Read
<1>6. b \in Buffers
  BY <1>1, ReceivedType
<1>7. \A p \in Place : p >= longest' => b[p] = Nul
  <2> SUFFICES ASSUME NEW p \in Place, p >= longest'
               PROVE  b[p] = Nul
    OBVIOUS
  <2>1. p \in Nat /\ longest \in Nat /\ longest' \in Nat
    BY <1>1, <1>5, PlaceNumbers DEF TypeOK
  <2>2. p >= longest /\ ~(p < n)
    BY <1>2, <1>5, <2>1
  <2>3. b[p] = buffer[p]
    BY <2>2 DEF Received
  <2> QED
    BY <1>1, <2>2, <2>3 DEF ZeroBehindLongest
<1>8. /\ handled' \in Runs
      /\ buffer' \in Buffers
      /\ \A p \in Place : b[p] = Nul => buffer'[p] = Nul
  <2>1. CASE convert_request(b, tail') /\ Handle(b, View(tail'))
    BY <1>1, <1>4, <1>6, <2>1, HandleEffect
  <2>2. CASE buffer' = b /\ UNCHANGED handled
    BY <1>1, <1>6, <2>2 DEF TypeOK
  <2> QED
    BY <2>1, <2>2 DEF Read
<1>9. TypeOK'
  BY <1>1, <1>3, <1>4, <1>5, <1>8 DEF TypeOK, Buffers, Read
<1>10. ClosedByPeerOnly'
  BY DEF ClosedByPeerOnly, Read
<1>11. ZeroBehindLongest'
  BY <1>7, <1>8 DEF ZeroBehindLongest
<1> QED
  BY <1>9, <1>10, <1>11 DEF IInv

\* recv is asked for 0 bytes only if the counters say that the ring is full,
\* and they never do.
LEMMA ReadNothingStep ==
  ASSUME IInv, ReadNothing
  PROVE  IInv'
<1>1. not_useSize(head, tail) # 0
  <2>1. tail \in Place /\ Size \in Nat /\ tail \in Nat
    BY PlaceNumbers, SizeAssumption DEF IInv, TypeOK
  <2>2. not_useSize(head, tail) = Size - tail /\ Size - tail >= 1
    BY <2>1, RoomLeft
  <2> QED
    BY <2>1, <2>2
<1>2. wire = <<>> /\ peer = "closed"
  BY <1>1 DEF ReadNothing
<1> QED
  BY <1>2 DEF ReadNothing, IInv, TypeOK, ClosedByPeerOnly, ZeroBehindLongest

LEMMA ClientStep ==
  ASSUME IInv, (\E r \in Request : Send(r)) \/ CloseByPeer
  PROVE  IInv'
<1>1. ASSUME NEW r \in Request, Send(r) PROVE IInv'
  <2>1. wire' \in Seq(Cell) /\ sent' \in Nat
    BY <1>1, CellsProperties DEF Send, IInv, TypeOK
  <2> QED
    BY <1>1, <2>1 DEF Send, IInv, TypeOK, ClosedByPeerOnly, ZeroBehindLongest
<1>2. CASE CloseByPeer
  BY <1>2 DEF CloseByPeer, IInv, TypeOK, ClosedByPeerOnly, ZeroBehindLongest
<1> QED
  BY <1>1, <1>2

LEMMA StepIInv == IInv /\ [Next]_vars => IInv'
<1> SUFFICES ASSUME IInv, [Next]_vars PROVE IInv'
  OBVIOUS
<1>1. CASE UNCHANGED vars
  BY <1>1 DEF vars, IInv, TypeOK, ClosedByPeerOnly, ZeroBehindLongest
<1> QED
  BY <1>1, ReadStep, ReadNothingStep, ClientStep DEF Next

\* Whatever pieces the requests arrive in, the read buffer holds bytes that were
\* sent, or zeros, and its counters stay inside it.
THEOREM TypeCorrect == Spec => []TypeOK
<1>1. IInv => TypeOK
  BY DEF IInv
<1> QED
  BY <1>1, InitIInv, StepIInv, PTL DEF Spec

\* deal_Read takes a connection for closed only when its peer has closed it and
\* all it sent was received: ring_buffer's counters never leave recv no room.
THEOREM OpenStaysOpen == Spec => []ClosedByPeerOnly
<1>1. IInv => ClosedByPeerOnly
  BY DEF IInv
<1> QED
  BY <1>1, InitIInv, StepIInv, PTL DEF Spec

-----------------------------------------------------------------------------
(* A request that arrives in one piece *)

\* A step that receives all of a request is one call of deal_Read.
LEMMA TakesByRead ==
  ASSUME IInv, [Next]_vars, NEW r \in Request, Takes(r)
  PROVE  Length(r) \in 1 .. Len(wire) /\ Read(Length(r))
<1>1. /\ wire \in Seq(Cell) /\ Len(wire) = Length(r)
      /\ Length(r) \in Nat /\ Length(r) >= 3
  BY CellsProperties, LengthNumber DEF Takes
<1>2. wire # <<>> /\ wire' # wire
  BY <1>1 DEF Takes
<1>3. PICK n \in 1 .. Len(wire) : Read(n)
  BY <1>2 DEF Next, vars, Send, ReadNothing, CloseByPeer
<1>4. n = Length(r)
  <2>1. \A i \in n + 1 .. Len(wire) : wire[i] \in Cell
    BY <1>1, ElementOfSeq
  <2>2. n \in Int /\ n + 1 \in Int /\ Len(wire) \in Int /\ n <= Len(wire)
    BY <1>1
  <2>3. Len(SubSeq(wire, n + 1, Len(wire))) = IF n + 1 <= Len(wire) THEN Len(wire) - (n + 1) + 1 ELSE 0
    BY <2>1, <2>2, SubSeqProperties
  <2>4. SubSeq(wire, n + 1, Len(wire)) = <<>> /\ Len(<<>>) = 0
    BY <1>3, Zenon DEF Takes, Read
  <2>5. 0 = IF n + 1 <= Len(wire) THEN Len(wire) - (n + 1) + 1 ELSE 0
    BY <2>3, <2>4, Zenon
  <2> QED
    BY <1>1, <2>2, <2>5
<1> QED
  BY <1>1, <1>3, <1>4

\* What the buffer then begins with: the request, and a zero behind it.
LEMMA BufferThen ==
  ASSUME IInv, NEW r \in Request, wire = Cells(r), tail + 2 * Length(r) <= Size,
         longest <= Length(r)
  PROVE  /\ \A p \in 0 .. Length(r) - 1 : Received(Length(r))[p] = <<r, p + 1>>
         /\ Received(Length(r))[Length(r)] = Nul
         /\ Length(r) \in Place /\ Length(r) \in Nat /\ Length(r) >= 3
         /\ writed(tail, Length(r)) \in Place
         /\ View(writed(tail, Length(r))) \in Nat
         /\ View(writed(tail, Length(r))) >= Length(r)
<1> DEFINE n == Length(r)
<1>1. n \in Nat /\ n >= 3 /\ Size \in Nat /\ tail \in Nat /\ tail \in Place /\ longest \in Nat
  BY LengthNumber, SizeAssumption, PlaceNumbers DEF IInv, TypeOK
<1>2. tail + 2 * n <= Size /\ longest <= n
  OBVIOUS
<1>3. /\ Len(wire) = n
      /\ \A i \in 1 .. n : wire[i] = <<r, i>>
  BY CellsProperties
<1> HIDE DEF n
<1>4. n \in Place /\ \A p \in 0 .. n - 1 : p \in Place
  BY <1>1, <1>2 DEF Place
<1>5. ASSUME NEW p \in 0 .. n - 1
      PROVE  Received(n)[p] = <<r, p + 1>>
  <2>1. p \in Place /\ p < n /\ p + 1 \in 1 .. n
    BY <1>1, <1>4
  <2> QED
    BY <1>3, <2>1 DEF Received
<1>6. Received(n)[n] = Nul
  <2>1. ~(n < n) /\ n >= longest
    BY <1>1, <1>2
  <2> QED
    BY <1>4, <2>1 DEF Received, IInv, ZeroBehindLongest
<1>7. writed(tail, n) = tail + n /\ tail + n \in Place
  BY <1>1, <1>2 DEF writed, Place
<1>8. View(tail + n) = Size - (tail + n)
  BY <1>7, RoomLeft DEF View
<1> QED
  BY <1>1, <1>2, <1>4, <1>5, <1>6, <1>7, <1>8 DEF n

\* The parser finds that request and nothing of an earlier one, and finds it
\* complete.
LEMMA ParsedWhole ==
  ASSUME NEW r \in Request, NEW b \in Buffers, NEW t \in Place,
         Length(r) \in Nat, Length(r) >= 3, View(t) \in Nat, View(t) >= Length(r),
         \A p \in 0 .. Length(r) - 1 : b[p] = <<r, p + 1>>
  PROVE  b[0][1] = r /\ HeadEnd(b, View(t)) = 2 /\ convert_request(b, t)
<1> DEFINE view == View(t)
           n == Length(r)
           ends == Found(b, view, 3)
<1>1. /\ n \in Nat /\ n >= 3 /\ view \in Nat /\ view >= n
      /\ \A p \in 0 .. n - 1 : b[p] = <<r, p + 1>>
  OBVIOUS
<1>2. n = 3 + Len(Body[r])
  BY DEF Length, HeadLen
<1>3. view <= Size
  BY RoomLeft, SizeAssumption, PlaceNumbers DEF View
<1> HIDE DEF n, view
<1>4. /\ 0 \in Place /\ 1 \in Place /\ 2 \in Place
      /\ b[0] = <<r, 1>> /\ b[1] = <<r, 2>> /\ b[2] = <<r, 3>>
  BY <1>1, <1>3, SizeAssumption DEF Place
<1>5. <<r, 1>> # Nul /\ <<r, 2>> # Nul /\ <<r, 3>> # Nul
  BY NulAssumption
<1>6. 2 \in ends /\ \A q \in ends : 2 <= q
  <2>1. 2 \in ends
    BY <1>1, <1>4, <1>5 DEF Found, Is
  <2>2. ~Is(b[0], 3) /\ ~Is(b[1], 3)
    BY <1>4 DEF Is
  <2>3. \A q \in ends : q \in Nat /\ q # 0 /\ q # 1
    BY <2>2, PlaceNumbers DEF Found
  <2> QED
    BY <2>1, <2>3
<1>7. HeadEnd(b, view) = 2
  <2>1. ends \subseteq Nat
    BY PlaceNumbers DEF Found
  <2> HIDE DEF ends
  <2>2. First(ends) = 2
    BY <1>6, <2>1, FirstIs
  <2> QED
    BY <2>2 DEF HeadEnd, ends
<1>8. get_parser(b, view)
  BY <1>1, <1>4, <1>5 DEF get_parser, Is
<1>9. is_complete_message(b, view)
  <2> SUFFICES ASSUME NEW p \in LengthHeaders(b, view), p < 2
               PROVE  view >= 2 + 1 + Len(Body[b[p][1]])
    BY <1>6, <1>7 DEF is_complete_message
  <2>1. p \in Nat /\ p \in Place
    BY PlaceNumbers DEF LengthHeaders, Found
  <2>2. b[p][1] = r
    BY <1>4, <2>1
  <2> QED
    BY <1>1, <1>2, <2>2
<1> QED
  BY <1>4, <1>7, <1>8, <1>9 DEF convert_request, view

\* The text that the handler is given is the body.
LEMMA TextIsBody ==
  ASSUME NEW r \in Request, NEW b \in Buffers,
         Length(r) \in Place, Length(r) \in Nat, Length(r) >= 3,
         \A p \in 0 .. Length(r) - 1 : b[p] = <<r, p + 1>>, b[Length(r)] = Nul
  PROVE  Text(b, 3) = SubSeq(Cells(r), HeadLen + 1, Length(r))
<1> DEFINE n == Length(r)
           ends == {p \in 3 .. Size : p = Size \/ b[p] = Nul}
           body == SubSeq(Cells(r), 4, n)
<1>1. /\ n \in Place /\ n \in Nat /\ n >= 3 /\ n < Size /\ Size \in Nat
      /\ \A p \in 0 .. n - 1 : b[p] = <<r, p + 1>>
      /\ b[n] = Nul
  BY PlaceNumbers, SizeAssumption
<1>2. /\ Cells(r) \in Seq(Cell) /\ Len(Cells(r)) = n
      /\ \A i \in 1 .. n : Cells(r)[i] = <<r, i>>
  BY CellsProperties
<1> HIDE DEF n
<1>3. n \in ends /\ \A q \in ends : n <= q
  <2>1. n \in ends
    BY <1>1
  <2>2. ASSUME NEW q \in ends, q < n PROVE FALSE
    <3>1. q \in 0 .. n - 1 /\ q # Size /\ q + 1 \in Nat
      BY <1>1, <2>2
    <3>2. b[q] = <<r, q + 1>> /\ b[q] = Nul
      BY <1>1, <3>1
    <3> QED
      BY <3>1, <3>2, NulAssumption
  <2> QED
    BY <1>1, <2>1, <2>2
<1>4. TextEnd(b, 3) = n
  <2>1. ends \subseteq Nat
    BY <1>1
  <2> HIDE DEF ends
  <2>2. First(ends) = n
    BY <1>3, <2>1, FirstIs
  <2> QED
    BY <2>2 DEF TextEnd, ends
<1>5. /\ body \in Seq(Cell)
      /\ Len(body) = n - 3
      /\ \A i \in 1 .. n - 3 : body[i] = Cells(r)[4 + i - 1]
  <2>1. \A i \in 4 .. n : Cells(r)[i] \in Cell
    BY <1>1, <1>2, ElementOfSeq
  <2>2. /\ body \in Seq(Cell)
        /\ Len(body) = IF 4 <= n THEN n - 4 + 1 ELSE 0
        /\ \A i \in 1 .. n - 4 + 1 : body[i] = Cells(r)[4 + i - 1]
    BY <1>1, <2>1, SubSeqProperties
  <2> QED
    BY <1>1, <2>2
<1> HIDE DEF body
<1>6. Text(b, 3) = [i \in 1 .. n - 3 |-> b[3 + i - 1]]
  BY <1>4 DEF Text
<1>7. ASSUME NEW i \in 1 .. n - 3 PROVE b[3 + i - 1] = body[i]
  <2>1. 3 + i - 1 \in 0 .. n - 1 /\ 4 + i - 1 \in 1 .. n /\ 3 + i - 1 + 1 = 4 + i - 1
    BY <1>1
  <2> QED
    BY <1>1, <1>2, <1>5, <2>1
<1>8. n - 3 \in Nat
  BY <1>1
<1>9. body = [i \in 1 .. n - 3 |-> body[i]]
  BY <1>5, <1>8
<1> QED
  BY <1>6, <1>7, <1>9 DEF body, n, HeadLen

\* A request read in one piece, with twice its length free in the ring and no
\* longer read before, is handled by the handler of its URL, and that handler
\* gets its body and nothing else: nothing that earlier requests left in the
\* read buffer of the connection is parsed, or taken for a part of it.
THEOREM WholeRequestsAreRun == Spec => WholeRequestsRun
<1> DEFINE Whole ==
      \A r \in Request :
        (Takes(r) /\ tail + 2 * Length(r) <= Size /\ longest <= Length(r)) =>
          handled' = IF Route[r] = "none" THEN handled ELSE Append(handled, Expected(r))
<1>1. IInv /\ [Next]_vars => Whole
  <2> SUFFICES ASSUME IInv, [Next]_vars, NEW r \in Request,
                      Takes(r), tail + 2 * Length(r) <= Size, longest <= Length(r)
               PROVE  handled' = IF Route[r] = "none" THEN handled
                                 ELSE Append(handled, Expected(r))
    OBVIOUS
  <2> DEFINE n == Length(r)
             b == Received(n)
  <2>1. n \in 1 .. Len(wire) /\ Read(n)
    BY TakesByRead
  <2>2. b \in Buffers
    BY <2>1, ReceivedType DEF IInv
  <2>3. /\ \A p \in 0 .. n - 1 : b[p] = <<r, p + 1>>
        /\ b[n] = Nul
        /\ n \in Place /\ n \in Nat /\ n >= 3
        /\ tail' \in Place /\ View(tail') \in Nat /\ View(tail') >= n
    BY <2>1, BufferThen DEF Takes, Read
  <2> HIDE DEF b
  <2>4. b[0][1] = r /\ HeadEnd(b, View(tail')) = 2 /\ convert_request(b, tail')
    BY <2>2, <2>3, ParsedWhole
  <2>5. Handle(b, View(tail'))
    BY <2>1, <2>4 DEF Read, b
  <2>6. get_handler(b) = Route[r] /\ Route[r] \in {"kvstore", "hello", "none"}
    BY <2>4, RequestAssumption DEF get_handler
  <2>7. CASE Route[r] = "kvstore"
    <3>1. handled' = Append(handled, Run(r, Text(b, 3)))
      BY <2>4, <2>5, <2>6, <2>7 DEF Handle
    <3>2. Text(b, 3) = SubSeq(Cells(r), HeadLen + 1, n)
      BY <2>2, <2>3, TextIsBody
    <3> QED
      BY <2>7, <3>1, <3>2 DEF Expected
  <2>8. CASE Route[r] = "hello"
    BY <2>4, <2>5, <2>6, <2>8 DEF Handle, Expected
  <2>9. CASE Route[r] = "none"
    BY <2>5, <2>6, <2>9 DEF Handle
  <2> QED
    BY <2>6, <2>7, <2>8, <2>9
<1>2. Init => IInv
  BY InitIInv
<1>3. IInv /\ [Next]_vars => IInv'
  BY StepIInv
<1>4. IInv /\ [Next]_vars => [Whole]_vars
  BY <1>1
<1> HIDE DEF Whole
<1>5. Spec => [][Whole]_vars
  BY <1>2, <1>3, <1>4, PTL DEF Spec
<1> QED
  BY <1>5 DEF WholeRequestsRun, Whole

=============================================================================
