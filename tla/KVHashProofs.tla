---------------------------- MODULE KVHashProofs ----------------------------
(***************************************************************************)
(* For every finite or infinite set of keys, every hash function and every *)
(* number of slots: the chains of hash.cpp stay well formed, the element   *)
(* counter stays exact, and the commands implement the dictionary KVMap.   *)
(***************************************************************************)
EXTENDS KVHash, TLAPS, SequenceTheorems, FiniteSetTheorems

(* The inductive invariant: the three invariants need one another.  A       *)
(* lookup stops at the first match of one chain, so it finds the node that  *)
(* is there only if ChainsOK holds; the counter changes by one with the set *)
(* of stored keys only if a key has at most one node.                       *)
IInv == HTypeOK /\ ChainsOK /\ CountExact

-----------------------------------------------------------------------------
(* Sequences *)

\* What linking a node at the head of a chain yields.
LEMMA ConsProperties ==
  ASSUME NEW S, NEW e \in S, NEW c \in Seq(S)
  PROVE  /\ <<e>> \o c \in Seq(S)
         /\ Len(<<e>> \o c) = Len(c) + 1
         /\ (<<e>> \o c)[1] = e
         /\ \A i \in 2 .. Len(c) + 1 : (<<e>> \o c)[i] = c[i - 1]
<1>1. <<e>> \in Seq(S) /\ Len(<<e>>) = 1 /\ <<e>>[1] = e
  OBVIOUS
<1>2. /\ <<e>> \o c \in Seq(S)
      /\ Len(<<e>> \o c) = Len(<<e>>) + Len(c)
      /\ \A i \in 1 .. Len(<<e>>) + Len(c) :
           (<<e>> \o c)[i] = IF i <= Len(<<e>>) THEN <<e>>[i] ELSE c[i - Len(<<e>>)]
  BY <1>1, ConcatProperties, Zenon
<1>3. Len(c) \in Nat
  OBVIOUS
<1> QED
  BY <1>1, <1>2, <1>3

\* What unlinking the i-th node of a chain yields.
LEMMA RemoveAtProperties ==
  ASSUME NEW S, NEW c \in Seq(S), NEW i \in 1 .. Len(c)
  PROVE  /\ RemoveAt(c, i) \in Seq(S)
         /\ Len(RemoveAt(c, i)) = Len(c) - 1
         /\ \A j \in 1 .. Len(c) - 1 :
              RemoveAt(c, i)[j] = IF j < i THEN c[j] ELSE c[j + 1]
<1> DEFINE a == SubSeq(c, 1, i - 1)
           b == SubSeq(c, i + 1, Len(c))
<1>1. Len(c) \in Nat /\ i \in Int /\ 1 <= i /\ i <= Len(c) /\ i - 1 \in Int /\ i + 1 \in Int
  OBVIOUS
<1>2. /\ \A j \in 1 .. i - 1 : c[j] \in S
      /\ \A j \in i + 1 .. Len(c) : c[j] \in S
  BY <1>1
<1>3. /\ a \in Seq(S)
      /\ Len(a) = i - 1
      /\ \A j \in 1 .. i - 1 : a[j] = c[j]
  BY <1>1, <1>2, SubSeqProperties
<1>4. /\ b \in Seq(S)
      /\ Len(b) = Len(c) - i
      /\ \A j \in 1 .. Len(c) - i : b[j] = c[i + j]
  <2>1. /\ b \in Seq(S)
        /\ Len(b) = IF i + 1 <= Len(c) THEN Len(c) - (i + 1) + 1 ELSE 0
        /\ \A j \in 1 .. Len(c) - (i + 1) + 1 : b[j] = c[i + 1 + j - 1]
    BY <1>1, <1>2, SubSeqProperties
  <2> QED
    BY <2>1, <1>1
<1>5. RemoveAt(c, i) = a \o b
  BY DEF RemoveAt
<1> HIDE DEF a, b
<1>6. /\ a \o b \in Seq(S)
      /\ Len(a \o b) = Len(a) + Len(b)
      /\ \A j \in 1 .. Len(a) + Len(b) :
           (a \o b)[j] = IF j <= Len(a) THEN a[j] ELSE b[j - Len(a)]
  BY <1>3, <1>4, ConcatProperties, Zenon
<1> QED
  BY <1>1, <1>3, <1>4, <1>5, <1>6

-----------------------------------------------------------------------------
(* Lookups *)

\* A scan for the first match returns the only one.
LEMMA OnlyPlace ==
  ASSUME NEW P, NEW i \in Int, P = {i}
  PROVE  (CHOOSE p \in P : \A q \in P : p <= q) = i
  OBVIOUS

\* In chains without duplicates, a node with key k is the one a lookup of k
\* finds.  The second lemma says it of the next state.
LEMMA LookupFinds ==
  ASSUME nodes \in [Slot -> Seq(Node)], NoDuplicate, NEW k \in Key,
         NEW i \in DOMAIN nodes[Hash[k]], nodes[Hash[k]][i].key = k
  PROVE  Stored(k) /\ Place(k) = i /\ ValueOf(k) = nodes[Hash[k]][i].value
<1>1. nodes[Hash[k]] \in Seq(Node) /\ Hash[k] \in Slot
  BY HashAssumption
<1>2. Places(k) = {i}
  BY <1>1 DEF Places, NoDuplicate
<1>3. i \in Int
  BY <1>1
<1>4. Place(k) = i
  BY <1>2, <1>3, OnlyPlace DEF Place
<1> QED
  BY <1>2, <1>4, NullAssumption DEF Stored, ValueOf

LEMMA LookupFindsNext ==
  ASSUME nodes' \in [Slot -> Seq(Node)], NoDuplicate', NEW k \in Key,
         NEW i \in DOMAIN nodes'[Hash[k]], nodes'[Hash[k]][i].key = k
  PROVE  Stored(k)' /\ ValueOf(k)' = nodes'[Hash[k]][i].value
<1>1. nodes'[Hash[k]] \in Seq(Node) /\ Hash[k] \in Slot
  BY HashAssumption
<1>2. Places(k)' = {i}
  BY <1>1 DEF Places, NoDuplicate
<1>3. i \in Int
  BY <1>1
<1>4. Place(k)' = i
  BY <1>2, <1>3, OnlyPlace DEF Place
<1> QED
  BY <1>2, <1>4, NullAssumption DEF Stored, ValueOf

\* The converse: what a lookup finds is a node with that key.
LEMMA LookupIsNode ==
  ASSUME nodes \in [Slot -> Seq(Node)], NoDuplicate, NEW k \in Key, Stored(k)
  PROVE  /\ Place(k) \in 1 .. Len(nodes[Hash[k]])
         /\ nodes[Hash[k]][Place(k)].key = k
         /\ ValueOf(k) \in Value
<1>1. PICK i \in DOMAIN nodes[Hash[k]] : nodes[Hash[k]][i].key = k
  BY DEF Stored, Places
<1>2. Place(k) = i /\ ValueOf(k) = nodes[Hash[k]][i].value
  BY <1>1, LookupFinds
<1>3. nodes[Hash[k]] \in Seq(Node)
  BY HashAssumption
<1>4. nodes[Hash[k]][i] \in Node
  BY <1>3, <1>1
<1>5. nodes[Hash[k]][i].value \in Value
  BY <1>4 DEF Node
<1> QED
  BY <1>1, <1>2, <1>3, <1>5

\* The chain has the node m.
Holds(chain, m) == \E i \in DOMAIN chain : chain[i] = m

\* A step that leaves the nodes of key x in its chain, whatever it does to
\* their places, leaves what a lookup of x finds.
LEMMA SameNodesSameLookup ==
  ASSUME nodes \in [Slot -> Seq(Node)], NoDuplicate,
         nodes' \in [Slot -> Seq(Node)], NoDuplicate',
         NEW x \in Key,
         \A m \in Node : m.key = x => (Holds(nodes[Hash[x]], m) <=> Holds(nodes'[Hash[x]], m))
  PROVE  /\ Stored(x)' <=> Stored(x)
         /\ Stored(x) => ValueOf(x)' = ValueOf(x)
<1> DEFINE c == nodes[Hash[x]]
           d == nodes'[Hash[x]]
<1>1. c \in Seq(Node) /\ d \in Seq(Node)
  BY HashAssumption
<1>2. ASSUME NEW i \in DOMAIN c, c[i].key = x
      PROVE  Stored(x) /\ Stored(x)' /\ ValueOf(x)' = ValueOf(x)
  <2>1. c[i] \in Node
    BY <1>1
  <2>2. PICK j \in DOMAIN d : d[j] = c[i]
    BY <1>2, <2>1 DEF Holds
  <2>3. Stored(x) /\ ValueOf(x) = c[i].value
    BY <1>2, LookupFinds
  <2>4. Stored(x)' /\ ValueOf(x)' = d[j].value
    BY <1>2, <2>2, LookupFindsNext
  <2> QED
    BY <2>2, <2>3, <2>4
<1>3. ASSUME NEW j \in DOMAIN d, d[j].key = x
      PROVE  Stored(x)
  <2>1. d[j] \in Node
    BY <1>1
  <2>2. PICK i \in DOMAIN c : c[i] = d[j]
    BY <1>3, <2>1 DEF Holds
  <2> QED
    BY <1>2, <1>3, <2>2
<1> QED
  BY <1>2, <1>3, NullAssumption DEF Stored, Places

-----------------------------------------------------------------------------
(* The table's operations *)

\* A put of an absent key adds that key, with its value, and nothing else.
LEMMA PutNewEffect ==
  ASSUME nodes \in [Slot -> Seq(Node)], ChainsOK,
         NEW k \in Key, NEW v \in Value, ~Stored(k), PutNew(k, v)
  PROVE  /\ nodes' \in [Slot -> Seq(Node)]
         /\ ChainsOK'
         /\ \A x \in Key : Stored(x)' <=> x = k \/ Stored(x)
         /\ \A x \in Key : Stored(x)' => ValueOf(x)' = IF x = k THEN v ELSE ValueOf(x)
<1> DEFINE h == Hash[k]
           c == nodes[h]
           e == [key |-> k, value |-> v]
           d == <<e>> \o c
<1>1. h \in Slot /\ c \in Seq(Node) /\ e \in Node
  BY HashAssumption DEF Node
<1>2. nodes' = [nodes EXCEPT ![h] = d]
  BY DEF PutNew
<1>3. nodes'[h] = d /\ \A s \in Slot : s # h => nodes'[s] = nodes[s]
  BY <1>1, <1>2
<1> HIDE DEF c, e
<1>4. /\ d \in Seq(Node)
      /\ Len(d) = Len(c) + 1
      /\ d[1] = e
      /\ \A i \in 2 .. Len(c) + 1 : d[i] = c[i - 1]
  BY <1>1, ConsProperties
<1>5. nodes' \in [Slot -> Seq(Node)]
  BY <1>1, <1>2, <1>4
<1>6. \A i \in 1 .. Len(c) : c[i].key # k
  BY <1>1, NullAssumption DEF Stored, Places, c
<1> HIDE DEF d
<1>7. DOMAIN c = 1 .. Len(c) /\ DOMAIN d = 1 .. Len(c) + 1 /\ Len(c) \in Nat
  BY <1>1, <1>4
<1>8. e.key = k /\ e.value = v
  BY DEF e
<1>9. WellPlaced'
  <2> SUFFICES ASSUME NEW s \in Slot, NEW i \in DOMAIN nodes'[s]
               PROVE  Hash[nodes'[s][i].key] = s
    BY DEF WellPlaced
  <2>1. CASE s # h
    BY <1>3, <2>1 DEF ChainsOK, WellPlaced
  <2>2. CASE s = h /\ i = 1
    BY <1>3, <1>4, <1>8, <2>2
  <2>3. CASE s = h /\ i # 1
    <3>1. i \in 2 .. Len(c) + 1 /\ i - 1 \in DOMAIN c
      BY <1>3, <1>7, <2>3
    <3>2. nodes'[s][i] = c[i - 1]
      BY <1>3, <1>4, <2>3, <3>1
    <3> QED
      BY <3>1, <3>2, <2>3 DEF ChainsOK, WellPlaced, c
  <2> QED
    BY <2>1, <2>2, <2>3
<1>10. NoDuplicate'
  <2> SUFFICES ASSUME NEW s \in Slot, NEW i \in DOMAIN nodes'[s], NEW j \in DOMAIN nodes'[s],
                      nodes'[s][i].key = nodes'[s][j].key
               PROVE  i = j
    BY DEF NoDuplicate
  <2>1. CASE s # h
    BY <1>3, <2>1 DEF ChainsOK, NoDuplicate
  <2>2. CASE s = h
    <3>1. i \in 1 .. Len(c) + 1 /\ j \in 1 .. Len(c) + 1 /\ d[i].key = d[j].key
      BY <1>3, <1>7, <2>2
    <3>2. \A m \in 2 .. Len(c) + 1 : m - 1 \in 1 .. Len(c) /\ d[m] = c[m - 1] /\ d[m].key # k
      BY <1>4, <1>6, <1>7
    <3>3. CASE i = 1 \/ j = 1
      BY <1>4, <1>7, <1>8, <3>1, <3>2, <3>3
    <3>4. CASE i # 1 /\ j # 1
      <4>1. i - 1 = j - 1
        BY <1>1, <1>7, <3>1, <3>2, <3>4 DEF ChainsOK, NoDuplicate, c
      <4> QED
        BY <4>1, <3>1, <1>7
    <3> QED
      BY <3>3, <3>4
  <2> QED
    BY <2>1, <2>2
<1>11. Stored(k)' /\ ValueOf(k)' = v
  <2>1. 1 \in DOMAIN nodes'[Hash[k]] /\ nodes'[Hash[k]][1] = e
    BY <1>3, <1>4, <1>7
  <2> QED
    BY <2>1, <1>5, <1>8, <1>10, LookupFindsNext
<1>12. ASSUME NEW x \in Key, x # k
       PROVE  /\ Stored(x)' <=> Stored(x)
              /\ Stored(x) => ValueOf(x)' = ValueOf(x)
  <2>1. Hash[x] \in Slot
    BY HashAssumption
  <2>2. SUFFICES ASSUME NEW m \in Node, m.key = x, Hash[x] = h
                 PROVE  Holds(c, m) <=> Holds(d, m)
    BY <1>3, <1>5, <1>10, <2>1, SameNodesSameLookup DEF ChainsOK, c
  <2>3. ASSUME NEW i \in DOMAIN c, c[i] = m
        PROVE  Holds(d, m)
    <3>1. i + 1 \in DOMAIN d /\ d[i + 1] = m
      BY <1>4, <1>7, <2>3
    <3> QED
      BY <3>1 DEF Holds
  <2>4. ASSUME NEW i \in DOMAIN d, d[i] = m
        PROVE  Holds(c, m)
    <3>1. i \in 2 .. Len(c) + 1
      BY <1>4, <1>7, <1>8, <1>12, <2>2, <2>4
    <3>2. i - 1 \in DOMAIN c /\ c[i - 1] = m
      BY <1>4, <1>7, <2>4, <3>1
    <3> QED
      BY <3>2 DEF Holds
  <2> QED
    BY <2>3, <2>4 DEF Holds
<1> QED
  BY <1>5, <1>9, <1>10, <1>11, <1>12 DEF ChainsOK

\* A delete of a stored key takes that key out and nothing else, wherever its
\* node is in the chain.
LEMMA UnlinkEffect ==
  ASSUME nodes \in [Slot -> Seq(Node)], ChainsOK,
         NEW k \in Key, Stored(k), Unlink(k)
  PROVE  /\ nodes' \in [Slot -> Seq(Node)]
         /\ ChainsOK'
         /\ \A x \in Key : Stored(x)' <=> x # k /\ Stored(x)
         /\ \A x \in Key : Stored(x)' => ValueOf(x)' = ValueOf(x)
<1> DEFINE h == Hash[k]
           c == nodes[h]
           p == Place(k)
           d == RemoveAt(c, p)
<1>1. h \in Slot /\ c \in Seq(Node)
  BY HashAssumption
<1>2. p \in 1 .. Len(c) /\ c[p].key = k
  BY LookupIsNode DEF ChainsOK
<1>3. nodes' = [nodes EXCEPT ![h] = d]
  BY DEF Unlink
<1>4. nodes'[h] = d /\ \A s \in Slot : s # h => nodes'[s] = nodes[s]
  BY <1>1, <1>3
<1> HIDE DEF c, p
<1>5. /\ d \in Seq(Node)
      /\ Len(d) = Len(c) - 1
      /\ \A j \in 1 .. Len(c) - 1 : d[j] = IF j < p THEN c[j] ELSE c[j + 1]
  BY <1>1, <1>2, RemoveAtProperties
<1>6. nodes' \in [Slot -> Seq(Node)]
  BY <1>1, <1>3, <1>5
<1> HIDE DEF d
<1>7. DOMAIN c = 1 .. Len(c) /\ DOMAIN d = 1 .. Len(c) - 1 /\ Len(c) \in Nat
  BY <1>1, <1>5
<1>8. \A i, j \in DOMAIN c : c[i].key = c[j].key => i = j
  BY <1>1 DEF ChainsOK, NoDuplicate, c
\* The places of d are those of c without p.
<1>9. \A j \in DOMAIN d : \E i \in DOMAIN c : i # p /\ d[j] = c[i] /\ j = IF i < p THEN i ELSE i - 1
  <2> SUFFICES ASSUME NEW j \in DOMAIN d
               PROVE  \E i \in DOMAIN c : i # p /\ d[j] = c[i] /\ j = IF i < p THEN i ELSE i - 1
    OBVIOUS
  <2>1. CASE j < p
    BY <1>2, <1>5, <1>7, <2>1
  <2>2. CASE ~ (j < p)
    <3>1. j + 1 \in DOMAIN c /\ j + 1 # p /\ ~ (j + 1 < p) /\ j = j + 1 - 1 /\ d[j] = c[j + 1]
      BY <1>2, <1>5, <1>7, <2>2
    <3> QED
      BY <3>1
  <2> QED
    BY <2>1, <2>2
<1>10. \A i \in DOMAIN c : i # p => \E j \in DOMAIN d : d[j] = c[i]
  <2> SUFFICES ASSUME NEW i \in DOMAIN c, i # p
               PROVE  \E j \in DOMAIN d : d[j] = c[i]
    OBVIOUS
  <2>1. CASE i < p
    BY <1>2, <1>5, <1>7, <2>1
  <2>2. CASE ~ (i < p)
    <3>1. i - 1 \in DOMAIN d /\ d[i - 1] = c[i]
      BY <1>2, <1>5, <1>7, <2>2
    <3> QED
      BY <3>1
  <2> QED
    BY <2>1, <2>2
<1>11. WellPlaced'
  <2> SUFFICES ASSUME NEW s \in Slot, NEW j \in DOMAIN nodes'[s]
               PROVE  Hash[nodes'[s][j].key] = s
    BY DEF WellPlaced
  <2>1. CASE s # h
    BY <1>4, <2>1 DEF ChainsOK, WellPlaced
  <2>2. CASE s = h
    <3>1. PICK i \in DOMAIN c : d[j] = c[i]
      BY <1>4, <1>9, <2>2
    <3> QED
      BY <1>4, <2>2, <3>1 DEF ChainsOK, WellPlaced, c
  <2> QED
    BY <2>1, <2>2
<1>12. NoDuplicate'
  <2> SUFFICES ASSUME NEW s \in Slot, NEW i \in DOMAIN nodes'[s], NEW j \in DOMAIN nodes'[s],
                      nodes'[s][i].key = nodes'[s][j].key
               PROVE  i = j
    BY DEF NoDuplicate
  <2>1. CASE s # h
    BY <1>4, <2>1 DEF ChainsOK, NoDuplicate
  <2>2. CASE s = h
    <3>1. PICK a \in DOMAIN c : d[i] = c[a] /\ i = IF a < p THEN a ELSE a - 1
      BY <1>4, <1>9, <2>2
    <3>2. PICK b \in DOMAIN c : d[j] = c[b] /\ j = IF b < p THEN b ELSE b - 1
      BY <1>4, <1>9, <2>2
    <3>3. a = b
      BY <1>4, <1>8, <2>2, <3>1, <3>2
    <3> QED
      BY <3>1, <3>2, <3>3
  <2> QED
    BY <2>1, <2>2
<1>13. ~Stored(k)'
  <2> SUFFICES ASSUME NEW j \in DOMAIN d, d[j].key = k
               PROVE  FALSE
    BY <1>4 DEF Stored, Places
  <2>1. PICK i \in DOMAIN c : i # p /\ d[j] = c[i]
    BY <1>9
  <2> QED
    BY <1>2, <1>7, <1>8, <2>1
<1>14. ASSUME NEW x \in Key, x # k
       PROVE  /\ Stored(x)' <=> Stored(x)
              /\ Stored(x) => ValueOf(x)' = ValueOf(x)
  <2>1. Hash[x] \in Slot
    BY HashAssumption
  <2>2. SUFFICES ASSUME NEW m \in Node, m.key = x, Hash[x] = h
                 PROVE  Holds(c, m) <=> Holds(d, m)
    BY <1>4, <1>6, <1>12, <2>1, SameNodesSameLookup DEF ChainsOK, c
  <2> QED
    BY <1>2, <1>9, <1>10, <1>14, <2>2 DEF Holds
<1> QED
  BY <1>6, <1>11, <1>12, <1>13, <1>14 DEF ChainsOK

\* A modify of a stored key changes the value of that key and nothing else.
LEMMA OverwriteEffect ==
  ASSUME nodes \in [Slot -> Seq(Node)], ChainsOK,
         NEW k \in Key, NEW v \in Value, Stored(k), Overwrite(k, v)
  PROVE  /\ nodes' \in [Slot -> Seq(Node)]
         /\ ChainsOK'
         /\ \A x \in Key : Stored(x)' <=> Stored(x)
         /\ \A x \in Key : Stored(x)' => ValueOf(x)' = IF x = k THEN v ELSE ValueOf(x)
<1> DEFINE h == Hash[k]
           c == nodes[h]
           p == Place(k)
           d == [c EXCEPT ![p].value = v]
<1>1. h \in Slot /\ c \in Seq(Node)
  BY HashAssumption
<1>2. p \in 1 .. Len(c) /\ c[p].key = k
  BY LookupIsNode DEF ChainsOK
<1>3. nodes' = [nodes EXCEPT ![h] = d]
  BY DEF Overwrite
<1>4. nodes'[h] = d /\ \A s \in Slot : s # h => nodes'[s] = nodes[s]
  BY <1>1, <1>3
<1>5. Len(c) \in Nat /\ c \in [1 .. Len(c) -> Node]
  BY <1>1
<1> HIDE DEF c, p
<1>6. /\ d \in [1 .. Len(c) -> Node]
      /\ \A i \in 1 .. Len(c) : d[i].key = c[i].key
      /\ \A i \in 1 .. Len(c) : i # p => d[i] = c[i]
      /\ d[p].value = v
  BY <1>2, <1>5 DEF Node
<1>7. d \in Seq(Node) /\ DOMAIN c = 1 .. Len(c) /\ DOMAIN d = 1 .. Len(c)
  BY <1>5, <1>6
<1>8. nodes' \in [Slot -> Seq(Node)]
  BY <1>1, <1>3, <1>7
<1> HIDE DEF d
<1>9. ChainsOK'
  <2>1. ASSUME NEW s \in Slot
        PROVE  /\ DOMAIN nodes'[s] = DOMAIN nodes[s]
               /\ \A i \in DOMAIN nodes[s] : nodes'[s][i].key = nodes[s][i].key
    <3>1. CASE s = h
      BY <1>4, <1>6, <1>7, <3>1 DEF c
    <3>2. CASE s # h
      BY <1>4, <3>2
    <3> QED
      BY <3>1, <3>2
  <2>2. WellPlaced'
    BY <2>1 DEF ChainsOK, WellPlaced
  <2>3. NoDuplicate'
    BY <2>1 DEF ChainsOK, NoDuplicate
  <2> QED
    BY <2>2, <2>3 DEF ChainsOK
<1>10. Stored(k)' /\ ValueOf(k)' = v
  <2>1. p \in DOMAIN nodes'[Hash[k]] /\ nodes'[Hash[k]][p].key = k
    BY <1>2, <1>4, <1>6, <1>7
  <2> QED
    BY <2>1, <1>4, <1>6, <1>8, <1>9, LookupFindsNext DEF ChainsOK
<1>11. ASSUME NEW x \in Key, x # k
       PROVE  /\ Stored(x)' <=> Stored(x)
              /\ Stored(x) => ValueOf(x)' = ValueOf(x)
  <2>1. Hash[x] \in Slot
    BY HashAssumption
  <2>2. SUFFICES ASSUME NEW m \in Node, m.key = x, Hash[x] = h
                 PROVE  Holds(c, m) <=> Holds(d, m)
    BY <1>4, <1>8, <1>9, <2>1, SameNodesSameLookup DEF ChainsOK, c
  <2> QED
    BY <1>2, <1>6, <1>7, <1>11, <2>2 DEF Holds
<1> QED
  BY <1>8, <1>9, <1>10, <1>11

-----------------------------------------------------------------------------
(* The commands *)

\* The effects of the three table operations, as the set of stored keys and
\* the counter see them.
LEMMA StoredKeysChange ==
  ASSUME IInv, NEW k \in Key, NEW v \in Value
  PROVE  /\ ~Stored(k) /\ PutNew(k, v) =>
              StoredKeys' = StoredKeys \cup {k} /\ count' = Cardinality(StoredKeys')
         /\ Stored(k) /\ Unlink(k) =>
              StoredKeys' = StoredKeys \ {k} /\ count' = Cardinality(StoredKeys')
         /\ Stored(k) /\ Overwrite(k, v) =>
              StoredKeys' = StoredKeys /\ count' = Cardinality(StoredKeys')
<1> USE DEF IInv, HTypeOK
<1>1. IsFiniteSet(StoredKeys) /\ count = Cardinality(StoredKeys) /\ count \in Nat
  BY FS_CardinalityType DEF CountExact
<1>2. ASSUME ~Stored(k), PutNew(k, v)
      PROVE  StoredKeys' = StoredKeys \cup {k} /\ count' = Cardinality(StoredKeys')
  <2>1. StoredKeys' = StoredKeys \cup {k}
    BY <1>2, PutNewEffect DEF StoredKeys
  <2>2. k \notin StoredKeys
    BY <1>2 DEF StoredKeys
  <2> QED
    BY <1>1, <1>2, <2>1, <2>2, FS_AddElement DEF PutNew
<1>3. ASSUME Stored(k), Unlink(k)
      PROVE  StoredKeys' = StoredKeys \ {k} /\ count' = Cardinality(StoredKeys')
  <2>1. StoredKeys' = StoredKeys \ {k}
    BY <1>3, UnlinkEffect DEF StoredKeys
  <2>2. k \in StoredKeys
    BY <1>3 DEF StoredKeys
  <2> QED
    BY <1>1, <1>3, <2>1, <2>2, FS_RemoveElement DEF Unlink
<1>4. ASSUME Stored(k), Overwrite(k, v)
      PROVE  StoredKeys' = StoredKeys /\ count' = Cardinality(StoredKeys')
  <2>1. StoredKeys' = StoredKeys
    BY <1>4, OverwriteEffect DEF StoredKeys
  <2> QED
    BY <1>1, <1>4, <2>1 DEF Overwrite
<1> QED
  BY <1>2, <1>3, <1>4

\* Finiteness goes with the counter.
LEMMA StoredKeysFinite ==
  ASSUME IsFiniteSet(StoredKeys), NEW k,
         \/ StoredKeys' = StoredKeys \cup {k}
         \/ StoredKeys' = StoredKeys \ {k}
         \/ StoredKeys' = StoredKeys
  PROVE  IsFiniteSet(StoredKeys')
BY FS_AddElement, FS_RemoveElement

LEMMA TableUnchanged ==
  ASSUME IInv, UNCHANGED table, tokens' \in Commands, wmsg' \in Replies
  PROVE  IInv' /\ StoredKeys' = StoredKeys /\ Contents' = Contents
BY DEF IInv, HTypeOK, ChainsOK, WellPlaced, NoDuplicate, CountExact, StoredKeys,
       Contents, Stored, ValueOf, Place, Places, table

LEMMA InitIInv == HInit => IInv
<1> SUFFICES ASSUME HInit PROVE IInv
  OBVIOUS
<1>1. nodes = [s \in Slot |-> <<>>] /\ count = 0 /\ tokens = <<>> /\ wmsg = <<>>
  BY DEF HInit, EmptyTable
<1>2. HTypeOK
  BY <1>1 DEF HTypeOK, Commands, Replies
<1>3. ChainsOK
  BY <1>1 DEF ChainsOK, WellPlaced, NoDuplicate
<1>4. StoredKeys = {}
  BY <1>1, HashAssumption DEF StoredKeys, Stored, Places
<1> QED
  BY <1>1, <1>2, <1>3, <1>4, FS_EmptySet DEF IInv, CountExact

\* The reply a command leaves is one of the five words, a value or a count.
LEMMA ReplyTypes ==
  /\ {<<>>, <<"ERROR">>, <<"SUCCESS">>, <<"EXISTS">>, <<"NO EXIST">>} \subseteq Replies
  /\ \A v \in Value : <<"VALUE", v>> \in Replies
  /\ \A n \in Int : <<"COUNT", n>> \in Replies
  /\ {<<>>, <<"HCOUNT">>, <<"OTHER">>} \subseteq Commands
  /\ \A k \in Operand(Key) : <<"HGET", k>> \in Commands /\ <<"HDEL", k>> \in Commands
  /\ \A k \in Operand(Key), v \in Operand(Value) :
       <<"HSET", k, v>> \in Commands /\ <<"HMOD", k, v>> \in Commands
BY DEF Replies, Commands, Operand

\* What a step of the table does to the dictionary, which is all KVMap sees.
LEMMA PutNewSimulates ==
  ASSUME IInv, NEW k \in Key, NEW v \in Value, ~Stored(k), PutNew(k, v),
         tokens' \in Commands, wmsg' \in Replies
  PROVE  IInv' /\ k \notin DOMAIN Contents /\ Contents' = Map!With(k, v)
<1>1. StoredKeys' = StoredKeys \cup {k} /\ count' = Cardinality(StoredKeys')
  BY StoredKeysChange
<1>2. /\ nodes' \in [Slot -> Seq(Node)]
      /\ ChainsOK'
      /\ \A x \in Key : Stored(x)' => ValueOf(x)' = IF x = k THEN v ELSE ValueOf(x)
  BY PutNewEffect DEF IInv, HTypeOK
<1>3. count' \in Int /\ IsFiniteSet(StoredKeys')
  <2>1. count' \in Int
    BY DEF IInv, HTypeOK, PutNew
  <2>2. IsFiniteSet(StoredKeys)
    BY DEF IInv, CountExact
  <2> QED
    BY <1>1, <2>1, <2>2, StoredKeysFinite
<1>4. IInv'
  BY <1>1, <1>2, <1>3 DEF IInv, HTypeOK, CountExact
<1>5. k \notin DOMAIN Contents
  BY DEF Contents, StoredKeys
<1>6. Contents' = [x \in StoredKeys \cup {k} |-> IF x = k THEN v ELSE ValueOf(x)]
  BY <1>1, <1>2 DEF Contents, StoredKeys
<1> QED
  BY <1>4, <1>5, <1>6 DEF Contents, Map!With

LEMMA UnlinkSimulates ==
  ASSUME IInv, NEW k \in Key, Stored(k), Unlink(k), tokens' \in Commands, wmsg' \in Replies
  PROVE  IInv' /\ k \in DOMAIN Contents /\ Contents' = Map!Without(k)
<1>1. StoredKeys' = StoredKeys \ {k} /\ count' = Cardinality(StoredKeys')
  <2>1. \E v \in Value : TRUE
    BY LookupIsNode DEF IInv, HTypeOK, ChainsOK
  <2> QED
    BY <2>1, StoredKeysChange
<1>2. /\ nodes' \in [Slot -> Seq(Node)]
      /\ ChainsOK'
      /\ \A x \in Key : Stored(x)' => ValueOf(x)' = ValueOf(x)
  BY UnlinkEffect DEF IInv, HTypeOK
<1>3. count' \in Int /\ IsFiniteSet(StoredKeys')
  <2>1. count' \in Int
    BY DEF IInv, HTypeOK, Unlink
  <2>2. IsFiniteSet(StoredKeys)
    BY DEF IInv, CountExact
  <2> QED
    BY <1>1, <2>1, <2>2, StoredKeysFinite
<1>4. IInv'
  BY <1>1, <1>2, <1>3 DEF IInv, HTypeOK, CountExact
<1>5. k \in DOMAIN Contents
  BY DEF Contents, StoredKeys
<1>6. Contents' = [x \in StoredKeys \ {k} |-> ValueOf(x)]
  BY <1>1, <1>2 DEF Contents, StoredKeys
<1> QED
  BY <1>4, <1>5, <1>6 DEF Contents, Map!Without

LEMMA OverwriteSimulates ==
  ASSUME IInv, NEW k \in Key, NEW v \in Value, Stored(k), Overwrite(k, v),
         tokens' \in Commands, wmsg' \in Replies
  PROVE  IInv' /\ k \in DOMAIN Contents /\ Contents' = Map!With(k, v)
<1>1. StoredKeys' = StoredKeys /\ count' = Cardinality(StoredKeys')
  BY StoredKeysChange
<1>2. /\ nodes' \in [Slot -> Seq(Node)]
      /\ ChainsOK'
      /\ \A x \in Key : Stored(x)' => ValueOf(x)' = IF x = k THEN v ELSE ValueOf(x)
  BY OverwriteEffect DEF IInv, HTypeOK
<1>3. count' \in Int /\ IsFiniteSet(StoredKeys')
  BY <1>1 DEF IInv, HTypeOK, CountExact, Overwrite
<1>4. IInv'
  BY <1>1, <1>2, <1>3 DEF IInv, HTypeOK, CountExact
<1>5. k \in DOMAIN Contents
  BY DEF Contents, StoredKeys
<1>6. Contents' = [x \in StoredKeys |-> IF x = k THEN v ELSE ValueOf(x)]
  BY <1>1, <1>2 DEF Contents, StoredKeys
<1>7. StoredKeys \cup {k} = StoredKeys
  BY DEF StoredKeys
<1> QED
  BY <1>4, <1>5, <1>6, <1>7 DEF Contents, Map!With

LEMMA SetStep ==
  ASSUME IInv, NEW k \in Operand(Key), NEW v \in Operand(Value), Hset(k, v)
  PROVE  IInv' /\ Map!Hset(k, v)
<1>1. tokens' = <<"HSET", k, v>> /\ tokens' \in Commands
  BY ReplyTypes DEF Hset
<1>2. wmsg' \in Replies
  BY ReplyTypes DEF Hset, ReplyOnly
<1>3. CASE NULL \in {k, v} /\ ReplyOnly(<<"ERROR">>)
  BY <1>1, <1>2, <1>3, TableUnchanged DEF ReplyOnly, Map!Hset, Map!Reply
<1>4. CASE NULL \notin {k, v} /\ Stored(k) /\ ReplyOnly(<<"EXISTS">>)
  <2>1. k \in DOMAIN Contents
    BY <1>4 DEF Contents, StoredKeys, Operand
  <2> QED
    BY <1>1, <1>2, <1>4, <2>1, TableUnchanged DEF ReplyOnly, Map!Hset, Map!Reply
<1>5. CASE NULL \notin {k, v} /\ ~Stored(k) /\ PutNew(k, v) /\ wmsg' = <<"SUCCESS">>
  <2>1. k \in Key /\ v \in Value
    BY <1>5 DEF Operand
  <2> QED
    BY <1>1, <1>2, <1>5, <2>1, PutNewSimulates DEF Map!Hset, Map!Reply
<1> QED
  BY <1>3, <1>4, <1>5 DEF Hset

LEMMA ModStep ==
  ASSUME IInv, NEW k \in Operand(Key), NEW v \in Operand(Value), Hmod(k, v)
  PROVE  IInv' /\ Map!Hmod(k, v)
<1>1. tokens' = <<"HMOD", k, v>> /\ tokens' \in Commands
  BY ReplyTypes DEF Hmod
<1>2. wmsg' \in Replies
  BY ReplyTypes DEF Hmod, ReplyOnly
<1>3. CASE Stored(k) /\ v # NULL /\ Overwrite(k, v) /\ wmsg' = <<"SUCCESS">>
  <2>1. k \in Key /\ v \in Value
    BY <1>3 DEF Operand, Stored
  <2> QED
    BY <1>1, <1>2, <1>3, <2>1, OverwriteSimulates DEF Map!Hmod, Map!Reply
<1>4. CASE (~Stored(k) \/ v = NULL) /\ ReplyOnly(<<"ERROR">>)
  <2>1. k \notin DOMAIN Contents \/ v = NULL
    BY <1>4 DEF Contents, StoredKeys
  <2> QED
    BY <1>1, <1>2, <1>4, <2>1, TableUnchanged DEF ReplyOnly, Map!Hmod, Map!Reply
<1> QED
  BY <1>3, <1>4 DEF Hmod

LEMMA DelStep ==
  ASSUME IInv, NEW k \in Operand(Key), Hdel(k)
  PROVE  IInv' /\ Map!Hdel(k)
<1>1. tokens' = <<"HDEL", k>> /\ tokens' \in Commands
  BY ReplyTypes DEF Hdel
<1>2. wmsg' \in Replies
  BY ReplyTypes DEF Hdel, ReplyOnly
<1>3. CASE Stored(k) /\ Unlink(k) /\ wmsg' = <<"SUCCESS">>
  <2>1. k \in Key
    BY <1>3 DEF Operand, Stored
  <2> QED
    BY <1>1, <1>2, <1>3, <2>1, UnlinkSimulates DEF Map!Hdel, Map!Reply
<1>4. CASE ~Stored(k) /\ ReplyOnly(<<"ERROR">>)
  <2>1. k \notin DOMAIN Contents
    BY <1>4 DEF Contents, StoredKeys
  <2> QED
    BY <1>1, <1>2, <1>4, <2>1, TableUnchanged DEF ReplyOnly, Map!Hdel, Map!Reply
<1> QED
  BY <1>3, <1>4 DEF Hdel

LEMMA GetStep ==
  ASSUME IInv, NEW k \in Operand(Key), Hget(k)
  PROVE  IInv' /\ Map!Hget(k)
<1>1. tokens' = <<"HGET", k>> /\ tokens' \in Commands
  BY ReplyTypes DEF Hget
<1>2. CASE Stored(k) /\ ReplyOnly(<<"VALUE", Fit[ValueOf(k)]>>)
  <2>1. k \in Key
    BY <1>2 DEF Operand, Stored
  <2>2. wmsg' \in Replies
    BY <1>2, <2>1, FitAssumption, LookupIsNode, ReplyTypes DEF ReplyOnly, IInv, HTypeOK, ChainsOK
  <2>3. k \in DOMAIN Contents /\ Contents[k] = ValueOf(k)
    BY <1>2, <2>1 DEF Contents, StoredKeys
  <2> QED
    BY <1>1, <1>2, <2>2, <2>3, TableUnchanged DEF ReplyOnly, Map!Hget, Map!Reply
<1>3. CASE ~Stored(k) /\ ReplyOnly(<<"NO EXIST">>)
  <2>1. k \notin DOMAIN Contents /\ wmsg' \in Replies
    BY <1>3, ReplyTypes DEF Contents, StoredKeys, ReplyOnly
  <2> QED
    BY <1>1, <1>3, <2>1, TableUnchanged DEF ReplyOnly, Map!Hget, Map!Reply
<1> QED
  BY <1>2, <1>3 DEF Hget

\* The instance of KVMap has its own copy of the cardinality operator.
LEMMA SameCardinality == \A S : Map!Cardinality(S) = Cardinality(S)
BY Zenon DEF Map!Cardinality, Cardinality, Map!IsFiniteSet, IsFiniteSet

LEMMA CountStep ==
  ASSUME IInv, Hcount
  PROVE  IInv' /\ Map!Hcount
<1>1. count = Cardinality(DOMAIN Contents) /\ count \in Nat /\ ~ (count < 0)
  BY FS_CardinalityType DEF IInv, CountExact, Contents
<1>2. tokens' = <<"HCOUNT">> /\ tokens' \in Commands
  BY ReplyTypes DEF Hcount
<1>3. ReplyOnly(<<"COUNT", count>>) /\ wmsg' \in Replies
  <2>1. ReplyOnly(<<"COUNT", count>>)
    BY <1>1, Zenon DEF Hcount
  <2>2. <<"COUNT", count>> \in Replies
    BY ReplyTypes DEF IInv, HTypeOK
  <2> QED
    BY <2>1, <2>2 DEF ReplyOnly
<1>4. IInv' /\ Contents' = Contents /\ wmsg' = <<"COUNT", Map!Cardinality(DOMAIN Contents)>>
  BY <1>1, <1>2, <1>3, TableUnchanged, SameCardinality DEF ReplyOnly
<1> QED
  BY <1>2, <1>4 DEF Map!Hcount, Map!Reply

LEMMA OtherStep ==
  ASSUME IInv, OtherCommand \/ EmptyMessage
  PROVE  IInv' /\ (Map!OtherCommand \/ Map!EmptyMessage)
<1>1. UNCHANGED table /\ tokens' \in Commands /\ wmsg' \in Replies
  BY ReplyTypes DEF OtherCommand, EmptyMessage, ReplyOnly, table, IInv, HTypeOK
<1> QED
  BY <1>1, TableUnchanged DEF OtherCommand, EmptyMessage, ReplyOnly,
     Map!OtherCommand, Map!EmptyMessage, Map!Reply

-----------------------------------------------------------------------------
(* Theorems *)

\* Every step of the engine keeps the invariant and is a step of KVMap.
LEMMA Step ==
  ASSUME IInv, [Command]_hvars
  PROVE  IInv' /\ [Map!Next]_(Map!vars)
<1>1. CASE UNCHANGED hvars
  <2>1. UNCHANGED table /\ tokens' \in Commands /\ wmsg' \in Replies
    BY <1>1 DEF hvars, table, IInv, HTypeOK
  <2> QED
    BY <1>1, <2>1, TableUnchanged DEF hvars, Map!vars
<1>2. ASSUME NEW k \in Operand(Key), NEW v \in Operand(Value), Hset(k, v) \/ Hmod(k, v)
      PROVE  IInv' /\ Map!Next
  BY <1>2, SetStep, ModStep DEF Map!Next, Map!Operand, Operand
<1>3. ASSUME NEW k \in Operand(Key), Hget(k) \/ Hdel(k)
      PROVE  IInv' /\ Map!Next
  BY <1>3, GetStep, DelStep DEF Map!Next, Map!Operand, Operand
<1>4. ASSUME Hcount \/ OtherCommand \/ EmptyMessage
      PROVE  IInv' /\ Map!Next
  BY <1>4, CountStep, OtherStep DEF Map!Next
<1> QED
  BY <1>1, <1>2, <1>3, <1>4 DEF Command

LEMMA IInvAlways == HSpec => []IInv
<1>1. HInit => IInv
  BY InitIInv
<1>2. IInv /\ [Command]_hvars => IInv'
  BY Step
<1> QED
  BY <1>1, <1>2, PTL DEF HSpec

\* The variables of the hash table keep their types and each chain stays a list
\* of nodes, under any sequence of the commands of kvstore.cpp.
THEOREM TypeCorrect == HSpec => []HTypeOK
<1>1. IInv => HTypeOK
  BY DEF IInv
<1> QED
  BY <1>1, IInvAlways, PTL

\* Whatever the keys, their hashes and the commands, each node is in the chain
\* of its key, and no chain holds a key twice.
THEOREM ChainsCorrect == HSpec => []ChainsOK
<1>1. IInv => ChainsOK
  BY DEF IInv
<1> QED
  BY <1>1, IInvAlways, PTL

\* hash->count, which HCOUNT answers and nothing recomputes, is the number of
\* keys that a lookup finds.
THEOREM CountCorrect == HSpec => []CountExact
<1>1. IInv => CountExact
  BY DEF IInv
<1> QED
  BY <1>1, IInvAlways, PTL

\* The chained table of hash.cpp and the replies of kvstore.cpp implement the
\* dictionary of KVMap, for every set of keys, hash function and table size.
THEOREM Implements == HSpec => ImplementsMap
<1>1. HInit => IInv /\ Map!Init
  <2>1. ASSUME HInit PROVE Map!Init
    <3>1. StoredKeys = {}
      BY <2>1, HashAssumption DEF HInit, EmptyTable, StoredKeys, Stored, Places
    <3> QED
      BY <2>1, <3>1 DEF HInit, Contents, Map!Init, Map!EmptyDict
  <2> QED
    BY <2>1, InitIInv
<1>2. IInv /\ [Command]_hvars => IInv' /\ [Map!Next]_(Map!vars)
  BY Step
<1> QED
  BY <1>1, <1>2, PTL DEF HSpec, ImplementsMap, Map!Spec

=============================================================================
