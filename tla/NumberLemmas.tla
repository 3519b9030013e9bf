---------------------------- MODULE NumberLemmas ----------------------------
(* Every nonempty set of natural numbers has a least member: what a scan    *)
(* for the first match of something finds.                                  *)
EXTENDS Naturals, TLAPS, WellFoundedInduction

Less == {p \in Nat \X Nat : p[1] < p[2]}

LEMMA LessWellFounded == IsWellFoundedOn(Less, Nat)
BY NatLessThanWellFounded DEF OpToRel, Less

LEMMA LeastNumber ==
  ASSUME NEW S, S \subseteq Nat, S # {}
  PROVE  \E m \in S : \A n \in S : m <= n
<1>1. PICK m \in S : \A n \in S : ~ (<<n, m>> \in Less)
  BY LessWellFounded, WFMin
<1>2. ASSUME NEW n \in S PROVE m <= n
  <2>1. m \in Nat /\ n \in Nat /\ ~ (<<n, m>> \in Less)
    BY <1>1
  <2> QED
    BY <2>1 DEF Less
<1> QED
  BY <1>2

\* The choice of a least member.
LEMMA LeastChosen ==
  ASSUME NEW S, S \subseteq Nat, S # {}
  PROVE  /\ (CHOOSE m \in S : \A n \in S : m <= n) \in S
         /\ \A n \in S : (CHOOSE m \in S : \A q \in S : m <= q) <= n
<1> DEFINE IsLeast(m) == \A n \in S : m <= n
<1>1. \E m \in S : IsLeast(m)
  BY LeastNumber
<1> HIDE DEF IsLeast
<1>2. (CHOOSE m \in S : IsLeast(m)) \in S /\ IsLeast(CHOOSE m \in S : IsLeast(m))
  BY <1>1, Zenon
<1> QED
  BY <1>2 DEF IsLeast

=============================================================================
