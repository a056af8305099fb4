------------------------------- MODULE TableLemmas ------------------------------
(***************************************************************************)
(* Facts about the sequences that stand for tables (a row's index is its   *)
(* id) and about sets of ids, for the proofs of every component.           *)
(***************************************************************************)
EXTENDS Naturals, Sequences, FiniteSetsExt, SequenceTheorems, WellFoundedInduction, TLAPS

\* Replacing one row of a table: its type, its length and its rows.
LEMMA PutRow ==
    ASSUME NEW S, NEW s \in Seq(S), NEW i \in DOMAIN s, NEW e \in S
    PROVE  LET r == [s EXCEPT ![i] = e] IN
           /\ r \in Seq(S) /\ Len(r) = Len(s) /\ DOMAIN r = DOMAIN s
           /\ r[i] = e
           /\ \A j \in DOMAIN s : j # i => r[j] = s[j]
  BY ExceptSeq, LenProperties

\* Adding a row at the end of a table.
LEMMA AddRow ==
    ASSUME NEW S, NEW s \in Seq(S), NEW e \in S
    PROVE  LET r == Append(s, e) IN
           /\ r \in Seq(S) /\ Len(r) = Len(s) + 1
           /\ DOMAIN r = DOMAIN s \cup {Len(s) + 1}
           /\ r[Len(s) + 1] = e
           /\ \A j \in DOMAIN s : r[j] = s[j]
<1>1. /\ Append(s, e) \in Seq(S) /\ Len(Append(s, e)) = Len(s) + 1
      /\ Append(s, e)[Len(s) + 1] = e
      /\ \A j \in 1..Len(s) : Append(s, e)[j] = s[j]
  BY AppendProperties
<1>2. Len(s) \in Nat /\ DOMAIN s = 1..Len(s)
  BY LenProperties
<1>3. DOMAIN Append(s, e) = 1..(Len(s) + 1)
  BY <1>1, LenProperties
<1>4. QED  BY <1>1, <1>2, <1>3

\* A set of ids has an oldest one.
LEMMA OldestExists ==
    ASSUME NEW S \in SUBSET Nat, S # {}
    PROVE  \E n \in S : \A m \in S : n <= m
<1> DEFINE R == {ss \in Nat \X Nat : ss[1] < ss[2]}
<1>1. IsWellFoundedOn(R, Nat)
  BY NatLessThanWellFounded DEF OpToRel
<1>2. PICK n \in S : \A m \in S : ~ (<<m, n>> \in R)
  <2> HIDE DEF R
  <2>1. QED  BY <1>1, WFMin
<1>3. ASSUME NEW m \in S  PROVE n <= m
  <2>1. m \in Nat /\ n \in Nat
    OBVIOUS
  <2>2. m < n => <<m, n>> \in R
    BY <2>1
  <2>3. QED  BY <1>2, <2>1, <2>2
<1>4. QED  BY <1>3

\* A bounded set of numbers has a greatest one, which Max picks.
LEMMA MaxPicks ==
    ASSUME NEW S \in SUBSET Nat, S # {}, NEW n \in Nat, \A m \in S : m <= n
    PROVE  Max(S) \in S /\ \A m \in S : m <= Max(S)
<1> DEFINE D == {n - m : m \in S}
<1>1. D \in SUBSET Nat /\ D # {}
  <2>1. \A m \in S : n - m \in Nat
    OBVIOUS
  <2> QED
    BY <2>1
<1>2. PICK d \in D : \A e \in D : d <= e
  BY <1>1, OldestExists
<1>3. PICK x \in S : d = n - x
  BY <1>2
<1>4. \A m \in S : x >= m
  <2>1. TAKE m \in S
  <2>2. n - m \in D
    OBVIOUS
  <2>3. n - x <= n - m
    BY <1>2, <1>3, <2>2
  <2> QED
    BY <2>3
<1> QED
  BY <1>4 DEF Max

\* Min picks a member of a set of numbers.
LEMMA MinPicks ==
    ASSUME NEW S \in SUBSET Nat, S # {}
    PROVE  Min(S) \in S
<1>1. PICK x \in S : \A m \in S : x <= m
  BY OldestExists
<1> QED
  BY <1>1 DEF Min

================================
