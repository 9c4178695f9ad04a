--------------------------- MODULE ChannelLemmas ----------------------------
(***************************************************************************)
(* What the sets that stand for bounded channels have in common.           *)
(***************************************************************************)
EXTENDS FiniteSetTheorems, TLAPS

\* A channel that loses elements stays within its capacity.
LEMMA Shrinks ==
  ASSUME NEW S, NEW T, IsFiniteSet(S), T \subseteq S, NEW cap \in Nat, Cardinality(S) <= cap
  PROVE  Cardinality(T) <= cap
<1>1. Cardinality(T) <= Cardinality(S) /\ IsFiniteSet(T)
  BY FS_Subset
<1>2. Cardinality(S) \in Nat /\ Cardinality(T) \in Nat
  BY <1>1, FS_CardinalityType
<1> QED
  BY <1>1, <1>2

\* A channel with room that receives one element stays within its capacity.
LEMMA GrowsByOne ==
  ASSUME NEW S, NEW T, NEW c, IsFiniteSet(S), T \subseteq S \cup {c},
         NEW cap \in Nat, Cardinality(S) < cap
  PROVE  Cardinality(T) <= cap
<1>1. /\ IsFiniteSet(S \cup {c})
      /\ Cardinality(S \cup {c}) = IF c \in S THEN Cardinality(S) ELSE Cardinality(S) + 1
  BY FS_AddElement
<1>2. Cardinality(S) \in Nat /\ Cardinality(S \cup {c}) \in Nat
  BY <1>1, FS_CardinalityType
<1>3. Cardinality(S \cup {c}) <= cap
  BY <1>1, <1>2
<1> QED
  BY <1>1, <1>3, Shrinks

=============================================================================
