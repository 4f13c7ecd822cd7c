--------------------------- MODULE KeyValueProofs ---------------------------
(***************************************************************************)
(* What splitting a line into key and value preserves.                     *)
(***************************************************************************)
EXTENDS KeyValue, SequenceTheorems, TLAPS

(* A text without `=` is read as it is. *)
LEMMA ValuePlain ==
  ASSUME NEW C, "=" \notin C, NEW t \in Seq(C)
  PROVE  Value(t) = t
<1> DEFINE P(n) == /\ \A k \in 1..n : t[k] # "="
                   /\ n < Len(t) => t[n+1] = "="
<1>1. Len(t) \in Nat /\ \A k \in 1..Len(t) : t[k] # "="
  OBVIOUS
<1>2. Len(t) \in 0..Len(t) /\ P(Len(t))
  BY <1>1
<1>3. \A n \in 0..Len(t) : P(n) => n = Len(t)
  <2> SUFFICES ASSUME NEW n \in 0..Len(t), P(n), n # Len(t)
               PROVE  FALSE
    OBVIOUS
  <2>1. n + 1 \in 1..Len(t)
    BY <1>1
  <2> QED
    BY <1>1, <2>1
<1>4. (CHOOSE n \in 0..Len(t) : P(n)) = Len(t)
  <2> HIDE DEF P
  <2> QED
    BY <1>2, <1>3
<1>5. Value(t) = SubSeq(t, 1, Len(t))
  BY <1>4 DEF Value
<1> QED
  BY <1>5

=============================================================================
