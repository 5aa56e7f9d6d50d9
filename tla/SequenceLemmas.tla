---------------------------- MODULE SequenceLemmas ----------------------------
(***************************************************************************)
(* What appending to a sequence without repetitions, and removing its      *)
(* first or its last element, does to the set of its elements.             *)
(***************************************************************************)
EXTENDS Integers, Sequences, Functions, TLAPS

(* Removing the first element.                                             *)
LEMMA PopFirst ==
    ASSUME NEW S, NEW s \in Seq(S), s # <<>>, IsInjective(s)
    PROVE  /\ Tail(s) \in Seq(S)
           /\ IsInjective(Tail(s))
           /\ Head(s) \in S
           /\ Head(s) \in Range(s)
           /\ Range(Tail(s)) = Range(s) \ {Head(s)}
<1> DEFINE tail == Tail(s)
<1>1. Len(s) \in Nat /\ Len(s) > 0 /\ DOMAIN s = 1..Len(s)
  OBVIOUS
<1>2. tail \in Seq(S) /\ DOMAIN tail = 1..Len(s) - 1
  BY <1>1
<1>3. \A i \in 1..Len(s) - 1 : tail[i] = s[i + 1]
  BY <1>1
<1> HIDE DEF tail
<1>4. 1 \in DOMAIN s /\ Head(s) = s[1] /\ Head(s) \in S
  BY <1>1
<1>5. IsInjective(tail)
  <2>1. ASSUME NEW i \in 1..Len(s) - 1, NEW j \in 1..Len(s) - 1, tail[i] = tail[j]
        PROVE  i = j
    <3>1. \A n \in Nat : \A k \in 1..n - 1 : k + 1 \in 1..n
      OBVIOUS
    <3>2. i + 1 \in DOMAIN s /\ j + 1 \in DOMAIN s
      BY <1>1, <3>1
    <3>3. s[i + 1] = s[j + 1]
      BY <1>3, <2>1
    <3>4. i + 1 = j + 1
      BY <3>2, <3>3 DEF IsInjective
    <3> QED
      BY <3>4
  <2> QED
    BY <1>2, <2>1 DEF IsInjective
<1>6. ASSUME NEW e \in Range(tail) PROVE e \in Range(s) \ {Head(s)}
  <2>1. PICK i \in 1..Len(s) - 1 : e = tail[i]
    BY <1>2 DEF Range
  <2>2. \A n \in Nat : i \in 1..n - 1 => i + 1 \in 1..n /\ i + 1 # 1
    OBVIOUS
  <2>3. e = s[i + 1]
    BY <1>3, <2>1
  <2> QED
    BY <1>1, <1>4, <2>1, <2>2, <2>3 DEF IsInjective, Range
<1>7. ASSUME NEW e \in Range(s), e # Head(s) PROVE e \in Range(tail)
  <2>1. PICK i \in 1..Len(s) : e = s[i]
    BY <1>1 DEF Range
  <2>2. i - 1 \in 1..Len(s) - 1 /\ i = (i - 1) + 1
    BY <1>1, <1>4, <1>7, <2>1
  <2> QED
    BY <1>2, <1>3, <2>1, <2>2 DEF Range
<1>8. Range(tail) = Range(s) \ {Head(s)}
  BY <1>6, <1>7
<1>9. Head(s) \in Range(s)
  BY <1>4 DEF Range
<1> QED
  BY <1>2, <1>4, <1>5, <1>8, <1>9 DEF tail

(* Removing the last element.                                              *)
LEMMA PopLast ==
    ASSUME NEW S, NEW s \in Seq(S), s # <<>>, IsInjective(s)
    PROVE  /\ SubSeq(s, 1, Len(s) - 1) \in Seq(S)
           /\ IsInjective(SubSeq(s, 1, Len(s) - 1))
           /\ s[Len(s)] \in S
           /\ Range(SubSeq(s, 1, Len(s) - 1)) = Range(s) \ {s[Len(s)]}
<1> DEFINE front == SubSeq(s, 1, Len(s) - 1)
<1>1. Len(s) \in Nat /\ Len(s) > 0 /\ DOMAIN s = 1..Len(s)
  OBVIOUS
<1>2. front \in Seq(S) /\ DOMAIN front = 1..Len(s) - 1
  BY <1>1
<1>3. \A i \in 1..Len(s) - 1 : front[i] = s[i]
  BY <1>1
<1> HIDE DEF front
<1>4. s[Len(s)] \in S
  BY <1>1
<1>5. IsInjective(front)
  BY <1>1, <1>2, <1>3 DEF IsInjective
<1>6. ASSUME NEW e \in Range(front) PROVE e \in Range(s) \ {s[Len(s)]}
  <2>1. PICK i \in 1..Len(s) - 1 : e = front[i]
    BY <1>2 DEF Range
  <2>2. \A n \in Nat : i \in 1..n - 1 => i \in 1..n /\ n \in 1..n /\ i # n
    OBVIOUS
  <2>3. e = s[i]
    BY <1>3, <2>1
  <2> QED
    BY <1>1, <2>1, <2>2, <2>3 DEF IsInjective, Range
<1>7. ASSUME NEW e \in Range(s), e # s[Len(s)] PROVE e \in Range(front)
  <2>1. PICK i \in 1..Len(s) : e = s[i]
    BY <1>1 DEF Range
  <2>2. i \in 1..Len(s) - 1
    BY <1>1, <1>7, <2>1
  <2> QED
    BY <1>2, <1>3, <2>1, <2>2 DEF Range
<1>8. Range(front) = Range(s) \ {s[Len(s)]}
  BY <1>6, <1>7
<1> QED
  BY <1>2, <1>4, <1>5, <1>8 DEF front

(* Appending an element that is not there yet.                             *)
LEMMA PushNew ==
    ASSUME NEW S, NEW s \in Seq(S), NEW e \in S, e \notin Range(s), IsInjective(s)
    PROVE  /\ Append(s, e) \in Seq(S)
           /\ IsInjective(Append(s, e))
           /\ Range(Append(s, e)) = Range(s) \cup {e}
<1>1. Len(s) \in Nat /\ DOMAIN s = 1..Len(s)
  OBVIOUS
<1>2. /\ Append(s, e) \in Seq(S)
      /\ DOMAIN Append(s, e) = 1..Len(s) + 1
      /\ \A i \in 1..Len(s) : Append(s, e)[i] = s[i]
      /\ Append(s, e)[Len(s) + 1] = e
  BY <1>1
<1>3. IsInjective(Append(s, e))
  BY <1>1, <1>2 DEF IsInjective, Range
<1>4. Range(Append(s, e)) = Range(s) \cup {e}
  BY <1>1, <1>2 DEF Range
<1> QED
  BY <1>2, <1>3, <1>4

(* Append adds its element to the range.                                   *)
LEMMA AppendRange ==
    ASSUME NEW S, NEW s \in Seq(S), NEW e \in S
    PROVE  /\ Append(s, e) \in Seq(S)
           /\ Len(Append(s, e)) = Len(s) + 1
           /\ Range(Append(s, e)) = Range(s) \cup {e}
<1>1. Len(s) \in Nat /\ DOMAIN s = 1..Len(s)
  OBVIOUS
<1>2. /\ Append(s, e) \in Seq(S)
      /\ Len(Append(s, e)) = Len(s) + 1
      /\ DOMAIN Append(s, e) = 1..Len(s) + 1
      /\ \A i \in 1..Len(s) : Append(s, e)[i] = s[i]
      /\ Append(s, e)[Len(s) + 1] = e
  BY <1>1
<1>3. \A i \in 1..Len(s) + 1 : i = Len(s) + 1 \/ i \in 1..Len(s)
  BY <1>1
<1>4. 1..Len(s) \subseteq 1..Len(s) + 1 /\ Len(s) + 1 \in 1..Len(s) + 1
  BY <1>1
<1> QED
  BY <1>1, <1>2, <1>3, <1>4 DEF Range

=============================================================================
