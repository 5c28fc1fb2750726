--------------------------- MODULE SequenceLemmas ---------------------------
(* Facts about sequences that the proofs of several components share. *)
EXTENDS Integers, SequencesExt, SequenceTheorems, TLAPS

\* Removing element k of a sequence leaves a sequence that is one shorter.
LEMMA RemoveAtType ==
  ASSUME NEW S, NEW s \in Seq(S), NEW k \in 1..Len(s)
  PROVE  /\ RemoveAt(s, k) \in Seq(S)
         /\ Len(RemoveAt(s, k)) = Len(s) - 1
         /\ \A n \in 1..(Len(s) - 1) :
              RemoveAt(s, k)[n] = IF n < k THEN s[n] ELSE s[n + 1]
<1> DEFINE before == SubSeq(s, 1, k - 1)
           after  == SubSeq(s, k + 1, Len(s))
<1>1. /\ before \in Seq(S) /\ Len(before) = k - 1
      /\ \A n \in 1..(k - 1) : before[n] = s[n]
  <2>1. \A n \in 1..(k - 1) : s[n] \in S
    OBVIOUS
  <2> QED
    BY <2>1, SubSeqProperties
<1>2. /\ after \in Seq(S) /\ Len(after) = Len(s) - k
      /\ \A n \in 1..(Len(s) - k) : after[n] = s[k + n]
  <2>1. \A n \in (k + 1)..Len(s) : s[n] \in S
    OBVIOUS
  <2> QED
    BY <2>1, SubSeqProperties
<1> HIDE DEF before, after
<1>3. /\ before \o after \in Seq(S)
      /\ Len(before \o after) = Len(before) + Len(after)
      /\ \A n \in 1..(Len(before) + Len(after)) :
           (before \o after)[n] = IF n <= Len(before) THEN before[n]
                                  ELSE after[n - Len(before)]
  BY <1>1, <1>2, ConcatProperties
<1>4. RemoveAt(s, k) = before \o after
  BY DEF RemoveAt, before, after
<1>5. Len(before) + Len(after) = Len(s) - 1
  BY <1>1, <1>2
<1>6. ASSUME NEW n \in 1..(Len(s) - 1)
      PROVE  (before \o after)[n] = IF n < k THEN s[n] ELSE s[n + 1]
  <2>1. CASE n < k
    BY <2>1, <1>1, <1>3, <1>5
  <2>2. CASE ~(n < k)
    <3>1. (before \o after)[n] = after[n - (k - 1)]
      BY <2>2, <1>1, <1>3, <1>5
    <3>2. n - (k - 1) \in 1..(Len(s) - k)
      BY <2>2
    <3>3. k + (n - (k - 1)) = n + 1
      OBVIOUS
    <3> QED
      BY <2>2, <3>1, <3>2, <3>3, <1>2
  <2> QED
    BY <2>1, <2>2
<1> QED
  BY <1>3, <1>4, <1>5, <1>6

\* Removing element k of a sequence keeps every other element.
LEMMA RemoveAtKeeps ==
  ASSUME NEW S, NEW s \in Seq(S), NEW k \in 1..Len(s), NEW n \in 1..Len(s), n # k
  PROVE  s[n] \in ToSet(RemoveAt(s, k))
<1>1. CASE n < k
  <2>1. n \in 1..(Len(s) - 1) /\ RemoveAt(s, k)[n] = s[n]
    BY <1>1, RemoveAtType
  <2>2. n \in DOMAIN RemoveAt(s, k)
    BY <2>1, RemoveAtType
  <2> QED
    BY <2>1, <2>2 DEF ToSet
<1>2. CASE n > k
  <2>1. n - 1 \in 1..(Len(s) - 1) /\ RemoveAt(s, k)[n - 1] = s[n]
    BY <1>2, RemoveAtType
  <2>2. n - 1 \in DOMAIN RemoveAt(s, k)
    BY <2>1, RemoveAtType
  <2> QED
    BY <2>1, <2>2 DEF ToSet
<1> QED
  BY <1>1, <1>2

\* Concatenation keeps every element of its first argument.
LEMMA ConcatKeeps ==
  ASSUME NEW S, NEW s \in Seq(S), NEW t \in Seq(S), NEW n \in 1..Len(s)
  PROVE  s[n] \in ToSet(s \o t) /\ n <= Len(s \o t) /\ (s \o t)[n] = s[n]
<1>1. n \in 1..(Len(s) + Len(t)) /\ (s \o t)[n] = s[n] /\ Len(s \o t) = Len(s) + Len(t)
  BY ConcatProperties
<1>2. n \in DOMAIN (s \o t)
  BY <1>1, ConcatProperties
<1> QED
  BY <1>1, <1>2 DEF ToSet

\* Removing an element adds none.
LEMMA RemoveAtAddsNone ==
  ASSUME NEW S, NEW s \in Seq(S), NEW k \in 1..Len(s)
  PROVE  ToSet(RemoveAt(s, k)) \subseteq ToSet(s)
<1>1. /\ DOMAIN RemoveAt(s, k) = 1..(Len(s) - 1)
      /\ \A n \in 1..(Len(s) - 1) :
           RemoveAt(s, k)[n] = IF n < k THEN s[n] ELSE s[n + 1]
  BY RemoveAtType
<1> SUFFICES ASSUME NEW n \in 1..(Len(s) - 1) PROVE RemoveAt(s, k)[n] \in ToSet(s)
  BY <1>1 DEF ToSet
<1>2. n \in 1..Len(s) /\ n + 1 \in 1..Len(s)
  OBVIOUS
<1>3. DOMAIN s = 1..Len(s)
  OBVIOUS
<1> QED
  BY <1>1, <1>2, <1>3 DEF ToSet

\* The elements of a sequence to which one is appended.
LEMMA AppendSet ==
  ASSUME NEW S, NEW s \in Seq(S), NEW e \in S
  PROVE  ToSet(Append(s, e)) = ToSet(s) \cup {e}
<1>1. /\ DOMAIN Append(s, e) = 1..(Len(s) + 1) /\ DOMAIN s = 1..Len(s)
      /\ \A n \in 1..Len(s) : Append(s, e)[n] = s[n]
      /\ Append(s, e)[Len(s) + 1] = e
  OBVIOUS
<1>2. ASSUME NEW n \in 1..(Len(s) + 1) PROVE n \in 1..Len(s) \/ n = Len(s) + 1
  OBVIOUS
<1>3. 1..Len(s) \subseteq 1..(Len(s) + 1) /\ Len(s) + 1 \in 1..(Len(s) + 1)
  OBVIOUS
<1> QED
  BY <1>1, <1>2, <1>3 DEF ToSet

\* The elements of a concatenation.
LEMMA ConcatSet ==
  ASSUME NEW S, NEW s \in Seq(S), NEW t \in Seq(S)
  PROVE  ToSet(s \o t) = ToSet(s) \cup ToSet(t)
<1>1. /\ DOMAIN (s \o t) = 1..(Len(s) + Len(t)) /\ DOMAIN s = 1..Len(s) /\ DOMAIN t = 1..Len(t)
      /\ \A n \in 1..(Len(s) + Len(t)) :
           (s \o t)[n] = IF n <= Len(s) THEN s[n] ELSE t[n - Len(s)]
  BY ConcatProperties
<1>2. ASSUME NEW n \in 1..(Len(s) + Len(t))
      PROVE  (s \o t)[n] \in ToSet(s) \cup ToSet(t)
  <2>1. CASE n <= Len(s)
    BY <1>1, <2>1 DEF ToSet
  <2>2. CASE ~(n <= Len(s))
    <3>1. n - Len(s) \in 1..Len(t)
      BY <2>2
    <3> QED
      BY <1>1, <2>2, <3>1 DEF ToSet
  <2> QED
    BY <2>1, <2>2
<1>3. ASSUME NEW n \in 1..Len(s) PROVE s[n] \in ToSet(s \o t)
  BY ConcatKeeps
<1>4. ASSUME NEW n \in 1..Len(t) PROVE t[n] \in ToSet(s \o t)
  <2>1. Len(s) + n \in 1..(Len(s) + Len(t)) /\ ~(Len(s) + n <= Len(s))
        /\ (Len(s) + n) - Len(s) = n
    OBVIOUS
  <2>2. (s \o t)[Len(s) + n] = t[n]
    BY <1>1, <2>1
  <2> QED
    BY <1>1, <2>1, <2>2 DEF ToSet
<1>5. ToSet(s \o t) \subseteq ToSet(s) \cup ToSet(t)
  BY <1>1, <1>2 DEF ToSet
<1>6. ToSet(s) \cup ToSet(t) \subseteq ToSet(s \o t)
  BY <1>1, <1>3, <1>4 DEF ToSet
<1> QED
  BY <1>5, <1>6

=============================================================================
