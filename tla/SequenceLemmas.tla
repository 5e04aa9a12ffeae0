--------------------------- MODULE SequenceLemmas ---------------------------
(***************************************************************************)
(* Facts about sequences the proofs of the other modules keep needing.     *)
(* Taking an element out of a sequence and putting one in, which the lists *)
(* of the runtime do at any position: what RemoveAt and InsertAt return.   *)
(* Sequences as lists without repetitions: members, positions, reversal,   *)
(* concatenation, splitting.  And a way to reason by induction without     *)
(* naming the predicate: the least counterexample, and from it the         *)
(* existence of a function defined step by step.                           *)
(***************************************************************************)
EXTENDS Integers, Sequences, SequencesExt, FiniteSetTheorems,
        SequenceTheorems, WellFoundedInduction, TLAPS

(* Taking out position i: the elements behind it move up by one. *)
LEMMA RemoveAtProperties ==
    ASSUME NEW S, NEW s \in Seq(S), NEW i \in 1..Len(s)
    PROVE  /\ RemoveAt(s, i) \in Seq(S)
           /\ Len(RemoveAt(s, i)) = Len(s) - 1
           /\ \A k \in 1..Len(s) - 1 :
                RemoveAt(s, i)[k] = IF k < i THEN s[k] ELSE s[k + 1]
<1> DEFINE l == SubSeq(s, 1, i - 1)
           r == SubSeq(s, i + 1, Len(s))
<1>0. Len(s) \in Nat /\ \A k \in 1..Len(s) : s[k] \in S
  BY LenProperties, ElementOfSeq
<1>1. /\ l \in Seq(S) /\ Len(l) = i - 1
      /\ \A k \in 1..i - 1 : l[k] = s[k]
  <2>1. \A k \in 1..i - 1 : s[k] \in S
    BY <1>0
  <2>2. /\ l \in Seq(S)
        /\ Len(l) = IF 1 <= i - 1 THEN (i - 1) - 1 + 1 ELSE 0
        /\ \A k \in 1..(i - 1) - 1 + 1 : l[k] = s[1 + k - 1]
    BY <2>1, <1>0, SubSeqProperties
  <2>3. QED
    BY <2>2, <1>0
<1>2. /\ r \in Seq(S) /\ Len(r) = Len(s) - i
      /\ \A k \in 1..Len(s) - i : r[k] = s[i + k]
  <2>1. \A k \in i + 1..Len(s) : s[k] \in S
    BY <1>0
  <2>2. /\ r \in Seq(S)
        /\ Len(r) = IF i + 1 <= Len(s) THEN Len(s) - (i + 1) + 1 ELSE 0
        /\ \A k \in 1..Len(s) - (i + 1) + 1 : r[k] = s[(i + 1) + k - 1]
    BY <2>1, <1>0, SubSeqProperties
  <2>3. QED
    BY <2>2, <1>0
<1>3. /\ l \o r \in Seq(S)
      /\ Len(l \o r) = Len(l) + Len(r)
      /\ \A k \in 1..Len(l) + Len(r) :
           (l \o r)[k] = IF k <= Len(l) THEN l[k] ELSE r[k - Len(l)]
  BY <1>1, <1>2, ConcatProperties
<1> HIDE DEF l, r
<1>4. \A k \in 1..Len(s) - 1 :
        (l \o r)[k] = IF k < i THEN s[k] ELSE s[k + 1]
  <2> SUFFICES ASSUME NEW k \in 1..Len(s) - 1
               PROVE  (l \o r)[k] = IF k < i THEN s[k] ELSE s[k + 1]
    OBVIOUS
  <2>1. (l \o r)[k] = IF k <= Len(l) THEN l[k] ELSE r[k - Len(l)]
    BY <1>0, <1>1, <1>2, <1>3
  <2>2. CASE k < i
    BY <2>1, <2>2, <1>0, <1>1
  <2>3. CASE k >= i
    <3>1. k - Len(l) \in 1..Len(s) - i /\ i + (k - Len(l)) = k + 1
      BY <2>3, <1>0, <1>1
    <3>2. r[k - Len(l)] = s[k + 1]
      BY <3>1, <1>2
    <3>3. QED
      BY <2>1, <2>3, <3>2, <1>0, <1>1
  <2>4. k < i \/ k >= i
    BY <1>0
  <2>5. QED
    BY <2>2, <2>3, <2>4
<1>5. RemoveAt(s, i) = l \o r
  BY DEF RemoveAt, l, r
<1>6. Len(l) + Len(r) = Len(s) - 1
  BY <1>0, <1>1, <1>2
<1>7. QED
  BY <1>3, <1>4, <1>5, <1>6

(* Putting x in at position i: the elements from there on move back.       *)
LEMMA InsertAtProperties ==
    ASSUME NEW S, NEW s \in Seq(S), NEW x \in S, NEW i \in 1..Len(s) + 1
    PROVE  /\ InsertAt(s, i, x) \in Seq(S)
           /\ Len(InsertAt(s, i, x)) = Len(s) + 1
           /\ \A k \in 1..Len(s) + 1 :
                InsertAt(s, i, x)[k] = IF k < i THEN s[k]
                                       ELSE IF k = i THEN x ELSE s[k - 1]
<1> DEFINE l == SubSeq(s, 1, i - 1)
           r == SubSeq(s, i, Len(s))
           lx == l \o <<x>>
<1>0. Len(s) \in Nat /\ \A k \in 1..Len(s) : s[k] \in S
  BY LenProperties, ElementOfSeq
<1>1. /\ l \in Seq(S) /\ Len(l) = i - 1
      /\ \A k \in 1..i - 1 : l[k] = s[k]
  <2>1. \A k \in 1..i - 1 : s[k] \in S
    BY <1>0
  <2>2. /\ l \in Seq(S)
        /\ Len(l) = IF 1 <= i - 1 THEN (i - 1) - 1 + 1 ELSE 0
        /\ \A k \in 1..(i - 1) - 1 + 1 : l[k] = s[1 + k - 1]
    BY <2>1, <1>0, SubSeqProperties
  <2>3. QED
    BY <2>2, <1>0
<1>2. /\ r \in Seq(S) /\ Len(r) = Len(s) - i + 1
      /\ \A k \in 1..Len(s) - i + 1 : r[k] = s[i + k - 1]
  <2>1. \A k \in i..Len(s) : s[k] \in S
    BY <1>0
  <2>2. /\ r \in Seq(S)
        /\ Len(r) = IF i <= Len(s) THEN Len(s) - i + 1 ELSE 0
        /\ \A k \in 1..Len(s) - i + 1 : r[k] = s[i + k - 1]
    BY <2>1, <1>0, SubSeqProperties
  <2>3. QED
    BY <2>2, <1>0
<1>3. /\ <<x>> \in Seq(S) /\ Len(<<x>>) = 1 /\ <<x>>[1] = x
  OBVIOUS
<1> HIDE DEF l, r
<1>4. /\ lx \in Seq(S) /\ Len(lx) = i
      /\ \A k \in 1..i : lx[k] = IF k < i THEN s[k] ELSE x
  <2>1. /\ lx \in Seq(S) /\ Len(lx) = Len(l) + 1
        /\ \A k \in 1..Len(l) + 1 :
             lx[k] = IF k <= Len(l) THEN l[k] ELSE <<x>>[k - Len(l)]
    BY <1>1, <1>3, ConcatProperties
  <2>2. QED
    BY <2>1, <1>1, <1>3
<1> HIDE DEF lx
<1>5. /\ lx \o r \in Seq(S)
      /\ Len(lx \o r) = Len(lx) + Len(r)
      /\ \A k \in 1..Len(lx) + Len(r) :
           (lx \o r)[k] = IF k <= Len(lx) THEN lx[k] ELSE r[k - Len(lx)]
  BY <1>4, <1>2, ConcatProperties
<1>6. InsertAt(s, i, x) = lx \o r
  BY DEF InsertAt, l, r, lx
<1>7. Len(lx) + Len(r) = Len(s) + 1
  BY <1>0, <1>2, <1>4
<1>8. \A k \in 1..Len(s) + 1 :
        (lx \o r)[k] = IF k < i THEN s[k] ELSE IF k = i THEN x ELSE s[k - 1]
  <2> SUFFICES ASSUME NEW k \in 1..Len(s) + 1
               PROVE  (lx \o r)[k] = IF k < i THEN s[k]
                                     ELSE IF k = i THEN x ELSE s[k - 1]
    OBVIOUS
  <2>1. (lx \o r)[k] = IF k <= i THEN lx[k] ELSE r[k - i]
    BY <1>4, <1>5, <1>7
  <2>2. CASE k <= i
    BY <2>1, <2>2, <1>0, <1>4
  <2>3. CASE k > i
    <3>1. k - i \in 1..Len(s) - i + 1 /\ i + (k - i) - 1 = k - 1
      BY <2>3, <1>0
    <3>2. r[k - i] = s[k - 1]
      BY <3>1, <1>2
    <3>3. QED
      BY <2>1, <2>3, <3>2, <1>0
  <2>4. k <= i \/ k > i
    BY <1>0
  <2>5. QED
    BY <2>2, <2>3, <2>4
<1>9. QED
  BY <1>5, <1>6, <1>7, <1>8

(* What is left when an element is taken out stays in its order. *)
LEMMA RemoveAtOrder ==
    ASSUME NEW S, NEW s \in Seq(S), NEW i \in 1..Len(s),
           NEW j \in 1..Len(RemoveAt(s, i)), NEW k \in 1..Len(RemoveAt(s, i)),
           j < k
    PROVE  \E x, y \in 1..Len(s) :
             x < y /\ RemoveAt(s, i)[j] = s[x] /\ RemoveAt(s, i)[k] = s[y]
<1> DEFINE r == RemoveAt(s, i)
           x == IF j < i THEN j ELSE j + 1
           y == IF k < i THEN k ELSE k + 1
<1>1. Len(s) \in Nat
  BY LenProperties
<1>2. /\ Len(r) = Len(s) - 1
      /\ \A m \in 1..Len(s) - 1 : r[m] = IF m < i THEN s[m] ELSE s[m + 1]
  BY RemoveAtProperties
<1> HIDE DEF r
<1>3. j \in 1..Len(s) - 1 /\ k \in 1..Len(s) - 1
  BY <1>2 DEF r
<1>4. x \in 1..Len(s) /\ y \in 1..Len(s) /\ x < y
  BY <1>1, <1>3
<1>5. r[j] = s[x] /\ r[k] = s[y]
  BY <1>2, <1>3
<1> HIDE DEF x, y
<1>6. QED
  BY <1>4, <1>5 DEF r

----------------------------------------------------------------------------
(* The members of a sequence and its positions; where no value repeats, a  *)
(* position is found from its value.                                       *)
LEMMA PositionsOf ==
    ASSUME NEW T, NEW s \in Seq(T)
    PROVE  /\ Len(s) \in Nat /\ DOMAIN s = 1..Len(s)
           /\ \A k \in 1..Len(s) : s[k] \in T /\ s[k] \in ToSet(s)
           /\ \A x \in ToSet(s) : x \in T /\ \E k \in 1..Len(s) : s[k] = x
           /\ IsInjective(s) =>
                \A j, k \in 1..Len(s) : s[j] = s[k] => j = k
<1>1. Len(s) \in Nat /\ DOMAIN s = 1..Len(s)
  BY LenProperties
<1>2. \A k \in 1..Len(s) : s[k] \in T
  BY ElementOfSeq
<1>3. \A k \in 1..Len(s) : s[k] \in ToSet(s)
  BY <1>1 DEF ToSet
<1>4. \A x \in ToSet(s) : \E k \in 1..Len(s) : s[k] = x
  BY <1>1 DEF ToSet
<1>5. IsInjective(s) => \A j, k \in 1..Len(s) : s[j] = s[k] => j = k
  BY <1>1 DEF IsInjective
<1>6. QED
  BY <1>1, <1>2, <1>3, <1>4, <1>5

(* A sequence with different values at different positions repeats none. *)
LEMMA InjectiveIf ==
    ASSUME NEW T, NEW s \in Seq(T),
           \A j, k \in 1..Len(s) : s[j] = s[k] => j = k
    PROVE  IsInjective(s)
BY LenProperties DEF IsInjective

(* x is in the set of a sequence exactly when it is at some position. *)
LEMMA SetOf ==
    ASSUME NEW T, NEW s \in Seq(T), NEW x
    PROVE  x \in ToSet(s) <=> \E k \in 1..Len(s) : s[k] = x
BY LenProperties DEF ToSet

(* Turning a list round and putting lists together. *)
LEMMA ReverseMembers ==
    ASSUME NEW T, NEW s \in Seq(T), IsInjective(s)
    PROVE  /\ Reverse(s) \in Seq(T)
           /\ ToSet(Reverse(s)) = ToSet(s)
           /\ IsInjective(Reverse(s))
<1> DEFINE r == Reverse(s)
           n == Len(s)
<1>1. /\ n \in Nat
      /\ \A k \in 1..n : s[k] \in T
      /\ \A j, k \in 1..n : s[j] = s[k] => j = k
  BY PositionsOf
<1>2. r = [k \in 1..n |-> s[n - k + 1]]
  <2>1. r = [k \in 1..n |-> s[(n - k) + 1]]
    BY DEF Reverse
  <2>2. QED
    BY <2>1
<1> HIDE DEF r
<1>3. \A k \in 1..n : n - k + 1 \in 1..n
  BY <1>1
<1>4. r \in [1..n -> T]
  BY <1>1, <1>2, <1>3
<1>5. r \in Seq(T) /\ Len(r) = n
  BY <1>1, <1>2, <1>4, SeqDef, LenProperties
<1>6. \A j, k \in 1..n : r[j] = r[k] => j = k
  BY <1>1, <1>2, <1>3
<1>7. IsInjective(r)
  BY <1>5, <1>6, InjectiveIf
<1>8. ASSUME NEW x PROVE x \in ToSet(r) <=> x \in ToSet(s)
  <2>1. ASSUME x \in ToSet(r) PROVE x \in ToSet(s)
    <3>1. PICK k \in 1..n : r[k] = x
      BY <1>5, <2>1, SetOf
    <3>2. n - k + 1 \in 1..n /\ s[n - k + 1] = x
      BY <1>2, <1>3, <3>1
    <3>3. QED
      BY <3>2, SetOf
  <2>2. ASSUME x \in ToSet(s) PROVE x \in ToSet(r)
    <3>1. PICK k \in 1..n : s[k] = x
      BY <2>2, SetOf
    <3>2. /\ n - k + 1 \in 1..n
          /\ n - (n - k + 1) + 1 = k
      BY <1>1
    <3>3. r[n - k + 1] = x
      BY <1>2, <3>1, <3>2
    <3>4. QED
      BY <1>5, <3>2, <3>3, SetOf
  <2>3. QED
    BY <2>1, <2>2
<1>9. ToSet(r) = ToSet(s)
  BY <1>8
<1>10. QED
  BY <1>5, <1>7, <1>9 DEF r

(* Two lists one behind the other: positions, members and repetitions. *)
LEMMA ConcatMembers ==
    ASSUME NEW T, NEW s \in Seq(T), NEW t \in Seq(T)
    PROVE  /\ s \o t \in Seq(T)
           /\ Len(s \o t) = Len(s) + Len(t)
           /\ \A k \in 1..Len(s) : (s \o t)[k] = s[k]
           /\ \A k \in 1..Len(t) : (s \o t)[Len(s) + k] = t[k]
           /\ ToSet(s \o t) = ToSet(s) \cup ToSet(t)
           /\ IsInjective(s) /\ IsInjective(t)
                /\ ToSet(s) \cap ToSet(t) = {} => IsInjective(s \o t)
<1> DEFINE u == s \o t
           m == Len(s)
           n == Len(t)
<1>1. /\ m \in Nat /\ n \in Nat
      /\ u \in Seq(T) /\ Len(u) = m + n
      /\ \A k \in 1..m + n : u[k] = IF k <= m THEN s[k] ELSE t[k - m]
  BY LenProperties, ConcatProperties
<1> HIDE DEF u
<1>2. \A k \in 1..m : k \in 1..m + n /\ u[k] = s[k]
  BY <1>1
<1>3. \A k \in 1..n : m + k \in 1..m + n /\ u[m + k] = t[k]
  <2> SUFFICES ASSUME NEW k \in 1..n PROVE m + k \in 1..m + n /\ u[m + k] = t[k]
    OBVIOUS
  <2>1. m + k \in 1..m + n /\ ~(m + k <= m) /\ m + k - m = k
    BY <1>1
  <2>2. QED
    BY <1>1, <2>1
<1>4. ASSUME NEW k \in 1..m + n
      PROVE  \/ k \in 1..m /\ u[k] = s[k]
             \/ k - m \in 1..n /\ ~(k <= m) /\ u[k] = t[k - m]
  BY <1>1
<1>5. ASSUME NEW x PROVE x \in ToSet(u) <=> x \in ToSet(s) \cup ToSet(t)
  <2>1. ASSUME x \in ToSet(u) PROVE x \in ToSet(s) \cup ToSet(t)
    <3>1. PICK k \in 1..m + n : u[k] = x
      BY <1>1, <2>1, SetOf
    <3>2. CASE k \in 1..m /\ u[k] = s[k]
      BY <3>1, <3>2, SetOf
    <3>3. CASE k - m \in 1..n /\ u[k] = t[k - m]
      BY <3>1, <3>3, SetOf
    <3>4. QED
      BY <1>4, <3>2, <3>3
  <2>2. ASSUME x \in ToSet(s) PROVE x \in ToSet(u)
    <3>1. PICK k \in 1..m : s[k] = x
      BY <2>2, SetOf
    <3>2. QED
      BY <1>1, <1>2, <3>1, SetOf
  <2>3. ASSUME x \in ToSet(t) PROVE x \in ToSet(u)
    <3>1. PICK k \in 1..n : t[k] = x
      BY <2>3, SetOf
    <3>2. m + k \in 1..m + n /\ u[m + k] = x
      BY <1>3, <3>1
    <3>3. QED
      BY <1>1, <3>2, SetOf
  <2>4. QED
    BY <2>1, <2>2, <2>3
<1>6. ToSet(u) = ToSet(s) \cup ToSet(t)
  BY <1>5
<1>7. ASSUME IsInjective(s), IsInjective(t), ToSet(s) \cap ToSet(t) = {}
      PROVE  IsInjective(u)
  <2>1. /\ \A j, k \in 1..m : s[j] = s[k] => j = k
        /\ \A j, k \in 1..n : t[j] = t[k] => j = k
        /\ \A j \in 1..m, k \in 1..n : s[j] # t[k]
    BY <1>7, PositionsOf
  <2>2. ASSUME NEW j \in 1..m + n, NEW k \in 1..m + n, u[j] = u[k] PROVE j = k
    <3>1. CASE j \in 1..m /\ k \in 1..m
      BY <1>2, <2>1, <2>2, <3>1
    <3>2. CASE j \notin 1..m /\ k \notin 1..m
      <4>1. /\ j - m \in 1..n /\ u[j] = t[j - m]
            /\ k - m \in 1..n /\ u[k] = t[k - m]
        BY <1>4, <3>2
      <4>2. j - m = k - m
        BY <2>1, <2>2, <4>1
      <4>3. QED
        BY <1>1, <4>2
    <3>3. CASE j \in 1..m /\ k \notin 1..m
      BY <1>4, <2>1, <2>2, <3>3, <1>2
    <3>4. CASE j \notin 1..m /\ k \in 1..m
      BY <1>4, <2>1, <2>2, <3>4, <1>2
    <3>5. QED
      BY <3>1, <3>2, <3>3, <3>4
  <2>3. QED
    BY <1>1, <2>2, InjectiveIf
<1>8. QED
  BY <1>1, <1>2, <1>3, <1>6, <1>7 DEF u

(* A list cut in two after position n. *)
LEMMA SplitMembers ==
    ASSUME NEW T, NEW s \in Seq(T), NEW n \in 0..Len(s), IsInjective(s)
    PROVE  LET l == SubSeq(s, 1, n)
               r == SubSeq(s, n + 1, Len(s))
           IN  /\ l \in Seq(T) /\ r \in Seq(T)
               /\ Len(l) = n
               /\ \A k \in 1..n : l[k] = s[k]
               /\ IsInjective(l) /\ IsInjective(r)
               /\ ToSet(l) \cap ToSet(r) = {}
               /\ ToSet(l) \cup ToSet(r) = ToSet(s)
<1> DEFINE l == SubSeq(s, 1, n)
           r == SubSeq(s, n + 1, Len(s))
           m == Len(s)
<1>1. /\ m \in Nat /\ n \in Nat /\ n <= m
      /\ \A k \in 1..m : s[k] \in T
      /\ \A j, k \in 1..m : s[j] = s[k] => j = k
  BY PositionsOf
<1>2. l \in Seq(T) /\ Len(l) = n /\ \A k \in 1..n : l[k] = s[k]
  <2>1. \A k \in 1..n : s[k] \in T
    BY <1>1
  <2>2. /\ l \in Seq(T)
        /\ Len(l) = IF 1 <= n THEN n - 1 + 1 ELSE 0
        /\ \A k \in 1..n - 1 + 1 : l[k] = s[1 + k - 1]
    BY <2>1, <1>1, SubSeqProperties
  <2>3. QED
    BY <2>2, <1>1
<1>3. /\ r \in Seq(T) /\ Len(r) = m - n
      /\ \A k \in 1..m - n : r[k] = s[n + k]
  <2>1. \A k \in n + 1..m : s[k] \in T
    BY <1>1
  <2>2. /\ r \in Seq(T)
        /\ Len(r) = IF n + 1 <= m THEN m - (n + 1) + 1 ELSE 0
        /\ \A k \in 1..m - (n + 1) + 1 : r[k] = s[n + 1 + k - 1]
    BY <2>1, <1>1, SubSeqProperties
  <2> HIDE DEF r, m
  <2>3. m - (n + 1) + 1 = m - n
    BY <1>1
  <2>4. ASSUME NEW k \in 1..m - n PROVE r[k] = s[n + k]
    <3>1. n + 1 + k - 1 = n + k
      BY <1>1
    <3>2. r[k] = s[n + 1 + k - 1]
      BY <2>2, <2>3
    <3>3. QED
      BY <3>1, <3>2
  <2>5. Len(r) = m - n
    <3>1. CASE n = m
      BY <2>2, <1>1, <3>1
    <3>2. CASE n # m
      BY <2>2, <2>3, <1>1, <3>2
    <3>3. QED
      BY <3>1, <3>2
  <2>6. QED
    BY <2>2, <2>4, <2>5
<1> HIDE DEF l, r
<1>4. \A k \in 1..n : k \in 1..m
  BY <1>1
<1>5. \A k \in 1..m - n : n + k \in 1..m /\ n + k \notin 1..n
  BY <1>1
<1>6. IsInjective(l)
  BY <1>1, <1>2, <1>4, InjectiveIf
<1>7. IsInjective(r)
  <2>1. ASSUME NEW j \in 1..m - n, NEW k \in 1..m - n, r[j] = r[k] PROVE j = k
    <3>1. n + j = n + k
      BY <1>1, <1>3, <1>5, <2>1
    <3>2. QED
      BY <1>1, <3>1
  <2>2. QED
    BY <1>3, <2>1, InjectiveIf
<1>8. ASSUME NEW x \in ToSet(l) PROVE x \in ToSet(s) /\ x \notin ToSet(r)
  <2>1. PICK j \in 1..n : l[j] = x
    BY <1>2, SetOf
  <2>2. j \in 1..m /\ s[j] = x
    BY <1>2, <1>4, <2>1
  <2>3. \A k \in 1..m - n : r[k] # x
    BY <1>1, <1>3, <1>5, <2>1, <2>2
  <2>4. QED
    BY <1>3, <2>2, <2>3, SetOf
<1>9. ASSUME NEW x \in ToSet(r) PROVE x \in ToSet(s)
  <2>1. PICK j \in 1..m - n : r[j] = x
    BY <1>3, SetOf
  <2>2. QED
    BY <1>3, <1>5, <2>1, SetOf
<1>10. ASSUME NEW x \in ToSet(s) PROVE x \in ToSet(l) \cup ToSet(r)
  <2>1. PICK j \in 1..m : s[j] = x
    BY SetOf
  <2>2. CASE j \in 1..n
    BY <1>2, <2>1, <2>2, SetOf
  <2>3. CASE j \notin 1..n
    <3>1. j - n \in 1..m - n /\ n + (j - n) = j
      BY <1>1, <2>3
    <3>2. r[j - n] = x
      BY <1>3, <2>1, <3>1
    <3>3. QED
      BY <1>3, <3>1, <3>2, SetOf
  <2>4. QED
    BY <2>2, <2>3
<1>11. ToSet(l) \cap ToSet(r) = {} /\ ToSet(l) \cup ToSet(r) = ToSet(s)
  BY <1>8, <1>9, <1>10
<1>12. QED
  BY <1>2, <1>3, <1>6, <1>7, <1>11 DEF l, r

(* A list without repetitions whose members are 1..n has n of them. *)
LEMMA LengthOf ==
    ASSUME NEW T, NEW s \in Seq(T), IsInjective(s),
           NEW n \in Nat, ToSet(s) = 1..n
    PROVE  Len(s) = n
<1> DEFINE m == Len(s)
<1>1. m \in Nat /\ s \in [1..m -> T]
  BY SeqDef, PositionsOf
<1>2. /\ \A k \in 1..m : s[k] \in 1..n
      /\ \A x \in 1..n : \E k \in 1..m : s[k] = x
  <2>1. /\ \A k \in 1..m : s[k] \in ToSet(s)
        /\ \A x \in ToSet(s) : \E k \in 1..m : s[k] = x
    BY PositionsOf
  <2>2. QED
    BY <2>1
<1>3. \A j, k \in 1..m : s[j] = s[k] => j = k
  BY <1>1 DEF IsInjective
<1> HIDE DEF m
<1>4. s \in [1..m -> 1..n]
  BY <1>1, <1>2
<1>5. s \in Bijection(1..m, 1..n)
  BY <1>2, <1>3, <1>4 DEF Bijection, Injection, Surjection, IsInjective
<1>6. ExistsBijection(1..m, 1..n)
  BY <1>5 DEF ExistsBijection
<1>7. Cardinality(1..n) = m
  BY <1>1, <1>6, FS_CountingElements
<1>8. Cardinality(1..n) = IF 1 > n THEN 0 ELSE n - 1 + 1
  BY ONLY 1 \in Int /\ n \in Int, n \in Nat, FS_Interval
<1>9. m = n
  BY <1>1, <1>7, <1>8
<1>10. QED
  BY <1>9 DEF m

(* The members after an element was put in or taken out. *)
LEMMA InsertMembers ==
    ASSUME NEW S, NEW s \in Seq(S), NEW x \in S, NEW i \in 1..Len(s) + 1
    PROVE  ToSet(InsertAt(s, i, x)) = ToSet(s) \cup {x}
<1> DEFINE t == InsertAt(s, i, x)
<1>1. /\ t \in Seq(S) /\ Len(t) = Len(s) + 1
      /\ \A k \in 1..Len(s) + 1 :
           t[k] = IF k < i THEN s[k] ELSE IF k = i THEN x ELSE s[k - 1]
  BY InsertAtProperties
<1>2. Len(s) \in Nat /\ i \in Nat
  BY LenProperties
<1> HIDE DEF t
<1>3. ASSUME NEW y \in ToSet(t) PROVE y \in ToSet(s) \cup {x}
  <2>1. PICK k \in 1..Len(t) : t[k] = y
    BY <1>1, SetOf
  <2>2. CASE k < i
    <3>1. k \in 1..Len(s) /\ y = s[k]
      BY <1>1, <1>2, <2>1, <2>2
    <3>2. QED
      BY <3>1, SetOf
  <2>3. CASE k = i
    BY <1>1, <2>1, <2>3
  <2>4. CASE k > i
    <3>1. k - 1 \in 1..Len(s) /\ y = s[k - 1]
      BY <1>1, <1>2, <2>1, <2>4
    <3>2. QED
      BY <3>1, SetOf
  <2>5. QED
    BY <1>1, <1>2, <2>1, <2>2, <2>3, <2>4
<1>4. x \in ToSet(t)
  <2>1. i \in 1..Len(t) /\ t[i] = x
    BY <1>1, <1>2
  <2>2. QED
    BY <1>1, <2>1, SetOf
<1>5. ASSUME NEW y \in ToSet(s) PROVE y \in ToSet(t)
  <2>1. PICK k \in 1..Len(s) : s[k] = y
    BY SetOf
  <2>2. CASE k < i
    <3>1. k \in 1..Len(t) /\ t[k] = y
      BY <1>1, <1>2, <2>1, <2>2
    <3>2. QED
      BY <1>1, <3>1, SetOf
  <2>3. CASE k >= i
    <3>1. k + 1 \in 1..Len(t) /\ t[k + 1] = y
      <4>1. k + 1 \in 1..Len(s) + 1 /\ ~(k + 1 < i) /\ k + 1 # i /\ (k + 1) - 1 = k
        BY <1>2, <2>1, <2>3
      <4>2. QED
        BY <1>1, <2>1, <4>1
    <3>2. QED
      BY <1>1, <3>1, SetOf
  <2>4. QED
    BY <1>2, <2>1, <2>2, <2>3
<1>6. QED
  BY <1>3, <1>4, <1>5 DEF t

(* A list without repetitions loses just the element taken out.            *)
LEMMA RemoveMembers ==
    ASSUME NEW S, NEW s \in Seq(S), IsInjective(s), NEW i \in 1..Len(s)
    PROVE  ToSet(RemoveAt(s, i)) = ToSet(s) \ {s[i]}
<1> DEFINE t == RemoveAt(s, i)
<1>1. /\ t \in Seq(S) /\ Len(t) = Len(s) - 1
      /\ \A k \in 1..Len(s) - 1 : t[k] = IF k < i THEN s[k] ELSE s[k + 1]
  BY RemoveAtProperties
<1>2. /\ Len(s) \in Nat /\ i \in Nat
      /\ \A j, k \in 1..Len(s) : s[j] = s[k] => j = k
  BY PositionsOf
<1> HIDE DEF t
<1>3. ASSUME NEW y \in ToSet(t) PROVE y \in ToSet(s) /\ y # s[i]
  <2>1. PICK k \in 1..Len(t) : t[k] = y
    BY <1>1, SetOf
  <2>2. PICK j \in 1..Len(s) : j # i /\ y = s[j]
    <3>1. CASE k < i
      <4>1. k \in 1..Len(s) /\ k # i /\ y = s[k]
        BY <1>1, <1>2, <2>1, <3>1
      <4>2. QED
        BY <4>1
    <3>2. CASE k >= i
      <4>1. k + 1 \in 1..Len(s) /\ k + 1 # i /\ y = s[k + 1]
        BY <1>1, <1>2, <2>1, <3>2
      <4>2. QED
        BY <4>1
    <3>3. QED
      BY <1>1, <1>2, <2>1, <3>1, <3>2
  <2>3. QED
    BY <1>2, <2>2, SetOf
<1>4. ASSUME NEW y \in ToSet(s), y # s[i] PROVE y \in ToSet(t)
  <2>1. PICK k \in 1..Len(s) : s[k] = y
    BY SetOf
  <2>2. CASE k < i
    <3>1. k \in 1..Len(t) /\ t[k] = y
      BY <1>1, <1>2, <2>1, <2>2
    <3>2. QED
      BY <1>1, <3>1, SetOf
  <2>3. CASE k > i
    <3>1. k - 1 \in 1..Len(t) /\ t[k - 1] = y
      <4>1. k - 1 \in 1..Len(s) - 1 /\ ~(k - 1 < i) /\ (k - 1) + 1 = k
        BY <1>2, <2>1, <2>3
      <4>2. QED
        BY <1>1, <2>1, <4>1
    <3>2. QED
      BY <1>1, <3>1, SetOf
  <2>4. k # i
    BY <1>4, <2>1
  <2>5. QED
    BY <1>2, <2>1, <2>2, <2>3, <2>4
<1>5. QED
  BY <1>3, <1>4 DEF t

----------------------------------------------------------------------------
(* Induction.  A set of naturals with a member has a least one: to prove   *)
(* something of every n, look at the least for which it fails.             *)
LEMMA LeastNatural ==
    ASSUME NEW T, T \subseteq Nat, T # {}
    PROVE  \E n \in T : \A m \in T : ~(m < n)
<1> DEFINE R == OpToRel(<, Nat)
<1>1. IsWellFoundedOn(R, Nat)
  BY Zenon, NatLessThanWellFounded
<1>2. R = {ss \in Nat \X Nat : ss[1] < ss[2]}
  BY DEF OpToRel
<1> HIDE DEF R
<1>3. PICK n \in T : \A m \in T : ~(<<m, n>> \in R)
  BY <1>1, WFMin
<1>4. \A m \in T : ~(m < n)
  BY <1>2, <1>3
<1>5. QED
  BY <1>4

(* g is defined step by step on 0..n: f says how each value follows from   *)
(* the one before.                                                         *)
IsRun(g, X, x, n, f) ==
    /\ g \in [0..n -> X]
    /\ g[0] = x
    /\ \A i \in 1..n : g[i] = f[<<i, g[i - 1]>>]

(* Such a function exists. *)
LEMMA RecursionExists ==
    ASSUME NEW X, NEW x \in X, NEW n \in Nat,
           NEW f \in [(1..n) \X X -> X]
    PROVE  \E g : IsRun(g, X, x, n, f)
<1> DEFINE Steps(g, k) ==
             g[0] = x /\ \A i \in 1..k : g[i] = f[<<i, g[i - 1]>>]
           Exists(k) == \E g \in [0..k -> X] : Steps(g, k)
           Bad == {k \in 0..n : ~Exists(k)}
<1>1. ASSUME Bad # {} PROVE FALSE
  <2>1. Bad \subseteq Nat
    OBVIOUS
  <2>2. PICK k \in Bad : \A j \in Bad : ~(j < k)
    <3> HIDE DEF Bad
    <3> QED
      BY <1>1, <2>1, LeastNatural
  <2>3. k \in 0..n /\ ~Exists(k)
    OBVIOUS
  <2>4. CASE k = 0
    <3> DEFINE h == [i \in 0..0 |-> x]
    <3>1. h \in [0..0 -> X] /\ h[0] = x
      OBVIOUS
    <3>2. \A i \in 1..0 : h[i] = f[<<i, h[i - 1]>>]
      OBVIOUS
    <3>3. Exists(0)
      BY <3>1, <3>2
    <3>4. QED
      BY <2>3, <2>4, <3>3
  <2>5. CASE k # 0
    <3>1. k - 1 \in 0..n /\ k - 1 < k /\ k \in 1..n
      BY <2>3, <2>5
    <3>2. Exists(k - 1)
      <4>1. k - 1 \notin Bad
        <5> HIDE DEF Bad
        <5> QED
          BY <2>2, <3>1
      <4>2. QED
        BY <4>1, <3>1
    <3>3. PICK g \in [0..k - 1 -> X] : Steps(g, k - 1)
      BY <3>2
    <3> DEFINE y == f[<<k, g[k - 1]>>]
               h == [i \in 0..k |-> IF i < k THEN g[i] ELSE y]
    <3>4. g[k - 1] \in X /\ y \in X
      <4>1. g[k - 1] \in X
        BY <3>1
      <4>2. <<k, g[k - 1]>> \in (1..n) \X X
        BY <4>1, <3>1
      <4>3. QED
        BY <4>1, <4>2
    <3> HIDE DEF y
    <3>5. h \in [0..k -> X] /\ h[0] = x
      BY <3>1, <3>3, <3>4
    <3>6. ASSUME NEW i \in 1..k PROVE h[i] = f[<<i, h[i - 1]>>]
      <4>1. CASE i = k
        <5>1. h[i] = y /\ h[i - 1] = g[k - 1]
          BY <4>1, <3>1
        <5>2. QED
          BY <5>1, <4>1 DEF y
      <4>2. CASE i # k
        <5>1. i \in 1..k - 1 /\ i - 1 \in 0..k - 1 /\ i < k /\ i - 1 < k
          BY <4>2, <3>1
        <5>2. h[i] = g[i] /\ h[i - 1] = g[i - 1]
          BY <5>1, <3>1
        <5>3. QED
          BY <5>1, <5>2, <3>3
      <4>3. QED
        BY <4>1, <4>2
    <3>7. Exists(k)
      BY <3>5, <3>6
    <3>8. QED
      BY <3>7, <2>3
  <2>6. QED
    BY <2>4, <2>5
<1>2. n \in 0..n
  OBVIOUS
<1>3. Exists(n)
  BY <1>1, <1>2
<1>4. QED
  BY <1>3 DEF IsRun
=============================================================================
