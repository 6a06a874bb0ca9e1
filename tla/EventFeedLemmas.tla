------------------------- MODULE EventFeedLemmas -----------------------------
(***************************************************************************)
(* Counting the events among a stream's messages, and what taking,         *)
(* skipping, handing over and writing one do to their order.               *)
(***************************************************************************)
EXTENDS EventFeed, SequenceTheorems, FiniteSetTheorems, TLAPS

(* Counting the events of a sequence of messages.                          *)

(* The messages before a place are finitely many, so their events have a   *)
(* number.                                                                 *)
LEMMA RankNat ==
  ASSUME NEW q, NEW j \in Nat
  PROVE  /\ IsFiniteSet({i \in 1 .. j : q[i] # Junk})
         /\ Rank(q, j) \in Nat
<1>1. IsFiniteSet(1 .. j)
  BY FS_Interval
<1>2. IsFiniteSet({i \in 1 .. j : q[i] # Junk})
  <2>1. {i \in 1 .. j : q[i] # Junk} \in SUBSET (1 .. j)
    OBVIOUS
  <2> QED
    BY <1>1, <2>1, FS_Subset
<1> QED
  BY <1>2, FS_CardinalityType DEF Rank

(* The count is the same for sequences that agree so far. *)
LEMMA RankAgree ==
  ASSUME NEW q, NEW r, NEW j \in Nat, \A i \in 1 .. j : r[i] = q[i]
  PROVE  Rank(r, j) = Rank(q, j)
<1>1. {i \in 1 .. j : r[i] # Junk} = {i \in 1 .. j : q[i] # Junk}
  OBVIOUS
<1> QED
  BY <1>1 DEF Rank

(* The count grows along the sequence, and is at least one at an event. *)
LEMMA RankGrows ==
  ASSUME NEW q, NEW m \in Nat, NEW j \in 0 .. m
  PROVE  /\ Rank(q, j) <= Rank(q, m)
         /\ j > 0 /\ q[j] # Junk => Rank(q, j) >= 1
<1> DEFINE A == {i \in 1 .. j : q[i] # Junk}
           B == {i \in 1 .. m : q[i] # Junk}
<1>1. IsFiniteSet(A) /\ IsFiniteSet(B) /\ Cardinality(A) \in Nat
  BY RankNat DEF Rank
<1>2. A \in SUBSET B
  OBVIOUS
<1>3. Cardinality(A) <= Cardinality(B)
  BY <1>1, <1>2, FS_Subset
<1>4. ASSUME j > 0, q[j] # Junk
      PROVE  Cardinality(A) >= 1
  <2>1. j \in A
    BY <1>4
  <2>2. Cardinality(A) # 0
    BY <1>1, <2>1, FS_EmptySet
  <2> QED
    BY <1>1, <2>2
<1> QED
  BY <1>3, <1>4 DEF Rank

(* Events that follow are all counted ... *)
LEMMA RankEvents ==
  ASSUME NEW q, NEW r, NEW m \in Nat, NEW k \in Nat, k >= m,
         \A i \in 1 .. m : r[i] = q[i],
         \A i \in m + 1 .. k : r[i] # Junk
  PROVE  Rank(r, k) = Rank(q, m) + (k - m)
<1> DEFINE A == {i \in 1 .. m : q[i] # Junk}
           B == {i \in 1 .. k : r[i] # Junk}
<1>1. IsFiniteSet(A) /\ Cardinality(A) \in Nat
  BY RankNat DEF Rank
<1>2. B = A \cup (m + 1 .. k) /\ A \cap (m + 1 .. k) = {}
  OBVIOUS
<1>3. IsFiniteSet(m + 1 .. k) /\ Cardinality(m + 1 .. k) = k - m
  <2>1. m + 1 \in Int /\ k \in Int
    OBVIOUS
  <2>2. /\ IsFiniteSet(m + 1 .. k)
        /\ Cardinality(m + 1 .. k) =
             IF m + 1 > k THEN 0 ELSE k - (m + 1) + 1
    BY <2>1, FS_Interval
  <2> QED
    BY <2>2
<1> HIDE DEF A, B
<1>4. Cardinality(A \cup (m + 1 .. k)) = Cardinality(A) + (k - m) - Cardinality({})
  BY <1>1, <1>2, <1>3, FS_Union
<1>5. Cardinality(B) = Cardinality(A) + (k - m)
  BY <1>1, <1>2, <1>4, FS_EmptySet
<1> QED
  BY <1>5 DEF A, B, Rank

(* ... and what is no event is not. *)
LEMMA RankJunk ==
  ASSUME NEW q, NEW r, NEW m \in Nat, NEW k \in Nat, k >= m,
         \A i \in 1 .. m : r[i] = q[i],
         \A i \in m + 1 .. k : r[i] = Junk
  PROVE  Rank(r, k) = Rank(q, m)
<1>1. {i \in 1 .. k : r[i] # Junk} = {i \in 1 .. m : q[i] # Junk}
  OBVIOUS
<1> QED
  BY <1>1 DEF Rank

(* A message that is no event, put in at p, shifts the places behind it    *)
(* and changes no count.                                                   *)
LEMMA RankShift ==
  ASSUME NEW q, NEW r, NEW p \in Nat \ {0}, NEW j \in Nat, j >= p - 1,
         \A i \in 1 .. p - 1 : r[i] = q[i],
         r[p] = Junk,
         \A i \in p .. j : r[i + 1] = q[i]
  PROVE  Rank(r, j + 1) = Rank(q, j)
<1> DEFINE A == {i \in 1 .. j : q[i] # Junk}
           B == {i \in 1 .. j + 1 : r[i] # Junk}
           f == [i \in A |-> IF i < p THEN i ELSE i + 1]
<1>1. IsFiniteSet(A)
  BY RankNat
<1>2. f \in [A -> B]
  <2> SUFFICES ASSUME NEW i \in A
               PROVE  (IF i < p THEN i ELSE i + 1) \in B
    OBVIOUS
  <2> QED
    BY DEF Junk
<1>3. \A i, k \in A : f[i] = f[k] => i = k
  OBVIOUS
<1>4. \A k \in B : \E i \in A : f[i] = k
  <2> SUFFICES ASSUME NEW k \in B
               PROVE  \E i \in A : f[i] = k
    OBVIOUS
  <2>1. CASE k < p
    <3>1. k \in A
      BY <2>1
    <3> QED
      BY <2>1, <3>1
  <2>2. CASE k > p
    <3>1. k - 1 \in p .. j /\ (k - 1) + 1 = k
      BY <2>2
    <3>2. k - 1 \in A
      BY <3>1
    <3> QED
      BY <2>2, <3>1, <3>2
  <2> QED
    BY <2>1, <2>2
<1> HIDE DEF f
<1>5. f \in Bijection(A, B)
  BY <1>2, <1>3, <1>4 DEF Bijection, Injection, Surjection, IsInjective
<1> HIDE DEF A, B
<1>6. ExistsBijection(A, B)
  BY <1>5 DEF ExistsBijection
<1>7. Cardinality(B) = Cardinality(A)
  BY <1>1, <1>6, FS_Bijection
<1> QED
  BY <1>7 DEF Rank, A, B

(* The copies of a payload. *)
LEMMA CopiesSeq ==
  ASSUME NEW S, NEW n \in S, NEW a \in Nat
  PROVE  /\ Copies(n, a) \in Seq(S)
         /\ Len(Copies(n, a)) = a
         /\ \A i \in 1 .. a : Copies(n, a)[i] = n
<1>1. Copies(n, a) \in [1 .. a -> S]
  BY DEF Copies
<1>2. Copies(n, a) \in Seq(S)
  BY <1>1, SeqDef
<1> QED
  BY <1>1, <1>2, LenProperties DEF Copies

(* r is q with a message that is no event put in at p. *)
JunkAt(S, r, q, p) ==
  /\ q \in Seq(S) /\ r \in Seq(S)
  /\ p \in 1 .. Len(q) + 1
  /\ Len(r) = Len(q) + 1
  /\ \A i \in 1 .. p - 1 : r[i] = q[i]
  /\ r[p] = Junk
  /\ \A i \in p .. Len(q) : r[i + 1] = q[i]

(* Messages that are no events may be put in or taken out anywhere. *)
LEMMA JunkAnywhere ==
  ASSUME NEW S, NEW w, NEW q, NEW r, NEW p, JunkAt(S, r, q, p)
  PROVE  EventsOf(w, q) <=> EventsOf(w, r)
<1> USE DEF JunkAt
<1> DEFINE m == Len(q)
<1>0. m \in Nat /\ p \in Nat \ {0} /\ m >= p - 1
  OBVIOUS
<1> HIDE DEF m
<1>1. \A j \in 0 .. p - 1 : Rank(r, j) = Rank(q, j)
  BY <1>0, RankAgree
<1>2. \A j \in p - 1 .. m : Rank(r, j + 1) = Rank(q, j)
  <2> SUFFICES ASSUME NEW j \in p - 1 .. m
               PROVE  Rank(r, j + 1) = Rank(q, j)
    OBVIOUS
  <2>1. j \in Nat /\ j >= p - 1
    BY <1>0
  <2>2. \A i \in p .. j : r[i + 1] = q[i]
    BY <1>0 DEF m
  <2> QED
    BY <1>0, <2>1, <2>2, RankShift
<1>3. Len(r) = m + 1 /\ Rank(r, Len(r)) = Rank(q, m)
  BY <1>0, <1>2 DEF m
<1>4. ASSUME \A j \in 1 .. m : q[j] # Junk => w[Rank(q, j)] = q[j],
             NEW k \in 1 .. m + 1, r[k] # Junk
      PROVE  w[Rank(r, k)] = r[k]
  <2>1. CASE k < p
    <3>1. k \in 1 .. p - 1 /\ k \in 1 .. m
      BY <1>0, <2>1
    <3> QED
      BY <1>0, <1>1, <1>4, <3>1
  <2>2. CASE k > p
    <3> DEFINE j == k - 1
    <3>1. j \in p .. m /\ j \in 1 .. m /\ j \in p - 1 .. m /\ j + 1 = k
      BY <1>0, <2>2
    <3> HIDE DEF j
    <3>2. r[k] = q[j] /\ Rank(r, k) = Rank(q, j)
      BY <1>2, <3>1 DEF m
    <3> QED
      BY <1>4, <3>1, <3>2
  <2> QED
    BY <1>0, <1>4, <2>1, <2>2
<1>5. ASSUME \A k \in 1 .. m + 1 : r[k] # Junk => w[Rank(r, k)] = r[k],
             NEW j \in 1 .. m, q[j] # Junk
      PROVE  w[Rank(q, j)] = q[j]
  <2>1. CASE j < p
    <3>1. j \in 1 .. p - 1 /\ j \in 1 .. m + 1
      BY <1>0, <2>1
    <3> QED
      BY <1>0, <1>1, <1>5, <3>1
  <2>2. CASE j >= p
    <3>1. j \in p .. m /\ j \in p - 1 .. m /\ j + 1 \in 1 .. m + 1
      BY <1>0, <2>2
    <3>2. r[j + 1] = q[j] /\ Rank(r, j + 1) = Rank(q, j)
      BY <1>2, <3>1 DEF m
    <3> QED
      BY <1>5, <3>1, <3>2
  <2> QED
    BY <1>0, <2>1, <2>2
<1> QED
  BY <1>3, <1>4, <1>5 DEF EventsOf, m

(* Copies at the end leave what was there in its place. *)
LEMMA CopiesExtend ==
  ASSUME NEW S, NEW w \in Seq(S), NEW n \in S, NEW a \in Nat
  PROVE  /\ Len(w \o Copies(n, a)) = Len(w) + a
         /\ \A i \in 1 .. Len(w) : (w \o Copies(n, a))[i] = w[i]
<1> DEFINE c == Copies(n, a)
<1>1. c \in Seq(S) /\ Len(c) = a
  BY CopiesSeq
<1> HIDE DEF c
<1>2. Len(w \o c) = Len(w) + a /\ \A i \in 1 .. Len(w) : (w \o c)[i] = w[i]
  BY <1>1
<1> QED
  BY <1>2 DEF c

(* An event that enters the channel is the last on both sides. *)
LEMMA EventsEnter ==
  ASSUME NEW S, NEW w \in Seq(S), NEW q \in Seq(S), NEW n \in S, NEW a \in Nat,
         n # Junk, EventsOf(w, q)
  PROVE  EventsOf(w \o Copies(n, a), q \o Copies(n, a))
<1> DEFINE c == Copies(n, a)
           m == Len(q)
           l == Len(w)
           r == q \o c
           v == w \o c
<1>0. m \in Nat /\ l \in Nat
  OBVIOUS
<1>1. c \in Seq(S) /\ Len(c) = a /\ \A i \in 1 .. a : c[i] = n
  BY CopiesSeq
<1> HIDE DEF c
<1>2. Len(r) = m + a /\ Len(v) = l + a
  BY <1>1
<1>3. /\ \A i \in 1 .. m : r[i] = q[i]
      /\ \A i \in m + 1 .. m + a : r[i] = n
      /\ \A i \in 1 .. l : v[i] = w[i]
      /\ \A i \in l + 1 .. l + a : v[i] = n
  BY <1>1
<1>4. l = Rank(q, m) /\ \A j \in 1 .. m : q[j] # Junk => w[Rank(q, j)] = q[j]
  BY DEF EventsOf
<1> HIDE DEF m, l, r, v
<1>5. ASSUME NEW k \in m .. m + a
      PROVE  Rank(r, k) = l + (k - m)
  <2>1. k \in Nat /\ k >= m /\ \A i \in m + 1 .. k : r[i] # Junk
    BY <1>0, <1>3
  <2>2. \A i \in 1 .. m : r[i] = q[i]
    BY <1>3
  <2>3. Rank(r, k) = Rank(q, m) + (k - m)
    BY <1>0, <2>1, <2>2, RankEvents
  <2> QED
    BY <1>4, <2>3
<1>6. ASSUME NEW j \in 1 .. m + a, r[j] # Junk
      PROVE  v[Rank(r, j)] = r[j]
  <2>1. CASE j <= m
    <3>1. j \in 1 .. m /\ j \in 0 .. m /\ j \in Nat /\ \A i \in 1 .. j : r[i] = q[i]
      BY <1>0, <1>3, <2>1
    <3>2. Rank(r, j) = Rank(q, j) /\ r[j] = q[j]
      BY <1>3, <3>1, RankAgree
    <3>3. Rank(q, j) \in 1 .. l
      <4>1. Rank(q, j) \in Nat
        BY <3>1, RankNat
      <4>2. Rank(q, j) <= Rank(q, m) /\ Rank(q, j) >= 1
        BY <1>0, <1>6, <3>1, <3>2, RankGrows
      <4> QED
        BY <1>0, <1>4, <4>1, <4>2
    <3> QED
      BY <1>3, <1>4, <1>6, <3>1, <3>2, <3>3
  <2>2. CASE j > m
    <3>1. j \in m .. m + a /\ l + (j - m) \in l + 1 .. l + a /\ j \in m + 1 .. m + a
      BY <1>0, <2>2
    <3>2. Rank(r, j) = l + (j - m)
      BY <1>5, <3>1
    <3> QED
      BY <1>3, <3>1, <3>2
  <2> QED
    BY <1>0, <2>1, <2>2
<1>7. Len(v) = Rank(r, Len(r))
  <2>1. m + a \in m .. m + a
    BY <1>0
  <2>2. Rank(r, m + a) = l + ((m + a) - m)
    BY <1>5, <2>1
  <2> QED
    BY <1>0, <1>2, <2>2
<1>8. EventsOf(v, r)
  BY <1>2, <1>6, <1>7 DEF EventsOf
<1> QED
  BY <1>8 DEF v, r, c

(* A message that is no event enters without a trace. *)
LEMMA JunkEnters ==
  ASSUME NEW S, NEW w, NEW q \in Seq(S), Junk \in S, NEW a \in Nat, EventsOf(w, q)
  PROVE  EventsOf(w, q \o Copies(Junk, a))
<1> DEFINE c == Copies(Junk, a)
           m == Len(q)
           r == q \o c
<1>0. m \in Nat
  OBVIOUS
<1>1. c \in Seq(S) /\ Len(c) = a /\ \A i \in 1 .. a : c[i] = Junk
  BY CopiesSeq
<1> HIDE DEF c
<1>2. Len(r) = m + a
  BY <1>1
<1>3. /\ \A i \in 1 .. m : r[i] = q[i]
      /\ \A i \in m + 1 .. m + a : r[i] = Junk
  BY <1>1
<1>4. Len(w) = Rank(q, m) /\ \A j \in 1 .. m : q[j] # Junk => w[Rank(q, j)] = q[j]
  BY DEF EventsOf
<1> HIDE DEF m, r
<1>5. Rank(r, m + a) = Rank(q, m)
  <2>1. m + a \in Nat /\ m + a >= m
    BY <1>0
  <2> QED
    BY <1>0, <1>3, <2>1, RankJunk
<1>6. ASSUME NEW j \in 1 .. m + a, r[j] # Junk
      PROVE  w[Rank(r, j)] = r[j]
  <2>1. j \in 1 .. m /\ j \in Nat /\ \A i \in 1 .. j : r[i] = q[i]
    BY <1>0, <1>3, <1>6
  <2>2. Rank(r, j) = Rank(q, j) /\ r[j] = q[j]
    BY <1>3, <2>1, RankAgree
  <2> QED
    BY <1>4, <1>6, <2>1, <2>2
<1>7. EventsOf(w, r)
  BY <1>2, <1>4, <1>5, <1>6 DEF EventsOf
<1> QED
  BY <1>7 DEF r, c

------------------------------------------------------------------------------
(* The pipeline of a stream: s written, f and h in hand, b in the channel. *)

Pipe(s, f, h, b) == s \o <<f, h>> \o b

(* What is where in it. *)
Shaped(S, r, s, f, h, b) ==
  /\ r \in Seq(S)
  /\ Len(r) = Len(s) + 2 + Len(b)
  /\ \A i \in 1 .. Len(s) : r[i] = s[i]
  /\ r[Len(s) + 1] = f
  /\ r[Len(s) + 2] = h
  /\ \A i \in Len(s) + 3 .. Len(s) + 2 + Len(b) : r[i] = b[i - (Len(s) + 2)]

(* A pipeline has this shape. *)
LEMMA PipeShape ==
  ASSUME NEW S, NEW s \in Seq(S), NEW f \in S, NEW h \in S, NEW b \in Seq(S)
  PROVE  Shaped(S, Pipe(s, f, h, b), s, f, h, b)
<1> DEFINE t == s \o <<f, h>>
<1>1. <<f, h>> \in Seq(S) /\ Len(<<f, h>>) = 2
  OBVIOUS
<1>2. /\ t \in Seq(S) /\ Len(t) = Len(s) + 2
      /\ \A i \in 1 .. Len(s) : t[i] = s[i]
      /\ t[Len(s) + 1] = f /\ t[Len(s) + 2] = h
  <2>1. t \in Seq(S) /\ Len(t) = Len(s) + 2
    BY <1>1
  <2>2. \A i \in 1 .. Len(s) : t[i] = s[i]
    BY <1>1
  <2>3. t[Len(s) + 1] = f
    BY <1>1
  <2>4. t[Len(s) + 2] = h
    BY <1>1
  <2> QED
    BY <2>1, <2>2, <2>3, <2>4
<1> HIDE DEF t
<1>3. /\ t \o b \in Seq(S) /\ Len(t \o b) = Len(s) + 2 + Len(b)
      /\ \A i \in 1 .. Len(s) + 2 : (t \o b)[i] = t[i]
      /\ \A i \in Len(s) + 3 .. Len(s) + 2 + Len(b) : (t \o b)[i] = b[i - (Len(s) + 2)]
  <2>1. t \in Seq(S) /\ Len(t) = Len(s) + 2 /\ Len(s) \in Nat /\ Len(b) \in Nat
    BY <1>2
  <2>2. t \o b \in Seq(S)
    BY <2>1
  <2>3. Len(t \o b) = Len(t) + Len(b)
    BY <2>1
  <2>4. \A i \in 1 .. Len(t) : (t \o b)[i] = t[i]
    BY <2>1
  <2>5. \A i \in Len(t) + 1 .. Len(t) + Len(b) : (t \o b)[i] = b[i - Len(t)]
    BY <2>1
  <2> QED
    BY <2>1, <2>2, <2>3, <2>4, <2>5
<1>4. Pipe(s, f, h, b) = t \o b
  BY DEF Pipe, t
<1> QED
  BY <1>2, <1>3, <1>4 DEF Shaped

(* The head of a channel and the rest of it. *)
LEMMA HeadAndTail ==
  ASSUME NEW S, NEW b \in Seq(S), b # <<>>
  PROVE  /\ Head(b) \in S /\ Tail(b) \in Seq(S)
         /\ Len(b) \in Nat \ {0} /\ Len(Tail(b)) = Len(b) - 1
         /\ b[1] = Head(b)
         /\ \A i \in 1 .. Len(b) - 1 : Tail(b)[i] = b[i + 1]
<1>1. Len(b) \in Nat \ {0}
  BY EmptySeq
<1> QED
  BY <1>1, HeadTailProperties

(* SubscribeEvents takes an event from the channel. *)
LEMMA TakeEvent ==
  ASSUME NEW S, NEW w, NEW s \in Seq(S), NEW f \in S, NEW b \in Seq(S), Junk \in S,
         b # <<>>, EventsOf(w, Pipe(s, f, Junk, b))
  PROVE  EventsOf(w, Pipe(s, f, Head(b), Tail(b)))
<1> DEFINE r == Pipe(s, f, Junk, b)
           t == Tail(b)
           q == Pipe(s, f, Head(b), t)
           m == Len(s)
           n == Len(b)
<1>1. /\ Head(b) \in S /\ t \in Seq(S) /\ n \in Nat \ {0} /\ Len(t) = n - 1
      /\ b[1] = Head(b) /\ \A i \in 1 .. n - 1 : t[i] = b[i + 1]
  BY HeadAndTail
<1>2. Shaped(S, r, s, f, Junk, b)
  BY PipeShape
<1>3. Shaped(S, q, s, f, Head(b), t)
  BY <1>1, PipeShape
<1>4. m \in Nat
  OBVIOUS
<1> HIDE DEF r, q, t
<1> USE DEF Shaped
<1>5. Len(r) = Len(q) + 1 /\ m + 2 \in 1 .. Len(q) + 1
  BY <1>1, <1>2, <1>3, <1>4
<1>6. ASSUME NEW i \in 1 .. (m + 2) - 1
      PROVE  r[i] = q[i]
  <2>1. i \in 1 .. m \/ i = m + 1
    BY <1>4
  <2> QED
    BY <1>2, <1>3, <2>1
<1>7. ASSUME NEW i \in m + 2 .. Len(q)
      PROVE  r[i + 1] = q[i]
  <2>1. CASE i = m + 2
    <3>1. i + 1 \in m + 3 .. m + 2 + n /\ (i + 1) - (m + 2) = 1
      BY <1>1, <1>4, <2>1
    <3> QED
      BY <1>1, <1>2, <1>3, <2>1, <3>1
  <2>2. CASE i > m + 2
    <3>1. /\ i + 1 \in m + 3 .. m + 2 + n /\ i \in m + 3 .. m + 2 + Len(t)
          /\ (i + 1) - (m + 2) = (i - (m + 2)) + 1 /\ i - (m + 2) \in 1 .. n - 1
      BY <1>1, <1>3, <1>4, <2>2
    <3>2. t[i - (m + 2)] = b[(i - (m + 2)) + 1]
      BY <1>1, <3>1
    <3>3. r[i + 1] = b[(i + 1) - (m + 2)] /\ q[i] = t[i - (m + 2)]
      BY <1>2, <1>3, <3>1
    <3> QED
      BY <3>1, <3>2, <3>3
  <2> QED
    BY <1>4, <2>1, <2>2
<1>8. JunkAt(S, r, q, m + 2)
  BY <1>2, <1>3, <1>5, <1>6, <1>7 DEF JunkAt
<1>9. EventsOf(w, q) <=> EventsOf(w, r)
  BY <1>8, JunkAnywhere
<1> QED
  BY <1>9 DEF r, q, t

(* SubscribeEvents skips what does not decode. *)
LEMMA SkipJunk ==
  ASSUME NEW S, NEW w, NEW s \in Seq(S), NEW f \in S, NEW h \in S, NEW b \in Seq(S),
         b # <<>>, Head(b) = Junk, EventsOf(w, Pipe(s, f, h, b))
  PROVE  EventsOf(w, Pipe(s, f, h, Tail(b)))
<1> DEFINE r == Pipe(s, f, h, b)
           t == Tail(b)
           q == Pipe(s, f, h, t)
           m == Len(s)
           n == Len(b)
<1>1. /\ t \in Seq(S) /\ n \in Nat \ {0} /\ Len(t) = n - 1
      /\ b[1] = Junk /\ \A i \in 1 .. n - 1 : t[i] = b[i + 1]
  BY HeadAndTail
<1>2. Shaped(S, r, s, f, h, b)
  BY PipeShape
<1>3. Shaped(S, q, s, f, h, t)
  BY <1>1, PipeShape
<1>4. m \in Nat
  OBVIOUS
<1> HIDE DEF r, q, t
<1> USE DEF Shaped
<1>5. Len(r) = Len(q) + 1 /\ m + 3 \in 1 .. Len(q) + 1
  BY <1>1, <1>2, <1>3, <1>4
<1>6. ASSUME NEW i \in 1 .. (m + 3) - 1
      PROVE  r[i] = q[i]
  <2>1. i \in 1 .. m \/ i = m + 1 \/ i = m + 2
    BY <1>4
  <2> QED
    BY <1>2, <1>3, <2>1
<1>7. r[m + 3] = Junk
  <2>1. m + 3 \in m + 3 .. m + 2 + n /\ (m + 3) - (m + 2) = 1
    BY <1>1, <1>4
  <2> QED
    BY <1>1, <1>2, <2>1
<1>8. ASSUME NEW i \in m + 3 .. Len(q)
      PROVE  r[i + 1] = q[i]
  <2>1. /\ i + 1 \in m + 3 .. m + 2 + n /\ i \in m + 3 .. m + 2 + Len(t)
        /\ (i + 1) - (m + 2) = (i - (m + 2)) + 1 /\ i - (m + 2) \in 1 .. n - 1
    BY <1>1, <1>3, <1>4
  <2>2. t[i - (m + 2)] = b[(i - (m + 2)) + 1]
    BY <1>1, <2>1
  <2>3. r[i + 1] = b[(i + 1) - (m + 2)] /\ q[i] = t[i - (m + 2)]
    BY <1>2, <1>3, <2>1
  <2> QED
    BY <2>1, <2>2, <2>3
<1>9. JunkAt(S, r, q, m + 3)
  BY <1>2, <1>3, <1>5, <1>6, <1>7, <1>8 DEF JunkAt
<1>10. EventsOf(w, q) <=> EventsOf(w, r)
  BY <1>9, JunkAnywhere
<1> QED
  BY <1>10 DEF r, q, t

(* The handler takes an event from the forwarder. *)
LEMMA HandOver ==
  ASSUME NEW S, NEW w, NEW s \in Seq(S), NEW h \in S, NEW b \in Seq(S), Junk \in S,
         EventsOf(w, Pipe(s, Junk, h, b))
  PROVE  EventsOf(w, Pipe(s, h, Junk, b))
<1> DEFINE r == Pipe(s, Junk, h, b)
           v == Pipe(s, h, Junk, b)
           t == Append(s, h)
           q == t \o b
           m == Len(s)
           n == Len(b)
<1>1. m \in Nat /\ n \in Nat
  OBVIOUS
<1>2. Shaped(S, r, s, Junk, h, b)
  BY PipeShape
<1>3. Shaped(S, v, s, h, Junk, b)
  BY PipeShape
<1>4. /\ q \in Seq(S) /\ Len(q) = m + 1 + n
      /\ \A i \in 1 .. m : q[i] = s[i]
      /\ q[m + 1] = h
      /\ \A i \in m + 2 .. m + 1 + n : q[i] = b[i - (m + 1)]
  <2>1. /\ t \in Seq(S) /\ Len(t) = m + 1
        /\ \A i \in 1 .. m : t[i] = s[i]
        /\ t[m + 1] = h
    BY AppendProperties
  <2> HIDE DEF t
  <2>2. q \in Seq(S) /\ Len(q) = m + 1 + n
    BY <1>1, <2>1
  <2>3. \A i \in 1 .. m + 1 : q[i] = t[i]
    BY <1>1, <2>1
  <2>4. \A i \in m + 2 .. m + 1 + n : q[i] = b[i - (m + 1)]
    BY <1>1, <2>1
  <2> QED
    BY <1>1, <2>1, <2>2, <2>3, <2>4
<1> HIDE DEF r, v, q, t
<1> USE DEF Shaped
<1>5. \A i \in m + 2 .. Len(q) :
        /\ i + 1 \in m + 3 .. m + 2 + n /\ i \in m + 2 .. m + 1 + n
        /\ (i + 1) - (m + 2) = i - (m + 1)
  BY <1>1, <1>4
<1>6. EventsOf(w, q) <=> EventsOf(w, r)
  <2>1. Len(r) = Len(q) + 1 /\ m + 1 \in 1 .. Len(q) + 1
    BY <1>1, <1>2, <1>4
  <2>2. \A i \in 1 .. (m + 1) - 1 : r[i] = q[i]
    BY <1>1, <1>2, <1>4
  <2>3. ASSUME NEW i \in m + 1 .. Len(q)
        PROVE  r[i + 1] = q[i]
    <3>1. CASE i = m + 1
      BY <1>1, <1>2, <1>4, <3>1
    <3>2. CASE i > m + 1
      <4>1. i \in m + 2 .. Len(q)
        BY <1>1, <3>2
      <4> QED
        BY <1>2, <1>4, <1>5, <4>1
    <3> QED
      BY <1>1, <3>1, <3>2
  <2>4. JunkAt(S, r, q, m + 1)
    BY <1>2, <1>4, <2>1, <2>2, <2>3 DEF JunkAt
  <2> QED
    BY <2>4, JunkAnywhere
<1>7. EventsOf(w, q) <=> EventsOf(w, v)
  <2>1. Len(v) = Len(q) + 1 /\ m + 2 \in 1 .. Len(q) + 1
    BY <1>1, <1>3, <1>4
  <2>2. ASSUME NEW i \in 1 .. (m + 2) - 1
        PROVE  v[i] = q[i]
    <3>1. i \in 1 .. m \/ i = m + 1
      BY <1>1
    <3> QED
      BY <1>3, <1>4, <3>1
  <2>3. \A i \in m + 2 .. Len(q) : v[i + 1] = q[i]
    BY <1>3, <1>4, <1>5
  <2>4. JunkAt(S, v, q, m + 2)
    BY <1>3, <1>4, <2>1, <2>2, <2>3 DEF JunkAt
  <2> QED
    BY <2>4, JunkAnywhere
<1>8. EventsOf(w, r)
  BY DEF r
<1> QED
  BY <1>6, <1>7, <1>8 DEF v

(* The handler writes the event it holds. *)
LEMMA WriteOut ==
  ASSUME NEW S, NEW w, NEW s \in Seq(S), NEW f \in S, NEW h \in S, NEW b \in Seq(S),
         Junk \in S, EventsOf(w, Pipe(s, f, h, b))
  PROVE  EventsOf(w, Pipe(Append(s, f), Junk, h, b))
<1> DEFINE q == Pipe(s, f, h, b)
           t == Append(s, f)
           r == Pipe(t, Junk, h, b)
           m == Len(s)
           n == Len(b)
<1>1. m \in Nat /\ n \in Nat
  OBVIOUS
<1>2. Shaped(S, q, s, f, h, b)
  BY PipeShape
<1>3. /\ t \in Seq(S) /\ Len(t) = m + 1
      /\ \A i \in 1 .. m : t[i] = s[i]
      /\ t[m + 1] = f
  BY AppendProperties
<1>4. Shaped(S, r, t, Junk, h, b)
  BY <1>3, PipeShape
<1> HIDE DEF q, r, t
<1> USE DEF Shaped
<1>5. Len(r) = Len(q) + 1 /\ m + 2 \in 1 .. Len(q) + 1 /\ r[m + 2] = Junk
  BY <1>1, <1>2, <1>3, <1>4
<1>6. ASSUME NEW i \in 1 .. (m + 2) - 1
      PROVE  r[i] = q[i]
  <2>1. i \in 1 .. Len(t) /\ (i \in 1 .. m \/ i = m + 1)
    BY <1>1, <1>3
  <2>2. r[i] = t[i]
    BY <1>4, <2>1
  <2> QED
    BY <1>2, <1>3, <2>1, <2>2
<1>7. ASSUME NEW i \in m + 2 .. Len(q)
      PROVE  r[i + 1] = q[i]
  <2>1. CASE i = m + 2
    BY <1>1, <1>2, <1>3, <1>4, <2>1
  <2>2. CASE i > m + 2
    <3>1. /\ i \in m + 3 .. m + 2 + n /\ i + 1 \in Len(t) + 3 .. Len(t) + 2 + n
          /\ (i + 1) - (Len(t) + 2) = i - (m + 2)
      BY <1>1, <1>2, <1>3, <2>2
    <3> QED
      BY <1>2, <1>4, <3>1
  <2> QED
    BY <1>1, <2>1, <2>2
<1>8. JunkAt(S, r, q, m + 2)
  BY <1>2, <1>4, <1>5, <1>6, <1>7 DEF JunkAt
<1>9. EventsOf(w, q) <=> EventsOf(w, r)
  BY <1>8, JunkAnywhere
<1> QED
  BY <1>9 DEF q, r, t

(* The event the forwarder offers is the first one not written. *)
LEMMA OfferedIsNext ==
  ASSUME NEW S, NEW w, NEW s \in Seq(S), NEW h \in S, NEW b \in Seq(S), Junk \in S,
         \A i \in 1 .. Len(s) : s[i] # Junk,
         h # Junk, EventsOf(w, Pipe(s, Junk, h, b))
  PROVE  Len(s) < Len(w) /\ w[Len(s) + 1] = h
<1> DEFINE r == Pipe(s, Junk, h, b)
           m == Len(s)
<1>1. m \in Nat /\ Len(b) \in Nat
  OBVIOUS
<1>2. /\ Len(r) = m + 2 + Len(b)
      /\ \A i \in 1 .. m : r[i] = s[i]
      /\ r[m + 1] = Junk /\ r[m + 2] = h
  BY PipeShape DEF Shaped
<1>3. EventsOf(w, r)
  OBVIOUS
<1> HIDE DEF r
<1>4. Rank(r, 0) = 0
  <2>1. {i \in 1 .. 0 : r[i] # Junk} = {}
    OBVIOUS
  <2> QED
    BY <2>1, FS_EmptySet DEF Rank
<1>5. Rank(r, m) = m
  <2>1. 0 \in Nat /\ m >= 0 /\ \A i \in 0 + 1 .. m : r[i] # Junk
    BY <1>1, <1>2
  <2>2. Rank(r, m) = Rank(r, 0) + (m - 0)
    BY <1>1, <2>1, RankEvents
  <2> QED
    BY <1>1, <1>4, <2>2
<1>6. Rank(r, m + 1) = m
  <2>1. Rank(r, m + 1) = Rank(r, m)
    BY <1>1, <1>2, RankJunk
  <2> QED
    BY <1>5, <2>1
<1>7. Rank(r, m + 2) = m + 1
  <2>1. Rank(r, m + 2) = Rank(r, m + 1) + ((m + 2) - (m + 1))
    BY <1>1, <1>2, RankEvents
  <2> QED
    BY <1>1, <1>6, <2>1
<1>8. Len(w) = Rank(r, Len(r)) /\ w[Rank(r, m + 2)] = h
  BY <1>1, <1>2, <1>3 DEF EventsOf
<1>9. Rank(r, m + 2) <= Rank(r, Len(r)) /\ Rank(r, Len(r)) \in Nat
  <2>1. Len(r) \in Nat /\ m + 2 \in 0 .. Len(r)
    BY <1>1, <1>2
  <2> QED
    BY <2>1, RankGrows, RankNat
<1> QED
  BY <1>1, <1>7, <1>8, <1>9

==============================================================================
