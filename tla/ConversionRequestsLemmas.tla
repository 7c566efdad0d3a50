---------------------- MODULE ConversionRequestsLemmas ----------------------
(***************************************************************************)
(* What the operations of the conversion queue return and preserve, for    *)
(* queues of any length over any ids and texts, and what FlattenSeq makes  *)
(* of a sequence of texts.                                                 *)
(*                                                                         *)
(* FlattenSeq is defined by recursion.  What it returns is proved by the   *)
(* least-element argument (Induction), over a set of numbers instead of an *)
(* operator.                                                               *)
(***************************************************************************)
EXTENDS ConversionRequests, SequencesExt, FiniteSetTheorems, SequenceTheorems,
        WellFoundedInduction, TLAPS

\* The pending positions of a queue are finitely many, so that the capacity
\* comparison of Full() compares numbers.
LEMMA PendingFinite ==
  ASSUME NEW S, NEW q \in Seq(S)
  PROVE  /\ IsFiniteSet(PendingAt(q))
         /\ Cardinality(PendingAt(q)) \in Nat
<1>1. IsFiniteSet(1..Len(q))
  BY LenProperties, FS_Interval
<1>2. PendingAt(q) \in SUBSET (1..Len(q))
  BY LenProperties DEF PendingAt
<1> QED
  BY <1>1, <1>2, FS_Subset, FS_CardinalityType

\* A queue whose pending positions are among those of another has no more of
\* them.
LEMMA FewerPending ==
  ASSUME NEW S, NEW q \in Seq(S), NEW r \in Seq(S), PendingAt(r) \subseteq PendingAt(q)
  PROVE  Cardinality(PendingAt(r)) <= Cardinality(PendingAt(q))
BY PendingFinite, FS_Subset

\* Appending adds at most the new position to the pending ones, and none when
\* what is appended is settled.
LEMMA AppendPending ==
  ASSUME NEW S, NEW q \in Seq(S), NEW req \in S
  PROVE  /\ Cardinality(PendingAt(Append(q, req))) <= Cardinality(PendingAt(q)) + 1
         /\ req.state # "Pending" =>
              Cardinality(PendingAt(Append(q, req))) <= Cardinality(PendingAt(q))
<1> DEFINE r == Append(q, req)
           n == Len(q) + 1
<1>1. /\ r \in Seq(S) /\ Len(r) = n /\ r[n] = req
      /\ \A i \in 1..Len(q) : r[i] = q[i]
  BY AppendProperties
<1>2. /\ DOMAIN r = 1..n /\ DOMAIN q = 1..Len(q) /\ Len(q) \in Nat
  BY <1>1, LenProperties
<1>3. PendingAt(r) \subseteq PendingAt(q) \cup {n}
  BY <1>1, <1>2 DEF PendingAt
<1>4. ASSUME req.state # "Pending" PROVE PendingAt(r) \subseteq PendingAt(q)
  BY <1>1, <1>2, <1>4 DEF PendingAt
<1>0. /\ Cardinality(PendingAt(r)) \in Nat
      /\ IsFiniteSet(PendingAt(q)) /\ Cardinality(PendingAt(q)) \in Nat
  BY <1>1, PendingFinite
<1> HIDE DEF r, n
<1>5. /\ IsFiniteSet(PendingAt(q) \cup {n})
      /\ Cardinality(PendingAt(q) \cup {n}) <= Cardinality(PendingAt(q)) + 1
  <2>1. /\ IsFiniteSet(PendingAt(q) \cup {n})
        /\ Cardinality(PendingAt(q) \cup {n}) =
             IF n \in PendingAt(q) THEN Cardinality(PendingAt(q))
                                    ELSE Cardinality(PendingAt(q)) + 1
    BY <1>0, FS_AddElement
  <2> QED BY <1>0, <2>1
<1>6. Cardinality(PendingAt(r)) <= Cardinality(PendingAt(q)) + 1
  <2>1. /\ Cardinality(PendingAt(r)) <= Cardinality(PendingAt(q) \cup {n})
        /\ Cardinality(PendingAt(q) \cup {n}) \in Nat
    BY <1>3, <1>5, FS_Subset, FS_CardinalityType
  <2> QED BY <1>0, <1>5, <2>1
<1> QED
  BY <1>1, <1>4, <1>6, FewerPending DEF r

\* Taking requests from the front leaves a suffix, with no more pending
\* requests than before.
LEMMA SuffixPending ==
  ASSUME NEW S, NEW q \in Seq(S), NEW n \in Nat, n <= Len(q)
  PROVE  LET r == SubSeq(q, n + 1, Len(q))
         IN  /\ r \in Seq(S)
             /\ DOMAIN r = 1..(Len(q) - n)
             /\ \A i \in DOMAIN r : i + n \in DOMAIN q /\ r[i] = q[i + n]
             /\ Cardinality(PendingAt(r)) <= Cardinality(PendingAt(q))
<1> DEFINE r == SubSeq(q, n + 1, Len(q))
<1>0. Len(q) \in Nat /\ DOMAIN q = 1..Len(q) /\ \A i \in 1..Len(q) : q[i] \in S
  BY LenProperties, ElementOfSeq
<1>1. /\ r \in Seq(S)
      /\ Len(r) = IF n + 1 <= Len(q) THEN Len(q) - (n + 1) + 1 ELSE 0
      /\ \A i \in 1..(Len(q) - (n + 1) + 1) : r[i] = q[(n + 1) + i - 1]
  <2>1. \A i \in (n + 1)..Len(q) : q[i] \in S
    BY <1>0
  <2>2. n + 1 \in Int /\ Len(q) \in Int
    BY <1>0
  <2> QED BY <2>1, <2>2, SubSeqProperties
<1> HIDE DEF r
<1>2. DOMAIN r = 1..(Len(q) - n)
  <2>1. DOMAIN r = 1..Len(r)
    BY <1>1, LenProperties
  <2>2. Len(r) = Len(q) - n
    <3>1. Len(q) \in Nat /\ Len(r) = IF n + 1 <= Len(q) THEN Len(q) - (n + 1) + 1 ELSE 0
      BY <1>0, <1>1
    <3>2. CASE n + 1 <= Len(q)
      BY <3>1, <3>2
    <3>3. CASE ~(n + 1 <= Len(q))
      BY <3>1, <3>3
    <3> QED BY <3>2, <3>3
  <2> QED BY <2>1, <2>2
<1>3. \A i \in DOMAIN r : i + n \in DOMAIN q /\ r[i] = q[i + n]
  <2> SUFFICES ASSUME NEW i \in 1..(Len(q) - n)
               PROVE  i + n \in 1..Len(q) /\ r[i] = q[i + n]
    BY <1>0, <1>2
  <2>1. i \in 1..(Len(q) - (n + 1) + 1) /\ (n + 1) + i - 1 = i + n /\ i + n \in 1..Len(q)
    BY <1>0
  <2> QED BY <1>1, <2>1
<1>4. Cardinality(PendingAt(r)) <= Cardinality(PendingAt(q))
  <2> DEFINE f == [i \in PendingAt(r) |-> i + n]
  <2>1. f \in [PendingAt(r) -> PendingAt(q)]
    BY <1>3 DEF PendingAt
  <2>2. \A i, j \in PendingAt(r) : f[i] = f[j] => i = j
    BY <1>2 DEF PendingAt
  <2>3. f \in Injection(PendingAt(r), PendingAt(q))
    BY <2>1, <2>2 DEF Injection, IsInjective
  <2> QED BY <2>3, PendingFinite, FS_Injection
<1> QED BY <1>1, <1>2, <1>3, <1>4 DEF r

\* MarkDone and MarkFailed keep every request where it is and what it is called,
\* settle only pending ones, and leave every other request alone.
LEMMA MarkProperties ==
  ASSUME NEW I, NEW T, NEW q \in Seq(ConversionRequest(I, T)), NEW id, NEW r,
         (\E result \in T : r = MarkDone(q, id, result)) \/ r = MarkFailed(q, id)
  PROVE  /\ r \in Seq(ConversionRequest(I, T))
         /\ DOMAIN r = DOMAIN q
         /\ \A i \in DOMAIN q : /\ r[i].id = q[i].id /\ r[i].source = q[i].source
                                /\ r[i] # q[i] => q[i].id = id /\ q[i].state = "Pending"
         /\ PendingAt(r) \subseteq PendingAt(q)
         /\ Cardinality(PendingAt(r)) <= Cardinality(PendingAt(q))
<1> DEFINE R == ConversionRequest(I, T)
<1>1. /\ Len(q) \in Nat /\ DOMAIN q = 1..Len(q)
      /\ \A i \in 1..Len(q) : q[i] \in R
  BY LenProperties, ElementOfSeq
<1>2. /\ DOMAIN r = 1..Len(q)
      /\ \A i \in 1..Len(q) :
           \/ r[i] = q[i]
           \/ /\ q[i].id = id /\ q[i].state = "Pending"
              /\ \/ \E result \in T :
                      r[i] = [q[i] EXCEPT !.state = "Done", !.result = result]
                 \/ r[i] = [q[i] EXCEPT !.state = "Failed"]
  <2>1. CASE \E result \in T : r = MarkDone(q, id, result)
    BY <1>1, <2>1 DEF MarkDone, Marks
  <2>2. CASE r = MarkFailed(q, id)
    BY <1>1, <2>2 DEF MarkFailed, Marks
  <2> QED BY <2>1, <2>2
<1>3. \A i \in 1..Len(q) :
        /\ r[i] \in R /\ r[i].id = q[i].id /\ r[i].source = q[i].source
        /\ r[i] # q[i] => q[i].id = id /\ q[i].state = "Pending"
        /\ r[i].state = "Pending" => q[i].state = "Pending"
  <2> SUFFICES ASSUME NEW i \in 1..Len(q)
               PROVE  /\ r[i] \in R /\ r[i].id = q[i].id /\ r[i].source = q[i].source
                      /\ r[i] # q[i] => q[i].id = id /\ q[i].state = "Pending"
                      /\ r[i].state = "Pending" => q[i].state = "Pending"
    OBVIOUS
  <2>1. q[i] \in R
    BY <1>1
  <2>2. CASE r[i] = q[i]
    BY <2>1, <2>2
  <2>3. CASE /\ q[i].id = id /\ q[i].state = "Pending"
             /\ \/ \E result \in T :
                     r[i] = [q[i] EXCEPT !.state = "Done", !.result = result]
                \/ r[i] = [q[i] EXCEPT !.state = "Failed"]
    BY <2>1, <2>3 DEF ConversionRequest, ConvState
  <2> QED BY <1>2, <2>2, <2>3
<1>4. r \in Seq(R)
  <2>1. r = [i \in 1..Len(q) |-> r[i]]
    <3>1. CASE \E result \in T : r = MarkDone(q, id, result)
      BY <1>1, <3>1 DEF MarkDone
    <3>2. CASE r = MarkFailed(q, id)
      BY <1>1, <3>2 DEF MarkFailed
    <3> QED BY <3>1, <3>2
  <2>2. [i \in 1..Len(q) |-> r[i]] \in Seq(R)
    BY <1>1, <1>3, IsASeq
  <2> QED BY <2>1, <2>2
<1>5. PendingAt(r) \subseteq PendingAt(q)
  BY <1>1, <1>2, <1>3 DEF PendingAt
<1> QED
  BY <1>1, <1>2, <1>3, <1>4, <1>5, FewerPending

\* What a mark writes: the answer, or nothing but the failure.
LEMMA MarkOutcome ==
  ASSUME NEW I, NEW T, NEW q \in Seq(ConversionRequest(I, T)), NEW id,
         NEW i \in DOMAIN q
  PROVE  /\ \A result : \/ MarkDone(q, id, result)[i] = q[i]
                        \/ MarkDone(q, id, result)[i].result = result
         /\ \/ MarkFailed(q, id)[i] = q[i]
            \/ MarkFailed(q, id)[i].state = "Failed"
<1>1. q[i] \in ConversionRequest(I, T)
  BY LenProperties, ElementOfSeq
<1> QED
  BY <1>1 DEF MarkDone, MarkFailed, ConversionRequest

\* What PopReadyInOrder's loop leaves is a suffix of the queue.
LEMMA ReadyCountBounds ==
  ASSUME NEW S, NEW q \in Seq(S)
  PROVE  ReadyCount(q) \in Nat /\ ReadyCount(q) <= Len(q)
<1> DEFINE ready == {i \in DOMAIN q : \A j \in 1..i : q[j].state # "Pending"}
<1>1. Len(q) \in Nat /\ DOMAIN q = 1..Len(q)
  BY LenProperties
<1>2. /\ IsFiniteSet(1..Len(q))
      /\ Cardinality(1..Len(q)) = Len(q)
  BY <1>1, FS_Interval
<1>3. ready \in SUBSET (1..Len(q))
  BY <1>1
<1>4. /\ IsFiniteSet(ready)
      /\ Cardinality(ready) <= Cardinality(1..Len(q))
  BY <1>2, <1>3, FS_Subset
<1> QED
  BY <1>1, <1>2, <1>4, FS_CardinalityType DEF ReadyCount

----------------------------------------------------------------------------
\* Texts: sequences put one after another.

\* Induction over a set: the least number outside it has a predecessor in it.
LEMMA Induction ==
  ASSUME NEW T, 0 \in T, \A n \in Nat : n \in T => n + 1 \in T
  PROVE  \A n \in Nat : n \in T
<1> DEFINE R == OpToRel(<, Nat)
           U == Nat \ T
<1>1. IsWellFoundedOn(R, Nat)
  BY NatLessThanWellFounded
<1>2. \A m, n \in Nat : m < n => <<m, n>> \in R
  BY DEF OpToRel
<1> SUFFICES ASSUME U # {} PROVE FALSE
  OBVIOUS
<1>3. PICK n \in U : \A m \in U : ~(<<m, n>> \in R)
  <2> HIDE DEF R, U
  <2>1. U \subseteq Nat
    BY DEF U
  <2> QED BY <1>1, <2>1, WFMin
<1>4. n # 0 /\ n - 1 \in Nat /\ n - 1 < n
  OBVIOUS
<1>5. n - 1 \in T
  BY <1>2, <1>3, <1>4
<1> QED BY <1>4, <1>5

\* FlattenSeq is defined by a recursive function over the positions; there is
\* exactly one such function, and its values are sequences.
Flattens(ss, f) == f = [i \in 1..Len(ss) |-> IF i = 1 THEN ss[i] ELSE f[i-1] \o ss[i]]

LEMMA FlattensExists ==
  ASSUME NEW S, NEW ss \in Seq(Seq(S))
  PROVE  \E f \in [1..Len(ss) -> Seq(S)] : Flattens(ss, f)
<1> DEFINE Up(n, f) == \A i \in 1..n : f[i] = IF i = 1 THEN ss[i] ELSE f[i-1] \o ss[i]
           P(n) == n <= Len(ss) => \E f \in [1..n -> Seq(S)] : Up(n, f)
           T == {n \in Nat : P(n)}
<1>1. Len(ss) \in Nat /\ \A i \in 1..Len(ss) : ss[i] \in Seq(S)
  BY LenProperties, ElementOfSeq
<1>2. P(0)
  <2>1. [i \in 1..0 |-> <<>>] \in [1..0 -> Seq(S)]
    OBVIOUS
  <2>2. Up(0, [i \in 1..0 |-> <<>>])
    OBVIOUS
  <2> HIDE DEF Up
  <2> QED BY <2>1, <2>2
<1>3. ASSUME NEW n \in Nat, P(n) PROVE P(n + 1)
  <2> SUFFICES ASSUME n + 1 <= Len(ss)
               PROVE  \E f \in [1..(n + 1) -> Seq(S)] : Up(n + 1, f)
    OBVIOUS
  <2>1. PICK f \in [1..n -> Seq(S)] : Up(n, f)
    <3> HIDE DEF Up
    <3>1. n <= Len(ss)
      BY <1>1
    <3> QED BY <1>3, <3>1
  <2> DEFINE last == IF n = 0 THEN ss[n + 1] ELSE f[n] \o ss[n + 1]
             g == [i \in 1..(n + 1) |-> IF i <= n THEN f[i] ELSE last]
  <2>2. last \in Seq(S)
    <3>1. ss[n + 1] \in Seq(S)
      BY <1>1
    <3>2. CASE n = 0
      BY <3>1, <3>2
    <3>3. CASE n # 0
      <4>1. f[n] \in Seq(S)
        BY <3>3
      <4> QED BY <3>1, <3>3, <4>1, ConcatProperties
    <3> QED BY <3>2, <3>3
  <2>3. g \in [1..(n + 1) -> Seq(S)]
    <3> HIDE DEF last
    <3> QED BY <2>2
  <2>4. Up(n + 1, g)
    <3> SUFFICES ASSUME NEW i \in 1..(n + 1)
                 PROVE  g[i] = IF i = 1 THEN ss[i] ELSE g[i-1] \o ss[i]
      OBVIOUS
    <3>1. CASE i <= n
      <4> HIDE DEF last
      <4>0. i \in 1..n
        BY <3>1
      <4>1. g[i] = f[i] /\ f[i] = IF i = 1 THEN ss[i] ELSE f[i-1] \o ss[i]
        BY <2>1, <3>1, <4>0
      <4>2. i # 1 => g[i-1] = f[i-1]
        BY <3>1
      <4> HIDE DEF g
      <4> QED BY <4>1, <4>2
    <3>2. CASE i = n + 1
      <4>1. g[i] = last
        BY <3>2
      <4>2. n # 0 => g[i-1] = f[n]
        <5> HIDE DEF last
        <5> QED BY <3>2
      <4>3. i = 1 <=> n = 0
        BY <3>2
      <4> HIDE DEF g
      <4> QED BY <3>2, <4>1, <4>2, <4>3
    <3>3. i <= n \/ i = n + 1
      OBVIOUS
    <3> QED BY <3>1, <3>2, <3>3
  <2> HIDE DEF Up, g
  <2> QED BY <2>3, <2>4
<1>4. P(Len(ss))
  <2> HIDE DEF P
  <2>1. 0 \in T /\ \A n \in Nat : n \in T => n + 1 \in T
    BY <1>2, <1>3
  <2>2. \A n \in Nat : n \in T
    <3> HIDE DEF T
    <3> QED BY <2>1, Induction
  <2> QED BY <1>1, <2>2
<1>5. PICK f \in [1..Len(ss) -> Seq(S)] : Up(Len(ss), f)
  <2> HIDE DEF Up
  <2> QED BY <1>1, <1>4
<1>6. f = [i \in 1..Len(ss) |-> IF i = 1 THEN ss[i] ELSE f[i-1] \o ss[i]]
  BY <1>5
<1> QED BY <1>6 DEF Flattens

\* The function for a longer list extends the one for a shorter.

Agree(f, g, m) == \A i \in 1..m : f[i] = g[i]

Upto(ss, m, f) == \A i \in 1..m : f[i] = IF i = 1 THEN ss[i] ELSE f[i-1] \o ss[i]

LEMMA FlattensSame ==
  \A ss, tt, f, g : \A m \in Nat :
     Upto(ss, m, f) /\ Upto(tt, m, g) /\ Agree(tt, ss, m) => Agree(f, g, m)
<1> SUFFICES ASSUME NEW ss, NEW tt, NEW f, NEW g, NEW m \in Nat,
                    Upto(ss, m, f), Upto(tt, m, g), Agree(tt, ss, m)
             PROVE  Agree(f, g, m)
  OBVIOUS
<1> DEFINE T == {n \in Nat : n \in 1..m => f[n] = g[n]}
<1>0. /\ \A i \in 1..m : f[i] = IF i = 1 THEN ss[i] ELSE f[i-1] \o ss[i]
      /\ \A i \in 1..m : g[i] = IF i = 1 THEN tt[i] ELSE g[i-1] \o tt[i]
      /\ \A i \in 1..m : tt[i] = ss[i]
  BY DEF Upto, Agree
<1>2. 0 \in T
  OBVIOUS
<1>3. ASSUME NEW n \in Nat, n \in T PROVE n + 1 \in T
  <2> SUFFICES ASSUME n + 1 \in 1..m PROVE f[n + 1] = g[n + 1]
    OBVIOUS
  <2>1. CASE n = 0
    BY <1>0, <2>1
  <2>2. CASE n # 0
    <3>1. f[n] = g[n] /\ (n + 1) - 1 = n /\ n + 1 # 1
      BY <1>3, <2>2
    <3> QED BY <1>0, <3>1
  <2> QED BY <2>1, <2>2
<1> HIDE DEF T
<1>4. \A n \in Nat : n \in T
  BY <1>2, <1>3, Induction
<1> QED BY <1>4 DEF T, Agree

LEMMA FlattenFcn ==
  ASSUME NEW S, NEW ss \in Seq(Seq(S)), ss # <<>>
  PROVE  \E f \in [1..Len(ss) -> Seq(S)] :
            Flattens(ss, f) /\ FlattenSeq(ss) = f[Len(ss)]
<1> DEFINE flatten == CHOOSE f : f = [i \in 1..Len(ss) |-> IF i = 1 THEN ss[i] ELSE f[i-1] \o ss[i]]
<1>1. Len(ss) \in Nat \ {0}
  BY EmptySeq
<1>2. PICK f \in [1..Len(ss) -> Seq(S)] : Flattens(ss, f)
  BY FlattensExists
<1>3. Flattens(ss, flatten)
  BY <1>2 DEF Flattens
<1>4. FlattenSeq(ss) = flatten[Len(ss)]
  BY <1>1 DEF FlattenSeq
<1> HIDE DEF flatten
<1>5. flatten[Len(ss)] = f[Len(ss)]
  <2>1. Upto(ss, Len(ss), f) /\ Upto(ss, Len(ss), flatten)
    BY <1>2, <1>3 DEF Flattens, Upto
  <2>2. Agree(ss, ss, Len(ss))
    BY DEF Agree
  <2>3. Agree(flatten, f, Len(ss))
    BY <1>1, <2>1, <2>2, FlattensSame
  <2> QED BY <1>1, <2>3 DEF Agree
<1> QED BY <1>2, <1>4, <1>5

LEMMA FlattenEmpty == FlattenSeq(<<>>) = <<>>
BY DEF FlattenSeq

LEMMA FlattenType ==
  ASSUME NEW S, NEW ss \in Seq(Seq(S))
  PROVE  FlattenSeq(ss) \in Seq(S)
<1>1. CASE ss = <<>>
  BY <1>1, FlattenEmpty, EmptySeq
<1>2. CASE ss # <<>>
  <2>1. Len(ss) \in 1..Len(ss)
    BY <1>2, EmptySeq
  <2>2. PICK f \in [1..Len(ss) -> Seq(S)] : FlattenSeq(ss) = f[Len(ss)]
    BY <1>2, FlattenFcn
  <2> QED BY <2>1, <2>2
<1> QED BY <1>1, <1>2

\* Flattening a list with one more sequence in it.
LEMMA FlattenAppend ==
  ASSUME NEW S, NEW ss \in Seq(Seq(S)), NEW s \in Seq(S)
  PROVE  FlattenSeq(Append(ss, s)) = FlattenSeq(ss) \o s
<1> DEFINE tt == Append(ss, s)
           n == Len(ss)
<1>1. /\ tt \in Seq(Seq(S)) /\ tt # <<>> /\ Len(tt) = n + 1 /\ n \in Nat
      /\ \A i \in 1..n : tt[i] = ss[i]
      /\ tt[n + 1] = s
  BY AppendProperties, LenProperties
<1> HIDE DEF tt
<1>2. PICK g \in [1..(n + 1) -> Seq(S)] : Flattens(tt, g) /\ FlattenSeq(tt) = g[n + 1]
  BY <1>1, FlattenFcn
<1>3. g[n + 1] = IF n + 1 = 1 THEN tt[n + 1] ELSE g[(n + 1) - 1] \o tt[n + 1]
  <2>1. g = [i \in 1..Len(tt) |-> IF i = 1 THEN tt[i] ELSE g[i-1] \o tt[i]]
    BY <1>2 DEF Flattens
  <2>2. n + 1 \in 1..Len(tt)
    BY <1>1
  <2> HIDE DEF n
  <2> QED BY <2>1, <2>2
<1>4. CASE ss = <<>>
  <2>1. n = 0 /\ FlattenSeq(ss) = <<>>
    BY <1>4, FlattenEmpty, EmptySeq
  <2>2. <<>> \o s = s
    BY ConcatEmptySeq
  <2> QED BY <1>1, <1>2, <1>3, <2>1, <2>2 DEF tt
<1>5. CASE ss # <<>>
  <2>1. n # 0
    BY <1>5, EmptySeq
  <2>2. PICK f \in [1..n -> Seq(S)] : Flattens(ss, f) /\ FlattenSeq(ss) = f[n]
    BY <1>5, FlattenFcn
  <2>3. f[n] = g[n]
    <3>1. \A i \in 1..n : f[i] = g[i]
      <4>1. Upto(ss, n, f)
        BY <1>1, <2>2 DEF Flattens, Upto
      <4>2. Upto(tt, n, g)
        <5>1. \A i \in 1..n : i \in 1..(n + 1)
          BY <1>1
        <5> HIDE DEF n
        <5>2. \A i \in 1..(n + 1) : g[i] = IF i = 1 THEN tt[i] ELSE g[i-1] \o tt[i]
          BY <1>1, <1>2 DEF Flattens
        <5> QED BY <5>1, <5>2 DEF Upto
      <4>3. n \in Nat /\ \A i \in 1..n : tt[i] = ss[i]
        BY <1>1
      <4> HIDE DEF n
      <4>4. Agree(tt, ss, n)
        BY <4>3 DEF Agree
      <4>5. Agree(f, g, n)
        BY <4>1, <4>2, <4>3, <4>4, FlattensSame, Zenon
      <4> QED BY <4>5 DEF Agree
    <3> QED BY <1>1, <2>1, <3>1
  <2>4. g[n + 1] = g[n] \o s
    BY <1>1, <1>3, <2>1
  <2> QED BY <1>2, <2>2, <2>3, <2>4 DEF tt
<1> QED BY <1>4, <1>5

\* ... and two lists one after the other.
LEMMA FlattenConcat ==
  ASSUME NEW S, NEW ss \in Seq(Seq(S)), NEW tt \in Seq(Seq(S))
  PROVE  FlattenSeq(ss \o tt) = FlattenSeq(ss) \o FlattenSeq(tt)
<1> DEFINE T == {n \in Nat : \A u \in Seq(Seq(S)) :
                   Len(u) = n => FlattenSeq(ss \o u) = FlattenSeq(ss) \o FlattenSeq(u)}
<1>1. 0 \in T
  <2> SUFFICES ASSUME NEW u \in Seq(Seq(S)), Len(u) = 0
               PROVE  FlattenSeq(ss \o u) = FlattenSeq(ss) \o FlattenSeq(u)
    OBVIOUS
  <2>1. u = <<>>
    BY EmptySeq
  <2>2. ss \o u = ss /\ FlattenSeq(ss) \o <<>> = FlattenSeq(ss)
    BY <2>1, ConcatEmptySeq, FlattenType
  <2> QED BY <2>1, <2>2, FlattenEmpty
<1>2. ASSUME NEW n \in Nat, n \in T PROVE n + 1 \in T
  <2> SUFFICES ASSUME NEW u \in Seq(Seq(S)), Len(u) = n + 1
               PROVE  FlattenSeq(ss \o u) = FlattenSeq(ss) \o FlattenSeq(u)
    OBVIOUS
  <2>1. PICK v \in Seq(Seq(S)), s \in Seq(S) : u = Append(v, s)
    <3>1. u # <<>>
      BY EmptySeq
    <3> QED BY <3>1, SequenceEmptyOrAppend
  <2>2. Len(v) = n
    BY <2>1, AppendProperties, LenProperties
  <2>3. FlattenSeq(ss \o v) = FlattenSeq(ss) \o FlattenSeq(v)
    BY <1>2, <2>2
  <2>4. ss \o u = Append(ss \o v, s) /\ ss \o v \in Seq(Seq(S))
    <3>1. u = v \o <<s>> /\ <<s>> \in Seq(Seq(S)) /\ ss \o v \in Seq(Seq(S))
      BY <2>1, AppendIsConcat, ConcatProperties
    <3>2. Append(ss \o v, s) = (ss \o v) \o <<s>>
      BY <3>1, AppendIsConcat
    <3>3. (ss \o v) \o <<s>> = ss \o (v \o <<s>>)
      <4> DEFINE w == <<s>>
                 U == Seq(S)
      <4>1. w \in Seq(U) /\ ss \in Seq(U) /\ v \in Seq(U)
        BY <3>1
      <4> HIDE DEF w, U
      <4>2. (ss \o v) \o w = ss \o (v \o w)
        BY <4>1, ConcatAssociative
      <4> QED BY <4>2 DEF w
    <3> QED BY <3>1, <3>2, <3>3
  <2>5. FlattenSeq(ss \o u) = (FlattenSeq(ss) \o FlattenSeq(v)) \o s
    BY <2>3, <2>4, FlattenAppend
  <2>6. FlattenSeq(u) = FlattenSeq(v) \o s
    BY <2>1, FlattenAppend
  <2>7. FlattenSeq(ss) \in Seq(S) /\ FlattenSeq(v) \in Seq(S)
    BY FlattenType
  <2>8. (FlattenSeq(ss) \o FlattenSeq(v)) \o s = FlattenSeq(ss) \o (FlattenSeq(v) \o s)
    <3> DEFINE x == FlattenSeq(ss)
               y == FlattenSeq(v)
    <3>1. x \in Seq(S) /\ y \in Seq(S) /\ s \in Seq(S)
      BY <2>7
    <3> HIDE DEF x, y
    <3>2. (x \o y) \o s = x \o (y \o s)
      BY <3>1, ConcatAssociative
    <3> QED BY <3>2 DEF x, y
  <2> QED BY <2>5, <2>6, <2>8
<1> HIDE DEF T
<1>3. \A n \in Nat : n \in T
  BY <1>1, <1>2, Induction
<1> QED BY <1>3, LenProperties DEF T

\* Flattening sequences with something in them gives something.
LEMMA FlattenNonempty ==
  ASSUME NEW S, NEW ss \in Seq(Seq(S)), \A i \in DOMAIN ss : ss[i] # <<>>
  PROVE  FlattenSeq(ss) = <<>> <=> ss = <<>>
<1>1. ASSUME ss # <<>> PROVE FlattenSeq(ss) # <<>>
  <2>1. PICK v \in Seq(Seq(S)), s \in Seq(S) : ss = Append(v, s)
    BY <1>1, SequenceEmptyOrAppend
  <2>2. FlattenSeq(ss) = FlattenSeq(v) \o s /\ FlattenSeq(v) \in Seq(S)
    BY <2>1, FlattenAppend, FlattenType
  <2>3. s # <<>>
    <3>1. Len(ss) = Len(v) + 1 /\ Len(v) \in Nat /\ ss[Len(v) + 1] = s
      BY <2>1, AppendProperties, LenProperties
    <3>2. DOMAIN ss = 1..Len(ss)
      BY LenProperties
    <3> QED BY <3>1, <3>2
  <2> QED BY <2>2, <2>3, ConcatEqualIffEmpty
<1> QED BY <1>1, FlattenEmpty

\* Flattening a list of one.
LEMMA FlattenOne ==
  ASSUME NEW S, NEW s \in Seq(S)
  PROVE  FlattenSeq(<<s>>) = s
<1>1. <<>> \in Seq(Seq(S)) /\ Append(<<>>, s) = <<s>>
  BY EmptySeq
<1>2. FlattenSeq(Append(<<>>, s)) = FlattenSeq(<<>>) \o s
  BY <1>1, FlattenAppend
<1> QED BY <1>1, <1>2, FlattenEmpty, ConcatEmptySeq

----------------------------------------------------------------------------
\* What PopReadyInOrder's loop takes and what it leaves.

\* It takes settled requests only, and stops at a pending one or at the end.
LEMMA ReadyStops ==
  ASSUME NEW S, NEW q \in Seq(S)
  PROVE  /\ \A i \in 1..ReadyCount(q) : q[i].state # "Pending"
         /\ ReadyCount(q) < Len(q) => q[ReadyCount(q) + 1].state = "Pending"
<1> DEFINE Stops(n, k) == /\ \A i \in 1..k : q[i].state # "Pending"
                          /\ k < n => q[k + 1].state = "Pending"
           T == {n \in Nat : \E k \in 0..n : Stops(n, k)}
<1>1. Len(q) \in Nat /\ DOMAIN q = 1..Len(q)
  BY LenProperties
<1>2. 0 \in T
  <2>1. 0 \in 0..0 /\ Stops(0, 0)
    OBVIOUS
  <2> QED BY <2>1
<1>3. ASSUME NEW n \in Nat, n \in T PROVE n + 1 \in T
  <2>1. PICK k \in 0..n : Stops(n, k)
    BY <1>3
  <2>2. CASE q[k + 1].state = "Pending"
    <3>1. k \in 0..(n + 1) /\ Stops(n + 1, k)
      BY <2>1, <2>2
    <3> QED BY <3>1
  <2>3. CASE q[k + 1].state # "Pending"
    <3>1. k = n
      BY <2>1, <2>3
    <3>2. n + 1 \in 0..(n + 1) /\ Stops(n + 1, n + 1)
      BY <2>1, <2>3, <3>1
    <3> QED BY <3>2
  <2> QED BY <2>2, <2>3
<1>4. \A n \in Nat : n \in T
  <2> HIDE DEF T
  <2> QED BY <1>2, <1>3, Induction
<1>5. PICK k \in 0..Len(q) : Stops(Len(q), k)
  BY <1>1, <1>4
<1>6. {i \in DOMAIN q : \A j \in 1..i : q[j].state # "Pending"} = 1..k
  BY <1>1, <1>5
<1>7. ReadyCount(q) = k
  <2>1. ReadyCount(q) = Cardinality(1..k)
    BY <1>6 DEF ReadyCount
  <2>2. Cardinality(1..k) = k
    <3>1. k \in Nat /\ 1 \in Int /\ k \in Int
      BY <1>1, <1>5
    <3>2. Cardinality(1..k) = IF 1 > k THEN 0 ELSE k - 1 + 1
      BY <3>1, FS_Interval
    <3> QED BY <3>1, <3>2
  <2> QED BY <2>1, <2>2
<1> QED BY <1>1, <1>5, <1>7

\* What is taken and what is left make up the queue.
LEMMA ReadySplit ==
  ASSUME NEW S, NEW q \in Seq(S)
  PROVE  /\ Ready(q) \in Seq(S) /\ Unready(q) \in Seq(S)
         /\ Ready(q) \o Unready(q) = q
         /\ Unready(q) # <<>> => Head(Unready(q)).state = "Pending"
         /\ PendingAt(q) = {} => Unready(q) = <<>>
         /\ q # <<>> /\ Ready(q) = <<>> => Unready(q) = q
<1> DEFINE k == ReadyCount(q)
<1>1. /\ Len(q) \in Nat /\ DOMAIN q = 1..Len(q)
      /\ \A i \in 1..Len(q) : q[i] \in S
  BY LenProperties, ElementOfSeq
<1>2. /\ k \in Nat /\ k <= Len(q)
      /\ k < Len(q) => q[k + 1].state = "Pending"
  BY ReadyCountBounds, ReadyStops
<1>3. Ready(q) = SubSeq(q, 1, k) /\ Unready(q) = SubSeq(q, k + 1, Len(q))
  BY DEF Ready, Unready
<1> HIDE DEF k
<1>4. SubSeq(q, 1, k) \in Seq(S) /\ SubSeq(q, k + 1, Len(q)) \in Seq(S)
  <2>1. (\A i \in 1..k : q[i] \in S) /\ (\A i \in (k + 1)..Len(q) : q[i] \in S)
    BY <1>1, <1>2
  <2>2. 1 \in Int /\ k \in Int /\ k + 1 \in Int /\ Len(q) \in Int
    BY <1>1, <1>2
  <2> QED BY <2>1, <2>2, SubSeqProperties
<1>5. SubSeq(q, 1, k) \o SubSeq(q, k + 1, Len(q)) = q
  <2>1. 1 \in 1..(Len(q) + 1) /\ k \in (1 - 1)..Len(q) /\ Len(q) \in k..Len(q)
    BY <1>1, <1>2
  <2> QED BY <2>1, ConcatAdjacentSubSeq, SubSeqFull
<1>6. Unready(q) # <<>> => k < Len(q)
  <2> SUFFICES ASSUME ~(k < Len(q)) PROVE SubSeq(q, k + 1, Len(q)) = <<>>
    BY <1>3
  <2>1. Len(q) < k + 1 /\ k + 1 \in Int /\ Len(q) \in Int
    BY <1>1, <1>2
  <2> QED BY <2>1, SubSeqEmpty
<1>7. Unready(q) # <<>> => Head(Unready(q)).state = "Pending"
  <2> SUFFICES ASSUME k < Len(q) PROVE Head(SubSeq(q, k + 1, Len(q))).state = "Pending"
    BY <1>3, <1>6
  <2>1. k + 1 \in 1..Len(q) /\ Len(q) \in (k + 1)..Len(q)
    BY <1>1, <1>2
  <2> QED BY <1>2, <2>1, HeadTailOfSubSeq
<1>8. PendingAt(q) = {} => Unready(q) = <<>>
  <2> SUFFICES ASSUME k < Len(q) PROVE k + 1 \in PendingAt(q)
    BY <1>6
  <2> QED BY <1>1, <1>2 DEF PendingAt
<1>9. Ready(q) = <<>> => Unready(q) = q
  BY <1>3, <1>4, <1>5, ConcatEmptySeq
<1> QED BY <1>3, <1>4, <1>5, <1>7, <1>8, <1>9

=============================================================================
