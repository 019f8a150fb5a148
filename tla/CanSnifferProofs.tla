-------------------------- MODULE CanSnifferProofs --------------------------
(* What holds of the guided sniffer whatever the bus, the scenario and the   *)
(* limits: types, the table of the best, the store, the mask. collectTop is  *)
(* a loop, so its proof is by induction over the table; the library's        *)
(* induction theorems cannot be instantiated here, so induction over the     *)
(* naturals is proved first, of a set, from the pigeonhole principle.        *)
EXTENDS CanSniffer, FiniteSetTheorems, SequenceTheorems, TLAPS

(* Induction on the natural numbers, of a set: were a number missing, its    *)
(* predecessors that are there would map one to one into themselves without  *)
(* zero.                                                                     *)
LEMMA Induction ==
  ASSUME NEW S \in SUBSET Nat, 0 \in S, \A n \in S : n + 1 \in S
  PROVE  S = Nat
<1> SUFFICES ASSUME NEW n \in Nat, n \notin S PROVE FALSE
  OBVIOUS
<1> DEFINE A == S \cap (0 .. n)
           next == [k \in A |-> k + 1]
<1>1. IsFiniteSet(A)
  <2>1. IsFiniteSet(0 .. n)
    BY FS_Interval
  <2>2. A \in SUBSET (0 .. n)
    OBVIOUS
  <2> QED BY <2>1, <2>2, FS_Subset
<1>2. 0 \in A
  OBVIOUS
<1>3. next \in [A -> A \ {0}] /\ \A i, j \in A : next[i] = next[j] => i = j
  OBVIOUS
<1> HIDE DEF next, A
<1>4. IsFiniteSet(A \ {0}) /\ Cardinality(A \ {0}) = Cardinality(A) - 1 /\ Cardinality(A) \in Nat
  BY <1>1, <1>2, FS_RemoveElement, FS_CardinalityType
<1>5. \E i, j \in A : i # j /\ next[i] = next[j]
  BY <1>1, <1>3, <1>4, FS_PigeonHole
<1> QED BY <1>3, <1>5

LEMMA LeastOf ==
  ASSUME NEW T \in SUBSET Nat, T # {}
  PROVE  \E n \in T : \A k \in T : n <= k
<1> DEFINE S == {n \in Nat : \A k \in T : n <= k}
<1>1. SUFFICES ASSUME \A n \in T : \E k \in T : ~(n <= k) PROVE FALSE
  OBVIOUS
<1>2. 0 \in S
  OBVIOUS
<1>3. ASSUME NEW n \in S PROVE n + 1 \in S
  <2>1. n \notin T
    BY <1>1
  <2>2. \A k \in T : n <= k /\ n # k /\ k \in Nat
    BY <2>1
  <2> QED BY <2>2
<1>4. S = Nat
  <2> HIDE DEF S
  <2>1. S \in SUBSET Nat
    BY DEF S
  <2> QED BY <1>2, <1>3, <2>1, Induction
<1>5. PICK n \in T : TRUE
  OBVIOUS
<1>6. n + 1 \in S
  <2> HIDE DEF S
  <2> QED BY <1>4
<1> QED BY <1>5, <1>6

(* A loop of N turns over a state in S, as a function t of the turns done.   *)
RunsLoop(t, S, first, N, turn) ==
  /\ t \in [0 .. N -> S]
  /\ \A i \in 0 .. N : t[i] = IF i = 0 THEN first ELSE turn[<<t[i - 1], i>>]

LEMMA Loop ==
  ASSUME NEW S, NEW first \in S, NEW N \in Nat, NEW turn \in [S \X (1 .. N) -> S]
  PROVE  \E t : RunsLoop(t, S, first, N, turn)
<1> DEFINE Is(t, n) == t \in [0 .. n -> S]
                      /\ \A i \in 0 .. n : t[i] = IF i = 0 THEN first ELSE turn[<<t[i - 1], i>>]
           M == {n \in Nat : n <= N => \E t : Is(t, n)}
<1>1. 0 \in M
  <2>1. Is([i \in 0 .. 0 |-> first], 0)
    OBVIOUS
  <2> QED BY <2>1
<1>2. ASSUME NEW n \in M PROVE n + 1 \in M
  <2>1. SUFFICES ASSUME n + 1 <= N PROVE \E t : Is(t, n + 1)
    OBVIOUS
  <2>2. PICK t : Is(t, n)
    BY <2>1
  <2> DEFINE u == [i \in 0 .. n + 1 |-> IF i = n + 1 THEN turn[<<t[n], n + 1>>] ELSE t[i]]
  <2>3. t[n] \in S /\ n + 1 \in 1 .. N
    BY <2>1, <2>2
  <2>4. <<t[n], n + 1>> \in S \X (1 .. N)
    BY <2>3
  <2>5. turn[<<t[n], n + 1>>] \in S
    BY <2>4
  <2>6. \A i \in 0 .. n : t[i] \in S
    BY <2>2
  <2>7. \A i \in 0 .. n + 1 : i = n + 1 \/ i \in 0 .. n
    OBVIOUS
  <2>8. u \in [0 .. n + 1 -> S]
    BY <2>5, <2>6, <2>7
  <2>9. ASSUME NEW i \in 0 .. n + 1
        PROVE  u[i] = IF i = 0 THEN first ELSE turn[<<u[i - 1], i>>]
    <3>1. CASE i = n + 1
      BY <3>1
    <3>2. CASE i \in 0 .. n
      <4>1. u[i] = t[i] /\ i # n + 1
        BY <3>2
      <4>2. i = 0 \/ u[i - 1] = t[i - 1]
        BY <3>2
      <4> QED BY <2>2, <3>2, <4>1, <4>2
    <3> QED BY <2>7, <3>1, <3>2
  <2>10. Is(u, n + 1)
    BY <2>8, <2>9
  <2> QED BY <2>10
<1>3. M = Nat
  <2> HIDE DEF M
  <2>1. M \in SUBSET Nat
    BY DEF M
  <2> QED BY <1>1, <1>2, <2>1, Induction
<1>4. PICK t : Is(t, N)
  <2>1. N \in M
    <3> HIDE DEF M
    <3> QED BY <1>3
  <2> QED BY <2>1
<1> QED BY <1>4 DEF RunsLoop

----------------------------------------------------------------------------
(* The insertion into the table of the best. *)

Cands == [slot : Nat, score : Nat]

LEMMA AheadTransitive ==
  \A c, d, e \in Cands : Ahead(c, d) /\ Ahead(d, e) => Ahead(c, e)
BY DEF Ahead, Cands

(* The place c goes to: everything from there to the end scores worse, and   *)
(* what is before it does not.                                               *)
LEMMA PlaceExists ==
  ASSUME NEW out \in Seq(Cands), NEW n \in Nat \ {0}, n - 1 <= Len(out), NEW c \in Cands
  PROVE  \E pos \in 1 .. n :
           /\ Shifted(out, n, c) =
                [k \in 1 .. n |-> IF k < pos THEN out[k] ELSE IF k = pos THEN c ELSE out[k - 1]]
           /\ pos = 1 \/ out[pos - 1].score <= c.score
           /\ \A q \in pos .. n - 1 : out[q].score > c.score
<1> DEFINE P == {p \in 1 .. n : \A q \in p .. n - 1 : out[q].score > c.score}
           Place(p) == /\ p = 1 \/ out[p - 1].score <= c.score
                       /\ \A q \in p .. n - 1 : out[q].score > c.score
<1>1. n \in P /\ P \in SUBSET Nat
  OBVIOUS
<1>2. PICK p \in P : \A k \in P : p <= k
  <2> HIDE DEF P
  <2> QED BY <1>1, LeastOf
<1>3. Place(p)
  <2>1. ASSUME p # 1, ~(out[p - 1].score <= c.score) PROVE FALSE
    <3>1. p - 1 \in 1 .. Len(out) /\ p - 1 \in 1 .. n
      BY <2>1, <1>2
    <3>2. out[p - 1] \in Cands
      BY <3>1
    <3>3. out[p - 1].score > c.score
      BY <2>1, <3>2 DEF Cands
    <3>4. \A q \in p - 1 .. n - 1 : q = p - 1 \/ q \in p .. n - 1
      BY <3>1
    <3>5. p - 1 \in P
      BY <3>1, <3>3, <3>4, <1>2
    <3> QED BY <3>5, <3>1, <1>2
  <2> QED BY <2>1, <1>2
<1>4. \E pos \in 1 .. n : Place(pos)
  BY <1>2, <1>3
<1> DEFINE pos == CHOOSE x \in 1 .. n : Place(x)
<1>5. pos \in 1 .. n /\ Place(pos)
  <2> HIDE DEF Place
  <2> QED BY <1>4
<1>6. Shifted(out, n, c) =
        [k \in 1 .. n |-> IF k < pos THEN out[k] ELSE IF k = pos THEN c ELSE out[k - 1]]
  BY DEF Shifted
<1> HIDE DEF pos
<1> QED BY <1>5, <1>6

(* What the table of the best holds of the candidates C, with room for max:  *)
(* the first of them, in their order.                                        *)
Best(out, C, max) ==
  /\ out \in Seq(C) /\ Len(out) <= max
  /\ \A k \in 1 .. Len(out) : \A j \in 1 .. k - 1 : Ahead(out[j], out[k])
  /\ \A d \in C : \/ \E k \in 1 .. Len(out) : out[k] = d
                  \/ Len(out) = max /\ \A k \in 1 .. Len(out) : Ahead(out[k], d)

(* A byte of a later slot that is inserted is among the best with the others *)
(* that still are.                                                           *)
LEMMA InsertedIsBest ==
  ASSUME NEW C \in SUBSET Cands, NEW max \in Nat \ {0}, NEW out, Best(out, C, max),
         NEW c \in Cands, \A d \in C : d.slot < c.slot,
         NEW n \in {Len(out), Len(out) + 1}, n \in 1 .. max,
         n = Len(out) => n = max /\ c.score < out[n].score
  PROVE  Best(Shifted(out, n, c), C \cup {c}, max)
<1>1. out \in Seq(Cands) /\ Len(out) \in Nat /\ \A k \in 1 .. Len(out) : out[k] \in C /\ out[k] \in Cands
  BY DEF Best
<1>2. PICK pos \in 1 .. n :
           /\ Shifted(out, n, c) =
                [k \in 1 .. n |-> IF k < pos THEN out[k] ELSE IF k = pos THEN c ELSE out[k - 1]]
           /\ pos = 1 \/ out[pos - 1].score <= c.score
           /\ \A q \in pos .. n - 1 : out[q].score > c.score
  <2>1. n \in Nat \ {0} /\ n - 1 <= Len(out)
    BY <1>1
  <2> QED BY <1>1, <2>1, PlaceExists
<1> DEFINE new == Shifted(out, n, c)
<1>3. /\ \A k \in 1 .. pos - 1 : k \in 1 .. Len(out) /\ k \in 1 .. n /\ new[k] = out[k]
      /\ new[pos] = c
      /\ \A k \in pos + 1 .. n : k - 1 \in 1 .. Len(out) /\ k - 1 \in pos .. n - 1 /\ new[k] = out[k - 1]
      /\ \A k \in 1 .. n : k \in 1 .. pos - 1 \/ k = pos \/ k \in pos + 1 .. n
  BY <1>1, <1>2
<1>4. \A k \in 1 .. n : new[k] \in C \cup {c}
  BY <1>1, <1>3
<1>5. new \in Seq(C \cup {c}) /\ Len(new) = n
  BY <1>2, <1>4
<1> HIDE DEF new
<1>6. \A k \in 1 .. pos - 1 : Ahead(out[k], c)
  <2> TAKE k \in 1 .. pos - 1
  <2>1. k \in 1 .. Len(out) /\ pos - 1 \in 1 .. Len(out) /\ out[pos - 1].score <= c.score
    BY <1>2, <1>3, <1>1
  <2>2. k = pos - 1 \/ Ahead(out[k], out[pos - 1])
    BY <2>1 DEF Best
  <2>3. out[k].slot < c.slot /\ out[k] \in Cands /\ out[pos - 1] \in Cands
    BY <1>1, <2>1
  <2> QED BY <2>1, <2>2, <2>3 DEF Ahead, Cands
<1>7. \A k \in pos .. n - 1 : Ahead(c, out[k])
  BY <1>1, <1>2 DEF Ahead, Cands
<1>8. ASSUME NEW k \in 1 .. n, NEW j \in 1 .. k - 1 PROVE Ahead(new[j], new[k])
  <2>1. j \in 1 .. n /\ j < k
    OBVIOUS
  <2>2. \A a \in 1 .. Len(out), b \in 1 .. Len(out) : b < a => Ahead(out[b], out[a])
    BY DEF Best
  <2>3. CASE k \in 1 .. pos - 1
    BY <1>3, <2>1, <2>2, <2>3
  <2>4. CASE k = pos
    BY <1>3, <1>6, <2>1, <2>4
  <2>5. CASE k \in pos + 1 .. n
    <3>1. CASE j \in 1 .. pos - 1
      BY <1>3, <2>1, <2>2, <2>5, <3>1
    <3>2. CASE j = pos
      BY <1>3, <1>7, <2>5, <3>2
    <3>3. CASE j \in pos + 1 .. n
      BY <1>3, <2>1, <2>2, <2>5, <3>3
    <3> QED BY <3>1, <3>2, <3>3, <1>3, <2>1
  <2> QED BY <1>3, <2>3, <2>4, <2>5
<1>9. \A k \in 1 .. n : \/ k \in 1 .. pos - 1 /\ new[k] = out[k]
                        \/ k = pos /\ new[k] = c
                        \/ k \in pos + 1 .. n /\ new[k] = out[k - 1] /\ k - 1 \in 1 .. Len(out)
  BY <1>3
<1>10. ASSUME n = Len(out), NEW k \in 1 .. n PROVE Ahead(new[k], out[n])
  <2>1. \A j \in 1 .. n - 1 : Ahead(out[j], out[n])
    BY <1>10 DEF Best
  <2>2. Ahead(c, out[n])
    BY <1>10 DEF Ahead
  <2> QED BY <1>9, <2>1, <2>2, <1>10
<1>11. ASSUME NEW d \in C
       PROVE  \/ \E k \in 1 .. n : new[k] = d
              \/ n = max /\ \A k \in 1 .. n : Ahead(new[k], d)
  <2>1. CASE \E k \in 1 .. Len(out) : out[k] = d
    <3>1. PICK k \in 1 .. Len(out) : out[k] = d
      BY <2>1
    <3>2. CASE k < pos
      BY <3>1, <3>2, <1>3
    <3>3. CASE pos <= k /\ k < n
      <4>1. k + 1 \in pos + 1 .. n /\ (k + 1) - 1 = k /\ k + 1 \in 1 .. n
        BY <3>3
      <4> QED BY <3>1, <4>1, <1>3
    <3>4. CASE k = n
      <4>1. n = Len(out)
        BY <3>1, <3>4, <1>1
      <4> QED BY <4>1, <3>1, <3>4, <1>10
    <3> QED BY <3>2, <3>3, <3>4, <1>1
  <2>2. CASE Len(out) = max /\ \A k \in 1 .. Len(out) : Ahead(out[k], d)
    <3>1. n = Len(out) /\ n = max
      BY <2>2, <1>1
    <3>2. \A k \in 1 .. n : Ahead(new[k], out[n]) /\ Ahead(out[n], d) /\ new[k] \in Cands
      BY <3>1, <2>2, <1>10, <1>4, <1>1
    <3>3. out[n] \in Cands /\ d \in Cands
      BY <3>1, <1>1
    <3>4. \A k \in 1 .. n : Ahead(new[k], d)
      BY <3>2, <3>3, AheadTransitive
    <3> QED BY <3>1, <3>4
  <2> QED BY <2>1, <2>2 DEF Best
<1>12. \E k \in 1 .. n : new[k] = c
  BY <1>3
<1> QED BY <1>5, <1>8, <1>11, <1>12 DEF new, Best

----------------------------------------------------------------------------
(* collectTop. *)

Slots == [id : Ids, last : Values, base_val : Values, rises : Counters,
          falls : Counters, noisy : BOOLEAN]

LEMMA CounterWraps ==
  \A n \in Nat : n % CounterMod \in Counters
BY LimitsAssumption DEF Counters

CandidatesUpTo(m, exp, n) ==
  {Candidate(m, exp, i) : i \in {j \in 1 .. n : Matches(m, slots[j])}}

LEMMA CandidateType ==
  ASSUME slots \in Seq(Slots), NEW m, NEW exp \in Nat, NEW i \in 1 .. Len(slots),
         Matches(m, slots[i])
  PROVE  Candidate(m, exp, i) \in Cands /\ Candidate(m, exp, i).slot = i
<1>1. slots[i] \in Slots
  OBVIOUS
<1>2. slots[i].rises \in Nat /\ slots[i].falls \in Nat
  BY <1>1, LimitsAssumption DEF Slots, Counters
<1>3. changes(slots[i]) \in Nat
  <2>1. slots[i].rises + slots[i].falls \in Nat
    BY <1>2
  <2>2. changes(slots[i]) \in Counters
    BY <2>1, CounterWraps DEF changes
  <2> QED BY <2>2, LimitsAssumption DEF Counters
<1>4. Score(m, exp, slots[i]) \in Nat
  BY <1>2, <1>3 DEF Score, Distance, Matches
<1> QED BY <1>4 DEF Candidate, Cands

(* One turn takes the byte of the next slot, if it matches. *)
LEMMA TakeIsBest ==
  ASSUME slots \in Seq(Slots), NEW m, NEW exp \in Nat, NEW max \in Nat \ {0},
         NEW i \in 1 .. Len(slots), NEW out, Best(out, CandidatesUpTo(m, exp, i - 1), max)
  PROVE  Best(Take(m, exp, max, out, i), CandidatesUpTo(m, exp, i), max)
<1> DEFINE C == CandidatesUpTo(m, exp, i - 1)
           c == Candidate(m, exp, i)
<1>1. Matches(m, slots[i]) => c \in Cands /\ c.slot = i
  BY CandidateType
<1>2. C \in SUBSET Cands /\ \A d \in C : d.slot < i
  <2>1. \A j \in 1 .. i - 1 : j \in 1 .. Len(slots)
    OBVIOUS
  <2> QED BY <2>1, CandidateType DEF CandidatesUpTo
<1>3. \A j : j \in 1 .. i <=> (j \in 1 .. i - 1 \/ j = i)
  OBVIOUS
<1>4. CandidatesUpTo(m, exp, i) = IF Matches(m, slots[i]) THEN C \cup {c} ELSE C
  BY <1>3 DEF CandidatesUpTo
<1>5. out \in Seq(Cands) /\ Len(out) \in Nat /\ Len(out) <= max
      /\ \A k \in 1 .. Len(out) : out[k] \in C /\ out[k] \in Cands
  BY <1>2 DEF Best
<1> HIDE DEF C, c
<1>6. CASE ~Matches(m, slots[i])
  BY <1>4, <1>6 DEF Take, C
<1>7. CASE Matches(m, slots[i]) /\ Len(out) < max
  <2>1. Take(m, exp, max, out, i) = Shifted(out, Len(out) + 1, c)
    BY <1>7 DEF Take, c
  <2>2. Len(out) + 1 \in {Len(out), Len(out) + 1} /\ Len(out) + 1 \in 1 .. max
        /\ Len(out) + 1 # Len(out)
    BY <1>5, <1>7
  <2>3. Best(Shifted(out, Len(out) + 1, c), C \cup {c}, max)
    BY <1>1, <1>2, <1>7, <2>2, InsertedIsBest DEF C
  <2> QED BY <2>1, <2>3, <1>4, <1>7
<1>8. CASE Matches(m, slots[i]) /\ ~(Len(out) < max) /\ c.score < out[max].score
  <2>1. Take(m, exp, max, out, i) = Shifted(out, max, c)
    BY <1>8 DEF Take, c
  <2>2. max = Len(out)
    BY <1>5, <1>8
  <2>3. Best(Shifted(out, max, c), C \cup {c}, max)
    BY <1>1, <1>2, <1>8, <2>2, InsertedIsBest DEF C
  <2> QED BY <2>1, <2>3, <1>4, <1>8
<1>9. CASE Matches(m, slots[i]) /\ ~(Len(out) < max) /\ ~(c.score < out[max].score)
  <2>1. Take(m, exp, max, out, i) = out
    BY <1>9 DEF Take, c
  <2>2. Len(out) = max
    BY <1>5, <1>9
  <2>3. ASSUME NEW k \in 1 .. max PROVE Ahead(out[k], c)
    <3>1. out[k] \in Cands /\ out[max] \in Cands /\ out[k].slot < c.slot
      BY <1>1, <1>2, <1>5, <1>9, <2>2
    <3>2. k = max \/ Ahead(out[k], out[max])
      BY <2>2 DEF Best
    <3> QED BY <1>1, <1>9, <3>1, <3>2 DEF Ahead, Cands
  <2>4. out \in Seq(C \cup {c})
    BY <1>5
  <2>5. Best(out, C \cup {c}, max)
    BY <2>2, <2>3, <2>4 DEF Best, C
  <2> QED BY <2>1, <2>5, <1>4, <1>9
<1> QED BY <1>6, <1>7, <1>8, <1>9

LEMMA TakeType ==
  ASSUME slots \in Seq(Slots), NEW m, NEW exp \in Nat, NEW max \in Nat \ {0},
         NEW i \in 1 .. Len(slots), NEW out \in Seq(Cands)
  PROVE  Take(m, exp, max, out, i) \in Seq(Cands)
<1> DEFINE c == Candidate(m, exp, i)
<1> SUFFICES ASSUME Matches(m, slots[i])
             PROVE  Take(m, exp, max, out, i) \in Seq(Cands)
  BY DEF Take
<1>1. c \in Cands
  BY CandidateType
<1> HIDE DEF c
<1>2. ASSUME NEW n \in Nat \ {0}, n - 1 <= Len(out)
      PROVE  Shifted(out, n, c) \in Seq(Cands)
  <2>1. PICK pos \in 1 .. n :
           /\ Shifted(out, n, c) =
                [k \in 1 .. n |-> IF k < pos THEN out[k] ELSE IF k = pos THEN c ELSE out[k - 1]]
           /\ pos = 1 \/ out[pos - 1].score <= c.score
           /\ \A q \in pos .. n - 1 : out[q].score > c.score
    BY <1>1, <1>2, PlaceExists
  <2>2. ASSUME NEW k \in 1 .. n PROVE Shifted(out, n, c)[k] \in Cands
    <3>1. /\ k < pos => k \in 1 .. Len(out)
          /\ k > pos => k - 1 \in 1 .. Len(out)
      BY <1>2
    <3>2. Shifted(out, n, c)[k] = IF k < pos THEN out[k] ELSE IF k = pos THEN c ELSE out[k - 1]
      BY <2>1
    <3> QED BY <1>1, <3>1, <3>2
  <2>3. \E f : Shifted(out, n, c) = [k \in 1 .. n |-> f[k]]
    BY <2>1
  <2> QED BY <2>2, <2>3
<1>3. Len(out) \in Nat
  OBVIOUS
<1>4. Len(out) < max => Shifted(out, Len(out) + 1, c) \in Seq(Cands)
  BY <1>2, <1>3
<1>5. ~(Len(out) < max) => Shifted(out, max, c) \in Seq(Cands)
  BY <1>2, <1>3
<1> QED BY <1>4, <1>5 DEF Take, c

(* The loop over the table leaves the best of all that matches.              *)
LEMMA CollectTopIsBest ==
  ASSUME slots \in Seq(Slots), NEW m, NEW exp \in Nat, NEW max \in Nat \ {0}
  PROVE  Best(collectTop(m, exp, max), CandidatesUpTo(m, exp, Len(slots)), max)
<1> DEFINE N == Len(slots)
           S == Seq(Cands)
           turn == [p \in S \X (1 .. N) |-> Take(m, exp, max, p[1], p[2])]
           IsTop(t) == t = [i \in 0 .. N |-> IF i = 0 THEN <<>>
                                            ELSE Take(m, exp, max, t[i - 1], i)]
           top == CHOOSE t : IsTop(t)
<1>1. N \in Nat /\ <<>> \in S
  OBVIOUS
<1>2. turn \in [S \X (1 .. N) -> S]
  BY TakeType
<1>3. \E t : RunsLoop(t, S, <<>>, N, turn)
  <2> HIDE DEF S, N, turn
  <2> QED BY <1>1, <1>2, Loop
<1>4. PICK t \in [0 .. N -> S] :
        \A i \in 0 .. N : t[i] = IF i = 0 THEN <<>> ELSE turn[<<t[i - 1], i>>]
  BY <1>3 DEF RunsLoop
<1>5. IsTop(t)
  <2>1. ASSUME NEW i \in 0 .. N, i # 0
        PROVE  turn[<<t[i - 1], i>>] = Take(m, exp, max, t[i - 1], i)
    <3>1. i - 1 \in 0 .. N /\ i \in 1 .. N
      BY <2>1
    <3>2. t[i - 1] \in S
      BY <3>1, <1>4
    <3> QED BY <3>1, <3>2
  <2> HIDE DEF turn
  <2> QED BY <2>1, <1>4
<1>6. IsTop(top)
  <2> HIDE DEF IsTop
  <2> QED BY <1>5
<1>7. collectTop(m, exp, max) = top[N]
  BY DEF collectTop
<1> HIDE DEF top
<1>8. /\ top[0] = <<>>
      /\ \A i \in 1 .. N : top[i] = Take(m, exp, max, top[i - 1], i)
  BY <1>1, <1>6
<1> DEFINE M == {n \in Nat : n <= N => Best(top[n], CandidatesUpTo(m, exp, n), max)}
<1>9. 0 \in M
  <2>1. CandidatesUpTo(m, exp, 0) = {}
    BY DEF CandidatesUpTo
  <2>2. Best(<<>>, {}, max)
    BY DEF Best
  <2> QED BY <1>8, <2>1, <2>2
<1>10. ASSUME NEW n \in M PROVE n + 1 \in M
  <2>1. SUFFICES ASSUME n + 1 <= N PROVE Best(top[n + 1], CandidatesUpTo(m, exp, n + 1), max)
    OBVIOUS
  <2>2. n + 1 \in 1 .. N /\ (n + 1) - 1 = n
    BY <1>1, <2>1
  <2>3. Best(top[n], CandidatesUpTo(m, exp, n), max)
    BY <1>1, <2>1
  <2>4. top[n + 1] = Take(m, exp, max, top[n], n + 1)
    BY <1>8, <2>2
  <2> QED BY <2>2, <2>3, <2>4, TakeIsBest
<1>11. M = Nat
  <2>1. M \in SUBSET Nat
    OBVIOUS
  <2> HIDE DEF M
  <2> QED BY <1>9, <1>10, <2>1, Induction
<1>12. N \in M
  <2> HIDE DEF M
  <2> QED BY <1>1, <1>11
<1> QED BY <1>1, <1>7, <1>12

LEMMA BestRanks ==
  ASSUME NEW C \in SUBSET Cands, IsFiniteSet(C), NEW max \in Nat, NEW out, Best(out, C, max)
  PROVE  /\ Len(out) = (IF Cardinality(C) < max THEN Cardinality(C) ELSE max)
         /\ \A k \in 1 .. Len(out) :
              out[k] \in C /\ Cardinality({d \in C : Ahead(d, out[k])}) = k - 1
<1> DEFINE Heads(k) == {out[j] : j \in 1 .. k}
<1>1. /\ Len(out) \in Nat /\ Len(out) <= max
      /\ \A k \in 1 .. Len(out) : out[k] \in C /\ out[k] \in Cands
  BY DEF Best
<1>2. \A j, k \in 1 .. Len(out) : j < k => Ahead(out[j], out[k])
  BY DEF Best
<1>3. \A d, e \in Cands : ~(Ahead(d, e) /\ Ahead(e, d)) /\ ~Ahead(d, d)
  BY DEF Ahead, Cands
<1>4. \A j, k \in 1 .. Len(out) : out[j] = out[k] => j = k
  BY <1>1, <1>2, <1>3
<1>5. ASSUME NEW k \in 0 .. Len(out) PROVE IsFiniteSet(Heads(k)) /\ Cardinality(Heads(k)) = k
  <2> DEFINE f == [j \in 1 .. k |-> out[j]]
  <2>1. f \in Surjection(1 .. k, Heads(k))
    <3>1. f \in [1 .. k -> Heads(k)]
      OBVIOUS
    <3>2. \A d \in Heads(k) : \E j \in 1 .. k : f[j] = d
      OBVIOUS
    <3> HIDE DEF f, Heads
    <3> QED BY <3>1, <3>2 DEF Surjection
  <2>2. f \in Injection(1 .. k, Heads(k))
    <3>1. f \in [1 .. k -> Heads(k)]
      OBVIOUS
    <3>2. \A i, j \in 1 .. k : f[i] = f[j] => i = j
      BY <1>1, <1>4
    <3> HIDE DEF f, Heads
    <3> QED BY <3>1, <3>2 DEF Injection, IsInjective
  <2>3. IsFiniteSet(1 .. k) /\ Cardinality(1 .. k) = k
    BY <1>1, FS_Interval
  <2> HIDE DEF f, Heads
  <2> QED BY <2>1, <2>2, <2>3, FS_Surjection
<1>6. ASSUME NEW k \in 1 .. Len(out)
      PROVE  {d \in C : Ahead(d, out[k])} = Heads(k - 1)
  <2>1. \A j \in 1 .. k - 1 : j \in 1 .. Len(out) /\ j < k
    BY <1>1
  <2>2. ASSUME NEW d \in C, Ahead(d, out[k]) PROVE d \in Heads(k - 1)
    <3>1. ~Ahead(out[k], d)
      BY <1>1, <1>3, <2>2
    <3>2. PICK j \in 1 .. Len(out) : out[j] = d
      BY <3>1 DEF Best
    <3>3. j < k
      BY <1>1, <1>2, <1>3, <2>2, <3>2
    <3>4. j \in 1 .. k - 1
      BY <1>1, <3>3
    <3> QED BY <3>2, <3>4
  <2> QED BY <1>1, <1>2, <2>1, <2>2
<1>7. Cardinality(C) \in Nat /\ Len(out) <= Cardinality(C)
  <2>1. Heads(Len(out)) \in SUBSET C
    BY <1>1
  <2>2. Len(out) \in 0 .. Len(out)
    BY <1>1
  <2> HIDE DEF Heads
  <2> QED BY <1>5, <2>1, <2>2, FS_Subset, FS_CardinalityType
<1>8. Len(out) = max \/ Cardinality(C) = Len(out)
  <2>1. CASE C = Heads(Len(out))
    <3>1. Len(out) \in 0 .. Len(out)
      BY <1>1
    <3> HIDE DEF Heads
    <3> QED BY <1>5, <2>1, <3>1
  <2>2. CASE \E d \in C : d \notin Heads(Len(out))
    BY <2>2 DEF Best
  <2> QED BY <1>1, <2>1, <2>2
<1>9. ASSUME NEW k \in 1 .. Len(out) PROVE Cardinality({d \in C : Ahead(d, out[k])}) = k - 1
  <2>1. k - 1 \in 0 .. Len(out)
    BY <1>1
  <2> HIDE DEF Heads
  <2> QED BY <1>5, <1>6, <2>1
<1> HIDE DEF Heads
<1> QED BY <1>1, <1>7, <1>8, <1>9

----------------------------------------------------------------------------
(* Types. *)

Typing ==
  /\ slots \in Seq(Slots) /\ Len(slots) <= kMaxSlots
  /\ mode \in {"idle", "baseline", "count", "hold", "sweep"}
  /\ expected \in Nat
  /\ scenario \in BOOLEAN
  /\ step \in 0 .. Len(Steps) - 1
  /\ learned \in Seq(Entries) /\ Len(learned) <= kMaxLearned
  /\ flash \in [count : 0 .. kMaxLearned + 1, entries : [1 .. kMaxLearned -> Entries]]
  /\ heard \subseteq Ids /\ wild \subseteq Ids /\ stale \subseteq Ids

LEMMA SeqOf ==
  ASSUME NEW S, NEW n \in Nat, NEW f \in [1 .. n -> S]
  PROVE  f \in Seq(S) /\ Len(f) = n
OBVIOUS

LEMMA EmptyType ==
  /\ \A S : <<>> \in Seq(S)
  /\ Len(<<>>) = 0 /\ 0 <= kMaxSlots /\ 0 <= kMaxLearned
  /\ 0 \in 0 .. Len(Steps) - 1
<1>1. Len(Steps) \in Nat \ {0}
  BY StepsAssumption
<1> QED BY <1>1, LimitsAssumption

LEMMA IdsType ==
  ASSUME slots \in Seq(Slots) PROVE \A i \in 1 .. Len(slots) : slots[i].id \in Ids
<1>1. \A i \in 1 .. Len(slots) : slots[i] \in Slots
  OBVIOUS
<1> QED BY <1>1 DEF Slots

LEMMA StepType ==
  /\ Len(Steps) \in Nat \ {0}
  /\ \A idx \in 0 .. Len(Steps) - 1 :
       Steps[idx + 1].mode \in {"count", "hold", "sweep"} /\ Steps[idx + 1].expected \in Nat
<1> DEFINE S == [mode : {"count", "hold", "sweep"}, expected : Nat]
<1>1. Len(Steps) \in Nat \ {0}
  BY StepsAssumption
<1>2. \A i \in 1 .. Len(Steps) : Steps[i] \in S
  <2>1. Steps \in Seq(S)
    BY StepsAssumption
  <2> HIDE DEF S
  <2> QED BY <2>1
<1> QED BY <1>1, <1>2

LEMMA ResetType ==
  ASSUME NEW ss \in Seq(Slots)
  PROVE  /\ resetWindowCounters(ss) \in Seq(Slots)
         /\ Len(resetWindowCounters(ss)) = Len(ss)
         /\ \A i \in 1 .. Len(ss) : /\ resetWindowCounters(ss)[i].id = ss[i].id
                                   /\ resetWindowCounters(ss)[i].noisy = ss[i].noisy
<1>1. 0 \in Counters
  BY LimitsAssumption DEF Counters
<1>2. \A i \in 1 .. Len(ss) : ss[i] \in Slots
  OBVIOUS
<1>3. \A i \in 1 .. Len(ss) : [ss[i] EXCEPT !.rises = 0, !.falls = 0] \in Slots
  BY <1>1, <1>2 DEF Slots
<1> DEFINE r == resetWindowCounters(ss)
<1>4. r = [i \in 1 .. Len(ss) |-> [ss[i] EXCEPT !.rises = 0, !.falls = 0]] /\ Len(ss) \in Nat
  BY DEF resetWindowCounters
<1> HIDE DEF r
<1>5. \A i \in 1 .. Len(ss) : r[i] \in Slots /\ r[i].id = ss[i].id /\ r[i].noisy = ss[i].noisy
  <2> TAKE i \in 1 .. Len(ss)
  <2>1. r[i] = [ss[i] EXCEPT !.rises = 0, !.falls = 0]
    BY <1>4
  <2> QED BY <2>1, <1>2, <1>3 DEF Slots
<1>6. r \in Seq(Slots) /\ Len(r) = Len(ss)
  <2>1. r \in [1 .. Len(ss) -> Slots]
    BY <1>4, <1>5
  <2> QED BY <1>4, <2>1, SeqOf
<1> QED BY <1>5, <1>6 DEF r

Parked == [i \in 1 .. Len(slots) |-> [slots[i] EXCEPT !.base_val = slots[i].last]]

LEMMA ParkedType ==
  ASSUME slots \in Seq(Slots)
  PROVE  /\ Parked \in Seq(Slots)
         /\ Len(Parked) = Len(slots)
         /\ \A i \in 1 .. Len(slots) : /\ Parked[i].id = slots[i].id
                                      /\ Parked[i].noisy = slots[i].noisy
<1>1. \A i \in 1 .. Len(slots) : slots[i] \in Slots
  OBVIOUS
<1>2. \A i \in 1 .. Len(slots) : [slots[i] EXCEPT !.base_val = slots[i].last] \in Slots
  BY <1>1 DEF Slots
<1> QED BY <1>1, <1>2 DEF Parked, Slots

(* The table after a frame. *)
LEMMA FoundType ==
  ASSUME slots \in Seq(Slots), Len(slots) <= kMaxSlots, NEW id \in Ids, NEW v \in Values
  PROVE  /\ findOrCreate(id, v) \in Seq(Slots)
         /\ Len(findOrCreate(id, v)) <= kMaxSlots
         /\ Len(findOrCreate(id, v)) \in {Len(slots), Len(slots) + 1}
         /\ \A i \in 1 .. Len(slots) : findOrCreate(id, v)[i] = slots[i]
         /\ Len(findOrCreate(id, v)) = Len(slots) + 1 =>
              ~Known(id) /\ findOrCreate(id, v)[Len(slots) + 1] = NewSlot(id, v)
<1>1. 0 \in Counters
  BY LimitsAssumption DEF Counters
<1>2. NewSlot(id, v) \in Slots
  BY <1>1 DEF NewSlot, Slots
<1>3. CASE Known(id) \/ Len(slots) >= kMaxSlots
  BY <1>3 DEF findOrCreate
<1>4. CASE ~Known(id) /\ Len(slots) < kMaxSlots
  <2>1. findOrCreate(id, v) = Append(slots, NewSlot(id, v))
    BY <1>4, LimitsAssumption DEF findOrCreate
  <2> HIDE DEF findOrCreate
  <2> QED BY <1>2, <1>4, <2>1, LimitsAssumption
<1> QED BY <1>3, <1>4, LimitsAssumption

LEMMA ToldType ==
  ASSUME NEW s \in Slots, NEW v \in Values
  PROVE  Told(s, v) \in Slots /\ Told(s, v).id = s.id
<1>1. (s.rises + 1) % CounterMod \in Counters /\ (s.falls + 1) % CounterMod \in Counters
  <2>1. s.rises + 1 \in Nat /\ s.falls + 1 \in Nat
    BY LimitsAssumption DEF Slots, Counters
  <2> QED BY <2>1, CounterWraps
<1> QED BY <1>1 DEF Told, Slots

(* What a frame leaves of the table; told is it.                             *)
LEMMA FedType ==
  ASSUME slots \in Seq(Slots), Len(slots) <= kMaxSlots, NEW id \in Ids, NEW v \in Values,
         NEW told,
         told = [i \in 1 .. Len(findOrCreate(id, v)) |->
                   IF findOrCreate(id, v)[i].id = id
                   THEN Told(findOrCreate(id, v)[i], v) ELSE findOrCreate(id, v)[i]]
  PROVE  /\ told \in Seq(Slots) /\ Len(told) = Len(findOrCreate(id, v))
         /\ \A i \in 1 .. Len(told) : told[i].id = findOrCreate(id, v)[i].id
<1> DEFINE found == findOrCreate(id, v)
<1>1. found \in Seq(Slots) /\ Len(found) \in Nat
  BY FoundType
<1> HIDE DEF found
<1>2. \A i \in 1 .. Len(found) : found[i] \in Slots
  BY <1>1
<1>3. \A i \in 1 .. Len(found) :
        told[i] = IF found[i].id = id THEN Told(found[i], v) ELSE found[i]
  BY DEF found
<1>4. \A i \in 1 .. Len(found) : told[i] \in Slots /\ told[i].id = found[i].id
  <2> TAKE i \in 1 .. Len(found)
  <2>1. found[i] \in Slots
    BY <1>2
  <2>2. Told(found[i], v) \in Slots /\ Told(found[i], v).id = found[i].id
    BY <2>1, ToldType
  <2> QED BY <1>3, <2>1, <2>2
<1>5. told \in [1 .. Len(found) -> Slots]
  BY <1>4 DEF found
<1>6. told \in Seq(Slots) /\ Len(told) = Len(found)
  BY <1>1, <1>5, SeqOf
<1> QED BY <1>4, <1>6 DEF found

(* What is learned is the id of a byte that the mask does not cover.         *)
LEMMA LearnedQualifies ==
  ASSUME Typing, Learn
  PROVE  \/ learned' = learned
         \/ /\ Len(learned) < kMaxLearned
            /\ \E i \in 1 .. Len(slots) :
                 ~slots[i].noisy /\ learned' = Append(learned, [label |-> step + 1, id |-> slots[i].id])
<1> DEFINE best == collectTop(mode, expected, 1)
<1>1. Best(best, CandidatesUpTo(mode, expected, Len(slots)), 1)
  BY CollectTopIsBest DEF Typing
<1> HIDE DEF best
<1>2. SUFFICES ASSUME best # <<>>, Len(learned) < kMaxLearned
               PROVE  \E i \in 1 .. Len(slots) :
                        ~slots[i].noisy /\ learned' = Append(learned, [label |-> step + 1, id |-> slots[i].id])
  BY DEF Learn, best
<1>3. best[1] \in CandidatesUpTo(mode, expected, Len(slots))
  <2>1. best \in Seq(CandidatesUpTo(mode, expected, Len(slots)))
    BY <1>1 DEF Best
  <2> QED BY <1>2, <2>1
<1>4. PICK i \in 1 .. Len(slots) : Matches(mode, slots[i]) /\ best[1].slot = i
  BY <1>3 DEF CandidatesUpTo, Candidate
<1>5. ~slots[i].noisy
  BY <1>4 DEF Matches
<1> QED BY <1>2, <1>4, <1>5 DEF Learn, best

(* Windows open and close over the same bytes, as noisy as they were.        *)
Alike(ss, tt) ==
  /\ ss \in Seq(Slots) /\ Len(ss) = Len(tt)
  /\ \A i \in 1 .. Len(tt) : ss[i].id = tt[i].id /\ ss[i].noisy = tt[i].noisy

LEMMA ResetAlike ==
  ASSUME NEW ss, NEW tt, Alike(ss, tt) PROVE Alike(resetWindowCounters(ss), tt)
BY ResetType DEF Alike

LEMMA WindowBounds ==
  ASSUME Typing
  PROVE  /\ Alike(slots, slots) /\ Alike(Parked, slots)
         /\ \A idx \in 0 .. Len(Steps) - 1 : \A ss :
              Alike(ss, slots) /\ startScenarioStep(ss, idx) =>
                /\ Alike(slots', slots) /\ heard' = {}
                /\ mode' \in {"count", "hold", "sweep"} /\ expected' \in Nat
                /\ step' \in 0 .. Len(Steps) - 1
         /\ finishBaseline =>
              /\ Alike(slots', slots) /\ heard' = {}
              /\ mode' \in {"idle", "count", "hold", "sweep"} /\ expected' \in Nat
              /\ step' \in 0 .. Len(Steps) - 1
<1>1. Alike(slots, slots) /\ Alike(Parked, slots)
  BY ParkedType DEF Alike, Typing
<1>2. ASSUME NEW idx \in 0 .. Len(Steps) - 1, NEW ss, Alike(ss, slots), startScenarioStep(ss, idx)
      PROVE  /\ Alike(slots', slots) /\ heard' = {}
             /\ mode' \in {"count", "hold", "sweep"} /\ expected' \in Nat
             /\ step' \in 0 .. Len(Steps) - 1
  BY <1>2, StepType, ResetAlike DEF startScenarioStep, Opens
<1>3. ASSUME finishBaseline
      PROVE  /\ Alike(slots', slots) /\ heard' = {}
             /\ mode' \in {"idle", "count", "hold", "sweep"} /\ expected' \in Nat
             /\ step' \in 0 .. Len(Steps) - 1
  <2>1. CASE scenario /\ step = 0
    <3>1. startScenarioStep(Parked, 0) /\ 0 \in 0 .. Len(Steps) - 1
      BY <1>3, <2>1, StepType DEF finishBaseline, Parked
    <3> QED BY <1>1, <1>2, <3>1
  <2>2. CASE ~(scenario /\ step = 0)
    <3>1. Closes(resetWindowCounters(Parked)) /\ UNCHANGED step
      BY <1>3, <2>2 DEF finishBaseline, Parked
    <3> QED BY <1>1, <3>1, ResetAlike DEF Closes, Typing
  <2> QED BY <2>1, <2>2
<1> QED BY <1>1, <1>2, <1>3

LEMMA PrefixIs ==
  ASSUME NEW e \in [1 .. kMaxLearned -> Entries], NEW n \in 0 .. kMaxLearned
  PROVE  SubSeq(e, 1, n) = [i \in 1 .. n |-> e[i]]
<1>1. e \in Seq(Entries) /\ Len(e) = kMaxLearned
  BY SeqOf, LimitsAssumption
<1> QED BY <1>1, LimitsAssumption

LEMMA StoredIs ==
  Typing /\ HasMap => /\ Stored = [i \in 1 .. flash.count |-> flash.entries[i]]
                      /\ flash.count \in 0 .. kMaxLearned
<1> SUFFICES ASSUME Typing, HasMap
             PROVE  /\ Stored = [i \in 1 .. flash.count |-> flash.entries[i]]
                    /\ flash.count \in 0 .. kMaxLearned
  OBVIOUS
<1>1. flash.count \in 0 .. kMaxLearned
  BY LimitsAssumption DEF HasMap, Typing
<1>2. flash.entries \in [1 .. kMaxLearned -> Entries]
  BY DEF Typing
<1> HIDE DEF Entries
<1> QED BY <1>1, <1>2, PrefixIs DEF Stored

LEMMA StoredIsNext ==
  Typing' /\ HasMap' => /\ Stored' = [i \in 1 .. flash'.count |-> flash'.entries[i]]
                        /\ flash'.count \in 0 .. kMaxLearned
<1> SUFFICES ASSUME Typing', HasMap'
             PROVE  /\ Stored' = [i \in 1 .. flash'.count |-> flash'.entries[i]]
                    /\ flash'.count \in 0 .. kMaxLearned
  OBVIOUS
<1>1. flash'.count \in 0 .. kMaxLearned
  BY LimitsAssumption DEF HasMap, Typing
<1>2. flash'.entries \in [1 .. kMaxLearned -> Entries]
  BY DEF Typing, Entries
<1> HIDE DEF Entries
<1> QED BY <1>1, <1>2, PrefixIs DEF Stored

LEMMA EntriesType ==
  ASSUME Typing
  PROVE  /\ Blank \in Entries
         /\ Erased \in [count : 0 .. kMaxLearned + 1, entries : [1 .. kMaxLearned -> Entries]]
         /\ HasMap => Stored \in Seq(Entries) /\ Len(Stored) = flash.count /\ Len(Stored) <= kMaxLearned
         /\ Learn => learned' \in Seq(Entries) /\ Len(learned') <= kMaxLearned
<1>1. Blank \in Entries
  BY DEF Entries
<1>2. Erased \in [count : 0 .. kMaxLearned + 1, entries : [1 .. kMaxLearned -> Entries]]
  BY <1>1, LimitsAssumption DEF Erased
<1>3. ASSUME HasMap
      PROVE Stored \in Seq(Entries) /\ Len(Stored) = flash.count /\ Len(Stored) <= kMaxLearned
  <2>1. flash.count \in Nat /\ flash.count <= kMaxLearned
    BY <1>3, LimitsAssumption DEF HasMap, Typing
  <2>2. \A i \in 1 .. flash.count : flash.entries[i] \in Entries
    BY <2>1, LimitsAssumption DEF Typing
  <2>3. Stored = [i \in 1 .. flash.count |-> flash.entries[i]]
    BY <1>3, StoredIs
  <2>4. Stored \in [1 .. flash.count -> Entries]
    BY <2>1, <2>2, <2>3
  <2> QED BY <2>1, <2>4, SeqOf
<1>4. ASSUME Learn PROVE learned' \in Seq(Entries) /\ Len(learned') <= kMaxLearned
  <2>1. CASE learned' = learned
    BY <2>1 DEF Typing
  <2>2. ASSUME NEW i \in 1 .. Len(slots), Len(learned) < kMaxLearned,
               learned' = Append(learned, [label |-> step + 1, id |-> slots[i].id])
        PROVE  learned' \in Seq(Entries) /\ Len(learned') <= kMaxLearned
    <3>1. slots[i].id \in Ids
      BY IdsType DEF Typing
    <3>2. step + 1 \in 1 .. Len(Steps)
      BY StepType DEF Typing
    <3>3. [label |-> step + 1, id |-> slots[i].id] \in Entries
      BY <3>1, <3>2 DEF Entries
    <3> HIDE DEF Entries
    <3> QED BY <2>2, <3>3, LimitsAssumption DEF Typing
  <2> QED BY <1>4, <2>1, <2>2, LearnedQualifies
<1> QED BY <1>1, <1>2, <1>3, <1>4

LEMMA TypingInit == Init => Typing
<1> SUFFICES ASSUME Init PROVE Typing
  OBVIOUS
<1>1. Blank \in Entries
  BY DEF Entries
<1>2. Erased \in [count : 0 .. kMaxLearned + 1, entries : [1 .. kMaxLearned -> Entries]]
  BY <1>1, LimitsAssumption DEF Erased
<1> QED BY <1>2, EmptyType DEF Init, Typing

LEMMA TypingNext == Typing /\ [Next]_vars => Typing'
<1> SUFFICES ASSUME Typing, [Next]_vars PROVE Typing'
  OBVIOUS
<1>1. ASSUME NEW id \in Ids, NEW v \in Values, feed(id, v) PROVE Typing'
  <2>1. CASE mode = "idle"
    BY <1>1, <2>1 DEF feed, Typing, store
  <2>2. CASE mode # "idle"
    <3>1. slots' \in Seq(Slots) /\ Len(slots') = Len(findOrCreate(id, v))
      <4>1. slots' = [i \in 1 .. Len(findOrCreate(id, v)) |->
                   IF findOrCreate(id, v)[i].id = id
                   THEN Told(findOrCreate(id, v)[i], v) ELSE findOrCreate(id, v)[i]]
        BY <1>1, <2>2 DEF feed
      <4> QED BY <4>1, FedType DEF Typing
    <3>2. Len(slots') <= kMaxSlots
      BY <3>1, FoundType DEF Typing
    <3>3. heard' \subseteq Ids /\ wild' \subseteq Ids
      BY <1>1, <2>2 DEF feed, Typing
    <3> QED BY <1>1, <3>1, <3>2, <3>3 DEF feed, Typing, store
  <2> QED BY <2>1, <2>2
<1>2. ASSUME tick PROVE Typing'
  BY <1>2, WindowBounds DEF tick, Alike, Typing, store
<1>3. ASSUME beginBaseline PROVE Typing'
  <2>1. Alike(slots', slots) /\ mode' = "baseline" /\ expected' = expected /\ heard' = {}
    BY <1>3, WindowBounds, ResetAlike DEF beginBaseline, Baseline, Opens
  <2>2. \A i \in 1 .. Len(slots) : slots[i].id \in Ids
    BY IdsType DEF Typing
  <2> QED BY <1>3, <2>1, <2>2 DEF beginBaseline, Baseline, Alike, Typing, store
<1>4. ASSUME NEW m \in {"count", "hold", "sweep"}, NEW n \in Nat, beginWindow(m, n) PROVE Typing'
  <2>1. Alike(slots', slots) /\ mode' = m /\ expected' = n /\ heard' = {}
    BY <1>4, WindowBounds, ResetAlike DEF beginWindow, Opens
  <2> QED BY <1>4, <2>1 DEF beginWindow, Alike, Typing, store
<1>5. ASSUME stop PROVE Typing'
  <2>1. CASE mode = "baseline"
    BY <1>5, <2>1, WindowBounds DEF stop, Alike, Typing, store
  <2>2. CASE mode # "baseline"
    BY <1>5, <2>2 DEF stop, Closes, Typing, store
  <2> QED BY <2>1, <2>2
<1>6. ASSUME clear PROVE Typing'
  BY <1>6, EmptyType DEF clear, Typing, store
<1>7. ASSUME beginRun PROVE Typing'
  <2>1. Alike(slots', slots) /\ mode' = "baseline" /\ expected' = expected /\ heard' = {}
    BY <1>7, WindowBounds, ResetAlike DEF beginRun, Baseline, Opens
  <2>2. \A i \in 1 .. Len(slots) : slots[i].id \in Ids
    BY IdsType DEF Typing
  <2> QED BY <1>7, <2>1, <2>2, EmptyType DEF beginRun, Baseline, Alike, Typing, store
<1>8. ASSUME nextStep PROVE Typing'
  <2>1. learned' \in Seq(Entries) /\ Len(learned') <= kMaxLearned
    BY <1>8, EntriesType DEF nextStep
  <2>2. CASE step + 1 < Len(Steps)
    <3>1. step + 1 \in 0 .. Len(Steps) - 1
      BY <2>2, StepType DEF Typing
    <3>2. startScenarioStep(slots, step + 1) /\ UNCHANGED scenario
      BY <1>8, <2>2 DEF nextStep
    <3> QED BY <1>8, <2>1, <3>1, <3>2, WindowBounds DEF nextStep, Alike, Typing, store
  <2>3. CASE ~(step + 1 < Len(Steps))
    BY <1>8, <2>1, <2>3 DEF nextStep, Closes, Typing, store
  <2> QED BY <2>2, <2>3
<1>9. ASSUME save PROVE Typing'
  BY <1>9, EntriesType DEF save, Typing, capture
<1>10. ASSUME Program PROVE Typing'
  <2>1. Len(learned) \in 0 .. kMaxLearned + 1 /\ \A i \in 1 .. Len(learned) : learned[i] \in Entries
    BY LimitsAssumption DEF Typing
  <2>2. flash' \in [count : 0 .. kMaxLearned + 1, entries : [1 .. kMaxLearned -> Entries]]
    <3> DEFINE entry(i) == IF PageOf(i) = page /\ i <= Len(learned)
                           THEN learned[i] ELSE flash.entries[i]
               count == IF page = 1 THEN Len(learned) ELSE flash.count
    <3>1. flash' = [count |-> count, entries |-> [i \in 1 .. kMaxLearned |-> entry(i)]]
      BY <1>10 DEF Program
    <3>2. ASSUME NEW i \in 1 .. kMaxLearned PROVE entry(i) \in Entries
      <4>1. i <= Len(learned) => learned[i] \in Entries
        BY <2>1
      <4>2. flash.entries[i] \in Entries
        BY DEF Typing
      <4> QED BY <4>1, <4>2
    <3>3. count \in 0 .. kMaxLearned + 1
      BY <2>1 DEF Typing
    <3> HIDE DEF entry, count
    <3> QED BY <3>1, <3>2, <3>3
  <2> QED BY <1>10, <2>2 DEF Program, Typing, capture
<1>11. ASSUME load PROVE Typing'
  BY <1>11, EntriesType DEF load, Typing, capture, store
<1>12. ASSUME PowerFails PROVE Typing'
  BY <1>12, EmptyType DEF PowerFails, Typing
<1>13. CASE UNCHANGED vars
  BY <1>13 DEF vars, capture, store, Typing
<1> QED BY <1>1, <1>2, <1>3, <1>4, <1>5, <1>6, <1>7, <1>8, <1>9, <1>10, <1>11, <1>12, <1>13, StepsAssumption
        DEF Next, beginCount, beginHold, beginSweep

(* The type invariant.                                                       *)
THEOREM TypeCorrect == Spec => []TypeOK
<1>1. Typing => TypeOK
  <2> SUFFICES ASSUME Typing PROVE TypeOK
    OBVIOUS
  <2>1. step < Len(Steps)
    BY StepType DEF Typing
  <2> QED BY <2>1 DEF Typing, TypeOK, Slots
<1> QED BY <1>1, TypingInit, TypingNext, PTL DEF Spec

Ranked(m, exp, n) ==
  LET all == CandidatesUpTo(m, exp, Len(slots))
      top == collectTop(m, exp, n)
  IN  /\ Len(top) = (IF Cardinality(all) < n THEN Cardinality(all) ELSE n)
      /\ \A k \in 1 .. Len(top) :
           top[k] \in all /\ Cardinality({c \in all : Ahead(c, top[k])}) = k - 1

(* collectTop gives the best, in their order, and no more than fit: in every *)
(* state, of every table the bus can have filled.                            *)
THEOREM TopAlwaysBest == Spec => []TopIsBest
<1>1. ASSUME Typing, NEW m, NEW exp \in Nat, NEW n \in Nat \ {0}
      PROVE  Ranked(m, exp, n)
  <2> DEFINE C == CandidatesUpTo(m, exp, Len(slots))
             turned == {j \in 1 .. Len(slots) : Matches(m, slots[j])}
  <2>1. slots \in Seq(Slots) /\ Len(slots) \in Nat
    BY <1>1 DEF Typing
  <2>2. Best(collectTop(m, exp, n), C, n)
    BY <2>1, CollectTopIsBest
  <2>3. C \in SUBSET Cands
    BY <2>1, CandidateType DEF CandidatesUpTo
  <2>4. IsFiniteSet(C)
    <3>1. IsFiniteSet(turned)
      <4>1. IsFiniteSet(1 .. Len(slots)) /\ turned \in SUBSET (1 .. Len(slots))
        BY <2>1, FS_Interval
      <4> HIDE DEF turned
      <4> QED BY <4>1, FS_Subset
    <3> DEFINE f == [i \in turned |-> Candidate(m, exp, i)]
    <3>2. f \in Surjection(turned, C)
      <4>1. f \in [turned -> C]
        BY DEF CandidatesUpTo
      <4>2. \A d \in C : \E i \in turned : f[i] = d
        BY DEF CandidatesUpTo
      <4> HIDE DEF f, C, turned
      <4> QED BY <4>1, <4>2 DEF Surjection
    <3> HIDE DEF f, C, turned
    <3> QED BY <3>1, <3>2, FS_Surjection
  <2>5. /\ Len(collectTop(m, exp, n)) = (IF Cardinality(C) < n THEN Cardinality(C) ELSE n)
        /\ \A k \in 1 .. Len(collectTop(m, exp, n)) :
             /\ collectTop(m, exp, n)[k] \in C
             /\ Cardinality({d \in C : Ahead(d, collectTop(m, exp, n)[k])}) = k - 1
    BY <2>2, <2>3, <2>4, BestRanks
  <2> QED BY <2>5 DEF Ranked
<1>2. Typing => TopIsBest
  <2> SUFFICES ASSUME Typing, NEW m \in {"count", "hold", "sweep"}, NEW exp \in AdHoc, NEW n \in 1 .. 2
               PROVE  Ranked(m, exp, n)
    BY DEF TopIsBest, Ranked, CandidatesUpTo
  <2>1. exp \in Nat /\ n \in Nat \ {0}
    BY StepsAssumption
  <2> QED BY <1>1, <2>1
<1> QED BY <1>2, TypingInit, TypingNext, PTL DEF Spec

----------------------------------------------------------------------------
(* The store. *)

(* While a save is under way nothing else runs, so what it writes is still   *)
(* what it was given; and the sector is erased until the first page is in.   *)
StoreInv ==
  /\ page # 0 => learned \in kept
  /\ page = 1 => flash = Erased
  /\ page \in Nat
  /\ StoredWasSaved

LEMMA FirstPage ==
  \A i \in Nat : PageOf(i) = 1 <=> i < EntriesPerPage
<1> TAKE i \in Nat
<1> DEFINE q == i \div EntriesPerPage
           r == i % EntriesPerPage
<1>1. q \in Int /\ r \in 0 .. EntriesPerPage - 1 /\ i = EntriesPerPage * q + r
  BY LimitsAssumption
<1> QED BY <1>1, LimitsAssumption DEF PageOf

LEMMA StoreNext == Typing /\ StoreInv /\ [Next]_vars => StoreInv'
<1> SUFFICES ASSUME Typing, StoreInv, [Next]_vars PROVE StoreInv'
  OBVIOUS
<1>1. CASE flash' = flash /\ kept' = kept /\ page' = 0
  BY <1>1 DEF StoreInv, StoredWasSaved, HasMap, Stored
<1>2. CASE UNCHANGED vars
  BY <1>2 DEF vars, store, StoreInv, StoredWasSaved, HasMap, Stored
<1>3. ASSUME save PROVE StoreInv'
  <2>1. flash' = Erased /\ flash'.count = kMaxLearned + 1
    BY <1>3 DEF save, Erased
  <2>2. ~HasMap'
    BY <2>1, LimitsAssumption DEF HasMap
  <2> QED BY <1>3, <2>1, <2>2 DEF save, StoreInv, StoredWasSaved
<1>4. ASSUME Program PROVE StoreInv'
  <2>1. /\ page' \in Nat /\ page' # 1 /\ kept' = kept /\ learned' = learned /\ page \in Nat \ {0}
        /\ learned \in kept
    BY <1>4 DEF Program, StoreInv
  <2>2. SUFFICES ASSUME HasMap', flash'.count < EntriesPerPage PROVE Stored' \in kept'
    <3>1. ~(flash'.count < EntriesPerPage) => flash'.count >= EntriesPerPage
      <4>1. flash'.count \in Nat
        BY TypingNext, LimitsAssumption DEF Typing
      <4> QED BY <4>1, LimitsAssumption
    <3> QED BY <2>1, <3>1 DEF StoreInv, StoredWasSaved
  <2>3. Typing'
    BY TypingNext
  <2> DEFINE n == flash'.count
  <2>4. n \in Nat /\ n <= kMaxLearned /\ Stored' = [i \in 1 .. n |-> flash'.entries[i]]
    <3>1. flash'.count \in 0 .. kMaxLearned
      BY <2>2, <2>3, StoredIsNext
    <3> QED BY <2>2, <2>3, <3>1, StoredIsNext, LimitsAssumption
  <2>5. ASSUME NEW i \in 1 .. n
        PROVE  /\ i \in 1 .. kMaxLearned /\ PageOf(i) = 1
               /\ flash'.entries[i] = IF page = 1 /\ i <= Len(learned) THEN learned[i] ELSE flash.entries[i]
    <3>1. i \in 1 .. kMaxLearned /\ PageOf(i) = 1
      BY <2>2, <2>4, FirstPage, LimitsAssumption
    <3> QED BY <1>4, <3>1 DEF Program
  <2>6. n = IF page = 1 THEN Len(learned) ELSE flash.count
    BY <1>4 DEF Program
  <2> HIDE DEF n
  <2>7. CASE page = 1
    <3>1. learned \in Seq(Entries) /\ n = Len(learned)
      BY <2>6, <2>7 DEF Typing
    <3>2. learned = [i \in 1 .. n |-> learned[i]]
      BY <3>1
    <3>3. \A i \in 1 .. n : flash'.entries[i] = learned[i]
      BY <2>5, <2>7, <3>1
    <3>4. [i \in 1 .. n |-> flash'.entries[i]] = [i \in 1 .. n |-> learned[i]]
      BY <3>3
    <3>5. Stored' = learned
      BY <2>4, <3>2, <3>4
    <3> QED BY <2>1, <3>5
  <2>8. CASE page # 1
    <3>1. HasMap /\ ~(flash.count >= EntriesPerPage)
      BY <2>2, <2>4, <2>6, <2>8, LimitsAssumption DEF HasMap, n
    <3>2. Stored = [i \in 1 .. n |-> flash.entries[i]]
      BY <2>6, <2>8, <3>1, StoredIs
    <3>3. Stored' = Stored
      BY <2>4, <2>5, <2>8, <3>2
    <3> QED BY <2>1, <3>1, <3>3 DEF StoreInv, StoredWasSaved
  <2> QED BY <2>7, <2>8
<1>5. CASE PowerFails
  BY <1>1, <1>5 DEF PowerFails
<1> USE <1>1
<1>6. ASSUME NEW id \in Ids, NEW v \in Values, feed(id, v) PROVE StoreInv'
  BY <1>6 DEF feed, store
<1>7. CASE tick
  BY <1>7 DEF tick, store
<1>8. CASE beginBaseline
  BY <1>8 DEF beginBaseline, Typed, store
<1>9. ASSUME NEW m, NEW n, beginWindow(m, n) PROVE StoreInv'
  BY <1>9 DEF beginWindow, Typed, store
<1>10. CASE stop
  BY <1>10 DEF stop, Typed, store
<1>11. CASE clear
  BY <1>11 DEF clear, Typed, store
<1>12. CASE beginRun
  BY <1>12 DEF beginRun, Typed, store
<1>13. CASE nextStep
  BY <1>13 DEF nextStep, store
<1>14. CASE load
  BY <1>14 DEF load, Typed, store
<1> QED BY <1>2, <1>3, <1>4, <1>5, <1>6, <1>7, <1>8, <1>9, <1>10, <1>11, <1>12, <1>13, <1>14
        DEF Next, beginCount, beginHold, beginSweep

(* Wherever the power fails, load finds the map of a save or none, as long   *)
(* as the map fits a page.                                                   *)
THEOREM StoreSurvives == Spec => []StoredWasSaved
<1>1. Init => StoreInv
  <2> SUFFICES ASSUME Init PROVE StoreInv
    OBVIOUS
  <2>1. flash.count = kMaxLearned + 1 /\ page = 0
    BY DEF Init, Erased
  <2> QED BY <2>1, LimitsAssumption DEF StoreInv, StoredWasSaved, HasMap
<1>2. StoreInv => StoredWasSaved
  BY DEF StoreInv
<1> QED BY <1>1, <1>2, TypingInit, TypingNext, StoreNext, PTL DEF Spec

----------------------------------------------------------------------------
(* The mask. *)

(* An id has one place in the table, and one that was heard moving has one;  *)
(* and in a baseline every id of the table was there before it or was heard. *)
MaskInv ==
  /\ \A i, j \in 1 .. Len(slots) : slots[i].id = slots[j].id => i = j
  /\ \A id \in wild : \E i \in 1 .. Len(slots) : slots[i].id = id
  /\ mode = "baseline" => \A i \in 1 .. Len(slots) : slots[i].id \in heard \cup stale
  /\ MaskIsExact

LEMMA MaskAlike ==
  ASSUME Typing, MaskInv, Alike(slots', slots), wild' = wild, stale \subseteq stale',
         mode' = "baseline" => \A i \in 1 .. Len(slots) : slots[i].id \in heard' \cup stale'
  PROVE  MaskInv'
<1>1. /\ Len(slots') = Len(slots) /\ Len(slots) \in Nat
      /\ \A i \in 1 .. Len(slots) : slots'[i].id = slots[i].id /\ slots'[i].noisy = slots[i].noisy
  BY DEF Alike, Typing
<1> QED BY <1>1 DEF MaskInv, MaskIsExact

LEMMA MaskEmpty ==
  ASSUME slots' = <<>>, mode' = "idle", wild' = {} PROVE MaskInv'
BY DEF MaskInv, MaskIsExact

LEMMA MaskFed ==
  ASSUME Typing, MaskInv, NEW id \in Ids, NEW v \in Values, feed(id, v) PROVE MaskInv'
<1> DEFINE found == findOrCreate(id, v)
           n == Len(slots)
<1>1. CASE mode = "idle"
  BY <1>1 DEF feed, MaskInv, MaskIsExact
<1>2. CASE mode # "idle"
  <2> DEFINE moves == \E i \in 1 .. Len(found) : found[i].id = id /\ found[i].last # v
  <2>1. /\ slots' = [i \in 1 .. Len(found) |-> IF found[i].id = id THEN Told(found[i], v) ELSE found[i]]
        /\ mode' = mode /\ stale' = stale
        /\ mode = "baseline" => /\ heard' = heard \cup {id}
                                /\ wild' = IF id \in heard /\ moves THEN wild \cup {id} ELSE wild
        /\ mode # "baseline" => heard' = heard /\ wild' = wild
    BY <1>2 DEF feed
  <2>2. /\ slots' \in Seq(Slots) /\ Len(slots') = Len(found)
        /\ \A i \in 1 .. Len(found) : slots'[i].id = found[i].id
    BY <2>1, FedType DEF Typing
  <2>3. /\ n \in Nat /\ Len(found) \in {n, n + 1}
        /\ \A i \in 1 .. n : i \in 1 .. Len(found) /\ found[i] = slots[i]
        /\ Len(found) = n + 1 => ~Known(id) /\ found[n + 1] = NewSlot(id, v)
    BY FoundType DEF Typing
  <2> HIDE DEF found
  <2>4. \A i \in 1 .. Len(found) :
          \/ i \in 1 .. n /\ found[i] = slots[i]
          \/ /\ i = n + 1 /\ ~Known(id) /\ i \notin 1 .. n
             /\ found[i].id = id /\ found[i].last = v /\ ~found[i].noisy
    BY <2>3 DEF NewSlot
  <2>5. \A i \in 1 .. n : i \in 1 .. Len(found) /\ slots'[i].id = slots[i].id
    BY <2>2, <2>3
  <2>6. \A i, j \in 1 .. Len(found) : found[i].id = found[j].id => i = j
    BY <2>4 DEF MaskInv, Known
  <2>7. \A i \in 1 .. Len(found) :
          slots'[i].noisy = (found[i].noisy \/ (mode = "baseline" /\ found[i].id = id /\ found[i].last # v))
    <3> TAKE i \in 1 .. Len(found)
    <3>1. slots'[i] = IF found[i].id = id THEN Told(found[i], v) ELSE found[i]
      BY <2>1
    <3>2. found[i] \in Slots
      BY FoundType DEF found, Typing
    <3> QED BY <3>1, <3>2 DEF Told, Slots
  <2>8. moves => \E i \in 1 .. n : slots[i].id = id /\ slots[i].last # v
    BY <2>4
  <2>9. ASSUME NEW i \in 1 .. Len(found), slots'[i].id \in wild' PROVE slots'[i].noisy
    <3>1. CASE found[i].id \in wild
      <4>1. i \in 1 .. n
        BY <2>4, <3>1 DEF MaskInv, Known
      <4>2. found[i].noisy
        BY <2>3, <3>1, <4>1 DEF MaskInv, MaskIsExact
      <4> QED BY <2>7, <4>2
    <3>2. CASE found[i].id \notin wild
      <4>1. mode = "baseline" /\ found[i].id = id /\ moves
        BY <2>1, <2>2, <2>9, <3>2
      <4>2. found[i].last # v
        BY <2>6, <4>1
      <4> QED BY <2>7, <4>1, <4>2
    <3> QED BY <3>1, <3>2
  <2>10. ASSUME NEW i \in 1 .. Len(found), slots'[i].noisy PROVE slots'[i].id \in wild' \cup stale'
    <3>1. CASE found[i].noisy
      <4>1. i \in 1 .. n /\ found[i] = slots[i]
        BY <2>4, <3>1
      <4>2. slots[i].id \in wild \cup stale
        BY <3>1, <4>1 DEF MaskInv, MaskIsExact
      <4> QED BY <2>1, <2>5, <4>1, <4>2
    <3>2. CASE ~found[i].noisy
      <4>1. mode = "baseline" /\ found[i].id = id /\ found[i].last # v
        BY <2>7, <2>10, <3>2
      <4>2. i \in 1 .. n /\ found[i] = slots[i]
        BY <2>4, <4>1
      <4>3. id \in heard \cup stale
        BY <4>1, <4>2 DEF MaskInv
      <4> QED BY <2>1, <2>2, <4>1, <4>3
    <3> QED BY <3>1, <3>2
  <2>11. mode' = "baseline" => \A i \in 1 .. Len(found) : slots'[i].id \in heard' \cup stale'
    BY <2>1, <2>2, <2>4 DEF MaskInv
  <2>12. \A w \in wild' : \E i \in 1 .. Len(found) : slots'[i].id = w
    <3> TAKE w \in wild'
    <3>1. w \in wild \/ (w = id /\ moves)
      BY <2>1
    <3>2. \E i \in 1 .. n : slots[i].id = w
      BY <2>8, <3>1 DEF MaskInv
    <3> QED BY <2>5, <3>2
  <2>13. \A i, j \in 1 .. Len(found) : slots'[i].id = slots'[j].id => i = j
    BY <2>2, <2>6
  <2> QED BY <2>2, <2>9, <2>10, <2>11, <2>12, <2>13 DEF MaskInv, MaskIsExact
<1> QED BY <1>1, <1>2

LEMMA MaskNext == Typing /\ MaskInv /\ [Next]_vars => MaskInv'
<1> SUFFICES ASSUME Typing, MaskInv, [Next]_vars PROVE MaskInv'
  OBVIOUS
<1>1. ASSUME NEW id \in Ids, NEW v \in Values, feed(id, v) PROVE MaskInv'
  BY <1>1, MaskFed
<1>2. CASE tick
  BY <1>2, WindowBounds, MaskAlike DEF tick
<1>3. ASSUME Baseline PROVE Alike(slots', slots) /\ \A i \in 1 .. Len(slots) : slots[i].id \in stale'
  BY <1>3, WindowBounds, ResetAlike DEF Baseline, Opens
<1>4. CASE beginBaseline
  BY <1>3, <1>4, MaskAlike DEF beginBaseline, Baseline
<1>5. ASSUME NEW m \in {"count", "hold", "sweep"}, NEW n, beginWindow(m, n) PROVE MaskInv'
  <2>1. Alike(slots', slots) /\ mode' = m
    BY <1>5, WindowBounds, ResetAlike DEF beginWindow, Opens
  <2> QED BY <1>5, <2>1, MaskAlike DEF beginWindow
<1>6. CASE stop
  <2>1. CASE mode = "baseline"
    BY <1>6, <2>1, WindowBounds, MaskAlike DEF stop
  <2>2. CASE mode # "baseline"
    BY <1>6, <2>2, WindowBounds, MaskAlike DEF stop, Closes
  <2> QED BY <2>1, <2>2
<1>7. CASE clear
  BY <1>7, MaskEmpty DEF clear
<1>8. CASE beginRun
  BY <1>3, <1>8, MaskAlike DEF beginRun, Baseline
<1>9. CASE nextStep
  <2>1. CASE step + 1 < Len(Steps)
    <3>1. step + 1 \in 0 .. Len(Steps) - 1
      BY <2>1, StepType DEF Typing
    <3>2. startScenarioStep(slots, step + 1)
      BY <1>9, <2>1 DEF nextStep
    <3> QED BY <1>9, <3>1, <3>2, WindowBounds, MaskAlike DEF nextStep
  <2>2. CASE ~(step + 1 < Len(Steps))
    BY <1>9, <2>2, WindowBounds, MaskAlike DEF nextStep, Closes
  <2> QED BY <2>1, <2>2
<1>10. CASE UNCHANGED <<slots, mode, heard, wild, stale>>
  BY <1>10 DEF MaskInv, MaskIsExact
<1>11. CASE save \/ Program \/ load
  BY <1>10, <1>11 DEF save, Program, load, capture
<1>12. CASE PowerFails
  BY <1>12, MaskEmpty DEF PowerFails
<1>13. CASE UNCHANGED vars
  BY <1>10, <1>13 DEF vars, capture
<1> QED BY <1>1, <1>2, <1>4, <1>5, <1>6, <1>7, <1>8, <1>9, <1>11, <1>12, <1>13
        DEF Next, beginCount, beginHold, beginSweep

(* The mask covers what moved in a baseline, and what it covers is never     *)
(* learned.                                                                  *)
THEOREM MaskHolds == Spec => NoisyNeverLearned
<1>1. Init => MaskInv
  BY DEF Init, MaskInv, MaskIsExact
<1>2. MaskInv => MaskIsExact
  BY DEF MaskInv
<1>3. Typing /\ MaskInv /\ [Next]_vars =>
        [ nextStep => \A k \in Len(learned) + 1 .. Len(learned') : learned'[k].id \notin wild ]_vars
  <2> SUFFICES ASSUME Typing, MaskInv, nextStep, NEW k \in Len(learned) + 1 .. Len(learned')
               PROVE  learned'[k].id \notin wild
    OBVIOUS
  <2>1. learned \in Seq(Entries) /\ Len(learned) \in Nat
    BY DEF Typing
  <2>2. PICK i \in 1 .. Len(slots) :
          ~slots[i].noisy /\ learned' = Append(learned, [label |-> step + 1, id |-> slots[i].id])
    BY <2>1, LearnedQualifies DEF nextStep
  <2>3. slots[i].id \notin wild
    BY <2>2 DEF MaskInv, MaskIsExact
  <2>4. learned'[k] = [label |-> step + 1, id |-> slots[i].id]
    BY <2>1, <2>2
  <2> QED BY <2>3, <2>4
<1> QED BY <1>1, <1>2, <1>3, TypingInit, TypingNext, MaskNext, PTL DEF Spec, NoisyNeverLearned
=============================================================================
