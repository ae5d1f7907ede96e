------------------------ MODULE CryptodevRunProofs -------------------------
(***************************************************************************)
(* Proofs about CryptodevRun, for every size of the pages and the memory,  *)
(* every set of sessions, operations, mappings and threads.                *)
(***************************************************************************)
EXTENDS CryptodevRun, FiniteSetTheorems, SequenceTheorems, WellFoundedInduction, TLAPS

-----------------------------------------------------------------------------
(* Numbers, minima and sequences.                                          *)

(* Induction on numbers, for a set instead of a predicate.                 *)
LEMMA SetInduction ==
  ASSUME NEW T, T \subseteq Nat, 0 \in T, \A n \in T : n + 1 \in T
  PROVE  T = Nat
<1> DEFINE R == OpToRel(<, Nat)
           U == Nat \ T
<1>1. IsWellFoundedOn(R, Nat)
  BY NatLessThanWellFounded
<1>2. SUFFICES ASSUME U # {} PROVE FALSE
  OBVIOUS
<1>3. U \subseteq Nat
  OBVIOUS
<1>4. \A x, y \in Nat : x < y => <<x, y>> \in R
  BY DEF OpToRel
<1> HIDE DEF R, U
<1>5. PICK x \in U : \A y \in U : ~(<<y, x>> \in R)
  BY <1>1, <1>2, <1>3, WFMin
<1> USE DEF U
<1>6. x \in Nat /\ x # 0
  OBVIOUS
<1>7. x - 1 \in Nat /\ x - 1 < x
  BY <1>6
<1>8. x - 1 \notin U
  BY <1>4, <1>5, <1>6, <1>7
<1>9. x - 1 \in T /\ (x - 1) + 1 = x
  BY <1>6, <1>7, <1>8
<1> QED
  BY <1>6, <1>9

LEMMA MinFact ==
  ASSUME NEW S, S \subseteq Nat, S # {}
  PROVE  Min(S) \in S /\ \A y \in S : Min(S) <= y
<1>1. \E x \in S : \A y \in S : x <= y
  <2> SUFFICES ASSUME \A x \in S : \E y \in S : y < x
               PROVE  FALSE
    OBVIOUS
  <2> DEFINE T == {n \in Nat : \A x \in S : x > n}
  <2>1. 0 \in T
    OBVIOUS
  <2>2. \A n \in T : n + 1 \in T
    OBVIOUS
  <2>3. T = Nat
    <3> HIDE DEF T
    <3>1. T \subseteq Nat
      BY DEF T
    <3> QED
      BY <2>1, <2>2, <3>1, SetInduction
  <2>4. PICK x \in S : TRUE
    OBVIOUS
  <2>5. x \in T
    BY <2>3
  <2> QED
    BY <2>4, <2>5
<1> QED
  BY <1>1, Zenon DEF Min

(* A sequence, whatever its elements are.                                  *)
IsSeq(f) == \E n \in Nat : f = [i \in 1..n |-> f[i]]

LEMMA SeqFact ==
  ASSUME NEW f, IsSeq(f)
  PROVE  /\ Len(f) \in Nat /\ DOMAIN f = 1..Len(f)
         /\ f = [i \in 1..Len(f) |-> f[i]]
         /\ f \in Seq({f[i] : i \in 1..Len(f)})
<1>1. PICK n \in Nat : f = [i \in 1..n |-> f[i]]
  BY DEF IsSeq
<1>2. DOMAIN f = 1..n
  BY <1>1
<1>3. f \in [1..n -> {f[i] : i \in 1..n}]
  BY <1>1
<1>4. f \in Seq({f[i] : i \in 1..n})
  BY <1>3, SeqDef
<1>5. Len(f) \in Nat /\ DOMAIN f = 1..Len(f)
  BY <1>4, LenProperties
<1>6. n = Len(f)
  BY <1>2, <1>5
<1> QED
  BY <1>1, <1>4, <1>5, <1>6

LEMMA FunctionSeq ==
  ASSUME NEW n \in Nat, NEW f, f = [i \in 1..n |-> f[i]]
  PROVE  IsSeq(f) /\ Len(f) = n
<1>1. IsSeq(f)
  BY DEF IsSeq
<1>2. DOMAIN f = 1..n
  OBVIOUS
<1> QED
  BY <1>1, <1>2, SeqFact

LEMMA SeqIsSeq ==
  ASSUME NEW S, NEW f \in Seq(S)
  PROVE  IsSeq(f)
<1>1. Len(f) \in Nat /\ f \in [1..Len(f) -> S]
  BY LenProperties
<1> QED
  BY <1>1 DEF IsSeq

LEMMA SameSeq ==
  ASSUME NEW s, NEW t, IsSeq(s), IsSeq(t), Len(s) = Len(t),
         \A i \in 1..Len(s) : s[i] = t[i]
  PROVE  s = t
<1>1. s = [i \in 1..Len(s) |-> s[i]] /\ t = [i \in 1..Len(s) |-> t[i]]
  BY SeqFact
<1>2. [i \in 1..Len(s) |-> s[i]] = [i \in 1..Len(s) |-> t[i]]
  OBVIOUS
<1> QED
  BY <1>1, <1>2

LEMMA ConcatFact ==
  ASSUME NEW s, NEW t, IsSeq(s), IsSeq(t)
  PROVE  /\ IsSeq(s \o t) /\ Len(s \o t) = Len(s) + Len(t)
         /\ \A i \in 1..Len(s) : (s \o t)[i] = s[i]
         /\ \A i \in 1..Len(t) : (s \o t)[Len(s) + i] = t[i]
<1> DEFINE S == {s[i] : i \in 1..Len(s)} \cup {t[i] : i \in 1..Len(t)}
<1>1. /\ s \in Seq({s[i] : i \in 1..Len(s)}) /\ Len(s) \in Nat
      /\ t \in Seq({t[i] : i \in 1..Len(t)}) /\ Len(t) \in Nat
  BY SeqFact
<1>2. s \in Seq(S) /\ t \in Seq(S)
  <2>1. \A A, B : A \subseteq B => Seq(A) \subseteq Seq(B)
    BY SeqMonotonic
  <2> QED
    BY <1>1, <2>1
<1> HIDE DEF S
<1>3. /\ s \o t \in Seq(S) /\ Len(s \o t) = Len(s) + Len(t)
      /\ \A i \in 1..Len(s) + Len(t) : (s \o t)[i] =
           IF i <= Len(s) THEN s[i] ELSE t[i - Len(s)]
  BY <1>2, ConcatProperties
<1>4. IsSeq(s \o t)
  BY <1>3, SeqIsSeq
<1>5. \A i \in 1..Len(s) : (s \o t)[i] = s[i]
  BY <1>1, <1>3
<1>6. ASSUME NEW i \in 1..Len(t) PROVE (s \o t)[Len(s) + i] = t[i]
  <2>1. Len(s) + i \in 1..Len(s) + Len(t) /\ ~(Len(s) + i <= Len(s))
        /\ (Len(s) + i) - Len(s) = i
    BY <1>1
  <2> QED
    BY <1>3, <2>1
<1> QED
  BY <1>3, <1>4, <1>5, <1>6

LEMMA EmptyFact ==
  /\ IsSeq(<<>>) /\ Len(<<>>) = 0
  /\ \A s : IsSeq(s) => /\ s = <<>> <=> Len(s) = 0
                        /\ s \o <<>> = s /\ <<>> \o s = s
<1>1. IsSeq(<<>>) /\ Len(<<>>) = 0
  <2>1. <<>> \in Seq({})
    OBVIOUS
  <2> QED
    BY <2>1, SeqIsSeq
<1>2. ASSUME NEW s, IsSeq(s)
      PROVE  s = <<>> <=> Len(s) = 0
  BY <1>1, <1>2, SameSeq, SeqFact
<1>3. ASSUME NEW s, IsSeq(s)
      PROVE  s \o <<>> = s /\ <<>> \o s = s
  BY <1>3, SeqFact, ConcatEmptySeq
<1> QED
  BY <1>1, <1>2, <1>3

LEMMA QuotientMonotonic ==
  ASSUME NEW p \in Nat \ {0}, NEW a \in Int, NEW b \in Int, a <= b
  PROVE  a \div p \in Int /\ a \div p <= b \div p
BY SMT

LEMMA ProductMonotonic ==
  ASSUME NEW p \in Nat, p > 0, NEW x \in Int, NEW y \in Int, x < y
  PROVE  p * x + p <= p * y
OBVIOUS

LEMMA ProductCommutes ==
  ASSUME NEW p \in Nat, NEW x \in Int
  PROVE  x * p = p * x /\ p * x \in Int /\ p * 0 = 0
OBVIOUS

(* A number of whole pieces that is just enough.                           *)
LEMMA RoundedUp ==
  ASSUME NEW p \in Nat \ {0}, NEW a \in Nat
  PROVE  LET t == (a + p - 1) \div p
         IN  /\ t \in Nat /\ t * p >= a
             /\ \A i \in 1..t : (i - 1) * p < a /\ (i - 1) * p \in Nat
<1> DEFINE t == (a + p - 1) \div p
<1>1. t \in Int /\ t * p >= a /\ (t - 1) * p < a
  BY SMT
<1> HIDE DEF t
<1>2. t \in Nat
  <2> SUFFICES ASSUME t < 0 PROVE FALSE
    BY <1>1
  <2>1. p * t + p <= p * 0
    BY <1>1, ProductMonotonic
  <2>2. t * p = p * t /\ p * t \in Int /\ p * 0 = 0
    BY <1>1, ProductCommutes
  <2> QED
    BY <1>1, <2>1, <2>2
<1>3. ASSUME NEW i \in 1..t
      PROVE  (i - 1) * p < a /\ (i - 1) * p \in Nat
  <2>1. i - 1 \in Nat /\ i - 1 <= t - 1
    BY <1>2
  <2>2. ASSUME NEW x \in Nat, NEW y \in Int, x <= y
        PROVE  x * p <= y * p /\ x * p \in Nat
    BY <2>2, SMT
  <2>3. (i - 1) * p <= (t - 1) * p /\ (i - 1) * p \in Nat
    BY <1>1, <2>1, <2>2
  <2>4. (t - 1) * p \in Int
    BY <1>1
  <2> QED
    BY <1>1, <2>3, <2>4
<1>4. t \in Nat /\ t * p >= a
  BY <1>1, <1>2
<1> QED
  BY <1>3, <1>4 DEF t

LEMMA PaddedMonotonic ==
  ASSUME NEW p \in Nat \ {0}, NEW a \in Nat, NEW b \in Nat, a <= b
  PROVE  /\ PadLen(a, p) \in 1..p
         /\ a + PadLen(a, p) <= b + PadLen(b, p)
<1>1. a % p \in 0..p - 1 /\ b % p \in 0..p - 1
  BY SMT
<1>2. a + (p - (a % p)) <= b + (p - (b % p))
  BY SMT
<1> QED
  BY <1>1, <1>2 DEF PadLen
-----------------------------------------------------------------------------
(* The recursive functions of the model are functions: there is one with   *)
(* the values its definition asks for.                                     *)

(* The ciphertext. *)
Chain(iv, s, n, f) ==
  f = [i \in 0..n |-> IF i = 0 THEN iv ELSE (s[i] + f[i - 1] + 1) % V]

LEMMA ChainExists ==
  \A iv, s : \A n \in Nat :
    Chain(iv, s, n, CHOOSE f : Chain(iv, s, n, f))
<1> SUFFICES ASSUME NEW iv, NEW s, NEW n \in Nat
             PROVE  \E f : Chain(iv, s, n, f)
  OBVIOUS
<1> DEFINE Step(i, v) == (s[i] + v + 1) % V
           T == {k \in Nat : \E f : Chain(iv, s, k, f)}
<1>1. 0 \in T
  <2> DEFINE f == [i \in 0..0 |-> iv]
  <2>1. Chain(iv, s, 0, f)
    BY DEF Chain
  <2> QED
    BY <2>1
<1>2. ASSUME NEW k \in T PROVE k + 1 \in T
  <2>1. PICK f : Chain(iv, s, k, f)
    OBVIOUS
  <2>2. f = [i \in 0..k |-> IF i = 0 THEN iv ELSE Step(i, f[i - 1])]
    BY <2>1 DEF Chain
  <2> DEFINE g == [i \in 0..k + 1 |-> IF i = k + 1 THEN Step(i, f[k]) ELSE f[i]]
  <2> HIDE DEF Step
  <2>3. \A i \in 0..k : g[i] = f[i]
    OBVIOUS
  <2>4. \A i \in 0..k + 1 : g[i] = IF i = 0 THEN iv ELSE Step(i, g[i - 1])
    BY <2>2, <2>3
  <2>5. g = [i \in 0..k + 1 |-> g[i]]
    OBVIOUS
  <2> HIDE DEF g
  <2>6. g = [i \in 0..k + 1 |-> IF i = 0 THEN iv ELSE Step(i, g[i - 1])]
    BY <2>4, <2>5
  <2>7. Chain(iv, s, k + 1, g)
    BY <2>6 DEF Chain, Step
  <2> QED
    BY <2>7
<1>3. T \subseteq Nat
  OBVIOUS
<1>4. T = Nat
  <2> HIDE DEF T
  <2> QED
    BY <1>1, <1>2, <1>3, SetInduction
<1>5. n \in T
  BY <1>4
<1> QED
  BY <1>5

(* The hash. *)
Roll(h, s, n, f) ==
  f = [i \in 0..n |-> IF i = 0 THEN h ELSE (3 * f[i - 1] + s[i] + 1) % (V * V)]

LEMMA RollExists ==
  \A h, s : \A n \in Nat :
    Roll(h, s, n, CHOOSE f : Roll(h, s, n, f))
<1> SUFFICES ASSUME NEW h, NEW s, NEW n \in Nat
             PROVE  \E f : Roll(h, s, n, f)
  OBVIOUS
<1> DEFINE Step(i, v) == (3 * v + s[i] + 1) % (V * V)
           T == {k \in Nat : \E f : Roll(h, s, k, f)}
<1>1. 0 \in T
  <2> DEFINE f == [i \in 0..0 |-> h]
  <2>1. Roll(h, s, 0, f)
    BY DEF Roll
  <2> QED
    BY <2>1
<1>2. ASSUME NEW k \in T PROVE k + 1 \in T
  <2>1. PICK f : Roll(h, s, k, f)
    OBVIOUS
  <2>2. f = [i \in 0..k |-> IF i = 0 THEN h ELSE Step(i, f[i - 1])]
    BY <2>1 DEF Roll
  <2> DEFINE g == [i \in 0..k + 1 |-> IF i = k + 1 THEN Step(i, f[k]) ELSE f[i]]
  <2> HIDE DEF Step
  <2>3. \A i \in 0..k : g[i] = f[i]
    OBVIOUS
  <2>4. \A i \in 0..k + 1 : g[i] = IF i = 0 THEN h ELSE Step(i, g[i - 1])
    BY <2>2, <2>3
  <2>5. g = [i \in 0..k + 1 |-> g[i]]
    OBVIOUS
  <2> HIDE DEF g
  <2>6. g = [i \in 0..k + 1 |-> IF i = 0 THEN h ELSE Step(i, g[i - 1])]
    BY <2>4, <2>5
  <2>7. Roll(h, s, k + 1, g)
    BY <2>6 DEF Roll, Step
  <2> QED
    BY <2>7
<1>3. T \subseteq Nat
  OBVIOUS
<1>4. T = Nat
  <2> HIDE DEF T
  <2> QED
    BY <1>1, <1>2, <1>3, SetInduction
<1>5. n \in T
  BY <1>4
<1> QED
  BY <1>5

(* The size of the array of pages. *)
Room(r, n, f) ==
  f = [i \in 0..n |-> IF i = 0 THEN r ELSE 2 * f[i - 1]]

LEMMA RoomExists ==
  \A r : \A n \in Nat :
    Room(r, n, CHOOSE f : Room(r, n, f))
<1> SUFFICES ASSUME NEW r, NEW n \in Nat
             PROVE  \E f : Room(r, n, f)
  OBVIOUS
<1> DEFINE Step(i, v) == 2 * v
           T == {k \in Nat : \E f : Room(r, k, f)}
<1>1. 0 \in T
  <2> DEFINE f == [i \in 0..0 |-> r]
  <2>1. Room(r, 0, f)
    BY DEF Room
  <2> QED
    BY <2>1
<1>2. ASSUME NEW k \in T PROVE k + 1 \in T
  <2>1. PICK f : Room(r, k, f)
    OBVIOUS
  <2>2. f = [i \in 0..k |-> IF i = 0 THEN r ELSE Step(i, f[i - 1])]
    BY <2>1 DEF Room
  <2> DEFINE g == [i \in 0..k + 1 |-> IF i = k + 1 THEN Step(i, f[k]) ELSE f[i]]
  <2> HIDE DEF Step
  <2>3. \A i \in 0..k : g[i] = f[i]
    OBVIOUS
  <2>4. \A i \in 0..k + 1 : g[i] = IF i = 0 THEN r ELSE Step(i, g[i - 1])
    BY <2>2, <2>3
  <2>5. g = [i \in 0..k + 1 |-> g[i]]
    OBVIOUS
  <2> HIDE DEF g
  <2>6. g = [i \in 0..k + 1 |-> IF i = 0 THEN r ELSE Step(i, g[i - 1])]
    BY <2>4, <2>5
  <2>7. Room(r, k + 1, g)
    BY <2>6 DEF Room, Step
  <2> QED
    BY <2>7
<1>3. T \subseteq Nat
  OBVIOUS
<1>4. T = Nat
  <2> HIDE DEF T
  <2> QED
    BY <1>1, <1>2, <1>3, SetInduction
<1>5. n \in T
  BY <1>4
<1> QED
  BY <1>5

(* The copying loop. *)
Turns(mc, kc, n, f) ==
  f = [i \in 0..n |-> IF i = 0 THEN mc ELSE RunChunk(f[i - 1], kc, (i - 1) * PAGE_SIZE)]

LEMMA TurnsExist ==
  \A mc, kc : \A n \in Nat :
    Turns(mc, kc, n, CHOOSE f : Turns(mc, kc, n, f))
<1> SUFFICES ASSUME NEW mc, NEW kc, NEW n \in Nat
             PROVE  \E f : Turns(mc, kc, n, f)
  OBVIOUS
<1> DEFINE Step(i, v) == RunChunk(v, kc, (i - 1) * PAGE_SIZE)
           T == {k \in Nat : \E f : Turns(mc, kc, k, f)}
<1>1. 0 \in T
  <2> DEFINE f == [i \in 0..0 |-> mc]
  <2>1. Turns(mc, kc, 0, f)
    BY DEF Turns
  <2> QED
    BY <2>1
<1>2. ASSUME NEW k \in T PROVE k + 1 \in T
  <2>1. PICK f : Turns(mc, kc, k, f)
    OBVIOUS
  <2>2. f = [i \in 0..k |-> IF i = 0 THEN mc ELSE Step(i, f[i - 1])]
    BY <2>1 DEF Turns
  <2> DEFINE g == [i \in 0..k + 1 |-> IF i = k + 1 THEN Step(i, f[k]) ELSE f[i]]
  <2> HIDE DEF Step
  <2>3. \A i \in 0..k : g[i] = f[i]
    OBVIOUS
  <2>4. \A i \in 0..k + 1 : g[i] = IF i = 0 THEN mc ELSE Step(i, g[i - 1])
    BY <2>2, <2>3
  <2>5. g = [i \in 0..k + 1 |-> g[i]]
    OBVIOUS
  <2> HIDE DEF g
  <2>6. g = [i \in 0..k + 1 |-> IF i = 0 THEN mc ELSE Step(i, g[i - 1])]
    BY <2>4, <2>5
  <2>7. Turns(mc, kc, k + 1, g)
    BY <2>6 DEF Turns, Step
  <2> QED
    BY <2>7
<1>3. T \subseteq Nat
  OBVIOUS
<1>4. T = Nat
  <2> HIDE DEF T
  <2> QED
    BY <1>1, <1>2, <1>3, SetInduction
<1>5. n \in T
  BY <1>4
<1> QED
  BY <1>5
-----------------------------------------------------------------------------
(* The cipher and the hash, piece by piece.                                *)
LEMMA EncryptSteps ==
  ASSUME NEW iv, NEW s, IsSeq(s)
  PROVE  LET e == Encrypt(iv, s)
         IN  /\ IsSeq(e) /\ Len(e) = Len(s)
             /\ \A i \in 1..Len(s) :
                  e[i] = (s[i] + (IF i = 1 THEN iv ELSE e[i - 1]) + 1) % V
<1> DEFINE n == Len(s)
           c == CHOOSE f : Chain(iv, s, n, f)
           e == [i \in 1..n |-> c[i]]
<1>1. n \in Nat
  BY SeqFact
<1>2. Chain(iv, s, n, c)
  BY <1>1, ChainExists
<1>3. Encrypt(iv, s) = e
  BY DEF Encrypt, Chain
<1> HIDE DEF c, n
<1>4. c[0] = iv /\ \A i \in 1..n : c[i] = (s[i] + c[i - 1] + 1) % V
  BY <1>1, <1>2 DEF Chain
<1>5. \A i \in 1..n : e[i] = c[i]
  OBVIOUS
<1>6. \A i \in 1..n : i # 1 => i - 1 \in 1..n
  BY <1>1
<1>7. \A i \in 1..n : c[i - 1] = IF i = 1 THEN iv ELSE e[i - 1]
  BY <1>4, <1>5, <1>6
<1>8. IsSeq(e) /\ Len(e) = n
  BY <1>1, FunctionSeq
<1> HIDE DEF e
<1>9. \A i \in 1..n : e[i] = (s[i] + (IF i = 1 THEN iv ELSE e[i - 1]) + 1) % V
  BY <1>4, <1>5, <1>7
<1> QED
  BY <1>3, <1>8, <1>9 DEF n

LEMMA DecryptSteps ==
  ASSUME NEW iv, NEW s, IsSeq(s)
  PROVE  LET d == Decrypt(iv, s)
         IN  /\ IsSeq(d) /\ Len(d) = Len(s)
             /\ \A i \in 1..Len(s) :
                  d[i] = (s[i] - (IF i = 1 THEN iv ELSE s[i - 1]) - 1) % V
<1> DEFINE d == Decrypt(iv, s)
<1>1. d = [i \in 1..Len(s) |-> (s[i] - (IF i = 1 THEN iv ELSE s[i - 1]) - 1) % V]
  BY DEF Decrypt
<1>2. Len(s) \in Nat
  BY SeqFact
<1>3. IsSeq(d) /\ Len(d) = Len(s)
  BY <1>1, <1>2, FunctionSeq
<1> QED
  BY <1>1, <1>3

LEMMA NextIvFact ==
  ASSUME NEW iv, NEW s, IsSeq(s)
  PROVE  NextIv(iv, s) = IF Len(s) = 0 THEN iv ELSE s[Len(s)]
BY EmptyFact DEF NextIv

(* Two sequences that obey the same recursion from the same iv.            *)
LEMMA EncryptUnique ==
  ASSUME NEW iv, NEW s, IsSeq(s), NEW e, IsSeq(e), Len(e) = Len(s),
         \A i \in 1..Len(s) :
           e[i] = (s[i] + (IF i = 1 THEN iv ELSE e[i - 1]) + 1) % V
  PROVE  e = Encrypt(iv, s)
<1> DEFINE f == Encrypt(iv, s)
           n == Len(s)
           T == {k \in Nat : \A i \in 1..n : i <= k => e[i] = f[i]}
<1>1. /\ IsSeq(f) /\ Len(f) = n
      /\ \A i \in 1..n : f[i] = (s[i] + (IF i = 1 THEN iv ELSE f[i - 1]) + 1) % V
  BY EncryptSteps
<1>2. n \in Nat
  BY SeqFact
<1> HIDE DEF f
<1>3. 0 \in T
  BY <1>2
<1>4. ASSUME NEW k \in T PROVE k + 1 \in T
  <2> SUFFICES ASSUME k + 1 \in 1..n PROVE e[k + 1] = f[k + 1]
    BY <1>2
  <2>1. k + 1 # 1 => (k + 1) - 1 \in 1..n /\ (k + 1) - 1 <= k
    BY <1>2
  <2>2. k + 1 # 1 => e[(k + 1) - 1] = f[(k + 1) - 1]
    BY <2>1
  <2> QED
    BY <1>1, <2>2
<1>5. T = Nat
  <2>1. T \subseteq Nat
    OBVIOUS
  <2> HIDE DEF T
  <2> QED
    BY <1>3, <1>4, <2>1, SetInduction
<1>6. \A i \in 1..n : e[i] = f[i]
  <2>1. n \in T
    BY <1>2, <1>5
  <2> QED
    BY <1>2, <2>1
<1> QED
  BY <1>1, <1>6, SameSeq DEF f

(* The provers take an equation with \o apart, element by element.         *)
Joined(s, t) == s \o t

(* What a chaining cipher makes of a whole is what it makes of its parts,  *)
(* if the iv is carried over.                                              *)
LEMMA EncryptConcat ==
  ASSUME NEW iv, NEW s, IsSeq(s), NEW t, IsSeq(t)
  PROVE  LET e == Encrypt(iv, s)
         IN  Encrypt(iv, s \o t) = Joined(e, Encrypt(NextIv(iv, e), t))
<1> DEFINE e == Encrypt(iv, s)
           f == Encrypt(NextIv(iv, e), t)
           g == e \o f
           st == s \o t
<1>1. /\ IsSeq(e) /\ Len(e) = Len(s)
      /\ \A i \in 1..Len(s) : e[i] = (s[i] + (IF i = 1 THEN iv ELSE e[i - 1]) + 1) % V
  BY EncryptSteps
<1>2. /\ IsSeq(f) /\ Len(f) = Len(t)
      /\ \A i \in 1..Len(t) :
           f[i] = (t[i] + (IF i = 1 THEN NextIv(iv, e) ELSE f[i - 1]) + 1) % V
  BY EncryptSteps
<1>3. NextIv(iv, e) = IF Len(s) = 0 THEN iv ELSE e[Len(s)]
  BY <1>1, NextIvFact
<1> HIDE DEF e, f
<1>4. /\ IsSeq(g) /\ Len(g) = Len(s) + Len(t)
      /\ \A i \in 1..Len(s) : g[i] = e[i]
      /\ \A i \in 1..Len(t) : g[Len(s) + i] = f[i]
  <2>1. IsSeq(e) /\ IsSeq(f) /\ Len(e) = Len(s) /\ Len(f) = Len(t)
    BY <1>1, <1>2
  <2>2. /\ IsSeq(e \o f) /\ Len(e \o f) = Len(e) + Len(f)
        /\ \A i \in 1..Len(e) : (e \o f)[i] = e[i]
        /\ \A i \in 1..Len(f) : (e \o f)[Len(e) + i] = f[i]
    BY <2>1, ConcatFact
  <2> QED
    BY <2>1, <2>2
<1>5. /\ IsSeq(st) /\ Len(st) = Len(s) + Len(t)
      /\ \A i \in 1..Len(s) : st[i] = s[i]
      /\ \A i \in 1..Len(t) : st[Len(s) + i] = t[i]
  BY ConcatFact
<1>6. Len(s) \in Nat /\ Len(t) \in Nat
  BY SeqFact
<1> HIDE DEF g, st
<1>7. ASSUME NEW i \in 1..Len(st)
      PROVE  g[i] = (st[i] + (IF i = 1 THEN iv ELSE g[i - 1]) + 1) % V
  <2>1. CASE i <= Len(s)
    <3>1. i \in 1..Len(s) /\ (i # 1 => i - 1 \in 1..Len(s))
      BY <1>5, <1>6, <2>1
    <3> QED
      BY <1>1, <1>4, <1>5, <3>1
  <2>2. CASE i > Len(s)
    <3> DEFINE j == i - Len(s)
    <3>1. j \in 1..Len(t) /\ i = Len(s) + j /\ (j # 1 => j - 1 \in 1..Len(t))
      BY <1>5, <1>6, <2>2
    <3>2. g[i] = f[j] /\ st[i] = t[j]
      BY <1>4, <1>5, <3>1
    <3>3. CASE j = 1
      <4>1. i - 1 = Len(s) /\ (i = 1 <=> Len(s) = 0)
        BY <1>6, <3>1, <3>3
      <4>2. Len(s) # 0 => g[i - 1] = e[Len(s)]
        BY <1>4, <1>6, <4>1
      <4> QED
        BY <1>2, <1>3, <3>1, <3>2, <3>3, <4>1, <4>2
    <3>4. CASE j # 1
      <4>1. i - 1 = Len(s) + (j - 1) /\ i # 1
        BY <1>6, <3>1, <3>4
      <4>2. g[i - 1] = f[j - 1]
        BY <1>4, <3>1, <3>4, <4>1
      <4> QED
        BY <1>2, <3>1, <3>2, <3>4, <4>1, <4>2
    <3> QED
      BY <3>3, <3>4
  <2> QED
    BY <1>5, <1>6, <2>1, <2>2
<1>8. g = Encrypt(iv, st)
  BY <1>4, <1>5, <1>7, EncryptUnique
<1> QED
  BY <1>8 DEF e, f, g, st, Joined

LEMMA DecryptConcat ==
  ASSUME NEW iv, NEW s, IsSeq(s), NEW t, IsSeq(t)
  PROVE  Decrypt(iv, s \o t) = Joined(Decrypt(iv, s), Decrypt(NextIv(iv, s), t))
<1> DEFINE e == Decrypt(iv, s)
           f == Decrypt(NextIv(iv, s), t)
           g == e \o f
           st == s \o t
           d == Decrypt(iv, st)
<1>1. /\ IsSeq(e) /\ Len(e) = Len(s)
      /\ \A i \in 1..Len(s) : e[i] = (s[i] - (IF i = 1 THEN iv ELSE s[i - 1]) - 1) % V
  BY DecryptSteps
<1>2. /\ IsSeq(f) /\ Len(f) = Len(t)
      /\ \A i \in 1..Len(t) :
           f[i] = (t[i] - (IF i = 1 THEN NextIv(iv, s) ELSE t[i - 1]) - 1) % V
  BY DecryptSteps
<1>3. NextIv(iv, s) = IF Len(s) = 0 THEN iv ELSE s[Len(s)]
  BY NextIvFact
<1>4. /\ IsSeq(st) /\ Len(st) = Len(s) + Len(t)
      /\ \A i \in 1..Len(s) : st[i] = s[i]
      /\ \A i \in 1..Len(t) : st[Len(s) + i] = t[i]
  BY ConcatFact
<1>5. /\ IsSeq(d) /\ Len(d) = Len(st)
      /\ \A i \in 1..Len(st) : d[i] = (st[i] - (IF i = 1 THEN iv ELSE st[i - 1]) - 1) % V
  <2>1. IsSeq(st)
    BY <1>4
  <2> HIDE DEF st
  <2>2. /\ IsSeq(d) /\ Len(d) = Len(st)
        /\ \A i \in 1..Len(st) :
             d[i] = (st[i] - (IF i = 1 THEN iv ELSE st[i - 1]) - 1) % V
    BY <2>1, DecryptSteps
  <2> QED
    BY <2>2
<1> HIDE DEF e, f
<1>6. /\ IsSeq(g) /\ Len(g) = Len(s) + Len(t)
      /\ \A i \in 1..Len(s) : g[i] = e[i]
      /\ \A i \in 1..Len(t) : g[Len(s) + i] = f[i]
  <2>1. IsSeq(e) /\ IsSeq(f) /\ Len(e) = Len(s) /\ Len(f) = Len(t)
    BY <1>1, <1>2
  <2>2. /\ IsSeq(e \o f) /\ Len(e \o f) = Len(e) + Len(f)
        /\ \A i \in 1..Len(e) : (e \o f)[i] = e[i]
        /\ \A i \in 1..Len(f) : (e \o f)[Len(e) + i] = f[i]
    BY <2>1, ConcatFact
  <2> QED
    BY <2>1, <2>2
<1>7. Len(s) \in Nat /\ Len(t) \in Nat
  BY SeqFact
<1> HIDE DEF g, st, d
<1>8. ASSUME NEW i \in 1..Len(st)
      PROVE  g[i] = d[i]
  <2>1. CASE i <= Len(s)
    <3>1. i \in 1..Len(s) /\ (i # 1 => i - 1 \in 1..Len(s))
      BY <1>4, <1>7, <2>1
    <3>2. st[i] = s[i] /\ (i # 1 => st[i - 1] = s[i - 1]) /\ g[i] = e[i]
      BY <1>4, <1>6, <3>1
    <3>3. e[i] = (s[i] - (IF i = 1 THEN iv ELSE s[i - 1]) - 1) % V
      BY <1>1, <3>1
    <3>4. d[i] = (st[i] - (IF i = 1 THEN iv ELSE st[i - 1]) - 1) % V
      BY <1>5
    <3> QED
      BY <3>2, <3>3, <3>4
  <2>2. CASE i > Len(s)
    <3> DEFINE j == i - Len(s)
    <3>1. j \in 1..Len(t) /\ i = Len(s) + j /\ (j # 1 => j - 1 \in 1..Len(t))
      BY <1>4, <1>7, <2>2
    <3>2. g[i] = f[j] /\ st[i] = t[j]
      BY <1>4, <1>6, <3>1
    <3>3. CASE j = 1
      <4>1. i - 1 = Len(s) /\ (i = 1 <=> Len(s) = 0)
        BY <1>7, <3>1, <3>3
      <4>2. Len(s) # 0 => st[i - 1] = s[Len(s)]
        BY <1>4, <1>7, <4>1
      <4> QED
        BY <1>2, <1>3, <1>5, <3>1, <3>2, <3>3, <4>1, <4>2
    <3>4. CASE j # 1
      <4>1. i - 1 = Len(s) + (j - 1) /\ i # 1
        BY <1>7, <3>1, <3>4
      <4>2. st[i - 1] = t[j - 1]
        BY <1>4, <3>1, <3>4, <4>1
      <4> QED
        BY <1>2, <1>5, <3>1, <3>2, <3>4, <4>1, <4>2
    <3> QED
      BY <3>3, <3>4
  <2> QED
    BY <1>4, <1>7, <2>1, <2>2
<1>9. g = d
  BY <1>4, <1>5, <1>6, <1>8, SameSeq
<1> QED
  BY <1>9 DEF e, f, g, st, d, Joined

(* What is hashed in two calls is what is hashed in one.                   *)
Rolled(h, s, a) ==
  /\ a[0] = h
  /\ \A i \in 1..Len(s) : a[i] = (3 * a[i - 1] + s[i] + 1) % (V * V)

LEMMA HashSteps ==
  \A h, s : IsSeq(s) => \E a : Rolled(h, s, a) /\ Hash(h, s) = a[Len(s)]
<1> SUFFICES ASSUME NEW h, NEW s, IsSeq(s)
             PROVE  \E a : Rolled(h, s, a) /\ Hash(h, s) = a[Len(s)]
  OBVIOUS
<1> DEFINE n == Len(s)
           a == CHOOSE f : Roll(h, s, n, f)
<1>1. n \in Nat
  BY SeqFact
<1>2. Roll(h, s, n, a)
  BY <1>1, RollExists
<1>3. Hash(h, s) = a[n]
  BY DEF Hash, Roll
<1> HIDE DEF a
<1>4. Rolled(h, s, a)
  BY <1>1, <1>2 DEF Rolled, Roll
<1> QED
  BY <1>3, <1>4

LEMMA HashConcat ==
  ASSUME NEW h, NEW s, IsSeq(s), NEW t, IsSeq(t)
  PROVE  Hash(h, s \o t) = Hash(Hash(h, s), t)
<1> DEFINE st == s \o t
<1>1. PICK a : Rolled(h, s, a) /\ Hash(h, s) = a[Len(s)]
  BY HashSteps
<1>2. PICK b : Rolled(a[Len(s)], t, b) /\ Hash(a[Len(s)], t) = b[Len(t)]
  BY HashSteps
<1>3. /\ IsSeq(st) /\ Len(st) = Len(s) + Len(t)
      /\ \A i \in 1..Len(s) : st[i] = s[i]
      /\ \A i \in 1..Len(t) : st[Len(s) + i] = t[i]
  BY ConcatFact
<1>4. PICK c : Rolled(h, st, c) /\ Hash(h, st) = c[Len(st)]
  BY <1>3, HashSteps
<1> USE DEF Rolled
<1>5. Len(s) \in Nat /\ Len(t) \in Nat
  BY SeqFact
<1> HIDE DEF st
<1> DEFINE T == {k \in Nat : k <= Len(s) => c[k] = a[k]}
           U == {k \in Nat : k <= Len(t) => c[Len(s) + k] = b[k]}
<1>6. T = Nat
  <2>1. 0 \in T
    BY <1>1, <1>4
  <2>2. ASSUME NEW k \in T PROVE k + 1 \in T
    <3> SUFFICES ASSUME k + 1 <= Len(s) PROVE c[k + 1] = a[k + 1]
      OBVIOUS
    <3>1. k + 1 \in 1..Len(s) /\ k + 1 \in 1..Len(st) /\ (k + 1) - 1 = k /\ k <= Len(s)
      BY <1>3, <1>5
    <3> QED
      BY <1>1, <1>3, <1>4, <3>1
  <2>3. T \subseteq Nat
    OBVIOUS
  <2> HIDE DEF T
  <2> QED
    BY <2>1, <2>2, <2>3, SetInduction
<1>7. c[Len(s)] = a[Len(s)]
  <2>1. Len(s) \in T
    BY <1>5, <1>6
  <2> QED
    BY <1>5, <2>1
<1>8. U = Nat
  <2>1. 0 \in U
    BY <1>2, <1>5, <1>7
  <2>2. ASSUME NEW k \in U PROVE k + 1 \in U
    <3> SUFFICES ASSUME k + 1 <= Len(t) PROVE c[Len(s) + (k + 1)] = b[k + 1]
      OBVIOUS
    <3>1. /\ k + 1 \in 1..Len(t) /\ Len(s) + (k + 1) \in 1..Len(st)
          /\ (k + 1) - 1 = k /\ (Len(s) + (k + 1)) - 1 = Len(s) + k /\ k <= Len(t)
      BY <1>3, <1>5
    <3>2. st[Len(s) + (k + 1)] = t[k + 1]
      BY <1>3, <3>1
    <3> QED
      BY <1>2, <1>4, <3>1, <3>2
  <2>3. U \subseteq Nat
    OBVIOUS
  <2> HIDE DEF U
  <2> QED
    BY <2>1, <2>2, <2>3, SetInduction
<1>9. c[Len(s) + Len(t)] = b[Len(t)]
  <2>1. Len(t) \in U
    BY <1>5, <1>8
  <2> QED
    BY <1>5, <2>1
<1> QED
  BY <1>1, <1>2, <1>3, <1>4, <1>9 DEF st
-----------------------------------------------------------------------------
(* Machines, and what pinning and releasing does to them.                  *)
Fields ==
  {"cipher", "blocksize", "hash", "iv", "h", "authsize", "pages", "used_pages",
   "pins", "oops", "spoiled", "mem", "perm", "ret", "digest", "len"}

IsMemory(mem) == mem = [a \in Addr |-> mem[a]]

IsMachine(mc) ==
  /\ DOMAIN mc = Fields
  /\ IsSeq(mc.pages) /\ Len(mc.pages) > 0 /\ mc.used_pages \in Nat
  /\ IsMemory(mc.mem)
  /\ mc.oops \in BOOLEAN /\ mc.spoiled \in BOOLEAN
  /\ mc.pins \in [Pages -> Int]

(* Nothing but the bookkeeping of the pages differs.                       *)
Same(mc, r) ==
  /\ r.cipher = mc.cipher /\ r.blocksize = mc.blocksize /\ r.hash = mc.hash
  /\ r.iv = mc.iv /\ r.h = mc.h /\ r.authsize = mc.authsize
  /\ r.mem = mc.mem /\ r.perm = mc.perm
  /\ r.ret = mc.ret /\ r.digest = mc.digest /\ r.len = mc.len

Balanced(mc) == mc.spoiled \/ (~mc.oops /\ \A pg \in Pages : mc.pins[pg] = 0)

(* What release_user_pages needs to leave it balanced.                     *)
Releasable(mc) ==
  mc.spoiled \/ /\ ~mc.oops /\ \A i \in 1..mc.used_pages : mc.pages[i] # None
                /\ \A pg \in Pages :
                     mc.pins[pg] = Cardinality({i \in 1..mc.used_pages : mc.pages[i] = pg})

Pinned(mc, r, first, got, off) ==
  /\ IsMachine(r) /\ Same(mc, r)
  /\ r.used_pages = mc.used_pages /\ r.oops = mc.oops
  /\ Len(r.pages) = Len(mc.pages)
  /\ \A pg \in Pages :
       r.pins[pg] = mc.pins[pg] + (IF pg \in Span(first, got) THEN 1 ELSE 0)
  /\ \A i \in 1..Len(mc.pages) :
       r.pages[i] = IF i - off \in 1..got THEN first + i - off - 1 ELSE mc.pages[i]

LEMMA PageFact ==
  /\ \A a \in Int : Page(a) \in Int
  /\ Pages \subseteq Int
  /\ \A a, n \in Nat : PAGECOUNT(a, n) \in Nat
<1>1. \A a \in Int : Page(a) \in Int
  BY ZcAssumption DEF Page
<1>2. Pages \subseteq Int
  BY <1>1, ZcAssumption DEF Pages, Addr
<1>3. ASSUME NEW a \in Nat, NEW n \in Nat PROVE PAGECOUNT(a, n) \in Nat
  <2>1. CASE n = 0
    BY <2>1 DEF PAGECOUNT
  <2>2. CASE n # 0
    <3>1. a + n - 1 \in Int /\ a <= a + n - 1
      BY <2>2
    <3>2. Page(a) \in Int /\ Page(a + n - 1) \in Int /\ Page(a) <= Page(a + n - 1)
      BY <1>1, <3>1, QuotientMonotonic, ZcAssumption DEF Page
    <3> QED
      BY <2>2, <3>2 DEF PAGECOUNT
  <2> QED
    BY <2>1, <2>2
<1> QED
  BY <1>1, <1>2, <1>3

LEMMA PinFact ==
  ASSUME NEW mc, IsMachine(mc), NEW addr, NEW write, NEW n \in Nat, NEW off \in Nat,
         addr \in Int \/ n = 0, off + n <= Len(mc.pages)
  PROVE  LET u == Pin(mc, addr, write, n, off)
         IN  /\ u.ok \in BOOLEAN
             /\ \E first \in Int, got \in 0..n :
                  /\ u.ok <=> got = n
                  /\ u.m.spoiled <=> mc.spoiled \/ got \in 1..n - 1
                  /\ Pinned(mc, u.m, first, got, off)
<1> DEFINE u == Pin(mc, addr, write, n, off)
<1>1. CASE n = 0
  <2>1. u = [ok |-> TRUE, m |-> mc]
    BY <1>1 DEF Pin
  <2>2. Pinned(mc, mc, 0, 0, off)
    <3>1. \A pg \in Pages : ~(pg \in Span(0, 0)) /\ mc.pins[pg] \in Int
      BY DEF Span, IsMachine
    <3> QED
      BY <3>1 DEF Pinned, Same
  <2>3. u.ok = TRUE /\ u.m = mc /\ mc.spoiled \in BOOLEAN
    BY <2>1 DEF IsMachine
  <2> HIDE DEF u
  <2>4. 0 \in Int /\ 0 \in 0..n /\ ~(0 \in 1..n - 1) /\ 0 = n
    BY <1>1
  <2>5. u.m.spoiled <=> mc.spoiled \/ 0 \in 1..n - 1
    BY <2>3, <2>4
  <2>6. Pinned(mc, u.m, 0, 0, off) /\ u.ok \in BOOLEAN /\ (u.ok <=> 0 = n)
    BY <2>2, <2>3, <2>4
  <2> QED
    BY <2>4, <2>5, <2>6, Zenon DEF u
<1>2. CASE n # 0
  <2> DEFINE first == Page(addr)
             bad == {i \in 0..n - 1 : ~(first + i \in Pages /\ Allows(mc.perm, first + i, write))}
             got == Min(bad \cup {n})
             r == [mc EXCEPT
                     !.spoiled = @ \/ got \in 1..n - 1,
                     !.pins = [pg \in Pages |->
                                 IF pg \in Span(first, got) THEN @[pg] + 1 ELSE @[pg]],
                     !.pages = [i \in 1..Len(@) |->
                                  IF i - off \in 1..got THEN first + i - off - 1
                                                        ELSE @[i]]]
  <2>1. u = [ok |-> got = n, m |-> r]
    BY <1>2, Zenon DEF Pin
  <2>2. first \in Int
    BY <1>2, PageFact
  <2>3. got \in 0..n
    <3>1. bad \cup {n} \subseteq 0..n
      OBVIOUS
    <3>2. bad \cup {n} \subseteq Nat /\ bad \cup {n} # {}
      BY <3>1
    <3> HIDE DEF bad
    <3> QED
      BY <3>1, <3>2, MinFact
  <2> HIDE DEF first, got
  <2>4. /\ r.spoiled = (mc.spoiled \/ got \in 1..n - 1)
        /\ r.pins = [pg \in Pages |->
                       IF pg \in Span(first, got) THEN mc.pins[pg] + 1 ELSE mc.pins[pg]]
        /\ r.pages = [i \in 1..Len(mc.pages) |->
                        IF i - off \in 1..got THEN first + i - off - 1 ELSE mc.pages[i]]
        /\ DOMAIN r = Fields
        /\ Same(mc, r) /\ r.used_pages = mc.used_pages /\ r.oops = mc.oops
    BY DEF IsMachine, Fields, Same
  <2> HIDE DEF r
  <2>5. Len(mc.pages) \in Nat
    BY SeqFact DEF IsMachine
  <2>6. IsSeq(r.pages) /\ Len(r.pages) = Len(mc.pages)
    <3>1. r.pages = [i \in 1..Len(mc.pages) |-> r.pages[i]]
      BY <2>4
    <3> QED
      BY <2>5, <3>1, FunctionSeq
  <2>7. r.pins \in [Pages -> Int]
    BY <2>4 DEF IsMachine
  <2>8. r.spoiled \in BOOLEAN
    BY <2>4 DEF IsMachine
  <2>9. IsMachine(r)
    BY <2>4, <2>6, <2>7, <2>8 DEF IsMachine, Same
  <2>10. Pinned(mc, r, first, got, off)
    <3>1. \A pg \in Pages :
            r.pins[pg] = mc.pins[pg] + (IF pg \in Span(first, got) THEN 1 ELSE 0)
      BY <2>4 DEF IsMachine
    <3> QED
      BY <2>4, <2>6, <2>9, <3>1 DEF Pinned
  <2>11. (got = n) \in BOOLEAN /\ (r.spoiled <=> mc.spoiled \/ got \in 1..n - 1)
    BY <2>4
  <2>12. u.ok = (got = n) /\ u.m = r
    BY <2>1
  <2> HIDE DEF u
  <2>13. /\ u.ok \in BOOLEAN /\ (u.ok <=> got = n) /\ Pinned(mc, u.m, first, got, off)
         /\ u.m.spoiled <=> mc.spoiled \/ got \in 1..n - 1
    BY <2>10, <2>11, <2>12
  <2> QED
    BY <2>2, <2>3, <2>13, Zenon DEF u
<1> QED
  BY <1>1, <1>2

LEMMA AdjustFact ==
  ASSUME NEW mc, IsMachine(mc), NEW count \in Nat
  PROVE  LET r == adjust_sg_array(mc, count)
         IN  /\ IsMachine(r) /\ Same(mc, r) /\ Len(r.pages) >= count
             /\ Len(r.pages) >= Len(mc.pages)
             /\ r.used_pages = mc.used_pages /\ r.pins = mc.pins
             /\ r.oops = mc.oops /\ r.spoiled = mc.spoiled
<1> DEFINE L == Len(mc.pages)
           a == CHOOSE f : Room(L, count, f)
           enough == {i \in 0..count : a[i] >= count}
           size == a[Min(enough)]
           more == [i \in 1..size - L |-> None]
           r == [mc EXCEPT !.pages = @ \o more]
<1>1. adjust_sg_array(mc, count) = r
  BY Zenon DEF adjust_sg_array, Room
<1>2. L \in Nat /\ L > 0 /\ IsSeq(mc.pages)
  BY SeqFact DEF IsMachine
<1>3. Room(L, count, a)
  BY <1>2, RoomExists
<1> HIDE DEF a
<1>4. a[0] = L /\ \A i \in 1..count : a[i] = 2 * a[i - 1]
  BY <1>3 DEF Room
<1>5. \A i \in 0..count : a[i] \in Nat /\ a[i] >= i + 1 /\ a[i] >= L
  <2> DEFINE T == {i \in Nat : i <= count => a[i] \in Nat /\ a[i] >= i + 1 /\ a[i] >= L}
  <2>1. 0 \in T
    BY <1>2, <1>4
  <2>2. ASSUME NEW i \in T PROVE i + 1 \in T
    <3> SUFFICES ASSUME i + 1 <= count
                 PROVE  a[i + 1] \in Nat /\ a[i + 1] >= (i + 1) + 1 /\ a[i + 1] >= L
      OBVIOUS
    <3>1. i + 1 \in 1..count /\ (i + 1) - 1 = i /\ i <= count
      OBVIOUS
    <3>2. a[i + 1] = 2 * a[i] /\ a[i] \in Nat /\ a[i] >= i + 1 /\ a[i] >= L
      BY <1>4, <3>1
    <3> QED
      BY <1>2, <3>2
  <2>3. T \subseteq Nat
    OBVIOUS
  <2>4. T = Nat
    <3> HIDE DEF T
    <3> QED
      BY <2>1, <2>2, <2>3, SetInduction
  <2> QED
    BY <2>4
<1>6. Min(enough) \in enough
  <2>1. count \in enough
    BY <1>5
  <2>2. enough \subseteq Nat
    OBVIOUS
  <2> HIDE DEF enough
  <2> QED
    BY <2>1, <2>2, MinFact
<1>7. size \in Nat /\ size >= count /\ size >= L
  BY <1>5, <1>6
<1> HIDE DEF size
<1>8. IsSeq(more) /\ Len(more) = size - L
  <2>1. size - L \in Nat
    BY <1>2, <1>7
  <2> QED
    BY <2>1, FunctionSeq
<1> HIDE DEF more
<1>9. IsSeq(mc.pages \o more) /\ Len(mc.pages \o more) = L + (size - L)
  BY <1>2, <1>8, ConcatFact
<1>10. /\ r.pages = mc.pages \o more /\ DOMAIN r = Fields /\ Same(mc, r)
       /\ r.used_pages = mc.used_pages /\ r.pins = mc.pins
       /\ r.oops = mc.oops /\ r.spoiled = mc.spoiled
  BY DEF IsMachine, Fields, Same
<1> HIDE DEF r
<1>11. IsMachine(r) /\ Len(r.pages) >= count /\ Len(r.pages) >= L
  BY <1>2, <1>7, <1>9, <1>10 DEF IsMachine, Same
<1> QED
  BY <1>1, <1>10, <1>11
(* Pages entered one after the other, and how often one of them occurs.    *)
Consecutive(f, lo, n, first) == \A i \in lo + 1..lo + n : f[i] = first + (i - lo) - 1

Occurs(f, lo, n, pg) == {i \in lo + 1..lo + n : f[i] = pg}

Once(pg, first, n) == IF pg \in Span(first, n) THEN 1 ELSE 0

LEMMA CountFact ==
  ASSUME NEW f, NEW lo \in Nat, NEW n \in Nat, NEW first \in Int, NEW pg \in Int,
         Consecutive(f, lo, n, first)
  PROVE  /\ IsFiniteSet(Occurs(f, lo, n, pg))
         /\ Cardinality(Occurs(f, lo, n, pg)) = Once(pg, first, n)
<1> DEFINE S == {i \in lo + 1..lo + n : f[i] = pg}
<1>1. CASE pg \in Span(first, n)
  <2> DEFINE j == lo + (pg - first) + 1
  <2>1. j \in lo + 1..lo + n
    BY <1>1 DEF Span
  <2>2. S = {j}
    BY <2>1 DEF Consecutive
  <2> QED
    BY <1>1, <2>2, FS_Singleton DEF Occurs, Once
<1>2. CASE pg \notin Span(first, n)
  <2>1. S = {}
    BY <1>2 DEF Span, Consecutive
  <2> QED
    BY <1>2, <2>1, FS_EmptySet DEF Occurs, Once
<1> QED
  BY <1>1, <1>2

LEMMA ReleaseFact ==
  ASSUME NEW mc, IsMachine(mc), Releasable(mc)
  PROVE  LET r == release_user_pages(mc)
         IN  IsMachine(r) /\ Same(mc, r) /\ Balanced(r)
<1> DEFINE r == release_user_pages(mc)
           Held(pg) == {i \in 1..mc.used_pages : mc.pages[i] = pg}
<1>1. /\ DOMAIN r = Fields /\ Same(mc, r)
      /\ r.used_pages = 0 /\ r.pages = mc.pages /\ r.spoiled = mc.spoiled
      /\ r.oops = (mc.oops \/ \E i \in 1..mc.used_pages : mc.pages[i] = None)
      /\ r.pins = [pg \in Pages |-> mc.pins[pg] - Cardinality(Held(pg))]
  BY DEF release_user_pages, IsMachine, Fields, Same
<1>2. \A pg \in Pages : Cardinality(Held(pg)) \in Nat
  <2>1. mc.used_pages \in Nat
    BY DEF IsMachine
  <2>2. IsFiniteSet(1..mc.used_pages)
    BY <2>1, FS_Interval
  <2>3. \A pg : Held(pg) \in SUBSET (1..mc.used_pages)
    OBVIOUS
  <2> HIDE DEF Held
  <2> QED
    BY <2>2, <2>3, FS_Subset, FS_CardinalityType
<1> HIDE DEF r
<1>3. r.pins \in [Pages -> Int] /\ r.oops \in BOOLEAN
  <2>1. \A pg \in Pages : mc.pins[pg] \in Int
    BY DEF IsMachine
  <2> HIDE DEF Held
  <2> QED
    BY <1>1, <1>2, <2>1
<1>4. IsMachine(r)
  BY <1>1, <1>3 DEF IsMachine, Same
<1>5. Balanced(r)
  <2> SUFFICES ASSUME ~mc.spoiled PROVE ~r.oops /\ \A pg \in Pages : r.pins[pg] = 0
    BY <1>1 DEF Balanced
  <2>1. ~mc.oops /\ \A i \in 1..mc.used_pages : mc.pages[i] # None
    BY DEF Releasable
  <2>2. \A pg \in Pages : mc.pins[pg] = Cardinality(Held(pg))
    BY DEF Releasable
  <2>3. ~r.oops
    BY <1>1, <2>1
  <2> HIDE DEF Held
  <2>4. \A pg \in Pages : r.pins[pg] = 0
    BY <1>1, <1>2, <2>2
  <2> QED
    BY <2>3, <2>4
<1> QED
  BY <1>1, <1>4, <1>5 DEF r

(* All pages of one buffer, or of two, are there to be released.           *)
LEMMA OnePinned ==
  ASSUME NEW mc, IsMachine(mc), Balanced(mc), NEW r, NEW first \in Int, NEW n \in Nat,
         Pinned(mc, r, first, n, 0), n <= Len(mc.pages),
         mc.spoiled => r.spoiled
  PROVE  \A q : /\ IsMachine(q) /\ q.used_pages = n /\ q.pages = r.pages
                /\ q.pins = r.pins /\ q.oops = r.oops /\ q.spoiled = r.spoiled
                => Releasable(q)
<1> SUFFICES ASSUME NEW q, IsMachine(q), q.used_pages = n, q.pages = r.pages,
                    q.pins = r.pins, q.oops = r.oops, q.spoiled = r.spoiled,
                    ~q.spoiled
             PROVE  /\ ~q.oops /\ \A i \in 1..q.used_pages : q.pages[i] # None
                    /\ \A pg \in Pages :
                         q.pins[pg] = Cardinality({i \in 1..q.used_pages : q.pages[i] = pg})
  BY DEF Releasable
<1>1. ~mc.oops /\ \A pg \in Pages : mc.pins[pg] = 0
  BY DEF Balanced
<1>2. Len(mc.pages) \in Nat
  BY SeqFact DEF IsMachine
<1>3. ~q.oops
  BY <1>1 DEF Pinned
<1>4. Consecutive(q.pages, 0, n, first)
  BY <1>2 DEF Pinned, Consecutive
<1>5. \A i \in 1..q.used_pages : q.pages[i] # None
  BY <1>4, ZcAssumption DEF Consecutive
<1>6. ASSUME NEW pg \in Pages
      PROVE  q.pins[pg] = Cardinality({i \in 1..q.used_pages : q.pages[i] = pg})
  <2>1. pg \in Int
    BY PageFact
  <2>2. Cardinality(Occurs(q.pages, 0, n, pg)) = Once(pg, first, n)
    BY <1>4, <2>1, CountFact
  <2>3. Occurs(q.pages, 0, n, pg) = {i \in 1..q.used_pages : q.pages[i] = pg}
    BY DEF Occurs
  <2>4. q.pins[pg] = Once(pg, first, n)
    BY <1>1 DEF Pinned, Once
  <2> QED
    BY <2>2, <2>3, <2>4
<1> QED
  BY <1>3, <1>5, <1>6

LEMMA TwoPinned ==
  ASSUME NEW mc, IsMachine(mc), Balanced(mc), NEW s, NEW r,
         NEW first \in Int, NEW then \in Int, NEW ns \in Nat, NEW nd \in Nat,
         Pinned(mc, s, first, ns, 0), Pinned(s, r, then, nd, ns),
         ns + nd = mc.used_pages, ns + nd <= Len(mc.pages),
         mc.spoiled => r.spoiled
  PROVE  Releasable(r)
<1> SUFFICES ASSUME ~r.spoiled
             PROVE  /\ ~r.oops /\ \A i \in 1..r.used_pages : r.pages[i] # None
                    /\ \A pg \in Pages :
                         r.pins[pg] = Cardinality({i \in 1..r.used_pages : r.pages[i] = pg})
  BY DEF Releasable
<1>1. ~mc.oops /\ \A pg \in Pages : mc.pins[pg] = 0
  BY DEF Balanced
<1>2. Len(mc.pages) \in Nat /\ Len(s.pages) = Len(mc.pages)
  BY SeqFact DEF IsMachine, Pinned
<1>3. ~r.oops /\ r.used_pages = ns + nd
  BY <1>1 DEF Pinned
<1>4. Consecutive(r.pages, 0, ns, first)
  <2>1. \A i \in 1..ns : i \in 1..Len(mc.pages) /\ ~(i - ns \in 1..nd) /\ i - 0 \in 1..ns
    BY <1>2
  <2>2. \A i \in 1..ns : r.pages[i] = s.pages[i]
    BY <1>2, <2>1 DEF Pinned
  <2>3. \A i \in 1..ns : s.pages[i] = first + i - 0 - 1
    BY <2>1 DEF Pinned
  <2>4. \A i \in 1..ns : r.pages[i] = first + i - 0 - 1
    BY <2>2, <2>3
  <2> QED
    BY <2>4 DEF Consecutive
<1>5. Consecutive(r.pages, ns, nd, then)
  <2>1. \A i \in ns + 1..ns + nd : i \in 1..Len(s.pages) /\ i - ns \in 1..nd
    BY <1>2
  <2>2. \A i \in ns + 1..ns + nd : r.pages[i] = then + i - ns - 1
    BY <2>1 DEF Pinned
  <2> QED
    BY <2>2 DEF Consecutive
<1>6. \A i \in 1..r.used_pages : r.pages[i] # None
  <2>1. \A i \in 1..r.used_pages : i \in 0 + 1..0 + ns \/ i \in ns + 1..ns + nd
    BY <1>3
  <2> QED
    BY <1>4, <1>5, <2>1, ZcAssumption DEF Consecutive
<1>7. ASSUME NEW pg \in Pages
      PROVE  r.pins[pg] = Cardinality({i \in 1..r.used_pages : r.pages[i] = pg})
  <2> DEFINE A == Occurs(r.pages, 0, ns, pg)
             B == Occurs(r.pages, ns, nd, pg)
  <2>1. pg \in Int
    BY PageFact
  <2>2. IsFiniteSet(A) /\ Cardinality(A) = Once(pg, first, ns)
    BY <1>4, <2>1, CountFact
  <2>3. IsFiniteSet(B) /\ Cardinality(B) = Once(pg, then, nd)
    BY <1>5, <2>1, CountFact
  <2>4. A \cap B = {} /\ A \cup B = {i \in 1..r.used_pages : r.pages[i] = pg}
    BY <1>3 DEF Occurs
  <2> HIDE DEF A, B
  <2>5. Cardinality(A \cup B) = Cardinality(A) + Cardinality(B) - Cardinality(A \cap B)
    BY <2>2, <2>3, FS_Union
  <2>6. Cardinality(A \cap B) = 0
    BY <2>4, FS_EmptySet
  <2>7. Once(pg, first, ns) \in Nat /\ Once(pg, then, nd) \in Nat
    BY DEF Once
  <2>8. Cardinality(A \cup B) = Once(pg, first, ns) + Once(pg, then, nd)
    BY <2>2, <2>3, <2>5, <2>6, <2>7
  <2>9. r.pins[pg] = Once(pg, first, ns) + Once(pg, then, nd)
    BY <1>1 DEF Pinned, Once
  <2> QED
    BY <2>4, <2>8, <2>9
<1> QED
  BY <1>3, <1>6, <1>7
LEMMA PinnedSame ==
  ASSUME NEW mc, NEW r, NEW first, NEW got, NEW off, Pinned(mc, r, first, got, off)
  PROVE  IsMachine(r) /\ Same(mc, r) /\ r.used_pages = mc.used_pages
         /\ r.oops = mc.oops /\ Len(r.pages) = Len(mc.pages)
BY DEF Pinned

(* A pinning that got no page, or that got only some, keeps the balance.   *)
LEMMA RefusedBalanced ==
  ASSUME NEW mc, IsMachine(mc), Balanced(mc), NEW r, NEW first \in Int,
         NEW n \in Nat, NEW got \in 0..n, got # n,
         Pinned(mc, r, first, got, 0),
         r.spoiled <=> mc.spoiled \/ got \in 1..n - 1
  PROVE  Balanced(r)
<1>1. CASE got = 0
  <2>1. \A pg \in Pages : r.pins[pg] = mc.pins[pg]
    BY <1>1 DEF Pinned, Span, IsMachine
  <2>2. r.oops = mc.oops /\ (mc.spoiled => r.spoiled)
    BY DEF Pinned
  <2> QED
    BY <2>1, <2>2 DEF Balanced
<1>2. CASE got # 0
  BY <1>2 DEF Balanced
<1> QED
  BY <1>1, <1>2

(* Every way to the user's pages ends with all of them, to be released, or *)
(* with what the machine had.                                              *)
Secured(mc, u) ==
  /\ u.ok \in BOOLEAN /\ IsMachine(u.m) /\ Same(mc, u.m)
  /\ u.ok => Releasable(u.m)
  /\ ~u.ok => Balanced(u.m)

LEMMA PinSecures ==
  ASSUME NEW mc, IsMachine(mc), Balanced(mc), NEW addr, NEW write, NEW n \in Nat,
         addr \in Int \/ n = 0, n <= Len(mc.pages)
  PROVE  LET u == Pin(mc, addr, write, n, 0)
         IN  /\ u.ok \in BOOLEAN /\ IsMachine(u.m) /\ Same(mc, u.m)
             /\ u.m.used_pages = mc.used_pages
             /\ ~u.ok => Balanced(u.m)
             /\ u.ok => \A q : /\ IsMachine(q) /\ q.used_pages = n
                               /\ q.pages = u.m.pages /\ q.pins = u.m.pins
                               /\ q.oops = u.m.oops /\ q.spoiled = u.m.spoiled
                               => Releasable(q)
<1> DEFINE u == Pin(mc, addr, write, n, 0)
<1>1. 0 + n <= Len(mc.pages)
  OBVIOUS
<1>2. /\ u.ok \in BOOLEAN
      /\ \E first \in Int, got \in 0..n :
           /\ u.ok <=> got = n
           /\ u.m.spoiled <=> mc.spoiled \/ got \in 1..n - 1
           /\ Pinned(mc, u.m, first, got, 0)
  BY <1>1, PinFact
<1> HIDE DEF u
<1>3. PICK first \in Int, got \in 0..n :
        /\ u.ok <=> got = n
        /\ u.m.spoiled <=> mc.spoiled \/ got \in 1..n - 1
        /\ Pinned(mc, u.m, first, got, 0)
  BY <1>2, Zenon
<1>4. IsMachine(u.m) /\ Same(mc, u.m) /\ u.m.used_pages = mc.used_pages
  BY <1>3, PinnedSame
<1>5. ~u.ok => Balanced(u.m)
  BY <1>3, RefusedBalanced
<1>6. ASSUME u.ok
      PROVE  \A q : /\ IsMachine(q) /\ q.used_pages = n
                    /\ q.pages = u.m.pages /\ q.pins = u.m.pins
                    /\ q.oops = u.m.oops /\ q.spoiled = u.m.spoiled
                    => Releasable(q)
  <2>1. Pinned(mc, u.m, first, n, 0) /\ (mc.spoiled => u.m.spoiled)
    BY <1>3, <1>6
  <2> QED
    BY <2>1, OnePinned
<1> QED
  BY <1>2, <1>4, <1>5, <1>6 DEF u

LEMMA UsedPages ==
  ASSUME NEW mc, IsMachine(mc), NEW n \in Nat
  PROVE  LET r == [mc EXCEPT !.used_pages = n]
         IN  /\ IsMachine(r) /\ Same(mc, r) /\ r.used_pages = n
             /\ r.pages = mc.pages /\ r.pins = mc.pins /\ r.oops = mc.oops
             /\ r.spoiled = mc.spoiled /\ (Balanced(mc) => Balanced(r))
<1> DEFINE r == [mc EXCEPT !.used_pages = n]
<1>1. /\ DOMAIN r = Fields /\ Same(mc, r) /\ r.used_pages = n
      /\ r.pages = mc.pages /\ r.pins = mc.pins /\ r.oops = mc.oops
      /\ r.spoiled = mc.spoiled
  BY DEF IsMachine, Fields, Same
<1> HIDE DEF r
<1>2. IsMachine(r) /\ (Balanced(mc) => Balanced(r))
  BY <1>1 DEF IsMachine, Same, Balanced
<1> QED
  BY <1>1, <1>2 DEF r

LEMMA SpoiledFact ==
  ASSUME NEW mc, IsMachine(mc)
  PROVE  LET r == [mc EXCEPT !.spoiled = TRUE]
         IN  IsMachine(r) /\ Same(mc, r) /\ Balanced(r)
<1> DEFINE r == [mc EXCEPT !.spoiled = TRUE]
<1>1. /\ DOMAIN r = Fields /\ Same(mc, r) /\ r.used_pages = mc.used_pages
      /\ r.pages = mc.pages /\ r.pins = mc.pins /\ r.oops = mc.oops
      /\ r.spoiled = TRUE
  BY DEF IsMachine, Fields, Same
<1> HIDE DEF r
<1>2. IsMachine(r) /\ Balanced(r)
  BY <1>1 DEF IsMachine, Same, Balanced
<1> QED
  BY <1>1, <1>2 DEF r

LEMMA SameTransitive ==
  ASSUME NEW a, NEW b, NEW c, Same(a, b), Same(b, c)
  PROVE  Same(a, c)
BY DEF Same

(* The machine release_user_pages leaves, whatever it found.               *)
LEMMA ReleasedMachine ==
  ASSUME NEW mc, IsMachine(mc)
  PROVE  IsMachine(release_user_pages(mc)) /\ Same(mc, release_user_pages(mc))
<1> DEFINE r == release_user_pages(mc)
           Held(pg) == {i \in 1..mc.used_pages : mc.pages[i] = pg}
<1>1. /\ DOMAIN r = Fields /\ Same(mc, r)
      /\ r.used_pages = 0 /\ r.pages = mc.pages /\ r.spoiled = mc.spoiled
      /\ r.oops = (mc.oops \/ \E i \in 1..mc.used_pages : mc.pages[i] = None)
      /\ r.pins = [pg \in Pages |-> mc.pins[pg] - Cardinality(Held(pg))]
  BY DEF release_user_pages, IsMachine, Fields, Same
<1>2. \A pg \in Pages : Cardinality(Held(pg)) \in Nat
  <2>1. mc.used_pages \in Nat
    BY DEF IsMachine
  <2>2. IsFiniteSet(1..mc.used_pages)
    BY <2>1, FS_Interval
  <2>3. \A pg : Held(pg) \in SUBSET (1..mc.used_pages)
    OBVIOUS
  <2> HIDE DEF Held
  <2> QED
    BY <2>2, <2>3, FS_Subset, FS_CardinalityType
<1> HIDE DEF r
<1>3. r.pins \in [Pages -> Int] /\ r.oops \in BOOLEAN
  <2>1. \A pg \in Pages : mc.pins[pg] \in Int
    BY DEF IsMachine
  <2> HIDE DEF Held
  <2> QED
    BY <1>1, <1>2, <2>1
<1>4. IsMachine(r)
  BY <1>1, <1>3 DEF IsMachine, Same
<1> QED
  BY <1>1, <1>4 DEF r

(* get_userbuf, when the two buffers are not one.                          *)
LEMMA TwoBuffers ==
  ASSUME NEW mc, IsMachine(mc), Balanced(mc), NEW src, NEW dst,
         NEW ns \in Nat, NEW nd \in Nat, src \in Int \/ ns = 0, dst \in Int \/ nd = 0,
         mc.used_pages = ns + nd, ns + nd <= Len(mc.pages)
  PROVE  LET a == Pin(mc, src, FALSE, ns, 0)
             b == Pin(a.m, dst, TRUE, nd, ns)
         IN  /\ ~a.ok => Secured(mc, a)
             /\ a.ok /\ b.ok => Secured(mc, b)
             /\ a.ok /\ ~b.ok =>
                  Secured(mc, [ok |-> FALSE,
                               m  |-> [release_user_pages(b.m) EXCEPT !.spoiled = TRUE]])
<1> DEFINE a == Pin(mc, src, FALSE, ns, 0)
           b == Pin(a.m, dst, TRUE, nd, ns)
           undone == [ok |-> FALSE,
                      m  |-> [release_user_pages(b.m) EXCEPT !.spoiled = TRUE]]
<1>1. Len(mc.pages) \in Nat
  BY SeqFact DEF IsMachine
<1>2. 0 + ns <= Len(mc.pages) /\ ns <= Len(mc.pages)
  BY <1>1
<1>3. ~a.ok => Secured(mc, a)
  BY <1>2, PinSecures DEF Secured
<1>4. ASSUME a.ok
      PROVE  /\ b.ok => Secured(mc, b)
             /\ ~b.ok => Secured(mc, undone)
  <2>1. \E first \in Int, got \in 0..ns :
          /\ a.ok <=> got = ns
          /\ a.m.spoiled <=> mc.spoiled \/ got \in 1..ns - 1
          /\ Pinned(mc, a.m, first, got, 0)
    BY <1>2, PinFact
  <2> HIDE DEF a
  <2>2. PICK first \in Int : Pinned(mc, a.m, first, ns, 0) /\ (a.m.spoiled <=> mc.spoiled)
    BY <1>4, <2>1
  <2>3. IsMachine(a.m) /\ Same(mc, a.m) /\ Len(a.m.pages) = Len(mc.pages)
    BY <2>2, PinnedSame
  <2>4. /\ b.ok \in BOOLEAN
        /\ \E then \in Int, got \in 0..nd :
             /\ b.ok <=> got = nd
             /\ b.m.spoiled <=> a.m.spoiled \/ got \in 1..nd - 1
             /\ Pinned(a.m, b.m, then, got, ns)
    BY <2>3, PinFact
  <2> HIDE DEF b
  <2>5. PICK then \in Int, got \in 0..nd :
          /\ b.ok <=> got = nd
          /\ b.m.spoiled <=> a.m.spoiled \/ got \in 1..nd - 1
          /\ Pinned(a.m, b.m, then, got, ns)
    BY <2>4, Zenon
  <2>6. IsMachine(b.m) /\ Same(mc, b.m)
    BY <2>3, <2>5, PinnedSame, SameTransitive
  <2>7. ASSUME b.ok PROVE Secured(mc, b)
    <3>1. Pinned(a.m, b.m, then, nd, ns) /\ (mc.spoiled => b.m.spoiled)
      BY <2>2, <2>5, <2>7
    <3>2. Releasable(b.m)
      BY <2>2, <3>1, TwoPinned
    <3> QED
      BY <2>4, <2>6, <2>7, <3>2 DEF Secured
  <2>8. Secured(mc, undone)
    <3>1. IsMachine(release_user_pages(b.m)) /\ Same(mc, release_user_pages(b.m))
      BY <2>6, ReleasedMachine, SameTransitive
    <3>2. IsMachine(undone.m) /\ Same(release_user_pages(b.m), undone.m) /\ Balanced(undone.m)
      BY <3>1, SpoiledFact
    <3>3. Same(mc, undone.m)
      BY <3>1, <3>2, SameTransitive
    <3> QED
      BY <3>2, <3>3 DEF Secured
  <2> QED
    BY <2>7, <2>8
<1> QED
  BY <1>3, <1>4

LEMMA OneBuffer ==
  ASSUME NEW mc, IsMachine(mc), Balanced(mc), NEW addr, NEW write, NEW n \in Nat,
         addr \in Int \/ n = 0, mc.used_pages = n, n <= Len(mc.pages)
  PROVE  Secured(mc, Pin(mc, addr, write, n, 0))
<1> DEFINE u == Pin(mc, addr, write, n, 0)
<1>1. /\ u.ok \in BOOLEAN /\ IsMachine(u.m) /\ Same(mc, u.m)
      /\ u.m.used_pages = mc.used_pages
      /\ ~u.ok => Balanced(u.m)
      /\ u.ok => \A q : /\ IsMachine(q) /\ q.used_pages = n
                        /\ q.pages = u.m.pages /\ q.pins = u.m.pins
                        /\ q.oops = u.m.oops /\ q.spoiled = u.m.spoiled
                        => Releasable(q)
  BY PinSecures
<1> HIDE DEF u
<1>2. u.ok => Releasable(u.m)
  BY <1>1
<1> QED
  BY <1>1, <1>2 DEF Secured, u

LEMMA SecuredTransitive ==
  ASSUME NEW a, NEW b, Same(a, b), NEW u, Secured(b, u)
  PROVE  Secured(a, u)
BY SameTransitive DEF Secured

LEMMA UserbufSecures ==
  ASSUME NEW mc, IsMachine(mc), Balanced(mc), NEW src \in Nat \cup {None},
         NEW dst \in Nat \cup {None}, NEW sl \in Nat, NEW dl \in Nat, NEW nomem
  PROVE  Secured(mc, get_userbuf(mc, src, sl, dst, dl, nomem))
<1> DEFINE n(buf, len) == IF buf = None THEN 0 ELSE PAGECOUNT(buf, len)
           ns == n(src, sl)
           nd == n(dst, dl)
           used == IF src # dst THEN ns + nd ELSE IF ns < nd THEN nd ELSE ns
           Released(out) == IF out.ok THEN out
                            ELSE [ok |-> FALSE,
                                  m  |-> [release_user_pages(out.m) EXCEPT !.spoiled = TRUE]]
           PinDst(in) == IF in.ok THEN Released(Pin(in.m, dst, TRUE, nd, ns)) ELSE in
           PinAll(mr) == IF src = dst THEN Pin(mr, src, TRUE, used, 0)
                                 ELSE PinDst(Pin(mr, src, FALSE, ns, 0))
           m0 == [mc EXCEPT !.used_pages = used]
           g == IF used <= Len(mc.pages) THEN PinAll(m0)
                ELSE IF nomem THEN [ok |-> FALSE, m |-> m0]
                ELSE PinAll(adjust_sg_array(m0, used))
<1>1. get_userbuf(mc, src, sl, dst, dl, nomem) = g
  BY Zenon DEF get_userbuf
<1>2. /\ ns \in Nat /\ nd \in Nat
      /\ src \in Int \/ ns = 0
      /\ dst \in Int \/ nd = 0
  <2>1. ASSUME NEW buf \in Nat \cup {None}, NEW len \in Nat
        PROVE  n(buf, len) \in Nat /\ (buf \in Int \/ n(buf, len) = 0)
    <3>1. CASE buf = None
      BY <3>1
    <3>2. CASE buf # None
      <4>1. buf \in Nat /\ n(buf, len) = PAGECOUNT(buf, len)
        BY <3>2
      <4>2. PAGECOUNT(buf, len) \in Nat
        BY <4>1, PageFact
      <4> QED
        BY <4>1, <4>2
    <3> QED
      BY <3>1, <3>2
  <2> HIDE DEF n
  <2> QED
    BY <2>1
<1> HIDE DEF ns, nd
<1>3. used \in Nat /\ (src # dst => used = ns + nd) /\ (src = dst /\ used # 0 => src \in Int)
  BY <1>2, ZcAssumption
<1>4. ASSUME NEW mr, IsMachine(mr), Balanced(mr), mr.used_pages = used,
             used <= Len(mr.pages)
      PROVE  Secured(mr, PinAll(mr))
  <2>1. CASE src = dst
    <3>1. src \in Int \/ used = 0
      BY <1>3, <2>1
    <3> HIDE DEF used
    <3>2. Secured(mr, Pin(mr, src, TRUE, used, 0))
      BY <1>3, <1>4, <3>1, OneBuffer
    <3> QED
      BY <2>1, <3>2
  <2>2. CASE src # dst
    <3> DEFINE a == Pin(mr, src, FALSE, ns, 0)
               b == Pin(a.m, dst, TRUE, nd, ns)
    <3>1. /\ ~a.ok => Secured(mr, a)
          /\ a.ok /\ b.ok => Secured(mr, b)
          /\ a.ok /\ ~b.ok =>
               Secured(mr, [ok |-> FALSE,
                            m  |-> [release_user_pages(b.m) EXCEPT !.spoiled = TRUE]])
      BY <1>2, <1>3, <1>4, <2>2, TwoBuffers
    <3> QED
      BY <2>2, <3>1, Zenon
  <2> QED
    BY <2>1, <2>2
<1> HIDE DEF PinAll, used
<1>5. IsMachine(m0) /\ Same(mc, m0) /\ m0.used_pages = used /\ m0.pages = mc.pages /\ Balanced(m0)
  BY <1>3, UsedPages
<1> HIDE DEF m0
<1>6. CASE used <= Len(mc.pages)
  <2>1. Secured(m0, PinAll(m0))
    BY <1>4, <1>5, <1>6
  <2> QED
    BY <1>1, <1>5, <1>6, <2>1, SecuredTransitive
<1>7. CASE ~(used <= Len(mc.pages)) /\ nomem
  <2>1. g = [ok |-> FALSE, m |-> m0]
    BY <1>7
  <2> HIDE DEF g
  <2>2. Secured(mc, g)
    BY <1>5, <2>1 DEF Secured
  <2> QED
    BY <1>1, <2>2
<1>8. CASE ~(used <= Len(mc.pages)) /\ ~nomem
  <2> DEFINE r == adjust_sg_array(m0, used)
  <2>1. /\ IsMachine(r) /\ Same(m0, r) /\ Len(r.pages) >= used
        /\ r.used_pages = m0.used_pages /\ r.pins = m0.pins
        /\ r.oops = m0.oops /\ r.spoiled = m0.spoiled
    BY <1>3, <1>5, AdjustFact
  <2> HIDE DEF r
  <2>2. Balanced(r) /\ used <= Len(r.pages) /\ r.used_pages = used
    <3>1. Len(r.pages) \in Nat
      BY <2>1, SeqFact DEF IsMachine
    <3> QED
      BY <1>3, <1>5, <2>1, <3>1 DEF Balanced
  <2>3. Secured(r, PinAll(r)) /\ Same(mc, r)
    BY <1>4, <1>5, <2>1, <2>2, SameTransitive
  <2> QED
    BY <1>1, <1>8, <2>3, SecuredTransitive DEF r
<1> QED
  BY <1>6, <1>7, <1>8

LEMMA TlsSecures ==
  ASSUME NEW mc, IsMachine(mc), Balanced(mc), NEW k, k.dst \in Nat, k.dst_len \in Nat
  PROVE  Secured(mc, TlsPages(mc, k))
<1> DEFINE n == PAGECOUNT(k.dst, k.dst_len)
           m1 == [mc EXCEPT !.used_pages = n]
           r == adjust_sg_array(m1, n)
<1>1. n \in Nat
  BY PageFact
<1> HIDE DEF n
<1>2. IsMachine(m1) /\ Same(mc, m1) /\ m1.used_pages = n /\ Balanced(m1)
  BY <1>1, UsedPages
<1> HIDE DEF m1
<1>3. /\ IsMachine(r) /\ Same(m1, r) /\ Len(r.pages) >= n
      /\ r.used_pages = m1.used_pages /\ r.pins = m1.pins
      /\ r.oops = m1.oops /\ r.spoiled = m1.spoiled
  BY <1>1, <1>2, AdjustFact
<1> HIDE DEF r
<1>4. Balanced(r) /\ n <= Len(r.pages) /\ r.used_pages = n
  <2>1. Len(r.pages) \in Nat
    BY <1>3, SeqFact DEF IsMachine
  <2> QED
    BY <1>1, <1>2, <1>3, <2>1 DEF Balanced
<1>5. Secured(r, Pin(r, k.dst, TRUE, n, 0))
  <2>1. k.dst \in Int \/ n = 0
    OBVIOUS
  <2> QED
    BY <1>1, <1>3, <1>4, <2>1, OneBuffer
<1>6. Secured(mc, Pin(r, k.dst, TRUE, n, 0))
  <2>1. Same(mc, r)
    BY <1>2, <1>3, SameTransitive
  <2> QED
    BY <1>5, <2>1, SecuredTransitive
<1>7. Same(mc, mc)
  BY DEF Same
<1>8. Secured(mc, [ok |-> FALSE, m |-> mc]) /\ Secured(mc, [ok |-> FALSE, m |-> m1])
  BY <1>2, <1>7 DEF Secured
<1> QED
  BY <1>6, <1>8 DEF TlsPages, n, m1, r

LEMMA SrtpSecures ==
  ASSUME NEW mc, IsMachine(mc), Balanced(mc), NEW k, k.auth_src \in Nat, k.auth_len \in Nat
  PROVE  Secured(mc, SrtpPages(mc, k))
<1> DEFINE n == PAGECOUNT(k.auth_src, k.auth_len)
           r == adjust_sg_array(mc, 2 * n)
           u == Pin(r, k.auth_src, TRUE, n, 0)
           w == [u EXCEPT !.m.used_pages = n]
<1>1. n \in Nat /\ 2 * n \in Nat
  <2>1. n \in Nat
    BY PageFact
  <2> HIDE DEF n
  <2> QED
    BY <2>1
<1>2. /\ IsMachine(r) /\ Same(mc, r) /\ Len(r.pages) >= 2 * n
      /\ r.used_pages = mc.used_pages /\ r.pins = mc.pins
      /\ r.oops = mc.oops /\ r.spoiled = mc.spoiled
  <2> HIDE DEF n
  <2> QED
    BY <1>1, AdjustFact
<1> HIDE DEF r, n
<1>3. Balanced(r) /\ n <= Len(r.pages)
  <2>1. Len(r.pages) \in Nat
    BY <1>2, SeqFact DEF IsMachine
  <2> QED
    BY <1>1, <1>2, <2>1 DEF Balanced
<1>4. /\ u.ok \in BOOLEAN /\ IsMachine(u.m) /\ Same(r, u.m)
      /\ u.m.used_pages = r.used_pages
      /\ ~u.ok => Balanced(u.m)
      /\ u.ok => \A q : /\ IsMachine(q) /\ q.used_pages = n
                        /\ q.pages = u.m.pages /\ q.pins = u.m.pins
                        /\ q.oops = u.m.oops /\ q.spoiled = u.m.spoiled
                        => Releasable(q)
  <2>1. k.auth_src \in Int \/ n = 0
    OBVIOUS
  <2> QED
    BY <1>1, <1>2, <1>3, <2>1, PinSecures
<1>5. Same(mc, u.m)
  BY <1>2, <1>4, SameTransitive
<1>6. u.ok \in BOOLEAN /\ u = [ok |-> u.ok, m |-> u.m]
  <2>1. \E a, b : u = [ok |-> a, m |-> b]
    BY DEF Pin
  <2> HIDE DEF u
  <2> QED
    BY <1>4, <2>1
<1> HIDE DEF u
<1>7. ~u.ok => Secured(mc, u)
  BY <1>4, <1>5 DEF Secured
<1>8. ASSUME u.ok PROVE Secured(mc, w)
  <2> DEFINE q == [u.m EXCEPT !.used_pages = n]
  <2>1. w = [ok |-> u.ok, m |-> q]
    BY <1>6
  <2>2. /\ IsMachine(q) /\ Same(u.m, q) /\ q.used_pages = n
        /\ q.pages = u.m.pages /\ q.pins = u.m.pins /\ q.oops = u.m.oops
        /\ q.spoiled = u.m.spoiled
    BY <1>1, <1>4, UsedPages
  <2> HIDE DEF q, w
  <2>3. Releasable(q)
    BY <1>4, <1>8, <2>2
  <2>4. Same(mc, q)
    BY <1>5, <2>2, SameTransitive
  <2> QED
    BY <1>8, <2>1, <2>2, <2>3, <2>4 DEF Secured
<1>9. Secured(mc, [ok |-> FALSE, m |-> mc])
  BY DEF Secured, Same
<1> QED
  BY <1>7, <1>8, <1>9 DEF SrtpPages, u, r, n
-----------------------------------------------------------------------------
(* What the work of an operation does to a machine.  Between getting the   *)
(* pages and releasing them it leaves the bookkeeping alone, and writes no *)
(* memory outside of S.                                                    *)
Worked(mc, r, S) ==
  /\ DOMAIN r = Fields /\ IsMemory(r.mem)
  /\ r.cipher = mc.cipher /\ r.blocksize = mc.blocksize
  /\ r.hash = mc.hash /\ r.perm = mc.perm
  /\ mc.authsize \in 1..DIGESTSIZE => r.authsize \in 1..DIGESTSIZE
  /\ r.pages = mc.pages /\ r.used_pages = mc.used_pages /\ r.pins = mc.pins
  /\ r.oops = mc.oops /\ r.spoiled = mc.spoiled
  /\ \A a \in Addr \ S : r.mem[a] = mc.mem[a]

(* As a whole it gives back the pages it got.                              *)
Settled(mc, r, S) ==
  /\ IsMachine(r) /\ Balanced(r)
  /\ r.cipher = mc.cipher /\ r.blocksize = mc.blocksize
  /\ r.hash = mc.hash /\ r.perm = mc.perm
  /\ mc.authsize \in 1..DIGESTSIZE => r.authsize \in 1..DIGESTSIZE
  /\ \A a \in Addr \ S : r.mem[a] = mc.mem[a]

LEMMA WorkedMachine ==
  ASSUME NEW mc, IsMachine(mc), NEW r, NEW S, Worked(mc, r, S)
  PROVE  /\ IsMachine(r)
         /\ Balanced(mc) => Balanced(r)
         /\ Releasable(mc) => Releasable(r)
BY DEF Worked, IsMachine, Balanced, Releasable

LEMMA WorkedSettled ==
  ASSUME NEW mc, IsMachine(mc), Balanced(mc), NEW r, NEW S, Worked(mc, r, S)
  PROVE  Settled(mc, r, S)
BY WorkedMachine DEF Worked, Settled

LEMMA WorkedTransitive ==
  ASSUME NEW a, NEW b, NEW c, NEW S, Worked(a, b, S), Worked(b, c, S)
  PROVE  Worked(a, c, S)
BY DEF Worked

LEMMA SettledTransitive ==
  ASSUME NEW a, NEW b, NEW c, NEW S, Settled(a, b, S), Settled(b, c, S)
  PROVE  Settled(a, c, S)
BY DEF Settled

LEMMA NothingWorked ==
  ASSUME NEW mc, IsMachine(mc), NEW S
  PROVE  Worked(mc, mc, S) /\ \A e : Worked(mc, Ret(mc, e), S)
BY DEF Worked, IsMachine, Ret, Fields

LEMMA ReleasedSettled ==
  ASSUME NEW mc, NEW u, Secured(mc, u), u.ok, NEW w, NEW S, Worked(u.m, w, S)
  PROVE  Settled(mc, release_user_pages(w), S)
<1>1. IsMachine(u.m) /\ Same(mc, u.m) /\ Releasable(u.m)
  BY DEF Secured
<1>2. IsMachine(w) /\ Releasable(w)
  BY <1>1, WorkedMachine
<1> DEFINE r == release_user_pages(w)
<1>3. IsMachine(r) /\ Same(w, r) /\ Balanced(r)
  BY <1>2, ReleaseFact
<1> HIDE DEF r
<1>4. Settled(mc, r, S)
  BY <1>1, <1>3 DEF Settled, Worked, Same
<1> QED
  BY <1>4 DEF r

LEMMA RefusedSettled ==
  ASSUME NEW mc, NEW u, Secured(mc, u), ~u.ok, NEW S
  PROVE  Settled(mc, u.m, S)
BY DEF Secured, Settled, Same

LEMMA WriteFact ==
  ASSUME NEW mem, NEW a, NEW s
  PROVE  /\ IsMemory(mem) => IsMemory(Write(mem, a, s))
         /\ DOMAIN Write(mem, a, s) = DOMAIN mem
         /\ \A b \in DOMAIN mem :
              Write(mem, a, s)[b] = IF b \in Span(a, Len(s)) THEN s[b - a + 1] ELSE mem[b]
BY DEF Write, IsMemory

LEMMA ReadFact ==
  ASSUME NEW mem, NEW a, NEW n \in Nat
  PROVE  LET s == Read(mem, a, n)
         IN  IsSeq(s) /\ Len(s) = n /\ \A i \in 1..n : s[i] = mem[a + i - 1]
<1> DEFINE s == Read(mem, a, n)
<1>1. s = [i \in 1..n |-> mem[a + i - 1]]
  BY DEF Read
<1>2. IsSeq(s) /\ Len(s) = n
  BY <1>1, FunctionSeq
<1> QED
  BY <1>1, <1>2

LEMMA SpanFact ==
  ASSUME NEW a \in Int, NEW off \in Nat, NEW n \in Nat, NEW len \in Nat, off + n <= len
  PROVE  Span(a + off, n) \subseteq Span(a, len)
BY DEF Span

(* hash_n_crypt.                                                           *)
LEMMA CryptFact ==
  ASSUME NEW mc, IsMachine(mc), NEW op, NEW data, IsSeq(data), NEW dst, IsSeq(dst)
  PROVE  LET r == hash_n_crypt(mc, op, data, dst)
         IN  /\ r.m.mem = mc.mem /\ r.m.ret = mc.ret
             /\ mc.cipher # None => IsSeq(r.out) /\ Len(r.out) = Len(data)
             /\ r.out = IF mc.cipher = None THEN dst
                        ELSE IF op = "ENCRYPT" THEN Encrypt(mc.iv, data)
                                               ELSE Decrypt(mc.iv, data)
             /\ r.m.iv = IF mc.cipher = None THEN mc.iv
                         ELSE NextIv(mc.iv, IF op = "ENCRYPT" THEN r.out ELSE data)
             /\ mc.hash => r.m.h = Hash(mc.h, IF op = "ENCRYPT" THEN data ELSE r.out)
             /\ r.m.digest = mc.digest
<1> DEFINE out == IF mc.cipher = None THEN dst
                  ELSE IF op = "ENCRYPT" THEN Encrypt(mc.iv, data)
                                         ELSE Decrypt(mc.iv, data)
           iv == IF mc.cipher = None THEN mc.iv
                 ELSE NextIv(mc.iv, IF op = "ENCRYPT" THEN out ELSE data)
           h == IF mc.hash THEN Hash(mc.h, IF op = "ENCRYPT" THEN data ELSE out)
                           ELSE mc.h
           w == [mc EXCEPT !.iv = iv, !.h = h]
<1>1. hash_n_crypt(mc, op, data, dst) = [m |-> w, out |-> out]
  BY DEF hash_n_crypt
<1>2. mc.cipher # None => IsSeq(out) /\ Len(out) = Len(data)
  BY EncryptSteps, DecryptSteps
<1>3. w.mem = mc.mem /\ w.ret = mc.ret /\ w.iv = iv /\ w.h = h /\ w.digest = mc.digest
  <2> HIDE DEF iv, h
  <2> QED
    BY DEF IsMachine, Fields
<1> DEFINE r == hash_n_crypt(mc, op, data, dst)
<1>4. r.m = w /\ r.out = out
  BY <1>1
<1> HIDE DEF r, w
<1>5. /\ r.m.mem = mc.mem /\ r.m.ret = mc.ret /\ r.m.digest = mc.digest
  BY <1>3, <1>4
<1>6. r.m.iv = iv /\ (mc.hash => r.m.h = Hash(mc.h, IF op = "ENCRYPT" THEN data ELSE out))
  BY <1>3, <1>4
<1> QED
  BY <1>2, <1>4, <1>5, <1>6 DEF r

(* Where an operation may write: in its destination and, in SRTP, its tag. *)
Target(k) ==
  IF k.dst = None THEN Addr
  ELSE IF k.mode = "CRYPT" THEN Span(k.dst, k.len)
  ELSE Span(k.dst, k.dst_len) \cup (IF k.mode = "SRTP" THEN Span(k.tag, k.tag_len) ELSE {})

LEMMA CryptWorked ==
  ASSUME NEW mc, IsMachine(mc), NEW op, NEW data, NEW dst, NEW S
  PROVE  Worked(mc, hash_n_crypt(mc, op, data, dst).m, S)
<1>1. PICK iv, h : hash_n_crypt(mc, op, data, dst).m = [mc EXCEPT !.iv = iv, !.h = h]
  BY DEF hash_n_crypt
<1> QED
  BY <1>1 DEF Worked, IsMachine, Fields

LEMMA WrittenWorked ==
  ASSUME NEW mc, IsMachine(mc), NEW r, NEW S, Worked(mc, r, S), NEW a, NEW s,
         Span(a, Len(s)) \cap Addr \subseteq S
  PROVE  Worked(mc, [r EXCEPT !.mem = Write(@, a, s)], S)
<1> DEFINE w == Write(r.mem, a, s)
<1>1. IsMemory(w) /\ \A b \in Addr \ S : w[b] = r.mem[b]
  <2>1. DOMAIN r.mem = Addr
    BY DEF Worked, IsMemory
  <2> QED
    BY <2>1, WriteFact DEF Worked
<1> HIDE DEF w
<1>2. Worked(mc, [r EXCEPT !.mem = w], S)
  BY <1>1 DEF Worked, Fields
<1> QED
  BY <1>2 DEF w

LEMMA ChunkWorked ==
  ASSUME NEW mc, IsMachine(mc), NEW k, k \in CryptOp, NEW off \in Nat, off <= k.len
  PROVE  Worked(mc, RunChunk(mc, k, off), Target(k))
<1> DEFINE n == IF k.len - off < PAGE_SIZE THEN k.len - off ELSE PAGE_SIZE
           data == Read(mc.mem, k.src + off, n)
           r == hash_n_crypt(mc, k.op, data, data)
           w == [r.m EXCEPT !.mem = Write(@, k.dst + off, r.out)]
<1>1. n \in Nat /\ off + n <= k.len /\ k.len \in Nat /\ k.dst \in Nat \cup {None}
  BY ZcAssumption DEF CryptOp
<1> HIDE DEF n
<1>2. IsSeq(data) /\ Len(data) = n
  BY <1>1, ReadFact
<1>3. /\ \A S : Worked(mc, r.m, S)
      /\ mc.cipher # None => Len(r.out) = n
  <2> HIDE DEF data
  <2>1. \A S : Worked(mc, r.m, S)
    BY CryptWorked
  <2>2. mc.cipher # None => Len(r.out) = Len(data)
    BY <1>2, CryptFact
  <2> QED
    BY <1>2, <2>1, <2>2
<1>4. ASSUME mc.cipher # None PROVE Worked(mc, w, Target(k))
  <2>1. Span(k.dst + off, Len(r.out)) \cap Addr \subseteq Target(k)
    <3>1. CASE k.dst = None
      BY <3>1 DEF Target
    <3>2. CASE k.dst # None
      <4>1. Span(k.dst + off, n) \subseteq Span(k.dst, k.len)
        BY <1>1, <3>2, SpanFact
      <4> QED
        BY <1>3, <1>4, <3>2, <4>1 DEF Target, CryptOp
    <3> QED
      BY <3>1, <3>2
  <2> HIDE DEF r
  <2> QED
    BY <1>3, <2>1, WrittenWorked
<1>5. \A e : Worked(mc, Ret(mc, e), Target(k)) /\ Worked(mc, mc, Target(k))
  BY NothingWorked
<1>6. \A e : Worked(mc, Ret(r.m, e), Target(k))
  <2> HIDE DEF r
  <2>1. IsMachine(r.m)
    BY <1>3, WorkedMachine
  <2> QED
    BY <1>3, <2>1, NothingWorked, WorkedTransitive
<1> DEFINE q == IF mc.ret # "0" THEN mc
                ELSE IF ~Accessible(mc.perm, k.src + off, n, FALSE) THEN Ret(mc, "EFAULT")
                ELSE IF mc.cipher = None THEN r.m
                ELSE IF ~Accessible(mc.perm, k.dst + off, n, TRUE) THEN Ret(r.m, "EFAULT")
                ELSE w
<1>7. RunChunk(mc, k, off) = q
  BY Zenon DEF RunChunk, n
<1>8. Worked(mc, q, Target(k))
  <2>1. Worked(mc, r.m, Target(k))
    BY <1>3
  <2> HIDE DEF r, w
  <2> QED
    BY <1>4, <1>5, <1>6, <2>1
<1> QED
  BY <1>7, <1>8

LEMMA StdWorked ==
  ASSUME NEW mc, IsMachine(mc), NEW k, k \in CryptOp
  PROVE  Worked(mc, __crypto_run_std(mc, k), Target(k))
<1> DEFINE turns == (k.len + PAGE_SIZE - 1) \div PAGE_SIZE
           f == CHOOSE g : Turns(mc, k, turns, g)
           T == {i \in Nat : i <= turns => Worked(mc, f[i], Target(k))}
<1>1. k.len \in Nat
  BY DEF CryptOp
<1>2. turns \in Nat /\ \A i \in 1..turns : (i - 1) * PAGE_SIZE < k.len /\ (i - 1) * PAGE_SIZE \in Nat
  BY <1>1, RoundedUp, ZcAssumption
<1>3. Turns(mc, k, turns, f)
  BY <1>2, TurnsExist
<1>4. __crypto_run_std(mc, k) = f[turns]
  BY DEF __crypto_run_std, Turns
<1> HIDE DEF turns, f
<1>5. f[0] = mc /\ \A i \in 1..turns : f[i] = RunChunk(f[i - 1], k, (i - 1) * PAGE_SIZE)
  BY <1>2, <1>3 DEF Turns
<1>6. 0 \in T
  BY <1>5, NothingWorked
<1>7. ASSUME NEW i \in T PROVE i + 1 \in T
  <2> SUFFICES ASSUME i + 1 <= turns PROVE Worked(mc, f[i + 1], Target(k))
    OBVIOUS
  <2>1. i + 1 \in 1..turns /\ (i + 1) - 1 = i /\ i <= turns
    BY <1>2
  <2>2. Worked(mc, f[i], Target(k)) /\ f[i + 1] = RunChunk(f[i], k, i * PAGE_SIZE)
    BY <1>5, <2>1
  <2>3. i * PAGE_SIZE \in Nat /\ i * PAGE_SIZE < k.len
    BY <1>2, <2>1
  <2>4. IsMachine(f[i])
    BY <2>2, WorkedMachine
  <2>5. Worked(f[i], f[i + 1], Target(k))
    <3>1. i * PAGE_SIZE <= k.len
      BY <1>1, <2>3
    <3> QED
      BY <2>2, <2>3, <2>4, <3>1, ChunkWorked
  <2> QED
    BY <2>2, <2>5, WorkedTransitive
<1>8. T = Nat
  <2>1. T \subseteq Nat
    OBVIOUS
  <2> HIDE DEF T
  <2> QED
    BY <1>6, <1>7, <2>1, SetInduction
<1> QED
  BY <1>2, <1>4, <1>8

LEMMA OnPagesWorked ==
  ASSUME NEW mc, IsMachine(mc), NEW k, k \in CryptOp
  PROVE  Worked(mc, OnPages(mc, k), Target(k))
<1> DEFINE dst == IF k.dst = None THEN <<>> ELSE Read(mc.mem, k.dst, k.len)
           data == Read(mc.mem, k.src, k.len)
           r == hash_n_crypt(mc, k.op, data, dst)
           w == [r.m EXCEPT !.mem = Write(@, k.dst, r.out)]
<1>1. k.len \in Nat /\ k.mode = "CRYPT"
  BY DEF CryptOp
<1>2. IsSeq(data) /\ Len(data) = k.len
  BY <1>1, ReadFact
<1>3. IsSeq(dst)
  BY <1>1, ReadFact, EmptyFact
<1>4. /\ \A S : Worked(mc, r.m, S)
      /\ mc.cipher # None => Len(r.out) = k.len
  <2> HIDE DEF data, dst
  <2>1. \A S : Worked(mc, r.m, S)
    BY CryptWorked
  <2>2. mc.cipher # None => Len(r.out) = Len(data)
    BY <1>2, <1>3, CryptFact
  <2> QED
    BY <1>2, <2>1, <2>2
<1>5. OnPages(mc, k) = IF mc.cipher = None THEN r.m ELSE w
  BY Zenon DEF OnPages
<1> HIDE DEF r
<1>6. mc.cipher # None => Span(k.dst, Len(r.out)) \cap Addr \subseteq Target(k)
  BY <1>1, <1>4 DEF Target
<1>7. mc.cipher # None => Worked(mc, w, Target(k))
  BY <1>4, <1>6, WrittenWorked
<1> QED
  BY <1>4, <1>5, <1>7

LEMMA SameIsWorked ==
  ASSUME NEW mc, NEW u, Secured(mc, u), ~u.ok, NEW r, NEW S, Worked(u.m, r, S)
  PROVE  Settled(mc, r, S)
<1>1. IsMachine(u.m) /\ Balanced(u.m) /\ Settled(mc, u.m, S)
  BY RefusedSettled DEF Secured
<1> QED
  BY <1>1, WorkedSettled, SettledTransitive

LEMMA ZcSettled ==
  ASSUME NEW mc, IsMachine(mc), Balanced(mc), NEW k, k \in CryptOp
  PROVE  Settled(mc, __crypto_run_zc(mc, k), Target(k))
<1> DEFINE u == get_userbuf(mc, k.src, k.len, k.dst, k.len, k.nomem)
<1>1. Secured(mc, u)
  <2>1. k.len \in Nat /\ k.src \in Nat \cup {None} /\ k.dst \in Nat \cup {None}
    BY DEF CryptOp
  <2> QED
    BY <2>1, UserbufSecures
<1>2. __crypto_run_zc(mc, k) = IF u.ok THEN release_user_pages(OnPages(u.m, k))
                               ELSE __crypto_run_std(u.m, k)
  BY Zenon DEF __crypto_run_zc
<1> HIDE DEF u
<1>3. IsMachine(u.m)
  BY <1>1 DEF Secured
<1>4. u.ok => Settled(mc, release_user_pages(OnPages(u.m, k)), Target(k))
  BY <1>1, <1>3, OnPagesWorked, ReleasedSettled
<1>5. ~u.ok => Settled(mc, __crypto_run_std(u.m, k), Target(k))
  BY <1>1, <1>3, StdWorked, SameIsWorked
<1> QED
  BY <1>2, <1>4, <1>5

LEMMA SetIvWorked ==
  ASSUME NEW mc, IsMachine(mc), NEW k, NEW S
  PROVE  Worked(mc, SetIv(mc, k), S)
BY DEF Worked, IsMachine, Fields, SetIv

LEMMA CryptSettled ==
  ASSUME NEW mc, IsMachine(mc), Balanced(mc), NEW k, k \in CryptOp
  PROVE  Settled(mc, crypto_run(mc, k), Target(k))
<1> DEFINE S == Target(k)
           m1 == IF mc.hash /\ Resets(k) THEN [mc EXCEPT !.h = 0] ELSE mc
           m2 == SetIv(m1, k)
           m3 == CryptOrHash(m2, k)
           Final(mr) == IF mr.ret = "0" /\ mc.hash /\ Finals(k)
                        THEN [mr EXCEPT !.digest = Digest(mr.h)] ELSE mr
<1>1. Worked(mc, m1, S)
  BY DEF Worked, IsMachine, Fields
<1>2. crypto_run(mc, k) = IF mc.cipher # None /\ k.len % mc.blocksize # 0
                          THEN Ret(m1, "EINVAL") ELSE Final(m3)
  BY Zenon DEF crypto_run
<1> HIDE DEF m1, S
<1>3. IsMachine(m1) /\ Balanced(m1)
  BY <1>1, WorkedMachine
<1>4. Worked(mc, Ret(m1, "EINVAL"), S)
  BY <1>1, <1>3, NothingWorked, WorkedTransitive
<1>5. Worked(mc, m2, S) /\ IsMachine(m2) /\ Balanced(m2)
  BY <1>1, <1>3, SetIvWorked, WorkedTransitive, WorkedMachine
<1> HIDE DEF m2
<1>6. Settled(m2, m3, S)
  <2>1. Settled(m2, m2, S)
    BY <1>5, NothingWorked, WorkedSettled
  <2>2. Settled(m2, __crypto_run_std(m2, k), S)
    BY <1>5, StdWorked, WorkedSettled DEF S
  <2>3. Settled(m2, __crypto_run_zc(m2, k), S)
    BY <1>5, ZcSettled DEF S
  <2> QED
    BY <2>1, <2>2, <2>3 DEF CryptOrHash
<1> HIDE DEF m3
<1>7. Settled(mc, m2, S)
  BY <1>5, WorkedSettled
<1>8. Settled(m3, Final(m3), S)
  <2>1. IsMachine(m3) /\ Balanced(m3)
    BY <1>6 DEF Settled
  <2>2. Worked(m3, Final(m3), S)
    BY <2>1 DEF Worked, IsMachine, Fields
  <2> QED
    BY <2>1, <2>2, WorkedSettled
<1>9. Settled(mc, Final(m3), S)
  BY <1>6, <1>7, <1>8, SettledTransitive
<1>10. Settled(mc, Ret(m1, "EINVAL"), S)
  BY <1>4, WorkedSettled
<1> HIDE DEF Final
<1> QED
  BY <1>2, <1>9, <1>10 DEF S
-----------------------------------------------------------------------------
(* CIOCAUTHCRYPT: the destination has room for what is written.            *)

(* What fill_kcaop_from_caop has computed for the session that will run it. *)
Sized(mc, k) ==
  /\ k.dst_len = cryptodev_get_dst_len(mc, k)
  /\ k.tag_len = 0 => ~mc.hash /\ mc.cipher # "aead"

LEMMA SubSeqFact ==
  ASSUME NEW s, IsSeq(s), NEW n \in Nat, n <= Len(s)
  PROVE  IsSeq(SubSeq(s, 1, n)) /\ Len(SubSeq(s, 1, n)) = n
<1> DEFINE S == {s[i] : i \in 1..Len(s)}
<1>1. s \in Seq(S) /\ Len(s) \in Nat
  BY SeqFact
<1> HIDE DEF S
<1>2. /\ SubSeq(s, 1, n) \in Seq(S)
      /\ Len(SubSeq(s, 1, n)) = IF 1 <= n THEN n - 1 + 1 ELSE 0
  BY <1>1, SubSeqProperties
<1> DEFINE t == SubSeq(s, 1, n)
<1>3. t \in Seq(S) /\ Len(t) = n
  BY <1>2
<1> HIDE DEF t
<1>4. IsSeq(t)
  BY <1>3, SeqIsSeq
<1> QED
  BY <1>3, <1>4 DEF t

LEMMA TagFact ==
  ASSUME NEW h, NEW n \in 0..DIGESTSIZE
  PROVE  IsSeq(SubSeq(Digest(h), 1, n)) /\ Len(SubSeq(Digest(h), 1, n)) = n
<1> DEFINE d == Digest(h)
           S == {d[1], d[2]}
<1>1. d \in Seq(S) /\ Len(d) = 2
  BY DEF Digest
<1> HIDE DEF d, S
<1>2. IsSeq(d) /\ n \in Nat /\ n <= Len(d)
  BY <1>1, SeqIsSeq DEF DIGESTSIZE
<1>3. IsSeq(SubSeq(d, 1, n)) /\ Len(SubSeq(d, 1, n)) = n
  BY <1>2, SubSeqFact
<1> QED
  BY <1>3 DEF d

LEMMA MacFact ==
  ASSUME NEW auth, NEW data, NEW n \in 0..DIGESTSIZE
  PROVE  IsSeq(MacOf(auth, data, n)) /\ Len(MacOf(auth, data, n)) = n
BY TagFact DEF MacOf

LEMMA PadFact ==
  ASSUME NEW rec, IsSeq(rec), NEW bs \in Nat \ {0}
  PROVE  /\ IsSeq(pad_record(rec, bs))
         /\ Len(pad_record(rec, bs)) = Len(rec) + PadLen(Len(rec), bs)
<1> DEFINE n == PadLen(Len(rec), bs)
           pad == [i \in 1..n |-> n - 1]
<1>1. Len(rec) \in Nat
  BY SeqFact
<1>2. n \in Nat
  BY <1>1, PaddedMonotonic
<1>3. pad_record(rec, bs) = rec \o pad
  BY DEF pad_record
<1> HIDE DEF n
<1>4. IsSeq(pad) /\ Len(pad) = n
  BY <1>2, FunctionSeq
<1> HIDE DEF pad
<1>5. IsSeq(rec \o pad) /\ Len(rec \o pad) = Len(rec) + Len(pad)
  BY <1>4, ConcatFact
<1> QED
  BY <1>3, <1>4, <1>5 DEF n

LEMMA TlsEncryptFits ==
  ASSUME NEW mc, mc.blocksize \in Nat \ {0}, NEW k, k \in AuthOp, k.mode = "TLS",
         k.op = "ENCRYPT", Sized(mc, k), NEW auth, NEW data, IsSeq(data), Len(data) = k.len
  PROVE  LET c == TlsEncrypt(mc, k, auth, data).data
         IN  Len(c) \in Nat /\ Len(c) <= k.dst_len
<1> DEFINE mac == MacOf(auth, data, k.tag_len)
           rec == IF mc.hash THEN data \o mac ELSE data
           pad == IF mc.blocksize > 1 THEN pad_record(rec, mc.blocksize) ELSE rec
           c == Encrypt(mc.iv, pad)
           n == k.len + k.tag_len
<1>1. k.len \in Nat /\ k.tag_len \in 0..DIGESTSIZE /\ n \in Nat
  BY DEF AuthOp, DIGESTSIZE
<1>2. k.dst_len = n + PadLen(n, mc.blocksize)
  BY DEF Sized, cryptodev_get_dst_len
<1>3. TlsEncrypt(mc, k, auth, data).data = c
  BY DEF TlsEncrypt, Out
<1>4. IsSeq(rec) /\ Len(rec) \in Nat /\ Len(rec) <= n
  <2>1. IsSeq(mac) /\ Len(mac) = k.tag_len
    BY <1>1, MacFact
  <2> HIDE DEF mac
  <2>2. IsSeq(data \o mac) /\ Len(data \o mac) = n
    BY <1>1, <2>1, ConcatFact
  <2> QED
    BY <1>1, <2>2
<1> HIDE DEF rec, n
<1>5. /\ PadLen(Len(rec), mc.blocksize) \in 1..mc.blocksize
      /\ PadLen(n, mc.blocksize) \in 1..mc.blocksize
      /\ Len(rec) + PadLen(Len(rec), mc.blocksize) <= n + PadLen(n, mc.blocksize)
  <2>1. PadLen(n, mc.blocksize) \in 1..mc.blocksize
    <3>1. n <= n
      BY <1>1
    <3> QED
      BY <1>1, <3>1, PaddedMonotonic
  <2> QED
    BY <1>1, <1>4, <2>1, PaddedMonotonic
<1>6. IsSeq(pad) /\ Len(pad) \in Nat /\ Len(pad) <= k.dst_len
  <2>1. CASE mc.blocksize > 1
    <3>1. pad = pad_record(rec, mc.blocksize)
      BY <2>1
    <3> HIDE DEF pad
    <3>2. IsSeq(pad) /\ Len(pad) = Len(rec) + PadLen(Len(rec), mc.blocksize)
      BY <1>4, <3>1, PadFact
    <3> QED
      BY <1>1, <1>2, <1>4, <1>5, <3>2
  <2>2. CASE ~(mc.blocksize > 1)
    <3>1. pad = rec
      BY <2>2
    <3> HIDE DEF pad
    <3> QED
      BY <1>1, <1>2, <1>4, <1>5, <3>1
  <2> QED
    BY <2>1, <2>2
<1> HIDE DEF pad
<1>7. Len(c) = Len(pad)
  BY <1>6, EncryptSteps
<1> QED
  BY <1>3, <1>6, <1>7

LEMMA TlsDecryptFits ==
  ASSUME NEW mc, NEW k, k \in AuthOp, k.op = "DECRYPT", Sized(mc, k),
         NEW auth, NEW data, IsSeq(data), Len(data) = k.len
  PROVE  LET c == TlsDecrypt(mc, k, auth, data).data
         IN  Len(c) \in Nat /\ Len(c) <= k.dst_len
<1> DEFINE rec == Decrypt(mc.iv, data)
           o == TlsDecrypt(mc, k, auth, data)
<1>1. k.len \in Nat /\ k.dst_len = k.len
  BY DEF AuthOp, Sized, cryptodev_get_dst_len
<1>2. o.data = <<>> \/ o.data = rec
  <2> HIDE DEF rec
  <2> QED
    BY DEF TlsDecrypt, Out, rec
<1>3. Len(rec) = k.len
  BY DecryptSteps
<1> HIDE DEF o, rec
<1>4. Len(o.data) = 0 \/ Len(o.data) = k.len
  BY <1>2, <1>3, EmptyFact
<1> QED
  BY <1>1, <1>4 DEF o

LEMMA FitsSpan ==
  ASSUME NEW a \in Int, NEW n \in Nat, NEW d \in Nat, n <= d
  PROVE  Span(a, n) \subseteq Span(a, d)
BY DEF Span

(* What a function hands back, written and noted.                          *)
LEMMA OutWorked ==
  ASSUME NEW mc, IsMachine(mc), NEW S, NEW a, NEW s, Span(a, Len(s)) \subseteq S,
         NEW iv, NEW len, NEW ret
  PROVE  /\ Worked(mc, [mc EXCEPT !.mem = Write(@, a, s), !.iv = iv,
                                  !.len = len, !.ret = ret], S)
         /\ Worked(mc, [mc EXCEPT !.mem = Write(@, a, s), !.iv = iv,
                                  !.ret = ret, !.len = len], S)
         /\ Worked(mc, [mc EXCEPT !.mem = Write(@, a, s), !.ret = ret, !.len = len], S)
<1> DEFINE w == Write(mc.mem, a, s)
<1>1. IsMemory(w) /\ \A b \in Addr \ S : w[b] = mc.mem[b]
  <2>1. DOMAIN mc.mem = Addr
    BY DEF IsMachine, IsMemory
  <2> QED
    BY <2>1, WriteFact DEF IsMachine
<1> HIDE DEF w
<1>2. Worked(mc, [mc EXCEPT !.mem = w, !.iv = iv, !.len = len, !.ret = ret], S)
  BY <1>1 DEF Worked, IsMachine, Fields
<1>3. Worked(mc, [mc EXCEPT !.mem = w, !.iv = iv, !.ret = ret, !.len = len], S)
  BY <1>1 DEF Worked, IsMachine, Fields
<1>4. Worked(mc, [mc EXCEPT !.mem = w, !.ret = ret, !.len = len], S)
  BY <1>1 DEF Worked, IsMachine, Fields
<1> QED
  BY <1>2, <1>3, <1>4 DEF w

LEMMA RetSettled ==
  ASSUME NEW mc, IsMachine(mc), Balanced(mc), NEW S
  PROVE  \A e : Settled(mc, Ret(mc, e), S)
BY NothingWorked, WorkedSettled

LEMMA RefusedRet ==
  ASSUME NEW mc, NEW u, Secured(mc, u), ~u.ok, NEW S
  PROVE  \A e : Settled(mc, Ret(u.m, e), S)
<1>1. IsMachine(u.m) /\ Balanced(u.m)
  BY DEF Secured
<1>2. Settled(mc, u.m, S) /\ \A e : Settled(u.m, Ret(u.m, e), S)
  BY <1>1, RefusedSettled, RetSettled
<1> QED
  BY <1>2, SettledTransitive

LEMMA TlsSettled ==
  ASSUME NEW mc, IsMachine(mc), Balanced(mc), mc.blocksize \in Nat \ {0},
         NEW k, k \in AuthOp, k.mode = "TLS", Sized(mc, k)
  PROVE  Settled(mc, crypto_auth_zc_tls(mc, k), Target(k))
<1> DEFINE S == Target(k)
           auth == Read(mc.mem, k.auth_src, k.auth_len)
           data == Read(mc.mem, k.dst, k.len)
           u == TlsPages(mc, k)
           o == IF k.op = "ENCRYPT" THEN TlsEncrypt(mc, k, auth, data)
                                    ELSE TlsDecrypt(mc, k, auth, data)
           w == [u.m EXCEPT !.mem = Write(@, k.dst, o.data), !.iv = o.iv,
                            !.len = o.len, !.ret = o.ret]
           q == IF k.auth_len > PAGE_SIZE THEN Ret(mc, "EINVAL")
                ELSE IF ~Accessible(mc.perm, k.auth_src, k.auth_len, FALSE)
                     THEN Ret(mc, "EFAULT")
                ELSE IF ~u.ok THEN Ret(u.m, "EINVAL")
                ELSE release_user_pages(w)
<1>1. /\ k.len \in Nat /\ k.dst \in Nat /\ k.dst_len \in Nat /\ k.dst # None
      /\ k.op \in {"ENCRYPT", "DECRYPT"}
  BY ZcAssumption DEF AuthOp
<1>2. crypto_auth_zc_tls(mc, k) = q
  BY Zenon DEF crypto_auth_zc_tls
<1>3. Secured(mc, u)
  BY <1>1, TlsSecures
<1>4. IsSeq(data) /\ Len(data) = k.len
  BY <1>1, ReadFact
<1> HIDE DEF u, data, auth
<1>5. Len(o.data) \in Nat /\ Len(o.data) <= k.dst_len
  BY <1>1, <1>4, TlsEncryptFits, TlsDecryptFits
<1> HIDE DEF o
<1>6. Span(k.dst, Len(o.data)) \subseteq S
  <2>1. Span(k.dst, k.dst_len) \subseteq S
    BY <1>1 DEF Target
  <2>2. Span(k.dst, Len(o.data)) \subseteq Span(k.dst, k.dst_len)
    BY <1>1, <1>5, FitsSpan
  <2> QED
    BY <2>1, <2>2
<1> HIDE DEF S
<1>7. Worked(u.m, w, S)
  BY <1>3, <1>6, OutWorked DEF Secured
<1> HIDE DEF w
<1>8. u.ok => Settled(mc, release_user_pages(w), S)
  BY <1>3, <1>7, ReleasedSettled
<1>9. ~u.ok => Settled(mc, Ret(u.m, "EINVAL"), S)
  BY <1>3, RefusedRet
<1>10. \A e : Settled(mc, Ret(mc, e), S)
  BY RetSettled
<1>11. Settled(mc, q, S)
  BY <1>8, <1>9, <1>10
<1> QED
  BY <1>2, <1>11 DEF S

LEMMA SrtpFits ==
  ASSUME NEW mc, NEW k, k \in AuthOp, k.mode = "SRTP", Sized(mc, k), NEW auth
  PROVE  LET e == SrtpEncrypt(mc, k).data
             d == SrtpDecrypt(mc, k, auth).data
         IN  /\ k.op = "ENCRYPT" => Len(e) \in Nat /\ Len(e) <= k.dst_len
             /\ k.op = "DECRYPT" => Len(d) \in Nat /\ Len(d) <= k.dst_len
<1> DEFINE data == Read(mc.mem, k.src, k.len)
           e == SrtpEncrypt(mc, k).data
           d == SrtpDecrypt(mc, k, auth).data
<1>1. /\ k.len \in Nat /\ k.tag_len \in Nat /\ k.dst_len \in Nat /\ k.dst_len >= k.len
      /\ k.op \in {"ENCRYPT", "DECRYPT"}
  BY DEF AuthOp, Sized, cryptodev_get_dst_len, DIGESTSIZE
<1>2. IsSeq(data) /\ Len(data) = k.len
  BY <1>1, ReadFact
<1>3. e = Encrypt(mc.iv, data)
  BY DEF SrtpEncrypt, Out
<1>4. d = <<>> \/ d = Decrypt(mc.iv, data)
  <2> HIDE DEF data
  <2> QED
    BY DEF SrtpDecrypt, Out, data
<1> HIDE DEF data, e, d
<1>5. Len(e) = k.len /\ (Len(d) = 0 \/ Len(d) = k.len)
  BY <1>2, <1>3, <1>4, EncryptSteps, DecryptSteps, EmptyFact
<1> QED
  BY <1>1, <1>5 DEF e, d

LEMMA SrtpSettled ==
  ASSUME NEW mc, IsMachine(mc), Balanced(mc),
         NEW k, k \in AuthOp, k.mode = "SRTP", Sized(mc, k)
  PROVE  Settled(mc, crypto_auth_zc_srtp(mc, k), Target(k))
<1> DEFINE S == Target(k)
           auth == Read(mc.mem, k.auth_src, k.auth_len)
           u == SrtpPages(mc, k)
           o == IF k.op = "ENCRYPT" THEN SrtpEncrypt(mc, k) ELSE SrtpDecrypt(mc, k, auth)
           len == IF o.ret = "0" THEN o.len ELSE k.dst_len
           w == [u.m EXCEPT !.mem = Write(@, k.dst, o.data), !.iv = o.iv,
                            !.ret = o.ret, !.len = len]
           t == IF k.op = "ENCRYPT" /\ mc.hash /\ o.ret = "0"
                THEN [w EXCEPT !.mem = Write(@, k.tag, SrtpTag(w, k))] ELSE w
           q == IF mc.cipher # "stream" THEN Ret(mc, "EINVAL")
                ELSE IF ~u.ok THEN Ret(u.m, "EINVAL")
                ELSE release_user_pages(t)
<1>1. /\ k.dst \in Nat /\ k.dst_len \in Nat /\ k.dst # None
      /\ k.auth_src \in Nat /\ k.auth_len \in Nat /\ k.tag_len \in 0..DIGESTSIZE
      /\ k.op \in {"ENCRYPT", "DECRYPT"}
  BY ZcAssumption DEF AuthOp
<1>2. crypto_auth_zc_srtp(mc, k) = q
  BY Zenon DEF crypto_auth_zc_srtp
<1>3. Secured(mc, u)
  BY <1>1, SrtpSecures
<1> HIDE DEF u, auth
<1>4. Len(o.data) \in Nat /\ Len(o.data) <= k.dst_len
  BY <1>1, SrtpFits
<1> HIDE DEF o, len
<1>5. Span(k.dst, Len(o.data)) \subseteq S /\ Span(k.tag, k.tag_len) \subseteq S
  <2>1. Span(k.dst, k.dst_len) \subseteq S /\ Span(k.tag, k.tag_len) \subseteq S
    BY <1>1 DEF Target
  <2>2. Span(k.dst, Len(o.data)) \subseteq Span(k.dst, k.dst_len)
    BY <1>1, <1>4, FitsSpan
  <2> QED
    BY <2>1, <2>2
<1> HIDE DEF S
<1>6. Worked(u.m, w, S)
  BY <1>3, <1>5, OutWorked DEF Secured
<1> HIDE DEF w
<1>7. Worked(u.m, [w EXCEPT !.mem = Write(@, k.tag, SrtpTag(w, k))], S)
  <2>1. Len(SrtpTag(w, k)) = k.tag_len
    BY <1>1, TagFact DEF SrtpTag
  <2>2. Span(k.tag, Len(SrtpTag(w, k))) \cap Addr \subseteq S
    BY <1>5, <2>1
  <2> QED
    BY <1>3, <1>6, <2>2, WrittenWorked DEF Secured
<1>8. Worked(u.m, t, S)
  BY <1>6, <1>7
<1> HIDE DEF t
<1>9. u.ok => Settled(mc, release_user_pages(t), S)
  BY <1>3, <1>8, ReleasedSettled
<1>10. ~u.ok => Settled(mc, Ret(u.m, "EINVAL"), S)
  BY <1>3, RefusedRet
<1>11. \A e : Settled(mc, Ret(mc, e), S)
  BY RetSettled
<1>12. Settled(mc, q, S)
  BY <1>9, <1>10, <1>11
<1> QED
  BY <1>2, <1>12 DEF S

LEMMA TagSizeWorked ==
  ASSUME NEW mc, IsMachine(mc), mc.authsize \in 1..DIGESTSIZE,
         NEW k, k \in AuthOp, NEW S
  PROVE  Worked(mc, TagSize(mc, k), S)
<1>1. k.tag_len \in 0..DIGESTSIZE
  BY DEF AuthOp
<1>2. CASE k.tag_len > mc.authsize
  <2>1. TagSize(mc, k) = Ret(mc, "EINVAL")
    <3>1. k.tag_len # 0
      BY <1>1, <1>2
    <3> QED
      BY <1>2, <3>1 DEF TagSize
  <2> QED
    BY <2>1, NothingWorked
<1>3. CASE ~(k.tag_len > mc.authsize) /\ k.tag_len = 0
  BY <1>3, NothingWorked DEF TagSize
<1>4. CASE ~(k.tag_len > mc.authsize) /\ k.tag_len # 0
  <2>1. TagSize(mc, k) = [mc EXCEPT !.authsize = k.tag_len]
    BY <1>4 DEF TagSize
  <2>2. k.tag_len \in 1..DIGESTSIZE
    BY <1>1, <1>4
  <2>3. Worked(mc, [mc EXCEPT !.authsize = k.tag_len], S)
    BY <2>2 DEF Worked, IsMachine, Fields
  <2> QED
    BY <2>1, <2>3
<1> QED
  BY <1>2, <1>3, <1>4

LEMMA AeadSizes ==
  ASSUME NEW mc, IsMachine(mc), NEW k, k \in AuthOp, k.mode # "SRTP", mc.cipher = "aead",
         mc.blocksize \in Nat \ {0}, mc.authsize \in 1..DIGESTSIZE, Sized(mc, k)
  PROVE  /\ k.len \in Nat /\ k.dst_len \in Nat
         /\ k.op = "DECRYPT" => k.dst_len = k.len
         /\ k.op = "ENCRYPT" /\ TagSize(mc, k).ret = "0"
            => k.len + TagSize(mc, k).authsize <= k.dst_len
         /\ TagSize(mc, k).authsize \in 1..DIGESTSIZE
<1> DEFINE n == k.len + k.tag_len
<1>1. k.len \in Nat /\ k.tag_len \in 0..DIGESTSIZE /\ n \in Nat /\ k.dst_len \in Nat
  BY DEF AuthOp, DIGESTSIZE
<1>2. k.tag_len # 0
  BY DEF Sized
<1>3. k.op = "DECRYPT" => k.dst_len = k.len
  BY DEF Sized, cryptodev_get_dst_len
<1>4. PadLen(n, mc.blocksize) \in 1..mc.blocksize
  <2> HIDE DEF n
  <2>1. n <= n
    BY <1>1
  <2> QED
    BY <1>1, <2>1, PaddedMonotonic
<1>5. k.op = "ENCRYPT" => n <= k.dst_len
  <2>1. k.op = "ENCRYPT" => k.dst_len = IF k.mode = "TLS" THEN n + PadLen(n, mc.blocksize) ELSE n
    BY DEF Sized, cryptodev_get_dst_len
  <2> HIDE DEF n
  <2> QED
    BY <1>1, <1>4, <2>1
<1>6. TagSize(mc, k).authsize \in 1..DIGESTSIZE
  BY TagSizeWorked DEF Worked
<1>7. ASSUME TagSize(mc, k).ret = "0" PROVE TagSize(mc, k).authsize = k.tag_len
  <2>1. Ret(mc, "EINVAL").ret = "EINVAL"
    BY DEF Ret, IsMachine, Fields
  <2>2. ~(k.tag_len > mc.authsize)
    BY <1>2, <1>7, <2>1 DEF TagSize
  <2>3. TagSize(mc, k) = [mc EXCEPT !.authsize = k.tag_len]
    BY <1>2, <2>2 DEF TagSize
  <2> QED
    BY <2>3 DEF IsMachine, Fields
<1> QED
  BY <1>1, <1>3, <1>5, <1>6, <1>7

LEMMA AeadDataFits ==
  ASSUME NEW mc, mc.authsize \in 1..DIGESTSIZE, NEW auth, NEW data, IsSeq(data)
  PROVE  LET e == AeadEncrypt(mc, auth, data).data
             d == AeadDecrypt(mc, auth, data).data
         IN  /\ Len(e) = Len(data) + mc.authsize
             /\ Len(d) \in Nat /\ Len(d) <= Len(data)
<1> DEFINE c == Encrypt(mc.iv, data)
           mac == MacOf(auth, c, mc.authsize)
           e == AeadEncrypt(mc, auth, data).data
           n == Len(data) - mc.authsize
           s == SubSeq(data, 1, n)
           d == AeadDecrypt(mc, auth, data).data
<1>1. Len(data) \in Nat
  BY SeqFact
<1>2. mc.authsize \in Nat /\ mc.authsize \in 0..DIGESTSIZE
  BY DEF DIGESTSIZE
<1>3. e = c \o mac
  BY DEF AeadEncrypt, Out
<1>4. IsSeq(c) /\ Len(c) = Len(data)
  BY EncryptSteps
<1>5. IsSeq(mac) /\ Len(mac) = mc.authsize
  BY <1>2, MacFact
<1>6. Len(e) = Len(data) + mc.authsize
  <2> HIDE DEF c, mac, e
  <2>1. Len(c \o mac) = Len(c) + Len(mac)
    BY <1>4, <1>5, ConcatFact
  <2> QED
    BY <1>3, <1>4, <1>5, <2>1
<1>7. Len(d) \in Nat /\ Len(d) <= Len(data)
  <2>1. d = <<>> \/ (n >= 0 /\ d = Decrypt(mc.iv, s))
    <3>1. n \in Int
      BY <1>1, <1>2
    <3> HIDE DEF s
    <3> QED
      BY <3>1 DEF AeadDecrypt, Out, s
  <2> HIDE DEF d
  <2>2. CASE d = <<>>
    BY <1>1, <2>2, EmptyFact
  <2>3. CASE n >= 0 /\ d = Decrypt(mc.iv, s)
    <3>1. n \in Nat /\ n <= Len(data)
      BY <1>1, <1>2, <2>3
    <3> HIDE DEF n
    <3>2. IsSeq(s) /\ Len(s) = n
      BY <3>1, SubSeqFact
    <3> HIDE DEF s
    <3>3. Len(d) = n
      BY <2>3, <3>2, DecryptSteps
    <3> QED
      BY <3>1, <3>3
  <2> QED
    BY <2>1, <2>2, <2>3
<1> QED
  BY <1>6, <1>7 DEF e, d

LEMMA AeadWorked ==
  ASSUME NEW mc, IsMachine(mc), NEW k, k \in AuthOp, k.mode # "SRTP", mc.cipher = "aead",
         mc.blocksize \in Nat \ {0}, mc.authsize \in 1..DIGESTSIZE, Sized(mc, k),
         NEW auth, NEW data, IsSeq(data), Len(data) = k.len
  PROVE  Worked(mc, auth_n_crypt(mc, k, auth, data), Target(k))
<1> DEFINE S == Target(k)
           m1 == TagSize(mc, k)
           o == IF k.op = "ENCRYPT" THEN AeadEncrypt(m1, auth, data)
                                    ELSE AeadDecrypt(m1, auth, data)
           n == k.len + (IF k.op = "ENCRYPT" THEN 1 ELSE -1) * m1.authsize
           len == IF o.ret = "0" THEN n ELSE k.dst_len
           w == [m1 EXCEPT !.mem = Write(@, k.dst, o.data), !.ret = o.ret, !.len = len]
<1>1. auth_n_crypt(mc, k, auth, data) = IF m1.ret # "0" THEN m1 ELSE w
  BY Zenon DEF auth_n_crypt
<1>2. /\ k.len \in Nat /\ k.dst_len \in Nat
      /\ k.op = "DECRYPT" => k.dst_len = k.len
      /\ k.op = "ENCRYPT" /\ m1.ret = "0" => k.len + m1.authsize <= k.dst_len
      /\ m1.authsize \in 1..DIGESTSIZE
  BY AeadSizes
<1>3. Worked(mc, m1, S) /\ IsMachine(m1)
  BY TagSizeWorked, WorkedMachine
<1>4. k.dst \in Nat /\ k.dst # None /\ k.op \in {"ENCRYPT", "DECRYPT"} /\ k.mode # "CRYPT"
  BY ZcAssumption DEF AuthOp
<1> HIDE DEF m1
<1>5. m1.ret = "0" => Len(o.data) \in Nat /\ Len(o.data) <= k.dst_len
  <2>1. /\ Len(AeadEncrypt(m1, auth, data).data) = k.len + m1.authsize
        /\ Len(AeadDecrypt(m1, auth, data).data) \in Nat
        /\ Len(AeadDecrypt(m1, auth, data).data) <= k.len
    BY <1>2, AeadDataFits
  <2>2. k.len + m1.authsize \in Nat
    BY <1>2 DEF DIGESTSIZE
  <2> QED
    BY <1>2, <1>4, <2>1, <2>2
<1> HIDE DEF o, len
<1>6. m1.ret = "0" => Span(k.dst, Len(o.data)) \subseteq S
  <2>1. Span(k.dst, k.dst_len) \subseteq S
    BY <1>4 DEF Target
  <2>2. m1.ret = "0" => Span(k.dst, Len(o.data)) \subseteq Span(k.dst, k.dst_len)
    BY <1>2, <1>4, <1>5, FitsSpan
  <2> QED
    BY <2>1, <2>2
<1> HIDE DEF S
<1>7. m1.ret = "0" => Worked(m1, w, S)
  BY <1>3, <1>6, OutWorked
<1> HIDE DEF w
<1>8. m1.ret = "0" => Worked(mc, w, S)
  BY <1>3, <1>7, WorkedTransitive
<1> QED
  BY <1>1, <1>3, <1>8 DEF S

LEMMA AeadSettled ==
  ASSUME NEW mc, IsMachine(mc), Balanced(mc), mc.blocksize \in Nat \ {0},
         mc.authsize \in 1..DIGESTSIZE, mc.cipher = "aead",
         NEW k, k \in AuthOp, k.mode # "SRTP", Sized(mc, k)
  PROVE  Settled(mc, crypto_auth_zc_aead(mc, k), Target(k))
<1> DEFINE S == Target(k)
           auth == Read(mc.mem, k.auth_src, k.auth_len)
           data == Read(mc.mem, k.src, k.len)
           u == get_userbuf(mc, k.src, k.len, k.dst, k.dst_len, k.nomem)
           a == auth_n_crypt(u.m, k, auth, data)
           q == IF mc.cipher = "block" \/ k.auth_len > PAGE_SIZE THEN Ret(mc, "EINVAL")
                ELSE IF ~u.ok THEN Ret(u.m, "EINVAL")
                ELSE IF ~Accessible(mc.perm, k.auth_src, k.auth_len, FALSE)
                     THEN Ret(release_user_pages(u.m), "EFAULT")
                ELSE release_user_pages(a)
<1>1. k.len \in Nat /\ k.src \in Nat /\ k.dst \in Nat /\ k.dst_len \in Nat
  BY DEF AuthOp
<1>2. crypto_auth_zc_aead(mc, k) = q
  BY Zenon DEF crypto_auth_zc_aead
<1>3. Secured(mc, u)
  <2>1. k.src \in Nat \cup {None} /\ k.dst \in Nat \cup {None}
    BY <1>1
  <2> QED
    BY <1>1, <2>1, UserbufSecures
<1>4. IsSeq(data) /\ Len(data) = k.len
  BY <1>1, ReadFact
<1> HIDE DEF u, data, auth, S
<1>5. /\ IsMachine(u.m) /\ u.m.cipher = "aead" /\ u.m.blocksize \in Nat \ {0}
      /\ u.m.authsize \in 1..DIGESTSIZE /\ Sized(u.m, k)
  BY <1>3 DEF Secured, Same, Sized, cryptodev_get_dst_len
<1>6. Worked(u.m, a, S)
  BY <1>4, <1>5, AeadWorked DEF S
<1> HIDE DEF a
<1>7. u.ok => Settled(mc, release_user_pages(a), S)
  BY <1>3, <1>6, ReleasedSettled
<1>8. ~u.ok => Settled(mc, Ret(u.m, "EINVAL"), S)
  BY <1>3, RefusedRet
<1>9. \A e : Settled(mc, Ret(mc, e), S)
  BY RetSettled
<1>10. u.ok => Settled(mc, Ret(release_user_pages(u.m), "EFAULT"), S)
  <2> DEFINE r == release_user_pages(u.m)
  <2>1. u.ok => Settled(mc, r, S)
    BY <1>3, <1>5, NothingWorked, ReleasedSettled
  <2> HIDE DEF r
  <2>2. u.ok => Settled(r, Ret(r, "EFAULT"), S)
    BY <2>1, RetSettled DEF Settled
  <2>3. u.ok => Settled(mc, Ret(r, "EFAULT"), S)
    BY <2>1, <2>2, SettledTransitive
  <2> QED
    BY <2>3 DEF r
<1>11. Settled(mc, q, S)
  BY <1>7, <1>8, <1>9, <1>10
<1> QED
  BY <1>2, <1>11 DEF S

LEMMA AuthSettled ==
  ASSUME NEW mc, IsMachine(mc), Balanced(mc), mc.blocksize \in Nat \ {0},
         mc.authsize \in 1..DIGESTSIZE, NEW k, k \in AuthOp, Sized(mc, k)
  PROVE  Settled(mc, crypto_auth_run(mc, k), Target(k))
<1> DEFINE S == Target(k)
           m0 == [mc EXCEPT !.h = 0]
           m1 == SetIv(m0, k)
           q == IF mc.cipher = None THEN Ret(mc, "EINVAL")
                ELSE IF k.mode = "SRTP" THEN crypto_auth_zc_srtp(m1, k)
                ELSE IF mc.cipher = "aead" THEN crypto_auth_zc_aead(m1, k)
                ELSE IF k.mode = "TLS" THEN crypto_auth_zc_tls(m1, k)
                ELSE Ret(m1, "EINVAL")
<1>1. crypto_auth_run(mc, k) = q
  BY Zenon DEF crypto_auth_run
<1>2. Worked(mc, m0, S) /\ IsMachine(m0)
  <2>1. Worked(mc, m0, S)
    BY DEF Worked, IsMachine, Fields
  <2> QED
    BY <2>1, WorkedMachine
<1> HIDE DEF m0, S
<1>3. Worked(mc, m1, S)
  BY <1>2, SetIvWorked, WorkedTransitive
<1> HIDE DEF m1
<1>4. IsMachine(m1) /\ Balanced(m1) /\ Settled(mc, m1, S)
  BY <1>3, WorkedMachine, WorkedSettled
<1>5. /\ m1.blocksize \in Nat \ {0} /\ m1.authsize \in 1..DIGESTSIZE /\ m1.cipher = mc.cipher
      /\ Sized(m1, k)
  BY <1>3 DEF Worked, Sized, cryptodev_get_dst_len
<1>6. k.mode = "SRTP" => Settled(m1, crypto_auth_zc_srtp(m1, k), S)
  BY <1>4, <1>5, SrtpSettled DEF S
<1>7. k.mode = "TLS" => Settled(m1, crypto_auth_zc_tls(m1, k), S)
  BY <1>4, <1>5, TlsSettled DEF S
<1>8. k.mode # "SRTP" /\ mc.cipher = "aead" => Settled(m1, crypto_auth_zc_aead(m1, k), S)
  BY <1>4, <1>5, AeadSettled DEF S
<1>9. \A e : Settled(m1, Ret(m1, e), S)
  BY <1>4, RetSettled
<1>10. Settled(mc, Ret(mc, "EINVAL"), S)
  BY RetSettled
<1>11. \A r : Settled(m1, r, S) => Settled(mc, r, S)
  BY <1>4, SettledTransitive
<1>12. Settled(mc, q, S)
  BY <1>6, <1>7, <1>8, <1>9, <1>10, <1>11
<1> QED
  BY <1>1, <1>12 DEF S

(* Where an operation that is filled in may be run.                        *)
Fitted(mc, k) ==
  \/ k \in CryptOp
  \/ k \in AuthOp /\ Sized(mc, k)

LEMMA ResultSettled ==
  ASSUME NEW mc, IsMachine(mc), Balanced(mc), mc.blocksize \in Nat \ {0},
         mc.authsize \in 1..DIGESTSIZE, NEW k, Fitted(mc, k)
  PROVE  Settled(mc, Result(mc, k), Target(k))
<1> DEFINE m0 == [mc EXCEPT !.ret = "0", !.digest = <<>>, !.len = 0]
           S == Target(k)
<1>1. Worked(mc, m0, S) /\ m0.cipher = mc.cipher /\ m0.hash = mc.hash
      /\ m0.blocksize = mc.blocksize /\ m0.authsize = mc.authsize
  BY DEF Worked, IsMachine, Fields
<1>2. Result(mc, k) = IF k.mode = "CRYPT" THEN crypto_run(m0, k) ELSE crypto_auth_run(m0, k)
  BY Zenon DEF Result
<1> HIDE DEF m0, S
<1>3. IsMachine(m0) /\ Balanced(m0) /\ Settled(mc, m0, S)
  BY <1>1, WorkedMachine, WorkedSettled
<1>4. (k \in CryptOp <=> k.mode = "CRYPT") /\ (k \in AuthOp => k.mode # "CRYPT")
      /\ (k.mode # "CRYPT" => k \in AuthOp /\ Sized(mc, k))
  BY DEF Fitted, CryptOp, AuthOp
<1>5. k.mode = "CRYPT" => Settled(m0, crypto_run(m0, k), S)
  BY <1>3, <1>4, CryptSettled DEF S
<1>6. k.mode # "CRYPT" => Settled(m0, crypto_auth_run(m0, k), S)
  <2>1. k.mode # "CRYPT" => Sized(m0, k)
    BY <1>1, <1>4 DEF Sized, cryptodev_get_dst_len
  <2> QED
    BY <1>1, <1>3, <1>4, <2>1, AuthSettled DEF S
<1>7. \A r : Settled(m0, r, S) => Settled(mc, r, S)
  BY <1>3, SettledTransitive
<1> QED
  BY <1>2, <1>5, <1>6, <1>7 DEF S
-----------------------------------------------------------------------------
(* The inductive invariant.                                                *)

(* As long as a session is being set up it has part of what it needs.      *)
Resources ==
  /\ setup \in {"none", "building", "live"}
  /\ setup = "none" => res = {}
  /\ setup = "building" => res \subseteq Needed(m) /\ ~(Needed(m) \subseteq res)
  /\ setup = "live" => res = Needed(m)

Session ==
  /\ IsMachine(m) /\ Balanced(m)
  /\ m.blocksize \in Nat \ {0} /\ m.authsize \in 1..DIGESTSIZE

(* What has been filled in fits the session, as long as there is one: no   *)
(* other can be created before every call has returned.                    *)
Calls ==
  /\ DOMAIN call = Procs
  /\ setup = "building" => \A p \in Procs : call[p] = None
  /\ setup = "live" => \A p \in Procs : call[p] = None \/ Fitted(m, call[p])

Contained ==
  last # None => \A a \in Addr \ Target(last.k) : m.mem[a] = last.before.mem[a]

RunInv == Resources /\ Session /\ Calls /\ Contained

LEMMA FreshMachine ==
  ASSUME NEW kind, kind.blocksize \in Nat \ {0}, NEW perm
  PROVE  LET mc == Machine(kind, perm, InitMem)
         IN  /\ IsMachine(mc) /\ Balanced(mc)
             /\ mc.blocksize \in Nat \ {0} /\ mc.authsize \in 1..DIGESTSIZE
<1> DEFINE room == [i \in 1..DEFAULT_PREALLOC_PAGES |-> None]
           pins == [pg \in Pages |-> 0]
           mc == Machine(kind, perm, InitMem)
<1>1. IsSeq(room) /\ Len(room) = DEFAULT_PREALLOC_PAGES
  BY FunctionSeq, ZcAssumption
<1>2. pins \in [Pages -> Int] /\ \A pg \in Pages : pins[pg] = 0
  OBVIOUS
<1>3. /\ DOMAIN mc = Fields /\ mc.pages = room /\ mc.pins = pins
      /\ mc.used_pages = 0 /\ mc.mem = InitMem /\ ~mc.oops
      /\ mc.oops \in BOOLEAN /\ mc.spoiled \in BOOLEAN
      /\ mc.blocksize = kind.blocksize /\ mc.authsize = 2
  BY DEF Machine, Fields, DIGESTSIZE
<1> HIDE DEF mc, room, pins
<1>4. IsMachine(mc) /\ Balanced(mc)
  <2>1. IsMemory(mc.mem)
    BY <1>3, RunAssumption DEF IsMemory
  <2>2. IsSeq(mc.pages) /\ Len(mc.pages) > 0
    BY <1>1, <1>3, ZcAssumption
  <2>3. mc.oops \in BOOLEAN /\ mc.spoiled \in BOOLEAN /\ mc.used_pages \in Nat
    BY <1>3
  <2>4. mc.pins \in [Pages -> Int] /\ DOMAIN mc = Fields
    BY <1>2, <1>3
  <2>5. IsMachine(mc)
    BY <2>1, <2>2, <2>3, <2>4 DEF IsMachine
  <2> QED
    BY <1>2, <1>3, <2>5 DEF Balanced
<1>5. mc.blocksize \in Nat \ {0} /\ mc.authsize \in 1..DIGESTSIZE
  BY <1>3 DEF DIGESTSIZE
<1> QED
  BY <1>4, <1>5 DEF mc

LEMMA NextPartNeeded ==
  ASSUME ~(Needed(m) \subseteq res)
  PROVE  NextPart \in Needed(m) \ res
<1> DEFINE S == {i \in DOMAIN Order : Order[i] \in Needed(m) \ res}
<1>1. S \subseteq Nat /\ S # {}
  <2>1. DOMAIN Order = 1..6
    BY DEF Order
  <2>2. \A x \in Needed(m) : \E i \in 1..6 : Order[i] = x
    <3>1. Needed(m) \subseteq {"cipher", "cipher_request", "hash", "hash_request", "pages", "sg"}
      BY DEF Needed, CipherParts, HashParts, Arrays
    <3>2. /\ Order[1] = "cipher" /\ Order[2] = "cipher_request" /\ Order[3] = "hash"
          /\ Order[4] = "hash_request" /\ Order[5] = "pages" /\ Order[6] = "sg"
      BY DEF Order
    <3> QED
      BY <3>1, <3>2
  <2> QED
    BY <2>1, <2>2
<1>2. Min(S) \in S
  <2> HIDE DEF S
  <2> QED
    BY <1>1, MinFact
<1> QED
  BY <1>2 DEF NextPart

LEMMA FilledFits ==
  ASSUME Session, NEW k \in Ops
  PROVE  Fitted(m, IF k.mode = "CRYPT" THEN k ELSE fill_kcaop_from_caop(m, k))
<1>1. k \in CryptOp \/ (k \in AuthOp /\ k.mode # "CRYPT")
  BY RunAssumption DEF AuthOp
<1>2. CASE k.mode = "CRYPT"
  BY <1>1, <1>2 DEF Fitted
<1>3. CASE k.mode # "CRYPT"
  <2> DEFINE tl == IF k.tag_len = 0 THEN cryptodev_get_tag_len(m) ELSE k.tag_len
             k1 == [k EXCEPT !.tag_len = tl]
             dl == cryptodev_get_dst_len(m, k1)
             k2 == [k1 EXCEPT !.dst_len = dl]
  <2>1. k \in AuthOp
    BY <1>1, <1>3 DEF CryptOp
  <2>2. tl \in 0..DIGESTSIZE /\ (tl = 0 => ~m.hash /\ m.cipher # "aead")
    BY <2>1 DEF AuthOp, cryptodev_get_tag_len, Session, DIGESTSIZE
  <2> HIDE DEF tl
  <2>3. k1 \in AuthOp /\ k1.tag_len = tl /\ k1.len = k.len /\ k1.mode = k.mode
    BY <2>1, <2>2 DEF AuthOp
  <2>4. k.tag_len = 0 \/ k1 = k
    BY <2>1 DEF AuthOp, tl
  <2>5. fill_kcaop_from_caop(m, k) = k2
    <3>1. CASE k.tag_len = 0
      BY <3>1 DEF fill_kcaop_from_caop, tl
    <3>2. CASE k.tag_len # 0
      BY <2>4, <3>2 DEF fill_kcaop_from_caop
    <3> QED
      BY <3>1, <3>2
  <2> HIDE DEF k1
  <2>6. dl \in Nat
    <3> DEFINE n == k1.len + k1.tag_len
    <3>1. n \in Nat /\ k1.len \in Nat
      BY <2>3 DEF AuthOp, DIGESTSIZE
    <3>2. PadLen(n, m.blocksize) \in Nat
      <4> HIDE DEF n
      <4>1. n <= n
        BY <3>1
      <4>2. m.blocksize \in Nat \ {0}
        BY DEF Session
      <4>3. PadLen(n, m.blocksize) \in 1..m.blocksize
        BY <3>1, <4>1, <4>2, PaddedMonotonic
      <4> QED
        BY <4>2, <4>3
    <3> QED
      BY <3>1, <3>2 DEF cryptodev_get_dst_len
  <2> HIDE DEF dl
  <2>7. /\ k2 \in AuthOp /\ k2.dst_len = dl /\ k2.tag_len = k1.tag_len /\ k2.len = k1.len
        /\ k2.mode = k1.mode /\ k2.op = k1.op
    BY <2>3, <2>6 DEF AuthOp
  <2> HIDE DEF k2
  <2>8. Sized(m, k2)
    BY <2>2, <2>3, <2>7 DEF Sized, cryptodev_get_dst_len, dl
  <2> QED
    BY <1>3, <2>5, <2>7, <2>8 DEF Fitted
<1> QED
  BY <1>2, <1>3

LEMMA StillFits ==
  ASSUME NEW mc, NEW r, r.cipher = mc.cipher, r.blocksize = mc.blocksize, r.hash = mc.hash
  PROVE  /\ Needed(r) = Needed(mc)
         /\ \A k : Fitted(mc, k) => Fitted(r, k)
BY DEF Needed, Fitted, Sized, cryptodev_get_dst_len

LEMMA RunInitially == Init => RunInv
<1> SUFFICES ASSUME Init PROVE RunInv
  OBVIOUS
<1>1. PICK perm \in Perms : m = Machine(NoSession, perm, InitMem)
  BY DEF Init
<1>2. Session
  <2>1. NoSession.blocksize \in Nat \ {0}
    BY DEF NoSession
  <2> QED
    BY <1>1, <2>1, FreshMachine DEF Session
<1> QED
  BY <1>2 DEF Init, RunInv, Resources, Calls, Contained

LEMMA CreateKeeps ==
  ASSUME RunInv, CreateSession
  PROVE  RunInv'
<1>1. PICK kind \in Kinds :
        /\ setup = "none" /\ \A p \in Procs : call[p] = None
        /\ setup' = "building"
        /\ m' = Machine(kind, m.perm, InitMem)
        /\ ops' = 0 /\ last' = None /\ stream' = None
        /\ UNCHANGED <<res, call>>
  BY Zenon DEF CreateSession
<1>2. Session'
  <2>1. kind.blocksize \in Nat \ {0}
    BY RunAssumption
  <2>2. LET mc == Machine(kind, m.perm, InitMem)
        IN  /\ IsMachine(mc) /\ Balanced(mc)
            /\ mc.blocksize \in Nat \ {0} /\ mc.authsize \in 1..DIGESTSIZE
    BY <2>1, FreshMachine
  <2> QED
    BY <1>1, <2>2 DEF Session
<1>3. Resources'
  <2>1. res' = {}
    BY <1>1 DEF RunInv, Resources
  <2>2. ~(Needed(m') \subseteq {})
    BY DEF Needed, Arrays
  <2> QED
    BY <1>1, <2>1, <2>2 DEF Resources
<1>4. Calls' /\ Contained'
  BY <1>1 DEF RunInv, Calls, Contained
<1> QED
  BY <1>2, <1>3, <1>4 DEF RunInv

LEMMA AcquireKeeps ==
  ASSUME RunInv, Acquire
  PROVE  RunInv'
<1>1. /\ setup = "building"
      /\ res' = res \cup {NextPart}
      /\ setup' = IF Needed(m) \subseteq res' THEN "live" ELSE setup
      /\ UNCHANGED <<m, call, ops, last, stream>>
  BY DEF Acquire
<1>2. NextPart \in Needed(m)
  BY <1>1, NextPartNeeded DEF RunInv, Resources
<1>3. Resources'
  BY <1>1, <1>2 DEF RunInv, Resources
<1>4. Session' /\ Calls' /\ Contained'
  BY <1>1 DEF RunInv, Session, Calls, Contained
<1> QED
  BY <1>3, <1>4 DEF RunInv

LEMMA FailKeeps ==
  ASSUME RunInv, SetupFails
  PROVE  RunInv'
<1>1. /\ setup = "building" /\ setup' = "none"
      /\ res' = res \ (InitUndoes(res) \cup Deinit(res) \cup Arrays)
      /\ UNCHANGED <<m, call, ops, last, stream>>
  BY DEF SetupFails
<1>2. res' = {}
  <2>1. res \subseteq {"cipher", "cipher_request", "hash", "hash_request", "pages", "sg"}
    BY <1>1 DEF RunInv, Resources, Needed, CipherParts, HashParts, Arrays
  <2>2. res \subseteq InitUndoes(res) \cup Deinit(res) \cup Arrays
    BY <2>1 DEF InitUndoes, Deinit, CipherParts, HashParts, Arrays
  <2> QED
    BY <1>1, <2>2
<1>3. Resources'
  BY <1>1, <1>2 DEF Resources
<1>4. Session' /\ Calls' /\ Contained'
  BY <1>1 DEF RunInv, Session, Calls, Contained
<1> QED
  BY <1>3, <1>4 DEF RunInv

LEMMA DestroyKeeps ==
  ASSUME RunInv, DestroySession
  PROVE  RunInv'
<1>1. /\ setup = "live" /\ setup' = "none"
      /\ res' = res \ (Deinit(res) \cup Arrays)
      /\ m' = Machine(NoSession, m.perm, InitMem)
      /\ last' = None /\ stream' = None
      /\ UNCHANGED <<call, ops>>
  BY DEF DestroySession
<1>2. res' = {}
  <2>1. res = Needed(m)
    BY <1>1 DEF RunInv, Resources
  <2>2. res \subseteq Deinit(res) \cup Arrays
    BY <2>1 DEF Needed, Deinit, CipherParts, HashParts, Arrays
  <2> QED
    BY <1>1, <2>2
<1>3. Session'
  <2>1. NoSession.blocksize \in Nat \ {0}
    BY DEF NoSession
  <2>2. LET mc == Machine(NoSession, m.perm, InitMem)
        IN  /\ IsMachine(mc) /\ Balanced(mc)
            /\ mc.blocksize \in Nat \ {0} /\ mc.authsize \in 1..DIGESTSIZE
    BY <2>1, FreshMachine
  <2> QED
    BY <1>1, <2>2 DEF Session
<1>4. Resources' /\ Calls' /\ Contained'
  BY <1>1, <1>2 DEF RunInv, Resources, Calls, Contained
<1> QED
  BY <1>3, <1>4 DEF RunInv

LEMMA FillKeeps ==
  ASSUME RunInv, NEW p \in Procs, Fill(p)
  PROVE  RunInv'
<1>1. PICK k \in Ops :
        /\ setup = "live"
        /\ call' = [call EXCEPT ![p] = IF k.mode = "CRYPT" THEN k
                                       ELSE fill_kcaop_from_caop(m, k)]
        /\ UNCHANGED <<setup, res, m, last, stream>>
  BY Zenon DEF Fill
<1>2. Fitted(m, IF k.mode = "CRYPT" THEN k ELSE fill_kcaop_from_caop(m, k))
  BY FilledFits DEF RunInv
<1>3. Calls'
  BY <1>1, <1>2 DEF RunInv, Calls
<1>4. Resources' /\ Session' /\ Contained'
  BY <1>1 DEF RunInv, Resources, Session, Contained
<1> QED
  BY <1>3, <1>4 DEF RunInv

LEMMA RunKeeps ==
  ASSUME RunInv, NEW p \in Procs, Run(p)
  PROVE  RunInv'
<1> DEFINE k == call[p]
<1>1. /\ setup = "live" /\ k # None
      /\ m' = Result(m, k)
      /\ last' = [k |-> k, before |-> m, stream |-> stream]
      /\ call' = [call EXCEPT ![p] = None]
      /\ UNCHANGED <<setup, res, ops>>
  BY DEF Run
<1>2. Settled(m, m', Target(k))
  <2>1. Fitted(m, k)
    BY <1>1 DEF RunInv, Calls
  <2> QED
    BY <1>1, <2>1, ResultSettled DEF RunInv, Session
<1>3. m'.cipher = m.cipher /\ m'.blocksize = m.blocksize /\ m'.hash = m.hash
  BY <1>2 DEF Settled
<1>4. Needed(m') = Needed(m) /\ \A q : Fitted(m, q) => Fitted(m', q)
  BY <1>3, StillFits
<1>5. Resources'
  BY <1>1, <1>4 DEF RunInv, Resources
<1>6. Session'
  BY <1>2 DEF RunInv, Session, Settled
<1>7. Calls'
  BY <1>1, <1>4 DEF RunInv, Calls
<1>8. Contained'
  BY <1>1, <1>2 DEF Contained, Settled
<1> QED
  BY <1>5, <1>6, <1>7, <1>8 DEF RunInv

LEMMA TooLateKeeps ==
  ASSUME RunInv, NEW p \in Procs, RunTooLate(p)
  PROVE  RunInv'
<1>1. /\ setup # "live"
      /\ call' = [call EXCEPT ![p] = None]
      /\ UNCHANGED <<setup, res, m, ops, last, stream>>
  BY DEF RunTooLate
<1> QED
  BY <1>1 DEF RunInv, Resources, Session, Calls, Contained

LEMMA RunInductive == RunInv /\ [Next]_vars => RunInv'
<1> SUFFICES ASSUME RunInv, [Next]_vars PROVE RunInv'
  OBVIOUS
<1>1. CASE CreateSession
  BY <1>1, CreateKeeps
<1>2. CASE Acquire
  BY <1>2, AcquireKeeps
<1>3. CASE SetupFails
  BY <1>3, FailKeeps
<1>4. CASE DestroySession
  BY <1>4, DestroyKeeps
<1>5. ASSUME NEW p \in Procs, Fill(p) PROVE RunInv'
  BY <1>5, FillKeeps
<1>6. ASSUME NEW p \in Procs, Run(p) PROVE RunInv'
  BY <1>6, RunKeeps
<1>7. ASSUME NEW p \in Procs, RunTooLate(p) PROVE RunInv'
  BY <1>7, TooLateKeeps
<1>8. CASE UNCHANGED vars
  BY <1>8 DEF vars, RunInv, Resources, Session, Calls, Contained
<1> QED
  BY <1>1, <1>2, <1>3, <1>4, <1>5, <1>6, <1>7, <1>8 DEF Next

(* In every reachable state the machine is one, its pins are balanced, what *)
(* it has allocated is what it needs, and the calls fit it.                 *)
THEOREM RunInvariance == Spec => []RunInv
<1> QED
  BY RunInitially, RunInductive, PTL DEF Spec

(* ioctl.c, cryptlib.c, zc.c: whatever fails while a session is set up, and *)
(* whatever way an operation takes through pinning, the fallback to copying *)
(* and the errors, it leaves neither a page pinned nor a resource           *)
(* allocated, and releases none twice.                                      *)
THEOREM PinnedIsReleased == Spec => []NothingLeaks
<1>1. RunInv => NothingLeaks
  BY DEF RunInv, Resources, Session, Balanced, NothingLeaks, ResourcesMatch, PinsBalanced
<1> QED
  BY <1>1, RunInvariance, PTL

(* authenc.c, main.c: with the length of the destination computed when the  *)
(* call was filled in, and another thread's call run in between, no         *)
(* operation writes outside of the destination it has pinned, or the tag.   *)
THEOREM WritesWithinDestination == Spec => []StaysInBuffer
<1>1. RunInv => StaysInBuffer
  BY DEF RunInv, Contained, StaysInBuffer, Target
<1> QED
  BY <1>1, RunInvariance, PTL
-----------------------------------------------------------------------------
(* The memory, piece by piece.                                             *)
LEMMA ReadConcat ==
  ASSUME NEW mem, NEW a \in Int, NEW d \in Nat, NEW n \in Nat
  PROVE  Read(mem, a, d + n) = Read(mem, a, d) \o Read(mem, a + d, n)
<1> DEFINE s == Read(mem, a, d)
           t == Read(mem, a + d, n)
           w == Read(mem, a, d + n)
<1>1. IsSeq(s) /\ Len(s) = d /\ \A i \in 1..d : s[i] = mem[a + i - 1]
  BY ReadFact
<1>2. IsSeq(t) /\ Len(t) = n /\ \A i \in 1..n : t[i] = mem[(a + d) + i - 1]
  BY ReadFact
<1>3. IsSeq(w) /\ Len(w) = d + n /\ \A i \in 1..d + n : w[i] = mem[a + i - 1]
  <2>1. d + n \in Nat
    OBVIOUS
  <2> QED
    BY <2>1, ReadFact
<1> HIDE DEF s, t, w
<1>4. /\ IsSeq(s \o t) /\ Len(s \o t) = d + n
      /\ \A i \in 1..d : (s \o t)[i] = s[i]
      /\ \A i \in 1..n : (s \o t)[d + i] = t[i]
  <2>1. /\ IsSeq(s \o t) /\ Len(s \o t) = Len(s) + Len(t)
        /\ \A i \in 1..Len(s) : (s \o t)[i] = s[i]
        /\ \A i \in 1..Len(t) : (s \o t)[Len(s) + i] = t[i]
    <3>1. IsSeq(s) /\ IsSeq(t)
      BY <1>1, <1>2
    <3> QED
      BY <3>1, ConcatFact
  <2>2. Len(s) = d /\ Len(t) = n
    BY <1>1, <1>2
  <2> QED
    BY <2>1, <2>2
<1>5. ASSUME NEW i \in 1..d + n PROVE w[i] = (s \o t)[i]
  <2>1. CASE i \in 1..d
    BY <1>1, <1>3, <1>4, <2>1
  <2>2. CASE i \notin 1..d
    <3> DEFINE j == i - d
    <3>1. j \in 1..n /\ i = d + j /\ a + i - 1 = (a + d) + j - 1
      BY <2>2
    <3>2. w[i] = mem[(a + d) + j - 1]
      BY <1>3, <3>1
    <3>3. (s \o t)[d + j] = t[j]
      BY <1>4, <3>1
    <3>4. t[j] = mem[(a + d) + j - 1]
      BY <1>2, <3>1
    <3> QED
      BY <3>1, <3>2, <3>3, <3>4
  <2> QED
    BY <2>1, <2>2
<1> QED
  BY <1>3, <1>4, <1>5, SameSeq DEF s, t, w

LEMMA SameMemory ==
  ASSUME NEW x, NEW y, IsMemory(x), IsMemory(y), \A a \in Addr : x[a] = y[a]
  PROVE  x = y
BY DEF IsMemory

LEMMA WriteConcat ==
  ASSUME NEW mem, IsMemory(mem), NEW a \in Int, NEW s, IsSeq(s), NEW t, IsSeq(t)
  PROVE  Write(Write(mem, a, s), a + Len(s), t) = Write(mem, a, s \o t)
<1> DEFINE x == Write(mem, a, s)
           y == Write(x, a + Len(s), t)
           z == Write(mem, a, s \o t)
<1>1. /\ Len(s) \in Nat /\ Len(t) \in Nat
      /\ Len(s \o t) = Len(s) + Len(t)
      /\ \A i \in 1..Len(s) : (s \o t)[i] = s[i]
      /\ \A i \in 1..Len(t) : (s \o t)[Len(s) + i] = t[i]
  BY SeqFact, ConcatFact
<1>2. DOMAIN mem = Addr /\ Addr \subseteq Int
  BY DEF IsMemory, Addr
<1>3. /\ IsMemory(x)
      /\ \A b \in Addr : x[b] = IF b \in Span(a, Len(s)) THEN s[b - a + 1] ELSE mem[b]
  BY <1>2, WriteFact
<1>4. DOMAIN x = Addr
  BY <1>3 DEF IsMemory
<1> HIDE DEF x
<1>5. /\ IsMemory(y)
      /\ \A b \in Addr : y[b] = IF b \in Span(a + Len(s), Len(t))
                                THEN t[b - (a + Len(s)) + 1] ELSE x[b]
  BY <1>3, <1>4, WriteFact
<1>6. /\ IsMemory(z)
      /\ \A b \in Addr : z[b] = IF b \in Span(a, Len(s \o t))
                                THEN (s \o t)[b - a + 1] ELSE mem[b]
  BY <1>2, WriteFact
<1> HIDE DEF y, z
<1>7. ASSUME NEW b \in Addr PROVE y[b] = z[b]
  <2>1. b \in Int
    BY <1>2
  <2>2. CASE b \in Span(a, Len(s))
    <3>1. /\ b \notin Span(a + Len(s), Len(t)) /\ b \in Span(a, Len(s \o t))
          /\ b - a + 1 \in 1..Len(s)
      BY <1>1, <2>1, <2>2 DEF Span
    <3> QED
      BY <1>1, <1>3, <1>5, <1>6, <2>2, <3>1
  <2>3. CASE b \in Span(a + Len(s), Len(t))
    <3> DEFINE j == b - (a + Len(s)) + 1
    <3>1. /\ j \in 1..Len(t) /\ b - a + 1 = Len(s) + j /\ b \in Span(a, Len(s \o t))
      BY <1>1, <2>1, <2>3 DEF Span
    <3>2. y[b] = t[j]
      BY <1>5, <2>3
    <3>3. z[b] = (s \o t)[Len(s) + j]
      BY <1>6, <3>1
    <3> HIDE DEF j
    <3> QED
      BY <1>1, <3>1, <3>2, <3>3
  <2>4. CASE b \notin Span(a, Len(s)) /\ b \notin Span(a + Len(s), Len(t))
    <3>1. b \notin Span(a, Len(s \o t))
      BY <1>1, <2>1, <2>4 DEF Span
    <3> QED
      BY <1>3, <1>5, <1>6, <2>4, <3>1
  <2> QED
    BY <2>2, <2>3, <2>4
<1>8. y = z
  BY <1>5, <1>6, <1>7, SameMemory
<1> QED
  BY <1>8 DEF x, y, z

LEMMA WriteNothing ==
  ASSUME NEW mem, IsMemory(mem), NEW a \in Int, NEW s, Len(s) = 0
  PROVE  Write(mem, a, s) = mem
<1> DEFINE w == Write(mem, a, s)
<1>1. DOMAIN mem = Addr /\ Span(a, Len(s)) = {}
  BY DEF IsMemory, Span
<1>2. IsMemory(w) /\ \A b \in Addr : w[b] = mem[b]
  BY <1>1, WriteFact
<1> HIDE DEF w
<1>3. w = mem
  BY <1>2, SameMemory
<1> QED
  BY <1>3 DEF w

(* What has been written is there to be read.                              *)
LEMMA ReadWritten ==
  ASSUME NEW mem, IsMemory(mem), NEW a \in Int, NEW s, IsSeq(s), Span(a, Len(s)) \subseteq Addr
  PROVE  Read(Write(mem, a, s), a, Len(s)) = s
<1> DEFINE w == Write(mem, a, s)
           r == Read(w, a, Len(s))
<1>1. Len(s) \in Nat /\ DOMAIN mem = Addr
  BY SeqFact DEF IsMemory
<1>2. \A b \in Addr : w[b] = IF b \in Span(a, Len(s)) THEN s[b - a + 1] ELSE mem[b]
  BY <1>1, WriteFact
<1> HIDE DEF w
<1>3. IsSeq(r) /\ Len(r) = Len(s) /\ \A i \in 1..Len(s) : r[i] = w[a + i - 1]
  BY <1>1, ReadFact
<1> HIDE DEF r
<1>4. ASSUME NEW i \in 1..Len(s) PROVE r[i] = s[i]
  <2>1. a + i - 1 \in Span(a, Len(s)) /\ (a + i - 1) - a + 1 = i
    BY <1>1 DEF Span
  <2>2. w[a + i - 1] = s[(a + i - 1) - a + 1]
    BY <1>2, <2>1
  <2> QED
    BY <1>3, <2>1, <2>2
<1>5. r = s
  BY <1>3, <1>4, SameSeq
<1> QED
  BY <1>5 DEF r, w

(* What lies elsewhere is what it was.                                     *)
LEMMA ReadElsewhere ==
  ASSUME NEW mem, IsMemory(mem), NEW a \in Int, NEW s, NEW b \in Int, NEW n \in Nat,
         Span(b, n) \subseteq Addr, Span(b, n) \cap Span(a, Len(s)) = {}
  PROVE  Read(Write(mem, a, s), b, n) = Read(mem, b, n)
<1> DEFINE w == Write(mem, a, s)
           r == Read(w, b, n)
           q == Read(mem, b, n)
<1>1. DOMAIN mem = Addr
  BY DEF IsMemory
<1>2. \A c \in Addr : w[c] = IF c \in Span(a, Len(s)) THEN s[c - a + 1] ELSE mem[c]
  BY <1>1, WriteFact
<1> HIDE DEF w
<1>3. IsSeq(r) /\ Len(r) = n /\ \A i \in 1..n : r[i] = w[b + i - 1]
  BY ReadFact
<1>4. IsSeq(q) /\ Len(q) = n /\ \A i \in 1..n : q[i] = mem[b + i - 1]
  BY ReadFact
<1> HIDE DEF r, q
<1>5. ASSUME NEW i \in 1..n PROVE r[i] = q[i]
  <2>1. b + i - 1 \in Span(b, n)
    BY DEF Span
  <2>2. b + i - 1 \in Addr /\ b + i - 1 \notin Span(a, Len(s))
    BY <2>1
  <2>3. w[b + i - 1] = mem[b + i - 1]
    BY <1>2, <2>2
  <2> QED
    BY <1>3, <1>4, <2>3
<1>6. r = q
  BY <1>3, <1>4, <1>5, SameSeq
<1> QED
  BY <1>6 DEF r, q, w

LEMMA NextIvConcat ==
  ASSUME NEW iv, NEW s, IsSeq(s), NEW t, IsSeq(t)
  PROVE  NextIv(iv, s \o t) = NextIv(NextIv(iv, s), t)
<1> DEFINE st == s \o t
<1>1. /\ IsSeq(st) /\ Len(st) = Len(s) + Len(t)
      /\ \A i \in 1..Len(s) : st[i] = s[i]
      /\ \A i \in 1..Len(t) : st[Len(s) + i] = t[i]
  BY ConcatFact
<1>2. Len(s) \in Nat /\ Len(t) \in Nat
  BY SeqFact
<1> HIDE DEF st
<1>3. /\ NextIv(iv, st) = IF Len(st) = 0 THEN iv ELSE st[Len(st)]
      /\ NextIv(iv, s) = IF Len(s) = 0 THEN iv ELSE s[Len(s)]
      /\ NextIv(NextIv(iv, s), t) = IF Len(t) = 0 THEN NextIv(iv, s) ELSE t[Len(t)]
  BY <1>1, NextIvFact
<1>4. CASE Len(t) = 0
  <2>1. Len(st) = Len(s) /\ (Len(s) # 0 => st[Len(s)] = s[Len(s)])
    BY <1>1, <1>2, <1>4
  <2> QED
    BY <1>3, <1>4, <2>1 DEF st
<1>5. CASE Len(t) # 0
  <2>1. Len(st) # 0 /\ st[Len(st)] = t[Len(t)]
    BY <1>1, <1>2, <1>5
  <2> QED
    BY <1>3, <1>5, <2>1 DEF st
<1> QED
  BY <1>4, <1>5

(* The pages of the user are whole.                                        *)
LEMMA WholePage ==
  ASSUME NEW b \in Int, Page(b) \in Pages
  PROVE  b \in Addr
<1> DEFINE P == PAGE_SIZE
           q == (MaxAddr + 1) \div P
<1>1. P \in Nat \ {0} /\ P > 0 /\ MaxAddr \in Nat
  BY ZcAssumption
<1>2. q \in Int /\ MaxAddr + 1 = P * q
  <2>1. (MaxAddr + 1) % P = 0
    BY ZcAssumption
  <2> QED
    BY <1>1, <2>1
<1>3. PICK a \in 0..MaxAddr : b \div P = a \div P
  BY DEF Pages, Addr, Page
<1> HIDE DEF P, q
<1>4. /\ a \div P \in Int /\ a \div P >= 0
      /\ P * (a \div P) <= a
  BY <1>1
<1>5. a \div P < q
  <2> SUFFICES ASSUME q <= a \div P PROVE FALSE
    BY <1>2, <1>4
  <2>1. P * q <= P * (a \div P)
    BY <1>1, <1>2, <1>4
  <2> QED
    BY <1>1, <1>2, <1>4, <2>1
<1>6. P * (a \div P) + P <= P * q
  BY <1>1, <1>2, <1>4, <1>5, ProductMonotonic
<1>7. b >= P * (a \div P) /\ b < P * (a \div P) + P
  BY <1>1, <1>3
<1>8. P * (a \div P) >= 0 /\ P * (a \div P) \in Int
  BY <1>1, <1>4
<1> QED
  BY <1>1, <1>2, <1>6, <1>7, <1>8 DEF Addr

(* A buffer whose pages could all be pinned lies within the memory.        *)
LEMMA PinCovers ==
  ASSUME NEW mc, NEW addr \in Nat, NEW len \in Nat, NEW write, NEW off,
         Pin(mc, addr, write, PAGECOUNT(addr, len), off).ok
  PROVE  Span(addr, len) \subseteq Addr
<1>1. CASE len = 0
  BY <1>1 DEF Span
<1>2. CASE len # 0
  <2> DEFINE n == PAGECOUNT(addr, len)
             first == Page(addr)
             end == Page(addr + len - 1)
             bad == {i \in 0..n - 1 : ~(first + i \in Pages /\ Allows(mc.perm, first + i, write))}
             got == Min(bad \cup {n})
             ok == got = n
  <2>1. /\ first \in Int /\ end \in Int /\ first <= end
        /\ n = end - first + 1
    <3>1. addr + len - 1 \in Int /\ addr <= addr + len - 1
      BY <1>2
    <3>2. first \in Int /\ end \in Int /\ first <= end
      <4>1. addr \in Int /\ addr + len - 1 \in Int /\ addr <= addr + len - 1
        BY <3>1
      <4>2. first <= end
        <5> HIDE DEF n
        <5> QED
          BY <4>1, QuotientMonotonic, ZcAssumption DEF Page
      <4> QED
        BY <4>1, <4>2, PageFact
    <3>3. n = end - first + 1
      BY <1>2 DEF PAGECOUNT
    <3> QED
      BY <3>2, <3>3
  <2>2. n \in Nat /\ n # 0
    BY <2>1
  <2>3. ok
    <3>1. Pin(mc, addr, write, n, off).ok
      OBVIOUS
    <3> HIDE DEF n
    <3>2. Pin(mc, addr, write, n, off).ok = ok
      BY <2>2 DEF Pin
    <3> QED
      BY <3>1, <3>2
  <2>4. bad = {}
    <3>1. bad \subseteq 0..n - 1
      OBVIOUS
    <3> HIDE DEF bad, n
    <3>2. bad \cup {n} \subseteq Nat /\ bad \cup {n} # {}
      BY <2>2, <3>1
    <3>3. \A y \in bad \cup {n} : got <= y
      BY <3>2, MinFact
    <3> QED
      BY <2>2, <2>3, <3>1, <3>3
  <2> HIDE DEF n, got
  <2>5. ASSUME NEW b \in Span(addr, len) PROVE b \in Addr
    <3>1. b \in Int /\ addr <= b /\ b <= addr + len - 1 /\ addr + len - 1 \in Int
      BY DEF Span
    <3>2. Page(b) \in Int /\ first <= Page(b) /\ Page(b) <= end
      BY <3>1, QuotientMonotonic, ZcAssumption DEF Page
    <3> DEFINE i == Page(b) - first
    <3>3. i \in 0..n - 1 /\ first + i = Page(b)
      BY <2>1, <3>2
    <3>4. Page(b) \in Pages
      BY <2>4, <3>3
    <3> QED
      BY <3>1, <3>4, WholePage
  <2> QED
    BY <2>5
<1> QED
  BY <1>1, <1>2

LEMMA UserbufCovers ==
  ASSUME NEW mc, NEW src, NEW dst \in Nat, NEW len \in Nat, NEW nomem,
         get_userbuf(mc, src, len, dst, len, nomem).ok
  PROVE  Span(dst, len) \subseteq Addr
<1> DEFINE n(buf, l) == IF buf = None THEN 0 ELSE PAGECOUNT(buf, l)
           ns == n(src, len)
           nd == n(dst, len)
           used == IF src # dst THEN ns + nd ELSE IF ns < nd THEN nd ELSE ns
           Released(out) == IF out.ok THEN out
                            ELSE [ok |-> FALSE,
                                  m  |-> [release_user_pages(out.m) EXCEPT !.spoiled = TRUE]]
           PinDst(in) == IF in.ok THEN Released(Pin(in.m, dst, TRUE, nd, ns)) ELSE in
           PinAll(mr) == IF src = dst THEN Pin(mr, src, TRUE, used, 0)
                                 ELSE PinDst(Pin(mr, src, FALSE, ns, 0))
           m0 == [mc EXCEPT !.used_pages = used]
           g == IF used <= Len(mc.pages) THEN PinAll(m0)
                ELSE IF nomem THEN [ok |-> FALSE, m |-> m0]
                ELSE PinAll(adjust_sg_array(m0, used))
<1>1. get_userbuf(mc, src, len, dst, len, nomem) = g
  BY Zenon DEF get_userbuf
<1>2. nd = PAGECOUNT(dst, len) /\ nd \in Nat
  <2>1. dst # None
    BY ZcAssumption
  <2>2. PAGECOUNT(dst, len) \in Nat
    BY PageFact
  <2> QED
    BY <2>1, <2>2
<1>3. src = dst => used = nd
  BY <1>2
<1> HIDE DEF ns, nd
<1>4. ASSUME NEW mr, PinAll(mr).ok PROVE Span(dst, len) \subseteq Addr
  <2>1. CASE src = dst
    <3>1. used = nd
      BY <1>3, <2>1
    <3> HIDE DEF used
    <3>2. Pin(mr, dst, TRUE, nd, 0).ok
      BY <1>4, <2>1, <3>1
    <3> QED
      BY <1>2, <3>2, PinCovers
  <2>2. CASE src # dst
    <3> DEFINE a == Pin(mr, src, FALSE, ns, 0)
               b == Pin(a.m, dst, TRUE, nd, ns)
    <3>1. PinAll(mr) = IF a.ok THEN Released(b) ELSE a
      BY <2>2, Zenon
    <3> HIDE DEF a
    <3>2. a.ok /\ PinAll(mr) = Released(b)
      BY <1>4, <3>1
    <3> HIDE DEF b, PinAll
    <3>3. b.ok
      <4> SUFFICES ASSUME ~b.ok PROVE FALSE
        OBVIOUS
      <4>1. PinAll(mr).ok = FALSE
        BY <3>2
      <4> QED
        BY <1>4, <4>1
    <3> QED
      BY <1>2, <3>3, PinCovers DEF b
  <2> QED
    BY <2>1, <2>2
<1> HIDE DEF PinAll, used, m0
<1>5. g.ok
  BY <1>1
<1> QED
  BY <1>4, <1>5
-----------------------------------------------------------------------------
(* What CIOCCRYPT does, as one piece or page by page.                      *)

(* The first d units of what goes in and of what comes out.                *)
Input(mc, k, d) == Read(mc.mem, k.src, d)

Output(mc, k, d) ==
  IF mc.cipher = None THEN Input(mc, k, d)
  ELSE IF k.op = "ENCRYPT" THEN Encrypt(mc.iv, Input(mc, k, d))
                           ELSE Decrypt(mc.iv, Input(mc, k, d))

Plaintext(mc, k, d)  == IF k.op = "ENCRYPT" THEN Input(mc, k, d) ELSE Output(mc, k, d)
Ciphertext(mc, k, d) == IF k.op = "ENCRYPT" THEN Output(mc, k, d) ELSE Input(mc, k, d)

(* The session has a plaintext: see NoPlaintext.                           *)
HasPlaintext(mc, k) == ~(mc.cipher = None /\ k.op = "DECRYPT" /\ k.src # k.dst)

(* r is what mc becomes by crypting and hashing the first d units.         *)
Crypted(mc, r, k, d) ==
  /\ r.cipher = mc.cipher /\ r.hash = mc.hash /\ r.perm = mc.perm
  /\ r.digest = mc.digest /\ r.ret = mc.ret
  /\ mc.cipher = None => r.mem = mc.mem /\ r.iv = mc.iv
  /\ mc.cipher # None => /\ r.mem = Write(mc.mem, k.dst, Output(mc, k, d))
                         /\ r.iv = NextIv(mc.iv, Ciphertext(mc, k, d))
                         /\ Span(k.dst, d) \subseteq Addr
  /\ mc.hash /\ HasPlaintext(mc, k) => r.h = Hash(mc.h, Plaintext(mc, k, d))

LEMMA TextFact ==
  ASSUME NEW mc, NEW k, NEW d \in Nat
  PROVE  /\ IsSeq(Input(mc, k, d)) /\ Len(Input(mc, k, d)) = d
         /\ IsSeq(Output(mc, k, d)) /\ Len(Output(mc, k, d)) = d
<1> DEFINE s == Input(mc, k, d)
           e == Encrypt(mc.iv, s)
           c == Decrypt(mc.iv, s)
<1>1. IsSeq(s) /\ Len(s) = d
  BY ReadFact DEF Input
<1>2. Output(mc, k, d) = IF mc.cipher = None THEN s ELSE IF k.op = "ENCRYPT" THEN e ELSE c
  BY DEF Output
<1> HIDE DEF s
<1>3. IsSeq(e) /\ Len(e) = d /\ IsSeq(c) /\ Len(c) = d
  BY <1>1, EncryptSteps, DecryptSteps
<1> HIDE DEF e, c
<1> QED
  BY <1>1, <1>2, <1>3 DEF s

LEMMA HashNothing ==
  ASSUME NEW h, NEW s, IsSeq(s), Len(s) = 0
  PROVE  Hash(h, s) = h
<1>1. PICK a : Rolled(h, s, a) /\ Hash(h, s) = a[Len(s)]
  BY HashSteps
<1> QED
  BY <1>1 DEF Rolled

(* Nothing done is nothing changed.                                        *)
LEMMA NothingCrypted ==
  ASSUME NEW mc, IsMachine(mc), NEW k, k \in CryptOp, mc.cipher # None => k.dst # None
  PROVE  Crypted(mc, mc, k, 0)
<1> DEFINE s == Input(mc, k, 0)
           out == Output(mc, k, 0)
<1>1. IsSeq(s) /\ Len(s) = 0 /\ IsSeq(out) /\ Len(out) = 0
  BY TextFact
<1>2. Plaintext(mc, k, 0) \in {s, out} /\ Ciphertext(mc, k, 0) \in {s, out}
  BY DEF Plaintext, Ciphertext
<1> HIDE DEF s, out
<1>3. Hash(mc.h, Plaintext(mc, k, 0)) = mc.h
  BY <1>1, <1>2, HashNothing
<1>4. NextIv(mc.iv, Ciphertext(mc, k, 0)) = mc.iv
  BY <1>1, <1>2, NextIvFact
<1>5. ASSUME mc.cipher # None
      PROVE  mc.mem = Write(mc.mem, k.dst, out) /\ Span(k.dst, 0) \subseteq Addr
  <2>1. k.dst \in Int /\ IsMemory(mc.mem)
    BY <1>5 DEF CryptOp, IsMachine
  <2>2. Write(mc.mem, k.dst, out) = mc.mem
    BY <1>1, <2>1, WriteNothing
  <2> QED
    BY <2>1, <2>2 DEF Span
<1> QED
  BY <1>3, <1>4, <1>5 DEF Crypted, out

(* The next piece: with the iv and the hash of the pieces before.          *)
LEMMA PieceCrypted ==
  ASSUME NEW mc, IsMachine(mc), NEW r, IsMachine(r), NEW k, k \in CryptOp,
         NEW d \in Nat, Crypted(mc, r, k, d), NEW n \in Nat, NEW data,
         data = Read(mc.mem, k.src + d, n)
  PROVE  LET q == hash_n_crypt(r, k.op, data, data)
         IN  /\ Output(mc, k, d + n) = Joined(Output(mc, k, d), q.out)
             /\ IsSeq(q.out) /\ Len(q.out) = n
             /\ mc.cipher # None => q.m.iv = NextIv(mc.iv, Ciphertext(mc, k, d + n))
             /\ mc.hash /\ HasPlaintext(mc, k) => q.m.h = Hash(mc.h, Plaintext(mc, k, d + n))
<1> DEFINE q == hash_n_crypt(r, k.op, data, data)
           s == Input(mc, k, d)
           out == Output(mc, k, d)
<1>1. IsSeq(data) /\ Len(data) = n
  BY ReadFact
<1>2. IsSeq(s) /\ IsSeq(out)
  BY TextFact
<1>3. Input(mc, k, d + n) = s \o data
  <2>1. k.src \in Int
    BY DEF CryptOp
  <2> QED
    BY <2>1, ReadConcat DEF Input
<1>4. /\ r.cipher = mc.cipher /\ r.hash = mc.hash
      /\ mc.cipher # None => r.iv = NextIv(mc.iv, Ciphertext(mc, k, d))
      /\ mc.hash /\ HasPlaintext(mc, k) => r.h = Hash(mc.h, Plaintext(mc, k, d))
  BY DEF Crypted
<1> HIDE DEF s
<1>5. /\ mc.cipher # None => IsSeq(q.out) /\ Len(q.out) = Len(data)
      /\ q.out = IF r.cipher = None THEN data
                 ELSE IF k.op = "ENCRYPT" THEN Encrypt(r.iv, data) ELSE Decrypt(r.iv, data)
      /\ q.m.iv = IF r.cipher = None THEN r.iv
                  ELSE NextIv(r.iv, IF k.op = "ENCRYPT" THEN q.out ELSE data)
      /\ r.hash => q.m.h = Hash(r.h, IF k.op = "ENCRYPT" THEN data ELSE q.out)
  BY <1>1, <1>4, CryptFact
<1> HIDE DEF q, out
<1>6. Output(mc, k, d + n) = out \o q.out
  <2>1. CASE mc.cipher = None
    BY <1>3, <1>4, <1>5, <2>1 DEF Output, out, s
  <2>2. CASE mc.cipher # None /\ k.op = "ENCRYPT"
    <3>1. out = Encrypt(mc.iv, s) /\ Output(mc, k, d + n) = Encrypt(mc.iv, s \o data)
      BY <1>3, <2>2 DEF Output, out, s
    <3>2. Ciphertext(mc, k, d) = out /\ q.out = Encrypt(r.iv, data)
      BY <1>4, <1>5, <2>2 DEF Ciphertext, out
    <3>3. LET e == Encrypt(mc.iv, s)
          IN  Encrypt(mc.iv, s \o data) = Joined(e, Encrypt(NextIv(mc.iv, e), data))
      <4>1. IsSeq(s) /\ IsSeq(data)
        BY <1>1, <1>2
      <4> QED
        BY <4>1, EncryptConcat
    <3>4. Output(mc, k, d + n) = Joined(out, q.out)
      BY <1>4, <2>2, <3>1, <3>2, <3>3
    <3> QED
      BY <3>4 DEF Joined
  <2>3. CASE mc.cipher # None /\ k.op # "ENCRYPT"
    <3>1. out = Decrypt(mc.iv, s) /\ Output(mc, k, d + n) = Decrypt(mc.iv, s \o data)
      BY <1>3, <2>3 DEF Output, out, s
    <3>2. Ciphertext(mc, k, d) = s /\ q.out = Decrypt(r.iv, data)
      BY <1>4, <1>5, <2>3 DEF Ciphertext, s
    <3>3. Decrypt(mc.iv, s \o data) = Joined(Decrypt(mc.iv, s), Decrypt(NextIv(mc.iv, s), data))
      <4>1. IsSeq(s) /\ IsSeq(data)
        BY <1>1, <1>2
      <4> QED
        BY <4>1, DecryptConcat
    <3>4. Output(mc, k, d + n) = Joined(out, q.out)
      BY <1>4, <2>3, <3>1, <3>2, <3>3
    <3> QED
      BY <3>4 DEF Joined
  <2> QED
    BY <2>1, <2>2, <2>3
<1>7. IsSeq(q.out) /\ Len(q.out) = n
  BY <1>1, <1>4, <1>5
<1>8. ASSUME mc.cipher # None
      PROVE  q.m.iv = NextIv(mc.iv, Ciphertext(mc, k, d + n))
  <2> DEFINE c == IF k.op = "ENCRYPT" THEN q.out ELSE data
  <2>1. IsSeq(c) /\ IsSeq(Ciphertext(mc, k, d))
    BY <1>1, <1>2, <1>7 DEF Ciphertext, out, s
  <2>2. Ciphertext(mc, k, d + n) = Ciphertext(mc, k, d) \o c
    BY <1>3, <1>6 DEF Ciphertext, out, s
  <2>3. q.m.iv = NextIv(NextIv(mc.iv, Ciphertext(mc, k, d)), c)
    BY <1>4, <1>5, <1>8
  <2> HIDE DEF c
  <2> QED
    <3>1. NextIv(mc.iv, Ciphertext(mc, k, d) \o c) = NextIv(NextIv(mc.iv, Ciphertext(mc, k, d)), c)
      BY <2>1, NextIvConcat
    <3> QED
      BY <2>2, <2>3, <3>1
<1>9. ASSUME mc.hash, HasPlaintext(mc, k)
      PROVE  q.m.h = Hash(mc.h, Plaintext(mc, k, d + n))
  <2> DEFINE c == IF k.op = "ENCRYPT" THEN data ELSE q.out
  <2>1. IsSeq(c) /\ IsSeq(Plaintext(mc, k, d))
    BY <1>1, <1>2, <1>7 DEF Plaintext, out, s
  <2>2. Plaintext(mc, k, d + n) = Plaintext(mc, k, d) \o c
    BY <1>3, <1>6 DEF Plaintext, out, s
  <2>3. q.m.h = Hash(Hash(mc.h, Plaintext(mc, k, d)), c)
    BY <1>4, <1>5, <1>9
  <2> HIDE DEF c
  <2> QED
    <3>1. Hash(mc.h, Plaintext(mc, k, d) \o c) = Hash(Hash(mc.h, Plaintext(mc, k, d)), c)
      BY <2>1, HashConcat
    <3> QED
      BY <2>2, <2>3, <3>1
<1> QED
  BY <1>6, <1>7, <1>8, <1>9 DEF q, out, Joined

(* One turn of the copying loop, when it does not fail.                    *)
LEMMA ChunkCrypted ==
  ASSUME NEW mc, IsMachine(mc), NEW r, IsMachine(r), NEW k, k \in CryptOp, Apart(k),
         mc.cipher # None => k.dst # None,
         NEW d \in Nat, d <= k.len, Crypted(mc, r, k, d), RunChunk(r, k, d).ret = "0"
  PROVE  Crypted(mc, RunChunk(r, k, d), k,
                 d + (IF k.len - d < PAGE_SIZE THEN k.len - d ELSE PAGE_SIZE))
<1> DEFINE n == IF k.len - d < PAGE_SIZE THEN k.len - d ELSE PAGE_SIZE
           data == Read(r.mem, k.src + d, n)
           out == Output(mc, k, d)
           q == hash_n_crypt(r, k.op, data, data)
           w == [q.m EXCEPT !.mem = Write(@, k.dst + d, q.out)]
           c == RunChunk(r, k, d)
<1>1. /\ n \in Nat /\ d + n <= k.len /\ k.len \in Nat
      /\ k.src \in Nat /\ k.dst \in Nat \cup {None}
  BY ZcAssumption DEF CryptOp
<1>2. c = IF r.ret # "0" THEN r
          ELSE IF ~Accessible(r.perm, k.src + d, n, FALSE) THEN Ret(r, "EFAULT")
          ELSE IF r.cipher = None THEN q.m
          ELSE IF ~Accessible(r.perm, k.dst + d, n, TRUE) THEN Ret(q.m, "EFAULT")
          ELSE w
  BY Zenon DEF RunChunk
<1>3. c.ret = "0"
  OBVIOUS
<1>4. /\ r.cipher = mc.cipher /\ r.hash = mc.hash /\ r.perm = mc.perm
      /\ r.digest = mc.digest /\ r.ret = mc.ret
      /\ mc.cipher = None => r.mem = mc.mem /\ r.iv = mc.iv
      /\ mc.cipher # None => /\ r.mem = Write(mc.mem, k.dst, out)
                             /\ Span(k.dst, d) \subseteq Addr
  BY DEF Crypted
<1>5. IsSeq(data) /\ Len(data) = n /\ IsSeq(out) /\ Len(out) = d
  BY <1>1, ReadFact, TextFact
<1> HIDE DEF n, c
<1>6. /\ q.m.mem = r.mem /\ q.m.ret = r.ret /\ q.m.digest = r.digest
      /\ q.m.cipher = r.cipher /\ q.m.hash = r.hash /\ q.m.perm = r.perm
      /\ r.cipher = None => q.m.iv = r.iv
      /\ DOMAIN q.m = Fields
  <2> HIDE DEF data
  <2>1. Worked(r, q.m, {})
    BY CryptWorked
  <2>2. /\ q.m.mem = r.mem /\ q.m.ret = r.ret /\ q.m.digest = r.digest
        /\ q.m.iv = IF r.cipher = None THEN r.iv
                    ELSE NextIv(r.iv, IF k.op = "ENCRYPT" THEN q.out ELSE data)
    BY <1>5, CryptFact
  <2> HIDE DEF q
  <2> QED
    BY <2>1, <2>2 DEF Worked
<1> HIDE DEF q
<1>7. /\ r.ret = "0" /\ Accessible(r.perm, k.src + d, n, FALSE)
      /\ c = IF r.cipher = None THEN q.m ELSE w
      /\ r.cipher # None => Accessible(r.perm, k.dst + d, n, TRUE)
  <2>1. Ret(r, "EFAULT").ret # "0" /\ Ret(q.m, "EFAULT").ret # "0"
    BY <1>6 DEF Ret, IsMachine, Fields
  <2> HIDE DEF w
  <2> QED
    BY <1>2, <1>3, <2>1
<1>8. data = Read(mc.mem, k.src + d, n)
  <2>1. CASE mc.cipher = None
    BY <1>4, <2>1
  <2>2. CASE mc.cipher # None
    <3>1. Span(k.src + d, n) \subseteq Addr
      BY <1>7 DEF Accessible
    <3>2. k.dst \in Nat
      BY <1>1, <2>2
    <3>3. Span(k.src + d, n) \cap Span(k.dst, d) = {}
      <4>1. CASE k.src = k.dst
        BY <1>1, <3>2, <4>1 DEF Span
      <4>2. CASE k.src # k.dst
        <5>1. Span(k.src, k.len) \cap Span(k.dst, k.len) = {}
          BY <2>2, <4>2 DEF Apart
        <5>2. Span(k.src + d, n) \subseteq Span(k.src, k.len)
          BY <1>1, SpanFact
        <5>3. Span(k.dst, d) \subseteq Span(k.dst, k.len)
          BY <1>1, <3>2 DEF Span
        <5> QED
          BY <5>1, <5>2, <5>3
      <4> QED
        BY <4>1, <4>2
    <3>4. k.src + d \in Int /\ k.dst \in Int /\ IsMemory(mc.mem)
      BY <1>1, <3>2 DEF IsMachine
    <3> HIDE DEF out
    <3>5. Read(Write(mc.mem, k.dst, out), k.src + d, n) = Read(mc.mem, k.src + d, n)
      BY <1>1, <1>5, <3>1, <3>3, <3>4, ReadElsewhere
    <3> QED
      BY <1>4, <2>2, <3>5
  <2> QED
    BY <2>1, <2>2
<1> HIDE DEF data, out
<1>9. /\ Output(mc, k, d + n) = Joined(out, q.out)
      /\ IsSeq(q.out) /\ Len(q.out) = n
      /\ mc.cipher # None => q.m.iv = NextIv(mc.iv, Ciphertext(mc, k, d + n))
      /\ mc.hash /\ HasPlaintext(mc, k) => q.m.h = Hash(mc.h, Plaintext(mc, k, d + n))
  BY <1>1, <1>8, PieceCrypted DEF q, out
<1>10. CASE mc.cipher = None
  <2>1. c = q.m
    BY <1>4, <1>7, <1>10
  <2> QED
    BY <1>4, <1>6, <1>9, <1>10, <2>1 DEF Crypted, c, n
<1>11. CASE mc.cipher # None
  <2>1. c = w
    BY <1>4, <1>7, <1>11
  <2>2. /\ w.mem = Write(q.m.mem, k.dst + d, q.out)
        /\ w.iv = q.m.iv /\ w.h = q.m.h /\ w.ret = q.m.ret /\ w.digest = q.m.digest
        /\ w.cipher = q.m.cipher /\ w.hash = q.m.hash /\ w.perm = q.m.perm
    BY <1>6 DEF Fields
  <2>3. k.dst \in Nat
    BY <1>1, <1>11
  <2>4. w.mem = Write(mc.mem, k.dst, out \o q.out)
    <3>1. IsSeq(out) /\ IsSeq(q.out) /\ IsMemory(mc.mem) /\ k.dst \in Int
      BY <1>5, <1>9, <2>3 DEF IsMachine
    <3>2. Write(Write(mc.mem, k.dst, out), k.dst + Len(out), q.out)
            = Write(mc.mem, k.dst, out \o q.out)
      BY <3>1, WriteConcat
    <3> HIDE DEF w
    <3> QED
      BY <1>4, <1>5, <1>6, <1>11, <2>2, <3>2
  <2> HIDE DEF w
  <2>5. Span(k.dst, d + n) \subseteq Addr
    <3>1. Span(k.dst + d, n) \subseteq Addr
      BY <1>4, <1>7, <1>11 DEF Accessible
    <3>2. Span(k.dst, d + n) \subseteq Span(k.dst, d) \cup Span(k.dst + d, n)
      BY <1>1, <2>3 DEF Span
    <3> QED
      BY <1>4, <1>11, <3>1, <3>2
  <2>6. w.mem = Write(mc.mem, k.dst, Output(mc, k, d + n))
    BY <1>9, <2>4 DEF Joined
  <2> QED
    BY <1>4, <1>6, <1>9, <1>11, <2>1, <2>2, <2>5, <2>6 DEF Crypted, c, n
<1> QED
  BY <1>10, <1>11

(* The whole loop, when it does not fail.                                  *)
LEMMA StdCrypted ==
  ASSUME NEW mc, IsMachine(mc), NEW k, k \in CryptOp, Apart(k),
         mc.cipher # None => k.dst # None, __crypto_run_std(mc, k).ret = "0"
  PROVE  Crypted(mc, __crypto_run_std(mc, k), k, k.len)
<1> DEFINE turns == (k.len + PAGE_SIZE - 1) \div PAGE_SIZE
           f == CHOOSE g : Turns(mc, k, turns, g)
           Before(i) == IF i * PAGE_SIZE < k.len THEN i * PAGE_SIZE ELSE k.len
           Piece(d) == IF k.len - d < PAGE_SIZE THEN k.len - d ELSE PAGE_SIZE
           T == {i \in Nat : i <= turns => /\ Worked(mc, f[i], Target(k))
                                           /\ f[i].ret = "0" => Crypted(mc, f[i], k, Before(i))}
<1>1. k.len \in Nat
  BY DEF CryptOp
<1>2. /\ turns \in Nat /\ turns * PAGE_SIZE >= k.len
      /\ \A i \in 1..turns : (i - 1) * PAGE_SIZE < k.len /\ (i - 1) * PAGE_SIZE \in Nat
  BY <1>1, RoundedUp, ZcAssumption
<1>3. Turns(mc, k, turns, f)
  BY <1>2, TurnsExist
<1>4. __crypto_run_std(mc, k) = f[turns]
  BY DEF __crypto_run_std, Turns
<1> HIDE DEF turns, f
<1>5. f[0] = mc /\ \A i \in 1..turns : f[i] = RunChunk(f[i - 1], k, (i - 1) * PAGE_SIZE)
  BY <1>2, <1>3 DEF Turns
<1>6. 0 \in T
  <2>1. Before(0) = 0
    BY <1>1, ZcAssumption
  <2>2. Worked(mc, mc, Target(k)) /\ Crypted(mc, mc, k, 0)
    BY NothingWorked, NothingCrypted
  <2> HIDE DEF Before
  <2> QED
    BY <1>5, <2>1, <2>2
<1>7. ASSUME NEW i \in T PROVE i + 1 \in T
  <2> SUFFICES ASSUME i + 1 <= turns
               PROVE  /\ Worked(mc, f[i + 1], Target(k))
                      /\ f[i + 1].ret = "0" => Crypted(mc, f[i + 1], k, Before(i + 1))
    OBVIOUS
  <2> DEFINE d == i * PAGE_SIZE
  <2>1. i + 1 \in 1..turns /\ (i + 1) - 1 = i /\ i <= turns
    BY <1>2
  <2>2. d \in Nat /\ d < k.len /\ d <= k.len
    BY <1>1, <1>2, <2>1
  <2>3. Before(i) = d /\ Before(i + 1) = d + Piece(d)
    <3>1. (i + 1) * PAGE_SIZE = d + PAGE_SIZE
      BY ZcAssumption
    <3> QED
      BY <1>1, <2>2, <3>1, ZcAssumption
  <2>4. f[i + 1] = RunChunk(f[i], k, d)
    BY <1>5, <2>1
  <2>5. Worked(mc, f[i], Target(k)) /\ (f[i].ret = "0" => Crypted(mc, f[i], k, Before(i)))
    BY <2>1
  <2> HIDE DEF Before, d
  <2>6. IsMachine(f[i])
    BY <2>5, WorkedMachine
  <2>7. Worked(f[i], f[i + 1], Target(k))
    BY <2>2, <2>4, <2>6, ChunkWorked
  <2>8. Worked(mc, f[i + 1], Target(k))
    BY <2>5, <2>7, WorkedTransitive
  <2>9. ASSUME f[i + 1].ret = "0" PROVE Crypted(mc, f[i + 1], k, Before(i + 1))
    <3>1. f[i].ret = "0"
      <4>1. f[i].ret # "0" => f[i + 1] = f[i]
        BY <2>4 DEF RunChunk
      <4> QED
        BY <2>9, <4>1
    <3>2. Crypted(mc, f[i], k, d)
      BY <2>3, <2>5, <3>1
    <3>3. RunChunk(f[i], k, d).ret = "0"
      BY <2>4, <2>9
    <3>4. Crypted(mc, RunChunk(f[i], k, d), k,
                  d + (IF k.len - d < PAGE_SIZE THEN k.len - d ELSE PAGE_SIZE))
      BY <2>2, <2>6, <3>2, <3>3, ChunkCrypted
    <3> QED
      BY <2>3, <2>4, <3>4
  <2> QED
    BY <2>8, <2>9
<1>8. T = Nat
  <2>1. T \subseteq Nat
    OBVIOUS
  <2> HIDE DEF T
  <2> QED
    BY <1>6, <1>7, <2>1, SetInduction
<1>9. f[turns].ret = "0" => Crypted(mc, f[turns], k, Before(turns))
  <2>1. turns \in T
    BY <1>2, <1>8
  <2> HIDE DEF Before
  <2> QED
    BY <1>2, <2>1
<1>10. Before(turns) = k.len
  <2>1. turns * PAGE_SIZE \in Int
    BY <1>2, ZcAssumption
  <2> QED
    BY <1>1, <1>2, <2>1
<1> QED
  BY <1>4, <1>9, <1>10

(* All the pages at once.                                                  *)
LEMMA OnPagesCrypted ==
  ASSUME NEW mc, IsMachine(mc), NEW k, k \in CryptOp,
         mc.cipher # None => k.dst # None /\ Span(k.dst, k.len) \subseteq Addr
  PROVE  Crypted(mc, OnPages(mc, k), k, k.len)
<1> DEFINE dst == IF k.dst = None THEN <<>> ELSE Read(mc.mem, k.dst, k.len)
           s == Read(mc.mem, k.src, k.len)
           q == hash_n_crypt(mc, k.op, s, dst)
           w == [q.m EXCEPT !.mem = Write(@, k.dst, q.out)]
           c == OnPages(mc, k)
<1>1. k.len \in Nat /\ k.src \in Nat
  BY DEF CryptOp
<1>2. c = IF mc.cipher = None THEN q.m ELSE w
  BY Zenon DEF OnPages
<1>3. IsSeq(s) /\ IsSeq(dst) /\ Input(mc, k, k.len) = s
  BY <1>1, ReadFact, EmptyFact DEF Input
<1>4. k.src = k.dst => dst = s
  BY <1>1, ZcAssumption
<1> HIDE DEF c, s, dst
<1>5. /\ q.m.mem = mc.mem /\ q.m.ret = mc.ret /\ q.m.digest = mc.digest
      /\ q.out = IF mc.cipher = None THEN dst
                 ELSE IF k.op = "ENCRYPT" THEN Encrypt(mc.iv, s) ELSE Decrypt(mc.iv, s)
      /\ q.m.iv = IF mc.cipher = None THEN mc.iv
                  ELSE NextIv(mc.iv, IF k.op = "ENCRYPT" THEN q.out ELSE s)
      /\ mc.hash => q.m.h = Hash(mc.h, IF k.op = "ENCRYPT" THEN s ELSE q.out)
  BY <1>3, CryptFact
<1>6. /\ q.m.cipher = mc.cipher /\ q.m.hash = mc.hash /\ q.m.perm = mc.perm
      /\ DOMAIN q.m = Fields
  <2>1. Worked(mc, q.m, {})
    BY CryptWorked
  <2> HIDE DEF q
  <2> QED
    BY <2>1 DEF Worked
<1> HIDE DEF q
<1>7. mc.cipher # None => q.out = Output(mc, k, k.len)
  BY <1>3, <1>5 DEF Output
<1>8. mc.hash /\ HasPlaintext(mc, k) => q.m.h = Hash(mc.h, Plaintext(mc, k, k.len))
  <2>1. CASE mc.cipher = None
    <3>1. Plaintext(mc, k, k.len) = s
      BY <1>3, <2>1 DEF Plaintext, Output
    <3>2. HasPlaintext(mc, k) /\ k.op # "ENCRYPT" => q.out = s
      <4>1. k.op # "ENCRYPT" => k.op = "DECRYPT"
        BY DEF CryptOp
      <4> QED
        BY <1>4, <1>5, <2>1, <4>1 DEF HasPlaintext
    <3> QED
      BY <1>5, <3>1, <3>2
  <2>2. CASE mc.cipher # None
    BY <1>3, <1>5, <1>7, <2>2 DEF Plaintext
  <2> QED
    BY <2>1, <2>2
<1>9. CASE mc.cipher = None
  BY <1>2, <1>5, <1>6, <1>8, <1>9 DEF Crypted, c
<1>10. CASE mc.cipher # None
  <2>1. c = w
    BY <1>2, <1>10
  <2>2. /\ w.mem = Write(q.m.mem, k.dst, q.out)
        /\ w.iv = q.m.iv /\ w.h = q.m.h /\ w.ret = q.m.ret /\ w.digest = q.m.digest
        /\ w.cipher = q.m.cipher /\ w.hash = q.m.hash /\ w.perm = q.m.perm
    BY <1>6 DEF Fields
  <2> HIDE DEF w
  <2>3. w.mem = Write(mc.mem, k.dst, Output(mc, k, k.len))
    BY <1>5, <1>7, <1>10, <2>2
  <2>4. w.iv = NextIv(mc.iv, Ciphertext(mc, k, k.len))
    BY <1>3, <1>5, <1>7, <1>10, <2>2 DEF Ciphertext
  <2> QED
    BY <1>5, <1>6, <1>8, <1>10, <2>1, <2>2, <2>3, <2>4 DEF Crypted, c
<1> QED
  BY <1>9, <1>10

LEMMA SameCrypted ==
  ASSUME NEW a, NEW b, Same(a, b), NEW r, NEW q, Same(r, q), NEW k, NEW d,
         Crypted(b, r, k, d)
  PROVE  Crypted(a, q, k, d)
BY DEF Same, Crypted, Plaintext, Ciphertext, Output, Input, HasPlaintext

LEMMA ZcCrypted ==
  ASSUME NEW mc, IsMachine(mc), Balanced(mc), NEW k, k \in CryptOp, Apart(k),
         mc.cipher # None => k.dst # None, __crypto_run_zc(mc, k).ret = "0"
  PROVE  Crypted(mc, __crypto_run_zc(mc, k), k, k.len)
<1> DEFINE u == get_userbuf(mc, k.src, k.len, k.dst, k.len, k.nomem)
           z == __crypto_run_zc(mc, k)
<1>1. k.len \in Nat /\ k.src \in Nat \cup {None} /\ k.dst \in Nat \cup {None}
  BY DEF CryptOp
<1>2. Secured(mc, u)
  BY <1>1, UserbufSecures
<1>3. u.ok /\ k.dst # None => Span(k.dst, k.len) \subseteq Addr
  BY <1>1, UserbufCovers
<1>4. z = IF u.ok THEN release_user_pages(OnPages(u.m, k)) ELSE __crypto_run_std(u.m, k)
  BY Zenon DEF __crypto_run_zc
<1>5. z.ret = "0"
  OBVIOUS
<1> HIDE DEF u, z
<1>6. IsMachine(u.m) /\ Same(mc, u.m) /\ u.m.cipher = mc.cipher
  BY <1>2 DEF Secured, Same
<1>7. \A r : Same(r, r)
  BY DEF Same
<1>8. CASE u.ok
  <2> DEFINE w == OnPages(u.m, k)
  <2>1. Crypted(u.m, w, k, k.len)
    BY <1>3, <1>6, <1>8, OnPagesCrypted
  <2>2. IsMachine(w)
    BY <1>6, OnPagesWorked, WorkedMachine
  <2>3. Same(w, release_user_pages(w))
    BY <2>2, ReleasedMachine
  <2> HIDE DEF w
  <2>4. Crypted(mc, release_user_pages(w), k, k.len)
    BY <1>6, <2>1, <2>3, SameCrypted
  <2> QED
    BY <1>4, <1>8, <2>4 DEF w, z
<1>9. CASE ~u.ok
  <2> DEFINE w == __crypto_run_std(u.m, k)
  <2>1. z = w
    BY <1>4, <1>9
  <2>2. Crypted(u.m, w, k, k.len)
    BY <1>5, <1>6, <2>1, StdCrypted
  <2> HIDE DEF w
  <2>3. Crypted(mc, w, k, k.len)
    BY <1>6, <1>7, <2>2, SameCrypted
  <2> QED
    BY <2>1, <2>3 DEF z
<1> QED
  BY <1>8, <1>9

(* The machine crypto_run starts from.                                     *)
Started(mc, k) == SetIv(IF mc.hash /\ Resets(k) THEN [mc EXCEPT !.h = 0] ELSE mc, k)

LEMMA RunCrypted ==
  ASSUME NEW mc, IsMachine(mc), Balanced(mc), NEW k, k \in CryptOp, Apart(k),
         mc.cipher # None => k.dst # None, crypto_run(mc, k).ret = "0"
  PROVE  \E w : /\ Crypted(Started(mc, k), w, k, k.len)
                /\ DOMAIN w = Fields
                /\ crypto_run(mc, k) = IF mc.hash /\ Finals(k)
                                       THEN [w EXCEPT !.digest = Digest(w.h)] ELSE w
<1> DEFINE m1 == IF mc.hash /\ Resets(k) THEN [mc EXCEPT !.h = 0] ELSE mc
           m2 == SetIv(m1, k)
           w == CryptOrHash(m2, k)
           c == crypto_run(mc, k)
           Final(mr) == IF mr.ret = "0" /\ mc.hash /\ Finals(k)
                        THEN [mr EXCEPT !.digest = Digest(mr.h)] ELSE mr
<1>1. Worked(mc, m1, {}) /\ m1.cipher = mc.cipher
  BY DEF Worked, IsMachine, Fields
<1>2. c = IF mc.cipher # None /\ k.len % mc.blocksize # 0 THEN Ret(m1, "EINVAL") ELSE Final(w)
  BY Zenon DEF crypto_run
<1>3. c.ret = "0"
  OBVIOUS
<1>4. m2 = Started(mc, k)
  BY DEF Started
<1> HIDE DEF m1, c
<1>5. IsMachine(m1) /\ Balanced(m1) /\ Ret(m1, "EINVAL").ret # "0"
  <2>1. IsMachine(m1) /\ Balanced(m1)
    BY <1>1, WorkedMachine
  <2> QED
    BY <2>1 DEF Ret, IsMachine, Fields
<1>6. IsMachine(m2) /\ Balanced(m2) /\ m2.cipher = mc.cipher
  <2>1. Worked(m1, m2, {})
    BY <1>5, SetIvWorked
  <2> HIDE DEF m2
  <2>2. m2.cipher = m1.cipher
    BY <2>1 DEF Worked
  <2> QED
    BY <1>1, <1>5, <2>1, <2>2, WorkedMachine
<1> HIDE DEF m2
<1>7. c = Final(w)
  <2> HIDE DEF Final, w
  <2> QED
    BY <1>2, <1>3, <1>5
<1>8. IsMachine(w)
  <2>1. Settled(m2, w, Target(k))
    <3>1. Settled(m2, m2, Target(k))
      BY <1>6, NothingWorked, WorkedSettled
    <3>2. Settled(m2, __crypto_run_std(m2, k), Target(k))
      BY <1>6, StdWorked, WorkedSettled
    <3>3. Settled(m2, __crypto_run_zc(m2, k), Target(k))
      BY <1>6, ZcSettled
    <3> QED
      BY <3>1, <3>2, <3>3 DEF CryptOrHash
  <2> HIDE DEF w
  <2> QED
    BY <2>1 DEF Settled
<1>9. w.ret = "0"
  <2> HIDE DEF w
  <2> SUFFICES ASSUME w.ret # "0" PROVE FALSE
    OBVIOUS
  <2>1. Final(w) = w
    OBVIOUS
  <2> QED
    BY <1>3, <1>7, <2>1
<1>10. Crypted(m2, w, k, k.len)
  <2>1. CASE k.len = 0
    <3>1. w = m2
      BY <2>1 DEF CryptOrHash
    <3>2. Crypted(m2, m2, k, 0)
      BY <1>6, NothingCrypted
    <3> QED
      BY <2>1, <3>1, <3>2
  <2>2. CASE k.len # 0 /\ "NO_ZC" \in k.flags
    <3>1. w = __crypto_run_std(m2, k)
      BY <2>2 DEF CryptOrHash
    <3> QED
      BY <1>6, <1>9, <3>1, StdCrypted
  <2>3. CASE k.len # 0 /\ "NO_ZC" \notin k.flags
    <3>1. w = __crypto_run_zc(m2, k)
      BY <2>3 DEF CryptOrHash
    <3> QED
      BY <1>6, <1>9, <3>1, ZcCrypted
  <2> QED
    BY <2>1, <2>2, <2>3
<1> HIDE DEF w
<1>11. DOMAIN w = Fields
  BY <1>8 DEF IsMachine
<1>12. c = IF mc.hash /\ Finals(k) THEN [w EXCEPT !.digest = Digest(w.h)] ELSE w
  BY <1>7, <1>9
<1>13. Crypted(Started(mc, k), w, k, k.len)
  BY <1>4, <1>10
<1> QED
  BY <1>11, <1>12, <1>13, Zenon DEF c

(* What CryptsWholeBuffer and DigestOfStream say of one call: mc becomes r. *)
WholeBuffer(mc, r, k) ==
  LET iv   == IF k.iv = None THEN mc.iv ELSE k.iv
      data == Read(mc.mem, k.src, k.len)
      out  == IF k.op = "ENCRYPT" THEN Encrypt(iv, data) ELSE Decrypt(iv, data)
  IN  /\ r.mem = Write(mc.mem, k.dst, out)
      /\ r.iv = NextIv(iv, IF k.op = "ENCRYPT" THEN out ELSE data)

Text(mc, r, k) ==
  IF k.op = "ENCRYPT" THEN Read(mc.mem, k.src, k.len) ELSE Read(r.mem, k.dst, k.len)

Hashes(mc, r, k) == r.h = Hash(IF Resets(k) THEN 0 ELSE mc.h, Text(mc, r, k))

LEMMA ResultCrypted ==
  ASSUME NEW mc, IsMachine(mc), Balanced(mc), NEW k, k \in CryptOp, Apart(k),
         mc.cipher # None => k.dst # None, Result(mc, k).ret = "0"
  PROVE  /\ mc.cipher # None => WholeBuffer(mc, Result(mc, k), k)
         /\ mc.hash /\ HasPlaintext(mc, k) => Hashes(mc, Result(mc, k), k)
         /\ Result(mc, k).digest = IF mc.hash /\ Finals(k)
                                   THEN Digest(Result(mc, k).h) ELSE <<>>
<1> DEFINE m0 == [mc EXCEPT !.ret = "0", !.digest = <<>>, !.len = 0]
           m1 == IF m0.hash /\ Resets(k) THEN [m0 EXCEPT !.h = 0] ELSE m0
           st == Started(m0, k)
           r == Result(mc, k)
           n == k.len
<1>1. /\ Worked(mc, m0, {}) /\ m0.cipher = mc.cipher /\ m0.hash = mc.hash
      /\ m0.mem = mc.mem /\ m0.iv = mc.iv /\ m0.h = mc.h /\ m0.digest = <<>>
  BY DEF Worked, IsMachine, Fields
<1>2. r = crypto_run(m0, k)
  <2>1. k.mode = "CRYPT"
    BY DEF CryptOp
  <2> QED
    BY <2>1, Zenon DEF Result
<1>3. r.ret = "0"
  OBVIOUS
<1> HIDE DEF r, m0
<1>4. IsMachine(m0) /\ Balanced(m0) /\ DOMAIN m0 = Fields
  <2>1. IsMachine(m0) /\ Balanced(m0)
    BY <1>1, WorkedMachine
  <2> QED
    BY <2>1 DEF IsMachine
<1>5. /\ st.cipher = mc.cipher /\ st.hash = mc.hash /\ st.mem = mc.mem /\ st.digest = <<>>
      /\ mc.cipher # None => st.iv = IF k.iv = None THEN mc.iv ELSE k.iv
      /\ mc.hash => st.h = IF Resets(k) THEN 0 ELSE mc.h
  <2>1. /\ m1.cipher = m0.cipher /\ m1.hash = m0.hash /\ m1.mem = m0.mem
        /\ m1.digest = m0.digest /\ m1.iv = m0.iv
        /\ m0.hash => m1.h = IF Resets(k) THEN 0 ELSE m0.h
        /\ DOMAIN m1 = Fields
    BY <1>4 DEF Fields
  <2>2. st = SetIv(m1, k)
    BY DEF Started
  <2> HIDE DEF m1, st
  <2>3. /\ st.cipher = m1.cipher /\ st.hash = m1.hash /\ st.mem = m1.mem
        /\ st.digest = m1.digest /\ st.h = m1.h
        /\ m1.cipher # None => st.iv = IF k.iv = None THEN m1.iv ELSE k.iv
    BY <2>1, <2>2 DEF SetIv, Fields
  <2> QED
    BY <1>1, <2>1, <2>3
<1> HIDE DEF st
<1>6. PICK w : /\ Crypted(st, w, k, n)
               /\ DOMAIN w = Fields
               /\ r = IF m0.hash /\ Finals(k) THEN [w EXCEPT !.digest = Digest(w.h)] ELSE w
  <2>1. m0.cipher # None => k.dst # None
    BY <1>1
  <2>2. crypto_run(m0, k).ret = "0"
    BY <1>2, <1>3
  <2> QED
    BY <1>2, <1>4, <2>1, <2>2, RunCrypted DEF st
<1>7. /\ r.mem = w.mem /\ r.iv = w.iv /\ r.h = w.h
      /\ r.digest = IF mc.hash /\ Finals(k) THEN Digest(r.h) ELSE w.digest
  BY <1>1, <1>6 DEF Fields
<1>8. /\ st.cipher = None => w.mem = st.mem
      /\ st.cipher # None => /\ w.mem = Write(st.mem, k.dst, Output(st, k, n))
                             /\ w.iv = NextIv(st.iv, Ciphertext(st, k, n))
                             /\ Span(k.dst, n) \subseteq Addr
      /\ st.hash /\ HasPlaintext(st, k) => w.h = Hash(st.h, Plaintext(st, k, n))
      /\ w.digest = st.digest
  BY <1>6 DEF Crypted
<1>9. ASSUME mc.cipher # None PROVE WholeBuffer(mc, r, k)
  BY <1>5, <1>7, <1>8, <1>9 DEF WholeBuffer, Output, Input, Ciphertext
<1>10. ASSUME mc.hash, HasPlaintext(mc, k) PROVE Hashes(mc, r, k)
  <2>1. HasPlaintext(st, k)
    BY <1>5, <1>10 DEF HasPlaintext
  <2>2. Plaintext(st, k, n) = Text(mc, r, k)
    <3>1. CASE k.op = "ENCRYPT"
      BY <1>5, <3>1 DEF Plaintext, Input, Text
    <3>2. CASE k.op # "ENCRYPT" /\ mc.cipher # None
      <4> DEFINE out == Output(st, k, n)
      <4>1. n \in Nat /\ k.dst \in Int /\ IsMemory(mc.mem)
        BY <3>2 DEF CryptOp, IsMachine
      <4>2. IsSeq(out) /\ Len(out) = n
        BY <4>1, TextFact
      <4> HIDE DEF out
      <4>3. Span(k.dst, Len(out)) \subseteq Addr
        BY <1>5, <1>8, <3>2, <4>2
      <4>4. Read(Write(mc.mem, k.dst, out), k.dst, Len(out)) = out
        BY <4>1, <4>2, <4>3, ReadWritten
      <4>5. r.mem = Write(mc.mem, k.dst, out)
        BY <1>5, <1>7, <1>8, <3>2 DEF out
      <4>6. Read(r.mem, k.dst, n) = out
        BY <4>2, <4>4, <4>5
      <4> QED
        BY <3>2, <4>6 DEF Plaintext, Text, out
    <3>3. CASE k.op # "ENCRYPT" /\ mc.cipher = None
      <4>1. k.op = "DECRYPT"
        BY <3>3 DEF CryptOp
      <4>2. k.src = k.dst
        BY <1>10, <3>3, <4>1 DEF HasPlaintext
      <4>3. r.mem = mc.mem
        BY <1>5, <1>7, <1>8, <3>3
      <4> QED
        BY <1>5, <3>3, <4>2, <4>3 DEF Plaintext, Output, Input, Text
    <3> QED
      BY <3>1, <3>2, <3>3
  <2> QED
    BY <1>5, <1>7, <1>8, <1>10, <2>1, <2>2 DEF Hashes
<1>11. r.digest = IF mc.hash /\ Finals(k) THEN Digest(r.h) ELSE <<>>
  BY <1>5, <1>7, <1>8
<1> QED
  BY <1>9, <1>10, <1>11 DEF r
-----------------------------------------------------------------------------
(* The inductive invariant for the data, with BuffersApart.                *)

(* A CIOCCRYPT waits as the user has filled it in.                         *)
CryptCalls ==
  setup = "live" =>
    \A p \in Procs : call[p] # None /\ call[p].mode = "CRYPT" =>
      call[p] \in Ops /\ (m.cipher # None => call[p].dst # None)

(* The session's hash is that of the history.                              *)
Continued == stream # None => m.hash /\ IsSeq(stream) /\ m.h = Hash(0, stream)

DataInv == RunInv /\ CryptCalls /\ Continued /\ CryptsWholeBuffer /\ DigestOfStream

LEMMA RunCrypts ==
  ASSUME BuffersApart, DataInv, NEW p \in Procs, Run(p), call[p].mode = "CRYPT", m'.ret = "0"
  PROVE  LET k == call[p]
         IN  /\ IsMachine(m) /\ k \in CryptOp /\ m' = Result(m, k)
             /\ m'.cipher = m.cipher /\ m'.hash = m.hash
             /\ m.cipher # None => WholeBuffer(m, m', k)
             /\ m.hash /\ HasPlaintext(m, k) => Hashes(m, m', k)
             /\ m'.digest = IF m.hash /\ Finals(k) THEN Digest(m'.h) ELSE <<>>
<1> DEFINE k == call[p]
<1>1. setup = "live" /\ k # None /\ m' = Result(m, k)
  BY DEF Run
<1>2. k \in Ops /\ (m.cipher # None => k.dst # None) /\ Fitted(m, k)
  BY <1>1 DEF DataInv, RunInv, CryptCalls, Calls
<1>3. k \in CryptOp /\ Apart(k)
  BY <1>2 DEF Fitted, AuthOp, BuffersApart
<1>4. IsMachine(m) /\ Balanced(m) /\ m.blocksize \in Nat \ {0} /\ m.authsize \in 1..DIGESTSIZE
  BY DEF DataInv, RunInv, Session
<1>5. Settled(m, Result(m, k), Target(k))
  BY <1>2, <1>4, ResultSettled
<1>6. Result(m, k).ret = "0"
  BY <1>1
<1> HIDE DEF k
<1>7. /\ m.cipher # None => WholeBuffer(m, Result(m, k), k)
      /\ m.hash /\ HasPlaintext(m, k) => Hashes(m, Result(m, k), k)
      /\ Result(m, k).digest = IF m.hash /\ Finals(k)
                               THEN Digest(Result(m, k).h) ELSE <<>>
  BY <1>2, <1>3, <1>4, <1>6, ResultCrypted
<1>8. m'.cipher = m.cipher /\ m'.hash = m.hash
  BY <1>1, <1>5 DEF Settled
<1> QED
  BY <1>1, <1>3, <1>4, <1>7, <1>8 DEF k

(* The hash goes on from the stream before the call.                       *)
LEMMA StreamHash ==
  ASSUME BuffersApart, DataInv, NEW p \in Procs, Run(p), call[p].mode = "CRYPT",
         m'.ret = "0", m.hash, HasPlaintext(m, call[p]),
         (IF Resets(call[p]) THEN <<>> ELSE stream) # None
  PROVE  LET text == (IF Resets(call[p]) THEN <<>> ELSE stream) \o Text(m, m', call[p])
         IN  IsSeq(text) /\ m'.h = Hash(0, text)
<1> DEFINE k == call[p]
           before == IF Resets(k) THEN <<>> ELSE stream
           h == IF Resets(k) THEN 0 ELSE m.h
           t == Text(m, m', k)
<1>1. k \in CryptOp /\ Hashes(m, m', k)
  BY RunCrypts
<1>2. m'.h = Hash(h, t)
  BY <1>1 DEF Hashes
<1>3. IsSeq(t)
  <2>1. k.len \in Nat
    BY <1>1 DEF CryptOp
  <2> QED
    BY <2>1, ReadFact DEF Text
<1>4. IsSeq(before) /\ h = Hash(0, before)
  <2>1. CASE Resets(k)
    BY <2>1, EmptyFact, HashNothing
  <2>2. CASE ~Resets(k)
    BY <2>2 DEF DataInv, Continued
  <2> QED
    BY <2>1, <2>2
<1> HIDE DEF before, h, t
<1>5. Hash(0, before \o t) = Hash(Hash(0, before), t)
  BY <1>3, <1>4, HashConcat
<1>6. IsSeq(before \o t)
  BY <1>3, <1>4, ConcatFact
<1>7. IsSeq(before \o t) /\ m'.h = Hash(0, before \o t)
  BY <1>2, <1>4, <1>5, <1>6
<1> QED
  BY <1>7 DEF before, t, k

LEMMA RunKeepsData ==
  ASSUME BuffersApart, DataInv, NEW p \in Procs, Run(p)
  PROVE  DataInv'
<1> DEFINE k == call[p]
           before == IF Resets(k) THEN <<>> ELSE stream
           t == Text(m, m', k)
<1>1. /\ setup = "live" /\ k # None /\ setup' = setup
      /\ m' = Result(m, k)
      /\ last' = [k |-> k, before |-> m, stream |-> stream]
      /\ stream' = IF m.hash /\ k.mode = "CRYPT" THEN Streamed(k) ELSE None
      /\ call' = [call EXCEPT ![p] = None]
  BY DEF Run
<1>2. RunInv'
  BY RunKeeps DEF DataInv
<1>3. m'.cipher = m.cipher /\ m'.hash = m.hash
  <2>1. Fitted(m, k)
    BY <1>1 DEF DataInv, RunInv, Calls
  <2>2. Settled(m, Result(m, k), Target(k))
    BY <2>1, ResultSettled DEF DataInv, RunInv, Session
  <2> QED
    BY <1>1, <2>2 DEF Settled
<1>4. CryptCalls'
  BY <1>1, <1>3 DEF DataInv, CryptCalls, RunInv, Calls
<1>5. /\ NoPlaintext(k) <=> ~HasPlaintext(m, k)
      /\ NoPlaintext(last.k)' <=> ~HasPlaintext(m, k)
  BY <1>1, <1>3 DEF NoPlaintext, HasPlaintext
<1>6. ASSUME k.mode = "CRYPT", m'.ret = "0", m.hash, HasPlaintext(m, k), before # None
      PROVE  IsSeq(before \o t) /\ m'.h = Hash(0, before \o t)
  BY <1>6, StreamHash
<1>7. Continued'
  <2> SUFFICES ASSUME stream' # None
               PROVE  m'.hash /\ IsSeq(stream') /\ m'.h = Hash(0, stream')
    BY DEF Continued
  <2>1. m.hash /\ k.mode = "CRYPT" /\ stream' = Streamed(k)
    BY <1>1
  <2>2. /\ m'.ret = "0" /\ before # None /\ ~NoPlaintext(k)
        /\ stream' = before \o t
    BY <2>1, Zenon DEF Streamed, Text
  <2> HIDE DEF before, t
  <2> QED
    BY <1>3, <1>5, <1>6, <2>1, <2>2
<1>8. CryptsWholeBuffer'
  <2> SUFFICES ASSUME k.mode = "CRYPT", m'.ret = "0", m'.cipher # None
               PROVE  WholeBuffer(m, m', k)
    BY <1>1 DEF CryptsWholeBuffer, Succeeded, Ran, WholeBuffer
  <2> QED
    BY <1>3, RunCrypts
<1>9. DigestOfStream'
  <2> SUFFICES ASSUME k.mode = "CRYPT", m'.ret = "0", m'.digest # <<>>,
                      before # None, ~NoPlaintext(last.k)'
               PROVE  m'.digest = Digest(Hash(0, before \o t))
    BY <1>1 DEF DigestOfStream, Succeeded, Ran, Text
  <2>1. m'.digest = IF m.hash /\ Finals(k) THEN Digest(m'.h) ELSE <<>>
    BY RunCrypts
  <2> HIDE DEF before, t
  <2> QED
    BY <1>5, <1>6, <2>1
<1> QED
  BY <1>2, <1>4, <1>7, <1>8, <1>9 DEF DataInv

LEMMA FillKeepsData ==
  ASSUME DataInv, NEW p \in Procs, Fill(p)
  PROVE  DataInv'
<1>1. RunInv'
  BY FillKeeps DEF DataInv
<1>2. PICK k \in Ops :
        /\ (k.mode = "CRYPT" /\ m.cipher # None) => k.dst # None
        /\ call' = [call EXCEPT ![p] = IF k.mode = "CRYPT" THEN k
                                       ELSE fill_kcaop_from_caop(m, k)]
        /\ UNCHANGED <<setup, res, m, last, stream>>
  BY Zenon DEF Fill
<1>3. k.mode # "CRYPT" => fill_kcaop_from_caop(m, k).mode # "CRYPT"
  <2>1. k \in CryptOp \/ k \in AuthOp
    BY RunAssumption
  <2> QED
    BY <2>1 DEF fill_kcaop_from_caop, AuthOp, CryptOp
<1>4. CryptCalls'
  BY <1>2, <1>3 DEF DataInv, CryptCalls, RunInv, Calls
<1>5. Continued' /\ CryptsWholeBuffer' /\ DigestOfStream'
  BY <1>2 DEF DataInv, Continued, CryptsWholeBuffer, DigestOfStream, Succeeded, Ran, NoPlaintext
<1> QED
  BY <1>1, <1>4, <1>5 DEF DataInv

(* Nothing has run in a session that is new or gone.                       *)
LEMMA FreshData ==
  ASSUME last' = None, stream' = None
  PROVE  Continued' /\ CryptsWholeBuffer' /\ DigestOfStream'
BY DEF Continued, CryptsWholeBuffer, DigestOfStream, Succeeded, Ran

LEMMA UnchangedData ==
  ASSUME DataInv, UNCHANGED <<m, last, stream>>
  PROVE  Continued' /\ CryptsWholeBuffer' /\ DigestOfStream'
BY DEF DataInv, Continued, CryptsWholeBuffer, DigestOfStream, Succeeded, Ran, NoPlaintext

LEMMA DataInitially == Init => DataInv
<1> SUFFICES ASSUME Init PROVE DataInv
  OBVIOUS
<1>1. RunInv /\ CryptCalls
  BY RunInitially DEF Init, CryptCalls
<1>2. Continued /\ CryptsWholeBuffer /\ DigestOfStream
  BY DEF Init, Continued, CryptsWholeBuffer, DigestOfStream, Succeeded, Ran
<1> QED
  BY <1>1, <1>2 DEF DataInv

LEMMA DataInductive ==
  ASSUME BuffersApart, DataInv, [Next]_vars
  PROVE  DataInv'
<1>1. RunInv'
  BY RunInductive DEF DataInv
<1>2. CASE CreateSession
  <2>1. last' = None /\ stream' = None /\ setup' = "building"
    BY <1>2 DEF CreateSession
  <2> QED
    BY <1>1, <2>1, FreshData DEF DataInv, CryptCalls
<1>3. CASE Acquire
  <2>1. setup = "building" /\ UNCHANGED <<m, call, last, stream>>
    BY <1>3 DEF Acquire
  <2> QED
    BY <1>1, <2>1, UnchangedData DEF DataInv, CryptCalls, RunInv, Calls
<1>4. CASE SetupFails
  <2>1. setup' = "none" /\ UNCHANGED <<m, last, stream>>
    BY <1>4 DEF SetupFails
  <2> QED
    BY <1>1, <2>1, UnchangedData DEF DataInv, CryptCalls
<1>5. CASE DestroySession
  <2>1. last' = None /\ stream' = None /\ setup' = "none"
    BY <1>5 DEF DestroySession
  <2> QED
    BY <1>1, <2>1, FreshData DEF DataInv, CryptCalls
<1>6. ASSUME NEW p \in Procs, Fill(p) PROVE DataInv'
  BY <1>6, FillKeepsData
<1>7. ASSUME NEW p \in Procs, Run(p) PROVE DataInv'
  BY <1>7, RunKeepsData
<1>8. ASSUME NEW p \in Procs, RunTooLate(p) PROVE DataInv'
  <2>1. setup # "live" /\ UNCHANGED <<setup, m, last, stream>>
    BY <1>8 DEF RunTooLate
  <2> QED
    BY <1>1, <2>1, UnchangedData DEF DataInv, CryptCalls
<1>9. CASE UNCHANGED vars
  <2>1. UNCHANGED <<setup, m, call, last, stream>>
    BY <1>9 DEF vars
  <2> QED
    BY <1>1, <2>1, UnchangedData DEF DataInv, CryptCalls
<1> QED
  BY <1>2, <1>3, <1>4, <1>5, <1>6, <1>7, <1>8, <1>9 DEF Next

(* main.c, zc.c: whether its pages could be pinned or it was copied page by *)
(* page, a successful CIOCCRYPT has encrypted or decrypted its buffer as a  *)
(* whole and left the iv of the whole behind, if the two buffers are one or *)
(* do not overlap.                                                          *)
THEOREM WholeBufferCrypted ==
  ASSUME BuffersApart
  PROVE  Spec => []CryptsWholeBuffer
<1>1. DataInv /\ [Next]_vars => DataInv'
  BY DataInductive
<1>2. DataInv => CryptsWholeBuffer
  BY DEF DataInv
<1> QED
  BY <1>1, <1>2, DataInitially, PTL DEF Spec

(* main.c, cryptlib.c: a digest is of the plaintext of every call since the *)
(* last reset, in order, whatever ran in between and however each was run,  *)
(* if source and destination are one buffer or do not overlap.              *)
THEOREM DigestIsOfStream ==
  ASSUME BuffersApart
  PROVE  Spec => []DigestOfStream
<1>1. DataInv /\ [Next]_vars => DataInv'
  BY DataInductive
<1>2. DataInv => DigestOfStream
  BY DEF DataInv
<1> QED
  BY <1>1, <1>2, DataInitially, PTL DEF Spec
-----------------------------------------------------------------------------
(* Units: what is in the memory, and what the cipher and the hash make.    *)

Units == 0..V - 1

Hashed == 0..V * V - 1

IntSeq(s) == IsSeq(s) /\ \A i \in 1..Len(s) : s[i] \in Int

UnitSeq(s) == IsSeq(s) /\ \A i \in 1..Len(s) : s[i] \in Units

LEMMA Remainders == \A x \in Int : x % V \in Units /\ x % (V * V) \in Hashed
<1>1. \A x \in Int : x % 4 \in 0..3 /\ x % 16 \in 0..15
  OBVIOUS
<1>2. V = 4 /\ V * V = 16 /\ Units = 0..3 /\ Hashed = 0..15
  BY DEF V, Units, Hashed
<1> QED
  BY <1>1, <1>2

LEMMA RollValue == \A x \in Hashed, y \in Int : (3 * x + y + 1) % (V * V) \in Hashed
<1> SUFFICES ASSUME NEW x \in Hashed, NEW y \in Int
             PROVE  (3 * x + y + 1) % (V * V) \in Hashed
  OBVIOUS
<1>1. x \in Int
  BY DEF Hashed, V
<1>2. 3 * x + y + 1 \in Int
  BY <1>1
<1> QED
  BY <1>2, Remainders

LEMMA UnitsAreInts ==
  ASSUME NEW s, UnitSeq(s)
  PROVE  IntSeq(s)
BY DEF UnitSeq, IntSeq, Units, V

LEMMA EncryptUnits ==
  ASSUME NEW iv \in Int, NEW s, IntSeq(s)
  PROVE  UnitSeq(Encrypt(iv, s)) /\ Len(Encrypt(iv, s)) = Len(s)
<1> DEFINE e == Encrypt(iv, s)
           n == Len(s)
           T == {k \in Nat : \A i \in 1..n : i <= k => e[i] \in Units}
<1>1. /\ IsSeq(e) /\ Len(e) = n
      /\ \A i \in 1..n : e[i] = (s[i] + (IF i = 1 THEN iv ELSE e[i - 1]) + 1) % V
  BY EncryptSteps DEF IntSeq
<1>2. n \in Nat
  BY SeqFact DEF IntSeq
<1> HIDE DEF e
<1>3. 0 \in T
  BY <1>2
<1>4. ASSUME NEW k \in T PROVE k + 1 \in T
  <2> SUFFICES ASSUME k + 1 \in 1..n PROVE e[k + 1] \in Units
    BY <1>2
  <2>1. k + 1 # 1 => (k + 1) - 1 \in 1..n /\ (k + 1) - 1 <= k
    BY <1>2
  <2>2. k + 1 # 1 => e[(k + 1) - 1] \in Int
    BY <2>1 DEF Units, V
  <2>3. s[k + 1] \in Int
    BY DEF IntSeq
  <2>4. s[k + 1] + (IF k + 1 = 1 THEN iv ELSE e[(k + 1) - 1]) + 1 \in Int
    BY <2>2, <2>3
  <2> QED
    BY <1>1, <2>4, Remainders
<1>5. T = Nat
  <2>1. T \subseteq Nat
    OBVIOUS
  <2> HIDE DEF T
  <2> QED
    BY <1>3, <1>4, <2>1, SetInduction
<1>6. n \in T
  BY <1>2, <1>5
<1>7. \A i \in 1..n : e[i] \in Units
  BY <1>2, <1>6
<1> QED
  BY <1>1, <1>7 DEF e, UnitSeq

LEMMA DecryptUnits ==
  ASSUME NEW iv \in Int, NEW s, IntSeq(s)
  PROVE  UnitSeq(Decrypt(iv, s)) /\ Len(Decrypt(iv, s)) = Len(s)
<1> DEFINE d == Decrypt(iv, s)
           n == Len(s)
<1>1. /\ IsSeq(d) /\ Len(d) = n
      /\ \A i \in 1..n : d[i] = (s[i] - (IF i = 1 THEN iv ELSE s[i - 1]) - 1) % V
  BY DecryptSteps DEF IntSeq
<1>2. n \in Nat
  BY SeqFact DEF IntSeq
<1> HIDE DEF d
<1>3. ASSUME NEW i \in 1..n PROVE d[i] \in Units
  <2>1. s[i] \in Int /\ (i # 1 => i - 1 \in 1..n)
    BY <1>2 DEF IntSeq
  <2>2. i # 1 => s[i - 1] \in Int
    BY <2>1 DEF IntSeq
  <2> QED
    BY <1>1, <2>1, <2>2 DEF Units, V
<1> QED
  BY <1>1, <1>3 DEF d, UnitSeq

(* What is encrypted decrypts to what it was.                              *)
LEMMA DecryptEncrypt ==
  ASSUME NEW iv \in Int, NEW s, UnitSeq(s)
  PROVE  Decrypt(iv, Encrypt(iv, s)) = s
<1> DEFINE e == Encrypt(iv, s)
           d == Decrypt(iv, e)
           n == Len(s)
<1>1. IsSeq(s) /\ n \in Nat
  BY SeqFact DEF UnitSeq
<1>2. /\ IsSeq(e) /\ Len(e) = n
      /\ \A i \in 1..n : e[i] = (s[i] + (IF i = 1 THEN iv ELSE e[i - 1]) + 1) % V
  BY <1>1, EncryptSteps
<1>3. UnitSeq(e)
  BY UnitsAreInts, EncryptUnits
<1> HIDE DEF e
<1>4. /\ IsSeq(d) /\ Len(d) = n
      /\ \A i \in 1..n : d[i] = (e[i] - (IF i = 1 THEN iv ELSE e[i - 1]) - 1) % V
  BY <1>2, DecryptSteps
<1> HIDE DEF d
<1>5. ASSUME NEW i \in 1..n PROVE d[i] = s[i]
  <2> DEFINE b == IF i = 1 THEN iv ELSE e[i - 1]
  <2>1. b \in Int
    <3>1. i # 1 => i - 1 \in 1..n
      BY <1>1
    <3> QED
      BY <1>2, <1>3, <3>1 DEF UnitSeq, Units, V
  <2>2. s[i] \in 0..3
    BY DEF UnitSeq, Units, V
  <2>3. e[i] = (s[i] + b + 1) % 4 /\ d[i] = (e[i] - b - 1) % 4
    BY <1>2, <1>4 DEF V
  <2> HIDE DEF b
  <2>4. \A x \in 0..3, y \in Int : (((x + y + 1) % 4) - y - 1) % 4 = x
    OBVIOUS
  <2> QED
    BY <2>1, <2>2, <2>3, <2>4
<1>6. d = s
  BY <1>1, <1>4, <1>5, SameSeq
<1> QED
  BY <1>6 DEF d, e

LEMMA NextIvUnit ==
  ASSUME NEW iv \in Units, NEW s, UnitSeq(s)
  PROVE  NextIv(iv, s) \in Units
<1>1. Len(s) \in Nat /\ (Len(s) # 0 => Len(s) \in 1..Len(s))
  BY SeqFact DEF UnitSeq
<1> QED
  BY <1>1, NextIvFact DEF UnitSeq

(* Two sequences that differ before, and not from, some place on.          *)
LEMMA RolledApart ==
  ASSUME NEW g \in Hashed, NEW h \in Hashed, NEW s, IntSeq(s), NEW t, IntSeq(t),
         Len(s) = Len(t), NEW a, Rolled(g, s, a), NEW b, Rolled(h, t, b),
         NEW j \in 0..Len(s), a[j] # b[j], \A i \in j + 1..Len(s) : s[i] = t[i]
  PROVE  a[Len(s)] # b[Len(s)]
<1> DEFINE n == Len(s)
           T == {k \in Nat : k <= n => /\ a[k] \in Hashed /\ b[k] \in Hashed
                                       /\ k >= j => a[k] # b[k]}
<1>1. n \in Nat /\ j \in Nat /\ j <= n
  BY SeqFact DEF IntSeq
<1>2. 0 \in T
  BY <1>1 DEF Rolled
<1>3. ASSUME NEW k \in T PROVE k + 1 \in T
  <2> SUFFICES ASSUME k + 1 <= n
               PROVE  /\ a[k + 1] \in Hashed /\ b[k + 1] \in Hashed
                      /\ k + 1 >= j => a[k + 1] # b[k + 1]
    OBVIOUS
  <2>1. k + 1 \in 1..n /\ (k + 1) - 1 = k /\ k <= n
    BY <1>1
  <2>2. /\ a[k + 1] = (3 * a[k] + s[k + 1] + 1) % (V * V)
        /\ b[k + 1] = (3 * b[k] + t[k + 1] + 1) % (V * V)
    BY <2>1 DEF Rolled
  <2>3. /\ a[k] \in 0..15 /\ b[k] \in 0..15
        /\ s[k + 1] \in Int /\ t[k + 1] \in Int
    BY <2>1 DEF Hashed, V, IntSeq
  <2>4. a[k + 1] \in Hashed /\ b[k + 1] \in Hashed
    <3>1. a[k] \in Hashed /\ b[k] \in Hashed
      BY <2>1
    <3>2. a[k + 1] \in Hashed
      BY <2>2, <2>3, <3>1, RollValue
    <3>3. b[k + 1] \in Hashed
      BY <2>2, <2>3, <3>1, RollValue
    <3> QED
      BY <3>2, <3>3
  <2>5. ASSUME k + 1 >= j PROVE a[k + 1] # b[k + 1]
    <3>1. CASE k + 1 = j
      BY <3>1
    <3>2. CASE k + 1 # j
      <4>1. a[k] # b[k] /\ s[k + 1] = t[k + 1]
        BY <1>1, <2>1, <2>5, <3>2
      <4>2. \A x, y \in 0..15, z \in Int :
              (3 * x + z + 1) % 16 = (3 * y + z + 1) % 16 => x = y
        OBVIOUS
      <4>3. /\ a[k + 1] = (3 * a[k] + s[k + 1] + 1) % 16
            /\ b[k + 1] = (3 * b[k] + s[k + 1] + 1) % 16
        BY <2>2, <4>1 DEF V
      <4> QED
        BY <2>3, <4>1, <4>2, <4>3
    <3> QED
      BY <3>1, <3>2
  <2> QED
    BY <2>4, <2>5
<1>4. T = Nat
  <2>1. T \subseteq Nat
    OBVIOUS
  <2> HIDE DEF T
  <2> QED
    BY <1>2, <1>3, <2>1, SetInduction
<1>5. n \in T
  BY <1>1, <1>4
<1> QED
  BY <1>1, <1>5

LEMMA HashValue ==
  ASSUME NEW h \in Hashed, NEW s, IntSeq(s)
  PROVE  Hash(h, s) \in Hashed
<1>1. PICK a : Rolled(h, s, a) /\ Hash(h, s) = a[Len(s)]
  BY HashSteps DEF IntSeq
<1>2. Len(s) \in Nat
  BY SeqFact DEF IntSeq
<1> DEFINE T == {k \in Nat : k <= Len(s) => a[k] \in Hashed}
<1>3. 0 \in T
  BY <1>1 DEF Rolled
<1>4. ASSUME NEW k \in T PROVE k + 1 \in T
  <2> SUFFICES ASSUME k + 1 <= Len(s) PROVE a[k + 1] \in Hashed
    OBVIOUS
  <2>1. k + 1 \in 1..Len(s) /\ (k + 1) - 1 = k /\ k <= Len(s)
    BY <1>2
  <2>2. a[k + 1] = (3 * a[k] + s[k + 1] + 1) % 16 /\ s[k + 1] \in Int
    BY <1>1, <2>1 DEF Rolled, V, IntSeq
  <2>3. a[k] \in Hashed
    BY <2>1
  <2> QED
    BY <2>2, <2>3, RollValue DEF V
<1>5. T = Nat
  <2>1. T \subseteq Nat
    OBVIOUS
  <2> HIDE DEF T
  <2> QED
    BY <1>3, <1>4, <2>1, SetInduction
<1>6. Len(s) \in T
  BY <1>2, <1>5
<1> QED
  BY <1>1, <1>2, <1>6

(* What differs before differs after the same is hashed.                   *)
LEMMA HashKeepsApart ==
  ASSUME NEW g \in Hashed, NEW h \in Hashed, g # h, NEW s, IntSeq(s)
  PROVE  Hash(g, s) # Hash(h, s)
<1>1. PICK a : Rolled(g, s, a) /\ Hash(g, s) = a[Len(s)]
  BY HashSteps DEF IntSeq
<1>2. PICK b : Rolled(h, s, b) /\ Hash(h, s) = b[Len(s)]
  BY HashSteps DEF IntSeq
<1>3. a[0] # b[0] /\ 0 \in 0..Len(s)
  BY <1>1, <1>2, SeqFact DEF Rolled, IntSeq
<1> QED
  BY <1>1, <1>2, <1>3, RolledApart

(* The hash tells a change of the first unit.                              *)
LEMMA HashTells ==
  ASSUME NEW s, UnitSeq(s), NEW t, UnitSeq(t), Len(s) = Len(t), Len(s) > 0,
         s[1] # t[1], \A i \in 2..Len(s) : s[i] = t[i]
  PROVE  Hash(0, s) # Hash(0, t)
<1>1. IntSeq(s) /\ IntSeq(t)
  BY UnitsAreInts
<1>2. PICK a : Rolled(0, s, a) /\ Hash(0, s) = a[Len(s)]
  BY <1>1, HashSteps DEF IntSeq
<1>3. PICK b : Rolled(0, t, b) /\ Hash(0, t) = b[Len(t)]
  BY <1>1, HashSteps DEF IntSeq
<1>4. Len(s) \in Nat /\ 1 \in 1..Len(s) /\ 1 \in 0..Len(s)
  BY <1>1, SeqFact DEF IntSeq
<1>5. s[1] \in 0..3 /\ t[1] \in 0..3
  BY <1>4 DEF UnitSeq, Units, V
<1>6. a[1] # b[1]
  <2>1. a[1] = (3 * a[0] + s[1] + 1) % 16 /\ a[0] = 0
    BY <1>2, <1>4 DEF Rolled, V
  <2>2. b[1] = (3 * b[0] + t[1] + 1) % 16 /\ b[0] = 0
    BY <1>3, <1>4 DEF Rolled, V
  <2> QED
    BY <1>5, <2>1, <2>2
<1>7. 0 \in Hashed
  BY DEF Hashed, V
<1>8. \A i \in 1 + 1..Len(s) : s[i] = t[i]
  BY <1>4
<1> QED
  BY <1>1, <1>2, <1>3, <1>4, <1>6, <1>7, <1>8, RolledApart

LEMMA PartFact ==
  ASSUME NEW s, IsSeq(s), NEW a \in Nat, NEW b \in Nat, a <= b, b <= Len(s)
  PROVE  LET t == SubSeq(s, a + 1, b)
         IN  /\ IsSeq(t) /\ Len(t) = b - a
             /\ \A i \in 1..b - a : t[i] = s[a + i]
<1> DEFINE S == {s[i] : i \in 1..Len(s)}
           t == SubSeq(s, a + 1, b)
<1>1. s \in Seq(S) /\ Len(s) \in Nat
  BY SeqFact
<1> HIDE DEF S
<1>2. t = [i \in 1..b - a |-> s[(a + 1) + i - 1]]
  BY <1>1, SubSeqProperties
<1>3. b - a \in Nat
  OBVIOUS
<1> HIDE DEF t
<1>4. \A i \in 1..b - a : t[i] = s[a + i]
  <2>1. \A i \in 1..b - a : (a + 1) + i - 1 = a + i
    BY <1>3
  <2> QED
    BY <1>2, <2>1
<1>5. IsSeq(t) /\ Len(t) = b - a
  <2>1. t = [i \in 1..b - a |-> t[i]]
    BY <1>2
  <2> QED
    BY <1>3, <2>1, FunctionSeq
<1> QED
  BY <1>4, <1>5 DEF t

LEMMA ConcatUnits ==
  ASSUME NEW s, UnitSeq(s), NEW t, UnitSeq(t)
  PROVE  UnitSeq(s \o t)
<1> DEFINE st == s \o t
<1>1. /\ IsSeq(st) /\ Len(st) = Len(s) + Len(t)
      /\ \A i \in 1..Len(s) : st[i] = s[i]
      /\ \A i \in 1..Len(t) : st[Len(s) + i] = t[i]
  BY ConcatFact DEF UnitSeq
<1>2. Len(s) \in Nat /\ Len(t) \in Nat
  BY SeqFact DEF UnitSeq
<1> HIDE DEF st
<1>3. ASSUME NEW i \in 1..Len(st) PROVE st[i] \in Units
  <2>1. CASE i <= Len(s)
    BY <1>1, <1>2, <2>1 DEF UnitSeq
  <2>2. CASE i > Len(s)
    <3>1. i - Len(s) \in 1..Len(t) /\ Len(s) + (i - Len(s)) = i
      BY <1>1, <1>2, <2>2
    <3> QED
      BY <1>1, <3>1 DEF UnitSeq
  <2> QED
    BY <1>1, <1>2, <2>1, <2>2
<1> QED
  BY <1>1, <1>3 DEF UnitSeq, st

LEMMA DigestUnits ==
  ASSUME NEW h \in Hashed
  PROVE  /\ Digest(h)[1] \in Units /\ Digest(h)[2] \in Units
         /\ h = 4 * Digest(h)[2] + Digest(h)[1]
<1>1. h \in 0..15
  BY DEF Hashed, V
<1>2. Digest(h)[1] = h % 4 /\ Digest(h)[2] = h \div 4
  BY DEF Digest, V
<1>3. \A x \in 0..15 : x % 4 \in 0..3 /\ x \div 4 \in 0..3 /\ x = 4 * (x \div 4) + (x % 4)
  OBVIOUS
<1> QED
  BY <1>1, <1>2, <1>3 DEF Units, V

(* The tag: the first units of a digest.                                   *)
LEMMA TagSteps ==
  ASSUME NEW h, NEW n \in 0..DIGESTSIZE
  PROVE  LET t == SubSeq(Digest(h), 1, n)
         IN  IsSeq(t) /\ Len(t) = n /\ \A i \in 1..n : t[i] = Digest(h)[i]
<1> DEFINE d == Digest(h)
           S == {d[1], d[2]}
<1>1. d \in Seq(S) /\ Len(d) = 2
  BY DEF Digest
<1> HIDE DEF d, S
<1>2. IsSeq(d) /\ n \in Nat /\ n <= Len(d) /\ 0 <= n
  BY <1>1, SeqIsSeq DEF DIGESTSIZE
<1>3. 0 + 1 = 1 /\ n - 0 = n
  BY <1>2
<1>4. /\ IsSeq(SubSeq(d, 1, n)) /\ Len(SubSeq(d, 1, n)) = n
      /\ \A i \in 1..n : SubSeq(d, 1, n)[i] = d[0 + i]
  <2>1. LET t == SubSeq(d, 0 + 1, n)
        IN  IsSeq(t) /\ Len(t) = n - 0 /\ \A i \in 1..n - 0 : t[i] = d[0 + i]
    BY <1>2, PartFact
  <2> QED
    BY <1>3, <2>1
<1>5. \A i \in 1..n : 0 + i = i
  BY <1>2
<1> QED
  BY <1>4, <1>5 DEF d

LEMMA TagUnits ==
  ASSUME NEW h \in Hashed, NEW n \in 0..DIGESTSIZE
  PROVE  UnitSeq(SubSeq(Digest(h), 1, n))
<1> DEFINE t == SubSeq(Digest(h), 1, n)
<1>1. IsSeq(t) /\ Len(t) = n /\ \A i \in 1..n : t[i] = Digest(h)[i]
  BY TagSteps
<1> HIDE DEF t
<1>2. \A i \in 1..n : i = 1 \/ i = 2
  BY DEF DIGESTSIZE
<1>3. \A i \in 1..n : t[i] \in Units
  BY <1>1, <1>2, DigestUnits
<1> QED
  BY <1>1, <1>3 DEF t, UnitSeq

(* The whole tag tells two digests apart.                                  *)
LEMMA TagTells ==
  ASSUME NEW g \in Hashed, NEW h \in Hashed, g # h
  PROVE  SubSeq(Digest(g), 1, DIGESTSIZE) # SubSeq(Digest(h), 1, DIGESTSIZE)
<1>1. DIGESTSIZE \in 0..DIGESTSIZE /\ 1 \in 1..DIGESTSIZE /\ 2 \in 1..DIGESTSIZE
  BY DEF DIGESTSIZE
<1>2. /\ SubSeq(Digest(g), 1, DIGESTSIZE)[1] = Digest(g)[1]
      /\ SubSeq(Digest(g), 1, DIGESTSIZE)[2] = Digest(g)[2]
  BY <1>1, TagSteps
<1>3. /\ SubSeq(Digest(h), 1, DIGESTSIZE)[1] = Digest(h)[1]
      /\ SubSeq(Digest(h), 1, DIGESTSIZE)[2] = Digest(h)[2]
  BY <1>1, TagSteps
<1> QED
  BY <1>2, <1>3, DigestUnits

LEMMA MacUnits ==
  ASSUME NEW auth, IntSeq(auth), NEW data, IntSeq(data), NEW n \in 0..DIGESTSIZE
  PROVE  UnitSeq(MacOf(auth, data, n))
<1>1. 0 \in Hashed
  BY DEF Hashed, V
<1>2. Hash(Hash(0, auth), data) \in Hashed
  BY <1>1, HashValue
<1> QED
  BY <1>2, TagUnits DEF MacOf

(* So does a whole tag tell what was authenticated.                        *)
LEMMA MacTells ==
  ASSUME NEW s, UnitSeq(s), NEW t, UnitSeq(t), Len(s) = Len(t), Len(s) > 0,
         s[1] # t[1], \A i \in 2..Len(s) : s[i] = t[i], NEW data, IntSeq(data)
  PROVE  MacOf(s, data, DIGESTSIZE) # MacOf(t, data, DIGESTSIZE)
<1>1. 0 \in Hashed /\ IntSeq(s) /\ IntSeq(t)
  BY UnitsAreInts DEF Hashed, V
<1>2. Hash(0, s) \in Hashed /\ Hash(0, t) \in Hashed /\ Hash(0, s) # Hash(0, t)
  BY <1>1, HashValue, HashTells
<1>3. /\ Hash(Hash(0, s), data) # Hash(Hash(0, t), data)
      /\ Hash(Hash(0, s), data) \in Hashed /\ Hash(Hash(0, t), data) \in Hashed
  BY <1>2, HashKeepsApart, HashValue
<1> QED
  BY <1>3, TagTells DEF MacOf

-----------------------------------------------------------------------------
(* Memory of units.                                                        *)
UnitMemory(mem) == mem \in [Addr -> Units]

LEMMA UnitsAreMemory ==
  ASSUME NEW mem, UnitMemory(mem)
  PROVE  IsMemory(mem)
BY DEF UnitMemory, IsMemory

LEMMA ReadUnits ==
  ASSUME NEW mem, UnitMemory(mem), NEW a \in Int, NEW n \in Nat, Span(a, n) \subseteq Addr
  PROVE  UnitSeq(Read(mem, a, n)) /\ Len(Read(mem, a, n)) = n
<1> DEFINE s == Read(mem, a, n)
<1>1. IsSeq(s) /\ Len(s) = n /\ \A i \in 1..n : s[i] = mem[a + i - 1]
  BY ReadFact
<1> HIDE DEF s
<1>2. \A i \in 1..n : a + i - 1 \in Span(a, n)
  BY DEF Span
<1>3. \A i \in 1..n : s[i] \in Units
  BY <1>1, <1>2 DEF UnitMemory
<1> QED
  BY <1>1, <1>3 DEF s, UnitSeq

LEMMA WriteUnits ==
  ASSUME NEW mem, UnitMemory(mem), NEW a \in Int, NEW s, UnitSeq(s)
  PROVE  UnitMemory(Write(mem, a, s))
<1> DEFINE w == Write(mem, a, s)
<1>1. DOMAIN mem = Addr /\ IsMemory(mem)
  BY UnitsAreMemory DEF UnitMemory
<1>2. /\ IsMemory(w)
      /\ \A b \in Addr : w[b] = IF b \in Span(a, Len(s)) THEN s[b - a + 1] ELSE mem[b]
  BY <1>1, WriteFact
<1> HIDE DEF w
<1>3. Len(s) \in Nat
  BY SeqFact DEF UnitSeq
<1>4. ASSUME NEW b \in Addr PROVE w[b] \in Units
  <2>1. CASE b \in Span(a, Len(s))
    <3>1. b - a + 1 \in 1..Len(s)
      BY <1>3, <2>1 DEF Span
    <3> QED
      BY <1>2, <2>1, <3>1 DEF UnitSeq
  <2>2. CASE b \notin Span(a, Len(s))
    BY <1>2, <2>2 DEF UnitMemory
  <2> QED
    BY <2>1, <2>2
<1>5. UnitMemory(w)
  BY <1>2, <1>4 DEF UnitMemory, IsMemory
<1> QED
  BY <1>5 DEF w

-----------------------------------------------------------------------------
(* What the user allows is what can be pinned.                             *)

(* Pages from addr on, as many as asked for, are those of the buffer.      *)
LEMMA PinReaches ==
  ASSUME NEW mc, NEW addr \in Nat, NEW len \in Nat, NEW write, NEW off, NEW n \in Nat,
         PAGECOUNT(addr, len) <= n, Pin(mc, addr, write, n, off).ok
  PROVE  Accessible(mc.perm, addr, len, write)
<1>1. CASE len = 0
  BY <1>1 DEF Span, Accessible
<1>2. CASE len # 0
  <2> DEFINE first == Page(addr)
             end == Page(addr + len - 1)
             bad == {i \in 0..n - 1 : ~(first + i \in Pages /\ Allows(mc.perm, first + i, write))}
             got == Min(bad \cup {n})
             ok == got = n
  <2>1. /\ first \in Int /\ end \in Int /\ first <= end
        /\ PAGECOUNT(addr, len) = end - first + 1
    <3>1. addr + len - 1 \in Int /\ addr <= addr + len - 1
      BY <1>2
    <3>2. first \in Int /\ end \in Int /\ first <= end
      <4>1. addr \in Int /\ addr + len - 1 \in Int /\ addr <= addr + len - 1
        BY <3>1
      <4>2. first <= end
        BY <4>1, QuotientMonotonic, ZcAssumption DEF Page
      <4> QED
        BY <4>1, <4>2, PageFact
    <3>3. PAGECOUNT(addr, len) = end - first + 1
      BY <1>2 DEF PAGECOUNT
    <3> QED
      BY <3>2, <3>3
  <2>2. n # 0 /\ end - first <= n - 1
    BY <2>1
  <2>3. ok
    <3>1. Pin(mc, addr, write, n, off).ok = ok
      BY <2>2 DEF Pin
    <3> QED
      BY <3>1
  <2>4. bad = {}
    <3>1. bad \subseteq 0..n - 1
      OBVIOUS
    <3> HIDE DEF bad
    <3>2. bad \cup {n} \subseteq Nat /\ bad \cup {n} # {}
      BY <2>2, <3>1
    <3>3. \A y \in bad \cup {n} : got <= y
      BY <3>2, MinFact
    <3> QED
      BY <2>2, <2>3, <3>1, <3>3
  <2> HIDE DEF got
  <2>5. ASSUME NEW b \in Span(addr, len)
        PROVE  b \in Addr /\ Allows(mc.perm, Page(b), write)
    <3>1. b \in Int /\ addr <= b /\ b <= addr + len - 1 /\ addr + len - 1 \in Int
      BY DEF Span
    <3>2. Page(b) \in Int /\ first <= Page(b) /\ Page(b) <= end
      BY <3>1, QuotientMonotonic, ZcAssumption DEF Page
    <3> DEFINE i == Page(b) - first
    <3>3. i \in 0..n - 1 /\ first + i = Page(b)
      BY <2>1, <2>2, <3>2
    <3>4. Page(b) \in Pages /\ Allows(mc.perm, Page(b), write)
      BY <2>4, <3>3
    <3> QED
      BY <3>1, <3>4, WholePage
  <2> QED
    BY <2>5 DEF Accessible
<1> QED
  BY <1>1, <1>2

LEMMA QuotientFact ==
  ASSUME NEW p \in Nat, p > 0, NEW x \in Int, NEW q \in Int
  PROVE  /\ x \div p \in Int /\ p * (x \div p) <= x /\ x < p * (x \div p) + p
         /\ p * (x \div p) \in Int /\ p * q \in Int
         /\ p * q <= x /\ x < p * q + p => x \div p = q
<1> DEFINE d == x \div p
<1>1. d \in Int /\ p * d <= x /\ x < p * d + p /\ p * d \in Int /\ p * q \in Int
  BY SMT
<1> HIDE DEF d
<1>2. ASSUME p * q <= x, x < p * q + p PROVE d = q
  <2>1. ~(d < q)
    <3> SUFFICES ASSUME d < q PROVE FALSE
      OBVIOUS
    <3>1. p * d + p <= p * q
      BY <1>1, ProductMonotonic
    <3> QED
      BY <1>1, <1>2, <3>1
  <2>2. ~(q < d)
    <3> SUFFICES ASSUME q < d PROVE FALSE
      OBVIOUS
    <3>1. p * q + p <= p * d
      BY <1>1, ProductMonotonic
    <3> QED
      BY <1>1, <1>2, <3>1
  <2> QED
    BY <1>1, <2>1, <2>2
<1> QED
  BY <1>1, <1>2 DEF d

(* A page between the first and the last of a buffer is one of its pages.  *)
LEMMA PageBetween ==
  ASSUME NEW addr \in Nat, NEW len \in Nat, len # 0, NEW pg \in Int,
         Page(addr) <= pg, pg <= Page(addr + len - 1)
  PROVE  \E b \in Span(addr, len) : Page(b) = pg
<1> DEFINE p == PAGE_SIZE
           end == addr + len - 1
           first == addr \div p
           last_page == end \div p
           low == p * pg
<1>1. p \in Nat /\ p > 0 /\ end \in Int /\ addr \in Int /\ addr <= end
  BY ZcAssumption
<1>2. first <= pg /\ pg <= last_page
  BY DEF Page
<1> HIDE DEF p, end
<1>3. /\ low \in Int /\ first \in Int /\ last_page \in Int
      /\ p * last_page <= end /\ p * last_page \in Int
      /\ addr < p * first + p /\ p * first \in Int
  BY <1>1, QuotientFact
<1>4. low <= p * last_page
  <2>1. CASE pg = last_page
    BY <1>3, <2>1
  <2>2. CASE pg # last_page
    <3>1. pg < last_page
      BY <1>2, <1>3, <2>2
    <3>2. p * pg + p <= p * last_page
      BY <1>1, <1>3, <3>1, ProductMonotonic
    <3> QED
      BY <1>1, <1>3, <3>2
  <2> QED
    BY <2>1, <2>2
<1>5. p * first <= low
  <2>1. CASE pg = first
    BY <1>3, <2>1
  <2>2. CASE pg # first
    <3>1. first < pg
      BY <1>2, <1>3, <2>2
    <3>2. p * first + p <= p * pg
      BY <1>1, <1>3, <3>1, ProductMonotonic
    <3> QED
      BY <1>1, <1>3, <3>2
  <2> QED
    BY <2>1, <2>2
<1> HIDE DEF first, last_page
<1>6. CASE addr <= low
  <2>1. low \div p = pg
    <3>1. p * pg <= low /\ low < p * pg + p
      BY <1>1, <1>3
    <3> HIDE DEF low
    <3> QED
      BY <1>1, <1>3, <3>1, QuotientFact
  <2>2. low \in Span(addr, len)
    <3> HIDE DEF low
    <3> QED
      BY <1>1, <1>3, <1>4, <1>6 DEF Span, end
  <2> QED
    BY <2>1, <2>2 DEF Page, p
<1>7. CASE low < addr
  <2>1. addr \div p = pg
    <3>1. p * pg <= addr /\ addr < p * pg + p
      BY <1>1, <1>3, <1>5, <1>7
    <3> QED
      BY <1>1, <3>1, QuotientFact
  <2>2. addr \in Span(addr, len)
    BY <1>1 DEF Span, end
  <2> QED
    BY <2>1, <2>2 DEF Page, p
<1> QED
  BY <1>1, <1>3, <1>6, <1>7

LEMMA PinGets ==
  ASSUME NEW mc, NEW addr \in Nat, NEW len \in Nat, NEW write, NEW off,
         Accessible(mc.perm, addr, len, write)
  PROVE  Pin(mc, addr, write, PAGECOUNT(addr, len), off).ok
<1> DEFINE n == PAGECOUNT(addr, len)
<1>0. n \in Nat
  BY PageFact
<1>1. CASE n = 0
  <2> HIDE DEF n
  <2>1. Pin(mc, addr, write, n, off) = [ok |-> TRUE, m |-> mc]
    BY <1>1, Zenon DEF Pin
  <2> QED
    BY <2>1 DEF n
<1>2. CASE n # 0
  <2> DEFINE first == Page(addr)
             bad == {i \in 0..n - 1 : ~(first + i \in Pages /\ Allows(mc.perm, first + i, write))}
             got == Min(bad \cup {n})
             ok == got = n
  <2>1. len # 0 /\ first \in Int /\ n = Page(addr + len - 1) - first + 1
        /\ Page(addr + len - 1) \in Int
    <3>1. len # 0
      BY <1>2 DEF PAGECOUNT
    <3>2. addr + len - 1 \in Int
      OBVIOUS
    <3> QED
      BY <3>1, <3>2, PageFact DEF PAGECOUNT
  <2> HIDE DEF n
  <2>2. bad = {}
    <3> SUFFICES ASSUME NEW i \in 0..n - 1
                 PROVE  first + i \in Pages /\ Allows(mc.perm, first + i, write)
      OBVIOUS
    <3>1. first + i \in Int /\ first <= first + i /\ first + i <= Page(addr + len - 1)
      BY <1>0, <2>1
    <3>2. PICK b \in Span(addr, len) : Page(b) = first + i
      BY <2>1, <3>1, PageBetween
    <3>3. b \in Addr /\ Allows(mc.perm, Page(b), write)
      BY DEF Accessible
    <3> QED
      BY <3>2, <3>3 DEF Pages
  <2>3. got = n
    <3>1. bad \cup {n} = {n}
      BY <2>2
    <3> HIDE DEF bad
    <3> QED
      BY <1>0, <3>1, MinFact
  <2>4. Pin(mc, addr, write, n, off).ok = ok
    BY <1>2 DEF Pin
  <2> QED
    BY <2>3, <2>4 DEF n
<1> QED
  BY <1>1, <1>2

LEMMA AccessiblePart ==
  ASSUME NEW perm, NEW a \in Int, NEW off \in Nat, NEW n \in Nat, NEW len \in Nat,
         off + n <= len, NEW write, Accessible(perm, a, len, write)
  PROVE  Accessible(perm, a + off, n, write)
BY SpanFact DEF Accessible

LEMMA AccessibleToRead ==
  ASSUME NEW perm, NEW a, NEW n, Accessible(perm, a, n, TRUE)
  PROVE  Accessible(perm, a, n, FALSE)
BY DEF Accessible, Allows

LEMMA AccessibleCovers ==
  ASSUME NEW perm, NEW a, NEW n, NEW write, Accessible(perm, a, n, write)
  PROVE  Span(a, n) \subseteq Addr
BY DEF Accessible

LEMMA PageCountMonotonic ==
  ASSUME NEW a \in Nat, NEW n \in Nat, NEW len \in Nat, n <= len
  PROVE  PAGECOUNT(a, n) <= PAGECOUNT(a, len)
<1>1. CASE n = 0
  <2>1. PAGECOUNT(a, n) = 0 /\ PAGECOUNT(a, len) \in Nat
    BY <1>1, PageFact, Zenon DEF PAGECOUNT
  <2> QED
    BY <2>1
<1>2. CASE n # 0
  <2>1. a + n - 1 \in Int /\ a + len - 1 \in Int /\ a + n - 1 <= a + len - 1
    OBVIOUS
  <2>2. Page(a + n - 1) <= Page(a + len - 1)
    BY <2>1, QuotientMonotonic, ZcAssumption DEF Page
  <2>3. Page(a + n - 1) \in Int /\ Page(a + len - 1) \in Int /\ Page(a) \in Int
    BY <2>1, PageFact
  <2> QED
    BY <1>2, <2>2, <2>3 DEF PAGECOUNT
<1> QED
  BY <1>1, <1>2

(* A pinning leaves the room there is.                                     *)
RoomKept(mc, r) ==
  IsMachine(r) /\ r.perm = mc.perm /\ Len(r.pages) = Len(mc.pages)

LEMMA PinRoom ==
  ASSUME NEW mc, IsMachine(mc), NEW addr, NEW write, NEW n \in Nat, NEW off \in Nat,
         addr \in Int \/ n = 0, off + n <= Len(mc.pages)
  PROVE  RoomKept(mc, Pin(mc, addr, write, n, off).m)
<1> DEFINE u == Pin(mc, addr, write, n, off)
<1>1. /\ u.ok \in BOOLEAN
      /\ \E first \in Int, got \in 0..n :
           /\ u.ok <=> got = n
           /\ u.m.spoiled <=> mc.spoiled \/ got \in 1..n - 1
           /\ Pinned(mc, u.m, first, got, off)
  BY PinFact
<1> HIDE DEF u
<1>2. \E first \in Int, got \in 0..n : Pinned(mc, u.m, first, got, off)
  BY <1>1
<1>3. IsMachine(u.m) /\ Same(mc, u.m) /\ Len(u.m.pages) = Len(mc.pages)
  BY <1>2, PinnedSame
<1> QED
  BY <1>3 DEF u, Same, RoomKept

LEMMA ReleasedRoom ==
  ASSUME NEW mc
  PROVE  /\ release_user_pages(mc).pages = mc.pages
         /\ [release_user_pages(mc) EXCEPT !.spoiled = TRUE].pages = mc.pages
  
BY DEF release_user_pages

(* What get_userbuf hands back can be read and written, and the room it    *)
(* made for it stays.                                                      *)
LEMMA UserbufGives ==
  ASSUME NEW mc, IsMachine(mc), NEW src \in Nat \cup {None},
         NEW dst \in Nat \cup {None}, NEW sl \in Nat, NEW dl \in Nat, NEW nomem
  PROVE  LET u == get_userbuf(mc, src, sl, dst, dl, nomem)
         IN  /\ Len(u.m.pages) >= Len(mc.pages)
             /\ u.ok /\ src # None => Accessible(mc.perm, src, sl, FALSE)
             /\ u.ok /\ dst # None => /\ Accessible(mc.perm, dst, dl, TRUE)
                                      /\ PAGECOUNT(dst, dl) <= Len(u.m.pages)
<1> DEFINE n(buf, len) == IF buf = None THEN 0 ELSE PAGECOUNT(buf, len)
           ns == n(src, sl)
           nd == n(dst, dl)
           used == IF src # dst THEN ns + nd ELSE IF ns < nd THEN nd ELSE ns
           Released(out) == IF out.ok THEN out
                            ELSE [ok |-> FALSE,
                                  m  |-> [release_user_pages(out.m) EXCEPT !.spoiled = TRUE]]
           PinDst(in) == IF in.ok THEN Released(Pin(in.m, dst, TRUE, nd, ns)) ELSE in
           PinAll(mr) == IF src = dst THEN Pin(mr, src, TRUE, used, 0)
                                 ELSE PinDst(Pin(mr, src, FALSE, ns, 0))
           m0 == [mc EXCEPT !.used_pages = used]
           g == IF used <= Len(mc.pages) THEN PinAll(m0)
                ELSE IF nomem THEN [ok |-> FALSE, m |-> m0]
                ELSE PinAll(adjust_sg_array(m0, used))
           Good(u) == /\ u.ok /\ src # None => Accessible(mc.perm, src, sl, FALSE)
                      /\ u.ok /\ dst # None => /\ Accessible(mc.perm, dst, dl, TRUE)
                                               /\ PAGECOUNT(dst, dl) <= Len(u.m.pages)
<1> DEFINE given == get_userbuf(mc, src, sl, dst, dl, nomem)
<1>1. given = g
  BY Zenon DEF get_userbuf
<1> SUFFICES Len(given.m.pages) >= Len(mc.pages) /\ Good(given)
  BY Zenon
<1> HIDE DEF given
<1>2. /\ ns \in Nat /\ nd \in Nat
      /\ src # None => src \in Nat /\ ns = PAGECOUNT(src, sl)
      /\ dst # None => dst \in Nat /\ nd = PAGECOUNT(dst, dl)
      /\ src = None => ns = 0
      /\ dst = None => nd = 0
  <2>1. ASSUME NEW buf \in Nat \cup {None}, NEW len \in Nat
        PROVE  /\ n(buf, len) \in Nat
               /\ buf # None => buf \in Nat /\ n(buf, len) = PAGECOUNT(buf, len)
               /\ buf = None => n(buf, len) = 0
    <3>1. CASE buf = None
      BY <3>1
    <3>2. CASE buf # None
      <4>1. buf \in Nat /\ n(buf, len) = PAGECOUNT(buf, len)
        BY <3>2
      <4>2. PAGECOUNT(buf, len) \in Nat
        BY <4>1, PageFact
      <4> QED
        BY <3>2, <4>1, <4>2
    <3> QED
      BY <3>1, <3>2
  <2> HIDE DEF n
  <2> QED
    BY <2>1
<1> HIDE DEF ns, nd
<1>3. /\ used \in Nat /\ (src # dst => used = ns + nd)
      /\ ns <= used /\ nd <= used
  BY <1>2
<1>4. ASSUME NEW mr, IsMachine(mr), mr.perm = mc.perm, used <= Len(mr.pages)
      PROVE  Len(PinAll(mr).m.pages) = Len(mr.pages) /\ Good(PinAll(mr))
  <2>0. Len(mr.pages) \in Nat
    BY <1>4, SeqFact DEF IsMachine
  <2>1. CASE src = dst
    <3> DEFINE u == Pin(mr, src, TRUE, used, 0)
    <3>0. PinAll(mr) = u
      BY <2>1
    <3> HIDE DEF used, PinAll
    <3>1. src \in Int \/ used = 0
      <4>1. src = None => used = 0
        BY <1>2, <2>1 DEF used
      <4> QED
        BY <1>2, <4>1
    <3>2. RoomKept(mr, u.m)
      <4>1. 0 + used <= Len(mr.pages) /\ 0 \in Nat
        BY <1>3, <1>4
      <4> QED
        BY <1>3, <1>4, <3>1, <4>1, PinRoom
    <3>3. ASSUME u.ok, src # None
          PROVE  Accessible(mc.perm, src, sl, FALSE) /\ Accessible(mc.perm, src, dl, TRUE)
      <4>1. src \in Nat /\ PAGECOUNT(src, sl) <= used /\ PAGECOUNT(src, dl) <= used
        BY <1>2, <1>3, <2>1, <3>3
      <4>2. Accessible(mr.perm, src, sl, TRUE) /\ Accessible(mr.perm, src, dl, TRUE)
        BY <1>3, <3>3, <4>1, PinReaches
      <4> QED
        BY <1>4, <4>2, AccessibleToRead
    <3> HIDE DEF u
    <3>4. Len(u.m.pages) = Len(mr.pages)
      BY <3>2 DEF RoomKept
    <3>5. dst # None => PAGECOUNT(dst, dl) <= Len(u.m.pages)
      BY <1>2, <1>3, <1>4, <2>0, <3>4
    <3> QED
      BY <2>1, <3>0, <3>3, <3>4, <3>5
  <2>2. CASE src # dst
    <3> DEFINE a == Pin(mr, src, FALSE, ns, 0)
               b == Pin(a.m, dst, TRUE, nd, ns)
               c == [release_user_pages(b.m) EXCEPT !.spoiled = TRUE]
    <3>1. /\ a.ok /\ b.ok => PinAll(mr) = b
          /\ a.ok /\ ~b.ok => PinAll(mr) = [ok |-> FALSE, m |-> c]
          /\ ~a.ok => PinAll(mr) = a
      BY <2>2, Zenon
    <3>2. ns + nd <= Len(mr.pages) /\ 0 + ns <= Len(mr.pages) /\ 0 \in Nat
      BY <1>2, <1>3, <1>4, <2>0, <2>2
    <3> HIDE DEF used, PinAll
    <3>3. RoomKept(mr, a.m)
      <4>1. src \in Int \/ ns = 0
        BY <1>2
      <4> QED
        BY <1>2, <1>4, <3>2, <4>1, PinRoom
    <3>4. a.ok /\ src # None => Accessible(mc.perm, src, sl, FALSE)
      <4> SUFFICES ASSUME a.ok, src # None PROVE Accessible(mr.perm, src, sl, FALSE)
        BY <1>4
      <4>1. src \in Nat /\ PAGECOUNT(src, sl) <= ns
        BY <1>2
      <4> QED
        BY <1>2, <4>1, PinReaches
    <3> HIDE DEF a
    <3>5. IsMachine(a.m) /\ a.m.perm = mr.perm /\ Len(a.m.pages) = Len(mr.pages)
      BY <3>3 DEF RoomKept
    <3>6. RoomKept(a.m, b.m)
      <4>1. dst \in Int \/ nd = 0
        BY <1>2
      <4>2. ns + nd <= Len(a.m.pages)
        BY <3>2, <3>5
      <4> QED
        BY <1>2, <3>5, <4>1, <4>2, PinRoom
    <3>7. b.ok /\ dst # None => Accessible(mc.perm, dst, dl, TRUE)
      <4> SUFFICES ASSUME b.ok, dst # None PROVE Accessible(a.m.perm, dst, dl, TRUE)
        BY <1>4, <3>5
      <4>1. dst \in Nat /\ PAGECOUNT(dst, dl) <= nd
        BY <1>2
      <4> QED
        BY <1>2, <4>1, PinReaches
    <3> HIDE DEF b
    <3>8. /\ Len(b.m.pages) = Len(mr.pages) /\ c.pages = b.m.pages
          /\ dst # None => PAGECOUNT(dst, dl) <= Len(b.m.pages)
      <4>1. Len(b.m.pages) = Len(mr.pages)
        BY <3>5, <3>6 DEF RoomKept
      <4> QED
        BY <1>2, <2>0, <3>2, <4>1, ReleasedRoom
    <3> HIDE DEF c
    <3>9. CASE a.ok /\ b.ok
      <4>1. PinAll(mr) = b
        BY <3>1, <3>9
      <4> QED
        BY <3>4, <3>7, <3>8, <3>9, <4>1
    <3>10. CASE a.ok /\ ~b.ok
      <4>1. PinAll(mr).ok = FALSE /\ PinAll(mr).m = c
        BY <3>1, <3>10
      <4> QED
        BY <3>8, <4>1
    <3>11. CASE ~a.ok
      <4>1. PinAll(mr) = a
        BY <3>1, <3>11
      <4> QED
        BY <3>5, <3>11, <4>1
    <3> QED
      BY <3>9, <3>10, <3>11
  <2> QED
    BY <2>1, <2>2
<1> HIDE DEF PinAll, used
<1>5. IsMachine(m0) /\ m0.perm = mc.perm /\ m0.pages = mc.pages
  <2>1. IsMachine(m0) /\ Same(mc, m0) /\ m0.pages = mc.pages
    BY <1>3, UsedPages
  <2> QED
    BY <2>1 DEF Same
<1>6. Len(mc.pages) \in Nat
  BY SeqFact DEF IsMachine
<1> HIDE DEF m0
<1>7. CASE used <= Len(mc.pages)
  <2>1. Len(PinAll(m0).m.pages) = Len(m0.pages) /\ Good(PinAll(m0))
    BY <1>4, <1>5, <1>7
  <2>2. g = PinAll(m0)
    BY <1>7
  <2> HIDE DEF g
  <2>3. given = PinAll(m0)
    BY <1>1, <2>2
  <2>4. Len(given.m.pages) = Len(mc.pages)
    BY <1>5, <2>1, <2>3
  <2>5. Good(given)
    <3> HIDE DEF Good
    <3> QED
      BY <2>1, <2>3
  <2> HIDE DEF Good
  <2> QED
    BY <1>6, <2>4, <2>5
<1>8. CASE ~(used <= Len(mc.pages)) /\ nomem
  <2>1. g = [ok |-> FALSE, m |-> m0]
    BY <1>8
  <2> HIDE DEF g
  <2> QED
    BY <1>1, <1>5, <1>6, <2>1
<1>9. CASE ~(used <= Len(mc.pages)) /\ ~nomem
  <2> DEFINE r == adjust_sg_array(m0, used)
  <2>1. IsMachine(r) /\ Same(m0, r) /\ Len(r.pages) >= used /\ Len(r.pages) >= Len(m0.pages)
    BY <1>3, <1>5, AdjustFact
  <2>2. g = PinAll(r)
    BY <1>9
  <2> HIDE DEF r, g
  <2>3. r.perm = mc.perm /\ used <= Len(r.pages)
    <3>1. Len(r.pages) \in Nat
      BY <2>1, SeqFact DEF IsMachine
    <3> QED
      BY <1>3, <1>5, <2>1, <3>1 DEF Same
  <2>4. Len(PinAll(r).m.pages) = Len(r.pages) /\ Good(PinAll(r))
    BY <1>4, <2>1, <2>3
  <2> QED
    BY <1>1, <1>5, <2>1, <2>2, <2>4
<1> QED
  BY <1>7, <1>8, <1>9

(* One buffer that could be had once can be had again.                     *)
LEMMA UserbufAgain ==
  ASSUME NEW mc, NEW a \in Nat, NEW n \in Nat, NEW nomem, Accessible(mc.perm, a, n, TRUE),
         PAGECOUNT(a, n) <= Len(mc.pages)
  PROVE  get_userbuf(mc, a, n, a, n, nomem).ok
<1> DEFINE c == PAGECOUNT(a, n)
           m0 == [mc EXCEPT !.used_pages = c]
<1>1. c \in Nat /\ a # None
  BY PageFact, ZcAssumption
<1> HIDE DEF c
<1>2. get_userbuf(mc, a, n, a, n, nomem) = Pin(m0, a, TRUE, c, 0)
  BY <1>1, Zenon DEF get_userbuf, c
<1>3. m0.perm = mc.perm
  OBVIOUS
<1> QED
  BY <1>2, <1>3, PinGets DEF c

-----------------------------------------------------------------------------
(* What CIOCCRYPT leaves is typed, and it succeeds if and only if the user *)
(* has allowed it to read what it reads and to write what it writes.       *)
Typed(mc) == UnitMemory(mc.mem) /\ mc.iv \in Units /\ mc.h \in Hashed

Reached(mc, k, d) ==
  /\ Accessible(mc.perm, k.src, d, FALSE)
  /\ mc.cipher # None => Accessible(mc.perm, k.dst, d, TRUE)

LEMMA CryptUnits ==
  ASSUME NEW mc, IsMachine(mc), Typed(mc), NEW op, NEW data, UnitSeq(data),
         NEW dst, UnitSeq(dst)
  PROVE  LET r == hash_n_crypt(mc, op, data, dst)
         IN  Typed(r.m) /\ UnitSeq(r.out)
<1> DEFINE out == IF mc.cipher = None THEN dst
                  ELSE IF op = "ENCRYPT" THEN Encrypt(mc.iv, data)
                                         ELSE Decrypt(mc.iv, data)
           iv == IF mc.cipher = None THEN mc.iv
                 ELSE NextIv(mc.iv, IF op = "ENCRYPT" THEN out ELSE data)
           h == IF mc.hash THEN Hash(mc.h, IF op = "ENCRYPT" THEN data ELSE out)
                           ELSE mc.h
           w == [mc EXCEPT !.iv = iv, !.h = h]
           r == hash_n_crypt(mc, op, data, dst)
<1>1. r = [m |-> w, out |-> out]
  BY DEF hash_n_crypt
<1>2. mc.iv \in Int /\ IntSeq(data)
  BY UnitsAreInts DEF Typed, Units, V
<1>3. UnitSeq(out)
  <2>1. UnitSeq(Encrypt(mc.iv, data)) /\ UnitSeq(Decrypt(mc.iv, data))
    BY <1>2, EncryptUnits, DecryptUnits
  <2> QED
    BY <2>1
<1> HIDE DEF out
<1>4. iv \in Units
  BY <1>3, NextIvUnit DEF Typed
<1>5. h \in Hashed
  <2>1. IntSeq(out)
    BY <1>3, UnitsAreInts
  <2> QED
    BY <1>2, <2>1, HashValue DEF Typed
<1> HIDE DEF iv, h
<1>6. w.mem = mc.mem /\ w.iv = iv /\ w.h = h
  BY DEF IsMachine, Fields
<1> HIDE DEF w
<1>7. r.m = w /\ r.out = out
  BY <1>1
<1> HIDE DEF r
<1> QED
  BY <1>3, <1>4, <1>5, <1>6, <1>7 DEF Typed, r

LEMMA NatIsInt == \A n \in Nat : n \in Int
OBVIOUS

LEMMA ReachedPiece ==
  ASSUME NEW perm, NEW a \in Int, NEW d \in Nat, NEW n \in Nat, NEW write
  PROVE  Accessible(perm, a, d + n, write)
           <=> Accessible(perm, a, d, write) /\ Accessible(perm, a + d, n, write)
<1>1. Span(a, d + n) = Span(a, d) \cup Span(a + d, n)
  BY DEF Span
<1> QED
  BY <1>1 DEF Accessible

Piece(k, d) == IF k.len - d < PAGE_SIZE THEN k.len - d ELSE PAGE_SIZE

LEMMA ChunkKeeps ==
  ASSUME NEW mc, IsMachine(mc), Typed(mc), NEW k, k \in CryptOp,
         mc.cipher # None => k.dst # None, NEW d \in Nat, d <= k.len
  PROVE  LET r == RunChunk(mc, k, d)
             n == Piece(k, d)
         IN  /\ Typed(r)
             /\ mc.ret = "0" =>
                  (r.ret = "0" <=> /\ Accessible(mc.perm, k.src + d, n, FALSE)
                                   /\ mc.cipher # None
                                        => Accessible(mc.perm, k.dst + d, n, TRUE))
             /\ mc.ret # "0" => r.ret # "0"
<1> DEFINE n == IF k.len - d < PAGE_SIZE THEN k.len - d ELSE PAGE_SIZE
           data == Read(mc.mem, k.src + d, n)
           c == hash_n_crypt(mc, k.op, data, data)
           w == [c.m EXCEPT !.mem = Write(@, k.dst + d, c.out)]
           q == IF mc.ret # "0" THEN mc
                ELSE IF ~Accessible(mc.perm, k.src + d, n, FALSE) THEN Ret(mc, "EFAULT")
                ELSE IF mc.cipher = None THEN c.m
                ELSE IF ~Accessible(mc.perm, k.dst + d, n, TRUE) THEN Ret(c.m, "EFAULT")
                ELSE w
           can_read == Accessible(mc.perm, k.src + d, n, FALSE)
           can_write == mc.cipher # None => Accessible(mc.perm, k.dst + d, n, TRUE)
<1>1. n \in Nat /\ k.src \in Nat /\ (k.dst # None => k.dst \in Nat) /\ n = Piece(k, d)
  BY ZcAssumption DEF CryptOp, Piece
<1>2. RunChunk(mc, k, d) = q
  BY Zenon DEF RunChunk, n
<1> HIDE DEF n
<1>3. \A x : IsMachine(x) => /\ Ret(x, "EFAULT").ret = "EFAULT"
                             /\ Typed(x) => Typed(Ret(x, "EFAULT"))
  BY DEF Ret, IsMachine, Fields, Typed
<1>4. CASE mc.ret # "0" \/ ~can_read
  <2> HIDE DEF c, w
  <2> QED
    BY <1>1, <1>2, <1>3, <1>4
<1>5. CASE mc.ret = "0" /\ can_read
  <2>1. UnitSeq(data)
    <3>1. k.src + d \in Int
      BY <1>1
    <3> QED
      BY <1>1, <1>5, <3>1, ReadUnits, AccessibleCovers DEF Typed
  <2>2. c.m.ret = mc.ret /\ Typed(c.m) /\ UnitSeq(c.out) /\ IsMachine(c.m)
    <3> HIDE DEF data
    <3>1. c.m.ret = mc.ret
      BY <2>1, CryptFact DEF UnitSeq
    <3>2. Typed(c.m) /\ UnitSeq(c.out)
      BY <2>1, CryptUnits
    <3>3. Worked(mc, c.m, {})
      BY CryptWorked
    <3> HIDE DEF c
    <3> QED
      BY <3>1, <3>2, <3>3, WorkedMachine
  <2> HIDE DEF c
  <2>3. ASSUME mc.cipher # None PROVE Typed(w) /\ w.ret = mc.ret
    <3>1. k.dst + d \in Int
      BY <1>1, <2>3
    <3>2. UnitMemory(Write(c.m.mem, k.dst + d, c.out))
      BY <2>2, <3>1, WriteUnits DEF Typed
    <3>3. w.mem = Write(c.m.mem, k.dst + d, c.out) /\ w.iv = c.m.iv /\ w.h = c.m.h /\ w.ret = c.m.ret
      BY <2>2 DEF IsMachine, Fields
    <3> HIDE DEF w
    <3> QED
      BY <2>2, <3>2, <3>3 DEF Typed
  <2> HIDE DEF w
  <2>4. CASE mc.cipher = None
    <3>1. q = c.m
      BY <1>5, <2>4
    <3> HIDE DEF q
    <3> QED
      BY <1>1, <1>2, <1>5, <2>2, <2>4, <3>1
  <2>5. CASE mc.cipher # None /\ can_write
    <3>1. q = w
      BY <1>5, <2>5
    <3> HIDE DEF q
    <3> QED
      BY <1>1, <1>2, <1>5, <2>3, <2>5, <3>1
  <2>6. CASE mc.cipher # None /\ ~can_write
    <3>1. q = Ret(c.m, "EFAULT")
      BY <1>5, <2>6
    <3> HIDE DEF q
    <3> QED
      BY <1>1, <1>2, <1>3, <1>5, <2>2, <2>6, <3>1
  <2> QED
    BY <2>4, <2>5, <2>6
<1> QED
  BY <1>4, <1>5

LEMMA StdKeeps ==
  ASSUME NEW mc, IsMachine(mc), Typed(mc), mc.ret = "0", NEW k, k \in CryptOp,
         mc.cipher # None => k.dst # None
  PROVE  LET r == __crypto_run_std(mc, k)
         IN  Typed(r) /\ (r.ret = "0" <=> Reached(mc, k, k.len))
<1> DEFINE turns == (k.len + PAGE_SIZE - 1) \div PAGE_SIZE
           f == CHOOSE g : Turns(mc, k, turns, g)
           Before(i) == IF i * PAGE_SIZE < k.len THEN i * PAGE_SIZE ELSE k.len
           Good(i) == /\ Worked(mc, f[i], Target(k)) /\ Typed(f[i])
                      /\ f[i].ret = "0" <=> Reached(mc, k, Before(i))
           T == {i \in Nat : i <= turns => Good(i)}
<1>1. k.len \in Nat /\ k.src \in Nat /\ (k.dst # None => k.dst \in Nat)
  BY DEF CryptOp
<1>2. /\ turns \in Nat /\ turns * PAGE_SIZE >= k.len
      /\ \A i \in 1..turns : (i - 1) * PAGE_SIZE < k.len /\ (i - 1) * PAGE_SIZE \in Nat
  BY <1>1, RoundedUp, ZcAssumption
<1>3. Turns(mc, k, turns, f)
  BY <1>2, TurnsExist
<1>4. __crypto_run_std(mc, k) = f[turns]
  BY DEF __crypto_run_std, Turns
<1> HIDE DEF turns, f
<1>5. f[0] = mc /\ \A i \in 1..turns : f[i] = RunChunk(f[i - 1], k, (i - 1) * PAGE_SIZE)
  BY <1>2, <1>3 DEF Turns
<1>6. 0 \in T
  <2>1. Before(0) = 0
    BY <1>1, ZcAssumption
  <2>2. Worked(mc, mc, Target(k))
    BY NothingWorked
  <2>3. Reached(mc, k, 0)
    <3>1. Span(k.src, 0) = {} /\ (k.dst # None => Span(k.dst, 0) = {})
      BY <1>1 DEF Span
    <3> QED
      BY <3>1 DEF Reached, Accessible
  <2> HIDE DEF Before
  <2> QED
    BY <1>5, <2>1, <2>2, <2>3
<1>7. ASSUME NEW i \in T PROVE i + 1 \in T
  <2> SUFFICES ASSUME i + 1 <= turns PROVE Good(i + 1)
    OBVIOUS
  <2> DEFINE d == i * PAGE_SIZE
             p == Piece(k, d)
             can_read == Accessible(mc.perm, k.src + d, p, FALSE)
             can_write == mc.cipher # None => Accessible(mc.perm, k.dst + d, p, TRUE)
  <2>1. i + 1 \in 1..turns /\ (i + 1) - 1 = i /\ i <= turns
    BY <1>2
  <2>2. d \in Nat /\ d < k.len /\ d <= k.len
    BY <1>1, <1>2, <2>1
  <2>3. Before(i) = d /\ Before(i + 1) = d + p /\ p \in Nat
    <3>1. (i + 1) * PAGE_SIZE = d + PAGE_SIZE
      BY ZcAssumption
    <3> QED
      BY <1>1, <2>2, <3>1, ZcAssumption DEF Piece
  <2>4. f[i + 1] = RunChunk(f[i], k, d)
    BY <1>5, <2>1
  <2>5. Good(i)
    BY <2>1
  <2> HIDE DEF Before, d
  <2>6. IsMachine(f[i]) /\ f[i].cipher = mc.cipher /\ f[i].perm = mc.perm
    BY <2>5, WorkedMachine DEF Worked
  <2>7. Worked(mc, f[i + 1], Target(k))
    <3>1. Worked(f[i], f[i + 1], Target(k))
      BY <2>2, <2>4, <2>6, ChunkWorked
    <3> QED
      BY <2>5, <3>1, WorkedTransitive
  <2>8. /\ Typed(f[i + 1])
        /\ f[i].ret = "0" => (f[i + 1].ret = "0" <=> can_read /\ can_write)
        /\ f[i].ret # "0" => f[i + 1].ret # "0"
    <3>1. mc.cipher # None => k.dst # None
      OBVIOUS
    <3> DEFINE r == RunChunk(f[i], k, d)
    <3>2. /\ Typed(r)
          /\ f[i].ret = "0" =>
               (r.ret = "0" <=> /\ Accessible(f[i].perm, k.src + d, p, FALSE)
                                /\ f[i].cipher # None
                                     => Accessible(f[i].perm, k.dst + d, p, TRUE))
          /\ f[i].ret # "0" => r.ret # "0"
      BY <2>2, <2>5, <2>6, <3>1, ChunkKeeps
    <3> HIDE DEF r, p
    <3> QED
      BY <2>4, <2>6, <3>2 DEF r
  <2> HIDE DEF p
  <2>9. Reached(mc, k, d + p) <=> Reached(mc, k, d) /\ can_read /\ can_write
    <3>1. Accessible(mc.perm, k.src, d + p, FALSE)
            <=> Accessible(mc.perm, k.src, d, FALSE) /\ can_read
      BY <1>1, <2>2, <2>3, ReachedPiece, NatIsInt, Zenon
    <3>2. mc.cipher # None =>
            (Accessible(mc.perm, k.dst, d + p, TRUE)
              <=> Accessible(mc.perm, k.dst, d, TRUE)
                    /\ Accessible(mc.perm, k.dst + d, p, TRUE))
      BY <1>1, <2>2, <2>3, ReachedPiece, NatIsInt, Zenon
    <3> QED
      BY <3>1, <3>2 DEF Reached
  <2>10. f[i + 1].ret = "0" <=> Reached(mc, k, Before(i + 1))
    <3> HIDE DEF can_read, can_write
    <3> QED
      BY <2>3, <2>5, <2>8, <2>9
  <2> QED
    BY <2>7, <2>8, <2>10
<1>8. T = Nat
  <2>1. T \subseteq Nat
    OBVIOUS
  <2> HIDE DEF T
  <2> QED
    BY <1>6, <1>7, <2>1, SetInduction
<1>9. Good(turns)
  <2>1. turns \in T
    BY <1>2, <1>8
  <2> HIDE DEF Good
  <2> QED
    BY <1>2, <2>1
<1>10. Before(turns) = k.len
  <2>1. turns * PAGE_SIZE \in Int
    BY <1>2, ZcAssumption
  <2> QED
    BY <1>1, <1>2, <2>1
<1> HIDE DEF Before
<1> QED
  BY <1>4, <1>9, <1>10

LEMMA OnPagesKeeps ==
  ASSUME NEW mc, IsMachine(mc), Typed(mc), NEW k, k \in CryptOp,
         mc.cipher # None => k.dst # None,
         Span(k.src, k.len) \subseteq Addr,
         k.dst # None => Span(k.dst, k.len) \subseteq Addr
  PROVE  Typed(OnPages(mc, k)) /\ OnPages(mc, k).ret = mc.ret
<1> DEFINE dst == IF k.dst = None THEN <<>> ELSE Read(mc.mem, k.dst, k.len)
           s == Read(mc.mem, k.src, k.len)
           q == hash_n_crypt(mc, k.op, s, dst)
           w == [q.m EXCEPT !.mem = Write(@, k.dst, q.out)]
           c == OnPages(mc, k)
<1>1. k.len \in Nat /\ k.src \in Nat /\ (k.dst # None => k.dst \in Nat)
  BY DEF CryptOp
<1>2. c = IF mc.cipher = None THEN q.m ELSE w
  BY Zenon DEF OnPages
<1>3. UnitSeq(s) /\ UnitSeq(dst)
  <2>1. UnitSeq(<<>>)
    BY EmptyFact DEF UnitSeq
  <2>2. UnitSeq(s)
    BY <1>1, ReadUnits DEF Typed
  <2>3. k.dst # None => UnitSeq(Read(mc.mem, k.dst, k.len))
    BY <1>1, ReadUnits DEF Typed
  <2> QED
    BY <2>1, <2>2, <2>3
<1> HIDE DEF c, s, dst
<1>4. q.m.ret = mc.ret /\ Typed(q.m) /\ UnitSeq(q.out) /\ IsMachine(q.m)
  <2>1. q.m.ret = mc.ret
    BY <1>3, CryptFact DEF UnitSeq
  <2>2. Typed(q.m) /\ UnitSeq(q.out)
    BY <1>3, CryptUnits
  <2>3. Worked(mc, q.m, {})
    BY CryptWorked
  <2> HIDE DEF q
  <2> QED
    BY <2>1, <2>2, <2>3, WorkedMachine
<1> HIDE DEF q
<1>5. CASE mc.cipher = None
  BY <1>2, <1>4, <1>5 DEF c
<1>6. CASE mc.cipher # None
  <2>1. UnitMemory(Write(q.m.mem, k.dst, q.out))
    BY <1>1, <1>4, <1>6, WriteUnits DEF Typed
  <2>2. w.mem = Write(q.m.mem, k.dst, q.out) /\ w.iv = q.m.iv /\ w.h = q.m.h /\ w.ret = q.m.ret
    BY <1>4 DEF IsMachine, Fields
  <2>3. c = w
    BY <1>2, <1>6
  <2> HIDE DEF w
  <2> QED
    BY <1>4, <2>1, <2>2, <2>3 DEF Typed, c
<1> QED
  BY <1>5, <1>6

LEMMA SameTyped ==
  ASSUME NEW a, NEW b, Same(a, b)
  PROVE  /\ Typed(a) <=> Typed(b)
         /\ \A k, d : Reached(a, k, d) <=> Reached(b, k, d)
BY DEF Same, Typed, Reached

LEMMA ZcKeeps ==
  ASSUME NEW mc, IsMachine(mc), Balanced(mc), Typed(mc), mc.ret = "0",
         NEW k, k \in CryptOp, mc.cipher # None => k.dst # None
  PROVE  LET r == __crypto_run_zc(mc, k)
         IN  /\ Typed(r) /\ Len(r.pages) >= Len(mc.pages)
             /\ r.ret = "0" <=> Reached(mc, k, k.len)
<1> DEFINE u == get_userbuf(mc, k.src, k.len, k.dst, k.len, k.nomem)
           z == __crypto_run_zc(mc, k)
<1>1. k.len \in Nat /\ k.src \in Nat \cup {None} /\ k.dst \in Nat \cup {None} /\ k.src \in Nat
  BY DEF CryptOp
<1>2. Secured(mc, u)
  BY <1>1, UserbufSecures
<1>3. /\ Len(u.m.pages) >= Len(mc.pages)
      /\ u.ok => Accessible(mc.perm, k.src, k.len, FALSE)
      /\ u.ok /\ k.dst # None => Accessible(mc.perm, k.dst, k.len, TRUE)
  <2>1. k.src # None
    BY <1>1, ZcAssumption
  <2> QED
    BY <1>1, <2>1, UserbufGives
<1>4. z = IF u.ok THEN release_user_pages(OnPages(u.m, k)) ELSE __crypto_run_std(u.m, k)
  BY Zenon DEF __crypto_run_zc
<1> HIDE DEF u
<1>5. IsMachine(u.m) /\ Same(mc, u.m) /\ u.m.cipher = mc.cipher /\ u.m.ret = "0" /\ Typed(u.m)
  BY <1>2, SameTyped DEF Secured, Same
<1>6. CASE u.ok
  <2> DEFINE w == OnPages(u.m, k)
  <2>1. Typed(w) /\ w.ret = u.m.ret
    BY <1>3, <1>5, <1>6, OnPagesKeeps, AccessibleCovers
  <2>2. Worked(u.m, w, Target(k))
    BY <1>5, OnPagesWorked
  <2>3. IsMachine(w) /\ w.pages = u.m.pages
    BY <1>5, <2>2, WorkedMachine DEF Worked
  <2>4. z = release_user_pages(w)
    BY <1>4, <1>6
  <2> HIDE DEF w, z
  <2>5. Same(w, z) /\ z.pages = w.pages
    BY <2>3, <2>4, ReleasedMachine, ReleasedRoom
  <2>6. Typed(z) /\ z.ret = "0"
    BY <1>5, <2>1, <2>5, SameTyped DEF Same
  <2>7. Reached(mc, k, k.len)
    BY <1>3, <1>6 DEF Reached
  <2> QED
    BY <1>3, <2>3, <2>5, <2>6, <2>7 DEF z
<1>7. CASE ~u.ok
  <2>1. z = __crypto_run_std(u.m, k)
    BY <1>4, <1>7
  <2>2. Typed(z) /\ (z.ret = "0" <=> Reached(u.m, k, k.len))
    BY <1>5, <2>1, StdKeeps
  <2>3. z.pages = u.m.pages
    BY <1>5, <2>1, StdWorked DEF Worked
  <2> HIDE DEF z
  <2>4. z.ret = "0" <=> Reached(mc, k, k.len)
    BY <1>5, <2>2, SameTyped
  <2> QED
    BY <1>3, <2>2, <2>3, <2>4 DEF z
<1> QED
  BY <1>6, <1>7

(* A whole CIOCCRYPT succeeds exactly when its length is in blocks and the *)
(* user has allowed the pages it reaches.                                  *)
LEMMA CryptRuns ==
  ASSUME NEW mc, IsMachine(mc), Balanced(mc), Typed(mc), mc.ret = "0",
         NEW k, k \in CryptOp, mc.cipher # None => k.dst # None
  PROVE  LET r == crypto_run(mc, k)
         IN  /\ Typed(r) /\ Len(r.pages) >= Len(mc.pages)
             /\ r.ret = "0" <=> /\ Reached(mc, k, k.len)
                                /\ mc.cipher # None => k.len % mc.blocksize = 0
<1> DEFINE m1 == IF mc.hash /\ Resets(k) THEN [mc EXCEPT !.h = 0] ELSE mc
           m2 == SetIv(m1, k)
           m3 == CryptOrHash(m2, k)
           Final(mr) == IF mr.ret = "0" /\ mc.hash /\ Finals(k)
                        THEN [mr EXCEPT !.digest = Digest(mr.h)] ELSE mr
           c == crypto_run(mc, k)
<1>1. Worked(mc, m1, {}) /\ Typed(m1) /\ m1.ret = "0"
  <2>1. 0 \in Hashed
    BY DEF Hashed, V
  <2> QED
    BY <2>1 DEF Worked, IsMachine, Fields, Typed
<1>2. c = IF mc.cipher # None /\ k.len % mc.blocksize # 0
          THEN Ret(m1, "EINVAL") ELSE Final(m3)
  BY Zenon DEF crypto_run
<1> HIDE DEF m1, c
<1>3. IsMachine(m1) /\ Balanced(m1)
  BY <1>1, WorkedMachine
<1>4. Worked(mc, m2, {}) /\ IsMachine(m2) /\ Balanced(m2)
  BY <1>1, <1>3, SetIvWorked, WorkedTransitive, WorkedMachine
<1>5. Typed(m2) /\ m2.ret = "0"
  <2>1. k.iv # None => k.iv \in Units
    BY DEF CryptOp, Units
  <2> QED
    BY <1>1, <1>3, <2>1 DEF SetIv, IsMachine, Fields, Typed
<1> HIDE DEF m2
<1>6. /\ m2.cipher = mc.cipher /\ m2.pages = mc.pages
      /\ Reached(m2, k, k.len) <=> Reached(mc, k, k.len)
  BY <1>4 DEF Worked, Reached
<1>7. Len(mc.pages) \in Nat
  BY SeqFact DEF IsMachine
<1>8. /\ Typed(m3) /\ IsMachine(m3) /\ Len(m3.pages) >= Len(mc.pages)
      /\ m3.ret = "0" <=> Reached(mc, k, k.len)
  <2>1. CASE k.len = 0
    <3>1. m3 = m2
      BY <2>1 DEF CryptOrHash
    <3>2. Reached(mc, k, k.len)
      <4>1. Span(k.src, 0) = {} /\ (k.dst # None => Span(k.dst, 0) = {})
        BY DEF Span, CryptOp
      <4> QED
        BY <2>1, <4>1 DEF Reached, Accessible
    <3> QED
      BY <1>4, <1>5, <1>6, <1>7, <3>1, <3>2
  <2>2. CASE k.len # 0 /\ "NO_ZC" \in k.flags
    <3>1. m3 = __crypto_run_std(m2, k)
      BY <2>2 DEF CryptOrHash
    <3> HIDE DEF m3
    <3>2. Worked(m2, m3, Target(k))
      BY <1>4, <3>1, StdWorked
    <3>3. Typed(m3) /\ (m3.ret = "0" <=> Reached(m2, k, k.len))
      BY <1>4, <1>5, <1>6, <3>1, StdKeeps
    <3>4. IsMachine(m3) /\ m3.pages = m2.pages
      BY <1>4, <3>2, WorkedMachine DEF Worked
    <3> QED
      BY <1>6, <1>7, <3>3, <3>4
  <2>3. CASE k.len # 0 /\ "NO_ZC" \notin k.flags
    <3>1. m3 = __crypto_run_zc(m2, k)
      BY <2>3 DEF CryptOrHash
    <3> HIDE DEF m3
    <3>2. Settled(m2, m3, Target(k))
      BY <1>4, <3>1, ZcSettled
    <3>3. /\ Typed(m3) /\ Len(m3.pages) >= Len(m2.pages)
          /\ m3.ret = "0" <=> Reached(m2, k, k.len)
      BY <1>4, <1>5, <1>6, <3>1, ZcKeeps
    <3>4. IsMachine(m3)
      BY <3>2 DEF Settled
    <3> QED
      BY <1>6, <3>3, <3>4
  <2> QED
    BY <2>1, <2>2, <2>3
<1> HIDE DEF m3
<1>9. /\ Typed(Final(m3)) /\ Final(m3).pages = m3.pages /\ Final(m3).ret = m3.ret
  BY <1>8 DEF Typed, IsMachine, Fields
<1>10. /\ Typed(Ret(m1, "EINVAL")) /\ Ret(m1, "EINVAL").pages = mc.pages
       /\ Ret(m1, "EINVAL").ret = "EINVAL"
  <2>1. m1.pages = mc.pages
    BY <1>1 DEF Worked
  <2> QED
    BY <1>1, <1>3, <2>1 DEF Typed, IsMachine, Fields, Ret
<1> HIDE DEF Final
<1>11. CASE mc.cipher # None /\ k.len % mc.blocksize # 0
  <2>1. c = Ret(m1, "EINVAL")
    BY <1>2, <1>11
  <2> QED
    BY <1>7, <1>10, <1>11, <2>1 DEF c
<1>12. CASE ~(mc.cipher # None /\ k.len % mc.blocksize # 0)
  <2>1. c = Final(m3)
    BY <1>2, <1>12
  <2> QED
    BY <1>8, <1>9, <1>12, <2>1 DEF c
<1> QED
  BY <1>11, <1>12

(* The machine a call starts from.                                         *)
Fresh(mc) == [mc EXCEPT !.ret = "0", !.digest = <<>>, !.len = 0]

LEMMA FreshFact ==
  ASSUME NEW mc, IsMachine(mc)
  PROVE  LET r == Fresh(mc)
         IN  /\ IsMachine(r) /\ r.ret = "0" /\ r.pages = mc.pages
             /\ Balanced(mc) => Balanced(r)
             /\ Typed(mc) => Typed(r)
             /\ r.cipher = mc.cipher /\ r.blocksize = mc.blocksize /\ r.hash = mc.hash
             /\ r.iv = mc.iv /\ r.authsize = mc.authsize /\ r.mem = mc.mem /\ r.perm = mc.perm
             /\ Worked(mc, r, {})
BY DEF Fresh, IsMachine, Fields, Balanced, Typed, Worked

LEMMA CryptResult ==
  ASSUME NEW mc, IsMachine(mc), Balanced(mc), Typed(mc),
         NEW k, k \in CryptOp, mc.cipher # None => k.dst # None
  PROVE  LET r == Result(mc, k)
         IN  /\ Typed(r) /\ Len(r.pages) >= Len(mc.pages)
             /\ r.ret = "0" <=> /\ Reached(mc, k, k.len)
                                /\ mc.cipher # None => k.len % mc.blocksize = 0
<1> DEFINE f == Fresh(mc)
           r == Result(mc, k)
<1>1. r = crypto_run(f, k)
  <2>1. k.mode = "CRYPT"
    BY DEF CryptOp
  <2> QED
    BY <2>1, Zenon DEF Result, Fresh
<1>2. /\ IsMachine(f) /\ f.ret = "0" /\ f.pages = mc.pages /\ Balanced(f) /\ Typed(f)
      /\ f.cipher = mc.cipher /\ f.blocksize = mc.blocksize /\ f.perm = mc.perm
  BY FreshFact
<1> HIDE DEF f, r
<1>3. /\ Typed(r) /\ Len(r.pages) >= Len(f.pages)
      /\ r.ret = "0" <=> /\ Reached(f, k, k.len)
                         /\ f.cipher # None => k.len % f.blocksize = 0
  BY <1>1, <1>2, CryptRuns
<1>4. Reached(f, k, k.len) <=> Reached(mc, k, k.len)
  BY <1>2 DEF Reached
<1> QED
  BY <1>2, <1>3, <1>4 DEF r

(* The call that undoes a CIOCCRYPT.                                       *)
CryptUndo(mc, k) ==
  [k EXCEPT !.op = "DECRYPT", !.src = k.dst, !.iv = IF k.iv = None THEN mc.iv ELSE k.iv]

LEMMA CryptUndone ==
  ASSUME NEW mc, IsMachine(mc), Balanced(mc), mc.blocksize \in Nat \ {0},
         mc.authsize \in 1..DIGESTSIZE, Typed(mc),
         NEW k, k \in CryptOp, Apart(k), k.op = "ENCRYPT", mc.cipher # None, k.dst # None,
         Result(mc, k).ret = "0"
  PROVE  LET q == Result(Result(mc, k), CryptUndo(mc, k))
         IN  q.ret = "0" /\ Read(q.mem, k.dst, k.len) = Read(mc.mem, k.src, k.len)
<1> DEFINE r == Result(mc, k)
           u == CryptUndo(mc, k)
           q == Result(r, u)
           iv == IF k.iv = None THEN mc.iv ELSE k.iv
           data == Read(mc.mem, k.src, k.len)
           c == Encrypt(iv, data)
<1>1. Settled(mc, r, Target(k))
  BY ResultSettled DEF Fitted
<1>2. /\ Typed(r) /\ Reached(mc, k, k.len) /\ k.len % mc.blocksize = 0
  BY CryptResult
<1>3. WholeBuffer(mc, r, k)
  BY ResultCrypted
<1> HIDE DEF r
<1>4. /\ IsMachine(r) /\ Balanced(r) /\ r.cipher = mc.cipher
      /\ r.blocksize = mc.blocksize /\ r.perm = mc.perm
  BY <1>1 DEF Settled
<1>5. /\ k.len \in Nat /\ k.src \in Nat /\ k.dst \in Nat
      /\ iv \in Units /\ iv \in Int /\ iv # None
  <2>1. iv \in Units
    BY DEF CryptOp, Typed, Units
  <2>2. iv \in Int
    BY <2>1 DEF Units, V
  <2> QED
    BY <2>1, <2>2, ZcAssumption DEF CryptOp
<1>6. /\ u \in CryptOp /\ u.src = k.dst /\ u.dst = k.dst /\ u.len = k.len
      /\ u.op = "DECRYPT" /\ u.iv = iv
  BY <1>5 DEF CryptUndo, CryptOp, Units
<1> HIDE DEF u, iv
<1>7. Reached(r, u, u.len)
  BY <1>2, <1>4, <1>6, AccessibleToRead DEF Reached
<1>8. q.ret = "0"
  BY <1>2, <1>4, <1>6, <1>7, CryptResult
<1>9. WholeBuffer(r, q, u)
  <2>1. Apart(u) /\ u.dst # None
    BY <1>6 DEF Apart
  <2> QED
    BY <1>4, <1>6, <1>8, <2>1, ResultCrypted
<1> HIDE DEF q
<1>10. Span(k.src, k.len) \subseteq Addr /\ Span(k.dst, k.len) \subseteq Addr
  BY <1>2, AccessibleCovers DEF Reached
<1>11. UnitSeq(data) /\ Len(data) = k.len
  BY <1>5, <1>10, ReadUnits DEF Typed
<1> HIDE DEF data
<1>12. IsSeq(c) /\ Len(c) = k.len /\ Decrypt(iv, c) = data
  <2>1. UnitSeq(c) /\ Len(c) = k.len
    BY <1>5, <1>11, UnitsAreInts, EncryptUnits
  <2> QED
    BY <1>5, <1>11, <2>1, DecryptEncrypt DEF UnitSeq
<1>13. r.mem = Write(mc.mem, k.dst, c)
  BY <1>3 DEF WholeBuffer, iv, data
<1> HIDE DEF c
<1>14. Read(r.mem, k.dst, k.len) = c
  BY <1>5, <1>10, <1>12, <1>13, ReadWritten DEF IsMachine
<1>15. q.mem = Write(r.mem, k.dst, data)
  <2>1. u.iv # None /\ u.op # "ENCRYPT"
    BY <1>5, <1>6
  <2> QED
    BY <1>6, <1>9, <1>12, <1>14, <2>1 DEF WholeBuffer
<1>16. Read(q.mem, k.dst, k.len) = data
  BY <1>4, <1>5, <1>10, <1>11, <1>15, ReadWritten DEF IsMachine, UnitSeq
<1> QED
  BY <1>8, <1>16 DEF q, data, u, r

-----------------------------------------------------------------------------
(* CIOCAUTHCRYPT: what it needs of the user's pages, and what it does.     *)

LEMMA TlsPagesGiven ==
  ASSUME NEW mc, IsMachine(mc), NEW k, k.dst \in Nat, k.dst_len \in Nat
  PROVE  LET u == TlsPages(mc, k)
         IN  /\ Len(u.m.pages) >= Len(mc.pages)
             /\ u.ok => /\ k.dst_len # 0 /\ Accessible(mc.perm, k.dst, k.dst_len, TRUE)
                        /\ PAGECOUNT(k.dst, k.dst_len) <= Len(u.m.pages)
             /\ k.dst_len # 0 /\ Accessible(mc.perm, k.dst, k.dst_len, TRUE)
                /\ PAGECOUNT(k.dst, k.dst_len) <= Len(mc.pages) => u.ok
<1> DEFINE n == PAGECOUNT(k.dst, k.dst_len)
           m1 == [mc EXCEPT !.used_pages = n]
           r == adjust_sg_array(m1, n)
           p == Pin(r, k.dst, TRUE, n, 0)
           u == TlsPages(mc, k)
           acc == Accessible(mc.perm, k.dst, k.dst_len, TRUE)
<1>1. n \in Nat /\ Len(mc.pages) \in Nat
  BY PageFact, SeqFact DEF IsMachine
<1> HIDE DEF n
<1>2. IsMachine(m1) /\ Same(mc, m1) /\ m1.pages = mc.pages
  BY <1>1, UsedPages
<1> HIDE DEF m1
<1>3. IsMachine(r) /\ Same(m1, r) /\ Len(r.pages) >= n /\ Len(r.pages) >= Len(m1.pages)
  BY <1>1, <1>2, AdjustFact
<1> HIDE DEF r
<1>4. Len(r.pages) \in Nat /\ r.perm = mc.perm
  BY <1>2, <1>3, SeqFact DEF IsMachine, Same
<1>5. RoomKept(r, p.m)
  <2>1. (k.dst \in Int \/ n = 0) /\ 0 + n <= Len(r.pages) /\ 0 \in Nat
    BY <1>1, <1>3, <1>4
  <2> QED
    BY <1>1, <1>3, <2>1, PinRoom
<1>6. p.ok => acc
  <2>1. PAGECOUNT(k.dst, k.dst_len) <= n
    BY <1>1 DEF n
  <2> QED
    BY <1>1, <1>4, <2>1, PinReaches
<1>7. acc => p.ok
  <2>1. Accessible(r.perm, k.dst, k.dst_len, TRUE)
        => Pin(r, k.dst, TRUE, PAGECOUNT(k.dst, k.dst_len), 0).ok
    BY PinGets
  <2> QED
    BY <1>4, <2>1 DEF n
<1> HIDE DEF p, acc
<1>8. u = IF k.dst_len = 0 THEN [ok |-> FALSE, m |-> mc]
          ELSE IF k.nomem /\ n > Len(mc.pages) THEN [ok |-> FALSE, m |-> m1] ELSE p
  BY <1>2 DEF TlsPages, p, r, m1, n
<1> HIDE DEF u
<1>9. Len(p.m.pages) = Len(r.pages)
  BY <1>5 DEF RoomKept
<1>10. /\ Len(u.m.pages) >= Len(mc.pages)
       /\ u.ok => k.dst_len # 0 /\ acc
                  /\ n <= Len(u.m.pages)
       /\ k.dst_len # 0 /\ acc /\ n <= Len(mc.pages)
          => u.ok
  <2>1. CASE k.dst_len = 0
    BY <1>1, <1>8, <2>1
  <2>2. CASE k.dst_len # 0 /\ k.nomem /\ n > Len(mc.pages)
    <3>1. u = [ok |-> FALSE, m |-> m1]
      BY <1>8, <2>2
    <3>2. ~u.ok /\ u.m = m1
      BY <3>1
    <3>3. n > Len(mc.pages)
      BY <2>2
    <3> QED
      BY <1>1, <1>2, <3>2, <3>3
  <2>3. CASE k.dst_len # 0 /\ ~(k.nomem /\ n > Len(mc.pages))
    BY <1>1, <1>2, <1>3, <1>4, <1>6, <1>7, <1>8, <1>9, <2>3
  <2> QED
    BY <2>1, <2>2, <2>3
<1> QED
  BY <1>10 DEF n, u, acc

LEMMA SrtpPagesGiven ==
  ASSUME NEW mc, IsMachine(mc), NEW k, k.auth_src \in Nat, k.auth_len \in Nat
  PROVE  LET u == SrtpPages(mc, k)
             n == PAGECOUNT(k.auth_src, k.auth_len)
         IN  /\ Len(u.m.pages) >= Len(mc.pages)
             /\ u.ok => /\ k.dst_len # 0 /\ k.auth_len # 0 /\ ~(k.src < k.auth_src)
                        /\ Accessible(mc.perm, k.auth_src, k.auth_len, TRUE)
                        /\ 2 * n <= Len(u.m.pages)
             /\ k.dst_len # 0 /\ k.auth_len # 0 /\ ~(k.src < k.auth_src)
                /\ Accessible(mc.perm, k.auth_src, k.auth_len, TRUE)
                /\ 2 * n <= Len(mc.pages) => u.ok
<1> DEFINE n == PAGECOUNT(k.auth_src, k.auth_len)
           r == adjust_sg_array(mc, 2 * n)
           p == Pin(r, k.auth_src, TRUE, n, 0)
           w == [p EXCEPT !.m.used_pages = n]
           u == SrtpPages(mc, k)
           acc == Accessible(mc.perm, k.auth_src, k.auth_len, TRUE)
<1>1. n \in Nat /\ 2 * n \in Nat /\ n <= 2 * n /\ Len(mc.pages) \in Nat
  <2>1. n \in Nat /\ Len(mc.pages) \in Nat
    BY PageFact, SeqFact DEF IsMachine
  <2> HIDE DEF n
  <2> QED
    BY <2>1
<1>3. IsMachine(r) /\ Same(mc, r) /\ Len(r.pages) >= 2 * n /\ Len(r.pages) >= Len(mc.pages)
  <2> HIDE DEF n
  <2> QED
    BY <1>1, AdjustFact
<1> HIDE DEF r, n
<1>4. Len(r.pages) \in Nat /\ r.perm = mc.perm /\ n <= Len(r.pages)
  BY <1>1, <1>3, SeqFact DEF IsMachine, Same
<1>5. RoomKept(r, p.m)
  <2>1. (k.auth_src \in Int \/ n = 0) /\ 0 + n <= Len(r.pages) /\ 0 \in Nat
    BY <1>1, <1>3, <1>4
  <2> QED
    BY <1>1, <1>3, <2>1, PinRoom
<1>6. p.ok => acc
  <2>1. PAGECOUNT(k.auth_src, k.auth_len) <= n
    BY <1>1 DEF n
  <2> QED
    BY <1>1, <1>4, <2>1, PinReaches
<1>7. acc => p.ok
  <2>1. Accessible(r.perm, k.auth_src, k.auth_len, TRUE)
        => Pin(r, k.auth_src, TRUE, PAGECOUNT(k.auth_src, k.auth_len), 0).ok
    BY PinGets
  <2> QED
    BY <1>4, <2>1 DEF n
<1>8. p = [ok |-> p.ok, m |-> p.m]
  <2>1. \E a, b : p = [ok |-> a, m |-> b]
    BY DEF Pin
  <2> HIDE DEF p
  <2> QED
    BY <2>1
<1> HIDE DEF p
<1>9. w.ok = p.ok /\ w.m.pages = p.m.pages
  <2>1. w = [ok |-> p.ok, m |-> [p.m EXCEPT !.used_pages = n]]
    BY <1>8
  <2>2. "pages" \in DOMAIN p.m
    BY <1>5 DEF RoomKept, IsMachine, Fields
  <2> HIDE DEF w
  <2> QED
    BY <2>1, <2>2
<1> HIDE DEF w, acc
<1>10. u = IF \/ k.dst_len = 0 \/ k.auth_len = 0 \/ k.src < k.auth_src
              \/ k.nomem /\ 2 * n > Len(mc.pages)
           THEN [ok |-> FALSE, m |-> mc] ELSE IF p.ok THEN w ELSE p
  BY Zenon DEF SrtpPages, p, r, w, n
<1> HIDE DEF u
<1>11. Len(p.m.pages) = Len(r.pages)
  BY <1>5 DEF RoomKept
<1>12. /\ Len(u.m.pages) >= Len(mc.pages)
       /\ u.ok => /\ k.dst_len # 0 /\ k.auth_len # 0 /\ ~(k.src < k.auth_src) /\ acc
                  /\ 2 * n <= Len(u.m.pages)
       /\ k.dst_len # 0 /\ k.auth_len # 0 /\ ~(k.src < k.auth_src) /\ acc
          /\ 2 * n <= Len(mc.pages) => u.ok
  <2>1. CASE k.dst_len = 0 \/ k.auth_len = 0 \/ k.src < k.auth_src
    BY <1>1, <1>10, <2>1
  <2>2. CASE /\ ~(k.dst_len = 0 \/ k.auth_len = 0 \/ k.src < k.auth_src)
             /\ k.nomem /\ 2 * n > Len(mc.pages)
    BY <1>1, <1>10, <2>2
  <2>3. CASE /\ ~(k.dst_len = 0 \/ k.auth_len = 0 \/ k.src < k.auth_src)
             /\ ~(k.nomem /\ 2 * n > Len(mc.pages))
    <3>1. u = IF p.ok THEN w ELSE p
      BY <1>10, <2>3
    <3>2. u.ok = p.ok /\ Len(u.m.pages) = Len(r.pages)
      BY <1>9, <1>11, <3>1
    <3> QED
      BY <1>1, <1>3, <1>4, <1>6, <1>7, <2>3, <3>2
  <2> QED
    BY <2>1, <2>2, <2>3
<1> QED
  BY <1>12 DEF n, u, acc

LEMMA ReleasedSame ==
  ASSUME NEW mc, NEW u, Secured(mc, u), u.ok, NEW w, NEW S, Worked(u.m, w, S)
  PROVE  /\ Same(w, release_user_pages(w)) /\ release_user_pages(w).pages = u.m.pages
         /\ DOMAIN w = Fields
<1>1. IsMachine(u.m) /\ Releasable(u.m)
  BY DEF Secured
<1>2. IsMachine(w) /\ Releasable(w) /\ w.pages = u.m.pages
  <2>1. w.pages = u.m.pages
    BY DEF Worked
  <2> QED
    BY <1>1, <2>1, WorkedMachine
<1>3. Same(w, release_user_pages(w))
  BY <1>2, ReleaseFact
<1>4. release_user_pages(w).pages = w.pages
  BY ReleasedRoom
<1>5. DOMAIN w = Fields
  BY <1>2 DEF IsMachine
<1> QED
  BY <1>2, <1>3, <1>4, <1>5

(* What a function hands back is written, and noted.                       *)
Handed(mc, r, k, o) ==
  /\ r.mem = Write(mc.mem, k.dst, o.data)
  /\ r.iv = o.iv /\ r.h = mc.h /\ r.ret = o.ret /\ r.len = o.len

(* An error leaves the data alone.                                         *)
Refused(mc, r) == r.mem = mc.mem /\ r.iv = mc.iv /\ r.h = mc.h /\ r.ret # "0"

LEMMA RefusedTyped ==
  ASSUME NEW mc, NEW r, Refused(mc, r)
  PROVE  Typed(mc) => Typed(r)
BY DEF Refused, Typed

LEMMA HandedTyped ==
  ASSUME NEW mc, Typed(mc), NEW r, NEW k, k.dst \in Int, NEW o, Handed(mc, r, k, o),
         UnitSeq(o.data), o.iv \in Units
  PROVE  Typed(r)
BY WriteUnits DEF Handed, Typed

LEMMA RetRefused ==
  ASSUME NEW mc, IsMachine(mc), NEW r, IsMachine(r), Same(mc, r), NEW e, e # "0"
  PROVE  Refused(mc, Ret(r, e)) /\ Ret(r, e).pages = r.pages
BY DEF Refused, Ret, IsMachine, Fields, Same

TlsOut(mc, k) ==
  LET auth == Read(mc.mem, k.auth_src, k.auth_len)
      data == Read(mc.mem, k.dst, k.len)
  IN  IF k.op = "ENCRYPT" THEN TlsEncrypt(mc, k, auth, data)
                          ELSE TlsDecrypt(mc, k, auth, data)

AuthReady(mc, k) ==
  k.auth_len <= PAGE_SIZE /\ Accessible(mc.perm, k.auth_src, k.auth_len, FALSE)

TlsReady(mc, k) ==
  AuthReady(mc, k) /\ k.dst_len # 0 /\ Accessible(mc.perm, k.dst, k.dst_len, TRUE)

LEMMA TlsOutSame ==
  ASSUME NEW mc, NEW r, NEW k, r.mem = mc.mem, r.iv = mc.iv, r.hash = mc.hash,
         r.blocksize = mc.blocksize
  PROVE  TlsOut(r, k) = TlsOut(mc, k)
BY Zenon DEF TlsOut, TlsEncrypt, TlsDecrypt

(* crypto_auth_zc_tls refuses and leaves the data alone, or hands back what *)
(* the record becomes; with room for its pages only the user can refuse it. *)
LEMMA TlsRuns ==
  ASSUME NEW mc, IsMachine(mc), Balanced(mc), mc.blocksize \in Nat \ {0},
         NEW k, k \in AuthOp, k.mode = "TLS", Sized(mc, k)
  PROVE  LET r == crypto_auth_zc_tls(mc, k)
             n == PAGECOUNT(k.dst, k.dst_len)
         IN  /\ Len(r.pages) >= Len(mc.pages)
             /\ \/ Refused(mc, r)
                \/ TlsReady(mc, k) /\ Handed(mc, r, k, TlsOut(mc, k)) /\ n <= Len(r.pages)
             /\ TlsReady(mc, k) /\ n <= Len(mc.pages) => Handed(mc, r, k, TlsOut(mc, k))
<1> DEFINE auth == Read(mc.mem, k.auth_src, k.auth_len)
           data == Read(mc.mem, k.dst, k.len)
           u == TlsPages(mc, k)
           n == PAGECOUNT(k.dst, k.dst_len)
           acc == Accessible(mc.perm, k.dst, k.dst_len, TRUE)
           read == Accessible(mc.perm, k.auth_src, k.auth_len, FALSE)
           o == IF k.op = "ENCRYPT" THEN TlsEncrypt(mc, k, auth, data)
                                    ELSE TlsDecrypt(mc, k, auth, data)
           w == [u.m EXCEPT !.mem = Write(@, k.dst, o.data), !.iv = o.iv,
                            !.len = o.len, !.ret = o.ret]
           r == crypto_auth_zc_tls(mc, k)
<1>1. k.dst \in Nat /\ k.dst_len \in Nat
  BY DEF AuthOp
<1>2. r = IF k.auth_len > PAGE_SIZE THEN Ret(mc, "EINVAL")
          ELSE IF ~read THEN Ret(mc, "EFAULT")
          ELSE IF ~u.ok THEN Ret(u.m, "EINVAL")
          ELSE release_user_pages(w)
  BY Zenon DEF crypto_auth_zc_tls
<1>3. o = TlsOut(mc, k)
  BY Zenon DEF TlsOut
<1>4. Secured(mc, u) /\ IsMachine(u.m) /\ Same(mc, u.m)
  <2>1. Secured(mc, u)
    BY <1>1, TlsSecures
  <2> QED
    BY <2>1 DEF Secured
<1>5. /\ Len(u.m.pages) >= Len(mc.pages)
      /\ u.ok => k.dst_len # 0 /\ acc /\ n <= Len(u.m.pages)
      /\ k.dst_len # 0 /\ acc /\ n <= Len(mc.pages) => u.ok
  BY <1>1, TlsPagesGiven
<1>6. TlsReady(mc, k) <=> ~(k.auth_len > PAGE_SIZE) /\ read /\ k.dst_len # 0 /\ acc
  <2>1. k.auth_len \in Nat /\ PAGE_SIZE \in Nat
    BY ZcAssumption DEF AuthOp
  <2>2. k.auth_len <= PAGE_SIZE <=> ~(k.auth_len > PAGE_SIZE)
    BY <2>1
  <2> QED
    BY <2>2, Zenon DEF TlsReady, AuthReady
<1>7. Len(mc.pages) \in Nat
  BY SeqFact DEF IsMachine
<1> HIDE DEF u, r, o, auth, data, acc, read, n
<1>8. Worked(u.m, w, Addr)
  <2>1. Worked(u.m, w, Span(k.dst, Len(o.data)))
    BY <1>4, OutWorked
  <2>2. \A a \in Addr \ Addr : w.mem[a] = u.m.mem[a]
    OBVIOUS
  <2> HIDE DEF w
  <2> QED
    BY <2>1, <2>2 DEF Worked
<1>9. /\ w.mem = Write(mc.mem, k.dst, o.data) /\ w.iv = o.iv /\ w.h = mc.h
      /\ w.ret = o.ret /\ w.len = o.len
  BY <1>4 DEF IsMachine, Fields, Same
<1> HIDE DEF w
<1>10. ASSUME u.ok PROVE Handed(mc, release_user_pages(w), k, o)
                         /\ release_user_pages(w).pages = u.m.pages
  <2>1. Same(w, release_user_pages(w)) /\ release_user_pages(w).pages = u.m.pages
    BY <1>4, <1>8, <1>10, ReleasedSame
  <2> QED
    BY <1>9, <2>1 DEF Handed, Same
<1>11. /\ \A e : e # "0" => Refused(mc, Ret(mc, e)) /\ Ret(mc, e).pages = mc.pages
       /\ \A e : e # "0" => Refused(mc, Ret(u.m, e)) /\ Ret(u.m, e).pages = u.m.pages
  <2>1. Same(mc, mc)
    BY DEF Same
  <2> QED
    BY <1>4, <2>1, RetRefused
<1>12. CASE k.auth_len > PAGE_SIZE \/ ~read
  <2>1. Refused(mc, r) /\ r.pages = mc.pages
    BY <1>2, <1>11, <1>12
  <2>2. ~TlsReady(mc, k)
    BY <1>6, <1>12
  <2> QED
    BY <1>7, <2>1, <2>2 DEF r, n
<1>13. CASE ~(k.auth_len > PAGE_SIZE) /\ read /\ ~u.ok
  <2>1. Refused(mc, r) /\ r.pages = u.m.pages
    BY <1>2, <1>11, <1>13
  <2>2. ~(TlsReady(mc, k) /\ n <= Len(mc.pages))
    BY <1>5, <1>6, <1>13
  <2> QED
    BY <1>5, <2>1, <2>2 DEF r, n
<1>14. CASE ~(k.auth_len > PAGE_SIZE) /\ read /\ u.ok
  <2>1. Handed(mc, r, k, o) /\ r.pages = u.m.pages
    BY <1>2, <1>10, <1>14
  <2>2. TlsReady(mc, k) /\ n <= Len(r.pages)
    BY <1>5, <1>6, <1>14, <2>1
  <2> QED
    BY <1>3, <1>5, <2>1, <2>2 DEF r, n
<1> QED
  BY <1>12, <1>13, <1>14

SrtpOut(mc, k) ==
  IF k.op = "ENCRYPT" THEN SrtpEncrypt(mc, k)
  ELSE SrtpDecrypt(mc, k, Read(mc.mem, k.auth_src, k.auth_len))

SrtpReady(mc, k) ==
  /\ mc.cipher = "stream" /\ k.dst_len # 0 /\ k.auth_len # 0 /\ ~(k.src < k.auth_src)
  /\ Accessible(mc.perm, k.auth_src, k.auth_len, TRUE)

(* The tag comes after the data, and authenticates it.                     *)
Tagged(mc, k) == k.op = "ENCRYPT" /\ mc.hash /\ SrtpOut(mc, k).ret = "0"

TagOf(mem, k) == SubSeq(Digest(Hash(0, Read(mem, k.auth_src, k.auth_len))), 1, k.tag_len)

SrtpMem(mc, k) ==
  LET mem == Write(mc.mem, k.dst, SrtpOut(mc, k).data)
  IN  IF Tagged(mc, k) THEN Write(mem, k.tag, TagOf(mem, k)) ELSE mem

SrtpHanded(mc, r, k) ==
  LET o == SrtpOut(mc, k)
  IN  /\ r.mem = SrtpMem(mc, k) /\ r.iv = o.iv /\ r.h = mc.h /\ r.ret = o.ret
      /\ r.len = IF o.ret = "0" THEN o.len ELSE k.dst_len

(* crypto_auth_zc_srtp, the same; its buffer and its tag are pinned apart. *)
LEMMA SrtpRuns ==
  ASSUME NEW mc, IsMachine(mc), Balanced(mc),
         NEW k, k \in AuthOp, k.mode = "SRTP", Sized(mc, k)
  PROVE  LET r == crypto_auth_zc_srtp(mc, k)
             n == PAGECOUNT(k.auth_src, k.auth_len)
         IN  /\ Len(r.pages) >= Len(mc.pages)
             /\ \/ Refused(mc, r)
                \/ SrtpReady(mc, k) /\ SrtpHanded(mc, r, k) /\ 2 * n <= Len(r.pages)
             /\ SrtpReady(mc, k) /\ 2 * n <= Len(mc.pages) => SrtpHanded(mc, r, k)
<1> DEFINE auth == Read(mc.mem, k.auth_src, k.auth_len)
           u == SrtpPages(mc, k)
           n == PAGECOUNT(k.auth_src, k.auth_len)
           acc == Accessible(mc.perm, k.auth_src, k.auth_len, TRUE)
           o == IF k.op = "ENCRYPT" THEN SrtpEncrypt(mc, k) ELSE SrtpDecrypt(mc, k, auth)
           len == IF o.ret = "0" THEN o.len ELSE k.dst_len
           w == [u.m EXCEPT !.mem = Write(@, k.dst, o.data), !.iv = o.iv,
                            !.ret = o.ret, !.len = len]
           s == SrtpTag(w, k)
           v == [w EXCEPT !.mem = Write(@, k.tag, s)]
           t == IF k.op = "ENCRYPT" /\ mc.hash /\ o.ret = "0" THEN v ELSE w
           r == crypto_auth_zc_srtp(mc, k)
<1>1. k.auth_src \in Nat /\ k.auth_len \in Nat
  BY DEF AuthOp
<1>2. r = IF mc.cipher # "stream" THEN Ret(mc, "EINVAL")
          ELSE IF ~u.ok THEN Ret(u.m, "EINVAL")
          ELSE release_user_pages(t)
  BY Zenon DEF crypto_auth_zc_srtp
<1>3. o = SrtpOut(mc, k)
  BY Zenon DEF SrtpOut
<1>4. Secured(mc, u) /\ IsMachine(u.m) /\ Same(mc, u.m)
  <2>1. Secured(mc, u)
    BY <1>1, SrtpSecures
  <2> QED
    BY <2>1 DEF Secured
<1>5. /\ Len(u.m.pages) >= Len(mc.pages)
      /\ u.ok => /\ k.dst_len # 0 /\ k.auth_len # 0 /\ ~(k.src < k.auth_src) /\ acc
                 /\ 2 * n <= Len(u.m.pages)
      /\ k.dst_len # 0 /\ k.auth_len # 0 /\ ~(k.src < k.auth_src) /\ acc
         /\ 2 * n <= Len(mc.pages) => u.ok
  BY <1>1, SrtpPagesGiven
<1>6. SrtpReady(mc, k) <=> /\ mc.cipher = "stream" /\ k.dst_len # 0 /\ k.auth_len # 0
                           /\ ~(k.src < k.auth_src) /\ acc
  BY Zenon DEF SrtpReady
<1>7. Len(mc.pages) \in Nat
  BY SeqFact DEF IsMachine
<1> HIDE DEF u, r, o, auth, acc, n, len
<1>8. Worked(u.m, w, Addr)
  <2>1. Worked(u.m, w, Span(k.dst, Len(o.data)))
    BY <1>4, OutWorked
  <2>2. \A a \in Addr \ Addr : w.mem[a] = u.m.mem[a]
    OBVIOUS
  <2> HIDE DEF w
  <2> QED
    BY <2>1, <2>2 DEF Worked
<1>9. /\ w.mem = Write(mc.mem, k.dst, o.data) /\ w.iv = o.iv /\ w.h = mc.h
      /\ w.ret = o.ret /\ w.len = len /\ DOMAIN w = Fields
  BY <1>4 DEF IsMachine, Fields, Same
<1> HIDE DEF w
<1>10. Worked(u.m, v, Addr)
  <2>1. Span(k.tag, Len(s)) \cap Addr \subseteq Addr
    OBVIOUS
  <2> HIDE DEF s
  <2> QED
    BY <1>4, <1>8, <2>1, WrittenWorked
<1>11. s = TagOf(w.mem, k)
  BY Zenon DEF SrtpTag, TagOf
<1>12. /\ v.mem = Write(w.mem, k.tag, s) /\ v.iv = w.iv /\ v.h = w.h /\ v.ret = w.ret
       /\ v.len = w.len
  <2> HIDE DEF s
  <2> QED
    BY <1>9 DEF Fields
<1> HIDE DEF v, s
<1>13. /\ t.mem = SrtpMem(mc, k) /\ t.iv = o.iv /\ t.h = mc.h /\ t.ret = o.ret /\ t.len = len
       /\ Worked(u.m, t, Addr)
  <2>1. Tagged(mc, k) <=> k.op = "ENCRYPT" /\ mc.hash /\ o.ret = "0"
    BY <1>3, Zenon DEF Tagged
  <2>2. SrtpMem(mc, k) = IF Tagged(mc, k) THEN Write(w.mem, k.tag, TagOf(w.mem, k)) ELSE w.mem
    BY <1>3, <1>9 DEF SrtpMem
  <2>3. CASE Tagged(mc, k)
    <3>1. t = v
      BY <2>1, <2>3
    <3> QED
      BY <1>9, <1>10, <1>11, <1>12, <2>2, <2>3, <3>1
  <2>4. CASE ~Tagged(mc, k)
    <3>1. t = w
      BY <2>1, <2>4
    <3> QED
      BY <1>8, <1>9, <2>2, <2>4, <3>1
  <2> QED
    BY <2>3, <2>4
<1> HIDE DEF t
<1>14. ASSUME u.ok PROVE SrtpHanded(mc, release_user_pages(t), k)
                         /\ release_user_pages(t).pages = u.m.pages
  <2>1. Same(t, release_user_pages(t)) /\ release_user_pages(t).pages = u.m.pages
    BY <1>4, <1>13, <1>14, ReleasedSame
  <2> QED
    BY <1>3, <1>13, <2>1 DEF SrtpHanded, Same, len
<1>15. /\ \A e : e # "0" => Refused(mc, Ret(mc, e)) /\ Ret(mc, e).pages = mc.pages
       /\ \A e : e # "0" => Refused(mc, Ret(u.m, e)) /\ Ret(u.m, e).pages = u.m.pages
  <2>1. Same(mc, mc)
    BY DEF Same
  <2> QED
    BY <1>4, <2>1, RetRefused
<1>16. CASE mc.cipher # "stream"
  <2>1. Refused(mc, r) /\ r.pages = mc.pages
    BY <1>2, <1>15, <1>16
  <2>2. ~SrtpReady(mc, k)
    BY <1>6, <1>16
  <2> QED
    BY <1>7, <2>1, <2>2 DEF r, n
<1>17. CASE mc.cipher = "stream" /\ ~u.ok
  <2>1. Refused(mc, r) /\ r.pages = u.m.pages
    BY <1>2, <1>15, <1>17
  <2>2. ~(SrtpReady(mc, k) /\ 2 * n <= Len(mc.pages))
    BY <1>5, <1>6, <1>17
  <2> QED
    BY <1>5, <2>1, <2>2 DEF r, n
<1>18. CASE mc.cipher = "stream" /\ u.ok
  <2>1. SrtpHanded(mc, r, k) /\ r.pages = u.m.pages
    BY <1>2, <1>14, <1>18
  <2>2. SrtpReady(mc, k) /\ 2 * n <= Len(r.pages)
    BY <1>5, <1>6, <1>18, <2>1
  <2> QED
    BY <1>5, <2>1, <2>2 DEF r, n
<1> QED
  BY <1>16, <1>17, <1>18

AeadOut(mc, k) ==
  LET auth == Read(mc.mem, k.auth_src, k.auth_len)
      data == Read(mc.mem, k.src, k.len)
      m1   == [iv |-> mc.iv, authsize |-> k.tag_len]
  IN  IF k.op = "ENCRYPT" THEN AeadEncrypt(m1, auth, data) ELSE AeadDecrypt(m1, auth, data)

AeadReady(mc, k) ==
  /\ AuthReady(mc, k) /\ k.tag_len <= mc.authsize
  /\ Accessible(mc.perm, k.src, k.len, FALSE)
  /\ Accessible(mc.perm, k.dst, k.dst_len, TRUE)

AeadHanded(mc, r, k) ==
  LET o == AeadOut(mc, k)
  IN  /\ r.mem = Write(mc.mem, k.dst, o.data) /\ r.iv = mc.iv /\ r.h = mc.h
      /\ r.ret = o.ret /\ r.authsize = k.tag_len
      /\ r.len = IF o.ret = "0"
                 THEN k.len + (IF k.op = "ENCRYPT" THEN 1 ELSE -1) * k.tag_len
                 ELSE k.dst_len

LEMMA AeadCrypts ==
  ASSUME NEW mc, IsMachine(mc), mc.ret = "0", mc.authsize \in 1..DIGESTSIZE,
         NEW k, k.tag_len \in 1..DIGESTSIZE
  PROVE  LET r == auth_n_crypt(mc, k, Read(mc.mem, k.auth_src, k.auth_len),
                               Read(mc.mem, k.src, k.len))
         IN  /\ k.tag_len <= mc.authsize => AeadHanded(mc, r, k)
             /\ ~(k.tag_len <= mc.authsize) => Refused(mc, r)
<1> DEFINE auth == Read(mc.mem, k.auth_src, k.auth_len)
           data == Read(mc.mem, k.src, k.len)
           m1 == TagSize(mc, k)
           p == [iv |-> mc.iv, authsize |-> k.tag_len]
           o == IF k.op = "ENCRYPT" THEN AeadEncrypt(m1, auth, data)
                                    ELSE AeadDecrypt(m1, auth, data)
           n == k.len + (IF k.op = "ENCRYPT" THEN 1 ELSE -1) * m1.authsize
           len == IF o.ret = "0" THEN n ELSE k.dst_len
           w == [m1 EXCEPT !.mem = Write(@, k.dst, o.data), !.ret = o.ret, !.len = len]
           r == auth_n_crypt(mc, k, auth, data)
<1>1. r = IF m1.ret # "0" THEN m1 ELSE w
  BY Zenon DEF auth_n_crypt
<1>2. k.tag_len \in Nat /\ mc.authsize \in Nat /\ k.tag_len # 0
  BY DEF DIGESTSIZE
<1>3. CASE k.tag_len <= mc.authsize
  <2>1. m1 = [mc EXCEPT !.authsize = k.tag_len]
    BY <1>2, <1>3 DEF TagSize
  <2>2. /\ m1.ret = "0" /\ m1.authsize = k.tag_len /\ m1.iv = mc.iv /\ m1.h = mc.h
        /\ m1.mem = mc.mem /\ DOMAIN m1 = Fields
    BY <2>1 DEF IsMachine, Fields
  <2>3. o = AeadOut(mc, k)
    <3>1. p.iv = m1.iv /\ p.authsize = m1.authsize
      BY <2>2
    <3>2. AeadOut(mc, k) = IF k.op = "ENCRYPT" THEN AeadEncrypt(p, auth, data)
                                               ELSE AeadDecrypt(p, auth, data)
      BY Zenon DEF AeadOut
    <3> HIDE DEF p, m1, auth, data
    <3>3. AeadEncrypt(m1, auth, data) = AeadEncrypt(p, auth, data)
      BY <3>1, Zenon DEF AeadEncrypt
    <3>4. AeadDecrypt(m1, auth, data) = AeadDecrypt(p, auth, data)
      BY <3>1, Zenon DEF AeadDecrypt
    <3> QED
      BY <3>2, <3>3, <3>4
  <2>4. len = IF o.ret = "0" THEN k.len + (IF k.op = "ENCRYPT" THEN 1 ELSE -1) * k.tag_len
              ELSE k.dst_len
    BY <2>2
  <2> HIDE DEF m1, o, len, r
  <2>5. /\ w.mem = Write(mc.mem, k.dst, o.data) /\ w.iv = mc.iv /\ w.h = mc.h
        /\ w.ret = o.ret /\ w.authsize = k.tag_len /\ w.len = len
    BY <2>2 DEF Fields
  <2>6. r = w
    BY <1>1, <2>2
  <2> HIDE DEF w
  <2>7. AeadHanded(mc, r, k)
    BY <2>3, <2>4, <2>5, <2>6, Zenon DEF AeadHanded
  <2> QED
    BY <1>3, <2>7 DEF r
<1>4. CASE ~(k.tag_len <= mc.authsize)
  <2>1. k.tag_len > mc.authsize
    BY <1>2, <1>4
  <2>2. m1 = Ret(mc, "EINVAL")
    BY <2>1 DEF TagSize
  <2>3. Refused(mc, m1) /\ m1.ret # "0"
    <3>1. Same(mc, mc)
      BY DEF Same
    <3>2. Refused(mc, m1)
      BY <2>2, <3>1, RetRefused
    <3> QED
      BY <3>2 DEF Refused
  <2> HIDE DEF m1, r, w
  <2>4. Refused(mc, r)
    BY <1>1, <2>3
  <2> QED
    BY <1>4, <2>4 DEF r
<1> QED
  BY <1>3, <1>4

LEMMA AeadHandedSame ==
  ASSUME NEW a, NEW b, Same(a, b), NEW r, NEW q, Same(r, q), NEW k
  PROVE  /\ AeadHanded(b, r, k) => AeadHanded(a, q, k)
         /\ Refused(b, r) => Refused(a, q)
<1>1. AeadOut(a, k) = AeadOut(b, k)
  BY Zenon DEF AeadOut, Same
<1> QED
  BY <1>1 DEF AeadHanded, Refused, Same

(* crypto_auth_zc_aead, the same; in place it cannot be refused for room.  *)
LEMMA AeadRuns ==
  ASSUME NEW mc, IsMachine(mc), Balanced(mc), mc.ret = "0", mc.cipher = "aead",
         mc.blocksize \in Nat \ {0}, mc.authsize \in 1..DIGESTSIZE,
         NEW k, k \in AuthOp, k.mode # "SRTP", Sized(mc, k)
  PROVE  LET r == crypto_auth_zc_aead(mc, k)
             n == PAGECOUNT(k.dst, k.dst_len)
         IN  /\ Len(r.pages) >= Len(mc.pages)
             /\ \/ Refused(mc, r)
                \/ AeadReady(mc, k) /\ AeadHanded(mc, r, k) /\ n <= Len(r.pages)
             /\ AeadReady(mc, k) /\ n <= Len(mc.pages) /\ k.src = k.dst /\ k.len = k.dst_len
                => AeadHanded(mc, r, k)
<1> DEFINE auth == Read(mc.mem, k.auth_src, k.auth_len)
           data == Read(mc.mem, k.src, k.len)
           u == get_userbuf(mc, k.src, k.len, k.dst, k.dst_len, k.nomem)
           a == auth_n_crypt(u.m, k, auth, data)
           q == release_user_pages(a)
           n == PAGECOUNT(k.dst, k.dst_len)
           reads == Accessible(mc.perm, k.src, k.len, FALSE)
           writes == Accessible(mc.perm, k.dst, k.dst_len, TRUE)
           known == Accessible(mc.perm, k.auth_src, k.auth_len, FALSE)
           r == crypto_auth_zc_aead(mc, k)
<1>1. /\ k.len \in Nat /\ k.src \in Nat /\ k.dst \in Nat /\ k.dst_len \in Nat
      /\ k.src # None /\ k.dst # None /\ k.auth_len \in Nat
      /\ k.tag_len \in 1..DIGESTSIZE
  <2>1. k.tag_len # 0
    BY DEF Sized
  <2> QED
    BY <2>1, ZcAssumption DEF AuthOp, DIGESTSIZE
<1>2. r = IF mc.cipher = "block" \/ k.auth_len > PAGE_SIZE THEN Ret(mc, "EINVAL")
          ELSE IF ~u.ok THEN Ret(u.m, "EINVAL")
          ELSE IF ~known THEN Ret(release_user_pages(u.m), "EFAULT")
          ELSE q
  BY Zenon DEF crypto_auth_zc_aead
<1>3. Secured(mc, u) /\ IsMachine(u.m) /\ Same(mc, u.m)
  <2>1. k.src \in Nat \cup {None} /\ k.dst \in Nat \cup {None}
    BY <1>1
  <2>2. Secured(mc, u)
    BY <1>1, <2>1, UserbufSecures
  <2> QED
    BY <2>2 DEF Secured
<1>4. IsSeq(data) /\ Len(data) = k.len
  BY <1>1, ReadFact
<1>5. /\ Len(u.m.pages) >= Len(mc.pages)
      /\ u.ok => reads /\ writes /\ n <= Len(u.m.pages)
  <2>1. k.src \in Nat \cup {None} /\ k.dst \in Nat \cup {None}
    BY <1>1
  <2>2. /\ Len(u.m.pages) >= Len(mc.pages)
        /\ u.ok /\ k.src # None => reads
        /\ u.ok /\ k.dst # None => writes /\ n <= Len(u.m.pages)
    BY <1>1, <2>1, UserbufGives
  <2> QED
    BY <1>1, <2>2
<1>6. k.src = k.dst /\ k.len = k.dst_len /\ writes /\ n <= Len(mc.pages) => u.ok
  BY <1>1, UserbufAgain
<1>7. AeadReady(mc, k) <=> /\ ~(k.auth_len > PAGE_SIZE) /\ known /\ reads /\ writes
                           /\ k.tag_len <= mc.authsize
  <2>1. PAGE_SIZE \in Nat
    BY ZcAssumption
  <2>2. k.auth_len <= PAGE_SIZE <=> ~(k.auth_len > PAGE_SIZE)
    BY <1>1, <2>1
  <2> QED
    BY <2>2, Zenon DEF AeadReady, AuthReady
<1>8. Len(mc.pages) \in Nat
  BY SeqFact DEF IsMachine
<1>9. /\ k.tag_len <= mc.authsize => AeadHanded(u.m, a, k)
      /\ ~(k.tag_len <= mc.authsize) => Refused(u.m, a)
  <2>1. /\ u.m.ret = "0" /\ u.m.authsize = mc.authsize /\ u.m.mem = mc.mem
        /\ u.m.authsize \in 1..DIGESTSIZE
    BY <1>3 DEF Same
  <2>2. a = auth_n_crypt(u.m, k, Read(u.m.mem, k.auth_src, k.auth_len),
                         Read(u.m.mem, k.src, k.len))
    BY <2>1
  <2> HIDE DEF a
  <2> QED
    BY <1>1, <1>3, <2>1, <2>2, AeadCrypts
<1> HIDE DEF u, data, auth, reads, writes, known, n, r
<1>10. Worked(u.m, a, Target(k))
  <2>1. /\ u.m.cipher = "aead" /\ u.m.blocksize \in Nat \ {0}
        /\ u.m.authsize \in 1..DIGESTSIZE /\ Sized(u.m, k)
    BY <1>3 DEF Same, Sized, cryptodev_get_dst_len
  <2> QED
    BY <1>3, <1>4, <2>1, AeadWorked
<1> HIDE DEF a
<1>11. ASSUME u.ok
       PROVE  /\ q.pages = u.m.pages
              /\ k.tag_len <= mc.authsize => AeadHanded(mc, q, k)
              /\ ~(k.tag_len <= mc.authsize) => Refused(mc, q)
  <2>1. Same(a, q) /\ q.pages = u.m.pages
    BY <1>3, <1>10, <1>11, ReleasedSame
  <2> HIDE DEF q
  <2> QED
    BY <1>3, <1>9, <2>1, AeadHandedSame
<1>12. ASSUME u.ok
       PROVE  LET e == Ret(release_user_pages(u.m), "EFAULT")
              IN  Refused(mc, e) /\ e.pages = u.m.pages
  <2> DEFINE p == release_user_pages(u.m)
  <2>1. IsMachine(p) /\ Same(u.m, p)
    BY <1>3, <1>12, ReleaseFact DEF Secured
  <2>2. p.pages = u.m.pages
    BY ReleasedRoom
  <2> HIDE DEF p
  <2>3. Same(mc, p)
    BY <1>3, <2>1, SameTransitive
  <2>4. Refused(mc, Ret(p, "EFAULT")) /\ Ret(p, "EFAULT").pages = p.pages
    BY <2>1, <2>3, RetRefused
  <2> QED
    BY <2>2, <2>4 DEF p
<1>13. /\ Refused(mc, Ret(mc, "EINVAL")) /\ Ret(mc, "EINVAL").pages = mc.pages
       /\ Refused(mc, Ret(u.m, "EINVAL")) /\ Ret(u.m, "EINVAL").pages = u.m.pages
  <2>1. Same(mc, mc)
    BY DEF Same
  <2> QED
    BY <1>3, <2>1, RetRefused
<1> HIDE DEF q
<1>14. CASE k.auth_len > PAGE_SIZE
  <2>1. Refused(mc, r) /\ r.pages = mc.pages
    BY <1>2, <1>13, <1>14
  <2>2. ~AeadReady(mc, k)
    BY <1>7, <1>14
  <2> QED
    BY <1>8, <2>1, <2>2 DEF r
<1>15. CASE ~(k.auth_len > PAGE_SIZE) /\ ~u.ok
  <2>1. Refused(mc, r) /\ r.pages = u.m.pages
    BY <1>2, <1>13, <1>15
  <2>2. ~(AeadReady(mc, k) /\ n <= Len(mc.pages) /\ k.src = k.dst /\ k.len = k.dst_len)
    BY <1>6, <1>7, <1>15
  <2> QED
    BY <1>5, <2>1, <2>2 DEF r, n
<1>16. CASE ~(k.auth_len > PAGE_SIZE) /\ u.ok /\ ~known
  <2>1. Refused(mc, r) /\ r.pages = u.m.pages
    BY <1>2, <1>12, <1>16
  <2>2. ~AeadReady(mc, k)
    BY <1>7, <1>16
  <2> QED
    BY <1>5, <2>1, <2>2 DEF r
<1>17. CASE ~(k.auth_len > PAGE_SIZE) /\ u.ok /\ known
  <2>1. r = q
    BY <1>2, <1>17
  <2>2. CASE k.tag_len <= mc.authsize
    <3>1. AeadReady(mc, k) /\ AeadHanded(mc, r, k) /\ r.pages = u.m.pages
      BY <1>5, <1>7, <1>11, <1>17, <2>1, <2>2
    <3> QED
      BY <1>5, <1>17, <3>1 DEF r, n
  <2>3. CASE ~(k.tag_len <= mc.authsize)
    <3>1. ~AeadReady(mc, k) /\ Refused(mc, r) /\ r.pages = u.m.pages
      BY <1>7, <1>11, <1>17, <2>1, <2>3
    <3> QED
      BY <1>5, <3>1 DEF r, n
  <2> QED
    BY <2>2, <2>3
<1> QED
  BY <1>14, <1>15, <1>16, <1>17

-----------------------------------------------------------------------------
(* What was encrypted decrypts to what it was, if what was authenticated   *)
(* is what it was; and a change to that is noticed.                        *)

LEMMA PadSteps ==
  ASSUME NEW rec, UnitSeq(rec), NEW bs \in Nat \ {0}, bs <= V
  PROVE  LET n == PadLen(Len(rec), bs)
             p == pad_record(rec, bs)
         IN  /\ n \in 1..bs /\ UnitSeq(p) /\ Len(p) = Len(rec) + n
             /\ \A i \in 1..Len(rec) : p[i] = rec[i]
             /\ \A i \in 1..n : p[Len(rec) + i] = n - 1
<1> DEFINE n == PadLen(Len(rec), bs)
           pad == [i \in 1..n |-> n - 1]
           p == pad_record(rec, bs)
<1>1. Len(rec) \in Nat /\ IsSeq(rec)
  BY SeqFact DEF UnitSeq
<1>2. n \in 1..bs
  <2>1. Len(rec) <= Len(rec)
    BY <1>1
  <2> QED
    BY <1>1, <2>1, PaddedMonotonic
<1>3. p = rec \o pad
  BY DEF pad_record
<1> HIDE DEF n, p
<1>4. IsSeq(pad) /\ Len(pad) = n
  <2>1. pad = [i \in 1..n |-> pad[i]] /\ n \in Nat
    BY <1>2
  <2> HIDE DEF pad
  <2> QED
    BY <2>1, FunctionSeq
<1>5. UnitSeq(pad)
  <2>1. n - 1 \in Units
    BY <1>2 DEF Units, V
  <2>2. \A i \in 1..n : pad[i] = n - 1
    OBVIOUS
  <2> HIDE DEF pad
  <2> QED
    BY <1>4, <2>1, <2>2 DEF UnitSeq
<1>6. \A i \in 1..n : pad[i] = n - 1
  OBVIOUS
<1> HIDE DEF pad
<1>7. UnitSeq(p)
  BY <1>3, <1>5, ConcatUnits
<1>8. /\ Len(p) = Len(rec) + n
      /\ \A i \in 1..Len(rec) : p[i] = rec[i]
      /\ \A i \in 1..n : p[Len(rec) + i] = n - 1
  BY <1>1, <1>3, <1>4, <1>6, ConcatFact
<1> QED
  BY <1>2, <1>7, <1>8 DEF n, p

LEMMA PadVerified ==
  ASSUME NEW rec, UnitSeq(rec), NEW bs \in Nat \ {0}, bs <= V
  PROVE  verify_tls_record_pad(pad_record(rec, bs)) = PadLen(Len(rec), bs)
<1> DEFINE n == PadLen(Len(rec), bs)
           p == pad_record(rec, bs)
<1>1. /\ n \in 1..bs /\ Len(p) = Len(rec) + n
      /\ \A i \in 1..n : p[Len(rec) + i] = n - 1
  BY PadSteps
<1>2. Len(rec) \in Nat
  BY SeqFact DEF UnitSeq
<1> HIDE DEF n, p
<1>3. Last(p) = n - 1
  <2>1. n \in 1..n
    BY <1>1
  <2>2. p[Len(rec) + n] = n - 1
    BY <1>1, <2>1
  <2> QED
    BY <1>1, <2>2 DEF Last
<1>4. \A i \in 1..n - 1 : p[Len(p) - i] = n - 1
  <2>1. ASSUME NEW i \in 1..n - 1 PROVE p[Len(p) - i] = n - 1
    <3>1. n - i \in 1..n /\ Len(p) - i = Len(rec) + (n - i)
      BY <1>1, <1>2
    <3> QED
      BY <1>1, <3>1
  <2> QED
    BY <2>1
<1>5. (n - 1) + 1 = n /\ n <= Len(p)
  BY <1>1, <1>2
<1>6. verify_tls_record_pad(p) = n
  BY <1>3, <1>4, <1>5 DEF verify_tls_record_pad
<1> QED
  BY <1>6 DEF n, p

LEMMA PaddedWhole ==
  ASSUME NEW n \in Nat, NEW bs \in Nat \ {0}
  PROVE  (n + PadLen(n, bs)) % bs = 0
<1>1. PICK q \in Int : q = n \div bs
  OBVIOUS
<1>2. n = bs * q + (n % bs) /\ n % bs \in 0..bs - 1
  BY <1>1, SMT
<1>3. n + PadLen(n, bs) = bs * q + bs
  BY <1>2 DEF PadLen
<1>4. bs * q + bs = bs * (q + 1)
  BY <1>1, SMT
<1>5. (bs * (q + 1)) % bs = 0
  BY <1>1, SMT
<1> QED
  BY <1>3, <1>4, <1>5

(* The record that is padded and encrypted.                                *)
Record(mc, k, auth, data) ==
  IF mc.hash THEN data \o MacOf(auth, data, k.tag_len) ELSE data

Padded(mc, rec) == IF mc.blocksize > 1 THEN pad_record(rec, mc.blocksize) ELSE rec
Padding(mc, rec) == IF mc.blocksize > 1 THEN PadLen(Len(rec), mc.blocksize) ELSE 0

LEMMA JoinParts ==
  ASSUME NEW s, IsSeq(s), NEW t, IsSeq(t)
  PROVE  /\ SubSeq(s \o t, 1, Len(s)) = s
         /\ SubSeq(s \o t, Len(s) + 1, Len(s \o t)) = t
<1> DEFINE n == Len(s)
           st == s \o t
           a == SubSeq(st, 0 + 1, n)
           b == SubSeq(st, n + 1, Len(st))
<1>1. n \in Nat /\ Len(t) \in Nat
  BY SeqFact
<1>2. /\ IsSeq(st) /\ Len(st) = n + Len(t)
      /\ \A i \in 1..n : st[i] = s[i]
      /\ \A i \in 1..Len(t) : st[n + i] = t[i]
  BY ConcatFact
<1> HIDE DEF st
<1>3. IsSeq(a) /\ Len(a) = n - 0 /\ \A i \in 1..n - 0 : a[i] = st[0 + i]
  <2>1. 0 \in Nat /\ 0 <= n /\ n <= Len(st)
    BY <1>1, <1>2
  <2> QED
    BY <1>1, <1>2, <2>1, PartFact
<1>4. /\ IsSeq(b) /\ Len(b) = Len(st) - n
      /\ \A i \in 1..Len(st) - n : b[i] = st[n + i]
  <2>1. Len(st) \in Nat /\ n <= Len(st) /\ Len(st) <= Len(st)
    BY <1>1, <1>2
  <2> QED
    BY <1>1, <1>2, <2>1, PartFact
<1>5. a = SubSeq(st, 1, n)
  OBVIOUS
<1> HIDE DEF a, b
<1>6. a = s
  <2>1. Len(a) = Len(s) /\ \A i \in 1..Len(a) : a[i] = s[i]
    BY <1>1, <1>2, <1>3
  <2> QED
    BY <1>3, <2>1, SameSeq
<1>7. b = t
  <2>1. Len(b) = Len(t) /\ \A i \in 1..Len(b) : b[i] = t[i]
    BY <1>1, <1>2, <1>4
  <2> QED
    BY <1>4, <2>1, SameSeq
<1> QED
  BY <1>5, <1>6, <1>7 DEF b, st

LEMMA RecordFact ==
  ASSUME NEW mc, NEW k, k.tag_len \in 0..DIGESTSIZE, NEW auth, UnitSeq(auth),
         NEW data, UnitSeq(data)
  PROVE  LET rec == Record(mc, k, auth, data)
             mac == MacOf(auth, data, k.tag_len)
         IN  /\ UnitSeq(rec)
             /\ Len(rec) = Len(data) + (IF mc.hash THEN k.tag_len ELSE 0)
             /\ \A i \in 1..Len(data) : rec[i] = data[i]
             /\ SubSeq(rec, 1, Len(data)) = data
             /\ mc.hash => SubSeq(rec, Len(data) + 1, Len(rec)) = mac
<1> DEFINE rec == Record(mc, k, auth, data)
           mac == MacOf(auth, data, k.tag_len)
           n == Len(data)
           tl == IF mc.hash THEN k.tag_len ELSE 0
<1>1. IsSeq(data) /\ IsSeq(auth) /\ n \in Nat /\ k.tag_len \in Nat
  BY SeqFact DEF UnitSeq, DIGESTSIZE
<1>2. UnitSeq(mac) /\ IsSeq(mac) /\ Len(mac) = k.tag_len
  BY UnitsAreInts, MacUnits, MacFact
<1>3. CASE mc.hash
  <2>1. rec = data \o mac
    BY <1>3 DEF Record
  <2>2. tl = k.tag_len
    BY <1>3
  <2> HIDE DEF rec, mac, tl
  <2>3. UnitSeq(rec)
    BY <1>2, <2>1, ConcatUnits
  <2>4. /\ Len(data \o mac) = Len(data) + Len(mac)
        /\ \A i \in 1..Len(data) : (data \o mac)[i] = data[i]
    BY <1>1, <1>2, ConcatFact
  <2>5. SubSeq(data \o mac, 1, n) = data /\ SubSeq(data \o mac, n + 1, Len(data \o mac)) = mac
    BY <1>1, <1>2, JoinParts
  <2>6. /\ Len(rec) = n + tl /\ \A i \in 1..n : rec[i] = data[i]
        /\ SubSeq(rec, 1, n) = data /\ SubSeq(rec, n + 1, Len(rec)) = mac
    BY <1>2, <2>1, <2>2, <2>4, <2>5
  <2> QED
    BY <2>3, <2>6, Zenon DEF rec, mac, tl
<1>4. CASE ~mc.hash
  <2>1. rec = data
    BY <1>4 DEF Record
  <2>2. tl = 0
    BY <1>4
  <2> HIDE DEF rec, mac, tl
  <2>3. SubSeq(data \o <<>>, 1, n) = data /\ data \o <<>> = data
    BY <1>1, EmptyFact, JoinParts
  <2>4. /\ UnitSeq(rec) /\ Len(rec) = n + tl /\ \A i \in 1..n : rec[i] = data[i]
        /\ SubSeq(rec, 1, n) = data
    BY <1>1, <2>1, <2>2, <2>3
  <2> QED
    BY <1>4, <2>4, Zenon DEF rec, tl
<1> QED
  BY <1>3, <1>4

LEMMA PaddedFact ==
  ASSUME NEW mc, mc.blocksize \in Nat \ {0}, mc.blocksize <= V, NEW rec, UnitSeq(rec)
  PROVE  LET p == Padded(mc, rec)
             n == Padding(mc, rec)
         IN  /\ UnitSeq(p) /\ n \in Nat /\ Len(p) = Len(rec) + n
             /\ Len(p) % mc.blocksize = 0
             /\ \A i \in 1..Len(rec) : p[i] = rec[i]
             /\ (IF mc.blocksize > 1 THEN verify_tls_record_pad(p) ELSE 0) = n
<1> DEFINE bs == mc.blocksize
           p == Padded(mc, rec)
           n == Padding(mc, rec)
<1>1. Len(rec) \in Nat
  BY SeqFact DEF UnitSeq
<1>2. CASE bs > 1
  <2>1. p = pad_record(rec, bs) /\ n = PadLen(Len(rec), bs)
    BY <1>2 DEF Padded, Padding
  <2> HIDE DEF p, n
  <2>2. /\ n \in 1..bs /\ UnitSeq(p) /\ Len(p) = Len(rec) + n
        /\ \A i \in 1..Len(rec) : p[i] = rec[i]
    BY <2>1, PadSteps
  <2>3. verify_tls_record_pad(p) = n
    BY <2>1, PadVerified
  <2>4. Len(p) % bs = 0
    BY <1>1, <2>1, <2>2, PaddedWhole
  <2> QED
    BY <1>2, <2>2, <2>3, <2>4 DEF p, n
<1>3. CASE ~(bs > 1)
  <2>1. p = rec /\ n = 0 /\ bs = 1
    BY <1>3 DEF Padded, Padding
  <2>2. Len(rec) % 1 = 0
    BY <1>1
  <2> HIDE DEF p, n
  <2> QED
    BY <1>1, <1>3, <2>1, <2>2 DEF p, n
<1> QED
  BY <1>2, <1>3

LEMMA TlsEncrypted ==
  ASSUME NEW mc, NEW k, NEW auth, NEW data
  PROVE  LET p == Padded(mc, Record(mc, k, auth, data))
             c == Encrypt(mc.iv, p)
         IN  TlsEncrypt(mc, k, auth, data) = Out("0", c, Len(p), NextIv(mc.iv, c))
BY Zenon DEF TlsEncrypt, Padded, Record

(* What is handed back begins with the text and has the length of the      *)
(* record.                                                                 *)
TextBack(d, q, data) ==
  /\ d.ret = "0" /\ d.len = Len(data)
  /\ Len(d.data) = q.len /\ IsSeq(d.data) /\ Len(data) <= q.len
  /\ \A i \in 1..Len(data) : d.data[i] = data[i]

(* tls_auth_n_crypt: what it does to a record that was padded.             *)
LEMMA TlsUndone ==
  ASSUME NEW mc, mc.blocksize \in Nat \ {0}, mc.blocksize <= V, mc.iv \in Units,
         NEW k, k.tag_len \in 0..DIGESTSIZE, NEW auth, UnitSeq(auth),
         NEW data, UnitSeq(data),
         NEW r, r.iv = mc.iv, r.hash = mc.hash, r.blocksize = mc.blocksize,
         NEW q, q.tag_len = k.tag_len,
         q.len = TlsEncrypt(mc, k, auth, data).len, NEW other
  PROVE  LET d == TlsDecrypt(r, q, other, TlsEncrypt(mc, k, auth, data).data)
             same == MacOf(other, data, k.tag_len) = MacOf(auth, data, k.tag_len)
         IN  /\ ~mc.hash \/ same => TextBack(d, q, data)
             /\ mc.hash /\ ~same => d.ret = "EBADMSG"
<1> DEFINE rec == Record(mc, k, auth, data)
           p == Padded(mc, rec)
           n == Padding(mc, rec)
           c == Encrypt(mc.iv, p)
           d == TlsDecrypt(r, q, other, c)
           dl == Len(data)
           tl == IF mc.hash THEN k.tag_len ELSE 0
           mac == MacOf(auth, data, k.tag_len)
           forged == MacOf(other, data, k.tag_len)
<1>1. /\ UnitSeq(rec) /\ Len(rec) = dl + tl
      /\ \A i \in 1..dl : rec[i] = data[i]
      /\ SubSeq(rec, 1, dl) = data
      /\ mc.hash => SubSeq(rec, dl + 1, Len(rec)) = mac
  <2>1. Len(rec) = dl + tl
    BY RecordFact
  <2>2. UnitSeq(rec)
    BY RecordFact
  <2>3. \A i \in 1..dl : rec[i] = data[i]
    BY RecordFact
  <2>4. SubSeq(rec, 1, dl) = data
    BY RecordFact
  <2>5. mc.hash => SubSeq(rec, dl + 1, Len(rec)) = mac
    BY RecordFact
  <2> QED
    BY <2>1, <2>2, <2>3, <2>4, <2>5
<1>2. /\ dl \in Nat /\ tl \in Nat /\ k.tag_len \in Nat /\ Len(rec) \in Nat
      /\ mc.hash => tl = k.tag_len
      /\ ~mc.hash => tl = 0
  <2>1. dl \in Nat /\ k.tag_len \in Nat /\ Len(rec) \in Nat
    BY <1>1, SeqFact DEF UnitSeq, DIGESTSIZE
  <2> HIDE DEF rec, dl
  <2> QED
    BY <2>1
<1> HIDE DEF rec, tl
<1>3. /\ UnitSeq(p) /\ n \in Nat /\ Len(p) = Len(rec) + n
      /\ Len(p) % mc.blocksize = 0
      /\ \A i \in 1..Len(rec) : p[i] = rec[i]
      /\ (IF mc.blocksize > 1 THEN verify_tls_record_pad(p) ELSE 0) = n
  BY <1>1, PaddedFact
<1>4. /\ TlsEncrypt(mc, k, auth, data).data = c
      /\ TlsEncrypt(mc, k, auth, data).len = Len(p)
  BY TlsEncrypted DEF Out, rec
<1> HIDE DEF p, n
<1>5. Decrypt(r.iv, c) = p
  <2>1. mc.iv \in Int
    BY DEF Units, V
  <2> QED
    BY <1>3, <2>1, DecryptEncrypt
<1> HIDE DEF c
<1>6. q.len = Len(p) /\ Len(p) \in Nat
  BY <1>2, <1>3, <1>4
<1>7. SubSeq(p, 1, dl) = data /\ (mc.hash => SubSeq(p, dl + 1, Len(rec)) = mac)
  <2>1. IsSeq(p) /\ IsSeq(rec) /\ IsSeq(data)
    BY <1>1, <1>3 DEF UnitSeq
  <2>2. ASSUME NEW a \in Nat, NEW b \in Nat, a <= b, b <= Len(rec)
        PROVE  SubSeq(p, a + 1, b) = SubSeq(rec, a + 1, b)
    <3> DEFINE s == SubSeq(p, a + 1, b)
               t == SubSeq(rec, a + 1, b)
    <3>1. b <= Len(p)
      BY <1>2, <1>3, <2>2
    <3>2. IsSeq(s) /\ Len(s) = b - a /\ \A i \in 1..b - a : s[i] = p[a + i]
      BY <2>1, <2>2, <3>1, PartFact
    <3>3. IsSeq(t) /\ Len(t) = b - a /\ \A i \in 1..b - a : t[i] = rec[a + i]
      BY <2>1, <2>2, PartFact
    <3>4. \A i \in 1..b - a : s[i] = t[i]
      <4>1. ASSUME NEW i \in 1..b - a PROVE s[i] = t[i]
        <5>1. a + i \in 1..Len(rec)
          BY <1>2, <2>2
        <5> HIDE DEF s, t
        <5> QED
          BY <1>3, <3>2, <3>3, <5>1
      <4> QED
        BY <4>1
    <3> HIDE DEF s, t
    <3>5. s = t
      BY <3>2, <3>3, <3>4, SameSeq
    <3> QED
      BY <3>5 DEF s, t
  <2>3. 0 \in Nat /\ 0 <= dl /\ dl <= Len(rec) /\ Len(rec) <= Len(rec)
    BY <1>1, <1>2
  <2>4. SubSeq(p, 0 + 1, dl) = SubSeq(rec, 0 + 1, dl)
    BY <1>2, <2>2, <2>3, Zenon
  <2>5. SubSeq(p, dl + 1, Len(rec)) = SubSeq(rec, dl + 1, Len(rec))
    BY <1>2, <2>2, <2>3, Zenon
  <2>6. 0 + 1 = 1
    OBVIOUS
  <2> QED
    BY <1>1, <2>4, <2>5, <2>6
<1> DEFINE x == IF r.blocksize > 1 THEN verify_tls_record_pad(p) ELSE 0
           len == IF x = -1 THEN q.len ELSE q.len - x
           m0 == len - q.tag_len
           iv == NextIv(r.iv, c)
<1>8. x = n /\ x # -1
  BY <1>3
<1>9. len = Len(rec)
  <2>1. q.len - n = Len(rec)
    BY <1>2, <1>3, <1>6
  <2> HIDE DEF x
  <2> QED
    BY <1>8, <2>1
<1>10. d = IF q.len % r.blocksize # 0 THEN Out("EINVAL", <<>>, q.dst_len, r.iv)
           ELSE IF ~r.hash THEN Out("0", p, len, iv)
           ELSE IF m0 < 0 THEN Out("EINVAL", p, q.dst_len, iv)
           ELSE IF MacOf(other, SubSeq(p, 1, m0), q.tag_len) # SubSeq(p, m0 + 1, len) \/ x = -1
                THEN Out("EBADMSG", p, q.dst_len, iv)
           ELSE Out("0", p, m0, iv)
  BY <1>5, Zenon DEF TlsDecrypt
<1> HIDE DEF x, len, iv, d
<1>11. q.len % r.blocksize = 0
  BY <1>3, <1>6
<1>12. \A i \in 1..dl : p[i] = data[i]
  BY <1>1, <1>2, <1>3
<1>13. IsSeq(p) /\ dl <= q.len
  BY <1>1, <1>2, <1>3, <1>6 DEF UnitSeq
<1>14. CASE ~mc.hash
  <2>1. d = Out("0", p, len, iv)
    BY <1>10, <1>11, <1>14
  <2>2. d.ret = "0" /\ d.len = len /\ d.data = p
    BY <2>1 DEF Out
  <2>3. len = dl
    <3>1. Len(rec) = dl + tl
      BY <1>1
    <3>2. tl = 0 /\ dl \in Nat
      BY <1>2, <1>14
    <3> HIDE DEF dl, mac, forged, m0
    <3> QED
      BY <1>9, <3>1, <3>2
  <2> QED
    BY <1>4, <1>6, <1>12, <1>13, <1>14, <2>2, <2>3 DEF d, TextBack
<1>15. CASE mc.hash
  <2>1. m0 = dl
    <3>1. Len(rec) = dl + tl
      BY <1>1
    <3>2. tl = k.tag_len /\ dl \in Nat /\ tl \in Nat /\ q.tag_len = k.tag_len
      BY <1>2, <1>15
    <3> HIDE DEF dl, mac, forged
    <3> QED
      BY <1>9, <3>1, <3>2
  <2> HIDE DEF m0
  <2>2. ~(m0 < 0)
    BY <1>2, <2>1
  <2>3. MacOf(other, SubSeq(p, 1, m0), q.tag_len) = forged /\ SubSeq(p, m0 + 1, len) = mac
    BY <1>7, <1>9, <1>15, <2>1
  <2> HIDE DEF forged, mac
  <2>4. d = IF forged # mac THEN Out("EBADMSG", p, q.dst_len, iv) ELSE Out("0", p, m0, iv)
    <3>1. x # -1
      BY <1>8
    <3> QED
      BY <1>10, <1>11, <1>15, <2>2, <2>3, <3>1, Zenon
  <2>5. forged # mac => d.ret = "EBADMSG"
    BY <2>4 DEF Out
  <2>6. forged = mac => d.ret = "0" /\ d.len = dl /\ d.data = p
    BY <2>1, <2>4 DEF Out
  <2> QED
    BY <1>4, <1>6, <1>12, <1>13, <1>15, <2>5, <2>6 DEF d, forged, mac, TextBack
<1> QED
  BY <1>14, <1>15

(* The kernel's AEAD cipher.                                               *)
TagAgrees(p, auth, other, data) ==
  MacOf(other, Encrypt(p.iv, data), p.authsize) = MacOf(auth, Encrypt(p.iv, data), p.authsize)

LEMMA AeadUndone ==
  ASSUME NEW p, p.iv \in Units, p.authsize \in 0..DIGESTSIZE, NEW auth, UnitSeq(auth),
         NEW data, UnitSeq(data)
  PROVE  LET e == AeadEncrypt(p, auth, data).data
         IN  /\ UnitSeq(e) /\ Len(e) = Len(data) + p.authsize
             /\ \A other :
                  LET d == AeadDecrypt(p, other, e)
                  IN  /\ TagAgrees(p, auth, other, data) => d.ret = "0" /\ d.data = data
                      /\ ~TagAgrees(p, auth, other, data) => d.ret = "EBADMSG"
<1> DEFINE e == AeadEncrypt(p, auth, data).data
           c == Encrypt(p.iv, data)
           mac == MacOf(auth, c, p.authsize)
           n == Len(e) - p.authsize
<1>1. p.iv \in Int /\ IsSeq(data) /\ Len(data) \in Nat /\ p.authsize \in Nat
  BY SeqFact DEF UnitSeq, Units, V, DIGESTSIZE
<1>2. UnitSeq(c) /\ IsSeq(c) /\ Len(c) = Len(data)
  <2>1. UnitSeq(c) /\ Len(c) = Len(data)
    BY <1>1, UnitsAreInts, EncryptUnits
  <2> QED
    BY <2>1 DEF UnitSeq
<1>3. Decrypt(p.iv, c) = data
  BY <1>1, DecryptEncrypt
<1> HIDE DEF c
<1>4. UnitSeq(mac) /\ IsSeq(mac) /\ Len(mac) = p.authsize
  BY <1>2, UnitsAreInts, MacUnits, MacFact
<1>5. e = c \o mac
  BY Zenon DEF AeadEncrypt, Out, c
<1> HIDE DEF mac, e
<1>6. UnitSeq(e)
  BY <1>2, <1>4, <1>5, ConcatUnits
<1>7. Len(e) = Len(data) + p.authsize
  <2>1. Len(c \o mac) = Len(c) + Len(mac)
    BY <1>2, <1>4, ConcatFact
  <2> QED
    BY <1>2, <1>4, <1>5, <2>1
<1>8. SubSeq(e, 1, Len(c)) = c /\ SubSeq(e, Len(c) + 1, Len(e)) = mac
  BY <1>2, <1>4, <1>5, JoinParts
<1>9. n = Len(c)
  BY <1>1, <1>2, <1>7
<1> HIDE DEF n
<1>10. ~(n < 0)
  BY <1>1, <1>2, <1>9
<1>11. ASSUME NEW other
       PROVE  LET d == AeadDecrypt(p, other, e)
              IN  /\ TagAgrees(p, auth, other, data) => d.ret = "0" /\ d.data = data
                  /\ ~TagAgrees(p, auth, other, data) => d.ret = "EBADMSG"
  <2> DEFINE d == AeadDecrypt(p, other, e)
             forged == MacOf(other, c, p.authsize)
  <2>1. d = IF n < 0 THEN Out("EINVAL", <<>>, 0, p.iv)
            ELSE IF MacOf(other, SubSeq(e, 1, n), p.authsize) # SubSeq(e, n + 1, Len(e))
                 THEN Out("EBADMSG", <<>>, 0, p.iv)
                 ELSE Out("0", Decrypt(p.iv, SubSeq(e, 1, n)), 0, p.iv)
    BY Zenon DEF AeadDecrypt, n
  <2> HIDE DEF d
  <2>2. SubSeq(e, 1, n) = c /\ SubSeq(e, n + 1, Len(e)) = mac
    BY <1>8, <1>9
  <2>3. d = IF forged # mac THEN Out("EBADMSG", <<>>, 0, p.iv) ELSE Out("0", data, 0, p.iv)
    BY <1>3, <1>10, <2>1, <2>2, Zenon DEF forged
  <2>4. TagAgrees(p, auth, other, data) <=> forged = mac
    BY Zenon DEF TagAgrees, forged, mac, c
  <2> HIDE DEF forged
  <2>5. /\ forged = mac => d.ret = "0" /\ d.data = data
        /\ forged # mac => d.ret = "EBADMSG"
    BY <2>3 DEF Out
  <2> QED
    BY <2>4, <2>5 DEF d
<1> QED
  BY <1>6, <1>7, <1>11, Zenon DEF e

(* What is written are units.                                              *)
UnitOut(o) == UnitSeq(o.data) /\ o.iv \in Units

LEMMA EmptyUnits == UnitSeq(<<>>)
BY EmptyFact DEF UnitSeq

LEMMA UnitIsInt == \A x \in Units : x \in Int
BY DEF Units, V

LEMMA PadInts ==
  ASSUME NEW rec, UnitSeq(rec), NEW bs \in Nat \ {0}
  PROVE  IntSeq(pad_record(rec, bs))
<1> DEFINE n == PadLen(Len(rec), bs)
           pad == [i \in 1..n |-> n - 1]
           p == pad_record(rec, bs)
<1>1. Len(rec) \in Nat /\ IsSeq(rec) /\ \A i \in 1..Len(rec) : rec[i] \in Int
  BY SeqFact, UnitIsInt DEF UnitSeq
<1>2. n \in Nat /\ n - 1 \in Int
  <2>1. Len(rec) <= Len(rec)
    BY <1>1
  <2>2. n \in 1..bs
    BY <1>1, <2>1, PaddedMonotonic
  <2> HIDE DEF n
  <2> QED
    BY <2>2
<1>3. p = rec \o pad
  BY DEF pad_record
<1> HIDE DEF n, p
<1>4. IsSeq(pad) /\ Len(pad) = n /\ \A i \in 1..n : pad[i] \in Int
  <2>1. \A i \in 1..n : pad[i] \in Int
    BY <1>2
  <2>2. pad = [i \in 1..n |-> pad[i]]
    OBVIOUS
  <2> HIDE DEF pad
  <2> QED
    BY <1>2, <2>1, <2>2, FunctionSeq
<1> HIDE DEF pad
<1>5. /\ IsSeq(p) /\ Len(p) = Len(rec) + n
      /\ \A i \in 1..Len(rec) : p[i] = rec[i]
      /\ \A i \in 1..n : p[Len(rec) + i] = pad[i]
  <2>1. IsSeq(rec) /\ IsSeq(pad)
    BY <1>1, <1>4
  <2>2. /\ IsSeq(rec \o pad) /\ Len(rec \o pad) = Len(rec) + Len(pad)
        /\ \A i \in 1..Len(rec) : (rec \o pad)[i] = rec[i]
        /\ \A i \in 1..Len(pad) : (rec \o pad)[Len(rec) + i] = pad[i]
    BY <2>1, ConcatFact
  <2> QED
    BY <1>3, <1>4, <2>2
<1>6. ASSUME NEW i \in 1..Len(p) PROVE p[i] \in Int
  <2>1. CASE i <= Len(rec)
    BY <1>1, <1>5, <2>1
  <2>2. CASE ~(i <= Len(rec))
    <3>1. i - Len(rec) \in 1..n /\ Len(rec) + (i - Len(rec)) = i
      BY <1>1, <1>2, <1>5, <2>2
    <3> QED
      BY <1>4, <1>5, <3>1
  <2> QED
    BY <2>1, <2>2
<1> QED
  BY <1>5, <1>6 DEF IntSeq, p

LEMMA TlsUnits ==
  ASSUME NEW mc, mc.blocksize \in Nat \ {0}, mc.iv \in Units,
         NEW k, k.tag_len \in 0..DIGESTSIZE, NEW auth, UnitSeq(auth), NEW data, UnitSeq(data)
  PROVE  UnitOut(TlsEncrypt(mc, k, auth, data)) /\ UnitOut(TlsDecrypt(mc, k, auth, data))
<1> DEFINE rec == Record(mc, k, auth, data)
           p == Padded(mc, rec)
           c == Encrypt(mc.iv, p)
           d == Decrypt(mc.iv, data)
           o == TlsDecrypt(mc, k, auth, data)
<1>1. UnitSeq(rec)
  BY RecordFact
<1> HIDE DEF rec
<1>2. IntSeq(p)
  BY <1>1, PadInts, UnitsAreInts DEF Padded
<1> HIDE DEF p
<1>3. UnitSeq(c) /\ NextIv(mc.iv, c) \in Units
  <2>1. UnitSeq(c)
    BY <1>2, UnitIsInt, EncryptUnits
  <2> QED
    BY <2>1, NextIvUnit
<1>4. UnitOut(TlsEncrypt(mc, k, auth, data))
  <2>1. TlsEncrypt(mc, k, auth, data) = Out("0", c, Len(p), NextIv(mc.iv, c))
    BY TlsEncrypted DEF rec, p
  <2> HIDE DEF c
  <2> QED
    BY <1>3, <2>1 DEF UnitOut, Out
<1>5. UnitSeq(d)
  BY UnitIsInt, UnitsAreInts, DecryptUnits
<1>6. NextIv(mc.iv, data) \in Units
  BY NextIvUnit
<1>7. (o.data = <<>> \/ o.data = d) /\ (o.iv = mc.iv \/ o.iv = NextIv(mc.iv, data))
  <2> HIDE DEF d
  <2> QED
    BY DEF TlsDecrypt, Out, d
<1> HIDE DEF o, d
<1>8. UnitOut(o)
  BY <1>5, <1>6, <1>7, EmptyUnits DEF UnitOut
<1> QED
  BY <1>4, <1>8 DEF o

LEMMA SrtpUnits ==
  ASSUME NEW mc, mc.iv \in Units, NEW k, UnitSeq(Read(mc.mem, k.src, k.len))
  PROVE  UnitOut(SrtpOut(mc, k))
<1> DEFINE data == Read(mc.mem, k.src, k.len)
           e == Encrypt(mc.iv, data)
           d == Decrypt(mc.iv, data)
           o == SrtpOut(mc, k)
<1>1. UnitSeq(data)
  OBVIOUS
<1>2. (o.data = <<>> \/ o.data = d \/ o.data = e)
      /\ (o.iv = mc.iv \/ o.iv = NextIv(mc.iv, data) \/ o.iv = NextIv(mc.iv, e))
  <2> HIDE DEF data
  <2> QED
    BY DEF SrtpOut, SrtpEncrypt, SrtpDecrypt, Out, data
<1> HIDE DEF data, o
<1>3. UnitSeq(e) /\ UnitSeq(d)
  BY <1>1, UnitIsInt, UnitsAreInts, EncryptUnits, DecryptUnits
<1> HIDE DEF e, d
<1>4. NextIv(mc.iv, data) \in Units /\ NextIv(mc.iv, e) \in Units
  BY <1>1, <1>3, NextIvUnit
<1>5. UnitOut(o)
  BY <1>2, <1>3, <1>4, EmptyUnits DEF UnitOut
<1> QED
  BY <1>5 DEF o

LEMMA AeadUnits ==
  ASSUME NEW mc, mc.iv \in Units, NEW k, k.tag_len \in 0..DIGESTSIZE,
         UnitSeq(Read(mc.mem, k.auth_src, k.auth_len)), UnitSeq(Read(mc.mem, k.src, k.len))
  PROVE  UnitSeq(AeadOut(mc, k).data)
<1> DEFINE auth == Read(mc.mem, k.auth_src, k.auth_len)
           data == Read(mc.mem, k.src, k.len)
           p == [iv |-> mc.iv, authsize |-> k.tag_len]
           n == Len(data) - p.authsize
           c == SubSeq(data, 1, n)
           o == AeadOut(mc, k)
<1>1. UnitSeq(auth) /\ UnitSeq(data) /\ p.iv = mc.iv /\ p.authsize = k.tag_len
  OBVIOUS
<1>2. o = IF k.op = "ENCRYPT" THEN AeadEncrypt(p, auth, data) ELSE AeadDecrypt(p, auth, data)
  BY Zenon DEF AeadOut
<1> HIDE DEF auth, data, p, o
<1>3. UnitSeq(AeadEncrypt(p, auth, data).data)
  BY <1>1, AeadUndone
<1>4. Len(data) \in Nat /\ k.tag_len \in Nat /\ n = Len(data) - k.tag_len /\ n \in Int
  BY <1>1, SeqFact DEF UnitSeq, DIGESTSIZE
<1> HIDE DEF n
<1>5. ASSUME n >= 0 PROVE UnitSeq(Decrypt(p.iv, c))
  <2>1. UnitSeq(c)
    <3> DEFINE t == SubSeq(data, 0 + 1, n)
    <3>1. 0 \in Nat /\ n \in Nat /\ 0 <= n /\ n <= Len(data) /\ IsSeq(data)
      BY <1>1, <1>4, <1>5 DEF UnitSeq
    <3>2. IsSeq(t) /\ Len(t) = n - 0 /\ \A i \in 1..n - 0 : t[i] = data[0 + i]
      BY <3>1, PartFact
    <3>3. c = t
      OBVIOUS
    <3> HIDE DEF t, c
    <3>4. \A i \in 1..Len(t) : t[i] \in Units
      BY <1>1, <1>4, <3>1, <3>2 DEF UnitSeq
    <3> QED
      BY <3>2, <3>3, <3>4 DEF UnitSeq
  <2> HIDE DEF c
  <2> QED
    BY <1>1, <2>1, UnitIsInt, UnitsAreInts, DecryptUnits
<1>6. UnitSeq(AeadDecrypt(p, auth, data).data)
  <2> DEFINE a == AeadDecrypt(p, auth, data).data
  <2>1. a = <<>> \/ (~(n < 0) /\ a = Decrypt(p.iv, c))
    <3> HIDE DEF c
    <3> QED
      BY DEF AeadDecrypt, Out, c, n
  <2> HIDE DEF a, c
  <2>2. ~(n < 0) => n >= 0
    BY <1>4
  <2>3. UnitSeq(a)
    BY <1>5, <2>1, <2>2, EmptyUnits
  <2> QED
    BY <2>3 DEF a
<1> QED
  BY <1>2, <1>3, <1>6 DEF o

(* CIOCAUTHCRYPT starts with no hash and with the iv the user gives.       *)
Begun(mc, k) == SetIv([Fresh(mc) EXCEPT !.h = 0], k)

LEMMA BegunFact ==
  ASSUME NEW mc, IsMachine(mc), NEW k, k \in AuthOp, mc.cipher # None
  PROVE  LET b == Begun(mc, k)
         IN  /\ IsMachine(b) /\ b.ret = "0" /\ b.pages = mc.pages
             /\ Balanced(mc) => Balanced(b)
             /\ Typed(mc) => Typed(b)
             /\ b.cipher = mc.cipher /\ b.blocksize = mc.blocksize /\ b.hash = mc.hash
             /\ b.authsize = mc.authsize /\ b.mem = mc.mem /\ b.perm = mc.perm
             /\ b.iv = IF k.iv = None THEN mc.iv ELSE k.iv
             /\ Sized(mc, k) => Sized(b, k)
<1> DEFINE m0 == Fresh(mc)
           m1 == [m0 EXCEPT !.h = 0]
           b == Begun(mc, k)
<1>1. /\ IsMachine(m0) /\ m0.ret = "0" /\ m0.pages = mc.pages
      /\ Balanced(mc) => Balanced(m0)
      /\ m0.cipher = mc.cipher /\ m0.blocksize = mc.blocksize /\ m0.hash = mc.hash
      /\ m0.iv = mc.iv /\ m0.authsize = mc.authsize /\ m0.mem = mc.mem /\ m0.perm = mc.perm
  BY FreshFact
<1> HIDE DEF m0
<1>2. Worked(m0, m1, {}) /\ m1.ret = "0" /\ m1.iv = m0.iv /\ m1.h = 0
      /\ m1.authsize = m0.authsize /\ m1.mem = m0.mem
  BY <1>1 DEF Worked, IsMachine, Fields
<1> HIDE DEF m1
<1>3. b = SetIv(m1, k)
  BY DEF Begun, m0, m1
<1> HIDE DEF b
<1>4. IsMachine(m1) /\ m1.cipher # None
  BY <1>1, <1>2, WorkedMachine DEF Worked
<1>5. Worked(m1, b, {})
  BY <1>3, <1>4, SetIvWorked
<1>6. /\ b.ret = m1.ret /\ b.h = m1.h /\ b.authsize = m1.authsize /\ b.mem = m1.mem
      /\ b.iv = IF k.iv = None THEN m1.iv ELSE k.iv
  BY <1>3, <1>4 DEF SetIv, IsMachine, Fields
<1>7. IsMachine(b) /\ (Balanced(mc) => Balanced(b))
  BY <1>1, <1>2, <1>4, <1>5, WorkedMachine
<1>8. /\ b.pages = mc.pages /\ b.cipher = mc.cipher /\ b.blocksize = mc.blocksize
      /\ b.hash = mc.hash /\ b.perm = mc.perm
  BY <1>1, <1>2, <1>5 DEF Worked
<1>9. Typed(mc) => Typed(b)
  <2>1. k.iv = None \/ k.iv \in Units
    BY DEF AuthOp, Units
  <2>2. 0 \in Hashed
    BY DEF Hashed, V
  <2> QED
    BY <1>1, <1>2, <1>6, <2>1, <2>2 DEF Typed
<1>10. Sized(mc, k) => Sized(b, k)
  BY <1>8 DEF Sized, cryptodev_get_dst_len
<1> QED
  BY <1>1, <1>2, <1>6, <1>7, <1>8, <1>9, <1>10 DEF b

LEMMA AuthResult ==
  ASSUME NEW mc, IsMachine(mc), NEW k, k \in AuthOp
  PROVE  /\ mc.cipher = None => Refused(mc, Result(mc, k)) /\ Result(mc, k).pages = mc.pages
         /\ mc.cipher # None =>
              Result(mc, k) = IF k.mode = "SRTP" THEN crypto_auth_zc_srtp(Begun(mc, k), k)
                              ELSE IF mc.cipher = "aead" THEN crypto_auth_zc_aead(Begun(mc, k), k)
                              ELSE IF k.mode = "TLS" THEN crypto_auth_zc_tls(Begun(mc, k), k)
                              ELSE Ret(Begun(mc, k), "EINVAL")
<1> DEFINE m0 == Fresh(mc)
<1>1. IsMachine(m0) /\ m0.cipher = mc.cipher /\ m0.pages = mc.pages
      /\ m0.mem = mc.mem /\ m0.iv = mc.iv
  BY FreshFact
<1>2. Result(mc, k) = crypto_auth_run(m0, k)
  <2>1. k.mode # "CRYPT"
    BY DEF AuthOp
  <2> QED
    BY <2>1, Zenon DEF Result, Fresh
<1>3. m0.h = mc.h
  BY DEF Fresh, IsMachine, Fields
<1> HIDE DEF m0
<1>4. Same(m0, m0)
  BY DEF Same
<1>5. ASSUME mc.cipher = None
      PROVE  Refused(mc, Result(mc, k)) /\ Result(mc, k).pages = mc.pages
  <2>1. crypto_auth_run(m0, k) = Ret(m0, "EINVAL")
    BY <1>1, <1>5, Zenon DEF crypto_auth_run
  <2>2. Refused(m0, Ret(m0, "EINVAL")) /\ Ret(m0, "EINVAL").pages = m0.pages
    BY <1>1, <1>4, RetRefused
  <2> QED
    BY <1>1, <1>2, <1>3, <2>1, <2>2 DEF Refused
<1>6. ASSUME mc.cipher # None
      PROVE  Result(mc, k) = IF k.mode = "SRTP" THEN crypto_auth_zc_srtp(Begun(mc, k), k)
                             ELSE IF mc.cipher = "aead" THEN crypto_auth_zc_aead(Begun(mc, k), k)
                             ELSE IF k.mode = "TLS" THEN crypto_auth_zc_tls(Begun(mc, k), k)
                             ELSE Ret(Begun(mc, k), "EINVAL")
  BY <1>1, <1>2, <1>6, Zenon DEF crypto_auth_run, Begun, m0
<1> QED
  BY <1>5, <1>6

LEMMA DstFits ==
  ASSUME NEW mc, mc.blocksize \in Nat \ {0}, NEW k, k \in AuthOp, Sized(mc, k)
  PROVE  /\ k.len \in Nat /\ k.dst_len \in Nat /\ k.len <= k.dst_len
         /\ k.op = "DECRYPT" => k.dst_len = k.len
<1> DEFINE n == k.len + k.tag_len
<1>1. k.len \in Nat /\ k.tag_len \in Nat /\ n \in Nat /\ k.dst_len \in Nat /\ k.len <= n
  BY DEF AuthOp, DIGESTSIZE
<1>2. k.op = "DECRYPT" => k.dst_len = k.len
  BY DEF Sized, cryptodev_get_dst_len
<1>3. k.op # "DECRYPT" => k.dst_len = IF k.mode = "TLS" THEN n + PadLen(n, mc.blocksize) ELSE n
  BY DEF Sized, cryptodev_get_dst_len
<1> HIDE DEF n
<1>4. PadLen(n, mc.blocksize) \in 1..mc.blocksize
  <2>1. n <= n
    BY <1>1
  <2> QED
    BY <1>1, <2>1, PaddedMonotonic
<1> QED
  BY <1>1, <1>2, <1>3, <1>4

LEMMA AccessibleUnits ==
  ASSUME NEW mc, UnitMemory(mc.mem), NEW a \in Nat, NEW n \in Nat, NEW len \in Nat, n <= len,
         NEW write, Accessible(mc.perm, a, len, write)
  PROVE  UnitSeq(Read(mc.mem, a, n)) /\ Len(Read(mc.mem, a, n)) = n /\ Span(a, n) \subseteq Addr
<1>1. Span(a, len) \subseteq Addr
  BY AccessibleCovers
<1>2. Span(a, n) \subseteq Span(a, len)
  BY FitsSpan, NatIsInt
<1>3. Span(a, n) \subseteq Addr
  BY <1>1, <1>2
<1> QED
  BY <1>3, NatIsInt, ReadUnits

(* Any CIOCAUTHCRYPT leaves units behind, and no fewer pages.              *)
LEMMA AuthTyped ==
  ASSUME NEW mc, IsMachine(mc), Balanced(mc), mc.blocksize \in Nat \ {0},
         mc.authsize \in 1..DIGESTSIZE, Typed(mc),
         NEW k, k \in AuthOp, Sized(mc, k), SrtpWithin(k)
  PROVE  Typed(Result(mc, k)) /\ Len(Result(mc, k).pages) >= Len(mc.pages)
<1> DEFINE b == Begun(mc, k)
           r == Result(mc, k)
           auth == Read(b.mem, k.auth_src, k.auth_len)
<1>1. /\ k.len \in Nat /\ k.dst_len \in Nat /\ k.len <= k.dst_len
      /\ k.dst \in Nat /\ k.src \in Nat /\ k.auth_src \in Nat /\ k.auth_len \in Nat
      /\ k.tag_len \in 0..DIGESTSIZE /\ k.dst \in Int /\ (k.tag # None => k.tag \in Int)
      /\ k.mode \in {"TLS", "SRTP", "AEAD"}
  <2>1. k.len \in Nat /\ k.dst_len \in Nat /\ k.len <= k.dst_len
    BY DstFits
  <2> QED
    BY <2>1 DEF AuthOp
<1>2. CASE mc.cipher = None
  <2>1. Refused(mc, r) /\ r.pages = mc.pages
    BY <1>2, AuthResult
  <2>2. Len(mc.pages) \in Nat
    BY SeqFact DEF IsMachine
  <2> HIDE DEF r
  <2>3. Typed(r) /\ Len(r.pages) >= Len(mc.pages)
    BY <2>1, <2>2, RefusedTyped
  <2> QED
    BY <2>3 DEF r
<1>3. CASE mc.cipher # None
  <2>1. /\ IsMachine(b) /\ b.ret = "0" /\ b.pages = mc.pages /\ Balanced(b) /\ Typed(b)
        /\ b.cipher = mc.cipher /\ b.blocksize = mc.blocksize /\ b.authsize = mc.authsize
        /\ Sized(b, k) /\ b.blocksize \in Nat \ {0} /\ b.authsize \in 1..DIGESTSIZE
    BY <1>3, BegunFact
  <2>2. r = IF k.mode = "SRTP" THEN crypto_auth_zc_srtp(b, k)
            ELSE IF mc.cipher = "aead" THEN crypto_auth_zc_aead(b, k)
            ELSE IF k.mode = "TLS" THEN crypto_auth_zc_tls(b, k)
            ELSE Ret(b, "EINVAL")
    BY <1>3, AuthResult
  <2> HIDE DEF b, r
  <2>3. UnitMemory(b.mem) /\ b.iv \in Units /\ Len(b.pages) \in Nat
    BY <2>1, SeqFact DEF Typed, IsMachine
  <2>4. \A x : Refused(b, x) => Typed(x)
    BY <2>1, RefusedTyped
  <2>5. CASE k.mode = "SRTP"
    <3>1. r = crypto_auth_zc_srtp(b, k)
      BY <2>2, <2>5
    <3>2. /\ Len(r.pages) >= Len(b.pages)
          /\ Refused(b, r) \/ (SrtpReady(b, k) /\ SrtpHanded(b, r, k))
      BY <2>1, <2>5, <3>1, SrtpRuns
    <3>3. ASSUME SrtpReady(b, k), SrtpHanded(b, r, k) PROVE Typed(r)
      <4> DEFINE o == SrtpOut(b, k)
                 mem == Write(b.mem, k.dst, o.data)
      <4>1. Accessible(b.perm, k.auth_src, k.auth_len, TRUE)
        BY <3>3 DEF SrtpReady
      <4>2. UnitSeq(Read(b.mem, k.src, k.len))
        <5>1. k.auth_len > 0 /\ k.src >= k.auth_src
          BY <1>1, <3>3 DEF SrtpReady
        <5>2. k.src + k.len <= k.auth_src + k.auth_len
          BY <2>5, <5>1 DEF SrtpWithin
        <5>3. Span(k.src, k.len) \subseteq Span(k.auth_src, k.auth_len)
          BY <1>1, <5>1, <5>2 DEF Span
        <5>4. Span(k.auth_src, k.auth_len) \subseteq Addr
          BY <4>1, AccessibleCovers
        <5> QED
          BY <1>1, <2>3, <5>3, <5>4, NatIsInt, ReadUnits
      <4>3. UnitOut(o)
        BY <2>3, <4>2, SrtpUnits
      <4>4. r.mem = SrtpMem(b, k) /\ r.iv = o.iv /\ r.h = b.h
        BY <3>3 DEF SrtpHanded
      <4> HIDE DEF o
      <4>5. UnitMemory(mem)
        BY <1>1, <2>3, <4>3, WriteUnits DEF UnitOut
      <4> HIDE DEF mem
      <4>6. UnitSeq(TagOf(mem, k))
        <5> DEFINE s == Read(mem, k.auth_src, k.auth_len)
        <5>1. Span(k.auth_src, k.auth_len) \subseteq Addr
          BY <4>1, AccessibleCovers
        <5>2. IntSeq(s)
          BY <1>1, <4>5, <5>1, NatIsInt, ReadUnits, UnitsAreInts
        <5> HIDE DEF s
        <5>3. 0 \in Hashed
          BY DEF Hashed, V
        <5>4. Hash(0, s) \in Hashed
          BY <5>2, <5>3, HashValue
        <5>5. UnitSeq(SubSeq(Digest(Hash(0, s)), 1, k.tag_len))
          BY <1>1, <5>4, TagUnits
        <5> QED
          BY <5>5 DEF TagOf, s
      <4>7. UnitMemory(Write(mem, k.tag, TagOf(mem, k)))
        <5>1. k.tag \in Int
          BY <1>1, <2>5 DEF SrtpWithin
        <5> QED
          BY <4>5, <4>6, <5>1, WriteUnits
      <4>8. UnitMemory(r.mem)
        BY <4>4, <4>5, <4>7 DEF SrtpMem, mem, o
      <4> QED
        BY <2>1, <4>3, <4>4, <4>8 DEF Typed, UnitOut
    <3>4. Typed(r)
      BY <2>4, <3>2, <3>3
    <3> QED
      BY <2>1, <3>2, <3>4 DEF r
  <2>6. CASE k.mode # "SRTP" /\ mc.cipher = "aead"
    <3>1. r = crypto_auth_zc_aead(b, k)
      BY <2>2, <2>6
    <3>2. /\ Len(r.pages) >= Len(b.pages)
          /\ Refused(b, r) \/ (AeadReady(b, k) /\ AeadHanded(b, r, k))
      BY <2>1, <2>6, <3>1, AeadRuns
    <3>3. ASSUME AeadReady(b, k), AeadHanded(b, r, k) PROVE Typed(r)
      <4> DEFINE o == AeadOut(b, k)
      <4>1. UnitSeq(auth) /\ UnitSeq(Read(b.mem, k.src, k.len))
        <5>1. k.len <= k.len /\ k.auth_len <= k.auth_len
          BY <1>1
        <5> QED
          BY <1>1, <2>3, <3>3, <5>1, AccessibleUnits DEF AeadReady, AuthReady
      <4>2. UnitSeq(o.data)
        BY <1>1, <2>3, <4>1, AeadUnits
      <4>3. r.mem = Write(b.mem, k.dst, o.data) /\ r.iv = b.iv /\ r.h = b.h
        BY <3>3 DEF AeadHanded
      <4> HIDE DEF o
      <4>4. UnitMemory(r.mem)
        BY <1>1, <2>3, <4>2, <4>3, WriteUnits
      <4> QED
        BY <2>1, <4>3, <4>4 DEF Typed
    <3>4. Typed(r)
      BY <2>4, <3>2, <3>3
    <3> QED
      BY <2>1, <3>2, <3>4 DEF r
  <2>7. CASE k.mode # "SRTP" /\ mc.cipher # "aead" /\ k.mode = "TLS"
    <3>1. r = crypto_auth_zc_tls(b, k)
      BY <2>2, <2>7
    <3>2. /\ Len(r.pages) >= Len(b.pages)
          /\ Refused(b, r) \/ (TlsReady(b, k) /\ Handed(b, r, k, TlsOut(b, k)))
      BY <2>1, <2>7, <3>1, TlsRuns
    <3>3. ASSUME TlsReady(b, k), Handed(b, r, k, TlsOut(b, k)) PROVE Typed(r)
      <4> DEFINE data == Read(b.mem, k.dst, k.len)
      <4>1. UnitSeq(auth) /\ UnitSeq(data)
        <5>1. k.auth_len <= k.auth_len
          BY <1>1
        <5> QED
          BY <1>1, <2>3, <3>3, <5>1, AccessibleUnits DEF TlsReady, AuthReady
      <4>2. TlsOut(b, k) = IF k.op = "ENCRYPT" THEN TlsEncrypt(b, k, auth, data)
                                               ELSE TlsDecrypt(b, k, auth, data)
        BY Zenon DEF TlsOut
      <4> HIDE DEF auth, data
      <4>3. UnitOut(TlsOut(b, k))
        BY <1>1, <2>1, <2>3, <4>1, <4>2, TlsUnits
      <4> QED
        BY <1>1, <2>1, <3>3, <4>3, HandedTyped DEF UnitOut
    <3>4. Typed(r)
      BY <2>4, <3>2, <3>3
    <3> QED
      BY <2>1, <3>2, <3>4 DEF r
  <2>8. CASE k.mode # "SRTP" /\ mc.cipher # "aead" /\ k.mode # "TLS"
    <3>1. r = Ret(b, "EINVAL")
      BY <2>2, <2>8
    <3>2. Same(b, b)
      BY DEF Same
    <3>3. Refused(b, r) /\ r.pages = b.pages
      BY <2>1, <3>1, <3>2, RetRefused
    <3>4. Typed(r) /\ Len(r.pages) >= Len(mc.pages)
      BY <2>1, <2>3, <2>4, <3>3
    <3> QED
      BY <3>4 DEF r
  <2> QED
    BY <2>5, <2>6, <2>7, <2>8
<1> QED
  BY <1>2, <1>3

(***************************************************************************)
(* The operation that undoes one that authenticates, as the invariant's    *)
(* Undo fills it in.                                                       *)
(***************************************************************************)
AuthUndo(mc, r, k) ==
  fill_kcaop_from_caop(r, [CryptUndo(mc, k) EXCEPT !.len = r.len])

BegunIv(mc, k) == IF k.iv = None THEN mc.iv ELSE k.iv

LEMMA UndoFact ==
  ASSUME NEW mc, mc.iv \in Units, NEW r, r.len \in Nat, r.hash = mc.hash,
         r.cipher = mc.cipher, NEW k, k \in AuthOp, Sized(mc, k)
  PROVE  LET u == AuthUndo(mc, r, k)
         IN  /\ u \in AuthOp /\ u.op = "DECRYPT" /\ u.src = k.dst /\ u.dst = k.dst
             /\ u.len = r.len /\ u.dst_len = r.len /\ u.mode = k.mode
             /\ u.auth_src = k.auth_src /\ u.auth_len = k.auth_len
             /\ u.tag = k.tag /\ u.tag_len = k.tag_len
             /\ u.iv = BegunIv(mc, k) /\ u.iv # None /\ u.iv \in Units
             /\ \A f : f.cipher = mc.cipher /\ f.hash = mc.hash => Sized(f, u)
<1> DEFINE iv == BegunIv(mc, k)
           c == [CryptUndo(mc, k) EXCEPT !.len = r.len]
           c1 == IF c.tag_len = 0 THEN [c EXCEPT !.tag_len = cryptodev_get_tag_len(r)] ELSE c
           u == AuthUndo(mc, r, k)
<1>1. iv \in Units /\ iv # None
  <2>1. iv \in Units
    BY DEF AuthOp, Units, BegunIv
  <2>2. iv \in Int
    BY <2>1 DEF Units, V
  <2> QED
    BY <2>1, <2>2, ZcAssumption
<1>2. c = [k EXCEPT !.op = "DECRYPT", !.src = k.dst, !.iv = iv, !.len = r.len]
  BY DEF AuthOp, CryptUndo, BegunIv
<1> HIDE DEF iv
<1>3. /\ c \in AuthOp /\ c.op = "DECRYPT" /\ c.src = k.dst /\ c.dst = k.dst
      /\ c.len = r.len /\ c.mode = k.mode
      /\ c.auth_src = k.auth_src /\ c.auth_len = k.auth_len
      /\ c.tag = k.tag /\ c.tag_len = k.tag_len /\ c.iv = iv
  <2> HIDE DEF c
  <2> QED
    BY <1>1, <1>2 DEF AuthOp, Units
<1> HIDE DEF c
<1>4. c1 = c
  <2>1. ASSUME c.tag_len = 0 PROVE [c EXCEPT !.tag_len = cryptodev_get_tag_len(r)] = c
    <3>1. cryptodev_get_tag_len(r) = 0
      BY <1>3, <2>1 DEF Sized, cryptodev_get_tag_len
    <3> QED
      BY <1>3, <2>1, <3>1 DEF AuthOp
  <2> QED
    BY <2>1
<1>5. u = [c1 EXCEPT !.dst_len = cryptodev_get_dst_len(r, c1)]
  BY Zenon DEF AuthUndo, fill_kcaop_from_caop, c
<1>6. cryptodev_get_dst_len(r, c) = c.len
  BY <1>3 DEF cryptodev_get_dst_len
<1>7. u = [c EXCEPT !.dst_len = r.len]
  BY <1>3, <1>4, <1>5, <1>6
<1> HIDE DEF u
<1>8. /\ u \in AuthOp /\ u.op = "DECRYPT" /\ u.src = k.dst /\ u.dst = k.dst
      /\ u.len = r.len /\ u.dst_len = r.len /\ u.mode = k.mode
      /\ u.auth_src = k.auth_src /\ u.auth_len = k.auth_len
      /\ u.tag = k.tag /\ u.tag_len = k.tag_len /\ u.iv = iv
  BY <1>3, <1>7 DEF AuthOp
<1>9. \A f : f.cipher = mc.cipher /\ f.hash = mc.hash => Sized(f, u)
  BY <1>8 DEF Sized, cryptodev_get_dst_len
<1> QED
  BY <1>1, <1>8, <1>9 DEF u, iv

(* What was written comes back, as far as one reads.                       *)
LEMMA ReadPrefix ==
  ASSUME NEW mem, IsMemory(mem), NEW a \in Int, NEW s, IsSeq(s), NEW t, IsSeq(t),
         Len(t) <= Len(s), Span(a, Len(s)) \subseteq Addr,
         \A i \in 1..Len(t) : s[i] = t[i]
  PROVE  Read(Write(mem, a, s), a, Len(t)) = t
<1> DEFINE w == Write(mem, a, s)
           x == Read(w, a, Len(t))
<1>1. Len(t) \in Nat /\ Len(s) \in Nat
  BY SeqFact
<1>2. IsSeq(x) /\ Len(x) = Len(t) /\ \A i \in 1..Len(t) : x[i] = w[a + i - 1]
  BY <1>1, ReadFact
<1>3. \A b \in Addr : w[b] = IF b \in Span(a, Len(s)) THEN s[b - a + 1] ELSE mem[b]
  BY WriteFact DEF IsMemory
<1> HIDE DEF x, w
<1>4. ASSUME NEW i \in 1..Len(t) PROVE x[i] = t[i]
  <2>1. a + i - 1 \in Span(a, Len(s)) /\ (a + i - 1) - a + 1 = i
    BY <1>1, <1>4 DEF Span
  <2>2. w[a + i - 1] = s[(a + i - 1) - a + 1]
    BY <1>3, <2>1
  <2> QED
    BY <1>2, <2>1, <2>2
<1>5. x = t
  BY <1>2, <1>4, SameSeq
<1> QED
  BY <1>5 DEF x, w

(* Two memories that agree on a span read the same there.                  *)
LEMMA ReadAlike ==
  ASSUME NEW x, NEW y, NEW a \in Int, NEW n \in Nat, \A b \in Span(a, n) : x[b] = y[b]
  PROVE  Read(x, a, n) = Read(y, a, n)
<1>1. /\ IsSeq(Read(x, a, n)) /\ Len(Read(x, a, n)) = n
      /\ IsSeq(Read(y, a, n)) /\ Len(Read(y, a, n)) = n
      /\ \A i \in 1..n : Read(x, a, n)[i] = x[a + i - 1] /\ Read(y, a, n)[i] = y[a + i - 1]
  BY ReadFact
<1>2. \A i \in 1..n : a + i - 1 \in Span(a, n)
  BY DEF Span
<1> QED
  BY <1>1, <1>2, SameSeq

(* The same, but for the first unit.                                       *)
Altered(s, t) ==
  /\ UnitSeq(s) /\ UnitSeq(t) /\ Len(s) = Len(t) /\ Len(s) > 0
  /\ s[1] # t[1] /\ \A i \in 2..Len(s) : s[i] = t[i]

(* What an operation needs so that another can undo it: see Undoable.      *)
UndoableIn(mc, k) ==
  /\ k.mode = "SRTP" =>
       /\ k.len >= DIGESTSIZE
       /\ Span(k.tag, DIGESTSIZE) \cap Span(k.auth_src, k.auth_len) = {}
  /\ k.mode # "SRTP" => Span(k.dst, k.len + DIGESTSIZE + mc.blocksize)
                          \cap Span(k.auth_src, k.auth_len) = {}
  /\ k.mode = "TLS" => k.len > 0

Ready(mc) ==
  /\ IsMachine(mc) /\ Balanced(mc) /\ Typed(mc)
  /\ mc.blocksize \in Nat \ {0} /\ mc.authsize \in 1..DIGESTSIZE

Encrypting(mc, k) ==
  /\ Ready(mc) /\ mc.blocksize <= V /\ mc.cipher # None
  /\ k \in AuthOp /\ k.op = "ENCRYPT" /\ Sized(mc, k)
  /\ SrtpWithin(k) /\ InPlaceOnly(k) /\ UndoableIn(mc, k)

(* A machine that differs from another in what k authenticates.            *)
Alike(r, f, k) ==
  /\ IsMachine(f) /\ Balanced(f) /\ Typed(f)
  /\ f.cipher = r.cipher /\ f.blocksize = r.blocksize /\ f.hash = r.hash
  /\ f.authsize = r.authsize /\ f.perm = r.perm /\ f.pages = r.pages
  /\ \A a \in Addr \ Span(k.auth_src, k.auth_len) : f.mem[a] = r.mem[a]

(* q is what mc becomes by an operation and the one that undoes it.        *)
Inverted(mc, q, k) ==
  /\ q.ret = "0" /\ q.len = k.len
  /\ Read(q.mem, k.dst, k.len) = Read(mc.mem, k.src, k.len)

LEMMA OpFields ==
  ASSUME NEW k, k \in AuthOp
  PROVE  /\ k.len \in Nat /\ k.dst_len \in Nat /\ k.dst \in Nat /\ k.src \in Nat
         /\ k.dst \in Int /\ k.src \in Int /\ k.auth_src \in Int
         /\ k.auth_src \in Nat /\ k.auth_len \in Nat /\ k.tag_len \in 0..DIGESTSIZE
         /\ k.tag_len \in Nat /\ k.tag_len <= DIGESTSIZE
         /\ k.mode \in {"TLS", "SRTP", "AEAD"} /\ (k.tag # None => k.tag \in Int)
BY DEF AuthOp, DIGESTSIZE

LEMMA RoomAfter ==
  ASSUME NEW mc, mc.blocksize \in Nat \ {0}, NEW k, k \in AuthOp, k.op = "ENCRYPT", Sized(mc, k)
  PROVE  /\ k.len + k.tag_len <= k.dst_len
         /\ k.dst_len <= k.len + DIGESTSIZE + mc.blocksize
<1> DEFINE n == k.len + k.tag_len
           p == PadLen(n, mc.blocksize)
<1>1. n \in Nat /\ k.len \in Nat /\ n <= k.len + DIGESTSIZE
  BY OpFields DEF DIGESTSIZE
<1>2. k.dst_len = IF k.mode = "TLS" THEN n + p ELSE n
  BY DEF Sized, cryptodev_get_dst_len
<1> HIDE DEF n
<1>3. p \in 1..mc.blocksize
  <2>1. n <= n
    BY <1>1
  <2> QED
    BY <1>1, <2>1, PaddedMonotonic
<1> HIDE DEF p
<1>4. n <= k.dst_len /\ k.dst_len <= k.len + DIGESTSIZE + mc.blocksize
  BY <1>1, <1>2, <1>3 DEF DIGESTSIZE
<1> QED
  BY <1>4 DEF n

LEMMA EncryptBegins ==
  ASSUME NEW mc, NEW k, Encrypting(mc, k)
  PROVE  LET b == Begun(mc, k)
             r == Result(mc, k)
         IN  /\ Ready(b) /\ b.ret = "0" /\ b.pages = mc.pages
             /\ b.cipher = mc.cipher /\ b.blocksize = mc.blocksize /\ b.hash = mc.hash
             /\ b.authsize = mc.authsize /\ b.mem = mc.mem /\ b.perm = mc.perm
             /\ b.iv = BegunIv(mc, k) /\ Sized(b, k)
             /\ Ready(r) /\ r.cipher = mc.cipher /\ r.blocksize = mc.blocksize
             /\ r.hash = mc.hash /\ r.perm = mc.perm
<1>1. Settled(mc, Result(mc, k), Target(k))
  <2>1. Fitted(mc, k)
    BY DEF Fitted, Encrypting
  <2> QED
    BY <2>1, ResultSettled DEF Encrypting, Ready
<1>2. Typed(Result(mc, k))
  BY AuthTyped DEF Encrypting, Ready
<1> DEFINE r == Result(mc, k)
<1> HIDE DEF r
<1>3. Ready(r) /\ r.cipher = mc.cipher /\ r.blocksize = mc.blocksize
      /\ r.hash = mc.hash /\ r.perm = mc.perm
  BY <1>1, <1>2 DEF r, Settled, Ready, Encrypting
<1>4. LET b == Begun(mc, k)
      IN  /\ IsMachine(b) /\ b.ret = "0" /\ b.pages = mc.pages
          /\ Balanced(b) /\ Typed(b)
          /\ b.cipher = mc.cipher /\ b.blocksize = mc.blocksize /\ b.hash = mc.hash
          /\ b.authsize = mc.authsize /\ b.mem = mc.mem /\ b.perm = mc.perm
          /\ b.iv = IF k.iv = None THEN mc.iv ELSE k.iv
          /\ Sized(b, k)
  BY BegunFact DEF Encrypting, Ready
<1> DEFINE b == Begun(mc, k)
<1> HIDE DEF b
<1>5. Ready(b)
  BY <1>4 DEF b, Ready, Encrypting
<1> QED
  BY <1>3, <1>4, <1>5 DEF r, b, BegunIv

LEMMA UndoBegins ==
  ASSUME NEW mc, NEW k, Encrypting(mc, k), Result(mc, k).len \in Nat,
         NEW f, Alike(Result(mc, k), f, k)
  PROVE  LET r == Result(mc, k)
             u == AuthUndo(mc, r, k)
             d == Begun(f, u)
         IN  /\ Ready(d) /\ d.ret = "0" /\ d.pages = r.pages
             /\ d.cipher = mc.cipher /\ d.blocksize = mc.blocksize /\ d.hash = mc.hash
             /\ d.authsize = r.authsize /\ d.mem = f.mem /\ d.perm = mc.perm
             /\ d.iv = BegunIv(mc, k) /\ Sized(d, u)
             /\ u \in AuthOp /\ u.op = "DECRYPT" /\ u.src = k.dst /\ u.dst = k.dst
             /\ u.len = r.len /\ u.dst_len = r.len /\ u.mode = k.mode
             /\ u.auth_src = k.auth_src /\ u.auth_len = k.auth_len
             /\ u.tag = k.tag /\ u.tag_len = k.tag_len
<1> DEFINE r == Result(mc, k)
           u == AuthUndo(mc, r, k)
           d == Begun(f, u)
<1>1. Ready(r) /\ r.cipher = mc.cipher /\ r.blocksize = mc.blocksize
      /\ r.hash = mc.hash /\ r.perm = mc.perm
  BY EncryptBegins
<1>2. r.len \in Nat /\ Alike(r, f, k)
  OBVIOUS
<1> HIDE DEF r
<1>3. /\ u \in AuthOp /\ u.op = "DECRYPT" /\ u.src = k.dst /\ u.dst = k.dst
      /\ u.len = r.len /\ u.dst_len = r.len /\ u.mode = k.mode
      /\ u.auth_src = k.auth_src /\ u.auth_len = k.auth_len
      /\ u.tag = k.tag /\ u.tag_len = k.tag_len
      /\ u.iv = BegunIv(mc, k) /\ u.iv # None /\ u.iv \in Units
      /\ \A g : g.cipher = mc.cipher /\ g.hash = mc.hash => Sized(g, u)
  BY <1>1, <1>2, UndoFact DEF Encrypting, Ready, Typed
<1> HIDE DEF u
<1>4. /\ IsMachine(f) /\ Balanced(f) /\ Typed(f) /\ f.cipher = mc.cipher
      /\ f.cipher # None /\ f.blocksize = mc.blocksize /\ f.hash = mc.hash
      /\ f.authsize = r.authsize /\ f.perm = mc.perm /\ f.pages = r.pages
  BY <1>1, <1>2 DEF Alike, Encrypting
<1>5. Sized(f, u)
  BY <1>3, <1>4
<1>6. /\ IsMachine(d) /\ d.ret = "0" /\ d.pages = f.pages
      /\ Balanced(d) /\ Typed(d)
      /\ d.cipher = f.cipher /\ d.blocksize = f.blocksize /\ d.hash = f.hash
      /\ d.authsize = f.authsize /\ d.mem = f.mem /\ d.perm = f.perm
      /\ d.iv = (IF u.iv = None THEN f.iv ELSE u.iv) /\ Sized(d, u)
  BY <1>3, <1>4, <1>5, BegunFact
<1> HIDE DEF d
<1>7. Ready(d)
  BY <1>1, <1>4, <1>6 DEF Ready
<1>8. d.iv = BegunIv(mc, k)
  BY <1>3, <1>6
<1> QED
  BY <1>3, <1>4, <1>6, <1>7, <1>8 DEF d, u, r

(* A TLS record that was padded and encrypted: the machine f, alike but for *)
(* what was authenticated, undoes it if that is what it was, and finds a   *)
(* change of it by the whole tag within the record.                        *)
LEMMA TlsInverted ==
  ASSUME NEW mc, NEW k, Encrypting(mc, k), k.mode = "TLS", mc.cipher # "aead",
         Result(mc, k).ret = "0", NEW f, Alike(Result(mc, k), f, k)
  PROVE  LET r == Result(mc, k)
             q == Result(f, AuthUndo(mc, r, k))
             s == Read(r.mem, k.auth_src, k.auth_len)
             t == Read(f.mem, k.auth_src, k.auth_len)
         IN  /\ Span(k.auth_src, k.auth_len) \subseteq Addr
             /\ f.mem = r.mem => Inverted(mc, q, k)
             /\ Altered(s, t) /\ k.tag_len = DIGESTSIZE /\ mc.hash => q.ret = "EBADMSG"
<1> DEFINE r == Result(mc, k)
           b == Begun(mc, k)
           u == AuthUndo(mc, r, k)
           d == Begun(f, u)
           q == Result(f, u)
           s == Read(r.mem, k.auth_src, k.auth_len)
           other == Read(f.mem, k.auth_src, k.auth_len)
           auth == Read(b.mem, k.auth_src, k.auth_len)
           data == Read(b.mem, k.dst, k.len)
           o == TlsEncrypt(b, k, auth, data)
           c == o.data
           p == Padded(b, Record(b, k, auth, data))
<1>1. /\ k.len \in Nat /\ k.dst_len \in Nat /\ k.dst \in Nat /\ k.auth_src \in Nat
      /\ k.auth_len \in Nat /\ k.tag_len \in 0..DIGESTSIZE /\ k.dst \in Int /\ k.auth_src \in Int
      /\ k \in AuthOp /\ k.op = "ENCRYPT" /\ k.src = k.dst /\ k.len > 0
      /\ Span(k.dst, k.len + DIGESTSIZE + mc.blocksize) \cap Span(k.auth_src, k.auth_len) = {}
      /\ mc.blocksize \in Nat \ {0} /\ mc.blocksize <= V /\ mc.cipher # None
      /\ IsMachine(mc) /\ Sized(mc, k)
  BY OpFields DEF Encrypting, UndoableIn, InPlaceOnly, Ready
<1>2. k.len <= k.dst_len /\ k.dst_len <= k.len + DIGESTSIZE + mc.blocksize
  BY <1>1, RoomAfter, DstFits
<1>3. /\ Ready(b) /\ b.ret = "0" /\ b.pages = mc.pages
      /\ b.cipher = mc.cipher /\ b.blocksize = mc.blocksize /\ b.hash = mc.hash
      /\ b.authsize = mc.authsize /\ b.mem = mc.mem /\ b.perm = mc.perm
      /\ b.iv = BegunIv(mc, k) /\ Sized(b, k)
      /\ Ready(r) /\ r.perm = mc.perm
  BY EncryptBegins
<1>4. r = crypto_auth_zc_tls(b, k)
  BY <1>1, AuthResult
<1>5. r.ret = "0" /\ Alike(r, f, k)
  OBVIOUS
<1>6. r.len \in Nat =>
        /\ Ready(d) /\ d.ret = "0" /\ d.pages = r.pages
        /\ d.cipher = mc.cipher /\ d.blocksize = mc.blocksize /\ d.hash = mc.hash
        /\ d.authsize = r.authsize /\ d.mem = f.mem /\ d.perm = mc.perm
        /\ d.iv = BegunIv(mc, k) /\ Sized(d, u)
        /\ u \in AuthOp /\ u.op = "DECRYPT" /\ u.src = k.dst /\ u.dst = k.dst
        /\ u.len = r.len /\ u.dst_len = r.len /\ u.mode = k.mode
        /\ u.auth_src = k.auth_src /\ u.auth_len = k.auth_len
        /\ u.tag = k.tag /\ u.tag_len = k.tag_len
  BY UndoBegins
<1> HIDE DEF r
<1>7. /\ TlsReady(b, k) /\ Handed(b, r, k, TlsOut(b, k))
      /\ PAGECOUNT(k.dst, k.dst_len) <= Len(r.pages)
  <2>1. Refused(b, r) \/ (/\ TlsReady(b, k) /\ Handed(b, r, k, TlsOut(b, k))
                          /\ PAGECOUNT(k.dst, k.dst_len) <= Len(r.pages))
    BY <1>1, <1>3, <1>4, TlsRuns DEF Ready
  <2> QED
    BY <1>5, <2>1 DEF Refused
<1> HIDE DEF b, u, d, q
<1>8. /\ UnitSeq(auth) /\ Len(auth) = k.auth_len /\ Span(k.auth_src, k.auth_len) \subseteq Addr
      /\ UnitSeq(data) /\ Len(data) = k.len
      /\ Span(k.dst, k.dst_len) \subseteq Addr
  <2>1. k.auth_len <= k.auth_len /\ UnitMemory(b.mem)
    BY <1>1, <1>3 DEF Ready, Typed
  <2>2. Accessible(b.perm, k.auth_src, k.auth_len, FALSE)
        /\ Accessible(b.perm, k.dst, k.dst_len, TRUE)
    BY <1>7 DEF TlsReady, AuthReady
  <2>3. /\ UnitSeq(auth) /\ Len(auth) = k.auth_len /\ Span(k.auth_src, k.auth_len) \subseteq Addr
    BY <1>1, <2>1, <2>2, AccessibleUnits
  <2>4. UnitSeq(data) /\ Len(data) = k.len
    <3>1. /\ UnitMemory(b.mem) /\ k.dst \in Nat /\ k.len \in Nat /\ k.dst_len \in Nat
          /\ k.len <= k.dst_len /\ Accessible(b.perm, k.dst, k.dst_len, TRUE)
      BY <1>1, <1>2, <2>1, <2>2
    <3> QED
      BY <3>1, AccessibleUnits, Zenon
  <2>5. Span(k.dst, k.dst_len) \subseteq Addr
    BY <2>2, AccessibleCovers
  <2> QED
    BY <2>3, <2>4, <2>5
<1>9. TlsOut(b, k) = o
  BY <1>1, Zenon DEF TlsOut, o, auth, data
<1>10. o = Out("0", Encrypt(b.iv, p), Len(p), NextIv(b.iv, Encrypt(b.iv, p)))
  BY TlsEncrypted
<1> HIDE DEF auth, data
<1>11. UnitSeq(c) /\ Len(c) = o.len /\ o.len >= k.len /\ o.ret = "0"
  <2>1. UnitSeq(p) /\ Len(p) >= k.len
    <3> DEFINE rec == Record(b, k, auth, data)
               n == Padding(b, rec)
    <3>1. UnitSeq(rec) /\ Len(rec) = Len(data) + (IF b.hash THEN k.tag_len ELSE 0)
      <4>1. k.tag_len \in 0..DIGESTSIZE /\ UnitSeq(auth) /\ UnitSeq(data)
        BY <1>1, <1>8
      <4>2. UnitSeq(rec)
        BY <4>1, RecordFact
      <4>3. Len(rec) = Len(data) + (IF b.hash THEN k.tag_len ELSE 0)
        BY <4>1, RecordFact
      <4> QED
        BY <4>2, <4>3
    <3>2. b.blocksize \in Nat \ {0} /\ b.blocksize <= V
      BY <1>1, <1>3
    <3> HIDE DEF rec
    <3>3. UnitSeq(Padded(b, rec)) /\ n \in Nat /\ Len(Padded(b, rec)) = Len(rec) + n
      BY <3>1, <3>2, PaddedFact
    <3>4. Len(rec) \in Nat /\ Len(rec) >= k.len
      BY <1>1, <1>8, <3>1 DEF DIGESTSIZE
    <3> HIDE DEF n
    <3>5. Len(Padded(b, rec)) >= k.len
      BY <1>1, <3>3, <3>4
    <3> QED
      BY <3>3, <3>5 DEF rec
  <2>2. c = Encrypt(b.iv, p) /\ o.len = Len(p) /\ o.ret = "0"
    BY <1>10 DEF Out
  <2> HIDE DEF p, c, o
  <2>3. b.iv \in Int
    BY <1>3, UnitIsInt DEF Ready, Typed
  <2>4. UnitSeq(c) /\ Len(c) = Len(p)
    BY <2>1, <2>2, <2>3, UnitsAreInts, EncryptUnits
  <2> QED
    BY <2>1, <2>2, <2>4
<1>12. Len(c) \in Nat /\ Len(c) <= k.dst_len
  BY <1>1, <1>3, <1>8, TlsEncryptFits DEF UnitSeq
<1>13. r.mem = Write(mc.mem, k.dst, c) /\ r.len = Len(c)
  BY <1>3, <1>7, <1>9, <1>11 DEF Handed
<1> HIDE DEF p, o, c
<1>14. /\ Ready(d) /\ d.ret = "0" /\ d.pages = r.pages
       /\ d.cipher = mc.cipher /\ d.blocksize = mc.blocksize /\ d.hash = mc.hash
       /\ d.mem = f.mem /\ d.perm = mc.perm
       /\ d.iv = BegunIv(mc, k) /\ Sized(d, u)
       /\ u \in AuthOp /\ u.op = "DECRYPT" /\ u.dst = k.dst
       /\ u.len = r.len /\ u.dst_len = r.len /\ u.mode = k.mode
       /\ u.auth_src = k.auth_src /\ u.auth_len = k.auth_len
       /\ u.tag_len = k.tag_len
  BY <1>6, <1>12, <1>13
<1>15. Span(k.dst, Len(c)) \subseteq Addr
       /\ Span(k.dst, Len(c)) \cap Span(k.auth_src, k.auth_len) = {}
  <2> DEFINE l == k.len + DIGESTSIZE + mc.blocksize
  <2>1. l \in Nat /\ Len(c) <= l
    BY <1>1, <1>2, <1>12 DEF DIGESTSIZE
  <2> HIDE DEF l
  <2>2. Span(k.dst, Len(c)) \subseteq Span(k.dst, l)
        /\ Span(k.dst, Len(c)) \subseteq Span(k.dst, k.dst_len)
    BY <1>1, <1>12, <2>1, FitsSpan
  <2>3. Span(k.dst, l) \cap Span(k.auth_src, k.auth_len) = {}
    BY <1>1 DEF l
  <2> QED
    BY <1>8, <2>2, <2>3
<1>16. TlsReady(d, u)
  <2> DEFINE acc == Accessible(d.perm, u.dst, u.dst_len, TRUE)
  <2>1. acc
    <3>1. Accessible(mc.perm, k.dst, k.dst_len, TRUE)
      BY <1>3, <1>7 DEF TlsReady
    <3>2. 0 + Len(c) <= k.dst_len /\ k.dst + 0 = k.dst /\ 0 \in Nat
      BY <1>1, <1>12
    <3>3. Accessible(mc.perm, k.dst + 0, Len(c), TRUE)
      BY <1>1, <1>12, <3>1, <3>2, AccessiblePart
    <3> QED
      BY <1>13, <1>14, <3>2, <3>3
  <2> HIDE DEF acc
  <2>2. AuthReady(d, u)
    BY <1>3, <1>7, <1>14 DEF TlsReady, AuthReady
  <2>3. u.dst_len # 0
    BY <1>1, <1>11, <1>12, <1>13, <1>14
  <2> QED
    BY <2>1, <2>2, <2>3 DEF TlsReady, acc
<1>17. PAGECOUNT(u.dst, u.dst_len) <= Len(d.pages)
  <2>1. PAGECOUNT(k.dst, Len(c)) <= PAGECOUNT(k.dst, k.dst_len)
    BY <1>1, <1>12, PageCountMonotonic
  <2>2. PAGECOUNT(k.dst, Len(c)) \in Nat /\ PAGECOUNT(k.dst, k.dst_len) \in Nat
    BY <1>1, <1>12, PageFact
  <2>3. Len(r.pages) \in Nat
    BY <1>3, SeqFact DEF Ready, IsMachine
  <2>4. PAGECOUNT(k.dst, Len(c)) <= Len(r.pages)
    BY <1>7, <2>1, <2>2, <2>3
  <2> QED
    BY <1>13, <1>14, <2>4
<1>18. Handed(d, q, u, TlsOut(d, u))
  <2>1. q = crypto_auth_zc_tls(d, u)
    <3>1. IsMachine(f) /\ f.cipher = r.cipher
      BY <1>5 DEF Alike
    <3>2. f.cipher = mc.cipher
      BY <3>1, EncryptBegins DEF r
    <3> QED
      BY <1>1, <1>14, <3>1, <3>2, AuthResult DEF q, d
  <2> QED
    BY <1>1, <1>14, <1>16, <1>17, <2>1, TlsRuns DEF Ready
<1>19. Read(f.mem, k.dst, Len(c)) = c
  <2>1. Read(r.mem, k.dst, Len(c)) = c
    BY <1>1, <1>3, <1>11, <1>13, <1>15, ReadWritten DEF Ready, IsMachine, UnitSeq
  <2>2. \A a \in Span(k.dst, Len(c)) : f.mem[a] = r.mem[a]
    BY <1>5, <1>15 DEF Alike
  <2>3. Read(f.mem, k.dst, Len(c)) = Read(r.mem, k.dst, Len(c))
    BY <1>1, <1>12, <2>2, ReadAlike
  <2> QED
    BY <2>1, <2>3
<1>20. s = auth
  <2>1. Span(k.auth_src, k.auth_len) \cap Span(k.dst, Len(c)) = {}
    BY <1>15
  <2> QED
    BY <1>1, <1>3, <1>8, <1>13, <2>1, ReadElsewhere DEF Ready, IsMachine, auth
<1>21. TlsOut(d, u) = TlsDecrypt(d, u, other, c)
  <2>1. Read(d.mem, u.auth_src, u.auth_len) = other /\ Read(d.mem, u.dst, u.len) = c
    BY <1>13, <1>14, <1>19
  <2>2. u.op # "ENCRYPT"
    BY <1>14
  <2> HIDE DEF other
  <2> QED
    BY <2>1, <2>2, Zenon DEF TlsOut
<1> DEFINE e == TlsDecrypt(d, u, other, c)
           same == MacOf(other, data, k.tag_len) = MacOf(auth, data, k.tag_len)
<1>22. /\ ~b.hash \/ same => TextBack(e, u, data)
       /\ b.hash /\ ~same => e.ret = "EBADMSG"
  <2>1. b.blocksize \in Nat \ {0} /\ b.blocksize <= V /\ b.iv \in Units
    BY <1>1, <1>3 DEF Ready, Typed
  <2>2. d.iv = b.iv /\ d.hash = b.hash /\ d.blocksize = b.blocksize
        /\ u.tag_len = k.tag_len /\ u.len = TlsEncrypt(b, k, auth, data).len
    BY <1>3, <1>11, <1>13, <1>14 DEF o
  <2>3. c = TlsEncrypt(b, k, auth, data).data
    BY DEF c, o
  <2>4. k.tag_len \in 0..DIGESTSIZE /\ UnitSeq(auth) /\ UnitSeq(data)
    BY <1>1, <1>8
  <2> HIDE DEF other
  <2> QED
    BY <2>1, <2>2, <2>3, <2>4, TlsUndone
<1>23. q.mem = Write(d.mem, u.dst, e.data) /\ q.ret = e.ret /\ q.len = e.len
  BY <1>18, <1>21 DEF Handed
<1>24. f.mem = r.mem => Inverted(mc, q, k)
  <2> SUFFICES ASSUME f.mem = r.mem PROVE Inverted(mc, q, k)
    OBVIOUS
  <2>1. other = auth
    BY <1>20
  <2> HIDE DEF e
  <2>2. /\ e.ret = "0" /\ e.len = Len(data)
        /\ Len(e.data) = u.len /\ IsSeq(e.data) /\ Len(data) <= u.len
        /\ \A i \in 1..Len(data) : e.data[i] = data[i]
    <3>1. same
      BY <2>1
    <3> HIDE DEF same
    <3> QED
      BY <1>22, <3>1 DEF TextBack
  <2>3. Read(Write(d.mem, k.dst, e.data), k.dst, Len(data)) = data
    <3>1. IsMemory(d.mem)
      BY <1>14 DEF Ready, IsMachine
    <3>2. Span(k.dst, Len(e.data)) \subseteq Addr /\ Len(data) <= Len(e.data)
      BY <1>13, <1>14, <1>15, <2>2
    <3>3. IsSeq(data)
      BY <1>8 DEF UnitSeq
    <3> QED
      BY <1>1, <2>2, <3>1, <3>2, <3>3, ReadPrefix
  <2>4. Read(q.mem, k.dst, k.len) = data
    BY <1>8, <1>14, <1>23, <2>3
  <2>5. data = Read(mc.mem, k.src, k.len)
    BY <1>1, <1>3 DEF data
  <2> QED
    BY <1>8, <1>23, <2>2, <2>4, <2>5 DEF Inverted
<1>25. Altered(s, other) /\ k.tag_len = DIGESTSIZE /\ mc.hash => q.ret = "EBADMSG"
  <2> SUFFICES ASSUME Altered(s, other), k.tag_len = DIGESTSIZE, mc.hash
               PROVE  q.ret = "EBADMSG"
    OBVIOUS
  <2>1. IntSeq(data)
    BY <1>8, UnitsAreInts
  <2>2. Altered(auth, other)
    BY <1>20
  <2> HIDE DEF other, e
  <2>3. MacOf(auth, data, DIGESTSIZE) # MacOf(other, data, DIGESTSIZE)
    BY <2>1, <2>2, MacTells DEF Altered
  <2> QED
    BY <1>3, <1>22, <1>23, <2>3 DEF e
<1> QED
  BY <1>8, <1>24, <1>25 DEF q, u, r, s, other

(* The same of the kernel's AEAD cipher, whose tag follows the text.       *)
LEMMA AeadInverted ==
  ASSUME NEW mc, NEW k, Encrypting(mc, k), k.mode # "SRTP", mc.cipher = "aead",
         Result(mc, k).ret = "0", NEW f, Alike(Result(mc, k), f, k)
  PROVE  LET r == Result(mc, k)
             q == Result(f, AuthUndo(mc, r, k))
             s == Read(r.mem, k.auth_src, k.auth_len)
             t == Read(f.mem, k.auth_src, k.auth_len)
         IN  /\ Span(k.auth_src, k.auth_len) \subseteq Addr
             /\ f.mem = r.mem => Inverted(mc, q, k)
             /\ Altered(s, t) /\ k.tag_len = DIGESTSIZE => q.ret = "EBADMSG"
<1> DEFINE r == Result(mc, k)
           b == Begun(mc, k)
           u == AuthUndo(mc, r, k)
           d == Begun(f, u)
           q == Result(f, u)
           s == Read(r.mem, k.auth_src, k.auth_len)
           other == Read(f.mem, k.auth_src, k.auth_len)
           auth == Read(b.mem, k.auth_src, k.auth_len)
           data == Read(b.mem, k.src, k.len)
           p == [iv |-> b.iv, authsize |-> k.tag_len]
           e == AeadEncrypt(p, auth, data).data
           o == AeadDecrypt(p, other, e)
           c == Encrypt(p.iv, data)
           same == TagAgrees(p, auth, other, data)
<1>1. /\ k.len \in Nat /\ k.dst_len \in Nat /\ k.dst \in Nat /\ k.auth_src \in Nat
      /\ k.src \in Nat
      /\ k.auth_len \in Nat /\ k.tag_len \in 0..DIGESTSIZE /\ k.dst \in Int /\ k.auth_src \in Int
      /\ k \in AuthOp /\ k.op = "ENCRYPT" /\ k.tag_len \in Nat /\ k.tag_len <= DIGESTSIZE
      /\ Span(k.dst, k.len + DIGESTSIZE + mc.blocksize) \cap Span(k.auth_src, k.auth_len) = {}
      /\ mc.blocksize \in Nat \ {0} /\ mc.cipher # None
      /\ IsMachine(mc) /\ Sized(mc, k)
  BY OpFields DEF Encrypting, UndoableIn, InPlaceOnly, Ready
<1>2. k.len <= k.dst_len /\ k.dst_len <= k.len + DIGESTSIZE + mc.blocksize
      /\ k.len + k.tag_len <= k.dst_len
  BY <1>1, RoomAfter, DstFits
<1>3. /\ Ready(b) /\ b.ret = "0" /\ b.pages = mc.pages
      /\ b.cipher = mc.cipher /\ b.blocksize = mc.blocksize /\ b.hash = mc.hash
      /\ b.authsize = mc.authsize /\ b.mem = mc.mem /\ b.perm = mc.perm
      /\ b.iv = BegunIv(mc, k) /\ Sized(b, k)
      /\ Ready(r) /\ r.perm = mc.perm
  BY EncryptBegins
<1>4. r = crypto_auth_zc_aead(b, k)
  BY <1>1, AuthResult
<1>5. r.ret = "0" /\ Alike(r, f, k)
  OBVIOUS
<1>6. r.len \in Nat =>
        /\ Ready(d) /\ d.ret = "0" /\ d.pages = r.pages
        /\ d.cipher = mc.cipher /\ d.blocksize = mc.blocksize /\ d.hash = mc.hash
        /\ d.authsize = r.authsize /\ d.mem = f.mem /\ d.perm = mc.perm
        /\ d.iv = BegunIv(mc, k) /\ Sized(d, u)
        /\ u \in AuthOp /\ u.op = "DECRYPT" /\ u.src = k.dst /\ u.dst = k.dst
        /\ u.len = r.len /\ u.dst_len = r.len /\ u.mode = k.mode
        /\ u.auth_src = k.auth_src /\ u.auth_len = k.auth_len
        /\ u.tag = k.tag /\ u.tag_len = k.tag_len
  BY UndoBegins
<1> HIDE DEF r
<1>7. /\ AeadReady(b, k) /\ AeadHanded(b, r, k) /\ PAGECOUNT(k.dst, k.dst_len) <= Len(r.pages)
  <2>1. b.cipher = "aead"
    BY <1>3
  <2>2. \/ Refused(b, r)
        \/ AeadReady(b, k) /\ AeadHanded(b, r, k) /\ PAGECOUNT(k.dst, k.dst_len) <= Len(r.pages)
    BY <1>1, <1>3, <1>4, <2>1, AeadRuns DEF Ready
  <2> QED
    BY <1>5, <2>2 DEF Refused
<1> HIDE DEF b, u, d, q
<1>8. /\ UnitSeq(auth) /\ Len(auth) = k.auth_len /\ Span(k.auth_src, k.auth_len) \subseteq Addr
      /\ UnitSeq(data) /\ Len(data) = k.len
      /\ Span(k.dst, k.dst_len) \subseteq Addr
  <2>1. k.auth_len <= k.auth_len /\ k.len <= k.len /\ UnitMemory(b.mem)
    BY <1>1, <1>3 DEF Ready, Typed
  <2>2. Accessible(b.perm, k.auth_src, k.auth_len, FALSE)
        /\ Accessible(b.perm, k.src, k.len, FALSE)
        /\ Accessible(b.perm, k.dst, k.dst_len, TRUE)
    BY <1>7 DEF AeadReady, AuthReady
  <2>3. /\ UnitSeq(auth) /\ Len(auth) = k.auth_len /\ Span(k.auth_src, k.auth_len) \subseteq Addr
    BY <1>1, <2>1, <2>2, AccessibleUnits
  <2>4. UnitSeq(data) /\ Len(data) = k.len
    <3>1. k.src \in Nat /\ k.len \in Nat
      BY <1>1
    <3> QED
      BY <2>1, <2>2, <3>1, AccessibleUnits
  <2>5. Span(k.dst, k.dst_len) \subseteq Addr
    BY <2>2, AccessibleCovers
  <2> QED
    BY <2>3, <2>4, <2>5
<1>9. /\ AeadOut(b, k).data = e /\ AeadOut(b, k).ret = "0"
  <2>1. AeadOut(b, k) = AeadEncrypt(p, auth, data)
    BY <1>1, Zenon DEF AeadOut, p, auth, data
  <2>2. AeadEncrypt(p, auth, data).ret = "0"
    BY DEF AeadEncrypt, Out
  <2> QED
    BY <2>1, <2>2
<1>10. p.iv = b.iv /\ p.authsize = k.tag_len
  OBVIOUS
<1> HIDE DEF auth, data
<1>11. UnitSeq(e) /\ Len(e) = k.len + k.tag_len
  <2>0. UnitSeq(auth) /\ UnitSeq(data)
    BY <1>8
  <2>1. p.iv \in Units /\ p.authsize \in 0..DIGESTSIZE
    BY <1>1, <1>3, <1>10 DEF Ready, Typed
  <2> HIDE DEF p
  <2>2. UnitSeq(AeadEncrypt(p, auth, data).data)
    BY <2>0, <2>1, AeadUndone
  <2>3. Len(AeadEncrypt(p, auth, data).data) = Len(data) + p.authsize
    BY <2>0, <2>1, AeadUndone
  <2> QED
    BY <1>8, <1>10, <2>2, <2>3
<1>12. /\ same => o.ret = "0" /\ o.data = data
       /\ ~same => o.ret = "EBADMSG"
  <2>0. UnitSeq(auth) /\ UnitSeq(data)
    BY <1>8
  <2>1. p.iv \in Units /\ p.authsize \in 0..DIGESTSIZE
    BY <1>1, <1>3, <1>10 DEF Ready, Typed
  <2> HIDE DEF p, other
  <2>2. same => o.ret = "0"
    BY <2>0, <2>1, AeadUndone
  <2>3. same => o.data = data
    BY <2>0, <2>1, AeadUndone
  <2>4. ~same => o.ret = "EBADMSG"
    BY <2>0, <2>1, AeadUndone
  <2> QED
    BY <2>2, <2>3, <2>4
<1> HIDE DEF e
<1>13. /\ r.mem = Write(mc.mem, k.dst, e) /\ r.len = k.len + k.tag_len
       /\ r.authsize = k.tag_len /\ r.len \in Nat
  <2>1. /\ r.mem = Write(b.mem, k.dst, e) /\ r.authsize = k.tag_len
        /\ r.len = k.len + 1 * k.tag_len
    BY <1>1, <1>7, <1>9 DEF AeadHanded
  <2> QED
    BY <1>1, <1>3, <2>1
<1>14. /\ Ready(d) /\ d.ret = "0" /\ d.pages = r.pages
       /\ d.cipher = mc.cipher /\ d.blocksize = mc.blocksize
       /\ d.authsize = r.authsize /\ d.mem = f.mem /\ d.perm = mc.perm
       /\ d.iv = BegunIv(mc, k) /\ Sized(d, u)
       /\ u \in AuthOp /\ u.op = "DECRYPT" /\ u.dst = k.dst /\ u.src = k.dst
       /\ u.len = r.len /\ u.dst_len = r.len /\ u.mode = k.mode
       /\ u.auth_src = k.auth_src /\ u.auth_len = k.auth_len
       /\ u.tag_len = k.tag_len
  BY <1>6, <1>13
<1>15. Span(k.dst, r.len) \subseteq Addr
       /\ Span(k.dst, r.len) \cap Span(k.auth_src, k.auth_len) = {}
  <2> DEFINE l == k.len + DIGESTSIZE + mc.blocksize
  <2>1. l \in Nat /\ r.len <= l /\ r.len <= k.dst_len
    BY <1>1, <1>2, <1>13 DEF DIGESTSIZE
  <2> HIDE DEF l
  <2>2. Span(k.dst, r.len) \subseteq Span(k.dst, l)
        /\ Span(k.dst, r.len) \subseteq Span(k.dst, k.dst_len)
    BY <1>1, <1>13, <2>1, FitsSpan
  <2>3. Span(k.dst, l) \cap Span(k.auth_src, k.auth_len) = {}
    BY <1>1 DEF l
  <2> QED
    BY <1>8, <2>2, <2>3
<1>16. AeadReady(d, u)
  <2> DEFINE acc == Accessible(d.perm, u.dst, u.dst_len, TRUE)
             reads == Accessible(d.perm, u.src, u.len, FALSE)
  <2>1. acc
    <3>1. Accessible(mc.perm, k.dst, k.dst_len, TRUE)
      BY <1>3, <1>7 DEF AeadReady
    <3>2. 0 + r.len <= k.dst_len /\ k.dst + 0 = k.dst /\ 0 \in Nat
      BY <1>1, <1>2, <1>13
    <3>3. Accessible(mc.perm, k.dst + 0, r.len, TRUE)
      BY <1>1, <1>13, <3>1, <3>2, AccessiblePart
    <3> QED
      BY <1>14, <3>2, <3>3
  <2>2. reads
    BY <1>14, <2>1, AccessibleToRead
  <2> HIDE DEF acc, reads
  <2>3. AuthReady(d, u)
    BY <1>3, <1>7, <1>14 DEF AeadReady, AuthReady
  <2>4. u.tag_len <= d.authsize
    BY <1>1, <1>13, <1>14
  <2> QED
    BY <2>1, <2>2, <2>3, <2>4 DEF AeadReady, acc, reads
<1>17. PAGECOUNT(u.dst, u.dst_len) <= Len(d.pages)
  <2>0. r.len <= k.dst_len
    BY <1>2, <1>13
  <2>1. PAGECOUNT(k.dst, r.len) <= PAGECOUNT(k.dst, k.dst_len)
    BY <1>1, <1>13, <2>0, PageCountMonotonic
  <2>2. PAGECOUNT(k.dst, r.len) \in Nat /\ PAGECOUNT(k.dst, k.dst_len) \in Nat
    BY <1>1, <1>13, PageFact
  <2>3. Len(r.pages) \in Nat
    BY <1>3, SeqFact DEF Ready, IsMachine
  <2>4. PAGECOUNT(k.dst, r.len) <= Len(r.pages)
    BY <1>7, <2>1, <2>2, <2>3
  <2> QED
    BY <1>14, <2>4
<1>18. AeadHanded(d, q, u)
  <2>1. q = crypto_auth_zc_aead(d, u)
    <3>1. IsMachine(f) /\ f.cipher = r.cipher
      BY <1>5 DEF Alike
    <3>2. f.cipher = mc.cipher
      BY <3>1, EncryptBegins DEF r
    <3> QED
      BY <1>1, <1>14, <3>1, <3>2, AuthResult DEF q, d
  <2>2. u.src = u.dst /\ u.len = u.dst_len /\ d.cipher = "aead" /\ u.mode # "SRTP"
    BY <1>14
  <2>3. d.blocksize \in Nat \ {0} /\ d.authsize \in 1..DIGESTSIZE /\ IsMachine(d) /\ Balanced(d)
    BY <1>14 DEF Ready
  <2> QED
    BY <1>14, <1>16, <1>17, <2>1, <2>2, <2>3, AeadRuns
<1>19. Read(f.mem, k.dst, r.len) = e
  <2>0. r.len = Len(e)
    BY <1>11, <1>13
  <2>1. Read(r.mem, k.dst, Len(e)) = e
    BY <1>1, <1>3, <1>11, <1>13, <1>15, <2>0, ReadWritten DEF Ready, IsMachine, UnitSeq
  <2>2. \A a \in Span(k.dst, r.len) : f.mem[a] = r.mem[a]
    BY <1>5, <1>15 DEF Alike
  <2>3. Read(f.mem, k.dst, r.len) = Read(r.mem, k.dst, r.len)
    BY <1>1, <1>13, <2>2, ReadAlike
  <2> QED
    BY <2>0, <2>1, <2>3
<1>20. s = auth
  <2>1. Span(k.auth_src, k.auth_len) \cap Span(k.dst, Len(e)) = {}
    BY <1>11, <1>13, <1>15
  <2>2. IsMemory(mc.mem)
    BY <1>1 DEF IsMachine
  <2>3. Read(Write(mc.mem, k.dst, e), k.auth_src, k.auth_len)
          = Read(mc.mem, k.auth_src, k.auth_len)
    BY <1>1, <1>8, <2>1, <2>2, ReadElsewhere
  <2> QED
    BY <1>3, <1>13, <2>3 DEF auth
<1>21. AeadOut(d, u) = o
  <2>1. Read(d.mem, u.auth_src, u.auth_len) = other /\ Read(d.mem, u.src, u.len) = e
    BY <1>13, <1>14, <1>19
  <2>2. u.op # "ENCRYPT" /\ d.iv = b.iv /\ u.tag_len = k.tag_len
    BY <1>3, <1>14
  <2> HIDE DEF other
  <2> QED
    BY <2>1, <2>2, Zenon DEF AeadOut, p, o
<1>22. q.mem = Write(d.mem, u.dst, o.data) /\ q.ret = o.ret
       /\ (o.ret = "0" => q.len = r.len + (-1) * k.tag_len)
  BY <1>14, <1>18, <1>21 DEF AeadHanded
<1>23. f.mem = r.mem => Inverted(mc, q, k)
  <2> SUFFICES ASSUME f.mem = r.mem PROVE Inverted(mc, q, k)
    OBVIOUS
  <2>1. same
    BY <1>20 DEF TagAgrees
  <2> HIDE DEF o, same
  <2>2. o.ret = "0" /\ o.data = data
    BY <1>12, <2>1
  <2>3. q.len = k.len
    BY <1>1, <1>13, <1>22, <2>2
  <2>4. Read(Write(d.mem, k.dst, data), k.dst, Len(data)) = data
    <3>1. IsMemory(d.mem)
      BY <1>14 DEF Ready, IsMachine
    <3>2. Span(k.dst, k.len) \subseteq Span(k.dst, k.dst_len)
      BY <1>1, <1>2, FitsSpan
    <3>3. IsSeq(data) /\ Span(k.dst, Len(data)) \subseteq Addr
      BY <1>8, <3>2 DEF UnitSeq
    <3> QED
      BY <1>1, <3>1, <3>3, ReadWritten
  <2>5. Read(q.mem, k.dst, k.len) = data
    BY <1>8, <1>14, <1>22, <2>2, <2>4
  <2>6. data = Read(mc.mem, k.src, k.len)
    BY <1>3 DEF data
  <2> QED
    BY <1>22, <2>2, <2>3, <2>5, <2>6 DEF Inverted
<1>24. Altered(s, other) /\ k.tag_len = DIGESTSIZE => q.ret = "EBADMSG"
  <2> SUFFICES ASSUME Altered(s, other), k.tag_len = DIGESTSIZE PROVE q.ret = "EBADMSG"
    OBVIOUS
  <2>1. IntSeq(c)
    <3>1. p.iv \in Int
      BY <1>3, <1>10, UnitIsInt DEF Ready, Typed
    <3> HIDE DEF p
    <3> QED
      BY <1>8, <3>1, UnitsAreInts, EncryptUnits
  <2>2. Altered(auth, other)
    BY <1>20
  <2> HIDE DEF other, o, c
  <2>3. MacOf(auth, c, DIGESTSIZE) # MacOf(other, c, DIGESTSIZE)
    BY <2>1, <2>2, MacTells DEF Altered
  <2>4. ~same
    BY <1>10, <2>3 DEF TagAgrees, c
  <2> QED
    BY <1>12, <1>22, <2>4
<1> QED
  BY <1>8, <1>23, <1>24 DEF q, u, r, s, other

(* The same of SRTP, whose tag lies apart and is checked before anything is *)
(* decrypted: a refusal leaves the memory as it was.                       *)
LEMMA SrtpInverted ==
  ASSUME NEW mc, NEW k, Encrypting(mc, k), k.mode = "SRTP",
         Result(mc, k).ret = "0", NEW f, Alike(Result(mc, k), f, k)
  PROVE  LET r == Result(mc, k)
             q == Result(f, AuthUndo(mc, r, k))
             s == Read(r.mem, k.auth_src, k.auth_len)
             t == Read(f.mem, k.auth_src, k.auth_len)
         IN  /\ mc.cipher # "aead" /\ Span(k.auth_src, k.auth_len) \subseteq Addr
             /\ f.mem = r.mem => Inverted(mc, q, k)
             /\ Altered(s, t) /\ k.tag_len = DIGESTSIZE /\ mc.hash
                  => q.ret = "EBADMSG" /\ q.mem = f.mem
<1> DEFINE r == Result(mc, k)
           b == Begun(mc, k)
           u == AuthUndo(mc, r, k)
           d == Begun(f, u)
           q == Result(f, u)
           s == Read(r.mem, k.auth_src, k.auth_len)
           other == Read(f.mem, k.auth_src, k.auth_len)
           data == Read(b.mem, k.src, k.len)
           o == SrtpOut(b, k)
           c == Encrypt(b.iv, data)
           mem == Write(mc.mem, k.dst, c)
           tag == TagOf(mem, k)
           o2 == SrtpOut(d, u)
           wrong == SubSeq(Digest(Hash(0, other)), 1, k.tag_len)
<1>1. /\ k.len \in Nat /\ k.dst_len \in Nat /\ k.dst \in Nat /\ k.auth_src \in Nat
      /\ k.auth_len \in Nat /\ k.tag_len \in 0..DIGESTSIZE /\ k.dst \in Int /\ k.auth_src \in Int
      /\ k \in AuthOp /\ k.op = "ENCRYPT" /\ k.src = k.dst /\ k.src \in Nat
      /\ k.tag_len \in Nat /\ k.tag_len <= DIGESTSIZE /\ k.tag \in Int
      /\ k.len >= DIGESTSIZE
      /\ Span(k.tag, DIGESTSIZE) \cap Span(k.auth_src, k.auth_len) = {}
      /\ (k.auth_len > 0 /\ k.src >= k.auth_src => k.src + k.len <= k.auth_src + k.auth_len)
      /\ mc.cipher # None /\ IsMachine(mc) /\ Sized(mc, k)
  BY OpFields DEF Encrypting, UndoableIn, InPlaceOnly, Ready, SrtpWithin
<1>2. /\ Ready(b) /\ b.ret = "0" /\ b.pages = mc.pages
      /\ b.cipher = mc.cipher /\ b.blocksize = mc.blocksize /\ b.hash = mc.hash
      /\ b.authsize = mc.authsize /\ b.mem = mc.mem /\ b.perm = mc.perm
      /\ b.iv = BegunIv(mc, k) /\ Sized(b, k)
      /\ Ready(r) /\ r.perm = mc.perm
  BY EncryptBegins
<1>3. r = crypto_auth_zc_srtp(b, k)
  BY <1>1, AuthResult
<1>4. r.ret = "0" /\ Alike(r, f, k)
  OBVIOUS
<1>5. r.len \in Nat =>
        /\ Ready(d) /\ d.ret = "0" /\ d.pages = r.pages
        /\ d.cipher = mc.cipher /\ d.blocksize = mc.blocksize /\ d.hash = mc.hash
        /\ d.authsize = r.authsize /\ d.mem = f.mem /\ d.perm = mc.perm
        /\ d.iv = BegunIv(mc, k) /\ Sized(d, u)
        /\ u \in AuthOp /\ u.op = "DECRYPT" /\ u.src = k.dst /\ u.dst = k.dst
        /\ u.len = r.len /\ u.dst_len = r.len /\ u.mode = k.mode
        /\ u.auth_src = k.auth_src /\ u.auth_len = k.auth_len
        /\ u.tag = k.tag /\ u.tag_len = k.tag_len
  BY UndoBegins
<1> HIDE DEF r
<1>6. /\ SrtpReady(b, k) /\ SrtpHanded(b, r, k)
      /\ 2 * PAGECOUNT(k.auth_src, k.auth_len) <= Len(r.pages)
  <2>1. Refused(b, r) \/ (/\ SrtpReady(b, k) /\ SrtpHanded(b, r, k)
                          /\ 2 * PAGECOUNT(k.auth_src, k.auth_len) <= Len(r.pages))
    BY <1>1, <1>2, <1>3, SrtpRuns DEF Ready
  <2> QED
    BY <1>4, <2>1 DEF Refused
<1> HIDE DEF b, u, d, q
<1> DEFINE tagged == Accessible(b.perm, k.tag, k.tag_len, TRUE)
<1>7. /\ o.data = c /\ o.len = k.len
      /\ o.ret = IF b.hash /\ ~tagged THEN "EFAULT" ELSE "0"
  <2>1. o = SrtpEncrypt(b, k)
    BY <1>1, Zenon DEF SrtpOut
  <2>2. SrtpEncrypt(b, k) = Out(IF b.hash /\ ~tagged THEN "EFAULT" ELSE "0", c, k.len, NextIv(b.iv, c))
    BY Zenon DEF SrtpEncrypt, c, data
  <2> HIDE DEF tagged, c, o
  <2> QED
    BY <2>1, <2>2 DEF Out
<1>8. o.ret = "0" /\ r.len = k.len /\ r.mem = SrtpMem(b, k)
  <2> HIDE DEF tagged, o, c
  <2>1. r.ret = o.ret /\ r.mem = SrtpMem(b, k) /\ r.len = IF o.ret = "0" THEN o.len ELSE k.dst_len
    BY <1>6 DEF SrtpHanded, o
  <2> QED
    BY <1>4, <1>7, <2>1
<1>9. b.hash => tagged
  <2> HIDE DEF tagged, o, c
  <2> QED
    BY <1>7, <1>8
<1> HIDE DEF tagged
<1>10. /\ Ready(d) /\ d.ret = "0" /\ d.pages = r.pages
       /\ d.cipher = mc.cipher /\ d.blocksize = mc.blocksize /\ d.hash = mc.hash
       /\ d.mem = f.mem /\ d.perm = mc.perm
       /\ d.iv = b.iv /\ Sized(d, u)
       /\ u \in AuthOp /\ u.op = "DECRYPT" /\ u.dst = k.dst /\ u.src = k.dst
       /\ u.len = k.len /\ u.dst_len = k.len /\ u.mode = k.mode
       /\ u.auth_src = k.auth_src /\ u.auth_len = k.auth_len
       /\ u.tag = k.tag /\ u.tag_len = k.tag_len
  BY <1>1, <1>2, <1>5, <1>8
<1>11. b.cipher = "stream" /\ k.auth_len # 0 /\ ~(k.src < k.auth_src)
       /\ Accessible(b.perm, k.auth_src, k.auth_len, TRUE)
  BY <1>6 DEF SrtpReady
<1>12. /\ Span(k.auth_src, k.auth_len) \subseteq Addr
       /\ Span(k.dst, k.len) \subseteq Span(k.auth_src, k.auth_len)
       /\ Span(k.dst, k.len) \subseteq Addr
       /\ Span(k.tag, k.tag_len) \cap Span(k.auth_src, k.auth_len) = {}
  <2>1. Span(k.auth_src, k.auth_len) \subseteq Addr
    BY <1>11, AccessibleCovers
  <2>2. k.auth_len > 0 /\ k.src >= k.auth_src
    BY <1>1, <1>11
  <2>3. Span(k.dst, k.len) \subseteq Span(k.auth_src, k.auth_len)
    BY <1>1, <2>2 DEF Span
  <2>4. Span(k.tag, k.tag_len) \subseteq Span(k.tag, DIGESTSIZE)
    BY <1>1, FitsSpan DEF DIGESTSIZE
  <2> QED
    BY <1>1, <2>1, <2>3, <2>4
<1>13. UnitSeq(data) /\ Len(data) = k.len
  BY <1>1, <1>2, <1>12, ReadUnits DEF Ready, Typed
<1>14. data = Read(mc.mem, k.src, k.len)
  BY <1>2 DEF data
<1> HIDE DEF data
<1>15. UnitSeq(c) /\ Len(c) = k.len /\ Decrypt(b.iv, c) = data
  <2>1. b.iv \in Int
    BY <1>2, UnitIsInt DEF Ready, Typed
  <2> QED
    BY <1>13, <2>1, UnitsAreInts, EncryptUnits, DecryptEncrypt
<1> HIDE DEF c
<1>16. UnitMemory(mem) /\ IsMemory(mem) /\ IsMemory(mc.mem)
  <2>1. UnitMemory(mc.mem)
    BY <1>2 DEF Ready, Typed
  <2>2. UnitMemory(mem)
    BY <1>1, <1>15, <2>1, WriteUnits
  <2> QED
    BY <2>1, <2>2, UnitsAreMemory
<1>17. Read(mem, k.dst, k.len) = c
  BY <1>1, <1>12, <1>15, <1>16, ReadWritten DEF UnitSeq
<1> HIDE DEF mem
<1>18. r.mem = IF mc.hash THEN Write(mem, k.tag, tag) ELSE mem
  <2>1. SrtpMem(b, k) = IF Tagged(b, k) THEN Write(mem, k.tag, tag) ELSE mem
    <3>1. Write(b.mem, k.dst, o.data) = mem
      BY <1>2, <1>7 DEF mem
    <3> HIDE DEF o
    <3> QED
      BY <3>1, Zenon DEF SrtpMem, o
  <2>2. Tagged(b, k) <=> b.hash = TRUE
    <3> QED
      BY <1>1, <1>8 DEF Tagged
  <2> QED
    BY <1>2, <1>8, <2>1, <2>2
<1>19. IsSeq(tag) /\ Len(tag) = k.tag_len
  BY <1>1, TagFact DEF TagOf
<1>20. s = Read(mem, k.auth_src, k.auth_len)
  <2>1. Span(k.auth_src, k.auth_len) \cap Span(k.tag, Len(tag)) = {}
    BY <1>12, <1>19
  <2> HIDE DEF tag
  <2>2. Read(Write(mem, k.tag, tag), k.auth_src, k.auth_len) = Read(mem, k.auth_src, k.auth_len)
    BY <1>1, <1>12, <1>16, <2>1, ReadElsewhere
  <2> QED
    BY <1>18, <2>2
<1>21. tag = SubSeq(Digest(Hash(0, s)), 1, k.tag_len)
  BY <1>20 DEF TagOf
<1> HIDE DEF tag
<1>22. mc.hash => Read(f.mem, k.tag, k.tag_len) = tag
  <2> SUFFICES ASSUME mc.hash PROVE Read(f.mem, k.tag, k.tag_len) = tag
    OBVIOUS
  <2>1. Span(k.tag, k.tag_len) \subseteq Addr
    BY <1>2, <1>9, AccessibleCovers DEF tagged
  <2>2. Read(r.mem, k.tag, k.tag_len) = tag
    BY <1>1, <1>16, <1>18, <1>19, <2>1, ReadWritten
  <2>3. \A a \in Span(k.tag, k.tag_len) : f.mem[a] = r.mem[a]
    BY <1>4, <1>12, <2>1 DEF Alike
  <2>4. Read(f.mem, k.tag, k.tag_len) = Read(r.mem, k.tag, k.tag_len)
    BY <1>1, <2>3, ReadAlike
  <2> QED
    BY <2>2, <2>4
<1>23. Read(r.mem, k.dst, k.len) = c
  <2>1. Span(k.dst, k.len) \cap Span(k.tag, Len(tag)) = {}
    BY <1>12, <1>19
  <2>2. Read(Write(mem, k.tag, tag), k.dst, k.len) = Read(mem, k.dst, k.len)
    BY <1>1, <1>12, <1>16, <2>1, ReadElsewhere
  <2> QED
    BY <1>17, <1>18, <2>2
<1>24. SrtpHanded(d, q, u)
  <2>1. q = crypto_auth_zc_srtp(d, u)
    <3>1. IsMachine(f) /\ f.cipher = r.cipher
      BY <1>4 DEF Alike
    <3>2. f.cipher = mc.cipher
      BY <3>1, EncryptBegins DEF r
    <3> QED
      BY <1>1, <1>10, <3>1, <3>2, AuthResult DEF q, d
  <2>2. SrtpReady(d, u)
    <3> DEFINE acc == Accessible(d.perm, u.auth_src, u.auth_len, TRUE)
    <3>1. acc
      BY <1>2, <1>10, <1>11
    <3> HIDE DEF acc
    <3>2. d.cipher = "stream" /\ u.dst_len # 0 /\ u.auth_len # 0 /\ ~(u.src < u.auth_src)
      BY <1>1, <1>2, <1>10, <1>11 DEF DIGESTSIZE
    <3> QED
      BY <3>1, <3>2 DEF SrtpReady, acc
  <2>3. 2 * PAGECOUNT(u.auth_src, u.auth_len) <= Len(d.pages)
    BY <1>6, <1>10
  <2> QED
    BY <1>1, <1>10, <2>1, <2>2, <2>3, SrtpRuns DEF Ready
<1>25. q.mem = Write(d.mem, u.dst, o2.data) /\ q.ret = o2.ret
       /\ (o2.ret = "0" => q.len = o2.len)
  <2>1. ~Tagged(d, u)
    BY <1>10 DEF Tagged
  <2>2. SrtpMem(d, u) = Write(d.mem, u.dst, o2.data)
    BY <2>1, Zenon DEF SrtpMem, o2
  <2> HIDE DEF o2
  <2> QED
    BY <1>24, <2>2 DEF SrtpHanded, o2
<1> DEFINE got == Read(d.mem, u.src, u.len)
           acc == Accessible(d.perm, u.tag, u.tag_len, FALSE)
<1>26. o2 = IF d.hash /\ u.tag_len > u.len THEN Out("EINVAL", <<>>, u.dst_len, d.iv)
            ELSE IF d.hash /\ ~acc THEN Out("EFAULT", <<>>, u.dst_len, d.iv)
            ELSE IF d.hash /\ Read(d.mem, u.tag, u.tag_len) # wrong
                 THEN Out("EBADMSG", <<>>, u.dst_len, d.iv)
            ELSE Out("0", Decrypt(d.iv, got), u.len, NextIv(d.iv, got))
  <2>1. o2 = SrtpDecrypt(d, u, Read(d.mem, u.auth_src, u.auth_len))
    BY <1>10, Zenon DEF SrtpOut
  <2>2. Read(d.mem, u.auth_src, u.auth_len) = other /\ u.tag_len = k.tag_len
    BY <1>10
  <2> HIDE DEF other, o2, got
  <2> QED
    BY <2>1, <2>2, Zenon DEF SrtpDecrypt, wrong, got
<1>27. /\ ~(d.hash /\ u.tag_len > u.len) /\ ~(d.hash /\ ~acc)
       /\ (mc.hash => Read(d.mem, u.tag, u.tag_len) = tag)
  <2>1. u.tag_len <= u.len
    BY <1>1, <1>10 DEF DIGESTSIZE
  <2>2. mc.hash => acc
    BY <1>2, <1>9, <1>10, AccessibleToRead DEF tagged
  <2> HIDE DEF acc
  <2>3. ~(u.tag_len > u.len)
    BY <1>1, <1>10, <2>1
  <2> QED
    BY <1>10, <1>22, <2>2, <2>3
<1> HIDE DEF acc, o2, got, wrong
<1>28. o2 = IF mc.hash /\ tag # wrong THEN Out("EBADMSG", <<>>, k.len, b.iv)
            ELSE Out("0", Decrypt(b.iv, got), k.len, NextIv(b.iv, got))
  <2>1. d.hash = mc.hash /\ d.iv = b.iv /\ u.len = k.len /\ u.dst_len = k.len
    BY <1>10
  <2> QED
    BY <1>26, <1>27, <2>1
<1>29. f.mem = r.mem => Inverted(mc, q, k)
  <2> SUFFICES ASSUME f.mem = r.mem PROVE Inverted(mc, q, k)
    OBVIOUS
  <2>1. tag = wrong
    BY <1>21 DEF wrong
  <2>2. got = c
    BY <1>10, <1>23 DEF got
  <2>3. o2 = Out("0", data, k.len, NextIv(b.iv, got))
    BY <1>15, <1>28, <2>1, <2>2
  <2>4. o2.ret = "0" /\ o2.data = data /\ o2.len = k.len
    BY <2>3 DEF Out
  <2>5. Read(Write(d.mem, k.dst, data), k.dst, k.len) = data
    <3>1. IsMemory(d.mem) /\ IsSeq(data)
      BY <1>10, <1>13 DEF Ready, IsMachine, UnitSeq
    <3> QED
      BY <1>1, <1>12, <1>13, <3>1, ReadWritten
  <2> QED
    BY <1>10, <1>14, <1>25, <2>4, <2>5 DEF Inverted
<1>30. Altered(s, other) /\ k.tag_len = DIGESTSIZE /\ mc.hash
         => q.ret = "EBADMSG" /\ q.mem = f.mem
  <2> SUFFICES ASSUME Altered(s, other), k.tag_len = DIGESTSIZE, mc.hash
               PROVE  q.ret = "EBADMSG" /\ q.mem = f.mem
    OBVIOUS
  <2>1. tag # wrong
    <3> HIDE DEF s, other
    <3>1. Hash(0, s) # Hash(0, other)
      BY HashTells DEF Altered
    <3>2. 0 \in Hashed
      BY DEF Hashed, V
    <3>3. Hash(0, s) \in Hashed /\ Hash(0, other) \in Hashed
      BY <3>2, UnitsAreInts, HashValue DEF Altered
    <3> QED
      BY <1>21, <3>1, <3>3, TagTells DEF wrong
  <2>2. o2 = Out("EBADMSG", <<>>, k.len, b.iv)
    BY <1>28, <2>1
  <2>3. o2.ret = "EBADMSG" /\ o2.data = <<>>
    BY <2>2 DEF Out
  <2>4. Write(f.mem, k.dst, <<>>) = f.mem
    <3>1. IsMemory(f.mem)
      BY <1>4 DEF Alike, IsMachine
    <3> QED
      BY <1>1, <3>1, EmptyFact, WriteNothing
  <2> QED
    BY <1>10, <1>25, <2>3, <2>4
<1>31. mc.cipher # "aead"
  BY <1>2, <1>11
<1> QED
  BY <1>12, <1>29, <1>30, <1>31 DEF q, u, r, s, other

(* The three modes in one.                                                 *)
LEMMA AuthInverted ==
  ASSUME NEW mc, NEW k, Encrypting(mc, k), Result(mc, k).ret = "0",
         NEW f, Alike(Result(mc, k), f, k)
  PROVE  LET r == Result(mc, k)
             q == Result(f, AuthUndo(mc, r, k))
             s == Read(r.mem, k.auth_src, k.auth_len)
             t == Read(f.mem, k.auth_src, k.auth_len)
         IN  /\ Span(k.auth_src, k.auth_len) \subseteq Addr
             /\ f.mem = r.mem => Inverted(mc, q, k)
             /\ Altered(s, t) /\ k.tag_len = DIGESTSIZE /\ (mc.hash \/ mc.cipher = "aead")
                  => q.ret = "EBADMSG" /\ (k.mode = "SRTP" => q.mem = f.mem)
<1> DEFINE r == Result(mc, k)
           q == Result(f, AuthUndo(mc, r, k))
           s == Read(r.mem, k.auth_src, k.auth_len)
           t == Read(f.mem, k.auth_src, k.auth_len)
<1>1. k \in AuthOp /\ IsMachine(mc) /\ mc.cipher # None
  BY DEF Encrypting, Ready
<1>2. k.mode \in {"TLS", "SRTP", "AEAD"}
  BY <1>1, OpFields
<1>3. CASE k.mode = "SRTP"
  <2>1. /\ mc.cipher # "aead" /\ Span(k.auth_src, k.auth_len) \subseteq Addr
        /\ f.mem = r.mem => Inverted(mc, q, k)
        /\ Altered(s, t) /\ k.tag_len = DIGESTSIZE /\ mc.hash
             => q.ret = "EBADMSG" /\ q.mem = f.mem
    BY <1>3, SrtpInverted
  <2> HIDE DEF r, q, s, t
  <2> QED
    BY <2>1 DEF r, q, s, t
<1>4. CASE k.mode # "SRTP" /\ mc.cipher = "aead"
  <2>1. /\ Span(k.auth_src, k.auth_len) \subseteq Addr
        /\ f.mem = r.mem => Inverted(mc, q, k)
        /\ Altered(s, t) /\ k.tag_len = DIGESTSIZE => q.ret = "EBADMSG"
    BY <1>4, AeadInverted
  <2> HIDE DEF r, q, s, t
  <2> QED
    BY <1>4, <2>1 DEF r, q, s, t
<1>5. CASE k.mode = "TLS" /\ mc.cipher # "aead"
  <2>1. /\ Span(k.auth_src, k.auth_len) \subseteq Addr
        /\ f.mem = r.mem => Inverted(mc, q, k)
        /\ Altered(s, t) /\ k.tag_len = DIGESTSIZE /\ mc.hash => q.ret = "EBADMSG"
    BY <1>5, TlsInverted
  <2> HIDE DEF r, q, s, t
  <2> QED
    BY <1>5, <2>1 DEF r, q, s, t
<1>6. CASE k.mode = "AEAD" /\ mc.cipher # "aead"
  <2>1. r = Ret(Begun(mc, k), "EINVAL")
    BY <1>1, <1>6, AuthResult
  <2>2. Ready(Begun(mc, k))
    BY EncryptBegins
  <2>3. r.ret = "EINVAL"
    <3> DEFINE b == Begun(mc, k)
    <3> HIDE DEF b
    <3>1. DOMAIN b = Fields
      BY <2>2 DEF Ready, IsMachine, b
    <3>2. Ret(b, "EINVAL").ret = "EINVAL"
      BY <3>1 DEF Ret, Fields
    <3> QED
      BY <2>1, <3>2 DEF b
  <2>4. FALSE
    BY <2>3
  <2> QED
    BY <2>4
<1> QED
  BY <1>2, <1>3, <1>4, <1>5, <1>6

(* Undone right away, when nothing has changed.                            *)
LEMMA AuthUndone ==
  ASSUME NEW mc, NEW k, Encrypting(mc, k), Result(mc, k).ret = "0"
  PROVE  LET r == Result(mc, k)
         IN  /\ Inverted(mc, Result(r, AuthUndo(mc, r, k)), k)
             /\ Span(k.auth_src, k.auth_len) \subseteq Addr
<1> DEFINE r == Result(mc, k)
<1>1. Ready(r) /\ r.ret = "0"
  BY EncryptBegins
<1>2. Alike(r, r, k)
  <2> HIDE DEF r
  <2> QED
    BY <1>1 DEF Ready, Alike
<1> QED
  BY <1>1, <1>2, AuthInverted

(* A unit that is counted up is another.                                   *)
LEMMA Counted ==
  ASSUME NEW x \in Units
  PROVE  (x + 1) % V \in Units /\ (x + 1) % V # x
BY DEF Units, V

LEMMA ChangedFact ==
  ASSUME NEW r, Ready(r), NEW a \in Addr
  PROVE  LET f == Changed(r, a)
         IN  /\ IsMachine(f) /\ Balanced(f) /\ Typed(f)
             /\ f.cipher = r.cipher /\ f.blocksize = r.blocksize /\ f.hash = r.hash
             /\ f.authsize = r.authsize /\ f.perm = r.perm /\ f.pages = r.pages
             /\ f.mem[a] # r.mem[a]
             /\ \A b \in Addr \ {a} : f.mem[b] = r.mem[b]
<1> DEFINE mem == [r.mem EXCEPT ![a] = (@ + 1) % V]
           f == [r EXCEPT !.mem = mem]
<1>1. IsMachine(r) /\ Balanced(r) /\ UnitMemory(r.mem) /\ r.iv \in Units /\ r.h \in Hashed
  BY DEF Ready, Typed
<1>2. Changed(r, a) = f
  BY <1>1 DEF Changed, IsMachine, Fields
<1>3. r.mem[a] \in Units /\ DOMAIN r.mem = Addr
  BY <1>1 DEF UnitMemory
<1>4. UnitMemory(mem) /\ mem[a] # r.mem[a] /\ \A b \in Addr \ {a} : mem[b] = r.mem[b]
  <2>1. (r.mem[a] + 1) % V \in Units /\ (r.mem[a] + 1) % V # r.mem[a]
    BY <1>3, Counted
  <2> QED
    BY <1>1, <1>3, <2>1 DEF UnitMemory
<1> HIDE DEF mem
<1>5. /\ DOMAIN f = Fields /\ f.mem = mem
      /\ f.cipher = r.cipher /\ f.blocksize = r.blocksize /\ f.hash = r.hash
      /\ f.iv = r.iv /\ f.h = r.h
      /\ f.authsize = r.authsize /\ f.perm = r.perm /\ f.pages = r.pages
      /\ f.used_pages = r.used_pages /\ f.pins = r.pins
      /\ f.oops = r.oops /\ f.spoiled = r.spoiled
  BY <1>1 DEF IsMachine, Fields
<1> HIDE DEF f
<1>6. IsMemory(mem)
  BY <1>4, UnitsAreMemory
<1>7. IsMachine(f) /\ Balanced(f)
  BY <1>1, <1>5, <1>6 DEF IsMachine, Balanced
<1>8. Typed(f)
  BY <1>1, <1>4, <1>5 DEF Typed
<1> QED
  BY <1>2, <1>4, <1>5, <1>7, <1>8

(* Undone when the first authenticated unit has changed.                   *)
LEMMA AuthForged ==
  ASSUME NEW mc, NEW k, Encrypting(mc, k), Result(mc, k).ret = "0", k.auth_len > 0,
         k.tag_len = DIGESTSIZE, mc.hash \/ mc.cipher = "aead"
  PROVE  LET r == Result(mc, k)
             f == Changed(r, k.auth_src)
             q == Result(f, AuthUndo(mc, r, k))
         IN  q.ret = "EBADMSG" /\ (k.mode = "SRTP" => q.mem = f.mem)
<1> DEFINE r == Result(mc, k)
           a == k.auth_src
           f == Changed(r, a)
           q == Result(f, AuthUndo(mc, r, k))
           s == Read(r.mem, a, k.auth_len)
           t == Read(f.mem, a, k.auth_len)
<1>1. Ready(r)
  BY EncryptBegins
<1>2. Span(a, k.auth_len) \subseteq Addr
  BY AuthUndone
<1>3. a \in Int /\ k.auth_len \in Nat
  BY OpFields DEF Encrypting
<1>4. a \in Span(a, k.auth_len) /\ a \in Addr
  BY <1>2, <1>3 DEF Span
<1> HIDE DEF r
<1>5. /\ IsMachine(f) /\ Balanced(f) /\ Typed(f)
      /\ f.cipher = r.cipher /\ f.blocksize = r.blocksize /\ f.hash = r.hash
      /\ f.authsize = r.authsize /\ f.perm = r.perm /\ f.pages = r.pages
      /\ f.mem[a] # r.mem[a]
      /\ \A b \in Addr \ {a} : f.mem[b] = r.mem[b]
  BY <1>1, <1>4, ChangedFact
<1> HIDE DEF f
<1>6. Alike(r, f, k)
  BY <1>4, <1>5 DEF Alike
<1>7. Altered(s, t)
  <2>1. UnitSeq(s) /\ Len(s) = k.auth_len /\ UnitSeq(t) /\ Len(t) = k.auth_len
    BY <1>1, <1>2, <1>3, <1>5, ReadUnits DEF Ready, Typed
  <2>2. /\ \A i \in 1..k.auth_len : s[i] = r.mem[a + i - 1]
        /\ \A i \in 1..k.auth_len : t[i] = f.mem[a + i - 1]
    BY <1>3, ReadFact
  <2> HIDE DEF s, t
  <2>3. s[1] # t[1]
    <3>1. 1 \in 1..k.auth_len /\ a + 1 - 1 = a
      BY <1>3
    <3>2. s[1] = r.mem[a] /\ t[1] = f.mem[a]
      BY <2>2, <3>1
    <3> QED
      BY <1>5, <3>2
  <2>4. ASSUME NEW i \in 2..k.auth_len PROVE s[i] = t[i]
    <3>1. i \in 1..k.auth_len /\ a + i - 1 \in Span(a, k.auth_len) /\ a + i - 1 # a
      BY <1>3, <2>4 DEF Span
    <3>2. f.mem[a + i - 1] = r.mem[a + i - 1]
      BY <1>2, <1>5, <3>1
    <3> QED
      BY <2>2, <3>1, <3>2
  <2> QED
    BY <1>3, <2>1, <2>3, <2>4 DEF Altered
<1> HIDE DEF q, s, t
<1>8. q.ret = "EBADMSG" /\ (k.mode = "SRTP" => q.mem = f.mem)
  <2> USE DEF r, q, s, t
  <2> QED
    BY <1>6, <1>7, AuthInverted
<1> QED
  BY <1>8 DEF q, f, r

(***************************************************************************)
(* The types, for any buffers: the calls that wait are what ioctl.c lets   *)
(* pass.                                                                   *)
(***************************************************************************)
Passed(mc, k) ==
  /\ k.mode = "CRYPT" /\ mc.cipher # None => k.dst # None
  /\ SrtpWithin(k) /\ InPlaceOnly(k)

CallsPassed ==
  setup = "live" => \A p \in Procs : call[p] # None => Passed(m, call[p])

Roomy == Len(m.pages) >= DEFAULT_PREALLOC_PAGES

Counting == ops \in 0..MaxOps

TypeInv == RunInv /\ CallsPassed /\ Typed(m) /\ Roomy /\ Counting

LEMMA FillSame ==
  ASSUME NEW mc, NEW k, k \in AuthOp
  PROVE  LET f == fill_kcaop_from_caop(mc, k)
         IN  /\ f.mode = k.mode /\ f.op = k.op /\ f.len = k.len /\ f.src = k.src
             /\ f.dst = k.dst /\ f.auth_src = k.auth_src /\ f.auth_len = k.auth_len
             /\ f.tag = k.tag
BY DEF fill_kcaop_from_caop, AuthOp

LEMMA FillPassed ==
  ASSUME NEW mc, NEW k \in Ops, k.mode # "CRYPT", InPlaceOnly(k)
  PROVE  Passed(mc, fill_kcaop_from_caop(mc, k)) /\ fill_kcaop_from_caop(mc, k).mode # "CRYPT"
<1>1. k \in AuthOp /\ SrtpWithin(k)
  BY RunAssumption DEF CryptOp
<1> DEFINE f == fill_kcaop_from_caop(mc, k)
<1>2. /\ f.mode = k.mode /\ f.op = k.op /\ f.len = k.len /\ f.src = k.src
      /\ f.dst = k.dst /\ f.auth_src = k.auth_src /\ f.auth_len = k.auth_len
      /\ f.tag = k.tag
  BY <1>1, FillSame
<1> HIDE DEF f
<1>3. Passed(mc, f) /\ f.mode # "CRYPT"
  BY <1>1, <1>2 DEF Passed, SrtpWithin, InPlaceOnly
<1> QED
  BY <1>3 DEF f

LEMMA FreshTyped ==
  ASSUME NEW kind, NEW perm
  PROVE  LET mc == Machine(kind, perm, InitMem)
         IN  /\ Typed(mc) /\ Len(mc.pages) >= DEFAULT_PREALLOC_PAGES
             /\ mc.blocksize = kind.blocksize /\ mc.cipher = kind.cipher
<1> DEFINE room == [i \in 1..DEFAULT_PREALLOC_PAGES |-> None]
           mc == Machine(kind, perm, InitMem)
<1>1. IsSeq(room) /\ Len(room) = DEFAULT_PREALLOC_PAGES
  BY FunctionSeq, ZcAssumption
<1>2. /\ mc.pages = room /\ mc.mem = InitMem /\ mc.iv = 0 /\ mc.h = 0
      /\ mc.blocksize = kind.blocksize /\ mc.cipher = kind.cipher
  BY DEF Machine
<1> HIDE DEF mc, room
<1>3. 0 \in Units /\ 0 \in Hashed
  BY DEF Units, Hashed, V
<1>4. UnitMemory(InitMem)
  BY RunAssumption DEF UnitMemory, Units
<1>5. Len(mc.pages) >= DEFAULT_PREALLOC_PAGES
  BY <1>1, <1>2, ZcAssumption
<1>6. Typed(mc)
  BY <1>2, <1>3, <1>4 DEF Typed
<1> QED
  BY <1>2, <1>5, <1>6 DEF mc

LEMMA RunKeepsTypes ==
  ASSUME TypeInv, NEW p \in Procs, Run(p)
  PROVE  TypeInv'
<1> DEFINE k == call[p]
<1>1. /\ setup = "live" /\ k # None /\ setup' = setup /\ ops' = ops
      /\ m' = Result(m, k) /\ call' = [call EXCEPT ![p] = None]
  BY DEF Run
<1>2. RunInv'
  BY RunKeeps DEF TypeInv
<1>3. Fitted(m, k) /\ Passed(m, k)
  BY <1>1 DEF TypeInv, RunInv, Calls, CallsPassed
<1>4. /\ IsMachine(m) /\ Balanced(m) /\ m.blocksize \in Nat \ {0}
      /\ m.authsize \in 1..DIGESTSIZE /\ Typed(m) /\ DOMAIN call = Procs
  BY DEF TypeInv, RunInv, Session, Calls
<1> HIDE DEF k
<1>5. Typed(Result(m, k)) /\ Len(Result(m, k).pages) >= Len(m.pages)
  <2>1. CASE k \in CryptOp
    <3>1. m.cipher # None => k.dst # None
      BY <1>3, <2>1 DEF Passed, CryptOp
    <3> QED
      BY <1>4, <2>1, <3>1, CryptResult
  <2>2. CASE k \in AuthOp /\ Sized(m, k)
    BY <1>3, <1>4, <2>2, AuthTyped DEF Passed
  <2> QED
    BY <1>3, <2>1, <2>2 DEF Fitted
<1>6. m'.cipher = m.cipher
  BY <1>1, <1>3, <1>4, ResultSettled DEF Settled
<1>7. CallsPassed'
  BY <1>1, <1>4, <1>6 DEF TypeInv, CallsPassed, Passed
<1>8. Roomy'
  <2>1. Len(m.pages) \in Nat /\ Len(m'.pages) \in Nat
    BY <1>2, <1>4, SeqFact DEF RunInv, Session, IsMachine
  <2>2. Len(m'.pages) >= Len(m.pages) /\ Len(m.pages) >= DEFAULT_PREALLOC_PAGES
    BY <1>1, <1>5 DEF TypeInv, Roomy
  <2>3. Len(m'.pages) >= DEFAULT_PREALLOC_PAGES
    BY <2>1, <2>2, ZcAssumption
  <2> QED
    BY <2>3 DEF Roomy
<1>9. Typed(m')
  BY <1>1, <1>5
<1> QED
  BY <1>1, <1>2, <1>7, <1>8, <1>9 DEF TypeInv, Counting

LEMMA FillKeepsTypes ==
  ASSUME TypeInv, NEW p \in Procs, Fill(p)
  PROVE  TypeInv'
<1>1. RunInv'
  BY FillKeeps DEF TypeInv
<1>2. PICK k \in Ops :
        /\ k.mode = "CRYPT" => m.cipher # "aead" /\ (m.cipher # None => k.dst # None)
        /\ InPlaceOnly(k)
        /\ call' = [call EXCEPT ![p] = IF k.mode = "CRYPT" THEN k
                                       ELSE fill_kcaop_from_caop(m, k)]
        /\ ops < MaxOps /\ ops' = ops + 1
        /\ UNCHANGED <<setup, res, m, last, stream>>
  BY Zenon DEF Fill
<1> DEFINE f == IF k.mode = "CRYPT" THEN k ELSE fill_kcaop_from_caop(m, k)
<1>3. Passed(m, f)
  <2>1. CASE k.mode = "CRYPT"
    <3>1. SrtpWithin(k)
      BY RunAssumption
    <3> QED
      BY <1>2, <2>1, <3>1 DEF Passed
  <2>2. CASE k.mode # "CRYPT"
    BY <1>2, <2>2, FillPassed
  <2> QED
    BY <2>1, <2>2
<1>4. call' = [call EXCEPT ![p] = f] /\ m' = m /\ setup' = setup
  BY <1>2
<1> HIDE DEF f
<1>5. CallsPassed'
  BY <1>3, <1>4 DEF TypeInv, CallsPassed, RunInv, Calls
<1>6. Counting'
  BY <1>2, RunAssumption DEF TypeInv, Counting
<1>7. Typed(m') /\ Roomy'
  BY <1>4 DEF TypeInv, Roomy
<1> QED
  BY <1>1, <1>5, <1>6, <1>7 DEF TypeInv

LEMMA TypesInitially == Init => TypeInv
<1> SUFFICES ASSUME Init PROVE TypeInv
  OBVIOUS
<1>1. RunInv
  BY RunInitially
<1>2. Typed(m) /\ Roomy
  <2>1. PICK perm \in Perms : m = Machine(NoSession, perm, InitMem)
    BY DEF Init
  <2> QED
    BY <2>1, FreshTyped DEF Roomy
<1>3. CallsPassed /\ Counting
  BY RunAssumption DEF Init, CallsPassed, Counting
<1> QED
  BY <1>1, <1>2, <1>3 DEF TypeInv

(* Every action keeps the types.                                           *)
LEMMA TypesInductive ==
  ASSUME TypeInv, [Next]_vars
  PROVE  TypeInv'
<1>1. RunInv'
  BY RunInductive DEF TypeInv
<1>2. CASE CreateSession
  <2>1. PICK kind \in Kinds : m' = Machine(kind, m.perm, InitMem)
    BY <1>2 DEF CreateSession
  <2>2. Typed(m') /\ Roomy'
    BY <2>1, FreshTyped DEF Roomy
  <2>3. setup' = "building" /\ ops' = 0
    BY <1>2 DEF CreateSession
  <2>4. CallsPassed' /\ Counting'
    BY <2>3, RunAssumption DEF CallsPassed, Counting
  <2> QED
    BY <1>1, <2>2, <2>4 DEF TypeInv
<1>3. CASE Acquire
  <2>1. setup = "building" /\ UNCHANGED <<m, call, ops>>
    BY <1>3 DEF Acquire
  <2>2. CallsPassed'
    BY <2>1 DEF TypeInv, RunInv, Calls, CallsPassed
  <2> QED
    BY <1>1, <2>1, <2>2 DEF TypeInv, Roomy, Counting
<1>4. CASE SetupFails
  <2>1. setup' = "none" /\ UNCHANGED <<m, ops>>
    BY <1>4 DEF SetupFails
  <2> QED
    BY <1>1, <2>1 DEF TypeInv, CallsPassed, Roomy, Counting
<1>5. CASE DestroySession
  <2>1. m' = Machine(NoSession, m.perm, InitMem) /\ setup' = "none" /\ ops' = ops
    BY <1>5 DEF DestroySession
  <2>2. Typed(m') /\ Roomy'
    BY <2>1, FreshTyped DEF Roomy
  <2> QED
    BY <1>1, <2>1, <2>2 DEF TypeInv, CallsPassed, Counting
<1>6. ASSUME NEW p \in Procs, Fill(p) PROVE TypeInv'
  BY <1>6, FillKeepsTypes
<1>7. ASSUME NEW p \in Procs, Run(p) PROVE TypeInv'
  BY <1>7, RunKeepsTypes
<1>8. ASSUME NEW p \in Procs, RunTooLate(p) PROVE TypeInv'
  <2>1. setup # "live" /\ UNCHANGED <<setup, m, ops>>
    BY <1>8 DEF RunTooLate
  <2> QED
    BY <1>1, <2>1 DEF TypeInv, CallsPassed, Roomy, Counting
<1>9. CASE UNCHANGED vars
  <2>1. UNCHANGED <<setup, m, call, ops>>
    BY <1>9 DEF vars
  <2> QED
    BY <1>1, <2>1 DEF TypeInv, CallsPassed, Roomy, Counting
<1> QED
  BY <1>2, <1>3, <1>4, <1>5, <1>6, <1>7, <1>8, <1>9 DEF Next

(* zc.c, authenc.c, main.c: whatever is run in a session and however it     *)
(* ends, its iv, its hash and the memory hold units, the length of its tag  *)
(* is that of a tag, and the array of pages never shrinks below what a new  *)
(* session has.                                                             *)
THEOREM RunTypeCorrect == Spec => []TypeOK
<1>1. TypeInv /\ [Next]_vars => TypeInv'
  BY TypesInductive
<1>2. TypeInv => TypeOK
  <2> SUFFICES ASSUME TypeInv PROVE TypeOK
    OBVIOUS
  <2>1. setup \in {"none", "building", "live"} /\ res \subseteq CipherParts \cup HashParts \cup Arrays
    BY DEF TypeInv, RunInv, Resources, Needed
  <2>2. m.iv \in 0..V - 1 /\ m.h \in 0..V * V - 1 /\ m.mem \in [Addr -> 0..V - 1]
    BY DEF TypeInv, Typed, Units, Hashed, UnitMemory
  <2>3. m.authsize \in 1..DIGESTSIZE
    BY DEF TypeInv, RunInv, Session
  <2> QED
    BY <2>1, <2>2, <2>3 DEF TypeOK, TypeInv, Roomy, Counting
<1> QED
  BY <1>1, <1>2, TypesInitially, PTL DEF Spec

(***************************************************************************)
(* What is encrypted can be undone.                                        *)
(***************************************************************************)
Reversible(k) ==
  IF k.mode = "CRYPT" THEN Apart(k) ELSE k.op = "ENCRYPT" => Undoable(k)

CallsReversible ==
  setup = "live" => \A p \in Procs : call[p] # None => Reversible(call[p])

(* The session is of one of the kinds.                                     *)
Kindred == m.cipher # None => \E kind \in Kinds : m.blocksize = kind.blocksize

UndoInv == TypeInv /\ CallsReversible /\ Kindred /\ RoundTrip /\ ForgeryRefused

LEMMA FillReversible ==
  ASSUME BuffersApart, OpsUndoable, NEW mc, NEW k \in Ops
  PROVE  Reversible(IF k.mode = "CRYPT" THEN k ELSE fill_kcaop_from_caop(mc, k))
<1>1. CASE k.mode = "CRYPT"
  BY <1>1 DEF Reversible, BuffersApart
<1>2. CASE k.mode # "CRYPT"
  <2> DEFINE f == fill_kcaop_from_caop(mc, k)
  <2>1. k \in AuthOp
    BY <1>2, RunAssumption DEF CryptOp
  <2>2. /\ f.mode = k.mode /\ f.op = k.op /\ f.len = k.len /\ f.src = k.src
        /\ f.dst = k.dst /\ f.auth_src = k.auth_src /\ f.auth_len = k.auth_len
        /\ f.tag = k.tag
    BY <2>1, FillSame
  <2>3. k.op = "ENCRYPT" => Undoable(k)
    BY <1>2 DEF OpsUndoable
  <2> HIDE DEF f
  <2>4. f.op = "ENCRYPT" => Undoable(f)
    BY <2>2, <2>3 DEF Undoable
  <2>5. Reversible(f)
    BY <1>2, <2>2, <2>4 DEF Reversible
  <2> QED
    BY <1>2, <2>5 DEF f
<1> QED
  BY <1>1, <1>2

(* What Undo is after a run.                                               *)
LEMMA UndoCrypt ==
  ASSUME NEW k, k \in CryptOp, last' = [k |-> k, before |-> m, stream |-> stream]
  PROVE  Undo' = CryptUndo(m, k)
<1>1. last'.k = k /\ last'.before = m
  OBVIOUS
<1>2. CryptUndo(m, k).mode = "CRYPT"
  BY DEF CryptUndo, CryptOp
<1> QED
  BY <1>1, <1>2, Zenon DEF Undo, CryptUndo

LEMMA UndoAuth ==
  ASSUME NEW k, k \in AuthOp, last' = [k |-> k, before |-> m, stream |-> stream]
  PROVE  Undo' = AuthUndo(m, m', k)
<1>1. last'.k = k /\ last'.before = m
  OBVIOUS
<1>2. CryptUndo(m, k).mode # "CRYPT"
  BY DEF CryptUndo, AuthOp
<1> QED
  BY <1>1, <1>2, Zenon DEF Undo, AuthUndo, CryptUndo

(* The one step after which there is something new to undo.                *)
LEMMA RunKeepsUndo ==
  ASSUME PaddingFits, UndoInv, NEW p \in Procs, Run(p)
  PROVE  UndoInv'
<1> DEFINE k == call[p]
<1>1. /\ setup = "live" /\ k # None /\ setup' = setup
      /\ m' = Result(m, k) /\ call' = [call EXCEPT ![p] = None]
      /\ last' = [k |-> k, before |-> m, stream |-> stream]
  BY DEF Run
<1>2. TypeInv'
  BY RunKeepsTypes DEF UndoInv
<1>3. Fitted(m, k) /\ Passed(m, k) /\ Reversible(k)
  BY <1>1 DEF UndoInv, TypeInv, RunInv, Calls, CallsPassed, CallsReversible
<1>4. /\ IsMachine(m) /\ Balanced(m) /\ m.blocksize \in Nat \ {0}
      /\ m.authsize \in 1..DIGESTSIZE /\ Typed(m) /\ DOMAIN call = Procs
  BY DEF UndoInv, TypeInv, RunInv, Session, Calls
<1>5. CallsReversible'
  BY <1>1, <1>4 DEF UndoInv, CallsReversible
<1> HIDE DEF k
<1>6. m'.cipher = m.cipher /\ m'.blocksize = m.blocksize /\ m'.hash = m.hash
  BY <1>1, <1>3, <1>4, ResultSettled DEF Settled
<1>7. Kindred'
  BY <1>6 DEF UndoInv, Kindred
<1>8. last'.k = k /\ last'.before = m
  BY <1>1
<1>9. CASE k \in CryptOp
  <2>1. k.mode = "CRYPT" /\ Apart(k)
    BY <1>3, <1>9 DEF Reversible, CryptOp
  <2>2. RoundTrip'
    <3> SUFFICES ASSUME Encrypted'
                 PROVE  LET r == Result(m', Undo')
                        IN  /\ r.ret = "0"
                            /\ Read(r.mem, k.dst, k.len) = Read(m.mem, k.src, k.len)
      BY <1>8, <2>1, Zenon DEF RoundTrip
    <3>1. k.op = "ENCRYPT" /\ m'.ret = "0" /\ m.cipher # None
      BY <1>6, <1>8 DEF Encrypted
    <3>2. k.dst # None
      BY <1>3, <2>1, <3>1 DEF Passed
    <3>3. Result(m, k).ret = "0"
      BY <1>1, <3>1
    <3>4. LET q == Result(Result(m, k), CryptUndo(m, k))
          IN  q.ret = "0" /\ Read(q.mem, k.dst, k.len) = Read(m.mem, k.src, k.len)
      BY <1>4, <1>9, <2>1, <3>1, <3>2, <3>3, CryptUndone
    <3>5. Undo' = CryptUndo(m, k)
      BY <1>1, <1>9, UndoCrypt
    <3> QED
      BY <1>1, <3>4, <3>5
  <2>3. ForgeryRefused'
    BY <1>8, <2>1 DEF ForgeryRefused
  <2> QED
    BY <1>2, <1>5, <1>7, <2>2, <2>3 DEF UndoInv
<1>10. CASE k \in AuthOp /\ Sized(m, k)
  <2>1. k.mode # "CRYPT"
    BY <1>10 DEF AuthOp
  <2>2. Undo' = AuthUndo(m, m', k)
    BY <1>1, <1>10, UndoAuth
  <2>3. Encrypted' => Encrypting(m, k) /\ Result(m, k).ret = "0"
    <3> SUFFICES ASSUME Encrypted' PROVE Encrypting(m, k) /\ Result(m, k).ret = "0"
      OBVIOUS
    <3>1. k.op = "ENCRYPT" /\ m'.ret = "0" /\ m.cipher # None
      BY <1>6, <1>8 DEF Encrypted
    <3>2. PICK kind \in Kinds : m.blocksize = kind.blocksize
      BY <3>1 DEF UndoInv, Kindred
    <3>3. m.blocksize <= V
      BY <3>2 DEF PaddingFits
    <3>4. Undoable(k)
      BY <1>3, <2>1, <3>1 DEF Reversible
    <3>5. UndoableIn(m, k)
      BY <3>2, <3>4 DEF Undoable, UndoableIn
    <3> QED
      BY <1>1, <1>3, <1>4, <1>10, <3>1, <3>3, <3>5 DEF Encrypting, Ready, Passed
  <2>4. RoundTrip'
    <3> SUFFICES ASSUME Encrypted' PROVE Inverted(m, Result(m', Undo'), k)
      BY <1>8, <2>1, Zenon DEF RoundTrip, Inverted
    <3>1. Inverted(m, Result(Result(m, k), AuthUndo(m, Result(m, k), k)), k)
      BY <2>3, AuthUndone
    <3> QED
      BY <1>1, <2>2, <3>1
  <2>5. ForgeryRefused'
    <3> SUFFICES ASSUME Encrypted', k.auth_len > 0, k.tag_len = DIGESTSIZE,
                        m'.hash \/ m'.cipher = "aead"
                 PROVE  LET f == Changed(m', k.auth_src)
                            r == Result(f, Undo')
                        IN  r.ret = "EBADMSG" /\ (k.mode = "SRTP" => r.mem = f.mem)
      BY <1>8, Zenon DEF ForgeryRefused
    <3>1. m.hash \/ m.cipher = "aead"
      BY <1>6
    <3>2. LET r == Result(m, k)
              f == Changed(r, k.auth_src)
              q == Result(f, AuthUndo(m, r, k))
          IN  q.ret = "EBADMSG" /\ (k.mode = "SRTP" => q.mem = f.mem)
      BY <2>3, <3>1, AuthForged
    <3> QED
      BY <1>1, <2>2, <3>2
  <2> QED
    BY <1>2, <1>5, <1>7, <2>4, <2>5 DEF UndoInv
<1> QED
  BY <1>3, <1>9, <1>10 DEF Fitted

LEMMA FillKeepsUndo ==
  ASSUME BuffersApart, OpsUndoable, UndoInv, NEW p \in Procs, Fill(p)
  PROVE  UndoInv'
<1>1. TypeInv'
  BY FillKeepsTypes DEF UndoInv
<1>2. PICK k \in Ops :
        /\ call' = [call EXCEPT ![p] = IF k.mode = "CRYPT" THEN k
                                       ELSE fill_kcaop_from_caop(m, k)]
        /\ UNCHANGED <<setup, res, m, last, stream>>
  BY Zenon DEF Fill
<1> DEFINE f == IF k.mode = "CRYPT" THEN k ELSE fill_kcaop_from_caop(m, k)
<1>3. Reversible(f)
  BY FillReversible
<1>4. call' = [call EXCEPT ![p] = f] /\ m' = m /\ setup' = setup
  BY <1>2
<1> HIDE DEF f
<1>5. CallsReversible'
  BY <1>3, <1>4 DEF UndoInv, CallsReversible, TypeInv, RunInv, Calls
<1>6. RoundTrip' /\ ForgeryRefused' /\ Kindred'
  BY <1>2 DEF UndoInv, RoundTrip, ForgeryRefused, Encrypted, Undo, Kindred
<1> QED
  BY <1>1, <1>5, <1>6 DEF UndoInv

(* Nothing has run in a session that is new or gone.                       *)
LEMMA NothingToUndo ==
  ASSUME last' = None
  PROVE  RoundTrip' /\ ForgeryRefused'
BY DEF RoundTrip, ForgeryRefused, Encrypted

LEMMA UnchangedUndo ==
  ASSUME UndoInv, UNCHANGED <<m, last>>
  PROVE  RoundTrip' /\ ForgeryRefused' /\ Kindred'
BY DEF UndoInv, RoundTrip, ForgeryRefused, Encrypted, Undo, Kindred

LEMMA UndoInitially == Init => UndoInv
<1> SUFFICES ASSUME Init PROVE UndoInv
  OBVIOUS
<1>1. TypeInv
  BY TypesInitially
<1>2. PICK perm \in Perms : m = Machine(NoSession, perm, InitMem)
  BY DEF Init
<1>3. Kindred
  <2>1. m.cipher = None
    BY <1>2, FreshTyped DEF NoSession
  <2> QED
    BY <2>1 DEF Kindred
<1>4. CallsReversible /\ RoundTrip /\ ForgeryRefused
  BY DEF Init, CallsReversible, RoundTrip, ForgeryRefused, Encrypted
<1> QED
  BY <1>1, <1>3, <1>4 DEF UndoInv

(* Every action but Run leaves nothing new to undo.                        *)
LEMMA UndoInductive ==
  ASSUME BuffersApart, OpsUndoable, PaddingFits, UndoInv, [Next]_vars
  PROVE  UndoInv'
<1>1. TypeInv'
  BY TypesInductive DEF UndoInv
<1>2. CASE CreateSession
  <2>1. PICK kind \in Kinds : m' = Machine(kind, m.perm, InitMem)
    BY <1>2 DEF CreateSession
  <2>2. m'.blocksize = kind.blocksize
    BY <2>1, FreshTyped
  <2>3. last' = None /\ setup' = "building"
    BY <1>2 DEF CreateSession
  <2>4. Kindred' /\ CallsReversible'
    BY <2>2, <2>3 DEF Kindred, CallsReversible
  <2> QED
    BY <1>1, <2>3, <2>4, NothingToUndo DEF UndoInv
<1>3. CASE Acquire
  <2>1. setup = "building" /\ UNCHANGED <<m, call, last>>
    BY <1>3 DEF Acquire
  <2>2. CallsReversible'
    BY <2>1 DEF UndoInv, TypeInv, RunInv, Calls, CallsReversible
  <2> QED
    BY <1>1, <2>1, <2>2, UnchangedUndo DEF UndoInv
<1>4. CASE SetupFails
  <2>1. setup' = "none" /\ UNCHANGED <<m, last>>
    BY <1>4 DEF SetupFails
  <2> QED
    BY <1>1, <2>1, UnchangedUndo DEF UndoInv, CallsReversible
<1>5. CASE DestroySession
  <2>1. m' = Machine(NoSession, m.perm, InitMem) /\ setup' = "none" /\ last' = None
    BY <1>5 DEF DestroySession
  <2>2. m'.cipher = None
    BY <2>1, FreshTyped DEF NoSession
  <2> QED
    BY <1>1, <2>1, <2>2, NothingToUndo DEF UndoInv, CallsReversible, Kindred
<1>6. ASSUME NEW p \in Procs, Fill(p) PROVE UndoInv'
  BY <1>6, FillKeepsUndo
<1>7. ASSUME NEW p \in Procs, Run(p) PROVE UndoInv'
  BY <1>7, RunKeepsUndo
<1>8. ASSUME NEW p \in Procs, RunTooLate(p) PROVE UndoInv'
  <2>1. setup # "live" /\ UNCHANGED <<setup, m, last>>
    BY <1>8 DEF RunTooLate
  <2> QED
    BY <1>1, <2>1, UnchangedUndo DEF UndoInv, CallsReversible
<1>9. CASE UNCHANGED vars
  <2>1. UNCHANGED <<setup, m, call, last>>
    BY <1>9 DEF vars
  <2> QED
    BY <1>1, <2>1, UnchangedUndo DEF UndoInv, CallsReversible
<1> QED
  BY <1>2, <1>3, <1>4, <1>5, <1>6, <1>7, <1>8, <1>9 DEF Next

(* main.c, authenc.c: what a successful call has encrypted, with padding    *)
(* and tag where the mode adds them, the call that undoes it decrypts to    *)
(* what it was and to the length it had, for any memory, any pages that are *)
(* accessible and any array of them, if no operation encrypts over what it  *)
(* authenticates or reads.                                                  *)
THEOREM DecryptsBack ==
  ASSUME BuffersApart, OpsUndoable, PaddingFits
  PROVE  Spec => []RoundTrip
<1>1. UndoInv /\ [Next]_vars => UndoInv'
  BY UndoInductive
<1>2. UndoInv => RoundTrip
  BY DEF UndoInv
<1> QED
  BY <1>1, <1>2, UndoInitially, PTL DEF Spec

(* authenc.c: when what was authenticated has changed since, a whole tag    *)
(* refuses the call that undoes it with EBADMSG; SRTP leaves the memory as  *)
(* it was.                                                                  *)
THEOREM ForgeriesRefused ==
  ASSUME BuffersApart, OpsUndoable, PaddingFits
  PROVE  Spec => []ForgeryRefused
<1>1. UndoInv /\ [Next]_vars => UndoInv'
  BY UndoInductive
<1>2. UndoInv => ForgeryRefused
  BY DEF UndoInv
<1> QED
  BY <1>1, <1>2, UndoInitially, PTL DEF Spec
=============================================================================
