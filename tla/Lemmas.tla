------------------------------- MODULE Lemmas -------------------------------
(***************************************************************************)
(* Facts about remainders and sequences that the proofs of the components  *)
(* share: the kernel's rings are indexed by a counter modulo their size,   *)
(* its lists grow at the end and are taken from the front.                 *)
(***************************************************************************)
EXTENDS Integers, Sequences, Functions, TLAPS

(* An index i % m is inside an array of m cells (data[i % PIPESIZE]). *)
LEMMA ModRange ==
  ASSUME NEW m \in Nat \ {0}, NEW a \in Int
  PROVE  a % m \in 0..m - 1
OBVIOUS

(* A remainder and the quotient it leaves (the same index). *)
LEMMA ModDef ==
  ASSUME NEW m \in Nat \ {0}, NEW a \in Int
  PROVE \E q \in Int : a = (m * q) + (a % m)
<1>1. a = (m * (a \div m)) + (a % m) /\ a \div m \in Int
  OBVIOUS
<1> QED
  BY <1>1, Zenon

(* The remainder is the only number in range that leaves a multiple. *)
LEMMA ModUnique ==
  ASSUME NEW m \in Nat \ {0}, NEW q \in Int, NEW r \in 0..m-1
  PROVE ((m * q) + r) % m = r
OBVIOUS

(* A counter that wraps at a multiple of the ring keeps its cell. *)
LEMMA ModShift ==
  ASSUME NEW m \in Nat \ {0}, NEW a \in Int, NEW u \in Int, u % m = 0
  PROVE (a + u) % m = a % m
<1>1. PICK q \in Int : a = (m * q) + (a % m)
  BY ModDef, Zenon
<1>2. PICK k \in Int : u = (m * k) + (u % m)
  BY ModDef, Zenon
<1>3. u = m * k
  BY <1>2
<1>4. PICK r \in 0..m - 1 : r = a % m
  BY ModRange
<1>5. m * (q + k) = (m * q) + (m * k)
  OBVIOUS
<1>6. a = (m * q) + r
  BY <1>1, <1>4
<1>7. a + u = (m * (q + k)) + r
  BY <1>3, <1>5, <1>6
<1> QED
  BY <1>4, <1>7, ModUnique, q + k \in Int, Zenon

(* Two counters with the same cell are a whole ring apart. *)
LEMMA ModApart ==
  ASSUME NEW m \in Nat \ {0}, NEW a \in Int, NEW b \in Int,
         a % m = b % m, a < b
  PROVE b - a >= m
<1>1. PICK q \in Int : a = (m * q) + (a % m)
  BY ModDef, Zenon
<1>2. PICK k \in Int : b = (m * k) + (b % m)
  BY ModDef, Zenon
<1>3. b - a = m * (k - q)
  BY <1>1, <1>2, ModRange
<1>4. k - q >= 1
  BY <1>3
<1>5. m * (k - q) >= m
  BY <1>4
<1> QED
  BY <1>3, <1>5

(* A loop index moves on, and comes back to 0 behind the last element. *)
LEMMA ModNext ==
  ASSUME NEW n \in Nat \ {0}, NEW i \in 1..n
  PROVE  i % n = IF i = n THEN 0 ELSE i
<1>1. CASE i = n
  <2>1. ((n * 1) + 0) % n = 0
    BY ModUnique
  <2> QED
    BY <1>1, <2>1
<1>2. CASE i # n
  <2>1. ((n * 0) + i) % n = i
    BY <1>2, ModUnique
  <2> QED
    BY <1>2, <2>1
<1> QED
  BY <1>1, <1>2

(* A list with one more element at its end. *)
LEMMA AppendFacts ==
  ASSUME NEW S, NEW q \in Seq(S), NEW e \in S
  PROVE  /\ Append(q, e) \in Seq(S)
         /\ Range(Append(q, e)) = Range(q) \cup {e}
         /\ IsInjective(q) /\ e \notin Range(q) => IsInjective(Append(q, e))
<1> DEFINE r == Append(q, e)
<1>1. /\ r \in Seq(S) /\ Len(q) \in Nat /\ Len(r) = Len(q) + 1
      /\ DOMAIN q = 1..Len(q) /\ DOMAIN r = 1..Len(q) + 1
      /\ r[Len(q) + 1] = e /\ \A i \in 1..Len(q) : r[i] = q[i]
  OBVIOUS
<1> HIDE DEF r
<1>2. \A i \in 1..Len(q) + 1 : i \in 1..Len(q) \/ i = Len(q) + 1
  BY <1>1
<1>3. Range(r) = Range(q) \cup {e}
  <2>1. ASSUME NEW x \in Range(r) PROVE x \in Range(q) \cup {e}
    BY <1>1, <1>2 DEF Range
  <2>2. Range(q) \subseteq Range(r)
    BY <1>1 DEF Range
  <2>3. e \in Range(r)
    <3>1. Len(q) + 1 \in DOMAIN r
      BY <1>1
    <3> QED
      BY <1>1, <3>1 DEF Range
  <2> QED
    BY <2>1, <2>2, <2>3
<1>4. ASSUME IsInjective(q), e \notin Range(q) PROVE IsInjective(r)
  <2>1. \A i \in 1..Len(q) : r[i] # e
    BY <1>1, <1>4 DEF Range
  <2>2. \A i, j \in 1..Len(q) : r[i] = r[j] => i = j
    BY <1>1, <1>4 DEF IsInjective
  <2> QED
    BY <1>1, <1>2, <2>1, <2>2 DEF IsInjective
<1> QED
  BY <1>1, <1>3, <1>4 DEF r

(* A list without its first element. *)
LEMMA TailFacts ==
  ASSUME NEW S, NEW q \in Seq(S), q # <<>>, IsInjective(q)
  PROVE  /\ Head(q) \in S /\ Head(q) \in Range(q)
         /\ Tail(q) \in Seq(S) /\ IsInjective(Tail(q))
         /\ Range(Tail(q)) = Range(q) \ {Head(q)}
<1> DEFINE r == Tail(q)
<1>1. Len(q) \in Nat \ {0} /\ DOMAIN q = 1..Len(q)
  OBVIOUS
<1>2. r \in Seq(S) /\ Len(r) = Len(q) - 1 /\ DOMAIN r = 1..Len(q) - 1
  BY <1>1
<1>3. \A i \in 1..Len(q) - 1 : r[i] = q[i + 1]
  BY <1>1
<1>4. Head(q) = q[1] /\ Head(q) \in S /\ Head(q) \in Range(q)
  BY <1>1 DEF Range
<1> HIDE DEF r
<1>5. IsInjective(r)
  <2> SUFFICES ASSUME NEW i \in 1..Len(q) - 1, NEW j \in 1..Len(q) - 1,
                      r[i] = r[j]
               PROVE  i = j
    BY <1>2 DEF IsInjective
  <2>1. i + 1 \in 1..Len(q) /\ j + 1 \in 1..Len(q) /\ q[i + 1] = q[j + 1]
    BY <1>1, <1>3
  <2>2. i + 1 = j + 1
    BY <1>1, <2>1 DEF IsInjective
  <2> QED
    BY <2>2
<1>6. ASSUME NEW x \in Range(r) PROVE x \in Range(q) /\ x # Head(q)
  <2>1. PICK i \in 1..Len(q) - 1 : x = q[i + 1]
    BY <1>2, <1>3 DEF Range
  <2>2. i + 1 \in 1..Len(q) /\ 1 \in 1..Len(q) /\ i + 1 # 1
    BY <1>1
  <2>3. q[i + 1] # q[1]
    BY <1>1, <2>2 DEF IsInjective
  <2> QED
    BY <1>1, <1>4, <2>1, <2>2, <2>3 DEF Range
<1>7. ASSUME NEW x \in Range(q), x # Head(q) PROVE x \in Range(r)
  <2>1. PICK i \in 1..Len(q) : x = q[i]
    BY <1>1 DEF Range
  <2>2. i - 1 \in 1..Len(q) - 1 /\ r[i - 1] = x
    <3>1. i # 1
      BY <1>4, <1>7, <2>1
    <3>2. i - 1 \in 1..Len(q) - 1
      BY <1>1, <3>1
    <3>3. r[i - 1] = q[(i - 1) + 1]
      BY <1>3, <3>2
    <3> QED
      BY <2>1, <3>2, <3>3
  <2> QED
    BY <1>2, <2>2 DEF Range
<1> QED
  BY <1>2, <1>4, <1>5, <1>6, <1>7 DEF r
=============================================================================
