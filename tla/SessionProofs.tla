---------------------------- MODULE SessionProofs ---------------------------
(***************************************************************************)
(* Proofs about one session: that its packets (Obfs), for every width of   *)
(* the counters, have a nonce and padding of their own and are unwrapped   *)
(* to what was wrapped; and that its goroutines (Session) go down together *)
(* and are gone when it returns.                                           *)
(***************************************************************************)
EXTENDS Session, Obfs, FiniteSetTheorems, TLAPS

-----------------------------------------------------------------------------
(* Arithmetic.                                                             *)

LEMMA DivMod ==
  ASSUME NEW a \in Nat, NEW m \in Nat \ {0}
  PROVE  /\ a \div m \in Nat /\ a % m \in 0 .. m - 1
         /\ a = m * (a \div m) + (a % m)
  BY SMT

(* A product with a factor below 1 is below the other factor.              *)
LEMMA SmallMultiple ==
  ASSUME NEW m \in Nat, NEW z \in Int, NEW r \in Int, -m < r, r < m, r = m * z
  PROVE  z = 0
<1>1. CASE z >= 1
  <2>1. m * z >= m
    BY <1>1, SMT
  <2>2. QED
    BY <2>1
<1>2. CASE z <= -1
  <2>1. m * z <= -m
    BY <1>2, SMT
  <2>2. QED
    BY <2>1
<1>3. QED
  BY <1>1, <1>2

(* Numbers that agree modulo m are a multiple of m apart.                  *)
LEMMA SameRest ==
  ASSUME NEW a \in Nat, NEW b \in Nat, NEW m \in Nat \ {0}, a % m = b % m
  PROVE  b - a = m * ((b \div m) - (a \div m))
<1>1. /\ a = m * (a \div m) + (a % m) /\ a % m \in 0 .. m - 1 /\ a \div m \in Nat
      /\ b = m * (b \div m) + (b % m) /\ b \div m \in Nat
  BY DivMod
<1>2. m * ((b \div m) - (a \div m)) = m * (b \div m) - m * (a \div m)
  BY <1>1, SMT
<1>3. QED
  BY <1>1, <1>2

(* A number a multiple of m away has its quotient that many away.          *)
LEMMA Quotient ==
  ASSUME NEW a \in Nat, NEW k \in Nat, NEW m \in Nat \ {0}
  PROVE  (a + m * k) \div m = (a \div m) + k
<1> DEFINE b == a + m * k
           z == (b \div m) - (a \div m) - k
<1>1. b \in Nat
  BY SMT
<1>2. /\ a = m * (a \div m) + (a % m) /\ a % m \in 0 .. m - 1 /\ a \div m \in Nat
      /\ b = m * (b \div m) + (b % m) /\ b % m \in 0 .. m - 1 /\ b \div m \in Nat
  BY <1>1, DivMod
<1>3. z \in Int
  BY <1>2
<1>4. m * z = m * (b \div m) - m * (a \div m) - m * k
  BY <1>2, SMT
<1>5. (a % m) - (b % m) = m * z
  <2>1. m * (b \div m) = b - (b % m) /\ m * (a \div m) = a - (a % m) /\ b - a = m * k
    <3>1. m * (b \div m) \in Int /\ m * (a \div m) \in Int /\ m * k \in Int
      BY <1>2, SMT
    <3>2. QED
      BY <1>1, <1>2, <3>1
  <2>2. m * k \in Int
    BY SMT
  <2>3. QED
    BY <1>1, <1>2, <1>4, <2>1, <2>2
<1>6. z = 0
  <2>1. (a % m) - (b % m) \in Int /\ -m < (a % m) - (b % m) /\ (a % m) - (b % m) < m
    BY <1>2
  <2>2. QED
    BY <1>3, <1>5, <2>1, SmallMultiple
<1>7. QED
  BY <1>2, <1>6


(* The carry: a step of the sequence number's period moves the timestamp   *)
(* by one more than a multiple of the period, and such a number has an     *)
(* inverse modulo the period's square.                                     *)
LEMMA CarryIsInvertible ==
  ASSUME NEW m \in Nat \ {0}, NEW s \in Nat, NEW k \in Nat, NEW q \in Int,
         k < m * m, k * (m * s + 1) = (m * m) * q
  PROVE  k = 0
<1> DEFINE sq == m * m
           z == k * (s * s) + q * (1 - m * s)
<1>1. sq \in Nat /\ z \in Int /\ m * s \in Nat
  BY SMT
<1>2. (k * (m * s + 1)) * (1 - m * s) = k - k * ((m * s) * (m * s))
  BY SMT
<1>3. k * ((m * s) * (m * s)) = sq * (k * (s * s))
  BY SMT
<1>4. (k * (m * s + 1)) * (1 - m * s) = sq * (q * (1 - m * s))
  <2>1. (k * (m * s + 1)) * (1 - m * s) = (sq * q) * (1 - m * s)
    OBVIOUS
  <2>2. QED
    BY <2>1, <1>1, SMT
<1>5. k = sq * z
  <2>1. sq * z = sq * (k * (s * s)) + sq * (q * (1 - m * s))
    BY <1>1, SMT
  <2>2. sq * (k * (s * s)) \in Int /\ sq * (q * (1 - m * s)) \in Int
    BY <1>1, SMT
  <2>3. QED
    BY <1>2, <1>3, <1>4, <2>1, <2>2
<1>6. z = 0
  <2>1. -sq < k /\ k < sq
    BY <1>1
  <2>2. QED
    BY <1>1, <1>5, <2>1, SmallMultiple
<1>7. QED
  BY <1>1, <1>5, <1>6, SMT

(* Two numbers of one window have different nonces: obfs.go:162-165.       *)
LEMMA Injective ==
  ASSUME initSeq \in Nat, initTs \in Nat, NEW c \in Nat, NEW d \in Nat, c < d, d < Window,
         Nonce(c) = Nonce(d)
  PROVE  FALSE
<1> DEFINE m == SeqSize
           sq == m * m
<1>1. m \in Nat \ {0} /\ Step \in Nat /\ sq \in Nat \ {0}
  <2>1. m \in Nat \ {0} /\ Step \in Nat
    BY ObfsAssumption
  <2>2. m * m \in Nat \ {0}
    BY <2>1, SMT
  <2>3. QED
    BY <2>1, <2>2
<1>2. PICK k \in Int : d - c = m * k
  <2> DEFINE a == initSeq + c
             b == initSeq + d
             e == (b \div m) - (a \div m)
  <2>1. a % m = b % m
    BY DEF Nonce, SeqOf
  <2>2. a \in Nat /\ b \in Nat
    OBVIOUS
  <2>3. e \in Int
    BY <1>1, <2>2, DivMod
  <2>4. b - a = m * e
    BY <1>1, <2>1, <2>2, SameRest
  <2>5. d - c = m * e
    BY <2>4
  <2>6. QED
    BY <2>3, <2>5
<1>3. k \in Nat /\ k # 0
  <2>1. m * k > 0
    BY <1>2
  <2>2. QED
    BY <1>1, <2>1, SMT
<1>4. d = c + m * k /\ m * k \in Nat
  BY <1>1, <1>2, <1>3, SMT
<1>5. d \div m = (c \div m) + k
  BY <1>1, <1>3, <1>4, Quotient
<1>6. PICK q \in Int : (d * Step + d \div m) - (c * Step + c \div m) = sq * q
  <2> DEFINE a == initTs + c * Step + c \div m
             b == initTs + d * Step + d \div m
             e == (b \div sq) - (a \div sq)
  <2>1. c \div m \in Nat /\ d \div m \in Nat /\ c * Step \in Nat /\ d * Step \in Nat
    <3>1. c \div m \in Nat /\ d \div m \in Nat
      BY <1>1, DivMod
    <3>2. c * Step \in Nat /\ d * Step \in Nat
      BY <1>1, SMT
    <3>3. QED
      BY <3>1, <3>2
  <2>2. a \in Nat /\ b \in Nat
    BY <2>1
  <2>3. a % sq = b % sq
    BY DEF Nonce, TsOf, TsSize
  <2>4. e \in Int
    BY <1>1, <2>2, DivMod
  <2>5. b - a = sq * e
    <3> HIDE DEF a, b, sq
    <3>1. b - a = sq * ((b \div sq) - (a \div sq))
      BY <1>1, <2>2, <2>3, SameRest
    <3>2. QED
      BY <3>1
  <2>6. (d * Step + d \div m) - (c * Step + c \div m) = sq * e
    BY <2>1, <2>5
  <2>7. QED
    BY <2>4, <2>6
<1>7. k * (m * Step + 1) = sq * q
  <2>1. d * Step = c * Step + (m * k) * Step
    BY <1>1, <1>4, SMT
  <2>2. c \div m \in Nat /\ c * Step \in Nat /\ (m * k) * Step \in Nat
    <3>1. c \div m \in Nat
      BY <1>1, DivMod
    <3>2. c * Step \in Nat /\ (m * k) * Step \in Nat
      BY <1>1, <1>4, SMT
    <3>3. QED
      BY <3>1, <3>2
  <2>3. (m * k) * Step + k = sq * q
    BY <1>5, <1>6, <1>3, <2>1, <2>2
  <2>4. k * (m * Step + 1) = (m * k) * Step + k
    BY <1>1, <1>3, SMT
  <2>5. QED
    BY <2>3, <2>4
<1>8. k < sq
  <2>1. m * k < m * sq
    <3>1. Window = m * sq
      BY DEF Window, TsSize
    <3>2. m * sq \in Nat
      BY <1>1, SMT
    <3>3. QED
      BY <1>4, <3>1, <3>2
  <2>2. k >= sq => m * k >= m * sq
    BY <1>1, <1>3, SMT
  <2>3. m * k \in Nat /\ m * sq \in Nat
    BY <1>1, <1>3, SMT
  <2>4. QED
    BY <1>1, <1>3, <2>1, <2>2, <2>3
<1>9. QED
  BY <1>1, <1>3, <1>7, <1>8, CarryIsInvertible

-----------------------------------------------------------------------------
(* The inductive invariant.                                                *)

Bound(w) == holds[w] # Nothing

(* A number is taken once, and is under way or under a nonce.              *)
NumbersAreTaken ==
  /\ \A w \in Writers : Bound(w) => holds[w].at < count
  /\ \A v, w \in Writers : Bound(v) /\ Bound(w) /\ holds[v].at = holds[w].at => v = w
  /\ \A n \in nonces : \E c \in 0 .. count - 1 :
       n = Nonce(c) /\ \A w \in Writers : Bound(w) => holds[w].at # c

ChunksAreFilled == \A w \in Writers : Bound(w) => holds[w].chunk <= refill

IInv ==
  /\ ObfsTypeOK
  /\ NumbersAreTaken /\ ChunksAreFilled
  /\ IsFiniteSet(nonces) /\ NonceOnce /\ PaddingIsItsOwn

LEMMA InitIInv == ObfsInit => IInv
<1> SUFFICES ASSUME ObfsInit PROVE IInv
  OBVIOUS
<1>1. ObfsTypeOK
  <2>1. Window \in Nat
    <3>1. SeqSize \in Nat
      BY ObfsAssumption
    <3>2. SeqSize * SeqSize \in Nat /\ SeqSize * (SeqSize * SeqSize) \in Nat
      BY <3>1, SMT
    <3>3. QED
      BY <3>2 DEF Window, TsSize
  <2>2. QED
    BY <2>1, ObfsAssumption DEF ObfsInit, ObfsTypeOK
<1>2. \A w \in Writers : ~Bound(w)
  BY DEF ObfsInit, Bound
<1>3. NumbersAreTaken /\ ChunksAreFilled
  BY <1>2 DEF ObfsInit, NumbersAreTaken, ChunksAreFilled
<1>4. IsFiniteSet(nonces) /\ NonceOnce
  BY FS_EmptySet DEF ObfsInit, NonceOnce
<1>5. PaddingIsItsOwn
  BY <1>2 DEF Bound, PaddingIsItsOwn
<1>6. QED
  BY <1>1, <1>3, <1>4, <1>5 DEF IInv

LEMMA WindowIsNat == Window \in Nat /\ TsSize \in Nat \ {0} /\ SeqSize \in Nat \ {0}
<1>1. SeqSize \in Nat \ {0}
  BY ObfsAssumption
<1>2. SeqSize * SeqSize \in Nat \ {0} /\ SeqSize * (SeqSize * SeqSize) \in Nat
  BY <1>1, SMT
<1>3. QED
  BY <1>1, <1>2 DEF Window, TsSize

LEMMA DrawIsWhole ==
  ASSUME ObfsTypeOK
  PROVE  /\ DrawFrom \in 0 .. RandChunk /\ DrawTo \in 0 .. RandChunk
         /\ DrawTo - DrawFrom = Draw
         /\ NeedsRefill \/ DrawFrom = randPos
  BY ObfsAssumption DEF ObfsTypeOK, DrawFrom, DrawTo, NeedsRefill

LEMMA TakeStep ==
  ASSUME IInv, NEW w \in Writers, Take(w)
  PROVE  IInv'
<1> DEFINE taken == [at |-> count, chunk |-> refill', from |-> DrawFrom, to |-> DrawTo]
<1>1. /\ holds[w] = Nothing /\ holds' = [holds EXCEPT ![w] = taken]
      /\ count' = count + 1 /\ randPos' = DrawTo
      /\ refill' = IF NeedsRefill THEN refill + 1 ELSE refill
      /\ UNCHANGED <<initSeq, initTs, nonces, sealed, wire>>
  BY DEF Take
<1>2. /\ DrawFrom \in 0 .. RandChunk /\ DrawTo \in 0 .. RandChunk /\ DrawTo - DrawFrom = Draw
      /\ NeedsRefill \/ DrawFrom = randPos
  BY DrawIsWhole DEF IInv
<1>3. /\ holds'[w] = taken /\ \A v \in Writers \ {w} : holds'[v] = holds[v]
      /\ taken.at = count /\ taken.chunk = refill' /\ taken.from = DrawFrom /\ taken.to = DrawTo
  BY <1>1 DEF IInv, ObfsTypeOK
<1>4. ObfsTypeOK'
  <2>1. count' \in 0 .. Window /\ refill' \in Nat /\ count \in Nat
    BY <1>1, WindowIsNat DEF IInv, ObfsTypeOK, Take
  <2>2. taken \in Holding
    BY <1>2, <2>1 DEF Holding
  <2>3. QED
    BY <1>1, <1>2, <2>1, <2>2 DEF IInv, ObfsTypeOK, Holding
<1>5. NumbersAreTaken'
  <2>1. \A v \in Writers : Bound(v)' => holds'[v].at < count'
    BY <1>1, <1>3 DEF IInv, ObfsTypeOK, Holding, NumbersAreTaken, Bound
  <2>2. \A u, v \in Writers : Bound(u)' /\ Bound(v)' /\ holds'[u].at = holds'[v].at => u = v
    BY <1>1, <1>3 DEF IInv, ObfsTypeOK, Holding, NumbersAreTaken, Bound
  <2>3. ASSUME NEW n \in nonces
        PROVE  \E c \in 0 .. count' - 1 :
                 n = Nonce(c)' /\ \A v \in Writers : Bound(v)' => holds'[v].at # c
    <3>1. PICK c \in 0 .. count - 1 : n = Nonce(c) /\ \A v \in Writers : Bound(v) => holds[v].at # c
      BY DEF IInv, NumbersAreTaken
    <3>2. Nonce(c)' = Nonce(c)
      BY <1>1 DEF Nonce, SeqOf, TsOf
    <3>3. c \in 0 .. count' - 1 /\ c # count
      BY <1>1 DEF IInv, ObfsTypeOK
    <3>4. \A v \in Writers : Bound(v)' => holds'[v].at # c
      BY <1>3, <3>1, <3>3 DEF Bound
    <3>5. QED
      BY <3>1, <3>2, <3>3, <3>4
  <2>4. QED
    BY <1>1, <2>1, <2>2, <2>3 DEF NumbersAreTaken
<1>6. ChunksAreFilled'
  BY <1>1, <1>3 DEF IInv, ObfsTypeOK, Holding, ChunksAreFilled, Bound
<1>7. IsFiniteSet(nonces)' /\ NonceOnce'
  BY <1>1 DEF IInv, NonceOnce
<1>8. PaddingIsItsOwn'
  <2>1. ASSUME NEW v \in Writers \ {w}, Bound(v)
        PROVE  /\ holds[v].to - holds[v].from = Draw
               /\ holds[v].chunk < refill' \/ holds[v].to <= randPos'
               /\ holds[v].chunk = refill' => holds[v].to <= DrawFrom
    <3>1. /\ holds[v].to - holds[v].from = Draw /\ holds[v].chunk <= refill
          /\ holds[v].chunk < refill \/ holds[v].to <= randPos
      BY <2>1 DEF IInv, ChunksAreFilled, PaddingIsItsOwn, Bound
    <3>2. holds[v] \in Holding
      BY <2>1 DEF IInv, ObfsTypeOK, Bound
    <3>3. holds[v].chunk \in Nat /\ holds[v].to \in Nat /\ refill \in Nat /\ randPos \in Nat
      BY <3>2, ObfsAssumption DEF IInv, ObfsTypeOK, Holding
    <3>4. CASE NeedsRefill
      BY <1>1, <3>1, <3>3, <3>4
    <3>5. CASE ~NeedsRefill
      BY <1>1, <1>2, <3>1, <3>3, <3>5, ObfsAssumption
    <3>6. QED
      BY <3>4, <3>5
  <2>2. \A u, v \in Writers \ {w} : Bound(u) /\ Bound(v) /\ u # v /\ holds[u].chunk = holds[v].chunk =>
          holds[u].to <= holds[v].from \/ holds[v].to <= holds[u].from
    BY DEF IInv, PaddingIsItsOwn, Bound
  <2>3. taken.to - taken.from = Draw /\ taken.to <= randPos'
    BY <1>1, <1>2, <1>3
  <2>4. QED
    BY <1>3, <2>1, <2>2, <2>3 DEF PaddingIsItsOwn, Bound
<1>9. QED
  BY <1>4, <1>5, <1>6, <1>7, <1>8 DEF IInv

LEMMA SealStep ==
  ASSUME IInv, NEW w \in Writers, Seal(w)
  PROVE  IInv'
<1>0. PICK at \in Nat : at = holds[w].at /\ Bound(w)
  BY DEF Seal, Bound, IInv, ObfsTypeOK, Holding
<1>1. /\ Bound(w) /\ holds' = [holds EXCEPT ![w] = Nothing]
      /\ nonces' = nonces \cup {Nonce(at)} /\ sealed' = sealed + 1
      /\ UNCHANGED <<initSeq, initTs, count, randPos, refill>>
  BY <1>0 DEF Seal, Bound
<1>2. at \in Nat /\ at < count /\ count <= Window /\ count \in Nat
  BY <1>0, WindowIsNat DEF IInv, ObfsTypeOK, Holding, NumbersAreTaken, Bound
<1>3. ~Bound(w)' /\ \A v \in Writers \ {w} : holds'[v] = holds[v]
  BY <1>1 DEF IInv, ObfsTypeOK, Bound
<1>4. Nonce(at) \in (0 .. SeqSize - 1) \X (0 .. TsSize - 1)
  <2>1. at \div SeqSize \in Nat /\ at * Step \in Nat
    <3>1. at \div SeqSize \in Nat
      BY <1>2, WindowIsNat, DivMod
    <3>2. at * Step \in Nat
      BY <1>2, ObfsAssumption, SMT
    <3>3. QED
      BY <3>1, <3>2
  <2>2. initSeq + at \in Nat /\ initTs + at * Step + at \div SeqSize \in Nat
    BY <1>2, <2>1 DEF IInv, ObfsTypeOK
  <2>3. SeqOf(at) \in 0 .. SeqSize - 1 /\ TsOf(at) \in 0 .. TsSize - 1
    BY <2>2, WindowIsNat, DivMod DEF SeqOf, TsOf
  <2>4. QED
    BY <2>3 DEF Nonce
<1>5. ObfsTypeOK'
  BY <1>1, <1>4 DEF IInv, ObfsTypeOK
<1>6. Nonce(at) \notin nonces
  <2>1. SUFFICES ASSUME Nonce(at) \in nonces PROVE FALSE
    OBVIOUS
  <2>2. PICK c \in 0 .. count - 1 : Nonce(at) = Nonce(c) /\ \A v \in Writers : Bound(v) => holds[v].at # c
    BY <2>1 DEF IInv, NumbersAreTaken
  <2>3. c # at /\ c \in Nat /\ c < Window /\ at < Window
    BY <1>0, <1>2, <2>2, WindowIsNat
  <2>4. initSeq \in Nat /\ initTs \in Nat
    BY DEF IInv, ObfsTypeOK
  <2>5. CASE c < at
    BY <1>2, <2>2, <2>3, <2>4, <2>5, Injective
  <2>6. CASE at < c
    BY <1>2, <2>2, <2>3, <2>4, <2>6, Injective
  <2>7. QED
    BY <1>2, <2>3, <2>5, <2>6
<1>7. IsFiniteSet(nonces)' /\ NonceOnce'
  <2>1. IsFiniteSet(nonces') /\ Cardinality(nonces') = Cardinality(nonces) + 1
    BY <1>1, <1>6, FS_AddElement DEF IInv
  <2>2. QED
    BY <1>1, <2>1 DEF IInv, NonceOnce
<1>8. NumbersAreTaken'
  <2>1. \A v \in Writers : Bound(v)' => holds'[v].at < count'
    BY <1>1, <1>3 DEF IInv, NumbersAreTaken, Bound
  <2>2. \A u, v \in Writers : Bound(u)' /\ Bound(v)' /\ holds'[u].at = holds'[v].at => u = v
    BY <1>1, <1>3 DEF IInv, NumbersAreTaken, Bound
  <2>3. \A c : Nonce(c)' = Nonce(c)
    BY <1>1 DEF Nonce, SeqOf, TsOf
  <2>4. ASSUME NEW n \in nonces
        PROVE  \E c \in 0 .. count' - 1 :
                 n = Nonce(c)' /\ \A v \in Writers : Bound(v)' => holds'[v].at # c
    BY <1>1, <1>3, <2>3 DEF IInv, NumbersAreTaken, Bound
  <2>5. \A v \in Writers : Bound(v)' => holds'[v].at # at
    BY <1>0, <1>1, <1>3 DEF IInv, NumbersAreTaken, Bound
  <2>6. at \in 0 .. count' - 1 /\ Nonce(at)' = Nonce(at)
    BY <1>1, <1>2, <2>3 DEF IInv, ObfsTypeOK
  <2>7. \A n \in nonces' : \E c \in 0 .. count' - 1 :
          n = Nonce(c)' /\ \A v \in Writers : Bound(v)' => holds'[v].at # c
    BY <1>1, <2>4, <2>5, <2>6
  <2>8. QED
    BY <2>1, <2>2, <2>7 DEF NumbersAreTaken
<1>9. ChunksAreFilled' /\ PaddingIsItsOwn'
  BY <1>1, <1>3 DEF IInv, ChunksAreFilled, PaddingIsItsOwn, Bound
<1>10. QED
  BY <1>5, <1>7, <1>8, <1>9 DEF IInv

LEMMA IInvStep == IInv /\ [ObfsNext]_obfsVars => IInv'
<1> SUFFICES ASSUME IInv, [ObfsNext]_obfsVars PROVE IInv'
  OBVIOUS
<1>1. CASE FromServer \/ UNCHANGED obfsVars
  <2>1. UNCHANGED <<initSeq, initTs, count, randPos, refill, holds, nonces, sealed>>
    BY <1>1 DEF FromServer, obfsVars
  <2>2. ObfsTypeOK' /\ ChunksAreFilled' /\ IsFiniteSet(nonces)' /\ NonceOnce' /\ PaddingIsItsOwn'
    BY <2>1 DEF IInv, ObfsTypeOK, ChunksAreFilled, NonceOnce, PaddingIsItsOwn, Bound
  <2>3. NumbersAreTaken'
    BY <2>1 DEF IInv, NumbersAreTaken, Bound, Nonce, SeqOf, TsOf
  <2>4. QED
    BY <2>2, <2>3 DEF IInv
<1>2. QED
  BY <1>1, TakeStep, SealStep DEF ObfsNext

(* Every number, every chunk and every nonce keeps its type, for every     *)
(* width of the counters.                                                  *)
THEOREM TypeCorrect == ObfsSpec => []ObfsTypeOK
<1>1. IInv => ObfsTypeOK
  BY DEF IInv
<1>2. QED
  BY <1>1, InitIInv, IInvStep, PTL DEF ObfsSpec

(* No nonce is used twice in a window, whatever the width, the step and    *)
(* the first values (obfs.go:155-170): for the code's 16 bits the window   *)
(* is the 2^48 of its packet counter.                                      *)
THEOREM NoncesDiffer == ObfsSpec => []NonceOnce
<1>1. IInv => NonceOnce
  BY DEF IInv
<1>2. QED
  BY <1>1, InitIInv, IInvStep, PTL DEF ObfsSpec

(* The random bytes of a packet are whole and its own, for every chunk     *)
(* that holds one draw (obfs.go:100-110).                                  *)
THEOREM PaddingDiffers == ObfsSpec => []PaddingIsItsOwn
<1>1. IInv => PaddingIsItsOwn
  BY DEF IInv
<1>2. QED
  BY <1>1, InitIInv, IInvStep, PTL DEF ObfsSpec
-----------------------------------------------------------------------------
(* Unwrapping is the inverse of wrapping.                                  *)

LEMMA PacketUnwraps ==
  ASSUME NEW ext \in BOOLEAN, NEW body \in Bodies, NEW rnd \in 0 .. PaddingMax
  PROVE  LET p == Packet(ext, body, PadTotal(rnd)) IN Unwrap(p) = p.body
<1> DEFINE pad == PadTotal(rnd)
           head == HeaderLen(ext)
           p == Packet(ext, body, pad)
<1>1. /\ body \in Nat \ {0} /\ Overhead \in Nat \ {0}
      /\ PaddingMax \in 1 .. 255 /\ head \in {12, 24}
  BY ObfsAssumption DEF HeaderLen
<1>2. pad \in 1 .. 255
  <2>1. rnd \in Nat /\ PaddingMax \in Nat \ {0}
    BY <1>1
  <2>2. rnd % PaddingMax \in 0 .. PaddingMax - 1
    BY <2>1, DivMod
  <2>3. QED
    BY <1>1, <2>2 DEF PadTotal
<1>3. pad % 256 = pad
  BY <1>2
<1>4. /\ p.len = head + body + Overhead + pad /\ p.ext = ext /\ p.last = pad
      /\ p.text = <<head, head + body + Overhead>> /\ p.body = body
  BY <1>3 DEF Packet
<1> HIDE DEF pad, head, p
<1>5. p.len - p.last = head + body + Overhead
  BY <1>1, <1>2, <1>4
<1>6. HeaderLen(p.ext) = head
  BY <1>4 DEF head
<1>7. /\ p.len >= head + 1 /\ p.last > 0 /\ head <= head + body + Overhead
      /\ (head + body + Overhead) - head > Overhead
      /\ (head + body + Overhead) - head - Overhead = body
  BY <1>1, <1>2, <1>4
<1>8. Unwrap(p) = p.body
  BY <1>4, <1>5, <1>6, <1>7 DEF Unwrap
<1>9. QED
  BY <1>8 DEF p, pad

LEMMA UnwrapsStep == UnwrapsToItself /\ [ObfsNext]_obfsVars => UnwrapsToItself'
<1> SUFFICES ASSUME UnwrapsToItself, [ObfsNext]_obfsVars PROVE UnwrapsToItself'
  OBVIOUS
<1>1. CASE wire' = wire
  BY <1>1 DEF UnwrapsToItself, Unwrap, HeaderLen
<1>2. ASSUME NEW ext \in BOOLEAN, NEW body \in Bodies, NEW rnd \in 0 .. PaddingMax,
             wire' = Packet(ext, body, PadTotal(rnd))
      PROVE  UnwrapsToItself'
  <2>1. Unwrap(wire') = wire'.body
    BY <1>2, PacketUnwraps
  <2>2. QED
    BY <2>1 DEF UnwrapsToItself, Unwrap, HeaderLen
<1>3. ASSUME NEW w \in Writers, Take(w) PROVE UnwrapsToItself'
  BY <1>1, <1>3 DEF Take
<1>4. ASSUME NEW w \in Writers, Seal(w) PROVE UnwrapsToItself'
  BY <1>2, <1>4 DEF Seal
<1>5. CASE FromServer
  BY <1>2, <1>5 DEF FromServer
<1>6. CASE UNCHANGED obfsVars
  BY <1>1, <1>6 DEF obfsVars
<1>7. QED
  BY <1>3, <1>4, <1>5, <1>6 DEF ObfsNext

(* What a goroutine of the session or the server wraps is unwrapped to its *)
(* whole payload, for every payload, overhead and padding up to the 255    *)
(* that one length byte can say (obfs.go:191-245).                         *)
THEOREM WrappingIsUndone == ObfsSpec => []UnwrapsToItself
<1>1. ObfsInit => UnwrapsToItself
  BY DEF ObfsInit, UnwrapsToItself
<1>2. QED
  BY <1>1, UnwrapsStep, PTL DEF ObfsSpec
-----------------------------------------------------------------------------
(* The goroutines of a session.                                            *)

(* What RunSession has waited for is gone, and what has gone has cancelled *)
(* the session: nothing comes back.                                        *)
WaitedFor ==
  /\ phase # "proxy" => reader = "gone" /\ writer = "gone" /\ ~keeper
  /\ phase \in {"turn", "returned"} => pumps = {}
  /\ phase = "returned" => ~binder

SInv == HalfDeadIsCancelled /\ WaitedFor

LEMMA SessionInit == Init => SInv
  BY DEF Init, SInv, HalfDeadIsCancelled, HalfDead, WaitedFor

LEMMA ReaderInvariant ==
  ASSUME SInv, ReaderStep \/ ReaderReads \/ ReaderFails
  PROVE  SInv'
  BY DEF SInv, HalfDeadIsCancelled, HalfDead, WaitedFor, ReaderStep, ReaderArms,
         ReaderPushes, ReaderTimesOut, ReaderAfterTimeout, ReaderReads, ReaderFails,
         kind, deadlines, Pumps

LEMMA WriterInvariant ==
  ASSUME SInv, WriterStep \/ PacketQueued
  PROVE  SInv'
<1>1. UNCHANGED <<ctx, dtls, reader, keeper, binder, watcher, pumps, phase>>
  BY DEF WriterStep, WriterPicks, WriterPaces, WriterArms, WriterWrites, WriterEnds,
         PacketQueued, kind, goroutines
<1>2. CASE WriterPicks \/ WriterPaces \/ WriterArms \/ WriterWrites
  <2>1. writer # "gone" /\ writer' # "gone" /\ UNCHANGED sess
    BY <1>2 DEF WriterPicks, WriterPaces, WriterArms, WriterWrites
  <2>2. QED
    BY <1>1, <2>1 DEF SInv, HalfDeadIsCancelled, HalfDead, WaitedFor, Pumps
<1>3. CASE WriterEnds
  <2>1. writer # "gone" /\ writer' = "gone" /\ sess'
    BY <1>3 DEF WriterEnds, SessCancel
  <2>2. QED
    BY <1>1, <2>1 DEF SInv, HalfDeadIsCancelled, HalfDead, WaitedFor, Pumps
<1>4. CASE PacketQueued
  <2>1. UNCHANGED <<writer, sess>>
    BY <1>4 DEF PacketQueued, goroutines
  <2>2. QED
    BY <1>1, <2>1 DEF SInv, HalfDeadIsCancelled, HalfDead, WaitedFor, Pumps
<1>5. QED
  BY <1>2, <1>3, <1>4 DEF WriterStep

LEMMA EndInvariant ==
  ASSUME SInv, EndStep \/ (\E p \in Pumps : PumpEnds(p)) \/ WatcherCancels \/ Stop
  PROVE  SInv'
  BY DEF SInv, HalfDeadIsCancelled, HalfDead, WaitedFor, EndStep, KeeperEnds,
         BinderEnds, WatcherEnds, PumpEnds, SessCancel, WatcherCancels, Stop,
         kind, deadlines, goroutines, Pumps

LEMMA WakeInvariant ==
  ASSUME SInv, WakeStep \/ GoodbyeStep
  PROVE  SInv'
  BY DEF SInv, HalfDeadIsCancelled, HalfDead, WaitedFor, WakeStep, WakeConn, WakePipes,
         GoodbyeStep, GoodbyeWakes, GoodbyeWrites, kind, deadlines, goroutines, Pumps

LEMMA WaitInvariant ==
  ASSUME SInv, Wait
  PROVE  SInv'
  BY DEF SInv, HalfDeadIsCancelled, HalfDead, WaitedFor, Wait, ProxyDone,
         kind, deadlines, goroutines, Pumps

LEMMA SessionStep == SInv /\ [Next]_vars => SInv'
<1> SUFFICES ASSUME SInv, [Next]_vars PROVE SInv'
  OBVIOUS
<1>1. CASE UNCHANGED vars
  BY <1>1 DEF vars, kind, goroutines, deadlines, SInv, HalfDeadIsCancelled, HalfDead,
              WaitedFor, Pumps
<1>2. CASE Next
  BY <1>2, ReaderInvariant, WriterInvariant, EndInvariant, WakeInvariant, WaitInvariant DEF Next
<1>3. QED
  BY <1>1, <1>2

(* No goroutine that uses the connection or the slot is left when the      *)
(* session returns and closes them (session.go:773-776).                   *)
THEOREM NobodyOutlives == Spec => []NobodyOutlivesTheSession
<1>1. SInv => NobodyOutlivesTheSession
  BY DEF SInv, WaitedFor, NobodyOutlivesTheSession
<1>2. QED
  BY <1>1, SessionInit, SessionStep, PTL DEF Spec

(* Whichever goroutine of a session ends, it has ended or found ended the  *)
(* session for the others (session.go:388, 424, 650, 722).                 *)
THEOREM NobodyDiesAlone == Spec => []HalfDeadIsCancelled
<1>1. SInv => HalfDeadIsCancelled
  BY DEF SInv
<1>2. QED
  BY <1>1, SessionInit, SessionStep, PTL DEF Spec

LEMMA SessionTypesInit ==
  ASSUME QueueCap \in Nat \ {0}
  PROVE  Init => TypeOK
<1> SUFFICES ASSUME Init PROVE TypeOK
  OBVIOUS
<1>1. pumps \subseteq Pumps /\ goodbye \in {"wait", "write", "sent", "none"}
  BY DEF Init
<1>2. queue \in 0 .. QueueCap
  BY DEF Init
<1>3. QED
  BY <1>1, <1>2, Zenon DEF Init, TypeOK

LEMMA SessionTypesStep ==
  ASSUME QueueCap \in Nat \ {0}
  PROVE  TypeOK /\ [Next]_vars => TypeOK'
<1> SUFFICES ASSUME TypeOK, [Next]_vars PROVE TypeOK'
  OBVIOUS
<1> USE DEF kind, goroutines, deadlines
<1>1. CASE ReaderArms
  BY <1>1 DEF ReaderArms, TypeOK
<1>2. CASE ReaderReads
  BY <1>2 DEF ReaderReads, TypeOK
<1>3. CASE ReaderPushes
  BY <1>3 DEF ReaderPushes, TypeOK
<1>4. CASE ReaderTimesOut
  BY <1>4 DEF ReaderTimesOut, ReaderAfterTimeout, TypeOK
<1>5. CASE ReaderFails
  <2>1. reader' = "gone" /\ sess' \in BOOLEAN /\ stale' \in BOOLEAN
    BY <1>5 DEF ReaderFails, TypeOK
  <2>2. UNCHANGED <<dtls, rawMode, ctx, writer, keeper, binder, pumps, watcher, goodbye,
                    readDeadline, writeDeadline, connWoken, pipesWoken, queue, phase>>
    BY <1>5 DEF ReaderFails
  <2>3. QED
    BY <2>1, <2>2 DEF TypeOK
<1>6. CASE WriterPicks
  BY <1>6 DEF WriterPicks, TypeOK
<1>7. CASE WriterPaces
  BY <1>7 DEF WriterPaces, TypeOK
<1>8. CASE WriterArms
  BY <1>8 DEF WriterArms, TypeOK
<1>9. CASE WriterWrites
  <2>1. writer' \in {"pick", "drain"} /\ stale' \in BOOLEAN
    BY <1>9 DEF WriterWrites, TypeOK
  <2>2. UNCHANGED <<dtls, rawMode, ctx, sess, reader, keeper, binder, pumps, watcher, goodbye,
                    readDeadline, writeDeadline, connWoken, pipesWoken, queue, phase>>
    BY <1>9 DEF WriterWrites
  <2>3. QED
    BY <2>1, <2>2 DEF TypeOK
<1>10. CASE WriterEnds
  BY <1>10 DEF WriterEnds, SessCancel, TypeOK
<1>11. CASE PacketQueued
  BY <1>11 DEF PacketQueued, HasRoom, TypeOK
<1>12. CASE KeeperEnds
  <2>1. keeper' \in BOOLEAN
    BY <1>12 DEF KeeperEnds, TypeOK
  <2>2. UNCHANGED <<dtls, rawMode, ctx, sess, reader, writer, binder, pumps, watcher, goodbye,
                    readDeadline, writeDeadline, connWoken, pipesWoken, queue, stale, phase>>
    BY <1>12 DEF KeeperEnds
  <2>3. QED
    BY <2>1, <2>2 DEF TypeOK
<1>13. CASE BinderEnds
  <2>1. binder' \in BOOLEAN
    BY <1>13 DEF BinderEnds, TypeOK
  <2>2. UNCHANGED <<dtls, rawMode, ctx, sess, reader, writer, keeper, pumps, watcher, goodbye,
                    readDeadline, writeDeadline, connWoken, pipesWoken, queue, stale, phase>>
    BY <1>13 DEF BinderEnds
  <2>3. QED
    BY <2>1, <2>2 DEF TypeOK
<1>14. CASE WatcherEnds
  <2>1. watcher' \in BOOLEAN
    BY <1>14 DEF WatcherEnds, TypeOK
  <2>2. UNCHANGED <<dtls, rawMode, ctx, sess, reader, writer, keeper, binder, pumps, goodbye,
                    readDeadline, writeDeadline, connWoken, pipesWoken, queue, stale, phase>>
    BY <1>14 DEF WatcherEnds
  <2>3. QED
    BY <2>1, <2>2 DEF TypeOK
<1>15. CASE WatcherCancels
  <2>1. watcher' \in BOOLEAN /\ sess' \in BOOLEAN
    BY <1>15 DEF WatcherCancels, TypeOK
  <2>2. UNCHANGED <<dtls, rawMode, ctx, reader, writer, keeper, binder, pumps, goodbye,
                    readDeadline, writeDeadline, connWoken, pipesWoken, queue, stale, phase>>
    BY <1>15 DEF WatcherCancels
  <2>3. QED
    BY <2>1, <2>2 DEF TypeOK
<1>16. CASE Stop
  BY <1>16 DEF Stop, TypeOK
<1>17. CASE WakeConn
  BY <1>17 DEF WakeConn, TypeOK
<1>18. CASE WakePipes
  BY <1>18 DEF WakePipes, TypeOK
<1>19. CASE GoodbyeWakes
  BY <1>19 DEF GoodbyeWakes, TypeOK
<1>20. CASE GoodbyeWrites
  BY <1>20 DEF GoodbyeWrites, TypeOK
<1>21. CASE Wait
  <2>1. phase' \in {"relay", "turn", "returned"} /\ sess' \in BOOLEAN
    BY <1>21 DEF Wait, TypeOK
  <2>2. UNCHANGED <<dtls, rawMode, ctx, reader, writer, keeper, binder, pumps, watcher, goodbye,
                    readDeadline, writeDeadline, connWoken, pipesWoken, queue, stale>>
    BY <1>21 DEF Wait
  <2>3. QED
    BY <2>1, <2>2 DEF TypeOK
<1>22. ASSUME NEW p \in Pumps, PumpEnds(p) PROVE TypeOK'
  BY <1>22 DEF PumpEnds, SessCancel, TypeOK
<1>23. CASE UNCHANGED vars
  BY <1>23 DEF vars, TypeOK
<1>24. QED
  BY <1>1, <1>2, <1>3, <1>4, <1>5, <1>6, <1>7, <1>8, <1>9, <1>10, <1>11, <1>12, <1>13, <1>14,
     <1>15, <1>16, <1>17, <1>18, <1>19, <1>20, <1>21, <1>22, <1>23
     DEF Next, ReaderStep, WriterStep, EndStep, WakeStep, GoodbyeStep

(* Every variable of a session has its type, with the packets queued for   *)
(* it never over the capacity of its channels.                             *)
THEOREM SessionTypes ==
  ASSUME QueueCap \in Nat \ {0}
  PROVE  Spec => []TypeOK
  BY SessionTypesInit, SessionTypesStep, PTL DEF Spec
=============================================================================
