------------------------ MODULE CapacityCacheProofs -------------------------
(***************************************************************************)
(* Lemmas about CapacityCache, for every set of keys and values and every  *)
(* capacity: what moving, adding and dropping a key does to the list, and  *)
(* that every operation keeps the list and the map in step.                *)
(***************************************************************************)
EXTENDS CapacityCache, FiniteSetTheorems, SequenceTheorems, TLAPS
-----------------------------------------------------------------------------
(* Lists.                                                                  *)
Distinct(s) == \A i, j \in DOMAIN s : s[i] = s[j] => i = j

Holds(s, x) == \E i \in DOMAIN s : s[i] = x

(* t holds what s holds, and x.                                            *)
Adds(t, s, x) == \A y : Holds(t, y) <=> Holds(s, y) \/ y = x

LEMMA PositionIs ==
    ASSUME NEW S, NEW s \in Seq(S), Distinct(s), NEW x, NEW i \in DOMAIN s, s[i] = x
    PROVE  Position(s, x) = i
BY DEF Position, Distinct

(* What splice does to a list in which x is at position p.                 *)
LEMMA MoveToFrontIs ==
    ASSUME NEW S, NEW s \in Seq(S), Distinct(s), NEW x \in S, NEW p \in DOMAIN s, s[p] = x
    PROVE  LET t == MoveToFront(s, x)
           IN  /\ t \in Seq(S)
               /\ Len(t) = Len(s)
               /\ t[1] = x
               /\ \A i \in 2 .. p : t[i] = s[i - 1]
               /\ \A i \in p + 1 .. Len(s) : t[i] = s[i]
<1> DEFINE t == MoveToFront(s, x)
<1>1. Position(s, x) = p
      BY PositionIs
<1>2. Len(s) \in Nat /\ DOMAIN s = 1 .. Len(s) /\ p \in 1 .. Len(s)
      OBVIOUS
<1>3. t = [i \in 1 .. Len(s) |-> IF i = 1 THEN x ELSE IF i <= p THEN s[i - 1] ELSE s[i]]
      BY <1>1, <1>2 DEF MoveToFront
<1>4. \A i \in 1 .. Len(s) : t[i] = IF i = 1 THEN x ELSE IF i <= p THEN s[i - 1] ELSE s[i]
      BY <1>3
<1>5. \A i \in 1 .. Len(s) : t[i] \in S
      BY <1>2, <1>4
<1>6. t \in Seq(S) /\ Len(t) = Len(s)
      BY <1>2, <1>3, <1>5
<1>7. /\ t[1] = x
      /\ \A i \in 2 .. p : t[i] = s[i - 1]
      /\ \A i \in p + 1 .. Len(s) : t[i] = s[i]
      BY <1>2, <1>4
<1> QED BY <1>6, <1>7

LEMMA MoveToFrontKeeps ==
    ASSUME NEW S, NEW s \in Seq(S), Distinct(s), NEW x \in S, Holds(s, x)
    PROVE  Distinct(MoveToFront(s, x)) /\ Adds(MoveToFront(s, x), s, x)
<1> DEFINE t == MoveToFront(s, x)
<1>1. PICK p \in DOMAIN s : s[p] = x
      BY DEF Holds
<1>2. /\ t \in Seq(S) /\ Len(t) = Len(s) /\ t[1] = x
      /\ \A i \in 2 .. p : t[i] = s[i - 1]
      /\ \A i \in p + 1 .. Len(s) : t[i] = s[i]
      BY <1>1, MoveToFrontIs
<1>3. DOMAIN s = 1 .. Len(s) /\ DOMAIN t = 1 .. Len(s) /\ Len(s) \in Nat /\ p \in 1 .. Len(s)
      BY <1>2
<1> HIDE DEF t
<1>4. ASSUME NEW i \in DOMAIN t, NEW j \in DOMAIN t, t[i] = t[j] PROVE i = j
  <2> DEFINE from(n) == IF n = 1 THEN p ELSE IF n <= p THEN n - 1 ELSE n
  <2>1. \A n \in DOMAIN t : from(n) \in DOMAIN s /\ t[n] = s[from(n)]
        BY <1>1, <1>2, <1>3
  <2>2. from(i) = from(j)
        BY <1>4, <2>1 DEF Distinct
  <2> QED BY <1>3, <2>2
<1>5. ASSUME NEW y, NEW i \in DOMAIN t, t[i] = y PROVE Holds(s, y)
      BY <1>1, <1>2, <1>3, <1>5 DEF Holds
<1>6. ASSUME NEW y, NEW i \in DOMAIN s, s[i] = y PROVE Holds(t, y)
  <2>1. CASE i < p
    <3>1. i + 1 \in DOMAIN t /\ t[i + 1] = y
          BY <1>2, <1>3, <1>6, <2>1
    <3> QED BY <3>1 DEF Holds
  <2>2. CASE i = p
    <3>1. 1 \in DOMAIN t /\ t[1] = y
          BY <1>1, <1>2, <1>3, <1>6, <2>2
    <3> QED BY <3>1 DEF Holds
  <2>3. CASE i > p
    <3>1. i \in DOMAIN t /\ t[i] = y
          BY <1>2, <1>3, <1>6, <2>3
    <3> QED BY <3>1 DEF Holds
  <2> QED BY <1>3, <2>1, <2>2, <2>3
<1>7. \A y : Holds(t, y) <=> Holds(s, y) \/ y = x
      BY <1>5, <1>6 DEF Holds
<1> QED BY <1>4, <1>7 DEF Distinct, Adds, t

(* push_front.                                                             *)
LEMMA PrependIs ==
    ASSUME NEW S, NEW s \in Seq(S), NEW x \in S
    PROVE  LET t == <<x>> \o s
           IN  /\ t \in Seq(S)
               /\ Len(t) = Len(s) + 1
               /\ t[1] = x
               /\ \A i \in 2 .. Len(s) + 1 : t[i] = s[i - 1]
OBVIOUS

LEMMA PrependKeeps ==
    ASSUME NEW S, NEW s \in Seq(S), Distinct(s), NEW x \in S, ~Holds(s, x)
    PROVE  Distinct(<<x>> \o s) /\ Adds(<<x>> \o s, s, x)
<1> DEFINE t == <<x>> \o s
<1>1. /\ t \in Seq(S) /\ Len(t) = Len(s) + 1 /\ t[1] = x
      /\ \A i \in 2 .. Len(s) + 1 : t[i] = s[i - 1]
      BY PrependIs
<1>2. DOMAIN s = 1 .. Len(s) /\ DOMAIN t = 1 .. Len(s) + 1 /\ Len(s) \in Nat
      BY <1>1
<1> HIDE DEF t
<1>3. ASSUME NEW i \in DOMAIN t, NEW j \in DOMAIN t, t[i] = t[j] PROVE i = j
  <2>1. \A n \in DOMAIN t : n = 1 \/ (n - 1 \in DOMAIN s /\ t[n] = s[n - 1])
        BY <1>1, <1>2
  <2>2. \A n \in DOMAIN s : s[n] # x
        BY DEF Holds
  <2> QED BY <1>1, <1>2, <1>3, <2>1, <2>2 DEF Distinct
<1>4. ASSUME NEW y, NEW i \in DOMAIN t, t[i] = y PROVE Holds(s, y) \/ y = x
      BY <1>1, <1>2, <1>4 DEF Holds
<1>5. ASSUME NEW y, NEW i \in DOMAIN s, s[i] = y PROVE Holds(t, y)
  <2>1. i + 1 \in DOMAIN t /\ t[i + 1] = y
        BY <1>1, <1>2, <1>5
  <2> QED BY <2>1 DEF Holds
<1>6. Holds(t, x)
  <2>1. 1 \in DOMAIN t /\ t[1] = x
        BY <1>1, <1>2
  <2> QED BY <2>1 DEF Holds
<1>7. \A y : Holds(t, y) <=> Holds(s, y) \/ y = x
      BY <1>4, <1>5, <1>6 DEF Holds
<1> QED BY <1>3, <1>7 DEF Distinct, Adds, t

(* pop_back.                                                               *)
LEMMA DropLast ==
    ASSUME NEW S, NEW s \in Seq(S), Len(s) > 0, Distinct(s)
    PROVE  LET t == SubSeq(s, 1, Len(s) - 1)
           IN  /\ t \in Seq(S)
               /\ Len(t) = Len(s) - 1
               /\ \A i \in 1 .. Len(s) - 1 : t[i] = s[i]
               /\ Distinct(t)
               /\ \A y : Holds(t, y) <=> Holds(s, y) /\ y # s[Len(s)]
<1> DEFINE t == SubSeq(s, 1, Len(s) - 1)
<1>1. /\ t \in Seq(S) /\ Len(t) = Len(s) - 1
      /\ \A i \in 1 .. Len(s) - 1 : t[i] = s[i]
  <2> DEFINE n == Len(s) - 1
  <2>1. n \in Nat /\ \A i \in 1 .. n : s[i] \in S
        OBVIOUS
  <2> HIDE DEF n
  <2>2. /\ SubSeq(s, 1, n) \in Seq(S)
        /\ Len(SubSeq(s, 1, n)) = IF 1 <= n THEN n - 1 + 1 ELSE 0
        /\ \A i \in 1 .. n - 1 + 1 : SubSeq(s, 1, n)[i] = s[1 + i - 1]
        BY <2>1, SubSeqProperties
  <2>3. Len(SubSeq(s, 1, n)) = n /\ \A i \in 1 .. n : SubSeq(s, 1, n)[i] = s[i]
        BY <2>1, <2>2
  <2> QED BY <2>2, <2>3 DEF n
<1>2. DOMAIN s = 1 .. Len(s) /\ DOMAIN t = 1 .. Len(s) - 1 /\ Len(s) \in Nat
      BY <1>1
<1> HIDE DEF t
<1>3. Distinct(t)
      BY <1>1, <1>2 DEF Distinct
<1>4. ASSUME NEW y, NEW i \in DOMAIN t, t[i] = y PROVE Holds(s, y) /\ y # s[Len(s)]
      BY <1>1, <1>2, <1>4 DEF Holds, Distinct
<1>5. ASSUME NEW y, NEW i \in DOMAIN s, s[i] = y, y # s[Len(s)] PROVE Holds(t, y)
  <2>1. i \in DOMAIN t /\ t[i] = y
        BY <1>1, <1>2, <1>5
  <2> QED BY <2>1 DEF Holds
<1>6. \A y : Holds(t, y) <=> Holds(s, y) /\ y # s[Len(s)]
      BY <1>4, <1>5 DEF Holds
<1> QED BY <1>1, <1>3, <1>6 DEF t
-----------------------------------------------------------------------------
(* The list usage and the map value are in step.                           *)
InStep(usage, value) ==
    /\ usage \in Seq(Keys)
    /\ value \in [Keys -> Values \cup {NoValue}]
    /\ \A k \in Keys : value[k] # NoValue <=> Holds(usage, k)
    /\ Distinct(usage)

CacheInv == InStep(m_keyUsage, m_keyValue) /\ Len(m_keyUsage) <= m_capacity

LEMMA CacheInvMeans == CacheInv => CacheTypeOK /\ UsageMatchesValues
BY DEF CacheInv, InStep, CacheTypeOK, UsageMatchesValues, Cached, Holds, Distinct

(* The map has as many entries as the list: m_keyUsage counts the keys.    *)
LEMMA SizeIsLength == CacheInv => size = Len(m_keyUsage)
<1> SUFFICES ASSUME CacheInv PROVE size = Len(m_keyUsage)
    OBVIOUS
<1> DEFINE n == Len(m_keyUsage)
           C == {k \in Keys : Cached(k)}
<1>1. n \in Nat /\ DOMAIN m_keyUsage = 1 .. n
      BY DEF CacheInv, InStep
<1>2. \A i \in 1 .. n : m_keyUsage[i] \in C
      BY <1>1 DEF CacheInv, InStep, Cached, Holds
<1>3. m_keyUsage \in [1 .. n -> C]
      BY <1>1, <1>2 DEF CacheInv, InStep
<1>4. \A k \in C : \E i \in 1 .. n : m_keyUsage[i] = k
      BY <1>1 DEF CacheInv, InStep, Cached, Holds
<1>5. m_keyUsage \in Bijection(1 .. n, C)
  <2>1. IsInjective(m_keyUsage)
        BY DEF IsInjective, CacheInv, InStep, Distinct
  <2> QED BY <1>3, <1>4, <2>1 DEF Bijection, Injection, Surjection
<1>6. IsFiniteSet(1 .. n) /\ Cardinality(1 .. n) = n
  <2> HIDE DEF n
  <2>1. IsFiniteSet(1 .. n) /\ Cardinality(1 .. n) = IF 1 > n THEN 0 ELSE n - 1 + 1
        BY <1>1, FS_Interval
  <2> QED BY <1>1, <2>1
<1>7. Cardinality(C) = n
      BY <1>5, <1>6, FS_Bijection DEF ExistsBijection
<1> QED BY <1>7 DEF size

LEMMA CacheInvInit == CacheInit => CacheInv
<1>1. <<>> \in Seq(Keys) /\ Len(<<>>) = 0 /\ DOMAIN <<>> = {}
      OBVIOUS
<1> QED BY <1>1, CapacityAssumption DEF CacheInit, CacheInv, InStep, Holds, Distinct

LEMMA CacheInvClear == clear => CacheInv'
<1>1. <<>> \in Seq(Keys) /\ Len(<<>>) = 0 /\ DOMAIN <<>> = {}
      OBVIOUS
<1> QED BY <1>1, CapacityAssumption DEF clear, CacheInv, InStep, Holds, Distinct

LEMMA CacheInvGet ==
    ASSUME CacheInv, NEW k \in Keys, Get(k)
    PROVE  CacheInv'
<1>1. CASE Cached(k)
  <2>1. m_keyUsage' = MoveToFront(m_keyUsage, k) /\ m_keyValue' = m_keyValue
        BY <1>1 DEF Get
  <2>2. Holds(m_keyUsage, k)
        BY <1>1 DEF CacheInv, InStep, Cached
  <2>3. Distinct(m_keyUsage') /\ Adds(m_keyUsage', m_keyUsage, k)
        BY <2>1, <2>2, MoveToFrontKeeps DEF CacheInv, InStep
  <2>4. m_keyUsage' \in Seq(Keys) /\ Len(m_keyUsage') = Len(m_keyUsage)
        BY <2>1, <2>2, MoveToFrontIs DEF CacheInv, InStep, Holds
  <2>5. \A x \in Keys : Holds(m_keyUsage', x) <=> Holds(m_keyUsage, x)
        BY <2>2, <2>3 DEF Adds
  <2> QED BY <2>1, <2>3, <2>4, <2>5 DEF CacheInv, InStep
<1>2. CASE ~Cached(k)
      BY <1>2 DEF Get, CacheInv, InStep
<1> QED BY <1>1, <1>2

(* Storing a value in a list and a map in step keeps them in step.         *)
LEMMA StoreKeeps ==
    ASSUME NEW usage, NEW value, InStep(usage, value), NEW k \in Keys, NEW v \in Values,
           Store(usage, value, k, v)
    PROVE  /\ InStep(m_keyUsage, m_keyValue)'
           /\ Len(m_keyUsage') = IF Holds(usage, k) THEN Len(usage) ELSE Len(usage) + 1
<1>1. /\ m_keyValue' \in [Keys -> Values \cup {NoValue}]
      /\ \A x \in Keys : m_keyValue'[x] # NoValue <=> value[x] # NoValue \/ x = k
      BY NoValueAssumption DEF Store, InStep
<1>2. /\ m_keyUsage' \in Seq(Keys) /\ Distinct(m_keyUsage') /\ Adds(m_keyUsage', usage, k)
      /\ Len(m_keyUsage') = IF Holds(usage, k) THEN Len(usage) ELSE Len(usage) + 1
  <2>1. CASE value[k] # NoValue
    <3>1. m_keyUsage' = MoveToFront(usage, k) /\ Holds(usage, k)
          BY <2>1 DEF Store, InStep
    <3>2. m_keyUsage' \in Seq(Keys) /\ Len(m_keyUsage') = Len(usage)
          BY <3>1, MoveToFrontIs DEF InStep, Holds
    <3> QED BY <3>1, <3>2, MoveToFrontKeeps DEF InStep
  <2>2. CASE value[k] = NoValue
    <3>1. m_keyUsage' = <<k>> \o usage /\ ~Holds(usage, k)
          BY <2>2 DEF Store, InStep
    <3>2. m_keyUsage' \in Seq(Keys) /\ Len(m_keyUsage') = Len(usage) + 1
          BY <3>1, PrependIs DEF InStep
    <3> QED BY <3>1, <3>2, PrependKeeps DEF InStep
  <2> QED BY <2>1, <2>2
<1> QED BY <1>1, <1>2 DEF InStep, Adds

(* What evict, called at full capacity, leaves.                            *)
LEMMA EvictKeeps ==
    ASSUME CacheInv, Len(m_keyUsage) > 0
    PROVE  InStep(UsageEvicted, ValueEvicted) /\ Len(UsageEvicted) = Len(m_keyUsage) - 1
<1> DEFINE last == m_keyUsage[Len(m_keyUsage)]
<1>1. last \in Keys
      BY DEF CacheInv, InStep
<1>2. /\ ValueEvicted \in [Keys -> Values \cup {NoValue}]
      /\ \A x \in Keys : ValueEvicted[x] # NoValue <=> m_keyValue[x] # NoValue /\ x # last
      BY <1>1 DEF ValueEvicted, CacheInv, InStep
<1>3. /\ UsageEvicted \in Seq(Keys) /\ Len(UsageEvicted) = Len(m_keyUsage) - 1
      /\ Distinct(UsageEvicted)
      /\ \A x : Holds(UsageEvicted, x) <=> Holds(m_keyUsage, x) /\ x # last
      BY DropLast DEF UsageEvicted, CacheInv, InStep
<1> QED BY <1>2, <1>3 DEF CacheInv, InStep

(* update: either nothing is kept, or a value is stored in what evict left. *)
LEMMA UpdateIsStore ==
    ASSUME CacheInv, NEW k \in Keys, NEW v \in Values, Update(k, v), m_capacity # 0
    PROVE  \/ /\ Len(m_keyUsage) = m_capacity
              /\ InStep(UsageEvicted, ValueEvicted)
              /\ Len(UsageEvicted) = m_capacity - 1
              /\ Store(UsageEvicted, ValueEvicted, k, v)
           \/ Len(m_keyUsage) < m_capacity /\ Store(m_keyUsage, m_keyValue, k, v)
<1>1. size = Len(m_keyUsage) /\ Len(m_keyUsage) \in Nat /\ Len(m_keyUsage) <= m_capacity
      BY SizeIsLength DEF CacheInv, InStep
<1>2. CASE size = m_capacity
      BY <1>1, <1>2, EvictKeeps, CapacityAssumption DEF Update
<1>3. CASE size # m_capacity
      BY <1>1, <1>3, CapacityAssumption DEF Update
<1> QED BY <1>2, <1>3

LEMMA CacheInvUpdate ==
    ASSUME CacheInv, NEW k \in Keys, NEW v \in Values, Update(k, v)
    PROVE  CacheInv'
<1>1. CASE m_capacity = 0
      BY <1>1 DEF Update, CacheInv, InStep, cacheVars
<1>2. CASE m_capacity # 0
  <2>1. InStep(m_keyUsage, m_keyValue)' /\ Len(m_keyUsage') <= m_capacity
    <3>1. CASE /\ InStep(UsageEvicted, ValueEvicted)
               /\ Len(UsageEvicted) = m_capacity - 1
               /\ Store(UsageEvicted, ValueEvicted, k, v)
          BY <3>1, StoreKeeps, CapacityAssumption
    <3>2. CASE Len(m_keyUsage) < m_capacity /\ Store(m_keyUsage, m_keyValue, k, v)
      <4>1. Len(m_keyUsage) \in Nat
            BY DEF CacheInv, InStep
      <4> QED BY <3>2, <4>1, StoreKeeps, CapacityAssumption DEF CacheInv
    <3> QED BY <1>2, <3>1, <3>2, UpdateIsStore
  <2> QED BY <2>1 DEF CacheInv
<1> QED BY <1>1, <1>2
=============================================================================
