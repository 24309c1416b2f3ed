------------------------ MODULE ServicePluginProofs -------------------------
(***************************************************************************)
(* Theorems about ServicePlugin, for every set of keys, every capacity of  *)
(* the cache, every data the agent may send and any number of checks of a  *)
(* key at once.                                                            *)
(***************************************************************************)
EXTENDS ServicePlugin, CapacityCacheProofs
-----------------------------------------------------------------------------
(* The list of cached keys against the history of uses.                    *)
Prefix(s, t) ==
    /\ Len(s) <= Len(t)
    /\ \A i \in 1 .. Len(s) : s[i] = t[i]

RecentInv ==
    /\ recent \in Seq(Keys)
    /\ Distinct(recent)
    /\ Prefix(m_keyUsage, recent)

PluginInv == CacheInv /\ RecentInv

(* How one use changes the history.                                        *)
LEMMA UseIs ==
    ASSUME recent \in Seq(Keys), Distinct(recent), NEW k \in Keys, Use(k)
    PROVE  /\ recent' \in Seq(Keys)
           /\ Distinct(recent')
           /\ recent' = IF Holds(recent, k) THEN MoveToFront(recent, k) ELSE <<k>> \o recent
           /\ Len(recent') = IF Holds(recent, k) THEN Len(recent) ELSE Len(recent) + 1
<1>1. recent' = IF Holds(recent, k) THEN MoveToFront(recent, k) ELSE <<k>> \o recent
      BY DEF Use, Holds
<1>2. CASE Holds(recent, k)
      BY <1>1, <1>2, MoveToFrontIs, MoveToFrontKeeps DEF Holds
<1>3. CASE ~Holds(recent, k)
      BY <1>1, <1>3, PrependIs, PrependKeeps
<1> QED BY <1>1, <1>2, <1>3

(* Using a key of the list moves it to the front of both.                  *)
LEMMA PrefixMove ==
    ASSUME NEW s \in Seq(Keys), Distinct(s), NEW t \in Seq(Keys), Distinct(t), Prefix(s, t),
           NEW k \in Keys, Holds(s, k)
    PROVE  Holds(t, k) /\ Prefix(MoveToFront(s, k), MoveToFront(t, k))
<1> DEFINE ms == MoveToFront(s, k)
           mt == MoveToFront(t, k)
<1>1. PICK p \in DOMAIN s : s[p] = k
      BY DEF Holds
<1>2. /\ p \in 1 .. Len(s) /\ p \in DOMAIN t /\ t[p] = k
      /\ Len(s) \in Nat /\ Len(t) \in Nat /\ Len(s) <= Len(t)
      BY <1>1 DEF Prefix
<1>3. /\ Len(ms) = Len(s) /\ ms[1] = k
      /\ \A i \in 2 .. p : ms[i] = s[i - 1]
      /\ \A i \in p + 1 .. Len(s) : ms[i] = s[i]
      BY <1>1, MoveToFrontIs
<1>4. /\ Len(mt) = Len(t) /\ mt[1] = k
      /\ \A i \in 2 .. p : mt[i] = t[i - 1]
      /\ \A i \in p + 1 .. Len(t) : mt[i] = t[i]
      BY <1>2, MoveToFrontIs
<1> HIDE DEF ms, mt
<1>5. ASSUME NEW i \in 1 .. Len(s) PROVE ms[i] = mt[i]
  <2>1. CASE i = 1
        BY <1>3, <1>4, <2>1
  <2>2. CASE i \in 2 .. p
    <3>1. i - 1 \in 1 .. Len(s) /\ ms[i] = s[i - 1] /\ mt[i] = t[i - 1]
          BY <1>2, <1>3, <1>4, <2>2
    <3> QED BY <3>1 DEF Prefix
  <2>3. CASE i \in p + 1 .. Len(s)
        BY <1>2, <1>3, <1>4, <2>3 DEF Prefix
  <2> QED BY <1>2, <2>1, <2>2, <2>3
<1>6. Prefix(ms, mt)
      BY <1>2, <1>3, <1>4, <1>5 DEF Prefix
<1> QED BY <1>2, <1>6 DEF Holds, ms, mt

(* Using another key puts it in front of both, wherever it was in the      *)
(* history.                                                                *)
LEMMA PrefixAdd ==
    ASSUME NEW s \in Seq(Keys), recent \in Seq(Keys), Distinct(recent), Prefix(s, recent),
           NEW k \in Keys, ~Holds(s, k), Use(k)
    PROVE  Prefix(<<k>> \o s, recent')
<1> DEFINE ps == <<k>> \o s
<1>1. /\ Len(ps) = Len(s) + 1 /\ ps[1] = k
      /\ \A i \in 2 .. Len(s) + 1 : ps[i] = s[i - 1]
      BY PrependIs
<1>2. Len(s) \in Nat /\ Len(recent) \in Nat /\ Len(s) <= Len(recent)
      BY DEF Prefix
<1> HIDE DEF ps
<1>3. /\ Len(s) + 1 <= Len(recent') /\ recent'[1] = k
      /\ \A i \in 2 .. Len(s) + 1 : recent'[i] = recent[i - 1]
  <2>1. CASE Holds(recent, k)
    <3>1. PICK p \in DOMAIN recent : recent[p] = k
          BY <2>1 DEF Holds
    <3>2. p > Len(s)
      <4>1. \A i \in 1 .. Len(s) : recent[i] # k
            BY DEF Prefix, Holds
      <4> QED BY <1>2, <3>1, <4>1
    <3>3. /\ Len(recent') = Len(recent) /\ recent'[1] = k
          /\ \A i \in 2 .. p : recent'[i] = recent[i - 1]
      <4> DEFINE t == MoveToFront(recent, k)
      <4>1. Len(t) = Len(recent) /\ t[1] = k /\ \A i \in 2 .. p : t[i] = recent[i - 1]
            BY <3>1, MoveToFrontIs
      <4>2. recent' = t
            BY <2>1, UseIs
      <4> QED BY <4>1, <4>2
    <3> QED BY <1>2, <3>1, <3>2, <3>3
  <2>2. CASE ~Holds(recent, k)
    <3>1. /\ Len(recent') = Len(recent) + 1 /\ recent'[1] = k
          /\ \A i \in 2 .. Len(recent) + 1 : recent'[i] = recent[i - 1]
      <4> DEFINE t == <<k>> \o recent
      <4>1. /\ Len(t) = Len(recent) + 1 /\ t[1] = k
            /\ \A i \in 2 .. Len(recent) + 1 : t[i] = recent[i - 1]
            BY PrependIs
      <4>2. recent' = t
            BY <2>2, UseIs
      <4> QED BY <4>1, <4>2
    <3> QED BY <1>2, <3>1
  <2> QED BY <2>1, <2>2
<1>4. ASSUME NEW i \in 1 .. Len(s) + 1 PROVE ps[i] = recent'[i]
  <2>1. CASE i = 1
        BY <1>1, <1>3, <2>1
  <2>2. CASE i # 1
    <3>1. i - 1 \in 1 .. Len(s) /\ ps[i] = s[i - 1] /\ recent'[i] = recent[i - 1]
          BY <1>1, <1>2, <1>3, <2>2
    <3> QED BY <3>1 DEF Prefix
  <2> QED BY <2>1, <2>2
<1>5. Prefix(ps, recent')
      BY <1>1, <1>3, <1>4 DEF Prefix
<1> QED BY <1>5 DEF ps

LEMMA PrefixStore ==
    ASSUME NEW usage, NEW value, InStep(usage, value), Prefix(usage, recent),
           recent \in Seq(Keys), Distinct(recent),
           NEW k \in Keys, NEW v \in Values, Store(usage, value, k, v), Use(k)
    PROVE  Prefix(m_keyUsage, recent)'
<1>1. CASE Holds(usage, k)
  <2>1. m_keyUsage' = MoveToFront(usage, k)
        BY <1>1 DEF InStep, Store
  <2>2. Holds(recent, k) /\ Prefix(MoveToFront(usage, k), MoveToFront(recent, k))
        BY <1>1, PrefixMove DEF InStep
  <2> QED BY <2>1, <2>2, UseIs
<1>2. CASE ~Holds(usage, k)
  <2>1. m_keyUsage' = <<k>> \o usage
        BY <1>2 DEF InStep, Store
  <2> QED BY <1>2, <2>1, PrefixAdd DEF InStep
<1> QED BY <1>1, <1>2

LEMMA PluginInvHit ==
    ASSUME PluginInv, NEW k \in Keys, Get(k), Cached(k), Use(k)
    PROVE  PluginInv' /\ Holds(recent, k)
<1> USE DEF PluginInv
<1>1. CacheInv'
      BY CacheInvGet
<1>2. m_keyUsage' = MoveToFront(m_keyUsage, k) /\ Holds(m_keyUsage, k)
      BY DEF Get, CacheInv, InStep, Cached
<1>3. Holds(recent, k) /\ Prefix(MoveToFront(m_keyUsage, k), MoveToFront(recent, k))
      BY <1>2, PrefixMove DEF RecentInv, CacheInv, InStep
<1>4. recent' \in Seq(Keys) /\ Distinct(recent') /\ recent' = MoveToFront(recent, k)
      BY <1>3, UseIs DEF RecentInv
<1> QED BY <1>1, <1>2, <1>3, <1>4 DEF RecentInv

LEMMA PluginInvUpdate ==
    ASSUME PluginInv, NEW k \in Keys, NEW v \in Values, Update(k, v), Use(k)
    PROVE  PluginInv'
<1> USE DEF PluginInv
<1>1. CacheInv'
      BY CacheInvUpdate
<1>2. recent' \in Seq(Keys) /\ Distinct(recent')
      BY UseIs DEF RecentInv
<1>3. Prefix(m_keyUsage', recent')
  <2>1. CASE m_capacity = 0
    <3>1. Len(m_keyUsage') = 0
          BY <1>1, <2>1 DEF CacheInv, InStep
    <3> QED BY <1>2, <3>1 DEF Prefix
  <2>2. CASE /\ Len(m_keyUsage) = m_capacity /\ m_capacity # 0
             /\ InStep(UsageEvicted, ValueEvicted)
             /\ Len(UsageEvicted) = m_capacity - 1
             /\ Store(UsageEvicted, ValueEvicted, k, v)
    <3>1. Len(m_keyUsage) > 0
          BY <2>2, CapacityAssumption
    <3>2. \A i \in 1 .. Len(m_keyUsage) - 1 : UsageEvicted[i] = m_keyUsage[i]
          BY <3>1, DropLast DEF UsageEvicted, CacheInv, InStep
    <3>3. Prefix(UsageEvicted, recent)
          BY <2>2, <3>2, CapacityAssumption DEF RecentInv, Prefix
    <3> QED BY <2>2, <3>3, PrefixStore DEF RecentInv
  <2>3. CASE Store(m_keyUsage, m_keyValue, k, v)
        BY <2>3, PrefixStore DEF RecentInv, CacheInv
  <2> QED BY <2>1, <2>2, <2>3, UpdateIsStore
<1> QED BY <1>1, <1>2, <1>3 DEF RecentInv

(* Every step is a hit, a store, a clear, or leaves cache and history.     *)
LEMMA NextIs ==
    ASSUME [Next]_vars
    PROVE  \/ \E k \in Keys : CheckHit(k)
           \/ \E k \in Keys, data \in Answers : UpdateForLife(k, data)
           \/ invalidate
           \/ UNCHANGED <<cacheVars, historyVars>>
<1>1. ASSUME NEW k \in Keys, CheckMiss(k) PROVE UNCHANGED <<cacheVars, historyVars>>
      BY <1>1 DEF CheckMiss, Get, cacheVars
<1>2. ASSUME NEW k \in Keys, NEW data \in Answers, UpdatePassesOn(k, data) \/ UpdateFails(k, data)
      PROVE  UNCHANGED <<cacheVars, historyVars>>
      BY <1>2 DEF UpdatePassesOn, UpdateFails
<1>3. ASSUME NEW k \in Keys, EndsWithoutUpdate(k) PROVE UNCHANGED <<cacheVars, historyVars>>
      BY <1>3 DEF EndsWithoutUpdate
<1> QED BY <1>1, <1>2, <1>3 DEF Next, vars

LEMMA LifeValues ==
    ASSUME NEW data, dataToAnswer(data) \in InterpretedInService
    PROVE  dataToAnswer(data) \in Values
BY LifeAssumption DEF InterpretedInService

LEMMA PluginInvInit == Init => PluginInv
<1>1. <<>> \in Seq(Keys) /\ Len(<<>>) = 0 /\ DOMAIN <<>> = {}
      OBVIOUS
<1>2. Init => RecentInv
      BY <1>1 DEF Init, CacheInit, RecentInv, Distinct, Prefix
<1> QED BY <1>2, CacheInvInit DEF Init, PluginInv

LEMMA PluginInvNext == PluginInv /\ [Next]_vars => PluginInv'
<1> SUFFICES ASSUME PluginInv, [Next]_vars PROVE PluginInv'
    OBVIOUS
<1>1. ASSUME NEW k \in Keys, CheckHit(k) PROVE PluginInv'
      BY <1>1, PluginInvHit DEF CheckHit
<1>2. ASSUME NEW k \in Keys, NEW data \in Answers, UpdateForLife(k, data) PROVE PluginInv'
      BY <1>2, PluginInvUpdate, LifeValues DEF UpdateForLife
<1>3. CASE invalidate
  <2>1. <<>> \in Seq(Keys) /\ Len(<<>>) = 0 /\ DOMAIN <<>> = {}
        OBVIOUS
  <2>2. RecentInv'
        BY <1>3, <2>1 DEF invalidate, clear, RecentInv, Distinct, Prefix
  <2> QED BY <1>3, <2>2, CacheInvClear DEF invalidate, PluginInv
<1>4. CASE UNCHANGED <<cacheVars, historyVars>>
      BY <1>4 DEF PluginInv, CacheInv, RecentInv, cacheVars, historyVars
<1> QED BY <1>1, <1>2, <1>3, <1>4, NextIs

LEMMA PluginInvAlways == Spec => []PluginInv
BY PluginInvInit, PluginInvNext, PTL DEF Spec

(* The list and the map of the cache stay in step at every capacity: the   *)
(* iterators in the map are valid, and evict finds what it erases.         *)
THEOREM CacheStaysInStep == Spec => []UsageMatchesValues
<1>1. PluginInv => UsageMatchesValues
      BY CacheInvMeans DEF PluginInv
<1> QED BY <1>1, PluginInvAlways, PTL

(* Whatever the sequence of calls, what is cached is what was used last,   *)
(* in the order of use.                                                    *)
THEOREM EvictsInOrderOfUse == Spec => []EvictsLeastRecentlyUsed
<1>1. ASSUME PluginInv PROVE EvictsLeastRecentlyUsed
  <2> DEFINE n == Len(m_keyUsage)
             front == SubSeq(recent, 1, n)
  <2>1. /\ m_keyUsage \in Seq(Keys) /\ recent \in Seq(Keys) /\ n \in Nat
        /\ n <= Len(recent)
        /\ \A i \in 1 .. n : m_keyUsage[i] = recent[i]
        BY <1>1 DEF PluginInv, CacheInv, InStep, RecentInv, Prefix
  <2>2. \A i \in 1 .. n : recent[i] \in Keys
        BY <2>1
  <2> HIDE DEF n
  <2>3. front \in Seq(Keys) /\ Len(front) = n /\ \A i \in 1 .. n : front[i] = recent[i]
    <3>1. /\ front \in Seq(Keys)
          /\ Len(front) = IF 1 <= n THEN n - 1 + 1 ELSE 0
          /\ \A i \in 1 .. n - 1 + 1 : front[i] = recent[1 + i - 1]
          BY <2>1, <2>2, SubSeqProperties
    <3> QED BY <2>1, <3>1
  <2> HIDE DEF front
  <2>4. m_keyUsage = front
        BY <2>1, <2>3 DEF n
  <2> QED BY <2>1, <2>4 DEF EvictsLeastRecentlyUsed, n, front
<1> QED BY <1>1, PluginInvAlways, PTL
-----------------------------------------------------------------------------
(* What the cache holds, and what a call returns.                          *)
DecisionInv ==
    /\ PluginInv
    /\ asking \in [Keys -> 0 .. MaxAsking]
    /\ result \in [call : Calls, key : Keys \cup {NoKey}, status : PluginStatus,
                   policy : PolicyType]
    /\ lastLife \in [Keys -> Values \cup {NoValue}]
    /\ CacheIsCurrent
    /\ ReadyAnswerIsLastDecision
    /\ LifeStaysInService

LEMMA PredefinedType ==
    ASSUME NEW v
    PROVE  Predefined(v) \in PolicyType \ {ALLOW_PER_LIFE, DENY_PER_LIFE}
BY DEF Predefined, PolicyType, ALLOW, DENY, ALLOW_PER_LIFE, DENY_PER_LIFE

LEMMA DenyType == DENY \in PolicyType \ {ALLOW_PER_LIFE, DENY_PER_LIFE}
BY DEF PolicyType, DENY, ALLOW_PER_LIFE, DENY_PER_LIFE

LEMMA CutTo16Bits == ASSUME NEW n \in Int PROVE n % (maxPolicyType + 1) \in PolicyType
BY DEF maxPolicyType, PolicyType

LEMMA AnswerType ==
    ASSUME NEW data \in Answers
    PROVE  dataToAnswer(data) \in PolicyType \cup {Exception}
<1>1. data.number \in Int
      BY AnswersAssumption DEF AgentData
<1>2. data.number % (maxPolicyType + 1) \in PolicyType
      BY <1>1, CutTo16Bits, Zenon
<1>3. DENY \in PolicyType
      BY DenyType
<1> QED BY <1>2, <1>3, Zenon DEF dataToAnswer

LEMMA AnsweredType ==
    ASSUME asking \in [Keys -> 0 .. MaxAsking], NEW k \in Keys, Answered(k)
    PROVE  asking' \in [Keys -> 0 .. MaxAsking]
BY MaxAskingAssumption DEF Answered

LEMMA DecisionInvInit == Init => DecisionInv
<1> SUFFICES ASSUME Init PROVE DecisionInv
    OBVIOUS
<1>1. PluginInv
      BY PluginInvInit
<1>2. result \in [call : Calls, key : Keys \cup {NoKey}, status : PluginStatus, policy : PolicyType]
      BY DEF Init, Calls, PluginStatus, PolicyType, DENY
<1>3. ReadyAnswerIsLastDecision /\ LifeStaysInService
      BY DEF Init, ReadyAnswerIsLastDecision, LifeStaysInService, DENY, ALLOW_PER_LIFE, DENY_PER_LIFE
<1>4. CacheIsCurrent
      BY DEF Init, CacheInit, CacheIsCurrent, Cached
<1> QED BY <1>1, <1>2, <1>3, <1>4, MaxAskingAssumption DEF Init, DecisionInv

(* Nothing is cached but what was cached, and the new decision.            *)
LEMMA UpdateValues ==
    ASSUME PluginInv, NEW k \in Keys, NEW v \in Values, Update(k, v)
    PROVE  \A x \in Keys : m_keyValue'[x] # NoValue =>
               IF x = k THEN m_keyValue'[x] = v ELSE m_keyValue'[x] = m_keyValue[x]
<1> USE DEF PluginInv, CacheInv, InStep
<1>1. CASE m_capacity = 0
  <2>1. Len(m_keyUsage) = 0
        BY <1>1
  <2>2. \A x \in Keys : m_keyValue[x] = NoValue
        BY <2>1 DEF Holds
  <2> QED BY <1>1, <2>2 DEF Update, cacheVars
<1>2. CASE Store(UsageEvicted, ValueEvicted, k, v)
      BY <1>2 DEF Store, ValueEvicted
<1>3. CASE Store(m_keyUsage, m_keyValue, k, v)
      BY <1>3 DEF Store
<1> QED BY <1>1, <1>2, <1>3, UpdateIsStore

LEMMA DecisionInvNext == DecisionInv /\ [Next]_vars => DecisionInv'
<1> SUFFICES ASSUME DecisionInv, [Next]_vars PROVE DecisionInv'
    OBVIOUS
<1> USE DEF DecisionInv
<1>1. PluginInv'
      BY PluginInvNext
<1>2. ASSUME NEW k \in Keys, CheckHit(k) PROVE DecisionInv'
  <2>1. /\ m_keyValue[k] \in Values /\ m_keyValue[k] = lastLife[k]
        /\ UNCHANGED <<m_keyValue, lastLife, asking>>
        BY <1>2 DEF CheckHit, Get, Cached, CacheIsCurrent, PluginInv, CacheInv, InStep
  <2>2. /\ result' = [call |-> "check", key |-> k, status |-> "ANSWER_READY",
                      policy |-> Predefined(lastLife[k])]
        /\ Predefined(lastLife[k]) \in PolicyType \ {ALLOW_PER_LIFE, DENY_PER_LIFE}
        BY <1>2, <2>1, PredefinedType DEF CheckHit, Returned
  <2>3. ReadyAnswerIsLastDecision'
        BY <2>1, <2>2, NoValueAssumption DEF ReadyAnswerIsLastDecision, Predefined
  <2>4. LifeStaysInService' /\ CacheIsCurrent'
        BY <2>1, <2>2 DEF LifeStaysInService, CacheIsCurrent, Cached
  <2> QED BY <1>1, <2>1, <2>2, <2>3, <2>4 DEF Calls, PluginStatus
<1>3. ASSUME NEW k \in Keys, CheckMiss(k) PROVE DecisionInv'
  <2>1. /\ UNCHANGED <<m_keyValue, lastLife>>
        /\ asking' \in [Keys -> 0 .. MaxAsking]
        /\ result' = [call |-> "check", key |-> k, status |-> "ANSWER_NOTREADY", policy |-> DENY]
        BY <1>3, MaxAskingAssumption DEF CheckMiss, Get, Returned, historyVars
  <2>2. CacheIsCurrent'
        BY <2>1 DEF CacheIsCurrent, Cached
  <2>3. ReadyAnswerIsLastDecision' /\ LifeStaysInService'
        BY <2>1, DenyType DEF ReadyAnswerIsLastDecision, LifeStaysInService
  <2> QED BY <1>1, <2>1, <2>2, <2>3, DenyType DEF Calls, PluginStatus
<1>4. ASSUME NEW k \in Keys, NEW data \in Answers, UpdateForLife(k, data) PROVE DecisionInv'
  <2> DEFINE v == dataToAnswer(data)
  <2>1. /\ v \in Values /\ Update(k, v) /\ lastLife' = [lastLife EXCEPT ![k] = v]
        /\ result' = [call |-> "update", key |-> k, status |-> "SUCCESS", policy |-> Predefined(v)]
        BY <1>4, LifeValues DEF UpdateForLife, Returned
  <2>2. Predefined(v) \in PolicyType \ {ALLOW_PER_LIFE, DENY_PER_LIFE}
        BY PredefinedType
  <2>3. asking' \in [Keys -> 0 .. MaxAsking]
        BY <1>4, AnsweredType DEF UpdateForLife
  <2> HIDE DEF v
  <2>4. CacheIsCurrent'
        BY <2>1, UpdateValues DEF CacheIsCurrent, Cached
  <2>5. ReadyAnswerIsLastDecision' /\ LifeStaysInService'
        BY <2>1, <2>2 DEF ReadyAnswerIsLastDecision, LifeStaysInService
  <2> QED BY <1>1, <2>1, <2>2, <2>3, <2>4, <2>5 DEF Calls, PluginStatus
<1>5. ASSUME NEW k \in Keys, NEW data \in Answers, UpdatePassesOn(k, data) PROVE DecisionInv'
  <2> DEFINE v == dataToAnswer(data)
  <2>1. /\ v \in PolicyType \ {ALLOW_PER_LIFE, DENY_PER_LIFE}
        /\ UNCHANGED <<m_keyValue, lastLife>>
        /\ result' = [call |-> "update", key |-> k, status |-> "SUCCESS", policy |-> v]
        BY <1>5, AnswerType DEF UpdatePassesOn, Returned, InterpretedInService, cacheVars, historyVars
  <2>2. asking' \in [Keys -> 0 .. MaxAsking]
        BY <1>5, AnsweredType DEF UpdatePassesOn
  <2> HIDE DEF v
  <2>3. CacheIsCurrent'
        BY <2>1 DEF CacheIsCurrent, Cached
  <2>4. ReadyAnswerIsLastDecision' /\ LifeStaysInService'
        BY <2>1 DEF ReadyAnswerIsLastDecision, LifeStaysInService
  <2> QED BY <1>1, <2>1, <2>2, <2>3, <2>4 DEF Calls, PluginStatus
<1>6. ASSUME NEW k \in Keys, NEW data \in Answers, UpdateFails(k, data) PROVE DecisionInv'
  <2>1. /\ UNCHANGED <<m_keyValue, lastLife>>
        /\ result' = [call |-> "update", key |-> k, status |-> "ERROR", policy |-> DENY]
        BY <1>6 DEF UpdateFails, Returned, cacheVars, historyVars
  <2>2. asking' \in [Keys -> 0 .. MaxAsking]
        BY <1>6, AnsweredType DEF UpdateFails
  <2>3. CacheIsCurrent'
        BY <2>1 DEF CacheIsCurrent, Cached
  <2>4. ReadyAnswerIsLastDecision' /\ LifeStaysInService'
        BY <2>1 DEF ReadyAnswerIsLastDecision, LifeStaysInService
  <2> QED BY <1>1, <2>1, <2>2, <2>3, <2>4, DenyType DEF Calls, PluginStatus
<1>7. CASE invalidate
  <2>1. /\ m_keyValue' = [k \in Keys |-> NoValue] /\ lastLife' = [k \in Keys |-> NoValue]
        /\ asking' = asking
        /\ result' = [call |-> "invalidate", key |-> NoKey, status |-> "SUCCESS", policy |-> DENY]
        BY <1>7 DEF invalidate, clear, Returned
  <2>2. CacheIsCurrent'
        BY <2>1 DEF CacheIsCurrent, Cached
  <2>3. ReadyAnswerIsLastDecision' /\ LifeStaysInService'
        BY <2>1, DenyType DEF ReadyAnswerIsLastDecision, LifeStaysInService
  <2> QED BY <1>1, <2>1, <2>2, <2>3, DenyType DEF Calls, PluginStatus
<1>8. ASSUME NEW k \in Keys, EndsWithoutUpdate(k) PROVE DecisionInv'
  <2>1. UNCHANGED <<m_keyValue, lastLife, result>>
        BY <1>8 DEF EndsWithoutUpdate, cacheVars, historyVars
  <2>2. asking' \in [Keys -> 0 .. MaxAsking]
        BY <1>8, AnsweredType DEF EndsWithoutUpdate
  <2>3. CacheIsCurrent' /\ ReadyAnswerIsLastDecision' /\ LifeStaysInService'
        BY <2>1 DEF CacheIsCurrent, Cached, ReadyAnswerIsLastDecision, LifeStaysInService
  <2> QED BY <1>1, <2>1, <2>2, <2>3
<1>9. CASE UNCHANGED vars
      BY <1>1, <1>9 DEF vars, cacheVars, historyVars, CacheIsCurrent, Cached,
         ReadyAnswerIsLastDecision, LifeStaysInService
<1> QED BY <1>2, <1>3, <1>4, <1>5, <1>6, <1>7, <1>8, <1>9 DEF Next

LEMMA DecisionInvAlways == Spec => []DecisionInv
BY DecisionInvInit, DecisionInvNext, PTL DEF Spec

(* Every variable keeps its type: a policy that leaves the plugin fits the *)
(* 16-bit policy type, whatever number the agent sent.                     *)
THEOREM PluginTypeCorrect == Spec => []TypeOK
<1>1. DecisionInv => TypeOK
      BY CacheInvMeans DEF DecisionInv, PluginInv, RecentInv, TypeOK
<1> QED BY <1>1, DecisionInvAlways, PTL

(* The cache holds no decision that was replaced or invalidated, however   *)
(* checks of a key and the answers to them interleave.                     *)
THEOREM CacheHoldsLastDecision == Spec => []CacheIsCurrent
<1>1. DecisionInv => CacheIsCurrent
      BY DEF DecisionInv
<1> QED BY <1>1, DecisionInvAlways, PTL

(* A check answered without the agent gets the last decision for life      *)
(* about its key.                                                          *)
THEOREM AnswersWithLastDecision == Spec => []ReadyAnswerIsLastDecision
<1>1. DecisionInv => ReadyAnswerIsLastDecision
      BY DEF DecisionInv
<1> QED BY <1>1, DecisionInvAlways, PTL

(* No policy for life leaves the plugin.                                   *)
THEOREM KeepsLifeInService == Spec => []LifeStaysInService
<1>1. DecisionInv => LifeStaysInService
      BY DEF DecisionInv
<1> QED BY <1>1, DecisionInvAlways, PTL
-----------------------------------------------------------------------------
(* The eviction of too much that the plugin_lru run shows comes from two   *)
(* checks of one key asked at the same time, and from nothing else.        *)
AskedIsNotCached == \A k \in Keys : asking[k] > 0 => ~Cached(k)

LruInv == DecisionInv /\ AskedIsNotCached /\ IsLruCache

(* An update of a key that is not cached: only that key is added, and an   *)
(* entry is lost only at full capacity.                                    *)
LEMMA UpdateAdds ==
    ASSUME PluginInv, IsLruCache, NEW k \in Keys, NEW v \in Values, ~Cached(k), Update(k, v), Use(k)
    PROVE  IsLruCache' /\ \A x \in Keys : Cached(x)' => Cached(x) \/ x = k
<1> DEFINE n == Len(m_keyUsage)
           m == Len(recent)
<1>1. /\ n \in Nat /\ m \in Nat /\ n <= m
      /\ n = IF m < m_capacity THEN m ELSE m_capacity
      /\ ~Holds(m_keyUsage, k)
      BY DEF PluginInv, CacheInv, InStep, RecentInv, Prefix, IsLruCache, Cached
<1>2. Len(recent') = IF Holds(recent, k) THEN m ELSE m + 1
      BY UseIs DEF PluginInv, RecentInv
<1>3. \A x \in Keys : Cached(x)' => Cached(x) \/ x = k
      BY UpdateValues DEF Cached
<1>4. IsLruCache'
  <2>1. CASE m_capacity = 0
    <3>1. Len(m_keyUsage') = n
          BY <2>1 DEF Update, cacheVars
    <3> QED BY <1>1, <1>2, <2>1, <3>1 DEF IsLruCache
  <2>2. CASE /\ n = m_capacity /\ m_capacity # 0
             /\ InStep(UsageEvicted, ValueEvicted)
             /\ Len(UsageEvicted) = m_capacity - 1
             /\ Store(UsageEvicted, ValueEvicted, k, v)
    <3>1. ~Holds(UsageEvicted, k)
          BY <1>1, <2>2, CapacityAssumption, DropLast DEF UsageEvicted, PluginInv, CacheInv, InStep
    <3>2. Len(m_keyUsage') = m_capacity
          BY <2>2, <3>1, StoreKeeps, CapacityAssumption
    <3> QED BY <1>1, <1>2, <2>2, <3>2, CapacityAssumption DEF IsLruCache
  <2>3. CASE n < m_capacity /\ Store(m_keyUsage, m_keyValue, k, v)
    <3>1. n = m
          BY <1>1, <2>3, CapacityAssumption
    <3>2. ~Holds(recent, k)
          BY <1>1, <3>1 DEF Holds, PluginInv, CacheInv, InStep, RecentInv, Prefix
    <3>3. Len(m_keyUsage') = n + 1
          BY <1>1, <2>3, StoreKeeps DEF PluginInv, CacheInv
    <3> QED BY <1>1, <1>2, <2>3, <3>1, <3>2, <3>3, CapacityAssumption DEF IsLruCache
  <2> QED BY <2>1, <2>2, <2>3, UpdateIsStore DEF PluginInv
<1> QED BY <1>3, <1>4

LEMMA LruInvNext == ASSUME MaxAsking <= 1 PROVE LruInv /\ [Next]_vars => LruInv'
<1> SUFFICES ASSUME LruInv, [Next]_vars PROVE LruInv'
    OBVIOUS
<1> USE DEF LruInv
<1>1. DecisionInv'
      BY DecisionInvNext
<1>2. \A k \in Keys : asking[k] \in {0, 1}
      BY MaxAskingAssumption DEF DecisionInv
<1>3. ASSUME NEW k \in Keys, CheckHit(k) PROVE LruInv'
  <2>1. PluginInv' /\ Holds(recent, k) /\ Holds(m_keyUsage, k)
        BY <1>3, PluginInvHit DEF CheckHit, DecisionInv, PluginInv, CacheInv, InStep, Cached
  <2>2. Len(recent') = Len(recent)
        BY <1>3, <2>1, UseIs DEF CheckHit, DecisionInv, PluginInv, RecentInv
  <2>3. Len(m_keyUsage') = Len(m_keyUsage)
        BY <1>3, <2>1, MoveToFrontIs
        DEF CheckHit, Get, DecisionInv, PluginInv, CacheInv, InStep, Holds
  <2>4. UNCHANGED <<m_keyValue, asking>>
        BY <1>3 DEF CheckHit, Get
  <2> QED BY <1>1, <2>2, <2>3, <2>4 DEF IsLruCache, AskedIsNotCached, Cached
<1>4. ASSUME NEW k \in Keys, CheckMiss(k) PROVE LruInv'
  <2>1. /\ ~Cached(k) /\ UNCHANGED <<m_keyUsage, m_keyValue, recent>>
        /\ \A x \in Keys : x # k => asking'[x] = asking[x]
        BY <1>4 DEF CheckMiss, Get, historyVars, DecisionInv
  <2> QED BY <1>1, <2>1 DEF IsLruCache, AskedIsNotCached, Cached
<1>5. ASSUME NEW k \in Keys, NEW data \in Answers, UpdateForLife(k, data) PROVE LruInv'
  <2>1. /\ asking[k] > 0 /\ asking'[k] = 0
        /\ \A x \in Keys : x # k => asking'[x] = asking[x]
        BY <1>2, <1>5 DEF UpdateForLife, Answered, DecisionInv
  <2>2. IsLruCache' /\ \A x \in Keys : Cached(x)' => Cached(x) \/ x = k
        BY <1>5, <2>1, UpdateAdds, LifeValues DEF UpdateForLife, AskedIsNotCached, DecisionInv
  <2> QED BY <1>1, <2>1, <2>2 DEF AskedIsNotCached
<1>6. ASSUME NEW k \in Keys,
             \/ \E data \in Answers : UpdatePassesOn(k, data) \/ UpdateFails(k, data)
             \/ EndsWithoutUpdate(k)
      PROVE  LruInv'
  <2>1. /\ UNCHANGED <<m_keyUsage, m_keyValue, recent>>
        /\ \A x \in Keys : asking'[x] > 0 => asking[x] > 0
        BY <1>2, <1>6 DEF UpdatePassesOn, UpdateFails, EndsWithoutUpdate, Answered,
                          cacheVars, historyVars, DecisionInv
  <2> QED BY <1>1, <2>1 DEF IsLruCache, AskedIsNotCached, Cached
<1>7. CASE invalidate
  <2>1. Len(m_keyUsage') = 0 /\ Len(recent') = 0 /\ \A k \in Keys : ~Cached(k)'
        BY <1>7 DEF invalidate, clear, Cached
  <2> QED BY <1>1, <2>1, CapacityAssumption DEF IsLruCache, AskedIsNotCached
<1>8. CASE UNCHANGED vars
      BY <1>1, <1>8 DEF vars, cacheVars, historyVars, IsLruCache, AskedIsNotCached, Cached
<1> QED BY <1>3, <1>4, <1>5, <1>6, <1>7, <1>8 DEF Next

(* If cynara never asks about a key twice at the same time, the cache is a *)
(* true LRU cache: nothing is forgotten before the capacity is used up.    *)
THEOREM LruWhenAskedOnce == ASSUME MaxAsking <= 1 PROVE Spec => []IsLruCache
<1>1. Init => LruInv
  <2>1. Init => AskedIsNotCached
        BY DEF Init, AskedIsNotCached
  <2>2. Init => IsLruCache
    <3>1. Len(<<>>) = 0
          OBVIOUS
    <3> QED BY <3>1, CapacityAssumption DEF Init, CacheInit, IsLruCache
  <2> QED BY <2>1, <2>2, DecisionInvInit DEF LruInv
<1>2. LruInv /\ [Next]_vars => LruInv'
      BY LruInvNext
<1>3. LruInv => IsLruCache
      BY DEF LruInv
<1> QED BY <1>1, <1>2, <1>3, PTL DEF Spec
=============================================================================
