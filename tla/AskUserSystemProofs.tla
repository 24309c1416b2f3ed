------------------------ MODULE AskUserSystemProofs -------------------------
(***************************************************************************)
(* Theorems about AskUserSystem, for every set of calls, processes,        *)
(* sessions and keys, every capacity of the cache, and whatever the user   *)
(* does with the dialogs: access is allowed, denied or refused to be       *)
(* decided only for the reasons the properties name.                       *)
(***************************************************************************)
EXTENDS AskUserSystem, TLAPS
-----------------------------------------------------------------------------
(* Types, as far as the proofs need them.                                  *)
LifePolicies == {ALLOW_PER_LIFE, DENY_PER_LIFE}

Status == {"unsent", "pending", "cancelling", "replied", "lost"}

Reply == [type : {"none", "RT_Action", "RT_Cancel"}, data : PluginData]

TypeInv ==
    /\ check \in [Asks -> Check \cup {NoCheck}]
    /\ access \in [Asks -> Access]
    /\ clientCache \in [Procs -> [Keys -> Entry \cup {NoEntry}]]
    /\ waiting \in SUBSET Asks
    /\ m_keyValue \in [Keys -> LifePolicies \cup {NoValue}]
    /\ status \in [Asks -> Status]
    /\ reply \in [Asks -> Reply]
    /\ DOMAIN verdict = Asks

(* The instances define words of their own.                                *)
LEMMA SameWords ==
    /\ Plugin!ALLOW_PER_LIFE = ALLOW_PER_LIFE
    /\ Plugin!DENY_PER_LIFE = DENY_PER_LIFE
    /\ Plugin!ALLOW = ALLOW
    /\ Plugin!DENY = DENY
    /\ Plugin!Exception = Exception
    /\ \A d : Plugin!dataToAnswer(d) = dataToAnswer(d)
    /\ Agent!NoData = NoData
    /\ Agent!NoOutcome = NoOutcome
    /\ Agent!NoReply = [type |-> "none", data |-> NoData]
    /\ \A o : Agent!Promised(o) = Promised(o)
<1>1. /\ Plugin!ALLOW_PER_LIFE = ALLOW_PER_LIFE
      /\ Plugin!DENY_PER_LIFE = DENY_PER_LIFE
      /\ Plugin!ALLOW = ALLOW
      /\ Plugin!DENY = DENY
      /\ Plugin!Exception = Exception
      /\ Plugin!maxPolicyType = maxPolicyType
      /\ Plugin!NoError = NoError
      BY DEF Plugin!ALLOW_PER_LIFE, Plugin!DENY_PER_LIFE, Plugin!ALLOW, Plugin!DENY,
         Plugin!Exception, Plugin!maxPolicyType, Plugin!NoError,
         ALLOW_PER_LIFE, DENY_PER_LIFE, ALLOW, DENY, Exception, maxPolicyType, NoError
<1>2. ASSUME NEW d PROVE Plugin!dataToAnswer(d) = dataToAnswer(d)
      BY <1>1 DEF Plugin!dataToAnswer, dataToAnswer
<1>3. /\ Agent!NoData = NoData
      /\ Agent!NoOutcome = NoOutcome
      /\ Agent!NoReply = [type |-> "none", data |-> NoData]
      BY DEF Agent!NoData, NoData, Agent!NoOutcome, NoOutcome, Agent!NoReply
<1>4. Agent!PolicyOfLabel = PolicyOfLabel /\ Agent!ButtonLabels = ButtonLabels
      BY DEF Agent!PolicyOfLabel, PolicyOfLabel, Agent!ButtonLabels, ButtonLabels,
         Agent!ALLOW_ONCE, Agent!ALLOW_PER_SESSION, Agent!ALLOW_PER_LIFE,
         Agent!DENY_ONCE, Agent!DENY_PER_SESSION, Agent!DENY_PER_LIFE,
         ALLOW_ONCE, ALLOW_PER_SESSION, ALLOW_PER_LIFE, DENY_ONCE, DENY_PER_SESSION, DENY_PER_LIFE
<1>5. ASSUME NEW o PROVE Agent!Promised(o) = Promised(o)
      BY <1>4 DEF Agent!Promised, Promised
<1> QED BY <1>1, <1>2, <1>3, <1>5

(* The policies of the client, of the service and of cynara are different. *)
LEMMA PoliciesDiffer ==
    /\ \A v \in clientDescriptions \cup LifePolicies : v \in PolicyType /\ v # DENY /\ v # ALLOW
    /\ clientDescriptions \cap LifePolicies = {}
    /\ ALLOW # DENY
    /\ Exception \notin PolicyType
<1> USE DEF ALLOW_ONCE, ALLOW_PER_SESSION, ALLOW_PER_LIFE, DENY_ONCE, DENY_PER_SESSION,
DENY_PER_LIFE
<1>1. ASSUME NEW v \in clientDescriptions \cup LifePolicies
      PROVE  v \in PolicyType /\ v # DENY /\ v # ALLOW
  <2>1. v \in {11, 12, 13, 14, 15, 16}
        BY <1>1, SMT DEF clientDescriptions, LifePolicies
  <2> QED BY <2>1, SMT DEF PolicyType, DENY, ALLOW
<1>2. clientDescriptions \cap LifePolicies = {}
      BY SMT DEF clientDescriptions, LifePolicies
<1>3. ALLOW # DENY /\ Exception \notin PolicyType
      BY SMT DEF ALLOW, DENY, Exception, PolicyType
<1> QED BY <1>1, <1>2, <1>3

LEMMA LabelIs ==
    ASSUME NEW b, b \in DOMAIN ButtonLabels
    PROVE  b # 0 /\ PolicyOfLabel[ButtonLabels[b]] \in clientDescriptions \cup LifePolicies
<1>1. DOMAIN ButtonLabels = 1 .. 6
      BY DEF ButtonLabels
<1>2. b \in {1, 2, 3, 4, 5, 6}
      BY <1>1, SMT
<1>3. ButtonLabels[b] \in {"NO_ONCE", "NO_SESSION", "NO_LIFE", "YES_ONCE", "YES_SESSION", "YES_LIFE"}
      BY <1>2, SMT DEF ButtonLabels
<1> QED BY <1>2, <1>3, SMT DEF PolicyOfLabel, clientDescriptions, LifePolicies

(* What the user's answer may be: a policy on a button, or no choice.      *)
LEMMA PromisedIs ==
    ASSUME NEW o
    PROVE  /\ Promised(o) \in PluginData
           /\ \/ /\ Promised(o).form = NoError
                 /\ Promised(o).policy \in clientDescriptions \cup LifePolicies
              \/ /\ Promised(o).form \in {"ERROR", "TIMEOUT"}
                 /\ Promised(o).policy = 0
<1>1. 0 \in PolicyType
      BY SMT DEF PolicyType
<1>2. CASE o.ret = "NONE" /\ o.button \in DOMAIN ButtonLabels
  <2> DEFINE v == PolicyOfLabel[ButtonLabels[o.button]]
  <2>1. Promised(o) = [form |-> "number", policy |-> v]
        BY <1>2, LabelIs, SMT DEF Promised
  <2>2. v \in clientDescriptions \cup LifePolicies
        BY <1>2, LabelIs
  <2>3. v \in ClientPolicies
        BY <2>2 DEF clientDescriptions, LifePolicies, ClientPolicies
  <2> HIDE DEF v
  <2> QED BY <2>1, <2>2, <2>3, SMT DEF PluginData, NoError
<1>3. ASSUME Promised(o) \in [form : {"ERROR", "TIMEOUT"}, policy : {0}]
      PROVE  /\ Promised(o) \in PluginData
             /\ Promised(o).form \in {"ERROR", "TIMEOUT"}
             /\ Promised(o).policy = 0
      BY <1>1, <1>3, SMT DEF PluginData
<1>4. CASE ~(o.ret = "NONE" /\ o.button \in DOMAIN ButtonLabels)
  <2>1. \/ Promised(o) = [form |-> "TIMEOUT", policy |-> 0]
        \/ Promised(o) = [form |-> "ERROR", policy |-> 0]
        BY <1>4, Zenon DEF Promised
  <2> QED BY <1>3, <2>1, SMT
<1> QED BY <1>2, <1>3, <1>4

(* What the service plugin makes of it.                                    *)
LEMMA DataToAnswerIs ==
    ASSUME NEW d \in PluginData
    PROVE  /\ d.form \in {"ERROR", "TIMEOUT"} => dataToAnswer(FromAgent(d)) = DENY
           /\ d.form = NoError => dataToAnswer(FromAgent(d)) = d.policy
<1>1. ASSUME NEW v \in PolicyType
      PROVE  v <= maxPolicyType /\ v % (maxPolicyType + 1) = v
  <2>1. v \in Int /\ 0 <= v /\ v <= 65535
        BY SMT DEF PolicyType
  <2>2. maxPolicyType = 65535 /\ maxPolicyType + 1 = 65536
        BY SMT DEF maxPolicyType
  <2>3. v % 65536 = v
        BY <2>1, SMT
  <2> QED BY <2>1, <2>2, <2>3, SMT
<1>2. d.policy \in PolicyType
  <2>1. d.policy \in ClientPolicies \cup {0}
        BY SMT DEF PluginData
  <2>2. d.policy \in {0, 11, 12, 13, 14, 15, 16}
        BY <2>1, SMT DEF ClientPolicies, ALLOW_ONCE, ALLOW_PER_SESSION, ALLOW_PER_LIFE,
                         DENY_ONCE, DENY_PER_SESSION, DENY_PER_LIFE
  <2>3. ASSUME NEW v \in {0, 11, 12, 13, 14, 15, 16} PROVE v \in PolicyType
        BY <2>3, SMT DEF PolicyType
  <2> QED BY <2>2, <2>3
<1>3. FromAgent(d).form = d.form /\ FromAgent(d).number = d.policy
      BY DEF FromAgent
<1>4. CASE d.form \in {"ERROR", "TIMEOUT"}
      BY <1>3, <1>4, SMT DEF dataToAnswer, NoError
<1>5. CASE d.form = NoError
  <2>1. dataToAnswer(FromAgent(d)) = d.policy % (maxPolicyType + 1)
        BY <1>1, <1>2, <1>3, <1>5, SMT DEF dataToAnswer, NoError
  <2> QED BY <1>1, <1>2, <1>5, <2>1, SMT DEF NoError
<1> QED BY <1>4, <1>5

(* An update of the cache stores one decision and evicts at most another.  *)
LEMMA UpdateIs ==
    ASSUME m_keyValue \in [Keys -> LifePolicies \cup {NoValue}],
           NEW k \in Keys, NEW v \in LifePolicies, Plugin!Update(k, v)
    PROVE  /\ m_keyValue' \in [Keys -> LifePolicies \cup {NoValue}]
           /\ \A j \in Keys : m_keyValue'[j] \in {m_keyValue[j], NoValue} \/ (j = k /\ m_keyValue'[j] = v)
<1>1. ASSUME NEW usage, NEW value \in [Keys -> LifePolicies \cup {NoValue}],
             \A j \in Keys : value[j] \in {m_keyValue[j], NoValue},
             Plugin!Store(usage, value, k, v)
      PROVE  /\ m_keyValue' \in [Keys -> LifePolicies \cup {NoValue}]
             /\ \A j \in Keys :
                    m_keyValue'[j] \in {m_keyValue[j], NoValue} \/ (j = k /\ m_keyValue'[j] = v)
      BY <1>1, SMT DEF Plugin!Store
<1>2. /\ Plugin!ValueEvicted \in [Keys -> LifePolicies \cup {NoValue}]
      /\ \A j \in Keys : Plugin!ValueEvicted[j] \in {m_keyValue[j], NoValue}
  <2>1. ASSUME NEW x
        PROVE  /\ [m_keyValue EXCEPT ![x] = NoValue] \in [Keys -> LifePolicies \cup {NoValue}]
               /\ \A j \in Keys : [m_keyValue EXCEPT ![x] = NoValue][j] \in {m_keyValue[j], NoValue}
    <3>1. [m_keyValue EXCEPT ![x] = NoValue] = [j \in Keys |-> IF j = x THEN NoValue ELSE m_keyValue[j]]
          OBVIOUS
    <3> QED BY <3>1
  <2> QED BY <2>1, Zenon DEF Plugin!ValueEvicted
<1>3. \/ UNCHANGED m_keyValue
      \/ Plugin!Store(Plugin!UsageEvicted, Plugin!ValueEvicted, k, v)
      \/ Plugin!Store(m_keyUsage, m_keyValue, k, v)
      BY DEF Plugin!Update, Plugin!cacheVars
<1>4. CASE UNCHANGED m_keyValue
      BY <1>4
<1> QED BY <1>1, <1>2, <1>3, <1>4
-----------------------------------------------------------------------------
(***************************************************************************)
(* The inductive invariant.  It says of every decision that is kept        *)
(* somewhere, in either cache or in the agent's answer, which check the    *)
(* user made it for.                                                       *)
(***************************************************************************)
Given(b, policy) == AnswerTo(b).policy = policy

LifeBacked(k, policy) ==
    \E b \in Asks : check[b] # NoCheck /\ check[b].key = k /\ Given(b, policy)

SessionBacked(c, policy) == \E b \in Asks : check[b] = c /\ Given(b, policy)

(* A dialog of the process about the key ended without a choice.           *)
Makeshift(p, k) ==
    \E b \in Asks : /\ check[b] # NoCheck /\ check[b].proc = p /\ check[b].key = k
                    /\ AnswerTo(b).form \in {"ERROR", "TIMEOUT"}

AgentLedger ==
    \A a \in Asks :
        /\ reply[a].type # "none" => status[a] = "replied"
        /\ status[a] = "replied" => reply[a].type # "none"
        /\ reply[a].type = "RT_Action" => reply[a].data = Promised(verdict[a])
        /\ status[a] = "cancelling" \/ reply[a].type = "RT_Cancel" => access[a] = "gone"
        /\ check[a] = NoCheck => status[a] = "unsent" /\ access[a] = "none" /\ a \notin waiting

LifeLedger ==
    \A k \in Keys : m_keyValue[k] # NoValue => LifeBacked(k, m_keyValue[k])

(* What the library of a process may have kept for a key.                  *)
Sound(p, k, entry) ==
    \/ entry = NoEntry
    \/ entry.policy = ALLOW /\ LifeBacked(k, ALLOW_PER_LIFE)
    \/ entry.policy = DENY /\ (LifeBacked(k, DENY_PER_LIFE) \/ Makeshift(p, k))
    \/ /\ isCacheable(entry.policy)
       /\ SessionBacked([proc |-> p, session |-> entry.session, key |-> k], entry.policy)

SessionLedger == \A p \in Procs, k \in Keys : Sound(p, k, clientCache[p][k])

Ledger == TypeInv /\ AgentLedger /\ LifeLedger /\ SessionLedger

(* What the library returns is justified: by a decision for life about the *)
(* key, by the want of one in a dialog of the process, by the answer to    *)
(* the very check, or by one for its session.                              *)
Justified(a, policy) ==
    \/ policy = ALLOW /\ LifeBacked(check[a].key, ALLOW_PER_LIFE)
    \/ /\ policy = DENY
       /\ LifeBacked(check[a].key, DENY_PER_LIFE) \/ Makeshift(check[a].proc, check[a].key)
    \/ policy \in clientDescriptions /\ Given(a, policy)
    \/ isCacheable(policy) /\ SessionBacked(check[a], policy)

(* Nothing that was said is ever unsaid.                                   *)
Lasting ==
    /\ \A a \in Asks : check[a] # NoCheck => check'[a] = check[a]
    /\ \A a \in Asks : reply[a].type = "RT_Action" =>
           reply'[a] = reply[a] /\ verdict'[a] = verdict[a]
-----------------------------------------------------------------------------
LEMMA AccessOfIs ==
    ASSUME NEW policy
    PROVE  /\ AccessOf(policy) \in Result \cup {"failed"}
           /\ toResult(policy) \in Result
<1>1. toResult(policy) \in Result
      BY DEF toResult, Result
<1> QED BY <1>1, SMT DEF AccessOf, Result

LEMMA ReceiveTypes ==
    ASSUME TypeInv, NEW a \in Asks, NEW c \in Check,
           NEW policy \in clientDescriptions \cup PredefinedPolicies, Receive(a, c, policy)
    PROVE  /\ access' \in [Asks -> Access]
           /\ clientCache' \in [Procs -> [Keys -> Entry \cup {NoEntry}]]
<1>1. access' \in [Asks -> Access]
      BY AccessOfIs, SMT DEF Receive, TypeInv, Access
<1>2. c.proc \in Procs /\ c.key \in Keys /\ c.session \in Sessions
      BY DEF Check
<1> DEFINE e == [policy |-> policy, session |-> c.session]
<1>3. CASE UNCHANGED clientCache
      BY <1>1, <1>3 DEF TypeInv
<1>4. CASE /\ policy \in clientDescriptions => isCacheable(policy)
           /\ clientCache' = [clientCache EXCEPT ![c.proc][c.key] = e]
  <2>1. policy \in {ALLOW_PER_SESSION, DENY_PER_SESSION} \cup PredefinedPolicies
        BY <1>4 DEF isCacheable
  <2>2. e \in Entry
        BY <1>2, <2>1 DEF Entry
  <2> HIDE DEF e
  <2>3. clientCache' \in [Procs -> [Keys -> Entry \cup {NoEntry}]]
        BY <1>2, <1>4, <2>2, SMT DEF TypeInv
  <2> QED BY <1>1, <2>3
<1> QED BY <1>3, <1>4 DEF Receive, Keep

LEMMA FailTypes ==
    ASSUME TypeInv, NEW a \in Asks, Fail(a)
    PROVE  /\ access' \in [Asks -> Access]
           /\ clientCache' \in [Procs -> [Keys -> Entry \cup {NoEntry}]]
BY SMT DEF Fail, TypeInv, Access

(* The answer of the agent, read by the service plugin.                    *)
LEMMA AnswerRead ==
    ASSUME TypeInv, AgentLedger, NEW a \in Asks, AnsweredByAgent(a), NEW k \in Keys, k = check[a].key
    PROVE  \E answer :
             /\ \/ /\ answer \in clientDescriptions \cup LifePolicies
                   /\ reply[a].data.policy = answer
                \/ answer = DENY /\ reply[a].data.form \in {"ERROR", "TIMEOUT"}
             /\ result'.status = "SUCCESS"
             /\ \/ /\ answer \in LifePolicies /\ Plugin!Update(k, answer)
                   /\ result'.policy = IF answer = ALLOW_PER_LIFE THEN ALLOW ELSE DENY
                \/ answer \notin LifePolicies /\ UNCHANGED m_keyValue /\ result'.policy = answer
<1> DEFINE data == FromAgent(reply[a].data)
<1>1. reply[a].data = Promised(verdict[a])
      BY DEF AnsweredByAgent, AgentAnswered, AgentLedger
<1>2. PICK answer : answer = dataToAnswer(data)
      OBVIOUS
<1>3. \/ answer \in clientDescriptions \cup LifePolicies /\ reply[a].data.policy = answer
      \/ answer = DENY /\ reply[a].data.form \in {"ERROR", "TIMEOUT"}
  <2>1. CASE reply[a].data.form = NoError
        BY <1>1, <1>2, <2>1, PromisedIs, DataToAnswerIs, Zenon DEF NoError
  <2>2. CASE reply[a].data.form \in {"ERROR", "TIMEOUT"}
        BY <1>1, <1>2, <2>2, PromisedIs, DataToAnswerIs, Zenon
  <2> QED BY <1>1, <2>1, <2>2, PromisedIs
<1>4. PluginUpdate(k, data)
      BY DEF AnsweredByAgent
<1> HIDE DEF data
<1>5. answer # Exception
  <2>1. clientDescriptions \cup LifePolicies \subseteq PolicyType
        BY PoliciesDiffer
  <2>2. DENY # Exception
        BY SMT DEF DENY, Exception
  <2> QED BY <1>3, <2>1, <2>2, PoliciesDiffer
<1>6. CASE answer \in LifePolicies
  <2>1. Plugin!UpdateForLife(k, data)
        BY <1>2, <1>4, <1>5, <1>6, SameWords
           DEF PluginUpdate, Plugin!UpdatePassesOn, Plugin!UpdateFails,
               Plugin!InterpretedInService, LifePolicies
  <2>2. Plugin!Update(k, answer)
        BY <1>2, <2>1, SameWords DEF Plugin!UpdateForLife
  <2>3. /\ result'.status = "SUCCESS"
        /\ result'.policy = IF answer = ALLOW_PER_LIFE THEN ALLOW ELSE DENY
        BY <1>2, <2>1, SameWords DEF Plugin!UpdateForLife, Plugin!Returned, Plugin!Predefined
  <2> QED BY <1>3, <1>6, <2>2, <2>3
<1>7. CASE answer \notin LifePolicies
  <2>1. Plugin!UpdatePassesOn(k, data)
        BY <1>2, <1>4, <1>5, <1>7, SameWords
           DEF PluginUpdate, Plugin!UpdateForLife, Plugin!UpdateFails,
               Plugin!InterpretedInService, LifePolicies
  <2>2. result'.status = "SUCCESS" /\ result'.policy = answer /\ UNCHANGED m_keyValue
        BY <1>2, <2>1, SameWords DEF Plugin!UpdatePassesOn, Plugin!Returned, Plugin!cacheVars
  <2> QED BY <1>3, <1>7, <2>2
<1> QED BY <1>6, <1>7

(* What a service plugin hit returns.                                      *)
LEMMA HitRead ==
    ASSUME TypeInv, NEW a \in Asks, NEW c \in Check, AnsweredByPlugin(a, c)
    PROVE  \E life \in LifePolicies :
               /\ life = m_keyValue[c.key]
               /\ Receive(a, c, IF life = ALLOW_PER_LIFE THEN ALLOW ELSE DENY)
<1>1. c.key \in Keys
      BY DEF Check
<1>2. PICK life \in LifePolicies : life = m_keyValue[c.key]
      BY <1>1 DEF AnsweredByPlugin, Plugin!CheckHit, Plugin!Cached, TypeInv
<1>3. result'.policy = IF life = ALLOW_PER_LIFE THEN ALLOW ELSE DENY
      BY <1>2, SameWords DEF AnsweredByPlugin, Plugin!CheckHit, Plugin!Returned, Plugin!Predefined
<1> QED BY <1>2, <1>3 DEF AnsweredByPlugin

LEMMA TypeNext == TypeInv /\ AgentLedger /\ [Next]_vars => TypeInv' /\ Lasting
<1> SUFFICES ASSUME TypeInv, AgentLedger, [Next]_vars PROVE TypeInv' /\ Lasting
    OBVIOUS
<1> USE DEF Lasting
<1>1. ASSUME NEW a \in Asks, NEW c \in Check, Call(a, c)
      PROVE  /\ check' \in [Asks -> Check \cup {NoCheck}]
             /\ \A b \in Asks : check[b] # NoCheck => check'[b] = check[b]
      BY <1>1, SMT DEF Call, TypeInv
<1>2. ASSUME NEW a \in Asks, NEW c \in Check, AnsweredByLibrary(a, c)
      PROVE  TypeInv' /\ Lasting
  <2>1. access' \in [Asks -> Access]
        BY <1>2, AccessOfIs, SMT DEF AnsweredByLibrary, TypeInv, Access
  <2> QED BY <1>1, <1>2, <2>1 DEF AnsweredByLibrary, TypeInv, pluginVars, agentVars
<1>3. ASSUME NEW a \in Asks, NEW c \in Check, AnsweredByPlugin(a, c)
      PROVE  TypeInv' /\ Lasting
  <2>1. PICK policy \in PredefinedPolicies : Receive(a, c, policy)
        BY <1>3, HitRead DEF PredefinedPolicies
  <2>2. UNCHANGED m_keyValue
        BY <1>3 DEF AnsweredByPlugin, Plugin!CheckHit, Plugin!Get
  <2> QED BY <1>1, <1>3, <2>1, <2>2, ReceiveTypes DEF AnsweredByPlugin, TypeInv, agentVars
<1>4. ASSUME NEW a \in Asks, NEW c \in Check, SentToAgent(a, c)
      PROVE  TypeInv' /\ Lasting
  <2>1. UNCHANGED m_keyValue
        BY <1>4 DEF SentToAgent, Plugin!CheckMiss, Plugin!Get
  <2>2. status' = [status EXCEPT ![a] = "pending"] /\ UNCHANGED <<reply, verdict>>
        BY <1>4 DEF SentToAgent, Agent!Ask
  <2> QED BY <1>1, <1>4, <2>1, <2>2 DEF SentToAgent, TypeInv, Status
<1>5. ASSUME NEW a \in Asks, NEW c \in Check, NoAgentToAsk(a, c)
      PROVE  TypeInv' /\ Lasting
      BY <1>1, <1>5, FailTypes DEF NoAgentToAsk, TypeInv, pluginVars, agentVars
<1>6. ASSUME NEW a \in Asks, ProcessDies(a)
      PROVE  TypeInv' /\ Lasting
  <2>1. status' \in [Asks -> Status] /\ UNCHANGED <<reply, verdict>>
        BY <1>6 DEF ProcessDies, Agent!Cancel, agentVars, TypeInv, Status
  <2>2. access' \in [Asks -> Access]
        BY <1>6 DEF ProcessDies, TypeInv, Access
  <2> QED BY <1>6, <2>1, <2>2 DEF ProcessDies, TypeInv, pluginVars
<1>7. ASSUME NEW a \in Asks, AnsweredByAgent(a)
      PROVE  TypeInv' /\ Lasting
  <2>1. check[a] \in Check
        BY <1>7 DEF AnsweredByAgent, AgentAnswered, AgentLedger, TypeInv
  <2>2. PICK k \in Keys : k = check[a].key
        BY <2>1 DEF Check
  <2>3. /\ m_keyValue' \in [Keys -> LifePolicies \cup {NoValue}]
        /\ result'.policy \in clientDescriptions \cup PredefinedPolicies
        BY <1>7, <2>2, AnswerRead, UpdateIs DEF TypeInv, PredefinedPolicies
  <2>4. \/ \E policy \in clientDescriptions \cup PredefinedPolicies : Receive(a, check[a], policy)
        \/ Fail(a)
        BY <1>7, <2>3 DEF AnsweredByAgent
  <2>5. /\ access' \in [Asks -> Access]
        /\ clientCache' \in [Procs -> [Keys -> Entry \cup {NoEntry}]]
        BY <2>1, <2>4, ReceiveTypes, FailTypes
  <2> QED BY <1>7, <2>3, <2>5 DEF AnsweredByAgent, TypeInv, agentVars
<1>8. ASSUME NEW a \in Asks, EndsWithoutAnswer(a)
      PROVE  TypeInv' /\ Lasting
      BY <1>8, FailTypes DEF EndsWithoutAnswer, Plugin!EndsWithoutUpdate, Plugin!cacheVars,
         TypeInv, agentVars
<1>9. ASSUME NEW a \in Asks, AgentConcludes(a)
      PROVE  TypeInv' /\ Lasting
  <2>1. PICK r \in Reply :
            /\ status[a] # "replied"
            /\ status' = [status EXCEPT ![a] = "replied"]
            /\ reply' = [reply EXCEPT ![a] = r]
            /\ UNCHANGED verdict
    <3>1. CASE Agent!Answer(a)
          BY <3>1, PromisedIs, SameWords DEF Agent!Answer, Agent!Respond, Agent!Waiting, Reply
    <3>2. CASE Agent!ConfirmCancel(a)
      <4>1. NoData \in PluginData
            BY SMT DEF NoData, PluginData, PolicyType
      <4> QED BY <3>2, <4>1, SameWords DEF Agent!ConfirmCancel, Agent!Respond, Reply
    <3> QED BY <1>9, <3>1, <3>2 DEF AgentConcludes
  <2>2. reply[a].type # "RT_Action"
        BY <2>1 DEF AgentLedger
  <2> QED BY <1>9, <2>1, <2>2 DEF AgentConcludes, TypeInv, Status, clientVars, pluginVars
<1>10. ASSUME NEW a \in Asks, NEW o \in Outcomes, UserDecides(a, o)
       PROVE  TypeInv' /\ Lasting
       BY <1>10 DEF UserDecides, Agent!Decide, TypeInv, clientVars, pluginVars
<1>11. ASSUME NEW p \in Procs, NEW k \in Keys, Forget(p, k)
       PROVE  TypeInv' /\ Lasting
       BY <1>11 DEF Forget, TypeInv, pluginVars, agentVars
<1>12. CASE CynaraInvalidates
       BY <1>12 DEF CynaraInvalidates, Plugin!invalidate, Plugin!clear, TypeInv, clientVars,
          agentVars
<1>13. CASE AgentLost \/ \E a \in Asks : FormerAgentLost(a)
       BY <1>13 DEF AgentLost, FormerAgentLost, Agent!EndChecks, Agent!Waiting, TypeInv, Status,
          clientVars, pluginVars
<1>14. CASE AgentEnds \/ AgentRestarts \/ (\E a \in Asks : ResponseLost(a)) \/ UNCHANGED vars
       BY <1>14 DEF ResponseLost, Agent!Lose, AgentEnds, Agent!End, AgentRestarts, vars, TypeInv,
          clientVars, pluginVars, agentVars
<1> QED BY <1>2, <1>3, <1>4, <1>5, <1>6, <1>7, <1>8, <1>9, <1>10, <1>11, <1>12, <1>13, <1>14
           DEF Next
-----------------------------------------------------------------------------
(* An answer of the user stays what it is.                                 *)
LEMMA AnswerLasts ==
    ASSUME AgentLedger, Lasting, NEW b \in Asks,
           AnswerTo(b).policy # 0 \/ AnswerTo(b).form \in {"ERROR", "TIMEOUT"}
    PROVE  AnswerTo(b)' = AnswerTo(b)
<1>1. reply[b].type = "RT_Action"
      BY SMT DEF AnswerTo, NoData
<1> QED BY <1>1 DEF AnswerTo, Lasting

LEMMA GivenLasts ==
    ASSUME AgentLedger, Lasting, NEW b \in Asks, NEW policy \in clientDescriptions \cup LifePolicies,
           Given(b, policy)
    PROVE  Given(b, policy)'
<1>1. policy # 0
      BY PoliciesDiffer DEF DENY
<1> QED BY <1>1, AnswerLasts DEF Given

LEMMA LifeBackedLasts ==
    ASSUME AgentLedger, Lasting, NEW k, NEW policy \in LifePolicies, LifeBacked(k, policy)
    PROVE  LifeBacked(k, policy)'
<1>1. PICK b \in Asks : check[b] # NoCheck /\ check[b].key = k /\ Given(b, policy)
      BY DEF LifeBacked
<1>2. check'[b] = check[b] /\ Given(b, policy)'
      BY <1>1, GivenLasts DEF Lasting
<1> QED BY <1>1, <1>2 DEF LifeBacked

LEMMA SessionBackedLasts ==
    ASSUME AgentLedger, Lasting, NEW c, c # NoCheck, NEW policy \in clientDescriptions,
           SessionBacked(c, policy)
    PROVE  SessionBacked(c, policy)'
<1>1. PICK b \in Asks : check[b] = c /\ Given(b, policy)
      BY DEF SessionBacked
<1>2. check'[b] = check[b] /\ Given(b, policy)'
      BY <1>1, GivenLasts DEF Lasting
<1> QED BY <1>1, <1>2 DEF SessionBacked

LEMMA MakeshiftLasts ==
    ASSUME AgentLedger, Lasting, NEW p, NEW k, Makeshift(p, k)
    PROVE  Makeshift(p, k)'
<1>1. PICK b \in Asks : /\ check[b] # NoCheck /\ check[b].proc = p /\ check[b].key = k
                       /\ AnswerTo(b).form \in {"ERROR", "TIMEOUT"}
      BY DEF Makeshift
<1>2. check'[b] = check[b] /\ AnswerTo(b)' = AnswerTo(b)
      BY <1>1, AnswerLasts DEF Lasting
<1> QED BY <1>1, <1>2 DEF Makeshift

LEMMA SoundLasts ==
    ASSUME AgentLedger, Lasting, NEW p \in Procs, NEW k, NEW entry, Sound(p, k, entry)
    PROVE  Sound(p, k, entry)'
<1>1. CASE entry = NoEntry
      BY <1>1 DEF Sound
<1>2. CASE entry.policy = ALLOW /\ LifeBacked(k, ALLOW_PER_LIFE)
      BY <1>2, LifeBackedLasts DEF Sound, LifePolicies
<1>3. CASE entry.policy = DENY /\ (LifeBacked(k, DENY_PER_LIFE) \/ Makeshift(p, k))
      BY <1>3, LifeBackedLasts, MakeshiftLasts DEF Sound, LifePolicies
<1>4. CASE /\ isCacheable(entry.policy)
           /\ SessionBacked([proc |-> p, session |-> entry.session, key |-> k], entry.policy)
  <2>1. PICK c : c = [proc |-> p, session |-> entry.session, key |-> k]
        OBVIOUS
  <2>2. entry.policy \in clientDescriptions
        BY <1>4 DEF isCacheable, clientDescriptions
  <2>3. PICK policy \in clientDescriptions : policy = entry.policy
        BY <2>2
  <2>4. c # NoCheck
        BY <2>1, ProcsAssumption DEF NoCheck
  <2>5. SessionBacked(c, policy)'
        BY <1>4, <2>1, <2>3, <2>4, SessionBackedLasts
  <2> QED BY <1>4, <2>1, <2>3, <2>5 DEF Sound
<1> QED BY <1>1, <1>2, <1>3, <1>4 DEF Sound

(* What a call may return, and that it stays justified.                    *)
Allowed(a) ==
    \E b \in Asks :
        Covers(b, a) /\ AnswerTo(b).policy \in {ALLOW_ONCE, ALLOW_PER_SESSION, ALLOW_PER_LIFE}

Denied(a) ==
    \E b \in Asks :
        \/ Covers(b, a) /\ AnswerTo(b).policy \in {DENY_ONCE, DENY_PER_SESSION, DENY_PER_LIFE}
        \/ SameCache(check[b], check[a]) /\ AnswerTo(b).form \in {"ERROR", "TIMEOUT"}

Reasoned(a) ==
    /\ access[a] = "ACCESS_ALLOWED" => Allowed(a)
    /\ access[a] = "ACCESS_DENIED" => Denied(a)
    /\ access[a] = "failed" => status[a] \in {"unsent", "lost"}

LEMMA ReasonedIs ==
    AllowedOnlyByUser /\ DeniedForAReason /\ FailsOnlyWithoutAgent
        <=> \A a \in Asks : Reasoned(a)
BY DEF AllowedOnlyByUser, DeniedForAReason, FailsOnlyWithoutAgent, Reasoned, Allowed, Denied

LEMMA CoversLasts ==
    ASSUME AgentLedger, Lasting, NEW a \in Asks, check[a] # NoCheck, NEW b \in Asks,
           Covers(b, a), AnswerTo(b).policy # 0
    PROVE  Covers(b, a)' /\ AnswerTo(b)' = AnswerTo(b)
<1>1. AnswerTo(b)' = AnswerTo(b)
      BY AnswerLasts
<1>2. check'[a] = check[a] /\ check'[b] = check[b]
      BY DEF Lasting, Covers
<1> QED BY <1>1, <1>2 DEF Covers

LEMMA ReasonedLasts ==
    ASSUME TypeInv, AgentLedger, Lasting, NEW a \in Asks, Reasoned(a), check[a] # NoCheck,
           access'[a] = access[a],
           status[a] \in {"unsent", "lost"} /\ access[a] = "failed" => status'[a] \in {"unsent", "lost"}
    PROVE  Reasoned(a)'
<1> USE DEF ALLOW_ONCE, ALLOW_PER_SESSION, ALLOW_PER_LIFE, DENY_ONCE, DENY_PER_SESSION,
DENY_PER_LIFE
<1>1. CASE access[a] = "ACCESS_ALLOWED"
  <2>1. PICK b \in Asks : Covers(b, a) /\ AnswerTo(b).policy \in {11, 12, 13}
        BY <1>1 DEF Reasoned, Allowed
  <2>2. AnswerTo(b).policy # 0
        BY <2>1, SMT
  <2>3. Covers(b, a)' /\ AnswerTo(b)' = AnswerTo(b)
        BY <2>1, <2>2, CoversLasts
  <2> QED BY <1>1, <2>1, <2>3 DEF Reasoned, Allowed
<1>2. CASE access[a] = "ACCESS_DENIED"
  <2>1. PICK b \in Asks :
            \/ Covers(b, a) /\ AnswerTo(b).policy \in {14, 15, 16}
            \/ SameCache(check[b], check[a]) /\ AnswerTo(b).form \in {"ERROR", "TIMEOUT"}
        BY <1>2 DEF Reasoned, Denied
  <2>2. CASE Covers(b, a) /\ AnswerTo(b).policy \in {14, 15, 16}
    <3>1. AnswerTo(b).policy # 0
          BY <2>2, SMT
    <3>2. Covers(b, a)' /\ AnswerTo(b)' = AnswerTo(b)
          BY <2>2, <3>1, CoversLasts
    <3> QED BY <1>2, <2>2, <3>2 DEF Reasoned, Denied
  <2>3. CASE SameCache(check[b], check[a]) /\ AnswerTo(b).form \in {"ERROR", "TIMEOUT"}
    <3>1. check[b] # NoCheck
          BY <2>3 DEF AgentLedger, AnswerTo, NoData
    <3>2. check'[b] = check[b] /\ check'[a] = check[a] /\ AnswerTo(b)' = AnswerTo(b)
          BY <2>3, <3>1, AnswerLasts DEF Lasting
    <3> QED BY <1>2, <2>3, <3>2 DEF Reasoned, Denied
  <2> QED BY <2>1, <2>2, <2>3
<1>4. CASE access[a] \notin {"ACCESS_ALLOWED", "ACCESS_DENIED"}
      BY <1>4 DEF Reasoned
<1> QED BY <1>1, <1>2, <1>4

(* A justified policy gives a reasoned access.                             *)
LEMMA AccessIsReasoned ==
    ASSUME NEW a \in Asks, check'[a] # NoCheck, NEW policy, Justified(a, policy)',
           access'[a] = AccessOf(policy)
    PROVE  Reasoned(a)'
<1>1. CASE policy = ALLOW /\ LifeBacked(check[a].key, ALLOW_PER_LIFE)'
  <2>1. access'[a] = "ACCESS_ALLOWED"
        BY <1>1, PoliciesDiffer, SMT DEF AccessOf
  <2>2. Allowed(a)'
        BY <1>1 DEF LifeBacked, Given, Allowed, Covers
  <2> QED BY <2>1, <2>2 DEF Reasoned
<1>2. CASE policy = DENY /\ (\/ LifeBacked(check[a].key, DENY_PER_LIFE)
                            \/ Makeshift(check[a].proc, check[a].key))'
  <2>1. access'[a] = "ACCESS_DENIED"
        BY <1>2, PoliciesDiffer, SMT DEF AccessOf
  <2>2. Denied(a)'
        BY <1>2 DEF LifeBacked, Makeshift, Given, Denied, Covers, SameCache
  <2> QED BY <2>1, <2>2 DEF Reasoned
<1>3. CASE policy \in clientDescriptions /\ Given(a, policy)'
  <2>1. access'[a] = toResult(policy)
        BY <1>3, PoliciesDiffer, SMT DEF AccessOf
  <2>2. (Covers(a, a) /\ AnswerTo(a).policy = policy)'
        BY <1>3 DEF Covers, Given
  <2>3. CASE policy \in {ALLOW_ONCE, ALLOW_PER_SESSION}
        BY <2>1, <2>2, <2>3 DEF toResult, Reasoned, Allowed
  <2>4. CASE policy \in {DENY_ONCE, DENY_PER_SESSION} /\ policy \notin {ALLOW_ONCE, ALLOW_PER_SESSION}
        BY <2>1, <2>2, <2>4 DEF toResult, Reasoned, Denied
  <2> QED BY <1>3, <2>3, <2>4 DEF clientDescriptions
<1>4. CASE isCacheable(policy) /\ SessionBacked(check[a], policy)'
  <2>1. access'[a] = toResult(policy)
        BY <1>4, PoliciesDiffer, SMT DEF AccessOf, isCacheable, clientDescriptions
  <2>2. PICK b \in Asks : (check[b] = check[a] /\ AnswerTo(b).policy = policy)'
        BY <1>4 DEF SessionBacked, Given
  <2>3. Covers(b, a)'
        BY <1>4, <2>2 DEF Covers, isCacheable
  <2>4. CASE policy = ALLOW_PER_SESSION
        BY <2>1, <2>2, <2>3, <2>4 DEF toResult, Reasoned, Allowed
  <2>5. CASE policy = DENY_PER_SESSION
    <3>1. DENY_PER_SESSION \notin {ALLOW_ONCE, ALLOW_PER_SESSION}
          BY SMT DEF DENY_PER_SESSION, ALLOW_ONCE, ALLOW_PER_SESSION
    <3> QED BY <2>1, <2>2, <2>3, <2>5, <3>1 DEF toResult, Reasoned, Denied
  <2> QED BY <1>4, <2>4, <2>5 DEF isCacheable
<1> QED BY <1>1, <1>2, <1>3, <1>4 DEF Justified

(* A step that leaves no other trace than an access, or none at all.       *)
LEMMA LifeLedgerKept ==
    ASSUME TypeInv, AgentLedger, LifeLedger, Lasting,
           \A k \in Keys : m_keyValue'[k] \in {m_keyValue[k], NoValue}
    PROVE  LifeLedger'
<1> SUFFICES ASSUME NEW k \in Keys, m_keyValue'[k] # NoValue
             PROVE  LifeBacked(k, m_keyValue[k])' /\ m_keyValue'[k] = m_keyValue[k]
    BY DEF LifeLedger
<1>1. m_keyValue'[k] = m_keyValue[k] /\ m_keyValue[k] \in LifePolicies
      BY DEF TypeInv
<1>2. PICK v \in LifePolicies : v = m_keyValue[k]
      BY <1>1
<1>3. LifeBacked(k, v)'
      BY <1>1, <1>2, LifeBackedLasts DEF LifeLedger
<1> QED BY <1>1, <1>2, <1>3 DEF LifeBacked, Given

LEMMA SessionLedgerSuffices ==
    ASSUME \A p \in Procs, k \in Keys :
               \E entry : clientCache'[p][k] = entry /\ Sound(p, k, entry)'
    PROVE  SessionLedger'
<1> SUFFICES ASSUME NEW p \in Procs, NEW k \in Keys
             PROVE  Sound(p, k, clientCache[p][k])'
    BY DEF SessionLedger
<1>1. PICK entry : clientCache'[p][k] = entry /\ Sound(p, k, entry)'
      OBVIOUS
<1> QED BY <1>1 DEF Sound

LEMMA SessionLedgerKept ==
    ASSUME TypeInv, AgentLedger, SessionLedger, Lasting,
           \A p \in Procs, k \in Keys : clientCache'[p][k] \in {clientCache[p][k], NoEntry}
    PROVE  SessionLedger'
<1>1. ASSUME NEW p \in Procs, NEW k \in Keys
      PROVE  \E entry : clientCache'[p][k] = entry /\ Sound(p, k, entry)'
  <2>1. PICK entry : entry = clientCache'[p][k]
        OBVIOUS
  <2>2. Sound(p, k, entry)
        BY <2>1 DEF SessionLedger, Sound
  <2> QED BY <2>1, <2>2, SoundLasts
<1> QED BY <1>1, SessionLedgerSuffices

(* A policy that is justified may be kept as well.                         *)
LEMMA ReceiveKeeps ==
    ASSUME TypeInv, AgentLedger, SessionLedger, Lasting, NEW a \in Asks, NEW c \in Check,
           check'[a] = c, NEW policy, Justified(a, policy)', Receive(a, c, policy)
    PROVE  SessionLedger' /\ Reasoned(a)'
<1>1. c.proc \in Procs /\ c.key \in Keys /\ c.session \in Sessions
      BY DEF Check
<1>2. c = [proc |-> c.proc, session |-> c.session, key |-> c.key] /\ c # NoCheck
      BY ProcsAssumption DEF Check, NoCheck
<1>3. Reasoned(a)'
  <2>1. access'[a] = AccessOf(policy)
        BY DEF Receive, TypeInv
  <2> QED BY <1>2, <2>1, AccessIsReasoned
<1>4. CASE UNCHANGED clientCache
      BY <1>3, <1>4, SessionLedgerKept
<1>5. CASE /\ policy \in clientDescriptions => isCacheable(policy)
           /\ clientCache' = [clientCache EXCEPT ![c.proc][c.key] =
                                  [policy |-> policy, session |-> c.session]]
  <2>1. PICK e : e = [policy |-> policy, session |-> c.session]
        OBVIOUS
  <2>2. Sound(c.proc, c.key, e)'
    <3>1. e.policy = policy /\ [proc |-> c.proc, session |-> e.session, key |-> c.key] = c
          BY <1>2, <2>1
    <3>2. CASE policy \in clientDescriptions /\ Given(a, policy)'
      <4>1. SessionBacked(c, policy)'
            BY <3>2 DEF SessionBacked
      <4> QED BY <1>5, <3>1, <3>2, <4>1 DEF Sound
    <3>3. CASE ~(policy \in clientDescriptions /\ Given(a, policy)')
          BY <3>1, <3>3 DEF Justified, Sound
    <3> QED BY <3>2, <3>3
  <2>3. ASSUME NEW p \in Procs, NEW k \in Keys
        PROVE  clientCache'[p][k] = IF p = c.proc /\ k = c.key THEN e ELSE clientCache[p][k]
        BY <1>1, <1>5, <2>1, SMT DEF TypeInv
  <2>4. ASSUME NEW p \in Procs, NEW k \in Keys
        PROVE  \E entry : clientCache'[p][k] = entry /\ Sound(p, k, entry)'
    <3>1. CASE p = c.proc /\ k = c.key
          BY <2>2, <2>3, <3>1
    <3>2. CASE ~(p = c.proc /\ k = c.key)
      <4>1. PICK entry : entry = clientCache[p][k] /\ Sound(p, k, entry)
            BY DEF SessionLedger
      <4> QED BY <2>3, <3>2, <4>1, SoundLasts
    <3> QED BY <3>1, <3>2
  <2> QED BY <1>3, <2>4, SessionLedgerSuffices
<1> QED BY <1>4, <1>5 DEF Receive, Keep

LEMMA ReasonedKept ==
    ASSUME TypeInv, AgentLedger, Lasting, NEW a \in Asks, Reasoned(a), access'[a] = access[a],
           access[a] = "failed" => status'[a] = status[a] \/ status'[a] = "lost"
    PROVE  Reasoned(a)'
<1>1. CASE check[a] = NoCheck
      BY <1>1 DEF AgentLedger, Reasoned
<1>2. CASE check[a] # NoCheck
      BY <1>2, ReasonedLasts DEF Reasoned
<1> QED BY <1>1, <1>2
-----------------------------------------------------------------------------
(* The steps, each from a state of the invariant to a state with types.    *)
Reasons == \A a \in Asks : Reasoned(a)

Step == Ledger /\ Reasons /\ TypeInv' /\ Lasting

LEMMA LibraryAnswers ==
    ASSUME Step, NEW a \in Asks, NEW c \in Check, AnsweredByLibrary(a, c)
    PROVE  Ledger' /\ Reasons'
<1> USE DEF Step, Ledger
<1>0. check[a] = NoCheck /\ check' = [check EXCEPT ![a] = c]
      BY DEF AnsweredByLibrary, Call
<1>1. c.proc \in Procs /\ c.key \in Keys
      BY DEF Check
<1>2. c = [proc |-> c.proc, session |-> c.session, key |-> c.key] /\ c # NoCheck
      BY ProcsAssumption DEF Check, NoCheck
<1>3. PICK entry : entry = Kept(c) /\ Sound(c.proc, c.key, entry)
      BY <1>1 DEF SessionLedger, Kept
<1>4. Sound(c.proc, c.key, entry)'
      BY <1>1, <1>3, SoundLasts
<1>5. /\ entry # NoEntry
      /\ isCacheable(entry.policy) => entry.session = c.session
  <2>1. NoEntry.policy \notin clientDescriptions
        BY PoliciesDiffer DEF NoEntry
  <2>2. isCacheable(entry.policy) => entry.policy \notin PredefinedPolicies
        BY PoliciesDiffer DEF isCacheable, clientDescriptions, PredefinedPolicies
  <2> QED BY <1>3, <2>1, <2>2 DEF AnsweredByLibrary, MayUse, MustUse, isUsable
<1>6. check'[a] = c /\ access'[a] = AccessOf(entry.policy)
      BY <1>0, <1>3 DEF AnsweredByLibrary, TypeInv
<1>7. Reasoned(a)'
  <2>1. PICK policy : policy = entry.policy
        OBVIOUS
  <2>2. Justified(a, policy)'
        BY <1>2, <1>4, <1>5, <1>6, <2>1 DEF Sound, Justified, LifeBacked, Makeshift, SessionBacked
  <2> QED BY <1>2, <1>6, <2>1, <2>2, AccessIsReasoned
<1>8. ASSUME NEW d \in Asks, d # a PROVE Reasoned(d)'
      BY <1>8, ReasonedKept DEF AnsweredByLibrary, agentVars, Reasons, TypeInv
<1>9. AgentLedger'
      BY <1>0, <1>2 DEF AnsweredByLibrary, agentVars, AgentLedger, TypeInv
<1>10. LifeLedger' /\ SessionLedger'
      BY LifeLedgerKept, SessionLedgerKept DEF AnsweredByLibrary, pluginVars
<1> QED BY <1>7, <1>8, <1>9, <1>10 DEF Reasons

LEMMA PluginAnswers ==
    ASSUME Step, NEW a \in Asks, NEW c \in Check, AnsweredByPlugin(a, c)
    PROVE  Ledger' /\ Reasons'
<1> USE DEF Step, Ledger
<1>0. check[a] = NoCheck /\ check' = [check EXCEPT ![a] = c]
      BY DEF AnsweredByPlugin, Call
<1>1. c.key \in Keys /\ c # NoCheck /\ check'[a] = c
      BY <1>0, ProcsAssumption DEF Check, NoCheck, TypeInv
<1>2. PICK life \in LifePolicies :
          /\ life = m_keyValue[c.key]
          /\ Receive(a, c, IF life = ALLOW_PER_LIFE THEN ALLOW ELSE DENY)
      BY HitRead
<1>3. LifeBacked(c.key, life)'
      BY <1>1, <1>2, NoValueAssumption, LifeBackedLasts DEF LifeLedger, LifePolicies
<1>4. PICK policy : /\ policy = IF life = ALLOW_PER_LIFE THEN ALLOW ELSE DENY
                    /\ Receive(a, c, policy)
      BY <1>2
<1>5. LifeBacked(check[a].key, life)'
      BY <1>1, <1>3 DEF LifeBacked
<1>6. Justified(a, policy)'
  <2>1. CASE life = ALLOW_PER_LIFE
        BY <1>4, <1>5, <2>1 DEF Justified
  <2>2. CASE life = DENY_PER_LIFE /\ life # ALLOW_PER_LIFE
        BY <1>4, <1>5, <2>2 DEF Justified
  <2> QED BY <2>1, <2>2 DEF LifePolicies
<1>7. SessionLedger' /\ Reasoned(a)'
      BY <1>1, <1>4, <1>6, ReceiveKeeps
<1>8. ASSUME NEW b \in Asks, b # a PROVE Reasoned(b)'
      BY <1>4, <1>8, ReasonedKept DEF AnsweredByPlugin, Receive, agentVars, Reasons, TypeInv
<1>9. AgentLedger'
      BY <1>0, <1>1, <1>4 DEF AnsweredByPlugin, Receive, agentVars, AgentLedger, TypeInv
<1>10. LifeLedger'
      BY LifeLedgerKept DEF AnsweredByPlugin, Plugin!CheckHit, Plugin!Get
<1> QED BY <1>7, <1>8, <1>9, <1>10 DEF Reasons

LEMMA CallIsSent ==
    ASSUME Step, NEW a \in Asks, NEW c \in Check, SentToAgent(a, c) \/ NoAgentToAsk(a, c)
    PROVE  Ledger' /\ Reasons'
<1> USE DEF Step, Ledger
<1>0. check[a] = NoCheck /\ check' = [check EXCEPT ![a] = c]
      BY DEF SentToAgent, NoAgentToAsk, Call
<1>1. c # NoCheck /\ check'[a] = c
      BY <1>0, ProcsAssumption DEF Check, NoCheck, TypeInv
<1>2. access[a] = "none" /\ status[a] = "unsent" /\ a \notin waiting /\ reply[a].type = "none"
      BY <1>0 DEF AgentLedger, TypeInv, Reply
<1>3. UNCHANGED <<clientCache, m_keyValue, reply, verdict>>
      BY DEF SentToAgent, NoAgentToAsk, Fail, Plugin!CheckMiss, Plugin!Get, Agent!Ask, pluginVars,
         agentVars
<1>4. LifeLedger' /\ SessionLedger'
      BY <1>3, LifeLedgerKept, SessionLedgerKept
<1>5. CASE SentToAgent(a, c)
  <2>1. status' = [status EXCEPT ![a] = "pending"] /\ UNCHANGED access /\ waiting' = waiting \cup {a}
        BY <1>5 DEF SentToAgent, Agent!Ask
  <2>2. AgentLedger'
        BY <1>0, <1>1, <1>2, <1>3, <2>1 DEF AgentLedger, TypeInv
  <2>3. ASSUME NEW b \in Asks PROVE Reasoned(b)'
        BY <1>2, <2>1, ReasonedKept DEF Reasons, TypeInv
  <2> QED BY <1>4, <2>2, <2>3 DEF Reasons
<1>6. CASE NoAgentToAsk(a, c)
  <2>1. access' = [access EXCEPT ![a] = "failed"] /\ UNCHANGED <<status, waiting>>
        BY <1>2, <1>6 DEF NoAgentToAsk, Fail, agentVars, TypeInv
  <2>2. AgentLedger'
        BY <1>0, <1>1, <1>2, <1>3, <2>1 DEF AgentLedger, TypeInv
  <2>3. Reasoned(a)'
        BY <1>2, <2>1 DEF Reasoned, TypeInv
  <2>4. ASSUME NEW b \in Asks, b # a PROVE Reasoned(b)'
        BY <2>1, <2>4, ReasonedKept DEF Reasons, TypeInv
  <2> QED BY <1>4, <2>2, <2>3, <2>4 DEF Reasons
<1> QED BY <1>5, <1>6

LEMMA WithdrawnKeeps ==
    ASSUME Step, NEW a \in Asks, ProcessDies(a) \/ EndsWithoutAnswer(a)
    PROVE  Ledger' /\ Reasons'
<1> USE DEF Step, Ledger
<1>0. a \in waiting /\ check[a] # NoCheck
      BY DEF ProcessDies, EndsWithoutAnswer, AgentLedger
<1>1. UNCHANGED <<check, clientCache, m_keyValue, reply, verdict>> /\ waiting' \in SUBSET waiting
      BY DEF ProcessDies, EndsWithoutAnswer, Plugin!EndsWithoutUpdate, Plugin!cacheVars, Fail,
         Agent!Cancel, pluginVars, agentVars
<1>2. LifeLedger' /\ SessionLedger'
      BY <1>1, LifeLedgerKept, SessionLedgerKept
<1>3. CASE ProcessDies(a)
  <2>1. access' = [access EXCEPT ![a] = "gone"] /\ access[a] = "none"
        BY <1>3 DEF ProcessDies
  <2>2. \/ status' = status
        \/ status' = [status EXCEPT ![a] = "cancelling"] /\ status[a] = "pending"
    <3>1. Agent!Cancel(a) \/ UNCHANGED agentVars
          BY <1>3, Zenon DEF ProcessDies
    <3>2. CASE Agent!Cancel(a)
          BY <3>2 DEF Agent!Cancel
    <3>3. CASE UNCHANGED agentVars
          BY <3>3 DEF agentVars
    <3> QED BY <3>1, <3>2, <3>3
  <2>3. AgentLedger'
    <3> SUFFICES ASSUME NEW b \in Asks
                 PROVE  /\ reply[b].type # "none" => status'[b] = "replied"
                        /\ status'[b] = "replied" => reply[b].type # "none"
                        /\ reply[b].type = "RT_Action" => reply[b].data = Promised(verdict[b])
                        /\ status'[b] = "cancelling" \/ reply[b].type = "RT_Cancel"
                              => access'[b] = "gone"
                        /\ check[b] = NoCheck =>
                              status'[b] = "unsent" /\ access'[b] = "none" /\ b \notin waiting'
        BY <1>1 DEF AgentLedger
    <3>1. CASE b = a
          BY <1>0, <2>1, <2>2, <3>1, SMT DEF AgentLedger, TypeInv
    <3>2. CASE b # a
          BY <1>1, <2>1, <2>2, <3>2, SMT DEF AgentLedger, TypeInv
    <3> QED BY <3>1, <3>2
  <2>4. ASSUME NEW b \in Asks PROVE Reasoned(b)'
    <3>1. CASE b = a
          BY <2>1, <3>1 DEF Reasoned, TypeInv
    <3>2. CASE b # a
          BY <2>1, <2>2, <3>2, ReasonedKept DEF Reasons, TypeInv
    <3> QED BY <3>1, <3>2
  <2> QED BY <1>2, <2>3, <2>4 DEF Reasons
<1>4. CASE EndsWithoutAnswer(a)
  <2>1. /\ access' = [access EXCEPT ![a] = IF @ = "none" THEN "failed" ELSE @]
        /\ UNCHANGED status
        BY <1>4 DEF EndsWithoutAnswer, Fail, agentVars
  <2>2. access[a] = "none" => status[a] = "lost"
        BY <1>4 DEF EndsWithoutAnswer, AgentAnswered, AgentLedger
  <2>3. AgentLedger'
        BY <1>0, <1>1, <2>1, <2>2 DEF AgentLedger, TypeInv
  <2>4. ASSUME NEW b \in Asks PROVE Reasoned(b)'
    <3>1. CASE b = a /\ access[a] = "none"
          BY <2>1, <2>2, <3>1 DEF Reasoned, TypeInv
    <3>2. CASE ~(b = a /\ access[a] = "none")
          BY <2>1, <3>2, ReasonedKept DEF Reasons, TypeInv
    <3> QED BY <3>1, <3>2
  <2> QED BY <1>2, <2>3, <2>4 DEF Reasons
<1> QED BY <1>3, <1>4

LEMMA AgentAnswersSuffices ==
    ASSUME Step, NEW a \in Asks, AnsweredByAgent(a), LifeLedger',
           NEW policy, result'.status = "SUCCESS", result'.policy = policy, Justified(a, policy)'
    PROVE  Ledger' /\ Reasons'
<1> USE DEF Step, Ledger
<1>1. /\ UNCHANGED <<check, status, reply, verdict>>
      /\ waiting' = waiting \ {a}
      BY DEF AnsweredByAgent, agentVars
<1>2. check[a] # NoCheck /\ check[a] \in Check /\ status[a] = "replied" /\ reply[a].type = "RT_Action"
      BY DEF AnsweredByAgent, AgentAnswered, AgentLedger, TypeInv
<1>3. CASE access[a] = "none"
  <2>1. PICK c \in Check : c = check[a] /\ Receive(a, c, policy)
        BY <1>2, <1>3 DEF AnsweredByAgent
  <2>2. SessionLedger' /\ Reasoned(a)'
        BY <1>1, <2>1, ReceiveKeeps
  <2>3. access' = [access EXCEPT ![a] = AccessOf(policy)]
        BY <2>1 DEF Receive
  <2>4. ASSUME NEW b \in Asks, b # a PROVE Reasoned(b)'
        BY <1>1, <2>3, <2>4, ReasonedKept DEF Reasons, TypeInv
  <2>5. AgentLedger'
    <3> SUFFICES ASSUME NEW b \in Asks
                 PROVE  /\ status[b] = "cancelling" \/ reply[b].type = "RT_Cancel"
                              => access'[b] = "gone"
                        /\ check[b] = NoCheck => access'[b] = "none"
        BY <1>1 DEF AgentLedger
    <3> QED BY <1>2, <2>3 DEF AgentLedger, TypeInv
  <2> QED BY <2>2, <2>4, <2>5 DEF Reasons
<1>4. CASE access[a] # "none"
  <2>1. access' = access /\ UNCHANGED clientCache
        BY <1>4 DEF AnsweredByAgent, Fail, TypeInv
  <2>2. SessionLedger'
        BY <2>1, SessionLedgerKept
  <2>3. ASSUME NEW b \in Asks PROVE Reasoned(b)'
        BY <1>1, <2>1, ReasonedKept DEF Reasons
  <2>4. AgentLedger'
        BY <1>1, <2>1 DEF AgentLedger
  <2> QED BY <2>2, <2>3, <2>4 DEF Reasons
<1> QED BY <1>3, <1>4

LEMMA AgentAnswerKeeps ==
    ASSUME Step, NEW a \in Asks, AnsweredByAgent(a)
    PROVE  Ledger' /\ Reasons'
<1> USE DEF Step, Ledger
<1>0. check[a] # NoCheck /\ check[a] \in Check /\ check'[a] = check[a]
      BY DEF AnsweredByAgent, AgentAnswered, AgentLedger, TypeInv
<1>k. PICK k \in Keys : k = check[a].key
      BY <1>0 DEF Check
<1>1. AnswerTo(a)' = reply[a].data
      BY DEF AnsweredByAgent, AgentAnswered, AgentLedger, AnswerTo, agentVars
<1>2. PICK answer :
          /\ \/ answer \in clientDescriptions \cup LifePolicies /\ reply[a].data.policy = answer
             \/ answer = DENY /\ reply[a].data.form \in {"ERROR", "TIMEOUT"}
          /\ result'.status = "SUCCESS"
          /\ \/ /\ answer \in LifePolicies /\ Plugin!Update(k, answer)
                /\ result'.policy = IF answer = ALLOW_PER_LIFE THEN ALLOW ELSE DENY
             \/ answer \notin LifePolicies /\ UNCHANGED m_keyValue /\ result'.policy = answer
      BY <1>k, AnswerRead
<1>3. \/ answer \in clientDescriptions \cup LifePolicies /\ Given(a, answer)'
      \/ answer = DENY /\ Makeshift(check[a].proc, check[a].key)'
      BY <1>0, <1>1, <1>2 DEF Given, Makeshift
<1>4. CASE answer \in LifePolicies
  <2>1. PICK policy : /\ policy = IF answer = ALLOW_PER_LIFE THEN ALLOW ELSE DENY
                      /\ result'.status = "SUCCESS" /\ result'.policy = policy
        BY <1>2, <1>4
  <2>2. LifeBacked(k, answer)'
        BY <1>0, <1>k, <1>3, <1>4, PoliciesDiffer DEF LifeBacked
  <2>3. Justified(a, policy)'
    <3>1. LifeBacked(check[a].key, answer)'
          BY <1>0, <1>k, <2>2 DEF LifeBacked
    <3> QED BY <1>4, <2>1, <3>1 DEF Justified, LifePolicies
  <2>4. LifeLedger'
    <3> SUFFICES ASSUME NEW j \in Keys, m_keyValue'[j] # NoValue
                 PROVE  LifeBacked(j, m_keyValue[j])'
        BY DEF LifeLedger
    <3>1. CASE j = k /\ m_keyValue'[j] = answer
          BY <2>2, <3>1 DEF LifeBacked, Given
    <3>2. CASE m_keyValue'[j] = m_keyValue[j]
      <4>1. PICK v \in LifePolicies : v = m_keyValue[j]
            BY <3>2 DEF TypeInv
      <4>2. LifeBacked(j, v)'
            BY <3>2, <4>1, LifeBackedLasts DEF LifeLedger
      <4> QED BY <3>2, <4>1, <4>2 DEF LifeBacked, Given
    <3> QED BY <1>2, <1>4, <3>1, <3>2, UpdateIs DEF TypeInv
  <2> QED BY <2>1, <2>3, <2>4, AgentAnswersSuffices
<1>5. CASE answer \notin LifePolicies
  <2>1. Justified(a, answer)'
        BY <1>3, <1>5 DEF Justified
  <2>2. LifeLedger'
        BY <1>2, <1>5, LifeLedgerKept
  <2> QED BY <1>2, <1>5, <2>1, <2>2, AgentAnswersSuffices
<1> QED BY <1>4, <1>5

(* The other steps touch neither the processes nor, but for invalidate and *)
(* Forget, the caches.                                                     *)
LEMMA AgentSteps ==
    ASSUME Step,
           \/ \E a \in Asks : AgentConcludes(a) \/ \E o \in Outcomes : UserDecides(a, o)
           \/ \E a \in Asks : ResponseLost(a) \/ FormerAgentLost(a)
           \/ AgentEnds \/ AgentLost \/ AgentRestarts
    PROVE  Ledger' /\ Reasons'
<1> USE DEF Step, Ledger
<1>1. UNCHANGED <<check, access, clientCache, waiting, m_keyValue>>
      BY DEF AgentConcludes, ResponseLost, UserDecides, AgentEnds, AgentLost, FormerAgentLost,
         AgentRestarts, clientVars, pluginVars
<1>2. LifeLedger' /\ SessionLedger'
      BY <1>1, LifeLedgerKept, SessionLedgerKept
<1>3. ASSUME NEW a \in Asks, AgentConcludes(a)
      PROVE  AgentLedger' /\ Reasons'
  <2>1. PICK r \in Reply :
            /\ status[a] \in {"pending", "cancelling"}
            /\ r.type \in {"RT_Action", "RT_Cancel"}
            /\ r.type = "RT_Action" => r.data = Promised(verdict[a])
            /\ r.type = "RT_Cancel" => status[a] = "cancelling"
            /\ status' = [status EXCEPT ![a] = "replied"]
            /\ reply' = [reply EXCEPT ![a] = r]
            /\ UNCHANGED verdict
    <3>1. CASE Agent!Answer(a)
          BY <3>1, PromisedIs, SameWords DEF Agent!Answer, Agent!Respond, Agent!Waiting, Reply
    <3>2. CASE Agent!ConfirmCancel(a)
      <4>1. NoData \in PluginData
            BY SMT DEF NoData, PluginData, PolicyType
      <4> QED BY <3>2, <4>1, SameWords DEF Agent!ConfirmCancel, Agent!Respond, Reply
    <3> QED BY <1>3, <3>1, <3>2 DEF AgentConcludes
  <2>2. check[a] # NoCheck
        BY <2>1 DEF AgentLedger
  <2>3. AgentLedger'
    <3> SUFFICES ASSUME NEW b \in Asks
                 PROVE  /\ reply'[b].type # "none" => status'[b] = "replied"
                        /\ status'[b] = "replied" => reply'[b].type # "none"
                        /\ reply'[b].type = "RT_Action" => reply'[b].data = Promised(verdict[b])
                        /\ status'[b] = "cancelling" \/ reply'[b].type = "RT_Cancel"
                              => access[b] = "gone"
                        /\ check[b] = NoCheck =>
                              status'[b] = "unsent" /\ access[b] = "none" /\ b \notin waiting
        BY <1>1, <2>1 DEF AgentLedger
    <3>0. status \in [Asks -> Status] /\ reply \in [Asks -> Reply]
          BY DEF TypeInv
    <3>1. CASE b = a
      <4>1. status'[b] = "replied" /\ reply'[b] = r
            BY <2>1, <3>0, <3>1
      <4>2. verdict'[b] = verdict[b]
            BY <2>1
      <4>3. r.type = "RT_Cancel" => access[b] = "gone"
            BY <2>1, <3>1 DEF AgentLedger
      <4> QED BY <2>1, <2>2, <3>1, <4>1, <4>2, <4>3
    <3>2. CASE b # a
      <4>1. status'[b] = status[b] /\ reply'[b] = reply[b] /\ verdict'[b] = verdict[b]
            BY <2>1, <3>0, <3>2
      <4> QED BY <4>1 DEF AgentLedger
    <3> QED BY <3>1, <3>2
  <2>4. ASSUME NEW b \in Asks PROVE Reasoned(b)'
        BY <1>1, <2>1, ReasonedKept, SMT DEF Reasons, Reasoned, TypeInv
  <2> QED BY <2>3, <2>4 DEF Reasons
<1>4. ASSUME NEW a \in Asks, NEW o \in Outcomes, UserDecides(a, o)
      PROVE  AgentLedger' /\ Reasons'
  <2>1. /\ UNCHANGED <<status, reply>>
        /\ \A b \in Asks : reply[b].type = "RT_Action" => verdict'[b] = verdict[b]
        BY <1>4 DEF UserDecides, Agent!Decide, Lasting
  <2>2. AgentLedger'
        BY <1>1, <2>1 DEF AgentLedger
  <2> QED BY <1>1, <2>1, <2>2, ReasonedKept DEF Reasons
<1>5. CASE AgentLost \/ \E a \in Asks : FormerAgentLost(a)
  <2>1. PICK S : /\ status' = [a \in Asks |-> IF a \in S /\ status[a] \in {"pending", "cancelling"}
                                              THEN "lost" ELSE status[a]]
                 /\ UNCHANGED <<reply, verdict>>
        BY <1>5 DEF AgentLost, FormerAgentLost, Agent!EndChecks, Agent!Waiting
  <2>2. AgentLedger'
        BY <1>1, <2>1 DEF AgentLedger
  <2>3. ASSUME NEW b \in Asks PROVE Reasoned(b)'
        BY <1>1, <2>1, ReasonedKept DEF Reasons
  <2> QED BY <1>2, <2>2, <2>3 DEF Reasons
<1>6. CASE AgentEnds \/ AgentRestarts \/ \E a \in Asks : ResponseLost(a)
  <2>1. UNCHANGED <<status, reply, verdict>>
        BY <1>6 DEF AgentEnds, Agent!End, AgentRestarts, ResponseLost, Agent!Lose
  <2>2. AgentLedger'
        BY <1>1, <2>1 DEF AgentLedger
  <2>3. Reasons'
        BY <1>1, <2>1, ReasonedKept DEF Reasons
  <2> QED BY <1>2, <2>2, <2>3
<1> QED BY <1>2, <1>3, <1>4, <1>5, <1>6

LEMMA CacheSteps ==
    ASSUME Step,
           \/ \E p \in Procs, k \in Keys : Forget(p, k)
           \/ CynaraInvalidates
           \/ UNCHANGED vars
    PROVE  Ledger' /\ Reasons'
<1> USE DEF Step, Ledger
<1>1. UNCHANGED <<check, access, waiting, status, reply, verdict>>
      BY DEF Forget, CynaraInvalidates, vars, clientVars, agentVars
<1>2. AgentLedger'
      BY <1>1 DEF AgentLedger
<1>3. Reasons'
      BY <1>1, ReasonedKept DEF Reasons
<1>4. \A k \in Keys : m_keyValue'[k] \in {m_keyValue[k], NoValue}
      BY DEF Forget, CynaraInvalidates, Plugin!invalidate, Plugin!clear, vars, pluginVars
<1>5. \A p \in Procs, k \in Keys : clientCache'[p][k] \in {clientCache[p][k], NoEntry}
      BY DEF Forget, CynaraInvalidates, vars, clientVars, TypeInv
<1> QED BY <1>2, <1>3, <1>4, <1>5, LifeLedgerKept, SessionLedgerKept
-----------------------------------------------------------------------------
LEMMA SystemInit == Init => Ledger /\ Reasons
<1> SUFFICES ASSUME Init PROVE Ledger /\ Reasons
    OBVIOUS
<1> USE DEF Init, Agent!Init, Plugin!Init, Plugin!CacheInit
<1>1. NoData \in PluginData
      BY SMT DEF NoData, PluginData, PolicyType
<1>2. TypeInv
      BY <1>1, SameWords DEF TypeInv, Access, Status, Reply
<1>3. AgentLedger /\ LifeLedger /\ SessionLedger /\ Reasons
      BY SameWords DEF AgentLedger, LifeLedger, SessionLedger, Sound, Reasons, Reasoned
<1> QED BY <1>2, <1>3 DEF Ledger

LEMMA SystemNext == Ledger /\ Reasons /\ [Next]_vars => (Ledger /\ Reasons)'
<1> SUFFICES ASSUME Ledger, Reasons, [Next]_vars PROVE Ledger' /\ Reasons'
    OBVIOUS
<1>1. Step
      BY TypeNext DEF Step, Ledger
<1> QED BY <1>1, LibraryAnswers, PluginAnswers, CallIsSent, WithdrawnKeeps, AgentAnswerKeeps,
           AgentSteps, CacheSteps DEF Next

LEMMA SystemInvariant == Spec => [](Ledger /\ Reasons)
BY SystemInit, SystemNext, PTL DEF Spec

(* Access is allowed only where the user pressed a "yes" whose scope       *)
(* covers the check: from the button through the agent's contract, both    *)
(* plugins and both caches no decision is widened, whatever else happens   *)
(* in between.                                                             *)
THEOREM AllowsOnlyByUser == Spec => []AllowedOnlyByUser
<1>1. Reasons => AllowedOnlyByUser
      BY ReasonedIs DEF Reasons
<1> QED BY <1>1, SystemInvariant, PTL

(* Access is denied only where a "no" covers the check, or where a dialog  *)
(* of the same process about the key expired or could not be shown:        *)
(* whatever the client library keeps of that, the service plugin never     *)
(* gives it to another process.                                            *)
THEOREM DeniesForAReason == Spec => []DeniedForAReason
<1>1. Reasons => DeniedForAReason
      BY ReasonedIs DEF Reasons
<1> QED BY <1>1, SystemInvariant, PTL

(* A call fails only for want of an agent: the service plugin understands  *)
(* every answer of the agent, and the client every policy it gets.         *)
THEOREM FailsForWantOfAgent == Spec => []FailsOnlyWithoutAgent
<1>1. Reasons => FailsOnlyWithoutAgent
      BY ReasonedIs DEF Reasons
<1> QED BY <1>1, SystemInvariant, PTL
=============================================================================
