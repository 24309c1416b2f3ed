---------------------------- MODULE ServicePlugin ----------------------------
(***************************************************************************)
(* AskUserPlugin, the plugin of the cynara service: answers a check from   *)
(* its cache of decisions for life, or has cynara ask the agent, and       *)
(* translates the answer of the agent.  Cynara calls it from one thread;   *)
(* between check and update of one check it may make any other call.       *)
(***************************************************************************)
EXTENDS CapacityCache, Translator

CONSTANTS
    Answers,    \* the plugin data the agent may send
    MaxAsking   \* bound of the model: checks of one key that wait at the same time

ASSUME AnswersAssumption   == Answers \subseteq AgentData
ASSUME LifeAssumption      == Values = {ALLOW_PER_LIFE, DENY_PER_LIFE}
ASSUME MaxAskingAssumption == MaxAsking \in Nat

VARIABLES
    asking,    \* cynara: how many checks of each key wait for the agent
    result,    \* what the last call returned
    lastLife,  \* history: the last decision for life of each key since invalidate
    recent     \* history: the keys used since invalidate, the most recent first

historyVars == <<lastLife, recent>>
vars == <<cacheVars, asking, result, historyVars>>

Calls == {"none", "check", "update", "invalidate"}
PluginStatus == {"ANSWER_READY", "ANSWER_NOTREADY", "SUCCESS", "ERROR"}

NoKey == "no key"

Returned(call, k, status, policy) ==
    result' = [call |-> call, key |-> k, status |-> status, policy |-> policy]

Init ==
    /\ CacheInit
    /\ asking = [k \in Keys |-> 0]
    /\ result = [call |-> "none", key |-> NoKey, status |-> "SUCCESS", policy |-> DENY]
    /\ lastLife = [k \in Keys |-> NoValue]
    /\ recent = <<>>

(* History: k is the key used last.                                        *)
Use(k) ==
    recent' = IF \E i \in DOMAIN recent : recent[i] = k
              THEN MoveToFront(recent, k)
              ELSE <<k>> \o recent
-----------------------------------------------------------------------------
(* Mutant: only a denial is looked for.                                    *)
AllowUnlessOnce(value) == IF value = DENY_ONCE THEN DENY ELSE ALLOW

(* The predefined policy a decision for life becomes.                      *)
Predefined(value) == IF value = ALLOW_PER_LIFE THEN ALLOW ELSE DENY

CheckHit(k) ==
    /\ Cached(k)
    /\ Get(k)
    /\ Use(k)
    /\ Returned("check", k, "ANSWER_READY", Predefined(m_keyValue[k]))
    /\ UNCHANGED <<asking, lastLife>>

CheckMiss(k) ==
    /\ ~Cached(k)
    /\ Get(k)
    /\ asking[k] < MaxAsking
    /\ asking' = [asking EXCEPT ![k] = @ + 1]
    /\ Returned("check", k, "ANSWER_NOTREADY", DENY)
    /\ UNCHANGED historyVars

Answered(k) ==
    /\ asking[k] > 0
    /\ asking' = [asking EXCEPT ![k] = @ - 1]

(* Mutant: a denial for life is handed on like any other policy.           *)
KeptInService == {ALLOW_PER_LIFE}

InterpretedInService == {ALLOW_PER_LIFE, DENY_PER_LIFE}

(* update with a decision for life.                                        *)
UpdateForLife(k, data) ==
    /\ Answered(k)
    /\ dataToAnswer(data) \in InterpretedInService
    /\ Update(k, dataToAnswer(data))
    /\ lastLife' = [lastLife EXCEPT ![k] = dataToAnswer(data)]
    /\ Use(k)
    /\ Returned("update", k, "SUCCESS", Predefined(dataToAnswer(data)))

(* update with another policy, which cynara hands on to the client.        *)
UpdatePassesOn(k, data) ==
    /\ Answered(k)
    /\ dataToAnswer(data) \notin InterpretedInService \cup {Exception}
    /\ Returned("update", k, "SUCCESS", dataToAnswer(data))
    /\ UNCHANGED <<cacheVars, historyVars>>

UpdateFails(k, data) ==
    /\ Answered(k)
    /\ dataToAnswer(data) = Exception
    /\ Returned("update", k, "ERROR", DENY)
    /\ UNCHANGED <<cacheVars, historyVars>>

(* Cynara ends the check itself and calls no update.                       *)
EndsWithoutUpdate(k) ==
    /\ Answered(k)
    /\ UNCHANGED <<cacheVars, result, historyVars>>

invalidate ==
    /\ clear
    /\ lastLife' = [k \in Keys |-> NoValue]
    /\ recent' = <<>>
    /\ Returned("invalidate", NoKey, "SUCCESS", DENY)
    /\ UNCHANGED asking

Next ==
    \/ \E k \in Keys : CheckHit(k) \/ CheckMiss(k) \/ EndsWithoutUpdate(k)
    \/ \E k \in Keys, data \in Answers :
           UpdateForLife(k, data) \/ UpdatePassesOn(k, data) \/ UpdateFails(k, data)
    \/ invalidate

Spec == Init /\ [][Next]_vars
-----------------------------------------------------------------------------
(* Properties.                                                             *)

TypeOK ==
    /\ CacheTypeOK
    /\ asking \in [Keys -> 0 .. MaxAsking]
    /\ result \in [call : Calls, key : Keys \cup {NoKey}, status : PluginStatus, policy : PolicyType]
    /\ lastLife \in [Keys -> Values \cup {NoValue}]
    /\ recent \in Seq(Keys)

(* A check that is answered without the agent gets the user's last         *)
(* decision for life about that very key since invalidate: also when two   *)
(* checks of the key were asked at once and answered differently.          *)
ReadyAnswerIsLastDecision ==
    result.call = "check" /\ result.status = "ANSWER_READY" =>
        /\ lastLife[result.key] # NoValue
        /\ result.policy = IF lastLife[result.key] = ALLOW_PER_LIFE THEN ALLOW ELSE DENY

(* The cache never holds a decision the user has replaced, nor one from    *)
(* before invalidate.                                                      *)
CacheIsCurrent == \A k \in Keys : Cached(k) => m_keyValue[k] = lastLife[k]

(* No policy for life leaves the plugin, from the cache or straight from   *)
(* the agent: it "will never reach client, but will be interpreted in      *)
(* service plugin" (SupportedTypes.h).                                     *)
LifeStaysInService ==
    result.status # "ERROR" => result.policy \notin {ALLOW_PER_LIFE, DENY_PER_LIFE}

(* What is evicted is what was used longest ago: the cached keys are       *)
(* always the most recently used ones, in order of use.                    *)
EvictsLeastRecentlyUsed ==
    /\ Len(m_keyUsage) <= Len(recent)
    /\ m_keyUsage = SubSeq(recent, 1, Len(m_keyUsage))

(* An "LRU cache container" (its own description) forgets a key only to    *)
(* make room for another one: with n keys used it holds min(n, capacity).  *)
IsLruCache ==
    Len(m_keyUsage) = IF Len(recent) < m_capacity THEN Len(recent) ELSE m_capacity
=============================================================================
