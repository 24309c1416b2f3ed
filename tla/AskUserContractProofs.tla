------------------------ MODULE AskUserContractProofs ------------------------
(***************************************************************************)
(* AskUserSystem step by step, for every set of calls, processes, sessions *)
(* and keys: as long as the client library forgets nothing by itself, a    *)
(* decision for the session is asked for once; the whole keeps the         *)
(* contract of AskUserContract; and what is proved of the service plugin   *)
(* by itself holds in the system, where it never holds cynara up.          *)
(***************************************************************************)
EXTENDS AskUserSystemProofs, FiniteSetTheorems

SessionPolicies == {ALLOW_PER_SESSION, DENY_PER_SESSION}
OncePolicies    == {ALLOW_ONCE, DENY_ONCE}

(* The steps that are no part of a call.                                   *)
AgentStep(a) == ResponseLost(a) \/ FormerAgentLost(a) \/ \E o \in Outcomes : UserDecides(a, o)

OtherStep ==
    \/ \E p \in Procs, k \in Keys : Forget(p, k)
    \/ CynaraInvalidates \/ AgentEnds \/ AgentLost \/ AgentRestarts \/ UNCHANGED vars

CallStep(a, c) ==
    AnsweredByLibrary(a, c) \/ AnsweredByPlugin(a, c) \/ SentToAgent(a, c) \/ NoAgentToAsk(a, c)

EndStep(a) == ProcessDies(a) \/ AnsweredByAgent(a) \/ EndsWithoutAnswer(a)

LEMMA StepIs ==
    ASSUME [Next]_vars
    PROVE  \/ \E a \in Asks, c \in Check : CallStep(a, c)
           \/ \E a \in Asks : EndStep(a) \/ AgentConcludes(a) \/ AgentStep(a)
           \/ OtherStep
BY DEF Next, CallStep, EndStep, AgentStep, OtherStep

LEMMA AgentStepIs ==
    ASSUME NEW a \in Asks, AgentStep(a)
    PROVE  /\ UNCHANGED <<check, access, clientCache, waiting, pluginVars, reply, alive>>
           /\ \A b \in Asks : status'[b] \in {status[b], "lost"} \/ status' = status
           /\ \A b \in Asks : reply[b].type = "RT_Action" => verdict'[b] = verdict[b]
<1>1. CASE ResponseLost(a)
      BY <1>1 DEF ResponseLost, Agent!Lose, clientVars
<1>2. CASE FormerAgentLost(a)
      BY <1>2 DEF FormerAgentLost, Agent!EndChecks, clientVars
<1>3. ASSUME NEW o \in Outcomes, UserDecides(a, o)
      PROVE  /\ UNCHANGED <<check, access, clientCache, waiting, pluginVars, reply, status, alive>>
             /\ \A b \in Asks : reply[b].type = "RT_Action" => verdict'[b] = verdict[b]
      BY <1>3 DEF UserDecides, Agent!Decide, clientVars
<1> QED BY <1>1, <1>2, <1>3 DEF AgentStep

LEMMA OtherStepIs ==
    ASSUME OtherStep
    PROVE  /\ UNCHANGED <<check, access, waiting, asking, reply, verdict>>
           /\ \A b \in Asks : status'[b] \in {status[b], "lost"} \/ status' = status
           /\ ~LibraryForgets => UNCHANGED clientCache
<1>1. CASE \E p \in Procs, k \in Keys : Forget(p, k)
      BY <1>1 DEF Forget, pluginVars, agentVars
<1>2. CASE CynaraInvalidates \/ AgentEnds \/ AgentRestarts \/ UNCHANGED vars
      BY <1>2 DEF CynaraInvalidates, Plugin!invalidate, AgentEnds, Agent!End, AgentRestarts, vars,
                  clientVars, agentVars, pluginVars
<1>3. CASE AgentLost
      BY <1>3 DEF AgentLost, Agent!EndChecks, clientVars, pluginVars
<1> QED BY <1>1, <1>2, <1>3 DEF OtherStep

LEMMA CallStepIs ==
    ASSUME AgentLedger, NEW a \in Asks, NEW c \in Check, CallStep(a, c)
    PROVE  /\ check[a] = NoCheck /\ Idle(c.proc) /\ check' = [check EXCEPT ![a] = c]
           /\ access[a] = "none" /\ status[a] = "unsent" /\ reply[a].type # "RT_Action"
           /\ access' = access \/ \E r : access' = [access EXCEPT ![a] = r]
           /\ UNCHANGED <<reply, verdict>>
<1>1. /\ Call(a, c) /\ UNCHANGED <<reply, verdict>>
      /\ access' = access \/ \E r : access' = [access EXCEPT ![a] = r]
      BY DEF CallStep, AnsweredByLibrary, AnsweredByPlugin, Receive, SentToAgent, NoAgentToAsk, Fail,
             Agent!Ask, agentVars
<1> QED BY <1>1 DEF Call, AgentLedger

LEMMA EndStepIs ==
    ASSUME NEW a \in Asks, EndStep(a)
    PROVE  /\ a \in waiting /\ UNCHANGED <<check, reply, verdict>>
           /\ waiting' \subseteq waiting
           /\ \/ access' = [access EXCEPT ![a] = IF @ = "none" THEN "failed" ELSE @]
              \/ access[a] = "none" /\ \E r : access' = [access EXCEPT ![a] = r]
BY DEF EndStep, ProcessDies, AnsweredByAgent, AgentAnswered, EndsWithoutAnswer, Receive, Fail,
       Agent!Cancel, agentVars

LEMMA ConcludesIs ==
    ASSUME NEW a \in Asks, AgentConcludes(a)
    PROVE  /\ UNCHANGED <<check, access, clientCache, waiting, pluginVars, verdict>>
           /\ status[a] \in {"pending", "cancelling"}
           /\ status' = [status EXCEPT ![a] = "replied"]
           /\ \E r : reply' = [reply EXCEPT ![a] = r]
BY DEF AgentConcludes, Agent!Answer, Agent!ConfirmCancel, Agent!Respond, Agent!Waiting, clientVars

(* What a call returned is what it returned.                               *)
LEMMA AccessIsFinal ==
    ASSUME TypeInv, AgentLedger, [Next]_vars, NEW b \in Asks, access[b] # "none"
    PROVE  access'[b] = access[b]
<1>1. ASSUME NEW a \in Asks, NEW c \in Check, CallStep(a, c)
      PROVE  access'[b] = access[b]
  <2>1. a # b /\ (access' = access \/ \E r : access' = [access EXCEPT ![a] = r])
        BY <1>1, CallStepIs
  <2> QED BY <2>1 DEF TypeInv
<1>2. ASSUME NEW a \in Asks, EndStep(a)
      PROVE  access'[b] = access[b]
  <2>1. \/ access' = [access EXCEPT ![a] = IF @ = "none" THEN "failed" ELSE @]
        \/ access[a] = "none" /\ \E r : access' = [access EXCEPT ![a] = r]
        BY <1>2, EndStepIs
  <2> QED BY <2>1 DEF TypeInv
<1>3. ASSUME UNCHANGED access PROVE access'[b] = access[b]
      BY <1>3
<1> QED BY <1>1, <1>2, <1>3, StepIs, ConcludesIs, AgentStepIs, OtherStepIs
-----------------------------------------------------------------------------
(***************************************************************************)
(* A call the agent still owes an answer has returned nothing, so the      *)
(* answer to a call that returned is final.                                *)
(***************************************************************************)
Blocked ==
    \A a \in Asks : status[a] \in {"pending", "cancelling"} => access[a] \in {"none", "gone"}

LEMMA BlockedNext ==
    ASSUME TypeInv, AgentLedger, Blocked, [Next]_vars
    PROVE  Blocked'
<1> USE DEF TypeInv
<1>1. ASSUME NEW a \in Asks, NEW c \in Check, CallStep(a, c)
      PROVE  Blocked'
  <2>1. access[a] = "none" /\ status[a] = "unsent"
        BY <1>1, CallStepIs
  <2>2. \/ UNCHANGED access /\ status' = [status EXCEPT ![a] = "pending"]
        \/ UNCHANGED status /\ \E r : access' = [access EXCEPT ![a] = r]
        BY <1>1 DEF CallStep, AnsweredByLibrary, AnsweredByPlugin, Receive, SentToAgent,
                    NoAgentToAsk, Fail, Agent!Ask, agentVars
  <2> QED BY <2>1, <2>2 DEF Blocked
<1>2. ASSUME NEW a \in Asks, ProcessDies(a)
      PROVE  Blocked'
  <2>1. access' = [access EXCEPT ![a] = "gone"]
        BY <1>2 DEF ProcessDies
  <2>2. status' = status \/ status' = [status EXCEPT ![a] = "cancelling"]
        BY <1>2 DEF ProcessDies, Agent!Cancel, agentVars
  <2> QED BY <2>1, <2>2 DEF Blocked
<1>3. ASSUME NEW a \in Asks, AnsweredByAgent(a) \/ EndsWithoutAnswer(a)
      PROVE  Blocked'
  <2>1. UNCHANGED status /\ status[a] \in {"replied", "lost"}
        BY <1>3 DEF AnsweredByAgent, AgentAnswered, EndsWithoutAnswer, agentVars
  <2>2. \E r : access' = [access EXCEPT ![a] = r]
        BY <1>3 DEF AnsweredByAgent, EndsWithoutAnswer, Receive, Fail
  <2> QED BY <2>1, <2>2 DEF Blocked
<1>4. ASSUME NEW a \in Asks, AgentConcludes(a)
      PROVE  Blocked'
  <2>1. UNCHANGED access /\ status' = [status EXCEPT ![a] = "replied"]
        BY <1>4, ConcludesIs
  <2> QED BY <2>1 DEF Blocked
<1>5. ASSUME UNCHANGED access, \A b \in Asks : status'[b] \in {status[b], "lost"} \/ status' = status
      PROVE  Blocked'
      BY <1>5 DEF Blocked
<1> QED BY <1>1, <1>2, <1>3, <1>4, <1>5, StepIs, AgentStepIs, OtherStepIs DEF EndStep

LEMMA AnswerIsFinal ==
    ASSUME TypeInv, AgentLedger, Lasting, Blocked, [Next]_vars, NEW b \in Asks, access[b] \in Result
    PROVE  AnswerTo(b)' = AnswerTo(b)
<1>1. CASE reply[b].type = "RT_Action"
      BY <1>1 DEF Lasting, AnswerTo
<1>2. CASE reply[b].type # "RT_Action"
  <2>1. reply'[b] = reply[b]
    <3>1. ASSUME NEW a \in Asks, AgentConcludes(a)
          PROVE  reply'[b] = reply[b]
      <4>1. /\ status[a] \in {"pending", "cancelling"}
            /\ \E r : reply' = [reply EXCEPT ![a] = r]
            BY <3>1, ConcludesIs
      <4>2. a # b
            BY <4>1 DEF Blocked, Result
      <4> QED BY <4>1, <4>2 DEF TypeInv
    <3>2. ASSUME UNCHANGED reply PROVE reply'[b] = reply[b]
          BY <3>2
    <3> QED BY <3>1, <3>2, StepIs, CallStepIs, EndStepIs, AgentStepIs, OtherStepIs
  <2> QED BY <1>2, <2>1 DEF AnswerTo
<1> QED BY <1>1, <1>2
-----------------------------------------------------------------------------
(***************************************************************************)
(* Decisions for the session.  One is kept by the library of the process   *)
(* until a check of another session puts something in its place, and so    *)
(* long no check of its session waits for the agent: a process makes one   *)
(* check at a time.                                                        *)
(***************************************************************************)
Held(b) ==
    LET entry == clientCache[check[b].proc][check[b].key]
    IN  isCacheable(entry.policy) /\ entry.session = check[b].session

Displaced(b) ==
    \E d \in Asks :
        MayBeKept(d) /\ SameCache(check[d], check[b]) /\ check[d].session # check[b].session

SessionKept == \A b \in Asks : DecidedForSession(b) => Held(b) \/ Displaced(b)

OneAtATime ==
    \A a, b \in Asks :
        /\ check[a] # NoCheck /\ access[a] = "none"
        /\ check[b] # NoCheck /\ access[b] = "none"
        /\ check[a].proc = check[b].proc
        => a = b

AskedAgain ==
    \A a \in waiting, b \in Asks :
        access[a] = "none" /\ DecidedForSession(b) /\ check[b] = check[a] => Displaced(b)

SessionInv == OneAtATime /\ SessionKept /\ AskedAgain

LEMMA DecisionLasts ==
    ASSUME TypeInv, AgentLedger, Lasting, Blocked, [Next]_vars, NEW b \in Asks, access[b] \in Result
    PROVE  /\ access'[b] = access[b] /\ check[b] \in Check /\ check'[b] = check[b]
           /\ DecidedForSession(b)' <=> DecidedForSession(b)
           /\ MayBeKept(b)' <=> MayBeKept(b)
<1>1. access'[b] = access[b]
      BY AccessIsFinal DEF Result
<1>2. check[b] # NoCheck /\ check[b] \in Check
      BY DEF AgentLedger, Result, TypeInv
<1> QED BY <1>1, <1>2, AnswerIsFinal DEF DecidedForSession, MayBeKept, Lasting

LEMMA DisplacedLasts ==
    ASSUME TypeInv, AgentLedger, Lasting, Blocked, [Next]_vars, NEW b \in Asks, access[b] \in Result,
           Displaced(b)
    PROVE  Displaced(b)'
<1>1. PICK d \in Asks :
          MayBeKept(d) /\ SameCache(check[d], check[b]) /\ check[d].session # check[b].session
      BY DEF Displaced
<1>2. MayBeKept(d)' /\ check'[d] = check[d] /\ check'[b] = check[b]
      BY <1>1, DecisionLasts DEF MayBeKept
<1> QED BY <1>1, <1>2 DEF Displaced, SameCache

(* What an answer of the agent leaves in the library's cache.              *)
Written(c, policy) ==
    clientCache' = [clientCache EXCEPT ![c.proc][c.key] =
                        [policy |-> policy, session |-> c.session]]

LEMMA AnswerIsKept ==
    ASSUME TypeInv, AgentLedger, NEW a \in Asks, AnsweredByAgent(a), access[a] = "none"
    PROVE  /\ AnswerTo(a)' = AnswerTo(a)
           /\ AnswerTo(a).policy \in SessionPolicies =>
                  Written(check[a], AnswerTo(a).policy)
           /\ \/ UNCHANGED clientCache
              \/ MayBeKept(a)' /\ \E policy : Written(check[a], policy)
<1>1. /\ AnswerTo(a)' = AnswerTo(a) /\ AnswerTo(a) = reply[a].data
      /\ reply[a].data = Promised(verdict[a])
      BY DEF AnsweredByAgent, AgentAnswered, AgentLedger, AnswerTo, agentVars
<1>2. PICK k \in Keys : k = check[a].key
  <2>1. check[a] \in Check
        BY DEF AnsweredByAgent, AgentAnswered, AgentLedger, TypeInv
  <2> QED BY <2>1 DEF Check
<1>3. PICK answer :
          /\ \/ /\ answer \in clientDescriptions \cup LifePolicies
                /\ reply[a].data.policy = answer
             \/ answer = DENY /\ reply[a].data.form \in {"ERROR", "TIMEOUT"}
          /\ result'.status = "SUCCESS"
          /\ \/ /\ answer \in LifePolicies
                /\ result'.policy = IF answer = ALLOW_PER_LIFE THEN ALLOW ELSE DENY
             \/ answer \notin LifePolicies /\ result'.policy = answer
      BY <1>2, AnswerRead
<1>4. Receive(a, check[a], result'.policy)
      BY <1>3 DEF AnsweredByAgent
<1>5. PICK v : v = AnswerTo(a).policy
      OBVIOUS
<1>6. PICK policy : policy = result'.policy
      OBVIOUS
<1>7. access'[a] = AccessOf(policy)
      BY <1>4, <1>6 DEF Receive, TypeInv
<1>8. UNCHANGED clientCache \/ Written(check[a], policy)
      BY <1>4, <1>6 DEF Receive, Keep, Written
<1>9. CASE v \in SessionPolicies
  <2>1. v # 0 /\ v \notin LifePolicies
        BY <1>9, SMT DEF SessionPolicies, LifePolicies, ALLOW_PER_SESSION, DENY_PER_SESSION,
                         ALLOW_PER_LIFE, DENY_PER_LIFE
  <2>2. policy = v
        BY <1>1, <1>3, <1>5, <1>6, <2>1, PromisedIs, Zenon DEF NoError
  <2>3. isCacheable(v) /\ v \in clientDescriptions /\ v \notin OncePolicies
        BY <1>9, SMT DEF SessionPolicies, isCacheable, clientDescriptions, OncePolicies, ALLOW_ONCE,
                         ALLOW_PER_SESSION, DENY_ONCE, DENY_PER_SESSION
  <2>4. Written(check[a], v)
        BY <1>4, <1>6, <2>2, <2>3 DEF Receive, Keep, Written
  <2>5. access'[a] \in Result
        BY <1>7, <2>2, <2>3, AccessOfIs, PoliciesDiffer, SMT DEF AccessOf
  <2> QED BY <1>1, <1>5, <2>3, <2>4, <2>5 DEF MayBeKept, OncePolicies
<1>10. CASE v \notin SessionPolicies /\ policy \in clientDescriptions
  <2>1. policy = v
        BY <1>1, <1>3, <1>5, <1>6, <1>10, PoliciesDiffer, Zenon
  <2>2. ~isCacheable(policy)
        BY <1>10, <2>1 DEF SessionPolicies, isCacheable
  <2>3. UNCHANGED clientCache
        BY <1>4, <1>6, <1>10, <2>2 DEF Receive, Keep
  <2> QED BY <1>1, <1>5, <1>10, <2>3
<1>11. CASE v \notin SessionPolicies /\ policy \notin clientDescriptions
  <2>1. policy \in {ALLOW, DENY}
        BY <1>3, <1>6, <1>11
  <2>2. access'[a] \in Result
        BY <1>7, <2>1, PoliciesDiffer, SMT DEF AccessOf, Result
  <2>3. v \notin OncePolicies
    <3>1. CASE v \in LifePolicies
          BY <3>1, PoliciesDiffer DEF OncePolicies, clientDescriptions
    <3>2. CASE v = 0
          BY <3>2, SMT DEF OncePolicies, ALLOW_ONCE, DENY_ONCE
    <3>3. v \in LifePolicies \/ v = 0
          BY <1>1, <1>3, <1>5, <1>6, <1>11, PromisedIs, Zenon DEF NoError
    <3> QED BY <3>1, <3>2, <3>3
  <2> QED BY <1>1, <1>5, <1>8, <1>11, <2>2, <2>3 DEF MayBeKept, OncePolicies
<1> QED BY <1>9, <1>10, <1>11

(* A new decision for the session is an answer of the agent.               *)
LEMMA DecisionIsNew ==
    ASSUME TypeInv, AgentLedger, Lasting, Blocked, [Next]_vars, NEW b \in Asks,
           DecidedForSession(b)', ~DecidedForSession(b)
    PROVE  AnsweredByAgent(b) /\ access[b] = "none"
<1>1. access[b] = "none" /\ access'[b] \in Result /\ access'[b] # access[b]
  <2>1. access[b] \notin Result /\ access'[b] \in Result
        BY DecisionLasts DEF DecidedForSession
  <2> QED BY <2>1, AccessIsFinal DEF Result
<1>2. AnswerTo(b)'.policy # 0
      BY SMT DEF DecidedForSession, ALLOW_PER_SESSION, DENY_PER_SESSION
<1>3. ASSUME NEW a \in Asks, NEW c \in Check, CallStep(a, c)
      PROVE  FALSE
  <2>1. a = b
        BY <1>1, <1>3, CallStepIs DEF TypeInv
  <2>2. reply'[b].type # "RT_Action"
        BY <1>3, <2>1, CallStepIs
  <2> QED BY <1>2, <2>2, SMT DEF AnswerTo, NoData
<1>4. ASSUME NEW a \in Asks, EndStep(a), ~AnsweredByAgent(b)
      PROVE  FALSE
  <2>1. a = b
        BY <1>1, <1>4, EndStepIs DEF TypeInv
  <2>2. access'[b] \in {"gone", "failed"}
        BY <1>1, <1>4, <2>1 DEF EndStep, ProcessDies, EndsWithoutAnswer, Fail, TypeInv
  <2> QED BY <1>1, <2>2 DEF Result
<1> QED BY <1>1, <1>3, <1>4, StepIs, ConcludesIs, AgentStepIs, OtherStepIs

LEMMA OneAtATimeNext ==
    ASSUME TypeInv, AgentLedger, Lasting, OneAtATime, [Next]_vars
    PROVE  OneAtATime'
<1> SUFFICES ASSUME NEW x \in Asks, NEW y \in Asks,
                    check'[x] # NoCheck, access'[x] = "none",
                    check'[y] # NoCheck, access'[y] = "none", check'[x].proc = check'[y].proc
             PROVE  x = y
    BY DEF OneAtATime
<1>1. access[x] = "none" /\ access[y] = "none"
      BY AccessIsFinal
<1>2. ASSUME NEW a \in Asks, NEW c \in Check, CallStep(a, c)
      PROVE  x = y
  <2>1. check' = [check EXCEPT ![a] = c] /\ Idle(c.proc)
        BY <1>2, CallStepIs
  <2>2. ASSUME NEW z \in Asks, z # a, check'[z] # NoCheck, check'[z].proc = c.proc, access[z] = "none"
        PROVE  FALSE
        BY <2>1, <2>2 DEF Idle, TypeInv
  <2>3. check'[a] = c
        BY <2>1 DEF TypeInv
  <2>4. CASE x = a \/ y = a
        BY <1>1, <2>2, <2>3, <2>4
  <2>5. CASE x # a /\ y # a
        BY <1>1, <2>1, <2>5 DEF OneAtATime, TypeInv
  <2> QED BY <2>4, <2>5
<1>3. ASSUME UNCHANGED check PROVE x = y
      BY <1>1, <1>3 DEF OneAtATime
<1> QED BY <1>2, <1>3, StepIs, EndStepIs, ConcludesIs, AgentStepIs, OtherStepIs

(* What puts something in the library's cache, and for whom.               *)
LEMMA CacheStep ==
    ASSUME TypeInv, AgentLedger, ~LibraryForgets, [Next]_vars, clientCache' # clientCache
    PROVE  \E a \in Asks, c \in Check :
               /\ c = check'[a] /\ MayBeKept(a)' /\ \E policy : Written(c, policy)
               /\ \/ Call(a, c) /\ ~MustUse(c)
                  \/ AnsweredByAgent(a) /\ access[a] = "none" /\ check[a] = c
<1>1. ASSUME NEW a \in Asks, NEW c \in Check, CallStep(a, c)
      PROVE  /\ c = check'[a] /\ MayBeKept(a)' /\ \E policy : Written(c, policy)
             /\ Call(a, c) /\ ~MustUse(c)
  <2>1. AnsweredByPlugin(a, c)
        BY <1>1 DEF CallStep, AnsweredByLibrary, SentToAgent, NoAgentToAsk, Fail
  <2>2. PICK policy \in {ALLOW, DENY} : Receive(a, c, policy)
        BY <2>1, HitRead
  <2>3. Written(c, policy)
        BY <2>2 DEF Receive, Keep, Written
  <2>4. access'[a] \in Result
    <3>1. access'[a] = AccessOf(policy)
          BY <2>2 DEF Receive, TypeInv
    <3> QED BY <3>1, PoliciesDiffer, SMT DEF AccessOf, Result
  <2>5. AnswerTo(a)' = NoData
        BY <1>1, CallStepIs DEF AnswerTo
  <2>6. NoData.policy \notin {ALLOW_ONCE, DENY_ONCE}
        BY SMT DEF NoData, ALLOW_ONCE, DENY_ONCE
  <2>7. check'[a] = c
        BY <1>1, CallStepIs DEF TypeInv
  <2> QED BY <2>1, <2>3, <2>4, <2>5, <2>6, <2>7 DEF MayBeKept, AnsweredByPlugin
<1>2. ASSUME NEW a \in Asks, EndStep(a)
      PROVE  \E c \in Check :
                 /\ c = check'[a] /\ MayBeKept(a)' /\ \E policy : Written(c, policy)
                 /\ AnsweredByAgent(a) /\ access[a] = "none" /\ check[a] = c
  <2>1. AnsweredByAgent(a) /\ access[a] = "none"
        BY <1>2 DEF EndStep, ProcessDies, EndsWithoutAnswer, AnsweredByAgent, Fail
  <2>2. check[a] \in Check /\ check'[a] = check[a]
        BY <1>2, EndStepIs DEF AgentLedger, TypeInv
  <2> QED BY <2>1, <2>2, AnswerIsKept
<1> QED BY <1>1, <1>2, StepIs, ConcludesIs, AgentStepIs, OtherStepIs

LEMMA HeldIsUsed ==
    ASSUME NEW b \in Asks, Held(b)
    PROVE  MustUse(check[b])
BY DEF Held, MustUse, Kept, isUsable, isCacheable, clientDescriptions

LEMMA SessionKeptNext ==
    ASSUME TypeInv, AgentLedger, Lasting, Blocked, SessionInv, ~LibraryForgets, [Next]_vars
    PROVE  SessionKept'
<1> SUFFICES ASSUME NEW b \in Asks, DecidedForSession(b)'
             PROVE  Held(b)' \/ Displaced(b)'
    BY DEF SessionKept
<1>1. ASSUME NEW c \in Check, NEW policy, Written(c, policy)
      PROVE  /\ \A p \in Procs, k \in Keys :
                    ~(p = c.proc /\ k = c.key) => clientCache'[p][k] = clientCache[p][k]
             /\ clientCache'[c.proc][c.key] = [policy |-> policy, session |-> c.session]
  <2>1. c.proc \in Procs /\ c.key \in Keys
        BY DEF Check
  <2>2. PICK e : e = [policy |-> policy, session |-> c.session]
        OBVIOUS
  <2>3. clientCache' = [clientCache EXCEPT ![c.proc][c.key] = e]
        BY <1>1, <2>2 DEF Written
  <2> QED BY <2>1, <2>2, <2>3, SMT DEF TypeInv
<1>2. CASE ~DecidedForSession(b)
  <2>1. AnsweredByAgent(b) /\ access[b] = "none"
        BY <1>2, DecisionIsNew
  <2>2. PICK c \in Check : c = check[b] /\ c = check'[b]
        BY <2>1 DEF AnsweredByAgent, AgentAnswered, AgentLedger, TypeInv
  <2>3. PICK v \in SessionPolicies : Written(c, v)
        BY <2>1, <2>2, AnswerIsKept DEF DecidedForSession, SessionPolicies
  <2>4. clientCache'[c.proc][c.key] = [policy |-> v, session |-> c.session]
        BY <1>1, <2>3
  <2> QED BY <2>2, <2>4 DEF Held, isCacheable, SessionPolicies
<1>3. CASE DecidedForSession(b) /\ Displaced(b)
      BY <1>3, DisplacedLasts DEF DecidedForSession
<1>4. CASE DecidedForSession(b) /\ Held(b) /\ ~Displaced(b)
  <2>1. check[b] \in Check /\ check'[b] = check[b]
        BY <1>4, DecisionLasts DEF DecidedForSession
  <2>2. CASE UNCHANGED clientCache
        BY <1>4, <2>1, <2>2 DEF Held
  <2>3. CASE clientCache' # clientCache
    <3>1. PICK a \in Asks, c \in Check :
              /\ c = check'[a] /\ MayBeKept(a)' /\ \E policy : Written(c, policy)
              /\ \/ Call(a, c) /\ ~MustUse(c)
                 \/ AnsweredByAgent(a) /\ access[a] = "none" /\ check[a] = c
          BY <2>3, CacheStep
    <3>2. CASE c = check[b]
      <4>1. ~(Call(a, c) /\ ~MustUse(c))
            BY <1>4, <3>2, HeldIsUsed
      <4>2. a \in waiting /\ access[a] = "none" /\ check[a] = check[b]
            BY <3>1, <3>2, <4>1 DEF AnsweredByAgent, AgentAnswered
      <4> QED BY <1>4, <4>2 DEF SessionInv, AskedAgain
    <3>3. CASE SameCache(c, check[b]) /\ c # check[b]
      <4>1. c.session # check[b].session
            BY <2>1, <3>3 DEF SameCache, Check
      <4> QED BY <2>1, <3>1, <3>3, <4>1 DEF Displaced
    <3>4. CASE ~SameCache(c, check[b])
      <4>1. PICK p \in Procs, k \in Keys : p = check[b].proc /\ k = check[b].key
            BY <2>1 DEF Check
      <4>2. clientCache'[p][k] = clientCache[p][k]
            BY <1>1, <3>1, <3>4, <4>1 DEF SameCache
      <4> QED BY <1>4, <2>1, <4>1, <4>2 DEF Held
    <3> QED BY <3>2, <3>3, <3>4
  <2> QED BY <2>2, <2>3
<1> QED BY <1>2, <1>3, <1>4 DEF SessionInv, SessionKept

(* A check that reaches the agent, or waits for it.                        *)
LEMMA WaitingIs ==
    ASSUME TypeInv, [Next]_vars, NEW a \in waiting', a \notin waiting
    PROVE  a \in Asks /\ \E c \in Check : SentToAgent(a, c)
<1>1. ASSUME NEW x \in Asks, NEW c \in Check, CallStep(x, c)
      PROVE  x = a /\ SentToAgent(a, c)
      BY <1>1 DEF CallStep, AnsweredByLibrary, AnsweredByPlugin, SentToAgent, NoAgentToAsk
<1> QED BY <1>1, StepIs, EndStepIs, ConcludesIs, AgentStepIs, OtherStepIs

LEMMA AskedAgainNext ==
    ASSUME TypeInv, AgentLedger, Lasting, Blocked, SessionInv, [Next]_vars
    PROVE  AskedAgain'
<1> SUFFICES ASSUME NEW a \in waiting', NEW b \in Asks,
                    access'[a] = "none", DecidedForSession(b)', check'[b] = check'[a]
             PROVE  Displaced(b)'
    BY DEF AskedAgain
<1>1. CASE a \in waiting
  <2>1. a \in Asks /\ check[a] # NoCheck /\ check'[a] = check[a] /\ access[a] = "none"
        BY <1>1, AccessIsFinal DEF AgentLedger, TypeInv, Lasting
  <2>2. CASE ~DecidedForSession(b)
    <3>1. AnsweredByAgent(b) /\ access[b] = "none"
          BY <2>2, DecisionIsNew
    <3>2. check[b] # NoCheck /\ check'[b] = check[b] /\ waiting' = waiting \ {b}
          BY <3>1 DEF AnsweredByAgent, AgentAnswered, AgentLedger
    <3> QED BY <2>1, <3>1, <3>2 DEF SessionInv, OneAtATime
  <2>3. CASE DecidedForSession(b)
    <3>1. check'[b] = check[b]
          BY <2>3, DecisionLasts DEF DecidedForSession
    <3>2. Displaced(b)
          BY <1>1, <2>1, <2>3, <3>1 DEF SessionInv, AskedAgain
    <3> QED BY <2>3, <3>2, DisplacedLasts DEF DecidedForSession
  <2> QED BY <2>2, <2>3
<1>2. CASE a \notin waiting
  <2>1. PICK c \in Check : a \in Asks /\ SentToAgent(a, c)
        BY <1>2, WaitingIs
  <2>2. check'[a] = c /\ ~MustUse(c)
        BY <2>1 DEF SentToAgent, Call, TypeInv
  <2>3. DecidedForSession(b)
    <3>1. ~AnsweredByAgent(b)
          BY <1>2, <2>1 DEF AnsweredByAgent, AgentAnswered
    <3> QED BY <3>1, DecisionIsNew
  <2>4. check[b] = c
        BY <2>2, <2>3, DecisionLasts DEF DecidedForSession
  <2>5. Displaced(b)
        BY <2>2, <2>3, <2>4, HeldIsUsed DEF SessionInv, SessionKept
  <2> QED BY <2>3, <2>5, DisplacedLasts DEF DecidedForSession
<1> QED BY <1>1, <1>2

LEMMA SessionInvariant ==
    ASSUME ~LibraryForgets
    PROVE  Spec => [](Ledger /\ Blocked /\ SessionInv)
<1>1. Init => Blocked /\ SessionInv
      BY DEF Init, Agent!Init, Blocked, SessionInv, SessionKept, OneAtATime, AskedAgain,
             DecidedForSession, Result
<1>2. Ledger /\ Blocked /\ SessionInv /\ [Next]_vars => (Blocked /\ SessionInv)'
      BY TypeNext, BlockedNext, OneAtATimeNext, SessionKeptNext, AskedAgainNext DEF Ledger, SessionInv
<1> QED BY <1>1, <1>2, SystemInvariant, PTL DEF Spec

(* A decision for the session is asked for once: as long as no check of    *)
(* another session put something in its place, no check of its key in that *)
(* session of the process reaches the agent again, however the other       *)
(* calls, the agents' ends and restarts interleave with them.              *)
THEOREM AsksOncePerSession ==
    ASSUME ~LibraryForgets
    PROVE  Spec => SessionIsAskedOnce
<1>1. ASSUME TypeInv, AgentLedger, Lasting, Blocked, SessionInv, [Next]_vars,
             NEW a \in waiting' \ waiting, NEW b \in Asks, DecidedForSession(b), check[b] = check'[a],
             \A d \in Asks : MayBeKept(d) /\ SameCache(check[d], check[b])
                                 => check[d].session = check[b].session
      PROVE  FALSE
  <2>1. PICK c \in Check : a \in Asks /\ SentToAgent(a, c)
        BY <1>1, WaitingIs
  <2>2. check[b] = c /\ ~MustUse(c)
        BY <1>1, <2>1 DEF SentToAgent, Call, TypeInv
  <2> QED BY <1>1, <2>2, HeldIsUsed DEF SessionInv, SessionKept, Displaced
<1>2. TypeInv /\ AgentLedger /\ Lasting /\ Blocked /\ SessionInv /\ [Next]_vars =>
          [\A a \in waiting' \ waiting :
               ~\E b \in Asks :
                   /\ DecidedForSession(b)
                   /\ check[b] = check'[a]
                   /\ \A d \in Asks :
                          MayBeKept(d) /\ SameCache(check[d], check[b])
                              => check[d].session = check[b].session]_vars
      BY <1>1
<1>3. Ledger /\ [Next]_vars => Lasting
      BY TypeNext DEF Ledger
<1> QED BY <1>2, <1>3, SessionInvariant, PTL DEF Spec, SessionIsAskedOnce, Ledger
-----------------------------------------------------------------------------
(***************************************************************************)
(* The service plugin in the system.  What it hears from the agent is one  *)
(* of the answers ServicePlugin reckons with, because the verdict about a  *)
(* check is always an outcome the user may choose.                         *)
(***************************************************************************)
VerdictInv == verdict \in [Asks -> Outcomes \cup {NoOutcome}]

LEMMA VerdictNext ==
    ASSUME VerdictInv, [Next]_vars
    PROVE  VerdictInv'
<1>1. ASSUME NEW a \in Asks, NEW o \in Outcomes, UserDecides(a, o)
      PROVE  VerdictInv'
      BY <1>1 DEF UserDecides, Agent!Decide, VerdictInv
<1>2. CASE UNCHANGED verdict
      BY <1>2 DEF VerdictInv
<1>3. ASSUME ~\E a \in Asks, o \in Outcomes : UserDecides(a, o)
      PROVE  UNCHANGED verdict
      BY <1>3 DEF Next, AnsweredByLibrary, AnsweredByPlugin, SentToAgent, Agent!Ask, NoAgentToAsk,
                  ProcessDies, Agent!Cancel, AnsweredByAgent, EndsWithoutAnswer, AgentConcludes,
                  Agent!Answer, Agent!ConfirmCancel, Agent!Respond, Forget, CynaraInvalidates,
                  AgentEnds, Agent!End, AgentLost, FormerAgentLost, Agent!EndChecks, ResponseLost,
                  Agent!Lose, AgentRestarts, vars, agentVars
<1> QED BY <1>1, <1>2, <1>3

LEMMA PluginStep ==
    ASSUME TypeInv, AgentLedger, VerdictInv, [Next]_vars
    PROVE  [Plugin!Next]_(Plugin!vars)
<1> USE DEF Plugin!Next
<1>1. ASSUME NEW a \in Asks, NEW c \in Check, AnsweredByPlugin(a, c) \/ SentToAgent(a, c)
      PROVE  Plugin!Next
  <2>1. c.key \in Keys
        BY DEF Check
  <2> QED BY <1>1, <2>1 DEF AnsweredByPlugin, SentToAgent
<1>2. ASSUME NEW a \in Asks, AnsweredByAgent(a) \/ EndsWithoutAnswer(a)
      PROVE  Plugin!Next
  <2>1. PICK k \in Keys : k = check[a].key
    <3>1. check[a] \in Check
          BY <1>2 DEF AnsweredByAgent, AgentAnswered, EndsWithoutAnswer, AgentLedger, TypeInv
    <3> QED BY <3>1 DEF Check
  <2>2. CASE EndsWithoutAnswer(a)
        BY <2>1, <2>2 DEF EndsWithoutAnswer
  <2>3. CASE AnsweredByAgent(a)
    <3>1. reply[a].data \in AgentAnswers
          BY <2>3 DEF AnsweredByAgent, AgentAnswered, AgentLedger, VerdictInv, AgentAnswers
    <3>2. PICK data \in {FromAgent(d) : d \in AgentAnswers} : data = FromAgent(reply[a].data)
          BY <3>1
    <3> QED BY <2>1, <2>3, <3>2 DEF AnsweredByAgent, PluginUpdate
  <2> QED BY <1>2, <2>2, <2>3
<1>3. CASE CynaraInvalidates
      BY <1>3 DEF CynaraInvalidates
<1>4. CASE UNCHANGED pluginVars
      BY <1>4 DEF pluginVars, Plugin!vars, Plugin!cacheVars, Plugin!historyVars
<1>5. ASSUME ~CynaraInvalidates,
             ~\E a \in Asks, c \in Check : AnsweredByPlugin(a, c) \/ SentToAgent(a, c),
             ~\E a \in Asks : AnsweredByAgent(a) \/ EndsWithoutAnswer(a)
      PROVE  UNCHANGED pluginVars
      BY <1>5 DEF Next, AnsweredByLibrary, NoAgentToAsk, ProcessDies, AgentConcludes, UserDecides,
                  ResponseLost, Forget, AgentEnds, AgentLost, FormerAgentLost, AgentRestarts, vars
<1> QED BY <1>1, <1>2, <1>3, <1>4, <1>5

LEMMA VerdictInvariant == Spec => []VerdictInv
<1>1. Init => VerdictInv
      BY SameWords DEF Init, Agent!Init, VerdictInv
<1>2. VerdictInv /\ [Next]_vars => VerdictInv'
      BY VerdictNext
<1> QED BY <1>1, <1>2, PTL DEF Spec

(* What ServicePlugin says of the order of calls holds in the system.      *)
LEMMA UsesServicePlugin == Spec => Plugin!Spec
<1>1. Init => Plugin!Init
      BY DEF Init
<1>2. Ledger /\ VerdictInv /\ [Next]_vars => [Plugin!Next]_(Plugin!vars)
      BY PluginStep DEF Ledger
<1> QED BY <1>1, <1>2, SystemInvariant, VerdictInvariant, PTL DEF Spec, Plugin!Spec
-----------------------------------------------------------------------------
(***************************************************************************)
(* The contract.  A call whose own dialog was answered returns what that   *)
(* answer means, whatever is kept of other answers: it is waiting for just *)
(* this one, and none can come once it has returned.                       *)
(***************************************************************************)
YesPolicies == {ALLOW_ONCE, ALLOW_PER_SESSION, ALLOW_PER_LIFE}

Meaning(d) == IF d.policy \in YesPolicies THEN "ACCESS_ALLOWED" ELSE "ACCESS_DENIED"

Obeyed(a) ==
    access[a] \in Result /\ reply[a].type = "RT_Action" => access[a] = Meaning(reply[a].data)

AllObeyed == \A a \in Asks : Obeyed(a)

(* The answer of the agent, through the service plugin and the client.     *)
LEMMA AnswerIsObeyed ==
    ASSUME TypeInv, AgentLedger, NEW a \in Asks, AnsweredByAgent(a), access[a] = "none"
    PROVE  access'[a] \in Result => access'[a] = Meaning(reply[a].data)
<1> DEFINE data == FromAgent(reply[a].data)
<1>1. reply[a].data = Promised(verdict[a])
      BY DEF AnsweredByAgent, AgentAnswered, AgentLedger
<1>2. PICK v : v = reply[a].data.policy
      OBVIOUS
<1>3. PICK k : k = check[a].key /\ PluginUpdate(k, data)
      BY DEF AnsweredByAgent
<1>4. PICK answer : answer = dataToAnswer(data)
      OBVIOUS
<1>5. \/ answer = v /\ v \in clientDescriptions \cup LifePolicies
      \/ answer = DENY /\ v = 0
      BY <1>1, <1>2, <1>4, PromisedIs, DataToAnswerIs, Zenon DEF NoError
<1> HIDE DEF data
<1>6. CASE result'.status # "SUCCESS"
  <2>1. access'[a] = "failed"
        BY <1>6 DEF AnsweredByAgent, Fail, TypeInv
  <2> QED BY <2>1 DEF Result
<1>7. CASE result'.status = "SUCCESS"
  <2>1. access'[a] = AccessOf(result'.policy)
        BY <1>7 DEF AnsweredByAgent, Receive, TypeInv
  <2>2. CASE answer \in LifePolicies
    <3>1. answer = v
          BY <1>5, <2>2, SMT DEF LifePolicies, DENY, ALLOW_PER_LIFE, DENY_PER_LIFE
    <3>2. Plugin!UpdateForLife(k, data)
      <4>1. answer # Exception
            BY <2>2, SMT DEF LifePolicies, Exception, ALLOW_PER_LIFE, DENY_PER_LIFE
      <4> QED BY <1>3, <1>4, <2>2, <4>1, SameWords
                 DEF PluginUpdate, Plugin!UpdatePassesOn, Plugin!UpdateFails,
                     Plugin!InterpretedInService, LifePolicies
    <3>3. result'.policy = IF v = ALLOW_PER_LIFE THEN ALLOW ELSE DENY
          BY <1>4, <3>1, <3>2, SameWords DEF Plugin!UpdateForLife, Plugin!Returned, Plugin!Predefined
    <3>4. access'[a] = IF v = ALLOW_PER_LIFE THEN "ACCESS_ALLOWED" ELSE "ACCESS_DENIED"
          BY <2>1, <3>3, PoliciesDiffer DEF AccessOf
    <3>5. v \in YesPolicies <=> v = ALLOW_PER_LIFE
          BY <2>2, <3>1, SMT DEF YesPolicies, LifePolicies, ALLOW_ONCE, ALLOW_PER_SESSION,
                                 ALLOW_PER_LIFE, DENY_PER_LIFE
    <3> QED BY <1>2, <3>4, <3>5 DEF Meaning
  <2>3. CASE answer \notin LifePolicies
    <3>1. result'.policy = answer
      <4>1. Plugin!UpdatePassesOn(k, data)
            BY <1>3, <1>4, <1>7, <2>3, SameWords
               DEF PluginUpdate, Plugin!UpdateForLife, Plugin!UpdateFails, Plugin!Returned,
                   Plugin!InterpretedInService, LifePolicies
      <4> QED BY <1>4, <4>1, SameWords DEF Plugin!UpdatePassesOn, Plugin!Returned
    <3>2. CASE answer = DENY /\ v = 0
      <4>1. access'[a] = "ACCESS_DENIED"
            BY <2>1, <3>1, <3>2, PoliciesDiffer DEF AccessOf
      <4>2. v \notin YesPolicies
            BY <3>2, SMT DEF YesPolicies, ALLOW_ONCE, ALLOW_PER_SESSION, ALLOW_PER_LIFE
      <4> QED BY <1>2, <4>1, <4>2 DEF Meaning
    <3>3. CASE answer = v /\ v \in clientDescriptions
      <4>1. v # ALLOW /\ v # DENY
            BY <3>3, PoliciesDiffer
      <4>2. access'[a] = toResult(v)
            BY <2>1, <3>1, <3>3, <4>1 DEF AccessOf
      <4>3. v \in YesPolicies <=> v \in {ALLOW_ONCE, ALLOW_PER_SESSION}
            BY <3>3, PoliciesDiffer DEF YesPolicies, LifePolicies
      <4> QED BY <1>2, <4>2, <4>3 DEF Meaning, toResult
    <3> QED BY <1>5, <2>3, <3>2, <3>3
  <2> QED BY <2>2, <2>3
<1> QED BY <1>6, <1>7

LEMMA ObeyedNext ==
    ASSUME TypeInv, AgentLedger, Blocked, AllObeyed, [Next]_vars
    PROVE  AllObeyed'
<1> SUFFICES ASSUME NEW b \in Asks, access'[b] \in Result, reply'[b].type = "RT_Action"
             PROVE  access'[b] = Meaning(reply'[b].data)
    BY DEF AllObeyed, Obeyed
<1>0. ASSUME UNCHANGED <<access, reply>> PROVE access'[b] = Meaning(reply'[b].data)
      BY <1>0 DEF AllObeyed, Obeyed
<1>1. ASSUME NEW a \in Asks, NEW c \in Check, CallStep(a, c)
      PROVE  access'[b] = Meaning(reply'[b].data)
  <2>1. UNCHANGED reply /\ reply[a].type # "RT_Action"
        BY <1>1, CallStepIs
  <2>2. a # b /\ (access' = access \/ \E r : access' = [access EXCEPT ![a] = r])
        BY <1>1, <2>1, CallStepIs
  <2>3. access'[b] = access[b]
        BY <2>2 DEF TypeInv
  <2> QED BY <2>1, <2>3 DEF AllObeyed, Obeyed
<1>2. ASSUME NEW a \in Asks, EndStep(a)
      PROVE  access'[b] = Meaning(reply'[b].data)
  <2>1. UNCHANGED reply
        BY <1>2, EndStepIs
  <2>2. CASE a = b /\ access[a] = "none" /\ AnsweredByAgent(a)
        BY <2>1, <2>2, AnswerIsObeyed
  <2>3. CASE access'[b] = access[b]
        BY <2>1, <2>3 DEF AllObeyed, Obeyed
  <2>4. CASE access'[b] # access[b] /\ ~AnsweredByAgent(a)
    <3>1. access'[b] \in {"gone", "failed"}
          BY <1>2, <2>4 DEF EndStep, ProcessDies, EndsWithoutAnswer, Fail, TypeInv
    <3> QED BY <3>1 DEF Result
  <2>5. access'[b] # access[b] => a = b /\ access[a] = "none"
        BY <1>2, EndStepIs DEF TypeInv
  <2> QED BY <2>2, <2>3, <2>4, <2>5
<1>3. ASSUME NEW a \in Asks, AgentConcludes(a)
      PROVE  access'[b] = Meaning(reply'[b].data)
  <2>1. /\ UNCHANGED access
        /\ status[a] \in {"pending", "cancelling"}
        /\ \E r : reply' = [reply EXCEPT ![a] = r]
        BY <1>3, ConcludesIs
  <2>2. a # b
        BY <2>1 DEF Blocked, Result
  <2> QED BY <2>1, <2>2 DEF AllObeyed, Obeyed, TypeInv
<1> QED BY <1>0, <1>1, <1>2, <1>3, StepIs, AgentStepIs, OtherStepIs

(* So every call that returned may return what it did: the reasons of      *)
(* AskUserSystemProofs are the contract's.                                 *)
AllDue == \A a \in Asks : access[a] # "none" => Contract!Due(a, access[a])

LEMMA SameContractWords ==
    /\ Contract!Yes = YesPolicies
    /\ Contract!No = {DENY_ONCE, DENY_PER_SESSION, DENY_PER_LIFE}
    /\ Contract!NoData = NoData
    /\ NoData.policy = 0 /\ 0 \notin Contract!Yes \cup Contract!No
<1> USE DEF Contract!ALLOW_ONCE, Contract!ALLOW_PER_SESSION, Contract!ALLOW_PER_LIFE,
            Contract!DENY_ONCE, Contract!DENY_PER_SESSION, Contract!DENY_PER_LIFE,
            ALLOW_ONCE, ALLOW_PER_SESSION, ALLOW_PER_LIFE, DENY_ONCE, DENY_PER_SESSION, DENY_PER_LIFE
<1>1. Contract!Yes = YesPolicies /\ Contract!No = {DENY_ONCE, DENY_PER_SESSION, DENY_PER_LIFE}
      BY DEF Contract!Yes, YesPolicies, Contract!No
<1>2. Contract!NoData = NoData /\ NoData.policy = 0
      BY DEF Contract!NoData, NoData
<1>3. 0 \notin Contract!Yes \cup Contract!No
      BY SMT DEF Contract!Yes, Contract!No
<1> QED BY <1>1, <1>2, <1>3

LEMMA CoversIs ==
    ASSUME NEW a \in Asks, NEW b \in Asks, Covers(b, a), a # b
    PROVE  Contract!HoldsFor(b, a)
BY DEF Covers, Contract!HoldsFor, Contract!ALLOW_PER_SESSION, Contract!DENY_PER_SESSION,
       Contract!ALLOW_PER_LIFE, Contract!DENY_PER_LIFE,
       ALLOW_PER_SESSION, DENY_PER_SESSION, ALLOW_PER_LIFE, DENY_PER_LIFE

LEMMA DueIs == TypeInv /\ AgentLedger /\ Reasons /\ AllObeyed => AllDue
<1> SUFFICES ASSUME TypeInv, AgentLedger, NEW a \in Asks, Reasoned(a), Obeyed(a), access[a] # "none"
             PROVE  Contract!Due(a, access[a])
    BY DEF Reasons, AllObeyed, AllDue
<1> USE DEF Contract!Due
<1>1. CASE access[a] \in Result /\ reply[a].type = "RT_Action"
  <2>1. AnswerTo(a) = reply[a].data
        BY <1>1 DEF AgentLedger, AnswerTo
  <2>2. access[a] = Meaning(AnswerTo(a))
        BY <1>1, <2>1 DEF Obeyed
  <2>3. AnswerTo(a) # NoData
    <3>1. AnswerTo(a).form \in {NoError, "ERROR", "TIMEOUT"}
          BY <1>1, PromisedIs DEF AnswerTo
    <3> QED BY <3>1 DEF NoData, NoError
  <2> QED BY <2>2, <2>3, SameContractWords DEF Meaning
<1>2. CASE access[a] \in Result /\ reply[a].type # "RT_Action"
  <2>1. AnswerTo(a) = NoData
        BY <1>2 DEF AnswerTo
  <2>2. CASE access[a] = "ACCESS_ALLOWED"
    <3>1. PICK b \in Asks : Covers(b, a) /\ AnswerTo(b).policy \in Contract!Yes
          BY <2>2, SameContractWords DEF Reasoned, Allowed, YesPolicies
    <3>2. a # b
          BY <2>1, <3>1, SameContractWords
    <3> QED BY <2>1, <2>2, <3>1, <3>2, CoversIs, SameContractWords DEF Contract!Said
  <2>3. CASE access[a] = "ACCESS_DENIED"
    <3>1. PICK b \in Asks :
              \/ Covers(b, a) /\ AnswerTo(b).policy \in Contract!No
              \/ SameCache(check[b], check[a]) /\ AnswerTo(b).form \in {"ERROR", "TIMEOUT"}
          BY <2>3, SameContractWords DEF Reasoned, Denied
    <3>2. CASE Covers(b, a) /\ AnswerTo(b).policy \in Contract!No
      <4>1. a # b
            BY <2>1, <3>2, SameContractWords
      <4> QED BY <2>1, <2>3, <3>2, <4>1, CoversIs, SameContractWords DEF Contract!Said
    <3>3. CASE SameCache(check[b], check[a]) /\ AnswerTo(b).form \in {"ERROR", "TIMEOUT"}
          BY <2>1, <2>3, <3>3, SameContractWords DEF SameCache, Contract!NothingSaid
    <3> QED BY <3>1, <3>2, <3>3
  <2> QED BY <1>2, <2>2, <2>3 DEF Result
<1>3. CASE access[a] = "failed"
  <2>1. reply[a].type # "RT_Action"
        BY <1>3 DEF Reasoned, AgentLedger
  <2> QED BY <1>3, <2>1, SameContractWords DEF AnswerTo
<1>4. CASE access[a] = "gone"
      BY <1>4
<1> QED BY <1>1, <1>2, <1>3, <1>4 DEF TypeInv, Access

LEMMA ReturnsAre ==
    ASSUME TypeInv', NEW a \in Asks, access'[a] # "none"
    PROVE  access'[a] \in Contract!Returns
BY DEF TypeInv, Access, Result, Contract!Returns

(* A new call of the library begins or returns at once.                    *)
LEMMA CallIsContractStep ==
    ASSUME TypeInv, AgentLedger, TypeInv', AllDue', NEW a \in Asks, NEW c \in Check,
           CallStep(a, c)
    PROVE  [Contract!Next]_(Contract!vars)
<1>1. check[a] = NoCheck /\ Contract!Call(a, c)
      BY CallStepIs DEF Contract!Call
<1>2. UNCHANGED [b \in Asks |-> AnswerTo(b)]
      BY CallStepIs DEF AnswerTo
<1>3. CASE UNCHANGED access
  <2>1. Contract!Begin(a, c)
        BY <1>1, <1>2, <1>3 DEF Contract!Begin
  <2> QED BY <2>1 DEF Contract!Next
<1>4. ASSUME NEW r, access' = [access EXCEPT ![a] = r], r # "none"
      PROVE  Contract!Next
  <2>1. access'[a] = r
        BY <1>4 DEF TypeInv
  <2>2. r \in Contract!Returns /\ Contract!Due(a, r)'
        BY <1>4, <2>1, ReturnsAre DEF AllDue
  <2>3. Contract!ReturnAtOnce(a, c, r)
        BY <1>1, <1>2, <1>4, <2>2 DEF Contract!ReturnAtOnce
  <2> QED BY <2>2, <2>3 DEF Contract!Next
<1>5. access[a] = "none"
      BY <1>1 DEF AgentLedger
<1>6. CASE SentToAgent(a, c)
      BY <1>3, <1>6 DEF SentToAgent
<1>7. CASE NoAgentToAsk(a, c)
      BY <1>4, <1>5, <1>7 DEF NoAgentToAsk, Fail
<1>8. CASE AnsweredByLibrary(a, c)
  <2>1. PICK r \in Result \cup {"failed"} : access' = [access EXCEPT ![a] = r]
        BY <1>8, AccessOfIs DEF AnsweredByLibrary
  <2> QED BY <1>4, <2>1 DEF Result
<1>9. CASE AnsweredByPlugin(a, c)
  <2>1. PICK r \in Result \cup {"failed"} : access' = [access EXCEPT ![a] = r]
        BY <1>9, AccessOfIs DEF AnsweredByPlugin, Receive
  <2> QED BY <1>4, <2>1 DEF Result
<1> QED BY <1>6, <1>7, <1>8, <1>9 DEF CallStep

(* A call that waited returns, or has returned already.                    *)
LEMMA EndIsContractStep ==
    ASSUME TypeInv, AgentLedger, TypeInv', AllDue', NEW a \in Asks,
           EndStep(a)
    PROVE  [Contract!Next]_(Contract!vars)
<1>1. check[a] # NoCheck /\ UNCHANGED check
      BY EndStepIs DEF AgentLedger
<1>2. UNCHANGED [b \in Asks |-> AnswerTo(b)]
      BY EndStepIs DEF AnswerTo
<1>3. \/ UNCHANGED access
      \/ /\ access[a] = "none"
         /\ \E r : access' = [access EXCEPT ![a] = r] /\ r # "none"
  <2>1. CASE ProcessDies(a)
    <3>1. PICK r \in {"gone"} : r # "none" /\ access[a] = "none" /\ access' = [access EXCEPT ![a] = r]
          BY <2>1 DEF ProcessDies
    <3> QED BY <3>1
  <2>2. CASE Fail(a)
    <3>1. CASE access[a] = "none"
      <4>1. PICK r \in {"failed"} : r # "none" /\ access' = [access EXCEPT ![a] = r]
            BY <2>2, <3>1 DEF Fail
      <4> QED BY <3>1, <4>1
    <3>2. CASE access[a] # "none"
          BY <2>2, <3>2 DEF Fail, TypeInv
    <3> QED BY <3>1, <3>2
  <2>3. CASE access[a] = "none" /\ \E policy : Receive(a, check[a], policy)
        BY <2>3, AccessOfIs DEF Receive, Result
  <2> QED BY <2>1, <2>2, <2>3 DEF EndStep, AnsweredByAgent, EndsWithoutAnswer
<1>4. CASE UNCHANGED access
      BY <1>1, <1>2, <1>4 DEF Contract!vars
<1>5. CASE access # access'
  <2>1. PICK r : access[a] = "none" /\ access' = [access EXCEPT ![a] = r] /\ r # "none"
        BY <1>3, <1>5
  <2>2. access'[a] = r
        BY <2>1 DEF TypeInv
  <2>3. r \in Contract!Returns /\ Contract!Due(a, r)'
        BY <2>1, <2>2, ReturnsAre DEF AllDue
  <2>4. Contract!Due(a, r)
        BY <1>1, <1>2, <2>3 DEF Contract!Due, Contract!Said, Contract!HoldsFor, Contract!NothingSaid
  <2>5. Contract!Return(a, r)
        BY <1>1, <1>2, <2>1, <2>4 DEF Contract!Return
  <2> QED BY <2>3, <2>5 DEF Contract!Next
<1> QED BY <1>4, <1>5

(* The agent's answer ends the dialog of a call that has not returned.     *)
LEMMA AnswerIsContractStep ==
    ASSUME TypeInv, AgentLedger, Blocked, VerdictInv, NEW a \in Asks, AgentConcludes(a)
    PROVE  [Contract!Next]_(Contract!vars)
<1>1. UNCHANGED <<check, access, verdict>> /\ status[a] \in {"pending", "cancelling"}
      BY ConcludesIs
<1>2. check[a] # NoCheck /\ access[a] \in {"none", "gone"} /\ reply[a].type # "RT_Action"
      BY <1>1 DEF AgentLedger, Blocked
<1>3. CASE Agent!Answer(a)
  <2> DEFINE d == Promised(verdict[a])
  <2>1. reply' = [reply EXCEPT ![a] = [type |-> "RT_Action", data |-> d]]
        BY <1>3, SameWords DEF Agent!Answer, Agent!Respond
  <2>2. AnswerTo(a) = Contract!NoData /\ AnswerTo(a)' = d
        BY <1>1, <1>2, <2>1 DEF AnswerTo, TypeInv, Contract!NoData, NoData
  <2>3. ASSUME NEW b \in Asks, b # a
        PROVE  AnswerTo(b)' = AnswerTo(b)
        BY <1>1, <2>1, <2>3 DEF AnswerTo, TypeInv
  <2>4. d \in AgentAnswers
        BY DEF VerdictInv, AgentAnswers
  <2> HIDE DEF d
  <2>5. [b \in Asks |-> AnswerTo(b)]' = [[b \in Asks |-> AnswerTo(b)] EXCEPT ![a] = d]
        BY <2>2, <2>3
  <2>6. Contract!DialogEnds(a, d)
        BY <1>1, <1>2, <2>2, <2>5 DEF Contract!DialogEnds
  <2> QED BY <2>4, <2>6 DEF Contract!Next
<1>4. CASE Agent!ConfirmCancel(a)
  <2>1. reply' = [reply EXCEPT ![a] = [type |-> "RT_Cancel", data |-> NoData]]
        BY <1>4, SameWords DEF Agent!ConfirmCancel, Agent!Respond
  <2>2. ASSUME NEW b \in Asks
        PROVE  AnswerTo(b)' = AnswerTo(b)
        BY <1>1, <1>2, <2>1 DEF AnswerTo, TypeInv
  <2> QED BY <1>1, <2>2 DEF Contract!vars
<1> QED BY <1>3, <1>4 DEF AgentConcludes

LEMMA OthersAreNoContractStep ==
    ASSUME AgentLedger, (\E a \in Asks : AgentStep(a)) \/ OtherStep
    PROVE  UNCHANGED Contract!vars
<1>1. UNCHANGED <<check, access>>
      BY AgentStepIs, OtherStepIs
<1>2. ASSUME NEW b \in Asks
      PROVE  AnswerTo(b)' = AnswerTo(b)
  <2>1. UNCHANGED reply /\ (reply[b].type = "RT_Action" => verdict'[b] = verdict[b])
        BY AgentStepIs, OtherStepIs
  <2> QED BY <2>1 DEF AnswerTo
<1> QED BY <1>1, <1>2 DEF Contract!vars

LEMMA ContractInvariant == Spec => [](Blocked /\ AllObeyed)
<1>1. Init => Blocked /\ AllObeyed
      BY DEF Init, Agent!Init, Blocked, AllObeyed, Obeyed, Result
<1>2. Ledger /\ Blocked /\ AllObeyed /\ [Next]_vars => (Blocked /\ AllObeyed)'
      BY BlockedNext, ObeyedNext DEF Ledger
<1> QED BY <1>1, <1>2, SystemInvariant, PTL DEF Spec

(* From end to end every call returns at most once: what the user said in  *)
(* its own dialog, whatever else was said; without a dialog, what the user *)
(* said elsewhere for its session or for life; or that there was nobody to *)
(* ask.  A dialog is answered at most once, and only while its call has    *)
(* not returned.                                                           *)
THEOREM KeepsAskUserContract == Spec => ImplementsAskUserContract
<1>1. Init => Contract!Init
      BY SameWords DEF Init, Agent!Init, AnswerTo, Contract!Init, Contract!NoData, NoData
<1>2. Ledger /\ Reasons /\ AllObeyed => TypeInv /\ AgentLedger /\ AllDue
      BY DueIs DEF Ledger
<1>3. /\ TypeInv /\ AgentLedger /\ Blocked /\ VerdictInv
      /\ TypeInv' /\ AllDue'
      /\ [Next]_vars
      => [Contract!Next]_(Contract!vars)
      BY CallIsContractStep, EndIsContractStep, AnswerIsContractStep, OthersAreNoContractStep, StepIs
<1> QED BY <1>1, <1>2, <1>3, SystemInvariant, VerdictInvariant, ContractInvariant, PTL
           DEF Spec, ImplementsAskUserContract, Contract!Spec
-----------------------------------------------------------------------------
(***************************************************************************)
(* What ServicePluginProofs shows of the plugin by itself, for the plugin  *)
(* in the system: the answers it hears and the number of checks of one key *)
(* at once meet the assumptions of ServicePlugin.                          *)
(***************************************************************************)
Proved == INSTANCE ServicePluginProofs WITH
              Values <- {ALLOW_PER_LIFE, DENY_PER_LIFE},
              Answers <- {FromAgent(d) : d \in AgentAnswers},
              MaxAsking <- Cardinality(Asks)

LEMMA PluginAssumptions ==
    /\ {FromAgent(d) : d \in AgentAnswers} \subseteq Proved!AgentData
    /\ {ALLOW_PER_LIFE, DENY_PER_LIFE} = {Proved!ALLOW_PER_LIFE, Proved!DENY_PER_LIFE}
    /\ Cardinality(Asks) \in Nat
<1>1. {FromAgent(d) : d \in AgentAnswers} \subseteq Proved!AgentData
  <2>1. ASSUME NEW v \in clientDescriptions \cup LifePolicies \cup {0} PROVE v \in Int
        BY <2>1, SMT DEF clientDescriptions, LifePolicies, ALLOW_ONCE, ALLOW_PER_SESSION,
                         ALLOW_PER_LIFE, DENY_ONCE, DENY_PER_SESSION, DENY_PER_LIFE
  <2>2. ASSUME NEW o PROVE FromAgent(Promised(o)) \in Proved!AgentData
    <3>1. Promised(o).form \in {NoError, "ERROR", "TIMEOUT"}
          BY PromisedIs
    <3>2. Promised(o).policy \in Int
          BY <2>1, PromisedIs
    <3> QED BY <3>1, <3>2 DEF FromAgent, Proved!AgentData, Proved!NoError, NoError
  <2> QED BY <2>2 DEF AgentAnswers
<1>2. {ALLOW_PER_LIFE, DENY_PER_LIFE} = {Proved!ALLOW_PER_LIFE, Proved!DENY_PER_LIFE}
      BY DEF ALLOW_PER_LIFE, DENY_PER_LIFE, Proved!ALLOW_PER_LIFE, Proved!DENY_PER_LIFE
<1>3. Cardinality(Asks) \in Nat
      BY AsksAssumption, FS_CardinalityType
<1> QED BY <1>1, <1>2, <1>3

LEMMA SamePlugin ==
    /\ Plugin!Init <=> Proved!Init
    /\ Plugin!Next <=> Proved!Next
    /\ Plugin!TypeOK <=> Proved!TypeOK
<1> USE DEF Plugin!cacheVars, Proved!cacheVars, Plugin!historyVars, Proved!historyVars
<1>1. /\ Plugin!ALLOW = Proved!ALLOW
      /\ Plugin!DENY = Proved!DENY
      /\ Plugin!ALLOW_PER_LIFE = Proved!ALLOW_PER_LIFE
      /\ Plugin!DENY_PER_LIFE = Proved!DENY_PER_LIFE
      /\ Plugin!Exception = Proved!Exception
      /\ Plugin!NoKey = Proved!NoKey
      BY DEF Plugin!ALLOW, Proved!ALLOW, Plugin!DENY, Proved!DENY, Plugin!ALLOW_PER_LIFE,
         Proved!ALLOW_PER_LIFE, Plugin!DENY_PER_LIFE, Proved!DENY_PER_LIFE,
         Plugin!Exception, Proved!Exception, Plugin!NoKey, Proved!NoKey
<1>2. Plugin!Init <=> Proved!Init
      BY <1>1 DEF Plugin!Init, Proved!Init, Plugin!CacheInit, Proved!CacheInit
<1>4. Plugin!TypeOK <=> Proved!TypeOK
  <2>1. Plugin!PolicyType = Proved!PolicyType
        BY SMT DEF Plugin!PolicyType, Proved!PolicyType
  <2>2. Plugin!CacheTypeOK <=> Proved!CacheTypeOK
        BY DEF Plugin!CacheTypeOK, Proved!CacheTypeOK
  <2>3. Plugin!Calls = Proved!Calls /\ Plugin!PluginStatus = Proved!PluginStatus
        BY DEF Plugin!Calls, Proved!Calls, Plugin!PluginStatus, Proved!PluginStatus
  <2> QED BY <1>1, <2>1, <2>2, <2>3 DEF Plugin!TypeOK, Proved!TypeOK
<1>5. \A k : Plugin!Cached(k) <=> Proved!Cached(k)
      BY DEF Plugin!Cached, Proved!Cached
<1>6. \A list, k : Plugin!MoveToFront(list, k) = Proved!MoveToFront(list, k)
      BY DEF Plugin!MoveToFront, Proved!MoveToFront, Plugin!Position, Proved!Position
<1>7. \A d : Plugin!dataToAnswer(d) = Proved!dataToAnswer(d)
      BY DEF Plugin!dataToAnswer, Proved!dataToAnswer, Plugin!maxPolicyType, Proved!maxPolicyType,
         Plugin!NoError, Proved!NoError, Plugin!ALLOW, Proved!ALLOW, Plugin!DENY, Proved!DENY,
         Plugin!Exception, Proved!Exception
<1>8. \A k : Plugin!Get(k) <=> Proved!Get(k)
      BY <1>5, <1>6 DEF Plugin!Get, Proved!Get
<1>9. \A k : Plugin!Use(k) <=> Proved!Use(k)
      BY <1>6 DEF Plugin!Use, Proved!Use
<1>10. \A c, k, s, p : Plugin!Returned(c, k, s, p) <=> Proved!Returned(c, k, s, p)
      BY DEF Plugin!Returned, Proved!Returned
<1>11. \A k, v : Plugin!Update(k, v) <=> Proved!Update(k, v)
  <2>1. Plugin!size = Proved!size
        BY DEF Plugin!size, Proved!size, Plugin!Cached, Proved!Cached,
               Plugin!Cardinality, Proved!Cardinality
  <2>2. \A u, m, k, v : Plugin!Store(u, m, k, v) <=> Proved!Store(u, m, k, v)
        BY <1>6 DEF Plugin!Store, Proved!Store
  <2>3. Plugin!UsageEvicted = Proved!UsageEvicted /\ Plugin!ValueEvicted = Proved!ValueEvicted
        BY DEF Plugin!UsageEvicted, Proved!UsageEvicted, Plugin!ValueEvicted, Proved!ValueEvicted
  <2> QED BY <2>1, <2>2, <2>3 DEF Plugin!Update, Proved!Update
<1>12. \A v : Plugin!Predefined(v) = Proved!Predefined(v)
      BY <1>1 DEF Plugin!Predefined, Proved!Predefined
<1>13. \A k : /\ Plugin!CheckHit(k) <=> Proved!CheckHit(k)
              /\ Plugin!CheckMiss(k) <=> Proved!CheckMiss(k)
              /\ Plugin!EndsWithoutUpdate(k) <=> Proved!EndsWithoutUpdate(k)
      BY <1>1, <1>5, <1>8, <1>9, <1>10, <1>12
         DEF Plugin!CheckHit, Proved!CheckHit, Plugin!CheckMiss, Proved!CheckMiss,
             Plugin!EndsWithoutUpdate, Proved!EndsWithoutUpdate, Plugin!Answered, Proved!Answered
<1>14. \A k, d : /\ Plugin!UpdateForLife(k, d) <=> Proved!UpdateForLife(k, d)
                 /\ Plugin!UpdatePassesOn(k, d) <=> Proved!UpdatePassesOn(k, d)
                 /\ Plugin!UpdateFails(k, d) <=> Proved!UpdateFails(k, d)
      BY <1>1, <1>7, <1>9, <1>10, <1>11, <1>12
         DEF Plugin!UpdateForLife, Proved!UpdateForLife, Plugin!UpdatePassesOn, Proved!UpdatePassesOn,
             Plugin!UpdateFails, Proved!UpdateFails, Plugin!Answered, Proved!Answered,
             Plugin!InterpretedInService, Proved!InterpretedInService
<1>15. Plugin!invalidate <=> Proved!invalidate
      BY <1>1, <1>10 DEF Plugin!invalidate, Proved!invalidate, Plugin!clear, Proved!clear
<1>16. Plugin!Next <=> Proved!Next
      BY <1>13, <1>14, <1>15 DEF Plugin!Next, Proved!Next
<1> QED BY <1>2, <1>4, <1>16

(* In the system, too, the cache of the service plugin holds the user's    *)
(* last decision for life, checks are answered from it by that decision,   *)
(* and no policy for life leaves the plugin.                               *)
THEOREM PluginInSystem ==
    Spec => [](/\ Plugin!TypeOK
               /\ Plugin!CacheIsCurrent
               /\ Plugin!ReadyAnswerIsLastDecision
               /\ Plugin!LifeStaysInService)
<1>1. Proved!Spec => []Proved!TypeOK
      BY PluginAssumptions, CapacityAssumption, NoValueAssumption, Proved!PluginTypeCorrect
<1>2. Proved!Spec => []Proved!CacheIsCurrent
      BY PluginAssumptions, CapacityAssumption, NoValueAssumption, Proved!CacheHoldsLastDecision
<1>3. Proved!Spec => []Proved!ReadyAnswerIsLastDecision
      BY PluginAssumptions, CapacityAssumption, NoValueAssumption, Proved!AnswersWithLastDecision
<1>4. Proved!Spec => []Proved!LifeStaysInService
      BY PluginAssumptions, CapacityAssumption, NoValueAssumption, Proved!KeepsLifeInService
<1>5. Plugin!Init => Proved!Init
      BY SamePlugin
<1>6. [Plugin!Next]_(Plugin!vars) => [Proved!Next]_(Proved!vars)
      BY SamePlugin DEF Plugin!vars, Proved!vars, Plugin!cacheVars, Proved!cacheVars,
                        Plugin!historyVars, Proved!historyVars
<1>7. Proved!TypeOK => Plugin!TypeOK
      BY SamePlugin
<1>8. Proved!CacheIsCurrent => Plugin!CacheIsCurrent
      BY DEF Plugin!CacheIsCurrent, Proved!CacheIsCurrent, Plugin!Cached, Proved!Cached
<1>9. Proved!ReadyAnswerIsLastDecision => Plugin!ReadyAnswerIsLastDecision
      BY DEF Plugin!ReadyAnswerIsLastDecision, Proved!ReadyAnswerIsLastDecision,
         Plugin!ALLOW, Proved!ALLOW, Plugin!DENY, Proved!DENY,
         Plugin!ALLOW_PER_LIFE, Proved!ALLOW_PER_LIFE
<1>10. Proved!LifeStaysInService => Plugin!LifeStaysInService
      BY DEF Plugin!LifeStaysInService, Proved!LifeStaysInService,
         Plugin!ALLOW_PER_LIFE, Proved!ALLOW_PER_LIFE, Plugin!DENY_PER_LIFE, Proved!DENY_PER_LIFE
<1> QED BY <1>1, <1>2, <1>3, <1>4, <1>5, <1>6, <1>7, <1>8, <1>9, <1>10, UsesServicePlugin, PTL
           DEF Plugin!Spec, Proved!Spec

LEMMA ChecksOfAgents == Spec => [](former \subseteq Asks /\ unheard \subseteq Asks)
<1> DEFINE Inv == former \subseteq Asks /\ unheard \subseteq Asks
<1>1. Init => Inv
      BY DEF Init, Agent!Init
<1>2. ASSUME Inv, [Next]_vars PROVE Inv'
  <2>1. ASSUME NEW a \in Asks, NEW c \in Check, CallStep(a, c)
        PROVE  UNCHANGED <<former, unheard>>
        BY <2>1 DEF CallStep, AnsweredByLibrary, AnsweredByPlugin, SentToAgent, Agent!Ask,
                    NoAgentToAsk, agentVars
  <2>2. ASSUME NEW a \in Asks, EndStep(a) \/ AgentConcludes(a)
        PROVE  UNCHANGED <<former, unheard>>
        BY <2>2 DEF EndStep, ProcessDies, Agent!Cancel, AnsweredByAgent, EndsWithoutAnswer,
                    AgentConcludes, Agent!Answer, Agent!ConfirmCancel, Agent!Respond, agentVars
  <2>3. ASSUME NEW a \in Asks, AgentStep(a)
        PROVE  former' \subseteq former /\ unheard' \subseteq unheard \cup {a}
        BY <2>3 DEF AgentStep, ResponseLost, Agent!Lose, FormerAgentLost, Agent!EndChecks,
                    UserDecides, Agent!Decide
  <2>4. CASE OtherStep
    <3>1. former' \subseteq former \cup Asks
          BY <2>4 DEF OtherStep, Forget, CynaraInvalidates, AgentEnds, AgentLost, AgentRestarts, vars
    <3>2. unheard' \subseteq unheard
          BY <2>4 DEF OtherStep, Forget, CynaraInvalidates, AgentEnds, Agent!End, AgentLost,
                      Agent!EndChecks, AgentRestarts, vars, agentVars
    <3> QED BY <1>2, <3>1, <3>2
  <2> QED BY <1>2, <2>1, <2>2, <2>3, <2>4, StepIs
<1> QED BY <1>1, <1>2, PTL DEF Spec

(* Every variable of the system keeps its type: cynara counts as many      *)
(* checks of a key that wait as there are, the plugin hands on nothing     *)
(* that does not fit a policy type, and the library keeps only policies of *)
(* the client.                                                             *)
THEOREM SystemTypeCorrect == Spec => []TypeOK
<1>1. Ledger /\ Plugin!TypeOK /\ former \subseteq Asks /\ unheard \subseteq Asks => TypeOK
      BY DEF Ledger, TypeInv, TypeOK
<1> QED BY <1>1, SystemInvariant, PluginInSystem, ChecksOfAgents, PTL
-----------------------------------------------------------------------------
(***************************************************************************)
(* The guards of ServicePlugin on the number of checks that wait stand for *)
(* what cynara does by itself: they hold wherever the system needs them.   *)
(***************************************************************************)
WaitingFor(k) == {a \in waiting : check[a].key = k}

AskingIsCounted == \A k \in Keys : asking[k] = Cardinality(WaitingFor(k))

(* Every check that waits is one the plugin reckons with, and a new call   *)
(* always finds room.                                                      *)
PluginIsReady ==
    /\ \A a \in waiting : asking[check[a].key] > 0
    /\ \A a \in Asks, k \in Keys : check[a] = NoCheck => asking[k] < Cardinality(Asks)

LEMMA WaitingForIsFinite ==
    ASSUME TypeInv, NEW k
    PROVE  IsFiniteSet(WaitingFor(k)) /\ Cardinality(WaitingFor(k)) \in Nat
<1>1. WaitingFor(k) \in SUBSET Asks
      BY DEF TypeInv, WaitingFor
<1> QED BY <1>1, AsksAssumption, FS_Subset, FS_CardinalityType

LEMMA AskingIsCountedNext ==
    ASSUME TypeInv, AgentLedger, Plugin!TypeOK, AskingIsCounted, [Next]_vars
    PROVE  AskingIsCounted'
<1> SUFFICES ASSUME NEW k \in Keys PROVE asking'[k] = Cardinality(WaitingFor(k)')
    BY DEF AskingIsCounted
<1>0. asking \in [Keys -> Nat]
  <2>1. Cardinality(Asks) \in Nat
        BY AsksAssumption, FS_CardinalityType
  <2> QED BY <2>1 DEF Plugin!TypeOK
<1>1. asking[k] = Cardinality(WaitingFor(k))
      BY DEF AskingIsCounted
<1>2. ASSUME UNCHANGED asking, WaitingFor(k)' = WaitingFor(k) PROVE asking'[k] = Cardinality(WaitingFor(k)')
      BY <1>1, <1>2
<1>3. ASSUME NEW a \in Asks, NEW c \in Check,
             AnsweredByLibrary(a, c) \/ AnsweredByPlugin(a, c) \/ NoAgentToAsk(a, c)
      PROVE  asking'[k] = Cardinality(WaitingFor(k)')
  <2>1. check[a] = NoCheck /\ check' = [check EXCEPT ![a] = c] /\ UNCHANGED <<waiting, asking>>
        BY <1>3 DEF AnsweredByLibrary, AnsweredByPlugin, NoAgentToAsk, Call, Plugin!CheckHit, pluginVars
  <2>2. a \notin waiting
        BY <2>1 DEF AgentLedger
  <2>3. WaitingFor(k)' = WaitingFor(k)
        BY <2>1, <2>2 DEF WaitingFor, TypeInv
  <2> QED BY <1>2, <2>1, <2>3
<1>4. ASSUME NEW a \in Asks, NEW c \in Check, SentToAgent(a, c)
      PROVE  asking'[k] = Cardinality(WaitingFor(k)')
  <2>1. /\ check[a] = NoCheck /\ check' = [check EXCEPT ![a] = c]
        /\ waiting' = waiting \cup {a}
        /\ asking' = [asking EXCEPT ![c.key] = @ + 1]
        BY <1>4 DEF SentToAgent, Call, Plugin!CheckMiss
  <2>2. a \notin waiting
        BY <2>1 DEF AgentLedger
  <2>3. CASE c.key = k
    <3>1. WaitingFor(k)' = WaitingFor(k) \cup {a} /\ a \notin WaitingFor(k)
          BY <2>1, <2>2, <2>3 DEF WaitingFor, TypeInv
    <3>2. Cardinality(WaitingFor(k)') = Cardinality(WaitingFor(k)) + 1
          BY <3>1, WaitingForIsFinite, FS_AddElement
    <3> QED BY <1>0, <1>1, <2>1, <2>3, <3>2
  <2>4. CASE c.key # k
    <3>1. WaitingFor(k)' = WaitingFor(k)
          BY <2>1, <2>2, <2>4 DEF WaitingFor, TypeInv
    <3> QED BY <1>0, <1>1, <2>1, <2>4, <3>1
  <2> QED BY <2>3, <2>4
<1>5. ASSUME NEW a \in Asks, AnsweredByAgent(a) \/ EndsWithoutAnswer(a)
      PROVE  asking'[k] = Cardinality(WaitingFor(k)')
  <2>1. /\ a \in waiting /\ UNCHANGED check
        /\ waiting' = waiting \ {a}
        /\ asking' = [asking EXCEPT ![check[a].key] = @ - 1]
        BY <1>5 DEF AnsweredByAgent, AgentAnswered, EndsWithoutAnswer, PluginUpdate,
           Plugin!UpdateForLife, Plugin!UpdatePassesOn, Plugin!UpdateFails,
           Plugin!EndsWithoutUpdate, Plugin!Answered
  <2>2. CASE check[a].key = k
    <3>1. WaitingFor(k)' = WaitingFor(k) \ {a} /\ a \in WaitingFor(k)
          BY <2>1, <2>2 DEF WaitingFor
    <3>2. Cardinality(WaitingFor(k)') = Cardinality(WaitingFor(k)) - 1
          BY <3>1, WaitingForIsFinite, FS_RemoveElement
    <3> QED BY <1>0, <1>1, <2>1, <2>2, <3>2
  <2>3. CASE check[a].key # k
    <3>1. WaitingFor(k)' = WaitingFor(k)
          BY <2>1, <2>3 DEF WaitingFor
    <3> QED BY <1>0, <1>1, <2>1, <2>3, <3>1
  <2> QED BY <2>2, <2>3
<1>6. ASSUME UNCHANGED <<check, waiting, asking>>
      PROVE  asking'[k] = Cardinality(WaitingFor(k)')
      BY <1>2, <1>6 DEF WaitingFor
<1>7. CASE \E a \in Asks : ProcessDies(a)
      BY <1>6, <1>7 DEF ProcessDies, pluginVars
<1>8. CASE (\E a \in Asks : AgentConcludes(a) \/ AgentStep(a)) \/ OtherStep
  <2>1. UNCHANGED <<check, waiting, asking>>
        BY <1>8, ConcludesIs, AgentStepIs, OtherStepIs DEF pluginVars
  <2> QED BY <1>6, <2>1
<1> QED BY <1>3, <1>4, <1>5, <1>7, <1>8, StepIs DEF CallStep, EndStep

(* No call waits for the plugin: a check that is answered, lost or         *)
(* withdrawn is always one it counts, and a check that misses its cache    *)
(* may always be sent to the agent.                                        *)
THEOREM PluginNeverHindersCynara == Spec => []PluginIsReady
<1>1. Init => AskingIsCounted
  <2>1. ASSUME Init, NEW k \in Keys PROVE asking[k] = Cardinality(WaitingFor(k))
    <3>1. WaitingFor(k) = {} /\ asking[k] = 0
          BY <2>1 DEF Init, Plugin!Init, WaitingFor
    <3> QED BY <3>1, FS_EmptySet
  <2> QED BY <2>1 DEF AskingIsCounted
<1>2. ASSUME TypeInv, AgentLedger, AskingIsCounted, NEW a \in waiting
      PROVE  asking[check[a].key] > 0
  <2>1. PICK k \in Keys : k = check[a].key
    <3>1. check[a] \in Check
          BY <1>2 DEF AgentLedger, TypeInv
    <3> QED BY <3>1 DEF Check
  <2>2. a \in WaitingFor(k)
        BY <2>1 DEF WaitingFor
  <2>3. Cardinality(WaitingFor(k)) # 0
        BY <1>2, <2>2, WaitingForIsFinite, FS_EmptySet
  <2> QED BY <1>2, <2>1, <2>3, WaitingForIsFinite DEF AskingIsCounted
<1>3. ASSUME TypeInv, AgentLedger, AskingIsCounted,
             NEW a \in Asks, NEW k \in Keys, check[a] = NoCheck
      PROVE  asking[k] < Cardinality(Asks)
  <2>1. WaitingFor(k) \in SUBSET (Asks \ {a})
        BY <1>3 DEF AgentLedger, TypeInv, WaitingFor
  <2>2. IsFiniteSet(Asks \ {a}) /\ Cardinality(Asks \ {a}) = Cardinality(Asks) - 1
        BY AsksAssumption, FS_RemoveElement
  <2>3. Cardinality(WaitingFor(k)) <= Cardinality(Asks \ {a})
        BY <2>1, <2>2, FS_Subset
  <2>4. Cardinality(Asks) \in Nat
        BY AsksAssumption, FS_CardinalityType
  <2> QED BY <1>3, <2>2, <2>3, <2>4, WaitingForIsFinite DEF AskingIsCounted
<1>4. Ledger /\ AskingIsCounted => PluginIsReady
      BY <1>2, <1>3 DEF Ledger, PluginIsReady
<1>5. Ledger /\ Plugin!TypeOK /\ AskingIsCounted /\ [Next]_vars => AskingIsCounted'
      BY AskingIsCountedNext DEF Ledger
<1> QED BY <1>1, <1>4, <1>5, SystemInvariant, PluginInSystem, PTL DEF Spec
=============================================================================
