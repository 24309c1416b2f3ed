---------------------------- MODULE AskUserSystem ----------------------------
(***************************************************************************)
(* askuser from end to end: processes that call cynara_check, the client   *)
(* library with ClientPlugin, cynara with the service plugin, and the      *)
(* agent, of which only its contract is used here.  What the code of this  *)
(* repository does not show of cynara and its client library is external:  *)
(* the library keeps what isCacheable allows and may forget it, and does   *)
(* what it likes with the policies no plugin describes; a process makes    *)
(* one check at a time, and cynara fails a check when there is no agent to *)
(* ask or the agent is lost.                                               *)
(***************************************************************************)
EXTENDS ClientPlugin, Translator, FiniteSets

CONSTANTS
    Asks,            \* calls of cynara_check
    Outcomes,        \* what the user may choose
    Procs,           \* client processes
    Sessions,        \* client session strings
    Keys,            \* client, user and privilege of a check
    NoValue,
    m_capacity,
    LibraryForgets   \* may the client library drop what it keeps?

ASSUME AsksAssumption     == IsFiniteSet(Asks)
ASSUME CapacityAssumption == m_capacity \in Nat
ASSUME ForgetsAssumption  == LibraryForgets \in BOOLEAN

VARIABLES
    check,        \* the arguments of each call and the process that makes it
    access,       \* what each call returned
    clientCache,  \* what the library of each process keeps for a key
    waiting,      \* calls for which cynara waits for the agent
    former,       \* those of them that an agent got which another one replaced
    m_keyUsage, m_keyValue, asking, result, lastLife, recent,  \* ServicePlugin
    status, reply, verdict, unheard, alive                     \* AgentContract

clientVars == <<check, access, clientCache>>
pluginVars == <<m_keyUsage, m_keyValue, asking, result, lastLife, recent>>
agentVars  == <<status, reply, verdict, unheard, alive>>
vars       == <<clientVars, waiting, former, pluginVars, agentVars>>

(* What the agent may answer, and the plugin data that is for the plugin.  *)
AgentAnswers == {Promised(o) : o \in Outcomes \cup {NoOutcome}}

FromAgent(d) == [form |-> d.form, number |-> d.policy]

Plugin == INSTANCE ServicePlugin WITH
              Values <- {ALLOW_PER_LIFE, DENY_PER_LIFE},
              Answers <- {FromAgent(d) : d \in AgentAnswers},
              MaxAsking <- Cardinality(Asks)

Agent == INSTANCE AgentContract

Check   == [proc : Procs, session : Sessions, key : Keys]
NoCheck == [proc |-> "none", session |-> "none", key |-> "none"]

ASSUME ProcsAssumption   == "none" \notin Procs
ASSUME SessionsAssumption == "none" \notin Sessions
ASSUME NoValueAssumption == NoValue \notin {ALLOW_PER_LIFE, DENY_PER_LIFE}

(* The policies that no plugin describes and the library knows itself.     *)
PredefinedPolicies == {ALLOW, DENY}

Entry   == [policy : {ALLOW_PER_SESSION, DENY_PER_SESSION} \cup PredefinedPolicies,
            session : Sessions]
NoEntry == [policy |-> DENY, session |-> "none"]

Result == {"ACCESS_ALLOWED", "ACCESS_DENIED"}

(* "failed" is an error code of cynara_check, "gone" a process that died.  *)
Access == Result \cup {"none", "failed", "gone"}

TypeOK ==
    /\ check \in [Asks -> Check \cup {NoCheck}]
    /\ access \in [Asks -> Access]
    /\ clientCache \in [Procs -> [Keys -> Entry \cup {NoEntry}]]
    /\ waiting \in SUBSET Asks
    /\ former \in SUBSET Asks
    /\ unheard \in SUBSET Asks
    /\ Plugin!TypeOK

Init ==
    /\ check = [a \in Asks |-> NoCheck]
    /\ access = [a \in Asks |-> "none"]
    /\ clientCache = [p \in Procs |-> [k \in Keys |-> NoEntry]]
    /\ waiting = {}
    /\ former = {}
    /\ Plugin!Init
    /\ Agent!Init
-----------------------------------------------------------------------------
(* The agent that runs is the one the check was sent to.                   *)
Serves(a) == alive /\ a \notin former
-----------------------------------------------------------------------------
(* The client library.                                                     *)
Idle(p) ==
    \A a \in Asks : check[a] # NoCheck /\ check[a].proc = p => access[a] \notin {"none", "gone"}

Kept(c) == clientCache[c.proc][c.key]

(* A policy that ClientPlugin describes is used again when isUsable says   *)
(* so; a predefined one as the library likes.                              *)
MustUse(c) ==
    /\ Kept(c).policy \in clientDescriptions
    /\ isUsable(c.session, Kept(c).session, Kept(c).policy)

MayUse(c) == MustUse(c) \/ (Kept(c) # NoEntry /\ Kept(c).policy \in PredefinedPolicies)

AccessOf(policy) ==
    CASE policy = ALLOW                 -> "ACCESS_ALLOWED"
      [] policy = DENY                  -> "ACCESS_DENIED"
      [] policy \in clientDescriptions  -> toResult(policy)
      [] OTHER                          -> "failed"

(* isCacheable is asked about the policies ClientPlugin describes; a       *)
(* predefined one is kept or not, as the library likes.                    *)
Keep(c, policy) ==
    \/ /\ policy \in clientDescriptions => isCacheable(policy)
       /\ clientCache' = [clientCache EXCEPT ![c.proc][c.key] =
                              [policy |-> policy, session |-> c.session]]
    \/ /\ ~isCacheable(policy)
       /\ UNCHANGED clientCache

(* cynara_check returns what policy means.                                 *)
Receive(a, c, policy) ==
    /\ access' = [access EXCEPT ![a] = AccessOf(policy)]
    /\ Keep(c, policy)

Fail(a) ==
    /\ access' = [access EXCEPT ![a] = IF @ = "none" THEN "failed" ELSE @]
    /\ UNCHANGED clientCache

Forget(p, k) ==
    /\ LibraryForgets
    /\ clientCache' = [clientCache EXCEPT ![p][k] = NoEntry]
    /\ UNCHANGED <<check, access, waiting, former, pluginVars, agentVars>>
-----------------------------------------------------------------------------
(* A call of cynara_check, up to where it is answered or waits for the     *)
(* agent: the caller is blocked and shares nothing with the others.        *)
Call(a, c) ==
    /\ check[a] = NoCheck
    /\ Idle(c.proc)
    /\ check' = [check EXCEPT ![a] = c]

AnsweredByLibrary(a, c) ==
    /\ Call(a, c)
    /\ MayUse(c)
    /\ access' = [access EXCEPT ![a] = AccessOf(Kept(c).policy)]
    /\ UNCHANGED <<clientCache, waiting, former, pluginVars, agentVars>>

AnsweredByPlugin(a, c) ==
    /\ Call(a, c)
    /\ ~MustUse(c)
    /\ Plugin!CheckHit(c.key)
    /\ Receive(a, c, result'.policy)
    /\ UNCHANGED <<waiting, former, agentVars>>

SentToAgent(a, c) ==
    /\ Call(a, c)
    /\ ~MustUse(c)
    /\ alive
    /\ Plugin!CheckMiss(c.key)
    /\ Agent!Ask(a)
    /\ waiting' = waiting \cup {a}
    /\ UNCHANGED <<access, clientCache, former>>

(* The plugin's miss changes nothing of the plugin's own.                  *)
NoAgentToAsk(a, c) ==
    /\ Call(a, c)
    /\ ~MustUse(c)
    /\ ~Plugin!Cached(c.key)
    /\ ~alive
    /\ Fail(a)
    /\ UNCHANGED <<waiting, former, pluginVars, agentVars>>

(* The process dies in a call: cynara withdraws the question.              *)
ProcessDies(a) ==
    /\ a \in waiting
    /\ access[a] = "none"
    /\ access' = [access EXCEPT ![a] = "gone"]
    /\ IF Serves(a) /\ status[a] = "pending" THEN Agent!Cancel(a) ELSE UNCHANGED agentVars
    /\ UNCHANGED <<check, clientCache, waiting, former, pluginVars>>
-----------------------------------------------------------------------------
(* Cynara and the answer of the agent.                                     *)
(* Mutant: only decisions for life are taken from the agent.               *)
PluginUpdateForLife(k, data) == Plugin!UpdateForLife(k, data)

PluginUpdate(k, data) ==
    \/ Plugin!UpdateForLife(k, data)
    \/ Plugin!UpdatePassesOn(k, data)
    \/ Plugin!UpdateFails(k, data)

AgentAnswered(a) ==
    a \in waiting /\ status[a] = "replied" /\ reply[a].type = "RT_Action"

AnsweredByAgent(a) ==
    /\ AgentAnswered(a)
    /\ waiting' = waiting \ {a}
    /\ PluginUpdate(check[a].key, FromAgent(reply[a].data))
    /\ IF access[a] = "none" /\ result'.status = "SUCCESS"
       THEN Receive(a, check[a], result'.policy)
       ELSE Fail(a)
    /\ UNCHANGED <<check, former, agentVars>>

(* The check ends without the plugin: withdrawn, the agent lost, or an     *)
(* answer that crossed the withdrawal and is dropped.                      *)
EndsWithoutAnswer(a) ==
    /\ a \in waiting
    /\ \/ status[a] = "lost"
       \/ status[a] = "replied" /\ reply[a].type = "RT_Cancel"
       \/ AgentAnswered(a) /\ access[a] = "gone"
    /\ waiting' = waiting \ {a}
    /\ Plugin!EndsWithoutUpdate(check[a].key)
    /\ Fail(a)
    /\ UNCHANGED <<check, former, agentVars>>

CynaraInvalidates ==
    /\ Plugin!invalidate
    /\ UNCHANGED <<clientVars, waiting, former, agentVars>>
-----------------------------------------------------------------------------
(* The agent, by its contract, and systemd.                                *)
AgentConcludes(a) ==
    /\ Serves(a)
    /\ Agent!Answer(a) \/ Agent!ConfirmCancel(a)
    /\ UNCHANGED <<clientVars, waiting, former, pluginVars>>

(* The response cannot be sent: cynara goes on waiting.                    *)
ResponseLost(a) ==
    /\ Serves(a)
    /\ Agent!Lose(a)
    /\ UNCHANGED <<clientVars, waiting, former, pluginVars>>

(* What is pressed in a dialog that outlives its check has no effect, see  *)
(* module Agent, and is left out.                                          *)
UserDecides(a, o) ==
    /\ Serves(a)
    /\ Agent!Waiting(a)
    /\ Agent!Decide(a, o)
    /\ UNCHANGED <<clientVars, waiting, former, pluginVars>>

AgentEnds ==
    /\ alive
    /\ Agent!End
    /\ UNCHANGED <<clientVars, waiting, former, pluginVars>>

(* Cynara notices that the connection of the agent is gone.                *)
AgentLost ==
    /\ \E a \in Asks \ former : Agent!Waiting(a)
    /\ Agent!EndChecks(Asks \ former)
    /\ UNCHANGED <<clientVars, waiting, former, pluginVars>>

(* The same for an agent that was replaced meanwhile, a check at a time.   *)
FormerAgentLost(a) ==
    /\ a \in former
    /\ Agent!EndChecks({a})
    /\ former' = former \ {a}
    /\ UNCHANGED <<clientVars, waiting, pluginVars>>

(* Restart=always: the new agent has a connection of its own and knows     *)
(* nothing of the checks of the old one, which cynara may still hold.      *)
AgentRestarts ==
    /\ ~alive
    /\ alive' = TRUE
    /\ former' = {a \in Asks : Agent!Waiting(a)}
    /\ UNCHANGED <<status, reply, verdict, unheard, clientVars, waiting, pluginVars>>
-----------------------------------------------------------------------------
Next ==
    \/ \E a \in Asks, c \in Check :
           \/ AnsweredByLibrary(a, c) \/ AnsweredByPlugin(a, c)
           \/ SentToAgent(a, c) \/ NoAgentToAsk(a, c)
    \/ \E a \in Asks :
           \/ ProcessDies(a) \/ AnsweredByAgent(a) \/ EndsWithoutAnswer(a)
           \/ AgentConcludes(a) \/ ResponseLost(a) \/ FormerAgentLost(a)
           \/ \E o \in Outcomes : UserDecides(a, o)
    \/ \E p \in Procs, k \in Keys : Forget(p, k)
    \/ CynaraInvalidates
    \/ AgentEnds \/ AgentLost \/ AgentRestarts

Spec == Init /\ [][Next]_vars

(***************************************************************************)
(* Fairness.  The agent concludes every check or fails to send a response  *)
(* to it (EveryAskConcluded of module Agent), cynara notices the loss of   *)
(* an agent that ended and handles what it gets.  Nothing is assumed of    *)
(* the user, the processes and systemd.                                    *)
(***************************************************************************)
FairSpec ==
    /\ Spec
    /\ \A a \in Asks :
           /\ WF_vars(AgentConcludes(a) \/ ResponseLost(a))
           /\ WF_vars(FormerAgentLost(a))
           /\ WF_vars(AnsweredByAgent(a) \/ EndsWithoutAnswer(a))
    /\ WF_vars(~alive /\ AgentLost)
-----------------------------------------------------------------------------
(* Properties.                                                             *)

(* What the user, or the expiry of the dialog, answered to a check.        *)
AnswerTo(b) == IF reply[b].type = "RT_Action" THEN Promised(verdict[b]) ELSE NoData

(* The scope the button promises: this time, this session of the process,  *)
(* or for life.                                                            *)
Covers(b, a) ==
    /\ check[b] # NoCheck
    /\ check[b].key = check[a].key
    /\ \/ a = b
       \/ /\ AnswerTo(b).policy \in {ALLOW_PER_SESSION, DENY_PER_SESSION}
          /\ check[b] = check[a]
       \/ AnswerTo(b).policy \in {ALLOW_PER_LIFE, DENY_PER_LIFE}

(* Access is allowed only where the user pressed a "yes" whose scope       *)
(* covers the check: through the agent, both plugins and both caches, no   *)
(* decision is widened, nor used for another key, process or session.      *)
AllowedOnlyByUser ==
    \A a \in Asks : access[a] = "ACCESS_ALLOWED" =>
        \E b \in Asks :
            /\ Covers(b, a)
            /\ AnswerTo(b).policy \in {ALLOW_ONCE, ALLOW_PER_SESSION, ALLOW_PER_LIFE}

SameCache(c, d) == c.proc = d.proc /\ c.key = d.key

(* Access is denied only where a "no" covers the check, or where a dialog  *)
(* expired or could not be shown: its own, or that of another check of the *)
(* key by the same process, whose plain DENY the library may keep.  Such a *)
(* makeshift denial never reaches another process, as it would from the    *)
(* cache of the service plugin.                                            *)
DeniedForAReason ==
    \A a \in Asks : access[a] = "ACCESS_DENIED" =>
        \E b \in Asks :
            \/ /\ Covers(b, a)
               /\ AnswerTo(b).policy \in {DENY_ONCE, DENY_PER_SESSION, DENY_PER_LIFE}
            \/ /\ SameCache(check[b], check[a])
               /\ AnswerTo(b).form \in {"ERROR", "TIMEOUT"}

(* A call fails only for want of an agent: whatever the agent answers      *)
(* comes to the client as a policy that the library or ClientPlugin knows. *)
FailsOnlyWithoutAgent ==
    \A a \in Asks : access[a] = "failed" => status[a] \in {"unsent", "lost"}

(* A decision for the session is asked for once: as long as the library    *)
(* keeps it, and no check of another session put something in its place,   *)
(* the next checks of the key in that session of the process do not reach  *)
(* the agent ("Press No session", then three checks denied, in             *)
(* test/askuser-test.sh).  Answers for once, which ClientPlugin does not   *)
(* let the library keep, put nothing in its place.                         *)
DecidedForSession(b) ==
    /\ access[b] \in Result
    /\ AnswerTo(b).policy \in {ALLOW_PER_SESSION, DENY_PER_SESSION}

MayBeKept(d) ==
    /\ access[d] \in Result
    /\ AnswerTo(d).policy \notin {ALLOW_ONCE, DENY_ONCE}

SessionIsAskedOnce ==
    [][\A a \in waiting' \ waiting :
           ~\E b \in Asks :
               /\ DecidedForSession(b)
               /\ check[b] = check'[a]
               /\ \A d \in Asks :
                      MayBeKept(d) /\ SameCache(check[d], check[b])
                          => check[d].session = check[b].session]_vars

(* From end to end: every call returns at most once, and only what the     *)
(* user said in a dialog whose scope covers it, or that there was nobody   *)
(* to ask; a dialog ends at most once.                                     *)
Contract == INSTANCE AskUserContract WITH
                Checks <- Check,
                Answers <- AgentAnswers,
                answer <- [a \in Asks |-> AnswerTo(a)]

ImplementsAskUserContract == Contract!Spec

(* Every call of cynara_check returns or its process dies, also when the   *)
(* agent is lost and started again while cynara waits for the old one: but *)
(* for a response that could not be sent, as long as its agent runs.       *)
EveryCallReturns ==
    \A a \in Asks : check[a] # NoCheck ~> access[a] # "none" \/ (Serves(a) /\ a \in unheard)
=============================================================================
