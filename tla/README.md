# askuser: a verification project

askuser lets the user of a device decide, in a dialog, whether an application may
use a privilege. The access-control service cynara asks; a plugin inside cynara
hands the question to the agent, a daemon; the agent shows the dialog and sends
the answer back; plugins in the service and in the client's library interpret it.
This directory holds TLA+ models of that code, the TLC configurations that check
them and TLAPS proofs about them. Paths below are relative to the repository root.

## 1. The system

| Part | Source | State | Operations | Interacts with |
|---|---|---|---|---|
| Agent main thread | `src/agent/main/Agent.cpp`, `main.cpp` | `m_requests`, `m_UIs` (main thread only); `m_incomingRequests`, `m_incomingResponses` (under `m_mutex`); `m_stopFlag` | `run`, `finish`, `processCynaraRequest`, `processUIResponse`, `dismissUI`, `cleanupUIThreads`, `kill_handler` | talker and dialog threads through the two queues and `m_event`; cynara through `sendResponse` |
| Talker thread | `src/agent/main/CynaraTalker.cpp` | connection `m_cynara`, promise `m_threadFinished` | `run`, `start`, `stop`, `sendResponse` (called by the main thread) | cynara; calls `Agent::requestHandler` |
| Dialog threads, one per dialog | `src/agent/ui/AskUINotificationBackend.cpp` | `m_dismissing`, promise `m_threadFinished` | `start`, `run`, `dismiss` | the user; calls `Agent::UIResponseHandler` |
| Types, translator | `src/common` | none | `answerToData`, `dataToAnswer`, `requestToData`, `dataToRequest` | agent and both plugins |
| Service plugin, capacity cache | `src/plugin/service` | decisions "for life": a map and a usage list | `check`, `update`, `invalidate`; `get`, `update`, `evict`, `clear` | cynara |
| Client plugin | `src/plugin/client` | none (the client library caches) | `isCacheable`, `isUsable`, `toResult` | cynara's client library |
| Surroundings | `systemd`, `test`, `packaging`, `src/agent/log`, `po` | - | restart, manual tests, build, logging, wording | - |

What makes the code hard to get right:

* **Concurrency.** Three kinds of threads meet in two queues. The inner loop of
  `run` unlocks and relocks the mutex up to three times per pass, so requests and
  responses for one id cross in every order; `notify_one` reaches nobody when the
  main thread is not waiting, and there is no predicate on the wait.
* **Nothing can be interrupted.** Neither a dialog nor
  `cynara_agent_get_request` can be called off, so a cancelled dialog stays on
  the screen and answers later, and a stop may have to leave by `quick_exit`.
* **Failure.** The connection may break at any point, also between two steps of
  the main thread; `createUI` and the initialization may fail; a response may
  fail on a connection that stays up, and the result of `sendResponse` is ignored. An exception of the standard library is caught in
  three places far from where it is thrown: behind the loop of the talker, around
  the body of a dialog thread, and in `main`, which destroys the agent.
* **Restart.** systemd starts the agent again while cynara and its clients go on,
  and while cynara may still hold checks for the agent that ended.
* **Identity by number.** Requests, dialogs and responses are matched by the
  request id alone, which cynara chooses.
* **Tables kept in step by hand.** Button order, `respType`, and
  `UIResponseToPolicyType`.
* **Two checks of one key at once** reach the cache of the service plugin, which
  was written for keys that are new.
* **A decision has a scope**: this time, this session of this process, or for
  life. Each scope is kept by another part of the system, or by none, and three
  tables in three components have to agree about it.
* **Strings without an escape** are the cache key and the request data: names
  may contain the separators.

What makes each part correct: the agent gives each check at most one response,
the user's own answer to that very check, and forgets none that it did not try to
answer (`AgentContract` and the properties of `Agent`); the talker delivers in order and says last that it
ended; a dialog belongs to one request as long as that is accepted; the plugin
answers from its cache only what the user decided last; the cache evicts the
least recently used key; and from end to end access is allowed or denied only
where a decision of the user covers the check or a dialog went without one, and
every call returns as far as the agent's responses get through.
`PROJECT.json` lists the hazards line by line with the
properties aimed at them.

## 2. Modules

| Module | Models | Extends |
|---|---|---|
| `AskUserTypes` | enumerations; outcome of the dialog -> `UIResponseType` -> plugin data; and, for the properties only, `Promised`: what the words on a button mean | - |
| `Cynara` | external: the part of cynara the agent sees | `AskUserTypes` |
| `CynaraTalker` | talker thread and `sendResponse` | `Cynara` |
| `AskUINotificationBackend` | the dialog objects and threads | `Cynara` |
| `Agent` | the composition: main thread, handlers, queues, SIGTERM; all properties of the agent | `CynaraTalker`, `AskUINotificationBackend` |
| `AgentContract` | abstract: what the agent promises, without threads, queues, ids or dialogs | `AskUserTypes` |
| `AgentFaults` | fault model: `Agent` and the exceptions its code catches or dies of | `Agent` |
| `Translator` | `dataToAnswer` | `AskUserTypes` |
| `RequestFraming` | the hasher, `requestToData`, `dataToRequest`, on characters | - |
| `CapacityCache` | the cache and its usage list | - |
| `ServicePlugin` | `check`, `update`, `invalidate`, interleaved as cynara may | `CapacityCache`, `Translator` |
| `ClientPlugin` | `isCacheable`, `isUsable`, `toResult` | `AskUserTypes` |
| `AskUserSystem` | the composition: calls of `cynara_check`, client library, both plugins, cynara, the agent, systemd | `ClientPlugin`, `Translator`; INSTANCE `ServicePlugin`, `AgentContract`, `AskUserContract` |
| `AskUserContract` | abstract: what the whole promises to the callers of `cynara_check` and to the user, without caches, plugins, connections or agents | `AskUserTypes` |
| `AgentProofs`, `AgentContractProofs`, `AgentFaultsProofs` | theorems about `Agent` and `AgentFaults` | in this order |
| `CapacityCacheProofs`, `ServicePluginProofs` | theorems about the cache and the plugin | in this order |
| `RequestFramingProofs` | theorems about the two strings | `RequestFraming` |
| `AskUserSystemProofs`, `AskUserContractProofs` | theorems about `AskUserSystem` | in this order |
| `MCAgent`, `MCAgentFaults`, `MCServicePlugin`, `MCRequestFraming`, `MCAskUserSystem` | sets of outcomes, answers and names for TLC | - |

`AskUserSystem` uses the agent only by its contract, which `Agent` is shown to
implement (`ImplementsContract`, in TLC and in TLAPS): so the end-to-end
properties rest on the threads and queues of the agent without a product of the
two state spaces.

### Agent: correspondence with the code

`pc` is the place of the main thread. A step ends where another thread can see a
difference: at an unlock of `m_mutex`, a response to cynara, a start or a
dismissal of a dialog.

| `pc` | Code |
|---|---|
| `start`, `loop`, `waiting` | `run` before `start()`, at `while (!m_stopFlag)`, inside `wait_for` |
| `relock` | after `lock.lock()` at the end of the inner loop |
| `gotRequest`, `dismissCancelled` | `processCynaraRequest` before its first effect; after `sendResponse` of a cancel |
| `takeResponse`, `gotResponse`, `dismissAnswered` | second half of the inner loop; `processUIResponse` before and after its effects |
| `cleanup` | the `cleanupUIThreads` of the inner loop |
| `finishTalker`, `finishUIs` | the two parts of `finish` |
| `stopped`, `quickExit`, `aborted` | clean end; `quick_exit`; `std::terminate` |

A few choices a reader should know:

* `cynara_agent_get_request` and the push of the request are one step of the
  talker: the queue stands also for what is still on the wire, in order.
  Because the main thread sees a request only in the queue, a delay between the
  two would only reorder steps that do not touch each other.
* A request of an unknown type is logged and dropped by the talker: no change of
  state, no action.
* The promise of a thread is fulfilled by the last thing it does, so a joined
  thread is one whose promise is fulfilled. `stop` and `dismiss` wait at most
  10ms: whether the thread gets there in time is whether its last step came
  before theirs. A pass of `cleanupUIThreads` over all dialogs is one step
  (threads only go forward, and the passes do not look at each other).
* `m_UIs.insert` on an id that still has a dialog does nothing, and the new
  object is destroyed with a joinable thread: `StartUICollides`, which ends in
  `aborted`. With the fresh ids of `ReuseIds = FALSE` and no repeated delivery it
  is unreachable.
* `sendResponse` on a closed handle or a broken connection changes nothing. On a
  connection that is up `cynara_agent_put_response` succeeds (`TakeReply`) or
  fails (`PutResponseFails`); the agent does the same after either, as it ignores
  the result. `unheard` holds the checks that wait although a response to them
  failed: the code never tries again, so they wait until their connection ends,
  unless a withdrawal brings another response that gets through.
* A failed `cynara_agent_get_request` only leaves the loop of the talker; the
  connection stays up until `cynara_agent_finish` (`TalkerFinishes`), and
  responses may still be sent over it. What cynara sends after the loop was left
  nobody receives; it ends with the connection and is left out.
* `idOf`, `status`, `reply`, `stray`, `unheard` and `link` are cynara's; `verdict` is a
  history variable (the outcome of the dialog that showed a check), which only
  `AnswerIsUsersOwn` and the refinement read.
* Left out: logging, the texts of the dialog, `setOutdated` (never called).
* `ReuseIds` and `ResendActions` are freedoms of cynara: may an id be used again
  after its request was answered, may a pending Action request be delivered
  again. The repository does not say; the code has branches for both (a request
  "is being already processed", a cancel "for unknown request").

### Exceptions of the agent: correspondence with the code

`AgentFaults` adds the faults to the actions of `Agent`; none of those changes.

| Action | Where it is thrown | Who catches it |
|---|---|---|
| `TalkerDropsAction`, `TalkerDropsCancel`, `TalkerDropsClose` | building or queueing a request in the loop of `CynaraTalker::run` | behind the loop: the connection is closed, and no `RT_Close` is queued |
| `TalkerStartThrows` | `std::thread` in `CynaraTalker::start`, before the main loop | `main`, after `~Agent` called `finish` |
| `InitializeThrows` | queueing `RT_Close` after a failed initialization, outside of the `try` | nobody: `std::terminate` |
| `UIThrows` | the response callback, in the dialog thread | `AskUINotificationBackend::run`: logged; the thread ends as usual, without a response |
| `StartUIThrows`, `InsertRequestThrows` | `dataToRequest`, `createUI`, `std::thread`; `m_requests.insert` after the dialog is there | `main`, as above |
| `InsertUIThrows` | `m_UIs.insert`: the new dialog is destroyed with a joinable thread | `std::terminate` |
| `ProcessUIResponseThrows` | `answerToData` and the response to cynara | `main`, as above |

`Unwind` is the way through `~Agent`: the main thread drops what it has in its
hands and goes to `finishTalker`.

### Service plugin: correspondence with the code

One action per outcome of `check` and `update`. Keys stand for their hashed
strings; the hasher is injective (`HasherIsInjective`), because the three lengths
at the end of the string say where the names begin. The iterator stored in a cache entry is the
position of the key in `m_keyUsage`. Evict is part of `Update`. `asking` counts
the checks of a key that wait for the agent: nothing in the plugin keeps a
second check of the key from being asked meanwhile. `EndsWithoutUpdate` is
cynara's: a check may end without a call of `update`. `lastLife` and `recent` are
history variables for the properties.

### Framing: correspondence with the code

`RequestFraming` is the one module in which a string is a sequence of characters,
because its two properties are about where a name ends. `hasher` is the key of
the cache: the three names, then their lengths, each behind the character `\1`.
`requestToData` writes length, blank, name, blank; `Member` is one pass of the
loop of `dataToRequest`, with what `operator>>` and `read` do to a stream: blanks
before the number are skipped, the number ends at the first character that is no
digit, one character is dropped. A run takes a pair of checks through the cache
and, on a miss, to the dialog. Numbers are mathematical: a name is no longer than
`std::size_t` can count.

### The whole system: correspondence with the code

| Action | Stands for |
|---|---|
| `AnsweredByLibrary`, `AnsweredByPlugin`, `SentToAgent`, `NoAgentToAsk` | a call of `cynara_check`: `isUsable` on what the library keeps; else `ServicePlugin::check` with a hit; a miss that goes to the agent; a miss with no agent connected |
| `AnsweredByAgent` | `ServicePlugin::update`, then `isCacheable` and `toResult` in the library |
| `EndsWithoutAnswer` | a check withdrawn, lost with the agent, or whose answer crossed the withdrawal |
| `ProcessDies` | the client goes away in a call, and cynara cancels the question |
| `Forget` | the library drops what it keeps (`LibraryForgets`) |
| `CynaraInvalidates` | `ServicePlugin::invalidate` |
| `AgentConcludes`, `ResponseLost`, `UserDecides`, `AgentEnds`, `AgentLost` | steps of `AgentContract` |
| `AgentRestarts` | `Restart=always` in `systemd/askuser.service`, which waits for nothing: the checks cynara still holds for the old agent become `former` |
| `FormerAgentLost` | cynara notices, a check at a time, that the agent it held the check for is gone |

The code of this repository implements callbacks of cynara and of its client
library; what those two do with them is external and chosen as weak as the
interfaces allow. The library keeps one entry per key and may or may not forget
it; a process makes one check at a time; checks of different processes interleave
freely; cynara fails a check for which there is no agent. About the policies that
`clientDescriptions` lists, the library asks `ClientPlugin`: it keeps them if
`isCacheable` says so, and uses them again if `isUsable` does. `ALLOW` and `DENY`,
which the service plugin returns for decisions for life and for a dialog without a
choice, are not listed and known to the library itself, so nothing in this
repository says what it does with them: `Keep` may keep them or not, and a check
that finds one (`MayUse`) may be answered with it or sent on. What is pressed in a
dialog that outlives its check has no effect (see `Agent`) and is left out.

What the callers and the user see of it behaves like `AskUserContract`
(`ImplementsAskUserContract`): its `answer` is what the dialog of a call ended
with, taken from the agent, and a call may return what its own dialog says or,
without one, what a dialog of another call said whose scope covers this one, or a
denial when a dialog of its process about the key ended without a choice.
`AllowedOnlyByUser` and `DeniedForAReason` say why a result was possible; the
contract adds that it is final, that a dialog is answered once, and that its
answer is obeyed: no cached decision overrules it.

## 3. Runs

| Run | Question | Bounds | Distinct states |
|---|---|---|---|
| `agent_safety` | Does the agent implement `AgentContract`; `AnswerIsUsersOwn`, `NoStrayReply`, `NoOrphanRequest`, `NoForgottenAsk`, `CloseIsLast`, `CleanStopAbandonsNothing`, `TypeOK` | 2 checks, 2 ids, 4 outcomes: button 4, no button in time (0), a button beyond the table (7), a failed dialog; symmetry | 688289 |
| `agent_reuse` | What holds whatever cynara does with ids? | 2 checks, 1 id, reuse and repeated delivery, queue of at most 2 when a request is repeated (`MaxRequests`) | 449162 |
| `agent_live` | `EveryAskConcluded`, `SigtermStops`, `LostLinkEndsAgent` under `FairSpec` | 2 checks, 2 ids, 1 button | 275559 |
| `agent_init_failure` | expected violation, see section 5 | 1 check | - |
| `faults_safety` | With exceptions at any time: `ImplementsContract`, `ForgottenOnlyAtTheEnd`, `AcceptedKeepsDialog`, `CleanStopAbandonsNothing` | 2 checks, 2 ids, 1 button, no bound on the number of faults | 637316 |
| `faults_live` | With exceptions, under fair threads: `ConcludedUnlessAnswerLost`, `CancelIsConcluded`, `UnwindingEnds` | 2 checks, 1 id that is used again | 58174 |
| `plugin_safety` | `UsageMatchesValues`, `ReadyAnswerIsLastDecision`, `CacheIsCurrent`, `LifeStaysInService`, `EvictsLeastRecentlyUsed`, `TypeOK` | 3 keys, capacity 2, 2 checks of a key at once (`MaxAsking`), numbers beyond 16 bits, malformed data | 12067 |
| `plugin_lru` | expected violation, see section 5 | same, decisions for life only | - |
| `request_framing` | `HitIsSameCheck`, `DialogShowsTheCheck` | all pairs of checks over 7 names of digits, blanks and separators, the empty one included | 352604 |
| `system_session` | `AllowedOnlyByUser`, `DeniedForAReason`, `SessionIsAskedOnce`, `ImplementsAskUserContract`, `TypeOK` | 3 checks, 1 process, 2 sessions, 1 key; time-out, no session, yes once, yes session, yes for life; symmetry | 248872 |
| `system_life` | `AllowedOnlyByUser`, `DeniedForAReason`, `FailsOnlyWithoutAgent` | 3 checks, 2 processes, 2 keys, a cache of 1; time-out, no for life, yes for life; symmetry, and a view without the history of the service plugin | 1297020 |
| `system_live` | `EveryCallReturns` under `FairSpec` | 2 checks, 2 processes, a library that forgets | 50880 |

The symmetries permute checks and ids, or calls, processes, sessions and keys, of
which no definition chooses one. The view of `system_life` leaves out what the
plugin returned last and the history of its decisions, which no guard and none of
its three invariants read.

Why the bounds are enough: two checks are what it takes to mix up answers, to
have one dialog dismissed while another waits, and to have a response queued
while a request is processed; each check can also be cancelled, so up to four
requests and two responses are in the queues. One id shared by two checks is the
shortest way to every collision. The runs use the outcomes that differ in the
code; that each of the six buttons gives the answer it promises is in the theorem
`AnswersUsersOwn`, for every outcome. Three keys in a cache of two make room,
fill it, and evict; two checks in flight are what an update of an existing entry
needs. Three calls are the decision, the use of it, and one in between that takes
its place; a second process and a second session are what a decision could leak
to. The theorems do not depend on any bound.

Deadlock is checked everywhere but in `request_framing`, where a check ends at
the dialog; an ended agent has the step `ProcessEnded`. `StartUICollides` and
`TalkerReceivesAgain` are taken in `agent_reuse` only, `Forget` in `system_live`.

**Fairness of the agent** (`FairSpec`): each thread that can go on does: the main
thread (`wait_for` and `dismiss` have time-outs), the talker's initialization and
its last steps, each dialog thread (`notification_wait_response` returns after at
most `m_responseTimeout`, 60s), and `cynara_agent_get_request` returns an error
once the connection is gone. Nothing is assumed about cynara, about SIGTERM,
about responses that fail, or about the connection breaking. `EveryAskConcluded`
says that each check ends or has a response that failed. It rests on the 1000ms time-out
of `wait_for`: with `wait` instead, a lost notification is never made good, which
is the mutant of that property. `SigtermStops` is checked for finitely many
requests: the inner loop does not look at `m_stopFlag`, so an endless stream of
requests would postpone the stop for ever. `FairFaultSpec` is the same fairness:
no fault ever has to happen, and none keeps a thread from going on.

**Fairness of the system** (`AskUserSystem!FairSpec`): an agent that goes on
running concludes each check or fails to send a response to it, which is
`EveryAskConcluded` of an agent whose callbacks do not throw; cynara handles what
the agent answers, and notices that an agent is gone. Nothing is assumed about the
user, about processes that die, or about systemd: a call returns even if the agent
is never started again, and also if it is started before cynara has noticed
anything (`FormerAgentLost`). A response that was lost holds its call up as long
as the agent it was sent to runs: `EveryCallReturns` says so.

Each property of a passing run has a mutant, an operator defined just before the
one it replaces and marked "Mutant" in the modules: a plausible slip in the code
that makes TLC find the property violated.

## 4. What is proved

No theorem bounds the sets of checks, ids, outcomes, keys, processes or sessions.
Besides the named `ASSUME`s of the constants (the sentinels are not members of
the sets they complete; outcomes have the form of outcomes; a capacity is a
natural number; the calls that are made are finitely many, however many) some theorems have an
assumption of their own, named below.

**The agent** (`AgentProofs`), whatever cynara does with ids:

* `TypeCorrect`: `Spec => []TypeOK`. `TypeOK` is not inductive, since the main
  thread uses the id of the request in its hands and the talker that of a check
  that waits. `TypeInv` adds both (`InHand`, `WaitingHasId`).
* `ForgetsNoAsk`: `Spec => []NoForgottenAsk`. A response leaves no trace only if
  `sendResponse` finds the connection closed, so the invariant needs that it is
  open as long as a check waits (`LinkInv`), and that `finish` reaches the
  dialogs only after the talker was joined (`JoinInv`). Then every step keeps
  account of the id of each check that still waits (`AccountedSuffices`), and a
  response ends every check under its id or makes it one of `unheard`
  (`SendResponseEnds`).
* `OrphansNoRequest`: `Spec => []NoOrphanRequest`. The strengthening
  `DismissedIsUnknown` says that a dialog is dismissed only after its request left
  `m_requests`, which is the order of the statements in `processUIResponse` and
  in the cancel branch; `ThreadHasUI` ties threads to objects.
* `CleanStopIsClean`: `Spec => CleanStopAbandonsNothing`, from the same invariant:
  an accepted request has an undismissed dialog, and with one of those
  `cleanupUIThreads` returns false.

**The agent and its contract** (`AgentContractProofs`):

* `ClosesLast`: `Spec => []CloseIsLast`: once `RT_Close` is queued the talker is
  past the places where it queues anything.
* `AnswersUsersOwn`, `AnswersOnlyWaiting`, `KeepsContract`: `AnswerIsUsersOwn`,
  `NoStrayReply` and `ImplementsContract`, assuming `~ReuseIds` and
  `~ResendActions`. An id names one check for good, so the invariant,
  `Ledger`, follows the check under its id: an Action request on its way is the only one and finds neither a
  request nor a dialog under its id (`IncomingLedger`, `OneAction`); an accepted
  request is of a check that has no answer yet (`RequestLedger`); a dialog shows
  the check of its id and is undecided while it waits (`DialogLedger`); a
  response on its way says what was chosen for the check of its id
  (`ResponseLedger`); a check whose response failed has no request any more.
  `ProcessUIResponse` and the cancel branch take the id out
  of `m_requests` as they respond, which silences the one that comes second.
  With it each action of `Agent` maps to an action of
  `AgentContract` or to a stutter, a response of the agent to `Answer` or
  `ConfirmCancel` if it gets through, and otherwise to `Lose`.

**With exceptions** (`AgentFaultsProofs`):

* `LosesSightOnlyAtTheEnd` (`ForgottenOnlyAtTheEnd`): as long as no end is under
  way the invariant of `ForgetsNoAsk` holds, with its exception of the responses
  that failed; every fault but the lost response of a dialog begins an end, and a
  talker that finishes disconnects every check.
* `KeepsDialogs` (`AcceptedKeepsDialog`), `UnwindsCleanly`
  (`CleanStopAbandonsNothing`): what throws between the two tables leaves a dialog
  without a request, never the reverse, because `startUIForRequest` comes before
  `m_requests.insert` (`DialogInv`).
* `FaultsKeepContract` (`ImplementsContract`), assuming `~ReuseIds` and
  `~ResendActions`: the ledger bounds what there is under an id from above only, so a
  fault, which takes something out, cannot break it.
* `FaultsAnswerUsersOwn` (`AnswerIsUsersOwn`, `NoStrayReply`), from the same
  ledger and with the same assumptions.
* `FaultsCloseLast` (`TypeOK`, `CloseIsLast`): a talker that leaves its loop by an
  exception queues nothing more, so it is as silent as one that ended.

**Service plugin and cache** (`CapacityCacheProofs`, `ServicePluginProofs`), for
every capacity:

* `CacheStaysInStep` (`UsageMatchesValues`): the usage list is free of
  duplicates and lists the keys of the map, so `evict` never erases `end()`.
* `EvictsInOrderOfUse` (`EvictsLeastRecentlyUsed`), `PluginTypeCorrect`,
  `CacheHoldsLastDecision` (`CacheIsCurrent`), `AnswersWithLastDecision`
  (`ReadyAnswerIsLastDecision`), `KeepsLifeInService` (`LifeStaysInService`).
* `LruWhenAskedOnce`: assuming `MaxAsking <= 1` the cache is the LRU cache that
  `plugin_lru` refutes in general: the premature eviction takes two checks of one
  key at once, and nothing else.

**The whole system** (`AskUserSystemProofs`, `AskUserContractProofs`):

* `AllowsOnlyByUser`, `DeniesForAReason`, `FailsForWantOfAgent`:
  `AllowedOnlyByUser`, `DeniedForAReason`, `FailsOnlyWithoutAgent`. The invariant
  says of every decision that is kept somewhere (in the agent's answer,
  `AgentLedger`; in the service's cache, `LifeLedger`; in the library's,
  `SessionLedger`) for which check the user made it, and of every call that
  returned why it did (`Reasons`). What a library kept is `Sound` if a decision
  for life about the key or for the session backs it, or if it is a `DENY` and a
  dialog of the process about the key ended without a choice (`Makeshift`). What
  the user said lasts (`Lasting`), so a reason stays one.
* `AsksOncePerSession` (`SessionIsAskedOnce`), assuming `~LibraryForgets`: a
  decision for a session is in the library's cache, or a check of another session
  of the process may have taken its place for good (`SessionKept`). A check that
  waits for the agent was sent only when that had happened (`AskedAgain`), and as
  a process makes one check at a time (`OneAtATime`) no decision comes up meanwhile
  that its answer could take the place of (`CacheStep`).
* `PluginInSystem` carries theorems of `ServicePluginProofs` over to the plugin in
  the system, by an instance of the module of proofs: what the plugin hears from
  the agent is an answer it reckons with, because a verdict is always one of the
  outcomes (`VerdictInv`). That the guards of the plugin's actions on the number of
  waiting checks take nothing away from the system is `PluginNeverHindersCynara`:
  `asking` counts exactly the checks of a key that wait (`AskingIsCounted`).
  `SystemTypeCorrect` (`TypeOK`) needs `PluginInSystem`, since only there it is
  shown what the plugin returns.
* `KeepsAskUserContract` (`ImplementsAskUserContract`): that a result is final is
  `AccessIsFinal`; that a dialog is answered once is the agent's contract.
  `Reasons` is too weak for the rest, as it lets a cached decision overrule the
  dialog of the call itself; `AllObeyed` says that a call with an answer of the
  agent returned the meaning of that answer. It needs `Blocked`: a call that
  still waits for the agent has returned nothing.

**The two strings** (`RequestFramingProofs`), for names of any length with any
characters in them:

* `HitsSameCheck` (`HitIsSameCheck`): two checks with one key are the same check
  (`HasherIsInjective`). The key is read from its end: only the last separator has
  nothing but digits behind it, whatever the names contain (`SealedEnds`), so the
  three numbers are found one after the other, and three equal lengths cut the
  front of the key in one way only.
* `ShowsTheCheck` (`DialogShowsTheCheck`): `dataToRequest` undoes `requestToData`
  (`RequestIsReadBack`). Each pass reads one name and leaves the blank behind it
  for the next pass to skip; a name is never scanned, only counted.

Both rest on `to_string` and `valueOf`, which are recursive functions: that these
are defined everywhere, that the text of a number is not empty and made of digits,
and that it stands for that number. The induction is done in first-order logic,
by looking at the least number that would be a counterexample (`Least`,
`Induction`).

Only model-checked: the liveness properties and everything under fairness, which
the prover does not handle, and the two expected violations. Every other property
of a run is a theorem; the assumptions `~ReuseIds`, `~ResendActions` and
`~LibraryForgets` are those of the runs that check the property.

## 5. Findings

* `agent_init_failure`. When `cynara_agent_initialize` fails, `CynaraTalker::run`
  returns without fulfilling `m_threadFinished` (`CynaraTalker.cpp:119`). `stop()`
  is meant to give up on a thread that "waits for requests from cynara"
  (`CynaraTalker.cpp:92`); here it gives up on one that has returned, and the
  agent leaves by `quick_exit` although nothing is left running.
* `plugin_lru`. `CapacityCache::update` evicts before it looks whether the key is
  already cached (`CapacityCache.h:102`), so a second decision about a cached key
  costs a full cache another entry; an "LRU cache container" (line 19) does not.

Limits of what holds, none of them a contradiction of what the repository says:

* A response that `cynara_agent_put_response` refuses on a connection that stays up
  is lost: `Agent.cpp` ignores the result of `sendResponse` in lines 161, 176 and
  199 and forgets the request. Its check waits until the connection of the agent
  ends. `NoForgottenAsk`, `EveryAskConcluded`, `ForgottenOnlyAtTheEnd`,
  `ConcludedUnlessAnswerLost`, `CancelIsConcluded` and `EveryCallReturns` hold up
  to `unheard`, and this is the only way in which they do not hold without it.
* A dialog without a choice becomes a plain `DENY` (`Translator.cpp:65`), about
  which `ClientPlugin` is never asked: if the client library keeps it, the process
  is denied until the library forgets it. `DeniedForAReason` and the contract say
  that it goes no further than that process and key.

* With `ReuseIds = TRUE`, `AnswerIsUsersOwn` does not hold: a response of a
  cancelled request that is still queued answers a new request under the same id.
  Whether cynara ever reuses an id so early is outside this repository; the
  property is therefore checked under `ReuseIds = FALSE` only.
* With exceptions, `LostLinkEndsAgent` does not hold: a talker that leaves its
  loop by an exception closes the connection without an `RT_Close`, and the agent
  goes on with no connection until SIGTERM. What is left is that cynara's checks
  end with the connection (`ForgottenOnlyAtTheEnd`, `ConcludedUnlessAnswerLost`).
* With exceptions, `EveryAskConcluded` holds only up to `AnswerLost`: a dialog
  whose response could not be queued leaves its request accepted for good, until
  it is cancelled. `EveryCallReturns` is about an agent whose callbacks do
  not throw.

## 6. Not modelled

* Logging, the wording of the dialog and its translations, the test client and
  script, build and packaging: no property is about them. That the signal handler
  logs is listed as a hazard and not modelled.
* `TimeoutStopSec` and the order in which systemd starts the services: no code of
  the repository depends on either.
* Allocation failures in the service plugin, `CapacityCache.h:121` included: a
  `bad_alloc` there leaves a key in the usage list that is not in the map, and the
  `evict` that finds it erases `end()`, which is undefined. It is listed as a
  hazard; whether the rest of cynara survives a `bad_alloc` is not to be seen here.
* What cynara and its client library do beyond their interfaces: the size of the
  library's cache and when it drops entries are the free choice `Forget`, whether
  it keeps the policies it knows itself is the free choice in `Keep`.
* What cynara sends to an agent whose talker has left its loop, and what is pressed
  in a dialog of a check that has ended: neither has an effect on any check.
* Negative numbers as plugin data are covered by the definition of `dataToAnswer`
  but by no run, since the agent prints an unsigned policy type. Likewise
  `dataToRequest` is run on what `requestToData` wrote, never on other data.

## 7. Plan

Done: all components that keep state or translate it, their composition, the
fault model of the agent, the contracts of the agent and of the whole with their
refinements, and the theorems of section 4, which state every safety property
the passing runs check. Left, in this order:

1. An endless stream of requests, to state under which scheduling `SigtermStops`
   holds and to show the schedule under which it does not.
2. `EvictsLeastRecentlyUsed` and `LruWhenAskedOnce` as a refinement of an abstract
   LRU cache without a list.
3. Allocation failures of the service plugin, if cynara's handling of them becomes
   part of the picture.
