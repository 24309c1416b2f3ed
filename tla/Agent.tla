------------------------------- MODULE Agent --------------------------------
(***************************************************************************)
(* The askuser agent: the main thread (Agent::run and ~Agent), the talker  *)
(* thread, one thread per dialog, and the two queues between them.  Every  *)
(* access to the queues is one critical section of Agent::m_mutex; the     *)
(* maps m_requests and m_UIs belong to the main thread, whose steps end    *)
(* where another thread can see the difference: at an unlock, a response   *)
(* to cynara, the start or the dismissal of a dialog.                      *)
(***************************************************************************)
EXTENDS CynaraTalker, AskUINotificationBackend, FiniteSets

CONSTANT MaxRequests  \* bound of the model: queue length up to which cynara resends

ASSUME MaxRequestsAssumption == MaxRequests \in Nat

VARIABLES
    pc,                   \* where the main thread is
    request,              \* the Request popped and not yet done with
    response,             \* the Response popped and not yet done with
    notified,             \* m_event was notified while the main thread waits
    m_stopFlag,
    m_incomingRequests,
    m_incomingResponses,
    m_requests            \* id -> the ask of the accepted Request, or NoAsk

mainVars  == <<pc, request, response, m_stopFlag, m_requests>>
queueVars == <<m_incomingRequests, m_incomingResponses, notified>>
vars      == <<mainVars, queueVars, cynaraVars, talkerVars, uiVars>>

CloseRequest == [type |-> "RT_Close", id |-> NoId, data |-> NoAsk]

Request == [type : {"RT_Action"}, id : Ids, data : Asks]
           \cup [type : {"RT_Cancel"}, id : Ids, data : {NoAsk}]
           \cup {CloseRequest}

Response == [id : Ids, type : UIResponseType]

NoRequest  == [type |-> "none", id |-> NoId, data |-> NoAsk]
NoResponse == [id |-> NoId, type |-> "none"]

Ended   == {"stopped", "quickExit", "aborted"}
Running == pc \notin Ended

MainState == Ended \cup
    {"start", "loop", "waiting", "relock", "gotRequest", "dismissCancelled",
     "takeResponse", "gotResponse", "dismissAnswered", "cleanup",
     "finishTalker", "finishUIs"}

TypeOK ==
    /\ CynaraTypeOK
    /\ TalkerTypeOK
    /\ UITypeOK
    /\ pc \in MainState
    /\ request \in Request \cup {NoRequest}
    /\ response \in Response \cup {NoResponse}
    /\ notified \in BOOLEAN
    /\ m_stopFlag \in BOOLEAN
    /\ m_incomingRequests \in Seq(Request)
    /\ m_incomingResponses \in Seq(Response)
    /\ m_requests \in [Ids -> Asks \cup {NoAsk}]

Init ==
    /\ CynaraInit
    /\ TalkerInit
    /\ UIInit
    /\ pc = "start"
    /\ request = NoRequest
    /\ response = NoResponse
    /\ notified = FALSE
    /\ m_stopFlag = FALSE
    /\ m_incomingRequests = <<>>
    /\ m_incomingResponses = <<>>
    /\ m_requests = [id \in Ids |-> NoAsk]
-----------------------------------------------------------------------------
(* The two callbacks.  notify_one reaches the main thread only while it    *)
(* waits: a notification that comes earlier is lost.                       *)
Notify == notified' = (notified \/ pc = "waiting")

requestHandler(r) ==
    /\ m_incomingRequests' = Append(m_incomingRequests, r)
    /\ Notify
    /\ UNCHANGED m_incomingResponses

UIResponseHandler(id, t) ==
    /\ m_incomingResponses' = Append(m_incomingResponses, [id |-> id, type |-> t])
    /\ Notify
    /\ UNCHANGED m_incomingRequests
-----------------------------------------------------------------------------
(* Talker thread: one pass of the loop of CynaraTalker::run.               *)
TalkerInitialize ==
    /\ Running
    /\ \/ initializeSucceeds /\ UNCHANGED queueVars
       \/ initializeFails /\ requestHandler(CloseRequest)
    /\ UNCHANGED <<mainVars, cynaraVars, uiVars>>

TalkerReceivesAction(a, id) ==
    /\ Running
    /\ getRequest
    /\ SendAction(a, id)
    /\ requestHandler([type |-> "RT_Action", id |-> id, data |-> a])
    /\ UNCHANGED <<mainVars, uiVars>>

TalkerReceivesCancel(a) ==
    /\ Running
    /\ getRequest
    /\ SendCancel(a)
    /\ requestHandler([type |-> "RT_Cancel", id |-> idOf[a], data |-> NoAsk])
    /\ UNCHANGED <<mainVars, uiVars>>

TalkerReceivesAgain(a) ==
    /\ Running
    /\ getRequest
    /\ ResendAction(a)
    /\ Len(m_incomingRequests) < MaxRequests
    /\ requestHandler([type |-> "RT_Action", id |-> idOf[a], data |-> a])
    /\ UNCHANGED <<mainVars, uiVars>>

(* Mutant: the agent is not told that the connection failed.               *)
TalkerReceivesErrorSilently ==
    /\ Running
    /\ getRequestFails
    /\ UNCHANGED <<mainVars, queueVars, cynaraVars, uiVars>>

TalkerReceivesError ==
    /\ Running
    /\ getRequestFails
    /\ requestHandler(CloseRequest)
    /\ UNCHANGED <<mainVars, cynaraVars, uiVars>>

(* Mutant: the handle is dropped, the connection not closed.               *)
TalkerFinishesConnected ==
    /\ Running
    /\ finishConnection
    /\ UNCHANGED <<mainVars, queueVars, cynaraVars, uiVars>>

TalkerFinishes ==
    /\ Running
    /\ finishConnection
    /\ Disconnect
    /\ UNCHANGED <<mainVars, queueVars, uiVars>>

Talker ==
    \/ TalkerInitialize
    \/ \E a \in Asks, id \in Ids : TalkerReceivesAction(a, id)
    \/ \E a \in Asks : TalkerReceivesCancel(a) \/ TalkerReceivesAgain(a)
    \/ TalkerReceivesError
    \/ TalkerFinishes
-----------------------------------------------------------------------------
(* Dialog thread: AskUINotificationBackend::run.                           *)
UIResponds(id, o) ==
    /\ Running
    /\ waitResponse(id, o)
    /\ UIResponseHandler(id, RunResponse(o))
    /\ UNCHANGED <<mainVars, cynaraVars, talkerVars>>

UIFinishes(id) ==
    /\ Running
    /\ setFinished(id)
    /\ UNCHANGED <<mainVars, queueVars, cynaraVars, talkerVars>>
-----------------------------------------------------------------------------
(* The environment: SIGTERM (kill_handler), and the loss of the connection. *)
kill_handler ==
    /\ Running
    /\ ~m_stopFlag
    /\ m_stopFlag' = TRUE
    /\ UNCHANGED <<pc, request, response, m_requests, queueVars, cynaraVars,
                   talkerVars, uiVars>>

CynaraGone ==
    /\ Running
    /\ link
    /\ Disconnect
    /\ UNCHANGED <<mainVars, queueVars, talkerVars, uiVars>>
-----------------------------------------------------------------------------
(* Main thread: the helpers that dismiss dialogs.                          *)
dismissUI(id) == dismiss({id} \cap {i \in Ids : HasUI(i)})

(* Mutant: every dialog is dismissed, isDismissing() is not asked.         *)
CleanupEveryUI == dismiss({id \in Ids : HasUI(id)})

cleanupUIThreads == dismiss({id \in Ids : HasUI(id) /\ m_dismissing[id]})

(* Mutant: a dialog nobody dismissed yet does not count as a failure.      *)
DismissedUIsCleaned == \A id \in Ids : m_dismissing[id] => m_thread[id] = "finished"

(* What cleanupUIThreads returns.                                          *)
AllUIsCleaned == \A id \in Ids : HasUI(id) => m_dismissing[id] /\ m_thread[id] = "finished"
-----------------------------------------------------------------------------
(* Main thread: Agent::run.                                                *)
StartTalker ==
    /\ pc = "start"
    /\ TalkerStart
    /\ pc' = "loop"
    /\ UNCHANGED <<request, response, m_stopFlag, m_requests, queueVars,
                   cynaraVars, uiVars>>

(* while (!m_stopFlag): leave, or lock the mutex and release it in wait_for. *)
WaitForEvent ==
    /\ pc = "loop"
    /\ pc' = IF m_stopFlag THEN "finishTalker" ELSE "waiting"
    /\ notified' = FALSE
    /\ UNCHANGED <<request, response, m_stopFlag, m_requests, m_incomingRequests,
                   m_incomingResponses, cynaraVars, talkerVars, uiVars>>

(* The inner loop: pop a request if there is one, else a response if there *)
(* is one, else go back to waiting.                                        *)
PopRequest ==
    /\ m_incomingRequests # <<>>
    /\ request' = Head(m_incomingRequests)
    /\ m_incomingRequests' = Tail(m_incomingRequests)
    /\ pc' = "gotRequest"
    /\ UNCHANGED <<response, m_incomingResponses>>

PopResponse ==
    /\ m_incomingResponses # <<>>
    /\ response' = Head(m_incomingResponses)
    /\ m_incomingResponses' = Tail(m_incomingResponses)
    /\ pc' = "gotResponse"
    /\ UNCHANGED <<request, m_incomingRequests>>

NothingToPop(next) ==
    /\ pc' = next
    /\ UNCHANGED <<request, response, m_incomingRequests, m_incomingResponses>>

TakeNext ==
    \/ PopRequest
    \/ m_incomingRequests = <<>> /\ PopResponse
    \/ m_incomingRequests = <<>> /\ m_incomingResponses = <<>> /\ NothingToPop("loop")

(* Mutant: wait instead of wait_for.                                       *)
NoTimeout == FALSE

(* wait_for returns when it was notified, and anyway after 1000ms.         *)
TimeoutElapsed == TRUE

MayWake == notified \/ TimeoutElapsed

Wake ==
    /\ pc = "waiting"
    /\ MayWake
    /\ IF m_stopFlag THEN NothingToPop("finishTalker") ELSE TakeNext
    /\ notified' = FALSE
    /\ UNCHANGED <<m_stopFlag, m_requests, cynaraVars, talkerVars, uiVars>>

LoopAgain ==
    /\ pc = "relock"
    /\ TakeNext
    /\ UNCHANGED <<m_stopFlag, m_requests, notified, cynaraVars, talkerVars, uiVars>>

TakeResponse ==
    /\ pc = "takeResponse"
    /\ \/ PopResponse
       \/ m_incomingResponses = <<>> /\ NothingToPop("cleanup")
    /\ UNCHANGED <<m_stopFlag, m_requests, notified, cynaraVars, talkerVars, uiVars>>
-----------------------------------------------------------------------------
(* Main thread: a popped request (RT_Close, then processCynaraRequest).    *)
DoneWithRequest == request' = NoRequest /\ UNCHANGED response

ProcessClose ==
    /\ pc = "gotRequest"
    /\ request.type = "RT_Close"
    /\ m_stopFlag' = TRUE
    /\ pc' = "loop"
    /\ DoneWithRequest
    /\ UNCHANGED <<m_requests, queueVars, cynaraVars, talkerVars, uiVars>>

Known(id) == m_requests[id] # NoAsk

(* A request that is logged and dropped: an action already being           *)
(* processed, a cancel of nothing.                                         *)
IgnoreRequest ==
    /\ pc = "gotRequest"
    /\ \/ request.type = "RT_Action" /\ Known(request.id)
       \/ request.type = "RT_Cancel" /\ ~Known(request.id)
    /\ pc' = "takeResponse"
    /\ DoneWithRequest
    /\ UNCHANGED <<m_stopFlag, m_requests, queueVars, cynaraVars, talkerVars, uiVars>>

(* Mutant: the type of the response is that of an answer.                  *)
ProcessCancelAsAnswer ==
    /\ pc = "gotRequest"
    /\ request.type = "RT_Cancel"
    /\ Known(request.id)
    /\ m_requests' = [m_requests EXCEPT ![request.id] = NoAsk]
    /\ sendResponse("RT_Action", request.id, NoData)
    /\ pc' = "dismissCancelled"
    /\ UNCHANGED <<request, response, m_stopFlag, queueVars, uiVars>>

ProcessCancel ==
    /\ pc = "gotRequest"
    /\ request.type = "RT_Cancel"
    /\ Known(request.id)
    /\ m_requests' = [m_requests EXCEPT ![request.id] = NoAsk]
    /\ sendResponse("RT_Cancel", request.id, NoData)
    /\ pc' = "dismissCancelled"
    /\ UNCHANGED <<request, response, m_stopFlag, queueVars, uiVars>>

DismissCancelled ==
    /\ pc = "dismissCancelled"
    /\ dismissUI(request.id)
    /\ pc' = "takeResponse"
    /\ DoneWithRequest
    /\ UNCHANGED <<m_stopFlag, m_requests, queueVars, cynaraVars, talkerVars>>

NewAction ==
    /\ pc = "gotRequest"
    /\ request.type = "RT_Action"
    /\ ~Known(request.id)

(* Mutant: the failure of createUI is not reported to cynara.              *)
StartUIFailsSilently ==
    /\ NewAction
    /\ pc' = "takeResponse"
    /\ DoneWithRequest
    /\ UNCHANGED <<m_stopFlag, m_requests, queueVars, cynaraVars, talkerVars, uiVars>>

(* createUI failed: the answer is an error and the request is forgotten.   *)
StartUIFails ==
    /\ NewAction
    /\ sendResponse("RT_Action", request.id, answerToData(0, "ERROR"))
    /\ pc' = "takeResponse"
    /\ DoneWithRequest
    /\ UNCHANGED <<m_stopFlag, m_requests, queueVars, uiVars>>

StartUI ==
    /\ NewAction
    /\ ~HasUI(request.id)
    /\ startUI(request.id, request.data)
    /\ m_requests' = [m_requests EXCEPT ![request.id] = request.data]
    /\ pc' = "takeResponse"
    /\ DoneWithRequest
    /\ UNCHANGED <<m_stopFlag, queueVars, cynaraVars, talkerVars>>

(* m_UIs.insert finds the dialog of an earlier request under this id: the  *)
(* new object is destroyed with its thread running, which terminates the   *)
(* process (std::thread's destructor).                                     *)
StartUICollides ==
    /\ NewAction
    /\ HasUI(request.id)
    /\ pc' = "aborted"
    /\ UNCHANGED <<request, response, m_stopFlag, m_requests, queueVars,
                   cynaraVars, talkerVars, uiVars>>
-----------------------------------------------------------------------------
(* Main thread: a popped response (processUIResponse).                     *)
(* Mutant: the response is sent without a look into m_requests.            *)
ProcessUIResponseAlways ==
    /\ pc = "gotResponse"
    /\ sendResponse("RT_Action", response.id, AnswerData(response.type))
    /\ m_requests' = [m_requests EXCEPT ![response.id] = NoAsk]
    /\ pc' = "dismissAnswered"
    /\ UNCHANGED <<request, response, m_stopFlag, queueVars, uiVars>>

(* Mutant: the answered request is not erased from m_requests.             *)
ProcessUIResponseKeeps ==
    /\ pc = "gotResponse"
    /\ IF Known(response.id)
       THEN sendResponse("RT_Action", response.id, AnswerData(response.type))
       ELSE UNCHANGED <<cynaraVars, talkerVars>>
    /\ pc' = "dismissAnswered"
    /\ UNCHANGED <<request, response, m_stopFlag, m_requests, queueVars, uiVars>>

ProcessUIResponse ==
    /\ pc = "gotResponse"
    /\ IF Known(response.id)
       THEN /\ sendResponse("RT_Action", response.id, AnswerData(response.type))
            /\ m_requests' = [m_requests EXCEPT ![response.id] = NoAsk]
       ELSE UNCHANGED <<m_requests, cynaraVars, talkerVars>>
    /\ pc' = "dismissAnswered"
    /\ UNCHANGED <<request, response, m_stopFlag, queueVars, uiVars>>

DismissAnswered ==
    /\ pc = "dismissAnswered"
    /\ dismissUI(response.id)
    /\ pc' = "cleanup"
    /\ response' = NoResponse
    /\ UNCHANGED <<request, m_stopFlag, m_requests, queueVars, cynaraVars, talkerVars>>

Cleanup ==
    /\ pc = "cleanup"
    /\ cleanupUIThreads
    /\ pc' = "relock"
    /\ UNCHANGED <<request, response, m_stopFlag, m_requests, queueVars,
                   cynaraVars, talkerVars>>
-----------------------------------------------------------------------------
(* Main thread: ~Agent calls finish.  quick_exit ends every thread.        *)
(* Mutant: stop() waits until the thread has finished.                     *)
FinishTalkerWaits ==
    /\ pc = "finishTalker"
    /\ Stoppable
    /\ TalkerStop
    /\ pc' = "finishUIs"
    /\ m_incomingRequests' = <<>>
    /\ UNCHANGED <<request, response, m_stopFlag, m_requests, notified,
                   m_incomingResponses, cynaraVars, uiVars>>

FinishTalker ==
    /\ pc = "finishTalker"
    /\ TalkerStop
    /\ IF Stoppable
       THEN pc' = "finishUIs" /\ m_incomingRequests' = <<>>
       ELSE pc' = "quickExit" /\ UNCHANGED m_incomingRequests
    /\ UNCHANGED <<request, response, m_stopFlag, m_requests, notified,
                   m_incomingResponses, cynaraVars, uiVars>>

FinishUIs ==
    /\ pc = "finishUIs"
    /\ cleanupUIThreads
    /\ IF AllUIsCleaned
       THEN pc' = "stopped" /\ m_requests' = [id \in Ids |-> NoAsk]
       ELSE pc' = "quickExit" /\ UNCHANGED m_requests
    /\ UNCHANGED <<request, response, m_stopFlag, queueVars, cynaraVars, talkerVars>>
-----------------------------------------------------------------------------
MainThread ==
    \/ StartTalker \/ WaitForEvent \/ Wake \/ LoopAgain \/ TakeResponse
    \/ ProcessClose \/ IgnoreRequest \/ ProcessCancel \/ DismissCancelled
    \/ StartUIFails \/ StartUI \/ StartUICollides
    \/ ProcessUIResponse \/ DismissAnswered \/ Cleanup
    \/ FinishTalker \/ FinishUIs

(* An ended process stays ended; systemd starts another one.               *)
ProcessEnded == ~Running /\ UNCHANGED vars

Next ==
    \/ MainThread
    \/ Talker
    \/ \E id \in Ids : UIFinishes(id) \/ \E o \in Outcomes : UIResponds(id, o)
    \/ kill_handler
    \/ CynaraGone
    \/ ProcessEnded

Spec == Init /\ [][Next]_vars

(***************************************************************************)
(* Fairness.  The scheduler runs every thread that can go on; wait_for and *)
(* dismiss return after at most 1000ms and 10ms, notification_wait_response *)
(* after at most m_responseTimeout, cynara_agent_initialize returns, and   *)
(* cynara_agent_get_request returns an error once the connection is lost.  *)
(* Nothing is assumed of cynara, of SIGTERM or of the connection.          *)
(***************************************************************************)
Fairness ==
    /\ WF_vars(MainThread)
    /\ WF_vars(TalkerInitialize)
    /\ WF_vars(~link /\ TalkerReceivesError)
    /\ WF_vars(TalkerFinishes)
    /\ \A id \in Ids : WF_vars(\E o \in Outcomes : UIResponds(id, o))
    /\ \A id \in Ids : WF_vars(UIFinishes(id))

FairSpec == Spec /\ Fairness
-----------------------------------------------------------------------------
(* Properties.                                                             *)

Contract == INSTANCE AgentContract WITH alive <- Running

(* The agent, with its three kinds of threads, its queues and its maps,    *)
(* keeps the promise of AgentContract.                                     *)
ImplementsContract == Contract!Spec

(* The answer of a check is the one written on the button the user pressed *)
(* in the dialog of that check, through the three tables and the queues    *)
(* between createUI and cynara_agent_put_response: never the answer of     *)
(* another check, nor another button's.                                    *)
AnswerIsUsersOwn ==
    \A a \in Asks : reply[a].type = "RT_Action" => reply[a].data = Promised(verdict[a])

(* No response goes to cynara for an id under which nothing is waiting:    *)
(* an answer and a cancellation that cross never produce two responses.    *)
NoStrayReply == stray = {}

(* A request the agent has accepted (m_requests) always has a dialog that  *)
(* is not being dismissed, and whose answer is still to come: its thread   *)
(* waits for the user, or its response is in the queue or in the hands of  *)
(* processUIResponse.  Otherwise nobody would ever answer the request.     *)
ResponseOnItsWay(id) ==
    \/ \E i \in DOMAIN m_incomingResponses : m_incomingResponses[i].id = id
    \/ pc = "gotResponse" /\ response.id = id

NoOrphanRequest ==
    \A id \in Ids : Known(id) =>
        /\ HasUI(id)
        /\ ~m_dismissing[id]
        /\ m_thread[id] # "waiting" => ResponseOnItsWay(id)

(* A check cynara waits for is forgotten in one way only, by a response    *)
(* that could not be sent (sendResponse returned false and nobody looked): *)
(* otherwise its Action request is still to be processed, or a request is  *)
(* in m_requests under its id.                                             *)
ActionOnItsWay(id) ==
    \/ \E i \in DOMAIN m_incomingRequests :
           m_incomingRequests[i].type = "RT_Action" /\ m_incomingRequests[i].id = id
    \/ pc \in {"gotRequest", "aborted"} /\ request.type = "RT_Action" /\ request.id = id

NoForgottenAsk ==
    \A a \in Asks : Waiting(a) =>
        ActionOnItsWay(idOf[a]) \/ Known(idOf[a]) \/ a \in unheard

(* RT_Close is the last word of the talker thread: it is queued behind     *)
(* every request received before it, and nothing is queued behind it, so   *)
(* what finish() throws away with the queue was already lost for cynara.   *)
CloseIsLast ==
    \A i \in DOMAIN m_incomingRequests :
        m_incomingRequests[i].type = "RT_Close" => i = Len(m_incomingRequests)

(* When finish() ends without quick_exit, no accepted request is thrown    *)
(* away unanswered, and no dialog is left on the screen.                   *)
CleanStopAbandonsNothing ==
    [][pc = "finishUIs" /\ pc' = "stopped" =>
         \A id \in Ids : ~Known(id) /\ m_thread[id] \in {"none", "finished"}]_vars

(* stop() can only fail to stop a thread that "waits for requests from     *)
(* cynara" (its comment): not one that already left run().                 *)
StopFailsOnlyOnLiveTalker ==
    [][pc = "finishTalker" /\ pc' = "quickExit" => talker # "returned"]_vars

(* Every check gets its response, or cynara or the agent goes away, or the *)
(* sending of the response fails: nothing else keeps a check waiting, also *)
(* when the notification of a request or of a response is lost between the *)
(* inner loop and wait_for.                                                *)
EveryAskConcluded ==
    \A a \in Asks : Waiting(a) ~> ~Waiting(a) \/ ~Running \/ a \in unheard

(* SIGTERM ends the process, whatever the threads are doing.               *)
SigtermStops == m_stopFlag ~> ~Running

(* A broken connection ends the agent, which systemd then restarts.        *)
LostLinkEndsAgent == ~link ~> ~Running
=============================================================================
