----------------------------- MODULE AgentProofs -----------------------------
(***************************************************************************)
(* Theorems about Agent, for every set of checks, ids and outcomes, with   *)
(* or without reuse of ids and repeated delivery of Action requests.       *)
(***************************************************************************)
EXTENDS Agent, TLAPS
-----------------------------------------------------------------------------
(* Typing.  TypeOK is not inductive: the main thread uses the id of the    *)
(* request or response in its hands, and the talker that of a check that   *)
(* waits.                                                                  *)
InHand ==
    /\ pc \in {"gotRequest", "dismissCancelled", "aborted"} => request \in Request
    /\ pc = "dismissCancelled" => request.type = "RT_Cancel"
    /\ pc \in {"gotResponse", "dismissAnswered"} => response \in Response

WaitingHasId == \A a \in Asks : Waiting(a) => idOf[a] \in Ids

TypeInv == TypeOK /\ InHand /\ WaitingHasId

LEMMA RequestFields ==
    ASSUME NEW r \in Request
    PROVE  /\ r.type \in {"RT_Action", "RT_Cancel", "RT_Close"}
           /\ r.type # "RT_Close" => r.id \in Ids
           /\ r.type = "RT_Action" => r.data \in Asks
BY DEF Request, CloseRequest

LEMMA HeadTail ==
    ASSUME NEW S, NEW s \in Seq(S), s # <<>>
    PROVE  /\ Head(s) \in S
           /\ Tail(s) \in Seq(S)
OBVIOUS

LEMMA AppendSeq ==
    ASSUME NEW S, NEW s \in Seq(S), NEW e \in S
    PROVE  Append(s, e) \in Seq(S)
OBVIOUS

LEMMA DataTypes ==
    /\ NoData \in PluginData
    /\ answerToData(0, "ERROR") \in PluginData
    /\ \A r : AnswerData(r) \in PluginData
<1>1. NoData \in PluginData /\ answerToData(0, "ERROR") \in PluginData
      BY DEF NoData, PluginData, answerToData, NoError
<1>2. ASSUME NEW r PROVE AnswerData(r) \in PluginData
  <2>1. UIResponseToPolicyType(r) \in ClientPolicies
        BY DEF UIResponseToPolicyType, ClientPolicies
  <2>2. answerToData(0, "ERROR") \in PluginData /\ answerToData(0, "TIMEOUT") \in PluginData
        BY DEF PluginData, answerToData, NoError
  <2>3. answerToData(UIResponseToPolicyType(r), NoError) \in PluginData
        BY <2>1 DEF PluginData, answerToData, NoError
  <2> QED BY <2>2, <2>3 DEF AnswerData
<1> QED BY <1>1, <1>2

LEMMA RunResponseType == ASSUME NEW o PROVE RunResponse(o) \in UIResponseType
<1>1. Len(respType) = 6
      BY DEF respType
<1>2. ASSUME NEW i \in 1 .. 6 PROVE respType[i] \in UIResponseType
      BY DEF respType, UIResponseType
<1> QED BY <1>1, <1>2 DEF RunResponse, UIResponseType

(* The operations of the components keep the types of their variables.     *)
LEMMA SendResponseType ==
    ASSUME NEW type \in {"RT_Action", "RT_Cancel"}, NEW id \in Ids, NEW data \in PluginData,
           CynaraTypeOK, TalkerTypeOK, WaitingHasId, sendResponse(type, id, data)
    PROVE  CynaraTypeOK' /\ TalkerTypeOK' /\ WaitingHasId'
<1>1. TalkerTypeOK'
      BY DEF sendResponse, TalkerTypeOK, talkerVars
<1>2. CASE m_cynara /\ link
  <2>1. [type |-> type, data |-> data] \in Reply
        BY DEF Reply
  <2>2. CASE TakeReply(type, id, data)
    <3>1. CynaraTypeOK'
          BY <2>1, <2>2 DEF CynaraTypeOK, TakeReply, Status
    <3>2. WaitingHasId'
          BY <2>2 DEF WaitingHasId, Waiting, TakeReply, CynaraTypeOK
    <3> QED BY <1>1, <3>1, <3>2
  <2>3. CASE PutResponseFails(id)
        BY <1>1, <2>3 DEF PutResponseFails, Holders, CynaraTypeOK, WaitingHasId, Waiting
  <2> QED BY <1>2, <2>2, <2>3 DEF sendResponse
<1>3. CASE ~(m_cynara /\ link)
  <2>1. UNCHANGED cynaraVars
        BY <1>3 DEF sendResponse
  <2> QED BY <1>1, <2>1 DEF CynaraTypeOK, WaitingHasId, Waiting, cynaraVars
<1> QED BY <1>2, <1>3

LEMMA DisconnectType ==
    ASSUME CynaraTypeOK, WaitingHasId, Disconnect
    PROVE  CynaraTypeOK' /\ WaitingHasId'
BY DEF CynaraTypeOK, WaitingHasId, Waiting, Disconnect, Status

LEMMA DismissType ==
    ASSUME NEW S \in SUBSET Ids, UITypeOK, dismiss(S)
    PROVE  UITypeOK'
BY DEF UITypeOK, dismiss, Joined, ThreadState

LEMMA RequestHandlerType ==
    ASSUME NEW r \in Request, TypeOK, requestHandler(r)
    PROVE  /\ m_incomingRequests' \in Seq(Request)
           /\ m_incomingResponses' \in Seq(Response)
           /\ notified' \in BOOLEAN
<1>1. m_incomingRequests' \in Seq(Request)
      BY AppendSeq DEF requestHandler, TypeOK
<1> QED BY <1>1 DEF requestHandler, TypeOK, Notify

(* Taking the next request or response keeps types, and puts it in the     *)
(* hands of the main thread.                                               *)
LEMMA PopType ==
    ASSUME TypeInv,
           NEW next \in {"loop", "cleanup", "finishTalker"},
           PopRequest \/ PopResponse \/ NothingToPop(next)
    PROVE  /\ pc' \in MainState
           /\ request' \in Request \cup {NoRequest}
           /\ response' \in Response \cup {NoResponse}
           /\ m_incomingRequests' \in Seq(Request)
           /\ m_incomingResponses' \in Seq(Response)
           /\ InHand'
<1> USE DEF MainState, Ended
<1>1. CASE PopRequest
  <2>1. Head(m_incomingRequests) \in Request /\ Tail(m_incomingRequests) \in Seq(Request)
        BY <1>1, HeadTail DEF PopRequest, TypeInv, TypeOK
  <2> QED BY <1>1, <2>1 DEF PopRequest, TypeInv, TypeOK, InHand
<1>2. CASE PopResponse
  <2>1. Head(m_incomingResponses) \in Response /\ Tail(m_incomingResponses) \in Seq(Response)
        BY <1>2, HeadTail DEF PopResponse, TypeInv, TypeOK
  <2> QED BY <1>2, <2>1 DEF PopResponse, TypeInv, TypeOK, InHand
<1>3. CASE NothingToPop(next)
      BY <1>3 DEF NothingToPop, TypeInv, TypeOK, InHand
<1> QED BY <1>1, <1>2, <1>3

LEMMA TypeInvInit == Init => TypeInv
<1> SUFFICES ASSUME Init PROVE TypeInv
    OBVIOUS
<1>1. CynaraTypeOK /\ WaitingHasId
      BY DEF Init, CynaraInit, CynaraTypeOK, Status, WaitingHasId, Waiting
<1>2. TalkerTypeOK /\ UITypeOK
      BY DEF Init, TalkerInit, TalkerTypeOK, TalkerState, UIInit, UITypeOK, ThreadState
<1>3. InHand /\ pc \in MainState
      BY DEF Init, InHand, MainState, Ended
<1>4. m_incomingRequests \in Seq(Request) /\ m_incomingResponses \in Seq(Response)
      BY DEF Init
<1> QED BY <1>1, <1>2, <1>3, <1>4 DEF Init, TypeInv, TypeOK

LEMMA CloseRequestType == CloseRequest \in Request
BY DEF Request

(* The steps of the talker thread.                                         *)
LEMMA TypeInvTalker == TypeInv /\ Talker => TypeInv'
<1> SUFFICES ASSUME TypeInv, Talker PROVE TypeInv'
    OBVIOUS
<1> USE DEF TypeInv
<1>1. CASE TalkerInitialize
  <2>1. CASE initializeSucceeds /\ UNCHANGED queueVars
        BY <1>1, <2>1 DEF TalkerInitialize, initializeSucceeds, TypeOK, InHand, WaitingHasId,
           Waiting,
           TalkerTypeOK, TalkerState, CynaraTypeOK, UITypeOK, mainVars, queueVars, cynaraVars,
           uiVars
  <2>2. CASE initializeFails /\ requestHandler(CloseRequest)
    <3>1. /\ m_incomingRequests' \in Seq(Request)
          /\ m_incomingResponses' \in Seq(Response)
          /\ notified' \in BOOLEAN
          BY <2>2, RequestHandlerType, CloseRequestType
    <3> QED
        BY <1>1, <2>2, <3>1 DEF TalkerInitialize, initializeFails, TypeOK, InHand, WaitingHasId,
           Waiting, TalkerTypeOK, TalkerState, CynaraTypeOK, UITypeOK, mainVars, cynaraVars, uiVars
  <2> QED BY <1>1, <2>1, <2>2 DEF TalkerInitialize
<1>2. ASSUME NEW a \in Asks, NEW id \in Ids, TalkerReceivesAction(a, id) PROVE TypeInv'
  <2>1. [type |-> "RT_Action", id |-> id, data |-> a] \in Request
        BY DEF Request
  <2>2. /\ m_incomingRequests' \in Seq(Request)
        /\ m_incomingResponses' \in Seq(Response)
        /\ notified' \in BOOLEAN
        BY <1>2, <2>1, RequestHandlerType DEF TalkerReceivesAction
  <2>3. CynaraTypeOK' /\ WaitingHasId'
        BY <1>2 DEF TalkerReceivesAction, SendAction, TypeOK, CynaraTypeOK, Status, WaitingHasId,
           Waiting
  <2> QED
      BY <1>2, <2>2, <2>3 DEF TalkerReceivesAction, getRequest, TypeOK, InHand,
         TalkerTypeOK, UITypeOK, mainVars, talkerVars, uiVars
<1>3. ASSUME NEW a \in Asks, TalkerReceivesCancel(a) PROVE TypeInv'
  <2>1. [type |-> "RT_Cancel", id |-> idOf[a], data |-> NoAsk] \in Request
        BY <1>3 DEF TalkerReceivesCancel, SendCancel, WaitingHasId, Waiting, Request
  <2>2. /\ m_incomingRequests' \in Seq(Request)
        /\ m_incomingResponses' \in Seq(Response)
        /\ notified' \in BOOLEAN
        BY <1>3, <2>1, RequestHandlerType DEF TalkerReceivesCancel
  <2>3. CynaraTypeOK' /\ WaitingHasId'
        BY <1>3 DEF TalkerReceivesCancel, SendCancel, TypeOK, CynaraTypeOK, Status, WaitingHasId,
           Waiting
  <2> QED
      BY <1>3, <2>2, <2>3 DEF TalkerReceivesCancel, getRequest, TypeOK, InHand,
         TalkerTypeOK, UITypeOK, mainVars, talkerVars, uiVars
<1>4. ASSUME NEW a \in Asks, TalkerReceivesAgain(a) PROVE TypeInv'
  <2>1. [type |-> "RT_Action", id |-> idOf[a], data |-> a] \in Request
        BY <1>4 DEF TalkerReceivesAgain, ResendAction, WaitingHasId, Waiting, Request
  <2>2. /\ m_incomingRequests' \in Seq(Request)
        /\ m_incomingResponses' \in Seq(Response)
        /\ notified' \in BOOLEAN
        BY <1>4, <2>1, RequestHandlerType DEF TalkerReceivesAgain
  <2> QED
      BY <1>4, <2>2 DEF TalkerReceivesAgain, ResendAction, getRequest, TypeOK, InHand, WaitingHasId,
         Waiting, CynaraTypeOK, TalkerTypeOK, UITypeOK, mainVars, cynaraVars, talkerVars, uiVars
<1>5. CASE TalkerReceivesError
  <2>1. /\ m_incomingRequests' \in Seq(Request)
        /\ m_incomingResponses' \in Seq(Response)
        /\ notified' \in BOOLEAN
        BY <1>5, RequestHandlerType, CloseRequestType DEF TalkerReceivesError
  <2> QED
      BY <1>5, <2>1 DEF TalkerReceivesError, getRequestFails, TypeOK, InHand, WaitingHasId, Waiting,
         CynaraTypeOK, TalkerTypeOK, TalkerState, UITypeOK, mainVars, cynaraVars, uiVars
<1>6. CASE TalkerFinishes
  <2>1. CynaraTypeOK' /\ WaitingHasId'
        BY <1>6, DisconnectType DEF TalkerFinishes, TypeOK
  <2> QED
      BY <1>6, <2>1 DEF TalkerFinishes, finishConnection, TypeOK, InHand,
         TalkerTypeOK, TalkerState, UITypeOK, mainVars, queueVars, uiVars
<1> QED BY <1>1, <1>2, <1>3, <1>4, <1>5, <1>6 DEF Talker

(* The steps of the dialog threads and of the environment.                 *)
LEMMA TypeInvUI ==
    ASSUME TypeInv, NEW id \in Ids, UIFinishes(id) \/ \E o \in Outcomes : UIResponds(id, o)
    PROVE  TypeInv'
<1> USE DEF TypeInv
<1>1. ASSUME NEW o \in Outcomes, UIResponds(id, o) PROVE TypeInv'
  <2>1. [id |-> id, type |-> RunResponse(o)] \in Response
        BY RunResponseType DEF Response
  <2>2. m_incomingResponses' \in Seq(Response)
        BY <1>1, <2>1, AppendSeq DEF UIResponds, UIResponseHandler, TypeOK
  <2>3. UITypeOK'
        BY <1>1 DEF UIResponds, waitResponse, TypeOK, UITypeOK, ThreadState
  <2> QED
      BY <1>1, <2>2, <2>3 DEF UIResponds, UIResponseHandler, Notify, TypeOK, InHand, WaitingHasId,
         Waiting, CynaraTypeOK, TalkerTypeOK, mainVars, cynaraVars, talkerVars
<1>2. CASE UIFinishes(id)
      BY <1>2 DEF UIFinishes, setFinished, TypeOK, InHand, WaitingHasId, Waiting, UITypeOK,
         ThreadState,
         CynaraTypeOK, TalkerTypeOK, mainVars, queueVars, cynaraVars, talkerVars
<1> QED BY <1>1, <1>2

LEMMA TypeInvEnvironment ==
    ASSUME TypeInv, kill_handler \/ CynaraGone \/ UNCHANGED vars
    PROVE  TypeInv'
<1> USE DEF TypeInv
<1>1. CASE kill_handler
      BY <1>1 DEF kill_handler, TypeOK, InHand, WaitingHasId, Waiting, CynaraTypeOK, TalkerTypeOK,
         UITypeOK, queueVars, cynaraVars, talkerVars, uiVars
<1>2. CASE CynaraGone
      BY <1>2, DisconnectType DEF CynaraGone, TypeOK, InHand, TalkerTypeOK, UITypeOK,
         mainVars, queueVars, talkerVars, uiVars
<1>3. CASE UNCHANGED vars
      BY <1>3 DEF TypeOK, InHand, WaitingHasId, Waiting, CynaraTypeOK, TalkerTypeOK, UITypeOK,
         vars, mainVars, queueVars, cynaraVars, talkerVars, uiVars
<1> QED BY <1>1, <1>2, <1>3

(* The steps of the main thread.                                           *)
LEMMA TypeInvMain == TypeInv /\ MainThread => TypeInv'
<1> SUFFICES ASSUME TypeInv, MainThread PROVE TypeInv'
    OBVIOUS
<1> USE DEF TypeInv, MainState, Ended
<1>1. CASE StartTalker
      BY <1>1 DEF StartTalker, TalkerStart, TypeOK, InHand, WaitingHasId, Waiting, CynaraTypeOK,
         TalkerTypeOK, TalkerState, UITypeOK, queueVars, cynaraVars, uiVars
<1>2. CASE WaitForEvent
      BY <1>2 DEF WaitForEvent, TypeOK, InHand, WaitingHasId, Waiting, CynaraTypeOK,
         TalkerTypeOK, UITypeOK, cynaraVars, talkerVars, uiVars
<1>3. CASE Wake \/ LoopAgain \/ TakeResponse
  <2>1. \E next \in {"loop", "cleanup", "finishTalker"} :
            PopRequest \/ PopResponse \/ NothingToPop(next)
        BY <1>3 DEF Wake, LoopAgain, TakeResponse, TakeNext
  <2>2. /\ pc' \in MainState
        /\ request' \in Request \cup {NoRequest}
        /\ response' \in Response \cup {NoResponse}
        /\ m_incomingRequests' \in Seq(Request)
        /\ m_incomingResponses' \in Seq(Response)
        /\ InHand'
        BY <2>1, PopType
  <2>3. /\ notified' \in BOOLEAN
        /\ UNCHANGED <<m_stopFlag, m_requests, cynaraVars, talkerVars, uiVars>>
        BY <1>3 DEF Wake, LoopAgain, TakeResponse, TypeOK
  <2> QED
      BY <2>2, <2>3 DEF TypeOK, WaitingHasId, Waiting, CynaraTypeOK,
         TalkerTypeOK, UITypeOK, cynaraVars, talkerVars, uiVars
<1>4. CASE ProcessClose \/ IgnoreRequest
      BY <1>4 DEF ProcessClose, IgnoreRequest, DoneWithRequest, TypeOK, InHand, WaitingHasId,
         Waiting,
         CynaraTypeOK, TalkerTypeOK, UITypeOK, queueVars, cynaraVars, talkerVars, uiVars
<1>5. CASE ProcessCancel
  <2>1. request \in Request /\ request.id \in Ids
        BY <1>5, RequestFields DEF ProcessCancel, InHand
  <2>2. CynaraTypeOK' /\ TalkerTypeOK' /\ WaitingHasId'
        BY <1>5, <2>1, SendResponseType, DataTypes DEF ProcessCancel, TypeOK
  <2> QED
      BY <1>5, <2>1, <2>2 DEF ProcessCancel, TypeOK, InHand, UITypeOK, queueVars, uiVars
<1>6. CASE DismissCancelled
  <2>1. UITypeOK'
        BY <1>6, DismissType DEF DismissCancelled, dismissUI, TypeOK
  <2> QED
      BY <1>6, <2>1 DEF DismissCancelled, DoneWithRequest, TypeOK, InHand, WaitingHasId, Waiting,
         CynaraTypeOK, TalkerTypeOK, queueVars, cynaraVars, talkerVars
<1>7. CASE StartUIFails
  <2>1. request \in Request /\ request.id \in Ids
        BY <1>7, RequestFields DEF StartUIFails, NewAction, InHand
  <2>2. CynaraTypeOK' /\ TalkerTypeOK' /\ WaitingHasId'
        BY <1>7, <2>1, SendResponseType, DataTypes DEF StartUIFails, TypeOK
  <2> QED
      BY <1>7, <2>2 DEF StartUIFails, DoneWithRequest, TypeOK, InHand, UITypeOK, queueVars, uiVars
<1>8. CASE StartUI
  <2>1. request \in Request /\ request.id \in Ids /\ request.data \in Asks
        BY <1>8, RequestFields DEF StartUI, NewAction, InHand
  <2>2. UITypeOK' /\ m_requests' \in [Ids -> Asks \cup {NoAsk}]
        BY <1>8, <2>1 DEF StartUI, startUI, TypeOK, UITypeOK, ThreadState
  <2> QED
      BY <1>8, <2>2 DEF StartUI, DoneWithRequest, TypeOK, InHand, WaitingHasId, Waiting,
         CynaraTypeOK, TalkerTypeOK, queueVars, cynaraVars, talkerVars
<1>9. CASE StartUICollides
      BY <1>9 DEF StartUICollides, NewAction, TypeOK, InHand, WaitingHasId, Waiting,
         CynaraTypeOK, TalkerTypeOK, UITypeOK, queueVars, cynaraVars, talkerVars, uiVars
<1>10. CASE ProcessUIResponse
  <2>1. response \in Response /\ response.id \in Ids
        BY <1>10 DEF ProcessUIResponse, InHand, Response
  <2>2. CASE Known(response.id)
    <3>1. CynaraTypeOK' /\ TalkerTypeOK' /\ WaitingHasId'
          BY <1>10, <2>1, <2>2, SendResponseType, DataTypes DEF ProcessUIResponse, TypeOK
    <3> QED
        BY <1>10, <2>1, <2>2, <3>1 DEF ProcessUIResponse, TypeOK, InHand, UITypeOK, queueVars,
           uiVars
  <2>3. CASE ~Known(response.id)
        BY <1>10, <2>1, <2>3 DEF ProcessUIResponse, TypeOK, InHand, WaitingHasId, Waiting,
           CynaraTypeOK, TalkerTypeOK, UITypeOK, queueVars, cynaraVars, talkerVars, uiVars
  <2> QED BY <2>2, <2>3
<1>11. CASE DismissAnswered
  <2>1. UITypeOK'
        BY <1>11, DismissType DEF DismissAnswered, dismissUI, TypeOK
  <2> QED
      BY <1>11, <2>1 DEF DismissAnswered, TypeOK, InHand, WaitingHasId, Waiting,
         CynaraTypeOK, TalkerTypeOK, queueVars, cynaraVars, talkerVars
<1>12. CASE Cleanup
  <2>1. UITypeOK'
        BY <1>12, DismissType DEF Cleanup, cleanupUIThreads, TypeOK
  <2> QED
      BY <1>12, <2>1 DEF Cleanup, TypeOK, InHand, WaitingHasId, Waiting,
         CynaraTypeOK, TalkerTypeOK, queueVars, cynaraVars, talkerVars
<1>13. CASE FinishTalker
  <2>1. m_incomingRequests' \in Seq(Request)
    <3>1. m_incomingRequests' = <<>> \/ m_incomingRequests' = m_incomingRequests
          BY <1>13 DEF FinishTalker
    <3>2. m_incomingRequests \in Seq(Request)
          BY DEF TypeOK
    <3>3. <<>> \in Seq(Request)
          OBVIOUS
    <3> QED BY <3>1, <3>2, <3>3, Zenon
  <2>2. TalkerTypeOK'
        BY <1>13 DEF FinishTalker, TalkerStop, TypeOK, TalkerTypeOK, TalkerState
  <2>3. pc' \in MainState /\ InHand'
        BY <1>13 DEF FinishTalker, InHand
  <2> QED
      BY <1>13, <2>1, <2>2, <2>3 DEF FinishTalker, TypeOK, WaitingHasId, Waiting,
         CynaraTypeOK, UITypeOK, cynaraVars, uiVars
<1>14. CASE FinishUIs
  <2>1. UITypeOK'
        BY <1>14, DismissType DEF FinishUIs, cleanupUIThreads, TypeOK
  <2> QED
      BY <1>14, <2>1 DEF FinishUIs, TypeOK, InHand, WaitingHasId, Waiting,
         CynaraTypeOK, TalkerTypeOK, queueVars, cynaraVars, talkerVars
<1> QED
    BY <1>1, <1>2, <1>3, <1>4, <1>5, <1>6, <1>7, <1>8, <1>9, <1>10, <1>11, <1>12, <1>13, <1>14
    DEF MainThread

LEMMA TypeInvNext == TypeInv /\ [Next]_vars => TypeInv'
<1> SUFFICES ASSUME TypeInv, [Next]_vars PROVE TypeInv'
    OBVIOUS
<1>1. ASSUME NEW id \in Ids, UIFinishes(id) \/ \E o \in Outcomes : UIResponds(id, o)
      PROVE  TypeInv'
      BY <1>1, TypeInvUI
<1> QED
    BY <1>1, TypeInvMain, TypeInvTalker, TypeInvEnvironment DEF Next, ProcessEnded

LEMMA TypeInvAlways == Spec => []TypeInv
BY TypeInvInit, TypeInvNext, PTL DEF Spec

(* Every variable keeps its type: the answers sent to cynara are policies  *)
(* that the plugins know, requests and responses are well-formed.          *)
THEOREM TypeCorrect == Spec => []TypeOK
<1>1. TypeInv => TypeOK
      BY DEF TypeInv
<1> QED BY <1>1, TypeInvAlways, PTL
-----------------------------------------------------------------------------
(* No check is forgotten but by a response that could not be sent.  The    *)
(* strengthening says why sendResponse is never without a connection while *)
(* a check waits: it is up, and its handle is open until the talker leaves *)
(* run().                                                                  *)
Connected == talker \in {"receiving", "closing"}

LinkInv ==
    /\ \A a \in Asks : Waiting(a) => link /\ Connected
    /\ Connected => m_cynara

Accounted(id) == ActionOnItsWay(id) \/ Known(id)

JoinInv == pc = "finishUIs" => talker = "joined"

AskInv == TypeInv /\ LinkInv /\ JoinInv /\ NoForgottenAsk

LEMMA LinkInvInit == Init => LinkInv
BY DEF Init, LinkInv, Connected, Waiting, CynaraInit, TalkerInit

(* A step after which a check waits only if it did before, and is unheard  *)
(* if it was before.                                                       *)
NoNewWait == \A a \in Asks : Waiting(a)' => Waiting(a) /\ (a \in unheard => a \in unheard')

(* A response ends every check that waits under its id, and no other, or   *)
(* leaves it unheard.                                                      *)
LEMMA SendResponseEnds ==
    ASSUME LinkInv, CynaraTypeOK, NEW type, NEW id, NEW data, sendResponse(type, id, data)
    PROVE  /\ NoNewWait
           /\ \A a \in Asks : Waiting(a)' => idOf[a] # id \/ a \in unheard'
           /\ idOf' = idOf
           /\ LinkInv'
<1>1. CASE m_cynara /\ link
  <2>1. TakeReply(type, id, data) \/ PutResponseFails(id)
        BY <1>1 DEF sendResponse
  <2>2. CASE TakeReply(type, id, data)
        BY <1>1, <2>2 DEF sendResponse, NoNewWait, TakeReply, Holders, Waiting, LinkInv, Connected,
           talkerVars
  <2>3. CASE PutResponseFails(id)
        BY <1>1, <2>3 DEF sendResponse, NoNewWait, PutResponseFails, Holders, Waiting, LinkInv,
           Connected,
           talkerVars
  <2> QED BY <2>1, <2>2, <2>3
<1>2. CASE ~(m_cynara /\ link)
  <2>1. UNCHANGED <<cynaraVars, talkerVars>>
        BY <1>2 DEF sendResponse
  <2> QED BY <1>2, <2>1 DEF NoNewWait, LinkInv, Connected, Waiting, cynaraVars, talkerVars
<1> QED BY <1>1, <1>2

(* Appending to a queue keeps what is in it and adds the new element.      *)
LEMMA AppendKeeps ==
    ASSUME NEW S, NEW s \in Seq(S), NEW e \in S
    PROVE  /\ \A i \in DOMAIN s : i \in DOMAIN Append(s, e) /\ Append(s, e)[i] = s[i]
           /\ Len(s) + 1 \in DOMAIN Append(s, e)
           /\ Append(s, e)[Len(s) + 1] = e
           /\ Len(Append(s, e)) = Len(s) + 1
           /\ \A i \in DOMAIN Append(s, e) : i \in DOMAIN s \/ i = Len(s) + 1
OBVIOUS

(* Popping a queue loses nothing but its head.                             *)
LEMMA TailKeeps ==
    ASSUME NEW S, NEW s \in Seq(S), s # <<>>
    PROVE  /\ \A i \in DOMAIN s : i = 1 \/ (i - 1 \in DOMAIN Tail(s) /\ Tail(s)[i - 1] = s[i])
           /\ s[1] = Head(s)
           /\ Len(Tail(s)) = Len(s) - 1
           /\ \A i \in DOMAIN Tail(s) : i + 1 \in DOMAIN s /\ Tail(s)[i] = s[i + 1]
OBVIOUS

LEMMA HandlerAccounts ==
    ASSUME TypeInv, NEW r \in Request, requestHandler(r), UNCHANGED <<pc, request, m_requests>>,
           NEW id
    PROVE  /\ Accounted(id) => Accounted(id)'
           /\ r.type = "RT_Action" /\ r.id = id => Accounted(id)'
<1>1. m_incomingRequests \in Seq(Request) /\ m_incomingRequests' = Append(m_incomingRequests, r)
      BY DEF TypeInv, TypeOK, requestHandler
<1>2. /\ \A i \in DOMAIN m_incomingRequests :
            i \in DOMAIN m_incomingRequests' /\ m_incomingRequests'[i] = m_incomingRequests[i]
      /\ Len(m_incomingRequests) + 1 \in DOMAIN m_incomingRequests'
      /\ m_incomingRequests'[Len(m_incomingRequests) + 1] = r
      BY <1>1, AppendKeeps
<1> QED BY <1>2 DEF Accounted, ActionOnItsWay, Known

LEMMA PopAccounts ==
    ASSUME TypeInv, pc \notin {"gotRequest", "aborted"}, UNCHANGED m_requests, NEW next,
           PopRequest \/ PopResponse \/ NothingToPop(next), NEW id
    PROVE  Accounted(id) => Accounted(id)'
<1>1. CASE PopRequest
  <2>1. /\ m_incomingRequests \in Seq(Request) /\ m_incomingRequests # <<>>
        /\ m_incomingRequests' = Tail(m_incomingRequests)
        BY <1>1 DEF PopRequest, TypeInv, TypeOK
  <2>2. /\ \A i \in DOMAIN m_incomingRequests :
              i = 1 \/ (i - 1 \in DOMAIN m_incomingRequests'
                          /\ m_incomingRequests'[i - 1] = m_incomingRequests[i])
        /\ m_incomingRequests[1] = Head(m_incomingRequests)
        BY <2>1, TailKeeps
  <2> QED BY <1>1, <2>2 DEF Accounted, ActionOnItsWay, Known, PopRequest
<1>2. CASE PopResponse \/ NothingToPop(next)
      BY <1>2 DEF PopResponse, NothingToPop, Accounted, ActionOnItsWay, Known
<1> QED BY <1>1, <1>2

(* NoForgottenAsk survives a step that makes no new check wait and keeps   *)
(* account of the ids of those that still do.                              *)
LEMMA AccountedSuffices ==
    ASSUME NoForgottenAsk, idOf' = idOf, NoNewWait,
           \A a \in Asks : Waiting(a)' /\ Accounted(idOf[a]) => Accounted(idOf[a])' \/ a \in unheard'
    PROVE  NoForgottenAsk'
<1> SUFFICES ASSUME NEW a \in Asks, Waiting(a)'
             PROVE  ActionOnItsWay(idOf[a])' \/ Known(idOf[a])' \/ a \in unheard'
    BY DEF NoForgottenAsk, ActionOnItsWay, Known
<1> QED BY DEF NoForgottenAsk, NoNewWait, Accounted

LEMMA AskInvTalker == AskInv /\ Talker => LinkInv' /\ NoForgottenAsk'
<1> SUFFICES ASSUME AskInv, Talker PROVE LinkInv' /\ NoForgottenAsk'
    OBVIOUS
<1> USE DEF AskInv
<1>1. CASE TalkerInitialize
  <2>1. LinkInv' /\ idOf' = idOf /\ NoNewWait
        BY <1>1 DEF NoNewWait, TalkerInitialize, initializeSucceeds, initializeFails, LinkInv,
           Connected, Waiting, cynaraVars
  <2>2. \A id : Accounted(id) => Accounted(id)'
    <3>1. CASE UNCHANGED queueVars
          BY <1>1, <3>1 DEF TalkerInitialize, Accounted, ActionOnItsWay, Known, queueVars, mainVars
    <3>2. CASE requestHandler(CloseRequest)
          BY <1>1, <3>2, HandlerAccounts, CloseRequestType DEF TalkerInitialize, mainVars
    <3> QED BY <1>1, <3>1, <3>2 DEF TalkerInitialize
  <2> QED BY <2>1, <2>2, AccountedSuffices
<1>2. ASSUME NEW a \in Asks, NEW id \in Ids, TalkerReceivesAction(a, id)
      PROVE  LinkInv' /\ NoForgottenAsk'
  <2> DEFINE r == [type |-> "RT_Action", id |-> id, data |-> a]
  <2>1. r \in Request
        BY DEF Request
  <2>2. \A x : (Accounted(x) => Accounted(x)') /\ (x = id => Accounted(x)')
        BY <1>2, <2>1, HandlerAccounts DEF TalkerReceivesAction, mainVars
  <2>3. /\ \A b \in Asks : Waiting(b)' => b = a \/ Waiting(b)
        /\ \A b \in Asks : b # a => idOf'[b] = idOf[b]
        /\ idOf'[a] = id
        /\ unheard' = unheard
        /\ LinkInv'
        BY <1>2 DEF TalkerReceivesAction, SendAction, getRequest, talkerVars, Waiting, LinkInv,
           Connected, TypeInv,
           TypeOK, CynaraTypeOK
  <2>4. ASSUME NEW b \in Asks, Waiting(b)', b \notin unheard', NEW x, x = idOf'[b]
        PROVE  Accounted(x)'
        BY <2>2, <2>3, <2>4 DEF NoForgottenAsk, Accounted
  <2>5. ASSUME NEW b \in Asks, Waiting(b)', b \notin unheard'
        PROVE  (ActionOnItsWay(idOf[b]) \/ Known(idOf[b]))'
        BY <2>4, <2>5 DEF Accounted, ActionOnItsWay, Known
  <2> QED BY <2>3, <2>5 DEF NoForgottenAsk
<1>3. ASSUME NEW a \in Asks, TalkerReceivesCancel(a) PROVE LinkInv' /\ NoForgottenAsk'
  <2> DEFINE r == [type |-> "RT_Cancel", id |-> idOf[a], data |-> NoAsk]
  <2>1. r \in Request
        BY <1>3 DEF TalkerReceivesCancel, SendCancel, TypeInv, WaitingHasId, Waiting, Request
  <2>2. \A x : Accounted(x) => Accounted(x)'
        BY <1>3, <2>1, HandlerAccounts DEF TalkerReceivesCancel, mainVars
  <2>3. idOf' = idOf /\ LinkInv' /\ NoNewWait
        BY <1>3 DEF TalkerReceivesCancel, SendCancel, getRequest, talkerVars, NoNewWait, Waiting,
           LinkInv, Connected,
           TypeInv, TypeOK, CynaraTypeOK
  <2> QED BY <2>2, <2>3, AccountedSuffices
<1>4. ASSUME NEW a \in Asks, TalkerReceivesAgain(a) PROVE LinkInv' /\ NoForgottenAsk'
  <2> DEFINE r == [type |-> "RT_Action", id |-> idOf[a], data |-> a]
  <2>1. r \in Request
        BY <1>4 DEF TalkerReceivesAgain, ResendAction, TypeInv, WaitingHasId, Waiting, Request
  <2>2. \A x : Accounted(x) => Accounted(x)'
        BY <1>4, <2>1, HandlerAccounts DEF TalkerReceivesAgain, mainVars
  <2>3. idOf' = idOf /\ LinkInv' /\ NoNewWait
        BY <1>4 DEF TalkerReceivesAgain, ResendAction, getRequest, talkerVars, cynaraVars,
           NoNewWait,
           Waiting, LinkInv, Connected
  <2> QED BY <2>2, <2>3, AccountedSuffices
<1>5. CASE TalkerReceivesError
  <2>1. \A x : Accounted(x) => Accounted(x)'
        BY <1>5, HandlerAccounts, CloseRequestType DEF TalkerReceivesError, mainVars
  <2>2. idOf' = idOf /\ LinkInv' /\ NoNewWait
        BY <1>5 DEF TalkerReceivesError, getRequestFails, cynaraVars, NoNewWait, Waiting, LinkInv,
           Connected
  <2> QED BY <2>1, <2>2, AccountedSuffices
<1>6. CASE TalkerFinishes
      BY <1>6 DEF TalkerFinishes, finishConnection, Disconnect, Waiting, LinkInv, Connected,
         NoForgottenAsk,
         TypeInv, TypeOK, CynaraTypeOK
<1> QED BY <1>1, <1>2, <1>3, <1>4, <1>5, <1>6 DEF Talker

LEMMA AskInvOthers ==
    ASSUME AskInv,
           \/ \E id \in Ids : UIFinishes(id) \/ \E o \in Outcomes : UIResponds(id, o)
           \/ kill_handler \/ CynaraGone \/ UNCHANGED vars
    PROVE  LinkInv' /\ NoForgottenAsk'
<1> USE DEF AskInv
<1>1. CASE CynaraGone
      BY <1>1 DEF CynaraGone, Disconnect, Waiting, LinkInv, Connected, NoForgottenAsk, TypeInv,
         TypeOK,
         CynaraTypeOK, talkerVars
<1>2. CASE ~CynaraGone
  <2>1. UNCHANGED <<pc, request, m_requests, m_incomingRequests, cynaraVars, talkerVars>>
        BY <1>2 DEF UIFinishes, UIResponds, UIResponseHandler, kill_handler, vars, mainVars,
           queueVars
  <2>2. \A id : Accounted(id) => Accounted(id)'
        BY <2>1 DEF Accounted, ActionOnItsWay, Known
  <2>3. LinkInv' /\ idOf' = idOf /\ NoNewWait
        BY <2>1 DEF NoNewWait, LinkInv, Connected, Waiting, cynaraVars, talkerVars
  <2> QED BY <2>2, <2>3, AccountedSuffices
<1> QED BY <1>1, <1>2

LEMMA AskInvMain == AskInv /\ MainThread => LinkInv' /\ NoForgottenAsk'
<1> SUFFICES ASSUME AskInv, MainThread PROVE LinkInv' /\ NoForgottenAsk'
    OBVIOUS
<1> USE DEF AskInv
<1>1. CASE ProcessCancel
  <2>1. /\ LinkInv' /\ idOf' = idOf
        /\ NoNewWait
        /\ \A a \in Asks : Waiting(a)' => idOf[a] # request.id \/ a \in unheard'
        BY <1>1, SendResponseEnds DEF ProcessCancel, TypeInv, TypeOK
  <2>2. \A id \in Ids : id # request.id /\ Accounted(id) => Accounted(id)'
        BY <1>1 DEF ProcessCancel, Accounted, ActionOnItsWay, Known, TypeInv, TypeOK, queueVars
  <2> QED BY <2>1, <2>2, AccountedSuffices DEF TypeInv, WaitingHasId, NoNewWait
<1>2. CASE StartUIFails
  <2>1. /\ LinkInv' /\ idOf' = idOf
        /\ NoNewWait
        /\ \A a \in Asks : Waiting(a)' => idOf[a] # request.id \/ a \in unheard'
        BY <1>2, SendResponseEnds DEF StartUIFails, TypeInv, TypeOK
  <2>2. \A id : id # request.id /\ Accounted(id) => Accounted(id)'
        BY <1>2 DEF StartUIFails, Accounted, ActionOnItsWay, Known, queueVars
  <2> QED BY <2>1, <2>2, AccountedSuffices
<1>3. CASE ProcessUIResponse
  <2>1. CASE Known(response.id)
    <3>1. /\ LinkInv' /\ idOf' = idOf
          /\ NoNewWait
          /\ \A a \in Asks : Waiting(a)' => idOf[a] # response.id \/ a \in unheard'
          BY <1>3, <2>1, SendResponseEnds DEF ProcessUIResponse, TypeInv, TypeOK
    <3>2. \A id \in Ids : id # response.id => m_requests'[id] = m_requests[id]
          BY <1>3, <2>1 DEF ProcessUIResponse, TypeInv, TypeOK
    <3>3. /\ pc = "gotResponse" /\ pc' = "dismissAnswered"
          /\ UNCHANGED <<request, m_incomingRequests>>
          BY <1>3 DEF ProcessUIResponse, queueVars
    <3>4. \A id \in Ids : id # response.id /\ Accounted(id) => Accounted(id)'
          BY <3>2, <3>3 DEF Accounted, ActionOnItsWay, Known
    <3> QED BY <3>1, <3>4, AccountedSuffices DEF TypeInv, WaitingHasId, NoNewWait
  <2>2. CASE ~Known(response.id)
    <3>1. LinkInv' /\ idOf' = idOf /\ NoNewWait
          BY <1>3, <2>2 DEF NoNewWait, ProcessUIResponse, LinkInv, Connected, Waiting, cynaraVars,
             talkerVars
    <3>2. \A id : Accounted(id) => Accounted(id)'
          BY <1>3, <2>2 DEF ProcessUIResponse, Accounted, ActionOnItsWay, Known, queueVars
    <3> QED BY <3>1, <3>2, AccountedSuffices
  <2> QED BY <2>1, <2>2
<1>4. CASE StartTalker
  <2>1. LinkInv' /\ idOf' = idOf /\ NoNewWait
        BY <1>4 DEF NoNewWait, StartTalker, TalkerStart, LinkInv, Connected, Waiting, cynaraVars
  <2>2. \A id : Accounted(id) => Accounted(id)'
        BY <1>4 DEF StartTalker, Accounted, ActionOnItsWay, Known, queueVars
  <2> QED BY <2>1, <2>2, AccountedSuffices
<1>5. CASE FinishTalker
  <2>1. LinkInv' /\ idOf' = idOf /\ NoNewWait
        BY <1>5 DEF NoNewWait, FinishTalker, TalkerStop, Stoppable, LinkInv, Connected, Waiting,
           cynaraVars
  <2>2. CASE Stoppable
        BY <2>1, <2>2 DEF Stoppable, LinkInv, Connected, NoNewWait, NoForgottenAsk
  <2>3. CASE ~Stoppable
    <3>1. \A id : Accounted(id) => Accounted(id)'
          BY <1>5, <2>3 DEF FinishTalker, Accounted, ActionOnItsWay, Known
    <3> QED BY <2>1, <3>1, AccountedSuffices
  <2> QED BY <2>2, <2>3
<1>6. CASE Wake \/ LoopAgain \/ TakeResponse
  <2>1. LinkInv' /\ idOf' = idOf /\ NoNewWait
        BY <1>6 DEF NoNewWait, Wake, LoopAgain, TakeResponse, LinkInv, Connected, Waiting,
           cynaraVars, talkerVars
  <2>2. /\ pc \notin {"gotRequest", "aborted"} /\ UNCHANGED m_requests
        /\ \E next : PopRequest \/ PopResponse \/ NothingToPop(next)
        BY <1>6 DEF Wake, LoopAgain, TakeResponse, TakeNext
  <2>3. \A id : Accounted(id) => Accounted(id)'
        BY <2>2, PopAccounts
  <2> QED BY <2>1, <2>3, AccountedSuffices
<1>7. CASE FinishUIs
  <2>1. LinkInv' /\ \A a \in Asks : Waiting(a)' = Waiting(a)
        BY <1>7 DEF FinishUIs, LinkInv, Connected, Waiting, cynaraVars, talkerVars
  <2>2. \A a \in Asks : ~Waiting(a)
        BY <1>7 DEF FinishUIs, JoinInv, LinkInv, Connected
  <2> QED BY <2>1, <2>2 DEF NoForgottenAsk
<1>8. CASE \/ WaitForEvent \/ ProcessClose \/ IgnoreRequest \/ DismissCancelled
           \/ StartUI \/ StartUICollides \/ DismissAnswered \/ Cleanup
  <2>1. LinkInv' /\ idOf' = idOf /\ NoNewWait
        BY <1>8 DEF NoNewWait, WaitForEvent, ProcessClose, IgnoreRequest, DismissCancelled, StartUI,
           StartUICollides, DismissAnswered, Cleanup, LinkInv, Connected, Waiting, cynaraVars,
           talkerVars
  <2>2. CASE WaitForEvent \/ ProcessClose \/ DismissCancelled \/ DismissAnswered \/ Cleanup
    <3>1. \A id : Accounted(id) => Accounted(id)'
          BY <2>2 DEF WaitForEvent, ProcessClose, DismissCancelled, DismissAnswered, Cleanup,
             DoneWithRequest, Accounted, ActionOnItsWay, Known, queueVars
    <3> QED BY <2>1, <3>1, AccountedSuffices
  <2>3. CASE IgnoreRequest \/ StartUICollides
    <3>1. \A id : Accounted(id) => Accounted(id)'
          BY <2>3 DEF IgnoreRequest, StartUICollides, NewAction, DoneWithRequest, Accounted,
             ActionOnItsWay, Known, queueVars
    <3> QED BY <2>1, <3>1, AccountedSuffices
  <2>4. CASE StartUI
    <3>1. request \in Request /\ request.id \in Ids /\ request.data \in Asks
          BY <2>4, RequestFields DEF StartUI, NewAction, TypeInv, InHand
    <3>2. \A id \in Ids : Accounted(id) => Accounted(id)'
          BY <2>4, <3>1, NoAskAssumption DEF StartUI, DoneWithRequest, Accounted, ActionOnItsWay,
             Known,
             queueVars, TypeInv, TypeOK
    <3> QED BY <2>1, <3>2, AccountedSuffices DEF TypeInv, WaitingHasId, NoNewWait
  <2> QED BY <1>8, <2>2, <2>3, <2>4
<1> QED BY <1>1, <1>2, <1>3, <1>4, <1>5, <1>6, <1>7, <1>8 DEF MainThread

LEMMA JoinInvNext == JoinInv /\ [Next]_vars => JoinInv'
<1> SUFFICES ASSUME JoinInv, [Next]_vars PROVE JoinInv'
    OBVIOUS
<1>1. CASE MainThread
  <2>1. CASE FinishTalker
        BY <2>1 DEF FinishTalker, TalkerStop, JoinInv
  <2>2. CASE Wake \/ LoopAgain \/ TakeResponse
    <3>1. pc' # "finishUIs"
          BY <2>2 DEF Wake, LoopAgain, TakeResponse, TakeNext, PopRequest, PopResponse, NothingToPop
    <3> QED BY <3>1 DEF JoinInv
  <2>3. CASE ~(FinishTalker \/ Wake \/ LoopAgain \/ TakeResponse)
    <3>1. pc' # "finishUIs"
          BY <1>1, <2>3 DEF MainThread, StartTalker, WaitForEvent, ProcessClose, IgnoreRequest,
             ProcessCancel, DismissCancelled, StartUIFails, StartUI, StartUICollides,
             ProcessUIResponse, DismissAnswered, Cleanup, FinishUIs
    <3> QED BY <3>1 DEF JoinInv
  <2> QED BY <2>1, <2>2, <2>3
<1>2. CASE Talker
  <2>1. talker # "joined" /\ pc' = pc
        BY <1>2 DEF Talker, TalkerInitialize, initializeSucceeds, initializeFails,
           TalkerReceivesAction, TalkerReceivesCancel, TalkerReceivesAgain, getRequest,
           TalkerReceivesError, getRequestFails, TalkerFinishes, finishConnection, mainVars
  <2> QED BY <2>1 DEF JoinInv
<1>3. CASE ~(MainThread \/ Talker)
  <2>1. UNCHANGED <<pc, talker>>
        BY <1>3 DEF Next, UIFinishes, UIResponds, kill_handler, CynaraGone, ProcessEnded, vars,
           mainVars, talkerVars
  <2> QED BY <2>1 DEF JoinInv
<1> QED BY <1>1, <1>2, <1>3

(* Whatever ids cynara uses and however often it repeats itself, a check   *)
(* it waits for is in the queue of requests or in m_requests, unless a     *)
(* response to it could not be sent.                                       *)
THEOREM ForgetsNoAsk == Spec => []NoForgottenAsk
<1>1. Init => AskInv
  <2>1. Init => JoinInv
        BY DEF Init, JoinInv
  <2>2. Init => NoForgottenAsk
        BY DEF Init, CynaraInit, NoForgottenAsk, Waiting
  <2> QED BY <2>1, <2>2, TypeInvInit, LinkInvInit DEF AskInv
<1>2. AskInv /\ [Next]_vars => AskInv'
  <2> SUFFICES ASSUME AskInv, [Next]_vars PROVE AskInv'
      OBVIOUS
  <2>1. TypeInv' /\ JoinInv'
        BY TypeInvNext, JoinInvNext DEF AskInv
  <2>2. LinkInv' /\ NoForgottenAsk'
        BY AskInvMain, AskInvTalker, AskInvOthers DEF Next, ProcessEnded
  <2> QED BY <2>1, <2>2 DEF AskInv
<1>3. AskInv => NoForgottenAsk
      BY DEF AskInv
<1> QED BY <1>1, <1>2, <1>3, PTL DEF Spec
-----------------------------------------------------------------------------
(* No accepted request is orphaned.  The strengthening: when a dialog is   *)
(* dismissed, its request has left m_requests, and a thread belongs to an  *)
(* object of m_UIs.                                                        *)
DismissedIsUnknown ==
    /\ pc = "dismissCancelled" => ~Known(request.id)
    /\ pc = "dismissAnswered" => ~Known(response.id)

ThreadHasUI == \A id \in Ids : ~HasUI(id) => m_thread[id] = "none"

OrphanInv == TypeInv /\ DismissedIsUnknown /\ ThreadHasUI /\ NoOrphanRequest

(* dismiss leaves alone every object it is not called on.                  *)
LEMMA DismissKeeps ==
    ASSUME NEW S \in SUBSET Ids, UITypeOK, ThreadHasUI, dismiss(S)
    PROVE  /\ \A id \in Ids \ S : /\ m_UIs'[id] = m_UIs[id]
                                  /\ m_thread'[id] = m_thread[id]
                                  /\ m_dismissing'[id] = m_dismissing[id]
           /\ ThreadHasUI'
<1>1. \A id \in Ids \ S : /\ m_UIs'[id] = m_UIs[id]
                          /\ m_thread'[id] = m_thread[id]
                          /\ m_dismissing'[id] = m_dismissing[id]
      BY DEF dismiss, Joined, UITypeOK
<1>2. ThreadHasUI'
      BY DEF dismiss, ThreadHasUI, HasUI
<1> QED BY <1>1, <1>2

(* A response that comes keeps those that are on their way, and is on its. *)
LEMMA ResponseKept ==
    ASSUME TypeInv, NEW id \in Ids, NEW t \in UIResponseType, UIResponseHandler(id, t),
           UNCHANGED <<pc, response>>, NEW x
    PROVE  /\ ResponseOnItsWay(x) => ResponseOnItsWay(x)'
           /\ ResponseOnItsWay(id)'
<1> DEFINE r == [id |-> id, type |-> t]
<1>1. /\ r \in Response /\ m_incomingResponses \in Seq(Response)
      /\ m_incomingResponses' = Append(m_incomingResponses, r)
      BY DEF Response, TypeInv, TypeOK, UIResponseHandler
<1> HIDE DEF r
<1>2. /\ \A i \in DOMAIN m_incomingResponses :
            i \in DOMAIN m_incomingResponses' /\ m_incomingResponses'[i] = m_incomingResponses[i]
      /\ Len(m_incomingResponses) + 1 \in DOMAIN m_incomingResponses'
      /\ m_incomingResponses'[Len(m_incomingResponses) + 1] = r
      BY <1>1, AppendKeeps
<1>3. r.id = id
      BY DEF r
<1> QED BY <1>2, <1>3 DEF ResponseOnItsWay

LEMMA PopKeepsResponses ==
    ASSUME TypeInv, pc # "gotResponse", NEW next, PopRequest \/ PopResponse \/ NothingToPop(next),
           NEW id
    PROVE  ResponseOnItsWay(id) => ResponseOnItsWay(id)'
<1>1. CASE PopResponse
  <2>1. /\ m_incomingResponses \in Seq(Response) /\ m_incomingResponses # <<>>
        /\ m_incomingResponses' = Tail(m_incomingResponses)
        BY <1>1 DEF PopResponse, TypeInv, TypeOK
  <2>2. /\ \A i \in DOMAIN m_incomingResponses :
              i = 1 \/ (i - 1 \in DOMAIN m_incomingResponses'
                          /\ m_incomingResponses'[i - 1] = m_incomingResponses[i])
        /\ m_incomingResponses[1] = Head(m_incomingResponses)
        BY <2>1, TailKeeps
  <2> QED BY <1>1, <2>2 DEF ResponseOnItsWay, PopResponse
<1>2. CASE PopRequest \/ NothingToPop(next)
      BY <1>2 DEF PopRequest, NothingToPop, ResponseOnItsWay
<1> QED BY <1>1, <1>2

(* A step that touches no object, no thread and no accepted request.       *)
LEMMA ServedKept ==
    ASSUME OrphanInv, UNCHANGED <<m_requests, uiVars>>,
           \A id \in Ids : ResponseOnItsWay(id) => ResponseOnItsWay(id)'
    PROVE  ThreadHasUI' /\ NoOrphanRequest'
BY DEF OrphanInv, ThreadHasUI, HasUI, NoOrphanRequest, Known, uiVars

LEMMA OrphanInvThreads ==
    ASSUME OrphanInv,
           \/ Talker \/ kill_handler \/ CynaraGone \/ UNCHANGED vars
           \/ \E id \in Ids : UIFinishes(id) \/ \E o \in Outcomes : UIResponds(id, o)
    PROVE  DismissedIsUnknown' /\ ThreadHasUI' /\ NoOrphanRequest'
<1>1. CASE Talker \/ kill_handler \/ CynaraGone \/ UNCHANGED vars
  <2>1. UNCHANGED <<pc, request, response, m_requests, m_incomingResponses, uiVars>>
        BY <1>1 DEF Talker, TalkerInitialize, TalkerReceivesAction, TalkerReceivesCancel,
           TalkerReceivesAgain, TalkerReceivesError, TalkerFinishes, requestHandler, kill_handler,
           CynaraGone, vars, mainVars, queueVars, uiVars
  <2>2. DismissedIsUnknown'
        BY <2>1 DEF OrphanInv, DismissedIsUnknown, Known
  <2>3. \A id \in Ids : ResponseOnItsWay(id) => ResponseOnItsWay(id)'
        BY <2>1 DEF ResponseOnItsWay
  <2> QED BY <2>1, <2>2, <2>3, ServedKept
<1>2. ASSUME NEW id \in Ids, UIFinishes(id)
      PROVE  DismissedIsUnknown' /\ ThreadHasUI' /\ NoOrphanRequest'
  <2>1. /\ UNCHANGED <<pc, request, response, m_requests, m_incomingResponses, m_UIs, m_dismissing>>
        /\ m_thread[id] = "called"
        /\ m_thread' = [m_thread EXCEPT ![id] = "finished"]
        BY <1>2 DEF UIFinishes, setFinished, mainVars, queueVars
  <2>2. \A x \in Ids : m_thread'[x] = m_thread[x] \/ (x = id /\ m_thread'[x] = "finished")
        BY <2>1 DEF OrphanInv, TypeInv, TypeOK, UITypeOK
  <2> QED
      BY <2>1, <2>2 DEF OrphanInv, DismissedIsUnknown, Known, ThreadHasUI, HasUI, NoOrphanRequest,
         ResponseOnItsWay
<1>3. ASSUME NEW id \in Ids, NEW o \in Outcomes, UIResponds(id, o)
      PROVE  DismissedIsUnknown' /\ ThreadHasUI' /\ NoOrphanRequest'
  <2>1. /\ UNCHANGED <<pc, request, response, m_requests, m_UIs, m_dismissing>>
        /\ UIResponseHandler(id, RunResponse(o))
        /\ m_thread[id] = "waiting"
        /\ m_thread' = [m_thread EXCEPT ![id] = "called"]
        BY <1>3 DEF UIResponds, waitResponse, mainVars
  <2>2. \A x \in Ids : m_thread'[x] = m_thread[x] \/ x = id
        BY <2>1 DEF OrphanInv, TypeInv, TypeOK, UITypeOK
  <2>3. /\ \A x : ResponseOnItsWay(x) => ResponseOnItsWay(x)'
        /\ ResponseOnItsWay(id)'
        BY <2>1, ResponseKept, RunResponseType DEF OrphanInv
  <2>4. DismissedIsUnknown'
        BY <2>1 DEF OrphanInv, DismissedIsUnknown, Known
  <2>5. ThreadHasUI'
        BY <2>1, <2>2 DEF OrphanInv, ThreadHasUI, HasUI
  <2>6. NoOrphanRequest'
        BY <2>1, <2>2, <2>3 DEF OrphanInv, NoOrphanRequest, Known, HasUI
  <2> QED BY <2>4, <2>5, <2>6
<1> QED BY <1>1, <1>2, <1>3

(* A dismissal of objects whose requests are unknown.                      *)
LEMMA DismissServes ==
    ASSUME OrphanInv, NEW S \in SUBSET Ids, dismiss(S), \A id \in S : ~Known(id),
           UNCHANGED m_requests, \A id \in Ids : ResponseOnItsWay(id) => ResponseOnItsWay(id)'
    PROVE  ThreadHasUI' /\ NoOrphanRequest'
<1>1. /\ \A id \in Ids \ S : /\ m_UIs'[id] = m_UIs[id]
                             /\ m_thread'[id] = m_thread[id]
                             /\ m_dismissing'[id] = m_dismissing[id]
      /\ ThreadHasUI'
      BY DismissKeeps DEF OrphanInv, TypeInv, TypeOK
<1>2. ASSUME NEW id \in Ids, Known(id)'
      PROVE  HasUI(id)' /\ ~m_dismissing'[id] /\ (m_thread'[id] # "waiting" => ResponseOnItsWay(id)')
  <2>1. Known(id) /\ id \in Ids \ S
        BY <1>2 DEF Known
  <2> QED BY <1>1, <2>1 DEF OrphanInv, NoOrphanRequest, HasUI
<1> QED BY <1>1, <1>2 DEF NoOrphanRequest

LEMMA OrphanInvMain ==
    OrphanInv /\ MainThread => DismissedIsUnknown' /\ ThreadHasUI' /\ NoOrphanRequest'
<1> SUFFICES ASSUME OrphanInv, MainThread
             PROVE  DismissedIsUnknown' /\ ThreadHasUI' /\ NoOrphanRequest'
    OBVIOUS
<1>1. CASE ProcessCancel
  <2>1. request.id \in Ids
        BY <1>1, RequestFields DEF ProcessCancel, OrphanInv, TypeInv, InHand
  <2>2. /\ ~Known(request.id)'
        /\ \A id \in Ids : Known(id)' => Known(id)
        /\ UNCHANGED <<request, m_incomingResponses, uiVars>> /\ pc' = "dismissCancelled"
        /\ pc # "gotResponse"
        BY <1>1, <2>1 DEF ProcessCancel, Known, OrphanInv, TypeInv, TypeOK, queueVars
  <2>3. \A id \in Ids : ResponseOnItsWay(id) => ResponseOnItsWay(id)'
        BY <2>2 DEF ResponseOnItsWay
  <2> QED
      BY <2>2, <2>3 DEF OrphanInv, DismissedIsUnknown, Known, ThreadHasUI, HasUI, NoOrphanRequest,
         uiVars
<1>2. CASE ProcessUIResponse
  <2>1. response.id \in Ids
        BY <1>2 DEF ProcessUIResponse, OrphanInv, TypeInv, InHand, Response
  <2>2. /\ ~Known(response.id)'
        /\ \A id \in Ids : Known(id)' => Known(id) /\ id # response.id
        /\ UNCHANGED <<response, m_incomingResponses, uiVars>> /\ pc' = "dismissAnswered"
    <3>1. CASE Known(response.id)
          BY <1>2, <2>1, <3>1 DEF ProcessUIResponse, Known, OrphanInv, TypeInv, TypeOK, queueVars
    <3>2. CASE ~Known(response.id)
          BY <1>2, <3>2 DEF ProcessUIResponse, Known, queueVars
    <3> QED BY <3>1, <3>2
  <2>3. \A id \in Ids : id # response.id /\ ResponseOnItsWay(id) => ResponseOnItsWay(id)'
        BY <2>2 DEF ResponseOnItsWay
  <2>4. NoOrphanRequest'
    <3>1. ASSUME NEW id \in Ids, Known(id)'
          PROVE  HasUI(id)' /\ ~m_dismissing'[id]
                 /\ (m_thread'[id] # "waiting" => ResponseOnItsWay(id)')
          BY <2>2, <2>3, <3>1 DEF OrphanInv, NoOrphanRequest, HasUI, uiVars
    <3> QED BY <3>1 DEF NoOrphanRequest
  <2> QED BY <2>2, <2>4 DEF OrphanInv, DismissedIsUnknown, Known, ThreadHasUI, HasUI, uiVars
<1>3. CASE DismissCancelled
  <2>1. /\ ~Known(request.id) /\ UNCHANGED <<m_requests, m_incomingResponses>>
        /\ pc # "gotResponse" /\ pc' = "takeResponse"
        BY <1>3 DEF DismissCancelled, OrphanInv, DismissedIsUnknown, queueVars
  <2>2. dismiss({request.id} \cap {i \in Ids : HasUI(i)})
        BY <1>3 DEF DismissCancelled, dismissUI
  <2>3. ThreadHasUI' /\ NoOrphanRequest'
        BY <2>1, <2>2, DismissServes DEF ResponseOnItsWay
  <2> QED BY <2>1, <2>3 DEF DismissedIsUnknown
<1>4. CASE DismissAnswered
  <2>1. /\ ~Known(response.id) /\ UNCHANGED <<m_requests, m_incomingResponses>>
        /\ pc # "gotResponse" /\ pc' = "cleanup"
        BY <1>4 DEF DismissAnswered, OrphanInv, DismissedIsUnknown, queueVars
  <2>2. dismiss({response.id} \cap {i \in Ids : HasUI(i)})
        BY <1>4 DEF DismissAnswered, dismissUI
  <2>3. ThreadHasUI' /\ NoOrphanRequest'
        BY <2>1, <2>2, DismissServes DEF ResponseOnItsWay
  <2> QED BY <2>1, <2>3 DEF DismissedIsUnknown
<1>5. CASE Cleanup \/ FinishUIs
  <2> DEFINE S == {id \in Ids : HasUI(id) /\ m_dismissing[id]}
  <2>1. \A id \in S : ~Known(id)
        BY DEF OrphanInv, NoOrphanRequest
  <2>2. dismiss(S) /\ pc # "gotResponse" /\ UNCHANGED m_incomingResponses
        /\ pc' \notin {"dismissCancelled", "dismissAnswered"}
        BY <1>5 DEF Cleanup, FinishUIs, cleanupUIThreads, queueVars
  <2>3. CASE UNCHANGED m_requests
    <3>1. ThreadHasUI' /\ NoOrphanRequest'
          BY <2>1, <2>2, <2>3, DismissServes DEF ResponseOnItsWay
    <3> QED BY <2>2, <3>1 DEF DismissedIsUnknown
  <2>4. CASE m_requests' = [id \in Ids |-> NoAsk]
    <3>1. ThreadHasUI'
          BY <2>2, DismissKeeps DEF OrphanInv, TypeInv, TypeOK
    <3> QED BY <2>2, <2>4, <3>1 DEF DismissedIsUnknown, NoOrphanRequest, Known
  <2> QED BY <1>5, <2>3, <2>4 DEF Cleanup, FinishUIs
<1>6. CASE StartUI
  <2>1. request.id \in Ids /\ request.data \in Asks
        BY <1>6, RequestFields DEF StartUI, NewAction, OrphanInv, TypeInv, InHand
  <2>2. /\ m_UIs'[request.id] # NoAsk
        /\ m_thread'[request.id] = "waiting"
        /\ ~m_dismissing'[request.id]
        /\ \A id \in Ids : id # request.id =>
               /\ m_UIs'[id] = m_UIs[id]
               /\ m_thread'[id] = m_thread[id]
               /\ m_dismissing'[id] = m_dismissing[id]
               /\ m_requests'[id] = m_requests[id]
        BY <1>6, <2>1, NoAskAssumption DEF StartUI, startUI, OrphanInv, TypeInv, TypeOK, UITypeOK
  <2>3. pc # "gotResponse" /\ pc' = "takeResponse" /\ UNCHANGED m_incomingResponses
        BY <1>6 DEF StartUI, NewAction, queueVars
  <2>4. \A id \in Ids : ResponseOnItsWay(id) => ResponseOnItsWay(id)'
        BY <2>3 DEF ResponseOnItsWay
  <2>5. ThreadHasUI' /\ NoOrphanRequest'
        BY <2>2, <2>4 DEF OrphanInv, ThreadHasUI, HasUI, NoOrphanRequest, Known
  <2> QED BY <2>3, <2>5 DEF DismissedIsUnknown
<1>7. CASE Wake \/ LoopAgain \/ TakeResponse
  <2>1. /\ pc # "gotResponse" /\ UNCHANGED <<m_requests, uiVars>>
        /\ \E next \in {"finishTalker", "loop", "cleanup"} :
               PopRequest \/ PopResponse \/ NothingToPop(next)
        BY <1>7 DEF Wake, LoopAgain, TakeResponse, TakeNext
  <2>2. pc' \notin {"dismissCancelled", "dismissAnswered"}
        BY <2>1 DEF PopRequest, PopResponse, NothingToPop
  <2>3. \A id \in Ids : ResponseOnItsWay(id) => ResponseOnItsWay(id)'
        BY <2>1, PopKeepsResponses DEF OrphanInv
  <2> QED BY <2>1, <2>2, <2>3, ServedKept DEF DismissedIsUnknown
<1>8. CASE \/ StartTalker \/ WaitForEvent \/ ProcessClose \/ IgnoreRequest
           \/ StartUIFails \/ StartUICollides \/ FinishTalker
  <2>1. /\ UNCHANGED <<m_requests, m_incomingResponses, uiVars>>
        /\ pc # "gotResponse"
        /\ pc' \notin {"dismissCancelled", "dismissAnswered"}
        BY <1>8 DEF StartTalker, WaitForEvent, ProcessClose, IgnoreRequest, StartUIFails, NewAction,
           StartUICollides, FinishTalker, queueVars
  <2>2. \A id \in Ids : ResponseOnItsWay(id) => ResponseOnItsWay(id)'
        BY <2>1 DEF ResponseOnItsWay
  <2> QED BY <2>1, <2>2, ServedKept DEF DismissedIsUnknown
<1> QED BY <1>1, <1>2, <1>3, <1>4, <1>5, <1>6, <1>7, <1>8 DEF MainThread

LEMMA OrphanInvAlways == Spec => []OrphanInv
<1>1. Init => OrphanInv
  <2>1. Init => DismissedIsUnknown /\ ThreadHasUI /\ NoOrphanRequest
        BY DEF Init, UIInit, DismissedIsUnknown, ThreadHasUI, NoOrphanRequest, Known
  <2> QED BY <2>1, TypeInvInit DEF OrphanInv
<1>2. OrphanInv /\ [Next]_vars => OrphanInv'
  <2> SUFFICES ASSUME OrphanInv, [Next]_vars PROVE OrphanInv'
      OBVIOUS
  <2>1. TypeInv'
        BY TypeInvNext DEF OrphanInv
  <2>2. DismissedIsUnknown' /\ ThreadHasUI' /\ NoOrphanRequest'
        BY OrphanInvMain, OrphanInvThreads DEF Next, ProcessEnded
  <2> QED BY <2>1, <2>2 DEF OrphanInv
<1> QED BY <1>1, <1>2, PTL DEF Spec

(* Every accepted request has a dialog that will answer it, whatever ids   *)
(* cynara uses and however often it repeats itself.                        *)
THEOREM OrphansNoRequest == Spec => []NoOrphanRequest
<1>1. OrphanInv => NoOrphanRequest
      BY DEF OrphanInv
<1> QED BY <1>1, OrphanInvAlways, PTL

(* A clean stop throws no accepted request away and leaves no dialog.      *)
THEOREM CleanStopIsClean == Spec => CleanStopAbandonsNothing
<1>1. ASSUME OrphanInv, [Next]_vars, pc = "finishUIs", pc' = "stopped"
      PROVE  \A id \in Ids : ~Known(id) /\ m_thread[id] \in {"none", "finished"}
  <2>1. FinishUIs
    <3>1. pc # pc'
          BY <1>1
    <3>2. MainThread
          BY <1>1, <3>1 DEF Next, Talker, TalkerInitialize, TalkerReceivesAction,
             TalkerReceivesCancel,
             TalkerReceivesAgain, TalkerReceivesError, TalkerFinishes, UIFinishes, UIResponds,
             kill_handler, CynaraGone, ProcessEnded, vars, mainVars
    <3> QED
        BY <1>1, <3>2 DEF MainThread, StartTalker, WaitForEvent, Wake, LoopAgain, TakeResponse,
           ProcessClose, IgnoreRequest, ProcessCancel, DismissCancelled, StartUIFails, StartUI,
           NewAction, StartUICollides, ProcessUIResponse, DismissAnswered, Cleanup, FinishTalker
  <2>2. AllUIsCleaned
        BY <1>1, <2>1 DEF FinishUIs
  <2> QED BY <1>1, <2>2 DEF AllUIsCleaned, OrphanInv, NoOrphanRequest, ThreadHasUI
<1> QED BY <1>1, OrphanInvAlways, PTL DEF Spec, CleanStopAbandonsNothing
=============================================================================
