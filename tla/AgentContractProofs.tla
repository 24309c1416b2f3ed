------------------------- MODULE AgentContractProofs ------------------------
(***************************************************************************)
(* The agent implements AgentContract, for every set of checks, ids and    *)
(* outcomes, when cynara uses an id for one check only and delivers each   *)
(* Action request once.                                                    *)
(***************************************************************************)
EXTENDS AgentProofs
-----------------------------------------------------------------------------
(* RT_Close is the last word of the talker: once it is queued, the talker  *)
(* is past the places where it queues anything.                            *)
Silent == talker \in {"closing", "finished", "returned", "joined"}

CloseInv ==
    /\ CloseIsLast
    /\ (\E i \in DOMAIN m_incomingRequests : m_incomingRequests[i].type = "RT_Close") => Silent

LEMMA CloseInvAppend ==
    ASSUME TypeInv, CloseInv, ~Silent, NEW r \in Request, requestHandler(r),
           r.type = "RT_Close" => Silent'
    PROVE  CloseInv'
<1>1. m_incomingRequests \in Seq(Request) /\ m_incomingRequests' = Append(m_incomingRequests, r)
      BY DEF TypeInv, TypeOK, requestHandler
<1>2. /\ \A i \in DOMAIN m_incomingRequests : m_incomingRequests'[i] = m_incomingRequests[i]
      /\ m_incomingRequests'[Len(m_incomingRequests) + 1] = r
      /\ Len(m_incomingRequests') = Len(m_incomingRequests) + 1
      /\ \A i \in DOMAIN m_incomingRequests' :
             i \in DOMAIN m_incomingRequests \/ i = Len(m_incomingRequests) + 1
      BY <1>1, AppendKeeps
<1>3. \A i \in DOMAIN m_incomingRequests : m_incomingRequests[i].type # "RT_Close"
      BY DEF CloseInv
<1> QED BY <1>2, <1>3 DEF CloseInv, CloseIsLast, Silent

LEMMA CloseInvKept ==
    ASSUME CloseInv, Silent => Silent', TypeInv,
           \/ m_incomingRequests' = m_incomingRequests
           \/ m_incomingRequests' = <<>>
           \/ m_incomingRequests # <<>> /\ m_incomingRequests' = Tail(m_incomingRequests)
    PROVE  CloseInv'
<1>1. m_incomingRequests \in Seq(Request)
      BY DEF TypeInv, TypeOK
<1>2. CASE m_incomingRequests' = m_incomingRequests
      BY <1>2 DEF CloseInv, CloseIsLast
<1>3. CASE m_incomingRequests' = <<>>
      BY <1>3 DEF CloseInv, CloseIsLast
<1>4. CASE m_incomingRequests # <<>> /\ m_incomingRequests' = Tail(m_incomingRequests)
  <2>1. /\ Len(m_incomingRequests') = Len(m_incomingRequests) - 1
        /\ \A i \in DOMAIN m_incomingRequests' :
               i + 1 \in DOMAIN m_incomingRequests
                 /\ m_incomingRequests'[i] = m_incomingRequests[i + 1]
        BY <1>1, <1>4, TailKeeps
  <2>2. DOMAIN m_incomingRequests' \subseteq Nat /\ Len(m_incomingRequests) \in Nat
        BY <1>1, <1>4
  <2> QED BY <2>1, <2>2 DEF CloseInv, CloseIsLast
<1> QED BY <1>2, <1>3, <1>4

LEMMA CloseInvNext == TypeInv /\ CloseInv /\ [Next]_vars => CloseInv'
<1> SUFFICES ASSUME TypeInv, CloseInv, [Next]_vars PROVE CloseInv'
    OBVIOUS
<1>1. ASSUME NEW r \in Request, requestHandler(r), ~Silent, r.type = "RT_Close" => Silent'
      PROVE  CloseInv'
      BY <1>1, CloseInvAppend
<1>2. CASE Talker
  <2>1. CASE TalkerInitialize
    <3>1. CASE initializeSucceeds /\ UNCHANGED queueVars
          BY <3>1, CloseInvKept DEF initializeSucceeds, Silent, queueVars
    <3>2. CASE initializeFails /\ requestHandler(CloseRequest)
          BY <1>1, <3>2, CloseRequestType DEF initializeFails, Silent
    <3> QED BY <2>1, <3>1, <3>2 DEF TalkerInitialize
  <2>2. ASSUME NEW a \in Asks, NEW id \in Ids, TalkerReceivesAction(a, id) PROVE CloseInv'
    <3>1. [type |-> "RT_Action", id |-> id, data |-> a] \in Request
          BY DEF Request
    <3> QED BY <1>1, <2>2, <3>1 DEF TalkerReceivesAction, getRequest, Silent
  <2>3. ASSUME NEW a \in Asks, TalkerReceivesCancel(a) PROVE CloseInv'
    <3>1. [type |-> "RT_Cancel", id |-> idOf[a], data |-> NoAsk] \in Request
          BY <2>3 DEF TalkerReceivesCancel, SendCancel, TypeInv, WaitingHasId, Waiting, Request
    <3> QED BY <1>1, <2>3, <3>1 DEF TalkerReceivesCancel, getRequest, Silent
  <2>4. ASSUME NEW a \in Asks, TalkerReceivesAgain(a) PROVE CloseInv'
    <3>1. [type |-> "RT_Action", id |-> idOf[a], data |-> a] \in Request
          BY <2>4 DEF TalkerReceivesAgain, ResendAction, TypeInv, WaitingHasId, Waiting, Request
    <3> QED BY <1>1, <2>4, <3>1 DEF TalkerReceivesAgain, getRequest, Silent
  <2>5. CASE TalkerReceivesError
        BY <1>1, <2>5, CloseRequestType DEF TalkerReceivesError, getRequestFails, Silent
  <2>6. CASE TalkerFinishes
        BY <2>6, CloseInvKept DEF TalkerFinishes, finishConnection, Silent, queueVars
  <2> QED BY <1>2, <2>1, <2>2, <2>3, <2>4, <2>5, <2>6 DEF Talker
<1>3. CASE MainThread
  <2>1. Silent => Silent'
        BY <1>3 DEF MainThread, StartTalker, TalkerStart, WaitForEvent, Wake, LoopAgain, TakeResponse,
           ProcessClose, IgnoreRequest, ProcessCancel, DismissCancelled, StartUIFails, StartUI,
           StartUICollides, ProcessUIResponse, DismissAnswered, Cleanup, FinishTalker, TalkerStop,
           FinishUIs, sendResponse, talkerVars, Silent
  <2>2. \/ m_incomingRequests' = m_incomingRequests
        \/ m_incomingRequests' = <<>>
        \/ m_incomingRequests # <<>> /\ m_incomingRequests' = Tail(m_incomingRequests)
        BY <1>3 DEF MainThread, StartTalker, WaitForEvent, Wake, LoopAgain, TakeResponse, TakeNext,
           PopRequest, PopResponse, NothingToPop, ProcessClose, IgnoreRequest, ProcessCancel,
           DismissCancelled, StartUIFails, StartUI, StartUICollides, ProcessUIResponse,
           DismissAnswered, Cleanup, FinishTalker, FinishUIs, queueVars
  <2> QED BY <2>1, <2>2, CloseInvKept
<1>4. CASE ~(Talker \/ MainThread)
  <2>1. UNCHANGED <<m_incomingRequests, talker>>
        BY <1>4 DEF Next, UIFinishes, UIResponds, UIResponseHandler, kill_handler, CynaraGone,
           ProcessEnded, vars, queueVars, talkerVars
  <2> QED BY <2>1, CloseInvKept DEF Silent
<1> QED BY <1>2, <1>3, <1>4

(* Nothing is queued behind RT_Close, whatever cynara does.                *)
THEOREM ClosesLast == Spec => []CloseIsLast
<1>1. Init => CloseInv
  <2>1. DOMAIN <<>> = {}
        OBVIOUS
  <2> QED BY <2>1 DEF Init, CloseInv, CloseIsLast
<1>2. CloseInv => CloseIsLast
      BY DEF CloseInv
<1> QED BY <1>1, <1>2, CloseInvNext, TypeInvAlways, PTL DEF Spec
-----------------------------------------------------------------------------
(* The ledger.  An id names one check for good, so what is known about the *)
(* check can be followed under its id: from the Action request on its way  *)
(* to the main thread, to the accepted request and its dialog, to the      *)
(* response of the dialog.  The contract holds because no two of the       *)
(* places where an answer is prepared hold the same check, and none holds  *)
(* a check whose one response was lost.                                    *)
Open(a) == status[a] \in {"pending", "cancelling", "lost"}

(* A request the main thread has still to act on, a response likewise.     *)
InSight(r) ==
    \/ \E i \in DOMAIN m_incomingRequests : m_incomingRequests[i] = r
    \/ pc = "gotRequest" /\ request = r

Due(r) ==
    \/ \E i \in DOMAIN m_incomingResponses : m_incomingResponses[i] = r
    \/ pc = "gotResponse" /\ response = r

AskLedger ==
    /\ \A a \in Asks :
         /\ status[a] = "unsent" => idOf[a] = NoId /\ verdict[a] = NoOutcome
         /\ status[a] # "unsent" => idOf[a] \in Ids
         /\ status[a] # "replied" => reply[a].type = "none"
         /\ status[a] = "lost" => ~link
         /\ a \in unheard => Waiting(a)
    /\ \A a, b \in Asks : idOf[a] = idOf[b] /\ idOf[a] \in Ids => a = b

Entered(id) ==
    idOf[m_requests[id]] = id /\ Open(m_requests[id]) /\ m_requests[id] \notin unheard

RequestLedger == \A id \in Ids : Known(id) => Entered(id)

DialogLedger ==
    \A id \in Ids : HasUI(id) =>
        /\ idOf[m_UIs[id]] = id
        /\ m_thread[id] = "waiting" =>
             verdict[m_UIs[id]] = NoOutcome /\ reply[m_UIs[id]].type # "RT_Action"

SoundAction(r) ==
    /\ idOf[r.data] = r.id
    /\ Open(r.data)
    /\ r.data \notin unheard
    /\ verdict[r.data] = NoOutcome
    /\ ~Known(r.id)
    /\ ~HasUI(r.id)

SoundCancel(r) == \E a \in Asks : idOf[a] = r.id /\ status[a] # "pending"

IncomingLedger ==
    \A r \in Request : InSight(r) =>
        /\ r.type = "RT_Action" => SoundAction(r)
        /\ r.type = "RT_Cancel" => SoundCancel(r)

ActionInHand == pc = "gotRequest" /\ request.type = "RT_Action"

IsActionAt(i) == m_incomingRequests[i].type = "RT_Action"

OneAction ==
    \A i \in DOMAIN m_incomingRequests : IsActionAt(i) =>
        /\ ActionInHand => m_incomingRequests[i].id # request.id
        /\ \A j \in DOMAIN m_incomingRequests :
               IsActionAt(j) /\ m_incomingRequests[j].id = m_incomingRequests[i].id => i = j

ResponseLedger ==
    \A r \in Response : Due(r) =>
        \E a \in Asks : /\ idOf[a] = r.id
                        /\ verdict[a] \in Outcomes
                        /\ r.type = RunResponse(verdict[a])

Ledger ==
    /\ AskLedger
    /\ RequestLedger
    /\ DialogLedger
    /\ IncomingLedger
    /\ OneAction
    /\ ResponseLedger
    /\ AnswerIsUsersOwn
    /\ NoStrayReply
-----------------------------------------------------------------------------
(* The queues.  A step that appends puts one more request or response in   *)
(* sight; popping and clearing put none.                                   *)
LEMMA AppendInSight ==
    ASSUME TypeInv, NEW r \in Request, requestHandler(r), UNCHANGED <<pc, request>>, OneAction,
           r.type = "RT_Action" =>
               \A x \in Request : InSight(x) /\ x.type = "RT_Action" => x.id # r.id
    PROVE  /\ \A x : InSight(x)' => InSight(x) \/ x = r
           /\ OneAction'
<1>1. m_incomingRequests \in Seq(Request) /\ m_incomingRequests' = Append(m_incomingRequests, r)
      BY DEF TypeInv, TypeOK, requestHandler
<1>2. /\ \A i \in DOMAIN m_incomingRequests : m_incomingRequests'[i] = m_incomingRequests[i]
      /\ m_incomingRequests'[Len(m_incomingRequests) + 1] = r
      /\ \A i \in DOMAIN m_incomingRequests' :
             i \in DOMAIN m_incomingRequests \/ i = Len(m_incomingRequests) + 1
      BY <1>1, AppendKeeps
<1>3. \A x : InSight(x)' => InSight(x) \/ x = r
      BY <1>2 DEF InSight
<1>4. \A i \in DOMAIN m_incomingRequests : m_incomingRequests[i] \in Request
      BY <1>1
<1>5. ActionInHand => request \in Request
      BY DEF ActionInHand, TypeInv, InHand
<1>6. r.type = "RT_Action" =>
          /\ ActionInHand => r.id # request.id
          /\ \A i \in DOMAIN m_incomingRequests : IsActionAt(i) => m_incomingRequests[i].id # r.id
      BY <1>4, <1>5 DEF InSight, ActionInHand, IsActionAt
<1>7. ActionInHand' = ActionInHand
      BY DEF ActionInHand
<1>8. OneAction'
      BY <1>2, <1>6, <1>7 DEF OneAction, IsActionAt
<1> QED BY <1>3, <1>8

LEMMA PopInSight ==
    ASSUME TypeInv, pc # "gotRequest", OneAction, NEW next \in {"loop", "cleanup", "finishTalker"},
           PopRequest \/ PopResponse \/ NothingToPop(next)
    PROVE  /\ \A x : InSight(x)' => InSight(x)
           /\ OneAction'
<1>1. CASE PopRequest
  <2>1. /\ m_incomingRequests \in Seq(Request) /\ m_incomingRequests # <<>>
        /\ m_incomingRequests' = Tail(m_incomingRequests)
        BY <1>1 DEF PopRequest, TypeInv, TypeOK
  <2>2. /\ request' = m_incomingRequests[1] /\ 1 \in DOMAIN m_incomingRequests
        /\ \A i \in DOMAIN m_incomingRequests' :
               i + 1 \in DOMAIN m_incomingRequests
                 /\ m_incomingRequests'[i] = m_incomingRequests[i + 1]
        BY <1>1, <2>1, TailKeeps DEF PopRequest
  <2>3. \A i \in DOMAIN m_incomingRequests' : i \in Nat /\ i # 0
        BY <2>1
  <2>4. \A x : InSight(x)' => InSight(x)
        BY <2>2 DEF InSight
  <2>5. OneAction'
    <3>1. \A i \in DOMAIN m_incomingRequests' : IsActionAt(i)' => IsActionAt(i + 1)
          BY <2>2 DEF IsActionAt
    <3>2. ActionInHand' => IsActionAt(1)
          BY <2>2 DEF ActionInHand, IsActionAt
    <3>3. ASSUME NEW i \in DOMAIN m_incomingRequests', IsActionAt(i)', ActionInHand'
          PROVE  m_incomingRequests'[i].id # request'.id
      <4>1. i + 1 # 1
            BY <2>3
      <4> QED BY <4>1, <2>2, <3>1, <3>2, <3>3 DEF OneAction
    <3>4. ASSUME NEW i \in DOMAIN m_incomingRequests', NEW j \in DOMAIN m_incomingRequests',
                 IsActionAt(i)', IsActionAt(j)', m_incomingRequests'[i].id = m_incomingRequests'[j].id
          PROVE  i = j
      <4>1. i + 1 = j + 1
            BY <2>2, <3>1, <3>4 DEF OneAction
      <4> QED BY <4>1, <2>3
    <3> QED BY <3>3, <3>4 DEF OneAction
  <2> QED BY <2>4, <2>5
<1>2. CASE PopResponse \/ NothingToPop(next)
  <2>1. m_incomingRequests' = m_incomingRequests /\ pc' # "gotRequest"
        BY <1>2 DEF PopResponse, NothingToPop
  <2> QED BY <2>1 DEF InSight, OneAction, ActionInHand, IsActionAt
<1> QED BY <1>1, <1>2

(* Requests that leave the sight of the main thread.                       *)
LEMMA LeaveSight ==
    ASSUME OneAction, m_incomingRequests' = m_incomingRequests \/ m_incomingRequests' = <<>>,
           pc' # "gotRequest" \/ UNCHANGED <<pc, request>>
    PROVE  /\ \A x : InSight(x)' => InSight(x)
           /\ OneAction'
BY DEF InSight, OneAction, ActionInHand, IsActionAt

LEMMA AppendDue ==
    ASSUME TypeInv, NEW id \in Ids, NEW t \in UIResponseType, UIResponseHandler(id, t),
           UNCHANGED <<pc, response>>
    PROVE  \A x : Due(x)' => Due(x) \/ x = [id |-> id, type |-> t]
<1> DEFINE r == [id |-> id, type |-> t]
<1>1. /\ r \in Response /\ m_incomingResponses \in Seq(Response)
      /\ m_incomingResponses' = Append(m_incomingResponses, r)
      BY DEF Response, TypeInv, TypeOK, UIResponseHandler
<1> HIDE DEF r
<1>2. /\ \A i \in DOMAIN m_incomingResponses : m_incomingResponses'[i] = m_incomingResponses[i]
      /\ m_incomingResponses'[Len(m_incomingResponses) + 1] = r
      /\ \A i \in DOMAIN m_incomingResponses' :
             i \in DOMAIN m_incomingResponses \/ i = Len(m_incomingResponses) + 1
      BY <1>1, AppendKeeps
<1>3. \A x : Due(x)' => Due(x) \/ x = r
      BY <1>2 DEF Due
<1> QED BY <1>3 DEF r

LEMMA PopDue ==
    ASSUME TypeInv, pc # "gotResponse", NEW next \in {"loop", "cleanup", "finishTalker"},
           PopRequest \/ PopResponse \/ NothingToPop(next)
    PROVE  \A x : Due(x)' => Due(x)
<1>1. CASE PopResponse
  <2>1. /\ m_incomingResponses \in Seq(Response) /\ m_incomingResponses # <<>>
        /\ m_incomingResponses' = Tail(m_incomingResponses)
        BY <1>1 DEF PopResponse, TypeInv, TypeOK
  <2>2. /\ response' = m_incomingResponses[1] /\ 1 \in DOMAIN m_incomingResponses
        /\ \A i \in DOMAIN m_incomingResponses' :
               i + 1 \in DOMAIN m_incomingResponses
                 /\ m_incomingResponses'[i] = m_incomingResponses[i + 1]
        BY <1>1, <2>1, TailKeeps DEF PopResponse
  <2> QED BY <2>2 DEF Due
<1>2. CASE PopRequest \/ NothingToPop(next)
      BY <1>2 DEF PopRequest, NothingToPop, Due
<1> QED BY <1>1, <1>2

LEMMA LeaveDue ==
    ASSUME UNCHANGED m_incomingResponses, pc' # "gotResponse" \/ UNCHANGED <<pc, response>>
    PROVE  \A x : Due(x)' => Due(x)
BY DEF Due
-----------------------------------------------------------------------------
(* Steps that decide nothing and answer nothing: the places where answers  *)
(* are prepared only become fewer.                                         *)
EntriesKept ==
    \A id \in Ids :
        /\ m_requests'[id] = m_requests[id] \/ m_requests'[id] = NoAsk
        /\ m_UIs'[id] = m_UIs[id] \/ m_UIs'[id] = NoAsk
        /\ HasUI(id)' /\ m_thread'[id] = "waiting" => m_thread[id] = "waiting"

LEMMA FewerKeeps ==
    ASSUME Ledger, EntriesKept, UNCHANGED <<cynaraVars, verdict>>, OneAction',
           \A x : InSight(x)' => InSight(x) \/ x.type = "RT_Close",
           \A x : Due(x)' => Due(x)
    PROVE  Ledger'
<1> USE DEF Ledger, cynaraVars
<1>1. \A id \in Ids : (Known(id)' => Known(id) /\ m_requests'[id] = m_requests[id])
                      /\ (HasUI(id)' => HasUI(id) /\ m_UIs'[id] = m_UIs[id])
      BY DEF EntriesKept, Known, HasUI
<1>2. AskLedger'
      BY DEF AskLedger, Waiting
<1>3. RequestLedger'
      BY <1>1 DEF RequestLedger, Entered, Open
<1>4. DialogLedger'
      BY <1>1 DEF DialogLedger, EntriesKept
<1>5. ASSUME NEW r \in Request, InSight(r)'
      PROVE  /\ r.type = "RT_Action" => SoundAction(r)'
             /\ r.type = "RT_Cancel" => SoundCancel(r)'
  <2>1. r.type = "RT_Action" => r.id \in Ids
        BY RequestFields
  <2>2. /\ r.type = "RT_Action" => SoundAction(r)
        /\ r.type = "RT_Cancel" => SoundCancel(r)
        BY <1>5 DEF IncomingLedger
  <2>3. r.type = "RT_Action" => SoundAction(r)'
        BY <1>1, <2>1, <2>2 DEF SoundAction, Open
  <2> QED BY <2>2, <2>3 DEF SoundCancel
<1>6. IncomingLedger'
      BY <1>5 DEF IncomingLedger
<1>7. ResponseLedger'
      BY DEF ResponseLedger
<1>8. AnswerIsUsersOwn' /\ NoStrayReply'
      BY DEF AnswerIsUsersOwn, NoStrayReply
<1> QED BY <1>2, <1>3, <1>4, <1>6, <1>7, <1>8
-----------------------------------------------------------------------------
(* What cynara does: it sends, withdraws and loses checks.                 *)
LEMMA DisconnectKeeps ==
    ASSUME TypeInv, Ledger, Disconnect, UNCHANGED <<m_requests, uiVars>>, OneAction',
           \A x : InSight(x)' => InSight(x) \/ x.type = "RT_Close",
           \A x : Due(x)' => Due(x)
    PROVE  Ledger'
<1> USE DEF Ledger, uiVars
<1>1. /\ UNCHANGED <<idOf, reply, stray>> /\ ~link' /\ unheard' = {}
      /\ \A a \in Asks : status'[a] = IF Waiting(a) THEN "lost" ELSE status[a]
      BY DEF Disconnect
<1>2. \A a \in Asks : (Open(a) => Open(a)') /\ (status[a] # "pending" => status'[a] # "pending")
      BY <1>1 DEF Open, Waiting
<1>3. AskLedger'
      BY <1>1 DEF AskLedger, Waiting
<1>4. RequestLedger'
      BY <1>1, <1>2 DEF RequestLedger, Entered, Known, TypeInv, TypeOK
<1>5. DialogLedger'
      BY <1>1 DEF DialogLedger, HasUI
<1>6. ASSUME NEW r \in Request, InSight(r)'
      PROVE  /\ r.type = "RT_Action" => SoundAction(r)'
             /\ r.type = "RT_Cancel" => SoundCancel(r)'
  <2>1. r.type = "RT_Action" => r.data \in Asks
        BY RequestFields
  <2>2. /\ r.type = "RT_Action" => SoundAction(r)
        /\ r.type = "RT_Cancel" => SoundCancel(r)
        BY <1>6 DEF IncomingLedger
  <2>3. r.type = "RT_Action" => SoundAction(r)'
        BY <1>1, <1>2, <2>1, <2>2 DEF SoundAction, Known, HasUI
  <2>4. r.type = "RT_Cancel" => SoundCancel(r)'
        BY <1>1, <1>2, <2>2 DEF SoundCancel
  <2> QED BY <2>3, <2>4
<1>7. IncomingLedger'
      BY <1>6 DEF IncomingLedger
<1>8. ResponseLedger'
      BY <1>1 DEF ResponseLedger
<1>9. AnswerIsUsersOwn' /\ NoStrayReply'
      BY <1>1 DEF AnswerIsUsersOwn, NoStrayReply
<1> QED BY <1>3, <1>4, <1>5, <1>7, <1>8, <1>9

LEMMA SendActionKeeps ==
    ASSUME ~ReuseIds, TypeInv, Ledger, NEW a \in Asks, NEW id \in Ids, SendAction(a, id),
           UNCHANGED <<pc, request, response, m_requests, m_incomingResponses, uiVars>>,
           \/ requestHandler([type |-> "RT_Action", id |-> id, data |-> a])
           \/ UNCHANGED m_incomingRequests
    PROVE  Ledger'
<1> USE DEF Ledger, uiVars
<1> DEFINE r == [type |-> "RT_Action", id |-> id, data |-> a]
<1>1. r \in Request
      BY DEF Request
<1>2. /\ UNCHANGED <<pc, request, response, m_requests, uiVars, reply, stray, link, unheard>>
      /\ status[a] = "unsent" /\ link
      /\ \A b \in Asks : idOf[b] # id
      /\ status'[a] = "pending" /\ idOf'[a] = id
      /\ \A b \in Asks : b # a => status'[b] = status[b] /\ idOf'[b] = idOf[b]
      /\ requestHandler(r) \/ UNCHANGED m_incomingRequests
      BY DEF SendAction, TypeInv, TypeOK, CynaraTypeOK
<1>3. idOf[a] = NoId /\ NoId \notin Ids /\ verdict[a] = NoOutcome /\ a \notin unheard
      BY <1>2, NoIdAssumption DEF AskLedger, Waiting
<1>4. ~Known(id) /\ ~HasUI(id)
      BY <1>2 DEF RequestLedger, Entered, DialogLedger, Known, HasUI, TypeInv, TypeOK, UITypeOK
<1>5. \A x \in Request : InSight(x) /\ x.type = "RT_Action" => x.id # id
      BY <1>2, RequestFields DEF IncomingLedger, SoundAction
<1>6. (\A x : InSight(x)' => InSight(x) \/ x = r) /\ OneAction'
  <2> HIDE DEF r
  <2>1. r.id = id
        BY DEF r
  <2>2. CASE requestHandler(r)
        BY <1>1, <1>2, <1>5, <2>1, <2>2, AppendInSight
  <2>3. CASE UNCHANGED m_incomingRequests
        BY <1>2, <2>3, LeaveSight
  <2> QED BY <1>2, <2>2, <2>3
<1>7. AskLedger'
      BY <1>2, <1>3 DEF AskLedger, Waiting
<1>8. RequestLedger'
  <2>1. ASSUME NEW x \in Ids, Known(x)' PROVE Entered(x)'
    <3>1. m_requests[x] \in Asks /\ Entered(x) /\ m_requests'[x] = m_requests[x]
          BY <1>2, <2>1 DEF RequestLedger, Known, TypeInv, TypeOK
    <3> QED BY <1>2, <1>3, <3>1 DEF Entered, Open
  <2> QED BY <2>1 DEF RequestLedger
<1>9. DialogLedger'
  <2>1. ASSUME NEW x \in Ids, HasUI(x)'
        PROVE  /\ idOf'[m_UIs'[x]] = x
               /\ m_thread'[x] = "waiting" =>
                    verdict'[m_UIs'[x]] = NoOutcome /\ reply'[m_UIs'[x]].type # "RT_Action"
    <3>1. /\ m_UIs[x] \in Asks /\ idOf[m_UIs[x]] = x /\ HasUI(x) /\ m_UIs'[x] = m_UIs[x]
          BY <1>2, <2>1 DEF DialogLedger, HasUI, TypeInv, TypeOK, UITypeOK
    <3> QED BY <1>2, <1>3, <3>1 DEF DialogLedger
  <2> QED BY <2>1 DEF DialogLedger
<1>10. IncomingLedger'
  <2>1. SoundAction(r)'
        BY <1>2, <1>3, <1>4 DEF SoundAction, Open, Known, HasUI
  <2>2. ASSUME NEW x \in Request, InSight(x), x.type = "RT_Action" PROVE SoundAction(x)'
    <3>1. SoundAction(x) /\ x.data \in Asks /\ x.id \in Ids
          BY <2>2, RequestFields DEF IncomingLedger
    <3>2. x.data # a
          BY <1>3, <3>1 DEF SoundAction
    <3> QED BY <1>2, <3>1, <3>2 DEF SoundAction, Open, Known, HasUI
  <2>3. ASSUME NEW x \in Request, InSight(x), x.type = "RT_Cancel" PROVE SoundCancel(x)'
    <3>1. x.id \in Ids
          BY <2>3, RequestFields
    <3>2. PICK b \in Asks : idOf[b] = x.id /\ status[b] # "pending"
          BY <2>3 DEF IncomingLedger, SoundCancel
    <3> QED BY <1>2, <1>3, <3>1, <3>2 DEF SoundCancel
  <2> HIDE DEF r
  <2>4. r.type = "RT_Action"
        BY DEF r
  <2> QED BY <1>6, <2>1, <2>2, <2>3, <2>4 DEF IncomingLedger
<1>11. ResponseLedger'
  <2>1. ASSUME NEW x \in Response, Due(x)'
        PROVE  \E b \in Asks : /\ idOf'[b] = x.id
                               /\ verdict'[b] \in Outcomes
                               /\ x.type = RunResponse(verdict'[b])
    <3>1. Due(x) /\ x.id \in Ids
          BY <1>2, <2>1 DEF Due, Response
    <3>2. PICK b \in Asks : /\ idOf[b] = x.id
                            /\ verdict[b] \in Outcomes
                            /\ x.type = RunResponse(verdict[b])
          BY <3>1 DEF ResponseLedger
    <3> QED BY <1>2, <1>3, <3>1, <3>2
  <2> QED BY <2>1 DEF ResponseLedger
<1>12. AnswerIsUsersOwn' /\ NoStrayReply'
      BY <1>2 DEF AnswerIsUsersOwn, NoStrayReply
<1> QED BY <1>6, <1>7, <1>8, <1>9, <1>10, <1>11, <1>12

LEMMA SendCancelKeeps ==
    ASSUME TypeInv, Ledger, NEW a \in Asks, SendCancel(a),
           UNCHANGED <<pc, request, response, m_requests, m_incomingResponses, uiVars>>,
           \/ requestHandler([type |-> "RT_Cancel", id |-> idOf[a], data |-> NoAsk])
           \/ UNCHANGED m_incomingRequests
    PROVE  Ledger'
<1> USE DEF Ledger, uiVars
<1>1. PICK r \in Request : r = [type |-> "RT_Cancel", id |-> idOf[a], data |-> NoAsk]
      BY DEF SendCancel, TypeInv, WaitingHasId, Waiting, Request
<1>2. /\ UNCHANGED <<pc, request, response, m_requests, uiVars, idOf, reply, stray, link>>
      /\ status[a] = "pending" /\ link
      /\ status'[a] = "cancelling" /\ UNCHANGED unheard
      /\ \A b \in Asks : b # a => status'[b] = status[b]
      /\ requestHandler(r) \/ UNCHANGED m_incomingRequests
      /\ r.type = "RT_Cancel" /\ r.id = idOf[a]
      BY <1>1 DEF SendCancel, TypeInv, TypeOK, CynaraTypeOK
<1>3. \A b \in Asks : (Open(b) => Open(b)') /\ (status[b] # "pending" => status'[b] # "pending")
      BY <1>2 DEF Open
<1>4. (\A x : InSight(x)' => InSight(x) \/ x = r) /\ OneAction'
      BY <1>1, <1>2, AppendInSight, LeaveSight
<1>5. AskLedger'
      BY <1>2 DEF AskLedger, Waiting
<1>6. RequestLedger'
      BY <1>2, <1>3 DEF RequestLedger, Entered, Known, TypeInv, TypeOK
<1>7. DialogLedger'
      BY <1>2 DEF DialogLedger, HasUI
<1>8. IncomingLedger'
  <2>1. SoundCancel(r)'
        BY <1>2 DEF SoundCancel
  <2>2. ASSUME NEW x \in Request, InSight(x), x.type = "RT_Action" PROVE SoundAction(x)'
    <3>1. SoundAction(x) /\ x.data \in Asks
          BY <2>2, RequestFields DEF IncomingLedger
    <3> QED BY <1>2, <1>3, <3>1 DEF SoundAction, Known, HasUI
  <2>3. ASSUME NEW x \in Request, InSight(x), x.type = "RT_Cancel" PROVE SoundCancel(x)'
        BY <1>2, <1>3, <2>3 DEF IncomingLedger, SoundCancel
  <2> QED BY <1>2, <1>4, <2>1, <2>2, <2>3 DEF IncomingLedger
<1>9. ResponseLedger'
      BY <1>2 DEF ResponseLedger, Due
<1>10. AnswerIsUsersOwn' /\ NoStrayReply'
      BY <1>2 DEF AnswerIsUsersOwn, NoStrayReply
<1> QED BY <1>4, <1>5, <1>6, <1>7, <1>8, <1>9, <1>10
-----------------------------------------------------------------------------
(* What processUIResponse sends for an outcome is what the button promised, *)
(* and the answer of a dialog that never came up is what nobody's choice    *)
(* promises.                                                                *)
LEMMA AnswerIsPromise ==
    /\ \A o \in Outcome : AnswerData(RunResponse(o)) = Promised(o)
    /\ answerToData(0, "ERROR") = Promised(NoOutcome)
    /\ NoOutcome \notin Outcome
<1>1. Len(respType) = 6 /\ DOMAIN ButtonLabels = 1 .. 6
      BY DEF respType, ButtonLabels
<1>2. answerToData(0, "ERROR") = [form |-> "ERROR", policy |-> 0]
      BY DEF answerToData, NoError
<1>3. answerToData(0, "TIMEOUT") = [form |-> "TIMEOUT", policy |-> 0]
      BY DEF answerToData, NoError
<1>4. ASSUME NEW o \in Outcome PROVE AnswerData(RunResponse(o)) = Promised(o)
  <2>1. o.button \in Int
        BY DEF Outcome
  <2>2. CASE o.ret = "NONE" /\ o.button \in 1 .. 6
    <3>1. RunResponse(o) = respType[o.button]
          BY <1>1, <2>1, <2>2 DEF RunResponse
    <3>2. Promised(o) = [form |-> "number", policy |-> PolicyOfLabel[ButtonLabels[o.button]]]
          BY <1>1, <2>2 DEF Promised
    <3>3. AnswerData(respType[o.button])
              = [form |-> "number", policy |-> UIResponseToPolicyType(respType[o.button])]
          BY <2>2 DEF AnswerData, respType, answerToData, NoError
    <3>4. UIResponseToPolicyType(respType[o.button]) = PolicyOfLabel[ButtonLabels[o.button]]
      <4>1. o.button \in {1, 2, 3, 4, 5, 6}
            BY <2>1, <2>2
      <4> QED BY <4>1 DEF UIResponseToPolicyType, respType, ButtonLabels, PolicyOfLabel
    <3> QED BY <3>1, <3>2, <3>3, <3>4
  <2>3. CASE o.ret = "NONE" /\ o.button = 0
        BY <1>1, <1>3, <2>3 DEF RunResponse, AnswerData, Promised
  <2>4. CASE ~(o.ret = "NONE" /\ o.button \in 1 .. 6) /\ ~(o.ret = "NONE" /\ o.button = 0)
        BY <1>1, <1>2, <2>4 DEF RunResponse, AnswerData, Promised
  <2> QED BY <2>2, <2>3, <2>4
<1>5. answerToData(0, "ERROR") = Promised(NoOutcome)
      BY <1>2 DEF Promised, NoOutcome
<1>6. NoOutcome \notin Outcome
      BY DEF NoOutcome, Outcome
<1> QED BY <1>4, <1>5, <1>6

(* What the user does: the dialog of a check decides it.                   *)
LEMMA UserDecidesKeeps ==
    ASSUME TypeInv, ThreadHasUI, Ledger, NEW id \in Ids, NEW o \in Outcomes, waitResponse(id, o),
           UNCHANGED <<pc, request, response, m_requests, m_incomingRequests, cynaraVars>>,
           UIResponseHandler(id, RunResponse(o)) \/ UNCHANGED m_incomingResponses
    PROVE  /\ Ledger'
           /\ \E a \in Asks : /\ status[a] # "unsent" /\ reply[a].type # "RT_Action"
                              /\ verdict[a] = NoOutcome
                              /\ verdict' = [verdict EXCEPT ![a] = o]
<1> USE DEF Ledger, cynaraVars
<1>1. PICK r \in Response : r = [id |-> id, type |-> RunResponse(o)]
      BY RunResponseType DEF Response
<1>2. /\ UNCHANGED <<pc, request, response, m_requests, m_UIs, m_incomingRequests, cynaraVars>>
      /\ m_thread[id] = "waiting"
      /\ m_thread' = [m_thread EXCEPT ![id] = "called"]
      /\ UIResponseHandler(id, RunResponse(o)) \/ UNCHANGED m_incomingResponses
      BY DEF waitResponse
<1>3. HasUI(id)
      BY <1>2 DEF ThreadHasUI
<1>4. PICK a \in Asks : a = m_UIs[id]
      BY <1>3 DEF HasUI, TypeInv, TypeOK, UITypeOK
<1>5. idOf[a] = id /\ verdict[a] = NoOutcome /\ reply[a].type # "RT_Action"
      BY <1>2, <1>3, <1>4 DEF DialogLedger
<1>6. /\ verdict' = [verdict EXCEPT ![a] = o]
      /\ verdict'[a] = o
      /\ \A b \in Asks : b # a => verdict'[b] = verdict[b]
      BY <1>4 DEF waitResponse, TypeInv, TypeOK, UITypeOK
<1>7. status[a] # "unsent" /\ NoOutcome \notin Outcomes
      BY <1>5, NoIdAssumption, OutcomesAssumption, AnswerIsPromise DEF AskLedger
<1>8. \A x \in Ids : x # id => m_thread'[x] = m_thread[x]
      BY <1>2 DEF TypeInv, TypeOK, UITypeOK
<1>9. m_thread'[id] # "waiting"
      BY <1>2 DEF TypeInv, TypeOK, UITypeOK
<1>10. AskLedger'
      BY <1>2, <1>6, <1>7 DEF AskLedger, Waiting
<1>11. RequestLedger'
      BY <1>2 DEF RequestLedger, Entered, Known, Open
<1>12. DialogLedger'
  <2>1. ASSUME NEW x \in Ids, HasUI(x)'
        PROVE  (/\ idOf[m_UIs[x]] = x
                /\ m_thread[x] = "waiting" =>
                     verdict[m_UIs[x]] = NoOutcome /\ reply[m_UIs[x]].type # "RT_Action")'
    <3>1. HasUI(x) /\ m_UIs[x] \in Asks /\ idOf[m_UIs[x]] = x
          BY <1>2, <2>1 DEF DialogLedger, HasUI, TypeInv, TypeOK, UITypeOK
    <3>2. x # id => m_UIs[x] # a
          BY <1>5, <3>1
    <3> QED BY <1>2, <1>6, <1>8, <1>9, <3>1, <3>2 DEF DialogLedger
  <2> QED BY <2>1 DEF DialogLedger
<1>13. OneAction' /\ \A x : InSight(x)' = InSight(x)
      BY <1>2 DEF OneAction, ActionInHand, IsActionAt, InSight
<1>14. IncomingLedger'
  <2>1. ASSUME NEW x \in Request, InSight(x), x.type = "RT_Action" PROVE SoundAction(x)'
    <3>1. SoundAction(x) /\ x.data \in Asks
          BY <2>1, RequestFields DEF IncomingLedger
    <3>2. x.data # a
          BY <1>3, <1>5, <3>1 DEF SoundAction
    <3> QED BY <1>2, <1>6, <3>1, <3>2 DEF SoundAction, Open, Known, HasUI
  <2>2. ASSUME NEW x \in Request, InSight(x), x.type = "RT_Cancel" PROVE SoundCancel(x)'
        BY <1>2, <2>2 DEF IncomingLedger, SoundCancel
  <2> QED BY <1>13, <2>1, <2>2 DEF IncomingLedger
<1>15. ResponseLedger'
  <2>1. \A x : Due(x)' => Due(x) \/ x = r
    <3>1. CASE UIResponseHandler(id, RunResponse(o))
          BY <1>1, <1>2, <3>1, AppendDue, RunResponseType
    <3>2. CASE UNCHANGED m_incomingResponses
          BY <1>2, <3>2, LeaveDue
    <3> QED BY <1>2, <3>1, <3>2
  <2>2. ASSUME NEW x \in Response, Due(x)
        PROVE  \E b \in Asks : /\ idOf'[b] = x.id
                               /\ verdict'[b] \in Outcomes
                               /\ x.type = RunResponse(verdict'[b])
    <3>1. PICK b \in Asks : /\ idOf[b] = x.id
                            /\ verdict[b] \in Outcomes
                            /\ x.type = RunResponse(verdict[b])
          BY <2>2 DEF ResponseLedger
    <3> QED BY <1>2, <1>5, <1>6, <1>7, <3>1
  <2>3. r.id = idOf'[a] /\ verdict'[a] \in Outcomes /\ r.type = RunResponse(verdict'[a])
        BY <1>1, <1>2, <1>5, <1>6
  <2> QED BY <2>1, <2>2, <2>3 DEF ResponseLedger
<1>16. AnswerIsUsersOwn' /\ NoStrayReply'
      BY <1>2, <1>5, <1>6 DEF AnswerIsUsersOwn, NoStrayReply
<1> QED BY <1>5, <1>6, <1>7, <1>10, <1>11, <1>12, <1>13, <1>14, <1>15, <1>16

(* What the main thread does: it accepts a check.                          *)
LEMMA StartUIKeeps ==
    ASSUME TypeInv, Ledger, StartUI
    PROVE  Ledger'
<1> USE DEF Ledger, cynaraVars
<1>1. PICK r \in Request : r = request
      BY DEF StartUI, NewAction, TypeInv, InHand
<1>2. r.type = "RT_Action" /\ r.id \in Ids /\ r.data \in Asks /\ pc = "gotRequest"
      BY <1>1, RequestFields DEF StartUI, NewAction
<1>3. /\ UNCHANGED <<cynaraVars, verdict, m_incomingRequests, m_incomingResponses>>
      /\ m_requests'[r.id] = r.data /\ m_UIs'[r.id] = r.data
      /\ \A x \in Ids : x # r.id =>
             m_requests'[x] = m_requests[x] /\ m_UIs'[x] = m_UIs[x] /\ m_thread'[x] = m_thread[x]
      /\ pc' = "takeResponse"
      BY <1>1, <1>2 DEF StartUI, startUI, queueVars, TypeInv, TypeOK, UITypeOK
<1>4. SoundAction(r)
      BY <1>1, <1>2 DEF IncomingLedger, InSight
<1>5. reply[r.data].type # "RT_Action"
      BY <1>2, <1>4 DEF SoundAction, Open, AskLedger
<1>6. AskLedger'
      BY <1>3 DEF AskLedger, Waiting
<1>7. RequestLedger'
  <2>1. ASSUME NEW x \in Ids, Known(x)' PROVE Entered(x)'
    <3>1. CASE x = r.id
          BY <1>3, <1>4, <3>1 DEF SoundAction, Entered, Open
    <3>2. CASE x # r.id
          BY <1>3, <2>1, <3>2 DEF RequestLedger, Entered, Known, Open
    <3> QED BY <3>1, <3>2
  <2> QED BY <2>1 DEF RequestLedger
<1>8. DialogLedger'
  <2>1. ASSUME NEW x \in Ids, HasUI(x)'
        PROVE  (/\ idOf[m_UIs[x]] = x
                /\ m_thread[x] = "waiting" =>
                     verdict[m_UIs[x]] = NoOutcome /\ reply[m_UIs[x]].type # "RT_Action")'
    <3>1. CASE x = r.id
          BY <1>3, <1>4, <1>5, <3>1 DEF SoundAction
    <3>2. CASE x # r.id
          BY <1>3, <2>1, <3>2 DEF DialogLedger, HasUI
    <3> QED BY <3>1, <3>2
  <2> QED BY <2>1 DEF DialogLedger
<1>9. (\A x : InSight(x)' => InSight(x)) /\ OneAction'
      BY <1>3, LeaveSight
<1>10. IncomingLedger'
  <2>1. ASSUME NEW x \in Request, InSight(x)', x.type = "RT_Action" PROVE SoundAction(x)'
    <3>1. SoundAction(x) /\ x.id \in Ids
          BY <1>9, <2>1, RequestFields DEF IncomingLedger
    <3>2. x.id # r.id
          BY <1>1, <1>2, <1>3, <2>1 DEF InSight, OneAction, ActionInHand, IsActionAt
    <3> QED BY <1>3, <3>1, <3>2 DEF SoundAction, Open, Known, HasUI
  <2>2. ASSUME NEW x \in Request, InSight(x)', x.type = "RT_Cancel" PROVE SoundCancel(x)'
        BY <1>3, <1>9, <2>2 DEF IncomingLedger, SoundCancel
  <2> QED BY <2>1, <2>2 DEF IncomingLedger
<1>11. ResponseLedger'
      BY <1>2, <1>3 DEF ResponseLedger, Due
<1>12. AnswerIsUsersOwn' /\ NoStrayReply'
      BY <1>3 DEF AnswerIsUsersOwn, NoStrayReply
<1> QED BY <1>6, <1>7, <1>8, <1>9, <1>10, <1>11, <1>12
(* What the main thread does: it answers a check, by any of the three      *)
(* calls of sendResponse.  Only this check gets the response, or loses it, *)
(* and it waits for one.                                                   *)
Responded(a, type, data) ==
    /\ UNCHANGED verdict
    /\ \/ UNCHANGED <<status, reply, unheard>>
       \/ /\ Waiting(a) /\ a \notin unheard
          /\ status' = [status EXCEPT ![a] = "replied"]
          /\ reply' = [reply EXCEPT ![a] = [type |-> type, data |-> data]]
          /\ UNCHANGED unheard
       \/ /\ Waiting(a) /\ a \notin unheard
          /\ unheard' = unheard \cup {a}
          /\ UNCHANGED <<status, reply>>

LEMMA SendKeeps ==
    ASSUME TypeInv, Ledger, NEW a \in Asks, NEW id \in Ids, NEW type, NEW data,
           sendResponse(type, id, data), idOf[a] = id, Open(a), a \notin unheard,
           type = "RT_Action" =>
               data = Promised(verdict[a]) /\ ~(HasUI(id) /\ m_thread[id] = "waiting"),
           UNCHANGED uiVars, m_requests'[id] = NoAsk,
           \A x \in Ids : x # id => m_requests'[x] = m_requests[x],
           \A x \in Request : InSight(x)' => InSight(x) /\ (x.type = "RT_Action" => x.id # id),
           OneAction', \A x : Due(x)' => Due(x),
           type \in {"RT_Action", "RT_Cancel"}
    PROVE  Ledger' /\ Responded(a, type, data)
<1> USE DEF Ledger
<1>1. ASSUME UNCHANGED <<status, idOf, reply, stray, link>>,
             unheard' = unheard \/ (Waiting(a) /\ unheard' = unheard \cup {a})
      PROVE  Ledger' /\ Responded(a, type, data)
  <2>1. /\ UNCHANGED <<status, idOf, reply, stray, link>>
        /\ \A b \in Asks : b # a /\ b \notin unheard => b \notin unheard'
        BY <1>1
  <2>2. AskLedger'
        BY <1>1 DEF AskLedger, Waiting, uiVars
  <2>3. RequestLedger'
    <3>1. ASSUME NEW x \in Ids, Known(x)' PROVE Entered(x)'
      <4>1. x # id /\ m_requests'[x] = m_requests[x]
            BY <3>1 DEF Known
      <4>2. m_requests[x] \in Asks /\ Entered(x)
            BY <3>1, <4>1 DEF RequestLedger, Known, TypeInv, TypeOK
      <4> QED BY <2>1, <4>1, <4>2 DEF Entered, Open
    <3> QED BY <3>1 DEF RequestLedger
  <2>4. DialogLedger'
        BY <2>1 DEF DialogLedger, HasUI, uiVars
  <2>5. IncomingLedger'
    <3>1. ASSUME NEW x \in Request, InSight(x)', x.type = "RT_Action" PROVE SoundAction(x)'
      <4>1. SoundAction(x) /\ x.id \in Ids /\ x.id # id /\ x.data \in Asks
            BY <3>1, RequestFields DEF IncomingLedger
      <4>2. x.data # a
            BY <4>1 DEF SoundAction
      <4> QED BY <2>1, <4>1, <4>2 DEF SoundAction, Open, Known, HasUI, uiVars
    <3>2. ASSUME NEW x \in Request, InSight(x)', x.type = "RT_Cancel" PROVE SoundCancel(x)'
          BY <2>1, <3>2 DEF IncomingLedger, SoundCancel
    <3> QED BY <3>1, <3>2 DEF IncomingLedger
  <2>6. ResponseLedger'
        BY <2>1 DEF ResponseLedger, uiVars
  <2>7. AnswerIsUsersOwn' /\ NoStrayReply'
        BY <2>1 DEF AnswerIsUsersOwn, NoStrayReply, uiVars
  <2>8. Responded(a, type, data)
        BY <1>1 DEF Responded, uiVars
  <2> QED BY <2>1, <2>2, <2>3, <2>4, <2>5, <2>6, <2>7, <2>8
<1>2. ASSUME link PROVE Waiting(a) /\ Holders(id) = {a}
  <2>1. Waiting(a)
        BY <1>2 DEF Open, Waiting, AskLedger
  <2> QED BY <2>1 DEF Holders, AskLedger
<1>3. CASE ~(m_cynara /\ link)
  <2>1. UNCHANGED <<status, idOf, reply, stray, link>> /\ unheard' = unheard
        BY <1>3 DEF sendResponse, cynaraVars
  <2> QED BY <1>1, <2>1
<1>4. CASE m_cynara /\ link /\ PutResponseFails(id)
  <2>1. UNCHANGED <<status, idOf, reply, stray, link>> /\ unheard' = unheard \cup {a}
        BY <1>2, <1>4 DEF PutResponseFails
  <2> QED BY <1>1, <1>2, <1>4, <2>1
<1>5. CASE m_cynara /\ link /\ TakeReply(type, id, data)
  <2>1. TakeReply(type, id, data)
        BY <1>5
  <2>2. Waiting(a)
        BY <1>2, <1>5
  <2>3. Holders(id) = {a}
        BY <1>2, <1>5
  <2>4. /\ status' = [status EXCEPT ![a] = "replied"]
        /\ reply' = [reply EXCEPT ![a] = [type |-> type, data |-> data]]
        /\ UNCHANGED <<idOf, link, stray, unheard, verdict, m_UIs, m_thread>>
        BY <2>1, <2>3 DEF TakeReply, TypeInv, TypeOK, CynaraTypeOK, uiVars
  <2>5. /\ status'[a] = "replied" /\ reply'[a] = [type |-> type, data |-> data]
        /\ \A b \in Asks : b # a => status'[b] = status[b] /\ reply'[b] = reply[b]
        BY <2>4 DEF TypeInv, TypeOK, CynaraTypeOK
  <2>6. AskLedger'
    <3>1. idOf[a] \in Ids
          OBVIOUS
    <3>2. ASSUME NEW b \in Asks
          PROVE  (/\ status[b] = "unsent" => idOf[b] = NoId /\ verdict[b] = NoOutcome
                  /\ status[b] # "unsent" => idOf[b] \in Ids
                  /\ status[b] # "replied" => reply[b].type = "none"
                  /\ status[b] = "lost" => ~link
                  /\ b \in unheard => Waiting(b))'
          BY <2>4, <2>5 DEF AskLedger, Waiting
    <3> QED BY <2>4, <3>2 DEF AskLedger
  <2>7. RequestLedger'
    <3>1. ASSUME NEW x \in Ids, Known(x)' PROVE Entered(x)'
      <4>1. x # id /\ m_requests'[x] = m_requests[x]
            BY <3>1 DEF Known
      <4>2. m_requests[x] \in Asks /\ Entered(x)
            BY <3>1, <4>1 DEF RequestLedger, Known, TypeInv, TypeOK
      <4> QED BY <2>4, <2>5, <4>1, <4>2 DEF Entered, Open
    <3> QED BY <3>1 DEF RequestLedger
  <2>8. DialogLedger'
    <3>1. ASSUME NEW x \in Ids, HasUI(x)'
          PROVE  (/\ idOf[m_UIs[x]] = x
                  /\ m_thread[x] = "waiting" =>
                       verdict[m_UIs[x]] = NoOutcome /\ reply[m_UIs[x]].type # "RT_Action")'
      <4>1. HasUI(x) /\ m_UIs[x] \in Asks /\ idOf[m_UIs[x]] = x
            BY <2>4, <3>1 DEF DialogLedger, HasUI, TypeInv, TypeOK, UITypeOK
      <4>2. m_UIs[x] = a => x = id
            BY <4>1
      <4> QED BY <2>4, <2>5, <4>1, <4>2 DEF DialogLedger
    <3> QED BY <3>1 DEF DialogLedger
  <2>9. IncomingLedger'
    <3>1. ASSUME NEW x \in Request, InSight(x)', x.type = "RT_Action" PROVE SoundAction(x)'
      <4>1. SoundAction(x) /\ x.id \in Ids /\ x.id # id /\ x.data \in Asks
            BY <3>1, RequestFields DEF IncomingLedger
      <4>2. x.data # a
            BY <4>1 DEF SoundAction
      <4> QED BY <2>4, <2>5, <4>1, <4>2 DEF SoundAction, Open, Known, HasUI
    <3>2. ASSUME NEW x \in Request, InSight(x)', x.type = "RT_Cancel" PROVE SoundCancel(x)'
      <4>1. PICK b \in Asks : idOf[b] = x.id /\ status[b] # "pending"
            BY <3>2 DEF IncomingLedger, SoundCancel
      <4> QED BY <2>4, <2>5, <4>1 DEF SoundCancel
    <3> QED BY <3>1, <3>2 DEF IncomingLedger
  <2>10. ResponseLedger'
        BY <2>4 DEF ResponseLedger
  <2>11. AnswerIsUsersOwn'
        BY <2>4, <2>5 DEF AnswerIsUsersOwn
  <2>12. NoStrayReply'
        BY <2>4 DEF NoStrayReply
  <2>13. Responded(a, type, data)
        BY <2>2, <2>4 DEF Responded
  <2> QED BY <2>4, <2>6, <2>7, <2>8, <2>9, <2>10, <2>11, <2>12, <2>13
<1> QED BY <1>3, <1>4, <1>5 DEF sendResponse

LEMMA ProcessCancelKeeps ==
    ASSUME TypeInv, Ledger, ProcessCancel
    PROVE  /\ Ledger'
           /\ \E a \in Asks : /\ Waiting(a) => status[a] = "cancelling"
                             /\ Responded(a, "RT_Cancel", NoData)
<1>1. PICK r \in Request : r = request
      BY DEF ProcessCancel, TypeInv, InHand
<1>2. r.type = "RT_Cancel" /\ r.id \in Ids /\ Known(r.id) /\ pc = "gotRequest"
      BY <1>1, RequestFields DEF ProcessCancel
<1>3. PICK b \in Asks : idOf[b] = r.id /\ status[b] # "pending"
      BY <1>1, <1>2 DEF Ledger, IncomingLedger, InSight, SoundCancel
<1>4. PICK a \in Asks : a = m_requests[r.id] /\ idOf[a] = r.id /\ Open(a) /\ a \notin unheard
      BY <1>2 DEF Ledger, RequestLedger, Entered, Known, TypeInv, TypeOK
<1>5. a = b
      BY <1>2, <1>3, <1>4 DEF Ledger, AskLedger
<1>6. /\ sendResponse("RT_Cancel", r.id, NoData)
      /\ UNCHANGED <<m_incomingRequests, m_incomingResponses, uiVars>>
      /\ m_requests'[r.id] = NoAsk
      /\ \A x \in Ids : x # r.id => m_requests'[x] = m_requests[x]
      /\ pc' = "dismissCancelled"
      BY <1>1, <1>2 DEF ProcessCancel, queueVars, TypeInv, TypeOK
<1>7. (\A x : InSight(x)' => InSight(x)) /\ (\A x : Due(x)' => Due(x)) /\ OneAction'
      BY <1>6, LeaveSight, LeaveDue DEF Ledger
<1>8. ASSUME NEW x \in Request, InSight(x)', x.type = "RT_Action" PROVE x.id # r.id
  <2>1. SoundAction(x)
        BY <1>7, <1>8 DEF Ledger, IncomingLedger
  <2> QED BY <1>2, <2>1 DEF SoundAction
<1>9. Ledger' /\ Responded(a, "RT_Cancel", NoData)
      BY <1>2, <1>4, <1>6, <1>7, <1>8, SendKeeps
<1> QED BY <1>3, <1>5, <1>9 DEF Waiting

(* What an answer sent to cynara does to the checks.                       *)
AnswersOneOrNone ==
    \/ UNCHANGED <<status, reply, verdict, unheard>>
    \/ \E a \in Asks : Responded(a, "RT_Action", Promised(verdict[a]))

LEMMA StartUIFailsKeeps ==
    ASSUME TypeInv, Ledger, StartUIFails
    PROVE  Ledger' /\ AnswersOneOrNone
<1>1. PICK r \in Request : r = request
      BY DEF StartUIFails, NewAction, TypeInv, InHand
<1>2. /\ r.type = "RT_Action" /\ r.id \in Ids /\ r.data \in Asks
      /\ ~Known(r.id) /\ pc = "gotRequest"
      BY <1>1, RequestFields DEF StartUIFails, NewAction
<1>3. SoundAction(r)
      BY <1>1, <1>2 DEF Ledger, IncomingLedger, InSight
<1>4. PICK a \in Asks : a = r.data
      BY <1>2
<1>5. /\ idOf[a] = r.id /\ Open(a) /\ a \notin unheard
      /\ verdict[a] = NoOutcome /\ ~HasUI(r.id)
      BY <1>3, <1>4 DEF SoundAction
<1>6. PICK d : d = answerToData(0, "ERROR") /\ d = Promised(verdict[a])
      BY <1>5, AnswerIsPromise
<1>7. /\ sendResponse("RT_Action", r.id, d)
      /\ UNCHANGED <<m_incomingRequests, m_incomingResponses, uiVars, m_requests>>
      /\ m_requests'[r.id] = NoAsk
      /\ pc' = "takeResponse"
      BY <1>1, <1>2, <1>6 DEF StartUIFails, queueVars, Known
<1>8. (\A x : InSight(x)' => InSight(x)) /\ (\A x : Due(x)' => Due(x)) /\ OneAction'
      BY <1>7, LeaveSight, LeaveDue DEF Ledger
<1>9. ASSUME NEW x \in Request, InSight(x)', x.type = "RT_Action" PROVE x.id # r.id
      BY <1>1, <1>2, <1>7, <1>9 DEF Ledger, InSight, OneAction, ActionInHand, IsActionAt
<1>10. Ledger' /\ Responded(a, "RT_Action", d)
      BY <1>2, <1>5, <1>6, <1>7, <1>8, <1>9, SendKeeps
<1> QED BY <1>6, <1>10 DEF AnswersOneOrNone

LEMMA AnswerKeeps ==
    ASSUME TypeInv, Ledger, ProcessUIResponse
    PROVE  Ledger' /\ AnswersOneOrNone
<1>1. PICK r \in Response : r = response
      BY DEF ProcessUIResponse, TypeInv, InHand
<1>2. r.id \in Ids /\ pc = "gotResponse" /\ pc' = "dismissAnswered"
      /\ UNCHANGED <<m_incomingRequests, m_incomingResponses, uiVars>>
      BY <1>1 DEF ProcessUIResponse, Response, queueVars
<1>3. (\A x : InSight(x)' => InSight(x)) /\ (\A x : Due(x)' => Due(x)) /\ OneAction'
      BY <1>2, LeaveSight, LeaveDue DEF Ledger
<1>4. CASE ~Known(r.id)
  <2>1. UNCHANGED <<m_requests, cynaraVars, uiVars>>
        BY <1>1, <1>2, <1>4 DEF ProcessUIResponse
  <2>2. EntriesKept
        BY <2>1 DEF EntriesKept, uiVars
  <2> QED BY <1>3, <2>1, <2>2, FewerKeeps DEF AnswersOneOrNone, uiVars, cynaraVars
<1>5. CASE Known(r.id)
  <2>1. PICK a \in Asks : /\ a = m_requests[r.id] /\ idOf[a] = r.id
                          /\ Open(a) /\ a \notin unheard
        BY <1>2, <1>5 DEF Ledger, RequestLedger, Entered, Known, TypeInv, TypeOK
  <2>2. PICK b \in Asks : /\ idOf[b] = r.id
                          /\ verdict[b] \in Outcomes
                          /\ r.type = RunResponse(verdict[b])
        BY <1>1, <1>2 DEF Ledger, ResponseLedger, Due
  <2>3. a = b
        BY <1>2, <2>1, <2>2 DEF Ledger, AskLedger
  <2>4. PICK d : d = AnswerData(r.type) /\ d = Promised(verdict[a])
        BY <2>2, <2>3, AnswerIsPromise, OutcomesAssumption
  <2>5. ~(HasUI(r.id) /\ m_thread[r.id] = "waiting")
    <3>1. verdict[a] # NoOutcome
          BY <2>2, <2>3, AnswerIsPromise, OutcomesAssumption
    <3>2. HasUI(r.id) => m_UIs[r.id] \in Asks /\ idOf[m_UIs[r.id]] = r.id
          BY <1>2 DEF Ledger, DialogLedger, HasUI, TypeInv, TypeOK, UITypeOK
    <3>3. HasUI(r.id) => m_UIs[r.id] = a
          BY <1>2, <2>1, <3>2 DEF Ledger, AskLedger
    <3> QED BY <1>2, <3>1, <3>3 DEF Ledger, DialogLedger
  <2>6. /\ sendResponse("RT_Action", r.id, d)
        /\ m_requests'[r.id] = NoAsk
        /\ \A x \in Ids : x # r.id => m_requests'[x] = m_requests[x]
        BY <1>1, <1>2, <1>5, <2>4 DEF ProcessUIResponse, TypeInv, TypeOK
  <2>7. ASSUME NEW x \in Request, InSight(x)', x.type = "RT_Action" PROVE x.id # r.id
    <3>1. SoundAction(x)
          BY <1>3, <2>7 DEF Ledger, IncomingLedger
    <3> QED BY <1>5, <3>1 DEF SoundAction
  <2>8. Ledger' /\ Responded(a, "RT_Action", d)
        BY <1>2, <1>3, <2>1, <2>4, <2>5, <2>6, <2>7, SendKeeps
  <2> QED BY <2>4, <2>8 DEF AnswersOneOrNone
<1> QED BY <1>4, <1>5
-----------------------------------------------------------------------------
(* Every step keeps the ledger and is a step of the contract, or none.     *)
ContractStep == [Contract!Next]_(Contract!vars)

(* The contract speaks of answers with operators of its own.               *)
LEMMA SameWords ==
    /\ Contract!NoData = NoData
    /\ Contract!NoOutcome = NoOutcome
    /\ Contract!NoReply = NoReply
    /\ \A o : Contract!Promised(o) = Promised(o)
<1>1. Contract!NoData = NoData /\ Contract!NoOutcome = NoOutcome
      BY DEF Contract!NoData, NoData, Contract!NoOutcome, NoOutcome
<1>2. Contract!NoReply = NoReply
      BY <1>1 DEF Contract!NoReply, NoReply
<1>3. Contract!PolicyOfLabel = PolicyOfLabel /\ Contract!ButtonLabels = ButtonLabels
      BY DEF Contract!PolicyOfLabel, PolicyOfLabel, Contract!ButtonLabels, ButtonLabels,
         Contract!ALLOW_ONCE, Contract!ALLOW_PER_SESSION, Contract!ALLOW_PER_LIFE,
         Contract!DENY_ONCE, Contract!DENY_PER_SESSION, Contract!DENY_PER_LIFE,
         ALLOW_ONCE, ALLOW_PER_SESSION, ALLOW_PER_LIFE, DENY_ONCE, DENY_PER_SESSION, DENY_PER_LIFE
<1>4. \A o : Contract!Promised(o) = Promised(o)
      BY <1>3 DEF Contract!Promised, Promised
<1> QED BY <1>1, <1>2, <1>4

LEMMA ShrinkingSteps ==
    ASSUME TypeInv, Ledger,
           \/ StartTalker \/ WaitForEvent \/ Wake \/ LoopAgain \/ TakeResponse \/ ProcessClose
           \/ IgnoreRequest \/ DismissCancelled \/ StartUICollides \/ DismissAnswered \/ Cleanup
           \/ FinishTalker \/ FinishUIs
    PROVE  Ledger' /\ UNCHANGED <<status, reply, verdict, unheard>>
<1>1. CASE Wake \/ LoopAgain \/ TakeResponse
  <2>1. /\ \E next \in {"loop", "cleanup", "finishTalker"} :
               PopRequest \/ PopResponse \/ NothingToPop(next)
        /\ pc # "gotRequest" /\ pc # "gotResponse"
        /\ UNCHANGED <<m_requests, cynaraVars, uiVars>>
        BY <1>1 DEF Wake, LoopAgain, TakeResponse, TakeNext
  <2>2. (\A x : InSight(x)' => InSight(x)) /\ (\A x : Due(x)' => Due(x)) /\ OneAction'
        BY <2>1, PopInSight, PopDue DEF Ledger
  <2>3. EntriesKept /\ UNCHANGED <<cynaraVars, verdict>>
        BY <2>1 DEF EntriesKept, uiVars
  <2> QED BY <2>2, <2>3, FewerKeeps DEF cynaraVars
<1>2. CASE DismissCancelled \/ DismissAnswered \/ Cleanup \/ FinishUIs
  <2>1. PICK S \in SUBSET Ids : dismiss(S)
        BY <1>2 DEF DismissCancelled, DismissAnswered, Cleanup, FinishUIs, dismissUI, cleanupUIThreads
  <2>2. /\ m_requests' = m_requests \/ m_requests' = [id \in Ids |-> NoAsk]
        /\ UNCHANGED <<cynaraVars, m_incomingRequests, m_incomingResponses>>
        /\ pc' \notin {"gotRequest", "gotResponse"}
        BY <1>2 DEF DismissCancelled, DismissAnswered, Cleanup, FinishUIs, queueVars
  <2>3. (\A x : InSight(x)' => InSight(x)) /\ (\A x : Due(x)' => Due(x)) /\ OneAction'
        BY <2>2, LeaveSight, LeaveDue DEF Ledger
  <2>4. EntriesKept /\ UNCHANGED verdict
        BY <2>1, <2>2 DEF EntriesKept, dismiss, Joined, HasUI
  <2> QED BY <2>2, <2>3, <2>4, FewerKeeps DEF cynaraVars
<1>3. CASE \/ StartTalker \/ WaitForEvent \/ ProcessClose \/ IgnoreRequest \/ StartUICollides
           \/ FinishTalker
  <2>1. /\ UNCHANGED <<m_requests, cynaraVars, uiVars, m_incomingResponses>>
        /\ m_incomingRequests' = m_incomingRequests \/ m_incomingRequests' = <<>>
        /\ pc' \notin {"gotRequest", "gotResponse"}
        BY <1>3 DEF StartTalker, WaitForEvent, ProcessClose, IgnoreRequest, StartUICollides,
           FinishTalker, queueVars
  <2>2. (\A x : InSight(x)' => InSight(x)) /\ (\A x : Due(x)' => Due(x)) /\ OneAction'
        BY <2>1, LeaveSight, LeaveDue DEF Ledger
  <2>3. EntriesKept /\ UNCHANGED <<cynaraVars, verdict>>
        BY <2>1 DEF EntriesKept, uiVars
  <2> QED BY <2>2, <2>3, FewerKeeps DEF cynaraVars
<1> QED BY <1>1, <1>2, <1>3

(* A response is taken, or lost, or there is nobody to take it.            *)
LEMMA ResponseIsContractStep ==
    ASSUME NEW a \in Asks, NEW type, NEW data, Responded(a, type, data), Running, Running',
           \/ type = "RT_Action" /\ data = Promised(verdict[a])
           \/ type = "RT_Cancel" /\ data = NoData /\ (Waiting(a) => status[a] = "cancelling")
    PROVE  ContractStep
<1>1. CASE UNCHANGED <<status, reply, unheard>>
      BY <1>1 DEF ContractStep, Contract!vars, Responded
<1>2. CASE Waiting(a) /\ a \notin unheard /\ unheard' = unheard \cup {a} /\ UNCHANGED <<status, reply>>
  <2>1. Contract!Lose(a)
        BY <1>2 DEF Contract!Lose, Contract!Waiting, Waiting, Responded, Running
  <2> QED BY <2>1 DEF ContractStep, Contract!Next
<1>3. CASE /\ Waiting(a) /\ a \notin unheard /\ UNCHANGED unheard
           /\ status' = [status EXCEPT ![a] = "replied"]
           /\ reply' = [reply EXCEPT ![a] = [type |-> type, data |-> data]]
  <2>1. CASE type = "RT_Action"
    <3>1. Contract!Answer(a)
          BY <1>3, <2>1, SameWords DEF Contract!Answer, Contract!Respond, Contract!Waiting, Waiting,
             Responded, Running
    <3> QED BY <3>1 DEF ContractStep, Contract!Next
  <2>2. CASE type = "RT_Cancel"
    <3>1. Contract!ConfirmCancel(a)
          BY <1>3, <2>2, SameWords DEF Contract!ConfirmCancel, Contract!Respond, Responded, Running
    <3> QED BY <3>1 DEF ContractStep, Contract!Next
  <2> QED BY <2>1, <2>2
<1> QED BY <1>1, <1>2, <1>3 DEF Responded

LEMMA AnswerIsContractStep ==
    ASSUME AnswersOneOrNone, Running, Running'
    PROVE  ContractStep
<1>1. CASE UNCHANGED <<status, reply, verdict, unheard>>
      BY <1>1 DEF ContractStep, Contract!vars
<1>2. ASSUME NEW a \in Asks, Responded(a, "RT_Action", Promised(verdict[a])) PROVE ContractStep
      BY <1>2, ResponseIsContractStep
<1> QED BY <1>1, <1>2 DEF AnswersOneOrNone

LEMMA LedgerMain == TypeInv /\ Ledger /\ MainThread => Ledger' /\ ContractStep
<1> SUFFICES ASSUME TypeInv, Ledger, MainThread PROVE Ledger' /\ ContractStep
    OBVIOUS
<1>1. CASE ProcessCancel
  <2>1. Running /\ Running'
        BY <1>1 DEF ProcessCancel, Running, Ended
  <2>2. PICK a \in Asks : /\ Waiting(a) => status[a] = "cancelling"
                          /\ Responded(a, "RT_Cancel", NoData)
        BY <1>1, ProcessCancelKeeps
  <2>3. ContractStep
        BY <2>1, <2>2, ResponseIsContractStep
  <2> QED BY <1>1, <2>3, ProcessCancelKeeps
<1>2. CASE StartUIFails
  <2>1. Running /\ Running'
        BY <1>2 DEF StartUIFails, NewAction, Running, Ended
  <2> QED BY <1>2, <2>1, StartUIFailsKeeps, AnswerIsContractStep
<1>3. CASE ProcessUIResponse
  <2>1. Running /\ Running'
        BY <1>3 DEF ProcessUIResponse, Running, Ended
  <2> QED BY <1>3, <2>1, AnswerKeeps, AnswerIsContractStep
<1>4. CASE StartUI
  <2>1. Running /\ Running'
        BY <1>4 DEF StartUI, NewAction, Running, Ended
  <2>2. UNCHANGED <<status, reply, verdict, unheard>>
        BY <1>4 DEF StartUI, startUI, cynaraVars
  <2> QED BY <1>4, <2>1, <2>2, StartUIKeeps DEF ContractStep, Contract!vars
<1>5. CASE ~(ProcessCancel \/ StartUIFails \/ ProcessUIResponse \/ StartUI)
  <2>1. Ledger' /\ UNCHANGED <<status, reply, verdict, unheard>>
        BY <1>5, ShrinkingSteps DEF MainThread
  <2>2. Running
        BY <1>5 DEF MainThread, StartTalker, WaitForEvent, Wake, LoopAgain, TakeResponse,
           ProcessClose, IgnoreRequest, DismissCancelled, StartUICollides, NewAction,
           DismissAnswered, Cleanup, FinishTalker, FinishUIs, Running, Ended
  <2>3. CASE Running'
        BY <2>1, <2>2, <2>3 DEF ContractStep, Contract!vars
  <2>4. CASE ~Running'
    <3>1. Running' = FALSE
          BY <2>4, Zenon DEF Running
    <3>2. Contract!End
          BY <2>1, <3>1, Zenon DEF Contract!End
    <3> QED BY <2>1, <2>2, <3>2 DEF ContractStep, Contract!Next
  <2> QED BY <2>1, <2>3, <2>4
<1> QED BY <1>1, <1>2, <1>3, <1>4, <1>5

(* A broken connection is the contract's, and puts at most RT_Close in     *)
(* sight of the main thread.                                               *)
LEMMA DisconnectIsContractStep ==
    ASSUME TypeInv, Disconnect, UNCHANGED verdict, Running, Running'
    PROVE  ContractStep
<1>1. unheard' = unheard \ Asks
      BY DEF Disconnect, TypeInv, TypeOK, CynaraTypeOK
<1>2. status' = [a \in Asks |-> IF a \in Asks /\ Waiting(a) THEN "lost" ELSE status[a]]
      BY DEF Disconnect
<1>3. Contract!Disconnect
      BY <1>1, <1>2 DEF Disconnect, Contract!Disconnect, Contract!EndChecks, Contract!Waiting, Waiting
<1> QED BY <1>3 DEF ContractStep, Contract!Next

LEMMA CloseInSight ==
    ASSUME TypeInv, Ledger, requestHandler(CloseRequest), UNCHANGED <<pc, request, response>>
    PROVE  /\ \A x : InSight(x)' => InSight(x) \/ x.type = "RT_Close"
           /\ \A x : Due(x)' => Due(x)
           /\ OneAction'
<1>1. PICK r \in Request : r = CloseRequest /\ r.type = "RT_Close"
      BY CloseRequestType DEF CloseRequest
<1>2. (\A x : InSight(x)' => InSight(x) \/ x = r) /\ OneAction'
      BY <1>1, AppendInSight DEF Ledger
<1>3. \A x : Due(x)' => Due(x)
      BY LeaveDue DEF requestHandler
<1> QED BY <1>1, <1>2, <1>3

LEMMA LedgerTalker ==
    ASSUME ~ReuseIds, ~ResendActions, TypeInv, Ledger, Talker
    PROVE  Ledger' /\ ContractStep
<1>1. Running /\ Running' /\ UNCHANGED <<pc, request, response, m_requests, uiVars>>
      BY DEF Talker, TalkerInitialize, TalkerReceivesAction, TalkerReceivesCancel,
         TalkerReceivesAgain, TalkerReceivesError, TalkerFinishes, mainVars, Running
<1>2. CASE TalkerInitialize
  <2>1. UNCHANGED <<cynaraVars, verdict>> /\ EntriesKept
        BY <1>1, <1>2 DEF TalkerInitialize, EntriesKept, uiVars
  <2>2. ContractStep
        BY <1>1, <2>1 DEF ContractStep, Contract!vars, cynaraVars
  <2>3. CASE UNCHANGED queueVars
    <3>1. (\A x : InSight(x)' => InSight(x)) /\ (\A x : Due(x)' => Due(x)) /\ OneAction'
          BY <1>1, <2>3, LeaveSight, LeaveDue DEF Ledger, queueVars
    <3> QED BY <2>1, <2>2, <3>1, FewerKeeps
  <2>4. CASE requestHandler(CloseRequest)
    <3>1. /\ \A x : InSight(x)' => InSight(x) \/ x.type = "RT_Close"
          /\ \A x : Due(x)' => Due(x)
          /\ OneAction'
          BY <1>1, <2>4, CloseInSight
    <3> QED BY <1>1, <2>1, <2>2, <3>1, FewerKeeps
  <2> QED BY <1>2, <2>3, <2>4 DEF TalkerInitialize
<1>3. ASSUME NEW a \in Asks, NEW id \in Ids, TalkerReceivesAction(a, id)
      PROVE  Ledger' /\ ContractStep
  <2>1. Contract!Ask(a)
        BY <1>1, <1>3 DEF TalkerReceivesAction, SendAction, Contract!Ask, uiVars
  <2>2. Ledger'
        BY <1>1, <1>3, SendActionKeeps DEF TalkerReceivesAction, requestHandler
  <2> QED BY <1>1, <2>1, <2>2 DEF ContractStep, Contract!Next
<1>4. ASSUME NEW a \in Asks, TalkerReceivesCancel(a) PROVE Ledger' /\ ContractStep
  <2>1. Contract!Cancel(a)
        BY <1>1, <1>4 DEF TalkerReceivesCancel, SendCancel, Contract!Cancel, uiVars
  <2>2. Ledger'
        BY <1>1, <1>4, SendCancelKeeps DEF TalkerReceivesCancel, requestHandler
  <2> QED BY <1>1, <2>1, <2>2 DEF ContractStep, Contract!Next
<1>5. ASSUME NEW a \in Asks, TalkerReceivesAgain(a) PROVE FALSE
      BY <1>5 DEF TalkerReceivesAgain, ResendAction
<1>6. CASE TalkerReceivesError
  <2>1. requestHandler(CloseRequest) /\ UNCHANGED <<cynaraVars, verdict>> /\ EntriesKept
        BY <1>1, <1>6 DEF TalkerReceivesError, EntriesKept, uiVars
  <2>2. /\ \A x : InSight(x)' => InSight(x) \/ x.type = "RT_Close"
        /\ \A x : Due(x)' => Due(x)
        /\ OneAction'
        BY <1>1, <2>1, CloseInSight
  <2>3. ContractStep
        BY <1>1, <2>1 DEF ContractStep, Contract!vars, cynaraVars
  <2> QED BY <2>1, <2>2, <2>3, FewerKeeps
<1>7. CASE TalkerFinishes
  <2>1. Disconnect /\ UNCHANGED queueVars
        BY <1>7 DEF TalkerFinishes
  <2>2. (\A x : InSight(x)' => InSight(x)) /\ (\A x : Due(x)' => Due(x)) /\ OneAction'
        BY <1>1, <2>1, LeaveSight, LeaveDue DEF Ledger, queueVars
  <2> QED BY <1>1, <2>1, <2>2, DisconnectKeeps, DisconnectIsContractStep DEF uiVars
<1> QED BY <1>2, <1>3, <1>4, <1>5, <1>6, <1>7 DEF Talker

LEMMA LedgerOthers ==
    ASSUME TypeInv, ThreadHasUI, Ledger,
           \/ \E id \in Ids : UIFinishes(id) \/ \E o \in Outcomes : UIResponds(id, o)
           \/ kill_handler \/ CynaraGone \/ UNCHANGED vars
    PROVE  Ledger' /\ ContractStep
<1>1. ASSUME NEW id \in Ids, NEW o \in Outcomes, UIResponds(id, o) PROVE Ledger' /\ ContractStep
  <2>1. Ledger' /\ \E a \in Asks :
                        /\ status[a] # "unsent" /\ reply[a].type # "RT_Action"
                        /\ verdict[a] = NoOutcome
                        /\ verdict' = [verdict EXCEPT ![a] = o]
        BY <1>1, UserDecidesKeeps DEF UIResponds, UIResponseHandler, mainVars
  <2>2. PICK a \in Asks : /\ status[a] # "unsent" /\ reply[a].type # "RT_Action"
                          /\ verdict[a] = NoOutcome
                          /\ verdict' = [verdict EXCEPT ![a] = o]
        BY <2>1
  <2>3. Running /\ Running' /\ UNCHANGED <<status, reply, unheard>>
        BY <1>1 DEF UIResponds, mainVars, cynaraVars, Running
  <2>4. Contract!Decide(a, o)
        BY <2>2, <2>3, SameWords DEF Contract!Decide, Running
  <2> QED BY <2>1, <2>3, <2>4 DEF ContractStep, Contract!Next
<1>2. CASE CynaraGone
  <2>1. /\ Disconnect /\ Running /\ Running'
        /\ UNCHANGED <<pc, request, response, m_requests, m_incomingRequests, m_incomingResponses, uiVars>>
        BY <1>2 DEF CynaraGone, mainVars, queueVars, Running
  <2>2. (\A x : InSight(x)' => InSight(x)) /\ (\A x : Due(x)' => Due(x)) /\ OneAction'
        BY <2>1, LeaveSight, LeaveDue DEF Ledger
  <2> QED BY <2>1, <2>2, DisconnectKeeps, DisconnectIsContractStep DEF uiVars
<1>3. CASE kill_handler \/ UNCHANGED vars \/ \E id \in Ids : UIFinishes(id)
  <2>1. /\ UNCHANGED <<pc, request, response, m_requests, m_incomingRequests, m_incomingResponses>>
        /\ UNCHANGED <<cynaraVars, m_UIs, verdict>>
        BY <1>3 DEF kill_handler, vars, mainVars, queueVars, uiVars, UIFinishes, setFinished
  <2>2. (\A x : InSight(x)' => InSight(x)) /\ (\A x : Due(x)' => Due(x)) /\ OneAction'
        BY <2>1, LeaveSight, LeaveDue DEF Ledger
  <2>3. \A id \in Ids : m_thread'[id] = "waiting" => m_thread[id] = "waiting"
    <3>1. CASE UNCHANGED uiVars
          BY <3>1 DEF uiVars
    <3>2. ASSUME NEW id \in Ids, UIFinishes(id)
          PROVE  \A x \in Ids : m_thread'[x] = "waiting" => m_thread[x] = "waiting"
          BY <3>2 DEF UIFinishes, setFinished, TypeInv, TypeOK, UITypeOK
    <3> QED BY <1>3, <3>1, <3>2 DEF kill_handler, vars
  <2>4. EntriesKept
        BY <2>1, <2>3 DEF EntriesKept
  <2>5. ContractStep
        BY <2>1 DEF ContractStep, Contract!vars, cynaraVars, Running
  <2> QED BY <2>1, <2>2, <2>4, <2>5, FewerKeeps
<1> QED BY <1>1, <1>2, <1>3

LEMMA LedgerInit == Init => Ledger
<1> SUFFICES ASSUME Init PROVE Ledger
    OBVIOUS
<1>1. AskLedger
      BY NoIdAssumption DEF Init, CynaraInit, UIInit, AskLedger, NoReply
<1>2. RequestLedger /\ DialogLedger
      BY DEF Init, UIInit, RequestLedger, DialogLedger, Known, HasUI
<1>3. DOMAIN <<>> = {}
      OBVIOUS
<1>4. IncomingLedger /\ OneAction /\ ResponseLedger
      BY <1>3 DEF Init, IncomingLedger, OneAction, ResponseLedger, InSight, Due
<1>5. AnswerIsUsersOwn /\ NoStrayReply
      BY DEF Init, CynaraInit, AnswerIsUsersOwn, NoStrayReply, NoReply
<1> QED BY <1>1, <1>2, <1>4, <1>5 DEF Ledger

LEMMA LedgerNext ==
    ASSUME ~ReuseIds, ~ResendActions
    PROVE  TypeInv /\ ThreadHasUI /\ Ledger /\ [Next]_vars => Ledger' /\ ContractStep
<1> SUFFICES ASSUME TypeInv, ThreadHasUI, Ledger, [Next]_vars PROVE Ledger' /\ ContractStep
    OBVIOUS
<1> QED BY LedgerMain, LedgerTalker, LedgerOthers DEF Next, ProcessEnded

LEMMA LedgerAlways ==
    ASSUME ~ReuseIds, ~ResendActions
    PROVE  Spec => []Ledger
<1>1. OrphanInv => TypeInv /\ ThreadHasUI
      BY DEF OrphanInv
<1> QED BY <1>1, LedgerInit, LedgerNext, OrphanInvAlways, PTL DEF Spec

(* The answer cynara takes for a check is the one written on the button    *)
(* pressed in the dialog of that check.                                    *)
THEOREM AnswersUsersOwn ==
    ASSUME ~ReuseIds, ~ResendActions
    PROVE  Spec => []AnswerIsUsersOwn
<1>1. Ledger => AnswerIsUsersOwn
      BY DEF Ledger
<1> QED BY <1>1, LedgerAlways, PTL

(* No response goes to cynara under an id nothing waits for.               *)
THEOREM AnswersOnlyWaiting ==
    ASSUME ~ReuseIds, ~ResendActions
    PROVE  Spec => []NoStrayReply
<1>1. Ledger => NoStrayReply
      BY DEF Ledger
<1> QED BY <1>1, LedgerAlways, PTL

(* The agent's threads, queues and maps implement the contract: at most    *)
(* one answer to a check, only while it waits for one, and the right one.  *)
THEOREM KeepsContract ==
    ASSUME ~ReuseIds, ~ResendActions
    PROVE  Spec => ImplementsContract
<1>1. Init => Contract!Init
      BY SameWords DEF Init, CynaraInit, UIInit, Contract!Init, Running, Ended
<1>2. OrphanInv /\ Ledger /\ [Next]_vars => [Contract!Next]_(Contract!vars)
      BY LedgerNext DEF ContractStep, OrphanInv
<1> QED BY <1>1, <1>2, LedgerAlways, OrphanInvAlways, PTL DEF Spec, ImplementsContract, Contract!Spec
=============================================================================
