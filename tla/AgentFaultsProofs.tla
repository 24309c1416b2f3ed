------------------------- MODULE AgentFaultsProofs --------------------------
(***************************************************************************)
(* Theorems about AgentFaults: what is left of the guarantees of the agent *)
(* when any of its allocations and thread creations may throw, whatever    *)
(* the sets of checks, ids and outcomes, and whatever cynara does.         *)
(***************************************************************************)
EXTENDS AgentFaults, AgentContractProofs
-----------------------------------------------------------------------------
(* Types.  A process that std::terminate ended during the initialization   *)
(* has no request in its hands.                                            *)
FaultTypeInv == TypeOK /\ WaitingHasId /\ (Running => InHand)

LEMMA AbortedStays == [FaultNext]_vars /\ ~Running => UNCHANGED vars
<1> SUFFICES ASSUME [FaultNext]_vars, ~Running PROVE UNCHANGED vars
    OBVIOUS
<1> USE DEF Running, Ended
<1>1. ~MainThread
      BY DEF MainThread, StartTalker, WaitForEvent, Wake, LoopAgain, TakeResponse, ProcessClose,
         IgnoreRequest, ProcessCancel, DismissCancelled, StartUIFails, StartUI, NewAction,
         StartUICollides, ProcessUIResponse, DismissAnswered, Cleanup, FinishTalker, FinishUIs
<1>2. ~Talker
      BY DEF Talker, TalkerInitialize, TalkerReceivesAction, TalkerReceivesCancel,
         TalkerReceivesAgain, TalkerReceivesError, TalkerFinishes
<1>3. ~Fault
      BY DEF Fault, TalkerDropsAction, TalkerDropsCancel, TalkerDropsClose, InitializeThrows,
         UIThrows, TalkerStartThrows, StartUIThrows, InsertRequestThrows, InsertUIThrows,
         ProcessUIResponseThrows, NewAction
<1> QED BY <1>1, <1>2, <1>3 DEF FaultNext, Next, UIFinishes, UIResponds, kill_handler, CynaraGone,
        ProcessEnded

LEMMA FaultTypes == FaultTypeInv /\ Fault => FaultTypeInv'
<1> SUFFICES ASSUME FaultTypeInv, Fault PROVE FaultTypeInv'
    OBVIOUS
<1> USE DEF FaultTypeInv, TypeOK, MainState, Ended, Running
<1>1. ASSUME NEW a \in Asks, NEW id \in Ids, TalkerDropsAction(a, id) PROVE FaultTypeInv'
  <2>1. CynaraTypeOK' /\ WaitingHasId'
        BY <1>1 DEF TalkerDropsAction, SendAction, CynaraTypeOK, Status, WaitingHasId, Waiting
  <2> QED BY <1>1, <2>1 DEF TalkerDropsAction, unexpectedException, TalkerTypeOK, TalkerState,
          UITypeOK, InHand, mainVars, queueVars, uiVars
<1>2. ASSUME NEW a \in Asks, TalkerDropsCancel(a) PROVE FaultTypeInv'
  <2>1. CynaraTypeOK' /\ WaitingHasId'
        BY <1>2 DEF TalkerDropsCancel, SendCancel, CynaraTypeOK, Status, WaitingHasId, Waiting
  <2> QED BY <1>2, <2>1 DEF TalkerDropsCancel, unexpectedException, TalkerTypeOK, TalkerState,
          UITypeOK, InHand, mainVars, queueVars, uiVars
<1>3. CASE TalkerDropsClose
  <2>1. CynaraTypeOK' /\ WaitingHasId'
        BY <1>3 DEF TalkerDropsClose, cynaraVars, CynaraTypeOK, WaitingHasId, Waiting
  <2> QED BY <1>3, <2>1 DEF TalkerDropsClose, unexpectedException, TalkerTypeOK, TalkerState,
          UITypeOK, InHand, mainVars, queueVars, uiVars
<1>4. ASSUME NEW id \in Ids, NEW o \in Outcomes, UIThrows(id, o) PROVE FaultTypeInv'
  <2>1. UITypeOK'
        BY <1>4 DEF UIThrows, waitResponse, UITypeOK, ThreadState
  <2> QED BY <1>4, <2>1 DEF UIThrows, CynaraTypeOK, TalkerTypeOK, InHand, WaitingHasId, Waiting,
          mainVars, queueVars, cynaraVars, talkerVars
<1>5. CASE InsertRequestThrows
  <2>1. request.id \in Ids /\ request.data \in Asks
        BY <1>5, RequestFields DEF InsertRequestThrows, NewAction, InHand
  <2>2. UITypeOK'
        BY <1>5, <2>1 DEF InsertRequestThrows, startUI, UITypeOK, ThreadState
  <2> QED BY <1>5, <2>2 DEF InsertRequestThrows, Unwind, CynaraTypeOK, TalkerTypeOK, InHand,
          WaitingHasId, Waiting, queueVars, cynaraVars, talkerVars
<1>6. CASE TalkerStartThrows \/ StartUIThrows \/ ProcessUIResponseThrows
      BY <1>6 DEF TalkerStartThrows, StartUIThrows, ProcessUIResponseThrows, Unwind, CynaraTypeOK,
         TalkerTypeOK,
         UITypeOK, InHand, WaitingHasId, Waiting, queueVars, cynaraVars, talkerVars, uiVars
<1>7. CASE InitializeThrows \/ InsertUIThrows
      BY <1>7 DEF InitializeThrows, InsertUIThrows, CynaraTypeOK, TalkerTypeOK, UITypeOK,
         WaitingHasId, Waiting, queueVars, cynaraVars, talkerVars, uiVars
<1> QED BY <1>1, <1>2, <1>3, <1>4, <1>5, <1>6, <1>7 DEF Fault

LEMMA FaultTypeNext == FaultTypeInv /\ [FaultNext]_vars => FaultTypeInv'
<1> SUFFICES ASSUME FaultTypeInv, [FaultNext]_vars PROVE FaultTypeInv'
    OBVIOUS
<1>1. CASE ~Running
  <2>1. UNCHANGED vars
        BY <1>1, AbortedStays
  <2> QED BY <1>1, <2>1 DEF FaultTypeInv, TypeOK, Running, WaitingHasId, Waiting, CynaraTypeOK,
          TalkerTypeOK, UITypeOK, vars, mainVars, queueVars, cynaraVars, talkerVars, uiVars
<1>2. CASE Running /\ [Next]_vars
      BY <1>2, TypeInvNext DEF FaultTypeInv, TypeInv
<1> QED BY <1>1, <1>2, FaultTypes DEF FaultNext
-----------------------------------------------------------------------------
(* Where checks are lost sight of.  As long as no end is under way the     *)
(* invariant of the agent without faults holds; a step that leaves the end *)
(* of a connection behind has disconnected every check.                    *)
SightInv == FaultTypeInv /\ (~EndIsUnderWay => LinkInv /\ NoForgottenAsk)

(* A fault either begins an end or leaves alone what the agent knows.      *)
LEMMA FaultsInSight == SightInv /\ Fault => (~EndIsUnderWay => LinkInv /\ NoForgottenAsk)'
<1> SUFFICES ASSUME SightInv, Fault, ~EndIsUnderWay' PROVE LinkInv' /\ NoForgottenAsk'
    OBVIOUS
<1>1. PICK id \in Ids, o \in Outcomes : UIThrows(id, o)
      BY DEF Fault, EndIsUnderWay, Running, Ended, TalkerDropsAction, TalkerDropsCancel,
         TalkerDropsClose, unexpectedException, InitializeThrows, TalkerStartThrows, StartUIThrows,
         InsertRequestThrows, InsertUIThrows, ProcessUIResponseThrows, Unwind
<1>2. UNCHANGED <<mainVars, queueVars, cynaraVars, talkerVars>>
      BY <1>1 DEF UIThrows
<1>3. LinkInv /\ NoForgottenAsk
      BY <1>2 DEF SightInv, EndIsUnderWay, Running, mainVars, talkerVars
<1> QED BY <1>2, <1>3 DEF LinkInv, Connected, NoForgottenAsk, ActionOnItsWay, Known, Waiting,
        mainVars, queueVars, cynaraVars, talkerVars

(* An end under way goes on, but for the talker, which disconnects.        *)
LEMMA EndGoesOn ==
    ASSUME SightInv, EndIsUnderWay, Running, Next, ~EndIsUnderWay'
    PROVE  LinkInv' /\ NoForgottenAsk'
<1>1. TalkerFinishes
  <2>1. CASE pc \in {"finishTalker", "finishUIs"}
    <3>1. pc' # pc
          BY <2>1 DEF EndIsUnderWay
    <3>2. MainThread
          BY <3>1 DEF Next, Talker, TalkerInitialize, TalkerReceivesAction, TalkerReceivesCancel,
             TalkerReceivesAgain, TalkerReceivesError, TalkerFinishes, UIFinishes, UIResponds,
             kill_handler, CynaraGone, ProcessEnded, vars, mainVars
    <3>3. FinishTalker \/ FinishUIs
          BY <2>1, <3>2 DEF MainThread, StartTalker, WaitForEvent, Wake, LoopAgain, TakeResponse,
             ProcessClose, IgnoreRequest, ProcessCancel, DismissCancelled, StartUIFails, StartUI,
             NewAction, StartUICollides, ProcessUIResponse, DismissAnswered, Cleanup
    <3> QED BY <3>3 DEF FinishTalker, FinishUIs, EndIsUnderWay, Running, Ended
  <2>2. CASE talker = "closing" /\ pc \notin {"finishTalker", "finishUIs"}
    <3>1. talker' # "closing"
          BY DEF EndIsUnderWay
    <3>2. ~MainThread
          BY <2>2, <3>1 DEF MainThread, StartTalker, TalkerStart, WaitForEvent, Wake, LoopAgain,
             TakeResponse, ProcessClose, IgnoreRequest, ProcessCancel, DismissCancelled,
             StartUIFails,
             StartUI, StartUICollides, ProcessUIResponse, DismissAnswered, Cleanup, FinishTalker,
             FinishUIs, sendResponse, talkerVars
    <3> QED
        BY <2>2, <3>1, <3>2 DEF Next, Talker, TalkerInitialize, initializeSucceeds, initializeFails,
           TalkerReceivesAction, TalkerReceivesCancel, TalkerReceivesAgain, getRequest,
           TalkerReceivesError, getRequestFails, UIFinishes, UIResponds, kill_handler, CynaraGone,
           ProcessEnded, vars, talkerVars
  <2> QED BY <2>1, <2>2 DEF EndIsUnderWay
<1>2. talker' = "finished" /\ \A a \in Asks : ~Waiting(a)'
      BY <1>1 DEF TalkerFinishes, finishConnection, Disconnect, Waiting, SightInv, FaultTypeInv,
         TypeOK, CynaraTypeOK
<1> QED BY <1>2 DEF LinkInv, Connected, NoForgottenAsk

(* An exception never loses one check and spares the agent: only an unsent *)
(* response does.                                                          *)
THEOREM LosesSightOnlyAtTheEnd == FaultSpec => []ForgottenOnlyAtTheEnd
<1>1. Init => SightInv
  <2>1. Init => NoForgottenAsk
        BY DEF Init, CynaraInit, NoForgottenAsk, Waiting
  <2> QED BY <2>1, TypeInvInit, LinkInvInit DEF SightInv, FaultTypeInv, TypeInv
<1>2. SightInv /\ [FaultNext]_vars => SightInv'
  <2> SUFFICES ASSUME SightInv, [FaultNext]_vars PROVE SightInv'
      OBVIOUS
  <2>1. FaultTypeInv'
        BY FaultTypeNext DEF SightInv
  <2>2. CASE UNCHANGED vars
    <3>1. UNCHANGED <<mainVars, queueVars, cynaraVars, talkerVars>>
          BY <2>2 DEF vars
    <3> QED BY <2>1, <3>1 DEF SightInv, EndIsUnderWay, Running, LinkInv, Connected, NoForgottenAsk,
            ActionOnItsWay, Known, Waiting, mainVars, queueVars, cynaraVars, talkerVars
  <2>3. CASE Running /\ EndIsUnderWay /\ Next
        BY <2>1, <2>3, EndGoesOn DEF SightInv
  <2>4. CASE ~EndIsUnderWay /\ Next
    <3>1. AskInv
          BY <2>4 DEF SightInv, FaultTypeInv, EndIsUnderWay, AskInv, TypeInv, JoinInv
    <3> QED BY <2>1, <2>4, <3>1, AskInvMain, AskInvTalker, AskInvOthers DEF Next, ProcessEnded,
               SightInv
  <2>5. CASE Fault
        BY <2>1, <2>5, FaultsInSight DEF SightInv
  <2> QED BY <2>2, <2>3, <2>4, <2>5, AbortedStays DEF FaultNext
<1>3. SightInv => ForgottenOnlyAtTheEnd
      BY DEF SightInv, ForgottenOnlyAtTheEnd, NoForgottenAsk
<1> QED BY <1>1, <1>2, <1>3, PTL DEF FaultSpec
-----------------------------------------------------------------------------
(* Accepted requests keep their dialogs: the invariant of OrphansNoRequest *)
(* without the responses, which an exception may lose.                     *)
DialogInv == FaultTypeInv /\ DismissedIsUnknown /\ ThreadHasUI /\ AcceptedKeepsDialog

(* A step that changes neither the requests nor the objects.               *)
LEMMA DialogsUntouched ==
    ASSUME DialogInv, UNCHANGED <<m_requests, uiVars>>,
           pc' \notin {"dismissCancelled", "dismissAnswered"}
    PROVE  DismissedIsUnknown' /\ ThreadHasUI' /\ AcceptedKeepsDialog'
BY DEF DialogInv, DismissedIsUnknown, ThreadHasUI, AcceptedKeepsDialog, HasUI, Known, uiVars

(* A dialog is started for a request that is accepted now, or never.       *)
LEMMA DialogStarted ==
    ASSUME DialogInv, NewAction, startUI(request.id, request.data), pc' \in {"takeResponse", "finishTalker"},
           \/ UNCHANGED m_requests
           \/ m_requests' = [m_requests EXCEPT ![request.id] = request.data]
    PROVE  DismissedIsUnknown' /\ ThreadHasUI' /\ AcceptedKeepsDialog'
<1>1. request.id \in Ids /\ request.data \in Asks
      BY RequestFields DEF NewAction, DialogInv, FaultTypeInv, Running, Ended, InHand
<1>2. /\ m_UIs'[request.id] # NoAsk
      /\ ~m_dismissing'[request.id]
      /\ \A id \in Ids : id # request.id =>
             /\ m_UIs'[id] = m_UIs[id]
             /\ m_thread'[id] = m_thread[id]
             /\ m_dismissing'[id] = m_dismissing[id]
             /\ m_requests'[id] = m_requests[id]
      BY <1>1, NoAskAssumption DEF startUI, DialogInv, FaultTypeInv, TypeOK, UITypeOK
<1> QED BY <1>2 DEF DialogInv, DismissedIsUnknown, ThreadHasUI, AcceptedKeepsDialog, HasUI, Known

(* A dismissal of dialogs whose requests are not accepted any more.        *)
LEMMA DialogsDismissed ==
    ASSUME DialogInv, NEW S \in SUBSET Ids, dismiss(S), \A id \in S : ~Known(id),
           \A id \in Ids : Known(id)' => Known(id),
           pc' \notin {"dismissCancelled", "dismissAnswered"}
    PROVE  DismissedIsUnknown' /\ ThreadHasUI' /\ AcceptedKeepsDialog'
<1>1. /\ \A id \in Ids \ S : m_UIs'[id] = m_UIs[id] /\ m_dismissing'[id] = m_dismissing[id]
      /\ ThreadHasUI'
      BY DismissKeeps DEF DialogInv, FaultTypeInv, TypeOK
<1> QED BY <1>1 DEF DialogInv, DismissedIsUnknown, AcceptedKeepsDialog, HasUI

LEMMA DialogInvMain ==
    DialogInv /\ MainThread => DismissedIsUnknown' /\ ThreadHasUI' /\ AcceptedKeepsDialog'
<1> SUFFICES ASSUME DialogInv, MainThread
             PROVE  DismissedIsUnknown' /\ ThreadHasUI' /\ AcceptedKeepsDialog'
    OBVIOUS
<1>1. CASE ProcessCancel
  <2>1. request.id \in Ids
        BY <1>1, RequestFields DEF ProcessCancel, DialogInv, FaultTypeInv, Running, Ended, InHand
  <2>2. /\ ~Known(request.id)'
        /\ \A id \in Ids : Known(id)' => Known(id)
        /\ UNCHANGED <<request, uiVars>> /\ pc' = "dismissCancelled"
        BY <1>1, <2>1 DEF ProcessCancel, Known, DialogInv, FaultTypeInv, TypeOK
  <2> QED BY <2>2 DEF DialogInv, DismissedIsUnknown, Known, ThreadHasUI, HasUI,
             AcceptedKeepsDialog, uiVars
<1>2. CASE ProcessUIResponse
  <2>1. response.id \in Ids
        BY <1>2 DEF ProcessUIResponse, DialogInv, FaultTypeInv, Running, Ended, InHand, Response
  <2>2. /\ ~Known(response.id)'
        /\ \A id \in Ids : Known(id)' => Known(id)
        /\ UNCHANGED <<response, uiVars>> /\ pc' = "dismissAnswered"
        BY <1>2, <2>1 DEF ProcessUIResponse, Known, DialogInv, FaultTypeInv, TypeOK
  <2> QED BY <2>2 DEF DialogInv, DismissedIsUnknown, Known, ThreadHasUI, HasUI,
             AcceptedKeepsDialog, uiVars
<1>3. CASE DismissCancelled
  <2>1. dismiss({request.id} \cap {i \in Ids : HasUI(i)}) /\ ~Known(request.id)
        BY <1>3 DEF DismissCancelled, dismissUI, DialogInv, DismissedIsUnknown
  <2>2. UNCHANGED m_requests /\ pc' = "takeResponse"
        BY <1>3 DEF DismissCancelled
  <2> QED BY <2>1, <2>2, DialogsDismissed DEF Known
<1>4. CASE DismissAnswered
  <2>1. dismiss({response.id} \cap {i \in Ids : HasUI(i)}) /\ ~Known(response.id)
        BY <1>4 DEF DismissAnswered, dismissUI, DialogInv, DismissedIsUnknown
  <2>2. UNCHANGED m_requests /\ pc' = "cleanup"
        BY <1>4 DEF DismissAnswered
  <2> QED BY <2>1, <2>2, DialogsDismissed DEF Known
<1>5. CASE Cleanup \/ FinishUIs
  <2> DEFINE S == {id \in Ids : HasUI(id) /\ m_dismissing[id]}
  <2>1. dismiss(S) /\ \A id \in S : ~Known(id)
        BY <1>5 DEF Cleanup, FinishUIs, cleanupUIThreads, DialogInv, AcceptedKeepsDialog
  <2>2. /\ \A id \in Ids : Known(id)' => Known(id)
        /\ pc' \notin {"dismissCancelled", "dismissAnswered"}
        BY <1>5 DEF Cleanup, FinishUIs, Known
  <2> QED BY <2>1, <2>2, DialogsDismissed
<1>6. CASE StartUI
      BY <1>6, DialogStarted DEF StartUI
<1>7. CASE \/ StartTalker \/ WaitForEvent \/ Wake \/ LoopAgain \/ TakeResponse \/ ProcessClose
           \/ IgnoreRequest \/ StartUIFails \/ StartUICollides \/ FinishTalker
  <2>1. UNCHANGED <<m_requests, uiVars>> /\ pc' \notin {"dismissCancelled", "dismissAnswered"}
        BY <1>7 DEF StartTalker, WaitForEvent, Wake, LoopAgain, TakeResponse, TakeNext, PopRequest,
           PopResponse, NothingToPop, ProcessClose, IgnoreRequest, StartUIFails, StartUICollides,
           NewAction, FinishTalker
  <2> QED BY <2>1, DialogsUntouched
<1> QED BY <1>1, <1>2, <1>3, <1>4, <1>5, <1>6, <1>7 DEF MainThread

(* The other threads keep the requests and the objects; a dialog thread    *)
(* changes nothing but its own place.                                      *)
LEMMA DialogInvThreads ==
    ASSUME DialogInv,
           UNCHANGED <<pc, request, response, m_requests, m_UIs, m_dismissing>>,
           \A id \in Ids : m_thread[id] = "none" => m_thread'[id] = "none"
    PROVE  DismissedIsUnknown' /\ ThreadHasUI' /\ AcceptedKeepsDialog'
BY DEF DialogInv, DismissedIsUnknown, ThreadHasUI, AcceptedKeepsDialog, HasUI, Known

LEMMA DialogInvFault ==
    DialogInv /\ Fault => DismissedIsUnknown' /\ ThreadHasUI' /\ AcceptedKeepsDialog'
<1> SUFFICES ASSUME DialogInv, Fault
             PROVE  DismissedIsUnknown' /\ ThreadHasUI' /\ AcceptedKeepsDialog'
    OBVIOUS
<1>1. CASE InsertRequestThrows
      BY <1>1, DialogStarted DEF InsertRequestThrows, Unwind
<1>2. CASE \/ TalkerStartThrows \/ StartUIThrows \/ InsertUIThrows \/ ProcessUIResponseThrows
           \/ InitializeThrows
  <2>1. UNCHANGED <<m_requests, uiVars>> /\ pc' \in {"finishTalker", "aborted"}
        BY <1>2 DEF TalkerStartThrows, StartUIThrows, InsertUIThrows, ProcessUIResponseThrows,
           InitializeThrows, Unwind
  <2> QED BY <2>1, DialogsUntouched
<1>3. ASSUME NEW id \in Ids, NEW o \in Outcomes, UIThrows(id, o)
      PROVE  DismissedIsUnknown' /\ ThreadHasUI' /\ AcceptedKeepsDialog'
  <2>1. \A i \in Ids : m_thread[i] = "none" => m_thread'[i] = "none"
        BY <1>3 DEF UIThrows, waitResponse, DialogInv, FaultTypeInv, TypeOK, UITypeOK
  <2> QED BY <1>3, <2>1, DialogInvThreads DEF UIThrows, waitResponse, mainVars
<1>4. CASE \/ \E a \in Asks, id \in Ids : TalkerDropsAction(a, id)
           \/ \E a \in Asks : TalkerDropsCancel(a)
           \/ TalkerDropsClose
      BY <1>4, DialogInvThreads DEF TalkerDropsAction, TalkerDropsCancel, TalkerDropsClose,
         mainVars, uiVars
<1> QED BY <1>1, <1>2, <1>3, <1>4 DEF Fault

LEMMA DialogInvNext == DialogInv /\ [FaultNext]_vars => DialogInv'
<1> SUFFICES ASSUME DialogInv, [FaultNext]_vars PROVE DialogInv'
    OBVIOUS
<1>1. FaultTypeInv'
      BY FaultTypeNext DEF DialogInv
<1>2. CASE MainThread \/ Fault
      BY <1>1, <1>2, DialogInvMain, DialogInvFault DEF DialogInv
<1>3. ASSUME NEW id \in Ids, UIFinishes(id) \/ \E o \in Outcomes : UIResponds(id, o)
      PROVE  DialogInv'
  <2>1. \A i \in Ids : m_thread[i] = "none" => m_thread'[i] = "none"
        BY <1>3 DEF UIFinishes, setFinished, UIResponds, waitResponse, DialogInv, FaultTypeInv,
           TypeOK, UITypeOK
  <2>2. UNCHANGED <<pc, request, response, m_requests, m_UIs, m_dismissing>>
        BY <1>3 DEF UIFinishes, setFinished, UIResponds, waitResponse, mainVars
  <2> QED BY <1>1, <2>1, <2>2, DialogInvThreads DEF DialogInv
<1>4. CASE Talker \/ kill_handler \/ CynaraGone \/ ProcessEnded \/ UNCHANGED vars
  <2>1. UNCHANGED <<pc, request, response, m_requests, uiVars>>
        BY <1>4 DEF Talker, TalkerInitialize, TalkerReceivesAction, TalkerReceivesCancel,
           TalkerReceivesAgain, TalkerReceivesError, TalkerFinishes, kill_handler, CynaraGone,
           ProcessEnded, vars, mainVars
  <2> QED BY <1>1, <2>1, DialogInvThreads DEF DialogInv, uiVars
<1> QED BY <1>2, <1>3, <1>4 DEF FaultNext, Next

LEMMA DialogInvAlways == FaultSpec => []DialogInv
<1>1. Init => DialogInv
      BY TypeInvInit DEF Init, UIInit, DialogInv, FaultTypeInv, TypeInv, DismissedIsUnknown,
         ThreadHasUI, AcceptedKeepsDialog, Known
<1> QED BY <1>1, DialogInvNext, PTL DEF FaultSpec

(* Whatever throws, an accepted request has a dialog nobody dismisses.     *)
THEOREM KeepsDialogs == FaultSpec => []AcceptedKeepsDialog
<1>1. DialogInv => AcceptedKeepsDialog
      BY DEF DialogInv
<1> QED BY <1>1, DialogInvAlways, PTL

(* A clean stop is clean also when an exception in the main thread began   *)
(* it: no accepted request is thrown away, no dialog left on the screen.   *)
THEOREM UnwindsCleanly == FaultSpec => CleanStopAbandonsNothing
<1>1. ASSUME DialogInv, [FaultNext]_vars, pc = "finishUIs", pc' = "stopped"
      PROVE  \A id \in Ids : ~Known(id) /\ m_thread[id] \in {"none", "finished"}
  <2>1. FinishUIs
    <3>1. pc # pc'
          BY <1>1
    <3>2. ~Fault
          BY <1>1, <3>1 DEF Fault, TalkerDropsAction, TalkerDropsCancel, TalkerDropsClose,
             InitializeThrows, UIThrows, TalkerStartThrows, StartUIThrows, InsertRequestThrows,
             InsertUIThrows,
             ProcessUIResponseThrows, NewAction, mainVars
    <3>3. MainThread
          BY <1>1, <3>1, <3>2 DEF FaultNext, Next, Talker, TalkerInitialize, TalkerReceivesAction,
             TalkerReceivesCancel, TalkerReceivesAgain, TalkerReceivesError, TalkerFinishes,
             UIFinishes, UIResponds, kill_handler, CynaraGone, ProcessEnded, vars, mainVars
    <3> QED
        BY <1>1, <3>3 DEF MainThread, StartTalker, WaitForEvent, Wake, LoopAgain, TakeResponse,
           ProcessClose, IgnoreRequest, ProcessCancel, DismissCancelled, StartUIFails, StartUI,
           NewAction, StartUICollides, ProcessUIResponse, DismissAnswered, Cleanup, FinishTalker
  <2>2. AllUIsCleaned
        BY <1>1, <2>1 DEF FinishUIs
  <2> QED BY <1>1, <2>2 DEF AllUIsCleaned, DialogInv, AcceptedKeepsDialog, ThreadHasUI
<1> QED BY <1>1, DialogInvAlways, PTL DEF FaultSpec, CleanStopAbandonsNothing
-----------------------------------------------------------------------------
(* The contract.  The ledger says of each place where an answer is being   *)
(* prepared what it may hold, never that it holds something: an exception  *)
(* only empties such places.                                               *)
LEMMA StaleKeeps ==
    ASSUME Ledger, UNCHANGED <<m_requests, uiVars, cynaraVars, m_incomingRequests, m_incomingResponses>>,
           \/ UNCHANGED <<pc, request, response>>
           \/ pc' \notin {"gotRequest", "gotResponse"}
    PROVE  Ledger'
<1>1. (\A x : InSight(x)' => InSight(x)) /\ (\A x : Due(x)' => Due(x)) /\ OneAction'
      BY LeaveSight, LeaveDue DEF Ledger
<1>2. EntriesKept /\ UNCHANGED <<cynaraVars, verdict>>
      BY DEF EntriesKept, uiVars
<1> QED BY <1>1, <1>2, FewerKeeps

(* A dialog that is started for a request the main thread then loses.      *)
LEMMA LostDialogKeeps ==
    ASSUME TypeInv, Ledger, InsertRequestThrows
    PROVE  Ledger'
<1> USE DEF Ledger, cynaraVars, queueVars
<1>1. PICK r \in Request : r = request
      BY DEF InsertRequestThrows, NewAction, TypeInv, InHand
<1>2. r.type = "RT_Action" /\ r.id \in Ids /\ r.data \in Asks /\ pc = "gotRequest"
      BY <1>1, RequestFields DEF InsertRequestThrows, NewAction
<1>3. /\ UNCHANGED <<cynaraVars, verdict, m_requests, m_incomingRequests, m_incomingResponses>>
      /\ m_UIs'[r.id] = r.data
      /\ \A x \in Ids : x # r.id => m_UIs'[x] = m_UIs[x] /\ m_thread'[x] = m_thread[x]
      /\ pc' = "finishTalker"
      BY <1>1, <1>2 DEF InsertRequestThrows, Unwind, startUI, TypeInv, TypeOK, UITypeOK
<1>4. SoundAction(r)
      BY <1>1, <1>2 DEF IncomingLedger, InSight
<1>5. reply[r.data].type # "RT_Action"
      BY <1>2, <1>4 DEF SoundAction, Open, AskLedger
<1>6. AskLedger' /\ RequestLedger' /\ AnswerIsUsersOwn' /\ NoStrayReply'
      BY <1>3 DEF AskLedger, Waiting, RequestLedger, Entered, Known, Open, AnswerIsUsersOwn,
         NoStrayReply
<1>7. DialogLedger'
  <2>1. ASSUME NEW x \in Ids, HasUI(x)'
        PROVE  (/\ idOf[m_UIs[x]] = x
                /\ m_thread[x] = "waiting" =>
                     verdict[m_UIs[x]] = NoOutcome /\ reply[m_UIs[x]].type # "RT_Action")'
    <3>1. CASE x = r.id
          BY <1>3, <1>4, <1>5, <3>1 DEF SoundAction
    <3>2. CASE x # r.id
          BY <1>3, <2>1, <3>2 DEF DialogLedger, HasUI
    <3> QED BY <3>1, <3>2
  <2> QED BY <2>1 DEF DialogLedger
<1>8. (\A x : InSight(x)' => InSight(x)) /\ OneAction'
      BY <1>3, LeaveSight
<1>9. IncomingLedger'
  <2>1. ASSUME NEW x \in Request, InSight(x)', x.type = "RT_Action" PROVE SoundAction(x)'
    <3>1. SoundAction(x) /\ x.id \in Ids
          BY <1>8, <2>1, RequestFields DEF IncomingLedger
    <3>2. x.id # r.id
          BY <1>1, <1>2, <1>3, <2>1 DEF InSight, OneAction, ActionInHand, IsActionAt
    <3> QED BY <1>3, <3>1, <3>2 DEF SoundAction, Open, Known, HasUI
  <2>2. ASSUME NEW x \in Request, InSight(x)', x.type = "RT_Cancel" PROVE SoundCancel(x)'
        BY <1>3, <1>8, <2>2 DEF IncomingLedger, SoundCancel
  <2> QED BY <2>1, <2>2 DEF IncomingLedger
<1>10. ResponseLedger'
      BY <1>2, <1>3 DEF ResponseLedger, Due
<1> QED BY <1>6, <1>7, <1>8, <1>9, <1>10

LEMMA FaultKeepsContract ==
    ASSUME ~ReuseIds, TypeInv, ThreadHasUI, Ledger, Fault
    PROVE  Ledger' /\ ContractStep
<1>1. ASSUME NEW a \in Asks, NEW id \in Ids, TalkerDropsAction(a, id) PROVE Ledger' /\ ContractStep
  <2>1. Ledger'
        BY <1>1, SendActionKeeps DEF TalkerDropsAction, mainVars, queueVars
  <2>2. Running /\ Running' /\ Contract!Ask(a)
        BY <1>1 DEF TalkerDropsAction, SendAction, Contract!Ask, mainVars, uiVars, Running
  <2> QED BY <2>1, <2>2 DEF ContractStep, Contract!Next
<1>2. ASSUME NEW a \in Asks, TalkerDropsCancel(a) PROVE Ledger' /\ ContractStep
  <2>1. Ledger'
        BY <1>2, SendCancelKeeps DEF TalkerDropsCancel, mainVars, queueVars
  <2>2. Running /\ Running' /\ Contract!Cancel(a)
        BY <1>2 DEF TalkerDropsCancel, SendCancel, Contract!Cancel, mainVars, uiVars, Running
  <2> QED BY <2>1, <2>2 DEF ContractStep, Contract!Next
<1>3. CASE TalkerDropsClose
  <2>1. /\ UNCHANGED <<m_requests, uiVars, cynaraVars, m_incomingRequests, m_incomingResponses>>
        /\ UNCHANGED <<pc, request, response>>
        BY <1>3 DEF TalkerDropsClose, mainVars, queueVars
  <2>2. ContractStep
        BY <2>1 DEF ContractStep, Contract!vars, cynaraVars, uiVars, Running
  <2> QED BY <2>1, <2>2, StaleKeeps
<1>4. ASSUME NEW id \in Ids, NEW o \in Outcomes, UIThrows(id, o) PROVE Ledger' /\ ContractStep
  <2>1. Ledger' /\ \E a \in Asks :
                        /\ status[a] # "unsent" /\ reply[a].type # "RT_Action"
                        /\ verdict[a] = NoOutcome
                        /\ verdict' = [verdict EXCEPT ![a] = o]
        BY <1>4, UserDecidesKeeps DEF UIThrows, mainVars, queueVars
  <2>2. PICK a \in Asks : /\ status[a] # "unsent" /\ reply[a].type # "RT_Action"
                          /\ verdict[a] = NoOutcome
                          /\ verdict' = [verdict EXCEPT ![a] = o]
        BY <2>1
  <2>3. Running /\ Running' /\ UNCHANGED <<status, reply, unheard>>
        BY <1>4 DEF UIThrows, mainVars, cynaraVars, Running
  <2>4. Contract!Decide(a, o)
        BY <2>2, <2>3, SameWords DEF Contract!Decide, Running
  <2> QED BY <2>1, <2>3, <2>4 DEF ContractStep, Contract!Next
<1>5. CASE TalkerStartThrows \/ StartUIThrows \/ InsertRequestThrows \/ ProcessUIResponseThrows
  <2>1. Running /\ Running' /\ UNCHANGED <<status, reply, verdict, unheard>>
        BY <1>5 DEF TalkerStartThrows, StartUIThrows, InsertRequestThrows, ProcessUIResponseThrows,
           Unwind, NewAction,
           startUI, cynaraVars, uiVars, Running, Ended
  <2>2. Ledger'
    <3>1. CASE TalkerStartThrows \/ StartUIThrows \/ ProcessUIResponseThrows
          BY <3>1, StaleKeeps DEF TalkerStartThrows, StartUIThrows, ProcessUIResponseThrows,
             Unwind, queueVars
    <3> QED BY <1>5, <3>1, LostDialogKeeps
  <2> QED BY <2>1, <2>2 DEF ContractStep, Contract!vars
<1>6. CASE InitializeThrows \/ InsertUIThrows
  <2>1. /\ UNCHANGED <<m_requests, uiVars, cynaraVars, m_incomingRequests, m_incomingResponses>>
        /\ Running /\ pc' = "aborted"
        BY <1>6 DEF InitializeThrows, InsertUIThrows, NewAction, queueVars, Running, Ended
  <2>2. Ledger'
        BY <2>1, StaleKeeps
  <2>3. Running' = FALSE
        BY <2>1, Zenon DEF Running, Ended
  <2>4. UNCHANGED <<status, reply, verdict, unheard>>
        BY <2>1 DEF cynaraVars, uiVars
  <2>5. Contract!End
        BY <2>3, <2>4, Zenon DEF Contract!End
  <2> QED BY <2>1, <2>2, <2>5 DEF ContractStep, Contract!Next
<1> QED BY <1>1, <1>2, <1>3, <1>4, <1>5, <1>6 DEF Fault

LEMMA FaultLedgerNext ==
    ASSUME ~ReuseIds, ~ResendActions
    PROVE  DialogInv /\ Ledger /\ [FaultNext]_vars => Ledger' /\ ContractStep
<1> SUFFICES ASSUME DialogInv, Ledger, [FaultNext]_vars PROVE Ledger' /\ ContractStep
    OBVIOUS
<1>1. CASE ~Running
  <2>1. UNCHANGED <<mainVars, queueVars, cynaraVars, uiVars>>
        BY <1>1, AbortedStays DEF vars
  <2>2. ContractStep
        BY <2>1 DEF ContractStep, Contract!vars, mainVars, cynaraVars, uiVars, Running
  <2> QED BY <2>1, <2>2, StaleKeeps DEF mainVars, queueVars
<1>2. CASE Running
  <2>1. TypeInv /\ ThreadHasUI
        BY <1>2 DEF DialogInv, FaultTypeInv, TypeInv
  <2> QED BY <2>1, LedgerNext, FaultKeepsContract DEF FaultNext
<1> QED BY <1>1, <1>2

(* The agent that throws implements the contract of the one that does not: *)
(* a check is answered at most once, only while it waits, and with what    *)
(* the user chose in its own dialog, whatever the exceptions leave behind. *)
THEOREM FaultsKeepContract ==
    ASSUME ~ReuseIds, ~ResendActions
    PROVE  FaultSpec => ImplementsContract
<1>1. Init => Contract!Init
      BY SameWords DEF Init, CynaraInit, UIInit, Contract!Init, Running, Ended
<1>2. DialogInv /\ Ledger /\ [FaultNext]_vars => Ledger' /\ [Contract!Next]_(Contract!vars)
      BY FaultLedgerNext DEF ContractStep
<1> QED BY <1>1, <1>2, LedgerInit, DialogInvAlways, PTL
        DEF FaultSpec, ImplementsContract, Contract!Spec

(* Also an agent that throws answers a check only with what the user chose *)
(* in its own dialog, and only under an id that waits for an answer.       *)
THEOREM FaultsAnswerUsersOwn ==
    ASSUME ~ReuseIds, ~ResendActions
    PROVE  FaultSpec => []AnswerIsUsersOwn /\ []NoStrayReply
<1>1. Ledger => AnswerIsUsersOwn /\ NoStrayReply
      BY DEF Ledger
<1>2. DialogInv /\ Ledger /\ [FaultNext]_vars => Ledger'
      BY FaultLedgerNext
<1> QED BY <1>1, <1>2, LedgerInit, DialogInvAlways, PTL DEF FaultSpec
-----------------------------------------------------------------------------
(* The talker that leaves its loop by an exception queues nothing more.    *)
FaultCloseInv == FaultTypeInv /\ CloseInv

LEMMA FaultCloseNext == FaultCloseInv /\ [FaultNext]_vars => CloseInv'
<1> SUFFICES ASSUME FaultCloseInv, [FaultNext]_vars PROVE CloseInv'
    OBVIOUS
<1> USE DEF FaultCloseInv
<1>1. ASSUME UNCHANGED m_incomingRequests, Silent => Silent' PROVE CloseInv'
      BY <1>1 DEF CloseInv, CloseIsLast
<1>2. CASE ~Running
  <2>1. UNCHANGED vars
        BY <1>2, AbortedStays
  <2> QED BY <1>1, <2>1 DEF vars, queueVars, talkerVars, Silent
<1>3. CASE Running /\ [Next]_vars
  <2>1. TypeInv
        BY <1>3 DEF FaultTypeInv, TypeInv
  <2> QED BY <1>3, <2>1, CloseInvNext
<1>4. CASE Fault
  <2>1. UNCHANGED m_incomingRequests
        BY <1>4 DEF Fault, TalkerDropsAction, TalkerDropsCancel, TalkerDropsClose, InitializeThrows,
           UIThrows, TalkerStartThrows, StartUIThrows, InsertRequestThrows, InsertUIThrows,
           ProcessUIResponseThrows,
           Unwind, queueVars
  <2>2. Silent => Silent'
        BY <1>4 DEF Fault, TalkerDropsAction, TalkerDropsCancel, TalkerDropsClose,
           unexpectedException,
           InitializeThrows, UIThrows, TalkerStartThrows, StartUIThrows, InsertRequestThrows,
           InsertUIThrows,
           ProcessUIResponseThrows, Unwind, talkerVars, Silent
  <2> QED BY <1>1, <2>1, <2>2
<1> QED BY <1>2, <1>3, <1>4 DEF FaultNext

(* Nothing is queued behind RT_Close, and every variable keeps its type,   *)
(* whatever throws.                                                        *)
THEOREM FaultsCloseLast == FaultSpec => []TypeOK /\ []CloseIsLast
<1>1. Init => FaultCloseInv
  <2>1. Init => CloseIsLast /\ CloseInv
    <3>1. DOMAIN <<>> = {}
          OBVIOUS
    <3> QED BY <3>1 DEF Init, CloseInv, CloseIsLast
  <2>2. Init => FaultTypeInv
        BY TypeInvInit DEF FaultTypeInv, TypeInv
  <2> QED BY <2>1, <2>2 DEF FaultCloseInv
<1>2. FaultCloseInv /\ [FaultNext]_vars => FaultCloseInv'
      BY FaultCloseNext, FaultTypeNext DEF FaultCloseInv
<1>3. FaultCloseInv => TypeOK /\ CloseIsLast
      BY DEF FaultCloseInv, FaultTypeInv, CloseInv
<1> QED BY <1>1, <1>2, <1>3, PTL DEF FaultSpec
=============================================================================
