----------------------------- MODULE AgentFaults -----------------------------
(***************************************************************************)
(* The agent when its own calls throw (no memory for a request, a response *)
(* or an answer, no thread for a dialog), at the places where the code     *)
(* catches: around the loop of the talker, around the body of a dialog     *)
(* thread, and in main, which destroys the agent.                          *)
(***************************************************************************)
EXTENDS Agent

(* Mutant: the exception is caught inside the loop, which goes on.         *)
ExceptionIsLogged ==
    /\ talker = "receiving"
    /\ UNCHANGED talkerVars

(* The catch blocks behind the loop of CynaraTalker::run: the connection   *)
(* will be closed, and nobody tells the agent.                             *)
unexpectedException ==
    /\ talker = "receiving"
    /\ talker' = "closing"
    /\ UNCHANGED m_cynara

TalkerDropsAction(a, id) ==
    /\ Running
    /\ unexpectedException
    /\ SendAction(a, id)
    /\ UNCHANGED <<mainVars, queueVars, uiVars>>

TalkerDropsCancel(a) ==
    /\ Running
    /\ unexpectedException
    /\ SendCancel(a)
    /\ UNCHANGED <<mainVars, queueVars, uiVars>>

TalkerDropsClose ==
    /\ Running
    /\ unexpectedException
    /\ UNCHANGED <<mainVars, queueVars, cynaraVars, uiVars>>

(* RT_Close of a failed initialization is sent outside of the try block.   *)
InitializeThrows ==
    /\ Running
    /\ talker = "initializing"
    /\ pc' = "aborted"
    /\ UNCHANGED <<request, response, m_stopFlag, m_requests, queueVars, cynaraVars,
                   talkerVars, uiVars>>

(* The response callback of a dialog throws: its thread ends as usual, but *)
(* no response is queued.                                                  *)
UIThrows(id, o) ==
    /\ Running
    /\ waitResponse(id, o)
    /\ UNCHANGED <<mainVars, queueVars, cynaraVars, talkerVars>>
-----------------------------------------------------------------------------
(* Main thread: main catches what leaves Agent::run, after ~Agent.         *)
Unwind ==
    /\ pc' = "finishTalker"
    /\ request' = NoRequest
    /\ response' = NoResponse
    /\ UNCHANGED <<m_stopFlag, queueVars, cynaraVars, talkerVars>>

(* The talker's thread: run() ends before its loop.                        *)
TalkerStartThrows ==
    /\ pc = "start"
    /\ Unwind
    /\ UNCHANGED <<m_requests, uiVars>>

(* dataToRequest, the dialog object, or the start of its thread.           *)
StartUIThrows ==
    /\ NewAction
    /\ Unwind
    /\ UNCHANGED <<m_requests, uiVars>>

(* m_requests.insert: the dialog is there, its request is not.             *)
InsertRequestThrows ==
    /\ NewAction
    /\ ~HasUI(request.id)
    /\ startUI(request.id, request.data)
    /\ Unwind
    /\ UNCHANGED m_requests

(* m_UIs.insert: the new dialog is destroyed while its thread runs.        *)
InsertUIThrows ==
    /\ NewAction
    /\ pc' = "aborted"
    /\ UNCHANGED <<request, response, m_stopFlag, m_requests, queueVars,
                   cynaraVars, talkerVars, uiVars>>

ProcessUIResponseThrows ==
    /\ pc = "gotResponse"
    /\ Known(response.id)
    /\ Unwind
    /\ UNCHANGED <<m_requests, uiVars>>
-----------------------------------------------------------------------------
Fault ==
    \/ \E a \in Asks, id \in Ids : TalkerDropsAction(a, id)
    \/ \E a \in Asks : TalkerDropsCancel(a)
    \/ TalkerDropsClose \/ InitializeThrows
    \/ \E id \in Ids, o \in Outcomes : UIThrows(id, o)
    \/ TalkerStartThrows \/ StartUIThrows \/ InsertRequestThrows \/ InsertUIThrows \/ ProcessUIResponseThrows

FaultNext == Next \/ Fault

FaultSpec == Init /\ [][FaultNext]_vars

(* A thread that throws is not kept from going on: fairness is that of     *)
(* Agent, and nothing is assumed of faults.                                *)
FairFaultSpec == FaultSpec /\ Fairness
-----------------------------------------------------------------------------
(* Properties.                                                             *)

(* A check is out of the agent's sight only when its response could not be *)
(* sent, or while an end of the connection or of the process is under way: *)
(* the talker leaves its loop, or ~Agent runs.  An exception never loses   *)
(* one check and spares the agent.                                         *)
EndIsUnderWay ==
    talker = "closing" \/ pc \in {"finishTalker", "finishUIs"} \/ ~Running

ForgottenOnlyAtTheEnd ==
    \A a \in Asks : Waiting(a) =>
        ActionOnItsWay(idOf[a]) \/ Known(idOf[a]) \/ a \in unheard \/ EndIsUnderWay

(* What is left of NoOrphanRequest: an accepted request keeps its dialog,  *)
(* which nobody is dismissing, whatever throws.                            *)
AcceptedKeepsDialog ==
    \A id \in Ids : Known(id) => HasUI(id) /\ ~m_dismissing[id]

(* The dialog of an accepted check ended and its response was lost.        *)
AnswerLost(a) ==
    \E id \in Ids : m_requests[id] = a /\ m_thread[id] # "waiting" /\ ~ResponseOnItsWay(id)

(* Every check is concluded, as without faults, unless the one response of *)
(* its dialog was lost, or what the agent sent to cynara.                  *)
ConcludedUnlessAnswerLost ==
    \A a \in Asks :
        Waiting(a) ~> ~Waiting(a) \/ ~Running \/ AnswerLost(a) \/ a \in unheard

(* A check that is withdrawn is concluded, also when its dialog lost its   *)
(* response or the Cancel request itself was dropped; not when a response  *)
(* to it could not be sent.                                                *)
CancelIsConcluded ==
    \A a \in Asks :
        status[a] = "cancelling" ~> status[a] # "cancelling" \/ ~Running \/ a \in unheard

(* An exception in the main thread ends the process, however many dialogs  *)
(* are open and wherever the talker is.                                    *)
UnwindingEnds == pc = "finishTalker" ~> ~Running
=============================================================================
