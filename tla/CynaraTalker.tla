---------------------------- MODULE CynaraTalker ----------------------------
(***************************************************************************)
(* CynaraTalker: the thread that receives requests from cynara, and        *)
(* sendResponse, which the agent's main thread calls.  The connection      *)
(* handle m_cynara is shared by both threads; each access below is one     *)
(* critical section of CynaraTalker::m_mutex.  Handing a request to        *)
(* m_requestHandler is left to the module that composes the agent.         *)
(***************************************************************************)
EXTENDS Cynara

VARIABLES
    talker,   \* where the talker thread is
    m_cynara  \* is the connection handle open (non-null)?

talkerVars == <<talker, m_cynara>>

(***************************************************************************)
(* "finished" is a thread that fulfilled the promise m_threadFinished,     *)
(* "returned" one that left run() without fulfilling it.                   *)
(***************************************************************************)
TalkerState == {"notStarted", "initializing", "receiving", "closing",
                "finished", "returned", "joined"}

TalkerTypeOK ==
    /\ talker \in TalkerState
    /\ m_cynara \in BOOLEAN

TalkerInit ==
    /\ talker = "notStarted"
    /\ m_cynara = FALSE

TalkerStart ==
    /\ talker = "notStarted"
    /\ talker' = "initializing"
    /\ UNCHANGED m_cynara

initializeSucceeds ==
    /\ talker = "initializing"
    /\ talker' = "receiving"
    /\ m_cynara' = TRUE

(* The early return of run(): m_threadFinished is never set.               *)
initializeFails ==
    /\ talker = "initializing"
    /\ talker' = "returned"
    /\ UNCHANGED m_cynara

(* cynara_agent_get_request returned a request: the loop goes on.          *)
getRequest ==
    /\ talker = "receiving"
    /\ UNCHANGED talkerVars

(* Mutant: no break after the failure.                                     *)
GetRequestFailsGoesOn ==
    /\ talker = "receiving"
    /\ UNCHANGED talkerVars

(* cynara_agent_get_request failed, with the connection lost or not: the   *)
(* loop is left.                                                           *)
getRequestFails ==
    /\ talker = "receiving"
    /\ talker' = "closing"
    /\ UNCHANGED m_cynara

(* The end of run(): the handle is closed and reset, the promise is set.   *)
finishConnection ==
    /\ talker = "closing"
    /\ talker' = "finished"
    /\ m_cynara' = FALSE

(* stop() waits at most 10ms for the promise, so it never blocks.          *)
Stoppable == talker = "finished"

TalkerStop ==
    /\ talker' = IF Stoppable THEN "joined" ELSE talker
    /\ UNCHANGED m_cynara

(* Whether the response could be sent is for the caller, who never asks.   *)
sendResponse(type, id, data) ==
    /\ IF m_cynara /\ link
       THEN TakeReply(type, id, data) \/ PutResponseFails(id)
       ELSE UNCHANGED cynaraVars
    /\ UNCHANGED talkerVars
=============================================================================
