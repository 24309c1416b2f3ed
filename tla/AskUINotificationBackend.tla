---------------------- MODULE AskUINotificationBackend ----------------------
(***************************************************************************)
(* AskUINotificationBackend: one object per dialog, each with a thread     *)
(* that waits for the user.  The objects are owned by Agent::m_UIs, keyed  *)
(* by the id of the request, and touched by the agent's main thread        *)
(* (start, isDismissing, dismiss) and by their own thread (run).           *)
(***************************************************************************)
EXTENDS Cynara

CONSTANT Outcomes  \* what notification_wait_response may report

ASSUME OutcomesAssumption == Outcomes \subseteq Outcome

VARIABLES
    m_UIs,         \* id -> the ask the dialog shows, NoAsk when there is no object
    m_thread,      \* id -> where the thread of the dialog is
    m_dismissing,  \* id -> the object's m_dismissing
    verdict        \* history: the outcome of the dialog that showed an ask

uiVars == <<m_UIs, m_thread, m_dismissing, verdict>>

(***************************************************************************)
(* "waiting" is inside notification_wait_response, "called" has made the   *)
(* response callback, "finished" has fulfilled m_threadFinished.           *)
(***************************************************************************)
ThreadState == {"none", "waiting", "called", "finished"}

UITypeOK ==
    /\ m_UIs \in [Ids -> Asks \cup {NoAsk}]
    /\ m_thread \in [Ids -> ThreadState]
    /\ m_dismissing \in [Ids -> BOOLEAN]
    /\ verdict \in [Asks -> Outcomes \cup {NoOutcome}]

UIInit ==
    /\ m_UIs = [id \in Ids |-> NoAsk]
    /\ m_thread = [id \in Ids |-> "none"]
    /\ m_dismissing = [id \in Ids |-> FALSE]
    /\ verdict = [a \in Asks |-> NoOutcome]

HasUI(id) == m_UIs[id] # NoAsk
-----------------------------------------------------------------------------
(* start: createUI succeeded, the thread runs, the object is in m_UIs.     *)
startUI(id, a) ==
    /\ m_UIs' = [m_UIs EXCEPT ![id] = a]
    /\ m_thread' = [m_thread EXCEPT ![id] = "waiting"]
    /\ m_dismissing' = [m_dismissing EXCEPT ![id] = FALSE]
    /\ UNCHANGED verdict

(* run: notification_wait_response returned o and the callback is made.    *)
waitResponse(id, o) ==
    /\ m_thread[id] = "waiting"
    /\ m_thread' = [m_thread EXCEPT ![id] = "called"]
    /\ verdict' = [verdict EXCEPT ![m_UIs[id]] = o]
    /\ UNCHANGED <<m_UIs, m_dismissing>>

(* run: its last statement, m_threadFinished.set_value.                    *)
setFinished(id) ==
    /\ m_thread[id] = "called"
    /\ m_thread' = [m_thread EXCEPT ![id] = "finished"]
    /\ UNCHANGED <<m_UIs, m_dismissing, verdict>>

(***************************************************************************)
(* dismiss, called on the objects of the ids in S, and the erase of those  *)
(* for which it returned true: the promise was fulfilled within 10ms, so   *)
(* the thread is joined.  The others are marked and kept.                  *)
(***************************************************************************)
Joined(S) == {id \in S : m_thread[id] = "finished"}

dismiss(S) ==
    /\ m_UIs' = [id \in Ids |-> IF id \in Joined(S) THEN NoAsk ELSE m_UIs[id]]
    /\ m_thread' = [id \in Ids |-> IF id \in Joined(S) THEN "none" ELSE m_thread[id]]
    /\ m_dismissing' = [id \in Ids |-> (id \in S \/ m_dismissing[id]) /\ id \notin Joined(S)]
    /\ UNCHANGED verdict
=============================================================================
