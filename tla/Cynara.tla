------------------------------- MODULE Cynara -------------------------------
(***************************************************************************)
(* The part of the cynara service the agent talks to, as the agent uses it *)
(* through libcynara-agent (external to this repository).  Cynara asks the *)
(* agent about a check with an Action request under an id, may withdraw it *)
(* with a Cancel request under the same id, and takes one response, which  *)
(* ends the check and frees the id.                                        *)
(*                                                                         *)
(* An ask is one access check: the client, the user and the privilege the  *)
(* dialog has to show.                                                     *)
(***************************************************************************)
EXTENDS AskUserTypes

CONSTANTS
    Asks,          \* the checks that need the user's answer
    NoAsk,         \* not an ask
    Ids,           \* cynara_agent_req_id
    NoId,          \* not an id
    ReuseIds,      \* may an id whose request was answered be used again?
    ResendActions  \* may a pending Action request be delivered again?

ASSUME NoAskAssumption == NoAsk \notin Asks
ASSUME NoIdAssumption  == NoId \notin Ids
ASSUME BooleanAssumption == ReuseIds \in BOOLEAN /\ ResendActions \in BOOLEAN

VARIABLES
    status,  \* state of each check in cynara
    idOf,    \* the id each check was sent under
    reply,   \* the response cynara took for each check
    stray,   \* ids for which a response came that no check was waiting for
    link,    \* is the connection between cynara and the agent up?
    unheard  \* the waiting checks a response to which could not be sent

cynaraVars == <<status, idOf, reply, stray, link, unheard>>

Reply   == [type : {"RT_Action", "RT_Cancel"}, data : PluginData]
NoReply == [type |-> "none", data |-> NoData]

Status == {"unsent", "pending", "cancelling", "replied", "lost"}

(* A check that waits for the agent.                                       *)
Waiting(a) == status[a] \in {"pending", "cancelling"}

Holders(id) == {a \in Asks : idOf[a] = id /\ Waiting(a)}

CynaraTypeOK ==
    /\ status \in [Asks -> Status]
    /\ idOf \in [Asks -> Ids \cup {NoId}]
    /\ reply \in [Asks -> Reply \cup {NoReply}]
    /\ stray \in SUBSET Ids
    /\ link \in BOOLEAN
    /\ unheard \in SUBSET Asks

CynaraInit ==
    /\ status = [a \in Asks |-> "unsent"]
    /\ idOf = [a \in Asks |-> NoId]
    /\ reply = [a \in Asks |-> NoReply]
    /\ stray = {}
    /\ link = TRUE
    /\ unheard = {}
-----------------------------------------------------------------------------
SendAction(a, id) ==
    /\ link
    /\ status[a] = "unsent"
    /\ Holders(id) = {}
    /\ ReuseIds \/ \A b \in Asks : idOf[b] # id
    /\ status' = [status EXCEPT ![a] = "pending"]
    /\ idOf' = [idOf EXCEPT ![a] = id]
    /\ UNCHANGED <<reply, stray, link, unheard>>

SendCancel(a) ==
    /\ link
    /\ status[a] = "pending"
    /\ status' = [status EXCEPT ![a] = "cancelling"]
    /\ UNCHANGED <<idOf, reply, stray, link, unheard>>

ResendAction(a) ==
    /\ ResendActions
    /\ link
    /\ status[a] = "pending"
    /\ UNCHANGED cynaraVars

(* cynara_agent_put_response over a connection that is up: cynara gets the *)
(* response, or the call fails and cynara goes on waiting.                 *)
TakeReply(type, id, data) ==
    /\ status' = [a \in Asks |-> IF a \in Holders(id) THEN "replied" ELSE status[a]]
    /\ reply' = [a \in Asks |-> IF a \in Holders(id) THEN [type |-> type, data |-> data]
                                                     ELSE reply[a]]
    /\ stray' = IF Holders(id) = {} THEN stray \cup {id} ELSE stray
    /\ unheard' = unheard \ Holders(id)
    /\ UNCHANGED <<idOf, link>>

PutResponseFails(id) ==
    /\ unheard' = unheard \cup Holders(id)
    /\ UNCHANGED <<status, idOf, reply, stray, link>>

(* The connection is gone: the checks end without the agent.               *)
Disconnect ==
    /\ link' = FALSE
    /\ status' = [a \in Asks |-> IF Waiting(a) THEN "lost" ELSE status[a]]
    /\ unheard' = {}
    /\ UNCHANGED <<idOf, reply, stray>>
=============================================================================
