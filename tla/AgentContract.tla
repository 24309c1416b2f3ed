--------------------------- MODULE AgentContract ----------------------------
(***************************************************************************)
(* What the agent promises to cynara and to the user, whatever threads,    *)
(* queues, ids and dialogs it uses for it: a check gets at most one        *)
(* response, only while it waits for one; the response says what the user  *)
(* chose for that very check, or that no choice could be obtained; a       *)
(* cancellation is confirmed only when it was asked for; a response that   *)
(* could not be sent is not made up for; and an agent that ended says      *)
(* nothing any more.                                                       *)
(***************************************************************************)
EXTENDS AskUserTypes

CONSTANTS
    Asks,     \* the checks
    Outcomes  \* what the user may choose, a subset of Outcome

VARIABLES
    status,   \* state of each check, see Cynara
    reply,    \* the response to each check
    verdict,  \* what the user chose for each check
    unheard,  \* the waiting checks a response to which could not be sent
    alive     \* is the agent running?

vars == <<status, reply, verdict, unheard, alive>>

NoReply == [type |-> "none", data |-> NoData]

Waiting(a) == status[a] \in {"pending", "cancelling"}

Init ==
    /\ status = [a \in Asks |-> "unsent"]
    /\ reply = [a \in Asks |-> NoReply]
    /\ verdict = [a \in Asks |-> NoOutcome]
    /\ unheard = {}
    /\ alive = TRUE
-----------------------------------------------------------------------------
Ask(a) ==
    /\ status[a] = "unsent"
    /\ status' = [status EXCEPT ![a] = "pending"]
    /\ UNCHANGED <<reply, verdict, unheard, alive>>

Cancel(a) ==
    /\ status[a] = "pending"
    /\ status' = [status EXCEPT ![a] = "cancelling"]
    /\ UNCHANGED <<reply, verdict, unheard, alive>>

(* The user, or the expiry of the dialog; at most once for each check, and *)
(* never after it was answered.                                            *)
Decide(a, o) ==
    /\ status[a] # "unsent"
    /\ reply[a].type # "RT_Action"
    /\ verdict[a] = NoOutcome
    /\ verdict' = [verdict EXCEPT ![a] = o]
    /\ UNCHANGED <<status, reply, unheard, alive>>

Respond(a, r) ==
    /\ a \notin unheard
    /\ status' = [status EXCEPT ![a] = "replied"]
    /\ reply' = [reply EXCEPT ![a] = r]
    /\ UNCHANGED <<verdict, unheard, alive>>

Answer(a) ==
    /\ Waiting(a)
    /\ Respond(a, [type |-> "RT_Action", data |-> Promised(verdict[a])])

ConfirmCancel(a) ==
    /\ status[a] = "cancelling"
    /\ Respond(a, [type |-> "RT_Cancel", data |-> NoData])

(* The one response to a check could not be sent.                          *)
Lose(a) ==
    /\ Waiting(a)
    /\ a \notin unheard
    /\ unheard' = unheard \cup {a}
    /\ UNCHANGED <<status, reply, verdict, alive>>

(* The connection breaks: cynara ends the checks that wait on it.          *)
EndChecks(S) ==
    /\ status' = [a \in Asks |-> IF a \in S /\ Waiting(a) THEN "lost" ELSE status[a]]
    /\ unheard' = unheard \ S
    /\ UNCHANGED <<reply, verdict, alive>>

Disconnect == EndChecks(Asks)

End == alive' = FALSE /\ UNCHANGED <<status, reply, verdict, unheard>>
-----------------------------------------------------------------------------
Next ==
    /\ alive
    /\ \/ \E a \in Asks : Ask(a) \/ Cancel(a) \/ Answer(a) \/ ConfirmCancel(a) \/ Lose(a)
       \/ \E a \in Asks, o \in Outcomes : Decide(a, o)
       \/ Disconnect
       \/ End

Spec == Init /\ [][Next]_vars
=============================================================================
