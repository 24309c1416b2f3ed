-------------------------- MODULE AskUserContract ---------------------------
(***************************************************************************)
(* What askuser as a whole promises to the programs that call              *)
(* cynara_check and to the user who answers the dialogs, whatever caches,  *)
(* plugins, connections and agents it takes: a dialog is answered at most  *)
(* once and only while its check is open; a check returns at most once,    *)
(* and what it returns is what the user said within the scope of the       *)
(* button, or says that the user could not be asked.                       *)
(***************************************************************************)
EXTENDS AskUserTypes

CONSTANTS
    Asks,     \* calls of cynara_check
    Checks,   \* what they may ask: a process, its session and a key
    NoCheck,
    Answers   \* what a dialog may end with

VARIABLES
    check,    \* what each call asks
    answer,   \* what its own dialog ended with
    access    \* what it returned

vars == <<check, answer, access>>

Init ==
    /\ check = [a \in Asks |-> NoCheck]
    /\ answer = [a \in Asks |-> NoData]
    /\ access = [a \in Asks |-> "none"]
-----------------------------------------------------------------------------
Yes == {ALLOW_ONCE, ALLOW_PER_SESSION, ALLOW_PER_LIFE}
No  == {DENY_ONCE, DENY_PER_SESSION, DENY_PER_LIFE}

(* The answer to b also holds for a: for the session of the process, or    *)
(* for life.                                                               *)
HoldsFor(b, a) ==
    \/ check[b] = check[a] /\ answer[b].policy \in {ALLOW_PER_SESSION, DENY_PER_SESSION}
    \/ /\ check[b] # NoCheck
       /\ check[b].key = check[a].key
       /\ answer[b].policy \in {ALLOW_PER_LIFE, DENY_PER_LIFE}

Said(a, policies) == \E b \in Asks : HoldsFor(b, a) /\ answer[b].policy \in policies

(* A dialog about the same key, of a call of the same process, ended       *)
(* without a choice.                                                       *)
NothingSaid(a) ==
    \E b \in Asks :
        /\ check[b].proc = check[a].proc
        /\ check[b].key = check[a].key
        /\ answer[b].form \in {"ERROR", "TIMEOUT"}

(* What a call may return, and why: what its own dialog ended with,        *)
(* whatever was said elsewhere; without one, what was said for it          *)
(* elsewhere.  No choice in the dialog is a denial, which may last for the *)
(* process.                                                                *)
Due(a, r) ==
    \/ r = "ACCESS_ALLOWED" /\ IF answer[a] = NoData THEN Said(a, Yes) ELSE answer[a].policy \in Yes
    \/ /\ r = "ACCESS_DENIED"
       /\ IF answer[a] = NoData THEN Said(a, No) \/ NothingSaid(a) ELSE answer[a].policy \notin Yes
    \/ r = "failed" /\ answer[a] = NoData
    \/ r = "gone"

Call(a, c) ==
    /\ check[a] = NoCheck
    /\ check' = [check EXCEPT ![a] = c]

Begin(a, c) ==
    /\ Call(a, c)
    /\ UNCHANGED <<answer, access>>

(* A call that returns without a dialog of its own.                        *)
ReturnAtOnce(a, c, r) ==
    /\ Call(a, c)
    /\ access' = [access EXCEPT ![a] = r]
    /\ UNCHANGED answer
    /\ Due(a, r)'

Return(a, r) ==
    /\ check[a] # NoCheck
    /\ access[a] = "none"
    /\ access' = [access EXCEPT ![a] = r]
    /\ UNCHANGED <<check, answer>>
    /\ Due(a, r)

DialogEnds(a, d) ==
    /\ check[a] # NoCheck
    /\ access[a] \in {"none", "gone"}
    /\ answer[a] = NoData
    /\ answer' = [answer EXCEPT ![a] = d]
    /\ UNCHANGED <<check, access>>
-----------------------------------------------------------------------------
Returns == {"ACCESS_ALLOWED", "ACCESS_DENIED", "failed", "gone"}

Next ==
    \/ \E a \in Asks, c \in Checks : Begin(a, c) \/ \E r \in Returns : ReturnAtOnce(a, c, r)
    \/ \E a \in Asks, r \in Returns : Return(a, r)
    \/ \E a \in Asks, d \in Answers : DialogEnds(a, d)

Spec == Init /\ [][Next]_vars
=============================================================================
