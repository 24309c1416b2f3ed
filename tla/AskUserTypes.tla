---------------------------- MODULE AskUserTypes ----------------------------
(***************************************************************************)
(* The enumerations the askuser agent and the cynara plugins share, and    *)
(* the chain of tables that turns what notification_wait_response reports  *)
(* about the dialog into the plugin data the agent sends to cynara:        *)
(*                                                                         *)
(*   outcome --RunResponse--> UIResponseType --AnswerData--> PluginData    *)
(***************************************************************************)
EXTENDS Integers, Sequences

RequestType == {"RT_Action", "RT_Cancel", "RT_Close"}

UIResponseType == {"URT_NO_ONCE", "URT_NO_SESSION", "URT_NO_LIFE",
                   "URT_YES_ONCE", "URT_YES_SESSION", "URT_YES_LIFE",
                   "URT_TIMEOUT", "URT_ERROR"}

(* SupportedTypes::Client.  Cynara::PolicyType is a 16-bit integer.        *)
ALLOW_ONCE        == 11
ALLOW_PER_SESSION == 12
ALLOW_PER_LIFE    == 13
DENY_ONCE         == 14
DENY_PER_SESSION  == 15
DENY_PER_LIFE     == 16

PolicyType == 0 .. 65535

(***************************************************************************)
(* The plugin data of an answer is a string: one of the two error          *)
(* messages, or the decimal form of a policy type.  A cancel response      *)
(* carries the empty string.                                               *)
(***************************************************************************)
NoError == "number"

ClientPolicies == {ALLOW_ONCE, ALLOW_PER_SESSION, ALLOW_PER_LIFE,
                   DENY_ONCE, DENY_PER_SESSION, DENY_PER_LIFE}

PluginData == [form : {NoError}, policy : ClientPolicies]
              \cup [form : {"ERROR", "TIMEOUT", "empty"}, policy : {0}]

NoData == [form |-> "empty", policy |-> 0]

answerToData(answer, errMsg) ==
    [form |-> errMsg, policy |-> IF errMsg = NoError THEN answer ELSE 0]
-----------------------------------------------------------------------------
(***************************************************************************)
(* The dialog.  An outcome is the return code of                           *)
(* notification_wait_response and the button it stored: 0 when nobody      *)
(* pressed one before the timeout, otherwise the 1-based position of the   *)
(* button in the list createUI gave to the notification.                   *)
(***************************************************************************)
Outcome == [ret : {"NONE", "FAILED"}, button : Int]

NoOutcome == [ret |-> "undecided", button |-> 0]

ButtonLabels == <<"NO_ONCE", "NO_SESSION", "NO_LIFE",
                  "YES_ONCE", "YES_SESSION", "YES_LIFE">>

(* Mutant: the table is not shifted against the 1-based button.            *)
RespTypeShifted ==
    <<"URT_NO_SESSION", "URT_NO_LIFE", "URT_YES_ONCE",
      "URT_YES_SESSION", "URT_YES_LIFE", "URT_NO_ONCE">>

respType == <<"URT_NO_ONCE", "URT_NO_SESSION", "URT_NO_LIFE",
              "URT_YES_ONCE", "URT_YES_SESSION", "URT_YES_LIFE">>

(* Mutant: the return code is not looked at.                               *)
RunResponseIgnoringRet(o) ==
    CASE o.button = 0                    -> "URT_TIMEOUT"
      [] o.button \in 1 .. Len(respType) -> respType[o.button]
      [] OTHER                           -> "URT_ERROR"

RunResponse(o) ==
    CASE o.ret = "NONE" /\ o.button = 0                   -> "URT_TIMEOUT"
      [] o.ret = "NONE" /\ o.button \in 1 .. Len(respType) -> respType[o.button]
      [] OTHER                                            -> "URT_ERROR"

(* Mutant: the enumerator is sent as it is, counted from 0.                *)
UIResponseAsNumber(r) ==
    IF \E i \in DOMAIN respType : respType[i] = r
    THEN (CHOOSE i \in DOMAIN respType : respType[i] = r) - 1
    ELSE DENY_ONCE

UIResponseToPolicyType(r) ==
    CASE r = "URT_YES_ONCE"    -> ALLOW_ONCE
      [] r = "URT_YES_SESSION" -> ALLOW_PER_SESSION
      [] r = "URT_YES_LIFE"    -> ALLOW_PER_LIFE
      [] r = "URT_NO_ONCE"     -> DENY_ONCE
      [] r = "URT_NO_SESSION"  -> DENY_PER_SESSION
      [] r = "URT_NO_LIFE"     -> DENY_PER_LIFE
      [] OTHER                 -> DENY_ONCE

(* What processUIResponse sends for a response of the dialog.              *)
AnswerData(r) ==
    CASE r = "URT_ERROR"   -> answerToData(0, "ERROR")
      [] r = "URT_TIMEOUT" -> answerToData(0, "TIMEOUT")
      [] OTHER             -> answerToData(UIResponseToPolicyType(r), NoError)
-----------------------------------------------------------------------------
(***************************************************************************)
(* What the words on the buttons promise to the user, stated on the labels *)
(* and without the agent's tables.                                         *)
(***************************************************************************)
PolicyOfLabel ==
    [NO_ONCE  |-> DENY_ONCE,  NO_SESSION  |-> DENY_PER_SESSION,  NO_LIFE  |-> DENY_PER_LIFE,
     YES_ONCE |-> ALLOW_ONCE, YES_SESSION |-> ALLOW_PER_SESSION, YES_LIFE |-> ALLOW_PER_LIFE]

(* The answer an outcome of the dialog stands for; an ERROR when the dialog *)
(* failed or never came up.                                                 *)
Promised(o) ==
    CASE o.ret = "NONE" /\ o.button \in DOMAIN ButtonLabels ->
             [form |-> "number", policy |-> PolicyOfLabel[ButtonLabels[o.button]]]
      [] o.ret = "NONE" /\ o.button = 0 -> [form |-> "TIMEOUT", policy |-> 0]
      [] OTHER                          -> [form |-> "ERROR", policy |-> 0]
=============================================================================
