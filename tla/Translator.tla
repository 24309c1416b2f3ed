----------------------------- MODULE Translator -----------------------------
(***************************************************************************)
(* Translator::Plugin: how the service plugin reads the plugin data of the *)
(* agent's answer.  The request side (requestToData, dataToRequest) is in  *)
(* module RequestFraming; elsewhere a check is one value.                  *)
(***************************************************************************)
EXTENDS AskUserTypes

(* Cynara::PredefinedPolicyType.                                           *)
DENY  == 0
ALLOW == 65535

(***************************************************************************)
(* Data as the plugin may get it: a decimal number, one of the two error   *)
(* messages, or something that std::stoll rejects.                         *)
(***************************************************************************)
AgentData == [form : {NoError, "ERROR", "TIMEOUT", "garbage"}, number : Int]

(* TranslateErrorException, which no policy type is.                        *)
Exception == -1

maxPolicyType == 65535

(* Mutant: no check of the upper bound and no cut to 16 bits.              *)
DataToAnswerUnchecked(data) ==
    CASE data.form \in {"ERROR", "TIMEOUT"} -> DENY
      [] data.form = NoError               -> data.number
      [] OTHER                             -> Exception

(* Mutant: no answer in time counts as a denial for life.                  *)
DataToAnswerTimeoutForLife(data) ==
    CASE data.form = "ERROR"   -> DENY
      [] data.form = "TIMEOUT" -> DENY_PER_LIFE
      [] data.form = NoError   -> data.number
      [] OTHER                 -> Exception

dataToAnswer(data) ==
    CASE data.form \in {"ERROR", "TIMEOUT"} -> DENY
      [] data.form = NoError /\ data.number <= maxPolicyType ->
             data.number % (maxPolicyType + 1)
      [] OTHER -> Exception
=============================================================================
