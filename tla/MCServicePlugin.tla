--------------------------- MODULE MCServicePlugin ---------------------------
(***************************************************************************)
(* Constants of the TLC runs of ServicePlugin.                             *)
(***************************************************************************)
EXTENDS ServicePlugin

LifePolicies == {ALLOW_PER_LIFE, DENY_PER_LIFE}

Numbers(S) == [form : {NoError}, number : S]

(* Both decisions for life, one for this time only, and what dataToAnswer  *)
(* treats specially: 65536 + ALLOW_PER_LIFE, an error, no number at all.   *)
AllAnswers == Numbers({ALLOW_ONCE, ALLOW_PER_LIFE, DENY_PER_LIFE, 65549})
              \cup [form : {"TIMEOUT", "garbage"}, number : {0}]

LifeAnswers == Numbers(LifePolicies)
=============================================================================
