---------------------------- MODULE ClientPlugin ----------------------------
(***************************************************************************)
(* ClientPlugin, the plugin of cynara's client library: which policies the *)
(* library may keep, when a kept one may be used again, and which access a *)
(* policy means.                                                           *)
(***************************************************************************)
EXTENDS AskUserTypes

clientDescriptions == {ALLOW_ONCE, ALLOW_PER_SESSION, DENY_ONCE, DENY_PER_SESSION}

(* Mutant: a denial is not kept.                                           *)
IsCacheableAllow(policy) == policy = ALLOW_PER_SESSION

(* Mutant: what is described may be kept.                                  *)
IsCacheableIfDescribed(policy) == policy \in clientDescriptions

isCacheable(policy) == policy \in {ALLOW_PER_SESSION, DENY_PER_SESSION}

(* Mutant: the sessions are not compared.                                  *)
IsUsableInAnySession(session, prevSession, policy) ==
    policy \in {ALLOW_PER_SESSION, DENY_PER_SESSION}

isUsable(session, prevSession, policy) ==
    policy \in {ALLOW_PER_SESSION, DENY_PER_SESSION} /\ session = prevSession

(* Mutant: a case label is missing.                                        *)
ToResultOnce(policy) == IF policy = ALLOW_ONCE THEN "ACCESS_ALLOWED" ELSE "ACCESS_DENIED"

toResult(policy) ==
    IF policy \in {ALLOW_ONCE, ALLOW_PER_SESSION} THEN "ACCESS_ALLOWED" ELSE "ACCESS_DENIED"
=============================================================================
