--------------------------- MODULE RequestFraming ---------------------------
(***************************************************************************)
(* The two strings the service plugin builds from the client, the user and *)
(* the privilege of a check: the key of its cache (hasher) and the request *)
(* for the agent (requestToData), which dataToRequest takes apart again.   *)
(* A string is a sequence of characters here, since both depend on where   *)
(* one name ends and the next begins.                                      *)
(***************************************************************************)
EXTENDS Integers, Sequences

CONSTANT Names  \* what a client, a user or a privilege may be called

Digits    == <<"0", "1", "2", "3", "4", "5", "6", "7", "8", "9">>
DigitSet  == {Digits[d] : d \in DOMAIN Digits}
Blank     == " "
Separator == "\\1"  \* the hasher's separator, the character '\1'
Nul       == "\\0"

(* Any characters: nothing is assumed of a name.                           *)
ASSUME NamesAssumption == Names \subseteq Seq(STRING)

VARIABLES
    cached,  \* the check whose decision for life is in the cache
    asked,   \* the check that is made now
    data,    \* the plugin data for the agent
    request, \* what the agent shows to the user
    place    \* where the check is

vars == <<cached, asked, data, request, place>>

RequestData == [client : Names, user : Names, privilege : Names]
NoRequest   == "no request"
-----------------------------------------------------------------------------
(* std::to_string.                                                         *)
to_string[n \in Nat] ==
    IF n < 10 THEN <<Digits[n + 1]>> ELSE to_string[n \div 10] \o <<Digits[(n % 10) + 1]>>

(* Mutant: the separators alone tell the names apart.                      *)
HasherOfSeparatedNames(k) ==
    k.client \o <<Separator>> \o k.user \o <<Separator>> \o k.privilege

hasher(k) ==
    k.client \o k.user \o k.privilege
        \o <<Separator>> \o to_string[Len(k.client)]
        \o <<Separator>> \o to_string[Len(k.user)]
        \o <<Separator>> \o to_string[Len(k.privilege)]

Framed(name) == to_string[Len(name)] \o <<Blank>> \o name \o <<Blank>>

requestToData(k) == Framed(k.client) \o Framed(k.user) \o Framed(k.privilege)
-----------------------------------------------------------------------------
DigitValue(c) == (CHOOSE d \in DOMAIN Digits : Digits[d] = c) - 1

(* What is left of a stream behind its first characters from a set.        *)
Skip(stream, chars) ==
    LET stops == {i \in DOMAIN stream : stream[i] \notin chars}
    IN  IF stops = {} THEN <<>>
        ELSE SubSeq(stream, CHOOSE i \in stops : \A j \in stops : i <= j, Len(stream))

(* The number a sequence of digits stands for.                             *)
valueOf[digits \in Seq(DigitSet)] ==
    IF digits = <<>> THEN 0
    ELSE 10 * valueOf[SubSeq(digits, 1, Len(digits) - 1)] + DigitValue(digits[Len(digits)])

(* stream >> strSize: blanks are skipped, then the digits are read.        *)
Number(stream) ==
    LET text == Skip(stream, {Blank})
        rest == Skip(text, DigitSet)
    IN  [value |-> valueOf[SubSeq(text, 1, Len(text) - Len(rest))], rest |-> rest]

(* Mutant: the separator is taken for the first character of the name.     *)
MemberWithSeparator(stream) ==
    LET size == Number(stream)
    IN  [name |-> SubSeq(size.rest, 1, size.value),
         rest |-> SubSeq(size.rest, size.value + 1, Len(size.rest))]

(* One pass of the loop of dataToRequest: the size, one character of       *)
(* separator, and as many characters as the size says; a buffer that       *)
(* cannot be filled keeps its '\0'.                                        *)
Member(stream) ==
    LET size == Number(stream)
    IN  [name |-> [i \in 1 .. size.value |-> IF i < Len(size.rest) THEN size.rest[i + 1] ELSE Nul],
         rest |-> SubSeq(size.rest, size.value + 2, Len(size.rest))]

dataToRequest(stream) ==
    LET client    == Member(stream)
        user      == Member(client.rest)
        privilege == Member(user.rest)
    IN  [client |-> client.name, user |-> user.name, privilege |-> privilege.name]
-----------------------------------------------------------------------------
Init ==
    /\ cached \in RequestData
    /\ asked \in RequestData
    /\ data = <<>>
    /\ request = NoRequest
    /\ place = "plugin"

(* check: the lookup is by hashed key.                                     *)
check ==
    /\ place = "plugin"
    /\ IF hasher(asked) = hasher(cached)
       THEN place' = "answered" /\ UNCHANGED data
       ELSE place' = "sent" /\ data' = requestToData(asked)
    /\ UNCHANGED <<cached, asked, request>>

startUIForRequest ==
    /\ place = "sent"
    /\ request' = dataToRequest(data)
    /\ place' = "shown"
    /\ UNCHANGED <<cached, asked, data>>

Next == check \/ startUIForRequest

Spec == Init /\ [][Next]_vars
-----------------------------------------------------------------------------
(* Properties.                                                             *)

(* A check is answered from the cache only by the decision about that very *)
(* client, user and privilege, whatever characters the names are made of.  *)
HitIsSameCheck == place = "answered" => asked = cached

(* The dialog asks about the client, the user and the privilege of the     *)
(* check: names that contain blanks, digits or a separator, or are empty,  *)
(* never shift a character from one field into another.                    *)
DialogShowsTheCheck == place = "shown" => request = asked
=============================================================================
