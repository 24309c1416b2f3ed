---------------------------- MODULE CapacityCache ----------------------------
(***************************************************************************)
(* CapacityCache: a map from keys to values and the list of its keys, the  *)
(* most recently used one first.  An entry of the C++ map also holds an    *)
(* iterator into the list; here it is the position of the key, which is    *)
(* unique.  A key stands for its image under the plugin's hasher, which is *)
(* injective: HasherIsInjective of RequestFramingProofs.                   *)
(***************************************************************************)
EXTENDS Integers, Sequences, FiniteSets

CONSTANTS
    Keys,
    Values,
    NoValue,     \* marks a key that has no entry
    m_capacity

ASSUME NoValueAssumption  == NoValue \notin Values
ASSUME CapacityAssumption == m_capacity \in Nat

VARIABLES
    m_keyUsage,
    m_keyValue

cacheVars == <<m_keyUsage, m_keyValue>>

CacheTypeOK ==
    /\ m_keyUsage \in Seq(Keys)
    /\ m_keyValue \in [Keys -> Values \cup {NoValue}]

CacheInit ==
    /\ m_keyUsage = <<>>
    /\ m_keyValue = [k \in Keys |-> NoValue]

Cached(k) == m_keyValue[k] # NoValue

size == Cardinality({k \in Keys : Cached(k)})
-----------------------------------------------------------------------------
Position(list, k) == CHOOSE i \in DOMAIN list : list[i] = k

(* list::splice of the element k to the front of its list.                 *)
MoveToFront(list, k) ==
    [i \in DOMAIN list |-> IF i = 1 THEN k
                           ELSE IF i <= Position(list, k) THEN list[i - 1] ELSE list[i]]

(* Mutant: a hit does not count as a use.                                  *)
GetWithoutUse(k) == UNCHANGED cacheVars

(* A hit; a miss changes nothing.                                          *)
Get(k) ==
    /\ m_keyUsage' = IF Cached(k) THEN MoveToFront(m_keyUsage, k) ELSE m_keyUsage
    /\ UNCHANGED m_keyValue

clear ==
    /\ m_keyUsage' = <<>>
    /\ m_keyValue' = [k \in Keys |-> NoValue]

(* What evict leaves of the list and of the map.                           *)
UsageEvicted == SubSeq(m_keyUsage, 1, Len(m_keyUsage) - 1)

(* Mutant: the entry stays in the map.                                     *)
ValueKept == m_keyValue

ValueEvicted == [m_keyValue EXCEPT ![m_keyUsage[Len(m_keyUsage)]] = NoValue]

(* The rest of update, on the list and the map that evict may have left.   *)
Store(usage, value, k, v) ==
    /\ m_keyUsage' = IF value[k] # NoValue THEN MoveToFront(usage, k) ELSE <<k>> \o usage
    /\ m_keyValue' = [value EXCEPT ![k] = v]

(* Mutant: an entry that exists keeps its value.                           *)
UpdateNewOnly(k, v) ==
    IF m_capacity = 0 \/ Cached(k) THEN UNCHANGED cacheVars
    ELSE IF size = m_capacity
         THEN Store(UsageEvicted, ValueEvicted, k, v)
         ELSE Store(m_keyUsage, m_keyValue, k, v)

Update(k, v) ==
    IF m_capacity = 0 THEN UNCHANGED cacheVars
    ELSE IF size = m_capacity
         THEN Store(UsageEvicted, ValueEvicted, k, v)
         ELSE Store(m_keyUsage, m_keyValue, k, v)
-----------------------------------------------------------------------------
(* Properties of the data structure.                                       *)

(* The list holds the keys of the map, each exactly once, and at most      *)
(* m_capacity of them: so the iterators stored in the map are valid, and   *)
(* evict finds an entry for the last key of the list.                      *)
UsageMatchesValues ==
    /\ \A k \in Keys : Cached(k) <=> \E i \in DOMAIN m_keyUsage : m_keyUsage[i] = k
    /\ \A i, j \in DOMAIN m_keyUsage : m_keyUsage[i] = m_keyUsage[j] => i = j
    /\ Len(m_keyUsage) <= m_capacity
=============================================================================
