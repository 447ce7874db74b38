------------------------------ MODULE RedisCache -----------------------------
(***************************************************************************)
(* The cache of createRedisEphemeralStores (redis.ts): entries under their *)
(* keys, and for every tag a set of keys by which deleteByTags() finds     *)
(* them.  set() and delete() are scripts and so one step; deleteByTags()   *)
(* reads and repairs the sets with one command after the other.            *)
(***************************************************************************)
EXTENDS Integers, FiniteSets

CONSTANTS
    CacheKey,   \* the keys
    Tag,        \* the tags
    Sweep       \* calls of deleteByTags() that may be under way at once

VARIABLES
    tagsOf,     \* the tags of the entry under a key; {} is no entry
    index,      \* the set kept for each tag
    sweep,      \* where each deleteByTags() stands
    found,      \* its candidates: the tags each key was found under
    touched     \* <<key, tag>>: the entry was stored beside a deleteByTags()

redisVars == <<tagsOf, index, sweep, found, touched>>

NoSweep == [at |-> "idle", asked |-> {}, todo |-> {}, key |-> {}, tag |-> {}]

RedisInit ==
    /\ tagsOf = [k \in CacheKey |-> {}]
    /\ index = [t \in Tag |-> {}]
    /\ sweep = [d \in Sweep |-> NoSweep]
    /\ found = [d \in Sweep |-> [k \in CacheKey |-> {}]]
    /\ touched = {}

SweepState == [at : {"idle", "members", "keys", "delete", "repair", "clean", "drop"},
               asked : SUBSET Tag, todo : SUBSET Tag, key : SUBSET CacheKey, tag : SUBSET Tag]

RedisTypeOK ==
    /\ tagsOf \in [CacheKey -> SUBSET Tag]
    /\ index \in [Tag -> SUBSET CacheKey]
    /\ sweep \in [Sweep -> SweepState]
    /\ found \in [Sweep -> [CacheKey -> SUBSET Tag]]
    /\ touched \subseteq CacheKey \X Tag

\* The sets of the tags `lost` without key k, and those of `gained` with it.
Reindexed(k, lost, gained) ==
    [t \in Tag |-> IF t \in gained THEN index[t] \cup {k}
                   ELSE IF t \in lost THEN index[t] \ {k} ELSE index[t]]

------------------------------------------------------------------------------
\* CACHE_SET_SCRIPT
CacheSet ==
    \E k \in CacheKey, tags \in SUBSET Tag \ {{}} :
        /\ tagsOf' = [tagsOf EXCEPT ![k] = tags]
        /\ index' = Reindexed(k, tagsOf[k], tags)
        /\ touched' = (touched \ ({k} \X Tag))
                      \cup (IF \A d \in Sweep : sweep[d] = NoSweep THEN {} ELSE {k} \X tags)
        /\ UNCHANGED <<sweep, found>>

\* CACHE_DELETE_SCRIPT: nothing without an entry.
Deleted(k) ==
    /\ tagsOf' = [tagsOf EXCEPT ![k] = {}]
    /\ index' = Reindexed(k, tagsOf[k], {})
    /\ touched' = touched \ ({k} \X Tag)

\* cache.delete() by the cache manager.
CacheDelete == \E k \in CacheKey : Deleted(k) /\ UNCHANGED <<sweep, found>>

\* The ttl of an entry passes; the sets of its tags still name it.
EntryExpires ==
    \E k \in CacheKey :
        /\ tagsOf[k] # {}
        /\ tagsOf' = [tagsOf EXCEPT ![k] = {}]
        /\ touched' = touched \ ({k} \X Tag)
        /\ UNCHANGED <<index, sweep, found>>

\* The ttl of a tag's set passes: it is at least that of every entry in it.
IndexExpires ==
    \E t \in Tag :
        /\ index[t] # {} /\ \A k \in CacheKey : t \notin tagsOf[k]
        /\ index' = [index EXCEPT ![t] = {}]
        /\ UNCHANGED <<tagsOf, sweep, found, touched>>

------------------------------------------------------------------------------
SweepBegins(d) ==
    /\ sweep[d].at = "idle"
    /\ \E tags \in SUBSET Tag \ {{}} :
        sweep' = [sweep EXCEPT ![d] = [at |-> "members", asked |-> tags, todo |-> tags, key |-> {}, tag |-> {}]]
    /\ UNCHANGED <<tagsOf, index, found, touched>>

\* SMEMBERS of one tag.
ReadMembers(d) ==
    /\ sweep[d].at = "members"
    /\ \E t \in sweep[d].todo :
        /\ found' = [found EXCEPT ![d] = [k \in CacheKey |-> IF k \in index[t] THEN @[k] \cup {t} ELSE @[k]]]
        /\ sweep' = [sweep EXCEPT ![d].todo = @ \ {t},
                                  ![d].at = IF sweep[d].todo = {t} THEN "keys" ELSE @]
    /\ UNCHANGED <<tagsOf, index, touched>>

\* Slip: an entry must carry all the tags asked for.
CarriesAll(d, k) == sweep[d].asked \subseteq tagsOf[k]

Carries(d, k) == sweep[d].asked \cap tagsOf[k] # {}

\* GET of a candidate: delete it, or repair the sets that named it for nothing.
GetCandidate(d) ==
    /\ sweep[d].at = "keys"
    /\ \E k \in CacheKey :
        /\ found[d][k] # {}
        /\ sweep' = [sweep EXCEPT ![d].key = {k}, ![d].at = IF Carries(d, k) THEN "delete" ELSE "repair"]
    /\ UNCHANGED <<tagsOf, index, found, touched>>

DeleteCandidate(d) ==
    /\ sweep[d].at = "delete"
    /\ \E k \in sweep[d].key :
        /\ Deleted(k)
        /\ found' = [found EXCEPT ![d][k] = {}]
        /\ sweep' = [sweep EXCEPT ![d].key = {}, ![d].at = "keys"]

\* SREM from one of the sets the candidate was found in.
RepairIndex(d) ==
    /\ sweep[d].at = "repair"
    /\ \E k \in sweep[d].key : \E t \in found[d][k] :
        /\ index' = [index EXCEPT ![t] = @ \ {k}]
        /\ found' = [found EXCEPT ![d][k] = @ \ {t}]
        /\ sweep' = IF found[d][k] = {t} THEN [sweep EXCEPT ![d].key = {}, ![d].at = "keys"] ELSE sweep
    /\ UNCHANGED <<tagsOf, touched>>

KeysDone(d) ==
    /\ sweep[d].at = "keys"
    /\ \A k \in CacheKey : found[d][k] = {}
    /\ sweep' = [sweep EXCEPT ![d].at = "clean", ![d].todo = sweep[d].asked]
    /\ UNCHANGED <<tagsOf, index, found, touched>>

\* SMEMBERS again: a set that is empty now is dropped by the next command.
CheckEmpty(d) ==
    /\ sweep[d].at = "clean"
    /\ \E t \in sweep[d].todo :
        sweep' = IF index[t] = {}
                 THEN [sweep EXCEPT ![d].todo = @ \ {t}, ![d].tag = {t}, ![d].at = "drop"]
                 ELSE [sweep EXCEPT ![d].todo = @ \ {t}]
    /\ UNCHANGED <<tagsOf, index, found, touched>>

DropIndex(d) ==
    /\ sweep[d].at = "drop"
    /\ index' = [t \in Tag |-> IF t \in sweep[d].tag THEN {} ELSE index[t]]
    /\ sweep' = [sweep EXCEPT ![d].tag = {}, ![d].at = "clean"]
    /\ UNCHANGED <<tagsOf, found, touched>>

SweepEnds(d) ==
    /\ sweep[d].at = "clean" /\ sweep[d].todo = {}
    /\ sweep' = [sweep EXCEPT ![d] = NoSweep]
    /\ UNCHANGED <<tagsOf, index, found, touched>>

\* The commands of deleteByTags(), in their order.
SweepStep(d) ==
    \/ SweepBegins(d) \/ ReadMembers(d)
    \/ GetCandidate(d) \/ DeleteCandidate(d) \/ RepairIndex(d) \/ KeysDone(d)
    \/ CheckEmpty(d) \/ DropIndex(d) \/ SweepEnds(d)

RedisNext ==
    \/ CacheSet \/ CacheDelete \/ EntryExpires \/ IndexExpires
    \/ \E d \in Sweep : SweepStep(d)

RedisSpec == RedisInit /\ [][RedisNext]_redisVars

------------------------------------------------------------------------------

\* deleteByTags() does not race itself or the stores beside it into silence: an
\* entry that none of its tags' sets leads to was stored while a deleteByTags()
\* was under way, and so was every entry a call leaves under a tag it was asked
\* to clear.
MissesOnlyOverlappingStores ==
    \A k \in CacheKey : \A t \in tagsOf[k] :
        \/ <<k, t>> \in touched
        \/ k \in index[t] /\ \A d \in Sweep : sweep[d].at \in {"clean", "drop"} => t \notin sweep[d].asked

\* README.md, OPERATING_LIMITS.md: tag maintenance is atomic, so that every entry
\* can be found under each of its tags.
EntriesStayIndexed == \A k \in CacheKey : \A t \in tagsOf[k] : k \in index[t]
==============================================================================
