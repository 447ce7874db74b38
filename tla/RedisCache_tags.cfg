SPECIFICATION RedisSpec
CONSTANTS
    CacheKey = {k1, k2}
    Tag = {t1}
    Sweep = {d1}
CHECK_DEADLOCK FALSE
INVARIANTS
    EntriesStayIndexed
