----------------------------- MODULE MCServices ------------------------------
(* The components that share no state with each other, checked side by side: a *)
(* behaviour exercises one of them while the others rest in their initial      *)
(* states.                                                                     *)
EXTENDS IdempotencyStore, Realtime, Transactions, CircuitBreaker, Admission, AuditPages,
        RedisCache, GuildAccess

CONSTANT r3

VARIABLE component

OneOtherPayload == [r \in Req |-> IF r = r3 THEN "other" ELSE "same"]
TwoForOwners == [r \in Request |-> IF r \in OwnerReq THEN 2 ELSE 1]

Component == {"idempotency", "realtime", "transactions", "breaker", "admission",
              "audit", "redis", "guild"}

ServicesInit ==
    /\ component \in Component
    /\ IdemStart
    /\ RealtimeInit
    /\ TxInit
    /\ BreakerInit
    /\ AdmissionInit
    /\ AuditInit
    /\ RedisInit
    /\ GuildInit
    /\ component # "admission" => ~split
    /\ component # "audit" => paged

Rests(c, vs) == IF component = c THEN TRUE ELSE UNCHANGED vs

\* The step is one of component c.
Only(c) ==
    /\ component = c
    /\ UNCHANGED component
    /\ Rests("idempotency", <<now, idemVars>>)
    /\ Rests("realtime", realtimeVars)
    /\ Rests("transactions", txVars)
    /\ Rests("breaker", breakerVars)
    /\ Rests("admission", admissionVars)
    /\ Rests("audit", auditVars)
    /\ Rests("redis", redisVars)
    /\ Rests("guild", guildVars)

ServicesNext ==
    \/ Only("idempotency") /\ IdemNext
    \/ Only("realtime") /\ RealtimeNext
    \/ Only("transactions") /\ TxNext
    \/ Only("breaker") /\ BreakerNext
    \/ Only("admission") /\ AdmissionNext
    \/ Only("audit") /\ AuditNext
    \/ Only("redis") /\ RedisNext
    \/ Only("guild") /\ GuildNext

servicesVars == <<component, now, idemVars, realtimeVars, txVars, breakerVars,
                  admissionVars, auditVars, redisVars, guildVars>>

ServicesSpec == ServicesInit /\ [][ServicesNext]_servicesVars
==============================================================================
