--------------------------- MODULE LockUsersProofs ---------------------------
(***************************************************************************)
(* What the users of the distributed lock outside the kernel promise, for  *)
(* any number of calls: getAccessToken() of the Discord OAuth client, with *)
(* its logins and revocations, and remember() of the cache manager.        *)
(***************************************************************************)
EXTENDS DiscordOAuth, CacheManager, LeaseLockProofs, TLAPS

(* The OAuth client uses the lock by its rules.                            *)

\* Between acquire() and release() a call's handle does what a handle does, and
\* nothing else of the client touches the lock.
LEMMA OAuthStepUsesLock == [OAuthNext]_<<now, lockVars, oauthVars>> => [LockNext]_<<now, lockVars>>
<1> SUFFICES ASSUME [OAuthNext]_<<now, lockVars, oauthVars>>
             PROVE  [LockNext]_<<now, lockVars>>
  OBVIOUS
<1>1. ASSUME NEW h \in Req, LockStep(h), UNCHANGED now
      PROVE  LockNext
  BY <1>1 DEF LockStep, LockNext, HandleStep
<1> QED
  BY <1>1 DEF OAuthNext, LockNext

\* The OAuth client uses the lease store by its rules: whatever logins, refreshes
\* and revocations do, the leases behave as LeaseLock says.
THEOREM OAuthUsesLeases == OAuthSpec => LockSpec
<1>1. OAuthInit => LockStart
  BY DEF OAuthInit
<1> QED
  BY <1>1, OAuthStepUsesLock, PTL DEF OAuthSpec, LockSpec

------------------------------------------------------------------------------
(* Types.                                                                  *)

LEMMA CallWithType ==
    ASSUME NEW at \in {"idle", "locking", "asking", "leaving", "done"},
           NEW seen \in 0..MaxTokens, NEW token \in 0..MaxTokens
    PROVE  CallWith(at, seen, token) \in Call
  BY OAuthAssumption DEF CallWith, Call

LEMMA OAuthTypeInit == OAuthInit => OAuthTypeOK
<1> SUFFICES ASSUME OAuthInit
             PROVE  OAuthTypeOK
  OBVIOUS
<1>1. cred \in Credential \cup {NoCred} /\ issued \in 0..MaxTokens
  <2>1. 0 \in 0..MaxTokens /\ 1 \in 0..MaxTokens
    BY OAuthAssumption
  <2>2. [token |-> 1, fresh |-> FALSE, by |-> Nobody] \in Credential
    BY <2>1 DEF Credential
  <2> QED
    BY <2>1, <2>2 DEF OAuthInit
<1>2. call \in [Req -> Call]
  BY CallWithType, OAuthAssumption DEF OAuthInit
<1>3. /\ login \in [Login -> [at : {"idle", "consumed", "exchanged", "stored", "done", "failed"},
                            token : 0..MaxTokens]]
      /\ revoking \in [at : {"idle", "asking", "deleting", "done"}, token : 0..MaxTokens]
  BY OAuthAssumption DEF OAuthInit
<1> QED
  BY <1>1, <1>2, <1>3 DEF OAuthInit, OAuthTypeOK, NoRevocation

LEMMA OAuthTypeStep == OAuthTypeOK /\ [OAuthNext]_<<now, lockVars, oauthVars>> => OAuthTypeOK'
<1> SUFFICES ASSUME OAuthTypeOK, [OAuthNext]_<<now, lockVars, oauthVars>>
             PROVE  OAuthTypeOK'
  OBVIOUS
<1> USE OAuthAssumption DEF OAuthTypeOK
<1>1. CASE UNCHANGED oauthVars
  BY <1>1 DEF oauthVars
<1>2. ASSUME NEW h \in Req, LockStep(h),
             UNCHANGED <<oauthState, cred, issued, dead, login, revoking, replaced, undoing>>
      PROVE  OAuthTypeOK'
  <2>1. call' \in [Req -> Call]
    BY <1>2, CallWithType DEF LockStep, Goes, CallAt
  <2> QED
    BY <1>2, <2>1
<1>3. CASE BeginLogin
  BY <1>3 DEF BeginLogin
<1>4. CASE TokenAges
  BY <1>4 DEF TokenAges, Credential
<1>5. ASSUME NEW l \in Login, LoginStep(l)
      PROVE  OAuthTypeOK'
  <2>1. CASE Consume(l)
    BY <2>1 DEF Consume
  <2>2. CASE ExchangeCode(l)
    BY <2>2 DEF ExchangeCode
  <2>3. CASE StoreLogin(l)
    BY <2>3 DEF StoreLogin, Credential, NoRevocation
  <2>4. CASE CreateSession(l)
    BY <2>4 DEF CreateSession
  <2> QED
    BY <1>5, <2>1, <2>2, <2>3, <2>4 DEF LoginStep
<1>6. ASSUME NEW h \in Req, CallStep(h)
      PROVE  OAuthTypeOK'
  <2> USE DEF CallAt, Goes
  <2>1. CASE ReadCredential(h)
    <3>1. cred # NoCred => CallWith("locking", cred.token, 0) \in Call
      BY CallWithType DEF Credential
    <3>2. CallWith("done", 0, 0) \in Call
      BY CallWithType
    <3> QED
      BY <2>1, <3>1, <3>2 DEF ReadCredential
  <2>2. CASE Acquired(h)
    BY <2>2, CallWithType DEF Acquired, Call
  <2>3. CASE ReadAgain(h)
    BY <2>3, CallWithType DEF ReadAgain, Credential
  <2>4. CASE Exchange(h)
    BY <2>4 DEF Exchange, Call
  <2>5. CASE ExchangeFails(h)
    BY <2>5, CallWithType DEF ExchangeFails, Call
  <2>6. CASE StoreRefreshed(h)
    <3>1. CallWith("leaving", 0, 0) \in Call /\ call[h] \in Call
      BY CallWithType
    <3>2. cred' \in Credential
      BY <2>6, <3>1 DEF StoreRefreshed, Credential, Call
    <3>3. replaced' \subseteq 0..MaxTokens
      BY <2>6, <3>1 DEF StoreRefreshed, Call
    <3> QED
      BY <2>6, <3>1, <3>2, <3>3 DEF StoreRefreshed
  <2> QED
    BY <1>6, <2>1, <2>2, <2>3, <2>4, <2>5, <2>6 DEF CallStep
<1>7. CASE RevokeReads \/ RevokeAsks \/ RevokeDeletes
  BY <1>7 DEF RevokeReads, RevokeAsks, RevokeDeletes, Credential
<1> QED
  BY <1>1, <1>2, <1>3, <1>4, <1>5, <1>6, <1>7 DEF OAuthNext

------------------------------------------------------------------------------
(* One login, one refresh.                                                 *)

\* A login that got past consume() took the row with it.
LoginInv ==
    /\ OneLoginPerState
    /\ (\E l \in Login : login[l].at \notin {"idle", "failed"}) => oauthState = "gone"

LEMMA LoginInvStep ==
    OAuthTypeOK /\ LoginInv /\ [OAuthNext]_<<now, lockVars, oauthVars>> => LoginInv'
<1> SUFFICES ASSUME OAuthTypeOK, LoginInv, [OAuthNext]_<<now, lockVars, oauthVars>>
             PROVE  LoginInv'
  OBVIOUS
<1> USE DEF OAuthTypeOK, LoginInv, OneLoginPerState
<1>1. CASE UNCHANGED <<oauthState, login>>
  BY <1>1
<1>2. CASE BeginLogin
  BY <1>2 DEF BeginLogin
<1>3. ASSUME NEW l \in Login, Consume(l)
      PROVE  LoginInv'
  <2>1. \A k \in Login \ {l} : login'[k] = login[k]
    BY <1>3 DEF Consume
  <2>2. CASE oauthState = "put" /\ login'[l].at = "consumed"
    <3>1. \A k \in Login : login[k].at \in {"idle", "failed"}
      BY <2>2
    <3> QED
      BY <1>3, <2>1, <2>2, <3>1 DEF Consume
  <2>3. CASE login'[l].at = "failed"
    BY <1>3, <2>1, <2>3 DEF Consume
  <2> QED
    BY <1>3, <2>2, <2>3 DEF Consume
<1>4. ASSUME NEW l \in Login, ExchangeCode(l) \/ StoreLogin(l) \/ CreateSession(l)
      PROVE  LoginInv'
  <2>1. /\ login[l].at \notin {"idle", "failed"}
        /\ \A k \in Login \ {l} : login'[k] = login[k]
        /\ oauthState' = oauthState
    BY <1>4 DEF ExchangeCode, StoreLogin, CreateSession
  <2> QED
    BY <2>1
<1> QED
  BY <1>1, <1>2, <1>3, <1>4
  DEF OAuthNext, oauthVars, LoginStep, CallStep, TokenAges, ReadCredential, Acquired, ReadAgain, Exchange,
      ExchangeFails, StoreRefreshed, RevokeReads, RevokeAsks, RevokeDeletes

\* "OAuth state is single-use" (oauth.ts): of any number of logins that present
\* one state, one exchanges its code.
THEOREM StateIsSingleUse == OAuthSpec => []OneLoginPerState
<1>1. OAuthInit => LoginInv
  BY DEF OAuthInit, LoginInv, OneLoginPerState
<1>2. LoginInv => OneLoginPerState
  BY DEF LoginInv
<1> QED
  BY <1>1, <1>2, OAuthTypeInit, OAuthTypeStep, LoginInvStep, PTL DEF OAuthSpec

\* From the moment acquire() resolves to the release, the handle is held.
HeldInv == \A h \in Req : call[h].at \in {"locked", "asking", "answered", "leaving"} => phase[h] = "held"

LEMMA HeldInvStep ==
    OAuthTypeOK /\ HeldInv /\ LockTypeOK /\ [OAuthNext]_<<now, lockVars, oauthVars>> => HeldInv'
<1> SUFFICES ASSUME OAuthTypeOK, HeldInv, LockTypeOK, [OAuthNext]_<<now, lockVars, oauthVars>>
             PROVE  HeldInv'
  OBVIOUS
<1> USE DEF OAuthTypeOK, HeldInv, LockTypeOK
<1>1. ASSUME NEW h \in Req, LockStep(h)
      PROVE  HeldInv'
  <2>1. CASE call[h].at = "locking" /\ call' = call
    <3>1. \A d \in Req \ {h} : phase'[d] = phase[d]
      BY <1>1, <2>1
      DEF LockStep, LockGrant, LockRefuse, LockReply, LockRenewTick, LockRenewApply, LockRenewReply,
          LockRelease
    <3> QED
      BY <2>1, <3>1
  <2>2. CASE call[h].at \in {"locked", "asking", "answered", "done"} /\ call' = call
    BY <1>1, <2>2 DEF LockStep, LockRenewTick, LockRenewApply, LockRenewReply
  <2>3. CASE LockRelease(h) /\ Goes(h, "done")
    BY <2>3 DEF LockRelease, Goes, CallAt, CallWith
  <2> QED
    BY <1>1, <2>1, <2>2, <2>3 DEF LockStep
<1>2. ASSUME NEW h \in Req, CallStep(h), UNCHANGED phase
      PROVE  HeldInv'
  <2>1. /\ \A d \in Req \ {h} : call'[d] = call[d]
        /\ call'[h].at \in {"locked", "asking", "answered", "leaving"} => phase[h] = "held"
    BY <1>2
    DEF CallStep, ReadCredential, Acquired, ReadAgain, Exchange, ExchangeFails, StoreRefreshed, Goes,
        CallAt, CallWith
  <2> QED
    BY <1>2, <2>1
<1>3. CASE UNCHANGED <<phase, call>>
  BY <1>3
<1> QED
  BY <1>1, <1>2, <1>3
  DEF OAuthNext, LockTick, lockVars, handleVars, oauthVars, LoginStep, BeginLogin, TokenAges, Consume,
      ExchangeCode, StoreLogin, CreateSession, RevokeReads, RevokeAsks, RevokeDeletes

\* While the store is healthy, a held handle is the one in the row, so only one is.
LEMMA OAuthHolds == OAuthSpec => [](OAuthTypeOK /\ HeldInv)
<1>1. OAuthInit => HeldInv
  BY DEF OAuthInit, HeldInv, CallWith
<1> QED
  BY <1>1, OAuthTypeInit, OAuthTypeStep, HeldInvStep, OAuthUsesLeases, LockTypeCorrect, PTL DEF OAuthSpec

\* "Token refresh uses a distributed single-flight lease" (oauth.ts): as long as
\* the lock store answers and timers are on time, any number of calls refresh one
\* at a time.
THEOREM RefreshIsSingleFlight ==
    ASSUME RoomForRenewal, ~StoreFaults
    PROVE  OAuthSpec => []SingleFlight
<1>1. HeldInv /\ HeldIsKept => SingleFlight
  BY DEF HeldInv, HeldIsKept, Leased, SingleFlight, Refreshing
<1> QED
  BY <1>1, OAuthHolds, OAuthUsesLeases, HealthyHandlesAreKept, PTL

------------------------------------------------------------------------------
(* Refresh tokens.                                                         *)

\* A token that no refresh has replaced.
Current(t) == t \in (0..issued) \ replaced

CallTokens(h) ==
    /\ Refreshing(h) => call[h].token \in 0..issued
    /\ call[h].at = "asking" => Current(call[h].token)
    /\ call[h].at = "answered" => Current(call[h].next) /\ call[h].next # call[h].token

\* What a login is about to store is nobody else's yet.
LoginToken(l) ==
    login[l].at = "exchanged" =>
        /\ Current(login[l].token)
        /\ cred # NoCred => cred.token # login[l].token
        /\ \A h \in Req : /\ Refreshing(h) => call[h].token # login[l].token
                          /\ call[h].at = "answered" => call[h].next # login[l].token

TokenInv ==
    /\ replaced \subseteq 0..issued
    /\ cred # NoCred => Current(cred.token)
    /\ \A h \in Req : CallTokens(h)
    /\ \A l \in Login : LoginToken(l)

LEMMA TokenInvInit == OAuthInit => TokenInv
<1> SUFFICES ASSUME OAuthInit
             PROVE  TokenInv
  OBVIOUS
<1>1. cred # NoCred => cred.token = 1 /\ issued = 1
  BY DEF OAuthInit
<1>2. \A h \in Req : call[h].at = "idle"
  BY DEF OAuthInit, CallWith
<1>3. \A l \in Login : login[l].at = "idle"
  BY DEF OAuthInit
<1>4. replaced = {}
  BY DEF OAuthInit
<1> QED
  BY <1>1, <1>2, <1>3, <1>4 DEF TokenInv, Current, CallTokens, LoginToken, Refreshing

\* A call that moves on without a new token to present keeps it.
LEMMA TokensUntouched ==
    ASSUME OAuthTypeOK, TokenInv, NEW h \in Req, UNCHANGED <<cred, issued, login, replaced>>,
           \A d \in Req \ {h} : call'[d] = call[d],
           call'[h].at \notin {"asking", "answered"} \/ call'[h] = call[h]
    PROVE  TokenInv'
<1>1. \A d \in Req : \/ call'[d] = call[d]
                     \/ call'[d].at \notin {"asking", "answered"}
  OBVIOUS
<1>2. /\ replaced \subseteq 0..issued
      /\ cred # NoCred => Current(cred.token)
      /\ \A d \in Req : CallTokens(d)
      /\ \A l \in Login : LoginToken(l)
  BY DEF TokenInv
<1>3. ASSUME NEW d \in Req
      PROVE  CallTokens(d)'
  BY <1>1, <1>2 DEF CallTokens, Refreshing, Current
<1>4. ASSUME NEW l \in Login
      PROVE  LoginToken(l)'
  BY <1>1, <1>2 DEF LoginToken, Refreshing, Current
<1> QED
  BY <1>2, <1>3, <1>4 DEF TokenInv, Current

LEMMA TokenInvStep ==
    ASSUME OAuthTypeOK, OneLoginPerState, SingleFlight, TokenInv, [OAuthNext]_<<now, lockVars, oauthVars>>
    PROVE  TokenInv'
<1>1. /\ replaced \subseteq 0..issued
      /\ cred # NoCred => Current(cred.token)
      /\ \A h \in Req : CallTokens(h)
      /\ \A l \in Login : LoginToken(l)
      /\ issued \in Nat
  BY DEF TokenInv, OAuthTypeOK
<1>2. ASSUME NEW h \in Req, LockStep(h),
             UNCHANGED <<now, oauthState, cred, issued, dead, login, revoking, replaced, undoing>>
      PROVE  TokenInv'
  <2>1. /\ \A d \in Req \ {h} : call'[d] = call[d]
        /\ call'[h].at \notin {"asking", "answered"} \/ call'[h] = call[h]
    BY <1>2 DEF LockStep, Goes, CallAt, CallWith, OAuthTypeOK
  <2> QED
    BY <1>2, <2>1, TokensUntouched
<1>3. ASSUME NEW h \in Req, ReadCredential(h) \/ Acquired(h)
      PROVE  TokenInv'
  <2>1. /\ \A d \in Req \ {h} : call'[d] = call[d]
        /\ UNCHANGED <<cred, issued, login, replaced>>
    BY <1>3 DEF ReadCredential, Acquired, Goes, CallAt, OAuthTypeOK
  <2>2. call'[h].at \in {"locking", "locked", "done"}
    BY <1>3 DEF ReadCredential, Acquired, Goes, CallAt, CallWith, OAuthTypeOK, Call
  <2> QED
    BY <2>1, <2>2, TokensUntouched
<1>4. ASSUME NEW h \in Req, ReadAgain(h)
      PROVE  TokenInv'
  <2>1. /\ \A d \in Req \ {h} : call'[d] = call[d]
        /\ UNCHANGED <<cred, issued, login, replaced>>
    BY <1>4 DEF ReadAgain, Goes, CallAt, OAuthTypeOK
  <2>2. CASE call'[h].at = "leaving"
    BY <2>1, <2>2, TokensUntouched
  <2>3. CASE cred # NoCred /\ call'[h].at = "asking" /\ call'[h].token = cred.token
    <3>1. ASSUME NEW d \in Req
          PROVE  CallTokens(d)'
      BY <1>1, <2>1, <2>3 DEF CallTokens, Refreshing, Current
    <3>2. ASSUME NEW l \in Login
          PROVE  LoginToken(l)'
      BY <1>1, <2>1, <2>3 DEF LoginToken, Refreshing, Current
    <3> QED
      BY <1>1, <2>1, <3>1, <3>2 DEF TokenInv, Current
  <2> QED
    BY <1>4, <2>2, <2>3 DEF ReadAgain, Goes, CallAt, CallWith, OAuthTypeOK
\* Discord's answer is a token nobody has.
<1>5. ASSUME NEW h \in Req, Exchange(h)
      PROVE  TokenInv'
  <2>0. PICK n : n = issued + 1
    OBVIOUS
  <2>1. /\ \A d \in Req \ {h} : call'[d] = call[d]
        /\ call[h].at = "asking" /\ call'[h].token = call[h].token
        /\ \/ call'[h].at = "answered" /\ call'[h].next = n
           \/ call'[h].at = "asking"
        /\ issued' = n
        /\ UNCHANGED <<cred, login, replaced>>
    BY <1>5, <2>0 DEF Exchange, OAuthTypeOK, Call
  <2>2. 0..issued \subseteq 0..issued' /\ n \notin 0..issued /\ n \in 0..issued'
    BY <1>1, <2>0, <2>1
  <2>3. n \notin replaced
    BY <1>1, <2>2
  <2>4. ASSUME NEW d \in Req
        PROVE  CallTokens(d)'
    <3>1. CASE d = h
      BY <1>1, <2>1, <2>2, <2>3, <3>1 DEF CallTokens, Refreshing, Current
    <3>2. CASE d # h
      BY <1>1, <2>1, <2>2, <3>2 DEF CallTokens, Refreshing, Current
    <3> QED
      BY <3>1, <3>2
  <2>5. ASSUME NEW l \in Login
        PROVE  LoginToken(l)'
    BY <1>1, <2>1, <2>2 DEF LoginToken, Refreshing, Current
  <2> QED
    BY <1>1, <2>1, <2>2, <2>4, <2>5 DEF TokenInv, Current
<1>6. ASSUME NEW h \in Req, ExchangeFails(h)
      PROVE  TokenInv'
  <2>1. /\ \A d \in Req \ {h} : call'[d] = call[d]
        /\ UNCHANGED <<cred, issued, login, replaced>>
    BY <1>6 DEF ExchangeFails, Goes, CallAt, OAuthTypeOK
  <2>2. CASE call'[h].at = "leaving"
    BY <2>1, <2>2, TokensUntouched
  <2>3. CASE call[h].at = "asking" /\ call'[h].at = "asking" /\ call'[h].token = call[h].token
    <3>1. ASSUME NEW d \in Req
          PROVE  CallTokens(d)'
      BY <1>1, <2>1, <2>3 DEF CallTokens, Refreshing, Current
    <3>2. ASSUME NEW l \in Login
          PROVE  LoginToken(l)'
      BY <1>1, <2>1, <2>3 DEF LoginToken, Refreshing, Current
    <3> QED
      BY <1>1, <2>1, <3>1, <3>2 DEF TokenInv, Current
  <2> QED
    BY <1>6, <2>2, <2>3 DEF ExchangeFails, Goes, CallAt, CallWith, OAuthTypeOK, Call
\* Whoever stores a successor is the only one refreshing.
<1>7. ASSUME NEW h \in Req, StoreRefreshed(h)
      PROVE  TokenInv'
  <2>1. /\ \A d \in Req \ {h} : call'[d] = call[d]
        /\ call[h].at = "answered" /\ call'[h].at = "leaving"
        /\ cred'.token = call[h].next
        /\ replaced' = replaced \cup {call[h].token}
        /\ UNCHANGED <<issued, login>>
    BY <1>7 DEF StoreRefreshed, Goes, CallAt, CallWith, OAuthTypeOK
  <2>2. \A d \in Req : ~Refreshing(d)'
    BY <2>1 DEF SingleFlight, Refreshing
  <2>3. CallTokens(h)
    BY <1>1
  <2>4. replaced' \subseteq 0..issued' /\ Current(cred.token)'
    BY <1>1, <2>1, <2>3 DEF CallTokens, Refreshing, Current
  <2>5. ASSUME NEW l \in Login
        PROVE  LoginToken(l)'
    <3>1. LoginToken(l)
      BY <1>1
    <3> QED
      BY <2>1, <2>2, <3>1 DEF LoginToken, Refreshing, Current
  <2>6. \A d \in Req : CallTokens(d)'
    BY <2>2 DEF CallTokens, Refreshing
  <2> QED
    BY <2>4, <2>5, <2>6 DEF TokenInv
<1>8. ASSUME NEW l \in Login, ExchangeCode(l)
      PROVE  TokenInv'
  <2>0. PICK n : n = issued + 1
    OBVIOUS
  <2>1. /\ \A k \in Login \ {l} : login'[k] = login[k]
        /\ \/ issued' = n /\ login'[l].token = n
           \/ issued' = issued /\ login'[l].at = "failed"
        /\ UNCHANGED <<cred, call, replaced>>
    BY <1>8, <2>0 DEF ExchangeCode, OAuthTypeOK
  <2>2. /\ 0..issued \subseteq 0..issued' /\ n \notin 0..issued /\ n \notin replaced
        /\ issued' = n => n \in 0..issued'
    BY <1>1, <2>0, <2>1
  <2>3. ASSUME NEW d \in Req
        PROVE  CallTokens(d)'
    BY <1>1, <2>1, <2>2 DEF CallTokens, Refreshing, Current
  <2>4. ASSUME NEW k \in Login
        PROVE  LoginToken(k)'
    <3>1. CASE k # l \/ issued' = issued
      BY <1>1, <2>1, <2>2, <3>1 DEF LoginToken, Refreshing, Current
    <3>2. CASE k = l /\ issued' = n
      <4>1. \A d \in Req : /\ Refreshing(d) => call[d].token # n
                           /\ call[d].at = "answered" => call[d].next # n
        BY <1>1, <2>2 DEF CallTokens, Current
      <4>2. cred # NoCred => cred.token # n
        BY <1>1, <2>2 DEF Current
      <4>3. login'[l].token = n \/ login'[l].at = "failed"
        BY <2>1
      <4> QED
        BY <2>1, <2>2, <3>2, <4>1, <4>2, <4>3 DEF LoginToken, Refreshing, Current
    <3> QED
      BY <2>1, <3>1, <3>2
  <2> QED
    BY <1>1, <2>1, <2>2, <2>3, <2>4 DEF TokenInv, Current
\* The state has one login: no other is about to store the same token.
<1>9. ASSUME NEW l \in Login, StoreLogin(l)
      PROVE  TokenInv'
  <2>1. /\ login[l].at = "exchanged" /\ login'[l].at = "stored"
        /\ \A k \in Login \ {l} : login'[k] = login[k]
        /\ cred'.token = login[l].token
        /\ UNCHANGED <<issued, call, replaced>>
    BY <1>9 DEF StoreLogin, OAuthTypeOK
  <2>2. \A k \in Login : login'[k].at # "exchanged"
    BY <2>1 DEF OneLoginPerState
  <2>3. Current(cred.token)'
    BY <1>1, <2>1 DEF LoginToken, Current
  <2>4. ASSUME NEW d \in Req
        PROVE  CallTokens(d)'
    BY <1>1, <2>1 DEF CallTokens, Refreshing, Current
  <2> QED
    BY <1>1, <2>1, <2>2, <2>3, <2>4 DEF TokenInv, LoginToken
<1>10. CASE UNCHANGED <<issued, call, replaced>>
            /\ (cred' # NoCred => cred # NoCred /\ cred'.token = cred.token)
            /\ \A l \in Login : login'[l] = login[l] \/ login'[l].at # "exchanged"
  <2>1. ASSUME NEW d \in Req
        PROVE  CallTokens(d)'
    BY <1>1, <1>10 DEF CallTokens, Refreshing, Current
  <2>2. ASSUME NEW l \in Login
        PROVE  LoginToken(l)'
    BY <1>1, <1>10 DEF LoginToken, Refreshing, Current
  <2> QED
    BY <1>1, <1>10, <2>1, <2>2 DEF TokenInv, Current
<1>11. ASSUME NEW l \in Login, Consume(l) \/ CreateSession(l)
       PROVE  TokenInv'
  BY <1>10, <1>11 DEF Consume, CreateSession, OAuthTypeOK
<1>12. CASE BeginLogin \/ RevokeReads \/ RevokeAsks
  BY <1>10, <1>12 DEF BeginLogin, RevokeReads, RevokeAsks
<1>13. CASE TokenAges
  BY <1>10, <1>13 DEF TokenAges, OAuthTypeOK, Credential
<1>14. CASE RevokeDeletes
  BY <1>10, <1>14 DEF RevokeDeletes
<1>15. CASE UNCHANGED oauthVars
  BY <1>10, <1>15 DEF oauthVars
<1> QED
  BY <1>2, <1>3, <1>4, <1>5, <1>6, <1>7, <1>8, <1>9, <1>11, <1>12, <1>13, <1>14, <1>15
  DEF OAuthNext, LoginStep, CallStep, oauthVars

\* Refresh tokens rotate (oauth.ts): whatever answers are lost and however logins
\* and revocations come between, no call presents a token whose successor is
\* stored, as long as the lock store answers and timers are on time.
THEOREM ReplacedTokensAreRetired ==
    ASSUME RoomForRenewal, ~StoreFaults
    PROVE  OAuthSpec => []NoReplacedTokenPresented
<1>1. OAuthTypeOK /\ OneLoginPerState /\ SingleFlight /\ TokenInv /\ [OAuthNext]_<<now, lockVars, oauthVars>>
        => TokenInv'
  BY TokenInvStep
<1>2. TokenInv => NoReplacedTokenPresented
  BY DEF TokenInv, CallTokens, Current, NoReplacedTokenPresented
<1> QED
  BY <1>1, <1>2, TokenInvInit, OAuthHolds, StateIsSingleUse, RefreshIsSingleFlight, PTL DEF OAuthSpec

------------------------------------------------------------------------------
(* Revocation.                                                             *)

\* Since revoke() deleted the credential only the refresh it passed, if any, can
\* have brought one back; until it has, no other refresh is under way.
RevokedInv ==
    undoing # NoRevocation =>
        /\ undoing \subseteq Req
        /\ \A g, h \in undoing : g = h
        /\ cred # NoCred => cred.by \in undoing
        /\ cred = NoCred => \A h \in Req : Refreshing(h) => h \in undoing

LEMMA RevokedInvStep ==
    ASSUME OAuthTypeOK, SingleFlight, RevokedInv, [OAuthNext]_<<now, lockVars, oauthVars>>
    PROVE  RevokedInv'
<1> USE DEF RevokedInv, NoRevocation
<1>1. CASE UNCHANGED <<cred, undoing>> /\ \A h \in Req : Refreshing(h)' => Refreshing(h)
  BY <1>1
<1>2. ASSUME NEW h \in Req, LockStep(h), UNCHANGED <<cred, undoing>>
      PROVE  RevokedInv'
  <2>1. \A d \in Req : Refreshing(d)' => Refreshing(d)
    BY <1>2 DEF LockStep, Goes, CallAt, CallWith, OAuthTypeOK, Refreshing
  <2> QED
    BY <1>1, <1>2, <2>1
<1>3. ASSUME NEW h \in Req, ReadCredential(h) \/ Acquired(h) \/ Exchange(h) \/ ExchangeFails(h)
      PROVE  RevokedInv'
  <2>1. UNCHANGED <<cred, undoing>> /\ \A d \in Req \ {h} : call'[d] = call[d]
    BY <1>3 DEF ReadCredential, Acquired, Exchange, ExchangeFails, Goes, CallAt, OAuthTypeOK
  <2>2. Refreshing(h)' => Refreshing(h)
    BY <1>3 DEF ReadCredential, Acquired, Exchange, ExchangeFails, Goes, CallAt, CallWith, OAuthTypeOK,
       Call, Refreshing
  <2>3. \A d \in Req : Refreshing(d)' => Refreshing(d)
    BY <2>1, <2>2 DEF Refreshing
  <2> QED
    BY <1>1, <2>1, <2>3
\* A refresh begins with a credential to refresh.
<1>4. ASSUME NEW h \in Req, ReadAgain(h)
      PROVE  RevokedInv'
  <2>1. CASE cred = NoCred
    <3>1. \A d \in Req : Refreshing(d)' => Refreshing(d)
      BY <1>4, <2>1 DEF ReadAgain, Goes, CallAt, CallWith, OAuthTypeOK, Refreshing
    <3> QED
      BY <1>1, <1>4, <3>1 DEF ReadAgain
  <2>2. CASE cred # NoCred
    BY <1>4, <2>2 DEF ReadAgain
  <2> QED
    BY <2>1, <2>2
\* The refresh that stores its answer is the only one.
<1>5. ASSUME NEW h \in Req, StoreRefreshed(h)
      PROVE  RevokedInv'
  <2>1. /\ Refreshing(h) /\ undoing' = undoing
        /\ cred' = [token |-> call[h].next, fresh |-> TRUE, by |-> IF cred = NoCred THEN h ELSE cred.by]
        /\ \A d \in Req : Refreshing(d)' => Refreshing(d) /\ d # h
    BY <1>5 DEF StoreRefreshed, Goes, CallAt, CallWith, OAuthTypeOK, Refreshing
  <2>2. cred'.by = IF cred = NoCred THEN h ELSE cred.by
    BY <2>1
  <2>3. \A d \in Req : ~Refreshing(d)'
    BY <2>1 DEF SingleFlight
  <2> QED
    BY <2>1, <2>2, <2>3
<1>6. CASE TokenAges
  <2>1. cred # NoCred /\ cred' # NoCred /\ cred'.by = cred.by /\ undoing' = undoing
    <3>1. cred # NoCred /\ cred \in Credential /\ cred' = [cred EXCEPT !.fresh = FALSE] /\ undoing' = undoing
      BY <1>6 DEF TokenAges, OAuthTypeOK
    <3>2. /\ [cred EXCEPT !.fresh = FALSE] \in [token : Nat, fresh : BOOLEAN, by : Req \cup {Nobody}]
          /\ [cred EXCEPT !.fresh = FALSE].by = cred.by
      <4>1. 0..MaxTokens \subseteq Nat
        BY OAuthAssumption
      <4>2. cred \in [token : Nat, fresh : BOOLEAN, by : Req \cup {Nobody}]
        BY <3>1, <4>1 DEF Credential
      <4> QED
        BY <4>2
    <3> QED
      BY <3>1, <3>2, OAuthAssumption
  <2> QED
    BY <2>1
<1>7. CASE RevokeDeletes
  <2>1. /\ cred' = NoCred
        /\ undoing' = {h \in Req : Refreshing(h)}
        /\ \A h \in Req : Refreshing(h)' <=> Refreshing(h)
    BY <1>7 DEF RevokeDeletes, Refreshing
  <2> QED
    BY <2>1 DEF SingleFlight
<1>8. ASSUME NEW l \in Login, LoginStep(l)
      PROVE  RevokedInv'
  <2>1. CASE StoreLogin(l)
    BY <2>1 DEF StoreLogin
  <2>2. CASE Consume(l) \/ ExchangeCode(l) \/ CreateSession(l)
    BY <1>1, <2>2 DEF Consume, ExchangeCode, CreateSession, Refreshing
  <2> QED
    BY <1>8, <2>1, <2>2 DEF LoginStep
<1>9. CASE BeginLogin \/ RevokeReads \/ RevokeAsks \/ UNCHANGED oauthVars
  BY <1>1, <1>9 DEF BeginLogin, RevokeReads, RevokeAsks, oauthVars, Refreshing
<1> QED
  BY <1>2, <1>3, <1>4, <1>5, <1>6, <1>7, <1>8, <1>9 DEF OAuthNext, CallStep, oauthVars

\* revoke() (oauth.ts) does not take the lock: it leaves no credential, until the
\* next login, but the one that a single refresh it overtook may store.
THEOREM RevocationLastsButForOne ==
    ASSUME RoomForRenewal, ~StoreFaults
    PROVE  OAuthSpec => []RevocationUndoneOnlyInFlight
<1>1. OAuthInit => RevokedInv
  BY DEF OAuthInit, RevokedInv
<1>2. OAuthTypeOK /\ SingleFlight /\ RevokedInv /\ [OAuthNext]_<<now, lockVars, oauthVars>> => RevokedInv'
  BY RevokedInvStep
<1>3. RevokedInv => RevocationUndoneOnlyInFlight
  BY DEF RevokedInv, RevocationUndoneOnlyInFlight
<1> QED
  BY <1>1, <1>2, <1>3, OAuthHolds, RefreshIsSingleFlight, PTL DEF OAuthSpec

------------------------------------------------------------------------------
(* The cache manager uses the lock by its rules.                           *)

\* A caller's handle does what a handle does, and nothing else of the cache
\* touches the lock.
LEMMA CacheStepUsesLock == [CacheNext]_<<now, lockVars, cacheVars>> => [LockNext]_<<now, lockVars>>
<1> SUFFICES ASSUME [CacheNext]_<<now, lockVars, cacheVars>>
             PROVE  [LockNext]_<<now, lockVars>>
  OBVIOUS
<1>1. ASSUME NEW h \in Caller, CacheLockStep(h), UNCHANGED now
      PROVE  LockNext
  BY <1>1, CacheAssumption DEF CacheLockStep, LockNext, HandleStep
<1> QED
  BY <1>1 DEF CacheNext, CacheTick, LockNext

\* remember() uses the lease store by its rules: whatever the calls, their crashes
\* and their stores' failures do, the leases behave as LeaseLock says.
THEOREM CacheUsesLeases == CacheSpec => LockSpec
<1>1. CacheInit => LockStart
  BY DEF CacheInit
<1> QED
  BY <1>1, CacheStepUsesLock, PTL DEF CacheSpec, LockSpec

------------------------------------------------------------------------------
(* Versions.                                                               *)

\* Neither the row, nor an entry in transit, nor a load under way is older than the
\* floor; what a call keeps or answers is not older than the floor it began with.
LoadKnows(h) ==
    /\ load[h].floor <= floor
    /\ load[h].stale # NoVersion => load[h].floor <= load[h].stale
    /\ load[h].at \in {"loaded", "loadedFree"} => floor <= load[h].value /\ load[h].value <= source
    /\ load[h].at \in {"idle", "locking", "locked", "loading", "busy", "loadingFree"}
          => load[h].value = NoVersion
    /\ load[h].value # NoVersion => load[h].floor <= load[h].value

SentKnows(c) == InTransit(c) => floor <= sent[c].version /\ sent[c].version <= source

VersionInv ==
    /\ CacheTypeOK
    /\ floor <= source
    /\ stored # NothingStored => floor <= stored.version /\ stored.version <= source
    /\ \A h \in Caller : LoadKnows(h)
    /\ \A c \in Setter : SentKnows(c)

LEMMA VersionInvInit == CacheInit => VersionInv
<1> SUFFICES ASSUME CacheInit
             PROVE  VersionInv
  OBVIOUS
<1>1. CacheTypeOK
  BY CacheAssumption DEF CacheInit, CacheTypeOK, LoadWith, NoVersion
<1>2. \A h \in Caller : LoadKnows(h)
  BY DEF CacheInit, LoadKnows, LoadWith, NoVersion
<1>3. \A c \in Setter : SentKnows(c)
  BY DEF CacheInit, SentKnows, InTransit
<1> QED
  BY <1>1, <1>2, <1>3 DEF CacheInit, VersionInv

\* Records of the two kinds are not the absence of one.
LEMMA EntriesAreThere ==
    /\ NothingStored \notin Entry /\ NothingStored \notin Sent
    /\ 0..MaxWrites \subseteq Nat
<1>1. 0..MaxWrites \subseteq Nat
  BY CacheAssumption
<1>2. Entry \subseteq [version : Nat, expiresAt : Nat, leased : BOOLEAN]
  BY <1>1 DEF Entry
<1>3. Sent \subseteq [version : Nat, expiresAt : Nat, locked : BOOLEAN]
  BY <1>1 DEF Sent
<1> QED
  BY <1>1, <1>2, <1>3, CacheAssumption

\* A call that moves on, with a value that is new enough.
LEMMA LoadMoves ==
    ASSUME VersionInv, NEW h \in Caller, UNCHANGED <<source, stored, sent, floor>>,
           NEW at \in {"locked", "loading", "loaded", "busy", "loadingFree", "loadedFree", "leaving", "done"},
           NEW v \in NoVersion..MaxWrites,
           Returns(h, at, v) \/ (Moves(h, at) /\ v = load[h].value),
           at \in {"loaded", "loadedFree"} => floor <= v /\ v <= source,
           at \in {"locked", "loading", "busy", "loadingFree"} => v = NoVersion,
           v # NoVersion => load[h].floor <= v
    PROVE  VersionInv'
<1>1. CacheTypeOK /\ \A g \in Caller : LoadKnows(g)
  BY DEF VersionInv
<1>2. /\ \A g \in Caller \ {h} : load'[g] = load[g]
      /\ load'[h].at = at /\ load'[h].value = v
      /\ load'[h].stale = load[h].stale /\ load'[h].floor = load[h].floor
  BY <1>1 DEF Returns, Moves, CacheTypeOK
<1>3. CacheTypeOK'
  BY <1>1 DEF Returns, Moves, CacheTypeOK
<1>4. ASSUME NEW g \in Caller
      PROVE  LoadKnows(g)'
  <2>1. CASE g = h
    BY <1>1, <1>2, <2>1 DEF LoadKnows
  <2>2. CASE g # h
    BY <1>1, <1>2, <2>2 DEF LoadKnows
  <2> QED
    BY <2>1, <2>2
<1> QED
  BY <1>3, <1>4 DEF VersionInv, SentKnows, InTransit

\* What is sent takes its place, and nobody else's entry is touched.
LEMMA SendFits ==
    ASSUME CacheTypeOK, now \in Nat, NEW c \in Setter, NEW v \in 0..MaxWrites, NEW locked \in BOOLEAN,
           Sends(c, v, locked)
    PROVE  /\ sent' \in [Setter -> Sent \cup {NothingStored}]
           /\ sent'[c] # NothingStored
           /\ sent'[c].version = v /\ sent'[c].expiresAt = now + Ttl /\ sent'[c].locked = locked
           /\ \A d \in Setter \ {c} : sent'[d] = sent[d]
<1> DEFINE entry == [version |-> v, expiresAt |-> now + Ttl, locked |-> locked]
<1>1. now + Ttl \in Nat
  BY CacheAssumption
<1>2. entry \in Sent /\ entry.version = v /\ entry.expiresAt = now + Ttl /\ entry.locked = locked
  BY <1>1 DEF Sent
<1>3. sent' = [sent EXCEPT ![c] = entry] /\ sent \in [Setter -> Sent \cup {NothingStored}]
  BY DEF Sends, CacheTypeOK
<1> HIDE DEF entry
<1>4. sent'[c] = entry /\ \A d \in Setter \ {c} : sent'[d] = sent[d]
  BY <1>3
<1>5. sent' \in [Setter -> Sent \cup {NothingStored}]
  BY <1>2, <1>3
<1> QED
  BY <1>2, <1>4, <1>5, EntriesAreThere

\* What is applied was in transit.
LEMMA ApplyFits ==
    ASSUME CacheTypeOK, NEW c \in Setter, SetApplies(c)
    PROVE  /\ stored' \in Entry /\ stored' # NothingStored
           /\ stored'.version = sent[c].version
           /\ stored'.leased <=> (sent[c].locked /\ Leased(c))
<1>1. sent[c] \in Sent
  BY DEF SetApplies, InTransit, CacheTypeOK
<1>2. /\ sent[c].version \in 0..MaxWrites /\ sent[c].expiresAt \in Nat
      /\ (sent[c].locked /\ Leased(c)) \in BOOLEAN
  BY <1>1 DEF Sent
<1>3. stored' = [version |-> sent[c].version, expiresAt |-> sent[c].expiresAt,
                 leased |-> sent[c].locked /\ Leased(c)]
  BY DEF SetApplies
<1>4. stored' \in Entry
  BY <1>2, <1>3 DEF Entry
<1>5. stored'.version = sent[c].version /\ (stored'.leased <=> (sent[c].locked /\ Leased(c)))
  BY <1>3
<1> QED
  BY <1>4, <1>5, EntriesAreThere

LEMMA VersionInvStep ==
    ASSUME LockTypeOK, VersionInv, [CacheNext]_<<now, lockVars, cacheVars>>
    PROVE  VersionInv'
<1>1. /\ CacheTypeOK
      /\ floor <= source
      /\ stored # NothingStored => floor <= stored.version /\ stored.version <= source
      /\ \A h \in Caller : LoadKnows(h)
      /\ \A c \in Setter : SentKnows(c)
      /\ now \in Nat
  BY DEF VersionInv, LockTypeOK
<1>2. CASE UNCHANGED cacheVars
  BY <1>2 DEF VersionInv, CacheTypeOK, LoadKnows, SentKnows, InTransit, cacheVars
<1>3. ASSUME NEW h \in Caller, CacheLockStep(h), UNCHANGED <<source, stored, sent, floor>>
      PROVE  VersionInv'
  <2>1. CASE load' = load
    BY <1>2, <1>3, <2>1 DEF cacheVars
  <2>2. CASE load[h].at \in {"locking", "leaving"} /\ Moves(h, "done")
    <3>1. load[h].value \in NoVersion..MaxWrites /\ LoadKnows(h)
      BY <1>1 DEF CacheTypeOK
    <3> QED
      BY <1>3, <2>2, <3>1, LoadMoves DEF LoadKnows
  <2>3. CASE Returns(h, "done", NoVersion)
    <3>1. NoVersion \in NoVersion..MaxWrites
      BY CacheAssumption DEF NoVersion
    <3>2. Returns(h, "done", NoVersion) \/ (Moves(h, "done") /\ NoVersion = load[h].value)
      BY <2>3
    <3> HIDE DEF NoVersion
    <3> QED
      BY <1>3, <3>1, <3>2, LoadMoves
  <2> QED
    BY <1>3, <2>1, <2>2, <2>3 DEF CacheLockStep
<1>4. CASE SourceChanges
  <2>1. source' = source + 1 /\ source' \in 0..MaxWrites /\ UNCHANGED <<stored, sent, load, floor>>
    BY <1>1, <1>4, CacheAssumption DEF SourceChanges, CacheTypeOK
  <2>2. /\ source \in Nat /\ floor \in Nat
        /\ \A h \in Caller : load[h].value \in Int
        /\ stored # NothingStored => stored.version \in Nat
    BY <1>1, CacheAssumption DEF CacheTypeOK, Entry, NoVersion
  <2>3. ASSUME NEW h \in Caller
        PROVE  LoadKnows(h)'
    BY <1>1, <2>1, <2>2, <2>3 DEF LoadKnows
  <2>5. ASSUME NEW c \in Setter
        PROVE  SentKnows(c)'
    <3>1. sent[c] # NothingStored => sent[c].version \in Nat
      BY <1>1, EntriesAreThere DEF CacheTypeOK, Sent
    <3> QED
      BY <1>1, <2>1, <2>2, <3>1 DEF SentKnows, InTransit
  <2>4. CacheTypeOK'
    BY <1>1, <2>1 DEF CacheTypeOK
  <2> QED
    BY <1>1, <2>1, <2>2, <2>3, <2>4, <2>5 DEF VersionInv
<1>5. CASE InvalidateTags
  <2>1. stored' = NothingStored /\ UNCHANGED <<source, sent, load>> /\ floor' \in {floor, source}
    BY <1>5 DEF InvalidateTags
  <2>2. ASSUME NEW h \in Caller
        PROVE  LoadKnows(h)'
    <3>1. LoadKnows(h)
      BY <1>1
    <3>2. floor' = floor \/ ~Loading(h)
      BY <1>5 DEF InvalidateTags, UnderWay
    <3>3. load[h].floor \in Nat /\ floor \in Nat /\ source \in Nat
      BY <1>1, CacheAssumption DEF CacheTypeOK
    <3> QED
      BY <1>1, <2>1, <3>1, <3>2, <3>3 DEF LoadKnows, Loading
  <2>3. ASSUME NEW c \in Setter
        PROVE  SentKnows(c)'
    <3>1. floor' = floor \/ ~InTransit(c)
      BY <1>5 DEF InvalidateTags, UnderWay
    <3> QED
      BY <1>1, <2>1, <3>1 DEF SentKnows, InTransit
  <2> QED
    BY <1>1, <2>1, <2>2, <2>3 DEF VersionInv, CacheTypeOK
<1>6. CASE SetDirectly
  <2>1. /\ UNCHANGED <<source, stored, load, floor>> /\ Sends(Nobody, source, FALSE)
        /\ Nobody \in Setter /\ source \in 0..MaxWrites /\ FALSE \in BOOLEAN
    BY <1>1, <1>6 DEF SetDirectly, CacheTypeOK, Setter
  <2>2. /\ sent' \in [Setter -> Sent \cup {NothingStored}]
        /\ sent'[Nobody].version = source
        /\ \A d \in Setter \ {Nobody} : sent'[d] = sent[d]
    BY <1>1, <2>1, SendFits
  <2>3. ASSUME NEW c \in Setter
        PROVE  SentKnows(c)'
    BY <1>1, <2>1, <2>2, CacheAssumption DEF SentKnows, InTransit, CacheTypeOK
  <2> QED
    BY <1>1, <2>1, <2>2, <2>3 DEF VersionInv, CacheTypeOK, LoadKnows
<1>7. ASSUME NEW h \in Caller, Remember(h)
      PROVE  VersionInv'
  <2>1. PICK old \in NoVersion..MaxWrites, v \in NoVersion..MaxWrites, at \in {"locking", "done"} :
            /\ load' = [load EXCEPT ![h] = LoadWith(at, old, v, floor)]
            /\ old # NoVersion => floor <= old
            /\ v # NoVersion => floor <= v
            /\ at = "locking" => v = NoVersion
    <3>1. NoVersion \in NoVersion..MaxWrites
      BY CacheAssumption DEF NoVersion
    <3>2. CASE IsFresh
      <4>1. stored.version \in NoVersion..MaxWrites /\ floor <= stored.version
        BY <1>1, <3>2, CacheAssumption DEF IsFresh, Kept, CacheTypeOK, Entry, NoVersion
      <4> QED
        BY <1>7, <3>1, <3>2, <4>1 DEF Remember
    <3>3. CASE ~IsFresh /\ Kept
      <4>1. stored.version \in NoVersion..MaxWrites /\ floor <= stored.version
        BY <1>1, <3>3, CacheAssumption DEF Kept, CacheTypeOK, Entry, NoVersion
      <4> QED
        BY <1>7, <3>1, <3>3, <4>1 DEF Remember
    <3>4. CASE ~IsFresh /\ ~Kept
      BY <1>7, <3>1, <3>4 DEF Remember
    <3> QED
      BY <3>2, <3>3, <3>4
  <2>2. /\ \A g \in Caller \ {h} : load'[g] = load[g]
        /\ load'[h].at = at /\ load'[h].stale = old /\ load'[h].value = v /\ load'[h].floor = floor
    BY <1>1, <2>1 DEF LoadWith, CacheTypeOK
  <2>3. UNCHANGED <<source, stored, sent, floor>>
    BY <1>7 DEF Remember
  <2>4. CacheTypeOK'
    BY <1>1, <2>1, <2>3 DEF CacheTypeOK, LoadWith
  <2>5. ASSUME NEW g \in Caller
        PROVE  LoadKnows(g)'
    <3>1. CASE g = h
      BY <1>1, <2>1, <2>2, <2>3, <3>1, CacheAssumption DEF LoadKnows, CacheTypeOK
    <3>2. CASE g # h
      BY <1>1, <2>2, <2>3, <3>2 DEF LoadKnows
    <3> QED
      BY <3>1, <3>2
  <2> QED
    BY <1>1, <2>3, <2>4, <2>5 DEF VersionInv, SentKnows, InTransit
<1>8. ASSUME NEW h \in Caller, LockAnswers(h) \/ Busy(h) \/ LookAgain(h) \/ Load(h) \/ LoadThrows(h)
                                  \/ SetReplies(h) \/ SetRejects(h)
      PROVE  VersionInv'
  <2>1. UNCHANGED <<source, stored, sent, floor>>
    BY <1>8 DEF LockAnswers, Busy, LookAgain, Load, LoadThrows, SetReplies, SetRejects
  <2>2. /\ load[h].value \in NoVersion..MaxWrites /\ load[h].stale \in NoVersion..MaxWrites
        /\ source \in NoVersion..MaxWrites /\ NoVersion \in NoVersion..MaxWrites
        /\ stored # NothingStored => stored.version \in NoVersion..MaxWrites
        /\ load[h].floor \in Nat /\ floor \in Nat /\ source \in Nat /\ LoadKnows(h)
    BY <1>1, CacheAssumption DEF CacheTypeOK, Entry, NoVersion
  <2> HIDE DEF NoVersion
  <2>3. ASSUME NEW at \in {"locked", "busy", "loading", "loadingFree"}, Moves(h, at),
               load[h].at \in {"locking", "busy", "locked"}
        PROVE  VersionInv'
    <3>1. load[h].value = NoVersion
      BY <2>2, <2>3 DEF LoadKnows
    <3>2. Returns(h, at, NoVersion) \/ (Moves(h, at) /\ NoVersion = load[h].value)
      BY <2>3, <3>1
    <3> QED
      BY <2>1, <2>2, <2>3, <3>2, LoadMoves
  <2>4. ASSUME NEW at \in {"leaving", "done"}, NEW v \in NoVersion..MaxWrites, Returns(h, at, v),
               v # NoVersion => load[h].floor <= v
        PROVE  VersionInv'
    <3>1. Returns(h, at, v) \/ (Moves(h, at) /\ v = load[h].value)
      BY <2>4
    <3> QED
      BY <2>1, <2>4, <3>1, LoadMoves
  <2>5. CASE LockAnswers(h)
    <3>1. CASE Moves(h, "busy")
      BY <2>3, <2>5, <3>1 DEF LockAnswers
    <3>2. CASE load' = [load EXCEPT ![h].at = "locked", ![h].stale = NoVersion]
      <4>1. load[h].value = NoVersion
        BY <2>2, <2>5 DEF LockAnswers, LoadKnows
      <4>2. /\ \A g \in Caller \ {h} : load'[g] = load[g]
            /\ load'[h].at = "locked" /\ load'[h].value = NoVersion
            /\ load'[h].stale = NoVersion /\ load'[h].floor = load[h].floor
        BY <1>1, <3>2, <4>1 DEF CacheTypeOK
      <4>3. CacheTypeOK'
        BY <1>1, <2>1, <2>2, <3>2 DEF CacheTypeOK
      <4>4. ASSUME NEW g \in Caller
            PROVE  LoadKnows(g)'
        <5>1. CASE g = h
          BY <2>1, <2>2, <4>2, <5>1 DEF LoadKnows
        <5>2. CASE g # h
          BY <1>1, <2>1, <4>2, <5>2 DEF LoadKnows
        <5> QED
          BY <5>1, <5>2
      <4> QED
        BY <1>1, <2>1, <4>3, <4>4 DEF VersionInv, SentKnows, InTransit
    <3> QED
      BY <2>5, <3>1, <3>2 DEF LockAnswers
  <2>6. CASE Busy(h)
    BY <2>2, <2>3, <2>4, <2>6 DEF Busy, LoadKnows
  <2>7. CASE LookAgain(h)
    <3>1. CASE IsFresh
      <4>1. stored # NothingStored /\ load[h].floor <= stored.version
        BY <1>1, <2>2, <3>1 DEF IsFresh, Kept, LoadKnows, CacheTypeOK, Entry
      <4>2. Returns(h, "leaving", stored.version)
        BY <2>7, <3>1 DEF LookAgain
      <4> QED
        BY <2>2, <2>4, <4>1, <4>2
    <3>2. CASE ~IsFresh
      BY <2>3, <2>7, <3>2 DEF LookAgain
    <3> QED
      BY <3>1, <3>2
  <2>8. CASE Load(h)
    <3>1. PICK at \in {"loaded", "loadedFree"} : Returns(h, at, source)
      BY <2>8 DEF Load
    <3>2. Returns(h, at, source) \/ (Moves(h, at) /\ source = load[h].value)
      BY <3>1
    <3>3. floor <= source /\ load[h].floor <= source
      BY <1>1, <2>2 DEF LoadKnows
    <3> QED
      BY <2>1, <2>2, <3>2, <3>3, LoadMoves
  <2>9. CASE LoadThrows(h)
    <3>1. PICK at \in {"leaving", "done"} : Returns(h, at, NoVersion)
      BY <2>9 DEF LoadThrows
    <3> QED
      BY <2>2, <2>4, <3>1
  <2>10. CASE SetReplies(h)
    <3>1. PICK at \in {"leaving", "done"} : Moves(h, at)
      BY <2>10 DEF SetReplies, AfterSet
    <3>2. Returns(h, at, load[h].value) \/ (Moves(h, at) /\ load[h].value = load[h].value)
      BY <3>1
    <3> QED
      BY <2>1, <2>2, <3>2, LoadMoves DEF LoadKnows
  <2>11. CASE SetRejects(h)
    <3>1. PICK at \in {"leaving", "done"} : Returns(h, at, NoVersion)
      BY <2>11 DEF SetRejects, AfterSet
    <3> QED
      BY <2>2, <2>4, <3>1
  <2> QED
    BY <1>8, <2>5, <2>6, <2>7, <2>8, <2>9, <2>10, <2>11
\* What is sent was loaded since the floor, as the call's own floor was set before.
<1>9. ASSUME NEW h \in Caller, SendLoaded(h) \/ SendFree(h)
      PROVE  VersionInv'
  <2>1. PICK locked \in BOOLEAN, at \in {"storing", "storingFree"} :
            /\ load[h].at \in {"loaded", "loadedFree"}
            /\ Sends(h, load[h].value, locked) /\ Moves(h, at)
            /\ UNCHANGED <<source, stored, floor>>
    BY <1>9 DEF SendLoaded, SendFree
  <2>2. /\ floor <= load[h].value /\ load[h].value <= source
        /\ load[h].value \in 0..MaxWrites /\ h \in Setter
        /\ load[h].floor \in Nat /\ floor \in Nat
    BY <1>1, <2>1, CacheAssumption DEF LoadKnows, CacheTypeOK, NoVersion, Setter
  <2>3. /\ sent' \in [Setter -> Sent \cup {NothingStored}]
        /\ sent'[h].version = load[h].value
        /\ \A d \in Setter \ {h} : sent'[d] = sent[d]
    BY <1>1, <2>1, <2>2, SendFits
  <2>4. /\ \A g \in Caller \ {h} : load'[g] = load[g]
        /\ load'[h].at = at /\ load'[h].value = load[h].value
        /\ load'[h].stale = load[h].stale /\ load'[h].floor = load[h].floor
    BY <1>1, <2>1 DEF Moves, CacheTypeOK
  <2>5. CacheTypeOK'
    BY <1>1, <2>1, <2>3 DEF CacheTypeOK, Moves
  <2>6. ASSUME NEW g \in Caller
        PROVE  LoadKnows(g)'
    <3>1. CASE g = h
      BY <1>1, <2>1, <2>2, <2>4, <3>1 DEF LoadKnows
    <3>2. CASE g # h
      BY <1>1, <2>1, <2>4, <3>2 DEF LoadKnows
    <3> QED
      BY <3>1, <3>2
  <2>7. ASSUME NEW c \in Setter
        PROVE  SentKnows(c)'
    <3>1. CASE c = h
      BY <2>1, <2>2, <2>3, <3>1 DEF SentKnows
    <3>2. CASE c # h
      BY <1>1, <2>1, <2>3, <3>2 DEF SentKnows, InTransit
    <3> QED
      BY <3>1, <3>2
  <2> QED
    BY <1>1, <2>1, <2>5, <2>6, <2>7 DEF VersionInv
<1>10. ASSUME NEW c \in Setter, SetApplies(c) \/ SetLost(c)
       PROVE  VersionInv'
  <2>1. /\ sent' = [sent EXCEPT ![c] = NothingStored] /\ InTransit(c)
        /\ UNCHANGED <<source, load, floor>>
    BY <1>10 DEF SetApplies, SetLost
  <2>2. /\ sent'[c] = NothingStored /\ \A d \in Setter \ {c} : sent'[d] = sent[d]
        /\ sent' \in [Setter -> Sent \cup {NothingStored}]
    BY <1>1, <2>1 DEF CacheTypeOK
  <2>3. \A d \in Setter : SentKnows(d)'
    BY <1>1, <2>1, <2>2 DEF SentKnows, InTransit
  <2>4. /\ stored' \in Entry \cup {NothingStored}
        /\ stored' # NothingStored => floor <= stored'.version /\ stored'.version <= source
    <3>1. CASE SetApplies(c)
      BY <1>1, <2>1, <3>1, ApplyFits DEF SentKnows
    <3>2. CASE SetLost(c)
      BY <1>1, <3>2 DEF SetLost, CacheTypeOK
    <3> QED
      BY <1>10, <3>1, <3>2
  <2> QED
    BY <1>1, <2>1, <2>2, <2>3, <2>4 DEF VersionInv, CacheTypeOK, LoadKnows
<1> QED
  BY <1>2, <1>3, <1>4, <1>5, <1>6, <1>7, <1>8, <1>9, <1>10
  DEF CacheNext, CacheTick, RememberStep

LEMMA CacheHolds == CacheSpec => [](LockInv /\ VersionInv)
<1>1. LockInv => LockTypeOK
  BY DEF LockInv
<1>2. CacheInit => LockInv
  BY LockInvInit DEF CacheInit, LockStart
<1>3. LockInv /\ [CacheNext]_<<now, lockVars, cacheVars>> => LockInv'
  BY CacheStepUsesLock, LockInvStep
<1>4. LockInv /\ VersionInv /\ [CacheNext]_<<now, lockVars, cacheVars>> => VersionInv'
  BY <1>1, VersionInvStep
<1> QED
  BY <1>2, <1>3, <1>4, VersionInvInit, PTL DEF CacheSpec

\* invalidateTags() (cache.ts): remember() answers with nothing older than the
\* source was when the last invalidation before it found no load under way, for
\* any number of callers, with or without the lock, whatever crashes or rejects.
THEOREM InvalidationReachesAnswers == CacheSpec => []InvalidationIsSeen
<1>1. VersionInv => InvalidationIsSeen
  BY DEF VersionInv, LoadKnows, InvalidationIsSeen, CacheTypeOK, NoVersion
<1> QED
  BY <1>1, CacheHolds, PTL

------------------------------------------------------------------------------
(* The order of stores.                                                    *)

\* Who holds the lease has loaded, and sent, at least the version that was last
\* applied inside a lease.
OrderInv ==
    stored # NothingStored /\ stored.leased =>
        \A h \in Caller : Leased(h) =>
            /\ load[h].at = "loaded" => stored.version <= load[h].value
            /\ InTransit(h) /\ sent[h].locked => stored.version <= sent[h].version

\* An entry in transit was sent at most a round trip ago, by a call that does not
\* acquire any more and that was granted the lease at most a round trip before.
SentInv(h) ==
    InTransit(h) =>
        /\ load[h].at \in {"storing", "storingFree", "leaving", "done"}
        /\ SentTime(h) \in Nat /\ SentTime(h) <= now /\ now <= SentTime(h) + MaxDelay
        /\ sent[h].locked => SentTime(h) < grantedUntil[h] + MaxDelay

AllSent == \A h \in Caller : SentInv(h)

\* While a load under the lock or its entry is under way the call gets no new
\* lease, and what it was granted is only ever extended.
LEMMA LeaseIsNotRegained ==
    ASSUME LockInv, NEW h \in Caller, NEW g \in Caller, CacheLockStep(g), UNCHANGED now,
           load[h].at \notin {"idle", "locking"}
    PROVE  /\ Leased(h)' => Leased(h)
           /\ grantedUntil[h] <= grantedUntil'[h]
<1>1. /\ LockTypeOK /\ h \in Req /\ g \in Req /\ SlackInv(h)
      /\ grantedUntil[h] \in Nat /\ h # Nobody
  BY CacheAssumption, RuntimeAssumption DEF LockInv, LockTypeOK
<1>2. CASE lease' = lease /\ grantedUntil' = grantedUntil
  BY <1>1, <1>2 DEF Leased
<1>3. CASE LockGrant(g) /\ load[g].at = "locking"
  <2>1. lease'.holder = g /\ g # h /\ grantedUntil'[h] = grantedUntil[h]
    BY <1>1, <1>3 DEF LockGrant, LockTypeOK
  <2> QED
    BY <1>1, <2>1 DEF Leased
<1>4. CASE LockRenewApply(g)
  <2>1. CASE Leased(g)
    <3>1. lease' = [lease EXCEPT !.expiresAt = now + LockTtl] /\ lease \in Lease \cup {NoLease}
      BY <1>1, <1>4, <2>1 DEF LockRenewApply, LockTypeOK
    <3>2. lease'.holder = lease.holder
      BY <3>1 DEF Lease, NoLease
    <3>3. grantedUntil'[h] = IF g = h THEN now + LockTtl ELSE grantedUntil[h]
      BY <1>1, <1>4, <2>1 DEF LockRenewApply, LockTypeOK
    <3>4. grantedUntil[h] <= now + LockTtl
      BY <1>1 DEF SlackInv
    <3> QED
      BY <1>1, <2>1, <3>2, <3>3, <3>4 DEF Leased
  <2>2. CASE ~Leased(g)
    BY <1>2, <1>4, <2>2 DEF LockRenewApply
  <2> QED
    BY <2>1, <2>2
<1>5. CASE LockRelease(g)
  <2>1. (lease' = lease \/ lease' = NoLease) /\ grantedUntil' = grantedUntil
    BY <1>5 DEF LockRelease
  <2> QED
    BY <1>1, <1>2, <2>1 DEF NoLease, Leased
<1>6. \/ lease' = lease /\ grantedUntil' = grantedUntil
      \/ LockRenewApply(g) \/ LockRelease(g)
      \/ LockGrant(g) /\ load[g].at = "locking"
  BY DEF CacheLockStep, LockRefuse, LockReply, LockAcquireThrows, LockRenewTick, LockAssertFails,
     LockRenewReply, LockRenewThrows, LockCrash
<1> QED
  BY <1>2, <1>3, <1>4, <1>5, <1>6

\* A step that sends and applies nothing, and gives no lease to who is past acquire().
LEMMA OrderUntouched ==
    ASSUME VersionInv, OrderInv, AllSent, LockTypeOK, UNCHANGED <<now, stored, sent>>,
           \A h \in Caller :
               /\ load'[h].at = "loaded" => load'[h] = load[h]
               /\ InTransit(h) => load'[h].at \in {"storing", "storingFree", "leaving", "done"}
               /\ load[h].at \notin {"idle", "locking"}
                    => (Leased(h)' => Leased(h)) /\ grantedUntil[h] <= grantedUntil'[h],
           \A h \in Caller : grantedUntil'[h] \in Nat
    PROVE  OrderInv' /\ AllSent'
<1>1. OrderInv'
  <2> SUFFICES ASSUME stored # NothingStored, stored.leased, NEW h \in Caller, Leased(h)'
               PROVE  /\ load'[h].at = "loaded" => stored.version <= load'[h].value
                      /\ InTransit(h) /\ sent[h].locked => stored.version <= sent[h].version
    BY DEF OrderInv, InTransit
  <2>1. load'[h].at = "loaded" => load'[h] = load[h] /\ Leased(h)
    OBVIOUS
  <2>2. InTransit(h) => Leased(h)
    BY DEF AllSent, SentInv
  <2> QED
    BY <2>1, <2>2 DEF OrderInv
<1>2. ASSUME NEW h \in Caller, InTransit(h)
      PROVE  SentInv(h)'
  <2>1. /\ SentInv(h) /\ load[h].at \notin {"idle", "locking"}
        /\ grantedUntil[h] \in Nat /\ grantedUntil'[h] \in Nat
    BY <1>2, CacheAssumption DEF AllSent, SentInv, LockTypeOK
  <2>2. grantedUntil[h] <= grantedUntil'[h] /\ SentTime(h)' = SentTime(h) /\ MaxDelay \in Nat
    BY <2>1, LeaseLockAssumption DEF SentTime
  <2> QED
    BY <1>2, <2>1, <2>2 DEF SentInv
<1>3. \A h \in Caller : InTransit(h)' <=> InTransit(h)
  BY DEF InTransit
<1> QED
  BY <1>1, <1>2, <1>3 DEF AllSent, SentInv

LEMMA OrderInvStep ==
    ASSUME LockInv, LockInv', VersionInv, VersionInv', OrderInv, AllSent,
           [CacheNext]_<<now, lockVars, cacheVars>>
    PROVE  OrderInv' /\ AllSent'
<1>1. /\ LockTypeOK /\ CacheTypeOK /\ now \in Nat /\ MaxDelay \in Nat
      /\ stored # NothingStored => stored.version <= source /\ stored.version \in Nat
      /\ \A h \in Caller : /\ LoadKnows(h) /\ SentInv(h) /\ h \in Req /\ h \in Setter
                           /\ grantedUntil[h] \in Nat /\ grantedUntil'[h] \in Nat
  BY CacheAssumption, LeaseLockAssumption
  DEF LockInv, LockTypeOK, VersionInv, CacheTypeOK, Entry, AllSent, Setter
<1>2. ASSUME UNCHANGED <<now, lockVars>>
      PROVE  /\ \A h : Leased(h)' <=> Leased(h)
             /\ grantedUntil' = grantedUntil
  BY <1>2 DEF Leased, lockVars, handleVars
<1>3. CASE CacheTick
  <2>1. /\ now' = now + 1 /\ UNCHANGED <<lease, grantedUntil, source, stored, sent, load, floor>>
        /\ \A h \in Caller : InTransit(h) => now < SentTime(h) + MaxDelay
    BY <1>1, <1>3 DEF CacheTick, LockTick, Advance, lockVars, handleVars, cacheVars
  <2>2. \A h \in Caller : Leased(h)' => Leased(h)
    <3>1. \A h \in Caller : lease.holder = h => lease.expiresAt \in Nat
      BY <1>1, RuntimeAssumption, CacheAssumption DEF LockTypeOK, Lease, NoLease
    <3> QED
      BY <1>1, <2>1, <3>1 DEF Leased
  <2>3. OrderInv'
    BY <2>1, <2>2 DEF OrderInv, InTransit
  <2>4. ASSUME NEW h \in Caller
        PROVE  SentInv(h)'
    <3>1. SentInv(h) /\ SentTime(h)' = SentTime(h) /\ (InTransit(h)' <=> InTransit(h))
      BY <1>1, <2>1 DEF SentTime, InTransit
    <3> QED
      BY <1>1, <2>1, <3>1 DEF SentInv
  <2> QED
    BY <2>3, <2>4 DEF AllSent
<1>4. ASSUME NEW g \in Caller, CacheLockStep(g), UNCHANGED <<now, source, stored, sent, floor>>
      PROVE  OrderInv' /\ AllSent'
  <2>1. \A h \in Caller : /\ load'[h].at = "loaded" => load'[h] = load[h]
                          /\ load'[h].at \in {load[h].at, "done"}
    BY <1>1, <1>4 DEF CacheLockStep, Moves, Returns, CacheTypeOK
  <2>2. \A h \in Caller : load[h].at \notin {"idle", "locking"}
            => (Leased(h)' => Leased(h)) /\ grantedUntil[h] <= grantedUntil'[h]
    BY <1>4, LeaseIsNotRegained
  <2>3. \A h \in Caller : InTransit(h) => load'[h].at \in {"storing", "storingFree", "leaving", "done"}
    BY <1>1, <2>1 DEF SentInv
  <2> QED
    BY <1>1, <1>4, <2>1, <2>2, <2>3, OrderUntouched
<1>5. CASE InvalidateTags /\ UNCHANGED <<now, lockVars>>
  <2>1. stored' = NothingStored /\ UNCHANGED <<sent, load, now, grantedUntil>>
    BY <1>2, <1>5 DEF InvalidateTags
  <2> QED
    BY <2>1 DEF OrderInv, AllSent, SentInv, SentTime, InTransit
<1>6. CASE (SourceChanges \/ SetDirectly) /\ UNCHANGED <<now, lockVars>>
  <2>1. UNCHANGED <<stored, load, now, grantedUntil>> /\ \A h \in Caller : sent'[h] = sent[h]
    BY <1>1, <1>2, <1>6, RuntimeAssumption, CacheAssumption
    DEF SourceChanges, SetDirectly, Sends, CacheTypeOK
  <2> QED
    BY <1>2, <1>6, <2>1 DEF OrderInv, AllSent, SentInv, SentTime, InTransit
<1>7. ASSUME NEW h \in Caller, UNCHANGED <<now, lockVars>>,
             \/ Remember(h) \/ LockAnswers(h) \/ Busy(h) \/ LookAgain(h) \/ LoadThrows(h)
             \/ SetReplies(h) \/ SetRejects(h)
      PROVE  OrderInv' /\ AllSent'
  <2>1. UNCHANGED <<stored, sent>> /\ \A g \in Caller \ {h} : load'[g] = load[g]
    BY <1>1, <1>7
    DEF Remember, LockAnswers, Busy, LookAgain, LoadThrows, SetReplies, SetRejects, Moves, Returns, CacheTypeOK
  <2>2. load'[h].at # "loaded"
    BY <1>1, <1>7
    DEF Remember, LockAnswers, Busy, LookAgain, LoadThrows, SetReplies, SetRejects, AfterSet, Moves, Returns,
        LoadWith, CacheTypeOK
  <2>3. InTransit(h) => load'[h].at \in {"storing", "storingFree", "leaving", "done"}
    BY <1>1, <1>7
    DEF SentInv, Remember, LockAnswers, Busy, LookAgain, LoadThrows, Loading, SetReplies, SetRejects, AfterSet,
        Moves, Returns, CacheTypeOK
  <2>4. \A g \in Caller : /\ Leased(g)' <=> Leased(g)
                          /\ grantedUntil[g] <= grantedUntil'[g]
    BY <1>1, <1>2, <1>7
  <2>5. \A g \in Caller : /\ load'[g].at = "loaded" => load'[g] = load[g]
                          /\ InTransit(g) => load'[g].at \in {"storing", "storingFree", "leaving", "done"}
    BY <1>1, <2>1, <2>2, <2>3 DEF SentInv
  <2> QED
    BY <1>1, <1>7, <2>1, <2>4, <2>5, OrderUntouched
\* A load sees all that was stored before; it has sent nothing yet.
<1>8. ASSUME NEW h \in Caller, Load(h), UNCHANGED <<now, lockVars>>
      PROVE  OrderInv' /\ AllSent'
  <2>1. /\ UNCHANGED <<stored, sent, source, grantedUntil, now>> /\ load'[h].value = source
        /\ \A g \in Caller \ {h} : load'[g] = load[g]
    BY <1>1, <1>2, <1>8 DEF Load, Returns, CacheTypeOK
  <2>2. ~InTransit(h)
    BY <1>1, <1>8 DEF Load, SentInv
  <2>3. OrderInv'
    BY <1>1, <1>2, <1>8, <2>1, <2>2 DEF OrderInv, InTransit
  <2> QED
    BY <1>1, <2>1, <2>2, <2>3 DEF AllSent, SentInv, SentTime, InTransit
\* assertOwned() bounds the age of the lease when the entry is sent.
<1>9. ASSUME NEW h \in Caller, SendLoaded(h) \/ SendFree(h), UNCHANGED <<now, lockVars>>
      PROVE  OrderInv' /\ AllSent'
  <2>1. PICK locked \in BOOLEAN, at \in {"storing", "storingFree"} :
            /\ Sends(h, load[h].value, locked) /\ Moves(h, at)
            /\ locked => load[h].at = "loaded" /\ Believes(h)
            /\ load[h].at \in {"loaded", "loadedFree"}
            /\ UNCHANGED <<source, stored, floor>>
    BY <1>9 DEF SendLoaded, SendFree
  <2>2. /\ load[h].value \in 0..MaxWrites
        /\ load'[h].at = at /\ \A g \in Caller \ {h} : load'[g] = load[g]
    BY <1>1, <2>1, CacheAssumption DEF LoadKnows, CacheTypeOK, Moves, VersionInv, NoVersion
  <2>3. /\ sent'[h].version = load[h].value /\ sent'[h].expiresAt = now + Ttl /\ sent'[h].locked = locked
        /\ \A g \in Setter \ {h} : sent'[g] = sent[g]
    BY <1>1, <2>1, <2>2, SendFits
  <2>4. OrderInv'
    <3> SUFFICES ASSUME stored # NothingStored, stored.leased, NEW g \in Caller, Leased(g)
                 PROVE  /\ load'[g].at = "loaded" => stored.version <= load'[g].value
                        /\ InTransit(g)' /\ sent'[g].locked => stored.version <= sent'[g].version
      BY <1>2, <1>9, <2>1 DEF OrderInv
    <3>1. CASE g = h
      BY <2>1, <2>2, <2>3, <3>1 DEF OrderInv
    <3>2. CASE g # h
      BY <1>1, <2>2, <2>3, <3>2 DEF OrderInv, InTransit
    <3> QED
      BY <3>1, <3>2
  <2>5. SentInv(h)'
    <3>1. SentTime(h)' = now
      BY <1>1, <2>3, CacheAssumption DEF SentTime
    <3>2. locked => now < grantedUntil[h] + MaxDelay
      <4>1. SlackInv(h) /\ belief[h] \in Nat
        BY <1>1 DEF LockInv, LockTypeOK
      <4> QED
        BY <1>1, <2>1, <4>1 DEF Believes, SlackInv
    <3> QED
      BY <1>1, <1>2, <1>9, <2>2, <2>3, <3>1, <3>2 DEF SentInv
  <2>6. ASSUME NEW g \in Caller, g # h
        PROVE  SentInv(g)'
    BY <1>1, <1>2, <1>9, <2>2, <2>3, <2>6 DEF SentInv, SentTime, InTransit
  <2> QED
    BY <2>4, <2>5, <2>6 DEF AllSent
\* Who applies inside the lease is the only one to hold it.
<1>10. ASSUME NEW c \in Setter, SetApplies(c) \/ SetLost(c), UNCHANGED <<now, lockVars>>
       PROVE  OrderInv' /\ AllSent'
  <2>1. /\ UNCHANGED <<load, now, grantedUntil>>
        /\ sent'[c] = NothingStored /\ \A d \in Setter \ {c} : sent'[d] = sent[d]
    BY <1>1, <1>2, <1>10 DEF SetApplies, SetLost, CacheTypeOK
  <2>2. AllSent'
    BY <1>1, <2>1 DEF AllSent, SentInv, SentTime, InTransit
  <2>3. CASE SetLost(c)
    <3>1. stored' = stored
      BY <2>3 DEF SetLost
    <3> QED
      BY <1>1, <1>2, <1>10, <2>1, <2>2, <3>1 DEF OrderInv, InTransit
  <2>4. CASE SetApplies(c)
    <3>1. stored'.version = sent[c].version /\ (stored'.leased <=> (sent[c].locked /\ Leased(c)))
      BY <1>1, <2>4, ApplyFits
    <3>2. CASE stored'.leased
      <4>1. \A h \in Caller : Leased(h)' => h = c
        BY <1>2, <1>10, <3>1, <3>2 DEF Leased
      <4>2. c \in Caller => load[c].at # "loaded"
        BY <1>1, <2>4 DEF SetApplies, SentInv
      <4> QED
        BY <2>1, <2>2, <4>1, <4>2 DEF OrderInv, InTransit
    <3>3. CASE ~stored'.leased
      BY <2>2, <3>3 DEF OrderInv
    <3> QED
      BY <3>2, <3>3
  <2> QED
    BY <1>10, <2>3, <2>4
<1>11. CASE UNCHANGED <<now, lockVars, cacheVars>>
  <2>1. /\ UNCHANGED <<now, stored, sent, load, grantedUntil>>
        /\ \A h : Leased(h)' <=> Leased(h)
    BY <1>2, <1>11 DEF cacheVars
  <2> QED
    BY <2>1 DEF OrderInv, AllSent, SentInv, SentTime, InTransit
<1> QED
  BY <1>3, <1>4, <1>5, <1>6, <1>7, <1>8, <1>9, <1>10, <1>11 DEF CacheNext, RememberStep

\* Under the lock (cache.ts): a version loaded and applied inside a lease is never
\* replaced by an older one from under the lock while its caller has the lease, and
\* two round trips after that lease by none at all; for any number of callers, and
\* whatever crashes or rejects and however late timers are.
THEOREM LockOrdersStores == CacheSpec => StoresInOrder
<1>1. CacheInit => OrderInv /\ AllSent
  BY CacheAssumption DEF CacheInit, OrderInv, AllSent, SentInv, InTransit, Setter
<1>2. LockInv /\ LockInv' /\ VersionInv /\ VersionInv' /\ OrderInv /\ AllSent
        /\ [CacheNext]_<<now, lockVars, cacheVars>> => OrderInv' /\ AllSent'
  BY OrderInvStep
<1>3. ASSUME LockInv, VersionInv, OrderInv, AllSent, NEW h \in Caller, SetApplies(h), sent[h].locked,
             stored # NothingStored, stored.leased, sent[h].version < stored.version
      PROVE  ~Leased(h) /\ now < grantedUntil[h] + 2 * MaxDelay
  <2>1. /\ InTransit(h) /\ SentInv(h) /\ h \in Setter
        /\ sent[h].version \in Nat /\ stored.version \in Nat
    BY <1>3, EntriesAreThere
    DEF AllSent, SetApplies, InTransit, VersionInv, CacheTypeOK, Sent, Entry, Setter
  <2>2. ~Leased(h)
    BY <1>3, <2>1 DEF OrderInv
  <2>3. now \in Nat /\ grantedUntil[h] \in Nat /\ MaxDelay \in Nat
    BY <1>3, CacheAssumption, LeaseLockAssumption DEF LockInv, LockTypeOK
  <2> QED
    BY <1>3, <2>1, <2>2, <2>3 DEF SentInv
<1>4. LockInv /\ VersionInv /\ OrderInv /\ AllSent
        => [\A h \in Caller :
              (/\ SetApplies(h) /\ sent[h].locked
               /\ stored # NothingStored /\ stored.leased /\ sent[h].version < stored.version)
                => ~Leased(h) /\ now < grantedUntil[h] + 2 * MaxDelay]_<<now, lockVars, cacheVars>>
  BY <1>3
<1> QED
  BY <1>1, <1>2, <1>4, CacheHolds, PTL DEF CacheSpec, StoresInOrder
==============================================================================
