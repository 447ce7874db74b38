----------------------------- MODULE DiscordOAuth ----------------------------
(***************************************************************************)
(* createDiscordOAuth (discord/oauth.ts) for one user: logging in with a   *)
(* one-time state, getAccessToken() refreshing an old credential under the *)
(* distributed lock, and revoke().  Discord rotates refresh tokens: one    *)
(* exchange spends a token and issues the next.  A call of getAccessToken  *)
(* is the owner of its lock handle; every store call, and every request to *)
(* Discord, is a step between which the others move.                       *)
(***************************************************************************)
EXTENDS LeaseLock

CONSTANTS
    Login,      \* calls of completeLogin with one state
    NoCred,
    MaxTokens   \* bound on the refresh tokens Discord issues

ASSUME OAuthAssumption ==
    /\ MaxTokens \in Nat \ {0}
    /\ NoCred \notin [token : Nat, fresh : BOOLEAN, by : Req \cup {Nobody}]

VARIABLES
    oauthState,  \* the row of the state: "none", "put" or "gone"
    cred,        \* the user's credential: its refresh token, whether the access token is fresh,
                 \* and the refresh, if any, that stored one where there was none
    issued,      \* refresh tokens Discord has issued: 1..issued
    dead,        \* those it takes no more, spent or revoked
    call,        \* getAccessToken()
    login,       \* completeLogin()
    revoking,    \* revoke(): where it is, and the token it read
    replaced,    \* tokens whose successor a refresh has stored
    undoing      \* refreshes under way when revoke() deleted the credential, or none of it

oauthVars == <<oauthState, cred, issued, dead, call, login, revoking, replaced, undoing>>

NoRevocation == {Nobody}

Credential == [token : 0..MaxTokens, fresh : BOOLEAN, by : Req \cup {Nobody}]
Call == [at : {"idle", "locking", "locked", "asking", "answered", "leaving", "done"},
         seen : 0..MaxTokens, token : 0..MaxTokens, next : 0..MaxTokens, attempts : 0..2]

OAuthTypeOK ==
    /\ oauthState \in {"none", "put", "gone"}
    /\ cred \in Credential \cup {NoCred}
    /\ issued \in 0..MaxTokens /\ dead \subseteq 0..MaxTokens
    /\ call \in [Req -> Call]
    /\ login \in [Login -> [at : {"idle", "consumed", "exchanged", "stored", "done", "failed"},
                           token : 0..MaxTokens]]
    /\ revoking \in [at : {"idle", "asking", "deleting", "done"}, token : 0..MaxTokens]
    /\ replaced \subseteq 0..MaxTokens /\ undoing \subseteq Req \cup {Nobody}

\* seen is the token read before the lock, token the one presented, next its
\* successor.
CallWith(at, seen, token) == [at |-> at, seen |-> seen, token |-> token, next |-> 0, attempts |-> 2]

OAuthInit ==
    /\ LockStart
    /\ oauthState = "none"
    /\ cred = NoCred \/ cred = [token |-> 1, fresh |-> FALSE, by |-> Nobody]
    /\ issued = IF cred = NoCred THEN 0 ELSE 1
    /\ dead = {}
    /\ call = [h \in Req |-> CallWith("idle", 0, 0)]
    /\ login = [l \in Login |-> [at |-> "idle", token |-> 0]]
    /\ revoking = [at |-> "idle", token |-> 0]
    /\ replaced = {}
    /\ undoing = NoRevocation

CallAt(h, fields) == call' = [call EXCEPT ![h] = fields]
Goes(h, at) == CallAt(h, CallWith(at, 0, 0))

------------------------------------------------------------------------------
(* beginLogin() and completeLogin().                                       *)

BeginLogin ==
    /\ oauthState = "none"
    /\ oauthState' = "put"
    /\ UNCHANGED <<cred, issued, dead, call, login, revoking, replaced, undoing>>

\* Slip: the state is deleted when it has expired, or by a login that failed.
ConsumeKeeps(l) ==
    /\ login[l].at = "idle" /\ oauthState # "none"
    /\ \/ oauthState = "put" /\ login' = [login EXCEPT ![l].at = "consumed"] /\ UNCHANGED oauthState
       \/ login' = [login EXCEPT ![l].at = "failed"] /\ oauthState' = "gone"
    /\ UNCHANGED <<cred, issued, dead, call, revoking, replaced, undoing>>

\* consume() takes the row away; it must be there, unexpired, and bound to the
\* browser that presents it.
Consume(l) ==
    /\ login[l].at = "idle" /\ oauthState # "none"
    /\ oauthState' = "gone"
    /\ \/ oauthState = "put" /\ login' = [login EXCEPT ![l].at = "consumed"]
       \/ login' = [login EXCEPT ![l].at = "failed"]
    /\ UNCHANGED <<cred, issued, dead, call, revoking, replaced, undoing>>

\* The code is exchanged and the user fetched, or one of the requests fails.
ExchangeCode(l) ==
    /\ login[l].at = "consumed"
    /\ \/ /\ issued < MaxTokens
          /\ issued' = issued + 1
          /\ login' = [login EXCEPT ![l] = [at |-> "exchanged", token |-> issued + 1]]
       \/ login' = [login EXCEPT ![l].at = "failed"] /\ UNCHANGED issued
    /\ UNCHANGED <<oauthState, cred, dead, call, revoking, replaced, undoing>>

StoreLogin(l) ==
    /\ login[l].at = "exchanged"
    /\ cred' = [token |-> login[l].token, fresh |-> TRUE, by |-> Nobody]
    /\ login' = [login EXCEPT ![l] = [at |-> "stored", token |-> 0]]
    /\ undoing' = NoRevocation
    /\ UNCHANGED <<oauthState, issued, dead, call, revoking, replaced>>

CreateSession(l) ==
    /\ login[l].at = "stored"
    /\ login' = [login EXCEPT ![l].at = "done"]
    /\ UNCHANGED <<oauthState, cred, issued, dead, call, revoking, replaced, undoing>>

\* Within a minute of its expiry the access token is no longer used.
TokenAges ==
    /\ cred # NoCred /\ cred.fresh
    /\ cred' = [cred EXCEPT !.fresh = FALSE]
    /\ UNCHANGED <<oauthState, issued, dead, call, login, revoking, replaced, undoing>>

------------------------------------------------------------------------------
(* getAccessToken().                                                       *)

\* No credential, an access token that will do, or one to refresh.
ReadCredential(h) ==
    /\ call[h].at = "idle"
    /\ IF cred # NoCred /\ ~cred.fresh
       THEN CallAt(h, CallWith("locking", cred.token, 0))
       ELSE Goes(h, "done")
    /\ UNCHANGED <<oauthState, cred, issued, dead, login, revoking, replaced, undoing>>

\* Slip: a refused lock is not an error.
AcquiredOrNot(h) ==
    /\ call[h].at = "locking" /\ phase[h] \in {"held", "refused"}
    /\ call' = [call EXCEPT ![h].at = "locked"]
    /\ UNCHANGED <<oauthState, cred, issued, dead, login, revoking, replaced, undoing>>

\* acquire() resolves; or the wait is over, and RESOURCE_BUSY is thrown.
Acquired(h) ==
    /\ call[h].at = "locking" /\ phase[h] \in {"held", "refused"}
    /\ IF phase[h] = "held" THEN call' = [call EXCEPT ![h].at = "locked"] ELSE Goes(h, "done")
    /\ UNCHANGED <<oauthState, cred, issued, dead, login, revoking, replaced, undoing>>

\* Slip: the credential read before the lock is used.
UseFirstRead(h) ==
    /\ call[h].at = "locked"
    /\ CallAt(h, CallWith("asking", 0, call[h].seen))
    /\ UNCHANGED <<oauthState, cred, issued, dead, login, revoking, replaced, undoing>>

\* Under the lock the credential is read again: gone, refreshed by another call
\* in the meantime, or still to be refreshed.
ReadAgain(h) ==
    /\ call[h].at = "locked"
    /\ IF cred # NoCred /\ ~cred.fresh
       THEN CallAt(h, CallWith("asking", 0, cred.token))
       ELSE Goes(h, "leaving")
    /\ UNCHANGED <<oauthState, cred, issued, dead, login, revoking, replaced, undoing>>

\* Discord exchanges the token, and the answer arrives; or it is lost, and the
\* request is sent a second time.
Exchange(h) ==
    /\ call[h].at = "asking" /\ call[h].attempts > 0 /\ call[h].token \notin dead
    /\ issued < MaxTokens
    /\ issued' = issued + 1
    /\ dead' = dead \cup {call[h].token}
    /\ \/ call' = [call EXCEPT ![h].at = "answered", ![h].next = issued + 1]
       \/ call' = [call EXCEPT ![h].attempts = @ - 1]
    /\ UNCHANGED <<oauthState, cred, login, revoking, replaced, undoing>>

\* A request that never arrives, a 429, a dead token or the deadline; the first
\* two are retried.  credentialStore.set() may reject as well.
ExchangeFails(h) ==
    /\ \/ call[h].at = "asking" /\ call[h].attempts > 1 /\ call' = [call EXCEPT ![h].attempts = @ - 1]
       \/ call[h].at \in {"asking", "answered"} /\ Goes(h, "leaving")
    /\ UNCHANGED <<oauthState, cred, issued, dead, login, revoking, replaced, undoing>>

\* assertOwned() passes and the next token is stored, over whatever is there now.
StoreRefreshed(h) ==
    /\ call[h].at = "answered" /\ Believes(h)
    /\ cred' = [token |-> call[h].next, fresh |-> TRUE, by |-> IF cred = NoCred THEN h ELSE cred.by]
    /\ replaced' = replaced \cup {call[h].token}
    /\ Goes(h, "leaving")
    /\ UNCHANGED <<oauthState, issued, dead, login, revoking, undoing>>

------------------------------------------------------------------------------
(* revoke().                                                               *)

RevokeReads ==
    /\ revoking.at = "idle"
    /\ revoking' = IF cred = NoCred THEN [at |-> "done", token |-> 0]
                   ELSE [at |-> "asking", token |-> cred.token]
    /\ UNCHANGED <<oauthState, cred, issued, dead, call, login, replaced, undoing>>

\* Discord is told; that it may fail is ignored.
RevokeAsks ==
    /\ revoking.at = "asking"
    /\ dead' = dead \cup {revoking.token} \/ UNCHANGED dead
    /\ revoking' = [at |-> "deleting", token |-> 0]
    /\ UNCHANGED <<oauthState, cred, issued, call, login, replaced, undoing>>

Refreshing(h) == call[h].at \in {"asking", "answered"}

RevokeDeletes ==
    /\ revoking.at = "deleting"
    /\ cred' = NoCred
    /\ undoing' = {h \in Req : Refreshing(h)}
    /\ revoking' = [revoking EXCEPT !.at = "done"]
    /\ UNCHANGED <<oauthState, issued, dead, call, login, replaced>>

------------------------------------------------------------------------------

\* acquire() polls while the call waits for it, and the handle renews itself
\* until the finally block releases it.
LockStep(h) ==
    \/ /\ call[h].at = "locking"
       /\ LockGrant(h) \/ LockRefuse(h) \/ LockReply(h) \/ LockRenewTick(h) \/ LockRenewApply(h) \/ LockRenewReply(h)
       /\ UNCHANGED call
    \/ /\ call[h].at \in {"locked", "asking", "answered"}
       /\ LockRenewTick(h) \/ LockRenewApply(h) \/ LockRenewReply(h)
       /\ UNCHANGED call
    \/ /\ call[h].at = "leaving"
       /\ LockRelease(h)
       /\ Goes(h, "done")
    \/ /\ call[h].at = "done"
       /\ LockRenewApply(h) \/ LockRenewReply(h)
       /\ UNCHANGED call

CallStep(h) ==
    \/ ReadCredential(h) \/ Acquired(h) \/ ReadAgain(h)
    \/ Exchange(h) \/ ExchangeFails(h) \/ StoreRefreshed(h)
LoginStep(l) == Consume(l) \/ ExchangeCode(l) \/ StoreLogin(l) \/ CreateSession(l)

OAuthNext ==
    \/ LockTick /\ UNCHANGED oauthVars
    \/ /\ \E h \in Req : LockStep(h)
       /\ UNCHANGED <<now, oauthState, cred, issued, dead, login, revoking, replaced, undoing>>
    \/ /\ \/ BeginLogin \/ TokenAges
          \/ \E l \in Login : LoginStep(l)
          \/ \E h \in Req : CallStep(h)
          \/ RevokeReads \/ RevokeAsks \/ RevokeDeletes
       /\ UNCHANGED <<now, lockVars>>

OAuthSpec == OAuthInit /\ [][OAuthNext]_<<now, lockVars, oauthVars>>

------------------------------------------------------------------------------
(* Properties.                                                             *)

\* "OAuth state is single-use": of all logins that present one state, one goes
\* on to exchange its code.
OneLoginPerState ==
    \A k, l \in Login : (login[k].at \notin {"idle", "failed"} /\ login[l].at \notin {"idle", "failed"}) => k = l

\* "Token refresh uses a distributed single-flight lease": with timers on time,
\* two calls never have a refresh of one credential under way.
SingleFlight == \A g, h \in Req : Refreshing(g) /\ Refreshing(h) => g = h

\* Nobody presents a token again whose successor is stored: Discord would take
\* the replay for a stolen token and revoke the grant.
NoReplacedTokenPresented == \A h \in Req : call[h].at = "asking" => call[h].token \notin replaced

\* A credential that revoke() deleted stays deleted until the next login, but
\* for one refresh that had read it before: revoke() does not take the lock, and
\* the refresh stores its answer all the same.
RevocationUndoneOnlyInFlight ==
    (undoing # NoRevocation /\ cred # NoCred) => /\ cred.by \in undoing
                                                 /\ \A g, h \in undoing : g = h
==============================================================================
