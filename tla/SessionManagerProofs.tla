------------------------ MODULE SessionManagerProofs ------------------------
(***************************************************************************)
(* Type correctness of the session manager, and that revokeAll() is        *)
(* complete, for every number of calls, tokens and sessions and for both   *)
(* kinds of store.                                                         *)
(***************************************************************************)
EXTENDS SessionManager, FiniteSetTheorems, TLAPS

InRevocation(c) == At(c, "listing") \/ At(c, "revoking")
Tokens(d) == {call[d].token, call[d].drawn} \ {NoToken}

\* A call that is about to write a session knows its token.
WriterInv ==
    \A c \in Call : /\ At(c, "insert") => call[c].drawn \in Token
                    /\ At(c, "touch") => call[c].token \in Token

\* A record is a session.
LEMMA Records ==
    ASSUME SessionTypeOK
    PROVE  /\ NoSession \in Session
           /\ FreshRecord \in Session
           /\ \A t \in Token : Touched(store[t]) \in Session
BY SessionAssumption DEF SessionTypeOK, NoSession, Session, FreshRecord, Touched

\* Whatever a call becomes is a state of a call, when its parts are.
LEMMA CallStates ==
    ASSUME NEW p \in {"idle", "insert", "limit", "evicting", "touch", "deleting",
                      "listing", "revoking"},
           NEW t \in Token \cup {NoToken}, NEW d \in Token \cup {NoToken},
           NEW s \in Session, NEW gone \in SUBSET Token
    PROVE  CallAt(p, t, d, s, gone) \in CallState
BY DEF CallAt, CallState

\* One call changes state; it has not drawn what it is to delete.
LEMMA CallsStayTyped ==
    ASSUME SessionTypeOK, NEW c \in Call,
           NEW state \in CallState, state.drawn \notin state.doomed,
           Become(c, state)
    PROVE  /\ call' \in [Call -> CallState]
           /\ \A e \in Call : call'[e].drawn \notin call'[e].doomed
BY DEF SessionTypeOK, Become

\* The states the actions move a call to.
LEMMA NextStates ==
    ASSUME SessionTypeOK, NEW c \in Call
    PROVE  /\ Idle \in CallState /\ Idle.drawn \notin Idle.doomed
           /\ \A gone \in SUBSET Token :
                 /\ Deleting(gone) \in CallState
                 /\ Deleting(gone).drawn \notin Deleting(gone).doomed
                 /\ Revoking(gone) \in CallState
                 /\ Revoking(gone).drawn \notin Revoking(gone).doomed
                 /\ Evicting(c, gone) \in CallState
                 /\ Evicting(c, gone).drawn = call[c].drawn
                 /\ Evicting(c, gone).doomed = gone
<1>1. call[c] \in CallState
  BY DEF SessionTypeOK
<1>2. NoSession \in Session
  BY Records
<1> QED
  BY <1>1, <1>2, CallStates, SessionAssumption
  DEF Idle, Deleting, Revoking, Evicting, CallAt, CallState

\* AfterCreate leaves every call well formed.
LEMMA AfterCreateTyped ==
    ASSUME SessionTypeOK, NEW c \in Call, AfterCreate(c)
    PROVE  /\ call' \in [Call -> CallState]
           /\ \A e \in Call : call'[e].drawn \notin call'[e].doomed
<1>1. call[c].token \in Token \cup {NoToken}
  BY DEF SessionTypeOK, CallState
<1>2. CASE call[c].token = NoToken
  BY <1>2, NextStates, CallsStayTyped DEF AfterCreate, End
<1>3. CASE call[c].token # NoToken
  <2>1. {call[c].token} \in SUBSET Token
    BY <1>1, <1>3
  <2>2. Become(c, Deleting({call[c].token}))
    BY <1>3 DEF AfterCreate
  <2> QED
    BY <2>1, <2>2, NextStates, CallsStayTyped
<1> QED
  BY <1>2, <1>3

\* BeginCreate issues a token and leaves every call well formed.
LEMMA BeginCreateTyped ==
    ASSUME SessionTypeOK, NEW c \in Call, NEW old \in Token \cup {NoToken},
           BeginCreate(c, old)
    PROVE  /\ call' \in [Call -> CallState]
           /\ \A e \in Call : call'[e].drawn \notin call'[e].doomed
           /\ issued' \subseteq Token
           /\ overlap' \in [Call -> SUBSET Token]
<1>1. PICK t \in Token \ issued :
          /\ issued' = issued \cup {t}
          /\ Become(c, CallAt("insert", old, t, FreshRecord, {}))
          /\ Beside(c, {t, old})
  BY DEF BeginCreate
<1>2. CallAt("insert", old, t, FreshRecord, {}) \in CallState
  BY CallStates, Records
<1>3. CallAt("insert", old, t, FreshRecord, {}).drawn
          \notin CallAt("insert", old, t, FreshRecord, {}).doomed
  BY DEF CallAt
<1>4. overlap' \in [Call -> SUBSET Token]
  BY <1>1 DEF Beside, SessionTypeOK
<1>5. issued' \subseteq Token
  BY <1>1 DEF SessionTypeOK
<1> QED
  BY <1>1, <1>2, <1>3, <1>4, <1>5, CallsStayTyped

\* What runs beside a revocation is a set of tokens.
LEMMA BesideTyped ==
    ASSUME SessionTypeOK, NEW c \in Call, NEW ts \in SUBSET (Token \cup {NoToken}),
           Beside(c, ts)
    PROVE  overlap' \in [Call -> SUBSET Token]
BY DEF Beside, SessionTypeOK

------------------------------------------------------------------------------
\* Every step of a call keeps the state well formed.
LEMMA TypeStep ==
    ASSUME SessionTypeOK, WriterInv, NEW c \in Call, CallStep(c)
    PROVE  SessionTypeOK'
<1> USE DEF SessionTypeOK, historyVars
<1>0. /\ call[c] \in CallState
      /\ call[c].doomed \subseteq Token
      /\ call[c].draft \in Session
      /\ NoSession \in Session
  BY Records DEF CallState
<1>1. CASE Login(c)
  BY <1>1, BeginCreateTyped DEF Login
<1>2. CASE CreateAtomically(c)
  BY <1>2, <1>0, AfterCreateTyped DEF CreateAtomically
<1>3. CASE CreateBySet(c)
  <2> DEFINE next == CallAt("limit", call[c].token, call[c].drawn, NoSession, {})
  <2>1. next \in CallState /\ next.drawn \notin next.doomed
    BY <1>0, CallStates DEF CallAt, CallState
  <2>2. Become(c, next)
    BY <1>3 DEF CreateBySet
  <2>3. /\ call' \in [Call -> CallState]
        /\ \A e \in Call : call'[e].drawn \notin call'[e].doomed
    BY <2>1, <2>2, CallsStayTyped
  <2> QED
    BY <1>3, <1>0, <2>3 DEF CreateBySet
<1>4. CASE ListForLimit(c)
  <2>1. PICK gone \in Excess(Sessions \ {call[c].drawn}, store, MaxSessions - 1) :
            IF gone = {} THEN AfterCreate(c) ELSE Become(c, Evicting(c, gone))
    BY <1>4 DEF ListForLimit
  <2>2. gone \subseteq Token /\ call[c].drawn \notin gone
    BY <2>1 DEF Excess, Sessions
  <2>3. /\ call' \in [Call -> CallState]
        /\ \A e \in Call : call'[e].drawn \notin call'[e].doomed
    BY <2>1, <2>2, AfterCreateTyped, NextStates, CallsStayTyped
  <2> QED
    BY <1>4, <2>3 DEF ListForLimit
<1>5. CASE Evict(c)
  <2>1. PICK t \in call[c].doomed :
            /\ store' = [store EXCEPT ![t] = NoSession]
            /\ IF call[c].doomed = {t} THEN AfterCreate(c)
               ELSE Become(c, Evicting(c, call[c].doomed \ {t}))
    BY <1>5 DEF Evict
  <2>2. call[c].doomed \ {t} \subseteq Token /\ call[c].drawn \notin call[c].doomed \ {t}
    BY <1>0
  <2>3. /\ call' \in [Call -> CallState]
        /\ \A e \in Call : call'[e].drawn \notin call'[e].doomed
    BY <2>1, <2>2, AfterCreateTyped, NextStates, CallsStayTyped
  <2> QED
    BY <1>5, <1>0, <2>1, <2>3 DEF Evict
<1>6. ASSUME NEW t \in Token, FindLapsed(c, t)
      PROVE  SessionTypeOK'
  <2>1. {t} \in SUBSET Token
    OBVIOUS
  <2> QED
    BY <1>6, <2>1, NextStates, CallsStayTyped, BesideTyped DEF FindLapsed
<1>7. ASSUME NEW t \in Token, Rotate(c, t)
      PROVE  SessionTypeOK'
  BY <1>7, BeginCreateTyped DEF Rotate
<1>8. ASSUME NEW t \in Token, ReadForTouch(c, t)
      PROVE  SessionTypeOK'
  <2> DEFINE next == CallAt("touch", t, NoToken, Touched(store[t]), {})
  <2>1. next \in CallState /\ next.drawn \notin next.doomed
    BY CallStates, Records DEF CallAt
  <2>2. Become(c, next)
    BY <1>8 DEF ReadForTouch
  <2>3. /\ call' \in [Call -> CallState]
        /\ \A e \in Call : call'[e].drawn \notin call'[e].doomed
    BY <2>1, <2>2, CallsStayTyped
  <2> QED
    BY <1>8, <2>3, BesideTyped DEF ReadForTouch
<1>9. ASSUME NEW t \in Token, Revoke(c, t)
      PROVE  SessionTypeOK'
  <2>1. {t} \in SUBSET Token
    OBVIOUS
  <2> QED
    BY <1>9, <2>1, NextStates, CallsStayTyped, BesideTyped DEF Revoke
<1>10. CASE Touch(c)
  <2>1. call[c].token \in Token
    BY <1>10 DEF Touch, WriterInv
  <2>2. revived' \subseteq Token
    BY <1>10, <2>1 DEF Touch
  <2> QED
    BY <1>10, <1>0, <2>2, NextStates, CallsStayTyped DEF Touch, End
<1>11. CASE Delete(c)
  BY <1>11, <1>0, NextStates, CallsStayTyped DEF Delete, End
<1>12. CASE RevokeAll(c)
  <2> DEFINE next == CallAt("listing", NoToken, NoToken, NoSession, {})
  <2>1. next \in CallState /\ next.drawn \notin next.doomed
    BY <1>0, CallStates DEF CallAt
  <2>2. Become(c, next)
    BY <1>12 DEF RevokeAll
  <2>3. /\ call' \in [Call -> CallState]
        /\ \A e \in Call : call'[e].drawn \notin call'[e].doomed
    BY <2>1, <2>2, CallsStayTyped
  <2>4. (UNION {{call[d].token, call[d].drawn} : d \in Call}) \ {NoToken} \subseteq Token
    <3>1. \A d \in Call : call[d].token \in Token \cup {NoToken}
                        /\ call[d].drawn \in Token \cup {NoToken}
      BY DEF CallState
    <3> QED
      BY <3>1
  <2> QED
    BY <1>12, <2>3, <2>4 DEF RevokeAll
<1>13. CASE ListForRevocation(c)
  <2>1. Sessions \in SUBSET Token
    BY DEF Sessions
  <2> QED
    BY <1>13, <2>1, NextStates, CallsStayTyped DEF ListForRevocation, EndAll, End
<1>14. CASE RevokeOne(c)
  <2>1. \A t : call[c].doomed \ {t} \in SUBSET Token
    BY <1>0
  <2> QED
    BY <1>14, <1>0, <2>1, NextStates, CallsStayTyped DEF RevokeOne, EndAll, End
<1>15. CASE Fail(c)
  BY <1>15, NextStates, CallsStayTyped DEF Fail, EndAll, End
<1> QED
  BY <1>1, <1>2, <1>3, <1>4, <1>5, <1>6, <1>7, <1>8, <1>9, <1>10, <1>11, <1>12, <1>13,
     <1>14, <1>15 DEF CallStep

\* What a step of c does to the other calls, to the revocations beside it and
\* to the store: it adds no session but one whose token c held before.
Footprint(c) ==
    /\ \A d \in Call \ {c} : call'[d] = call[d]
    /\ call'[c].pc = "insert" => call'[c].drawn \in Token
    /\ call'[c].pc = "touch" => call'[c].token \in Token
    /\ \A d \in Call \ {c} : InRevocation(d) =>
          overlap[d] \cup (Tokens(c)' \ Tokens(c)) \subseteq overlap'[d]
    /\ Sessions' \subseteq Sessions \cup Tokens(c)
    /\ InRevocation(c)' => RevokeAll(c) \/ ListForRevocation(c) \/ RevokeOne(c)

LEMMA AfterCreateFootprint ==
    ASSUME SessionTypeOK, NEW c \in Call, AfterCreate(c), overlap' = overlap,
           Sessions' \subseteq Sessions \cup Tokens(c)
    PROVE  Footprint(c)
<1>1. PICK gone : Become(c, Idle) \/ Become(c, Deleting(gone))
  BY DEF AfterCreate, End
<1> QED
  BY <1>1 DEF SessionTypeOK, Become, Idle, Deleting, CallAt, Footprint, InRevocation, Tokens, At

LEMMA BeginCreateFootprint ==
    ASSUME SessionTypeOK, NEW c \in Call, NEW old \in Token \cup {NoToken},
           BeginCreate(c, old), store' = store
    PROVE  Footprint(c)
<1>1. PICK t \in Token \ issued :
          /\ Become(c, CallAt("insert", old, t, FreshRecord, {}))
          /\ Beside(c, {t, old})
  BY DEF BeginCreate
<1> QED
  BY <1>1 DEF SessionTypeOK, Become, CallAt, Beside, Footprint, InRevocation, Tokens, At, Sessions

\* A step that only goes on to a call's next state.
LEMMA PlainFootprint ==
    ASSUME SessionTypeOK, NEW c \in Call, NEW p, NEW s, NEW gone,
           p \notin {"insert", "touch", "listing", "revoking"},
           \/ Become(c, CallAt(p, NoToken, NoToken, s, gone))
           \/ Become(c, CallAt(p, call[c].token, call[c].drawn, s, gone)),
           \A d \in Call \ {c} : overlap[d] \subseteq overlap'[d],
           Sessions' \subseteq Sessions \cup Tokens(c)
    PROVE  Footprint(c)
BY DEF SessionTypeOK, Become, CallAt, Footprint, InRevocation, Tokens, At

\* Every step of a call leaves that footprint.
LEMMA StepFootprint ==
    ASSUME SessionTypeOK, WriterInv, NEW c \in Call, CallStep(c)
    PROVE  Footprint(c)
<1> USE DEF historyVars
<1>0. /\ store \in [Token -> Session]
      /\ \A ts : Beside(c, ts) => \A d \in Call \ {c} : overlap[d] \subseteq overlap'[d]
      /\ store' = store => Sessions' = Sessions
      /\ overlap' = overlap => \A d \in Call \ {c} : overlap[d] \subseteq overlap'[d]
  BY DEF SessionTypeOK, Beside, Sessions
<1>1. CASE Login(c)
  BY <1>1, BeginCreateFootprint DEF Login
<1>2. CASE CreateAtomically(c)
  <2>1. Sessions' \subseteq Sessions \cup {call[c].drawn}
    BY <1>2, <1>0 DEF CreateAtomically, Sessions
  <2>2. {call[c].drawn} \subseteq Tokens(c)
    BY <1>2, SessionAssumption DEF CreateAtomically, WriterInv, Tokens
  <2> QED
    BY <1>2, <2>1, <2>2, AfterCreateFootprint DEF CreateAtomically
<1>3. CASE CreateBySet(c)
  <2>1. Sessions' \subseteq Sessions \cup {call[c].drawn}
    BY <1>3, <1>0 DEF CreateBySet, Sessions
  <2>2. {call[c].drawn} \subseteq Tokens(c)
    BY <1>3, SessionAssumption DEF CreateBySet, WriterInv, Tokens
  <2>3. Sessions' \subseteq Sessions \cup Tokens(c)
    BY <2>1, <2>2
  <2>4. /\ Become(c, CallAt("limit", call[c].token, call[c].drawn, NoSession, {}))
        /\ \A d \in Call \ {c} : overlap[d] \subseteq overlap'[d]
    BY <1>3, <1>0 DEF CreateBySet
  <2> QED
    <3>1. "limit" \notin {"insert", "touch", "listing", "revoking"}
      OBVIOUS
    <3> QED
      BY <2>3, <2>4, <3>1, PlainFootprint
<1>4. CASE ListForLimit(c)
  <2>1. PICK gone : IF gone = {} THEN AfterCreate(c) ELSE Become(c, Evicting(c, gone))
    BY <1>4 DEF ListForLimit
  <2>2. /\ \A d \in Call \ {c} : overlap[d] \subseteq overlap'[d]
        /\ overlap' = overlap /\ Sessions' \subseteq Sessions \cup Tokens(c)
    BY <1>4, <1>0 DEF ListForLimit
  <2>3. CASE gone = {}
    BY <2>1, <2>2, <2>3, AfterCreateFootprint
  <2>4. CASE gone # {}
    <3>1. Become(c, CallAt("evicting", call[c].token, call[c].drawn, NoSession, gone))
      BY <2>1, <2>4 DEF Evicting
    <3> QED
      BY <2>2, <3>1, PlainFootprint
  <2> QED
    BY <2>3, <2>4
<1>5. CASE Evict(c)
  <2>1. PICK t \in call[c].doomed :
            /\ store' = [store EXCEPT ![t] = NoSession]
            /\ IF call[c].doomed = {t} THEN AfterCreate(c)
               ELSE Become(c, Evicting(c, call[c].doomed \ {t}))
    BY <1>5 DEF Evict
  <2>2. Sessions' \subseteq Sessions
    BY <1>0, <2>1 DEF Sessions
  <2> QED
    BY <1>5, <1>0, <2>1, <2>2, AfterCreateFootprint, PlainFootprint DEF Evict, Evicting
<1>6. ASSUME NEW t \in Token, FindLapsed(c, t)
      PROVE  Footprint(c)
  BY <1>6, <1>0, PlainFootprint DEF FindLapsed, Deleting
<1>7. ASSUME NEW t \in Token, Rotate(c, t)
      PROVE  Footprint(c)
  BY <1>7, BeginCreateFootprint DEF Rotate
<1>8. ASSUME NEW t \in Token, ReadForTouch(c, t)
      PROVE  Footprint(c)
  BY <1>8 DEF ReadForTouch, SessionTypeOK, Become, CallAt, Beside, Footprint, InRevocation,
              Tokens, At, Sessions
<1>9. ASSUME NEW t \in Token, Revoke(c, t)
      PROVE  Footprint(c)
  BY <1>9, <1>0, PlainFootprint DEF Revoke, Deleting
<1>10. CASE Touch(c)
  <2>1. Sessions' \subseteq Sessions \cup {call[c].token}
    BY <1>10, <1>0 DEF Touch, Sessions
  <2>2. {call[c].token} \subseteq Tokens(c)
    BY <1>10, SessionAssumption DEF Touch, WriterInv, Tokens
  <2> QED
    BY <1>10, <1>0, <2>1, <2>2, PlainFootprint DEF Touch, End, Idle
<1>11. CASE Delete(c)
  <2>1. Sessions' \subseteq Sessions
    BY <1>11, <1>0 DEF Delete, Sessions
  <2> QED
    BY <1>11, <1>0, <2>1, PlainFootprint DEF Delete, End, Idle
<1>12. CASE RevokeAll(c)
  BY <1>12, <1>0 DEF RevokeAll, SessionTypeOK, Become, CallAt, Footprint, InRevocation, Tokens, At
<1>13. CASE ListForRevocation(c)
  BY <1>13, <1>0, SessionAssumption
  DEF ListForRevocation, SessionTypeOK, Become, EndAll, End, Idle, Revoking, CallAt, Footprint,
      InRevocation, Tokens, At
<1>14. CASE RevokeOne(c)
  <2>1. PICK t \in call[c].doomed :
            /\ store' = [store EXCEPT ![t] = NoSession]
            /\ \/ call[c].doomed = {t} /\ EndAll(c)
               \/ Become(c, Revoking(call[c].doomed \ {t})) /\ UNCHANGED overlap
    BY <1>14 DEF RevokeOne
  <2>2. Sessions' \subseteq Sessions
    BY <1>0, <2>1 DEF Sessions
  <2>3. \A d \in Call \ {c} : overlap'[d] = overlap[d]
    BY <2>1 DEF EndAll, SessionTypeOK
  <2>4. /\ \A d \in Call \ {c} : call'[d] = call[d]
        /\ call'[c] = Idle \/ \E gone : call'[c] = Revoking(gone)
    BY <2>1 DEF SessionTypeOK, Become, EndAll, End
  <2>5. call'[c].pc \notin {"insert", "touch"} /\ Tokens(c)' = {}
    <3>1. /\ Idle.pc = "idle" /\ Idle.token = NoToken /\ Idle.drawn = NoToken
          /\ \A gone : /\ Revoking(gone).pc = "revoking"
                       /\ Revoking(gone).token = NoToken /\ Revoking(gone).drawn = NoToken
      BY DEF Idle, Revoking, CallAt
    <3>2. call'[c].pc \in {"idle", "revoking"} /\ call'[c].token = NoToken /\ call'[c].drawn = NoToken
      BY <2>4, <3>1
    <3> QED
      BY <3>2 DEF Tokens
  <2>6. /\ call'[c].pc = "insert" => call'[c].drawn \in Token
        /\ call'[c].pc = "touch" => call'[c].token \in Token
        /\ \A d \in Call \ {c} : InRevocation(d) =>
              overlap[d] \cup (Tokens(c)' \ Tokens(c)) \subseteq overlap'[d]
    BY <2>3, <2>5
  <2> QED
    BY <1>14, <2>2, <2>4, <2>6 DEF Footprint
<1>15. CASE Fail(c)
  BY <1>15, <1>0, PlainFootprint DEF Fail, EndAll, End, Idle, SessionTypeOK
<1> QED
  BY <1>1, <1>2, <1>3, <1>4, <1>5, <1>6, <1>7, <1>8, <1>9, <1>10, <1>11, <1>12, <1>13,
     <1>14, <1>15 DEF CallStep

------------------------------------------------------------------------------
\* While a revocation is at work, what it has not listed belongs to the calls
\* beside it, and so does what those calls may still write.
RevocationInv(c) ==
    /\ InRevocation(c) => \A d \in Call : Tokens(d) \subseteq overlap[c]
    /\ At(c, "revoking") => Sessions \subseteq call[c].doomed \cup overlap[c]

SessionInv == SessionTypeOK /\ WriterInv /\ \A c \in Call : RevocationInv(c)

LEMMA SessionInvInit == SessionInit => SessionInv
<1> SUFFICES ASSUME SessionInit
             PROVE  SessionInv
  OBVIOUS
<1>1. NoSession \in Session
  BY DEF NoSession, Session
<1>2. Idle \in CallState /\ Idle.drawn \notin Idle.doomed /\ Idle.pc = "idle"
  BY <1>1 DEF Idle, CallAt, CallState
<1>3. SessionTypeOK
  BY <1>1, <1>2, SessionAssumption DEF SessionInit, SessionTypeOK
<1>4. \A c \in Call : call[c].pc = "idle"
  BY <1>2 DEF SessionInit
<1> QED
  BY <1>3, <1>4 DEF SessionInv, WriterInv, RevocationInv, InRevocation, At

\* The revocations beside a step keep their invariant: by its footprint.
LEMMA RevocationBeside ==
    ASSUME SessionTypeOK, NEW c \in Call, Footprint(c),
           NEW d \in Call \ {c}, RevocationInv(d)
    PROVE  RevocationInv(d)'
<1>1. call'[d] = call[d]
  BY DEF Footprint
<1>2. ASSUME InRevocation(d)'
      PROVE  /\ \A e \in Call : Tokens(e)' \subseteq overlap'[d]
             /\ overlap[d] \subseteq overlap'[d]
             /\ Sessions' \subseteq Sessions \cup overlap'[d]
  <2>1. InRevocation(d)
    BY <1>1, <1>2 DEF InRevocation, At
  <2>2. \A e \in Call : Tokens(e) \subseteq overlap[d]
    BY <2>1 DEF RevocationInv
  <2>3. overlap[d] \cup (Tokens(c)' \ Tokens(c)) \subseteq overlap'[d]
    BY <2>1 DEF Footprint
  <2>4. \A e \in Call \ {c} : Tokens(e)' = Tokens(e)
    BY DEF Footprint, Tokens
  <2>5. Sessions' \subseteq Sessions \cup Tokens(c)
    BY DEF Footprint
  <2> QED
    BY <2>2, <2>3, <2>4, <2>5
<1>3. ASSUME At(d, "revoking")'
      PROVE  Sessions' \subseteq call'[d].doomed \cup overlap'[d]
  <2>1. At(d, "revoking") /\ InRevocation(d)'
    BY <1>1, <1>3 DEF At, InRevocation
  <2> QED
    BY <1>1, <1>2, <2>1 DEF RevocationInv
<1> QED
  BY <1>2, <1>3 DEF RevocationInv

\* A revocation keeps its invariant through its own three steps.
LEMMA RevocationItself ==
    ASSUME SessionTypeOK, NEW c \in Call, Footprint(c), RevocationInv(c)
    PROVE  RevocationInv(c)'
<1> USE DEF historyVars
<1>0. /\ \A d \in Call \ {c} : Tokens(d)' = Tokens(d)
      /\ store \in [Token -> Session]
      /\ Idle.pc = "idle"
  BY DEF Footprint, Tokens, SessionTypeOK, Idle, CallAt
<1> SUFFICES ASSUME InRevocation(c)'
             PROVE  RevocationInv(c)'
  BY DEF RevocationInv, InRevocation
<1>1. CASE RevokeAll(c)
  <2>1. call'[c] = CallAt("listing", NoToken, NoToken, NoSession, {})
    BY <1>1 DEF RevokeAll, Become, SessionTypeOK
  <2>2. overlap'[c] = (UNION {{call[d].token, call[d].drawn} : d \in Call}) \ {NoToken}
    BY <1>1 DEF RevokeAll, SessionTypeOK
  <2>3. Tokens(c)' = {}
    BY <2>1 DEF Tokens, CallAt
  <2>4. \A d \in Call : Tokens(d) \subseteq overlap'[c]
    BY <2>2 DEF Tokens
  <2>5. ~At(c, "revoking")'
    BY <2>1 DEF At, CallAt
  <2> QED
    BY <1>0, <2>3, <2>4, <2>5 DEF RevocationInv
<1>2. CASE ListForRevocation(c)
  <2>1. /\ (call'[c] = Revoking(Sessions) /\ overlap' = overlap) \/ call'[c] = Idle
        /\ store' = store /\ InRevocation(c)
    BY <1>2 DEF ListForRevocation, Become, EndAll, End, SessionTypeOK, InRevocation
  <2>2. call'[c] = Revoking(Sessions) /\ overlap' = overlap
    BY <1>0, <2>1 DEF InRevocation, At
  <2>3. Tokens(c)' = {} /\ call'[c].doomed = Sessions /\ Sessions' = Sessions
    BY <2>1, <2>2 DEF Tokens, Revoking, CallAt, Sessions
  <2>4. \A d \in Call : Tokens(d) \subseteq overlap'[c]
    BY <2>1, <2>2 DEF RevocationInv
  <2> QED
    BY <1>0, <2>3, <2>4 DEF RevocationInv
<1>3. CASE RevokeOne(c)
  <2>1. PICK t \in call[c].doomed :
            /\ store' = [store EXCEPT ![t] = NoSession]
            /\ \/ call'[c] = Idle
               \/ call'[c] = Revoking(call[c].doomed \ {t}) /\ overlap' = overlap
    BY <1>3 DEF RevokeOne, Become, EndAll, End, SessionTypeOK
  <2>2. call'[c] = Revoking(call[c].doomed \ {t}) /\ overlap' = overlap
    BY <1>0, <2>1 DEF InRevocation, At
  <2>3. Tokens(c)' = {} /\ call'[c].doomed = call[c].doomed \ {t}
    BY <2>2 DEF Tokens, Revoking, CallAt
  <2>4. Sessions' \subseteq Sessions \ {t}
    BY <1>0, <2>1 DEF Sessions
  <2>5. At(c, "revoking") /\ InRevocation(c)
    BY <1>3 DEF RevokeOne, InRevocation
  <2> QED
    BY <1>0, <2>2, <2>3, <2>4, <2>5 DEF RevocationInv
<1> QED
  BY <1>1, <1>2, <1>3 DEF Footprint

LEMMA SessionInvNext == SessionInv /\ [SessionNext]_sessionVars => SessionInv'
<1> SUFFICES ASSUME SessionInv, [SessionNext]_sessionVars
             PROVE  SessionInv'
  OBVIOUS
<1> USE DEF SessionInv
<1>1. ASSUME UNCHANGED <<store, call, overlap>>, SessionTypeOK'
      PROVE  SessionInv'
  <2>1. WriterInv'
    BY <1>1 DEF WriterInv, At
  <2>2. \A c \in Call : RevocationInv(c)'
    BY <1>1 DEF RevocationInv, InRevocation, At, Tokens, Sessions
  <2> QED
    BY <1>1, <2>1, <2>2
<1>2. CASE SessionTick
  BY <1>1, <1>2 DEF SessionTick, SessionTypeOK, historyVars
<1>3. CASE UNCHANGED sessionVars
  BY <1>1, <1>3 DEF sessionVars, historyVars, SessionTypeOK
<1>4. ASSUME NEW c \in Call, CallStep(c)
      PROVE  SessionInv'
  <2>1. SessionTypeOK'
    BY <1>4, TypeStep
  <2>2. Footprint(c)
    BY <1>4, StepFootprint
  <2>3. WriterInv'
    BY <2>2 DEF Footprint, WriterInv, At
  <2>4. \A d \in Call : RevocationInv(d)'
    BY <2>2, RevocationBeside, RevocationItself
  <2> QED
    BY <2>1, <2>3, <2>4
<1> QED
  BY <1>2, <1>3, <1>4 DEF SessionNext

\* Sessions, calls and the tokens they hold stay well formed, however logins,
\* resolutions and revocations of session.ts interleave.
THEOREM SessionTypeCorrect == SessionSpec => []SessionTypeOK
<1>1. SessionInv => SessionTypeOK
  BY DEF SessionInv
<1> QED
  BY <1>1, SessionInvInit, SessionInvNext, PTL DEF SessionSpec

\* When revokeAll() has done its last delete, any session that is left belongs
\* to a call that ran beside it: a login, a rotation or a touch.
THEOREM RevokeAllComplete == SessionSpec => RevokeAllIsComplete
<1>1. ASSUME SessionInv, NEW c \in Call, RevokeOne(c), At(c, "idle")'
      PROVE  Sessions' \subseteq overlap[c]
  <2>1. SessionTypeOK /\ RevocationInv(c)
    BY <1>1 DEF SessionInv
  <2>2. PICK t \in call[c].doomed :
            /\ store' = [store EXCEPT ![t] = NoSession]
            /\ IF call[c].doomed = {t} THEN EndAll(c)
               ELSE Become(c, Revoking(call[c].doomed \ {t})) /\ UNCHANGED overlap
    BY <1>1 DEF RevokeOne
  <2>3. call[c].doomed = {t}
    BY <1>1, <2>1, <2>2 DEF SessionTypeOK, Become, Revoking, CallAt, At
  <2>4. Sessions \subseteq {t} \cup overlap[c]
    BY <1>1, <2>1, <2>3 DEF RevokeOne, RevocationInv
  <2>5. Sessions' \subseteq Sessions \ {t}
    BY <2>1, <2>2 DEF SessionTypeOK, Sessions
  <2> QED
    BY <2>4, <2>5
<1>2. SessionInv /\ [SessionNext]_sessionVars
          => [\A c \in Call : (RevokeOne(c) /\ At(c, "idle")')
                                => Sessions' \subseteq overlap[c]]_sessionVars
  BY <1>1
<1> QED
  BY <1>2, SessionInvInit, SessionInvNext, PTL DEF SessionSpec, RevokeAllIsComplete

------------------------------------------------------------------------------
(* The cap.                                                                *)

\* What counts against the cap: the sessions that were not written back and that
\* no eviction is going to delete.
Counted ==
    {t \in Sessions : /\ t \notin revived
                      /\ \A d \in Call : At(d, "evicting") => t \notin call[d].doomed}

CapInv ==
    /\ IsFiniteSet(Sessions)
    /\ (~cutShort /\ \A d \in Call : ~At(d, "limit")) => Cardinality(Counted) <= MaxSessions

LEMMA SubsetIsSmaller ==
    ASSUME NEW S, IsFiniteSet(S), NEW T, T \subseteq S
    PROVE  /\ IsFiniteSet(T) /\ Cardinality(T) \in Nat /\ Cardinality(S) \in Nat
           /\ Cardinality(T) <= Cardinality(S)
  BY FS_Subset, FS_CardinalityType

\* One more element is at most one more to count.
LEMMA OneMore ==
    ASSUME NEW S, NEW x, IsFiniteSet(S), Cardinality(S) \in Nat
    PROVE  IsFiniteSet(S \cup {x}) /\ Cardinality(S \cup {x}) <= Cardinality(S) + 1
<1>1. /\ IsFiniteSet(S \cup {x})
      /\ Cardinality(S \cup {x}) = IF x \in S THEN Cardinality(S) ELSE Cardinality(S) + 1
  BY FS_AddElement
<1> QED
  BY <1>1

LEMMA CapInvInit == SessionInit => CapInv
<1> SUFFICES ASSUME SessionInit
             PROVE  CapInv
  OBVIOUS
<1>1. Sessions = {}
  BY DEF SessionInit, Sessions
<1>2. Counted = {}
  BY <1>1 DEF Counted
<1> QED
  BY <1>1, <1>2, FS_EmptySet, SessionAssumption DEF CapInv

\* The user's sessions are a finite set: a step adds at most the tokens in a
\* call's hands.
LEMMA SessionsFinite ==
    ASSUME SessionTypeOK, NEW c \in Call, Footprint(c), IsFiniteSet(Sessions)
    PROVE  IsFiniteSet(Sessions')
<1>1. IsFiniteSet({call[c].token} \cup {call[c].drawn})
  BY FS_Singleton, FS_Union
<1>2. IsFiniteSet(Sessions \cup ({call[c].token} \cup {call[c].drawn}))
  BY <1>1, FS_Union
<1>3. Sessions' \subseteq Sessions \cup ({call[c].token} \cup {call[c].drawn})
  BY DEF Footprint, Tokens
<1> QED
  BY <1>2, <1>3, SubsetIsSmaller

\* After eviction at most the cap of the rows are left.
LEMMA ExcessLeavesFew ==
    ASSUME NEW rows, IsFiniteSet(rows), NEW at, NEW n \in Nat, NEW gone \in Excess(rows, at, n)
    PROVE  /\ gone \subseteq rows
           /\ IsFiniteSet(rows \ gone) /\ Cardinality(rows \ gone) \in Nat
           /\ Cardinality(rows \ gone) <= n
<1>1. /\ gone \subseteq rows
      /\ Cardinality(rows \ gone) = IF Cardinality(rows) < n THEN Cardinality(rows) ELSE n
  BY DEF Excess
<1>2. Cardinality(rows) \in Nat
  BY FS_CardinalityType
<1>3. IsFiniteSet(rows \ gone) /\ Cardinality(rows \ gone) \in Nat
  BY SubsetIsSmaller
<1> QED
  BY <1>1, <1>2, <1>3

\* A step that adds nothing to what counts, and leaves nobody short of the list.
LEMMA CountedShrinks ==
    ASSUME CapInv, ~cutShort, \A d \in Call : ~At(d, "limit"), Counted' \subseteq Counted
    PROVE  Cardinality(Counted') <= MaxSessions
<1>1. IsFiniteSet(Counted)
  BY SubsetIsSmaller DEF CapInv, Counted
<1>2. /\ Cardinality(Counted') \in Nat /\ Cardinality(Counted) \in Nat
      /\ Cardinality(Counted') <= Cardinality(Counted)
  BY <1>1, SubsetIsSmaller
<1> QED
  BY <1>2, SessionAssumption DEF CapInv

\* A call that was not evicting, and is not now, and stores nothing new.
LEMMA CountsNoMore ==
    ASSUME SessionTypeOK, NEW c \in Call, Footprint(c), ~At(c, "evicting"),
           revived \subseteq revived', Sessions' \subseteq Sessions \cup revived'
    PROVE  Counted' \subseteq Counted
<1> SUFFICES ASSUME NEW t \in Counted'
             PROVE  t \in Counted
  OBVIOUS
<1>1. t \in Sessions' /\ t \notin revived'
  BY DEF Counted
<1>2. t \in Sessions /\ t \notin revived
  BY <1>1
<1>3. ASSUME NEW d \in Call, At(d, "evicting")
      PROVE  t \notin call[d].doomed
  <2>1. d # c
    BY <1>3
  <2>2. call'[d] = call[d]
    BY <2>1 DEF Footprint
  <2> QED
    BY <1>3, <2>2 DEF Counted, At
<1> QED
  BY <1>2, <1>3 DEF Counted

\* Every step of a call keeps the cap.
LEMMA CapStep ==
    ASSUME SessionTypeOK, WriterInv, CapInv, NEW c \in Call, CallStep(c)
    PROVE  CapInv'
<1> USE DEF historyVars
<1>1. Footprint(c)
  BY StepFootprint
<1>2. IsFiniteSet(Sessions) /\ IsFiniteSet(Sessions')
  BY <1>1, SessionsFinite DEF CapInv
<1> SUFFICES ASSUME ~cutShort', \A d \in Call : ~At(d, "limit")'
             PROVE  Cardinality(Counted') <= MaxSessions
  BY <1>2 DEF CapInv
<1>3. /\ \A d \in Call \ {c} : call'[d] = call[d] /\ ~At(d, "limit")
      /\ cutShort' = cutShort \/ Fail(c)
  BY <1>1 DEF Footprint, At, CallStep, Login, CreateAtomically, CreateBySet, ListForLimit, Evict,
     FindLapsed, Rotate, ReadForTouch, Revoke, Touch, Delete, RevokeAll, ListForRevocation, RevokeOne
<1>4. ASSUME ~At(c, "limit"), ~At(c, "evicting"), cutShort' = cutShort,
             revived \subseteq revived', Sessions' \subseteq Sessions \cup revived'
      PROVE  Cardinality(Counted') <= MaxSessions
  <2>1. Counted' \subseteq Counted
    BY <1>1, <1>4, CountsNoMore
  <2>2. ~cutShort /\ \A d \in Call : ~At(d, "limit")
    BY <1>3, <1>4
  <2> QED
    BY <2>1, <2>2, CountedShrinks
<1>5. /\ store' = store => Sessions' = Sessions
      /\ store \in [Token -> Session]
  BY DEF Sessions, SessionTypeOK
<1>6. CASE CreateAtomically(c)
  <2> DEFINE with == [store EXCEPT ![call[c].drawn] = call[c].draft]
             rows == Sessions \cup {call[c].drawn}
  <2>1. PICK gone \in Excess(rows, with, MaxSessions) :
            store' = [t \in Token |-> IF t \in gone THEN NoSession ELSE with[t]]
    BY <1>6 DEF CreateAtomically
  <2>2. IsFiniteSet(rows)
    BY <1>2, FS_Singleton, FS_Union
  <2> HIDE DEF rows
  <2>3. /\ IsFiniteSet(rows \ gone) /\ Cardinality(rows \ gone) \in Nat
        /\ Cardinality(rows \ gone) <= MaxSessions
    BY <2>2, ExcessLeavesFew, SessionAssumption
  <2>4. Counted' \subseteq rows \ gone
    BY <2>1, <1>5 DEF Counted, Sessions, rows
  <2> QED
    BY <2>3, <2>4, SubsetIsSmaller, SessionAssumption
<1>7. CASE CreateBySet(c)
  <2>1. At(c, "limit")'
    BY <1>7 DEF CreateBySet, Become, CallAt, At, SessionTypeOK
  <2> QED
    BY <2>1
<1>8. CASE ListForLimit(c)
  <2> DEFINE own == call[c].drawn
             rows == Sessions \ {own}
  <2>1. PICK gone \in Excess(rows, store, MaxSessions - 1) :
            IF gone = {} THEN AfterCreate(c) ELSE Become(c, Evicting(c, gone))
    BY <1>8 DEF ListForLimit
  <2>2. IsFiniteSet(rows)
    BY <1>2, SubsetIsSmaller
  <2> HIDE DEF rows
  <2>3. /\ IsFiniteSet(rows \ gone) /\ Cardinality(rows \ gone) \in Nat
        /\ Cardinality(rows \ gone) <= MaxSessions - 1
    BY <2>2, ExcessLeavesFew, SessionAssumption
  <2>4. /\ IsFiniteSet((rows \ gone) \cup {own})
        /\ Cardinality((rows \ gone) \cup {own}) <= Cardinality(rows \ gone) + 1
    <3> DEFINE kept == rows \ gone
    <3>1. IsFiniteSet(kept) /\ Cardinality(kept) \in Nat
      BY <2>3
    <3> HIDE DEF kept
    <3>2. IsFiniteSet(kept \cup {own}) /\ Cardinality(kept \cup {own}) <= Cardinality(kept) + 1
      BY <3>1, OneMore
    <3> QED
      BY <3>2 DEF kept
  <2>5. Counted' \subseteq (rows \ gone) \cup {own}
    <3>1. Counted' \subseteq Sessions
      BY <1>5, <1>8 DEF Counted, ListForLimit
    <3>2. CASE gone = {}
      BY <3>1, <3>2 DEF rows
    <3>3. CASE gone # {}
      <4>1. At(c, "evicting")' /\ call'[c].doomed = gone
        BY <2>1, <3>3 DEF Become, Evicting, CallAt, At, SessionTypeOK
      <4> QED
        BY <3>1, <4>1 DEF Counted, rows
    <3> QED
      BY <3>2, <3>3
  <2>6. /\ Cardinality(Counted') \in Nat /\ Cardinality((rows \ gone) \cup {own}) \in Nat
        /\ Cardinality(Counted') <= Cardinality((rows \ gone) \cup {own})
    BY <2>4, <2>5, SubsetIsSmaller
  <2> QED
    BY <2>3, <2>4, <2>6, SessionAssumption
<1>9. CASE Evict(c)
  <2>1. PICK t \in call[c].doomed :
            /\ store' = [store EXCEPT ![t] = NoSession]
            /\ IF call[c].doomed = {t} THEN AfterCreate(c)
               ELSE Become(c, Evicting(c, call[c].doomed \ {t}))
    BY <1>9 DEF Evict
  <2>2. Sessions' \subseteq Sessions \ {t} /\ revived' = revived /\ cutShort' = cutShort
    BY <1>5, <1>9, <2>1 DEF Evict, Sessions
  <2>3. \/ call[c].doomed = {t}
        \/ At(c, "evicting")' /\ call'[c].doomed = call[c].doomed \ {t}
    BY <2>1 DEF Become, Evicting, CallAt, At, SessionTypeOK
  <2>4. ASSUME NEW s \in Counted'
        PROVE  s \in Counted
    <3>1. s \in Sessions /\ s # t /\ s \notin revived
      BY <2>2, <2>4 DEF Counted
    <3>2. s \notin call[c].doomed
      BY <2>3, <2>4, <3>1 DEF Counted
    <3>3. \A d \in Call : At(d, "evicting") => s \notin call[d].doomed
      BY <1>3, <2>4, <3>2 DEF Counted, At
    <3> QED
      BY <3>1, <3>3 DEF Counted
  <2>5. ~cutShort /\ \A d \in Call : ~At(d, "limit")
    BY <1>3, <1>9, <2>2 DEF Evict, At
  <2> QED
    BY <2>4, <2>5, CountedShrinks
<1>10. CASE Touch(c)
  <2>1. Sessions' \subseteq Sessions \cup revived' /\ revived \subseteq revived'
    BY <1>5, <1>10 DEF Touch, Sessions
  <2> QED
    BY <1>4, <1>10, <2>1 DEF Touch, At
<1>11. CASE Fail(c)
  <2>1. cutShort' = (cutShort \/ At(c, "limit") \/ At(c, "evicting"))
        /\ UNCHANGED <<store, revived>>
    BY <1>11 DEF Fail
  <2>2. ~cutShort /\ ~At(c, "limit") /\ ~At(c, "evicting")
    BY <2>1
  <2>3. cutShort' = cutShort
    BY <2>1, <2>2 DEF SessionTypeOK
  <2> QED
    BY <1>4, <1>5, <2>1, <2>2, <2>3
<1>12. CASE Delete(c) \/ RevokeOne(c)
  <2>1. Sessions' \subseteq Sessions
    BY <1>5, <1>12 DEF Delete, RevokeOne, Sessions
  <2> QED
    BY <1>4, <1>12, <2>1 DEF Delete, RevokeOne, At
<1>13. CASE \/ Login(c) \/ RevokeAll(c) \/ ListForRevocation(c)
            \/ \E t \in Token : FindLapsed(c, t) \/ Rotate(c, t) \/ ReadForTouch(c, t) \/ Revoke(c, t)
  <2>1. /\ At(c, "idle") \/ At(c, "listing")
        /\ UNCHANGED <<store, revived, cutShort>>
    BY <1>13 DEF Login, RevokeAll, ListForRevocation, FindLapsed, Rotate, ReadForTouch, Revoke
  <2> QED
    BY <1>4, <1>5, <2>1 DEF At
<1> QED
  BY <1>6, <1>7, <1>8, <1>9, <1>10, <1>11, <1>12, <1>13 DEF CallStep

\* maximumSessionsPerUser (session.ts): any number of logins and rotations at
\* once, on either kind of store, leave no more sessions than the cap, once their
\* evictions are done, but for those a resolve() wrote back.
THEOREM CapIsKept == SessionSpec => []CapHolds
<1>1. SessionInv /\ CapInv /\ [SessionNext]_sessionVars => CapInv'
  <2> SUFFICES ASSUME SessionInv, CapInv, [SessionNext]_sessionVars
               PROVE  CapInv'
    OBVIOUS
  <2>1. ASSUME NEW c \in Call, CallStep(c)
        PROVE  CapInv'
    BY <2>1, CapStep DEF SessionInv
  <2>2. CASE UNCHANGED <<store, call, revived, cutShort>>
    BY <2>2 DEF CapInv, Counted, Sessions, At
  <2> QED
    BY <2>1, <2>2 DEF SessionNext, SessionTick, sessionVars, historyVars
<1>2. CapInv => CapHolds
  <2> SUFFICES ASSUME CapInv, ~cutShort, \A c \in Call : ~At(c, "limit") /\ ~At(c, "evicting")
               PROVE  Cardinality(Sessions \ revived) <= MaxSessions
    BY DEF CapHolds
  <2>1. Counted = Sessions \ revived
    BY DEF Counted
  <2> QED
    BY <2>1 DEF CapInv
<1> QED
  BY <1>1, <1>2, CapInvInit, SessionInvInit, SessionInvNext, PTL DEF SessionSpec

------------------------------------------------------------------------------
(* Eviction and rotation never log a user out.                             *)

\* What SomeSessionSurvives supposes of the past.
Undisturbed == atomicCreate /\ ~ended /\ revived = {}

\* A record was last seen before it was due for rotation.
SeenInTime(s) ==
    s.lastSeen < s.rotateAfter /\ s.rotateAfter <= s.lastSeen + RotateEvery /\ s.lastSeen <= clock

\* s was created when t was already due for rotation.
Successor(s, t) == store[t].rotateAfter + RotateEvery <= store[s].rotateAfter

TokensKnown(c) ==
    /\ call[c].token # NoToken => call[c].token \in issued
    /\ call[c].doomed \subseteq issued
    /\ At(c, "insert") =>
         /\ call[c].drawn \in issued \ Sessions
         /\ \A d \in Call : /\ call[d].token # call[c].drawn /\ call[c].drawn \notin call[d].doomed
                            /\ d # c /\ At(d, "insert") => call[d].drawn # call[c].drawn

\* The record a call is going to write is newer than the session it replaces, or
\* is that of the session it touches.
DraftOK(c) ==
    /\ At(c, "insert") =>
         /\ SeenInTime(call[c].draft)
         /\ call[c].token \in Sessions =>
               store[call[c].token].rotateAfter + RotateEvery <= call[c].draft.rotateAfter
    /\ At(c, "touch") =>
         /\ SeenInTime(call[c].draft)
         /\ call[c].token \in Sessions =>
               call[c].draft.rotateAfter = store[call[c].token].rotateAfter

\* Only rotations delete, one session each, and that one has a successor for as
\* long as it is there.
DeletionOK(c) ==
    /\ call[c].pc \in {"idle", "insert", "touch", "deleting"}
    /\ At(c, "deleting") =>
         \E t \in Token : /\ call[c].doomed = {t}
                          /\ t \in Sessions => \E s \in Sessions : Successor(s, t)

Surviving ==
    /\ Sessions \subseteq issued
    /\ \A t \in Sessions : SeenInTime(store[t])
    /\ \A c \in Call : TokensKnown(c) /\ DraftOK(c) /\ DeletionOK(c)
    /\ loggedIn => Sessions # {}

SurvivalInv == Undisturbed => Surviving

LEMMA SurvivalInit == SessionInit => SurvivalInv
<1> SUFFICES ASSUME SessionInit
             PROVE  Surviving
  BY DEF SurvivalInv
<1>1. Sessions = {} /\ ~loggedIn
  BY DEF SessionInit, Sessions
<1>2. \A c \in Call : call[c].pc = "idle" /\ call[c].token = NoToken /\ call[c].doomed = {}
  BY DEF SessionInit, Idle, CallAt
<1> QED
  BY <1>1, <1>2 DEF Surviving, TokensKnown, DraftOK, DeletionOK, At

\* A call that begins, or fails, leaves the store alone.
LEMMA BeginningKeeps ==
    ASSUME SessionTypeOK, Surviving, NEW c \in Call, NEW state, Become(c, state),
           UNCHANGED <<clock, store, loggedIn>>, issued \subseteq issued',
           state.pc \in {"idle", "insert", "touch"},
           state.token # NoToken => state.token \in issued,
           state.token \in Token => state.token \in Sessions,
           state.doomed = {},
           state.pc = "insert" =>
               /\ state.drawn \in (Token \ issued) \cap issued'
               /\ SeenInTime(state.draft)
               /\ state.token \in Sessions =>
                     store[state.token].rotateAfter + RotateEvery <= state.draft.rotateAfter,
           state.pc = "touch" =>
               /\ SeenInTime(state.draft)
               /\ state.token \in Sessions => state.draft.rotateAfter = store[state.token].rotateAfter
    PROVE  Surviving'
<1>1. /\ call'[c] = state
      /\ \A d \in Call \ {c} : call'[d] = call[d]
      /\ Sessions' = Sessions
      /\ \A s, t : Successor(s, t)' <=> Successor(s, t)
      /\ \A s : SeenInTime(s)' <=> SeenInTime(s)
  BY DEF SessionTypeOK, Become, Sessions, Successor, SeenInTime
<1>2. Sessions \subseteq issued /\ NoToken \notin issued
  BY SessionAssumption DEF Surviving, SessionTypeOK
<1>3. \A d \in Call : TokensKnown(d) /\ DraftOK(d) /\ DeletionOK(d)
  BY DEF Surviving
<1>4. ASSUME NEW d \in Call
      PROVE  TokensKnown(d)'
  <2>1. CASE d = c
    <3>1. ASSUME state.pc = "insert", NEW e \in Call
          PROVE  /\ call'[e].token # state.drawn /\ state.drawn \notin call'[e].doomed
                 /\ e # c /\ At(e, "insert")' => call'[e].drawn # state.drawn
      <4>1. state.drawn \in Token /\ state.drawn \notin issued /\ state.drawn # NoToken
        BY <3>1, SessionAssumption
      <4>2. CASE e = c
        BY <1>1, <4>1, <4>2
      <4>3. CASE e # c
        BY <1>1, <1>3, <4>1, <4>3 DEF TokensKnown, At
      <4> QED
        BY <4>2, <4>3
    <3> QED
      BY <1>1, <1>2, <2>1, <3>1 DEF TokensKnown, At
  <2>2. CASE d # c
    <3>1. ASSUME At(d, "insert"), NEW e \in Call
          PROVE  /\ call'[e].token # call[d].drawn /\ call[d].drawn \notin call'[e].doomed
                 /\ e # d /\ At(e, "insert")' => call'[e].drawn # call[d].drawn
      <4>1. call[d].drawn \in issued \ Sessions
        BY <1>3, <3>1 DEF TokensKnown
      <4>2. CASE e = c
        BY <1>1, <1>2, <2>2, <4>1, <4>2 DEF At, SessionTypeOK
      <4>3. CASE e # c
        BY <1>1, <1>3, <3>1, <4>3 DEF TokensKnown, At
      <4> QED
        BY <4>2, <4>3
    <3>2. At(d, "insert")' <=> At(d, "insert")
      BY <1>1, <2>2 DEF At
    <3> QED
      BY <1>1, <1>3, <2>2, <3>1, <3>2 DEF TokensKnown
  <2> QED
    BY <2>1, <2>2
<1>5. ASSUME NEW d \in Call
      PROVE  DraftOK(d)' /\ DeletionOK(d)'
  <2>1. CASE d = c
    BY <1>1, <2>1 DEF DraftOK, DeletionOK, At
  <2>2. CASE d # c
    BY <1>1, <1>3, <2>2 DEF DraftOK, DeletionOK, At
  <2> QED
    BY <2>1, <2>2
<1> QED
  BY <1>1, <1>2, <1>4, <1>5 DEF Surviving

\* create() keeps the most recently seen: with a session it keeps its successor.
LEMMA CreationKeeps ==
    ASSUME SessionTypeOK, WriterInv, CapInv, Surviving, NEW c \in Call, CreateAtomically(c)
    PROVE  Surviving'
<1> DEFINE own == call[c].drawn
           old == call[c].token
           with == [store EXCEPT ![own] = call[c].draft]
           rows == Sessions \cup {own}
<1>1. PICK gone \in Excess(rows, with, MaxSessions) :
          store' = [t \in Token |-> IF t \in gone THEN NoSession ELSE with[t]]
  BY DEF CreateAtomically
<1>2. /\ own \in Token /\ own \in issued /\ own \notin Sessions
      /\ TokensKnown(c) /\ DraftOK(c) /\ At(c, "insert")
  BY DEF CreateAtomically, WriterInv, Surviving, TokensKnown
<1>3. /\ gone \subseteq rows
      /\ \A g \in gone, k \in rows \ gone : with[g].lastSeen <= with[k].lastSeen
      /\ Cardinality(rows \ gone) = IF Cardinality(rows) < MaxSessions THEN Cardinality(rows) ELSE MaxSessions
  BY DEF Excess
<1>4. rows \ gone # {}
  <2>1. IsFiniteSet(rows) /\ rows # {}
    BY FS_Singleton, FS_Union DEF CapInv
  <2>2. Cardinality(rows) \in Nat /\ Cardinality(rows) # 0
    BY <2>1, FS_CardinalityType, FS_EmptySet
  <2>3. Cardinality(rows \ gone) # 0
    BY <1>3, <2>2, SessionAssumption
  <2> QED
    BY <2>3, FS_EmptySet
<1>5. /\ \A t \in Token : with[t] = IF t = own THEN call[c].draft ELSE store[t]
      /\ SeenInTime(call[c].draft) /\ call[c].draft \in Session
      /\ \A t \in rows : SeenInTime(with[t]) /\ with[t] \in Session /\ t \in Token
  BY <1>2 DEF SessionTypeOK, CallState, DraftOK, Surviving, Sessions
<1> HIDE DEF with
<1>6. \A t \in rows : with[t] # NoSession
  BY <1>5 DEF SeenInTime, NoSession
<1>7. /\ \A t \in rows \ gone : store'[t] = with[t]
      /\ Sessions' = rows \ gone
  <2>1. \A t \in Token : store'[t] = IF t \in gone THEN NoSession ELSE with[t]
    BY <1>1
  <2>2. \A t \in Token \ rows : with[t] = NoSession
    BY <1>5 DEF Sessions
  <2> QED
    BY <1>3, <1>5, <1>6, <2>1, <2>2 DEF Sessions
\* Of two rows the one created after the other was due is kept if the other is.
<1>8. ASSUME NEW t \in rows \ gone, NEW s \in rows,
             with[t].rotateAfter + RotateEvery <= with[s].rotateAfter
      PROVE  s \in Sessions' /\ Successor(s, t)'
  <2>1. with[t].lastSeen < with[s].lastSeen
    BY <1>5, <1>8, SessionAssumption DEF SeenInTime, Session
  <2>2. s \notin gone
    BY <1>3, <1>5, <2>1 DEF Session
  <2> QED
    BY <1>7, <1>8, <2>2 DEF Successor
<1>9. /\ \A d \in Call \ {c} : call'[d] = call[d]
      /\ \/ call'[c] = Idle /\ old = NoToken
         \/ call'[c] = Deleting({old}) /\ old # NoToken
      /\ UNCHANGED <<clock, issued>>
  BY DEF CreateAtomically, AfterCreate, End, Become, SessionTypeOK
<1>10. /\ Idle.pc = "idle" /\ Idle.token = NoToken /\ Idle.doomed = {}
       /\ Deleting({old}).pc = "deleting" /\ Deleting({old}).token = NoToken
       /\ Deleting({old}).doomed = {old}
  BY DEF Idle, Deleting, CallAt
<1>11. \A d \in Call : TokensKnown(d) /\ DraftOK(d) /\ DeletionOK(d)
  BY DEF Surviving
<1>12. Sessions' \subseteq issued' /\ \A t \in Sessions' : SeenInTime(store[t])'
  BY <1>2, <1>5, <1>7, <1>9 DEF Surviving, SeenInTime
<1>13. ASSUME NEW d \in Call \ {c}
       PROVE  TokensKnown(d)' /\ DraftOK(d)' /\ DeletionOK(d)'
  <2>1. /\ call'[d] = call[d] /\ TokensKnown(d) /\ DraftOK(d) /\ DeletionOK(d)
        /\ call[d].token # own /\ own \notin call[d].doomed
        /\ At(d, "insert") => call[d].drawn # own
    BY <1>2, <1>9, <1>11 DEF TokensKnown
  <2>2. TokensKnown(d)'
    <3>1. At(d, "insert") => call[d].drawn \notin Sessions'
      BY <1>7, <2>1 DEF TokensKnown
    <3>2. ASSUME At(d, "insert"), NEW e \in Call
          PROVE  /\ call'[e].token # call[d].drawn /\ call[d].drawn \notin call'[e].doomed
                 /\ e # d /\ At(e, "insert")' => call'[e].drawn # call[d].drawn
      <4>1. /\ call[d].drawn # NoToken /\ call[d].drawn # old
            /\ call[e].token # call[d].drawn /\ call[d].drawn \notin call[e].doomed
            /\ e # d /\ At(e, "insert") => call[e].drawn # call[d].drawn
        BY <2>1, <3>2, SessionAssumption DEF TokensKnown, SessionTypeOK
      <4> QED
        BY <1>9, <1>10, <4>1 DEF At
    <3> QED
      BY <1>9, <2>1, <3>1, <3>2 DEF TokensKnown, At
  <2>3. \A t \in Sessions' : t # own => t \in Sessions /\ store'[t] = store[t]
    BY <1>5, <1>7
  <2>4. DraftOK(d)'
    BY <1>9, <2>1, <2>3 DEF DraftOK, At, SeenInTime
  <2>5. DeletionOK(d)'
    <3>1. ASSUME NEW t \in Token, call[d].doomed = {t}, t \in Sessions',
                 NEW s \in Sessions, Successor(s, t)
          PROVE  \E r \in Sessions' : Successor(r, t)'
      <4>1. t # own /\ t \in rows \ gone /\ s \in rows /\ s # own
        BY <1>2, <1>7, <2>1, <3>1
      <4>2. with[t].rotateAfter + RotateEvery <= with[s].rotateAfter
        BY <1>5, <3>1, <4>1 DEF Successor
      <4> QED
        BY <1>8, <4>1, <4>2
    <3>2. \A t \in Token : call[d].doomed = {t} /\ t \in Sessions' => t \in Sessions
      BY <2>1, <2>3
    <3> QED
      BY <2>1, <3>1, <3>2 DEF DeletionOK, At
  <2> QED
    BY <2>2, <2>4, <2>5
<1>14. TokensKnown(c)' /\ DraftOK(c)' /\ DeletionOK(c)'
  <2>1. CASE call'[c] = Idle
    BY <1>10, <2>1 DEF TokensKnown, DraftOK, DeletionOK, At
  <2>2. CASE call'[c] = Deleting({old}) /\ old # NoToken
    <3>1. PICK o, w : o = old /\ w = own
      OBVIOUS
    <3>2. o \in Token /\ o \in issued /\ o # w
      BY <1>2, <2>2, <3>1 DEF SessionTypeOK, CallState, TokensKnown
    <3>3. ASSUME o \in Sessions'
          PROVE  \E s \in Sessions' : Successor(s, o)'
      <4>1. o \in rows \ gone /\ w \in rows /\ o \in Sessions
        BY <1>7, <3>1, <3>2, <3>3
      <4>2. with[o].rotateAfter + RotateEvery <= with[w].rotateAfter
        BY <1>2, <1>5, <3>1, <3>2, <4>1 DEF DraftOK
      <4>3. w \in Sessions' /\ Successor(w, o)'
        BY <1>8, <4>1, <4>2
      <4> QED
        BY <4>3
    <3>4. call'[c].pc = "deleting" /\ call'[c].token = NoToken /\ call'[c].doomed = {o}
      BY <1>10, <2>2, <3>1
    <3>5. TokensKnown(c)'
      BY <1>9, <3>2, <3>4 DEF TokensKnown, At
    <3>6. DraftOK(c)'
      BY <3>4 DEF DraftOK, At
    <3>7. DeletionOK(c)'
      BY <3>2, <3>3, <3>4 DEF DeletionOK, At
    <3> QED
      BY <3>5, <3>6, <3>7
  <2> QED
    BY <1>9, <2>1, <2>2
<1> QED
  BY <1>4, <1>7, <1>12, <1>13, <1>14 DEF Surviving

\* A touch writes the record it read, seen later, of a session that is there.
LEMMA TouchKeeps ==
    ASSUME SessionTypeOK, WriterInv, Surviving, NEW c \in Call, Touch(c), revived' = {}
    PROVE  Surviving'
<1> DEFINE t == call[c].token
<1>1. t \in Token /\ t \in Sessions /\ At(c, "touch")
  BY DEF Touch, WriterInv, Sessions
<1>2. /\ SeenInTime(call[c].draft) /\ call[c].draft.rotateAfter = store[t].rotateAfter
      /\ call[c].draft \in Session
  BY <1>1 DEF Surviving, DraftOK, SessionTypeOK, CallState
<1>3. /\ store'[t] = call[c].draft
      /\ \A s \in Token \ {t} : store'[s] = store[s]
      /\ call'[c] = Idle /\ \A d \in Call \ {c} : call'[d] = call[d]
      /\ UNCHANGED <<clock, issued, loggedIn>>
  BY <1>1 DEF Touch, End, Become, SessionTypeOK
<1>4. Sessions' = Sessions
  BY <1>1, <1>2, <1>3 DEF Sessions, SeenInTime, NoSession
<1>5. \A s \in Token : store'[s].rotateAfter = store[s].rotateAfter
  BY <1>2, <1>3
<1>6. /\ \A s, r \in Token : Successor(s, r)' <=> Successor(s, r)
      /\ \A s : SeenInTime(s)' <=> SeenInTime(s)
  BY <1>3, <1>5 DEF Successor, SeenInTime
<1>7. Idle.pc = "idle" /\ Idle.token = NoToken /\ Idle.doomed = {}
  BY DEF Idle, CallAt
<1>8. \A s \in Sessions' : SeenInTime(store[s])'
  <2>1. \A s \in Sessions : SeenInTime(store'[s])
    BY <1>2, <1>3 DEF Surviving, Sessions
  <2> QED
    BY <1>3, <1>4, <2>1 DEF SeenInTime
<1>9. ASSUME NEW d \in Call
      PROVE  TokensKnown(d)'
  <2>1. TokensKnown(d) /\ (At(d, "insert")' => At(d, "insert") /\ call'[d] = call[d])
    BY <1>3, <1>7 DEF Surviving, At
  <2>2. \A e \in Call : \/ call'[e] = call[e]
                        \/ call'[e] = Idle
    BY <1>3
  <2>3. At(d, "insert") => call[d].drawn # NoToken
    BY SessionAssumption DEF WriterInv
  <2> QED
    BY <1>3, <1>4, <1>7, <2>1, <2>2, <2>3 DEF TokensKnown, At
<1>10. ASSUME NEW d \in Call
       PROVE  DraftOK(d)' /\ DeletionOK(d)'
  <2>1. DraftOK(d) /\ DeletionOK(d) /\ (call'[d] = call[d] \/ call'[d] = Idle)
    BY <1>3 DEF Surviving
  <2>2. call[d].token \in Sessions => store'[call[d].token].rotateAfter = store[call[d].token].rotateAfter
    BY <1>5 DEF Sessions
  <2>3. DraftOK(d)'
    BY <1>4, <1>6, <1>7, <2>1, <2>2 DEF DraftOK, At
  <2>4. DeletionOK(d)'
    BY <1>4, <1>6, <1>7, <2>1 DEF DeletionOK, At, Sessions
  <2> QED
    BY <2>3, <2>4
<1> QED
  BY <1>3, <1>4, <1>8, <1>9, <1>10 DEF Surviving

\* A delete leaves the successor of what it deletes, which is also a successor of
\* whatever that one succeeded.
LEMMA DeletionKeeps ==
    ASSUME SessionTypeOK, WriterInv, Surviving, NEW c \in Call, Delete(c)
    PROVE  Surviving'
<1>1. PICK t \in Token : /\ call[c].doomed = {t}
                         /\ t \in Sessions => \E s \in Sessions : Successor(s, t)
  BY DEF Surviving, DeletionOK, Delete
<1>2. /\ \A s \in Token : store'[s] = IF s = t THEN NoSession ELSE store[s]
      /\ call'[c] = Idle /\ \A d \in Call \ {c} : call'[d] = call[d]
      /\ UNCHANGED <<clock, issued, loggedIn>>
  BY <1>1 DEF Delete, End, Become, SessionTypeOK, historyVars
<1>3. Sessions' = Sessions \ {t}
  BY <1>2 DEF Sessions
<1>4. \A s \in Sessions : store[s].rotateAfter \in Nat /\ s \in Token
  BY DEF Sessions, SessionTypeOK, Session
<1>5. \A s, r \in Sessions' : Successor(s, r)' <=> Successor(s, r)
  BY <1>2, <1>3 DEF Successor, Sessions
\* Whoever has a successor has one that stays.
<1>6. ASSUME NEW r \in Sessions, NEW s \in Sessions, Successor(s, r)
      PROVE  \E q \in Sessions' : Successor(q, r)
  <2>1. CASE s # t
    BY <1>3, <1>6, <2>1
  <2>2. CASE s = t
    <3>1. PICK q \in Sessions : Successor(q, t)
      BY <1>1, <2>2
    <3>2. q # t /\ Successor(q, r)
      BY <1>4, <1>6, <2>2, <3>1, SessionAssumption DEF Successor
    <3> QED
      BY <1>3, <3>1, <3>2
  <2> QED
    BY <2>1, <2>2
<1>7. Idle.pc = "idle" /\ Idle.token = NoToken /\ Idle.doomed = {}
  BY DEF Idle, CallAt
<1>8. /\ \A s : SeenInTime(s)' <=> SeenInTime(s)
      /\ \A s \in Sessions' : s \in Sessions /\ s \in Token /\ store'[s] = store[s]
  BY <1>2, <1>3, <1>4 DEF SeenInTime
<1>9. ASSUME NEW d \in Call
      PROVE  TokensKnown(d)'
  <2>1. TokensKnown(d) /\ (At(d, "insert")' => At(d, "insert") /\ call'[d] = call[d])
    BY <1>2, <1>7 DEF Surviving, At
  <2>2. \A e \in Call : \/ call'[e] = call[e]
                        \/ call'[e] = Idle
    BY <1>2
  <2>3. At(d, "insert") => call[d].drawn # NoToken
    BY SessionAssumption DEF WriterInv
  <2> QED
    BY <1>2, <1>3, <1>7, <2>1, <2>2, <2>3 DEF TokensKnown, At
<1>10. ASSUME NEW d \in Call
       PROVE  DraftOK(d)' /\ DeletionOK(d)'
  <2>1. DraftOK(d) /\ DeletionOK(d) /\ (call'[d] = call[d] \/ call'[d] = Idle)
    BY <1>2 DEF Surviving
  <2>2. DraftOK(d)'
    BY <1>7, <1>8, <2>1 DEF DraftOK, At
  <2>3. ASSUME NEW r \in Token, call[d].doomed = {r}, r \in Sessions',
               NEW s \in Sessions, Successor(s, r)
        PROVE  \E q \in Sessions' : Successor(q, r)'
    BY <1>5, <1>6, <1>8, <2>3
  <2>4. DeletionOK(d)'
    BY <1>7, <1>8, <2>1, <2>3 DEF DeletionOK, At
  <2> QED
    BY <2>2, <2>4
<1>11. loggedIn' => Sessions' # {}
  <2> SUFFICES ASSUME loggedIn
               PROVE  Sessions' # {}
    BY <1>2
  <2>1. PICK r : r \in Sessions
    BY DEF Surviving
  <2>2. CASE r # t
    BY <1>3, <2>1, <2>2
  <2>3. CASE r = t
    <3>1. PICK s \in Sessions : Successor(s, t)
      BY <1>1, <2>1, <2>3
    <3> QED
      BY <1>6, <2>1, <2>3, <3>1
  <2> QED
    BY <2>2, <2>3
<1> QED
  BY <1>2, <1>3, <1>8, <1>9, <1>10, <1>11 DEF Surviving

\* Every step of a call keeps it.
LEMMA SurvivalStep ==
    ASSUME SessionTypeOK, WriterInv, CapInv, SurvivalInv, NEW c \in Call, CallStep(c)
    PROVE  SurvivalInv'
<1> USE DEF historyVars
<1> SUFFICES ASSUME Undisturbed'
             PROVE  Surviving'
  BY DEF SurvivalInv
<1>1. Undisturbed /\ revived' = {} /\ ~ended'
  <2>1. atomicCreate' = atomicCreate
    BY DEF CallStep, Login, CreateAtomically, CreateBySet, ListForLimit, Evict, FindLapsed,
       Rotate, ReadForTouch, Revoke, Touch, Delete, RevokeAll, ListForRevocation, RevokeOne, Fail
  <2>2. (ended' = ended) \/ ended'
    BY DEF CallStep, Login, CreateAtomically, CreateBySet, ListForLimit, Evict, FindLapsed,
       Rotate, ReadForTouch, Revoke, Touch, Delete, RevokeAll, ListForRevocation, RevokeOne, Fail
  <2>3. (revived' = revived) \/ Touch(c)
    BY DEF CallStep, Login, CreateAtomically, CreateBySet, ListForLimit, Evict, FindLapsed,
       Rotate, ReadForTouch, Revoke, Touch, Delete, RevokeAll, ListForRevocation, RevokeOne, Fail
  <2>4. revived \subseteq revived'
    BY <2>3 DEF Touch
  <2> QED
    BY <2>1, <2>2, <2>4 DEF Undisturbed
<1>2. Surviving
  BY <1>1 DEF SurvivalInv
<1>3. atomicCreate /\ call[c].pc \in {"idle", "insert", "touch", "deleting"}
  BY <1>1, <1>2 DEF Undisturbed, Surviving, DeletionOK
<1>4. /\ Idle.pc = "idle" /\ Idle.token = NoToken /\ Idle.doomed = {}
      /\ SeenInTime(FreshRecord) /\ FreshRecord.rotateAfter = clock + RotateEvery
      /\ NoToken \notin Token /\ clock \in Nat /\ RotateEvery \in Nat
      /\ issued \subseteq Token /\ Sessions \subseteq Token /\ Sessions \subseteq issued
  BY <1>2, SessionAssumption
  DEF Idle, CallAt, SeenInTime, FreshRecord, SessionTypeOK, Sessions, Surviving
<1>5. ASSUME NEW old \in Token \cup {NoToken}, BeginCreate(c, old),
             UNCHANGED <<clock, store, loggedIn>>,
             old \in Token => old \in Sessions /\ store[old].rotateAfter <= clock
      PROVE  Surviving'
  <2>1. PICK t \in Token \ issued :
            /\ issued' = issued \cup {t}
            /\ Become(c, CallAt("insert", old, t, FreshRecord, {}))
    BY <1>5 DEF BeginCreate
  <2> DEFINE state == CallAt("insert", old, t, FreshRecord, {})
  <2>2. /\ state.pc = "insert" /\ state.token = old /\ state.drawn = t
        /\ state.draft = FreshRecord /\ state.doomed = {}
    BY DEF CallAt
  <2>3. old \in Sessions => store[old].rotateAfter + RotateEvery <= FreshRecord.rotateAfter
    BY <1>4, <1>5 DEF SessionTypeOK, Session
  <2> HIDE DEF state
  <2>4. Become(c, state) /\ issued \subseteq issued' /\ t \in issued' \ issued
    BY <2>1 DEF state
  <2> QED
    BY <1>2, <1>4, <1>5, <2>2, <2>3, <2>4, BeginningKeeps
<1>6. CASE Login(c)
  BY <1>4, <1>5, <1>6 DEF Login
<1>7. ASSUME NEW t \in Token, Rotate(c, t)
      PROVE  Surviving'
  BY <1>4, <1>5, <1>7 DEF Rotate, DueForRotation, Sessions
<1>8. ASSUME NEW t \in Token, ReadForTouch(c, t)
      PROVE  Surviving'
  <2> DEFINE state == CallAt("touch", t, NoToken, Touched(store[t]), {})
  <2>1. /\ state.pc = "touch" /\ state.token = t /\ state.doomed = {}
        /\ state.draft = Touched(store[t])
    BY DEF CallAt
  <2>2. t \in Sessions /\ SeenInTime(store[t]) /\ ~DueForRotation(store[t]) /\ store[t] \in Session
    BY <1>2, <1>8 DEF ReadForTouch, Sessions, Surviving, SessionTypeOK
  <2>3. SeenInTime(Touched(store[t])) /\ Touched(store[t]).rotateAfter = store[t].rotateAfter
    BY <1>4, <2>2 DEF SeenInTime, Touched, DueForRotation, Session
  <2> HIDE DEF state
  <2>4. Become(c, state) /\ UNCHANGED <<clock, store, loggedIn, issued>>
    BY <1>8 DEF ReadForTouch, state
  <2> QED
    BY <1>2, <1>4, <2>1, <2>2, <2>3, <2>4, BeginningKeeps
<1>9. CASE Fail(c)
  <2>1. Become(c, Idle) /\ UNCHANGED <<clock, store, loggedIn, issued>>
    BY <1>9 DEF Fail, EndAll, End
  <2> QED
    BY <1>2, <1>4, <2>1, BeginningKeeps
<1>10. CASE CreateAtomically(c)
  BY <1>2, <1>10, CreationKeeps
<1>11. CASE Touch(c)
  BY <1>1, <1>2, <1>11, TouchKeeps
<1>12. CASE Delete(c)
  BY <1>2, <1>12, DeletionKeeps
<1>13. ~CreateBySet(c) /\ ~ListForLimit(c) /\ ~Evict(c) /\ ~ListForRevocation(c) /\ ~RevokeOne(c)
  BY <1>3 DEF CreateBySet, ListForLimit, Evict, ListForRevocation, RevokeOne, At
<1>14. ~RevokeAll(c) /\ \A t \in Token : ~FindLapsed(c, t) /\ ~Revoke(c, t)
  BY <1>1 DEF RevokeAll, FindLapsed, Revoke
<1> QED
  BY <1>6, <1>7, <1>8, <1>9, <1>10, <1>11, <1>12, <1>13, <1>14 DEF CallStep

\* Eviction and rotation never log a user out altogether (session.ts): on a store
\* with create(), whatever logins, rotations and touches overlap, a session is
\* left, unless one was revoked, expired or written back after its deletion.
THEOREM EvictionSparesOne == SessionSpec => []SomeSessionSurvives
<1> DEFINE Both == CapInv /\ SurvivalInv
<1>1. SessionInv /\ Both /\ [SessionNext]_sessionVars => Both'
  <2> SUFFICES ASSUME SessionInv, Both, [SessionNext]_sessionVars
               PROVE  Both'
    OBVIOUS
  <2>1. ASSUME NEW c \in Call, CallStep(c)
        PROVE  Both'
    BY <2>1, CapStep, SurvivalStep DEF SessionInv
  <2>2. ASSUME UNCHANGED <<atomicCreate, store, issued, call, historyVars>>,
               clock' \in Nat, clock <= clock'
        PROVE  Both'
    <3>1. CapInv'
      BY <2>2 DEF CapInv, Counted, Sessions, At, historyVars
    <3>2. SurvivalInv'
      <4>1. SessionTypeOK
        BY DEF SessionInv
      <4>2. \A s \in Session : SeenInTime(s) => SeenInTime(s)'
        BY <2>2, <4>1 DEF SeenInTime, Session, SessionTypeOK
      <4>3. /\ \A t \in Token : store[t] \in Session
            /\ \A d \in Call : call[d].draft \in Session
        BY <4>1 DEF SessionTypeOK, CallState
      <4>4. Sessions' = Sessions /\ \A s, t : Successor(s, t)' <=> Successor(s, t)
        BY <2>2 DEF Sessions, Successor
      <4> QED
        BY <2>2, <4>2, <4>3, <4>4
        DEF SurvivalInv, Undisturbed, Surviving, TokensKnown, DraftOK, DeletionOK, Sessions, At,
            historyVars
    <3> QED
      BY <3>1, <3>2
  <2>3. clock \in Nat
    BY DEF SessionInv, SessionTypeOK
  <2> QED
    BY <2>1, <2>2, <2>3 DEF SessionNext, SessionTick, sessionVars
<1>2. SurvivalInv => SomeSessionSurvives
  BY DEF SurvivalInv, Undisturbed, Surviving, SomeSessionSurvives
<1>3. SessionInit => Both
  BY CapInvInit, SurvivalInit
<1> QED
  BY <1>1, <1>2, <1>3, SessionInvInit, SessionInvNext, PTL DEF SessionSpec
==============================================================================
