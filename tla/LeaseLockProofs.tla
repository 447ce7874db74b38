--------------------------- MODULE LeaseLockProofs ---------------------------
(***************************************************************************)
(* What LeaseLock promises for every number of handles, every ttl, cadence *)
(* and delay, and for each of the three kinds of store.                    *)
(***************************************************************************)
EXTENDS LeaseLock, TLAPS

\* A handle is in the hands of the store or of its caller.
Alive(h) == phase[h] \in {"granted", "held"}

\* The clock never runs ahead of a round trip, and an expiry counted from the
\* reply is late by no more than the round trip was.
SlackInv(h) ==
    /\ grantedUntil[h] <= now + LockTtl
    /\ InFlight(h) => sentAt[h] <= now /\ now <= sentAt[h] + MaxDelay
    /\ phase[h] = "drawn" => asOf[h] = sentAt[h]
    /\ phase[h] = "granted" \/ renewal[h] = "renewed" => sentAt[h] + LockTtl <= grantedUntil[h]
    /\ renewal[h] # "idle" => phase[h] \in {"held", "released"}
    /\ phase[h] \in {"idle", "drawn"} => belief[h] = 0
    /\ belief[h] <= grantedUntil[h] + MaxDelay
    /\ owned[h] => phase[h] = "held"

\* What the store granted and has not passed on is still in its row.
RowInv(h) ==
    Alive(h) /\ now < grantedUntil[h] => lease.holder = h /\ grantedUntil[h] <= lease.expiresAt

LockInv == LockTypeOK /\ \A h \in Req : SlackInv(h) /\ RowInv(h)

\* The row carries the last fence drawn, when drawing and taking are one step.
FenceInv ==
    /\ \A h \in Req : heldFence[h] <= fence
    /\ lease # NoLease =>
         /\ lease.fence = fence
         /\ \A h \in Req \ {lease.holder} : heldFence[h] < fence

------------------------------------------------------------------------------
LEMMA LockTypeInit == LockInit /\ now = 0 => LockTypeOK
  BY RuntimeAssumption, LeaseLockAssumption
  DEF LockInit, LockTypeOK, NoLease, Phase, Renewal

\* Every step of a handle, and the clock, keep the types.
LEMMA LockTypeStep == LockTypeOK /\ [LockNext]_<<now, lockVars>> => LockTypeOK'
<1> SUFFICES ASSUME LockTypeOK, [LockNext]_<<now, lockVars>>
             PROVE  LockTypeOK'
  OBVIOUS
<1> USE RuntimeAssumption, LeaseLockAssumption
        DEF LockTypeOK, Lease, NoLease, Phase, Renewal
<1>1. CASE LockTick
  BY <1>1 DEF LockTick, Advance, lockVars, handleVars
<1>2. ASSUME NEW h \in Req, HandleStep(h), UNCHANGED now
      PROVE  LockTypeOK'
  <2> USE <1>2
  <2>1. CASE LockDraw(h)
    BY <2>1 DEF LockDraw
  <2>2. CASE LockGrant(h)
    <3>1. StatementTime(h) \in Nat
      BY DEF StatementTime
    <3>2. fence' \in Nat /\ heldFence' \in [Req -> Nat] /\ sentAt' \in [Req -> Nat]
      BY <2>2 DEF LockGrant, GrantFence
    <3>3. heldFence'[h] \in Nat /\ StatementTime(h) + LockTtl \in Nat
      BY <3>1, <3>2
    <3>4. lease' \in Lease
      BY <2>2, <3>3 DEF LockGrant
    <3>5. QED
      BY <2>2, <3>2, <3>3, <3>4 DEF LockGrant
  <2>3. CASE LockRefuse(h)
    BY <2>3 DEF LockRefuse
  <2>4. CASE LockReply(h)
    BY <2>4 DEF LockReply
  <2>5. CASE LockAcquireThrows(h)
    BY <2>5 DEF LockAcquireThrows
  <2>6. CASE LockRenewTick(h)
    BY <2>6 DEF LockRenewTick
  <2>7. CASE LockRenewApply(h)
    BY <2>7 DEF LockRenewApply, Leased
  <2>8. CASE LockRenewReply(h)
    <3>1. renewal' \in [Req -> Renewal]
      BY <2>8 DEF LockRenewReply
    <3>2. belief' \in [Req -> Nat]
      BY <2>8 DEF LockRenewReply
    <3>3. owned' \in [Req -> BOOLEAN]
      BY <2>8 DEF LockRenewReply
    <3>4. QED
      BY <2>8, <3>1, <3>2, <3>3 DEF LockRenewReply
  <2>9. CASE LockRenewThrows(h)
    BY <2>9 DEF LockRenewThrows
  <2>10. CASE LockExpiryTimer(h)
    BY <2>10 DEF LockExpiryTimer
  <2>11. CASE LockAssertFails(h)
    BY <2>11 DEF LockAssertFails
  <2>12. CASE LockRelease(h)
    BY <2>12 DEF LockRelease
  <2>13. CASE LockCrash(h)
    BY <2>13 DEF LockCrash
  <2>14. QED
    BY <2>1, <2>2, <2>3, <2>4, <2>5, <2>6, <2>7, <2>8, <2>9, <2>10, <2>11, <2>12, <2>13
    DEF HandleStep
<1>3. CASE UNCHANGED <<now, lockVars>>
  BY <1>3 DEF lockVars, handleVars
<1>4. QED
  BY <1>1, <1>2, <1>3 DEF LockNext

\* The rows, handles and timers of the lock manager always have their types.
THEOREM LockTypeCorrect == LockSpec => []LockTypeOK
<1>1. LockInit /\ now = 0 => LockTypeOK
  BY LockTypeInit
<1>2. LockTypeOK /\ [LockNext]_<<now, lockVars>> => LockTypeOK'
  BY LockTypeStep
<1>3. QED
  BY <1>1, <1>2, PTL DEF LockSpec, LockStart

------------------------------------------------------------------------------
(* The slack of a handle.                                                  *)

LEMMA SlackInit == LockInit /\ now = 0 => \A h \in Req : SlackInv(h)
<1> SUFFICES ASSUME LockInit, now = 0, NEW h \in Req
             PROVE  SlackInv(h)
  OBVIOUS
<1>1. ~owned[h]
  BY DEF LockInit
<1>2. /\ phase[h] = "idle" /\ renewal[h] = "idle"
      /\ belief[h] = 0 /\ grantedUntil[h] = 0
  BY DEF LockInit
<1>3. QED
  BY <1>1, <1>2, RuntimeAssumption, LeaseLockAssumption DEF SlackInv, InFlight

\* A step of g keeps the slack of every handle h, its own included.
LEMMA SlackStep ==
    ASSUME LockTypeOK, NEW g \in Req, NEW h \in Req, SlackInv(h), HandleStep(g), now' = now
    PROVE  SlackInv(h)'
<1> USE RuntimeAssumption, LeaseLockAssumption DEF LockTypeOK, SlackInv, InFlight
<1>1. CASE g = h
  <2> USE <1>1
  <2>1. CASE LockDraw(g)
    BY <2>1 DEF LockDraw
  <2>2. CASE LockGrant(g)
    BY <2>2 DEF LockGrant, GrantFence, Reaches, StatementTime
  <2>3. CASE LockRefuse(g)
    <3>1. phase[h] \in {"idle", "drawn"} /\ phase'[h] \in {"idle", "refused"}
      BY <2>3 DEF LockRefuse, Reaches
    <3>2. QED
      BY <2>3, <3>1 DEF LockRefuse
  <2>4. CASE LockReply(g)
    BY <2>4 DEF LockReply
  <2>5. CASE LockAcquireThrows(g)
    BY <2>5 DEF LockAcquireThrows
  <2>6. CASE LockRenewTick(g)
    BY <2>6 DEF LockRenewTick
  <2>7. CASE LockRenewApply(g)
    BY <2>7 DEF LockRenewApply, Leased
  <2>8. CASE LockRenewReply(g)
    BY <2>8 DEF LockRenewReply
  <2>9. CASE LockRenewThrows(g)
    BY <2>9 DEF LockRenewThrows
  <2>10. CASE LockExpiryTimer(g)
    BY <2>10 DEF LockExpiryTimer
  <2>11. CASE LockAssertFails(g)
    BY <2>11 DEF LockAssertFails
  <2>12. CASE LockRelease(g)
    BY <2>12 DEF LockRelease
  <2>13. CASE LockCrash(g)
    BY <2>13 DEF LockCrash
  <2>14. QED
    BY <2>1, <2>2, <2>3, <2>4, <2>5, <2>6, <2>7, <2>8, <2>9, <2>10, <2>11, <2>12, <2>13 DEF HandleStep
<1>2. CASE g # h
  <2> USE <1>2
  <2>1. CASE LockDraw(g)
    BY <2>1 DEF LockDraw
  <2>2. CASE LockGrant(g)
    BY <2>2 DEF LockGrant, GrantFence, Reaches, StatementTime
  <2>3. CASE LockRefuse(g)
    BY <2>3 DEF LockRefuse
  <2>4. CASE LockReply(g)
    BY <2>4 DEF LockReply
  <2>5. CASE LockAcquireThrows(g)
    BY <2>5 DEF LockAcquireThrows
  <2>6. CASE LockRenewTick(g)
    BY <2>6 DEF LockRenewTick
  <2>7. CASE LockRenewApply(g)
    BY <2>7 DEF LockRenewApply, Leased
  <2>8. CASE LockRenewReply(g)
    BY <2>8 DEF LockRenewReply
  <2>9. CASE LockRenewThrows(g)
    BY <2>9 DEF LockRenewThrows
  <2>10. CASE LockExpiryTimer(g)
    BY <2>10 DEF LockExpiryTimer
  <2>11. CASE LockAssertFails(g)
    BY <2>11 DEF LockAssertFails
  <2>12. CASE LockRelease(g)
    BY <2>12 DEF LockRelease
  <2>13. CASE LockCrash(g)
    BY <2>13 DEF LockCrash
  <2>14. QED
    BY <2>1, <2>2, <2>3, <2>4, <2>5, <2>6, <2>7, <2>8, <2>9, <2>10, <2>11, <2>12, <2>13 DEF HandleStep
<1>3. QED
  BY <1>1, <1>2

LEMMA SlackTick ==
    ASSUME LockTypeOK, NEW h \in Req, SlackInv(h), LockTick
    PROVE  SlackInv(h)'
  BY RuntimeAssumption, LeaseLockAssumption
  DEF LockTypeOK, SlackInv, InFlight, LockTick, LockMayTick, Advance, lockVars, handleVars
------------------------------------------------------------------------------
(* The row of a handle.                                                    *)

\* Whoever is granted the row finds nobody whose grant still runs.
LEMMA GrantNeedsVacancy ==
    ASSUME LockTypeOK, NEW g \in Req, NEW h \in Req,
           SlackInv(g), RowInv(h), LockGrant(g)
    PROVE  ~(Alive(h) /\ now < grantedUntil[h])
<1>1. StatementTime(g) <= now /\ StatementTime(g) \in Nat
  BY DEF LockTypeOK, SlackInv, InFlight, StatementTime, LockGrant, Reaches
<1>2. Vacant(StatementTime(g))
  BY DEF LockGrant
<1>3. CASE lease = NoLease
  BY <1>3, RuntimeAssumption DEF RowInv, NoLease
<1>4. CASE lease # NoLease /\ lease.expiresAt <= StatementTime(g)
  BY <1>1, <1>4 DEF RowInv, LockTypeOK, Lease
<1>5. QED
  BY <1>2, <1>3, <1>4 DEF Vacant

LEMMA RowStep ==
    ASSUME LockTypeOK, NEW g \in Req, NEW h \in Req,
           SlackInv(g), RowInv(h), HandleStep(g), now' = now
    PROVE  RowInv(h)'
<1> USE RuntimeAssumption, LeaseLockAssumption DEF LockTypeOK, RowInv, Alive
<1>1. CASE LockDraw(g)
  BY <1>1 DEF LockDraw
<1>2. CASE LockGrant(g)
  <2>1. CASE g = h
    <3>1. lease'.holder = h /\ lease'.expiresAt = grantedUntil'[h]
      BY <1>2, <2>1 DEF LockGrant
    <3>2. StatementTime(g) + LockTtl \in Nat
      BY DEF StatementTime
    <3>3. grantedUntil'[h] \in Nat
      BY <1>2, <2>1, <3>2 DEF LockGrant
    <3>4. QED
      BY <3>1, <3>3
  <2>2. CASE g # h
    BY <1>2, <2>2, GrantNeedsVacancy DEF LockGrant
  <2>3. QED
    BY <2>1, <2>2
<1>3. CASE LockRefuse(g)
  <2>1. phase'[g] \in {"idle", "refused"} /\ (g # h => phase'[h] = phase[h])
    BY <1>3 DEF LockRefuse
  <2>2. QED
    BY <1>3, <2>1 DEF LockRefuse
<1>4. CASE LockReply(g)
  BY <1>4 DEF LockReply
<1>5. CASE LockAcquireThrows(g)
  BY <1>5 DEF LockAcquireThrows
<1>6. CASE LockRenewTick(g)
  BY <1>6 DEF LockRenewTick
<1>7. CASE LockRenewApply(g)
  <2>1. CASE Leased(g)
    <3>1. lease # NoLease /\ lease \in Lease
      BY <2>1 DEF Leased, NoLease
    <3>2. lease'.holder = g /\ lease'.expiresAt = now + LockTtl
      BY <1>7, <2>1, <3>1 DEF LockRenewApply, Leased, Lease
    <3>3. grantedUntil' = [grantedUntil EXCEPT ![g] = now + LockTtl] /\ phase' = phase
      BY <1>7, <2>1 DEF LockRenewApply
    <3>4. CASE g = h
      BY <3>2, <3>3, <3>4
    <3>5. CASE g # h
      BY <2>1, <3>3, <3>5 DEF Leased
    <3>6. QED
      BY <3>4, <3>5
  <2>2. CASE ~Leased(g)
    BY <1>7, <2>2 DEF LockRenewApply
  <2>3. QED
    BY <2>1, <2>2
<1>8. CASE LockRenewReply(g)
  BY <1>8 DEF LockRenewReply
<1>9. CASE LockRenewThrows(g)
  BY <1>9 DEF LockRenewThrows
<1>10. CASE LockExpiryTimer(g)
  BY <1>10 DEF LockExpiryTimer
<1>11. CASE LockAssertFails(g)
  BY <1>11 DEF LockAssertFails
<1>12. CASE LockRelease(g)
  BY <1>12 DEF LockRelease
<1>13. CASE LockCrash(g)
  BY <1>13 DEF LockCrash
<1>14. QED
  BY <1>1, <1>2, <1>3, <1>4, <1>5, <1>6, <1>7, <1>8, <1>9, <1>10, <1>11, <1>12, <1>13 DEF HandleStep

LEMMA RowTick ==
    ASSUME LockTypeOK, NEW h \in Req, RowInv(h), LockTick
    PROVE  RowInv(h)'
  BY DEF LockTypeOK, RowInv, Alive, LockTick, Advance, lockVars, handleVars

------------------------------------------------------------------------------
(* Together.                                                               *)

LEMMA LockInvInit == LockInit /\ now = 0 => LockInv
<1> SUFFICES ASSUME LockInit, now = 0
             PROVE  LockInv
  OBVIOUS
<1>1. LockTypeOK /\ \A h \in Req : SlackInv(h)
  BY LockTypeInit, SlackInit
<1>2. \A h \in Req : RowInv(h)
  BY DEF LockInit, RowInv, Alive
<1>3. QED
  BY <1>1, <1>2 DEF LockInv

LEMMA LockInvStep == LockInv /\ [LockNext]_<<now, lockVars>> => LockInv'
<1> SUFFICES ASSUME LockInv, [LockNext]_<<now, lockVars>>
             PROVE  LockInv'
  OBVIOUS
<1>1. LockTypeOK /\ LockTypeOK'
  BY LockTypeStep DEF LockInv
<1>2. ASSUME NEW h \in Req
      PROVE  SlackInv(h)' /\ RowInv(h)'
  <2>1. SlackInv(h) /\ RowInv(h)
    BY DEF LockInv
  <2>2. CASE LockTick
    BY <1>1, <2>1, <2>2, SlackTick, RowTick
  <2>3. ASSUME NEW g \in Req, HandleStep(g), UNCHANGED now
        PROVE  SlackInv(h)' /\ RowInv(h)'
    <3>1. SlackInv(g)
      BY DEF LockInv
    <3>2. now' = now
      BY <2>3
    <3>3. SlackInv(h)'
      BY <1>1, <2>1, <2>3, <3>2, SlackStep
    <3>4. RowInv(h)'
      BY <1>1, <2>1, <2>3, <3>1, <3>2, RowStep
    <3>5. QED
      BY <3>3, <3>4
  <2>4. CASE UNCHANGED <<now, lockVars>>
    BY <2>1, <2>4 DEF SlackInv, RowInv, Alive, InFlight, lockVars, handleVars
  <2>5. QED
    BY <2>2, <2>3, <2>4 DEF LockNext
<1>3. QED
  BY <1>1, <1>2 DEF LockInv

\* A handle that passes assertOwned() was granted the lease until at most one
\* round trip ago, whatever the ttl, the cadence, the faults and the store.
THEOREM BeliefIsNearlyTrue == LockSpec => []BeliefWithinDelay
<1>1. LockInv => BeliefWithinDelay
  BY RuntimeAssumption, LeaseLockAssumption
  DEF LockInv, LockTypeOK, SlackInv, BeliefWithinDelay, Believes
<1>2. QED
  BY <1>1, LockInvInit, LockInvStep, PTL DEF LockSpec, LockStart

\* Of two handles that pass assertOwned() at once, one has outlived its grant:
\* inside what the store granted, the lock excludes.
THEOREM BelieversExclude == LockSpec => []OneCurrentBeliever
<1>1. LockInv => OneCurrentBeliever
  BY RuntimeAssumption, LeaseLockAssumption
  DEF LockInv, LockTypeOK, SlackInv, RowInv, Alive, OneCurrentBeliever, Believes
<1>2. QED
  BY <1>1, LockInvInit, LockInvStep, PTL DEF LockSpec, LockStart

------------------------------------------------------------------------------
(* Fencing.                                                                *)

LEMMA FenceInit == LockInit => FenceInv
  BY DEF LockInit, FenceInv

\* Drawing the fence and taking the row is one step, so the row follows the
\* counter.
LEMMA FenceStep ==
    ASSUME ~DrawFenceFirst, Renewable, LockTypeOK, FenceInv, [LockNext]_<<now, lockVars>>
    PROVE  FenceInv'
<1> USE RuntimeAssumption, LeaseLockAssumption DEF LockTypeOK, FenceInv
<1>1. CASE LockTick
  BY <1>1 DEF LockTick, lockVars, handleVars
<1>2. ASSUME NEW g \in Req, HandleStep(g)
      PROVE  FenceInv'
  <2> USE <1>2
  <2>1. CASE LockDraw(g)
    BY <2>1 DEF LockDraw
  <2>2. CASE LockGrant(g)
    <3>1. fence' = fence + 1 /\ heldFence' = [heldFence EXCEPT ![g] = fence']
      BY <2>2 DEF LockGrant, GrantFence
    <3>2. lease'.fence = fence' /\ lease'.holder = g
      BY <2>2, <3>1 DEF LockGrant
    <3>3. \A h \in Req : heldFence'[h] <= fence'
      BY <3>1
    <3>4. \A h \in Req \ {g} : heldFence'[h] < fence'
      BY <3>1
    <3>5. QED
      BY <3>2, <3>3, <3>4
  <2>3. CASE LockRefuse(g)
    BY <2>3 DEF LockRefuse
  <2>4. CASE LockReply(g)
    BY <2>4 DEF LockReply
  <2>5. CASE LockAcquireThrows(g)
    BY <2>5 DEF LockAcquireThrows
  <2>6. CASE LockRenewTick(g)
    BY <2>6 DEF LockRenewTick
  <2>7. CASE LockRenewApply(g)
    <3>1. UNCHANGED <<fence, heldFence>>
      BY <2>7 DEF LockRenewApply
    <3>2. CASE Leased(g)
      <4>1. lease # NoLease /\ lease \in Lease
        BY <3>2 DEF Leased, NoLease
      <4>2. lease'.fence = lease.fence /\ lease'.holder = lease.holder
        BY <2>7, <3>2, <4>1 DEF LockRenewApply, Lease
      <4>3. QED
        BY <3>1, <4>1, <4>2
    <3>3. CASE ~Leased(g)
      BY <2>7, <3>1, <3>3 DEF LockRenewApply
    <3>4. QED
      BY <3>2, <3>3
  <2>8. CASE LockRenewReply(g)
    BY <2>8 DEF LockRenewReply
  <2>9. CASE LockRenewThrows(g)
    BY <2>9 DEF LockRenewThrows
  <2>10. CASE LockExpiryTimer(g)
    BY <2>10 DEF LockExpiryTimer
  <2>11. CASE LockAssertFails(g)
    BY <2>11 DEF LockAssertFails
  <2>12. CASE LockRelease(g)
    <3>1. lease' \in {lease, NoLease} /\ UNCHANGED <<fence, heldFence>>
      BY <2>12 DEF LockRelease
    <3>2. QED
      BY <3>1
  <2>13. CASE LockCrash(g)
    BY <2>13 DEF LockCrash
  <2>14. QED
    BY <2>1, <2>2, <2>3, <2>4, <2>5, <2>6, <2>7, <2>8, <2>9, <2>10, <2>11, <2>12, <2>13 DEF HandleStep
<1>3. CASE UNCHANGED <<now, lockVars>>
  BY <1>3 DEF lockVars, handleVars
<1>4. QED
  BY <1>1, <1>2, <1>3 DEF LockNext

\* With a lease store that draws the fence as it takes the row, every earlier
\* holder's fence is below the current one's: a write of the holder is never
\* refused as stale, and that of an earlier one always is.
THEOREM FencesOrderHolders ==
    ASSUME ~DrawFenceFirst, Renewable
    PROVE  LockSpec => []HolderHasNewestFence
<1>1. LockTypeOK /\ FenceInv /\ [LockNext]_<<now, lockVars>> => FenceInv'
  BY FenceStep
<1>2. LockTypeOK /\ FenceInv => HolderHasNewestFence
  BY DEF FenceInv, HolderHasNewestFence
<1>3. QED
  BY <1>1, <1>2, LockTypeCorrect, FenceInit, PTL DEF LockSpec, LockStart
------------------------------------------------------------------------------
(* Renewal.                                                                *)

\* An interval that runs on time sends the next renewal early enough for it to
\* reach the store before the grant ends.
KeepInv(h) ==
    owned[h] =>
        /\ now < grantedUntil[h]
        /\ now <= nextRenewal[h] /\ nextRenewal[h] <= now + RenewEvery
        /\ renewal[h] # "denied"
        /\ renewal[h] = "idle" => nextRenewal[h] + MaxDelay < grantedUntil[h]
        /\ renewal[h] = "sent" => sentAt[h] + MaxDelay < grantedUntil[h]

\* The cadence leaves room for the reply of one call and the way of the next.
RoomForRenewal == TimersOnTime /\ Renewable /\ RenewEvery + 2 * MaxDelay < LockTtl

\* A handle whose grant still runs is the one in the row.
LEMMA GrantedIsLeased ==
    ASSUME LockInv, NEW h \in Req, owned[h], now < grantedUntil[h]
    PROVE  Leased(h)
<1>1. RowInv(h) /\ SlackInv(h) /\ LockTypeOK
  BY DEF LockInv
<1>2. lease.holder = h /\ grantedUntil[h] <= lease.expiresAt
  BY <1>1 DEF RowInv, Alive, SlackInv
<1>3. lease \in Lease
  BY <1>1, <1>2, RuntimeAssumption DEF LockTypeOK, NoLease
<1>4. QED
  BY <1>1, <1>2, <1>3 DEF Leased, LockTypeOK, Lease

LEMMA KeepStep ==
    ASSUME RoomForRenewal, LockInv, NEW g \in Req, NEW h \in Req, KeepInv(h),
           HandleStep(g), now' = now
    PROVE  KeepInv(h)'
<1>1. LockTypeOK /\ SlackInv(h)
  BY DEF LockInv
<1> USE RuntimeAssumption, LeaseLockAssumption, <1>1
        DEF LockTypeOK, KeepInv, RoomForRenewal
<1>2. CASE g # h
  <2> USE <1>2
  <2>1. CASE LockDraw(g)
    BY <2>1 DEF LockDraw
  <2>2. CASE LockGrant(g)
    BY <2>2 DEF LockGrant, GrantFence
  <2>3. CASE LockRefuse(g)
    BY <2>3 DEF LockRefuse
  <2>4. CASE LockReply(g)
    BY <2>4 DEF LockReply
  <2>5. CASE LockAcquireThrows(g)
    BY <2>5 DEF LockAcquireThrows
  <2>6. CASE LockRenewTick(g)
    BY <2>6 DEF LockRenewTick
  <2>7. CASE LockRenewApply(g)
    BY <2>7 DEF LockRenewApply
  <2>8. CASE LockRenewReply(g)
    BY <2>8 DEF LockRenewReply
  <2>9. CASE LockRenewThrows(g)
    BY <2>9 DEF LockRenewThrows
  <2>10. CASE LockExpiryTimer(g)
    BY <2>10 DEF LockExpiryTimer
  <2>11. CASE LockAssertFails(g)
    BY <2>11 DEF LockAssertFails
  <2>12. CASE LockRelease(g)
    BY <2>12 DEF LockRelease
  <2>13. CASE LockCrash(g)
    BY <2>13 DEF LockCrash
  <2>14. QED
    BY <2>1, <2>2, <2>3, <2>4, <2>5, <2>6, <2>7, <2>8, <2>9, <2>10, <2>11, <2>12, <2>13 DEF HandleStep
<1>3. CASE g = h
  <2> USE <1>3
  <2>1. CASE LockDraw(g)
    BY <2>1 DEF LockDraw, SlackInv
  <2>2. CASE LockGrant(g)
    BY <2>2 DEF LockGrant, SlackInv, Reaches
  <2>3. CASE LockRefuse(g)
    BY <2>3 DEF LockRefuse, SlackInv, Reaches
  <2>4. CASE LockReply(g)
    <3>1. now <= sentAt[h] + MaxDelay /\ sentAt[h] + LockTtl <= grantedUntil[h]
      BY <2>4 DEF LockReply, SlackInv, InFlight
    <3>2. renewal[h] = "idle"
      BY <2>4 DEF LockReply, SlackInv
    <3>3. nextRenewal'[h] = now + RenewEvery /\ UNCHANGED <<grantedUntil, renewal, sentAt>>
      BY <2>4 DEF LockReply
    <3>4. QED
      BY <3>1, <3>2, <3>3
  <2>5. CASE LockAcquireThrows(g)
    BY <2>5 DEF LockAcquireThrows, SlackInv
  <2>6. CASE LockRenewTick(g)
    BY <2>6 DEF LockRenewTick
  <2>7. CASE LockRenewApply(g)
    <3>1. CASE owned[h]
      <4>1. Leased(h)
        BY <3>1, GrantedIsLeased
      <4>2. grantedUntil'[h] = now + LockTtl /\ renewal'[h] = "renewed"
        BY <2>7, <4>1 DEF LockRenewApply
      <4>3. QED
        BY <2>7, <4>2 DEF LockRenewApply
    <3>2. CASE ~owned[h]
      BY <2>7, <3>2 DEF LockRenewApply
    <3>3. QED
      BY <3>1, <3>2
  <2>8. CASE LockRenewReply(g)
    <3>1. now <= sentAt[h] + MaxDelay
      BY <2>8 DEF LockRenewReply, SlackInv, InFlight
    <3>2. renewal[h] = "renewed" => sentAt[h] + LockTtl <= grantedUntil[h]
      BY DEF SlackInv
    <3>3. UNCHANGED <<grantedUntil, nextRenewal>> /\ renewal'[h] = "idle"
      BY <2>8 DEF LockRenewReply
    <3>4. owned'[h] => owned[h]
      BY <2>8 DEF LockRenewReply
    <3>5. owned'[h] => renewal[h] = "renewed"
      BY <2>8 DEF LockRenewReply
    <3>6. QED
      BY <3>1, <3>2, <3>3, <3>4, <3>5
  <2>9. CASE LockRenewThrows(g)
    BY <2>9 DEF LockRenewThrows
  <2>10. CASE LockExpiryTimer(g)
    BY <2>10 DEF LockExpiryTimer
  <2>11. CASE LockAssertFails(g)
    BY <2>11 DEF LockAssertFails
  <2>12. CASE LockRelease(g)
    BY <2>12 DEF LockRelease
  <2>13. CASE LockCrash(g)
    BY <2>13 DEF LockCrash
  <2>14. QED
    BY <2>1, <2>2, <2>3, <2>4, <2>5, <2>6, <2>7, <2>8, <2>9, <2>10, <2>11, <2>12, <2>13 DEF HandleStep
<1>4. QED
  BY <1>2, <1>3

LEMMA KeepTick ==
    ASSUME RoomForRenewal, LockInv, NEW h \in Req, KeepInv(h), LockTick
    PROVE  KeepInv(h)'
<1>1. LockTypeOK /\ SlackInv(h)
  BY DEF LockInv
<1>2. now' = now + 1 /\ UNCHANGED lockVars
  BY DEF LockTick, Advance
<1>3. owned[h] => now < nextRenewal[h]
  BY <1>1 DEF RoomForRenewal, LockTick, LockMayTick, SlackInv
<1>4. renewal[h] # "idle" => now < sentAt[h] + MaxDelay
  BY DEF LockTick, LockMayTick, InFlight
<1>5. renewal[h] = "renewed" => sentAt[h] + LockTtl <= grantedUntil[h]
  BY <1>1 DEF SlackInv
<1>6. renewal[h] \in Renewal
  BY <1>1 DEF LockTypeOK
<1>7. QED
  BY <1>1, <1>2, <1>3, <1>4, <1>5, <1>6, RuntimeAssumption, LeaseLockAssumption
  DEF RoomForRenewal, KeepInv, LockTypeOK, Renewal, lockVars, handleVars

\* With timers on time and a cadence that leaves room for two round trips, a
\* handle that has not been told otherwise holds the lease: renewal never
\* comes too late, whatever other handles do.
THEOREM RenewalIsInTime ==
    ASSUME RoomForRenewal
    PROVE  LockSpec => []RenewalKeepsLease
<1> DEFINE Kept == \A h \in Req : KeepInv(h)
<1>1. LockInit /\ now = 0 => Kept
  BY DEF LockInit, KeepInv
<1>2. LockInv /\ Kept /\ [LockNext]_<<now, lockVars>> => Kept'
  <2> SUFFICES ASSUME LockInv, Kept, [LockNext]_<<now, lockVars>>, NEW h \in Req
               PROVE  KeepInv(h)'
    OBVIOUS
  <2>1. KeepInv(h)
    OBVIOUS
  <2>2. CASE LockTick
    BY <2>1, <2>2, KeepTick
  <2>3. ASSUME NEW g \in Req, HandleStep(g), UNCHANGED now
        PROVE  KeepInv(h)'
    <3>1. now' = now
      BY <2>3
    <3>2. QED
      BY <2>1, <2>3, <3>1, KeepStep
  <2>4. CASE UNCHANGED <<now, lockVars>>
    BY <2>1, <2>4 DEF KeepInv, lockVars, handleVars
  <2>5. QED
    BY <2>2, <2>3, <2>4 DEF LockNext
<1>3. LockInv /\ Kept => RenewalKeepsLease
  BY GrantedIsLeased DEF KeepInv, RenewalKeepsLease
<1>4. QED
  BY <1>1, <1>2, <1>3, LockInvInit, LockInvStep, PTL DEF LockSpec, LockStart

------------------------------------------------------------------------------
(* A healthy store.                                                        *)

\* A held handle was never told otherwise, and what it believes outlasts the
\* renewal in flight or the next one.
TrustInv(h) ==
    phase[h] = "held" =>
        /\ owned[h]
        /\ renewal[h] = "idle" => nextRenewal[h] + MaxDelay < belief[h]
        /\ renewal[h] # "idle" => sentAt[h] + MaxDelay < belief[h]

\* Such a handle passes assertOwned().
LEMMA TrustIsBelief ==
    ASSUME LockInv, NEW h \in Req, KeepInv(h), TrustInv(h), phase[h] = "held"
    PROVE  Believes(h)
  BY LeaseLockAssumption
  DEF LockInv, LockTypeOK, SlackInv, KeepInv, TrustInv, Believes, InFlight

LEMMA TrustStep ==
    ASSUME RoomForRenewal, ~StoreFaults, LockInv, NEW g \in Req, NEW h \in Req,
           KeepInv(h), TrustInv(h), HandleStep(g), now' = now
    PROVE  TrustInv(h)'
<1>1. LockTypeOK /\ SlackInv(h)
  BY DEF LockInv
<1> USE RuntimeAssumption, LeaseLockAssumption, <1>1
        DEF LockTypeOK, TrustInv, RoomForRenewal
<1>2. CASE g # h
  <2> USE <1>2
  <2>1. CASE LockDraw(g) \/ LockRefuse(g) \/ LockReply(g) \/ LockAcquireThrows(g)
    BY <2>1 DEF LockDraw, LockRefuse, LockReply, LockAcquireThrows
  <2>2. CASE LockGrant(g)
    BY <2>2 DEF LockGrant, GrantFence
  <2>3. CASE LockRenewTick(g) \/ LockRenewApply(g) \/ LockRenewReply(g) \/ LockRenewThrows(g)
    BY <2>3 DEF LockRenewTick, LockRenewApply, LockRenewReply, LockRenewThrows
  <2>4. CASE LockExpiryTimer(g) \/ LockAssertFails(g) \/ LockRelease(g) \/ LockCrash(g)
    BY <2>4 DEF LockExpiryTimer, LockAssertFails, LockRelease, LockCrash
  <2>5. QED
    BY <2>1, <2>2, <2>3, <2>4 DEF HandleStep
<1>3. CASE g = h
  <2> USE <1>3
  <2>1. CASE LockDraw(g) \/ LockRefuse(g) \/ LockAcquireThrows(g)
    BY <2>1 DEF LockDraw, LockRefuse, LockAcquireThrows
  <2>2. CASE LockGrant(g)
    BY <2>2 DEF LockGrant
  <2>3. CASE LockReply(g)
    <3>1. now <= sentAt[h] + MaxDelay /\ sentAt[h] + LockTtl <= grantedUntil[h]
      BY <2>3 DEF LockReply, SlackInv, InFlight
    <3>2. renewal'[h] = "idle" /\ owned'[h]
      BY <2>3 DEF LockReply, SlackInv
    <3>3. nextRenewal'[h] = now + RenewEvery
      BY <2>3 DEF LockReply
    <3>4. belief'[h] \in {now + LockTtl, grantedUntil[h]}
      BY <2>3 DEF LockReply
    <3>5. QED
      BY <3>1, <3>2, <3>3, <3>4
  <2>4. CASE LockRenewTick(g)
    BY <2>4 DEF LockRenewTick, KeepInv
  <2>5. CASE LockRenewApply(g)
    BY <2>5 DEF LockRenewApply
  <2>6. CASE LockRenewReply(g)
    <3>1. CASE phase[h] = "held"
      <4>1. owned[h] /\ renewal[h] = "renewed" /\ nextRenewal[h] <= now + RenewEvery
        BY <2>6, <3>1 DEF LockRenewReply, KeepInv
      <4>2. belief'[h] = now + LockTtl /\ UNCHANGED <<owned, nextRenewal>> /\ renewal'[h] = "idle"
        BY <2>6, <4>1 DEF LockRenewReply
      <4>3. QED
        BY <4>1, <4>2
    <3>2. CASE phase[h] # "held"
      BY <2>6, <3>2 DEF LockRenewReply
    <3>3. QED
      BY <3>1, <3>2
  <2>7. CASE LockRenewThrows(g)
    BY <2>7 DEF LockRenewThrows
  <2>8. CASE LockExpiryTimer(g)
    BY <2>8 DEF LockExpiryTimer
  <2>9. CASE LockAssertFails(g)
    BY <2>9, TrustIsBelief DEF LockAssertFails
  <2>10. CASE LockRelease(g) \/ LockCrash(g)
    BY <2>10 DEF LockRelease, LockCrash
  <2>11. QED
    BY <2>1, <2>2, <2>3, <2>4, <2>5, <2>6, <2>7, <2>8, <2>9, <2>10 DEF HandleStep
<1>4. QED
  BY <1>2, <1>3

\* Until it is released, a handle passes assertOwned() and has the lease.
HeldIsKept == \A h \in Req : phase[h] = "held" => Believes(h) /\ Leased(h)

\* As long as the store answers, timers are on time and the cadence leaves room
\* for two round trips, no handle is ever lost before it is released: assertOwned()
\* does not throw, and the row is the handle's.
THEOREM HealthyHandlesAreKept ==
    ASSUME RoomForRenewal, ~StoreFaults
    PROVE  LockSpec => []HeldIsKept
<1> DEFINE Kept == \A h \in Req : KeepInv(h) /\ TrustInv(h)
<1>1. LockInit /\ now = 0 => Kept
  BY DEF LockInit, KeepInv, TrustInv
<1>2. LockInv /\ Kept /\ [LockNext]_<<now, lockVars>> => Kept'
  <2> SUFFICES ASSUME LockInv, Kept, [LockNext]_<<now, lockVars>>, NEW h \in Req
               PROVE  KeepInv(h)' /\ TrustInv(h)'
    OBVIOUS
  <2>1. KeepInv(h) /\ TrustInv(h)
    OBVIOUS
  <2>2. CASE LockTick
    BY <2>1, <2>2, KeepTick DEF LockTick, TrustInv, lockVars, handleVars
  <2>3. ASSUME NEW g \in Req, HandleStep(g), UNCHANGED now
        PROVE  KeepInv(h)' /\ TrustInv(h)'
    <3>1. now' = now
      BY <2>3
    <3>2. QED
      BY <2>1, <2>3, <3>1, KeepStep, TrustStep
  <2>4. CASE UNCHANGED <<now, lockVars>>
    BY <2>1, <2>4 DEF KeepInv, TrustInv, lockVars, handleVars
  <2>5. QED
    BY <2>2, <2>3, <2>4 DEF LockNext
<1>3. LockInv /\ Kept => HeldIsKept
  BY TrustIsBelief, GrantedIsLeased DEF HeldIsKept, KeepInv, TrustInv
<1>4. QED
  BY <1>1, <1>2, <1>3, LockInvInit, LockInvStep, PTL DEF LockSpec, LockStart
==============================================================================
