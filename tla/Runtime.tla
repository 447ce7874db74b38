------------------------------- MODULE Runtime -------------------------------
(***************************************************************************)
(* What every component of a GuildGate deployment shares: the action       *)
(* executions in flight, one wall clock, and the faults a run admits.      *)
(* An execution is one call of kernel.execute; it makes at most one        *)
(* idempotency reservation and holds at most one lock handle, so both are  *)
(* named after it.                                                         *)
(***************************************************************************)
EXTENDS Integers

CONSTANTS
    Req,          \* the executions
    Nobody,       \* no execution
    MaxTime,      \* bound on the clock
    StoreFaults,  \* TRUE: a call to a store may reject
    Crashes,      \* TRUE: the process of an execution may die
    TimersOnTime  \* TRUE: a due timer fires before the clock moves on

ASSUME RuntimeAssumption ==
    /\ Nobody \notin Req
    /\ MaxTime \in Nat
    /\ StoreFaults \in BOOLEAN
    /\ Crashes \in BOOLEAN
    /\ TimersOnTime \in BOOLEAN

VARIABLE now      \* Date.now(), in abstract units

Advance == now < MaxTime /\ now' = now + 1
==============================================================================
