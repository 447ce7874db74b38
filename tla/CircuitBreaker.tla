--------------------------- MODULE CircuitBreaker ----------------------------
(***************************************************************************)
(* CircuitBreaker (resilience.ts) for one name, as the kernel runs every   *)
(* attempt of an action through it.  run() keeps the state object it found *)
(* when it began: success deletes the map's entry, failure puts that very  *)
(* object back, whatever other calls did in between.                       *)
(***************************************************************************)
EXTENDS Integers

CONSTANTS
    Attempt,    \* the calls of run()
    Threshold,  \* failureThreshold
    Cell,       \* identities of state objects, enough for the map and all calls
    NoCell      \* no state object

ASSUME BreakerAssumption == Threshold \in Nat \ {0} /\ NoCell \notin Cell

\* A new object is never one that a call still has.
ASSUME ObjectsAreNew ==
    \A held \in [Attempt -> Cell \cup {NoCell}] : \E o \in Cell : \A a \in Attempt : held[a] # o

VARIABLES
    cell,    \* the contents of every state object
    states,  \* the object the map holds, or NoCell
    holds    \* the object each call found, or NoCell while it is not running

breakerVars == <<cell, states, holds>>

\* failures are counted up to the threshold; shut says openUntilMs > Date.now()
CellState == [failures : 0..Threshold, shut : BOOLEAN, halfOpenInFlight : BOOLEAN]
FreshCell == [failures |-> 0, shut |-> FALSE, halfOpenInFlight |-> FALSE]

BreakerTypeOK ==
    /\ cell \in [Cell -> CellState]
    /\ states \in Cell \cup {NoCell}
    /\ holds \in [Attempt -> Cell \cup {NoCell}]

BreakerInit ==
    /\ cell = [o \in Cell |-> FreshCell]
    /\ states = NoCell
    /\ holds = [a \in Attempt |-> NoCell]

HalfOpen(state) == state.failures = Threshold /\ ~state.shut

\* The object run() continues with: the map's, or a new one.
Found ==
    IF states # NoCell THEN states
    ELSE CHOOSE o \in Cell : \A a \in Attempt : holds[a] # o

\* The call gets past the breaker; the only one that does while it is half open
\* is the probe.
Admit(a) ==
    /\ holds[a] = NoCell
    /\ LET state == IF states = NoCell THEN FreshCell ELSE cell[states] IN
        /\ ~state.shut
        /\ ~(HalfOpen(state) /\ state.halfOpenInFlight)
        /\ cell' = [cell EXCEPT ![Found] = [state EXCEPT !.halfOpenInFlight = @ \/ HalfOpen(state)]]
    /\ states' = Found
    /\ holds' = [holds EXCEPT ![a] = Found]

\* execute() resolves: the entry is deleted.
Succeed(a) ==
    /\ holds[a] # NoCell
    /\ states' = NoCell
    /\ holds' = [holds EXCEPT ![a] = NoCell]
    /\ UNCHANGED cell

\* Slip: the probe's flag is only cleared by success.
CountedOnly(state) ==
    LET failures == IF state.failures = Threshold THEN Threshold ELSE state.failures + 1 IN
    [state EXCEPT !.failures = failures, !.shut = @ \/ failures = Threshold]

\* What a failure makes of the state object.
AfterFailure(state) ==
    LET failures == IF state.failures = Threshold THEN Threshold ELSE state.failures + 1 IN
    [failures |-> failures, shut |-> state.shut \/ failures = Threshold, halfOpenInFlight |-> FALSE]

\* execute() rejects: the object the call found is put back.
FailAttempt(a) ==
    /\ holds[a] # NoCell
    /\ cell' = [cell EXCEPT ![holds[a]] = AfterFailure(@)]
    /\ states' = holds[a]
    /\ holds' = [holds EXCEPT ![a] = NoCell]

\* openUntilMs passes.
ResetElapses ==
    \E o \in Cell :
        /\ cell[o].shut
        /\ cell' = [cell EXCEPT ![o].shut = FALSE]
        /\ UNCHANGED <<states, holds>>

\* reset(name)
ResetBreaker ==
    /\ states # NoCell
    /\ states' = NoCell
    /\ UNCHANGED <<cell, holds>>

BreakerNext ==
    \/ \E a \in Attempt : Admit(a) \/ Succeed(a) \/ FailAttempt(a)
    \/ ResetElapses \/ ResetBreaker

BreakerSpec == BreakerInit /\ [][BreakerNext]_breakerVars

------------------------------------------------------------------------------

\* A half-open circuit turns calls away only while a probe can still settle it:
\* whatever order overlapping calls, resets and reopenings come in, a set
\* halfOpenInFlight has a running call that found the object it is set in.
\* Without one the circuit would stay shut for ever.
ProbeIsUnderWay ==
    states # NoCell /\ cell[states].halfOpenInFlight =>
        \E a \in Attempt : holds[a] = states
==============================================================================
