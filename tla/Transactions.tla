---------------------------- MODULE Transactions -----------------------------
(***************************************************************************)
(* One transaction of createPostgresAdapter (postgres.ts): transactions.run *)
(* and the runs nested in it, which become savepoints on its client.  A    *)
(* scope is one such run; 1 is the outermost, and they are numbered as     *)
(* they open.  Every scope writes one row and registers one afterCommit    *)
(* and one afterRollback callback, both named after it.                    *)
(*                                                                         *)
(* runNestedTransaction() never enters txStorage.run(), so `parent` is the *)
(* outermost context at every depth.                                       *)
(***************************************************************************)
EXTENDS Integers, Sequences, SequencesExt

CONSTANTS
    Depth,      \* how deep runs nest, the outermost included
    MaxScopes   \* bound on the scopes of one transaction

ASSUME TransactionsAssumption == Depth \in Nat \ {0} /\ MaxScopes \in Nat \ {0}

VARIABLES
    txPhase,   \* where the outermost run() stands
    open,      \* the scopes being worked in, outermost first
    row,       \* what became of each scope's row
    hooks,     \* the callback list of each scope, as scopes that registered
    todo,      \* callbacks runPostCommitCallbacks() has still to call
    ran,       \* which callbacks of each scope were called
    aborted,   \* the server has marked the transaction as failed
    lost       \* the connection is gone

txVars == <<txPhase, open, row, hooks, todo, ran, aborted, lost>>

Scope == 1..MaxScopes
Used == {s \in Scope : row[s] # "none"}

TxInit ==
    /\ txPhase = "begin"
    /\ open = <<1>>
    /\ row = [s \in Scope |-> IF s = 1 THEN "empty" ELSE "none"]
    /\ hooks = [s \in Scope |-> <<>>]
    /\ todo = <<>>
    /\ ran = [s \in Scope |-> {}]
    /\ aborted = FALSE
    /\ lost = FALSE

TxTypeOK ==
    /\ txPhase \in {"begin", "working", "callbacks", "committed", "rejected"}
    /\ open \in Seq(Scope) /\ todo \in Seq(Scope)
    /\ row \in [Scope -> {"none", "empty", "pending", "durable", "undone"}]
    /\ hooks \in [Scope -> Seq(Scope)]
    /\ ran \in [Scope -> SUBSET {"commit", "rollback"}]
    /\ aborted \in BOOLEAN /\ lost \in BOOLEAN

Working == txPhase = "working"
Usable == Working /\ ~aborted /\ ~lost
Current == Last(open)

\* The rows from scope s on that are still pending get the fate f: what is
\* open inside s was opened after it.
Fated(s, f) == [t \in Scope |-> IF t >= s /\ row[t] = "pending" THEN f ELSE row[t]]

\* runRollbackCallbacks(): all of a list, whatever each of them does.
RolledBack(s) == [t \in Scope |-> IF t \in Range(hooks[s]) THEN ran[t] \cup {"rollback"} ELSE ran[t]]

------------------------------------------------------------------------------
TxBegin ==
    /\ txPhase = "begin"
    /\ txPhase' \in {"working", "rejected"}
    /\ UNCHANGED <<open, row, hooks, todo, ran, aborted, lost>>

\* The work of the innermost scope: its statement, and its two callbacks.
TxWrite ==
    /\ Usable /\ row[Current] = "empty"
    /\ row' = [row EXCEPT ![Current] = "pending"]
    /\ hooks' = [hooks EXCEPT ![Current] = Append(@, Current)]
    /\ UNCHANGED <<txPhase, open, todo, ran, aborted, lost>>

\* A statement rejects; the work may throw (NestedFails, OutermostFails) or go on.
StatementRejects ==
    /\ Usable
    /\ \/ aborted' = TRUE /\ UNCHANGED <<row, lost>>
       \/ lost' = TRUE /\ row' = Fated(1, "undone") /\ UNCHANGED aborted
    /\ UNCHANGED <<txPhase, open, hooks, todo, ran>>

\* run() inside run(): assertNestedOptions() passed, then SAVEPOINT.
OpenNested ==
    /\ Usable /\ Len(open) < Depth
    /\ Cardinality(Used) < MaxScopes
    /\ LET s == Cardinality(Used) + 1 IN
        /\ open' = Append(open, s)
        /\ row' = [row EXCEPT ![s] = "empty"]
    /\ UNCHANGED <<txPhase, hooks, todo, ran, aborted, lost>>

\* Slip: the callbacks of the nested scope join the list whether or not it succeeds.
NestedAlwaysHandsOver(s) ==
    /\ hooks' = [hooks EXCEPT ![1] = @ \o hooks[s]]
    /\ UNCHANGED ran

\* What a failing nested scope does with its callbacks.
NestedRollsBack(s) ==
    /\ ran' = RolledBack(s)
    /\ UNCHANGED hooks

\* RELEASE SAVEPOINT, then both callback lists go to `parent`.
NestedOk ==
    /\ Usable /\ Len(open) > 1
    /\ hooks' = [hooks EXCEPT ![1] = @ \o hooks[Current]]
    /\ open' = Front(open)
    /\ UNCHANGED <<txPhase, row, todo, ran, aborted, lost>>

\* The nested work throws or RELEASE rejects.  ROLLBACK TO SAVEPOINT revives a
\* transaction the server had marked as failed.
NestedFails ==
    /\ Working /\ Len(open) > 1
    /\ row' = Fated(Current, "undone")
    /\ aborted' = (aborted /\ lost)
    /\ NestedRollsBack(Current)
    /\ open' = Front(open)
    /\ UNCHANGED <<txPhase, todo, lost>>

\* COMMIT resolves.  Of a failed transaction the server makes a ROLLBACK and
\* reports no error.
TxCommit ==
    /\ Working /\ Len(open) = 1 /\ ~lost
    /\ row' = Fated(1, IF aborted THEN "undone" ELSE "durable")
    /\ todo' = hooks[1]
    /\ txPhase' = "callbacks"
    /\ UNCHANGED <<open, hooks, ran, aborted, lost>>

\* The work of the outermost run throws, or COMMIT rejects, which may have been
\* applied: ROLLBACK, then the rollback callbacks.
OutermostFails ==
    /\ Working /\ Len(open) = 1
    /\ row' \in {Fated(1, "undone")} \cup (IF Usable THEN {Fated(1, "durable")} ELSE {})
    /\ lost' = (lost \/ row' = Fated(1, "durable"))
    /\ ran' = RolledBack(1)
    /\ txPhase' = "rejected"
    /\ UNCHANGED <<open, hooks, todo, aborted>>

\* runPostCommitCallbacks(): one after the other; one that throws is reported
\* and does not keep the others from running.
CallbackRuns ==
    /\ txPhase = "callbacks" /\ todo # <<>>
    /\ ran' = [ran EXCEPT ![Head(todo)] = @ \cup {"commit"}]
    /\ todo' = Tail(todo)
    /\ UNCHANGED <<txPhase, open, row, hooks, aborted, lost>>

TxEnds ==
    /\ txPhase = "callbacks" /\ todo = <<>>
    /\ txPhase' = "committed"
    /\ UNCHANGED <<open, row, hooks, todo, ran, aborted, lost>>

TxNext ==
    \/ TxBegin \/ TxWrite \/ StatementRejects
    \/ OpenNested \/ NestedOk \/ NestedFails
    \/ TxCommit \/ OutermostFails
    \/ CallbackRuns \/ TxEnds

TxSpec == TxInit /\ [][TxNext]_txVars

------------------------------------------------------------------------------

\* Callbacks tell the truth about their rows.  A transaction that rejects has
\* called no afterCommit callback; one that resolves has called, for every
\* scope, afterCommit if its row is durable and afterRollback if it was undone,
\* and never the other.  Excepted is work that swallowed the rejection of a
\* statement and let COMMIT of a failed transaction go through.
CallbacksMatchOutcome ==
    /\ txPhase = "rejected" => \A s \in Scope : "commit" \notin ran[s]
    /\ txPhase = "committed" /\ ~aborted =>
        \A s \in Used :
            /\ row[s] = "durable" => ran[s] = {"commit"}
            /\ row[s] = "undone" => ran[s] = {"rollback"}
==============================================================================
