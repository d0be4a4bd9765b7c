---------------------------- MODULE AsyncExecutor ----------------------------
(***************************************************************************)
(* core/obscura_async_operations.py: execute_concurrent runs several page  *)
(* fetches behind a semaphore, each with a deadline and each trying again  *)
(* when it fails; without the feature flag it runs them one by one, with   *)
(* neither.                                                                *)
(***************************************************************************)
EXTENDS Naturals, FiniteSets

CONSTANTS
  Operation,      \* the operations of the call
  MaxConcurrent,  \* max_concurrent
  MaxRetries      \* max_retries

ASSUME AsyncExecutorAssumption ==
  IsFiniteSet(Operation) /\ MaxConcurrent \in Nat \ {0} /\ MaxRetries \in Nat \ {0}

VARIABLES
  flag,      \* is_obscura_advanced_feature_enabled
  slots,     \* what is left of the semaphore
  op,        \* per operation, where it is
  attempt,   \* per operation, the attempt it is at
  gathered   \* what became of the call

execVars == <<flag, slots, op, attempt, gathered>>

ExecInit ==
  /\ flag = FALSE
  /\ slots = MaxConcurrent
  /\ op = [o \in Operation |-> "queued"]
  /\ attempt = [o \in Operation |-> 1]
  /\ gathered = "none"

Over == {"result", "error", "timeout"}

\* execute_concurrent, with the feature on or off by then.
Call ==
  /\ gathered = "none"
  /\ flag' \in BOOLEAN
  /\ gathered' = "running"
  /\ UNCHANGED <<slots, op, attempt>>

\* execute waits for the semaphore; one by one, for the operation before.
Begins(o) ==
  /\ gathered = "running" /\ op[o] = "queued"
  /\ IF flag THEN slots > 0 /\ slots' = slots - 1
     ELSE (\A p \in Operation : op[p] \in Over \union {"queued"}) /\ UNCHANGED slots
  /\ op' = [op EXCEPT ![o] = "fetch"]
  /\ UNCHANGED <<flag, attempt, gathered>>

Releases == slots' = IF flag THEN slots + 1 ELSE slots

\* fetch_with_retry: goto and content work ...
Fetched(o) ==
  /\ op[o] = "fetch"
  /\ op' = [op EXCEPT ![o] = "result"]
  /\ Releases
  /\ UNCHANGED <<flag, attempt, gathered>>

\* ... or raise: the last attempt's error is the operation's, and ends the
\* call when the operations run one by one ...
FetchFails(o) ==
  /\ op[o] = "fetch"
  /\ IF attempt[o] < MaxRetries
     THEN op' = [op EXCEPT ![o] = "sleep"] /\ UNCHANGED <<slots, gathered>>
     ELSE /\ op' = [op EXCEPT ![o] = "error"]
          /\ Releases
          /\ gathered' = IF flag THEN gathered ELSE "raised"
  /\ UNCHANGED <<flag, attempt>>

Retries(o) ==
  /\ op[o] = "sleep"
  /\ op' = [op EXCEPT ![o] = "fetch"]
  /\ attempt' = [attempt EXCEPT ![o] = @ + 1]
  /\ UNCHANGED <<flag, slots, gathered>>

\* ... and the semaphore is left however the operation ends.
LeavesSlot == slots' = slots + 1

\* wait_for: behind the semaphore, an operation has a deadline.
TimesOut(o) ==
  /\ flag /\ op[o] \in {"fetch", "sleep"}
  /\ op' = [op EXCEPT ![o] = "timeout"]
  /\ LeavesSlot
  /\ UNCHANGED <<flag, attempt, gathered>>

\* gather returns when all are over, or the loop does.
Gathers ==
  /\ gathered = "running"
  /\ \A o \in Operation : op[o] \in Over
  /\ gathered' = "returned"
  /\ UNCHANGED <<flag, slots, op, attempt>>

ExecNext ==
  \/ Call
  \/ \E o \in Operation :
       Begins(o) \/ Fetched(o) \/ FetchFails(o) \/ Retries(o) \/ TimesOut(o)
  \/ Gathers

\* Deadlines pass; that a fetch ends by itself is not assumed.
ExecFairness ==
  /\ \A o \in Operation : WF_execVars(Begins(o)) /\ WF_execVars(TimesOut(o))
  /\ WF_execVars(Gathers)

ExecSpec == ExecInit /\ [][ExecNext]_execVars

-----------------------------------------------------------------------------
ExecTypeOK ==
  /\ flag \in BOOLEAN
  /\ slots \in 0..MaxConcurrent
  /\ op \in [Operation -> Over \union {"queued", "fetch", "sleep"}]
  /\ attempt \in [Operation -> 1..MaxRetries]
  /\ gathered \in {"none", "running", "returned", "raised"}

InProgress == {o \in Operation : op[o] \in {"fetch", "sleep"}}

\* However operations end, by an answer, their last error or their deadline, in
\* the middle of a fetch or between two: a slot comes back once for each, so that
\* at most max_concurrent run; one by one there is one; and when execute_concurrent
\* is over, with answers or an error, it has left nothing running.
SlotsAccounted ==
  /\ flag => slots + Cardinality(InProgress) = MaxConcurrent
  /\ ~flag => Cardinality(InProgress) <= 1
  /\ gathered \in {"returned", "raised"} => InProgress = {}
=============================================================================
