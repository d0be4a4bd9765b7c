------------------------------ MODULE Helpers ------------------------------
(***************************************************************************)
(* Parts that need nothing of the rest: the three helpers of core/ that    *)
(* nothing but their tests uses yet, the connection pool, the request      *)
(* batcher and the concurrent executor, and the references that the        *)
(* reading tools make of a page's links.  They share no state, so a        *)
(* behaviour follows one of them.                                          *)
(***************************************************************************)
EXTENDS ConnectionPool, RequestBatcher, AsyncExecutor, References

VARIABLE part  \* the one that is followed

vars == <<part, poolVars, batchVars, execVars, refVars>>

Init ==
  /\ part \in {"pool", "batcher", "executor", "references"}
  /\ PoolInit /\ BatchInit /\ ExecInit /\ RefInit

Next ==
  /\ UNCHANGED part
  /\ \/ part = "pool" /\ PoolNext /\ UNCHANGED <<batchVars, execVars, refVars>>
     \/ part = "batcher" /\ BatchNext /\ UNCHANGED <<poolVars, execVars, refVars>>
     \/ part = "executor" /\ ExecNext /\ UNCHANGED <<poolVars, batchVars, refVars>>
     \/ part = "references" /\ RefNext /\ UNCHANGED <<poolVars, batchVars, execVars>>

Spec == Init /\ [][Next]_vars /\ BatchFairness /\ ExecFairness

-----------------------------------------------------------------------------
\* Nothing stalls.  A queue that has enough for a batch does not stay so: not
\* when the tasks made for it found another batch running, and not while callers
\* of a full queue keep the lock.  And a concurrent call with more operations
\* than slots returns, even when every fetch hangs: each one's deadline passes
\* and leaves its slot.
NothingStalls ==
  /\ Len(queue) >= BatchSize ~> Len(queue) < BatchSize
  /\ flag /\ gathered = "running" ~> gathered = "returned"

TypeOK == PoolTypeOK /\ BatchTypeOK /\ ExecTypeOK /\ RefTypeOK
=============================================================================
