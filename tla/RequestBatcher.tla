--------------------------- MODULE RequestBatcher ---------------------------
(***************************************************************************)
(* RequestBatcher of core/obscura_request_optimizer.py: callers queue a    *)
(* request and wait on a future; a queue of BatchSize is handed to a task  *)
(* that runs the requests together, a full one makes the caller run its    *)
(* own, and a flush runs what is queued one by one.                        *)
(*                                                                         *)
(* The queue's lock is held across an await only while a request runs      *)
(* because the queue was full; everything else under it is one action.     *)
(* batch_timeout and _pending_batches are never read.                      *)
(***************************************************************************)
EXTENDS Naturals, Sequences

CONSTANTS
  Request,    \* the requests, each of a caller of its own
  BatchSize,  \* batch_size
  MaxQueue,   \* max_queue_size
  NoRequest

ASSUME RequestBatcherAssumption ==
  BatchSize \in Nat \ {0} /\ MaxQueue \in Nat /\ NoRequest \notin Request

VARIABLES
  queue,       \* _request_queue
  processing,  \* _processing
  due,         \* how many _process_batch tasks have not begun
  batch,       \* the requests the running batch took
  answering,   \* whether that batch has answered them and waits for the lock
  flushing,    \* what a flush still has to run
  direct,      \* the request that runs under the lock, or NoRequest
  future,      \* per request, what its caller sees
  runs         \* monitor: how often a request was run

queueVars == <<queue, processing, due, batch, answering, flushing, direct>>
batchVars == <<queueVars, future, runs>>

Future == {"new", "waiting", "answered", "failed", "cancelled"}

BatchInit ==
  /\ queue = <<>> /\ processing = FALSE /\ due = 0
  /\ batch = <<>> /\ answering = FALSE
  /\ flushing = <<>>
  /\ direct = NoRequest
  /\ future = [r \in Request |-> "new"]
  /\ runs = [r \in Request |-> 0]

In(r, seq) == \E i \in DOMAIN seq : seq[i] = r

Taken(seq, n) == SubSeq(seq, 1, IF n < Len(seq) THEN n ELSE Len(seq))

Left(seq, n) == SubSeq(seq, n + 1, Len(seq))

Ran(seq) == runs' = [r \in Request |-> IF In(r, seq) THEN runs[r] + 1 ELSE runs[r]]

Unlocked == direct = NoRequest

-----------------------------------------------------------------------------
\* add_request: the one that fills a batch makes a task for it ...
AddRequest(r) ==
  /\ future[r] = "new" /\ Unlocked /\ Len(queue) < MaxQueue
  /\ queue' = Append(queue, r)
  /\ due' = IF Len(queue) + 1 >= BatchSize THEN due + 1 ELSE due
  /\ future' = [future EXCEPT ![r] = "waiting"]
  /\ UNCHANGED <<processing, batch, answering, flushing, direct, runs>>

\* ... and one that finds the queue full runs its own, with the lock.
RunDirectly(r) ==
  /\ future[r] = "new" /\ Unlocked /\ Len(queue) >= MaxQueue
  /\ direct' = r
  /\ Ran(<<r>>)
  /\ UNCHANGED <<queue, processing, due, batch, answering, flushing, future>>

DirectEnds ==
  /\ ~ Unlocked
  /\ \E outcome \in {"answered", "cancelled"} : future' = [future EXCEPT ![direct] = outcome]
  /\ direct' = NoRequest
  /\ UNCHANGED <<queue, processing, due, batch, answering, flushing, runs>>

\* The caller of a queued request is cancelled, and its future with it.
CancelCaller(r) ==
  /\ future[r] = "waiting"
  /\ future' = [future EXCEPT ![r] = "cancelled"]
  /\ UNCHANGED <<queueVars, runs>>

\* _process_batch: one at a time.
ProcessBatch ==
  /\ due > 0 /\ Unlocked
  /\ due' = due - 1
  /\ IF processing \/ queue = <<>> THEN UNCHANGED <<queue, processing, batch, runs>>
     ELSE /\ processing' = TRUE
          /\ batch' = Taken(queue, BatchSize)
          /\ queue' = Left(queue, BatchSize)
          /\ Ran(batch')
  /\ UNCHANGED <<answering, flushing, direct, future>>

\* Fault: the handler for what set_result raises is missing.
AnsweredUntilCancelled(r) ==
  LET i == CHOOSE j \in DOMAIN batch : batch[j] = r
  IN IF future[r] # "waiting" THEN future[r]
     ELSE IF \E j \in 1..(i - 1) : future[batch[j]] = "cancelled" THEN "waiting" ELSE "answered"

\* The results are set in order; setting one of a cancelled caller raises, and
\* the requests after it get that error for an answer.
Answered(r) ==
  LET i == CHOOSE j \in DOMAIN batch : batch[j] = r
  IN IF future[r] # "waiting" THEN future[r]
     ELSE IF \E j \in 1..(i - 1) : future[batch[j]] = "cancelled" THEN "failed" ELSE "answered"

\* Fault: nobody looks at the queue when a batch ends.
BatchOverForgets ==
  /\ processing' = FALSE /\ batch' = <<>> /\ answering' = FALSE
  /\ UNCHANGED due

\* Its finally, with the lock: a queue that is still full gets another task.
BatchOver ==
  /\ processing' = FALSE /\ batch' = <<>> /\ answering' = FALSE
  /\ due' = IF Len(queue) >= BatchSize THEN due + 1 ELSE due

BatchAnswers ==
  /\ processing /\ ~ answering
  /\ future' = [r \in Request |-> IF In(r, batch) THEN Answered(r) ELSE future[r]]
  /\ IF Unlocked THEN BatchOver ELSE answering' = TRUE /\ UNCHANGED <<processing, batch, due>>
  /\ UNCHANGED <<queue, flushing, direct, runs>>

BatchEnds ==
  /\ answering /\ Unlocked
  /\ BatchOver
  /\ UNCHANGED <<queue, flushing, direct, future, runs>>

\* flush takes all there is ...
FlushTakes == flushing' = queue /\ queue' = <<>>

Flush ==
  /\ Unlocked /\ queue # <<>> /\ flushing = <<>>
  /\ FlushTakes
  /\ UNCHANGED <<processing, due, batch, answering, direct, future, runs>>

\* ... and runs it one by one; it ends at a caller that was cancelled, and the
\* requests after that one are lost.
FlushRuns ==
  /\ flushing # <<>>
  /\ LET r == Head(flushing)
     IN /\ Ran(<<r>>)
        /\ IF future[r] = "cancelled" THEN flushing' = <<>> /\ UNCHANGED future
           ELSE flushing' = Tail(flushing) /\ future' = [future EXCEPT ![r] = "answered"]
  /\ UNCHANGED <<queue, processing, due, batch, answering, direct>>

BatchNext ==
  \/ \E r \in Request : AddRequest(r) \/ RunDirectly(r) \/ CancelCaller(r)
  \/ DirectEnds \/ ProcessBatch \/ BatchAnswers \/ BatchEnds \/ Flush \/ FlushRuns

BatchSpec == BatchInit /\ [][BatchNext]_batchVars

\* The event loop runs what it can, and requests come to an end.
BatchFairness ==
  /\ WF_batchVars(ProcessBatch) /\ WF_batchVars(BatchAnswers) /\ WF_batchVars(BatchEnds)
  /\ WF_batchVars(DirectEnds) /\ WF_batchVars(FlushRuns)

-----------------------------------------------------------------------------
BatchTypeOK ==
  /\ queue \in Seq(Request) /\ batch \in Seq(Request) /\ flushing \in Seq(Request)
  /\ {processing, answering} \subseteq BOOLEAN
  /\ due \in Nat
  /\ direct \in Request \union {NoRequest}
  /\ future \in [Request -> Future]
  /\ runs \in [Request -> Nat]

\* A request is run once at most, whether a batch, a flush or its own caller
\* runs it and whatever of them run side by side; and a batch that ends leaves
\* none of its callers waiting for ever, whichever of them was cancelled
\* meanwhile and whoever held the lock.
BatchServes ==
  [][\A r \in Request :
       /\ runs'[r] <= 1
       /\ batch # batch' /\ In(r, batch) => future'[r] # "waiting"]_batchVars
=============================================================================
