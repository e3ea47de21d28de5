------------------------ MODULE SchedulerProperties -------------------------
(***************************************************************************)
(* What the scheduler should guarantee, stated over Scheduler.tla.  The    *)
(* first part holds; the last property is what a comment says and the code *)
(* does not do.                                                            *)
(***************************************************************************)
EXTENDS Scheduler

\* The newest batch whose Push has gone through the lock.
LastPushed == IF collectPc = "push" THEN scrapesOK - 1 ELSE scrapesOK

\* The type invariant: every variable of Run, its goroutines and the buffer
\* stays in range, and the queue never outgrows its capacity.
TypeOK ==
  /\ ThrottleTypeOK
  /\ items \in Seq(1..MaxBatches) /\ Len(items) <= Capacity
  /\ dropped \in 0..MaxBatches /\ notify \in BOOLEAN
  /\ collectPc \in CollectSteps /\ sendPc \in SendSteps /\ runPc \in RunSteps
  /\ collectCancelled \in BOOLEAN /\ sendCancelled \in BOOLEAN
  /\ shutdownSend \in BOOLEAN /\ fatalErr \in BOOLEAN /\ sigterm \in BOOLEAN
  /\ drain \in {"none", "complete", "deadline_exceeded"}
  /\ result \in {"none", "nil", "fatal"}
  /\ backoff \in 0..MaxSendBackoff
  /\ inflight \in 0..MaxBatches
  /\ quota \in BOOLEAN
  /\ scrapesOK \in 0..MaxBatches /\ batchesSent \in 0..MaxBatches
  /\ acked \subseteq 1..MaxBatches
  /\ popped \subseteq 1..MaxBatches
  /\ evicted \subseteq 1..MaxBatches

-----------------------------------------------------------------------------
(* The queue *)

\* The buffer holds exactly the newest batches, in scrape order with no gap,
\* however Push, eviction and Pop interleave (buffer.go, "the OLDEST batch is
\* dropped ... so the freshest data always wins").
QueueIsNewestBatches ==
  \A i \in 1..Len(items) : items[i] = LastPushed - Len(items) + i

\* The counters an operator reads add up: every scraped batch is sent,
\* dropped or pending, save one between its two counters on either side.
EveryBatchAccountedFor ==
  scrapesOK = batchesSent + dropped + Len(items)
                + (IF collectPc = "push" THEN 1 ELSE 0)
                + (IF sendPc = "count" THEN 1 ELSE 0)

\* A sender that found the queue empty and went to sleep on the channel is
\* always going to be woken once there is a batch: no wakeup is lost between
\* Peek and the select, although Push signals after it has unlocked.
NoLostWakeup ==
  sendPc = "idle" /\ HasBatch => notify \/ collectPc = "signal" \/ shutdownSend

\* Batches are attempted in scrape order, an attempt is only ever repeated or
\* followed by a newer batch, whatever is evicted meanwhile.
SendsInOrder == [][inflight' >= inflight]_vars

\* A batch the server accepted is not sent again.
NeverResendsAcked == sendPc = "send" => inflight \notin acked

\* Each batch Pop throws away unsent is matched by a batch that was delivered
\* and counted as dropped: Pop after Send can pick the wrong batch, but it
\* never loses more than the counters say, and nothing without an overflow.
UnsentPopsAreOverflows ==
  sendPc # "pop" =>
    Cardinality(popped \ acked) = Cardinality(acked \cap evicted)

\* The detailed system implements the lossy queue, the queue being read off
\* the contents of the buffer.
Oldest == IF HasBatch THEN PeekBatch ELSE LastPushed + 1
Newest == IF HasBatch THEN items[Len(items)] ELSE LastPushed
Queue == INSTANCE LossyQueue WITH oldest <- Oldest, newest <- Newest
QueueSpec == Queue!Spec

-----------------------------------------------------------------------------
(* Shutdown *)

\* Once the drain begins no batch can be added any more: the collect loop is
\* gone before shutdownSend is closed, so "empty" stays empty.
NoPushDuringDrain ==
  (shutdownSend \/ runPc \in {"check", "drain", "cancel", "joinSend", "return", "returned"})
    => collectPc = "done"

\* The context of the send loop outlives the signal: it ends early only for a
\* fatal reply, for a missed deadline or because draining is switched off.
NoEarlyAbort ==
  sendCancelled /\ runPc # "returned"
    => fatalErr \/ drain = "deadline_exceeded" \/ ~DrainEnabled

\* A drain reported as complete, with no fatal reply, has sent everything: the
\* sender does not leave while a batch that raced with the close is queued.
CleanDrainSendsAll == drain = "complete" /\ ~fatalErr => ~HasBatch

\* Run returns only when both goroutines are gone, returns the fatal error
\* even when it came during the drain, and returns nil only after a signal.
FatalReachesMain ==
  runPc = "returned" =>
    /\ sendPc = "done" /\ collectPc = "done"
    /\ fatalErr <=> result = "fatal"
    /\ result = "nil" => sigterm

\* After a signal or a fatal reply Run returns, whatever the sink does, with
\* batches queued or not and wherever the two loops are.
ShutdownCompletes == (sigterm \/ fatalErr) ~> runPc = "returned"

\* While the agent runs, and if the sink recovers from every outage, a queued
\* batch does not stay queued for ever.
QueueMoves ==
  SinkRecovers => \A b \in 1..MaxBatches :
    (HasBatch /\ PeekBatch = b) ~> (~(HasBatch /\ PeekBatch = b) \/ collectCancelled)

\* Run implements the contract main relies on, see RunContract.
RunPhase ==
  CASE runPc = "wait"     -> "running"
    [] runPc = "returned" -> "returned"
    [] OTHER              -> "stopping"
Contract == INSTANCE RunContract WITH phase <- RunPhase, signalled <- sigterm,
                                      fatal <- fatalErr
ContractSpec == Contract!Spec

-----------------------------------------------------------------------------
(* A claim of the comments that the code does not meet *)

\* scheduler.go:524-527: a batch stays at the head until Send returned nil or
\* Push evicted it, so what Pop removes has been sent.
PopsOnlyWhatWasSent == popped \subseteq acked
=============================================================================
