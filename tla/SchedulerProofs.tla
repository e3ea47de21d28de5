-------------------------- MODULE SchedulerProofs ---------------------------
(***************************************************************************)
(* Proofs that the properties of SchedulerProperties hold for every        *)
(* capacity, every bound and every choice of the timeouts and back-offs:   *)
(* first the queue and the types, then the shutdown protocol, then what    *)
(* the sender makes of the queue.                                          *)
(***************************************************************************)
EXTENDS SchedulerProperties, TLAPS, SequenceTheorems, FiniteSetTheorems

USE CapacityAssumption, ThrottleAssumption, BackoffAssumption, SchedulerAssumption

-----------------------------------------------------------------------------
(* The queue and its counters *)

\* TypeOK, with the two counters bounded by nothing: their bounds follow from
\* the accounting.
BufferTypes == items \in Seq(1..MaxBatches) /\ Len(items) <= Capacity /\ dropped \in Nat

CollectTypes == collectPc \in CollectSteps /\ scrapesOK \in 0..MaxBatches

SendTypes ==
  /\ sendPc \in SendSteps
  /\ backoff \in 0..MaxSendBackoff /\ inflight \in 0..MaxBatches
  /\ batchesSent \in Nat

RunTypes ==
  /\ runPc \in RunSteps
  /\ drain \in {"none", "complete", "deadline_exceeded"}
  /\ result \in {"none", "nil", "fatal"}

GhostTypes ==
  /\ acked \subseteq 1..MaxBatches
  /\ popped \subseteq 1..MaxBatches
  /\ evicted \subseteq 1..MaxBatches

FlagTypes ==
  /\ notify \in BOOLEAN /\ quota \in BOOLEAN
  /\ collectCancelled \in BOOLEAN /\ sendCancelled \in BOOLEAN
  /\ shutdownSend \in BOOLEAN /\ fatalErr \in BOOLEAN /\ sigterm \in BOOLEAN

\* Where the two loops stand in relation to the queue: what is being pushed
\* has a number, and the sender holds a batch only while the queue has one,
\* because an eviction always makes room for a newer batch.
LoopsAndQueue ==
  /\ collectPc = "push" => scrapesOK >= 1
  /\ sendPc = "send" => inflight >= 1
  /\ sendPc \in {"send", "pop"} => HasBatch

\* The inductive invariant of the queue.
QueueInv ==
  /\ BufferTypes /\ CollectTypes /\ SendTypes /\ GhostTypes
  /\ LoopsAndQueue
  /\ QueueIsNewestBatches
  /\ EveryBatchAccountedFor

\* The back-off operators stay within [0, MaxSendBackoff].
LEMMA BackoffRange ==
  ASSUME NEW b \in 0..MaxSendBackoff, NEW d \in Nat
  PROVE  /\ NextBackoff(b) \in 0..MaxSendBackoff
         /\ RetryAfterBackoff(b, d) \in 0..MaxSendBackoff
BY DEF NextBackoff, RetryAfterBackoff

\* Push appends at the new end, after making room when there is none.
LEMMA PushLockedItems ==
  ASSUME items \in Seq(1..MaxBatches), Len(items) <= Capacity,
         NEW b \in 1..MaxBatches, PushLocked(b)
  PROVE  /\ items' \in Seq(1..MaxBatches)
         /\ Len(items') = IF IsFull THEN Len(items) ELSE Len(items) + 1
         /\ items'[Len(items')] = b
         /\ \A i \in 1..Len(items') - 1 :
              items'[i] = IF IsFull THEN items[i + 1] ELSE items[i]
<1>1. CASE ~IsFull
  <2>1. items' = Append(items, b)
    BY <1>1 DEF PushLocked
  <2>2. QED
    BY <1>1, <2>1, AppendProperties
<1>2. CASE IsFull
  <2>1. items # <<>>
    BY <1>2, EmptySeq DEF IsFull
  <2>2. /\ Tail(items) \in Seq(1..MaxBatches)
        /\ Len(Tail(items)) = Len(items) - 1
        /\ \A i \in 1..Len(Tail(items)) : Tail(items)[i] = items[i + 1]
    BY <2>1, HeadTailProperties
  <2>3. items' = Append(Tail(items), b)
    BY <1>2 DEF PushLocked
  <2>4. QED
    BY <1>2, <2>2, <2>3, AppendProperties
<1>3. QED
  BY <1>1, <1>2

\* Pop removes the head, when there is one.
LEMMA PopHeadItems ==
  ASSUME items \in Seq(1..MaxBatches), HasBatch, PopHead
  PROVE  /\ items' \in Seq(1..MaxBatches)
         /\ Len(items') = Len(items) - 1
         /\ \A i \in 1..Len(items') : items'[i] = items[i + 1]
         /\ Head(items) \in 1..MaxBatches /\ Head(items) = items[1]
         /\ Len(items) >= 1
BY HeadTailProperties, EmptySeq DEF HasBatch, PopHead

\* The queue starts empty and nothing has been counted.
LEMMA QueueInvInit == Init => QueueInv
<1> SUFFICES ASSUME Init PROVE QueueInv
  OBVIOUS
<1> USE DEF Init, BufferInit
<1>1. BufferTypes
  BY EmptySeq DEF BufferTypes
<1>2. CollectTypes /\ SendTypes /\ GhostTypes
  BY DEF CollectTypes, SendTypes, GhostTypes, CollectSteps, SendSteps
<1>3. LoopsAndQueue
  BY DEF LoopsAndQueue
<1>4. QueueIsNewestBatches
  BY EmptySeq DEF QueueIsNewestBatches
<1>5. EveryBatchAccountedFor
  BY EmptySeq DEF EveryBatchAccountedFor
<1>6. QED
  BY <1>1, <1>2, <1>3, <1>4, <1>5 DEF QueueInv

\* Steps that leave the queue, the counters and the loops' places in it alone
\* leave the invariant alone.
LEMMA QueueUntouched ==
  ASSUME QueueInv, CollectTypes', SendTypes', GhostTypes',
         UNCHANGED <<items, dropped, scrapesOK, batchesSent, inflight>>,
         collectPc = "push" <=> collectPc' = "push",
         sendPc = "count" <=> sendPc' = "count",
         sendPc' = "send" => sendPc = "send",
         sendPc' = "pop" => sendPc \in {"send", "pop"}
  PROVE  QueueInv'
<1> USE DEF QueueInv
<1>1. BufferTypes'
  BY DEF BufferTypes
<1>2. LoopsAndQueue'
  BY DEF LoopsAndQueue, HasBatch
<1>3. QueueIsNewestBatches'
  BY DEF QueueIsNewestBatches, LastPushed
<1>4. EveryBatchAccountedFor'
  BY DEF EveryBatchAccountedFor
<1>5. QED
  BY <1>1, <1>2, <1>3, <1>4

-----------------------------------------------------------------------------
(* Which steps touch the throttle *)

ThrottleStep == BeginTick \/ TickStep \/ EndTick \/ BeginEngage \/ EngageStep
                  \/ EndEngage \/ AdvanceClock

\* Every step of the system is a step of the throttle or leaves it alone.
LEMMA ThrottleEffects == [Next]_vars => ThrottleStep \/ UNCHANGED throttleVars
<1> SUFFICES ASSUME [Next]_vars PROVE ThrottleStep \/ UNCHANGED throttleVars
  OBVIOUS
<1> USE DEF sendQuiet, notRun
<1>1. CASE CollectNext
  BY <1>1, Zenon DEF CollectNext, ScrapeBatch, ScrapeEmpty, PushBatch, SignalPush,
    CollectStop, TickFires, ShouldSkipTick, TickReturns, ThrottleStep
<1>2. CASE SendNext
  <2>1. CASE SendReturns
    BY <2>1, Zenon DEF SendReturns, SendSucceeds, SendFatal, SendRetryAfter, SendFails,
                SendEnds
  <2>2. CASE CountSent \/ EngageThrottle \/ EngageReturns
    BY <2>2, Zenon DEF CountSent, EngageThrottle, EngageReturns, ThrottleStep
  <2>3. QED
    BY <1>2, <2>1, <2>2, Zenon DEF SendNext, CheckCtx, PeekHead, IdleCtxDone,
      IdleShutdown, IdleNotified, RecheckPeek, WakeUp, PopSent, SetFatal, CancelCollect,
      CancelSend
<1>3. CASE RunNext
  BY <1>3, Zenon DEF RunNext, AwaitShutdown, JoinCollect, CheckFatal, CloseShutdown,
    DrainComplete, DrainDeadline, StopSender, JoinSend, Return
<1>4. CASE Sigterm \/ TimePasses
  BY <1>4, Zenon DEF Sigterm, TimePasses, ThrottleStep
<1>5. CASE Terminated \/ UNCHANGED vars
  BY <1>5, Zenon DEF Terminated, vars
<1>6. QED
  BY <1>1, <1>2, <1>3, <1>4, <1>5 DEF Next

\* The activation records and the two atomics keep their types.
LEMMA ThrottleTyped ==
  ASSUME ThrottleTypeOK, ThrottleStep \/ UNCHANGED throttleVars
  PROVE  ThrottleTypeOK'
<1> USE DEF ThrottleTypeOK, TickSteps, EngageSteps
<1>1. CASE BeginTick
  BY <1>1 DEF BeginTick
<1>2. CASE TickStep
  <2>1. CASE TickLoadUntil
    BY <2>1 DEF TickLoadUntil
  <2>2. CASE TickReadClock
    BY <2>2 DEF TickReadClock
  <2>3. CASE TickClearUntil
    BY <2>3 DEF TickClearUntil
  <2>4. CASE TickClearSkip
    BY <2>4 DEF TickClearSkip
  <2>5. CASE TickLoadSkip
    BY <2>5 DEF TickLoadSkip
  <2>6. CASE TickStoreSkip
    BY <2>6 DEF TickStoreSkip
  <2>7. QED
    BY <1>2, <2>1, <2>2, <2>3, <2>4, <2>5, <2>6 DEF TickStep
<1>3. CASE EndTick
  BY <1>3 DEF EndTick, NoTick
<1>4. CASE BeginEngage
  BY <1>4 DEF BeginEngage
<1>5. CASE EngageStep
  <2>1. CASE EngageReadClock
    BY <2>1 DEF EngageReadClock
  <2>2. CASE EngageSwap
    BY <2>2 DEF EngageSwap
  <2>3. CASE EngageResetSkip
    BY <2>3 DEF EngageResetSkip
  <2>4. QED
    BY <1>5, <2>1, <2>2, <2>3 DEF EngageStep
<1>6. CASE EndEngage
  BY <1>6 DEF EndEngage, NoEngage
<1>7. CASE AdvanceClock
  BY <1>7 DEF AdvanceClock
<1>8. CASE UNCHANGED throttleVars
  BY <1>8 DEF throttleVars
<1>9. QED
  BY <1>1, <1>2, <1>3, <1>4, <1>5, <1>6, <1>7, <1>8 DEF ThrottleStep

-----------------------------------------------------------------------------
(* The queue invariant is inductive *)

\* A push gives the new batch the next number after the newest one queued.
LEMMA PushKeepsQueue ==
  ASSUME QueueInv, PushBatch
  PROVE  QueueInv'
<1> USE DEF QueueInv
<1> DEFINE n == Len(items)
<1>1. /\ scrapesOK \in 1..MaxBatches /\ scrapesOK' = scrapesOK
      /\ collectPc = "push" /\ collectPc' = "signal" /\ PushLocked(scrapesOK)
      /\ n \in Nat /\ n <= Capacity
  BY LenProperties DEF PushBatch, LoopsAndQueue, CollectTypes, BufferTypes
<1>2. UNCHANGED <<sendPc, backoff, inflight, batchesSent, acked, popped>>
  BY DEF PushBatch, notCollect, sendVars, otherGhosts
<1>3. /\ items' \in Seq(1..MaxBatches)
      /\ Len(items') = IF IsFull THEN n ELSE n + 1
      /\ items'[Len(items')] = scrapesOK
      /\ \A i \in 1..Len(items') - 1 : items'[i] = IF IsFull THEN items[i + 1] ELSE items[i]
  BY <1>1, PushLockedItems DEF BufferTypes
<1>4. IsFull <=> n = Capacity
  BY <1>1 DEF IsFull
<1>5. dropped' = IF IsFull THEN dropped + 1 ELSE dropped
  BY <1>1 DEF PushLocked
<1>6. BufferTypes'
  BY <1>1, <1>3, <1>4, <1>5 DEF BufferTypes
<1>7. CollectTypes' /\ SendTypes'
  BY <1>1, <1>2 DEF CollectTypes, SendTypes, CollectSteps
<1>8. GhostTypes'
  <2>1. CASE IsFull
    <3>1. Head(items) \in 1..MaxBatches
      BY <1>1, <1>4, <2>1, EmptySeq, HeadTailProperties DEF BufferTypes
    <3>2. QED
      BY <1>2, <2>1, <3>1 DEF PushBatch, GhostTypes
  <2>2. CASE ~IsFull
    BY <1>2, <2>2 DEF PushBatch, GhostTypes
  <2>3. QED
    BY <2>1, <2>2
<1>9. LoopsAndQueue'
  BY <1>1, <1>2, <1>3, <1>4, EmptySeq DEF LoopsAndQueue, HasBatch
<1>10. QueueIsNewestBatches'
  <2> DEFINE m == Len(items')
  <2> SUFFICES ASSUME NEW i \in 1..m
               PROVE  items'[i] = scrapesOK - m + i
    BY <1>1 DEF QueueIsNewestBatches, LastPushed
  <2>1. \A k \in 1..n : items[k] = scrapesOK - 1 - n + k
    BY <1>1 DEF QueueIsNewestBatches, LastPushed
  <2>2. scrapesOK \in Int /\ m \in Int /\ i \in Int /\ n \in Int
    BY <1>1, <1>3
  <2>3. CASE i = m
    BY <1>3, <2>2, <2>3
  <2>4. CASE i < m /\ IsFull
    <3>1. m = n /\ i + 1 \in 1..n /\ items'[i] = items[i + 1]
      BY <1>3, <2>2, <2>4
    <3>2. items[i + 1] = scrapesOK - 1 - n + (i + 1)
      BY <2>1, <3>1
    <3>3. QED
      BY <2>2, <3>1, <3>2
  <2>5. CASE i < m /\ ~IsFull
    <3>1. m = n + 1 /\ i \in 1..n /\ items'[i] = items[i]
      BY <1>3, <2>2, <2>5
    <3>2. items[i] = scrapesOK - 1 - n + i
      BY <2>1, <3>1
    <3>3. QED
      BY <2>2, <3>1, <3>2
  <2>6. QED
    BY <2>2, <2>3, <2>4, <2>5
<1>11. EveryBatchAccountedFor'
  <2> DEFINE counting == IF sendPc = "count" THEN 1 ELSE 0
  <2>1. counting' = counting /\ counting \in Int
    BY <1>2
  <2>2. /\ dropped \in Int /\ batchesSent \in Int /\ dropped' \in Int
        /\ Len(items') \in Int /\ scrapesOK \in Int /\ n \in Int
    BY <1>1, <1>3, <1>5 DEF BufferTypes, SendTypes
  <2>3. scrapesOK = batchesSent + dropped + n + 1 + counting
    BY <1>1, <2>1 DEF EveryBatchAccountedFor
  <2>4. dropped' + Len(items') = dropped + n + 1
    BY <1>1, <1>3, <1>5, <2>2
  <2>5. scrapesOK' = batchesSent' + dropped' + Len(items') + 0 + counting'
    <3> HIDE DEF counting, n
    <3>1. scrapesOK' = scrapesOK /\ batchesSent' = batchesSent
      BY <1>1, <1>2
    <3>2. QED
      BY <2>1, <2>2, <2>3, <2>4, <3>1
  <2>6. QED
    BY <1>1, <2>5 DEF EveryBatchAccountedFor
<1>12. QED
  BY <1>6, <1>7, <1>8, <1>9, <1>10, <1>11

\* A pop takes the oldest batch: the sender never finds the queue empty here.
LEMMA PopKeepsQueue ==
  ASSUME QueueInv, PopSent
  PROVE  QueueInv'
<1> USE DEF QueueInv
<1>1. /\ sendPc = "pop" /\ sendPc' = "count" /\ HasBatch /\ PopHead
      /\ popped' = popped \cup {Head(items)}
  BY DEF PopSent, LoopsAndQueue
<1>2. UNCHANGED <<backoff, inflight, batchesSent, collectPc, scrapesOK, acked, evicted, dropped>>
  BY <1>1 DEF PopSent, sendLocals, notSend, collectVars, PopHead
<1>3. /\ items' \in Seq(1..MaxBatches)
      /\ Len(items) \in Nat /\ Len(items) >= 1 /\ Len(items') = Len(items) - 1
      /\ \A i \in 1..Len(items') : items'[i] = items[i + 1]
      /\ Head(items) \in 1..MaxBatches
  BY <1>1, PopHeadItems, LenProperties DEF BufferTypes
<1>4. BufferTypes'
  BY <1>2, <1>3 DEF BufferTypes
<1>5. CollectTypes' /\ SendTypes'
  BY <1>1, <1>2 DEF CollectTypes, SendTypes, SendSteps
<1>6. GhostTypes'
  BY <1>1, <1>2, <1>3 DEF GhostTypes
<1>7. LoopsAndQueue'
  BY <1>1, <1>2 DEF LoopsAndQueue
<1>8. QueueIsNewestBatches'
  <2>1. LastPushed' = LastPushed /\ LastPushed \in Int
    BY <1>2 DEF LastPushed, CollectTypes
  <2>2. QED
    BY <1>3, <2>1 DEF QueueIsNewestBatches
<1>9. EveryBatchAccountedFor'
  BY <1>1, <1>2, <1>3 DEF EveryBatchAccountedFor, BufferTypes, SendTypes
<1>10. QED
  BY <1>4, <1>5, <1>6, <1>7, <1>8, <1>9

\* A scrape raises the number of the newest batch, which is about to be pushed.
LEMMA ScrapeKeepsQueue ==
  ASSUME QueueInv, ScrapeBatch
  PROVE  QueueInv'
<1> USE DEF QueueInv
<1>1. /\ collectPc = "scrape" /\ collectPc' = "push"
      /\ scrapesOK < MaxBatches /\ scrapesOK' = scrapesOK + 1
      /\ UNCHANGED <<items, dropped, sendPc, backoff, inflight, batchesSent, acked,
                     popped, evicted>>
  BY DEF ScrapeBatch, bufferVars, notCollect, sendVars, otherGhosts
<1>2. BufferTypes' /\ SendTypes' /\ GhostTypes'
  BY <1>1 DEF BufferTypes, SendTypes, GhostTypes
<1>3. CollectTypes'
  BY <1>1 DEF CollectTypes, CollectSteps
<1>4. LoopsAndQueue'
  BY <1>1 DEF LoopsAndQueue, HasBatch, CollectTypes
<1>5. QueueIsNewestBatches'
  BY <1>1 DEF QueueIsNewestBatches, LastPushed, CollectTypes
<1>6. EveryBatchAccountedFor'
  <2> DEFINE counting == IF sendPc = "count" THEN 1 ELSE 0
  <2>1. counting' = counting /\ counting \in Int
    BY <1>1
  <2>2. /\ dropped \in Int /\ batchesSent \in Int /\ Len(items) \in Int
        /\ scrapesOK \in Int
    BY DEF BufferTypes, SendTypes, CollectTypes
  <2>3. scrapesOK = batchesSent + dropped + Len(items) + 0 + counting
    BY <1>1, <2>1 DEF EveryBatchAccountedFor
  <2>4. scrapesOK' = batchesSent' + dropped' + Len(items') + 1 + counting'
    <3> HIDE DEF counting
    <3>1. /\ scrapesOK' = scrapesOK + 1 /\ batchesSent' = batchesSent
          /\ dropped' = dropped /\ items' = items
      BY <1>1
    <3>2. QED
      BY <2>1, <2>2, <2>3, <3>1
  <2>5. QED
    BY <1>1, <2>4 DEF EveryBatchAccountedFor
<1>7. QED
  BY <1>2, <1>3, <1>4, <1>5, <1>6

\* The other steps of the collect loop do not push.
LEMMA CollectKeepsQueue ==
  ASSUME QueueInv, CollectNext
  PROVE  QueueInv'
<1> USE DEF bufferVars, notCollect, collectVars, sendVars, otherGhosts
<1>1. CASE ScrapeBatch
  BY <1>1, ScrapeKeepsQueue
<1>2. CASE PushBatch
  BY <1>2, PushKeepsQueue
<1>3. ASSUME /\ collectPc # "push" /\ collectPc' # "push" /\ collectPc' \in CollectSteps
             /\ UNCHANGED <<items, dropped, scrapesOK, sendVars, acked, popped, evicted>>
      PROVE  QueueInv'
  <2>1. CollectTypes' /\ SendTypes' /\ GhostTypes'
    BY <1>3 DEF QueueInv, CollectTypes, SendTypes, GhostTypes
  <2>2. QED
    BY <1>3, <2>1, QueueUntouched
<1>4. CASE ScrapeEmpty
  BY <1>3, <1>4 DEF ScrapeEmpty, CollectSteps
<1>5. CASE SignalPush
  BY <1>3, <1>5 DEF SignalPush, SignalNotify, CollectSteps
<1>6. CASE CollectStop
  BY <1>3, <1>6 DEF CollectStop, CollectSteps
<1>7. CASE TickFires
  BY <1>3, <1>7 DEF TickFires, CollectSteps
<1>8. CASE ShouldSkipTick
  BY <1>3, <1>8 DEF ShouldSkipTick, CollectSteps
<1>9. CASE TickReturns
  BY <1>3, <1>9 DEF TickReturns, CollectSteps
<1>10. QED
  BY <1>1, <1>2, <1>4, <1>5, <1>6, <1>7, <1>8, <1>9 DEF CollectNext

\* The head the sender takes hold of is a real batch.
LEMMA PeekKeepsQueue ==
  ASSUME QueueInv, PeekHead
  PROVE  QueueInv'
<1> USE DEF QueueInv
<1>1. /\ sendPc = "peek"
      /\ UNCHANGED <<items, dropped, collectPc, scrapesOK, backoff, batchesSent, acked,
                     popped, evicted>>
      /\ inflight' = IF HasBatch THEN Head(items) ELSE inflight
      /\ sendPc' = IF HasBatch THEN "send" ELSE "idle"
  BY DEF PeekHead, PeekBatch, sendQuiet, bufferVars, notSend, collectVars, otherGhosts
<1>2. HasBatch => Head(items) \in 1..MaxBatches
  BY EmptySeq, HeadTailProperties DEF BufferTypes, HasBatch
<1>3. BufferTypes' /\ CollectTypes' /\ GhostTypes'
  BY <1>1 DEF BufferTypes, CollectTypes, GhostTypes
<1>4. SendTypes'
  BY <1>1, <1>2 DEF SendTypes, SendSteps
<1>5. LoopsAndQueue'
  BY <1>1, <1>2 DEF LoopsAndQueue, HasBatch
<1>6. QueueIsNewestBatches' /\ EveryBatchAccountedFor'
  BY <1>1 DEF QueueIsNewestBatches, LastPushed, EveryBatchAccountedFor
<1>7. QED
  BY <1>3, <1>4, <1>5, <1>6

\* After the pop the batch is neither queued nor counted; counting it closes
\* the gap.
LEMMA CountKeepsQueue ==
  ASSUME QueueInv, CountSent
  PROVE  QueueInv'
<1> USE DEF QueueInv
<1>1. /\ sendPc = "count" /\ sendPc' \in {"engage", "top"}
      /\ batchesSent' = batchesSent + 1 /\ backoff' = 0
      /\ UNCHANGED <<items, dropped, collectPc, scrapesOK, inflight, acked, popped,
                     evicted>>
  BY DEF CountSent, bufferVars, notSend, collectVars, otherGhosts
<1>2. BufferTypes' /\ CollectTypes' /\ GhostTypes'
  BY <1>1 DEF BufferTypes, CollectTypes, GhostTypes
<1>3. SendTypes'
  BY <1>1 DEF SendTypes, SendSteps
<1>4. LoopsAndQueue' /\ QueueIsNewestBatches'
  BY <1>1 DEF LoopsAndQueue, QueueIsNewestBatches, LastPushed
<1>5. EveryBatchAccountedFor'
  <2> DEFINE pushing == IF collectPc = "push" THEN 1 ELSE 0
  <2>1. pushing' = pushing /\ pushing \in Int
    BY <1>1
  <2>2. /\ dropped \in Int /\ batchesSent \in Int /\ Len(items) \in Int
        /\ scrapesOK \in Int
    BY DEF BufferTypes, SendTypes, CollectTypes
  <2>3. scrapesOK = batchesSent + dropped + Len(items) + pushing + 1
    BY <1>1, <2>1 DEF EveryBatchAccountedFor
  <2>4. scrapesOK' = batchesSent' + dropped' + Len(items') + pushing' + 0
    <3> HIDE DEF pushing
    <3>1. /\ scrapesOK' = scrapesOK /\ batchesSent' = batchesSent + 1
          /\ dropped' = dropped /\ items' = items
      BY <1>1
    <3>2. QED
      BY <2>1, <2>2, <2>3, <3>1
  <2>5. QED
    BY <1>1, <2>4 DEF EveryBatchAccountedFor
<1>6. QED
  BY <1>2, <1>3, <1>4, <1>5

\* The other steps of the send loop leave the queue and the counters alone.
LEMMA SendKeepsQueue ==
  ASSUME QueueInv, SendNext
  PROVE  QueueInv'
<1> USE DEF sendLocals, sendQuiet, bufferVars, notSend, collectVars, otherGhosts
<1>1. CASE PeekHead
  BY <1>1, PeekKeepsQueue
<1>2. CASE PopSent
  BY <1>2, PopKeepsQueue
<1>3. CASE CountSent
  BY <1>3, CountKeepsQueue
<1>4. CASE SendReturns
  <2>1. ASSUME NEW b \in 0..MaxSendBackoff, SendEnds, backoff' = b,
               acked' = acked \/ acked' = acked \cup {inflight},
               sendPc' \in {"pop", "sleep", "setFatal"}
        PROVE  QueueInv'
    <3>1. /\ sendPc = "send" /\ inflight \in 1..MaxBatches
          /\ UNCHANGED <<items, dropped, collectPc, scrapesOK, inflight, batchesSent,
                         popped, evicted>>
      BY <2>1 DEF SendEnds, QueueInv, LoopsAndQueue, SendTypes
    <3>2. CollectTypes' /\ SendTypes' /\ GhostTypes'
      BY <2>1, <3>1 DEF QueueInv, CollectTypes, SendTypes, SendSteps, GhostTypes
    <3>3. QED
      BY <2>1, <3>1, <3>2, QueueUntouched
  <2>2. backoff \in 0..MaxSendBackoff
    BY DEF QueueInv, SendTypes
  <2>3. ASSUME NEW q \in BOOLEAN, SendSucceeds(q) PROVE QueueInv'
    BY <2>1, <2>2, <2>3 DEF SendSucceeds
  <2>4. CASE SendFatal
    BY <2>1, <2>2, <2>4 DEF SendFatal
  <2>5. ASSUME NEW delay \in RetryAfterDelays, SendRetryAfter(delay) PROVE QueueInv'
    BY <2>1, <2>2, <2>5, BackoffRange DEF SendRetryAfter
  <2>6. CASE SendFails
    BY <2>1, <2>2, <2>6, BackoffRange DEF SendFails
  <2>7. QED
    BY <1>4, <2>3, <2>4, <2>5, <2>6 DEF SendReturns
<1>5. ASSUME sendPc # "count", sendPc' \in SendSteps \ {"send", "pop", "count"},
             UNCHANGED <<items, dropped, sendLocals, notSend, acked, popped>>
      PROVE  QueueInv'
  <2>1. CollectTypes' /\ SendTypes' /\ GhostTypes'
    BY <1>5 DEF QueueInv, CollectTypes, SendTypes, GhostTypes
  <2>2. QED
    BY <1>5, <2>1, QueueUntouched
<1>6. CASE CheckCtx
  BY <1>5, <1>6 DEF CheckCtx, SendSteps
<1>7. CASE IdleCtxDone
  BY <1>5, <1>7 DEF IdleCtxDone, SendSteps
<1>8. CASE IdleShutdown
  BY <1>5, <1>8 DEF IdleShutdown, SendSteps
<1>9. CASE IdleNotified
  BY <1>5, <1>9 DEF IdleNotified, TakeNotify, SendSteps
<1>10. CASE RecheckPeek
  BY <1>5, <1>10 DEF RecheckPeek, SendSteps
<1>11. CASE WakeUp
  BY <1>5, <1>11 DEF WakeUp, SendSteps
<1>12. CASE EngageThrottle
  BY <1>5, <1>12 DEF EngageThrottle, sendVars, SendSteps
<1>13. CASE EngageReturns
  BY <1>5, <1>13 DEF EngageReturns, SendSteps
<1>14. CASE SetFatal
  BY <1>5, <1>14 DEF SetFatal, SendSteps
<1>15. CASE CancelCollect
  BY <1>5, <1>15 DEF CancelCollect, SendSteps
<1>16. CASE CancelSend
  BY <1>5, <1>16 DEF CancelSend, SendSteps
<1>17. QED
  BY <1>1, <1>2, <1>3, <1>4, <1>6, <1>7, <1>8, <1>9, <1>10, <1>11, <1>12, <1>13, <1>14,
     <1>15, <1>16 DEF SendNext

\* Run, the clock and the signal never touch the queue.
LEMMA RunLeavesLoops ==
  RunNext \/ Sigterm \/ TimePasses \/ Terminated \/ UNCHANGED vars
    => UNCHANGED <<bufferVars, collectVars, sendVars, ghostVars>>
<1> USE DEF notRun
<1>1. CASE RunNext
  BY <1>1, Zenon DEF RunNext, AwaitShutdown, JoinCollect, CheckFatal, CloseShutdown,
    DrainComplete, DrainDeadline, StopSender, JoinSend, Return
<1>2. CASE Sigterm \/ TimePasses
  BY <1>2, Zenon DEF Sigterm, TimePasses
<1>3. CASE Terminated \/ UNCHANGED vars
  BY <1>3, Zenon DEF Terminated, vars
<1>4. QED
  BY <1>1, <1>2, <1>3

\* No step of any goroutine breaks the queue invariant.
LEMMA QueueInvStep == QueueInv /\ [Next]_vars => QueueInv'
<1> SUFFICES ASSUME QueueInv, [Next]_vars PROVE QueueInv'
  OBVIOUS
<1>1. CASE CollectNext
  BY <1>1, CollectKeepsQueue
<1>2. CASE SendNext
  BY <1>2, SendKeepsQueue
<1>3. CASE RunNext \/ Sigterm \/ TimePasses \/ Terminated \/ UNCHANGED vars
  <2>1. UNCHANGED <<items, dropped, collectVars, sendVars, ghostVars>>
    BY <1>3, RunLeavesLoops DEF bufferVars
  <2>2. CollectTypes' /\ SendTypes' /\ GhostTypes'
    BY <2>1 DEF QueueInv, CollectTypes, SendTypes, GhostTypes, collectVars, sendVars, ghostVars
  <2>3. QED
    BY <2>1, <2>2, QueueUntouched DEF collectVars, sendVars
<1>4. QED
  BY <1>1, <1>2, <1>3 DEF Next

\* The queue invariant holds in every state: the buffer is the interval of the
\* newest batches, and the counters of Stats add up.
THEOREM QueueInvHolds == Spec => []QueueInv
BY QueueInvInit, QueueInvStep, PTL DEF Spec

\* The buffer always holds the newest batches with no gap between them, for
\* every capacity and every number of scrapes.
THEOREM QueueIsNewest == Spec => []QueueIsNewestBatches
<1>1. QueueInv => QueueIsNewestBatches
  BY DEF QueueInv
<1>2. QED
  BY <1>1, QueueInvHolds, PTL

\* Every scraped batch is sent, dropped or pending, for every capacity.
THEOREM BatchesAccountedFor == Spec => []EveryBatchAccountedFor
<1>1. QueueInv => EveryBatchAccountedFor
  BY DEF QueueInv
<1>2. QED
  BY <1>1, QueueInvHolds, PTL

-----------------------------------------------------------------------------
(* Type correctness *)

\* Every step keeps the booleans, the back-off and the sender's place in range.
LEMMA FlagsTyped ==
  ASSUME FlagTypes, [Next]_vars
  PROVE  FlagTypes'
<1> USE DEF FlagTypes, bufferVars, sendVars, runVars, signalVars, otherGhosts, notCollect,
            sendLocals, sendQuiet
<1>1. CASE CollectNext
  <2>1. UNCHANGED <<sendVars, signalVars>>
    BY <1>1, Zenon DEF CollectNext, ScrapeBatch, ScrapeEmpty, PushBatch, SignalPush,
      CollectStop, TickFires, ShouldSkipTick, TickReturns
  <2>2. notify' = notify \/ notify' = TRUE
    BY <1>1, Zenon DEF CollectNext, ScrapeBatch, ScrapeEmpty, PushBatch, SignalPush,
      CollectStop, TickFires, ShouldSkipTick, TickReturns, PushLocked, SignalNotify
  <2>3. QED
    BY <2>1, <2>2, Zenon
<1>2. CASE SendNext
  <2>1. CASE CheckCtx \/ IdleCtxDone \/ IdleShutdown \/ RecheckPeek \/ WakeUp
    BY <2>1, Zenon DEF CheckCtx, IdleCtxDone, IdleShutdown, RecheckPeek, WakeUp
  <2>2. CASE PeekHead
    BY <2>2, Zenon DEF PeekHead
  <2>3. CASE IdleNotified
    BY <2>3, Zenon DEF IdleNotified, TakeNotify
  <2>4. CASE SendReturns
    <3>1. SendEnds => FlagTypes' \/ ~(quota' \in BOOLEAN)
      BY Zenon DEF SendEnds
    <3>2. SendEnds /\ (quota' = quota \/ quota' \in BOOLEAN)
      BY <2>4, Zenon DEF SendReturns, SendSucceeds, SendFatal, SendRetryAfter, SendFails
    <3>3. QED
      BY <3>1, <3>2, Zenon
  <2>5. CASE PopSent
    BY <2>5, Zenon DEF PopSent, PopHead
  <2>6. CASE CountSent
    BY <2>6, Zenon DEF CountSent
  <2>7. CASE EngageThrottle \/ EngageReturns
    BY <2>7, Zenon DEF EngageThrottle, EngageReturns
  <2>8. CASE SetFatal \/ CancelCollect \/ CancelSend
    BY <2>8, Zenon DEF SetFatal, CancelCollect, CancelSend
  <2>9. QED
    BY <1>2, <2>1, <2>2, <2>3, <2>4, <2>5, <2>6, <2>7, <2>8, Zenon DEF SendNext
<1>3. CASE RunNext
  <2>1. UNCHANGED <<bufferVars, sendVars>>
    BY <1>3, RunLeavesLoops, Zenon DEF ghostVars
  <2>2. /\ UNCHANGED <<fatalErr, sigterm>>
        /\ collectCancelled' = collectCancelled \/ collectCancelled' = TRUE
        /\ sendCancelled' = sendCancelled \/ sendCancelled' = TRUE
        /\ shutdownSend' = shutdownSend \/ shutdownSend' = TRUE
    BY <1>3, Zenon DEF RunNext, AwaitShutdown, JoinCollect, CheckFatal, CloseShutdown,
      DrainComplete, DrainDeadline, StopSender, JoinSend, Return
  <2>3. QED
    BY <2>1, <2>2, Zenon
<1>4. CASE Sigterm
  BY <1>4, Zenon DEF Sigterm, notRun, ghostVars
<1>5. CASE TimePasses \/ Terminated \/ UNCHANGED vars
  BY <1>5, Zenon DEF TimePasses, Terminated, vars, ghostVars
<1>6. QED
  BY <1>1, <1>2, <1>3, <1>4, <1>5, Zenon DEF Next

\* Only Run's own steps move Run.
LEMMA RunOwnsItsVars ==
  [Next]_vars => RunNext \/ UNCHANGED runVars
<1> SUFFICES ASSUME [Next]_vars PROVE RunNext \/ UNCHANGED runVars
  OBVIOUS
<1> USE DEF notCollect, notSend, sendQuiet
<1>1. CASE CollectNext
  BY <1>1, Zenon DEF CollectNext, ScrapeBatch, ScrapeEmpty, PushBatch, SignalPush,
    CollectStop, TickFires, ShouldSkipTick, TickReturns
<1>2. CASE SendNext
  <2>1. CASE SendReturns
    BY <2>1, Zenon DEF SendReturns, SendSucceeds, SendFatal, SendRetryAfter, SendFails,
                SendEnds
  <2>2. QED
    BY <1>2, <2>1, Zenon DEF SendNext, CheckCtx, PeekHead, IdleCtxDone,
      IdleShutdown, IdleNotified, RecheckPeek, WakeUp, PopSent, SetFatal, CancelCollect,
      CancelSend, CountSent, EngageThrottle, EngageReturns
<1>3. CASE Sigterm \/ TimePasses \/ Terminated \/ UNCHANGED vars
  BY <1>3, Zenon DEF Sigterm, TimePasses, Terminated, vars
<1>4. QED
  BY <1>1, <1>2, <1>3, Zenon DEF Next

\* Every step keeps Run's own variables in range.
LEMMA RunTyped ==
  ASSUME RunTypes, [Next]_vars
  PROVE  RunTypes'
<1> USE DEF RunTypes, RunSteps
<1>1. CASE RunNext
  BY <1>1 DEF RunNext, AwaitShutdown, JoinCollect, CheckFatal, CloseShutdown,
    DrainComplete, DrainDeadline, StopSender, JoinSend, Return
<1>2. CASE UNCHANGED runVars
  BY <1>2 DEF runVars
<1>3. QED
  BY <1>1, <1>2, RunOwnsItsVars

\* The steps of the throttle keep its types, whoever takes them.
LEMMA ThrottleStepTyped ==
  ASSUME ThrottleTypeOK, [Next]_vars
  PROVE  ThrottleTypeOK'
BY ThrottleTyped, ThrottleEffects

\* The types hold at the start.
LEMMA TypesInit == Init => ThrottleTypeOK /\ FlagTypes /\ RunTypes
<1> SUFFICES ASSUME Init PROVE ThrottleTypeOK /\ FlagTypes /\ RunTypes
  OBVIOUS
<1>1. ThrottleTypeOK
  <2>1. now \in 1..MaxTime /\ throttleUntil \in Nat
    BY DEF Init, ThrottleInit
  <2>2. skipNext \in BOOLEAN
    BY Zenon DEF Init, ThrottleInit
  <2>3. /\ tick \in [pc : TickSteps, until : Nat, skip : BOOLEAN]
        /\ engage \in [pc : EngageSteps, deadline : Nat]
    BY DEF Init, ThrottleInit, NoTick, NoEngage, TickSteps, EngageSteps
  <2>4. QED
    BY <2>1, <2>2, <2>3 DEF ThrottleTypeOK
<1>2. FlagTypes
  BY Zenon DEF Init, BufferInit, FlagTypes
<1>3. RunTypes
  BY DEF Init, RunTypes, RunSteps
<1>4. QED
  BY <1>1, <1>2, <1>3

\* The counters are bounded by the number of scrapes, because of the accounting.
LEMMA TypesGiveTypeOK ==
  ASSUME QueueInv, ThrottleTypeOK, FlagTypes, RunTypes
  PROVE  TypeOK
<1>1. dropped \in 0..MaxBatches /\ batchesSent \in 0..MaxBatches
  BY DEF QueueInv, EveryBatchAccountedFor, BufferTypes, SendTypes, CollectTypes
<1>2. QED
  BY <1>1, Zenon DEF TypeOK, QueueInv, BufferTypes, CollectTypes, SendTypes, GhostTypes,
    FlagTypes, RunTypes

\* Every variable keeps its type and the queue its capacity, for every
\* capacity, every clock bound and every choice of timeouts and hints.
THEOREM TypeCorrect == Spec => []TypeOK
<1>1. Init => ThrottleTypeOK /\ FlagTypes /\ RunTypes
  BY TypesInit
<1>2. (ThrottleTypeOK /\ FlagTypes /\ RunTypes) /\ [Next]_vars
        => (ThrottleTypeOK /\ FlagTypes /\ RunTypes)'
  BY ThrottleStepTyped, FlagsTyped, RunTyped
<1>3. QueueInv /\ ThrottleTypeOK /\ FlagTypes /\ RunTypes => TypeOK
  BY TypesGiveTypeOK
<1>4. QED
  BY <1>1, <1>2, <1>3, QueueInvHolds, PTL DEF Spec

-----------------------------------------------------------------------------
(* Shutdown: who may be where while the others are elsewhere *)

\* Run's phases after it joined the collect loop, and after its drain.
Joined == {"check", "drain", "draining", "cancel", "joinSend", "return", "returned"}
Finished == {"return", "returned"}

\* Why the send loop may be cancelled before Run returns.
MayAbort == fatalErr \/ drain = "deadline_exceeded" \/ ~DrainEnabled

\* Where Run is tells what it has waited for and what it has decided.
RunPhases ==
  /\ runPc \in Joined => collectPc = "done"
  /\ runPc \in {"cancel", "joinSend"} => MayAbort
  /\ runPc \in {"wait", "join", "check", "drain", "draining"} => drain = "none"
  /\ runPc \in {"drain", "draining"} => DrainEnabled
  /\ runPc \in Finished => sendPc = "done"
  /\ runPc # "wait" => sigterm \/ fatalErr

\* What each signal tells of the one who raised it.
Signals ==
  /\ shutdownSend => runPc \in {"draining", "cancel", "joinSend", "return", "returned"}
  /\ collectCancelled => sigterm \/ fatalErr \/ runPc = "returned"
  /\ drain = "complete" => runPc \in Finished

\* Why the send loop is where it is on its way out.
SenderExits ==
  /\ sendPc \in {"cancelCollect", "cancelSend"} => fatalErr
  /\ sendPc = "recheck" => shutdownSend
  /\ sendPc = "done" => fatalErr \/ sendCancelled \/ (shutdownSend /\ ~HasBatch)

ShutdownInv ==
  /\ RunPhases /\ Signals /\ SenderExits
  /\ NoEarlyAbort /\ CleanDrainSendsAll /\ FatalReachesMain

\* Nothing has been signalled, closed or cancelled at the start.
LEMMA ShutdownInvInit == Init => ShutdownInv
BY DEF Init, ShutdownInv, RunPhases, Signals, SenderExits, NoEarlyAbort,
  CleanDrainSendsAll, FatalReachesMain, Joined, Finished

\* The collect loop ends only when its context is done, and pushes nothing
\* after Run has joined it.
LEMMA CollectKeepsShutdown ==
  ASSUME ShutdownInv, CollectNext
  PROVE  ShutdownInv'
<1> USE DEF ShutdownInv
<1>1. /\ UNCHANGED <<sendVars, runVars, signalVars>>
      /\ collectPc # "done"
  BY Zenon DEF CollectNext, ScrapeBatch, ScrapeEmpty, PushBatch, SignalPush,
    CollectStop, TickFires, ShouldSkipTick, TickReturns, notCollect
<1>2. runPc \notin Joined /\ ~shutdownSend /\ drain # "complete"
  BY <1>1 DEF RunPhases, Signals, Joined, Finished
<1>3. RunPhases' /\ Signals'
  BY <1>1, <1>2 DEF RunPhases, Signals, MayAbort, runVars, signalVars, sendVars
<1>4. SenderExits'
  BY <1>1, <1>2 DEF SenderExits, runVars, signalVars, sendVars
<1>5. NoEarlyAbort' /\ CleanDrainSendsAll' /\ FatalReachesMain'
  BY <1>1, <1>2 DEF NoEarlyAbort, CleanDrainSendsAll, FatalReachesMain, Joined,
    runVars, signalVars, sendVars
<1>6. QED
  BY <1>3, <1>4, <1>5

\* A sender that moves has not returned, so Run has not either, and the
\* sender's exit has one of its three reasons.
LEMMA SendKeepsShutdown ==
  ASSUME ShutdownInv, SendNext
  PROVE  ShutdownInv'
<1> USE DEF ShutdownInv
<1>1. sendPc # "done" /\ UNCHANGED <<collectVars, runVars, sigterm, shutdownSend>>
  <2>1. CASE SendReturns
    BY <2>1, Zenon DEF SendReturns, SendSucceeds, SendFatal, SendRetryAfter, SendFails,
                SendEnds, notSend, signalVars
  <2>2. QED
    BY <2>1, Zenon DEF SendNext, CheckCtx, PeekHead, IdleCtxDone,
      IdleShutdown, IdleNotified, RecheckPeek, WakeUp, PopSent, SetFatal, CancelCollect,
      CancelSend, CountSent, EngageThrottle, EngageReturns, notSend, sendQuiet, signalVars
<1>2. runPc \notin Finished /\ drain # "complete"
  BY <1>1 DEF RunPhases, Signals
<1>3. /\ fatalErr' = fatalErr \/ fatalErr' = TRUE
      /\ collectCancelled' = collectCancelled \/ (collectCancelled' = TRUE /\ fatalErr)
      /\ sendCancelled' = sendCancelled \/ (sendCancelled' = TRUE /\ fatalErr)
  <2>1. CASE SendReturns
    BY <2>1, Zenon DEF SendReturns, SendSucceeds, SendFatal, SendRetryAfter, SendFails,
                SendEnds, signalVars
  <2>2. QED
    BY <2>1, Zenon DEF SendNext, CheckCtx, PeekHead, IdleCtxDone,
      IdleShutdown, IdleNotified, RecheckPeek, WakeUp, PopSent, SetFatal, CancelCollect,
      CancelSend, CountSent, EngageThrottle, EngageReturns, sendQuiet, signalVars,
      SenderExits
<1>4. SenderExits'
  <2> USE DEF SenderExits, sendQuiet, signalVars, bufferVars, HasBatch
  <2>1. CASE CheckCtx \/ IdleCtxDone \/ IdleShutdown \/ RecheckPeek
    BY <2>1 DEF CheckCtx, IdleCtxDone, IdleShutdown, RecheckPeek
  <2>2. CASE SetFatal \/ CancelCollect \/ CancelSend
    BY <2>2 DEF SetFatal, CancelCollect, CancelSend
  <2>3. CASE SendReturns
    BY <2>3 DEF SendReturns, SendSucceeds, SendFatal, SendRetryAfter, SendFails,
                SendEnds
  <2>4. CASE PeekHead \/ IdleNotified \/ WakeUp \/ PopSent \/ CountSent
    BY <2>4 DEF PeekHead, IdleNotified, WakeUp, PopSent, CountSent
  <2>5. CASE EngageThrottle \/ EngageReturns
    BY <2>5 DEF EngageThrottle, EngageReturns, sendVars
  <2>6. QED
    BY <2>1, <2>2, <2>3, <2>4, <2>5 DEF SendNext
<1>5. RunPhases' /\ Signals'
  BY <1>1, <1>2, <1>3 DEF RunPhases, Signals, MayAbort, Joined, Finished, collectVars, runVars
<1>6. NoEarlyAbort' /\ CleanDrainSendsAll' /\ FatalReachesMain'
  BY <1>1, <1>2, <1>3 DEF NoEarlyAbort, CleanDrainSendsAll, FatalReachesMain, Finished, runVars
<1>7. QED
  BY <1>4, <1>5, <1>6

\* Each step of Run, in the order of the code.
LEMMA RunKeepsShutdown ==
  ASSUME ShutdownInv, RunNext
  PROVE  ShutdownInv'
<1> USE DEF ShutdownInv, RunPhases, Signals, SenderExits, NoEarlyAbort, CleanDrainSendsAll,
            FatalReachesMain, MayAbort, Joined, Finished, HasBatch,
            notRun, signalVars, bufferVars, sendVars, collectVars
<1>1. CASE AwaitShutdown
  BY <1>1 DEF AwaitShutdown
<1>2. CASE JoinCollect
  BY <1>2 DEF JoinCollect
<1>3. CASE CheckFatal
  BY <1>3 DEF CheckFatal
<1>4. CASE CloseShutdown
  BY <1>4 DEF CloseShutdown
<1>5. CASE DrainComplete
  BY <1>5 DEF DrainComplete
<1>6. CASE DrainDeadline
  BY <1>6 DEF DrainDeadline
<1>7. CASE StopSender
  BY <1>7 DEF StopSender
<1>8. CASE JoinSend
  BY <1>8 DEF JoinSend
<1>9. CASE Return
  BY <1>9 DEF Return
<1>10. QED
  BY <1>1, <1>2, <1>3, <1>4, <1>5, <1>6, <1>7, <1>8, <1>9 DEF RunNext

\* No step of any goroutine breaks the shutdown invariant.
LEMMA ShutdownInvStep == ShutdownInv /\ [Next]_vars => ShutdownInv'
<1> SUFFICES ASSUME ShutdownInv, [Next]_vars PROVE ShutdownInv'
  OBVIOUS
<1>1. CASE CollectNext
  BY <1>1, CollectKeepsShutdown
<1>2. CASE SendNext
  BY <1>2, SendKeepsShutdown
<1>3. CASE RunNext
  BY <1>3, RunKeepsShutdown
<1> USE DEF ShutdownInv, RunPhases, Signals, SenderExits, NoEarlyAbort, CleanDrainSendsAll,
            FatalReachesMain, MayAbort, HasBatch, signalVars, bufferVars, sendVars,
            collectVars, runVars
<1>4. CASE Sigterm
  BY <1>4 DEF Sigterm, notRun
<1>5. CASE TimePasses \/ Terminated \/ UNCHANGED vars
  BY <1>5 DEF TimePasses, Terminated, vars
<1>6. QED
  BY <1>1, <1>2, <1>3, <1>4, <1>5 DEF Next

\* The shutdown invariant holds in every state: how far Run has come tells which
\* of the two loops is gone and why the contexts were cancelled.
THEOREM ShutdownInvHolds == Spec => []ShutdownInv
BY ShutdownInvInit, ShutdownInvStep, PTL DEF Spec

-----------------------------------------------------------------------------
(* Shutdown: the properties *)

\* Once the drain begins, no batch can be added.
THEOREM DrainIsClosed == Spec => []NoPushDuringDrain
<1>1. ShutdownInv => NoPushDuringDrain
  BY DEF ShutdownInv, RunPhases, Signals, NoPushDuringDrain, Joined
<1>2. QED
  BY <1>1, ShutdownInvHolds, PTL

\* The send loop is cancelled early only for a reason.
THEOREM SenderOutlivesSignal == Spec => []NoEarlyAbort
<1>1. ShutdownInv => NoEarlyAbort
  BY DEF ShutdownInv
<1>2. QED
  BY <1>1, ShutdownInvHolds, PTL

\* A drain that completes without a fatal reply leaves nothing queued.
THEOREM CleanDrain == Spec => []CleanDrainSendsAll
<1>1. ShutdownInv => CleanDrainSendsAll
  BY DEF ShutdownInv
<1>2. QED
  BY <1>1, ShutdownInvHolds, PTL

\* Run returns after both goroutines, with the fatal error when there is one.
THEOREM FatalIsReturned == Spec => []FatalReachesMain
<1>1. ShutdownInv => FatalReachesMain
  BY DEF ShutdownInv
<1>2. QED
  BY <1>1, ShutdownInvHolds, PTL

-----------------------------------------------------------------------------
(* The contract with main *)

\* The initial states of the scheduler are initial states of the contract.
LEMMA ContractInitMaps == Init => Contract!Init
BY DEF Init, Contract!Init, RunPhase

\* The goroutines give reasons to stop; only Run moves the phase.
LEMMA ContractStepMaps ==
  ASSUME ShutdownInv, [Next]_vars
  PROVE  [Contract!Next]_<<RunPhase, sigterm, fatalErr, result>>
<1> USE DEF RunPhase, runVars, signalVars, Contract!Next
<1>1. CASE CollectNext
  <2>1. UNCHANGED <<runVars, signalVars>>
    BY <1>1, Zenon DEF CollectNext, ScrapeBatch, ScrapeEmpty, PushBatch, SignalPush,
      CollectStop, TickFires, ShouldSkipTick, TickReturns, notCollect
  <2>2. QED
    BY <2>1
<1>2. CASE SendNext
  <2>1. UNCHANGED <<runVars, sigterm>> /\ (fatalErr' = fatalErr \/ SetFatal)
    <3>1. CASE SendReturns
      BY <3>1, Zenon DEF SendReturns, SendSucceeds, SendFatal, SendRetryAfter, SendFails,
                  SendEnds, notSend
    <3>2. QED
      BY <1>2, <3>1, Zenon DEF SendNext, CheckCtx, PeekHead, IdleCtxDone,
        IdleShutdown, IdleNotified, RecheckPeek, WakeUp, PopSent, SetFatal, CancelCollect,
        CancelSend, CountSent, EngageThrottle, EngageReturns, notSend, sendQuiet
  <2>2. CASE SetFatal /\ ~fatalErr
    <3>1. runPc # "returned" /\ fatalErr' = TRUE
      BY <2>2 DEF SetFatal, ShutdownInv, RunPhases, Finished
    <3>2. QED
      BY <2>1, <2>2, <3>1 DEF Contract!FatalReply
  <2>3. CASE SetFatal /\ fatalErr
    BY <2>1, <2>3, Zenon DEF SetFatal, Contract!FatalReply
  <2>4. QED
    BY <2>1, <2>2, <2>3
<1>3. CASE RunNext
  <2>1. CASE AwaitShutdown
    <3>1. sigterm \/ fatalErr
      BY <2>1 DEF AwaitShutdown, ShutdownInv, Signals
    <3>2. QED
      BY <2>1, <3>1 DEF AwaitShutdown, Contract!Stop
  <2>2. CASE Return
    BY <2>2 DEF Return, Contract!Return
  <2>3. CASE JoinCollect \/ CheckFatal \/ CloseShutdown
    BY <2>3 DEF JoinCollect, CheckFatal, CloseShutdown
  <2>4. CASE DrainComplete \/ DrainDeadline \/ StopSender \/ JoinSend
    BY <2>4 DEF DrainComplete, DrainDeadline, StopSender, JoinSend
  <2>5. QED
    BY <1>3, <2>1, <2>2, <2>3, <2>4 DEF RunNext
<1>4. CASE Sigterm
  BY <1>4 DEF Sigterm, Contract!Signal
<1>5. CASE TimePasses \/ Terminated \/ UNCHANGED vars
  BY <1>5 DEF TimePasses, Terminated, vars
<1>6. QED
  BY <1>1, <1>2, <1>3, <1>4, <1>5 DEF Next

\* Run implements the contract main relies on.
THEOREM KeepsContract == Spec => ContractSpec
<1>1. ShutdownInv /\ [Next]_vars => [Contract!Next]_<<RunPhase, sigterm, fatalErr, result>>
  BY ContractStepMaps
<1>2. QED
  BY <1>1, ContractInitMaps, ShutdownInvHolds, PTL
  DEF Spec, ContractSpec, Contract!Spec, Contract!contractVars

-----------------------------------------------------------------------------
(* Delivery: no lost wakeup *)

\* Only the two steps on the buffer change what the sender finds there.
LEMMA WakeupStep == NoLostWakeup /\ [Next]_vars => NoLostWakeup'
<1> SUFFICES ASSUME NoLostWakeup, [Next]_vars PROVE NoLostWakeup'
  OBVIOUS
<1> USE DEF NoLostWakeup, HasBatch, bufferVars, sendVars, signalVars, collectVars,
            notCollect, notSend, notRun, sendQuiet
<1>1. CASE CollectNext
  BY <1>1 DEF CollectNext, ScrapeBatch, ScrapeEmpty, PushBatch, SignalPush, SignalNotify,
    CollectStop, TickFires, ShouldSkipTick, TickReturns
<1>2. CASE SendNext
  <2>1. CASE CheckCtx \/ IdleCtxDone \/ IdleShutdown \/ RecheckPeek \/ WakeUp \/ IdleNotified
    BY <2>1 DEF CheckCtx, IdleCtxDone, IdleShutdown, RecheckPeek, WakeUp, IdleNotified
  <2>2. CASE PeekHead
    BY <2>2 DEF PeekHead
  <2>3. CASE SendReturns
    BY <2>3 DEF SendReturns, SendSucceeds, SendFatal, SendRetryAfter, SendFails
  <2>4. CASE PopSent \/ CountSent
    BY <2>4 DEF PopSent, CountSent
  <2>5. CASE EngageThrottle \/ EngageReturns
    BY <2>5 DEF EngageThrottle, EngageReturns
  <2>6. CASE SetFatal \/ CancelCollect \/ CancelSend
    BY <2>6 DEF SetFatal, CancelCollect, CancelSend
  <2>7. QED
    BY <1>2, <2>1, <2>2, <2>3, <2>4, <2>5, <2>6 DEF SendNext
<1>3. CASE RunNext
  <2>1. UNCHANGED <<items, notify, collectPc, sendPc>>
    BY <1>3, RunLeavesLoops
  <2>2. shutdownSend => shutdownSend'
    BY <1>3, Zenon DEF RunNext, AwaitShutdown, JoinCollect, CheckFatal, CloseShutdown,
      DrainComplete, DrainDeadline, StopSender, JoinSend, Return
  <2>3. QED
    BY <2>1, <2>2
<1>4. CASE Sigterm
  BY <1>4 DEF Sigterm
<1>5. CASE TimePasses \/ Terminated \/ UNCHANGED vars
  BY <1>5 DEF TimePasses, Terminated, vars
<1>6. QED
  BY <1>1, <1>2, <1>3, <1>4, <1>5 DEF Next

\* A sender asleep on the channel with a batch queued will be woken.
THEOREM WakeupsAreKept == Spec => []NoLostWakeup
<1>1. Init => NoLostWakeup
  BY DEF Init, NoLostWakeup
<1>2. QED
  BY <1>1, WakeupStep, PTL DEF Spec

-----------------------------------------------------------------------------
(* The queue as an interval of batch numbers *)

\* The number of the oldest batch, or of the next one when there is none.
OldestNo == LastPushed - Len(items) + 1

\* Under the queue invariant the two ends of the abstract queue are numbers.
LEMMA QueueIsInterval ==
  ASSUME QueueInv
  PROVE  /\ Oldest = OldestNo /\ Newest = LastPushed
         /\ OldestNo \in Int /\ LastPushed \in Int
         /\ Newest - Oldest + 1 = Len(items) /\ Len(items) \in Nat
<1>1. LastPushed \in Int /\ Len(items) \in Nat
  BY DEF QueueInv, CollectTypes, BufferTypes, LastPushed
<1>2. CASE HasBatch
  <2>1. Len(items) >= 1 /\ Head(items) = items[1]
    BY <1>2, EmptySeq, HeadTailProperties DEF HasBatch, QueueInv, BufferTypes
  <2>2. /\ items[1] = LastPushed - Len(items) + 1
        /\ items[Len(items)] = LastPushed - Len(items) + Len(items)
    BY <1>1, <2>1 DEF QueueInv, QueueIsNewestBatches
  <2>3. QED
    BY <1>1, <1>2, <2>1, <2>2 DEF Oldest, Newest, PeekBatch, OldestNo
<1>3. CASE ~HasBatch
  <2>1. Len(items) = 0
    BY <1>3, EmptySeq DEF HasBatch
  <2>2. QED
    BY <1>1, <1>3, <2>1 DEF Oldest, Newest, OldestNo
<1>4. QED
  BY <1>2, <1>3

\* The same one step later.
LEMMA IntervalNext == QueueInv' => Oldest' = OldestNo' /\ Newest' = LastPushed'
<1>1. QueueInv => Oldest = OldestNo /\ Newest = LastPushed
  BY QueueIsInterval
<1>2. (QueueInv => Oldest = OldestNo /\ Newest = LastPushed)'
  BY <1>1, PTL
<1>3. QED
  BY <1>2

\* Push moves the new end, and the old end when the queue is full.
LEMMA PushMovesEnds ==
  ASSUME QueueInv, PushBatch
  PROVE  /\ LastPushed' = LastPushed + 1
         /\ OldestNo' = IF Len(items) = Capacity THEN OldestNo + 1 ELSE OldestNo
<1>1. /\ scrapesOK \in 1..MaxBatches /\ items \in Seq(1..MaxBatches)
      /\ PushLocked(scrapesOK)
  BY DEF PushBatch, QueueInv, LoopsAndQueue, CollectTypes, BufferTypes
<1>2. Len(items) \in Nat /\ Len(items) <= Capacity
  BY LenProperties DEF QueueInv, BufferTypes
<1>3. Len(items') = IF IsFull THEN Len(items) ELSE Len(items) + 1
  BY <1>1, <1>2, PushLockedItems
<1>4. LastPushed' = LastPushed + 1 /\ LastPushed \in Int
  BY <1>1 DEF LastPushed, PushBatch
<1>5. CASE Len(items) = Capacity
  <2>1. Len(items') = Len(items)
    BY <1>2, <1>3, <1>5 DEF IsFull
  <2>2. QED
    BY <1>2, <1>4, <1>5, <2>1 DEF OldestNo
<1>6. CASE Len(items) # Capacity
  <2>1. Len(items') = Len(items) + 1
    BY <1>2, <1>3, <1>6 DEF IsFull
  <2>2. QED
    BY <1>2, <1>4, <1>6, <2>1 DEF OldestNo
<1>7. QED
  BY <1>4, <1>5, <1>6

\* Pop moves the old end, and there is one to move.
LEMMA PopMovesOldest ==
  ASSUME QueueInv, PopSent
  PROVE  /\ LastPushed' = LastPushed
         /\ OldestNo' = OldestNo + 1
         /\ OldestNo <= LastPushed
<1>1. /\ HasBatch /\ PopHead /\ UNCHANGED <<collectPc, scrapesOK>>
      /\ items \in Seq(1..MaxBatches)
  BY DEF PopSent, QueueInv, LoopsAndQueue, BufferTypes, notSend, collectVars
<1>2. Len(items) \in Nat /\ Len(items) >= 1 /\ Len(items') = Len(items) - 1
  BY <1>1, PopHeadItems, LenProperties
<1>3. LastPushed' = LastPushed /\ LastPushed \in Int
  BY <1>1 DEF LastPushed, QueueInv, CollectTypes
<1>4. QED
  BY <1>2, <1>3 DEF OldestNo

\* Nothing else moves either end.
LEMMA EndsMoveOnlyThen ==
  ASSUME QueueInv, [Next]_vars, ~PushBatch, ~PopSent
  PROVE  LastPushed' = LastPushed /\ OldestNo' = OldestNo
<1> USE DEF bufferVars, collectVars, notSend, sendQuiet
<1>1. LastPushed' = LastPushed /\ items' = items
  <2>1. CASE ScrapeBatch
    BY <2>1 DEF ScrapeBatch, LastPushed, QueueInv, CollectTypes
  <2>2. CASE CollectNext /\ ~ScrapeBatch
    BY <2>2 DEF CollectNext, ScrapeEmpty, SignalPush, SignalNotify,
      CollectStop, TickFires, ShouldSkipTick, TickReturns, LastPushed
  <2>3. CASE SendNext
    <3>1. UNCHANGED <<items, collectPc, scrapesOK>>
      <4>1. CASE SendReturns
        BY <4>1, Zenon DEF SendReturns, SendSucceeds, SendFatal, SendRetryAfter, SendFails,
                    SendEnds
      <4>2. QED
        BY <2>3, <4>1, Zenon DEF SendNext, CheckCtx, PeekHead, IdleCtxDone, IdleShutdown,
          IdleNotified, TakeNotify, RecheckPeek, WakeUp, SetFatal, CancelCollect,
          CancelSend, CountSent, EngageThrottle, EngageReturns
    <3>2. QED
      BY <3>1 DEF LastPushed
  <2>4. CASE RunNext \/ Sigterm \/ TimePasses \/ Terminated \/ UNCHANGED vars
    BY <2>4, RunLeavesLoops DEF LastPushed
  <2>5. QED
    BY <2>1, <2>2, <2>3, <2>4 DEF Next
<1>2. QED
  BY <1>1 DEF OldestNo

-----------------------------------------------------------------------------
(* The refinement *)

\* An empty buffer is an empty abstract queue.
LEMMA QueueInitMaps == Init => Queue!Init
<1> SUFFICES ASSUME Init PROVE Queue!Init
  OBVIOUS
<1>1. QueueInv /\ LastPushed = 0 /\ items = <<>>
  BY QueueInvInit DEF Init, BufferInit, LastPushed
<1>2. QED
  BY <1>1, QueueIsInterval, EmptySeq DEF Queue!Init, OldestNo

\* Every step of the scheduler is a step of the lossy queue or leaves it alone.
LEMMA QueueStepMaps ==
  ASSUME QueueInv, QueueInv', [Next]_vars
  PROVE  [Queue!Next]_<<Oldest, Newest>>
<1>1. /\ Oldest = OldestNo /\ Newest = LastPushed
      /\ OldestNo \in Int /\ LastPushed \in Int
      /\ Newest - Oldest + 1 = Len(items)
  BY QueueIsInterval
<1>2. Oldest' = OldestNo' /\ Newest' = LastPushed'
  BY IntervalNext
<1>3. CASE PushBatch
  BY <1>1, <1>2, <1>3, PushMovesEnds DEF Queue!Next, Queue!Put
<1>4. CASE PopSent
  BY <1>1, <1>2, <1>4, PopMovesOldest DEF Queue!Next, Queue!Take
<1>5. CASE ~PushBatch /\ ~PopSent
  BY <1>1, <1>2, <1>5, EndsMoveOnlyThen
<1>6. QED
  BY <1>3, <1>4, <1>5

\* The scheduler implements the lossy queue: PushBatch is Put, PopSent is Take,
\* every other step leaves the abstract queue as it is.
THEOREM ImplementsLossyQueue == Spec => QueueSpec
<1>1. QueueInv /\ QueueInv' /\ [Next]_vars => [Queue!Next]_<<Oldest, Newest>>
  BY QueueStepMaps
<1>2. QED
  BY <1>1, QueueInitMaps, QueueInvHolds, PTL DEF Spec, QueueSpec, Queue!Spec

-----------------------------------------------------------------------------
(* What became of each batch *)

\* What has left the queue is older than what is in it.  The batch in flight
\* may have left it too, but only by eviction; nothing newer was accepted.
DeliveryInv ==
  /\ inflight <= OldestNo
  /\ \A b \in popped \cup evicted : b < OldestNo
  /\ sendPc \in {"send", "pop"} => \A b \in popped : b < inflight
  /\ sendPc \in {"send", "pop"} /\ inflight # OldestNo => inflight \in evicted
  /\ sendPc = "send" => \A b \in acked : b < inflight
  /\ sendPc = "pop" => inflight \in acked /\ \A b \in acked : b <= inflight
  /\ sendPc # "pop" => \A b \in acked : b < OldestNo

\* Nothing has been tried, accepted or removed at the start.
LEMMA DeliveryInvInit == Init => DeliveryInv
BY EmptySeq DEF Init, BufferInit, DeliveryInv, OldestNo, LastPushed

\* The types the steps below need.
LEMMA DeliveryTypes ==
  ASSUME QueueInv
  PROVE  /\ OldestNo \in Int /\ inflight \in Int
         /\ acked \subseteq Int /\ popped \subseteq Int /\ evicted \subseteq Int
         /\ HasBatch => Head(items) = OldestNo
<1>1. /\ OldestNo \in Int /\ inflight \in Int
      /\ acked \subseteq Int /\ popped \subseteq Int /\ evicted \subseteq Int
  BY QueueIsInterval DEF QueueInv, SendTypes, GhostTypes
<1>2. HasBatch => Head(items) = OldestNo
  BY QueueIsInterval DEF Oldest, PeekBatch
<1>3. QED
  BY <1>1, <1>2

\* An eviction takes the oldest batch; the one in flight may be it.
LEMMA PushKeepsDelivery ==
  ASSUME QueueInv, DeliveryInv, PushBatch
  PROVE  DeliveryInv'
<1>1. UNCHANGED <<sendPc, inflight, acked, popped>>
  BY DEF PushBatch, notCollect, sendVars, otherGhosts
<1>2. CASE Len(items) = Capacity
  <2>1. OldestNo' = OldestNo + 1
    BY <1>2, PushMovesEnds
  <2>2. evicted' = evicted \cup {OldestNo}
    <3>1. IsFull /\ HasBatch
      BY <1>2, EmptySeq DEF IsFull, HasBatch
    <3>2. QED
      BY <3>1, DeliveryTypes DEF PushBatch
  <2>3. QED
    BY <1>1, <2>1, <2>2, DeliveryTypes DEF DeliveryInv
<1>3. CASE Len(items) # Capacity
  <2>1. OldestNo' = OldestNo
    BY <1>3, PushMovesEnds
  <2>2. evicted' = evicted
    <3>1. Len(items) \in Nat /\ Len(items) <= Capacity
      BY LenProperties DEF QueueInv, BufferTypes
    <3>2. QED
      BY <1>3, <3>1 DEF PushBatch, IsFull
  <2>3. QED
    BY <1>1, <2>1, <2>2, DeliveryTypes DEF DeliveryInv
<1>4. QED
  BY <1>2, <1>3

\* The sender takes hold of the oldest batch.
LEMMA PeekKeepsDelivery ==
  ASSUME QueueInv, DeliveryInv, PeekHead
  PROVE  DeliveryInv' /\ inflight' >= inflight
<1>1. /\ sendPc = "peek" /\ UNCHANGED <<items, acked, popped, evicted>>
      /\ inflight' = IF HasBatch THEN Head(items) ELSE inflight
      /\ sendPc' = IF HasBatch THEN "send" ELSE "idle"
  BY DEF PeekHead, PeekBatch, sendQuiet, bufferVars, notSend, otherGhosts
<1>2. OldestNo' = OldestNo
  BY DEF PeekHead, sendQuiet, bufferVars, notSend, collectVars, OldestNo, LastPushed
<1>3. inflight' = IF HasBatch THEN OldestNo ELSE inflight
  BY <1>1, DeliveryTypes
<1>4. inflight' >= inflight
  BY <1>3, DeliveryTypes DEF DeliveryInv
<1>5. DeliveryInv'
  BY <1>1, <1>2, <1>3, DeliveryTypes DEF DeliveryInv
<1>6. QED
  BY <1>4, <1>5

\* A batch is accepted while it is in flight.
LEMMA AckKeepsDelivery ==
  ASSUME QueueInv, DeliveryInv, NEW q \in BOOLEAN, SendSucceeds(q)
  PROVE  DeliveryInv' /\ inflight' = inflight
<1>1. /\ sendPc = "send" /\ sendPc' = "pop"
      /\ UNCHANGED <<inflight, popped, evicted>>
      /\ acked' = acked \cup {inflight}
  BY DEF SendSucceeds, SendEnds, notSend
<1>2. OldestNo' = OldestNo
  BY DEF SendSucceeds, SendEnds, bufferVars, notSend, collectVars, OldestNo, LastPushed
<1>3. QED
  BY <1>1, <1>2, DeliveryTypes DEF DeliveryInv

\* The pop removes the oldest batch, not always the one that was sent.
LEMMA PopKeepsDelivery ==
  ASSUME QueueInv, DeliveryInv, PopSent
  PROVE  DeliveryInv' /\ inflight' = inflight
<1>1. /\ sendPc = "pop" /\ sendPc' = "count"
      /\ UNCHANGED <<inflight, acked, evicted>>
      /\ popped' = popped \cup {OldestNo}
  BY DeliveryTypes DEF PopSent, sendLocals, notSend, QueueInv, LoopsAndQueue
<1>2. OldestNo' = OldestNo + 1
  BY PopMovesOldest
<1>3. QED
  BY <1>1, <1>2, DeliveryTypes DEF DeliveryInv

\* The other steps neither accept, remove nor take hold of a batch.
LEMMA OtherStepsDeliverNothing ==
  ASSUME [Next]_vars, ~PushBatch, ~PeekHead, \A q \in BOOLEAN : ~SendSucceeds(q), ~PopSent
  PROVE  /\ UNCHANGED <<inflight, acked, popped, evicted>>
         /\ sendPc' # "send" \/ sendPc' = sendPc
         /\ sendPc' = "pop" <=> sendPc = "pop"
<1> USE DEF collectVars, sendVars, notCollect, notSend, sendLocals, sendQuiet, otherGhosts,
            ghostVars
<1>1. CASE CollectNext
  BY <1>1 DEF CollectNext, ScrapeBatch, ScrapeEmpty, SignalPush,
    CollectStop, TickFires, ShouldSkipTick, TickReturns
<1>2. CASE SendNext
  <2>1. CASE CheckCtx \/ IdleCtxDone \/ IdleShutdown \/ RecheckPeek \/ WakeUp \/ IdleNotified
    BY <2>1 DEF CheckCtx, IdleCtxDone, IdleShutdown, RecheckPeek, WakeUp, IdleNotified
  <2>2. CASE SendFatal \/ SendFails \/ \E d \in RetryAfterDelays : SendRetryAfter(d)
    BY <2>2 DEF SendFatal, SendRetryAfter, SendFails, SendEnds
  <2>3. CASE CountSent
    BY <2>3 DEF CountSent
  <2>4. CASE EngageThrottle \/ EngageReturns
    BY <2>4 DEF EngageThrottle, EngageReturns
  <2>5. CASE SetFatal \/ CancelCollect \/ CancelSend
    BY <2>5 DEF SetFatal, CancelCollect, CancelSend
  <2>6. QED
    BY <1>2, <2>1, <2>2, <2>3, <2>4, <2>5 DEF SendNext, SendReturns
<1>3. CASE RunNext \/ Sigterm \/ TimePasses \/ Terminated \/ UNCHANGED vars
  BY <1>3, RunLeavesLoops
<1>4. QED
  BY <1>1, <1>2, <1>3 DEF Next

\* Every step keeps the delivery invariant and never goes back to an older batch.
LEMMA DeliveryStep ==
  ASSUME QueueInv, DeliveryInv, [Next]_vars
  PROVE  DeliveryInv' /\ inflight' >= inflight
<1>1. inflight \in Int
  BY DeliveryTypes
<1>2. CASE PushBatch
  BY <1>1, <1>2, PushKeepsDelivery DEF PushBatch, notCollect, sendVars
<1>3. CASE PeekHead
  BY <1>3, PeekKeepsDelivery
<1>4. CASE \E q \in BOOLEAN : SendSucceeds(q)
  BY <1>1, <1>4, AckKeepsDelivery
<1>5. CASE PopSent
  BY <1>1, <1>5, PopKeepsDelivery
<1>6. CASE ~PushBatch /\ ~PeekHead /\ ~(\E q \in BOOLEAN : SendSucceeds(q)) /\ ~PopSent
  <2>1. /\ UNCHANGED <<inflight, acked, popped, evicted>>
        /\ sendPc' # "send" \/ sendPc' = sendPc
        /\ sendPc' = "pop" <=> sendPc = "pop"
    BY <1>6, OtherStepsDeliverNothing
  <2>2. OldestNo' = OldestNo
    BY <1>6, EndsMoveOnlyThen
  <2>3. QED
    BY <1>1, <2>1, <2>2 DEF DeliveryInv
<1>7. QED
  BY <1>2, <1>3, <1>4, <1>5, <1>6

\* The delivery invariant holds in every state: what was accepted or removed is
\* older than everything still to be sent.
THEOREM DeliveryInvHolds == Spec => []DeliveryInv
<1>1. QueueInv /\ DeliveryInv /\ [Next]_vars => DeliveryInv'
  BY DeliveryStep
<1>2. QED
  BY <1>1, DeliveryInvInit, QueueInvHolds, PTL DEF Spec

\* Batches are attempted in the order they were scraped.
THEOREM AttemptsInOrder == Spec => SendsInOrder
<1>1. QueueInv /\ DeliveryInv /\ [Next]_vars => [inflight' >= inflight]_vars
  BY DeliveryStep
<1>2. QED
  BY <1>1, QueueInvHolds, DeliveryInvHolds, PTL DEF Spec, SendsInOrder

\* A batch the server accepted is never sent again.
THEOREM AckedNotResent == Spec => []NeverResendsAcked
<1>1. QueueInv /\ DeliveryInv => NeverResendsAcked
  BY DeliveryTypes DEF DeliveryInv, NeverResendsAcked
<1>2. QED
  BY <1>1, QueueInvHolds, DeliveryInvHolds, PTL

-----------------------------------------------------------------------------
(* The batches thrown away unsent, counted *)

Unsent == popped \ acked
AckedEvicted == acked \cap evicted

\* Between Send and Pop the overflow may already be there and the unsent pop
\* still to come.
CountInv ==
  Cardinality(AckedEvicted) =
    IF sendPc = "pop" /\ inflight \in evicted THEN Cardinality(Unsent) + 1
                                              ELSE Cardinality(Unsent)

\* Both counts are zero at the start.
LEMMA CountInvInit == Init => CountInv
BY FS_EmptySet DEF Init, CountInv, Unsent, AckedEvicted

\* The sets whose members are counted are finite.
LEMMA CountTypes ==
  ASSUME QueueInv
  PROVE  /\ IsFiniteSet(Unsent) /\ IsFiniteSet(AckedEvicted)
         /\ Cardinality(Unsent) \in Nat /\ Cardinality(AckedEvicted) \in Nat
<1>1. Unsent \subseteq 1..MaxBatches /\ AckedEvicted \subseteq 1..MaxBatches
  BY DEF QueueInv, GhostTypes, Unsent, AckedEvicted
<1>2. IsFiniteSet(1..MaxBatches)
  BY FS_Interval, SchedulerAssumption
<1>3. IsFiniteSet(Unsent) /\ IsFiniteSet(AckedEvicted)
  BY <1>1, <1>2, FS_Subset
<1>4. QED
  BY <1>3, FS_CardinalityType

\* Of all evictions, only that of the batch just accepted counts.
LEMMA PushKeepsCount ==
  ASSUME QueueInv, DeliveryInv, CountInv, PushBatch
  PROVE  CountInv'
<1>1. UNCHANGED <<sendPc, inflight, acked, popped>>
  BY DEF PushBatch, notCollect, sendVars, otherGhosts
<1>2. Unsent' = Unsent
  BY <1>1 DEF Unsent
<1>3. CASE ~IsFull
  BY <1>1, <1>2, <1>3 DEF PushBatch, CountInv, AckedEvicted
<1>4. CASE IsFull
  <2>1. HasBatch
    BY <1>4, EmptySeq DEF IsFull, HasBatch
  <2>2. evicted' = evicted \cup {OldestNo} /\ OldestNo \in Int /\ OldestNo \notin evicted
    BY <1>4, <2>1, DeliveryTypes DEF PushBatch, DeliveryInv
  <2>3. CASE sendPc = "pop" /\ inflight = OldestNo
    <3>1. OldestNo \in acked
      BY <2>3 DEF DeliveryInv
    <3>2. AckedEvicted' = AckedEvicted \cup {OldestNo} /\ OldestNo \notin AckedEvicted
      BY <1>1, <2>2, <3>1 DEF AckedEvicted
    <3>3. Cardinality(AckedEvicted') = Cardinality(AckedEvicted) + 1
      BY <3>2, CountTypes, FS_AddElement
    <3>4. inflight \notin evicted /\ inflight' \in evicted' /\ sendPc' = "pop"
      BY <1>1, <2>2, <2>3
    <3>5. QED
      BY <1>2, <2>3, <3>3, <3>4 DEF CountInv
  <2>4. CASE ~(sendPc = "pop" /\ inflight = OldestNo)
    <3>1. OldestNo \notin acked
      BY <2>2, <2>4, DeliveryTypes DEF DeliveryInv
    <3>2. AckedEvicted' = AckedEvicted
      BY <1>1, <2>2, <3>1 DEF AckedEvicted
    <3>3. (sendPc' = "pop" /\ inflight' \in evicted') <=> (sendPc = "pop" /\ inflight \in evicted)
      BY <1>1, <2>2, <2>4
    <3>4. QED
      BY <1>2, <3>2, <3>3 DEF CountInv
  <2>5. QED
    BY <2>3, <2>4
<1>5. QED
  BY <1>3, <1>4

\* An accepted batch had not been popped; it may have been evicted in flight.
LEMMA AckKeepsCount ==
  ASSUME QueueInv, DeliveryInv, CountInv, NEW q \in BOOLEAN, SendSucceeds(q)
  PROVE  CountInv'
<1>1. /\ sendPc = "send" /\ sendPc' = "pop" /\ acked' = acked \cup {inflight}
      /\ UNCHANGED <<inflight, popped, evicted>>
  BY DEF SendSucceeds, SendEnds, notSend
<1>2. inflight \notin popped /\ inflight \notin acked
  BY <1>1, DeliveryTypes DEF DeliveryInv
<1>3. Unsent' = Unsent
  BY <1>1, <1>2 DEF Unsent
<1>4. CASE inflight \in evicted
  <2>1. AckedEvicted' = AckedEvicted \cup {inflight} /\ inflight \notin AckedEvicted
    BY <1>1, <1>2, <1>4 DEF AckedEvicted
  <2>2. Cardinality(AckedEvicted') = Cardinality(AckedEvicted) + 1
    BY <2>1, CountTypes, FS_AddElement
  <2>3. QED
    BY <1>1, <1>3, <1>4, <2>2 DEF CountInv
<1>5. CASE inflight \notin evicted
  <2>1. AckedEvicted' = AckedEvicted
    BY <1>1, <1>5 DEF AckedEvicted
  <2>2. QED
    BY <1>1, <1>3, <1>5, <2>1 DEF CountInv
<1>6. QED
  BY <1>4, <1>5

\* The pop removes an unsent batch exactly when the accepted one is evicted.
LEMMA PopKeepsCount ==
  ASSUME QueueInv, DeliveryInv, CountInv, PopSent
  PROVE  CountInv'
<1>1. /\ sendPc = "pop" /\ sendPc' = "count" /\ popped' = popped \cup {OldestNo}
      /\ UNCHANGED <<inflight, acked, evicted>>
  BY DeliveryTypes DEF PopSent, sendLocals, notSend, QueueInv, LoopsAndQueue
<1>2. AckedEvicted' = AckedEvicted
  BY <1>1 DEF AckedEvicted
<1>3. CASE inflight \in evicted
  <2>1. OldestNo \notin acked /\ OldestNo \notin popped
    BY <1>1, <1>3, DeliveryTypes DEF DeliveryInv
  <2>2. Unsent' = Unsent \cup {OldestNo} /\ OldestNo \notin Unsent
    BY <1>1, <2>1 DEF Unsent
  <2>3. Cardinality(Unsent') = Cardinality(Unsent) + 1
    BY <2>2, CountTypes, FS_AddElement
  <2>4. QED
    BY <1>1, <1>2, <1>3, <2>3 DEF CountInv
<1>4. CASE inflight \notin evicted
  <2>1. OldestNo \in acked
    BY <1>1, <1>4 DEF DeliveryInv
  <2>2. Unsent' = Unsent
    BY <1>1, <2>1 DEF Unsent
  <2>3. QED
    BY <1>1, <1>2, <1>4, <2>2 DEF CountInv
<1>5. QED
  BY <1>3, <1>4

\* No step breaks the balance of unsent pops and counted evictions.
LEMMA CountStep ==
  ASSUME QueueInv, DeliveryInv, CountInv, [Next]_vars
  PROVE  CountInv'
<1>1. CASE PushBatch
  BY <1>1, PushKeepsCount
<1>2. CASE PeekHead
  <2>1. sendPc = "peek" /\ sendPc' # "pop" /\ UNCHANGED <<acked, popped, evicted>>
    BY <1>2 DEF PeekHead, sendQuiet, notSend, otherGhosts
  <2>2. QED
    BY <2>1 DEF CountInv, Unsent, AckedEvicted
<1>3. CASE \E q \in BOOLEAN : SendSucceeds(q)
  BY <1>3, AckKeepsCount
<1>4. CASE PopSent
  BY <1>4, PopKeepsCount
<1>5. CASE ~PushBatch /\ ~PeekHead /\ ~(\E q \in BOOLEAN : SendSucceeds(q)) /\ ~PopSent
  <2>1. /\ UNCHANGED <<inflight, acked, popped, evicted>>
        /\ sendPc' = "pop" <=> sendPc = "pop"
    BY <1>5, OtherStepsDeliverNothing
  <2>2. QED
    BY <2>1 DEF CountInv, Unsent, AckedEvicted
<1>6. QED
  BY <1>1, <1>2, <1>3, <1>4, <1>5

\* Pop throws away as many unsent batches as accepted ones were evicted: never
\* more than the counters say, and none without an overflow.
THEOREM UnsentPopsCounted == Spec => []UnsentPopsAreOverflows
<1>1. QueueInv /\ DeliveryInv /\ CountInv /\ [Next]_vars => CountInv'
  BY CountStep
<1>2. CountInv => UnsentPopsAreOverflows
  BY DEF CountInv, UnsentPopsAreOverflows, Unsent, AckedEvicted
<1>3. QED
  BY <1>1, <1>2, CountInvInit, QueueInvHolds, DeliveryInvHolds, PTL DEF Spec
=============================================================================
