------------------------------- MODULE Buffer -------------------------------
(***************************************************************************)
(* internal/scheduler/buffer.go: the bounded FIFO between the collect loop *)
(* and the send loop.                                                      *)
(*                                                                         *)
(* A batch is the number of the scrape that produced it.  The mutex makes  *)
(* the queue half of Push, and all of Peek and Pop, one atomic step each;  *)
(* the wakeup at the end of Push happens after the unlock and is a step of *)
(* its own.  `notify` is the channel with one slot: TRUE when a token is   *)
(* waiting in it.                                                          *)
(***************************************************************************)
EXTENDS Integers, Sequences

CONSTANT Capacity            \* Buffer.cap

\* NewBuffer panics on a capacity below one.
ASSUME CapacityAssumption == Capacity \in Nat \ {0}

VARIABLES items,             \* the queue, oldest batch first
          dropped,           \* DroppedOverflow: batches evicted by Push
          notify             \* a wakeup token is in the channel

bufferVars == <<items, dropped, notify>>

BufferInit ==
  /\ items = <<>>
  /\ dropped = 0
  /\ notify = FALSE

IsFull == Len(items) >= Capacity

\* Mutants of PushLocked: the incoming batch is the one dropped; `>` for `>=`;
\* the eviction is not counted; the batch goes in at the head.
PushLockedDropNewest(batch) ==
  /\ items' = IF IsFull THEN items ELSE Append(items, batch)
  /\ dropped' = IF IsFull THEN dropped + 1 ELSE dropped
  /\ UNCHANGED notify

PushLockedOffByOne(batch) ==
  /\ items' = Append(IF Len(items) > Capacity THEN Tail(items) ELSE items, batch)
  /\ dropped' = IF Len(items) > Capacity THEN dropped + 1 ELSE dropped
  /\ UNCHANGED notify

PushLockedUncounted(batch) ==
  /\ items' = Append(IF IsFull THEN Tail(items) ELSE items, batch)
  /\ UNCHANGED <<dropped, notify>>

PushLockedAtHead(batch) ==
  /\ items' = <<batch>> \o (IF IsFull THEN Tail(items) ELSE items)
  /\ dropped' = IF IsFull THEN dropped + 1 ELSE dropped
  /\ UNCHANGED notify

\* Push under the lock: the oldest batch makes room, the new one is appended.
PushLocked(batch) ==
  /\ items' = Append(IF IsFull THEN Tail(items) ELSE items, batch)
  /\ dropped' = IF IsFull THEN dropped + 1 ELSE dropped
  /\ UNCHANGED notify

\* Mutant: on an unbuffered channel the non-blocking send finds nobody waiting.
SignalNotifyUnbuffered == UNCHANGED bufferVars

\* Push after the unlock: a non-blocking send on the one-slot channel.
SignalNotify ==
  /\ notify' = TRUE
  /\ UNCHANGED <<items, dropped>>

\* The receive on Notify() in the sender's select.
TakeNotify ==
  /\ notify
  /\ notify' = FALSE
  /\ UNCHANGED <<items, dropped>>

\* Mutant: the newest batch is offered to the sender.
PeekNewest == items[Len(items)]

\* Peek: whether there is a batch, and the one it returns.
HasBatch == items # <<>>
PeekBatch == Head(items)

\* Pop removes whatever is at the head now, and does nothing when empty.
PopHead ==
  /\ items' = IF HasBatch THEN Tail(items) ELSE items
  /\ UNCHANGED <<dropped, notify>>
=============================================================================
