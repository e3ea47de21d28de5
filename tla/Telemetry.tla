----------------------------- MODULE Telemetry ------------------------------
(***************************************************************************)
(* What the agent reports, and what an operator can conclude from it: the  *)
(* counters of scheduler.Stats as the two loops add to them one at a time, *)
(* the /metrics handler as it reads them one at a time, and the ingest     *)
(* server at the other end of a network that loses replies and delivers    *)
(* requests after the client has given up.                                 *)
(*                                                                         *)
(* Shutdown, throttle and back-off are Scheduler's matter; here the loops  *)
(* may stop anywhere.  Sums of samples are left out.                       *)
(***************************************************************************)
EXTENDS Buffer, Registry, FiniteSets

CONSTANT Setups              \* the inputs and bounds of a behaviour: see `bounds`

VARIABLES
  bounds,                    \* labels, allowlists: configurations;
                             \* outages: what may fail in a scrape;
                             \* batches: scrapes with a sample; flaws: scrapes with an
                             \* error, and scrapes without a sample; failures: failed
                             \* sends; reads: whether /metrics is asked
  static, allowlist,         \* Registry: labels and metrics_allowlist
  collectPc, scrape,         \* scrapeOnce, and the result of Registry.Scrape
  sendPc, inflight,          \* sendLoop, and its batch
  stats,                     \* scheduler.Stats
  readPc, snap               \* the handler: the field it reads next, what it has read

\* The server's side.
VARIABLES
  attempts,                  \* POSTs so far; the latest one is the one awaited
  network,                   \* requests under way: <<attempt, batch>>
  reply,                     \* the answer to the awaited POST, if it has come
  stored                     \* the requests whose batch the server has stored

registryVars == <<bounds, static, allowlist>>
collectVars == <<collectPc, scrape>>
sendVars == <<sendPc, inflight, attempts, reply>>
serverVars == <<network, stored>>
readVars == <<readPc, snap>>
vars == <<bufferVars, registryVars, collectVars, sendVars, serverVars, readVars, stats>>

Fields == {"ok", "partial", "empty", "sent", "failed", "flush", "dropped"}
Counters == Fields \ {"dropped"}

\* Mutants: the buffer's counter is read first; the time of the last flush is
\* read before the number of batches sent.
FieldOrderDroppedFirst == <<"dropped", "ok", "partial", "empty", "sent", "failed", "flush">>
FieldOrderFlushFirst == <<"flush", "ok", "partial", "empty", "sent", "failed", "dropped">>

\* Snapshot loads the fields in the order of the struct; Stats() reads the
\* buffer's counter last.
FieldOrder == <<"ok", "partial", "empty", "sent", "failed", "flush", "dropped">>

NoScrape == [metrics |-> <<>>, errs |-> {}]
NoSnapshot == [f \in Fields |-> 0]

Init ==
  /\ BufferInit
  /\ bounds \in Setups
  /\ static \in bounds.labels /\ allowlist \in bounds.allowlists
  /\ collectPc = "scrape" /\ scrape = NoScrape
  /\ sendPc = "peek" /\ inflight = 0
  /\ stats = [f \in Counters |-> 0]
  /\ readPc = 1 /\ snap = NoSnapshot
  /\ attempts = 0 /\ network = {} /\ reply = "none" /\ stored = {}

\* The bound on failures.
FailureLeft == stats.failed < bounds.failures

Add(counter) == stats' = [stats EXCEPT ![counter] = @ + 1]

-----------------------------------------------------------------------------
(* scrapeOnce *)

notCollect == <<registryVars, sendVars, serverVars, readVars>>

RunRegistry(outage) ==
  /\ collectPc = "scrape"
  /\ scrape' = Scrape(outage, static, allowlist)
  /\ collectPc' = IF scrape'.errs # {} THEN "errors" ELSE "count"
  /\ UNCHANGED <<bufferVars, stats, notCollect>>

CountPartial ==
  /\ collectPc = "errors" /\ stats.partial < bounds.flaws
  /\ Add("partial")
  /\ collectPc' = "count"
  /\ UNCHANGED <<scrape, bufferVars, notCollect>>

CountEmpty ==
  /\ collectPc = "count" /\ stats.empty < bounds.flaws
  /\ scrape.metrics = <<>>
  /\ Add("empty")
  /\ collectPc' = "scrape" /\ scrape' = NoScrape
  /\ UNCHANGED <<bufferVars, notCollect>>

CountOK ==
  /\ collectPc = "count" /\ stats.ok < bounds.batches
  /\ scrape.metrics # <<>>
  /\ Add("ok")
  /\ collectPc' = "push" /\ scrape' = NoScrape
  /\ UNCHANGED <<bufferVars, notCollect>>

PushBatch ==
  /\ collectPc = "push"
  /\ PushLocked(stats.ok)
  /\ collectPc' = "signal"
  /\ UNCHANGED <<scrape, stats, notCollect>>

SignalPush ==
  /\ collectPc = "signal"
  /\ SignalNotify
  /\ collectPc' = "scrape"
  /\ UNCHANGED <<scrape, stats, notCollect>>

CollectNext ==
  \/ \E outage \in bounds.outages : RunRegistry(outage)
  \/ CountPartial \/ CountEmpty \/ CountOK \/ PushBatch \/ SignalPush

-----------------------------------------------------------------------------
(* sendLoop *)

notSend == <<registryVars, collectVars, readVars>>

PeekHead ==
  /\ sendPc = "peek"
  /\ inflight' = IF HasBatch THEN PeekBatch ELSE inflight
  /\ sendPc' = IF HasBatch THEN "post" ELSE "idle"
  /\ UNCHANGED <<attempts, reply, bufferVars, stats, serverVars, notSend>>

IdleNotified ==
  /\ sendPc = "idle"
  /\ TakeNotify
  /\ sendPc' = "peek"
  /\ UNCHANGED <<inflight, attempts, reply, stats, serverVars, notSend>>

Post ==
  /\ sendPc = "post"
  /\ attempts' = attempts + 1
  /\ network' = network \cup {<<attempts', inflight>>}
  /\ reply' = "none"
  /\ sendPc' = "await"
  /\ UNCHANGED <<inflight, stored, bufferVars, stats, notSend>>

\* The answer is in time: accepted, or refused for good and dropped, both nil;
\* to be retried; or fatal.
SendReturns ==
  /\ sendPc = "await"
  /\ \/ reply \in {"accepted", "refused"} /\ sendPc' = "pop"
     \/ reply = "busy" /\ FailureLeft /\ sendPc' = "fail"
     \/ reply = "revoked" /\ sendPc' = "done"
  /\ UNCHANGED <<inflight, attempts, reply, bufferVars, stats, serverVars, notSend>>

\* The client's timeout, or a connection that breaks: a plain error.
SendTimesOut ==
  /\ sendPc = "await" /\ FailureLeft
  /\ sendPc' = "fail"
  /\ UNCHANGED <<inflight, attempts, reply, bufferVars, stats, serverVars, notSend>>

\* Mutant: only what the server answered counts as a failure.
CountFailedAnswers ==
  /\ sendPc = "fail"
  /\ IF reply # "none" THEN Add("failed") ELSE UNCHANGED stats
  /\ sendPc' = "peek"
  /\ UNCHANGED <<inflight, attempts, reply, bufferVars, serverVars, notSend>>

CountFailed ==
  /\ sendPc = "fail"
  /\ Add("failed")
  /\ sendPc' = "peek"
  /\ UNCHANGED <<inflight, attempts, reply, bufferVars, serverVars, notSend>>

PopSent ==
  /\ sendPc = "pop"
  /\ PopHead
  /\ sendPc' = "count"
  /\ UNCHANGED <<inflight, attempts, reply, stats, serverVars, notSend>>

CountSent ==
  /\ sendPc = "count"
  /\ Add("sent")
  /\ sendPc' = "flush"
  /\ UNCHANGED <<inflight, attempts, reply, bufferVars, serverVars, notSend>>

\* The time of a flush is its number: the clock of the host moves on.
StoreLastFlush ==
  /\ sendPc = "flush"
  /\ stats' = [stats EXCEPT !.flush = stats.sent]
  /\ sendPc' = "peek"
  /\ UNCHANGED <<inflight, attempts, reply, bufferVars, serverVars, notSend>>

SendNext ==
  \/ PeekHead \/ IdleNotified \/ Post \/ SendReturns \/ SendTimesOut
  \/ CountFailed \/ PopSent \/ CountSent \/ StoreLastFlush

-----------------------------------------------------------------------------
(* The server and the network *)

notServer == <<bufferVars, registryVars, collectVars, readVars, stats,
               sendPc, inflight, attempts>>

\* A request arrives, in time or long after its client gave up.  What the
\* server accepts it has stored; it may also store a batch and then fail.  Its
\* answer may be lost.
Handle(request, verdict) ==
  /\ request \in network
  /\ network' = network \ {request}
  /\ \/ verdict \in {"accepted", "busy"} /\ stored' = stored \cup {request}
     \/ verdict # "accepted" /\ UNCHANGED stored
  /\ \/ sendPc = "await" /\ request[1] = attempts /\ reply' = verdict
     \/ (sendPc # "await" \/ request[1] # attempts \/ FailureLeft) /\ UNCHANGED reply
  /\ UNCHANGED notServer

LoseRequest(request) ==
  /\ request \in network /\ FailureLeft
  /\ network' = network \ {request}
  /\ UNCHANGED <<stored, reply, notServer>>

ServerNext == \E request \in network :
  \/ \E verdict \in {"accepted", "refused", "busy", "revoked"} : Handle(request, verdict)
  \/ LoseRequest(request)

-----------------------------------------------------------------------------
(* GET /metrics: schedStatsAdapter, Stats() and the exposition *)

ReadField ==
  /\ bounds.reads
  /\ readPc <= Len(FieldOrder)
  /\ LET field == FieldOrder[readPc]
     IN  snap' = [snap EXCEPT ![field] = IF field = "dropped" THEN dropped ELSE stats[field]]
  /\ readPc' = readPc + 1
  /\ UNCHANGED <<bufferVars, registryVars, collectVars, sendVars, serverVars, stats>>

\* The page is written from the finished snapshot; the next GET starts over.
WriteExposition ==
  /\ readPc > Len(FieldOrder)
  /\ readPc' = 1 /\ snap' = NoSnapshot
  /\ UNCHANGED <<bufferVars, registryVars, collectVars, sendVars, serverVars, stats>>

\* A fatal reply ends the agent, a bound the behaviour.
Rests ==
  /\ sendPc = "done" \/ stats.ok = bounds.batches \/ stats.failed = bounds.failures
       \/ stats.partial = bounds.flaws
  /\ UNCHANGED vars

Next == CollectNext \/ SendNext \/ ServerNext \/ ReadField \/ WriteExposition \/ Rests

Spec == Init /\ [][Next]_vars

-----------------------------------------------------------------------------

\* No two samples of a scrape are the same series (a name with its labels),
\* whatever static labels the configuration adds: a label set for the whole
\* host never makes two disks or two cores one (registry.go, "existing
\* per-sample labels WIN").  No disk's capacity is in it twice, however often
\* the disk is mounted (disk.go:30-37).
SeriesStayDistinct ==
  \A i, j \in 1..Len(scrape.metrics) : i # j =>
    LET s == scrape.metrics[i]
        t == scrape.metrics[j]
    IN  s # t /\ (s.name = "disk.used" /\ t.name = "disk.used" => s.labels.device # t.labels.device)

\* The samples of a host in good order, and the calls each of them needs.
Needs(name, labels) ==
  CASE name = "cpu.usage" -> {"cpu.total"}
    [] "core" \in DOMAIN labels -> {"cpu.total", "cpu.cores"}
    [] name \in {"cpu.load_1m", "cpu.load_5m", "cpu.load_15m"} -> {"cpu.total", "load"}
    [] name \in {"mem.used", "mem.total", "mem.available", "mem.cached"} -> {"mem"}
    [] name = "swap.used" -> {"swap"}
    [] "mount" \in DOMAIN labels -> {"partitions"}
    [] name \in {"disk.read_bytes", "disk.write_bytes"} -> {"disk.io"}
    [] "iface" \in DOMAIN labels -> {"net.io"}
    [] name = "uptime.seconds" -> {"uptime"}

Survives(s, outage) ==
  /\ Needs(s.name, s.labels) \cap outage.calls = {}
  /\ "mount" \in DOMAIN s.labels => s.labels.mount \notin outage.mounts

\* A failure costs the samples that need the failing call and no others: the
\* batch is that of a host in good order less those (registry.go, "Partial
\* scrapes are normal and shippable"; collector.go, "errors are NEVER fatal to
\* a scrape").
Healthy == Scrape([calls |-> {}, mounts |-> {}], <<>>, allowlist)
FailureStaysLocal ==
  collectPc \in {"errors", "count"} => \E outage \in bounds.outages :
    LET lasting == Keep(Healthy.metrics, LAMBDA s : Survives(s, outage))
    IN  /\ scrape = Scrape(outage, static, allowlist)
        /\ [i \in 1..Len(scrape.metrics) |-> scrape.metrics[i].name]
             = [i \in 1..Len(lasting) |-> lasting[i].name]

\* What an operator takes for the backlog, scrapes_ok - batches_sent -
\* dropped_overflow, exceeds the buffer by two batches at most, one on its way
\* in and one on its way out, although the loops go on between the loads: the
\* scrapes are read before what becomes of them.
BacklogBounded ==
  readPc > Len(FieldOrder) => snap.ok <= snap.sent + snap.dropped + Capacity + 2

\* last_flush_unix is at most one flush behind batches_sent in every page: an
\* alert on a stuck agent does not fire on one that has just sent twice.
FlushKeepsUp == readPc > Len(FieldOrder) => snap.sent <= snap.flush + 1

\* Delivery is at least once, and batches_failed bounds what the server holds
\* twice: every copy beyond the first is matched by a failure the agent has
\* counted, also when the reply was lost or the request arrived late.
StoredBatches == {request[2] : request \in stored}
DuplicatesAreFailures == Cardinality(stored) - Cardinality(StoredBatches) <= stats.failed
=============================================================================
