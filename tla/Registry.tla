------------------------------ MODULE Registry ------------------------------
(***************************************************************************)
(* internal/collector: what one scrape yields.  The host is fixed (its     *)
(* cores, mounts, block devices and interfaces); what changes from scrape  *)
(* to scrape is the outage: which system calls fail.  A sample is its name *)
(* and its labels, a function from label names to values; its value        *)
(* matters to no property and is left out, as is the batch's metadata.     *)
(***************************************************************************)
EXTENDS Integers, Sequences, SequencesExt

CONSTANTS
  Cores,                     \* per core, its metric and the value of its `core` label
  Mounts,                    \* disk.Partitions: [mount, device, virtual], in its order
  Devices,                   \* disk.IOCounters
  Ifaces                     \* net.IOCounters: [iface, virtual], in its order

\* The names that do not depend on the host.
HostMetrics ==
  {"cpu.usage", "cpu.load_1m", "cpu.load_5m", "cpu.load_15m",
   "mem.used", "mem.total", "mem.available", "mem.cached", "swap.used",
   "disk.used", "disk.total", "disk.read_bytes", "disk.write_bytes",
   "net.rx_bytes", "net.tx_bytes", "net.rx_errors", "net.tx_errors", "uptime.seconds"}

\* Cores are numbered, block devices are the keys of a map, and the kernel's
\* interfaces have names of their own; a device may be mounted many times.
ASSUME HostAssumption ==
  /\ Cores \in Seq([metric : STRING, core : STRING])
  /\ \A i, j \in 1..Len(Cores) : i # j => Cores[i].metric # Cores[j].metric
  /\ \A i \in 1..Len(Cores) : Cores[i].metric \notin HostMetrics
  /\ Mounts \in Seq([mount : STRING, device : STRING, virtual : BOOLEAN])
  /\ Devices \in Seq(STRING)
  /\ \A i, j \in 1..Len(Devices) : i # j => Devices[i] # Devices[j]
  /\ Ifaces \in Seq([iface : STRING, virtual : BOOLEAN])
  /\ \A i, j \in 1..Len(Ifaces) : i # j => Ifaces[i].iface # Ifaces[j].iface

Sample(name, labels) == [name |-> name, labels |-> labels]
NoLabels == [k \in {} |-> ""]

\* An outage: the calls that fail, and the mounts whose disk.Usage fails.
Works(outage, call) == call \notin outage.calls

MapSeq(s, Op(_)) == [i \in 1..Len(s) |-> Op(s[i])]

When(cond, samples) == IF cond THEN samples ELSE <<>>

\* The samples that pass a test, in their order.
Keep(samples, Test(_)) == FlattenSeq(MapSeq(samples, LAMBDA s : When(Test(s), <<s>>)))

Yields(samples, failed) == [samples |-> samples, failed |-> failed]

\* Without the aggregate the collector gives up; the other two are optional.
CollectCPU(outage) ==
  LET perCore(c) == Sample(c.metric, [core |-> c.core])
  IN  IF ~Works(outage, "cpu.total") THEN Yields(<<>>, TRUE)
      ELSE Yields(<<Sample("cpu.usage", NoLabels)>>
                    \o When(Works(outage, "cpu.cores"), MapSeq(Cores, perCore))
                    \o When(Works(outage, "load"),
                            << Sample("cpu.load_1m", NoLabels), Sample("cpu.load_5m", NoLabels),
                               Sample("cpu.load_15m", NoLabels) >>),
                  FALSE)

\* The first mount of a device stands for all of them, readable or not; file
\* systems in skipFstypes stand for nothing.
CountsMount(i) ==
  /\ ~Mounts[i].virtual
  /\ \A j \in 1..(i - 1) : ~Mounts[j].virtual => Mounts[j].device # Mounts[i].device

\* An unreadable file system is skipped without an error; a failing list of
\* partitions and failing counters are errors that keep what there is.
CollectDisk(outage) ==
  LET mountLabels(i) == [mount |-> Mounts[i].mount, device |-> Mounts[i].device]
      usage(i) == When(CountsMount(i) /\ Mounts[i].mount \notin outage.mounts,
                       << Sample("disk.used", mountLabels(i)),
                          Sample("disk.total", mountLabels(i)) >>)
      io(d) == << Sample("disk.read_bytes", [device |-> d]),
                  Sample("disk.write_bytes", [device |-> d]) >>
  IN  Yields(When(Works(outage, "partitions"), FlattenSeq([i \in 1..Len(Mounts) |-> usage(i)]))
               \o When(Works(outage, "disk.io"), FlattenSeq(MapSeq(Devices, io))),
             ~Works(outage, "partitions") \/ ~Works(outage, "disk.io"))

CollectNet(outage) ==
  LET metrics(n) == MapSeq(<<"net.rx_bytes", "net.tx_bytes", "net.rx_errors", "net.tx_errors">>,
                           LAMBDA m : Sample(m, [iface |-> n.iface]))
      counters(n) == When(~n.virtual, metrics(n))
  IN  Yields(When(Works(outage, "net.io"), FlattenSeq(MapSeq(Ifaces, counters))),
             ~Works(outage, "net.io"))

\* mem, swap and uptime: one call, all of the samples or none.
CollectPlain(outage, call, names) ==
  Yields(When(Works(outage, call), MapSeq(names, LAMBDA n : Sample(n, NoLabels))),
         ~Works(outage, call))

CollectMem(outage) ==
  CollectPlain(outage, "mem", <<"mem.used", "mem.total", "mem.available", "mem.cached">>)
CollectSwap(outage) == CollectPlain(outage, "swap", <<"swap.used">>)
CollectUptime(outage) == CollectPlain(outage, "uptime", <<"uptime.seconds">>)

CollectAll(outage) ==
  << CollectCPU(outage), CollectMem(outage), CollectSwap(outage), CollectDisk(outage),
     CollectNet(outage), CollectUptime(outage) >>

\* applyAllowlist; the empty list allows everything.
ApplyAllowlist(samples, allowlist) ==
  IF allowlist = {} THEN samples
  ELSE Keep(samples, LAMBDA s : s.name \in allowlist)

\* Mutant: the static labels win.
MergeLabelsStaticWins(own, static) ==
  [k \in DOMAIN own \cup DOMAIN static |-> IF k \in DOMAIN static THEN static[k] ELSE own[k]]

\* A sample's own labels win over the static ones of the configuration.
MergeLabels(own, static) ==
  [k \in DOMAIN own \cup DOMAIN static |-> IF k \in DOMAIN own THEN own[k] ELSE static[k]]

ApplyStaticLabels(samples, static) ==
  MapSeq(samples, LAMBDA s : Sample(s.name, MergeLabels(s.labels, static)))

\* Mutant: a collector that fails ends the scrape.
MergeUntilError(collected) ==
  LET good == {i \in 0..Len(collected) : \A j \in 1..i : ~collected[j].failed}
      last == CHOOSE i \in good : \A j \in good : j <= i
  IN  FlattenSeq(MapSeq(SubSeq(collected, 1, last), LAMBDA y : y.samples))

\* What a collector returned beside an error counts too.
MergeSamples(collected) == FlattenSeq(MapSeq(collected, LAMBDA y : y.samples))

Errors(collected) == {i \in 1..Len(collected) : collected[i].failed}

\* Registry.Scrape: the batch and the collectors that failed.
Scrape(outage, static, allowlist) ==
  LET collected == CollectAll(outage)
  IN  [ metrics |-> ApplyStaticLabels(ApplyAllowlist(MergeSamples(collected), allowlist), static),
        errs    |-> Errors(collected) ]
=============================================================================
