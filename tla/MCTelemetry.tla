---------------------------- MODULE MCTelemetry -----------------------------
(***************************************************************************)
(* Telemetry for TLC: a host with two cores, a disk that is mounted twice, *)
(* a second disk, a tmpfs, two interfaces and a loopback.                  *)
(***************************************************************************)
EXTENDS Telemetry

TwoCores == <<[metric |-> "cpu.usage.0", core |-> "0"], [metric |-> "cpu.usage.1", core |-> "1"]>>

FourMounts ==
  LET M(m, d, v) == [mount |-> m, device |-> d, virtual |-> v]
  IN  <<M("/", "sda", FALSE), M("/run", "tmpfs", TRUE), M("/bind", "sda", FALSE),
        M("/data", "sdb", FALSE)>>

TwoDevices == <<"sda", "sdb">>

ThreeIfaces ==
  <<[iface |-> "lo", virtual |-> TRUE], [iface |-> "eth0", virtual |-> FALSE],
    [iface |-> "eth1", virtual |-> FALSE]>>

\* None, an ordinary one, and one for every label the collectors use.
Labellings ==
  {<<>>, [env |-> "prod"],
   [core |-> "x", mount |-> "x", device |-> "x", iface |-> "x", env |-> "x"]}

\* All metrics, some of two collectors, one that does not exist.
SomeAllowlists == {{}, {"cpu.usage.1", "disk.used", "disk.read_bytes"}, {"no.such"}}

Calls == {"cpu.total", "cpu.cores", "load", "mem", "swap", "partitions", "disk.io",
          "net.io", "uptime"}

\* Nothing, each call alone, all but one, two at a time around the disks; with
\* and without an unreadable mount.
SomeOutages ==
  [calls : {{}, Calls, {"partitions", "disk.io"}, {"cpu.total", "net.io"}}
             \cup {{c} : c \in Calls} \cup {Calls \ {c} : c \in Calls},
   mounts : {{}, {"/"}, {"/data"}}]

AllWell == [calls |-> {}, mounts |-> {}]

Setup(configs, outages, batches, flaws, failures, reads) ==
  [labels |-> configs.labels, allowlists |-> configs.allowlists, outages |-> outages,
   batches |-> batches, flaws |-> flaws, failures |-> failures, reads |-> reads]

Plain == [labels |-> {<<>>}, allowlists |-> {{}}]
Varied == [labels |-> Labellings, allowlists |-> SomeAllowlists]

\* Every outage under every configuration; long runs under observation; a
\* network that loses and delays.
ThreeSetups ==
  {Setup(Varied, SomeOutages, 1, 1, 0, FALSE), Setup(Plain, {AllWell}, 4, 0, 0, TRUE),
   Setup(Plain, {AllWell}, 2, 0, 2, FALSE)}
=============================================================================
