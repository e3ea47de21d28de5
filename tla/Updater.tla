------------------------------ MODULE Updater -------------------------------
(***************************************************************************)
(* internal/updater: the daily look for a newer release.  The agent never  *)
(* updates itself: all this does is log update.available.                  *)
(*                                                                         *)
(* A release is its tag: a version and one way of spelling it.  Of a       *)
(* version's four fields, `pre` is the rank of the pre-release tag in Go's *)
(* string order, 0 for none.  What cannot be parsed is Unparsable.         *)
(***************************************************************************)
EXTENDS Integers, Sequences

CONSTANTS Versions,          \* what tags may parse to
          Spellings,         \* of one version: "v1.0.0", "1.0.0", "1.0.0+b7"
          Unparsable,
          MaxOffers          \* bound: offers that are remembered

ASSUME UpdaterAssumption ==
  /\ Versions \subseteq [major : Nat, minor : Nat, patch : Nat, pre : Nat]
  /\ Unparsable \notin Versions
  /\ MaxOffers \in Nat \ {0}

Releases == [spelling : Spellings, version : Versions \cup {Unparsable}]
NoRelease == [spelling |-> "", version |-> Unparsable]

VARIABLES pc,                \* "parked", "warmup", "idle", "fetch" or "returned"
          current,           \* the running version
          cancelled,         \* ctx is done
          lastSeen,          \* lastSeenLatest
          offers             \* the releases logged as update.available so far

vars == <<pc, current, cancelled, lastSeen, offers>>

\* Mutant: a pre-release counts as newer than the release it precedes.
IsNewerPreFirst(cur, latest) ==
  CASE latest.major # cur.major -> latest.major > cur.major
    [] latest.major = cur.major /\ latest.minor # cur.minor -> latest.minor > cur.minor
    [] OTHER -> latest.patch > cur.patch \/ (latest.patch = cur.patch /\ latest.pre > cur.pre)

\* Versions compare field by field; a release is newer than its pre-releases.
IsNewer(cur, latest) ==
  CASE latest.major # cur.major -> latest.major > cur.major
    [] latest.major = cur.major /\ latest.minor # cur.minor -> latest.minor > cur.minor
    [] latest.major = cur.major /\ latest.minor = cur.minor /\ latest.patch # cur.patch ->
         latest.patch > cur.patch
    [] OTHER -> cur.pre # 0 /\ (latest.pre = 0 \/ latest.pre > cur.pre)

\* New: a version that does not parse ("dev") switches the check off for good.
Init ==
  /\ current \in Versions \cup {Unparsable}
  /\ pc = IF current = Unparsable THEN "parked" ELSE "warmup"
  /\ cancelled = FALSE
  /\ lastSeen = NoRelease
  /\ offers = <<>>

-----------------------------------------------------------------------------

\* The timer: the random warm-up delay first, then Interval after each check.
TimerFires ==
  /\ pc \in {"warmup", "idle"}
  /\ pc' = "fetch"
  /\ UNCHANGED <<current, cancelled, lastSeen, offers>>

\* Mutant: a parked Run watches nothing at all.
CtxDoneParkedMissing ==
  /\ pc \in {"warmup", "idle"}
  /\ cancelled
  /\ pc' = "returned"
  /\ UNCHANGED <<current, cancelled, lastSeen, offers>>

\* The other branch of the select; a parked Run waits for nothing else.
CtxDone ==
  /\ pc \in {"parked", "warmup", "idle"}
  /\ cancelled
  /\ pc' = "returned"
  /\ UNCHANGED <<current, cancelled, lastSeen, offers>>

\* The network, the timeout, a status other than 200, a body that does not
\* decode, an empty version, or the context, which the request carries.
FetchFails ==
  /\ pc = "fetch"
  /\ pc' = "idle"
  /\ UNCHANGED <<current, cancelled, lastSeen, offers>>

\* Mutant: the tag is offered without being remembered.
OfferForgotten(rel) ==
  /\ Len(offers) < MaxOffers
  /\ offers' = IF rel # lastSeen THEN Append(offers, rel) ELSE offers
  /\ UNCHANGED lastSeen

\* Under the mutex: remember the tag; log it when it is not the last one seen.
Offer(rel) ==
  /\ Len(offers) < MaxOffers
  /\ lastSeen' = rel
  /\ offers' = IF rel # lastSeen THEN Append(offers, rel) ELSE offers

FetchReturns(rel) ==
  /\ pc = "fetch"
  /\ pc' = "idle"
  /\ IF rel.version # Unparsable /\ IsNewer(current, rel.version)
     THEN Offer(rel)
     ELSE UNCHANGED <<lastSeen, offers>>
  /\ UNCHANGED <<current, cancelled>>

\* The daemon ends, sched.Run having returned, or was told to.
Cancel ==
  /\ ~cancelled
  /\ cancelled' = TRUE
  /\ UNCHANGED <<pc, current, lastSeen, offers>>

Returned == pc = "returned" /\ UNCHANGED vars

Next ==
  \/ TimerFires \/ CtxDone \/ FetchFails
  \/ \E rel \in Releases : FetchReturns(rel)
  \/ Cancel \/ Returned

Spec == Init /\ [][Next]_vars

\* A request ends, by its timeout at the latest.  Once the context is done the
\* select may still prefer the timer, which is ready once a day, but not always.
FairSpec ==
  Spec /\ SF_vars(CtxDone)
       /\ WF_vars(FetchFails \/ \E rel \in Releases : FetchReturns(rel))

-----------------------------------------------------------------------------

\* The reference for the order: the versions as tuples, a release
\* after all of its pre-releases.
PreRank(v) == IF v.pre = 0 THEN 1 ELSE 0
Precedes(a, b) ==
  LET u == <<a.major, a.minor, a.patch, PreRank(a), a.pre>>
      w == <<b.major, b.minor, b.patch, PreRank(b), b.pre>>
  IN  \E i \in 1..5 : u[i] < w[i] /\ \A j \in 1..(i - 1) : u[j] = w[j]

\* The type invariant: what is offered is what the server named, and the last
\* offer is the tag remembered.
TypeOK ==
  /\ pc \in {"parked", "warmup", "idle", "fetch", "returned"}
  /\ current \in Versions \cup {Unparsable} /\ cancelled \in BOOLEAN
  /\ offers \in Seq(Releases) /\ Len(offers) <= MaxOffers
  /\ lastSeen = IF offers = <<>> THEN NoRelease ELSE offers[Len(offers)]

\* No operator is told to downgrade, to install what is running, or to leave a
\* release for a pre-release of it; and a development build offers nothing.
OffersAreUpgrades ==
  \A i \in 1..Len(offers) : current # Unparsable /\ Precedes(current, offers[i].version)

\* A server that keeps naming one release is logged once, not once a day.
NoDailyRepeat == \A i \in 2..Len(offers) : offers[i] # offers[i - 1]

\* The goroutine ends with the daemon's context, wherever it finds it.
UpdaterStops == cancelled ~> pc = "returned"

=============================================================================
