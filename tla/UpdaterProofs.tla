---------------------------- MODULE UpdaterProofs ----------------------------
(***************************************************************************)
(* What the update check announces, for every set of versions, every       *)
(* spelling and any number of answers of the server: only upgrades, by an  *)
(* order of versions stated without reference to the code, and never the   *)
(* same release twice in a row.                                            *)
(***************************************************************************)
EXTENDS Updater, SequenceTheorems, TLAPS

USE UpdaterAssumption

\* isNewer, field by field, is the order of the version tuples.
LEMMA IsNewerPrecedes ==
  ASSUME NEW cur \in Versions, NEW latest \in Versions, IsNewer(cur, latest)
  PROVE  Precedes(cur, latest)
<1> DEFINE u == <<cur.major, cur.minor, cur.patch, PreRank(cur), cur.pre>>
           w == <<latest.major, latest.minor, latest.patch, PreRank(latest), latest.pre>>
<1>1. /\ cur.major \in Nat /\ cur.minor \in Nat /\ cur.patch \in Nat /\ cur.pre \in Nat
      /\ latest.major \in Nat /\ latest.minor \in Nat /\ latest.patch \in Nat /\ latest.pre \in Nat
  OBVIOUS
<1>2. \E i \in 1..5 : u[i] < w[i] /\ \A j \in 1..(i - 1) : u[j] = w[j]
  <2>1. CASE latest.major # cur.major
    <3>1. u[1] < w[1]
      BY <1>1, <2>1 DEF IsNewer
    <3>2. QED
      BY <3>1
  <2>2. CASE latest.major = cur.major /\ latest.minor # cur.minor
    <3>1. u[1] = w[1] /\ u[2] < w[2]
      BY <1>1, <2>2 DEF IsNewer
    <3>2. \A j \in 1..(2 - 1) : u[j] = w[j]
      BY <3>1
    <3>3. QED
      BY <3>1, <3>2
  <2>3. CASE latest.major = cur.major /\ latest.minor = cur.minor /\ latest.patch # cur.patch
    <3>1. u[1] = w[1] /\ u[2] = w[2] /\ u[3] < w[3]
      BY <1>1, <2>3 DEF IsNewer
    <3>2. \A j \in 1..(3 - 1) : u[j] = w[j]
      BY <3>1
    <3>3. QED
      BY <3>1, <3>2
  <2>4. CASE latest.major = cur.major /\ latest.minor = cur.minor /\ latest.patch = cur.patch
    <3>1. cur.pre # 0 /\ (latest.pre = 0 \/ latest.pre > cur.pre)
      BY <2>4 DEF IsNewer
    <3>2. u[1] = w[1] /\ u[2] = w[2] /\ u[3] = w[3]
      BY <2>4
    <3>3. CASE latest.pre = 0
      <4>1. u[4] < w[4]
        BY <3>1, <3>3 DEF PreRank
      <4>2. \A j \in 1..(4 - 1) : u[j] = w[j]
        BY <3>2
      <4>3. QED
        BY <4>1, <4>2
    <3>4. CASE latest.pre # 0
      <4>1. u[4] = w[4] /\ u[5] < w[5]
        BY <1>1, <3>1, <3>4 DEF PreRank
      <4>2. \A j \in 1..(5 - 1) : u[j] = w[j]
        BY <3>2, <4>1
      <4>3. QED
        BY <4>1, <4>2
    <3>5. QED
      BY <3>3, <3>4
  <2>5. QED
    BY <2>1, <2>2, <2>3, <2>4
<1>3. QED
  BY <1>2 DEF Precedes

UpdaterInv == TypeOK /\ OffersAreUpgrades /\ NoDailyRepeat

LEMMA UpdaterInvInit == Init => UpdaterInv
<1> SUFFICES ASSUME Init PROVE UpdaterInv
  OBVIOUS
<1>1. offers \in Seq(Releases) /\ Len(offers) = 0
  BY EmptySeq DEF Init
<1>2. TypeOK
  <2>1. offers = <<>> /\ lastSeen = NoRelease
    BY DEF Init
  <2>2. Len(offers) <= MaxOffers
    BY <1>1
  <2>3. QED
    BY <1>1, <2>1, <2>2 DEF Init, TypeOK
<1>3. OffersAreUpgrades /\ NoDailyRepeat
  BY <1>1 DEF OffersAreUpgrades, NoDailyRepeat
<1>4. QED
  BY <1>2, <1>3 DEF UpdaterInv

\* A step that leaves what is remembered alone.
LEMMA Unmoved ==
  ASSUME UpdaterInv, UNCHANGED <<current, lastSeen, offers>>,
         pc' \in {"parked", "warmup", "idle", "fetch", "returned"}, cancelled' \in BOOLEAN
  PROVE  UpdaterInv'
  BY DEF UpdaterInv, TypeOK, OffersAreUpgrades, NoDailyRepeat

\* An answer that names an upgrade.
LEMMA OfferKeeps ==
  ASSUME UpdaterInv, NEW rel \in Releases, Offer(rel), UNCHANGED <<current, cancelled>>,
         pc' = "idle", rel.version # Unparsable, current # Unparsable,
         IsNewer(current, rel.version)
  PROVE  UpdaterInv'
<1> USE DEF UpdaterInv, TypeOK
<1>1. Precedes(current, rel.version)
  BY IsNewerPrecedes DEF Releases
<1>2. CASE rel = lastSeen
  <2>1. UNCHANGED <<lastSeen, offers>>
    BY <1>2 DEF Offer
  <2>2. QED
    BY <2>1, Unmoved
<1>3. CASE rel # lastSeen
  <2> DEFINE n == Len(offers)
  <2>1. n \in Nat /\ n < MaxOffers /\ offers \in Seq(Releases)
    BY LenProperties DEF Offer
  <2>2. offers' = Append(offers, rel) /\ lastSeen' = rel
    BY <1>3 DEF Offer
  <2>3. /\ offers' \in Seq(Releases) /\ Len(offers') = n + 1
        /\ offers'[n + 1] = rel /\ \A i \in 1..n : offers'[i] = offers[i]
    BY <2>1, <2>2, AppendProperties
  <2>4. offers' # <<>> /\ Len(offers') <= MaxOffers
    BY <2>1, <2>3, EmptySeq
  <2>5. TypeOK'
    BY <2>2, <2>3, <2>4
  <2>6. OffersAreUpgrades'
    BY <1>1, <2>1, <2>3 DEF OffersAreUpgrades
  <2>7. NoDailyRepeat'
    <3>1. n > 0 => rel # offers[n]
      BY <1>3, <2>1, EmptySeq
    <3>2. SUFFICES ASSUME NEW i \in 2..(n + 1) PROVE offers'[i] # offers'[i - 1]
      BY <2>3 DEF NoDailyRepeat
    <3>3. CASE i = n + 1
      BY <2>1, <2>3, <3>1, <3>3
    <3>4. CASE i # n + 1
      BY <2>1, <2>3, <3>4 DEF NoDailyRepeat
    <3>5. QED
      BY <3>3, <3>4
  <2>8. QED
    BY <2>5, <2>6, <2>7
<1>4. QED
  BY <1>2, <1>3

\* The running version parses wherever a fetch returns: the check is parked else.
ParkedInv == current = Unparsable => pc \in {"parked", "returned"}

LEMMA UpdaterInvNext ==
  ASSUME UpdaterInv, ParkedInv, [Next]_vars
  PROVE  UpdaterInv' /\ ParkedInv'
<1>1. CASE TimerFires \/ CtxDone \/ FetchFails \/ Cancel \/ Returned \/ UNCHANGED vars
  <2>1. /\ UNCHANGED <<current, lastSeen, offers>>
        /\ pc' \in {"parked", "warmup", "idle", "fetch", "returned"} /\ cancelled' \in BOOLEAN
        /\ pc' = pc \/ pc' = "returned" \/ pc \in {"warmup", "idle", "fetch"}
    BY <1>1 DEF TimerFires, CtxDone, FetchFails, Cancel, Returned, vars, UpdaterInv, TypeOK
  <2>2. QED
    BY <2>1, Unmoved DEF ParkedInv
<1>2. ASSUME NEW rel \in Releases, FetchReturns(rel)
      PROVE  UpdaterInv' /\ ParkedInv'
  <2>1. current # Unparsable /\ UNCHANGED <<current, cancelled>> /\ pc' = "idle"
    BY <1>2 DEF FetchReturns, ParkedInv
  <2>2. CASE rel.version # Unparsable /\ IsNewer(current, rel.version)
    BY <1>2, <2>1, <2>2, OfferKeeps DEF FetchReturns, ParkedInv
  <2>3. CASE ~(rel.version # Unparsable /\ IsNewer(current, rel.version))
    <3>1. UNCHANGED <<lastSeen, offers>>
      BY <1>2, <2>3 DEF FetchReturns
    <3>2. QED
      BY <2>1, <3>1, Unmoved DEF ParkedInv, UpdaterInv, TypeOK
  <2>4. QED
    BY <2>2, <2>3
<1>3. QED
  BY <1>1, <1>2 DEF Next

\* The invariant of the updater holds for ever.
THEOREM UpdaterInvHolds == Spec => [](UpdaterInv /\ ParkedInv)
<1>1. Init => ParkedInv
  BY DEF Init, ParkedInv
<1>2. QED
  BY <1>1, UpdaterInvInit, UpdaterInvNext, PTL DEF Spec

\* OffersAreUpgrades: what is announced is newer than what runs.
THEOREM OnlyUpgrades == Spec => []OffersAreUpgrades
  BY UpdaterInvHolds, PTL DEF UpdaterInv

\* NoDailyRepeat: no release is announced twice in a row.
THEOREM NoRepeat == Spec => []NoDailyRepeat
  BY UpdaterInvHolds, PTL DEF UpdaterInv
=============================================================================
