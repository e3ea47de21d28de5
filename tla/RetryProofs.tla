----------------------------- MODULE RetryProofs ----------------------------
(***************************************************************************)
(* Proofs about the retry policy, for every set of replies, every pair of  *)
(* back-off limits and every length of a streak of failures.               *)
(***************************************************************************)
EXTENDS RetryPolicy, WellFoundedInduction, TLAPS

USE BackoffAssumption, DurationAssumption, MaxStreakAssumption

-----------------------------------------------------------------------------
(* Induction: a set of naturals has a least element *)

LEMMA LeastNatural ==
  ASSUME NEW T, T \subseteq Nat, T # {}
  PROVE  \E n \in T : \A m \in T : n <= m
<1> DEFINE R == {p \in Nat \X Nat : p[1] < p[2]}
<1>1. IsWellFoundedOn(R, Nat)
  BY NatLessThanWellFounded DEF OpToRel
<1> HIDE DEF R
<1>2. PICK n \in T : \A m \in T : <<m, n>> \notin R
  BY <1>1, WFMin
<1>3. \A m \in T : ~(m < n)
  BY <1>2 DEF R
<1>4. QED
  BY <1>3

-----------------------------------------------------------------------------
(* n doublings *)

\* One more failure in a row: twice as long, up to the cap.
Twice(d) == IF 2 * d > MaxSendBackoff THEN MaxSendBackoff ELSE 2 * d

\* The recursion of Doubled has a solution up to every n: a least n without one
\* would extend the solution for n - 1.
LEMMA DoubledExists ==
  \A n \in Nat : \E f :
    f = [i \in 1..n |-> IF i = 1 THEN MinSendBackoff ELSE Twice(f[i - 1])]
<1> DEFINE Solves(f, n) ==
      f = [i \in 1..n |-> IF i = 1 THEN MinSendBackoff ELSE Twice(f[i - 1])]
           T == {n \in Nat : ~\E f : Solves(f, n)}
<1>1. SUFFICES ASSUME T # {} PROVE FALSE
  OBVIOUS
<1>2. PICK n \in T : \A m \in T : n <= m
  <2> HIDE DEF T
  <2>1. T \subseteq Nat
    BY DEF T
  <2>2. QED
    BY <1>1, <2>1, LeastNatural
<1>3. n # 0
  <2>1. Solves([i \in 1..0 |-> 0], 0)
    OBVIOUS
  <2>2. QED
    BY <2>1
<1>4. PICK f : Solves(f, n - 1)
  <2>1. n - 1 \in Nat /\ n - 1 \notin T
    <3>1. n \in Nat
      OBVIOUS
    <3> HIDE DEF T
    <3>2. QED
      BY <1>2, <1>3, <3>1
  <2>2. QED
    BY <2>1
<1> DEFINE g == [i \in 1..n |-> IF i = 1 THEN MinSendBackoff ELSE Twice(f[i - 1])]
<1>5. \A i \in 1..(n - 1) : g[i] = f[i]
  BY <1>4
<1>6. Solves(g, n)
  <2>1. n \in Nat
    OBVIOUS
  <2>2. \A i \in 1..n : i # 1 => f[i - 1] = g[i - 1]
    <3> HIDE DEF g
    <3>1. QED
      BY <1>5, <2>1
  <2>3. QED
    BY <2>2
<1>7. QED
  BY <1>6

LEMMA DoubledEquation ==
  /\ Doubled[1] = MinSendBackoff
  /\ \A n \in 2..MaxStreak : Doubled[n] = Twice(Doubled[n - 1])
<1>1. Doubled = [i \in 1..MaxStreak |-> IF i = 1 THEN MinSendBackoff ELSE Twice(Doubled[i - 1])]
  <2>1. \E f : f = [i \in 1..MaxStreak |-> IF i = 1 THEN MinSendBackoff ELSE Twice(f[i - 1])]
    BY DoubledExists
  <2>2. QED
    BY <2>1 DEF Doubled, Twice
<1>2. QED
  BY <1>1

\* A doubled back-off stays within the limits: the least streak for which it
\* does not would come after one for which it does.
LEMMA DoubledRange == \A n \in 1..MaxStreak : Doubled[n] \in 1..MaxSendBackoff
<1> DEFINE T == {n \in 1..MaxStreak : Doubled[n] \notin 1..MaxSendBackoff}
<1>1. SUFFICES ASSUME T # {} PROVE FALSE
  OBVIOUS
<1>2. PICK n \in T : \A m \in T : n <= m
  <2> HIDE DEF T
  <2>1. T \subseteq Nat
    BY DEF T
  <2>2. QED
    BY <1>1, <2>1, LeastNatural
<1>3. n \in 1..MaxStreak /\ Doubled[n] \notin 1..MaxSendBackoff
  OBVIOUS
<1>4. n # 1
  BY <1>3, DoubledEquation
<1>5. Doubled[n - 1] \in 1..MaxSendBackoff
  <2>1. n - 1 \in 1..MaxStreak
    BY <1>3, <1>4
  <2>2. n - 1 \notin T
    <3> HIDE DEF T
    <3>1. QED
      BY <1>2, <1>3
  <2>3. QED
    BY <2>1, <2>2
<1>6. Doubled[n] = Twice(Doubled[n - 1])
  BY <1>3, <1>4, DoubledEquation
<1>7. QED
  BY <1>3, <1>5, <1>6 DEF Twice

\* nextBackoff never shortens a back-off, and doubles whatever lies below it.
LEMMA NextBackoffGrows ==
  ASSUME NEW prev \in 0..MaxSendBackoff
  PROVE  /\ NextBackoff(prev) \in MinSendBackoff..MaxSendBackoff
         /\ NextBackoff(prev) >= prev
         /\ \A d \in 1..prev : NextBackoff(prev) >= Twice(d)
BY DEF NextBackoff, Twice

\* A hint only ever lengthens the wait, up to the cap.
LEMMA RetryAfterBackoffGrows ==
  ASSUME NEW prev \in 0..MaxSendBackoff, NEW delay \in Int
  PROVE  /\ RetryAfterBackoff(prev, delay) \in 0..MaxSendBackoff
         /\ RetryAfterBackoff(prev, delay) >= NextBackoff(prev)
         /\ \/ RetryAfterBackoff(prev, delay) >= delay
            \/ RetryAfterBackoff(prev, delay) = MaxSendBackoff
<1> DEFINE grown == NextBackoff(prev)
<1>1. grown \in 0..MaxSendBackoff
  BY NextBackoffGrows
<1>2. RetryAfterBackoff(prev, delay) =
        IF (IF delay > grown THEN delay ELSE grown) > MaxSendBackoff
        THEN MaxSendBackoff ELSE (IF delay > grown THEN delay ELSE grown)
  BY DEF RetryAfterBackoff
<1> HIDE DEF grown
<1>3. QED
  BY <1>1, <1>2 DEF grown

-----------------------------------------------------------------------------
(* What a reply asks for *)

\* A number that fits a duration is not wrapped around.
LEMMA WrapFits == ASSUME NEW n \in 0..MaxDuration PROVE Wrap(n) = n
BY DEF Wrap

Asked(r) == IF r.hint.form \in {"seconds", "date"} THEN r.hint.value ELSE 0

\* A 429 asks for at least its hint, when the hint fits a duration.
LEMMA SendAsks ==
  ASSUME NEW r \in Replies, Send(r).err = "retryAfter"
  PROVE  /\ Send(r).delay \in Int
         /\ Asked(r) > 0 /\ Asked(r) * Second <= MaxDuration
              => Send(r).delay = Asked(r) * Second
<1>1. Send(r) = RetryAfter(TooManyDelay(r.hint))
  BY DEF Send, Accepted, Plain, Fatal
<1>2. Send(r).delay = TooManyDelay(r.hint)
  BY <1>1 DEF RetryAfter
<1>3. r.hint \in [form : {"none", "bad", "seconds", "date"}, value : Int]
  BY RepliesAssumption
<1> DEFINE d == r.hint.value * Second
<1>4. d \in Int
  BY <1>3
<1>5. ParseRetryAfter(r.hint) \in Int
  <2> HIDE DEF d
  <2>1. Wrap(d) \in Int /\ Saturate(d) \in Int
    BY <1>4 DEF Wrap, Saturate
  <2>2. QED
    BY <1>3, <2>1 DEF ParseRetryAfter, d
<1>6. TooManyDelay(r.hint) \in Int
  <2>1. 5 * Second \in Int
    OBVIOUS
  <2>2. QED
    BY <1>5, <2>1 DEF TooManyDelay
<1>7. ASSUME Asked(r) > 0, Asked(r) * Second <= MaxDuration
      PROVE  TooManyDelay(r.hint) = Asked(r) * Second
  <2>1. r.hint.form \in {"seconds", "date"} /\ Asked(r) = r.hint.value /\ r.hint.value > 0
    BY <1>7 DEF Asked
  <2>2. d > 0 /\ d <= MaxDuration
    BY <1>3, <1>7, <2>1
  <2>3. ParseRetryAfter(r.hint) = d
    <3> HIDE DEF d
    <3>1. Wrap(d) = d /\ Saturate(d) = d
      BY <1>4, <2>2, WrapFits DEF Saturate
    <3>2. QED
      BY <1>3, <2>1, <3>1 DEF ParseRetryAfter, d
  <2>4. QED
    <3> HIDE DEF d
    <3>1. QED
      BY <1>4, <2>1, <2>2, <2>3 DEF TooManyDelay, d
<1>8. QED
  BY <1>2, <1>6, <1>7

-----------------------------------------------------------------------------
(* The inductive invariant *)

\* The back-off is at least what the streak alone would give; a sleep after a
\* 429 is at least half of it, and it is at least what was asked for or the cap.
RetryInv ==
  /\ streak \in 0..MaxStreak /\ backoff \in 0..MaxSendBackoff /\ slept \in Nat
  /\ streak > 0 => backoff >= Doubled[streak]
  /\ outcome.err = "retryAfter" =>
       /\ streak > 0
       /\ slept >= backoff \div 2
       /\ reply \in Replies /\ outcome = Send(reply)
       /\ backoff >= outcome.delay \/ backoff = MaxSendBackoff

LEMMA RetryInvInit == Init => RetryInv
BY DEF Init, RetryInv, Accepted

\* Either way to go to sleep adds a failure to a back-off grown for it.
LEMMA SleepKeeps ==
  ASSUME RetryInv, backoff' \in 0..MaxSendBackoff, backoff' >= NextBackoff(backoff),
         streak' = IF streak < MaxStreak THEN streak + 1 ELSE streak
  PROVE  streak' \in 1..MaxStreak /\ backoff' >= Doubled[streak']
<1>1. backoff \in 0..MaxSendBackoff /\ streak \in 0..MaxStreak
  BY DEF RetryInv
<1>2. NextBackoff(backoff) \in MinSendBackoff..MaxSendBackoff /\ NextBackoff(backoff) >= backoff
  BY <1>1, NextBackoffGrows
<1>3. CASE streak = 0
  BY <1>1, <1>2, <1>3, DoubledEquation
<1>4. CASE streak > 0
  <2>1. Doubled[streak] \in 1..MaxSendBackoff /\ Doubled[streak] <= backoff
    BY <1>1, <1>4, DoubledRange DEF RetryInv
  <2>2. NextBackoff(backoff) >= Twice(Doubled[streak])
    BY <1>1, <2>1, NextBackoffGrows
  <2>3. CASE streak < MaxStreak
    <3>1. streak' \in 2..MaxStreak /\ streak' - 1 = streak
      BY <1>1, <1>4, <2>3
    <3>2. Doubled[streak'] = Twice(Doubled[streak])
      BY <3>1, DoubledEquation
    <3>3. Twice(Doubled[streak]) \in Int
      BY <2>1 DEF Twice
    <3>4. QED
      BY <1>2, <2>2, <3>1, <3>2, <3>3
  <2>4. CASE streak = MaxStreak
    BY <1>1, <1>2, <2>1, <2>4
  <2>5. QED
    BY <1>1, <2>3, <2>4
<1>5. QED
  BY <1>1, <1>3, <1>4

\* A 429 with a hint, or any other failure, is followed by a grown back-off.
LEMMA WaitKeeps ==
  ASSUME RetryInv, NEW r \in Replies, WaitAsTold(r) \/ WaitAndRetry(r)
  PROVE  RetryInv'
<1>1. /\ streak' = IF streak < MaxStreak THEN streak + 1 ELSE streak
      /\ reply' = r /\ outcome' = Send(r)
  BY DEF WaitAsTold, WaitAndRetry, Sleep, Post
<1>2. backoff \in 0..MaxSendBackoff
  BY DEF RetryInv
<1>3. CASE WaitAsTold(r)
  <2>1. Send(r).err = "retryAfter" /\ backoff' = RetryAfterBackoff(backoff, Send(r).delay)
    BY <1>1, <1>3 DEF WaitAsTold
  <2>2. Send(r).delay \in Int
    BY <2>1, SendAsks
  <2>3. /\ backoff' \in 0..MaxSendBackoff /\ backoff' >= NextBackoff(backoff)
        /\ backoff' >= Send(r).delay \/ backoff' = MaxSendBackoff
    BY <1>2, <2>1, <2>2, RetryAfterBackoffGrows
  <2>4. slept' \in Nat /\ slept' >= backoff' \div 2
    <3>1. slept' \in HalfJitter(backoff')
      BY <1>3 DEF WaitAsTold, Sleep
    <3>2. \A b \in 0..MaxSendBackoff : b \div 2 \in Nat
      OBVIOUS
    <3>3. backoff' \div 2 \in Nat
      BY <2>3, <3>2
    <3>4. QED
      BY <3>1, <3>3 DEF HalfJitter
  <2>5. streak' \in 1..MaxStreak /\ backoff' >= Doubled[streak']
    BY <1>1, <2>3, SleepKeeps
  <2>6. reply' \in Replies /\ outcome' = Send(reply')
        /\ (backoff' >= outcome'.delay \/ backoff' = MaxSendBackoff)
    BY <1>1, <2>3
  <2>7. streak' \in 0..MaxStreak /\ streak' > 0
    BY <2>5
  <2>8. QED
    BY <2>3, <2>4, <2>5, <2>6, <2>7 DEF RetryInv
<1>4. CASE WaitAndRetry(r)
  <2>1. outcome'.err = "plain" /\ backoff' = NextBackoff(backoff)
    BY <1>4 DEF WaitAndRetry
  <2>2. backoff' \in 0..MaxSendBackoff /\ backoff' >= NextBackoff(backoff)
    BY <1>2, <2>1, NextBackoffGrows
  <2>3. slept' \in Nat
    <3>1. slept' \in FullJitter(backoff')
      BY <1>4 DEF WaitAndRetry, Sleep
    <3>2. QED
      BY <2>2, <3>1 DEF FullJitter
  <2>4. streak' \in 1..MaxStreak /\ backoff' >= Doubled[streak']
    BY <1>1, <2>2, SleepKeeps
  <2>5. QED
    BY <2>1, <2>2, <2>3, <2>4 DEF RetryInv
<1>5. QED
  BY <1>3, <1>4

LEMMA RetryInvStep == RetryInv /\ [Next]_vars => RetryInv'
<1> SUFFICES ASSUME RetryInv, [Next]_vars PROVE RetryInv'
  OBVIOUS
<1>1. ASSUME NEW r \in Replies, Succeed(r) PROVE RetryInv'
  BY <1>1 DEF RetryInv, Succeed, Post
<1>2. ASSUME NEW r \in Replies, StopAgent(r) PROVE RetryInv'
  BY <1>2 DEF RetryInv, StopAgent, Post
<1>3. CASE WakeUp
  BY <1>3 DEF RetryInv, WakeUp, Accepted
<1>4. CASE Stopped \/ UNCHANGED vars
  BY <1>4 DEF RetryInv, Stopped, vars
<1>5. QED
  BY <1>1, <1>2, <1>3, <1>4, WaitKeeps DEF Next

\* The invariant of the back-off holds after every sequence of replies.
THEOREM RetryInvHolds == Spec => []RetryInv
BY RetryInvInit, RetryInvStep, PTL DEF Spec

-----------------------------------------------------------------------------
(* The properties *)

\* A tiny Retry-After does not shorten the wait of a long streak.
THEOREM StreaksSlowDown == Spec => []StreakSlowsDown
<1>1. RetryInv => StreakSlowsDown
  <2> SUFFICES ASSUME RetryInv, outcome.err = "retryAfter"
               PROVE  slept >= Doubled[streak] \div 2
    BY DEF StreakSlowsDown
  <2>1. streak \in 1..MaxStreak /\ backoff >= Doubled[streak] /\ slept >= backoff \div 2
    BY DEF RetryInv
  <2>2. Doubled[streak] \in Nat
    BY <2>1, DoubledRange
  <2>3. QED
    BY <2>1, <2>2 DEF RetryInv
<1>2. QED
  BY <1>1, RetryInvHolds, PTL

\* At least half of a hint that fits a duration is waited for, up to the cap.
THEOREM HintsAreHalfHonoured == Spec => []HalfTheHintHonoured
<1>1. RetryInv => HalfTheHintHonoured
  <2> SUFFICES ASSUME RetryInv, outcome.err = "retryAfter", HintSeconds > 0,
                      HintSeconds * Second <= MaxDuration
               PROVE  \/ slept >= (HintSeconds * Second) \div 2
                      \/ slept >= MaxSendBackoff \div 2
    BY DEF HalfTheHintHonoured
  <2>1. HintSeconds = Asked(reply)
    BY DEF HintSeconds, Asked
  <2>2. reply \in Replies /\ outcome = Send(reply)
    BY DEF RetryInv
  <2>3. outcome.delay = HintSeconds * Second /\ outcome.delay \in Int
    BY <2>1, <2>2, SendAsks
  <2>4. /\ slept \in Nat /\ backoff \in Nat /\ slept >= backoff \div 2
        /\ backoff >= outcome.delay \/ backoff = MaxSendBackoff
    BY DEF RetryInv
  <2>5. slept >= outcome.delay \div 2 \/ slept >= MaxSendBackoff \div 2
    BY <2>3, <2>4
  <2>6. QED
    BY <2>3, <2>5
<1>2. QED
  BY <1>1, RetryInvHolds, PTL
=============================================================================
