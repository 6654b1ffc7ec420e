---------------------------- MODULE ReplayFilter ----------------------------
(***************************************************************************)
(* The 0-RTT replay filter of pkg/replay/bloom.go: concurrent calls of     *)
(* Filter.Check over a pair of bloom filters that rotate on a cadence.     *)
(*                                                                         *)
(* A bloom filter is the set of bits that are set and a payload is the     *)
(* (timestamp, nonce) pair, of which the model keeps the timestamp and the *)
(* bits its digest hashes to.  One unit of time is any duration; a         *)
(* time.Duration has the 2 * DurLimit values -DurLimit .. DurLimit - 1.    *)
(***************************************************************************)
EXTENDS Integers, FiniteSets

CONSTANTS
  Threads,     \* goroutines that call Check
  Payloads,    \* (timestamp, nonce) pairs that are presented, and replayed
  Bits,        \* positions of a bloom filter
  Ts,          \* the client timestamp of a payload
  Idx,         \* the bits bloomIdx derives from the digest of a payload
  Skew,        \* Options.ClockSkew
  RotateRate,  \* Options.RotateRate
  MaxDelay,    \* time a call of Check may take from reading the clock on
  DurLimit,    \* 2^63 in the code
  MaxClock     \* bound of the model: the last instant

ASSUME ReplayAssumption ==
  /\ Ts \in [Payloads -> Int]
  /\ Idx \in [Payloads -> (SUBSET Bits) \ {{}}]
  /\ Skew \in Nat /\ RotateRate \in Nat /\ MaxDelay \in Nat /\ MaxClock \in Nat
  /\ DurLimit \in Nat \ {0} /\ Skew < DurLimit - 1

VARIABLES
  clock,     \* the server's clock
  pc,        \* the next step of each call of Check
  now,       \* the instant a call has read, kept in its variable now
  arg,       \* the payload of the latest call of a goroutine
  curr,      \* the filter inserts go to
  prev,      \* the filter that was curr before the latest rotation
  rotateAt,  \* the instant from which the next rotation is due
  accepted,  \* how often Check returned nil for a payload (history)
  verdict    \* the result of the latest call of a goroutine (history)

vars == <<clock, pc, now, arg, curr, prev, rotateAt, accepted, verdict>>

-----------------------------------------------------------------------------
\* time.Time.Sub saturates instead of overflowing.
Sub(a, b) == IF a - b < -DurLimit THEN -DurLimit
             ELSE IF a - b > DurLimit - 1 THEN DurLimit - 1 ELSE a - b

\* The negation of the least Duration wraps to itself.
Abs(d) == IF d < 0 /\ d /= -DurLimit THEN -d ELSE d

\* Variant: a timestamp in the future is never rejected.
WithinSkewUnsigned(n, p) == Sub(n, Ts[p]) <= Skew

WithinSkew(n, p) == Abs(Sub(n, Ts[p])) <= Skew

Contains(filter, p) == Idx[p] \subseteq filter
Hit(p) == Contains(curr, p) \/ Contains(prev, p)

Active(t) == pc[t] /= "idle"

Return(t, v) == /\ pc' = [pc EXCEPT ![t] = "idle"]
                /\ verdict' = [verdict EXCEPT ![t] = v]

-----------------------------------------------------------------------------
Init ==
  /\ clock = 0
  /\ pc = [t \in Threads |-> "idle"]
  /\ now = [t \in Threads |-> 0]
  /\ arg \in [Threads -> Payloads]
  /\ curr = {} /\ prev = {}
  /\ rotateAt = RotateRate
  /\ accepted = [p \in Payloads |-> 0]
  /\ verdict = [t \in Threads |-> "none"]

\* Time passes, and no call of Check lasts longer than MaxDelay.
Tick ==
  /\ clock < MaxClock
  /\ \A t \in Threads : Active(t) => clock < now[t] + MaxDelay
  /\ clock' = clock + 1
  /\ UNCHANGED <<pc, now, arg, curr, prev, rotateAt, accepted, verdict>>

Check(t, p) ==
  /\ ~Active(t)
  /\ now' = [now EXCEPT ![t] = clock]
  /\ arg' = [arg EXCEPT ![t] = p]
  /\ IF WithinSkew(clock, p)
       THEN /\ pc' = [pc EXCEPT ![t] = "rotate"]
            /\ verdict' = [verdict EXCEPT ![t] = "none"]
       ELSE Return(t, "skew")
  /\ UNCHANGED <<clock, curr, prev, rotateAt, accepted>>

\* Variant: the next rotation is counted from the client's timestamp.
MaybeRotateByClient(t) ==
  /\ pc[t] = "rotate"
  /\ pc' = [pc EXCEPT ![t] = "probe"]
  /\ IF now[t] >= rotateAt
       THEN prev' = curr /\ curr' = {} /\ rotateAt' = Ts[arg[t]] + RotateRate
       ELSE UNCHANGED <<prev, curr, rotateAt>>
  /\ UNCHANGED <<clock, now, arg, accepted, verdict>>

\* Variant: the old filter is discarded at once.
MaybeRotateForgets(t) ==
  /\ pc[t] = "rotate"
  /\ pc' = [pc EXCEPT ![t] = "probe"]
  /\ IF now[t] >= rotateAt
       THEN prev' = {} /\ curr' = {} /\ rotateAt' = now[t] + RotateRate
       ELSE UNCHANGED <<prev, curr, rotateAt>>
  /\ UNCHANGED <<clock, now, arg, accepted, verdict>>

MaybeRotate(t) ==
  /\ pc[t] = "rotate"
  /\ pc' = [pc EXCEPT ![t] = "probe"]
  /\ IF now[t] >= rotateAt
       THEN prev' = curr /\ curr' = {} /\ rotateAt' = now[t] + RotateRate
       ELSE UNCHANGED <<prev, curr, rotateAt>>
  /\ UNCHANGED <<clock, now, arg, accepted, verdict>>

\* The lookup under the read lock.
Probe(t) ==
  /\ pc[t] = "probe"
  /\ IF Hit(arg[t])
       THEN Return(t, "replay")
       ELSE pc' = [pc EXCEPT ![t] = "record"] /\ UNCHANGED verdict
  /\ UNCHANGED <<clock, now, arg, curr, prev, rotateAt, accepted>>

\* Variant: no second lookup under the write lock.
RecordUnchecked(t) ==
  /\ pc[t] = "record"
  /\ Return(t, "fresh")
  /\ curr' = curr \cup Idx[arg[t]]
  /\ accepted' = [accepted EXCEPT ![arg[t]] = @ + 1]
  /\ UNCHANGED <<clock, now, arg, prev, rotateAt>>

\* Variant: the insert comes before the second lookup.
RecordThenCheck(t) ==
  /\ pc[t] = "record"
  /\ Return(t, "replay")
  /\ curr' = curr \cup Idx[arg[t]]
  /\ UNCHANGED <<clock, now, arg, prev, rotateAt, accepted>>

\* The lookup and the insert under the write lock.
Record(t) ==
  /\ pc[t] = "record"
  /\ IF Hit(arg[t])
       THEN Return(t, "replay") /\ UNCHANGED <<curr, accepted>>
       ELSE /\ Return(t, "fresh")
            /\ curr' = curr \cup Idx[arg[t]]
            /\ accepted' = [accepted EXCEPT ![arg[t]] = @ + 1]
  /\ UNCHANGED <<clock, now, arg, prev, rotateAt>>

Next ==
  \/ Tick
  \/ \E t \in Threads :
       \/ \E p \in Payloads : Check(t, p)
       \/ MaybeRotate(t) \/ Probe(t) \/ Record(t)

Spec == Init /\ [][Next]_vars

-----------------------------------------------------------------------------
(* Properties.                                                             *)

\* A rotation is never due later than RotateRate from now, so that a filter
\* that is asked does not fill up forever (bloom.go:136).
TypeOK ==
  /\ clock \in 0 .. MaxClock
  /\ pc \in [Threads -> {"idle", "rotate", "probe", "record"}]
  /\ now \in [Threads -> 0 .. clock]
  /\ arg \in [Threads -> Payloads]
  /\ curr \subseteq Bits /\ prev \subseteq Bits
  /\ rotateAt \in 0 .. clock + RotateRate
  /\ accepted \in [Payloads -> Nat]
  /\ verdict \in [Threads -> {"none", "fresh", "skew", "replay"}]

\* What makes replays impossible: a client timestamp is within the skew
\* window or its call is rejected, and what a rotation forgets has expired
\* for every call that is still running.
RatesFit == RotateRate > 2 * (Skew + MaxDelay)
NoOverflow == \A p \in Payloads : Ts[p] < DurLimit

\* Whatever the interleaving of concurrent calls, of rotations and of time,
\* a payload is accepted once at most (bloom.go:7, ErrReplay).
AtMostOnce == \A p \in Payloads : accepted[p] <= 1

\* A call that goes past the skew check (bloom.go:105) has a timestamp within
\* Skew of the instant it read.
SkewEnforced ==
  \A t \in Threads : Active(t) \/ verdict[t] = "fresh" =>
    /\ now[t] - Ts[arg[t]] <= Skew
    /\ Ts[arg[t]] - now[t] <= Skew

\* Only a payload whose bits were all set by accepted payloads is called a
\* replay, however a call is interleaved with others: a first presentation is
\* refused for a hash collision and for nothing else (bloom.go:122).
Covered(p) ==
  \A b \in Idx[p] : \E q \in Payloads : b \in Idx[q] /\ accepted[q] >= 1

NoFalseReject ==
  \A t \in Threads : verdict[t] = "replay" => Covered(arg[t])

\* The inductive invariant behind AtMostOnce.  A running call is at most
\* MaxDelay old and inside the skew window; an accepted payload is still in
\* curr, or in prev with a rotation due no earlier than one RotateRate after
\* the earliest instant that accepted it, or no running call can accept it.
Fresh(t) ==
  Active(t) => /\ clock <= now[t] + MaxDelay
               /\ now[t] - Ts[arg[t]] <= Skew
               /\ Ts[arg[t]] - now[t] <= Skew

Remembered(p) ==
  accepted[p] >= 1 =>
    /\ clock >= Ts[p] - Skew
    /\ \/ Contains(curr, p)
       \/ /\ Contains(prev, p)
          /\ rotateAt >= Ts[p] - Skew - MaxDelay + RotateRate
       \/ clock > Ts[p] + Skew + MaxDelay

Memory ==
  /\ \A t \in Threads : Fresh(t)
  /\ \A p \in Payloads : Remembered(p)
=============================================================================
