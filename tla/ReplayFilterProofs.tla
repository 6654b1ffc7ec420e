------------------------- MODULE ReplayFilterProofs -------------------------
(***************************************************************************)
(* The replay filter never accepts a payload twice: proofs for every       *)
(* number of goroutines, every set of payloads, every hash and every       *)
(* choice of the durations that satisfies the named assumptions.           *)
(***************************************************************************)
EXTENDS ReplayFilter, TLAPS

\* Every variable keeps its type, and a rotation is never due later than
\* RotateRate from now (maybeRotate, bloom.go:136).
THEOREM TypeCorrect == Spec => []TypeOK
<1> USE ReplayAssumption DEF TypeOK, Active
<1>1. Init => TypeOK
  BY DEF Init
<1>2. TypeOK /\ [Next]_vars => TypeOK'
  <2> SUFFICES ASSUME TypeOK, [Next]_vars PROVE TypeOK'
    OBVIOUS
  <2>1. CASE Tick
    BY <2>1 DEF Tick
  <2>2. ASSUME NEW t \in Threads, NEW p \in Payloads, Check(t, p)
        PROVE  TypeOK'
    BY <2>2 DEF Check, Return
  <2>3. ASSUME NEW t \in Threads, MaybeRotate(t)
        PROVE  TypeOK'
    BY <2>3 DEF MaybeRotate
  <2>4. ASSUME NEW t \in Threads, Probe(t)
        PROVE  TypeOK'
    BY <2>4 DEF Probe, Return
  <2>5. ASSUME NEW t \in Threads, Record(t)
        PROVE  TypeOK'
    BY <2>5 DEF Record, Return
  <2>6. CASE UNCHANGED vars
    BY <2>6 DEF vars
  <2>7. QED
    BY <2>1, <2>2, <2>3, <2>4, <2>5, <2>6 DEF Next
<1>3. QED
  BY <1>1, <1>2, PTL DEF Spec

\* As long as the distance of the timestamp to now does not saturate, the
\* skew check of Check (bloom.go:105) is the comparison it looks like.
LEMMA SkewBounds ==
  ASSUME NEW n \in Nat, NEW p \in Payloads, NoOverflow, WithinSkew(n, p)
  PROVE  n - Ts[p] <= Skew /\ Ts[p] - n <= Skew
BY ReplayAssumption DEF NoOverflow, WithinSkew, Abs, Sub

\* The skew window holds for every call of Check that got past line 105.
THEOREM SkewIsEnforced ==
  ASSUME NoOverflow
  PROVE  Spec => []SkewEnforced
<1> USE ReplayAssumption DEF SkewEnforced, Active
<1>1. Init => SkewEnforced
  BY DEF Init
<1>2. TypeOK /\ SkewEnforced /\ [Next]_vars => SkewEnforced'
  <2> SUFFICES ASSUME TypeOK, SkewEnforced, [Next]_vars
               PROVE  SkewEnforced'
    OBVIOUS
  <2>1. CASE Tick
    BY <2>1 DEF Tick
  <2>2. ASSUME NEW t \in Threads, NEW p \in Payloads, Check(t, p)
        PROVE  SkewEnforced'
    <3>1. clock \in Nat
      BY DEF TypeOK
    <3>2. CASE WithinSkew(clock, p)
      BY <2>2, <3>1, <3>2, SkewBounds DEF Check, TypeOK
    <3>3. CASE ~WithinSkew(clock, p)
      BY <2>2, <3>3 DEF Check, Return, TypeOK
    <3>4. QED
      BY <3>2, <3>3
  <2>3. ASSUME NEW t \in Threads, MaybeRotate(t) \/ Probe(t) \/ Record(t)
        PROVE  SkewEnforced'
    BY <2>3 DEF MaybeRotate, Probe, Record, Return, TypeOK
  <2>4. CASE UNCHANGED vars
    BY <2>4 DEF vars
  <2>5. QED
    BY <2>1, <2>2, <2>3, <2>4 DEF Next
<1>3. QED
  BY <1>1, <1>2, TypeCorrect, PTL DEF Spec

-----------------------------------------------------------------------------
(* AtMostOnce, from the inductive invariant Memory.                        *)

LEMMA MemoryStart ==
  Init => Memory /\ AtMostOnce
BY ReplayAssumption DEF Init, Memory, Fresh, Remembered, AtMostOnce, Active

\* A call still running cannot accept a payload whose memory has expired, so
\* a payload that was accepted before is hit when the call looks it up.
LEMMA AcceptedIsHit ==
  ASSUME TypeOK, Memory, RatesFit, NEW t \in Threads, pc[t] = "record",
         accepted[arg[t]] >= 1
  PROVE  Hit(arg[t])
<1>1. arg[t] \in Payloads /\ Remembered(arg[t]) /\ Fresh(t)
  BY DEF TypeOK, Memory
<1>2. clock \in Int /\ now[t] \in Int /\ Ts[arg[t]] \in Int
  BY <1>1, ReplayAssumption DEF TypeOK
<1>3. ~(clock > Ts[arg[t]] + Skew + MaxDelay)
  BY <1>1, <1>2, ReplayAssumption DEF Fresh, Active
<1>4. QED
  BY <1>1, <1>3 DEF Remembered, Hit

\* What a rotation forgets has expired: the rotation that throws a payload
\* away comes a RotateRate after the one that moved it to prev.
LEMMA RotationKeepsMemory ==
  ASSUME TypeOK, Memory, RatesFit, NEW t \in Threads, MaybeRotate(t)
  PROVE  Memory'
<1> USE ReplayAssumption DEF Memory, Active
<1>1. ASSUME NEW u \in Threads
      PROVE  Fresh(u)'
  BY DEF MaybeRotate, Fresh, TypeOK
<1>2. ASSUME NEW p \in Payloads
      PROVE  Remembered(p)'
  <2>1. CASE ~(now[t] >= rotateAt)
    BY <2>1 DEF MaybeRotate, Remembered, Contains
  <2>2. CASE now[t] >= rotateAt
    <3> SUFFICES ASSUME accepted[p] >= 1 PROVE Remembered(p)'
      BY DEF MaybeRotate, Remembered
    <3>1. /\ prev' = curr /\ rotateAt' = now[t] + RotateRate
          /\ clock' = clock /\ accepted' = accepted
      BY <2>2 DEF MaybeRotate
    <3>2. /\ clock \in Int /\ now[t] \in Int /\ rotateAt \in Int /\ Ts[p] \in Int
          /\ clock <= now[t] + MaxDelay /\ now[t] <= clock
      BY DEF TypeOK, Fresh, MaybeRotate
    <3>3. clock >= Ts[p] - Skew
      BY DEF Remembered
    <3>4. CASE Contains(curr, p)
      BY <3>1, <3>2, <3>3, <3>4 DEF Remembered, Contains
    <3>5. CASE rotateAt >= Ts[p] - Skew - MaxDelay + RotateRate
      <4>1. clock > Ts[p] + Skew + MaxDelay
        BY <3>2, <3>5, <2>2 DEF RatesFit
      <4>2. QED
        BY <4>1, <3>1, <3>3 DEF Remembered
    <3>6. CASE clock > Ts[p] + Skew + MaxDelay
      BY <3>1, <3>3, <3>6 DEF Remembered
    <3>7. QED
      BY <3>4, <3>5, <3>6 DEF Remembered
  <2>3. QED
    BY <2>1, <2>2
<1>3. QED
  BY <1>1, <1>2

\* An insert keeps what was remembered and adds the accepted payload.
LEMMA RecordKeepsMemory ==
  ASSUME TypeOK, Memory, AtMostOnce, RatesFit, NEW t \in Threads, Record(t)
  PROVE  Memory' /\ AtMostOnce'
<1> USE ReplayAssumption DEF Memory, AtMostOnce, Active
<1>1. ASSUME NEW u \in Threads
      PROVE  Fresh(u)'
  BY DEF Record, Return, Fresh, TypeOK
<1>2. CASE Hit(arg[t])
  <2>1. UNCHANGED <<clock, curr, prev, rotateAt, accepted>>
    BY <1>2 DEF Record
  <2>2. QED
    BY <1>1, <2>1 DEF Remembered, Contains
<1>3. CASE ~Hit(arg[t])
  <2>1. accepted[arg[t]] = 0
    BY <1>3, AcceptedIsHit DEF Record, TypeOK
  <2>2. /\ arg[t] \in Payloads
        /\ curr' = curr \cup Idx[arg[t]]
        /\ accepted' = [accepted EXCEPT ![arg[t]] = @ + 1]
        /\ UNCHANGED <<clock, prev, rotateAt>>
    BY <1>3 DEF Record, TypeOK
  <2>3. AtMostOnce'
    BY <2>1, <2>2 DEF TypeOK
  <2>4. ASSUME NEW p \in Payloads, p = arg[t]
        PROVE  Remembered(p)'
    <3>1. clock >= Ts[p] - Skew
      BY <2>4 DEF Fresh, TypeOK, Record
    <3>2. Contains(curr, p)'
      BY <2>2, <2>4 DEF Contains
    <3>3. QED
      BY <2>2, <3>1, <3>2 DEF Remembered
  <2>5. ASSUME NEW p \in Payloads, p /= arg[t]
        PROVE  Remembered(p)'
    BY <2>2, <2>5 DEF Remembered, Contains, TypeOK
  <2>6. QED
    BY <1>1, <2>3, <2>4, <2>5
<1>4. QED
  BY <1>2, <1>3

LEMMA MemoryStep ==
  ASSUME NoOverflow, RatesFit
  PROVE  TypeOK /\ Memory /\ AtMostOnce /\ [Next]_vars => Memory' /\ AtMostOnce'
<1> USE ReplayAssumption DEF Memory, AtMostOnce, Active
<1> SUFFICES ASSUME TypeOK, Memory, AtMostOnce, [Next]_vars
             PROVE  Memory' /\ AtMostOnce'
  OBVIOUS
<1>1. CASE Tick
  <2>1. ASSUME NEW t \in Threads
        PROVE  Fresh(t)'
    BY <1>1 DEF Tick, Fresh, TypeOK
  <2>2. ASSUME NEW p \in Payloads
        PROVE  Remembered(p)'
    BY <1>1 DEF Tick, Remembered, Contains, TypeOK
  <2>3. QED
    BY <1>1, <2>1, <2>2 DEF Tick
<1>2. ASSUME NEW t \in Threads, NEW p \in Payloads, Check(t, p)
      PROVE  Memory' /\ AtMostOnce'
  <2>1. ASSUME NEW u \in Threads
        PROVE  Fresh(u)'
    <3>1. CASE u = t /\ WithinSkew(clock, p)
      BY <1>2, <3>1, SkewBounds DEF Check, Fresh, TypeOK
    <3>2. CASE u = t /\ ~WithinSkew(clock, p)
      BY <1>2, <3>2 DEF Check, Return, Fresh, TypeOK
    <3>3. CASE u /= t
      BY <1>2, <3>3 DEF Check, Return, Fresh, TypeOK
    <3>4. QED
      BY <3>1, <3>2, <3>3
  <2>2. UNCHANGED <<clock, curr, prev, rotateAt, accepted>>
    BY <1>2 DEF Check
  <2>3. QED
    BY <2>1, <2>2 DEF Remembered, Contains
<1>3. ASSUME NEW t \in Threads, MaybeRotate(t)
      PROVE  Memory' /\ AtMostOnce'
  BY <1>3, RotationKeepsMemory DEF MaybeRotate
<1>4. ASSUME NEW t \in Threads, Probe(t)
      PROVE  Memory' /\ AtMostOnce'
  <2>1. ASSUME NEW u \in Threads
        PROVE  Fresh(u)'
    BY <1>4 DEF Probe, Return, Fresh, TypeOK
  <2>2. UNCHANGED <<clock, curr, prev, rotateAt, accepted>>
    BY <1>4 DEF Probe
  <2>3. QED
    BY <2>1, <2>2 DEF Remembered, Contains
<1>5. ASSUME NEW t \in Threads, Record(t)
      PROVE  Memory' /\ AtMostOnce'
  BY <1>5, RecordKeepsMemory
<1>6. CASE UNCHANGED vars
  BY <1>6 DEF vars, Fresh, Remembered, Contains
<1>7. QED
  BY <1>1, <1>2, <1>3, <1>4, <1>5, <1>6 DEF Next

\* The filter remembers an accepted payload for as long as a call of Check
\* could still accept it (Filter.Check and maybeRotate).
THEOREM MemoryHolds ==
  ASSUME NoOverflow, RatesFit
  PROVE  Spec => []Memory
<1>1. Init => Memory /\ AtMostOnce
  BY MemoryStart
<1>2. TypeOK /\ Memory /\ AtMostOnce /\ [Next]_vars => (Memory /\ AtMostOnce)'
  BY MemoryStep
<1>3. QED
  BY <1>1, <1>2, TypeCorrect, PTL DEF Spec

\* No payload is accepted twice, however calls, rotations and time interleave,
\* if a rotation interval is longer than twice the skew plus the time a call
\* may take (bloom.go:7; the defaults are 60 s and 5 s).
THEOREM NoReplayAccepted ==
  ASSUME NoOverflow, RatesFit
  PROVE  Spec => []AtMostOnce
<1>1. Init => Memory /\ AtMostOnce
  BY MemoryStart
<1>2. TypeOK /\ Memory /\ AtMostOnce /\ [Next]_vars => (Memory /\ AtMostOnce)'
  BY MemoryStep
<1>3. QED
  BY <1>1, <1>2, TypeCorrect, PTL DEF Spec

-----------------------------------------------------------------------------
(* NoFalseReject.                                                          *)

\* Every bit that is set was set by an accepted payload.
BitsAccounted ==
  \A b \in curr \cup prev : \E q \in Payloads : b \in Idx[q] /\ accepted[q] >= 1

\* A lookup hits only bits that accepted payloads have set.
LEMMA HitIsCovered ==
  ASSUME BitsAccounted, NEW p \in Payloads, Hit(p)
  PROVE  Covered(p)
BY DEF BitsAccounted, Covered, Hit, Contains

\* Coverage is never lost: the history only grows.
LEMMA CoverageStays ==
  ASSUME TypeOK, [Next]_vars, NEW p \in Payloads, Covered(p)
  PROVE  Covered(p)'
<1>1. \A q \in Payloads : accepted'[q] >= accepted[q]
  <2>1. ASSUME NEW t \in Threads, Record(t)
        PROVE  \A q \in Payloads : accepted'[q] >= accepted[q]
    BY <2>1 DEF Record, TypeOK
  <2>2. CASE UNCHANGED accepted
    BY <2>2 DEF TypeOK
  <2>3. QED
    BY <2>1, <2>2 DEF Next, vars, Tick, Check, MaybeRotate, Probe
<1>2. \A q \in Payloads : accepted[q] \in Int /\ accepted'[q] \in Int
  <2>1. ASSUME NEW t \in Threads, Record(t)
        PROVE  \A q \in Payloads : accepted[q] \in Int /\ accepted'[q] \in Int
    BY <2>1 DEF Record, TypeOK
  <2>2. CASE UNCHANGED accepted
    BY <2>2 DEF TypeOK
  <2>3. QED
    BY <2>1, <2>2 DEF Next, vars, Tick, Check, MaybeRotate, Probe
<1>3. ASSUME NEW b \in Idx[p]
      PROVE  \E q \in Payloads : b \in Idx[q] /\ accepted'[q] >= 1
  <2>1. PICK q \in Payloads : b \in Idx[q] /\ accepted[q] >= 1
    BY DEF Covered
  <2>2. accepted'[q] >= 1
    BY <1>1, <1>2, <2>1
  <2>3. QED
    BY <2>1, <2>2
<1>4. QED
  BY <1>3 DEF Covered

\* A replay verdict is right, up to the collisions of the hash (Filter.Check,
\* bloom.go:113 and bloom.go:122).
THEOREM ReplayVerdictIsRight ==
  Spec => []NoFalseReject
<1> DEFINE Inv == BitsAccounted /\ NoFalseReject
<1> USE ReplayAssumption DEF NoFalseReject, Active
<1>1. Init => Inv
  BY DEF Init, BitsAccounted
<1>2. TypeOK /\ Inv /\ [Next]_vars => Inv'
  <2> SUFFICES ASSUME TypeOK, Inv, [Next]_vars PROVE Inv'
    OBVIOUS
  <2>1. \A p \in Payloads : Covered(p) => Covered(p)'
    BY CoverageStays
  <2>2. CASE Tick
    BY <2>1, <2>2 DEF Tick, BitsAccounted, TypeOK
  <2>3. ASSUME NEW t \in Threads, NEW p \in Payloads, Check(t, p)
        PROVE  Inv'
    <3>1. BitsAccounted'
      BY <2>3 DEF Check, BitsAccounted
    <3>2. NoFalseReject'
      BY <2>1, <2>3 DEF Check, Return, TypeOK
    <3>3. QED
      BY <3>1, <3>2
  <2>4. ASSUME NEW t \in Threads, MaybeRotate(t)
        PROVE  Inv'
    BY <2>1, <2>4 DEF MaybeRotate, BitsAccounted, TypeOK
  <2>5. ASSUME NEW t \in Threads, Probe(t)
        PROVE  Inv'
    <3>1. BitsAccounted'
      BY <2>5 DEF Probe, BitsAccounted
    <3>2. Hit(arg[t]) => Covered(arg[t])
      BY HitIsCovered DEF TypeOK
    <3>3. NoFalseReject'
      BY <2>1, <2>5, <3>2 DEF Probe, Return, TypeOK
    <3>4. QED
      BY <3>1, <3>3
  <2>6. ASSUME NEW t \in Threads, Record(t)
        PROVE  Inv'
    <3>1. BitsAccounted'
      BY <2>6 DEF Record, BitsAccounted, TypeOK
    <3>2. Hit(arg[t]) => Covered(arg[t])
      BY HitIsCovered DEF TypeOK
    <3>3. NoFalseReject'
      BY <2>1, <2>6, <3>2 DEF Record, Return, TypeOK
    <3>4. QED
      BY <3>1, <3>3
  <2>7. CASE UNCHANGED vars
    BY <2>1, <2>7 DEF vars, BitsAccounted, TypeOK
  <2>8. QED
    BY <2>2, <2>3, <2>4, <2>5, <2>6, <2>7 DEF Next
<1>3. QED
  BY <1>1, <1>2, TypeCorrect, PTL DEF Spec
=============================================================================
