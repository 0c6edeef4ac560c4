------------------------- MODULE VideoInterfaceProofs -------------------------
(***************************************************************************)
(* What holds of the halflines for every length of them, every lateness of *)
(* their events, any number of resets and whatever is written when.        *)
(***************************************************************************)
EXTENDS VideoInterface, SequenceTheorems, TLAPS

\* The types that the arguments below need.
Typed ==
  /\ queued \in Seq(Int)
  /\ elapsed \in Int
  /\ halfline \in Nat /\ field \in 0..3
  /\ num_halflines \in 0..511 /\ num_fields \in 1..2
  /\ cycles_per_halfline \in Nat /\ cycles_per_halfline >= ResetCycles
  /\ v_intr \in 0..1023
  /\ taken \in Int /\ overshot \in Int
  /\ resets \in Nat
  /\ raised \in Nat /\ steady \in BOOLEAN
  /\ pc \in {"run", "begin", "screen", "end", "trapped"}

\* The third field is left at the end of the halfline that began it.
FieldInRange == pc \in {"run", "begin"} => field \in 0..2

\* overshot was computed from a halfline that is not shorter than this one.
OvershotIsSmall ==
  pc \in {"screen", "end"} => overshot <= taken - cycles_per_halfline

\* The halflines compared so far are those to this one, or before it.
Compared == IF pc \in {"run", "begin"} THEN halfline ELSE halfline - 1

\* In the third field V_CURRENT is a halfline ahead.
Ahead == NextField \div 2

\* The interrupt was raised if the comparison has come to V_INTR.
RaisedOnce ==
  steady /\ pc # "trapped" =>
    /\ halfline <= num_halflines
    /\ pc = "screen" => halfline = 0
    /\ v_intr % 2 = 0 /\ v_intr \in 2 * (num_fields - 1)..2 * num_halflines
         => raised = IF v_intr <= 2 * (Compared + Ahead) THEN 1 ELSE 0

Inv == Typed /\ FieldInRange /\ OvershotIsSmall /\ RaisedOnce /\ OneHalflineQueued

-----------------------------------------------------------------------------
\* What queueing an event does to the queue.
LEMMA EnqueueAdds ==
  ASSUME NEW q \in Seq(Int), NEW t \in Int, Enqueue(q, t)
  PROVE  queued' \in Seq(Int) /\ Len(queued') = Len(q) + 1
<1>1. PICK p \in 1..Len(q) + 1 : queued' = InsertAt(q, p, t)
  BY DEF Enqueue
<1> DEFINE a == SubSeq(q, 1, p - 1)
           b == SubSeq(q, p, Len(q))
<1>2. Len(q) \in Nat
  BY LenProperties
<1>3. a \in Seq(Int) /\ Len(a) = p - 1
  BY <1>2, SubSeqProperties
<1>4. b \in Seq(Int) /\ Len(b) = Len(q) - p + 1
  BY <1>2, SubSeqProperties
<1>5. queued' = (a \o <<t>>) \o b
  BY <1>1 DEF InsertAt
<1> HIDE DEF a, b
<1>6. <<t>> \in Seq(Int) /\ Len(<<t>>) = 1
  OBVIOUS
<1>7. a \o <<t>> \in Seq(Int) /\ Len(a \o <<t>>) = p
  BY <1>3, <1>6, ConcatProperties
<1> DEFINE c == a \o <<t>>
<1>8. c \in Seq(Int) /\ Len(c) = p /\ queued' = c \o b
  BY <1>5, <1>7
<1> HIDE DEF c
<1>9. queued' \in Seq(Int) /\ Len(queued') = Len(c) + Len(b)
  BY <1>4, <1>8, ConcatProperties
<1>10. p \in Int
  BY <1>2
<1> QED
  BY <1>2, <1>4, <1>8, <1>9, <1>10

LEMMA WithoutFirstTyped ==
  ASSUME queued \in Seq(Int)
  PROVE  /\ WithoutFirst(queued) \in Seq(Int)
         /\ Len(WithoutFirst(queued)) = IF queued = <<>> THEN 0 ELSE Len(queued) - 1
  BY HeadTailProperties, EmptySeq DEF WithoutFirst

LEMMA SyncConstants ==
  ASSUME NEW vsync \in Syncs, Halflines(vsync) > 0
  PROVE  /\ Halflines(vsync) \in 0..511
         /\ CyclesPerHalfline(vsync) \in Nat
         /\ CyclesPerHalfline(vsync) >= ResetCycles
<1>1. vsync \in 0..1023
  BY VideoConstants
<1>2. vsync > 1 /\ Halflines(vsync) \in 0..511
  BY <1>1 DEF Halflines
<1> QED
  BY <1>2, VideoConstants

\* The halfline by which a field is ahead.
LEMMA HalfOfField ==
  ASSUME NEW f \in 0..2, NEW n \in 1..2, f <= n
  PROVE  f \div 2 \in 0..1 /\ f \div 2 <= n - 1
<1>1. f \in Int /\ n \in Int /\ f \div 2 \in Int /\ 2 * (f \div 2) <= f
      /\ f < 2 * (f \div 2) + 2
  OBVIOUS
<1> QED
  BY <1>1

\* Before the first halfline of a field the comparison has not come to V_INTR.
LEMMA NotYetReached ==
  ASSUME NEW v \in Int, NEW m \in Int, NEW n \in Int, v >= 2 * (m - 1), n <= m - 1
  PROVE  ~(v <= 2 * ((0 - 1) + n))
  OBVIOUS

\* The comparison, for what V_CURRENT is set to.
LEMMA MatchesAt ==
  ASSUME NEW h \in 0..511, NEW f \in 0..2, v_intr \in 0..1023
  PROVE  Matches(2 * h + f) <=> v_intr = 2 * ((h + (f \div 2)) % 512)
<1>1. (2 * h + f) \div 2 = h + (f \div 2)
  OBVIOUS
<1> QED
  BY <1>1 DEF Matches

-----------------------------------------------------------------------------
LEMMA InitInv == Init => Inv
<1> SUFFICES ASSUME Init PROVE Inv
  OBVIOUS
<1>1. queued \in Seq(Int) /\ Len(queued) = 1
  BY VideoConstants DEF Init
<1>2. Typed
  <2>1. /\ ResetCycles \in Nat /\ ResetCycles >= ResetCycles
        /\ ResetHalflines \in 0..511 /\ ResetInterrupt \in 0..1023
    BY VideoConstants
  <2>2. 0 \in Nat /\ 0 \in Int /\ 0 \in 0..3 /\ 1 \in 1..2
    OBVIOUS
  <2> QED
    BY <1>1, <2>1, <2>2 DEF Init, Typed
<1>3. OneHalflineQueued
  BY <1>1 DEF Init, OneHalflineQueued
<1> QED
  BY <1>2, <1>3 DEF Init, Inv, FieldInRange, OvershotIsSmall, RaisedOnce

LEMMA RunKeepsInv == ASSUME Inv, NEW t \in Ticks, Run(t) PROVE Inv'
<1>1. /\ pc = "run" /\ elapsed' = elapsed + t
      /\ queued' = [i \in 1..Len(queued) |-> queued[i] - t]
      /\ UNCHANGED <<counters, registers, v_current, intr, pc, handler, resets, history>>
  BY DEF Run
<1>2. t \in Int
  BY VideoConstants
<1>3. queued' \in Seq(Int) /\ Len(queued') = Len(queued)
  BY <1>1, <1>2 DEF Inv, Typed
<1> QED
  BY <1>1, <1>2, <1>3 DEF Inv, Typed, FieldInRange, OvershotIsSmall, RaisedOnce, Compared,
     Ahead, NextField, OneHalflineQueued, counters, registers, handler, history

LEMMA WriteVSyncKeepsInv == ASSUME Inv, NEW vsync \in Syncs, WriteVSync(vsync) PROVE Inv'
<1>1. /\ pc = "run" /\ Halflines(vsync) > 0 /\ ~steady'
      /\ num_halflines' = Halflines(vsync)
      /\ cycles_per_halfline' = CyclesPerHalfline(vsync)
      /\ Enqueue(WithoutFirst(queued), cycles_per_halfline')
      /\ steady' = FALSE
      /\ UNCHANGED <<elapsed, counters, num_fields, v_intr, pc, handler, resets, raised>>
  BY DEF WriteVSync
<1>2. /\ num_halflines' \in 0..511
      /\ cycles_per_halfline' \in Nat /\ cycles_per_halfline' >= ResetCycles
  BY <1>1, SyncConstants
<1>3. /\ queued' \in Seq(Int)
      /\ Len(queued') = IF queued = <<>> THEN 1 ELSE Len(queued)
  <2>1. queued \in Seq(Int) /\ Len(queued) \in Nat /\ cycles_per_halfline' \in Int
    BY <1>2, LenProperties DEF Inv, Typed
  <2>2. /\ WithoutFirst(queued) \in Seq(Int)
        /\ Len(WithoutFirst(queued)) = IF queued = <<>> THEN 0 ELSE Len(queued) - 1
    BY <2>1, WithoutFirstTyped
  <2>3. queued' \in Seq(Int) /\ Len(queued') = Len(WithoutFirst(queued)) + 1
    BY <1>1, <2>1, <2>2, EnqueueAdds
  <2> QED
    BY <2>1, <2>2, <2>3
<1>4. Typed'
  BY <1>1, <1>2, <1>3 DEF Inv, Typed, counters, handler
<1>5. OneHalflineQueued'
  BY <1>1, <1>3, EmptySeq DEF Inv, Typed, OneHalflineQueued
<1>6. /\ pc' = "run" /\ field' = field
  BY <1>1 DEF counters
<1>7. FieldInRange'
  BY <1>1, <1>6 DEF Inv, FieldInRange
<1>8. OvershotIsSmall' /\ RaisedOnce'
  BY <1>1, <1>6 DEF OvershotIsSmall, RaisedOnce
<1> QED
  BY <1>4, <1>5, <1>7, <1>8 DEF Inv

LEMMA EndHalflineRaises ==
  ASSUME Inv, EndHalfline
  PROVE  /\ field' \in 0..2
         /\ raised' \in Nat
         /\ RaisedOnce'
<1>1. /\ pc = "end" /\ pc' \in {"begin", "run"}
      /\ field' = NextField
      /\ v_current' = 2 * halfline + field'
      /\ raised' = IF Matches(v_current') THEN raised + 1 ELSE raised
      /\ UNCHANGED <<halfline, registers, steady>>
  BY DEF EndHalfline
<1>2. /\ field' \in 0..2 /\ field' <= num_fields
      /\ NextField' = field' /\ NextField = field'
  BY <1>1 DEF Inv, Typed, NextField, registers
<1>3. raised' \in Nat
  BY <1>1 DEF Inv, Typed
<1>4. ASSUME steady, v_intr % 2 = 0, v_intr \in 2 * (num_fields - 1)..2 * num_halflines
      PROVE  raised' = IF v_intr <= 2 * (halfline + (field' \div 2)) THEN 1 ELSE 0
  <2> DEFINE at == halfline + (field' \div 2)
  <2>1. halfline \in 0..511 /\ halfline <= num_halflines
    <3>1. halfline \in Nat /\ num_halflines \in 0..511 /\ halfline <= num_halflines
      BY <1>1, <1>4 DEF Inv, Typed, RaisedOnce
    <3> QED
      BY <3>1
  <2>2. Matches(v_current') <=> v_intr = 2 * (at % 512)
    <3>1. v_intr \in 0..1023
      BY DEF Inv, Typed
    <3>2. Matches(2 * halfline + field') <=> v_intr = 2 * ((halfline + (field' \div 2)) % 512)
      <4>1. halfline \in Int /\ field' \in Int
        BY <1>2, <2>1
      <4>2. (2 * halfline + field') \div 2 = halfline + (field' \div 2)
        BY <4>1
      <4> QED
        BY <4>2 DEF Matches
    <3>3. Matches(v_current') <=> Matches(2 * halfline + field')
      BY <1>1
    <3> QED
      BY <3>2, <3>3
  <2>3. field' \div 2 \in 0..1 /\ field' \div 2 <= num_fields - 1
    BY <1>2, HalfOfField DEF Inv, Typed
  <2>4. raised = IF v_intr <= 2 * (at - 1) THEN 1 ELSE 0
    <3>1. raised = IF v_intr <= 2 * ((halfline - 1) + (field' \div 2)) THEN 1 ELSE 0
      BY <1>1, <1>2, <1>4 DEF Inv, RaisedOnce, Compared, Ahead
    <3> QED
      BY <2>1, <2>3, <3>1
  <2>5. at \in 0..512 /\ v_intr <= 1022 /\ (at = 512 => v_intr >= 2)
    <3>1. v_intr \in 0..1023 /\ num_halflines \in 0..511 /\ num_fields \in 1..2
      BY DEF Inv, Typed
    <3> QED
      BY <1>4, <2>1, <2>3, <3>1
  <2>6. v_intr \in Int
    BY DEF Inv, Typed
  <2> HIDE DEF at
  <2>7. Matches(v_current') <=> v_intr = 2 * at
    <3>1. CASE at = 512
      BY <2>2, <2>5, <2>6, <3>1
    <3>2. CASE at \in 0..511
      <4>1. at % 512 = at
        BY <3>2
      <4> QED
        BY <2>2, <4>1
    <3> QED
      BY <2>5, <3>1, <3>2
  <2>8. raised' = IF v_intr <= 2 * at THEN 1 ELSE 0
    <3>1. PICK k \in Int : v_intr = 2 * k
      <4>1. v_intr = 2 * (v_intr \div 2)
        BY <1>4, <2>6
      <4> QED
        BY <2>6, <4>1
    <3>2. at \in Int
      BY <2>5
    <3>3. CASE k < at
      BY <1>1, <2>4, <2>7, <3>1, <3>2, <3>3
    <3>4. CASE k = at
      BY <1>1, <2>4, <2>7, <3>1, <3>2, <3>4
    <3>5. CASE k > at
      BY <1>1, <2>4, <2>7, <3>1, <3>2, <3>5
    <3> QED
      BY <3>2, <3>3, <3>4, <3>5
  <2> QED
    BY <2>8 DEF at
<1>5. RaisedOnce'
  BY <1>1, <1>2, <1>4 DEF Inv, RaisedOnce, Compared, Ahead, registers
<1> QED
  BY <1>2, <1>3, <1>5

LEMMA EndHalflineKeepsInv == ASSUME Inv, EndHalfline PROVE Inv'
<1>1. /\ pc = "end"
      /\ taken' = taken - cycles_per_halfline
      /\ \/ pc' = "begin" /\ UNCHANGED queued
         \/ pc' = "run" /\ Enqueue(queued, cycles_per_halfline - overshot)
      /\ UNCHANGED <<elapsed, halfline, registers, overshot, resets, steady>>
  BY DEF EndHalfline
<1>2. pc' = "run" => queued' \in Seq(Int) /\ Len(queued') = Len(queued) + 1
  BY <1>1, EnqueueAdds DEF Inv, Typed
<1>3. Typed'
  BY <1>1, <1>2, EndHalflineRaises DEF Inv, Typed, registers
<1>4. OneHalflineQueued'
  BY <1>1, <1>2 DEF Inv, OneHalflineQueued
<1> QED
  BY <1>1, <1>3, <1>4, EndHalflineRaises DEF Inv, FieldInRange, OvershotIsSmall

LEMMA BeginHalflineKeepsInv == ASSUME Inv, BeginHalfline PROVE Inv'
<1>1. /\ pc = "begin" /\ overshot' = taken - cycles_per_halfline
      /\ UNCHANGED <<elapsed, queued, registers, taken, resets>>
  BY DEF BeginHalfline
<1>2. CASE halfline + 1 > num_halflines
  <2>1. /\ halfline' = 0 /\ field' = field + 1 /\ pc' = "screen"
        /\ raised' = 0 /\ steady' = TRUE
    BY <1>2 DEF BeginHalfline
  <2>2. Typed'
    BY <1>1, <2>1 DEF Inv, Typed, FieldInRange, registers
  <2>3. field' \in 1..3
    BY <1>1, <2>1 DEF Inv, Typed, FieldInRange
  <2>4. NextField' \in 0..2 /\ NextField' <= num_fields
    BY <1>1, <2>3 DEF Inv, Typed, NextField, registers
  <2>5. Ahead' \in 0..1 /\ Ahead' <= num_fields - 1
    <3>1. Ahead' = NextField' \div 2 /\ num_fields \in 1..2
      BY DEF Inv, Typed, Ahead
    <3> QED
      BY <2>4, <3>1, HalfOfField
  <2>6. RaisedOnce'
    <3>1. ASSUME v_intr \in 2 * (num_fields - 1)..2 * num_halflines
          PROVE  ~(v_intr <= 2 * ((0 - 1) + Ahead'))
      <4>1. v_intr \in Int /\ num_fields \in Int /\ v_intr >= 2 * (num_fields - 1)
        BY <3>1 DEF Inv, Typed
      <4>2. PICK n \in Int : n = Ahead' /\ n <= num_fields - 1
        BY <2>5
      <4>3. ~(v_intr <= 2 * ((0 - 1) + n))
        BY <4>1, <4>2, NotYetReached
      <4> QED
        BY <4>2, <4>3
    <3>2. 0 <= num_halflines
      BY DEF Inv, Typed
    <3>3. Compared' = 0 - 1
      BY <2>1 DEF Compared
    <3> QED
      BY <1>1, <2>1, <3>1, <3>2, <3>3 DEF RaisedOnce, registers
  <2> QED
    BY <1>1, <2>1, <2>2, <2>6 DEF Inv, Typed, FieldInRange, OvershotIsSmall,
       OneHalflineQueued, registers
<1>3. CASE ~(halfline + 1 > num_halflines)
  <2>1. halfline' = halfline + 1 /\ pc' = "end" /\ UNCHANGED <<field, history>>
    BY <1>3 DEF BeginHalfline
  <2>2. Typed'
    BY <1>1, <2>1 DEF Inv, Typed, registers, history
  <2>3. halfline' <= num_halflines /\ Compared' = Compared /\ Ahead' = Ahead
    BY <1>1, <1>3, <2>1 DEF Inv, Typed, Compared, Ahead, NextField, registers
  <2>4. RaisedOnce'
    BY <1>1, <2>1, <2>3 DEF Inv, RaisedOnce, registers, history
  <2> QED
    BY <1>1, <2>1, <2>2, <2>4 DEF Inv, Typed, FieldInRange, OvershotIsSmall,
       OneHalflineQueued, registers
<1> QED
  BY <1>2, <1>3

LEMMA ResetKeepsInv ==
  ASSUME Inv, ResetFromMenu \/ ResetFromThread
  PROVE  Inv'
<1>1. /\ (pc = "screen" /\ pc' = "end") \/ (pc = "run" /\ pc' = "run")
      /\ resets' = resets + 1
      /\ num_halflines' = ResetHalflines /\ num_fields' = 1
      /\ cycles_per_halfline' = ResetCycles /\ v_intr' = ResetInterrupt
      /\ \E clock \in elapsed..MaxClock : elapsed' = elapsed - clock
      /\ queued' = <<ResetCycles>>
      /\ steady' = FALSE
      /\ UNCHANGED <<counters, handler, raised>>
  BY DEF ResetFromMenu, ResetFromThread, ResetSystem
<1>2. Typed'
  <2>1. elapsed' \in Int /\ queued' \in Seq(Int)
    BY <1>1, VideoConstants DEF Inv, Typed
  <2>2. /\ ResetHalflines \in 0..511 /\ ResetInterrupt \in 0..1023 /\ 1 \in 1..2
        /\ ResetCycles \in Nat /\ ResetCycles >= ResetCycles
    BY VideoConstants
  <2>3. /\ halfline' \in Nat /\ field' \in 0..3 /\ taken' \in Int /\ overshot' \in Int
        /\ raised' \in Nat
    BY <1>1 DEF Inv, Typed, counters, handler
  <2>4. steady' \in BOOLEAN
    BY <1>1
  <2>5. resets' \in Nat
    BY <1>1 DEF Inv, Typed
  <2> QED
    BY <1>1, <2>1, <2>2, <2>3, <2>4, <2>5 DEF Typed
<1>3. OvershotIsSmall'
  <2>1. ResetCycles \in Int
    BY VideoConstants
  <2> QED
    BY <1>1, <2>1 DEF Inv, Typed, OvershotIsSmall, handler
<1>4. resets' # 0
  BY <1>1 DEF Inv, Typed
<1> QED
  BY <1>1, <1>2, <1>3, <1>4
     DEF Inv, FieldInRange, RaisedOnce, OneHalflineQueued, counters

LEMMA NextKeepsInv == Inv /\ [Next]_vars => Inv'
<1> SUFFICES ASSUME Inv, [Next]_vars PROVE Inv'
  OBVIOUS
<1> USE DEF Inv, Typed, FieldInRange, OvershotIsSmall, RaisedOnce, Compared, Ahead,
            NextField, OneHalflineQueued, counters, registers, handler, history
<1>1. ASSUME NEW serrate \in BOOLEAN, WriteStatus(serrate) PROVE Inv'
  <2>1. ~steady' /\ num_fields' \in 1..2
    BY <1>1 DEF WriteStatus
  <2> QED
    BY <1>1, <2>1 DEF WriteStatus
<1>2. ASSUME NEW value \in Interrupts, WriteVIntr(value) PROVE Inv'
  <2>1. ~steady' /\ v_intr' \in 0..1023
    BY <1>2, VideoConstants DEF WriteVIntr
  <2> QED
    BY <1>2, <2>1 DEF WriteVIntr
<1>3. CASE WriteVCurrent
  BY <1>3 DEF WriteVCurrent
<1>4. ASSUME NEW vsync \in Syncs, WriteVSyncTraps(vsync) PROVE Inv'
  BY <1>4 DEF WriteVSyncTraps
<1>5. CASE HalflineEvent
  <2>1. queued' \in Seq(Int) /\ Len(queued') = Len(queued) - 1
    BY <1>5, HeadTailProperties DEF HalflineEvent
  <2> QED
    BY <1>5, <2>1 DEF HalflineEvent
<1>6. CASE UpdateScreen
  BY <1>6 DEF UpdateScreen
<1>7. CASE UNCHANGED vars
  BY <1>7 DEF vars
<1> QED
  BY <1>1, <1>2, <1>3, <1>4, <1>5, <1>6, <1>7, RunKeepsInv, WriteVSyncKeepsInv,
     EndHalflineKeepsInv, BeginHalflineKeepsInv, ResetKeepsInv
  DEF Next, Handler

LEMMA SpecInv == Spec => []Inv
  BY InitInv, NextKeepsInv, PTL DEF Spec

-----------------------------------------------------------------------------
\* What Inv leaves of the types.
OtherTypes ==
  /\ elapsed <= MaxElapsed
  /\ v_current \in Nat /\ intr \in BOOLEAN
  /\ resets \in 0..MaxResets

LEMMA OtherTypesAreKept == Inv /\ OtherTypes /\ [Next]_vars => OtherTypes'
<1> SUFFICES ASSUME Inv, OtherTypes, [Next]_vars PROVE OtherTypes'
  OBVIOUS
<1> USE DEF OtherTypes
<1>0. MaxElapsed \in Nat /\ MaxResets \in Nat /\ MaxClock \in Nat /\ elapsed \in Int
  BY VideoConstants DEF Inv, Typed
<1>1. ASSUME NEW t \in Ticks, Run(t) PROVE OtherTypes'
  BY <1>1 DEF Run, counters, registers, handler, history
<1>2. ASSUME NEW s \in BOOLEAN, WriteStatus(s) PROVE OtherTypes'
  BY <1>2 DEF WriteStatus, counters, handler
<1>3. ASSUME NEW v \in Interrupts, WriteVIntr(v) PROVE OtherTypes'
  BY <1>3 DEF WriteVIntr, counters, handler
<1>4. ASSUME WriteVCurrent PROVE OtherTypes'
  BY <1>4 DEF WriteVCurrent, counters, registers, handler, history
<1>5. ASSUME NEW v \in Syncs, WriteVSync(v) PROVE OtherTypes'
  BY <1>5 DEF WriteVSync, counters, handler
<1>12. ASSUME NEW v \in Syncs, WriteVSyncTraps(v) PROVE OtherTypes'
  BY <1>12 DEF WriteVSyncTraps, counters, handler, history
<1>6. ASSUME HalflineEvent PROVE OtherTypes'
  BY <1>6, VideoConstants DEF HalflineEvent, counters, registers, history
<1>7. ASSUME BeginHalfline PROVE OtherTypes'
  BY <1>7 DEF BeginHalfline
<1>8. ASSUME UpdateScreen PROVE OtherTypes'
  BY <1>8 DEF UpdateScreen, counters, registers, handler, history
<1>9. ASSUME EndHalfline PROVE OtherTypes'
  <2>1. NextField \in Nat /\ halfline \in Nat
    BY DEF Inv, Typed, NextField
  <2>2. v_current' \in Nat
    BY <1>9, <2>1 DEF EndHalfline
  <2>3. UNCHANGED <<elapsed, resets>>
    BY <1>9 DEF EndHalfline
  <2>4. intr' = TRUE \/ intr' = intr
    BY <1>9 DEF EndHalfline
  <2>5. intr' \in BOOLEAN
    BY <2>4
  <2> QED
    BY <2>2, <2>3, <2>5
<1>10. ASSUME NEW from, ResetSystem(from) PROVE OtherTypes'
  <2>1. PICK clock \in elapsed..MaxClock : elapsed' = elapsed - clock
    BY <1>10 DEF ResetSystem
  <2>2. elapsed' <= MaxElapsed
    BY <2>1, VideoConstants DEF Inv, Typed
  <2>3. resets' \in 0..MaxResets
    BY <1>10, VideoConstants DEF ResetSystem
  <2> QED
    BY <1>10, <2>2, <2>3 DEF ResetSystem, counters, handler
<1>11. ASSUME UNCHANGED vars PROVE OtherTypes'
  BY <1>11 DEF vars, counters, registers, handler, history
<1> QED
  BY <1>1, <1>2, <1>3, <1>4, <1>5, <1>6, <1>7, <1>8, <1>9, <1>10, <1>11, <1>12
  DEF Next, Handler, ResetFromMenu, ResetFromThread

\* The registers, the position of the beam and the queue have their types.
THEOREM TypesAreRight == Spec => []TypeOK
<1>1. Init => OtherTypes
  <2> SUFFICES ASSUME Init PROVE OtherTypes
    OBVIOUS
  <2>1. 0 <= MaxElapsed /\ 0 \in 0..MaxResets
    BY VideoConstants
  <2> QED
    BY <2>1 DEF Init, OtherTypes
<1>2. Inv /\ OtherTypes => TypeOK
  <2> SUFFICES ASSUME Inv, OtherTypes PROVE TypeOK
    OBVIOUS
  <2>1. ResetCycles > 0 /\ ResetCycles \in Nat
    BY VideoConstants
  <2>2. cycles_per_halfline \in Nat \ {0} /\ num_halflines \in Nat
    BY <2>1 DEF Inv, Typed
  <2> QED
    BY <2>2 DEF Inv, Typed, OtherTypes, TypeOK
<1>3. Inv /\ OtherTypes /\ [Next]_vars => OtherTypes'
  BY OtherTypesAreKept
<1> QED
  BY SpecInv, <1>1, <1>2, <1>3, PTL DEF Spec

-----------------------------------------------------------------------------
\* Whatever is written to V_SYNC and when, there is one chain of halflines
\* (vi.c:53-63, n64system.c:252-286).
THEOREM OneChainOfHalflines == Spec => []OneHalflineQueued
<1>1. Inv => OneHalflineQueued
  BY DEF Inv
<1> QED
  BY SpecInv, <1>1, PTL

\* The time of the next halfline is never computed below 0 (n64system.c:281-285),
\* with any lateness, any lengths and any number of resets.
THEOREM NextIsNeverBelowZero == Spec => NextNeverWraps
<1>1. ASSUME Inv, EndHalfline, pc' = "run" PROVE cycles_per_halfline - overshot >= 0
  <2>1. pc = "end" /\ taken' = taken - cycles_per_halfline /\ ~Again
    BY <1>1 DEF EndHalfline
  <2>2. taken - cycles_per_halfline <= cycles_per_halfline
    BY <1>1, <2>1 DEF Again, Inv, Typed
  <2> QED
    BY <1>1, <2>1, <2>2 DEF Inv, Typed, OvershotIsSmall
<1>2. Inv /\ [Next]_vars
        => [EndHalfline /\ pc' = "run" => cycles_per_halfline - overshot >= 0]_vars
  BY <1>1
<1> QED
  BY SpecInv, <1>2, PTL DEF Spec, NextNeverWraps

\* A field in which nothing is written raises the interrupt once: the comparison of
\* check_vi_interrupt (vi.c:129-136) holds in one of its halflines.
THEOREM OneInterruptPerField == Spec => InterruptOncePerField
<1>1. ASSUME Inv, [Next]_vars, pc = "begin", pc' = "screen", steady, v_intr % 2 = 0,
             v_intr \in 2 * (num_fields - 1)..2 * num_halflines
      PROVE  raised = 1
  <2>1. halfline + 1 > num_halflines
    BY <1>1 DEF Next, Handler, Run, WriteStatus, WriteVIntr, WriteVCurrent, WriteVSync,
       WriteVSyncTraps, HalflineEvent, BeginHalfline, UpdateScreen, EndHalfline,
       ResetFromMenu, ResetFromThread, vars
  <2>2. NextField \in 0..2
    BY <1>1 DEF Inv, Typed, FieldInRange, NextField
  <2>3. Ahead \in 0..1
    BY <2>2 DEF Ahead
  <2>4. v_intr <= 2 * (halfline + Ahead)
    <3>1. /\ v_intr \in Int /\ num_halflines \in Int /\ halfline \in Int
          /\ v_intr <= 2 * num_halflines /\ num_halflines <= halfline
      BY <1>1, <2>1 DEF Inv, Typed
    <3> QED
      BY <2>3, <3>1
  <2> QED
    BY <1>1, <2>4 DEF Inv, RaisedOnce, Compared
<1>2. Inv /\ [Next]_vars
        => [pc = "begin" /\ pc' = "screen" /\ steady /\ v_intr % 2 = 0
              /\ v_intr \in 2 * (num_fields - 1)..2 * num_halflines => raised = 1]_vars
  BY <1>1
<1> QED
  BY SpecInv, <1>2, PTL DEF Spec, InterruptOncePerField
===============================================================================
