----------------------------- MODULE EngineProofs -----------------------------
(***************************************************************************)
(* Theorems about the CPU's two engines: about Interrupts, for any set of  *)
(* MI lines, either set of software interrupts and any number of resets,   *)
(* and about BlockCache, for memories, pages and buffers of any size, any  *)
(* programs and any number of writes.                                      *)
(***************************************************************************)
EXTENDS Interrupts, BlockCache, FiniteSetTheorems, WellFoundedInduction, TLAPS

(***************************************************************************)
(* Interrupts.                                                             *)
(***************************************************************************)

(***************************************************************************)
(* The inductive invariant: one HANDLE_INTERRUPT at most, ip2 the MI's     *)
(* output, and a queued event whenever the CPU has to take an interrupt.   *)
(***************************************************************************)
IInv ==
  /\ TypeOK
  /\ Ip2FollowsMi
  /\ HardwareServiceableIsQueued
  /\ InterpreterServiceableIsQueued

Queued == IF ip \cap im # {} THEN 1 ELSE 0

(***************************************************************************)
(* r4300i_interrupt_update leaves one event if an unmasked interrupt is    *)
(* pending and none otherwise, whatever was queued before.                 *)
(***************************************************************************)
LEMMA UpdateQueues ==
  ASSUME NEW queued \in 0..1, UpdateFrom(queued)
  PROVE  handle_interrupt' = Queued'
  BY DEF UpdateFrom, Queued

(***************************************************************************)
(* Every step that ends in an update establishes the invariant anew.       *)
(***************************************************************************)
LEMMA UpdatePreserves ==
  ASSUME IInv, InterruptUpdate,
         use_interpreter' \in BOOLEAN, at_tick' \in BOOLEAN, resets' \in 0..MaxResets,
         intr' \subseteq Line, intr_mask' \subseteq Line, ip' \subseteq Ip,
         im' \subseteq Ip, ie' \in BOOLEAN, exl' \in BOOLEAN, erl' \in BOOLEAN,
         Ip2FollowsMi'
  PROVE  IInv'
<1>1. handle_interrupt \in 0..1
  BY DEF IInv, TypeOK
<1>2. handle_interrupt' = Queued'
  BY <1>1, UpdateQueues DEF InterruptUpdate
<1>3. handle_interrupt' \in 0..1
  BY <1>2 DEF Queued
<1>4. (HardwareServiceableIsQueued /\ InterpreterServiceableIsQueued)'
  BY <1>2 DEF Queued, HardwareServiceableIsQueued, InterpreterServiceableIsQueued,
              ServiceableIsQueued, Serviceable, Ip
<1>5. TypeOK'
  BY <1>3 DEF TypeOK
<1>6. QED
  BY <1>4, <1>5 DEF IInv

(***************************************************************************)
(* on_interrupt_change: the MI's output is copied before the update.       *)
(***************************************************************************)
LEMMA ChangePreserves ==
  ASSUME IInv, OnInterruptChange, UNCHANGED <<use_interpreter, status, resets>>,
         at_tick' \in BOOLEAN, intr' \subseteq Line, intr_mask' \subseteq Line
  PROVE  IInv'
<1>1. ip' \subseteq Ip /\ Ip2FollowsMi'
  BY DEF OnInterruptChange, IInv, TypeOK, Ip2FollowsMi, Ip, Mi
<1>2. UNCHANGED <<im, ie, exl, erl>>
  BY DEF status
<1>3. QED
  BY <1>1, <1>2, UpdatePreserves DEF OnInterruptChange, IInv, TypeOK

LEMMA RaisePreserves ==
  ASSUME IInv, NEW line \in Line, InterruptRaise(line) \/ InterruptLower(line),
         UNCHANGED <<use_interpreter, resets>>, at_tick' \in BOOLEAN
  PROVE  IInv'
<1>1. intr' \subseteq Line /\ intr_mask' \subseteq Line
  BY DEF InterruptRaise, InterruptLower, IInv, TypeOK
<1>2. QED
  BY <1>1, ChangePreserves DEF InterruptRaise, InterruptLower

LEMMA StatusPreserves ==
  ASSUME IInv, NEW newIm \in SUBSET Ip, NEW newIe \in BOOLEAN,
         NEW newExl \in BOOLEAN, NEW newErl \in BOOLEAN,
         WriteStatus(newIm, newIe, newExl, newErl),
         UNCHANGED <<use_interpreter, resets>>, at_tick' \in BOOLEAN
  PROVE  IInv'
<1>1. UNCHANGED <<intr, intr_mask, ip>>
  BY DEF WriteStatus, mi
<1>2. Ip2FollowsMi'
  BY <1>1 DEF IInv, Ip2FollowsMi
<1>3. QED
  BY <1>1, <1>2, UpdatePreserves DEF WriteStatus, IInv, TypeOK

(***************************************************************************)
(* Writes to $Cause and $Compare that leave the queue alone: they touch no *)
(* hardware interrupt, or only take one back.                              *)
(***************************************************************************)
LEMMA CausePreserves ==
  ASSUME IInv, NEW software \in SUBSET SoftwareIp,
         WriteCause(software) \/ WriteCauseCompiled(software),
         UNCHANGED <<use_interpreter, resets>>, at_tick' \in BOOLEAN
  PROVE  IInv'
<1>1. /\ UNCHANGED <<intr, intr_mask, im, ie, exl, erl>>
      /\ ip' = (ip \ SoftwareIp) \cup software
  BY DEF WriteCause, WriteCauseCompiled, mi, status
<1>2. /\ SoftwareIp \subseteq {0, 1}
      /\ ip' \subseteq Ip
      /\ ip' \cap {Mi, Timer} = ip \cap {Mi, Timer}
  BY <1>1, InterruptConstants DEF IInv, TypeOK, Ip, Mi, Timer
<1>3. Ip2FollowsMi'
  BY <1>1, <1>2 DEF IInv, Ip2FollowsMi
<1>4. CASE WriteCause(software)
  BY <1>1, <1>2, <1>3, <1>4, UpdatePreserves DEF WriteCause, IInv, TypeOK
<1>5. CASE WriteCauseCompiled(software)
  <2>1. ~use_interpreter /\ handle_interrupt' = handle_interrupt
    BY <1>5 DEF WriteCauseCompiled
  <2>2. TypeOK'
    BY <1>1, <1>2, <2>1 DEF IInv, TypeOK
  <2>3. ip' \cap im' \cap {Mi, Timer} = ip \cap im \cap {Mi, Timer}
    BY <1>1, <1>2
  <2>4. HardwareServiceableIsQueued'
    BY <1>1, <2>1, <2>3 DEF IInv, HardwareServiceableIsQueued, Serviceable, Enabled
  <2>5. InterpreterServiceableIsQueued'
    BY <2>1 DEF InterpreterServiceableIsQueued
  <2>6. QED
    BY <1>3, <2>2, <2>4, <2>5 DEF IInv
<1>6. QED
  BY <1>4, <1>5

LEMMA ComparePreserves ==
  ASSUME IInv, WriteCompare, UNCHANGED <<use_interpreter, resets>>, at_tick' \in BOOLEAN
  PROVE  IInv'
<1>1. /\ UNCHANGED <<intr, intr_mask, im, ie, exl, erl, handle_interrupt>>
      /\ ip' \subseteq ip
      /\ Mi \in ip' <=> Mi \in ip
  BY DEF WriteCompare, mi, status, Mi, Timer
<1>2. TypeOK'
  BY <1>1 DEF IInv, TypeOK
<1>3. Ip2FollowsMi'
  BY <1>1 DEF IInv, Ip2FollowsMi, Mi
<1>4. (HardwareServiceableIsQueued /\ InterpreterServiceableIsQueued)'
  BY <1>1 DEF IInv, HardwareServiceableIsQueued, InterpreterServiceableIsQueued,
              ServiceableIsQueued, Serviceable, Enabled
<1>5. QED
  BY <1>2, <1>3, <1>4 DEF IInv

(***************************************************************************)
(* The one event that is not followed by another when it is taken off the  *)
(* queue: either interrupts are disabled, or EXL is set now.               *)
(***************************************************************************)
LEMMA HandlePreserves ==
  ASSUME IInv, HandleInterrupt
  PROVE  IInv'
<1>1. /\ UNCHANGED <<use_interpreter, intr, intr_mask, ip, im, ie, erl, resets>>
      /\ at_tick' \in BOOLEAN
      /\ handle_interrupt = 1
  <2>1. handle_interrupt = 1
    BY DEF HandleInterrupt, IInv, TypeOK
  <2>2. QED
    BY <2>1 DEF HandleInterrupt, mi
<1>2. Ip2FollowsMi'
  BY <1>1 DEF IInv, Ip2FollowsMi
<1>3. ~Enabled'
  BY <1>1 DEF HandleInterrupt, Enabled
<1>4. handle_interrupt' \in 0..1 /\ exl' \in BOOLEAN
  <2>1. CASE Enabled
    <3>1. exl' = TRUE /\ UpdateFrom(0)
      BY <1>1, <2>1 DEF HandleInterrupt
    <3>2. handle_interrupt' = Queued'
      BY <3>1, UpdateQueues
    <3>3. QED
      BY <3>1, <3>2 DEF Queued
  <2>2. CASE ~Enabled
    BY <1>1, <2>2 DEF HandleInterrupt, IInv, TypeOK
  <2>3. QED
    BY <2>1, <2>2
<1>5. TypeOK'
  BY <1>1, <1>4 DEF IInv, TypeOK
<1>6. (HardwareServiceableIsQueued /\ InterpreterServiceableIsQueued)'
  BY <1>3 DEF HardwareServiceableIsQueued, InterpreterServiceableIsQueued,
              ServiceableIsQueued, Serviceable
<1>7. QED
  BY <1>2, <1>5, <1>6 DEF IInv

LEMMA InitIInv == Init => IInv
<1> SUFFICES ASSUME Init PROVE IInv
  OBVIOUS
<1>1. resets \in 0..MaxResets /\ handle_interrupt \in 0..1
  BY InterruptConstants DEF Init
<1>2. TypeOK
  BY <1>1 DEF Init, TypeOK
<1>3. ip = {} /\ intr = {}
  BY DEF Init
<1>4. QED
  BY <1>2, <1>3 DEF IInv, Ip2FollowsMi, HardwareServiceableIsQueued,
                    InterpreterServiceableIsQueued, ServiceableIsQueued, Serviceable

LEMMA NextIInv == IInv /\ [Next]_vars => IInv'
<1> SUFFICES ASSUME IInv, [Next]_vars PROVE IInv'
  OBVIOUS
<1>1. ASSUME NEW line \in Line,
             WritesInterrupts(line) \/ DeviceRaises(line) \/ DeviceEvent(line)
      PROVE  IInv'
  <2>1. /\ InterruptRaise(line) \/ InterruptLower(line)
        /\ UNCHANGED <<use_interpreter, resets>>
        /\ at_tick' \in BOOLEAN
    BY <1>1 DEF WritesInterrupts, Instruction, DeviceRaises, DeviceEvent, IInv, TypeOK
  <2>2. QED
    BY <2>1, RaisePreserves
<1>2. ASSUME NEW clear \in SUBSET Line, NEW set \in SUBSET Line, WritesMask(clear, set)
      PROVE  IInv'
  <2>1. /\ OnInterruptChange
        /\ UNCHANGED <<use_interpreter, status, resets>>
        /\ at_tick' \in BOOLEAN
        /\ intr' \subseteq Line /\ intr_mask' \subseteq Line
    BY <1>2 DEF WritesMask, Instruction, WriteMask, IInv, TypeOK
  <2>2. QED
    BY <2>1, ChangePreserves
<1>3. ASSUME NEW newIm \in SUBSET Ip, NEW newIe \in BOOLEAN,
             NEW newExl \in BOOLEAN, NEW newErl \in BOOLEAN,
             \/ WritesStatus(newIm, newIe, newExl, newErl)
             \/ Instruction(WriteStatus(newIm, newIe, newExl, newErl))
      PROVE  IInv'
  <2>1. /\ WriteStatus(newIm, newIe, newExl, newErl)
        /\ UNCHANGED <<use_interpreter, resets>>
        /\ at_tick' \in BOOLEAN
    BY <1>3 DEF WritesStatus, Instruction
  <2>2. QED
    BY <2>1, StatusPreserves
<1>4. ASSUME NEW software \in SUBSET SoftwareIp,
             WritesCause(software) \/ WritesCauseCompiled(software)
      PROVE  IInv'
  <2>1. /\ WriteCause(software) \/ WriteCauseCompiled(software)
        /\ UNCHANGED <<use_interpreter, resets>>
        /\ at_tick' \in BOOLEAN
    BY <1>4 DEF WritesCause, WritesCauseCompiled, Instruction
  <2>2. QED
    BY <2>1, CausePreserves
<1>5. CASE Returns \/ Faults
  <2>1. im \in SUBSET Ip /\ ie \in BOOLEAN /\ exl \in BOOLEAN /\ erl \in BOOLEAN
    BY DEF IInv, TypeOK
  <2>2. \/ Instruction(WriteStatus(im, ie, exl, FALSE))
        \/ Instruction(WriteStatus(im, ie, FALSE, erl))
        \/ Instruction(WriteStatus(im, ie, TRUE, erl))
    BY <1>5 DEF Returns, Faults, Instruction, Eret, HandleException
  <2>3. QED
    BY <1>3, <2>1, <2>2
<1>6. CASE WritesCompare
  <2>1. WriteCompare /\ UNCHANGED <<use_interpreter, resets>> /\ at_tick' \in BOOLEAN
    BY <1>6 DEF WritesCompare, Instruction
  <2>2. QED
    BY <2>1, ComparePreserves
<1>7. CASE Computes \/ NothingDue \/ UNCHANGED vars
  <2>1. /\ UNCHANGED <<use_interpreter, intr, intr_mask, ip, im, ie, exl, erl,
                       handle_interrupt, resets>>
        /\ at_tick' \in BOOLEAN
    BY <1>7 DEF Computes, Instruction, NothingDue, vars, mi, status, IInv, TypeOK
  <2>2. QED
    BY <2>1 DEF IInv, TypeOK, Ip2FollowsMi, HardwareServiceableIsQueued,
                InterpreterServiceableIsQueued, ServiceableIsQueued, Serviceable, Enabled
<1>8. CASE CompareEvent
  <2>1. /\ InterruptUpdate
        /\ UNCHANGED <<use_interpreter, intr, intr_mask, im, ie, exl, erl, resets>>
        /\ ip' = ip \cup {Timer}
        /\ at_tick' \in BOOLEAN
    BY <1>8 DEF CompareEvent, mi, status
  <2>2. ip' \subseteq Ip /\ Ip2FollowsMi'
    BY <2>1 DEF IInv, TypeOK, Ip, Ip2FollowsMi, Mi, Timer
  <2>3. QED
    BY <2>1, <2>2, UpdatePreserves DEF IInv, TypeOK
<1>9. CASE HandleInterrupt
  BY <1>9, HandlePreserves
<1>10. CASE ResetSystem
  <2>1. /\ UNCHANGED <<use_interpreter, at_tick, intr, intr_mask>>
        /\ ip' = {} /\ im' = {} /\ ie' = FALSE /\ exl' = FALSE /\ erl' = FALSE
        /\ handle_interrupt' = 0
    BY <1>10 DEF ResetSystem, mi
  <2>2. resets' \in 0..MaxResets /\ resets' # 0
    BY <1>10, InterruptConstants DEF ResetSystem, IInv, TypeOK
  <2>3. use_interpreter \in BOOLEAN /\ at_tick \in BOOLEAN
        /\ intr \subseteq Line /\ intr_mask \subseteq Line
    BY DEF IInv, TypeOK
  <2>4. handle_interrupt' \in 0..1
    BY <2>1
  <2>5. TypeOK'
    BY <2>1, <2>2, <2>3, <2>4 DEF TypeOK
  <2>6. QED
    BY <2>1, <2>2, <2>5
       DEF IInv, Ip2FollowsMi, HardwareServiceableIsQueued,
           InterpreterServiceableIsQueued, ServiceableIsQueued, Serviceable
<1>11. QED
  BY <1>1, <1>2, <1>3, <1>4, <1>5, <1>6, <1>7, <1>8, <1>9, <1>10 DEF Next

LEMMA Inductive == Spec => []IInv
  BY InitIInv, NextIInv, PTL DEF Spec

(***************************************************************************)
(* Types; in particular the updates never leave two HANDLE_INTERRUPT       *)
(* events in the queue.                                                    *)
(***************************************************************************)
THEOREM TypeCorrect == Spec => []TypeOK
<1>1. IInv => TypeOK
  BY DEF IInv
<1>2. QED
  BY <1>1, Inductive, PTL

(***************************************************************************)
(* cause.ip2 is the output of the MI until reset_n64system, which does not *)
(* reset the MI; even then the CPU never sees an MI interrupt that no      *)
(* unmasked line asks for.                                                 *)
(***************************************************************************)
THEOREM Ip2IsTheMi == Spec => []Ip2FollowsMi
<1>1. IInv => Ip2FollowsMi
  BY DEF IInv
<1>2. QED
  BY <1>1, Inductive, PTL

(***************************************************************************)
(* An interrupt the CPU has to take is queued, with either engine if       *)
(* hardware raised it, with the interpreter if software did: no write to   *)
(* the MI, $Status or $Cause, exception, eret or reset loses it.           *)
(***************************************************************************)
THEOREM NoInterruptLost == Spec => []InterruptsAreQueued
<1>1. IInv => InterruptsAreQueued
  BY DEF IInv, InterruptsAreQueued
<1>2. QED
  BY <1>1, Inductive, PTL

-----------------------------------------------------------------------------
(***************************************************************************)
(* The block cache.  First, induction as facts about sets of numbers.      *)
(***************************************************************************)
LEMMA LeastNumber ==
  ASSUME NEW S, S \subseteq Nat, S # {}
  PROVE  \E n \in S : \A m \in S : n <= m
<1>1. PICK n \in S : \A m \in S : ~ (<<m, n>> \in OpToRel(<, Nat))
  BY NatLessThanWellFounded, WFMin
<1>2. \A m \in S : ~ (m < n)
  BY <1>1 DEF OpToRel
<1>3. QED
  BY <1>2

\* Induction for a set of numbers below a bound.
LEMMA UpTo ==
  ASSUME NEW N \in Nat, NEW S, 0 \in S, \A k \in S : k \in 0..(N - 1) => k + 1 \in S
  PROVE  N \in S
<1> DEFINE missing == {k \in 0..N : k \notin S}
<1>1. SUFFICES ASSUME N \notin S PROVE FALSE
  OBVIOUS
<1>2. PICK k \in missing : \A m \in missing : k <= m
  <2>1. missing \subseteq Nat /\ N \in missing
    BY <1>1
  <2>2. QED
    BY <2>1, LeastNumber
<1>3. k \in 0..N /\ k \notin S /\ k # 0
  BY <1>2
<1>4. k - 1 \in 0..(N - 1) /\ k - 1 \notin missing
  BY <1>2, <1>3
<1>5. k - 1 \in S
  BY <1>4
<1>6. QED
  BY <1>3, <1>4, <1>5

-----------------------------------------------------------------------------
(***************************************************************************)
(* Words and pages.                                                        *)
(***************************************************************************)

\* Quotient and remainder are unique.
LEMMA PlaceUnique ==
  ASSUME NEW n \in Nat \ {0}, NEW p \in Int, NEW i \in 0..(n - 1)
  PROVE  (n * p + i) \div n = p /\ (n * p + i) % n = i
<1> DEFINE x == n * p + i
           q == x \div n
           j == x % n
<1>1. x \in Int /\ n * p \in Int
  BY SMTT(30)
<1>2. q \in Int /\ j \in 0..(n - 1) /\ x = n * q + j
  <2> HIDE DEF x
  <2>1. QED
    BY <1>1, SMTT(30)
<1>3. n * p + i = n * q + j
  BY <1>2
<1> HIDE DEF q, j, x
<1>4. n * (p - q) = j - i
  BY <1>2, <1>3, SMTT(30)
<1>5. p - q = 0
  <2> DEFINE d == p - q
  <2>1. d \in Int /\ n * d < n /\ n * d > -n
    BY <1>2, <1>4
  <2> HIDE DEF d
  <2>2. d = 0
    BY <2>1, SMTT(30)
  <2>3. QED
    BY <2>2 DEF d
<1>6. p = q
  BY <1>2, <1>5
<1>7. i = j
  BY <1>1, <1>2, <1>3, <1>6, SMTT(30)
<1>8. QED
  BY <1>6, <1>7 DEF q, j, x

\* There is memory, and its words are numbers.
LEMMA SizeOfMemory == NumPages * PageWords \in Nat \ {0} /\ Words \subseteq Nat
<1>1. NumPages * PageWords \in Nat \ {0}
  BY BlockCacheAssumption, SMTT(30)
<1>2. QED
  BY <1>1 DEF Words

\* A word is in a page, at a place in it.
LEMMA Placed ==
  ASSUME NEW w \in Words
  PROVE  /\ w \in Nat
         /\ OuterIndex(w) \in Pages /\ InnerIndex(w) \in 0..(PageWords - 1)
         /\ w = PageWords * OuterIndex(w) + InnerIndex(w)
<1> DEFINE n == PageWords
           p == OuterIndex(w)
           i == InnerIndex(w)
<1>1. w \in Nat /\ n \in Nat \ {0} /\ NumPages \in Nat \ {0} /\ w < NumPages * n
  BY BlockCacheAssumption, SizeOfMemory DEF Words
<1>2. p \in Int /\ i \in 0..(n - 1) /\ w = n * p + i
  <2> HIDE DEF n
  <2>1. QED
    BY <1>1, SMTT(30) DEF OuterIndex, InnerIndex, n
<1> HIDE DEF p, i, n
<1>3. p >= 0
  <2>1. CASE p < 0
    <3>1. n * p <= -n
      BY <1>1, <1>2, <2>1, SMTT(30)
    <3>2. n * p \in Int
      BY <1>1, <1>2
    <3>3. QED
      BY <1>1, <1>2, <3>1, <3>2
  <2>2. QED
    BY <1>2, <2>1
<1>4. p <= NumPages - 1
  <2>1. CASE p >= NumPages
    <3>1. n * p >= NumPages * n
      BY <1>1, <1>2, <2>1, SMTT(30)
    <3>2. n * p \in Int /\ NumPages * n \in Int
      BY <1>1, <1>2
    <3>3. QED
      BY <1>1, <1>2, <3>1, <3>2
  <2>2. QED
    BY <1>1, <1>2, <2>1
<1>5. QED
  BY <1>1, <1>2, <1>3, <1>4 DEF Pages, p, i, n

\* There is a word at every place of every page.
LEMMA PlaceOf ==
  ASSUME NEW p \in Pages, NEW i \in 0..(PageWords - 1)
  PROVE  \E w \in Words : OuterIndex(w) = p /\ InnerIndex(w) = i /\ w = PageWords * p + i
<1> DEFINE n == PageWords
           w == n * p + i
<1>1. n \in Nat \ {0} /\ p \in Nat /\ NumPages \in Nat /\ p <= NumPages - 1
  BY BlockCacheAssumption DEF Pages
<1>2. n * p \in Nat /\ n * p + n <= NumPages * n
  <2> HIDE DEF n
  <2>1. QED
    BY <1>1, SMTT(30)
<1>3. NumPages * n \in Nat
  BY SizeOfMemory
<1>4. w \in Words
  <2> DEFINE a == n * p
             b == NumPages * n
  <2> HIDE DEF a, b
  <2>1. a \in Nat /\ a + n <= b /\ b \in Nat
    BY <1>2, <1>3 DEF a, b
  <2>2. a + i \in 0..(b - 1)
    BY <1>1, <2>1
  <2>3. QED
    BY <2>2 DEF a, b, Words
<1>5. OuterIndex(w) = p /\ InnerIndex(w) = i
  BY <1>1, PlaceUnique DEF OuterIndex, InnerIndex
<1>6. QED
  BY <1>4, <1>5

\* Two words at the same place of the same page are one.
LEMMA SamePlace ==
  ASSUME NEW w \in Words, NEW x \in Words,
         OuterIndex(w) = OuterIndex(x), InnerIndex(w) = InnerIndex(x)
  PROVE  w = x
  BY Placed

\* The next word is in the same page, unless a page begins with it.
LEMMA NextPlace ==
  ASSUME NEW w \in Words, InnerIndex(w + 1) # 0
  PROVE  w + 1 \in Words /\ OuterIndex(w + 1) = OuterIndex(w)
<1> DEFINE n == PageWords
           p == OuterIndex(w)
           i == InnerIndex(w)
<1>1. w \in Nat /\ p \in Pages /\ p \in Nat /\ i \in 0..(n - 1) /\ w = n * p + i /\ n \in Nat \ {0}
  BY Placed, BlockCacheAssumption DEF Pages
<1> HIDE DEF n, p, i
<1>2. n * p \in Nat
  BY <1>1
<1>3. CASE i = n - 1
  <2>1. w + 1 = n * (p + 1) + 0 /\ p + 1 \in Int /\ 0 \in 0..(n - 1)
    BY <1>1, <1>3, SMTT(30)
  <2>2. (w + 1) % n = 0
    BY <1>1, <2>1, PlaceUnique
  <2>3. QED
    BY <2>2 DEF InnerIndex, n
<1>4. CASE i # n - 1
  <2>1. w + 1 = n * p + (i + 1) /\ i + 1 \in 0..(n - 1)
    BY <1>1, <1>2, <1>4
  <2>2. PICK x \in Words : OuterIndex(x) = p /\ x = n * p + (i + 1)
    BY <1>1, <2>1, PlaceOf DEF n
  <2>3. QED
    BY <2>1, <2>2 DEF p
<1>5. QED
  BY <1>3, <1>4

\* A block lies in its page.
LEMMA BlockEnds ==
  ASSUME NEW w \in Words
  PROVE  /\ LastWord(w) \in w..(w + PageWords - 1)
         /\ \A x \in w..LastWord(w) : x \in Words /\ OuterIndex(x) = OuterIndex(w)
<1> DEFINE N == NumPages * PageWords - 1
           Ends(x, first) == \/ InnerIndex(x + 1) = 0
                             \/ rdram[x] = "eret"
                             \/ x > first /\ Branches(x - 1)
           Candidates == {x \in w..N : Ends(x, w)}
           L == LastWord(w)
<1>1. w \in Nat /\ N \in Nat /\ w <= N /\ Words = 0..N /\ PageWords \in Nat \ {0}
  BY SizeOfMemory, BlockCacheAssumption DEF Words
<1>2. Candidates # {}
  <2>1. /\ OuterIndex(w) \in Pages /\ PageWords - 1 \in 0..(PageWords - 1)
        /\ InnerIndex(w) \in 0..(PageWords - 1) /\ w = PageWords * OuterIndex(w) + InnerIndex(w)
    BY <1>1, Placed
  <2>2. PICK x \in Words : x = PageWords * OuterIndex(w) + (PageWords - 1)
    BY <2>1, PlaceOf
  <2>3. OuterIndex(w) \in Nat /\ PageWords * OuterIndex(w) \in Nat
    BY <1>1, <2>1 DEF Pages
  <2>4. x >= w
    BY <1>1, <2>1, <2>2, <2>3
  <2>5. x + 1 = PageWords * (OuterIndex(w) + 1) + 0
    <3> DEFINE n == PageWords
               p == OuterIndex(w)
    <3> HIDE DEF n, p
    <3>1. n \in Nat /\ p \in Nat /\ x = n * p + (n - 1)
      BY <1>1, <2>2, <2>3 DEF n, p
    <3>2. x + 1 = n * (p + 1) + 0
      BY <3>1, SMTT(30)
    <3>3. QED
      BY <3>2 DEF n, p
  <2>6. InnerIndex(x + 1) = 0
    <3>1. OuterIndex(w) + 1 \in Int /\ 0 \in 0..(PageWords - 1)
      BY <1>1, <2>3
    <3>2. QED
      BY <1>1, <2>5, <3>1, PlaceUnique DEF InnerIndex
  <2> HIDE DEF N
  <2>7. x \in w..N
    BY <1>1, <2>4
  <2>8. QED
    BY <2>6, <2>7
<1>3. PICK last \in Candidates : \A x \in Candidates : last <= x
  <2>1. Candidates \subseteq Nat
    BY <1>1
  <2> HIDE DEF Candidates
  <2>2. QED
    BY <1>2, <2>1, LeastNumber
<1>4. last \in w..N /\ Ends(last, w) /\ \A x \in w..(last - 1) : ~ Ends(x, w)
  <2> HIDE DEF Ends, N
  <2>1. last \in w..N /\ Ends(last, w)
    BY <1>3
  <2>2. ASSUME NEW x \in w..(last - 1) PROVE ~ Ends(x, w)
    <3>1. x \in w..N /\ ~ (last <= x)
      BY <1>1, <2>1, <2>2
    <3>2. QED
      BY <1>3, <3>1
  <2>3. QED
    BY <2>1, <2>2
<1>5. L \in w..N /\ \A x \in w..(L - 1) : ~ Ends(x, w)
  <2>1. L = CHOOSE y \in w..N : Ends(y, w) /\ \A x \in w..(y - 1) : ~ Ends(x, w)
    BY DEF LastWord
  <2> HIDE DEF Ends, N, L
  <2>2. QED
    BY <1>4, <2>1
<1>6. \A x \in w..(L - 1) : InnerIndex(x + 1) # 0
  BY <1>5
<1> DEFINE T == {k \in 0..(L - w) : w + k \in Words /\ OuterIndex(w + k) = OuterIndex(w)}
<1> HIDE DEF L, N, Candidates, Ends
<1>7. L - w \in Nat /\ 0 \in T
  BY <1>1, <1>5
<1>8. ASSUME NEW k \in T, k \in 0..((L - w) - 1) PROVE k + 1 \in T
  <2>1. w + k \in Words /\ w + k \in w..(L - 1) /\ OuterIndex(w + k) = OuterIndex(w)
    BY <1>1, <1>5, <1>8
  <2>2. (w + k) + 1 \in Words /\ OuterIndex((w + k) + 1) = OuterIndex(w)
    BY <1>6, <2>1, NextPlace
  <2>3. (w + k) + 1 = w + (k + 1) /\ k + 1 \in 0..(L - w)
    BY <1>1, <1>5, <1>8
  <2>4. QED
    BY <2>2, <2>3
<1>9. ASSUME NEW x \in w..L PROVE x \in Words /\ OuterIndex(x) = OuterIndex(w)
  <2> DEFINE K == x - w
  <2>1. K \in Nat /\ K <= L - w /\ w + K = x
    BY <1>1, <1>5
  <2> HIDE DEF T, K
  <2>2. \A k \in T : k \in 0..(K - 1) => k + 1 \in T
    <3>1. \A k \in 0..(K - 1) : k \in 0..((L - w) - 1)
      BY <1>7, <2>1
    <3>2. QED
      BY <1>8, <3>1
  <2>3. K \in T
    BY <1>7, <2>1, <2>2, UpTo
  <2>4. QED
    BY <2>1, <2>3 DEF T
<1>10. L <= w + PageWords - 1
  <2> DEFINE p == PageWords * OuterIndex(w)
  <2>1. L \in w..L
    BY <1>1, <1>5
  <2>2. L \in Words /\ OuterIndex(L) = OuterIndex(w)
    BY <1>9, <2>1
  <2>3. /\ InnerIndex(w) \in 0..(PageWords - 1) /\ w = p + InnerIndex(w)
        /\ InnerIndex(L) \in 0..(PageWords - 1) /\ L = p + InnerIndex(L)
    BY <2>2, Placed
  <2>4. p \in Int
    BY <1>1, <2>2, Placed DEF Pages
  <2> HIDE DEF p
  <2>5. QED
    BY <1>1, <2>3, <2>4
<1>11. QED
  BY <1>1, <1>5, <1>9, <1>10 DEF L

-----------------------------------------------------------------------------
(***************************************************************************)
(* The buffer and its index, field by field.                               *)
(***************************************************************************)
CacheOf(cells, u, lists, masks) ==
  [codecache |-> cells, used |-> u, blockcache |-> lists, code_mask |-> masks]

Cells  == 0..(CodecacheSize - 1)
NoList == [p \in Pages |-> Null]

IsBuffer(cells) == cells = [a \in Cells |-> cells[a]]

IsCache(cells, u, lists, masks) ==
  /\ IsBuffer(cells) /\ u \in 0..CodecacheSize
  /\ lists \in [Pages -> Null..(CodecacheSize - 1)]
  /\ masks \in [Pages -> Null..(CodecacheSize - 1)]

\* Where an allocation is made, and what lists there are after it.
Flushes(u, size)         == u + size >= CodecacheSize
Place(u, size)           == IF Flushes(u, size) THEN 0 ELSE u
ListsAfter(u, size, lists) == IF Flushes(u, size) THEN NoList ELSE lists

\* Writing a cell of the buffer changes that cell.
LEMMA BufferCells ==
  ASSUME NEW cells, IsBuffer(cells)
  PROVE  /\ DOMAIN cells = Cells
         /\ \A a, x : IsBuffer([cells EXCEPT ![a] = x])
         /\ \A a, x : a \in Cells => [cells EXCEPT ![a] = x][a] = x
         /\ \A a, x, b : b \in Cells /\ b # a => [cells EXCEPT ![a] = x][b] = cells[b]
  BY DEF IsBuffer

\* Writing cells changes those that are in the buffer.
LEMMA OverwrittenCells ==
  ASSUME NEW cells, IsBuffer(cells), NEW new
  PROVE  /\ IsBuffer(Overwrite(cells, new))
         /\ \A a \in Cells : Overwrite(cells, new)[a] = IF a \in DOMAIN new THEN new[a] ELSE cells[a]
  BY DEF IsBuffer, Overwrite

\* Writes to one field and to two.
LEMMA FieldWrites ==
  ASSUME NEW cells, NEW u, NEW lists, NEW masks, NEW x
  PROVE  /\ [CacheOf(cells, u, lists, masks) EXCEPT !.codecache = x] = CacheOf(x, u, lists, masks)
         /\ [CacheOf(cells, u, lists, masks) EXCEPT !.used = x] = CacheOf(cells, x, lists, masks)
         /\ [CacheOf(cells, u, lists, masks) EXCEPT !.blockcache = x] = CacheOf(cells, u, x, masks)
         /\ [CacheOf(cells, u, lists, masks) EXCEPT !.code_mask = x] = CacheOf(cells, u, lists, x)
  BY DEF CacheOf

\* A flush takes the lists away and leaves the masks (flush_code_cache).
LEMMA Flushed ==
  ASSUME NEW cells, NEW u, NEW lists, NEW masks
  PROVE  FlushCodeCache(CacheOf(cells, u, lists, masks)) = CacheOf(cells, 0, NoList, masks)
<1> DEFINE c == CacheOf(cells, u, lists, masks)
<1>1. [c EXCEPT !.used = 0, !.blockcache = NoList]
        = [[c EXCEPT !.used = 0] EXCEPT !.blockcache = NoList]
  BY DEF CacheOf
<1>2. /\ [c EXCEPT !.used = 0] = CacheOf(cells, 0, lists, masks)
      /\ [CacheOf(cells, 0, lists, masks) EXCEPT !.blockcache = NoList]
           = CacheOf(cells, 0, NoList, masks)
  BY DEF CacheOf
<1>3. FlushCodeCache(c) = [c EXCEPT !.used = 0, !.blockcache = NoList]
  BY DEF FlushCodeCache, NoList
<1>4. QED
  BY <1>1, <1>2, <1>3

\* What dynarec_bumpalloc returns, and what it leaves.
LEMMA Allocation ==
  ASSUME NEW cells, NEW u, NEW lists, NEW masks, NEW size
  PROVE  /\ BumpPtr(CacheOf(cells, u, lists, masks), size) = Place(u, size)
         /\ BumpAlloc(CacheOf(cells, u, lists, masks), size)
              = CacheOf(cells, Place(u, size) + size, ListsAfter(u, size, lists), masks)
<1> DEFINE c == CacheOf(cells, u, lists, masks)
           room == CacheOf(cells, Place(u, size), ListsAfter(u, size, lists), masks)
<1>1. MakeRoom(c, size) = room
  <2>1. c.used = u
    BY DEF CacheOf
  <2>2. FlushCodeCache(c) = CacheOf(cells, 0, NoList, masks)
    BY Flushed
  <2> HIDE DEF c
  <2>3. MakeRoom(c, size) = IF Flushes(u, size) THEN CacheOf(cells, 0, NoList, masks) ELSE c
    BY <2>1, <2>2 DEF MakeRoom, Flushes
  <2>4. QED
    BY <2>3 DEF c, Place, ListsAfter
<1>2. room.used = Place(u, size) /\ room = [codecache |-> cells, used |-> Place(u, size),
        blockcache |-> ListsAfter(u, size, lists), code_mask |-> masks]
  BY DEF CacheOf
<1>3. BumpPtr(c, size) = Place(u, size)
  BY <1>1, <1>2 DEF BumpPtr
<1>4. [room EXCEPT !.used = @ + size]
        = CacheOf(cells, Place(u, size) + size, ListsAfter(u, size, lists), masks)
  BY DEF CacheOf
<1>5. BumpAlloc(c, size) = [room EXCEPT !.used = @ + size]
  BY <1>1 DEF BumpAlloc
<1>6. QED
  BY <1>3, <1>4, <1>5

\* The cells after a field of one is written.
WithRun(cells, a, run) ==
  [cells EXCEPT ![a] = IF cells[a].kind = "header" THEN [cells[a] EXCEPT !.run = run] ELSE Junk]

Marked(cells, a, inner) ==
  [cells EXCEPT ![a] = IF cells[a].kind = "mask" THEN Mask(cells[a].inner \cup inner) ELSE Junk]

\* Writes to the buffer, as changes of its cells.
LEMMA Writing ==
  ASSUME NEW cells, NEW u, NEW lists, NEW masks
  PROVE  /\ \A new : Put(CacheOf(cells, u, lists, masks), new)
                       = CacheOf(Overwrite(cells, new), u, lists, masks)
         /\ \A a, x : [CacheOf(cells, u, lists, masks) EXCEPT !.codecache[a] = x]
                        = CacheOf([cells EXCEPT ![a] = x], u, lists, masks)
         /\ \A a, run : SetRun(CacheOf(cells, u, lists, masks), a, run)
              = CacheOf(WithRun(cells, a, run), u, lists, masks)
         /\ \A a, next : SetNext(CacheOf(cells, u, lists, masks), a, next)
              = CacheOf([cells EXCEPT ![a] = [cells[a] EXCEPT !.next = next]], u, lists, masks)
         /\ \A a, inner : MarkCode(CacheOf(cells, u, lists, masks), a, inner)
              = CacheOf(Marked(cells, a, inner), u, lists, masks)
<1>1. \A new : Put(CacheOf(cells, u, lists, masks), new)
                       = CacheOf(Overwrite(cells, new), u, lists, masks)
  BY DEF Put, CacheOf
<1>2. \A a, x : [CacheOf(cells, u, lists, masks) EXCEPT !.codecache[a] = x]
                        = CacheOf([cells EXCEPT ![a] = x], u, lists, masks)
  BY DEF CacheOf
<1>3. \A a, run : SetRun(CacheOf(cells, u, lists, masks), a, run)
              = CacheOf(WithRun(cells, a, run), u, lists, masks)
  BY DEF SetRun, CacheOf, WithRun
<1>4. \A a, next : SetNext(CacheOf(cells, u, lists, masks), a, next)
              = CacheOf([cells EXCEPT ![a] = [cells[a] EXCEPT !.next = next]], u, lists, masks)
  BY DEF SetNext, CacheOf
<1>5. \A a, inner : MarkCode(CacheOf(cells, u, lists, masks), a, inner)
              = CacheOf(Marked(cells, a, inner), u, lists, masks)
  BY DEF MarkCode, CacheOf, Marked
<1>6. QED
  BY <1>1, <1>2, <1>3, <1>4, <1>5

\* The parts of a cache.
LEMMA Fields ==
  ASSUME NEW cells, NEW u, NEW lists, NEW masks
  PROVE  LET c == CacheOf(cells, u, lists, masks)
         IN  c.codecache = cells /\ c.used = u /\ c.blockcache = lists /\ c.code_mask = masks
  BY DEF CacheOf

\* The state is such a cache.
LEMMA CacheIs == Cache = CacheOf(codecache, used, blockcache, code_mask)
  BY DEF Cache, CacheOf

-----------------------------------------------------------------------------
(***************************************************************************)
(* What is true of the cache between two steps.  facts are the pairs of a  *)
(* word and an instruction that a block may have been compiled from: what  *)
(* memory holds, and anything for a word whose change nobody looked up.    *)
(* owned tells which headers are those of a word.                          *)
(***************************************************************************)
\* The page's mask says that the word was compiled: a write to it will be noticed.
Masked(cells, masks, x) == InnerIndex(x) \in cells[masks[OuterIndex(x)]].inner

Holds(cells, masks, facts, x, i) == <<x, i>> \in facts /\ Masked(cells, masks, x)

\* The code at run was made for these words, this mode and this place.
Compiled(cells, u, masks, facts, w, run, mode) ==
  \E last, code :
    /\ last \in w..(w + PageWords - 1) /\ DOMAIN code = w..last
    /\ run + (last - w) < u
    /\ \A a \in run..(run + (last - w)) : cells[a] = Code(code, mode, a, w + (a - run))
    /\ \A x \in w..last : /\ x \in Words /\ OuterIndex(x) = OuterIndex(w)
                          /\ Holds(cells, masks, facts, x, code[x])

IdlesAt(cells, masks, facts, w) ==
  /\ w + 1 \in Words /\ OuterIndex(w + 1) = OuterIndex(w)
  /\ Holds(cells, masks, facts, w, "b_self")
  /\ Holds(cells, masks, facts, w + 1, "nop")

GoodRun(cells, u, masks, facts, w, run, mode) ==
  \/ run = Null
  \/ run = Idle /\ IdlesAt(cells, masks, facts, w)
  \/ run \in Nat /\ Compiled(cells, u, masks, facts, w, run, mode)

\* A header leads to later ones of the same word, so that no chain comes back.
GoodHeader(cells, u, masks, facts, own, w, a) ==
  \E run, mode, next :
    /\ cells[a] = Header(run, mode, next)
    /\ next = Null \/ (next \in own /\ next > a)
    /\ GoodRun(cells, u, masks, facts, w, run, mode)

GoodHeaders(cells, u, masks, facts, owned) ==
  \A w \in Words : \A a \in owned[w] : GoodHeader(cells, u, masks, facts, owned[w], w, a)

GoodMasks(cells, u, lists, masks) ==
  \A p \in Pages : lists[p] # Null =>
    masks[p] \in 0..(u - 1) /\ \E inner : cells[masks[p]] = Mask(inner)

\* The header in the list is the word's own, and no header is that of two words.
GoodOwners(u, lists, owned) ==
  /\ owned \in [Words -> SUBSET (0..(u - 1))]
  /\ \A w, x \in Words : w # x => owned[w] \cap owned[x] = {}
  /\ \A w \in Words : IF lists[OuterIndex(w)] = Null THEN owned[w] = {}
                      ELSE lists[OuterIndex(w)] + InnerIndex(w) \in owned[w]

Good(cells, u, lists, masks, facts, owned) ==
  /\ GoodHeaders(cells, u, masks, facts, owned)
  /\ GoodMasks(cells, u, lists, masks)
  /\ GoodOwners(u, lists, owned)

\* A run stays good when code is left alone and masks grow.
LEMMA RunStays ==
  ASSUME NEW cells, NEW u \in Nat, NEW masks, NEW facts,
         NEW cells2, NEW u2 \in Nat, NEW masks2, NEW facts2,
         NEW w \in Words, NEW run, NEW mode,
         GoodRun(cells, u, masks, facts, w, run, mode), u <= u2,
         \A a \in 0..(u - 1) : cells[a].kind = "code" => cells2[a] = cells[a],
         \A x, i : x \in Words /\ OuterIndex(x) = OuterIndex(w) /\ Holds(cells, masks, facts, x, i)
                     => Holds(cells2, masks2, facts2, x, i)
  PROVE  GoodRun(cells2, u2, masks2, facts2, w, run, mode)
<1>1. CASE run = Null
  BY <1>1 DEF GoodRun
<1>2. CASE run = Idle /\ IdlesAt(cells, masks, facts, w)
  <2>1. IdlesAt(cells2, masks2, facts2, w)
    BY <1>2 DEF IdlesAt
  <2>2. QED
    BY <1>2, <2>1 DEF GoodRun
<1>3. CASE run \in Nat /\ Compiled(cells, u, masks, facts, w, run, mode)
  <2>1. PICK last, code :
          /\ last \in w..(w + PageWords - 1) /\ DOMAIN code = w..last
          /\ run + (last - w) < u
          /\ \A a \in run..(run + (last - w)) : cells[a] = Code(code, mode, a, w + (a - run))
          /\ \A x \in w..last : /\ x \in Words /\ OuterIndex(x) = OuterIndex(w)
                                /\ Holds(cells, masks, facts, x, code[x])
    BY <1>3 DEF Compiled
  <2>2. w \in Nat /\ last \in Nat /\ w <= last
    BY <2>1, Placed, BlockCacheAssumption
  <2>3. \A a \in run..(run + (last - w)) : cells2[a] = Code(code, mode, a, w + (a - run))
    <3> SUFFICES ASSUME NEW a \in run..(run + (last - w))
                 PROVE  cells2[a] = Code(code, mode, a, w + (a - run))
      OBVIOUS
    <3>1. a \in 0..(u - 1)
      BY <1>3, <2>1, <2>2
    <3>2. cells[a] = Code(code, mode, a, w + (a - run))
      BY <2>1
    <3>3. cells[a].kind = "code"
      BY <3>2 DEF Code
    <3>4. QED
      BY <3>1, <3>2, <3>3
  <2>4. run + (last - w) < u2
    BY <1>3, <2>1, <2>2
  <2>5. \A x \in w..last : /\ x \in Words /\ OuterIndex(x) = OuterIndex(w)
                           /\ Holds(cells2, masks2, facts2, x, code[x])
    BY <2>1
  <2>6. Compiled(cells2, u2, masks2, facts2, w, run, mode)
    BY <2>1, <2>3, <2>4, <2>5 DEF Compiled
  <2>7. QED
    BY <1>3, <2>6 DEF GoodRun
<1>4. QED
  BY <1>1, <1>2, <1>3 DEF GoodRun

\* And so does a header that is left alone itself.
LEMMA HeaderStays ==
  ASSUME NEW cells, NEW u \in Nat, NEW masks, NEW facts, NEW own,
         NEW cells2, NEW u2 \in Nat, NEW masks2, NEW facts2, NEW own2,
         NEW w \in Words, NEW a,
         GoodHeader(cells, u, masks, facts, own, w, a), u <= u2,
         cells2[a] = cells[a], own \subseteq own2,
         \A b \in 0..(u - 1) : cells[b].kind = "code" => cells2[b] = cells[b],
         \A x, i : x \in Words /\ OuterIndex(x) = OuterIndex(w) /\ Holds(cells, masks, facts, x, i)
                     => Holds(cells2, masks2, facts2, x, i)
  PROVE  GoodHeader(cells2, u2, masks2, facts2, own2, w, a)
<1>1. PICK run, mode, next :
        /\ cells[a] = Header(run, mode, next)
        /\ next = Null \/ (next \in own /\ next > a)
        /\ GoodRun(cells, u, masks, facts, w, run, mode)
  BY DEF GoodHeader
<1>2. GoodRun(cells2, u2, masks2, facts2, w, run, mode)
  BY <1>1, RunStays
<1>3. QED
  BY <1>1, <1>2 DEF GoodHeader

\* With no lists there is nothing to say.
NoHeaders == [w \in Words |-> {}]

\* With no lists there is nothing to be wrong.
LEMMA EmptyIsGood ==
  ASSUME NEW cells, NEW u, NEW masks, NEW facts
  PROVE  Good(cells, u, NoList, masks, facts, NoHeaders)
<1>1. \A w \in Words : NoList[OuterIndex(w)] = Null
  BY Placed DEF NoList
<1>2. \A p \in Pages : NoList[p] = Null
  BY DEF NoList
<1>3. GoodOwners(u, NoList, NoHeaders)
  BY <1>1 DEF GoodOwners, NoHeaders
<1>4. QED
  BY <1>2, <1>3 DEF Good, GoodHeaders, GoodMasks, NoHeaders

-----------------------------------------------------------------------------
(***************************************************************************)
(* Finding the page.                                                       *)
(***************************************************************************)
ZeroList(cells, list) == Overwrite(cells, [a \in list..(list + PageWords - 1) |-> Zeroed])

NewList(u)            == Place(u, PageWords)
NewMask(u)            == Place(NewList(u) + PageWords, 1)
NewCells(cells, u)    == [ZeroList(cells, NewList(u)) EXCEPT ![NewMask(u)] = Mask({})]
NewMasks(u, masks, p) == [masks EXCEPT ![p] = NewMask(u)]
WithList(u, lists, p) == [ListsAfter(u, PageWords, lists) EXCEPT ![p] = NewList(u)]
NewLists(u, lists, p) == ListsAfter(NewList(u) + PageWords, 1, WithList(u, lists, p))

\* What making a page leaves.
LEMMA NewPageIs ==
  ASSUME NEW cells, NEW u, NEW lists, NEW masks, NEW p
  PROVE  /\ NewPage(CacheOf(cells, u, lists, masks), p).cache
              = CacheOf(NewCells(cells, u), NewMask(u) + 1, NewLists(u, lists, p), NewMasks(u, masks, p))
         /\ NewPage(CacheOf(cells, u, lists, masks), p).list = NewList(u)
<1> DEFINE list   == NewList(u)
           lists1 == WithList(u, lists, p)
           mask   == NewMask(u)
<1>0. /\ list = Place(u, PageWords) /\ mask = Place(list + PageWords, 1)
      /\ lists1 = [ListsAfter(u, PageWords, lists) EXCEPT ![p] = list]
  BY DEF NewList, NewMask, WithList
<1> HIDE DEF list, lists1, mask
<1> DEFINE c  == CacheOf(cells, u, lists, masks)
           d  == [BumpAlloc(c, PageWords) EXCEPT !.blockcache[p] = BumpPtr(c, PageWords)]
           c1 == Put(d, [a \in BumpPtr(c, PageWords)..(BumpPtr(c, PageWords) + PageWords - 1) |-> Zeroed])
           e  == BumpAlloc(c1, 1)
           m  == BumpPtr(c1, 1)
           c2 == [e EXCEPT !.code_mask[p] = m, !.codecache[m] = Mask({})]
           zero == ZeroList(cells, list)
           after == ListsAfter(list + PageWords, 1, lists1)
<1>1. BumpPtr(c, PageWords) = list
  BY <1>0, Allocation
<1>2. BumpAlloc(c, PageWords) = CacheOf(cells, list + PageWords, ListsAfter(u, PageWords, lists), masks)
  BY <1>0, Allocation
<1>3. d = CacheOf(cells, list + PageWords, lists1, masks)
  <2> DEFINE l == ListsAfter(u, PageWords, lists)
  <2> HIDE DEF l
  <2>1. [CacheOf(cells, list + PageWords, l, masks) EXCEPT !.blockcache[p] = list]
          = CacheOf(cells, list + PageWords, [l EXCEPT ![p] = list], masks)
    BY DEF CacheOf
  <2> HIDE DEF c
  <2>2. QED
    BY <1>0, <1>1, <1>2, <2>1 DEF l
<1>4. c1 = CacheOf(zero, list + PageWords, lists1, masks)
  <2> HIDE DEF c, d
  <2>1. c1 = Put(d, [a \in list..(list + PageWords - 1) |-> Zeroed])
    BY <1>1
  <2>2. \A new : Put(CacheOf(cells, list + PageWords, lists1, masks), new)
                   = CacheOf(Overwrite(cells, new), list + PageWords, lists1, masks)
    BY Writing
  <2>3. QED
    BY <1>3, <2>1, <2>2 DEF ZeroList
<1> HIDE DEF c1, zero
<1>5. m = mask
  BY <1>0, <1>4, Allocation
<1>6. e = CacheOf(zero, mask + 1, after, masks)
  BY <1>0, <1>4, Allocation
<1> HIDE DEF after, e, m
<1>7. c2 = CacheOf([zero EXCEPT ![mask] = Mask({})], mask + 1, after, [masks EXCEPT ![p] = mask])
  <2> DEFINE n == Mask({})
             k == mask + 1
  <2> HIDE DEF n, k
  <2>1. [CacheOf(zero, k, after, masks) EXCEPT !.code_mask[p] = mask, !.codecache[mask] = n]
          = [[CacheOf(zero, k, after, masks) EXCEPT !.code_mask[p] = mask] EXCEPT !.codecache[mask] = n]
    BY DEF CacheOf
  <2>2. [CacheOf(zero, k, after, masks) EXCEPT !.code_mask[p] = mask]
          = CacheOf(zero, k, after, [masks EXCEPT ![p] = mask])
    BY DEF CacheOf
  <2>3. \A masksA : [CacheOf(zero, k, after, masksA) EXCEPT !.codecache[mask] = n]
          = CacheOf([zero EXCEPT ![mask] = n], k, after, masksA)
    BY DEF CacheOf
  <2>4. c2 = [CacheOf(zero, k, after, masks) EXCEPT !.code_mask[p] = mask, !.codecache[mask] = n]
    BY <1>5, <1>6 DEF n, k
  <2>5. QED
    BY <2>1, <2>2, <2>3, <2>4 DEF n, k
<1>8. NewPage(c, p) = [cache |-> c2, list |-> list]
  BY <1>1 DEF NewPage, c1, e, m
<1>9. QED
  <2>1. NewPage(c, p).cache = c2 /\ NewPage(c, p).list = list
    BY <1>8
  <2>2. c2 = CacheOf(NewCells(cells, u), NewMask(u) + 1, NewLists(u, lists, p), NewMasks(u, masks, p))
    BY <1>7 DEF NewCells, NewLists, NewMasks, zero, after, list, lists1, mask
  <2>3. QED
    BY <2>1, <2>2 DEF list

-----------------------------------------------------------------------------
(***************************************************************************)
(* What keeps the cache good.                                              *)
(***************************************************************************)

\* What is beyond the part in use may be anything.
LEMMA BeyondUse ==
  ASSUME NEW cells, NEW u \in Nat, NEW lists, NEW masks, NEW facts, NEW owned,
         NEW cells2, NEW u2 \in Nat, u <= u2,
         Good(cells, u, lists, masks, facts, owned),
         \A a \in 0..(u - 1) : cells2[a] = cells[a]
  PROVE  Good(cells2, u2, lists, masks, facts, owned)
<1>1. owned \in [Words -> SUBSET (0..(u - 1))]
  BY DEF Good, GoodOwners
<1>2. GoodMasks(cells2, u2, lists, masks)
  BY DEF Good, GoodMasks
<1>3. GoodOwners(u2, lists, owned)
  BY <1>1 DEF Good, GoodOwners
<1>4. ASSUME NEW w \in Words, NEW a \in owned[w]
      PROVE  GoodHeader(cells2, u2, masks, facts, owned[w], w, a)
  <2>1. lists[OuterIndex(w)] # Null /\ OuterIndex(w) \in Pages
    BY <1>4, Placed DEF Good, GoodOwners
  <2>2. masks[OuterIndex(w)] \in 0..(u - 1)
    BY <2>1 DEF Good, GoodMasks
  <2>3. \A x, i : x \in Words /\ OuterIndex(x) = OuterIndex(w) /\ Holds(cells, masks, facts, x, i)
                    => Holds(cells2, masks, facts, x, i)
    BY <2>2 DEF Holds, Masked
  <2>4. GoodHeader(cells, u, masks, facts, owned[w], w, a) /\ cells2[a] = cells[a]
    BY <1>1 DEF Good, GoodHeaders
  <2>5. QED
    BY <2>3, <2>4, HeaderStays
<1>5. QED
  BY <1>2, <1>3, <1>4 DEF Good, GoodHeaders

\* What is at the cell of a header and of a mask.
LEMMA Kinds ==
  ASSUME NEW cells, NEW u, NEW lists, NEW masks, NEW facts, NEW owned,
         Good(cells, u, lists, masks, facts, owned)
  PROVE  /\ \A w \in Words : \A a \in owned[w] : cells[a].kind = "header"
         /\ \A p \in Pages : lists[p] # Null => cells[masks[p]].kind = "mask"
<1>1. \A run, mode, next : Header(run, mode, next).kind = "header"
  BY DEF Header
<1>2. \A inner : Mask(inner).kind = "mask"
  BY DEF Mask
<1>3. ASSUME NEW w \in Words, NEW a \in owned[w] PROVE cells[a].kind = "header"
  <2>1. GoodHeader(cells, u, masks, facts, owned[w], w, a)
    BY DEF Good, GoodHeaders
  <2>2. PICK run, mode, next : cells[a] = Header(run, mode, next)
    BY <2>1 DEF GoodHeader
  <2>3. QED
    BY <1>1, <2>2
<1>4. ASSUME NEW p \in Pages, lists[p] # Null PROVE cells[masks[p]].kind = "mask"
  <2>1. PICK inner : cells[masks[p]] = Mask(inner)
    BY <1>4 DEF Good, GoodMasks
  <2>2. QED
    BY <1>2, <2>1
<1>5. QED
  BY <1>3, <1>4

\* A header may be written.
LEMMA HeaderWritten ==
  ASSUME NEW cells, IsBuffer(cells), NEW u \in 0..CodecacheSize, NEW lists, NEW masks,
         NEW facts, NEW owned, Good(cells, u, lists, masks, facts, owned),
         NEW w \in Words, NEW a \in owned[w], NEW run, NEW mode, NEW next,
         next = Null \/ (next \in owned[w] /\ next > a),
         GoodRun(cells, u, masks, facts, w, run, mode)
  PROVE  LET cells2 == [cells EXCEPT ![a] = Header(run, mode, next)]
         IN  /\ Good(cells2, u, lists, masks, facts, owned)
             /\ \A r, m : GoodRun(cells, u, masks, facts, w, r, m)
                             => GoodRun(cells2, u, masks, facts, w, r, m)
<1> DEFINE cells2 == [cells EXCEPT ![a] = Header(run, mode, next)]
<1>1. owned \in [Words -> SUBSET (0..(u - 1))] /\ u \in Nat /\ 0..(u - 1) \subseteq Cells
  BY BlockCacheAssumption DEF Good, GoodOwners, Cells
<1>2. cells[a].kind = "header" /\ \A p \in Pages : lists[p] # Null => cells[masks[p]].kind = "mask"
  BY Kinds
<1>3. cells2[a] = Header(run, mode, next) /\ \A b \in 0..(u - 1) : b # a => cells2[b] = cells[b]
  BY <1>1, BufferCells
<1> HIDE DEF cells2
<1>4. \A b \in 0..(u - 1) : cells[b].kind \in {"code", "mask"} => cells2[b] = cells[b]
  BY <1>2, <1>3
<1>5. GoodMasks(cells2, u, lists, masks)
  BY <1>2, <1>4 DEF Good, GoodMasks
<1>6. ASSUME NEW x \in Words, NEW b \in owned[x], NEW y \in Words, NEW i,
             OuterIndex(y) = OuterIndex(x), Holds(cells, masks, facts, y, i)
      PROVE  Holds(cells2, masks, facts, y, i)
  <2>1. lists[OuterIndex(x)] # Null /\ OuterIndex(x) \in Pages
    BY <1>6, Placed DEF Good, GoodOwners
  <2>2. masks[OuterIndex(x)] \in 0..(u - 1) /\ cells[masks[OuterIndex(x)]].kind = "mask"
    BY <1>2, <2>1 DEF Good, GoodMasks
  <2>3. cells2[masks[OuterIndex(x)]] = cells[masks[OuterIndex(x)]]
    BY <1>4, <2>2
  <2>4. QED
    BY <1>6, <2>3 DEF Holds, Masked
<1>7. ASSUME NEW r, NEW m, GoodRun(cells, u, masks, facts, w, r, m)
      PROVE  GoodRun(cells2, u, masks, facts, w, r, m)
  BY <1>1, <1>4, <1>6, <1>7, RunStays
<1>8. ASSUME NEW x \in Words, NEW b \in owned[x]
      PROVE  GoodHeader(cells2, u, masks, facts, owned[x], x, b)
  <2>1. CASE b = a
    <3>1. x = w
      BY <1>8, <2>1 DEF Good, GoodOwners
    <3>2. QED
      BY <1>3, <1>7, <2>1, <3>1 DEF GoodHeader
  <2>2. CASE b # a
    <3>1. GoodHeader(cells, u, masks, facts, owned[x], x, b) /\ cells2[b] = cells[b]
      BY <1>1, <1>3, <2>2 DEF Good, GoodHeaders
    <3>2. QED
      BY <1>1, <1>4, <1>6, <3>1, HeaderStays
  <2>3. QED
    BY <2>1, <2>2
<1>9. Good(cells2, u, lists, masks, facts, owned)
  BY <1>5, <1>8 DEF Good, GoodHeaders
<1>10. QED
  BY <1>7, <1>9 DEF cells2

\* A header may be allocated for a word.
LEMMA HeaderAllocated ==
  ASSUME NEW cells, IsBuffer(cells), NEW u \in 0..(CodecacheSize - 1), NEW lists, NEW masks,
         NEW facts, NEW owned, Good(cells, u, lists, masks, facts, owned),
         NEW w \in Words, lists[OuterIndex(w)] # Null
  PROVE  Good([cells EXCEPT ![u] = Zeroed], u + 1, lists, masks, facts,
              [owned EXCEPT ![w] = @ \cup {u}])
<1> DEFINE cells2 == [cells EXCEPT ![u] = Zeroed]
           owned2 == [owned EXCEPT ![w] = @ \cup {u}]
<1>1. owned \in [Words -> SUBSET (0..(u - 1))] /\ u \in Nat /\ u \in Cells
  BY DEF Good, GoodOwners, Cells
<1>2. cells2[u] = Zeroed /\ \A a \in 0..(u - 1) : cells2[a] = cells[a]
  <2>1. \A a \in 0..(u - 1) : a \in Cells /\ a # u
    BY <1>1, BlockCacheAssumption DEF Cells
  <2>2. QED
    BY <1>1, <2>1, BufferCells
<1> HIDE DEF cells2
<1>3. Good(cells2, u + 1, lists, masks, facts, owned)
  BY <1>1, <1>2, BeyondUse
<1>4. owned2[w] = owned[w] \cup {u} /\ \A x \in Words : x # w => owned2[x] = owned[x]
  BY <1>1
<1>5. owned2 \in [Words -> SUBSET (0..u)]
  BY <1>1
<1> HIDE DEF owned2
<1>6. GoodOwners(u + 1, lists, owned2)
  <2>1. \A x, y \in Words : x # y => owned2[x] \cap owned2[y] = {}
    BY <1>1, <1>3, <1>4 DEF Good, GoodOwners
  <2>2. \A x \in Words : IF lists[OuterIndex(x)] = Null THEN owned2[x] = {}
                         ELSE lists[OuterIndex(x)] + InnerIndex(x) \in owned2[x]
    BY <1>3, <1>4 DEF Good, GoodOwners
  <2>3. (u + 1) - 1 = u
    BY <1>1
  <2>4. QED
    BY <1>5, <2>1, <2>2, <2>3 DEF GoodOwners
<1>7. ASSUME NEW x \in Words, NEW b \in owned2[x]
      PROVE  GoodHeader(cells2, u + 1, masks, facts, owned2[x], x, b)
  <2>1. owned[x] \subseteq owned2[x]
    BY <1>4
  <2>2. CASE b \in owned[x]
    BY <1>3, <2>1, <2>2 DEF Good, GoodHeaders, GoodHeader
  <2>3. CASE b = u
    BY <1>2, <2>3 DEF GoodHeader, GoodRun, Zeroed
  <2>4. QED
    BY <1>4, <2>2, <2>3
<1>8. Good(cells2, u + 1, lists, masks, facts, owned2)
  BY <1>3, <1>6, <1>7 DEF Good, GoodHeaders
<1>9. QED
  BY <1>8 DEF cells2, owned2

\* A mask may grow.
LEMMA MaskGrown ==
  ASSUME NEW cells, IsBuffer(cells), NEW u \in 0..CodecacheSize, NEW lists, NEW masks,
         NEW facts, NEW owned, Good(cells, u, lists, masks, facts, owned),
         NEW p \in Pages, lists[p] # Null, NEW more
  PROVE  LET cells2 == Marked(cells, masks[p], more)
         IN  /\ Good(cells2, u, lists, masks, facts, owned)
             /\ cells[masks[p]].kind = "mask"
             /\ \A x \in Words : OuterIndex(x) = p /\ InnerIndex(x) \in more => Masked(cells2, masks, x)
             /\ \A a \in 0..(u - 1) : cells[a].kind # "mask" => cells2[a] = cells[a]
<1> DEFINE m == masks[p]
           cells2 == Marked(cells, m, more)
<1>1. PICK inner : m \in 0..(u - 1) /\ cells[m] = Mask(inner)
  BY DEF Good, GoodMasks
<1>2. u \in Nat /\ 0..(u - 1) \subseteq Cells /\ owned \in [Words -> SUBSET (0..(u - 1))]
  BY BlockCacheAssumption DEF Cells, Good, GoodOwners
<1>3. cells[m].kind = "mask" /\ cells[m].inner = inner
  BY <1>1 DEF Mask
<1>4. /\ cells2[m] = Mask(inner \cup more)
      /\ \A b \in 0..(u - 1) : b # m => cells2[b] = cells[b]
  <2>1. cells2 = [cells EXCEPT ![m] = Mask(inner \cup more)]
    BY <1>3 DEF Marked
  <2>2. m \in Cells
    BY <1>1, <1>2
  <2> HIDE DEF cells2
  <2>3. QED
    BY <1>2, <2>1, <2>2, BufferCells
<1> HIDE DEF cells2, m
<1>5. \A b \in 0..(u - 1) : cells[b].kind # "mask" => cells2[b] = cells[b]
  BY <1>3, <1>4
<1>6. GoodMasks(cells2, u, lists, masks)
  BY <1>4 DEF Good, GoodMasks
<1>7. \A x, i : x \in Words /\ lists[OuterIndex(x)] # Null /\ Holds(cells, masks, facts, x, i)
                  => Holds(cells2, masks, facts, x, i)
  <2> SUFFICES ASSUME NEW x \in Words, lists[OuterIndex(x)] # Null, Masked(cells, masks, x)
               PROVE  Masked(cells2, masks, x)
    BY DEF Holds
  <2>1. masks[OuterIndex(x)] \in 0..(u - 1)
    BY Placed DEF Good, GoodMasks
  <2>2. CASE masks[OuterIndex(x)] = m
    BY <1>3, <1>4, <2>2 DEF Masked, Mask
  <2>3. CASE masks[OuterIndex(x)] # m
    BY <1>4, <2>1, <2>3 DEF Masked
  <2>4. QED
    BY <2>2, <2>3
<1>8. ASSUME NEW x \in Words, NEW b \in owned[x]
      PROVE  GoodHeader(cells2, u, masks, facts, owned[x], x, b)
  <2>1. lists[OuterIndex(x)] # Null
    BY <1>8 DEF Good, GoodOwners
  <2>2. \A y, i : y \in Words /\ OuterIndex(y) = OuterIndex(x) /\ Holds(cells, masks, facts, y, i)
                    => Holds(cells2, masks, facts, y, i)
    BY <1>7, <2>1
  <2>3. GoodHeader(cells, u, masks, facts, owned[x], x, b)
    BY DEF Good, GoodHeaders
  <2>4. cells[b].kind = "header" /\ b \in 0..(u - 1)
    BY <1>2, <2>3 DEF GoodHeader, Header
  <2>5. cells2[b] = cells[b] /\ \A a \in 0..(u - 1) : cells[a].kind = "code" => cells2[a] = cells[a]
    BY <1>5, <2>4
  <2>6. QED
    BY <1>2, <2>2, <2>3, <2>5, HeaderStays
<1>9. Good(cells2, u, lists, masks, facts, owned)
  BY <1>6, <1>8 DEF Good, GoodHeaders
<1>10. \A x \in Words : OuterIndex(x) = p /\ InnerIndex(x) \in more => Masked(cells2, masks, x)
  BY <1>4 DEF Masked, Mask, m
<1>11. QED
  BY <1>3, <1>5, <1>9, <1>10 DEF cells2, m

\* Lists may go, and what is known of memory matters only where there is a list.
LEMMA ListsGo ==
  ASSUME NEW cells, NEW u \in Nat, NEW lists, NEW masks, NEW facts, NEW owned,
         Good(cells, u, lists, masks, facts, owned), NEW lists2, NEW masks2, NEW facts2,
         \A p \in Pages : lists2[p] # Null => lists2[p] = lists[p] /\ masks2[p] = masks[p],
         \A x \in Words : \A i : lists2[OuterIndex(x)] # Null /\ Holds(cells, masks, facts, x, i)
                                   => <<x, i>> \in facts2
  PROVE  Good(cells, u, lists2, masks2, facts2,
              [w \in Words |-> IF lists2[OuterIndex(w)] = Null THEN {} ELSE owned[w]])
<1> DEFINE owned2 == [w \in Words |-> IF lists2[OuterIndex(w)] = Null THEN {} ELSE owned[w]]
<1>1. owned \in [Words -> SUBSET (0..(u - 1))] /\ \A w \in Words : OuterIndex(w) \in Pages
  BY Placed DEF Good, GoodOwners
<1>2. GoodMasks(cells, u, lists2, masks2)
  BY DEF Good, GoodMasks
<1>3. GoodOwners(u, lists2, owned2)
  <2>1. owned2 \in [Words -> SUBSET (0..(u - 1))]
    BY <1>1
  <2>2. \A x, y \in Words : x # y => owned2[x] \cap owned2[y] = {}
    BY DEF Good, GoodOwners
  <2>3. \A x \in Words : IF lists2[OuterIndex(x)] = Null THEN owned2[x] = {}
                         ELSE lists2[OuterIndex(x)] + InnerIndex(x) \in owned2[x]
    BY <1>1 DEF Good, GoodOwners
  <2> HIDE DEF owned2
  <2>4. QED
    BY <2>1, <2>2, <2>3 DEF GoodOwners
<1>4. ASSUME NEW x \in Words, NEW b \in owned2[x]
      PROVE  GoodHeader(cells, u, masks2, facts2, owned2[x], x, b)
  <2>1. lists2[OuterIndex(x)] # Null /\ owned2[x] = owned[x]
    BY <1>4
  <2>2. masks2[OuterIndex(x)] = masks[OuterIndex(x)]
    BY <1>1, <2>1
  <2>3. \A y, i : y \in Words /\ OuterIndex(y) = OuterIndex(x) /\ Holds(cells, masks, facts, y, i)
                    => Holds(cells, masks2, facts2, y, i)
    BY <2>1, <2>2 DEF Holds, Masked
  <2>4. GoodHeader(cells, u, masks, facts, owned[x], x, b)
    BY <1>4, <2>1 DEF Good, GoodHeaders
  <2> HIDE DEF owned2
  <2>5. QED
    BY <2>1, <2>3, <2>4, HeaderStays
<1> HIDE DEF owned2
<1>5. Good(cells, u, lists2, masks2, facts2, owned2)
  BY <1>2, <1>3, <1>4 DEF Good, GoodHeaders
<1>6. QED
  BY <1>5 DEF owned2

-----------------------------------------------------------------------------
(***************************************************************************)
(* The page and the block of a word.                                       *)
(***************************************************************************)
LEMMA RoomMade ==
  ASSUME NEW cells, NEW u \in Nat, NEW lists, NEW masks, NEW facts, NEW owned,
         Good(cells, u, lists, masks, facts, owned),
         NEW size \in Nat, size < CodecacheSize
  PROVE  /\ Place(u, size) \in Nat /\ Place(u, size) + size < CodecacheSize
         /\ Flushes(u, size) => Place(u, size) = 0 /\ ListsAfter(u, size, lists) = NoList
         /\ ~ Flushes(u, size) => Place(u, size) = u /\ ListsAfter(u, size, lists) = lists
         /\ \E owned2 : Good(cells, Place(u, size), ListsAfter(u, size, lists), masks, facts, owned2)
<1>1. CASE Flushes(u, size)
  BY <1>1, EmptyIsGood, BlockCacheAssumption DEF Place, ListsAfter
<1>2. CASE ~ Flushes(u, size)
  <2>1. u + size < CodecacheSize
    BY <1>2, BlockCacheAssumption DEF Flushes
  <2>2. QED
    BY <1>2, <2>1 DEF Place, ListsAfter
<1>3. QED
  BY <1>1, <1>2

\* A page that fits has an owner for each header of its list, and an empty mask.
LEMMA NewPageIsGood ==
  ASSUME NEW cells, IsBuffer(cells), NEW u \in Nat, NEW lists, NEW masks, NEW facts, NEW owned,
         DOMAIN lists = Pages, DOMAIN masks = Pages,
         Good(cells, u, lists, masks, facts, owned),
         NEW p \in Pages, lists[p] = Null, u + PageWords + 1 < CodecacheSize
  PROVE  \E owned2 :
           Good([ZeroList(cells, u) EXCEPT ![u + PageWords] = Mask({})], u + PageWords + 1,
                [lists EXCEPT ![p] = u], [masks EXCEPT ![p] = u + PageWords], facts, owned2)
<1> DEFINE n == PageWords
           zero == ZeroList(cells, u)
           m == u + n
           cells2 == [zero EXCEPT ![m] = Mask({})]
           lists2 == [lists EXCEPT ![p] = u]
           masks2 == [masks EXCEPT ![p] = m]
           owned2 == [x \in Words |-> IF OuterIndex(x) = p THEN {u + InnerIndex(x)} ELSE owned[x]]
<1>1. n \in Nat \ {0} /\ CodecacheSize \in Nat /\ owned \in [Words -> SUBSET (0..(u - 1))]
  BY BlockCacheAssumption DEF Good, GoodOwners
<1>2. \A x \in Words : OuterIndex(x) \in Pages /\ InnerIndex(x) \in 0..(n - 1)
  BY Placed
<1>3. /\ \A a \in 0..(u - 1) : cells2[a] = cells[a]
      /\ \A a \in u..(u + n - 1) : cells2[a] = Zeroed
      /\ cells2[m] = Mask({})
  <2> DEFINE new == [a \in u..(u + n - 1) |-> Zeroed]
  <2>1. /\ IsBuffer(zero)
        /\ \A a \in Cells : zero[a] = IF a \in DOMAIN new THEN new[a] ELSE cells[a]
    BY OverwrittenCells DEF ZeroList
  <2>2. DOMAIN new = u..(u + n - 1) /\ \A a \in u..(u + n - 1) : new[a] = Zeroed
    OBVIOUS
  <2> HIDE DEF new, n, zero
  <2>3. m \in Cells /\ 0..(u - 1) \subseteq Cells /\ u..(u + n - 1) \subseteq Cells
    BY <1>1 DEF Cells, n
  <2>4. cells2[m] = Mask({}) /\ \A a \in Cells : a # m => cells2[a] = zero[a]
    BY <2>1, <2>3, BufferCells
  <2>5. /\ \A a \in 0..(u - 1) : a # m /\ a \notin u..(u + n - 1)
        /\ \A a \in u..(u + n - 1) : a # m
    BY <1>1
  <2> HIDE DEF cells2, m
  <2>6. \A a \in 0..(u - 1) : cells2[a] = cells[a]
    BY <2>1, <2>2, <2>3, <2>4, <2>5
  <2>7. \A a \in u..(u + n - 1) : cells2[a] = Zeroed
    BY <2>1, <2>2, <2>3, <2>4, <2>5
  <2>8. QED
    BY <2>4, <2>6, <2>7
<1> HIDE DEF cells2
<1>4. Good(cells2, m + 1, lists, masks, facts, owned)
  BY <1>1, <1>3, BeyondUse
<1>5. /\ \A q \in Pages : q # p => lists2[q] = lists[q] /\ masks2[q] = masks[q]
      /\ lists2[p] = u /\ masks2[p] = m
  OBVIOUS
<1>6. u # Null /\ m \in 0..m /\ (m + 1) - 1 = m /\ \A a \in 0..(u - 1) : a \in 0..m
  BY <1>1 DEF Null
<1> HIDE DEF lists2, masks2
<1>7. GoodMasks(cells2, m + 1, lists2, masks2)
  <2> SUFFICES ASSUME NEW q \in Pages, lists2[q] # Null
               PROVE  masks2[q] \in 0..m /\ \E inner : cells2[masks2[q]] = Mask(inner)
    BY <1>6 DEF GoodMasks
  <2>1. CASE q = p
    BY <1>3, <1>5, <1>6, <2>1
  <2>2. CASE q # p
    BY <1>4, <1>5, <1>6, <2>2 DEF Good, GoodMasks
  <2>3. QED
    BY <2>1, <2>2
<1>8. /\ \A x \in Words : OuterIndex(x) = p => owned2[x] = {u + InnerIndex(x)}
      /\ \A x \in Words : OuterIndex(x) # p => owned2[x] = owned[x]
  OBVIOUS
<1>9. \A x \in Words : u + InnerIndex(x) \in u..(u + n - 1)
  BY <1>1, <1>2
<1>10. owned2 \in [Words -> SUBSET (0..m)]
  <2>1. \A x \in Words : owned2[x] \subseteq 0..m
    <3>1. u..(u + n - 1) \subseteq 0..m
      BY <1>1
    <3> HIDE DEF owned2
    <3>2. QED
      BY <1>1, <1>6, <1>8, <1>9, <3>1
  <2>2. owned2 = [x \in Words |-> owned2[x]]
    OBVIOUS
  <2> HIDE DEF owned2
  <2>3. QED
    BY <2>1, <2>2
<1> HIDE DEF owned2
<1>11. ASSUME NEW x \in Words, NEW y \in Words, x # y PROVE owned2[x] \cap owned2[y] = {}
  <2>1. CASE OuterIndex(x) = p /\ OuterIndex(y) = p
    <3>1. InnerIndex(x) # InnerIndex(y)
      BY <1>11, <2>1, SamePlace
    <3>2. u + InnerIndex(x) # u + InnerIndex(y)
      BY <1>1, <1>2, <3>1
    <3>3. QED
      BY <1>8, <2>1, <3>2
  <2>2. CASE OuterIndex(x) # p /\ OuterIndex(y) # p
    BY <1>4, <1>8, <1>11, <2>2 DEF Good, GoodOwners
  <2>3. \A a \in u..(u + n - 1) : a \notin 0..(u - 1)
    BY <1>1
  <2>4. CASE (OuterIndex(x) = p) # (OuterIndex(y) = p)
    BY <1>1, <1>8, <1>9, <2>3, <2>4
  <2>5. QED
    BY <2>1, <2>2, <2>4
<1>12. ASSUME NEW x \in Words
       PROVE  IF lists2[OuterIndex(x)] = Null THEN owned2[x] = {}
              ELSE lists2[OuterIndex(x)] + InnerIndex(x) \in owned2[x]
  <2>1. CASE OuterIndex(x) = p
    BY <1>5, <1>6, <1>8, <2>1
  <2>2. CASE OuterIndex(x) # p
    BY <1>2, <1>4, <1>5, <1>8, <2>2 DEF Good, GoodOwners
  <2>3. QED
    BY <2>1, <2>2
<1>13. GoodOwners(m + 1, lists2, owned2)
  BY <1>6, <1>10, <1>11, <1>12 DEF GoodOwners
<1>14. ASSUME NEW x \in Words, NEW a \in owned2[x]
       PROVE  GoodHeader(cells2, m + 1, masks2, facts, owned2[x], x, a)
  <2>1. CASE OuterIndex(x) = p
    <3>1. cells2[a] = Zeroed
      BY <1>3, <1>8, <1>9, <1>14, <2>1
    <3>2. QED
      BY <3>1 DEF GoodHeader, GoodRun, Zeroed
  <2>2. CASE OuterIndex(x) # p
    <3>1. masks2[OuterIndex(x)] = masks[OuterIndex(x)]
      BY <1>2, <1>5, <2>2
    <3>2. \A y, i : y \in Words /\ OuterIndex(y) = OuterIndex(x) /\ Holds(cells2, masks, facts, y, i)
                      => Holds(cells2, masks2, facts, y, i)
      BY <3>1 DEF Holds, Masked
    <3>3. GoodHeader(cells2, m + 1, masks, facts, owned[x], x, a) /\ owned2[x] = owned[x]
      BY <1>4, <1>8, <1>14, <2>2 DEF Good, GoodHeaders
    <3>4. m + 1 \in Nat /\ m + 1 <= m + 1
      BY <1>1
    <3> HIDE DEF m
    <3>5. QED
      BY <3>2, <3>3, <3>4, HeaderStays
  <2>3. QED
    BY <2>1, <2>2
<1>15. Good(cells2, m + 1, lists2, masks2, facts, owned2)
  BY <1>7, <1>13, <1>14 DEF Good, GoodHeaders
<1>16. QED
  BY <1>15 DEF cells2, lists2, masks2

\* The page of a word is found or made; it may be gone again at once.
LEMMA PageFound ==
  ASSUME NEW cells, NEW u, NEW lists, NEW masks, NEW facts, NEW owned,
         IsCache(cells, u, lists, masks), Good(cells, u, lists, masks, facts, owned),
         NEW w \in Words
  PROVE  LET p == OuterIndex(w)
             c == CacheOf(cells, u, lists, masks)
             page == IF lists[p] = Null THEN NewPage(c, p) ELSE [cache |-> c, list |-> lists[p]]
         IN  \E cells2, u2, lists2, masks2, owned2 :
               /\ page.cache = CacheOf(cells2, u2, lists2, masks2)
               /\ IsCache(cells2, u2, lists2, masks2)
               /\ Good(cells2, u2, lists2, masks2, facts, owned2)
               /\ \/ lists2[p] # Null /\ page.list = lists2[p]
                  \/ lists2 = NoList /\ cells2[page.list + InnerIndex(w)].run = Null
<1> DEFINE p == OuterIndex(w)
           c == CacheOf(cells, u, lists, masks)
           n == PageWords
<1>1. p \in Pages /\ InnerIndex(w) \in 0..(n - 1) /\ n \in Nat \ {0} /\ CodecacheSize \in Nat
      /\ n + 1 < CodecacheSize
  BY Placed, BlockCacheAssumption
<1>2. /\ IsBuffer(cells) /\ u \in 0..CodecacheSize
      /\ lists \in [Pages -> Null..(CodecacheSize - 1)]
      /\ masks \in [Pages -> Null..(CodecacheSize - 1)]
  BY DEF IsCache
<1>3. CASE lists[p] # Null
  <2>1. [cache |-> c, list |-> lists[p]].cache = c /\ [cache |-> c, list |-> lists[p]].list = lists[p]
    OBVIOUS
  <2> HIDE DEF c
  <2>2. QED
    BY <1>3, <2>1 DEF c
<1>4. CASE lists[p] = Null
  <2> DEFINE list   == NewList(u)
             listsA == ListsAfter(u, n, lists)
             lists1 == WithList(u, lists, p)
             mask   == NewMask(u)
             lists2 == NewLists(u, lists, p)
             cells2 == NewCells(cells, u)
             masks2 == NewMasks(u, masks, p)
  <2>1. /\ NewPage(c, p).cache = CacheOf(cells2, mask + 1, lists2, masks2)
        /\ NewPage(c, p).list = list
    BY NewPageIs
  <2>0. /\ list = Place(u, n) /\ mask = Place(list + n, 1)
        /\ lists1 = [listsA EXCEPT ![p] = list]
        /\ lists2 = ListsAfter(list + n, 1, lists1)
        /\ cells2 = [ZeroList(cells, list) EXCEPT ![mask] = Mask({})]
        /\ masks2 = [masks EXCEPT ![p] = mask]
    BY DEF NewList, NewMask, WithList, NewLists, NewCells, NewMasks
  <2> HIDE DEF list, lists1, mask, lists2, cells2, masks2
  <2>2. /\ list \in Nat /\ list + n < CodecacheSize
        /\ Flushes(u, n) => list = 0 /\ listsA = NoList
        /\ ~ Flushes(u, n) => list = u /\ listsA = lists
        /\ \E owned1 : Good(cells, list, listsA, masks, facts, owned1)
    BY <1>1, <1>2, <2>0, RoomMade
  <2>3. listsA \in [Pages -> Null..(CodecacheSize - 1)] /\ listsA[p] = Null
    <3>1. NoList \in [Pages -> Null..(CodecacheSize - 1)] /\ NoList[p] = Null
      BY <1>1 DEF NoList, Null
    <3>2. QED
      BY <1>2, <1>4, <2>2, <3>1
  <2>4. lists1 \in [Pages -> Null..(CodecacheSize - 1)] /\ lists1[p] = list
    <3>1. list \in Null..(CodecacheSize - 1)
      BY <1>1, <2>2 DEF Null
    <3>2. QED
      BY <1>1, <2>0, <2>3, <3>1
  <2>5. IsBuffer(cells2)
    <3>1. IsBuffer(ZeroList(cells, list))
      BY <1>2, OverwrittenCells DEF ZeroList
    <3>2. QED
      BY <2>0, <3>1, BufferCells
  <2> HIDE DEF listsA
  <2>6. CASE Flushes(list + n, 1)
    <3>1. mask = 0 /\ lists2 = NoList
      BY <2>0, <2>6 DEF Place, ListsAfter
    <3>2. masks2 \in [Pages -> Null..(CodecacheSize - 1)]
      <4>1. 0 \in Null..(CodecacheSize - 1)
        BY <1>1 DEF Null
      <4>2. QED
        BY <1>1, <1>2, <2>0, <3>1, <4>1
    <3>3. NoList \in [Pages -> Null..(CodecacheSize - 1)] /\ mask + 1 \in 0..CodecacheSize
      BY <1>1, <3>1 DEF NoList, Null
    <3>4. cells2[list + InnerIndex(w)].run = Null
      <4>1. list # 0
        BY <1>1, <2>2, <2>6 DEF Flushes
      <4>2. list + InnerIndex(w) \in Cells /\ list + InnerIndex(w) # 0
            /\ list + InnerIndex(w) \in list..(list + n - 1)
        BY <1>1, <2>2, <4>1 DEF Cells
      <4> DEFINE new == [a \in list..(list + n - 1) |-> Zeroed]
                 a0 == list + InnerIndex(w)
      <4>3. /\ IsBuffer(ZeroList(cells, list))
            /\ \A a \in Cells : ZeroList(cells, list)[a] = IF a \in DOMAIN new THEN new[a] ELSE cells[a]
        BY <1>2, OverwrittenCells DEF ZeroList
      <4>4. DOMAIN new = list..(list + n - 1) /\ \A a \in list..(list + n - 1) : new[a] = Zeroed
        OBVIOUS
      <4> HIDE DEF new, a0
      <4>5. ZeroList(cells, list)[a0] = Zeroed
        BY <4>2, <4>3, <4>4 DEF a0
      <4>6. cells2[a0] = Zeroed
        <5>1. \A a, x, b : b \in Cells /\ b # a
                => [ZeroList(cells, list) EXCEPT ![a] = x][b] = ZeroList(cells, list)[b]
          BY <4>3, BufferCells
        <5>2. QED
          BY <2>0, <3>1, <4>2, <4>5, <5>1 DEF a0
      <4>7. Zeroed.run = Null
        BY DEF Zeroed, Header
      <4>8. QED
        BY <4>6, <4>7 DEF a0
    <3>5. Good(cells2, mask + 1, lists2, masks2, facts, NoHeaders)
      BY <3>1, EmptyIsGood
    <3>6. IsCache(cells2, mask + 1, lists2, masks2)
      BY <2>5, <3>1, <3>2, <3>3 DEF IsCache
    <3>7. NewPage(c, p).cache = CacheOf(cells2, mask + 1, lists2, masks2) /\ NewPage(c, p).list = list
      BY <2>1
    <3> HIDE DEF c, mask, lists2, masks2
    <3>8. QED
      BY <1>4, <3>1, <3>4, <3>5, <3>6, <3>7 DEF c
  <2>7. CASE ~ Flushes(list + n, 1)
    <3>1. mask = list + n /\ lists2 = lists1 /\ list + n + 1 < CodecacheSize
      BY <1>1, <2>0, <2>2, <2>7 DEF Place, ListsAfter, Flushes
    <3>2. mask \in Null..(CodecacheSize - 1) /\ mask + 1 \in 0..CodecacheSize
      BY <1>1, <2>2, <3>1 DEF Null
    <3>3. masks2 \in [Pages -> Null..(CodecacheSize - 1)]
      BY <1>1, <1>2, <2>0, <3>2
    <3>4. IsCache(cells2, mask + 1, lists2, masks2)
      BY <2>4, <2>5, <3>1, <3>2, <3>3 DEF IsCache
    <3>5. \E owned2 : Good(cells2, mask + 1, lists2, masks2, facts, owned2)
      <4>1. DOMAIN listsA = Pages /\ DOMAIN masks = Pages
        BY <1>2, <2>3
      <4>2. \E owned2 : Good([ZeroList(cells, list) EXCEPT ![list + n] = Mask({})], list + n + 1,
                [listsA EXCEPT ![p] = list], [masks EXCEPT ![p] = list + n], facts, owned2)
        BY <1>1, <1>2, <2>2, <2>3, <3>1, <4>1, NewPageIsGood
      <4>3. QED
        BY <2>0, <3>1, <4>2
    <3>6. lists2[p] = list /\ list # Null
      BY <2>2, <2>4, <3>1 DEF Null
    <3>7. NewPage(c, p).cache = CacheOf(cells2, mask + 1, lists2, masks2) /\ NewPage(c, p).list = list
      BY <2>1
    <3> HIDE DEF c, mask, lists2, masks2
    <3>8. QED
      BY <1>4, <3>4, <3>5, <3>6, <3>7 DEF c
  <2>8. QED
    BY <2>6, <2>7
<1>5. QED
  BY <1>3, <1>4

\* The headers of a word are in a list that ends.
LEMMA ChainIsOwned ==
  ASSUME NEW c, NEW u \in 0..CodecacheSize, NEW own, own \subseteq 0..(u - 1), NEW head \in own,
         \A a \in own : c.codecache[a].next = Null
                        \/ (c.codecache[a].next \in own /\ c.codecache[a].next > a)
  PROVE  /\ head \in Chain(c, head) /\ Chain(c, head) \subseteq own
         /\ \A a \in Chain(c, head) : c.codecache[a].next = Null \/ c.codecache[a].next \in Chain(c, head)
         /\ \E a \in Chain(c, head) : c.codecache[a].next = Null
<1> DEFINE N == CodecacheSize
           NextOf(a) == IF a = Null THEN Null ELSE c.codecache[a].next
           IsNth(f, n) == f = [k \in 0..n |-> IF k = 0 THEN head ELSE NextOf(f[k - 1])]
           Nth == CHOOSE f : IsNth(f, N)
           C == Chain(c, head)
<1>1. N \in Nat
  BY BlockCacheAssumption
<1>2. IsNth(Nth, N)
  <2> DEFINE S == {n \in 0..N : \E f : IsNth(f, n)}
  <2>1. 0 \in S
    <3>1. IsNth([k \in 0..0 |-> head], 0)
      OBVIOUS
    <3> HIDE DEF IsNth
    <3>2. QED
      BY <1>1, <3>1
  <2>2. ASSUME NEW n \in S, n \in 0..(N - 1) PROVE n + 1 \in S
    <3>1. PICK f : IsNth(f, n)
      BY <2>2
    <3> DEFINE g == [k \in 0..(n + 1) |-> IF k \in 0..n THEN f[k] ELSE NextOf(f[n])]
    <3>2. \A k \in 0..n : f[k] = IF k = 0 THEN head ELSE NextOf(f[k - 1])
      <4>1. f = [k \in 0..n |-> IF k = 0 THEN head ELSE NextOf(f[k - 1])]
        BY <3>1
      <4> HIDE DEF NextOf
      <4>2. QED
        BY <4>1
    <3> HIDE DEF NextOf
    <3>3. \A k \in 0..(n + 1) : g[k] = IF k = 0 THEN head ELSE NextOf(g[k - 1])
      <4> SUFFICES ASSUME NEW k \in 0..(n + 1) PROVE g[k] = IF k = 0 THEN head ELSE NextOf(g[k - 1])
        OBVIOUS
      <4>1. n \in Nat
        BY <2>2
      <4>2. CASE k \in 0..n
        <5>1. g[k] = f[k]
          BY <4>2
        <5>2. k # 0 => g[k - 1] = f[k - 1]
          BY <4>1, <4>2
        <5> HIDE DEF g
        <5>3. QED
          BY <3>2, <4>2, <5>1, <5>2
      <4>3. CASE k = n + 1
        <5>1. k # 0 /\ k \notin 0..n /\ k - 1 = n /\ n \in 0..(n + 1)
          BY <4>1, <4>3
        <5>2. g[k] = NextOf(f[n]) /\ g[n] = f[n]
          BY <4>1, <5>1
        <5> HIDE DEF g
        <5>3. QED
          BY <5>1, <5>2
      <4>4. QED
        BY <4>1, <4>2, <4>3
    <3>4. g = [k \in 0..(n + 1) |-> g[k]]
      OBVIOUS
    <3>5. IsNth(g, n + 1)
      <4> HIDE DEF g
      <4>1. QED
        BY <3>3, <3>4
    <3> HIDE DEF IsNth, g
    <3>6. QED
      BY <1>1, <2>2, <3>5
  <2> HIDE DEF S, IsNth
  <2>3. N \in S
    BY <1>1, <2>1, <2>2, UpTo
  <2>4. \E f : IsNth(f, N)
    BY <2>3 DEF S
  <2>5. QED
    BY <2>4
<1>3. C = {Nth[k] : k \in DOMAIN Nth} \ {Null}
  BY DEF Chain
<1>4. DOMAIN Nth = 0..N /\ Nth[0] = head /\ \A k \in 0..N : k # 0 => Nth[k] = NextOf(Nth[k - 1])
  <2>1. Nth = [k \in 0..N |-> IF k = 0 THEN head ELSE NextOf(Nth[k - 1])]
    BY <1>2
  <2> HIDE DEF Nth, NextOf
  <2>2. QED
    BY <1>1, <2>1
<1> HIDE DEF Nth, C
<1>5. own \subseteq Nat /\ \A a \in own : a # Null /\ a < N
  BY <1>1 DEF Null
<1>6. \A k \in 0..N : Nth[k] = Null \/ (Nth[k] \in own /\ Nth[k] >= k)
  <2> DEFINE P(k) == Nth[k] = Null \/ (Nth[k] \in own /\ Nth[k] >= k)
             S == {k \in 0..N : \A j \in 0..k : P(j)}
  <2>1. 0 \in S
    BY <1>1, <1>4, <1>5
  <2>2. ASSUME NEW k \in S, k \in 0..(N - 1) PROVE k + 1 \in S
    <3>1. k + 1 \in 0..N /\ (k + 1) - 1 = k /\ k + 1 # 0 /\ k \in 0..k
      BY <1>1, <2>2
    <3>2. Nth[k + 1] = NextOf(Nth[k]) /\ P(k)
      BY <1>4, <3>1
    <3>3. P(k + 1)
      <4>1. CASE Nth[k] = Null
        BY <3>2, <4>1
      <4>2. CASE Nth[k] \in own /\ Nth[k] >= k /\ Nth[k] # Null
        <5>1. Nth[k + 1] = c.codecache[Nth[k]].next
          BY <3>2, <4>2
        <5>2. Nth[k + 1] = Null \/ (Nth[k + 1] \in own /\ Nth[k + 1] > Nth[k])
          BY <4>2, <5>1
        <5>3. CASE Nth[k + 1] = Null
          BY <5>3
        <5>4. CASE Nth[k + 1] \in own /\ Nth[k + 1] > Nth[k]
          <6>1. Nth[k + 1] \in Nat /\ Nth[k] \in Nat /\ k \in Nat
            <7>1. k \in Nat
              BY <2>2
            <7> HIDE DEF S
            <7>2. Nth[k + 1] \in Nat /\ Nth[k] \in Nat
              <8>1. \A a \in own : a \in Nat
                BY <1>5
              <8>2. QED
                BY <4>2, <5>4, <8>1
            <7>3. QED
              BY <7>1, <7>2
          <6> HIDE DEF N
          <6>2. Nth[k + 1] >= k + 1
            BY <4>2, <5>4, <6>1
          <6>3. QED
            BY <5>4, <6>2
        <5>5. QED
          BY <5>2, <5>3, <5>4
      <4>3. QED
        BY <3>2, <4>1, <4>2
    <3>4. \A j \in 0..(k + 1) : j \in 0..k \/ j = k + 1
      BY <3>1
    <3> HIDE DEF P
    <3>5. QED
      BY <2>2, <3>1, <3>3, <3>4
  <2> HIDE DEF S, P
  <2>3. N \in S
    BY <1>1, <2>1, <2>2, UpTo
  <2>4. \A j \in 0..N : P(j)
    BY <2>3 DEF S
  <2>5. QED
    BY <2>4 DEF P
<1>7. C \subseteq own /\ head \in C
  BY <1>1, <1>3, <1>4, <1>5, <1>6
<1>8. ASSUME NEW a \in C PROVE c.codecache[a].next = Null \/ c.codecache[a].next \in C
  <2>1. PICK k \in 0..N : a = Nth[k]
    BY <1>3, <1>4
  <2>2. a # Null /\ a \in own /\ a >= k
    BY <1>3, <1>6, <2>1
  <2>3. k + 1 \in 0..N /\ (k + 1) - 1 = k /\ k + 1 # 0
    BY <1>1, <1>5, <2>2
  <2>4. Nth[k + 1] = c.codecache[a].next
    BY <1>4, <2>1, <2>2, <2>3
  <2>5. QED
    BY <1>3, <1>4, <2>3, <2>4
<1>9. \E a \in C : c.codecache[a].next = Null
  <2> DEFINE D == {N - a : a \in C}
  <2>1. D \subseteq Nat /\ D # {}
    BY <1>1, <1>5, <1>7
  <2>2. PICK d \in D : \A e \in D : d <= e
    <3> HIDE DEF D
    <3>1. QED
      BY <2>1, LeastNumber
  <2>3. PICK a \in C : d = N - a
    BY <2>2
  <2>4. \A b \in C : N - a <= N - b
    BY <2>2, <2>3
  <2>5. \A b \in C : ~ (b > a)
    BY <1>1, <1>5, <1>7, <2>4
  <2>6. QED
    BY <1>7, <1>8, <2>5
<1>10. QED
  BY <1>7, <1>8, <1>9 DEF C

\* The parts of a header.
LEMMA HeaderFields ==
  \A run, mode, next :
    /\ Header(run, mode, next).run = run /\ Header(run, mode, next).mode = mode
    /\ Header(run, mode, next).next = next /\ Header(run, mode, next).kind = "header"
  BY DEF Header

\* The headers after a block is found, and after a header is made.
Moved(cells, head, a) == [cells EXCEPT ![head] = [cells[a] EXCEPT !.next = cells[head].next]]

Swapped(cells, head, a) ==
  [Moved(cells, head, a) EXCEPT ![a] = [cells[head] EXCEPT !.next = cells[a].next]]

\* What the search returns.
LEMMA SearchReturns ==
  ASSUME NEW cells, NEW u, NEW lists, NEW masks, NEW head, NEW mode
  PROVE  LET c     == CacheOf(cells, u, lists, masks)
             s     == FindMatchingBlock(c, head, mode)
             tried == Chain(c, head)
         IN  /\ cells[head].run = Null => s.cache = c /\ s.block = head
             /\ cells[head].run # Null /\ (\E a \in tried : Matches(c, a, mode)) =>
                  \E a \in tried : /\ Matches(c, a, mode)
                                   /\ s.cache = CacheOf(Swapped(cells, head, a), u, lists, masks)
                                   /\ s.block = head
             /\ cells[head].run # Null /\ ~ (\E a \in tried : Matches(c, a, mode))
                /\ (\E a \in tried : cells[a].next = Null) =>
                  \E last \in tried : \E new, cells1 :
                    /\ cells[last].next = Null
                    /\ new = Place(u, 1)
                    /\ cells1 = [cells EXCEPT ![new] = Zeroed]
                    /\ s.cache = CacheOf([cells1 EXCEPT ![last] = [cells1[last] EXCEPT !.next = new]],
                                         new + 1, ListsAfter(u, 1, lists), masks)
                    /\ s.block = new
<1> DEFINE c     == CacheOf(cells, u, lists, masks)
           s     == FindMatchingBlock(c, head, mode)
           tried == Chain(c, head)
           found == {a \in tried : Matches(c, a, mode)}
           Swap(a) ==
             [c EXCEPT !.codecache[head] = [c.codecache[a] EXCEPT !.next = c.codecache[head].next],
                       !.codecache[a]    = [c.codecache[head] EXCEPT !.next = c.codecache[a].next]]
           last  == CHOOSE a \in tried : c.codecache[a].next = Null
           new   == BumpPtr(c, 1)
           more  == SetNext([BumpAlloc(c, 1) EXCEPT !.codecache[new] = Zeroed], last, new)
<1>1. s = IF c.codecache[head].run = Null THEN [cache |-> c, block |-> head]
          ELSE IF found # {} THEN [cache |-> Swap(CHOOSE a \in found : TRUE), block |-> head]
          ELSE [cache |-> more, block |-> new]
  BY DEF FindMatchingBlock
<1>2. c.codecache = cells
  BY Fields
<1>3. \A a : Swap(a) = CacheOf(Swapped(cells, head, a), u, lists, masks)
  <2> TAKE a
  <2> DEFINE X == [cells[a] EXCEPT !.next = cells[head].next]
             Y == [cells[head] EXCEPT !.next = cells[a].next]
  <2>1. Swap(a) = [c EXCEPT !.codecache[head] = X, !.codecache[a] = Y]
    <3> HIDE DEF c
    <3>1. QED
      BY <1>2
  <2> HIDE DEF X, Y
  <2>2. [c EXCEPT !.codecache[head] = X, !.codecache[a] = Y]
          = [[c EXCEPT !.codecache[head] = X] EXCEPT !.codecache[a] = Y]
    BY DEF CacheOf
  <2>3. [c EXCEPT !.codecache[head] = X] = CacheOf([cells EXCEPT ![head] = X], u, lists, masks)
    BY DEF CacheOf
  <2>4. \A cs : [CacheOf(cs, u, lists, masks) EXCEPT !.codecache[a] = Y]
                  = CacheOf([cs EXCEPT ![a] = Y], u, lists, masks)
    BY DEF CacheOf
  <2> HIDE DEF Swap, c
  <2>5. Swap(a) = CacheOf([[cells EXCEPT ![head] = X] EXCEPT ![a] = Y], u, lists, masks)
    BY <2>1, <2>2, <2>3, <2>4
  <2>6. QED
    BY <2>5 DEF X, Y, Moved, Swapped
<1>4. new = Place(u, 1)
  BY Allocation
<1>5. more = LET cells1 == [cells EXCEPT ![new] = Zeroed]
             IN  CacheOf([cells1 EXCEPT ![last] = [cells1[last] EXCEPT !.next = new]],
                         new + 1, ListsAfter(u, 1, lists), masks)
  <2> DEFINE l == ListsAfter(u, 1, lists)
             cells1 == [cells EXCEPT ![new] = Zeroed]
  <2>1. BumpAlloc(c, 1) = CacheOf(cells, new + 1, l, masks)
    BY <1>4, Allocation
  <2> HIDE DEF c, new, l, last
  <2>2. [CacheOf(cells, new + 1, l, masks) EXCEPT !.codecache[new] = Zeroed]
          = CacheOf(cells1, new + 1, l, masks)
    BY DEF CacheOf
  <2> HIDE DEF cells1
  <2>3. SetNext(CacheOf(cells1, new + 1, l, masks), last, new)
          = CacheOf([cells1 EXCEPT ![last] = [cells1[last] EXCEPT !.next = new]], new + 1, l, masks)
    BY Writing
  <2>4. more = SetNext(CacheOf(cells1, new + 1, l, masks), last, new)
    BY <2>1, <2>2
  <2>5. QED
    BY <2>3, <2>4 DEF cells1, l
<1>6. cells[head].run = Null => s.cache = c /\ s.block = head
  <2> HIDE DEF c, found, Swap, more, new, s
  <2>1. QED
    BY <1>1, <1>2
<1>7. ASSUME cells[head].run # Null, found # {}
      PROVE  \E a \in found : s.cache = Swap(a) /\ s.block = head
  <2> HIDE DEF c, found, Swap, more, new, s
  <2>1. QED
    BY <1>1, <1>2, <1>7
<1>8. ASSUME cells[head].run # Null, found = {}, \E a \in tried : cells[a].next = Null
      PROVE  last \in tried /\ cells[last].next = Null /\ s.cache = more /\ s.block = new
  <2>1. last \in tried /\ cells[last].next = Null
    <3> HIDE DEF c, tried
    <3>1. QED
      BY <1>2, <1>8
  <2> HIDE DEF c, found, Swap, more, new, s
  <2>2. QED
    BY <1>1, <1>2, <1>8, <2>1
<1>9. \A a : a \in found <=> a \in tried /\ Matches(c, a, mode)
  OBVIOUS
<1> HIDE DEF s, found, tried, Swap, more, new, last, c
<1>10. cells[head].run # Null /\ (\E a \in tried : Matches(c, a, mode)) =>
         \E a \in tried : /\ Matches(c, a, mode)
                          /\ s.cache = CacheOf(Swapped(cells, head, a), u, lists, masks)
                          /\ s.block = head
  <2> HAVE cells[head].run # Null /\ (\E a \in tried : Matches(c, a, mode))
  <2>1. PICK a \in found : s.cache = Swap(a) /\ s.block = head
    BY <1>7, <1>9
  <2>2. a \in tried /\ Matches(c, a, mode)
    BY <1>9, <2>1
  <2>3. QED
    BY <1>3, <2>1, <2>2
<1>11. cells[head].run # Null /\ ~ (\E a \in tried : Matches(c, a, mode))
         /\ (\E a \in tried : cells[a].next = Null) =>
           \E last2 \in tried : \E new2, cells1 :
             /\ cells[last2].next = Null
             /\ new2 = Place(u, 1)
             /\ cells1 = [cells EXCEPT ![new2] = Zeroed]
             /\ s.cache = CacheOf([cells1 EXCEPT ![last2] = [cells1[last2] EXCEPT !.next = new2]],
                                  new2 + 1, ListsAfter(u, 1, lists), masks)
             /\ s.block = new2
  <2> HAVE cells[head].run # Null /\ ~ (\E a \in tried : Matches(c, a, mode))
           /\ (\E a \in tried : cells[a].next = Null)
  <2>1. found = {}
    BY <1>9
  <2>2. QED
    BY <1>4, <1>5, <1>8, <2>1
<1>12. QED
  BY <1>6, <1>10, <1>11 DEF s, tried, c

\* The block of a word is found, or there is a new header for it.
LEMMA BlockFound ==
  ASSUME NEW cells, NEW u, NEW lists, NEW masks, NEW facts, NEW owned,
         IsCache(cells, u, lists, masks), Good(cells, u, lists, masks, facts, owned),
         NEW w \in Words, NEW mode, NEW head,
         \/ lists[OuterIndex(w)] # Null /\ head = lists[OuterIndex(w)] + InnerIndex(w)
         \/ lists = NoList /\ cells[head].run = Null
  PROVE  LET s == FindMatchingBlock(CacheOf(cells, u, lists, masks), head, mode)
         IN  \E cells2, u2, lists2, owned2 :
               /\ s.cache = CacheOf(cells2, u2, lists2, masks)
               /\ IsCache(cells2, u2, lists2, masks)
               /\ Good(cells2, u2, lists2, masks, facts, owned2)
               /\ \/ /\ lists2[OuterIndex(w)] # Null /\ s.block \in owned2[w]
                     /\ cells2[s.block].run = Null \/ cells2[s.block].mode = mode
                  \/ lists2 = NoList /\ cells2[s.block].run = Null
<1> DEFINE p == OuterIndex(w)
           c == CacheOf(cells, u, lists, masks)
           s == FindMatchingBlock(c, head, mode)
           tried == Chain(c, head)
<1>1. p \in Pages /\ CodecacheSize \in Nat \ {0, 1}
  BY Placed, BlockCacheAssumption
<1>2. /\ IsBuffer(cells) /\ u \in 0..CodecacheSize
      /\ lists \in [Pages -> Null..(CodecacheSize - 1)]
      /\ masks \in [Pages -> Null..(CodecacheSize - 1)]
  BY DEF IsCache
<1>3. CASE cells[head].run = Null
  <2>1. s.cache = c /\ s.block = head
    BY <1>3, SearchReturns
  <2>2. lists[p] # Null => head \in owned[w]
    <3>1. NoList[p] = Null
      BY <1>1 DEF NoList
    <3>2. QED
      BY <1>1, <3>1 DEF Good, GoodOwners
  <2> HIDE DEF s, c, p
  <2>3. QED
    BY <1>3, <2>1, <2>2 DEF s, c, p
<1>4. CASE cells[head].run # Null
  <2>1. lists[p] # Null /\ head \in owned[w] /\ owned[w] \subseteq 0..(u - 1)
    BY <1>4 DEF Good, GoodOwners
  <2>2. \A a \in owned[w] : \E run, mode2, next :
          /\ cells[a] = Header(run, mode2, next)
          /\ next = Null \/ (next \in owned[w] /\ next > a)
          /\ GoodRun(cells, u, masks, facts, w, run, mode2)
    BY DEF Good, GoodHeaders, GoodHeader
  <2>3. \A a \in owned[w] : cells[a].next = Null \/ (cells[a].next \in owned[w] /\ cells[a].next > a)
    BY <2>2, HeaderFields
  <2>4. tried \subseteq owned[w] /\ \E a \in tried : cells[a].next = Null
    <3>1. c.codecache = cells
      BY Fields
    <3> HIDE DEF c
    <3>2. QED
      BY <1>2, <2>1, <2>3, <3>1, ChainIsOwned
  <2>5. CASE \E a \in tried : Matches(c, a, mode)
    <3>0. PICK a \in tried : /\ Matches(c, a, mode)
                             /\ s.cache = CacheOf(Swapped(cells, head, a), u, lists, masks)
                             /\ s.block = head
      BY <1>4, <2>5, SearchReturns
    <3> DEFINE cells1 == Moved(cells, head, a)
    <3>1. /\ Matches(c, a, mode)
          /\ cells1 = [cells EXCEPT ![head] = [cells[a] EXCEPT !.next = cells[head].next]]
          /\ s.cache = CacheOf([cells1 EXCEPT ![a] = [cells[head] EXCEPT !.next = cells[a].next]],
                               u, lists, masks)
          /\ s.block = head
      BY <3>0 DEF Moved, Swapped
    <3> HIDE DEF cells1
    <3>2. a \in owned[w] /\ cells[a].mode = mode
      BY <2>4, <3>1, Fields DEF Matches
    <3>3. PICK ra, ma, na :
            /\ cells[a] = Header(ra, ma, na)
            /\ na = Null \/ (na \in owned[w] /\ na > a)
            /\ GoodRun(cells, u, masks, facts, w, ra, ma)
      BY <2>2, <3>2
    <3>4. PICK rh, mh, nh :
            /\ cells[head] = Header(rh, mh, nh)
            /\ nh = Null \/ (nh \in owned[w] /\ nh > head)
            /\ GoodRun(cells, u, masks, facts, w, rh, mh)
      BY <2>1, <2>2
    <3> DEFINE cells2 == [cells1 EXCEPT ![a] = Header(rh, mh, na)]
    <3>5. cells1 = [cells EXCEPT ![head] = Header(ra, ma, nh)]
      <4>1. [cells[a] EXCEPT !.next = cells[head].next] = Header(ra, ma, nh)
        BY <3>3, <3>4 DEF Header
      <4>2. QED
        BY <3>1, <4>1
    <3>6. /\ Good(cells1, u, lists, masks, facts, owned)
          /\ GoodRun(cells1, u, masks, facts, w, rh, mh)
      BY <1>2, <2>1, <3>3, <3>4, <3>5, HeaderWritten
    <3>7. IsBuffer(cells1)
      BY <1>2, <3>5, BufferCells
    <3>8. Good(cells2, u, lists, masks, facts, owned)
      BY <1>2, <3>2, <3>3, <3>6, <3>7, HeaderWritten
    <3>9. s.cache = CacheOf(cells2, u, lists, masks)
      <4>1. [cells[head] EXCEPT !.next = cells[a].next] = Header(rh, mh, na)
        BY <3>3, <3>4 DEF Header
      <4>2. QED
        BY <3>1, <4>1
    <3>10. cells2[head].mode = mode
      <4>1. head \in Cells /\ a \in Cells
        BY <1>1, <1>2, <2>1, <3>2 DEF Cells
      <4>2. ma = mode
        BY <3>2, <3>3, HeaderFields
      <4>3. CASE a = head
        <5>1. cells2[head] = Header(rh, mh, na) /\ mh = ma
          BY <3>3, <3>4, <3>7, <4>1, <4>3, BufferCells, HeaderFields
        <5>2. QED
          BY <4>2, <5>1, HeaderFields
      <4>4. CASE a # head
        <5>1. cells2[head] = cells1[head]
          BY <3>7, <4>1, <4>4, BufferCells
        <5>2. cells1[head] = Header(ra, ma, nh)
          BY <1>2, <3>5, <4>1, BufferCells
        <5>3. QED
          BY <4>2, <5>1, <5>2, HeaderFields
      <4>5. QED
        BY <4>3, <4>4
    <3>11. IsCache(cells2, u, lists, masks)
      BY <1>2, <3>7, BufferCells DEF IsCache
    <3> HIDE DEF s, c, p, cells2
    <3>12. QED
      BY <2>1, <3>1, <3>8, <3>9, <3>10, <3>11 DEF s, c, p
  <2>6. CASE ~ (\E a \in tried : Matches(c, a, mode))
    <3>0. PICK last \in tried : \E new, cells1 :
            /\ cells[last].next = Null
            /\ new = Place(u, 1)
            /\ cells1 = [cells EXCEPT ![new] = Zeroed]
            /\ s.cache = CacheOf([cells1 EXCEPT ![last] = [cells1[last] EXCEPT !.next = new]],
                                 new + 1, ListsAfter(u, 1, lists), masks)
            /\ s.block = new
      BY <1>4, <2>4, <2>6, SearchReturns
    <3>1. PICK new, cells1 :
            /\ cells[last].next = Null
            /\ new = Place(u, 1)
            /\ cells1 = [cells EXCEPT ![new] = Zeroed]
            /\ s.cache = CacheOf([cells1 EXCEPT ![last] = [cells1[last] EXCEPT !.next = new]],
                                 new + 1, ListsAfter(u, 1, lists), masks)
            /\ s.block = new
      BY <3>0
    <3>2. last \in owned[w] /\ last \in Cells
      BY <1>1, <1>2, <2>1, <2>4, <3>1 DEF Cells
    <3>3. /\ new \in Nat /\ new + 1 < CodecacheSize
          /\ Flushes(u, 1) => new = 0 /\ ListsAfter(u, 1, lists) = NoList
          /\ ~ Flushes(u, 1) => new = u /\ ListsAfter(u, 1, lists) = lists
      BY <1>1, <1>2, <3>1, RoomMade
    <3>4. new \in Cells /\ new + 1 \in 0..CodecacheSize
      BY <1>1, <3>3 DEF Cells
    <3>5. IsBuffer(cells1) /\ cells1[new] = Zeroed
      BY <1>2, <3>1, <3>4, BufferCells
    <3> DEFINE cells2 == [cells1 EXCEPT ![last] = [cells1[last] EXCEPT !.next = new]]
    <3>6. IsBuffer(cells2) /\ cells2[last] = [cells1[last] EXCEPT !.next = new]
          /\ \A b \in Cells : b # last => cells2[b] = cells1[b]
      BY <3>2, <3>5, BufferCells
    <3>7. cells2[new].run = Null
      <4>1. CASE last = new
        <5>0. PICK mode0 : Zeroed = Header(Null, mode0, Null)
          BY DEF Zeroed
        <5>1. cells2[new] = Header(Null, mode0, new)
          BY <3>5, <3>6, <4>1, <5>0 DEF Header
        <5>2. QED
          BY <5>1 DEF Header
      <4>2. CASE last # new
        BY <3>4, <3>5, <3>6, <4>2, HeaderFields DEF Zeroed
      <4>3. QED
        BY <4>1, <4>2
    <3>8. CASE Flushes(u, 1)
      <4>1. NoList \in [Pages -> Null..(CodecacheSize - 1)]
        BY <1>1 DEF NoList, Null
      <4>2. IsCache(cells2, new + 1, NoList, masks)
        BY <1>2, <3>4, <3>6, <4>1 DEF IsCache
      <4>3. Good(cells2, new + 1, NoList, masks, facts, NoHeaders)
        BY EmptyIsGood
      <4>4. s.cache = CacheOf(cells2, new + 1, NoList, masks) /\ s.block = new
        BY <3>1, <3>3, <3>8
      <4> HIDE DEF s, c, p, cells2
      <4>5. QED
        BY <3>7, <4>2, <4>3, <4>4 DEF s, c, p
    <3>9. CASE ~ Flushes(u, 1)
      <4>1. new = u /\ u \in 0..(CodecacheSize - 1) /\ u \in Nat
        BY <1>1, <1>2, <3>3, <3>9
      <4> DEFINE owned2 == [owned EXCEPT ![w] = @ \cup {u}]
      <4>2. Good(cells1, u + 1, lists, masks, facts, owned2)
        BY <1>2, <2>1, <3>1, <4>1, HeaderAllocated
      <4>3. owned \in [Words -> SUBSET (0..(u - 1))]
        BY DEF Good, GoodOwners
      <4>4. last \in owned2[w] /\ u \in owned2[w] /\ u > last /\ u # last
        BY <2>1, <3>2, <4>1, <4>3
      <4>5. PICK rl, ml, nl :
              /\ cells1[last] = Header(rl, ml, nl)
              /\ GoodRun(cells1, u + 1, masks, facts, w, rl, ml)
        <5> HIDE DEF owned2
        <5>1. GoodHeader(cells1, u + 1, masks, facts, owned2[w], w, last)
          BY <4>2, <4>4 DEF Good, GoodHeaders
        <5>2. QED
          BY <5>1 DEF GoodHeader
      <4>6. cells2 = [cells1 EXCEPT ![last] = Header(rl, ml, u)]
        <5>1. [cells1[last] EXCEPT !.next = u] = Header(rl, ml, u)
          BY <4>5 DEF Header
        <5>2. QED
          BY <4>1, <5>1
      <4>7. u + 1 \in 0..CodecacheSize
        BY <3>4, <4>1
      <4> HIDE DEF owned2, cells2
      <4>8. Good(cells2, u + 1, lists, masks, facts, owned2)
        BY <3>5, <4>2, <4>4, <4>5, <4>6, <4>7, HeaderWritten
      <4>9. IsCache(cells2, u + 1, lists, masks)
        BY <1>2, <3>6, <4>7 DEF IsCache
      <4>10. s.cache = CacheOf(cells2, u + 1, lists, masks) /\ s.block = u
        BY <3>1, <3>3, <3>9, <4>1 DEF cells2
      <4> HIDE DEF s, c, p
      <4>11. QED
        BY <2>1, <3>7, <4>1, <4>4, <4>8, <4>9, <4>10 DEF s, c, p
    <3>10. QED
      BY <3>8, <3>9
  <2>7. QED
    BY <2>5, <2>6
<1>5. QED
  BY <1>3, <1>4

-----------------------------------------------------------------------------
(***************************************************************************)
(* Running a block, and compiling it.                                      *)
(***************************************************************************)
\* What runs to its end is known, and made for the mode.
RunsRight(ran, mode, facts) ==
  ran.mode = mode /\ \A x \in DOMAIN ran.code : <<x, ran.code[x]>> \in facts

\* The idle loop is what a branch to itself with a NOP in its slot does.
LEMMA IdleLoopRuns ==
  ASSUME NEW c, NEW w \in Int, NEW mode, NEW facts,
         <<w, "b_self">> \in facts, <<w + 1, "nop">> \in facts
  PROVE  /\ Execute(c, Idle, w, mode).whole
         /\ RunsRight(Execute(c, Idle, w, mode), mode, facts)
<1> DEFINE code == [x \in {w, w + 1} |-> IF x = w THEN "b_self" ELSE "nop"]
           ran == Execute(c, Idle, w, mode)
<1>1. ran = [whole |-> TRUE, mode |-> mode, code |-> code]
  BY DEF Execute
<1>2. \A x \in DOMAIN code : <<x, code[x]>> \in facts
  <2>1. DOMAIN code = {w, w + 1} /\ code[w] = "b_self" /\ code[w + 1] = "nop"
    OBVIOUS
  <2> HIDE DEF code
  <2>2. QED
    BY <2>1
<1> HIDE DEF code, ran
<1>3. ran.whole = TRUE /\ ran.mode = mode /\ ran.code = code
  BY <1>1
<1>4. QED
  BY <1>2, <1>3 DEF ran, RunsRight

\* The parts of a cell of code.
LEMMA CodeFields ==
  \A code, mode, home, word :
    LET cell == Code(code, mode, home, word)
    IN  cell.kind = "code" /\ cell.code = code /\ cell.mode = mode /\ cell.home = home /\ cell.word = word
  BY DEF Code

\* What a good header leads to is executed as it was compiled.
LEMMA GoodRunRuns ==
  ASSUME NEW cells, NEW u \in Nat, NEW lists, NEW masks, NEW facts,
         NEW w \in Words, NEW run, NEW mode,
         GoodRun(cells, u, masks, facts, w, run, mode), run # Null
  PROVE  LET ran == Execute(CacheOf(cells, u, lists, masks), run, w, mode)
         IN  ran.whole /\ RunsRight(ran, mode, facts)
<1> DEFINE c == CacheOf(cells, u, lists, masks)
           ran == Execute(c, run, w, mode)
<1>1. w \in Int /\ c.codecache = cells
  BY Placed, Fields
<1>2. CASE run = Idle /\ IdlesAt(cells, masks, facts, w)
  <2>1. <<w, "b_self">> \in facts /\ <<w + 1, "nop">> \in facts
    BY <1>2 DEF IdlesAt, Holds
  <2> HIDE DEF c
  <2>2. QED
    BY <1>1, <1>2, <2>1, IdleLoopRuns DEF c
<1>3. CASE run \in Nat /\ Compiled(cells, u, masks, facts, w, run, mode)
  <2>1. PICK last, code :
          /\ last \in w..(w + PageWords - 1) /\ DOMAIN code = w..last
          /\ run + (last - w) < u
          /\ \A a \in run..(run + (last - w)) : cells[a] = Code(code, mode, a, w + (a - run))
          /\ \A x \in w..last : /\ x \in Words /\ OuterIndex(x) = OuterIndex(w)
                                /\ Holds(cells, masks, facts, x, code[x])
    BY <1>3 DEF Compiled
  <2>2. last \in Int /\ w <= last /\ run \in run..(run + (last - w))
    BY <1>1, <1>3, <2>1, BlockCacheAssumption
  <2>3. cells[run].kind = "code" /\ cells[run].code = code /\ cells[run].mode = mode
    <3>1. cells[run] = Code(code, mode, run, w + (run - run))
      BY <2>1, <2>2
    <3>2. QED
      BY <3>1, CodeFields
  <2>4. run # Idle /\ ~ (run < 0)
    BY <1>3 DEF Idle
  <2>5. CodeCells(c, run) = run..(run + (last - w))
    <3>1. Cardinality(w..last) = last - w + 1
      BY <1>1, <2>2, FS_Interval
    <3>2. run + Cardinality(w..last) - 1 = run + (last - w)
      BY <1>1, <1>3, <2>2, <3>1
    <3> HIDE DEF c
    <3>3. CodeCells(c, run) = run..(run + Cardinality(DOMAIN code) - 1)
      BY <1>1, <2>3, <2>4 DEF CodeCells
    <3>4. QED
      BY <2>1, <3>2, <3>3
  <2>6. \A a \in CodeCells(c, run) :
          c.codecache[a] = Code(c.codecache[run].code, c.codecache[run].mode, a, w + a - run)
    <3> SUFFICES ASSUME NEW a \in run..(run + (last - w))
                 PROVE  cells[a] = Code(code, mode, a, w + a - run)
      BY <1>1, <2>3, <2>5
    <3>1. cells[a] = Code(code, mode, a, w + (a - run))
      BY <2>1
    <3>2. w + (a - run) = w + a - run
      BY <1>1, <1>3, <2>2
    <3>3. QED
      BY <3>1, <3>2
  <2>7. ran = [whole |-> TRUE, mode |-> mode, code |-> code]
    <3> HIDE DEF c
    <3>1. QED
      BY <1>1, <2>3, <2>4, <2>6 DEF Execute
  <2>8. ran.whole = TRUE /\ ran.mode = mode /\ ran.code = code
    <3> HIDE DEF ran
    <3>1. QED
      BY <2>7
  <2>9. \A x \in DOMAIN code : <<x, code[x]>> \in facts
    BY <2>1 DEF Holds
  <2> HIDE DEF ran
  <2>10. QED
    BY <2>8, <2>9 DEF RunsRight, ran
<1>4. QED
  BY <1>2, <1>3 DEF GoodRun

BlockSize(w) == LastWord(w) - w + 1

\* The cells that Compile writes, and where.
CompiledCells(u, w, mode) ==
  [a \in Place(u, BlockSize(w))..(Place(u, BlockSize(w)) + BlockSize(w) - 1) |->
     Code(TempCode(w), mode, u + a - Place(u, BlockSize(w)), w + a - Place(u, BlockSize(w)))]

\* The words that are compiled are those of memory, and fit into a page.
LEMMA BlockWords ==
  ASSUME NEW w \in Words
  PROVE  /\ DOMAIN TempCode(w) = w..LastWord(w)
         /\ \A x \in w..LastWord(w) : TempCode(w)[x] = rdram[x]
         /\ w \in Nat /\ LastWord(w) \in Nat /\ w <= LastWord(w)
         /\ BlockSize(w) \in 1..PageWords /\ BlockSize(w) < CodecacheSize
         /\ Cardinality(w..LastWord(w)) = BlockSize(w)
<1>1. LastWord(w) \in w..(w + PageWords - 1) /\ w \in Nat /\ PageWords \in Nat
      /\ CodecacheSize \in Nat /\ PageWords + 1 < CodecacheSize
  BY BlockEnds, Placed, BlockCacheAssumption
<1>2. LastWord(w) \in Nat /\ w <= LastWord(w) /\ BlockSize(w) \in 1..PageWords /\ BlockSize(w) < CodecacheSize
  BY <1>1 DEF BlockSize
<1>3. Cardinality(w..LastWord(w)) = BlockSize(w)
  BY <1>1, <1>2, FS_Interval DEF BlockSize
<1>4. DOMAIN TempCode(w) = w..LastWord(w) /\ \A x \in w..LastWord(w) : TempCode(w)[x] = rdram[x]
  BY DEF TempCode
<1>5. QED
  BY <1>1, <1>2, <1>3, <1>4

\* What a compilation leaves.
LEMMA CompileIs ==
  ASSUME NEW cells, NEW u \in Nat, NEW lists, NEW masks, NEW block, NEW w \in Words, NEW mode
  PROVE  LET size == BlockSize(w)
             k    == Compile(CacheOf(cells, u, lists, masks), block, TempCode(w), mode)
         IN  /\ k.run = Place(u, size)
             /\ k.cache = CacheOf(WithRun(Overwrite(cells, CompiledCells(u, w, mode)), block, Place(u, size)),
                                  Place(u, size) + size, ListsAfter(u, size, lists), masks)
<1> DEFINE size  == BlockSize(w)
           code  == TempCode(w)
           c     == CacheOf(cells, u, lists, masks)
           at    == BumpPtr(c, size)
           cell  == [a \in at..(at + size - 1) |-> Code(code, mode, u + a - at, w + a - at)]
           k     == Compile(c, block, code, mode)
<1>1. Cardinality(DOMAIN code) = size
  BY BlockWords
<1>2. (CHOOSE x \in DOMAIN code : x - 1 \notin DOMAIN code) = w
  <2>1. \A x \in w..LastWord(w) : x - 1 \notin w..LastWord(w) <=> x = w
    BY BlockWords
  <2>2. w \in w..LastWord(w)
    BY BlockWords
  <2>3. DOMAIN code = w..LastWord(w)
    BY BlockWords
  <2> HIDE DEF code
  <2>4. QED
    BY <2>1, <2>2, <2>3
<1>3. c.used = u
  BY Fields
<1>4. k = [cache |-> SetRun(Put(BumpAlloc(c, size), cell), block, at), run |-> at]
  <2> DEFINE size0 == Cardinality(DOMAIN code)
             base0 == c.used
             at0   == BumpPtr(c, size0)
             first == CHOOSE x \in DOMAIN code : x - 1 \notin DOMAIN code
             cell0 == [a \in at0..(at0 + size0 - 1) |->
                        Code(code, mode, base0 + a - at0, first + a - at0)]
  <2>1. k = [cache |-> SetRun(Put(BumpAlloc(c, size0), cell0), block, at0), run |-> at0]
    BY DEF Compile
  <2>2. size0 = size /\ base0 = u /\ first = w
    BY <1>1, <1>2, <1>3
  <2> HIDE DEF size0, base0, first
  <2>3. at0 = at
    BY <2>2
  <2> HIDE DEF at0, at, size, code
  <2>4. cell0 = cell
    BY <2>2, <2>3
  <2> HIDE DEF cell0, cell, k, c
  <2>5. QED
    BY <2>1, <2>2, <2>3, <2>4
<1>5. at = Place(u, size)
  BY Allocation
<1>6. cell = CompiledCells(u, w, mode)
  <2> HIDE DEF at
  <2>1. QED
    BY <1>5 DEF CompiledCells
<1>7. BumpAlloc(c, size) = CacheOf(cells, at + size, ListsAfter(u, size, lists), masks)
  BY <1>5, Allocation
<1> DEFINE l == ListsAfter(u, size, lists)
           new == CompiledCells(u, w, mode)
<1> HIDE DEF size, code, c, at, cell, l, new
<1>8. Put(CacheOf(cells, at + size, l, masks), new) = CacheOf(Overwrite(cells, new), at + size, l, masks)
  BY Writing
<1>9. SetRun(CacheOf(Overwrite(cells, new), at + size, l, masks), block, at)
        = CacheOf(WithRun(Overwrite(cells, new), block, at), at + size, l, masks)
  <2> DEFINE cells2 == Overwrite(cells, new)
  <2> HIDE DEF cells2
  <2>1. SetRun(CacheOf(cells2, at + size, l, masks), block, at)
          = CacheOf(WithRun(cells2, block, at), at + size, l, masks)
    BY Writing
  <2>2. QED
    BY <2>1 DEF cells2
<1>10. k.run = at /\ k.cache = SetRun(Put(BumpAlloc(c, size), cell), block, at)
  <2> HIDE DEF k
  <2>1. QED
    BY <1>4
<1>11. BumpAlloc(c, size) = CacheOf(cells, at + size, l, masks) /\ cell = new
  BY <1>6, <1>7 DEF l, new
<1>12. k.cache = CacheOf(WithRun(Overwrite(cells, new), block, at), at + size, l, masks)
  BY <1>8, <1>9, <1>10, <1>11
<1>13. QED
  BY <1>5, <1>10, <1>12 DEF size, code, c, l, new

\* What a step leads to: a good cache, and a block that is executed as it was
\* compiled, from what memory holds, unless its page is gone.
Steps(s, w, mode, facts) ==
  \E cells, u, lists, masks, owned :
    /\ s.cache = CacheOf(cells, u, lists, masks)
    /\ IsCache(cells, u, lists, masks)
    /\ Good(cells, u, lists, masks, facts, owned)
    /\ Execute(s.cache, s.run, w, mode).whole
         => RunsRight(Execute(s.cache, s.run, w, mode), mode, facts)
    /\ ~ Execute(s.cache, s.run, w, mode).whole => lists[OuterIndex(w)] = Null

\* The code is where it was allocated; but it was compiled for the place before that.
LEMMA CompiledCellsAre ==
  ASSUME NEW cells, IsBuffer(cells), NEW u \in 0..CodecacheSize, NEW w \in Words, NEW mode
  PROVE  LET size  == BlockSize(w)
             at    == Place(u, size)
             cells1 == Overwrite(cells, CompiledCells(u, w, mode))
         IN  /\ at \in Nat /\ at + size < CodecacheSize /\ IsBuffer(cells1)
             /\ \A a \in at..(at + size - 1) :
                  a \in Cells /\ cells1[a] = Code(TempCode(w), mode, u + a - at, w + a - at)
             /\ \A a \in Cells : a \notin at..(at + size - 1) => cells1[a] = cells[a]
<1> DEFINE size   == BlockSize(w)
           at     == Place(u, size)
           new    == CompiledCells(u, w, mode)
           cells1 == Overwrite(cells, new)
           is(a)  == Code(TempCode(w), mode, u + a - at, w + a - at)
<1>1. size \in 1..PageWords /\ size < CodecacheSize /\ CodecacheSize \in Nat /\ PageWords \in Nat
  BY BlockWords, BlockCacheAssumption
<1>2. at \in Nat /\ at + size < CodecacheSize
  <2> HIDE DEF size
  <2>1. CASE Flushes(u, size)
    BY <1>1, <2>1 DEF Place
  <2>2. CASE ~ Flushes(u, size)
    BY <1>1, <2>2 DEF Place, Flushes
  <2>3. QED
    BY <2>1, <2>2
<1>3. new = [a \in at..(at + size - 1) |-> is(a)]
  BY DEF CompiledCells
<1>4. /\ IsBuffer(cells1)
      /\ \A a \in Cells : cells1[a] = IF a \in DOMAIN new THEN new[a] ELSE cells[a]
  BY OverwrittenCells
<1> HIDE DEF size, at, new, is
<1>5. DOMAIN new = at..(at + size - 1) /\ \A a \in at..(at + size - 1) : new[a] = is(a)
  BY <1>3
<1>6. \A a \in at..(at + size - 1) : a \in Cells
  BY <1>1, <1>2 DEF Cells
<1> HIDE DEF cells1
<1>7. \A a \in at..(at + size - 1) : cells1[a] = is(a)
  BY <1>4, <1>5, <1>6
<1>8. \A a \in Cells : a \notin at..(at + size - 1) => cells1[a] = cells[a]
  BY <1>4, <1>5
<1>9. QED
  BY <1>2, <1>4, <1>6, <1>7, <1>8 DEF size, at, cells1, new, is

\* Code that runs to its end after its compilation is that of memory.
LEMMA CompileRuns ==
  ASSUME NEW cells, IsBuffer(cells), NEW u \in 0..CodecacheSize, NEW lists, NEW masks,
         NEW block, NEW w \in Words, NEW mode, NEW facts,
         \A x \in Words : <<x, rdram[x]>> \in facts
  PROVE  LET k   == Compile(CacheOf(cells, u, lists, masks), block, TempCode(w), mode)
             ran == Execute(k.cache, k.run, w, mode)
         IN  ran.whole => RunsRight(ran, mode, facts)
<1> DEFINE k      == Compile(CacheOf(cells, u, lists, masks), block, TempCode(w), mode)
           size   == BlockSize(w)
           at     == Place(u, size)
           cells1 == Overwrite(cells, CompiledCells(u, w, mode))
           cells2 == WithRun(cells1, block, at)
           ran    == Execute(k.cache, k.run, w, mode)
           cell   == cells2[at]
<1>1. u \in Nat /\ CodecacheSize \in Nat
  BY BlockCacheAssumption
<1>2. k.run = at /\ k.cache = CacheOf(cells2, at + size, ListsAfter(u, size, lists), masks)
  BY <1>1, CompileIs
<1>3. k.cache.codecache = cells2
  <2> HIDE DEF k, at, cells2, size
  <2>1. QED
    BY <1>2, Fields
<1>4. /\ at \in Nat /\ size \in 1..PageWords /\ IsBuffer(cells1) /\ at \in Cells
      /\ cells1[at] = Code(TempCode(w), mode, u + at - at, w + at - at)
  <2>1. /\ at \in Nat /\ IsBuffer(cells1)
        /\ \A a \in at..(at + size - 1) :
             a \in Cells /\ cells1[a] = Code(TempCode(w), mode, u + a - at, w + a - at)
    BY CompiledCellsAre
  <2>2. size \in 1..PageWords /\ PageWords \in Nat
    BY BlockWords, BlockCacheAssumption
  <2> HIDE DEF at, size, cells1
  <2>3. at \in at..(at + size - 1)
    BY <2>1, <2>2
  <2>4. QED
    BY <2>1, <2>2, <2>3
<1> HIDE DEF k, at, cells1, size
<1>5. cell.kind = "code" => cell.mode = mode /\ cell.code = TempCode(w)
  <2>1. CASE at = block
    <3>1. cells1[at].kind = "code"
      BY <1>4, CodeFields
    <3>2. cells2 = [cells1 EXCEPT ![at] = Junk]
      BY <2>1, <3>1 DEF WithRun
    <3>3. cell = Junk
      BY <1>4, <3>2, BufferCells
    <3>4. Junk.kind = "junk"
      BY DEF Junk
    <3>5. QED
      BY <3>3, <3>4
  <2>2. CASE at # block
    <3>1. cell = cells1[at]
      BY <1>4, <2>2, BufferCells DEF WithRun
    <3>2. QED
      BY <1>4, <3>1, CodeFields
  <2>3. QED
    BY <2>1, <2>2
<1>6. at # Idle
  BY <1>4 DEF Idle
<1> HIDE DEF cells2
<1>7. ran.whole => ran = [whole |-> TRUE, mode |-> cell.mode, code |-> cell.code] /\ cell.kind = "code"
  <2> DEFINE P == cells2[at].kind = "code" /\ \A a \in CodeCells(k.cache, at) :
                    cells2[a] = Code(cells2[at].code, cells2[at].mode, a, w + a - at)
  <2>1. ran = IF P THEN [whole |-> TRUE, mode |-> cell.mode, code |-> cell.code] ELSE [whole |-> FALSE]
    BY <1>2, <1>3, <1>6 DEF Execute
  <2>2. [whole |-> FALSE].whole = FALSE
    OBVIOUS
  <2> HIDE DEF ran
  <2>3. P => cell.kind = "code"
    OBVIOUS
  <2> HIDE DEF P, cell
  <2>4. QED
    BY <2>1, <2>2, <2>3
<1>8. ASSUME ran.whole PROVE RunsRight(ran, mode, facts)
  <2>1. ran.mode = mode /\ ran.code = TempCode(w)
    <3> HIDE DEF ran, cell
    <3>1. ran = [whole |-> TRUE, mode |-> cell.mode, code |-> cell.code] /\ cell.kind = "code"
      BY <1>7, <1>8
    <3>2. QED
      BY <1>5, <3>1
  <2>2. DOMAIN TempCode(w) = w..LastWord(w) /\ \A x \in w..LastWord(w) : TempCode(w)[x] = rdram[x]
    BY BlockWords
  <2>3. \A x \in w..LastWord(w) : x \in Words
    BY BlockEnds
  <2> HIDE DEF ran
  <2>4. QED
    BY <2>1, <2>2, <2>3 DEF RunsRight
<1>9. QED
  BY <1>8 DEF k

\* A compilation leaves a good cache, if the block it is for is one.
LEMMA CompileSteps ==
  ASSUME NEW cells, NEW u, NEW lists, NEW masks, IsCache(cells, u, lists, masks),
         NEW block, NEW w \in Words, NEW mode, NEW facts, NEW owned,
         \A x \in Words : <<x, rdram[x]>> \in facts,
         \/ lists = NoList
         \/ /\ Good(cells, u, lists, masks, facts, owned)
            /\ lists[OuterIndex(w)] # Null /\ block \in owned[w]
            /\ cells[block] = Header(Null, mode, Null)
            /\ \A x \in w..LastWord(w) : Holds(cells, masks, facts, x, rdram[x])
  PROVE  Steps(Compile(CacheOf(cells, u, lists, masks), block, TempCode(w), mode), w, mode, facts)
<1> DEFINE k      == Compile(CacheOf(cells, u, lists, masks), block, TempCode(w), mode)
           size   == BlockSize(w)
           at     == Place(u, size)
           cells1 == Overwrite(cells, CompiledCells(u, w, mode))
           cells2 == WithRun(cells1, block, at)
           lists2 == ListsAfter(u, size, lists)
           ran    == Execute(k.cache, k.run, w, mode)
           p      == OuterIndex(w)
<1>1. /\ IsBuffer(cells) /\ u \in 0..CodecacheSize
      /\ lists \in [Pages -> Null..(CodecacheSize - 1)]
      /\ masks \in [Pages -> Null..(CodecacheSize - 1)]
  BY DEF IsCache
<1>2. u \in Nat /\ CodecacheSize \in Nat /\ p \in Pages /\ size \in Nat \ {0} /\ w \in Nat
      /\ size = LastWord(w) - w + 1 /\ LastWord(w) \in w..(w + PageWords - 1) /\ LastWord(w) \in Nat
  BY <1>1, BlockCacheAssumption, Placed, BlockWords, BlockEnds DEF BlockSize
<1>3. k.run = at /\ k.cache = CacheOf(cells2, at + size, lists2, masks)
  BY <1>2, CompileIs
<1>4. ran.whole => RunsRight(ran, mode, facts)
  BY <1>1, CompileRuns
<1>5. /\ at \in Nat /\ at + size < CodecacheSize /\ IsBuffer(cells1)
      /\ \A a \in at..(at + size - 1) : cells1[a] = Code(TempCode(w), mode, u + a - at, w + a - at)
      /\ \A a \in Cells : a \notin at..(at + size - 1) => cells1[a] = cells[a]
  BY <1>1, CompiledCellsAre
<1>6. IsBuffer(cells2)
  BY <1>5, BufferCells DEF WithRun
<1>7. CASE lists2 = NoList
  <2>1. NoList \in [Pages -> Null..(CodecacheSize - 1)] /\ NoList[p] = Null
    BY <1>2 DEF NoList, Null
  <2>2. IsCache(cells2, at + size, lists2, masks)
    BY <1>1, <1>2, <1>5, <1>6, <1>7, <2>1 DEF IsCache
  <2>3. Good(cells2, at + size, lists2, masks, facts, NoHeaders)
    BY <1>7, EmptyIsGood
  <2>4. lists2[p] = Null
    BY <1>7, <2>1
  <2> HIDE DEF k, at, size, cells2, lists2
  <2>5. QED
    BY <1>3, <1>4, <2>2, <2>3, <2>4 DEF Steps, k
<1>8. CASE lists2 # NoList
  <2>1. ~ Flushes(u, size) /\ lists # NoList
    BY <1>8 DEF ListsAfter
  <2>2. at = u /\ lists2 = lists
    BY <2>1 DEF Place, ListsAfter
  <2>3. /\ Good(cells, u, lists, masks, facts, owned)
        /\ lists[p] # Null /\ block \in owned[w]
        /\ cells[block] = Header(Null, mode, Null)
        /\ \A x \in w..LastWord(w) : Holds(cells, masks, facts, x, rdram[x])
    BY <2>1
  <2> HIDE DEF k, at, size, cells1, cells2, lists2
  <2>4. \A a \in 0..(u - 1) : cells1[a] = cells[a]
    <3> SUFFICES ASSUME NEW a \in 0..(u - 1) PROVE a \in Cells /\ a \notin at..(at + size - 1)
      BY <1>5
    <3>1. QED
      BY <1>1, <1>2, <2>2 DEF Cells
  <2>5. u + size \in 0..CodecacheSize /\ u <= u + size /\ u + size \in Nat
    BY <1>2, <1>5, <2>2
  <2>6. Good(cells1, u + size, lists, masks, facts, owned)
    BY <1>2, <2>3, <2>4, <2>5, BeyondUse
  <2>7. block \in 0..(u - 1) /\ masks[p] \in 0..(u - 1)
    BY <1>2, <2>3 DEF Good, GoodOwners, GoodMasks
  <2>8. Compiled(cells1, u + size, masks, facts, w, u, mode)
    <3> DEFINE last == LastWord(w)
               code == TempCode(w)
    <3>1. DOMAIN code = w..last /\ \A x \in w..last : code[x] = rdram[x]
      BY BlockWords
    <3>2. u + (last - w) < u + size
      BY <1>2
    <3>3. \A a \in u..(u + (last - w)) : cells1[a] = Code(code, mode, a, w + (a - u))
      <4> SUFFICES ASSUME NEW a \in u..(u + (last - w))
                   PROVE  cells1[a] = Code(code, mode, a, w + (a - u))
        OBVIOUS
      <4>1. a \in at..(at + size - 1)
        BY <1>2, <2>2
      <4>2. u + a - at = a /\ w + a - at = w + (a - u)
        BY <1>2, <2>2
      <4> HIDE DEF code, last
      <4>3. cells1[a] = Code(code, mode, u + a - at, w + a - at)
        BY <1>5, <4>1 DEF code
      <4>4. QED
        BY <4>2, <4>3
    <3>4. \A x \in w..last : /\ x \in Words /\ OuterIndex(x) = p
                             /\ Holds(cells1, masks, facts, x, code[x])
      <4> SUFFICES ASSUME NEW x \in w..last
                   PROVE  /\ x \in Words /\ OuterIndex(x) = p
                          /\ Holds(cells1, masks, facts, x, code[x])
        OBVIOUS
      <4>1. x \in Words /\ OuterIndex(x) = p /\ code[x] = rdram[x]
        BY <3>1, BlockEnds
      <4>2. Holds(cells, masks, facts, x, rdram[x]) /\ cells1[masks[p]] = cells[masks[p]]
        BY <2>3, <2>4, <2>7
      <4> HIDE DEF code, last
      <4>3. QED
        BY <4>1, <4>2 DEF Holds, Masked
    <3> HIDE DEF code, last, p
    <3>5. last \in w..(w + PageWords - 1)
      BY <1>2 DEF last
    <3>6. QED
      BY <3>1, <3>2, <3>3, <3>4, <3>5 DEF Compiled, p
  <2>9. GoodRun(cells1, u + size, masks, facts, w, u, mode)
    BY <1>2, <2>8 DEF GoodRun
  <2>10. cells2 = [cells1 EXCEPT ![block] = Header(u, mode, Null)]
    <3>1. cells1[block] = Header(Null, mode, Null)
      BY <2>3, <2>4, <2>7
    <3>2. cells1[block].kind = "header" /\ [cells1[block] EXCEPT !.run = u] = Header(u, mode, Null)
      BY <3>1 DEF Header
    <3>3. QED
      BY <2>2, <3>2 DEF cells2, WithRun
  <2>11. /\ Good(cells2, u + size, lists, masks, facts, owned)
         /\ GoodRun(cells2, u + size, masks, facts, w, u, mode)
    BY <1>5, <2>3, <2>5, <2>6, <2>9, <2>10, HeaderWritten
  <2>12. k.cache = CacheOf(cells2, u + size, lists, masks) /\ k.run = u /\ u # Null
    BY <1>2, <1>3, <2>2 DEF Null
  <2>13. ran.whole
    <3>1. Execute(CacheOf(cells2, u + size, lists, masks), u, w, mode).whole
      BY <2>5, <2>11, <2>12, GoodRunRuns
    <3>2. QED
      BY <2>12, <3>1
  <2>14. IsCache(cells2, u + size, lists, masks)
    BY <1>1, <1>6, <2>5 DEF IsCache
  <2>15. QED
    BY <1>4, <2>11, <2>12, <2>13, <2>14 DEF Steps, k
<1>9. QED
  BY <1>7, <1>8

\* A block that is missing is compiled.
LEMMA MissingSteps ==
  ASSUME NEW cells, NEW u, NEW lists, NEW masks, IsCache(cells, u, lists, masks),
         NEW block, NEW w \in Words, NEW mode, NEW facts, NEW owned,
         \A x \in Words : <<x, rdram[x]>> \in facts,
         \/ lists = NoList
         \/ /\ Good(cells, u, lists, masks, facts, owned)
            /\ lists[OuterIndex(w)] # Null /\ block \in owned[w]
  PROVE  Steps(MissingBlockHandler(CacheOf(cells, u, lists, masks), block, w, mode), w, mode, facts)
<1> DEFINE c      == CacheOf(cells, u, lists, masks)
           p      == OuterIndex(w)
           code   == TempCode(w)
           inner  == {InnerIndex(x) : x \in DOMAIN code}
           cells1 == [cells EXCEPT ![block] = Header(Null, mode, Null)]
           cells2 == Marked(cells1, masks[p], inner)
           c2     == CacheOf(cells2, u, lists, masks)
           cells3 == WithRun(cells2, block, Idle)
           s      == MissingBlockHandler(c, block, w, mode)
<1>1. /\ IsBuffer(cells) /\ u \in 0..CodecacheSize /\ p \in Pages /\ w \in Int /\ CodecacheSize \in Nat
      /\ lists \in [Pages -> Null..(CodecacheSize - 1)]
      /\ masks \in [Pages -> Null..(CodecacheSize - 1)]
  BY Placed, BlockCacheAssumption DEF IsCache
<1>2. DOMAIN code = w..LastWord(w) /\ \A x \in w..LastWord(w) : code[x] = rdram[x]
  BY BlockWords
<1>3. \A x \in w..LastWord(w) : x \in Words /\ OuterIndex(x) = p
  BY BlockEnds
<1>4. s = IF DetectIdleLoop(code) THEN [cache |-> SetRun(c2, block, Idle), run |-> Idle]
                                  ELSE Compile(c2, block, code, mode)
  <2> DEFINE d1 == [c EXCEPT !.codecache[block] = Header(Null, mode, Null)]
             d2 == MarkCode(d1, d1.code_mask[p], inner)
  <2>1. s = IF DetectIdleLoop(code) THEN [cache |-> SetRun(d2, block, Idle), run |-> Idle]
                                    ELSE Compile(d2, block, code, mode)
    BY DEF MissingBlockHandler
  <2>2. d1 = CacheOf(cells1, u, lists, masks)
    BY DEF CacheOf
  <2>3. CacheOf(cells1, u, lists, masks).code_mask = masks
    BY Fields
  <2> HIDE DEF d1, cells1, inner, p
  <2>4. d2 = c2
    <3>1. MarkCode(CacheOf(cells1, u, lists, masks), masks[p], inner)
            = CacheOf(Marked(cells1, masks[p], inner), u, lists, masks)
      BY Writing
    <3>2. QED
      BY <2>2, <2>3, <3>1
  <2> HIDE DEF d2, c2, s, code
  <2>5. QED
    BY <2>1, <2>4
<1>5. SetRun(c2, block, Idle) = CacheOf(cells3, u, lists, masks)
  <2> HIDE DEF cells2
  <2>1. QED
    BY Writing
<1>6. IsBuffer(cells1) /\ IsBuffer(cells2) /\ IsBuffer(cells3)
  <2>1. IsBuffer(cells1)
    BY <1>1, BufferCells
  <2> HIDE DEF cells1
  <2>2. IsBuffer(cells2)
    BY <2>1, BufferCells DEF Marked
  <2> HIDE DEF cells2
  <2>3. IsBuffer(cells3)
    BY <2>2, BufferCells DEF WithRun
  <2>4. QED
    BY <2>1, <2>2, <2>3
<1>7. IsCache(cells2, u, lists, masks) /\ IsCache(cells3, u, lists, masks)
  <2> HIDE DEF cells2, cells3
  <2>1. QED
    BY <1>1, <1>6 DEF IsCache
<1> HIDE DEF s, cells2, cells3, inner
<1>8. ASSUME lists # NoList
      PROVE  /\ Good(cells2, u, lists, masks, facts, owned)
             /\ lists[p] # Null /\ block \in owned[w]
             /\ cells2[block] = Header(Null, mode, Null)
             /\ \A x \in w..LastWord(w) : Holds(cells2, masks, facts, x, rdram[x])
  <2>1. Good(cells, u, lists, masks, facts, owned) /\ lists[p] # Null /\ block \in owned[w]
    BY <1>8
  <2>2. GoodRun(cells, u, masks, facts, w, Null, mode)
    BY DEF GoodRun
  <2>3. Good(cells1, u, lists, masks, facts, owned)
    BY <1>1, <2>1, <2>2, HeaderWritten
  <2>4. block \in 0..(u - 1) /\ block \in Cells
    BY <1>1, <2>1 DEF Good, GoodOwners, Cells
  <2>5. cells1[block] = Header(Null, mode, Null)
    BY <1>1, <2>4, BufferCells
  <2> HIDE DEF cells1
  <2>6. /\ Good(cells2, u, lists, masks, facts, owned)
        /\ \A x \in Words : OuterIndex(x) = p /\ InnerIndex(x) \in inner => Masked(cells2, masks, x)
        /\ \A a \in 0..(u - 1) : cells1[a].kind # "mask" => cells2[a] = cells1[a]
    <3>1. cells2 = Marked(cells1, masks[p], inner)
      BY DEF cells2
    <3>2. IsBuffer(cells1) /\ u \in 0..CodecacheSize /\ p \in Pages /\ lists[p] # Null
      BY <1>1, <1>6, <2>1
    <3> HIDE DEF p
    <3>3. /\ Good(Marked(cells1, masks[p], inner), u, lists, masks, facts, owned)
          /\ cells1[masks[p]].kind = "mask"
          /\ \A x \in Words : OuterIndex(x) = p /\ InnerIndex(x) \in inner
                              => Masked(Marked(cells1, masks[p], inner), masks, x)
          /\ \A a \in 0..(u - 1) : cells1[a].kind # "mask"
                              => Marked(cells1, masks[p], inner)[a] = cells1[a]
      BY <2>3, <3>2, MaskGrown
    <3>4. QED
      BY <3>1, <3>3
  <2>7. cells2[block] = Header(Null, mode, Null)
    <3>1. cells1[block].kind = "header"
      BY <2>5, HeaderFields
    <3>2. QED
      BY <2>4, <2>5, <2>6, <3>1
  <2>8. \A x \in w..LastWord(w) : Holds(cells2, masks, facts, x, rdram[x])
    <3>1. \A x \in w..LastWord(w) : InnerIndex(x) \in inner
      BY <1>2 DEF inner
    <3>2. QED
      BY <1>3, <2>6, <3>1 DEF Holds
  <2>9. QED
    BY <2>1, <2>6, <2>7, <2>8
<1>9. CASE ~ DetectIdleLoop(code)
  <2>1. s = Compile(c2, block, code, mode)
    BY <1>4, <1>9
  <2>2. Steps(Compile(c2, block, code, mode), w, mode, facts)
    BY <1>7, <1>8, CompileSteps
  <2>3. QED
    BY <2>1, <2>2 DEF s
<1>10. CASE DetectIdleLoop(code)
  <2>1. w + 1 \in w..LastWord(w) /\ rdram[w] = "b_self" /\ rdram[w + 1] = "nop" /\ w \in w..LastWord(w)
    <3>1. PICK v \in DOMAIN code : DOMAIN code = {v, v + 1} /\ code[v] = "b_self" /\ code[v + 1] = "nop"
      BY <1>10 DEF DetectIdleLoop
    <3>2. LastWord(w) \in Int /\ w <= LastWord(w)
      BY BlockWords
    <3> HIDE DEF code
    <3>3. v \in w..LastWord(w) /\ v + 1 \in w..LastWord(w)
      BY <1>2, <3>1
    <3>4. v = w
      <4>1. w \in {v, v + 1}
        <5>1. w \in w..LastWord(w)
          BY <1>1, <3>2
        <5>2. QED
          BY <1>2, <3>1, <5>1
      <4>2. QED
        BY <1>1, <3>2, <3>3, <4>1
    <3>5. QED
      BY <1>2, <3>1, <3>3, <3>4
  <2>2. <<w, "b_self">> \in facts /\ <<w + 1, "nop">> \in facts
    BY <1>3, <2>1
  <2>3. s.cache = CacheOf(cells3, u, lists, masks) /\ s.run = Idle
    <3>1. s = [cache |-> SetRun(c2, block, Idle), run |-> Idle]
      BY <1>4, <1>10
    <3> HIDE DEF c2
    <3>2. QED
      BY <1>5, <3>1
  <2>4. /\ Execute(s.cache, s.run, w, mode).whole
        /\ RunsRight(Execute(s.cache, s.run, w, mode), mode, facts)
    BY <1>1, <2>2, <2>3, IdleLoopRuns
  <2>5. \E owned3 : Good(cells3, u, lists, masks, facts, owned3)
    <3>1. CASE lists = NoList
      BY <3>1, EmptyIsGood
    <3>2. CASE lists # NoList
      <4>1. /\ Good(cells2, u, lists, masks, facts, owned)
            /\ lists[p] # Null /\ block \in owned[w]
            /\ cells2[block] = Header(Null, mode, Null)
            /\ \A x \in w..LastWord(w) : Holds(cells2, masks, facts, x, rdram[x])
        BY <1>8, <3>2
      <4>2. IdlesAt(cells2, masks, facts, w)
        BY <1>3, <2>1, <4>1 DEF IdlesAt
      <4>3. GoodRun(cells2, u, masks, facts, w, Idle, mode)
        BY <4>2 DEF GoodRun
      <4>4. cells3 = [cells2 EXCEPT ![block] = Header(Idle, mode, Null)]
        <5>1. cells2[block].kind = "header" /\ [cells2[block] EXCEPT !.run = Idle] = Header(Idle, mode, Null)
          BY <4>1 DEF Header
        <5>2. QED
          BY <5>1 DEF cells3, WithRun
      <4>5. Good(cells3, u, lists, masks, facts, owned)
        BY <1>1, <1>6, <4>1, <4>3, <4>4, HeaderWritten
      <4>6. QED
        BY <4>5
    <3>3. QED
      BY <3>1, <3>2
  <2>6. QED
    BY <1>7, <2>3, <2>4, <2>5 DEF Steps, s
<1>11. QED
  BY <1>9, <1>10

\* A step of the JIT.
LEMMA SteppedSteps ==
  ASSUME NEW facts, NEW owned, IsCache(codecache, used, blockcache, code_mask),
         Good(codecache, used, blockcache, code_mask, facts, owned),
         \A x \in Words : <<x, rdram[x]>> \in facts,
         NEW w \in Words, NEW mode
  PROVE  Steps(Stepped(w, mode), w, mode, facts)
<1> DEFINE p    == OuterIndex(w)
           c    == CacheOf(codecache, used, blockcache, code_mask)
           page == IF blockcache[p] = Null THEN NewPage(c, p) ELSE [cache |-> c, list |-> blockcache[p]]
           head == page.list + InnerIndex(w)
           at   == FindMatchingBlock(page.cache, head, mode)
<1>1. PICK cells1, u1, lists1, masks1, owned1 :
        /\ page.cache = CacheOf(cells1, u1, lists1, masks1)
        /\ IsCache(cells1, u1, lists1, masks1)
        /\ Good(cells1, u1, lists1, masks1, facts, owned1)
        /\ \/ lists1[p] # Null /\ page.list = lists1[p]
           \/ lists1 = NoList /\ cells1[page.list + InnerIndex(w)].run = Null
  BY PageFound
<1> HIDE DEF page
<1>2. PICK cells2, u2, lists2, owned2 :
        /\ at.cache = CacheOf(cells2, u2, lists2, masks1)
        /\ IsCache(cells2, u2, lists2, masks1)
        /\ Good(cells2, u2, lists2, masks1, facts, owned2)
        /\ \/ /\ lists2[p] # Null /\ at.block \in owned2[w]
              /\ cells2[at.block].run = Null \/ cells2[at.block].mode = mode
           \/ lists2 = NoList /\ cells2[at.block].run = Null
  <2>1. \/ lists1[p] # Null /\ head = lists1[p] + InnerIndex(w)
        \/ lists1 = NoList /\ cells1[head].run = Null
    BY <1>1
  <2> HIDE DEF head, p
  <2>2. QED
    BY <1>1, <2>1, BlockFound DEF p
<1> DEFINE s == Stepped(w, mode)
           run == at.cache.codecache[at.block].run
<1>3. Cache = c /\ c.blockcache = blockcache
  BY CacheIs, Fields
<1>4. at = BlockAtAddress(Cache, w, mode)
  <2> HIDE DEF c, p
  <2>1. BlockAtAddress(c, w, mode) = at
    BY <1>3 DEF BlockAtAddress, page, p
  <2>2. QED
    BY <1>3, <2>1
<1> HIDE DEF at
<1>5. s = IF run # Null THEN [cache |-> at.cache, run |-> run]
                        ELSE MissingBlockHandler(at.cache, at.block, w, mode)
  BY <1>4 DEF Stepped
<1>6. run = cells2[at.block].run
  BY <1>2, Fields
<1> HIDE DEF s, run, p
<1>7. CASE run = Null
  <2>1. s = MissingBlockHandler(at.cache, at.block, w, mode)
    BY <1>5, <1>7
  <2>2. Steps(MissingBlockHandler(CacheOf(cells2, u2, lists2, masks1), at.block, w, mode), w, mode, facts)
    BY <1>2, MissingSteps DEF p
  <2>3. QED
    BY <1>2, <2>1, <2>2 DEF s
<1>8. CASE run # Null
  <2>1. s.cache = CacheOf(cells2, u2, lists2, masks1) /\ s.run = run
    <3>1. s = [cache |-> at.cache, run |-> run]
      BY <1>5, <1>8
    <3>2. QED
      BY <1>2, <3>1
  <2>2. at.block \in owned2[w] /\ cells2[at.block].mode = mode
    BY <1>2, <1>6, <1>8
  <2>3. GoodHeader(cells2, u2, masks1, facts, owned2[w], w, at.block)
    BY <1>2, <2>2 DEF Good, GoodHeaders
  <2>4. PICK run3, mode3, next3 : /\ cells2[at.block] = Header(run3, mode3, next3)
                                  /\ GoodRun(cells2, u2, masks1, facts, w, run3, mode3)
    BY <2>3 DEF GoodHeader
  <2>5. run3 = run /\ mode3 = mode
    BY <1>6, <2>2, <2>4, HeaderFields
  <2>6. u2 \in Nat
    BY <1>2, BlockCacheAssumption DEF IsCache
  <2>7. /\ Execute(CacheOf(cells2, u2, lists2, masks1), run, w, mode).whole
        /\ RunsRight(Execute(CacheOf(cells2, u2, lists2, masks1), run, w, mode), mode, facts)
    BY <1>8, <2>4, <2>5, <2>6, GoodRunRuns
  <2>8. QED
    BY <1>2, <2>1, <2>7 DEF Steps, s
<1>9. QED
  BY <1>7, <1>8

-----------------------------------------------------------------------------
(***************************************************************************)
(* What nothing leads to is forgotten.                                     *)
(***************************************************************************)
LEMMA ForgetIsGood ==
  ASSUME NEW cells, NEW u, NEW lists, NEW masks, NEW facts, NEW owned,
         IsCache(cells, u, lists, masks), Good(cells, u, lists, masks, facts, owned)
  PROVE  LET cells2 == Forget(CacheOf(cells, u, lists, masks)).codecache
         IN  IsBuffer(cells2) /\ \E owned2 : Good(cells2, u, lists, masks, facts, owned2)
<1> DEFINE c      == CacheOf(cells, u, lists, masks)
           live   == Live(c)
           kept   == [a \in DOMAIN cells |-> IF a \in live THEN cells[a] ELSE Junk]
           Head(w) == lists[OuterIndex(w)] + InnerIndex(w)
           owned2 == [w \in Words |-> IF lists[OuterIndex(w)] = Null THEN {} ELSE Chain(c, Head(w))]
<1>1. /\ IsBuffer(cells) /\ u \in 0..CodecacheSize /\ u \in Nat /\ CodecacheSize \in Nat
      /\ lists \in [Pages -> Null..(CodecacheSize - 1)]
      /\ masks \in [Pages -> Null..(CodecacheSize - 1)]
  BY BlockCacheAssumption DEF IsCache
<1>2. c.codecache = cells /\ c.blockcache = lists /\ c.code_mask = masks
  BY Fields
<1>3. Forget(c).codecache = kept
  <2>1. Forget(c) = [c EXCEPT !.codecache = kept]
    <3> HIDE DEF c
    <3>1. Forget(c) = [c EXCEPT !.codecache = [a \in DOMAIN c.codecache |->
                                                 IF a \in live THEN c.codecache[a] ELSE Junk]]
      BY DEF Forget
    <3>2. QED
      BY <1>2, <3>1
  <2> HIDE DEF kept
  <2>2. [c EXCEPT !.codecache = kept] = CacheOf(kept, u, lists, masks)
    BY FieldWrites
  <2>3. CacheOf(kept, u, lists, masks).codecache = kept
    BY Fields
  <2>4. QED
    BY <2>1, <2>2, <2>3
<1>4. DOMAIN cells = Cells /\ \A a \in 0..(u - 1) : a \in Cells
  BY <1>1 DEF IsBuffer, Cells
<1>5. IsBuffer(kept) /\ \A a \in Cells : a \in live => kept[a] = cells[a]
  BY <1>4 DEF IsBuffer
<1> HIDE DEF c, kept, live
<1>6. \A w \in Words : OuterIndex(w) \in Pages /\ InnerIndex(w) \in 0..(PageWords - 1)
  BY Placed
<1>7. ASSUME NEW w \in Words, lists[OuterIndex(w)] # Null
      PROVE  /\ owned2[w] = Chain(c, Head(w))
             /\ Head(w) \in owned2[w] /\ owned2[w] \subseteq owned[w]
             /\ \A a \in owned2[w] : cells[a].next = Null \/ cells[a].next \in owned2[w]
  <2>1. Head(w) \in owned[w] /\ owned[w] \subseteq 0..(u - 1)
    BY <1>7 DEF Good, GoodOwners
  <2>2. \A a \in owned[w] : cells[a].next = Null \/ (cells[a].next \in owned[w] /\ cells[a].next > a)
    <3> SUFFICES ASSUME NEW a \in owned[w]
                 PROVE  cells[a].next = Null \/ (cells[a].next \in owned[w] /\ cells[a].next > a)
      OBVIOUS
    <3>1. GoodHeader(cells, u, masks, facts, owned[w], w, a)
      BY DEF Good, GoodHeaders
    <3>2. PICK run, mode, next : /\ cells[a] = Header(run, mode, next)
                                 /\ next = Null \/ (next \in owned[w] /\ next > a)
      BY <3>1 DEF GoodHeader
    <3>3. QED
      BY <3>2, HeaderFields
  <2>3. owned2[w] = Chain(c, Head(w))
    BY <1>7
  <2> HIDE DEF owned2, Head
  <2>4. /\ Head(w) \in Chain(c, Head(w)) /\ Chain(c, Head(w)) \subseteq owned[w]
        /\ \A a \in Chain(c, Head(w)) : cells[a].next = Null \/ cells[a].next \in Chain(c, Head(w))
    BY <1>1, <1>2, <2>1, <2>2, ChainIsOwned
  <2>5. QED
    BY <2>3, <2>4
<1>8. ASSUME NEW w \in Words, lists[OuterIndex(w)] # Null, NEW a \in owned2[w]
      PROVE  a \in live /\ CodeCells(c, cells[a].run) \subseteq live
  <2> DEFINE First(p) == IF c.blockcache[p] = Null THEN {}
                         ELSE c.blockcache[p]..(c.blockcache[p] + PageWords - 1)
             p == OuterIndex(w)
  <2>1. a \in Chain(c, Head(w))
    BY <1>7, <1>8
  <2>2. Head(w) \in First(p)
    <3>1. lists[p] \in Int /\ InnerIndex(w) \in 0..(PageWords - 1) /\ PageWords \in Nat
      BY <1>1, <1>6, BlockCacheAssumption DEF Null
    <3>2. First(p) = lists[p]..(lists[p] + PageWords - 1)
      BY <1>2, <1>8
    <3> HIDE DEF First
    <3>3. QED
      BY <3>1, <3>2
  <2>3. Headers(c) = UNION {Chain(c, b) : b \in UNION {First(q) : q \in Pages}}
    BY DEF Headers
  <2> HIDE DEF First, Head
  <2>4. a \in Headers(c)
    BY <1>6, <2>1, <2>2, <2>3
  <2>5. Live(c) = Headers(c) \cup (UNION {CodeCells(c, c.codecache[b].run) : b \in Headers(c)})
                    \cup ({c.code_mask[q] : q \in Pages} \ {Null})
    BY DEF Live
  <2>6. QED
    BY <1>2, <2>4, <2>5 DEF live
<1>9. ASSUME NEW p \in Pages, lists[p] # Null
      PROVE  masks[p] \in 0..(u - 1) /\ kept[masks[p]] = cells[masks[p]]
  <2>1. masks[p] \in 0..(u - 1)
    BY <1>9 DEF Good, GoodMasks
  <2>2. masks[p] # Null
    BY <2>1 DEF Null
  <2>3. masks[p] \in live
    <3> DEFINE others == Headers(c) \cup (UNION {CodeCells(c, c.codecache[b].run) : b \in Headers(c)})
               theirs == {c.code_mask[q] : q \in Pages} \ {Null}
    <3>1. Live(c) = others \cup theirs
      BY DEF Live
    <3>2. masks[p] \in theirs
      BY <1>2, <2>2
    <3> HIDE DEF others, theirs
    <3>3. QED
      BY <3>1, <3>2 DEF live
  <2>4. QED
    BY <1>4, <1>5, <2>1, <2>3
<1>10. \A w \in Words : owned2[w] \subseteq owned[w]
  <2>1. \A w \in Words : lists[OuterIndex(w)] = Null => owned2[w] = {}
    OBVIOUS
  <2> HIDE DEF owned2
  <2>2. QED
    BY <1>7, <2>1
<1>11. GoodOwners(u, lists, owned2)
  <2>1. owned \in [Words -> SUBSET (0..(u - 1))] /\ owned2 = [w \in Words |-> owned2[w]]
    BY DEF Good, GoodOwners
  <2>2. \A w \in Words : lists[OuterIndex(w)] = Null => owned2[w] = {}
    OBVIOUS
  <2> HIDE DEF owned2
  <2>3. owned2 \in [Words -> SUBSET (0..(u - 1))]
    BY <1>10, <2>1
  <2>4. \A w, x \in Words : w # x => owned2[w] \cap owned2[x] = {}
    BY <1>10 DEF Good, GoodOwners
  <2>5. QED
    BY <1>7, <2>2, <2>3, <2>4 DEF GoodOwners
<1>12. GoodMasks(kept, u, lists, masks)
  BY <1>9 DEF Good, GoodMasks
<1>13. ASSUME NEW w \in Words, NEW a \in owned2[w]
       PROVE  GoodHeader(kept, u, masks, facts, owned2[w], w, a)
  <2>1. lists[OuterIndex(w)] # Null
    BY <1>13
  <2> HIDE DEF owned2
  <2>2. a \in owned[w] /\ a \in Cells /\ a \in live /\ CodeCells(c, cells[a].run) \subseteq live
    BY <1>4, <1>8, <1>10, <1>13, <2>1 DEF Good, GoodOwners
  <2>3. kept[a] = cells[a]
    BY <1>5, <2>2
  <2>4. GoodHeader(cells, u, masks, facts, owned[w], w, a)
    BY <2>2 DEF Good, GoodHeaders
  <2>5. PICK run, mode, next :
          /\ cells[a] = Header(run, mode, next)
          /\ next = Null \/ (next \in owned[w] /\ next > a)
          /\ GoodRun(cells, u, masks, facts, w, run, mode)
    BY <2>4 DEF GoodHeader
  <2>6. next = Null \/ (next \in owned2[w] /\ next > a)
    BY <1>7, <1>13, <2>1, <2>5, HeaderFields
  <2>7. \A x, i : x \in Words /\ OuterIndex(x) = OuterIndex(w) /\ Holds(cells, masks, facts, x, i)
                    => Holds(kept, masks, facts, x, i)
    BY <1>6, <1>9, <2>1 DEF Holds, Masked
  <2>8. cells[a].run = run
    BY <2>5, HeaderFields
  <2>9. GoodRun(kept, u, masks, facts, w, run, mode)
    <3>1. CASE run = Null
      BY <3>1 DEF GoodRun
    <3>2. CASE run = Idle /\ IdlesAt(cells, masks, facts, w)
      <4>1. IdlesAt(kept, masks, facts, w)
        BY <2>7, <3>2 DEF IdlesAt
      <4>2. QED
        BY <3>2, <4>1 DEF GoodRun
    <3>3. CASE run \in Nat /\ Compiled(cells, u, masks, facts, w, run, mode)
      <4>1. PICK last, code :
              /\ last \in w..(w + PageWords - 1) /\ DOMAIN code = w..last
              /\ run + (last - w) < u
              /\ \A b \in run..(run + (last - w)) : cells[b] = Code(code, mode, b, w + (b - run))
              /\ \A x \in w..last : /\ x \in Words /\ OuterIndex(x) = OuterIndex(w)
                                    /\ Holds(cells, masks, facts, x, code[x])
        BY <3>3 DEF Compiled
      <4>2. w \in Int /\ last \in Int /\ w <= last /\ run \in run..(run + (last - w))
        BY <3>3, <4>1, Placed, BlockCacheAssumption
      <4>3. CodeCells(c, run) = run..(run + (last - w))
        <5>1. cells[run] = Code(code, mode, run, w + (run - run))
          BY <4>1, <4>2
        <5>2. cells[run].kind = "code" /\ cells[run].code = code
          BY <5>1, CodeFields
        <5>3. Cardinality(w..last) = last - w + 1
          BY <4>2, FS_Interval
        <5>4. run + Cardinality(w..last) - 1 = run + (last - w) /\ ~ (run < 0)
          BY <3>3, <4>2, <5>3
        <5>5. CodeCells(c, run) = run..(run + Cardinality(DOMAIN code) - 1)
          BY <1>2, <5>2, <5>4 DEF CodeCells
        <5>6. QED
          BY <4>1, <5>4, <5>5
      <4>4. \A b \in run..(run + (last - w)) : b \in Cells /\ b \in live
        <5>1. \A b \in run..(run + (last - w)) : b \in 0..(u - 1)
          BY <1>1, <3>3, <4>1, <4>2
        <5>2. QED
          BY <1>4, <2>2, <2>8, <4>3, <5>1
      <4>5. \A b \in run..(run + (last - w)) : kept[b] = Code(code, mode, b, w + (b - run))
        BY <1>5, <4>1, <4>4
      <4>6. \A x \in w..last : /\ x \in Words /\ OuterIndex(x) = OuterIndex(w)
                               /\ Holds(kept, masks, facts, x, code[x])
        BY <2>7, <4>1
      <4>7. Compiled(kept, u, masks, facts, w, run, mode)
        BY <4>1, <4>5, <4>6 DEF Compiled
      <4>8. QED
        BY <3>3, <4>7 DEF GoodRun
    <3>4. QED
      BY <2>5, <3>1, <3>2, <3>3 DEF GoodRun
  <2>10. QED
    BY <2>3, <2>5, <2>6, <2>9 DEF GoodHeader
<1>14. Good(kept, u, lists, masks, facts, owned2)
  <2> HIDE DEF owned2
  <2>1. QED
    BY <1>11, <1>12, <1>13 DEF Good, GoodHeaders
<1>15. QED
  BY <1>3, <1>5, <1>14 DEF c

\* A step that leaves a good cache leaves it without what nothing leads to.
LEMMA Becoming ==
  ASSUME NEW cells, NEW u, NEW lists, NEW masks, NEW facts, NEW owned,
         IsCache(cells, u, lists, masks), Good(cells, u, lists, masks, facts, owned),
         BecomesCache(CacheOf(cells, u, lists, masks))
  PROVE  /\ IsCache(codecache', used', blockcache', code_mask')
         /\ used' = u /\ blockcache' = lists /\ code_mask' = masks
         /\ \E owned2 : Good(codecache', u, lists, masks, facts, owned2)
<1> DEFINE c == CacheOf(cells, u, lists, masks)
<1>1. used' = u /\ blockcache' = lists /\ code_mask' = masks
  BY Fields DEF BecomesCache
<1>2. CASE c = Cache
  <2>1. codecache' = codecache
    BY <1>2 DEF BecomesCache
  <2>2. Cache.codecache = codecache /\ c.codecache = cells
    BY Fields DEF Cache
  <2> HIDE DEF c
  <2>3. codecache' = cells
    BY <1>2, <2>1, <2>2
  <2>4. QED
    BY <1>1, <2>3
<1>3. CASE c # Cache
  <2>1. codecache' = Forget(c).codecache
    BY <1>3 DEF BecomesCache
  <2>2. IsBuffer(Forget(c).codecache) /\ \E owned2 : Good(Forget(c).codecache, u, lists, masks, facts, owned2)
    BY ForgetIsGood
  <2> HIDE DEF c
  <2>3. IsBuffer(codecache') /\ \E owned2 : Good(codecache', u, lists, masks, facts, owned2)
    BY <2>1, <2>2
  <2>4. QED
    BY <1>1, <2>3 DEF IsCache
<1>4. QED
  BY <1>2, <1>3

-----------------------------------------------------------------------------
(***************************************************************************)
(* The inductive invariant: what is known of memory is what it holds, and  *)
(* anything about the words whose change nobody looked up.                 *)
(***************************************************************************)
Known == {f \in Words \X Instructions : f[1] \in missed \/ f[2] = rdram[f[1]]}

JitInv ==
  /\ rdram \in [Words -> Instructions]
  /\ fr \in BOOLEAN
  /\ missed \subseteq Words
  /\ IsCache(codecache, used, blockcache, code_mask)
  /\ \E owned : Good(codecache, used, blockcache, code_mask, Known, owned)

\* What is known of memory, now and after a step.
LEMMA KnownIs ==
  \A x, i : <<x, i>> \in Known <=> x \in Words /\ i \in Instructions /\ (x \in missed \/ i = rdram[x])
  BY DEF Known

\* The same after a step.
LEMMA KnownIsNext ==
  \A x, i : <<x, i>> \in Known' <=> x \in Words /\ i \in Instructions /\ (x \in missed' \/ i = rdram'[x])
<1>1. Known' = {f \in Words \X Instructions : f[1] \in missed' \/ f[2] = rdram'[f[1]]}
  BY DEF Known
<1>2. QED
  BY <1>1

\* The cache starts with no lists (n64_dynarec_init).
LEMMA StartsGood == JitInit => JitInv
<1> SUFFICES ASSUME JitInit PROVE JitInv
  OBVIOUS
<1>1. CodecacheSize \in Nat /\ Programs \subseteq [Words -> Instructions]
  BY BlockCacheAssumption
<1>2. blockcache = NoList /\ code_mask = NoList
  BY DEF JitInit, NoList
<1>3. IsCache(codecache, used, blockcache, code_mask)
  <2>1. IsBuffer(codecache)
    BY DEF JitInit, IsBuffer, Cells
  <2>2. NoList \in [Pages -> Null..(CodecacheSize - 1)]
    BY <1>1 DEF NoList, Null
  <2>3. used \in 0..CodecacheSize
    BY <1>1 DEF JitInit
  <2>4. QED
    BY <1>2, <2>1, <2>2, <2>3 DEF IsCache
<1>4. Good(codecache, used, blockcache, code_mask, Known, NoHeaders)
  BY <1>2, EmptyIsGood
<1>5. QED
  BY <1>1, <1>3, <1>4 DEF JitInit, JitInv

\* Lists may go in a step, when what is left was compiled from what memory holds then.
LEMMA ListsGoNext ==
  ASSUME NEW cells, NEW u, NEW lists, NEW masks, NEW facts, NEW owned,
         IsCache(cells, u, lists, masks), Good(cells, u, lists, masks, facts, owned),
         NEW lists2, NEW masks2, IsCache(cells, u, lists2, masks2),
         \A p \in Pages : lists2[p] # Null => lists2[p] = lists[p] /\ masks2[p] = masks[p],
         \A x \in Words : \A i : lists2[OuterIndex(x)] # Null /\ Holds(cells, masks, facts, x, i)
                                   => <<x, i>> \in Known',
         BecomesCache(CacheOf(cells, u, lists2, masks2))
  PROVE  /\ IsCache(codecache', used', blockcache', code_mask')
         /\ \E owned2 : Good(codecache', used', blockcache', code_mask', Known', owned2)
<1>1. u \in Nat
  BY BlockCacheAssumption DEF IsCache
<1>2. PICK owned2 : Good(cells, u, lists2, masks2, Known', owned2)
  BY <1>1, ListsGo
<1>3. /\ IsCache(codecache', used', blockcache', code_mask')
      /\ used' = u /\ blockcache' = lists2 /\ code_mask' = masks2
      /\ \E owned3 : Good(codecache', u, lists2, masks2, Known', owned3)
  BY <1>2, Becoming
<1>4. QED
  BY <1>3

\* n64_dynarec_step executes what is known of memory, and leaves a good cache.
LEMMA StepIsGood ==
  ASSUME JitInv, NEW w \in Words, NEW mode
  PROVE  Steps(Stepped(w, mode), w, mode, Known)
<1>1. \A x \in Words : <<x, rdram[x]>> \in Known
  BY KnownIs DEF JitInv
<1>2. QED
  BY <1>1, SteppedSteps DEF JitInv

\* So the invariant outlives a block,
LEMMA DynarecStepIsGood ==
  ASSUME JitInv, NEW w \in Words, NEW v \in VirtualPages, DynarecStep(w, v)
  PROVE  JitInv'
<1> DEFINE s == Stepped(w, ModeAt(v))
<1>1. Steps(s, w, ModeAt(v), Known)
  BY StepIsGood
<1>2. PICK cells, u, lists, masks, owned :
        /\ s.cache = CacheOf(cells, u, lists, masks)
        /\ IsCache(cells, u, lists, masks)
        /\ Good(cells, u, lists, masks, Known, owned)
  BY <1>1 DEF Steps
<1>3. BecomesCache(CacheOf(cells, u, lists, masks))
  BY <1>2 DEF DynarecStep
<1>4. blockcache' = lists
  BY <1>2, <1>3, Becoming
<1>5. missed' = {x \in missed : lists[OuterIndex(x)] # Null} /\ rdram' = rdram /\ fr' = fr
  BY <1>4 DEF DynarecStep
<1>6. \A x \in Words : \A i : lists[OuterIndex(x)] # Null /\ Holds(cells, masks, Known, x, i)
                                => <<x, i>> \in Known'
  BY <1>5, KnownIs, KnownIsNext DEF Holds
<1>7. /\ IsCache(codecache', used', blockcache', code_mask')
      /\ \E owned2 : Good(codecache', used', blockcache', code_mask', Known', owned2)
  BY <1>2, <1>3, <1>6, ListsGoNext
<1>8. QED
  BY <1>5, <1>7 DEF JitInv

\* a write, which drops the list of each page it looks up and finds code in, or goes missed,
LEMMA WriteIsGood ==
  ASSUME JitInv, NEW new, NEW looked, NEW blind, looked \subseteq Words, blind \subseteq Words,
         DOMAIN new \subseteq looked \cup blind, \A x \in DOMAIN new : new[x] \in Instructions,
         Write(new, looked, blind)
  PROVE  JitInv'
<1>1. /\ rdram \in [Words -> Instructions] /\ fr \in BOOLEAN /\ missed \subseteq Words
      /\ IsCache(codecache, used, blockcache, code_mask)
  BY DEF JitInv
<1>2. PICK owned : Good(codecache, used, blockcache, code_mask, Known, owned)
  BY DEF JitInv
<1>3. rdram' \in [Words -> Instructions]
      /\ \A x \in Words : x \notin DOMAIN new => rdram'[x] = rdram[x]
  BY <1>1 DEF Write, Overwrite
<1>4. fr' = fr /\ missed' \subseteq Words
      /\ missed' = {w \in missed \cup {x \in blind : rdram'[x] # rdram[x] /\ TRUE \in IsCode(x)} :
                      blockcache'[OuterIndex(w)] # Null}
  BY <1>1 DEF Write
<1>5. PICK hits \in SUBSET looked :
        /\ \A w \in looked : (w \in hits) \in IsCode(w)
        /\ LET Without(f) == [p \in Pages |-> IF p \in {OuterIndex(w) : w \in hits} THEN Null ELSE f[p]]
           IN  BecomesCache([Cache EXCEPT !.blockcache = Without(@), !.code_mask = Without(@)])
  BY DEF Write, Invalidate
<1> DEFINE gone   == {OuterIndex(w) : w \in hits}
           lists2 == [p \in Pages |-> IF p \in gone THEN Null ELSE blockcache[p]]
           masks2 == [p \in Pages |-> IF p \in gone THEN Null ELSE code_mask[p]]
<1>6. BecomesCache(CacheOf(codecache, used, lists2, masks2))
  <2>1. BecomesCache([Cache EXCEPT !.blockcache = [p \in Pages |-> IF p \in gone THEN Null ELSE @[p]],
                                   !.code_mask = [p \in Pages |-> IF p \in gone THEN Null ELSE @[p]]])
    BY <1>5
  <2>2. Cache.blockcache = blockcache /\ Cache.code_mask = code_mask
    BY DEF Cache
  <2>3. [Cache EXCEPT !.blockcache = [p \in Pages |-> IF p \in gone THEN Null ELSE @[p]],
                      !.code_mask = [p \in Pages |-> IF p \in gone THEN Null ELSE @[p]]]
          = [Cache EXCEPT !.blockcache = lists2, !.code_mask = masks2]
    BY <2>2
  <2> HIDE DEF lists2, masks2
  <2>4. [Cache EXCEPT !.blockcache = lists2, !.code_mask = masks2]
          = CacheOf(codecache, used, lists2, masks2)
    <3>1. [Cache EXCEPT !.blockcache = lists2, !.code_mask = masks2]
            = [[Cache EXCEPT !.blockcache = lists2] EXCEPT !.code_mask = masks2]
      BY DEF Cache
    <3>2. [Cache EXCEPT !.blockcache = lists2] = CacheOf(codecache, used, lists2, code_mask)
      BY DEF Cache, CacheOf
    <3>3. [CacheOf(codecache, used, lists2, code_mask) EXCEPT !.code_mask = masks2]
            = CacheOf(codecache, used, lists2, masks2)
      BY DEF CacheOf
    <3>4. QED
      BY <3>1, <3>2, <3>3
  <2>5. QED
    BY <2>1, <2>3, <2>4
<1>7. IsCache(codecache, used, lists2, masks2)
  <2>1. lists2 \in [Pages -> Null..(CodecacheSize - 1)] /\ masks2 \in [Pages -> Null..(CodecacheSize - 1)]
    <3>1. Null \in Null..(CodecacheSize - 1)
      BY BlockCacheAssumption DEF Null
    <3>2. QED
      BY <1>1, <3>1 DEF IsCache
  <2>2. QED
    BY <1>1, <2>1 DEF IsCache
<1>8. \A p \in Pages : lists2[p] # Null => p \notin gone /\ lists2[p] = blockcache[p] /\ masks2[p] = code_mask[p]
  OBVIOUS
<1>9. blockcache' = lists2
  <2> HIDE DEF lists2, masks2
  <2>1. CacheOf(codecache, used, lists2, masks2).blockcache = lists2
    BY Fields
  <2>2. QED
    BY <1>6, <2>1 DEF BecomesCache
<1> HIDE DEF lists2, masks2
<1>10. ASSUME NEW x \in Words, NEW i, lists2[OuterIndex(x)] # Null,
              Holds(codecache, code_mask, Known, x, i)
       PROVE  <<x, i>> \in Known'
  <2>1. /\ i \in Instructions /\ (x \in missed \/ i = rdram[x])
        /\ InnerIndex(x) \in codecache[code_mask[OuterIndex(x)]].inner
    BY <1>10, KnownIs DEF Holds, Masked
  <2>2. OuterIndex(x) \in Pages /\ OuterIndex(x) \notin gone /\ blockcache[OuterIndex(x)] # Null
    BY <1>8, <1>10, Placed
  <2>3. IsCode(x) = {TRUE}
    <3>1. code_mask[OuterIndex(x)] # Null /\ codecache[code_mask[OuterIndex(x)]].kind = "mask"
      <4>1. code_mask[OuterIndex(x)] \in 0..(used - 1)
        BY <1>2, <2>2 DEF Good, GoodMasks
      <4>2. codecache[code_mask[OuterIndex(x)]].kind = "mask"
        BY <1>2, <2>2, Kinds
      <4>3. QED
        BY <4>1, <4>2 DEF Null
    <3>2. QED
      BY <2>1, <3>1 DEF IsCode
  <2>4. x \notin looked
    <3>1. SUFFICES ASSUME x \in looked PROVE FALSE
      OBVIOUS
    <3>2. x \in hits
      BY <1>5, <2>3, <3>1
    <3>3. QED
      BY <2>2, <3>2
  <2>5. CASE x \in missed
    BY <1>4, <1>9, <1>10, <2>1, <2>5, KnownIsNext
  <2>6. CASE x \notin missed /\ rdram'[x] = rdram[x]
    BY <2>1, <2>6, KnownIsNext
  <2>7. CASE rdram'[x] # rdram[x]
    <3>1. x \in blind
      BY <1>3, <2>4, <2>7
    <3>2. x \in missed'
      BY <1>4, <1>9, <1>10, <2>3, <2>7, <3>1
    <3>3. QED
      BY <2>1, <3>2, KnownIsNext
  <2>8. QED
    BY <2>5, <2>6, <2>7
<1>11. /\ IsCache(codecache', used', blockcache', code_mask')
       /\ \E owned2 : Good(codecache', used', blockcache', code_mask', Known', owned2)
  <2>1. \A p \in Pages : lists2[p] # Null => lists2[p] = blockcache[p] /\ masks2[p] = code_mask[p]
    BY <1>8
  <2>2. QED
    BY <1>1, <1>2, <1>6, <1>7, <1>10, <2>1, ListsGoNext
<1>12. QED
  BY <1>1, <1>3, <1>4, <1>11 DEF JitInv

\* a reset, which clears memory and flushes,
LEMMA ResetIsGood ==
  ASSUME JitInv, Reset
  PROVE  JitInv'
<1>1. IsCache(codecache, used, blockcache, code_mask) /\ CodecacheSize \in Nat
  BY BlockCacheAssumption DEF JitInv
<1>2. BecomesCache(CacheOf(codecache, used, NoList, code_mask))
  <2>1. BecomesCache([Cache EXCEPT !.blockcache = NoList])
    BY DEF Reset, NoList
  <2>2. [Cache EXCEPT !.blockcache = NoList] = CacheOf(codecache, used, NoList, code_mask)
    BY DEF Cache, CacheOf
  <2>3. QED
    BY <2>1, <2>2
<1>3. IsCache(codecache, used, NoList, code_mask)
  <2>1. NoList \in [Pages -> Null..(CodecacheSize - 1)]
    BY <1>1 DEF NoList, Null
  <2>2. QED
    BY <1>1, <2>1 DEF IsCache
<1>4. Good(codecache, used, NoList, code_mask, Known', NoHeaders)
  BY EmptyIsGood
<1>5. /\ IsCache(codecache', used', blockcache', code_mask')
      /\ used' = used /\ blockcache' = NoList /\ code_mask' = code_mask
      /\ \E owned2 : Good(codecache', used, NoList, code_mask, Known', owned2)
  BY <1>2, <1>3, <1>4, Becoming
<1>6. rdram' \in [Words -> Instructions] /\ fr' \in BOOLEAN /\ missed' \subseteq Words
  BY DEF Reset, Instructions
<1>7. QED
  BY <1>5, <1>6 DEF JitInv

\* and a change of Status.FR, for which nothing in the cache is dropped.
LEMMA SameCacheIsGood ==
  ASSUME JitInv, UNCHANGED <<rdram, cache, missed>>, fr' \in BOOLEAN
  PROVE  JitInv'
<1>1. /\ rdram' = rdram /\ missed' = missed /\ codecache' = codecache /\ used' = used
      /\ blockcache' = blockcache /\ code_mask' = code_mask
  BY DEF cache, buffer, index
<1>2. Known' = Known
  BY <1>1 DEF Known
<1>3. QED
  BY <1>1, <1>2 DEF JitInv

\* The words that a transfer wraps around.
LEMMA MemorySize == Words = 0..(Cardinality(Words) - 1) /\ Cardinality(Words) \in Nat \ {0}
<1> DEFINE n == NumPages * PageWords
<1>1. n \in Nat \ {0} /\ Words = 0..(n - 1)
  BY SizeOfMemory DEF Words
<1> HIDE DEF n
<1>2. Cardinality(Words) = n
  <2>1. Cardinality(0..(n - 1)) = (n - 1) - 0 + 1
    BY <1>1, FS_Interval
  <2>2. QED
    BY <1>1, <2>1
<1>3. QED
  BY <1>1, <1>2

\* The invariant is inductive.
LEMMA JitStep == JitInv /\ [JitNext]_jit_vars => JitInv'
<1> SUFFICES ASSUME JitInv, [JitNext]_jit_vars PROVE JitInv'
  OBVIOUS
<1> USE BlockCacheAssumption
<1>1. \A i \in Patches : i \in Instructions
  OBVIOUS
<1>2. \A x \in Words : x \in Nat
  BY SizeOfMemory
<1>3. ASSUME NEW w \in Words, NEW v \in VirtualPages, DynarecStep(w, v) PROVE JitInv'
  BY <1>3, DynarecStepIsGood
<1>4. ASSUME NEW w \in Words, NEW i \in Patches, StoreWord(w, i) PROVE JitInv'
  <2>1. Write([x \in {w} |-> i], {w}, {})
    BY <1>4 DEF StoreWord
  <2> DEFINE new == [x \in {w} |-> i]
  <2>2. DOMAIN new \subseteq {w} \cup {} /\ \A x \in DOMAIN new : new[x] \in Instructions
    BY <1>1
  <2> HIDE DEF new
  <2>3. Write(new, {w}, {})
    BY <2>1 DEF new
  <2>4. {w} \subseteq Words /\ {} \subseteq Words
    OBVIOUS
  <2>5. QED
    BY <2>2, <2>3, <2>4, WriteIsGood
<1>5. ASSUME NEW w \in Words, NEW i \in Patches, NEW j \in Patches, StoreDword(w, i, j) PROVE JitInv'
  <2> DEFINE new == [x \in {w, w + 1} |-> IF x = w THEN i ELSE j]
  <2>1. w % 2 = 0 /\ Write(new, {w}, {w + 1})
    BY <1>5 DEF StoreDword
  <2>2. DOMAIN new \subseteq {w} \cup {w + 1} /\ \A x \in DOMAIN new : new[x] \in Instructions
    BY <1>1
  <2>3. w + 1 \in Words
    <3> DEFINE half == PageWords \div 2
               n    == NumPages * half
    <3>1. half \in Int /\ PageWords = 2 * half /\ NumPages \in Int
      OBVIOUS
    <3>2. w \in Nat /\ w < NumPages * PageWords
      BY SizeOfMemory DEF Words
    <3> HIDE DEF half
    <3>3. n \in Int /\ NumPages * PageWords = 2 * n
      BY <3>1, SMTT(30)
    <3> HIDE DEF n
    <3>4. w + 1 < 2 * n
      BY <2>1, <3>2, <3>3
    <3>5. QED
      BY <3>2, <3>3, <3>4 DEF Words
  <2> HIDE DEF new
  <2>4. {w} \subseteq Words /\ {w + 1} \subseteq Words
    BY <2>3
  <2>5. QED
    BY <2>1, <2>2, <2>4, WriteIsGood
<1>6. ASSUME NEW w \in Words, NEW n \in 2..Cardinality(Words), NEW i \in Patches, PiDmaWrite(w, n, i)
      PROVE  JitInv'
  <2> DEFINE addresses == w..(w + n - 1)
             moved     == {a % Cardinality(Words) : a \in addresses}
             new       == [x \in moved |-> i]
  <2>1. Write(new, addresses \cap Words, moved \ addresses)
    BY <1>6 DEF PiDmaWrite
  <2>2. DOMAIN new = moved /\ \A x \in DOMAIN new : new[x] \in Instructions
    BY <1>1
  <2>3. moved \subseteq Words
    <3> DEFINE size == Cardinality(Words)
    <3>1. size \in Nat \ {0} /\ Words = 0..(size - 1)
      BY MemorySize
    <3>2. \A a \in addresses : a \in Nat
      BY <1>2
    <3> HIDE DEF size
    <3>3. \A a \in Nat : a % size \in 0..(size - 1)
      BY <3>1
    <3>4. \A a \in addresses : a % size \in Words
      BY <3>1, <3>2, <3>3
    <3>5. QED
      BY <3>4 DEF size
  <2> HIDE DEF new, moved, addresses
  <2>4. /\ DOMAIN new \subseteq (addresses \cap Words) \cup (moved \ addresses)
        /\ addresses \cap Words \subseteq Words /\ moved \ addresses \subseteq Words
    BY <2>2, <2>3
  <2>5. QED
    BY <2>1, <2>2, <2>4, WriteIsGood
<1>7. ASSUME NEW f \in Words, NEW l \in Words, NEW i \in Patches, RspDmaWrite(f, l, i) PROVE JitInv'
  <2> DEFINE new == [x \in f..l |-> i]
  <2>1. Write(new, {f}, f..l \ {f})
    BY <1>7 DEF RspDmaWrite
  <2>2. DOMAIN new = f..l /\ \A x \in DOMAIN new : new[x] \in Instructions
    BY <1>1
  <2>3. f..l \subseteq Words
    BY <1>2, MemorySize
  <2> HIDE DEF new
  <2>4. DOMAIN new \subseteq {f} \cup (f..l \ {f}) /\ {f} \subseteq Words /\ f..l \ {f} \subseteq Words
    BY <2>2, <2>3
  <2>5. QED
    BY <2>1, <2>2, <2>4, WriteIsGood
<1>8. ASSUME NEW w \in Words, NEW i \in Patches, PifToDram(w, i) PROVE JitInv'
  <2> DEFINE moved == w..(w + SiWords - 1)
             new   == [x \in moved |-> i]
  <2>1. w + SiWords - 1 \in Words /\ Write(new, {}, moved)
    BY <1>8 DEF PifToDram
  <2>2. DOMAIN new = moved /\ \A x \in DOMAIN new : new[x] \in Instructions
    BY <1>1
  <2>3. moved \subseteq Words
    BY <1>2, <2>1, MemorySize
  <2> HIDE DEF new, moved
  <2>4. DOMAIN new \subseteq {} \cup moved /\ {} \subseteq Words
    BY <2>2
  <2>5. QED
    BY <2>1, <2>2, <2>3, <2>4, WriteIsGood
<1>9. ASSUME Cp0StatusUpdated PROVE JitInv'
  BY <1>9, SameCacheIsGood DEF Cp0StatusUpdated, JitInv
<1>10. ASSUME Reset PROVE JitInv'
  BY <1>10, ResetIsGood
<1>11. ASSUME UNCHANGED jit_vars PROVE JitInv'
  BY <1>11, SameCacheIsGood DEF jit_vars, JitInv
<1>12. QED
  BY <1>3, <1>4, <1>5, <1>6, <1>7, <1>8, <1>9, <1>10, <1>11 DEF JitNext

\* A good cache has the shape that the type invariant asks for.
LEMMA JitInvTypes == JitInv => JitTypeOK
<1> SUFFICES ASSUME JitInv PROVE JitTypeOK
  OBVIOUS
<1>1. /\ IsBuffer(codecache) /\ used \in 0..CodecacheSize /\ CodecacheSize \in Nat
      /\ blockcache \in [Pages -> Null..(CodecacheSize - 1)]
      /\ code_mask \in [Pages -> Null..(CodecacheSize - 1)]
  BY BlockCacheAssumption DEF JitInv, IsCache
<1>2. DOMAIN codecache = 0..(CodecacheSize - 1)
  BY <1>1 DEF IsBuffer, Cells
<1>3. PICK owned : Good(codecache, used, blockcache, code_mask, Known, owned)
  BY DEF JitInv
<1>4. ASSUME NEW p \in Pages, blockcache[p] # Null
      PROVE  /\ code_mask[p] \in 0..(used - 1) /\ codecache[code_mask[p]].kind = "mask"
             /\ \A a \in blockcache[p]..(blockcache[p] + PageWords - 1) :
                  a < used /\ codecache[a].kind = "header"
  <2>1. code_mask[p] \in 0..(used - 1) /\ codecache[code_mask[p]].kind = "mask"
    BY <1>3, <1>4, Kinds DEF Good, GoodMasks
  <2>2. ASSUME NEW a \in blockcache[p]..(blockcache[p] + PageWords - 1)
        PROVE  a < used /\ codecache[a].kind = "header"
    <3>1. blockcache[p] \in Int /\ PageWords \in Nat /\ a \in Int
      BY <1>1, BlockCacheAssumption DEF Null
    <3>2. a - blockcache[p] \in 0..(PageWords - 1) /\ blockcache[p] + (a - blockcache[p]) = a
      BY <3>1
    <3>3. PICK w \in Words : OuterIndex(w) = p /\ InnerIndex(w) = a - blockcache[p]
      BY <3>2, PlaceOf
    <3>4. a \in owned[w] /\ owned[w] \subseteq 0..(used - 1)
      BY <1>3, <1>4, <3>2, <3>3 DEF Good, GoodOwners
    <3>5. codecache[a].kind = "header"
      BY <1>3, <3>4, Kinds
    <3>6. QED
      BY <1>1, <3>4, <3>5
  <2>3. QED
    BY <2>1, <2>2
<1>5. QED
  BY <1>1, <1>2, <1>4 DEF JitTypeOK, JitInv

\* From a good cache, what runs to its end is known.
LEMMA JitInvCurrent == JitInv => CodeIsCurrent
<1> SUFFICES ASSUME JitInv, NEW w \in Words, NEW v \in VirtualPages, Ran(w, v).whole
             PROVE  /\ Ran(w, v).mode = ModeAt(v)
                    /\ \A x \in DOMAIN Ran(w, v).code \ missed : Ran(w, v).code[x] = rdram[x]
  BY DEF CodeIsCurrent
<1> DEFINE s == Stepped(w, ModeAt(v))
<1>1. Steps(s, w, ModeAt(v), Known)
  BY StepIsGood
<1>2. Ran(w, v) = Execute(s.cache, s.run, w, ModeAt(v))
  BY DEF Ran
<1>3. RunsRight(Ran(w, v), ModeAt(v), Known)
  <2> HIDE DEF s
  <2>1. QED
    BY <1>1, <1>2 DEF Steps
<1>4. QED
  BY <1>3, KnownIs DEF RunsRight

\* From a good cache, what does not run to its end filled the buffer itself.
LEMMA JitInvWhole == JitInv => CodeIsWhole
<1> SUFFICES ASSUME JitInv, NEW w \in Words, NEW v \in VirtualPages, ~ Ran(w, v).whole
             PROVE  Stepped(w, ModeAt(v)).cache.blockcache[OuterIndex(w)] = Null
  BY DEF CodeIsWhole
<1> DEFINE s == Stepped(w, ModeAt(v))
<1>1. Steps(s, w, ModeAt(v), Known)
  BY StepIsGood
<1>2. Ran(w, v) = Execute(s.cache, s.run, w, ModeAt(v))
  BY DEF Ran
<1> HIDE DEF s
<1>3. PICK cells, u, lists, masks : /\ s.cache = CacheOf(cells, u, lists, masks)
                                    /\ lists[OuterIndex(w)] = Null
  BY <1>1, <1>2 DEF Steps
<1>4. s.cache.blockcache = lists
  BY <1>3, Fields
<1>5. QED
  BY <1>3, <1>4 DEF s

\* The cache keeps its shape: the list of a page is made of headers and its mask
\* is a mask, in the part of the buffer in use, however often the buffer fills up
\* (dynarec_memory_management.c).
THEOREM CacheTyped == JitSpec => []JitTypeOK
<1>1. JitInit => JitInv
  BY StartsGood
<1>2. JitInv /\ [JitNext]_jit_vars => JitInv'
  BY JitStep
<1>3. JitInv => JitTypeOK
  BY JitInvTypes
<1>4. QED
  BY <1>1, <1>2, <1>3, PTL DEF JitSpec

\* Wherever the program goes, it executes what memory holds, for the mode and
\* the address it is at, except words written by who does not look
\* (dynarec.c: n64_dynarec_step, invalidate_dynarec_page).
THEOREM CodeStaysCurrent == JitSpec => []CodeIsCurrent
<1>1. JitInit => JitInv
  BY StartsGood
<1>2. JitInv /\ [JitNext]_jit_vars => JitInv'
  BY JitStep
<1>3. JitInv => CodeIsCurrent
  BY JitInvCurrent
<1>4. QED
  BY <1>1, <1>2, <1>3, PTL DEF JitSpec

\* Code is executed as it was compiled, unless its compilation filled the buffer,
\* and then nothing leads to it afterwards (dynarec_bumpalloc).
THEOREM CodeStaysWhole == JitSpec => []CodeIsWhole
<1>1. JitInit => JitInv
  BY StartsGood
<1>2. JitInv /\ [JitNext]_jit_vars => JitInv'
  BY JitStep
<1>3. JitInv => CodeIsWhole
  BY JitInvWhole
<1>4. QED
  BY <1>1, <1>2, <1>3, PTL DEF JitSpec
=============================================================================
