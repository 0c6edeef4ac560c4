-------------------------- MODULE PeripheralDmaProofs --------------------------
(***************************************************************************)
(* What holds of the DMA engines for every number of event nodes, every    *)
(* set of addresses and every number of resets.                            *)
(***************************************************************************)
EXTENDS PeripheralDma, SequenceTheorems, TLAPS

\* The types that the arguments below need.
Typed ==
  /\ pi_dma_busy \in BOOLEAN /\ pi_io_busy \in BOOLEAN /\ si_dma_busy \in BOOLEAN
  /\ pi_events \in Nat
  /\ write_events \in Nat
  /\ si_events \in Seq(Registers)
  /\ si_reg \in Registers
  /\ fatal \in BOOLEAN
  /\ resets \in Nat

LEMMA InitTyped == Init => Typed
<1> SUFFICES ASSUME Init PROVE Typed
  OBVIOUS
<1>1. si_reg \in Registers
  <2> DEFINE a == CHOOSE a \in Addresses : TRUE
  <2>1. a \in Addresses
    BY DmaAssumption
  <2> QED
    BY <2>1 DEF Init, Registers
<1>2. si_events \in Seq(Registers)
  BY EmptySeq DEF Init
<1> QED
  BY <1>1, <1>2 DEF Init, Typed

LEMMA NextTyped == Typed /\ [Next]_vars => Typed'
<1> SUFFICES ASSUME Typed, [Next]_vars PROVE Typed'
  OBVIOUS
<1> USE DEF Typed
<1>1. CASE StartPiDma
  <2>1. pi_events' \in Nat
    BY <1>1 DEF StartPiDma
  <2>2. fatal' \in BOOLEAN
    BY <1>1 DEF StartPiDma
  <2> QED
    BY <1>1, <2>1, <2>2 DEF StartPiDma, latch, si, rest
<1>2. CASE WriteBus
  <2>1. write_events' \in Nat
    BY <1>2 DEF WriteBus
  <2>2. fatal' \in BOOLEAN
    BY <1>2 DEF WriteBus
  <2> QED
    BY <1>2, <2>1, <2>2 DEF WriteBus, pi, si, rest
<1>3. CASE ReadBus
  <2>1. write_events' \in Nat
    BY <1>3 DEF ReadBus, RemoveOne
  <2> QED
    BY <1>3, <2>1 DEF ReadBus, pi, si, rest
<1>4. CASE WritePiStatus
  BY <1>4 DEF WritePiStatus, pi, latch, si, rest
<1>5. CASE WriteSiDramAddr
  BY <1>5 DEF WriteSiDramAddr, pi, latch, Registers, rest
<1>6. CASE StartSiDma
  <2>1. si_reg' \in Registers
    BY <1>6 DEF StartSiDma, Registers
  <2>2. si_events' \in Seq(Registers)
    BY <1>6, <2>1, AppendProperties DEF StartSiDma
  <2> QED
    BY <1>6, <2>1, <2>2 DEF StartSiDma, pi, latch, rest
<1>7. CASE WriteSiStatus
  BY <1>7 DEF WriteSiStatus, pi, latch, si, rest
<1>8. CASE OnPiDmaComplete
  <2>1. pi_events' \in Nat
    BY <1>8 DEF OnPiDmaComplete
  <2> QED
    BY <1>8, <2>1 DEF OnPiDmaComplete, latch, si, rest
<1>9. CASE OnPiWriteComplete
  <2>1. write_events' \in Nat
    BY <1>9 DEF OnPiWriteComplete
  <2> QED
    BY <1>9, <2>1 DEF OnPiWriteComplete, pi, si, rest
<1>10. CASE OnSiDmaComplete
  <2>1. si_events' \in Seq(Registers)
    BY <1>10, HeadTailProperties DEF OnSiDmaComplete
  <2> QED
    BY <1>10, <2>1 DEF OnSiDmaComplete, pi, latch, rest
<1>11. CASE Reset
  BY <1>11 DEF Reset
<1>12. CASE UNCHANGED vars
  BY <1>12 DEF vars, pi, latch, si, rest
<1> QED
  BY <1>1, <1>2, <1>3, <1>4, <1>5, <1>6, <1>7, <1>8, <1>9, <1>10, <1>11, <1>12
  DEF Next, Program, Complete

(***************************************************************************)
(* The write latch, for every program and with resets at any time.         *)
(***************************************************************************)

LEMMA NextWriteEvent ==
  Typed /\ WriteEventIsCurrent /\ [Next]_vars => WriteEventIsCurrent'
<1> SUFFICES ASSUME Typed, WriteEventIsCurrent, [Next]_vars
             PROVE  WriteEventIsCurrent'
  OBVIOUS
<1> USE DEF Typed, WriteEventIsCurrent
<1>1. CASE WriteBus
  BY <1>1 DEF WriteBus
<1>2. CASE ReadBus
  BY <1>2 DEF ReadBus, RemoveOne
<1>3. CASE OnPiWriteComplete
  BY <1>3 DEF OnPiWriteComplete
<1>4. CASE Reset
  BY <1>4 DEF Reset
<1>5. CASE UNCHANGED latch
  BY <1>5 DEF latch
<1> QED
  BY <1>1, <1>2, <1>3, <1>4, <1>5
  DEF Next, Program, Complete, StartPiDma, WritePiStatus, WriteSiDramAddr,
      StartSiDma, WriteSiStatus, OnPiDmaComplete, OnSiDmaComplete, vars, rest

\* A completion event never ends a later write than its own (pi.c:230-248,
\* 513-515), whatever the program does and whenever the system is reset.
THEOREM NoStaleWriteEvent == Spec => []WriteEventIsCurrent
<1>1. Init => Typed /\ WriteEventIsCurrent
  BY InitTyped DEF Init, WriteEventIsCurrent
<1>2. Typed /\ WriteEventIsCurrent /\ [Next]_vars
        => (Typed /\ WriteEventIsCurrent)'
  BY NextTyped, NextWriteEvent
<1> QED
  BY <1>1, <1>2, PTL DEF Spec

(***************************************************************************)
(* A program that looks at the busy bits, on a system nobody has reset.    *)
(***************************************************************************)

\* What the inductive invariant says of such a system.  With one event at most
\* of each kind, three nodes are enough, and the registers of the SI transfer
\* cannot have changed.
Current == si_events # <<>> => Head(si_events) = si_reg

InFlight ==
  /\ pi_events      = (IF pi_dma_busy THEN 1 ELSE 0)
  /\ write_events   = (IF pi_io_busy  THEN 1 ELSE 0)
  /\ Len(si_events) = (IF si_dma_busy THEN 1 ELSE 0)
  /\ Current
  /\ ~fatal

IInv == Typed /\ (Undisturbed => InFlight)

LEMMA EnoughNodes ==
  ASSUME Nodes >= 3, Typed, InFlight
  PROVE  /\ ~pi_dma_busy => FreeNodes # 0
         /\ ~pi_io_busy  => FreeNodes # 0
         /\ ~si_dma_busy => FreeNodes # 0
  BY DmaAssumption DEF InFlight, Typed, FreeNodes

\* A system that is undisturbed after a step was so before it.
LEMMA WasUndisturbed ==
  ASSUME Typed, [Next]_vars, Undisturbed'
  PROVE  Undisturbed /\ obedient /\ ~Reset
<1>1. ~Reset
  <2>1. resets' = 0
    BY DEF Undisturbed
  <2> QED
    BY <2>1 DEF Reset, Typed
<1>2. UNCHANGED rest
  BY <1>1 DEF Next, Program, Complete, StartPiDma, WriteBus, ReadBus, WritePiStatus,
      WriteSiDramAddr, StartSiDma, WriteSiStatus, OnPiDmaComplete, OnPiWriteComplete,
      OnSiDmaComplete, vars
<1> QED
  BY <1>1, <1>2 DEF rest, Undisturbed

LEMMA NextInFlight ==
  ASSUME Nodes >= 3, Typed, InFlight, obedient, ~Reset, [Next]_vars
  PROVE  InFlight'
<1>1. CASE StartPiDma
  <2>1. ~pi_dma_busy /\ FreeNodes # 0
    BY <1>1, EnoughNodes DEF StartPiDma
  <2>2. /\ pi_events' = (IF pi_dma_busy' THEN 1 ELSE 0)
        /\ ~fatal'
    BY <1>1, <2>1 DEF StartPiDma, InFlight
  <2> QED
    BY <1>1, <2>2 DEF StartPiDma, latch, si, InFlight, Current
<1>2. CASE WriteBus
  <2>1. write_events' = write_events + 1 /\ ~fatal'
    BY <1>2, EnoughNodes DEF WriteBus, InFlight, Current
  <2> QED
    BY <1>2, <2>1 DEF WriteBus, pi, si, InFlight, Current
<1>3. CASE ReadBus
  BY <1>3 DEF ReadBus, RemoveOne, pi, si, InFlight, Current
<1>4. CASE WritePiStatus
  BY <1>4 DEF WritePiStatus, pi, latch, si, InFlight, Current
<1>5. CASE WriteSiDramAddr
  <2>1. si_events = <<>>
    BY <1>5, EmptySeq DEF WriteSiDramAddr, InFlight, Typed
  <2> QED
    BY <1>5, <2>1 DEF WriteSiDramAddr, pi, latch, InFlight, Current
<1>6. CASE StartSiDma
  <2>1. ~si_dma_busy /\ FreeNodes # 0
    BY <1>6, EnoughNodes DEF StartSiDma
  <2>2. si_events = <<>>
    BY <2>1, EmptySeq DEF InFlight, Typed
  <2>3. /\ Len(si_events') = (IF si_dma_busy' THEN 1 ELSE 0)
        /\ Current'
        /\ ~fatal'
    <3>1. CASE instant
      BY <1>6, <2>2, <3>1 DEF StartSiDma, InFlight, Current
    <3>2. CASE ~instant
      <4>1. si_dma_busy' /\ ~fatal' /\ si_events' = Append(si_events, si_reg')
        BY <1>6, <2>1, <3>2 DEF StartSiDma, InFlight
      <4>2. si_events' = <<si_reg'>>
        BY <2>2, <4>1
      <4> QED
        BY <4>1, <4>2 DEF Current
    <3> QED
      BY <3>1, <3>2
  <2>4. UNCHANGED <<pi, latch, rest>>
    BY <1>6 DEF StartSiDma
  <2> QED
    BY <2>3, <2>4 DEF pi, latch, InFlight, Current
<1>7. CASE WriteSiStatus
  BY <1>7 DEF WriteSiStatus, pi, latch, si, InFlight, Current
<1>8. CASE OnPiDmaComplete
  BY <1>8 DEF OnPiDmaComplete, latch, si, InFlight, Current, Typed
<1>9. CASE OnPiWriteComplete
  BY <1>9 DEF OnPiWriteComplete, pi, si, InFlight, Current, Typed
<1>10. CASE OnSiDmaComplete
  <2>1. Len(si_events) = 1
    BY <1>10, EmptySeq DEF OnSiDmaComplete, InFlight, Current, Typed
  <2>2. Len(si_events') = 0 /\ si_events' = <<>>
    BY <1>10, <2>1, HeadTailProperties, EmptySeq DEF OnSiDmaComplete, InFlight, Current, Typed
  <2>3. ~si_dma_busy' /\ UNCHANGED <<pi, latch, fatal, rest>>
    BY <1>10 DEF OnSiDmaComplete
  <2> QED
    BY <2>2, <2>3 DEF pi, latch, InFlight, Current
<1>11. CASE UNCHANGED vars
  BY <1>11 DEF vars, pi, latch, si, InFlight, Current
<1> QED
  BY <1>1, <1>2, <1>3, <1>4, <1>5, <1>6, <1>7, <1>8, <1>9, <1>10, <1>11
  DEF Next, Program, Complete

\* What the busy bits of PI_STATUS and SI_STATUS promise to a program that
\* waits for them: they say exactly what is in flight, an SI transfer moves
\* what was asked for (si.c:31-41), and three event nodes are always enough
\* (scheduler.c:8-13), so that these interfaces never stop the emulator.
THEOREM BusyBitsAreHonest ==
  ASSUME Nodes >= 3
  PROVE  Spec => [](BusyBitsExact /\ SiMovesWhatWasAsked)
<1>1. Init => IInv
  BY InitTyped DEF Init, IInv, InFlight, Current
<1>2. IInv /\ [Next]_vars => IInv'
  BY NextTyped, WasUndisturbed, NextInFlight DEF IInv
<1>3. IInv => BusyBitsExact /\ SiMovesWhatWasAsked
  BY DEF IInv, InFlight, Current, BusyBitsExact, SiMovesWhatWasAsked
<1> QED
  BY <1>1, <1>2, <1>3, PTL DEF Spec
(***************************************************************************)
(* The pool, for every program.                                            *)
(***************************************************************************)

\* The events of these interfaces fit into the nodes there are for them.
Pool == pi_events + write_events + Len(si_events) <= Nodes

LEMMA NextPool == Typed /\ Pool /\ [Next]_vars => Pool'
<1> SUFFICES ASSUME Typed, Pool, [Next]_vars PROVE Pool'
  OBVIOUS
<1>0. /\ pi_events \in Nat /\ write_events \in Nat /\ Len(si_events) \in Nat
      /\ Nodes \in Nat
      /\ pi_events + write_events + Len(si_events) <= Nodes
  BY DmaAssumption, LenProperties DEF Typed, Pool
<1>1. CASE StartPiDma
  <2>1. /\ UNCHANGED <<write_events, si_events>>
        /\ pi_events' = pi_events \/ (FreeNodes # 0 /\ pi_events' = pi_events + 1)
    BY <1>1 DEF StartPiDma, latch, si
  <2> QED
    BY <1>0, <2>1 DEF FreeNodes, Pool
<1>2. CASE WriteBus
  <2>1. /\ UNCHANGED <<pi_events, si_events>>
        /\ write_events' = write_events \/ (FreeNodes # 0 /\ write_events' = write_events + 1)
    BY <1>2 DEF WriteBus, pi, si
  <2> QED
    BY <1>0, <2>1 DEF FreeNodes, Pool
<1>3. CASE ReadBus
  <2>1. UNCHANGED <<pi_events, si_events>> /\ write_events' = RemoveOne(write_events)
    BY <1>3 DEF ReadBus, pi, si
  <2> QED
    BY <1>0, <2>1 DEF RemoveOne, Pool
<1>4. CASE StartSiDma
  <2>1. UNCHANGED <<pi_events, write_events>>
    BY <1>4 DEF StartSiDma, pi, latch
  <2>2. \/ si_events' = si_events
        \/ FreeNodes # 0 /\ si_events' = Append(si_events, si_reg')
    BY <1>4 DEF StartSiDma
  <2>3. si_reg' \in Registers
    BY <1>4 DEF StartSiDma, Registers, Typed
  <2>4. \/ Len(si_events') = Len(si_events)
        \/ FreeNodes # 0 /\ Len(si_events') = Len(si_events) + 1
    BY <2>2, <2>3, AppendProperties DEF Typed
  <2> QED
    BY <1>0, <2>1, <2>4 DEF FreeNodes, Pool
<1>5. CASE OnPiDmaComplete
  BY <1>0, <1>5 DEF OnPiDmaComplete, latch, si, Pool
<1>6. CASE OnPiWriteComplete
  BY <1>0, <1>6 DEF OnPiWriteComplete, pi, si, Pool
<1>7. CASE OnSiDmaComplete
  <2>1. UNCHANGED <<pi_events, write_events>>
    BY <1>7 DEF OnSiDmaComplete, pi, latch
  <2>2. Len(si_events') = Len(si_events) - 1
    BY <1>7, HeadTailProperties DEF OnSiDmaComplete, Typed
  <2> QED
    BY <1>0, <2>1, <2>2 DEF Pool
<1>8. CASE Reset
  BY <1>0, <1>8, EmptySeq DEF Reset, Pool
<1>9. CASE UNCHANGED <<pi_events, write_events, si_events>>
  BY <1>9 DEF Pool
<1> QED
  BY <1>1, <1>2, <1>3, <1>4, <1>5, <1>6, <1>7, <1>8, <1>9
  DEF Next, Program, Complete, WritePiStatus, WriteSiDramAddr, WriteSiStatus,
      vars, pi, latch, si

\* The rest of the type invariant.
Flags ==
  /\ intr \subseteq Interfaces
  /\ instant \in BOOLEAN
  /\ obedient \in BOOLEAN
  /\ resets <= MaxResets

LEMMA NextFlags == Typed /\ Flags /\ [Next]_vars => Flags'
<1> SUFFICES ASSUME Typed, Flags, [Next]_vars PROVE Flags'
  OBVIOUS
<1>1. intr' \subseteq Interfaces
  BY DEF Flags, Interfaces, Next, Program, Complete, StartPiDma, WriteBus, ReadBus,
         WritePiStatus, WriteSiDramAddr, StartSiDma, WriteSiStatus, OnPiDmaComplete,
         OnPiWriteComplete, OnSiDmaComplete, Reset, vars
<1>2. CASE Reset
  BY <1>1, <1>2, DmaAssumption DEF Reset, Flags, Typed
<1>3. CASE UNCHANGED rest
  BY <1>1, <1>3 DEF rest, Flags
<1> QED
  BY <1>2, <1>3
  DEF Next, Program, Complete, StartPiDma, WriteBus, ReadBus, WritePiStatus,
      WriteSiDramAddr, StartSiDma, WriteSiStatus, OnPiDmaComplete,
      OnPiWriteComplete, OnSiDmaComplete, vars

\* Whatever the program does, the queued events never need more nodes than there are
\* (scheduler.c:8-18), and every variable has its type.
THEOREM TypeCorrect == Spec => []TypeOK
<1>1. Init => Typed /\ Pool /\ Flags
  BY InitTyped, EmptySeq, DmaAssumption DEF Init, Pool, Flags, Interfaces
<1>2. Typed /\ Pool /\ Flags /\ [Next]_vars => (Typed /\ Pool /\ Flags)'
  BY NextTyped, NextPool, NextFlags
<1>3. Typed /\ Pool /\ Flags => TypeOK
  <2> SUFFICES ASSUME Typed, Pool, Flags PROVE TypeOK
    OBVIOUS
  <2>1. Len(si_events) \in Nat
    BY LenProperties DEF Typed
  <2>2. pi_events \in 0..Nodes /\ write_events \in 0..Nodes
    BY <2>1, DmaAssumption DEF Typed, Pool
  <2>3. resets \in 0..MaxResets
    BY DmaAssumption DEF Typed, Flags
  <2> QED
    BY <2>2, <2>3 DEF Typed, Pool, Flags, TypeOK
<1> QED
  BY <1>1, <1>2, <1>3, PTL DEF Spec

(***************************************************************************)
(* The serial interface alone, with however few nodes.                     *)
(***************************************************************************)

\* What is in flight is one transfer, with what the registers say.
OneTransfer ==
  si_events # <<>> => si_dma_busy /\ Len(si_events) = 1 /\ Current

LEMMA NextOneTransfer ==
  ASSUME Typed, OneTransfer, obedient, ~Reset, [Next]_vars
  PROVE  OneTransfer'
<1>1. CASE WriteSiDramAddr
  BY <1>1 DEF WriteSiDramAddr, OneTransfer
<1>2. CASE StartSiDma
  <2>1. si_events = <<>>
    BY <1>2 DEF StartSiDma, OneTransfer
  <2>2. CASE si_events' = si_events
    BY <2>1, <2>2 DEF OneTransfer
  <2>3. CASE si_dma_busy' /\ si_events' = Append(si_events, si_reg')
    <3>1. si_events' = <<si_reg'>>
      BY <2>1, <2>3
    <3> QED
      BY <2>3, <3>1 DEF OneTransfer, Current
  <2> QED
    BY <1>2, <2>2, <2>3 DEF StartSiDma
<1>3. CASE OnSiDmaComplete
  <2>1. si_events' = <<>>
    BY <1>3, HeadTailProperties, EmptySeq DEF OnSiDmaComplete, OneTransfer, Typed
  <2> QED
    BY <2>1 DEF OneTransfer
<1>4. CASE UNCHANGED si
  BY <1>4 DEF si, OneTransfer, Current
<1> QED
  BY <1>1, <1>2, <1>3, <1>4
  DEF Next, Program, Complete, StartPiDma, WriteBus, ReadBus, WritePiStatus,
      WriteSiStatus, OnPiDmaComplete, OnPiWriteComplete, vars

\* An SI transfer, which reads its registers when it completes (si.c:31-41), moves what
\* was asked for when it was started, also when the nodes are too few.
THEOREM TransferMovesWhatWasAsked == Spec => []SiMovesWhatWasAsked
<1> DEFINE I == Typed /\ (Undisturbed => OneTransfer)
<1>1. Init => I
  BY InitTyped DEF Init, OneTransfer
<1>2. I /\ [Next]_vars => I'
  BY NextTyped, WasUndisturbed, NextOneTransfer
<1>3. I => SiMovesWhatWasAsked
  BY DEF OneTransfer, Current, SiMovesWhatWasAsked
<1> QED
  BY <1>1, <1>2, <1>3, PTL DEF Spec
================================================================================
