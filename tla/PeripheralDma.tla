---------------------------- MODULE PeripheralDma ----------------------------
(***************************************************************************)
(* The DMA engines of the peripheral and the serial interface and the      *)
(* write latch of the PI bus (src/interface/pi.c, src/interface/si.c),     *)
(* with the scheduler they wait on.  A transfer ends when its completion   *)
(* event is delivered; until then the interface says it is busy.  A build  *)
(* with INSTANT_DMA, which CMakeLists.txt:46 makes the default, queues no  *)
(* event for a transfer but completes it within the write that starts it;  *)
(* the write latch is the same in both builds.                             *)
(*                                                                         *)
(* Time is abstracted: how long a PI transfer takes depends on its length, *)
(* so the completions of two transfers may be delivered in either order;   *)
(* all SI transfers take SI_DMA_DELAY, so theirs are delivered in the      *)
(* order they were started in.                                             *)
(***************************************************************************)
EXTENDS Integers, Sequences

CONSTANTS
  Nodes,         \* event nodes of the scheduler left to the PI and the SI
  Addresses,     \* what the program writes to SI_DRAM_ADDR
  MaxResets      \* bound: how often the user resets the system

ASSUME DmaAssumption ==
  /\ Nodes \in Nat
  /\ Addresses # {}
  /\ MaxResets \in Nat

VARIABLES
  pi_dma_busy,   \* n64sys.pi.dma_busy, bit 0 of PI_STATUS
  pi_io_busy,    \* n64sys.pi.io_busy, bit 1 of PI_STATUS
  pi_events,     \* how many SCHEDULER_PI_DMA_COMPLETE events are queued
  write_events,  \* how many SCHEDULER_PI_BUS_WRITE_COMPLETE events are queued
  si_dma_busy,   \* n64sys.si.dma_busy, bit 0 of SI_STATUS
  si_reg,        \* n64sys.si.dma_to_dram and si_reg.dram_address
  si_events,     \* the queued SCHEDULER_SI_DMA_COMPLETE events, each with the
                 \* registers its transfer was started with (history)
  intr,          \* the bits of MI_INTR_REG these interfaces raise
  fatal,         \* the emulator has stopped in logfatal
  instant,       \* built with INSTANT_DMA
  obedient,      \* whether the program looks at a busy bit before it writes
  resets         \* resets so far

pi    == <<pi_dma_busy, pi_events>>
latch == <<pi_io_busy, write_events>>
si    == <<si_dma_busy, si_reg, si_events>>
rest  == <<instant, obedient, resets>>
vars  == <<pi, latch, si, intr, fatal, rest>>

Interfaces == {"PI", "SI"}

Registers == [to_dram : BOOLEAN, dram_address : Addresses]

FreeNodes == Nodes - (pi_events + write_events + Len(si_events))

(***************************************************************************)
(* Peripheral interface.                                                   *)
(***************************************************************************)

\* Each started transfer takes an event node, and the emulator stops when
\* there is none.  The program is told by dma_busy when the engine is free.
StartPiDma ==
  /\ obedient => ~pi_dma_busy
  /\ \/ /\ instant
        /\ pi_dma_busy' = FALSE
        /\ intr' = intr \cup {"PI"}
        /\ UNCHANGED <<pi_events, fatal>>
     \/ /\ ~instant
        /\ pi_dma_busy' = TRUE
        /\ IF FreeNodes = 0
             THEN fatal' = TRUE /\ UNCHANGED pi_events
             ELSE pi_events' = pi_events + 1 /\ UNCHANGED fatal
        /\ UNCHANGED intr
  /\ UNCHANGED <<latch, si, rest>>

OnPiDmaComplete ==
  /\ pi_events > 0
  /\ pi_events' = pi_events - 1
  /\ intr' = intr \cup {"PI"}
  /\ pi_dma_busy' = FALSE
  /\ UNCHANGED <<latch, si, fatal, rest>>

\* A write to the cartridge is ignored while an earlier one is on the bus.
WriteBus ==
  /\ ~pi_io_busy
  /\ pi_io_busy' = TRUE
  /\ IF FreeNodes = 0
       THEN fatal' = TRUE /\ UNCHANGED write_events
       ELSE write_events' = write_events + 1 /\ UNCHANGED fatal
  /\ UNCHANGED <<pi, si, intr, rest>>

\* scheduler_remove_event: nothing happens when there is no such event.
RemoveOne(n) == IF n = 0 THEN 0 ELSE n - 1

\* mutant: a read ends the write but forgets to take its event away
ReadBusKeepsEvent ==
  /\ pi_io_busy
  /\ pi_io_busy' = FALSE
  /\ UNCHANGED <<pi, si, write_events, intr, fatal, rest>>

\* A read while a write is on the bus ends the write there and then.
ReadBus ==
  /\ pi_io_busy
  /\ pi_io_busy' = FALSE
  /\ write_events' = RemoveOne(write_events)
  /\ UNCHANGED <<pi, si, intr, fatal, rest>>

\* mutant: the write completion clears the busy bit of the DMA engine
OnPiWriteCompleteClearsDma ==
  /\ write_events > 0
  /\ write_events' = write_events - 1
  /\ pi_io_busy' = FALSE
  /\ pi_dma_busy' = FALSE
  /\ UNCHANGED <<pi_events, si, intr, fatal, rest>>

OnPiWriteComplete ==
  /\ write_events > 0
  /\ write_events' = write_events - 1
  /\ pi_io_busy' = FALSE
  /\ UNCHANGED <<pi, si, intr, fatal, rest>>

WritePiStatus ==
  /\ intr' = intr \ {"PI"}
  /\ UNCHANGED <<pi, latch, si, fatal, rest>>

(***************************************************************************)
(* Serial interface.                                                       *)
(***************************************************************************)

WriteSiDramAddr ==
  /\ obedient => ~si_dma_busy
  /\ \E a \in Addresses : si_reg' = [si_reg EXCEPT !.dram_address = a]
  /\ UNCHANGED <<pi, latch, si_dma_busy, si_events, intr, fatal, rest>>

\* mutant: the engine does not say it is busy
StartSiDmaForgetsBusy ==
  /\ obedient => ~si_dma_busy
  /\ \E d \in BOOLEAN : si_reg' = [si_reg EXCEPT !.to_dram = d]
  /\ IF FreeNodes = 0
       THEN fatal' = TRUE /\ UNCHANGED si_events
       ELSE si_events' = Append(si_events, si_reg') /\ UNCHANGED fatal
  /\ UNCHANGED <<pi, latch, si_dma_busy, intr, rest>>

StartSiDma ==
  /\ obedient => ~si_dma_busy
  /\ \E d \in BOOLEAN : si_reg' = [si_reg EXCEPT !.to_dram = d]
  /\ \/ /\ instant
        /\ si_dma_busy' = FALSE
        /\ intr' = intr \cup {"SI"}
        /\ UNCHANGED <<si_events, fatal>>
     \/ /\ ~instant
        /\ si_dma_busy' = TRUE
        /\ IF FreeNodes = 0
             THEN fatal' = TRUE /\ UNCHANGED si_events
             ELSE si_events' = Append(si_events, si_reg') /\ UNCHANGED fatal
        /\ UNCHANGED intr
  /\ UNCHANGED <<pi, latch, rest>>

\* What is moved, and where to, is read from the registers now.
OnSiDmaComplete ==
  /\ si_events # <<>>
  /\ si_events' = Tail(si_events)
  /\ si_dma_busy' = FALSE
  /\ intr' = intr \cup {"SI"}
  /\ UNCHANGED <<pi, latch, si_reg, fatal, rest>>

WriteSiStatus ==
  /\ intr' = intr \ {"SI"}
  /\ UNCHANGED <<pi, latch, si, fatal, rest>>

(***************************************************************************)
(* A reset empties the scheduler; the interfaces keep their flags.         *)
(***************************************************************************)

Reset ==
  /\ resets < MaxResets
  /\ resets' = resets + 1
  /\ pi_events' = 0
  /\ write_events' = 0
  /\ si_events' = <<>>
  /\ UNCHANGED <<pi_dma_busy, pi_io_busy, si_dma_busy, si_reg, intr, fatal, instant, obedient>>

Init ==
  /\ pi_dma_busy = FALSE /\ pi_io_busy = FALSE /\ si_dma_busy = FALSE
  /\ pi_events = 0 /\ write_events = 0 /\ si_events = <<>>
  /\ si_reg = [to_dram |-> FALSE, dram_address |-> CHOOSE a \in Addresses : TRUE]
  /\ intr = {}
  /\ fatal = FALSE
  /\ instant \in BOOLEAN
  /\ obedient \in BOOLEAN
  /\ resets = 0

Complete == OnPiDmaComplete \/ OnPiWriteComplete \/ OnSiDmaComplete

Program ==
  \/ StartPiDma \/ WriteBus \/ ReadBus \/ WritePiStatus
  \/ WriteSiDramAddr \/ StartSiDma \/ WriteSiStatus

Next == ~fatal /\ (Program \/ Complete \/ Reset)

Spec == Init /\ [][Next]_vars

(***************************************************************************)
(* Properties.                                                             *)
(***************************************************************************)

\* Types, and the pool: the queued events never need more nodes than there are.
TypeOK ==
  /\ pi_dma_busy \in BOOLEAN /\ pi_io_busy \in BOOLEAN /\ si_dma_busy \in BOOLEAN
  /\ pi_events \in 0..Nodes
  /\ write_events \in 0..Nodes
  /\ si_events \in Seq(Registers)
  /\ si_reg \in Registers
  /\ intr \subseteq Interfaces
  /\ fatal \in BOOLEAN
  /\ instant \in BOOLEAN
  /\ obedient \in BOOLEAN
  /\ resets \in 0..MaxResets
  /\ pi_events + write_events + Len(si_events) <= Nodes

\* There is at most one write-complete event, and only while the bus is busy:
\* a read that ends a write early also takes its event away, so a stale event
\* never ends the write that comes after it.
WriteEventIsCurrent == write_events <= (IF pi_io_busy THEN 1 ELSE 0)

\* A reset loses completion events, so that what follows is said of a system
\* nobody has reset, and of a program that waits for the busy bits.
Undisturbed == obedient /\ resets = 0

\* The busy bits tell a program that obeys them exactly what is in flight: one
\* transfer per engine, one write on the bus, and none when they are clear.  So
\* three nodes are enough, and the emulator never stops for want of one.
BusyBitsExact ==
  Undisturbed /\ Nodes >= 3 =>
    /\ pi_events      = (IF pi_dma_busy THEN 1 ELSE 0)
    /\ write_events   = (IF pi_io_busy  THEN 1 ELSE 0)
    /\ Len(si_events) = (IF si_dma_busy THEN 1 ELSE 0)
    /\ ~fatal

\* The transfer made at completion is the one the program asked for, although
\* its direction and address are read only then (si.c:34-38).
SiMovesWhatWasAsked ==
  Undisturbed /\ si_events # <<>> => Head(si_events) = si_reg
===============================================================================
