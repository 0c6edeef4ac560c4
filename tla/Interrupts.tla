------------------------------ MODULE Interrupts ------------------------------
(***************************************************************************)
(* How an interrupt reaches the CPU: the MI lines and their mask, the      *)
(* interrupt bits of $Cause and $Status, and the HANDLE_INTERRUPT event    *)
(* through which r4300i_interrupt_update asks the scheduler for the        *)
(* interrupt to be taken.  The code never looks at the condition itself    *)
(* again: an update that is forgotten is an interrupt that is lost.        *)
(*                                                                         *)
(* The main loop alternates between running the CPU and one call of        *)
(* scheduler_tick.  The interpreter runs one instruction in between, the   *)
(* JIT a block of them.  HANDLE_INTERRUPT is queued one tick ahead, so it  *)
(* is due at the next tick; other events that are due may go first.        *)
(***************************************************************************)
EXTENDS Integers

CONSTANTS Line,      \* the lines of MI_INTR_REG: VI, SI, PI, AI, DP, SP
          SoftwareIp,\* the bits of Cause.IP a program writes: ip0 and ip1
          MaxResets  \* bound: how often the system may be reset

Mi == 2              \* cause.ip2: the output of the MI
Timer == 7           \* cause.ip7: the Count/Compare timer
Ip == SoftwareIp \cup {Mi, Timer}

ASSUME InterruptConstants ==
  /\ SoftwareIp \subseteq {0, 1}
  /\ MaxResets \in Nat

VARIABLES use_interpreter,   \* which of the two CPU engines runs
          at_tick,           \* the loop is about to call scheduler_tick
          intr, intr_mask,   \* MI_INTR_REG and MI_INTR_MASK_REG
          ip,                \* cause.interrupt_pending
          im, ie, exl, erl,  \* the fields of $Status
          handle_interrupt,  \* how many HANDLE_INTERRUPT events are queued
          resets

mi == <<intr, intr_mask>>
status == <<im, ie, exl, erl>>
vars == <<use_interpreter, at_tick, mi, ip, status, handle_interrupt, resets>>

Init ==
  /\ use_interpreter \in BOOLEAN
  /\ at_tick = FALSE
  /\ intr = {} /\ intr_mask = {}
  /\ ip = {}
  /\ im = {} /\ ie = FALSE /\ exl = FALSE /\ erl = FALSE
  /\ handle_interrupt = 0
  /\ resets = 0

(***************************************************************************)
(* r4300i_interrupt_update, when `queued` events are in the queue: the old *)
(* event is removed and, if an unmasked interrupt is pending, a new one is *)
(* queued.                                                                 *)
(***************************************************************************)
UpdateFrom(queued) ==
  handle_interrupt' = (IF queued > 0 THEN queued - 1 ELSE 0)
                        + (IF ip' \cap im' # {} THEN 1 ELSE 0)

InterruptUpdate == UpdateFrom(handle_interrupt)

(***************************************************************************)
(* on_interrupt_change, after the lines or the mask were written.          *)
(***************************************************************************)
OnInterruptChange ==
  /\ ip' = (ip \ {Mi}) \cup (IF intr' \cap intr_mask' # {} THEN {Mi} ELSE {})
  /\ InterruptUpdate

InterruptRaise(line) ==
  /\ intr' = intr \cup {line}
  /\ UNCHANGED <<intr_mask, status>>
  /\ OnInterruptChange

InterruptLower(line) ==
  /\ intr' = intr \ {line}
  /\ UNCHANGED <<intr_mask, status>>
  /\ OnInterruptChange

\* mutant: unmasking a line that is already up is not noticed
WriteMaskSilently(clear, set) ==
  /\ intr_mask' = (intr_mask \ clear) \cup set
  /\ UNCHANGED <<intr, ip, status, handle_interrupt>>

(***************************************************************************)
(* A write to MI_INTR_MASK_REG: each line has a bit that clears its mask   *)
(* and one that sets it, in this order.                                    *)
(***************************************************************************)
WriteMask(clear, set) ==
  /\ intr_mask' = (intr_mask \ clear) \cup set
  /\ UNCHANGED <<intr, status>>
  /\ OnInterruptChange

\* mutant: enabling interrupts does not update
WriteStatusSilently(newIm, newIe, newExl, newErl) ==
  /\ im' = newIm /\ ie' = newIe /\ exl' = newExl /\ erl' = newErl
  /\ UNCHANGED <<mi, ip, handle_interrupt>>

(***************************************************************************)
(* set_cp0_reg_status, and everything else that ends in cp0_status_updated *)
(* with the lines and Cause.IP as they are.                                *)
(***************************************************************************)
WriteStatus(newIm, newIe, newExl, newErl) ==
  /\ im' = newIm /\ ie' = newIe /\ exl' = newExl /\ erl' = newErl
  /\ UNCHANGED <<mi, ip>>
  /\ InterruptUpdate

\* mutant: returning from a handler does not update
EretSilently ==
  /\ IF erl THEN erl' = FALSE /\ UNCHANGED exl ELSE exl' = FALSE /\ UNCHANGED erl
  /\ UNCHANGED <<mi, ip, im, ie, handle_interrupt>>

Eret ==
  IF erl THEN WriteStatus(im, ie, exl, FALSE)
         ELSE WriteStatus(im, ie, FALSE, erl)

(***************************************************************************)
(* r4300i_handle_exception for an instruction that faults.                 *)
(***************************************************************************)
HandleException == WriteStatus(im, ie, TRUE, erl)

(***************************************************************************)
(* A write to $Cause changes the software interrupts only.  The            *)
(* interpreter then updates; the code the JIT emits for the instruction    *)
(* does not.  (A compiled block may also hand the instruction to the       *)
(* interpreter.)                                                           *)
(***************************************************************************)
WriteCause(software) ==
  /\ ip' = (ip \ SoftwareIp) \cup software
  /\ UNCHANGED <<mi, status>>
  /\ InterruptUpdate

WriteCauseCompiled(software) ==
  /\ ~use_interpreter
  /\ ip' = (ip \ SoftwareIp) \cup software
  /\ UNCHANGED <<mi, status, handle_interrupt>>

(***************************************************************************)
(* A write to $Compare acknowledges the timer.  Neither engine updates.    *)
(***************************************************************************)
WriteCompare ==
  /\ ip' = ip \ {Timer}
  /\ UNCHANGED <<mi, status, handle_interrupt>>

(***************************************************************************)
(* The CPU executes an instruction that changes one of these.  The         *)
(* interpreter goes to scheduler_tick after every instruction.             *)
(***************************************************************************)
Instruction(change) ==
  /\ ~at_tick
  /\ change
  /\ IF use_interpreter THEN at_tick' = TRUE ELSE at_tick' \in BOOLEAN
  /\ UNCHANGED <<use_interpreter, resets>>

WritesInterrupts(line) == Instruction(InterruptRaise(line) \/ InterruptLower(line))
WritesMask(clear, set) == Instruction(WriteMask(clear, set))
WritesStatus(newIm, newIe, newExl, newErl) ==
  Instruction(WriteStatus(newIm, newIe, newExl, newErl))
Returns == Instruction(Eret)
Faults == Instruction(HandleException)
WritesCause(software) == Instruction(WriteCause(software))
WritesCauseCompiled(software) == Instruction(WriteCauseCompiled(software))
WritesCompare == Instruction(WriteCompare)
Computes == Instruction(UNCHANGED <<mi, ip, status, handle_interrupt>>)

(***************************************************************************)
(* The RSP and the AI are stepped outside the scheduler: they raise their  *)
(* lines between two turns of the CPU.                                     *)
(***************************************************************************)
DeviceRaises(line) ==
  /\ ~at_tick
  /\ InterruptRaise(line)
  /\ UNCHANGED <<use_interpreter, at_tick, resets>>

(***************************************************************************)
(* scheduler_tick and handle_scheduler_event: one event at most.           *)
(***************************************************************************)
NothingDue ==
  /\ at_tick
  /\ handle_interrupt = 0
  /\ at_tick' = FALSE
  /\ UNCHANGED <<use_interpreter, mi, ip, status, handle_interrupt, resets>>

DeviceEvent(line) ==
  /\ at_tick
  /\ at_tick' = FALSE
  /\ InterruptRaise(line)
  /\ UNCHANGED <<use_interpreter, resets>>

CompareEvent ==
  /\ at_tick
  /\ at_tick' = FALSE
  /\ ip' = ip \cup {Timer}
  /\ UNCHANGED <<use_interpreter, mi, status, resets>>
  /\ InterruptUpdate

Enabled == ie /\ ~exl /\ ~erl

HandleInterrupt ==
  /\ at_tick
  /\ handle_interrupt > 0
  /\ at_tick' = FALSE
  /\ UNCHANGED <<use_interpreter, mi, ip, im, ie, erl, resets>>
  /\ IF Enabled
       THEN exl' = TRUE /\ UpdateFrom(handle_interrupt - 1)
       ELSE UNCHANGED exl /\ handle_interrupt' = handle_interrupt - 1

(***************************************************************************)
(* reset_n64system clears the CPU's side and empties the scheduler; the MI *)
(* keeps its lines and its mask.  It runs inside the handler of an event.  *)
(***************************************************************************)
ResetSystem ==
  /\ at_tick
  /\ resets < MaxResets
  /\ resets' = resets + 1
  /\ ip' = {}
  /\ im' = {} /\ ie' = FALSE /\ exl' = FALSE /\ erl' = FALSE
  /\ handle_interrupt' = 0
  /\ UNCHANGED <<use_interpreter, at_tick, mi>>

Next ==
  \/ \E line \in Line : WritesInterrupts(line) \/ DeviceRaises(line) \/ DeviceEvent(line)
  \/ \E clear, set \in SUBSET Line : WritesMask(clear, set)
  \/ \E newIm \in SUBSET Ip, newIe, newExl, newErl \in BOOLEAN :
       WritesStatus(newIm, newIe, newExl, newErl)
  \/ \E software \in SUBSET SoftwareIp :
       WritesCause(software) \/ WritesCauseCompiled(software)
  \/ Returns \/ Faults \/ WritesCompare \/ Computes
  \/ NothingDue \/ CompareEvent \/ HandleInterrupt \/ ResetSystem

Spec == Init /\ [][Next]_vars

(***************************************************************************)
(* The loop never stops running the CPU.  The events that may go before    *)
(* HANDLE_INTERRUPT are timers that are set again for a later time, so     *)
(* they cannot be due at every tick.                                       *)
(***************************************************************************)
Runs == WF_vars(Next /\ at_tick' # at_tick)
FairSpec == Spec /\ Runs /\ SF_vars(HandleInterrupt)

--------------------------------------------------------------------------------
(***************************************************************************)
(* Types.  At most one HANDLE_INTERRUPT is queued: the scheduler's pool    *)
(* has a node for every kind of event, not for every update.               *)
(***************************************************************************)
TypeOK ==
  /\ use_interpreter \in BOOLEAN /\ at_tick \in BOOLEAN
  /\ intr \subseteq Line /\ intr_mask \subseteq Line
  /\ ip \subseteq Ip
  /\ im \subseteq Ip /\ ie \in BOOLEAN /\ exl \in BOOLEAN /\ erl \in BOOLEAN
  /\ handle_interrupt \in 0..1
  /\ resets \in 0..MaxResets

(***************************************************************************)
(* "[ip2] is set to 1 when (MI_INTR_REG & MI_INTR_MASK_REG) != 0"          *)
(* (interrupts.rst): the copy in $Cause is up to date.  A reset clears the *)
(* copy and not the MI: from then on a line that is up may go unseen, but  *)
(* the CPU still sees no interrupt that is not there.                      *)
(***************************************************************************)
Ip2FollowsMi ==
  /\ Mi \in ip => intr \cap intr_mask # {}
  /\ resets = 0 /\ intr \cap intr_mask # {} => Mi \in ip

(***************************************************************************)
(* The condition under which the CPU has to take an interrupt              *)
(* (interrupts.rst, should_service_interrupt).                             *)
(***************************************************************************)
Serviceable(lines) == ip \cap im \cap lines # {} /\ Enabled

(***************************************************************************)
(* An interrupt the CPU has to take is on its way: the event that takes it *)
(* is queued.                                                              *)
(***************************************************************************)
ServiceableIsQueued == Serviceable(Ip) => handle_interrupt = 1

(***************************************************************************)
(* The same as far as it holds: with the interpreter for every interrupt,  *)
(* with the JIT for those that hardware raises.                            *)
(***************************************************************************)
HardwareServiceableIsQueued == Serviceable({Mi, Timer}) => handle_interrupt = 1

InterpreterServiceableIsQueued == use_interpreter => ServiceableIsQueued

InterruptsAreQueued == HardwareServiceableIsQueued /\ InterpreterServiceableIsQueued

(***************************************************************************)
(* An interrupt the CPU has to take is eventually taken, unless the        *)
(* program withdraws or masks it first.                                    *)
(***************************************************************************)
InterruptIsTaken == Serviceable({Mi, Timer}) ~> ~Serviceable({Mi, Timer})

===============================================================================
