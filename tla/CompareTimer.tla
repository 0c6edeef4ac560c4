----------------------------- MODULE CompareTimer -----------------------------
(***************************************************************************)
(* The Count/Compare timer.  The code never compares the two registers: it *)
(* computes when they will be equal and queues a COMPARE_INTERRUPT event   *)
(* for that time.  That works as long as count and the scheduler's clock   *)
(* advance together and the event is queued for the right distance.        *)
(*                                                                         *)
(* count is incremented once per cycle and has one bit more than the       *)
(* Count register, which is its upper part.  The module is parameterised   *)
(* by the number of values of a register.                                  *)
(*                                                                         *)
(* A block of the JIT executes up to MaxBlock instructions before count    *)
(* and the clock move; the interpreter moves them after each.              *)
(***************************************************************************)
EXTENDS Integers

CONSTANTS Size,      \* the number of values of Count and Compare: 2^32
          MaxBlock,  \* bound: instructions in a block
          MaxLate,   \* bound: ticks by which other events may delay this one
          Counts,    \* the values a program writes to Count
          Compares   \* the values a program writes to Compare

Wrap == 2 * Size     \* the number of values of count

ASSUME CompareTimerConstants ==
  /\ Size \in Nat \ {0}
  /\ MaxBlock \in Nat \ {0}
  /\ MaxLate \in Nat
  /\ Counts \subseteq 0..(Size - 1) /\ Compares \subseteq 0..(Size - 1)

VARIABLES use_interpreter, \* which of the two CPU engines runs
          count,     \* cp0.count, as it was when the block began
          compare,   \* cp0.compare
          index,     \* instructions of the block executed so far
          queued,    \* is a COMPARE_INTERRUPT event queued
          remaining, \* if so, the ticks until it is due, seen from the clock
          ip7,       \* cause.ip7
          matched    \* Count has equalled Compare since Compare was written

timer_vars == <<use_interpreter, count, compare, index, queued, remaining, ip7, matched>>

TimerInit ==
  /\ use_interpreter \in BOOLEAN
  /\ count = 0 /\ compare = 0
  /\ index = 0
  /\ queued = FALSE /\ remaining = 0
  /\ ip7 = FALSE
  /\ matched = FALSE

(***************************************************************************)
(* reschedule_compare_interrupt.  compare_shifted is a u32: the top bit of *)
(* Compare is shifted out.                                                 *)
(***************************************************************************)
CompareShifted == (2 * compare') % Size

\* mutants: index on the wrong side; not masked
InCyclesSwapped(inblock_index) == (CompareShifted - (count' - inblock_index)) % Wrap
InCyclesSigned(inblock_index) == CompareShifted - (count' + inblock_index)

InCycles(inblock_index) == (CompareShifted - (count' + inblock_index)) % Wrap

Reschedule(inblock_index) ==
  /\ queued' = TRUE
  /\ remaining' = InCycles(inblock_index)

(***************************************************************************)
(* What a program sees in Count is count and the instructions of the block *)
(* so far, shifted.  The registers become equal when Now arrives at twice  *)
(* Compare, or when one is written with the value of the other.            *)
(***************************************************************************)
Now == (count + index) % Wrap
NowMatches == Now' = 2 * compare' \/ ((count' + index) % Wrap) \div 2 = compare'

(***************************************************************************)
(* One instruction.                                                        *)
(***************************************************************************)
Block == IF use_interpreter THEN 1 ELSE MaxBlock

Fits ==
  /\ index < Block
  /\ UNCHANGED use_interpreter

Other ==
  /\ Fits
  /\ index' = index + 1
  /\ UNCHANGED <<count, compare, queued, remaining, ip7>>
  /\ matched' = (matched \/ NowMatches)

(***************************************************************************)
(* The interpreter's writes.  The JIT leaves an instruction to it only in  *)
(* the first branch of a block and its delay slot.                         *)
(***************************************************************************)
Interpreted == use_interpreter \/ index <= 1

\* mutant: the interrupt is not acknowledged
WriteCompareKeepsIp7(value) ==
  /\ Fits /\ Interpreted
  /\ index' = index + 1
  /\ compare' = value
  /\ UNCHANGED <<count, ip7>>
  /\ Reschedule(0)
  /\ matched' = NowMatches

WriteCompare(value) ==
  /\ Fits /\ Interpreted
  /\ index' = index + 1
  /\ ip7' = FALSE
  /\ compare' = value
  /\ UNCHANGED count
  /\ Reschedule(0)
  /\ matched' = NowMatches

WriteCount(value) ==
  /\ Fits /\ Interpreted
  /\ index' = index + 1
  /\ count' = 2 * value
  /\ UNCHANGED <<compare, ip7>>
  /\ Reschedule(0)
  /\ matched' = (matched \/ NowMatches)

(***************************************************************************)
(* The compiled writes pass the instruction's index in its block, and a    *)
(* write to Count stores the lower half of the 64-bit count only.          *)
(***************************************************************************)
WriteCompareCompiled(value) ==
  /\ Fits /\ ~use_interpreter
  /\ index' = index + 1
  /\ ip7' = FALSE
  /\ compare' = value
  /\ UNCHANGED count
  /\ Reschedule(index)
  /\ matched' = NowMatches

WriteCountCompiled(value) ==
  /\ Fits /\ ~use_interpreter
  /\ index' = index + 1
  /\ count' = Size * (count \div Size) + ((2 * value) % Size)
  /\ UNCHANGED <<compare, ip7>>
  /\ Reschedule(index)
  /\ matched' = (matched \/ NowMatches)

(***************************************************************************)
(* The block ends: count and the clock advance by the instructions it      *)
(* executed.  A due event is handled unless another event is handled in    *)
(* this tick; the handler sets ip7 and queues the next match.              *)
(***************************************************************************)
Advance ==
  /\ index > 0
  /\ count' = (count + index) % Wrap
  /\ index' = 0
  /\ UNCHANGED <<use_interpreter, compare, matched>>

\* mutant: the event is computed again although it is due
EndBlockReschedules ==
  /\ Advance
  /\ queued => remaining - index > -MaxLate
  /\ IF queued THEN Reschedule(0) ELSE UNCHANGED <<queued, remaining>>
  /\ UNCHANGED ip7

\* nothing is due, or something else goes first
EndBlock ==
  /\ Advance
  /\ queued => remaining - index > -MaxLate
  /\ remaining' = (IF queued THEN remaining - index ELSE remaining)
  /\ UNCHANGED <<queued, ip7>>

CompareEvent ==
  /\ queued
  /\ remaining - index <= 0
  /\ Advance
  /\ ip7' = TRUE
  /\ Reschedule(0)

TimerNext ==
  \/ Other
  \/ \E value \in Compares : WriteCompare(value) \/ WriteCompareCompiled(value)
  \/ \E value \in Counts : WriteCount(value) \/ WriteCountCompiled(value)
  \/ EndBlock
  \/ CompareEvent

TimerSpec == TimerInit /\ [][TimerNext]_timer_vars

--------------------------------------------------------------------------------
TimerTypeOK ==
  /\ use_interpreter \in BOOLEAN
  /\ count \in 0..(Wrap - 1) /\ compare \in 0..(Size - 1)
  /\ index \in 0..Block
  /\ queued \in BOOLEAN
  /\ remaining \in (-MaxLate)..(Wrap - 1)
  /\ ip7 \in BOOLEAN /\ matched \in BOOLEAN

(***************************************************************************)
(* For a Compare whose top bit is clear, the event is queued for the       *)
(* moment when Count equals it: whatever is written and whenever count     *)
(* wraps, the distance stays right, exactly with the interpreter and never *)
(* late with the JIT, which is early by less than a block.                 *)
(***************************************************************************)
EventAtMatch ==
  queued /\ 2 * compare < Size =>
    \E early \in 0..(Block - 1) : (count + remaining + early) % Wrap = 2 * compare

(***************************************************************************)
(* "Fire an interrupt when Count equals this value" (cpu.rst): ip7 is not  *)
(* set before they were equal.  That is so with the interpreter, for a     *)
(* Compare whose top bit is clear.                                         *)
(***************************************************************************)
Ip7OnlyAfterMatch ==
  ip7 /\ use_interpreter /\ 2 * compare < Size => matched

(***************************************************************************)
(* A due event that has to wait for another one is not dropped: only a     *)
(* write to Compare, or one to Count, takes its interrupt back.            *)
(***************************************************************************)
Writes ==
  \/ \E value \in Compares : WriteCompare(value) \/ WriteCompareCompiled(value)
  \/ \E value \in Counts : WriteCount(value) \/ WriteCountCompiled(value)

DueEventNotDropped ==
  [][queued /\ remaining <= 0 => ip7' \/ (queued' /\ remaining' <= 0) \/ Writes]_timer_vars
===============================================================================
