---------------------------- MODULE VideoInterface ----------------------------
(***************************************************************************)
(* The halflines of the video interface (src/interface/vi.c and            *)
(* on_vi_halfline_complete).  A VI_HALFLINE event counts one halfline, or  *)
(* several if it is late, compares V_CURRENT with V_INTR and queues the    *)
(* next event; the program may change the length of a halfline in between, *)
(* and the user may reset the system in the middle of the handler.         *)
(*                                                                         *)
(* Times are relative: to the last halfline for the clock, to the clock    *)
(* for the queued events.                                                  *)
(***************************************************************************)
EXTENDS Integers, Sequences, SequencesExt

CONSTANTS
  CPU_CYCLES_PER_FRAME,
  Syncs,            \* the values a program writes to V_SYNC
  Interrupts,       \* the values a program writes to V_INTR
  Ticks,            \* the cycles the CPU may run at a time
  ResetHalflines,   \* num_halflines, cycles_per_halfline and v_intr after
  ResetCycles,      \*   a reset: 262, 1000 and 256
  ResetInterrupt,
  Resets,           \* where resets come from: the menu, another thread
  MaxResets,        \* bound: how many there are
  MaxClock,         \* bound: the clock when the system is reset
  MaxLate,          \* bound: ticks by which an event is handled late
  MaxElapsed        \* bound: ticks from one halfline to the next; V_SYNC is not
                    \*   rewritten when that would take longer

Halflines(vsync) == vsync \div 2
CyclesPerHalfline(vsync) == CPU_CYCLES_PER_FRAME \div Halflines(vsync)

\* The shortest halfline of a program is not shorter than that after a reset.
ASSUME VideoConstants ==
  /\ CPU_CYCLES_PER_FRAME \in Nat
  /\ Syncs \subseteq 0..1023 /\ Interrupts \subseteq 0..1023
  /\ Ticks \subseteq Nat \ {0}
  /\ ResetHalflines \in 0..511 /\ ResetCycles \in Nat \ {0} /\ ResetInterrupt \in 0..1023
  /\ \A vsync \in Syncs : vsync > 1 => /\ CyclesPerHalfline(vsync) \in Nat
                                       /\ CyclesPerHalfline(vsync) >= ResetCycles
  /\ Resets \subseteq {"menu", "thread"}
  /\ MaxResets \in Nat /\ MaxClock \in Nat /\ MaxLate \in Nat /\ MaxElapsed \in Nat

VARIABLES
  elapsed,              \* the clock minus last_halfline_at
  queued,               \* the ticks until each queued VI_HALFLINE, sorted
  halfline, field,
  num_halflines, num_fields, cycles_per_halfline,
  v_intr, v_current,
  intr,                 \* the VI's line of the MI is up
  pc,                   \* "run", or where in the handler the emulator is
  taken, overshot,      \* the handler's variables
  resets,
  raised,               \* interrupts since the halflines began anew (history)
  steady                \* and no register was written since then (history)

counters  == <<halfline, field>>
registers == <<num_halflines, num_fields, cycles_per_halfline, v_intr>>
handler   == <<taken, overshot>>
history   == <<raised, steady>>
vars == <<elapsed, queued, counters, registers, v_current, intr, pc, handler, resets, history>>

Init ==
  /\ elapsed = 0
  /\ queued = <<ResetCycles>>
  /\ halfline = 0 /\ field = 0
  /\ num_halflines = ResetHalflines /\ num_fields = 1
  /\ cycles_per_halfline = ResetCycles
  /\ v_intr = ResetInterrupt /\ v_current = 0
  /\ intr = FALSE
  /\ pc = "run" /\ taken = 0 /\ overshot = 0
  /\ resets = 0
  /\ raised = 0 /\ steady = FALSE

InOrder(q) == \A i, j \in 1..Len(q) : i < j => q[i] <= q[j]

\* scheduler_enqueue_relative
Enqueue(q, ticks) ==
  /\ queued' \in {InsertAt(q, p, ticks) : p \in 1..Len(q) + 1}
  /\ InOrder(queued')

\* scheduler_remove_event removes the first one only.
WithoutFirst(q) == IF q = << >> THEN q ELSE Tail(q)

(***************************************************************************)
(* The program.                                                            *)
(***************************************************************************)
Run(ticks) ==
  /\ pc = "run"
  /\ queued # << >> => Head(queued) - ticks >= -MaxLate
  /\ elapsed + ticks <= MaxElapsed
  /\ elapsed' = elapsed + ticks
  /\ queued' = [i \in 1..Len(queued) |-> queued[i] - ticks]
  /\ UNCHANGED <<counters, registers, v_current, intr, pc, handler, resets, history>>

WriteStatus(serrate) ==
  /\ pc = "run"
  /\ num_fields' = IF serrate THEN 2 ELSE 1
  /\ steady' = FALSE
  /\ UNCHANGED <<elapsed, queued, counters, num_halflines, cycles_per_halfline, v_intr,
                 v_current, intr, pc, handler, resets, raised>>

WriteVIntr(value) ==
  /\ pc = "run"
  /\ v_intr' = value
  /\ steady' = FALSE
  /\ UNCHANGED <<elapsed, queued, counters, num_halflines, num_fields, cycles_per_halfline,
                 v_current, intr, pc, handler, resets, raised>>

WriteVCurrent ==
  /\ pc = "run"
  /\ intr' = FALSE
  /\ UNCHANGED <<elapsed, queued, counters, registers, v_current, pc, handler, resets, history>>

\* mutants: the event is removed, not replaced; it stays beside the new one
WriteVSyncForgetsEvent(vsync) ==
  /\ pc = "run"
  /\ Halflines(vsync) > 0
  /\ num_halflines' = Halflines(vsync)
  /\ cycles_per_halfline' = CyclesPerHalfline(vsync)
  /\ queued' = WithoutFirst(queued)
  /\ steady' = FALSE
  /\ UNCHANGED <<elapsed, counters, num_fields, v_intr, v_current, intr, pc, handler, resets,
                 raised>>

WriteVSyncKeepsEvent(vsync) ==
  /\ pc = "run"
  /\ Halflines(vsync) > 0
  /\ elapsed + CyclesPerHalfline(vsync) + MaxLate <= MaxElapsed
  /\ num_halflines' = Halflines(vsync)
  /\ cycles_per_halfline' = CyclesPerHalfline(vsync)
  /\ Enqueue(queued, cycles_per_halfline')
  /\ steady' = FALSE
  /\ UNCHANGED <<elapsed, counters, num_fields, v_intr, v_current, intr, pc, handler, resets,
                 raised>>

WriteVSync(vsync) ==
  /\ pc = "run"
  /\ Halflines(vsync) > 0
  /\ elapsed + CyclesPerHalfline(vsync) + MaxLate <= MaxElapsed
  /\ num_halflines' = Halflines(vsync)
  /\ cycles_per_halfline' = CyclesPerHalfline(vsync)
  /\ Enqueue(WithoutFirst(queued), cycles_per_halfline')
  /\ steady' = FALSE
  /\ UNCHANGED <<elapsed, counters, num_fields, v_intr, v_current, intr, pc, handler, resets,
                 raised>>

\* With less than one halfline the division is undefined; on x86 it traps.
WriteVSyncTraps(vsync) ==
  /\ pc = "run"
  /\ Halflines(vsync) = 0
  /\ num_halflines' = 0
  /\ pc' = "trapped"
  /\ UNCHANGED <<elapsed, queued, counters, num_fields, cycles_per_halfline, v_intr, v_current,
                 intr, handler, resets, history>>

(***************************************************************************)
(* on_vi_halfline_complete: entry, then for each halfline BeginHalfline,   *)
(* the screen if a field is complete, and EndHalfline.                     *)
(***************************************************************************)
HalflineEvent ==
  /\ pc = "run"
  /\ queued # << >> /\ Head(queued) <= 0
  /\ queued' = Tail(queued)
  /\ taken' = elapsed
  /\ elapsed' = 0
  /\ pc' = "begin"
  /\ UNCHANGED <<counters, registers, v_current, intr, overshot, resets, history>>

BeginHalfline ==
  /\ pc = "begin"
  /\ overshot' = taken - cycles_per_halfline
  /\ IF halfline + 1 > num_halflines
       THEN /\ halfline' = 0 /\ field' = field + 1
            /\ pc' = "screen"
            /\ raised' = 0 /\ steady' = TRUE
       ELSE /\ halfline' = halfline + 1
            /\ pc' = "end"
            /\ UNCHANGED <<field, history>>
  /\ UNCHANGED <<elapsed, queued, registers, v_current, intr, taken, resets>>

\* rdp_update_screen, without a request of the user
UpdateScreen ==
  /\ pc = "screen"
  /\ pc' = "end"
  /\ UNCHANGED <<elapsed, queued, counters, registers, v_current, intr, handler, resets, history>>

\* mutant: the field takes part in the comparison
MatchesExactly(current) == current = v_intr

\* bit 0 of V_CURRENT is ignored
Matches(current) == 2 * ((current \div 2) % 512) = v_intr

\* mutant: one more halfline is waited for
AgainLate == taken' > 2 * cycles_per_halfline

Again == taken' > cycles_per_halfline

NextField == IF field > num_fields THEN 0 ELSE field

EndHalfline ==
  /\ pc = "end"
  /\ field' = NextField
  /\ v_current' = 2 * halfline + field'
  /\ IF Matches(v_current')
       THEN intr' = TRUE /\ raised' = raised + 1
       ELSE UNCHANGED <<intr, raised>>
  /\ taken' = taken - cycles_per_halfline
  /\ IF Again
       THEN pc' = "begin" /\ UNCHANGED queued
       ELSE pc' = "run" /\ Enqueue(queued, cycles_per_halfline - overshot)
  /\ UNCHANGED <<elapsed, halfline, registers, overshot, resets, steady>>

(***************************************************************************)
(* reset_n64system: the clock starts again at 0 and so does the queue;     *)
(* last_halfline_at, halfline and field stay as they were.                 *)
(***************************************************************************)
ResetSystem(from) ==
  /\ from \in Resets /\ resets < MaxResets
  /\ resets' = resets + 1
  /\ num_halflines' = ResetHalflines /\ num_fields' = 1
  /\ cycles_per_halfline' = ResetCycles
  /\ v_intr' = ResetInterrupt
  /\ \E clock \in elapsed..MaxClock : elapsed' = elapsed - clock
  /\ queued' = <<ResetCycles>>
  /\ steady' = FALSE
  /\ UNCHANGED <<counters, v_current, intr, handler, raised>>

ResetFromMenu == pc = "screen" /\ pc' = "end" /\ ResetSystem("menu")
ResetFromThread == pc = "run" /\ UNCHANGED pc /\ ResetSystem("thread")

Handler == HalflineEvent \/ BeginHalfline \/ UpdateScreen \/ EndHalfline

Next ==
  \/ \E ticks \in Ticks : Run(ticks)
  \/ \E serrate \in BOOLEAN : WriteStatus(serrate)
  \/ \E value \in Interrupts : WriteVIntr(value)
  \/ WriteVCurrent
  \/ \E vsync \in Syncs : WriteVSync(vsync) \/ WriteVSyncTraps(vsync)
  \/ Handler
  \/ ResetFromMenu \/ ResetFromThread

Spec == Init /\ [][Next]_vars

(***************************************************************************)
(* The loop goes on running the CPU and ticking the scheduler.             *)
(***************************************************************************)
FairSpec == Spec /\ WF_vars(\E ticks \in Ticks : Run(ticks)) /\ WF_vars(Handler)

(***************************************************************************)
(* Properties.                                                             *)
(***************************************************************************)
TypeOK ==
  /\ elapsed \in Int /\ elapsed <= MaxElapsed
  /\ queued \in Seq(Int)
  /\ halfline \in Nat /\ field \in 0..3
  /\ num_halflines \in Nat /\ num_fields \in 1..2
  /\ cycles_per_halfline \in Nat \ {0}
  /\ v_intr \in 0..1023 /\ v_current \in Nat
  /\ intr \in BOOLEAN
  /\ pc \in {"run", "begin", "screen", "end", "trapped"}
  /\ taken \in Int /\ overshot \in Int
  /\ resets \in 0..MaxResets
  /\ raised \in Nat /\ steady \in BOOLEAN

\* However V_SYNC is rewritten, there is one chain of halflines: one event is
\* queued while the program runs, none while the handler does.  (A reset queues
\* one more from inside the handler.)
OneHalflineQueued ==
  resets = 0 => Len(queued) = (IF pc \in {"run", "trapped"} THEN 1 ELSE 0)

\* The time of the next event, unsigned in the code, is never computed below 0,
\* where it would wrap and the VI would stop: however late the event was, and
\* even when a reset changes the length of a halfline between the computation
\* of overshot and its use.
NextNeverWraps ==
  [][EndHalfline /\ pc' = "run" => cycles_per_halfline - overshot >= 0]_vars

\* The interrupt is raised exactly once in every field in which the program
\* leaves the VI alone, whatever halflines were late.  (The third field of an
\* interlaced frame counts from 2, so V_INTR 0 is missed there.)
InterruptOncePerField ==
  [][pc = "begin" /\ pc' = "screen" /\ steady /\ v_intr % 2 = 0
       /\ v_intr \in 2 * (num_fields - 1)..2 * num_halflines
       => raised = 1]_vars

\* Halflines go on, unless the program rewrites V_SYNC for ever or traps: late
\* events, a new length of a halfline and a reset do not stop them.
HalflinesGoOn ==
  \/ []<>(pc = "begin") \/ <>(pc = "trapped")
  \/ []<><<\E vsync \in Syncs : WriteVSync(vsync)>>_vars
===============================================================================
