---------------------------- MODULE RdpCommands ----------------------------
(***************************************************************************)
(* The registers of the RDP's command interface and the processing of      *)
(* display lists (src/rdp/rdp.c), and the semaphore with which the CPU and *)
(* the RSP, who both can write these registers, take turns (src/cpu/rsp.c, *)
(* rsp_interface.c).                                                       *)
(*                                                                         *)
(* A list is what lies between the start and the end register.  A write to *)
(* the end register runs what is there; the program may move the end and   *)
(* so feed a list in pieces, which need not be whole commands, and it may  *)
(* freeze the RDP meanwhile.  Addresses and lengths are in dwords.  Where  *)
(* the dwords come from, RDRAM or DMEM, makes no difference: they are      *)
(* chosen when they are read.  Two logfatals are left out: that of a list  *)
(* larger than the buffer for it (rdp.c:168), and those of a system without*)
(* a renderer.                                                             *)
(***************************************************************************)
EXTENDS Integers, Sequences, SequencesExt

CONSTANTS
  Masters,     \* who can write the registers: the CPU and the RSP
  Commands,    \* what the first dword of a command may say
  Length,      \* command_lengths, in dwords
  MaxAddress,  \* the addresses of the memory for lists are below this
  MaxFetched   \* bound: how many dwords are asked for in all

Addresses == 0..(MaxAddress - 1)
Ends      == 0..MaxAddress

\* The command that finishes all before it; RDP_COMMAND_FULL_SYNC.
FullSync == "full sync"

ASSUME RdpCommandsAssumption ==
  /\ Length \in [Commands -> Nat \ {0}]
  /\ FullSync \in Commands /\ Length[FullSync] = 1
  /\ MaxAddress \in Nat \ {0}
  /\ MaxFetched \in Nat

VARIABLES
  dpc,             \* start, end, current and status of n64sys.dpc
  unprocessed,     \* the last_run_unprocessed_words of rdp_command_buffer
  dp_interrupt,    \* the DP line of MI_INTR
  semaphore_held,  \* of the RSP
  inside,          \* those who got the semaphore and use the registers
  plan,            \* the start each of them wrote and has not written the end to
  asked,           \* the addresses ever asked for and not read, in order (history)
  given_up,        \* those of them in lists that were replaced unread (history)
  aborted,         \* a list was waiting when the system was reset (history)
  fetched,         \* the dwords read so far (history)
  executed         \* the commands run so far (history)

registers == <<dpc, unprocessed, dp_interrupt>>
protocol  == <<semaphore_held, inside, plan>>
history   == <<asked, given_up, aborted, fetched, executed>>
vars      == <<registers, protocol, history>>

NoStart == -1

\* The addresses from one to before another, in order.
Extent(from, to) == [k \in 1..(IF to > from THEN to - from ELSE 0) |-> from + k - 1]

(***************************************************************************)
(* Processing a list.                                                      *)
(***************************************************************************)

\* The loop of process_rdp_list: what is run of a buffer from an index on.
RunFrom(buffer) ==
  LET run[i \in 1..(Len(buffer) + 1)] ==
        IF i > Len(buffer) \/ i + Length[buffer[i]] - 1 > Len(buffer) THEN <<>>
        ELSE <<SubSeq(buffer, i, i + Length[buffer[i]] - 1)>> \o run[i + Length[buffer[i]]]
  IN  run[1]

\* mutant: the rest is forgotten
ForgetRest(buffer, commands) == <<>>

\* What is left of the buffer when commands have been run.
Rest(buffer, commands) == SubSeq(buffer, Len(FlattenSeq(commands)) + 1, Len(buffer))

Syncs(commands) == \E i \in DOMAIN commands : commands[i][1] = FullSync

\* rdp_run_command with the registers d, when the program asks for the addresses
\* wanted and has not read them: nothing is run when frozen, and nothing is read unless
\* the end is behind the current address.  The RDP is never seen frozen by the list, since the list is
\* finished before anyone else runs, nor without cbuf_ready.
RdpRunCommand(d, wanted) ==
  LET list == Extent(d.current, d.end)
      busy == [d EXCEPT !.pipe_busy = TRUE, !.start_gclk = TRUE]
  IN  /\ Len(fetched) + Len(wanted) <= MaxFetched
      /\ \/ /\ d.freeze
            /\ dpc' = d
            /\ asked' = wanted
            /\ UNCHANGED <<unprocessed, dp_interrupt, fetched, executed>>
         \/ /\ ~d.freeze /\ list = <<>>
            /\ dpc' = busy
            /\ asked' = wanted
            /\ UNCHANGED <<unprocessed, dp_interrupt, fetched, executed>>
         \/ /\ ~d.freeze /\ list # <<>>
            /\ asked' = IF wanted = given_up' \o list THEN given_up' ELSE wanted
            /\ \E dwords \in [DOMAIN list -> Commands] :
                 LET buffer   == unprocessed \o dwords
                     commands == RunFrom(buffer)
                 IN  /\ dpc' = [busy EXCEPT
                                  !.current    = d.end,
                                  !.pipe_busy  = ~Syncs(commands),
                                  !.start_gclk = ~Syncs(commands)]
                     /\ unprocessed' = Rest(buffer, commands)
                     /\ dp_interrupt' = (dp_interrupt \/ Syncs(commands))
                     /\ fetched' = fetched \o dwords
                     /\ executed' = executed \o commands

(***************************************************************************)
(* The semaphore.                                                          *)
(***************************************************************************)

\* mutant: reading it does not take it
ReadDoesNotTake(m) ==
  /\ m \notin inside
  /\ inside' = IF semaphore_held THEN inside ELSE inside \cup {m}
  /\ UNCHANGED <<semaphore_held, plan, registers, history>>

\* rsp_acquire_semaphore: who reads FALSE has it.
AcquireSemaphore(m) ==
  /\ m \notin inside
  /\ semaphore_held' = TRUE
  /\ inside' = IF semaphore_held THEN inside ELSE inside \cup {m}
  /\ UNCHANGED <<plan, registers, history>>

\* rsp_release_semaphore, by who has it; after a reset, which does not release it,
\* by the program that starts.
ReleaseSemaphore(m) ==
  /\ inside \subseteq {m}
  /\ plan[m] = NoStart
  /\ semaphore_held' = FALSE
  /\ inside' = {}
  /\ UNCHANGED <<plan, registers, history>>

(***************************************************************************)
(* The registers.                                                          *)
(***************************************************************************)

\* rdp_start_reg_write: ignored while a start is waiting for its end.
WriteStart(m, a) ==
  /\ m \in inside
  /\ plan' = [plan EXCEPT ![m] = IF @ = NoStart THEN a ELSE @]
  /\ dpc' = [dpc EXCEPT !.start = IF dpc.start_valid THEN @ ELSE a, !.start_valid = TRUE]
  /\ UNCHANGED <<unprocessed, dp_interrupt, semaphore_held, inside, history>>

\* mutant: the start stays valid
EndWrittenStartStays(e) ==
  [dpc EXCEPT !.end = e, !.current = IF dpc.start_valid THEN dpc.start ELSE @]

\* The registers when the end has been written, before anything is run.
EndWritten(e) ==
  [dpc EXCEPT !.end = e,
              !.current = IF dpc.start_valid THEN dpc.start ELSE @,
              !.start_valid = FALSE]

\* rdp_end_reg_write.  Who has written no start moves the end of the list before; who
\* has begins a list, over the one that may still be waiting because the RDP is frozen
\* or was reset.
WriteEnd(m, e) ==
  LET start == IF plan[m] = NoStart THEN dpc.end ELSE plan[m]
  IN  /\ m \in inside
      /\ e >= start
      /\ plan' = [plan EXCEPT ![m] = NoStart]
      /\ given_up' = IF plan[m] # NoStart /\ (dpc.freeze \/ aborted) THEN asked ELSE given_up
      /\ RdpRunCommand(EndWritten(e), asked \o Extent(start, e))
      /\ aborted' = FALSE
      /\ UNCHANGED <<semaphore_held, inside>>

\* The registers when the bits of a write to the status are applied: both bits of
\* freeze set it.
StatusWritten(clear_freeze, set_freeze, clear_pipe) ==
  [dpc EXCEPT !.freeze    = set_freeze \/ (@ /\ ~clear_freeze),
              !.pipe_busy = @ /\ ~clear_pipe]

\* mutant: nothing is run when the RDP is unfrozen
UnfreezeDoesNotRun(clear_freeze, set_freeze, clear_pipe) ==
  /\ dpc' = StatusWritten(clear_freeze, set_freeze, clear_pipe)
  /\ UNCHANGED <<unprocessed, dp_interrupt, protocol, history>>

\* rdp_status_reg_write, for which nobody takes the semaphore.  What waits is run
\* when the RDP is unfrozen.
WriteStatus(clear_freeze, set_freeze, clear_pipe) ==
  LET d == StatusWritten(clear_freeze, set_freeze, clear_pipe)
  IN  /\ UNCHANGED given_up
      /\ IF clear_freeze
           THEN RdpRunCommand(d, asked)
           ELSE dpc' = d /\ UNCHANGED <<unprocessed, dp_interrupt, asked, fetched, executed>>
      /\ aborted' = (aborted /\ (d.freeze \/ ~clear_freeze))
      /\ UNCHANGED protocol

\* The CPU acknowledges the interrupt.
LowerInterrupt ==
  /\ dp_interrupt' = FALSE
  /\ UNCHANGED <<dpc, unprocessed, protocol, history>>

\* reset_n64system clears the status.  The addresses, what is left of a command and
\* the semaphore stay as they are.
ResetSystem ==
  /\ dpc' = [dpc EXCEPT !.start_valid = FALSE, !.freeze = FALSE,
                        !.pipe_busy = FALSE, !.start_gclk = FALSE]
  /\ inside' = {}
  /\ plan' = [m \in Masters |-> NoStart]
  /\ aborted' = (aborted \/ asked # given_up)
  /\ UNCHANGED <<unprocessed, dp_interrupt, semaphore_held, asked, given_up, fetched, executed>>

Init ==
  /\ dpc = [start |-> 0, end |-> 0, current |-> 0, start_valid |-> FALSE, freeze |-> FALSE,
            pipe_busy |-> FALSE, start_gclk |-> FALSE]
  /\ unprocessed = <<>>
  /\ dp_interrupt = FALSE
  /\ semaphore_held = FALSE
  /\ inside = {}
  /\ plan = [m \in Masters |-> NoStart]
  /\ asked = <<>>
  /\ given_up = <<>>
  /\ aborted = FALSE
  /\ fetched = <<>>
  /\ executed = <<>>

Next ==
  \/ \E m \in Masters : AcquireSemaphore(m) \/ ReleaseSemaphore(m)
  \/ \E m \in Masters, a \in Addresses : WriteStart(m, a)
  \/ \E m \in Masters, e \in Ends : WriteEnd(m, e)
  \/ \E c, s, p \in BOOLEAN : WriteStatus(c, s, p)
  \/ LowerInterrupt
  \/ ResetSystem

Spec == Init /\ [][Next]_vars

(***************************************************************************)
(* Properties.                                                             *)
(***************************************************************************)

\* Whichever of the CPU and the RSP writes the registers, and however its writes and
\* those of the other and to the status are interleaved: of all that was ever asked
\* for, what was not read is the lists that were given up, and then what lies between
\* the current and the end register, which is nothing while the RDP is not frozen. So
\* a list is read whole, from its start and in order, with two exceptions: one that
\* waits at a frozen RDP when the start and end of another are written is given up
\* (rdp.c:352-355), and one that waits when the system is reset goes on waiting, for
\* the reset unfreezes the RDP without running it, until its end is moved, or another
\* list is begun, which gives it up too.
ListsAreRead ==
  /\ asked = given_up \o Extent(dpc.current, dpc.end)
  /\ dpc.freeze \/ aborted \/ asked = given_up

\* The comment of process_rdp_list: only a part of one command is left for the next
\* run ("because we'll only have a partial command left"), and nothing of what was
\* read is lost or run twice: what is left is what follows the commands run so far.
LeftoverIsPartial ==
  /\ unprocessed = <<>> \/ Len(unprocessed) < Length[Head(unprocessed)]
  /\ fetched = FlattenSeq(executed) \o unprocessed

Stream == INSTANCE CommandStream WITH stream <- fetched

\* In however many pieces the program feeds a list, wherever it cuts it, and whoever
\* is frozen or reset meanwhile: the commands that are run are those of the one
\* stream of everything that was read, each when all of it has arrived.
CutsMakeNoDifference == Stream!Spec
=============================================================================
