------------------------------ MODULE Exceptions ------------------------------
(***************************************************************************)
(* Exceptions and delay slots in the CPU: r4300i_step, the interpreter's   *)
(* step with pc, next_pc and the two branch flags; compiled blocks, which  *)
(* keep the program counter in the code and write it where they branch or  *)
(* end; r4300i_handle_exception; ERET; and the interrupts that come        *)
(* between two instructions or two blocks.                                 *)
(*                                                                         *)
(* A program runs with handlers of the usual form (external): the refill   *)
(* handler reads a page table, which may itself be unmapped; the common    *)
(* handler repairs what the cause names and, on an interrupt, lets another *)
(* program run, which takes the coprocessor and the TLB's entries.         *)
(* Handlers keep EXL set until their ERET.                                 *)
(*                                                                         *)
(* Addresses count in words.  The program lies in pages that the TLB maps, *)
(* the handlers behind it, in the segment that needs no TLB.               *)
(***************************************************************************)
EXTENDS Integers

CONSTANTS NumWords,      \* length of the program
          PageWords,     \* instructions in a page
          Programs,      \* functions from the program's words to instructions
          MaxInterrupts  \* bound: how many interrupts are taken

UserWords == 0..(NumWords - 1)
PageOf(w) == w \div PageWords
TablePage == PageOf(NumWords - 1) + 1     \* where the page table is
Pages     == 0..TablePage

RefillVector == NumWords                  \* 0x80000000 and 0x80000080
CommonVector == NumWords + 3              \* 0x80000180
Words        == 0..(NumWords + 4)

Instructions ==
  [op : {"work", "fpu"}]
    \cup [op : {"load"}, page : Pages]
    \cup [op : {"jump"}, to : UserWords]
    \cup [op : {"branch", "likely"}, to : UserWords, when : {0, 1}]

Jumps == {"jump", "branch", "likely"}

\* What is assumed of a program: it has no branch in the slot of another one, which
\* the architecture leaves undefined, and does not run past its end: its last two
\* words are a jump and the jump's slot, where nothing else leads and no coprocessor
\* instruction makes compiled code forget the jump.
WellFormed(program) ==
  LET Last == NumWords - 1
  IN  /\ program[Last - 1].op = "jump"
      /\ program[Last].op \in {"work", "load"}
      /\ \A w \in 0..(Last - 1) : program[w].op \in Jumps =>
           program[w].to # Last /\ program[w + 1].op \notin Jumps

ASSUME ExceptionConstants ==
  /\ NumWords \in Nat \ {0, 1} /\ PageWords \in Nat \ {0, 1}
  /\ Programs \subseteq [UserWords -> Instructions]
  /\ \A program \in Programs : WellFormed(program)
  /\ MaxInterrupts \in Nat

VARIABLES
  text,             \* the program
  use_interpreter,  \* which of the two CPU engines runs
  pc, next_pc,
  branch,           \* N64CPU.branch: the next instruction is in a delay slot
  prev_branch,      \* N64CPU.prev_branch: the last one was
  exl,              \* Status.EXL
  cu1,              \* Status.CU1: the coprocessor may be used
  epc, branch_delay, exception_code,      \* EPC and the fields of $Cause
  bad_page,         \* the page of BadVAddr and EntryHi
  tlb,              \* page -> what the TLB has for it
  at,               \* the instruction of the compiled block that runs
  pc_set,           \* this block has written pc
  panicked,         \* compiled code could not resolve an address: the end
  work,             \* the program's data
  interrupts        \* how many interrupts were taken

pcs     == <<pc, next_pc>>
cause   == <<epc, branch_delay, exception_code>>
machine == <<exl, cu1, tlb, work>>        \* what instructions change
block   == <<at, pc_set>>
cpu_vars == <<text, use_interpreter, pcs, branch, prev_branch, cause, bad_page, machine,
          block, panicked, interrupts>>

Nowhere == -1

CpuInit ==
  /\ text \in Programs
  /\ use_interpreter \in BOOLEAN
  /\ pc = 0 /\ next_pc = 1
  /\ branch = FALSE /\ prev_branch = FALSE
  /\ exl = FALSE /\ cu1 = FALSE
  /\ epc = Nowhere /\ branch_delay = FALSE /\ exception_code = "none"
  /\ bad_page = 0
  /\ \E table \in {"miss", "valid"} :
       tlb = [p \in Pages |-> IF p = TablePage THEN table ELSE "miss"]
  /\ at = Nowhere /\ pc_set = FALSE
  /\ panicked = FALSE
  /\ work = 0
  /\ interrupts = 0

(***************************************************************************)
(* Instructions.                                                           *)
(***************************************************************************)

\* The handlers.
Instruction(w) ==
  CASE w \in UserWords           -> text[w]
    [] w = RefillVector          -> [op |-> "load", page |-> TablePage]
    [] w = RefillVector + 1      -> [op |-> "fill"]
    [] w = CommonVector          -> [op |-> "repair"]
    [] w \in {RefillVector + 2, CommonVector + 1} -> [op |-> "eret"]

IsBranch(w) == Instruction(w).op \in Jumps
Taken(w)    == Instruction(w).op # "jump" => work = Instruction(w).when
IsEret(w)   == Instruction(w).op = "eret"

Mapped(w) == w \in UserWords => tlb[PageOf(w)] = "valid"

LacksUnit(w) == Instruction(w).op = "fpu" /\ ~cu1
LacksPage(w) == Instruction(w).op = "load" /\ tlb[Instruction(w).page] # "valid"

\* What the other instructions do, apart from the program counter.
Repair ==
  CASE exception_code = "tlb" -> tlb' = [tlb EXCEPT ![bad_page] = "valid"] /\ UNCHANGED cu1
    [] exception_code = "coprocessor" -> cu1' = TRUE /\ UNCHANGED tlb
    [] exception_code = "interrupt" ->
         \E taken \in SUBSET Pages, keep \in BOOLEAN :
           /\ tlb' = [p \in Pages |-> IF p \in taken THEN "miss" ELSE tlb[p]]
           /\ cu1' = (cu1 /\ keep)

Effect(w) ==
  \/ w \in UserWords /\ work' = 1 - work /\ UNCHANGED <<exl, cu1, tlb>>
  \/ w = RefillVector /\ UNCHANGED machine
  \/ /\ Instruction(w).op = "fill"
     /\ \E entry \in {"valid", "invalid"} : tlb' = [tlb EXCEPT ![bad_page] = entry]
     /\ UNCHANGED <<exl, cu1, work>>
  \/ Instruction(w).op = "repair" /\ Repair /\ UNCHANGED <<exl, work>>
  \/ IsEret(w) /\ exl' = FALSE /\ UNCHANGED <<cu1, tlb, work>>

SetPc(w) == pc' = w /\ next_pc' = w + 1

(***************************************************************************)
(* r4300i_handle_exception for the instruction at w.  It reads the flag    *)
(* prev_branch, which the caller may just have set.                        *)
(***************************************************************************)
\* mutant: a miss inside a handler enters the refill handler again
VectorIgnoresExl(exception, error) ==
  IF exception # "tlb" \/ error = "invalid" THEN CommonVector ELSE RefillVector

Vector(exception, error) ==
  IF exception # "tlb" \/ exl \/ error = "invalid" THEN CommonVector ELSE RefillVector

\* mutant: BD is set but EPC points to the slot
SaveEpcOfSlot(w) ==
  IF exl THEN UNCHANGED <<epc, branch_delay>>
         ELSE branch_delay' = prev_branch' /\ epc' = w

SaveEpc(w) ==
  IF exl THEN UNCHANGED <<epc, branch_delay>>
         ELSE branch_delay' = prev_branch' /\ epc' = IF prev_branch' THEN w - 1 ELSE w

HandleException(w, exception, error) ==
  /\ SaveEpc(w)
  /\ exl' = TRUE
  /\ exception_code' = exception
  /\ SetPc(Vector(exception, error))
  /\ UNCHANGED <<cu1, tlb, work>>

\* on_tlb_exception and the exception, when w needs a page.
Miss(w, page) ==
  /\ bad_page' = page
  /\ HandleException(w, "tlb", tlb[page])

Trap(w) ==
  \/ LacksUnit(w) /\ HandleException(w, "coprocessor", "none") /\ UNCHANGED bad_page
  \/ LacksPage(w) /\ Miss(w, Instruction(w).page)

(***************************************************************************)
(* One r4300i_step.  The JIT uses it as well, for the instructions of a    *)
(* block that ends in a branch because its slot is in the next page; it    *)
(* then goes on until it is not in a slot.                                 *)
(***************************************************************************)
EndOfPage(w) == w \in UserWords /\ PageOf(w + 1) # PageOf(w)

\* mutant: the slot in the next page is compiled with the block
NeverEndsInBranch(first) == FALSE

EndsInBranch(first) ==
  \E last \in UserWords :
    /\ first <= last /\ EndOfPage(last) /\ PageOf(first) = PageOf(last)
    /\ IsBranch(last)
    /\ \A w \in first..(last - 1) : ~IsBranch(w)

BetweenBlocks == at = Nowhere /\ (use_interpreter \/ ~branch)

Step(steps) ==
  /\ at = Nowhere
  /\ prev_branch' = branch
  /\ steps
  /\ UNCHANGED <<text, use_interpreter, block, panicked, interrupts>>

FetchFault ==
  Step(/\ ~Mapped(pc)
       /\ branch' = FALSE
       /\ Miss(pc, PageOf(pc)))

Interpreted == Mapped(pc) /\ (use_interpreter \/ branch \/ EndsInBranch(pc))

InterpretTrap ==
  Step(/\ Interpreted
       /\ branch' = FALSE
       /\ Trap(pc))

\* Also what an untaken branch does, which has a slot all the same.
InterpretBranch ==
  Step(/\ Interpreted /\ IsBranch(pc)
       /\ Instruction(pc).op = "likely" => Taken(pc)
       /\ branch' = TRUE
       /\ pc' = next_pc
       /\ next_pc' = IF Taken(pc) THEN Instruction(pc).to ELSE next_pc + 1
       /\ UNCHANGED <<cause, bad_page, machine>>)

InterpretSkip ==
  Step(/\ Interpreted /\ Instruction(pc).op = "likely" /\ ~Taken(pc)
       /\ branch' = FALSE
       /\ SetPc(next_pc + 1)
       /\ UNCHANGED <<cause, bad_page, machine>>)

InterpretPlain ==
  Step(/\ Interpreted /\ ~IsBranch(pc) /\ ~LacksUnit(pc) /\ ~LacksPage(pc)
       /\ branch' = FALSE
       /\ Effect(pc)
       /\ IF IsEret(pc) THEN SetPc(epc) ELSE pc' = next_pc /\ next_pc' = next_pc + 1
       /\ UNCHANGED <<cause, bad_page>>)

(***************************************************************************)
(* A compiled block.  n64_dynarec_step clears the flags; the code does not *)
(* touch them.  A block ends with the page, with an ERET or after a slot.  *)
(***************************************************************************)
EnterBlock ==
  /\ BetweenBlocks
  /\ Mapped(pc) /\ ~Interpreted
  /\ at' = pc /\ pc_set' = FALSE
  /\ prev_branch' = FALSE
  /\ UNCHANGED <<text, use_interpreter, pcs, branch, cause, bad_page, machine, panicked,
                 interrupts>>

Leave == at' = Nowhere /\ pc_set' = FALSE

Compiled(steps) ==
  /\ at # Nowhere /\ ~panicked
  /\ UNCHANGED <<text, use_interpreter, branch, prev_branch, interrupts>>
  /\ steps

CompiledTrap ==
  Compiled(/\ LacksUnit(at)
           /\ HandleException(at, "coprocessor", "none")
           /\ Leave
           /\ UNCHANGED <<bad_page, panicked>>)

CompiledPanic ==
  Compiled(/\ LacksPage(at)
           /\ panicked' = TRUE
           /\ UNCHANGED <<pcs, cause, bad_page, machine, block>>)

CompiledBranch ==
  Compiled(/\ IsBranch(at)
           /\ SetPc(IF Taken(at) THEN Instruction(at).to ELSE at + 2)
           /\ IF Instruction(at).op = "likely" => Taken(at)
                THEN at' = at + 1 /\ pc_set' = TRUE
                ELSE Leave
           /\ UNCHANGED <<cause, bad_page, machine, panicked>>)

CompiledPlain ==
  Compiled(/\ ~IsBranch(at) /\ ~LacksUnit(at) /\ ~LacksPage(at)
           /\ Effect(at)
           /\ IF IsEret(at) \/ pc_set \/ EndOfPage(at)
                THEN Leave
                ELSE at' = at + 1 /\ UNCHANGED pc_set
           /\ \/ IsEret(at) /\ SetPc(epc)
              \/ EndOfPage(at) /\ ~pc_set /\ SetPc(at + 1)
              \/ ~IsEret(at) /\ (pc_set \/ ~EndOfPage(at)) /\ UNCHANGED pcs
           /\ UNCHANGED <<cause, bad_page, panicked>>)

(***************************************************************************)
(* The event HANDLE_INTERRUPT.  The flag branch stays as it is.            *)
(***************************************************************************)
\* mutant: the flag of the instruction before is used
InterruptWithOldFlag ==
  /\ BetweenBlocks /\ ~exl
  /\ interrupts < MaxInterrupts
  /\ interrupts' = interrupts + 1
  /\ UNCHANGED prev_branch
  /\ HandleException(pc, "interrupt", "none")
  /\ UNCHANGED <<text, use_interpreter, branch, bad_page, block, panicked>>

Interrupt ==
  /\ BetweenBlocks /\ ~exl
  /\ interrupts < MaxInterrupts
  /\ interrupts' = interrupts + 1
  /\ prev_branch' = branch
  /\ HandleException(pc, "interrupt", "none")
  /\ UNCHANGED <<text, use_interpreter, branch, bad_page, block, panicked>>

CpuStep ==
  \/ FetchFault \/ InterpretTrap \/ InterpretBranch \/ InterpretSkip \/ InterpretPlain
  \/ EnterBlock \/ CompiledTrap \/ CompiledPanic \/ CompiledBranch \/ CompiledPlain

CpuNext == CpuStep \/ Interrupt

CpuSpec == CpuInit /\ [][CpuNext]_cpu_vars

(***************************************************************************)
(* The loop never stops running the CPU.                                   *)
(***************************************************************************)
FairSpec == CpuSpec /\ WF_cpu_vars(CpuStep)

--------------------------------------------------------------------------------
(***************************************************************************)
(* Types.  Outside an exception handler the program runs, in it a handler; *)
(* the JIT starts a block only when it is not in a delay slot, and a block *)
(* stays in its page.                                                      *)
(***************************************************************************)
TypeOK ==
  /\ text \in Programs /\ use_interpreter \in BOOLEAN
  /\ pc \in (IF exl THEN Words \ UserWords ELSE UserWords)
  /\ branch \in BOOLEAN /\ prev_branch \in BOOLEAN
  /\ exl \in BOOLEAN /\ cu1 \in BOOLEAN
  /\ epc \in UserWords \cup {Nowhere} /\ branch_delay \in BOOLEAN
  /\ exception_code \in {"none", "tlb", "coprocessor", "interrupt"}
  /\ bad_page \in Pages /\ tlb \in [Pages -> {"miss", "invalid", "valid"}]
  /\ at \in Words \cup {Nowhere} /\ pc_set \in BOOLEAN /\ panicked \in BOOLEAN
  /\ at # Nowhere => ~use_interpreter /\ ~branch /\ ~prev_branch /\ Mapped(at)
  /\ work \in {0, 1} /\ interrupts \in 0..MaxInterrupts

(***************************************************************************)
(* Where the program stands.  While a handler runs, it is where EPC says:  *)
(* at a branch, if the exception came in its slot; ERET then executes the  *)
(* branch again.                                                           *)
(***************************************************************************)
Order == INSTANCE ProgramOrder WITH position <- 0   \* for Settle

Position ==
  IF exl THEN Order!Settle(epc, work)
  ELSE IF pc_set THEN <<at, pc>>
  ELSE IF at # Nowhere THEN Order!Settle(at, work)
  ELSE IF branch THEN <<pc, next_pc>>
  ELSE Order!Settle(pc, work)

Program == INSTANCE ProgramOrder WITH position <- Position

(***************************************************************************)
(* What r4300i.c:81-82 says of an exception: "In a branch delay slot, set  *)
(* EPC to the BRANCH PRECEDING the slot.  This is so the exception handler *)
(* can re-execute the branch on return."  Exceptions can then not be seen  *)
(* by the program: its instructions take effect once each, in the order    *)
(* its branches give.  A compiled block does not do so when a coprocessor  *)
(* instruction traps in a slot: it has cleared the flag that says so.      *)
(***************************************************************************)
InProgramOrder == Program!Spec

(***************************************************************************)
(* That one trap apart, exceptions cannot be seen.  The trap loses where   *)
(* the branch goes, and nothing else: the slot itself is still executed    *)
(* once.                                                                   *)
(***************************************************************************)
TrapInCompiledSlot ==
  /\ pc_set /\ CompiledTrap
  /\ Position'[1] = Position[1] /\ UNCHANGED work

ImplementsProgramOrder ==
  Program!Init /\ [][Program!Execute \/ TrapInCompiledSlot]_<<text, Position, work>>

(***************************************************************************)
(* The program goes on: the handlers get what an instruction lacks and     *)
(* then it is executed.  A load from an unmapped page in compiled code is  *)
(* the end of the emulator.                                                *)
(***************************************************************************)
ProgramGoesOn == \A data \in {0, 1} : []<>(panicked \/ work = data)

===============================================================================
