---------------------------- MODULE RspOverlays ----------------------------
(***************************************************************************)
(* The RSP's compiled code (src/cpu/dynarec/rsp_dynarec.c, rsp_dynarec.h,  *)
(* dynarec_memory_management.c, src/jit/src/rsp_jit.rs) and what writes to *)
(* the memory it was compiled from (rsp.h, n64bus.c, n64system.c).         *)
(*                                                                         *)
(* IMEM is so small that programs replace its contents all the time.  The  *)
(* compiled blocks are kept in code overlays: each has the blocks that     *)
(* begin at each word and a copy of the words of IMEM they were compiled   *)
(* from.  A write to a word that the selected overlay has compiled makes   *)
(* it dirty, and the next step of the RSP looks for an overlay whose copy  *)
(* agrees with IMEM.  The CPU and the RSP run in turns, so that a step of  *)
(* one is atomic for the other.                                            *)
(*                                                                         *)
(* The program may go to any word next.  Of its instructions only the way  *)
(* they end a block matters and whether they can write to IMEM or halt     *)
(* the RSP; one instruction compiles into one cell of the code cache.      *)
(***************************************************************************)
EXTENDS Integers, Sequences, SequencesExt

CONSTANTS
  ImemWords,      \* RSP_BLOCKCACHE_SIZE, the words of IMEM
  NumOverlays,    \* RSP_NUM_CODE_OVERLAYS
  CodecacheSize,  \* in cells
  Images          \* what RDRAM has for the parts of IMEM that a DMA fills

\* A NOP; a write to a register of coprocessor 0; any jump or branch; a BREAK.
Instructions == {"nop", "mtc0", "branch", "break"}

Words    == 0..(ImemWords - 1)
Overlays == 0..(NumOverlays - 1)

ASSUME RspOverlaysAssumption ==
  /\ ImemWords \in Nat \ {0} /\ ImemWords % 2 = 0
  /\ NumOverlays \in Nat \ {0}
  /\ CodecacheSize \in Nat /\ CodecacheSize > ImemWords + 1
  /\ Images \subseteq [Words -> Instructions]

VARIABLES
  imem,     \* sp_imem
  icache,   \* what the interpreter executes: icache[].instruction
  halt,     \* status.halt
  dynarec   \* code_overlays, selected_code_overlay, code_overlays_allocated,
            \* codecache_used and dirty

vars == <<imem, icache, halt, dynarec>>

\* A word whose code_mask is 0.
NotCode == "not code"

\* The singleton of the smallest member, if there is one.
Smallest(S) == {i \in S : \A j \in S : i <= j}

(***************************************************************************)
(* Overlays.  The member sure of a block is no part of the program: it is  *)
(* FALSE when the block was compiled while the code cache was flushed, or  *)
(* when the system was reset under it.                                     *)
(***************************************************************************)

Missing == [code |-> <<>>, sure |-> FALSE]   \* rsp_missing_block_handler

EmptyOverlay == [code       |-> [w \in Words |-> NotCode],
                 blockcache |-> [w \in Words |-> Missing],
                 has_code   |-> FALSE]

\* code_overlay_matches
Matches(d, i) ==
  LET o == d.code_overlays[i]
  IN  o.has_code /\ \A w \in Words : o.code[w] \in {NotCode, imem[w]}

Select(d, i) == [d EXCEPT !.selected = i, !.dirty = FALSE]

Reset(d, i) == [d EXCEPT !.code_overlays[i] = EmptyOverlay]

\* mutant: an empty overlay is not looked for
SelectNoEmpty(d) ==
  LET matching == {i \in 0..(d.allocated - 1) : Matches(d, i)}
  IN  IF ~d.dirty THEN {d}
      ELSE IF matching # {} THEN {Select(d, i) : i \in Smallest(matching)}
      ELSE IF d.allocated < NumOverlays
        THEN {Select(Reset([d EXCEPT !.allocated = @ + 1], d.allocated), d.allocated)}
      ELSE {Select(Reset(d, i), i) : i \in Overlays}

\* The first half of rsp_dynarec_step: what it may make of the overlays when they
\* are dirty.  The first that matches is selected, else the first that is empty,
\* else the next, and when there is no next any of them is given up.
SelectOverlay(d) ==
  LET matching == {i \in 0..(d.allocated - 1) : Matches(d, i)}
      empty    == {i \in 0..(d.allocated - 1) : ~d.code_overlays[i].has_code}
  IN  IF ~d.dirty THEN {d}
      ELSE IF matching # {} THEN {Select(d, i) : i \in Smallest(matching)}
      ELSE IF empty # {} THEN {Select(d, i) : i \in Smallest(empty)}
      ELSE IF d.allocated < NumOverlays
        THEN {Select(Reset([d EXCEPT !.allocated = @ + 1], d.allocated), d.allocated)}
      ELSE {Select(Reset(d, i), i) : i \in Overlays}

(***************************************************************************)
(* Compiling.                                                              *)
(***************************************************************************)

\* IMEM wraps around.
WordAt(w, k) == (w + k - 1) % ImemWords

\* A block ends with a BREAK, or with what follows a branch.
EndsBlock(w, k) ==
  \/ imem[WordAt(w, k)] = "break"
  \/ k > 1 /\ imem[WordAt(w, k - 1)] = "branch"

\* Without a branch or a BREAK in IMEM there is no length: the compiler does not
\* come to an end.
Length(w) == Smallest({k \in 1..(ImemWords + 1) : EndsBlock(w, k)})

BlockCode(w, length) == [k \in 1..length |-> imem[WordAt(w, k)]]

Covers(w, code) == {WordAt(w, k) : k \in DOMAIN code}

\* flush_rsp_code_cache
Flush(d) == [d EXCEPT !.used = 0, !.code_overlays = [i \in Overlays |-> EmptyOverlay]]

CopyWords(o, covered) ==
  [o EXCEPT !.code = [w \in Words |-> IF w \in covered THEN imem[w] ELSE @[w]]]

SetBlock(o, w, block) == [o EXCEPT !.blockcache[w] = block, !.has_code = TRUE]

\* rs_jit_compile_new_rsp_block and rsp_missing_block_handler: the words are
\* copied into the overlay before room is made for the code.
CompileBlock(d, w, length) ==
  LET code   == BlockCode(w, length)
      copied == [d EXCEPT !.code_overlays[d.selected] = CopyWords(@, Covers(w, code))]
      fits   == d.used + length < CodecacheSize
      roomy  == IF fits THEN copied ELSE Flush(copied)
  IN  [roomy EXCEPT
         !.used = @ + length,
         !.code_overlays[d.selected] = SetBlock(@, w, [code |-> code, sure |-> fits])]

Block(d, w) == d.code_overlays[d.selected].blockcache[w]

\* The overlays with which the code at a word is run.
Prepared(w) ==
  LET selected == SelectOverlay(dynarec)
      missing  == {d \in selected : Block(d, w).code = <<>>}
  IN  (selected \ missing) \cup {CompileBlock(d, w, n) : d \in missing, n \in Length(w)}

(***************************************************************************)
(* Writes to IMEM.                                                         *)
(***************************************************************************)

\* mutant: only the first word of a transfer is looked up
InvalidateFirst(d, written) ==
  LET o == d.code_overlays[d.selected]
  IN  [d EXCEPT !.dirty = @ \/ \E w \in Smallest(written) : o.code[w] # NotCode]

\* quick_invalidate_rsp_icache for each word written
Invalidate(d, written) ==
  LET o == d.code_overlays[d.selected]
  IN  [d EXCEPT !.dirty = @ \/ \E w \in written : o.code[w] # NotCode]

\* mutant: the interpreter's copy of the first word only is replaced
ReplacesFirst(new) ==
  icache' = [w \in Words |-> IF w \in Smallest(DOMAIN new) THEN new[w] ELSE icache[w]]

\* The interpreter's copy of the words written, too.
ReplacesCopy(new) ==
  icache' = [w \in Words |-> IF w \in DOMAIN new THEN new[w] ELSE icache[w]]

Write(d, new) ==
  /\ imem' = [w \in Words |-> IF w \in DOMAIN new THEN new[w] ELSE imem[w]]
  /\ ReplacesCopy(new)
  /\ dynarec' = Invalidate(d, DOMAIN new)

\* The rows of a transfer follow each other; it starts and ends with a doubleword.
DmaTargets ==
  {{(first + j) % ImemWords : j \in 0..(length - 1)} :
     first \in {w \in Words : w % 2 = 0}, length \in {n \in 1..ImemWords : n % 2 = 0}}

\* rsp_dma_read into IMEM
DmaRead(d, target, image) == Write(d, [w \in target |-> image[w]])

(***************************************************************************)
(* The CPU.                                                                *)
(***************************************************************************)

\* A byte, half, word or doubleword stored: all of them write one word.
StoreImem(w, i) ==
  /\ Write(dynarec, [x \in {w} |-> i])
  /\ UNCHANGED halt

CpuDmaRead(target, image) ==
  /\ DmaRead(dynarec, target, image)
  /\ UNCHANGED halt

\* rsp_status_reg_write
StatusWrite(set_halt) ==
  /\ halt' = set_halt
  /\ UNCHANGED <<imem, icache, dynarec>>

\* Only history: unless it is dirty, the blocks of an overlay are no longer sure.
Doubt(o, dirty) ==
  [o EXCEPT !.blockcache = [w \in Words |-> [code |-> @[w].code, sure |-> @[w].sure /\ dirty]]]

\* reset_n64system: IMEM is cleared and the overlays are not told.
ResetSystem ==
  /\ imem' = [w \in Words |-> "nop"]
  /\ icache' = [w \in Words |-> "nop"]
  /\ halt' = TRUE
  /\ dynarec' = [dynarec EXCEPT !.code_overlays[dynarec.selected] = Doubt(@, dynarec.dirty)]

(***************************************************************************)
(* A step of the RSP.                                                      *)
(***************************************************************************)

\* A block that ends with a branch in the slot of another is left to the
\* interpreter, which goes on until no branch is pending.
Executed(code) == IF Last(code) = "branch" THEN Range(icache) ELSE Range(code)

Halts(code) ==
  IF Last(code) = "break" THEN {TRUE}
  ELSE IF Executed(code) \cap {"break", "mtc0"} # {} THEN BOOLEAN
  ELSE {FALSE}

\* rsp_dynarec_step with the program at word w.
DynarecStep(w) ==
  /\ ~halt
  /\ \E d \in Prepared(w) :
       LET code == Block(d, w).code
       IN  /\ halt' \in Halts(code)
           /\ \/ /\ dynarec' = d
                 /\ UNCHANGED <<imem, icache>>
              \/ /\ "mtc0" \in Executed(code)
                 /\ \E target \in DmaTargets, image \in Images : DmaRead(d, target, image)

Init ==
  /\ imem = [w \in Words |-> "nop"]
  /\ icache = imem
  /\ halt = TRUE
  /\ dynarec = [code_overlays |-> [i \in Overlays |-> EmptyOverlay],
                selected |-> 0, allocated |-> 0, used |-> 0, dirty |-> FALSE]

Next ==
  \/ \E w \in Words, i \in Instructions : StoreImem(w, i)
  \/ \E target \in DmaTargets, image \in Images : CpuDmaRead(target, image)
  \/ \E set_halt \in BOOLEAN : StatusWrite(set_halt)
  \/ ResetSystem
  \/ \E w \in Words : DynarecStep(w)

Spec == Init /\ [][Next]_vars

(***************************************************************************)
(* Properties.                                                             *)
(***************************************************************************)

OverlayType == [code       : [Words -> Instructions \cup {NotCode}],
                blockcache : [Words -> [code : Seq(Instructions), sure : BOOLEAN]],
                has_code   : BOOLEAN]

DynarecType == [code_overlays : [Overlays -> OverlayType],
                selected  : Overlays,
                allocated : 0..NumOverlays,
                used      : 0..(CodecacheSize - 1),
                dirty     : BOOLEAN]

TypeOK ==
  /\ imem \in [Words -> Instructions]
  /\ icache \in [Words -> Instructions]
  /\ halt \in BOOLEAN
  /\ dynarec \in DynarecType

Agrees(b, w, words) == \A k \in DOMAIN b.code : b.code[k] = words[WordAt(w, k)]

Current(d) == \A w \in Words : Block(d, w).sure => Agrees(Block(d, w), w, imem)

\* Wherever the RSP goes next, the code it runs was compiled from what IMEM holds
\* now.  Excepted are the blocks whose compilation filled the code cache, which
\* leaves no copy of their words in the overlay (dynarec_memory_management.c:21),
\* and those of the selected overlay when the system is reset (n64system.c:172).
CodeIsCurrent == \A d \in SelectOverlay(dynarec) : Current(d)

\* The interpreter, which runs the branches in a delay slot, sees what IMEM holds.
IcacheIsCurrent == icache = imem

\* Compiled code is given up only when there is no room: the code cache is full, or
\* all overlays are in use and hold code.  The first overlay is the exception: it
\* is used before it is allocated.
CodeIsOnlyLostWhenFull ==
  [][\A i \in Overlays, w \in Words :
       /\ dynarec.code_overlays[i].blockcache[w].code # <<>>
       /\ dynarec'.code_overlays[i].blockcache[w].code = <<>>
       => \/ i >= dynarec.allocated
          \/ \E x \in Words : \E n \in Length(x) : dynarec.used + n >= CodecacheSize
          \/ \A j \in Overlays : dynarec.code_overlays[j].has_code]_vars

=============================================================================
