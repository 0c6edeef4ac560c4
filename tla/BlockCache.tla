----------------------------- MODULE BlockCache -----------------------------
(***************************************************************************)
(* The JIT's cache of compiled blocks (src/cpu/dynarec/dynarec.c, dynarec.h, *)
(* dynarec_memory_management.c, v2/v2_compiler.c, src/jit/src/lib.rs) and  *)
(* the writes to RDRAM that have to invalidate it (n64bus.c, pi.c, si.c,   *)
(* rsp.h).                                                                 *)
(*                                                                         *)
(* Everything the cache consists of lives in one buffer that is allocated  *)
(* from front to back and, when it is full, from the front again: lists of *)
(* block headers, one per page, with a header per word; the pages' masks,  *)
(* which say what words were compiled; more headers, for the same word in  *)
(* another mode or at another virtual address; and the compiled code.      *)
(* Nothing is erased, so that a pointer kept over an allocation may point  *)
(* into something else.                                                    *)
(*                                                                         *)
(* Sizes are scaled: a header, a mask and the code of one instruction are  *)
(* a cell each.  The program may go to any word next, and its instructions *)
(* matter only by the way they end a block.                                *)
(***************************************************************************)
EXTENDS Integers, FiniteSets

CONSTANTS
  NumPages,       \* pages of RDRAM
  PageWords,      \* BLOCKCACHE_INNER_SIZE
  VirtualPages,   \* virtual pages that a page of RDRAM can be reached by
  CodecacheSize,  \* in cells
  SiWords,        \* words moved by a PIF transfer
  Programs,       \* what RDRAM may hold when the program starts
  Patches,        \* the instructions that may be written
  MaxWrites       \* bound: how often RDRAM is written or cleared

\* A NOP; a branch to itself; an instruction that ends a block.
Instructions == {"nop", "b_self", "eret"}

Words == 0..(NumPages * PageWords - 1)
Pages == 0..(NumPages - 1)

ASSUME BlockCacheAssumption ==
  /\ NumPages \in Nat \ {0}
  /\ PageWords \in Nat \ {0, 1} /\ PageWords % 2 = 0
  /\ VirtualPages # {}
  /\ CodecacheSize \in Nat /\ CodecacheSize > PageWords + 1
  /\ SiWords \in 1..Cardinality(Words)
  /\ Programs \subseteq [Words -> Instructions]
  /\ Patches \subseteq Instructions
  /\ MaxWrites \in Nat

VARIABLES
  rdram,       \* the instruction in each word of RDRAM
  fr,          \* Status.FR, the only part of n64dynarec.sysconfig
  codecache,   \* the cells of the buffer
  used,        \* n64dynarec.codecache_used
  blockcache,  \* page -> cell of its list of headers, or Null
  code_mask,   \* page -> cell of its mask, or Null
  missed,      \* words changed under a page's blocks by who does not look (history)
  writes       \* writes and resets so far

buffer == <<codecache, used>>
index  == <<blockcache, code_mask>>
cache  == <<buffer, index>>
jit_vars   == <<rdram, fr, cache, missed, writes>>

Null == -1
Idle == -2   \* idle_loop_replacement, which is not in the buffer

OuterIndex(w) == w \div PageWords
InnerIndex(w) == w % PageWords

(***************************************************************************)
(* Instructions, and what is put into a block.                             *)
(***************************************************************************)

Branches(w) == rdram[w] = "b_self"

\* The last word of the block that begins with a word: the end of the page, an
\* ERET or the like, or what follows a branch.  A branch in the slot of another
\* ends the block too.
LastWord(first) ==
  CHOOSE last \in first..(NumPages * PageWords - 1) :
    LET Ends(w) == \/ InnerIndex(w + 1) = 0
                   \/ rdram[w] = "eret"
                   \/ w > first /\ Branches(w - 1)
    IN  Ends(last) /\ \A w \in first..(last - 1) : ~Ends(w)

TempCode(first) == [w \in first..LastWord(first) |-> rdram[w]]

\* A branch to itself with a NOP in its slot is not compiled.
DetectIdleLoop(code) ==
  \E w \in DOMAIN code :
    DOMAIN code = {w, w + 1} /\ code[w] = "b_self" /\ code[w + 1] = "nop"

\* What the code of a block depends on besides its instructions: their virtual
\* address, which branches and links are compiled for, and Status.FR.
Modes == [fr : BOOLEAN, virtual : VirtualPages]

(***************************************************************************)
(* The buffer.  c is the cache between two steps of a handler: the record  *)
(* of the buffer and the index into it.                                    *)
(***************************************************************************)

Header(run, mode, next) == [kind |-> "header", run |-> run, mode |-> mode, next |-> next]
Zeroed                  == Header(Null, [fr |-> FALSE, virtual |-> Null], Null)
Mask(inner)             == [kind |-> "mask", inner |-> inner]
Junk                    == [kind |-> "junk"]

\* One instruction of compiled code, which works at the cell home only.
Code(code, mode, home, w) ==
  [kind |-> "code", code |-> code, mode |-> mode, home |-> home, word |-> w]

Overwrite(f, new) == [x \in DOMAIN f |-> IF x \in DOMAIN new THEN new[x] ELSE f[x]]

Put(c, cells) == [c EXCEPT !.codecache = Overwrite(@, cells)]

\* A write to one field of a header, through a pointer that may be stale.
SetRun(c, a, run) ==
  [c EXCEPT !.codecache[a] = IF @.kind = "header" THEN [@ EXCEPT !.run = run] ELSE Junk]

SetNext(c, a, next) == [c EXCEPT !.codecache[a].next = next]

MarkCode(c, a, inner) ==
  [c EXCEPT !.codecache[a] = IF @.kind = "mask" THEN Mask(@.inner \cup inner) ELSE Junk]

FlushCodeCache(c) == [c EXCEPT !.used = 0, !.blockcache = [p \in Pages |-> Null]]

MakeRoom(c, size) == IF c.used + size >= CodecacheSize THEN FlushCodeCache(c) ELSE c

\* dynarec_bumpalloc: the pointer it returns, and the cache after it.
BumpPtr(c, size)   == MakeRoom(c, size).used

BumpAlloc(c, size) == [MakeRoom(c, size) EXCEPT !.used = @ + size]

(***************************************************************************)
(* Looking a block up.  The operators return the cache and a header.       *)
(***************************************************************************)

\* The list and the mask of a page are allocated one after the other; the list
\* is used although the second allocation may have flushed the first.
NewPage(c, p) ==
  LET list == BumpPtr(c, PageWords)
      c1   == Put([BumpAlloc(c, PageWords) EXCEPT !.blockcache[p] = list],
                  [a \in list..(list + PageWords - 1) |-> Zeroed])
      mask == BumpPtr(c1, 1)
      c2   == [BumpAlloc(c1, 1) EXCEPT !.code_mask[p] = mask, !.codecache[mask] = Mask({})]
  IN  [cache |-> c2, list |-> list]

\* The headers of a word, which are tried one after the other.
Chain(c, head) ==
  LET NextOf(a) == IF a = Null THEN Null ELSE c.codecache[a].next
      Nth[k \in 0..CodecacheSize] == IF k = 0 THEN head ELSE NextOf(Nth[k - 1])
  IN  {Nth[k] : k \in DOMAIN Nth} \ {Null}

\* mutant: blocks are told apart by the mode only
MatchesAnyAddress(c, a, mode) == c.codecache[a].mode.fr = mode.fr

Matches(c, a, mode) == c.codecache[a].mode = mode

\* A block that is found changes places with the first; otherwise there is a
\* new header at the end.
FindMatchingBlock(c, head, mode) ==
  LET tried == Chain(c, head)
      found == {a \in tried : Matches(c, a, mode)}
      Swap(a) ==
        [c EXCEPT !.codecache[head] = [c.codecache[a] EXCEPT !.next = c.codecache[head].next],
                  !.codecache[a]    = [c.codecache[head] EXCEPT !.next = c.codecache[a].next]]
      last  == CHOOSE a \in tried : c.codecache[a].next = Null
      new   == BumpPtr(c, 1)
  IN  IF c.codecache[head].run = Null THEN [cache |-> c, block |-> head]
      ELSE IF found # {} THEN [cache |-> Swap(CHOOSE a \in found : TRUE), block |-> head]
      ELSE [cache |-> SetNext([BumpAlloc(c, 1) EXCEPT !.codecache[new] = Zeroed], last, new),
            block |-> new]

BlockAtAddress(c, w, mode) ==
  LET p    == OuterIndex(w)
      page == IF c.blockcache[p] = Null THEN NewPage(c, p)
                                        ELSE [cache |-> c, list |-> c.blockcache[p]]
  IN  FindMatchingBlock(page.cache, page.list + InnerIndex(w), mode)

(***************************************************************************)
(* Compiling a block.                                                      *)
(***************************************************************************)

\* mutant: the code is longer than what is set aside for it
CompileShort(c, block, code, mode) ==
  LET size  == Cardinality(DOMAIN code)
      base  == c.used
      at    == BumpPtr(c, size)
      first == CHOOSE w \in DOMAIN code : w - 1 \notin DOMAIN code
      cell  == [a \in at..(at + size - 1) |->
                 Code(code, mode, base + a - at, first + a - at)]
  IN  [cache |-> SetRun(Put(BumpAlloc(c, size - 1), cell), block, at), run |-> at]

\* The code is made for the cell that is free next.  If it does not fit there,
\* the allocation moves it to the front of the buffer.
Compile(c, block, code, mode) ==
  LET size  == Cardinality(DOMAIN code)
      base  == c.used
      at    == BumpPtr(c, size)
      first == CHOOSE w \in DOMAIN code : w - 1 \notin DOMAIN code
      cell  == [a \in at..(at + size - 1) |->
                 Code(code, mode, base + a - at, first + a - at)]
  IN  [cache |-> SetRun(Put(BumpAlloc(c, size), cell), block, at), run |-> at]

MissingBlockHandler(c, block, w, mode) ==
  LET code == TempCode(w)
      c1   == [c EXCEPT !.codecache[block] = Header(Null, mode, Null)]
      c2   == MarkCode(c1, c1.code_mask[OuterIndex(w)], {InnerIndex(x) : x \in DOMAIN code})
  IN  IF DetectIdleLoop(code) THEN [cache |-> SetRun(c2, block, Idle), run |-> Idle]
                              ELSE Compile(c2, block, code, mode)

(***************************************************************************)
(* What the index leads to.  The other cells are never read again: whoever *)
(* allocates one writes all of it first.                                   *)
(***************************************************************************)

Headers(c) ==
  LET First(p) == IF c.blockcache[p] = Null THEN {}
                  ELSE c.blockcache[p]..(c.blockcache[p] + PageWords - 1)
  IN  UNION {Chain(c, a) : a \in UNION {First(p) : p \in Pages}}

CodeCells(c, run) ==
  IF run < 0 \/ c.codecache[run].kind # "code" THEN {}
  ELSE run..(run + Cardinality(DOMAIN c.codecache[run].code) - 1)

Live(c) ==
  LET headers == Headers(c)
  IN  headers \cup (UNION {CodeCells(c, c.codecache[a].run) : a \in headers})
              \cup ({c.code_mask[p] : p \in Pages} \ {Null})

Forget(c) ==
  LET live == Live(c)
  IN  [c EXCEPT !.codecache = [a \in DOMAIN @ |-> IF a \in live THEN @[a] ELSE Junk]]

(***************************************************************************)
(* Running a block.                                                        *)
(***************************************************************************)

\* What is found in the buffer at the address of the code.
Execute(c, run, w, mode) ==
  LET cell == c.codecache[run]
      IsIntact(a) == c.codecache[a] = Code(cell.code, cell.mode, a, w + a - run)
  IN  IF run = Idle
        THEN [whole |-> TRUE, mode |-> mode,
              code |-> [x \in {w, w + 1} |-> IF x = w THEN "b_self" ELSE "nop"]]
      ELSE IF cell.kind = "code" /\ \A a \in CodeCells(c, run) : IsIntact(a)
        THEN [whole |-> TRUE, mode |-> cell.mode, code |-> cell.code]
      ELSE [whole |-> FALSE]

Cache == [codecache |-> codecache, used |-> used,
          blockcache |-> blockcache, code_mask |-> code_mask]

BecomesCache(c) ==
  /\ codecache' = IF c = Cache THEN codecache ELSE Forget(c).codecache
  /\ used' = c.used
  /\ blockcache' = c.blockcache
  /\ code_mask' = c.code_mask

\* n64_dynarec_step with the program at word w in the given mode.
Stepped(w, mode) ==
  LET at  == BlockAtAddress(Cache, w, mode)
      run == at.cache.codecache[at.block].run
  IN  IF run # Null THEN [cache |-> at.cache, run |-> run]
                    ELSE MissingBlockHandler(at.cache, at.block, w, mode)

ModeAt(v) == [fr |-> fr, virtual |-> v]

\* The program goes on at any word, through any virtual page.  An address that is
\* not mapped does not get as far as the cache.
DynarecStep(w, v) ==
  /\ BecomesCache(Stepped(w, ModeAt(v)).cache)
  /\ missed' = {x \in missed : blockcache'[OuterIndex(x)] # Null}
  /\ UNCHANGED <<rdram, fr, writes>>

(***************************************************************************)
(* Writes to RDRAM.                                                        *)
(***************************************************************************)

\* is_code, and what it may return when the mask's cell has become something else.
IsCode(w) ==
  LET a == code_mask[OuterIndex(w)]
  IN  IF a = Null THEN {FALSE}
      ELSE IF codecache[a].kind = "mask" THEN {InnerIndex(w) \in codecache[a].inner}
      ELSE BOOLEAN

\* mutant: the mask goes, the list stays
InvalidateKeepsList(looked) ==
  \E hits \in SUBSET looked :
    /\ \A w \in looked : (w \in hits) \in IsCode(w)
    /\ BecomesCache([Cache EXCEPT !.code_mask =
                      [p \in Pages |-> IF p \in {OuterIndex(w) : w \in hits} THEN Null ELSE @[p]]])

\* invalidate_dynarec_page for each word of looked: a page goes if one of them is code.
Invalidate(looked) ==
  \E hits \in SUBSET looked :
    /\ \A w \in looked : (w \in hits) \in IsCode(w)
    /\ LET Without(f) == [p \in Pages |-> IF p \in {OuterIndex(w) : w \in hits} THEN Null ELSE f[p]]
       IN  BecomesCache([Cache EXCEPT !.blockcache = Without(@), !.code_mask = Without(@)])

\* The words of new are written and those of looked are looked up before; blind
\* are those the handler writes without looking.
Write(new, looked, blind) ==
  /\ writes < MaxWrites
  /\ writes' = writes + 1
  /\ rdram' = Overwrite(rdram, new)
  /\ Invalidate(looked)
  /\ missed' = {w \in missed \cup {x \in blind : rdram'[x] # rdram[x] /\ TRUE \in IsCode(x)} :
                  blockcache'[OuterIndex(w)] # Null}
  /\ UNCHANGED fr

\* A byte, a half or a word stored by the CPU or, for the bytes, by a PI transfer.
StoreWord(w, i) == Write([x \in {w} |-> i], {w}, {})

\* A doubleword stored by the CPU: its first word is looked up.
StoreDword(w, i, j) ==
  /\ w % 2 = 0
  /\ Write([x \in {w, w + 1} |-> IF x = w THEN i ELSE j], {w}, {w + 1})

\* A PI transfer to RDRAM looks at every byte.  What goes past the end of RDRAM is
\* written to its beginning and looked up past the end, where no code is.
PiDmaWrite(first, length, i) ==
  LET addresses == first..(first + length - 1)
      moved     == {a % Cardinality(Words) : a \in addresses}
  IN  Write([w \in moved |-> i], addresses \cap Words, moved \ addresses)

\* A row of an RSP transfer looks at its first word, and at one word a page after
\* that; a row is no longer than a page.
RspDmaWrite(first, last, i) ==
  /\ first % 2 = 0 /\ last % 2 = 1
  /\ last - first \in 1..(PageWords - 1)
  /\ Write([w \in first..last |-> i], {first}, first..last \ {first})

\* A PIF transfer does not look.
PifToDram(first, i) ==
  /\ first + SiWords - 1 \in Words
  /\ LET moved == first..(first + SiWords - 1)
     IN  Write([w \in moved |-> i], {}, moved)

(***************************************************************************)
(* The mode, and a reset.                                                  *)
(***************************************************************************)

Cp0StatusUpdated ==
  /\ fr' = ~fr
  /\ UNCHANGED <<rdram, cache, missed, writes>>

\* invalidate_dynarec_all_pages: the lists go, the masks stay.
Reset ==
  /\ writes < MaxWrites
  /\ writes' = writes + 1
  /\ rdram' = [w \in Words |-> "nop"]
  /\ fr' = FALSE
  /\ BecomesCache([Cache EXCEPT !.blockcache = [p \in Pages |-> Null]])
  /\ missed' = {}

JitInit ==
  /\ rdram \in Programs
  /\ fr = FALSE
  /\ codecache = [a \in 0..(CodecacheSize - 1) |-> Junk]
  /\ used = 0
  /\ blockcache = [p \in Pages |-> Null]
  /\ code_mask = [p \in Pages |-> Null]
  /\ missed = {}
  /\ writes = 0

JitNext ==
  \/ \E w \in Words, v \in VirtualPages : DynarecStep(w, v)
  \/ \E w \in Words, i \in Patches : StoreWord(w, i)
  \/ \E w \in Words, i, j \in Patches : StoreDword(w, i, j)
  \/ \E w \in Words, n \in 2..Cardinality(Words), i \in Patches : PiDmaWrite(w, n, i)
  \/ \E f, l \in Words, i \in Patches : RspDmaWrite(f, l, i)
  \/ \E w \in Words, i \in Patches : PifToDram(w, i)
  \/ Cp0StatusUpdated
  \/ Reset

JitSpec == JitInit /\ [][JitNext]_jit_vars

(***************************************************************************)
(* Properties.                                                             *)
(***************************************************************************)

\* Types, and the shape of the index: the list of a page is a list of headers
\* and its mask is a mask, both in the part of the buffer that is in use, and
\* the headers of a word are for different modes.
JitTypeOK ==
  /\ rdram \in [Words -> Instructions]
  /\ fr \in BOOLEAN
  /\ DOMAIN codecache = 0..(CodecacheSize - 1)
  /\ used \in 0..CodecacheSize
  /\ blockcache \in [Pages -> Null..(CodecacheSize - 1)]
  /\ code_mask \in [Pages -> Null..(CodecacheSize - 1)]
  /\ missed \subseteq Words
  /\ \A p \in Pages : blockcache[p] # Null =>
       /\ code_mask[p] \in 0..(used - 1) /\ codecache[code_mask[p]].kind = "mask"
       /\ \A a \in blockcache[p]..(blockcache[p] + PageWords - 1) :
            a < used /\ codecache[a].kind = "header"

\* What would be executed next.
Ran(w, v) == LET s == Stepped(w, ModeAt(v)) IN Execute(s.cache, s.run, w, ModeAt(v))

\* Wherever the program goes, what is executed was compiled for that address and
\* the mode the program is in, from what memory holds now.  Excepted are the words
\* written by who does not look whether they are code: the second word of a
\* doubleword store (n64bus.c:416), a PIF transfer (si.c:17), all but the first
\* word of a row of an RSP transfer (rsp.h:249), and the part of a PI transfer that
\* goes past the end of RDRAM (pi.c:179).
CodeIsCurrent ==
  \A w \in Words, v \in VirtualPages :
    LET ran == Ran(w, v)
    IN  ran.whole => /\ ran.mode = ModeAt(v)
                     /\ \A x \in DOMAIN ran.code \ missed : ran.code[x] = rdram[x]

\* Code is executed as it was compiled and where it was compiled for, unless its
\* compilation filled the buffer: then it has moved, and the header may have been
\* written into it, but nothing leads to it after that.
CodeIsWhole ==
  \A w \in Words, v \in VirtualPages :
    ~Ran(w, v).whole => Stepped(w, ModeAt(v)).cache.blockcache[OuterIndex(w)] = Null
============================================================================
