-------------------------- MODULE RspOverlaysProofs --------------------------
(***************************************************************************)
(* Theorems about RspOverlays, for every size of IMEM, of the code cache   *)
(* and of the set of overlays, and for all that RDRAM may hold.            *)
(***************************************************************************)
EXTENDS RspOverlays, SequenceTheorems, TLAPS

(***************************************************************************)
(* The inductive invariant.  An overlay that is not selected agrees with   *)
(* nothing: what has to be kept about it is that its copy describes its    *)
(* blocks, so that it is right to select it when the copy agrees with      *)
(* IMEM.                                                                   *)
(***************************************************************************)
OverlayIsCopied(o) ==
  \A w \in Words : o.blockcache[w].sure => o.has_code /\ Agrees(o.blockcache[w], w, o.code)

Copied(d) == \A i \in Overlays : OverlayIsCopied(d.code_overlays[i])

Good(d) == d \in DynarecType /\ Copied(d) /\ (~d.dirty => Current(d))

Inv == TypeOK /\ Good(dynarec)

(***************************************************************************)
(* Words, instructions and overlays.                                       *)
(***************************************************************************)
LEMMA WordAtTyped == ASSUME NEW w \in Words, NEW k \in Nat \ {0} PROVE WordAt(w, k) \in Words
<1>1. w + k - 1 \in Int /\ ImemWords \in Nat \ {0}
  BY RspOverlaysAssumption DEF Words
<1>2. \A a \in Int : a % ImemWords \in 0..(ImemWords - 1)
  BY <1>1, SMT
<1>3. QED
  BY <1>1, <1>2 DEF WordAt, Words

LEMMA InstructionAt ==
  ASSUME NEW s \in Seq(Instructions), NEW k \in DOMAIN s
  PROVE  k \in Nat \ {0} /\ s[k] \in Instructions
<1>1. Len(s) \in Nat /\ DOMAIN s = 1..Len(s)
  OBVIOUS
<1>2. k \in 1..Len(s)
  BY <1>1
<1>3. QED
  BY <1>1, <1>2, ElementOfSeq

LEMMA EmptyOverlayTyped == EmptyOverlay \in OverlayType /\ OverlayIsCopied(EmptyOverlay)
<1>1. Missing \in [code : Seq(Instructions), sure : BOOLEAN]
  BY DEF Missing
<1>2. EmptyOverlay \in OverlayType
  BY <1>1 DEF EmptyOverlay, OverlayType
<1>3. \A w \in Words : ~EmptyOverlay.blockcache[w].sure
  BY DEF EmptyOverlay, Missing
<1>4. QED
  BY <1>2, <1>3 DEF OverlayIsCopied

\* Giving up the code of an overlay.
LEMMA ResetKeepsCopied ==
  ASSUME NEW d, d.code_overlays \in [Overlays -> OverlayType], Copied(d),
         NEW e, NEW i \in Overlays,
         e.code_overlays = [d.code_overlays EXCEPT ![i] = EmptyOverlay]
  PROVE  e.code_overlays \in [Overlays -> OverlayType] /\ Copied(e)
<1>1. \A j \in Overlays : e.code_overlays[j] = IF j = i THEN EmptyOverlay ELSE d.code_overlays[j]
  OBVIOUS
<1>2. e.code_overlays \in [Overlays -> OverlayType]
  BY EmptyOverlayTyped
<1>3. \A j \in Overlays : OverlayIsCopied(e.code_overlays[j])
  BY <1>1, EmptyOverlayTyped DEF Copied
<1>4. QED
  BY <1>2, <1>3 DEF Copied

(***************************************************************************)
(* Selecting an overlay makes the selected code current.                   *)
(***************************************************************************)
LEMMA SelectMatching ==
  ASSUME NEW d \in DynarecType, Copied(d), NEW i \in Overlays, Matches(d, i)
  PROVE  Good(Select(d, i)) /\ ~Select(d, i).dirty
<1> DEFINE e == Select(d, i)
           o == d.code_overlays[i]
<1>1. /\ e \in DynarecType /\ ~e.dirty
      /\ e.code_overlays = d.code_overlays /\ e.selected = i
  BY DEF Select, DynarecType
<1>2. Copied(e)
  BY <1>1 DEF Copied
<1>3. ASSUME NEW w \in Words, Block(e, w).sure
      PROVE  Agrees(Block(e, w), w, imem)
  <2>1. Block(e, w) = o.blockcache[w]
    BY <1>1 DEF Block
  <2>2. Agrees(o.blockcache[w], w, o.code)
    BY <1>3, <2>1 DEF Copied, OverlayIsCopied
  <2>3. o \in OverlayType
    BY DEF DynarecType
  <2>4. o.blockcache[w].code \in Seq(Instructions)
    BY <2>3 DEF OverlayType
  <2>5. ASSUME NEW k \in DOMAIN o.blockcache[w].code
        PROVE  o.blockcache[w].code[k] = imem[WordAt(w, k)]
    <3>1. k \in Nat \ {0} /\ o.blockcache[w].code[k] \in Instructions
      BY <2>4, InstructionAt
    <3>2. WordAt(w, k) \in Words
      BY <3>1, WordAtTyped
    <3>3. o.blockcache[w].code[k] = o.code[WordAt(w, k)]
      BY <2>2 DEF Agrees
    <3>4. o.code[WordAt(w, k)] # NotCode
      BY <3>1, <3>3 DEF Instructions, NotCode
    <3>5. QED
      BY <3>2, <3>3, <3>4 DEF Matches
  <2>6. QED
    BY <2>1, <2>5 DEF Agrees
<1>4. QED
  BY <1>1, <1>2, <1>3 DEF Good, Current

LEMMA SelectMissing ==
  ASSUME NEW d \in DynarecType, Copied(d), NEW i \in Overlays,
         \A w \in Words : ~d.code_overlays[i].blockcache[w].sure
  PROVE  Good(Select(d, i)) /\ ~Select(d, i).dirty
<1> DEFINE e == Select(d, i)
<1>1. /\ e \in DynarecType /\ ~e.dirty
      /\ e.code_overlays = d.code_overlays /\ e.selected = i
  BY DEF Select, DynarecType
<1> HIDE DEF e
<1>2. Copied(e)
  BY <1>1 DEF Copied
<1>3. \A w \in Words : ~Block(e, w).sure
  BY <1>1 DEF Block
<1>4. Current(e)
  BY <1>3 DEF Current
<1>5. QED
  BY <1>1, <1>2, <1>4 DEF Good, e

LEMMA ResetTyped ==
  ASSUME NEW d \in DynarecType, Copied(d), NEW i \in Overlays
  PROVE  /\ Reset(d, i) \in DynarecType /\ Copied(Reset(d, i))
         /\ \A w \in Words : ~Reset(d, i).code_overlays[i].blockcache[w].sure
<1> DEFINE e == Reset(d, i)
<1>1. d.code_overlays \in [Overlays -> OverlayType]
  BY DEF DynarecType
<1>2. e.code_overlays = [d.code_overlays EXCEPT ![i] = EmptyOverlay]
  BY DEF Reset, DynarecType
<1>3. e.code_overlays[i] = EmptyOverlay
  BY <1>1, <1>2
<1>4. e.code_overlays \in [Overlays -> OverlayType] /\ Copied(e)
  BY <1>1, <1>2, ResetKeepsCopied
<1>5. e \in DynarecType
  BY <1>4, EmptyOverlayTyped DEF Reset, DynarecType
<1>6. QED
  BY <1>3, <1>4, <1>5 DEF EmptyOverlay, Missing

LEMMA SelectReset ==
  ASSUME NEW d \in DynarecType, Copied(d), NEW i \in Overlays
  PROVE  Good(Select(Reset(d, i), i)) /\ ~Select(Reset(d, i), i).dirty
  BY ResetTyped, SelectMissing

LEMMA AllocateTyped ==
  ASSUME NEW d \in DynarecType, Copied(d), d.allocated < NumOverlays
  PROVE  /\ [d EXCEPT !.allocated = @ + 1] \in DynarecType
         /\ Copied([d EXCEPT !.allocated = @ + 1])
<1> DEFINE e == [d EXCEPT !.allocated = @ + 1]
<1>1. e \in DynarecType /\ e.code_overlays = d.code_overlays
  BY RspOverlaysAssumption DEF DynarecType
<1> HIDE DEF e
<1>2. Copied(e)
  BY <1>1 DEF Copied
<1>3. QED
  BY <1>1, <1>2 DEF e

\* Whatever overlay is selected, its code is current.
LEMMA SelectOverlayGood ==
  ASSUME NEW d, Good(d), NEW e \in SelectOverlay(d)
  PROVE  Good(e) /\ ~e.dirty
<1> DEFINE a        == d.allocated
           o        == d.code_overlays
           matching == {i \in 0..(a - 1) : Matches(d, i)}
           empty    == {i \in 0..(a - 1) : ~o[i].has_code}
           next     == [d EXCEPT !.allocated = @ + 1]
<1>1. d \in DynarecType /\ Copied(d) /\ a \in 0..NumOverlays
  BY DEF Good, DynarecType
<1>2. 0..(a - 1) \subseteq Overlays
  BY <1>1, RspOverlaysAssumption DEF Overlays
<1>3. CASE ~d.dirty
  BY <1>3 DEF SelectOverlay, Good
<1>4. CASE \E i \in Smallest(matching) : e = Select(d, i)
  <2>1. PICK i \in Smallest(matching) : e = Select(d, i)
    BY <1>4
  <2>2. i \in Overlays /\ Matches(d, i)
    BY <1>2, <2>1 DEF Smallest
  <2>3. QED
    BY <1>1, <2>1, <2>2, SelectMatching
<1>5. CASE \E i \in Smallest(empty) : e = Select(d, i)
  <2>1. PICK i \in Smallest(empty) : e = Select(d, i)
    BY <1>5
  <2>2. i \in Overlays /\ ~o[i].has_code
    BY <1>2, <2>1 DEF Smallest
  <2>3. \A w \in Words : ~o[i].blockcache[w].sure
    BY <1>1, <2>2 DEF Copied, OverlayIsCopied
  <2>4. QED
    BY <1>1, <2>1, <2>2, <2>3, SelectMissing
<1>6. CASE a < NumOverlays /\ e = Select(Reset(next, a), a)
  <2>1. a \in Overlays
    BY <1>1, <1>6, RspOverlaysAssumption DEF Overlays
  <2>2. next \in DynarecType /\ Copied(next)
    BY <1>1, <1>6, AllocateTyped
  <2> HIDE DEF next
  <2>3. QED
    BY <1>6, <2>1, <2>2, SelectReset
<1>7. CASE \E i \in Overlays : e = Select(Reset(d, i), i)
  BY <1>1, <1>7, SelectReset
<1>8. QED
  BY <1>3, <1>4, <1>5, <1>6, <1>7 DEF SelectOverlay
(***************************************************************************)
(* Compiling a block keeps the code current, and says what it was made of. *)
(***************************************************************************)
LEMMA BlockCodeTyped ==
  ASSUME imem \in [Words -> Instructions], NEW w \in Words, NEW n \in Length(w)
  PROVE  /\ n \in 1..(ImemWords + 1)
         /\ BlockCode(w, n) \in Seq(Instructions)
         /\ DOMAIN BlockCode(w, n) = 1..n
         /\ \A k \in 1..n : /\ BlockCode(w, n)[k] = imem[WordAt(w, k)]
                           /\ WordAt(w, k) \in Words \cap Covers(w, BlockCode(w, n))
<1>1. n \in 1..(ImemWords + 1) /\ ImemWords \in Nat
  BY RspOverlaysAssumption DEF Length, Smallest
<1>2. DOMAIN BlockCode(w, n) = 1..n /\ \A k \in 1..n : BlockCode(w, n)[k] = imem[WordAt(w, k)]
  BY DEF BlockCode
<1>3. \A k \in 1..n : WordAt(w, k) \in Words
  BY <1>1, WordAtTyped
<1>4. BlockCode(w, n) \in Seq(Instructions)
  <2>1. n \in Nat
    BY <1>1
  <2>2. \A k \in 1..n : imem[WordAt(w, k)] \in Instructions
    BY <1>3
  <2>3. QED
    <3>1. BlockCode(w, n) \in [1..n -> Instructions]
      BY <2>2 DEF BlockCode
    <3>2. QED
      BY <2>1, <3>1, SeqDef
<1>5. QED
  BY <1>1, <1>2, <1>3, <1>4 DEF Covers

LEMMA CopyWordsTyped ==
  ASSUME imem \in [Words -> Instructions], NEW o \in OverlayType, NEW covered
  PROVE  /\ CopyWords(o, covered) \in OverlayType
         /\ CopyWords(o, covered).blockcache = o.blockcache
         /\ CopyWords(o, covered).has_code = o.has_code
         /\ \A w \in Words : CopyWords(o, covered).code[w]
                               = IF w \in covered THEN imem[w] ELSE o.code[w]
  BY DEF CopyWords, OverlayType

LEMMA SetBlockTyped ==
  ASSUME NEW o \in OverlayType, NEW w \in Words,
         NEW b \in [code : Seq(Instructions), sure : BOOLEAN]
  PROVE  /\ SetBlock(o, w, b) \in OverlayType
         /\ SetBlock(o, w, b).blockcache = [o.blockcache EXCEPT ![w] = b]
         /\ SetBlock(o, w, b).code = o.code
         /\ SetBlock(o, w, b).has_code
<1> DEFINE c == [o EXCEPT !.blockcache[w] = b]
<1>1. [o.blockcache EXCEPT ![w] = b] \in [Words -> [code : Seq(Instructions), sure : BOOLEAN]]
  BY DEF OverlayType
<1>2. /\ c.blockcache = [o.blockcache EXCEPT ![w] = b]
      /\ c.code = o.code
  BY DEF OverlayType
<1>3. c \in OverlayType
  BY <1>1 DEF OverlayType
<1>4. SetBlock(o, w, b) = [c EXCEPT !.has_code = TRUE]
  BY DEF SetBlock
<1> HIDE DEF c
<1>5. QED
  BY <1>2, <1>3, <1>4 DEF OverlayType

\* A copy that agrees with IMEM may get more of IMEM.
LEMMA CopyWordsCopied ==
  ASSUME imem \in [Words -> Instructions], NEW o \in OverlayType, OverlayIsCopied(o),
         \A w \in Words : o.blockcache[w].sure => Agrees(o.blockcache[w], w, imem),
         NEW covered
  PROVE  OverlayIsCopied(CopyWords(o, covered))
<1> DEFINE e == CopyWords(o, covered)
<1>1. /\ e.blockcache = o.blockcache /\ e.has_code = o.has_code
      /\ \A w \in Words : e.code[w] = IF w \in covered THEN imem[w] ELSE o.code[w]
  BY CopyWordsTyped
<1> HIDE DEF e
<1>2. ASSUME NEW w \in Words, o.blockcache[w].sure
      PROVE  o.has_code /\ Agrees(o.blockcache[w], w, e.code)
  <2>1. o.has_code /\ Agrees(o.blockcache[w], w, o.code) /\ Agrees(o.blockcache[w], w, imem)
    BY <1>2 DEF OverlayIsCopied
  <2>2. o.blockcache[w].code \in Seq(Instructions)
    BY DEF OverlayType
  <2>3. \A k \in DOMAIN o.blockcache[w].code : WordAt(w, k) \in Words
    BY <2>2, InstructionAt, WordAtTyped
  <2>4. QED
    BY <1>1, <2>1, <2>3 DEF Agrees
<1>3. QED
  BY <1>1, <1>2 DEF OverlayIsCopied, e
\* With the words copied, and after a flush.
CopyCode(d, covered) == [d EXCEPT !.code_overlays[d.selected] = CopyWords(@, covered)]

LEMMA CopiedGood ==
  ASSUME imem \in [Words -> Instructions], NEW d, Good(d), ~d.dirty, NEW covered,
         NEW c, c = CopyCode(d, covered)
  PROVE  /\ Good(c)
         /\ c.selected = d.selected /\ c.used = d.used /\ c.dirty = d.dirty
         /\ \A w \in Words \cap covered : c.code_overlays[d.selected].code[w] = imem[w]
<1> DEFINE s == d.selected
           o == d.code_overlays
           e == CopyWords(o[s], covered)
<1>1. /\ d \in DynarecType /\ Copied(d) /\ Current(d)
      /\ o \in [Overlays -> OverlayType] /\ s \in Overlays
  BY DEF Good, DynarecType
<1>2. OverlayIsCopied(o[s]) /\ o[s] \in OverlayType
  BY <1>1 DEF Copied
<1>3. \A w \in Words : o[s].blockcache[w].sure => Agrees(o[s].blockcache[w], w, imem)
  BY <1>1 DEF Current, Block
<1>4. /\ e \in OverlayType /\ OverlayIsCopied(e) /\ e.blockcache = o[s].blockcache
      /\ \A w \in Words \cap covered : e.code[w] = imem[w]
  BY <1>2, <1>3, CopyWordsTyped, CopyWordsCopied
<1> HIDE DEF e
<1>5. c = [d EXCEPT !.code_overlays[s] = e]
  BY DEF e, CopyCode
<1>6. /\ c.code_overlays = [o EXCEPT ![s] = e]
      /\ c.selected = s /\ c.used = d.used /\ c.dirty = d.dirty
  BY <1>1, <1>5 DEF DynarecType
<1>7. \A i \in Overlays : c.code_overlays[i] = IF i = s THEN e ELSE o[i]
  BY <1>1, <1>6
<1>8. c \in DynarecType
  BY <1>1, <1>4, <1>5 DEF DynarecType
<1>9. Copied(c)
  BY <1>1, <1>4, <1>7 DEF Copied
<1>10. Current(c)
  <2>1. \A w \in Words : Block(c, w) = o[s].blockcache[w]
    BY <1>1, <1>4, <1>6, <1>7 DEF Block
  <2>2. QED
    BY <1>3, <2>1 DEF Current
<1>11. QED
  BY <1>1, <1>4, <1>6, <1>7, <1>8, <1>9, <1>10 DEF Good

LEMMA FlushGood ==
  ASSUME NEW d, Good(d), ~d.dirty
  PROVE  /\ Good(Flush(d)) /\ ~Flush(d).dirty
         /\ Flush(d).selected = d.selected /\ Flush(d).used = 0
<1> DEFINE e == Flush(d)
<1>1. d \in DynarecType /\ 0 \in 0..(CodecacheSize - 1)
  BY RspOverlaysAssumption DEF Good
<1>2. /\ e.code_overlays = [i \in Overlays |-> EmptyOverlay]
      /\ e.selected = d.selected /\ e.used = 0 /\ ~e.dirty
  BY <1>1 DEF Flush, DynarecType
<1>3. e \in DynarecType
  BY <1>1, EmptyOverlayTyped DEF Flush, DynarecType
<1> HIDE DEF e
<1>4. Copied(e)
  BY <1>2, EmptyOverlayTyped DEF Copied
<1>5. Current(e)
  <2>1. e.selected \in Overlays
    BY <1>3 DEF DynarecType
  <2>2. \A w \in Words : Block(e, w) = Missing
    BY <1>2, <2>1 DEF Block, EmptyOverlay
  <2>3. QED
    BY <2>2 DEF Current, Missing
<1>6. QED
  BY <1>2, <1>3, <1>4, <1>5 DEF Good, e
LEMMA CompileBlockGood ==
  ASSUME imem \in [Words -> Instructions], NEW d, Good(d), ~d.dirty,
         NEW w \in Words, NEW n \in Length(w)
  PROVE  Good(CompileBlock(d, w, n)) /\ ~CompileBlock(d, w, n).dirty
<1> DEFINE code   == BlockCode(w, n)
           copied == CopyCode(d, Covers(w, code))
           fits   == d.used + n < CodecacheSize
           roomy  == IF fits THEN copied ELSE Flush(copied)
           block  == [code |-> code, sure |-> fits]
           s      == roomy.selected
           o      == roomy.code_overlays
           set    == SetBlock(o[s], w, block)
           e      == [roomy EXCEPT !.used = @ + n, !.code_overlays[d.selected] = SetBlock(@, w, block)]
<1>1. CompileBlock(d, w, n) = e
  BY DEF CompileBlock, CopyCode
<1>2. /\ n \in 1..(ImemWords + 1) /\ code \in Seq(Instructions) /\ DOMAIN code = 1..n
      /\ \A k \in 1..n : code[k] = imem[WordAt(w, k)] /\ WordAt(w, k) \in Words \cap Covers(w, code)
  BY BlockCodeTyped
<1> HIDE DEF code
<1>3. /\ Good(copied) /\ ~copied.dirty
      /\ copied.selected = d.selected /\ copied.used = d.used
      /\ \A x \in Words \cap Covers(w, code) : copied.code_overlays[d.selected].code[x] = imem[x]
  BY CopiedGood
<1> HIDE DEF copied
<1>4. /\ Good(roomy) /\ ~roomy.dirty /\ s = d.selected
      /\ fits => \A k \in 1..n : o[s].code[WordAt(w, k)] = code[k]
  BY <1>2, <1>3, FlushGood
<1>5. roomy.used + n \in 0..(CodecacheSize - 1)
  <2>1. CodecacheSize \in Nat /\ CodecacheSize > ImemWords + 1 /\ ImemWords \in Nat
    BY RspOverlaysAssumption
  <2>2. d.used \in Nat
    BY DEF Good, DynarecType
  <2>3. CASE fits
    BY <1>2, <1>3, <2>1, <2>2, <2>3
  <2>4. CASE ~fits
    <3>1. roomy.used = 0
      BY <1>3, <2>4, FlushGood
    <3>2. QED
      BY <1>2, <2>1, <3>1
  <2>5. QED
    BY <2>3, <2>4
<1>6. block \in [code : Seq(Instructions), sure : BOOLEAN] /\ block.code = code /\ block.sure = fits
  BY <1>2
<1> HIDE DEF block, fits, roomy
<1>7. /\ roomy \in DynarecType /\ Copied(roomy) /\ Current(roomy)
      /\ s \in Overlays /\ o \in [Overlays -> OverlayType] /\ o[s] \in OverlayType
  BY <1>4 DEF Good, DynarecType
<1>8. /\ set \in OverlayType /\ set.code = o[s].code /\ set.has_code
      /\ \A x \in Words : set.blockcache[x] = IF x = w THEN block ELSE o[s].blockcache[x]
  <2>1. /\ set \in OverlayType /\ set.code = o[s].code /\ set.has_code
        /\ set.blockcache = [o[s].blockcache EXCEPT ![w] = block]
    BY <1>6, <1>7, SetBlockTyped
  <2>2. o[s].blockcache \in [Words -> [code : Seq(Instructions), sure : BOOLEAN]]
    BY <1>7 DEF OverlayType
  <2>3. QED
    BY <2>1, <2>2
<1> HIDE DEF set
<1>9. OverlayIsCopied(set)
  <2>1. \A x \in Words : o[s].blockcache[x].sure => Agrees(o[s].blockcache[x], x, o[s].code)
    BY <1>7 DEF Copied, OverlayIsCopied
  <2>2. block.sure => Agrees(block, w, o[s].code)
    BY <1>2, <1>4, <1>6 DEF Agrees
  <2>3. QED
    BY <1>8, <2>1, <2>2 DEF OverlayIsCopied
<1>10. /\ e \in DynarecType /\ e.selected = s /\ ~e.dirty
       /\ \A i \in Overlays : e.code_overlays[i] = IF i = s THEN set ELSE o[i]
  <2> DEFINE f == [roomy EXCEPT !.used = @ + n]
  <2>1. f \in DynarecType /\ f.selected = s /\ ~f.dirty /\ f.code_overlays = o
    BY <1>4, <1>5, <1>7 DEF DynarecType
  <2>2. e = [f EXCEPT !.code_overlays[s] = set]
    BY <1>4, <2>1 DEF set
  <2> HIDE DEF f, e
  <2>3. QED
    BY <1>7, <1>8, <2>1, <2>2 DEF DynarecType
<1> HIDE DEF e
<1>11. Copied(e)
  BY <1>7, <1>9, <1>10 DEF Copied
<1>12. Current(e)
  <2>1. \A x \in Words : Block(e, x) = IF x = w THEN block ELSE o[s].blockcache[x]
    BY <1>7, <1>8, <1>10 DEF Block
  <2>2. \A x \in Words : o[s].blockcache[x].sure => Agrees(o[s].blockcache[x], x, imem)
    BY <1>7 DEF Current, Block
  <2>3. Agrees(block, w, imem)
    BY <1>2, <1>6 DEF Agrees
  <2>4. QED
    BY <2>1, <2>2, <2>3 DEF Current
<1>13. QED
  BY <1>1, <1>10, <1>11, <1>12 DEF Good
LEMMA PreparedGood ==
  ASSUME imem \in [Words -> Instructions], Good(dynarec),
         NEW w \in Words, NEW d \in Prepared(w)
  PROVE  Good(d) /\ ~d.dirty
<1>1. CASE d \in SelectOverlay(dynarec)
  BY <1>1, SelectOverlayGood
<1>2. CASE \E e \in SelectOverlay(dynarec), n \in Length(w) : d = CompileBlock(e, w, n)
  BY <1>2, SelectOverlayGood, CompileBlockGood
<1>3. QED
  BY <1>1, <1>2 DEF Prepared

(***************************************************************************)
(* Writing to IMEM: what the selected overlay has compiled makes it dirty. *)
(***************************************************************************)
LEMMA WriteGood ==
  ASSUME TypeOK, NEW d, Good(d), NEW new, DOMAIN new \subseteq Words,
         \A w \in DOMAIN new : new[w] \in Instructions, Write(d, new)
  PROVE  /\ imem' \in [Words -> Instructions] /\ icache' \in [Words -> Instructions]
         /\ Good(dynarec)'
<1> DEFINE s == d.selected
           o == d.code_overlays[s]
           e == Invalidate(d, DOMAIN new)
           hit == \E w \in DOMAIN new : o.code[w] # NotCode
<1>1. /\ d \in DynarecType /\ Copied(d)
      /\ s \in Overlays /\ o \in OverlayType
  BY DEF Good, DynarecType
<1>2. /\ imem' \in [Words -> Instructions] /\ icache' \in [Words -> Instructions]
      /\ \A w \in Words \ DOMAIN new : imem'[w] = imem[w]
      /\ dynarec' = e
  BY DEF Write, ReplacesCopy, TypeOK
<1>3. /\ e \in DynarecType /\ e.selected = s /\ e.code_overlays = d.code_overlays
      /\ ~e.dirty => ~d.dirty /\ ~hit
  <2>1. e = [d EXCEPT !.dirty = @ \/ hit]
    BY DEF Invalidate
  <2>2. (d.dirty \/ hit) \in BOOLEAN
    OBVIOUS
  <2> HIDE DEF e, hit
  <2>3. QED
    BY <1>1, <2>1, <2>2 DEF DynarecType
<1>4. Copied(e)'
  BY <1>1, <1>3 DEF Copied, OverlayIsCopied, Agrees
<1>5. ASSUME ~e.dirty PROVE \A w \in Words : Block(e, w).sure => Agrees(Block(e, w), w, imem')
  <2>1. ASSUME NEW w \in Words, o.blockcache[w].sure
        PROVE  Agrees(o.blockcache[w], w, imem')
    <3> DEFINE code == o.blockcache[w].code
    <3>1. Agrees(o.blockcache[w], w, o.code)
      BY <1>1, <2>1 DEF Copied, OverlayIsCopied
    <3>2. Agrees(o.blockcache[w], w, imem)
      BY <1>3, <1>5, <2>1 DEF Good, Current, Block
    <3>3. code \in Seq(Instructions)
      BY <1>1 DEF OverlayType
    <3>4. ASSUME NEW k \in DOMAIN code
          PROVE  code[k] = imem'[WordAt(w, k)]
      <4>1. WordAt(w, k) \in Words /\ code[k] \in Instructions
        BY <3>3, InstructionAt, WordAtTyped
      <4>2. o.code[WordAt(w, k)] # NotCode
        BY <3>1, <4>1 DEF Agrees, Instructions, NotCode
      <4>3. WordAt(w, k) \notin DOMAIN new
        BY <1>3, <1>5, <4>2
      <4>4. QED
        BY <1>2, <3>2, <4>1, <4>3 DEF Agrees
    <3>5. QED
      BY <3>4 DEF Agrees
  <2>2. \A w \in Words : Block(e, w) = o.blockcache[w]
    BY <1>3 DEF Block
  <2>3. QED
    BY <2>1, <2>2
<1>6. QED
  BY <1>2, <1>3, <1>4, <1>5 DEF Good, Current, Block
(***************************************************************************)
(* The other steps.                                                        *)
(***************************************************************************)
LEMMA DmaReadGood ==
  ASSUME TypeOK, NEW d, Good(d), NEW target \in DmaTargets, NEW image \in Images,
         DmaRead(d, target, image)
  PROVE  /\ imem' \in [Words -> Instructions] /\ icache' \in [Words -> Instructions]
         /\ Good(dynarec)'
<1> DEFINE new == [w \in target |-> image[w]]
<1>1. target \subseteq Words
  <2>1. \A a \in Int : a % ImemWords \in Words
    BY RspOverlaysAssumption DEF Words
  <2>2. QED
    BY <2>1 DEF DmaTargets, Words
<1>2. image \in [Words -> Instructions]
  BY RspOverlaysAssumption
<1>3. DOMAIN new \subseteq Words /\ \A w \in DOMAIN new : new[w] \in Instructions
  BY <1>1, <1>2
<1>4. Write(d, new)
  BY DEF DmaRead
<1> HIDE DEF new
<1>5. QED
  BY <1>3, <1>4, WriteGood

LEMMA ResetSystemGood ==
  ASSUME Inv, ResetSystem
  PROVE  Good(dynarec)'
<1> DEFINE s == dynarec.selected
           o == dynarec.code_overlays[s]
           run == [w \in Words |-> [code |-> o.blockcache[w].code,
                                  sure |-> o.blockcache[w].sure /\ dynarec.dirty]]
           set == Doubt(o, dynarec.dirty)
<1>1. /\ dynarec \in DynarecType /\ Copied(dynarec)
      /\ s \in Overlays /\ o \in OverlayType
      /\ dynarec.code_overlays \in [Overlays -> OverlayType]
  BY DEF Inv, Good, DynarecType
<1>2. \A w \in Words : /\ run[w] \in [code : Seq(Instructions), sure : BOOLEAN]
                       /\ run[w].code = o.blockcache[w].code
                       /\ run[w].sure => o.blockcache[w].sure /\ dynarec.dirty
  <2>1. o.blockcache \in [Words -> [code : Seq(Instructions), sure : BOOLEAN]]
        /\ dynarec.dirty \in BOOLEAN
    BY <1>1 DEF OverlayType, DynarecType
  <2>2. QED
    BY <2>1
<1>3. run \in [Words -> [code : Seq(Instructions), sure : BOOLEAN]]
  BY <1>2
<1>4. /\ dynarec' = [dynarec EXCEPT !.code_overlays[s] = set]
      /\ set = [o EXCEPT !.blockcache = run]
  <2>1. dynarec' = [dynarec EXCEPT !.code_overlays[s] = set]
    BY DEF ResetSystem
  <2>2. set = [o EXCEPT !.blockcache = run]
    BY DEF Doubt
  <2>3. QED
    BY <2>1, <2>2
<1> HIDE DEF run, set
<1>5. /\ set \in OverlayType /\ set.blockcache = run
      /\ set.code = o.code /\ set.has_code = o.has_code
  BY <1>1, <1>3, <1>4 DEF OverlayType
<1>6. /\ dynarec' \in DynarecType /\ dynarec'.selected = s /\ dynarec'.dirty = dynarec.dirty
      /\ dynarec'.code_overlays = [dynarec.code_overlays EXCEPT ![s] = set]
  BY <1>1, <1>4, <1>5 DEF DynarecType
<1>7. \A i \in Overlays : dynarec'.code_overlays[i] = IF i = s THEN set ELSE dynarec.code_overlays[i]
  BY <1>1, <1>6
<1>8. OverlayIsCopied(set)
  <2>1. \A w \in Words : o.blockcache[w].sure => o.has_code /\ Agrees(o.blockcache[w], w, o.code)
    BY <1>1 DEF Copied, OverlayIsCopied
  <2>2. QED
    BY <1>2, <1>5, <2>1 DEF OverlayIsCopied, Agrees
<1>9. Copied(dynarec')
  BY <1>1, <1>7, <1>8 DEF Copied
<1>10. ~dynarec'.dirty => \A w \in Words : ~Block(dynarec', w).sure
  BY <1>1, <1>2, <1>5, <1>6, <1>7 DEF Block
<1>11. QED
  BY <1>6, <1>9, <1>10 DEF Good, Current, Copied, OverlayIsCopied, Agrees, Block

LEMMA InitInv == Init => Inv
<1> SUFFICES ASSUME Init PROVE Inv
  OBVIOUS
<1>1. /\ 0 \in Overlays /\ 0 \in 0..NumOverlays /\ 0 \in 0..(CodecacheSize - 1)
  BY RspOverlaysAssumption DEF Overlays
<1>2. dynarec \in DynarecType
  BY <1>1, EmptyOverlayTyped DEF Init, DynarecType
<1>3. /\ imem \in [Words -> Instructions] /\ icache \in [Words -> Instructions]
      /\ halt \in BOOLEAN
  BY DEF Init, Instructions
<1>4. \A i \in Overlays : dynarec.code_overlays[i] = EmptyOverlay
  BY DEF Init
<1>5. Copied(dynarec)
  BY <1>4, EmptyOverlayTyped DEF Copied
<1>6. Current(dynarec)
  <2>1. \A w \in Words : Block(dynarec, w) = Missing
    BY <1>2, <1>4 DEF Block, EmptyOverlay, DynarecType
  <2>2. QED
    BY <2>1 DEF Current, Missing
<1>7. QED
  BY <1>2, <1>3, <1>5, <1>6 DEF Inv, Good, TypeOK

LEMMA NextInv == Inv /\ [Next]_vars => Inv'
<1> SUFFICES ASSUME Inv, [Next]_vars PROVE Inv'
  OBVIOUS
<1>1. TypeOK /\ Good(dynarec)
  BY DEF Inv
<1>2. ASSUME NEW w \in Words, NEW i \in Instructions, StoreImem(w, i)
      PROVE  Inv'
  <2> DEFINE new == [x \in {w} |-> i]
  <2>1. Write(dynarec, new) /\ halt' = halt
    BY <1>2 DEF StoreImem
  <2>2. DOMAIN new \subseteq Words /\ \A x \in DOMAIN new : new[x] \in Instructions
    OBVIOUS
  <2> HIDE DEF new
  <2>3. QED
    BY <1>1, <2>1, <2>2, WriteGood DEF Inv, TypeOK, Good
<1>3. ASSUME NEW target \in DmaTargets, NEW image \in Images, CpuDmaRead(target, image)
      PROVE  Inv'
  BY <1>1, <1>3, DmaReadGood DEF CpuDmaRead, Inv, TypeOK, Good
<1>4. ASSUME NEW set_halt \in BOOLEAN, StatusWrite(set_halt)
      PROVE  Inv'
  BY <1>1, <1>4 DEF StatusWrite, Inv, TypeOK, Good, Current, Copied, OverlayIsCopied, Agrees, Block
<1>5. CASE ResetSystem
  <2>1. /\ imem' \in [Words -> Instructions] /\ icache' \in [Words -> Instructions]
        /\ halt' \in BOOLEAN
    BY <1>5 DEF ResetSystem, Instructions
  <2>2. QED
    BY <1>5, <2>1, ResetSystemGood DEF Inv, TypeOK, Good
<1>6. ASSUME NEW w \in Words, DynarecStep(w)
      PROVE  Inv'
  <2>1. PICK d \in Prepared(w) :
          LET code == Block(d, w).code
          IN  /\ halt' \in Halts(code)
              /\ \/ dynarec' = d /\ UNCHANGED <<imem, icache>>
                 \/ /\ "mtc0" \in Executed(code)
                    /\ \E target \in DmaTargets, image \in Images : DmaRead(d, target, image)
    BY <1>6 DEF DynarecStep
  <2>2. Good(d) /\ halt' \in BOOLEAN
    BY <1>1, <2>1, PreparedGood DEF TypeOK, Halts
  <2>3. CASE dynarec' = d /\ UNCHANGED <<imem, icache>>
    BY <1>1, <2>2, <2>3 DEF Inv, TypeOK, Good, Current, Copied, OverlayIsCopied, Agrees, Block
  <2>4. CASE \E target \in DmaTargets, image \in Images : DmaRead(d, target, image)
    BY <1>1, <2>2, <2>4, DmaReadGood DEF Inv, TypeOK, Good
  <2>5. QED
    BY <2>1, <2>3, <2>4
<1>7. CASE UNCHANGED vars
  BY <1>1, <1>7 DEF vars, Inv, TypeOK, Good, Current, Copied, OverlayIsCopied, Agrees, Block
<1>8. QED
  BY <1>2, <1>3, <1>4, <1>5, <1>6, <1>7 DEF Next

(***************************************************************************)
(* The theorems.                                                           *)
(***************************************************************************)

\* The types of RspOverlays, and that the code cache is never filled past its end.
THEOREM TypesAreRight == Spec => []TypeOK
<1>1. Inv => TypeOK
  BY DEF Inv
<1>2. QED
  BY InitInv, NextInv, <1>1, PTL DEF Spec

\* Whatever was written to IMEM by whom, and however the overlays were used up, a
\* block that is run was compiled from what IMEM holds, but for the exceptions that
\* CodeIsCurrent names.
THEOREM RspCodeIsCurrent == Spec => []CodeIsCurrent
<1>1. Inv => CodeIsCurrent
  BY SelectOverlayGood DEF Inv, Good, CodeIsCurrent
<1>2. QED
  BY InitInv, NextInv, <1>1, PTL DEF Spec

\* The interpreter's copy of IMEM is never behind: everything that writes to IMEM
\* replaces it.
THEOREM RspIcacheIsCurrent == Spec => []IcacheIsCurrent
<1>1. Init => IcacheIsCurrent
  BY DEF Init, IcacheIsCurrent
<1>2. ASSUME IcacheIsCurrent, NEW d, NEW new, Write(d, new)
      PROVE  IcacheIsCurrent'
  BY <1>2 DEF IcacheIsCurrent, Write, ReplacesCopy
<1>3. IcacheIsCurrent /\ [Next]_vars => IcacheIsCurrent'
  BY <1>2 DEF Next, StoreImem, CpuDmaRead, StatusWrite, ResetSystem, DynarecStep, DmaRead,
             vars, IcacheIsCurrent
<1>4. QED
  BY <1>1, <1>3, PTL DEF Spec

(***************************************************************************)
(* What a step may do to the code there is.                                *)
(***************************************************************************)
CodeAt(d, i, w) == d.code_overlays[i].blockcache[w].code

Full(i) ==
  \/ i >= dynarec.allocated
  \/ \E x \in Words : \E n \in Length(x) : dynarec.used + n >= CodecacheSize
  \/ \A j \in Overlays : dynarec.code_overlays[j].has_code

LosesOnlyWhenFull(d) ==
  \A i \in Overlays, w \in Words : CodeAt(dynarec, i, w) # <<>> /\ CodeAt(d, i, w) = <<>> => Full(i)

LEMMA SameCodeLosesNothing ==
  ASSUME NEW d, d.code_overlays = dynarec.code_overlays
  PROVE  LosesOnlyWhenFull(d)
  BY DEF LosesOnlyWhenFull, CodeAt

\* Giving up one overlay.
LEMMA ResetLoses ==
  ASSUME dynarec \in DynarecType, NEW i \in Overlays, Full(i), NEW d,
         d.code_overlays = [dynarec.code_overlays EXCEPT ![i] = EmptyOverlay]
  PROVE  LosesOnlyWhenFull(d)
<1>1. \A j \in Overlays : j # i => d.code_overlays[j] = dynarec.code_overlays[j]
  BY DEF DynarecType
<1>2. QED
  BY <1>1 DEF LosesOnlyWhenFull, CodeAt

\* Looking for an overlay gives up one when all hold code, or one that is not
\* allocated yet.
LEMMA SelectingLoses ==
  ASSUME dynarec \in DynarecType, NEW d \in SelectOverlay(dynarec)
  PROVE  d.used = dynarec.used /\ LosesOnlyWhenFull(d)
<1> DEFINE a        == dynarec.allocated
           o        == dynarec.code_overlays
           matching == {i \in 0..(a - 1) : Matches(dynarec, i)}
           empty    == {i \in 0..(a - 1) : ~o[i].has_code}
           next     == [dynarec EXCEPT !.allocated = @ + 1]
<1>1. a \in 0..NumOverlays /\ o \in [Overlays -> OverlayType]
  BY DEF DynarecType
<1>2. ASSUME NEW i, d = Select(dynarec, i)
      PROVE  d.code_overlays = o /\ d.used = dynarec.used
  BY <1>2 DEF Select, DynarecType
<1>3. CASE d = dynarec
  BY <1>3, SameCodeLosesNothing
<1>4. CASE \E i \in Smallest(matching) \cup Smallest(empty) : d = Select(dynarec, i)
  BY <1>2, <1>4, SameCodeLosesNothing
<1>5. CASE a < NumOverlays /\ d = Select(Reset(next, a), a)
  <2>1. a \in Overlays /\ Full(a)
    BY <1>1, <1>5, RspOverlaysAssumption DEF Overlays, Full
  <2>2. next.code_overlays = o /\ next.used = dynarec.used
        /\ next = [dynarec EXCEPT !.allocated = next.allocated]
    BY DEF DynarecType
  <2>3. /\ d.code_overlays = [o EXCEPT ![a] = EmptyOverlay]
        /\ d.used = dynarec.used
    BY <1>5 DEF Select, Reset, DynarecType
  <2>4. QED
    BY <2>1, <2>3, ResetLoses
<1>6. CASE empty = {} /\ ~(a < NumOverlays) /\ \E i \in Overlays : d = Select(Reset(dynarec, i), i)
  <2>1. PICK i \in Overlays : d = Select(Reset(dynarec, i), i)
    BY <1>6
  <2>2. \A j \in Overlays : o[j].has_code
    <3>1. Overlays = 0..(a - 1)
      BY <1>1, <1>6, RspOverlaysAssumption DEF Overlays
    <3>2. QED
      BY <1>6, <3>1
  <2>3. Full(i)
    BY <2>2 DEF Full
  <2>4. d.code_overlays = [o EXCEPT ![i] = EmptyOverlay] /\ d.used = dynarec.used
    BY <2>1 DEF Select, Reset, DynarecType
  <2>5. QED
    BY <2>3, <2>4, ResetLoses
<1>7. QED
  BY <1>3, <1>4, <1>5, <1>6 DEF SelectOverlay

\* Compiling gives up something when the code does not fit.
LEMMA CompilingLoses ==
  ASSUME imem \in [Words -> Instructions], NEW d \in DynarecType,
         NEW w \in Words, NEW n \in Length(w), d.used + n < CodecacheSize,
         NEW i \in Overlays, NEW x \in Words
  PROVE  CodeAt(CompileBlock(d, w, n), i, x) \in {CodeAt(d, i, x), BlockCode(w, n)}
<1> DEFINE s      == d.selected
           o      == d.code_overlays
           code   == BlockCode(w, n)
           block  == [code |-> code, sure |-> TRUE]
           copy   == CopyWords(o[s], Covers(w, code))
           copied == [d EXCEPT !.code_overlays[s] = copy]
           set    == SetBlock(copy, w, block)
           e      == [copied EXCEPT !.used = @ + n, !.code_overlays[s] = SetBlock(@, w, block)]
<1>1. s \in Overlays /\ o \in [Overlays -> OverlayType] /\ o[s] \in OverlayType
  BY DEF DynarecType
<1>2. code \in Seq(Instructions)
  BY BlockCodeTyped
<1>3. CompileBlock(d, w, n) = e
  BY DEF CompileBlock
<1> HIDE DEF code
<1>4. copy \in OverlayType /\ copy.blockcache = o[s].blockcache
  BY <1>1, CopyWordsTyped
<1>5. block \in [code : Seq(Instructions), sure : BOOLEAN] /\ block.code = code
  BY <1>2
<1> HIDE DEF copy, block
<1>6. copied.code_overlays = [o EXCEPT ![s] = copy]
  BY DEF DynarecType
<1>7. set.blockcache = [o[s].blockcache EXCEPT ![w] = block]
  BY <1>4, <1>5, SetBlockTyped
<1> HIDE DEF set
<1>8. e.code_overlays = [o EXCEPT ![s] = set]
  <2>1. copied \in DynarecType /\ copied.code_overlays[s] = copy
    BY <1>1, <1>4, <1>6 DEF DynarecType
  <2> HIDE DEF copied
  <2>2. e.code_overlays = [copied.code_overlays EXCEPT ![s] = set]
    BY <2>1 DEF DynarecType, set
  <2>3. QED
    BY <1>1, <1>6, <2>2
<1> HIDE DEF e
<1>9. CASE i # s
  BY <1>1, <1>3, <1>8, <1>9 DEF CodeAt
<1>10. CASE i = s
  <2>1. e.code_overlays[i].blockcache[x] = (IF x = w THEN block ELSE o[s].blockcache[x])
    BY <1>1, <1>7, <1>8, <1>10 DEF OverlayType
  <2>2. QED
    BY <1>3, <1>5, <1>10, <2>1 DEF CodeAt, code
<1>11. QED
  BY <1>9, <1>10

LEMMA PreparingLoses ==
  ASSUME imem \in [Words -> Instructions], Good(dynarec),
         NEW w \in Words, NEW d \in Prepared(w)
  PROVE  LosesOnlyWhenFull(d)
<1>1. dynarec \in DynarecType
  BY DEF Good
<1>2. CASE d \in SelectOverlay(dynarec)
  BY <1>1, <1>2, SelectingLoses
<1>3. CASE \E e \in SelectOverlay(dynarec), n \in Length(w) : d = CompileBlock(e, w, n)
  <2>1. PICK e \in SelectOverlay(dynarec), n \in Length(w) : d = CompileBlock(e, w, n)
    BY <1>3
  <2>2. e \in DynarecType /\ e.used = dynarec.used /\ LosesOnlyWhenFull(e)
    BY <1>1, SelectOverlayGood, SelectingLoses DEF Good
  <2>3. BlockCode(w, n) # <<>>
    <3>1. n \in 1..(ImemWords + 1) /\ DOMAIN BlockCode(w, n) = 1..n
      BY BlockCodeTyped
    <3>2. 1 \in DOMAIN BlockCode(w, n) /\ DOMAIN <<>> = {}
      BY <3>1, RspOverlaysAssumption
    <3>3. QED
      BY <3>2
  <2> SUFFICES ASSUME NEW i \in Overlays, NEW x \in Words,
                      CodeAt(dynarec, i, x) # <<>>, CodeAt(d, i, x) = <<>>
               PROVE  Full(i)
    BY DEF LosesOnlyWhenFull
  <2>4. CASE dynarec.used + n < CodecacheSize
    <3>1. CodeAt(d, i, x) \in {CodeAt(e, i, x), BlockCode(w, n)}
      BY <2>1, <2>2, <2>4, CompilingLoses
    <3>2. CodeAt(e, i, x) = <<>>
      BY <2>3, <3>1
    <3>3. QED
      BY <2>2, <3>2 DEF LosesOnlyWhenFull
  <2>5. CASE ~(dynarec.used + n < CodecacheSize)
    <3>1. dynarec.used + n >= CodecacheSize
      <4>1. dynarec.used \in Nat /\ n \in Nat /\ CodecacheSize \in Nat
        BY <1>1, BlockCodeTyped, RspOverlaysAssumption DEF DynarecType
      <4>2. QED
        BY <2>5, <4>1
    <3>2. QED
      BY <3>1 DEF Full
  <2>6. QED
    BY <2>4, <2>5
<1>4. QED
  BY <1>2, <1>3 DEF Prepared

\* A write changes no code, only what is known of it.
LEMMA WritingLosesNothing ==
  ASSUME NEW d \in DynarecType, NEW new, Write(d, new)
  PROVE  dynarec'.code_overlays = d.code_overlays
  BY DEF Write, Invalidate, DynarecType

LEMMA NextLosesOnlyWhenFull == Inv /\ [Next]_vars => LosesOnlyWhenFull(dynarec')
<1> SUFFICES ASSUME Inv, [Next]_vars PROVE LosesOnlyWhenFull(dynarec')
  OBVIOUS
<1>1. Good(dynarec) /\ dynarec \in DynarecType /\ imem \in [Words -> Instructions]
  BY DEF Inv, Good, TypeOK
<1>2. ASSUME NEW w \in Words, NEW i \in Instructions, StoreImem(w, i)
      PROVE  dynarec'.code_overlays = dynarec.code_overlays
  BY <1>1, <1>2, WritingLosesNothing DEF StoreImem
<1>3. ASSUME NEW target \in DmaTargets, NEW image \in Images, CpuDmaRead(target, image)
      PROVE  dynarec'.code_overlays = dynarec.code_overlays
  BY <1>1, <1>3, WritingLosesNothing DEF CpuDmaRead, DmaRead
<1>4. CASE ResetSystem
  <2> DEFINE s   == dynarec.selected
             o   == dynarec.code_overlays
             set == Doubt(o[s], dynarec.dirty)
  <2>1. s \in Overlays /\ o \in [Overlays -> OverlayType] /\ o[s] \in OverlayType
    BY <1>1 DEF DynarecType
  <2>2. \A w \in Words : set.blockcache[w].code = o[s].blockcache[w].code
    BY <2>1 DEF Doubt, OverlayType
  <2> HIDE DEF set
  <2>3. dynarec'.code_overlays = [o EXCEPT ![s] = set]
    BY <1>1, <1>4 DEF ResetSystem, DynarecType, set
  <2>4. \A i \in Overlays, w \in Words : CodeAt(dynarec', i, w) = CodeAt(dynarec, i, w)
    BY <2>1, <2>2, <2>3 DEF CodeAt
  <2>5. QED
    BY <2>4 DEF LosesOnlyWhenFull
<1>5. ASSUME NEW w \in Words, DynarecStep(w)
      PROVE  LosesOnlyWhenFull(dynarec')
  <2>1. PICK d \in Prepared(w) :
          \/ dynarec' = d
          \/ \E target \in DmaTargets, image \in Images : DmaRead(d, target, image)
    BY <1>5 DEF DynarecStep
  <2>2. d \in DynarecType /\ LosesOnlyWhenFull(d)
    BY <1>1, PreparedGood, PreparingLoses DEF Good
  <2>3. dynarec'.code_overlays = d.code_overlays
    BY <2>1, <2>2, WritingLosesNothing DEF DmaRead
  <2>4. QED
    BY <2>2, <2>3 DEF LosesOnlyWhenFull, CodeAt
<1>6. CASE dynarec' = dynarec
  BY <1>6, SameCodeLosesNothing
<1>7. QED
  BY <1>2, <1>3, <1>4, <1>5, <1>6, SameCodeLosesNothing DEF Next, StatusWrite, vars

\* Compiled code is given up only when the code cache or the overlays are full: no
\* write to IMEM, transfer or reset loses a block, and no search for an overlay
\* takes one that holds code while there is another.
THEOREM RspCodeIsKept == Spec => CodeIsOnlyLostWhenFull
<1> DEFINE Kept ==
      \A i \in Overlays, w \in Words :
        /\ dynarec.code_overlays[i].blockcache[w].code # <<>>
        /\ dynarec'.code_overlays[i].blockcache[w].code = <<>>
        => \/ i >= dynarec.allocated
           \/ \E x \in Words : \E n \in Length(x) : dynarec.used + n >= CodecacheSize
           \/ \A j \in Overlays : dynarec.code_overlays[j].has_code
<1>1. LosesOnlyWhenFull(dynarec') => Kept
  BY DEF LosesOnlyWhenFull, CodeAt, Full
<1>2. Inv /\ [Next]_vars => [Kept]_vars
  BY <1>1, NextLosesOnlyWhenFull
<1>3. QED
  BY InitInv, NextInv, <1>2, PTL DEF Spec, CodeIsOnlyLostWhenFull
=============================================================================
