------------------------------ MODULE AudioProofs ------------------------------
(***************************************************************************)
(* Theorems about the two halves of the audio output.  AudioFifo: the ring *)
(* buffer is free of data races and a queue, for every size, chunk and     *)
(* request and every interleaving of the two threads.  AudioInterface: the *)
(* device plays what the program asked for, for every size of the memory   *)
(* and of its pages and every order of writes and samples.                 *)
(***************************************************************************)
EXTENDS AudioFifo, AudioInterface, SequenceTheorems, TLAPS

(***************************************************************************)
(* Arithmetic of the ring.                                                 *)
(***************************************************************************)

LEMMA ModSmall == ASSUME NEW n \in Nat \ {0}, NEW x \in 0..n-1 PROVE x % n = x
  BY SMTT(30)

LEMMA ModAbove ==
  ASSUME NEW n \in Nat \ {0}, NEW x \in n..2*n-1 PROVE x % n = x - n
  BY SMTT(30)

LEMMA ModBelow ==
  ASSUME NEW n \in Nat \ {0}, NEW x \in (-n+1)..-1 PROVE x % n = x + n
  BY SMTT(30)

\* How far t is ahead of h.
Ahead(t, h) == IF t >= h THEN t - h ELSE t - h + Size

LEMMA AheadIsMod ==
  ASSUME NEW t \in Indices, NEW h \in Indices
  PROVE  (t - h) % Size = Ahead(t, h)
<1>1. CASE t >= h
  <2>1. t - h \in 0..Size-1
    BY <1>1, FifoAssumption DEF Indices
  <2> QED
    BY <1>1, <2>1, ModSmall, FifoAssumption DEF Ahead
<1>2. CASE ~(t >= h)
  <2>1. t - h \in (-Size+1)..-1
    BY <1>2, FifoAssumption DEF Indices
  <2> QED
    BY <1>2, <2>1, ModBelow, FifoAssumption DEF Ahead
<1> QED
  BY <1>1, <1>2

\* Where an index is after it was moved on by less than the size.
LEMMA MovedOn ==
  ASSUME NEW t \in Indices, NEW n \in Nat, n < Size
  PROVE  (t + n) % Size = (IF t + n < Size THEN t + n ELSE (t + n) - Size)
<1>1. CASE t + n < Size
  <2>1. t + n \in 0..Size-1
    BY <1>1, FifoAssumption DEF Indices
  <2> QED
    BY <1>1, <2>1, ModSmall, FifoAssumption
<1>2. CASE ~(t + n < Size)
  <2>1. t + n \in Size..2*Size-1
    BY <1>2, FifoAssumption DEF Indices
  <2> QED
    BY <1>2, <2>1, ModAbove, FifoAssumption
<1> QED
  BY <1>1, <1>2

(***************************************************************************)
(* The inductive invariant: types, and what each thread was promised when  *)
(* it looked at the other's index.                                         *)
(***************************************************************************)

Ring ==
  /\ data \in [Indices -> Items]
  /\ head \in Indices
  /\ tail \in Indices

Writer ==
  /\ writer \in {"idle", "check", "copy"}
  /\ remaining \in 0..MaxOutput
  /\ chunk \in Seq(Items)
  /\ Len(chunk) <= ChunkSize
  /\ Len(chunk) <= remaining
  /\ copied \in 0..Len(chunk)
  /\ writer # "copy" => chunk = <<>>

Reader ==
  /\ reader \in {"idle", "copy"}
  /\ to_read \in 0..Request
  /\ stream \in Seq(Items)
  /\ Len(stream) <= to_read

\* PromisesKept without the remainder.
Promises ==
  /\ reader = "copy" => to_read <= Ahead(tail, head)
  /\ writer = "copy" => Len(chunk) <= Size - 1 - Ahead(tail, head)

IInv == Ring /\ Writer /\ Reader /\ Promises

LEMMA Available ==
  ASSUME Ring
  PROVE  /\ ReadAvailable = Ahead(tail, head)
         /\ ReadAvailable \in 0..Size - 1
         /\ WriteRemaining = Size - 1 - Ahead(tail, head)
<1>1. ReadAvailable = Ahead(tail, head)
  BY AheadIsMod DEF Ring, ReadAvailable
<1>2. Ahead(tail, head) \in 0..Size - 1
  BY FifoAssumption DEF Ring, Indices, Ahead
<1> QED
  BY <1>1, <1>2 DEF WriteRemaining

LEMMA InitIInv == Init => IInv
<1> SUFFICES ASSUME Init PROVE IInv
  OBVIOUS
<1>1. Ring
  <2> DEFINE x0 == CHOOSE x \in Items : TRUE
  <2>1. x0 \in Items
    BY FifoAssumption
  <2> HIDE DEF x0
  <2>2. data = [i \in Indices |-> x0]
    BY DEF Init, x0
  <2>3. 0 \in Indices
    BY FifoAssumption DEF Indices
  <2> QED
    BY <2>1, <2>2, <2>3 DEF Init, Ring
<1>2. <<>> \in Seq(Items) /\ Len(<<>>) = 0
  BY EmptySeq
<1>3. Writer
  BY <1>2, FifoAssumption DEF Init, Writer
<1>4. Reader
  BY <1>2, FifoAssumption DEF Init, Reader
<1> QED
  BY <1>1, <1>3, <1>4 DEF Init, IInv, Promises

LEMMA Slots ==
  ASSUME NEW i \in Indices, NEW k \in Nat, k < Size
  PROVE  Slot(i, k) \in Indices
  BY FifoAssumption DEF Indices, Slot

(***************************************************************************)
(* The emulator's steps.                                                   *)
(***************************************************************************)

LEMMA EmulatorIInv == IInv /\ Emulator => IInv'
<1> SUFFICES ASSUME IInv, Emulator PROVE IInv'
  OBVIOUS
<1> USE DEF IInv
<1>0. <<>> \in Seq(Items) /\ Len(<<>>) = 0
  BY EmptySeq
<1>a. Len(chunk) \in Nat
  BY LenProperties DEF Writer
<1>1. CASE Flush
  <2>1. Writer'
    <3>1. remaining' \in 0..MaxOutput
      BY <1>1, FifoAssumption DEF Flush
    <3>2. UNCHANGED <<chunk, copied>> /\ chunk = <<>>
      BY <1>1 DEF Flush, Writer
    <3> QED
      BY <1>0, <1>1, <3>1, <3>2, FifoAssumption DEF Flush, Writer
  <2>2. UNCHANGED <<data, head, tail, reader, to_read, stream>> /\ writer' = "check"
    BY <1>1 DEF Flush, device
  <2> QED
    BY <2>1, <2>2 DEF Ring, Reader, Promises
<1>2. CASE Check
  <2>1. PICK c \in [1..NextChunk -> Items] : chunk' = c
    BY <1>2 DEF Check
  <2>2. /\ NextChunk \in Nat /\ NextChunk <= ChunkSize /\ NextChunk <= remaining
    BY FifoAssumption DEF NextChunk, Min2, Writer
  <2>3. c \in Seq(Items) /\ Len(c) = NextChunk
    <3>1. c \in Seq(Items)
      BY <2>2, SeqDef
    <3>2. DOMAIN c = 1..NextChunk /\ DOMAIN c = 1..Len(c) /\ Len(c) \in Nat
      BY <3>1, LenProperties
    <3> QED
      BY <2>2, <3>2
  <2>4. UNCHANGED <<data, head, tail, remaining, copied, reader, to_read, stream>>
        /\ writer' = "copy" /\ writer = "check"
    BY <1>2 DEF Check, device
  <2>5. NextChunk <= Size - 1 - Ahead(tail, head)
    BY <1>2, Available DEF Check
  <2>6. copied = 0
    BY <1>0, <2>4 DEF Writer
  <2>7. Writer'
    BY <2>1, <2>2, <2>3, <2>4, <2>6 DEF Writer
  <2> QED
    BY <2>1, <2>3, <2>4, <2>5, <2>7 DEF Ring, Reader, Promises
<1>3. CASE Drop
  <2>1. /\ NextChunk \in Nat /\ NextChunk <= remaining
    BY FifoAssumption DEF NextChunk, Min2, Writer
  <2>2. remaining' \in 0..MaxOutput
    BY <1>3, <2>1, FifoAssumption DEF Drop, Advance, Writer
  <2>3. /\ writer' \in {"check", "idle"} /\ chunk' = <<>> /\ copied' = 0
    BY <1>3 DEF Drop, Advance
  <2>4. Writer'
    BY <1>0, <2>2, <2>3, FifoAssumption DEF Writer
  <2>5. UNCHANGED <<data, head, tail, reader, to_read, stream>>
    BY <1>3 DEF Drop, device
  <2> QED
    BY <2>3, <2>4, <2>5 DEF Ring, Reader, Promises
<1>4. CASE Copy
  <2>1. Ring'
    <3>1. chunk[copied + 1] \in Items
      <4>1. copied + 1 \in 1..Len(chunk)
        BY <1>4, <1>a DEF Copy, Writer
      <4> QED
        BY <4>1, ElementOfSeq DEF Writer
    <3> QED
      BY <1>4, <3>1 DEF Copy, Ring
  <2>2. copied' \in 0..Len(chunk)
    BY <1>4, <1>a DEF Copy, Writer
  <2>3. UNCHANGED <<head, tail, writer, remaining, chunk, reader, to_read, stream>>
    BY <1>4 DEF Copy, device
  <2> QED
    BY <1>4, <2>1, <2>2, <2>3 DEF Copy, Writer, Reader, Promises
<1>5. CASE Publish
  <2>1. Len(chunk) <= Size - 1 - Ahead(tail, head) /\ Ahead(tail, head) \in 0..Size-1
    BY <1>5, Available DEF Publish, Promises
  <2>2. tail' = (IF tail + Len(chunk) < Size THEN tail + Len(chunk)
                                             ELSE (tail + Len(chunk)) - Size)
    BY <1>5, <1>a, <2>1, MovedOn, FifoAssumption DEF Publish, Ring
  <2>3. tail' \in Indices /\ Ahead(tail', head) = Ahead(tail, head) + Len(chunk)
    BY <1>a, <2>1, <2>2, FifoAssumption DEF Ring, Indices, Ahead
  <2>4. remaining' \in 0..MaxOutput
    BY <1>5, <1>a, FifoAssumption DEF Publish, Advance, Writer
  <2>5. /\ writer' \in {"check", "idle"} /\ chunk' = <<>> /\ copied' = 0
    BY <1>5 DEF Publish, Advance
  <2>6. Writer'
    BY <1>0, <2>4, <2>5, FifoAssumption DEF Writer
  <2>7. UNCHANGED <<data, head, reader, to_read, stream>>
    BY <1>5 DEF Publish, device
  <2>8. Ring' /\ Reader'
    BY <2>3, <2>7 DEF Ring, Reader
  <2>9. Promises'
    BY <1>a, <2>1, <2>3, <2>5, <2>7, FifoAssumption DEF Promises, Reader
  <2> QED
    BY <2>6, <2>8, <2>9
<1>6. CASE ToggleUnlocked
  BY <1>6 DEF ToggleUnlocked, emulator, device, Ring, Writer, Reader, Promises
<1> QED
  BY <1>1, <1>2, <1>3, <1>4, <1>5, <1>6 DEF Emulator

(***************************************************************************)
(* The audio thread's steps.                                               *)
(***************************************************************************)

LEMMA DeviceIInv == IInv /\ Device => IInv'
<1> SUFFICES ASSUME IInv, Device PROVE IInv'
  OBVIOUS
<1> USE DEF IInv
<1>0. <<>> \in Seq(Items) /\ Len(<<>>) = 0
  BY EmptySeq
<1>a. Len(stream) \in Nat
  BY LenProperties DEF Reader
<1>1. CASE Callback
  <2>1. UNCHANGED <<data, head, tail, writer, remaining, chunk, copied>>
        /\ reader' = "copy" /\ stream' = <<>>
    BY <1>1 DEF Callback, emulator
  <2>2. to_read' \in 0..Request /\ to_read' <= Ahead(tail, head)
    BY <1>1, Available, FifoAssumption DEF Callback, Min2
  <2>3. Reader'
    BY <1>0, <2>1, <2>2 DEF Reader
  <2> QED
    BY <2>1, <2>2, <2>3 DEF Ring, Writer, Promises
<1>2. CASE Read
  <2>1. UNCHANGED <<data, head, tail, writer, remaining, chunk, copied, reader, to_read>>
    BY <1>2 DEF Read, emulator
  <2>2. Ahead(tail, head) \in 0..Size - 1 /\ to_read <= Ahead(tail, head)
    BY <1>2, Available DEF Read, Promises
  <2>3. Slot(head, Len(stream)) \in Indices
    BY <1>2, <1>a, <2>2, Slots, FifoAssumption DEF Read, Reader, Ring
  <2>4. data[Slot(head, Len(stream))] \in Items
    BY <2>3 DEF Ring
  <2>5. stream' \in Seq(Items) /\ Len(stream') = Len(stream) + 1
    BY <1>2, <2>4, AppendProperties DEF Read, Reader
  <2>6. Len(stream') <= to_read'
    BY <1>2, <1>a, <2>1, <2>5 DEF Read, Reader
  <2>7. Reader'
    BY <2>1, <2>5, <2>6 DEF Reader
  <2> QED
    BY <2>1, <2>7 DEF Ring, Writer, Promises
<1>3. CASE Release
  <2>1. to_read <= Ahead(tail, head) /\ Ahead(tail, head) \in 0..Size-1
    BY <1>3, Available DEF Release, Promises
  <2>2. to_read \in Nat /\ to_read < Size
    BY <2>1, FifoAssumption DEF Reader
  <2>3. head' = (IF head + to_read < Size THEN head + to_read
                                          ELSE (head + to_read) - Size)
    BY <1>3, <2>2, MovedOn DEF Release, Ring
  <2>4. head' \in Indices /\ Ahead(tail, head') = Ahead(tail, head) - to_read
    BY <2>1, <2>2, <2>3, FifoAssumption DEF Ring, Indices, Ahead
  <2>5. UNCHANGED <<data, tail, writer, remaining, chunk, copied, to_read, stream>>
        /\ reader' = "idle"
    BY <1>3 DEF Release, emulator
  <2>6. Ring' /\ Reader' /\ Writer'
    BY <2>4, <2>5 DEF Ring, Reader, Writer
  <2>7. Len(chunk) \in Nat
    BY LenProperties DEF Writer
  <2>8. Promises'
    BY <2>1, <2>2, <2>4, <2>5, <2>7, FifoAssumption DEF Promises
  <2> QED
    BY <2>6, <2>8
<1> QED
  BY <1>1, <1>2, <1>3 DEF Device

LEMMA Inductive == Spec => []IInv
<1>1. IInv /\ UNCHANGED vars => IInv'
  BY DEF IInv, Ring, Writer, Reader, Promises, vars, emulator, device
<1>2. IInv /\ [Next]_vars => IInv'
  BY <1>1, EmulatorIInv, DeviceIInv DEF Next
<1> QED
  BY <1>2, InitIInv, PTL DEF Spec

LEMMA UnlockedTyped == Spec => [](unlocked \in BOOLEAN)
<1>1. Init => unlocked \in BOOLEAN
  BY DEF Init
<1>2. unlocked \in BOOLEAN /\ [Next]_vars => (unlocked \in BOOLEAN)'
  BY DEF Next, Emulator, Device, ToggleUnlocked, Flush, Check, Drop, Copy, Publish,
         Callback, Read, Release, vars
<1> QED
  BY <1>1, <1>2, PTL DEF Spec

(***************************************************************************)
(* The theorems.                                                           *)
(***************************************************************************)

\* Types and sizes: the indices stay inside the buffer, a chunk or a callback
\* never moves more than it may (fifo.h:15-43).
THEOREM TypeCorrect == Spec => []TypeOK
<1>1. IInv /\ unlocked \in BOOLEAN => TypeOK
  <2> SUFFICES ASSUME IInv, unlocked \in BOOLEAN PROVE TypeOK
    OBVIOUS
  <2>1. Len(chunk) \in Nat /\ Len(stream) \in Nat
    BY LenProperties DEF IInv, Writer, Reader
  <2> QED
    BY <2>1, FifoAssumption DEF IInv, Ring, Writer, Reader, TypeOK
<1> QED
  BY <1>1, Inductive, UnlockedTyped, PTL

\* What a thread saw of the other's index stays true until it stores its own:
\* the emulator only ever adds to what can be read, the audio thread to what can
\* be written (audio.c:61-66, 131-143).
THEOREM LooksAreStable == Spec => []PromisesKept
<1>1. IInv => PromisesKept
  BY Available DEF IInv, Promises, PromisesKept
<1> QED
  BY <1>1, Inductive, PTL

\* The two memcpys of fifo_write and fifo_read never touch the same item.
THEOREM NoDataRace == Spec => []RaceFree
<1>1. IInv => RaceFree
  <2> SUFFICES ASSUME IInv, writer = "copy", reader = "copy",
                      NEW i \in copied..Len(chunk) - 1,
                      NEW j \in Len(stream)..to_read - 1
               PROVE  Slot(tail, i) # Slot(head, j)
    BY DEF RaceFree
  <2>1. Len(chunk) \in Nat /\ Len(stream) \in Nat
    BY LenProperties DEF IInv, Writer, Reader
  <2>2. i \in Nat /\ j \in Nat /\ i < Len(chunk) /\ j < to_read
    BY <2>1 DEF IInv, Writer, Reader
  <2>3. i < Size - 1 - Ahead(tail, head) /\ j < Ahead(tail, head)
    <3>1. Ahead(tail, head) \in Int
      BY Available DEF IInv
    <3>2. Len(chunk) <= Size - 1 - Ahead(tail, head) /\ to_read <= Ahead(tail, head)
      BY DEF IInv, Promises
    <3> QED
      BY <2>1, <2>2, <3>1, <3>2, FifoAssumption DEF IInv, Reader
  <2> QED
    BY <2>2, <2>3, FifoAssumption DEF IInv, Ring, Indices, Ahead, Slot
<1> QED
  BY <1>1, Inductive, PTL

(***************************************************************************)
(* The refinement of BoundedQueue.  It needs one more invariant: what the  *)
(* two threads have copied so far.                                         *)
(***************************************************************************)

\* The chunk is in the buffer up to the item copied last, behind the tail; what
\* the callback has copied are the oldest items.
Copies ==
  /\ writer = "copy" => \A i \in 0..copied - 1 : data[Slot(tail, i)] = chunk[i + 1]
  /\ reader = "copy" => \A j \in 1..Len(stream) : stream[j] = data[Slot(head, j - 1)]

LEMMA SlotsApart ==
  ASSUME NEW t \in Indices, NEW h \in Indices, NEW i \in Nat, NEW j \in Nat,
         i < Size - 1 - Ahead(t, h), j < Ahead(t, h)
  PROVE  Slot(t, i) # Slot(h, j)
  BY FifoAssumption DEF Indices, Ahead, Slot

LEMMA SlotInjective ==
  ASSUME NEW t \in Indices, NEW i \in Nat, NEW j \in Nat, i < Size, j < Size,
         Slot(t, i) = Slot(t, j)
  PROVE  i = j
  BY FifoAssumption DEF Indices, Slot

\* Where an index was moved on to, slots are counted from further on.
LEMMA SlotShifted ==
  ASSUME NEW t \in Indices, NEW n \in Nat, NEW i \in Nat, n + i < Size
  PROVE  Slot((t + n) % Size, i) = Slot(t, n + i)
<1>1. (t + n) % Size = (IF t + n < Size THEN t + n ELSE (t + n) - Size)
  BY MovedOn, FifoAssumption
<1> QED
  BY <1>1, FifoAssumption DEF Indices, Slot

\* A chunk is copied into the part of the buffer that is not read.
LEMMA CopyElsewhere ==
  ASSUME IInv, Copy, NEW j \in Nat, j < Ahead(tail, head)
  PROVE  data'[Slot(head, j)] = data[Slot(head, j)]
<1>1. copied \in Nat /\ copied < Size - 1 - Ahead(tail, head)
  <2>1. Len(chunk) \in Nat /\ Ahead(tail, head) \in Int
    BY Available, LenProperties DEF IInv, Writer
  <2> QED
    BY <2>1, FifoAssumption DEF IInv, Writer, Promises, Copy
<1>2. Slot(tail, copied) # Slot(head, j)
  BY <1>1, SlotsApart DEF IInv, Ring
<1>3. data' = [data EXCEPT ![Slot(tail, copied)] = chunk[copied + 1]]
  BY DEF Copy
<1>4. Slot(head, j) \in DOMAIN data
  BY Available, Slots, FifoAssumption DEF IInv, Ring
<1> QED
  BY <1>2, <1>3, <1>4

LEMMA InitCopies == Init => Copies
  BY DEF Init, Copies

LEMMA NextCopies == IInv /\ Copies /\ [Next]_vars => Copies'
<1> SUFFICES ASSUME IInv, Copies, [Next]_vars PROVE Copies'
  OBVIOUS
<1>0. Len(chunk) \in Nat /\ Len(stream) \in Nat /\ Ahead(tail, head) \in 0..Size - 1
  BY Available, LenProperties DEF IInv, Writer, Reader
<1>1. CASE Copy
  <2>1. /\ data' = [data EXCEPT ![Slot(tail, copied)] = chunk[copied + 1]]
        /\ copied' = copied + 1 /\ writer = "copy" /\ copied < Len(chunk)
        /\ UNCHANGED <<head, tail, writer, chunk, reader, to_read, stream>>
    BY <1>1 DEF Copy, device
  <2>2. /\ Len(chunk) <= Size - 1 - Ahead(tail, head)
        /\ copied \in Nat
    BY <1>0, <2>1 DEF IInv, Promises, Writer
  <2>3. ASSUME NEW i \in 0..copied PROVE data'[Slot(tail, i)] = chunk[i + 1]
    <3>1. Slot(tail, i) \in DOMAIN data /\ i < Size /\ copied < Size
      BY <1>0, <2>1, <2>2, Slots, FifoAssumption DEF IInv, Ring
    <3>2. CASE i = copied
      BY <2>1, <3>1, <3>2
    <3>3. CASE i # copied
      <4>1. Slot(tail, i) # Slot(tail, copied)
        BY <2>2, <3>1, <3>3, SlotInjective DEF IInv, Ring
      <4>2. data[Slot(tail, i)] = chunk[i + 1]
        BY <2>1, <2>2, <3>3 DEF Copies
      <4> QED
        BY <2>1, <3>1, <4>1, <4>2
    <3> QED
      BY <3>2, <3>3
  <2>4. ASSUME reader = "copy", NEW j \in 1..Len(stream)
        PROVE  stream[j] = data'[Slot(head, j - 1)]
    <3>1. j - 1 \in Nat /\ j - 1 < Ahead(tail, head)
      BY <1>0, <2>4, FifoAssumption DEF IInv, Reader, Promises
    <3> QED
      BY <1>1, <2>4, <3>1, CopyElsewhere DEF Copies
  <2>5. \A i \in 0..copied' - 1 : data'[Slot(tail, i)] = chunk[i + 1]
    BY <2>1, <2>2, <2>3
  <2> QED
    BY <2>1, <2>4, <2>5 DEF Copies, Slot
<1>2. CASE Read
  <2>1. /\ stream' = Append(stream, data[Slot(head, Len(stream))])
        /\ reader = "copy" /\ Len(stream) < to_read
        /\ UNCHANGED <<data, head, tail, writer, chunk, copied, reader>>
    BY <1>2 DEF Read, emulator
  <2>2. data[Slot(head, Len(stream))] \in Items
    BY <1>0, <2>1, Slots, FifoAssumption DEF IInv, Ring, Reader, Promises
  <2>3. /\ Len(stream') = Len(stream) + 1
        /\ \A j \in 1..Len(stream) : stream'[j] = stream[j]
        /\ stream'[Len(stream) + 1] = data[Slot(head, Len(stream))]
    BY <2>1, <2>2, AppendProperties DEF IInv, Reader
  <2>4. ASSUME NEW j \in 1..Len(stream) + 1
        PROVE  stream'[j] = data[Slot(head, j - 1)]
    <3>1. CASE j = Len(stream) + 1
      BY <1>0, <2>3, <3>1
    <3>2. CASE j # Len(stream) + 1
      BY <1>0, <2>1, <2>3, <3>2 DEF Copies
    <3> QED
      BY <3>1, <3>2
  <2> QED
    BY <2>1, <2>3, <2>4 DEF Copies, Slot
<1>3. CASE Check
  <2>1. copied' = 0
    BY <1>3, EmptySeq DEF Check, IInv, Writer
  <2> QED
    BY <1>3, <2>1 DEF Check, device, Copies, Slot
<1>4. CASE Callback
  <2>1. Len(stream') = 0
    BY <1>4, EmptySeq DEF Callback
  <2> QED
    BY <1>4, <2>1 DEF Callback, emulator, Copies, Slot
<1>5. CASE Flush \/ Drop \/ Publish \/ ToggleUnlocked
  <2>1. writer' # "copy" /\ UNCHANGED <<data, head, reader, stream>>
    BY <1>5 DEF Flush, Drop, Publish, ToggleUnlocked, Advance, emulator, device
  <2> QED
    BY <2>1 DEF Copies, Slot
<1>6. CASE Release
  <2>1. reader' # "copy" /\ UNCHANGED <<data, tail, writer, chunk, copied>>
    BY <1>6 DEF Release, emulator
  <2> QED
    BY <2>1 DEF Copies, Slot
<1>7. CASE UNCHANGED vars
  BY <1>7 DEF vars, emulator, device, Copies, Slot
<1> QED
  BY <1>1, <1>2, <1>3, <1>4, <1>5, <1>6, <1>7 DEF Next, Emulator, Device

\* The queue is what lies between the indices.
ContentsInOrder ==
  /\ Contents \in Seq(Items)
  /\ Len(Contents) = Ahead(tail, head)
  /\ \A i \in 1..Ahead(tail, head) : Contents[i] = data[Slot(head, i - 1)]

LEMMA ContentsAre == Ring => ContentsInOrder
<1> SUFFICES ASSUME Ring PROVE ContentsInOrder
  OBVIOUS
<1> DEFINE n == Ahead(tail, head)
<1>1. n \in Nat /\ n < Size /\ ReadAvailable = n
  BY Available, FifoAssumption
<1>2. Contents = [i \in 1..n |-> data[Slot(head, i - 1)]]
  BY <1>1 DEF Contents
<1>3. \A i \in 1..n : data[Slot(head, i - 1)] \in Items
  BY <1>1, Slots, FifoAssumption DEF Ring
<1> HIDE DEF n
<1>4. Contents \in [1..n -> Items]
  BY <1>2, <1>3
<1>5. Contents \in Seq(Items) /\ Len(Contents) = n
  BY <1>1, <1>4
<1>6. \A i \in 1..n : Contents[i] = data[Slot(head, i - 1)]
  BY <1>2
<1> QED
  BY <1>5, <1>6 DEF n, ContentsInOrder

LEMMA ContentsStayInOrder == Ring' => ContentsInOrder'
  BY ContentsAre, PTL

\* Publishing appends the chunk.
LEMMA PublishPuts ==
  ASSUME IInv, IInv', Copies, Publish
  PROVE  Queue!Put
<1> DEFINE n == Ahead(tail, head)
           m == Len(chunk)
<1>1. /\ chunk \in Seq(Items) /\ m \in Nat /\ n \in Nat /\ n + m <= Size - 1
      /\ writer = "copy" /\ copied = m
      /\ tail' = (tail + m) % Size
      /\ UNCHANGED <<data, head, taken>> /\ put' = chunk
  BY Available, LenProperties, FifoAssumption
    DEF Publish, IInv, Writer, Promises, device
<1>2. Ahead(tail', head') = n + m
  <2>1. tail \in Indices /\ head \in Indices /\ m \in Nat /\ m < Size
    BY <1>1, FifoAssumption DEF IInv, Ring
  <2>2. tail' = (IF tail + m < Size THEN tail + m ELSE (tail + m) - Size)
    <3> HIDE DEF m
    <3> QED
      BY <1>1, <2>1, MovedOn
  <2>3. n + m < Size /\ head' = head
    BY <1>1, FifoAssumption
  <2> HIDE DEF m
  <2> QED
    BY <2>1, <2>2, <2>3, FifoAssumption DEF n, Indices, Ahead
<1>3. /\ Contents \in Seq(Items) /\ Len(Contents) = n
      /\ \A i \in 1..n : Contents[i] = data[Slot(head, i - 1)]
  BY ContentsAre DEF IInv, ContentsInOrder
<1>4. /\ Contents' \in Seq(Items) /\ Len(Contents') = n + m
      /\ \A i \in 1..(n + m) : Contents'[i] = data[Slot(head, i - 1)]
  <2>1. /\ Contents' \in Seq(Items) /\ Len(Contents') = Ahead(tail', head')
        /\ \A i \in 1..Ahead(tail', head') : Contents'[i] = data'[Slot(head', i - 1)]
    BY ContentsStayInOrder DEF IInv, ContentsInOrder
  <2> QED
    BY <1>1, <1>2, <2>1
<1>5. \A i \in 1..m : data[Slot(tail, i - 1)] = chunk[i]
  <2> TAKE i \in 1..m
  <2>1. i - 1 \in 0..copied - 1 /\ (i - 1) + 1 = i
    BY <1>1
  <2> QED
    BY <1>1, <2>1 DEF Copies
<1>6. \A i \in 1..m : Slot(head, n + i - 1) = Slot(tail, i - 1)
  BY <1>1, FifoAssumption DEF IInv, Ring, Indices, Ahead, Slot
<1> HIDE DEF n, m
<1>7. Contents' = Contents \o chunk
  <2>1. /\ Contents \o chunk \in Seq(Items)
        /\ Len(Contents \o chunk) = n + m
        /\ \A i \in 1..(n + m) :
             (Contents \o chunk)[i] = IF i <= n THEN Contents[i] ELSE chunk[i - n]
    BY <1>1, <1>3, ConcatProperties DEF m
  <2>2. ASSUME NEW i \in 1..(n + m) PROVE Contents'[i] = (Contents \o chunk)[i]
    <3>0. n \in Nat /\ m \in Nat
      BY <1>1
    <3>1. CASE i <= n
      <4>1. i \in 1..n
        BY <3>0, <3>1
      <4> QED
        BY <1>3, <1>4, <2>1, <3>1, <4>1
    <3>2. CASE i > n
      <4>1. i - n \in 1..m /\ n + (i - n) - 1 = i - 1
        BY <1>1, <3>2
      <4>2. Contents'[i] = data[Slot(head, i - 1)]
        BY <1>4
      <4>3. data[Slot(head, i - 1)] = chunk[i - n]
        BY <1>5, <1>6, <4>1
      <4> QED
        BY <1>1, <2>1, <3>2, <4>2, <4>3
    <3>3. i <= n \/ i > n
      BY <3>0
    <3> QED
      BY <3>1, <3>2, <3>3
  <2> QED
    BY <1>4, <2>1, <2>2, SeqEqual
<1>8. m \in 0..(Size - 1) - Len(Contents) /\ chunk \in [1..m -> Items]
  BY <1>1, <1>3, LenProperties, FifoAssumption DEF m
<1> QED
  BY <1>1, <1>7, <1>8 DEF Queue!Put

\* The callback takes a prefix.
LEMMA ReleaseTakes ==
  ASSUME IInv, IInv', Copies, Release
  PROVE  Queue!Take
<1> DEFINE n == Ahead(tail, head)
           k == to_read
<1>1. /\ n \in Nat /\ k \in Nat /\ k <= n /\ n < Size
      /\ reader = "copy" /\ Len(stream) = k /\ stream \in Seq(Items)
      /\ head' = (head + k) % Size
      /\ UNCHANGED <<data, tail, put>> /\ taken' = stream
  BY Available, FifoAssumption DEF Release, IInv, Reader, Promises, emulator
<1>2. Ahead(tail', head') = n - k
  <2>1. tail \in Indices /\ head \in Indices /\ k \in Nat /\ k < Size
    BY <1>1, FifoAssumption DEF IInv, Ring
  <2>2. head' = (IF head + k < Size THEN head + k ELSE (head + k) - Size)
    <3> HIDE DEF k
    <3> QED
      BY <1>1, <2>1, MovedOn
  <2>3. k <= n /\ tail' = tail
    BY <1>1
  <2> HIDE DEF k
  <2> QED
    BY <2>1, <2>2, <2>3, FifoAssumption DEF n, Indices, Ahead
<1>3. /\ Contents \in Seq(Items) /\ Len(Contents) = n
      /\ \A i \in 1..n : Contents[i] = data[Slot(head, i - 1)]
  BY ContentsAre DEF IInv, ContentsInOrder
<1>4. /\ Contents' \in Seq(Items) /\ Len(Contents') = n - k
      /\ \A i \in 1..(n - k) : Contents'[i] = data[Slot((head + k) % Size, i - 1)]
  <2>1. /\ Contents' \in Seq(Items) /\ Len(Contents') = Ahead(tail', head')
        /\ \A i \in 1..Ahead(tail', head') : Contents'[i] = data'[Slot(head', i - 1)]
    BY ContentsStayInOrder DEF IInv, ContentsInOrder
  <2> QED
    BY <1>1, <1>2, <2>1
<1>5. \A i \in 1..k : stream[i] = data[Slot(head, i - 1)]
  BY <1>1 DEF Copies
<1>6. \A i \in 1..(n - k) : Slot((head + k) % Size, i - 1) = Slot(head, k + i - 1)
  <2> TAKE i \in 1..(n - k)
  <2>1. i - 1 \in Nat /\ k + (i - 1) < Size
    BY <1>1, FifoAssumption
  <2>2. Slot((head + k) % Size, i - 1) = Slot(head, k + (i - 1))
    BY <1>1, <2>1, SlotShifted DEF IInv, Ring
  <2> QED
    BY <1>1, <2>2
<1>7. /\ SubSeq(Contents, 1, k) \in Seq(Items)
      /\ Len(SubSeq(Contents, 1, k)) = k
      /\ \A i \in 1..k : SubSeq(Contents, 1, k)[i] = Contents[i]
  <2> HIDE DEF n, k
  <2>1. \A i \in 1..k : Contents[i] \in Items
    BY <1>1, <1>3, ElementOfSeq
  <2>2. /\ SubSeq(Contents, 1, k) \in Seq(Items)
        /\ Len(SubSeq(Contents, 1, k)) = IF 1 <= k THEN k - 1 + 1 ELSE 0
        /\ \A i \in 1..(k - 1 + 1) : SubSeq(Contents, 1, k)[i] = Contents[1 + i - 1]
    BY <1>1, <2>1, SubSeqProperties
  <2> QED
    BY <1>1, <2>2
<1>8. /\ SubSeq(Contents, k + 1, n) \in Seq(Items)
      /\ Len(SubSeq(Contents, k + 1, n)) = n - k
      /\ \A i \in 1..(n - k) : SubSeq(Contents, k + 1, n)[i] = Contents[k + i]
  <2> HIDE DEF n, k
  <2>1. \A i \in (k + 1)..n : Contents[i] \in Items
    BY <1>1, <1>3, ElementOfSeq
  <2>2. /\ SubSeq(Contents, k + 1, n) \in Seq(Items)
        /\ Len(SubSeq(Contents, k + 1, n)) = IF k + 1 <= n THEN n - (k + 1) + 1 ELSE 0
        /\ \A i \in 1..(n - (k + 1) + 1) :
             SubSeq(Contents, k + 1, n)[i] = Contents[k + 1 + i - 1]
    BY <1>1, <2>1, SubSeqProperties
  <2> QED
    BY <1>1, <2>2
<1> HIDE DEF n, k
<1>9. taken' = SubSeq(Contents, 1, k)
  <2>1. \A i \in 1..k : stream[i] = SubSeq(Contents, 1, k)[i]
    BY <1>1, <1>3, <1>5, <1>7
  <2> QED
    BY <1>1, <1>7, <2>1, SeqEqual
<1>10. Contents' = SubSeq(Contents, k + 1, Len(Contents))
  <2>1. ASSUME NEW i \in 1..(n - k) PROVE Contents'[i] = SubSeq(Contents, k + 1, n)[i]
    <3>0. k \in Nat /\ n \in Nat /\ i \in Int
      BY <1>1
    <3>1. k + i \in 1..n
      BY <1>1
    <3>2. Contents[k + i] = data[Slot(head, k + i - 1)]
      BY <1>3, <3>0, <3>1
    <3> QED
      BY <1>4, <1>6, <1>8, <3>2
  <2> QED
    BY <1>3, <1>4, <1>8, <2>1, SeqEqual
<1>11. k \in 0..Len(Contents)
  BY <1>1, <1>3
<1> QED
  BY <1>1, <1>9, <1>10, <1>11 DEF Queue!Take

\* Everything else, copying included, leaves the queue alone.
LEMMA NextQueue ==
  IInv /\ IInv' /\ Copies /\ [Next]_vars => [Queue!Next]_(Queue!vars)
<1> SUFFICES ASSUME IInv, IInv', Copies, [Next]_vars PROVE [Queue!Next]_(Queue!vars)
  OBVIOUS
<1>1. CASE Publish
  BY <1>1, PublishPuts DEF Queue!Next
<1>2. CASE Release
  BY <1>2, ReleaseTakes DEF Queue!Next
<1>3. CASE Copy
  <2>1. UNCHANGED <<head, tail, put, taken>>
    BY <1>3 DEF Copy, device
  <2>2. /\ Ahead(tail, head) \in Nat
        /\ Contents \in Seq(Items) /\ Len(Contents) = Ahead(tail, head)
        /\ \A i \in 1..Ahead(tail, head) : Contents[i] = data[Slot(head, i - 1)]
    BY ContentsAre, Available DEF IInv, ContentsInOrder
  <2>3. /\ Contents' \in Seq(Items) /\ Len(Contents') = Ahead(tail, head)
        /\ \A i \in 1..Ahead(tail, head) : Contents'[i] = data'[Slot(head, i - 1)]
    <3>1. /\ Contents' \in Seq(Items) /\ Len(Contents') = Ahead(tail', head')
          /\ \A i \in 1..Ahead(tail', head') : Contents'[i] = data'[Slot(head', i - 1)]
      BY ContentsStayInOrder DEF IInv, ContentsInOrder
    <3> QED
      BY <2>1, <3>1
  <2>4. ASSUME NEW i \in 1..Ahead(tail, head) PROVE Contents'[i] = Contents[i]
    <3>1. i - 1 \in Nat /\ i - 1 < Ahead(tail, head)
      BY <2>2
    <3>2. data'[Slot(head, i - 1)] = data[Slot(head, i - 1)]
      BY <1>3, <3>1, CopyElsewhere
    <3> QED
      BY <2>2, <2>3, <3>2
  <2>5. Contents' = Contents
    BY <2>2, <2>3, <2>4, SeqEqual
  <2> QED
    BY <2>1, <2>5 DEF Queue!vars
<1>4. CASE UNCHANGED <<data, head, tail, put, taken>>
  BY <1>4 DEF Queue!vars, Contents, ReadAvailable, Slot
<1> QED
  BY <1>1, <1>2, <1>3, <1>4
    DEF Next, Emulator, Device, ToggleUnlocked, Flush, Check, Drop, Callback, Read, vars,
        emulator, device

LEMMA InitQueue == Init => Queue!Init
<1> SUFFICES ASSUME Init PROVE Queue!Init
  OBVIOUS
<1>1. Ahead(tail, head) = 0
  BY DEF Init, Ahead
<1>2. Contents \in Seq(Items) /\ Len(Contents) = 0
  BY <1>1, InitIInv, ContentsAre DEF IInv, ContentsInOrder
<1>3. Contents = <<>>
  BY <1>2, EmptySeq
<1> QED
  BY <1>3 DEF Init, Queue!Init

\* The ring buffer with its two unlocked threads is a queue of Size - 1 items:
\* each chunk is appended whole when the tail is stored, each callback returns
\* the oldest items, in order and once each (fifo.h:15-43).
THEOREM FifoIsAQueue == Spec => ImplementsQueue
<1>1. Spec => []Copies
  BY InitCopies, NextCopies, Inductive, PTL DEF Spec
<1>2. Spec => [][Queue!Next]_(Queue!vars)
  BY <1>1, NextQueue, Inductive, PTL DEF Spec
<1> QED
  BY <1>2, InitQueue, PTL DEF Spec, ImplementsQueue, Queue!Spec

--------------------------------------------------------------------------------
(***************************************************************************)
(* AudioInterface.  First remainders, for any divisor.                     *)
(***************************************************************************)
LEMMA DivMod ==
  ASSUME NEW w \in Nat \ {0}, NEW x \in Int
  PROVE  x \div w \in Int /\ x % w \in 0..(w - 1) /\ x = w * (x \div w) + (x % w)
  BY SMTT(30)

LEMMA SmallMultiple ==
  ASSUME NEW w \in Nat \ {0}, NEW d \in Int, w * d < w, w * d > -w
  PROVE  d = 0
  BY SMTT(30)

LEMMA ModUnique ==
  ASSUME NEW w \in Nat \ {0}, NEW q \in Int, NEW r \in 0..(w - 1)
  PROVE  (w * q + r) % w = r
<1> DEFINE x == w * q + r
           p == x \div w
           s == x % w
<1>1. p \in Int /\ s \in 0..(w - 1) /\ w * q + r = w * p + s
  <2>1. x \in Int
    BY SMTT(30)
  <2> HIDE DEF x
  <2>2. p \in Int /\ s \in 0..(w - 1) /\ x = w * p + s
    BY <2>1, DivMod
  <2>3. QED
    BY <2>2 DEF x
<1> HIDE DEF p, s
<1> DEFINE d == q - p
<1>2. d \in Int /\ w * d = s - r
  BY <1>1, SMTT(30)
<1> HIDE DEF d
<1>3. d = 0
  <2>1. w * d < w /\ w * d > -w
    BY <1>1, <1>2
  <2>2. QED
    BY <1>2, <2>1, SmallMultiple
<1>4. s = r
  BY <1>1, <1>2, <1>3, SMTT(30)
<1>5. QED
  BY <1>4 DEF s

LEMMA ModPlus ==
  ASSUME NEW w \in Nat \ {0}, NEW x \in Int, NEW y \in Int
  PROVE  ((x % w) + y) % w = (x + y) % w
<1> DEFINE q == x \div w
           z == (x % w) + y
           p == z \div w
           r == z % w
<1>1. q \in Int /\ x = w * q + (x % w) /\ x % w \in 0..(w - 1)
  BY DivMod
<1>2. z \in Int /\ x + y = w * q + z
  BY <1>1
<1>3. p \in Int /\ z = w * p + r /\ r \in 0..(w - 1)
  <2> HIDE DEF z
  <2>1. QED
    BY <1>2, DivMod
<1> HIDE DEF q, z, p, r
<1>4. x + y = w * (q + p) + r /\ q + p \in Int
  <2>1. w * q \in Int /\ w * p \in Int /\ w * (q + p) = w * q + w * p
    BY <1>1, <1>3, SMTT(30)
  <2>2. QED
    BY <1>1, <1>2, <1>3, <2>1
<1>5. (w * (q + p) + r) % w = r
  BY <1>3, <1>4, ModUnique
<1>6. QED
  BY <1>4, <1>5 DEF r, z

(***************************************************************************)
(* Pages and offsets.                                                      *)
(***************************************************************************)
LEMMA MemorySize == Pages \in Nat \ {0} /\ PageSize \in Nat \ {0} /\ Memory \in Nat \ {0}
  BY AudioConstants, SMTT(30) DEF Memory

LEMMA InMemory ==
  ASSUME NEW page \in 0..(Pages - 1), NEW off \in 0..(PageSize - 1)
  PROVE  page * PageSize + off \in 0..(Memory - 1)
<1>1. page * PageSize \in Nat
  BY MemorySize, SMTT(30)
<1>2. (Pages - 1 - page) * PageSize \in Nat
  BY MemorySize, SMTT(30)
<1>3. (Pages - 1 - page) * PageSize = Memory - PageSize - page * PageSize
  BY MemorySize, SMTT(30) DEF Memory
<1>4. QED
  BY <1>1, <1>2, <1>3, MemorySize

LEMMA PageAndOffset ==
  ASSUME NEW a \in 0..(Memory - 1)
  PROVE  /\ a \div PageSize \in 0..(Pages - 1)
         /\ a % PageSize \in 0..(PageSize - 1)
         /\ a = (a \div PageSize) * PageSize + (a % PageSize)
<1> DEFINE q == a \div PageSize
           r == a % PageSize
<1>1. q \in Int /\ r \in 0..(PageSize - 1) /\ a = PageSize * q + r
  BY MemorySize, DivMod
<1> HIDE DEF q, r
<1>2. q >= 0
  BY <1>1, MemorySize, SMTT(30)
<1>3. q < Pages
  BY <1>1, MemorySize, SMTT(30) DEF Memory
<1>4. PageSize * q = q * PageSize
  BY <1>1, MemorySize
<1>5. QED
  BY <1>1, <1>2, <1>3, <1>4, MemorySize DEF q, r

\* SampleAddress of a page register, an offset register and a carry.
Carried(a, c) == ((a \div PageSize + c) % Pages) * PageSize + (a % PageSize)

LEMMA CarriedIsMod ==
  ASSUME NEW a \in 0..(Memory - 1), NEW c \in {0, 1}
  PROVE  Carried(a, c) = (a + c * PageSize) % Memory /\ Carried(a, c) \in 0..(Memory - 1)
<1> DEFINE p == a \div PageSize
           r == a % PageSize
           t == p + c
           u == t \div Pages
           v == t % Pages
<1>1. p \in 0..(Pages - 1) /\ r \in 0..(PageSize - 1) /\ a = p * PageSize + r
  BY PageAndOffset
<1>2. t \in Int
  BY <1>1, MemorySize
<1>3. u \in Int /\ v \in 0..(Pages - 1) /\ t = Pages * u + v
  <2> HIDE DEF t
  <2>1. QED
    BY <1>2, DivMod, MemorySize
<1>4. Carried(a, c) = v * PageSize + r
  BY DEF Carried
<1> HIDE DEF p, r, u, v
<1>5. v * PageSize + r \in 0..(Memory - 1)
  BY <1>1, <1>3, InMemory
<1>6. a + c * PageSize = Memory * u + (v * PageSize + r)
  <2>1. a + c * PageSize = t * PageSize + r
    BY <1>1, MemorySize, SMTT(30)
  <2>2. t * PageSize = Memory * u + v * PageSize
    <3> HIDE DEF t
    <3>1. (Pages * u + v) * PageSize = (Pages * PageSize) * u + v * PageSize
      BY <1>3, MemorySize, SMTT(30)
    <3>2. QED
      BY <1>3, <3>1 DEF Memory
  <2>3. t * PageSize \in Int /\ Memory * u \in Int /\ v * PageSize \in Int
    <3> HIDE DEF t
    <3>1. QED
      BY <1>2, <1>3, MemorySize, SMTT(30)
  <2>4. QED
    BY <1>1, <2>1, <2>2, <2>3
<1>7. QED
  BY <1>3, <1>4, <1>5, <1>6, ModUnique, MemorySize

(***************************************************************************)
(* A sample later the address is one more, with the carry that was left.   *)
(***************************************************************************)
LEMMA FollowingIsNext ==
  ASSUME NEW s \in 0..(Memory - 1)
  PROVE  /\ Following(s) \in 0..(Memory - 1)
         /\ Following(s) + (IF Following(s) % PageSize = 0 THEN 1 ELSE 0) * PageSize = s + 1
<1> DEFINE p == s \div PageSize
           r == s % PageSize
           n == (s + 1) % PageSize
<1>1. p \in 0..(Pages - 1) /\ r \in 0..(PageSize - 1) /\ s = p * PageSize + r
  BY PageAndOffset
<1>2. n \in 0..(PageSize - 1)
  BY DivMod, MemorySize
<1>3. Following(s) = p * PageSize + n
  BY DEF Following
<1>4. n = (IF r = PageSize - 1 THEN 0 ELSE r + 1)
  <2> DEFINE k == IF r = PageSize - 1 THEN p + 1 ELSE p
             m == IF r = PageSize - 1 THEN 0 ELSE r + 1
  <2>1. k \in Int /\ m \in 0..(PageSize - 1)
    BY <1>1, MemorySize
  <2>2. s + 1 = PageSize * k + m
    <3> HIDE DEF p, r
    <3>1. QED
      BY <1>1, MemorySize, SMTT(30)
  <2> HIDE DEF k, m
  <2>3. (PageSize * k + m) % PageSize = m
    BY <2>1, ModUnique, MemorySize
  <2>4. QED
    BY <2>2, <2>3 DEF m
<1>5. Following(s) % PageSize = n
  <2>1. p * PageSize = PageSize * p /\ p \in Int
    BY <1>1, MemorySize
  <2> HIDE DEF p, n
  <2>2. (PageSize * p + n) % PageSize = n
    BY <1>2, <2>1, ModUnique, MemorySize
  <2>3. QED
    BY <1>3, <2>1, <2>2
<1> HIDE DEF p, r, n
<1>6. Following(s) \in 0..(Memory - 1)
  BY <1>1, <1>2, <1>3, InMemory
<1>7. p * PageSize \in Int
  BY <1>1, MemorySize, SMTT(30)
<1>8. QED
  BY <1>1, <1>2, <1>3, <1>4, <1>5, <1>6, <1>7, MemorySize

(***************************************************************************)
(* The inductive invariant.  A buffer that is being played has something   *)
(* left, and one that has just come first was left the carry of the sample *)
(* before it; a slot holds the address that was written to it.             *)
(***************************************************************************)
Playing ==
  /\ \A i \in 1..Len(asked) : dma_length[i] > 0
  /\ asked = << >> => offset = 0
  /\ offset = 0 => carried = dma_address_carry

Addressed ==
  /\ addressed # None => dma_count <= addressed
  /\ addressed = dma_count /\ dma_count < 2 => dma_address[dma_count + 1] = address
  /\ Len(asked) = 2 /\ asked[2].undisturbed => dma_address[2] = asked[2].address

AiInv == AiTypeOK /\ RegistersTellTheTruth /\ Playing /\ Addressed /\ PlaysWhatWasAsked

Buffers == [address : Addresses \cup {0}, length : Nat, undisturbed : BOOLEAN]

LEMMA AddressesInMemory ==
  ASSUME NEW a \in Addresses \cup {0}
  PROVE  a \in 0..(Memory - 1)
  BY AudioConstants, MemorySize DEF Memory

LEMMA EmptyBuffers == << >> \in Seq(Buffers) /\ \A s \in Seq(Buffers) : s = << >> <=> Len(s) = 0
  BY EmptySeq

LEMMA AskedShape ==
  ASSUME AiInv
  PROVE  /\ asked \in Seq(Buffers) /\ Len(asked) = dma_count /\ dma_count \in 0..2
         /\ asked # << >> => Head(asked) = asked[1] /\ asked[1] \in Buffers /\ dma_count > 0
         /\ dma_count = 2 => asked[2] \in Buffers
<1>1. asked \in Seq(Buffers) /\ Len(asked) = dma_count /\ dma_count \in 0..2
  BY DEF AiInv, AiTypeOK, RegistersTellTheTruth, Buffers
<1>2. QED
  BY <1>1

LEMMA AiInitInv == AiInit => AiInv
<1> SUFFICES ASSUME AiInit PROVE AiInv
  OBVIOUS
<1>1. 0 \in 0..(Memory - 1)
  BY MemorySize
<1>2. <<0, 0>> \in [1..2 -> 0..(Memory - 1)] /\ <<0, 0>> \in [1..2 -> Nat]
  BY <1>1
<1>3. << >> \in Seq(Buffers) /\ Len(<< >>) = 0
  BY EmptySeq
<1>4. AiTypeOK
  <2>1. asked \in Seq(Buffers)
    BY <1>3 DEF AiInit
  <2>2. dma_address \in [1..2 -> 0..(Memory - 1)] /\ dma_length \in [1..2 -> Nat]
    BY <1>2 DEF AiInit
  <2>3. /\ dma_count \in 0..2 /\ address \in Addresses \cup {0}
        /\ addressed \in {None} \cup 0..2 /\ offset \in Nat
    BY DEF AiInit
  <2>4. dma_address_carry \in BOOLEAN /\ intr \in BOOLEAN /\ carried \in BOOLEAN
    BY DEF AiInit
  <2>5. QED
    BY <2>1, <2>2, <2>3, <2>4 DEF AiTypeOK, Buffers
<1>5. RegistersTellTheTruth /\ Playing
  <2>1. dma_count = 0 /\ asked = << >> /\ Len(asked) = 0 /\ dma_length[1] = 0
    BY <1>3 DEF AiInit
  <2>2. RegistersTellTheTruth
    BY <2>1 DEF RegistersTellTheTruth
  <2>3. 1..Len(asked) = {}
    BY <2>1
  <2>4. QED
    BY <2>2, <2>3 DEF AiInit, Playing
<1>6. Addressed /\ PlaysWhatWasAsked
  BY <1>3 DEF AiInit, Addressed, PlaysWhatWasAsked, None
<1>7. QED
  BY <1>4, <1>5, <1>6 DEF AiInv

(***************************************************************************)
(* The program's writes.                                                   *)
(***************************************************************************)
LEMMA WriteDramAddrKeeps ==
  ASSUME AiInv, NEW value \in Addresses, WriteDramAddr(value)
  PROVE  AiInv'
<1>1. /\ dma_address' = IF dma_count < 2 THEN [dma_address EXCEPT ![dma_count + 1] = value]
                                         ELSE dma_address
      /\ address' = value /\ addressed' = dma_count
      /\ UNCHANGED <<dma_count, dma_length, dma_address_carry, intr, asked, offset, carried>>
  BY DEF WriteDramAddr
<1>2. /\ asked \in Seq(Buffers) /\ Len(asked) = dma_count /\ dma_count \in 0..2
      /\ dma_address \in [1..2 -> 0..(Memory - 1)]
      /\ value \in 0..(Memory - 1)
  BY AskedShape, AddressesInMemory DEF AiInv, AiTypeOK
<1>3. dma_address' \in [1..2 -> 0..(Memory - 1)]
  BY <1>1, <1>2
<1>4. AiTypeOK'
  BY <1>1, <1>2, <1>3 DEF AiInv, AiTypeOK
<1>5. RegistersTellTheTruth' /\ Playing'
  BY <1>1 DEF AiInv, RegistersTellTheTruth, Playing
<1>6. Addressed'
  BY <1>1, <1>2 DEF AiInv, Addressed, None
<1>7. PlaysWhatWasAsked'
  <2>1. CASE asked = << >>
    BY <1>1, <2>1 DEF PlaysWhatWasAsked
  <2>2. CASE asked # << >>
    <3>1. dma_count > 0
      BY <2>2, AskedShape
    <3>2. dma_address'[1] = dma_address[1]
      BY <1>1, <1>2, <3>1
    <3>3. SampleAddress' = SampleAddress
      BY <1>1, <3>2 DEF SampleAddress, Carry
    <3>4. QED
      BY <1>1, <3>3 DEF AiInv, PlaysWhatWasAsked
  <2>3. QED
    BY <2>1, <2>2
<1>8. QED
  BY <1>4, <1>5, <1>6, <1>7 DEF AiInv

LEMMA WriteLenKeeps ==
  ASSUME AiInv, NEW length \in Lengths, WriteLen(length)
  PROVE  AiInv'
<1> DEFINE buffer == [address |-> address, length |-> length,
                      undisturbed |-> addressed = dma_count]
<1>1. /\ dma_count < 2 /\ length # 0
      /\ dma_length' = [dma_length EXCEPT ![dma_count + 1] = length]
      /\ dma_count' = dma_count + 1
      /\ asked' = Append(asked, buffer)
      /\ addressed' = None
      /\ UNCHANGED <<dma_address, dma_address_carry, intr, address, offset, carried>>
  BY DEF WriteLen, Accepts
<1>2. /\ asked \in Seq(Buffers) /\ Len(asked) = dma_count /\ dma_count \in {0, 1}
      /\ asked # << >> => dma_count = 1
  BY <1>1, AskedShape
<1>3. length \in Nat /\ length > 0
  BY <1>1, AudioConstants
<1>4. buffer \in Buffers
  BY <1>3 DEF AiInv, AiTypeOK, Buffers
<1>b. buffer.address = address /\ buffer.length = length
      /\ (buffer.undisturbed <=> addressed = dma_count)
  OBVIOUS
<1>5. /\ asked' \in Seq(Buffers) /\ Len(asked') = dma_count + 1
      /\ asked'[dma_count + 1] = buffer /\ asked' # << >>
      /\ \A i \in 1..dma_count : asked'[i] = asked[i]
      /\ Head(asked') = asked'[1]
  <2> HIDE DEF buffer
  <2>1. QED
    BY <1>1, <1>2, <1>4
<1>6. /\ dma_length \in [1..2 -> Nat]
      /\ dma_length'[dma_count + 1] = length
      /\ \A i \in 1..dma_count : dma_length'[i] = dma_length[i]
      /\ dma_length' \in [1..2 -> Nat]
  BY <1>1, <1>2, <1>3 DEF AiInv, AiTypeOK
<1>7. AiTypeOK'
  <2> HIDE DEF buffer
  <2>1. QED
    BY <1>1, <1>2, <1>5, <1>6 DEF AiInv, AiTypeOK, Buffers
<1>8. dma_count = 0 => offset = 0 /\ carried = dma_address_carry
  BY <1>2 DEF AiInv, Playing
<1>9. RegistersTellTheTruth'
  <2>1. CASE dma_count = 0
    BY <1>1, <1>3, <1>5, <1>6, <1>8, <2>1 DEF RegistersTellTheTruth
  <2>2. CASE dma_count = 1
    <3>1. asked # << >> /\ Head(asked) = asked[1]
      <4>1. Len(asked) # 0
        BY <1>2, <2>2
      <4>2. asked # << >>
        BY <1>2, <4>1, EmptyBuffers, Zenon
      <4>3. QED
        BY <4>2, AskedShape
    <3>2. asked'[1] = asked[1] /\ dma_length'[1] = dma_length[1]
      BY <1>5, <1>6, <2>2
    <3>3. dma_length[1] = asked[1].length - offset
      BY <3>1 DEF AiInv, RegistersTellTheTruth
    <3>4. asked'[2].length = length /\ dma_length'[2] = length
      BY <1>5, <1>6, <2>2
    <3>5. QED
      BY <1>1, <1>5, <2>2, <3>2, <3>3, <3>4 DEF RegistersTellTheTruth
  <2>3. QED
    BY <1>2, <2>1, <2>2
<1>10. Playing'
  <2>1. \A i \in 1..Len(asked') : dma_length'[i] > 0
    BY <1>2, <1>3, <1>5, <1>6 DEF AiInv, Playing
  <2>2. QED
    BY <1>1, <1>5, <2>1 DEF AiInv, Playing
<1>11. addressed = dma_count => dma_address[dma_count + 1] = address
  BY <1>1 DEF AiInv, Addressed
<1>12. Addressed'
  <2>1. addressed' = None /\ None # dma_count'
    BY <1>1, <1>2 DEF None
  <2>2. ASSUME Len(asked') = 2, asked'[2].undisturbed
        PROVE  dma_address'[2] = asked'[2].address
    <3>1. dma_count = 1
      BY <1>2, <1>5, <2>2
    <3>2. asked'[2] = buffer
      BY <1>5, <3>1
    <3>3. addressed = dma_count
      BY <1>b, <2>2, <3>2 DEF buffer
    <3>4. dma_address[2] = address
      BY <1>11, <3>1, <3>3
    <3>5. QED
      BY <1>1, <1>b, <3>2, <3>4
  <2>3. QED
    BY <2>1, <2>2 DEF Addressed
<1>13. PlaysWhatWasAsked'
  <2>1. SampleAddress' = SampleAddress
    BY <1>1 DEF SampleAddress, Carry
  <2>2. CASE dma_count = 1
    <3>1. asked # << >> /\ Head(asked) = Head(asked')
      BY <1>2, <1>5, <2>2
    <3>2. QED
      BY <1>1, <2>1, <3>1 DEF AiInv, PlaysWhatWasAsked
  <2>3. CASE dma_count = 0
    <3> SUFFICES ASSUME Head(asked').undisturbed
                 PROVE  SampleAddress =
                          (Head(asked').address + offset + (IF carried THEN PageSize ELSE 0))
                            % Memory
      BY <1>1, <2>1 DEF PlaysWhatWasAsked
    <3>1. Head(asked') = buffer
      BY <1>5, <2>3
    <3>2. dma_address[1] = address
      <4>1. addressed = dma_count
        BY <1>b, <3>1
      <4>2. QED
        BY <1>11, <2>3, <4>1
    <3>3. address \in 0..(Memory - 1)
      BY AddressesInMemory DEF AiInv, AiTypeOK
    <3>4. SampleAddress = (address + Carry * PageSize) % Memory
      BY <3>2, <3>3, CarriedIsMod DEF SampleAddress, Carried, Carry
    <3>5. address + Carry * PageSize = address + offset + (IF carried THEN PageSize ELSE 0)
      BY <1>8, <2>3, <3>3, MemorySize DEF Carry
    <3>6. QED
      BY <3>1, <3>4, <3>5
  <2>4. QED
    BY <1>2, <2>2, <2>3
<1>14. QED
  BY <1>7, <1>9, <1>10, <1>12, <1>13 DEF AiInv

(***************************************************************************)
(* The device plays a sample.                                              *)
(***************************************************************************)
LEMMA SampleFacts ==
  ASSUME AiInv, Sample
  PROVE  /\ dma_count \in {1, 2} /\ Len(asked) = dma_count /\ asked # << >>
         /\ dma_length[1] > 0 /\ dma_length[1] = asked[1].length - offset
         /\ dma_address[1] \in 0..(Memory - 1) /\ dma_address[2] \in 0..(Memory - 1)
         /\ SampleAddress \in 0..(Memory - 1)
         /\ Following(SampleAddress) \in 0..(Memory - 1)
         /\ Following(SampleAddress) + Carry' * PageSize = SampleAddress + 1
<1>1. dma_count > 0 /\ dma_address_carry' = (Following(SampleAddress) % PageSize = 0)
  BY DEF Sample
<1>2. dma_count \in {1, 2} /\ Len(asked) = dma_count
  BY <1>1, AskedShape
<1>3. asked # << >> /\ Head(asked) = asked[1]
  <2>1. Len(asked) # 0
    BY <1>2
  <2>2. asked # << >>
    BY <2>1, AskedShape, EmptyBuffers, Zenon
  <2>3. QED
    BY <2>2, AskedShape
<1>4. dma_length[1] > 0 /\ dma_length[1] = asked[1].length - offset
  <2>1. 1 \in 1..Len(asked)
    BY <1>2
  <2>2. QED
    BY <1>3, <2>1 DEF AiInv, Playing, RegistersTellTheTruth
<1>5. dma_address[1] \in 0..(Memory - 1) /\ dma_address[2] \in 0..(Memory - 1)
  BY DEF AiInv, AiTypeOK
<1>6. SampleAddress = Carried(dma_address[1], Carry) /\ Carry \in {0, 1}
  BY DEF SampleAddress, Carried, Carry
<1>7. SampleAddress \in 0..(Memory - 1)
  BY <1>5, <1>6, CarriedIsMod
<1>8. /\ Following(SampleAddress) \in 0..(Memory - 1)
      /\ Following(SampleAddress) + Carry' * PageSize = SampleAddress + 1
  <2>1. Carry' = (IF Following(SampleAddress) % PageSize = 0 THEN 1 ELSE 0)
    BY <1>1 DEF Carry
  <2>2. QED
    BY <1>7, <2>1, FollowingIsNext
<1>9. QED
  BY <1>2, <1>3, <1>4, <1>5, <1>7, <1>8

\* The buffer goes on: the next sample is one further.
LEMMA SampleGoesOn ==
  ASSUME AiInv, Sample, ~Ends
  PROVE  AiInv'
<1>1. /\ dma_count' = dma_count
      /\ dma_address' = [dma_address EXCEPT ![1] = Following(SampleAddress)]
      /\ dma_length' = [dma_length EXCEPT ![1] = @ - 1]
      /\ offset' = offset + 1
      /\ intr' = (intr \/ Ends) /\ dma_address_carry' \in BOOLEAN
      /\ UNCHANGED <<asked, carried, address, addressed>>
  BY DEF Sample
<1>2. /\ dma_count \in {1, 2} /\ Len(asked) = dma_count /\ asked # << >>
      /\ dma_length[1] > 1 /\ dma_length[1] = asked[1].length - offset
  <2>1. dma_length[1] # 1
    BY DEF Ends
  <2>2. dma_length[1] \in Nat
    BY DEF AiInv, AiTypeOK
  <2>3. QED
    BY <2>1, <2>2, SampleFacts
<1>3. /\ dma_address \in [1..2 -> 0..(Memory - 1)] /\ dma_length \in [1..2 -> Nat]
      /\ offset \in Nat /\ asked[1].length \in Nat /\ Head(asked) = asked[1]
      /\ asked[1].address \in 0..(Memory - 1)
  BY <1>2, AskedShape, AddressesInMemory DEF AiInv, AiTypeOK, Buffers
<1>4. /\ dma_length'[1] = dma_length[1] - 1 /\ dma_length'[2] = dma_length[2]
      /\ dma_address'[1] = Following(SampleAddress) /\ dma_address'[2] = dma_address[2]
  BY <1>1, <1>3
<1>5. AiTypeOK'
  <2>1. dma_address' \in [1..2 -> 0..(Memory - 1)]
    BY <1>1, <1>3, SampleFacts
  <2>2. dma_length' \in [1..2 -> Nat]
    BY <1>1, <1>2, <1>3
  <2>3. offset' \in Nat /\ intr' \in BOOLEAN
    BY <1>1, <1>3
  <2>4. QED
    BY <1>1, <2>1, <2>2, <2>3 DEF AiInv, AiTypeOK
<1>6. RegistersTellTheTruth'
  <2>1. dma_length'[1] = Head(asked').length - offset'
    BY <1>1, <1>2, <1>3, <1>4
  <2>2. Len(asked') = 2 => dma_length'[2] = asked'[2].length
    BY <1>1, <1>4 DEF AiInv, RegistersTellTheTruth
  <2>3. dma_count' = Len(asked') /\ asked' # << >>
    BY <1>1, <1>2
  <2>4. QED
    BY <2>1, <2>2, <2>3 DEF RegistersTellTheTruth
<1>7. Playing'
  <2>1. \A i \in 1..Len(asked') : dma_length'[i] > 0
    <3> SUFFICES ASSUME NEW i \in 1..Len(asked) PROVE dma_length'[i] > 0
      BY <1>1
    <3>1. i = 1 \/ i = 2
      BY <1>2
    <3>2. dma_length[i] > 0
      BY DEF AiInv, Playing
    <3>3. QED
      BY <1>2, <1>3, <1>4, <3>1, <3>2
  <2>2. offset' # 0 /\ asked' # << >>
    BY <1>1, <1>2, <1>3
  <2>3. QED
    BY <2>1, <2>2 DEF Playing
<1>8. Addressed'
  <2>1. dma_count' < 2 => dma_count' + 1 = 2
    BY <1>1, <1>2
  <2>2. QED
    BY <1>1, <1>2, <1>4, <2>1 DEF AiInv, Addressed
<1>9. PlaysWhatWasAsked'
  <2> SUFFICES ASSUME Head(asked).undisturbed
               PROVE  SampleAddress' =
                        (asked[1].address + offset' + (IF carried THEN PageSize ELSE 0)) % Memory
    BY <1>1, <1>3 DEF PlaysWhatWasAsked
  <2> DEFINE x == asked[1].address + offset + (IF carried THEN PageSize ELSE 0)
  <2>1. SampleAddress = x % Memory
    BY <1>2, <1>3 DEF AiInv, PlaysWhatWasAsked
  <2>2. x \in Int /\ x + 1 = asked[1].address + offset' + (IF carried THEN PageSize ELSE 0)
    BY <1>1, <1>3, MemorySize
  <2>3. SampleAddress' = (SampleAddress + 1) % Memory
    <3>1. SampleAddress' = Carried(dma_address'[1], Carry') /\ Carry' \in {0, 1}
      BY DEF SampleAddress, Carried, Carry
    <3>2. dma_address'[1] \in 0..(Memory - 1)
      BY <1>4, SampleFacts
    <3>3. SampleAddress' = (dma_address'[1] + Carry' * PageSize) % Memory
      BY <3>1, <3>2, CarriedIsMod
    <3>4. QED
      BY <1>4, <3>3, SampleFacts
  <2> HIDE DEF x
  <2>4. ((x % Memory) + 1) % Memory = (x + 1) % Memory
    <3>1. x \in Int /\ 1 \in Int /\ Memory \in Nat \ {0}
      BY <2>2, MemorySize
    <3>2. QED
      BY <3>1, ModPlus
  <2>5. QED
    BY <2>1, <2>2, <2>3, <2>4
<1>10. QED
  BY <1>5, <1>6, <1>7, <1>8, <1>9 DEF AiInv

\* The last sample of the only buffer.
LEMMA LastBufferEnds ==
  ASSUME AiInv, Sample, Ends, ~(dma_count > 1)
  PROVE  AiInv'
<1>1. /\ dma_count' = dma_count - 1
      /\ dma_address' = [dma_address EXCEPT ![1] = Following(SampleAddress)]
      /\ dma_length' = [dma_length EXCEPT ![1] = @ - 1]
      /\ asked' = Tail(asked) /\ offset' = 0 /\ carried' = dma_address_carry'
      /\ intr' = (intr \/ Ends) /\ dma_address_carry' \in BOOLEAN
      /\ UNCHANGED <<address, addressed>>
  BY DEF Sample
<1>2. dma_count = 1 /\ Len(asked) = 1 /\ asked \in Seq(Buffers) /\ dma_length[1] = 1
  BY SampleFacts, AskedShape DEF Ends
<1>3. asked' \in Seq(Buffers) /\ Len(asked') = 0
  BY <1>1, <1>2
<1>4. asked' = << >>
  BY <1>3, EmptyBuffers, Zenon
<1>5. dma_address \in [1..2 -> 0..(Memory - 1)] /\ dma_length \in [1..2 -> Nat]
  BY DEF AiInv, AiTypeOK
<1>6. AiTypeOK'
  <2>1. dma_address' \in [1..2 -> 0..(Memory - 1)]
    BY <1>1, <1>5, SampleFacts
  <2>2. dma_length' \in [1..2 -> Nat]
    BY <1>1, <1>2, <1>5
  <2>3. dma_count' \in 0..2 /\ offset' \in Nat /\ intr' \in BOOLEAN /\ carried' \in BOOLEAN
    BY <1>1, <1>2
  <2>4. QED
    BY <1>1, <1>3, <2>1, <2>2, <2>3 DEF AiInv, AiTypeOK, Buffers
<1>7. dma_length'[1] = 0 /\ dma_count' = 0
  BY <1>1, <1>2, <1>5
<1>8. RegistersTellTheTruth'
  BY <1>3, <1>4, <1>7 DEF RegistersTellTheTruth
<1>9. Playing'
  <2>1. 1..Len(asked') = {}
    BY <1>3
  <2>2. QED
    BY <1>1, <2>1 DEF Playing
<1>10. Addressed'
  <2>1. addressed # None => addressed \in 1..2
    BY <1>2 DEF AiInv, AiTypeOK, Addressed, None
  <2>2. QED
    BY <1>1, <1>3, <1>7, <2>1 DEF Addressed, None
<1>11. PlaysWhatWasAsked'
  BY <1>4 DEF PlaysWhatWasAsked
<1>12. QED
  BY <1>6, <1>8, <1>9, <1>10, <1>11 DEF AiInv

\* The last sample of the first of two buffers: the second moves up.
LEMMA FirstBufferEnds ==
  ASSUME AiInv, Sample, Ends, dma_count > 1
  PROVE  AiInv'
<1>1. /\ dma_count' = dma_count - 1
      /\ dma_address' = <<dma_address[2], dma_address[2]>>
      /\ dma_length' = <<dma_length[2], dma_length[2]>>
      /\ asked' = Tail(asked) /\ offset' = 0 /\ carried' = dma_address_carry'
      /\ intr' = (intr \/ Ends) /\ dma_address_carry' \in BOOLEAN
      /\ UNCHANGED <<address, addressed>>
  BY DEF Sample, MoveUp
<1>2. dma_count = 2 /\ Len(asked) = 2 /\ asked \in Seq(Buffers)
  BY SampleFacts, AskedShape
<1>3. /\ asked' \in Seq(Buffers) /\ Len(asked') = 1 /\ asked'[1] = asked[2]
      /\ Head(asked') = asked[2]
  <2>1. asked' \in Seq(Buffers) /\ Len(asked') = 1
    BY <1>1, <1>2, SampleFacts, HeadTailProperties
  <2>2. asked'[1] = asked[2]
    <3>1. \A i \in 1..Len(asked') : asked'[i] = asked[i + 1]
      BY <1>1, <1>2, SampleFacts, HeadTailProperties, Zenon
    <3>2. 1 \in 1..Len(asked') /\ 1 + 1 = 2
      BY <2>1
    <3>3. QED
      BY <3>1, <3>2
  <2>3. Head(asked') = asked'[1]
    BY <2>1
  <2>4. QED
    BY <2>1, <2>2, <2>3
<1>4. asked' # << >>
  <2>1. Len(asked') # 0
    BY <1>3
  <2>2. QED
    BY <1>3, <2>1, EmptyBuffers, Zenon
<1>5. dma_address[2] \in 0..(Memory - 1) /\ dma_length[2] \in Nat
  BY DEF AiInv, AiTypeOK
<1>6. dma_length[2] > 0 /\ dma_length[2] = asked[2].length
  <2>1. 2 \in 1..Len(asked)
    BY <1>2
  <2>2. QED
    BY <1>2, <2>1 DEF AiInv, Playing, RegistersTellTheTruth
<1>7. /\ dma_address'[1] = dma_address[2] /\ dma_address'[2] = dma_address[2]
      /\ dma_length'[1] = dma_length[2] /\ dma_length'[2] = dma_length[2]
      /\ dma_count' = 1
  BY <1>1, <1>2
<1>8. AiTypeOK'
  <2>1. dma_address' \in [1..2 -> 0..(Memory - 1)]
    BY <1>1, <1>5
  <2>2. dma_length' \in [1..2 -> Nat]
    BY <1>1, <1>5
  <2>3. dma_count' \in 0..2
    BY <1>7
  <2>4. offset' \in Nat /\ intr' \in BOOLEAN /\ carried' \in BOOLEAN
    BY <1>1
  <2>5. QED
    BY <1>1, <1>3, <2>1, <2>2, <2>3, <2>4 DEF AiInv, AiTypeOK, Buffers
<1>9. RegistersTellTheTruth'
  <2>1. dma_count' = Len(asked') /\ Len(asked') # 2
    BY <1>3, <1>7
  <2>2. dma_length'[1] = Head(asked').length - offset'
    <3>1. offset' = 0
      BY <1>1
    <3>2. dma_length'[1] = Head(asked').length /\ dma_length'[1] \in Nat
      BY <1>3, <1>5, <1>6, <1>7
    <3>3. QED
      BY <3>1, <3>2
  <2>3. QED
    BY <1>4, <2>1, <2>2 DEF RegistersTellTheTruth
<1>10. Playing'
  <2>1. \A i \in 1..Len(asked') : dma_length'[i] > 0
    BY <1>3, <1>6, <1>7
  <2>2. QED
    BY <1>1, <1>4, <2>1 DEF Playing
<1>11. Addressed'
  <2>1. addressed # None => addressed = 2
    BY <1>2 DEF AiInv, AiTypeOK, Addressed, None
  <2>2. addressed' # None => addressed' = 2
    BY <1>1, <2>1
  <2>3. Len(asked') # 2 /\ dma_count' = 1
    BY <1>3, <1>7
  <2>4. None # 1
    BY DEF None
  <2>5. QED
    BY <2>2, <2>3, <2>4 DEF Addressed
<1>12. PlaysWhatWasAsked'
  <2> SUFFICES ASSUME asked[2].undisturbed
               PROVE  SampleAddress' =
                        (asked[2].address + 0 + (IF carried' THEN PageSize ELSE 0)) % Memory
    BY <1>1, <1>3 DEF PlaysWhatWasAsked
  <2>1. dma_address[2] = asked[2].address
    BY <1>2 DEF AiInv, Addressed
  <2>2. SampleAddress' = Carried(dma_address'[1], Carry') /\ Carry' \in {0, 1}
    BY DEF SampleAddress, Carried, Carry
  <2>3. dma_address'[1] \in 0..(Memory - 1)
    BY <1>5, <1>7
  <2>4. SampleAddress' = (dma_address'[1] + Carry' * PageSize) % Memory
    BY <2>2, <2>3, CarriedIsMod
  <2>5. Carry' * PageSize = (IF carried' THEN PageSize ELSE 0)
    BY <1>1, MemorySize DEF Carry
  <2>6. asked[2].address + 0 = asked[2].address
    BY <1>5, <2>1
  <2>7. QED
    BY <1>7, <2>1, <2>4, <2>5, <2>6
<1>13. QED
  BY <1>8, <1>9, <1>10, <1>11, <1>12 DEF AiInv

LEMMA AiNextInv == AiInv /\ [AiNext]_ai_vars => AiInv'
<1> SUFFICES ASSUME AiInv, [AiNext]_ai_vars PROVE AiInv'
  OBVIOUS
<1>1. ASSUME NEW value \in Addresses, WriteDramAddr(value) PROVE AiInv'
  BY <1>1, WriteDramAddrKeeps
<1>2. ASSUME NEW length \in Lengths, WriteLen(length) PROVE AiInv'
  BY <1>2, WriteLenKeeps
<1>3. CASE UNCHANGED ai_vars
  BY <1>3 DEF ai_vars, registers, history, AiInv, AiTypeOK, RegistersTellTheTruth, Playing,
              Addressed, PlaysWhatWasAsked, SampleAddress, Carry
<1>4. CASE WriteStatus
  BY <1>4 DEF WriteStatus, registers, history, AiInv, AiTypeOK, RegistersTellTheTruth, Playing,
              Addressed, PlaysWhatWasAsked, SampleAddress, Carry
<1>5. CASE Sample
  BY <1>5, SampleGoesOn, LastBufferEnds, FirstBufferEnds
<1>6. ASSUME NEW length \in Lengths, WriteLenIgnored(length) PROVE AiInv'
  BY <1>3, <1>6 DEF WriteLenIgnored
<1>7. QED
  BY <1>1, <1>2, <1>3, <1>4, <1>5, <1>6 DEF AiNext

LEMMA AiInductive == AiSpec => []AiInv
  BY AiInitInv, AiNextInv, PTL DEF AiSpec

(***************************************************************************)
(* Every variable keeps its type: the addresses stay in memory, and the    *)
(* length of the buffer being played does not fall below 0.                *)
(***************************************************************************)
THEOREM AudioTyped == AiSpec => []AiTypeOK
<1>1. AiInv => AiTypeOK
  BY DEF AiInv
<1>2. QED
  BY <1>1, AiInductive, PTL

(***************************************************************************)
(* AI_STATUS and AI_LEN tell what is queued and how much of the first      *)
(* buffer is left.                                                         *)
(***************************************************************************)
THEOREM AudioRegistersAreRight == AiSpec => []RegistersTellTheTruth
<1>1. AiInv => RegistersTellTheTruth
  BY DEF AiInv
<1>2. QED
  BY <1>1, AiInductive, PTL

(***************************************************************************)
(* Each sample comes from where the program said, over all pages and round *)
(* the end of memory; a buffer behind one that ended with its page begins  *)
(* a page too late, and nothing else goes wrong.                           *)
(***************************************************************************)
THEOREM AudioPlaysWhatWasAsked == AiSpec => []PlaysWhatWasAsked
<1>1. AiInv => PlaysWhatWasAsked
  BY DEF AiInv
<1>2. QED
  BY <1>1, AiInductive, PTL
================================================================================
