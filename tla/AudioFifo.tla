------------------------------- MODULE AudioFifo -------------------------------
(***************************************************************************)
(* The ring buffer between the emulator and the audio device               *)
(* (src/common/fifo.h) and its two users (src/frontend/audio.c): the       *)
(* emulator's thread appends the resampled samples in flush_guest_buffer,  *)
(* SDL's audio thread takes them in audio_callback.  There is no lock: the *)
(* indices are atomic and each is stored by one thread only.               *)
(*                                                                         *)
(* A step of the model is one access to the memory that the threads share: *)
(* a load or store of an index, or the copy of one item.  The item stands  *)
(* for the smallest unit that is moved, a frame of samples.                *)
(***************************************************************************)
EXTENDS Integers, Sequences

CONSTANTS
  Items,      \* the values of an item
  Size,       \* q->size
  ChunkSize,  \* the most that is appended at a time, FRAMES_PER_REQUEST
  Request,    \* how much the device asks for at a time
  MaxOutput   \* bound: how much one flush of the resampler produces

ASSUME FifoAssumption ==
  /\ Items # {}
  /\ Size \in Nat \ {0}
  /\ ChunkSize \in Nat \ {0}
  /\ Request \in Nat \ {0}
  /\ MaxOutput \in Nat

\* Sizes are powers of two (npow2), so that "& q->mask" is the remainder, and
\* a chunk fits into the buffer.
ASSUME RingAssumption ==
  /\ \E k \in 0..Size : Size = 2^k
  /\ ChunkSize < Size

VARIABLES
  data,       \* q->data
  head,       \* q->head, stored by the reader
  tail,       \* q->tail, stored by the writer
  unlocked,   \* is_framerate_unlocked(): the speed is not bound to the audio
  writer,     \* where the emulator's thread is
  remaining,  \* what this flush still has to append
  chunk,      \* the chunk being appended
  copied,     \* how much of it is in the buffer
  put,        \* the chunk appended last (history)
  reader,     \* where the audio thread is
  to_read,    \* how much this callback takes
  stream,     \* what it has copied of that
  taken       \* what the last callback returned (history)

emulator == <<writer, remaining, chunk, copied, put>>
device   == <<reader, to_read, stream, taken>>
vars     == <<data, head, tail, unlocked, emulator, device>>

Indices == 0..Size - 1

Min2(a, b) == IF a < b THEN a ELSE b

\* mutant: the wrap-around is forgotten by the readers of the indices
ReadAvailableUnmasked == IF tail >= head THEN tail - head ELSE 0

ReadAvailable == (tail - head) % Size

\* The last entry is never used: it tells empty from full.
WriteRemaining == Size - 1 - ReadAvailable

(***************************************************************************)
(* The emulator: flush_guest_buffer and fifo_write.                        *)
(***************************************************************************)

\* The user presses "u"; the window is polled by the emulator's own thread.
ToggleUnlocked ==
  /\ writer = "idle"
  /\ unlocked' = ~unlocked
  /\ UNCHANGED <<data, head, tail, emulator, device>>

Flush ==
  /\ writer = "idle"
  /\ \E n \in 1..MaxOutput : remaining' = n
  /\ writer' = "check"
  /\ UNCHANGED <<data, head, tail, chunk, copied, put, unlocked, device>>

NextChunk == Min2(ChunkSize, remaining)

\* n items are dealt with: on to the next chunk, or out of the loop.
Advance(n) ==
  /\ remaining' = remaining - n
  /\ writer' = IF remaining' > 0 THEN "check" ELSE "idle"
  /\ chunk' = <<>> /\ copied' = 0

\* mutant: the emulator waits for more room than there can be
CheckEmpty ==
  /\ writer = "check"
  /\ WriteRemaining = Size
  /\ \E c \in [1..NextChunk -> Items] : chunk' = c
  /\ writer' = "copy"
  /\ UNCHANGED <<data, head, tail, remaining, copied, put, unlocked, device>>

\* There is room for the next chunk.  When there is none and the speed is bound
\* to the audio, the loop spins.
Check ==
  /\ writer = "check"
  /\ WriteRemaining >= NextChunk
  /\ \E c \in [1..NextChunk -> Items] : chunk' = c
  /\ writer' = "copy"
  /\ UNCHANGED <<data, head, tail, remaining, copied, put, unlocked, device>>

\* There is no room and the speed is not bound to the audio.
Drop ==
  /\ unlocked
  /\ writer = "check"
  /\ WriteRemaining < NextChunk
  /\ Advance(NextChunk)
  /\ UNCHANGED <<data, head, tail, put, unlocked, device>>

\* memcpy in two parts when the range reaches the end of the buffer.
Slot(first, i) == IF first + i >= Size THEN first + i - Size ELSE first + i

Copy ==
  /\ writer = "copy"
  /\ copied < Len(chunk)
  /\ data' = [data EXCEPT ![Slot(tail, copied)] = chunk[copied + 1]]
  /\ copied' = copied + 1
  /\ UNCHANGED <<head, tail, writer, remaining, chunk, put, unlocked, device>>

\* mutant: the tail is stored before the last item was copied
PublishEarly ==
  /\ writer = "copy"
  /\ copied = Len(chunk) - 1
  /\ tail' = (tail + Len(chunk)) % Size
  /\ put' = chunk
  /\ Advance(Len(chunk))
  /\ UNCHANGED <<data, head, unlocked, device>>

Publish ==
  /\ writer = "copy"
  /\ copied = Len(chunk)
  /\ tail' = (tail + Len(chunk)) % Size
  /\ put' = chunk
  /\ Advance(Len(chunk))
  /\ UNCHANGED <<data, head, unlocked, device>>

(***************************************************************************)
(* The audio device: audio_callback and fifo_read.                         *)
(***************************************************************************)

Callback ==
  /\ reader = "idle"
  /\ to_read' = Min2(Request, ReadAvailable)
  /\ stream' = <<>>
  /\ reader' = "copy"
  /\ UNCHANGED <<data, head, tail, taken, unlocked, emulator>>

Read ==
  /\ reader = "copy"
  /\ Len(stream) < to_read
  /\ stream' = Append(stream, data[Slot(head, Len(stream))])
  /\ UNCHANGED <<data, head, tail, reader, to_read, taken, unlocked, emulator>>

Release ==
  /\ reader = "copy"
  /\ Len(stream) = to_read
  /\ head' = (head + to_read) % Size
  /\ taken' = stream
  /\ reader' = "idle"
  /\ UNCHANGED <<data, tail, to_read, stream, unlocked, emulator>>

Init ==
  /\ data = [i \in Indices |-> CHOOSE x \in Items : TRUE]
  /\ head = 0 /\ tail = 0
  /\ unlocked \in BOOLEAN
  /\ writer = "idle" /\ remaining = 0 /\ chunk = <<>> /\ copied = 0 /\ put = <<>>
  /\ reader = "idle" /\ to_read = 0 /\ stream = <<>> /\ taken = <<>>

Emulator == ToggleUnlocked \/ Flush \/ Check \/ Drop \/ Copy \/ Publish
Device   == Callback \/ Read \/ Release

Next == Emulator \/ Device

Spec == Init /\ [][Next]_vars

(***************************************************************************)
(* Both threads run, and SDL goes on calling audio_callback.  The emulator *)
(* may leave off producing sound, but not in the middle of a flush.        *)
(***************************************************************************)
FairSpec ==
  /\ Spec
  /\ WF_vars(Check \/ Drop \/ Copy \/ Publish)
  /\ WF_vars(Device)

(***************************************************************************)
(* Properties.                                                             *)
(***************************************************************************)

TypeOK ==
  /\ data \in [Indices -> Items]
  /\ head \in Indices /\ tail \in Indices
  /\ unlocked \in BOOLEAN
  /\ writer \in {"idle", "check", "copy"}
  /\ remaining \in 0..MaxOutput
  /\ Len(chunk) <= ChunkSize
  /\ copied \in 0..ChunkSize
  /\ reader \in {"idle", "copy"}
  /\ to_read \in 0..Request
  /\ Len(stream) <= Request

\* The two memcpys never touch the same item at the same time, which would be
\* a data race: neither thread holds a lock while it copies.
RaceFree ==
  writer = "copy" /\ reader = "copy" =>
    \A i \in copied..Len(chunk) - 1, j \in Len(stream)..to_read - 1 :
      Slot(tail, i) # Slot(head, j)

\* What the device was promised when its callback looked stays there, and what
\* the emulator was promised stays free, however far the other thread gets.
PromisesKept ==
  /\ reader = "copy" => to_read <= ReadAvailable
  /\ writer = "copy" => Len(chunk) <= WriteRemaining

\* The items between head and tail.
Contents == [i \in 1..ReadAvailable |-> data[Slot(head, i - 1)]]

Queue == INSTANCE BoundedQueue WITH
           Capacity <- Size - 1, queue <- Contents

\* Every chunk is appended whole, and every callback gets the oldest samples, in
\* order, once each.
ImplementsQueue == Queue!Spec

\* A flush ends, so that the emulator does not spin for ever, as long as the
\* device goes on taking samples.
FlushEnds == writer = "check" ~> writer = "idle"
================================================================================
