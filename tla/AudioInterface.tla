---------------------------- MODULE AudioInterface ----------------------------
(***************************************************************************)
(* The two DMA buffers of the audio interface (src/interface/ai.c).  The   *)
(* program queues a buffer with two writes, its address and its length;    *)
(* the device plays the first buffer a sample at a time and moves the      *)
(* second one up when it ends, which may happen between the two writes.    *)
(*                                                                         *)
(* Addresses and lengths count samples, 4 bytes each; an address is a page *)
(* and an offset that is incremented with a carry into the next sample.    *)
(***************************************************************************)
EXTENDS Integers, Sequences

CONSTANTS
  Pages,      \* 2^11
  PageSize,   \* 2^13 bytes
  Addresses,  \* what the program writes to AI_DRAM_ADDR
  Lengths     \* what it writes to AI_LEN

ASSUME AudioConstants ==
  /\ Pages \in Nat \ {0} /\ PageSize \in Nat \ {0}
  /\ Addresses \subseteq 0..Pages * PageSize - 1
  /\ Lengths \subseteq Nat

VARIABLES
  dma_count,          \* buffers in use
  dma_address,        \* of the two
  dma_length,
  dma_address_carry,
  intr,               \* the AI's line of the MI is up
  address,            \* the address written last (history)
  addressed,          \* and dma_count at that moment; None when it was used
  asked,              \* the buffers asked for, and whether one ended meanwhile
  offset,             \* samples played of the first one
  carried             \* a carry was left when it became the first one

registers == <<dma_count, dma_address, dma_length, dma_address_carry>>
history   == <<address, addressed, asked, offset, carried>>
ai_vars   == <<registers, intr, history>>

None == -1
Memory == Pages * PageSize

AiInit ==
  /\ dma_count = 0
  /\ dma_address = <<0, 0>> /\ dma_length = <<0, 0>>
  /\ dma_address_carry = FALSE
  /\ intr = FALSE
  /\ address = 0 /\ addressed = None
  /\ asked = << >> /\ offset = 0 /\ carried = FALSE

(***************************************************************************)
(* The program.  Both writes go to the first slot not in use.              *)
(***************************************************************************)
WriteDramAddr(value) ==
  /\ dma_address' = IF dma_count < 2 THEN [dma_address EXCEPT ![dma_count + 1] = value]
                                     ELSE dma_address
  /\ address' = value /\ addressed' = dma_count
  /\ UNCHANGED <<dma_count, dma_length, dma_address_carry, intr, asked, offset, carried>>

\* mutant: an empty buffer is queued
AcceptsAny(length) == dma_count < 2

Accepts(length) == dma_count < 2 /\ length # 0

WriteLen(length) ==
  /\ Accepts(length)
  /\ dma_length' = [dma_length EXCEPT ![dma_count + 1] = length]
  /\ dma_count' = dma_count + 1
  /\ asked' = Append(asked, [address |-> address, length |-> length,
                             undisturbed |-> addressed = dma_count])
  /\ addressed' = None
  /\ UNCHANGED <<dma_address, dma_address_carry, intr, address, offset, carried>>

WriteLenIgnored(length) ==
  /\ ~Accepts(length)
  /\ UNCHANGED ai_vars

WriteStatus ==
  /\ intr' = FALSE
  /\ UNCHANGED <<registers, history>>

(***************************************************************************)
(* The device.                                                             *)
(***************************************************************************)

\* mutant: the carry is lost
SampleAddressUncarried == dma_address[1]

Carry == IF dma_address_carry THEN 1 ELSE 0

\* The address this sample is read from: the carry of the last one is added to
\* the page now.
SampleAddress ==
  LET page == (dma_address[1] \div PageSize + Carry) % Pages
  IN  page * PageSize + (dma_address[1] % PageSize)

Following(a) == (a \div PageSize) * PageSize + ((a + 1) % PageSize)

\* mutant: the second buffer's length is not moved up
MoveUpAddress ==
  /\ dma_address' = <<dma_address[2], dma_address[2]>>
  /\ dma_length' = [dma_length EXCEPT ![1] = 0]

MoveUp ==
  /\ dma_address' = <<dma_address[2], dma_address[2]>>
  /\ dma_length' = <<dma_length[2], dma_length[2]>>

Ends == dma_length[1] = 1

Sample ==
  /\ dma_count > 0
  /\ dma_address_carry' = (Following(SampleAddress) % PageSize = 0)
  /\ dma_count' = IF Ends THEN dma_count - 1 ELSE dma_count
  /\ IF Ends /\ dma_count > 1
       THEN MoveUp
       ELSE /\ dma_address' = [dma_address EXCEPT ![1] = Following(SampleAddress)]
            /\ dma_length' = [dma_length EXCEPT ![1] = @ - 1]
  /\ intr' = (intr \/ Ends)
  /\ IF Ends
       THEN asked' = Tail(asked) /\ offset' = 0 /\ carried' = dma_address_carry'
       ELSE offset' = offset + 1 /\ UNCHANGED <<asked, carried>>
  /\ UNCHANGED <<address, addressed>>

AiNext ==
  \/ \E value \in Addresses : WriteDramAddr(value)
  \/ \E length \in Lengths : WriteLen(length) \/ WriteLenIgnored(length)
  \/ WriteStatus
  \/ Sample

AiSpec == AiInit /\ [][AiNext]_ai_vars

(***************************************************************************)
(* Properties.                                                             *)
(***************************************************************************)
AiTypeOK ==
  /\ dma_count \in 0..2
  /\ dma_address \in [1..2 -> 0..Memory - 1]
  /\ dma_length \in [1..2 -> Nat]
  /\ dma_address_carry \in BOOLEAN /\ intr \in BOOLEAN
  /\ address \in Addresses \cup {0} /\ addressed \in {None} \cup 0..2
  /\ asked \in Seq([address : Addresses \cup {0}, length : Nat, undisturbed : BOOLEAN])
  /\ offset \in Nat /\ carried \in BOOLEAN

\* AI_STATUS counts the buffers asked for and not played to the end, and AI_LEN
\* is what remains of the first, 0 when there is none.
RegistersTellTheTruth ==
  /\ dma_count = Len(asked)
  /\ dma_length[1] = (IF asked = << >> THEN 0 ELSE Head(asked).length - offset)
  /\ Len(asked) = 2 => dma_length[2] = asked[2].length

\* A buffer whose two writes were not separated by the end of another one is
\* played from where the program said, through every page it covers, with one
\* exception: after a buffer that ended with its page it begins a page later.
PlaysWhatWasAsked ==
  asked # << >> /\ Head(asked).undisturbed =>
    SampleAddress = (Head(asked).address + offset + (IF carried THEN PageSize ELSE 0)) % Memory
===============================================================================
