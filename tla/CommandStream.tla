---------------------------- MODULE CommandStream ----------------------------
(***************************************************************************)
(* What the RDP does with what it is fed, whoever feeds it and in however  *)
(* many pieces: the dwords are one stream, the stream is a sequence of     *)
(* commands, and a command is run when all of it has arrived.              *)
(***************************************************************************)
EXTENDS Integers, Sequences, SequencesExt

CONSTANTS
  Commands,  \* what the first dword of a command may say
  Length     \* how many dwords a command takes

VARIABLES
  stream,    \* the dwords that have arrived
  executed   \* the commands that have been run, each with its dwords

IsWhole(command)  == command # <<>> /\ Len(command) = Length[Head(command)]
IsPartial(dwords) == dwords = <<>> \/ Len(dwords) < Length[Head(dwords)]

\* The commands so far are the stream, but for a piece of the next one.
IsUpToDate ==
  LET all == FlattenSeq(executed)
  IN  /\ \A i \in DOMAIN executed : IsWhole(executed[i])
      /\ IsPrefix(all, stream)
      /\ IsPartial(SubSeq(stream, Len(all) + 1, Len(stream)))

Init ==
  /\ stream = <<>>
  /\ executed = <<>>

Feed ==
  /\ IsStrictPrefix(stream, stream')
  /\ IsPrefix(executed, executed')
  /\ IsUpToDate'

Next == Feed

Spec == Init /\ [][Next]_<<stream, executed>>
=============================================================================
