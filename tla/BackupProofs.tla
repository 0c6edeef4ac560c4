----------------------------- MODULE BackupProofs -----------------------------
(***************************************************************************)
(* What holds of the save memories for every debounce time, all values and *)
(* every order of writes, frames and requests.                             *)
(***************************************************************************)
EXTENDS Backup, TLAPS

\* A change that has not been seen by a frame.
Fresh(m) == dirty[m] /\ quiet[m] = 0

\* A change whose counter is running: it tells how many frames ago it was.
Counting(m) ==
  /\ ~dirty[m]
  /\ quiet[m] \in 1..(SAVE_DATA_DEBOUNCE_FRAMES + 1)
  /\ debounce[m] = SAVE_DATA_DEBOUNCE_FRAMES + 1 - quiet[m]

Tracked == status = "running" => \A m \in Memories : OnDisk(m) \/ Fresh(m) \/ Counting(m)

\* The program does not run while the screen is updated, so that it leaves no mark.
CleanOnScreen == status = "running" /\ screen => \A m \in Memories : ~dirty[m]

\* A memory that is not there has not been changed.
AbsentIsQuiet == \A m \in Memories : data[m] = None => quiet[m] = MaxQuiet

Inv == TypeOK /\ Tracked /\ CleanOnScreen /\ AbsentIsQuiet /\ QuitLosesOnlyTheEdges

LEMMA MaxQuietType == MaxQuiet \in Nat /\ MaxQuiet = SAVE_DATA_DEBOUNCE_FRAMES + 2
  BY BackupAssumption DEF MaxQuiet

-----------------------------------------------------------------------------
\* What persist leaves has its type, for counters that have theirs.
LEMMA PersistType ==
  ASSUME TypeOK, NEW c \in [Memories -> -1..SAVE_DATA_DEBOUNCE_FRAMES], Persist(c)
  PROVE  /\ dirty' = [m \in Memories |-> FALSE]
         /\ dirty' \in [Memories -> BOOLEAN]
         /\ debounce' \in [Memories -> -1..SAVE_DATA_DEBOUNCE_FRAMES]
         /\ file' \in [Memories -> Values \cup {Truncated}]
         /\ \A m \in Memories :
              /\ debounce'[m] = IF dirty[m] THEN SAVE_DATA_DEBOUNCE_FRAMES
                                ELSE IF c[m] >= 0 THEN c[m] - 1 ELSE c[m]
              /\ file'[m] = IF ~dirty[m] /\ c[m] = 0 THEN Written(m) ELSE file[m]
<1>1. \A m \in Memories :
        debounce'[m] = IF dirty[m] THEN SAVE_DATA_DEBOUNCE_FRAMES
                       ELSE IF c[m] >= 0 THEN c[m] - 1 ELSE c[m]
  BY DEF Persist, Counter
<1>2. \A m \in Memories : debounce'[m] \in -1..SAVE_DATA_DEBOUNCE_FRAMES
  BY <1>1, BackupAssumption
<1>3. debounce' \in [Memories -> -1..SAVE_DATA_DEBOUNCE_FRAMES]
  BY <1>2 DEF Persist, Counter
<1>4. \A m \in Memories :
        file'[m] = IF ~dirty[m] /\ c[m] = 0 THEN Written(m) ELSE file[m]
  BY DEF Persist, Due
<1>5. \A m \in Memories : Written(m) \in Values \cup {Truncated}
  BY DEF Written, TypeOK
<1>6. file' \in [Memories -> Values \cup {Truncated}]
  BY <1>5 DEF Persist, TypeOK
<1>7. dirty' = [m \in Memories |-> FALSE] /\ dirty' \in [Memories -> BOOLEAN]
  BY DEF Persist
<1> QED
  BY <1>1, <1>3, <1>4, <1>6, <1>7

LEMMA ForcedType ==
  ASSUME TypeOK
  PROVE  Forced \in [Memories -> -1..SAVE_DATA_DEBOUNCE_FRAMES]
  BY BackupAssumption DEF Forced, TypeOK

\* force_persist_backup: the types, and what it does to one memory.
LEMMA ForcePersistType ==
  ASSUME TypeOK, ForcePersist
  PROVE  /\ dirty' \in [Memories -> BOOLEAN]
         /\ debounce' \in [Memories -> -1..SAVE_DATA_DEBOUNCE_FRAMES]
         /\ file' \in [Memories -> Values \cup {Truncated}]
         /\ \A m \in Memories :
              /\ dirty'[m] => dirty[m]
              /\ file'[m] = file[m] \/ file'[m] = Written(m)
              /\ ~dirty[m] /\ debounce[m] > 0 => file'[m] = Written(m)
<1>1. CASE Unsaved = {}
  <2>1. \A m \in Memories : ~(debounce[m] > 0)
    BY <1>1 DEF Unsaved
  <2> QED
    BY <1>1, <2>1 DEF ForcePersist, TypeOK
<1>2. CASE Unsaved # {}
  <2>1. Persist(Forced)
    BY <1>2 DEF ForcePersist
  <2>2. \A m \in Memories : debounce[m] > 0 => Forced[m] = 0
    BY DEF Forced, Unsaved
  <2> QED
    BY <2>1, <2>2, ForcedType, PersistType
<1> QED
  BY <1>1, <1>2

-----------------------------------------------------------------------------
LEMMA InitInv == Init => Inv
<1> SUFFICES ASSUME Init PROVE Inv
  OBVIOUS
<1>1. TypeOK
  <2>1. data \in [Memories -> Values \cup {None}]
    BY DEF Init, Memories
  <2>2. debounce \in [Memories -> -1..SAVE_DATA_DEBOUNCE_FRAMES]
    BY BackupAssumption DEF Init
  <2>3. quiet \in [Memories -> 0..MaxQuiet]
    BY MaxQuietType DEF Init
  <2> QED
    BY <2>1, <2>2, <2>3 DEF Init, TypeOK
<1>2. \A m \in Memories : OnDisk(m) /\ quiet[m] = MaxQuiet
  BY DEF Init, OnDisk, Memories
<1> QED
  BY <1>1, <1>2 DEF Init, Inv, Tracked, CleanOnScreen, AbsentIsQuiet, QuitLosesOnlyTheEdges

LEMMA LoadMempakKeepsInv == ASSUME Inv, LoadMempak PROVE Inv'
<1>1. CASE file["mempak"] = Truncated
  <2>1. status' = "fatal" /\ UNCHANGED <<data, dirty, debounce, file, screen, quiet>>
    BY <1>1 DEF LoadMempak
  <2>2. TypeOK'
    BY <2>1 DEF Inv, TypeOK
  <2> QED
    BY <2>1, <2>2 DEF Inv, Tracked, CleanOnScreen, AbsentIsQuiet, QuitLosesOnlyTheEdges
<1>2. CASE file["mempak"] # Truncated
  <2>1. /\ data' = [data EXCEPT !["mempak"] = file["mempak"]]
        /\ status = "running"
        /\ UNCHANGED <<status, dirty, debounce, file, screen, quiet>>
    BY <1>2 DEF LoadMempak, Executing
  <2>2. TypeOK'
    BY <1>2, <2>1 DEF Inv, TypeOK, Memories
  <2>3. ASSUME NEW m \in Memories
        PROVE  /\ (OnDisk(m) \/ Fresh(m) \/ Counting(m))'
               /\ data'[m] = None => data[m] = None
    <3>1. CASE m = "mempak"
      BY <1>2, <2>1, <3>1, BackupAssumption DEF Inv, TypeOK, OnDisk
    <3>2. CASE m # "mempak"
      BY <2>1, <3>2 DEF Inv, TypeOK, Tracked, OnDisk, Fresh, Counting
    <3> QED
      BY <3>1, <3>2
  <2> QED
    BY <2>1, <2>2, <2>3 DEF Inv, Tracked, CleanOnScreen, AbsentIsQuiet, QuitLosesOnlyTheEdges
<1> QED
  BY <1>1, <1>2

LEMMA WriteKeepsInv ==
  ASSUME Inv, NEW w \in Memories, NEW v \in Values, Write(w, v)
  PROVE  Inv'
<1>1. /\ data[w] # None /\ status = "running" /\ ~screen
      /\ data' = [data EXCEPT ![w] = v]
      /\ dirty' = [dirty EXCEPT ![w] = dirty[w] \/ w = "save" \/ v # data[w]]
      /\ quiet' = [quiet EXCEPT ![w] = IF w = "save" \/ v # data[w] THEN 0 ELSE quiet[w]]
      /\ UNCHANGED <<debounce, file, status, screen>>
  BY DEF Write, Executing
<1>2. TypeOK'
  <2>1. quiet' \in [Memories -> 0..MaxQuiet]
    BY <1>1, MaxQuietType DEF Inv, TypeOK
  <2>2. dirty' \in [Memories -> BOOLEAN]
    BY <1>1 DEF Inv, TypeOK
  <2> QED
    BY <1>1, <2>1, <2>2 DEF Inv, TypeOK
<1>3. ASSUME NEW m \in Memories
      PROVE  /\ (OnDisk(m) \/ Fresh(m) \/ Counting(m))'
             /\ data'[m] = None => quiet'[m] = MaxQuiet
  <2>1. CASE m = w /\ (w = "save" \/ v # data[w])
    <3>1. dirty'[m] /\ quiet'[m] = 0 /\ data'[m] = v
      BY <1>1, <2>1 DEF Inv, TypeOK
    <3> QED
      BY <3>1, BackupAssumption DEF Fresh
  <2>2. CASE m = w /\ w # "save" /\ v = data[w]
    <3>1. dirty'[m] = dirty[m] /\ quiet'[m] = quiet[m] /\ data'[m] = data[m]
      BY <1>1, <2>2 DEF Inv, TypeOK
    <3> QED
      BY <1>1, <3>1 DEF Inv, Tracked, AbsentIsQuiet, OnDisk, Fresh, Counting
  <2>3. CASE m # w
    <3>1. dirty'[m] = dirty[m] /\ quiet'[m] = quiet[m] /\ data'[m] = data[m]
      BY <1>1, <2>3 DEF Inv, TypeOK
    <3> QED
      BY <1>1, <3>1 DEF Inv, Tracked, AbsentIsQuiet, OnDisk, Fresh, Counting
  <2> QED
    BY <2>1, <2>2, <2>3
<1> QED
  BY <1>1, <1>2, <1>3 DEF Inv, Tracked, CleanOnScreen, AbsentIsQuiet, QuitLosesOnlyTheEdges

LEMMA FrameKeepsInv == ASSUME Inv, Frame PROVE Inv'
<1>1. /\ status = "running" /\ ~screen /\ screen' = TRUE
      /\ Persist(debounce)
      /\ status' \in {"running", "crashed"}
      /\ quiet' = [m \in Memories |-> IF quiet[m] < MaxQuiet THEN quiet[m] + 1 ELSE MaxQuiet]
      /\ data' = data
  BY DEF Frame, Executing
<1>2. debounce \in [Memories -> -1..SAVE_DATA_DEBOUNCE_FRAMES] /\ TypeOK
  BY DEF Inv, TypeOK
<1>3. /\ dirty' \in [Memories -> BOOLEAN]
      /\ debounce' \in [Memories -> -1..SAVE_DATA_DEBOUNCE_FRAMES]
      /\ file' \in [Memories -> Values \cup {Truncated}]
      /\ \A m \in Memories :
           /\ ~dirty'[m]
           /\ debounce'[m] = IF dirty[m] THEN SAVE_DATA_DEBOUNCE_FRAMES
                             ELSE IF debounce[m] >= 0 THEN debounce[m] - 1 ELSE debounce[m]
           /\ file'[m] = IF ~dirty[m] /\ debounce[m] = 0 THEN Written(m) ELSE file[m]
  BY <1>1, <1>2, PersistType
<1>4. TypeOK'
  <2>1. quiet' \in [Memories -> 0..MaxQuiet]
    BY <1>1, <1>2, MaxQuietType DEF TypeOK
  <2> QED
    BY <1>1, <1>2, <1>3, <2>1 DEF TypeOK
<1>5. ASSUME NEW m \in Memories PROVE (OnDisk(m) \/ Fresh(m) \/ Counting(m))'
  <2>0. /\ quiet[m] \in 0..MaxQuiet
        /\ quiet'[m] = IF quiet[m] < MaxQuiet THEN quiet[m] + 1 ELSE MaxQuiet
    BY <1>1, <1>2 DEF TypeOK
  <2>1. CASE OnDisk(m)
    BY <1>1, <1>3, <2>1 DEF OnDisk, Written
  <2>2. CASE Fresh(m)
    BY <1>3, <2>0, <2>2, MaxQuietType, BackupAssumption DEF Fresh, Counting
  <2>3. CASE Counting(m) /\ quiet[m] <= SAVE_DATA_DEBOUNCE_FRAMES
    BY <1>3, <2>0, <2>3, MaxQuietType, BackupAssumption DEF Counting
  <2>4. CASE Counting(m) /\ quiet[m] > SAVE_DATA_DEBOUNCE_FRAMES
    <3>1. ~dirty[m] /\ debounce[m] = 0
      BY <2>4, BackupAssumption DEF Counting
    <3> QED
      BY <1>1, <1>3, <3>1 DEF OnDisk, Written
  <2>5. Counting(m) => quiet[m] \in Int /\ SAVE_DATA_DEBOUNCE_FRAMES \in Int
    BY BackupAssumption DEF Counting
  <2>6. OnDisk(m) \/ Fresh(m) \/ Counting(m)
    BY <1>1 DEF Inv, Tracked
  <2> QED
    BY <2>1, <2>2, <2>3, <2>4, <2>5, <2>6
<1>6. AbsentIsQuiet'
  BY <1>1, MaxQuietType DEF Inv, AbsentIsQuiet
<1> QED
  BY <1>1, <1>3, <1>4, <1>5, <1>6 DEF Inv, Tracked, CleanOnScreen, QuitLosesOnlyTheEdges

\* Quitting: what is counting and not at its last frame is written.
LEMMA QuitKeepsInv == ASSUME Inv, Quit PROVE Inv'
<1>1. /\ status = "running" /\ ForcePersist /\ UNCHANGED <<data, screen, quiet>>
      /\ status' \in {"crashed", "quit"}
  BY DEF Quit, Requested
<1>2. /\ dirty' \in [Memories -> BOOLEAN]
      /\ debounce' \in [Memories -> -1..SAVE_DATA_DEBOUNCE_FRAMES]
      /\ file' \in [Memories -> Values \cup {Truncated}]
      /\ \A m \in Memories :
           /\ file'[m] = file[m] \/ file'[m] = Written(m)
           /\ ~dirty[m] /\ debounce[m] > 0 => file'[m] = Written(m)
  BY <1>1, ForcePersistType DEF Inv
<1>3. TypeOK'
  BY <1>1, <1>2 DEF Inv, TypeOK
<1>4. ASSUME NEW m \in Memories
      PROVE  \/ OnDisk(m)'
             \/ quiet'[m] = SAVE_DATA_DEBOUNCE_FRAMES + 1
             \/ quiet'[m] = 0 /\ ~screen'
  <2>1. CASE OnDisk(m)
    BY <1>1, <1>2, <2>1 DEF OnDisk, Written
  <2>2. CASE Fresh(m)
    BY <1>1, <2>2 DEF Inv, CleanOnScreen, Fresh
  <2>3. CASE Counting(m) /\ quiet[m] # SAVE_DATA_DEBOUNCE_FRAMES + 1
    <3>1. ~dirty[m] /\ debounce[m] > 0
      BY <2>3, BackupAssumption DEF Counting
    <3> QED
      BY <1>1, <1>2, <3>1 DEF OnDisk, Written
  <2>4. OnDisk(m) \/ Fresh(m) \/ Counting(m)
    BY <1>1 DEF Inv, Tracked
  <2> QED
    BY <1>1, <2>1, <2>2, <2>3, <2>4
<1> QED
  BY <1>1, <1>3, <1>4 DEF Inv, Tracked, CleanOnScreen, AbsentIsQuiet, QuitLosesOnlyTheEdges

\* A reset: the memories are loaded again, so that they are on disk.
LEMMA ResetKeepsInv == ASSUME Inv, Reset PROVE Inv'
<1>1. /\ status = "running" /\ ForcePersist /\ UNCHANGED screen
      /\ quiet' = [m \in Memories |-> MaxQuiet]
      /\ status' \in {"running", "crashed", "fatal"}
      /\ \/ status' # "running" /\ data' = data
         \/ status' # "running" /\ data' = [m \in Memories |-> None]
         \/ /\ file'["save"] # Truncated
            /\ data' = [save |-> file'["save"], mempak |-> None]
  BY DEF Reset, Requested
<1>2. /\ dirty' \in [Memories -> BOOLEAN]
      /\ debounce' \in [Memories -> -1..SAVE_DATA_DEBOUNCE_FRAMES]
      /\ file' \in [Memories -> Values \cup {Truncated}]
      /\ \A m \in Memories : dirty'[m] => dirty[m]
  BY <1>1, ForcePersistType DEF Inv
<1>3. TypeOK'
  <2>1. quiet' \in [Memories -> 0..MaxQuiet]
    BY <1>1, MaxQuietType
  <2>2. data' \in [Memories -> Values \cup {None}]
    BY <1>1, <1>2 DEF Inv, TypeOK, Memories
  <2> QED
    BY <1>1, <1>2, <2>1, <2>2 DEF Inv, TypeOK
<1>4. status' = "running" => \A m \in Memories : OnDisk(m)'
  BY <1>1 DEF OnDisk, Memories
<1>5. CleanOnScreen'
  BY <1>1, <1>2 DEF Inv, CleanOnScreen
<1>6. AbsentIsQuiet'
  BY <1>1 DEF AbsentIsQuiet
<1> QED
  BY <1>1, <1>3, <1>4, <1>5, <1>6 DEF Inv, Tracked, QuitLosesOnlyTheEdges

LEMMA NextKeepsInv == Inv /\ [Next]_vars => Inv'
<1> SUFFICES ASSUME Inv, [Next]_vars PROVE Inv'
  OBVIOUS
<1>1. CASE FrameDone
  <2>1. status = "running" /\ UNCHANGED <<data, dirty, debounce, file, status, quiet>>
        /\ screen' = FALSE
    BY <1>1 DEF FrameDone
  <2>2. TypeOK'
    BY <2>1 DEF Inv, TypeOK
  <2> QED
    BY <2>1, <2>2 DEF Inv, Tracked, CleanOnScreen, AbsentIsQuiet, QuitLosesOnlyTheEdges,
                      OnDisk, Fresh, Counting
<1>2. CASE UNCHANGED vars
  BY <1>2 DEF vars, Inv, TypeOK, Tracked, CleanOnScreen, AbsentIsQuiet,
              QuitLosesOnlyTheEdges, OnDisk, Fresh, Counting
<1> QED
  BY <1>1, <1>2, LoadMempakKeepsInv, WriteKeepsInv, FrameKeepsInv, QuitKeepsInv,
     ResetKeepsInv DEF Next

LEMMA SpecInv == Spec => []Inv
  BY InitInv, NextKeepsInv, PTL DEF Spec

-----------------------------------------------------------------------------
\* The counters stay between -1 and the debounce time, whatever is forced or written
\* when (backup.c:331-343).
THEOREM TypeCorrect == Spec => []TypeOK
<1>1. Inv => TypeOK
  BY DEF Inv
<1> QED
  BY SpecInv, <1>1, PTL

\* A memory left alone is on disk two frames after the debounce time.
THEOREM LeftAloneIsSaved == Spec => []SavedInTime
<1>1. Inv => SavedInTime
  BY BackupAssumption, MaxQuietType DEF Inv, Tracked, SavedInTime, Fresh, Counting
<1> QED
  BY SpecInv, <1>1, PTL

\* Quitting loses no more than what QuitLosesOnlyTheEdges names (backup.c:361-376).
THEOREM QuitLosesLittle == Spec => []QuitLosesOnlyTheEdges
<1>1. Inv => QuitLosesOnlyTheEdges
  BY DEF Inv
<1> QED
  BY SpecInv, <1>1, PTL

\* A reset loses no more than that (backup.c:361-376, n64system.c:126-135).
THEOREM ResetLosesLittle == Spec => ResetLosesOnlyTheEdges
<1> DEFINE Kept == \A m \in Memories :
                     \/ data[m] = None \/ file'[m] = data[m]
                     \/ quiet[m] = SAVE_DATA_DEBOUNCE_FRAMES + 1
                     \/ quiet[m] = 0 /\ ~screen
<1>1. ASSUME Inv, Reset PROVE Kept
  <2>1. status = "running" /\ ForcePersist
    BY <1>1 DEF Reset, Requested
  <2>2. \A m \in Memories :
          /\ file'[m] = file[m] \/ file'[m] = Written(m)
          /\ ~dirty[m] /\ debounce[m] > 0 => file'[m] = Written(m)
    BY <1>1, <2>1, ForcePersistType DEF Inv
  <2>3. ASSUME NEW m \in Memories, data[m] # None
        PROVE  \/ file'[m] = data[m]
               \/ quiet[m] = SAVE_DATA_DEBOUNCE_FRAMES + 1
               \/ quiet[m] = 0 /\ ~screen
    <3>1. Written(m) = data[m]
      BY <2>3 DEF Written
    <3>2. CASE OnDisk(m)
      BY <2>2, <2>3, <3>1, <3>2 DEF OnDisk
    <3>3. CASE Fresh(m)
      BY <1>1, <2>1, <3>3 DEF Inv, CleanOnScreen, Fresh
    <3>4. CASE Counting(m) /\ quiet[m] # SAVE_DATA_DEBOUNCE_FRAMES + 1
      <4>1. ~dirty[m] /\ debounce[m] > 0
        BY <3>4, BackupAssumption DEF Counting
      <4> QED
        BY <2>2, <3>1, <4>1
    <3>5. OnDisk(m) \/ Fresh(m) \/ Counting(m)
      BY <1>1, <2>1 DEF Inv, Tracked
    <3> QED
      BY <3>2, <3>3, <3>4, <3>5
  <2> QED
    BY <2>3
<1>2. Inv /\ [Next]_vars => [Reset => Kept]_vars
  BY <1>1
<1> QED
  BY SpecInv, <1>2, PTL DEF Spec, ResetLosesOnlyTheEdges

\* A frame writes no file of a memory that was changed within the debounce time
\* (backup.c:331-343).
THEOREM NothingSavedHalfway == Spec => NotSavedHalfway
<1> DEFINE Late == \A m \in Memories :
                     file'[m] # file[m] => quiet[m] > SAVE_DATA_DEBOUNCE_FRAMES
<1>1. ASSUME Inv, Frame PROVE Late
  <2>1. status = "running" /\ Persist(debounce)
    BY <1>1 DEF Frame, Executing
  <2>2. \A m \in Memories :
          file'[m] = IF ~dirty[m] /\ debounce[m] = 0 THEN Written(m) ELSE file[m]
    BY <1>1, <2>1, PersistType DEF Inv, TypeOK
  <2>3. ASSUME NEW m \in Memories, file'[m] # file[m]
        PROVE  quiet[m] > SAVE_DATA_DEBOUNCE_FRAMES
    <3>1. ~dirty[m] /\ debounce[m] = 0 /\ Written(m) # file[m]
      BY <2>2, <2>3
    <3>2. CASE data[m] = None
      BY <1>1, <3>2, MaxQuietType, BackupAssumption DEF Inv, AbsentIsQuiet
    <3>3. CASE data[m] # None
      <4>1. Counting(m)
        BY <1>1, <2>1, <3>1, <3>3 DEF Inv, Tracked, OnDisk, Fresh, Written
      <4> QED
        BY <3>1, <4>1, BackupAssumption DEF Counting
    <3> QED
      BY <3>2, <3>3
  <2> QED
    BY <2>3
<1>2. Inv /\ [Next]_vars => [Frame => Late]_vars
  BY <1>1
<1> QED
  BY SpecInv, <1>2, PTL DEF Spec, NotSavedHalfway
===============================================================================
