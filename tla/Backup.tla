-------------------------------- MODULE Backup --------------------------------
(***************************************************************************)
(* The save memory of the cartridge and the memory pak, and how they reach *)
(* their files (src/mem/backup.c): a write marks the memory dirty, once a  *)
(* frame persist_backup looks at it, and it is written to its file when it *)
(* has been left alone for SAVE_DATA_DEBOUNCE_FRAMES.  Quitting and        *)
(* resetting write it at once (force_persist_backup).                      *)
(*                                                                         *)
(* The frames are those of a system with a video backend; the loop is that *)
(* of the JIT (n64system.c:366-392).                                       *)
(***************************************************************************)
EXTENDS Integers

CONSTANTS
  Values,                     \* what a memory can hold
  SAVE_DATA_DEBOUNCE_FRAMES,
  Asynchronous                \* whether requests may come at any time: from the
                              \* HTTP API, a TAS movie, the Qt thread

None      == "none"        \* the pointer is NULL
Truncated == "truncated"   \* the file was opened for writing and not written

ASSUME BackupAssumption ==
  /\ Values # {} /\ None \notin Values /\ Truncated \notin Values
  /\ SAVE_DATA_DEBOUNCE_FRAMES \in Nat \ {0}
  /\ Asynchronous \in BOOLEAN

VARIABLES
  data,      \* mem.save_data and mem.mempak_data
  dirty,     \* ..._dirty
  debounce,  \* ..._debounce_counter
  file,      \* the contents of the files
  status,    \* of the emulator
  screen,    \* rdp_update_screen is running: the windows are drawn and polled
  quiet      \* frames since each memory was last changed (history)

vars == <<data, dirty, debounce, file, status, screen, quiet>>

Memories == {"save", "mempak"}

\* The history is not followed beyond the moment a memory must be on disk.
MaxQuiet == SAVE_DATA_DEBOUNCE_FRAMES + 2

(***************************************************************************)
(* persist for both memories, when their counters are c.  A memory is due  *)
(* when it is clean and its counter is 0.                                  *)
(***************************************************************************)

Due(c) == {m \in Memories : ~dirty[m] /\ c[m] = 0}

\* mutant: the counter is not restarted by a write that comes while it runs
CounterNotRestarted(c) ==
  [m \in Memories |->
     IF dirty[m] /\ c[m] < 0 THEN SAVE_DATA_DEBOUNCE_FRAMES
     ELSE IF c[m] >= 0 THEN c[m] - 1 ELSE c[m]]

\* mutant: the counter stops at 1
CounterStops(c) ==
  [m \in Memories |->
     IF dirty[m] THEN SAVE_DATA_DEBOUNCE_FRAMES
     ELSE IF c[m] > 1 THEN c[m] - 1 ELSE c[m]]

Counter(c) ==
  [m \in Memories |->
     IF dirty[m] THEN SAVE_DATA_DEBOUNCE_FRAMES
     ELSE IF c[m] >= 0 THEN c[m] - 1 ELSE c[m]]

\* fopen(..., "wb") empties the file; fwrite of a NULL pointer ends there.
Written(m) == IF data[m] = None THEN Truncated ELSE data[m]

\* mutant: the wrong buffer is written
PersistSwapped(c) ==
  /\ dirty'    = [m \in Memories |-> FALSE]
  /\ debounce' = Counter(c)
  /\ file'     = [m \in Memories |-> IF m \in Due(c) THEN Written("save") ELSE file[m]]

Persist(c) ==
  /\ dirty'    = [m \in Memories |-> FALSE]
  /\ debounce' = Counter(c)
  /\ file'     = [m \in Memories |-> IF m \in Due(c) THEN Written(m) ELSE file[m]]

Crashes(c) == \E m \in Due(c) : data[m] = None

\* mutant: quitting only looks at the memories that are dirty
UnsavedIfDirty == {m \in Memories : dirty[m]}

Unsaved == {m \in Memories : dirty[m] \/ debounce[m] > 0}

\* The counters force_persist_backup hands to persist_backup.
Forced == [m \in Memories |-> IF m \in Unsaved THEN 0 ELSE debounce[m]]

ForceCrashes == Unsaved # {} /\ Crashes(Forced)

ForcePersist ==
  IF Unsaved = {}
    THEN UNCHANGED <<dirty, debounce, file>>
    ELSE Persist(Forced)

(***************************************************************************)
(* The actions.                                                            *)
(***************************************************************************)

\* The program of the console runs.
Executing == status = "running" /\ ~screen

\* The user's requests are seen while the screen is updated.
Requested == status = "running" /\ (screen \/ Asynchronous)

\* The memory pak is loaded from its file when it is first used; a file of
\* the wrong size stops the emulator.
LoadMempak ==
  /\ Executing
  /\ data["mempak"] = None
  /\ IF file["mempak"] = Truncated
       THEN status' = "fatal" /\ UNCHANGED data
       ELSE data' = [data EXCEPT !["mempak"] = file["mempak"]] /\ UNCHANGED status
  /\ UNCHANGED <<dirty, debounce, file, screen, quiet>>

\* Writing what is already there marks the save memory but not the memory pak.
Write(m, v) ==
  /\ Executing
  /\ data[m] # None
  /\ data'  = [data EXCEPT ![m] = v]
  /\ dirty' = [dirty EXCEPT ![m] = dirty[m] \/ m = "save" \/ v # data[m]]
  /\ quiet' = [quiet EXCEPT ![m] = IF m = "save" \/ v # data[m] THEN 0 ELSE quiet[m]]
  /\ UNCHANGED <<debounce, file, status, screen>>

\* persist_backup, once a frame, just before rdp_update_screen
\* (n64system.c:267-272).
Frame ==
  /\ Executing
  /\ screen' = TRUE
  /\ Persist(debounce)
  /\ status' = IF Crashes(debounce) THEN "crashed" ELSE status
  /\ quiet'  = [m \in Memories |-> IF quiet[m] < MaxQuiet THEN quiet[m] + 1 ELSE MaxQuiet]
  /\ UNCHANGED data

FrameDone ==
  /\ status = "running" /\ screen
  /\ screen' = FALSE
  /\ UNCHANGED <<data, dirty, debounce, file, status, quiet>>

Quit ==
  /\ Requested
  /\ ForcePersist
  /\ status' = IF ForceCrashes THEN "crashed" ELSE "quit"
  /\ UNCHANGED <<data, screen, quiet>>

\* reset_n64system and n64_load_rom: the buffers are freed, and that of the
\* save memory is filled from its file again.
Reset ==
  /\ Requested
  /\ ForcePersist
  /\ IF ForceCrashes
       THEN status' = "crashed" /\ UNCHANGED data
       ELSE IF file'["save"] = Truncated
         THEN status' = "fatal" /\ data' = [m \in Memories |-> None]
         ELSE /\ data' = [save |-> file'["save"], mempak |-> None]
              /\ UNCHANGED status
  /\ quiet' = [m \in Memories |-> MaxQuiet]
  /\ UNCHANGED screen

Init ==
  /\ file \in [Memories -> Values]
  /\ data = [save |-> file["save"], mempak |-> None]
  /\ dirty = [m \in Memories |-> FALSE]
  /\ debounce = [m \in Memories |-> -1]
  /\ status = "running"
  /\ screen = FALSE
  /\ quiet = [m \in Memories |-> MaxQuiet]

Next ==
  \/ LoadMempak
  \/ \E m \in Memories, v \in Values : Write(m, v)
  \/ Frame
  \/ FrameDone
  \/ Quit
  \/ Reset

Spec == Init /\ [][Next]_vars

(***************************************************************************)
(* Properties.                                                             *)
(***************************************************************************)

TypeOK ==
  /\ data \in [Memories -> Values \cup {None}]
  /\ dirty \in [Memories -> BOOLEAN]
  /\ debounce \in [Memories -> -1..SAVE_DATA_DEBOUNCE_FRAMES]
  /\ file \in [Memories -> Values \cup {Truncated}]
  /\ status \in {"running", "quit", "crashed", "fatal"}
  /\ screen \in BOOLEAN
  /\ quiet \in [Memories -> 0..MaxQuiet]

OnDisk(m) == data[m] = None \/ file[m] = data[m]

\* A memory left alone is on disk after SAVE_DATA_DEBOUNCE_FRAMES + 2 frames, unless a
\* reset reads it from its file again before.
SavedInTime ==
  status = "running" => \A m \in Memories : quiet[m] = MaxQuiet => OnDisk(m)

\* A game that is still writing is not saved halfway: between two frames a
\* file changes only if its memory was left alone for the whole debounce time.
NotSavedHalfway ==
  [][Frame => \A m \in Memories :
       file'[m] # file[m] => quiet[m] > SAVE_DATA_DEBOUNCE_FRAMES]_vars

\* Quitting loses nothing but what was to be written in the very next frame,
\* and, when the request does not come from the screen, what was changed since
\* the last frame.
QuitLosesOnlyTheEdges ==
  status = "quit" =>
    \A m \in Memories :
      \/ OnDisk(m)
      \/ quiet[m] = SAVE_DATA_DEBOUNCE_FRAMES + 1
      \/ quiet[m] = 0 /\ ~screen

\* A reset reads the memories from their files again. What it loses of a memory that
\* has a buffer is the same: a change of the frame it comes in, when the request does
\* not come from the screen (force_persist_backup only starts its counter), and one
\* that was to be written in the very next frame (it looks at counters above 0).
ResetLosesOnlyTheEdges ==
  [][Reset => \A m \in Memories :
       \/ data[m] = None \/ file'[m] = data[m]
       \/ quiet[m] = SAVE_DATA_DEBOUNCE_FRAMES + 1
       \/ quiet[m] = 0 /\ ~screen]_vars

===============================================================================
