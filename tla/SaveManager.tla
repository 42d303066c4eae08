----------------------------- MODULE SaveManager -----------------------------
(***************************************************************************)
(* Battery saves on their way from the cartridge's save chip to the disk   *)
(* (src/src/frontend/qt_sdl/SaveManager.cpp), with the parts of the        *)
(* emulation thread that drive them: the chip (NDSCart.cpp), the flush     *)
(* check after every frame (EmuThread.cpp) and the savestate commands that *)
(* move the save file (EmuInstance.cpp).                                   *)
(*                                                                         *)
(*   chip -RequestFlush-> buffer -CheckFlush-> secondary -thread-> file    *)
(*                                                                         *)
(* RequestFlush copies the bytes written; CheckFlush takes a snapshot      *)
(* under the lock and counts it in FlushVersion; the save thread waits two *)
(* seconds after the last snapshot and writes it out.  The emulation       *)
(* thread may sit between two frames for as long as it is paused.          *)
(***************************************************************************)
EXTENDS Integers

CONSTANTS
  N,          \* bytes of the save chip
  MaxWrite,   \* bound: bytes written in one chip command
  MaxOps,     \* bound: chip commands and savestate commands in a behaviour
  Debounce,   \* clock ticks a snapshot must age before it is written (2 s)
  Null, Empty, \* no buffer allocated; a buffer or file of length zero
  Short        \* a buffer or file with some of the N bytes, but not all

ASSUME SizeAssumption ==
  /\ N \in Nat \ {0} /\ MaxWrite \in Nat \ {0} /\ MaxOps \in Nat
  /\ Debounce \in Nat \ {0}

VARIABLES
  emu,        \* the emulation thread: "frame", "messages" or shutting down
  ops,        \* commands so far
  chip,       \* SRAM of the cartridge
  state,      \* SRAM in the savestate file
  backup,     \* SRAM in EmuInstance::backupState
  path, previousSaveFile,
  buffer, flushRequested, secondary,
  flushVersion, previousFlushVersion,
  age,        \* time since TimeAtLastFlushRequest, NoTime when that is 0
  running,    \* SaveManager::Running
  lock,       \* holder of SecondaryBufferLock
  saver,      \* where the save thread, or the final flush, is
  target,     \* path of the file it opened last
  file,       \* the files on disk
  failed,     \* history: the last write could not be made, or not completely
  reloaded    \* history: buffer was read from a file, not from the chip

emuVars == <<emu, ops, chip, state, backup>>
mgr == <<buffer, flushRequested, path, previousSaveFile, reloaded>>
flush == <<secondary, flushVersion, previousFlushVersion, age>>
thread == <<lock, saver, target, file, failed, running>>
vars == <<emuVars, mgr, flush, thread>>

Cells == 0 .. N - 1
Contents == [Cells -> BOOLEAN]
Paths == {"game", "state"}    \* the game's .sav and the savestate's .sav
NoTime == -1
None(b) == b \in {Null, Empty}                 \* its length is 0
Whole(b) == b \notin {Null, Empty, Short}      \* its length is N
Blank == [a \in Cells |-> FALSE]

ASSUME NullAssumption ==
  /\ Null # Empty /\ Null # Short /\ Empty # Short
  /\ {Null, Empty, Short} \cap Contents = {}
  /\ Null \notin Paths

Init ==
  /\ emu = "messages" /\ ops = 0
  /\ chip = Blank /\ state = Null /\ backup = Null
  /\ path = "game" /\ previousSaveFile = Null
  /\ buffer = Null /\ flushRequested = FALSE /\ secondary = Null
  /\ flushVersion = 0 /\ previousFlushVersion = 0 /\ age = NoTime
  /\ running = TRUE /\ lock = "free" /\ saver = "sleep" /\ target = "game"
  /\ file = [p \in Paths |-> IF p = "game" THEN Blank ELSE Null]
  /\ failed = FALSE /\ reloaded = FALSE

-----------------------------------------------------------------------------
(* The emulation thread. *)

\* Mutant of Copied: the bytes that wrapped around are forgotten.
CopiedNoWrap(off, len) == {a \in Cells : off <= a /\ a < off + len}

\* The bytes RequestFlush copies for a write of len bytes at off; a write
\* that runs over the end goes on at the start, at most once around.
Copied(off, len) ==
  IF off + len > N
  THEN {a \in Cells : off <= a \/ a < len - (N - off)}
  ELSE {a \in Cells : off <= a /\ a < off + len}

\* A buffer of another size is replaced by the whole chip.
RequestFlush(off, len) ==
  /\ buffer' = IF ~Whole(buffer) THEN chip'
               ELSE [a \in Cells |-> IF a \in Copied(off, len) THEN chip'[a]
                                     ELSE buffer[a]]
  /\ flushRequested' = TRUE
  /\ reloaded' = (reloaded /\ Whole(buffer) /\ Copied(off, len) # Cells)

Op == ops < MaxOps /\ ops' = ops + 1

\* A chip command ends: its bytes, modulo the size of the chip, have changed.
ChipWrite ==
  /\ emu = "frame" /\ Op
  /\ \E off \in Cells, len \in 1 .. MaxWrite :
       /\ chip' = [a \in Cells |->
            IF \E i \in 0 .. len - 1 : (off + i) % N = a THEN ~chip[a] ELSE chip[a]]
       /\ RequestFlush(off, len)
  /\ UNCHANGED <<emu, state, backup, path, previousSaveFile, flush, thread>>

RunFrame ==
  /\ emu = "messages"
  /\ emu' = "frame"
  /\ UNCHANGED <<ops, chip, state, backup, mgr, flush, thread>>

FlushWanted == flushRequested

\* Mutant of LockIsFree: the snapshot is taken without the lock.
LockIsFreeAlways == TRUE

LockIsFree == lock = "free"

\* Mutant of RequestTime: the request is not dated.
RequestTimeNone == NoTime

RequestTime == 0

\* CheckFlush after a frame: snapshot the buffer under the lock.
CheckFlush ==
  /\ emu = "frame" /\ FlushWanted /\ LockIsFree
  /\ secondary' = IF None(buffer) /\ None(secondary)
                  THEN secondary
                  ELSE IF buffer = Null THEN Empty ELSE buffer
  /\ flushRequested' = FALSE
  /\ flushVersion' = flushVersion + 1 /\ age' = RequestTime
  /\ emu' = "messages"
  /\ UNCHANGED <<ops, chip, state, backup, buffer, path, previousSaveFile,
                 reloaded, previousFlushVersion, thread>>

NoFlush ==
  /\ emu = "frame" /\ ~FlushWanted
  /\ emu' = "messages"
  /\ UNCHANGED <<ops, chip, state, backup, mgr, flush, thread>>

\* SetPath(p, TRUE) after the buffer became b: read whatever file is there,
\* at whatever length it has now.  The lock is not taken.
Reload(p, b) ==
  /\ path' = p
  /\ buffer' = IF file[p] = Null THEN b ELSE file[p]
  /\ reloaded' = (file[p] # Null)

\* DoSavestate reads the chip back and writes all of it to the save.
LoadChip(contents) == chip' = contents /\ flushRequested' = TRUE

\* saveState, with or without moving the save file along; a write that fails
\* has already truncated the state file.
SaveState ==
  /\ emu = "messages" /\ Op
  /\ \/ state' \in {chip, Null} /\ UNCHANGED <<path, flushRequested>>
     \/ state' = chip /\ path' = "state" /\ flushRequested' = TRUE
  /\ UNCHANGED <<emu, chip, backup, buffer, previousSaveFile, reloaded, flush,
                 thread>>

\* loadState keeps a backup first; a state that cannot be read changes nothing.
LoadState ==
  /\ emu = "messages" /\ Op /\ state # Null
  /\ backup' = chip /\ LoadChip(state)
  /\ \/ /\ buffer' = state /\ reloaded' = FALSE
        /\ UNCHANGED <<path, previousSaveFile>>
     \/ previousSaveFile' = path /\ Reload("state", state)
  /\ UNCHANGED <<emu, state, flush, thread>>

UndoStateLoad ==
  /\ emu = "messages" /\ Op /\ backup # Null
  /\ LoadChip(backup)
  /\ IF previousSaveFile # Null
     THEN Reload(previousSaveFile, backup)
     ELSE buffer' = backup /\ reloaded' = FALSE /\ UNCHANGED path
  /\ UNCHANGED <<emu, state, backup, previousSaveFile, flush, thread>>

\* reset: the save goes back to the game's own file.
Reset ==
  /\ emu = "messages" /\ Op /\ path # "game"
  /\ path' = "game" /\ flushRequested' = TRUE
  /\ UNCHANGED <<emu, chip, state, backup, buffer, previousSaveFile, reloaded,
                 flush, thread>>

\* ~SaveManager: tell the thread to stop, wait for it, flush once more.
Close ==
  /\ emu = "messages"
  /\ emu' = "join" /\ running' = FALSE
  /\ UNCHANGED <<ops, chip, state, backup, mgr, flush, lock, saver, target, file,
                 failed>>

\* Mutant of FinalFlush: the last snapshot is left to the thread.
FinalFlushNone == "closed"

FinalFlush == "final"

Join ==
  /\ emu = "join" /\ saver = "ended"
  /\ emu' = FinalFlush /\ saver' = "check"
  /\ UNCHANGED <<ops, chip, state, backup, mgr, flush, lock, target, file, failed,
                 running>>

FinalFlushDone ==
  /\ emu = "final" /\ saver = "sleep"
  /\ emu' = "closed"
  /\ UNCHANGED <<ops, chip, state, backup, mgr, flush, thread>>

-----------------------------------------------------------------------------
(* The save thread, and the final flush of the destructor. *)

Tick ==
  /\ age # NoTime /\ age < Debounce
  /\ age' = age + 1
  /\ UNCHANGED <<emuVars, mgr, secondary, flushVersion, previousFlushVersion,
                 thread>>

NeedsFlush == flushVersion # previousFlushVersion

Wake ==
  /\ saver = "sleep" /\ emu \notin {"final", "closed"}
  /\ IF ~running THEN saver' = "ended"
                 ELSE age = Debounce /\ saver' = "check"
  /\ UNCHANGED <<emuVars, mgr, flush, lock, target, file, failed, running>>

\* Both tests are made before the lock is taken.
CheckVersion ==
  /\ saver = "check"
  /\ saver' = IF secondary # Null /\ NeedsFlush THEN "lock" ELSE "sleep"
  /\ UNCHANGED <<emuVars, mgr, flush, lock, target, file, failed, running>>

TakeLock ==
  /\ saver = "lock" /\ lock = "free"
  /\ lock' = "saver" /\ saver' = "open"
  /\ UNCHANGED <<emuVars, mgr, flush, target, file, failed, running>>

\* OpenFile truncates the file at the path of the moment, or fails.
OpenFile ==
  /\ saver = "open"
  /\ target' = path
  /\ \/ file' = [file EXCEPT ![path] = Empty] /\ saver' = "write"
     \/ UNCHANGED file /\ saver' = "mark"
  /\ failed' = (saver' = "mark")
  /\ UNCHANGED <<emuVars, mgr, flush, lock, running>>

\* FileWrite, whose result is ignored: a full disk cuts the file short.
WriteFile ==
  /\ saver = "write"
  /\ \/ file' = [file EXCEPT ![target] = secondary] /\ UNCHANGED failed
     \/ /\ secondary # Empty
        /\ \E part \in {Empty, Short} : file' = [file EXCEPT ![target] = part]
        /\ failed' = TRUE
  /\ saver' = "mark"
  /\ UNCHANGED <<emuVars, mgr, flush, lock, target, running>>

\* The snapshot counts as flushed whether or not the file could be opened and
\* written.
MarkFlushed ==
  /\ saver = "mark"
  /\ previousFlushVersion' = flushVersion /\ age' = NoTime
  /\ lock' = "free" /\ saver' = "sleep"
  /\ UNCHANGED <<emuVars, mgr, secondary, flushVersion, target, file, failed,
                 running>>

Closed == emu = "closed" /\ UNCHANGED vars

Saver == Wake \/ CheckVersion \/ TakeLock \/ OpenFile \/ WriteFile \/ MarkFlushed

Emulation ==
  \/ ChipWrite \/ RunFrame \/ CheckFlush \/ NoFlush
  \/ SaveState \/ LoadState \/ UndoStateLoad \/ Reset
  \/ Close \/ Join \/ FinalFlushDone

Next == Emulation \/ Saver \/ Tick \/ Closed

\* Frames end, threads are scheduled and time passes; the user need not do
\* anything, nor unpause.
Fairness ==
  /\ WF_vars(CheckFlush \/ NoFlush \/ Join \/ FinalFlushDone)
  /\ WF_vars(Saver) /\ WF_vars(Tick)

Spec == Init /\ [][Next]_vars /\ Fairness

-----------------------------------------------------------------------------
(* Properties. *)

ChipType ==
  /\ chip \in Contents /\ state \in Contents \cup {Null}
  /\ backup \in Contents \cup {Null}
  /\ buffer \in Contents \cup {Null, Empty, Short}
  /\ secondary \in Contents \cup {Null, Empty, Short}
  /\ file \in [Paths -> Contents \cup {Null, Empty, Short}]
PathType ==
  path \in Paths /\ previousSaveFile \in Paths \cup {Null} /\ target \in Paths
ControlType ==
  /\ emu \in {"frame", "messages", "join", "final", "closed"}
  /\ lock \in {"free", "saver"}
  /\ saver \in {"sleep", "check", "lock", "open", "write", "mark", "ended"}
FlagType ==
  /\ flushRequested \in BOOLEAN /\ running \in BOOLEAN
  /\ failed \in BOOLEAN /\ reloaded \in BOOLEAN
CountType ==
  /\ ops \in 0 .. MaxOps /\ age \in {NoTime} \cup 0 .. Debounce
  /\ flushVersion \in 0 .. ops /\ previousFlushVersion \in 0 .. flushVersion

TypeOK == ChipType /\ PathType /\ ControlType /\ FlagType /\ CountType

\* Copying only the bytes written keeps the buffer equal to the chip, wherever
\* a write starts and however it wraps (SaveManager.cpp:97-123), unless the
\* buffer was read from a file in between.
BufferMirrorsChip == buffer # Null /\ ~reloaded => buffer = chip

\* A snapshot that counts as flushed is what the file holds, if the file could
\* be opened and written: no snapshot slips in between writing one and marking
\* it (SaveManager.cpp:125-146, 166-193).
FlushedIsOnDisk ==
  ~NeedsFlush /\ secondary # Null /\ flushVersion > 0 /\ ~failed
    => file[target] = secondary

\* When the manager is gone its last snapshot is on disk, even if the user
\* closed it before the two seconds were over (SaveManager.cpp:53-67), and so
\* is what the chip holds, if a frame has ended since the last flush request.
ClosedIsFlushed ==
  emu = "closed" /\ flushVersion > 0 /\ secondary # Null /\ ~failed
    => /\ file[target] = secondary /\ ~NeedsFlush
       /\ buffer # Null /\ ~flushRequested /\ ~reloaded => file[target] = chip

\* Once the game stops saving (commands are bounded by MaxOps), its last
\* snapshot reaches the disk and stays there, unless the file could not be
\* opened or written: the debounce ends, and CheckFlush, the save thread and
\* the destructor leave none behind.
SnapshotsGetWritten ==
  <>[](secondary # Null => ~NeedsFlush /\ (failed \/ file[target] = secondary))

-----------------------------------------------------------------------------
(* The inductive invariant behind the three safety properties.             *)

\* Every snapshot answers a command of its own.
SnapshotCount == flushVersion + (IF flushRequested THEN 1 ELSE 0) <= ops

\* The lock covers opening, writing and marking, and from the test of the
\* version to the mark there is something left to write.
LockState ==
  /\ lock = "saver" <=> saver \in {"open", "write", "mark"}
  /\ saver \in {"lock", "open", "write", "mark"} => secondary # Null /\ NeedsFlush
  /\ saver = "write" => ~failed
  /\ saver = "mark" /\ ~failed => file[target] = secondary

\* The last snapshot is the buffer, until the next request.
SnapshotIsBuffer ==
  flushVersion > 0 /\ ~flushRequested /\ buffer \in Contents => secondary = buffer

\* Shutting down: the thread ends before the final flush begins.
Shutdown ==
  /\ running <=> emu \in {"frame", "messages"}
  /\ saver = "ended" => emu = "join"
  /\ emu = "closed" => saver = "sleep"
  /\ emu \in {"final", "closed"} /\ saver = "sleep"
       => secondary = Null \/ ~NeedsFlush

IInv == /\ TypeOK /\ SnapshotCount /\ LockState /\ Shutdown
        /\ SnapshotIsBuffer /\ BufferMirrorsChip /\ FlushedIsOnDisk
=============================================================================
