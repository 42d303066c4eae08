-------------------------- MODULE SaveManagerProofs --------------------------
(***************************************************************************)
(* Safety of the save manager for every chip size, every number and length *)
(* of chip commands and every debounce time: IInv is inductive, and the    *)
(* checked invariants follow from it.                                      *)
(***************************************************************************)
EXTENDS SaveManager, TLAPS

USE SizeAssumption, NullAssumption

\* The two cases of an address that wraps at most once.
LEMMA ModLow ==
  ASSUME NEW x \in Nat, NEW n \in Nat \ {0}, x < n PROVE x % n = x
  BY SMTT(20)

LEMMA ModHigh ==
  ASSUME NEW x \in Nat, NEW n \in Nat \ {0}, n <= x, x < 2 * n
  PROVE  x % n = x - n
  BY SMTT(20)

\* RequestFlush copies every byte a chip command can have touched, however
\* often its address wrapped around the chip.
LEMMA CopiedCovers ==
  ASSUME NEW off \in Cells, NEW len \in 1 .. MaxWrite, NEW i \in 0 .. len - 1,
         NEW a \in Cells, (off + i) % N = a
  PROVE  a \in Copied(off, len)
<1>1. CASE off + i < N
  <2>1. (off + i) % N = off + i
    BY <1>1, ModLow DEF Cells
  <2> QED  BY <2>1, <1>1 DEF Copied, Cells
<1>2. CASE N <= off + i /\ off + i < 2 * N
  <2>1. (off + i) % N = off + i - N
    BY <1>2, ModHigh DEF Cells
  <2> QED  BY <2>1, <1>2 DEF Copied, Cells
<1>3. CASE 2 * N <= off + i
  BY <1>3 DEF Copied, Cells
<1> QED  BY <1>1, <1>2, <1>3 DEF Cells

LEMMA InitInv == Init => IInv
<1> SUFFICES ASSUME Init PROVE IInv
  OBVIOUS
<1>1. Blank \in Contents
  BY DEF Blank, Contents
<1>2. file \in [Paths -> Contents \cup {Null, Empty, Short}]
  BY <1>1 DEF Init
<1>3. TypeOK
  <2>1. ChipType
    BY <1>1, <1>2 DEF Init, ChipType
  <2>2. PathType
    BY DEF Init, PathType, Paths
  <2>3. ControlType
    BY DEF Init, ControlType
  <2>4. FlagType
    BY DEF Init, FlagType
  <2>5. CountType
    BY DEF Init, CountType
  <2> QED  BY <2>1, <2>2, <2>3, <2>4, <2>5 DEF TypeOK
<1>4. /\ SnapshotCount /\ LockState /\ Shutdown /\ SnapshotIsBuffer
      /\ BufferMirrorsChip /\ FlushedIsOnDisk
  BY DEF Init, SnapshotCount, LockState, Shutdown, SnapshotIsBuffer, BufferMirrorsChip,
         FlushedIsOnDisk, NeedsFlush
<1> QED  BY <1>3, <1>4 DEF IInv

USE DEF IInv, TypeOK, ChipType, PathType, ControlType, FlagType, CountType,
        SnapshotCount, LockState, Shutdown, SnapshotIsBuffer, BufferMirrorsChip,
        FlushedIsOnDisk, NeedsFlush, emuVars, mgr, flush, thread

\* A chip command leaves the buffer equal to the chip.
LEMMA WriteInv == IInv /\ ChipWrite => IInv'
<1> SUFFICES ASSUME IInv, ChipWrite PROVE IInv'
  OBVIOUS
<1>1. PICK off \in Cells, len \in 1 .. MaxWrite :
        /\ chip' = [a \in Cells |->
             IF \E i \in 0 .. len - 1 : (off + i) % N = a THEN ~chip[a] ELSE chip[a]]
        /\ RequestFlush(off, len)
  BY DEF ChipWrite
<1>2. chip' \in Contents
  BY <1>1 DEF Contents
<1>3. buffer' \in Contents
  BY <1>1, <1>2 DEF RequestFlush, Contents, Whole
<1>4. \A a \in Cells : a \notin Copied(off, len) => chip'[a] = chip[a]
  BY <1>1, CopiedCovers
<1>5. ~reloaded' => buffer' = chip'
  <2> SUFFICES ASSUME ~reloaded' PROVE buffer' = chip'
    OBVIOUS
  <2>1. CASE ~Whole(buffer)
    BY <2>1, <1>1 DEF RequestFlush
  <2>2. CASE Whole(buffer)
    <3>1. buffer \in Contents
      BY <2>2 DEF Whole
    <3>2. ~reloaded \/ Copied(off, len) = Cells
      BY <1>1, <2>2 DEF RequestFlush
    <3>3. \A a \in Cells : buffer'[a] = chip'[a]
      BY <1>1, <1>4, <2>2, <3>1, <3>2 DEF RequestFlush, Contents
    <3> QED  BY <3>3, <1>2, <1>3 DEF Contents
  <2> QED  BY <2>1, <2>2
<1>6. reloaded' \in BOOLEAN /\ flushRequested' = TRUE
  BY <1>1 DEF RequestFlush
<1> QED
  BY <1>2, <1>3, <1>5, <1>6 DEF ChipWrite, Op

LEMMA CheckFlushInv == IInv /\ CheckFlush => IInv'
<1> SUFFICES ASSUME IInv, CheckFlush PROVE IInv'
  OBVIOUS
<1>1. TypeOK'
  <2>1. ChipType'
    BY DEF CheckFlush, FlushWanted, LockIsFree, RequestTime, None
  <2>2. PathType'
    BY DEF CheckFlush, FlushWanted, LockIsFree, RequestTime, None
  <2>3. ControlType'
    BY DEF CheckFlush, FlushWanted, LockIsFree, RequestTime, None
  <2>4. FlagType'
    BY DEF CheckFlush, FlushWanted, LockIsFree, RequestTime, None
  <2>5. CountType'
    BY DEF CheckFlush, FlushWanted, LockIsFree, RequestTime, None
  <2> QED  BY <2>1, <2>2, <2>3, <2>4, <2>5
<1>2. SnapshotCount'
  BY DEF CheckFlush, FlushWanted, LockIsFree, RequestTime, None
<1>3. LockState'
  BY DEF CheckFlush, FlushWanted, LockIsFree, RequestTime, None
<1>4. Shutdown'
  BY DEF CheckFlush, FlushWanted, LockIsFree, RequestTime, None
<1>5. BufferMirrorsChip'
  BY DEF CheckFlush, FlushWanted, LockIsFree, RequestTime, None
<1>6. FlushedIsOnDisk'
  BY DEF CheckFlush, FlushWanted, LockIsFree, RequestTime, None
<1>7. SnapshotIsBuffer'
  BY DEF CheckFlush, None
<1> QED  BY <1>1, <1>2, <1>3, <1>4, <1>5, <1>6, <1>7

\* Saving, loading and undoing a state, and reset, leave the snapshot alone.
LEMMA StateInv ==
  IInv /\ (SaveState \/ LoadState \/ UndoStateLoad \/ Reset) => IInv'
<1> SUFFICES ASSUME IInv PROVE (SaveState \/ LoadState \/ UndoStateLoad \/ Reset) => IInv'
  OBVIOUS
<1>1. SaveState => IInv'
  <2> SUFFICES ASSUME SaveState PROVE IInv'
    OBVIOUS
  <2>1. TypeOK'
    <3>1. ChipType'
      BY DEF SaveState, Op, Paths
    <3>2. PathType'
      BY DEF SaveState, Op, Paths
    <3>3. ControlType'
      BY DEF SaveState, Op, Paths
    <3>4. FlagType'
      BY DEF SaveState, Op, Paths
    <3>5. CountType'
      BY DEF SaveState, Op, Paths
    <3> QED  BY <3>1, <3>2, <3>3, <3>4, <3>5
  <2>2. SnapshotCount'
    BY DEF SaveState, Op, Paths
  <2>3. LockState'
    BY DEF SaveState, Op, Paths
  <2>4. Shutdown'
    BY DEF SaveState, Op, Paths
  <2>5. BufferMirrorsChip'
    BY DEF SaveState, Op, Paths
  <2>6. FlushedIsOnDisk'
    BY DEF SaveState, Op, Paths
  <2>7. SnapshotIsBuffer'
    BY DEF SaveState, Op, Paths
  <2> QED  BY <2>1, <2>2, <2>3, <2>4, <2>5, <2>6, <2>7
<1>2. LoadState => IInv'
  <2> SUFFICES ASSUME LoadState PROVE IInv'
    OBVIOUS
  <2>1. TypeOK'
    <3>1. ChipType'
      BY DEF LoadState, Op, LoadChip, Reload, Paths
    <3>2. PathType'
      BY DEF LoadState, Op, LoadChip, Reload, Paths
    <3>3. ControlType'
      BY DEF LoadState, Op, LoadChip, Reload, Paths
    <3>4. FlagType'
      BY DEF LoadState, Op, LoadChip, Reload, Paths
    <3>5. CountType'
      BY DEF LoadState, Op, LoadChip, Reload, Paths
    <3> QED  BY <3>1, <3>2, <3>3, <3>4, <3>5
  <2>2. SnapshotCount'
    BY DEF LoadState, Op, LoadChip, Reload, Paths
  <2>3. LockState'
    BY DEF LoadState, Op, LoadChip, Reload, Paths
  <2>4. Shutdown'
    BY DEF LoadState, Op, LoadChip, Reload, Paths
  <2>5. BufferMirrorsChip'
    BY DEF LoadState, Op, LoadChip, Reload, Paths
  <2>6. FlushedIsOnDisk'
    BY DEF LoadState, Op, LoadChip, Reload, Paths
  <2>7. SnapshotIsBuffer'
    BY DEF LoadState, Op, LoadChip, Reload, Paths
  <2> QED  BY <2>1, <2>2, <2>3, <2>4, <2>5, <2>6, <2>7
<1>3. UndoStateLoad => IInv'
  <2> SUFFICES ASSUME UndoStateLoad PROVE IInv'
    OBVIOUS
  <2>1. TypeOK'
    <3>1. ChipType'
      BY DEF UndoStateLoad, Op, LoadChip, Reload, Paths
    <3>2. PathType'
      BY DEF UndoStateLoad, Op, LoadChip, Reload, Paths
    <3>3. ControlType'
      BY DEF UndoStateLoad, Op, LoadChip, Reload, Paths
    <3>4. FlagType'
      BY DEF UndoStateLoad, Op, LoadChip, Reload, Paths
    <3>5. CountType'
      BY DEF UndoStateLoad, Op, LoadChip, Reload, Paths
    <3> QED  BY <3>1, <3>2, <3>3, <3>4, <3>5
  <2>2. SnapshotCount'
    BY DEF UndoStateLoad, Op, LoadChip, Reload, Paths
  <2>3. LockState'
    BY DEF UndoStateLoad, Op, LoadChip, Reload, Paths
  <2>4. Shutdown'
    BY DEF UndoStateLoad, Op, LoadChip, Reload, Paths
  <2>5. BufferMirrorsChip'
    BY DEF UndoStateLoad, Op, LoadChip, Reload, Paths
  <2>6. FlushedIsOnDisk'
    BY DEF UndoStateLoad, Op, LoadChip, Reload, Paths
  <2>7. SnapshotIsBuffer'
    BY DEF UndoStateLoad, Op, LoadChip, Reload, Paths
  <2> QED  BY <2>1, <2>2, <2>3, <2>4, <2>5, <2>6, <2>7
<1>4. Reset => IInv'
  BY DEF Reset, Op, Paths
<1> QED  BY <1>1, <1>2, <1>3, <1>4

LEMMA LoopInv ==
  IInv /\ (RunFrame \/ NoFlush \/ Close \/ Join \/ FinalFlushDone) => IInv'
<1> SUFFICES ASSUME IInv
             PROVE (RunFrame \/ NoFlush \/ Close \/ Join \/ FinalFlushDone) => IInv'
  OBVIOUS
<1>1. RunFrame => IInv'
  BY DEF RunFrame
<1>2. NoFlush => IInv'
  BY DEF NoFlush
<1>3. Close => IInv'
  <2> SUFFICES ASSUME Close PROVE IInv'
    OBVIOUS
  <2>1. TypeOK'
    <3>1. ChipType'
      BY DEF Close
    <3>2. PathType'
      BY DEF Close
    <3>3. ControlType'
      BY DEF Close
    <3>4. FlagType'
      BY DEF Close
    <3>5. CountType'
      BY DEF Close
    <3> QED  BY <3>1, <3>2, <3>3, <3>4, <3>5
  <2>2. SnapshotCount'
    BY DEF Close
  <2>3. LockState'
    BY DEF Close
  <2>4. Shutdown'
    BY DEF Close
  <2>5. BufferMirrorsChip'
    BY DEF Close
  <2>6. FlushedIsOnDisk'
    BY DEF Close
  <2>7. SnapshotIsBuffer'
    BY DEF Close
  <2> QED  BY <2>1, <2>2, <2>3, <2>4, <2>5, <2>6, <2>7
<1>4. Join => IInv'
  BY DEF Join, FinalFlush
<1>5. FinalFlushDone => IInv'
  BY DEF FinalFlushDone
<1> QED  BY <1>1, <1>2, <1>3, <1>4, <1>5

LEMMA SaverInv == IInv /\ (Saver \/ Tick) => IInv'
<1> SUFFICES ASSUME IInv PROVE (Saver \/ Tick) => IInv'
  OBVIOUS
<1>1. Wake => IInv'
  BY DEF Wake
<1>2. CheckVersion => IInv'
  BY DEF CheckVersion
<1>3. TakeLock => IInv'
  BY DEF TakeLock
<1>4. OpenFile => IInv'
  <2> SUFFICES ASSUME OpenFile PROVE IInv'
    OBVIOUS
  <2>1. TypeOK'
    <3>1. ChipType'
      BY DEF OpenFile
    <3>2. PathType'
      BY DEF OpenFile
    <3>3. ControlType'
      BY DEF OpenFile
    <3>4. FlagType'
      BY DEF OpenFile
    <3>5. CountType'
      BY DEF OpenFile
    <3> QED  BY <3>1, <3>2, <3>3, <3>4, <3>5
  <2>2. SnapshotCount'
    BY DEF OpenFile
  <2>3. LockState'
    BY DEF OpenFile
  <2>4. Shutdown'
    BY DEF OpenFile
  <2>5. BufferMirrorsChip'
    BY DEF OpenFile
  <2>6. FlushedIsOnDisk'
    BY DEF OpenFile
  <2>7. SnapshotIsBuffer'
    BY DEF OpenFile
  <2> QED  BY <2>1, <2>2, <2>3, <2>4, <2>5, <2>6, <2>7
<1>5. WriteFile => IInv'
  <2> SUFFICES ASSUME WriteFile PROVE IInv'
    OBVIOUS
  <2>1. ChipType'
    BY DEF WriteFile
  <2>2. PathType' /\ ControlType' /\ FlagType' /\ CountType'
    BY DEF WriteFile
  <2>3. SnapshotCount' /\ Shutdown' /\ SnapshotIsBuffer' /\ BufferMirrorsChip'
    BY DEF WriteFile
  <2>4. LockState'
    BY DEF WriteFile
  <2>5. FlushedIsOnDisk'
    BY DEF WriteFile
  <2> QED  BY <2>1, <2>2, <2>3, <2>4, <2>5
<1>6. MarkFlushed => IInv'
  BY DEF MarkFlushed
<1>7. Tick => IInv'
  BY DEF Tick, NoTime
<1> QED  BY <1>1, <1>2, <1>3, <1>4, <1>5, <1>6, <1>7 DEF Saver

LEMMA StutterInv == IInv /\ UNCHANGED vars => IInv'
  BY DEF vars

LEMMA StepInv == IInv /\ [Next]_vars => IInv'
  BY WriteInv, CheckFlushInv, StateInv, LoopInv, SaverInv, StutterInv
     DEF Next, Emulation, Closed

LEMMA ClosedFromInv == IInv => ClosedIsFlushed
  BY DEF ClosedIsFlushed

HIDE DEF IInv, TypeOK, ChipType, PathType, ControlType, FlagType, CountType,
         SnapshotCount, LockState, Shutdown, SnapshotIsBuffer, BufferMirrorsChip,
         FlushedIsOnDisk, NeedsFlush, emuVars, mgr, flush, thread

\* Everything below rests on this.
THEOREM Invariance == Spec => []IInv
  BY InitInv, StepInv, PTL DEF Spec

\* The save buffer mirrors the chip for every chip size and every write, as
\* long as it was filled from the chip (SaveManager.cpp:97-123).
THEOREM BufferMirrors == Spec => []BufferMirrorsChip
<1>1. IInv => BufferMirrorsChip
  BY DEF IInv
<1> QED  BY <1>1, Invariance, PTL

\* A snapshot that counts as flushed is on disk unless the file could not be
\* opened or written completely (SaveManager.cpp:125-146, 166-193).
THEOREM FlushedMeansOnDisk == Spec => []FlushedIsOnDisk
<1>1. IInv => FlushedIsOnDisk
  BY DEF IInv
<1> QED  BY <1>1, Invariance, PTL

\* The destructor leaves no snapshot behind, and a chip whose last change a
\* frame's end has seen is on disk (SaveManager.cpp:53-67).
THEOREM ClosingFlushes == Spec => []ClosedIsFlushed
  BY ClosedFromInv, Invariance, PTL
==============================================================================
