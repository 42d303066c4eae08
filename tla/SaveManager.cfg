SPECIFICATION Spec
CONSTANTS
  N = 2
  MaxWrite = 3
  MaxOps = 4
  Debounce = 2
  Null = Null
  Empty = Empty
  Short = Short
INVARIANTS
  BufferMirrorsChip
  FlushedIsOnDisk
  ClosedIsFlushed
PROPERTIES
  SnapshotsGetWritten
