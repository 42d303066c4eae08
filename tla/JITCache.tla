------------------------------ MODULE JITCache ------------------------------
(***************************************************************************)
(* The cache of compiled blocks of ARMJIT, for code in the shared WRAM:    *)
(* which block a CPU dispatches for an address, how blocks are registered  *)
(* for the memory they were compiled from, and how stores, remapping and   *)
(* resets take them out.                                                   *)
(*                                                                         *)
(* A unit is 16 bytes of the shared WRAM, the grain of the code masks; its *)
(* range is the 512 bytes around it.  A setting of WRAMCnt gives a CPU its *)
(* mirrors: functions from virtual addresses, 16 bytes apart, to units.    *)
(* The contents of a unit are its code or its data; a hash is represented  *)
(* by what is hashed.  The machine code of a block is represented by the   *)
(* block, with the literals that the compiler embedded in it.              *)
(***************************************************************************)
EXTENDS Integers, SequencesExt, FiniteSetsExt

CONSTANTS
    CPUs,
    CodeUnits,   \* the units of the shared WRAM
    Page,        \* [CodeUnits -> Nat]: the range a unit lies in
    Settings,    \* [values of WRAMCnt -> [CPUs -> sets of mirrors]]
    Starts,      \* [CPUs -> sets of addresses]: where each CPU enters blocks
    Lens,        \* [CPUs -> sets of lengths of their blocks, in units]
    LitAddr,     \* the address of the literal that a Load loads
    Vals,        \* contents of a unit
    Load,        \* the contents that, as code, are the load of the literal
    Ptrs,        \* blocks that can exist at the same time
    NULL

ASSUME JITAssumption ==
    /\ Page \in [CodeUnits -> Nat]
    /\ \A w \in DOMAIN Settings : \A p \in CPUs : \A m \in Settings[w][p] :
          DOMAIN m \subseteq Nat /\ Range(m) \subseteq CodeUnits
    /\ LitAddr \in Nat /\ Load \in Vals
    /\ Lens \in [CPUs -> SUBSET (Nat \ {0})]
    /\ DOMAIN Starts = CPUs /\ \A p \in CPUs : Starts[p] \subseteq Nat
    /\ NULL \notin Ptrs

Ranges  == Range(Page)
Codes   == UNION {[1..n -> Vals] : n \in UNION Range(Lens)}
Entries == UNION {Starts[p] : p \in CPUs}

VARIABLES
    wram,          \* [CodeUnits -> Vals]
    WRAMCnt,
    lookup,       \* the mirror that FastBlockLookup, FastBlockLookupStart and
                  \* FastBlockLookupSize of a CPU describe, <<>> if none
    cache,        \* the cache, a record of the fields below
    dirty,        \* history: blocks that overwrote what they were compiled
                  \* from while they were compiled
    moved         \* history: a block was compiled again at another unit, or restored
                  \* where it does not belong

\* blk      [Ptrs -> block]
\* alive    the blocks that have not been deleted
\* blocks   JitBlocks9 and JitBlocks7
\* cands    RestoreCandidates, by instruction hash
\* listed   AddressRange::Blocks, a vector per range
\* Code     AddressRange::Code of all ranges, as the set of units whose bit is set
\* fast     FastBlockLookupRegions: for a unit, a block with its address and CPU
\* invalid  InvalidLiterals

jitVars == <<wram, WRAMCnt, lookup, cache, dirty, moved>>

-----------------------------------------------------------------------------
\* GetMirrorLocation: the mirrors that contain address a, at most one.
Mirror(p, a) == {m \in Settings[WRAMCnt][p] : a \in DOMAIN m}

Mapped(p, a) == Mirror(p, a) # {}

\* LocaliseCodeAddress
Localise(p, a) == (CHOOSE m \in Mirror(p, a) : TRUE)[a]

\* The addresses that the compilation of a block may read.
Fetched(a, n) == a..(a + n - 1) \union {LitAddr}

UnitsAt(p, a, n) == [i \in 1..n |-> Localise(p, a + i - 1)]

\* The literals that the code of CPU p loads.
Literals(p, code) == IF Load \in Range(code) THEN {Localise(p, LitAddr)} ELSE {}

\* A block: CPU and start address, its code and the units it came from, its
\* literals with their values when they were hashed, and those embedded in it.
Block0 == [num |-> NULL, start |-> 0, code |-> <<>>, at |-> <<>>,
           hash |-> <<>>, embedded |-> <<>>]

BlockLits(b)   == DOMAIN b.hash
BlockUnits(b)  == Range(b.at) \union BlockLits(b)
BlockRanges(b) == {Page[u] : u \in BlockUnits(b)}
RangeOrder(b)  == [i \in DOMAIN b.at |-> Page[b.at[i]]]

\* TinyVector::RemoveByValue: the last element takes the place of the removed.
RemoveByValue(s, x) ==
    IF x \notin Range(s) THEN s
    ELSE LET i == Min({j \in DOMAIN s : s[j] = x})
         IN  Front([s EXCEPT ![i] = Last(s)])

Delete(s, Q) == [s EXCEPT !.alive = @ \ Q]

\* RetireJitBlock: the block may be restored; the candidate with the same
\* instructions that it replaces is deleted.
RetireJitBlock(s, q) ==
    LET h == s.blk[q].code IN
    [Delete(s, {s.cands[h]}) EXCEPT !.cands[h] = q]

\* Mutant of InvalidateBlock: the block stays in the lists of its other ranges.
InvalidateBlockHere(s, u, q) ==
    LET b == s.blk[q]
        gone == [s EXCEPT !.invalid = IF u \in BlockLits(b) THEN @ \union {u} ELSE @,
                          !.fast[b.at[1]] = NULL, !.blocks[b.num][b.start] = NULL]
    IN  IF u \in BlockLits(b) THEN Delete(gone, {q}) ELSE RetireJitBlock(gone, q)

\* The loop of InvalidateByAddr(u), for block q.
InvalidateBlock(s, u, q) ==
    LET b      == s.blk[q]
        others == BlockRanges(b) \ {Page[u]}
        listed == [r \in Ranges |-> IF r \in others THEN RemoveByValue(s.listed[r], q)
                                    ELSE s.listed[r]]
        gone   == [s EXCEPT
                     !.listed = listed,
                     !.Code = {v \in @ : ~(Page[v] \in others /\ listed[Page[v]] = <<>>)},
                     !.invalid = IF u \in BlockLits(b) THEN @ \union {u} ELSE @,
                     !.fast[b.at[1]] = NULL,
                     !.blocks[b.num][b.start] = NULL]
    IN  IF u \in BlockLits(b) THEN Delete(gone, {q}) ELSE RetireJitBlock(gone, q)

\* Mutant of InvalidateByAddr: only the first block of the range goes.
InvalidateByAddrFirst(s, u) ==
    LET r == Page[u] IN
    IF s.listed[r] = <<>> THEN s
    ELSE InvalidateBlock([s EXCEPT !.Code = {v \in @ : Page[v] # r}, !.listed[r] = Tail(@)],
                         u, Head(s.listed[r]))

\* The order in which the blocks of a vector are removed from its front, the
\* last one taking the place of the removed (TinyVector::Remove).
RemovalOrder(s) == IF s = <<>> THEN <<>> ELSE <<Head(s)>> \o Reverse(Tail(s))

\* InvalidateByAddr.  The test that is to spare the blocks of the range that do
\* not contain the unit compares a mask with itself, so all blocks go.
InvalidateByAddr(s, u) ==
    LET r       == Page[u]
        order   == RemovalOrder(s.listed[r])
        cleared == [s EXCEPT !.Code = {v \in @ : Page[v] # r}, !.listed[r] = <<>>]
        after[i \in 0..Len(order)] ==
            IF i = 0 THEN cleared ELSE InvalidateBlock(after[i - 1], u, order[i])
    IN  after[Len(order)]

\* CheckAndInvalidate, before a store to unit u.
CheckAndInvalidate(s, u) == IF u \in s.Code THEN InvalidateByAddr(s, u) ELSE s

EmptyCache ==
    [blk     |-> [q \in Ptrs |-> Block0],
     alive   |-> {},
     blocks  |-> [p \in CPUs |-> [a \in Entries |-> NULL]],
     cands   |-> [h \in Codes |-> NULL],
     listed  |-> [r \in Ranges |-> <<>>],
     Code    |-> {},
     fast    |-> [u \in CodeUnits |-> NULL],
     invalid |-> {}]

MappedBlocks(s)  == (UNION {Range(s.blocks[p]) : p \in CPUs}) \ {NULL}
Candidates(s)    == Range(s.cands) \ {NULL}
ListedBlocks(s)  == UNION {Range(s.listed[r]) : r \in Ranges}
FastBlocks(s)    == {s.fast[u].ptr : u \in {v \in CodeUnits : s.fast[v] # NULL}}

\* ResetBlockCache deletes the candidates and the blocks of the two maps, and
\* empties the ranges of the latter.
ResetBlockCache(s) ==
    LET ranges == UNION {BlockRanges(s.blk[q]) : q \in MappedBlocks(s)} IN
    [Delete(s, MappedBlocks(s) \union Candidates(s)) EXCEPT
       !.blocks = EmptyCache.blocks, !.cands = EmptyCache.cands,
       !.fast = EmptyCache.fast, !.invalid = {},
       !.listed = [r \in Ranges |-> IF r \in ranges THEN <<>> ELSE @[r]],
       !.Code = {u \in @ : Page[u] \notin ranges}]

\* The blocks whose memory, or whose machine code, is still pointed to.
Referenced(s) == MappedBlocks(s) \union Candidates(s) \union ListedBlocks(s)
                    \union FastBlocks(s)

FreePtrs(s) == Ptrs \ (s.alive \union Referenced(s))

\* What free blocks held is not told apart.
Tidy(s) ==
    LET free == FreePtrs(s) IN
    [s EXCEPT !.blk = [q \in Ptrs |-> IF q \in free THEN Block0 ELSE @[q]]]

\* What CompileBlock finds at address a: the instructions of n units and the
\* literals that may be embedded, with their values.
FetchBlock(s, p, a, n) ==
    LET at   == UnitsAt(p, a, n)
        code == [i \in 1..n |-> wram[at[i]]]
    IN  [num |-> p, start |-> a, code |-> code, at |-> at,
         hash |-> [u \in Literals(p, code) \ s.invalid |-> wram[u]], embedded |-> <<>>]

\* An instruction of the block stores to w.unit, if w is not NULL, after the code
\* was fetched and the literals were read; a literal that is written is not to
\* be embedded.
StoreInBlock(s, b, w) ==
    LET t == IF w = NULL THEN s ELSE CheckAndInvalidate(s, w.unit) IN
    IF w # NULL /\ w.unit \in BlockLits(b)
    THEN [t EXCEPT !.invalid = @ \union {w.unit}] ELSE t

\* Mutant of MayRestore: the values of the literals are not compared.
MayRestoreSameCode(s, b) ==
    LET prev == s.cands[b.code]
        old  == s.blk[prev] IN
    /\ prev # NULL
    /\ old.start = b.start
    /\ BlockUnits(old) = BlockUnits(b) /\ RangeOrder(old) = RangeOrder(b)

\* The retired block with the same instructions is restored if its start, the
\* values of its literals, and its ranges with their masks are the same, too.
MayRestore(s, b) ==
    LET prev == s.cands[b.code]
        old  == s.blk[prev] IN
    /\ prev # NULL
    /\ old.start = b.start /\ Range(old.hash) = Range(b.hash)
    /\ BlockUnits(old) = BlockUnits(b) /\ RangeOrder(old) = RangeOrder(b)

\* MayRestore compares neither the CPU nor the place of each unit and literal.
Misfit(old, b) == ~(old.num = b.num /\ old.at = b.at /\ BlockLits(old) = BlockLits(b))

\* The candidate for instructions h is deleted unless it is restored.
TakeCandidate(s, h, restore) ==
    LET t == [s EXCEPT !.cands[h] = NULL] IN
    IF restore THEN t ELSE Delete(t, {s.cands[h]})

\* A new block, compiled after the store w.
NewBlock(s, b, w, q) ==
    LET value(u) == IF w # NULL /\ w.unit = u THEN w.val ELSE wram[u] IN
    [s EXCEPT !.alive = @ \union {q},
              !.blk[q] = [b EXCEPT !.embedded =
                            [u \in BlockLits(b) \ s.invalid |-> value(u)]]]

\* Block q is entered in the ranges that b was fetched from, in the map of the
\* CPU and in the lookup table (the end of CompileBlock).
Register(s, b, q) ==
    [s EXCEPT
       !.Code = @ \union BlockUnits(b),
       !.listed = [r \in Ranges |-> IF r \in BlockRanges(b) THEN Append(@[r], q) ELSE @[r]],
       !.blocks[b.num][b.start] = q,
       !.fast[b.at[1]] = [start |-> b.start, num |-> b.num, ptr |-> q]]

\* The block is out of date as soon as it is compiled: it wrote to its own code,
\* or to a literal that is embedded all the same.
Overwritten(b, w, embeds) ==
    /\ w # NULL
    /\ w.unit \in Range(b.at) \/ (w.unit \in BlockLits(b) /\ embeds)

-----------------------------------------------------------------------------
\* SetupExecutableRegion: the mirror in which a CPU looks an address up.  The
\* one it used last is kept while the address lies in it.
Table(p, a) ==
    IF a \in DOMAIN lookup[p] THEN lookup[p] ELSE CHOOSE m \in Mirror(p, a) : TRUE

LookUpBlock(p, a) ==
    LET e == cache.fast[Table(p, a)[a]] IN
    IF e # NULL /\ e.start = a /\ e.num = p THEN e.ptr ELSE NULL

Executable(p, a) == a \in DOMAIN lookup[p] \/ Mapped(p, a)

\* A CPU runs the block it finds.
Dispatch(p, a) ==
    /\ Executable(p, a)
    /\ LookUpBlock(p, a) # NULL
    /\ lookup' = [lookup EXCEPT ![p] = Table(p, a)]
    /\ UNCHANGED <<wram, WRAMCnt, cache, dirty, moved>>

\* A CPU runs code outside the shared WRAM.
Leave(p) ==
    /\ lookup[p] # <<>>
    /\ lookup' = [lookup EXCEPT ![p] = <<>>]
    /\ UNCHANGED <<wram, WRAMCnt, cache, dirty, moved>>

\* CompileBlock finds a block for the address that another block, at the same
\* unit but another mirror, pushed out of the table.
SwitchBlock(p, a) ==
    LET q == cache.blocks[p][a] IN
    /\ Mapped(p, a)
    /\ LookUpBlock(p, a) = NULL
    /\ q # NULL /\ cache.blk[q].at[1] = Localise(p, a)
    /\ cache' = [cache EXCEPT !.fast[Localise(p, a)] = [start |-> a, num |-> p, ptr |-> q]]
    /\ lookup' = [lookup EXCEPT ![p] = Table(p, a)]
    /\ UNCHANGED <<wram, WRAMCnt, dirty, moved>>

\* CompileBlock restores or compiles a block for n units; one whose address was
\* mapped elsewhere is retired first.  If the code buffer is full it is emptied.
CompileBlock(p, a, n, w, full) ==
    LET q   == cache.blocks[p][a]
        s   == IF q = NULL THEN cache
               ELSE [RetireJitBlock(cache, q) EXCEPT !.blocks[p][a] = NULL]
        b   == FetchBlock(s, p, a, n)
        s1  == StoreInBlock(s, b, w)
        may == MayRestore(s1, b)
        s2  == TakeCandidate(s1, b.code, may)
        new == IF may THEN s1.cands[b.code] ELSE CHOOSE x \in FreePtrs(s2) : TRUE
        s3  == IF may THEN s2
               ELSE NewBlock(IF full THEN ResetBlockCache(s2) ELSE s2, b, w, new)
    IN
    /\ LookUpBlock(p, a) = NULL
    /\ q # NULL => cache.blk[q].at[1] # Localise(p, a)
    /\ FreePtrs(s) # {}
    /\ cache' = Tidy(Register(s3, b, new))
    /\ wram' = IF w = NULL THEN wram ELSE [wram EXCEPT ![w.unit] = w.val]
    /\ dirty' = ((IF may THEN dirty ELSE dirty \ {new})
                   \union (IF Overwritten(b, w, may \/ full) THEN {new} ELSE {}))
                  \intersect cache'.alive
    /\ moved' = (moved \/ q # NULL \/ (may /\ Misfit(s1.blk[new], b)))
    /\ lookup' = [lookup EXCEPT ![p] = Table(p, a)]
    /\ UNCHANGED WRAMCnt

\* A store by a CPU or a DMA channel.
StoreUnit(u, v) ==
    /\ wram' = [wram EXCEPT ![u] = v]
    /\ cache' = Tidy(CheckAndInvalidate(cache, u))
    /\ dirty' = dirty \intersect cache'.alive
    /\ UNCHANGED <<WRAMCnt, lookup, moved>>

\* MapSharedWRAM
MapSharedWRAM(w) ==
    /\ WRAMCnt # w
    /\ WRAMCnt' = w
    /\ UNCHANGED <<wram, lookup, cache, dirty, moved>>

\* SetJITArgs with other settings.
SetJITArgs ==
    /\ cache' = Tidy(ResetBlockCache(cache))
    /\ dirty' = dirty \intersect cache'.alive
    /\ UNCHANGED <<wram, WRAMCnt, lookup, moved>>

-----------------------------------------------------------------------------
JITInit ==
    /\ wram \in [CodeUnits -> Vals]
    /\ WRAMCnt \in DOMAIN Settings
    /\ lookup = [p \in CPUs |-> <<>>]
    /\ cache = EmptyCache
    /\ dirty = {}
    /\ moved = FALSE

\* The stores of a block that its compilation can tell from stores before it.
OwnStores(p, a, n) ==
    {NULL} \union [unit : {Localise(p, x) : x \in Fetched(a, n)}, val : Vals]

JITNext ==
    \/ \E p \in CPUs : \E a \in Starts[p] :
          \/ Dispatch(p, a)
          \/ SwitchBlock(p, a)
          \/ \E n \in Lens[p], full \in BOOLEAN :
                /\ \A x \in Fetched(a, n) : Mapped(p, x)
                /\ \E w \in OwnStores(p, a, n) : CompileBlock(p, a, n, w, full)
    \/ \E p \in CPUs : Leave(p)
    \/ \E u \in CodeUnits, v \in Vals : StoreUnit(u, v)
    \/ \E w \in DOMAIN Settings : MapSharedWRAM(w)
    \/ SetJITArgs

JITSpec == JITInit /\ [][JITNext]_jitVars

-----------------------------------------------------------------------------
(* Properties.  A block that is compiled again after its address was mapped *)
(* to another unit, and one that is restored for the other CPU, leave the   *)
(* cache in a state that no later step repairs; the properties that hold do *)
(* so until then.                                                           *)

\* The maps, the candidates and the lists of the ranges point to blocks that
\* have not been deleted: InvalidateByAddr reads every block of a range, and
\* asserts that it finds the range in the block.
AllAlive == MappedBlocks(cache) \union Candidates(cache) \union ListedBlocks(cache) \subseteq cache.alive

NothingDangles == ~moved => AllAlive

\* A store to a unit that some block was compiled from finds the unit's bit in
\* Code and the block in the list of its range, however the blocks of the range
\* came and went.
StoresAreSeen ==
    ~moved => \A q \in MappedBlocks(cache) \union FastBlocks(cache) : \A u \in BlockUnits(cache.blk[q]) :
                 u \in cache.Code /\ q \in Range(cache.listed[Page[u]])

\* The block that a CPU runs is its own, begins at the unit where it was looked
\* up, and agrees with the memory it was compiled from: its code, and the
\* literals embedded in it.  Exempt are blocks that overwrote themselves while
\* they were compiled.
DispatchIsCurrent ==
    ~moved => \A p \in CPUs : \A a \in Starts[p] :
       Executable(p, a) =>
          LET q == LookUpBlock(p, a)
              b == cache.blk[q] IN
          (q # NULL /\ q \notin dirty) =>
             /\ b.num = p /\ b.at[1] = Table(p, a)[a]
             /\ \A i \in DOMAIN b.at : b.code[i] = wram[b.at[i]]
             /\ \A u \in DOMAIN b.embedded : b.embedded[u] = wram[u]
=============================================================================
