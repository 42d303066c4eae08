-------------------------------- MODULE VRAM --------------------------------
(***************************************************************************)
(* The nine video memory banks (GPU.cpp, GPU.h): where VRAMCNT places them *)
(* (MapVRAM_AB to _I), the stores of the CPUs and the display capture, and *)
(* the flat copies the renderers draw from, which are brought up to date   *)
(* with the help of one set of dirty bits per bank                         *)
(* (VRAMTrackingSet::DeriveState, CopyLinearVRAM).                         *)
(*                                                                         *)
(* Memory is counted in units of 8 KB, the smallest piece a bank can be    *)
(* mapped in; the code's dirty bits stand for 512 bytes.  The contents of  *)
(* a unit are one bit, so a memory is the set of its units that are set,   *)
(* and ORing memories is union.                                            *)
(***************************************************************************)
EXTENDS Naturals, FiniteSets

CONSTANTS
  Uses,      \* the values a game writes to the VRAMCNT of each bank, masked
  Saves,     \* the savestates at hand: registers, masks and contents of the banks
  Touched    \* the units of a bank, or of a region, that are written

Size == [A |-> 16, B |-> 16, C |-> 16, D |-> 16, E |-> 8, F |-> 2, G |-> 2,
         H |-> 4, I |-> 2]
Banks == DOMAIN Size

\* The regions with a flat copy: how many slots they have, and how large those
\* are.
Slots == [ABG |-> 32, AOBJ |-> 16, BBG |-> 8, BOBJ |-> 8,
          ABGExtPal |-> 4, AOBJExtPal |-> 1, BBGExtPal |-> 4, BOBJExtPal |-> 1,
          Texture |-> 4, TexPal |-> 8]
Regions == DOMAIN Slots
CPURegions == {"ABG", "AOBJ", "BBG", "BOBJ"}     \* the ones the ARM9 can write to
SlotUnits(r) ==
  CASE r = "Texture" -> 16
    [] r \in {"ABGExtPal", "AOBJExtPal", "BBGExtPal", "BOBJExtPal"} -> 1
    [] OTHER -> 2
Units(r) == 0 .. (Slots[r] * SlotUnits(r) - 1)
SlotOf(r, u) == u \div SlotUnits(r)

\* VRAMCNT: Off, or what bits 0-2 and 3-4 select.
Off == [mst |-> 8, ofs |-> 0]
VRAMControl == [mst : 0 .. 7, ofs : 0 .. 3] \cup {Off}

\* The bits that MapVRAM_AB, _CD, ... keep.
Masked(b, c) == /\ b \in {"A", "B", "H", "I"} => c.mst \in 0 .. 3
                /\ b \in {"E", "H", "I"} => c.ofs = 0

ASSUME UsesAssumption ==
  /\ Uses \in [Banks -> SUBSET VRAMControl]
  /\ \A b \in Banks : \A c \in Uses[b] \ {Off} : Masked(b, c)
ASSUME TouchedAssumption == Touched \subseteq Nat

VARIABLES
  VRAMCNT,
  VRAMSTAT,    \* the banks reported to the ARM7
  VRAMMap,     \* <<region, slot, bank>>: the masks VRAMMap_*
  VRAMPtr,     \* <<region, slot, bank>>: the slots with a VRAMPtr_*
  VRAM,        \* the units set in each bank
  VRAMDirty,   \* the units of each bank with a dirty bit
  Mapping,     \* VRAMMap as each tracking set last saw it, or None
  VRAMFlat     \* the units set in each flat copy

placing == <<VRAMCNT, VRAMSTAT, VRAMMap, VRAMPtr>>
tracking == <<Mapping, VRAMFlat>>
vars == <<placing, VRAM, VRAMDirty, tracking>>

None == {<<"0x8000">>}     \* Mapping after VRAMTrackingSet::Reset

-----------------------------------------------------------------------------
(* Where a bank appears for a value of its VRAMCNT: the switches that map  *)
(* it.                                                                     *)

SlotRange(r, base, n) == {<<r, base + i>> : i \in 0 .. (n - 1)}
LCDC == {<<"LCDC", 0>>}

Place_AB(c) ==
  CASE c.mst = 0 -> LCDC
    [] c.mst = 1 -> SlotRange("ABG", 8 * c.ofs, 8)
    [] c.mst = 2 -> SlotRange("AOBJ", 8 * (c.ofs % 2), 8)
    [] c.mst = 3 -> {<<"Texture", c.ofs>>}

Place_CD(b, c) ==
  CASE c.mst = 0 -> LCDC
    [] c.mst = 1 -> SlotRange("ABG", 8 * c.ofs, 8)
    [] c.mst = 2 -> {<<"ARM7", c.ofs % 2>>}
    [] c.mst = 3 -> {<<"Texture", c.ofs>>}
    [] c.mst = 4 -> SlotRange(IF b = "C" THEN "BBG" ELSE "BOBJ", 0, 8)
    [] OTHER -> {}

Place_E(c) ==
  CASE c.mst = 0 -> LCDC
    [] c.mst = 1 -> SlotRange("ABG", 0, 4)
    [] c.mst = 2 -> SlotRange("AOBJ", 0, 4)
    [] c.mst = 3 -> SlotRange("TexPal", 0, 4)
    [] c.mst = 4 -> SlotRange("ABGExtPal", 0, 4)
    [] OTHER -> {}

Place_FG(c) ==
  LET base == (c.ofs % 2) + 4 * (c.ofs \div 2)
  IN CASE c.mst = 0 -> LCDC
       [] c.mst = 1 -> {<<"ABG", base>>, <<"ABG", base + 2>>}
       [] c.mst = 2 -> {<<"AOBJ", base>>, <<"AOBJ", base + 2>>}
       [] c.mst = 3 -> {<<"TexPal", base>>}
       [] c.mst = 4 -> SlotRange("ABGExtPal", 2 * (c.ofs % 2), 2)
       [] c.mst = 5 -> {<<"AOBJExtPal", 0>>}
       [] OTHER -> {}

Place_H(c) ==
  CASE c.mst = 0 -> LCDC
    [] c.mst = 1 -> {<<"BBG", i>> : i \in {0, 1, 4, 5}}
    [] c.mst = 2 -> SlotRange("BBGExtPal", 0, 4)
    [] OTHER -> {}

Place_I(c) ==
  CASE c.mst = 0 -> LCDC
    [] c.mst = 1 -> {<<"BBG", i>> : i \in {2, 3, 6, 7}}
    [] c.mst = 2 -> SlotRange("BOBJ", 0, 8)
    [] c.mst = 3 -> {<<"BOBJExtPal", 0>>}

Place(b, c) ==
  CASE c = Off -> {}
    [] c # Off /\ b \in {"A", "B"} -> Place_AB(c)
    [] c # Off /\ b \in {"C", "D"} -> Place_CD(b, c)
    [] c # Off /\ b = "E" -> Place_E(c)
    [] c # Off /\ b \in {"F", "G"} -> Place_FG(c)
    [] c # Off /\ b = "H" -> Place_H(c)
    [] c # Off /\ b = "I" -> Place_I(c)

(* The switches that unmap it.                                             *)

Unmap_AB(c) ==
  CASE c.mst = 0 -> LCDC
    [] c.mst = 1 -> SlotRange("ABG", 8 * c.ofs, 8)
    [] c.mst = 2 -> SlotRange("AOBJ", 8 * (c.ofs % 2), 8)
    [] c.mst = 3 -> {<<"Texture", c.ofs>>}

Unmap_CD(b, c) ==
  CASE c.mst = 0 -> LCDC
    [] c.mst = 1 -> SlotRange("ABG", 8 * c.ofs, 8)
    [] c.mst = 2 -> {<<"ARM7", c.ofs % 2>>}
    [] c.mst = 3 -> {<<"Texture", c.ofs>>}
    [] c.mst = 4 -> SlotRange(IF b = "C" THEN "BBG" ELSE "BOBJ", 0, 8)
    [] OTHER -> {}

Unmap_E(c) ==
  CASE c.mst = 0 -> LCDC
    [] c.mst = 1 -> SlotRange("ABG", 0, 4)
    [] c.mst = 2 -> SlotRange("AOBJ", 0, 4)
    [] c.mst = 3 -> SlotRange("TexPal", 0, 4)
    [] c.mst = 4 -> SlotRange("ABGExtPal", 0, 4)
    [] OTHER -> {}

Unmap_FG(c) ==
  LET base == (c.ofs % 2) + 4 * (c.ofs \div 2)
  IN CASE c.mst = 0 -> LCDC
       [] c.mst = 1 -> {<<"ABG", base>>, <<"ABG", base + 2>>}
       [] c.mst = 2 -> {<<"AOBJ", base>>, <<"AOBJ", base + 2>>}
       [] c.mst = 3 -> {<<"TexPal", base>>}
       [] c.mst = 4 -> SlotRange("ABGExtPal", 2 * (c.ofs % 2), 2)
       [] c.mst = 5 -> {<<"AOBJExtPal", 0>>}
       [] OTHER -> {}

Unmap_H(c) ==
  CASE c.mst = 0 -> LCDC
    [] c.mst = 1 -> {<<"BBG", i>> : i \in {0, 1, 4, 5}}
    [] c.mst = 2 -> SlotRange("BBGExtPal", 0, 4)
    [] OTHER -> {}

\* Mutant of Unmap_I: the mirror of the bank is forgotten.
Unmap_IOnce(c) ==
  CASE c.mst = 0 -> LCDC
    [] c.mst = 1 -> {<<"BBG", i>> : i \in {2, 3}}
    [] c.mst = 2 -> SlotRange("BOBJ", 0, 8)
    [] c.mst = 3 -> {<<"BOBJExtPal", 0>>}

Unmap_I(c) ==
  CASE c.mst = 0 -> LCDC
    [] c.mst = 1 -> {<<"BBG", i>> : i \in {2, 3, 6, 7}}
    [] c.mst = 2 -> SlotRange("BOBJ", 0, 8)
    [] c.mst = 3 -> {<<"BOBJExtPal", 0>>}

Unmap(b, c) ==
  CASE c = Off -> {}
    [] c # Off /\ b \in {"A", "B"} -> Unmap_AB(c)
    [] c # Off /\ b \in {"C", "D"} -> Unmap_CD(b, c)
    [] c # Off /\ b = "E" -> Unmap_E(c)
    [] c # Off /\ b \in {"F", "G"} -> Unmap_FG(c)
    [] c # Off /\ b = "H" -> Unmap_H(c)
    [] c # Off /\ b = "I" -> Unmap_I(c)

InSlots(b, slots) == {<<p[1], p[2], b>> : p \in slots}
Placed(b, c) == InSlots(b, Place(b, c))
ToARM7(b, c) == b \in {"C", "D"} /\ c # Off /\ c.mst = 2

\* The banks that a mapping has at a slot.
BanksAt(map, r, i) == {m[3] : m \in {x \in map : x[1] = r /\ x[2] = i}}

\* GetUniqueBankPtr: a slot is read directly if it holds a single bank.
GetUniqueBankPtr(map) ==
  {m \in map : m[1] \in CPURegions /\ BanksAt(map, m[1], m[2]) = {m[3]}}

\* A savestate is one that the program has written.
ASSUME SavesAssumption ==
  \A s \in Saves :
    /\ s.cnt \in [Banks -> VRAMControl] /\ s.mem \in [Banks -> SUBSET Nat]
    /\ \A b \in Banks :
         s.cnt[b] \in Uses[b] \cup {Off} /\ s.mem[b] \subseteq 0 .. (Size[b] - 1)
    /\ s.map = UNION {Placed(b, s.cnt[b]) : b \in Banks}
    /\ s.stat \subseteq {b \in Banks : ToARM7(b, s.cnt[b])}

-----------------------------------------------------------------------------
(* The registers. *)

\* VRAMMap once the bank has left its old slots, and once it is in its new ones.
Left(b, old) == VRAMMap \ InSlots(b, Unmap(b, old))
Moved(b, old, new) == Left(b, old) \cup Placed(b, new)

\* Each switch sets the pointers of the slots it has changed, and no others.
Repointed(ptr, map, slots) ==
  LET changed(m) == \E p \in slots : p[1] = m[1] /\ p[2] = m[2]
  IN {m \in ptr : ~changed(m)} \cup {m \in GetUniqueBankPtr(map) : changed(m)}

\* Mutant of DirtyOnArrival: what the ARM7 writes is not anticipated.
DirtyOnArrivalNot(b, c) == VRAMDirty[b]

\* The stores of the ARM7 set no dirty bits: a bank it gets is dirty at once.
DirtyOnArrival(b, c) ==
  IF ToARM7(b, c) THEN 0 .. (Size[b] - 1) ELSE VRAMDirty[b]

\* A write of VRAMCNT.  Writing the same value again only clears VRAMSTAT.
MapVRAM(b, c) ==
  /\ VRAMCNT' = [VRAMCNT EXCEPT ![b] = c]
  /\ IF VRAMCNT[b] = c
     THEN /\ VRAMSTAT' = VRAMSTAT \ {b}
          /\ UNCHANGED <<VRAMMap, VRAMPtr, VRAMDirty>>
     ELSE /\ VRAMSTAT' = IF ToARM7(b, c) THEN VRAMSTAT \cup {b} ELSE VRAMSTAT \ {b}
          /\ VRAMMap' = Moved(b, VRAMCNT[b], c)
          /\ VRAMPtr' = Repointed(Repointed(VRAMPtr, Left(b, VRAMCNT[b]), Unmap(b, VRAMCNT[b])),
                                  VRAMMap', Place(b, c))
          /\ VRAMDirty' = [VRAMDirty EXCEPT ![b] = DirtyOnArrival(b, c)]
  /\ UNCHANGED <<VRAM, tracking>>

-----------------------------------------------------------------------------
(* Stores. *)

\* Unit u of bank b gets the value v.
Stored(b, u, v) == IF v THEN VRAM[b] \cup {u} ELSE VRAM[b] \ {u}

Store(banks, u, v) ==
  VRAM' = [b \in Banks |-> IF b \in banks THEN Stored(b, u % Size[b], v) ELSE VRAM[b]]

Mark(banks, u) ==
  VRAMDirty' = [b \in Banks |->
    IF b \in banks THEN VRAMDirty[b] \cup {u % Size[b]} ELSE VRAMDirty[b]]

\* WriteVRAM_ABG, _AOBJ, _BBG, _BOBJ: every bank at the slot is written.
WriteVRAM(r, u, v) ==
  LET banks == BanksAt(VRAMMap, r, SlotOf(r, u))
  IN /\ banks # {}
     /\ Store(banks, u, v) /\ Mark(banks, u)
     /\ UNCHANGED <<placing, tracking>>

WriteVRAM_LCDC(b, u, v) ==
  /\ <<"LCDC", 0, b>> \in VRAMMap
  /\ Store({b}, u, v) /\ Mark({b}, u)
  /\ UNCHANGED <<placing, tracking>>

WriteVRAM_ARM7(i, u, v) ==
  LET banks == BanksAt(VRAMMap, "ARM7", i)
  IN /\ banks # {}
     /\ Store(banks, u, v)
     /\ UNCHANGED <<placing, VRAMDirty, tracking>>

-----------------------------------------------------------------------------
(* Bringing a flat copy up to date.  These operators work on the part of   *)
(* the state that changes, s = [dirty, mapping, flat].                     *)

\* The part of VRAMMap that a region's masks are.
MapOf(r) == {m \in VRAMMap : m[1] = r}

\* The slots whose mask is not the one the tracking set has seen.
Remapped(s, r) ==
  IF s.mapping[r] = None THEN 0 .. (Slots[r] - 1)
  ELSE {m[2] : m \in (s.mapping[r] \ MapOf(r)) \cup (MapOf(r) \ s.mapping[r])}

\* DeriveState: the units of the region to be copied, ...
DeriveState(s, r) ==
  LET remapped == Remapped(s, r)
      dirty == {m \in MapOf(r) : s.dirty[m[3]] # {}}
  IN {u \in Units(r) :
        \/ SlotOf(r, u) \in remapped
        \/ \E m \in dirty : m[2] = SlotOf(r, u) /\ u % Size[m[3]] \in s.dirty[m[3]]}

\* ... and the banks whose dirty bits are cleared then.
BanksToBeZeroed(r) == {m[3] : m \in MapOf(r)}

\* The banks that ReadVRAM_<region> looks at when a slot has not just one.
\* ReadVRAM_AOBJExtPal tests the bits of E and F to read F and G.
SlowBanks(r, banks) ==
  IF r = "AOBJExtPal"
  THEN {b \in {"F"} : "E" \in banks} \cup {b \in {"G"} : "F" \in banks}
  ELSE banks

\* What CopyLinearVRAM copies.
Reads(r, u) ==
  LET banks == BanksAt(VRAMMap, r, SlotOf(r, u))
      read == IF Cardinality(banks) = 1 THEN banks ELSE SlowBanks(r, banks)
  IN \E b \in read : u % Size[b] \in VRAM[b]

\* DeriveState and MakeVRAMFlat_<region>Coherent.
Synced(s, r) ==
  LET dirty == DeriveState(s, r)
  IN [dirty |-> [b \in Banks |->
                   IF b \in BanksToBeZeroed(r) THEN {} ELSE s.dirty[b]],
      mapping |-> [s.mapping EXCEPT ![r] = MapOf(r)],
      flat |-> [s.flat EXCEPT ![r] = (@ \ dirty) \cup {u \in dirty : Reads(r, u)}]]

Present == [dirty |-> VRAMDirty, mapping |-> Mapping, flat |-> VRAMFlat]

DrawScanlines(s) ==
  LET a == Synced(Synced(Synced(s, "ABG"), "ABGExtPal"), "AOBJExtPal")
  IN Synced(Synced(Synced(a, "BBG"), "BBGExtPal"), "BOBJExtPal")
DrawSprites(s) == Synced(Synced(s, "AOBJ"), "BOBJ")

Become(s) ==
  /\ VRAMDirty' = s.dirty /\ Mapping' = s.mapping /\ VRAMFlat' = s.flat
  /\ UNCHANGED <<placing, VRAM>>

\* StartHBlank draws a line of both screens and the sprites of the next one.
DrawLine == Become(DrawSprites(DrawScanlines(Present)))
DrawLastLine == Become(DrawScanlines(Present))
DrawFirstSprites == Become(DrawSprites(Present))

\* The capture of a line that was drawn, to a bank in LCDC mode.
DoCapture(s, b, u, v) ==
  /\ b \in {"A", "B", "C", "D"} /\ <<"LCDC", 0, b>> \in VRAMMap
  /\ Store({b}, u, v)
  /\ VRAMDirty' = [s.dirty EXCEPT ![b] = @ \cup {u}]
  /\ Mapping' = s.mapping /\ VRAMFlat' = s.flat
  /\ UNCHANGED placing

\* The second screen and the next line's sprites are drawn after the capture,
\* but from banks that are not in LCDC mode: the order does not matter.
CaptureLine(b, u, v) == DoCapture(DrawSprites(DrawScanlines(Present)), b, u, v)
CaptureLastLine(b, u, v) == DoCapture(DrawScanlines(Present), b, u, v)

\* Renderer3D::RenderFrame, at line 215.
RenderFrame == Become(Synced(Synced(Present, "Texture"), "TexPal"))

-----------------------------------------------------------------------------
Init ==
  /\ VRAMCNT = [b \in Banks |-> Off] /\ VRAMSTAT = {}
  /\ VRAMMap = {} /\ VRAMPtr = {}
  /\ VRAM = [b \in Banks |-> {}] /\ VRAMDirty = [b \in Banks |-> {}]
  /\ Mapping = [r \in Regions |-> None] /\ VRAMFlat = [r \in Regions |-> {}]

\* GPU::Reset and DoSavestate both end in ResetVRAMCache, which forgets the
\* flat copies, what they were copied from and the dirty bits.  The masks come
\* from the file, the pointers are made from them.
LoadState(s) ==
  /\ VRAMCNT' = s.cnt /\ VRAM' = s.mem
  /\ VRAMSTAT' = s.stat /\ VRAMMap' = s.map
  /\ VRAMPtr' = GetUniqueBankPtr(s.map)
  /\ VRAMDirty' = [b \in Banks |-> {}]
  /\ Mapping' = [r \in Regions |-> None] /\ VRAMFlat' = [r \in Regions |-> {}]

Reset == LoadState([cnt |-> [b \in Banks |-> Off], stat |-> {}, map |-> {},
                    mem |-> [b \in Banks |-> {}]])

Next ==
  \/ \E b \in Banks : \E c \in Uses[b] : MapVRAM(b, c)
  \/ \E v \in BOOLEAN, u \in Touched :
       \/ \E r \in CPURegions : u \in Units(r) /\ WriteVRAM(r, u, v)
       \/ \E b \in Banks : /\ u < Size[b]
                           /\ \/ WriteVRAM_LCDC(b, u, v)
                              \/ CaptureLine(b, u, v) \/ CaptureLastLine(b, u, v)
       \/ \E i \in {0, 1} : u < 16 /\ WriteVRAM_ARM7(i, u, v)
  \/ DrawLine \/ DrawLastLine \/ DrawFirstSprites \/ RenderFrame
  \/ Reset \/ \E s \in Saves : LoadState(s)

Spec == Init /\ [][Next]_vars

-----------------------------------------------------------------------------
(* Properties. *)

TypeOK ==
  /\ VRAMCNT \in [Banks -> VRAMControl] /\ VRAMSTAT \subseteq Banks
  /\ \A m \in VRAMMap : m[3] \in Banks
  /\ VRAMPtr \subseteq VRAMMap
  /\ VRAM \in [Banks -> SUBSET Nat] /\ VRAMDirty \in [Banks -> SUBSET Nat]
  /\ DOMAIN Mapping = Regions
  /\ VRAMFlat \in [Regions -> SUBSET Nat]

\* The masks and pointers kept up to date by MapVRAM_* are the ones VRAMCNT
\* asks for, whatever overlapped on the way (GPU.cpp:552-993): no slot keeps a
\* bank that has left, a slot is read directly exactly while it holds one
\* bank, and the ARM7 is told of no bank it does not have.
BanksInPlace ==
  /\ VRAMMap = UNION {Placed(b, VRAMCNT[b]) : b \in Banks}
  /\ VRAMPtr = GetUniqueBankPtr(VRAMMap)
  /\ VRAMSTAT \subseteq {b \in Banks : ToARM7(b, VRAMCNT[b])}

\* The banks a game uses for one kind of graphics, besides LCDC and the ARM7.
Exclusive ==
  {b \in Banks : \E r \in Regions : \A c \in Uses[b] : \A p \in Place(b, c) :
                   p[1] \in Regions => p[1] = r}

\* Reading ORs the banks of a slot, also where SlowBanks does not.
Overlaid(r, banks) == r = "AOBJExtPal" /\ Cardinality(banks) > 1

\* "this piece wasn't remapped, which means we need to check whether it was
\* changed.  This can be archived by checking VRAMDirty" (GPU.cpp:61-63): a
\* unit of a flat copy whose banks have no dirty bit for it is what those
\* banks hold now, wherever they have been and whoever wrote to them since it
\* was copied.  One set of dirty bits serves all regions, so this is so for
\* banks that are used by a single one.
FlatIsCurrent ==
  \A r \in Regions : Mapping[r] # None =>
    \A u \in Units(r) :
      LET banks == BanksAt(Mapping[r], r, SlotOf(r, u))
          unmarked == \A b \in banks : u % Size[b] \notin VRAMDirty[b]
      IN (banks \subseteq Exclusive /\ unmarked /\ ~Overlaid(r, banks))
           => (u \in VRAMFlat[r] <=> \E b \in banks : u % Size[b] \in VRAM[b])
=============================================================================
