---------------------------- MODULE MemoryProofs ----------------------------
(***************************************************************************)
(* What is derived from memory agrees with it, for every program: the flat *)
(* copies of the video memory banks that the renderers draw from, and the  *)
(* blocks that the JIT has compiled.                                       *)
(*                                                                         *)
(* The first part is about VRAM: the slots hold the banks that VRAMCNT     *)
(* asks for, and the flat copies are what the banks hold.  The second part *)
(* is about JITCache: nothing points to a deleted block, a store finds the *)
(* blocks it concerns, and the block a CPU runs is what memory holds.      *)
(***************************************************************************)
EXTENDS VRAM, JITCache, FiniteSetTheorems, SequenceTheorems, WellFoundedInduction, TLAPS

-----------------------------------------------------------------------------
(* VRAM.                                                                   *)

CntOK == VRAMCNT \in [Banks -> VRAMControl]

\* The triples of a bank name that bank, so those of different banks are
\* disjoint: this is why taking out the old ones of b disturbs no other.
LEMMA PlacedNamesBank ==
  ASSUME NEW b, NEW c, NEW m \in Placed(b, c)
  PROVE  m[3] = b
BY DEF Placed, InSlots

\* The switches that unmap a bank take it out of the slots that the switches
\* that map it have put it into.
LEMMA UnmapsWhatIsMapped ==
  ASSUME NEW b \in Banks, NEW c
  PROVE  Unmap(b, c) = Place(b, c)
<1>1. Unmap_AB(c) = Place_AB(c) /\ Unmap_CD(b, c) = Place_CD(b, c)
  BY DEF Unmap_AB, Place_AB, Unmap_CD, Place_CD
<1>2. Unmap_E(c) = Place_E(c) /\ Unmap_FG(c) = Place_FG(c)
  BY DEF Unmap_E, Place_E, Unmap_FG, Place_FG
<1>3. Unmap_H(c) = Place_H(c) /\ Unmap_I(c) = Place_I(c)
  BY DEF Unmap_H, Place_H, Unmap_I, Place_I
<1> QED BY <1>1, <1>2, <1>3 DEF Unmap, Place

\* A pointer is kept where the masks are, and made anew where they changed.
LEMMA RepointedIsUnique ==
  ASSUME NEW old, NEW new, NEW slots,
         \A m : (\A p \in slots : ~(p[1] = m[1] /\ p[2] = m[2])) => (m \in old <=> m \in new)
  PROVE  Repointed(GetUniqueBankPtr(old), new, slots) = GetUniqueBankPtr(new)
<1>1. ASSUME NEW m, \A p \in slots : ~(p[1] = m[1] /\ p[2] = m[2])
      PROVE  m \in GetUniqueBankPtr(old) <=> m \in GetUniqueBankPtr(new)
  <2>1. m \in old <=> m \in new
    BY <1>1
  <2>2. \A x : x[1] = m[1] /\ x[2] = m[2] => (x \in old <=> x \in new)
    BY <1>1
  <2>3. {x \in old : x[1] = m[1] /\ x[2] = m[2]} = {x \in new : x[1] = m[1] /\ x[2] = m[2]}
    BY <2>2
  <2>4. BanksAt(old, m[1], m[2]) = BanksAt(new, m[1], m[2])
    BY <2>3 DEF BanksAt
  <2> QED BY <2>1, <2>4 DEF GetUniqueBankPtr
<1>2. \A m : m \in Repointed(GetUniqueBankPtr(old), new, slots) <=> m \in GetUniqueBankPtr(new)
  <2> SUFFICES ASSUME NEW m
               PROVE  m \in Repointed(GetUniqueBankPtr(old), new, slots)
                        <=> m \in GetUniqueBankPtr(new)
    OBVIOUS
  <2>1. CASE \A p \in slots : ~(p[1] = m[1] /\ p[2] = m[2])
    BY <1>1, <2>1 DEF Repointed
  <2>2. CASE \E p \in slots : p[1] = m[1] /\ p[2] = m[2]
    BY <2>2 DEF Repointed
  <2> QED BY <2>1, <2>2
<1> QED BY <1>2

\* Unmapping and mapping a bank leaves the pointers that the masks ask for.
LEMMA MovedIsPointedTo ==
  ASSUME NEW b \in Banks, NEW c, NEW d, VRAMPtr = GetUniqueBankPtr(VRAMMap)
  PROVE  Repointed(Repointed(VRAMPtr, Left(b, d), Unmap(b, d)), Moved(b, d, c), Place(b, c))
           = GetUniqueBankPtr(Moved(b, d, c))
<1>1. ASSUME NEW m, \A p \in Unmap(b, d) : ~(p[1] = m[1] /\ p[2] = m[2])
      PROVE  m \in VRAMMap <=> m \in Left(b, d)
  BY <1>1 DEF Left, InSlots
<1>2. ASSUME NEW m, \A p \in Place(b, c) : ~(p[1] = m[1] /\ p[2] = m[2])
      PROVE  m \in Left(b, d) <=> m \in Moved(b, d, c)
  BY <1>2 DEF Moved, Placed, InSlots
<1>3. Repointed(VRAMPtr, Left(b, d), Unmap(b, d)) = GetUniqueBankPtr(Left(b, d))
  BY <1>1, RepointedIsUnique
<1> QED BY <1>2, <1>3, RepointedIsUnique

\* Moving one bank leaves the map VRAMCNT asks for.
LEMMA MovedIsPlaced ==
  ASSUME CntOK, NEW b \in Banks, NEW c,
         VRAMMap = UNION {Placed(x, VRAMCNT[x]) : x \in Banks}
  PROVE  \A m : m \in Moved(b, VRAMCNT[b], c) <=>
                 \E x \in Banks : m \in Placed(x, [VRAMCNT EXCEPT ![b] = c][x])
<1> DEFINE new == [VRAMCNT EXCEPT ![b] = c]
<1>0. Left(b, VRAMCNT[b]) = VRAMMap \ Placed(b, VRAMCNT[b])
  BY UnmapsWhatIsMapped DEF Left, Placed
<1>1. new[b] = c /\ \A x \in Banks \ {b} : new[x] = VRAMCNT[x]
  BY DEF CntOK
<1>2. ASSUME NEW m \in Moved(b, VRAMCNT[b], c)
      PROVE  \E x \in Banks : m \in Placed(x, new[x])
  <2>1. CASE m \in Placed(b, c)
    BY <1>1, <2>1
  <2>2. CASE m \in VRAMMap /\ m \notin Placed(b, VRAMCNT[b])
    <3>1. PICK x \in Banks : m \in Placed(x, VRAMCNT[x])
      BY <2>2
    <3>2. x # b
      BY <2>2, <3>1
    <3> QED BY <1>1, <3>1, <3>2
  <2> QED BY <1>0, <1>2, <2>1, <2>2 DEF Moved
<1>3. ASSUME NEW x \in Banks, NEW m \in Placed(x, new[x])
      PROVE  m \in Moved(b, VRAMCNT[b], c)
  <2>1. CASE x = b
    BY <1>1, <2>1 DEF Moved
  <2>2. CASE x # b
    <3>1. m \in Placed(x, VRAMCNT[x])
      BY <1>1, <2>2
    <3>2. m \in VRAMMap
      BY <3>1
    <3>3. m[3] = x
      BY <3>1, PlacedNamesBank
    <3>4. m \notin Placed(b, VRAMCNT[b])
      BY <3>3, <2>2, PlacedNamesBank
    <3> QED BY <1>0, <3>2, <3>4 DEF Moved
  <2> QED BY <2>1, <2>2
<1> QED BY <1>2, <1>3

LEMMA MapVRAMInPlace ==
  ASSUME CntOK, BanksInPlace, NEW b \in Banks, NEW c \in Uses[b], MapVRAM(b, c)
  PROVE  CntOK' /\ BanksInPlace'
<1>1. c \in VRAMControl
  BY UsesAssumption
<1>2. CntOK'
  BY <1>1 DEF CntOK, MapVRAM
<1>3. \A x \in Banks : VRAMCNT'[x] = IF x = b THEN c ELSE VRAMCNT[x]
  BY DEF CntOK, MapVRAM
<1>4. CASE VRAMCNT[b] = c
  <2>1. VRAMCNT' = VRAMCNT
    BY <1>4 DEF CntOK, MapVRAM
  <2>2. VRAMMap' = VRAMMap /\ VRAMPtr' = VRAMPtr /\ VRAMSTAT' \subseteq VRAMSTAT
    BY <1>4 DEF MapVRAM
  <2> QED BY <1>2, <2>1, <2>2 DEF BanksInPlace
<1>5. CASE VRAMCNT[b] # c
  <2>1. VRAMMap' = UNION {Placed(x, VRAMCNT'[x]) : x \in Banks}
    <3>1. VRAMMap = UNION {Placed(x, VRAMCNT[x]) : x \in Banks}
      BY DEF BanksInPlace
    <3>2. \A m : m \in Moved(b, VRAMCNT[b], c) <=>
                 \E x \in Banks : m \in Placed(x, [VRAMCNT EXCEPT ![b] = c][x])
      BY <3>1, MovedIsPlaced
    <3>3. VRAMMap' = Moved(b, VRAMCNT[b], c) /\ VRAMCNT' = [VRAMCNT EXCEPT ![b] = c]
      BY <1>5 DEF MapVRAM
    <3>4. \A m : m \in VRAMMap' <=> \E x \in Banks : m \in Placed(x, VRAMCNT'[x])
      BY <3>2, <3>3
    <3> QED BY <3>4
  <2>2. VRAMPtr' = GetUniqueBankPtr(VRAMMap')
    <3>1. VRAMPtr = GetUniqueBankPtr(VRAMMap)
      BY DEF BanksInPlace
    <3>2. /\ VRAMMap' = Moved(b, VRAMCNT[b], c)
          /\ VRAMPtr' = Repointed(Repointed(VRAMPtr, Left(b, VRAMCNT[b]), Unmap(b, VRAMCNT[b])),
                                  VRAMMap', Place(b, c))
      BY <1>5 DEF MapVRAM
    <3> QED BY <3>1, <3>2, MovedIsPointedTo
  <2>3. VRAMSTAT' \subseteq {x \in Banks : ToARM7(x, VRAMCNT'[x])}
    <3>1. VRAMSTAT' = IF ToARM7(b, c) THEN VRAMSTAT \cup {b} ELSE VRAMSTAT \ {b}
      BY <1>5 DEF MapVRAM
    <3>2. \A x \in VRAMSTAT : x \in Banks /\ ToARM7(x, VRAMCNT[x])
      BY DEF BanksInPlace
    <3> QED BY <1>3, <3>1, <3>2
  <2> QED BY <1>2, <2>1, <2>2, <2>3 DEF BanksInPlace
<1> QED BY <1>4, <1>5

LEMMA LoadStateInPlace ==
  ASSUME NEW s, s.cnt \in [Banks -> VRAMControl], LoadState(s),
         s.map = UNION {Placed(b, s.cnt[b]) : b \in Banks},
         s.stat \subseteq {b \in Banks : ToARM7(b, s.cnt[b])}
  PROVE  CntOK' /\ BanksInPlace'
BY DEF LoadState, CntOK, BanksInPlace

\* Everything else leaves the registers and the masks alone.
LEMMA PlacingUnchanged ==
  ASSUME CntOK, BanksInPlace, UNCHANGED placing
  PROVE  CntOK' /\ BanksInPlace'
BY DEF placing, CntOK, BanksInPlace

LEMMA InPlaceInductive ==
  ASSUME CntOK, BanksInPlace, [Next]_vars
  PROVE  CntOK' /\ BanksInPlace'
<1>1. ASSUME NEW b \in Banks, NEW c \in Uses[b], MapVRAM(b, c)
      PROVE  CntOK' /\ BanksInPlace'
  BY <1>1, MapVRAMInPlace
<1>2. ASSUME NEW v \in BOOLEAN, NEW u \in Touched, NEW r \in CPURegions, WriteVRAM(r, u, v)
      PROVE  UNCHANGED placing
  BY <1>2 DEF WriteVRAM
<1>3. ASSUME NEW v \in BOOLEAN, NEW u \in Touched, NEW b \in Banks,
             \/ WriteVRAM_LCDC(b, u, v)
             \/ CaptureLine(b, u, v) \/ CaptureLastLine(b, u, v)
      PROVE  UNCHANGED placing
  BY <1>3 DEF WriteVRAM_LCDC, CaptureLine, CaptureLastLine, DoCapture
<1>4. ASSUME NEW v \in BOOLEAN, NEW u \in Touched, NEW i \in {0, 1}, WriteVRAM_ARM7(i, u, v)
      PROVE  UNCHANGED placing
  BY <1>4 DEF WriteVRAM_ARM7
<1>5. CASE DrawLine \/ DrawLastLine \/ DrawFirstSprites \/ RenderFrame
  <2>1. UNCHANGED placing
    BY <1>5 DEF DrawLine, DrawLastLine, DrawFirstSprites, RenderFrame, Become
  <2> QED BY <2>1, PlacingUnchanged
<1>6. CASE Reset
  <2> DEFINE off == [cnt |-> [b \in Banks |-> Off], stat |-> {}, map |-> {},
                     mem |-> [b \in Banks |-> {}]]
  <2>1. off.cnt \in [Banks -> VRAMControl]
    BY DEF VRAMControl
  <2>2. LoadState(off)
    BY <1>6 DEF Reset
  <2>3. \A b \in Banks : Placed(b, off.cnt[b]) = {}
    BY DEF Placed, InSlots, Place
  <2>4. /\ off.map = UNION {Placed(b, off.cnt[b]) : b \in Banks}
        /\ off.stat \subseteq {b \in Banks : ToARM7(b, off.cnt[b])}
    BY <2>3
  <2> QED BY <2>1, <2>2, <2>4, LoadStateInPlace
<1>7. ASSUME NEW s \in Saves, LoadState(s)
      PROVE  CntOK' /\ BanksInPlace'
  BY <1>7, LoadStateInPlace, SavesAssumption
<1>8. CASE UNCHANGED vars
  BY <1>8, PlacingUnchanged DEF vars
<1> QED BY <1>1, <1>2, <1>3, <1>4, <1>5, <1>6, <1>7, <1>8, PlacingUnchanged DEF Next

LEMMA InitInPlace == Init => CntOK /\ BanksInPlace
<1> SUFFICES ASSUME Init PROVE CntOK /\ BanksInPlace
  OBVIOUS
<1>1. \A b \in Banks : VRAMCNT[b] = Off /\ Placed(b, VRAMCNT[b]) = {}
  BY DEF Init, Placed, InSlots, Place
<1>2. UNION {Placed(b, VRAMCNT[b]) : b \in Banks} = {}
  BY <1>1
<1>3. VRAMPtr = GetUniqueBankPtr(VRAMMap)
  BY DEF Init, GetUniqueBankPtr
<1>4. CntOK
  BY DEF Init, CntOK, VRAMControl
<1> QED BY <1>2, <1>3, <1>4 DEF Init, BanksInPlace

\* The masks and pointers that MapVRAM_AB to _I keep up to date bank by bank
\* (GPU.cpp:552-993) are always the ones all nine VRAMCNT ask for, and the
\* ARM7 is told of no bank it does not have, whatever a game writes there.
THEOREM BanksStayInPlace == Spec => []BanksInPlace
<1>1. CntOK /\ BanksInPlace /\ [Next]_vars => CntOK' /\ BanksInPlace'
  BY InPlaceInductive
<1> QED BY <1>1, InitInPlace, PTL DEF Spec

-----------------------------------------------------------------------------
(* The flat copies.  The invariant is stated for any tracking state: dirty *)
(* bits d, mappings mp seen last and flat copies fl; it is kept by every   *)
(* single DeriveState, and so by any sequence of them.                     *)

\* A game uses bank b for region r.
Appears(b, r) == \E c \in Uses[b] : \E p \in Place(b, c) : p[1] = r

\* VRAMCNT holds what the game writes there.
CntUsed == \A b \in Banks : VRAMCNT[b] \in Uses[b] \cup {Off}

Placement == CntOK /\ BanksInPlace /\ CntUsed

\* A tracking set has only seen banks that the game uses for its region.
UsedIn(mp) ==
  \A r \in Regions : mp[r] # None =>
    \A m \in mp[r] : m[3] \in Banks /\ Appears(m[3], r)

\* The stores of the ARM7 set no dirty bits: while it has a bank, the bank is
\* dirty all over, or no region has seen it.
AnticipatedIn(cnt, d, mp) ==
  \A b \in Banks : ToARM7(b, cnt[b]) =>
    \/ 0 .. (Size[b] - 1) \subseteq d[b]
    \/ \A r \in Regions : mp[r] # None => \A m \in mp[r] : m[3] # b

CurrentIn(d, mp, fl, mem) ==
  \A r \in Regions : mp[r] # None =>
    \A u \in Units(r) :
      (/\ BanksAt(mp[r], r, SlotOf(r, u)) \subseteq Exclusive
       /\ \A b \in BanksAt(mp[r], r, SlotOf(r, u)) : u % Size[b] \notin d[b]
       /\ ~Overlaid(r, BanksAt(mp[r], r, SlotOf(r, u))))
      => (u \in fl[r] <=>
            \E b \in BanksAt(mp[r], r, SlotOf(r, u)) : u % Size[b] \in mem[b])

Tracks(d, mp, fl) ==
  /\ DOMAIN d = Banks /\ DOMAIN mp = Regions /\ DOMAIN fl = Regions
  /\ UsedIn(mp)
  /\ AnticipatedIn(VRAMCNT, d, mp)
  /\ CurrentIn(d, mp, fl, VRAM)

FlatInv == Placement /\ Tracks(VRAMDirty, Mapping, VRAMFlat)

LEMMA CurrentDef ==
  FlatIsCurrent <=> CurrentIn(VRAMDirty, Mapping, VRAMFlat, VRAM)
BY DEF FlatIsCurrent, CurrentIn

LEMMA BanksAtMember ==
  ASSUME NEW map, NEW r, NEW i, NEW b
  PROVE  b \in BanksAt(map, r, i) <=> \E m \in map : m[1] = r /\ m[2] = i /\ m[3] = b
BY DEF BanksAt

LEMMA BankSizes ==
  /\ Banks = {"A", "B", "C", "D", "E", "F", "G", "H", "I"}
  /\ \A b \in Banks : Size[b] \in Nat \ {0}
BY DEF Banks, Size

LEMMA BanksFinite == IsFiniteSet(Banks)
<1>1. ASSUME NEW x, NEW y, NEW z PROVE IsFiniteSet({x, y, z})
  <2>1. IsFiniteSet({x})
    BY FS_Singleton
  <2>2. IsFiniteSet({x} \cup {y})
    BY <2>1, FS_AddElement
  <2>3. IsFiniteSet(({x} \cup {y}) \cup {z})
    BY <2>2, FS_AddElement
  <2>4. ({x} \cup {y}) \cup {z} = {x, y, z}
    OBVIOUS
  <2> QED BY <2>3, <2>4
<1>2. Banks = ({"A", "B", "C"} \cup {"D", "E", "F"}) \cup {"G", "H", "I"}
  BY BankSizes
<1>3. IsFiniteSet({"A", "B", "C"} \cup {"D", "E", "F"})
  BY <1>1, FS_Union
<1> QED BY <1>1, <1>2, <1>3, FS_Union

LEMMA RegionNames ==
  Regions = {"ABG", "AOBJ", "BBG", "BOBJ", "ABGExtPal", "AOBJExtPal",
             "BBGExtPal", "BOBJExtPal", "Texture", "TexPal"}
BY DEF Regions, Slots

\* A unit of a region lies in one of its slots, and wraps around in a bank.
LEMMA UnitsFit ==
  ASSUME NEW r \in Regions, NEW u \in Units(r)
  PROVE  /\ u \in Nat /\ SlotOf(r, u) \in 0 .. (Slots[r] - 1)
         /\ \A b \in Banks : u % Size[b] \in 0 .. (Size[b] - 1)
<1>1. u \in Nat /\ SlotOf(r, u) \in 0 .. (Slots[r] - 1)
  BY RegionNames DEF Units, SlotOf, SlotUnits, Slots
<1>2. \A b \in Banks : u % Size[b] \in 0 .. (Size[b] - 1)
  BY <1>1, BankSizes
<1> QED BY <1>1, <1>2

\* A bank used for one kind of graphics appears in one region only.
LEMMA ExclusiveRegion ==
  ASSUME NEW b \in Exclusive, NEW r1 \in Regions, NEW r2 \in Regions,
         Appears(b, r1), Appears(b, r2)
  PROVE  r1 = r2
BY DEF Exclusive, Appears

\* The ARM7 has exactly the banks ToARM7 says.
LEMMA PlaceARM7 ==
  ASSUME NEW b \in Banks, NEW c \in Uses[b] \cup {Off}
  PROVE  /\ ToARM7(b, c) => \A p \in Place(b, c) : p[1] = "ARM7"
         /\ (\E p \in Place(b, c) : p[1] = "ARM7") => ToARM7(b, c)
<1>1. CASE c = Off
  BY <1>1 DEF Place, ToARM7
<1>2. CASE c # Off
  <2>1. c \in [mst : 0 .. 7, ofs : 0 .. 3] /\ Masked(b, c)
    BY <1>2, UsesAssumption DEF VRAMControl
  <2>2. ASSUME NEW r, NEW base, NEW n, NEW p \in SlotRange(r, base, n)
        PROVE  p[1] = r
    BY DEF SlotRange
  <2>3. CASE b \in {"A", "B"}
    <3>1. Place(b, c) = Place_AB(c) /\ c.mst \in 0 .. 3
      BY <1>2, <2>1, <2>3 DEF Place, Masked
    <3>2. \A p \in Place_AB(c) : p[1] # "ARM7"
      BY <2>2, <3>1 DEF Place_AB, LCDC
    <3> QED BY <2>3, <3>1, <3>2 DEF ToARM7
  <2>4. CASE b \in {"C", "D"}
    <3>1. Place(b, c) = Place_CD(b, c)
      BY <1>2, <2>4 DEF Place
    <3>2. c.mst = 2 => \A p \in Place_CD(b, c) : p[1] = "ARM7"
      BY DEF Place_CD
    <3>3. c.mst # 2 => \A p \in Place_CD(b, c) : p[1] # "ARM7"
      BY <2>1, <2>2 DEF Place_CD, LCDC
    <3> QED BY <1>2, <2>4, <3>1, <3>2, <3>3 DEF ToARM7
  <2>5. CASE b = "E"
    <3>1. Place(b, c) = Place_E(c)
      BY <1>2, <2>5 DEF Place
    <3>2. \A p \in Place_E(c) : p[1] # "ARM7"
      BY <2>2 DEF Place_E, LCDC
    <3> QED BY <2>5, <3>1, <3>2 DEF ToARM7
  <2>6. CASE b \in {"F", "G"}
    <3>1. Place(b, c) = Place_FG(c)
      BY <1>2, <2>6 DEF Place
    <3>2. \A p \in Place_FG(c) : p[1] # "ARM7"
      BY <2>2 DEF Place_FG, LCDC
    <3> QED BY <2>6, <3>1, <3>2 DEF ToARM7
  <2>7. CASE b = "H"
    <3>1. Place(b, c) = Place_H(c)
      BY <1>2, <2>7 DEF Place
    <3>2. \A p \in Place_H(c) : p[1] # "ARM7"
      BY <2>2 DEF Place_H, LCDC
    <3> QED BY <2>7, <3>1, <3>2 DEF ToARM7
  <2>8. CASE b = "I"
    <3>1. Place(b, c) = Place_I(c) /\ c.mst \in 0 .. 3
      BY <1>2, <2>1, <2>8 DEF Place, Masked
    <3>2. \A p \in Place_I(c) : p[1] # "ARM7"
      BY <2>2, <3>1 DEF Place_I, LCDC
    <3> QED BY <2>8, <3>1, <3>2 DEF ToARM7
  <2> QED BY <2>3, <2>4, <2>5, <2>6, <2>7, <2>8, BankSizes
<1> QED BY <1>1, <1>2

\* What is mapped now is a use the game makes of the bank, and a bank that the
\* ARM7 has is in no region.
LEMMA MappedIsUsed ==
  ASSUME Placement, NEW m \in VRAMMap
  PROVE  /\ m[3] \in Banks /\ Appears(m[3], m[1])
         /\ m[1] = "ARM7" <=> ToARM7(m[3], VRAMCNT[m[3]])
<1>1. PICK b \in Banks : m \in Placed(b, VRAMCNT[b])
  BY DEF Placement, BanksInPlace
<1>2. PICK p \in Place(b, VRAMCNT[b]) : m = <<p[1], p[2], b>>
  BY <1>1 DEF Placed, InSlots
<1>3. VRAMCNT[b] \in Uses[b] \cup {Off}
  BY DEF Placement, CntUsed
<1>4. VRAMCNT[b] \in Uses[b]
  BY <1>2, <1>3 DEF Place
<1>5. m[1] = p[1] /\ m[3] = b
  BY <1>2
<1> QED BY <1>2, <1>3, <1>4, <1>5, PlaceARM7 DEF Appears

\* Reading a slot directly or with ReadVRAM_<region> gives the OR of its banks,
\* but for the extended palettes of sprites in an overlaid slot.
LEMMA ReadsAll ==
  ASSUME Placement, NEW r \in Regions, NEW u \in Units(r),
         ~Overlaid(r, BanksAt(VRAMMap, r, SlotOf(r, u)))
  PROVE  Reads(r, u) <=> \E b \in BanksAt(VRAMMap, r, SlotOf(r, u)) :
                            u % Size[b] \in VRAM[b]
<1> DEFINE banks == BanksAt(VRAMMap, r, SlotOf(r, u))
<1>1. banks \subseteq Banks
  BY BanksAtMember, MappedIsUsed
<1>2. IsFiniteSet(banks) /\ Cardinality(banks) \in Nat
  BY <1>1, BanksFinite, FS_Subset, FS_CardinalityType
<1>3. Cardinality(banks) = 0 => banks = {}
  BY <1>2, FS_EmptySet
<1> DEFINE read == IF Cardinality(banks) = 1 THEN banks ELSE SlowBanks(r, banks)
<1>4. read = banks
  <2>1. CASE r # "AOBJExtPal"
    BY <2>1 DEF SlowBanks
  <2>2. CASE r = "AOBJExtPal"
    <3>1. Cardinality(banks) = 1 \/ banks = {}
      BY <1>2, <1>3, <2>2 DEF Overlaid
    <3> QED BY <3>1 DEF SlowBanks
  <2> QED BY <2>1, <2>2
<1>5. Reads(r, u) <=> \E b \in read : u % Size[b] \in VRAM[b]
  BY DEF Reads
<1> HIDE DEF banks, read
<1>6. Reads(r, u) <=> \E b \in banks : u % Size[b] \in VRAM[b]
  BY <1>4, <1>5
<1> QED BY <1>6 DEF banks

\* A unit that DeriveState does not list is in a slot with the same banks as
\* before, none of which is dirty there.
LEMMA NotDerived ==
  ASSUME Placement, NEW s, NEW r \in Regions, NEW u \in Units(r),
         u \notin DeriveState(s, r)
  PROVE  /\ s.mapping[r] # None
         /\ BanksAt(s.mapping[r], r, SlotOf(r, u)) = BanksAt(MapOf(r), r, SlotOf(r, u))
         /\ \A b \in BanksAt(MapOf(r), r, SlotOf(r, u)) : u % Size[b] \notin s.dirty[b]
<1> DEFINE i == SlotOf(r, u)
<1>1. i \notin Remapped(s, r)
  BY DEF DeriveState
<1>2. i \in 0 .. (Slots[r] - 1)
  BY UnitsFit
<1>3. s.mapping[r] # None
  BY <1>1, <1>2 DEF Remapped
<1>4. \A m : m[2] = i => (m \in s.mapping[r] <=> m \in MapOf(r))
  BY <1>1, <1>3 DEF Remapped
<1>5. \A b : b \in BanksAt(s.mapping[r], r, i) <=> b \in BanksAt(MapOf(r), r, i)
  <2> HIDE DEF i
  <2> QED BY <1>4, BanksAtMember
<1>6. BanksAt(s.mapping[r], r, i) = BanksAt(MapOf(r), r, i)
  <2> HIDE DEF i
  <2> QED BY <1>5
<1>7. ASSUME NEW b \in BanksAt(MapOf(r), r, i)
      PROVE  u % Size[b] \notin s.dirty[b]
  <2>1. PICK m \in MapOf(r) : m[2] = i /\ m[3] = b
    BY <1>7, BanksAtMember
  <2> QED BY <2>1 DEF DeriveState
<1> QED BY <1>3, <1>6, <1>7

LEMMA MapOfSlot ==
  ASSUME NEW r, NEW i
  PROVE  BanksAt(MapOf(r), r, i) = BanksAt(VRAMMap, r, i)
<1>1. \A b : b \in BanksAt(MapOf(r), r, i) <=> b \in BanksAt(VRAMMap, r, i)
  BY BanksAtMember DEF MapOf
<1> QED BY <1>1

\* One DeriveState with its copying keeps the tracking right: for its region
\* everything is up to date, and no other region misses the dirty bits that
\* are cleared, since no other region uses those banks.
LEMMA SyncedTracks ==
  ASSUME Placement, NEW s, NEW r \in Regions, Tracks(s.dirty, s.mapping, s.flat)
  PROVE  Tracks(Synced(s, r).dirty, Synced(s, r).mapping, Synced(s, r).flat)
<1> DEFINE d  == Synced(s, r).dirty
           mp == Synced(s, r).mapping
           fl == Synced(s, r).flat
           copied == DeriveState(s, r)
<1>1. /\ DOMAIN d = Banks
      /\ \A b \in Banks : d[b] = IF b \in BanksToBeZeroed(r) THEN {} ELSE s.dirty[b]
  BY DEF Synced
<1>2. /\ DOMAIN mp = Regions /\ mp[r] = MapOf(r)
      /\ \A x \in Regions \ {r} : mp[x] = s.mapping[x]
  BY DEF Synced, Tracks
<1>3. /\ DOMAIN fl = Regions
      /\ fl[r] = (s.flat[r] \ copied) \cup {u \in copied : Reads(r, u)}
      /\ \A x \in Regions \ {r} : fl[x] = s.flat[x]
  BY DEF Synced, Tracks
<1> HIDE DEF d, mp, fl
<1>4. \A m \in MapOf(r) : m \in VRAMMap /\ m[1] = r
  BY DEF MapOf
<1>5. UsedIn(mp)
  <2> SUFFICES ASSUME NEW x \in Regions, mp[x] # None, NEW m \in mp[x]
               PROVE  m[3] \in Banks /\ Appears(m[3], x)
    BY DEF UsedIn
  <2>1. CASE x = r
    BY <1>2, <1>4, <2>1, MappedIsUsed
  <2>2. CASE x # r
    BY <1>2, <2>2 DEF Tracks, UsedIn
  <2> QED BY <2>1, <2>2
<1>6. AnticipatedIn(VRAMCNT, d, mp)
  <2> SUFFICES ASSUME NEW b \in Banks, ToARM7(b, VRAMCNT[b])
               PROVE  \/ 0 .. (Size[b] - 1) \subseteq d[b]
                      \/ \A x \in Regions : mp[x] # None => \A m \in mp[x] : m[3] # b
    BY DEF AnticipatedIn
  <2>1. "ARM7" \notin Regions
    BY RegionNames
  <2>2. \A m \in MapOf(r) : m[3] # b
    BY <1>4, <2>1, MappedIsUsed
  <2>3. d[b] = s.dirty[b]
    BY <1>1, <2>2 DEF BanksToBeZeroed
  <2>4. \/ 0 .. (Size[b] - 1) \subseteq s.dirty[b]
        \/ \A x \in Regions : s.mapping[x] # None => \A m \in s.mapping[x] : m[3] # b
    BY DEF Tracks, AnticipatedIn
  <2> QED BY <1>2, <2>2, <2>3, <2>4
<1>7. CurrentIn(d, mp, fl, VRAM)
  <2> SUFFICES ASSUME NEW x \in Regions, mp[x] # None, NEW u \in Units(x),
                      BanksAt(mp[x], x, SlotOf(x, u)) \subseteq Exclusive,
                      \A b \in BanksAt(mp[x], x, SlotOf(x, u)) : u % Size[b] \notin d[b],
                      ~Overlaid(x, BanksAt(mp[x], x, SlotOf(x, u)))
               PROVE  u \in fl[x] <=> \E b \in BanksAt(mp[x], x, SlotOf(x, u)) :
                                         u % Size[b] \in VRAM[b]
    BY DEF CurrentIn
  <2>1. CASE x = r /\ u \in copied
    <3>1. BanksAt(mp[x], x, SlotOf(x, u)) = BanksAt(VRAMMap, r, SlotOf(r, u))
      BY <1>2, <2>1, MapOfSlot
    <3>2. u \in fl[x] <=> Reads(r, u)
      BY <1>3, <2>1
    <3> QED BY <2>1, <3>1, <3>2, ReadsAll
  <2>2. CASE x = r /\ u \notin copied
    <3>1. /\ s.mapping[r] # None
          /\ BanksAt(s.mapping[r], r, SlotOf(r, u)) = BanksAt(mp[x], x, SlotOf(x, u))
          /\ \A b \in BanksAt(mp[x], x, SlotOf(x, u)) : u % Size[b] \notin s.dirty[b]
      BY <1>2, <2>2, NotDerived
    <3>2. u \in fl[x] <=> u \in s.flat[r]
      BY <1>3, <2>2
    <3> QED BY <2>2, <3>1, <3>2 DEF Tracks, CurrentIn
  <2>3. CASE x # r
    <3>1. mp[x] = s.mapping[x] /\ fl[x] = s.flat[x]
      BY <1>2, <1>3, <2>3
    <3>2. ASSUME NEW b \in BanksAt(mp[x], x, SlotOf(x, u))
          PROVE  d[b] = s.dirty[b]
      <4>1. PICK m \in s.mapping[x] : m[3] = b
        BY <3>1, <3>2, BanksAtMember
      <4>2. b \in Banks /\ Appears(b, x) /\ b \in Exclusive
        BY <3>1, <3>2, <4>1 DEF Tracks, UsedIn
      <4>3. b \notin BanksToBeZeroed(r)
        <5> SUFFICES ASSUME b \in BanksToBeZeroed(r) PROVE FALSE
          OBVIOUS
        <5>1. PICK k \in MapOf(r) : k[3] = b
          BY DEF BanksToBeZeroed
        <5>2. Appears(b, r)
          BY <1>4, <5>1, MappedIsUsed
        <5> QED BY <2>3, <4>2, <5>2, ExclusiveRegion
      <4> QED BY <1>1, <4>2, <4>3
    <3> QED BY <3>1, <3>2 DEF Tracks, CurrentIn
  <2> QED BY <2>1, <2>2, <2>3
<1>8. Tracks(d, mp, fl)
  BY <1>1, <1>2, <1>3, <1>5, <1>6, <1>7 DEF Tracks
<1> QED BY <1>8 DEF d, mp, fl

-----------------------------------------------------------------------------
(* The actions.                                                            *)

LEMMA PresentTracks ==
  Tracks(VRAMDirty, Mapping, VRAMFlat)
    <=> Tracks(Present.dirty, Present.mapping, Present.flat)
BY DEF Present

LEMMA DrawScanlinesTracks ==
  ASSUME Placement, NEW s, Tracks(s.dirty, s.mapping, s.flat)
  PROVE  Tracks(DrawScanlines(s).dirty, DrawScanlines(s).mapping, DrawScanlines(s).flat)
<1>1. /\ "ABG" \in Regions /\ "ABGExtPal" \in Regions /\ "AOBJExtPal" \in Regions
      /\ "BBG" \in Regions /\ "BBGExtPal" \in Regions /\ "BOBJExtPal" \in Regions
  BY RegionNames
<1> DEFINE T(x) == Tracks(x.dirty, x.mapping, x.flat)
<1>2. ASSUME NEW x, NEW r \in Regions, T(x) PROVE T(Synced(x, r))
  BY <1>2, SyncedTracks
<1> HIDE DEF T
<1>3. T(s)
  BY DEF T
<1>4. PICK a : a = Synced(Synced(Synced(s, "ABG"), "ABGExtPal"), "AOBJExtPal")
  OBVIOUS
<1>5. T(a)
  BY <1>1, <1>2, <1>3, <1>4
<1>6. T(Synced(Synced(Synced(a, "BBG"), "BBGExtPal"), "BOBJExtPal"))
  BY <1>1, <1>2, <1>5
<1>7. DrawScanlines(s) = Synced(Synced(Synced(a, "BBG"), "BBGExtPal"), "BOBJExtPal")
  BY <1>4 DEF DrawScanlines
<1>8. T(DrawScanlines(s))
  BY <1>6, <1>7
<1> QED BY <1>8 DEF T

LEMMA DrawSpritesTracks ==
  ASSUME Placement, NEW s, Tracks(s.dirty, s.mapping, s.flat)
  PROVE  Tracks(DrawSprites(s).dirty, DrawSprites(s).mapping, DrawSprites(s).flat)
<1>1. "AOBJ" \in Regions /\ "BOBJ" \in Regions
  BY RegionNames
<1>2. PICK a : a = Synced(s, "AOBJ")
  OBVIOUS
<1>3. Tracks(a.dirty, a.mapping, a.flat)
  BY <1>1, <1>2, SyncedTracks
<1>4. DrawSprites(s) = Synced(a, "BOBJ")
  BY <1>2 DEF DrawSprites
<1> QED BY <1>1, <1>3, <1>4, SyncedTracks

LEMMA BecomeTracks ==
  ASSUME Placement, Placement', NEW s, Tracks(s.dirty, s.mapping, s.flat),
         VRAMDirty' = s.dirty, Mapping' = s.mapping, VRAMFlat' = s.flat,
         UNCHANGED <<placing, VRAM>>
  PROVE  FlatInv'
BY DEF FlatInv, Tracks, placing

\* A store that sets the dirty bits of what it changes.
LEMMA MarkedStoreTracks ==
  ASSUME Placement', NEW banks \in SUBSET Banks, NEW u \in Nat, NEW v \in BOOLEAN,
         NEW d, NEW mp, NEW fl, Tracks(d, mp, fl),
         Store(banks, u, v), VRAMCNT' = VRAMCNT,
         DOMAIN VRAMDirty' = Banks,
         \A b \in Banks : VRAMDirty'[b] = IF b \in banks THEN d[b] \cup {u % Size[b]}
                                          ELSE d[b],
         Mapping' = mp, VRAMFlat' = fl
  PROVE  FlatInv'
<1>1. AnticipatedIn(VRAMCNT, VRAMDirty', mp)
  <2>1. \A b \in Banks : d[b] \subseteq VRAMDirty'[b]
    OBVIOUS
  <2> QED BY <2>1 DEF Tracks, AnticipatedIn
<1>2. CurrentIn(VRAMDirty', mp, fl, VRAM')
  <2> SUFFICES ASSUME NEW x \in Regions, mp[x] # None, NEW w \in Units(x),
                      BanksAt(mp[x], x, SlotOf(x, w)) \subseteq Exclusive,
                      \A b \in BanksAt(mp[x], x, SlotOf(x, w)) : w % Size[b] \notin VRAMDirty'[b],
                      ~Overlaid(x, BanksAt(mp[x], x, SlotOf(x, w)))
               PROVE  w \in fl[x] <=> \E b \in BanksAt(mp[x], x, SlotOf(x, w)) :
                                         w % Size[b] \in VRAM'[b]
    BY DEF CurrentIn
  <2>1. BanksAt(mp[x], x, SlotOf(x, w)) \subseteq Banks
    BY DEF Exclusive
  <2>2. ASSUME NEW b \in BanksAt(mp[x], x, SlotOf(x, w))
        PROVE  /\ w % Size[b] \notin d[b]
               /\ w % Size[b] \in VRAM'[b] <=> w % Size[b] \in VRAM[b]
    <3>1. b \in Banks
      BY <2>1, <2>2
    <3>2. VRAM'[b] = IF b \in banks THEN Stored(b, u % Size[b], v) ELSE VRAM[b]
      BY <3>1 DEF Store
    <3>3. b \in banks => w % Size[b] # u % Size[b]
      BY <2>2, <3>1
    <3> QED BY <2>2, <3>1, <3>2, <3>3 DEF Stored
  <2> QED BY <2>2 DEF Tracks, CurrentIn
<1>3. Tracks(d, mp, fl) /\ DOMAIN VRAMDirty' = Banks
  OBVIOUS
<1> QED BY <1>1, <1>2, <1>3 DEF Tracks, FlatInv

\* A store of the ARM7, to a bank that is dirty already or that nobody shows.
LEMMA ARM7StoreTracks ==
  ASSUME FlatInv, Placement', NEW i, NEW u \in Nat, NEW v \in BOOLEAN,
         WriteVRAM_ARM7(i, u, v)
  PROVE  FlatInv'
<1> DEFINE banks == BanksAt(VRAMMap, "ARM7", i)
<1>1. /\ Store(banks, u, v) /\ VRAMCNT' = VRAMCNT /\ VRAMDirty' = VRAMDirty
      /\ Mapping' = Mapping /\ VRAMFlat' = VRAMFlat
  BY DEF WriteVRAM_ARM7, placing, tracking
<1>2. \A b \in banks : b \in Banks /\ ToARM7(b, VRAMCNT[b])
  BY BanksAtMember, MappedIsUsed DEF FlatInv
<1> HIDE DEF banks
<1>3. CurrentIn(VRAMDirty, Mapping, VRAMFlat, VRAM')
  <2> SUFFICES ASSUME NEW x \in Regions, Mapping[x] # None, NEW w \in Units(x),
                      BanksAt(Mapping[x], x, SlotOf(x, w)) \subseteq Exclusive,
                      \A b \in BanksAt(Mapping[x], x, SlotOf(x, w)) : w % Size[b] \notin VRAMDirty[b],
                      ~Overlaid(x, BanksAt(Mapping[x], x, SlotOf(x, w)))
               PROVE  w \in VRAMFlat[x] <=> \E b \in BanksAt(Mapping[x], x, SlotOf(x, w)) :
                                               w % Size[b] \in VRAM'[b]
    BY DEF CurrentIn
  <2>1. ASSUME NEW b \in BanksAt(Mapping[x], x, SlotOf(x, w))
        PROVE  VRAM'[b] = VRAM[b]
    <3>1. b \in Banks
      BY <2>1 DEF Exclusive
    <3>2. b \notin banks
      <4> SUFFICES ASSUME b \in banks PROVE FALSE
        OBVIOUS
      <4>1. \/ 0 .. (Size[b] - 1) \subseteq VRAMDirty[b]
            \/ \A m \in Mapping[x] : m[3] # b
        BY <1>2, <3>1 DEF FlatInv, Tracks, AnticipatedIn
      <4>2. w % Size[b] \in 0 .. (Size[b] - 1)
        BY <3>1, UnitsFit
      <4>3. \E m \in Mapping[x] : m[3] = b
        BY <2>1, BanksAtMember
      <4> QED BY <2>1, <4>1, <4>2, <4>3
    <3> QED BY <1>1, <3>1, <3>2 DEF Store
  <2> QED BY <2>1 DEF FlatInv, Tracks, CurrentIn
<1> QED BY <1>1, <1>3 DEF FlatInv, Tracks

\* A write of VRAMCNT: nothing is copied, and a bank the ARM7 gets is dirty.
LEMMA MapVRAMTracks ==
  ASSUME FlatInv, Placement', NEW b \in Banks, NEW c \in Uses[b], MapVRAM(b, c)
  PROVE  FlatInv'
<1>1. /\ VRAM' = VRAM /\ Mapping' = Mapping /\ VRAMFlat' = VRAMFlat
  BY DEF MapVRAM, tracking
<1>2. \A x \in Banks : VRAMCNT'[x] = IF x = b THEN c ELSE VRAMCNT[x]
  BY DEF MapVRAM, FlatInv, Placement, CntOK
<1>3. CASE VRAMCNT[b] = c
  <2>1. VRAMDirty' = VRAMDirty /\ \A x \in Banks : VRAMCNT'[x] = VRAMCNT[x]
    BY <1>2, <1>3 DEF MapVRAM
  <2> QED BY <1>1, <2>1 DEF FlatInv, Tracks, AnticipatedIn
<1>4. CASE VRAMCNT[b] # c
  <2>1. VRAMDirty' = [VRAMDirty EXCEPT ![b] = DirtyOnArrival(b, c)]
    BY <1>4 DEF MapVRAM
  <2>2. DOMAIN VRAMDirty = Banks
    BY DEF FlatInv, Tracks
  <2>3. /\ DOMAIN VRAMDirty' = Banks
        /\ \A x \in Banks \ {b} : VRAMDirty'[x] = VRAMDirty[x]
        /\ VRAMDirty'[b] = IF ToARM7(b, c) THEN 0 .. (Size[b] - 1) ELSE VRAMDirty[b]
    BY <2>1, <2>2 DEF DirtyOnArrival
  <2>4. AnticipatedIn(VRAMCNT', VRAMDirty', Mapping)
    <3> SUFFICES ASSUME NEW x \in Banks, ToARM7(x, VRAMCNT'[x])
                 PROVE  \/ 0 .. (Size[x] - 1) \subseteq VRAMDirty'[x]
                        \/ \A r \in Regions : Mapping[r] # None =>
                             \A m \in Mapping[r] : m[3] # x
      BY DEF AnticipatedIn
    <3>1. CASE x = b
      BY <1>2, <2>3, <3>1
    <3>2. CASE x # b
      BY <1>2, <2>3, <3>2 DEF FlatInv, Tracks, AnticipatedIn
    <3> QED BY <3>1, <3>2
  <2>5. CurrentIn(VRAMDirty', Mapping, VRAMFlat, VRAM)
    <3> SUFFICES ASSUME NEW x \in Regions, Mapping[x] # None, NEW w \in Units(x),
                        BanksAt(Mapping[x], x, SlotOf(x, w)) \subseteq Exclusive,
                        \A y \in BanksAt(Mapping[x], x, SlotOf(x, w)) : w % Size[y] \notin VRAMDirty'[y],
                        ~Overlaid(x, BanksAt(Mapping[x], x, SlotOf(x, w)))
                 PROVE  w \in VRAMFlat[x] <=> \E y \in BanksAt(Mapping[x], x, SlotOf(x, w)) :
                                                 w % Size[y] \in VRAM[y]
      BY DEF CurrentIn
    <3>1. ASSUME NEW y \in BanksAt(Mapping[x], x, SlotOf(x, w))
          PROVE  w % Size[y] \notin VRAMDirty[y]
      <4>1. y \in Banks
        BY <3>1 DEF Exclusive
      <4>2. w % Size[y] \in 0 .. (Size[y] - 1)
        BY <4>1, UnitsFit
      <4> QED BY <2>3, <3>1, <4>1, <4>2
    <3> QED BY <3>1 DEF FlatInv, Tracks, CurrentIn
  <2> QED BY <1>1, <2>3, <2>4, <2>5 DEF FlatInv, Tracks
<1> QED BY <1>3, <1>4

\* ResetVRAMCache: nothing is known of any flat copy.
LEMMA LoadStateTracks ==
  ASSUME Placement', NEW s, LoadState(s)
  PROVE  FlatInv'
<1>1. \A r \in Regions : Mapping'[r] = None
  BY DEF LoadState
<1>2. DOMAIN VRAMDirty' = Banks /\ DOMAIN Mapping' = Regions /\ DOMAIN VRAMFlat' = Regions
  BY DEF LoadState
<1> QED BY <1>1, <1>2 DEF FlatInv, Tracks, UsedIn, AnticipatedIn, CurrentIn

LEMMA CntUsedStep ==
  ASSUME CntOK, CntUsed, [Next]_vars
  PROVE  CntUsed'
<1>1. ASSUME NEW b \in Banks, NEW c \in Uses[b], MapVRAM(b, c)
      PROVE  CntUsed'
  BY <1>1 DEF MapVRAM, CntUsed, CntOK
<1>2. CASE Reset
  BY <1>2 DEF Reset, LoadState, CntUsed
<1>3. ASSUME NEW s \in Saves, LoadState(s)
      PROVE  CntUsed'
  BY <1>3, SavesAssumption DEF LoadState, CntUsed
<1>4. CASE VRAMCNT' = VRAMCNT
  BY <1>4 DEF CntUsed
<1> QED
  BY <1>1, <1>2, <1>3, <1>4
     DEF Next, WriteVRAM, WriteVRAM_LCDC, CaptureLine, CaptureLastLine, DoCapture,
         WriteVRAM_ARM7, DrawLine, DrawLastLine, DrawFirstSprites, RenderFrame, Become, vars, placing

LEMMA WritesTrack ==
  ASSUME FlatInv, Placement', NEW u \in Nat, NEW v \in BOOLEAN,
         \/ \E r \in CPURegions : WriteVRAM(r, u, v)
         \/ \E b \in Banks : WriteVRAM_LCDC(b, u, v)
  PROVE  FlatInv'
<1>1. PICK banks \in SUBSET Banks :
        Store(banks, u, v) /\ Mark(banks, u) /\ UNCHANGED <<placing, tracking>>
  <2>1. ASSUME NEW r \in CPURegions, WriteVRAM(r, u, v)
        PROVE  \E banks \in SUBSET Banks :
                 Store(banks, u, v) /\ Mark(banks, u) /\ UNCHANGED <<placing, tracking>>
    <3>1. BanksAt(VRAMMap, r, SlotOf(r, u)) \in SUBSET Banks
      BY BanksAtMember, MappedIsUsed DEF FlatInv
    <3> QED BY <2>1, <3>1 DEF WriteVRAM
  <2>2. ASSUME NEW b \in Banks, WriteVRAM_LCDC(b, u, v)
        PROVE  \E banks \in SUBSET Banks :
                 Store(banks, u, v) /\ Mark(banks, u) /\ UNCHANGED <<placing, tracking>>
    <3>1. {b} \in SUBSET Banks
      OBVIOUS
    <3> QED BY <2>2, <3>1 DEF WriteVRAM_LCDC
  <2> QED BY <2>1, <2>2
<1>2. /\ Tracks(VRAMDirty, Mapping, VRAMFlat) /\ VRAMCNT' = VRAMCNT
      /\ Mapping' = Mapping /\ VRAMFlat' = VRAMFlat
  BY <1>1 DEF FlatInv, placing, tracking
<1>3. /\ DOMAIN VRAMDirty' = Banks
      /\ \A b \in Banks : VRAMDirty'[b] = IF b \in banks THEN VRAMDirty[b] \cup {u % Size[b]}
                                          ELSE VRAMDirty[b]
  BY <1>1 DEF Mark
<1>4. PICK d, mp, fl : d = VRAMDirty /\ mp = Mapping /\ fl = VRAMFlat
  OBVIOUS
<1>5. /\ Tracks(d, mp, fl) /\ Mapping' = mp /\ VRAMFlat' = fl
      /\ \A b \in Banks : VRAMDirty'[b] = IF b \in banks THEN d[b] \cup {u % Size[b]} ELSE d[b]
  BY <1>2, <1>3, <1>4
<1> QED BY <1>1, <1>2, <1>3, <1>5, MarkedStoreTracks

LEMMA CaptureTracks ==
  ASSUME FlatInv, Placement', NEW b \in Banks, NEW u \in Nat, u < Size[b],
         NEW v \in BOOLEAN, CaptureLine(b, u, v) \/ CaptureLastLine(b, u, v)
  PROVE  FlatInv'
<1>1. PICK a : a = DrawScanlines(Present)
  OBVIOUS
<1>2. Tracks(a.dirty, a.mapping, a.flat)
  BY <1>1, PresentTracks, DrawScanlinesTracks DEF FlatInv
<1>a. PICK s : DoCapture(s, b, u, v) /\ Tracks(s.dirty, s.mapping, s.flat)
  <2>1. CASE CaptureLine(b, u, v)
    <3>1. PICK t : t = DrawSprites(a)
      OBVIOUS
    <3>2. Tracks(t.dirty, t.mapping, t.flat)
      BY <1>2, <3>1, DrawSpritesTracks DEF FlatInv
    <3>3. DoCapture(t, b, u, v)
      BY <1>1, <2>1, <3>1 DEF CaptureLine
    <3> QED BY <3>2, <3>3
  <2>2. CASE CaptureLastLine(b, u, v)
    BY <1>1, <1>2, <2>2 DEF CaptureLastLine
  <2> QED BY <2>1, <2>2
<1>3. /\ Store({b}, u, v) /\ VRAMCNT' = VRAMCNT
      /\ VRAMDirty' = [s.dirty EXCEPT ![b] = @ \cup {u}]
      /\ Mapping' = s.mapping /\ VRAMFlat' = s.flat
  BY <1>a DEF DoCapture, placing
<1>4. u % Size[b] = u
  BY BankSizes
<1>5. DOMAIN s.dirty = Banks
  BY <1>a DEF Tracks
<1>6. /\ DOMAIN VRAMDirty' = Banks
      /\ \A x \in Banks : VRAMDirty'[x] = IF x \in {b} THEN s.dirty[x] \cup {u % Size[x]}
                                          ELSE s.dirty[x]
  BY <1>3, <1>4, <1>5
<1>7. {b} \in SUBSET Banks
  OBVIOUS
<1>8. PICK d, mp, fl, banks :
        d = s.dirty /\ mp = s.mapping /\ fl = s.flat /\ banks = {b}
  OBVIOUS
<1>9. /\ Tracks(d, mp, fl) /\ Mapping' = mp /\ VRAMFlat' = fl
      /\ Store(banks, u, v) /\ banks \in SUBSET Banks
      /\ \A x \in Banks : VRAMDirty'[x] = IF x \in banks THEN d[x] \cup {u % Size[x]} ELSE d[x]
  BY <1>a, <1>3, <1>6, <1>7, <1>8
<1>10. VRAMCNT' = VRAMCNT /\ DOMAIN VRAMDirty' = Banks
  BY <1>3, <1>6
<1> QED BY <1>9, <1>10, MarkedStoreTracks

LEMMA DrawingTracks ==
  ASSUME FlatInv, Placement',
         DrawLine \/ DrawLastLine \/ DrawFirstSprites \/ RenderFrame
  PROVE  FlatInv'
<1>1. Placement /\ Tracks(Present.dirty, Present.mapping, Present.flat)
  BY PresentTracks DEF FlatInv
<1>2. PICK p : p = Present
  OBVIOUS
<1>3. Tracks(p.dirty, p.mapping, p.flat)
  BY <1>1, <1>2
<1>4. ASSUME NEW s, Tracks(s.dirty, s.mapping, s.flat), Become(s)
      PROVE  FlatInv'
  BY <1>1, <1>4, BecomeTracks DEF Become
<1>5. PICK a : a = DrawScanlines(p)
  OBVIOUS
<1>6. Tracks(a.dirty, a.mapping, a.flat)
  BY <1>1, <1>3, <1>5, DrawScanlinesTracks
<1>7. CASE DrawLine
  <2>1. PICK s : s = DrawSprites(a)
    OBVIOUS
  <2>2. Tracks(s.dirty, s.mapping, s.flat)
    BY <1>1, <1>6, <2>1, DrawSpritesTracks
  <2>3. Become(s)
    BY <1>2, <1>5, <1>7, <2>1 DEF DrawLine
  <2> QED BY <1>4, <2>2, <2>3
<1>8. CASE DrawLastLine
  <2>1. Become(a)
    BY <1>2, <1>5, <1>8 DEF DrawLastLine
  <2> QED BY <1>4, <1>6, <2>1
<1>9. CASE DrawFirstSprites
  <2>1. PICK s : s = DrawSprites(p)
    OBVIOUS
  <2>2. Tracks(s.dirty, s.mapping, s.flat)
    BY <1>1, <1>3, <2>1, DrawSpritesTracks
  <2>3. Become(s)
    BY <1>2, <1>9, <2>1 DEF DrawFirstSprites
  <2> QED BY <1>4, <2>2, <2>3
<1>10. CASE RenderFrame
  <2>1. "Texture" \in Regions /\ "TexPal" \in Regions
    BY RegionNames
  <2>2. PICK t : t = Synced(p, "Texture")
    OBVIOUS
  <2>3. Tracks(t.dirty, t.mapping, t.flat)
    BY <1>1, <1>3, <2>1, <2>2, SyncedTracks
  <2>4. PICK s : s = Synced(t, "TexPal")
    OBVIOUS
  <2>5. Tracks(s.dirty, s.mapping, s.flat)
    BY <1>1, <2>1, <2>3, <2>4, SyncedTracks
  <2>6. Become(s)
    BY <1>2, <1>10, <2>2, <2>4 DEF RenderFrame
  <2> QED BY <1>4, <2>5, <2>6
<1> QED BY <1>7, <1>8, <1>9, <1>10

LEMMA FlatStep == FlatInv /\ [Next]_vars => FlatInv'
<1> SUFFICES ASSUME FlatInv, [Next]_vars PROVE FlatInv'
  OBVIOUS
<1>1. Placement'
  BY InPlaceInductive, CntUsedStep DEF FlatInv, Placement
<1>2. ASSUME NEW b \in Banks, NEW c \in Uses[b], MapVRAM(b, c) PROVE FlatInv'
  BY <1>1, <1>2, MapVRAMTracks
<1>3. ASSUME NEW v \in BOOLEAN, NEW u \in Touched,
             \/ \E r \in CPURegions : u \in Units(r) /\ WriteVRAM(r, u, v)
             \/ \E b \in Banks : /\ u < Size[b]
                                 /\ \/ WriteVRAM_LCDC(b, u, v)
                                    \/ CaptureLine(b, u, v) \/ CaptureLastLine(b, u, v)
             \/ \E i \in {0, 1} : u < 16 /\ WriteVRAM_ARM7(i, u, v)
      PROVE  FlatInv'
  <2>1. u \in Nat
    BY TouchedAssumption
  <2> QED BY <1>1, <1>3, <2>1, WritesTrack, CaptureTracks, ARM7StoreTracks
<1>4. CASE DrawLine \/ DrawLastLine \/ DrawFirstSprites \/ RenderFrame
  BY <1>1, <1>4, DrawingTracks
<1>5. CASE Reset
  BY <1>1, <1>5, LoadStateTracks DEF Reset
<1>6. ASSUME NEW s \in Saves, LoadState(s) PROVE FlatInv'
  BY <1>1, <1>6, LoadStateTracks
<1>7. CASE UNCHANGED vars
  BY <1>1, <1>7 DEF FlatInv, Tracks, vars, placing, tracking
<1> QED BY <1>2, <1>3, <1>4, <1>5, <1>6, <1>7 DEF Next

\* A unit of a flat copy that no dirty bit is set for is what its banks hold,
\* whatever banks a game uses, however it moves them between regions, LCDC
\* mode and the ARM7, and whoever writes to them, for the banks it uses for
\* one kind of graphics (GPU.cpp:1244-1303).
THEOREM FlatCopiesAreCurrent == Spec => []FlatIsCurrent
<1>1. Init => FlatInv
  <2> SUFFICES ASSUME Init PROVE FlatInv
    OBVIOUS
  <2>1. CntOK /\ BanksInPlace
    BY InitInPlace
  <2>2. CntUsed
    BY DEF Init, CntUsed
  <2>3. \A r \in Regions : Mapping[r] = None
    BY DEF Init
  <2>4. DOMAIN VRAMDirty = Banks /\ DOMAIN Mapping = Regions /\ DOMAIN VRAMFlat = Regions
    BY DEF Init
  <2> QED BY <2>1, <2>2, <2>3, <2>4
          DEF FlatInv, Placement, Tracks, UsedIn, AnticipatedIn, CurrentIn
<1>2. FlatInv => FlatIsCurrent
  BY CurrentDef DEF FlatInv, Tracks
<1> QED BY <1>1, <1>2, FlatStep, PTL DEF Spec

-----------------------------------------------------------------------------
(* JITCache: the lists of the ranges.                                      *)

Distinct(s) == \A i, j \in DOMAIN s : s[i] = s[j] => i = j

\* A block that is listed once is gone from the list, and the others stay.
LEMMA RemoveByValueDrops ==
  ASSUME NEW S, NEW s \in Seq(S), Distinct(s), NEW x
  PROVE  /\ RemoveByValue(s, x) \in Seq(S)
         /\ Distinct(RemoveByValue(s, x))
         /\ Range(RemoveByValue(s, x)) = Range(s) \ {x}
<1>1. CASE x \notin Range(s)
  BY <1>1 DEF RemoveByValue
<1>2. CASE x \in Range(s)
  <2>1. PICK k \in 1..Len(s) : s[k] = x
    BY <1>2 DEF Range
  <2>2. {j \in DOMAIN s : s[j] = x} = {k}
    BY <2>1 DEF Distinct
  <2>3. Min({k}) = k
    BY DEF Min
  <2> DEFINE n == Len(s)
             r == [i \in 1..(n - 1) |-> IF i = k THEN s[n] ELSE s[i]]
  <2>4. n \in Nat \ {0} /\ k \in 1..n /\ DOMAIN s = 1..n
    BY <2>1
  <2>5. RemoveByValue(s, x) = Front([s EXCEPT ![k] = Last(s)])
    BY <1>2, <2>2, <2>3, Zenon DEF RemoveByValue
  <2>6. RemoveByValue(s, x) = r
    <3>1. [s EXCEPT ![k] = Last(s)] \in Seq(S) /\ Len([s EXCEPT ![k] = Last(s)]) = n
      BY <2>4 DEF Last
    <3> QED BY <2>4, <2>5, <3>1 DEF Front, Last
  <2>7. r \in Seq(S) /\ DOMAIN r = 1..(n - 1)
    BY <2>4
  <2>8. Distinct(r)
    BY <2>4, <2>7 DEF Distinct
  <2>9. ASSUME NEW y \in Range(r) PROVE y \in Range(s) \ {x}
    <3>1. PICK i \in 1..(n - 1) : y = r[i]
      BY <2>7, <2>9 DEF Range
    <3>2. PICK j \in 1..n : y = s[j] /\ j # k
      BY <2>4, <3>1
    <3> QED BY <2>1, <2>4, <3>2 DEF Range, Distinct
  <2>10. ASSUME NEW y \in Range(s) \ {x} PROVE y \in Range(r)
    <3>1. PICK j \in 1..n : y = s[j]
      BY <2>4, <2>10 DEF Range
    <3>2. j # k
      BY <2>1, <2>10, <3>1
    <3>3. \E i \in 1..(n - 1) : y = r[i]
      BY <2>4, <3>1, <3>2
    <3> QED BY <2>7, <3>3 DEF Range
  <2>11. Range(r) = Range(s) \ {x}
    BY <2>9, <2>10
  <2> QED BY <2>6, <2>7, <2>8, <2>11, Zenon
<1> QED BY <1>1, <1>2

\* A block that was not listed is appended.
LEMMA AppendAdds ==
  ASSUME NEW S, NEW s \in Seq(S), Distinct(s), NEW x \in S, x \notin Range(s)
  PROVE  /\ Append(s, x) \in Seq(S)
         /\ Distinct(Append(s, x))
         /\ Range(Append(s, x)) = Range(s) \union {x}
<1> DEFINE n == Len(s)
           r == Append(s, x)
<1>1. /\ n \in Nat /\ DOMAIN s = 1..n /\ r \in Seq(S) /\ DOMAIN r = 1..(n + 1)
      /\ r[n + 1] = x /\ \A i \in 1..n : r[i] = s[i]
  OBVIOUS
<1> HIDE DEF n, r
<1>2. \A i \in 1..n : s[i] # x
  BY <1>1 DEF Range
<1>3. Distinct(r)
  BY <1>1, <1>2 DEF Distinct
<1>4. ASSUME NEW y \in Range(r) PROVE y \in Range(s) \union {x}
  <2>1. PICK i \in 1..(n + 1) : y = r[i]
    BY <1>1, <1>4 DEF Range
  <2>2. CASE i = n + 1
    BY <1>1, <2>1, <2>2
  <2>3. CASE i \in 1..n
    BY <1>1, <2>1, <2>3 DEF Range
  <2> QED BY <1>1, <2>2, <2>3
<1>5. ASSUME NEW y \in Range(s) \union {x} PROVE y \in Range(r)
  <2>1. CASE y = x
    <3>1. n + 1 \in DOMAIN r
      BY <1>1
    <3> QED BY <1>1, <2>1, <3>1 DEF Range
  <2>2. CASE y \in Range(s)
    <3>1. PICK i \in 1..n : y = s[i]
      BY <1>1, <2>2 DEF Range
    <3>2. i \in DOMAIN r /\ r[i] = y
      BY <1>1, <3>1
    <3> QED BY <3>2 DEF Range
  <2> QED BY <1>5, <2>1, <2>2
<1>6. Range(r) = Range(s) \union {x}
  BY <1>4, <1>5
<1> QED BY <1>1, <1>3, <1>6 DEF r

\* Every block of the list has its turn, once.
LEMMA RemovalOrderFacts ==
  ASSUME NEW S, NEW s \in Seq(S), Distinct(s)
  PROVE  /\ RemovalOrder(s) \in Seq(S) /\ Distinct(RemovalOrder(s))
         /\ Range(RemovalOrder(s)) = Range(s)
<1>1. CASE s = <<>>
  BY <1>1 DEF RemovalOrder
<1>2. CASE s # <<>>
  <2> DEFINE n == Len(s)
             r == RemovalOrder(s)
             back(i) == IF i = 1 THEN 1 ELSE n + 2 - i
  <2>1. n \in Nat \ {0} /\ DOMAIN s = 1..n
    BY <1>2, EmptySeq
  <2>2. /\ Tail(s) \in Seq(S) /\ Len(Tail(s)) = n - 1
        /\ \A i \in 1..(n - 1) : Tail(s)[i] = s[i + 1]
        /\ Head(s) = s[1] /\ Head(s) \in S
    BY <1>2, <2>1, HeadTailProperties
  <2>3. PICK t : t = Tail(s)
    OBVIOUS
  <2>4. PICK v : v = Reverse(t)
    OBVIOUS
  <2>5. /\ v \in Seq(S) /\ Len(v) = n - 1
        /\ \A i \in 1..(n - 1) : v[i] = t[n - i]
    BY <2>1, <2>2, <2>3, <2>4 DEF Reverse
  <2>6. r = <<s[1]>> \o v
    BY <1>2, <2>2, <2>3, <2>4, Zenon DEF RemovalOrder
  <2>7. /\ r \in Seq(S) /\ Len(r) = n
        /\ r[1] = s[1] /\ \A i \in 2..n : r[i] = v[i - 1]
    <3>1. <<s[1]>> \in Seq(S) /\ Len(<<s[1]>>) = 1
      BY <2>2
    <3>2. PICK e : e = <<s[1]>>
      OBVIOUS
    <3>3. e \in Seq(S) /\ Len(e) = 1 /\ e[1] = s[1] /\ r = e \o v
      BY <2>6, <3>1, <3>2
    <3>4. /\ e \o v \in Seq(S) /\ Len(e \o v) = Len(e) + Len(v)
          /\ \A i \in 1..(Len(e) + Len(v)) :
               (e \o v)[i] = IF i <= Len(e) THEN e[i] ELSE v[i - Len(e)]
      BY ONLY <2>5, <3>3, ConcatProperties
    <3> HIDE DEF r, n
    <3> QED BY <2>1, <2>5, <3>3, <3>4
  <2> HIDE DEF r, n
  <2>8. \A i \in 1..n : r[i] = s[back(i)] /\ back(i) \in 1..n
    <3>1. SUFFICES ASSUME NEW i \in 2..n PROVE r[i] = s[n + 2 - i] /\ n + 2 - i \in 1..n
      BY <2>1, <2>7
    <3>2. i - 1 \in 1..(n - 1) /\ n - (i - 1) \in 1..(n - 1) /\ (n - (i - 1)) + 1 = n + 2 - i
      BY <2>1
    <3>3. v[i - 1] = t[n - (i - 1)] /\ t[n - (i - 1)] = s[(n - (i - 1)) + 1]
      BY <2>2, <2>3, <2>5, <3>2
    <3> QED BY <2>1, <2>7, <3>2, <3>3
  <2>9. \A i \in 1..n : back(back(i)) = i
    BY <2>1
  <2>10. DOMAIN r = 1..n
    BY <2>1, <2>7
  <2>11. Distinct(r)
    <3>1. SUFFICES ASSUME NEW i \in 1..n, NEW j \in 1..n, r[i] = r[j] PROVE i = j
      BY <2>10 DEF Distinct
    <3>2. PICK x, y : x = back(i) /\ y = back(j)
      OBVIOUS
    <3>3. x \in 1..n /\ y \in 1..n /\ s[x] = s[y]
      BY <2>8, <3>1, <3>2
    <3>4. x = y
      BY <2>1, <3>3 DEF Distinct
    <3> QED BY <2>9, <3>2, <3>4
  <2>12. Range(r) = Range(s)
    BY <2>1, <2>8, <2>9, <2>10 DEF Range
  <2> QED BY <2>7, <2>11, <2>12 DEF r
<1> QED BY <1>1, <1>2

-----------------------------------------------------------------------------
(* The invariant.  Nothing is said of the contents of memory yet.          *)

\* A cache has these fields.
IsCache(s) ==
    s = [blk |-> s.blk, alive |-> s.alive, blocks |-> s.blocks, cands |-> s.cands,
         listed |-> s.listed, Code |-> s.Code, fast |-> s.fast, invalid |-> s.invalid]

CacheType(s) ==
    /\ IsCache(s)
    /\ s.blk = [q \in Ptrs |-> s.blk[q]] /\ s.alive \subseteq Ptrs
    /\ s.blocks \in [CPUs -> [Entries -> Ptrs \union {NULL}]]
    /\ s.cands \in [Codes -> Ptrs \union {NULL}]
    /\ s.listed \in [Ranges -> Seq(Ptrs)]
    /\ s.Code \subseteq CodeUnits
    /\ s.fast = [u \in CodeUnits |-> s.fast[u]]

\* What CompileBlock writes to a new block.
Sound(b) ==
    /\ b.num \in CPUs /\ b.start \in Entries /\ b.code \in Codes
    /\ 1 \in DOMAIN b.at /\ Range(b.at) \subseteq CodeUnits
    /\ DOMAIN b.hash \subseteq CodeUnits /\ DOMAIN b.embedded \subseteq DOMAIN b.hash

\* The map of its CPU has the block at its start address.
InMap(s, q) == s.blocks[s.blk[q].num][s.blk[q].start] = q

\* A block is mapped only there, and has not been deleted.
MapsInv(s) ==
    \A p \in CPUs, a \in Entries :
       LET q == s.blocks[p][a] IN
       q # NULL => q \in s.alive /\ s.blk[q].num = p /\ s.blk[q].start = a

AliveInv(s) == \A q \in s.alive : Sound(s.blk[q])

\* What a range knows about a block with a unit in it.
Known(s, q, u) == u \in s.Code /\ q \in Range(s.listed[Page[u]])

SeenInv(s) ==
    \A q \in s.alive : InMap(s, q) => \A u \in BlockUnits(s.blk[q]) : Known(s, q, u)

ListedIn(s, q, r) == q \in s.alive /\ InMap(s, q) /\ r \in BlockRanges(s.blk[q])

\* Only mapped blocks are listed, and only where they belong, once.
ListInv(s) ==
    \A r \in Ranges : /\ Distinct(s.listed[r])
                      /\ \A q \in Range(s.listed[r]) : ListedIn(s, q, r)

FastInv(s) ==
    \A u \in CodeUnits : s.fast[u] # NULL =>
       LET e == s.fast[u] IN
       /\ e.ptr \in s.alive /\ InMap(s, e.ptr)
       /\ s.blk[e.ptr].num = e.num /\ s.blk[e.ptr].start = e.start
       /\ s.blk[e.ptr].at[1] = u

CandInv(s) ==
    \A h \in Codes : s.cands[h] # NULL =>
       s.cands[h] \in s.alive /\ ~InMap(s, s.cands[h]) /\ s.blk[s.cands[h]].code = h

CacheInv(s) ==
    /\ CacheType(s) /\ MapsInv(s) /\ AliveInv(s) /\ SeenInv(s) /\ ListInv(s)
    /\ FastInv(s) /\ CandInv(s)

\* The same while InvalidateByAddr works on range r: its blocks that have not
\* had their turn are P.
LoopInv(s, r, P) ==
    /\ CacheType(s) /\ MapsInv(s) /\ AliveInv(s) /\ ListInv(s) /\ FastInv(s) /\ CandInv(s)
    /\ s.listed[r] = <<>>
    /\ \A q \in P : ListedIn(s, q, r)
    /\ \A q \in s.alive : InMap(s, q) =>
          \A u \in BlockUnits(s.blk[q]) : IF Page[u] = r THEN q \in P ELSE Known(s, q, u)

\* From s to t blocks are only taken out.
Shrinks(s, t) ==
    /\ t.blk = s.blk /\ t.alive \subseteq s.alive
    /\ \A p \in CPUs, a \in Entries : t.blocks[p][a] \in {NULL, s.blocks[p][a]}

\* So it is over several operations.
LEMMA ShrinksTwice ==
  ASSUME NEW s, NEW t, NEW v, Shrinks(s, t), Shrinks(t, v)
  PROVE  Shrinks(s, v)
BY DEF Shrinks

-----------------------------------------------------------------------------
(* InvalidateByAddr.                                                       *)

\* What a turn of the loop of InvalidateByAddr does to each field, for block q
\* with contents b that is in the other ranges O.
BlockGone(s, t, q, b, O) ==
    /\ IsCache(t)
    /\ t.blk = s.blk
    /\ t.listed = [r \in Ranges |-> IF r \in O THEN RemoveByValue(s.listed[r], q)
                                    ELSE s.listed[r]]
    /\ t.Code = {v \in s.Code : ~(Page[v] \in O /\ t.listed[Page[v]] = <<>>)}
    /\ t.fast = [s.fast EXCEPT ![b.at[1]] = NULL]
    /\ t.blocks = [s.blocks EXCEPT ![b.num][b.start] = NULL]
    /\ \/ t.alive = s.alive \ {q} /\ t.cands = s.cands
       \/ /\ t.alive = s.alive \ {s.cands[b.code]}
          /\ t.cands = [s.cands EXCEPT ![b.code] = q]

\* InvalidateBlock does just that.
LEMMA InvalidateBlockFields ==
  ASSUME NEW s, IsCache(s), NEW u, NEW q
  PROVE  BlockGone(s, InvalidateBlock(s, u, q), q, s.blk[q],
                   BlockRanges(s.blk[q]) \ {Page[u]})
<1>0. PICK t, b, others : /\ t = InvalidateBlock(s, u, q) /\ b = s.blk[q]
                          /\ others = BlockRanges(b) \ {Page[u]}
  OBVIOUS
<1> DEFINE listed == [r \in Ranges |-> IF r \in others THEN RemoveByValue(s.listed[r], q)
                                       ELSE s.listed[r]]
           gone   == [s EXCEPT
                        !.listed = listed,
                        !.Code = {v \in @ : ~(Page[v] \in others /\ listed[Page[v]] = <<>>)},
                        !.invalid = IF u \in BlockLits(b) THEN @ \union {u} ELSE @,
                        !.fast[b.at[1]] = NULL,
                        !.blocks[b.num][b.start] = NULL]
           code == {v \in s.Code : ~(Page[v] \in others /\ listed[Page[v]] = <<>>)}
           fast == [s.fast EXCEPT ![b.at[1]] = NULL]
           blocks == [s.blocks EXCEPT ![b.num][b.start] = NULL]
           inv == IF u \in BlockLits(b) THEN s.invalid \union {u} ELSE s.invalid
<1>1. t = IF u \in BlockLits(b) THEN Delete(gone, {q}) ELSE RetireJitBlock(gone, q)
  BY <1>0 DEF InvalidateBlock
<1>2. PICK L, C, F, B, V : L = listed /\ C = code /\ F = fast /\ B = blocks /\ V = inv
  OBVIOUS
<1>3. gone = [s EXCEPT !.listed = L, !.Code = C, !.invalid = V, !.fast = F, !.blocks = B]
  BY <1>2 DEF IsCache
<1> HIDE DEF gone, listed, code, fast, blocks, inv
<1>4. gone = [blk |-> s.blk, alive |-> s.alive, blocks |-> B, cands |-> s.cands,
              listed |-> L, Code |-> C, fast |-> F, invalid |-> V]
  BY <1>3 DEF IsCache
<1>5. ASSUME u \in BlockLits(b) PROVE BlockGone(s, t, q, b, others)
  <2>1. t = [blk |-> s.blk, alive |-> s.alive \ {q}, blocks |-> B, cands |-> s.cands,
              listed |-> L, Code |-> C, fast |-> F, invalid |-> V]
    BY <1>1, <1>4, <1>5 DEF Delete
  <2> QED BY <1>2, <2>1 DEF BlockGone, IsCache, listed, code, fast, blocks
<1>6. ASSUME u \notin BlockLits(b) PROVE BlockGone(s, t, q, b, others)
  <2>1. t = [blk |-> s.blk, alive |-> s.alive \ {s.cands[b.code]}, blocks |-> B,
              cands |-> [s.cands EXCEPT ![b.code] = q],
              listed |-> L, Code |-> C, fast |-> F, invalid |-> V]
    BY <1>0, <1>1, <1>4, <1>6 DEF Delete, RetireJitBlock
  <2> QED BY <1>2, <2>1 DEF BlockGone, IsCache, listed, code, fast, blocks
<1> QED BY <1>0, <1>5, <1>6, Zenon

\* The range of a unit is one of the ranges.
LEMMA PageIsRange ==
  ASSUME NEW u \in CodeUnits
  PROVE  Page[u] \in Ranges
BY JITAssumption DEF Ranges, Range

\* The units and ranges of a block lie in the shared WRAM.
LEMMA SoundBlock ==
  ASSUME NEW b, Sound(b)
  PROVE  /\ BlockUnits(b) \subseteq CodeUnits /\ BlockRanges(b) \subseteq Ranges
         /\ b.at[1] \in CodeUnits
         /\ DOMAIN b.embedded \subseteq BlockUnits(b)
         /\ \A i \in DOMAIN b.at : b.at[i] \in BlockUnits(b)
<1>1. BlockUnits(b) \subseteq CodeUnits
  BY DEF Sound, BlockUnits, BlockLits
<1>2. BlockRanges(b) \subseteq Ranges
  BY <1>1, PageIsRange DEF BlockRanges
<1>3. b.at[1] \in CodeUnits
  BY DEF Sound, Range
<1>4. \A i \in DOMAIN b.at : b.at[i] \in BlockUnits(b)
  BY DEF BlockUnits, Range
<1>5. DOMAIN b.embedded \subseteq BlockUnits(b)
  BY DEF Sound, BlockUnits, BlockLits
<1> QED BY <1>1, <1>2, <1>3, <1>4, <1>5

\* One turn of the loop: the block is in no map, list or table any more, it is
\* a candidate or deleted, and nothing else of the cache is disturbed.
LEMMA InvalidateBlockStep ==
  ASSUME NEW s, NEW u \in CodeUnits, NEW P, NEW q \in P, LoopInv(s, Page[u], P)
  PROVE  /\ LoopInv(InvalidateBlock(s, u, q), Page[u], P \ {q})
         /\ Shrinks(s, InvalidateBlock(s, u, q))
<1>1. PICK r : r = Page[u]
  OBVIOUS
<1>2. r \in Ranges
  BY <1>1, PageIsRange
<1>3. /\ CacheType(s) /\ MapsInv(s) /\ AliveInv(s) /\ ListInv(s) /\ FastInv(s) /\ CandInv(s)
      /\ s.listed[r] = <<>>
      /\ \A x \in P : ListedIn(s, x, r)
      /\ \A x \in s.alive : InMap(s, x) =>
           \A v \in BlockUnits(s.blk[x]) : IF Page[v] = r THEN x \in P ELSE Known(s, x, v)
  BY <1>1 DEF LoopInv
<1>4. PICK t : t = InvalidateBlock(s, u, q)
  OBVIOUS
<1>5. PICK b : b = s.blk[q]
  OBVIOUS
<1>6. PICK O : O = BlockRanges(b) \ {r}
  OBVIOUS
<1>7. q \in s.alive /\ q \in Ptrs /\ InMap(s, q) /\ r \in BlockRanges(b) /\ Sound(b)
  BY <1>3, <1>5 DEF ListedIn, AliveInv, CacheType
<1>8. IsCache(s)
  BY <1>3 DEF CacheType
<1>9. /\ IsCache(t)
      /\ t.blk = s.blk
      /\ t.listed = [x \in Ranges |-> IF x \in O THEN RemoveByValue(s.listed[x], q)
                                      ELSE s.listed[x]]
      /\ t.Code = {v \in s.Code : ~(Page[v] \in O /\ t.listed[Page[v]] = <<>>)}
      /\ t.fast = [s.fast EXCEPT ![b.at[1]] = NULL]
      /\ t.blocks = [s.blocks EXCEPT ![b.num][b.start] = NULL]
      /\ \/ t.alive = s.alive \ {q} /\ t.cands = s.cands
         \/ /\ t.alive = s.alive \ {s.cands[b.code]}
            /\ t.cands = [s.cands EXCEPT ![b.code] = q]
  <2>1. O = BlockRanges(s.blk[q]) \ {Page[u]}
    BY <1>1, <1>5, <1>6
  <2>2. BlockGone(s, t, q, b, O)
    BY <1>4, <1>5, <1>8, <2>1, InvalidateBlockFields, Zenon
  <2> QED BY <2>2, Zenon DEF BlockGone
<1>10. /\ t.blocks \in [CPUs -> [Entries -> Ptrs \union {NULL}]]
       /\ \A p \in CPUs, a \in Entries :
            t.blocks[p][a] = IF p = b.num /\ a = b.start THEN NULL ELSE s.blocks[p][a]
  BY <1>3, <1>7, <1>9 DEF CacheType, Sound
<1>11. s.blocks[b.num][b.start] = q /\ b.num \in CPUs /\ b.start \in Entries /\ b.code \in Codes
  BY <1>5, <1>7 DEF InMap, Sound
<1>12. /\ t.listed \in [Ranges -> Seq(Ptrs)]
       /\ \A x \in Ranges : Distinct(t.listed[x]) /\ Range(t.listed[x]) = Range(s.listed[x]) \ {q}
  <2>1. SUFFICES ASSUME NEW x \in Ranges
                 PROVE  /\ t.listed[x] \in Seq(Ptrs) /\ Distinct(t.listed[x])
                        /\ Range(t.listed[x]) = Range(s.listed[x]) \ {q}
    BY <1>9
  <2>2. s.listed[x] \in Seq(Ptrs) /\ Distinct(s.listed[x])
    BY <1>3 DEF CacheType, ListInv
  <2>3. CASE x \in O
    <3>1. t.listed[x] = RemoveByValue(s.listed[x], q)
      BY <1>9, <2>3
    <3> QED BY <2>2, <3>1, RemoveByValueDrops
  <2>4. CASE x \notin O
    <3>1. t.listed[x] = s.listed[x]
      BY <1>9, <2>4
    <3>2. q \notin Range(s.listed[x])
      <4>1. CASE x = r
        BY <1>3, <4>1 DEF Range
      <4>2. CASE x # r
        BY <1>3, <1>5, <1>6, <2>4, <4>2 DEF ListInv, ListedIn
      <4> QED BY <4>1, <4>2
    <3> QED BY <2>2, <3>1, <3>2
  <2> QED BY <2>3, <2>4
<1>13. t.listed[r] = <<>>
  BY <1>2, <1>3, <1>6, <1>9
<1>14. ~InMap(t, q)
  <2>1. t.blk[q] = b /\ q # NULL
    BY <1>5, <1>7, <1>9, JITAssumption
  <2>2. t.blocks[b.num][b.start] = NULL
    BY <1>10, <1>11
  <2> QED BY <2>1, <2>2, Zenon DEF InMap
<1>15. ASSUME NEW x \in s.alive, x # q PROVE InMap(t, x) <=> InMap(s, x)
  <2>1. x \in Ptrs /\ s.blk[x].num \in CPUs /\ s.blk[x].start \in Entries /\ x # NULL
    BY <1>3, JITAssumption DEF CacheType, AliveInv, Sound
  <2> QED BY <1>9, <1>10, <1>11, <1>15, <2>1 DEF InMap
<1>16. t.alive \subseteq s.alive /\ \A x \in s.alive : InMap(s, x) /\ x # q => x \in t.alive
  <2>1. \A x \in s.alive : InMap(s, x) => x # s.cands[b.code]
    BY <1>3, <1>11, JITAssumption DEF CandInv, CacheType
  <2>2. CASE t.alive = s.alive \ {q}
    BY <2>2
  <2>3. CASE t.alive = s.alive \ {s.cands[b.code]}
    BY <2>1, <2>3
  <2> QED BY <1>9, <2>2, <2>3, Zenon
<1>17. CacheType(t)
  <2>1. t.cands \in [Codes -> Ptrs \union {NULL}]
    <3>1. s.cands \in [Codes -> Ptrs \union {NULL}]
      BY <1>3 DEF CacheType
    <3>2. t.cands = s.cands \/ t.cands = [s.cands EXCEPT ![b.code] = q]
      BY <1>9, Zenon
    <3> QED BY <1>7, <1>11, <3>1, <3>2
  <2>2. t.fast = [v \in CodeUnits |-> t.fast[v]]
    BY <1>3, <1>9 DEF CacheType
  <2>3. t.alive \subseteq Ptrs /\ t.Code \subseteq CodeUnits /\ t.blk = [x \in Ptrs |-> t.blk[x]]
    BY <1>3, <1>9 DEF CacheType
  <2> QED BY <1>9, <1>10, <1>12, <2>1, <2>2, <2>3 DEF CacheType
<1>18. MapsInv(t)
  <2>1. SUFFICES ASSUME NEW p \in CPUs, NEW a \in Entries, t.blocks[p][a] # NULL
                 PROVE  LET x == t.blocks[p][a] IN
                        x \in t.alive /\ t.blk[x].num = p /\ t.blk[x].start = a
    BY DEF MapsInv
  <2>2. PICK x : x = t.blocks[p][a]
    OBVIOUS
  <2>3. ~(p = b.num /\ a = b.start) /\ x = s.blocks[p][a] /\ x # NULL
    BY <1>10, <2>1, <2>2
  <2>4. x \in s.alive /\ s.blk[x].num = p /\ s.blk[x].start = a
    BY <1>3, <2>3 DEF MapsInv
  <2>5. InMap(s, x) /\ x # q
    BY <1>5, <2>3, <2>4 DEF InMap
  <2> QED BY <1>9, <1>16, <2>2, <2>4, <2>5
<1>19. AliveInv(t)
  BY <1>3, <1>9, <1>16 DEF AliveInv
<1>20. ASSUME NEW x \in s.alive, x # q, NEW y, ListedIn(s, x, y) PROVE ListedIn(t, x, y)
  BY <1>9, <1>15, <1>16, <1>20 DEF ListedIn
<1>21. ListInv(t)
  BY <1>3, <1>12, <1>20 DEF ListInv, ListedIn
<1>22. FastInv(t)
  <2>1. SUFFICES ASSUME NEW v \in CodeUnits, t.fast[v] # NULL
                 PROVE  LET e == t.fast[v] IN
                        /\ e.ptr \in t.alive /\ InMap(t, e.ptr)
                        /\ t.blk[e.ptr].num = e.num /\ t.blk[e.ptr].start = e.start
                        /\ t.blk[e.ptr].at[1] = v
    BY DEF FastInv
  <2>2. PICK e : e = t.fast[v]
    OBVIOUS
  <2>3. v # b.at[1] /\ e = s.fast[v] /\ e # NULL
    BY <1>3, <1>7, <1>9, <2>1, <2>2 DEF CacheType
  <2>4. /\ e.ptr \in s.alive /\ InMap(s, e.ptr)
        /\ s.blk[e.ptr].num = e.num /\ s.blk[e.ptr].start = e.start
        /\ s.blk[e.ptr].at[1] = v
    BY <1>3, <2>3 DEF FastInv
  <2>5. e.ptr # q
    BY <1>5, <2>3, <2>4
  <2> QED BY <1>9, <1>15, <1>16, <2>2, <2>4, <2>5
<1>23. CandInv(t)
  <2>1. SUFFICES ASSUME NEW h \in Codes, t.cands[h] # NULL
                 PROVE  /\ t.cands[h] \in t.alive /\ ~InMap(t, t.cands[h])
                        /\ t.blk[t.cands[h]].code = h
    BY DEF CandInv
  <2>2. ASSUME s.cands[h] # NULL
        PROVE  /\ s.cands[h] \in s.alive /\ ~InMap(s, s.cands[h]) /\ s.cands[h] # q
               /\ s.blk[s.cands[h]].code = h
    BY <1>3, <1>7, <2>2 DEF CandInv
  <2>3. CASE t.alive = s.alive \ {q} /\ t.cands = s.cands
    BY <1>9, <1>15, <2>1, <2>2, <2>3
  <2>4. CASE /\ t.alive = s.alive \ {s.cands[b.code]}
             /\ t.cands = [s.cands EXCEPT ![b.code] = q]
    <3>1. CASE h = b.code
      <4>1. t.cands[h] = q
        BY <1>3, <2>4, <3>1 DEF CacheType
      <4>2. s.cands[b.code] # q
        BY <1>3, <1>7, <1>11, JITAssumption DEF CandInv
      <4> QED BY <1>5, <1>7, <1>9, <1>14, <2>4, <3>1, <4>1, <4>2
    <3>2. CASE h # b.code
      <4>1. t.cands[h] = s.cands[h] /\ s.cands[h] # NULL
        BY <1>3, <2>1, <2>4, <3>2 DEF CacheType
      <4>2. s.cands[h] # s.cands[b.code]
        BY <1>3, <1>11, <2>2, <3>2, <4>1 DEF CandInv
      <4> QED BY <1>9, <1>15, <2>2, <2>4, <4>1, <4>2
    <3> QED BY <3>1, <3>2
  <2> QED BY <1>9, <2>3, <2>4
<1>24. \A x \in P \ {q} : ListedIn(t, x, r)
  BY <1>3, <1>20 DEF ListedIn
<1>25. ASSUME NEW x \in t.alive, InMap(t, x), NEW v \in BlockUnits(t.blk[x])
       PROVE  IF Page[v] = r THEN x \in P \ {q} ELSE Known(t, x, v)
  <2>1. x \in s.alive /\ x # q /\ InMap(s, x) /\ v \in BlockUnits(s.blk[x])
    BY <1>9, <1>14, <1>15, <1>16, <1>25
  <2>2. v \in CodeUnits /\ Page[v] \in Ranges
    BY <1>3, <2>1, PageIsRange, SoundBlock DEF AliveInv
  <2>3. CASE Page[v] = r
    BY <1>3, <2>1, <2>3
  <2>4. CASE Page[v] # r
    <3>1. v \in s.Code /\ x \in Range(s.listed[Page[v]])
      BY <1>3, <2>1, <2>4 DEF Known
    <3>2. x \in Range(t.listed[Page[v]])
      BY <1>12, <2>1, <2>2, <3>1
    <3>3. t.listed[Page[v]] # <<>>
      BY <3>2 DEF Range
    <3> QED BY <1>9, <2>4, <3>1, <3>2, <3>3 DEF Known
  <2> QED BY <2>3, <2>4
<1>26. LoopInv(t, r, P \ {q})
  BY <1>13, <1>17, <1>18, <1>19, <1>21, <1>22, <1>23, <1>24, <1>25, Zenon DEF LoopInv
<1>27. Shrinks(s, t)
  BY <1>9, <1>10, <1>16 DEF Shrinks
<1> QED BY <1>1, <1>4, <1>26, <1>27

-----------------------------------------------------------------------------
(* The loop of InvalidateByAddr.                                           *)

\* Induction over the naturals, for a set.
LEMMA SetInduction ==
  ASSUME NEW S, S \subseteq Nat, 0 \in S, \A n \in S : n + 1 \in S
  PROVE  S = Nat
<1> DEFINE T == Nat \ S
           R == {ss \in Nat \X Nat : ss[1] < ss[2]}
<1>1. SUFFICES ASSUME T # {} PROVE FALSE
  OBVIOUS
<1>2. IsWellFoundedOn(R, Nat)
  BY NatLessThanWellFounded DEF OpToRel
<1>3. T \subseteq Nat
  OBVIOUS
<1>4. \E x \in T : \A y \in T : ~(<<y, x>> \in R)
  <2> HIDE DEF T, R
  <2> QED BY <1>1, <1>2, <1>3, WFMin
<1>5. PICK x \in T : \A y \in T : ~(<<y, x>> \in R)
  BY <1>4
<1>6. x \in Nat \ {0}
  OBVIOUS
<1>7. x - 1 \in Nat /\ <<x - 1, x>> \in R
  BY <1>6
<1>8. x - 1 \in S
  BY <1>5, <1>7
<1>9. (x - 1) + 1 \in S
  BY <1>8
<1> QED BY <1>6, <1>9

\* The caches after each of the first n turns.
Turns(f, s, u, order, n) ==
    f = [i \in 0..n |-> IF i = 0 THEN s ELSE InvalidateBlock(f[i - 1], u, order[i])]

\* The loop can go on.
LEMMA TurnsNext ==
  ASSUME NEW s, NEW u, NEW order, NEW n \in Nat, NEW f, Turns(f, s, u, order, n)
  PROVE  \E g : Turns(g, s, u, order, n + 1)
<1>1. PICK last : last = InvalidateBlock(f[n], u, order[n + 1])
  OBVIOUS
<1> DEFINE g == [i \in 0..(n + 1) |-> IF i = n + 1 THEN last ELSE f[i]]
<1>2. ASSUME NEW i \in 0..(n + 1)
      PROVE  g[i] = IF i = 0 THEN s ELSE InvalidateBlock(g[i - 1], u, order[i])
  <2>1. CASE i = n + 1
    <3>1. g[i] = last /\ g[i - 1] = f[n] /\ i # 0
      BY <2>1
    <3> QED BY <1>1, <2>1, <3>1
  <2>2. CASE i # n + 1
    <3>1. i \in 0..n /\ g[i] = f[i] /\ (i # 0 => g[i - 1] = f[i - 1])
      BY <2>2
    <3>2. f[i] = IF i = 0 THEN s ELSE InvalidateBlock(f[i - 1], u, order[i])
      BY <3>1 DEF Turns
    <3> QED BY <3>1, <3>2
  <2> QED BY <2>1, <2>2
<1>3. g = [i \in 0..(n + 1) |-> g[i]]
  OBVIOUS
<1>4. Turns(g, s, u, order, n + 1)
  <2> HIDE DEF g
  <2> QED BY <1>2, <1>3 DEF Turns
<1> QED BY <1>4

\* The function by which InvalidateByAddr is defined exists.
LEMMA TurnsExist ==
  ASSUME NEW s, NEW u, NEW order, NEW n \in Nat
  PROVE  \E f : Turns(f, s, u, order, n)
<1> DEFINE S == {m \in Nat : \E f : Turns(f, s, u, order, m)}
<1>1. 0 \in S
  <2>1. Turns([i \in 0..0 |-> s], s, u, order, 0)
    BY DEF Turns
  <2> QED BY <2>1
<1>2. \A m \in S : m + 1 \in S
  BY TurnsNext
<1>3. S = Nat
  <2> HIDE DEF S
  <2>1. S \subseteq Nat
    BY DEF S
  <2> QED BY <1>1, <1>2, <2>1, SetInduction
<1> QED BY <1>3

Cleared(s, r) == [s EXCEPT !.Code = {v \in @ : Page[v] # r}, !.listed[r] = <<>>]

\* InvalidateByAddr is the state after the last turn.
LEMMA InvalidateByAddrIs ==
  ASSUME NEW s, NEW u, NEW order, order = RemovalOrder(s.listed[Page[u]]),
         NEW n \in Nat, n = Len(order)
  PROVE  \E f : Turns(f, Cleared(s, Page[u]), u, order, n) /\ InvalidateByAddr(s, u) = f[n]
<1>1. PICK s0 : s0 = Cleared(s, Page[u])
  OBVIOUS
<1> DEFINE P(f) == f = [i \in 0..n |-> IF i = 0 THEN s0 ELSE InvalidateBlock(f[i - 1], u, order[i])]
           h == CHOOSE f : P(f)
<1>2. \E f : P(f)
  <2>1. \E f : Turns(f, s0, u, order, n)
    BY TurnsExist
  <2> QED BY <2>1 DEF Turns
<1>3. P(h)
  <2> HIDE DEF P
  <2> QED BY <1>2
<1>4. InvalidateByAddr(s, u) = h[n]
  BY <1>1 DEF InvalidateByAddr, Cleared
<1>5. Turns(h, s0, u, order, n)
  BY <1>3 DEF Turns
<1> QED BY <1>1, <1>4, <1>5

\* Each turn takes its block, so in the end none of the range is left.
LEMMA TurnsKeep ==
  ASSUME NEW s, NEW u \in CodeUnits, NEW order \in Seq(Ptrs), Distinct(order),
         NEW n \in Nat, n = Len(order), NEW f, Turns(f, s, u, order, n),
         LoopInv(s, Page[u], Range(order))
  PROVE  LoopInv(f[n], Page[u], {}) /\ Shrinks(s, f[n])
<1> DEFINE Rest(k) == {order[j] : j \in (k + 1)..n}
           Kept(k) == LoopInv(f[k], Page[u], Rest(k)) /\ Shrinks(s, f[k])
           S == {k \in Nat : k <= n => Kept(k)}
<1>1. DOMAIN order = 1..n
  OBVIOUS
<1>2. 0 \in S
  <2>1. f[0] = s
    BY DEF Turns
  <2>2. Rest(0) = Range(order)
    BY <1>1 DEF Range
  <2>3. Shrinks(s, s)
    BY DEF Shrinks
  <2> QED BY <2>1, <2>2, <2>3
<1>3. ASSUME NEW k \in S PROVE k + 1 \in S
  <2>1. SUFFICES ASSUME k + 1 <= n PROVE Kept(k + 1)
    <3> HIDE DEF Kept
    <3> QED BY <1>3
  <2>2. k \in Nat /\ k <= n /\ k + 1 \in 0..n /\ k + 1 # 0 /\ (k + 1) - 1 = k
    BY <1>3, <2>1
  <2>3. f[k + 1] = InvalidateBlock(f[k], u, order[k + 1])
    <3>1. f[k + 1] = IF k + 1 = 0 THEN s ELSE InvalidateBlock(f[(k + 1) - 1], u, order[k + 1])
      BY <2>2 DEF Turns
    <3> QED BY <2>2, <3>1
  <2>4. LoopInv(f[k], Page[u], Rest(k)) /\ Shrinks(s, f[k])
    <3>1. Kept(k)
      <4> HIDE DEF Kept
      <4> QED BY <1>3, <2>2
    <3> QED BY <3>1
  <2>5. PICK q : q = order[k + 1]
    OBVIOUS
  <2>6. q \in Rest(k)
    BY <2>2, <2>5
  <2>7. Rest(k) \ {q} = Rest(k + 1)
    <3>1. ASSUME NEW x \in Rest(k) \ {q} PROVE x \in Rest(k + 1)
      <4>1. PICK j \in (k + 1)..n : x = order[j]
        BY <3>1
      <4>2. j # k + 1
        BY <2>5, <3>1, <4>1
      <4>3. j \in ((k + 1) + 1)..n
        BY <2>2, <4>1, <4>2
      <4> QED BY <4>1, <4>3
    <3>2. ASSUME NEW x \in Rest(k + 1) PROVE x \in Rest(k) \ {q}
      <4>1. PICK j \in ((k + 1) + 1)..n : x = order[j]
        BY <3>2
      <4>2. j \in (k + 1)..n /\ j # k + 1 /\ j \in DOMAIN order /\ k + 1 \in DOMAIN order
        BY <1>1, <2>2, <4>1
      <4> QED BY <2>5, <4>1, <4>2 DEF Distinct
    <3> QED BY <3>1, <3>2
  <2> HIDE DEF Rest
  <2>8. /\ LoopInv(InvalidateBlock(f[k], u, q), Page[u], Rest(k) \ {q})
        /\ Shrinks(f[k], InvalidateBlock(f[k], u, q))
    BY <2>4, <2>6, InvalidateBlockStep
  <2> QED BY <2>3, <2>4, <2>5, <2>7, <2>8, ShrinksTwice
<1>4. S = Nat
  <2> HIDE DEF S
  <2>1. S \subseteq Nat
    BY DEF S
  <2> QED BY <1>2, <1>3, <2>1, SetInduction
<1>5. Rest(n) = {}
  OBVIOUS
<1>6. Kept(n)
  <2> HIDE DEF Kept
  <2> QED BY <1>4
<1> QED BY <1>5, <1>6

\* The blocks of s have nothing in R.
Avoid(s, R) ==
    \A q \in s.alive : InMap(s, q) => \A u \in BlockUnits(s.blk[q]) : u \notin R

\* Clearing the range begins the loop.
LEMMA LoopBegins ==
  ASSUME NEW s, CacheInv(s), NEW r \in Ranges
  PROVE  LoopInv(Cleared(s, r), r, Range(s.listed[r])) /\ Shrinks(s, Cleared(s, r))
<1>1. PICK t : t = Cleared(s, r)
  OBVIOUS
<1>2. PICK L, C : L = [s.listed EXCEPT ![r] = <<>>] /\ C = {v \in s.Code : Page[v] # r}
  OBVIOUS
<1>3. IsCache(s)
  BY DEF CacheInv, CacheType
<1>4. /\ IsCache(t) /\ t.blk = s.blk /\ t.alive = s.alive /\ t.blocks = s.blocks
      /\ t.cands = s.cands /\ t.fast = s.fast /\ t.listed = L /\ t.Code = C
  <2>1. t = [blk |-> s.blk, alive |-> s.alive, blocks |-> s.blocks, cands |-> s.cands,
             listed |-> L, Code |-> C, fast |-> s.fast, invalid |-> s.invalid]
    BY <1>1, <1>2, <1>3 DEF IsCache, Cleared
  <2> QED BY <2>1 DEF IsCache
<1>5. /\ L \in [Ranges -> Seq(Ptrs)] /\ L[r] = <<>>
      /\ \A x \in Ranges : x # r => L[x] = s.listed[x]
  BY <1>2 DEF CacheInv, CacheType
<1>6. CacheType(t)
  BY <1>2, <1>4, <1>5 DEF CacheInv, CacheType
<1>7. \A q : InMap(t, q) <=> InMap(s, q)
  BY <1>4 DEF InMap
<1>8. MapsInv(t) /\ AliveInv(t) /\ FastInv(t) /\ CandInv(t)
  <2>1. MapsInv(t) /\ AliveInv(t)
    BY <1>4 DEF CacheInv, MapsInv, AliveInv
  <2>2. FastInv(t)
    BY <1>4, <1>7 DEF CacheInv, FastInv
  <2>3. CandInv(t)
    BY <1>4, <1>7 DEF CacheInv, CandInv
  <2> QED BY <2>1, <2>2, <2>3
<1>9. \A q, x : ListedIn(t, q, x) <=> ListedIn(s, q, x)
  BY <1>4, <1>7 DEF ListedIn
<1>10. ListInv(t)
  <2>1. Distinct(<<>>) /\ Range(<<>>) = {}
    BY DEF Distinct, Range
  <2> QED BY <1>4, <1>5, <1>9, <2>1 DEF CacheInv, ListInv
<1>11. \A q \in Range(s.listed[r]) : ListedIn(t, q, r)
  BY <1>9 DEF CacheInv, ListInv
<1>12. ASSUME NEW q \in t.alive, InMap(t, q), NEW v \in BlockUnits(t.blk[q])
       PROVE  IF Page[v] = r THEN q \in Range(s.listed[r]) ELSE Known(t, q, v)
  <2>1. Known(s, q, v)
    BY <1>4, <1>7, <1>12 DEF CacheInv, SeenInv
  <2>2. Page[v] \in Ranges
    BY <1>4, <1>12, SoundBlock, PageIsRange DEF CacheInv, AliveInv
  <2> QED BY <1>2, <1>4, <1>5, <2>1, <2>2 DEF Known
<1>13. LoopInv(t, r, Range(s.listed[r]))
  BY <1>4, <1>5, <1>6, <1>8, <1>10, <1>11, <1>12, Zenon DEF LoopInv
<1>14. Shrinks(s, t)
  BY <1>4 DEF Shrinks
<1> QED BY <1>1, <1>13, <1>14

\* InvalidateByAddr keeps the invariant and leaves no block with a unit in the
\* range.
LEMMA InvalidateByAddrKeeps ==
  ASSUME NEW s, CacheInv(s), NEW u \in CodeUnits
  PROVE  /\ CacheInv(InvalidateByAddr(s, u)) /\ Shrinks(s, InvalidateByAddr(s, u))
         /\ Avoid(InvalidateByAddr(s, u), {u})
<1>1. PICK r : r = Page[u] /\ r \in Ranges
  BY PageIsRange
<1>2. PICK order : order = RemovalOrder(s.listed[r])
  OBVIOUS
<1>3. s.listed[r] \in Seq(Ptrs) /\ Distinct(s.listed[r])
  BY <1>1 DEF CacheInv, CacheType, ListInv
<1>4. order \in Seq(Ptrs) /\ Distinct(order) /\ Range(order) = Range(s.listed[r])
  BY <1>2, <1>3, RemovalOrderFacts
<1>5. PICK n \in Nat : n = Len(order)
  BY <1>4, LenProperties
<1>6. PICK f : Turns(f, Cleared(s, r), u, order, n) /\ InvalidateByAddr(s, u) = f[n]
  BY <1>1, <1>2, <1>5, InvalidateByAddrIs
<1>7. LoopInv(Cleared(s, r), r, Range(order)) /\ Shrinks(s, Cleared(s, r))
  BY <1>1, <1>4, LoopBegins
<1>8. LoopInv(f[n], r, {}) /\ Shrinks(Cleared(s, r), f[n])
  BY <1>1, <1>4, <1>5, <1>6, <1>7, TurnsKeep
<1>9. PICK t : t = f[n]
  OBVIOUS
<1>10. ASSUME NEW q \in t.alive, InMap(t, q), NEW v \in BlockUnits(t.blk[q])
       PROVE  Page[v] # r /\ Known(t, q, v)
  BY <1>8, <1>9, <1>10 DEF LoopInv
<1>11. CacheInv(t)
  BY <1>8, <1>9, <1>10 DEF LoopInv, CacheInv, SeenInv
<1>12. Avoid(t, {u})
  BY <1>1, <1>10 DEF Avoid
<1>13. Shrinks(s, t)
  BY <1>7, <1>8, <1>9, ShrinksTwice
<1> QED BY <1>6, <1>9, <1>11, <1>12, <1>13

\* A store to a unit concerns no block that stays.
LEMMA CheckAndInvalidateKeeps ==
  ASSUME NEW s, CacheInv(s), NEW u \in CodeUnits
  PROVE  /\ CacheInv(CheckAndInvalidate(s, u)) /\ Shrinks(s, CheckAndInvalidate(s, u))
         /\ Avoid(CheckAndInvalidate(s, u), {u})
<1>1. CASE u \in s.Code
  BY <1>1, InvalidateByAddrKeeps DEF CheckAndInvalidate
<1>2. CASE u \notin s.Code
  <2>1. CheckAndInvalidate(s, u) = s
    BY <1>2 DEF CheckAndInvalidate
  <2>2. Avoid(s, {u})
    BY <1>2 DEF CacheInv, SeenInv, Known, Avoid
  <2>3. Shrinks(s, s)
    BY DEF Shrinks
  <2> QED BY <2>1, <2>2, <2>3
<1> QED BY <1>1, <1>2

-----------------------------------------------------------------------------
(* The other operations on the cache.                                      *)

\* The blocks the maps, the candidates, the lists and the lookup table point to
\* have not been deleted, so a block is free when it is not alive.
LEMMA ReferencesAlive ==
  ASSUME NEW s, CacheInv(s)
  PROVE  /\ MappedBlocks(s) = {q \in s.alive : InMap(s, q)}
         /\ Candidates(s) \subseteq s.alive
         /\ ListedBlocks(s) \subseteq MappedBlocks(s)
         /\ FastBlocks(s) \subseteq MappedBlocks(s)
         /\ FreePtrs(s) = Ptrs \ s.alive
<1>1. s.blocks \in [CPUs -> [Entries -> Ptrs \union {NULL}]] /\ s.alive \subseteq Ptrs
  BY DEF CacheInv, CacheType
<1>2. ASSUME NEW q \in MappedBlocks(s) PROVE q \in s.alive /\ InMap(s, q)
  <2>1. PICK p \in CPUs : q \in Range(s.blocks[p]) /\ q # NULL
    <3>1. q \in UNION {Range(s.blocks[p]) : p \in CPUs} /\ q # NULL
      BY <1>2, Zenon DEF MappedBlocks
    <3> QED BY <3>1, Zenon
  <2>2. PICK a \in Entries : q = s.blocks[p][a]
    BY <1>1, <2>1 DEF Range
  <2>3. q \in s.alive /\ s.blk[q].num = p /\ s.blk[q].start = a
    BY <2>1, <2>2 DEF CacheInv, MapsInv
  <2> QED BY <2>2, <2>3 DEF InMap
<1>3. ASSUME NEW q \in s.alive, InMap(s, q) PROVE q \in MappedBlocks(s)
  <2>1. q # NULL /\ s.blk[q].num \in CPUs /\ s.blk[q].start \in Entries
    BY <1>1, JITAssumption DEF CacheInv, AliveInv, Sound
  <2>2. q \in Range(s.blocks[s.blk[q].num])
    BY <1>1, <1>3, <2>1 DEF InMap, Range
  <2>3. q \in UNION {Range(s.blocks[p]) : p \in CPUs}
    BY <2>1, <2>2, Zenon
  <2> QED BY <2>1, <2>3, Zenon DEF MappedBlocks
<1>4. MappedBlocks(s) = {q \in s.alive : InMap(s, q)}
  BY <1>2, <1>3
<1>5. Candidates(s) \subseteq s.alive
  BY DEF CacheInv, CacheType, CandInv, Candidates, Range
<1>6. ListedBlocks(s) \subseteq MappedBlocks(s)
  BY <1>3 DEF CacheInv, ListInv, ListedIn, ListedBlocks
<1>7. FastBlocks(s) \subseteq MappedBlocks(s)
  BY <1>3 DEF CacheInv, FastInv, FastBlocks
<1>8. Referenced(s) \subseteq s.alive
  BY <1>4, <1>5, <1>6, <1>7 DEF Referenced
<1>9. FreePtrs(s) = Ptrs \ s.alive
  BY <1>8 DEF FreePtrs
<1> QED BY <1>4, <1>5, <1>6, <1>7, <1>9

\* The caches s and t differ only in deleted blocks and in the literals that
\* are not to be embedded.
Alike(s, t) ==
    /\ IsCache(t) /\ t.blk = [q \in Ptrs |-> t.blk[q]]
    /\ \A q \in s.alive : t.blk[q] = s.blk[q]
    /\ t.alive = s.alive /\ t.blocks = s.blocks /\ t.cands = s.cands
    /\ t.listed = s.listed /\ t.Code = s.Code /\ t.fast = s.fast

\* Such a difference does not matter.
LEMMA AlikeKeeps ==
  ASSUME NEW s, CacheInv(s), NEW t, Alike(s, t)
  PROVE  CacheInv(t) /\ \A q \in s.alive : InMap(t, q) <=> InMap(s, q)
<1>1. \A q \in s.alive : InMap(t, q) <=> InMap(s, q)
  BY DEF Alike, InMap
<1>2. CacheType(t)
  BY DEF Alike, CacheInv, CacheType
<1>3. MapsInv(t) /\ AliveInv(t)
  BY DEF Alike, CacheInv, MapsInv, AliveInv
<1>4. SeenInv(t)
  BY <1>1 DEF Alike, CacheInv, SeenInv, Known
<1>5. ListInv(t)
  BY <1>1 DEF Alike, CacheInv, ListInv, ListedIn
<1>6. FastInv(t)
  BY SMTT(60), <1>1 DEF Alike, CacheInv, FastInv
<1>7. CandInv(t)
  BY <1>1 DEF Alike, CacheInv, CandInv
<1> QED BY <1>1, <1>2, <1>3, <1>4, <1>5, <1>6, <1>7 DEF CacheInv

\* Forgetting what deleted blocks held is one.
LEMMA TidyAlike ==
  ASSUME NEW s, CacheInv(s)
  PROVE  Alike(s, Tidy(s))
<1>1. IsCache(s) /\ s.blk = [q \in Ptrs |-> s.blk[q]] /\ s.alive \subseteq Ptrs
  BY DEF CacheInv, CacheType
<1>2. PICK B : B = [q \in Ptrs |-> IF q \in FreePtrs(s) THEN Block0 ELSE s.blk[q]]
  OBVIOUS
<1>3. PICK t : t = Tidy(s)
  OBVIOUS
<1>4. t = [blk |-> B, alive |-> s.alive, blocks |-> s.blocks, cands |-> s.cands,
           listed |-> s.listed, Code |-> s.Code, fast |-> s.fast, invalid |-> s.invalid]
  BY <1>1, <1>2, <1>3 DEF IsCache, Tidy
<1>5. B = [q \in Ptrs |-> B[q]]
  BY <1>2
<1>6. \A q \in s.alive : B[q] = s.blk[q]
  BY <1>1, <1>2, ReferencesAlive
<1>7. Alike(s, t)
  BY <1>4, <1>5, <1>6 DEF Alike, IsCache
<1> QED BY <1>3, <1>7

\* A change of the literals not to be embedded is another.
LEMMA InvalidAlike ==
  ASSUME NEW s, CacheInv(s), NEW V
  PROVE  Alike(s, [s EXCEPT !.invalid = V])
<1>1. IsCache(s) /\ s.blk = [q \in Ptrs |-> s.blk[q]]
  BY DEF CacheInv, CacheType
<1>2. PICK t : t = [s EXCEPT !.invalid = V]
  OBVIOUS
<1>3. t = [blk |-> s.blk, alive |-> s.alive, blocks |-> s.blocks, cands |-> s.cands,
           listed |-> s.listed, Code |-> s.Code, fast |-> s.fast, invalid |-> V]
  BY <1>1, <1>2 DEF IsCache
<1>4. Alike(s, t)
  BY <1>1, <1>3 DEF Alike, IsCache
<1> QED BY <1>2, <1>4

\* A reset leaves nothing mapped, listed or to be looked up.
LEMMA ResetBlockCacheKeeps ==
  ASSUME NEW s, CacheInv(s)
  PROVE  /\ CacheInv(ResetBlockCache(s)) /\ Shrinks(s, ResetBlockCache(s))
         /\ \A q : ~InMap(ResetBlockCache(s), q) \/ q = NULL \/ q \notin s.alive
<1>1. PICK t : t = ResetBlockCache(s)
  OBVIOUS
<1>2. PICK R : R = UNION {BlockRanges(s.blk[q]) : q \in MappedBlocks(s)}
  OBVIOUS
<1>3. IsCache(s)
  BY DEF CacheInv, CacheType
<1>4. PICK A, B, H, L, C, F :
        /\ A = s.alive \ (MappedBlocks(s) \union Candidates(s))
        /\ B = [p \in CPUs |-> [a \in Entries |-> NULL]]
        /\ H = [h \in Codes |-> NULL]
        /\ L = [r \in Ranges |-> IF r \in R THEN <<>> ELSE s.listed[r]]
        /\ C = {u \in s.Code : Page[u] \notin R}
        /\ F = [u \in CodeUnits |-> NULL]
  OBVIOUS
<1>5. EmptyCache.blocks = B /\ EmptyCache.cands = H /\ EmptyCache.fast = F
  BY <1>4 DEF EmptyCache
<1>6. t = [blk |-> s.blk, alive |-> A, blocks |-> B, cands |-> H,
           listed |-> L, Code |-> C, fast |-> F, invalid |-> {}]
  <2>1. PICK Q : Q = MappedBlocks(s) \union Candidates(s)
    OBVIOUS
  <2>2. PICK d : d = Delete(s, Q)
    OBVIOUS
  <2>3. d = [blk |-> s.blk, alive |-> A, blocks |-> s.blocks, cands |-> s.cands,
             listed |-> s.listed, Code |-> s.Code, fast |-> s.fast, invalid |-> s.invalid]
    BY <1>3, <1>4, <2>1, <2>2 DEF Delete, IsCache
  <2>4. [r \in Ranges |-> IF r \in R THEN <<>> ELSE d.listed[r]] = L
    BY <1>4, <2>3
  <2>5. {u \in d.Code : Page[u] \notin R} = C
    BY <1>4, <2>3
  <2>6. t = [d EXCEPT !.blocks = B, !.cands = H, !.fast = F, !.invalid = {},
               !.listed = [r \in Ranges |-> IF r \in R THEN <<>> ELSE @[r]],
               !.Code = {u \in @ : Page[u] \notin R}]
    BY <1>1, <1>2, <1>5, <2>1, <2>2, Zenon DEF ResetBlockCache
  <2>7. t = [d EXCEPT !.blocks = B, !.cands = H, !.fast = F, !.invalid = {},
                      !.listed = L, !.Code = C]
    BY <2>3, <2>4, <2>5, <2>6
  <2> QED BY <2>3, <2>7
<1>7. /\ IsCache(t) /\ t.blk = s.blk /\ t.alive = A /\ t.blocks = B /\ t.cands = H
      /\ t.listed = L /\ t.Code = C /\ t.fast = F
  BY <1>6 DEF IsCache
<1>8. \A r \in Ranges : L[r] = <<>>
  <2>1. SUFFICES ASSUME NEW r \in Ranges, r \notin R PROVE s.listed[r] = <<>>
    BY <1>4
  <2>2. s.listed[r] \in Seq(Ptrs)
    BY DEF CacheInv, CacheType
  <2>3. SUFFICES ASSUME s.listed[r] # <<>> PROVE FALSE
    OBVIOUS
  <2>4. PICK q : q \in Range(s.listed[r])
    <3>1. 1 \in DOMAIN s.listed[r]
      BY <2>2, <2>3, EmptySeq
    <3> QED BY <3>1 DEF Range
  <2>5. q \in s.alive /\ InMap(s, q) /\ r \in BlockRanges(s.blk[q])
    BY <2>4 DEF CacheInv, ListInv, ListedIn
  <2>6. q \in MappedBlocks(s)
    BY <2>5, ReferencesAlive
  <2> QED BY <1>2, <2>1, <2>5, <2>6
<1>9. CacheType(t)
  <2>1. L \in [Ranges -> Seq(Ptrs)]
    BY <1>4, <1>8, EmptySeq
  <2>2. A \subseteq Ptrs /\ C \subseteq CodeUnits /\ s.blk = [q \in Ptrs |-> s.blk[q]]
    BY <1>4 DEF CacheInv, CacheType
  <2> QED BY <1>4, <1>7, <2>1, <2>2 DEF CacheType
<1>10. ASSUME NEW q \in s.alive PROVE ~InMap(t, q)
  <2>1. q # NULL /\ s.blk[q].num \in CPUs /\ s.blk[q].start \in Entries
    BY JITAssumption DEF CacheInv, CacheType, AliveInv, Sound
  <2> QED BY <1>4, <1>7, <2>1 DEF InMap
<1>11. A \subseteq s.alive
  BY <1>4
<1>12. MapsInv(t) /\ AliveInv(t) /\ FastInv(t) /\ CandInv(t)
  BY <1>4, <1>7, <1>11 DEF CacheInv, MapsInv, AliveInv, FastInv, CandInv
<1>13. SeenInv(t)
  BY <1>7, <1>10, <1>11 DEF SeenInv
<1>14. ListInv(t)
  BY <1>7, <1>8 DEF ListInv, Distinct, Range
<1>15. CacheInv(t)
  BY <1>9, <1>12, <1>13, <1>14 DEF CacheInv
<1>16. Shrinks(s, t)
  BY <1>4, <1>7, <1>11 DEF Shrinks
<1> QED BY <1>1, <1>10, <1>15, <1>16

\* Nobody's block: neither mapped nor a candidate.
Loose(s, q) == ~InMap(s, q) /\ \A h \in Codes : s.cands[h] # q

\* Only the candidate for instructions h is taken out.
LEMMA TakeCandidateKeeps ==
  ASSUME NEW s, CacheInv(s), NEW h \in Codes, NEW may \in BOOLEAN
  PROVE  /\ CacheInv(TakeCandidate(s, h, may)) /\ Shrinks(s, TakeCandidate(s, h, may))
         /\ TakeCandidate(s, h, may).invalid = s.invalid
         /\ \A q \in s.alive : InMap(TakeCandidate(s, h, may), q) <=> InMap(s, q)
         /\ (may /\ s.cands[h] # NULL) =>
               /\ s.cands[h] \in TakeCandidate(s, h, may).alive
               /\ Loose(TakeCandidate(s, h, may), s.cands[h])
<1>1. PICK t : t = TakeCandidate(s, h, may)
  OBVIOUS
<1>2. PICK H : H = [s.cands EXCEPT ![h] = NULL]
  OBVIOUS
<1>3. PICK A : A = IF may THEN s.alive ELSE s.alive \ {s.cands[h]}
  OBVIOUS
<1>4. IsCache(s) /\ s.cands \in [Codes -> Ptrs \union {NULL}]
  BY DEF CacheInv, CacheType
<1>5. t = [blk |-> s.blk, alive |-> A, blocks |-> s.blocks, cands |-> H,
           listed |-> s.listed, Code |-> s.Code, fast |-> s.fast, invalid |-> s.invalid]
  <2>1. PICK d : d = [s EXCEPT !.cands[h] = NULL]
    OBVIOUS
  <2>2. d = [blk |-> s.blk, alive |-> s.alive, blocks |-> s.blocks, cands |-> H,
             listed |-> s.listed, Code |-> s.Code, fast |-> s.fast, invalid |-> s.invalid]
    BY <1>2, <1>4, <2>1 DEF IsCache
  <2>3. t = IF may THEN d ELSE Delete(d, {s.cands[h]})
    BY <1>1, <2>1, Zenon DEF TakeCandidate
  <2>4. CASE may
    BY <1>3, <2>2, <2>3, <2>4
  <2>5. CASE ~may
    <3>1. PICK x : x = s.cands[h]
      OBVIOUS
    <3>2. t = [d EXCEPT !.alive = d.alive \ {x}]
      BY <2>3, <2>5, <3>1 DEF Delete
    <3> QED BY <1>3, <2>2, <2>5, <3>1, <3>2
  <2> QED BY <2>4, <2>5
<1>6. /\ IsCache(t) /\ t.blk = s.blk /\ t.alive = A /\ t.blocks = s.blocks /\ t.cands = H
      /\ t.listed = s.listed /\ t.Code = s.Code /\ t.fast = s.fast /\ t.invalid = s.invalid
  BY <1>5 DEF IsCache
<1>7. \A q : InMap(t, q) <=> InMap(s, q)
  BY <1>6 DEF InMap
<1>8. /\ A \subseteq s.alive
      /\ \A q \in s.alive : InMap(s, q) => q \in A
  <2>1. \A q \in s.alive : InMap(s, q) => q # s.cands[h]
    BY <1>4, JITAssumption DEF CacheInv, CacheType, CandInv
  <2> QED BY <1>3, <2>1
<1>9. \A k \in Codes : H[k] # NULL => k # h /\ H[k] = s.cands[k] /\ H[k] \in A
  <2>1. SUFFICES ASSUME NEW k \in Codes, H[k] # NULL
                 PROVE  k # h /\ H[k] = s.cands[k] /\ H[k] \in A
    OBVIOUS
  <2>2. k # h /\ H[k] = s.cands[k]
    BY <1>2, <1>4, <2>1
  <2>3. s.cands[k] \in s.alive /\ s.blk[s.cands[k]].code = k
    BY <2>1, <2>2 DEF CacheInv, CandInv
  <2>4. s.cands[k] # s.cands[h]
    BY <2>1, <2>2, <2>3 DEF CacheInv, CandInv
  <2> QED BY <1>3, <2>2, <2>3, <2>4
<1>10. CacheType(t)
  <2>1. H \in [Codes -> Ptrs \union {NULL}]
    BY <1>2, <1>4
  <2> QED BY <1>6, <1>8, <2>1 DEF CacheInv, CacheType
<1>11. MapsInv(t)
  <2>1. SUFFICES ASSUME NEW p \in CPUs, NEW a \in Entries, s.blocks[p][a] # NULL
                 PROVE  LET q == s.blocks[p][a] IN
                        q \in A /\ s.blk[q].num = p /\ s.blk[q].start = a
    BY <1>6 DEF MapsInv
  <2>2. PICK q : q = s.blocks[p][a]
    OBVIOUS
  <2>3. q \in s.alive /\ s.blk[q].num = p /\ s.blk[q].start = a
    BY <2>1, <2>2 DEF CacheInv, MapsInv
  <2>4. InMap(s, q)
    BY <2>2, <2>3 DEF InMap
  <2> QED BY <1>8, <2>2, <2>3, <2>4
<1>12. AliveInv(t) /\ SeenInv(t)
  BY <1>6, <1>7, <1>8 DEF CacheInv, AliveInv, SeenInv, Known
<1>13. ListInv(t)
  BY <1>6, <1>7, <1>8 DEF CacheInv, ListInv, ListedIn
<1>14. FastInv(t)
  BY <1>6, <1>7, <1>8 DEF CacheInv, FastInv
<1>15. CandInv(t)
  BY <1>6, <1>7, <1>9 DEF CacheInv, CandInv
<1>16. CacheInv(t)
  BY <1>10, <1>11, <1>12, <1>13, <1>14, <1>15 DEF CacheInv
<1>17. Shrinks(s, t)
  BY <1>6, <1>8 DEF Shrinks
<1>18. ASSUME may, s.cands[h] # NULL
       PROVE  s.cands[h] \in t.alive /\ Loose(t, s.cands[h])
  <2>1. s.cands[h] \in A /\ ~InMap(t, s.cands[h]) /\ s.blk[s.cands[h]].code = h
    BY <1>3, <1>7, <1>18 DEF CacheInv, CandInv
  <2>2. \A k \in Codes : H[k] # s.cands[h]
    BY <1>9, <1>18, <2>1 DEF CacheInv, CandInv
  <2> QED BY <1>6, <2>1, <2>2 DEF Loose
<1> QED BY <1>1, <1>6, <1>7, <1>16, <1>17, <1>18

\* A new block.
Created(s, q, b) == [s EXCEPT !.alive = @ \union {q}, !.blk[q] = b]

\* It is nobody's, and disturbs no other block.
LEMMA CreatedKeeps ==
  ASSUME NEW s, CacheInv(s), NEW q \in Ptrs, q \notin s.alive, NEW b, Sound(b)
  PROVE  /\ CacheInv(Created(s, q, b)) /\ Loose(Created(s, q, b), q)
         /\ Created(s, q, b).blk[q] = b /\ Created(s, q, b).alive = s.alive \union {q}
         /\ Created(s, q, b).blocks = s.blocks
         /\ \A x \in s.alive : /\ Created(s, q, b).blk[x] = s.blk[x]
                               /\ InMap(Created(s, q, b), x) <=> InMap(s, x)
<1>1. PICK t : t = Created(s, q, b)
  OBVIOUS
<1>2. PICK B : B = [s.blk EXCEPT ![q] = b]
  OBVIOUS
<1>3. PICK A : A = s.alive \union {q}
  OBVIOUS
<1>4. IsCache(s) /\ s.blk = [x \in Ptrs |-> s.blk[x]] /\ s.alive \subseteq Ptrs
  BY DEF CacheInv, CacheType
<1>5. t = [blk |-> B, alive |-> A, blocks |-> s.blocks, cands |-> s.cands,
           listed |-> s.listed, Code |-> s.Code, fast |-> s.fast, invalid |-> s.invalid]
  BY <1>1, <1>2, <1>3, <1>4 DEF IsCache, Created
<1>6. /\ IsCache(t) /\ t.blk = B /\ t.alive = A /\ t.blocks = s.blocks /\ t.cands = s.cands
      /\ t.listed = s.listed /\ t.Code = s.Code /\ t.fast = s.fast
  BY <1>5 DEF IsCache
<1>7. B = [x \in Ptrs |-> B[x]] /\ B[q] = b /\ \A x \in s.alive : B[x] = s.blk[x] /\ x # q
  BY <1>2, <1>4
<1>8. \A x \in s.alive : InMap(t, x) <=> InMap(s, x)
  BY <1>6, <1>7 DEF InMap
<1>9. Loose(t, q)
  <2>1. b.num \in CPUs /\ b.start \in Entries /\ q # NULL
    BY JITAssumption DEF Sound
  <2>2. s.blocks[b.num][b.start] # q
    BY <2>1 DEF CacheInv, MapsInv
  <2>3. \A h \in Codes : s.cands[h] # q
    BY <2>1 DEF CacheInv, CandInv
  <2> QED BY <1>6, <1>7, <2>2, <2>3 DEF Loose, InMap
<1>10. CacheType(t)
  BY <1>3, <1>6, <1>7 DEF CacheInv, CacheType
<1>11. MapsInv(t)
  BY <1>3, <1>6, <1>7 DEF CacheInv, MapsInv
<1>12. AliveInv(t)
  BY <1>3, <1>6, <1>7 DEF CacheInv, AliveInv
<1>13. SeenInv(t)
  BY <1>3, <1>6, <1>7, <1>8, <1>9 DEF CacheInv, SeenInv, Known, Loose
<1>14. ListInv(t)
  BY <1>3, <1>6, <1>7, <1>8 DEF CacheInv, ListInv, ListedIn
<1>15. FastInv(t)
  BY <1>3, <1>6, <1>7, <1>8 DEF CacheInv, FastInv
<1>16. CandInv(t)
  BY <1>3, <1>6, <1>7, <1>8 DEF CacheInv, CandInv
<1>17. CacheInv(t)
  BY <1>10, <1>11, <1>12, <1>13, <1>14, <1>15, <1>16 DEF CacheInv
<1> QED BY <1>1, <1>3, <1>6, <1>7, <1>8, <1>9, <1>17

\* Block q is nobody's, and can be entered where d was fetched.
Fits(s, q, d) ==
    /\ CacheInv(s) /\ q \in s.alive /\ Loose(s, q)
    /\ s.blocks[d.num][d.start] = NULL
    /\ s.blk[q].num = d.num /\ s.blk[q].start = d.start /\ s.blk[q].at = d.at
    /\ BlockUnits(s.blk[q]) = BlockUnits(d)

\* Block q is in a map of t, and the rest is as in s.
Registered(s, q, t) ==
    /\ CacheInv(t) /\ t.blk = s.blk /\ t.alive = s.alive
    /\ \A x \in s.alive : InMap(t, x) <=> (InMap(s, x) \/ x = q)

\* A block is entered in the map, its ranges and the table.
LEMMA RegisterKeeps ==
  ASSUME NEW s, NEW q, NEW d, Fits(s, q, d)
  PROVE  Registered(s, q, Register(s, d, q))
<1>0. PICK b, t : b = s.blk[q] /\ t = Register(s, d, q)
  OBVIOUS
<1> /\ b = s.blk[q] /\ t = Register(s, d, q)
    /\ CacheInv(s) /\ q \in s.alive /\ Loose(s, q) /\ s.blocks[b.num][b.start] = NULL
    /\ d.num = b.num /\ d.start = b.start /\ d.at = b.at /\ BlockUnits(d) = BlockUnits(b)
  BY <1>0 DEF Fits
<1>1. PICK p, a, U, R : p = b.num /\ a = b.start /\ U = BlockUnits(b) /\ R = BlockRanges(b)
  OBVIOUS
<1>2. PICK e : e = [start |-> a, num |-> p, ptr |-> q]
  OBVIOUS
<1>3. Sound(b) /\ p \in CPUs /\ a \in Entries /\ q \in Ptrs /\ q # NULL
  BY <1>1, JITAssumption DEF CacheInv, CacheType, AliveInv, Sound
<1>4. U \subseteq CodeUnits /\ R \subseteq Ranges /\ b.at[1] \in CodeUnits
  BY <1>1, <1>3, SoundBlock
<1>5. IsCache(s) /\ s.blocks \in [CPUs -> [Entries -> Ptrs \union {NULL}]]
  BY DEF CacheInv, CacheType
<1>6. PICK L, B, F :
        /\ L = [r \in Ranges |-> IF r \in R THEN Append(s.listed[r], q) ELSE s.listed[r]]
        /\ B = [s.blocks EXCEPT ![p][a] = q]
        /\ F = [s.fast EXCEPT ![b.at[1]] = e]
  OBVIOUS
<1>7. t = [blk |-> s.blk, alive |-> s.alive, blocks |-> B, cands |-> s.cands, listed |-> L,
           Code |-> s.Code \union U, fast |-> F, invalid |-> s.invalid]
  <2>1. BlockRanges(d) = R /\ d.num = p /\ d.start = a /\ d.at = b.at /\ BlockUnits(d) = U
    BY <1>1 DEF BlockRanges
  <2>2. t = [s EXCEPT !.Code = @ \union U,
                      !.listed = [r \in Ranges |-> IF r \in R THEN Append(@[r], q) ELSE @[r]],
                      !.blocks[p][a] = q,
                      !.fast[b.at[1]] = e]
    BY <1>1, <1>2, <2>1, Zenon DEF Register
  <2>3. t = [s EXCEPT !.Code = s.Code \union U, !.listed = L, !.blocks = B, !.fast = F]
    BY <1>5, <1>6, <2>2 DEF IsCache
  <2> QED BY <1>5, <2>3 DEF IsCache
<1>8. /\ IsCache(t) /\ t.blk = s.blk /\ t.alive = s.alive /\ t.blocks = B /\ t.cands = s.cands
      /\ t.listed = L /\ t.Code = s.Code \union U /\ t.fast = F
  BY <1>7 DEF IsCache
<1>9. /\ B \in [CPUs -> [Entries -> Ptrs \union {NULL}]]
      /\ \A x \in CPUs, y \in Entries : B[x][y] = IF x = p /\ y = a THEN q ELSE s.blocks[x][y]
  BY <1>3, <1>5, <1>6
<1>10. ASSUME NEW x \in s.alive PROVE InMap(t, x) <=> (InMap(s, x) \/ x = q)
  <2>1. x # NULL /\ s.blk[x].num \in CPUs /\ s.blk[x].start \in Entries
    BY JITAssumption DEF CacheInv, CacheType, AliveInv, Sound
  <2>2. PICK n, m : n = s.blk[x].num /\ m = s.blk[x].start
    OBVIOUS
  <2>3. (InMap(t, x) <=> B[n][m] = x) /\ (InMap(s, x) <=> s.blocks[n][m] = x)
    BY <1>8, <2>2 DEF InMap
  <2>4. CASE n = p /\ m = a
    <3>1. B[n][m] = q /\ s.blocks[n][m] = NULL
      BY <1>1, <1>3, <1>9, <2>4
    <3> QED BY <2>1, <2>3, <3>1
  <2>5. CASE ~(n = p /\ m = a)
    <3>1. B[n][m] = s.blocks[n][m]
      BY <1>9, <2>1, <2>2, <2>5
    <3>2. x # q
      BY <1>1, <2>2, <2>5
    <3> QED BY <2>3, <3>1, <3>2
  <2> QED BY <2>4, <2>5
<1>11. ASSUME NEW r \in Ranges
       PROVE  /\ L[r] \in Seq(Ptrs) /\ Distinct(L[r])
              /\ Range(L[r]) = IF r \in R THEN Range(s.listed[r]) \union {q}
                               ELSE Range(s.listed[r])
  <2>1. s.listed[r] \in Seq(Ptrs) /\ Distinct(s.listed[r]) /\ q \notin Range(s.listed[r])
    BY DEF CacheInv, CacheType, ListInv, ListedIn, Loose
  <2>2. CASE r \in R
    <3>1. L[r] = Append(s.listed[r], q)
      BY <1>6, <2>2
    <3> QED BY <1>3, <2>1, <2>2, <3>1, AppendAdds
  <2>3. CASE r \notin R
    BY <1>6, <2>1, <2>3
  <2> QED BY <2>2, <2>3
<1>12. CacheType(t)
  <2>1. L \in [Ranges -> Seq(Ptrs)]
    BY <1>6, <1>11
  <2>2. F = [u \in CodeUnits |-> F[u]]
    BY <1>6 DEF CacheInv, CacheType
  <2> QED BY <1>4, <1>8, <1>9, <2>1, <2>2 DEF CacheInv, CacheType
<1>13. MapsInv(t)
  <2>1. SUFFICES ASSUME NEW n \in CPUs, NEW m \in Entries, t.blocks[n][m] # NULL
                 PROVE  LET x == t.blocks[n][m] IN
                        x \in t.alive /\ t.blk[x].num = n /\ t.blk[x].start = m
    BY Zenon DEF MapsInv
  <2>2. PICK x : x = t.blocks[n][m]
    OBVIOUS
  <2>3. x \in s.alive /\ s.blk[x].num = n /\ s.blk[x].start = m
    <3>1. CASE n = p /\ m = a
      <4>1. x = q
        BY <1>8, <1>9, <2>2, <3>1
      <4> QED BY <1>1, <3>1, <4>1
    <3>2. CASE ~(n = p /\ m = a)
      <4>1. x = s.blocks[n][m] /\ x # NULL
        BY <1>8, <1>9, <2>1, <2>2, <3>2
      <4> QED BY <4>1 DEF CacheInv, MapsInv
    <3> QED BY <3>1, <3>2
  <2> QED BY <1>8, <2>2, <2>3
<1>14. AliveInv(t)
  BY <1>8 DEF CacheInv, AliveInv
<1>15. SeenInv(t)
  <2>1. SUFFICES ASSUME NEW x \in s.alive, InMap(t, x), NEW u \in BlockUnits(s.blk[x])
                 PROVE  u \in s.Code \union U /\ x \in Range(L[Page[u]])
    BY <1>8 DEF SeenInv, Known
  <2>2. Page[u] \in Ranges
    BY PageIsRange, SoundBlock DEF CacheInv, AliveInv
  <2>3. CASE x = q
    <3>1. u \in U /\ Page[u] \in R
      BY <1>1, <2>1, <2>3 DEF BlockRanges
    <3> QED BY <1>11, <2>2, <2>3, <3>1
  <2>4. CASE x # q
    <3>1. u \in s.Code /\ x \in Range(s.listed[Page[u]])
      BY <1>10, <2>1, <2>4 DEF CacheInv, SeenInv, Known
    <3> QED BY <1>11, <2>2, <3>1
  <2> QED BY <2>3, <2>4
<1>16. ListInv(t)
  <2>1. SUFFICES ASSUME NEW r \in Ranges, NEW x \in Range(L[r]) PROVE ListedIn(t, x, r)
    BY <1>8, <1>11 DEF ListInv
  <2>2. CASE x = q /\ r \in R
    BY <1>1, <1>8, <1>10, <2>2 DEF ListedIn
  <2>3. CASE x \in Range(s.listed[r])
    BY <1>8, <1>10, <2>3 DEF CacheInv, ListInv, ListedIn
  <2> QED BY <1>11, <2>1, <2>2, <2>3
<1>17. FastInv(t)
  <2>1. SUFFICES ASSUME NEW u \in CodeUnits, t.fast[u] # NULL
                 PROVE  LET x == t.fast[u] IN
                        /\ x.ptr \in t.alive /\ InMap(t, x.ptr)
                        /\ t.blk[x.ptr].num = x.num /\ t.blk[x.ptr].start = x.start
                        /\ t.blk[x.ptr].at[1] = u
    BY Zenon DEF FastInv
  <2>2. CASE u = b.at[1]
    <3>1. F[u] = e
      BY <1>6, <2>2 DEF CacheInv, CacheType
    <3>2. e.ptr = q /\ e.num = p /\ e.start = a
      BY <1>2
    <3> QED BY <1>1, <1>8, <1>10, <2>2, <3>1, <3>2
  <2>3. CASE u # b.at[1]
    <3>1. F[u] = s.fast[u]
      BY <1>6, <2>3 DEF CacheInv, CacheType
    <3>2. PICK x : x = t.fast[u]
      OBVIOUS
    <3>3. x = s.fast[u] /\ x # NULL
      BY <1>8, <2>1, <3>1, <3>2
    <3>4. /\ x.ptr \in s.alive /\ InMap(s, x.ptr)
          /\ s.blk[x.ptr].num = x.num /\ s.blk[x.ptr].start = x.start
          /\ s.blk[x.ptr].at[1] = u
      BY <3>3 DEF CacheInv, FastInv
    <3>5. InMap(t, x.ptr)
      BY <1>10, <3>4
    <3> QED BY <1>8, <3>2, <3>4, <3>5
  <2> QED BY <2>2, <2>3
<1>18. CandInv(t)
  <2>1. \A h \in Codes : s.cands[h] # q
    BY DEF Loose
  <2>2. SUFFICES ASSUME NEW h \in Codes, t.cands[h] # NULL
                 PROVE  /\ t.cands[h] \in t.alive /\ ~InMap(t, t.cands[h])
                        /\ t.blk[t.cands[h]].code = h
    BY Zenon DEF CandInv
  <2>3. PICK x : x = s.cands[h]
    OBVIOUS
  <2>4. x = t.cands[h] /\ x # q /\ x # NULL
    BY <1>8, <2>1, <2>2, <2>3
  <2>5. x \in s.alive /\ ~InMap(s, x) /\ s.blk[x].code = h
    BY <2>3, <2>4 DEF CacheInv, CandInv
  <2>6. ~InMap(t, x)
    BY <1>10, <2>4, <2>5
  <2> QED BY <1>8, <2>4, <2>5, <2>6
<1>19. CacheInv(t)
  BY <1>12, <1>13, <1>14, <1>15, <1>16, <1>17, <1>18 DEF CacheInv
<1> QED BY <1>0, <1>8, <1>10, <1>19 DEF Registered

-----------------------------------------------------------------------------
(* Blocks and memory.                                                      *)

\* The code of a block, and the literals embedded in it, are what memory holds.
Agrees(b, m) ==
    /\ \A i \in DOMAIN b.at : b.code[i] = m[b.at[i]]
    /\ \A u \in DOMAIN b.embedded : b.embedded[u] = m[u]

\* What was embedded is what was hashed, so that MayRestore compares it.
Hashed(b) == \A u \in DOMAIN b.embedded : b.embedded[u] = b.hash[u]

\* So it is for the mapped blocks, but for those in D.
Fresh(s, m, D) ==
    \A q \in s.alive \ D : /\ Hashed(s.blk[q])
                           /\ InMap(s, q) => Agrees(s.blk[q], m)

\* The stores that lead from memory m1 to m2 concern no mapped block.
Untouched(s, m1, m2) ==
    \A q \in s.alive : InMap(s, q) => \A u \in BlockUnits(s.blk[q]) : m2[u] = m1[u]

\* Stores elsewhere do not concern a block.
LEMMA AgreesUntouched ==
  ASSUME NEW b, Sound(b), NEW m1, NEW m2, Agrees(b, m1),
         \A u \in BlockUnits(b) : m2[u] = m1[u]
  PROVE  Agrees(b, m2)
BY SoundBlock DEF Agrees

\* The blocks that stay agree with the memory after such stores.
LEMMA FreshShrinks ==
  ASSUME NEW s, CacheInv(s), NEW t, Shrinks(s, t), NEW m1, NEW m2, NEW D, NEW E,
         Fresh(s, m1, D), Untouched(t, m1, m2), D \intersect t.alive \subseteq E
  PROVE  Fresh(t, m2, E)
<1>1. SUFFICES ASSUME NEW q \in t.alive \ E
               PROVE  Hashed(t.blk[q]) /\ (InMap(t, q) => Agrees(t.blk[q], m2))
  BY DEF Fresh
<1>2. t.blk = s.blk /\ q \in s.alive /\ q \notin D
  BY <1>1 DEF Shrinks
<1>3. Hashed(s.blk[q]) /\ (InMap(s, q) => Agrees(s.blk[q], m1))
  BY <1>2 DEF Fresh
<1>4. ASSUME InMap(t, q) PROVE Agrees(s.blk[q], m2)
  <2>1. q # NULL /\ s.blk[q].num \in CPUs /\ s.blk[q].start \in Entries /\ Sound(s.blk[q])
    BY <1>2, JITAssumption DEF CacheInv, CacheType, AliveInv, Sound
  <2>2. InMap(s, q)
    BY <1>2, <1>4, <2>1 DEF Shrinks, InMap
  <2>3. \A u \in BlockUnits(s.blk[q]) : m2[u] = m1[u]
    BY <1>1, <1>2, <1>4 DEF Untouched
  <2> QED BY <1>3, <2>1, <2>2, <2>3, AgreesUntouched
<1> QED BY <1>2, <1>3, <1>4

\* Deleted blocks need not agree.
LEMMA FreshAlike ==
  ASSUME NEW s, CacheInv(s), NEW t, Alike(s, t), NEW m, NEW D, Fresh(s, m, D)
  PROVE  Fresh(t, m, D \intersect t.alive)
<1>1. \A q \in s.alive : InMap(t, q) <=> InMap(s, q)
  BY AlikeKeeps
<1> QED BY <1>1 DEF Alike, Fresh

\* A store w, or none.
Written(s, w) == IF w = NULL THEN s ELSE CheckAndInvalidate(s, w.unit)

WrittenTo(m, w) == IF w = NULL THEN m ELSE [m EXCEPT ![w.unit] = w.val]

\* The blocks that the store does concern are gone.
LEMMA WrittenKeeps ==
  ASSUME NEW s, CacheInv(s), NEW w, w = NULL \/ w.unit \in CodeUnits,
         NEW m, m = [u \in CodeUnits |-> m[u]]
  PROVE  /\ CacheInv(Written(s, w)) /\ Shrinks(s, Written(s, w))
         /\ Untouched(Written(s, w), m, WrittenTo(m, w))
<1>1. CASE w = NULL
  <2>1. Written(s, w) = s /\ WrittenTo(m, w) = m
    BY <1>1 DEF Written, WrittenTo
  <2>2. Shrinks(s, s) /\ Untouched(s, m, m)
    BY DEF Shrinks, Untouched
  <2> QED BY <2>1, <2>2
<1>2. CASE w # NULL
  <2>1. PICK t : t = CheckAndInvalidate(s, w.unit)
    OBVIOUS
  <2>2. Written(s, w) = t /\ WrittenTo(m, w) = [m EXCEPT ![w.unit] = w.val]
    BY <1>2, <2>1 DEF Written, WrittenTo
  <2>3. CacheInv(t) /\ Shrinks(s, t) /\ Avoid(t, {w.unit})
    BY <1>2, <2>1, CheckAndInvalidateKeeps
  <2>4. Untouched(t, m, [m EXCEPT ![w.unit] = w.val])
    <3>1. SUFFICES ASSUME NEW q \in t.alive, InMap(t, q), NEW u \in BlockUnits(t.blk[q])
                   PROVE  [m EXCEPT ![w.unit] = w.val][u] = m[u]
      BY DEF Untouched
    <3>2. u # w.unit
      BY <2>3, <3>1 DEF Avoid
    <3>3. u \in CodeUnits
      BY <2>3, <3>1, SoundBlock DEF CacheInv, AliveInv
    <3> QED BY <3>2, <3>3
  <2> QED BY <2>2, <2>3, <2>4
<1> QED BY <1>1, <1>2

\* Entering a block that agrees with memory.
LEMMA RegisterFresh ==
  ASSUME NEW s, NEW q, NEW t, Registered(s, q, t),
         NEW m, NEW D, Fresh(s, m, D \union {q}),
         q \notin D => Hashed(s.blk[q]) /\ Agrees(s.blk[q], m)
  PROVE  Fresh(t, m, D)
<1>1. /\ t.blk = s.blk /\ t.alive = s.alive
      /\ \A x \in s.alive : InMap(t, x) <=> (InMap(s, x) \/ x = q)
  BY DEF Registered
<1>2. SUFFICES ASSUME NEW x \in t.alive \ D
               PROVE  Hashed(t.blk[x]) /\ (InMap(t, x) => Agrees(t.blk[x], m))
  BY DEF Fresh
<1>3. CASE x = q
  BY <1>1, <1>2, <1>3
<1>4. CASE x # q
  <2>1. x \in s.alive \ (D \union {q}) /\ (InMap(t, x) <=> InMap(s, x))
    BY <1>1, <1>2, <1>4
  <2> QED BY <1>1, <2>1 DEF Fresh
<1> QED BY <1>3, <1>4

-----------------------------------------------------------------------------
(* CompileBlock.                                                           *)

\* An address of a mirror is a unit.
LEMMA MirrorUnit ==
  ASSUME WRAMCnt \in DOMAIN Settings, NEW p \in CPUs, NEW x, Mapped(p, x)
  PROVE  /\ Localise(p, x) \in CodeUnits
         /\ (CHOOSE m \in Mirror(p, x) : TRUE) \in Settings[WRAMCnt][p]
         /\ x \in DOMAIN (CHOOSE m \in Mirror(p, x) : TRUE)
<1>1. PICK m : m = CHOOSE k \in Mirror(p, x) : TRUE
  OBVIOUS
<1>2. m \in Mirror(p, x)
  BY <1>1 DEF Mapped
<1>3. m \in Settings[WRAMCnt][p] /\ x \in DOMAIN m
  BY <1>2 DEF Mirror
<1>4. Range(m) \subseteq CodeUnits
  BY <1>3, JITAssumption
<1>5. m[x] \in CodeUnits
  BY <1>3, <1>4 DEF Range
<1> QED BY <1>1, <1>3, <1>5 DEF Localise

\* What CompileBlock fetches.
LEMMA FetchedBlock ==
  ASSUME WRAMCnt \in DOMAIN Settings, wram \in [CodeUnits -> Vals],
         NEW p \in CPUs, NEW a \in Nat, NEW n \in Lens[p],
         \A x \in Fetched(a, n) : Mapped(p, x), NEW w \in OwnStores(p, a, n),
         NEW at, at = UnitsAt(p, a, n), NEW code, code = [i \in 1..n |-> wram[at[i]]]
  PROVE  /\ n \in Nat \ {0} /\ at \in [1..n -> CodeUnits] /\ code \in Codes
         /\ Literals(p, code) \subseteq CodeUnits
         /\ w = NULL \/ w.unit \in CodeUnits
<1>1. n \in Nat \ {0} /\ n \in UNION Range(Lens)
  BY JITAssumption DEF Range
<1>2. \A x \in Fetched(a, n) : Localise(p, x) \in CodeUnits
  BY MirrorUnit
<1>3. \A i \in 1..n : a + i - 1 \in Fetched(a, n)
  BY <1>1 DEF Fetched
<1>4. at \in [1..n -> CodeUnits]
  BY <1>2, <1>3 DEF UnitsAt
<1>5. code \in [1..n -> Vals]
  BY <1>4
<1>6. code \in Codes
  BY <1>1, <1>5 DEF Codes
<1>7. Literals(p, code) \subseteq CodeUnits
  BY <1>2 DEF Literals, Fetched
<1>8. w = NULL \/ w.unit \in CodeUnits
  BY <1>2 DEF OwnStores
<1> QED BY <1>1, <1>4, <1>6, <1>7, <1>8

\* Fewer blocks need to agree.
LEMMA FreshFewer ==
  ASSUME NEW s, NEW m, NEW D, NEW E, Fresh(s, m, D), D \intersect s.alive \subseteq E
  PROVE  Fresh(s, m, E)
BY DEF Fresh

\* The store of the block that is being compiled.
LEMMA StoreInBlockKeeps ==
  ASSUME NEW s, CacheInv(s), NEW w, w = NULL \/ w.unit \in CodeUnits, NEW b,
         NEW m, m = [u \in CodeUnits |-> m[u]], NEW D, Fresh(s, m, D),
         NEW t, t = StoreInBlock(s, b, w)
  PROVE  /\ CacheInv(t) /\ t.alive \subseteq s.alive
         /\ \A p \in CPUs, a \in Entries : t.blocks[p][a] \in {NULL, s.blocks[p][a]}
         /\ Fresh(t, WrittenTo(m, w), D)
         /\ (w # NULL /\ w.unit \in BlockLits(b)) => w.unit \in t.invalid
<1>1. PICK v : v = Written(s, w)
  OBVIOUS
<1>2. PICK k : k = WrittenTo(m, w)
  OBVIOUS
<1>3. CacheInv(v) /\ Shrinks(s, v) /\ Untouched(v, m, k)
  BY <1>1, <1>2, WrittenKeeps
<1>4. Fresh(v, k, D)
  BY <1>3, FreshShrinks
<1>5. t = IF w # NULL /\ w.unit \in BlockLits(b)
          THEN [v EXCEPT !.invalid = @ \union {w.unit}] ELSE v
  BY <1>1 DEF StoreInBlock, Written
<1>6. CASE w # NULL /\ w.unit \in BlockLits(b)
  <2>1. PICK V : V = v.invalid \union {w.unit}
    OBVIOUS
  <2>2. IsCache(v)
    BY <1>3 DEF CacheInv, CacheType
  <2>3. t = [v EXCEPT !.invalid = V] /\ t.invalid = V
    BY <1>5, <1>6, <2>1, <2>2 DEF IsCache
  <2>4. Alike(v, t)
    BY <1>3, <2>3, InvalidAlike
  <2>5. CacheInv(t)
    BY <1>3, <2>4, AlikeKeeps
  <2>6. Fresh(t, k, D \intersect t.alive)
    BY <1>3, <1>4, <2>4, FreshAlike
  <2>7. Fresh(t, k, D)
    BY <2>6, FreshFewer
  <2> QED BY <1>2, <1>3, <2>1, <2>3, <2>4, <2>5, <2>7 DEF Alike, Shrinks
<1>7. CASE ~(w # NULL /\ w.unit \in BlockLits(b))
  BY <1>2, <1>3, <1>4, <1>5, <1>7 DEF Shrinks
<1> QED BY <1>6, <1>7

\* What was fetched from memory m.
IsFetched(b, m) ==
    /\ b = [num |-> b.num, start |-> b.start, code |-> b.code, at |-> b.at,
            hash |-> b.hash, embedded |-> b.embedded]
    /\ Sound(b)
    /\ \A i \in DOMAIN b.at : b.code[i] = m[b.at[i]]
    /\ \A u \in BlockLits(b) : b.hash[u] = m[u]
    /\ \A u, v \in BlockLits(b) : u = v

\* Block b, which stores w, can be entered in cache s.
Compilable(s, b, w, m, D) ==
    /\ CacheInv(s) /\ IsFetched(b, m) /\ s.blocks[b.num][b.start] = NULL
    /\ w = NULL \/ w.unit \in CodeUnits
    /\ m = [u \in CodeUnits |-> m[u]] /\ Fresh(s, WrittenTo(m, w), D)

Current(s, m, D) == CacheInv(s) /\ Fresh(s, m, D)

SelfModified(b, w, embeds, q) == IF Overwritten(b, w, embeds) THEN {q} ELSE {}

\* A candidate that fits is restored.
LEMMA RestoreKeeps ==
  ASSUME NEW s, NEW b, NEW w, NEW m, NEW D, Compilable(s, b, w, m, D),
         MayRestore(s, b), NEW q, q = s.cands[b.code], ~Misfit(s.blk[q], b)
  PROVE  Current(Register(TakeCandidate(s, b.code, TRUE), b, q), WrittenTo(m, w),
                 D \union SelfModified(b, w, TRUE, q))
<1> /\ CacheInv(s) /\ IsFetched(b, m) /\ s.blocks[b.num][b.start] = NULL
    /\ w = NULL \/ w.unit \in CodeUnits
    /\ m = [u \in CodeUnits |-> m[u]] /\ Fresh(s, WrittenTo(m, w), D)
  BY Zenon DEF Compilable
<1>0. PICK t, E : /\ t = Register(TakeCandidate(s, b.code, TRUE), b, q)
                  /\ E = D \union SelfModified(b, w, TRUE, q)
  OBVIOUS
<1>1. PICK k : k = WrittenTo(m, w)
  OBVIOUS
<1>2. PICK v : v = TakeCandidate(s, b.code, TRUE)
  OBVIOUS
<1>3. b.code \in Codes /\ b.num \in CPUs /\ b.start \in Entries
  BY DEF IsFetched, Sound
<1>4. q # NULL /\ q \in s.alive /\ s.blk[q].code = b.code
  BY <1>3 DEF MayRestore, CacheInv, CandInv
<1>5. /\ CacheInv(v) /\ Shrinks(s, v) /\ q \in v.alive /\ Loose(v, q)
  BY <1>2, <1>3, <1>4, TakeCandidateKeeps
<1>6. PICK o : o = v.blk[q]
  OBVIOUS
<1>7. /\ o = s.blk[q] /\ o.code = b.code /\ o.start = b.start
      /\ BlockUnits(o) = BlockUnits(b) /\ o.num = b.num /\ o.at = b.at
      /\ BlockLits(o) = BlockLits(b) /\ Range(o.hash) = Range(b.hash)
  BY <1>4, <1>5, <1>6 DEF Shrinks, MayRestore, Misfit
<1>8. v.blocks[b.num][b.start] = NULL
  BY <1>3, <1>5 DEF Shrinks
<1>9. Fits(v, q, b)
  BY <1>5, <1>6, <1>7, <1>8 DEF Fits
<1>10. Registered(v, q, t)
  BY <1>0, <1>2, <1>9, RegisterKeeps
<1>11. Untouched(v, k, k)
  BY DEF Untouched
<1>12. Fresh(v, k, D)
  BY <1>1, <1>5, <1>11, FreshShrinks
<1>13. Fresh(v, k, E \union {q})
  BY <1>0, <1>12, FreshFewer
<1>14. ASSUME q \notin E PROVE Hashed(o) /\ Agrees(o, k)
  <2>1. q \notin D /\ ~Overwritten(b, w, TRUE)
    BY <1>0, <1>14 DEF SelfModified
  <2>2. Hashed(o)
    BY <1>5, <1>6, <1>12, <2>1 DEF Fresh
  <2>3. Sound(o)
    BY <1>5, <1>6 DEF CacheInv, AliveInv
  <2>4. \A u \in BlockUnits(b) : k[u] = m[u]
    <3>1. SUFFICES ASSUME NEW u \in BlockUnits(b), w # NULL PROVE k[u] = m[u]
      BY <1>1 DEF WrittenTo
    <3>2. u # w.unit
      BY <2>1, <3>1 DEF Overwritten, BlockUnits
    <3>3. u \in CodeUnits
      BY SoundBlock DEF IsFetched
    <3> QED BY <1>1, <3>1, <3>2, <3>3 DEF WrittenTo
  <2>5. \A i \in DOMAIN o.at : o.code[i] = k[o.at[i]]
    BY SMTT(60), <1>7, <2>3, <2>4, SoundBlock DEF IsFetched
  <2>6. \A u \in DOMAIN o.embedded : o.embedded[u] = k[u]
    <3>1. SUFFICES ASSUME NEW u \in DOMAIN o.embedded PROVE o.embedded[u] = k[u]
      OBVIOUS
    <3>2. u \in BlockLits(b) /\ u \in BlockUnits(b) /\ u \in DOMAIN o.hash
      BY <1>7, <2>3, <3>1 DEF Sound, BlockLits, BlockUnits
    <3>3. o.hash[u] \in Range(b.hash)
      BY <1>7, <3>2 DEF Range
    <3>4. PICK x \in BlockLits(b) : o.hash[u] = b.hash[x]
      BY <3>3 DEF Range, BlockLits
    <3>5. x = u
      BY <3>2 DEF IsFetched
    <3> QED BY <2>2, <2>4, <3>2, <3>4, <3>5 DEF Hashed, IsFetched
  <2> QED BY <2>2, <2>5, <2>6 DEF Agrees
<1>15. Fresh(t, k, E)
  <2>1. q \notin E => Hashed(v.blk[q]) /\ Agrees(v.blk[q], k)
    BY <1>6, <1>14
  <2> QED BY ONLY <1>10, <1>13, <2>1, RegisterFresh
<1> QED BY <1>0, <1>1, <1>10, <1>15 DEF Registered, Current

\* A new block is compiled, after the cache was reset or not.
LEMMA NewBlockKeeps ==
  ASSUME NEW s, NEW b, NEW w, NEW D, Compilable(s, b, w, wram, D),
         NEW q \in Ptrs, q \notin s.alive,
         NEW full, (w # NULL /\ w.unit \in BlockLits(b) /\ ~full) => w.unit \in s.invalid
  PROVE  Current(Register(NewBlock(s, b, w, q), b, q), WrittenTo(wram, w),
                 (D \ {q}) \union SelfModified(b, w, full, q))
<1> /\ CacheInv(s) /\ IsFetched(b, wram) /\ s.blocks[b.num][b.start] = NULL
    /\ w = NULL \/ w.unit \in CodeUnits
    /\ wram = [u \in CodeUnits |-> wram[u]] /\ Fresh(s, WrittenTo(wram, w), D)
  BY Zenon DEF Compilable
<1>0. PICK t, E : /\ t = Register(NewBlock(s, b, w, q), b, q)
                  /\ E = (D \ {q}) \union SelfModified(b, w, full, q)
  OBVIOUS
<1>1. PICK k : k = WrittenTo(wram, w)
  OBVIOUS
<1>2. PICK G : G = [u \in BlockLits(b) \ s.invalid |-> k[u]]
  OBVIOUS
<1>3. PICK o : o = [b EXCEPT !.embedded = G]
  OBVIOUS
<1>4. /\ o.num = b.num /\ o.start = b.start /\ o.code = b.code /\ o.at = b.at
      /\ o.hash = b.hash /\ o.embedded = G
  BY <1>3 DEF IsFetched
<1>5. Sound(b) /\ BlockLits(b) \subseteq CodeUnits /\ Range(b.at) \subseteq CodeUnits
  BY DEF IsFetched, Sound, BlockLits
<1>6. Sound(o) /\ BlockUnits(o) = BlockUnits(b)
  BY <1>2, <1>4, <1>5 DEF Sound, BlockUnits, BlockLits
<1>7. NewBlock(s, b, w, q) = Created(s, q, o)
  <2> DEFINE value(u) == IF w # NULL /\ w.unit = u THEN w.val ELSE wram[u]
  <2>1. \A u \in BlockLits(b) : value(u) = k[u]
    BY <1>1, <1>5 DEF WrittenTo
  <2>2. [u \in BlockLits(b) \ s.invalid |-> value(u)] = G
    BY <1>2, <2>1
  <2>3. NewBlock(s, b, w, q) =
          [s EXCEPT !.alive = @ \union {q},
                    !.blk[q] = [b EXCEPT !.embedded = [u \in BlockLits(b) \ s.invalid |-> value(u)]]]
    BY DEF NewBlock
  <2> HIDE DEF value
  <2> QED BY <1>3, <2>2, <2>3 DEF Created
<1>8. PICK v : v = Created(s, q, o)
  OBVIOUS
<1>9. /\ CacheInv(v) /\ Loose(v, q) /\ v.blk[q] = o /\ v.alive = s.alive \union {q}
      /\ v.blocks = s.blocks
      /\ \A x \in s.alive : v.blk[x] = s.blk[x] /\ (InMap(v, x) <=> InMap(s, x))
  BY <1>6, <1>8, CreatedKeeps
<1>10. Fits(v, q, b)
  BY <1>4, <1>6, <1>9 DEF Fits
<1>11. Registered(v, q, t)
  BY <1>0, <1>7, <1>8, <1>10, RegisterKeeps
<1>12. Fresh(v, k, E \union {q})
  BY <1>0, <1>1, <1>9 DEF Fresh
<1>13. ASSUME q \notin E PROVE Hashed(o) /\ Agrees(o, k)
  <2>1. ~Overwritten(b, w, full)
    BY <1>0, <1>13 DEF SelfModified
  <2>2. ASSUME NEW u \in CodeUnits, w = NULL \/ u # w.unit PROVE k[u] = wram[u]
    BY <1>1, <2>2 DEF WrittenTo
  <2>3. \A i \in DOMAIN o.at : o.code[i] = k[o.at[i]]
    <3>1. SUFFICES ASSUME NEW i \in DOMAIN b.at PROVE k[b.at[i]] = wram[b.at[i]]
      BY <1>4 DEF IsFetched
    <3>2. b.at[i] \in Range(b.at)
      BY DEF Range
    <3> QED BY <1>5, <2>1, <2>2, <3>2 DEF Overwritten
  <2>4. \A u \in DOMAIN G : G[u] = k[u] /\ G[u] = b.hash[u]
    <3>1. SUFFICES ASSUME NEW u \in BlockLits(b), u \notin s.invalid PROVE k[u] = b.hash[u]
      BY <1>2
    <3>2. w = NULL \/ u # w.unit
      BY <2>1, <3>1 DEF Overwritten
    <3> QED BY <1>5, <2>2, <3>1, <3>2 DEF IsFetched
  <2> QED BY <1>4, <2>3, <2>4 DEF Hashed, Agrees
<1>14. Fresh(t, k, E)
  BY <1>9, <1>11, <1>12, <1>13, RegisterFresh
<1> QED BY <1>0, <1>1, <1>11, <1>14 DEF Registered, Current

\* CompileBlock, for an address that has no block: the block it enters agrees
\* with memory unless it overwrote itself.
LEMMA CompileBlockKeeps ==
  ASSUME WRAMCnt \in DOMAIN Settings, wram \in [CodeUnits -> Vals],
         CacheInv(cache), Fresh(cache, wram, dirty),
         NEW p \in CPUs, NEW a \in Starts[p], NEW n \in Lens[p], NEW full \in BOOLEAN,
         \A x \in Fetched(a, n) : Mapped(p, x), NEW w \in OwnStores(p, a, n),
         CompileBlock(p, a, n, w, full), ~moved'
  PROVE  CacheInv(cache') /\ Fresh(cache', wram', dirty')
<1>1. a \in Nat /\ a \in Entries
  BY JITAssumption DEF Entries
<1>2. PICK s : s = cache
  OBVIOUS
<1>3. PICK b : b = FetchBlock(s, p, a, n)
  OBVIOUS
<1>4. PICK s1 : s1 = StoreInBlock(s, b, w)
  OBVIOUS
<1>5. PICK may \in BOOLEAN : may <=> MayRestore(s1, b)
  OBVIOUS
<1>6. PICK s2 : s2 = TakeCandidate(s1, b.code, may)
  OBVIOUS
<1>7. PICK new : new = IF may THEN s1.cands[b.code] ELSE CHOOSE x \in FreePtrs(s2) : TRUE
  OBVIOUS
<1>8. PICK v : v = IF full THEN ResetBlockCache(s2) ELSE s2
  OBVIOUS
<1>9. PICK t : t = Register(IF may THEN s2 ELSE NewBlock(v, b, w, new), b, new)
  OBVIOUS
<1>10. PICK E : E = (IF may THEN dirty ELSE dirty \ {new})
                      \union SelfModified(b, w, may \/ full, new)
  OBVIOUS
<1>11. PICK k : k = WrittenTo(wram, w)
  OBVIOUS
<1>12. /\ s.blocks[p][a] = NULL /\ FreePtrs(s) # {} /\ (may => ~Misfit(s1.blk[new], b))
       /\ cache' = Tidy(t) /\ dirty' = E \intersect cache'.alive /\ wram' = k
  <2>1. s.blocks[p][a] = NULL
    BY <1>2 DEF CompileBlock
  <2> DEFINE Q  == cache.blocks[p][a]
             S  == IF Q = NULL THEN cache
                   ELSE [RetireJitBlock(cache, Q) EXCEPT !.blocks[p][a] = NULL]
             B  == FetchBlock(S, p, a, n)
             S1 == StoreInBlock(S, B, w)
             M  == MayRestore(S1, B)
             S2 == TakeCandidate(S1, B.code, M)
             N  == IF M THEN S1.cands[B.code] ELSE CHOOSE x \in FreePtrs(S2) : TRUE
             S3 == IF M THEN S2
                   ELSE NewBlock(IF full THEN ResetBlockCache(S2) ELSE S2, B, w, N)
  <2>2. /\ FreePtrs(S) # {} /\ cache' = Tidy(Register(S3, B, N))
        /\ dirty' = ((IF M THEN dirty ELSE dirty \ {N}) \union SelfModified(B, w, M \/ full, N))
                      \intersect cache'.alive
        /\ moved' = (moved \/ Q # NULL \/ (M /\ Misfit(S1.blk[N], B)))
        /\ wram' = IF w = NULL THEN wram ELSE [wram EXCEPT ![w.unit] = w.val]
    BY Zenon DEF CompileBlock, SelfModified
  <2>3. S = s
    BY <1>2, <2>1
  <2> HIDE DEF S
  <2>4. B = b /\ S1 = s1 /\ M = may
    BY <1>3, <1>4, <1>5, <2>3 DEF MayRestore
  <2> HIDE DEF B, S1, M
  <2>5. S2 = s2
    BY <1>6, <2>4
  <2> HIDE DEF S2
  <2>6. N = new
    BY <1>7, <2>4, <2>5
  <2> HIDE DEF N
  <2>7. Register(S3, B, N) = t
    BY <1>8, <1>9, <2>4, <2>5, <2>6
  <2> HIDE DEF S3
  <2>8. (IF M THEN dirty ELSE dirty \ {N}) \union SelfModified(B, w, M \/ full, N) = E
    BY <1>10, <2>4, <2>6
  <2> QED BY <1>11, <2>1, <2>2, <2>3, <2>4, <2>6, <2>7, <2>8 DEF WrittenTo
<1>13. /\ IsFetched(b, wram) /\ b.num = p /\ b.start = a
       /\ w = NULL \/ w.unit \in CodeUnits
  <2>1. PICK at : at = UnitsAt(p, a, n)
    OBVIOUS
  <2>2. PICK code : code = [i \in 1..n |-> wram[at[i]]]
    OBVIOUS
  <2>3. /\ n \in Nat \ {0} /\ at \in [1..n -> CodeUnits] /\ code \in Codes
        /\ Literals(p, code) \subseteq CodeUnits
        /\ w = NULL \/ w.unit \in CodeUnits
    BY <1>1, <2>1, <2>2, FetchedBlock
  <2>4. PICK h : h = [u \in Literals(p, code) \ s.invalid |-> wram[u]]
    OBVIOUS
  <2>5. b = [num |-> p, start |-> a, code |-> code, at |-> at, hash |-> h, embedded |-> <<>>]
    BY <1>3, <2>1, <2>2, <2>4 DEF FetchBlock
  <2>6. /\ b.num = p /\ b.start = a /\ b.code = code /\ b.at = at /\ b.hash = h
        /\ b.embedded = <<>>
        /\ b = [num |-> b.num, start |-> b.start, code |-> b.code, at |-> b.at,
                hash |-> b.hash, embedded |-> b.embedded]
    BY <2>5
  <2>7. Range(at) \subseteq CodeUnits /\ 1 \in DOMAIN at
    BY <2>3 DEF Range
  <2>8. DOMAIN h \subseteq CodeUnits /\ \A u \in DOMAIN h : h[u] = wram[u]
    BY <2>3, <2>4
  <2>9. Sound(b)
    BY <1>1, <2>3, <2>6, <2>7, <2>8 DEF Sound
  <2>10. \A i \in DOMAIN at : code[i] = wram[at[i]]
    BY <2>2, <2>3
  <2>11. \A u, x \in DOMAIN h : u = x
    BY <2>4 DEF Literals
  <2> QED BY <2>3, <2>6, <2>8, <2>9, <2>10, <2>11 DEF IsFetched, BlockLits
<1>14. wram = [u \in CodeUnits |-> wram[u]]
  OBVIOUS
<1>15. /\ CacheInv(s1) /\ s1.alive \subseteq s.alive
       /\ \A i \in CPUs, j \in Entries : s1.blocks[i][j] \in {NULL, s.blocks[i][j]}
       /\ Fresh(s1, k, dirty)
       /\ (w # NULL /\ w.unit \in BlockLits(b)) => w.unit \in s1.invalid
  BY <1>2, <1>4, <1>11, <1>13, <1>14, StoreInBlockKeeps
<1>16. s1.blocks[p][a] = NULL
  BY <1>1, <1>12, <1>15
<1>17. Current(t, k, E)
  <2>1. CASE may
    <3>1. /\ t = Register(TakeCandidate(s1, b.code, TRUE), b, new) /\ new = s1.cands[b.code]
          /\ E = dirty \union SelfModified(b, w, TRUE, new)
      BY <1>6, <1>7, <1>9, <1>10, <2>1
    <3>2. MayRestore(s1, b) /\ ~Misfit(s1.blk[new], b)
      BY <1>5, <1>12, <2>1
    <3>3. Compilable(s1, b, w, wram, dirty)
      BY <1>11, <1>13, <1>14, <1>15, <1>16 DEF Compilable
    <3> QED BY <1>11, <3>1, <3>2, <3>3, RestoreKeeps
  <2>2. CASE ~may
    <3>1. b.code \in Codes
      BY <1>13 DEF IsFetched, Sound
    <3>2. /\ CacheInv(s2) /\ Shrinks(s1, s2) /\ s2.invalid = s1.invalid
      BY <1>6, <1>15, <3>1, TakeCandidateKeeps
    <3>3. CacheInv(v) /\ Shrinks(s1, v)
      BY <1>8, <3>2, ResetBlockCacheKeeps, ShrinksTwice
    <3>4. Untouched(v, k, k)
      BY DEF Untouched
    <3>5. Fresh(v, k, dirty)
      BY <1>15, <3>3, <3>4, FreshShrinks
    <3>6. v.blocks[p][a] = NULL
      BY <1>1, <1>16, <3>3 DEF Shrinks
    <3>7. new \in Ptrs /\ new \notin v.alive
      <4>1. FreePtrs(s2) = Ptrs \ s2.alive /\ FreePtrs(s) = Ptrs \ s.alive
        BY <1>2, <3>2, ReferencesAlive
      <4>2. FreePtrs(s2) # {}
        BY <1>12, <1>15, <3>2, <4>1 DEF Shrinks
      <4>3. new \in FreePtrs(s2)
        BY <1>7, <2>2, <4>2
      <4>4. v.alive \subseteq s2.alive
        BY <1>8, <3>2, ResetBlockCacheKeeps DEF Shrinks
      <4> QED BY <4>1, <4>3, <4>4
    <3>8. (w # NULL /\ w.unit \in BlockLits(b) /\ ~full) => w.unit \in v.invalid
      BY <1>8, <1>15, <3>2
    <3>9. /\ t = Register(NewBlock(v, b, w, new), b, new)
          /\ E = (dirty \ {new}) \union SelfModified(b, w, full, new)
      BY <1>9, <1>10, <2>2
    <3>10. Compilable(v, b, w, wram, dirty)
      BY <1>11, <1>13, <1>14, <3>3, <3>5, <3>6 DEF Compilable
    <3>11. Current(Register(NewBlock(v, b, w, new), b, new), WrittenTo(wram, w),
                   (dirty \ {new}) \union SelfModified(b, w, full, new))
      BY <3>7, <3>8, <3>10, NewBlockKeeps
    <3> QED BY <1>11, <3>9, <3>11
  <2> QED BY <2>1, <2>2
<1>18. Alike(t, Tidy(t))
  BY <1>17, TidyAlike DEF Current
<1>19. CacheInv(Tidy(t)) /\ Fresh(Tidy(t), k, E \intersect Tidy(t).alive)
  BY <1>17, <1>18, AlikeKeeps, FreshAlike DEF Current
<1> QED BY <1>12, <1>19

-----------------------------------------------------------------------------
(* The theorems.                                                           *)

\* The tables that a CPU uses describe a mirror, perhaps one of a setting that is
\* no longer in force.
TablesInv ==
    /\ lookup = [p \in CPUs |-> lookup[p]]
    /\ \A p \in CPUs : \/ lookup[p] = <<>>
                       \/ \E w \in DOMAIN Settings : lookup[p] \in Settings[w][p]

JITInv ==
    /\ wram \in [CodeUnits -> Vals] /\ WRAMCnt \in DOMAIN Settings /\ TablesInv
    /\ moved \in BOOLEAN
    /\ ~moved => CacheInv(cache) /\ Fresh(cache, wram, dirty)

\* The unit at which a CPU looks an address up.
LEMMA TableUnit ==
  ASSUME JITInv, NEW p \in CPUs, NEW a \in Nat, Executable(p, a)
  PROVE  /\ Table(p, a)[a] \in CodeUnits
         /\ \E w \in DOMAIN Settings : Table(p, a) \in Settings[w][p]
<1>1. CASE a \in DOMAIN lookup[p]
  <2>1. lookup[p] # <<>>
    BY <1>1
  <2>2. PICK w \in DOMAIN Settings : lookup[p] \in Settings[w][p]
    BY <2>1 DEF JITInv, TablesInv
  <2>3. Range(lookup[p]) \subseteq CodeUnits
    BY <2>2, JITAssumption
  <2>4. lookup[p][a] \in CodeUnits
    BY <1>1, <2>3 DEF Range
  <2> QED BY <1>1, <2>2, <2>4 DEF Table
<1>2. CASE a \notin DOMAIN lookup[p]
  <2>1. WRAMCnt \in DOMAIN Settings /\ Mapped(p, a)
    BY <1>2 DEF JITInv, Executable
  <2>2. /\ Localise(p, a) \in CodeUnits
        /\ (CHOOSE m \in Mirror(p, a) : TRUE) \in Settings[WRAMCnt][p]
    BY <2>1, MirrorUnit
  <2>3. Table(p, a) = CHOOSE m \in Mirror(p, a) : TRUE
    BY <1>2 DEF Table
  <2>4. Table(p, a)[a] = Localise(p, a)
    BY <2>3 DEF Localise
  <2> QED BY <2>1, <2>2, <2>3, <2>4
<1> QED BY <1>1, <1>2

\* Looking an address up keeps the tables.
LEMMA TablesKept ==
  ASSUME JITInv, NEW p \in CPUs, NEW a \in Nat, Executable(p, a),
         lookup' = [lookup EXCEPT ![p] = Table(p, a)]
  PROVE  TablesInv'
<1>1. PICK T : T = Table(p, a)
  OBVIOUS
<1>2. \E w \in DOMAIN Settings : T \in Settings[w][p]
  BY <1>1, TableUnit
<1>3. lookup' = [lookup EXCEPT ![p] = T]
  BY <1>1
<1> QED BY <1>2, <1>3 DEF JITInv, TablesInv

\* Nothing is wrong with an empty cache.
LEMMA EmptyCacheInv == CacheInv(EmptyCache) /\ \A m, D : Fresh(EmptyCache, m, D)
<1>1. PICK s : s = EmptyCache
  OBVIOUS
<1>2. PICK B, P, H, L, F :
        /\ B = [q \in Ptrs |-> Block0]
        /\ P = [p \in CPUs |-> [a \in Entries |-> NULL]]
        /\ H = [h \in Codes |-> NULL]
        /\ L = [r \in Ranges |-> <<>>]
        /\ F = [u \in CodeUnits |-> NULL]
  OBVIOUS
<1>3. s = [blk |-> B, alive |-> {}, blocks |-> P, cands |-> H, listed |-> L,
           Code |-> {}, fast |-> F, invalid |-> {}]
  BY <1>1, <1>2 DEF EmptyCache
<1>4. CacheType(s)
  BY <1>2, <1>3 DEF CacheType, IsCache
<1>5. MapsInv(s) /\ AliveInv(s) /\ SeenInv(s) /\ FastInv(s) /\ CandInv(s)
  BY <1>2, <1>3 DEF MapsInv, AliveInv, SeenInv, FastInv, CandInv
<1>6. ListInv(s)
  BY <1>2, <1>3 DEF ListInv, Distinct, Range
<1>7. CacheInv(s) /\ \A m, D : Fresh(s, m, D)
  BY <1>3, <1>4, <1>5, <1>6 DEF CacheInv, Fresh
<1> QED BY <1>1, <1>7

\* A mapped block takes the entry of the lookup table at its first unit.
LEMMA SwitchKeeps ==
  ASSUME NEW s, CacheInv(s), NEW p \in CPUs, NEW a \in Entries, NEW u \in CodeUnits,
         NEW q, q = s.blocks[p][a], q # NULL, s.blk[q].at[1] = u,
         NEW t, t = [s EXCEPT !.fast[u] = [start |-> a, num |-> p, ptr |-> q]],
         NEW m, NEW D, Fresh(s, m, D)
  PROVE  CacheInv(t) /\ Fresh(t, m, D)
<1>1. PICK e : e = [start |-> a, num |-> p, ptr |-> q]
  OBVIOUS
<1>2. PICK F : F = [s.fast EXCEPT ![u] = e]
  OBVIOUS
<1>3. IsCache(s)
  BY DEF CacheInv, CacheType
<1>4. t = [blk |-> s.blk, alive |-> s.alive, blocks |-> s.blocks, cands |-> s.cands,
           listed |-> s.listed, Code |-> s.Code, fast |-> F, invalid |-> s.invalid]
  BY <1>1, <1>2, <1>3 DEF IsCache
<1>5. /\ IsCache(t) /\ t.blk = s.blk /\ t.alive = s.alive /\ t.blocks = s.blocks
      /\ t.cands = s.cands /\ t.listed = s.listed /\ t.Code = s.Code /\ t.fast = F
  BY ONLY <1>4 DEF IsCache
<1>6. q \in s.alive /\ s.blk[q].num = p /\ s.blk[q].start = a /\ InMap(s, q)
  BY ZenonT(60) DEF CacheInv, MapsInv, InMap
<1>7. \A x : InMap(t, x) <=> InMap(s, x)
  BY <1>5 DEF InMap
<1>8. F = [x \in CodeUnits |-> IF x = u THEN e ELSE s.fast[x]]
  BY <1>2 DEF CacheInv, CacheType
<1>9. CacheType(t)
  BY <1>5, <1>8 DEF CacheInv, CacheType
<1>10. MapsInv(t) /\ AliveInv(t) /\ CandInv(t)
  BY SMTT(60), <1>5, <1>7 DEF CacheInv, MapsInv, AliveInv, CandInv
<1>11. SeenInv(t) /\ ListInv(t)
  BY <1>5, <1>7 DEF CacheInv, SeenInv, Known, ListInv, ListedIn
<1>12. FastInv(t)
  <2>1. SUFFICES ASSUME NEW x \in CodeUnits, t.fast[x] # NULL
                 PROVE  LET y == t.fast[x] IN
                        /\ y.ptr \in t.alive /\ InMap(t, y.ptr)
                        /\ t.blk[y.ptr].num = y.num /\ t.blk[y.ptr].start = y.start
                        /\ t.blk[y.ptr].at[1] = x
    BY Zenon DEF FastInv
  <2>2. PICK y : y = t.fast[x]
    OBVIOUS
  <2>3. /\ y.ptr \in s.alive /\ InMap(s, y.ptr)
        /\ s.blk[y.ptr].num = y.num /\ s.blk[y.ptr].start = y.start
        /\ s.blk[y.ptr].at[1] = x
    <3>1. CASE x = u
      <4>1. y = e /\ e.ptr = q /\ e.num = p /\ e.start = a
        BY ONLY <1>1, <1>5, <1>8, <2>1, <2>2, <3>1
      <4> QED BY <1>6, <3>1, <4>1
    <3>2. CASE x # u
      <4>1. y = s.fast[x] /\ y # NULL
        BY <1>5, <1>8, <2>1, <2>2, <3>2
      <4> QED BY <4>1 DEF CacheInv, FastInv
    <3> QED BY <3>1, <3>2
  <2> QED BY <1>5, <1>7, <2>2, <2>3
<1>13. Fresh(t, m, D)
  BY <1>5, <1>7 DEF Fresh
<1> QED BY <1>9, <1>10, <1>11, <1>12, <1>13 DEF CacheInv

\* The invariant holds at first, ...
LEMMA JITInvInit == JITInit => JITInv
<1> SUFFICES ASSUME JITInit PROVE JITInv
  OBVIOUS
<1>1. TablesInv
  BY DEF JITInit, TablesInv
<1>2. CacheInv(cache) /\ Fresh(cache, wram, dirty)
  BY EmptyCacheInv DEF JITInit
<1> QED BY <1>1, <1>2 DEF JITInit, JITInv

\* A cache t with fewer blocks than s, tidied.
LEMMA TidyKeeps ==
  ASSUME NEW s, CacheInv(s), NEW t, CacheInv(t), Shrinks(s, t), NEW m1, NEW m2,
         Untouched(t, m1, m2), NEW D, Fresh(s, m1, D)
  PROVE  CacheInv(Tidy(t)) /\ Fresh(Tidy(t), m2, D \intersect Tidy(t).alive)
<1>1. Fresh(t, m2, D)
  BY FreshShrinks
<1>2. Alike(t, Tidy(t))
  BY TidyAlike
<1> QED BY <1>1, <1>2, AlikeKeeps, FreshAlike

\* ... every action keeps it, ...
LEMMA JITInvNext == JITInv /\ [JITNext]_jitVars => JITInv'
<1> SUFFICES ASSUME JITInv, [JITNext]_jitVars PROVE JITInv'
  OBVIOUS
<1>0. /\ wram \in [CodeUnits -> Vals] /\ WRAMCnt \in DOMAIN Settings /\ TablesInv
      /\ moved \in BOOLEAN /\ wram = [u \in CodeUnits |-> wram[u]]
      /\ ~moved => CacheInv(cache) /\ Fresh(cache, wram, dirty)
  BY DEF JITInv
<1>1. ASSUME NEW p \in CPUs, NEW a \in Starts[p], Dispatch(p, a) PROVE JITInv'
  <2>1. TablesInv'
    BY <1>1, JITAssumption, TablesKept DEF Dispatch
  <2>2. UNCHANGED <<wram, WRAMCnt, cache, dirty, moved>>
    BY <1>1 DEF Dispatch
  <2> QED BY <1>0, <2>1, <2>2 DEF JITInv
<1>2. ASSUME NEW p \in CPUs, NEW a \in Starts[p], SwitchBlock(p, a) PROVE JITInv'
  <2>1. a \in Nat /\ a \in Entries
    BY JITAssumption DEF Entries
  <2>2. PICK q : q = cache.blocks[p][a]
    OBVIOUS
  <2>3. PICK u : u = Localise(p, a)
    OBVIOUS
  <2>4. /\ Mapped(p, a) /\ q # NULL /\ cache.blk[q].at[1] = u
        /\ cache' = [cache EXCEPT !.fast[u] = [start |-> a, num |-> p, ptr |-> q]]
        /\ lookup' = [lookup EXCEPT ![p] = Table(p, a)]
        /\ UNCHANGED <<wram, WRAMCnt, dirty, moved>>
    BY <1>2, <2>2, <2>3, Zenon DEF SwitchBlock
  <2>5. TablesInv'
    BY <2>1, <2>4, TablesKept DEF Executable
  <2>6. u \in CodeUnits
    BY <1>0, <2>3, <2>4, MirrorUnit
  <2>7. ASSUME ~moved PROVE CacheInv(cache') /\ Fresh(cache', wram, dirty)
    <3>1. PICK s, t : s = cache /\ t = cache'
      OBVIOUS
    <3>2. /\ CacheInv(s) /\ Fresh(s, wram, dirty) /\ q = s.blocks[p][a] /\ s.blk[q].at[1] = u
          /\ t = [s EXCEPT !.fast[u] = [start |-> a, num |-> p, ptr |-> q]]
      BY <1>0, <2>2, <2>4, <2>7, <3>1
    <3>3. CacheInv(t) /\ Fresh(t, wram, dirty)
      BY <2>1, <2>4, <2>6, <3>2, SwitchKeeps
    <3> QED BY <3>1, <3>3
  <2> QED BY <1>0, <2>4, <2>5, <2>7 DEF JITInv
<1>3. ASSUME NEW p \in CPUs, NEW a \in Starts[p], NEW n \in Lens[p], NEW full \in BOOLEAN,
             \A x \in Fetched(a, n) : Mapped(p, x), NEW w \in OwnStores(p, a, n),
             CompileBlock(p, a, n, w, full)
      PROVE  JITInv'
  <2>1. a \in Nat /\ n \in Nat \ {0}
    BY JITAssumption
  <2>2. a \in Fetched(a, n)
    BY <2>1 DEF Fetched
  <2>3. /\ lookup' = [lookup EXCEPT ![p] = Table(p, a)] /\ WRAMCnt' = WRAMCnt
        /\ wram' = IF w = NULL THEN wram ELSE [wram EXCEPT ![w.unit] = w.val]
    BY <1>3, Zenon DEF CompileBlock
  <2>4. moved' \in BOOLEAN /\ (moved => moved')
    BY <1>0, <1>3 DEF CompileBlock
  <2>5. TablesInv'
    BY <1>3, <2>1, <2>2, <2>3, TablesKept DEF Executable
  <2>6. w = NULL \/ w.val \in Vals
    BY DEF OwnStores
  <2>7. wram' \in [CodeUnits -> Vals]
    BY <1>0, <2>3, <2>6
  <2>8. ASSUME ~moved' PROVE CacheInv(cache') /\ Fresh(cache', wram', dirty')
    BY <1>0, <1>3, <2>4, <2>8, CompileBlockKeeps
  <2> QED BY <1>0, <2>3, <2>4, <2>5, <2>7, <2>8 DEF JITInv
<1>4. ASSUME NEW p \in CPUs, Leave(p) PROVE JITInv'
  <2>1. lookup' = [lookup EXCEPT ![p] = <<>>] /\ UNCHANGED <<wram, WRAMCnt, cache, dirty, moved>>
    BY <1>4 DEF Leave
  <2>2. TablesInv'
    BY <1>0, <2>1 DEF TablesInv
  <2> QED BY <1>0, <2>1, <2>2 DEF JITInv
<1>5. ASSUME NEW u \in CodeUnits, NEW v \in Vals, StoreUnit(u, v) PROVE JITInv'
  <2>1. PICK s, t, m : /\ s = cache /\ t = CheckAndInvalidate(s, u)
                       /\ m = [wram EXCEPT ![u] = v]
    OBVIOUS
  <2>2. /\ cache' = Tidy(t) /\ wram' = m /\ dirty' = dirty \intersect cache'.alive
        /\ UNCHANGED <<WRAMCnt, lookup, moved>>
    BY <1>5, <2>1, Zenon DEF StoreUnit
  <2>3. TablesInv'
    BY <1>0, <2>2 DEF TablesInv
  <2>4. m \in [CodeUnits -> Vals]
    BY <1>0, <2>1
  <2>5. ASSUME ~moved PROVE CacheInv(cache') /\ Fresh(cache', wram', dirty')
    <3>1. CacheInv(s) /\ Fresh(s, wram, dirty)
      BY <1>0, <2>1, <2>5
    <3>2. CacheInv(t) /\ Shrinks(s, t) /\ Avoid(t, {u})
      BY <2>1, <3>1, CheckAndInvalidateKeeps
    <3>3. Untouched(t, wram, m)
      <4>1. SUFFICES ASSUME NEW q \in t.alive, InMap(t, q), NEW x \in BlockUnits(t.blk[q])
                     PROVE  m[x] = wram[x]
        BY DEF Untouched
      <4>2. x # u
        BY <3>2, <4>1 DEF Avoid
      <4>3. x \in CodeUnits
        BY <3>2, <4>1, SoundBlock DEF CacheInv, AliveInv
      <4> QED BY <1>0, <2>1, <4>2, <4>3
    <3>4. CacheInv(Tidy(t)) /\ Fresh(Tidy(t), m, dirty \intersect Tidy(t).alive)
      BY <3>1, <3>2, <3>3, TidyKeeps
    <3> QED BY <2>2, <3>4
  <2> QED BY <1>0, <2>2, <2>3, <2>4, <2>5 DEF JITInv
<1>6. ASSUME NEW w \in DOMAIN Settings, MapSharedWRAM(w) PROVE JITInv'
  <2>1. WRAMCnt' = w /\ UNCHANGED <<wram, lookup, cache, dirty, moved>>
    BY <1>6 DEF MapSharedWRAM
  <2>2. TablesInv'
    BY <1>0, <2>1 DEF TablesInv
  <2> QED BY <1>0, <2>1, <2>2 DEF JITInv
<1>7. ASSUME SetJITArgs PROVE JITInv'
  <2>1. PICK s, t : s = cache /\ t = ResetBlockCache(s)
    OBVIOUS
  <2>2. /\ cache' = Tidy(t) /\ dirty' = dirty \intersect cache'.alive
        /\ UNCHANGED <<wram, WRAMCnt, lookup, moved>>
    BY <1>7, <2>1, Zenon DEF SetJITArgs
  <2>3. TablesInv'
    BY <1>0, <2>2 DEF TablesInv
  <2>4. ASSUME ~moved PROVE CacheInv(cache') /\ Fresh(cache', wram, dirty')
    <3>1. CacheInv(s) /\ Fresh(s, wram, dirty)
      BY <1>0, <2>1, <2>4
    <3>2. CacheInv(t) /\ Shrinks(s, t)
      BY <2>1, <3>1, ResetBlockCacheKeeps
    <3>3. Untouched(t, wram, wram)
      BY DEF Untouched
    <3>4. CacheInv(Tidy(t)) /\ Fresh(Tidy(t), wram, dirty \intersect Tidy(t).alive)
      BY <3>1, <3>2, <3>3, TidyKeeps
    <3> QED BY <2>2, <3>4
  <2> QED BY <1>0, <2>2, <2>3, <2>4 DEF JITInv
<1>8. ASSUME UNCHANGED jitVars PROVE JITInv'
  <2>1. UNCHANGED <<wram, WRAMCnt, lookup, cache, dirty, moved>>
    BY <1>8 DEF jitVars
  <2>2. TablesInv'
    BY <1>0, <2>1 DEF TablesInv
  <2> QED BY <1>0, <2>1, <2>2 DEF JITInv
<1> QED BY <1>1, <1>2, <1>3, <1>4, <1>5, <1>6, <1>7, <1>8 DEF JITNext

\* ... and so it always holds.
LEMMA JITInvHolds == JITSpec => []JITInv
BY JITInvInit, JITInvNext, PTL DEF JITSpec

\* No map, candidate or list of a range points to a deleted block: every step
\* that deletes a block has taken it out of all of them, as long as no block was
\* compiled again at another unit or restored where it does not belong.
THEOREM NothingEverDangles == JITSpec => []NothingDangles
<1>1. JITInv => NothingDangles
  <2> SUFFICES ASSUME JITInv, ~moved PROVE AllAlive
    BY DEF NothingDangles
  <2>1. CacheInv(cache)
    BY DEF JITInv
  <2> QED BY <2>1, ReferencesAlive DEF AllAlive
<1> QED BY <1>1, JITInvHolds, PTL

\* A store to a unit that a mapped block, or one in the lookup table, was compiled
\* from finds the bit of the unit and the block in the list of its range.
THEOREM StoresFindBlocks == JITSpec => []StoresAreSeen
<1>1. JITInv => StoresAreSeen
  <2> SUFFICES ASSUME JITInv, ~moved, NEW q \in MappedBlocks(cache) \union FastBlocks(cache),
                      NEW u \in BlockUnits(cache.blk[q])
               PROVE  u \in cache.Code /\ q \in Range(cache.listed[Page[u]])
    BY DEF StoresAreSeen
  <2>1. CacheInv(cache)
    BY DEF JITInv
  <2>2. q \in cache.alive /\ InMap(cache, q)
    BY <2>1, ReferencesAlive
  <2> QED BY <2>1, <2>2 DEF CacheInv, SeenInv, Known
<1> QED BY <1>1, JITInvHolds, PTL

\* The block that a CPU finds for an address is its own, begins at the unit where
\* the address was looked up, and is what its memory holds, unless it overwrote
\* itself while it was compiled.
THEOREM DispatchedIsCurrent == JITSpec => []DispatchIsCurrent
<1>1. JITInv => DispatchIsCurrent
  <2>1. SUFFICES ASSUME JITInv, ~moved, NEW p \in CPUs, NEW a \in Starts[p], Executable(p, a),
                        LookUpBlock(p, a) # NULL, LookUpBlock(p, a) \notin dirty
                 PROVE  LET b == cache.blk[LookUpBlock(p, a)] IN
                        /\ b.num = p /\ b.at[1] = Table(p, a)[a]
                        /\ \A i \in DOMAIN b.at : b.code[i] = wram[b.at[i]]
                        /\ \A u \in DOMAIN b.embedded : b.embedded[u] = wram[u]
    BY Zenon DEF DispatchIsCurrent
  <2>2. PICK q : q = LookUpBlock(p, a)
    OBVIOUS
  <2>3. PICK x : x = Table(p, a)[a]
    OBVIOUS
  <2>4. PICK e : e = cache.fast[x]
    OBVIOUS
  <2>5. e # NULL /\ e.start = a /\ e.num = p /\ q = e.ptr
    BY <2>1, <2>2, <2>3, <2>4 DEF LookUpBlock
  <2>6. x \in CodeUnits
    BY <2>1, <2>3, TableUnit, JITAssumption
  <2>7. CacheInv(cache) /\ Fresh(cache, wram, dirty)
    BY <2>1 DEF JITInv
  <2>8. /\ q \in cache.alive /\ InMap(cache, q)
        /\ cache.blk[q].num = p /\ cache.blk[q].at[1] = x
    BY <2>4, <2>5, <2>6, <2>7 DEF CacheInv, FastInv
  <2>9. Agrees(cache.blk[q], wram)
    BY <2>1, <2>2, <2>7, <2>8 DEF Fresh
  <2> QED BY <2>2, <2>3, <2>8, <2>9 DEF Agrees
<1> QED BY <1>1, JITInvHolds, PTL

=============================================================================
