---------------------------- MODULE GXFIFOProofs ----------------------------
(***************************************************************************)
(* Proofs about GXFIFO, for every display list, size of the FIFO and of    *)
(* the stall queue, length of a slice and of a frame, and every choice of  *)
(* stores, transfers and register accesses of a game.                      *)
(***************************************************************************)
EXTENDS GXFIFO, SequenceTheorems, FiniteSetTheorems, WellFoundedInduction, TLAPS

-----------------------------------------------------------------------------
(* The inductive invariant.                                                *)

\* Where RunFrame is and where it returns to fit together, no one runs past
\* the vertical blank, and a DMA channel never has more words to move in its
\* burst than in its transfer.
Control ==
    /\ Len(CurCommand) <= 4
    /\ pc = "unpack" => CurCommand # <<>>
    /\ pc = "iter" => toVBlank > 0
    /\ pc = "arm9" => ret = "arm9"
    /\ pc = "dma" => ret = "dma"
    /\ pc \in {"word", "unpack"} => stm > 0
    /\ pc \in {"word", "unpack", "ended"} => ret \in {"arm9", "dma"}
    /\ pc \in {"gpu", "exec", "drain", "execute"} => ret \in {"arm9", "system"}
    /\ pc \in {"iter", "system"} => ret = "system"
    /\ ret = "arm9" => left > 0
    /\ ret # "system" => left <= toVBlank
    /\ ret = "dma" /\ pc # "dma" => left > 0 /\ dma.iter > 0
    /\ dma.iter <= dma.rem

\* QueuesBacked, with what remains of it while CmdFIFORead moves entries up.
Backed ==
    /\ CmdFIFO # <<>> => Len(CmdPIPE) > 2
    /\ CmdStallQueue # <<>> => GXStall
    /\ pc # "drain" => /\ CmdStallQueue # <<>> => IsFull(CmdFIFO, FIFOSize)
                       /\ GXStall => CmdStallQueue # <<>>

\* The entry that CmdFIFORead has taken and ExecuteCommand has not yet seen.
Taken(c) == IF pc \in {"drain", "execute"} /\ entry = c THEN 1 ELSE 0

\* StatusTrue, with the entry in the hands of the engine: the counter of a
\* command of two entries goes down by two when the second is executed.
Counted ==
    /\ ExecParamCount \in {0, 1}
    /\ NumPushPopCommands = Count(CmdPIPE \o CmdFIFO, IsStackCmd) + Taken("MTX_PUSH")
    /\ NumTestCommands = Count(CmdPIPE \o CmdFIFO, IsTestCmd)
                            + ExecParamCount + Taken("POS_TEST")

\* No bit of GXSTAT is cleared too early.
BusyBits ==
    /\ NumPushPopCommands > 0 => "stack" \in Busy
    /\ NumTestCommands > 0 => "test" \in Busy
    /\ CmdPIPE # <<>> => "gx" \in Busy

IInv == TypeOK /\ Control /\ Backed /\ Counted /\ BusyBits

-----------------------------------------------------------------------------
(* Lemmas about sequences                                                  *)

LEMMA AppendToLast ==
  ASSUME NEW S, NEW p \in Seq(S), NEW q \in Seq(S), NEW e \in S
  PROVE  p \o Append(q, e) = Append(p \o q, e)
<1>1. Append(q, e) = q \o <<e>> /\ Append(p \o q, e) = (p \o q) \o <<e>>
  BY AppendIsConcat, ConcatProperties
<1>2. <<e>> \in Seq(S)
  OBVIOUS
<1> QED BY <1>1, <1>2, ConcatAssociative

\* The head of a sequence may as well be the end of the one before it.
LEMMA HeadMovesUp ==
  ASSUME NEW S, NEW p \in Seq(S), NEW q \in Seq(S), q # <<>>
  PROVE  p \o q = Append(p, Head(q)) \o Tail(q)
<1>1. Head(q) \in S /\ Tail(q) \in Seq(S)
  BY HeadTailProperties
<1>2. <<Head(q)>> \in Seq(S)
  BY <1>1
<1>3. q = <<Head(q)>> \o Tail(q)
  <2>1. Len(q) \in Nat \ {0}
    BY EmptySeq
  <2>2. SubSeq(q, 1, Len(q)) = <<q[1]>> \o SubSeq(q, 2, Len(q))
    BY <2>1, SubSeqRecursiveFirst
  <2>3. Head(q) = q[1]
    BY <2>1
  <2> QED BY <2>2, <2>3, SubSeqFull, TailIsSubSeq
<1>4. Append(p, Head(q)) = p \o <<Head(q)>>
  BY <1>1, AppendIsConcat
<1>5. (p \o <<Head(q)>>) \o Tail(q) = p \o (<<Head(q)>> \o Tail(q))
  BY <1>1, <1>2, ConcatAssociative
<1> QED BY <1>3, <1>4, <1>5, Zenon

\* Taking the first entry of two sequences in a row takes it of the first.
LEMMA TailOfConcat ==
  ASSUME NEW S, NEW p \in Seq(S), NEW q \in Seq(S), p # <<>>
  PROVE  /\ p \o q # <<>>
         /\ Tail(p \o q) = Tail(p) \o q
         /\ Head(p \o q) = Head(p)
<1>1. Len(p) \in Nat \ {0} /\ Len(q) \in Nat
  BY EmptySeq, LenProperties
<1>2. /\ p \o q \in Seq(S) /\ Len(p \o q) = Len(p) + Len(q)
      /\ \A i \in 1..(Len(p) + Len(q)) :
           (p \o q)[i] = IF i <= Len(p) THEN p[i] ELSE q[i - Len(p)]
  BY ConcatProperties
<1>3. p \o q # <<>>
  BY <1>1, <1>2
<1>4. /\ Tail(p) \in Seq(S) /\ Len(Tail(p)) = Len(p) - 1
      /\ \A i \in 1..(Len(p) - 1) : Tail(p)[i] = p[i + 1]
  BY HeadTailProperties
<1>5. /\ Tail(p \o q) \in Seq(S) /\ Len(Tail(p \o q)) = Len(p) + Len(q) - 1
      /\ \A i \in 1..(Len(p) + Len(q) - 1) : Tail(p \o q)[i] = (p \o q)[i + 1]
  BY <1>1, <1>2, <1>3, HeadTailProperties
<1>6. /\ Tail(p) \o q \in Seq(S) /\ Len(Tail(p) \o q) = Len(p) + Len(q) - 1
      /\ \A i \in 1..(Len(p) + Len(q) - 1) :
           (Tail(p) \o q)[i] = IF i <= Len(p) - 1 THEN Tail(p)[i] ELSE q[i - (Len(p) - 1)]
  <2>1. Len(Tail(p)) + Len(q) = Len(p) + Len(q) - 1
    BY <1>1, <1>4
  <2> QED BY <1>4, <2>1, ConcatProperties
<1>7. \A i \in 1..(Len(p) + Len(q) - 1) : Tail(p \o q)[i] = (Tail(p) \o q)[i]
  <2> SUFFICES ASSUME NEW i \in 1..(Len(p) + Len(q) - 1)
               PROVE  Tail(p \o q)[i] = (Tail(p) \o q)[i]
    OBVIOUS
  <2>1. i + 1 \in 1..(Len(p) + Len(q))
    BY <1>1
  <2>2. CASE i <= Len(p) - 1
    BY <1>1, <1>2, <1>4, <1>5, <1>6, <2>1, <2>2
  <2>3. CASE ~(i <= Len(p) - 1)
    <3>1. (i + 1) - Len(p) = i - (Len(p) - 1)
      BY <1>1
    <3> QED BY <1>1, <1>2, <1>5, <1>6, <2>1, <2>3, <3>1
  <2> QED BY <2>2, <2>3
<1>8. Tail(p \o q) = Tail(p) \o q
  BY <1>5, <1>6, <1>7, SeqEqual
<1>9. Head(p \o q) = Head(p)
  <2>1. (p \o q)[1] = p[1]
    BY <1>1, <1>2
  <2> QED BY <1>1, <1>2, <1>3, <2>1
<1> QED BY <1>3, <1>8, <1>9

\* A sequence cut in two.
LEMMA CutSeq ==
  ASSUME NEW S, NEW q \in Seq(S), NEW n \in 0..Len(q)
  PROVE  /\ SubSeq(q, 1, n) \in Seq(S) /\ SubSeq(q, n + 1, Len(q)) \in Seq(S)
         /\ Len(SubSeq(q, 1, n)) = n
         /\ Len(SubSeq(q, n + 1, Len(q))) = Len(q) - n
         /\ SubSeq(q, 1, n) \o SubSeq(q, n + 1, Len(q)) = q
<1>1. Len(q) \in Nat /\ \A i \in 1..Len(q) : q[i] \in S
  BY ElementOfSeq, LenProperties
<1>2. SubSeq(q, 1, n) \in Seq(S) /\ Len(SubSeq(q, 1, n)) = n
  BY <1>1, SubSeqProperties
<1>3. /\ SubSeq(q, n + 1, Len(q)) \in Seq(S)
      /\ Len(SubSeq(q, n + 1, Len(q))) = Len(q) - n
  BY <1>1, SubSeqProperties
<1>4. SubSeq(q, 1, n) \o SubSeq(q, n + 1, Len(q)) = SubSeq(q, 1, Len(q))
  <2>1. PICK m \in 1..(Len(q) + 1), z \in n..Len(q) : m = 1 /\ z = Len(q)
    BY <1>1
  <2>2. n \in (m - 1)..Len(q)
    BY <1>1, <2>1
  <2>3. SubSeq(q, m, n) \o SubSeq(q, n + 1, z) = SubSeq(q, m, z)
    BY <2>2, ConcatAdjacentSubSeq
  <2> QED BY <2>1, <2>3
<1> QED BY <1>2, <1>3, <1>4, SubSeqFull

-----------------------------------------------------------------------------
(* Counting the entries of a command                                       *)

At(q, c) == {i \in DOMAIN q : q[i] = c}

LEMMA CountsAre ==
  ASSUME NEW q
  PROVE  /\ Count(q, IsStackCmd) = Cardinality(At(q, "MTX_PUSH"))
         /\ Count(q, IsTestCmd) = Cardinality(At(q, "POS_TEST"))
BY DEF Count, IsStackCmd, IsTestCmd, At

LEMMA AtFinite ==
  ASSUME NEW S, NEW q \in Seq(S), NEW c
  PROVE  IsFiniteSet(At(q, c)) /\ Cardinality(At(q, c)) \in Nat
<1>1. DOMAIN q = 1..Len(q) /\ Len(q) \in Nat
  BY LenProperties
<1>2. IsFiniteSet(1..Len(q)) /\ At(q, c) \in SUBSET (1..Len(q))
  BY <1>1, FS_Interval DEF At
<1> QED BY <1>2, FS_Subset, FS_CardinalityType

LEMMA CountAppend ==
  ASSUME NEW S, NEW q \in Seq(S), NEW e \in S, NEW c
  PROVE  Cardinality(At(Append(q, e), c))
           = Cardinality(At(q, c)) + (IF e = c THEN 1 ELSE 0)
<1>1. /\ DOMAIN q = 1..Len(q) /\ Len(q) \in Nat
      /\ DOMAIN Append(q, e) = 1..(Len(q) + 1)
      /\ \A i \in 1..Len(q) : Append(q, e)[i] = q[i]
      /\ Append(q, e)[Len(q) + 1] = e
  BY AppendProperties, LenProperties
<1>2. CASE e = c
  <2>1. \A i : i \in At(Append(q, e), c) <=> i \in At(q, c) \/ i = Len(q) + 1
    BY <1>1, <1>2 DEF At
  <2>2. At(Append(q, e), c) = At(q, c) \union {Len(q) + 1}
    BY <2>1
  <2>3. Len(q) + 1 \notin At(q, c)
    BY <1>1 DEF At
  <2> QED BY <1>2, <2>2, <2>3, AtFinite, FS_AddElement
<1>3. CASE e # c
  <2>1. \A i : i \in At(Append(q, e), c) <=> i \in At(q, c)
    BY <1>1, <1>3 DEF At
  <2>2. At(Append(q, e), c) = At(q, c)
    BY <2>1
  <2> QED BY <1>3, <2>2, AtFinite
<1> QED BY <1>2, <1>3

LEMMA CountTail ==
  ASSUME NEW S, NEW q \in Seq(S), q # <<>>, NEW c
  PROVE  Cardinality(At(q, c))
           = Cardinality(At(Tail(q), c)) + (IF Head(q) = c THEN 1 ELSE 0)
<1>1. /\ DOMAIN q = 1..Len(q) /\ Len(q) \in Nat \ {0} /\ Head(q) = q[1]
      /\ Tail(q) \in Seq(S) /\ DOMAIN Tail(q) = 1..(Len(q) - 1)
      /\ \A i \in 1..(Len(q) - 1) : Tail(q)[i] = q[i + 1]
  <2>1. Len(q) \in Nat \ {0} /\ DOMAIN q = 1..Len(q)
    BY EmptySeq, LenProperties
  <2>2. /\ Tail(q) \in Seq(S) /\ Len(Tail(q)) = Len(q) - 1
        /\ \A i \in 1..Len(Tail(q)) : Tail(q)[i] = q[i + 1]
    BY HeadTailProperties
  <2>3. DOMAIN Tail(q) = 1..(Len(q) - 1)
    BY <2>2, LenProperties
  <2> QED BY <2>1, <2>2, <2>3
<1> DEFINE rest == At(q, c) \ {1}
           shift == [i \in At(Tail(q), c) |-> i + 1]
<1>2. shift \in Bijection(At(Tail(q), c), rest)
  <2>1. shift \in [At(Tail(q), c) -> rest]
    BY <1>1 DEF At
  <2>2. \A i, j \in At(Tail(q), c) : shift[i] = shift[j] => i = j
    BY <1>1 DEF At
  <2>3. ASSUME NEW j \in rest PROVE \E i \in At(Tail(q), c) : shift[i] = j
    <3>1. j - 1 \in At(Tail(q), c) /\ shift[j - 1] = j
      BY <1>1 DEF At
    <3> QED BY <3>1
  <2> QED BY <2>1, <2>2, <2>3 DEF Bijection, Injection, Surjection, IsInjective
<1>3. Cardinality(rest) = Cardinality(At(Tail(q), c))
  <2>1. IsFiniteSet(At(Tail(q), c))
    BY <1>1, AtFinite
  <2> HIDE DEF rest, shift
  <2>2. ExistsBijection(At(Tail(q), c), rest)
    BY <1>2 DEF ExistsBijection
  <2> QED BY <2>1, <2>2, FS_Bijection
<1>4. Cardinality(rest) = Cardinality(At(q, c)) - (IF Head(q) = c THEN 1 ELSE 0)
  <2>1. 1 \in At(q, c) <=> Head(q) = c
    BY <1>1 DEF At
  <2>2. IsFiniteSet(At(q, c))
    BY AtFinite
  <2>3. PICK A : A = At(q, c)
    OBVIOUS
  <2>4. Cardinality(A \ {1}) = IF 1 \in A THEN Cardinality(A) - 1 ELSE Cardinality(A)
    BY <2>2, <2>3, FS_RemoveElement
  <2>5. Cardinality(A) \in Nat
    BY <2>3, AtFinite
  <2> QED BY <2>1, <2>3, <2>4, <2>5
<1> QED BY <1>1, <1>3, <1>4, AtFinite

-----------------------------------------------------------------------------
(* Steps that leave the queues and GXSTAT alone                            *)

Quiet == UNCHANGED <<queues, issued, status, ExecParamCount, entry>>

\* Outside CmdFIFORead such a step disturbs nothing but types and control.
LEMMA QuietStep ==
  ASSUME Backed, Counted, BusyBits, Quiet, Between, Between'
  PROVE  Backed' /\ Counted' /\ BusyBits'
<1>1. Backed'
  BY DEF Backed, Quiet, queues, Between, IsFull
<1>2. Counted'
  BY DEF Counted, Quiet, queues, status, Between, Taken, Count, IsStackCmd, IsTestCmd
<1>3. BusyBits'
  BY DEF BusyBits, Quiet, queues, status
<1> QED BY <1>1, <1>2, <1>3

\* The clocks and the sizes, without the rest of TypeOK.
LEMMA Clocks ==
  ASSUME TypeOK
  PROVE  /\ Slice \in Nat /\ Slice > 0 /\ Frame \in Nat /\ Frame > 0
         /\ MaxSTM \in Nat /\ MaxSTM > 0
         /\ left \in 0..Slice /\ since \in Nat /\ toVBlank \in 0..Frame
         /\ stm \in 0..MaxSTM
BY GXAssumption DEF TypeOK

LEMMA TurnSteps ==
  ASSUME TypeOK, Control, TurnStalled \/ TurnRuns \/ System
  PROVE  TypeOK' /\ Control' /\ Quiet /\ Between /\ Between'
<1> USE GXAssumption
<1>1. CASE TurnStalled
  <2>1. PICK d : /\ d = Least(Least(Slice, toVBlank), CyclesToRunFor)
                 /\ left' = 0 /\ since' = since + d /\ toVBlank' = toVBlank - d
    BY <1>1 DEF TurnStalled
  <2>2. d \in 0..toVBlank
    BY <2>1, <1>1 DEF Least, CyclesToRunFor, TypeOK
  <2>3. /\ pc = "iter" /\ pc' = "gpu" /\ ret' = "system"
        /\ UNCHANGED <<queues, unpack, status, engine, irqs, dma, stm>>
    BY <1>1 DEF TurnStalled
  <2>4. left' \in 0..Slice /\ since' \in Nat /\ toVBlank' \in 0..Frame
    BY ONLY <2>1, <2>2, TypeOK, Clocks
  <2>5. TypeOK'
    BY <2>3, <2>4 DEF TypeOK, queues, unpack, status, engine, irqs
  <2>6. Control'
    BY <2>1, <2>2, <2>3 DEF Control, TypeOK, unpack
  <2> QED BY <2>3, <2>5, <2>6 DEF Quiet, Between, unpack, engine
<1>2. CASE TurnRuns
  <2>1. left' \in 1..Slice /\ left' <= toVBlank
    BY <1>2 DEF TurnRuns, Least, TypeOK, Control
  <2>2. TypeOK'
    BY <1>2, <2>1 DEF TurnRuns, TypeOK, queues, unpack, status, engine, irqs
  <2>3. Control'
    BY <1>2, <2>1 DEF TurnRuns, TypeOK, Control, unpack
  <2> QED BY <1>2, <2>2, <2>3 DEF TurnRuns, Quiet, Between, unpack, engine
<1>3. CASE System
  <2>1. toVBlank' \in 0..Frame
    BY <1>3 DEF System, TypeOK
  <2>2. FlushRequest' \in BOOLEAN
    <3>1. CASE toVBlank = 0
      BY <1>3, <3>1 DEF System
    <3>2. CASE toVBlank # 0
      BY <1>3, <3>2 DEF System, TypeOK
    <3> QED BY <3>1, <3>2
  <2>3. TypeOK'
    <3>1. /\ pc' = "iter"
          /\ UNCHANGED <<queues, unpack, status, ExecParamCount, entry, CycleCount,
                         GeometryEnabled, irqs, dma, left, since, ret, stm>>
      BY <1>3 DEF System
    <3> QED BY <2>1, <2>2, <3>1 DEF TypeOK, queues, unpack, status, irqs
  <2>4. Control'
    BY <1>3 DEF System, TypeOK, Control, unpack
  <2> QED BY <1>3, <2>3, <2>4 DEF System, Quiet, Between, unpack
<1> QED BY <1>1, <1>2, <1>3

LEMMA InstructionSteps ==
  ASSUME TypeOK, Control,
         \/ \E n \in 1..MaxSTM : ARM9Store(n)
         \/ ReadGXSTAT
         \/ \E mode \in 0..2 : WriteGXSTAT(mode)
         \/ AckIRQ
         \/ SetEnabled
         \/ InstructionEnds
  PROVE  TypeOK' /\ Control' /\ Quiet /\ Between /\ Between'
<1> USE GXAssumption
<1>1. ASSUME NEW n \in 1..MaxSTM, ARM9Store(n) PROVE TypeOK' /\ Control' /\ Quiet /\ Between /\ Between'
  <2>1. TypeOK'
    BY <1>1 DEF ARM9Store, InARM9, TypeOK, queues, unpack, status, engine, irqs, clock
  <2>2. Control'
    BY <1>1 DEF ARM9Store, InARM9, TypeOK, Control, unpack, clock
  <2> QED BY <1>1, <2>1, <2>2 DEF ARM9Store, InARM9, Quiet, Between, unpack, engine
<1>2. CASE ReadGXSTAT
  <2>1. TypeOK'
    BY <1>2 DEF ReadGXSTAT, InARM9, TypeOK, queues, unpack, status, engine, irqs, clock
  <2>2. Control'
    BY <1>2 DEF ReadGXSTAT, InARM9, TypeOK, Control, unpack, clock
  <2> QED BY <1>2, <2>1, <2>2 DEF ReadGXSTAT, InARM9, Quiet, Between, unpack, engine
<1>3. ASSUME NEW mode \in 0..2, WriteGXSTAT(mode) PROVE TypeOK' /\ Control' /\ Quiet /\ Between /\ Between'
  <2>1. irq' \in BOOLEAN
    BY <1>3 DEF WriteGXSTAT, FIFOIRQ
  <2>2. TypeOK'
    BY <1>3, <2>1 DEF WriteGXSTAT, InARM9, TypeOK, queues, unpack, status, engine, clock
  <2>3. Control'
    BY <1>3 DEF WriteGXSTAT, InARM9, TypeOK, Control, unpack, clock
  <2> QED BY <1>3, <2>2, <2>3 DEF WriteGXSTAT, InARM9, Quiet, Between, unpack, engine
<1>4. CASE AckIRQ
  <2>1. irq' \in BOOLEAN
    BY <1>4 DEF AckIRQ, FIFOIRQ
  <2>2. TypeOK'
    BY <1>4, <2>1 DEF AckIRQ, InARM9, TypeOK, queues, unpack, status, engine, clock
  <2>3. Control'
    BY <1>4 DEF AckIRQ, InARM9, TypeOK, Control, unpack, clock
  <2> QED BY <1>4, <2>2, <2>3 DEF AckIRQ, InARM9, Quiet, Between, unpack, engine
<1>5. CASE SetEnabled
  <2>1. TypeOK'
    BY <1>5 DEF SetEnabled, InARM9, TypeOK, queues, unpack, status, irqs, clock
  <2>2. Control'
    BY <1>5 DEF SetEnabled, InARM9, TypeOK, Control, unpack, clock
  <2> QED BY <1>5, <2>1, <2>2 DEF SetEnabled, InARM9, Quiet, Between, unpack
<1>6. CASE InstructionEnds
  <2>1. TypeOK'
    <3>1. /\ pc' \in {"word", "gpu", "arm9"} /\ ret' \in {"arm9", "system"}
          /\ stm' \in 0..MaxSTM
          /\ left' \in 0..Slice /\ since' \in Nat /\ toVBlank' \in 0..Frame
      <4>1. left > 0 /\ left <= toVBlank
        BY <1>6 DEF InstructionEnds, Control
      <4>2. /\ pc' \in {"word", "gpu", "arm9"} /\ ret' \in {"arm9", "system"}
            /\ \/ stm > 1 /\ stm' = stm - 1
               \/ stm' = 0
            /\ \/ Pass(1)
               \/ UNCHANGED clock
        BY <1>6 DEF InstructionEnds
      <4> QED BY ONLY <4>1, <4>2, TypeOK, Clocks DEF Pass, clock
    <3>2. UNCHANGED <<queues, unpack, status, engine, irqs, dma>>
      BY <1>6 DEF InstructionEnds
    <3> QED BY SMTT(60), <3>1, <3>2 DEF TypeOK, queues, unpack, status, engine, irqs
  <2>2. Control'
    BY SMTT(60), <1>6 DEF InstructionEnds, Pass, TypeOK, Control, unpack, clock
  <2> QED BY <1>6, <2>1, <2>2 DEF InstructionEnds, Quiet, Between, unpack, engine
<1> QED BY <1>1, <1>2, <1>3, <1>4, <1>5, <1>6

LEMMA StartFacts ==
  ASSUME NEW d \in Channels, d.iter <= d.rem, NEW level
  PROVE  \A e \in {Start(d), CheckFIFODMA(d, level)} : e \in Channels /\ e.iter <= e.rem
<1>1. Start(d) \in Channels /\ Start(d).iter <= Start(d).rem
  <2>1. CASE d.running
    BY <2>1 DEF Start
  <2>2. CASE ~d.running
    <3>1. PICK r, n : /\ r = (IF d.rem > 0 THEN d.rem ELSE d.count)
                      /\ n = (IF d.gx /\ r > Burst THEN Burst ELSE r)
      OBVIOUS
    <3>2. r \in Nat /\ n \in Nat /\ n <= r
      BY <3>1, GXAssumption DEF Channels
    <3>3. Start(d) = [d EXCEPT !.running = TRUE, !.rem = r, !.iter = n]
      BY <2>2, <3>1 DEF Start
    <3> QED BY ONLY <3>2, <3>3, d \in Channels DEF Channels
  <2> QED BY <2>1, <2>2
<1>2. CheckFIFODMA(d, level) \in {Start(d), d}
  BY DEF CheckFIFODMA
<1> QED BY <1>1, <1>2

LEMMA DMASteps ==
  ASSUME TypeOK, Control,
         \/ \E n \in DMALengths, gx, repeat \in BOOLEAN : WriteCnt(n, gx, repeat)
         \/ DisableDMA \/ DMAUnit \/ DMAUnitEnds \/ DMARunEnds
  PROVE  TypeOK' /\ Control' /\ Quiet /\ Between /\ Between'
<1> USE GXAssumption
<1>0. dma \in Channels /\ dma.iter <= dma.rem
  BY DEF TypeOK, Control
<1>1. ASSUME NEW n \in DMALengths, NEW gx \in BOOLEAN, NEW repeat \in BOOLEAN,
             WriteCnt(n, gx, repeat)
      PROVE TypeOK' /\ Control' /\ Quiet /\ Between /\ Between'
  <2> DEFINE d == [dma EXCEPT !.on = TRUE, !.gx = gx, !.repeat = repeat, !.count = n]
  <2>1. d \in Channels /\ d.iter <= d.rem
    <3>1. n \in Nat
      OBVIOUS
    <3>2. d \in Channels
      BY ONLY <1>0, <3>1, gx \in BOOLEAN, repeat \in BOOLEAN, Zenon DEF Channels, d
    <3>3. d.iter = dma.iter /\ d.rem = dma.rem
      BY ONLY <1>0 DEF Channels, d
    <3> QED BY ONLY <1>0, <3>2, <3>3
  <2>2. dma' \in {Start(d), CheckFIFODMA(d, Len(CmdFIFO))}
    BY <1>1 DEF WriteCnt
  <2> HIDE DEF d
  <2>3. dma' \in Channels /\ dma'.iter <= dma'.rem
    <3>1. PICK dd, lv : dd = d /\ lv = Len(CmdFIFO)
      OBVIOUS
    <3>2. dd \in Channels /\ dd.iter <= dd.rem
      BY <2>1, <3>1, Zenon
    <3>3. \A e \in {Start(dd), CheckFIFODMA(dd, lv)} : e \in Channels /\ e.iter <= e.rem
      BY ONLY <3>2, StartFacts
    <3> QED BY <2>2, <3>1, <3>3, Zenon
  <2>4. TypeOK'
    BY <1>1, <2>3 DEF WriteCnt, InARM9, TypeOK, queues, unpack, status, engine, irqs, clock
  <2>5. Control'
    BY <1>1, <2>3 DEF WriteCnt, InARM9, TypeOK, Control, unpack, clock
  <2> QED BY <1>1, <2>4, <2>5 DEF WriteCnt, InARM9, Quiet, Between, unpack, engine
<1>2. CASE DMAUnit
  <2>1. TypeOK'
    BY <1>2 DEF DMAUnit, TypeOK, queues, unpack, status, engine, irqs, clock
  <2>2. Control'
    BY <1>2 DEF DMAUnit, TypeOK, Control, unpack, clock
  <2> QED BY <1>2, <2>1, <2>2 DEF DMAUnit, Quiet, Between, unpack, engine
<1>3. CASE DMAUnitEnds
  <2>1. dma' \in Channels /\ dma'.iter <= dma'.rem
    <3>1. dma' = [dma EXCEPT !.iter = dma.iter - 1, !.rem = dma.rem - 1] /\ dma.iter > 0
      BY <1>3 DEF DMAUnitEnds, Control
    <3>2. PICK i, r : i = dma.iter - 1 /\ r = dma.rem - 1
      OBVIOUS
    <3>3. i \in Nat /\ r \in Nat /\ i <= r
      BY ONLY <1>0, <3>1, <3>2 DEF Channels
    <3>4. dma' = [dma EXCEPT !.iter = i, !.rem = r]
      BY <3>1, <3>2, Zenon
    <3> QED BY ONLY <1>0, <3>3, <3>4 DEF Channels
  <2>2. left' \in 0..Slice /\ since' \in Nat /\ toVBlank' \in 0..Frame /\ left' <= toVBlank'
    <3>1. Pass(1) /\ left > 0 /\ left <= toVBlank
      BY <1>3 DEF DMAUnitEnds, Control
    <3> QED BY ONLY <3>1, TypeOK, Clocks DEF Pass
  <2>3. /\ pc' = "dma" /\ stm' = 0 /\ ret = "dma"
        /\ UNCHANGED <<queues, unpack, status, engine, irqs, ret>>
    BY <1>3 DEF DMAUnitEnds
  <2>4. TypeOK'
    BY <2>1, <2>2, <2>3 DEF TypeOK, queues, unpack, status, engine, irqs
  <2>5. Control'
    BY <2>1, <2>2, <2>3 DEF TypeOK, Control, unpack
  <2> QED BY <1>3, <2>3, <2>4, <2>5 DEF DMAUnitEnds, Quiet, Between, unpack, engine
<1>4. CASE DMARunEnds
  <2>1. dma' \in Channels /\ dma'.iter <= dma'.rem
    <3> DEFINE d == [dma EXCEPT !.stall = FALSE]
               h == [d EXCEPT !.running = FALSE]
    <3>1. IdleDMA \in Channels /\ IdleDMA.iter <= IdleDMA.rem
      BY DEF IdleDMA, Channels
    <3>2. d \in Channels /\ d.iter <= d.rem /\ h \in Channels /\ h.iter <= h.rem
      BY <1>0 DEF Channels
    <3>3. dma' \in {IdleDMA, d, h, CheckFIFODMA(h, Len(CmdFIFO))}
      BY <1>4 DEF DMARunEnds
    <3> HIDE DEF d, h
    <3>4. PICK dd, lv : dd = h /\ lv = Len(CmdFIFO)
      OBVIOUS
    <3>5. dd \in Channels /\ dd.iter <= dd.rem
      BY <3>2, <3>4, Zenon
    <3>6. CheckFIFODMA(dd, lv) \in Channels /\ CheckFIFODMA(dd, lv).iter <= CheckFIFODMA(dd, lv).rem
      BY <3>5, StartFacts
    <3> QED BY <3>1, <3>2, <3>3, <3>4, <3>6, Zenon
  <2>2. /\ pc = "dma" /\ pc' = "gpu" /\ ret' = "system"
        /\ UNCHANGED <<queues, unpack, status, engine, irqs, clock, stm>>
    BY <1>4 DEF DMARunEnds
  <2>3. TypeOK'
    BY <2>1, <2>2 DEF TypeOK, queues, unpack, status, engine, irqs, clock
  <2>4. Control'
    BY <2>1, <2>2 DEF TypeOK, Control, unpack, clock
  <2> QED BY <2>2, <2>3, <2>4 DEF Quiet, Between, unpack, engine
<1>5. CASE DisableDMA
  <2>1. dma' \in Channels /\ dma'.iter <= dma'.rem
    <3>1. CASE dma' = IdleDMA
      BY <3>1 DEF IdleDMA, Channels
    <3>2. CASE dma' = [dma EXCEPT !.on = FALSE]
      BY ONLY <1>0, <3>2 DEF Channels
    <3> QED BY <1>5, <3>1, <3>2 DEF DisableDMA
  <2>2. TypeOK'
    BY <1>5, <2>1 DEF DisableDMA, InARM9, TypeOK, queues, unpack, status, engine, irqs, clock
  <2>3. Control'
    BY <1>5, <2>1 DEF DisableDMA, InARM9, TypeOK, Control, unpack, clock
  <2> QED BY <1>5, <2>2, <2>3 DEF DisableDMA, InARM9, Quiet, Between, unpack, engine
<1> QED BY <1>1, <1>2, <1>3, <1>4, <1>5

LEMMA WordAndRun ==
  ASSUME TypeOK, Control, Word \/ Run
  PROVE  TypeOK' /\ Control' /\ Quiet /\ Between /\ Between'
<1>1. CASE Word
  <2>1. /\ CurCommand' \in Seq(Commands) /\ Len(CurCommand') <= 4
        /\ ParamCount' \in Nat /\ packed' \in 0..Len(Program)
        /\ pc' \in {"ended", "unpack"} /\ (pc' = "unpack" => CurCommand' # <<>>)
    <3>1. CASE ~GeometryEnabled \/ (NumCommands = 0 /\ packed = Len(Program))
      <4>1. pc' = "ended" /\ UNCHANGED <<CurCommand, ParamCount, packed>>
        <5>1. Len(CurCommand) \in Nat /\ packed \in Int /\ Len(Program) \in Int
          BY GXAssumption, LenProperties DEF TypeOK
        <5> QED BY <1>1, <3>1, <5>1 DEF Word, NumCommands
      <4> QED BY <4>1 DEF TypeOK, Control
    <3>2. CASE GeometryEnabled /\ NumCommands > 0
      BY <1>1, <3>2 DEF Word, TypeOK, Control, NumCommands
    <3>3. CASE GeometryEnabled /\ NumCommands = 0 /\ packed # Len(Program)
      <4>1. /\ packed < Len(Program) /\ CurCommand' = Program[packed + 1]
            /\ ParamCount' = 0 /\ packed' = packed + 1 /\ pc' \in {"ended", "unpack"}
        BY <1>1, <3>3 DEF Word
      <4>2. packed + 1 \in 1..Len(Program) /\ packed \in Nat
        BY <4>1 DEF TypeOK
      <4>3. CurCommand' \in [1..4 -> Commands]
        BY <4>1, <4>2, GXAssumption, ElementOfSeq
      <4>4. CurCommand' \in Seq(Commands) /\ Len(CurCommand') = 4
        <5>1. PICK w : w = CurCommand'
          OBVIOUS
        <5>2. w \in [1..4 -> Commands]
          BY <4>3, <5>1, Zenon
        <5>3. w \in Seq(Commands) /\ Len(w) = 4
          <6>1. w \in Seq(Commands)
            BY <5>2, SeqDef
          <6>2. 1..Len(w) = 1..4 /\ Len(w) \in Nat
            BY ONLY <5>2, <6>1, LenProperties
          <6>3. PICK n \in Nat : n = Len(w)
            BY <6>2
          <6>4. \A i \in Nat : i \in 1..n <=> i \in 1..4
            BY <6>2, <6>3
          <6>5. n = 4
            <7>1. n + 1 \in 1..n <=> n + 1 \in 1..4
              BY <6>4
            <7> QED BY ONLY <6>4, <7>1, n \in Nat
          <6> QED BY <6>1, <6>3, <6>5
        <5> QED BY <5>1, <5>3, Zenon
      <4>5. CurCommand' # <<>>
        BY <4>4, EmptySeq
      <4>6. Len(Program) \in Nat
        BY GXAssumption, LenProperties
      <4> QED BY ONLY <4>1, <4>2, <4>4, <4>5, <4>6
    <3> QED BY <3>1, <3>2, <3>3 DEF TypeOK, NumCommands
  <2>2. /\ pc = "word"
        /\ UNCHANGED <<queues, issued, status, engine, irqs, dma, clock, ret, stm>>
    BY <1>1 DEF Word
  <2>3. TypeOK'
    BY <2>1, <2>2 DEF TypeOK, queues, status, engine, irqs, clock
  <2>4. Control'
    BY <2>1, <2>2 DEF TypeOK, Control, clock
  <2> QED BY <2>1, <2>2, <2>3, <2>4 DEF Quiet, Between, engine
<1>2. CASE Run
  <2>1. /\ CycleCount' \in Int /\ since' = 0
        /\ pc' \in {"exec", IF ret = "arm9" THEN "ended" ELSE "system"}
    BY <1>2 DEF Run, Return, TypeOK
  <2>2. /\ pc = "gpu"
        /\ UNCHANGED <<queues, unpack, status, ExecParamCount, entry, FlushRequest,
                       GeometryEnabled, irqs, dma, left, toVBlank, ret, stm>>
    BY <1>2 DEF Run
  <2>3. TypeOK'
    BY <2>1, <2>2 DEF TypeOK, queues, unpack, status, irqs
  <2>4. Control'
    BY <2>1, <2>2 DEF TypeOK, Control, unpack
  <2> QED BY <2>1, <2>2, <2>3, <2>4 DEF Quiet, Between, unpack
<1> QED BY <1>1, <1>2

-----------------------------------------------------------------------------
(* Steps that move entries                                                 *)

\* The queues, without the rest of TypeOK.
LEMMA QueueTypes ==
  ASSUME TypeOK
  PROVE  /\ FIFOSize \in Nat /\ FIFOSize >= 4 /\ StallSize \in Nat /\ StallSize > 0
         /\ CmdPIPE \in Seq(Commands) /\ Len(CmdPIPE) \in Nat /\ Len(CmdPIPE) <= 4
         /\ CmdFIFO \in Seq(Commands) /\ Len(CmdFIFO) \in 0..FIFOSize
         /\ CmdStallQueue \in Seq(Commands) /\ Len(CmdStallQueue) \in 0..StallSize
         /\ CmdPIPE \o CmdFIFO \in Seq(Commands)
         /\ CmdPIPE = <<>> <=> Len(CmdPIPE) = 0
         /\ CmdFIFO = <<>> <=> Len(CmdFIFO) = 0
         /\ CmdStallQueue = <<>> <=> Len(CmdStallQueue) = 0
<1>1. /\ CmdPIPE \in Seq(Commands) /\ Len(CmdPIPE) <= 4
      /\ CmdFIFO \in Seq(Commands) /\ Len(CmdFIFO) <= FIFOSize
      /\ CmdStallQueue \in Seq(Commands) /\ Len(CmdStallQueue) <= StallSize
  BY DEF TypeOK, PIPESize
<1>2. FIFOSize \in Nat /\ FIFOSize >= 4 /\ StallSize \in Nat /\ StallSize > 0
  BY GXAssumption
<1>3. \A q \in Seq(Commands) : Len(q) \in Nat /\ (q = <<>> <=> Len(q) = 0)
  BY EmptySeq, LenProperties
<1>4. CmdPIPE \o CmdFIFO \in Seq(Commands)
  BY <1>1, ConcatProperties
<1>5. Len(CmdPIPE) \in Nat /\ Len(CmdPIPE) <= 4 /\ (CmdPIPE = <<>> <=> Len(CmdPIPE) = 0)
  BY ONLY <1>1, <1>3
<1>6. Len(CmdFIFO) \in 0..FIFOSize /\ (CmdFIFO = <<>> <=> Len(CmdFIFO) = 0)
  BY ONLY <1>1, <1>2, <1>3
<1>7. Len(CmdStallQueue) \in 0..StallSize /\ (CmdStallQueue = <<>> <=> Len(CmdStallQueue) = 0)
  BY ONLY <1>1, <1>2, <1>3
<1> QED BY <1>1, <1>2, <1>4, <1>5, <1>6, <1>7, Zenon

\* The PIPE and the FIFO take an entry, or the stall queue does.
Accepts(e, sq) ==
    /\ ~IsFull(CmdFIFO, FIFOSize)
    /\ CmdPIPE' \o CmdFIFO' = Append(CmdPIPE \o CmdFIFO, e)
    /\ CmdPIPE' # <<>>
    /\ CmdStallQueue' = sq
    /\ Account(e)
    /\ UNCHANGED <<GXStall, dma>>

Stalls(e, sq) ==
    /\ IsFull(CmdFIFO, FIFOSize)
    /\ CmdStallQueue' = Write(sq, StallSize, e)
    /\ GXFIFOStall
    /\ UNCHANGED <<CmdPIPE, CmdFIFO, status>>

LEMMA FIFOWriteFacts ==
  ASSUME TypeOK, CmdFIFO # <<>> => Len(CmdPIPE) > 2,
         NEW e \in Commands, NEW sq, CmdFIFOWrite(e, sq)
  PROVE  /\ CmdPIPE' \in Seq(Commands) /\ Len(CmdPIPE') <= PIPESize
         /\ CmdFIFO' \in Seq(Commands) /\ Len(CmdFIFO') <= FIFOSize
         /\ CmdFIFO' # <<>> => Len(CmdPIPE') > 2
         /\ Accepts(e, sq) \/ Stalls(e, sq)
<1> USE QueueTypes
<1>1. CASE ToPIPE
  <2>1. /\ CmdFIFO = <<>> /\ Len(CmdPIPE) < 4 /\ ~ToStall
        /\ CmdPIPE' = Append(CmdPIPE, e) /\ CmdStallQueue' = sq
        /\ Account(e) /\ UNCHANGED <<CmdFIFO, GXStall, dma>>
    BY <1>1 DEF CmdFIFOWrite, ToPIPE, ToStall, IsFull, PIPESize
  <2>2. /\ CmdPIPE' \in Seq(Commands) /\ Len(CmdPIPE') = Len(CmdPIPE) + 1
        /\ CmdPIPE' # <<>>
    BY <2>1, AppendProperties
  <2>3. CmdPIPE' \o CmdFIFO' = Append(CmdPIPE \o CmdFIFO, e)
    BY <2>1, <2>2, ConcatEmptySeq
  <2>4. ~IsFull(CmdFIFO, FIFOSize)
    BY <2>1 DEF IsFull
  <2> QED BY <2>1, <2>2, <2>3, <2>4 DEF Accepts, PIPESize
<1>2. CASE ToStall
  <2>1. /\ IsFull(CmdFIFO, FIFOSize) /\ ~ToPIPE
        /\ CmdStallQueue' = Write(sq, StallSize, e) /\ GXFIFOStall
        /\ UNCHANGED <<CmdPIPE, CmdFIFO, status>>
    BY <1>2 DEF CmdFIFOWrite, ToStall
  <2>2. Stalls(e, sq) /\ CmdPIPE' = CmdPIPE /\ CmdFIFO' = CmdFIFO
    BY <2>1, Zenon DEF Stalls
  <2>3. Len(CmdPIPE) <= PIPESize /\ Len(CmdFIFO) <= FIFOSize
    BY DEF PIPESize
  <2> QED BY <2>2, <2>3
<1>3. CASE ~ToPIPE /\ ~ToStall
  <2>1. /\ ~IsFull(CmdFIFO, FIFOSize) /\ CmdFIFO' = Append(CmdFIFO, e)
        /\ CmdStallQueue' = sq /\ Account(e)
        /\ UNCHANGED <<CmdPIPE, GXStall, dma>>
    BY <1>3 DEF CmdFIFOWrite, ToStall
  <2>2. CmdFIFO' \in Seq(Commands) /\ Len(CmdFIFO') = Len(CmdFIFO) + 1
    BY <2>1, AppendProperties
  <2>3. Len(CmdPIPE) > 2
    BY <1>3 DEF ToPIPE, IsFull, PIPESize
  <2>4. CmdPIPE' \o CmdFIFO' = Append(CmdPIPE \o CmdFIFO, e)
    BY <2>1, AppendToLast
  <2>5. Len(CmdFIFO) < FIFOSize /\ CmdPIPE # <<>>
    BY <2>1, <2>3 DEF IsFull
  <2>6. Accepts(e, sq)
    BY <2>1, <2>4, <2>5, Zenon DEF Accepts
  <2>7. Len(CmdFIFO') <= FIFOSize /\ Len(CmdPIPE') <= PIPESize /\ Len(CmdPIPE') > 2
    BY <2>1, <2>2, <2>3, <2>5 DEF PIPESize
  <2> QED BY <2>1, <2>2, <2>6, <2>7
<1> QED BY <1>1, <1>2, <1>3

\* The counters, with the entries of the PIPE and the FIFO as one sequence.
CountsOf(w) ==
    /\ ExecParamCount \in {0, 1}
    /\ NumPushPopCommands = Cardinality(At(w, "MTX_PUSH")) + Taken("MTX_PUSH")
    /\ NumTestCommands = Cardinality(At(w, "POS_TEST")) + ExecParamCount + Taken("POS_TEST")

LEMMA CountedNow ==
  ASSUME NEW w, w = CmdPIPE \o CmdFIFO
  PROVE  Counted <=> CountsOf(w)
BY CountsAre DEF Counted, CountsOf

LEMMA CountedNext ==
  ASSUME NEW w, w = CmdPIPE' \o CmdFIFO'
  PROVE  Counted' <=> CountsOf(w)'
<1>1. /\ (Count(CmdPIPE \o CmdFIFO, IsStackCmd))' = Cardinality(At(w, "MTX_PUSH"))
      /\ (Count(CmdPIPE \o CmdFIFO, IsTestCmd))' = Cardinality(At(w, "POS_TEST"))
  BY DEF Count, IsStackCmd, IsTestCmd, At
<1> QED BY <1>1 DEF Counted, CountsOf

\* An entry that the PIPE or the FIFO takes is counted.
LEMMA AcceptedIsCounted ==
  ASSUME TypeOK, Counted, BusyBits, NEW e \in Commands, NEW sq, Accepts(e, sq),
         UNCHANGED <<ExecParamCount, entry>>, \A c : Taken(c)' = Taken(c)
  PROVE  /\ Counted' /\ BusyBits'
         /\ Busy' \subseteq {"gx", "stack", "test"}
         /\ NumPushPopCommands' \in Nat /\ NumTestCommands' \in Nat
<1>0. PICK v : v = CmdPIPE' \o CmdFIFO'
  OBVIOUS
<1>1. PICK w \in Seq(Commands) : w = CmdPIPE \o CmdFIFO
  BY QueueTypes
<1>2. v = Append(w, e)
  BY <1>0, <1>1 DEF Accepts
<1>3. CountsOf(w)
  BY <1>1, CountedNow
<1>4. /\ Cardinality(At(v, "MTX_PUSH")) = Cardinality(At(w, "MTX_PUSH")) + (IF e = "MTX_PUSH" THEN 1 ELSE 0)
      /\ Cardinality(At(v, "POS_TEST")) = Cardinality(At(w, "POS_TEST")) + (IF e = "POS_TEST" THEN 1 ELSE 0)
      /\ Cardinality(At(w, "MTX_PUSH")) \in Nat /\ Cardinality(At(w, "POS_TEST")) \in Nat
  BY <1>2, CountAppend, AtFinite
<1>5. /\ NumPushPopCommands' = NumPushPopCommands + (IF e = "MTX_PUSH" THEN 1 ELSE 0)
      /\ NumTestCommands' = NumTestCommands + (IF e = "POS_TEST" THEN 1 ELSE 0)
      /\ NumPushPopCommands \in Nat /\ NumTestCommands \in Nat
  BY DEF Accepts, Account, IsStackCmd, IsTestCmd, TypeOK
<1>6. Taken("MTX_PUSH") \in {0, 1} /\ Taken("POS_TEST") \in {0, 1}
  BY DEF Taken
<1>7. CountsOf(v)'
  BY <1>3, <1>4, <1>5, <1>6 DEF CountsOf
<1>8. \A b : b \in Busy' <=> ( \/ b \in Busy
                               \/ b = "gx"
                               \/ b = "stack" /\ e = "MTX_PUSH"
                               \/ b = "test" /\ e = "POS_TEST" )
  <2>1. Busy' = Busy \union {"gx"} \union {b \in {"stack"} : e = "MTX_PUSH"}
                                   \union {b \in {"test"} : e = "POS_TEST"}
    BY DEF Accepts, Account, IsStackCmd, IsTestCmd
  <2> QED BY ONLY <2>1
<1>9. BusyBits'
  <2>1. "gx" \in Busy'
    BY <1>8
  <2>2. NumPushPopCommands' > 0 => "stack" \in Busy'
    BY <1>5, <1>8 DEF BusyBits
  <2>3. NumTestCommands' > 0 => "test" \in Busy'
    BY <1>5, <1>8 DEF BusyBits
  <2> QED BY <2>1, <2>2, <2>3 DEF BusyBits
<1>10. Busy' \subseteq {"gx", "stack", "test"}
  BY <1>8 DEF TypeOK
<1>11. Counted'
  BY <1>0, <1>7, CountedNext, Zenon
<1>12. NumPushPopCommands' \in Nat /\ NumTestCommands' \in Nat
  BY <1>5
<1> QED BY <1>9, <1>10, <1>11, <1>12

\* What the stall queue holds after an entry met a full FIFO.
LEMMA StallQueueFacts ==
  ASSUME TypeOK, NEW e \in Commands
  PROVE  /\ Write(CmdStallQueue, StallSize, e) \in Seq(Commands)
         /\ Len(Write(CmdStallQueue, StallSize, e)) <= StallSize
         /\ Len(Write(CmdStallQueue, StallSize, e)) <= Len(CmdStallQueue) + 1
         /\ Write(CmdStallQueue, StallSize, e) # <<>>
<1>1. CASE IsFull(CmdStallQueue, StallSize)
  <2>1. Write(CmdStallQueue, StallSize, e) = CmdStallQueue
    BY <1>1 DEF Write
  <2>2. CmdStallQueue # <<>>
    BY <1>1, QueueTypes DEF IsFull
  <2> QED BY <2>1, <2>2, QueueTypes
<1>2. CASE ~IsFull(CmdStallQueue, StallSize)
  <2>1. Write(CmdStallQueue, StallSize, e) = Append(CmdStallQueue, e)
    BY <1>2 DEF Write
  <2>2. /\ Append(CmdStallQueue, e) \in Seq(Commands)
        /\ Len(Append(CmdStallQueue, e)) = Len(CmdStallQueue) + 1
        /\ Append(CmdStallQueue, e) # <<>>
    BY QueueTypes, AppendProperties
  <2>3. Len(CmdStallQueue) < StallSize
    BY <1>2, QueueTypes DEF IsFull
  <2> QED BY <2>1, <2>2, <2>3, QueueTypes
<1> QED BY <1>1, <1>2

\* The part of Unpack that is about the current packed word.
LEMMA UnpackWord ==
  ASSUME TypeOK, Control, Unpack
  PROVE  /\ CurCommand # <<>> /\ Head(CurCommand) \in Commands
         /\ CurCommand' \in Seq(Commands) /\ Len(CurCommand') <= Len(CurCommand)
         /\ ParamCount' \in Nat
         /\ pc' \in {"unpack", "ended"}
         /\ pc' = "unpack" => CurCommand' # <<>> /\ Len(CurCommand') = Len(CurCommand) - 1
<1>1. CurCommand \in Seq(Commands) /\ CurCommand # <<>> /\ Len(CurCommand) \in Nat \ {0}
  BY EmptySeq, LenProperties DEF Unpack, TypeOK, Control
<1>2. /\ Head(CurCommand) \in Commands /\ Tail(CurCommand) \in Seq(Commands)
      /\ Len(Tail(CurCommand)) = Len(CurCommand) - 1
  BY <1>1, HeadTailProperties
<1>3. CASE CommandDone
  <2>1. CurCommand' = Tail(CurCommand) /\ ParamCount' = 0
    BY <1>3 DEF Unpack
  <2>2. pc' \in {"unpack", "ended"} /\ (pc' = "unpack" => Len(CurCommand) > 1)
    BY <1>3 DEF Unpack, NumCommands
  <2>3. pc' = "unpack" => CurCommand' # <<>>
    <3>1. pc' = "unpack" => Len(CurCommand') # 0
      BY <1>1, <1>2, <2>1, <2>2
    <3> QED BY <1>2, <2>1, <3>1, EmptySeq
  <2> QED BY <1>1, <1>2, <2>1, <2>2, <2>3
<1>4. CASE ~CommandDone
  <2>1. CurCommand' = CurCommand /\ ParamCount' = ParamCount /\ pc' = "ended"
    BY <1>4 DEF Unpack
  <2> QED BY <1>1, <1>2, <2>1 DEF TypeOK
<1> QED BY <1>3, <1>4

LEMMA UnpackStep ==
  ASSUME IInv, Unpack
  PROVE  IInv'
<1> USE DEF IInv
<1> DEFINE e == Head(CurCommand)
<1>1. /\ pc = "unpack" /\ pc' \in {"unpack", "ended"}
      /\ UNCHANGED <<packed, engine, irqs, clock, ret, stm>>
  BY UnpackWord DEF Unpack
<1>2. CurCommand' \in Seq(Commands) /\ ParamCount' \in Nat /\ e \in Commands
  BY UnpackWord
<1>3. Between /\ Between' /\ \A c : Taken(c)' = Taken(c)
  BY <1>1 DEF Between, Taken
<1>4. UNCHANGED <<ExecParamCount, entry>>
  BY <1>1 DEF engine
<1> HIDE DEF e
<1>5. CASE ~IsCommand
  <2>1. UNCHANGED <<queues, issued, status, dma>>
    BY <1>5 DEF Unpack
  <2>2. Backed' /\ Counted' /\ BusyBits'
    BY <1>3, <1>4, <2>1, QuietStep DEF Quiet
  <2>3. TypeOK'
    BY <1>1, <1>2, <2>1 DEF TypeOK, queues, status, engine, irqs, clock
  <2>4. Control'
    BY SMTT(60), <1>1, <2>1, UnpackWord DEF Control, TypeOK, clock
  <2> QED BY <2>2, <2>3, <2>4
<1>6. CASE IsCommand
  <2>1. CmdFIFOWrite(e, CmdStallQueue) /\ issued' = Append(issued, e)
    BY <1>6 DEF Unpack, e
  <2>2. issued' \in Seq(Commands)
    BY <1>2, <2>1, AppendProperties DEF TypeOK
  <2>3. PICK x, sq : x = e /\ sq = CmdStallQueue
    OBVIOUS
  <2>4. /\ CmdPIPE' \in Seq(Commands) /\ Len(CmdPIPE') <= PIPESize
        /\ CmdFIFO' \in Seq(Commands) /\ Len(CmdFIFO') <= FIFOSize
        /\ CmdFIFO' # <<>> => Len(CmdPIPE') > 2
        /\ Accepts(x, sq) \/ Stalls(x, sq)
    <3>1. CmdFIFOWrite(x, sq) /\ x \in Commands
      BY <1>2, <2>1, <2>3
    <3>2. CmdFIFO # <<>> => Len(CmdPIPE) > 2
      BY DEF Backed
    <3> QED BY <3>1, <3>2, FIFOWriteFacts
  <2>5. CASE Accepts(x, sq)
    <3>1. CmdStallQueue' = CmdStallQueue /\ UNCHANGED <<GXStall, dma>>
          /\ ~IsFull(CmdFIFO, FIFOSize)
      BY <2>3, <2>5 DEF Accepts
    <3>2. CmdStallQueue = <<>> /\ ~GXStall
      BY <1>1, <3>1, Zenon DEF Backed
    <3>3. /\ Counted' /\ BusyBits'
          /\ Busy' \subseteq {"gx", "stack", "test"}
          /\ NumPushPopCommands' \in Nat /\ NumTestCommands' \in Nat
      BY <1>2, <1>3, <1>4, <2>3, <2>5, AcceptedIsCounted
    <3>4. Backed'
      BY <2>4, <3>1, <3>2, Zenon DEF Backed
    <3>5. TypeOK'
      BY SMTT(60), <1>1, <1>2, <2>2, <2>4, <3>1, <3>3 DEF TypeOK, engine, irqs, clock
    <3>6. Control'
      BY SMTT(60), <1>1, <3>1, UnpackWord DEF Control, TypeOK, clock
    <3> QED BY <3>3, <3>4, <3>5, <3>6
  <2>6. CASE Stalls(x, sq)
    <3>1. /\ IsFull(CmdFIFO, FIFOSize) /\ GXFIFOStall
          /\ CmdStallQueue' = Write(CmdStallQueue, StallSize, e)
          /\ UNCHANGED <<CmdPIPE, CmdFIFO, status>>
      BY <2>3, <2>6 DEF Stalls
    <3>2. /\ CmdStallQueue' \in Seq(Commands) /\ Len(CmdStallQueue') <= StallSize
          /\ CmdStallQueue' # <<>>
      BY <1>2, <3>1, StallQueueFacts
    <3>3. /\ GXStall' = TRUE
          /\ dma' \in Channels
          /\ dma'.iter = dma.iter /\ dma'.rem = dma.rem
      <4>1. GXStall' = TRUE
        BY <3>1 DEF GXFIFOStall
      <4>2. PICK b \in BOOLEAN : dma' = [dma EXCEPT !.stall = b]
        <5>1. dma.stall \in BOOLEAN /\ (~GXStall /\ ret = "dma") \in BOOLEAN
          BY Zenon DEF TypeOK, Channels
        <5> QED BY <3>1, <5>1 DEF GXFIFOStall
      <4>3. dma \in Channels
        BY DEF TypeOK
      <4> QED BY ONLY <4>1, <4>2, <4>3 DEF Channels
    <3>4. Backed'
      BY <2>4, <3>1, <3>2, <3>3 DEF Backed, IsFull
    <3>5. Counted'
      BY <1>3, <1>4, <3>1 DEF Counted, status, Count, IsStackCmd, IsTestCmd
    <3>6. BusyBits'
      BY <3>1 DEF BusyBits, status
    <3>7. TypeOK'
      BY <1>1, <1>2, <2>2, <3>1, <3>2, <3>3 DEF TypeOK, status, engine, irqs, clock
    <3>8. Control'
      BY SMTT(60), <1>1, <3>3, UnpackWord DEF Control, TypeOK, clock
    <3> QED BY <3>4, <3>5, <3>6, <3>7, <3>8
  <2> QED BY <2>4, <2>5, <2>6
<1> QED BY <1>5, <1>6

\* CmdFIFORead takes the oldest entry, and the refill of the PIPE changes
\* nothing in the order of the others.
LEMMA ReadFacts ==
  ASSUME TypeOK, Backed, CmdFIFORead
  PROVE  /\ CmdPIPE \o CmdFIFO # <<>>
         /\ entry' = Head(CmdPIPE \o CmdFIFO) /\ entry' \in Commands
         /\ CmdPIPE' \o CmdFIFO' = Tail(CmdPIPE \o CmdFIFO)
         /\ CmdPIPE' \in Seq(Commands) /\ Len(CmdPIPE') <= PIPESize
         /\ CmdFIFO' \in Seq(Commands) /\ Len(CmdFIFO') <= FIFOSize
         /\ CmdFIFO' # <<>> => Len(CmdPIPE') > 2
         /\ pc' \in {"drain", "execute"}
         /\ pc' = "execute" => CmdFIFO' = CmdFIFO
<1> USE QueueTypes
<1>1. CmdPIPE # <<>> /\ entry' = Head(CmdPIPE)
  BY DEF CmdFIFORead
<1>2. /\ Tail(CmdPIPE) \in Seq(Commands) /\ Head(CmdPIPE) \in Commands
      /\ Len(Tail(CmdPIPE)) = Len(CmdPIPE) - 1
  BY <1>1, HeadTailProperties
<1>3. /\ CmdPIPE \o CmdFIFO # <<>>
      /\ Tail(CmdPIPE \o CmdFIFO) = Tail(CmdPIPE) \o CmdFIFO
      /\ Head(CmdPIPE \o CmdFIFO) = Head(CmdPIPE)
  BY <1>1, TailOfConcat
<1>4. CASE Len(CmdPIPE) - 1 <= 2
  <2>1. PICK n : n = Least(2, Len(CmdFIFO))
    OBVIOUS
  <2>2. n \in 0..Len(CmdFIFO) /\ n <= 2 /\ (n # 2 => n = Len(CmdFIFO))
    BY <2>1 DEF Least
  <2>3. PICK a, b : a = SubSeq(CmdFIFO, 1, n) /\ b = SubSeq(CmdFIFO, n + 1, Len(CmdFIFO))
    OBVIOUS
  <2>4. /\ a \in Seq(Commands) /\ b \in Seq(Commands)
        /\ Len(a) = n /\ Len(b) = Len(CmdFIFO) - n /\ a \o b = CmdFIFO
    <3>1. PICK q \in Seq(Commands) : q = CmdFIFO
      OBVIOUS
    <3>2. n \in 0..Len(q) /\ a = SubSeq(q, 1, n) /\ b = SubSeq(q, n + 1, Len(q))
      BY <2>2, <2>3, <3>1, Zenon
    <3> QED BY ONLY <3>1, <3>2, q \in Seq(Commands), CutSeq
  <2>5. CmdPIPE' = Tail(CmdPIPE) \o a /\ CmdFIFO' = b /\ pc' = "drain"
    BY <1>4, <2>1, <2>3 DEF CmdFIFORead
  <2>6. CmdPIPE' \in Seq(Commands) /\ Len(CmdPIPE') = Len(CmdPIPE) - 1 + n
    <3>1. PICK t \in Seq(Commands) : t = Tail(CmdPIPE)
      BY <1>2
    <3>2. t \o a \in Seq(Commands) /\ Len(t \o a) = Len(t) + Len(a)
      BY ONLY <2>4, <3>1, t \in Seq(Commands), ConcatProperties
    <3> QED BY <1>2, <2>4, <2>5, <3>1, <3>2, Zenon
  <2>7. CmdPIPE' \o CmdFIFO' = Tail(CmdPIPE) \o CmdFIFO
    <3>1. PICK t \in Seq(Commands) : t = Tail(CmdPIPE)
      BY <1>2
    <3>2. (t \o a) \o b = t \o (a \o b)
      <4>1. a \in Seq(Commands) /\ b \in Seq(Commands)
        BY <2>4
      <4> QED BY ONLY <4>1, t \in Seq(Commands), ConcatAssociative
    <3> QED BY <2>4, <2>5, <3>1, <3>2, Zenon
  <2>8. Len(CmdPIPE') <= PIPESize /\ Len(CmdFIFO') <= FIFOSize
    BY <1>4, <2>2, <2>4, <2>5, <2>6 DEF PIPESize
  <2>9. CmdFIFO' # <<>> => Len(CmdPIPE') > 2
    <3>1. b # <<>> => Len(b) # 0
      BY <2>4, EmptySeq
    <3>2. b # <<>> => CmdFIFO # <<>> /\ n = 2
      BY <2>2, <2>4, <3>1
    <3>3. CmdFIFO # <<>> => Len(CmdPIPE) > 2
      BY DEF Backed
    <3> QED BY <2>5, <2>6, <3>2, <3>3
  <2> QED BY <1>1, <1>2, <1>3, <2>4, <2>5, <2>6, <2>7, <2>8, <2>9, Zenon
<1>5. CASE ~(Len(CmdPIPE) - 1 <= 2)
  <2>1. CmdPIPE' = Tail(CmdPIPE) /\ CmdFIFO' = CmdFIFO /\ pc' = "execute"
    BY <1>5 DEF CmdFIFORead
  <2>2. Len(CmdPIPE') <= PIPESize /\ Len(CmdPIPE') > 2 /\ Len(CmdFIFO) <= FIFOSize
    BY <1>2, <1>5, <2>1 DEF PIPESize
  <2> QED BY <1>1, <1>2, <1>3, <2>1, <2>2
<1> QED BY <1>4, <1>5

\* GXSTAT bits that are cleared are those of idle units.
LEMMA ClearingIsSafe ==
  ASSUME TypeOK, BusyBits, NEW X \in SUBSET {"gx"},
         Busy' = Busy \ (IdleBits \union X),
         NumPushPopCommands' = NumPushPopCommands, NumTestCommands' = NumTestCommands,
         CmdPIPE' # <<>> => CmdPIPE # <<>> /\ X = {}
  PROVE  BusyBits' /\ Busy' \subseteq {"gx", "stack", "test"}
<1>1. \A b : b \in IdleBits <=> ( \/ b = "stack" /\ NumPushPopCommands = 0
                                  \/ b = "test" /\ NumTestCommands = 0 )
  BY DEF IdleBits
<1>2. Busy' \subseteq {"gx", "stack", "test"}
  BY DEF TypeOK
<1>3. NumPushPopCommands > 0 => NumPushPopCommands # 0 /\ "stack" \in Busy
  BY DEF BusyBits, TypeOK
<1>4. NumTestCommands > 0 => NumTestCommands # 0 /\ "test" \in Busy
  BY DEF BusyBits, TypeOK
<1>5. CmdPIPE # <<>> => "gx" \in Busy
  BY DEF BusyBits
<1> QED BY <1>1, <1>2, <1>3, <1>4, <1>5 DEF BusyBits

LEMMA ReadStep ==
  ASSUME IInv, CmdFIFORead
  PROVE  IInv'
<1> USE DEF IInv
<1>1. /\ pc = "exec" /\ pc' \in {"drain", "execute"}
      /\ UNCHANGED <<CmdStallQueue, GXStall, unpack, NumPushPopCommands,
                     NumTestCommands, ExecParamCount, CycleCount, FlushRequest,
                     GeometryEnabled, irqs, dma, clock, ret, stm>>
  BY DEF CmdFIFORead
<1>2. /\ CmdPIPE \o CmdFIFO # <<>>
      /\ entry' = Head(CmdPIPE \o CmdFIFO) /\ entry' \in Commands
      /\ CmdPIPE' \o CmdFIFO' = Tail(CmdPIPE \o CmdFIFO)
      /\ CmdPIPE' \in Seq(Commands) /\ Len(CmdPIPE') <= PIPESize
      /\ CmdFIFO' \in Seq(Commands) /\ Len(CmdFIFO') <= FIFOSize
      /\ CmdFIFO' # <<>> => Len(CmdPIPE') > 2
      /\ pc' = "execute" => CmdFIFO' = CmdFIFO
  BY ReadFacts
<1>3. BusyBits' /\ Busy' \subseteq {"gx", "stack", "test"}
  <2>1. Busy' = Busy \ (IdleBits \union {}) /\ CmdPIPE # <<>>
    BY DEF CmdFIFORead
  <2>2. PICK X \in SUBSET {"gx"} : X = {}
    OBVIOUS
  <2>3. Busy' = Busy \ (IdleBits \union X)
    BY <2>1, <2>2, Zenon
  <2> QED BY <1>1, <2>1, <2>2, <2>3, ClearingIsSafe
<1>4. Backed'
  BY <1>1, <1>2 DEF Backed, IsFull
<1>5. Counted'
  <2>0. PICK v : v = CmdPIPE' \o CmdFIFO'
    OBVIOUS
  <2>1. PICK w \in Seq(Commands) : w = CmdPIPE \o CmdFIFO
    BY QueueTypes
  <2>2. w # <<>> /\ v = Tail(w) /\ entry' = Head(w)
    BY <1>2, <2>0, <2>1
  <2>3. CountsOf(w)
    BY <2>1, CountedNow
  <2>4. v \in Seq(Commands)
    BY <2>2, HeadTailProperties
  <2>5. /\ Cardinality(At(w, "MTX_PUSH")) = Cardinality(At(v, "MTX_PUSH")) + (IF entry' = "MTX_PUSH" THEN 1 ELSE 0)
        /\ Cardinality(At(w, "POS_TEST")) = Cardinality(At(v, "POS_TEST")) + (IF entry' = "POS_TEST" THEN 1 ELSE 0)
        /\ Cardinality(At(v, "MTX_PUSH")) \in Nat /\ Cardinality(At(v, "POS_TEST")) \in Nat
    BY <2>2, <2>4, CountTail, AtFinite
  <2>6. \A c : /\ Taken(c) = 0
               /\ Taken(c)' = IF entry' = c THEN 1 ELSE 0
    BY <1>1 DEF Taken
  <2>7. CountsOf(v)'
    BY <1>1, <2>3, <2>5, <2>6 DEF CountsOf
  <2> QED BY <2>0, <2>7, CountedNext, Zenon
<1>6. TypeOK'
  BY ZenonT(60), <1>1, <1>2, <1>3 DEF TypeOK, unpack, irqs, clock
<1>7. Control'
  BY <1>1 DEF TypeOK, Control, unpack, clock
<1> QED BY <1>3, <1>4, <1>5, <1>6, <1>7

LEMMA DrainStep ==
  ASSUME IInv, Drain
  PROVE  IInv'
<1> USE DEF IInv
<1> DEFINE e == Head(CmdStallQueue)
<1>1. /\ pc = "drain" /\ CmdStallQueue # <<>> /\ ~IsFull(CmdFIFO, FIFOSize)
      /\ CmdFIFOWrite(e, Tail(CmdStallQueue))
      /\ UNCHANGED <<unpack, engine, irqs, clock, pc, ret, stm>>
  BY DEF Drain, control
<1>2. /\ e \in Commands /\ Tail(CmdStallQueue) \in Seq(Commands)
      /\ Len(Tail(CmdStallQueue)) = Len(CmdStallQueue) - 1
  BY <1>1, QueueTypes, HeadTailProperties
<1> HIDE DEF e
<1>3. PICK x, sq : x = e /\ sq = Tail(CmdStallQueue)
  OBVIOUS
<1>4. /\ CmdPIPE' \in Seq(Commands) /\ Len(CmdPIPE') <= PIPESize
      /\ CmdFIFO' \in Seq(Commands) /\ Len(CmdFIFO') <= FIFOSize
      /\ CmdFIFO' # <<>> => Len(CmdPIPE') > 2
      /\ Accepts(x, sq)
  <2>1. CmdFIFOWrite(x, sq) /\ x \in Commands
    BY <1>1, <1>2, <1>3
  <2>2. CmdFIFO # <<>> => Len(CmdPIPE) > 2
    BY DEF Backed
  <2>3. ~Stalls(x, sq)
    BY <1>1 DEF Stalls
  <2> QED BY <2>1, <2>2, <2>3, FIFOWriteFacts
<1>5. CmdStallQueue' = Tail(CmdStallQueue) /\ UNCHANGED <<GXStall, dma>>
  BY <1>3, <1>4 DEF Accepts
<1>6. /\ Counted' /\ BusyBits'
      /\ Busy' \subseteq {"gx", "stack", "test"}
      /\ NumPushPopCommands' \in Nat /\ NumTestCommands' \in Nat
  <2>1. UNCHANGED <<ExecParamCount, entry>> /\ \A c : Taken(c)' = Taken(c)
    BY <1>1 DEF engine, Taken
  <2> QED BY <1>2, <1>3, <1>4, <2>1, AcceptedIsCounted
<1>7. Backed'
  BY <1>1, <1>4, <1>5 DEF Backed
<1>8. TypeOK'
  <2>1. Len(CmdStallQueue') <= StallSize
    BY <1>2, <1>5, QueueTypes
  <2> QED BY <1>1, <1>2, <1>4, <1>5, <1>6, <2>1 DEF TypeOK, unpack, engine, irqs, clock
<1>9. Control'
  BY <1>1, <1>5 DEF TypeOK, Control, unpack, clock
<1> QED BY <1>6, <1>7, <1>8, <1>9

LEMMA DrainedStep ==
  ASSUME IInv, Drained
  PROVE  IInv'
<1> USE DEF IInv
<1>1. /\ pc = "drain" /\ (CmdStallQueue = <<>> \/ IsFull(CmdFIFO, FIFOSize))
      /\ GXStall' = (GXStall /\ CmdStallQueue # <<>>)
      /\ pc' = "execute"
      /\ UNCHANGED <<CmdPIPE, CmdFIFO, CmdStallQueue, unpack, status, engine,
                     IRQMode, clock, ret, stm>>
  BY DEF Drained
<1>2. /\ dma' \in Channels
      /\ dma'.iter <= dma'.rem
  <2>1. PICK d, lv : d = dma /\ lv = Len(CmdFIFO)
    OBVIOUS
  <2>2. /\ d \in Channels
        /\ d.iter <= d.rem
    BY <2>1 DEF TypeOK, Control
  <2>3. dma' = CheckFIFODMA(d, lv)
    BY <2>1 DEF Drained
  <2> QED BY ONLY <2>2, <2>3, StartFacts
<1>3. irq' \in BOOLEAN /\ GXStall' \in BOOLEAN
  BY <1>1 DEF Drained, FIFOIRQ
<1>4. Backed'
  BY <1>1 DEF Backed, IsFull
<1>5. Counted'
  BY <1>1 DEF Counted, status, engine, Count, IsStackCmd, IsTestCmd, Taken
<1>6. BusyBits'
  BY <1>1 DEF BusyBits, status
<1>7. TypeOK'
  BY <1>1, <1>2, <1>3 DEF TypeOK, unpack, status, engine, clock
<1>8. Control'
  BY <1>1, <1>2 DEF TypeOK, Control, unpack, clock
<1> QED BY <1>4, <1>5, <1>6, <1>7, <1>8

LEMMA ExecuteStep ==
  ASSUME IInv, NEW c \in CmdCycles, ExecuteCommand(c)
  PROVE  IInv'
<1> USE DEF IInv
<1>1. /\ pc = "execute" /\ pc' = "exec"
      /\ UNCHANGED <<queues, unpack, Busy, entry, GeometryEnabled, irqs, dma, clock,
                     ret, stm>>
  BY DEF ExecuteCommand
<1>2. /\ ExecParamCount' \in {0, 1}
      /\ NumPushPopCommands' = NumPushPopCommands - (IF entry = "MTX_PUSH" THEN 1 ELSE 0)
      /\ \/ /\ entry = "POS_TEST" /\ ExecParamCount = 0 /\ ExecParamCount' = 1
            /\ NumTestCommands' = NumTestCommands
         \/ /\ entry = "POS_TEST" /\ ExecParamCount = 1 /\ ExecParamCount' = 0
            /\ NumTestCommands' = NumTestCommands - 2
         \/ /\ entry # "POS_TEST" /\ ExecParamCount' = ExecParamCount
            /\ NumTestCommands' = NumTestCommands
  <2>1. /\ entry \in {"NOP", "MTX_PUSH", "MTX_MODE", "POS_TEST", "SWAP_BUFFERS"}
        /\ CmdNumParams[entry] = IF entry = "POS_TEST" THEN 2
                                 ELSE IF entry \in {"NOP", "MTX_PUSH"} THEN 0 ELSE 1
    BY DEF TypeOK, Commands, CmdNumParams
  <2>2. ExecParamCount \in {0, 1} /\ NumPushPopCommands \in Nat /\ NumTestCommands \in Nat
    BY DEF Counted, TypeOK
  <2>3. CASE entry = "POS_TEST"
    <3>1. /\ ExecParamCount' = IF ExecParamCount + 1 >= 2 THEN 0 ELSE ExecParamCount + 1
          /\ NumTestCommands' = NumTestCommands - (IF ExecParamCount + 1 >= 2 THEN 2 ELSE 0)
          /\ NumPushPopCommands' = NumPushPopCommands
      BY <2>1, <2>3 DEF ExecuteCommand, IsTestCmd
    <3> QED BY ONLY <2>2, <2>3, <3>1
  <2>4. CASE entry # "POS_TEST"
    <3>1. /\ ExecParamCount' = ExecParamCount
          /\ NumTestCommands' = NumTestCommands
          /\ NumPushPopCommands' = NumPushPopCommands - (IF entry = "MTX_PUSH" THEN 1 ELSE 0)
      BY <2>1, <2>4 DEF ExecuteCommand, IsStackCmd
    <3> QED BY ONLY <2>2, <2>4, <3>1
  <2> QED BY <2>3, <2>4
<1>3. PICK w \in Seq(Commands) : w = CmdPIPE \o CmdFIFO
  BY QueueTypes
<1>4. CountsOf(w) /\ w = CmdPIPE' \o CmdFIFO'
  <2>1. w = CmdPIPE' \o CmdFIFO'
    BY <1>1, <1>3 DEF queues
  <2> QED BY <1>3, <2>1, CountedNow
<1>5. /\ Taken("MTX_PUSH") = (IF entry = "MTX_PUSH" THEN 1 ELSE 0)
      /\ Taken("POS_TEST") = (IF entry = "POS_TEST" THEN 1 ELSE 0)
      /\ Taken("MTX_PUSH")' = 0 /\ Taken("POS_TEST")' = 0
  BY <1>1 DEF Taken
<1>6. Cardinality(At(w, "MTX_PUSH")) \in Nat /\ Cardinality(At(w, "POS_TEST")) \in Nat
  BY AtFinite
<1>7. NumPushPopCommands \in Nat /\ NumTestCommands \in Nat
  BY DEF TypeOK
<1>8. /\ CountsOf(w)'
      /\ NumPushPopCommands' \in Nat /\ NumTestCommands' \in Nat
  <2>1. /\ NumPushPopCommands' = Cardinality(At(w, "MTX_PUSH"))
        /\ NumTestCommands' = Cardinality(At(w, "POS_TEST")) + ExecParamCount'
    <3>1. /\ ExecParamCount \in {0, 1}
          /\ NumPushPopCommands = Cardinality(At(w, "MTX_PUSH")) + (IF entry = "MTX_PUSH" THEN 1 ELSE 0)
          /\ NumTestCommands = Cardinality(At(w, "POS_TEST")) + ExecParamCount + (IF entry = "POS_TEST" THEN 1 ELSE 0)
      BY <1>4, <1>5 DEF CountsOf
    <3>2. PICK m \in Nat, k \in Nat :
             m = Cardinality(At(w, "MTX_PUSH")) /\ k = Cardinality(At(w, "POS_TEST"))
      BY <1>6
    <3>3. NumTestCommands' = k + ExecParamCount'
      <4>1. NumTestCommands = k + ExecParamCount + (IF entry = "POS_TEST" THEN 1 ELSE 0)
        BY <3>1, <3>2
      <4> QED BY ONLY <1>2, <3>1, <4>1, k \in Nat
    <3>4. NumPushPopCommands' = m
      BY <1>2, <3>1, <3>2
    <3> QED BY <3>2, <3>3, <3>4, Zenon
  <2> QED BY <1>2, <1>5, <1>6, <2>1 DEF CountsOf
<1>9. Counted'
  BY <1>4, <1>8, CountedNext, Zenon
<1>10. BusyBits'
  <2>1. /\ NumPushPopCommands' > 0 => NumPushPopCommands > 0
        /\ NumTestCommands' > 0 => NumTestCommands > 0
    BY ONLY <1>2, <1>7
  <2> QED BY <1>1, <2>1 DEF BusyBits, queues
<1>11. FlushRequest' \in BOOLEAN /\ CycleCount' \in Int
  <2>1. c \in Int /\ FlushCycles \in Int /\ CycleCount \in Int
    BY GXAssumption DEF TypeOK
  <2> QED BY <2>1 DEF ExecuteCommand
<1>12. TypeOK'
  BY <1>1, <1>2, <1>8, <1>11 DEF TypeOK, queues, unpack, irqs, clock
<1>13. Control'
  BY <1>1 DEF TypeOK, Control, unpack, clock
<1>14. Backed'
  BY <1>1 DEF Backed, queues, IsFull
<1> QED BY <1>9, <1>10, <1>12, <1>13, <1>14

LEMMA RunEndsStep ==
  ASSUME IInv, RunEnds
  PROVE  IInv'
<1> USE DEF IInv
<1>1. /\ pc = "exec" /\ (CycleCount > 0 \/ CmdPIPE = <<>>)
      /\ pc' = IF ret = "arm9" THEN "ended" ELSE "system"
      /\ UNCHANGED <<queues, unpack, NumPushPopCommands, NumTestCommands,
                     ExecParamCount, entry, FlushRequest, GeometryEnabled, irqs, dma,
                     clock, ret, stm>>
  BY DEF RunEnds, Return
<1>2. CycleCount' \in Int
  BY DEF RunEnds, TypeOK
<1>3. BusyBits' /\ Busy' \subseteq {"gx", "stack", "test"}
  <2>1. CASE CycleCount <= 0
    <3>1. PICK X \in SUBSET {"gx"} : Busy' = Busy \ (IdleBits \union X)
      BY <2>1 DEF RunEnds
    <3>2. CmdPIPE' = <<>>
      BY <1>1, <2>1 DEF queues, TypeOK
    <3> QED BY <1>1, <3>1, <3>2, ClearingIsSafe
  <2>2. CASE ~(CycleCount <= 0)
    BY <1>1, <2>2 DEF RunEnds, BusyBits, TypeOK, queues
  <2> QED BY <2>1, <2>2
<1>4. Backed'
  BY <1>1 DEF Backed, queues, IsFull
<1>5. Counted'
  BY <1>1 DEF Counted, queues, Count, IsStackCmd, IsTestCmd, Taken
<1>6. TypeOK'
  BY <1>1, <1>2, <1>3 DEF TypeOK, queues, unpack, irqs, clock
<1>7. Control'
  BY <1>1 DEF TypeOK, Control, unpack, clock
<1> QED BY <1>3, <1>4, <1>5, <1>6, <1>7

-----------------------------------------------------------------------------
(* Theorems                                                                *)

LEMMA InitHolds ==
  ASSUME Init
  PROVE  IInv
<1>1. /\ <<>> \in Seq(Commands) /\ Len(<<>>) = 0
      /\ Len(Program) \in Nat
  BY GXAssumption, EmptySeq, LenProperties
<1>2. "NOP" \in Commands
  BY DEF Commands, CmdNumParams
<1>3. TypeOK
  <2>1. dma \in Channels
    BY DEF Init, IdleDMA, Channels
  <2>2. /\ stm \in 0..MaxSTM /\ left \in 0..Slice /\ since \in Nat /\ toVBlank \in 0..Frame
        /\ packed \in 0..Len(Program)
    BY <1>1, GXAssumption DEF Init
  <2>3. /\ CmdPIPE \in Seq(Commands) /\ Len(CmdPIPE) <= PIPESize
        /\ CmdFIFO \in Seq(Commands) /\ Len(CmdFIFO) <= FIFOSize
        /\ CmdStallQueue \in Seq(Commands) /\ Len(CmdStallQueue) <= StallSize
        /\ CurCommand \in Seq(Commands) /\ issued \in Seq(Commands)
    BY <1>1, GXAssumption DEF Init, PIPESize
  <2>4. /\ GXStall \in BOOLEAN /\ FlushRequest \in BOOLEAN /\ GeometryEnabled \in BOOLEAN
        /\ irq \in BOOLEAN
    BY DEF Init
  <2>5. /\ ParamCount \in Nat /\ NumPushPopCommands \in Nat /\ NumTestCommands \in Nat
        /\ ExecParamCount \in Nat /\ CycleCount \in Int /\ IRQMode \in 0..2
    BY DEF Init
  <2>6. /\ Busy = {} /\ entry \in Commands /\ pc = "iter" /\ ret = "system"
    BY <1>2 DEF Init
  <2> QED BY ONLY <2>1, <2>2, <2>3, <2>4, <2>5, <2>6 DEF TypeOK
<1>4. Control
  BY <1>1, GXAssumption DEF Init, Control, IdleDMA
<1>5. Backed
  BY DEF Init, Backed
<1>6. CmdPIPE \o CmdFIFO = <<>>
  BY <1>1, ConcatEmptySeq DEF Init
<1>7. Counted
  <2>1. \A c : At(<<>>, c) = {}
    BY <1>1 DEF At
  <2>2. CountsOf(<<>>)
    <3>1. \A c : Taken(c) = 0
      BY DEF Init, Taken
    <3>2. \A c : Cardinality(At(<<>>, c)) = 0
      BY <2>1, FS_EmptySet
    <3>3. ExecParamCount = 0 /\ NumPushPopCommands = 0 /\ NumTestCommands = 0
      BY DEF Init
    <3> QED BY <3>1, <3>2, <3>3 DEF CountsOf
  <2> QED BY <1>6, <2>2, CountedNow
<1>8. BusyBits
  BY DEF Init, BusyBits
<1> QED BY <1>3, <1>4, <1>5, <1>7, <1>8 DEF IInv

LEMMA NextHolds ==
  ASSUME IInv, [Next]_vars
  PROVE  IInv'
<1>1. CASE UNCHANGED vars
  <2>1. UNCHANGED <<CmdPIPE, CmdFIFO, CmdStallQueue, GXStall, CurCommand, ParamCount,
                    packed, issued, Busy, NumPushPopCommands, NumTestCommands,
                    ExecParamCount, entry, CycleCount, FlushRequest, GeometryEnabled,
                    IRQMode, irq, dma, left, since, toVBlank, pc, ret, stm>>
    BY <1>1 DEF vars, queues, unpack, status, engine, irqs, clock, control
  <2>2. TypeOK'
    BY <2>1 DEF IInv, TypeOK
  <2>3. Control' /\ Backed' /\ BusyBits'
    BY <2>1 DEF IInv, Control, Backed, BusyBits, IsFull
  <2>4. Counted'
    BY <2>1 DEF IInv, Counted, Count, IsStackCmd, IsTestCmd, Taken
  <2> QED BY <2>2, <2>3, <2>4 DEF IInv
<1>2. CASE Next
  <2>1. CASE TurnStalled \/ TurnRuns \/ System
    BY <2>1, TurnSteps, QuietStep DEF IInv
  <2>2. CASE \/ \E n \in 1..MaxSTM : ARM9Store(n)
             \/ ReadGXSTAT
             \/ \E mode \in 0..2 : WriteGXSTAT(mode)
             \/ AckIRQ
             \/ SetEnabled
             \/ InstructionEnds
    BY <2>2, InstructionSteps, QuietStep DEF IInv
  <2>3. CASE \/ \E n \in DMALengths, gx, repeat \in BOOLEAN : WriteCnt(n, gx, repeat)
             \/ DisableDMA \/ DMAUnit \/ DMAUnitEnds \/ DMARunEnds
    BY <2>3, DMASteps, QuietStep DEF IInv
  <2>4. CASE Word \/ Run
    BY <2>4, WordAndRun, QuietStep DEF IInv
  <2>5. CASE \E c \in CmdCycles : ExecuteCommand(c)
    BY <2>5, ExecuteStep
  <2> QED BY <1>2, <2>1, <2>2, <2>3, <2>4, <2>5, UnpackStep, ReadStep, DrainStep,
             DrainedStep, RunEndsStep DEF Next
<1> QED BY <1>1, <1>2

\* Every step of RunFrame, of an instruction, of a DMA unit and of the engine
\* keeps types, control, the order of filling and the counters of GXSTAT.
THEOREM Invariance == Spec => []IInv
<1>1. Init => IInv
  BY InitHolds
<1>2. IInv /\ [Next]_vars => IInv'
  BY NextHolds
<1> QED BY <1>1, <1>2, PTL DEF Spec

\* The queues are filled from the front and the system is stalled exactly
\* while the stall queue holds an entry, for every size of the queues.
THEOREM QueuesAreBacked == Spec => []QueuesBacked
<1>1. IInv => QueuesBacked
  BY DEF IInv, Backed, QueuesBacked, Between
<1> QED BY <1>1, Invariance, PTL

\* GXSTAT never reports an idle matrix stack, test unit or engine while an
\* entry that keeps it busy waits, and its counters never drift.
THEOREM StatusIsTrue == Spec => []StatusTrue
<1>1. IInv => StatusTrue
  <2> SUFFICES ASSUME IInv, Between PROVE StatusTrue
    BY DEF StatusTrue
  <2>1. Taken("MTX_PUSH") = 0 /\ Taken("POS_TEST") = 0
    BY DEF Taken, Between
  <2>2. Counted /\ BusyBits /\ NumPushPopCommands \in Nat /\ NumTestCommands \in Nat
    BY DEF IInv, TypeOK
  <2>3. PICK w \in Seq(Commands) : w = CmdPIPE \o CmdFIFO
    BY QueueTypes DEF IInv
  <2>4. CountsOf(w)
    BY <2>2, <2>3, CountedNow
  <2>5. /\ Cardinality(At(w, "MTX_PUSH")) = Count(CmdPIPE \o CmdFIFO, IsStackCmd)
        /\ Cardinality(At(w, "POS_TEST")) = Count(CmdPIPE \o CmdFIFO, IsTestCmd)
    BY <2>3 DEF Count, IsStackCmd, IsTestCmd, At
  <2>6. Cardinality(At(w, "MTX_PUSH")) \in Nat /\ Cardinality(At(w, "POS_TEST")) \in Nat
    BY AtFinite
  <2>7. /\ NumPushPopCommands = Cardinality(At(w, "MTX_PUSH"))
        /\ NumTestCommands = Cardinality(At(w, "POS_TEST")) + ExecParamCount
    BY <2>1, <2>4, <2>6 DEF CountsOf
  <2> QED BY <2>2, <2>5, <2>7 DEF StatusTrue, BusyBits
<1> QED BY <1>1, Invariance, PTL

-----------------------------------------------------------------------------
(* The refinement                                                          *)

\* An entry that is submitted joins the end of the queue, or finds the FIFO and
\* the stall queue full behind a PIPE of three or four entries.
LEMMA SubmitJoins ==
  ASSUME IInv, IInv', Unpack, IsCommand
  PROVE  \/ Pending' = Append(Pending, Head(CurCommand))
         \/ Pending' = Pending /\ Len(Pending) >= Capacity
<1>1. PICK e, sq : e = Head(CurCommand) /\ sq = CmdStallQueue
  OBVIOUS
<1>2. e \in Commands /\ CmdFIFOWrite(e, sq) /\ pc = "unpack" /\ Len(CurCommand) \in Nat \ {0}
  <2>1. CurCommand # <<>> /\ CurCommand \in Seq(Commands)
    BY UnpackWord DEF IInv, TypeOK
  <2>2. Len(CurCommand) \in Nat \ {0}
    BY <2>1, EmptySeq, LenProperties
  <2> QED BY <1>1, <2>2, UnpackWord DEF Unpack, IInv
<1>3. /\ CmdPIPE \o CmdFIFO \in Seq(Commands) /\ CmdStallQueue \in Seq(Commands)
      /\ Len(CmdStallQueue) \in Nat
  BY QueueTypes DEF IInv
<1>4. CASE Accepts(e, sq)
  <2>1. CmdStallQueue = <<>> /\ CmdStallQueue' = <<>>
    BY <1>1, <1>2, <1>4 DEF Accepts, IInv, Backed
  <2>2. CmdPIPE' \o CmdFIFO' = Append(CmdPIPE \o CmdFIFO, e)
    BY <1>4 DEF Accepts
  <2>3. PICK w \in Seq(Commands) : w = CmdPIPE \o CmdFIFO
    BY <1>3
  <2>4. w \o <<>> = w /\ Append(w, e) \o <<>> = Append(w, e)
    BY <1>2, ConcatEmptySeq, AppendProperties
  <2>5. Pending = w \o <<>> /\ Pending' = Append(w, e) \o <<>>
    BY <2>1, <2>2, <2>3 DEF Pending
  <2> QED BY <1>1, <2>4, <2>5
<1>5. CASE Stalls(e, sq)
  <2>1. PICK w \in Seq(Commands), q \in Seq(Commands) : w = CmdPIPE \o CmdFIFO /\ q = CmdStallQueue
    BY <1>3
  <2>2. UNCHANGED <<CmdPIPE, CmdFIFO>> /\ CmdStallQueue' = Write(q, StallSize, e)
    BY <1>1, <1>5, <2>1 DEF Stalls
  <2>3. CASE ~IsFull(q, StallSize)
    <3>1. w \o Append(q, e) = Append(w \o q, e)
      BY <1>2, AppendToLast
    <3>2. Pending = w \o q /\ Pending' = w \o Append(q, e)
      BY <2>1, <2>2, <2>3 DEF Pending, Write
    <3> QED BY <1>1, <3>1, <3>2
  <2>4. CASE IsFull(q, StallSize)
    <3>1. Pending = w \o q /\ Pending' = w \o q
      BY <2>1, <2>2, <2>4 DEF Pending, Write
    <3>2. /\ CmdPIPE \in Seq(Commands) /\ CmdFIFO \in Seq(Commands)
          /\ Len(CmdPIPE) \in Nat /\ Len(CmdFIFO) \in Nat
          /\ FIFOSize \in Nat /\ FIFOSize >= 4 /\ StallSize \in Nat
      BY LenProperties, GXAssumption DEF IInv, TypeOK
    <3>3. Len(CmdFIFO) >= FIFOSize
      BY <1>5 DEF Stalls, IsFull
    <3>4. Len(CmdPIPE) >= 3
      <4>1. CmdFIFO # <<>>
        BY <3>2, <3>3, EmptySeq
      <4> QED BY <3>2, <4>1 DEF IInv, Backed
    <3>5. Len(w) = Len(CmdPIPE) + Len(CmdFIFO) /\ Len(w \o q) = Len(w) + Len(q)
      BY <2>1, <3>2, ConcatProperties
    <3>6. Len(q) \in Nat /\ Len(q) >= StallSize
      BY <2>4, LenProperties DEF IsFull
    <3>7. Len(w \o q) >= FIFOSize + StallSize + 3
      BY ONLY <3>2, <3>3, <3>4, <3>5, <3>6
    <3> QED BY <3>1, <3>7 DEF Capacity
  <2> QED BY <2>3, <2>4
<1> QED BY <1>2, <1>4, <1>5, FIFOWriteFacts DEF IInv, Backed

\* The engine takes the first entry of the queue.
LEMMA ReadTakesFirst ==
  ASSUME IInv, CmdFIFORead
  PROVE  Pending # <<>> /\ Pending' = Tail(Pending)
<1>1. /\ CmdPIPE \o CmdFIFO # <<>>
      /\ CmdPIPE' \o CmdFIFO' = Tail(CmdPIPE \o CmdFIFO)
  BY ReadFacts DEF IInv
<1>2. CmdStallQueue' = CmdStallQueue
  BY DEF CmdFIFORead
<1>3. PICK w \in Seq(Commands), q \in Seq(Commands) : w = CmdPIPE \o CmdFIFO /\ q = CmdStallQueue
  BY QueueTypes DEF IInv
<1>4. w \o q # <<>> /\ Tail(w \o q) = Tail(w) \o q
  BY <1>1, <1>3, TailOfConcat
<1> QED BY <1>1, <1>2, <1>3, <1>4 DEF Pending

\* Draining the stall queue changes nothing in the order of the entries.
LEMMA DrainKeepsOrder ==
  ASSUME IInv, Drain
  PROVE  Pending' = Pending
<1>1. PICK w \in Seq(Commands), q \in Seq(Commands) : w = CmdPIPE \o CmdFIFO /\ q = CmdStallQueue
  BY QueueTypes DEF IInv
<1>2. q # <<>> /\ ~IsFull(CmdFIFO, FIFOSize) /\ CmdFIFOWrite(Head(q), Tail(q))
  BY <1>1 DEF Drain
<1>3. Head(q) \in Commands
  BY <1>2, HeadTailProperties
<1>4. Accepts(Head(q), Tail(q))
  <2>0. PICK sq : sq = Tail(q)
    OBVIOUS
  <2>1. PICK e \in Commands : e = Head(q)
    BY <1>3
  <2>2. Accepts(e, sq) \/ Stalls(e, sq)
    BY <1>2, <2>0, <2>1, FIFOWriteFacts DEF IInv, Backed
  <2> QED BY <1>2, <2>0, <2>1, <2>2 DEF Stalls
<1>5. CmdPIPE' \o CmdFIFO' = Append(w, Head(q)) /\ CmdStallQueue' = Tail(q)
  BY <1>1, <1>4 DEF Accepts
<1>6. w \o q = Append(w, Head(q)) \o Tail(q)
  BY <1>2, HeadMovesUp
<1> QED BY <1>1, <1>5, <1>6 DEF Pending

\* The PIPE, the FIFO and the stall queue are one first-in first-out queue,
\* for every size of the FIFO and of the stall queue (the 256 and 64 entries
\* of the console too): entries are neither doubled nor overtaken, and none is
\* lost unless FIFOSize + StallSize + 3 entries wait already.
THEOREM QueuesAreOneQueue == Spec => QueueSpec
<1>1. Init => Queue!Init
  <2> SUFFICES ASSUME Init PROVE Queue!Init
    OBVIOUS
  <2>1. Pending = <<>>
    BY ConcatEmptySeq, EmptySeq DEF Init, Pending
  <2> QED BY <2>1 DEF Init, Queue!Init
<1>2. IInv /\ IInv' /\ [Next]_vars => [Queue!Next]_Queue!qvars
  <2> SUFFICES ASSUME IInv, IInv', [Next]_vars
               PROVE  [Queue!Next]_Queue!qvars
    OBVIOUS
  <2>1. CASE Unpack /\ IsCommand
    <3>1. Head(CurCommand) \in Commands /\ issued' = Append(issued, Head(CurCommand))
      BY <2>1, UnpackWord DEF Unpack, IInv
    <3>2. \/ Pending' = Append(Pending, Head(CurCommand))
          \/ Pending' = Pending /\ Len(Pending) >= Capacity
      BY <2>1, SubmitJoins
    <3> QED BY <3>1, <3>2 DEF Queue!Next, Queue!Submit, Queue!Lose
  <2>2. CASE CmdFIFORead
    <3>1. issued' = issued
      BY <2>2 DEF CmdFIFORead, unpack
    <3> QED BY <2>2, <3>1, ReadTakesFirst DEF Queue!Next, Queue!Execute
  <2>3. CASE Drain
    <3>1. issued' = issued
      BY <2>3 DEF Drain, unpack
    <3> QED BY <2>3, <3>1, DrainKeepsOrder DEF Queue!qvars
  <2>4. CASE UNCHANGED <<CmdPIPE, CmdFIFO, CmdStallQueue, issued>>
    <3>1. Pending' = Pending /\ issued' = issued
      BY <2>4 DEF Pending
    <3> QED BY <3>1 DEF Queue!qvars
  <2>5. CASE Next
    <3>1. CASE Quiet
      BY <2>4, <3>1 DEF Quiet, queues
    <3>2. CASE ~Quiet
      <4>1. \/ Unpack \/ CmdFIFORead \/ Drain \/ Drained
            \/ \E c \in CmdCycles : ExecuteCommand(c)
            \/ RunEnds
        BY <2>5, <3>2, TurnSteps, InstructionSteps, DMASteps, WordAndRun DEF Next, IInv
      <4>2. CASE Unpack /\ ~IsCommand
        BY <2>4, <4>2 DEF Unpack, queues
      <4>3. CASE Drained \/ (\E c \in CmdCycles : ExecuteCommand(c)) \/ RunEnds
        BY <2>4, <4>3 DEF Drained, ExecuteCommand, RunEnds, queues, unpack
      <4> QED BY <2>1, <2>2, <2>3, <4>1, <4>2, <4>3
    <3> QED BY <3>1, <3>2
  <2>6. CASE UNCHANGED vars
    BY <2>4, <2>6 DEF vars, queues, unpack
  <2> QED BY <2>5, <2>6
<1> QED BY <1>1, <1>2, Invariance, PTL DEF Spec, QueueSpec, Queue!Spec

-----------------------------------------------------------------------------
(* Induction, and what FlattenSeq computes                                 *)

\* Induction over the naturals, for a set.
LEMMA SetInduction ==
  ASSUME NEW S, S \subseteq Nat, 0 \in S, \A n \in S : n + 1 \in S
  PROVE  S = Nat
<1> DEFINE T == Nat \ S
           R == {ss \in Nat \X Nat : ss[1] < ss[2]}
<1>1. SUFFICES ASSUME T # {} PROVE FALSE
  OBVIOUS
<1>2. IsWellFoundedOn(R, Nat)
  BY NatLessThanWellFounded DEF OpToRel
<1>3. T \subseteq Nat
  OBVIOUS
<1>4. \E x \in T : \A y \in T : ~(<<y, x>> \in R)
  <2> HIDE DEF T, R
  <2> QED BY <1>1, <1>2, <1>3, WFMin
<1>5. PICK x \in T : \A y \in T : ~(<<y, x>> \in R)
  BY <1>4
<1>6. x \in Nat \ {0}
  OBVIOUS
<1>7. x - 1 \in Nat /\ <<x - 1, x>> \in R
  BY <1>6
<1>8. x - 1 \in S
  BY <1>5, <1>7
<1>9. (x - 1) + 1 \in S
  BY <1>8
<1> QED BY <1>6, <1>9

\* A solution of the equation by which FlattenSeq is defined.
Flattens(f, s, n) ==
    f = [i \in 1..n |-> IF i = 1 THEN s[i] ELSE f[i - 1] \o s[i]]

\* A solution for n elements is continued to n + 1.
LEMMA FlattensNext ==
  ASSUME NEW s, NEW n \in Nat, NEW f, Flattens(f, s, n)
  PROVE  \E g : Flattens(g, s, n + 1)
<1> DEFINE last == IF n = 0 THEN s[n + 1] ELSE f[n] \o s[n + 1]
           g == [i \in 1..(n + 1) |-> IF i = n + 1 THEN last ELSE f[i]]
<1>1. ASSUME NEW i \in 1..(n + 1)
      PROVE  g[i] = IF i = 1 THEN s[i] ELSE g[i - 1] \o s[i]
  <2>1. CASE i = n + 1
    <3>1. CASE n = 0
      BY <2>1, <3>1
    <3>2. CASE n > 0
      <4>1. g[i] = f[n] \o s[n + 1]
        <5>1. g[i] = last
          <6> HIDE DEF last
          <6> QED BY <2>1
        <5>2. last = f[n] \o s[n + 1]
          <6>1. n # 0
            BY <3>2
          <6> QED BY <6>1, Zenon
        <5> QED BY <5>1, <5>2, Zenon
      <4>2. g[i - 1] = f[n]
        BY <2>1, <3>2
      <4> QED BY <2>1, <3>2, <4>1, <4>2
    <3> QED BY <3>1, <3>2
  <2>2. CASE i # n + 1
    <3>1. i \in 1..n
      BY <2>2
    <3>2. f[i] = IF i = 1 THEN s[i] ELSE f[i - 1] \o s[i]
      BY <3>1 DEF Flattens
    <3>3. g[i] = f[i] /\ (i # 1 => g[i - 1] = f[i - 1])
      BY <2>2, <3>1
    <3> QED BY <3>2, <3>3
  <2> QED BY <2>1, <2>2
<1>2. g = [i \in 1..(n + 1) |-> g[i]]
  OBVIOUS
<1>3. Flattens(g, s, n + 1)
  <2> HIDE DEF g
  <2> QED BY <1>1, <1>2 DEF Flattens
<1> QED BY <1>3

\* The equation has a solution, however long the sequence is, ...
LEMMA FlattensExists ==
  ASSUME NEW s, NEW n \in Nat
  PROVE  \E f : Flattens(f, s, n)
<1> DEFINE S == {m \in Nat : \E f : Flattens(f, s, m)}
<1>1. 0 \in S
  <2>1. Flattens([i \in 1..0 |-> s[i]], s, 0)
    BY DEF Flattens
  <2> QED BY <2>1
<1>2. \A m \in S : m + 1 \in S
  BY FlattensNext
<1>3. S = Nat
  <2> HIDE DEF S
  <2>1. S \subseteq Nat
    BY DEF S
  <2> QED BY <1>1, <1>2, <2>1, SetInduction
<1> QED BY <1>3

\* Two functions agree up to n.
Agree(s, t, n) == \A i \in 1..n : s[i] = t[i]

\* ... and only one, which the elements behind do not change.
LEMMA FlattensUnique ==
  ASSUME NEW s, NEW t, NEW n \in Nat, NEW m \in Nat, n <= m, Agree(s, t, n),
         NEW f, NEW g, Flattens(f, s, n), Flattens(g, t, m)
  PROVE  Agree(f, g, n)
<1> DEFINE S == {k \in Nat : k \in 1..n => f[k] = g[k]}
<1>1. 0 \in S
  OBVIOUS
<1>2. ASSUME NEW k \in S PROVE k + 1 \in S
  <2>1. SUFFICES ASSUME k + 1 \in 1..n PROVE f[k + 1] = g[k + 1]
    OBVIOUS
  <2>2. f[k + 1] = IF k + 1 = 1 THEN s[k + 1] ELSE f[(k + 1) - 1] \o s[k + 1]
    BY <2>1 DEF Flattens
  <2>3. g[k + 1] = IF k + 1 = 1 THEN t[k + 1] ELSE g[(k + 1) - 1] \o t[k + 1]
    <3>1. k + 1 \in 1..m
      BY <2>1
    <3> QED BY <3>1 DEF Flattens
  <2>4. s[k + 1] = t[k + 1] /\ (k + 1) - 1 = k
    BY <2>1 DEF Agree
  <2>5. k + 1 # 1 => f[k] = g[k]
    BY <2>1
  <2> QED BY <2>2, <2>3, <2>4, <2>5
<1>3. S = Nat
  <2> HIDE DEF S
  <2>1. S \subseteq Nat
    BY DEF S
  <2> QED BY <1>1, <1>2, <2>1, SetInduction
<1> QED BY <1>3 DEF Agree

\* FlattenSeq is the last value of that solution.
LEMMA FlattenSeqIs ==
  ASSUME NEW s, Len(s) \in Nat \ {0}
  PROVE  \E f : Flattens(f, s, Len(s)) /\ FlattenSeq(s) = f[Len(s)]
<1>1. PICK n \in Nat \ {0} : n = Len(s)
  OBVIOUS
<1> DEFINE P(f) == f = [i \in 1..n |-> IF i = 1 THEN s[i] ELSE f[i - 1] \o s[i]]
           h == CHOOSE f : P(f)
<1>2. \E f : P(f)
  BY FlattensExists DEF Flattens
<1>3. P(h)
  <2> HIDE DEF P
  <2> QED BY <1>2
<1>4. FlattenSeq(s) = h[n]
  BY <1>1 DEF FlattenSeq
<1>5. Flattens(h, s, n)
  BY <1>3 DEF Flattens
<1> QED BY <1>1, <1>4, <1>5

\* What FlattenSeq returns is a sequence of the elements, ...
LEMMA FlattenSeqType ==
  ASSUME NEW S, NEW s \in Seq(Seq(S))
  PROVE  FlattenSeq(s) \in Seq(S)
<1>1. PICK n \in Nat : n = Len(s)
  OBVIOUS
<1>2. CASE n = 0
  <2>1. s = <<>>
    BY <1>1, <1>2, EmptySeq
  <2>2. FlattenSeq(s) = s
    BY <1>1, <1>2, Zenon DEF FlattenSeq
  <2> QED BY <2>1, <2>2, EmptySeq
<1>3. CASE n # 0
  <2>1. PICK f : Flattens(f, s, n) /\ FlattenSeq(s) = f[n]
    BY <1>1, <1>3, FlattenSeqIs
  <2> DEFINE K == {k \in Nat : k \in 1..n => f[k] \in Seq(S)}
  <2>2. 0 \in K
    OBVIOUS
  <2>3. ASSUME NEW k \in K PROVE k + 1 \in K
    <3>1. SUFFICES ASSUME k + 1 \in 1..n PROVE f[k + 1] \in Seq(S)
      OBVIOUS
    <3>2. f[k + 1] = IF k + 1 = 1 THEN s[k + 1] ELSE f[(k + 1) - 1] \o s[k + 1]
      BY <2>1, <3>1 DEF Flattens
    <3>3. (k + 1) - 1 = k /\ s[k + 1] \in Seq(S)
      BY <1>1, <3>1
    <3>4. k + 1 # 1 => f[k] \in Seq(S)
      BY <3>1
    <3> QED BY <3>2, <3>3, <3>4, ConcatProperties
  <2>4. K = Nat
    <3> HIDE DEF K
    <3>1. K \subseteq Nat
      BY DEF K
    <3> QED BY <2>2, <2>3, <3>1, SetInduction
  <2> QED BY <1>3, <2>1, <2>4
<1> QED BY <1>2, <1>3

\* ... and one more sequence at the end is one more at the end of the result.
LEMMA FlattenSeqAppend ==
  ASSUME NEW S, NEW s \in Seq(Seq(S)), NEW x \in Seq(S)
  PROVE  FlattenSeq(Append(s, x)) = FlattenSeq(s) \o x
<1>1. PICK n \in Nat : n = Len(s)
  OBVIOUS
<1>2. PICK t \in Seq(Seq(S)) : t = Append(s, x)
  BY AppendProperties
<1>3. Len(t) = n + 1 /\ t[n + 1] = x /\ \A i \in 1..n : s[i] = t[i]
  BY <1>1, <1>2
<1>0. PICK m \in Nat \ {0} : m = n + 1
  OBVIOUS
<1>4. PICK g : Flattens(g, t, m) /\ FlattenSeq(t) = g[m]
  BY <1>0, <1>3, FlattenSeqIs
<1>5. g[m] = IF m = 1 THEN x ELSE g[n] \o x
  <2>1. g[m] = IF m = 1 THEN t[m] ELSE g[m - 1] \o t[m]
    <3>1. m \in 1..m
      OBVIOUS
    <3> QED BY <1>4, <3>1 DEF Flattens
  <2>2. m - 1 = n /\ t[m] = x
    BY <1>0, <1>3
  <2> QED BY <2>1, <2>2
<1>6. CASE n = 0
  <2>1. s = <<>>
    BY <1>1, <1>6, EmptySeq
  <2>2. FlattenSeq(s) = s
    BY <1>1, <1>6, Zenon DEF FlattenSeq
  <2>3. g[m] = x
    BY <1>0, <1>5, <1>6
  <2> QED BY <1>2, <1>4, <2>1, <2>2, <2>3, ConcatEmptySeq
<1>7. CASE n # 0
  <2>1. PICK f : Flattens(f, s, n) /\ FlattenSeq(s) = f[n]
    BY <1>1, <1>7, FlattenSeqIs
  <2>2. Agree(f, g, n)
    <3>1. n <= m
      BY <1>0
    <3>2. m \in Nat /\ Agree(s, t, n)
      BY <1>3 DEF Agree
    <3>3. Flattens(f, s, n) /\ Flattens(g, t, m)
      BY <1>4, <2>1
    <3> QED BY <3>1, <3>2, <3>3, FlattensUnique
  <2>3. f[n] = g[n] /\ m # 1
    <3>1. n \in 1..n /\ m # 1
      BY <1>0, <1>7
    <3> QED BY <2>2, <3>1, Zenon DEF Agree
  <2> QED BY <1>2, <1>4, <1>5, <2>1, <2>3
<1> QED BY <1>6, <1>7

\* The same, for the first elements of a sequence of sequences.
Upto(e, n) == [i \in 1..n |-> e[i]]

LEMMA FlattenUpto ==
  ASSUME NEW S, NEW N \in Nat, NEW e \in [1..N -> Seq(S)], NEW n \in Nat, n < N
  PROVE  /\ FlattenSeq(Upto(e, n + 1)) = FlattenSeq(Upto(e, n)) \o e[n + 1]
         /\ FlattenSeq(Upto(e, n)) \in Seq(S)
<1>1. PICK s \in Seq(Seq(S)) : s = Upto(e, n) /\ Len(s) = n /\ \A i \in 1..n : s[i] = e[i]
  <2>1. \A i \in 1..n : e[i] \in Seq(S)
    OBVIOUS
  <2>2. Upto(e, n) \in Seq(Seq(S))
    BY <2>1, IsASeq DEF Upto
  <2>3. Len(Upto(e, n)) = n /\ \A i \in 1..n : Upto(e, n)[i] = e[i]
    BY <2>1, IsASeq DEF Upto
  <2> QED BY <2>2, <2>3, Zenon
<1>2. PICK t \in Seq(Seq(S)) : t = Upto(e, n + 1) /\ Len(t) = n + 1 /\ \A i \in 1..(n + 1) : t[i] = e[i]
  <2>1. \A i \in 1..(n + 1) : e[i] \in Seq(S)
    OBVIOUS
  <2>2. Upto(e, n + 1) \in Seq(Seq(S))
    BY <2>1, IsASeq DEF Upto
  <2>3. Len(Upto(e, n + 1)) = n + 1 /\ \A i \in 1..(n + 1) : Upto(e, n + 1)[i] = e[i]
    BY <2>1, IsASeq DEF Upto
  <2> QED BY <2>2, <2>3, Zenon
<1>3. PICK x \in Seq(S) : x = e[n + 1]
  OBVIOUS
<1>4. PICK u \in Seq(Seq(S)) : u = Append(s, x)
  BY AppendProperties
<1>5. Len(u) = n + 1 /\ u[n + 1] = x /\ \A i \in 1..n : u[i] = s[i]
  BY <1>1, <1>4, AppendProperties
<1>6. t = u
  <2>1. \A i \in 1..(n + 1) : t[i] = u[i]
    BY <1>1, <1>2, <1>3, <1>5
  <2> QED BY <1>2, <1>5, <2>1, SeqEqual
<1>7. FlattenSeq(Append(s, x)) = FlattenSeq(s) \o x
  BY FlattenSeqAppend
<1>8. FlattenSeq(s) \in Seq(S)
  BY FlattenSeqType
<1> QED BY <1>1, <1>2, <1>3, <1>4, <1>6, <1>7, <1>8, Zenon

-----------------------------------------------------------------------------
(* The entries of a packed word                                            *)

\* The entries of command i of a word, and of all its commands.
Part(w, i) == IF i \in 1..Len(w) /\ w[i] # "NOP" THEN EntriesOf(w[i]) ELSE <<>>
Parts(w) == ((Part(w, 1) \o Part(w, 2)) \o Part(w, 3)) \o Part(w, 4)

AllNOP(w) == Len(w) = 4 /\ \A i \in 1..4 : w[i] = "NOP"

Times(c, k) == [i \in 1..k |-> c]

\* The entries that the commands w of a word still bring, if k of those of the
\* first are to come.
RestOf(w, k) ==
    IF w = <<>> THEN <<>>
    ELSE IF AllNOP(w) THEN <<"NOP">>
    ELSE (IF Head(w) = "NOP" THEN <<>> ELSE Times(Head(w), k)) \o Parts(Tail(w))

\* The entries of a command, and those of the first command of the current
\* word that have not been given to CmdFIFOWrite.
Full(c) == IF CmdNumParams[c] = 0 THEN 1 ELSE CmdNumParams[c]

ToCome ==
    IF CmdNumParams[Head(CurCommand)] = 0 THEN 1
    ELSE CmdNumParams[Head(CurCommand)] - (IF pc = "unpack" THEN ParamCount - 1 ELSE ParamCount)

\* What has been given to CmdFIFOWrite, followed by what the current word still
\* brings, is what the packed words written so far stand for; and the loop is
\* entered exactly when a command has no parameters or one of them arrived.
Parsed ==
    /\ issued \o RestOf(CurCommand, ToCome) = Stream(packed)
    /\ CurCommand # <<>> =>
         IF pc = "unpack"
         THEN \/ CmdNumParams[Head(CurCommand)] = 0 /\ ParamCount = 0
              \/ ParamCount \in 1..CmdNumParams[Head(CurCommand)]
         ELSE ParamCount < CmdNumParams[Head(CurCommand)]

\* The commands and their numbers of parameters.
LEMMA CommandFacts ==
  /\ Commands = {"NOP", "MTX_PUSH", "MTX_MODE", "POS_TEST", "SWAP_BUFFERS"}
  /\ \A c \in Commands : CmdNumParams[c] \in 0..2
  /\ CmdNumParams["NOP"] = 0
BY DEF Commands, CmdNumParams

\* The same entry k times.
LEMMA TimesFacts ==
  ASSUME NEW c \in Commands, NEW k \in Nat
  PROVE  /\ Times(c, k) \in Seq(Commands) /\ Len(Times(c, k)) = k
         /\ k = 0 => Times(c, k) = <<>>
         /\ k > 0 => Times(c, k) = <<c>> \o Times(c, k - 1)
<1>1. Times(c, k) \in Seq(Commands) /\ Len(Times(c, k)) = k
  BY DEF Times
<1>2. k = 0 => Times(c, k) = <<>>
  BY <1>1, EmptySeq
<1>3. ASSUME k > 0 PROVE Times(c, k) = <<c>> \o Times(c, k - 1)
  <2>1. PICK m \in Nat : m = k - 1
    BY <1>3
  <2>2. Times(c, m) \in Seq(Commands) /\ Len(Times(c, m)) = m /\ \A i \in 1..m : Times(c, m)[i] = c
    BY DEF Times
  <2>3. PICK t \in Seq(Commands) : t = Times(c, m)
    BY <2>2
  <2>4. PICK u \in Seq(Commands) : u = <<c>> \o t
    <3>1. <<c>> \in Seq(Commands)
      OBVIOUS
    <3> QED BY <3>1, ConcatProperties
  <2>5. Len(u) = k /\ \A i \in 1..k : u[i] = c
    BY <2>1, <2>2, <2>3, <2>4
  <2>6. \A i \in 1..k : Times(c, k)[i] = c
    BY DEF Times
  <2>7. Times(c, k) = u
    BY <1>1, <2>5, <2>6, SeqEqual
  <2> QED BY <2>1, <2>3, <2>4, <2>7
<1> QED BY <1>1, <1>2, <1>3

\* A command stands for one entry or for two.
LEMMA EntriesOfIs ==
  ASSUME NEW c \in Commands
  PROVE  /\ EntriesOf(c) = Times(c, Full(c)) /\ EntriesOf(c) \in Seq(Commands)
         /\ Full(c) \in 1..2
<1>1. Full(c) \in 1..2
  BY CommandFacts DEF Full
<1>2. EntriesOf(c) = Times(c, Full(c))
  BY DEF EntriesOf, Times, Full
<1>3. Full(c) \in Nat
  BY <1>1
<1> QED BY <1>1, <1>2, <1>3, TimesFacts

\* The entries of a word are entries.
LEMMA PartsFacts ==
  ASSUME NEW w \in Seq(Commands)
  PROVE  /\ \A i \in Nat : Part(w, i) \in Seq(Commands)
         /\ Parts(w) \in Seq(Commands)
<1>1. ASSUME NEW i \in Nat PROVE Part(w, i) \in Seq(Commands)
  <2>1. CASE i \in 1..Len(w) /\ w[i] # "NOP"
    <3>1. w[i] \in Commands
      BY <2>1
    <3> QED BY <2>1, <3>1, EntriesOfIs DEF Part
  <2>2. CASE ~(i \in 1..Len(w) /\ w[i] # "NOP")
    BY <2>2, EmptySeq, Zenon DEF Part
  <2> QED BY <2>1, <2>2
<1>2. Part(w, 1) \in Seq(Commands) /\ Part(w, 2) \in Seq(Commands) /\ Part(w, 3) \in Seq(Commands) /\ Part(w, 4) \in Seq(Commands)
  BY <1>1
<1>3. Part(w, 1) \o Part(w, 2) \in Seq(Commands)
  BY <1>2, ConcatProperties
<1>4. (Part(w, 1) \o Part(w, 2)) \o Part(w, 3) \in Seq(Commands)
  BY <1>2, <1>3, ConcatProperties
<1>5. Parts(w) \in Seq(Commands)
  BY <1>2, <1>4, ConcatProperties DEF Parts
<1> QED BY <1>1, <1>5

\* Moving the parentheses of four sequences in a row.
Regroups(a, b, x, y) == ((a \o b) \o x) \o y = a \o (((b \o x) \o y) \o <<>>)

LEMMA Regroup ==
  ASSUME NEW S, NEW a, NEW b, NEW x, NEW y,
         a \in Seq(S), b \in Seq(S), x \in Seq(S), y \in Seq(S)
  PROVE  Regroups(a, b, x, y)
<1>1. b \o x \in Seq(S) /\ (b \o x) \o y \in Seq(S)
  BY ConcatProperties
<1>2. (a \o b) \o x = a \o (b \o x)
  BY ONLY a \in Seq(S), b \in Seq(S), x \in Seq(S), ConcatAssociative
<1>3. (a \o (b \o x)) \o y = a \o ((b \o x) \o y)
  <2>1. PICK z : z \in Seq(S) /\ z = b \o x
    BY <1>1
  <2>2. (a \o z) \o y = a \o (z \o y)
    <3>1. z \in Seq(S)
      BY <2>1
    <3> QED BY ONLY a \in Seq(S), <3>1, y \in Seq(S), ConcatAssociative
  <2> QED BY <2>1, <2>2, Zenon
<1>4. ((b \o x) \o y) \o <<>> = (b \o x) \o y
  BY <1>1, ConcatEmptySeq
<1> QED BY <1>2, <1>3, <1>4, Zenon DEF Regroups

\* The entries of a word are those of its first command and of the others.
LEMMA PartsFirst ==
  ASSUME NEW w \in Seq(Commands), Len(w) \in 1..4
  PROVE  Parts(w) = Part(w, 1) \o Parts(Tail(w))
<1>1. PICK t \in Seq(Commands) : t = Tail(w)
  <2>1. w # <<>>
    BY SMTT(60), EmptySeq
  <2> QED BY <2>1, HeadTailProperties
<1>2. Len(t) = Len(w) - 1 /\ \A i \in 1..(Len(w) - 1) : t[i] = w[i + 1]
  BY <1>1, EmptySeq, HeadTailProperties
<1>3. ASSUME NEW i \in 1..3 PROVE Part(t, i) = Part(w, i + 1)
  <2>1. i \in 1..Len(t) <=> i + 1 \in 1..Len(w)
    BY <1>2
  <2>2. i \in 1..Len(t) => t[i] = w[i + 1]
    BY <1>2
  <2> QED BY <2>1, <2>2, Zenon DEF Part
<1>4. Part(t, 4) = <<>>
  <2>1. 4 \notin 1..Len(t)
    BY <1>2
  <2> QED BY <2>1, Zenon DEF Part
<1>5. Part(t, 1) = Part(w, 2) /\ Part(t, 2) = Part(w, 3) /\ Part(t, 3) = Part(w, 4)
  <2>1. Part(t, 1) = Part(w, 1 + 1) /\ Part(t, 2) = Part(w, 2 + 1) /\ Part(t, 3) = Part(w, 3 + 1)
    BY <1>3
  <2>2. 1 + 1 = 2 /\ 2 + 1 = 3 /\ 3 + 1 = 4
    OBVIOUS
  <2> QED BY <2>1, <2>2
<1>6. PICK a, b, x, y :
         a = Part(w, 1) /\ b = Part(w, 2) /\ x = Part(w, 3) /\ y = Part(w, 4)
  OBVIOUS
<1>10. a \in Seq(Commands) /\ b \in Seq(Commands) /\ x \in Seq(Commands) /\ y \in Seq(Commands)
  BY <1>6, PartsFacts
<1>7. Parts(w) = ((a \o b) \o x) \o y
  BY <1>6, Zenon DEF Parts
<1>8. Parts(t) = ((b \o x) \o y) \o <<>>
  BY <1>4, <1>5, <1>6, Zenon DEF Parts
<1>9. ((a \o b) \o x) \o y = a \o (((b \o x) \o y) \o <<>>)
  <2>1. Regroups(a, b, x, y)
    BY <1>10, Regroup, Zenon
  <2> QED BY <2>1, Zenon DEF Regroups
<1> QED BY <1>1, <1>6, <1>7, <1>8, <1>9, Zenon

\* What a word still brings, by the first of its commands.
LEMMA RestBegins ==
  ASSUME NEW w \in Seq(Commands), Len(w) \in 1..3
  PROVE  RestOf(w, Full(Head(w))) = Parts(w)
<1>0. w # <<>>
  <2>1. Len(w) # 0
    OBVIOUS
  <2> QED BY <2>1, EmptySeq
<1>1. w # <<>> /\ Len(w) # 4 /\ 1 \in 1..Len(w)
  BY <1>0
<1>2. Head(w) = w[1] /\ Head(w) \in Commands
  BY <1>1, HeadTailProperties
<1>3. Parts(w) = Part(w, 1) \o Parts(Tail(w))
  <2>1. Len(w) \in 1..4
    OBVIOUS
  <2> QED BY <2>1, PartsFirst
<1>4. Part(w, 1) = IF Head(w) = "NOP" THEN <<>> ELSE Times(Head(w), Full(Head(w)))
  BY <1>1, <1>2, EntriesOfIs, Zenon DEF Part
<1> QED BY <1>1, <1>3, <1>4, Zenon DEF RestOf, AllNOP

\* Flattening four sequences.
LEMMA FlattenFour ==
  ASSUME NEW S, NEW e \in [1..4 -> Seq(S)]
  PROVE  FlattenSeq(e) = ((e[1] \o e[2]) \o e[3]) \o e[4]
<1>1. Upto(e, 4) = e /\ Upto(e, 0) = <<>>
  BY DEF Upto
<1>2. FlattenSeq(<<>>) = <<>>
  BY EmptySeq, Zenon DEF FlattenSeq
<1>3. ASSUME NEW n \in 0..3
      PROVE  FlattenSeq(Upto(e, n + 1)) = FlattenSeq(Upto(e, n)) \o e[n + 1]
  <2>1. 4 \in Nat /\ n \in Nat /\ n < 4
    OBVIOUS
  <2> QED BY <2>1, FlattenUpto
<1>4. 0 + 1 = 1 /\ 1 + 1 = 2 /\ 2 + 1 = 3 /\ 3 + 1 = 4
  OBVIOUS
<1>5. FlattenSeq(Upto(e, 0 + 1)) = FlattenSeq(Upto(e, 0)) \o e[0 + 1]
  BY <1>3
<1>6. FlattenSeq(Upto(e, 1 + 1)) = FlattenSeq(Upto(e, 1)) \o e[1 + 1]
  BY <1>3
<1>7. FlattenSeq(Upto(e, 2 + 1)) = FlattenSeq(Upto(e, 2)) \o e[2 + 1]
  BY <1>3
<1>8. FlattenSeq(Upto(e, 3 + 1)) = FlattenSeq(Upto(e, 3)) \o e[3 + 1]
  BY <1>3
<1>9. <<>> \o e[1] = e[1]
  BY ConcatEmptySeq
<1> QED BY <1>1, <1>2, <1>4, <1>5, <1>6, <1>7, <1>8, <1>9, Zenon

\* A whole word brings the entries it stands for.
LEMMA RestIsEntries ==
  ASSUME NEW w \in Seq(Commands), Len(w) = 4
  PROVE  RestOf(w, Full(Head(w))) = Entries(w) /\ Entries(w) \in Seq(Commands)
<1>1. w # <<>> /\ 1 \in 1..Len(w) /\ Len(w) \in 1..4
  BY EmptySeq
<1>2. Head(w) = w[1] /\ Head(w) \in Commands
  BY <1>1, HeadTailProperties
<1>3. CASE AllNOP(w)
  <2>1. Entries(w) = <<"NOP">>
    BY <1>3, Zenon DEF AllNOP, Entries
  <2>2. <<"NOP">> \in Seq(Commands)
    BY CommandFacts
  <2> QED BY <1>1, <1>3, <2>1, <2>2, Zenon DEF RestOf
<1>4. CASE ~AllNOP(w)
  <2>1. RestOf(w, Full(Head(w))) = Parts(w)
    <3>1. Parts(w) = Part(w, 1) \o Parts(Tail(w))
      BY <1>1, PartsFirst
    <3>2. Part(w, 1) = IF Head(w) = "NOP" THEN <<>> ELSE Times(Head(w), Full(Head(w)))
      BY <1>1, <1>2, EntriesOfIs, Zenon DEF Part
    <3> QED BY <1>1, <1>4, <3>1, <3>2, Zenon DEF RestOf
  <2>2. Entries(w) = FlattenSeq([i \in 1..4 |-> IF w[i] = "NOP" THEN <<>> ELSE EntriesOf(w[i])])
    BY <1>4, Zenon DEF AllNOP, Entries
  <2>3. [i \in 1..4 |-> IF w[i] = "NOP" THEN <<>> ELSE EntriesOf(w[i])] = [i \in 1..4 |-> Part(w, i)]
    <3>1. \A i \in 1..4 : Part(w, i) = IF w[i] = "NOP" THEN <<>> ELSE EntriesOf(w[i])
      BY Zenon DEF Part
    <3> QED BY <3>1, Zenon
  <2>4. FlattenSeq([i \in 1..4 |-> Part(w, i)]) = Parts(w)
    <3>1. PICK e : e = [i \in 1..4 |-> Part(w, i)]
      OBVIOUS
    <3>2. e \in [1..4 -> Seq(Commands)]
      BY <3>1, PartsFacts
    <3>3. e[1] = Part(w, 1) /\ e[2] = Part(w, 2) /\ e[3] = Part(w, 3) /\ e[4] = Part(w, 4)
      BY <3>1
    <3>4. FlattenSeq(e) = ((e[1] \o e[2]) \o e[3]) \o e[4]
      BY <3>2, FlattenFour
    <3> QED BY <3>1, <3>3, <3>4, Zenon DEF Parts
  <2>5. Parts(w) \in Seq(Commands)
    BY PartsFacts
  <2> QED BY <2>1, <2>2, <2>3, <2>4, <2>5, Zenon
<1> QED BY <1>3, <1>4

\* One entry of the first command is given to CmdFIFOWrite, more follow.
LEMMA RestShrinks ==
  ASSUME NEW w \in Seq(Commands), Len(w) \in 1..4, NEW k \in Nat, k > 1,
         Head(w) # "NOP"
  PROVE  /\ RestOf(w, k) = <<Head(w)>> \o RestOf(w, k - 1)
         /\ RestOf(w, k - 1) \in Seq(Commands)
<1>1. w # <<>> /\ 1 \in 1..4
  BY EmptySeq
<1>2. Head(w) = w[1] /\ Head(w) \in Commands /\ Tail(w) \in Seq(Commands)
  BY <1>1, HeadTailProperties
<1>3. ~AllNOP(w)
  BY <1>1, <1>2, Zenon DEF AllNOP
<1>4. PICK m \in Nat : m = k - 1
  OBVIOUS
<1>5. PICK p, s, z : p = Parts(Tail(w)) /\ s = Times(Head(w), m) /\ z = <<Head(w)>>
  OBVIOUS
<1>6. p \in Seq(Commands) /\ s \in Seq(Commands) /\ z \in Seq(Commands)
  <2>1. Parts(Tail(w)) \in Seq(Commands)
    BY <1>2, PartsFacts
  <2>2. Times(Head(w), m) \in Seq(Commands)
    BY <1>2, TimesFacts
  <2>3. <<Head(w)>> \in Seq(Commands)
    BY <1>2
  <2> QED BY <1>5, <2>1, <2>2, <2>3, Zenon
<1>7. Times(Head(w), k) = z \o s
  <2>1. PICK c \in Commands : c = Head(w)
    BY <1>2
  <2>2. Times(c, k) = <<c>> \o Times(c, k - 1)
    <3>1. k > 0
      OBVIOUS
    <3> QED BY <3>1, TimesFacts
  <2> QED BY <1>4, <1>5, <2>1, <2>2, Zenon
<1>8. (z \o s) \o p = z \o (s \o p)
  BY ONLY SMTT(60), <1>6, ConcatAssociative
<1>9. RestOf(w, k) = (z \o s) \o p
  BY <1>1, <1>3, <1>5, <1>7, Zenon DEF RestOf
<1>10. RestOf(w, m) = s \o p
  BY <1>1, <1>3, <1>5, Zenon DEF RestOf
<1>11. s \o p \in Seq(Commands)
  BY ONLY <1>6, ConcatProperties
<1> QED BY <1>4, <1>5, <1>8, <1>9, <1>10, <1>11, Zenon

\* The last entry of the first command.
LEMMA RestOfLast ==
  ASSUME NEW w \in Seq(Commands), Len(w) \in 1..4,
         Head(w) # "NOP" \/ AllNOP(w)
  PROVE  /\ RestOf(w, 1) = <<Head(w)>> \o Parts(Tail(w))
<1>1. w # <<>> /\ 1 \in 1..4
  BY EmptySeq
<1>2. Head(w) = w[1] /\ Head(w) \in Commands /\ Tail(w) \in Seq(Commands)
  BY <1>1, HeadTailProperties
<1>3. CASE AllNOP(w)
  <2>1. Head(w) = "NOP"
    BY <1>1, <1>2, <1>3, Zenon DEF AllNOP
  <2>2. PICK t \in Seq(Commands) : t = Tail(w)
    BY <1>2
  <2>3. Len(t) = 3 /\ \A i \in 1..3 : t[i] = "NOP"
    <3>1. Len(w) = 4 /\ \A i \in 1..4 : w[i] = "NOP"
      BY <1>3, Zenon DEF AllNOP
    <3>2. Len(t) = Len(w) - 1 /\ \A i \in 1..(Len(w) - 1) : t[i] = w[i + 1]
      BY <1>1, <2>2, HeadTailProperties
    <3>3. Len(t) = 3
      BY <3>1, <3>2
    <3>4. ASSUME NEW i \in 1..3 PROVE t[i] = "NOP"
      BY <3>1, <3>2
    <3> QED BY <3>3, <3>4
  <2>4. \A i \in 1..4 : Part(t, i) = <<>>
    BY <2>3 DEF Part
  <2>5. Parts(t) = <<>>
    <3>1. Part(t, 1) = <<>> /\ Part(t, 2) = <<>> /\ Part(t, 3) = <<>> /\ Part(t, 4) = <<>>
      BY <2>4
    <3>2. (<<>> \o <<>>) = <<>>
      BY ConcatEmptySeq, EmptySeq
    <3> QED BY <3>1, <3>2, Zenon DEF Parts
  <2>6. <<"NOP">> \o <<>> = <<"NOP">>
    OBVIOUS
  <2> QED BY <1>1, <1>3, <2>1, <2>2, <2>5, <2>6, Zenon DEF RestOf
<1>4. CASE ~AllNOP(w)
  <2>1. Times(Head(w), 1) = <<Head(w)>>
    BY <1>2 DEF Times
  <2> QED BY <1>1, <1>4, <2>1, Zenon DEF RestOf
<1> QED BY <1>3, <1>4

\* Padding.
LEMMA RestOfPadding ==
  ASSUME NEW w \in Seq(Commands), Len(w) \in 1..4, Head(w) = "NOP", ~AllNOP(w), NEW k
  PROVE  RestOf(w, k) = Parts(Tail(w))
<1>1. w # <<>>
  BY EmptySeq
<1>2. Tail(w) \in Seq(Commands)
  BY <1>1, HeadTailProperties
<1>3. <<>> \o Parts(Tail(w)) = Parts(Tail(w))
  BY <1>2, PartsFacts, ConcatEmptySeq
<1> QED BY <1>1, <1>3, Zenon DEF RestOf

-----------------------------------------------------------------------------
(* The stream of entries, word by word                                     *)

\* A packed word has four commands.
LEMMA WordFacts ==
  ASSUME NEW i \in 1..Len(Program)
  PROVE  /\ Program[i] \in Seq(Commands) /\ Len(Program[i]) = 4
         /\ Entries(Program[i]) \in Seq(Commands)
<1>1. PICK w : w = Program[i]
  OBVIOUS
<1>2. w \in [1..4 -> Commands]
  BY <1>1, GXAssumption, ElementOfSeq
<1>3. w \in Seq(Commands) /\ Len(w) = 4
  <2>1. w = [k \in 1..4 |-> w[k]]
    BY <1>2
  <2>2. \A k \in 1..4 : w[k] \in Commands
    BY <1>2
  <2>3. [k \in 1..4 |-> w[k]] \in Seq(Commands)
    BY <2>2, IsASeq
  <2>4. Len([k \in 1..4 |-> w[k]]) = 4
    BY <2>2, IsASeq
  <2> QED BY <2>1, <2>3, <2>4, Zenon
<1> QED BY <1>1, <1>3, RestIsEntries

\* One more word brings its entries after the others.
LEMMA StreamNext ==
  ASSUME NEW n \in Nat, n < Len(Program)
  PROVE  /\ Stream(n + 1) = Stream(n) \o Entries(Program[n + 1])
         /\ Stream(n) \in Seq(Commands)
<1>1. PICK N \in Nat : N = Len(Program)
  BY GXAssumption, LenProperties
<1>2. PICK e : e = [i \in 1..N |-> Entries(Program[i])]
  OBVIOUS
<1>3. e \in [1..N -> Seq(Commands)]
  BY <1>1, <1>2, WordFacts
<1>4. /\ FlattenSeq(Upto(e, n + 1)) = FlattenSeq(Upto(e, n)) \o e[n + 1]
      /\ FlattenSeq(Upto(e, n)) \in Seq(Commands)
  BY <1>1, <1>3, FlattenUpto
<1>5. [i \in 1..n |-> Entries(Program[i])] = Upto(e, n)
  <2>1. \A i \in 1..n : e[i] = Entries(Program[i])
    BY <1>1, <1>2
  <2> QED BY <2>1, Zenon DEF Upto
<1>6. [i \in 1..(n + 1) |-> Entries(Program[i])] = Upto(e, n + 1)
  <2>1. \A i \in 1..(n + 1) : e[i] = Entries(Program[i])
    BY <1>1, <1>2
  <2> QED BY <2>1, Zenon DEF Upto
<1>7. e[n + 1] = Entries(Program[n + 1])
  BY <1>1, <1>2
<1> QED BY <1>4, <1>5, <1>6, <1>7, Zenon DEF Stream

\* Whatever the number of words, the stream is a sequence of entries.
LEMMA StreamType ==
  ASSUME NEW n \in 0..Len(Program)
  PROVE  Stream(n) \in Seq(Commands)
<1>1. PICK N \in Nat : N = Len(Program)
  BY GXAssumption, LenProperties
<1>2. CASE n = 0
  <2>1. [i \in 1..0 |-> Entries(Program[i])] = <<>>
    OBVIOUS
  <2>2. FlattenSeq(<<>>) = <<>>
    BY EmptySeq, Zenon DEF FlattenSeq
  <2>3. Stream(0) = <<>>
    BY <2>1, <2>2, Zenon DEF Stream
  <2> QED BY <1>2, <2>3, EmptySeq
<1>3. CASE n > 0
  <2>1. PICK m \in Nat : m = n - 1 /\ m + 1 = n /\ m < Len(Program)
    BY <1>1, <1>3
  <2>2. Stream(m + 1) = Stream(m) \o Entries(Program[m + 1]) /\ Stream(m) \in Seq(Commands)
    BY <2>1, StreamNext
  <2>3. Entries(Program[n]) \in Seq(Commands)
    BY <1>1, <1>3, WordFacts
  <2>4. PICK s, e : s = Stream(m) /\ e = Entries(Program[n])
    OBVIOUS
  <2>5. s \o e \in Seq(Commands)
    BY <2>2, <2>3, <2>4, ConcatProperties
  <2> QED BY <2>1, <2>2, <2>4, <2>5, Zenon
<1> QED BY <1>1, <1>2, <1>3

\* What the first n words bring begins what more words bring.
Extends(t, s) == \E x \in Seq(Commands) : t = s \o x

LEMMA StreamExtends ==
  ASSUME NEW n \in 0..Len(Program)
  PROVE  Extends(Stream(Len(Program)), Stream(n))
<1>1. PICK N \in Nat : N = Len(Program)
  BY GXAssumption, LenProperties
<1>2. n \in Nat /\ n <= N
  BY <1>1
<1>3. PICK s \in Seq(Commands) : s = Stream(n)
  BY StreamType
<1> DEFINE K == {k \in Nat : n + k <= N => Extends(Stream(n + k), s)}
<1>4. 0 \in K
  <2>1. s = s \o <<>> /\ <<>> \in Seq(Commands)
    BY ConcatEmptySeq, EmptySeq
  <2>2. Extends(s, s)
    BY <2>1, Zenon DEF Extends
  <2>3. n + 0 = n
    BY <1>2
  <2> QED BY <1>3, <2>2, <2>3
<1>5. ASSUME NEW k \in K PROVE k + 1 \in K
  <2>1. SUFFICES ASSUME n + (k + 1) <= N PROVE Extends(Stream(n + (k + 1)), s)
    OBVIOUS
  <2>2. PICK m \in Nat : m = n + k
    BY <1>2
  <2>3. n + (k + 1) = m + 1 /\ m < N /\ n + k <= N
    BY <1>2, <2>1, <2>2
  <2>4. Extends(Stream(m), s)
    BY <2>2, <2>3
  <2>5. PICK x : x \in Seq(Commands) /\ Stream(m) = s \o x
    BY <2>4 DEF Extends
  <2>6. PICK y : y \in Seq(Commands) /\ y = Entries(Program[m + 1])
    BY <1>1, <2>3, WordFacts
  <2>7. Stream(m + 1) = Stream(m) \o y
    BY <1>1, <2>3, <2>6, StreamNext
  <2>8. (s \o x) \o y = s \o (x \o y) /\ x \o y \in Seq(Commands)
    <3>1. s \in Seq(Commands) /\ x \in Seq(Commands) /\ y \in Seq(Commands)
      BY <2>5, <2>6
    <3>2. (s \o x) \o y = s \o (x \o y)
      BY ONLY <3>1, ConcatAssociative
    <3>3. x \o y \in Seq(Commands)
      BY ONLY <3>1, ConcatProperties
    <3> QED BY <3>2, <3>3
  <2>9. Stream(m + 1) = s \o (x \o y)
    BY <2>5, <2>7, <2>8, Zenon
  <2> QED BY <2>3, <2>8, <2>9 DEF Extends
<1>6. K = Nat
  <2> HIDE DEF K
  <2>1. K \subseteq Nat
    BY DEF K
  <2> QED BY <1>4, <1>5, <2>1, SetInduction
<1>7. PICK k \in Nat : n + k = N
  BY <1>2
<1>8. k \in K
  BY <1>6
<1> QED BY <1>1, <1>3, <1>7, <1>8

-----------------------------------------------------------------------------
(* The steps of WriteToGXFIFO                                              *)

\* Nothing has been written and nothing is to come.
LEMMA ParsedInit ==
  ASSUME Init
  PROVE  Parsed
<1>1. CurCommand = <<>> /\ issued = <<>> /\ packed = 0
  BY DEF Init
<1>2. RestOf(CurCommand, ToCome) = <<>>
  BY <1>1, Zenon DEF RestOf
<1>3. [i \in 1..0 |-> Entries(Program[i])] = <<>>
  OBVIOUS
<1>4. FlattenSeq(<<>>) = <<>>
  BY EmptySeq, Zenon DEF FlattenSeq
<1>5. Stream(0) = <<>>
  BY <1>3, <1>4, Zenon DEF Stream
<1>6. <<>> \o <<>> = <<>>
  BY ConcatEmptySeq, EmptySeq
<1> QED BY <1>1, <1>2, <1>5, <1>6, Zenon DEF Parsed

\* Every step but those of WriteToGXFIFO.
LEMMA ParsedElsewhere ==
  ASSUME Parsed, UNCHANGED unpack, pc # "unpack", pc' # "unpack"
  PROVE  Parsed'
<1>1. UNCHANGED <<CurCommand, ParamCount, packed, issued>>
  BY DEF unpack
<1>2. ToCome' = ToCome
  BY <1>1, Zenon DEF ToCome
<1> QED BY <1>1, <1>2, Zenon DEF Parsed, Stream

\* They are the steps that leave the current word alone.
LEMMA OtherSteps ==
  ASSUME Next, ~Word, ~Unpack
  PROVE  UNCHANGED unpack /\ pc # "unpack" /\ pc' # "unpack"
<1>1. CASE TurnStalled \/ TurnRuns \/ System
  BY <1>1 DEF TurnStalled, TurnRuns, System
<1>2. CASE ReadGXSTAT \/ AckIRQ \/ SetEnabled \/ InstructionEnds
  BY <1>2 DEF ReadGXSTAT, AckIRQ, SetEnabled, InstructionEnds, InARM9
<1>3. CASE DisableDMA \/ DMAUnit \/ DMAUnitEnds \/ DMARunEnds
  BY <1>3 DEF DisableDMA, InARM9, DMAUnit, DMAUnitEnds, DMARunEnds
<1>4. CASE Run \/ CmdFIFORead \/ Drain \/ Drained \/ RunEnds
  BY <1>4 DEF Run, Return, CmdFIFORead, Drain, control, Drained, RunEnds
<1>5. CASE \E n \in 1..MaxSTM : ARM9Store(n)
  BY <1>5 DEF ARM9Store, InARM9
<1>6. CASE \E mode \in 0..2 : WriteGXSTAT(mode)
  BY <1>6 DEF WriteGXSTAT, InARM9
<1>7. CASE \E n \in DMALengths, gx, repeat \in BOOLEAN : WriteCnt(n, gx, repeat)
  BY <1>7 DEF WriteCnt, InARM9
<1>8. CASE \E c \in CmdCycles : ExecuteCommand(c)
  BY <1>8 DEF ExecuteCommand
<1> QED BY <1>1, <1>2, <1>3, <1>4, <1>5, <1>6, <1>7, <1>8 DEF Next

\* A packed word, or a parameter of the current command, arrives.
LEMMA ParsedWord ==
  ASSUME TypeOK, Control, Parsed, Word
  PROVE  Parsed'
<1>1. pc = "word" /\ issued' = issued
  BY DEF Word
<1>2. PICK N \in Nat : N = Len(Program)
  BY GXAssumption, LenProperties
<1>3. CASE pc' = "ended" /\ UNCHANGED <<CurCommand, ParamCount, packed>>
  BY <1>1, <1>3, ParsedElsewhere DEF unpack
<1>4. CASE /\ GeometryEnabled /\ NumCommands = 0 /\ packed < Len(Program)
           /\ CurCommand' = Program[packed + 1]
           /\ ParamCount' = 0
           /\ packed' = packed + 1
           /\ pc' = IF CmdNumParams[CurCommand'[1]] > 0 THEN "ended" ELSE "unpack"
  <2>1. CurCommand = <<>>
    BY <1>4, EmptySeq DEF NumCommands, TypeOK
  <2>2. issued = Stream(packed)
    <3>1. RestOf(CurCommand, ToCome) = <<>>
      BY <2>1, Zenon DEF RestOf
    <3>2. issued \o <<>> = Stream(packed)
      BY <3>1, Zenon DEF Parsed
    <3>3. issued \o <<>> = issued
      BY ConcatEmptySeq DEF TypeOK
    <3> QED BY <3>2, <3>3, Zenon
  <2>3. PICK p \in Nat : p = packed /\ p < N
    BY <1>2, <1>4 DEF TypeOK
  <2>4. PICK w : w = Program[p + 1]
    OBVIOUS
  <2>5. w \in Seq(Commands) /\ Len(w) = 4
    BY <1>2, <2>3, <2>4, WordFacts
  <2>6. w # <<>> /\ Head(w) = w[1] /\ Head(w) \in Commands
    <3>1. w # <<>>
      <4>1. Len(<<>>) = 0
        BY EmptySeq
      <4> QED BY <2>5, <4>1
    <3> QED BY <2>5, <3>1, HeadTailProperties
  <2>7. CurCommand' = w /\ packed' = p + 1
    BY <1>4, <2>3, <2>4
  <2>8. PICK n \in 0..2 : n = CmdNumParams[Head(w)]
    BY <2>6, CommandFacts
  <2>9. pc' = IF n > 0 THEN "ended" ELSE "unpack"
    BY <1>4, <2>6, <2>7, <2>8, Zenon
  <2>10. ToCome' = Full(Head(w))
    <3>1. CASE n = 0
      BY <2>7, <2>8, <3>1, Zenon DEF ToCome, Full
    <3>2. CASE n # 0
      <4>1. pc' # "unpack"
        BY <2>9, <3>2
      <4>2. ToCome' = n - 0
        BY <1>4, <2>7, <2>8, <3>2, <4>1, Zenon DEF ToCome
      <4>3. n - 0 = n
        OBVIOUS
      <4> QED BY <2>8, <3>2, <4>2, <4>3, Zenon DEF Full
    <3> QED BY <3>1, <3>2
  <2>11. RestOf(w, Full(Head(w))) = Entries(w)
    BY <2>5, RestIsEntries
  <2>12. Stream(p + 1) = Stream(p) \o Entries(Program[p + 1])
    BY <1>2, <2>3, StreamNext
  <2>13. (issued \o RestOf(CurCommand, ToCome) = Stream(packed))'
    BY <1>1, <2>2, <2>3, <2>4, <2>7, <2>10, <2>11, <2>12, Zenon DEF Stream
  <2>14. n > 0 => 0 < n
    OBVIOUS
  <2>15. ~(n > 0) => n = 0
    OBVIOUS
  <2> QED BY <1>4, <2>7, <2>8, <2>9, <2>13, <2>14, <2>15, Zenon DEF Parsed
<1>5. CASE /\ GeometryEnabled /\ NumCommands > 0
           /\ ParamCount' = ParamCount + 1
           /\ pc' = "unpack"
           /\ UNCHANGED <<CurCommand, packed>>
  <2>1. CurCommand # <<>> /\ CurCommand \in Seq(Commands) /\ ParamCount \in Nat
    BY <1>5, EmptySeq DEF NumCommands, TypeOK
  <2>2. PICK n \in 0..2 : n = CmdNumParams[Head(CurCommand)]
    BY <2>1, HeadTailProperties, CommandFacts
  <2>3. PICK k \in Nat : k = ParamCount
    BY <2>1
  <2>4. k < n
    BY <1>1, <2>1, <2>2, <2>3 DEF Parsed
  <2>5. n # 0 /\ k + 1 \in 1..n /\ n - ((k + 1) - 1) = n - k
    BY <2>4
  <2>6. ToCome = n - k
    BY <1>1, <2>2, <2>3, <2>5, Zenon DEF ToCome
  <2>7. ToCome' = n - ((k + 1) - 1)
    BY <1>5, <2>2, <2>3, <2>5, Zenon DEF ToCome
  <2>8. (issued \o RestOf(CurCommand, ToCome) = Stream(packed))'
    BY <1>1, <1>5, <2>5, <2>6, <2>7, Zenon DEF Parsed, Stream
  <2> QED BY <1>5, <2>2, <2>3, <2>5, <2>8, Zenon DEF Parsed
<1> QED BY <1>3, <1>4, <1>5 DEF Word

\* The first of the sequences behind s becomes its last element.
LEMMA FirstMovesUp ==
  ASSUME NEW s, NEW h, NEW r, s \in Seq(Commands), h \in Commands, r \in Seq(Commands)
  PROVE  s \o (<<h>> \o r) = Append(s, h) \o r
<1>0. <<h>> \in Seq(Commands)
  OBVIOUS
<1>1. PICK o : o = <<h>> /\ o \in Seq(Commands)
  BY <1>0, Zenon
<1>2. (s \o o) \o r = s \o (o \o r)
  BY ONLY <1>1, s \in Seq(Commands), r \in Seq(Commands), ConcatAssociative
<1>3. Append(s, h) = s \o <<h>>
  BY AppendIsConcat
<1> QED BY <1>1, <1>2, <1>3, Zenon

\* What is to come is a sequence of entries.
LEMMA RestType ==
  ASSUME NEW w \in Seq(Commands), NEW k \in Nat
  PROVE  RestOf(w, k) \in Seq(Commands)
<1>1. CASE w = <<>>
  <2>1. RestOf(w, k) = <<>>
    BY <1>1, Zenon DEF RestOf
  <2> QED BY <2>1, EmptySeq
<1>2. CASE w # <<>> /\ AllNOP(w)
  <2>1. RestOf(w, k) = <<"NOP">>
    BY <1>2, Zenon DEF RestOf
  <2>2. <<"NOP">> \in Seq(Commands)
    BY CommandFacts
  <2> QED BY <2>1, <2>2, Zenon
<1>3. CASE w # <<>> /\ ~AllNOP(w)
  <2>1. Head(w) \in Commands /\ Tail(w) \in Seq(Commands)
    BY <1>3, HeadTailProperties
  <2>2. PICK a, b : /\ a = (IF Head(w) = "NOP" THEN <<>> ELSE Times(Head(w), k))
                    /\ b = Parts(Tail(w))
    OBVIOUS
  <2>3. a \in Seq(Commands)
    BY <2>1, <2>2, TimesFacts, EmptySeq
  <2>4. b \in Seq(Commands)
    BY <2>1, <2>2, PartsFacts
  <2>5. a \o b \in Seq(Commands)
    BY ONLY <2>3, <2>4, ConcatProperties
  <2>6. RestOf(w, k) = a \o b
    BY <1>3, <2>2, Zenon DEF RestOf
  <2> QED BY <2>5, <2>6, Zenon
<1> QED BY <1>1, <1>2, <1>3

\* One turn of the unpacking loop.
LEMMA ParsedUnpack ==
  ASSUME TypeOK, Control, Parsed, Unpack
  PROVE  Parsed'
<1>1. PICK w \in Seq(Commands) : w = CurCommand
  BY DEF TypeOK
<1>2. w # <<>> /\ Len(w) \in 1..4
  <2>1. w # <<>> /\ Len(w) <= 4
    BY <1>1 DEF Unpack, Control
  <2>2. Len(w) \in Nat /\ Len(w) # 0
    BY <2>1, EmptySeq, LenProperties
  <2>3. PICK l \in Nat : l = Len(w)
    BY <2>2
  <2>4. l \in 1..4
    BY <2>1, <2>2, <2>3
  <2> QED BY <2>1, <2>3, <2>4, Zenon
<1>3. PICK h \in Commands : h = Head(w)
  BY <1>2, HeadTailProperties
<1>4. PICK t \in Seq(Commands) : t = Tail(w)
  BY <1>2, HeadTailProperties
<1>5. Len(t) = Len(w) - 1 /\ \A i \in 1..(Len(w) - 1) : t[i] = w[i + 1]
  BY <1>2, <1>4, HeadTailProperties
<1>6. PICK n \in 0..2 : n = CmdNumParams[h] /\ (h = "NOP" => n = 0)
  BY CommandFacts
<1>7. PICK k \in Nat : k = ParamCount
  BY DEF TypeOK
<1>8. pc = "unpack" /\ ((n = 0 /\ k = 0) \/ k \in 1..n) /\ packed' = packed
  <2>1. pc = "unpack" /\ packed' = packed
    BY DEF Unpack
  <2>2. CurCommand # <<>>
    BY <1>1, <1>2
  <2> QED BY <1>1, <1>3, <1>6, <1>7, <2>1, <2>2, Zenon DEF Parsed
<1>9. PICK m \in Nat \ {0} : m = IF n = 0 THEN 1 ELSE n - (k - 1)
  <2>1. CASE n = 0
    BY <2>1
  <2>2. CASE n # 0
    <3>1. n - (k - 1) \in Nat \ {0}
      BY <1>8, <2>2
    <3> QED BY <2>2, <3>1, Zenon
  <2> QED BY <2>1, <2>2
<1>10. ToCome = m
  BY <1>1, <1>3, <1>6, <1>7, <1>8, <1>9, Zenon DEF ToCome
<1>11. issued \o RestOf(w, m) = Stream(packed) /\ issued \in Seq(Commands)
  BY <1>1, <1>10 DEF Parsed, TypeOK
<1>12. IsCommand <=> h # "NOP" \/ AllNOP(w)
  BY <1>1, <1>3, Zenon DEF IsCommand, AllNOP, NumCommands
<1>13. CommandDone <=> k >= n
  BY <1>1, <1>3, <1>6, <1>7, Zenon DEF CommandDone
<1>14. CASE k >= n
  <2>1. m = 1
    BY <1>8, <1>9, <1>14
  <2>2. CurCommand' = t /\ ParamCount' = 0
    BY <1>1, <1>4, <1>13, <1>14, Zenon DEF Unpack
  <2>3. pc' = IF Len(w) > 1 /\ CmdNumParams[w[2]] = 0 THEN "unpack" ELSE "ended"
    BY <1>1, <1>13, <1>14, Zenon DEF Unpack, NumCommands
  <2>4. /\ RestOf(t, ToCome') = Parts(t)
        /\ t # <<>> => IF pc' = "unpack" THEN CmdNumParams[Head(t)] = 0
                       ELSE 0 < CmdNumParams[Head(t)]
    <3>1. CASE t = <<>>
      <4>1. Len(t) = 0
        BY <3>1
      <4>2. \A i \in 1..4 : i \notin 1..Len(t)
        BY <4>1
      <4>3. Part(t, 1) = <<>> /\ Part(t, 2) = <<>> /\ Part(t, 3) = <<>> /\ Part(t, 4) = <<>>
        <5>1. 1 \in 1..4 /\ 2 \in 1..4 /\ 3 \in 1..4 /\ 4 \in 1..4
          OBVIOUS
        <5> QED BY <4>2, <5>1, Zenon DEF Part
      <4>4. <<>> \o <<>> = <<>>
        BY ConcatEmptySeq, EmptySeq
      <4>5. Parts(t) = <<>>
        BY <4>3, <4>4, Zenon DEF Parts
      <4> QED BY <3>1, <4>5, Zenon DEF RestOf
    <3>2. CASE t # <<>>
      <4>1. Len(t) \in 1..3
        BY <1>2, <1>5, <3>2, EmptySeq, LenProperties
      <4>2. Head(t) = t[1] /\ t[1] = w[2] /\ Len(w) > 1 /\ Head(t) \in Commands
        <5>1. Len(w) > 1 /\ 1 \in 1..(Len(w) - 1)
          BY <1>2, <1>5, <4>1
        <5>2. t[1] = w[1 + 1]
          BY <1>5, <5>1
        <5>3. 1 + 1 = 2
          OBVIOUS
        <5>4. Head(t) = t[1] /\ Head(t) \in Commands
          BY <3>2, HeadTailProperties
        <5> QED BY <5>1, <5>2, <5>3, <5>4, Zenon
      <4>3. PICK n2 \in 0..2 : n2 = CmdNumParams[Head(t)]
        BY <4>2, CommandFacts
      <4>4. ToCome' = Full(Head(t))
        <5>1. CASE n2 = 0
          BY <2>2, <4>3, <5>1, Zenon DEF ToCome, Full
        <5>2. CASE n2 # 0
          <6>1. pc' # "unpack"
            BY <2>3, <4>2, <4>3, <5>2
          <6>2. ToCome' = n2 - 0
            BY <2>2, <4>3, <5>2, <6>1, Zenon DEF ToCome
          <6>3. n2 - 0 = n2
            OBVIOUS
          <6> QED BY <4>3, <5>2, <6>2, <6>3, Zenon DEF Full
        <5> QED BY <5>1, <5>2
      <4>5. RestOf(t, Full(Head(t))) = Parts(t)
        BY <4>1, RestBegins
      <4>6. n2 # 0 => 0 < n2
        OBVIOUS
      <4>7. pc' = IF n2 = 0 THEN "unpack" ELSE "ended"
        BY <2>3, <4>2, <4>3, Zenon
      <4> QED BY <4>3, <4>4, <4>5, <4>6, <4>7, Zenon
    <3> QED BY <3>1, <3>2
  <2>5. issued' \o Parts(t) = Stream(packed)
    <3>1. CASE IsCommand
      <4>1. issued' = Append(issued, h)
        BY <1>1, <1>3, <3>1, Zenon DEF Unpack
      <4>2. RestOf(w, 1) = <<h>> \o Parts(t)
        BY <1>2, <1>3, <1>4, <1>12, <3>1, RestOfLast
      <4>3. PICK s, r : s = issued /\ r = Parts(t)
        OBVIOUS
      <4>4. s \in Seq(Commands) /\ r \in Seq(Commands)
        BY <1>11, <4>3, PartsFacts
      <4>5. s \o (<<h>> \o r) = Append(s, h) \o r
        BY SMTT(60), <4>4, FirstMovesUp
      <4> QED BY <1>11, <2>1, <4>1, <4>2, <4>3, <4>5, Zenon
    <3>2. CASE ~IsCommand
      <4>1. issued' = issued
        BY <3>2 DEF Unpack
      <4>2. RestOf(w, m) = Parts(t)
        BY <1>2, <1>3, <1>4, <1>12, <3>2, RestOfPadding
      <4> QED BY <1>11, <4>1, <4>2, Zenon
    <3> QED BY <3>1, <3>2
  <2>6. (issued \o RestOf(CurCommand, ToCome) = Stream(packed))'
    BY <1>8, <2>2, <2>4, <2>5, Zenon DEF Stream
  <2> QED BY <2>2, <2>4, <2>6, Zenon DEF Parsed
<1>15. CASE ~(k >= n)
  <2>1. k \in 1..n /\ n # 0 /\ k < n /\ m > 1 /\ n - k = m - 1 /\ m - 1 \in Nat
    BY <1>8, <1>9, <1>15
  <2>2. h # "NOP" /\ IsCommand
    BY <1>6, <1>12, <2>1
  <2>3. CurCommand' = w /\ ParamCount' = k /\ pc' = "ended"
    BY <1>1, <1>7, <1>13, <1>15, Zenon DEF Unpack
  <2>4. ToCome' = n - k
    <3>1. pc' # "unpack"
      BY <2>3
    <3> QED BY <1>3, <1>6, <2>1, <2>3, <3>1, Zenon DEF ToCome
  <2>5. issued' = Append(issued, h)
    BY <1>1, <1>3, <2>2, Zenon DEF Unpack
  <2>6. RestOf(w, m) = <<h>> \o RestOf(w, m - 1) /\ RestOf(w, m - 1) \in Seq(Commands)
    BY <1>2, <1>3, <2>1, <2>2, RestShrinks
  <2>7. PICK s, r : s = issued /\ r = RestOf(w, m - 1)
    OBVIOUS
  <2>8. s \in Seq(Commands) /\ r \in Seq(Commands)
    BY <1>11, <2>6, <2>7
  <2>9. s \o (<<h>> \o r) = Append(s, h) \o r
    BY SMTT(60), <2>8, FirstMovesUp
  <2>10. (issued \o RestOf(CurCommand, ToCome) = Stream(packed))'
    BY <1>8, <1>11, <2>1, <2>3, <2>4, <2>5, <2>6, <2>7, <2>9, Zenon DEF Stream
  <2>11. pc' # "unpack"
    BY <2>3
  <2> QED BY <1>3, <1>6, <2>1, <2>3, <2>10, <2>11, Zenon DEF Parsed
<1> QED BY <1>14, <1>15

\* A sequence is a prefix of what continues it.
LEMMA PrefixOfConcat ==
  ASSUME NEW s, NEW r, s \in Seq(Commands), r \in Seq(Commands)
  PROVE  IsPrefix(s, s \o r)
<1>1. Len(s) \in Nat /\ Len(r) \in Nat /\ Len(s \o r) = Len(s) + Len(r)
  BY ConcatProperties, LenProperties
<1>2. Len(s) <= Len(s \o r)
  BY <1>1
<1>3. SubSeq(s \o r, 1, Len(s)) = s
  BY SubSeqOfConcat1, SubSeqFull
<1>4. SubSeq(s, 1, Len(s)) = s
  BY SubSeqFull
<1> QED BY <1>2, <1>3, <1>4, Zenon DEF IsPrefix

\* WriteToGXFIFO unpacks the words that stores and DMA bursts bring, however
\* they are cut, to exactly the entries they stand for.
THEOREM WordsAreUnpacked == Spec => []Unpacked
<1>1. Init => Parsed
  BY ParsedInit
<1>2. IInv /\ Parsed /\ [Next]_vars => Parsed'
  <2> SUFFICES ASSUME IInv, Parsed, [Next]_vars PROVE Parsed'
    OBVIOUS
  <2>1. TypeOK /\ Control
    BY DEF IInv
  <2>2. CASE UNCHANGED vars
    <3>1. UNCHANGED <<CurCommand, ParamCount, packed, issued, pc>>
      BY <2>2 DEF vars, unpack, control
    <3>2. ToCome' = ToCome
      BY <3>1, Zenon DEF ToCome
    <3> QED BY <3>1, <3>2, Zenon DEF Parsed, Stream
  <2>3. CASE Word
    BY <2>1, <2>3, ParsedWord
  <2>4. CASE Unpack
    BY <2>1, <2>4, ParsedUnpack
  <2>5. CASE Next /\ ~Word /\ ~Unpack
    BY <2>5, OtherSteps, ParsedElsewhere
  <2> QED BY <2>2, <2>3, <2>4, <2>5
<1>3. IInv /\ Parsed => Unpacked
  <2> SUFFICES ASSUME IInv, Parsed PROVE Unpacked
    OBVIOUS
  <2>1. CurCommand \in Seq(Commands) /\ issued \in Seq(Commands) /\ packed \in 0..Len(Program)
    BY DEF IInv, TypeOK
  <2>2. CASE CurCommand = <<>>
    <3>1. issued \o <<>> = Stream(packed)
      BY <2>2, Zenon DEF Parsed, RestOf
    <3>2. issued = Stream(packed)
      BY <2>1, <3>1, ConcatEmptySeq
    <3>3. PICK x, s, z : x \in Seq(Commands) /\ z = s \o x /\ s = Stream(packed) /\ z = Stream(Len(Program))
      BY <2>1, StreamExtends DEF Extends
    <3>4. IsPrefix(s, s \o x)
      BY <2>1, <3>2, <3>3, PrefixOfConcat
    <3> QED BY <3>2, <3>3, <3>4, Zenon DEF Unpacked
  <2>3. CASE CurCommand # <<>>
    <3>1. NumCommands # 0
      BY <2>1, <2>3, EmptySeq DEF NumCommands
    <3>2. PICK c, k : c = CurCommand /\ k = ToCome
      OBVIOUS
    <3>3. k \in Nat
      <4>1. PICK n \in 0..2 : n = CmdNumParams[Head(CurCommand)]
        BY <2>1, <2>3, HeadTailProperties, CommandFacts
      <4>2. PICK j \in Nat : j = ParamCount
        BY DEF IInv, TypeOK
      <4>3. \/ n = 0
            \/ n # 0 /\ pc = "unpack" /\ j \in 1..n
            \/ n # 0 /\ pc # "unpack" /\ j < n
        BY <2>3, <4>1, <4>2 DEF Parsed
      <4>4. k = IF n = 0 THEN 1 ELSE n - (IF pc = "unpack" THEN j - 1 ELSE j)
        BY <3>2, <4>1, <4>2, Zenon DEF ToCome
      <4> QED BY <4>3, <4>4
    <3>4. PICK r : r \in Seq(Commands) /\ r = RestOf(c, k)
      BY <2>1, <3>2, <3>3, RestType
    <3>5. PICK x, s, z, i : /\ x \in Seq(Commands) /\ z = s \o x
                            /\ s = Stream(packed) /\ z = Stream(Len(Program)) /\ i = issued
      BY <2>1, StreamExtends DEF Extends
    <3>6. i \o r = s /\ i \in Seq(Commands)
      BY <2>1, <3>2, <3>4, <3>5 DEF Parsed
    <3>7. (i \o r) \o x = i \o (r \o x)
      <4>1. i \in Seq(Commands) /\ r \in Seq(Commands) /\ x \in Seq(Commands)
        BY <3>4, <3>5, <3>6
      <4> QED BY ONLY <4>1, ConcatAssociative
    <3>8. PICK y : y = r \o x /\ y \in Seq(Commands)
      BY <3>4, <3>5, ConcatProperties
    <3>9. IsPrefix(i, i \o y)
      BY <3>6, <3>8, PrefixOfConcat
    <3>10. z = i \o y
      BY <3>5, <3>6, <3>7, <3>8, Zenon
    <3> QED BY <3>1, <3>5, <3>9, <3>10, Zenon DEF Unpacked
  <2> QED BY <2>2, <2>3
<1> QED BY <1>1, <1>2, <1>3, Invariance, PTL DEF Spec

=============================================================================
