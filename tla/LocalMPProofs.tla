---------------------------- MODULE LocalMPProofs ----------------------------
(***************************************************************************)
(* Proofs about local multiplayer: however the posts and the reads of the  *)
(* instances interleave, a receiver that keeps up reads every frame once,  *)
(* whole and in order, for every size of the ring and of the frames; and a *)
(* host takes replies to its current CMD frame only.                       *)
(***************************************************************************)
EXTENDS LocalMP, SequenceTheorems, FiniteSetTheorems, TLAPS

-----------------------------------------------------------------------------
(* Types *)

Places == {"idle", "post", "postReply", "take", "read", "takeReply", "readReply"}

Frame == [sender : Instances, type : Types, len : 0 .. Size - 1, at : Nat, command : Nat]

Typed ==
  /\ mem \in [Fifos -> [Offsets -> Nat \X Nat]]
  /\ write \in [Fifos -> Offsets] /\ read \in [Fifos -> [Instances -> Offsets]]
  /\ sem \in [Fifos -> [Instances -> Nat]]
  /\ connected \subseteq Instances /\ host \in Hosts
  /\ pc \in [Instances -> Places] /\ post \in [Instances -> SUBSET Instances]
  /\ replies \in [Instances -> SUBSET Nat]
  /\ heard \in [Instances -> SUBSET Instances]
  /\ waitFor \in [Instances -> [instances : SUBSET Instances, aids : SUBSET Clients]]
  /\ command \in [Instances -> Nat]
  /\ log \in Seq(Frame) /\ seen \in [Fifos -> [Instances -> 0 .. Len(log)]]
  /\ joins \in [Instances -> Nat]
  /\ \A f \in Fifos, o \in Offsets : mem[f][o][1] <= Len(log)
  /\ \A f \in Fifos : Frames(f) # {} => \E m \in Frames(f) : \A a \in Frames(f) : a <= m

\* Positions in a ring: a step stays inside, two steps are one, no two of
\* fewer than Size steps lead to the same place.
LEMMA MovedIn ==
  ASSUME NEW o \in Offsets, NEW k \in 0 .. Size
  PROVE  Moved(o, k) \in Offsets
  BY RingAssumption DEF Moved, Offsets

LEMMA MovedMoved ==
  ASSUME NEW o \in Offsets, NEW a \in Nat, NEW b \in Nat, a + b <= Size
  PROVE  Moved(Moved(o, a), b) = Moved(o, a + b)
  BY RingAssumption DEF Moved, Offsets

LEMMA MovedZero ==
  ASSUME NEW o \in Offsets
  PROVE  Moved(o, 0) = o
  BY RingAssumption DEF Moved, Offsets

LEMMA MovedOnce ==
  ASSUME NEW o \in Offsets, NEW a \in 0 .. Size - 1, NEW b \in 0 .. Size - 1,
         Moved(o, a) = Moved(o, b)
  PROVE  a = b
  BY RingAssumption DEF Moved, Offsets

\* FIFOWrite writes the cells of the frame one after the other and no others.
LEMMA FIFOWriteCells ==
  ASSUME Typed, NEW f \in Fifos, NEW id \in Nat, NEW len \in 0 .. Size - 1
  PROVE  /\ FIFOWrite(f, id, len) \in [Offsets -> Nat \X Nat]
         /\ \A k \in 0 .. len : FIFOWrite(f, id, len)[Moved(write[f], k)] = <<id, k>>
         /\ \A o \in Offsets :
              (\A k \in 0 .. len : Moved(write[f], k) # o) => FIFOWrite(f, id, len)[o] = mem[f][o]
         /\ \A o \in Offsets : FIFOWrite(f, id, len)[o][1] \in {id, mem[f][o][1]}
<1> DEFINE At(o) == {k \in 0 .. len : Moved(write[f], k) = o}
           W == FIFOWrite(f, id, len)
<1>1. W = [o \in Offsets |-> IF At(o) = {} THEN mem[f][o] ELSE <<id, Max(At(o))>>]
  BY DEF FIFOWrite
<1>2. write[f] \in Offsets /\ mem[f] \in [Offsets -> Nat \X Nat]
  BY DEF Typed
<1>3. ASSUME NEW k \in 0 .. len
      PROVE  /\ Moved(write[f], k) \in Offsets /\ At(Moved(write[f], k)) = {k}
             /\ Max(At(Moved(write[f], k))) = k
  <2>1. k \in 0 .. Size - 1 /\ k \in 0 .. Size /\ \A j \in 0 .. len : j \in 0 .. Size - 1
    BY RingAssumption
  <2>2. Moved(write[f], k) \in Offsets
    BY <1>2, <2>1, MovedIn
  <2>3. \A j \in 0 .. len : Moved(write[f], j) = Moved(write[f], k) => j = k
    BY <1>2, <2>1, MovedOnce
  <2>4. At(Moved(write[f], k)) = {k}
    BY <2>3
  <2>5. Max({k}) = k
    BY DEF Max
  <2> QED
    BY <2>2, <2>4, <2>5
<1>4. \A k \in 0 .. len : W[Moved(write[f], k)] = <<id, k>>
  <2> SUFFICES ASSUME NEW k \in 0 .. len PROVE W[Moved(write[f], k)] = <<id, k>>
    OBVIOUS
  <2>1. At(Moved(write[f], k)) # {}
    BY <1>3
  <2> HIDE DEF W, At
  <2> QED
    BY <1>1, <1>3, <2>1
<1>5. ASSUME NEW o \in Offsets, \A k \in 0 .. len : Moved(write[f], k) # o
      PROVE  W[o] = mem[f][o]
  <2>1. At(o) = {}
    BY <1>5
  <2> HIDE DEF W, At
  <2> QED
    BY <1>1, <2>1
<1>6. ASSUME NEW o \in Offsets PROVE W[o] \in Nat \X Nat /\ W[o][1] \in {id, mem[f][o][1]}
  <2>1. CASE \E k \in 0 .. len : Moved(write[f], k) = o
    <3>1. PICK k \in 0 .. len : Moved(write[f], k) = o
      BY <2>1
    <3>2. W[o] = <<id, k>> /\ k \in Nat
      BY <1>4, <3>1
    <3> HIDE DEF W
    <3> QED
      BY <3>2
  <2>2. CASE \A k \in 0 .. len : Moved(write[f], k) # o
    BY <1>2, <1>5, <2>2
  <2> QED
    BY <2>1, <2>2
<1>7. W \in [Offsets -> Nat \X Nat]
  <2>1. W = [o \in Offsets |-> W[o]]
    BY <1>1
  <2> HIDE DEF W
  <2> QED
    BY <1>6, <2>1
<1> QED
  BY <1>4, <1>5, <1>6, <1>7

LEMMA MaxIs ==
  ASSUME NEW S, S \subseteq Nat, NEW m \in S, \A a \in S : a <= m
  PROVE  Max(S) = m
<1>1. \A x \in S : (\A y \in S : x >= y) => x = m
  OBVIOUS
<1>2. \A y \in S : m >= y
  OBVIOUS
<1> QED
  BY <1>1, <1>2 DEF Max

LEMMA MinIs ==
  ASSUME NEW S, S \subseteq Nat, NEW m \in S, \A a \in S : m <= a
  PROVE  Min(S) = m
<1>1. \A x \in S : (\A y \in S : x <= y) => x = m
  OBVIOUS
<1>2. \A y \in S : m <= y
  OBVIOUS
<1> QED
  BY <1>1, <1>2 DEF Min

\* What has been written ends with the newest frame.
LEMMA WrittenIs ==
  ASSUME Typed, NEW f \in Fifos
  PROVE  /\ Written(f) \in Nat
         /\ Frames(f) = {} => Written(f) = 0
         /\ \A m \in Frames(f) : (\A a \in Frames(f) : a <= m) => Written(f) = EndOf(m)
<1>1. log \in Seq(Frame) /\ DOMAIN log = 1 .. Len(log) /\ Len(log) \in Nat
  BY DEF Typed
<1>2. \A m \in Frames(f) : m \in Nat /\ log[m] \in Frame
  BY <1>1 DEF Frames
<1>3. ASSUME NEW m \in Frames(f), \A a \in Frames(f) : a <= m
      PROVE  Written(f) = EndOf(m) /\ EndOf(m) \in Nat
  <2>3. Max(Frames(f)) = m
    BY <1>2, <1>3, MaxIs
  <2>4. log[m].at \in Nat /\ log[m].len \in Nat
    BY <1>2 DEF Frame
  <2> QED
    BY <2>3, <2>4 DEF Written, EndOf
<1>4. Frames(f) = {} => Written(f) = 0
  BY DEF Written
<1>5. Frames(f) = {} \/ \E m \in Frames(f) : \A a \in Frames(f) : a <= m
  BY DEF Typed
<1> QED
  BY <1>3, <1>4, <1>5

\* A frame that is sent is the newest of its ring and no frame of the other.
LEMMA LogGrows ==
  ASSUME Typed, NEW f \in Fifos, NEW frame \in Frame, log' = Append(log, frame)
  PROVE  /\ log' \in Seq(Frame) /\ Len(log') = Len(log) + 1
         /\ \A id \in DOMAIN log : id \in DOMAIN log' /\ log'[id] = log[id]
         /\ log'[Len(log) + 1] = frame
         /\ \A id \in Frames(f) : id < Len(log) + 1
         /\ Fifo(frame.type) = f => Frames(f)' = Frames(f) \cup {Len(log) + 1}
         /\ Fifo(frame.type) # f => Frames(f)' = Frames(f)
<1>1. log \in Seq(Frame) /\ DOMAIN log = 1 .. Len(log) /\ Len(log) \in Nat
  BY DEF Typed
<1>2. /\ log' \in Seq(Frame) /\ Len(log') = Len(log) + 1
      /\ log'[Len(log) + 1] = frame /\ DOMAIN log' = 1 .. Len(log) + 1
      /\ \A id \in 1 .. Len(log) : log'[id] = log[id]
  BY <1>1
<1>3. /\ \A id \in 1 .. Len(log) : id \in 1 .. Len(log) + 1 /\ id < Len(log) + 1
      /\ \A id \in 1 .. Len(log) + 1 : id \in 1 .. Len(log) \/ id = Len(log) + 1
      /\ Len(log) + 1 \in 1 .. Len(log) + 1
  BY <1>1
<1>4. Frames(f)' = {id \in 1 .. Len(log) + 1 : Fifo(log'[id].type) = f}
  BY <1>2 DEF Frames
<1>5. Frames(f) = {id \in 1 .. Len(log) : Fifo(log[id].type) = f}
  BY <1>1 DEF Frames
<1> QED
  BY <1>1, <1>2, <1>3, <1>4, <1>5, Zenon

LEMMA WrittenGrows ==
  ASSUME Typed, NEW f \in Fifos, NEW frame \in Frame, log' = Append(log, frame)
  PROVE  /\ Fifo(frame.type) = f => Written(f)' = frame.at + frame.len + 1
         /\ Fifo(frame.type) # f => Written(f)' = Written(f)
<1>1. log \in Seq(Frame) /\ DOMAIN log = 1 .. Len(log) /\ Len(log) \in Nat
  BY DEF Typed
<1>2. CASE Fifo(frame.type) = f
  <2> DEFINE n == Len(log) + 1
  <2>1. Frames(f)' = Frames(f) \cup {n} /\ \A a \in Frames(f) : a < n
    BY <1>2, LogGrows
  <2>2. \A a \in Frames(f)' : a <= n
    BY <1>1, <2>1 DEF Frames
  <2>3. n \in Frames(f)' /\ log'[n] = frame
    BY <1>2, <2>1, LogGrows
  <2>4. Frames(f)' \subseteq Nat
    BY <1>1, <2>1 DEF Frames
  <2>5. Max(Frames(f)') = n
    BY <2>2, <2>3, <2>4, MaxIs
  <2>6. Written(f)' = log'[n].at + log'[n].len + 1
    BY <2>3, <2>5 DEF Written, EndOf
  <2> QED
    BY <1>2, <2>3, <2>6
<1>3. CASE Fifo(frame.type) # f
  <2>1. Frames(f)' = Frames(f)
    BY <1>3, LogGrows
  <2>2. CASE Frames(f) = {}
    BY <1>3, <2>1, <2>2 DEF Written
  <2>3. CASE Frames(f) # {}
    <3>1. PICK m \in Frames(f) : \A a \in Frames(f) : a <= m
      BY <2>3 DEF Typed
    <3>2. log'[m] = log[m]
      BY LogGrows DEF Frames
    <3>3. Max(Frames(f)) = m
      <4>1. Frames(f) \subseteq Nat
        BY <1>1 DEF Frames
      <4> QED
        BY <3>1, <4>1, MaxIs
    <3>4. Written(f)' = log'[m].at + log'[m].len + 1
      BY <2>1, <2>3, <3>3 DEF Written, EndOf
    <3>5. Written(f) = log[m].at + log[m].len + 1
      BY <2>3, <3>3 DEF Written, EndOf
    <3> QED
      BY <1>3, <3>2, <3>4, <3>5
  <2> QED
    BY <2>2, <2>3
<1> QED
  BY <1>2, <1>3

LEMMA LogFrames ==
  ASSUME Typed, NEW id \in DOMAIN log
  PROVE  /\ id \in 1 .. Len(log) /\ id \in Nat /\ id \in 0 .. Len(log)
         /\ log[id].sender \in Instances /\ log[id].type \in Types /\ log[id].len \in 0 .. Size - 1
         /\ log[id].at \in Nat /\ log[id].command \in Nat
<1>1. log \in Seq(Frame) /\ DOMAIN log = 1 .. Len(log) /\ Len(log) \in Nat
  BY DEF Typed
<1>2. log[id] \in Frame
  BY <1>1
<1> QED
  BY <1>1, <1>2 DEF Frame

\* A semaphore counts.
LEMMA SemSteps ==
  ASSUME Typed, NEW f \in Fifos, NEW j \in Instances
  PROVE  /\ [sem EXCEPT ![f][j] = @ + 1] \in [Fifos -> [Instances -> Nat]]
         /\ sem[f][j] > 0 => [sem EXCEPT ![f][j] = @ - 1] \in [Fifos -> [Instances -> Nat]]
<1>1. sem[f] \in [Instances -> Nat] /\ sem[f][j] \in Nat
  BY DEF Typed
<1>2. \A n \in Nat : [sem EXCEPT ![f][j] = n] \in [Fifos -> [Instances -> Nat]]
  BY DEF Typed
<1>3. sem[f][j] + 1 \in Nat /\ (sem[f][j] > 0 => sem[f][j] - 1 \in Nat)
  BY <1>1
<1> QED
  BY <1>2, <1>3

\* Steps that send no frame.
LEMMA LogStays ==
  ASSUME UNCHANGED log, NEW f \in Fifos
  PROVE  Frames(f)' = Frames(f) /\ Written(f)' = Written(f)
  BY DEF Frames, Written, EndOf

LEMMA TypeSend ==
  ASSUME Typed, NEW i \in Instances, NEW type \in Types, NEW len \in 0 .. Size - 1,
         SendPacketGeneric(i, type, len), type = "cmd" => i \in Hosts,
         command' \in [Instances -> Nat]
  PROVE  Typed'
<1> DEFINE f == Fifo(type)
           n == Len(log) + 1
           frame == [sender |-> i, type |-> type, len |-> len, at |-> Written(f),
                     command |-> IF type = "cmd" THEN n ELSE command[i]]
<1>1. f \in Fifos
  BY DEF Fifo, Fifos
<1>2. n \in Nat /\ Len(log) \in Nat
  BY DEF Typed
<1>3. Written(f) \in Nat
  BY <1>1, WrittenIs
<1>4. command[i] \in Nat
  BY DEF Typed
<1>5. frame \in Frame
  BY <1>2, <1>3, <1>4 DEF Frame
<1>6. log' = Append(log, frame)
  BY DEF SendPacketGeneric, Newest
<1> HIDE DEF frame
<1>7. log' \in Seq(Frame) /\ Len(log') = n
  BY <1>1, <1>5, <1>6, LogGrows
<1>8. \A g \in Fifos : Frames(g)' # {} => \E m \in Frames(g)' : \A a \in Frames(g)' : a <= m
  <2> SUFFICES ASSUME NEW g \in Fifos, Frames(g)' # {}
               PROVE  \E m \in Frames(g)' : \A a \in Frames(g)' : a <= m
    OBVIOUS
  <2>1. CASE Fifo(frame.type) = g
    <3>1. Frames(g)' = Frames(g) \cup {n} /\ \A a \in Frames(g) : a < n
      BY <1>5, <1>6, <2>1, LogGrows
    <3>2. Frames(g) \subseteq Nat
      BY DEF Frames, Typed
    <3>3. \A a \in Frames(g) \cup {n} : a <= n
      BY <1>2, <3>1, <3>2
    <3> QED
      BY <3>1, <3>3
  <2>2. CASE Fifo(frame.type) # g
    <3>1. Frames(g)' = Frames(g)
      BY <1>5, <1>6, <2>2, LogGrows
    <3> QED
      BY <3>1 DEF Typed
  <2> QED
    BY <2>1, <2>2
<1>9. mem' = [mem EXCEPT ![f] = FIFOWrite(f, n, len)]
  BY DEF SendPacketGeneric, Newest
<1>10. /\ FIFOWrite(f, n, len) \in [Offsets -> Nat \X Nat]
       /\ \A o \in Offsets : FIFOWrite(f, n, len)[o][1] \in {n, mem[f][o][1]}
  BY <1>1, <1>2, FIFOWriteCells
<1>11. mem' \in [Fifos -> [Offsets -> Nat \X Nat]]
  BY <1>9, <1>10 DEF Typed
<1>12. \A g \in Fifos, o \in Offsets : mem'[g][o][1] <= n
  <2> SUFFICES ASSUME NEW g \in Fifos, NEW o \in Offsets PROVE mem'[g][o][1] <= n
    OBVIOUS
  <2>1. mem[g][o][1] <= Len(log) /\ mem[g][o] \in Nat \X Nat /\ mem[f][o][1] <= Len(log)
        /\ mem[f][o] \in Nat \X Nat
    BY <1>1 DEF Typed
  <2>2. mem'[g] = mem[g] \/ mem'[g] = FIFOWrite(f, n, len)
    BY <1>9 DEF Typed
  <2>3. mem'[g][o][1] \in {n, mem[g][o][1], mem[f][o][1]}
    BY <1>10, <2>2
  <2>4. mem[g][o][1] \in Nat /\ mem[f][o][1] \in Nat
    BY <2>1
  <2>5. PICK x, y, z : x = mem[g][o][1] /\ y = mem[f][o][1] /\ z = mem'[g][o][1]
    OBVIOUS
  <2>6. x \in Nat /\ y \in Nat /\ x <= Len(log) /\ y <= Len(log) /\ z \in {n, x, y}
    BY <2>1, <2>3, <2>4, <2>5
  <2>7. z <= n
    BY <1>2, <2>6
  <2> QED
    BY <2>5, <2>7
<1>13. write' \in [Fifos -> Offsets]
  <2>1. write[f] \in Offsets
    BY <1>1 DEF Typed
  <2>2. Moved(write[f], 1) \in Offsets
    BY <2>1, RingAssumption, MovedIn
  <2>3. Moved(Moved(write[f], 1), len) \in Offsets
    BY <2>2, RingAssumption, MovedIn
  <2> QED
    BY <2>3 DEF SendPacketGeneric, Typed
<1>14. /\ read' \in [Fifos -> [Instances -> Offsets]]
       /\ sem' \in [Fifos -> [Instances -> Nat]]
       /\ seen' \in [Fifos -> [Instances -> 0 .. n]]
       /\ host' \in Hosts
  <2>1. seen \in [Fifos -> [Instances -> 0 .. n]] /\ n \in 0 .. n
    BY SMTT(60), <1>2 DEF Typed
  <2>2. CASE type = "cmd"
    <3>1. host' = i /\ i \in Hosts
      BY <2>2 DEF SendPacketGeneric
    <3>2. read' = [read EXCEPT !["reply"][i] = write["reply"]]
      BY <2>2 DEF SendPacketGeneric
    <3>3. sem' = [sem EXCEPT !["reply"][i] = 0]
      BY <2>2 DEF SendPacketGeneric
    <3>4. seen' = [seen EXCEPT !["reply"][i] = n]
      BY <2>2 DEF SendPacketGeneric, Newest
    <3>5. write["reply"] \in Offsets /\ "reply" \in Fifos
      BY DEF Typed, Fifos
    <3>6. read' \in [Fifos -> [Instances -> Offsets]]
      BY <3>2, <3>5 DEF Typed
    <3>7. sem' \in [Fifos -> [Instances -> Nat]]
      BY <3>3, <3>5 DEF Typed
    <3>8. seen' \in [Fifos -> [Instances -> 0 .. n]]
      BY <2>1, <3>4, <3>5
    <3> QED
      BY <3>1, <3>6, <3>7, <3>8
  <2>3. CASE type # "cmd"
    BY <2>1, <2>3 DEF SendPacketGeneric, Typed
  <2> QED
    BY <2>2, <2>3
<1>15. pc' \in [Instances -> Places] /\ post' \in [Instances -> SUBSET Instances]
  BY DEF SendPacketGeneric, Typed, Places, Receivers
<1>16. UNCHANGED <<connected, exchange, joins>>
  BY DEF SendPacketGeneric
<1> QED
  BY <1>7, <1>8, <1>11, <1>12, <1>13, <1>14, <1>15, <1>16 DEF Typed, exchange

\* The four ways to send.
LEMMA SendKinds ==
  ASSUME Typed, NEW i \in Instances, Send(i)
  PROVE  \E type \in Types, len \in 0 .. Size - 1 :
           /\ SendPacketGeneric(i, type, len)
           /\ \/ type \in {"packet", "ack"} /\ UNCHANGED command
              \/ type = "cmd" /\ i \in Hosts /\ command' = [command EXCEPT ![i] = Newest + 1]
              \/ type = "reply" /\ i \in Clients /\ command' = [command EXCEPT ![i] = 0]
<1>1. 0 \in 0 .. Size - 1 /\ AckLen \in 0 .. Size - 1 /\ Lens \subseteq 0 .. Size - 1
  BY RingAssumption DEF AckLen
<1>2. CASE SendPacket(i)
  BY <1>1, <1>2 DEF SendPacket, Types
<1>3. CASE SendAck(i)
  BY <1>1, <1>3 DEF SendAck, Types
<1>4. CASE SendCmd(i)
  BY <1>1, <1>4 DEF SendCmd, Types
<1>5. CASE SendReply(i)
  BY <1>1, <1>5 DEF SendReply, Types
<1> QED
  BY <1>2, <1>3, <1>4, <1>5 DEF Send

\* A header with the magic number is the header of a frame.
LEMMA HeaderIs ==
  ASSUME Typed, NEW f \in Fifos, NEW i \in Instances
  PROVE  /\ Header(f, i) = mem[f][read[f][i]] /\ read[f][i] \in Offsets
         /\ HasMagic(Header(f, i)) => Header(f, i)[1] \in DOMAIN log
<1>1. read[f][i] \in Offsets /\ mem[f] \in [Offsets -> Nat \X Nat]
  BY DEF Typed
<1>2. Moved(read[f][i], 0) = read[f][i]
  BY <1>1, MovedZero
<1>3. Header(f, i) = mem[f][read[f][i]]
  BY <1>2 DEF Header, FIFORead
<1>4. Header(f, i)[1] \in Nat /\ Header(f, i)[1] <= Len(log) /\ Len(log) \in Nat
  BY <1>1, <1>3 DEF Typed
<1>5. HasMagic(Header(f, i)) => Header(f, i)[1] # 0
  BY DEF HasMagic
<1>6. DOMAIN log = 1 .. Len(log)
  BY DEF Typed
<1> QED
  BY <1>1, <1>3, <1>4, <1>5, <1>6

\* What reading, or giving up on, a frame does to the offsets.
LEMMA TypeRead ==
  ASSUME Typed, NEW f \in Fifos, NEW i \in Instances, pc' \in [Instances -> Places],
         \/ Overflowed(f, i)
         \/ /\ HasMagic(Header(f, i)) /\ StepOver(f, i, Header(f, i)[1])
            /\ UNCHANGED sem
  PROVE  /\ read' \in [Fifos -> [Instances -> Offsets]]
         /\ sem' \in [Fifos -> [Instances -> Nat]]
         /\ seen' \in [Fifos -> [Instances -> 0 .. Len(log)]]
<1>1. CASE Overflowed(f, i)
  <2>1. write[f] \in Offsets /\ Len(log) \in 0 .. Len(log)
    BY DEF Typed
  <2>2. /\ read' = [read EXCEPT ![f][i] = write[f]] /\ sem' = [sem EXCEPT ![f][i] = 0]
        /\ seen' = [seen EXCEPT ![f][i] = Len(log)]
    BY <1>1 DEF Overflowed, Newest
  <2>3. read' \in [Fifos -> [Instances -> Offsets]]
    BY <2>1, <2>2 DEF Typed
  <2>4. sem' \in [Fifos -> [Instances -> Nat]]
    BY <2>2 DEF Typed
  <2>5. seen' \in [Fifos -> [Instances -> 0 .. Len(log)]]
    BY <2>1, <2>2 DEF Typed
  <2> QED
    BY <2>3, <2>4, <2>5
<1>2. CASE /\ HasMagic(Header(f, i)) /\ StepOver(f, i, Header(f, i)[1])
           /\ UNCHANGED sem
  <2>1. PICK id : id = Header(f, i)[1]
    OBVIOUS
  <2>2. id \in DOMAIN log
    BY <1>2, <2>1, HeaderIs
  <2>3. id \in 0 .. Len(log) /\ log[id].len \in 0 .. Size - 1
    BY <2>2, LogFrames
  <2>4. read[f][i] \in Offsets
    BY DEF Typed
  <2>5. Moved(read[f][i], 1) \in Offsets
    BY <2>4, RingAssumption, MovedIn
  <2>6. Moved(Moved(read[f][i], 1), log[id].len) \in Offsets
    BY <2>3, <2>5, RingAssumption, MovedIn
  <2>7. /\ read' = [read EXCEPT ![f][i] = Moved(Moved(@, 1), log[id].len)]
        /\ seen' = [seen EXCEPT ![f][i] = id]
    BY <1>2, <2>1 DEF StepOver
  <2>8. read' \in [Fifos -> [Instances -> Offsets]]
    BY <2>6, <2>7 DEF Typed
  <2>9. seen' \in [Fifos -> [Instances -> 0 .. Len(log)]]
    BY <2>3, <2>7 DEF Typed
  <2> QED
    BY <1>2, <2>8, <2>9 DEF Typed
<1> QED
  BY <1>1, <1>2

LEMMA TypeStep ==
  ASSUME Typed, [Next]_vars
  PROVE  Typed'
<1> USE DEF Typed
<1>1. CASE UNCHANGED vars
  BY <1>1 DEF vars, ring, exchange, history, Frames
<1>2. CASE Next
  <2>1. PICK i \in Instances :
          \/ Begin(i) \/ End(i) \/ Send(i) \/ Finish(i)
          \/ RecvPacket(i) \/ RecvHostPacket(i) \/ RecvReplies(i)
    BY <1>2 DEF Next
  <2>2. CASE Begin(i)
    <3>1. read' \in [Fifos -> [Instances -> Offsets]]
      BY <2>2 DEF Begin
    <3>2. seen' \in [Fifos -> [Instances -> 0 .. Len(log)]]
      BY <2>2 DEF Begin, Newest
    <3>3. sem' \in [Fifos -> [Instances -> Nat]] /\ joins' \in [Instances -> Nat]
      BY <2>2 DEF Begin
    <3>4. /\ UNCHANGED <<mem, write, host, pc, post, exchange, command, log>>
          /\ connected' \subseteq Instances
      BY <2>2 DEF Begin
    <3> QED
      BY <3>1, <3>2, <3>3, <3>4 DEF exchange, Frames
  <2>3. CASE End(i)
    BY <2>3 DEF End, ring, exchange, history, Frames
  <2>4. CASE Send(i)
    <3>1. PICK type \in Types, len \in 0 .. Size - 1 :
           /\ SendPacketGeneric(i, type, len)
           /\ \/ type \in {"packet", "ack"} /\ UNCHANGED command
              \/ type = "cmd" /\ i \in Hosts /\ command' = [command EXCEPT ![i] = Newest + 1]
              \/ type = "reply" /\ i \in Clients /\ command' = [command EXCEPT ![i] = 0]
      BY <2>4, SendKinds
    <3>2. Newest + 1 \in Nat
      BY DEF Newest
    <3>3. command' \in [Instances -> Nat]
      BY <3>1, <3>2
    <3>4. type = "cmd" => i \in Hosts
      BY <3>1
    <3> HIDE DEF Typed
    <3> QED
      BY <3>1, <3>3, <3>4, TypeSend
  <2>5. CASE Finish(i)
    <3>1. CASE Post(i)
      <4>1. post' \in [Instances -> SUBSET Instances] /\ pc' \in [Instances -> Places]
        <5>1. CASE post[i] = {}
          BY <3>1, <5>1 DEF Post, Places
        <5>2. CASE post[i] # {}
          <6>1. PICK j \in post[i] : post' = [post EXCEPT ![i] = @ \ {j}] /\ UNCHANGED pc
            BY <3>1, <5>2 DEF Post
          <6> QED
            BY <6>1
        <5> QED
          BY <5>1, <5>2
      <4>2. sem' \in [Fifos -> [Instances -> Nat]]
        <5>1. CASE UNCHANGED sem
          BY <5>1
        <5>2. CASE \E j \in post[i] : sem' = [sem EXCEPT !["packet"][j] = @ + 1]
          <6>1. PICK j \in post[i] : sem' = [sem EXCEPT !["packet"][j] = @ + 1]
            BY <5>2
          <6>2. j \in Instances /\ "packet" \in Fifos
            BY DEF Fifos
          <6> HIDE DEF Typed
          <6> QED
            BY <6>1, <6>2, SemSteps
        <5> QED
          BY <3>1, <5>1, <5>2 DEF Post
      <4>3. UNCHANGED <<ring, connected, host, exchange, command, history>>
        BY <3>1 DEF Post
      <4> QED
        BY <4>1, <4>2, <4>3 DEF ring, exchange, history, Frames
    <3>2. CASE PostReply(i)
      <4>1. sem' \in [Fifos -> [Instances -> Nat]]
        <5>1. "reply" \in Fifos /\ host \in Instances
          BY InstancesAssumption DEF Fifos
        <5>2. sem' = [sem EXCEPT !["reply"][host] = @ + 1]
          BY <3>2 DEF PostReply
        <5>3. PICK j \in Instances : j = host
          BY <5>1
        <5> HIDE DEF Typed
        <5> QED
          BY <5>1, <5>2, <5>3, SemSteps
      <4> QED
        BY ZenonT(60), <3>2, <4>1 DEF PostReply, ring, exchange, history, Frames, Places
    <3>3. CASE TryWait(i)
      <4>1. sem' \in [Fifos -> [Instances -> Nat]]
        <5>1. "packet" \in Fifos
          BY DEF Fifos
        <5>2. UNCHANGED sem \/ (sem["packet"][i] > 0 /\ sem' = [sem EXCEPT !["packet"][i] = @ - 1])
          BY <3>3 DEF TryWait
        <5>3. UNCHANGED sem => sem' \in [Fifos -> [Instances -> Nat]]
          OBVIOUS
        <5> HIDE DEF Typed
        <5> QED
          BY <5>1, <5>2, <5>3, SemSteps
      <4> QED
        BY <3>3, <4>1 DEF TryWait, ring, exchange, history, Frames, Places
    <3>4. CASE RecvPacketGeneric(i)
      <4>1. pc' \in [Instances -> Places]
        BY <3>4 DEF RecvPacketGeneric, Overflowed, Places
      <4>2. "packet" \in Fifos
        BY DEF Fifos
      <4>3. \/ Overflowed("packet", i)
            \/ /\ HasMagic(Header("packet", i)) /\ StepOver("packet", i, Header("packet", i)[1])
               /\ UNCHANGED sem
        BY <3>4 DEF RecvPacketGeneric
      <4>4. /\ read' \in [Fifos -> [Instances -> Offsets]]
            /\ sem' \in [Fifos -> [Instances -> Nat]]
            /\ seen' \in [Fifos -> [Instances -> 0 .. Len(log)]]
        <5> HIDE DEF Typed
        <5> QED
          BY <4>1, <4>2, <4>3, TypeRead
      <4>5. HasMagic(Header("packet", i)) => Header("packet", i)[1] \in Nat
        <5> HIDE DEF Typed
        <5>1. HasMagic(Header("packet", i)) => Header("packet", i)[1] \in DOMAIN log
          BY <4>2, HeaderIs
        <5> QED
          BY <5>1 DEF Typed
      <4>6. command' \in [Instances -> Nat]
        BY <3>4, <4>5 DEF RecvPacketGeneric
      <4>7. UNCHANGED <<mem, write, connected, host, post, exchange, log, joins>>
        BY <3>4 DEF RecvPacketGeneric
      <4> QED
        BY <4>1, <4>4, <4>6, <4>7 DEF exchange, Frames
    <3>5. CASE TryWaitReply(i)
      <4>1. sem' \in [Fifos -> [Instances -> Nat]]
        <5>1. "reply" \in Fifos
          BY DEF Fifos
        <5>2. UNCHANGED sem \/ (sem["reply"][i] > 0 /\ sem' = [sem EXCEPT !["reply"][i] = @ - 1])
          BY <3>5 DEF TryWaitReply
        <5>3. UNCHANGED sem => sem' \in [Fifos -> [Instances -> Nat]]
          OBVIOUS
        <5> HIDE DEF Typed
        <5> QED
          BY <5>1, <5>2, <5>3, SemSteps
      <4> QED
        BY <3>5, <4>1 DEF TryWaitReply, ring, exchange, history, Frames, Places
    <3>6. CASE ReadReply(i)
      <4>1. pc' \in [Instances -> Places]
        <5>1. \E place \in Places : pc' = [pc EXCEPT ![i] = place]
          <6>1. CASE Overflowed("reply", i)
            BY <6>1 DEF Overflowed, Places
          <6>2. CASE pc' = [pc EXCEPT ![i] = "takeReply"]
            BY <6>2 DEF Places
          <6>3. CASE \E done \in BOOLEAN :
                       pc' = [pc EXCEPT ![i] = IF done THEN "idle" ELSE "takeReply"]
            BY <6>3 DEF Places
          <6> QED
            BY <3>6, <6>1, <6>2, <6>3 DEF ReadReply
        <5> QED
          BY <5>1
      <4>2. "reply" \in Fifos
        BY DEF Fifos
      <4>3. \/ Overflowed("reply", i)
            \/ /\ HasMagic(Header("reply", i)) /\ StepOver("reply", i, Header("reply", i)[1])
               /\ UNCHANGED sem
        BY <3>6 DEF ReadReply
      <4>4. /\ read' \in [Fifos -> [Instances -> Offsets]]
            /\ sem' \in [Fifos -> [Instances -> Nat]]
            /\ seen' \in [Fifos -> [Instances -> 0 .. Len(log)]]
        <5> HIDE DEF Typed
        <5> QED
          BY <4>1, <4>2, <4>3, TypeRead
      <4>5. HasMagic(Header("reply", i)) => Header("reply", i)[1] \in DOMAIN log
        <5> HIDE DEF Typed
        <5> QED
          BY <4>2, HeaderIs
      <4>6. HasMagic(Header("reply", i)) =>
              Header("reply", i)[1] \in Nat /\ log[Header("reply", i)[1]].sender \in Instances
        <5> HIDE DEF Typed
        <5> QED
          BY <4>5, LogFrames
      <4>7. replies' \in [Instances -> SUBSET Nat] /\ heard' \in [Instances -> SUBSET Instances]
        <5>1. CASE Overflowed("reply", i)
          BY <3>6, <5>1 DEF ReadReply, Overflowed
        <5>2. CASE ~Overflowed("reply", i)
          <6>1. PICK id : id = Header("reply", i)[1]
            OBVIOUS
          <6>2. HasMagic(Header("reply", i))
            BY <3>6, <5>2 DEF ReadReply
          <6>3. id \in Nat /\ log[id].sender \in Instances
            BY <4>6, <6>1, <6>2
          <6>4. \/ UNCHANGED <<replies, heard>>
                \/ /\ replies' = [replies EXCEPT ![i] = IF log[id].len = 0 THEN @ ELSE @ \cup {id}]
                   /\ heard' = [heard EXCEPT ![i] = @ \cup {log[id].sender}]
            BY <3>6, <5>2, <6>1 DEF ReadReply
          <6>5. replies' = replies \/ \E S \in SUBSET Nat : replies' = [replies EXCEPT ![i] = S]
            <7>1. replies[i] \in SUBSET Nat /\ replies[i] \cup {id} \in SUBSET Nat
              BY <6>3
            <7> QED
              BY <6>4, <7>1
          <6>6. heard' = heard \/ \E S \in SUBSET Instances : heard' = [heard EXCEPT ![i] = S]
            <7>1. heard[i] \cup {log[id].sender} \in SUBSET Instances
              BY <6>3
            <7> QED
              BY <6>4, <7>1
          <6>7. replies' \in [Instances -> SUBSET Nat]
            BY <6>5
          <6>8. heard' \in [Instances -> SUBSET Instances]
            BY <6>6
          <6> QED
            BY <6>7, <6>8
        <5> QED
          BY <5>1, <5>2
      <4>8. UNCHANGED <<mem, write, connected, host, post, waitFor, command, log, joins>>
        BY <3>6 DEF ReadReply
      <4> QED
        BY <4>1, <4>4, <4>7, <4>8 DEF Frames
    <3> QED
      BY <2>5, <3>1, <3>2, <3>3, <3>4, <3>5, <3>6 DEF Finish
  <2>6. CASE RecvPacket(i) \/ RecvHostPacket(i)
    <3>1. RecvPacket(i)
      BY <2>6 DEF RecvHostPacket
    <3>2. pc' \in [Instances -> Places]
      BY <3>1 DEF RecvPacket, Places
    <3> QED
      BY ZenonT(60), <3>1, <3>2 DEF RecvPacket, ring, exchange, history, Frames
  <2>7. CASE RecvReplies(i)
    <3>1. pc' \in [Instances -> Places]
      BY <2>7 DEF RecvReplies, Places
    <3>2. /\ replies' \in [Instances -> SUBSET Nat] /\ heard' \in [Instances -> SUBSET Instances]
          /\ waitFor' \in [Instances -> [instances : SUBSET Instances, aids : SUBSET Clients]]
      BY <2>7 DEF RecvReplies
    <3> QED
      BY ZenonT(60), <2>7, <3>1, <3>2 DEF RecvReplies, ring, history, Frames
  <2> QED
    BY <2>1, <2>2, <2>3, <2>4, <2>5, <2>6, <2>7
<1> QED
  BY <1>1, <1>2

LEMMA TypeInit ==
  ASSUME Init
  PROVE  Typed
<1>1. 0 \in Offsets /\ Blank \in Nat \X Nat /\ Blank[1] = 0
  BY RingAssumption DEF Offsets, Blank
<1>2. mem \in [Fifos -> [Offsets -> Nat \X Nat]]
  BY <1>1 DEF Init
<1>3. log = <<>> /\ log \in Seq(Frame) /\ Len(log) = 0 /\ DOMAIN log = {}
  BY DEF Init
<1>4. \A f \in Fifos, o \in Offsets : mem[f][o][1] <= Len(log)
  BY <1>1, <1>3 DEF Init
<1>5. \A f \in Fifos : Frames(f) = {}
  BY <1>3 DEF Frames
<1> QED
  BY <1>1, <1>2, <1>3, <1>4, <1>5 DEF Init, Typed, Places

-----------------------------------------------------------------------------
(* The ring of the frames to everybody *)

\* The frames follow each other without a gap.
Chained ==
  \A a \in Frames("packet") :
    /\ EndOf(a) <= Written("packet")
    /\ \/ EndOf(a) = Written("packet")
       \/ \E b \in Frames("packet") : a < b /\ log[b].at = EndOf(a)
    /\ \A b \in Frames("packet") : a < b => EndOf(a) <= log[b].at

\* What lies between the read offset of i and the write offset is the frames it
\* has not read, from the first one on, header and payload.
Placed(i) ==
  LET p == Passed("packet", i)
  IN /\ p \in Nat /\ p <= Written("packet") /\ Written("packet") - p <= Size
     /\ write["packet"] = Moved(read["packet"][i], Written("packet") - p)
     /\ Unread("packet", i) # {} =>
          \E m \in Unread("packet", i) : \A a \in Unread("packet", i) : m <= a
     /\ \A id \in Unread("packet", i) : \A k \in 0 .. log[id].len :
          mem["packet"][Moved(read["packet"][i], log[id].at - p + k)] = <<id, k>>

\* Those who still have to post to i.
Posting(i) == {s \in Instances : i \in post[s]}

\* The credits of i, given, taken or to come, do not exceed its frames.
Counted(i) ==
  sem["packet"][i] + (IF pc[i] = "read" THEN 1 ELSE 0) + Cardinality(Posting(i))
    <= Cardinality(Unread("packet", i))

\* An instance that never joined is not counted in by anybody.
Outside(i) == joins[i] = 0 => i \notin connected /\ Posting(i) = {}

Delivery ==
  /\ Chained
  /\ \A i \in Instances : /\ Outside(i) /\ (i \in connected => Placed(i) /\ Counted(i))
                          /\ pc[i] # "idle" => i \in connected

\* A frame that fits goes behind the unread ones and touches none of them.
LEMMA WindowSends ==
  ASSUME NEW r \in Offsets, NEW g \in Nat, NEW len \in 0 .. Size - 1, g + len + 1 <= Size
  PROVE  /\ Moved(Moved(Moved(r, g), 1), len) = Moved(r, g + len + 1)
         /\ \A k \in 0 .. len : Moved(Moved(r, g), k) = Moved(r, g + k)
         /\ \A x \in Nat, k \in 0 .. len : x < g => Moved(r, x) # Moved(Moved(r, g), k)
<1>1. len \in Nat /\ g <= Size /\ Size \in Nat /\ g \in 0 .. Size
  BY RingAssumption
<1>2. Moved(r, g) \in Offsets
  BY <1>1, MovedIn
<1>3. Moved(Moved(Moved(r, g), 1), len) = Moved(Moved(r, g), 1 + len)
  BY <1>1, <1>2, MovedMoved
<1>4. Moved(Moved(r, g), 1 + len) = Moved(r, g + (1 + len))
  BY <1>1, MovedMoved
<1>5. g + (1 + len) = g + len + 1
  BY <1>1
<1>6. \A k \in 0 .. len : Moved(Moved(r, g), k) = Moved(r, g + k)
  <2> SUFFICES ASSUME NEW k \in 0 .. len PROVE Moved(Moved(r, g), k) = Moved(r, g + k)
    OBVIOUS
  <2>1. k \in Nat /\ g + k <= Size
    BY <1>1
  <2> QED
    BY <2>1, MovedMoved
<1>7. \A x \in Nat, k \in 0 .. len : x < g => Moved(r, x) # Moved(Moved(r, g), k)
  <2> SUFFICES ASSUME NEW x \in Nat, NEW k \in 0 .. len, x < g
               PROVE  Moved(r, x) # Moved(r, g + k)
    BY <1>6
  <2>1. x \in 0 .. Size - 1 /\ (g + k) \in 0 .. Size - 1 /\ x # g + k
    BY <1>1
  <2> QED
    BY <2>1, MovedOnce
<1> QED
  BY <1>3, <1>4, <1>5, <1>6, <1>7

\* Stepping over the first unread frame leaves the others where they are.
LEMMA WindowReads ==
  ASSUME NEW r \in Offsets, NEW p \in Nat, NEW e \in Nat, NEW len \in 0 .. Size - 1,
         p + len + 1 <= e, e - p <= Size
  PROVE  \A x \in Nat : p + len + 1 <= x /\ x <= e =>
           Moved(Moved(Moved(r, 1), len), x - (p + len + 1)) = Moved(r, x - p)
<1> SUFFICES ASSUME NEW x \in Nat, p + len + 1 <= x, x <= e
             PROVE  Moved(Moved(Moved(r, 1), len), x - (p + len + 1)) = Moved(r, x - p)
  OBVIOUS
<1>1. /\ len \in Nat /\ 1 + len \in Nat /\ 1 + len <= Size /\ x - (p + len + 1) \in Nat
      /\ (1 + len) + (x - (p + len + 1)) = x - p /\ x - p <= Size
  BY RingAssumption
<1>2. Moved(Moved(r, 1), len) = Moved(r, 1 + len)
  BY <1>1, MovedMoved
<1>3. Moved(Moved(r, 1 + len), x - (p + len + 1)) = Moved(r, (1 + len) + (x - (p + len + 1)))
  BY <1>1, MovedMoved
<1> QED
  BY <1>1, <1>2, <1>3

LEMMA PlacedNext ==
  ASSUME NEW j \in Instances, NEW U, NEW p \in Nat, NEW e \in Nat, NEW r, NEW w, NEW M,
         Unread("packet", j)' = U, Passed("packet", j)' = p, Written("packet")' = e,
         read'["packet"][j] = r, write'["packet"] = w, mem'["packet"] = M,
         p <= e, e - p <= Size, w = Moved(r, e - p),
         U # {} => \E m \in U : \A a \in U : m <= a,
         \A id \in U : \A k \in 0 .. log'[id].len :
           M[Moved(r, log'[id].at - p + k)] = <<id, k>>
  PROVE  Placed(j)'
  BY DEF Placed

\* The frames of an instance, counted and bounded.
LEMMA UnreadFacts ==
  ASSUME Typed, NEW j \in Instances
  PROVE  /\ Unread("packet", j) = {id \in Frames("packet") : id > seen["packet"][j]}
         /\ Unread("packet", j) \subseteq Nat /\ IsFiniteSet(Unread("packet", j))
         /\ Unread("packet", j) \subseteq DOMAIN log
         /\ seen["packet"][j] \in 0 .. Len(log)
         /\ \A m \in Unread("packet", j) : (\A a \in Unread("packet", j) : m <= a) =>
              Min(Unread("packet", j)) = m /\ Passed("packet", j) = log[m].at
<1>1. DOMAIN log = 1 .. Len(log) /\ Len(log) \in Nat /\ "packet" \in Fifos
  BY DEF Typed, Fifos
<1>2. seen["packet"][j] \in 0 .. Len(log)
  BY <1>1 DEF Typed
<1>3. Unread("packet", j) \subseteq 1 .. Len(log)
  BY <1>1 DEF Unread
<1>4. IsFiniteSet(1 .. Len(log))
  BY <1>1, FS_Interval
<1>5. IsFiniteSet(Unread("packet", j))
  BY <1>3, <1>4, FS_Subset
<1>6. Unread("packet", j) \subseteq Nat
  BY <1>1, <1>3
<1>7. ASSUME NEW m \in Unread("packet", j), \A a \in Unread("packet", j) : m <= a
      PROVE  Min(Unread("packet", j)) = m /\ Passed("packet", j) = log[m].at
  <2>1. Min(Unread("packet", j)) = m
    BY <1>6, <1>7, MinIs
  <2> QED
    BY <1>7, <2>1 DEF Passed
<1> QED
  BY <1>1, <1>2, <1>3, <1>5, <1>6, <1>7 DEF Unread, Frames

\* Steps that leave the ring and the place of an instance in it alone.
LEMMA RingStays ==
  ASSUME NEW j \in Instances, UNCHANGED log,
         mem'["packet"] = mem["packet"], write'["packet"] = write["packet"],
         read'["packet"][j] = read["packet"][j], seen'["packet"][j] = seen["packet"][j]
  PROVE  /\ Unread("packet", j)' = Unread("packet", j)
         /\ Placed(j) => Placed(j)'
<1>1. Unread("packet", j)' = Unread("packet", j)
  BY DEF Unread
<1>2. Written("packet")' = Written("packet")
  BY DEF Written, Frames, EndOf
<1>3. Passed("packet", j)' = Passed("packet", j)
  BY <1>1, <1>2 DEF Passed
<1> QED
  BY <1>1, <1>2, <1>3 DEF Placed

LEMMA ChainStays ==
  ASSUME UNCHANGED log, Chained
  PROVE  Chained'
  BY DEF Chained, Frames, Written, EndOf

LEMMA PostingIsFinite ==
  ASSUME IsFiniteSet(Instances), NEW j \in Instances
  PROVE  IsFiniteSet(Posting(j)) /\ IsFiniteSet(Posting(j)')
<1>1. Posting(j) \in SUBSET Instances /\ Posting(j)' \in SUBSET Instances
  BY DEF Posting
<1> QED
  BY <1>1, FS_Subset

\* The terms of a count, and the count after a step.
LEMMA CountedNow ==
  ASSUME IsFiniteSet(Instances), Typed, NEW j \in Instances, Counted(j)
  PROVE  \E s, b, c, u \in Nat :
           /\ s = sem["packet"][j] /\ b = (IF pc[j] = "read" THEN 1 ELSE 0)
           /\ c = Cardinality(Posting(j)) /\ u = Cardinality(Unread("packet", j))
           /\ s + b + c <= u
<1>1. sem["packet"][j] \in Nat
  BY DEF Typed, Fifos
<1>2. Cardinality(Posting(j)) \in Nat
  BY PostingIsFinite, FS_CardinalityType
<1>3. Cardinality(Unread("packet", j)) \in Nat
  BY UnreadFacts, FS_CardinalityType
<1> QED
  BY <1>1, <1>2, <1>3 DEF Counted

LEMMA CountedNext ==
  ASSUME NEW j \in Instances, NEW s, NEW b, NEW c, NEW u,
         sem'["packet"][j] = s, (IF pc'[j] = "read" THEN 1 ELSE 0) = b,
         Cardinality(Posting(j)') = c, Cardinality(Unread("packet", j)') = u,
         s + b + c <= u
  PROVE  Counted(j)'
  BY DEF Counted

\* Steps that neither send, post, take a credit nor read a frame.
LEMMA DeliveryQuiet ==
  ASSUME IsFiniteSet(Instances), Typed, Typed', Delivery,
         UNCHANGED <<log, mem, write, joins, post>>,
         read'["packet"] = read["packet"], seen'["packet"] = seen["packet"],
         sem'["packet"] = sem["packet"], connected' \subseteq connected,
         \A j \in Instances : /\ pc'[j] # "idle" => j \in connected'
                              /\ pc'[j] = "read" => pc[j] = "read"
  PROVE  Delivery'
<1>1. Chained'
  BY ChainStays DEF Delivery
<1>2. ASSUME NEW j \in Instances
      PROVE  /\ Outside(j)' /\ (j \in connected' => Placed(j)' /\ Counted(j)')
             /\ pc'[j] # "idle" => j \in connected'
  <2>1. Outside(j)'
    BY DEF Outside, Delivery, Posting
  <2>2. ASSUME j \in connected' PROVE Placed(j)' /\ Counted(j)'
    <3>1. Placed(j) /\ Counted(j)
      BY <2>2 DEF Delivery
    <3>2. Unread("packet", j)' = Unread("packet", j) /\ Placed(j)'
      BY <3>1, RingStays
    <3>3. Posting(j)' = Posting(j) /\ sem'["packet"][j] = sem["packet"][j]
      BY DEF Posting
    <3>4. PICK s, b, c, u \in Nat :
           /\ s = sem["packet"][j] /\ b = (IF pc[j] = "read" THEN 1 ELSE 0)
           /\ c = Cardinality(Posting(j)) /\ u = Cardinality(Unread("packet", j))
           /\ s + b + c <= u
      BY <3>1, CountedNow
    <3>5. PICK d : d = (IF pc'[j] = "read" THEN 1 ELSE 0)
      OBVIOUS
    <3>6. d \in Nat /\ d <= b
      BY <3>4, <3>5
    <3>7. s + d + c <= u
      BY <3>4, <3>6
    <3>8. Counted(j)'
      BY <3>2, <3>3, <3>4, <3>5, <3>7, CountedNext
    <3> QED
      BY <3>2, <3>8
  <2> QED
    BY <2>1, <2>2
<1> QED
  BY <1>1, <1>2 DEF Delivery

\* One post: a credit to come becomes a credit given.
LEMMA DeliveryPost ==
  ASSUME IsFiniteSet(Instances), Typed, Typed', Delivery, NEW i \in Instances, Post(i)
  PROVE  Delivery'
<1>1. UNCHANGED <<ring, connected, history>>
  BY DEF Post
<1>2. CASE post[i] = {}
  <2>1. pc' = [pc EXCEPT ![i] = "idle"] /\ UNCHANGED <<sem, post>>
    BY <1>2 DEF Post
  <2>2. \A j \in Instances : /\ pc'[j] # "idle" => j \in connected'
                             /\ pc'[j] = "read" => pc[j] = "read"
    BY <1>1, <2>1 DEF Delivery, Typed
  <2> QED
    BY <1>1, <2>1, <2>2, DeliveryQuiet DEF ring, history
<1>3. CASE post[i] # {}
  <2>1. PICK j \in post[i] : /\ sem' = [sem EXCEPT !["packet"][j] = @ + 1]
                             /\ post' = [post EXCEPT ![i] = @ \ {j}] /\ UNCHANGED pc
    BY <1>3 DEF Post
  <2>2. j \in Instances
    BY DEF Typed
  <2>3. Chained'
    BY <1>1, ChainStays DEF Delivery, history
  <2>4. ASSUME NEW k \in Instances
        PROVE  Posting(k)' = IF k = j THEN Posting(k) \ {i} ELSE Posting(k)
    BY <2>1 DEF Posting, Typed
  <2>5. i \in Posting(j)
    BY DEF Posting
  <2>6. ASSUME NEW k \in Instances
        PROVE  /\ Outside(k)' /\ (k \in connected' => Placed(k)' /\ Counted(k)')
               /\ pc'[k] # "idle" => k \in connected'
    <3>1. Outside(k)'
      BY <1>1, <2>4 DEF Outside, Delivery, history
    <3>2. pc'[k] # "idle" => k \in connected'
      BY <1>1, <2>1 DEF Delivery
    <3>3. ASSUME k \in connected' PROVE Placed(k)' /\ Counted(k)'
      <4>1. Placed(k) /\ Counted(k)
        BY <1>1, <3>3 DEF Delivery
      <4>2. Unread("packet", k)' = Unread("packet", k) /\ Placed(k)'
        BY <1>1, <4>1, RingStays DEF ring, history
      <4>3. PICK s, b, c, u \in Nat :
             /\ s = sem["packet"][k] /\ b = (IF pc[k] = "read" THEN 1 ELSE 0)
             /\ c = Cardinality(Posting(k)) /\ u = Cardinality(Unread("packet", k))
             /\ s + b + c <= u
        BY <4>1, CountedNow
      <4>4. b = (IF pc'[k] = "read" THEN 1 ELSE 0)
        BY <2>1, <4>3
      <4>5. CASE k # j
        <5>1. sem'["packet"][k] = s /\ Posting(k)' = Posting(k)
          BY <2>1, <2>2, <2>4, <4>3, <4>5 DEF Typed, Fifos
        <5> QED
          BY <4>2, <4>3, <4>4, <5>1, CountedNext
      <4>6. CASE k = j
        <5>1. sem'["packet"][k] = s + 1
          BY <2>1, <2>2, <4>3, <4>6 DEF Typed, Fifos
        <5>2. Cardinality(Posting(k)') = c - 1
          <6>1. IsFiniteSet(Posting(k)) /\ i \in Posting(k) /\ Posting(k)' = Posting(k) \ {i}
            BY <2>4, <2>5, <4>6, PostingIsFinite
          <6> QED
            BY <4>3, <6>1, FS_RemoveElement
        <5>3. (s + 1) + b + (c - 1) <= u
          BY <4>3
        <5> QED
          BY <4>2, <4>3, <4>4, <5>1, <5>2, <5>3, CountedNext
      <4> QED
        BY <4>5, <4>6
    <3> QED
      BY <3>1, <3>2, <3>3
  <2> QED
    BY <2>3, <2>6 DEF Delivery
<1> QED
  BY <1>2, <1>3

\* Semaphore_TryWait: a credit given becomes a credit taken.
LEMMA DeliveryTake ==
  ASSUME IsFiniteSet(Instances), Typed, Typed', Delivery, NEW i \in Instances, TryWait(i)
  PROVE  Delivery'
<1>1. UNCHANGED <<ring, connected, post, history>> /\ pc[i] = "take"
  BY DEF TryWait
<1>2. CASE ~(sem["packet"][i] > 0)
  <2>1. pc' = [pc EXCEPT ![i] = "idle"] /\ UNCHANGED sem
    BY <1>2 DEF TryWait
  <2>2. \A j \in Instances : /\ pc'[j] # "idle" => j \in connected'
                             /\ pc'[j] = "read" => pc[j] = "read"
    BY <1>1, <2>1 DEF Delivery, Typed
  <2> QED
    BY <1>1, <2>1, <2>2, DeliveryQuiet DEF ring, history
<1>3. CASE sem["packet"][i] > 0
  <2>1. /\ sem' = [sem EXCEPT !["packet"][i] = @ - 1]
        /\ pc' = [pc EXCEPT ![i] = "read"]
    BY <1>3 DEF TryWait
  <2>2. Chained'
    BY <1>1, ChainStays DEF Delivery, history
  <2>3. ASSUME NEW k \in Instances
        PROVE  /\ Outside(k)' /\ (k \in connected' => Placed(k)' /\ Counted(k)')
               /\ pc'[k] # "idle" => k \in connected'
    <3>1. Posting(k)' = Posting(k)
      BY <1>1 DEF Posting
    <3>2. Outside(k)'
      BY <1>1, <3>1 DEF Outside, Delivery, history
    <3>3. pc'[k] # "idle" => k \in connected'
      BY <1>1, <2>1 DEF Delivery, Typed
    <3>4. ASSUME k \in connected' PROVE Placed(k)' /\ Counted(k)'
      <4>1. Placed(k) /\ Counted(k)
        BY <1>1, <3>4 DEF Delivery
      <4>2. Unread("packet", k)' = Unread("packet", k) /\ Placed(k)'
        BY <1>1, <4>1, RingStays DEF ring, history
      <4>3. PICK s, b, c, u \in Nat :
             /\ s = sem["packet"][k] /\ b = (IF pc[k] = "read" THEN 1 ELSE 0)
             /\ c = Cardinality(Posting(k)) /\ u = Cardinality(Unread("packet", k))
             /\ s + b + c <= u
        BY <4>1, CountedNow
      <4>4. CASE k # i
        <5>1. sem'["packet"][k] = s /\ b = (IF pc'[k] = "read" THEN 1 ELSE 0)
          BY <2>1, <4>3, <4>4 DEF Typed, Fifos
        <5> QED
          BY <3>1, <4>2, <4>3, <5>1, CountedNext
      <4>5. CASE k = i
        <5>1. sem'["packet"][k] = s - 1 /\ pc'[k] = "read" /\ b = 0
          BY <1>1, <2>1, <4>3, <4>5 DEF Typed, Fifos
        <5>2. (s - 1) + 1 + c <= u
          BY <4>3, <5>1
        <5> QED
          BY <3>1, <4>2, <4>3, <5>1, <5>2, CountedNext
      <4> QED
        BY <4>4, <4>5
    <3> QED
      BY <3>2, <3>3, <3>4
  <2> QED
    BY <2>2, <2>3 DEF Delivery
<1> QED
  BY <1>2, <1>3

\* Begin: an instance that nobody counts in starts with no frames to read.
LEMMA DeliveryBegin ==
  ASSUME IsFiniteSet(Instances), "Rejoin" \notin Ops, Typed, Typed', Delivery,
         NEW i \in Instances, Begin(i)
  PROVE  Delivery'
<1>1. /\ UNCHANGED <<mem, write, pc, post, log>> /\ pc[i] = "idle" /\ joins[i] < 1
      /\ joins' = [joins EXCEPT ![i] = @ + 1]
      /\ read' = [f \in Fifos |-> [read[f] EXCEPT ![i] = write[f]]]
      /\ sem' = [f \in Fifos |-> [sem[f] EXCEPT ![i] = 0]]
      /\ seen' = [f \in Fifos |-> [seen[f] EXCEPT ![i] = Len(log)]]
      /\ connected' = connected \cup {i}
  BY DEF Begin, Newest
<1>2. "packet" \in Fifos
  BY DEF Fifos
<1>3. joins[i] = 0 /\ joins'[i] = 1
  BY <1>1 DEF Typed
<1>4. /\ read'["packet"][i] = write["packet"] /\ sem'["packet"][i] = 0
      /\ seen'["packet"][i] = Len(log) /\ write["packet"] \in Offsets
  BY <1>1, <1>2 DEF Typed
<1>5. Chained'
  BY <1>1, ChainStays DEF Delivery
<1>6. ASSUME NEW k \in Instances
      PROVE  Posting(k)' = Posting(k)
  BY <1>1 DEF Posting
<1>7. Placed(i)' /\ Counted(i)'
  <2>1. Unread("packet", i)' = {}
    <3>1. \A id \in 1 .. Len(log) : ~(id > Len(log))
      BY DEF Typed
    <3>2. DOMAIN log = 1 .. Len(log)
      BY DEF Typed
    <3> QED
      BY <1>1, <1>4, <3>1, <3>2 DEF Unread
  <2>2. Passed("packet", i)' = Written("packet")'
    BY <2>1 DEF Passed
  <2>3. PICK e \in Nat : e = Written("packet")
    BY <1>2, WrittenIs
  <2>4. Written("packet")' = e
    BY <1>1, <1>2, <2>3, LogStays
  <2>5. Moved(write["packet"], e - e) = write["packet"] /\ e - e <= Size /\ e <= e
    BY <1>4, MovedZero, RingAssumption
  <2>6. Placed(i)'
    BY <1>1, <1>4, <2>1, <2>2, <2>4, <2>5, PlacedNext
  <2>7. Cardinality(Posting(i)') = 0
    BY <1>3, <1>6, FS_EmptySet DEF Delivery, Outside
  <2>8. Cardinality(Unread("packet", i)') = 0
    BY <2>1, FS_EmptySet
  <2>9. Counted(i)'
    BY SMTT(60), <1>1, <1>4, <2>7, <2>8, CountedNext
  <2> QED
    BY <2>6, <2>9
<1>8. ASSUME NEW k \in Instances, k # i
      PROVE  /\ Outside(k)' /\ (k \in connected' => Placed(k)' /\ Counted(k)')
  <2>1. joins'[k] = joins[k] /\ (k \in connected' <=> k \in connected)
    BY <1>1, <1>8 DEF Typed
  <2>2. Outside(k)'
    BY <1>6, <2>1 DEF Delivery, Outside
  <2>3. ASSUME k \in connected' PROVE Placed(k)' /\ Counted(k)'
    <3>1. Placed(k) /\ Counted(k)
      BY <2>1, <2>3 DEF Delivery
    <3>2. /\ read'["packet"][k] = read["packet"][k] /\ seen'["packet"][k] = seen["packet"][k]
          /\ sem'["packet"][k] = sem["packet"][k]
      BY <1>1, <1>2, <1>8 DEF Typed
    <3>3. Unread("packet", k)' = Unread("packet", k) /\ Placed(k)'
      BY <1>1, <3>1, <3>2, RingStays
    <3>4. Counted(k)'
      BY <1>1, <1>6, <3>1, <3>2, <3>3 DEF Counted
    <3> QED
      BY <3>3, <3>4
  <2> QED
    BY <2>2, <2>3
<1>9. Outside(i)'
  BY <1>3 DEF Outside
<1>10. \A k \in Instances : pc'[k] # "idle" => k \in connected'
  BY <1>1 DEF Delivery
<1> QED
  BY <1>5, <1>7, <1>8, <1>9, <1>10 DEF Delivery

\* Whoever has taken a credit is at the header of the first frame it has not
\* read, and the whole frame is there.
LEMMA AtFirstUnread ==
  ASSUME IsFiniteSet(Instances), Typed, Delivery, NEW i \in Instances, pc[i] = "read"
  PROVE  \E m \in Unread("packet", i) :
           /\ \A a \in Unread("packet", i) : m <= a
           /\ m = Min(Unread("packet", i)) /\ Passed("packet", i) = log[m].at
           /\ Header("packet", i)[1] = m /\ HasMagic(Header("packet", i))
           /\ \A k \in 0 .. log[m].len : mem["packet"][Moved(read["packet"][i], k)] = <<m, k>>
<1>1. Placed(i) /\ Counted(i)
  BY DEF Delivery
<1>2. Unread("packet", i) # {}
  <2>1. PICK s, b, c, u \in Nat :
           /\ s = sem["packet"][i] /\ b = (IF pc[i] = "read" THEN 1 ELSE 0)
           /\ c = Cardinality(Posting(i)) /\ u = Cardinality(Unread("packet", i))
           /\ s + b + c <= u
    BY <1>1, CountedNow
  <2>2. b = 1 /\ u # 0
    BY <2>1
  <2> QED
    BY <2>1, <2>2, FS_EmptySet
<1>3. PICK m \in Unread("packet", i) : \A a \in Unread("packet", i) : m <= a
  BY <1>1, <1>2 DEF Placed
<1>4. m = Min(Unread("packet", i)) /\ Passed("packet", i) = log[m].at /\ m \in DOMAIN log
  BY <1>3, UnreadFacts
<1>5. log[m].at \in Nat /\ log[m].len \in 0 .. Size - 1 /\ m \in 1 .. Len(log) /\ Len(log) \in Nat
  <2>1. log[m].at \in Nat /\ log[m].len \in 0 .. Size - 1 /\ m \in 1 .. Len(log)
    BY <1>4, LogFrames
  <2> QED
    BY <2>1 DEF Typed
<1>6. \A k \in 0 .. log[m].len : mem["packet"][Moved(read["packet"][i], k)] = <<m, k>>
  <2> SUFFICES ASSUME NEW k \in 0 .. log[m].len
               PROVE  mem["packet"][Moved(read["packet"][i], k)] = <<m, k>>
    OBVIOUS
  <2>1. mem["packet"][Moved(read["packet"][i], log[m].at - log[m].at + k)] = <<m, k>>
    BY <1>1, <1>4 DEF Placed
  <2>2. log[m].at - log[m].at + k = k
    BY <1>5
  <2> QED
    BY <2>1, <2>2
<1>7. 0 \in 0 .. log[m].len /\ m # 0
  BY <1>5
<1>8. Header("packet", i) = mem["packet"][read["packet"][i]] /\ read["packet"][i] \in Offsets
  BY HeaderIs DEF Fifos
<1>9. Moved(read["packet"][i], 0) = read["packet"][i]
  BY <1>8, MovedZero
<1>10. mem["packet"][Moved(read["packet"][i], 0)] = <<m, 0>>
  BY <1>6, <1>7
<1>11. Header("packet", i) = <<m, 0>>
  BY <1>8, <1>9, <1>10, Zenon
<1>12. Header("packet", i)[1] = m /\ HasMagic(Header("packet", i))
  BY <1>7, <1>11 DEF HasMagic
<1> QED
  BY <1>3, <1>4, <1>6, <1>12

\* Behind the first unread frame comes the next one, or what is still to come.
LEMMA NextInChain ==
  ASSUME Typed, Chained, NEW i \in Instances, NEW m \in Unread("packet", i),
         \A a \in Unread("packet", i) : m <= a
  PROVE  /\ EndOf(m) <= Written("packet")
         /\ \A a \in Unread("packet", i) \ {m} : EndOf(m) <= log[a].at
         /\ Unread("packet", i) \ {m} = {} => EndOf(m) = Written("packet")
         /\ Unread("packet", i) \ {m} # {} =>
              \E b \in Unread("packet", i) \ {m} :
                /\ \A a \in Unread("packet", i) \ {m} : b <= a
                /\ log[b].at = EndOf(m)
<1> DEFINE U == Unread("packet", i)
           e == Written("packet")
<1>1. /\ U = {id \in Frames("packet") : id > seen["packet"][i]} /\ U \subseteq Nat
      /\ U \subseteq DOMAIN log /\ seen["packet"][i] \in Nat
  BY UnreadFacts
<1>2. \A a \in U : log[a].at \in Nat /\ log[a].len \in Nat /\ EndOf(a) = log[a].at + log[a].len + 1
  BY <1>1, LogFrames DEF EndOf
<1>3. \A a \in U : /\ EndOf(a) <= e
                   /\ \/ EndOf(a) = e
                      \/ \E b \in Frames("packet") : a < b /\ log[b].at = EndOf(a)
                   /\ \A b \in U : a < b => EndOf(a) <= log[b].at
  BY <1>1 DEF Chained
<1>4. \A a \in U \ {m} : m < a
  BY <1>1
<1>5. \A b \in Frames("packet") : m < b => b \in U
  <2> SUFFICES ASSUME NEW b \in Frames("packet"), m < b PROVE b > seen["packet"][i]
    BY <1>1
  <2>1. b \in Nat /\ m \in Nat /\ m > seen["packet"][i]
    BY <1>1 DEF Frames, Typed
  <2> QED
    BY <1>1, <2>1
<1>6. e \in Nat
  BY WrittenIs DEF Fifos
<1>7. \A a \in U \ {m} : EndOf(m) <= log[a].at
  BY <1>3, <1>4
<1>8. EndOf(m) = e \/ \E b \in U \ {m} : log[b].at = EndOf(m)
  <2> SUFFICES ASSUME NEW b \in Frames("packet"), m < b, log[b].at = EndOf(m)
               PROVE  b \in U \ {m}
    BY <1>3
  <2>1. b \in U /\ b # m
    BY <1>1, <1>5
  <2> QED
    BY <2>1
<1>9. ASSUME U \ {m} # {}
      PROVE  \E b \in U \ {m} : (\A a \in U \ {m} : b <= a) /\ log[b].at = EndOf(m)
  <2>1. EndOf(m) # e
    <3>1. PICK a \in U \ {m} : TRUE
      BY <1>9
    <3>2. EndOf(m) <= log[a].at /\ EndOf(a) <= e /\ log[a].at \in Nat /\ log[a].len \in Nat
          /\ EndOf(a) = log[a].at + log[a].len + 1 /\ EndOf(m) \in Nat
      BY <1>2, <1>3, <1>7
    <3> HIDE DEF e, U
    <3> QED
      BY <1>6, <3>2
  <2>2. PICK b \in U \ {m} : log[b].at = EndOf(m)
    BY <1>8, <2>1
  <2>3. ASSUME NEW a \in U \ {m} PROVE b <= a
    <3> SUFFICES ASSUME a < b PROVE FALSE
      BY <1>1
    <3>1. EndOf(a) <= log[b].at /\ EndOf(m) <= log[a].at
      BY <1>3, <1>7
    <3>2. /\ log[a].at \in Nat /\ log[a].len \in Nat /\ EndOf(m) \in Nat
          /\ EndOf(a) = log[a].at + log[a].len + 1
      BY <1>2
    <3> QED
      BY <2>2, <3>1, <3>2
  <2> QED
    BY <2>2, <2>3
<1> QED
  BY <1>3, <1>7, <1>8, <1>9

\* RecvPacketGeneric steps over the first unread frame.
LEMMA ReadStep ==
  ASSUME IsFiniteSet(Instances), Typed, Delivery, NEW i \in Instances, RecvPacketGeneric(i),
         NEW m \in Unread("packet", i), \A a \in Unread("packet", i) : m <= a,
         Header("packet", i)[1] = m, HasMagic(Header("packet", i))
  PROVE  /\ UNCHANGED <<mem, write, connected, post, log, joins, sem>>
         /\ read' = [read EXCEPT !["packet"][i] = Moved(Moved(@, 1), log[m].len)]
         /\ seen' = [seen EXCEPT !["packet"][i] = m]
         /\ pc[i] = "read" /\ pc' \in {[pc EXCEPT ![i] = "take"], [pc EXCEPT ![i] = "idle"]}
         /\ Unread("packet", i)' = Unread("packet", i) \ {m}
         /\ i \in connected
<1>1. /\ UNCHANGED <<mem, write, connected, post, log, joins, sem>>
      /\ read' = [read EXCEPT !["packet"][i] = Moved(Moved(@, 1), log[m].len)]
      /\ seen' = [seen EXCEPT !["packet"][i] = m]
      /\ pc[i] = "read" /\ pc' \in {[pc EXCEPT ![i] = "take"], [pc EXCEPT ![i] = "idle"]}
  <2>1. ~Overflowed("packet", i)
    BY DEF Overflowed
  <2>2. StepOver("packet", i, m)
    BY <2>1 DEF RecvPacketGeneric
  <2>3. pc' \in {[pc EXCEPT ![i] = "take"], [pc EXCEPT ![i] = "idle"]}
    BY <2>1 DEF RecvPacketGeneric
  <2> QED
    BY <2>1, <2>2, <2>3 DEF RecvPacketGeneric, StepOver
<1>2. i \in connected
  BY <1>1 DEF Delivery
<1>3. "packet" \in Fifos /\ seen'["packet"][i] = m
  BY <1>1 DEF Fifos, Typed
<1>4. Frames("packet")' = Frames("packet")
  BY <1>1 DEF Frames
<1>5. Unread("packet", i)' = {id \in Frames("packet") : id > m}
  BY <1>1, <1>3 DEF Unread, Frames
<1>6. /\ Unread("packet", i) = {id \in Frames("packet") : id > seen["packet"][i]}
      /\ seen["packet"][i] \in Nat /\ Unread("packet", i) \subseteq Nat
  BY UnreadFacts
<1>7. Frames("packet") \subseteq Nat
  BY DEF Frames, Typed
<1>8. \A id \in Frames("packet") : id > m <=> id > seen["packet"][i] /\ id # m
  <2> SUFFICES ASSUME NEW id \in Frames("packet")
               PROVE  id > m <=> id > seen["packet"][i] /\ id # m
    OBVIOUS
  <2>1. id \in Nat /\ m \in Nat /\ m > seen["packet"][i]
    BY <1>6, <1>7
  <2>2. id > seen["packet"][i] => m <= id
    BY <1>6
  <2> QED
    BY <1>6, <2>1, <2>2
<1>9. Unread("packet", i)' = Unread("packet", i) \ {m}
  BY <1>5, <1>6, <1>8
<1> QED
  BY <1>1, <1>2, <1>9

LEMMA ReadPlaces ==
  ASSUME IsFiniteSet(Instances), Typed, Typed', Delivery, NEW i \in Instances, RecvPacketGeneric(i),
         NEW m \in Unread("packet", i), \A a \in Unread("packet", i) : m <= a,
         Passed("packet", i) = log[m].at,
         Header("packet", i)[1] = m, HasMagic(Header("packet", i))
  PROVE  Placed(i)'
<1> DEFINE U == Unread("packet", i)
<1>1. PICK r, l, p, e, w, M :
        /\ r = read["packet"][i] /\ l = log[m].len /\ p = log[m].at
        /\ e = Written("packet") /\ w = write["packet"] /\ M = mem["packet"]
  OBVIOUS
<1>2. PICK q : q = p + l + 1
  OBVIOUS
<1>3. "packet" \in Fifos /\ m \in DOMAIN log
  BY UnreadFacts DEF Fifos
<1>4. r \in Offsets /\ l \in 0 .. Size - 1 /\ p \in Nat /\ e \in Nat /\ q \in Nat
  <2>1. r \in Offsets
    BY <1>1, <1>3 DEF Typed
  <2>2. l \in 0 .. Size - 1 /\ p \in Nat
    BY <1>1, <1>3, LogFrames
  <2>3. e \in Nat
    BY <1>1, <1>3, WrittenIs
  <2> QED
    BY <1>2, <2>1, <2>2, <2>3
<1>5. EndOf(m) = q
  BY <1>1, <1>2 DEF EndOf
<1>6. i \in connected /\ Placed(i)
  BY ReadStep DEF Delivery
<1>7. e - p <= Size /\ w = Moved(r, e - p)
  BY <1>1, <1>6 DEF Placed
<1>8. /\ q <= e
      /\ \A a \in U \ {m} : q <= log[a].at
      /\ U \ {m} = {} => q = e
      /\ U \ {m} # {} => \E b \in U \ {m} : (\A a \in U \ {m} : b <= a) /\ log[b].at = q
  BY <1>1, <1>5, NextInChain DEF Delivery
<1>9. Unread("packet", i)' = U \ {m} /\ UNCHANGED <<log, mem, write>>
  BY ReadStep
<1>10. Written("packet")' = e
  BY <1>1, <1>3, <1>9, LogStays
<1>11. read'["packet"][i] = Moved(Moved(r, 1), l)
  <2>1. read' = [read EXCEPT !["packet"][i] = Moved(Moved(@, 1), log[m].len)]
    BY ReadStep
  <2>2. read \in [Fifos -> [Instances -> Offsets]]
    BY DEF Typed
  <2> QED
    BY <1>1, <1>3, <2>1, <2>2
<1>12. U \subseteq Nat /\ U \subseteq DOMAIN log
  BY UnreadFacts
<1>13. Passed("packet", i)' = q
  <2>1. CASE U \ {m} = {}
    BY <1>8, <1>9, <1>10, <2>1 DEF Passed
  <2>2. CASE U \ {m} # {}
    <3>1. PICK b \in U \ {m} : (\A a \in U \ {m} : b <= a) /\ log[b].at = q
      BY <1>8, <2>2
    <3>2. Min(U \ {m}) = b
      BY <1>12, <3>1, MinIs
    <3> QED
      BY <1>9, <2>2, <3>1, <3>2 DEF Passed
  <2> QED
    BY <2>1, <2>2
<1>14. \A x \in Nat : q <= x /\ x <= e =>
         Moved(Moved(Moved(r, 1), l), x - q) = Moved(r, x - p)
  <2>1. p + l + 1 <= e
    BY <1>2, <1>8
  <2>2. \A x \in Nat : p + l + 1 <= x /\ x <= e =>
          Moved(Moved(Moved(r, 1), l), x - (p + l + 1)) = Moved(r, x - p)
    BY ZenonT(60), <1>4, <1>7, <2>1, WindowReads
  <2> QED
    BY ONLY <1>2, <2>2
<1>15. w = Moved(Moved(Moved(r, 1), l), e - q) /\ e - q <= Size /\ q <= e
  <2>1. q <= e /\ e <= e /\ e - q <= Size
    <3>1. q <= e
      BY <1>8
    <3>2. Size \in Nat /\ l \in Nat
      BY <1>4, RingAssumption
    <3> QED
      BY <1>2, <1>4, <1>7, <3>1, <3>2
  <2>2. Moved(Moved(Moved(r, 1), l), e - q) = Moved(r, e - p)
    BY <1>4, <1>14, <2>1
  <2> QED
    BY <1>7, <2>1, <2>2
<1>16. \A id \in U \ {m} : \A k \in 0 .. log[id].len :
         M[Moved(Moved(Moved(r, 1), l), log[id].at - q + k)] = <<id, k>>
  <2> SUFFICES ASSUME NEW id \in U \ {m}, NEW k \in 0 .. log[id].len
               PROVE  M[Moved(Moved(Moved(r, 1), l), log[id].at - q + k)] = <<id, k>>
    OBVIOUS
  <2>1. PICK a, n : a = log[id].at /\ n = log[id].len
    OBVIOUS
  <2>2. a \in Nat /\ n \in Nat /\ k \in 0 .. n /\ q <= a
    BY <1>8, <1>12, <2>1, LogFrames
  <2>3. a + n + 1 <= e
    <3>1. id \in Frames("packet")
      BY UnreadFacts
    <3> QED
      BY <1>1, <2>1, <3>1 DEF Delivery, Chained, EndOf
  <2>4. /\ a + k \in Nat /\ q <= a + k /\ a + k <= e /\ (a + k) - q = a - q + k
        /\ (a + k) - p = a - p + k
    BY <1>4, <2>2, <2>3
  <2>5. Moved(Moved(Moved(r, 1), l), a - q + k) = Moved(r, a - p + k)
    BY <1>14, <2>4
  <2>6. M[Moved(r, a - p + k)] = <<id, k>>
    BY <1>1, <1>6, <2>1 DEF Placed
  <2> QED
    BY <2>1, <2>5, <2>6
<1>17. PICK V : V = U \ {m}
  OBVIOUS
<1>18. V # {} => \E b \in V : \A a \in V : b <= a
  BY <1>8, <1>17
<1>19. PICK s : s = Moved(Moved(r, 1), l)
  OBVIOUS
<1>20. /\ Unread("packet", i)' = V /\ read'["packet"][i] = s /\ write'["packet"] = w
       /\ mem'["packet"] = M /\ w = Moved(s, e - q)
       /\ \A id \in V : \A k \in 0 .. log'[id].len : M[Moved(s, log'[id].at - q + k)] = <<id, k>>
  BY <1>1, <1>9, <1>11, <1>15, <1>16, <1>17, <1>19
<1> HIDE DEF U
<1> QED
  BY <1>4, <1>10, <1>13, <1>15, <1>18, <1>20 DEF Placed

LEMMA DeliveryRead ==
  ASSUME IsFiniteSet(Instances), Typed, Typed', Delivery, NEW i \in Instances, RecvPacketGeneric(i)
  PROVE  Delivery'
<1>1. pc[i] = "read"
  BY DEF RecvPacketGeneric
<1>2. PICK m \in Unread("packet", i) :
           /\ \A a \in Unread("packet", i) : m <= a
           /\ m = Min(Unread("packet", i)) /\ Passed("packet", i) = log[m].at
           /\ Header("packet", i)[1] = m /\ HasMagic(Header("packet", i))
           /\ \A k \in 0 .. log[m].len : mem["packet"][Moved(read["packet"][i], k)] = <<m, k>>
  BY <1>1, AtFirstUnread
<1>3. /\ UNCHANGED <<mem, write, connected, post, log, joins, sem>>
      /\ read' = [read EXCEPT !["packet"][i] = Moved(Moved(@, 1), log[m].len)]
      /\ seen' = [seen EXCEPT !["packet"][i] = m]
      /\ pc' \in {[pc EXCEPT ![i] = "take"], [pc EXCEPT ![i] = "idle"]}
      /\ Unread("packet", i)' = Unread("packet", i) \ {m}
      /\ i \in connected
  BY <1>2, ReadStep
<1>4. Chained'
  BY <1>3, ChainStays DEF Delivery
<1>5. ASSUME NEW k \in Instances PROVE Posting(k)' = Posting(k) /\ Outside(k)'
  BY <1>3 DEF Posting, Outside, Delivery
<1>6. \A k \in Instances : pc'[k] # "idle" => k \in connected'
  BY SMTT(60), <1>3 DEF Delivery, Typed
<1>7. Placed(i)'
  BY <1>2, ReadPlaces
<1>8. Counted(i)'
  <2>1. PICK s, b, c, u \in Nat :
           /\ s = sem["packet"][i] /\ b = (IF pc[i] = "read" THEN 1 ELSE 0)
           /\ c = Cardinality(Posting(i)) /\ u = Cardinality(Unread("packet", i))
           /\ s + b + c <= u
    BY <1>3, CountedNow DEF Delivery
  <2>2. b = 1 /\ s + 0 + c <= u - 1
    BY <1>1, <2>1
  <2>3. Cardinality(Unread("packet", i)') = u - 1
    <3>1. IsFiniteSet(Unread("packet", i))
      BY UnreadFacts
    <3> QED
      BY <1>3, <2>1, <3>1, FS_RemoveElement
  <2>4. pc'[i] # "read"
    BY <1>3 DEF Typed
  <2> QED
    BY <1>3, <1>5, <2>1, <2>2, <2>3, <2>4, CountedNext
<1>9. ASSUME NEW k \in Instances, k # i, k \in connected' PROVE Placed(k)' /\ Counted(k)'
  <2>1. Placed(k) /\ Counted(k)
    BY <1>3, <1>9 DEF Delivery
  <2>2. /\ read'["packet"][k] = read["packet"][k] /\ seen'["packet"][k] = seen["packet"][k]
        /\ pc'[k] = pc[k]
    BY ZenonT(60), <1>3, <1>9 DEF Typed, Fifos
  <2>3. Unread("packet", k)' = Unread("packet", k) /\ Placed(k)'
    BY <1>3, <2>1, <2>2, RingStays
  <2>4. Counted(k)'
    BY <1>3, <1>5, <2>1, <2>2, <2>3 DEF Counted
  <2> QED
    BY <2>3, <2>4
<1> QED
  BY <1>4, <1>5, <1>6, <1>7, <1>8, <1>9 DEF Delivery

\* A reply goes into the other ring and counts in nobody.
LEMMA DeliverySendReply ==
  ASSUME IsFiniteSet(Instances), Typed, Typed', Delivery, NEW i \in Instances,
         NEW len \in 0 .. Size - 1, SendPacketGeneric(i, "reply", len)
  PROVE  Delivery'
<1>1. PICK frame \in Frame : log' = Append(log, frame) /\ frame.type = "reply"
  <2> DEFINE frame == [sender |-> i, type |-> "reply", len |-> len, at |-> Written("reply"),
                       command |-> command[i]]
  <2>1. Written("reply") \in Nat /\ command[i] \in Nat
    BY WrittenIs DEF Fifos, Typed
  <2>2. frame \in Frame
    BY <2>1 DEF Frame, Types
  <2>3. log' = Append(log, frame)
    BY DEF SendPacketGeneric, Fifo
  <2>4. frame.type = "reply"
    OBVIOUS
  <2> HIDE DEF frame
  <2> QED
    BY <2>2, <2>3, <2>4
<1>2. "packet" \in Fifos /\ Fifo(frame.type) # "packet"
  BY <1>1 DEF Fifo, Fifos
<1>3. Frames("packet")' = Frames("packet") /\ Written("packet")' = Written("packet")
  BY <1>1, <1>2, LogGrows, WrittenGrows
<1>4. \A id \in Frames("packet") : log'[id] = log[id]
  BY <1>1, <1>2, LogGrows DEF Frames
<1>5. /\ mem'["packet"] = mem["packet"] /\ write'["packet"] = write["packet"]
      /\ UNCHANGED <<read, sem, seen, connected, joins>>
      /\ pc[i] = "idle" /\ i \in connected
      /\ pc' = [pc EXCEPT ![i] = "postReply"] /\ post' = [post EXCEPT ![i] = {}]
  BY <1>2 DEF SendPacketGeneric, Fifo, Typed
<1>6. Chained'
  <2>1. \A a \in Frames("packet") : EndOf(a)' = EndOf(a)
    BY <1>4 DEF EndOf
  <2> QED
    BY <1>3, <1>4, <2>1 DEF Delivery, Chained
<1>7. ASSUME NEW k \in Instances
      PROVE  /\ Outside(k)' /\ (k \in connected' => Placed(k)' /\ Counted(k)')
             /\ pc'[k] # "idle" => k \in connected'
  <2>1. Posting(k)' \subseteq Posting(k)
    BY <1>5 DEF Posting, Typed
  <2>2. Outside(k)' /\ (pc'[k] # "idle" => k \in connected')
    <3>1. Posting(k) = {} => Posting(k)' = {}
      BY <2>1
    <3>2. Outside(k) /\ (pc[k] # "idle" => k \in connected)
      BY DEF Delivery
    <3>3. Outside(k)'
      BY <1>5, <3>1, <3>2 DEF Outside
    <3>4. pc'[k] = pc[k] \/ k = i
      BY <1>5 DEF Typed
    <3> QED
      BY <1>5, <3>2, <3>3, <3>4
  <2>3. ASSUME k \in connected' PROVE Placed(k)' /\ Counted(k)'
    <3>1. Placed(k) /\ Counted(k)
      BY <1>5, <2>3 DEF Delivery
    <3>2. Unread("packet", k)' = {id \in Frames("packet")' : id > seen'["packet"][k]}
      BY DEF Unread, Frames
    <3>3. Unread("packet", k)' = Unread("packet", k)
      BY <1>3, <1>5, <3>2, UnreadFacts
    <3>4. \A id \in Unread("packet", k) : log'[id] = log[id]
      BY <1>4, UnreadFacts
    <3>5. Passed("packet", k)' = Passed("packet", k)
      <4>1. CASE Unread("packet", k) = {}
        BY <1>3, <3>3, <4>1 DEF Passed
      <4>2. CASE Unread("packet", k) # {}
        <5>1. PICK m \in Unread("packet", k) : \A a \in Unread("packet", k) : m <= a
          BY <3>1, <4>2 DEF Placed
        <5>2. Min(Unread("packet", k)) = m
          BY <5>1, UnreadFacts
        <5> QED
          BY <3>3, <3>4, <4>2, <5>2 DEF Passed
      <4> QED
        BY <4>1, <4>2
    <3>6. Placed(k)'
      BY ZenonT(60), <1>3, <1>5, <3>1, <3>3, <3>4, <3>5 DEF Placed
    <3>7. Counted(k)'
      <4>1. PICK s, b, c, u \in Nat :
             /\ s = sem["packet"][k] /\ b = (IF pc[k] = "read" THEN 1 ELSE 0)
             /\ c = Cardinality(Posting(k)) /\ u = Cardinality(Unread("packet", k))
             /\ s + b + c <= u
        BY <3>1, CountedNow
      <4>2. b = (IF pc'[k] = "read" THEN 1 ELSE 0)
        BY <1>5, <4>1 DEF Typed
      <4>3. PICK d : d = Cardinality(Posting(k)')
        OBVIOUS
      <4>4. d \in Nat /\ d <= c
        <5>1. IsFiniteSet(Posting(k)) /\ IsFiniteSet(Posting(k)')
          BY PostingIsFinite
        <5>2. Posting(k)' \in SUBSET Posting(k)
          BY <2>1
        <5> QED
          BY <4>1, <4>3, <5>1, <5>2, FS_Subset, FS_CardinalityType
      <4>5. s + b + d <= u
        BY <4>1, <4>4
      <4> QED
        BY <1>5, <3>3, <4>1, <4>2, <4>3, <4>5, CountedNext
    <3> QED
      BY <3>6, <3>7
  <2> QED
    BY <2>2, <2>3
<1> QED
  BY <1>6, <1>7 DEF Delivery

\* The frame a sender adds, and what it does to the other variables.
LEMMA SendFacts ==
  ASSUME Typed, NEW i \in Instances, NEW type \in Types \ {"reply"}, NEW len \in 0 .. Size - 1,
         SendPacketGeneric(i, type, len), "Overflow" \notin Ops
  PROVE  \E frame \in Frame :
           /\ log' = Append(log, frame) /\ Fifo(frame.type) = "packet"
           /\ frame.at = Written("packet") /\ frame.len = len
           /\ mem'["packet"] = FIFOWrite("packet", Len(log) + 1, len)
           /\ write'["packet"] = Moved(Moved(write["packet"], 1), len)
           /\ read'["packet"] = read["packet"] /\ sem'["packet"] = sem["packet"]
           /\ seen'["packet"] = seen["packet"] /\ UNCHANGED <<connected, joins>>
           /\ pc[i] = "idle" /\ i \in connected
           /\ pc' = [pc EXCEPT ![i] = "post"] /\ post' = [post EXCEPT ![i] = connected]
           /\ \A k \in connected : Written("packet") - Passed("packet", k) + len + 1 <= Size
<1> DEFINE frame == [sender |-> i, type |-> type, len |-> len, at |-> Written("packet"),
                     command |-> IF type = "cmd" THEN Len(log) + 1 ELSE command[i]]
<1>1. Fifo(type) = "packet" /\ "packet" \in Fifos /\ "reply" \in Fifos /\ type # "reply"
  BY DEF Fifo, Fifos
<1>2. Written("packet") \in Nat /\ command[i] \in Nat /\ Len(log) + 1 \in Nat
  <2>1. Written("packet") \in Nat
    BY <1>1, WrittenIs
  <2> QED
    BY <2>1 DEF Typed
<1>3. frame \in Frame
  BY <1>2 DEF Frame
<1>4. log' = Append(log, frame)
  BY <1>1 DEF SendPacketGeneric, Newest
<1>5. frame.type = type /\ frame.at = Written("packet") /\ frame.len = len
  OBVIOUS
<1>6. /\ mem'["packet"] = FIFOWrite("packet", Len(log) + 1, len)
      /\ write'["packet"] = Moved(Moved(write["packet"], 1), len)
  BY <1>1 DEF SendPacketGeneric, Newest, Typed
<1>7. /\ read'["packet"] = read["packet"] /\ sem'["packet"] = sem["packet"]
      /\ seen'["packet"] = seen["packet"]
  <2>1. CASE type = "cmd"
    BY <1>1, <2>1 DEF SendPacketGeneric, Typed
  <2>2. CASE type # "cmd"
    BY <2>2 DEF SendPacketGeneric
  <2> QED
    BY <2>1, <2>2
<1>8. /\ UNCHANGED <<connected, joins>> /\ pc[i] = "idle" /\ i \in connected
      /\ pc' = [pc EXCEPT ![i] = "post"] /\ post' = [post EXCEPT ![i] = connected]
  BY <1>1 DEF SendPacketGeneric, Receivers
<1>9. \A k \in connected : Written("packet") - Passed("packet", k) + len + 1 <= Size
  BY <1>1 DEF SendPacketGeneric, Fits
<1> HIDE DEF frame
<1> QED
  BY <1>1, <1>3, <1>4, <1>5, <1>6, <1>7, <1>8, <1>9

\* A receiver finds the new frame behind those it has not read.
LEMMA SendPlaces ==
  ASSUME Typed, Typed', Delivery, NEW k \in connected, NEW len \in 0 .. Size - 1,
         NEW frame \in Frame,
         log' = Append(log, frame), Fifo(frame.type) = "packet",
         frame.at = Written("packet"), frame.len = len,
         mem'["packet"] = FIFOWrite("packet", Len(log) + 1, len),
         write'["packet"] = Moved(Moved(write["packet"], 1), len),
         read'["packet"] = read["packet"], seen'["packet"] = seen["packet"],
         Written("packet") - Passed("packet", k) + len + 1 <= Size
  PROVE  /\ Unread("packet", k)' = Unread("packet", k) \cup {Len(log) + 1}
         /\ Placed(k)'
<1> DEFINE U == Unread("packet", k)
<1>1. PICK r, p, e, w, M, n :
        /\ r = read["packet"][k] /\ p = Passed("packet", k) /\ e = Written("packet")
        /\ w = write["packet"] /\ M = mem["packet"] /\ n = Len(log) + 1
  OBVIOUS
<1>2. "packet" \in Fifos /\ k \in Instances
  BY DEF Fifos, Typed
<1>3. Placed(k)
  BY <1>2 DEF Delivery
<1>4. /\ r \in Offsets /\ w \in Offsets /\ p \in Nat /\ e \in Nat /\ n \in Nat
      /\ p <= e /\ e - p <= Size /\ w = Moved(r, e - p)
  <2>1. r \in Offsets /\ w \in Offsets /\ n \in Nat
    BY <1>1, <1>2 DEF Typed
  <2>2. e \in Nat
    BY <1>1, <1>2, WrittenIs
  <2> QED
    BY <1>1, <1>3, <2>1, <2>2 DEF Placed
<1>5. /\ log'[n] = frame /\ Frames("packet")' = Frames("packet") \cup {n}
      /\ \A id \in DOMAIN log : log'[id] = log[id]
  BY <1>1, <1>2, LogGrows
<1>6. /\ U = {id \in Frames("packet") : id > seen["packet"][k]} /\ U \subseteq Nat
      /\ U \subseteq DOMAIN log /\ seen["packet"][k] \in 0 .. Len(log)
  BY <1>2, UnreadFacts
<1>7. \A id \in U : log'[id] = log[id] /\ id \in Nat /\ id < n
  <2>1. \A id \in DOMAIN log : id < n /\ id \in Nat
    <3>1. DOMAIN log = 1 .. Len(log) /\ Len(log) \in Nat
      BY DEF Typed
    <3>2. n = Len(log) + 1
      BY <1>1
    <3> QED
      BY <3>1, <3>2
  <2> QED
    BY <1>5, <1>6, <2>1
<1>8. Unread("packet", k)' = U \cup {n}
  <2>1. Unread("packet", k)' = {id \in Frames("packet")' : id > seen'["packet"][k]}
    BY DEF Unread, Frames
  <2>2. n > seen["packet"][k]
    <3>1. n = Len(log) + 1 /\ Len(log) \in Nat
      BY <1>1 DEF Typed
    <3>2. PICK c : c = seen["packet"][k]
      OBVIOUS
    <3>3. c \in 0 .. Len(log)
      BY <1>6, <3>2
    <3>4. n > c
      BY ONLY <3>1, <3>3
    <3> QED
      BY <3>2, <3>4
  <2> QED
    BY <1>5, <1>6, <2>1, <2>2
<1>9. Written("packet")' = e + len + 1
  BY <1>1, <1>2, WrittenGrows
<1>10. Passed("packet", k)' = p
  <2>1. CASE U = {}
    <3>1. Unread("packet", k)' = {n}
      BY <1>8, <2>1
    <3>2. Min({n}) = n
      BY <1>4 DEF Min
    <3>3. Passed("packet", k)' = log'[n].at
      BY <3>1, <3>2 DEF Passed
    <3>4. p = e
      BY <1>1, <2>1 DEF Passed
    <3> QED
      BY <1>1, <1>5, <3>3, <3>4
  <2>2. CASE U # {}
    <3>1. PICK m \in U : \A a \in U : m <= a
      BY <1>3, <2>2 DEF Placed
    <3>2. p = log[m].at
      BY <1>1, <1>2, <3>1, UnreadFacts
    <3>3. PICK V : V = U \cup {n}
      OBVIOUS
    <3>4. V \subseteq Nat /\ m \in V /\ \A a \in V : m <= a
      BY <1>4, <1>6, <1>7, <3>1, <3>3
    <3>5. Min(V) = m
      BY <3>4, MinIs
    <3>6. Passed("packet", k)' = log'[m].at
      BY <1>8, <3>3, <3>4, <3>5 DEF Passed
    <3> QED
      BY <1>7, <3>1, <3>2, <3>6
  <2> QED
    BY <2>1, <2>2
<1>11. e - p + len + 1 <= Size
  BY <1>1
<1>12. /\ Moved(Moved(w, 1), len) = Moved(r, (e + len + 1) - p)
       /\ \A j \in 0 .. len : Moved(w, j) = Moved(r, e - p + j)
       /\ \A x \in Nat, j \in 0 .. len : x < e - p => Moved(r, x) # Moved(w, j)
  <2>1. PICK g : g = e - p
    OBVIOUS
  <2>2. g \in Nat /\ g + len + 1 <= Size /\ w = Moved(r, g) /\ g + len + 1 = (e + len + 1) - p
    BY <1>4, <1>11, <2>1
  <2>3. /\ Moved(Moved(Moved(r, g), 1), len) = Moved(r, g + len + 1)
        /\ \A j \in 0 .. len : Moved(Moved(r, g), j) = Moved(r, g + j)
        /\ \A x \in Nat, j \in 0 .. len : x < g => Moved(r, x) # Moved(Moved(r, g), j)
    BY <1>4, <2>2, WindowSends
  <2> QED
    BY <2>1, <2>2, <2>3
<1>13. PICK F : F = FIFOWrite("packet", n, len)
  OBVIOUS
<1>14. /\ \A j \in 0 .. len : F[Moved(w, j)] = <<n, j>>
       /\ \A o \in Offsets : (\A j \in 0 .. len : Moved(w, j) # o) => F[o] = M[o]
  <2>1. /\ \A j \in 0 .. len : FIFOWrite("packet", n, len)[Moved(write["packet"], j)] = <<n, j>>
        /\ \A o \in Offsets : (\A j \in 0 .. len : Moved(write["packet"], j) # o) =>
             FIFOWrite("packet", n, len)[o] = mem["packet"][o]
    BY ZenonT(60), <1>2, <1>4, FIFOWriteCells
  <2> QED
    BY <1>1, <1>13, <2>1
<1>15. \A id \in U \cup {n} : \A j \in 0 .. log'[id].len :
         F[Moved(r, log'[id].at - p + j)] = <<id, j>>
  <2>1. ASSUME NEW j \in 0 .. len
        PROVE  F[Moved(r, e - p + j)] = <<n, j>>
    BY <1>12, <1>14
  <2>2. log'[n].at = e /\ log'[n].len = len
    BY <1>1, <1>5
  <2>3. ASSUME NEW id \in U, NEW j \in 0 .. log[id].len
        PROVE  F[Moved(r, log[id].at - p + j)] = <<id, j>>
    <3>1. PICK a, l : a = log[id].at /\ l = log[id].len
      OBVIOUS
    <3>2. a \in Nat /\ l \in Nat /\ j \in 0 .. l
      BY <1>6, <2>3, <3>1, LogFrames
    <3>3. a + l + 1 <= e /\ p <= a
      <4>1. id \in Frames("packet")
        BY <1>6
      <4>2. a + l + 1 <= e
        BY <1>1, <3>1, <4>1 DEF Delivery, Chained, EndOf
      <4>3. PICK m \in U : \A b \in U : m <= b
        BY <1>3 DEF Placed
      <4>4. p = log[m].at /\ m \in Frames("packet") /\ m \in DOMAIN log
        BY <1>1, <1>2, <1>6, <4>3, UnreadFacts
      <4>5. log[m].len \in Nat /\ p \in Nat /\ EndOf(m) = p + log[m].len + 1
        BY <4>4, LogFrames DEF EndOf
      <4>6. m # id => EndOf(m) <= a
        <5>1. m # id => m < id
          BY <1>6, <4>3
        <5> QED
          BY <3>1, <4>1, <4>4, <5>1 DEF Delivery, Chained
      <4>7. m = id => p = a
        BY <3>1, <4>4
      <4> QED
        BY <3>2, <4>2, <4>5, <4>6, <4>7
    <3>4. PICK x : x = a - p + j
      OBVIOUS
    <3>5. x \in Nat /\ x < e - p /\ x \in 0 .. Size
      <4>1. Size \in Nat
        BY RingAssumption
      <4>2. p \in Nat /\ e \in Nat /\ e - p <= Size
        BY <1>4
      <4> QED
        BY ONLY <3>2, <3>3, <3>4, <4>1, <4>2
    <3>6. Moved(r, x) \in Offsets
      BY <1>4, <3>5, MovedIn
    <3>7. F[Moved(r, x)] = M[Moved(r, x)]
      BY <1>12, <1>14, <3>5, <3>6
    <3>8. M[Moved(r, a - p + j)] = <<id, j>>
      BY <1>1, <1>3, <3>1 DEF Placed
    <3> QED
      BY <3>1, <3>4, <3>7, <3>8
  <2> QED
    BY <1>7, <2>1, <2>2, <2>3
<1>16. PICK V : V = U \cup {n}
  OBVIOUS
<1>17. \E m \in V : \A a \in V : m <= a
  <2>1. CASE U = {}
    <3>1. V = {n} /\ n <= n
      BY <1>4, <1>16, <2>1
    <3> QED
      BY <3>1
  <2>2. CASE U # {}
    <3>1. PICK m \in U : \A a \in U : m <= a
      BY <1>3, <2>2 DEF Placed
    <3>2. m <= n
      BY <1>4, <1>7, <3>1
    <3> QED
      BY <1>16, <3>1, <3>2
  <2> QED
    BY <2>1, <2>2
<1>18. PICK d : d = e + len + 1
  OBVIOUS
<1>19. d \in Nat /\ p <= d /\ d - p <= Size
  BY <1>4, <1>11, <1>18
<1>20. PICK z : z = Moved(Moved(w, 1), len)
  OBVIOUS
<1>21. z = Moved(r, d - p)
  <2>1. Moved(Moved(w, 1), len) = Moved(r, (e + len + 1) - p)
    BY <1>12
  <2> QED
    BY ONLY <1>18, <1>20, <2>1
<1>22. /\ Unread("packet", k)' = V /\ Passed("packet", k)' = p /\ Written("packet")' = d
       /\ read'["packet"][k] = r /\ write'["packet"] = z /\ mem'["packet"] = F
       /\ \A id \in V : \A j \in 0 .. log'[id].len : F[Moved(r, log'[id].at - p + j)] = <<id, j>>
  BY <1>1, <1>8, <1>9, <1>10, <1>13, <1>15, <1>16, <1>18, <1>20
<1>23. Placed(k)'
  <2> HIDE DEF U
  <2> QED
    BY <1>4, <1>17, <1>19, <1>21, <1>22 DEF Placed
<1> QED
  BY <1>1, <1>8, <1>23

LEMMA SendChains ==
  ASSUME Typed, Chained, NEW frame \in Frame, log' = Append(log, frame),
         Fifo(frame.type) = "packet", frame.at = Written("packet")
  PROVE  Chained'
<1>1. "packet" \in Fifos
  BY DEF Fifos
<1>2. PICK n, e, l : n = Len(log) + 1 /\ e = Written("packet") /\ l = frame.len
  OBVIOUS
<1>3. n \in Nat /\ e \in Nat /\ l \in Nat
  <2>1. e \in Nat
    BY <1>1, <1>2, WrittenIs
  <2> QED
    BY <1>2, <2>1 DEF Frame, Typed
<1>4. /\ Frames("packet")' = Frames("packet") \cup {n} /\ log'[n] = frame
      /\ \A a \in Frames("packet") : a < n
      /\ \A id \in DOMAIN log : log'[id] = log[id]
  BY <1>1, <1>2, LogGrows
<1>5. Frames("packet") \subseteq DOMAIN log /\ Frames("packet") \subseteq Nat
  BY DEF Frames, Typed
<1>6. Written("packet")' = e + l + 1
  BY <1>1, <1>2, WrittenGrows
<1>7. log'[n].at = e /\ EndOf(n)' = e + l + 1
  BY <1>2, <1>4 DEF EndOf
<1>8. \A a \in Frames("packet") : EndOf(a)' = EndOf(a) /\ EndOf(a) \in Nat /\ log'[a] = log[a]
  BY <1>4, <1>5, LogFrames DEF EndOf
<1>9. \A a \in Frames("packet") :
        /\ EndOf(a) <= e
        /\ \/ EndOf(a) = e
           \/ \E b \in Frames("packet") : a < b /\ log[b].at = EndOf(a)
        /\ \A b \in Frames("packet") : a < b => EndOf(a) <= log[b].at
  BY <1>2 DEF Chained
<1>10. ASSUME NEW a \in Frames("packet")
       PROVE  /\ EndOf(a)' <= e + l + 1
              /\ \E b \in Frames("packet")' : a < b /\ log'[b].at = EndOf(a)'
              /\ \A b \in Frames("packet")' : a < b => EndOf(a)' <= log'[b].at
  <2>1. PICK x : x = EndOf(a)
    OBVIOUS
  <2>2. x \in Nat /\ x <= e /\ x <= e + l + 1 /\ EndOf(a)' = x
    BY <1>3, <1>8, <1>9, <2>1
  <2>3. \E b \in Frames("packet")' : a < b /\ log'[b].at = x
    <3>1. CASE x = e
      BY <1>4, <1>7, <3>1
    <3>2. CASE \E b \in Frames("packet") : a < b /\ log[b].at = x
      BY <1>4, <1>8, <3>2
    <3> QED
      BY <1>9, <2>1, <3>1, <3>2
  <2>4. \A b \in Frames("packet")' : a < b => x <= log'[b].at
    BY <1>4, <1>7, <1>8, <1>9, <2>1, <2>2
  <2> QED
    BY <2>2, <2>3, <2>4
<1>11. \A b \in Frames("packet")' : ~(n < b)
  BY <1>3, <1>4, <1>5
<1>12. ASSUME NEW a \in Frames("packet")'
       PROVE  /\ EndOf(a)' <= Written("packet")'
              /\ \/ EndOf(a)' = Written("packet")'
                 \/ \E b \in Frames("packet")' : a < b /\ log'[b].at = EndOf(a)'
              /\ \A b \in Frames("packet")' : a < b => EndOf(a)' <= log'[b].at
  <2>1. CASE a \in Frames("packet")
    BY <1>6, <1>10, <2>1
  <2>2. CASE a = n
    <3>1. e + l + 1 <= e + l + 1
      BY <1>3
    <3> QED
      BY <1>6, <1>7, <1>11, <2>2, <3>1
  <2> QED
    BY <1>4, <2>1, <2>2
<1> QED
  BY <1>12 DEF Chained

LEMMA DeliverySend ==
  ASSUME IsFiniteSet(Instances), Typed, Typed', Delivery, NEW i \in Instances,
         NEW type \in Types \ {"reply"}, NEW len \in 0 .. Size - 1,
         SendPacketGeneric(i, type, len), "Overflow" \notin Ops
  PROVE  Delivery'
<1>1. PICK frame \in Frame :
           /\ log' = Append(log, frame) /\ Fifo(frame.type) = "packet"
           /\ frame.at = Written("packet") /\ frame.len = len
           /\ mem'["packet"] = FIFOWrite("packet", Len(log) + 1, len)
           /\ write'["packet"] = Moved(Moved(write["packet"], 1), len)
           /\ read'["packet"] = read["packet"] /\ sem'["packet"] = sem["packet"]
           /\ seen'["packet"] = seen["packet"] /\ UNCHANGED <<connected, joins>>
           /\ pc[i] = "idle" /\ i \in connected
           /\ pc' = [pc EXCEPT ![i] = "post"] /\ post' = [post EXCEPT ![i] = connected]
           /\ \A k \in connected : Written("packet") - Passed("packet", k) + len + 1 <= Size
  BY SendFacts
<1>2. Chained'
  BY <1>1, SendChains DEF Delivery
<1>3. ASSUME NEW k \in Instances
      PROVE  /\ Outside(k)' /\ (k \in connected' => Placed(k)' /\ Counted(k)')
             /\ pc'[k] # "idle" => k \in connected'
  <2>1. pc'[k] # "idle" => k \in connected'
    BY <1>1 DEF Delivery, Typed
  <2>a. \A s \in Instances : post'[s] = IF s = i THEN connected ELSE post[s]
    BY <1>1 DEF Typed
  <2>2. k \in connected => Posting(k)' = Posting(k) \cup {i}
    BY <2>a DEF Posting
  <2>3. k \notin connected => Posting(k)' \subseteq Posting(k)
    BY <2>a DEF Posting
  <2>4. Outside(k)'
    <3>1. joins[k] = 0 => k \notin connected /\ Posting(k) = {}
      BY DEF Delivery, Outside
    <3> QED
      BY <1>1, <2>3, <3>1 DEF Outside
  <2>5. ASSUME k \in connected' PROVE Placed(k)' /\ Counted(k)'
    <3>1. k \in connected /\ Counted(k)
      BY <1>1, <2>5 DEF Delivery
    <3>2. Unread("packet", k)' = Unread("packet", k) \cup {Len(log) + 1} /\ Placed(k)'
      BY <1>1, <3>1, SendPlaces
    <3>3. PICK s, b, c, u \in Nat :
           /\ s = sem["packet"][k] /\ b = (IF pc[k] = "read" THEN 1 ELSE 0)
           /\ c = Cardinality(Posting(k)) /\ u = Cardinality(Unread("packet", k))
           /\ s + b + c <= u
      BY <3>1, CountedNow
    <3>4. PICK c2 : c2 = Cardinality(Posting(k)')
      OBVIOUS
    <3>5. c2 \in Nat /\ c2 <= c + 1
      <4>1. IsFiniteSet(Posting(k))
        BY PostingIsFinite
      <4>2. c2 = IF i \in Posting(k) THEN c ELSE c + 1
        BY <2>2, <3>1, <3>3, <3>4, <4>1, FS_AddElement
      <4> QED
        BY <3>3, <4>2
    <3>6. Cardinality(Unread("packet", k)') = u + 1
      <4>1. IsFiniteSet(Unread("packet", k)) /\ Unread("packet", k) \subseteq DOMAIN log
        BY UnreadFacts
      <4>2. Len(log) + 1 \notin DOMAIN log
        BY DEF Typed
      <4> QED
        BY <3>2, <3>3, <4>1, <4>2, FS_AddElement
    <3>7. b = (IF pc'[k] = "read" THEN 1 ELSE 0) /\ sem'["packet"][k] = s
      BY <1>1, <3>3 DEF Typed
    <3>8. s + b + c2 <= u + 1
      BY <3>3, <3>5
    <3>9. Counted(k)'
      BY <3>4, <3>6, <3>7, <3>8, CountedNext
    <3> QED
      BY <3>2, <3>9
  <2> QED
    BY <2>1, <2>4, <2>5
<1> QED
  BY <1>2, <1>3 DEF Delivery

LEMMA DeliveryInit ==
  ASSUME Init
  PROVE  Delivery
<1>1. log = <<>> /\ DOMAIN log = {} /\ connected = {}
  BY DEF Init
<1>2. Frames("packet") = {}
  BY <1>1 DEF Frames
<1>3. \A i \in Instances : pc[i] = "idle" /\ post[i] = {}
  BY DEF Init
<1> QED
  BY <1>1, <1>2, <1>3 DEF Delivery, Chained, Outside, Posting

LEMMA DeliveryStep ==
  ASSUME IsFiniteSet(Instances), Ops = {}, Typed, Typed', Delivery, [Next]_vars
  PROVE  Delivery'
<1>1. CASE UNCHANGED vars
  <2>1. \A j \in Instances : pc'[j] # "idle" => j \in connected'
    BY <1>1 DEF Delivery, vars
  <2> QED
    BY <1>1, <2>1, DeliveryQuiet DEF vars, ring, history
<1>2. CASE Next
  <2>1. PICK i \in Instances :
          \/ Begin(i) \/ End(i) \/ Send(i) \/ Finish(i)
          \/ RecvPacket(i) \/ RecvHostPacket(i) \/ RecvReplies(i)
    BY <1>2 DEF Next
  <2>2. CASE Begin(i)
    BY <2>2, DeliveryBegin
  <2>3. CASE Send(i)
    <3>1. PICK type \in Types, len \in 0 .. Size - 1 : SendPacketGeneric(i, type, len)
      BY <2>3, SendKinds
    <3>2. CASE type = "reply"
      BY <3>1, <3>2, DeliverySendReply
    <3>3. CASE type # "reply"
      BY <3>1, <3>3, DeliverySend
    <3> QED
      BY <3>2, <3>3
  <2>4. CASE Post(i) \/ TryWait(i) \/ RecvPacketGeneric(i)
    BY <2>4, DeliveryPost, DeliveryTake, DeliveryRead
  <2>5. CASE End(i)
    <3>1. /\ pc[i] = "idle" /\ connected' = connected \ {i}
          /\ UNCHANGED <<ring, sem, pc, post, history>>
      BY <2>5 DEF End
    <3>2. \A j \in Instances : /\ pc'[j] # "idle" => j \in connected'
                               /\ pc'[j] = "read" => pc[j] = "read"
      BY <3>1 DEF Delivery
    <3> QED
      BY <3>1, <3>2, DeliveryQuiet DEF ring, history
  <2>6. CASE RecvPacket(i) \/ RecvHostPacket(i) \/ RecvReplies(i)
    <3>1. /\ i \in connected /\ UNCHANGED <<ring, sem, connected, post, history>>
          /\ \E x \in {"take", "takeReply", "idle"} : pc' = [pc EXCEPT ![i] = x]
      <4>1. CASE RecvPacket(i) \/ RecvHostPacket(i)
        BY <4>1 DEF RecvPacket, RecvHostPacket
      <4>2. CASE RecvReplies(i)
        <5>1. pc[i] = "idle"
          BY <4>2 DEF RecvReplies
        <5> QED
          BY <4>2, <5>1 DEF RecvReplies
      <4> QED
        BY <2>6, <4>1, <4>2
    <3>2. \A j \in Instances : /\ pc'[j] # "idle" => j \in connected'
                               /\ pc'[j] = "read" => pc[j] = "read"
      BY <3>1 DEF Delivery, Typed
    <3> QED
      BY <3>1, <3>2, DeliveryQuiet DEF ring, history
  <2>7. CASE PostReply(i) \/ TryWaitReply(i) \/ ReadReply(i)
    <3>1. /\ pc[i] # "idle" /\ UNCHANGED <<mem, write, connected, post, log, joins>>
          /\ read'["packet"] = read["packet"] /\ seen'["packet"] = seen["packet"]
          /\ sem'["packet"] = sem["packet"]
          /\ \E x : x # "read" /\ pc' = [pc EXCEPT ![i] = x]
      <4>a. /\ (\E j, v : sem' = [sem EXCEPT !["reply"][j] = v]) => sem'["packet"] = sem["packet"]
            /\ (\E j, v : read' = [read EXCEPT !["reply"][j] = v]) => read'["packet"] = read["packet"]
            /\ (\E j, v : seen' = [seen EXCEPT !["reply"][j] = v]) => seen'["packet"] = seen["packet"]
        <5>1. "packet" \in Fifos /\ "packet" # "reply"
          BY DEF Fifos
        <5>2. DOMAIN sem = Fifos /\ DOMAIN read = Fifos /\ DOMAIN seen = Fifos
          BY DEF Typed
        <5> QED
          BY <5>1, <5>2
      <4>1. CASE PostReply(i)
        <5>1. \E j, v : sem' = [sem EXCEPT !["reply"][j] = v]
          BY <4>1 DEF PostReply
        <5>2. sem'["packet"] = sem["packet"]
          BY <4>a, <5>1, Zenon
        <5> QED
          BY <4>1, <5>2 DEF PostReply, ring, history
      <4>2. CASE TryWaitReply(i)
        <5>1. UNCHANGED sem \/ \E j, v : sem' = [sem EXCEPT !["reply"][j] = v]
          BY <4>2 DEF TryWaitReply
        <5>2. sem'["packet"] = sem["packet"]
          BY <4>a, <5>1, Zenon
        <5> QED
          BY <4>2, <5>2 DEF TryWaitReply, ring, history
      <4>3. CASE ReadReply(i)
        <5>1. pc[i] # "idle" /\ UNCHANGED <<mem, write, connected, post, log, joins>>
          BY <4>3 DEF ReadReply
        <5>2. /\ read'["packet"] = read["packet"] /\ seen'["packet"] = seen["packet"]
              /\ sem'["packet"] = sem["packet"]
          <6>1. CASE Overflowed("reply", i)
            <7>1. /\ \E j, v : read' = [read EXCEPT !["reply"][j] = v]
                  /\ \E j, v : seen' = [seen EXCEPT !["reply"][j] = v]
                  /\ \E j, v : sem' = [sem EXCEPT !["reply"][j] = v]
              BY <6>1, Zenon DEF Overflowed
            <7> QED
              BY <4>a, <7>1, Zenon
          <6>2. CASE UNCHANGED sem /\ \E id : StepOver("reply", i, id)
            <7>1. /\ \E j, v : read' = [read EXCEPT !["reply"][j] = v]
                  /\ \E j, v : seen' = [seen EXCEPT !["reply"][j] = v]
              BY <6>2 DEF StepOver
            <7> QED
              BY <4>a, <6>2, <7>1, Zenon
          <6>3. Overflowed("reply", i) \/ (UNCHANGED sem /\ \E id : StepOver("reply", i, id))
            BY <4>3, Zenon DEF ReadReply
          <6> QED
            BY <6>1, <6>2, <6>3
        <5>3. \E x : x # "read" /\ pc' = [pc EXCEPT ![i] = x]
          BY <4>3 DEF ReadReply, Overflowed
        <5> QED
          BY <5>1, <5>2, <5>3
      <4> QED
        BY <2>7, <4>1, <4>2, <4>3
    <3>2. \A j \in Instances : /\ pc'[j] # "idle" => j \in connected'
                               /\ pc'[j] = "read" => pc[j] = "read"
      BY <3>1 DEF Delivery, Typed
    <3> QED
      BY <3>1, <3>2, DeliveryQuiet
  <2> QED
    BY <2>1, <2>2, <2>3, <2>4, <2>5, <2>6, <2>7 DEF Finish
<1> QED
  BY <1>1, <1>2

\* With receivers that keep up and no instance that comes back, the credits of an
\* instance never exceed the frames that are in the ring for it.
THEOREM DeliveryInvariance ==
  ASSUME IsFiniteSet(Instances), Ops = {}
  PROVE  Spec => [](Typed /\ Delivery)
<1>1. Init => Typed /\ Delivery
  BY TypeInit, DeliveryInit
<1>2. Typed /\ Delivery /\ [Next]_vars => (Typed /\ Delivery)'
  BY TypeStep, DeliveryStep
<1> QED
  BY <1>1, <1>2, PTL DEF Spec

LEMMA IntactIsImplied ==
  ASSUME IsFiniteSet(Instances), Typed, Delivery
  PROVE  FramesIntact
<1> SUFFICES ASSUME NEW i \in connected, pc[i] = "read",
                    NEW m, m = Min(Unread("packet", i))
             PROVE  FIFORead("packet", read["packet"][i], log[m].len + 1)
                      = [k \in 1 .. log[m].len + 1 |-> <<m, k - 1>>]
  BY DEF FramesIntact
<1>1. i \in Instances
  BY DEF Typed
<1>2. /\ m \in Unread("packet", i)
      /\ \A k \in 0 .. log[m].len : mem["packet"][Moved(read["packet"][i], k)] = <<m, k>>
  BY <1>1, AtFirstUnread
<1>3. log[m].len \in Nat
  BY <1>1, <1>2, UnreadFacts, LogFrames
<1>4. PICK l \in Nat : l = log[m].len
  BY <1>3
<1>5. \A k \in 1 .. l + 1 : mem["packet"][Moved(read["packet"][i], k - 1)] = <<m, k - 1>>
  <2> SUFFICES ASSUME NEW k \in 1 .. l + 1
               PROVE  mem["packet"][Moved(read["packet"][i], k - 1)] = <<m, k - 1>>
    OBVIOUS
  <2>1. k - 1 \in 0 .. l
    OBVIOUS
  <2> QED
    BY <1>2, <1>4, <2>1
<1> QED
  BY <1>4, <1>5 DEF FIFORead

LEMMA OrderStep ==
  ASSUME IsFiniteSet(Instances), Typed, Delivery, [Next]_vars,
         NEW i \in Instances, pc[i] = "read", pc'[i] # "read"
  PROVE  seen'["packet"][i] = Min(Unread("packet", i))
<1>1. pc \in [Instances -> Places]
  BY DEF Typed
<1>2. Next
  BY DEF vars
<1>3. PICK j \in Instances :
        \/ Begin(j) \/ End(j) \/ Send(j) \/ Finish(j)
        \/ RecvPacket(j) \/ RecvHostPacket(j) \/ RecvReplies(j)
  BY <1>2 DEF Next
<1>4. RecvPacketGeneric(i)
  <2>1. ~(Begin(j) \/ End(j))
    BY DEF Begin, End
  <2>2. ~(RecvPacket(j) \/ RecvHostPacket(j) \/ RecvReplies(j))
    BY <1>1 DEF RecvPacket, RecvHostPacket, RecvReplies
  <2>3. ~Send(j)
    BY <1>1 DEF Send, SendPacket, SendAck, SendCmd, SendReply, SendPacketGeneric
  <2>4. ~(Post(j) \/ PostReply(j) \/ TryWait(j) \/ TryWaitReply(j))
    BY <1>1 DEF Post, PostReply, TryWait, TryWaitReply
  <2>5. ~ReadReply(j)
    BY <1>1 DEF ReadReply, Overflowed
  <2>6. RecvPacketGeneric(j)
    BY <1>3, <2>1, <2>2, <2>3, <2>4, <2>5 DEF Finish
  <2>7. \E x : pc' = [pc EXCEPT ![j] = x]
    BY <2>6 DEF RecvPacketGeneric, Overflowed
  <2>8. i = j
    BY <1>1, <2>7
  <2> QED
    BY <2>6, <2>8
<1>5. PICK m \in Unread("packet", i) :
           /\ \A a \in Unread("packet", i) : m <= a
           /\ m = Min(Unread("packet", i)) /\ Passed("packet", i) = log[m].at
           /\ Header("packet", i)[1] = m /\ HasMagic(Header("packet", i))
           /\ \A k \in 0 .. log[m].len : mem["packet"][Moved(read["packet"][i], k)] = <<m, k>>
  BY AtFirstUnread
<1>6. seen' = [seen EXCEPT !["packet"][i] = m]
  BY <1>4, <1>5, ReadStep
<1>7. seen'["packet"][i] = m
  BY <1>6 DEF Typed, Fifos
<1> QED
  BY <1>5, <1>7

\* However the writes, the posts after the mutex is given back and the reads of
\* any number of instances interleave, and wherever a frame is split at the end
\* of the ring: who has taken a credit finds the next frame whole.
THEOREM FramesAreWhole ==
  ASSUME IsFiniteSet(Instances), Ops = {}
  PROVE  Spec => []FramesIntact
<1>1. Typed /\ Delivery => FramesIntact
  BY IntactIsImplied
<1> QED
  BY <1>1, DeliveryInvariance, PTL

\* And it comes to the frames one by one in the order they were sent, those of
\* its own it skips included; the overflow path is never taken.
THEOREM FramesComeInOrder ==
  ASSUME IsFiniteSet(Instances), Ops = {}
  PROVE  Spec => FramesInOrder
<1>1. Typed /\ Delivery /\ [Next]_vars =>
        [\A i \in Instances : (pc[i] = "read" /\ pc'[i] # "read") =>
           seen'["packet"][i] = Min(Unread("packet", i))]_vars
  BY OrderStep
<1>2. Spec => [][Next]_vars
  BY PTL DEF Spec
<1> QED
  BY <1>1, <1>2, DeliveryInvariance, PTL DEF FramesInOrder

-----------------------------------------------------------------------------
(* Replies *)

\* Only a host asks for replies, and nothing that is under way is about a later
\* CMD frame than the one it sent last.
Exchanges ==
  /\ \A i \in Instances : pc[i] \in {"takeReply", "readReply"} => i \in Hosts
  /\ \A h \in Hosts :
       /\ command[h] <= Len(log)
       /\ \A i \in Instances : command[i] <= command[h]
       /\ \A id \in DOMAIN log : /\ log[id].command <= command[h]
                                 /\ log[id].type = "cmd" => id <= command[h]

LEMMA ExchangesInit ==
  ASSUME Init
  PROVE  Exchanges
<1>1. log = <<>> /\ Len(log) = 0 /\ DOMAIN log = {} /\ \A i \in Instances : pc[i] = "idle"
  BY DEF Init
<1>2. \A i \in Instances : command[i] = 0
  BY DEF Init
<1> QED
  BY <1>1, <1>2, InstancesAssumption DEF Exchanges

\* Steps that neither send nor take over a command.
LEMMA ExchangesQuiet ==
  ASSUME Exchanges, NEW i \in Instances, UNCHANGED <<command, log>>, Typed,
         \A j \in Instances \ {i} : pc'[j] = pc[j],
         pc'[i] \in {"takeReply", "readReply"} => i \in Hosts
  PROVE  Exchanges'
  BY DEF Exchanges, Typed

LEMMA ExchangesSend ==
  ASSUME Typed, Typed', Exchanges, NEW h, Hosts = {h}, NEW i \in Instances, Send(i)
  PROVE  Exchanges'
<1>1. PICK type \in Types, len \in 0 .. Size - 1 :
           /\ SendPacketGeneric(i, type, len)
           /\ \/ type \in {"packet", "ack"} /\ UNCHANGED command
              \/ type = "cmd" /\ i \in Hosts /\ command' = [command EXCEPT ![i] = Newest + 1]
              \/ type = "reply" /\ i \in Clients /\ command' = [command EXCEPT ![i] = 0]
  BY SendKinds
<1> DEFINE n == Len(log) + 1
<1>2. PICK frame \in Frame :
        /\ log' = Append(log, frame) /\ frame.type = type
        /\ frame.command = IF type = "cmd" THEN n ELSE command[i]
  <2> DEFINE frame == [sender |-> i, type |-> type, len |-> len, at |-> Written(Fifo(type)),
                       command |-> IF type = "cmd" THEN n ELSE command[i]]
  <2>1. Fifo(type) \in Fifos /\ command[i] \in Nat /\ n \in Nat
    BY DEF Fifo, Fifos, Typed
  <2>2. Written(Fifo(type)) \in Nat
    BY <2>1, WrittenIs
  <2>3. frame \in Frame
    BY <2>1, <2>2 DEF Frame
  <2>4. log' = Append(log, frame)
    BY <1>1 DEF SendPacketGeneric, Newest
  <2>5. frame.type = type /\ frame.command = IF type = "cmd" THEN n ELSE command[i]
    OBVIOUS
  <2> HIDE DEF frame
  <2> QED
    BY <2>3, <2>4, <2>5
<1>3. "packet" \in Fifos
  BY DEF Fifos
<1>4. Len(log') = n /\ n \in Nat /\ Len(log) \in Nat /\ DOMAIN log' = 1 .. n /\ DOMAIN log = 1 .. Len(log)
  <2>1. log' \in Seq(Frame) /\ Len(log') = Len(log) + 1
    BY <1>2, <1>3, LogGrows
  <2>2. log \in Seq(Frame)
    BY DEF Typed
  <2> QED
    BY <2>1, <2>2
<1>5. log'[n] = frame /\ \A id \in 1 .. Len(log) : log'[id] = log[id]
  BY <1>2, <1>3, <1>4, LogGrows
<1>6. h \in Instances /\ h \in Hosts
  BY InstancesAssumption
<1>7. pc' = [pc EXCEPT ![i] = IF type = "reply" THEN "postReply" ELSE "post"]
  BY <1>1 DEF SendPacketGeneric
<1>8. \A j \in Instances : pc'[j] \in {"takeReply", "readReply"} => j \in Hosts
  BY <1>7 DEF Exchanges, Typed
<1>9. PICK c : c = command[h]
  OBVIOUS
<1>10. PICK d : d = command'[h]
  OBVIOUS
<1>11. /\ c \in Nat /\ c <= Len(log)
       /\ \A j \in Instances : command[j] \in Nat /\ command[j] <= c
       /\ \A id \in DOMAIN log : /\ log[id].command \in Nat /\ log[id].command <= c
                                 /\ log[id].type = "cmd" => id <= c
  BY <1>6, <1>9, LogFrames DEF Exchanges, Typed
<1>12. /\ d \in Nat /\ c <= d /\ d <= n
       /\ frame.command \in Nat /\ frame.command <= d /\ (frame.type = "cmd" => n <= d)
       /\ \A j \in Instances : command'[j] \in Nat /\ command'[j] <= d
  <2>1. CASE type \in {"packet", "ack"} /\ UNCHANGED command
    <3>1. frame.type # "cmd" /\ frame.command = command[i] /\ d = c
      BY <1>2, <1>9, <1>10, <2>1
    <3> QED
      BY <1>4, <1>11, <2>1, <3>1
  <2>2. CASE type = "cmd" /\ i \in Hosts /\ command' = [command EXCEPT ![i] = Newest + 1]
    <3>1. frame.command = n /\ i = h
      BY <1>2, <2>2
    <3>2. d = n /\ \A j \in Instances : command'[j] = IF j = h THEN n ELSE command[j]
      BY <1>6, <1>10, <2>2, <3>1 DEF Newest, Typed
    <3> QED
      BY <1>4, <1>11, <3>1, <3>2
  <2>3. CASE type = "reply" /\ i \in Clients /\ command' = [command EXCEPT ![i] = 0]
    <3>1. frame.type # "cmd" /\ frame.command = command[i] /\ i # h
      BY <1>2, <1>6, <2>3 DEF Clients
    <3>2. d = c /\ \A j \in Instances : command'[j] = IF j = i THEN 0 ELSE command[j]
      BY <1>6, <1>9, <1>10, <2>3, <3>1 DEF Typed
    <3> QED
      BY <1>4, <1>11, <3>1, <3>2
  <2> QED
    BY <1>1, <2>1, <2>2, <2>3
<1>13. \A id \in 1 .. n : /\ log'[id].command <= d
                          /\ log'[id].type = "cmd" => id <= d
  <2> SUFFICES ASSUME NEW id \in 1 .. n
               PROVE  /\ log'[id].command <= d
                      /\ log'[id].type = "cmd" => id <= d
    OBVIOUS
  <2>1. CASE id = n
    BY <1>5, <1>12, <2>1
  <2>2. CASE id # n
    <3>1. id \in 1 .. Len(log) /\ id \in Nat
      BY <1>4, <2>2
    <3>2. /\ log'[id] = log[id] /\ log[id].command \in Nat /\ log[id].command <= c
          /\ log[id].type = "cmd" => id <= c
      BY <1>4, <1>5, <1>11, <3>1
    <3>3. PICK x : x = log[id].command
      OBVIOUS
    <3>4. x \in Nat /\ x <= c
      BY <3>2, <3>3
    <3>5. x <= d
      BY <1>11, <1>12, <3>4
    <3>6. id <= c => id <= d
      BY <1>11, <1>12, <3>1
    <3> QED
      BY <3>2, <3>3, <3>5, <3>6
  <2> QED
    BY <2>1, <2>2
<1> QED
  BY <1>4, <1>8, <1>10, <1>12, <1>13 DEF Exchanges

LEMMA ExchangesStep ==
  ASSUME Typed, Typed', Exchanges, NEW h, Hosts = {h}, [Next]_vars
  PROVE  Exchanges'
<1>1. CASE UNCHANGED vars
  BY <1>1 DEF Exchanges, vars, history
<1>2. CASE Next
  <2>1. PICK i \in Instances :
          \/ Begin(i) \/ End(i) \/ Send(i) \/ Finish(i)
          \/ RecvPacket(i) \/ RecvHostPacket(i) \/ RecvReplies(i)
    BY <1>2 DEF Next
  <2>2. pc \in [Instances -> Places]
    BY DEF Typed
  <2>3. CASE Send(i)
    BY <2>3, ExchangesSend
  <2>4. CASE \/ Begin(i) \/ End(i) \/ Post(i) \/ PostReply(i) \/ TryWait(i)
             \/ RecvPacket(i) \/ RecvHostPacket(i)
    <3>1. UNCHANGED <<command, log>>
      BY <2>4 DEF Begin, End, Post, PostReply, TryWait, RecvPacket, RecvHostPacket, history
    <3>2. UNCHANGED pc \/ \E x \in {"idle", "read", "take"} : pc' = [pc EXCEPT ![i] = x]
      BY <2>4 DEF Begin, End, Post, PostReply, TryWait, RecvPacket, RecvHostPacket
    <3>3. /\ \A j \in Instances \ {i} : pc'[j] = pc[j]
          /\ pc'[i] \in {"takeReply", "readReply"} => i \in Hosts
      BY <2>2, <3>2 DEF Exchanges
    <3> QED
      BY <3>1, <3>3, ExchangesQuiet
  <2>5. CASE TryWaitReply(i) \/ RecvReplies(i) \/ ReadReply(i)
    <3>1. UNCHANGED <<command, log>>
      BY <2>5 DEF TryWaitReply, RecvReplies, ReadReply, history
    <3>2. i \in Hosts
      BY <2>5 DEF TryWaitReply, RecvReplies, ReadReply, Exchanges
    <3>3. \E x : pc' = [pc EXCEPT ![i] = x]
      BY <2>5 DEF TryWaitReply, RecvReplies, ReadReply, Overflowed
    <3>4. \A j \in Instances \ {i} : pc'[j] = pc[j]
      BY <2>2, <3>3
    <3> QED
      BY <3>1, <3>2, <3>4, ExchangesQuiet
  <2>6. CASE RecvPacketGeneric(i)
    <3>1. PICK id : id = Header("packet", i)[1]
      OBVIOUS
    <3>2. \E x \in {"idle", "take"} : pc' = [pc EXCEPT ![i] = x]
      BY <2>6 DEF RecvPacketGeneric, Overflowed
    <3>3. /\ \A j \in Instances \ {i} : pc'[j] = pc[j]
          /\ pc'[i] \in {"takeReply", "readReply"} => i \in Hosts
      BY <2>2, <3>2
    <3>4. UNCHANGED log
      BY <2>6 DEF RecvPacketGeneric
    <3>5. \/ UNCHANGED command
          \/ /\ i \in Clients /\ id \in DOMAIN log /\ log[id].type = "cmd"
             /\ command' = [command EXCEPT ![i] = id]
      <4>1. HasMagic(Header("packet", i)) => id \in DOMAIN log
        BY <3>1, HeaderIs DEF Fifos
      <4>2. command = [command EXCEPT ![i] = command[i]]
        BY DEF Typed
      <4> QED
        BY <2>6, <3>1, <4>1, <4>2 DEF RecvPacketGeneric
    <3>6. CASE UNCHANGED command
      BY <3>3, <3>4, <3>6, ExchangesQuiet
    <3>7. CASE /\ i \in Clients /\ id \in DOMAIN log /\ log[id].type = "cmd"
               /\ command' = [command EXCEPT ![i] = id]
      <4>1. h \in Hosts /\ h \in Instances /\ i # h
        BY <3>7, InstancesAssumption DEF Clients
      <4>2. command'[h] = command[h] /\ \A j \in Instances : command'[j] = IF j = i THEN id ELSE command[j]
        BY <3>7, <4>1 DEF Typed
      <4>3. \A j \in Instances : command'[j] <= command'[h]
        BY <3>7, <4>1, <4>2 DEF Exchanges
      <4>4. \A j \in Instances : pc'[j] \in {"takeReply", "readReply"} => j \in Hosts
        BY <3>3 DEF Exchanges
      <4> QED
        BY <3>4, <4>1, <4>2, <4>3, <4>4 DEF Exchanges
    <3> QED
      BY <3>5, <3>6, <3>7
  <2> QED
    BY <2>1, <2>3, <2>4, <2>5, <2>6 DEF Finish
<1> QED
  BY <1>1, <1>2

\* What ReadReply adds to the replies.
LEMMA RepliesStep ==
  ASSUME Typed, Exchanges, NEW h, Hosts = {h}, [Next]_vars,
         NEW i \in Instances, NEW r \in replies'[i] \ replies[i]
  PROVE  log[r].sender # i /\ log[r].command = command[i]
<1>1. replies \in [Instances -> SUBSET Nat]
  BY DEF Typed
<1>2. replies' # replies
  OBVIOUS
<1>3. Next
  BY <1>2 DEF vars, exchange
<1>4. PICK j \in Instances : RecvReplies(j) \/ ReadReply(j)
  <2>1. PICK j \in Instances :
          \/ Begin(j) \/ End(j) \/ Send(j) \/ Finish(j)
          \/ RecvPacket(j) \/ RecvHostPacket(j) \/ RecvReplies(j)
    BY <1>3 DEF Next
  <2>2. ~(Begin(j) \/ End(j) \/ RecvPacket(j) \/ RecvHostPacket(j))
    BY <1>2 DEF Begin, End, RecvPacket, RecvHostPacket, exchange
  <2>3. ~Send(j)
    BY <1>2 DEF Send, SendPacket, SendAck, SendCmd, SendReply, SendPacketGeneric, exchange
  <2>4. ~(Post(j) \/ PostReply(j) \/ TryWait(j) \/ RecvPacketGeneric(j) \/ TryWaitReply(j))
    BY <1>2 DEF Post, PostReply, TryWait, RecvPacketGeneric, TryWaitReply, exchange
  <2> QED
    BY <2>1, <2>2, <2>3, <2>4 DEF Finish
<1>5. replies' # [replies EXCEPT ![j] = {}]
  BY <1>1
<1>6. ReadReply(j)
  BY <1>4, <1>5 DEF RecvReplies
<1>7. PICK id : id = Header("reply", j)[1]
  OBVIOUS
<1>8. /\ HasMagic(Header("reply", j)) /\ ~Stale(j, id)
      /\ replies' = [replies EXCEPT ![j] = IF log[id].len = 0 THEN @ ELSE @ \cup {id}]
  BY <1>2, <1>5, <1>6, <1>7 DEF ReadReply
<1>9. i = j /\ r = id
  BY <1>1, <1>8
<1>10. id \in DOMAIN log
  BY <1>7, <1>8, HeaderIs DEF Fifos
<1>11. j = h
  BY <1>6 DEF ReadReply, Exchanges
<1>12. log[id].command <= command[h] /\ command[h] \in Nat /\ log[id].command \in Nat
  BY <1>10, <1>11, LogFrames DEF Exchanges, Typed
<1>13. log[id].sender # j /\ ~(log[id].command < command[j])
  BY <1>8 DEF Stale
<1> QED
  BY <1>9, <1>11, <1>12, <1>13

\* With one host, however late a client answers a CMD frame and however its post
\* races with the next SendCmd, RecvReplies hands the host replies to the frame
\* it sent last only: nobody can answer a later one.
THEOREM RepliesAreToTheLastCommand ==
  ASSUME NEW h, Hosts = {h}
  PROVE  Spec => RepliesAreCurrent
<1>1. Init => Typed /\ Exchanges
  BY TypeInit, ExchangesInit
<1>2. Typed /\ Exchanges /\ [Next]_vars => (Typed /\ Exchanges)'
  BY TypeStep, ExchangesStep
<1>3. Typed /\ Exchanges /\ [Next]_vars =>
        [\A i \in Instances : \A r \in replies'[i] \ replies[i] :
           log[r].sender # i /\ log[r].command = command[i]]_vars
  BY RepliesStep
<1> QED
  BY <1>1, <1>2, <1>3, PTL DEF Spec, RepliesAreCurrent
=============================================================================
