--------------------------- MODULE TexDumpProofs ----------------------------
(***************************************************************************)
(* Proofs about TexDump, for every set of textures and palettes, every     *)
(* budget of the memory of dumped names and every length of the queue.     *)
(***************************************************************************)
EXTENDS TexDump, SequenceTheorems, TLAPS

-----------------------------------------------------------------------------
(* The inductive invariant behind SeenIsAccounted.                         *)

\* Whatever the names of files are put together from.
Names == Textures \X (Palettes \union {None}) \X {"base", "info", "index"}

Jobs == [tex : Textures, pal : Palettes \union {None},
         gen : {"none", "data", "fails"}, out : SUBSET Names]

\* The files WriteJob writes for job j, stage by stage.
FromIndex(j) == {Index(j.tex, j.pal)}
FromInfo(j)  == {Info(j.tex, j.pal)} \union FromIndex(j)
FromBase(j)  == {Base(j.tex)} \union FromInfo(j)

TypeOK ==
    /\ job \in Jobs /\ wjob \in Jobs /\ Q \in Seq(Jobs)
    /\ emu \in {"idle", "palette", "index", "push", "notify", "notifyAll", "join", "clear"}
    /\ worker \in {"none", "loop", "lock", "sleep", "wait", "base", "info", "index", "exited"}
    /\ GRunning \in BOOLEAN

\* Each of the three memories holds names of one kind: forgetting a texture
\* does not give up a file that another memory remembers.
SeenKinds ==
    /\ \A f \in Seen : f[3] = "base"
    /\ \A f \in SeenPalette : f[3] = "info"
    /\ \A f \in SeenPaletteIndex : f[3] = "index"

\* A job has no file that WriteJob does not get to any more.
JobsOwnFiles ==
    /\ job.out \subseteq FromBase(job)
    /\ \A i \in 1..Len(Q) : Q[i].out \subseteq FromBase(Q[i])
    /\ worker = "base" => wjob.out \subseteq FromBase(wjob)
    /\ worker = "info" => wjob.out \subseteq FromInfo(wjob)
    /\ worker = "index" => wjob.out \subseteq FromIndex(wjob)

IInv == TypeOK /\ SeenKinds /\ JobsOwnFiles /\ SeenIsAccounted

-----------------------------------------------------------------------------
(* Lemmas                                                                  *)

\* InFlight, file by file; the second lemma is the same for the next state.
Going(f) ==
    \/ \E i \in 1..Len(Q) : f \in Q[i].out
    \/ worker \in {"base", "info", "index"} /\ f \in wjob.out
    \/ emu \in {"palette", "index", "push"} /\ f \in job.out

LEMMA InFlightMember ==
  ASSUME TypeOK, NEW f
  PROVE  f \in InFlight <=> Going(f)
<1> DEFINE queued  == UNION {Q[i].out : i \in DOMAIN Q}
           written == IF worker \in {"base", "info", "index"} THEN wjob.out ELSE {}
           planned == IF emu \in {"palette", "index", "push"} THEN job.out ELSE {}
<1>1. (DOMAIN Q = 1..Len(Q))
  BY DEF TypeOK
<1>2. (f \in queued <=> \E i \in 1..Len(Q) : f \in Q[i].out)
  BY <1>1
<1>3. (f \in written <=> worker \in {"base", "info", "index"} /\ f \in wjob.out)
  OBVIOUS
<1>4. (f \in planned <=> emu \in {"palette", "index", "push"} /\ f \in job.out)
  OBVIOUS
<1>5. (InFlight = queued \union written \union planned)
  BY DEF InFlight
<1> HIDE DEF queued, written, planned
<1> QED BY <1>2, <1>3, <1>4, <1>5 DEF Going

LEMMA InFlightMemberNext ==
  ASSUME TypeOK', NEW f
  PROVE  f \in InFlight' <=> Going(f)'
<1> DEFINE queued  == UNION {Q[i].out : i \in DOMAIN Q}
           written == IF worker \in {"base", "info", "index"} THEN wjob.out ELSE {}
           planned == IF emu \in {"palette", "index", "push"} THEN job.out ELSE {}
<1>1. (DOMAIN Q = 1..Len(Q))'
  BY DEF TypeOK
<1>2. (f \in queued <=> \E i \in 1..Len(Q) : f \in Q[i].out)'
  BY <1>1
<1>3. (f \in written <=> worker \in {"base", "info", "index"} /\ f \in wjob.out)'
  OBVIOUS
<1>4. (f \in planned <=> emu \in {"palette", "index", "push"} /\ f \in job.out)'
  OBVIOUS
<1>5. (InFlight = queued \union written \union planned)'
  BY DEF InFlight
<1> HIDE DEF queued, written, planned
<1> QED BY <1>2, <1>3, <1>4, <1>5 DEF Going

\* What is to be shown of the files that are remembered after a step.
LEMMA AccountedNext ==
  ASSUME TypeOK, TypeOK', SeenIsAccounted,
         GRunning' => GRunning,
         \A f \in AllSeen' : f \in AllSeen \/ f \in files' \/ f \in lost' \/ Going(f)',
         \A f \in AllSeen' : f \in files => f \in files',
         \A f \in AllSeen' : f \in lost => f \in lost' \/ f \in files' \/ Going(f)',
         \A f \in AllSeen' : Going(f) => f \in lost' \/ f \in files' \/ Going(f)'
  PROVE  SeenIsAccounted'
<1> SUFFICES ASSUME GRunning', NEW f \in AllSeen'
             PROVE  f \in files' \/ f \in lost' \/ f \in InFlight'
  BY DEF SeenIsAccounted
<1>1. f \in AllSeen => f \in files \/ f \in lost \/ f \in InFlight
  BY DEF SeenIsAccounted
<1> QED BY <1>1, InFlightMember, InFlightMemberNext

LEMMA NoJobType == NoJob \in Jobs /\ NoJob.out = {}
<1>1. (CHOOSE t \in Textures : TRUE) \in Textures
  BY TexDumpAssumption
<1> QED BY <1>1 DEF NoJob, Jobs

\* The names a job puts together.
LEMMA NamesOfJob ==
  ASSUME NEW t \in Textures, NEW p \in Palettes \union {None}
  PROVE  /\ Base(t) \in Names /\ Base(t)[3] = "base"
         /\ Info(t, p) \in Names /\ Info(t, p)[3] = "info"
         /\ Index(t, p) \in Names /\ Index(t, p)[3] = "index"
BY DEF Names, Base, Info, Index

\* A sequence a job is appended to, or taken from.
LEMMA QueueEnds ==
  ASSUME NEW S, NEW q \in Seq(S), NEW j \in S
  PROVE  /\ Append(q, j) \in Seq(S) /\ Len(Append(q, j)) = Len(q) + 1
         /\ Len(q) \in Nat
         /\ \A i \in 1..Len(q) : Append(q, j)[i] = q[i]
         /\ Append(q, j)[Len(q) + 1] = j
         /\ q # <<>> => /\ Tail(q) \in Seq(S) /\ Head(q) \in S /\ Head(q) = q[1]
                        /\ Len(Tail(q)) = Len(q) - 1 /\ Len(q) >= 1
                        /\ \A i \in 1..(Len(q) - 1) : Tail(q)[i] = q[i + 1]
BY AppendProperties, HeadTailProperties

-----------------------------------------------------------------------------
(* The emulation thread                                                    *)

\* A texture that is forgotten is a texture: no other memory has its name.
LEMMA KeptSubset ==
  ASSUME NEW S, NEW K \in Kept(S)
  PROVE  K \subseteq S
BY DEF Kept

LEMMA DumpIfEnabledStep ==
  ASSUME IInv, NEW t \in Textures, NEW p \in Palettes \union {None},
         NEW g \in {"none", "data", "fails"}, DumpIfEnabled(t, p, g)
  PROVE  IInv'
<1> DEFINE f == Base(t)
           new == f \notin Seen /\ f \notin files
           j == [tex |-> t, pal |-> p, gen |-> g, out |-> IF new THEN {f} ELSE {}]
<1> USE DEF IInv
<1>1. /\ emu = "idle" /\ emu' = (IF p # None THEN "palette" ELSE IF new THEN "push" ELSE "idle")
      /\ job' = (IF emu' = "idle" THEN NoJob ELSE j)
      /\ files' = files /\ SeenPalette' = SeenPalette
      /\ SeenPaletteIndex' = SeenPaletteIndex /\ Q' = Q /\ worker' = worker
      /\ wjob' = wjob /\ GRunning' = GRunning
      /\ lost' = IF new THEN lost \ ((Seen \ Seen') \union {f}) ELSE lost
  BY DEF DumpIfEnabled, session
<1>2. Seen' \subseteq Seen \union {f}
  <2>1. CASE new
    <3>1. PICK S \in Kept(Seen) : Seen' = S \union {f}
      BY <2>1 DEF DumpIfEnabled
    <3> QED BY <3>1, KeptSubset
  <2>2. CASE ~new
    BY <2>2 DEF DumpIfEnabled
  <2> QED BY <2>1, <2>2
<1>3. f \in Names /\ f[3] = "base"
  BY NamesOfJob
<1>4. j \in Jobs /\ j.out \subseteq FromBase(j)
  BY <1>3 DEF Jobs, FromBase
<1>5. job' \in Jobs /\ job'.out \subseteq FromBase(job')
  BY <1>1, <1>4, NoJobType
<1>6. TypeOK'
  BY <1>1, <1>5 DEF TypeOK
<1>7. SeenKinds'
  BY <1>1, <1>2, <1>3 DEF SeenKinds
<1>8. JobsOwnFiles'
  BY <1>1, <1>5 DEF JobsOwnFiles
<1>9. new => Going(f)'
  <2> SUFFICES ASSUME new PROVE Going(f)'
    OBVIOUS
  <2>1. emu' \in {"palette", "push"} /\ job' = j
    BY <1>1
  <2> QED BY <2>1 DEF Going
<1>10. \A x : Going(x) => Going(x)'
  BY <1>1 DEF Going
<1>11. \A x \in AllSeen' : x \in AllSeen \/ x = f
  BY <1>1, <1>2 DEF AllSeen
<1>12. \A x \in AllSeen' : x \in lost => x \in lost' \/ Going(x)'
  <2> SUFFICES ASSUME NEW x \in AllSeen', x \in lost, x \notin lost', x # f
               PROVE  FALSE
    BY <1>1, <1>9
  <2>1. x \in Seen /\ x \notin Seen'
    BY <1>1
  <2>2. x[3] = "base" /\ (x \in SeenPalette \/ x \in SeenPaletteIndex)
    BY <1>1, <2>1 DEF SeenKinds, AllSeen
  <2> QED BY <2>2 DEF SeenKinds
<1>13. f \in AllSeen \/ f \in files' \/ Going(f)'
  BY <1>1, <1>9 DEF AllSeen
<1> HIDE DEF IInv, f, new, j
<1>14. SeenIsAccounted'
  BY <1>1, <1>6, <1>10, <1>11, <1>12, <1>13, AccountedNext DEF IInv
<1> QED BY <1>6, <1>7, <1>8, <1>14 DEF IInv

LEMMA DumpPaletteStep ==
  ASSUME IInv, DumpPalette
  PROVE  IInv'
<1>0. PICK f : f = Info(job.tex, job.pal)
  OBVIOUS
<1> USE DEF IInv
<1>1. /\ emu = "palette" /\ emu' = "index"
      /\ SeenPalette' = SeenPalette \union {f}
      /\ job' = IF f \in SeenPalette \union files THEN job ELSE [job EXCEPT !.out = @ \union {f}]
      /\ files' = files /\ Seen' = Seen /\ lost' = lost
      /\ SeenPaletteIndex' = SeenPaletteIndex /\ Q' = Q /\ worker' = worker
      /\ wjob' = wjob /\ GRunning' = GRunning
  BY <1>0 DEF DumpPalette, session
<1>2. f \in Names /\ f[3] = "info"
  BY <1>0, NamesOfJob DEF TypeOK, Jobs
<1>3. /\ job' \in Jobs /\ job'.out \subseteq FromBase(job')
      /\ job.out \subseteq job'.out
      /\ f \in SeenPalette \union files \/ f \in job'.out
  BY <1>0, <1>1, <1>2 DEF TypeOK, Jobs, JobsOwnFiles, FromBase, FromInfo, FromIndex
<1>4. TypeOK'
  BY <1>1, <1>3 DEF TypeOK
<1>5. SeenKinds'
  BY <1>1, <1>2 DEF SeenKinds
<1>6. JobsOwnFiles'
  BY <1>1, <1>3 DEF JobsOwnFiles
<1>7. \A x : Going(x) => Going(x)'
  BY <1>1, <1>3 DEF Going
<1>8. f \in AllSeen \/ f \in files' \/ Going(f)'
  BY <1>1, <1>3 DEF AllSeen, Going
<1>9. \A x \in AllSeen' : x \in AllSeen \/ x = f
  BY <1>1 DEF AllSeen
<1> HIDE DEF IInv
<1>10. SeenIsAccounted'
  BY <1>1, <1>4, <1>7, <1>8, <1>9, AccountedNext DEF IInv
<1> QED BY <1>4, <1>5, <1>6, <1>10 DEF IInv

LEMMA DumpPaletteIndexStep ==
  ASSUME IInv, DumpPaletteIndex
  PROVE  IInv'
<1>0. PICK f : f = Index(job.tex, job.pal)
  OBVIOUS
<1> DEFINE new == job.gen # "none" /\ f \notin SeenPaletteIndex \union files
           j == IF new /\ job.gen = "data" THEN [job EXCEPT !.out = @ \union {f}] ELSE job
<1> USE DEF IInv
<1>1. /\ emu = "index" /\ emu' = (IF j.out = {} THEN "idle" ELSE "push")
      /\ SeenPaletteIndex' = IF job.gen = "none" THEN SeenPaletteIndex
                             ELSE SeenPaletteIndex \union {f}
      /\ job' = IF j.out = {} THEN NoJob ELSE [j EXCEPT !.gen = "none"]
      /\ lost' = IF new /\ job.gen = "fails" THEN lost \union {f} ELSE lost
      /\ files' = files /\ Seen' = Seen
      /\ SeenPalette' = SeenPalette /\ Q' = Q /\ worker' = worker
      /\ wjob' = wjob /\ GRunning' = GRunning
  BY <1>0 DEF DumpPaletteIndex, session
<1>2. f \in Names /\ f[3] = "index"
  BY <1>0, NamesOfJob DEF TypeOK, Jobs
<1>3. /\ j \in Jobs /\ j.out \subseteq FromBase(j)
      /\ job.out \subseteq j.out
      /\ new /\ job.gen = "data" => f \in j.out
  BY <1>0, <1>2 DEF TypeOK, Jobs, JobsOwnFiles, FromBase, FromInfo, FromIndex
<1>4. /\ job' \in Jobs /\ job'.out \subseteq FromBase(job')
      /\ \/ emu' = "push" /\ job'.out = j.out
         \/ emu' = "idle" /\ j.out = {}
  <2>1. CASE j.out = {}
    BY <1>1, <2>1, NoJobType
  <2>2. CASE j.out # {}
    <3>1. job' = [j EXCEPT !.gen = "none"] /\ emu' = "push"
      BY <1>1, <2>2
    <3>2. PICK k \in Jobs : k = j
      BY <1>3
    <3>3. job' = [k EXCEPT !.gen = "none"] /\ k.out \subseteq FromBase(k)
      BY <1>3, <3>1, <3>2
    <3>4. /\ job' \in Jobs /\ job'.out = k.out
          /\ job'.tex = k.tex /\ job'.pal = k.pal
      BY <3>3 DEF Jobs
    <3>5. FromBase(job') = FromBase(k)
      BY <3>4 DEF FromBase, FromInfo, FromIndex
    <3> HIDE DEF j
    <3> QED BY <3>1, <3>2, <3>3, <3>4, <3>5
  <2> QED BY <2>1, <2>2
<1>5. TypeOK'
  BY <1>1, <1>4 DEF TypeOK
<1>6. SeenKinds'
  BY <1>1, <1>2 DEF SeenKinds
<1>7. JobsOwnFiles'
  BY <1>1, <1>4 DEF JobsOwnFiles
<1>8. \A x : Going(x) => Going(x)'
  <2> HIDE DEF j
  <2> QED BY <1>1, <1>3, <1>4 DEF Going
<1>9. \A x \in AllSeen' : x \in AllSeen \/ (job.gen # "none" /\ x = f)
  BY <1>1 DEF AllSeen
<1>10. job.gen # "none" => f \in AllSeen \/ f \in files' \/ f \in lost' \/ Going(f)'
  <2>1. CASE new /\ job.gen = "data"
    <3>1. emu' = "push" /\ f \in job'.out
      BY <1>3, <1>4, <2>1
    <3> QED BY <3>1 DEF Going
  <2>2. CASE new /\ job.gen = "fails"
    BY <1>1, <2>2
  <2>3. CASE ~new
    BY <1>1, <2>3 DEF AllSeen
  <2>4. job.gen \in {"none", "data", "fails"}
    BY DEF TypeOK, Jobs
  <2> QED BY <2>1, <2>2, <2>3, <2>4
<1>11. lost \subseteq lost'
  BY <1>1
<1> HIDE DEF IInv, new, j
<1>12. SeenIsAccounted'
  BY <1>1, <1>5, <1>8, <1>9, <1>10, <1>11, AccountedNext DEF IInv
<1> QED BY <1>5, <1>6, <1>7, <1>12 DEF IInv

LEMMA PushStep ==
  ASSUME IInv, Push
  PROVE  IInv'
<1> USE DEF IInv
<1>1. /\ emu = "push" /\ job' = NoJob /\ job \in Jobs
      /\ files' = files /\ Seen' = Seen /\ SeenPalette' = SeenPalette
      /\ SeenPaletteIndex' = SeenPaletteIndex /\ worker' = worker
      /\ wjob' = wjob /\ GRunning' = GRunning
      /\ \/ lost' = lost \union job.out /\ emu' = "idle" /\ Q' = Q
         \/ Q' = Append(Q, job) /\ emu' = "notify" /\ lost' = lost
  BY DEF Push, session, seen, TypeOK
<1>2. /\ Append(Q, job) \in Seq(Jobs) /\ Len(Append(Q, job)) = Len(Q) + 1
      /\ Len(Q) \in Nat
      /\ \A i \in 1..Len(Q) : Append(Q, job)[i] = Q[i]
      /\ Append(Q, job)[Len(Q) + 1] = job
  BY <1>1, QueueEnds DEF TypeOK
<1>3. TypeOK'
  BY <1>1, <1>2, NoJobType DEF TypeOK
<1>4. SeenKinds'
  BY <1>1 DEF SeenKinds
<1>5. JobsOwnFiles'
  <2>1. \A i \in 1..Len(Q') : Q'[i].out \subseteq FromBase(Q'[i])
    <3>1. CASE Q' = Q
      BY <3>1 DEF JobsOwnFiles
    <3>2. CASE Q' = Append(Q, job)
      <4> SUFFICES ASSUME NEW i \in 1..(Len(Q) + 1)
                   PROVE  Q'[i].out \subseteq FromBase(Q'[i])
        BY <1>2, <3>2
      <4>1. CASE i \in 1..Len(Q)
        BY <1>2, <3>2, <4>1 DEF JobsOwnFiles
      <4>2. CASE i = Len(Q) + 1
        BY <1>2, <3>2, <4>2 DEF JobsOwnFiles
      <4> QED BY <1>2, <4>1, <4>2
    <3> QED BY <1>1, <3>1, <3>2
  <2> QED BY <1>1, <2>1, NoJobType DEF JobsOwnFiles
<1>6. ASSUME NEW x, Going(x)
      PROVE  x \in lost' \/ Going(x)'
  <2>1. CASE Q' = Q /\ lost' = lost \union job.out
    BY <1>1, <1>6, <2>1 DEF Going
  <2>2. CASE Q' = Append(Q, job)
    <3>1. CASE x \in job.out
      <4>1. Len(Q) + 1 \in 1..Len(Q') /\ x \in Q'[Len(Q) + 1].out
        BY <1>2, <2>2, <3>1
      <4> QED BY <4>1 DEF Going
    <3>2. ASSUME NEW i \in 1..Len(Q), x \in Q[i].out PROVE Going(x)'
      <4>1. i \in 1..Len(Q') /\ x \in Q'[i].out
        BY <1>2, <2>2, <3>2
      <4> QED BY <4>1 DEF Going
    <3> QED BY <1>1, <1>6, <3>1, <3>2 DEF Going
  <2> QED BY <1>1, <2>1, <2>2
<1>7. AllSeen' = AllSeen /\ lost \subseteq lost'
  BY <1>1 DEF AllSeen
<1>8. SeenIsAccounted'
  BY <1>1, <1>3, <1>6, <1>7, AccountedNext
<1> QED BY <1>3, <1>4, <1>5, <1>8

\* The steps that touch neither names, files nor jobs.
LEMMA QuietStep ==
  ASSUME IInv,
         \/ Notify \/ NotifyAll \/ Join \/ WorkerLoop \/ Wait \/ SpuriousWakeup
         \/ \E o \in {"InitDump", "Init", "Shutdown"} : Shutdown(o)
         \/ UNCHANGED vars
  PROVE  IInv'
<1> USE DEF IInv
<1>1. /\ files' = files /\ job' = job /\ Seen' = Seen
      /\ SeenPalette' = SeenPalette /\ SeenPaletteIndex' = SeenPaletteIndex
      /\ Q' = Q /\ wjob' = wjob /\ lost' = lost
  BY DEF Notify, NotifyAll, Join, WorkerLoop, Wait, SpuriousWakeup, Shutdown,
         vars, seen
<1>g. GRunning' \in BOOLEAN /\ (GRunning' => GRunning)
  <2>1. GRunning' = GRunning \/ GRunning' = FALSE
    BY Zenon DEF Notify, NotifyAll, Join, WorkerLoop, Wait, SpuriousWakeup,
                 Shutdown, vars, session
  <2>2. GRunning \in BOOLEAN
    BY DEF TypeOK
  <2>3. CASE GRunning' = GRunning
    BY <2>2, <2>3, Zenon
  <2>4. CASE GRunning' = FALSE
    BY <2>4
  <2> QED BY <2>1, <2>3, <2>4
<1>2. /\ emu' \in {"idle", "palette", "index", "push", "notify", "notifyAll", "join", "clear"}
      /\ emu \in {"palette", "index", "push"} => emu' = emu
      /\ emu' \in {"palette", "index", "push"} => emu' = emu
  BY DEF Notify, NotifyAll, Join, WorkerLoop, Wait, SpuriousWakeup, Shutdown,
         vars, TypeOK
<1>3. /\ worker' \in {"none", "loop", "lock", "sleep", "wait", "base", "info", "index", "exited"}
      /\ worker \in {"base", "info", "index"} => worker' = worker
      /\ worker' \in {"base", "info", "index"} => worker' = worker
  BY DEF Notify, NotifyAll, Join, WorkerLoop, Wait, SpuriousWakeup, Shutdown,
         Notified, vars, TypeOK
<1>4. TypeOK'
  BY <1>1, <1>g, <1>2, <1>3 DEF TypeOK
<1>5. SeenKinds' /\ AllSeen' = AllSeen
  BY <1>1 DEF SeenKinds, AllSeen
<1>6. JobsOwnFiles'
  BY <1>1, <1>3 DEF JobsOwnFiles
<1>7. \A x : Going(x) => Going(x)'
  BY <1>1, <1>2, <1>3 DEF Going
<1>8. SeenIsAccounted'
  BY <1>1, <1>g, <1>4, <1>5, <1>7, AccountedNext
<1> QED BY <1>4, <1>5, <1>6, <1>8

\* The end of Shutdown, and the start of a worker: nothing is remembered.
LEMMA ClearStep ==
  ASSUME IInv, Clear
  PROVE  IInv'
<1> USE DEF IInv
<1>1. /\ emu = "clear" /\ emu' = "idle" /\ Q' = <<>> /\ Seen' = {}
      /\ SeenPalette' = {} /\ SeenPaletteIndex' = {}
      /\ GRunning' \in BOOLEAN /\ worker' \in {"loop", "none"}
      /\ job' = job /\ wjob' = wjob
  BY DEF Clear
<1>2. TypeOK'
  BY <1>1 DEF TypeOK
<1>3. SeenKinds' /\ AllSeen' = {}
  BY <1>1 DEF SeenKinds, AllSeen
<1>4. JobsOwnFiles'
  BY <1>1 DEF JobsOwnFiles
<1>5. SeenIsAccounted'
  BY <1>3 DEF SeenIsAccounted
<1> QED BY <1>2, <1>3, <1>4, <1>5

-----------------------------------------------------------------------------
(* The worker                                                              *)

LEMMA TakeJobStep ==
  ASSUME IInv, TakeJob
  PROVE  IInv'
<1> USE DEF IInv
<1>1. /\ worker = "lock" /\ files' = files /\ emu' = emu /\ job' = job
      /\ GRunning' = GRunning /\ Seen' = Seen /\ SeenPalette' = SeenPalette
      /\ SeenPaletteIndex' = SeenPaletteIndex /\ lost' = lost
      /\ \/ /\ Q # <<>> /\ Q' = Tail(Q) /\ wjob' = Head(Q) /\ worker' = "base"
         \/ /\ worker' \in {"sleep", "exited"} /\ Q' = Q /\ wjob' = wjob
  BY DEF TakeJob, session, seen
<1>2. Q # <<>> => /\ Tail(Q) \in Seq(Jobs) /\ Head(Q) \in Jobs /\ Head(Q) = Q[1]
                  /\ Len(Tail(Q)) = Len(Q) - 1 /\ Len(Q) >= 1 /\ Len(Q) \in Nat
                  /\ \A i \in 1..(Len(Q) - 1) : Tail(Q)[i] = Q[i + 1]
  BY QueueEnds DEF TypeOK
<1>3. TypeOK'
  BY <1>1, <1>2 DEF TypeOK
<1>4. SeenKinds' /\ AllSeen' = AllSeen
  BY <1>1 DEF SeenKinds, AllSeen
<1>5. JobsOwnFiles'
  <2>1. CASE worker' = "base"
    <3>1. /\ Q # <<>> /\ Q' = Tail(Q) /\ wjob' = Head(Q)
      BY <1>1, <2>1
    <3>2. wjob'.out \subseteq FromBase(wjob')
      BY <1>2, <3>1 DEF JobsOwnFiles
    <3>3. \A i \in 1..Len(Q') : i + 1 \in 1..Len(Q) /\ Q'[i] = Q[i + 1]
      BY <1>2, <3>1
    <3>4. \A i \in 1..Len(Q') : Q'[i].out \subseteq FromBase(Q'[i])
      BY <3>3 DEF JobsOwnFiles
    <3> QED BY <1>1, <2>1, <3>2, <3>4 DEF JobsOwnFiles
  <2>2. CASE worker' \in {"sleep", "exited"}
    BY <1>1, <2>2 DEF JobsOwnFiles
  <2> QED BY <1>1, <2>1, <2>2
<1>6. ASSUME NEW x, Going(x) PROVE Going(x)'
  <2>1. CASE Q' = Q
    BY <1>1, <1>6, <2>1 DEF Going
  <2>2. CASE Q # <<>> /\ Q' = Tail(Q) /\ wjob' = Head(Q) /\ worker' = "base"
    <3>1. ASSUME NEW i \in 1..Len(Q), x \in Q[i].out PROVE Going(x)'
      <4>1. CASE i = 1
        BY <1>2, <2>2, <3>1, <4>1 DEF Going
      <4>2. CASE i # 1
        <5>1. i - 1 \in 1..Len(Q') /\ Q'[i - 1] = Q[i]
          BY <1>2, <2>2, <4>2
        <5> QED BY <3>1, <5>1 DEF Going
      <4> QED BY <4>1, <4>2
    <3> QED BY <1>1, <1>6, <3>1 DEF Going
  <2> QED BY <1>1, <2>1, <2>2
<1>7. SeenIsAccounted'
  BY <1>1, <1>3, <1>4, <1>6, AccountedNext
<1> QED BY <1>3, <1>4, <1>5, <1>7

\* One file of a job: written, there already, given up, or none of the job's.
LEMMA WriteStep ==
  ASSUME IInv, NEW here \in {"base", "info", "index"}, NEW f,
         NEW next \in {"info", "index", "loop"}, Write(here, f, next),
         next = "loop" => wjob.out \subseteq {f}
  PROVE  /\ TypeOK' /\ SeenKinds' /\ SeenIsAccounted'
         /\ job' = job /\ Q' = Q /\ worker' = next
         /\ next # "loop" => /\ wjob'.out = wjob.out \ {f}
                             /\ wjob'.tex = wjob.tex /\ wjob'.pal = wjob.pal
<1> USE DEF IInv
<1>1. /\ worker = here /\ worker' = next /\ emu' = emu /\ job' = job
      /\ GRunning' = GRunning /\ Seen' = Seen /\ SeenPalette' = SeenPalette
      /\ SeenPaletteIndex' = SeenPaletteIndex /\ Q' = Q
      /\ wjob' = IF next = "loop" THEN NoJob ELSE [wjob EXCEPT !.out = @ \ {f}]
  BY DEF Write, session, seen
<1>2. /\ files \subseteq files' /\ lost \subseteq lost'
      /\ f \in wjob.out => f \in files' \/ f \in lost'
  BY DEF Write
<1>3. /\ wjob' \in Jobs
      /\ next # "loop" => /\ wjob'.out = wjob.out \ {f}
                          /\ wjob'.tex = wjob.tex /\ wjob'.pal = wjob.pal
  BY <1>1, NoJobType DEF TypeOK, Jobs
<1>4. TypeOK'
  BY <1>1, <1>3 DEF TypeOK
<1>5. SeenKinds' /\ AllSeen' = AllSeen
  BY <1>1 DEF SeenKinds, AllSeen
<1>6. ASSUME NEW x, Going(x) PROVE x \in files' \/ x \in lost' \/ Going(x)'
  <2>1. CASE x \in wjob.out
    <3>1. CASE x = f
      BY <1>2, <2>1, <3>1
    <3>2. CASE x # f
      <4>1. worker' \in {"info", "index"} /\ x \in wjob'.out
        BY <1>1, <1>3, <2>1, <3>2
      <4> QED BY <4>1 DEF Going
    <3> QED BY <3>1, <3>2
  <2>2. CASE x \notin wjob.out
    BY <1>1, <1>6, <2>2 DEF Going
  <2> QED BY <2>1, <2>2
<1>7. SeenIsAccounted'
  BY <1>1, <1>2, <1>4, <1>5, <1>6, AccountedNext
<1> QED BY <1>1, <1>3, <1>4, <1>5, <1>7

LEMMA WriterStep ==
  ASSUME IInv, WriteBase \/ WriteInfo \/ WriteIndex
  PROVE  IInv'
<1>1. CASE WriteBase
  <2>1. PICK f : f = Base(wjob.tex)
    OBVIOUS
  <2>2. Write("base", f, "info")
    BY <1>1, <2>1 DEF WriteBase
  <2>3. /\ TypeOK' /\ SeenKinds' /\ SeenIsAccounted'
        /\ job' = job /\ Q' = Q /\ worker' = "info"
        /\ wjob'.out = wjob.out \ {f}
        /\ wjob'.tex = wjob.tex /\ wjob'.pal = wjob.pal
    BY <2>2, WriteStep
  <2>4. wjob.out \subseteq FromBase(wjob)
    BY <2>2 DEF Write, IInv, JobsOwnFiles
  <2>5. wjob'.out \subseteq FromInfo(wjob')
    BY <2>1, <2>3, <2>4 DEF FromBase, FromInfo, FromIndex
  <2> QED BY <2>3, <2>5 DEF IInv, JobsOwnFiles
<1>2. CASE WriteInfo
  <2>1. PICK f : f = Info(wjob.tex, wjob.pal)
    OBVIOUS
  <2>2. Write("info", f, "index")
    BY <1>2, <2>1 DEF WriteInfo
  <2>3. /\ TypeOK' /\ SeenKinds' /\ SeenIsAccounted'
        /\ job' = job /\ Q' = Q /\ worker' = "index"
        /\ wjob'.out = wjob.out \ {f}
        /\ wjob'.tex = wjob.tex /\ wjob'.pal = wjob.pal
    BY <2>2, WriteStep
  <2>4. wjob.out \subseteq FromInfo(wjob)
    BY <2>2 DEF Write, IInv, JobsOwnFiles
  <2>5. wjob'.out \subseteq FromIndex(wjob')
    BY <2>1, <2>3, <2>4 DEF FromInfo, FromIndex
  <2> QED BY <2>3, <2>5 DEF IInv, JobsOwnFiles
<1>3. CASE WriteIndex
  <2>1. PICK f : f = Index(wjob.tex, wjob.pal)
    OBVIOUS
  <2>2. Write("index", f, "loop")
    BY <1>3, <2>1 DEF WriteIndex
  <2>3. wjob.out \subseteq {f}
    BY <2>1, <2>2 DEF Write, IInv, JobsOwnFiles, FromIndex
  <2>4. /\ TypeOK' /\ SeenKinds' /\ SeenIsAccounted'
        /\ job' = job /\ Q' = Q /\ worker' = "loop"
    BY <2>2, <2>3, WriteStep
  <2> QED BY <2>4 DEF IInv, JobsOwnFiles
<1> QED BY <1>1, <1>2, <1>3

-----------------------------------------------------------------------------
LEMMA InitInv == Init => IInv
<1> SUFFICES ASSUME Init PROVE IInv
  OBVIOUS
<1>1. TypeOK
  <2>1. job = NoJob /\ wjob = NoJob /\ Q = <<>> /\ GRunning \in BOOLEAN
        /\ emu = "idle" /\ worker = "none"
    BY Zenon DEF Init
  <2> QED BY <2>1, NoJobType DEF TypeOK
<1>2. SeenKinds /\ JobsOwnFiles
  BY NoJobType DEF Init, SeenKinds, JobsOwnFiles
<1>3. SeenIsAccounted
  BY DEF Init, SeenIsAccounted
<1> QED BY <1>1, <1>2, <1>3 DEF IInv

LEMMA InvStep == IInv /\ [Next]_vars => IInv'
<1> SUFFICES ASSUME IInv, [Next]_vars PROVE IInv'
  OBVIOUS
<1>1. CASE \E t \in Textures : DumpIfEnabled(t, None, "none")
  BY <1>1, DumpIfEnabledStep
<1>2. CASE \E t \in Paletted, p \in Palettes, g \in Gens : DumpIfEnabled(t, p, g)
  BY <1>2, DumpIfEnabledStep, TexDumpAssumption
<1>3. CASE \/ Notify \/ NotifyAll \/ Join \/ WorkerLoop \/ Wait \/ SpuriousWakeup
           \/ \E o \in {"InitDump", "Init", "Shutdown"} : Shutdown(o)
           \/ UNCHANGED vars
  BY <1>3, QuietStep
<1>4. CASE DumpPalette
  BY <1>4, DumpPaletteStep
<1>5. CASE DumpPaletteIndex
  BY <1>5, DumpPaletteIndexStep
<1>6. CASE Push
  BY <1>6, PushStep
<1>7. CASE Clear
  BY <1>7, ClearStep
<1>8. CASE TakeJob
  BY <1>8, TakeJobStep
<1>9. CASE WriteBase \/ WriteInfo \/ WriteIndex
  BY <1>9, WriterStep
<1> QED
  BY <1>1, <1>2, <1>3, <1>4, <1>5, <1>6, <1>7, <1>8, <1>9
     DEF Next, Calls, Continues, Worker

(***************************************************************************)
(* No remembered file is forgotten on the way from DumpIfEnabled through   *)
(* the queue to WriteJob: while the dumper runs it exists, is in a job, or *)
(* is one of those the code gives up.                                      *)
(***************************************************************************)
THEOREM RememberedFilesAreAccounted == Spec => []SeenIsAccounted
<1>1. IInv => SeenIsAccounted
  BY DEF IInv
<1> QED BY <1>1, InitInv, InvStep, PTL DEF Spec

=============================================================================
