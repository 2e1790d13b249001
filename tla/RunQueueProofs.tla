---------------------------- MODULE RunQueueProofs ----------------------------
(***************************************************************************)
(* Proofs about RunQueue, for any set of runs, any number of workers, any  *)
(* buffer and any number of crashes and shutdowns.  IInv is the inductive  *)
(* invariant; every safety property of RunQueue follows from it.           *)
(***************************************************************************)
EXTENDS RunQueue, TLAPS

-----------------------------------------------------------------------------
(* The inductive invariant *)

\* A goroutine holds a job exactly while it processes one.
Idle == \A e \in Executors : job[e] = None <=> phase[e] \in {"idle", "gone"}

\* A run that was not submitted yet is nowhere in the queue.
Fresh ==
  \A j \in Jobs : reply[j] \in {"none", "preparing"} =>
    j \notin Queued /\ j \notin pel /\ j \notin batch /\ j \notin Held /\ execs[j] = 0

\* A row exists from the moment the handler prepared the run.
RowExists ==
  \A j \in Jobs : /\ row[j] = "none" <=> reply[j] = "none"
                  /\ reply[j] = "preparing" => row[j] = "pending"

\* A waiting job waits once, and nobody has seen it yet.
WaitingOnce ==
  /\ \A i, k \in DOMAIN waiting : waiting[i] = waiting[k] => i = k
  /\ \A j \in Queued : j \notin pel /\ j \notin batch /\ j \notin Held /\ execs[j] = 0

\* The parts of the stream are not used by the channel.
InMemory ==
  backend = "mem" =>
    /\ pel = {} /\ batch = {} /\ phase[Reaper] = "gone"
    /\ \A e \in Executors : phase[e] \notin {"fetch", "ack", "drop"}

\* In memory no two goroutines hold the same job.
OneHolderInMemory ==
  backend = "mem" => \A e, f \in Executors : job[e] = job[f] /\ job[e] # None => e = f

\* The reaper has no claim on what a worker is busy with, short of a run
\* that outlasts reaperMinIdle.
Owners == \A w \in Workers : job[w] \in batch \cup stale => job[w] \in Slow

\* When goroutines have left.
Stopped ==
  /\ server = "up" => \A w \in Workers : phase[w] # "gone"
  /\ server \in {"drained", "down"} => \A e \in Executors : phase[e] = "gone"
  /\ server = "down" => \A j \in Jobs : reply[j] # "preparing"
  /\ phase[Reaper] = "gone" => batch = {}
  /\ backend = "mem" => \A w \in Workers : phase[w] = "gone" => waiting = <<>>

\* Every execution was counted.
Counted ==
  /\ \A e \in Running : execs[job[e]] >= 1
  /\ \A e, f \in Running : job[e] = job[f] /\ e # f => execs[job[e]] >= 2

\* What the row may hold before the first result is stored.
Unsettled ==
  /\ \A j \in Jobs : execs[j] = 0 => row[j] \in {"none", "pending", "failed"}
  /\ \A j \in Queued : backend = "mem" => row[j] = "pending"
  /\ \A e \in Executors : phase[e] \in {"exec", "update"} =>
       /\ backend = "mem" => row[job[e]] = "pending"
       /\ execs[job[e]] = 1 => row[job[e]] \in {"pending", "failed"}

\* What the only execution of a run has stored and reported so far.
Reported ==
  /\ \A j \in Jobs : execs[j] = 0 => told[j] = None
  /\ \A j \in Jobs : execs[j] = 1 /\ told[j] # None /\ j \notin unsaved =>
       row[j] = told[j] /\ row[j] \in Final
  /\ \A e \in Executors : phase[e] \in {"exec", "update"} /\ execs[job[e]] = 1 => told[job[e]] = None
  /\ \A e \in Executors : phase[e] = "update" => status[e] \in Final
  /\ \A e \in Executors :
       phase[e] \in {"reload", "callback"} /\ execs[job[e]] = 1 /\ job[e] \notin unsaved =>
         row[job[e]] = status[e] /\ row[job[e]] \in Final

IInv ==
  /\ TypeOK /\ Idle /\ Fresh /\ RowExists /\ WaitingOnce /\ InMemory /\ OneHolderInMemory /\ Owners
  /\ Stopped /\ Counted /\ Unsettled /\ Reported /\ AcceptedIsKept /\ OneAtATime

-----------------------------------------------------------------------------
(* Lemmas about the queue and the goroutines *)

\* A send adds the job at the end.
LEMMA AppendQueued ==
  ASSUME waiting \in Seq(Jobs), NEW j \in Jobs, waiting' = Append(waiting, j)
  PROVE  Queued' = Queued \cup {j}
<1>1. /\ DOMAIN waiting = 1..Len(waiting) /\ Len(waiting) \in Nat
      /\ DOMAIN waiting' = 1..(Len(waiting) + 1)
      /\ \A i \in 1..Len(waiting) : waiting'[i] = waiting[i]
      /\ waiting'[Len(waiting) + 1] = j
  OBVIOUS
<1>2. ASSUME NEW x \in Queued' PROVE x \in Queued \cup {j}
  <2>1. PICK i \in 1..(Len(waiting) + 1) : x = waiting'[i]
    BY <1>1, <1>2 DEF Queued
  <2>2. i \in 1..Len(waiting) \/ i = Len(waiting) + 1
    BY <1>1, <2>1
  <2> QED BY <1>1, <2>1, <2>2 DEF Queued
<1>3. ASSUME NEW x \in Queued PROVE x \in Queued'
  <2>1. PICK i \in 1..Len(waiting) : x = waiting[i]
    BY <1>1, <1>3 DEF Queued
  <2>2. i \in 1..(Len(waiting) + 1) /\ waiting'[i] = x
    BY <1>1, <2>1
  <2> QED BY <1>1, <2>2 DEF Queued
<1>4. j \in Queued'
  <2>1. Len(waiting) + 1 \in 1..(Len(waiting) + 1)
    BY <1>1
  <2> QED BY <1>1, <2>1 DEF Queued
<1> QED BY <1>2, <1>3, <1>4

\* A job sent once waits once.
LEMMA AppendOnce ==
  ASSUME waiting \in Seq(Jobs), WaitingOnce, NEW j \in Jobs, j \notin Queued,
         waiting' = Append(waiting, j)
  PROVE  \A i, k \in DOMAIN waiting' : waiting'[i] = waiting'[k] => i = k
<1>1. /\ DOMAIN waiting = 1..Len(waiting) /\ Len(waiting) \in Nat
      /\ DOMAIN waiting' = 1..(Len(waiting) + 1)
      /\ \A i \in 1..Len(waiting) : waiting'[i] = waiting[i]
      /\ waiting'[Len(waiting) + 1] = j
  OBVIOUS
<1>2. \A i \in 1..Len(waiting) : waiting[i] # j
  BY <1>1 DEF Queued
<1>3. \A i, k \in 1..Len(waiting) : waiting[i] = waiting[k] => i = k
  BY <1>1 DEF WaitingOnce
<1> QED BY <1>1, <1>2, <1>3

\* A receive takes the first job, which was there once.
LEMMA TailQueued ==
  ASSUME waiting \in Seq(Jobs), waiting # <<>>, waiting' = Tail(waiting), WaitingOnce
  PROVE  /\ Head(waiting) \in Jobs /\ waiting' \in Seq(Jobs)
         /\ Head(waiting) \in Queued /\ Head(waiting) \notin Queued'
         /\ Queued = Queued' \cup {Head(waiting)}
         /\ \A i, k \in DOMAIN waiting' : waiting'[i] = waiting'[k] => i = k
<1>1. /\ Len(waiting) \in Nat /\ Len(waiting) >= 1
      /\ DOMAIN waiting = 1..Len(waiting) /\ DOMAIN waiting' = 1..(Len(waiting) - 1)
      /\ Head(waiting) = waiting[1] /\ Head(waiting) \in Jobs /\ waiting' \in Seq(Jobs)
      /\ \A i \in 1..(Len(waiting) - 1) : waiting'[i] = waiting[i + 1]
  OBVIOUS
<1>2. \A i, k \in 1..Len(waiting) : waiting[i] = waiting[k] => i = k
  BY <1>1 DEF WaitingOnce
<1>3. ASSUME NEW x \in Queued PROVE x \in Queued' \cup {Head(waiting)}
  <2>1. PICK i \in 1..Len(waiting) : x = waiting[i]
    BY <1>1, <1>3 DEF Queued
  <2>2. CASE i = 1
    BY <1>1, <2>1, <2>2
  <2>3. CASE i # 1
    <3>1. i - 1 \in 1..(Len(waiting) - 1) /\ waiting'[i - 1] = x
      BY <1>1, <2>1, <2>3
    <3> QED BY <1>1, <3>1 DEF Queued
  <2> QED BY <2>2, <2>3
<1>4. ASSUME NEW x \in Queued' PROVE x \in Queued /\ x # Head(waiting)
  <2>1. PICK i \in 1..(Len(waiting) - 1) : x = waiting'[i]
    BY <1>1, <1>4 DEF Queued
  <2>2. i + 1 \in 1..Len(waiting) /\ 1 \in 1..Len(waiting) /\ x = waiting[i + 1] /\ i + 1 # 1
    BY <1>1, <2>1
  <2>3. x # Head(waiting)
    BY <1>1, <1>2, <2>2
  <2>4. x \in Queued
    BY <1>1, <2>2 DEF Queued
  <2> QED BY <2>3, <2>4
<1>5. Head(waiting) \in Queued
  BY <1>1 DEF Queued
<1>6. ASSUME NEW i \in DOMAIN waiting', NEW k \in DOMAIN waiting', waiting'[i] = waiting'[k]
      PROVE  i = k
  BY <1>1, <1>2, <1>6
<1>7. Queued = Queued' \cup {Head(waiting)}
  BY <1>3, <1>4, <1>5
<1>8. Head(waiting) \notin Queued'
  BY <1>4
<1> QED BY <1>1, <1>5, <1>6, <1>7, <1>8

\* The empty channel.
LEMMA NothingQueued == ASSUME waiting = <<>> PROVE Queued = {}
BY DEF Queued

\* An idle goroutine that takes a job adds it to the jobs held.
LEMMA GrabHeld ==
  ASSUME NEW e \in Executors, NEW j \in Jobs, NEW p, TypeOK, job[e] = None, Grab(e, j, p)
  PROVE  Held' = Held \cup {j}
<1>1. job \in [Executors -> Jobs \cup {None}] /\ job' = [job EXCEPT ![e] = j] /\ j # None
  BY QueueAssumption DEF TypeOK, Grab
<1>2. ASSUME NEW x \in Held' PROVE x \in Held \cup {j}
  <2>1. PICK f \in Executors : x = job'[f] /\ x # None
    BY <1>2 DEF Held
  <2> QED BY <1>1, <2>1 DEF Held
<1>3. ASSUME NEW x \in Held PROVE x \in Held'
  <2>1. PICK f \in Executors : x = job[f] /\ x # None
    BY <1>3 DEF Held
  <2>2. f # e /\ job'[f] = x
    BY <1>1, <2>1
  <2> QED BY <2>1, <2>2 DEF Held
<1>4. j \in Held'
  <2>1. job'[e] = j
    BY <1>1
  <2> QED BY <1>1, <2>1 DEF Held
<1> QED BY <1>2, <1>3, <1>4

\* A goroutine that lets go of its job leaves every other job held.
LEMMA ReleaseHeld ==
  ASSUME NEW e \in Executors, NEW p, TypeOK, Release(e, p)
  PROVE  Held' \subseteq Held /\ Held \subseteq Held' \cup {job[e]}
<1>1. job \in [Executors -> Jobs \cup {None}] /\ job' = [job EXCEPT ![e] = None]
  BY DEF TypeOK, Release
<1>2. ASSUME NEW x \in Held' PROVE x \in Held
  <2>1. PICK f \in Executors : x = job'[f] /\ x # None
    BY <1>2 DEF Held
  <2>2. x = job[f]
    BY <1>1, <2>1
  <2> QED BY <2>1, <2>2 DEF Held
<1>3. ASSUME NEW x \in Held, x # job[e] PROVE x \in Held'
  <2>1. PICK f \in Executors : x = job[f] /\ x # None
    BY <1>3 DEF Held
  <2>2. job'[f] = x
    BY <1>1, <1>3, <2>1
  <2> QED BY <2>1, <2>2 DEF Held
<1> QED BY <1>2, <1>3

\* What a goroutine holds is a job in Held.
LEMMA HoldsHeld ==
  ASSUME TypeOK, NEW e \in Executors, job[e] # None
  PROVE  job[e] \in Jobs /\ job[e] \in Held
BY DEF TypeOK, Held

\* Goroutines past the row's reading hold a job.
LEMMA RunningHolds ==
  ASSUME TypeOK, Idle
  PROVE  /\ \A e \in Running : e \in Executors /\ job[e] \in Jobs /\ job[e] # None
         /\ \A e \in Executors : job[e] # None => job[e] \in Jobs /\ job[e] \in Held
         /\ \A e \in Executors : phase[e] \notin {"idle", "gone"} => job[e] \in Jobs /\ job[e] # None
<1>1. \A e \in Executors : job[e] # None => job[e] \in Jobs /\ job[e] \in Held
  BY HoldsHeld
<1>2. \A e \in Running : e \in Executors /\ phase[e] \notin {"idle", "gone"}
  BY DEF Running
<1>3. \A e \in Executors : phase[e] \notin {"idle", "gone"} => job[e] # None
  BY DEF Idle
<1> QED BY <1>1, <1>2, <1>3


-----------------------------------------------------------------------------
(* Every action preserves IInv *)


\* Prepare preserves IInv.
LEMMA PrepareInv ==
  ASSUME IInv, NEW j \in Jobs, Prepare(j)
  PROVE  IInv'
<1>0. TypeOK /\ Idle /\ Fresh /\ RowExists /\ WaitingOnce /\ InMemory /\ OneHolderInMemory
      /\ Owners /\ Stopped /\ Counted /\ Unsettled /\ Reported /\ AcceptedIsKept /\ OneAtATime
  BY DEF IInv
<1>h. /\ \A x \in Running : x \in Executors /\ job[x] \in Jobs /\ job[x] # None
      /\ \A x \in Executors : job[x] # None => job[x] \in Jobs /\ job[x] \in Held
      /\ \A x \in Executors : phase[x] \notin {"idle", "gone"} => job[x] \in Jobs /\ job[x] # None
  BY <1>0, RunningHolds
<1>q. Queued' = Queued
  BY DEF Prepare, Serving, delivery, goroutines, history, Queued
<1>d. Held' = Held
  BY DEF Prepare, Serving, delivery, goroutines, history, Held
<1>1. TypeOK'
  <2>1. row' \in [Jobs -> {"none", "pending"} \cup Final]
    BY <1>0, <1>h, <1>q, <1>d, QueueAssumption DEF TypeOK, Final, Prepare, Serving
  <2>2. reply' \in [Jobs -> {"none", "preparing", "accepted", "refused", "unanswered"}]
    BY <1>0, <1>h, <1>q, <1>d, QueueAssumption DEF TypeOK, Prepare, Serving
  <2> QED BY <1>0, <2>1, <2>2 DEF TypeOK, Prepare, Serving, delivery, goroutines, history
<1>2. Idle'
  BY <1>0, <1>d DEF Idle, Prepare, Serving, delivery, goroutines, history
<1>3. Fresh'
  BY <1>0, <1>h, <1>q, <1>d, QueueAssumption DEF Fresh, TypeOK, Idle, Executors, Serving,
           Prepare, delivery, goroutines, history
<1>4. RowExists'
  BY <1>0, <1>h, <1>q, <1>d, QueueAssumption DEF RowExists, TypeOK, Idle, Executors, Serving,
           Prepare, delivery, goroutines, history
<1>5. WaitingOnce'
  BY <1>0, <1>q, <1>d DEF WaitingOnce, Prepare, Serving, delivery, goroutines, history
<1>6. InMemory'
  BY <1>0 DEF InMemory, Prepare, Serving, delivery, goroutines, history
<1>7. OneHolderInMemory'
  BY <1>0, <1>d DEF OneHolderInMemory, Prepare, Serving, delivery, goroutines, history
<1>8. Owners'
  BY <1>0, <1>d DEF Owners, Prepare, Serving, delivery, goroutines, history
<1>9. Stopped'
  BY <1>0, <1>h, <1>q, <1>d, QueueAssumption DEF Stopped, TypeOK, Idle, Executors, Serving,
           Prepare, delivery, goroutines, history
<1>10. Counted'
  BY <1>0, <1>d DEF Counted, Running, Prepare, Serving, delivery, goroutines, history
<1>11. Unsettled'
  BY <1>0, <1>h, <1>q, <1>d, QueueAssumption DEF Unsettled, TypeOK, Final, Running, Counted,
           Idle, Executors, Serving, Prepare, delivery, goroutines, history
<1>12. Reported'
  BY <1>0, <1>h, <1>q, <1>d, QueueAssumption DEF Reported, TypeOK, Final, Running, Counted,
           Idle, Executors, Serving, Fresh, Prepare, delivery, goroutines, history
<1>13. AcceptedIsKept'
  BY <1>0, <1>h, <1>q, <1>d, QueueAssumption DEF AcceptedIsKept, TypeOK, Idle, Executors,
           Serving, Prepare, delivery, goroutines, history
<1>14. OneAtATime'
  BY <1>0, <1>d DEF OneAtATime, Prepare, Serving, delivery, goroutines, history
<1> QED BY <1>1, <1>2, <1>3, <1>4, <1>5, <1>6, <1>7, <1>8, <1>9, <1>10, <1>11, <1>12, <1>13,
         <1>14 DEF IInv


\* SubmitMem preserves IInv.
LEMMA SubmitMemInv ==
  ASSUME IInv, NEW j \in Jobs, SubmitMem(j)
  PROVE  IInv'
<1>0. TypeOK /\ Idle /\ Fresh /\ RowExists /\ WaitingOnce /\ InMemory /\ OneHolderInMemory
      /\ Owners /\ Stopped /\ Counted /\ Unsettled /\ Reported /\ AcceptedIsKept /\ OneAtATime
  BY DEF IInv
<1>h. /\ \A x \in Running : x \in Executors /\ job[x] \in Jobs /\ job[x] # None
      /\ \A x \in Executors : job[x] # None => job[x] \in Jobs /\ job[x] \in Held
      /\ \A x \in Executors : phase[x] \notin {"idle", "gone"} => job[x] \in Jobs /\ job[x] # None
  BY <1>0, RunningHolds
<1>q. waiting' = Append(waiting, j) => Queued' = Queued \cup {j}
  BY <1>0, AppendQueued DEF TypeOK
<1>r. waiting' = waiting => Queued' = Queued
  BY DEF Queued
<1>s. waiting' = Append(waiting, j) =>
        \A i, k \in DOMAIN waiting' : waiting'[i] = waiting'[k] => i = k
  <2>1. waiting \in Seq(Jobs) /\ j \notin Queued
    BY <1>0 DEF TypeOK, Fresh, SubmitMem
  <2> QED BY <1>0, <2>1, AppendOnce
<1>d. Held' = Held
  BY DEF SubmitMem, HasRoom, Serving, delivery, goroutines, history, Held
<1>1. TypeOK'
  <2>1. reply' \in [Jobs -> {"none", "preparing", "accepted", "refused", "unanswered"}]
    <3>1. reply' = [reply EXCEPT ![j] = "accepted"] \/ reply' = [reply EXCEPT ![j] = "refused"]
      BY DEF SubmitMem
    <3> QED BY <1>0, <3>1 DEF TypeOK
  <2>2. waiting' \in Seq(Jobs)
    <3>1. waiting' = waiting \/ waiting' = Append(waiting, j)
      BY DEF SubmitMem
    <3>2. waiting \in Seq(Jobs)
      BY <1>0 DEF TypeOK
    <3>3. Append(waiting, j) \in Seq(Jobs)
      BY <3>2
    <3> QED BY <3>1, <3>2, <3>3
  <2> QED BY <1>0, <2>1, <2>2 DEF TypeOK, SubmitMem, HasRoom, Serving, delivery, goroutines, history
<1>2. Idle'
  BY <1>0, <1>d DEF Idle, SubmitMem, HasRoom, Serving, delivery, goroutines, history
<1>3. Fresh'
  BY <1>0, <1>h, <1>q, <1>r, <1>d, QueueAssumption DEF Fresh, TypeOK, Idle, Executors, Serving,
           SubmitMem, HasRoom, delivery, goroutines, history
<1>4. RowExists'
  BY <1>0, <1>h, <1>q, <1>r, <1>d, QueueAssumption DEF RowExists, TypeOK, Idle, Executors,
           Serving, SubmitMem, HasRoom, delivery, goroutines, history
<1>5. WaitingOnce'
  BY <1>0, <1>h, <1>q, <1>r, <1>d, <1>s, QueueAssumption DEF WaitingOnce, TypeOK, Idle,
           Executors, Serving, Fresh, SubmitMem, HasRoom, delivery, goroutines, history
<1>6. InMemory'
  BY <1>0 DEF InMemory, SubmitMem, HasRoom, Serving, delivery, goroutines, history
<1>7. OneHolderInMemory'
  BY <1>0, <1>d DEF OneHolderInMemory, SubmitMem, HasRoom, Serving, delivery, goroutines, history
<1>8. Owners'
  BY <1>0, <1>d DEF Owners, SubmitMem, HasRoom, Serving, delivery, goroutines, history
<1>9. Stopped'
  BY <1>0, <1>h, <1>q, <1>r, <1>d, QueueAssumption DEF Stopped, TypeOK, Idle, Executors,
           Serving, SubmitMem, HasRoom, delivery, goroutines, history
<1>10. Counted'
  BY <1>0, <1>d DEF Counted, Running, SubmitMem, HasRoom, Serving, delivery, goroutines, history
<1>11. Unsettled'
  BY <1>0, <1>h, <1>q, <1>r, <1>d, QueueAssumption DEF Unsettled, TypeOK, Final, Running,
           Counted, Idle, Executors, Serving, RowExists, SubmitMem, HasRoom, delivery,
           goroutines, history
<1>12. Reported'
  BY <1>0, <1>d DEF Reported, Final, SubmitMem, HasRoom, Serving, delivery, goroutines, history
<1>13. AcceptedIsKept'
  BY <1>0, <1>h, <1>q, <1>r, <1>d, QueueAssumption DEF AcceptedIsKept, TypeOK, Idle, Executors,
           Serving, SubmitMem, HasRoom, delivery, goroutines, history
<1>14. OneAtATime'
  BY <1>0, <1>d DEF OneAtATime, SubmitMem, HasRoom, Serving, delivery, goroutines, history
<1> QED BY <1>1, <1>2, <1>3, <1>4, <1>5, <1>6, <1>7, <1>8, <1>9, <1>10, <1>11, <1>12, <1>13,
         <1>14 DEF IInv


\* SubmitRedis preserves IInv.
LEMMA SubmitRedisInv ==
  ASSUME IInv, NEW j \in Jobs, SubmitRedis(j)
  PROVE  IInv'
<1>0. TypeOK /\ Idle /\ Fresh /\ RowExists /\ WaitingOnce /\ InMemory /\ OneHolderInMemory
      /\ Owners /\ Stopped /\ Counted /\ Unsettled /\ Reported /\ AcceptedIsKept /\ OneAtATime
  BY DEF IInv
<1>h. /\ \A x \in Running : x \in Executors /\ job[x] \in Jobs /\ job[x] # None
      /\ \A x \in Executors : job[x] # None => job[x] \in Jobs /\ job[x] \in Held
      /\ \A x \in Executors : phase[x] \notin {"idle", "gone"} => job[x] \in Jobs /\ job[x] # None
  BY <1>0, RunningHolds
<1>q. waiting' = Append(waiting, j) => Queued' = Queued \cup {j}
  BY <1>0, AppendQueued DEF TypeOK
<1>r. waiting' = waiting => Queued' = Queued
  BY DEF Queued
<1>s. waiting' = Append(waiting, j) =>
        \A i, k \in DOMAIN waiting' : waiting'[i] = waiting'[k] => i = k
  <2>1. waiting \in Seq(Jobs) /\ j \notin Queued
    BY <1>0 DEF TypeOK, Fresh, SubmitRedis
  <2> QED BY <1>0, <2>1, AppendOnce
<1>d. Held' = Held
  BY DEF SubmitRedis, delivery, goroutines, history, Held
<1>1. TypeOK'
  <2>1. reply' \in [Jobs -> {"none", "preparing", "accepted", "refused", "unanswered"}]
    <3>1. reply' = [reply EXCEPT ![j] = "accepted"] \/ reply' = [reply EXCEPT ![j] = "refused"]
      BY DEF SubmitRedis
    <3> QED BY <1>0, <3>1 DEF TypeOK
  <2>2. waiting' \in Seq(Jobs)
    <3>1. waiting' = waiting \/ waiting' = Append(waiting, j)
      BY DEF SubmitRedis
    <3>2. waiting \in Seq(Jobs)
      BY <1>0 DEF TypeOK
    <3>3. Append(waiting, j) \in Seq(Jobs)
      BY <3>2
    <3> QED BY <3>1, <3>2, <3>3
  <2> QED BY <1>0, <2>1, <2>2 DEF TypeOK, SubmitRedis, delivery, goroutines, history
<1>2. Idle'
  BY <1>0, <1>d DEF Idle, SubmitRedis, delivery, goroutines, history
<1>3. Fresh'
  BY <1>0, <1>h, <1>q, <1>r, <1>d, QueueAssumption DEF Fresh, TypeOK, Idle, Executors, Serving,
           SubmitRedis, delivery, goroutines, history
<1>4. RowExists'
  BY <1>0, <1>h, <1>q, <1>r, <1>d, QueueAssumption DEF RowExists, TypeOK, Idle, Executors,
           Serving, SubmitRedis, delivery, goroutines, history
<1>5. WaitingOnce'
  BY <1>0, <1>h, <1>q, <1>r, <1>d, <1>s, QueueAssumption DEF WaitingOnce, TypeOK, Idle,
           Executors, Serving, Fresh, SubmitRedis, delivery, goroutines, history
<1>6. InMemory'
  BY <1>0 DEF InMemory, SubmitRedis, delivery, goroutines, history
<1>7. OneHolderInMemory'
  BY <1>0, <1>d DEF OneHolderInMemory, SubmitRedis, delivery, goroutines, history
<1>8. Owners'
  BY <1>0, <1>d DEF Owners, SubmitRedis, delivery, goroutines, history
<1>9. Stopped'
  BY <1>0, <1>h, <1>q, <1>r, <1>d, QueueAssumption DEF Stopped, TypeOK, Idle, Executors,
           Serving, SubmitRedis, delivery, goroutines, history
<1>10. Counted'
  BY <1>0, <1>d DEF Counted, Running, SubmitRedis, delivery, goroutines, history
<1>11. Unsettled'
  BY <1>0, <1>h, <1>q, <1>r, <1>d, QueueAssumption DEF Unsettled, TypeOK, Final, Running,
           Counted, Idle, Executors, Serving, SubmitRedis, delivery, goroutines, history
<1>12. Reported'
  BY <1>0, <1>d DEF Reported, Final, SubmitRedis, delivery, goroutines, history
<1>13. AcceptedIsKept'
  BY <1>0, <1>h, <1>q, <1>r, <1>d, QueueAssumption DEF AcceptedIsKept, TypeOK, Idle, Executors,
           Serving, SubmitRedis, delivery, goroutines, history
<1>14. OneAtATime'
  BY <1>0, <1>d DEF OneAtATime, SubmitRedis, delivery, goroutines, history
<1> QED BY <1>1, <1>2, <1>3, <1>4, <1>5, <1>6, <1>7, <1>8, <1>9, <1>10, <1>11, <1>12, <1>13,
         <1>14 DEF IInv


\* TakeMem preserves IInv.
LEMMA TakeMemInv ==
  ASSUME IInv, NEW w \in Workers, TakeMem(w)
  PROVE  IInv'
<1>0. TypeOK /\ Idle /\ Fresh /\ RowExists /\ WaitingOnce /\ InMemory /\ OneHolderInMemory
      /\ Owners /\ Stopped /\ Counted /\ Unsettled /\ Reported /\ AcceptedIsKept /\ OneAtATime
  BY DEF IInv
<1>h. /\ \A x \in Running : x \in Executors /\ job[x] \in Jobs /\ job[x] # None
      /\ \A x \in Executors : job[x] # None => job[x] \in Jobs /\ job[x] \in Held
      /\ \A x \in Executors : phase[x] \notin {"idle", "gone"} => job[x] \in Jobs /\ job[x] # None
  BY <1>0, RunningHolds
<1>q. /\ Head(waiting) \in Jobs /\ waiting' \in Seq(Jobs)
      /\ Head(waiting) \in Queued /\ Head(waiting) \notin Queued'
      /\ Queued = Queued' \cup {Head(waiting)}
      /\ \A i, k \in DOMAIN waiting' : waiting'[i] = waiting'[k] => i = k
  <2>1. waiting \in Seq(Jobs) /\ waiting # <<>> /\ waiting' = Tail(waiting)
    BY <1>0 DEF TakeMem, TypeOK
  <2> QED BY <1>0, <2>1, TailQueued
<1>d. Held' = Held \cup {Head(waiting)}
  <2>1. w \in Executors /\ job[w] = None /\ Grab(w, Head(waiting), "exec")
    BY <1>0 DEF TakeMem, Idle, Executors
  <2> QED BY <1>0, <1>q, <2>1, GrabHeld
<1>1. TypeOK'
  <2>1. waiting' \in Seq(Jobs)
    BY <1>0, <1>h, <1>q, <1>d, QueueAssumption DEF TypeOK, TakeMem, Serving, Grab
  <2>2. phase' \in [Executors -> Phases]
    BY <1>0, <1>h, <1>q, <1>d, QueueAssumption DEF TypeOK, Phases, Executors, TakeMem, Serving, Grab
  <2>3. job' \in [Executors -> Jobs \cup {None}]
    BY <1>0, <1>h, <1>q, <1>d, QueueAssumption DEF TypeOK, Executors, TakeMem, Serving, Grab
  <2>4. execs' \in [Jobs -> Nat]
    BY <1>0, <1>h, <1>q, <1>d, QueueAssumption DEF TypeOK, TakeMem, Serving, Grab
  <2> QED BY <1>0, <2>1, <2>2, <2>3, <2>4 DEF TypeOK, TakeMem, Serving, Grab, delivery,
           goroutines, history
<1>2. Idle'
  BY <1>0, <1>h, <1>q, <1>d, QueueAssumption DEF Idle, TypeOK, Executors, Serving, TakeMem,
           Grab, delivery, goroutines, history
<1>3. Fresh'
  BY <1>0, <1>h, <1>q, <1>d, QueueAssumption DEF Fresh, TypeOK, Idle, Executors, Serving,
           TakeMem, Grab, delivery, goroutines, history
<1>4. RowExists'
  BY <1>0 DEF RowExists, TakeMem, Serving, Grab, delivery, goroutines, history
<1>5. WaitingOnce'
  BY <1>0, <1>h, <1>q, <1>d, QueueAssumption DEF WaitingOnce, TypeOK, Idle, Executors, Serving,
           TakeMem, Grab, delivery, goroutines, history
<1>6. InMemory'
  BY <1>0, <1>h, <1>q, <1>d, QueueAssumption DEF InMemory, TypeOK, Idle, Executors, Serving,
           TakeMem, Grab, delivery, goroutines, history
<1>7. OneHolderInMemory'
  BY <1>0, <1>h, <1>q, <1>d, QueueAssumption DEF OneHolderInMemory, TypeOK, Idle, Executors,
           Serving, WaitingOnce, TakeMem, Grab, delivery, goroutines, history
<1>8. Owners'
  BY <1>0, <1>h, <1>q, <1>d, QueueAssumption DEF Owners, TypeOK, Idle, Executors, Serving,
           WaitingOnce, TakeMem, Grab, delivery, goroutines, history
<1>9. Stopped'
  BY <1>0, <1>h, <1>q, <1>d, QueueAssumption DEF Stopped, TypeOK, Idle, Executors, Serving,
           TakeMem, Grab, delivery, goroutines, history
<1>10. Counted'
  BY <1>0, <1>h, <1>q, <1>d, QueueAssumption DEF Counted, TypeOK, Running, Idle, Executors,
           Serving, TakeMem, Grab, delivery, goroutines, history
<1>11. Unsettled'
  BY <1>0, <1>h, <1>q, <1>d, QueueAssumption DEF Unsettled, TypeOK, Final, Running, Counted,
           Idle, Executors, Serving, TakeMem, Grab, delivery, goroutines, history
<1>12. Reported'
  BY <1>0, <1>h, <1>q, <1>d, QueueAssumption DEF Reported, TypeOK, Final, Running, Counted,
           Idle, Executors, Serving, TakeMem, Grab, delivery, goroutines, history
<1>13. AcceptedIsKept'
  BY <1>0, <1>h, <1>q, <1>d, QueueAssumption DEF AcceptedIsKept, TypeOK, Idle, Executors,
           Serving, TakeMem, Grab, delivery, goroutines, history
<1>14. OneAtATime'
  BY <1>0, <1>h, <1>q, <1>d, QueueAssumption DEF OneAtATime, TypeOK, Idle, Executors, Serving,
           WaitingOnce, TakeMem, Grab, delivery, goroutines, history
<1> QED BY <1>1, <1>2, <1>3, <1>4, <1>5, <1>6, <1>7, <1>8, <1>9, <1>10, <1>11, <1>12, <1>13,
         <1>14 DEF IInv


\* TakeRedis preserves IInv.
LEMMA TakeRedisInv ==
  ASSUME IInv, NEW w \in Workers, TakeRedis(w)
  PROVE  IInv'
<1>0. TypeOK /\ Idle /\ Fresh /\ RowExists /\ WaitingOnce /\ InMemory /\ OneHolderInMemory
      /\ Owners /\ Stopped /\ Counted /\ Unsettled /\ Reported /\ AcceptedIsKept /\ OneAtATime
  BY DEF IInv
<1>h. /\ \A x \in Running : x \in Executors /\ job[x] \in Jobs /\ job[x] # None
      /\ \A x \in Executors : job[x] # None => job[x] \in Jobs /\ job[x] \in Held
      /\ \A x \in Executors : phase[x] \notin {"idle", "gone"} => job[x] \in Jobs /\ job[x] # None
  BY <1>0, RunningHolds
<1>q. /\ Head(waiting) \in Jobs /\ waiting' \in Seq(Jobs)
      /\ Head(waiting) \in Queued /\ Head(waiting) \notin Queued'
      /\ Queued = Queued' \cup {Head(waiting)}
      /\ \A i, k \in DOMAIN waiting' : waiting'[i] = waiting'[k] => i = k
  <2>1. waiting \in Seq(Jobs) /\ waiting # <<>> /\ waiting' = Tail(waiting)
    BY <1>0 DEF TakeRedis, TypeOK
  <2> QED BY <1>0, <2>1, TailQueued
<1>d. Held' = Held \cup {Head(waiting)}
  <2>1. w \in Executors /\ job[w] = None /\ Grab(w, Head(waiting), "fetch")
    BY <1>0 DEF TakeRedis, Idle, Executors
  <2> QED BY <1>0, <1>q, <2>1, GrabHeld
<1>1. TypeOK'
  <2>1. waiting' \in Seq(Jobs)
    BY <1>0, <1>h, <1>q, <1>d, QueueAssumption DEF TypeOK, TakeRedis, Grab
  <2>2. pel' \subseteq Jobs /\ stale' \subseteq pel'
    BY <1>0, <1>h, <1>q, <1>d, QueueAssumption DEF TypeOK, TakeRedis, Grab
  <2>3. phase' \in [Executors -> Phases]
    BY <1>0, <1>h, <1>q, <1>d, QueueAssumption DEF TypeOK, Phases, Executors, TakeRedis, Grab
  <2>4. job' \in [Executors -> Jobs \cup {None}]
    BY <1>0, <1>h, <1>q, <1>d, QueueAssumption DEF TypeOK, Executors, TakeRedis, Grab
  <2> QED BY <1>0, <2>1, <2>2, <2>3, <2>4 DEF TypeOK, TakeRedis, Grab, delivery, goroutines, history
<1>2. Idle'
  BY <1>0, <1>h, <1>q, <1>d, QueueAssumption DEF Idle, TypeOK, Executors, Serving, TakeRedis,
           Grab, delivery, goroutines, history
<1>3. Fresh'
  BY <1>0, <1>h, <1>q, <1>d, QueueAssumption DEF Fresh, TypeOK, Idle, Executors, Serving,
           TakeRedis, Grab, delivery, goroutines, history
<1>4. RowExists'
  BY <1>0 DEF RowExists, TakeRedis, Grab, delivery, goroutines, history
<1>5. WaitingOnce'
  BY <1>0, <1>h, <1>q, <1>d, QueueAssumption DEF WaitingOnce, TypeOK, Idle, Executors, Serving,
           TakeRedis, Grab, delivery, goroutines, history
<1>6. InMemory'
  BY <1>0, <1>h, <1>q, <1>d, QueueAssumption DEF InMemory, TypeOK, Idle, Executors, Serving,
           TakeRedis, Grab, delivery, goroutines, history
<1>7. OneHolderInMemory'
  BY <1>0, <1>h, <1>q, <1>d, QueueAssumption DEF OneHolderInMemory, TypeOK, Idle, Executors,
           Serving, WaitingOnce, TakeRedis, Grab, delivery, goroutines, history
<1>8. Owners'
  BY <1>0, <1>h, <1>q, <1>d, QueueAssumption DEF Owners, TypeOK, Idle, Executors, Serving,
           WaitingOnce, TakeRedis, Grab, delivery, goroutines, history
<1>9. Stopped'
  BY <1>0, <1>h, <1>q, <1>d, QueueAssumption DEF Stopped, TypeOK, Idle, Executors, Serving,
           TakeRedis, Grab, delivery, goroutines, history
<1>10. Counted'
  BY <1>0, <1>h, <1>q, <1>d, QueueAssumption DEF Counted, TypeOK, Running, Idle, Executors,
           Serving, TakeRedis, Grab, delivery, goroutines, history
<1>11. Unsettled'
  BY <1>0, <1>h, <1>q, <1>d, QueueAssumption DEF Unsettled, TypeOK, Final, Running, Counted,
           Idle, Executors, Serving, TakeRedis, Grab, delivery, goroutines, history
<1>12. Reported'
  BY <1>0, <1>h, <1>q, <1>d, QueueAssumption DEF Reported, TypeOK, Final, Running, Counted,
           Idle, Executors, Serving, TakeRedis, Grab, delivery, goroutines, history
<1>13. AcceptedIsKept'
  BY <1>0, <1>h, <1>q, <1>d, QueueAssumption DEF AcceptedIsKept, TypeOK, Idle, Executors,
           Serving, TakeRedis, Grab, delivery, goroutines, history
<1>14. OneAtATime'
  BY <1>0, <1>h, <1>q, <1>d, QueueAssumption DEF OneAtATime, TypeOK, Idle, Executors, Serving,
           WaitingOnce, TakeRedis, Grab, delivery, goroutines, history
<1> QED BY <1>1, <1>2, <1>3, <1>4, <1>5, <1>6, <1>7, <1>8, <1>9, <1>10, <1>11, <1>12, <1>13,
         <1>14 DEF IInv


\* ReadWhileStopping preserves IInv.
LEMMA ReadWhileStoppingInv ==
  ASSUME IInv, NEW w \in Workers, ReadWhileStopping(w)
  PROVE  IInv'
<1>0. TypeOK /\ Idle /\ Fresh /\ RowExists /\ WaitingOnce /\ InMemory /\ OneHolderInMemory
      /\ Owners /\ Stopped /\ Counted /\ Unsettled /\ Reported /\ AcceptedIsKept /\ OneAtATime
  BY DEF IInv
<1>h. /\ \A x \in Running : x \in Executors /\ job[x] \in Jobs /\ job[x] # None
      /\ \A x \in Executors : job[x] # None => job[x] \in Jobs /\ job[x] \in Held
      /\ \A x \in Executors : phase[x] \notin {"idle", "gone"} => job[x] \in Jobs /\ job[x] # None
  BY <1>0, RunningHolds
<1>q. /\ Head(waiting) \in Jobs /\ waiting' \in Seq(Jobs)
      /\ Head(waiting) \in Queued /\ Head(waiting) \notin Queued'
      /\ Queued = Queued' \cup {Head(waiting)}
      /\ \A i, k \in DOMAIN waiting' : waiting'[i] = waiting'[k] => i = k
  <2>1. waiting \in Seq(Jobs) /\ waiting # <<>> /\ waiting' = Tail(waiting)
    BY <1>0 DEF ReadWhileStopping, TypeOK
  <2> QED BY <1>0, <2>1, TailQueued
<1>d. Held' = Held
  BY DEF ReadWhileStopping, Goto, delivery, goroutines, history, Held
<1>1. TypeOK'
  <2>1. waiting' \in Seq(Jobs)
    BY <1>0, <1>h, <1>q, <1>d, QueueAssumption DEF TypeOK, ReadWhileStopping, Goto
  <2>2. pel' \subseteq Jobs /\ stale' \subseteq pel'
    BY <1>0, <1>h, <1>q, <1>d, QueueAssumption DEF TypeOK, ReadWhileStopping, Goto
  <2>3. phase' \in [Executors -> Phases]
    BY <1>0, <1>h, <1>q, <1>d, QueueAssumption DEF TypeOK, Phases, Executors,
             ReadWhileStopping, Goto
  <2> QED BY <1>0, <2>1, <2>2, <2>3 DEF TypeOK, ReadWhileStopping, Goto, delivery, goroutines,
           history
<1>2. Idle'
  BY <1>0, <1>h, <1>q, <1>d, QueueAssumption DEF Idle, TypeOK, Executors, Serving,
           ReadWhileStopping, Goto, delivery, goroutines, history
<1>3. Fresh'
  BY <1>0, <1>h, <1>q, <1>d, QueueAssumption DEF Fresh, TypeOK, Idle, Executors, Serving,
           ReadWhileStopping, Goto, delivery, goroutines, history
<1>4. RowExists'
  BY <1>0 DEF RowExists, ReadWhileStopping, Goto, delivery, goroutines, history
<1>5. WaitingOnce'
  BY <1>0, <1>h, <1>q, <1>d, QueueAssumption DEF WaitingOnce, TypeOK, Idle, Executors, Serving,
           ReadWhileStopping, Goto, delivery, goroutines, history
<1>6. InMemory'
  BY <1>0, <1>h, <1>q, <1>d, QueueAssumption DEF InMemory, TypeOK, Idle, Executors, Serving,
           ReadWhileStopping, Goto, delivery, goroutines, history
<1>7. OneHolderInMemory'
  BY <1>0, <1>d DEF OneHolderInMemory, ReadWhileStopping, Goto, delivery, goroutines, history
<1>8. Owners'
  BY <1>0, <1>d DEF Owners, ReadWhileStopping, Goto, delivery, goroutines, history
<1>9. Stopped'
  BY <1>0, <1>h, <1>q, <1>d, QueueAssumption DEF Stopped, TypeOK, Idle, Executors, Serving,
           ReadWhileStopping, Goto, delivery, goroutines, history
<1>10. Counted'
  BY <1>0, <1>h, <1>q, <1>d, QueueAssumption DEF Counted, TypeOK, Running, Idle, Executors,
           Serving, ReadWhileStopping, Goto, delivery, goroutines, history
<1>11. Unsettled'
  BY <1>0, <1>h, <1>q, <1>d, QueueAssumption DEF Unsettled, TypeOK, Final, Running, Counted,
           Idle, Executors, Serving, ReadWhileStopping, Goto, delivery, goroutines, history
<1>12. Reported'
  BY <1>0, <1>h, <1>q, <1>d, QueueAssumption DEF Reported, TypeOK, Final, Running, Counted,
           Idle, Executors, Serving, ReadWhileStopping, Goto, delivery, goroutines, history
<1>13. AcceptedIsKept'
  BY <1>0, <1>h, <1>q, <1>d, QueueAssumption DEF AcceptedIsKept, TypeOK, Idle, Executors,
           Serving, ReadWhileStopping, Goto, delivery, goroutines, history
<1>14. OneAtATime'
  BY <1>0, <1>d DEF OneAtATime, ReadWhileStopping, Goto, delivery, goroutines, history
<1> QED BY <1>1, <1>2, <1>3, <1>4, <1>5, <1>6, <1>7, <1>8, <1>9, <1>10, <1>11, <1>12, <1>13,
         <1>14 DEF IInv


\* WorkerStops preserves IInv.
LEMMA WorkerStopsInv ==
  ASSUME IInv, NEW w \in Workers, WorkerStops(w)
  PROVE  IInv'
<1>0. TypeOK /\ Idle /\ Fresh /\ RowExists /\ WaitingOnce /\ InMemory /\ OneHolderInMemory
      /\ Owners /\ Stopped /\ Counted /\ Unsettled /\ Reported /\ AcceptedIsKept /\ OneAtATime
  BY DEF IInv
<1>h. /\ \A x \in Running : x \in Executors /\ job[x] \in Jobs /\ job[x] # None
      /\ \A x \in Executors : job[x] # None => job[x] \in Jobs /\ job[x] \in Held
      /\ \A x \in Executors : phase[x] \notin {"idle", "gone"} => job[x] \in Jobs /\ job[x] # None
  BY <1>0, RunningHolds
<1>q. Queued' = Queued
  BY DEF WorkerStops, MayStop, Goto, delivery, goroutines, history, Queued
<1>d. Held' = Held
  BY DEF WorkerStops, MayStop, Goto, delivery, goroutines, history, Held
<1>1. TypeOK'
  <2>1. phase' \in [Executors -> Phases]
    BY <1>0, <1>h, <1>q, <1>d, QueueAssumption DEF TypeOK, Phases, Executors, WorkerStops,
             MayStop, Goto
  <2> QED BY <1>0, <2>1 DEF TypeOK, WorkerStops, MayStop, Goto, delivery, goroutines, history
<1>2. Idle'
  BY <1>0, <1>h, <1>q, <1>d, QueueAssumption DEF Idle, TypeOK, Executors, Serving, WorkerStops,
           MayStop, Goto, delivery, goroutines, history
<1>3. Fresh'
  BY <1>0, <1>q, <1>d DEF Fresh, WorkerStops, MayStop, Goto, delivery, goroutines, history
<1>4. RowExists'
  BY <1>0 DEF RowExists, WorkerStops, MayStop, Goto, delivery, goroutines, history
<1>5. WaitingOnce'
  BY <1>0, <1>q, <1>d DEF WaitingOnce, WorkerStops, MayStop, Goto, delivery, goroutines, history
<1>6. InMemory'
  BY <1>0, <1>h, <1>q, <1>d, QueueAssumption DEF InMemory, TypeOK, Idle, Executors, Serving,
           WorkerStops, MayStop, Goto, delivery, goroutines, history
<1>7. OneHolderInMemory'
  BY <1>0, <1>d DEF OneHolderInMemory, WorkerStops, MayStop, Goto, delivery, goroutines, history
<1>8. Owners'
  BY <1>0, <1>d DEF Owners, WorkerStops, MayStop, Goto, delivery, goroutines, history
<1>9. Stopped'
  BY <1>0, <1>h, <1>q, <1>d, QueueAssumption DEF Stopped, TypeOK, Idle, Executors, Serving,
           WorkerStops, MayStop, Goto, delivery, goroutines, history
<1>10. Counted'
  BY <1>0, <1>h, <1>q, <1>d, QueueAssumption DEF Counted, TypeOK, Running, Idle, Executors,
           Serving, WorkerStops, MayStop, Goto, delivery, goroutines, history
<1>11. Unsettled'
  BY <1>0, <1>h, <1>q, <1>d, QueueAssumption DEF Unsettled, TypeOK, Final, Running, Counted,
           Idle, Executors, Serving, WorkerStops, MayStop, Goto, delivery, goroutines, history
<1>12. Reported'
  BY <1>0, <1>h, <1>q, <1>d, QueueAssumption DEF Reported, TypeOK, Final, Running, Counted,
           Idle, Executors, Serving, WorkerStops, MayStop, Goto, delivery, goroutines, history
<1>13. AcceptedIsKept'
  BY <1>0, <1>q, <1>d DEF AcceptedIsKept, WorkerStops, MayStop, Goto, delivery, goroutines, history
<1>14. OneAtATime'
  BY <1>0, <1>d DEF OneAtATime, WorkerStops, MayStop, Goto, delivery, goroutines, history
<1> QED BY <1>1, <1>2, <1>3, <1>4, <1>5, <1>6, <1>7, <1>8, <1>9, <1>10, <1>11, <1>12, <1>13,
         <1>14 DEF IInv


\* Age preserves IInv.
LEMMA AgeInv ==
  ASSUME IInv, NEW j \in Jobs, Age(j)
  PROVE  IInv'
<1>0. TypeOK /\ Idle /\ Fresh /\ RowExists /\ WaitingOnce /\ InMemory /\ OneHolderInMemory
      /\ Owners /\ Stopped /\ Counted /\ Unsettled /\ Reported /\ AcceptedIsKept /\ OneAtATime
  BY DEF IInv
<1>h. /\ \A x \in Running : x \in Executors /\ job[x] \in Jobs /\ job[x] # None
      /\ \A x \in Executors : job[x] # None => job[x] \in Jobs /\ job[x] \in Held
      /\ \A x \in Executors : phase[x] \notin {"idle", "gone"} => job[x] \in Jobs /\ job[x] # None
  BY <1>0, RunningHolds
<1>q. Queued' = Queued
  BY DEF Age, MayAge, delivery, goroutines, history, Queued
<1>d. Held' = Held
  BY DEF Age, MayAge, delivery, goroutines, history, Held
<1>1. TypeOK'
  <2>1. pel' \subseteq Jobs /\ stale' \subseteq pel'
    BY <1>0, <1>h, <1>q, <1>d, QueueAssumption DEF TypeOK, Age, MayAge
  <2> QED BY <1>0, <2>1 DEF TypeOK, Age, MayAge, delivery, goroutines, history
<1>2. Idle'
  BY <1>0, <1>d DEF Idle, Age, MayAge, delivery, goroutines, history
<1>3. Fresh'
  BY <1>0, <1>q, <1>d DEF Fresh, Age, MayAge, delivery, goroutines, history
<1>4. RowExists'
  BY <1>0 DEF RowExists, Age, MayAge, delivery, goroutines, history
<1>5. WaitingOnce'
  BY <1>0, <1>q, <1>d DEF WaitingOnce, Age, MayAge, delivery, goroutines, history
<1>6. InMemory'
  BY <1>0 DEF InMemory, Age, MayAge, delivery, goroutines, history
<1>7. OneHolderInMemory'
  BY <1>0, <1>d DEF OneHolderInMemory, Age, MayAge, delivery, goroutines, history
<1>8. Owners'
  BY <1>0, <1>h, <1>q, <1>d, QueueAssumption DEF Owners, TypeOK, Idle, Executors, Serving, Age,
           MayAge, delivery, goroutines, history
<1>9. Stopped'
  BY <1>0, <1>q DEF Stopped, Age, MayAge, delivery, goroutines, history
<1>10. Counted'
  BY <1>0, <1>d DEF Counted, Running, Age, MayAge, delivery, goroutines, history
<1>11. Unsettled'
  BY <1>0, <1>q, <1>d DEF Unsettled, Age, MayAge, delivery, goroutines, history
<1>12. Reported'
  BY <1>0, <1>d DEF Reported, Final, Age, MayAge, delivery, goroutines, history
<1>13. AcceptedIsKept'
  BY <1>0, <1>q, <1>d DEF AcceptedIsKept, Age, MayAge, delivery, goroutines, history
<1>14. OneAtATime'
  BY <1>0, <1>d DEF OneAtATime, Age, MayAge, delivery, goroutines, history
<1> QED BY <1>1, <1>2, <1>3, <1>4, <1>5, <1>6, <1>7, <1>8, <1>9, <1>10, <1>11, <1>12, <1>13,
         <1>14 DEF IInv


\* Claim preserves IInv.
LEMMA ClaimInv ==
  ASSUME IInv, Claim
  PROVE  IInv'
<1>0. TypeOK /\ Idle /\ Fresh /\ RowExists /\ WaitingOnce /\ InMemory /\ OneHolderInMemory
      /\ Owners /\ Stopped /\ Counted /\ Unsettled /\ Reported /\ AcceptedIsKept /\ OneAtATime
  BY DEF IInv
<1>h. /\ \A x \in Running : x \in Executors /\ job[x] \in Jobs /\ job[x] # None
      /\ \A x \in Executors : job[x] # None => job[x] \in Jobs /\ job[x] \in Held
      /\ \A x \in Executors : phase[x] \notin {"idle", "gone"} => job[x] \in Jobs /\ job[x] # None
  BY <1>0, RunningHolds
<1>q. Queued' = Queued
  BY DEF Claim, Claimable, delivery, goroutines, history, Queued
<1>d. Held' = Held
  BY DEF Claim, Claimable, delivery, goroutines, history, Held
<1>1. TypeOK'
  <2>1. pel' \subseteq Jobs /\ stale' \subseteq pel'
    BY <1>0, <1>h, <1>q, <1>d, QueueAssumption DEF TypeOK, Claim, Claimable
  <2>2. batch' \subseteq Jobs
    BY <1>0, <1>h, <1>q, <1>d, QueueAssumption DEF TypeOK, Claim, Claimable
  <2> QED BY <1>0, <2>1, <2>2 DEF TypeOK, Claim, Claimable, delivery, goroutines, history
<1>2. Idle'
  BY <1>0, <1>d DEF Idle, Claim, Claimable, delivery, goroutines, history
<1>3. Fresh'
  BY <1>0, <1>h, <1>q, <1>d, QueueAssumption DEF Fresh, TypeOK, Idle, Executors, Serving,
           Claim, Claimable, delivery, goroutines, history
<1>4. RowExists'
  BY <1>0 DEF RowExists, Claim, Claimable, delivery, goroutines, history
<1>5. WaitingOnce'
  BY <1>0, <1>h, <1>q, <1>d, QueueAssumption DEF WaitingOnce, TypeOK, Idle, Executors, Serving,
           Claim, Claimable, delivery, goroutines, history
<1>6. InMemory'
  BY <1>0, <1>h, <1>q, <1>d, QueueAssumption DEF InMemory, TypeOK, Idle, Executors, Serving,
           Claim, Claimable, delivery, goroutines, history
<1>7. OneHolderInMemory'
  BY <1>0, <1>d DEF OneHolderInMemory, Claim, Claimable, delivery, goroutines, history
<1>8. Owners'
  BY <1>0, <1>h, <1>q, <1>d, QueueAssumption DEF Owners, TypeOK, Idle, Executors, Serving,
           Claim, Claimable, delivery, goroutines, history
<1>9. Stopped'
  BY <1>0, <1>h, <1>q, <1>d, QueueAssumption DEF Stopped, TypeOK, Idle, Executors, Serving,
           Claim, Claimable, delivery, goroutines, history
<1>10. Counted'
  BY <1>0, <1>d DEF Counted, Running, Claim, Claimable, delivery, goroutines, history
<1>11. Unsettled'
  BY <1>0, <1>q, <1>d DEF Unsettled, Claim, Claimable, delivery, goroutines, history
<1>12. Reported'
  BY <1>0, <1>d DEF Reported, Final, Claim, Claimable, delivery, goroutines, history
<1>13. AcceptedIsKept'
  BY <1>0, <1>q, <1>d DEF AcceptedIsKept, Claim, Claimable, delivery, goroutines, history
<1>14. OneAtATime'
  BY <1>0, <1>d DEF OneAtATime, Claim, Claimable, delivery, goroutines, history
<1> QED BY <1>1, <1>2, <1>3, <1>4, <1>5, <1>6, <1>7, <1>8, <1>9, <1>10, <1>11, <1>12, <1>13,
         <1>14 DEF IInv


\* ReapNext preserves IInv.
LEMMA ReapNextInv ==
  ASSUME IInv, NEW j \in Jobs, ReapNext(j)
  PROVE  IInv'
<1>0. TypeOK /\ Idle /\ Fresh /\ RowExists /\ WaitingOnce /\ InMemory /\ OneHolderInMemory
      /\ Owners /\ Stopped /\ Counted /\ Unsettled /\ Reported /\ AcceptedIsKept /\ OneAtATime
  BY DEF IInv
<1>h. /\ \A x \in Running : x \in Executors /\ job[x] \in Jobs /\ job[x] # None
      /\ \A x \in Executors : job[x] # None => job[x] \in Jobs /\ job[x] \in Held
      /\ \A x \in Executors : phase[x] \notin {"idle", "gone"} => job[x] \in Jobs /\ job[x] # None
  BY <1>0, RunningHolds
<1>q. Queued' = Queued
  BY DEF ReapNext, Queued
<1>d. Held' = Held \cup {j}
  <2>1. Reaper \in Executors /\ job[Reaper] = None /\ Grab(Reaper, j, "fetch")
    BY <1>0 DEF ReapNext, Idle, Executors
  <2> QED BY <1>0, <1>q, <2>1, GrabHeld
<1>1. TypeOK'
  <2>1. batch' \subseteq Jobs
    BY <1>0, <1>h, <1>q, <1>d, QueueAssumption DEF TypeOK, ReapNext, Grab
  <2>2. phase' \in [Executors -> Phases]
    BY <1>0, <1>h, <1>q, <1>d, QueueAssumption DEF TypeOK, Phases, Executors, ReapNext, Grab
  <2>3. job' \in [Executors -> Jobs \cup {None}]
    BY <1>0, <1>h, <1>q, <1>d, QueueAssumption DEF TypeOK, Executors, ReapNext, Grab
  <2> QED BY <1>0, <2>1, <2>2, <2>3 DEF TypeOK, ReapNext, Grab, delivery, goroutines, history
<1>2. Idle'
  BY <1>0, <1>h, <1>q, <1>d, QueueAssumption DEF Idle, TypeOK, Executors, Serving, ReapNext,
           Grab, delivery, goroutines, history
<1>3. Fresh'
  BY <1>0, <1>h, <1>q, <1>d, QueueAssumption DEF Fresh, TypeOK, Idle, Executors, Serving,
           ReapNext, Grab, delivery, goroutines, history
<1>4. RowExists'
  BY <1>0 DEF RowExists, ReapNext, Grab, delivery, goroutines, history
<1>5. WaitingOnce'
  BY <1>0, <1>h, <1>q, <1>d, QueueAssumption DEF WaitingOnce, TypeOK, Idle, Executors, Serving,
           ReapNext, Grab, delivery, goroutines, history
<1>6. InMemory'
  BY <1>0, <1>h, <1>q, <1>d, QueueAssumption DEF InMemory, TypeOK, Idle, Executors, Serving,
           ReapNext, Grab, delivery, goroutines, history
<1>7. OneHolderInMemory'
  BY <1>0, <1>h, <1>q, <1>d, QueueAssumption DEF OneHolderInMemory, TypeOK, Idle, Executors,
           Serving, InMemory, ReapNext, Grab, delivery, goroutines, history
<1>8. Owners'
  BY <1>0, <1>h, <1>q, <1>d, QueueAssumption DEF Owners, TypeOK, Idle, Executors, Serving,
           ReapNext, Grab, delivery, goroutines, history
<1>9. Stopped'
  BY <1>0, <1>h, <1>q, <1>d, QueueAssumption DEF Stopped, TypeOK, Idle, Executors, Serving,
           ReapNext, Grab, delivery, goroutines, history
<1>10. Counted'
  BY <1>0, <1>h, <1>q, <1>d, QueueAssumption DEF Counted, TypeOK, Running, Idle, Executors,
           Serving, ReapNext, Grab, delivery, goroutines, history
<1>11. Unsettled'
  BY <1>0, <1>h, <1>q, <1>d, QueueAssumption DEF Unsettled, TypeOK, Final, Running, Counted,
           Idle, Executors, Serving, ReapNext, Grab, delivery, goroutines, history
<1>12. Reported'
  BY <1>0, <1>h, <1>q, <1>d, QueueAssumption DEF Reported, TypeOK, Final, Running, Counted,
           Idle, Executors, Serving, ReapNext, Grab, delivery, goroutines, history
<1>13. AcceptedIsKept'
  BY <1>0, <1>h, <1>q, <1>d, QueueAssumption DEF AcceptedIsKept, TypeOK, Idle, Executors,
           Serving, ReapNext, Grab, delivery, goroutines, history
<1>14. OneAtATime'
  BY <1>0, <1>h, <1>q, <1>d, QueueAssumption DEF OneAtATime, TypeOK, Idle, Executors, Serving,
           Owners, ReapNext, Grab, delivery, goroutines, history
<1> QED BY <1>1, <1>2, <1>3, <1>4, <1>5, <1>6, <1>7, <1>8, <1>9, <1>10, <1>11, <1>12, <1>13,
         <1>14 DEF IInv


\* ReaperStops preserves IInv.
LEMMA ReaperStopsInv ==
  ASSUME IInv, ReaperStops
  PROVE  IInv'
<1>0. TypeOK /\ Idle /\ Fresh /\ RowExists /\ WaitingOnce /\ InMemory /\ OneHolderInMemory
      /\ Owners /\ Stopped /\ Counted /\ Unsettled /\ Reported /\ AcceptedIsKept /\ OneAtATime
  BY DEF IInv
<1>h. /\ \A x \in Running : x \in Executors /\ job[x] \in Jobs /\ job[x] # None
      /\ \A x \in Executors : job[x] # None => job[x] \in Jobs /\ job[x] \in Held
      /\ \A x \in Executors : phase[x] \notin {"idle", "gone"} => job[x] \in Jobs /\ job[x] # None
  BY <1>0, RunningHolds
<1>q. Queued' = Queued
  BY DEF ReaperStops, Goto, delivery, goroutines, history, Queued
<1>d. Held' = Held
  BY DEF ReaperStops, Goto, delivery, goroutines, history, Held
<1>1. TypeOK'
  <2>1. phase' \in [Executors -> Phases]
    BY <1>0, <1>h, <1>q, <1>d, QueueAssumption DEF TypeOK, Phases, Executors, ReaperStops, Goto
  <2> QED BY <1>0, <2>1 DEF TypeOK, ReaperStops, Goto, delivery, goroutines, history
<1>2. Idle'
  BY <1>0, <1>h, <1>q, <1>d, QueueAssumption DEF Idle, TypeOK, Executors, Serving, ReaperStops,
           Goto, delivery, goroutines, history
<1>3. Fresh'
  BY <1>0, <1>q, <1>d DEF Fresh, ReaperStops, Goto, delivery, goroutines, history
<1>4. RowExists'
  BY <1>0 DEF RowExists, ReaperStops, Goto, delivery, goroutines, history
<1>5. WaitingOnce'
  BY <1>0, <1>q, <1>d DEF WaitingOnce, ReaperStops, Goto, delivery, goroutines, history
<1>6. InMemory'
  BY <1>0, <1>h, <1>q, <1>d, QueueAssumption DEF InMemory, TypeOK, Idle, Executors, Serving,
           ReaperStops, Goto, delivery, goroutines, history
<1>7. OneHolderInMemory'
  BY <1>0, <1>d DEF OneHolderInMemory, ReaperStops, Goto, delivery, goroutines, history
<1>8. Owners'
  BY <1>0, <1>d DEF Owners, ReaperStops, Goto, delivery, goroutines, history
<1>9. Stopped'
  BY <1>0, <1>h, <1>q, <1>d, QueueAssumption DEF Stopped, TypeOK, Idle, Executors, Serving,
           ReaperStops, Goto, delivery, goroutines, history
<1>10. Counted'
  BY <1>0, <1>h, <1>q, <1>d, QueueAssumption DEF Counted, TypeOK, Running, Idle, Executors,
           Serving, ReaperStops, Goto, delivery, goroutines, history
<1>11. Unsettled'
  BY <1>0, <1>h, <1>q, <1>d, QueueAssumption DEF Unsettled, TypeOK, Final, Running, Counted,
           Idle, Executors, Serving, ReaperStops, Goto, delivery, goroutines, history
<1>12. Reported'
  BY <1>0, <1>h, <1>q, <1>d, QueueAssumption DEF Reported, TypeOK, Final, Running, Counted,
           Idle, Executors, Serving, ReaperStops, Goto, delivery, goroutines, history
<1>13. AcceptedIsKept'
  BY <1>0, <1>q, <1>d DEF AcceptedIsKept, ReaperStops, Goto, delivery, goroutines, history
<1>14. OneAtATime'
  BY <1>0, <1>d DEF OneAtATime, ReaperStops, Goto, delivery, goroutines, history
<1> QED BY <1>1, <1>2, <1>3, <1>4, <1>5, <1>6, <1>7, <1>8, <1>9, <1>10, <1>11, <1>12, <1>13,
         <1>14 DEF IInv


\* Fetch preserves IInv.
LEMMA FetchInv ==
  ASSUME IInv, NEW e \in Executors, Fetch(e)
  PROVE  IInv'
<1>0. TypeOK /\ Idle /\ Fresh /\ RowExists /\ WaitingOnce /\ InMemory /\ OneHolderInMemory
      /\ Owners /\ Stopped /\ Counted /\ Unsettled /\ Reported /\ AcceptedIsKept /\ OneAtATime
  BY DEF IInv
<1>h. /\ \A x \in Running : x \in Executors /\ job[x] \in Jobs /\ job[x] # None
      /\ \A x \in Executors : job[x] # None => job[x] \in Jobs /\ job[x] \in Held
      /\ \A x \in Executors : phase[x] \notin {"idle", "gone"} => job[x] \in Jobs /\ job[x] # None
  BY <1>0, RunningHolds
<1>q. Queued' = Queued
  BY DEF Fetch, Goto, delivery, goroutines, history, Queued
<1>d. Held' = Held
  BY DEF Fetch, Goto, delivery, goroutines, history, Held
<1>1. TypeOK'
  <2>1. phase' \in [Executors -> Phases]
    BY <1>0, <1>h, <1>q, <1>d, QueueAssumption DEF TypeOK, Phases, Executors, Fetch, Goto
  <2>2. execs' \in [Jobs -> Nat]
    <3>1. /\ job[e] \in Jobs /\ job[e] \in Held /\ job[e] # None /\ phase[e] = "fetch"
          /\ execs \in [Jobs -> Nat] /\ phase \in [Executors -> Phases]
      BY <1>0, <1>h DEF Fetch, TypeOK
    <3>2. \/ phase' = [phase EXCEPT ![e] = "exec"] /\ execs' = [execs EXCEPT ![job[e]] = @ + 1]
          \/ phase' = [phase EXCEPT ![e] = "drop"] /\ execs' = execs
      BY DEF Fetch, Goto
    <3> QED BY <3>1, <3>2
  <2> QED BY <1>0, <2>1, <2>2 DEF TypeOK, Fetch, Goto, delivery, goroutines, history
<1>2. Idle'
  BY <1>0, <1>h, <1>q, <1>d, QueueAssumption DEF Idle, TypeOK, Executors, Serving, Fetch, Goto,
           delivery, goroutines, history
<1>3. Fresh'
  BY <1>0, <1>h, <1>q, <1>d, QueueAssumption DEF Fresh, TypeOK, Idle, Executors, Serving,
           Fetch, Goto, delivery, goroutines, history
<1>4. RowExists'
  BY <1>0 DEF RowExists, Fetch, Goto, delivery, goroutines, history
<1>5. WaitingOnce'
  <2>1. /\ job[e] \in Jobs /\ job[e] \in Held /\ job[e] # None /\ phase[e] = "fetch"
        /\ execs \in [Jobs -> Nat] /\ phase \in [Executors -> Phases]
    BY <1>0, <1>h DEF Fetch, TypeOK
  <2>2. \/ phase' = [phase EXCEPT ![e] = "exec"] /\ execs' = [execs EXCEPT ![job[e]] = @ + 1]
        \/ phase' = [phase EXCEPT ![e] = "drop"] /\ execs' = execs
    BY DEF Fetch, Goto
  <2>3. \A x \in Queued : x \in Jobs /\ x # job[e]
    BY <1>0, <2>1 DEF WaitingOnce, Queued, TypeOK
  <2>4. \A x \in Queued : execs'[x] = execs[x]
    BY <2>1, <2>2, <2>3
  <2>5. waiting' = waiting /\ pel' = pel /\ batch' = batch
    BY DEF Fetch, delivery
  <2> QED BY <1>0, <1>q, <1>d, <2>4, <2>5 DEF WaitingOnce
<1>6. InMemory'
  BY <1>0, <1>h, <1>q, <1>d, QueueAssumption DEF InMemory, TypeOK, Idle, Executors, Serving,
           Fetch, Goto, delivery, goroutines, history
<1>7. OneHolderInMemory'
  BY <1>0, <1>d DEF OneHolderInMemory, Fetch, Goto, delivery, goroutines, history
<1>8. Owners'
  BY <1>0, <1>d DEF Owners, Fetch, Goto, delivery, goroutines, history
<1>9. Stopped'
  BY <1>0, <1>h, <1>q, <1>d, QueueAssumption DEF Stopped, TypeOK, Idle, Executors, Serving,
           Fetch, Goto, delivery, goroutines, history
<1>10. Counted'
  <2>1. /\ job[e] \in Jobs /\ job[e] \in Held /\ job[e] # None /\ phase[e] = "fetch"
        /\ execs \in [Jobs -> Nat] /\ phase \in [Executors -> Phases]
    BY <1>0, <1>h DEF Fetch, TypeOK
  <2>2. \/ phase' = [phase EXCEPT ![e] = "exec"] /\ execs' = [execs EXCEPT ![job[e]] = @ + 1]
        \/ phase' = [phase EXCEPT ![e] = "drop"] /\ execs' = execs
    BY DEF Fetch, Goto
  <2>3. job' = job /\ \A f \in Executors : f # e => phase'[f] = phase[f]
    BY <2>1, <2>2 DEF Fetch
  <2>4. \A x \in Jobs : execs'[x] \in Nat /\ execs'[x] >= execs[x] /\ execs[x] \in Nat
    BY <2>1, <2>2
  <2>5. \A f \in Running' : f \in Executors /\ (f # e => f \in Running)
    BY <2>3 DEF Running
  <2>6. e \in Running' => execs'[job[e]] = execs[job[e]] + 1
    BY <2>1, <2>2 DEF Running
  <2>7. \A f \in Running : f # e => job[f] \in Jobs /\ execs[job[f]] >= 1
    BY <1>0, <1>h DEF Counted
  <2>8. ASSUME NEW f \in Running' PROVE execs'[job'[f]] >= 1
    BY <2>1, <2>3, <2>4, <2>5, <2>6, <2>7, <2>8
  <2>9. ASSUME NEW f \in Running', NEW g \in Running', job'[f] = job'[g], f # g
        PROVE  execs'[job'[f]] >= 2
    <3>1. CASE f = e \/ g = e
      BY <2>1, <2>3, <2>4, <2>5, <2>6, <2>7, <2>9, <3>1
    <3>2. CASE f # e /\ g # e
      <4>1. f \in Running /\ g \in Running /\ job[f] = job[g] /\ job[f] \in Jobs
        BY <2>3, <2>5, <2>7, <2>9, <3>2
      <4>2. execs[job[f]] >= 2
        BY <1>0, <2>9, <4>1 DEF Counted
      <4> QED BY <2>3, <2>4, <4>1, <4>2
    <3> QED BY <3>1, <3>2
  <2> QED BY <2>8, <2>9 DEF Counted
<1>11. Unsettled'
  <2>1. /\ job[e] \in Jobs /\ job[e] \in Held /\ job[e] # None /\ phase[e] = "fetch"
        /\ execs \in [Jobs -> Nat] /\ phase \in [Executors -> Phases]
    BY <1>0, <1>h DEF Fetch, TypeOK
  <2>2. \/ phase' = [phase EXCEPT ![e] = "exec"] /\ execs' = [execs EXCEPT ![job[e]] = @ + 1]
        \/ phase' = [phase EXCEPT ![e] = "drop"] /\ execs' = execs
    BY DEF Fetch, Goto
  <2>3. /\ backend # "mem" /\ backend' = backend /\ row' = row /\ job' = job
        /\ row \in [Jobs -> {"none", "pending"} \cup Final]
    BY <1>0, <2>1 DEF Fetch, InMemory, TypeOK
  <2>4. row[job[e]] # "none"
    BY <1>0, <2>1 DEF Fresh, RowExists
  <2>5. \A x \in Jobs : execs'[x] = 0 => execs[x] = 0
    BY <2>1, <2>2
  <2>6. ASSUME NEW f \in Executors, phase'[f] \in {"exec", "update"}, execs'[job[f]] = 1
        PROVE  row[job[f]] \in {"pending", "failed"}
    <3>1. CASE f = e
      <4>1. execs[job[e]] = 0
        BY <2>1, <2>2, <2>6, <3>1
      <4> QED BY <1>0, <2>1, <2>4, <3>1, <4>1 DEF Unsettled
    <3>2. CASE f # e
      <4>1. phase[f] = phase'[f] /\ f \in Running /\ job[f] \in Jobs
        BY <1>h, <2>1, <2>2, <2>6, <3>2 DEF Running
      <4>2. execs[job[f]] >= 1 /\ execs[job[f]] \in Nat
        BY <1>0, <2>1, <4>1 DEF Counted
      <4>3. execs[job[f]] = 1
        BY <2>1, <2>2, <2>6, <4>1, <4>2
      <4> QED BY <1>0, <2>6, <4>1, <4>3 DEF Unsettled
    <3> QED BY <3>1, <3>2
  <2> QED BY <1>0, <1>q, <2>3, <2>5, <2>6 DEF Unsettled
<1>12. Reported'
  BY <1>0, <1>h, <1>q, <1>d, QueueAssumption DEF Reported, TypeOK, Final, Running, Counted,
           Idle, Executors, Serving, Fetch, Goto, delivery, goroutines, history
<1>13. AcceptedIsKept'
  BY <1>0, <1>q, <1>d DEF AcceptedIsKept, Fetch, Goto, delivery, goroutines, history
<1>14. OneAtATime'
  BY <1>0, <1>d DEF OneAtATime, Fetch, Goto, delivery, goroutines, history
<1> QED BY <1>1, <1>2, <1>3, <1>4, <1>5, <1>6, <1>7, <1>8, <1>9, <1>10, <1>11, <1>12, <1>13,
         <1>14 DEF IInv


\* ExecEnds preserves IInv.
LEMMA ExecEndsInv ==
  ASSUME IInv, NEW e \in Executors, ExecEnds(e)
  PROVE  IInv'
<1>0. TypeOK /\ Idle /\ Fresh /\ RowExists /\ WaitingOnce /\ InMemory /\ OneHolderInMemory
      /\ Owners /\ Stopped /\ Counted /\ Unsettled /\ Reported /\ AcceptedIsKept /\ OneAtATime
  BY DEF IInv
<1>h. /\ \A x \in Running : x \in Executors /\ job[x] \in Jobs /\ job[x] # None
      /\ \A x \in Executors : job[x] # None => job[x] \in Jobs /\ job[x] \in Held
      /\ \A x \in Executors : phase[x] \notin {"idle", "gone"} => job[x] \in Jobs /\ job[x] # None
  BY <1>0, RunningHolds
<1>q. Queued' = Queued
  BY DEF ExecEnds, Goto, delivery, goroutines, history, Queued
<1>d. Held' = Held
  BY DEF ExecEnds, Goto, delivery, goroutines, history, Held
<1>1. TypeOK'
  <2>1. phase' \in [Executors -> Phases]
    BY <1>0, <1>h, <1>q, <1>d, QueueAssumption DEF TypeOK, Phases, Executors, ExecEnds, Goto
  <2>2. status' \in [Executors -> {"pending", None} \cup Final]
    BY <1>0, <1>h, <1>q, <1>d, QueueAssumption DEF TypeOK, Final, Executors, ExecEnds, Goto
  <2>3. expired' \in [Executors -> BOOLEAN]
    BY <1>0, <1>h, <1>q, <1>d, QueueAssumption DEF TypeOK, Executors, ExecEnds, Goto
  <2> QED BY <1>0, <2>1, <2>2, <2>3 DEF TypeOK, ExecEnds, Goto, delivery, goroutines, history
<1>2. Idle'
  BY <1>0, <1>h, <1>q, <1>d, QueueAssumption DEF Idle, TypeOK, Executors, Serving, ExecEnds,
           Goto, delivery, goroutines, history
<1>3. Fresh'
  BY <1>0, <1>q, <1>d DEF Fresh, ExecEnds, Goto, delivery, goroutines, history
<1>4. RowExists'
  BY <1>0 DEF RowExists, ExecEnds, Goto, delivery, goroutines, history
<1>5. WaitingOnce'
  BY <1>0, <1>q, <1>d DEF WaitingOnce, ExecEnds, Goto, delivery, goroutines, history
<1>6. InMemory'
  BY <1>0, <1>h, <1>q, <1>d, QueueAssumption DEF InMemory, TypeOK, Idle, Executors, Serving,
           ExecEnds, Goto, delivery, goroutines, history
<1>7. OneHolderInMemory'
  BY <1>0, <1>d DEF OneHolderInMemory, ExecEnds, Goto, delivery, goroutines, history
<1>8. Owners'
  BY <1>0, <1>d DEF Owners, ExecEnds, Goto, delivery, goroutines, history
<1>9. Stopped'
  BY <1>0, <1>h, <1>q, <1>d, QueueAssumption DEF Stopped, TypeOK, Idle, Executors, Serving,
           ExecEnds, Goto, delivery, goroutines, history
<1>10. Counted'
  BY <1>0, <1>h, <1>q, <1>d, QueueAssumption DEF Counted, TypeOK, Running, Idle, Executors,
           Serving, ExecEnds, Goto, delivery, goroutines, history
<1>11. Unsettled'
  BY <1>0, <1>h, <1>q, <1>d, QueueAssumption DEF Unsettled, TypeOK, Final, Running, Counted,
           Idle, Executors, Serving, ExecEnds, Goto, delivery, goroutines, history
<1>12. Reported'
  BY <1>0, <1>h, <1>q, <1>d, QueueAssumption DEF Reported, TypeOK, Final, Running, Counted,
           Idle, Executors, Serving, ExecEnds, Goto, delivery, goroutines, history
<1>13. AcceptedIsKept'
  BY <1>0, <1>q, <1>d DEF AcceptedIsKept, ExecEnds, Goto, delivery, goroutines, history
<1>14. OneAtATime'
  BY <1>0, <1>d DEF OneAtATime, ExecEnds, Goto, delivery, goroutines, history
<1> QED BY <1>1, <1>2, <1>3, <1>4, <1>5, <1>6, <1>7, <1>8, <1>9, <1>10, <1>11, <1>12, <1>13,
         <1>14 DEF IInv


\* UpdateRun preserves IInv.
LEMMA UpdateRunInv ==
  ASSUME IInv, NEW e \in Executors, UpdateRun(e)
  PROVE  IInv'
<1>0. TypeOK /\ Idle /\ Fresh /\ RowExists /\ WaitingOnce /\ InMemory /\ OneHolderInMemory
      /\ Owners /\ Stopped /\ Counted /\ Unsettled /\ Reported /\ AcceptedIsKept /\ OneAtATime
  BY DEF IInv
<1>h. /\ \A x \in Running : x \in Executors /\ job[x] \in Jobs /\ job[x] # None
      /\ \A x \in Executors : job[x] # None => job[x] \in Jobs /\ job[x] \in Held
      /\ \A x \in Executors : phase[x] \notin {"idle", "gone"} => job[x] \in Jobs /\ job[x] # None
  BY <1>0, RunningHolds
<1>q. Queued' = Queued
  BY DEF UpdateRun, Goto, delivery, goroutines, history, Queued
<1>d. Held' = Held
  BY DEF UpdateRun, Goto, delivery, goroutines, history, Held
<1>1. TypeOK'
  <2>1. row' \in [Jobs -> {"none", "pending"} \cup Final]
    <3>1. /\ job[e] \in Jobs /\ job[e] # None /\ phase[e] = "update" /\ status[e] \in Final
          /\ row \in [Jobs -> {"none", "pending"} \cup Final] /\ e \in Running
      BY <1>0, <1>h DEF UpdateRun, TypeOK, Reported, Running
    <3>2. \/ row' = [row EXCEPT ![job[e]] = status[e]] /\ unsaved' = unsaved
          \/ row' = row /\ unsaved' = unsaved \cup {job[e]}
      BY DEF UpdateRun
    <3> QED BY <3>1, <3>2
  <2>2. phase' \in [Executors -> Phases]
    BY <1>0, <1>h, <1>q, <1>d, QueueAssumption DEF TypeOK, Phases, Executors, UpdateRun, Goto
  <2>3. unsaved' \subseteq Jobs
    BY <1>0, <1>h, <1>q, <1>d, QueueAssumption DEF TypeOK, UpdateRun, Goto
  <2> QED BY <1>0, <2>1, <2>2, <2>3 DEF TypeOK, UpdateRun, Goto, delivery, goroutines, history
<1>2. Idle'
  BY <1>0, <1>h, <1>q, <1>d, QueueAssumption DEF Idle, TypeOK, Executors, Serving, UpdateRun,
           Goto, delivery, goroutines, history
<1>3. Fresh'
  BY <1>0, <1>q, <1>d DEF Fresh, UpdateRun, Goto, delivery, goroutines, history
<1>4. RowExists'
  <2>1. /\ job[e] \in Jobs /\ job[e] # None /\ phase[e] = "update" /\ status[e] \in Final
        /\ row \in [Jobs -> {"none", "pending"} \cup Final] /\ e \in Running
    BY <1>0, <1>h DEF UpdateRun, TypeOK, Reported, Running
  <2>2. \/ row' = [row EXCEPT ![job[e]] = status[e]] /\ unsaved' = unsaved
        \/ row' = row /\ unsaved' = unsaved \cup {job[e]}
    BY DEF UpdateRun
  <2>3. reply' = reply /\ job[e] \in Held
    BY <1>h, <2>1 DEF UpdateRun
  <2>4. reply[job[e]] \notin {"none", "preparing"} /\ status[e] # "none"
    BY <1>0, <2>1, <2>3 DEF Fresh, Final
  <2> QED BY <1>0, <2>1, <2>2, <2>3, <2>4 DEF RowExists
<1>5. WaitingOnce'
  BY <1>0, <1>q, <1>d DEF WaitingOnce, UpdateRun, Goto, delivery, goroutines, history
<1>6. InMemory'
  BY <1>0, <1>h, <1>q, <1>d, QueueAssumption DEF InMemory, TypeOK, Idle, Executors, Serving,
           UpdateRun, Goto, delivery, goroutines, history
<1>7. OneHolderInMemory'
  BY <1>0, <1>d DEF OneHolderInMemory, UpdateRun, Goto, delivery, goroutines, history
<1>8. Owners'
  BY <1>0, <1>d DEF Owners, UpdateRun, Goto, delivery, goroutines, history
<1>9. Stopped'
  BY <1>0, <1>h, <1>q, <1>d, QueueAssumption DEF Stopped, TypeOK, Idle, Executors, Serving,
           UpdateRun, Goto, delivery, goroutines, history
<1>10. Counted'
  BY <1>0, <1>h, <1>q, <1>d, QueueAssumption DEF Counted, TypeOK, Running, Idle, Executors,
           Serving, UpdateRun, Goto, delivery, goroutines, history
<1>11. Unsettled'
  <2>1. /\ job[e] \in Jobs /\ job[e] # None /\ phase[e] = "update" /\ status[e] \in Final
        /\ row \in [Jobs -> {"none", "pending"} \cup Final] /\ e \in Running
    BY <1>0, <1>h DEF UpdateRun, TypeOK, Reported, Running
  <2>2. \/ row' = [row EXCEPT ![job[e]] = status[e]] /\ unsaved' = unsaved
        \/ row' = row /\ unsaved' = unsaved \cup {job[e]}
    BY DEF UpdateRun
  <2>3. /\ phase \in [Executors -> Phases] /\ phase' = [phase EXCEPT ![e] = "reload"]
        /\ execs' = execs /\ job' = job /\ backend' = backend /\ told' = told /\ status' = status
        /\ execs \in [Jobs -> Nat]
    BY <1>0 DEF UpdateRun, Goto, TypeOK
  <2>4. execs[job[e]] >= 1
    BY <1>0, <2>1 DEF Counted
  <2>5. \A f \in Executors : phase[f] \in {"exec", "update", "reload", "callback"} /\ f # e /\ execs[job[f]] = 1
          => job[f] \in Jobs /\ job[f] # job[e]
    BY <1>0, <1>h, <2>1 DEF Counted, Running
  <2>6. \A x \in Jobs : execs[x] = 0 => row'[x] = row[x]
    BY <2>1, <2>2, <2>4
  <2>7. job[e] \notin Queued /\ Queued \subseteq Jobs
    BY <1>0, <1>h, <2>1 DEF WaitingOnce, Queued, TypeOK
  <2>8. \A x \in Queued : row'[x] = row[x]
    BY <2>1, <2>2, <2>7
  <2>9. ASSUME backend = "mem", NEW f \in Executors, f # e, phase[f] \in {"exec", "update"}
        PROVE  job[f] # job[e] /\ job[f] \in Jobs
    <3>1. job[f] \in Jobs /\ job[f] # None
      BY <1>h, <2>9
    <3> QED BY <1>0, <2>1, <2>9, <3>1 DEF OneHolderInMemory
  <2>10. ASSUME NEW f \in Executors, phase'[f] \in {"exec", "update"}
         PROVE  /\ backend = "mem" => row'[job[f]] = "pending"
                /\ execs[job[f]] = 1 => row'[job[f]] \in {"pending", "failed"}
    <3>1. f # e /\ phase[f] = phase'[f]
      BY <2>1, <2>3, <2>10
    <3>2. /\ backend = "mem" => row[job[f]] = "pending"
          /\ execs[job[f]] = 1 => row[job[f]] \in {"pending", "failed"}
      BY <1>0, <2>10, <3>1 DEF Unsettled
    <3>3. backend = "mem" => row'[job[f]] = row[job[f]]
      BY <2>1, <2>2, <2>9, <2>10, <3>1
    <3>4. execs[job[f]] = 1 => row'[job[f]] = row[job[f]]
      BY <2>1, <2>2, <2>5, <2>10, <3>1
    <3> QED BY <3>2, <3>3, <3>4
  <2> QED BY <1>0, <1>q, <2>3, <2>6, <2>8, <2>10 DEF Unsettled
<1>12. Reported'
  <2>1. /\ job[e] \in Jobs /\ job[e] # None /\ phase[e] = "update" /\ status[e] \in Final
        /\ row \in [Jobs -> {"none", "pending"} \cup Final] /\ e \in Running
    BY <1>0, <1>h DEF UpdateRun, TypeOK, Reported, Running
  <2>2. \/ row' = [row EXCEPT ![job[e]] = status[e]] /\ unsaved' = unsaved
        \/ row' = row /\ unsaved' = unsaved \cup {job[e]}
    BY DEF UpdateRun
  <2>3. /\ phase \in [Executors -> Phases] /\ phase' = [phase EXCEPT ![e] = "reload"]
        /\ execs' = execs /\ job' = job /\ backend' = backend /\ told' = told /\ status' = status
        /\ execs \in [Jobs -> Nat]
    BY <1>0 DEF UpdateRun, Goto, TypeOK
  <2>4. execs[job[e]] >= 1
    BY <1>0, <2>1 DEF Counted
  <2>5. \A f \in Executors : phase[f] \in {"exec", "update", "reload", "callback"} /\ f # e /\ execs[job[f]] = 1
          => job[f] \in Jobs /\ job[f] # job[e]
    BY <1>0, <1>h, <2>1 DEF Counted, Running
  <2>6. \A x \in Jobs : execs'[x] = 0 => told'[x] = None
    BY <1>0, <2>3 DEF Reported
  <2>7. ASSUME NEW x \in Jobs, execs[x] = 1, told[x] # None, x \notin unsaved'
        PROVE  row'[x] = told[x] /\ row'[x] \in Final
    <3>1. x # job[e]
      BY <1>0, <2>1, <2>7 DEF Reported
    <3> QED BY <1>0, <2>1, <2>2, <2>7, <3>1 DEF Reported
  <2>8. \A f \in Executors : phase'[f] \in {"exec", "update"} => f # e /\ phase[f] = phase'[f]
    BY <2>1, <2>3
  <2>9. ASSUME NEW f \in Executors, phase'[f] \in {"reload", "callback"}, execs[job[f]] = 1,
               job[f] \notin unsaved'
        PROVE  row'[job[f]] = status[f] /\ row'[job[f]] \in Final
    <3>1. CASE f = e
      BY <2>1, <2>2, <2>9, <3>1
    <3>2. CASE f # e
      <4>1. phase[f] = phase'[f] /\ job[f] \notin unsaved
        BY <2>2, <2>3, <2>9, <3>2
      <4>2. row'[job[f]] = row[job[f]]
        BY <2>1, <2>2, <2>5, <2>9, <3>2, <4>1
      <4> QED BY <1>0, <2>9, <4>1, <4>2 DEF Reported
    <3> QED BY <3>1, <3>2
  <2> QED BY <1>0, <2>3, <2>6, <2>7, <2>8, <2>9 DEF Reported
<1>13. AcceptedIsKept'
  BY <1>0, <1>q, <1>d DEF AcceptedIsKept, UpdateRun, Goto, delivery, goroutines, history
<1>14. OneAtATime'
  BY <1>0, <1>d DEF OneAtATime, UpdateRun, Goto, delivery, goroutines, history
<1> QED BY <1>1, <1>2, <1>3, <1>4, <1>5, <1>6, <1>7, <1>8, <1>9, <1>10, <1>11, <1>12, <1>13,
         <1>14 DEF IInv


\* Reload preserves IInv.
LEMMA ReloadInv ==
  ASSUME IInv, NEW e \in Executors, Reload(e)
  PROVE  IInv'
<1>0. TypeOK /\ Idle /\ Fresh /\ RowExists /\ WaitingOnce /\ InMemory /\ OneHolderInMemory
      /\ Owners /\ Stopped /\ Counted /\ Unsettled /\ Reported /\ AcceptedIsKept /\ OneAtATime
  BY DEF IInv
<1>h. /\ \A x \in Running : x \in Executors /\ job[x] \in Jobs /\ job[x] # None
      /\ \A x \in Executors : job[x] # None => job[x] \in Jobs /\ job[x] \in Held
      /\ \A x \in Executors : phase[x] \notin {"idle", "gone"} => job[x] \in Jobs /\ job[x] # None
  BY <1>0, RunningHolds
<1>q. Queued' = Queued
  BY DEF Reload, Goto, delivery, goroutines, history, Queued
<1>d. Held' = Held
  BY DEF Reload, Goto, delivery, goroutines, history, Held
<1>1. TypeOK'
  <2>1. phase' \in [Executors -> Phases]
    BY <1>0, <1>h, <1>q, <1>d, QueueAssumption DEF TypeOK, Phases, Executors, Final, Reload, Goto
  <2>2. status' \in [Executors -> {"pending", None} \cup Final]
    <3>1. job[e] \in Jobs /\ row[job[e]] # "none"
      <4>1. job[e] \in Jobs /\ job[e] \in Held
        BY <1>h DEF Reload
      <4> QED BY <1>0, <4>1 DEF Fresh, RowExists
    <3>2. row[job[e]] \in {"pending", None} \cup Final
      BY <1>0, <3>1 DEF TypeOK
    <3>3. status' = status \/ status' = [status EXCEPT ![e] = row[job[e]]]
      BY DEF Reload
    <3> QED BY <1>0, <3>2, <3>3 DEF TypeOK
  <2> QED BY <1>0, <2>1, <2>2 DEF TypeOK, Reload, Goto, delivery, goroutines, history
<1>2. Idle'
  BY <1>0, <1>h, <1>q, <1>d, QueueAssumption DEF Idle, TypeOK, Executors, Serving, Reload,
           Goto, delivery, goroutines, history
<1>3. Fresh'
  BY <1>0, <1>q, <1>d DEF Fresh, Reload, Goto, delivery, goroutines, history
<1>4. RowExists'
  BY <1>0 DEF RowExists, Reload, Goto, delivery, goroutines, history
<1>5. WaitingOnce'
  BY <1>0, <1>q, <1>d DEF WaitingOnce, Reload, Goto, delivery, goroutines, history
<1>6. InMemory'
  BY <1>0, <1>h, <1>q, <1>d, QueueAssumption DEF InMemory, TypeOK, Idle, Executors, Serving,
           Reload, Goto, delivery, goroutines, history
<1>7. OneHolderInMemory'
  BY <1>0, <1>d DEF OneHolderInMemory, Reload, Goto, delivery, goroutines, history
<1>8. Owners'
  BY <1>0, <1>d DEF Owners, Reload, Goto, delivery, goroutines, history
<1>9. Stopped'
  BY <1>0, <1>h, <1>q, <1>d, QueueAssumption DEF Stopped, TypeOK, Idle, Executors, Serving,
           Reload, Goto, delivery, goroutines, history
<1>10. Counted'
  BY <1>0, <1>h, <1>q, <1>d, QueueAssumption DEF Counted, TypeOK, Running, Idle, Executors,
           Serving, Reload, Goto, delivery, goroutines, history
<1>11. Unsettled'
  BY <1>0, <1>h, <1>q, <1>d, QueueAssumption DEF Unsettled, TypeOK, Final, Running, Counted,
           Idle, Executors, Serving, Reload, Goto, delivery, goroutines, history
<1>12. Reported'
  BY <1>0, <1>h, <1>q, <1>d, QueueAssumption DEF Reported, TypeOK, Final, Running, Counted,
           Idle, Executors, Serving, Reload, Goto, delivery, goroutines, history
<1>13. AcceptedIsKept'
  BY <1>0, <1>q, <1>d DEF AcceptedIsKept, Reload, Goto, delivery, goroutines, history
<1>14. OneAtATime'
  BY <1>0, <1>d DEF OneAtATime, Reload, Goto, delivery, goroutines, history
<1> QED BY <1>1, <1>2, <1>3, <1>4, <1>5, <1>6, <1>7, <1>8, <1>9, <1>10, <1>11, <1>12, <1>13,
         <1>14 DEF IInv


\* Callback preserves IInv.
LEMMA CallbackInv ==
  ASSUME IInv, NEW e \in Executors, Callback(e)
  PROVE  IInv'
<1>0. TypeOK /\ Idle /\ Fresh /\ RowExists /\ WaitingOnce /\ InMemory /\ OneHolderInMemory
      /\ Owners /\ Stopped /\ Counted /\ Unsettled /\ Reported /\ AcceptedIsKept /\ OneAtATime
  BY DEF IInv
<1>h. /\ \A x \in Running : x \in Executors /\ job[x] \in Jobs /\ job[x] # None
      /\ \A x \in Executors : job[x] # None => job[x] \in Jobs /\ job[x] \in Held
      /\ \A x \in Executors : phase[x] \notin {"idle", "gone"} => job[x] \in Jobs /\ job[x] # None
  BY <1>0, RunningHolds
<1>q. Queued' = Queued
  BY DEF Callback, Goto, Release, delivery, goroutines, history, Queued
<1>d. Held' \subseteq Held /\ Held \subseteq Held' \cup (IF backend = "mem" THEN {job[e]} ELSE {})
  <2>1. CASE backend = "mem"
    <3>1. Release(e, "idle")
      BY <2>1 DEF Callback
    <3> QED BY <1>0, <2>1, <3>1, ReleaseHeld
  <2>2. CASE backend # "mem"
    BY <2>2 DEF Callback, Held
  <2> QED BY <2>1, <2>2
<1>1. TypeOK'
  <2>1. phase' \in [Executors -> Phases]
    BY <1>0, <1>h, <1>q, <1>d, QueueAssumption DEF TypeOK, Phases, Executors, Callback, Goto,
             Release
  <2>2. job' \in [Executors -> Jobs \cup {None}]
    BY <1>0, <1>h, <1>q, <1>d, QueueAssumption DEF TypeOK, Executors, Callback, Goto, Release
  <2>3. status' \in [Executors -> {"pending", None} \cup Final]
    BY <1>0, <1>h, <1>q, <1>d, QueueAssumption DEF TypeOK, Final, Executors, Callback, Goto, Release
  <2>4. expired' \in [Executors -> BOOLEAN]
    BY <1>0, <1>h, <1>q, <1>d, QueueAssumption DEF TypeOK, Executors, Callback, Goto, Release
  <2>5. told' \in [Jobs -> {"pending", None} \cup Final]
    BY <1>0, <1>h, <1>q, <1>d, QueueAssumption DEF TypeOK, Final, Callback, Goto, Release
  <2>6. done' \subseteq Jobs
    BY <1>0, <1>h, <1>q, <1>d, QueueAssumption DEF TypeOK, Callback, Goto, Release
  <2> QED BY <1>0, <2>1, <2>2, <2>3, <2>4, <2>5, <2>6 DEF TypeOK, Callback, Goto, Release,
           delivery, goroutines, history
<1>2. Idle'
  BY <1>0, <1>h, <1>q, <1>d, QueueAssumption DEF Idle, TypeOK, Executors, Serving, Callback,
           Goto, Release, delivery, goroutines, history
<1>3. Fresh'
  BY <1>0, <1>h, <1>q, <1>d, QueueAssumption DEF Fresh, TypeOK, Idle, Executors, Serving,
           Callback, Goto, Release, delivery, goroutines, history
<1>4. RowExists'
  BY <1>0 DEF RowExists, Callback, Goto, Release, delivery, goroutines, history
<1>5. WaitingOnce'
  BY <1>0, <1>h, <1>q, <1>d, QueueAssumption DEF WaitingOnce, TypeOK, Idle, Executors, Serving,
           Callback, Goto, Release, delivery, goroutines, history
<1>6. InMemory'
  BY <1>0, <1>h, <1>q, <1>d, QueueAssumption DEF InMemory, TypeOK, Idle, Executors, Serving,
           Callback, Goto, Release, delivery, goroutines, history
<1>7. OneHolderInMemory'
  <2>1. /\ job[e] \in Jobs /\ job[e] # None /\ phase[e] = "callback" /\ e \in Running
        /\ phase \in [Executors -> Phases] /\ job \in [Executors -> Jobs \cup {None}]
    BY <1>0, <1>h DEF Callback, TypeOK, Running
  <2>2. \/ phase' = [phase EXCEPT ![e] = "idle"] /\ job' = [job EXCEPT ![e] = None]
           /\ status' = [status EXCEPT ![e] = None]
        \/ phase' = [phase EXCEPT ![e] = "ack"] /\ job' = job /\ status' = status
    BY DEF Callback, Release, Goto
  <2>3. \A f \in Executors : job'[f] = job[f] \/ job'[f] = None
    BY <2>1, <2>2
  <2>4. backend' = backend
    BY DEF Callback
  <2> QED BY <1>0, <2>3, <2>4 DEF OneHolderInMemory
<1>8. Owners'
  <2>1. /\ job[e] \in Jobs /\ job[e] # None /\ phase[e] = "callback" /\ e \in Running
        /\ phase \in [Executors -> Phases] /\ job \in [Executors -> Jobs \cup {None}]
    BY <1>0, <1>h DEF Callback, TypeOK, Running
  <2>2. \/ phase' = [phase EXCEPT ![e] = "idle"] /\ job' = [job EXCEPT ![e] = None]
           /\ status' = [status EXCEPT ![e] = None]
        \/ phase' = [phase EXCEPT ![e] = "ack"] /\ job' = job /\ status' = status
    BY DEF Callback, Release, Goto
  <2>3. batch' = batch /\ stale' = stale /\ batch \subseteq Jobs /\ stale \subseteq Jobs
    BY <1>0 DEF Callback, delivery, TypeOK
  <2>4. \A w \in Workers : job'[w] = job[w] \/ job'[w] = None
    BY <2>1, <2>2 DEF Executors
  <2> QED BY <1>0, <2>3, <2>4, QueueAssumption DEF Owners
<1>9. Stopped'
  BY <1>0, <1>h, <1>q, <1>d, QueueAssumption DEF Stopped, TypeOK, Idle, Executors, Serving,
           Callback, Goto, Release, delivery, goroutines, history
<1>10. Counted'
  <2>1. /\ job[e] \in Jobs /\ job[e] # None /\ phase[e] = "callback" /\ e \in Running
        /\ phase \in [Executors -> Phases] /\ job \in [Executors -> Jobs \cup {None}]
    BY <1>0, <1>h DEF Callback, TypeOK, Running
  <2>2. \/ phase' = [phase EXCEPT ![e] = "idle"] /\ job' = [job EXCEPT ![e] = None]
           /\ status' = [status EXCEPT ![e] = None]
        \/ phase' = [phase EXCEPT ![e] = "ack"] /\ job' = job /\ status' = status
    BY DEF Callback, Release, Goto
  <2>3. \A f \in Executors : f \in Running' => f \in Running /\ job'[f] = job[f]
    BY <2>1, <2>2 DEF Running
  <2>4. Running' \subseteq Executors /\ execs' = execs
    BY DEF Running, Callback
  <2> QED BY <1>0, <2>3, <2>4 DEF Counted
<1>11. Unsettled'
  BY <1>0, <1>h, <1>q, <1>d, QueueAssumption DEF Unsettled, TypeOK, Final, Running, Counted,
           Idle, Executors, Serving, Callback, Goto, Release, delivery, goroutines, history
<1>12. Reported'
  <2>1. /\ job[e] \in Jobs /\ job[e] # None /\ phase[e] = "callback" /\ e \in Running
        /\ phase \in [Executors -> Phases] /\ job \in [Executors -> Jobs \cup {None}]
    BY <1>0, <1>h DEF Callback, TypeOK, Running
  <2>2. \/ phase' = [phase EXCEPT ![e] = "idle"] /\ job' = [job EXCEPT ![e] = None]
           /\ status' = [status EXCEPT ![e] = None]
        \/ phase' = [phase EXCEPT ![e] = "ack"] /\ job' = job /\ status' = status
    BY DEF Callback, Release, Goto
  <2>3. /\ told' = told \/ told' = [told EXCEPT ![job[e]] = status[e]]
        /\ told \in [Jobs -> {"pending", None} \cup Final] /\ status \in [Executors -> {"pending", None} \cup Final]
        /\ execs' = execs /\ unsaved' = unsaved /\ row' = row
    BY <1>0 DEF Callback, TypeOK
  <2>4. execs \in [Jobs -> Nat] /\ execs[job[e]] >= 1
    BY <1>0, <2>1 DEF Counted, TypeOK
  <2>5. \A x \in Jobs : execs[x] = 0 => told'[x] = None
    <3>1. \A x \in Jobs : execs[x] = 0 => x # job[e] /\ told[x] = None
      BY <1>0, <2>1, <2>4 DEF Reported
    <3> QED BY <2>3, <3>1
  <2>6. ASSUME NEW x \in Jobs, execs[x] = 1, told'[x] # None, x \notin unsaved
        PROVE  row[x] = told'[x] /\ row[x] \in Final
    <3>1. CASE told'[x] = told[x]
      BY <1>0, <2>6, <3>1 DEF Reported
    <3>2. CASE told'[x] # told[x]
      <4>1. x = job[e] /\ told'[x] = status[e]
        BY <2>1, <2>3, <2>6, <3>2
      <4> QED BY <1>0, <2>1, <2>6, <4>1 DEF Reported
    <3> QED BY <3>1, <3>2
  <2>7. \A f \in Executors : phase'[f] \in {"exec", "update", "reload", "callback"} =>
          f # e /\ phase'[f] = phase[f] /\ job'[f] = job[f] /\ status'[f] = status[f]
    BY <2>1, <2>2, <2>3, <1>0 DEF TypeOK
  <2>8. ASSUME NEW f \in Executors, phase'[f] \in {"exec", "update"}, execs[job'[f]] = 1
        PROVE  told'[job'[f]] = None
    <3>1. f \in Running /\ f # e /\ job'[f] = job[f] /\ phase'[f] = phase[f]
      BY <2>7, <2>8 DEF Running
    <3>2. job[f] # job[e] /\ job[f] \in Jobs
      BY <1>0, <1>h, <2>1, <2>4, <2>8, <3>1 DEF Counted
    <3>3. told[job[f]] = None
      BY <1>0, <2>8, <3>1 DEF Reported
    <3> QED BY <2>1, <2>3, <3>1, <3>2, <3>3
  <2> QED BY <1>0, <2>3, <2>5, <2>6, <2>7, <2>8 DEF Reported
<1>13. AcceptedIsKept'
  BY <1>0, <1>h, <1>q, <1>d, QueueAssumption DEF AcceptedIsKept, TypeOK, Idle, Executors,
           Serving, Callback, Goto, Release, delivery, goroutines, history
<1>14. OneAtATime'
  BY <1>0, <1>h, <1>q, <1>d, QueueAssumption DEF OneAtATime, TypeOK, Idle, Executors, Serving,
           Callback, Goto, Release, delivery, goroutines, history
<1> QED BY <1>1, <1>2, <1>3, <1>4, <1>5, <1>6, <1>7, <1>8, <1>9, <1>10, <1>11, <1>12, <1>13,
         <1>14 DEF IInv


\* Ack preserves IInv.
LEMMA AckInv ==
  ASSUME IInv, NEW e \in Executors, Ack(e)
  PROVE  IInv'
<1>0. TypeOK /\ Idle /\ Fresh /\ RowExists /\ WaitingOnce /\ InMemory /\ OneHolderInMemory
      /\ Owners /\ Stopped /\ Counted /\ Unsettled /\ Reported /\ AcceptedIsKept /\ OneAtATime
  BY DEF IInv
<1>h. /\ \A x \in Running : x \in Executors /\ job[x] \in Jobs /\ job[x] # None
      /\ \A x \in Executors : job[x] # None => job[x] \in Jobs /\ job[x] \in Held
      /\ \A x \in Executors : phase[x] \notin {"idle", "gone"} => job[x] \in Jobs /\ job[x] # None
  BY <1>0, RunningHolds
<1>q. Queued' = Queued
  BY DEF Ack, Release, delivery, goroutines, history, Queued
<1>d. Held' \subseteq Held /\ Held \subseteq Held' \cup {job[e]}
  <2>1. Release(e, "idle")
    BY DEF Ack
  <2> QED BY <1>0, <2>1, ReleaseHeld
<1>1. TypeOK'
  <2>1. pel' \subseteq Jobs /\ stale' \subseteq pel'
    BY <1>0, <1>h, <1>q, <1>d, QueueAssumption DEF TypeOK, Ack, Release
  <2>2. phase' \in [Executors -> Phases]
    BY <1>0, <1>h, <1>q, <1>d, QueueAssumption DEF TypeOK, Phases, Executors, Ack, Release
  <2>3. job' \in [Executors -> Jobs \cup {None}]
    BY <1>0, <1>h, <1>q, <1>d, QueueAssumption DEF TypeOK, Executors, Ack, Release
  <2>4. status' \in [Executors -> {"pending", None} \cup Final]
    BY <1>0, <1>h, <1>q, <1>d, QueueAssumption DEF TypeOK, Final, Executors, Ack, Release
  <2>5. expired' \in [Executors -> BOOLEAN]
    BY <1>0, <1>h, <1>q, <1>d, QueueAssumption DEF TypeOK, Executors, Ack, Release
  <2>6. done' \subseteq Jobs
    BY <1>0, <1>h, <1>q, <1>d, QueueAssumption DEF TypeOK, Ack, Release
  <2>7. dropped' \subseteq Jobs
    BY <1>0, <1>h, <1>q, <1>d, QueueAssumption DEF TypeOK, Ack, Release
  <2> QED BY <1>0, <2>1, <2>2, <2>3, <2>4, <2>5, <2>6, <2>7 DEF TypeOK, Ack, Release, delivery,
           goroutines, history
<1>2. Idle'
  BY <1>0, <1>h, <1>q, <1>d, QueueAssumption DEF Idle, TypeOK, Executors, Serving, Ack,
           Release, delivery, goroutines, history
<1>3. Fresh'
  BY <1>0, <1>h, <1>q, <1>d, QueueAssumption DEF Fresh, TypeOK, Idle, Executors, Serving, Ack,
           Release, delivery, goroutines, history
<1>4. RowExists'
  BY <1>0 DEF RowExists, Ack, Release, delivery, goroutines, history
<1>5. WaitingOnce'
  BY <1>0, <1>h, <1>q, <1>d, QueueAssumption DEF WaitingOnce, TypeOK, Idle, Executors, Serving,
           Ack, Release, delivery, goroutines, history
<1>6. InMemory'
  BY <1>0, <1>h, <1>q, <1>d, QueueAssumption DEF InMemory, TypeOK, Idle, Executors, Serving,
           Ack, Release, delivery, goroutines, history
<1>7. OneHolderInMemory'
  BY <1>0, <1>h, <1>q, <1>d, QueueAssumption DEF OneHolderInMemory, TypeOK, Idle, Executors,
           Serving, Ack, Release, delivery, goroutines, history
<1>8. Owners'
  BY <1>0, <1>h, <1>q, <1>d, QueueAssumption DEF Owners, TypeOK, Idle, Executors, Serving, Ack,
           Release, delivery, goroutines, history
<1>9. Stopped'
  BY <1>0, <1>h, <1>q, <1>d, QueueAssumption DEF Stopped, TypeOK, Idle, Executors, Serving,
           Ack, Release, delivery, goroutines, history
<1>10. Counted'
  BY <1>0, <1>h, <1>q, <1>d, QueueAssumption DEF Counted, TypeOK, Running, Idle, Executors,
           Serving, Ack, Release, delivery, goroutines, history
<1>11. Unsettled'
  BY <1>0, <1>h, <1>q, <1>d, QueueAssumption DEF Unsettled, TypeOK, Final, Running, Counted,
           Idle, Executors, Serving, Ack, Release, delivery, goroutines, history
<1>12. Reported'
  BY <1>0, <1>h, <1>q, <1>d, QueueAssumption DEF Reported, TypeOK, Final, Running, Counted,
           Idle, Executors, Serving, Ack, Release, delivery, goroutines, history
<1>13. AcceptedIsKept'
  BY <1>0, <1>h, <1>q, <1>d, QueueAssumption DEF AcceptedIsKept, TypeOK, Idle, Executors,
           Serving, Ack, Release, delivery, goroutines, history
<1>14. OneAtATime'
  BY <1>0, <1>h, <1>q, <1>d, QueueAssumption DEF OneAtATime, TypeOK, Idle, Executors, Serving,
           Ack, Release, delivery, goroutines, history
<1> QED BY <1>1, <1>2, <1>3, <1>4, <1>5, <1>6, <1>7, <1>8, <1>9, <1>10, <1>11, <1>12, <1>13,
         <1>14 DEF IInv


\* Shutdown preserves IInv.
LEMMA ShutdownInv ==
  ASSUME IInv, Shutdown
  PROVE  IInv'
<1>0. TypeOK /\ Idle /\ Fresh /\ RowExists /\ WaitingOnce /\ InMemory /\ OneHolderInMemory
      /\ Owners /\ Stopped /\ Counted /\ Unsettled /\ Reported /\ AcceptedIsKept /\ OneAtATime
  BY DEF IInv
<1>h. /\ \A x \in Running : x \in Executors /\ job[x] \in Jobs /\ job[x] # None
      /\ \A x \in Executors : job[x] # None => job[x] \in Jobs /\ job[x] \in Held
      /\ \A x \in Executors : phase[x] \notin {"idle", "gone"} => job[x] \in Jobs /\ job[x] # None
  BY <1>0, RunningHolds
<1>q. Queued' = Queued
  BY DEF Shutdown, delivery, goroutines, history, Queued
<1>d. Held' = Held
  BY DEF Shutdown, delivery, goroutines, history, Held
<1>1. TypeOK'
  <2>1. server' \in {"up", "draining", "drained", "expired", "down"}
    BY <1>0, <1>h, <1>q, <1>d, QueueAssumption DEF TypeOK, Shutdown
  <2>2. stops' \in 0..MaxStops
    BY <1>0, <1>h, <1>q, <1>d, QueueAssumption DEF TypeOK, Shutdown
  <2> QED BY <1>0, <2>1, <2>2 DEF TypeOK, Shutdown, delivery, goroutines, history
<1>2. Idle'
  BY <1>0, <1>d DEF Idle, Shutdown, delivery, goroutines, history
<1>3. Fresh'
  BY <1>0, <1>q, <1>d DEF Fresh, Shutdown, delivery, goroutines, history
<1>4. RowExists'
  BY <1>0 DEF RowExists, Shutdown, delivery, goroutines, history
<1>5. WaitingOnce'
  BY <1>0, <1>q, <1>d DEF WaitingOnce, Shutdown, delivery, goroutines, history
<1>6. InMemory'
  BY <1>0 DEF InMemory, Shutdown, delivery, goroutines, history
<1>7. OneHolderInMemory'
  BY <1>0, <1>d DEF OneHolderInMemory, Shutdown, delivery, goroutines, history
<1>8. Owners'
  BY <1>0, <1>d DEF Owners, Shutdown, delivery, goroutines, history
<1>9. Stopped'
  BY <1>0, <1>h, <1>q, <1>d, QueueAssumption DEF Stopped, TypeOK, Idle, Executors, Serving,
           Shutdown, delivery, goroutines, history
<1>10. Counted'
  BY <1>0, <1>d DEF Counted, Running, Shutdown, delivery, goroutines, history
<1>11. Unsettled'
  BY <1>0, <1>q, <1>d DEF Unsettled, Shutdown, delivery, goroutines, history
<1>12. Reported'
  BY <1>0, <1>d DEF Reported, Final, Shutdown, delivery, goroutines, history
<1>13. AcceptedIsKept'
  BY <1>0, <1>q, <1>d DEF AcceptedIsKept, Shutdown, delivery, goroutines, history
<1>14. OneAtATime'
  BY <1>0, <1>d DEF OneAtATime, Shutdown, delivery, goroutines, history
<1> QED BY <1>1, <1>2, <1>3, <1>4, <1>5, <1>6, <1>7, <1>8, <1>9, <1>10, <1>11, <1>12, <1>13,
         <1>14 DEF IInv


\* DrainReturns preserves IInv.
LEMMA DrainReturnsInv ==
  ASSUME IInv, DrainReturns
  PROVE  IInv'
<1>0. TypeOK /\ Idle /\ Fresh /\ RowExists /\ WaitingOnce /\ InMemory /\ OneHolderInMemory
      /\ Owners /\ Stopped /\ Counted /\ Unsettled /\ Reported /\ AcceptedIsKept /\ OneAtATime
  BY DEF IInv
<1>h. /\ \A x \in Running : x \in Executors /\ job[x] \in Jobs /\ job[x] # None
      /\ \A x \in Executors : job[x] # None => job[x] \in Jobs /\ job[x] \in Held
      /\ \A x \in Executors : phase[x] \notin {"idle", "gone"} => job[x] \in Jobs /\ job[x] # None
  BY <1>0, RunningHolds
<1>q. Queued' = Queued
  BY DEF DrainReturns, delivery, goroutines, history, Queued
<1>d. Held' = Held
  BY DEF DrainReturns, delivery, goroutines, history, Held
<1>1. TypeOK'
  <2>1. server' \in {"up", "draining", "drained", "expired", "down"}
    BY <1>0, <1>h, <1>q, <1>d, QueueAssumption DEF TypeOK, DrainReturns
  <2> QED BY <1>0, <2>1 DEF TypeOK, DrainReturns, delivery, goroutines, history
<1>2. Idle'
  BY <1>0, <1>d DEF Idle, DrainReturns, delivery, goroutines, history
<1>3. Fresh'
  BY <1>0, <1>q, <1>d DEF Fresh, DrainReturns, delivery, goroutines, history
<1>4. RowExists'
  BY <1>0 DEF RowExists, DrainReturns, delivery, goroutines, history
<1>5. WaitingOnce'
  BY <1>0, <1>q, <1>d DEF WaitingOnce, DrainReturns, delivery, goroutines, history
<1>6. InMemory'
  BY <1>0 DEF InMemory, DrainReturns, delivery, goroutines, history
<1>7. OneHolderInMemory'
  BY <1>0, <1>d DEF OneHolderInMemory, DrainReturns, delivery, goroutines, history
<1>8. Owners'
  BY <1>0, <1>d DEF Owners, DrainReturns, delivery, goroutines, history
<1>9. Stopped'
  BY <1>0, <1>h, <1>q, <1>d, QueueAssumption DEF Stopped, TypeOK, Idle, Executors, Serving,
           DrainReturns, delivery, goroutines, history
<1>10. Counted'
  BY <1>0, <1>d DEF Counted, Running, DrainReturns, delivery, goroutines, history
<1>11. Unsettled'
  BY <1>0, <1>q, <1>d DEF Unsettled, DrainReturns, delivery, goroutines, history
<1>12. Reported'
  BY <1>0, <1>d DEF Reported, Final, DrainReturns, delivery, goroutines, history
<1>13. AcceptedIsKept'
  BY <1>0, <1>q, <1>d DEF AcceptedIsKept, DrainReturns, delivery, goroutines, history
<1>14. OneAtATime'
  BY <1>0, <1>d DEF OneAtATime, DrainReturns, delivery, goroutines, history
<1> QED BY <1>1, <1>2, <1>3, <1>4, <1>5, <1>6, <1>7, <1>8, <1>9, <1>10, <1>11, <1>12, <1>13,
         <1>14 DEF IInv


\* Exit preserves IInv.
LEMMA ExitInv ==
  ASSUME IInv, Exit
  PROVE  IInv'
<1>0. TypeOK /\ Idle /\ Fresh /\ RowExists /\ WaitingOnce /\ InMemory /\ OneHolderInMemory
      /\ Owners /\ Stopped /\ Counted /\ Unsettled /\ Reported /\ AcceptedIsKept /\ OneAtATime
  BY DEF IInv
<1>h. /\ \A x \in Running : x \in Executors /\ job[x] \in Jobs /\ job[x] # None
      /\ \A x \in Executors : job[x] # None => job[x] \in Jobs /\ job[x] \in Held
      /\ \A x \in Executors : phase[x] \notin {"idle", "gone"} => job[x] \in Jobs /\ job[x] # None
  BY <1>0, RunningHolds
<1>q. IF backend = "mem" THEN Queued' = {} ELSE Queued' = Queued
  BY DEF Exit, End, Queued
<1>d. Held' = {}
  BY DEF Exit, End, Held
<1>1. TypeOK'
  <2>1. server' \in {"up", "draining", "drained", "expired", "down"}
    BY <1>0, <1>h, <1>q, <1>d, QueueAssumption DEF TypeOK, Exit, End
  <2>2. reply' \in [Jobs -> {"none", "preparing", "accepted", "refused", "unanswered"}]
    BY <1>0, <1>h, <1>q, <1>d, QueueAssumption DEF TypeOK, Exit, End
  <2>3. waiting' \in Seq(Jobs)
    BY <1>0, <1>h, <1>q, <1>d, QueueAssumption DEF TypeOK, Exit, End
  <2>4. batch' \subseteq Jobs
    BY <1>0, <1>h, <1>q, <1>d, QueueAssumption DEF TypeOK, Exit, End
  <2>5. phase' \in [Executors -> Phases]
    BY <1>0, <1>h, <1>q, <1>d, QueueAssumption DEF TypeOK, Phases, Executors, Exit, End
  <2>6. job' \in [Executors -> Jobs \cup {None}]
    BY <1>0, <1>h, <1>q, <1>d, QueueAssumption DEF TypeOK, Executors, Exit, End
  <2>7. status' \in [Executors -> {"pending", None} \cup Final]
    BY <1>0, <1>h, <1>q, <1>d, QueueAssumption DEF TypeOK, Final, Executors, Exit, End
  <2>8. expired' \in [Executors -> BOOLEAN]
    BY <1>0, <1>h, <1>q, <1>d, QueueAssumption DEF TypeOK, Executors, Exit, End
  <2>9. lost' \subseteq Jobs
    BY <1>0, <1>h, <1>q, <1>d, QueueAssumption DEF TypeOK, Queued, Held, Exit, End
  <2> QED BY <1>0, <2>1, <2>2, <2>3, <2>4, <2>5, <2>6, <2>7, <2>8, <2>9 DEF TypeOK, Exit, End,
           delivery, goroutines, history
<1>2. Idle'
  BY <1>0, <1>h, <1>q, <1>d, QueueAssumption DEF Idle, TypeOK, Executors, Serving, Exit, End,
           delivery, goroutines, history
<1>3. Fresh'
  BY <1>0, <1>h, <1>q, <1>d, QueueAssumption DEF Fresh, TypeOK, Idle, Executors, Serving, Exit,
           End, delivery, goroutines, history
<1>4. RowExists'
  BY <1>0, <1>h, <1>q, <1>d, QueueAssumption DEF RowExists, TypeOK, Idle, Executors, Serving,
           Exit, End, delivery, goroutines, history
<1>5. WaitingOnce'
  BY <1>0, <1>h, <1>q, <1>d, QueueAssumption DEF WaitingOnce, TypeOK, Idle, Executors, Serving,
           Exit, End, delivery, goroutines, history
<1>6. InMemory'
  BY <1>0, <1>h, <1>q, <1>d, QueueAssumption DEF InMemory, TypeOK, Idle, Executors, Serving,
           Exit, End, delivery, goroutines, history
<1>7. OneHolderInMemory'
  BY <1>0, <1>h, <1>q, <1>d, QueueAssumption DEF OneHolderInMemory, TypeOK, Idle, Executors,
           Serving, Exit, End, delivery, goroutines, history
<1>8. Owners'
  BY <1>0, <1>h, <1>q, <1>d, QueueAssumption DEF Owners, TypeOK, Idle, Executors, Serving,
           Exit, End, delivery, goroutines, history
<1>9. Stopped'
  BY <1>0, <1>h, <1>q, <1>d, QueueAssumption DEF Stopped, TypeOK, Idle, Executors, Serving,
           Exit, End, delivery, goroutines, history
<1>10. Counted'
  BY <1>0, <1>h, <1>q, <1>d, QueueAssumption DEF Counted, TypeOK, Running, Idle, Executors,
           Serving, Exit, End, delivery, goroutines, history
<1>11. Unsettled'
  BY <1>0, <1>h, <1>q, <1>d, QueueAssumption DEF Unsettled, TypeOK, Final, Running, Counted,
           Idle, Executors, Serving, Exit, End, delivery, goroutines, history
<1>12. Reported'
  BY <1>0, <1>h, <1>q, <1>d, QueueAssumption DEF Reported, TypeOK, Final, Running, Counted,
           Idle, Executors, Serving, Exit, End, delivery, goroutines, history
<1>13. AcceptedIsKept'
  BY <1>0, <1>h, <1>q, <1>d, QueueAssumption DEF AcceptedIsKept, TypeOK, Idle, Executors,
           Serving, Exit, End, delivery, goroutines, history
<1>14. OneAtATime'
  BY <1>0, <1>h, <1>q, <1>d, QueueAssumption DEF OneAtATime, TypeOK, Idle, Executors, Serving,
           Exit, End, delivery, goroutines, history
<1> QED BY <1>1, <1>2, <1>3, <1>4, <1>5, <1>6, <1>7, <1>8, <1>9, <1>10, <1>11, <1>12, <1>13,
         <1>14 DEF IInv


\* Crash preserves IInv.
LEMMA CrashInv ==
  ASSUME IInv, Crash
  PROVE  IInv'
<1>0. TypeOK /\ Idle /\ Fresh /\ RowExists /\ WaitingOnce /\ InMemory /\ OneHolderInMemory
      /\ Owners /\ Stopped /\ Counted /\ Unsettled /\ Reported /\ AcceptedIsKept /\ OneAtATime
  BY DEF IInv
<1>h. /\ \A x \in Running : x \in Executors /\ job[x] \in Jobs /\ job[x] # None
      /\ \A x \in Executors : job[x] # None => job[x] \in Jobs /\ job[x] \in Held
      /\ \A x \in Executors : phase[x] \notin {"idle", "gone"} => job[x] \in Jobs /\ job[x] # None
  BY <1>0, RunningHolds
<1>q. IF backend = "mem" THEN Queued' = {} ELSE Queued' = Queued
  BY DEF Crash, End, Queued
<1>d. Held' = {}
  BY DEF Crash, End, Held
<1>1. TypeOK'
  <2>1. server' \in {"up", "draining", "drained", "expired", "down"}
    BY <1>0, <1>h, <1>q, <1>d, QueueAssumption DEF TypeOK, Crash, End
  <2>2. stops' \in 0..MaxStops
    BY <1>0, <1>h, <1>q, <1>d, QueueAssumption DEF TypeOK, Crash, End
  <2>3. reply' \in [Jobs -> {"none", "preparing", "accepted", "refused", "unanswered"}]
    BY <1>0, <1>h, <1>q, <1>d, QueueAssumption DEF TypeOK, Crash, End
  <2>4. waiting' \in Seq(Jobs)
    BY <1>0, <1>h, <1>q, <1>d, QueueAssumption DEF TypeOK, Crash, End
  <2>5. batch' \subseteq Jobs
    BY <1>0, <1>h, <1>q, <1>d, QueueAssumption DEF TypeOK, Crash, End
  <2>6. phase' \in [Executors -> Phases]
    BY <1>0, <1>h, <1>q, <1>d, QueueAssumption DEF TypeOK, Phases, Executors, Crash, End
  <2>7. job' \in [Executors -> Jobs \cup {None}]
    BY <1>0, <1>h, <1>q, <1>d, QueueAssumption DEF TypeOK, Executors, Crash, End
  <2>8. status' \in [Executors -> {"pending", None} \cup Final]
    BY <1>0, <1>h, <1>q, <1>d, QueueAssumption DEF TypeOK, Final, Executors, Crash, End
  <2>9. expired' \in [Executors -> BOOLEAN]
    BY <1>0, <1>h, <1>q, <1>d, QueueAssumption DEF TypeOK, Executors, Crash, End
  <2>10. lost' \subseteq Jobs
    BY <1>0, <1>h, <1>q, <1>d, QueueAssumption DEF TypeOK, Queued, Held, Crash, End
  <2> QED BY <1>0, <2>1, <2>2, <2>3, <2>4, <2>5, <2>6, <2>7, <2>8, <2>9, <2>10 DEF TypeOK,
           Crash, End, delivery, goroutines, history
<1>2. Idle'
  BY <1>0, <1>h, <1>q, <1>d, QueueAssumption DEF Idle, TypeOK, Executors, Serving, Crash, End,
           delivery, goroutines, history
<1>3. Fresh'
  BY <1>0, <1>h, <1>q, <1>d, QueueAssumption DEF Fresh, TypeOK, Idle, Executors, Serving,
           Crash, End, delivery, goroutines, history
<1>4. RowExists'
  BY <1>0, <1>h, <1>q, <1>d, QueueAssumption DEF RowExists, TypeOK, Idle, Executors, Serving,
           Crash, End, delivery, goroutines, history
<1>5. WaitingOnce'
  BY <1>0, <1>h, <1>q, <1>d, QueueAssumption DEF WaitingOnce, TypeOK, Idle, Executors, Serving,
           Crash, End, delivery, goroutines, history
<1>6. InMemory'
  BY <1>0, <1>h, <1>q, <1>d, QueueAssumption DEF InMemory, TypeOK, Idle, Executors, Serving,
           Crash, End, delivery, goroutines, history
<1>7. OneHolderInMemory'
  BY <1>0, <1>h, <1>q, <1>d, QueueAssumption DEF OneHolderInMemory, TypeOK, Idle, Executors,
           Serving, Crash, End, delivery, goroutines, history
<1>8. Owners'
  BY <1>0, <1>h, <1>q, <1>d, QueueAssumption DEF Owners, TypeOK, Idle, Executors, Serving,
           Crash, End, delivery, goroutines, history
<1>9. Stopped'
  BY <1>0, <1>h, <1>q, <1>d, QueueAssumption DEF Stopped, TypeOK, Idle, Executors, Serving,
           Crash, End, delivery, goroutines, history
<1>10. Counted'
  BY <1>0, <1>h, <1>q, <1>d, QueueAssumption DEF Counted, TypeOK, Running, Idle, Executors,
           Serving, Crash, End, delivery, goroutines, history
<1>11. Unsettled'
  BY <1>0, <1>h, <1>q, <1>d, QueueAssumption DEF Unsettled, TypeOK, Final, Running, Counted,
           Idle, Executors, Serving, Crash, End, delivery, goroutines, history
<1>12. Reported'
  BY <1>0, <1>h, <1>q, <1>d, QueueAssumption DEF Reported, TypeOK, Final, Running, Counted,
           Idle, Executors, Serving, Crash, End, delivery, goroutines, history
<1>13. AcceptedIsKept'
  BY <1>0, <1>h, <1>q, <1>d, QueueAssumption DEF AcceptedIsKept, TypeOK, Idle, Executors,
           Serving, Crash, End, delivery, goroutines, history
<1>14. OneAtATime'
  BY <1>0, <1>h, <1>q, <1>d, QueueAssumption DEF OneAtATime, TypeOK, Idle, Executors, Serving,
           Crash, End, delivery, goroutines, history
<1> QED BY <1>1, <1>2, <1>3, <1>4, <1>5, <1>6, <1>7, <1>8, <1>9, <1>10, <1>11, <1>12, <1>13,
         <1>14 DEF IInv


\* Start preserves IInv.
LEMMA StartInv ==
  ASSUME IInv, Start
  PROVE  IInv'
<1>0. TypeOK /\ Idle /\ Fresh /\ RowExists /\ WaitingOnce /\ InMemory /\ OneHolderInMemory
      /\ Owners /\ Stopped /\ Counted /\ Unsettled /\ Reported /\ AcceptedIsKept /\ OneAtATime
  BY DEF IInv
<1>h. /\ \A x \in Running : x \in Executors /\ job[x] \in Jobs /\ job[x] # None
      /\ \A x \in Executors : job[x] # None => job[x] \in Jobs /\ job[x] \in Held
      /\ \A x \in Executors : phase[x] \notin {"idle", "gone"} => job[x] \in Jobs /\ job[x] # None
  BY <1>0, RunningHolds
<1>q. Queued' = Queued
  BY DEF Start, FailStalePendingRuns, delivery, goroutines, history, Queued
<1>d. Held' = Held
  BY DEF Start, FailStalePendingRuns, delivery, goroutines, history, Held
<1>1. TypeOK'
  <2>1. server' \in {"up", "draining", "drained", "expired", "down"}
    BY <1>0, <1>h, <1>q, <1>d, QueueAssumption DEF TypeOK, Start, FailStalePendingRuns
  <2>2. row' \in [Jobs -> {"none", "pending"} \cup Final]
    BY <1>0, <1>h, <1>q, <1>d, QueueAssumption DEF TypeOK, Final, Start, FailStalePendingRuns
  <2>3. phase' \in [Executors -> Phases]
    BY <1>0, <1>h, <1>q, <1>d, QueueAssumption DEF TypeOK, Phases, Executors, Start,
             FailStalePendingRuns
  <2> QED BY <1>0, <2>1, <2>2, <2>3 DEF TypeOK, Start, FailStalePendingRuns, delivery,
           goroutines, history
<1>2. Idle'
  <2>1. /\ server = "down" /\ \A e \in Executors : phase[e] = "gone" /\ job[e] = None
        /\ row' = row \/ row' = [j \in Jobs |-> IF row[j] = "pending" THEN "failed" ELSE row[j]]
        /\ row \in [Jobs -> {"none", "pending"} \cup Final]
        /\ phase' = [e \in Executors |-> IF backend = "mem" /\ e = Reaper THEN "gone" ELSE "idle"]
        /\ job' = job /\ reply' = reply /\ waiting' = waiting /\ execs' = execs /\ backend' = backend
    BY <1>0 DEF Start, FailStalePendingRuns, Stopped, Idle, TypeOK, delivery, goroutines, history
  <2> QED BY <2>1 DEF Idle
<1>3. Fresh'
  BY <1>0, <1>q, <1>d DEF Fresh, Start, FailStalePendingRuns, delivery, goroutines, history
<1>4. RowExists'
  <2>1. /\ server = "down" /\ \A e \in Executors : phase[e] = "gone" /\ job[e] = None
        /\ row' = row \/ row' = [j \in Jobs |-> IF row[j] = "pending" THEN "failed" ELSE row[j]]
        /\ row \in [Jobs -> {"none", "pending"} \cup Final]
        /\ phase' = [e \in Executors |-> IF backend = "mem" /\ e = Reaper THEN "gone" ELSE "idle"]
        /\ job' = job /\ reply' = reply /\ waiting' = waiting /\ execs' = execs /\ backend' = backend
    BY <1>0 DEF Start, FailStalePendingRuns, Stopped, Idle, TypeOK, delivery, goroutines, history
  <2>2. \A j \in Jobs : (row'[j] = "none" <=> row[j] = "none") /\ reply[j] # "preparing"
    BY <1>0, <2>1 DEF Stopped
  <2> QED BY <1>0, <2>1, <2>2 DEF RowExists
<1>5. WaitingOnce'
  BY <1>0, <1>q, <1>d DEF WaitingOnce, Start, FailStalePendingRuns, delivery, goroutines, history
<1>6. InMemory'
  BY <1>0, <1>h, <1>q, <1>d, QueueAssumption DEF InMemory, TypeOK, Idle, Executors, Serving,
           Start, FailStalePendingRuns, delivery, goroutines, history
<1>7. OneHolderInMemory'
  BY <1>0, <1>d DEF OneHolderInMemory, Start, FailStalePendingRuns, delivery, goroutines, history
<1>8. Owners'
  BY <1>0, <1>d DEF Owners, Start, FailStalePendingRuns, delivery, goroutines, history
<1>9. Stopped'
  BY <1>0, <1>h, <1>q, <1>d, QueueAssumption DEF Stopped, TypeOK, Idle, Executors, Serving,
           Start, FailStalePendingRuns, delivery, goroutines, history
<1>10. Counted'
  BY <1>0, <1>h, <1>q, <1>d, QueueAssumption DEF Counted, TypeOK, Running, Idle, Executors,
           Serving, Start, FailStalePendingRuns, delivery, goroutines, history
<1>11. Unsettled'
  <2>1. /\ server = "down" /\ \A e \in Executors : phase[e] = "gone" /\ job[e] = None
        /\ row' = row \/ row' = [j \in Jobs |-> IF row[j] = "pending" THEN "failed" ELSE row[j]]
        /\ row \in [Jobs -> {"none", "pending"} \cup Final]
        /\ phase' = [e \in Executors |-> IF backend = "mem" /\ e = Reaper THEN "gone" ELSE "idle"]
        /\ job' = job /\ reply' = reply /\ waiting' = waiting /\ execs' = execs /\ backend' = backend
    BY <1>0 DEF Start, FailStalePendingRuns, Stopped, Idle, TypeOK, delivery, goroutines, history
  <2>2. backend = "mem" => Queued = {}
    <3>1. backend = "mem" => waiting = <<>>
      <4>1. PICK w \in Workers : TRUE
        BY QueueAssumption
      <4> QED BY <1>0, <2>1, <4>1 DEF Stopped, Executors
    <3> QED BY <3>1, NothingQueued
  <2>3. \A j \in Jobs : row[j] \in {"none", "pending", "failed"} => row'[j] \in {"none", "pending", "failed"}
    BY <2>1
  <2>4. \A e \in Executors : phase'[e] \notin {"exec", "update"}
    BY <2>1
  <2> QED BY <1>0, <1>q, <2>1, <2>2, <2>3, <2>4 DEF Unsettled
<1>12. Reported'
  BY <1>0, <1>h, <1>q, <1>d, QueueAssumption DEF Reported, TypeOK, Final, Running, Counted,
           Idle, Executors, Serving, Start, FailStalePendingRuns, delivery, goroutines, history
<1>13. AcceptedIsKept'
  BY <1>0, <1>q, <1>d DEF AcceptedIsKept, Start, FailStalePendingRuns, delivery, goroutines, history
<1>14. OneAtATime'
  BY <1>0, <1>d DEF OneAtATime, Start, FailStalePendingRuns, delivery, goroutines, history
<1> QED BY <1>1, <1>2, <1>3, <1>4, <1>5, <1>6, <1>7, <1>8, <1>9, <1>10, <1>11, <1>12, <1>13,
         <1>14 DEF IInv


-----------------------------------------------------------------------------
(* The theorems *)

LEMMA InitInv == Init => IInv
<1> SUFFICES ASSUME Init PROVE IInv
  OBVIOUS
<1>1. Queued = {} /\ Held = {} /\ Running = {}
  BY DEF Init, Queued, Held, Running
<1>2. TypeOK
  BY QueueAssumption DEF Init, TypeOK, Final, Phases
<1>3. Idle /\ Owners /\ OneAtATime /\ OneHolderInMemory
  BY QueueAssumption DEF Init, Idle, OneHolderInMemory, Owners, OneAtATime
<1>4. Fresh /\ RowExists /\ WaitingOnce /\ Counted /\ AcceptedIsKept
  BY <1>1 DEF Init, Fresh, RowExists, WaitingOnce, Counted, AcceptedIsKept
<1>5. InMemory /\ Stopped
  BY QueueAssumption DEF Init, InMemory, Stopped, Executors
<1>6. Unsettled /\ Reported
  BY <1>1 DEF Init, Unsettled, Reported
<1> QED BY <1>2, <1>3, <1>4, <1>5, <1>6 DEF IInv

LEMMA NextInv == IInv /\ [Next]_vars => IInv'
<1> SUFFICES ASSUME IInv, [Next]_vars PROVE IInv'
  OBVIOUS
<1>1. CASE UNCHANGED vars
  BY <1>1 DEF IInv, vars, delivery, goroutines, history, TypeOK, Idle, Fresh, RowExists,
           WaitingOnce,
           InMemory, OneHolderInMemory, Owners, Stopped, Counted, Unsettled, Reported, AcceptedIsKept, OneAtATime,
           Queued, Held, Running
<1>2. ASSUME NEW j \in Jobs, Prepare(j) \/ SubmitMem(j) \/ SubmitRedis(j) \/ Age(j) \/ ReapNext(j)
      PROVE  IInv'
  BY <1>2, PrepareInv, SubmitMemInv, SubmitRedisInv, AgeInv, ReapNextInv
<1>3. ASSUME NEW w \in Workers, TakeMem(w) \/ TakeRedis(w) \/ ReadWhileStopping(w) \/ WorkerStops(w)
      PROVE  IInv'
  BY <1>3, TakeMemInv, TakeRedisInv, ReadWhileStoppingInv, WorkerStopsInv
<1>4. ASSUME NEW e \in Executors, Work(e) PROVE IInv'
  BY <1>4, FetchInv, ExecEndsInv, UpdateRunInv, ReloadInv, CallbackInv, AckInv DEF Work
<1>5. ASSUME Claim \/ ReaperStops \/ Shutdown \/ DrainReturns \/ Exit \/ Crash \/ Start PROVE IInv'
  BY <1>5, ClaimInv, ReaperStopsInv, ShutdownInv, DrainReturnsInv, ExitInv, CrashInv, StartInv
<1> QED BY <1>1, <1>2, <1>3, <1>4, <1>5 DEF Next

\* IInv holds in every reachable state.
THEOREM Invariant == Spec => []IInv
BY InitInv, NextInv, PTL DEF Spec

\* Every variable keeps its type.
THEOREM TypeCorrect == Spec => []TypeOK
<1>1. IInv => TypeOK
  BY DEF IInv
<1> QED BY <1>1, Invariant, PTL

\* A run answered 202 is not forgotten, across any number of crashes
\* (RedisQueue, "Jobs survive process restarts").
THEOREM NoAcceptedJobForgotten == Spec => []AcceptedIsKept
<1>1. IInv => AcceptedIsKept
  BY DEF IInv
<1> QED BY <1>1, Invariant, PTL

\* Two goroutines work on the same run only if it outlasts reaperMinIdle (reap).
THEOREM NoDoubleWork == Spec => []OneAtATime
<1>1. IInv => OneAtATime
  BY DEF IInv
<1> QED BY <1>1, Invariant, PTL

\* A drain that did not give up leaves no job behind in the process (Drain).
THEOREM DrainIsComplete == Spec => []DrainLeavesNothing
<1>1. IInv => DrainLeavesNothing
  <2> SUFFICES ASSUME IInv, server = "drained" PROVE DrainLeavesNothing
    BY DEF DrainLeavesNothing
  <2>1. Stopped /\ Idle
    BY DEF IInv
  <2>2. \A e \in Executors : phase[e] = "gone" /\ job[e] = None
    BY <2>1 DEF Stopped, Idle
  <2>3. Held = {}
    BY <2>2 DEF Held
  <2>4. batch = {}
    BY <2>1, <2>2 DEF Stopped, Executors
  <2>5. backend = "mem" => waiting = <<>>
    <3>1. PICK w \in Workers : TRUE
      BY QueueAssumption
    <3> QED BY <2>1, <2>2, <3>1 DEF Stopped, Executors
  <2> QED BY <2>3, <2>4, <2>5 DEF DrainLeavesNothing
<1> QED BY <1>1, Invariant, PTL

\* What the callback said of a run executed once is what its row says, unless
\* the result could not be stored (executeImpl).
THEOREM CallbackIsTruthful == Spec => []CallbackMatchesRow
<1>1. IInv => CallbackMatchesRow
  BY DEF IInv, Reported, CallbackMatchesRow
<1> QED BY <1>1, Invariant, PTL

\* A settled row is rewritten only with Redis, by a second execution or after
\* the start failed it (UpdateRun, FailStalePendingRuns).
THEOREM SettledRowsStand == Spec => OutcomeStands
<1>1. ASSUME IInv, [Next]_vars
      PROVE  [\A j \in Jobs : row[j] \in Final /\ row'[j] # row[j] =>
               backend = "redis" /\ (execs[j] >= 2 \/ row[j] = "failed")]_vars
  <2> SUFFICES ASSUME NEW j \in Jobs, row[j] \in Final, row'[j] # row[j], Next
               PROVE  backend = "redis" /\ (execs[j] >= 2 \/ row[j] = "failed")
    BY <1>1 DEF vars
  <2>0. TypeOK /\ RowExists /\ Counted /\ Unsettled /\ Idle
    BY <1>1 DEF IInv
  <2>1. \/ \E k \in Jobs : Prepare(k)
        \/ \E e \in Executors : UpdateRun(e)
        \/ Start
    <3>1. row' # row
      OBVIOUS
    <3> QED BY <3>1 DEF Next, Work, SubmitMem, SubmitRedis, Age, ReapNext, TakeMem, TakeRedis,
              ReadWhileStopping, WorkerStops, Claim, ReaperStops, Fetch, ExecEnds, Reload,
              Callback, Ack, Shutdown, DrainReturns, Exit, Crash, End
  <2>2. ASSUME NEW k \in Jobs, Prepare(k) PROVE FALSE
    <3>1. row[k] = "none" /\ row' = [row EXCEPT ![k] = "pending"]
      BY <2>0, <2>2 DEF Prepare, RowExists
    <3> QED BY <2>0, <3>1 DEF TypeOK, Final
  <2>3. ASSUME Start PROVE FALSE
    BY <2>0, <2>3 DEF Start, FailStalePendingRuns, TypeOK, Final
  <2>4. ASSUME NEW e \in Executors, UpdateRun(e)
        PROVE  backend = "redis" /\ (execs[j] >= 2 \/ row[j] = "failed")
    <3>1. job[e] = j /\ phase[e] = "update"
      BY <2>0, <2>4 DEF UpdateRun, TypeOK
    <3>2. e \in Running
      BY <3>1 DEF Running
    <3>3. execs[j] \in Nat /\ execs[j] >= 1
      BY <2>0, <3>1, <3>2 DEF Counted, TypeOK
    <3>4. backend # "mem" /\ (execs[j] = 1 => row[j] \in {"pending", "failed"})
      BY <2>0, <3>1 DEF Unsettled, Final
    <3> QED BY <2>0, <3>3, <3>4 DEF TypeOK, Final
  <2> QED BY <2>1, <2>2, <2>3, <2>4
<1> QED BY <1>1, Invariant, PTL DEF Spec, OutcomeStands

=============================================================================
