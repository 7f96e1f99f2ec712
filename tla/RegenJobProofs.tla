---------------------------- MODULE RegenJobProofs ----------------------------
(* Theorems of RegenJob, for any number of clips, jobs and failures; those   *)
(* about the clips' videos for one worker, the rest for any number of them.  *)
EXTENDS RegenJob, FiniteSetTheorems, SequenceTheorems, TLAPS

---------------------------------------------------------------------------
(* The queue.                                                              *)

\* The second part of a concatenation.
LEMMA SecondPart ==
  ASSUME NEW S, NEW a \in Seq(S), NEW b \in Seq(S),
         NEW i \in Nat, Len(a) < i, i <= Len(a) + Len(b)
  PROVE  (a \o b)[i] = b[i - Len(a)]
<1>1. i \in 1..(Len(a) + Len(b)) /\ ~(i <= Len(a))
  BY LenProperties
<1>2. (a \o b)[i] = IF i <= Len(a) THEN a[i] ELSE b[i - Len(a)]
  BY <1>1, ConcatProperties
<1> QED
  BY <1>1, <1>2

\* Taking entry k out of a queue keeps the other entries, in their order.
LEMMA TakenOut ==
  ASSUME NEW q \in Seq(Job), NEW k \in DOMAIN q
  PROVE  /\ RemoveAt(q, k) \in Seq(Job) /\ DOMAIN RemoveAt(q, k) = 1..(Len(q) - 1)
         /\ \A i \in DOMAIN RemoveAt(q, k) :
              RemoveAt(q, k)[i] = q[IF i < k THEN i ELSE i + 1]
<1> DEFINE a == SubSeq(q, 1, k - 1)
           b == SubSeq(q, k + 1, Len(q))
<1>1. a \in Seq(Job) /\ Len(a) = k - 1
  OBVIOUS
<1>2. b \in Seq(Job) /\ Len(b) = Len(q) - k
  OBVIOUS
<1>3. \A i \in 1..(k - 1) : a[i] = q[i]
  OBVIOUS
<1>4. \A i \in 1..(Len(q) - k) : b[i] = q[k + i]
  <2>1. ASSUME NEW i \in 1..(Len(q) - k) PROVE b[i] = q[k + i]
    <3>1. b[i] = q[(k + 1) + i - 1]
      BY <1>2
    <3>2. (k + 1) + i - 1 = k + i
      OBVIOUS
    <3> QED
      BY <3>1, <3>2
  <2> QED
    BY <2>1
<1>5. RemoveAt(q, k) = a \o b /\ k \in 1..Len(q) /\ Len(q) \in Nat
  BY DEF RemoveAt
<1> HIDE DEF a, b
<1>6. a \o b \in Seq(Job) /\ DOMAIN (a \o b) = 1..(Len(q) - 1)
  BY <1>1, <1>2, <1>5
<1>7. ASSUME NEW i \in 1..(Len(q) - 1), i < k PROVE (a \o b)[i] = q[i]
  <2>1. i \in 1..(k - 1)
    BY <1>5, <1>7
  <2> QED
    BY <1>1, <1>2, <1>3, <2>1
<1>8. ASSUME NEW i \in 1..(Len(q) - 1), ~(i < k) PROVE (a \o b)[i] = q[i + 1]
  <2>1. i - (k - 1) \in 1..(Len(q) - k) /\ k + (i - (k - 1)) = i + 1
    BY <1>5, <1>8
  <2>2. i \in Nat /\ Len(a) < i /\ i <= Len(a) + Len(b)
    BY <1>1, <1>2, <1>5, <1>8
  <2>3. (a \o b)[i] = b[i - (k - 1)]
    BY <1>1, <1>2, <2>2, SecondPart
  <2> QED
    BY <1>4, <2>1, <2>3
<1> QED
  BY <1>5, <1>6, <1>7, <1>8

\* If no entry occurred twice, none does now, and the one taken out is gone.
LEMMA TakenOutOnce ==
  ASSUME NEW q \in Seq(Job), NEW k \in DOMAIN q, NEW r, r = RemoveAt(q, k),
         \A i, m \in DOMAIN q : q[i] = q[m] => i = m
  PROVE  /\ \A i \in DOMAIN r : r[i] # q[k] /\ \E m \in DOMAIN q : r[i] = q[m]
         /\ \A i, m \in DOMAIN r : r[i] = r[m] => i = m
<1> DEFINE at(i) == IF i < k THEN i ELSE i + 1
<1>1. DOMAIN r = 1..(Len(q) - 1) /\ \A i \in DOMAIN r : r[i] = q[at(i)]
  BY TakenOut
<1>2. DOMAIN q = 1..Len(q) /\ Len(q) \in Nat /\ k \in 1..Len(q)
  OBVIOUS
<1>3. \A i \in DOMAIN r : at(i) \in DOMAIN q /\ at(i) # k
  BY <1>1, <1>2
<1>4. \A i, m \in DOMAIN r : at(i) = at(m) => i = m
  BY <1>1, <1>2
<1> HIDE DEF at
<1>5. ASSUME NEW i \in DOMAIN r PROVE r[i] # q[k] /\ \E m \in DOMAIN q : r[i] = q[m]
  BY <1>1, <1>3
<1>6. ASSUME NEW i \in DOMAIN r, NEW m \in DOMAIN r, r[i] = r[m] PROVE i = m
  BY <1>1, <1>3, <1>4, <1>6
<1> QED
  BY <1>5, <1>6

\* Putting a job at the head of a queue moves the other entries by one.
LEMMA PutFirst ==
  ASSUME NEW q \in Seq(Job), NEW j \in Job
  PROVE  /\ <<j>> \o q \in Seq(Job) /\ DOMAIN (<<j>> \o q) = 1..(Len(q) + 1)
         /\ \A i \in DOMAIN (<<j>> \o q) : (<<j>> \o q)[i] = IF i = 1 THEN j ELSE q[i - 1]
<1>1. <<j>> \o q \in Seq(Job)
  OBVIOUS
<1>2. Len(<<j>> \o q) = Len(q) + 1
  OBVIOUS
<1>3. DOMAIN (<<j>> \o q) = 1..(Len(q) + 1)
  BY <1>1, <1>2
<1>4. ASSUME NEW i \in 1..(Len(q) + 1)
      PROVE  (<<j>> \o q)[i] = IF i = 1 THEN j ELSE q[i - 1]
  BY <1>4
<1> QED
  BY <1>1, <1>3, <1>4

---------------------------------------------------------------------------
(* Types.                                                                  *)

LEMMA RowWritten ==
  ASSUME row \in [Job -> Row], NEW j \in Job,
         NEW s \in {"none", "queued", "running", "done", "failed"},
         NEW p \in {0, 5, 30, 90, 100}, Upsert(j, s, p)
  PROVE  /\ row' \in [Job -> Row]
         /\ row'[j] = [status |-> s, target |-> row[j].target, progress |-> p]
         /\ \A k \in Job \ {j} : row'[k] = row[k]
<1>1. row' = [row EXCEPT ![j] = [status |-> s, target |-> row[j].target, progress |-> p]]
  BY DEF Upsert, Row
<1>2. [status |-> s, target |-> row[j].target, progress |-> p] \in Row
  BY DEF Row
<1> QED
  BY <1>1, <1>2

LEMMA RegenTypeInit == Init => TypeOK
<1> SUFFICES ASSUME Init PROVE TypeOK
  OBVIOUS
<1>1. 1 \in Clip /\ NoRow \in Row /\ "none" \in Step
  BY RegenAssumption DEF Clip, NoRow, Row, Step
<1>2. video \in [Clip -> Nat] /\ archived \in [Clip -> SUBSET Nat] /\ queue \in Seq(Job)
  BY DEF Init
<1>3. status \in [Clip -> {"ready", "dirty", "failed"}] /\ replaced \in [Clip -> SUBSET Nat]
  BY DEF Init
<1> QED
  BY <1>1, <1>2, <1>3 DEF Init, TypeOK

LEMMA RegenTypeStep == TypeOK /\ [Next]_vars => TypeOK'
<1> SUFFICES ASSUME TypeOK, [Next]_vars PROVE TypeOK'
  OBVIOUS
<1> USE RegenAssumption DEF Step, Over, clips, arq, past
<1>1. ASSUME Start PROVE TypeOK'
  <2>1. PICK k \in DOMAIN queue :
          /\ queue' = RemoveAt(queue, k)
          /\ To(queue[k], "first")
    BY <1>1 DEF Start
  <2>2. queue' \in Seq(Job)
    BY <2>1, TakenOut DEF TypeOK
  <2> QED
    BY <1>1, <2>1, <2>2 DEF Start, To, TypeOK
<1>2. ASSUME NEW j \in Job, NEW c \in Clip, Check(j, c) PROVE TypeOK'
  BY <1>2 DEF Check, TypeOK
<1>3. ASSUME NEW j \in Job, Enqueue(j) PROVE TypeOK'
  <2>1. queue' \in Seq(Job)
    BY <1>3, AppendProperties DEF Enqueue, TypeOK
  <2> QED
    BY <1>3, <2>1 DEF Enqueue, TypeOK
<1>4. ASSUME NEW j \in Job, Insert(j) PROVE TypeOK'
  <2>1. faults' \in Nat
    BY <1>4 DEF Insert, TypeOK, Fault, NoFault
  <2>2. row' \in [Job -> Row]
    <3>1. [status |-> "queued", target |-> TRUE, progress |-> 0] \in Row
      BY DEF Row
    <3> QED
      BY <1>4, <3>1 DEF Insert, TypeOK
  <2> QED
    BY <1>4, <2>1, <2>2 DEF Insert, TypeOK
<1>5. ASSUME NEW j \in Job, FirstRead(j) PROVE TypeOK'
  BY <1>5 DEF FirstRead, To, TypeOK
<1>6. ASSUME NEW j \in Job, FirstWrite(j) PROVE TypeOK'
  <2>1. row' \in [Job -> Row]
    BY <1>6, RowWritten DEF FirstWrite, Upsert, TypeOK
  <2> QED
    BY <1>6, <2>1 DEF FirstWrite, To, TypeOK
<1>7. ASSUME NEW j \in Job, Progress(j) PROVE TypeOK'
  <2>1. row' \in [Job -> Row]
    BY <1>7, RowWritten DEF Progress, TypeOK
  <2> QED
    BY <1>7, <2>1 DEF Progress, To, TypeOK
<1>8. ASSUME NEW j \in Job, Load(j) PROVE TypeOK'
  BY <1>8 DEF Load, To, TypeOK
<1>9. ASSUME NEW j \in Job, Generate(j) PROVE TypeOK'
  <2>1. faults' \in Nat
    BY <1>9 DEF Generate, TypeOK, Fault, NoFault
  <2>2. status' \in [Clip -> {"ready", "dirty", "failed"}]
    BY <1>9 DEF Generate, TypeOK
  <2> QED
    BY <1>9, <2>1, <2>2 DEF Generate, To, TypeOK
<1>10. ASSUME NEW j \in Job, Commit(j) PROVE TypeOK'
  <2>1. want[j] \in Clip /\ version[want[j]] \in Nat /\ ToArchive(j, want[j]) \in SUBSET Nat
    BY DEF TypeOK, ToArchive
  <2>2. /\ status' \in [Clip -> {"ready", "dirty", "failed"}]
        /\ version' \in [Clip -> Nat] /\ video' \in [Clip -> Nat]
    BY <1>10, <2>1 DEF Commit, TypeOK
  <2>3. archived' \in [Clip -> SUBSET Nat] /\ replaced' \in [Clip -> SUBSET Nat]
    BY <1>10, <2>1 DEF Commit, TypeOK
  <2>4. upstream' \in [Clip -> Nat] /\ basis' \in [Clip -> Nat]
    BY <1>10, <2>1 DEF Commit, TypeOK
  <2> QED
    BY <1>10, <2>2, <2>3, <2>4 DEF Commit, To, TypeOK
<1>11. ASSUME NEW j \in Job, Updated(j) PROVE TypeOK'
  <2>1. row' \in [Job -> Row]
    BY <1>11, RowWritten DEF Updated, TypeOK
  <2>2. faults' \in Nat
    BY <1>11 DEF Updated, Fault, NoFault, TypeOK
  <2> QED
    BY <1>11, <2>1, <2>2 DEF Updated, To, TypeOK
<1>12. ASSUME NEW j \in Job, Finish(j) PROVE TypeOK'
  <2>1. row' \in [Job -> Row]
    BY <1>12, RowWritten DEF Finish, TypeOK
  <2> QED
    BY <1>12, <2>1 DEF Finish, To, TypeOK
<1>13. ASSUME NEW j \in Job, Fail(j) PROVE TypeOK'
  <2>1. row' \in [Job -> Row]
    <3>1. row[j] \in Row /\ [status |-> "failed", target |-> row[j].target,
                             progress |-> row[j].progress] \in Row
      BY DEF TypeOK, Row
    <3> QED
      BY <1>13, <3>1 DEF Fail, Upsert, TypeOK
  <2> QED
    BY <1>13, <2>1 DEF Fail, To, TypeOK
<1>14. ASSUME NEW j \in Job, Timeout(j) PROVE TypeOK'
  BY <1>14 DEF Timeout, To, TypeOK, Fault
<1>15. ASSUME NEW j \in Job, Crash(j) PROVE TypeOK'
  <2>1. queue' \in Seq(Job)
    BY <1>15, PutFirst DEF Crash, TypeOK
  <2> QED
    BY <1>15, <2>1 DEF Crash, To, TypeOK, Fault
<1>16. ASSUME UNCHANGED vars PROVE TypeOK'
  BY <1>16 DEF vars, TypeOK
<1> QED
  BY <1>1, <1>2, <1>3, <1>4, <1>5, <1>6, <1>7, <1>8, <1>9, <1>10, <1>11, <1>12, <1>13,
     <1>14, <1>15, <1>16 DEF Next, Request, Work

\* The variables keep their types.
THEOREM RegenTypeCorrect == Spec => []TypeOK
BY RegenTypeInit, RegenTypeStep, PTL DEF Spec

---------------------------------------------------------------------------
(* ARQ has a job once, and only after the request has enqueued it.          *)

OnceInArq ==
  /\ \A j \in Job : api[j] \in {"free", "checked", "rejected"} => step[j] = "none"
  /\ \A i \in DOMAIN queue : step[queue[i]] \in {"queued", "again"}
  /\ \A i, k \in DOMAIN queue : queue[i] = queue[k] => i = k

LEMMA ArqInit == Init => OnceInArq
BY DEF Init, OnceInArq

\* A step of a worker that leaves the queue alone.
LEMMA ArqMoves ==
  ASSUME TypeOK, OnceInArq, NEW j \in Busy, NEW s \in Step \ {"none"}, To(j, s),
         UNCHANGED <<api, queue>>
  PROVE  OnceInArq'
<1>1. \A i \in DOMAIN queue : queue[i] \in Job /\ queue[i] # j
  BY DEF Busy, OnceInArq, TypeOK
<1> QED
  BY <1>1 DEF TypeOK, OnceInArq, To, Busy

LEMMA ArqStep == TypeOK /\ OnceInArq /\ [Next]_vars => OnceInArq'
<1> SUFFICES ASSUME TypeOK, OnceInArq, [Next]_vars PROVE OnceInArq'
  OBVIOUS
<1>1. ASSUME Start PROVE OnceInArq'
  <2>1. PICK k \in DOMAIN queue :
          /\ queue' = RemoveAt(queue, k)
          /\ To(queue[k], "first")
    BY <1>1 DEF Start
  <2>2. /\ queue \in Seq(Job) /\ queue[k] \in Job /\ api' = api
        /\ step' = [step EXCEPT ![queue[k]] = "first"]
    <3>1. queue \in Seq(Job) /\ queue[k] \in Job
      BY <2>1 DEF TypeOK
    <3> QED
      BY <1>1, <2>1, <3>1 DEF Start, To
  <2>3. \A i, m \in DOMAIN queue : queue[i] = queue[m] => i = m
    BY DEF OnceInArq
  <2>4. /\ \A i \in DOMAIN queue' : queue'[i] # queue[k] /\ \E m \in DOMAIN queue : queue'[i] = queue[m]
        /\ \A i, m \in DOMAIN queue' : queue'[i] = queue'[m] => i = m
    BY <2>1, <2>2, <2>3, TakenOutOnce
  <2>5. \A m \in DOMAIN queue : queue[m] \in Job
    BY <2>2
  <2>6. \A i \in DOMAIN queue' : step'[queue'[i]] \in {"queued", "again"}
    BY <2>2, <2>4, <2>5 DEF OnceInArq, TypeOK
  <2>7. \A j \in Job : api'[j] \in {"free", "checked", "rejected"} => step'[j] = "none"
    <3>1. step[queue[k]] # "none"
      BY <2>1 DEF OnceInArq
    <3> QED
      BY <2>2, <3>1 DEF OnceInArq, TypeOK
  <2> QED
    BY <2>4, <2>6, <2>7 DEF OnceInArq
<1>2. ASSUME NEW j \in Job, NEW c \in Clip, Check(j, c) PROVE OnceInArq'
  BY <1>2 DEF Check, arq, TypeOK, OnceInArq
<1>3. ASSUME NEW j \in Job, Enqueue(j) PROVE OnceInArq'
  <2>1. /\ queue \in Seq(Job) /\ step[j] = "none" /\ queue' = Append(queue, j)
        /\ step' = [step EXCEPT ![j] = "queued"] /\ api' = [api EXCEPT ![j] = "enqueued"]
    BY <1>3 DEF Enqueue, TypeOK, OnceInArq
  <2>2. /\ DOMAIN queue' = 1..(Len(queue) + 1) /\ DOMAIN queue = 1..Len(queue)
        /\ queue'[Len(queue) + 1] = j
        /\ \A i \in DOMAIN queue : queue'[i] = queue[i]
    BY <2>1
  <2>3. \A i \in DOMAIN queue : queue[i] # j /\ queue[i] \in Job
    <3>1. \A i \in DOMAIN queue : queue[i] \in Job
      BY <2>1
    <3> QED
      BY <2>1, <3>1 DEF OnceInArq
  <2>4. \A i \in DOMAIN queue' : i \in DOMAIN queue \/ i = Len(queue) + 1
    BY <2>1, <2>2
  <2>5. \A i \in DOMAIN queue' : step'[queue'[i]] \in {"queued", "again"}
    BY <2>1, <2>2, <2>3, <2>4 DEF OnceInArq, TypeOK
  <2>6. \A i, k \in DOMAIN queue' : queue'[i] = queue'[k] => i = k
    BY <2>2, <2>3, <2>4 DEF OnceInArq
  <2>7. \A k \in Job : api'[k] \in {"free", "checked", "rejected"} => step'[k] = "none"
    BY <2>1 DEF OnceInArq, TypeOK
  <2> QED
    BY <2>5, <2>6, <2>7 DEF OnceInArq
<1>4. ASSUME NEW j \in Job, Insert(j) PROVE OnceInArq'
  BY <1>4 DEF Insert, arq, TypeOK, OnceInArq
<1>5. ASSUME NEW j \in Job, Work(j) PROVE OnceInArq'
  <2>1. j \in Busy /\ UNCHANGED <<api, queue>>
    BY <1>5 DEF Work, FirstRead, FirstWrite, Progress, Load, Generate, Commit, Updated,
                Finish, Fail, Busy, Over
  <2>2. \E s \in Step \ {"none"} : To(j, s)
    BY <1>5 DEF Work, FirstRead, FirstWrite, Progress, Load, Generate, Commit, Updated,
                Finish, Fail, Step
  <2> QED
    BY <2>1, <2>2, ArqMoves
<1>6. ASSUME NEW j \in Job, Timeout(j) PROVE OnceInArq'
  BY <1>6, ArqMoves DEF Timeout, Step
<1>7. ASSUME NEW j \in Job, Crash(j) PROVE OnceInArq'
  <2>1. /\ queue \in Seq(Job) /\ queue' = <<j>> \o queue /\ api' = api
        /\ step' = [step EXCEPT ![j] = "again"]
        /\ step[j] \notin {"none", "queued", "again"}
    BY <1>7 DEF Crash, To, Busy, TypeOK
  <2>2. /\ DOMAIN queue' = 1..(Len(queue) + 1) /\ DOMAIN queue = 1..Len(queue)
        /\ \A i \in DOMAIN queue' : queue'[i] = IF i = 1 THEN j ELSE queue[i - 1]
    BY <2>1, PutFirst
  <2>3. \A i \in DOMAIN queue : queue[i] # j /\ queue[i] \in Job
    <3>1. \A i \in DOMAIN queue : queue[i] \in Job
      BY <2>1
    <3> QED
      BY <2>1, <3>1 DEF OnceInArq
  <2>4. \A i \in DOMAIN queue' : i = 1 \/ i - 1 \in DOMAIN queue
    BY <2>1, <2>2
  <2>5. ASSUME NEW i \in DOMAIN queue' PROVE step'[queue'[i]] \in {"queued", "again"}
    <3>1. CASE i = 1
      BY <2>1, <2>2, <3>1 DEF TypeOK
    <3>2. CASE i # 1
      <4>1. i - 1 \in DOMAIN queue /\ queue'[i] = queue[i - 1]
        BY <2>2, <2>4, <3>2
      <4> QED
        BY <2>1, <2>3, <4>1 DEF OnceInArq, TypeOK
    <3> QED
      BY <3>1, <3>2
  <2>6. ASSUME NEW i \in DOMAIN queue', NEW m \in DOMAIN queue', queue'[i] = queue'[m]
        PROVE  i = m
    BY <2>2, <2>3, <2>4, <2>6 DEF OnceInArq
  <2>7. \A k \in Job : api'[k] \in {"free", "checked", "rejected"} => step'[k] = "none"
    BY <2>1 DEF OnceInArq, TypeOK
  <2> QED
    BY <2>5, <2>6, <2>7 DEF OnceInArq
<1>8. ASSUME UNCHANGED vars PROVE OnceInArq'
  BY <1>8 DEF vars, arq, OnceInArq
<1> QED
  BY <1>1, <1>2, <1>3, <1>4, <1>5, <1>6, <1>7, <1>8 DEF Next, Request

---------------------------------------------------------------------------
(* The row of a job keeps up with its coroutine.                            *)

RowKeepsUp ==
  \A j \in Job :
    /\ seen[j] => row[j].status # "none"
    /\ row[j].status = "none" => row[j].progress = 0
    /\ step[j] = "running" => row[j].status # "none" /\ row[j].progress = 5
    /\ step[j] \in {"load", "generate", "commit", "committed"}
         => row[j].status # "none" /\ row[j].progress = 30
    /\ step[j] = "finish" => row[j].status # "none" /\ row[j].progress = 90

LEMMA KeepsUpInit == Init => RowKeepsUp
BY DEF Init, RowKeepsUp, NoRow

\* Only the job's own request and its coroutine write a row.
LEMMA KeepsUpStep == TypeOK /\ RowKeepsUp /\ [Next]_vars => RowKeepsUp'
<1> SUFFICES ASSUME TypeOK, RowKeepsUp, [Next]_vars PROVE RowKeepsUp'
  OBVIOUS
<1> USE DEF RowKeepsUp
<1>0. /\ row \in [Job -> Row] /\ step \in [Job -> Step] /\ seen \in [Job -> BOOLEAN]
  BY DEF TypeOK
<1>1. ASSUME Start PROVE RowKeepsUp'
  <2>1. PICK k \in DOMAIN queue : To(queue[k], "first")
    BY <1>1 DEF Start
  <2> QED
    BY <1>0, <1>1, <2>1 DEF Start, To
<1>2. ASSUME NEW j \in Job, NEW c \in Clip, Check(j, c) PROVE RowKeepsUp'
  BY <1>2 DEF Check, arq
<1>3. ASSUME NEW j \in Job, Enqueue(j) PROVE RowKeepsUp'
  BY <1>0, <1>3 DEF Enqueue
<1>4. ASSUME NEW j \in Job, Insert(j) PROVE RowKeepsUp'
  BY <1>0, <1>4 DEF Insert, arq
<1>5. ASSUME NEW j \in Job, FirstRead(j) PROVE RowKeepsUp'
  BY <1>0, <1>5 DEF FirstRead, To
<1>6. ASSUME NEW j \in Job, FirstWrite(j) PROVE RowKeepsUp'
  BY <1>0, <1>6 DEF FirstWrite, To
<1>7. ASSUME NEW j \in Job, Progress(j) PROVE RowKeepsUp'
  BY <1>0, <1>7 DEF Progress, To, Upsert
<1>8. ASSUME NEW j \in Job, Load(j) \/ Generate(j) \/ Commit(j) PROVE RowKeepsUp'
  BY <1>0, <1>8 DEF Load, Generate, Commit, To
<1>9. ASSUME NEW j \in Job, Updated(j) PROVE RowKeepsUp'
  BY <1>0, <1>9 DEF Updated, To, Upsert
<1>10. ASSUME NEW j \in Job, Finish(j) \/ Fail(j) PROVE RowKeepsUp'
  BY <1>0, <1>10 DEF Finish, Fail, To, Upsert
<1>11. ASSUME NEW j \in Job, Timeout(j) \/ Crash(j) PROVE RowKeepsUp'
  BY <1>0, <1>11 DEF Timeout, Crash, To
<1>12. ASSUME UNCHANGED vars PROVE RowKeepsUp'
  BY <1>12 DEF vars, arq
<1> QED
  BY <1>1, <1>2, <1>3, <1>4, <1>5, <1>6, <1>7, <1>8, <1>9, <1>10, <1>11, <1>12
     DEF Next, Request, Work

\* A client that polls a job never sees its progress shrink while ARQ runs it, not when it
\* fails either: the number falls only where a repeated run begins.
THEOREM AlwaysProgressGrows == Spec => ProgressGrows
<1>1. TypeOK /\ RowKeepsUp /\ [Next]_vars
        => [\A j \in Job : row'[j].progress >= row[j].progress \/ step[j] = "write"]_vars
  <2> SUFFICES ASSUME TypeOK, RowKeepsUp, Next, NEW j \in Job, step[j] # "write"
               PROVE  row'[j].progress >= row[j].progress
    OBVIOUS
  <2>1. row \in [Job -> Row] /\ row[j].progress \in Int
    <3>1. row \in [Job -> Row] /\ row[j] \in Row
      BY DEF TypeOK
    <3>2. \A r \in Row : r.progress \in Int
      BY DEF Row
    <3> QED
      BY <3>1, <3>2
  <2>2. CASE row' = row
    BY <2>1, <2>2
  <2>3. ASSUME NEW k \in Job, Insert(k), row' # row PROVE row'[j].progress >= row[j].progress
    BY <2>1, <2>3 DEF Insert, RowKeepsUp
  <2>4. ASSUME NEW k \in Job, FirstWrite(k) PROVE row'[j].progress >= row[j].progress
    BY <2>1, <2>4 DEF FirstWrite
  <2>5. ASSUME NEW k \in Job, Progress(k) \/ Updated(k) \/ Finish(k) \/ Fail(k)
        PROVE  row'[j].progress >= row[j].progress
    BY <2>1, <2>5 DEF Progress, Updated, Finish, Fail, Upsert, RowKeepsUp
  <2> QED
    BY <2>2, <2>3, <2>4, <2>5 DEF Next, Request, Work, Start, Check, Enqueue, FirstRead, Load,
                                  Generate, Commit, Timeout, Crash
<1> QED
  BY <1>1, RegenTypeInit, RegenTypeStep, KeepsUpInit, KeepsUpStep, PTL
     DEF Spec, ProgressGrows

---------------------------------------------------------------------------
(* What the row says of a job that is over.                                 *)

\* A job knows of a commit of its present run, and of no other, until it is over; one that
\* could not say so fails.
CommitKnown ==
  \A j \in Job :
    /\ committed[j] => step[j] \in {"committed", "finish", "failing"} \cup Over
    /\ step[j] \in {"committed", "finish"} => committed[j] /\ ~unsaved[j]
    /\ step[j] = "failing" => (committed[j] <=> unsaved[j])
    /\ unsaved[j] => step[j] \in {"failing"} \cup Over

LEMMA TruthInit == Init => CommitKnown /\ RowTellsTruth
BY DEF Init, CommitKnown, RowTellsTruth

LEMMA TruthStep ==
  TypeOK /\ OnceInArq /\ RowKeepsUp /\ CommitKnown /\ RowTellsTruth /\ [Next]_vars
    => CommitKnown' /\ RowTellsTruth'
<1> SUFFICES ASSUME TypeOK, OnceInArq, RowKeepsUp, CommitKnown, RowTellsTruth, [Next]_vars
             PROVE  CommitKnown' /\ RowTellsTruth'
  OBVIOUS
<1> USE DEF CommitKnown, RowTellsTruth, Over
<1>0. /\ row \in [Job -> Row] /\ step \in [Job -> Step] /\ seen \in [Job -> BOOLEAN]
      /\ committed \in [Job -> BOOLEAN] /\ unsaved \in [Job -> BOOLEAN]
  BY DEF TypeOK
<1>1. ASSUME Start PROVE CommitKnown' /\ RowTellsTruth'
  <2>1. PICK k \in DOMAIN queue : To(queue[k], "first")
    BY <1>1 DEF Start
  <2>2. step[queue[k]] \in {"queued", "again"} /\ queue[k] \in Job
    BY <2>1 DEF OnceInArq, TypeOK
  <2> QED
    BY <1>0, <1>1, <2>1, <2>2 DEF Start, To, past
<1>2. ASSUME NEW j \in Job, NEW c \in Clip, Check(j, c) PROVE CommitKnown' /\ RowTellsTruth'
  BY <1>2 DEF Check, arq, past
<1>3. ASSUME NEW j \in Job, Enqueue(j) PROVE CommitKnown' /\ RowTellsTruth'
  <2>1. step[j] = "none"
    BY <1>3 DEF Enqueue, OnceInArq
  <2> QED
    BY <1>0, <1>3, <2>1 DEF Enqueue, past
<1>4. ASSUME NEW j \in Job, Insert(j) PROVE CommitKnown' /\ RowTellsTruth'
  BY <1>0, <1>4 DEF Insert, arq, past, RowKeepsUp
<1>5. ASSUME NEW j \in Job, FirstRead(j) PROVE CommitKnown' /\ RowTellsTruth'
  BY <1>0, <1>5 DEF FirstRead, To, past
<1>6. ASSUME NEW j \in Job, FirstWrite(j) PROVE CommitKnown' /\ RowTellsTruth'
  BY <1>0, <1>6 DEF FirstWrite, To, past
<1>7. ASSUME NEW j \in Job, Progress(j) PROVE CommitKnown' /\ RowTellsTruth'
  BY <1>0, <1>7 DEF Progress, To, Upsert, past
<1>8. ASSUME NEW j \in Job, Load(j) PROVE CommitKnown' /\ RowTellsTruth'
  BY <1>0, <1>8 DEF Load, To
<1>9. ASSUME NEW j \in Job, Generate(j) PROVE CommitKnown' /\ RowTellsTruth'
  BY <1>0, <1>9 DEF Generate, To, past
<1>10. ASSUME NEW j \in Job, Commit(j) PROVE CommitKnown' /\ RowTellsTruth'
  BY <1>0, <1>10 DEF Commit, To
<1>11. ASSUME NEW j \in Job, Updated(j) PROVE CommitKnown' /\ RowTellsTruth'
  BY <1>0, <1>11 DEF Updated, To, Upsert
<1>12. ASSUME NEW j \in Job, Finish(j) \/ Fail(j) PROVE CommitKnown' /\ RowTellsTruth'
  BY <1>0, <1>12 DEF Finish, Fail, To, Upsert, past
<1>13. ASSUME NEW j \in Job, Timeout(j) PROVE CommitKnown' /\ RowTellsTruth'
  BY <1>0, <1>13 DEF Timeout, To, past
<1>14. ASSUME NEW j \in Job, Crash(j) PROVE CommitKnown' /\ RowTellsTruth'
  BY <1>0, <1>14 DEF Crash, To
<1>15. ASSUME UNCHANGED vars PROVE CommitKnown' /\ RowTellsTruth'
  BY <1>15 DEF vars, arq, past
<1> QED
  BY <1>1, <1>2, <1>3, <1>4, <1>5, <1>6, <1>7, <1>8, <1>9, <1>10, <1>11, <1>12, <1>13,
     <1>14, <1>15 DEF Next, Request, Work

\* What the row of a job that is over says is what became of the clip, after any number of
\* failures and crashed workers and however many jobs of a clip there are: done exactly if its
\* last execution replaced the clip and could say so.
THEOREM AlwaysRowTellsTruth == Spec => []RowTellsTruth
BY RegenTypeInit, RegenTypeStep, ArqInit, ArqStep, KeepsUpInit, KeepsUpStep, TruthInit, TruthStep,
   PTL DEF Spec

---------------------------------------------------------------------------
(* One worker: what a regeneration read stays true until it commits.        *)

OneBusy == \A j, k \in Busy : j = k

ReadsFresh ==
  \A j \in Job : step[j] \in {"generate", "commit"} =>
    started[j] = upstream[want[j]] /\ old[j] = video[want[j]]

LEMMA NoneBusy ==
  ASSUME Workers = 1, Cardinality(Busy) < Workers
  PROVE  Busy = {}
<1>1. IsFiniteSet(Job)
  BY RegenAssumption, FS_Interval DEF Job
<1>2. IsFiniteSet(Busy)
  BY <1>1, FS_Subset DEF Busy
<1>3. Cardinality(Busy) \in Nat /\ (Cardinality(Busy) = 0 <=> Busy = {})
  BY <1>2, FS_CardinalityType, FS_EmptySet
<1> QED
  BY <1>3

LEMMA OneInit == Init => OneBusy /\ ReadsFresh
BY DEF Init, OneBusy, ReadsFresh, Busy

LEMMA OneBusyStep ==
  ASSUME Workers = 1
  PROVE  TypeOK /\ OneBusy /\ [Next]_vars => OneBusy'
<1> SUFFICES ASSUME TypeOK, OneBusy, [Next]_vars PROVE OneBusy'
  OBVIOUS
<1>0. step \in [Job -> Step]
  BY DEF TypeOK
<1>1. ASSUME Start PROVE OneBusy'
  <2>1. PICK k \in DOMAIN queue : To(queue[k], "first")
    BY <1>1 DEF Start
  <2>2. Busy = {}
    BY <1>1, NoneBusy DEF Start
  <2> QED
    BY <1>0, <2>1, <2>2 DEF OneBusy, Busy, Over, To
<1>2. ASSUME NEW j \in Job, Request(j) PROVE OneBusy'
  BY <1>0, <1>2 DEF Request, Check, Enqueue, Insert, arq, OneBusy, Busy, Over
<1>3. ASSUME NEW j \in Job, Work(j) \/ Timeout(j) \/ Crash(j) PROVE OneBusy'
  <2>1. j \in Busy
    BY <1>3 DEF Work, FirstRead, FirstWrite, Progress, Load, Generate, Commit, Updated,
                Finish, Fail, Timeout, Crash, Busy, Over
  <2>2. \E s \in Step : To(j, s)
    BY <1>3 DEF Work, FirstRead, FirstWrite, Progress, Load, Generate, Commit, Updated,
                Finish, Fail, Timeout, Crash, Step
  <2> QED
    BY <1>0, <2>1, <2>2 DEF To, OneBusy, Busy, Over
<1>4. ASSUME UNCHANGED vars PROVE OneBusy'
  BY <1>4 DEF vars, arq, OneBusy, Busy, Over
<1> QED
  BY <1>1, <1>2, <1>3, <1>4 DEF Next

LEMMA ReadsStep == TypeOK /\ OnceInArq /\ OneBusy /\ ReadsFresh /\ [Next]_vars => ReadsFresh'
<1> SUFFICES ASSUME TypeOK, OnceInArq, OneBusy, ReadsFresh, [Next]_vars PROVE ReadsFresh'
  OBVIOUS
<1> USE DEF ReadsFresh
<1>0. /\ step \in [Job -> Step] /\ want \in [Job -> Clip] /\ old \in [Job -> Nat]
      /\ started \in [Job -> Nat]
  BY DEF TypeOK
<1>1. ASSUME Start PROVE ReadsFresh'
  BY <1>0, <1>1 DEF Start, To, past, clips
<1>2. ASSUME NEW j \in Job, NEW c \in Clip, Check(j, c) PROVE ReadsFresh'
  <2>1. step[j] = "none"
    BY <1>2 DEF Check, OnceInArq
  <2> QED
    BY <1>0, <1>2, <2>1 DEF Check, arq, past, clips
<1>3. ASSUME NEW j \in Job, Enqueue(j) \/ Insert(j) PROVE ReadsFresh'
  BY <1>0, <1>3 DEF Enqueue, Insert, arq, past, clips
<1>4. ASSUME NEW j \in Job, FirstRead(j) \/ FirstWrite(j) \/ Progress(j) PROVE ReadsFresh'
  BY <1>0, <1>4 DEF FirstRead, FirstWrite, Progress, To, past, clips
<1>5. ASSUME NEW j \in Job, Load(j) PROVE ReadsFresh'
  BY <1>0, <1>5 DEF Load, To, clips
<1>6. ASSUME NEW j \in Job, Generate(j) PROVE ReadsFresh'
  BY <1>0, <1>6 DEF Generate, To, past
<1>7. ASSUME NEW j \in Job, Commit(j) PROVE ReadsFresh'
  <2>1. \A k \in Job : k # j => step[k] \notin {"generate", "commit"}
    BY <1>7 DEF Commit, OneBusy, Busy, Over
  <2> QED
    BY <1>0, <1>7, <2>1 DEF Commit, To
<1>8. ASSUME NEW j \in Job, Updated(j) \/ Finish(j) \/ Fail(j) PROVE ReadsFresh'
  BY <1>0, <1>8 DEF Updated, Finish, Fail, To, past, clips
<1>9. ASSUME NEW j \in Job, Timeout(j) \/ Crash(j) PROVE ReadsFresh'
  BY <1>0, <1>9 DEF Timeout, Crash, To, past, clips
<1>10. ASSUME UNCHANGED vars PROVE ReadsFresh'
  BY <1>10 DEF vars, arq, past, clips
<1> QED
  BY <1>1, <1>2, <1>3, <1>4, <1>5, <1>6, <1>7, <1>8, <1>9, <1>10 DEF Next, Request, Work

LEMMA VideosInit == Init => DirtyNotLost /\ EveryVideoArchived
BY DEF Init, DirtyNotLost, EveryVideoArchived

LEMMA VideosStep ==
  TypeOK /\ ReadsFresh /\ DirtyNotLost /\ EveryVideoArchived /\ [Next]_vars
    => DirtyNotLost' /\ EveryVideoArchived'
<1> SUFFICES ASSUME TypeOK, ReadsFresh, DirtyNotLost, EveryVideoArchived, [Next]_vars
             PROVE  DirtyNotLost' /\ EveryVideoArchived'
  OBVIOUS
<1>1. ASSUME NEW j \in Job, Commit(j) PROVE DirtyNotLost' /\ EveryVideoArchived'
  <2> DEFINE c == want[j]
  <2>1. c \in Clip /\ c \in Int /\ Clip \subseteq Int
    BY RegenAssumption DEF TypeOK, Clip
  <2>2. started[j] = upstream[c] /\ old[j] = video[c]
    BY <1>1 DEF Commit, ReadsFresh
  <2>3. DirtyNotLost'
    BY <1>1, <2>1, <2>2 DEF Commit, Later, DirtyNotLost, TypeOK
  <2>4. EveryVideoArchived'
    <3>1. replaced[c] \cup ({video[c]} \ {0}) \subseteq archived[c] \cup ToArchive(j, c)
      BY <2>1, <2>2 DEF EveryVideoArchived, ToArchive
    <3> QED
      BY <1>1, <2>1, <3>1 DEF Commit, EveryVideoArchived, TypeOK
  <2> QED
    BY <2>3, <2>4
<1>2. ASSUME NEW j \in Job, Generate(j) PROVE DirtyNotLost' /\ EveryVideoArchived'
  BY <1>2 DEF Generate, past, DirtyNotLost, EveryVideoArchived, TypeOK
<1>3. ASSUME UNCHANGED <<status, archived, replaced, upstream, basis>>
      PROVE  DirtyNotLost' /\ EveryVideoArchived'
  BY <1>3 DEF DirtyNotLost, EveryVideoArchived
<1> QED
  BY <1>1, <1>2, <1>3 DEF Next, Request, Work, Start, Check, Enqueue, Insert, FirstRead,
     FirstWrite, Progress, Load, Updated, Finish, Fail, Timeout, Crash, vars, clips, past

LEMMA OneWorker ==
  ASSUME Workers = 1
  PROVE  Spec => [](DirtyNotLost /\ EveryVideoArchived)
<1>1. TypeOK /\ OneBusy /\ [Next]_vars => OneBusy'
  BY OneBusyStep
<1> QED
  BY <1>1, RegenTypeInit, RegenTypeStep, ArqInit, ArqStep, OneInit, ReadsStep,
     VideosInit, VideosStep, PTL DEF Spec

\* With one worker a clip is "ready" only if no clip before it was replaced since the
\* generation of its own video began.
THEOREM AlwaysDirtyNotLost ==
  ASSUME Workers = 1
  PROVE  Spec => []DirtyNotLost
<1>1. Spec => [](DirtyNotLost /\ EveryVideoArchived)
  BY OneWorker
<1> QED
  BY <1>1, PTL

\* With one worker every video a clip has had, and has no longer, is in its archive.
THEOREM AlwaysEveryVideoArchived ==
  ASSUME Workers = 1
  PROVE  Spec => []EveryVideoArchived
<1>1. Spec => [](DirtyNotLost /\ EveryVideoArchived)
  BY OneWorker
<1> QED
  BY <1>1, PTL
===============================================================================
