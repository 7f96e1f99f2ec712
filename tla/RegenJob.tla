------------------------------- MODULE RegenJob -------------------------------
(***************************************************************************)
(* Single-clip regeneration.  POST /clips/{id}/regenerate looks for an     *)
(* active job of the clip, enqueues a job in Redis (ARQ) and only then     *)
(* writes the job's row (api/clip_api.py).  A worker may have the job by   *)
(* then: it reads the row, writes it or inserts one without the clip, and  *)
(* runs regenerate_clip (core/scheduler.py, layers/L3_visual/regenerate.py)*)
(* which replaces the clip's video and marks the later clips dirty.        *)
(*                                                                         *)
(* ARQ runs a job again when the worker that had it disappears, never when *)
(* its coroutine raised or ran into job_timeout.                           *)
(***************************************************************************)
EXTENDS Integers, FiniteSets, SequencesExt

CONSTANTS
  N,           \* clips of the storyboard, by seq
  MaxJobs,     \* bound: requests
  Workers,     \* ARQ workers, each with max_jobs = 1
  Faults,      \* the failures the environment can inject
  MaxFaults    \* bound: how many of them in one behaviour

ASSUME RegenAssumption ==
  /\ N \in Nat \ {0} /\ MaxJobs \in Nat /\ Workers \in Nat \ {0} /\ MaxFaults \in Nat
  /\ Faults \subseteq {"api", "generate", "db", "timeout", "crash"}

Clip == 1..N
Job  == 1..MaxJobs

VARIABLES
  \* table clips
  status, version,
  video,       \* video_url: the version its file was made for, 0 = no file
  archived,    \* FrameAsset rows of kind archived_video
  \* table jobs: status "none" = no row; target = the row has its target_id
  row,
  \* the request that created a job, and the clip it names
  api, want,
  \* ARQ: waiting jobs, and where the coroutine of a job is
  queue, step,
  seen,        \* its first read of jobs found the row
  old,         \* old_video_url: the video the regeneration read
  \* history
  replaced,    \* the videos a clip has had before
  committed,   \* the present execution of a job has committed its clip, ...
  unsaved,     \* ... and its next update of the row failed
  upstream,    \* how often a clip before this one was committed, ...
  started,     \* ... as of the start of a job's generation, ...
  basis,       \* ... and of that of the video the clip has now
  faults

clips == <<status, version, video, archived>>
arq   == <<queue, step, seen, old>>
past  == <<replaced, committed, unsaved, upstream, started, basis>>
vars  == <<clips, row, api, want, arq, past, faults>>

NoRow == [status |-> "none", target |-> FALSE, progress |-> 0]
Row   == [status : {"none", "queued", "running", "done", "failed"}, target : BOOLEAN,
          progress : {0, 5, 30, 90, 100}]

Step  == {"none", "queued", "again", "first", "write", "running", "load", "generate", "commit",
          "committed", "finish", "failing", "ended", "cancelled"}
Over  == {"ended", "cancelled"}

Init ==
  /\ status = [c \in Clip |-> "ready"] /\ version = [c \in Clip |-> 1]
  /\ video \in [Clip -> {0, 1}]
  /\ archived = [c \in Clip |-> {}]
  /\ row = [j \in Job |-> NoRow]
  /\ api = [j \in Job |-> "free"] /\ want = [j \in Job |-> 1]
  /\ queue = <<>> /\ step = [j \in Job |-> "none"]
  /\ seen = [j \in Job |-> FALSE]
  /\ old = [j \in Job |-> 0]
  /\ replaced = [c \in Clip |-> {}]
  /\ committed = [j \in Job |-> FALSE] /\ unsaved = [j \in Job |-> FALSE]
  /\ upstream = [c \in Clip |-> 0] /\ basis = [c \in Clip |-> 0]
  /\ started = [j \in Job |-> 0]
  /\ faults = 0

Fault(f) == f \in Faults /\ faults < MaxFaults /\ faults' = faults + 1
NoFault  == UNCHANGED faults

---------------------------------------------------------------------------
(* regenerate_clip_endpoint: three steps, with nothing held between them.  *)

ACTIVE_JOB_STATUSES == {"queued", "running"}
Active(c) == {j \in Job : row[j].target /\ want[j] = c /\ row[j].status \in ACTIVE_JOB_STATUSES}

\* A clip with an active job answers 409.
Check(j, c) ==
  /\ api[j] = "free" /\ \A k \in 1..(j - 1) : api[k] # "free"
  /\ api' = [api EXCEPT ![j] = IF Active(c) = {} THEN "checked" ELSE "rejected"]
  /\ want' = [want EXCEPT ![j] = c]
  /\ UNCHANGED <<clips, row, arq, past, faults>>

Enqueue(j) ==
  /\ api[j] = "checked"
  /\ api' = [api EXCEPT ![j] = "enqueued"]
  /\ queue' = Append(queue, j)
  /\ step' = [step EXCEPT ![j] = "queued"]
  /\ UNCHANGED <<clips, row, want, seen, old, past, faults>>

\* The insert fails when the worker has inserted the row already, or when the API dies.
Insert(j) ==
  /\ api[j] = "enqueued"
  /\ \/ /\ NoFault /\ row[j].status = "none"
        /\ row' = [row EXCEPT ![j] = [status |-> "queued", target |-> TRUE, progress |-> 0]]
        /\ api' = [api EXCEPT ![j] = "accepted"]
     \/ /\ (row[j].status # "none" /\ NoFault) \/ Fault("api")
        /\ api' = [api EXCEPT ![j] = "failed"]
        /\ UNCHANGED row
  /\ UNCHANGED <<clips, want, arq, past>>

---------------------------------------------------------------------------
(* The worker: task_regenerate_clip.                                       *)

Busy == {j \in Job : step[j] \notin {"none", "queued", "again"} \cup Over}
To(j, s) == step' = [step EXCEPT ![j] = s]

\* The oldest job, or one behind jobs whose worker disappeared: those are passed over until
\* their in-progress key expires.
Mutant_ManyAtOnce ==
  /\ queue # <<>>
  /\ queue' = Tail(queue) /\ To(Head(queue), "first")
  /\ UNCHANGED <<clips, row, api, want, seen, old, past, faults>>
Start ==
  /\ Cardinality(Busy) < Workers
  /\ \E k \in DOMAIN queue :
       /\ \A i \in 1..(k - 1) : step[queue[i]] = "again"
       /\ queue' = RemoveAt(queue, k)
       /\ To(queue[k], "first")
  /\ UNCHANGED <<clips, row, api, want, seen, old, past, faults>>

\* _upsert_job_status, the first time: session.get, ...
FirstRead(j) ==
  /\ step[j] = "first"
  /\ seen' = [seen EXCEPT ![j] = row[j].status # "none"]
  /\ To(j, "write")
  /\ UNCHANGED <<clips, row, api, want, queue, old, past, faults>>

\* ... then an update, or an insert (without target_id).  The insert fails when the API
\* was faster; nothing catches that.
FirstWrite(j) ==
  /\ step[j] = "write"
  /\ IF ~seen[j] /\ row[j].status # "none"
     THEN To(j, "ended") /\ UNCHANGED row
     ELSE /\ To(j, "running")
          /\ row' = [row EXCEPT ![j] = [status |-> "running", target |-> @.target, progress |-> 5]]
  /\ UNCHANGED <<clips, api, want, queue, seen, old, past, faults>>

\* Later calls of _upsert_job_status find the row.
Mutant_FailureResets(j, s, p) ==
  row' = [row EXCEPT ![j].status = s, ![j].progress = IF s = "failed" THEN 0 ELSE p]
Mutant_ProgressAdds(j, s, p) == row' = [row EXCEPT ![j].status = s, ![j].progress = @ + p]
Upsert(j, s, p) ==
  row' = [row EXCEPT ![j] = [status |-> s, target |-> @.target, progress |-> p]]

Progress(j) ==
  /\ step[j] = "running" /\ Upsert(j, "running", 30) /\ To(j, "load")
  /\ UNCHANGED <<clips, api, want, queue, seen, old, past, faults>>

---------------------------------------------------------------------------
(* regenerate_clip                                                         *)

\* The clip is read in a transaction of its own.
Load(j) ==
  /\ step[j] = "load"
  /\ old' = [old EXCEPT ![j] = video[want[j]]]
  /\ started' = [started EXCEPT ![j] = upstream[want[j]]]
  /\ To(j, "generate")
  /\ UNCHANGED <<clips, row, api, want, queue, seen, replaced, committed, unsaved, upstream, basis,
                 faults>>

Mutant_FailureGoesOn(j) ==
  /\ step[j] = "generate"
  /\ \/ NoFault /\ To(j, "commit") /\ UNCHANGED status
     \/ /\ Fault("generate") /\ To(j, "committed")
        /\ status' = [status EXCEPT ![want[j]] = "failed"]
  /\ UNCHANGED <<version, video, archived, row, api, want, queue, seen, old, past>>
Generate(j) ==
  /\ step[j] = "generate"
  /\ \/ NoFault /\ To(j, "commit") /\ UNCHANGED status
     \/ /\ Fault("generate") /\ To(j, "failing")
        /\ status' = [status EXCEPT ![want[j]] = "failed"]
  /\ UNCHANGED <<version, video, archived, row, api, want, queue, seen, old, past>>

\* Clips that come later in the storyboard.
Mutant_NextOnly(c) == {d \in Clip : d = c + 1}
Later(c) == {d \in Clip : d > c}

\* old_video_url, read by Load, goes to the archive.
ToArchive(j, c) == IF old[j] = 0 THEN {} ELSE {old[j]}

\* One transaction.  A video that is replaced and was not read before is not archived.
Commit(j) ==
  /\ step[j] = "commit"
  /\ LET c == want[j]
     IN /\ status' = [d \in Clip |-> IF d = c THEN "ready"
                                     ELSE IF d \in Later(c) THEN "dirty" ELSE status[d]]
        /\ version' = [version EXCEPT ![c] = @ + 1]
        /\ video' = [video EXCEPT ![c] = version[c] + 1]
        /\ archived' = [archived EXCEPT ![c] = @ \cup ToArchive(j, c)]
        /\ replaced' = [replaced EXCEPT ![c] = @ \cup ({video[c]} \ {0})]
        /\ upstream' = [d \in Clip |-> IF d > c THEN upstream[d] + 1 ELSE upstream[d]]
        /\ basis' = [basis EXCEPT ![c] = started[j]]
  /\ committed' = [committed EXCEPT ![j] = TRUE]
  /\ To(j, "committed")
  /\ UNCHANGED <<row, api, want, queue, seen, old, unsaved, started, faults>>

---------------------------------------------------------------------------
(* The rest of task_regenerate_clip.                                       *)

\* A database error after the commit takes the same way as a failed generation.
Updated(j) ==
  /\ step[j] = "committed"
  /\ \/ NoFault /\ Upsert(j, "running", 90) /\ To(j, "finish") /\ UNCHANGED unsaved
     \/ /\ Fault("db") /\ UNCHANGED row /\ To(j, "failing")
        /\ unsaved' = [unsaved EXCEPT ![j] = TRUE]
  /\ UNCHANGED <<clips, api, want, queue, seen, old, replaced, committed, upstream, started,
                 basis>>

Finish(j) ==
  /\ step[j] = "finish" /\ Upsert(j, "done", 100) /\ To(j, "ended")
  /\ UNCHANGED <<clips, api, want, queue, seen, old, past, faults>>

\* The row is failed, its progress stays; the exception ends the job.
Fail(j) ==
  /\ step[j] = "failing" /\ Upsert(j, "failed", row[j].progress) /\ To(j, "ended")
  /\ UNCHANGED <<clips, api, want, queue, seen, old, past, faults>>

\* job_timeout cancels the coroutine; `except Exception` does not see a cancellation.
Timeout(j) ==
  /\ j \in Busy /\ Fault("timeout") /\ To(j, "cancelled")
  /\ UNCHANGED <<clips, row, api, want, queue, seen, old, past>>

\* The worker of a job disappears: the job is still in Redis and will run again.
Mutant_CrashForgets(j) ==
  /\ j \in Busy /\ Fault("crash") /\ To(j, "queued")
  /\ UNCHANGED <<clips, row, api, want, queue, seen, old, past>>
Crash(j) ==
  /\ j \in Busy /\ Fault("crash")
  /\ queue' = <<j>> \o queue /\ To(j, "again")
  /\ committed' = [committed EXCEPT ![j] = FALSE]
  /\ unsaved' = [unsaved EXCEPT ![j] = FALSE]
  /\ UNCHANGED <<clips, row, api, want, seen, old, replaced, upstream, started, basis>>

---------------------------------------------------------------------------
Request(j) == (\E c \in Clip : Check(j, c)) \/ Enqueue(j) \/ Insert(j)

Work(j) ==
  \/ FirstRead(j) \/ FirstWrite(j) \/ Progress(j)
  \/ Load(j) \/ Generate(j) \/ Commit(j)
  \/ Updated(j) \/ Finish(j) \/ Fail(j)

Next ==
  \/ Start
  \/ \E j \in Job : Request(j) \/ Work(j) \/ Timeout(j) \/ Crash(j)

Spec == Init /\ [][Next]_vars

\* A request that was let in runs to its end, and so does a job a worker has; a worker
\* that is free takes the next one.
Fairness ==
  /\ WF_vars(Start)
  /\ \A j \in Job : WF_vars(Enqueue(j) \/ Insert(j)) /\ WF_vars(Work(j))

FairSpec == Spec /\ Fairness

---------------------------------------------------------------------------
TypeOK ==
  /\ status \in [Clip -> {"ready", "dirty", "failed"}]
  /\ version \in [Clip -> Nat] /\ video \in [Clip -> Nat]
  /\ archived \in [Clip -> SUBSET Nat]
  /\ row \in [Job -> Row]
  /\ api \in [Job -> {"free", "checked", "enqueued", "accepted", "rejected", "failed"}]
  /\ want \in [Job -> Clip]
  /\ queue \in Seq(Job) /\ step \in [Job -> Step]
  /\ seen \in [Job -> BOOLEAN] /\ old \in [Job -> Nat]
  /\ replaced \in [Clip -> SUBSET Nat]
  /\ committed \in [Job -> BOOLEAN] /\ unsaved \in [Job -> BOOLEAN]
  /\ upstream \in [Clip -> Nat] /\ started \in [Job -> Nat] /\ basis \in [Clip -> Nat]
  /\ faults \in Nat

\* A video a clip has had is the current one or in the archive, although the url that is
\* archived was read before the generation and the one that is replaced after it.
EveryVideoArchived == \A c \in Clip : replaced[c] \subseteq archived[c]

\* A clip is "ready" only if no clip before it was replaced since the generation of its
\* own video began: the dirty mark of a replaced predecessor is never overwritten by a
\* regeneration that was under way.
DirtyNotLost == \A c \in Clip : status[c] = "ready" => basis[c] = upstream[c]

\* A job that found the row the API wrote, and that no timeout cancelled, is reported done in
\* the end exactly if its last execution replaced the clip and could say so: failed
\* generations, crashed workers and repeated executions never leave another row.  A database
\* error after the commit has the clip replaced and the job reported failed.
RowTellsTruth ==
  \A j \in Job : step[j] = "ended" /\ seen[j] =>
    row[j].status = IF committed[j] /\ ~unsaved[j] THEN "done" ELSE "failed"

\* The client that polls a job sees its progress grow, the failure included (the row keeps
\* its progress), unless ARQ runs the job from the start again.
ProgressGrows ==
  [][\A j \in Job : row'[j].progress >= row[j].progress
                    \/ step[j] = "write"]_vars

\* Every enqueued job leaves the queue and the worker, after any number of crashes.
JobsLeave == \A j \in Job : step[j] = "queued" ~> step[j] \in Over

---------------------------------------------------------------------------
(* What the comments and documents say, and the code does not do.          *)

\* One active job for a clip: "POST 接口预检：有 status in ('queued','running') 的同
\* target_id 任务 → 409" (migration 006), to keep two workers off one clip.
OneJobPerClip ==
  \A j, k \in Job : j # k /\ want[j] = want[k] /\ step[j] \notin {"none"} \cup Over
                      => step[k] \in {"none"} \cup Over

\* A job that is over is done or failed, whatever ended it.
EndedJobsReported ==
  \A j \in Job : step[j] \in Over => row[j].status \in {"done", "failed"}

\* A job that was accepted can be polled to its end.
AcceptedJobSettles ==
  \A j \in Job : api[j] = "accepted" ~> row[j].status \in {"done", "failed"}
===============================================================================
