------------------------------ MODULE ClipReview ------------------------------
(***************************************************************************)
(* The Feishu conversation that produces one video clip by clip            *)
(* (api/webhooks.py).  A message of one chat is routed by webhook(): a     *)
(* score, a light command, or a background task that takes the semaphore   *)
(* _sem.  "Confirm" opens a review: a clip is generated, its preview is    *)
(* sent, and each reply continues, regenerates or cancels.  The reply that *)
(* locks the last clip finalizes the video and asks for a score.           *)
(*                                                                         *)
(* Messages may arrive at any time and in any number: people repeat        *)
(* themselves, and the platform delivers an event again when it is not     *)
(* acknowledged in time (the handler does not look at the event id).       *)
(***************************************************************************)
EXTENDS Integers, Sequences, FiniteSets

CONSTANTS
  MaxReviews,   \* bound: plans confirmed in the chat
  N,            \* clips of a plan
  Text,         \* the messages that can arrive, a subset of the glosses below
  MaxQueue,     \* bound: accepted messages whose task has not run yet
  MaxRegens,    \* bound: revision requests
  Faults,       \* the failures the environment can inject
  MaxFaults     \* bound: how many of them in one behaviour

FaultKinds == {"gs_create", "gs_update", "generate", "tail", "send", "concat",
               "drift", "score", "crash"}

ASSUME BoundsAssumption ==
  /\ MaxReviews \in Nat /\ N \in Nat \ {0}
  /\ MaxQueue \in Nat /\ MaxRegens \in Nat /\ MaxFaults \in Nat
ASSUME FaultsAssumption == Faults \subseteq FaultKinds

Review == 1..MaxReviews
Clip   == 1..N

---------------------------------------------------------------------------
(* What the parsers make of a message.  The Chinese texts are glossed:     *)
(* "continue" is 继续, "confirm" 确认, "regen" 重新生成, "cancel" 取消;      *)
(* "topic" is any creation command, "upload" a media message.              *)

\* parse_score_reply: the first number 1..10 anywhere in the text; 0 = None.
ScoreOf(t) == CASE t \in {"1", "1.continue"}         -> 1
                [] t \in {"2.regen: note", "confirm 2"} -> 2
                [] t = "3.cancel"                    -> 3
                [] t \in {"8", "score 8"}            -> 8
                [] OTHER                             -> 0

Digits    == {"1", "8"}
Confirms  == {"confirm", "confirm 2"}
Revisions == {"regen: note", "2.regen: note"}

\* parse_review_command
ActionOf(t) == CASE t \in {"1", "1.continue", "continue", "confirm"} -> "continue"
                 [] t \in Revisions \cup {"regen"}                   -> "regenerate"
                 [] t \in {"cancel", "3.cancel"}                     -> "cancel"
                 [] OTHER                                            -> "unknown"

MIN_SCORE_FOR_MEMORY == 6

---------------------------------------------------------------------------
VARIABLES
  \* _session_store[chat]: lost when the process restarts; 0 = key absent
  evaluated,    \* "evaluation" is there
  gsid,         \* generation_session_id
  pending,      \* pending_visual_clip_review
  scoreFor,     \* pending_final_score_session_id
  \* table generation_sessions: one row per confirmed plan, if its insert worked
  gs, finalScore,
  memory,       \* CreatorMemory rows written for the session
  \* review_state of a confirmed plan, and the files of its output_dir
  used,         \* plans confirmed so far
  clip,         \* enriched_clips[i]["status"]
  cur,          \* current_index + 1; 0 before the first clip is generated
  paths,        \* clip_paths
  tail,         \* prev_tail_frame
  take,         \* how often the file of a clip was generated
  \* background tasks and the semaphore
  accepted,     \* tasks added to the response, not started
  waiting,      \* tasks queued on _sem
  task, pc, rid, idx,   \* the task that holds _sem, its step, review and clip
  scoring,      \* score replies inside record_final_score
  \* what has left the system, and history the properties refer to
  shown,        \* the last preview the chat received
  frame,        \* the first frame a clip's file was generated from
  approved,     \* the take of a clip its last approval was for
  sent,         \* the final video given to send_file
  lost,         \* clips whose last revision failed to be generated
  regens, faults

session == <<evaluated, gsid, pending, scoreFor>>
db      == <<gs, finalScore, memory>>
review  == <<used, clip, cur, paths, tail, take>>
lock    == <<accepted, waiting, task, pc, rid, idx>>
history == <<shown, frame, approved, sent, lost, regens, faults>>
vars    == <<session, db, review, lock, scoring, history>>

NoShot == [clip |-> 0, take |-> 0]
Shot   == [clip : 0..N, take : Nat]
NoTask == [kind |-> "none", text |-> "", seen |-> <<0, NoShot>>]
Task   == [kind : {"none", "chain", "confirm", "review"}, text : Text \cup {""},
           seen : (0..MaxReviews) \X Shot]
Scoring == [sid : Review, score : 0..10]
NoVideo == [parts |-> <<>>, joined |-> TRUE]

GsStatus   == {"none", "draft", "character_confirmed", "storyboard_confirmed",
               "in_progress", "completed", "cancelled", "failed"}
ClipStatus == {"pending", "dirty", "locked", "cancelled"}
Step       == {"free", "start", "prepare", "generate", "finalize", "close", "report"}

Init ==
  /\ evaluated = FALSE /\ gsid = 0 /\ pending = 0 /\ scoreFor = 0
  /\ gs = [r \in Review |-> "none"]
  /\ finalScore = [r \in Review |-> 0] /\ memory = [r \in Review |-> 0]
  /\ used = 0
  /\ clip = [r \in Review |-> [i \in Clip |-> "pending"]]
  /\ cur = [r \in Review |-> 0]
  /\ paths = [r \in Review |-> <<>>]
  /\ tail = [r \in Review |-> NoShot]
  /\ take = [r \in Review |-> [i \in Clip |-> 0]]
  /\ accepted = <<>> /\ waiting = <<>>
  /\ task = NoTask /\ pc = "free" /\ rid = 0 /\ idx = 0
  /\ scoring = <<>>
  /\ shown = <<0, NoShot>>
  /\ frame = [r \in Review |-> [i \in Clip |-> NoShot]]
  /\ approved = [r \in Review |-> [i \in Clip |-> 0]]
  /\ sent = [r \in Review |-> NoVideo]
  /\ lost = [r \in Review |-> {}]
  /\ regens = 0 /\ faults = 0

---------------------------------------------------------------------------
(* The environment's failures, and the semaphore.                          *)

Fault(f) == f \in Faults /\ faults < MaxFaults /\ faults' = faults + 1
NoFault  == UNCHANGED faults

DropAt(s, k) == SubSeq(s, 1, k - 1) \o SubSeq(s, k + 1, Len(s))

\* _sem.locked(): held, or handed over to a waiter that has not run yet.
Locked == pc # "free" \/ waiting # <<>>

\* What webhook() tests before it takes a message that needs the semaphore.
Mutant_NeverBusy == FALSE
Busy == Locked

\* Leaving `async with _sem` hands the semaphore to the first waiter.
Mutant_ReleaseLeaks ==
  /\ UNCHANGED <<accepted, waiting, task, pc>> /\ rid' = 0 /\ idx' = 0
Release ==
  /\ IF waiting = <<>>
     THEN task' = NoTask /\ pc' = "free" /\ UNCHANGED waiting
     ELSE task' = Head(waiting) /\ pc' = "start" /\ waiting' = Tail(waiting)
  /\ rid' = 0 /\ idx' = 0 /\ UNCHANGED accepted

Continue(step) == pc' = step /\ UNCHANGED <<accepted, waiting, task>>

\* session.get("generation_session_id") or review.get("generation_session_id")
SessionOf(r) == IF gsid # 0 THEN gsid ELSE IF gs[r] # "none" THEN r ELSE 0

SetStatus(g, status) == gs' = IF g = 0 THEN gs ELSE [gs EXCEPT ![g] = status]

---------------------------------------------------------------------------
(* webhook(): one message, routed in this order.                           *)

Mutant_ConfirmBeforeReview(t) ==
  IF t \in Confirms THEN "confirm"
  ELSE IF scoreFor # 0 /\ ScoreOf(t) # 0 THEN "score"
  ELSE IF pending # 0 THEN "review" ELSE "chain"

Destination(t) ==
  CASE t = "upload"                        -> "chain"
    [] t # "upload" /\ scoreFor # 0 /\ ScoreOf(t) # 0 -> "score"
    [] t \in Digits /\ (scoreFor = 0 \/ ScoreOf(t) = 0) -> "topic"
    [] OTHER -> IF pending # 0 THEN "review"
                ELSE IF t \in Confirms THEN "confirm" ELSE "chain"

\* A message that needs the semaphore is refused while it is locked (nothing changes);
\* otherwise its task is added to the response.  Bounds: MaxQueue, MaxRegens.
Receive(t) ==
  /\ Destination(t) \in {"review", "confirm", "chain"}
  /\ ~Busy /\ Len(accepted) < MaxQueue
  /\ t \in Revisions => regens < MaxRegens
  /\ regens' = IF t \in Revisions THEN regens + 1 ELSE regens
  /\ accepted' = Append(accepted, [kind |-> Destination(t), text |-> t, seen |-> shown])
  /\ UNCHANGED <<session, db, review, waiting, task, pc, rid, idx, scoring,
                 shown, frame, approved, sent, lost, faults>>

\* A digit that is no score picks a topic: _handle_topic_select runs without the
\* semaphore and, when there is a list to choose from, saves a new evaluation.
SelectTopic(t) ==
  /\ Destination(t) = "topic"
  /\ evaluated' \in {evaluated, TRUE}
  /\ UNCHANGED <<gsid, pending, scoreFor, db, review, lock, scoring, history>>

\* record_final_score commits the score, or fails to (score 0: nothing more is written), ...
ScoreReply(t) ==
  /\ Destination(t) = "score" /\ Len(scoring) < MaxQueue
  /\ \/ /\ NoFault
        /\ finalScore' = [finalScore EXCEPT ![scoreFor] = ScoreOf(t)]
        /\ scoring' = Append(scoring, [sid |-> scoreFor, score |-> ScoreOf(t)])
     \/ /\ Fault("score") /\ UNCHANGED finalScore
        /\ scoring' = Append(scoring, [sid |-> scoreFor, score |-> 0])
  /\ UNCHANGED <<session, gs, memory, review, lock,
                 shown, frame, approved, sent, lost, regens>>

\* session.pop("pending_final_score_session_id")
Mutant_PromptStays == UNCHANGED scoreFor
DropPrompt == scoreFor' = 0

\* ... proposes a memory from 6 up in a second transaction, and the handler then drops
\* whatever session id is pending.  A failure of the memory is only reported; when that
\* report cannot be sent either, the handler ends before it drops the id.
Remember(reply) ==
  memory' = IF reply.score >= MIN_SCORE_FOR_MEMORY
            THEN [memory EXCEPT ![reply.sid] = @ + 1] ELSE memory

FinishScore(k) ==
  /\ \/ NoFault /\ Remember(scoring[k]) /\ DropPrompt
     \/ Fault("score") /\ UNCHANGED memory /\ DropPrompt
     \/ Fault("send") /\ Remember(scoring[k]) /\ UNCHANGED scoreFor
  /\ scoring' = DropAt(scoring, k)
  /\ UNCHANGED <<evaluated, gsid, pending, gs, finalScore, review, lock,
                 shown, frame, approved, sent, lost, regens>>

\* A background task starts: it takes the semaphore or queues on it.
StartTask(k) ==
  /\ accepted' = DropAt(accepted, k)
  /\ IF Locked
     THEN waiting' = Append(waiting, accepted[k]) /\ UNCHANGED <<task, pc>>
     ELSE task' = accepted[k] /\ pc' = "start" /\ UNCHANGED waiting
  /\ UNCHANGED <<session, db, review, rid, idx, scoring, history>>

\* guarded_chain, _handle_feishu_video: the scripts are written and evaluated, or not.
RunChain ==
  /\ pc = "start" /\ task.kind = "chain"
  /\ evaluated' \in {evaluated, TRUE}
  /\ Release
  /\ UNCHANGED <<gsid, pending, scoreFor, db, review, scoring, history>>

---------------------------------------------------------------------------
(* _handle_confirm                                                         *)

\* No evaluation, or no plan of that number.  Bound: MaxReviews.
ConfirmRefused ==
  /\ pc = "start" /\ task.kind = "confirm"
  /\ ~evaluated \/ task.text = "confirm 2" \/ used = MaxReviews
  /\ Release
  /\ UNCHANGED <<session, db, review, scoring, history>>

\* A row of generation_sessions is created, best effort: when that fails the chat keeps
\* the id of the previous one.
ConfirmPlan ==
  /\ pc = "start" /\ task.kind = "confirm" /\ evaluated /\ used < MaxReviews
  /\ used' = used + 1
  /\ \/ NoFault /\ gs' = [gs EXCEPT ![used + 1] = "draft"] /\ gsid' = used + 1
     \/ Fault("gs_create") /\ UNCHANGED <<gs, gsid>>
  /\ Continue("prepare") /\ rid' = used + 1 /\ UNCHANGED idx
  /\ UNCHANGED <<evaluated, pending, scoreFor, finalScore, memory, clip, cur, paths,
                 tail, take, scoring, shown, frame, approved, sent, lost, regens>>

\* Character and storyboard are locked, best effort, prompts are prepared.
ConfirmPrepared ==
  /\ pc = "prepare"
  /\ \/ NoFault /\ SetStatus(IF gs[rid] = "none" THEN 0 ELSE rid, "in_progress")
     \/ /\ gs[rid] # "none" /\ Fault("gs_update")
        /\ \E s \in {"draft", "character_confirmed", "storyboard_confirmed"} :
             SetStatus(rid, s)
  /\ Continue("generate") /\ idx' = 1 /\ UNCHANGED rid
  /\ UNCHANGED <<session, finalScore, memory, review, scoring,
                 shown, frame, approved, sent, lost, regens>>

\* A message to the chat cannot be sent: the task ends, the session row stays open.
ConfirmAborted ==
  /\ pc = "prepare" /\ Fault("send") /\ Release
  /\ UNCHANGED <<session, db, review, scoring, shown, frame, approved, sent, lost, regens>>

---------------------------------------------------------------------------
(* _start_or_resume_visual_clip_review                                     *)

Mutant_Prepend(s, x) == <<x>> \o s
AppendNew(s, x) == IF \E k \in DOMAIN s : s[k] = x THEN s ELSE Append(s, x)

\* The clip's file is written, the review becomes the pending one and the preview is
\* sent.  The message may fail, after the review was saved.
GenerateClip ==
  /\ pc = "generate"
  /\ LET new == [clip |-> idx, take |-> take[rid][idx] + 1]
     IN /\ take' = [take EXCEPT ![rid][idx] = new.take]
        /\ \/ NoFault /\ shown' = <<rid, new>>
           \/ Fault("send") /\ UNCHANGED shown
  /\ frame' = [frame EXCEPT ![rid][idx] = tail[rid]]
  /\ paths' = [paths EXCEPT ![rid] = AppendNew(@, idx)]
  /\ cur' = [cur EXCEPT ![rid] = idx]
  /\ pending' = rid
  /\ lost' = [lost EXCEPT ![rid] = @ \ {idx}]
  /\ Release
  /\ UNCHANGED <<evaluated, gsid, scoreFor, db, used, clip, tail, scoring,
                 approved, sent, regens>>

LoseRevision == lost' = IF clip[rid][idx] = "dirty"
                        THEN [lost EXCEPT ![rid] = @ \cup {idx}] ELSE lost

\* generate_clip raises: nothing of the review is saved.
GenerateFailed ==
  /\ pc = "generate" /\ Fault("generate")
  /\ LoseRevision /\ Release
  /\ UNCHANGED <<session, db, review, scoring, shown, frame, approved, sent, regens>>

\* The clip's file is written, but its warning cannot be sent: nothing else is saved.
WarningFailed ==
  /\ pc = "generate" /\ Fault("send")
  /\ take' = [take EXCEPT ![rid][idx] = @ + 1]
  /\ frame' = [frame EXCEPT ![rid][idx] = tail[rid]]
  /\ LoseRevision /\ Release
  /\ UNCHANGED <<session, db, used, clip, cur, paths, tail, scoring,
                 shown, approved, sent, regens>>

---------------------------------------------------------------------------
(* _handle_visual_clip_review: the review is read under the semaphore, the *)
(* reply was routed before.                                                *)

Reviewing(action) ==
  /\ pc = "start" /\ task.kind = "review" /\ pending # 0
  /\ ActionOf(task.text) = action

\* No review any more, no command, or a revision without a note: only an answer.
ReviewIgnored ==
  /\ pc = "start" /\ task.kind = "review"
  /\ pending = 0 \/ ActionOf(task.text) = "unknown" \/ task.text = "regen"
  /\ Release
  /\ UNCHANGED <<session, db, review, scoring, history>>

Mutant_LockIsFinal(r, i, status) ==
  clip' = IF clip[r][i] = "locked" THEN clip ELSE [clip EXCEPT ![r][i] = status]
SetClip(r, i, status) == clip' = [clip EXCEPT ![r][i] = status]

ReviewCancel ==
  /\ Reviewing("cancel")
  /\ SetClip(pending, cur[pending], "cancelled")
  /\ \/ NoFault /\ SetStatus(SessionOf(pending), "cancelled")
     \/ Fault("gs_update") /\ UNCHANGED gs
  /\ pending' = 0
  /\ Release
  /\ UNCHANGED <<evaluated, gsid, scoreFor, finalScore, memory, used, cur, paths, tail,
                 take, scoring, shown, frame, approved, sent, lost, regens>>

\* [p for p in clip_paths if p != current_path]; a path is in the list at most once.
Mutant_PathKept(s, x) == s
Without(s, x) ==
  IF \E k \in DOMAIN s : s[k] = x
  THEN DropAt(s, CHOOSE k \in DOMAIN s : s[k] = x) ELSE s

ReviewRegenerate ==
  /\ Reviewing("regenerate") /\ task.text # "regen"
  /\ LET i == cur[pending]
     IN /\ SetClip(pending, i, "dirty")
        /\ paths' = [paths EXCEPT ![pending] = Without(@, i)]
        /\ idx' = i
  /\ rid' = pending /\ Continue("generate")
  /\ UNCHANGED <<session, db, used, cur, tail, take, scoring, history>>

Mutant_LockPendingOnly(r, i) ==
  /\ SetClip(r, i, IF clip[r][i] = "pending" THEN "locked" ELSE clip[r][i])
  /\ approved' = [approved EXCEPT ![r][i] = take[r][i]]
LockClip(r, i) ==
  /\ SetClip(r, i, "locked")
  /\ approved' = [approved EXCEPT ![r][i] = take[r][i]]

\* current_index + 1 >= total_clips
Mutant_IsLastEarly(r) == cur[r] + 1 >= N
Mutant_IsLastLate(r) == cur[r] > N
IsLast(r) == cur[r] >= N

\* extract_last_frame of the current clip's file
Mutant_TailOfFirstTake(r, i) == [clip |-> i, take |-> 1]
TailOf(r, i) == [clip |-> i, take |-> take[r][i]]

\* Not the last clip: its last frame becomes the first frame of the next one.
ReviewContinue ==
  /\ Reviewing("continue") /\ ~IsLast(pending)
  /\ LET i == cur[pending]
     IN /\ LockClip(pending, i)
        /\ \/ /\ NoFault
              /\ tail' = [tail EXCEPT ![pending] = TailOf(pending, i)]
           \/ Fault("tail") /\ tail' = [tail EXCEPT ![pending] = NoShot]
        /\ idx' = i + 1
  /\ rid' = pending /\ Continue("generate")
  /\ UNCHANGED <<session, db, used, cur, paths, take, scoring,
                 shown, frame, sent, lost, regens>>

ReviewLast ==
  /\ Reviewing("continue") /\ IsLast(pending)
  /\ LockClip(pending, cur[pending])
  /\ rid' = pending /\ UNCHANGED idx /\ Continue("finalize")
  /\ UNCHANGED <<session, db, used, cur, paths, tail, take, scoring,
                 shown, frame, sent, lost, regens, faults>>

---------------------------------------------------------------------------
(* _finalize_after_visual_clips                                            *)

\* Audio and video drift apart and the rescue fails: the user is told, the review stays.
Mutant_DriftCompletes ==
  /\ pc = "finalize" /\ paths[rid] # <<>> /\ Fault("drift") /\ Release
  /\ SetStatus(SessionOf(rid), "completed")
  /\ UNCHANGED <<session, finalScore, memory, review, scoring,
                 shown, frame, approved, sent, lost, regens>>
FinalizeDrift ==
  /\ pc = "finalize" /\ paths[rid] # <<>> /\ Fault("drift") /\ Release
  /\ UNCHANGED <<session, db, review, scoring, shown, frame, approved, sent, lost, regens>>

\* An exception: no clip to fall back to, or a message that cannot be sent before the
\* video ("finalize"), after it ("close"), or after the review was dropped ("report").
FinalizeFailed ==
  /\ pc \in {"finalize", "close", "report"}
  /\ \/ /\ IF pc = "finalize" /\ paths[rid] = <<>> THEN NoFault ELSE Fault("send")
        /\ SetStatus(SessionOf(rid), "failed")
     \/ pc = "finalize" /\ paths[rid] = <<>> /\ Fault("gs_update") /\ UNCHANGED gs
  /\ Release
  /\ UNCHANGED <<session, finalScore, memory, review, scoring,
                 shown, frame, approved, sent, lost, regens>>

\* The clips in the list are joined, or the first one stands for all when that fails.
FinalizeSend ==
  /\ pc = "finalize" /\ paths[rid] # <<>>
  /\ LET part(k) == [clip |-> paths[rid][k], take |-> take[rid][paths[rid][k]]]
     IN \/ /\ NoFault
           /\ sent' = [sent EXCEPT ![rid] =
                [parts |-> [k \in DOMAIN paths[rid] |-> part(k)], joined |-> TRUE]]
        \/ /\ Len(paths[rid]) > 1 /\ Fault("concat")
           /\ sent' = [sent EXCEPT ![rid] = [parts |-> <<part(1)>>, joined |-> FALSE]]
  /\ Continue("close") /\ UNCHANGED <<rid, idx>>
  /\ UNCHANGED <<session, db, review, scoring, shown, frame, approved, lost, regens>>

FinalizeClose ==
  /\ pc = "close"
  /\ pending' = 0
  /\ Continue("report") /\ UNCHANGED <<rid, idx>>
  /\ UNCHANGED <<evaluated, gsid, scoreFor, db, review, scoring, history>>

\* The session row is completed, the event of that recorded and the score asked for, best
\* effort.
Mutant_PromptAnyway ==
  /\ pc = "report"
  /\ LET g == SessionOf(rid)
     IN /\ \/ NoFault /\ SetStatus(g, "completed")
           \/ Fault("gs_update") /\ UNCHANGED gs
        /\ scoreFor' = IF g = 0 THEN scoreFor ELSE g
  /\ Release
  /\ UNCHANGED <<evaluated, gsid, pending, finalScore, memory, review, scoring,
                 shown, frame, approved, sent, lost, regens>>
FinalizeReport ==
  /\ pc = "report"
  /\ LET g == SessionOf(rid)
     IN \/ /\ NoFault /\ SetStatus(g, "completed")
           /\ scoreFor' = IF g = 0 THEN scoreFor ELSE g
        \/ /\ g # 0 /\ Fault("gs_update") /\ UNCHANGED scoreFor
           /\ UNCHANGED gs \/ SetStatus(g, "completed")
  /\ Release
  /\ UNCHANGED <<evaluated, gsid, pending, finalScore, memory, review, scoring,
                 shown, frame, approved, sent, lost, regens>>

\* The process restarts: the session store and every task are gone, rows and files stay.
Restart ==
  /\ Fault("crash")
  /\ evaluated' = FALSE /\ gsid' = 0 /\ pending' = 0 /\ scoreFor' = 0
  /\ accepted' = <<>> /\ waiting' = <<>> /\ scoring' = <<>>
  /\ task' = NoTask /\ pc' = "free" /\ rid' = 0 /\ idx' = 0
  /\ UNCHANGED <<db, review, shown, frame, approved, sent, lost, regens>>

---------------------------------------------------------------------------
Holder ==
  \/ RunChain
  \/ ConfirmRefused \/ ConfirmPlan \/ ConfirmPrepared \/ ConfirmAborted
  \/ GenerateClip \/ GenerateFailed \/ WarningFailed
  \/ ReviewIgnored \/ ReviewCancel \/ ReviewRegenerate \/ ReviewContinue \/ ReviewLast
  \/ FinalizeDrift \/ FinalizeFailed \/ FinalizeSend \/ FinalizeClose \/ FinalizeReport

Next ==
  \/ \E t \in Text : Receive(t) \/ SelectTopic(t) \/ ScoreReply(t)
  \/ \E k \in DOMAIN scoring : FinishScore(k)
  \/ \E k \in DOMAIN accepted : StartTask(k)
  \/ Holder
  \/ Restart

Spec == Init /\ [][Next]_vars

\* The event loop runs every started coroutine: each awaited call returns or raises.
Fairness ==
  /\ WF_vars(\E k \in DOMAIN accepted : StartTask(k))
  /\ WF_vars(Holder)

FairSpec == Spec /\ Fairness

---------------------------------------------------------------------------
(* Properties that hold for any interleaving and any failure.              *)

SessionType ==
  /\ evaluated \in BOOLEAN
  /\ gsid \in 0..MaxReviews /\ pending \in 0..MaxReviews /\ scoreFor \in 0..MaxReviews
DbType ==
  /\ gs \in [Review -> GsStatus]
  /\ finalScore \in [Review -> 0..10] /\ memory \in [Review -> Nat]
ReviewType ==
  /\ used \in 0..MaxReviews
  /\ clip \in [Review -> [Clip -> ClipStatus]]
  /\ cur \in [Review -> 0..N]
  /\ paths \in [Review -> Seq(Clip)]
  /\ tail \in [Review -> Shot]
  /\ take \in [Review -> [Clip -> Nat]]
LockType ==
  /\ accepted \in Seq(Task) /\ waiting \in Seq(Task) /\ task \in Task
  /\ pc \in Step /\ rid \in 0..MaxReviews /\ idx \in 0..N
ScoringType == scoring \in Seq(Scoring)
HistoryType ==
  /\ shown \in (0..MaxReviews) \X Shot
  /\ frame \in [Review -> [Clip -> Shot]]
  /\ approved \in [Review -> [Clip -> Nat]]
  /\ sent \in [Review -> [parts : Seq(Shot), joined : BOOLEAN]]
  /\ lost \in [Review -> SUBSET Clip]
  /\ regens \in Nat /\ faults \in Nat

\* A pending review has a current clip, and a step that works on a review has one.
WorkType ==
  /\ pending # 0 => cur[pending] # 0
  /\ pc \in {"prepare", "generate", "finalize", "close", "report"} => rid # 0
  /\ pc = "generate" => idx # 0

\* The types of the variables.
TypeOK ==
  /\ SessionType /\ DbType /\ ReviewType /\ LockType /\ ScoringType /\ HistoryType
  /\ WorkType

Increasing(s) == \A j, k \in DOMAIN s : j < k => s[j] < s[k]

\* The clips of a plan are reviewed in order: those before the current one are locked,
\* those after it were not touched, and the list of files to join (clip_paths, edited by
\* a revision and by every generation) has no duplicate and never leaves that order.
ReviewedInOrder ==
  \A r \in Review :
    /\ \A i \in Clip : /\ i < cur[r] => clip[r][i] = "locked"
                       /\ i > cur[r] => clip[r][i] = "pending"
    /\ Increasing(paths[r])
    /\ \A k \in DOMAIN paths[r] : paths[r][k] <= cur[r]

\* The file of a locked clip is the one its approval was for: no regeneration, retry or
\* failed generation overwrites it while the status says "locked".
LockedTakeKept ==
  \A r \in Review, i \in Clip : clip[r][i] = "locked" => approved[r][i] = take[r][i]

\* Whatever leaves through send_file is made of locked clips, in the order of the plan,
\* each at the take that was approved.
SentIsApproved ==
  [][\A r \in Review : sent'[r] # sent[r] =>
       LET parts == sent'[r].parts
       IN /\ \A j, k \in DOMAIN parts : j < k => parts[j].clip < parts[k].clip
          /\ \A k \in DOMAIN parts :
               LET i == parts[k].clip
               IN clip[r][i] = "locked" /\ parts[k].take = approved[r][i]]_vars

\* A video joined from its clips lacks exactly those whose last revision could not be
\* generated: _handle_visual_clip_review takes the file off clip_paths before it
\* regenerates, and a later "continue" goes on without it.
CompleteUnlessLost ==
  [][\A r \in Review : sent'[r] # sent[r] /\ sent'[r].joined =>
       Clip \ {sent'[r].parts[k].clip : k \in DOMAIN sent'[r].parts} = lost[r]]_vars

\* The review implements the approval protocol.  It is open while it is the chat's
\* pending review or the task that holds the semaphore works on it.
Phase(r) == IF pending = r \/ rid = r THEN "open" ELSE IF r <= used THEN "closed" ELSE "idle"

Protocol == INSTANCE ApprovalProtocol WITH
  phase     <- [r \in Review |-> Phase(r)],
  locked    <- [r \in Review |-> {i \in Clip : clip[r][i] = "locked"}],
  delivered <- [r \in Review |-> sent[r].parts # <<>>]
ImplementsProtocol == Protocol!Spec

\* The semaphore never stays taken: every path through a handler, with its early returns
\* and its exceptions, releases it, and the tasks queued on it run out.
SemaphoreDrains == []<>(~Locked)

---------------------------------------------------------------------------
(* Properties of a chat that waits for the preview before it replies (one  *)
(* accepted task at a time).  They do not hold of two replies in a row.    *)

\* What the reply locks is the preview its author had seen: the approval recorded as the
\* user's (_remember_visual_review_action) was given to this take of this clip.
ApprovedWasShown ==
  [][\A r \in Review, i \in Clip : clip[r][i] # "locked" /\ clip'[r][i] = "locked" =>
       task.seen = <<r, [clip |-> i, take |-> take[r][i]]>>]_vars

\* The row of a plan is completed only when its own video was sent, although the row is
\* looked up through the session store and not through the review.
CompletedWasSent == \A r \in Review : gs[r] = "completed" => sent[r].parts # <<>>

\* propose_memory_from_session writes CreatorMemory of completed sessions only, ...
MemoryOnlyFromCompleted == \A r \in Review : memory[r] > 0 => gs[r] = "completed"

\* ... and one row for each: a second score is not taken for the same session, as long as
\* the answer to the first can be sent.
OneMemoryPerSession == \A r \in Review : memory[r] <= 1

\* The first frame of a clip is the last frame of the approved take of the clip before it
\* (or none after a failure to extract it), whichever takes were rejected in between.
ChainFrame ==
  \A r \in Review, i \in Clip : take[r][i] > 0 =>
    \/ frame[r][i] = NoShot /\ (i = 1 \/ faults > 0)
    \/ i > 1 /\ frame[r][i] = [clip |-> i - 1, take |-> approved[r][i - 1]]

\* No plan is left behind: as long as nothing failed, a session row that is not at its
\* end belongs to the pending review or to the running task.
OpenSessionReachable ==
  \A r \in Review : faults = 0 /\ gs[r] \in {"draft", "in_progress"} =>
    pending = r \/ rid = r

---------------------------------------------------------------------------
(* What the documentation and comments say, and the code does not do.      *)

\* While a clip waits for its review, a reply the review understands reaches the review.
RepliesReachReview ==
  \A t \in Text : pending # 0 /\ scoreFor = 0 /\ ActionOf(t) # "unknown"
                    => Destination(t) = "review"
===============================================================================
