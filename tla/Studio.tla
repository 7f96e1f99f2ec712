-------------------------------- MODULE Studio --------------------------------
(***************************************************************************)
(* The studio around the making of a video: the commands of a chat, the    *)
(* chains that write, check and evaluate a script, the lists of topics,    *)
(* the batches, and the jobs a worker runs without anybody's confirmation  *)
(* (api/webhooks.py, layers/L1_trending, layers/L2_creative/chains.py,     *)
(* core/scheduler.py).  What follows a confirmation is in ClipMaking,      *)
(* ClipReview and Finishing: here a confirmation only takes a plan.        *)
(*                                                                         *)
(* The API and the worker are two processes, each with its own memory of   *)
(* the chats.  The styles, the skill and the character chosen last belong  *)
(* to the API process and not to a chat.  Commands run as background tasks *)
(* that interleave at every await; the chains and the confirmations take   *)
(* one semaphore, a topic picked by its number does not.                   *)
(***************************************************************************)
EXTENDS LongTermMemory, SequencesExt, Functions

CONSTANTS
  Chats, Topics,
  Styles, HotStyle,  \* style templates, and hot_news_commentary
  Skills,            \* creative skills: for each the style it prefers, one there is
  Sources,           \* the chains people start
  Counts,            \* numbers people type after "批量" and "定时"
  VariantLists,      \* themes the model gives for variants of a video
  StartHot,          \* what trending_topics may hold when the behaviour starts
  StartPlans,        \* plans under review when it starts; with NoPlan a chat has none
  MaxJobs,           \* bound: jobs enqueued
  Faults, MaxFaults  \* the failures the environment injects, and a bound on them

None == "none"
NoPlan == [theme |-> None, style |-> None, source |-> None]

ASSUME StudioAssumption ==
  /\ HotStyle \in Styles /\ StartHot \subseteq SUBSET Topics /\ MaxJobs \in Nat /\ MaxFaults \in Nat
  /\ IsFiniteSet(Topics)
  /\ StartPlans \subseteq [theme : Topics, style : Styles, source : Sources] \cup {NoPlan}
  /\ Skills \in [DOMAIN Skills -> Styles] /\ Counts \subseteq Int
  /\ VariantLists \subseteq Seq(Topics) \ {<<>>}
  /\ Faults \subseteq {"chain", "confirm", "timeout", "crash"}
  /\ Sources \subseteq {"vertical", "creative", "reference", "baogai", "rewrite",
                        "rewrite_text", "rewrite_vlm"}

Proc == {"api", "worker"}

\* A handler of the API, by the number of its command, or a job of the worker.
Slot == {"api"} \X Command \cup {"worker"} \X (1..MaxJobs)
ProcOf(t) == t[1]
JobSlot(j) == <<"worker", j>>
Free == <<"api", 0>>

VARIABLES
  now,       \* _current_style, _current_skill, _current_character of the API
  session,   \* _session_store of each process
  hot,       \* the topics the trending_topics rows give
  sem,       \* who holds the API's semaphore
  task,      \* handlers and jobs
  queue,     \* ARQ: jobs that wait
  row,       \* status of a job's row in the table jobs
  runtime,   \* Redis: daily_batch_enabled, daily_batch_size, default_chat_id
  sent,      \* history: the evaluation a process sent to a chat last
  beside,    \* history: a chain that a number started ran beside another one in the chat
  made,      \* history: the theme of the plan a job confirmed
  faults

studio == <<now, session, hot, sem, task, queue, row, runtime, sent, beside, made, faults>>
vars   == <<commands, mem, studio>>

NoTask == [kind |-> None, step |-> None, chat |-> None, theme |-> None, style |-> None,
           source |-> None, items |-> <<>>, count |-> 0]

NoSession == [style |-> None, skill |-> None, recs |-> <<>>, trends |-> <<>>,
              plan |-> NoPlan, reviewing |-> FALSE]

\* What was sent to a chat, was confirmed in it and is under review there.
UnderReview(plan) ==
  IF plan = NoPlan THEN NoSession
  ELSE [NoSession EXCEPT !.plan = plan, !.style = plan.style, !.reviewing = TRUE]

Defaults == [style |-> HotStyle, skill |-> None, character |-> FALSE]

Init ==
  /\ MemoryInit
  /\ now = Defaults
  /\ \E start \in [Chats -> StartPlans] :
       LET before(p, c) == IF p = "api" THEN start[c] ELSE NoPlan
       IN /\ session = [p \in Proc |-> [c \in Chats |-> UnderReview(before(p, c))]]
          /\ sent = [p \in Proc |-> [c \in Chats |-> before(p, c)]]
  /\ hot \in StartHot /\ sem = Free
  /\ task = [t \in Slot |-> NoTask]
  /\ queue = <<>> /\ row = [j \in 1..MaxJobs |-> None]
  /\ runtime = [enabled |-> None, size |-> 3, chat |-> None]
  /\ beside = [c \in Chats |-> FALSE]
  /\ made = [j \in 1..MaxJobs |-> None]
  /\ faults = 0

Fault(f) == f \in Faults /\ faults < MaxFaults /\ faults' = faults + 1

---------------------------------------------------------------------------
(* Commands that are answered at once                                      *)

\* Every text makes its chat the one the daily batch goes to.
Text(k, c) == Sends(k) /\ runtime' = [runtime EXCEPT !.chat = c]

PickSkill(k, c, s) ==
  /\ Text(k, c)
  /\ now' = [now EXCEPT !.skill = s, !.style = Skills[s]]
  /\ session' = [session EXCEPT !["api"][c].skill = s, !["api"][c].style = Skills[s]]
  /\ UNCHANGED <<mem, hot, sem, task, queue, row, sent, beside, made, faults>>

\* The style of the process, whichever the session of the chat says.
PickStyle(k, c, y) ==
  /\ Text(k, c) /\ now' = [now EXCEPT !.style = y]
  /\ UNCHANGED <<mem, session, hot, sem, task, queue, row, sent, beside, made, faults>>

PickCharacter(k, c) ==
  /\ Text(k, c) /\ now' = [now EXCEPT !.character = TRUE]
  /\ UNCHANGED <<mem, session, hot, sem, task, queue, row, sent, beside, made, faults>>

\* What the platforms list just now, and what of it gets into the table: one that fails
\* gives nothing.
Listed == {{}, Topics}
Fetched(more) == hot' = hot \cup more

\* Up to n different topics in some order.
Lists(S, n) ==
  {l \in SeqOf(S, IF n < Cardinality(S) THEN n ELSE Cardinality(S)) : IsInjective(l)}

\* A list replaces the one before it; nothing is kept when there is nothing to show.
Trending(k, c, more) ==
  /\ Text(k, c) /\ Fetched(more)
  /\ \E l \in Lists(hot', Cardinality(hot')) :
       /\ Len(l) = Cardinality(hot')
       /\ session' = IF l = <<>> THEN session ELSE [session EXCEPT !["api"][c].trends = l]
  /\ UNCHANGED <<mem, now, sem, task, queue, row, sent, beside, made, faults>>

\* analyze_and_recommend: at most n topics, none when the model's answer cannot be read.
Recommended(n) == IF hot = {} THEN {<<>>} ELSE Lists(hot, n)

Recommend(k, c) ==
  /\ Text(k, c)
  /\ \E l \in Recommended(5) \ {<<>>} : session' = [session EXCEPT !["api"][c].recs = l]
  /\ UNCHANGED <<mem, now, hot, sem, task, queue, row, sent, beside, made, faults>>

---------------------------------------------------------------------------
(* Handlers                                                                *)

Set(t, r) == task' = [task EXCEPT ![t] = r]
Go(t, s)  == task' = [task EXCEPT ![t].step = s]

Working(p, c) ==
  {t \in Slot : ProcOf(t) = p /\ task[t].chat = c
                /\ task[t].step \in {"watch", "write", "review", "evaluate", "save"}}

\* A chain starts in a chat where others are at work.
Joins(c, byNumber) ==
  beside' = [beside EXCEPT ![c] = @ \/ \E t \in Working("api", c) :
                                          byNumber \/ task[t].source = "number"]

\* A text that starts a chain is turned away while the semaphore is held; under a review it
\* is a reply to it.
Chain(k, c, source, theme, style) ==
  /\ sem = Free /\ ~session["api"][c].reviewing
  /\ Text(k, c)
  /\ Set(<<"api", k>>, [NoTask EXCEPT !.kind = "chain", !.step = "waiting", !.chat = c,
                          !.theme = theme, !.style = style, !.source = source])
  /\ UNCHANGED <<mem, now, session, hot, sem, queue, row, sent, beside, made, faults>>

\* A video that is sent starts one under a review as well.
Upload(k, c, theme) ==
  /\ sem = Free
  /\ Sends(k)
  /\ Set(<<"api", k>>, [NoTask EXCEPT !.kind = "chain", !.step = "waiting", !.chat = c,
                          !.theme = theme, !.source = "upload"])
  /\ UNCHANGED <<mem, now, session, hot, sem, queue, row, runtime, sent, beside, made, faults>>

Confirm(k, c) ==
  /\ sem = Free /\ ~session["api"][c].reviewing
  /\ Text(k, c)
  /\ Set(<<"api", k>>, [NoTask EXCEPT !.kind = "confirm", !.step = "waiting", !.chat = c])
  /\ UNCHANGED <<mem, now, session, hot, sem, queue, row, sent, beside, made, faults>>

\* Under a review a text is a reply to it, whatever it says; only the API gets replies.
Reply(k, c) ==
  /\ sem = Free /\ session["api"][c].reviewing
  /\ Text(k, c)
  /\ Set(<<"api", k>>, [NoTask EXCEPT !.kind = "reply", !.step = "waiting", !.chat = c])
  /\ UNCHANGED <<mem, now, session, hot, sem, queue, row, sent, beside, made, faults>>

\* The recommendations come first, however old they are.
Picked(s, n) ==
  IF s.recs # <<>> /\ n <= Len(s.recs) THEN s.recs[n]
  ELSE IF n <= Len(s.trends) THEN s.trends[n] ELSE None

\* A number starts a chain that takes no semaphore, review or not.
Number(k, c, n) ==
  /\ Picked(session["api"][c], n) # None
  /\ Text(k, c)
  /\ Set(<<"api", k>>, [NoTask EXCEPT !.kind = "chain", !.step = "write", !.chat = c,
                          !.theme = Picked(session["api"][c], n), !.style = HotStyle,
                          !.source = "number"])
  /\ Joins(c, TRUE)
  /\ UNCHANGED <<mem, now, session, hot, sem, queue, row, sent, made, faults>>

\* "批量 n" and "爆了 <id>": topics, or variants of a video, that become jobs.
\* mutant: only the lower end is clamped
ClampLow(n) == IF n < 1 THEN 1 ELSE n
Clamp(n) == IF n < 1 THEN 1 ELSE IF n > 10 THEN 10 ELSE n

Batch(k, c, n) ==
  /\ Text(k, c)
  /\ Set(<<"api", k>>, [NoTask EXCEPT !.kind = "batch", !.step = "analyse", !.chat = c,
                          !.style = HotStyle, !.count = Clamp(n)])
  /\ UNCHANGED <<mem, now, session, hot, sem, queue, row, sent, beside, made, faults>>

\* generate_variants: of what the model gives, up to five themes (all of them in one style
\* here); none for a video there is not, or when the answer has no usable one.
Variants(l) == SubSeq(l, 1, IF Len(l) < 5 THEN Len(l) ELSE 5)

BlowUp(k, c, v) ==
  /\ Text(k, c)
  /\ \/ \E l \in VariantLists :
          /\ v \in Videos
          /\ Set(<<"api", k>>, [NoTask EXCEPT !.kind = "variants", !.step = "enqueue",
                                  !.chat = c, !.style = HotStyle, !.items = Variants(l)])
     \/ UNCHANGED task
  /\ UNCHANGED <<mem, now, session, hot, sem, queue, row, sent, beside, made, faults>>

\* "定时 n", "定时关" and "触发定时" write Redis key by key.
Settings(word) ==
  CASE word = "on"      -> <<"enabled", "size", "chat">>
    [] word = "off"     -> <<"disabled">>
    [] word = "trigger" -> <<"chat", "daily">>

Schedule(k, c, word, n) ==
  /\ Text(k, c)
  /\ Set(<<"api", k>>, [NoTask EXCEPT !.kind = "schedule", !.step = "set", !.chat = c,
                          !.items = Settings(word), !.count = Clamp(IF n = 0 THEN 3 ELSE n)])
  /\ UNCHANGED <<mem, now, session, hot, sem, queue, row, sent, beside, made, faults>>

---------------------------------------------------------------------------
(* The queue                                                               *)

Used == {j \in 1..MaxJobs : task[JobSlot(j)].kind # None}

\* Task t gives the job `new` to ARQ and goes on with its other items.
Enqueue(t, new) ==
  LET j == Cardinality(Used) + 1
      rest == [task[t] EXCEPT !.items = Tail(@),
                 !.step = IF Len(task[t].items) = 1 THEN "ended" ELSE @]
  IN IF j > MaxJobs  \* bound: no more jobs are followed
     THEN Set(t, rest) /\ UNCHANGED queue
     ELSE /\ task' = [task EXCEPT ![t] = rest, ![JobSlot(j)] = new]
          /\ queue' = Append(queue, j)

VideoJob(c, theme, style) ==
  [NoTask EXCEPT !.kind = "job", !.step = "queued", !.chat = c, !.theme = theme,
                 !.style = style, !.source = "vertical"]

DailyJob == [NoTask EXCEPT !.kind = "daily", !.step = "queued"]

Enqueues(t) ==
  /\ task[t].step = "enqueue"
  /\ Enqueue(t, VideoJob(task[t].chat, Head(task[t].items), task[t].style))
  /\ UNCHANGED <<commands, mem, now, session, hot, sem, row, runtime, sent, beside, made, faults>>

\* Topics for a batch; when there are none the platforms are asked once more.
Analyse(t) ==
  /\ task[t].step = "analyse"
  /\ \E l \in Recommended(task[t].count), more \in Listed :
       \/ /\ l # <<>> /\ UNCHANGED hot
          /\ task' = [task EXCEPT ![t].items = l, ![t].step = "enqueue"]
       \/ l = <<>> /\ Fetched(more) /\ Go(t, "again")
  /\ UNCHANGED <<commands, mem, now, session, sem, queue, row, runtime, sent, beside, made, faults>>

AnalyseAgain(t) ==
  /\ task[t].step = "again"
  /\ \E l \in Recommended(task[t].count) :
       task' = [task EXCEPT ![t].items = l,
                            ![t].step = IF l = <<>> THEN "ended" ELSE "enqueue"]
  /\ UNCHANGED <<commands, mem, now, session, hot, sem, queue, row, runtime, sent, beside, made, faults>>

SetNext(t) ==
  /\ task[t].step = "set"
  /\ LET what == Head(task[t].items)
     IN IF what = "daily"
        THEN Enqueue(t, DailyJob) /\ UNCHANGED runtime
        ELSE /\ task' = [task EXCEPT ![t].items = Tail(@),
                           ![t].step = IF Len(task[t].items) = 1 THEN "ended" ELSE @]
             /\ UNCHANGED queue
             /\ runtime' = CASE what = "enabled"  -> [runtime EXCEPT !.enabled = "1"]
                             [] what = "disabled" -> [runtime EXCEPT !.enabled = "0"]
                             [] what = "size"     -> [runtime EXCEPT !.size = task[t].count]
                             [] what = "chat"     -> [runtime EXCEPT !.chat = task[t].chat]
  /\ UNCHANGED <<commands, mem, now, session, hot, sem, row, sent, beside, made, faults>>

---------------------------------------------------------------------------
(* A chain, of the API or of a job.  It writes a script, stops when the    *)
(* guard refuses it, has it reviewed and evaluated, sends the evaluation   *)
(* and keeps script and evaluation for the confirmation.                   *)

\* By what starts a chain: is a video looked at first, and are the scripts sent to a second
\* model that picks three of them?
Creative  == [watch |-> FALSE, review |-> TRUE]
Vertical  == [watch |-> FALSE, review |-> TRUE]    \* also for a number, and in a job
Reference == [watch |-> FALSE, review |-> FALSE]
Baogai    == [watch |-> FALSE, review |-> FALSE]
Rewrite   == [watch |-> FALSE, review |-> FALSE]   \* also "改编" of a text
Video     == [watch |-> TRUE,  review |-> FALSE]   \* "改编" of a link or a file
VideoSent == [watch |-> TRUE,  review |-> FALSE]

ChainOf ==
  [creative |-> Creative, vertical |-> Vertical, number |-> Vertical, reference |-> Reference,
   baogai |-> Baogai, rewrite |-> Rewrite, rewrite_text |-> Rewrite,
   rewrite_vlm |-> Video, upload |-> VideoSent]

Earlier(t) == {u \in Slot : ProcOf(u) = "api" /\ u[2] < t[2] /\ task[u].step = "waiting"}

\* The style of a chat is that of its session; a creative skill overrides a vertical's own.
StyleFor(t) ==
  LET s == session["api"][task[t].chat]
      mine == IF s.style = None THEN now.style ELSE s.style
      skill == IF s.skill = None THEN now.skill ELSE s.skill
  IN IF task[t].source = "vertical" /\ skill = None THEN task[t].style ELSE mine

\* mutant: nobody waits for the semaphore
AtOnce(t) == TRUE
\* async with _sem: one at a time, in the order of arrival.
Admitted(t) == sem = Free /\ Earlier(t) = {}

Enter(t) ==
  /\ task[t].step = "waiting" /\ Admitted(t)
  /\ sem' = t
  /\ IF task[t].kind \in {"confirm", "reply"}
     THEN Go(t, task[t].kind) /\ UNCHANGED beside
     ELSE /\ Joins(task[t].chat, FALSE)
          /\ task' = [task EXCEPT ![t].style = StyleFor(t),
                        ![t].step = IF ChainOf[task[t].source].watch THEN "watch" ELSE "write"]
  /\ UNCHANGED <<commands, mem, now, session, hot, queue, row, runtime, sent, made, faults>>

\* The end of a chain: a job goes on to its confirmation, a refused script included.
Leave(t) ==
  /\ Go(t, IF ProcOf(t) = "api" THEN "ended" ELSE "confirm")
  /\ sem' = IF sem = t THEN Free ELSE sem

\* A video is loaded and looked at; one sent to the chat is rewritten in the process's style.
Watch(t) ==
  /\ task[t].step = "watch"
  /\ task' = [task EXCEPT ![t].step = "write",
                          ![t].style = IF task[t].source = "upload" THEN now.style ELSE @]
  /\ UNCHANGED <<commands, mem, now, session, hot, sem, queue, row, runtime, sent, beside, made, faults>>

\* lobster_... and content_guard: `fine` is what the guard finds.
Write(t, fine) ==
  /\ task[t].step = "write"
  /\ IF fine
     THEN /\ Go(t, IF ChainOf[task[t].source].review THEN "review" ELSE "evaluate")
          /\ UNCHANGED sem
     ELSE Leave(t)
  /\ UNCHANGED <<commands, mem, now, session, hot, queue, row, runtime, sent, beside, made, faults>>

PlanOf(t) == [theme |-> task[t].theme, style |-> task[t].style, source |-> task[t].source]

\* The call of the second model blocks the event loop; the message does not.
Review(t) ==
  /\ task[t].step = "review" /\ Go(t, "evaluate")
  /\ UNCHANGED <<commands, mem, now, session, hot, sem, queue, row, runtime, sent, beside, made, faults>>

\* lobster_evaluate, with its one retry, and the message.
Evaluate(t) ==
  /\ task[t].step = "evaluate"
  /\ sent' = [sent EXCEPT ![ProcOf(t)][task[t].chat] = PlanOf(t)]
  /\ Go(t, "save")
  /\ UNCHANGED <<commands, mem, now, session, hot, sem, queue, row, runtime, beside, made, faults>>

\* With a vertical its own style is saved, else that of the process at this moment.
SavedStyle(t) ==
  CASE task[t].source \in {"vertical", "number"} -> task[t].style
    [] task[t].source \notin {"vertical", "number"} -> now.style

Save(t) ==
  /\ task[t].step = "save"
  /\ LET c == task[t].chat
     IN session' = [session EXCEPT ![ProcOf(t)][c].plan = PlanOf(t),
                                   ![ProcOf(t)][c].style = SavedStyle(t)]
  /\ Leave(t)
  /\ UNCHANGED <<commands, mem, now, hot, queue, row, runtime, sent, beside, made, faults>>

\* A model, a parse or a message fails before anything is kept: the API answers, a job fails.
Raise(t) ==
  /\ task[t].step \in {"watch", "write", "review", "evaluate"} /\ Fault("chain")
  /\ Go(t, IF ProcOf(t) = "api" THEN "ended" ELSE "failing")
  /\ sem' = IF sem = t THEN Free ELSE sem
  /\ UNCHANGED <<commands, mem, now, session, hot, queue, row, runtime, sent, beside, made>>

\* _handle_confirm takes the plan the session has; without one it answers and returns.  It
\* ends with a preview that waits for a reply, or fails.
TakePlan(t) ==
  /\ task[t].step = "confirm"
  /\ LET p == ProcOf(t)
         c == task[t].chat
         plan == session[p][c].plan
     IN /\ session' = IF plan = NoPlan THEN session
                      ELSE [session EXCEPT ![p][c].reviewing = TRUE]
        /\ made' = IF p = "worker" THEN [made EXCEPT ![t[2]] = plan.theme] ELSE made
        /\ Go(t, IF p = "api" THEN "ended" ELSE "done")
  /\ sem' = IF sem = t THEN Free ELSE sem
  /\ UNCHANGED <<commands, mem, now, hot, queue, row, runtime, sent, beside, faults>>

ConfirmFails(t) ==
  /\ task[t].step = "confirm" /\ Fault("confirm")
  /\ Go(t, IF ProcOf(t) = "api" THEN "ended" ELSE "failing")
  /\ sem' = IF sem = t THEN Free ELSE sem
  /\ UNCHANGED <<commands, mem, now, session, hot, queue, row, runtime, sent, beside, made>>

\* _handle_visual_clip_review: a reply that cannot be read, or that an earlier one left without
\* a review, is answered; another one leaves its rule before it does anything.
TakeReply(t) ==
  /\ task[t].step = "reply"
  /\ \/ /\ session["api"][task[t].chat].reviewing
        /\ RememberReview(t[2]) /\ Go(t, "act") /\ UNCHANGED sem
     \/ /\ UNCHANGED mem /\ Go(t, "ended")
        /\ sem' = IF sem = t THEN Free ELSE sem
  /\ UNCHANGED <<commands, now, session, hot, queue, row, runtime, sent, beside, made, faults>>

\* What the reply does is in ClipReview: the review goes on, also after a failure, or is over.
ActOnReply(t) ==
  /\ task[t].step = "act"
  /\ session' \in {session, [session EXCEPT !["api"][task[t].chat].reviewing = FALSE]}
  /\ Go(t, "ended")
  /\ sem' = IF sem = t THEN Free ELSE sem
  /\ UNCHANGED <<commands, mem, now, hot, queue, row, runtime, sent, beside, made, faults>>

---------------------------------------------------------------------------
(* The worker: one job at a time.                                          *)

Running == {j \in 1..MaxJobs : task[JobSlot(j)].step \notin {None, "queued", "retry", "ended"}}

\* The oldest one, or one behind jobs whose worker disappeared, which ARQ passes over for a
\* while.
TakeJob ==
  /\ Running = {}
  /\ \E i \in DOMAIN queue :
     LET j == queue[i]
         t == JobSlot(j)
     IN /\ \A k \in 1..(i - 1) : task[JobSlot(queue[k])].step = "retry"
        /\ queue' = RemoveAt(queue, i)
        /\ Go(t, IF task[t].kind = "daily" THEN "chat" ELSE "write")
        /\ row' = IF task[t].kind = "daily" THEN row ELSE [row EXCEPT ![j] = "running"]
  /\ UNCHANGED <<commands, mem, now, session, hot, sem, runtime, sent, beside, made, faults>>

Report(j) ==
  LET s == task[JobSlot(j)].step
  IN /\ s \in {"done", "failing"}
     /\ row' = [row EXCEPT ![j] = IF s = "done" THEN "done" ELSE "failed"]
     /\ Go(JobSlot(j), "ended")
     /\ UNCHANGED <<commands, mem, now, session, hot, sem, queue, runtime, sent, beside, made, faults>>

\* task_daily_batch reads the settings one by one: the chat, the size, the switch.
ReadChat(t) ==
  /\ task[t].step = "chat"
  /\ task' = [task EXCEPT ![t].chat = runtime.chat, ![t].step = "size"]
  /\ UNCHANGED <<commands, mem, now, session, hot, sem, queue, row, runtime, sent, beside, made, faults>>

ReadSize(t) ==
  /\ task[t].step = "size"
  /\ task' = [task EXCEPT ![t].count = Clamp(runtime.size), ![t].step = "switch"]
  /\ UNCHANGED <<commands, mem, now, session, hot, sem, queue, row, runtime, sent, beside, made, faults>>

ReadSwitch(t) ==
  /\ task[t].step = "switch"
  /\ Go(t, IF runtime.enabled = "0" \/ task[t].chat = None THEN "ended" ELSE "fetch")
  /\ UNCHANGED <<commands, mem, now, session, hot, sem, queue, row, runtime, sent, beside, made, faults>>

\* Its jobs are put off by ten seconds each: they keep their order.
DailyTopics(t) ==
  /\ task[t].step = "fetch"
  /\ \E more \in Listed :
       /\ Fetched(more)
       /\ \E l \in IF hot' = {} THEN {<<>>} ELSE Lists(hot', task[t].count) :
            task' = [task EXCEPT ![t].items = l, ![t].style = HotStyle,
                                 ![t].step = IF l = <<>> THEN "ended" ELSE "enqueue"]
  /\ UNCHANGED <<commands, mem, now, session, sem, queue, row, runtime, sent, beside, made, faults>>

\* task_fetch_trending, which the API enqueues when it starts; how often is not followed.
FetchTrending ==
  /\ Running = {}
  /\ \E more \in Listed : Fetched(more)
  /\ UNCHANGED <<commands, mem, now, session, sem, task, queue, row, runtime, sent, beside, made, faults>>

\* job_timeout cancels a job, and nothing reports it.
Timeout(j) ==
  /\ j \in Running /\ Fault("timeout") /\ Go(JobSlot(j), "ended")
  /\ UNCHANGED <<commands, mem, now, session, hot, sem, queue, row, runtime, sent, beside, made>>

\* mutant: the job a lost worker had is gone
CrashLoses ==
  /\ Running # {} /\ Fault("crash")
  /\ task' = [t \in Slot |-> IF ProcOf(t) = "worker" /\ t[2] \in Running
                             THEN [task[t] EXCEPT !.step = "retry"] ELSE task[t]]
  /\ session' = [session EXCEPT !["worker"] = [c \in Chats |-> NoSession]]
  /\ sent' = [sent EXCEPT !["worker"] = [c \in Chats |-> NoPlan]]
  /\ UNCHANGED <<commands, mem, now, hot, sem, queue, row, runtime, beside, made>>

\* The worker restarts: its memory of the chats is gone, the job it had runs again.
WorkerCrash ==
  /\ Running # {} /\ Fault("crash")
  /\ task' = [t \in Slot |-> IF ProcOf(t) = "worker" /\ t[2] \in Running
                             THEN [task[t] EXCEPT !.step = "retry", !.items = <<>>]
                             ELSE task[t]]
  /\ queue' = SetToSeq(Running) \o queue
  /\ session' = [session EXCEPT !["worker"] = [c \in Chats |-> NoSession]]
  /\ sent' = [sent EXCEPT !["worker"] = [c \in Chats |-> NoPlan]]
  /\ UNCHANGED <<commands, mem, now, hot, sem, row, runtime, beside, made>>

\* The API restarts: the handlers and what its variables held are gone.
ApiCrash ==
  /\ Fault("crash")
  /\ task' = [t \in Slot |-> IF ProcOf(t) = "api" /\ task[t].step # None
                             THEN [task[t] EXCEPT !.step = "ended"] ELSE task[t]]
  /\ ask' = [k \in Command |-> IF ask[k].step = "none" THEN ask[k]
                               ELSE [ask[k] EXCEPT !.step = "ended", !.items = {}]]
  /\ sem' = Free /\ now' = Defaults
  /\ session' = [session EXCEPT !["api"] = [c \in Chats |-> NoSession]]
  /\ sent' = [sent EXCEPT !["api"] = [c \in Chats |-> NoPlan]]
  /\ UNCHANGED <<commands, rows, viral, pending, memory, shown, named, hot, queue, row,
                 runtime, beside, made>>

---------------------------------------------------------------------------
StudioCommand ==
  \E k \in Command, c \in Chats :
    \/ \E s \in DOMAIN Skills : PickSkill(k, c, s)
    \/ \E y \in Styles : PickStyle(k, c, y)
    \/ PickCharacter(k, c)
    \/ \E more \in Listed : Trending(k, c, more)
    \/ Recommend(k, c)
    \/ \E src \in Sources, th \in Topics :
         \E y \in IF src = "vertical" THEN Styles ELSE {HotStyle} : Chain(k, c, src, th, y)
    \/ \E th \in Topics : Upload(k, c, th)
    \/ Confirm(k, c) \/ Reply(k, c)
    \/ \E n \in 1..Cardinality(Topics) : Number(k, c, n)
    \/ \E n \in Counts : Batch(k, c, n)
    \/ \E v \in Videos \cup {None} : BlowUp(k, c, v)
    \/ \E n \in Counts : Schedule(k, c, "on", n)
    \/ \E word \in {"off", "trigger"} : Schedule(k, c, word, 0)

\* What the reply of a person leads to; no job gets one.
Answer(t) == TakeReply(t) \/ ActOnReply(t)

\* What a handler or a job does next.
Step(t) ==
  \/ Enqueues(t) \/ Analyse(t) \/ AnalyseAgain(t) \/ SetNext(t)
  \/ Enter(t) \/ Watch(t) \/ (\E fine \in BOOLEAN : Write(t, fine))
  \/ Review(t) \/ Evaluate(t) \/ Save(t) \/ Raise(t)
  \/ TakePlan(t) \/ ConfirmFails(t)
  \/ ReadChat(t) \/ ReadSize(t) \/ ReadSwitch(t) \/ DailyTopics(t)

WorkerStep == TakeJob \/ \E j \in 1..MaxJobs : Step(JobSlot(j)) \/ Report(j)

Next ==
  \/ StudioCommand
  \/ MemoryCommand /\ UNCHANGED studio
  \/ MemoryStep /\ UNCHANGED studio
  \/ \E k \in Command : Step(<<"api", k>>) \/ Answer(<<"api", k>>)
  \/ WorkerStep \/ FetchTrending
  \/ \E j \in 1..MaxJobs : Timeout(j)
  \/ WorkerCrash \/ ApiCrash

Spec == Init /\ [][Next]_vars

\* A worker that is up takes the jobs there are and goes on with the one it has.
FairSpec == Spec /\ WF_vars(WorkerStep)

---------------------------------------------------------------------------
TypeOK ==
  /\ MemoryTypeOK
  /\ now \in [style : Styles, skill : DOMAIN Skills \cup {None}, character : BOOLEAN]
  /\ \A p \in Proc, c \in Chats :
       /\ session[p][c].style \in Styles \cup {None}
       /\ session[p][c].skill \in DOMAIN Skills \cup {None}
       /\ ToSet(session[p][c].recs) \cup ToSet(session[p][c].trends) \subseteq Topics
       /\ session[p][c].plan.theme \in Topics \cup {None}
  /\ hot \subseteq Topics /\ sem \in Slot \cup {Free}
  /\ \A t \in Slot : task[t].count \in 0..10 /\ task[t].chat \in Chats \cup {None}
  /\ queue \in Seq(1..MaxJobs) /\ row \in [1..MaxJobs -> {None, "running", "done", "failed"}]
  /\ runtime \in [enabled : {None, "0", "1"}, size : 1..10, chat : Chats \cup {None}]
  /\ beside \in [Chats -> BOOLEAN] /\ faults \in 0..MaxFaults

\* What a confirmation in a chat would take is the evaluation the chat was sent last,
\* whatever chains were started, refused or failed in it: the semaphore keeps a chain from
\* saving its plan after another one's was shown.  Only a topic picked by its number beside
\* a chain breaks this.
PlanWasShownLast ==
  \A c \in Chats :
    ~beside[c] /\ (\A t \in Working("api", c) : task[t].step # "save")
      => session["api"][c].plan = sent["api"][c]

\* Every rule in the memory comes from an act of a person, and never more than one from a reply:
\* it was a proposal that a person was shown and then named, whatever proposals and approvals
\* ran at the same time (the same one may get in twice), or it was made of the one reply to a
\* review whose handling wrote it, whatever replies waited for the semaphore meanwhile.
RulesComeFromPeople ==
  \A i \in DOMAIN memory :
    \/ memory[i] \in shown \cap named
    \/ \E k \in Command :
         /\ memory[i] = ReviewRule(k) /\ task[<<"api", k>>].kind = "reply"
         /\ \A j \in DOMAIN memory : memory[j] = ReviewRule(k) => j = i

\* Every job that waits is taken and ends, after crashes of the worker too.
JobsEnd == \A j \in 1..MaxJobs : task[JobSlot(j)].step = "queued" ~> task[JobSlot(j)].step = "ended"

---------------------------------------------------------------------------
(* What the code says of itself, and does not do.                          *)

\* A job makes the video of its own theme: "Generate one complete video automatically"
\* (core/scheduler.py), "generate a video end-to-end" of `theme` (api/webhooks.py).  When
\* its script is refused, the worker confirms the plan an earlier job left for the chat.
JobConfirmsItsTheme ==
  \A j \in 1..MaxJobs : made[j] \in {None, task[JobSlot(j)].theme}
===============================================================================
