----------------------------- MODULE StudioProofs -----------------------------
(* That the variables of the studio keep their types, that the rules of the memory come     *)
(* from people, and that the semaphore keeps the plan of a chat the one it was shown.       *)
EXTENDS Studio, FiniteSetTheorems, SequenceTheorems, TLAPS

---------------------------------------------------------------------------
(* The types, in full: TypeOK says of a handler and of a session what a reader wants to    *)
(* know of them, an induction needs all their fields.                                      *)

AskStep == {"none", "propose", "show", "read", "append", "write", "ended"}
Ask == [step : AskStep, id : Id \cup {<<0, 0>>}, items : SUBSET Id]

MemoryType ==
  /\ commands \in 0..MaxCommands
  /\ rows \in [Videos -> Nat] /\ viral \in [Videos -> BOOLEAN]
  /\ pending \subseteq Id /\ memory \in Seq(Rule)
  /\ ask \in [Command -> Ask]
  /\ shown \subseteq Id /\ named \subseteq Id \cup {<<0, 0>>}

Word == {"enabled", "size", "chat", "disabled", "daily"}
Kind == {None, "chain", "confirm", "reply", "batch", "variants", "schedule", "job", "daily"}
At   == {None, "waiting", "watch", "write", "review", "evaluate", "save", "confirm", "done",
         "failing", "ended", "queued", "retry", "analyse", "again", "enqueue", "set",
         "chat", "size", "switch", "fetch", "reply", "act"}
Start == {None, "vertical", "creative", "reference", "baogai", "rewrite", "rewrite_text",
          "rewrite_vlm", "upload", "number"}
Work == [kind : Kind, step : At, chat : Chats \cup {None}, theme : Topics \cup {None},
         style : Styles \cup {None}, source : Start, items : Seq(Topics \cup Word),
         count : 0..10]

\* What is left to enqueue or to set, and who waits for the semaphore.
Ready(r) ==
  /\ r.step = "enqueue" => r.items \in Seq(Topics) \ {<<>>}
  /\ r.step = "set" => r.items \in Seq(Word) \ {<<>>} /\ r.count \in 1..10
  /\ r.step = "waiting" => r.chat \in Chats

Plan == [theme : Topics \cup {None}, style : Styles \cup {None}, source : Start]
Chat == [style : Styles \cup {None}, skill : DOMAIN Skills \cup {None}, recs : Seq(Topics),
         trends : Seq(Topics), plan : Plan, reviewing : BOOLEAN]

Now == [style : Styles, skill : DOMAIN Skills \cup {None}, character : BOOLEAN]
Setting == [enabled : {None, "0", "1"}, size : 1..10, chat : Chats \cup {None}]

TaskType == task \in [Slot -> Work] /\ \A t \in Slot : Ready(task[t])
SessionType == session \in [Proc -> [Chats -> Chat]]
SentType == sent \in [Proc -> [Chats -> Plan]]
QueueType ==
  /\ queue \in Seq(1..MaxJobs)
  /\ row \in [1..MaxJobs -> {None, "running", "done", "failed"}]
OtherType ==
  /\ now \in Now /\ hot \subseteq Topics /\ sem \in Slot \cup {Free} /\ runtime \in Setting
  /\ beside \in [Chats -> BOOLEAN] /\ faults \in 0..MaxFaults

TypeInv ==
  MemoryType /\ TaskType /\ SessionType /\ SentType /\ QueueType /\ OtherType

---------------------------------------------------------------------------
(* The memory.                                                             *)

\* A handler that approves has an id that a person sent and was shown, or one there is not.
AskNamed ==
  \A k \in Command : ask[k].step \in {"read", "append", "write"} =>
    ask[k].id \in named /\ ask[k].id \in shown \cup {<<0, 0>>}

\* The proposals that got into the memory, each shown to a person before and named by one.
ProposalsNamed == \A i \in DOMAIN memory : memory[i] \in Id => memory[i] \in shown \cap named

MemInv == MemoryType /\ AskNamed /\ ProposalsNamed

\* The commands of the studio, its handlers and its worker leave the memory alone, but for a
\* reply to a review.
LEMMA MemoryApart ==
  ASSUME [Next]_vars
  PROVE  \/ MemoryCommand
         \/ MemoryStep /\ UNCHANGED commands
         \/ ApiCrash
         \/ \E k \in Command : TakeReply(<<"api", k>>)
         \/ UNCHANGED mem /\ (UNCHANGED commands \/ \E k \in Command : Sends(k))
<1>1. CASE StudioCommand
  <2>1. PICK k \in Command, c \in Chats :
          \/ \E s \in DOMAIN Skills : PickSkill(k, c, s)
          \/ \E y \in Styles : PickStyle(k, c, y)
          \/ PickCharacter(k, c)
          \/ \E more \in Listed : Trending(k, c, more)
          \/ Recommend(k, c)
          \/ \E src \in Sources, th \in Topics :
               \E y \in IF src = "vertical" THEN Styles ELSE {HotStyle} : Chain(k, c, src, th, y)
          \/ \E th \in Topics : Upload(k, c, th)
          \/ Confirm(k, c) \/ Reply(k, c)
          \/ \E n \in 1..Cardinality(Topics) : Number(k, c, n)
          \/ \E n \in Counts : Batch(k, c, n)
          \/ \E v \in Videos \cup {None} : BlowUp(k, c, v)
          \/ \E n \in Counts : Schedule(k, c, "on", n)
          \/ \E word \in {"off", "trigger"} : Schedule(k, c, word, 0)
    BY <1>1 DEF StudioCommand
  <2>2. UNCHANGED mem /\ Sends(k)
    BY <2>1 DEF PickSkill, PickStyle, PickCharacter, Trending, Recommend, Chain, Upload, Confirm, Reply,
                Number, Batch, BlowUp, Schedule, Text
  <2> QED
    BY <2>2
<1>2. ASSUME NEW t, Step(t) PROVE UNCHANGED mem /\ UNCHANGED commands
  BY <1>2 DEF Step, Enqueues, Analyse, AnalyseAgain, SetNext, Enter, Watch, Write, Review,
              Evaluate, Save, Raise, TakePlan, ConfirmFails, ReadChat, ReadSize, ReadSwitch,
              DailyTopics
<1>3. CASE WorkerStep
  BY <1>2, <1>3 DEF WorkerStep, TakeJob, Report, mem
<1>4. CASE MemoryStep
  BY <1>4 DEF MemoryStep, Propose, Show, Read, AppendRule, WriteBack
<1>5. CASE \/ \E k \in Command : ActOnReply(<<"api", k>>)
           \/ FetchTrending
           \/ \E j \in 1..MaxJobs : Timeout(j)
           \/ WorkerCrash
           \/ UNCHANGED vars
  BY <1>5 DEF ActOnReply, FetchTrending, Timeout, WorkerCrash, vars
<1> QED
  BY <1>1, <1>2, <1>3, <1>4, <1>5 DEF Next, Answer

LEMMA MemInit == Init => MemInv
<1> SUFFICES ASSUME Init PROVE MemInv
  OBVIOUS
<1>1. MemoryInit
  BY DEF Init
<1>2. \A v \in StartRows : v \in Nat
  BY MemoryAssumption
<1>3. NoAsk \in Ask /\ NoAsk.step = "none"
  BY DEF NoAsk, Ask, AskStep
<1>4. MemoryType
  <2>1. rows \in [Videos -> Nat]
    BY <1>1, <1>2 DEF MemoryInit
  <2>2. viral \in [Videos -> BOOLEAN]
    BY <1>1, Zenon DEF MemoryInit
  <2>3. ask \in [Command -> Ask]
    BY <1>1, <1>3 DEF MemoryInit
  <2>4. commands \in 0..MaxCommands /\ memory \in Seq(Rule)
    BY <1>1, MemoryAssumption DEF MemoryInit
  <2> QED
    BY <1>1, <2>1, <2>2, <2>3, <2>4 DEF MemoryInit, MemoryType
<1>5. AskNamed /\ ProposalsNamed
  BY <1>1, <1>3 DEF MemoryInit, AskNamed, ProposalsNamed
<1> QED
  BY <1>4, <1>5 DEF MemInv

\* A handler goes on: its record stays one, with the id it has.
LEMMA AskMoves ==
  ASSUME ask \in [Command -> Ask], NEW k \in Command, NEW s \in AskStep,
         NEW items \in SUBSET Id, To(k, s, items)
  PROVE  /\ ask' \in [Command -> Ask]
         /\ ask'[k].step = s /\ ask'[k].id = ask[k].id /\ ask'[k].items = items
         /\ \A j \in Command : j # k => ask'[j] = ask[j]
<1> DEFINE one == [ask EXCEPT ![k].step = s]
<1>1. ask[k] \in Ask
  OBVIOUS
<1>2. one \in [Command -> Ask] /\ one[k] = [ask[k] EXCEPT !.step = s]
      /\ \A j \in Command : j # k => one[j] = ask[j]
  BY <1>1 DEF Ask
<1>3. one[k].step = s /\ one[k].id = ask[k].id /\ one[k] \in Ask
  BY <1>1, <1>2 DEF Ask
<1>4. ask' = [one EXCEPT ![k].items = items]
  BY DEF To
<1> HIDE DEF one
<1>5. ask'[k] = [one[k] EXCEPT !.items = items] /\ \A j \in Command : j # k => ask'[j] = one[j]
  BY <1>2, <1>4
<1>6. ask'[k] \in Ask /\ ask'[k].step = s /\ ask'[k].id = one[k].id /\ ask'[k].items = items
  BY <1>3, <1>5 DEF Ask
<1>7. ask' \in [Command -> Ask]
  BY <1>2, <1>4, <1>3, <1>6 DEF Ask
<1> QED
  BY <1>2, <1>3, <1>5, <1>6, <1>7

\* What was shown and named stays so.
LEMMA NamedGrow ==
  ASSUME AskNamed, shown \subseteq shown', named \subseteq named', NEW k \in Command,
         \A j \in Command : j # k => ask'[j] = ask[j],
         ask'[k].step \in {"read", "append", "write"} =>
           ask'[k].id \in named' /\ ask'[k].id \in shown' \cup {<<0, 0>>}
  PROVE  AskNamed'
BY DEF AskNamed

LEMMA RulesGrow ==
  ASSUME ProposalsNamed, UNCHANGED memory, shown \subseteq shown', named \subseteq named'
  PROVE  ProposalsNamed'
BY DEF ProposalsNamed

\* A command is sent: its number is one of those counted.
LEMMA SentNumber ==
  ASSUME MemoryType, NEW k \in Command, Sends(k)
  PROVE  commands' \in 0..MaxCommands
BY MemoryAssumption DEF MemoryType, Sends, Command

LEMMA FiguresType ==
  ASSUME MemoryType, NEW k \in Command, NEW p \in Payloads, Figures(k, p)
  PROVE  rows' \in [Videos -> Nat] /\ viral' \in [Videos -> BOOLEAN]
<1>1. rows \in [Videos -> Nat] /\ viral \in [Videos -> BOOLEAN]
  BY DEF MemoryType
<1>2. CASE UNCHANGED <<rows, viral>>
  BY <1>1, <1>2
<1>3. CASE /\ p.video \in Videos
           /\ rows' = [rows EXCEPT ![p.video] = @ + 1]
           /\ viral' = [viral EXCEPT ![p.video] = @ \/ Viral(p)]
  <2>1. rows' \in [Videos -> Nat]
    BY <1>1, <1>3
  <2>2. (viral[p.video] \/ Viral(p)) \in BOOLEAN
    BY Zenon
  <2>3. viral' \in [Videos -> BOOLEAN]
    BY <1>1, <1>3, <2>2, Zenon
  <2> QED
    BY <2>1, <2>3
<1> QED
  BY <1>2, <1>3 DEF Figures

\* An approved id is one that was shown: there is no proposal without a place.
LEMMA IdIsProposal == <<0, 0>> \notin Id
BY DEF Id

\* A reply to a review leaves its rule, or nothing.
LEMMA TakeReplyMemory ==
  ASSUME NEW k \in Command, TakeReply(<<"api", k>>)
  PROVE  /\ UNCHANGED <<commands, rows, viral, pending, ask, shown, named>>
         /\ UNCHANGED memory \/ memory' = Append(memory, ReviewRule(k))
BY DEF TakeReply, RememberReview, append_approved_memory, mem

LEMMA MemStep ==
  ASSUME MemInv, [Next]_vars
  PROVE  MemInv'
<1>t. /\ MemoryType /\ AskNamed /\ ProposalsNamed /\ ask \in [Command -> Ask]
      /\ pending \subseteq Id /\ memory \in Seq(Rule) /\ commands \in 0..MaxCommands
      /\ shown \subseteq Id /\ named \subseteq Id \cup {<<0, 0>>}
  BY DEF MemInv, MemoryType
<1>1. ASSUME NEW k \in Command, NEW p \in Payloads, Figures(k, p) PROVE MemInv'
  <2>1. UNCHANGED <<pending, memory, ask, shown, named>> /\ commands' \in 0..MaxCommands
    BY <1>t, <1>1, SentNumber DEF Figures
  <2>2. rows' \in [Videos -> Nat] /\ viral' \in [Videos -> BOOLEAN]
    BY <1>t, <1>1, FiguresType
  <2> QED
    BY <1>t, <2>1, <2>2 DEF MemInv, MemoryType, AskNamed, ProposalsNamed
<1>2. ASSUME NEW k \in Command, NEW r \in Replies, Dream(k, r) PROVE MemInv'
  <2>1. UNCHANGED <<rows, viral, pending, memory, shown, named>> /\ commands' \in 0..MaxCommands
    BY <1>t, <1>2, SentNumber DEF Dream
  <2>2. Proposed(k, r) \subseteq Id
    <3>1. \A i \in DOMAIN r : i \in Nat /\ i >= 1
      BY MemoryAssumption, LenProperties
    <3> QED
      BY <3>1 DEF Proposed, Id
  <2>3. PICK s \in {"ended", "propose"}, items \in SUBSET Id : To(k, s, items)
    BY <1>2, <2>2 DEF Dream
  <2>4. ask' \in [Command -> Ask] /\ ask'[k].step = s /\ \A j \in Command : j # k => ask'[j] = ask[j]
    BY <1>t, <2>3, AskMoves DEF AskStep
  <2>5. AskNamed'
    BY <1>t, <2>1, <2>4, NamedGrow
  <2>6. MemoryType' /\ ProposalsNamed'
    BY <1>t, <2>1, <2>4 DEF MemoryType, ProposalsNamed
  <2> QED
    BY <2>5, <2>6 DEF MemInv
<1>3. ASSUME NEW k \in Command, NEW id \in shown \cup {<<0, 0>>}, Approve(k, id) PROVE MemInv'
  <2>1. UNCHANGED <<rows, viral, pending, memory, shown>> /\ commands' \in 0..MaxCommands
        /\ named' = named \cup {id}
    BY <1>t, <1>3, SentNumber DEF Approve
  <2>2. [step |-> "read", id |-> id, items |-> {}] \in Ask
    BY <1>t DEF Ask, AskStep
  <2>3. ask' \in [Command -> Ask] /\ ask'[k].id = id /\ \A j \in Command : j # k => ask'[j] = ask[j]
    BY <1>t, <1>3, <2>2 DEF Approve
  <2>4. AskNamed'
    BY <1>t, <2>1, <2>3, NamedGrow
  <2>5. MemoryType' /\ ProposalsNamed'
    BY <1>t, <2>1, <2>3 DEF MemoryType, ProposalsNamed
  <2> QED
    BY <2>4, <2>5 DEF MemInv
<1>4. ASSUME NEW k \in Command, Propose(k) \/ Show(k) \/ Read(k) \/ WriteBack(k),
             UNCHANGED commands
      PROVE  MemInv'
  <2>1. ask[k].items \in SUBSET Id
    BY <1>t DEF Ask
  <2>2. PICK s \in AskStep, items \in SUBSET Id :
          To(k, s, items) /\ (s = "append" => ask[k].step = "read")
                          /\ s \notin {"read", "write"}
    <3>1. CASE Propose(k) \/ Show(k) \/ WriteBack(k)
      BY <2>1, <3>1 DEF Propose, Show, WriteBack, AskStep
    <3>2. CASE Read(k)
      BY <1>t, <3>2 DEF Read, AskStep
    <3> QED
      BY <1>4, <3>1, <3>2
  <2>3. /\ ask' \in [Command -> Ask] /\ ask'[k].step = s /\ ask'[k].id = ask[k].id
        /\ \A j \in Command : j # k => ask'[j] = ask[j]
    BY <1>t, <2>2, AskMoves
  <2>4. /\ UNCHANGED <<rows, viral, memory, named>> /\ pending' \subseteq Id
        /\ shown \subseteq shown' /\ shown' \subseteq Id
    BY <1>t, <1>4, <2>1 DEF Propose, Show, Read, WriteBack
  <2>5. AskNamed'
    <3>1. ask'[k].step \in {"read", "append", "write"} =>
            ask'[k].id \in named' /\ ask'[k].id \in shown' \cup {<<0, 0>>}
      BY <1>t, <2>2, <2>3, <2>4 DEF AskNamed
    <3> QED
      BY <1>t, <2>3, <2>4, <3>1, NamedGrow
  <2>6. ProposalsNamed'
    BY <1>t, <2>4, RulesGrow
  <2>7. MemoryType'
    BY <1>t, <1>4, <2>3, <2>4 DEF MemoryType
  <2> QED
    BY <2>5, <2>6, <2>7 DEF MemInv
<1>5. ASSUME NEW k \in Command, AppendRule(k), UNCHANGED commands PROVE MemInv'
  <2> DEFINE id == ask[k].id
             found == Matched(ask[k].items, id)
  <2>1. /\ ask[k].step = "append" /\ UNCHANGED <<rows, viral, pending, shown, named>>
        /\ ask[k].items \in SUBSET Id /\ id \in named /\ id \in shown \cup {<<0, 0>>}
    BY <1>5, <1>t DEF AppendRule, AskNamed, Ask
  <2>2. PICK s \in {"ended", "write"}, items \in SUBSET Id : To(k, s, items)
    BY <1>5, <2>1 DEF AppendRule, Remaining
  <2>3. /\ ask' \in [Command -> Ask] /\ ask'[k].id = id
        /\ \A j \in Command : j # k => ask'[j] = ask[j]
    BY <1>t, <2>2, AskMoves DEF AskStep
  <2>4. AskNamed'
    BY <1>t, <2>1, <2>3, NamedGrow
  <2>5. UNCHANGED memory \/ (memory' = Append(memory, id) /\ id \in shown \cap named)
    <3>1. CASE found = {}
      BY <1>5, <3>1 DEF AppendRule
    <3>2. CASE found # {}
      <4>1. id \in found /\ \A i \in found : i = id
        BY <3>2 DEF Matched
      <4>2. (CHOOSE i \in found : TRUE) = id
        BY <4>1
      <4>3. id \in Id
        BY <2>1, <4>1 DEF Matched
      <4>4. memory' = Append(memory, CHOOSE i \in found : TRUE)
        BY <1>5, <3>2 DEF AppendRule, append_approved_memory
      <4>5. memory' = Append(memory, id)
        BY <4>2, <4>4
      <4> QED
        BY <2>1, <4>3, <4>5, IdIsProposal
    <3> QED
      BY <3>1, <3>2
  <2>6. memory' \in Seq(Rule) /\ ProposalsNamed'
    <3>1. CASE UNCHANGED memory
      BY <1>t, <2>1, <3>1 DEF ProposalsNamed
    <3>2. CASE memory' = Append(memory, id) /\ id \in shown \cap named
      <4>1. id \in Rule
        BY <1>t, <3>2 DEF Rule
      <4> HIDE DEF id
      <4>2. /\ memory' \in Seq(Rule)
            /\ \A i \in DOMAIN memory' : \/ i \in DOMAIN memory /\ memory'[i] = memory[i]
                                         \/ memory'[i] = id
        BY <1>t, <3>2, <4>1
      <4> QED
        BY <1>t, <2>1, <3>2, <4>2 DEF ProposalsNamed
    <3> QED
      BY <2>5, <3>1, <3>2
  <2>7. MemoryType'
    BY <1>t, <1>5, <2>1, <2>3, <2>6 DEF MemoryType
  <2> QED
    BY <2>4, <2>6, <2>7 DEF MemInv
<1>6. CASE ApiCrash
  <2>1. UNCHANGED <<commands, rows, viral, pending, memory, shown, named>>
    BY <1>6 DEF ApiCrash
  <2>2. \A k \in Command : ask'[k] \in Ask /\ ask'[k].step \in {"none", "ended"}
    <3> SUFFICES ASSUME NEW k \in Command
                 PROVE  ask'[k] \in Ask /\ ask'[k].step \in {"none", "ended"}
      OBVIOUS
    <3>1. ask'[k] = IF ask[k].step = "none" THEN ask[k]
                    ELSE [ask[k] EXCEPT !.step = "ended", !.items = {}]
      BY <1>6 DEF ApiCrash
    <3>2. ask[k] \in Ask
      BY <1>t
    <3>3. /\ [ask[k] EXCEPT !.step = "ended", !.items = {}] \in Ask
          /\ [ask[k] EXCEPT !.step = "ended", !.items = {}].step = "ended"
      BY <3>2 DEF Ask, AskStep
    <3> QED
      BY <3>1, <3>2, <3>3
  <2>3. ask' \in [Command -> Ask]
    BY <1>6, <2>2 DEF ApiCrash
  <2> QED
    BY <1>t, <2>1, <2>2, <2>3 DEF MemInv, MemoryType, AskNamed, ProposalsNamed
<1>7. CASE UNCHANGED mem /\ (UNCHANGED commands \/ \E k \in Command : Sends(k))
  BY <1>t, <1>7, SentNumber DEF mem, MemInv, MemoryType, AskNamed, ProposalsNamed
<1>8. MemoryCommand \/ (MemoryStep /\ UNCHANGED commands) \/ ApiCrash
      \/ (\E k \in Command : TakeReply(<<"api", k>>))
      \/ (UNCHANGED mem /\ (UNCHANGED commands \/ \E k \in Command : Sends(k)))
  BY MemoryApart
<1>9. CASE MemoryCommand
  BY <1>1, <1>2, <1>3, <1>9 DEF MemoryCommand
<1>10. CASE MemoryStep /\ UNCHANGED commands
  BY <1>4, <1>5, <1>10 DEF MemoryStep
<1>11. ASSUME NEW k \in Command, TakeReply(<<"api", k>>) PROVE MemInv'
  <2> DEFINE rule == ReviewRule(k)
  <2>1. /\ UNCHANGED <<commands, rows, viral, pending, ask, shown, named>>
        /\ UNCHANGED memory \/ memory' = Append(memory, rule)
    BY <1>11, TakeReplyMemory
  <2>2. rule \in Rule /\ rule \notin Id
    BY DEF Rule, ReviewRule, Id
  <2> HIDE DEF rule
  <2>3. CASE UNCHANGED memory
    BY <1>t, <2>1, <2>3 DEF MemInv, MemoryType, AskNamed, ProposalsNamed
  <2>4. CASE memory' = Append(memory, rule)
    <3>1. /\ memory' \in Seq(Rule)
          /\ \A i \in DOMAIN memory' : \/ i \in DOMAIN memory /\ memory'[i] = memory[i]
                                       \/ memory'[i] = rule
      BY <1>t, <2>2, <2>4
    <3>2. ProposalsNamed'
      BY <1>t, <2>1, <2>2, <3>1 DEF ProposalsNamed
    <3> QED
      BY <1>t, <2>1, <3>1, <3>2 DEF MemInv, MemoryType, AskNamed
  <2> QED
    BY <2>1, <2>3, <2>4
<1> QED
  BY <1>6, <1>7, <1>8, <1>9, <1>10, <1>11

---------------------------------------------------------------------------
(* Lists and records.                                                      *)

LEMMA ListsType ==
  ASSUME NEW S \in SUBSET Topics, NEW n \in Nat, NEW l \in Lists(S, n)
  PROVE  l \in Seq(Topics)
<1>1. Cardinality(S) \in Nat
  BY StudioAssumption, FS_Subset, FS_CardinalityType
<1>2. l \in SeqOf(S, IF n < Cardinality(S) THEN n ELSE Cardinality(S))
  BY DEF Lists
<1>3. PICK m \in 0..(IF n < Cardinality(S) THEN n ELSE Cardinality(S)) : l \in [1..m -> S]
  BY <1>2 DEF SeqOf
<1>4. m \in Nat /\ l \in [1..m -> Topics]
  BY <1>1, <1>3
<1> QED
  BY <1>4, SeqDef

LEMMA RecommendedType ==
  ASSUME hot \in SUBSET Topics, NEW n \in Nat, NEW l \in Recommended(n)
  PROVE  l \in Seq(Topics)
<1>1. CASE hot = {}
  BY <1>1 DEF Recommended
<1>2. CASE hot # {}
  BY <1>2, ListsType DEF Recommended
<1> QED
  BY <1>1, <1>2

LEMMA VariantsType ==
  ASSUME NEW l \in Seq(Topics), l # <<>>
  PROVE  Variants(l) \in Seq(Topics) \ {<<>>}
<1> DEFINE m == IF Len(l) < 5 THEN Len(l) ELSE 5
<1>1. Len(l) \in Nat /\ Len(l) # 0
  BY EmptySeq, LenProperties
<1>2. m \in 1..Len(l)
  BY <1>1
<1>3. \A i \in 1..m : l[i] \in Topics
  BY <1>1, <1>2, ElementOfSeq
<1>4. SubSeq(l, 1, m) \in Seq(Topics) /\ Len(SubSeq(l, 1, m)) = IF 1 <= m THEN m - 1 + 1 ELSE 0
  <2>1. 1 \in Int /\ m \in Int
    BY <1>2
  <2> HIDE DEF m
  <2> QED
    BY <1>3, <2>1, SubSeqProperties
<1>5. Len(SubSeq(l, 1, m)) # 0
  BY <1>1, <1>2, <1>4
<1> QED
  BY <1>4, <1>5, EmptySeq DEF Variants

LEMMA RestType ==
  ASSUME NEW S, NEW s \in Seq(S), s # <<>>
  PROVE  /\ Head(s) \in S /\ Tail(s) \in Seq(S)
         /\ Len(s) # 1 => Tail(s) # <<>>
<1>1. Len(s) \in Nat /\ Len(s) # 0
  BY EmptySeq, LenProperties
<1>2. Head(s) \in S /\ Tail(s) \in Seq(S) /\ Len(Tail(s)) = Len(s) - 1
  BY HeadTailProperties
<1>3. Len(s) # 1 => Len(Tail(s)) # 0
  BY <1>1, <1>2
<1> QED
  BY <1>2, <1>3, EmptySeq

LEMMA ClampType ==
  ASSUME NEW n \in Int
  PROVE  Clamp(n) \in 1..10
BY DEF Clamp

\* The records are closed under the change of a field.
LEMMA StepField ==
  ASSUME NEW r \in Work, NEW s \in At
  PROVE  LET q == [r EXCEPT !.step = s]
         IN /\ q \in Work /\ q.step = s /\ q.kind = r.kind /\ q.chat = r.chat
            /\ q.theme = r.theme /\ q.style = r.style /\ q.source = r.source
            /\ q.items = r.items /\ q.count = r.count
BY DEF Work

LEMMA ItemsField ==
  ASSUME NEW r \in Work, NEW l \in Seq(Topics \cup Word)
  PROVE  LET q == [r EXCEPT !.items = l]
         IN /\ q \in Work /\ q.items = l /\ q.step = r.step /\ q.kind = r.kind
            /\ q.chat = r.chat /\ q.count = r.count
BY DEF Work

LEMMA StyleField ==
  ASSUME NEW r \in Work, NEW y \in Styles \cup {None}
  PROVE  LET q == [r EXCEPT !.style = y]
         IN /\ q \in Work /\ q.step = r.step /\ q.kind = r.kind /\ q.chat = r.chat
            /\ q.source = r.source /\ q.items = r.items /\ q.count = r.count
BY DEF Work

LEMMA ChatField ==
  ASSUME NEW r \in Work, NEW c \in Chats \cup {None}
  PROVE  LET q == [r EXCEPT !.chat = c]
         IN q \in Work /\ q.step = r.step /\ q.items = r.items /\ q.count = r.count /\ q.kind = r.kind
BY DEF Work

LEMMA CountField ==
  ASSUME NEW r \in Work, NEW n \in 0..10
  PROVE  LET q == [r EXCEPT !.count = n]
         IN q \in Work /\ q.step = r.step /\ q.items = r.items /\ q.kind = r.kind
BY DEF Work

LEMMA SeqWider ==
  ASSUME NEW l, l \in Seq(Topics) \/ l \in Seq(Word)
  PROVE  l \in Seq(Topics \cup Word)
BY SeqDef

LEMMA NewTaskType ==
  ASSUME NEW k \in Kind, NEW s \in At, NEW c \in Chats \cup {None}, NEW th \in Topics \cup {None},
         NEW y \in Styles \cup {None}, NEW src \in Start, NEW l \in Seq(Topics \cup Word),
         NEW n \in 0..10
  PROVE  [kind |-> k, step |-> s, chat |-> c, theme |-> th, style |-> y, source |-> src,
          items |-> l, count |-> n] \in Work
BY DEF Work

LEMMA NoTaskType == NoTask \in Work /\ Ready(NoTask)
<1>1. None \in Kind /\ None \in At /\ None \in Start /\ 0 \in 0..10
  BY DEF None, Kind, At, Start
<1>2. <<>> \in Seq(Topics \cup Word)
  OBVIOUS
<1>3. NoTask \in Work
  BY <1>1, <1>2, NewTaskType DEF NoTask
<1> QED
  BY <1>3 DEF NoTask, None, Ready

---------------------------------------------------------------------------
(* Handlers and jobs.                                                      *)

\* One handler changes, or one handler and a job.
LEMMA TaskSet ==
  ASSUME TaskType, NEW t \in Slot, NEW r \in Work, Ready(r), task' = [task EXCEPT ![t] = r]
  PROVE  TaskType' /\ task'[t] = r /\ \A u \in Slot : u # t => task'[u] = task[u]
BY DEF TaskType

LEMMA TaskGo ==
  ASSUME TaskType, NEW t \in Slot, NEW s \in At \ {"enqueue", "set", "waiting"}, Go(t, s)
  PROVE  /\ TaskType' /\ task'[t] = [task[t] EXCEPT !.step = s]
         /\ \A u \in Slot : u # t => task'[u] = task[u]
<1>1. task[t] \in Work
  BY DEF TaskType
<1>2. [task[t] EXCEPT !.step = s] \in Work /\ Ready([task[t] EXCEPT !.step = s])
  BY <1>1, StepField DEF Ready
<1>3. task' = [task EXCEPT ![t] = [task[t] EXCEPT !.step = s]]
  BY DEF Go
<1> QED
  BY <1>2, <1>3, TaskSet

\* The items that are left are ready, or there is none.
LEMMA RestReady ==
  ASSUME NEW r \in Work, Ready(r), r.step \in {"enqueue", "set"}
  PROVE  LET q == [r EXCEPT !.items = Tail(@), !.step = IF Len(r.items) = 1 THEN "ended" ELSE @]
         IN q \in Work /\ Ready(q) /\ q.step \in {"ended", r.step} /\ q.kind = r.kind
<1> DEFINE l == Tail(r.items)
           s == IF Len(r.items) = 1 THEN "ended" ELSE r.step
           one == [r EXCEPT !.items = l]
           two == [one EXCEPT !.step = s]
<1>1. /\ r.step = "enqueue" => l \in Seq(Topics) /\ (Len(r.items) # 1 => l # <<>>)
      /\ r.step = "set" => l \in Seq(Word) /\ (Len(r.items) # 1 => l # <<>>)
  BY RestType DEF Ready
<1>2. l \in Seq(Topics \cup Word)
  BY <1>1, SeqWider
<1>3. one \in Work /\ one.items = l /\ one.step = r.step /\ one.kind = r.kind
      /\ one.count = r.count
  BY <1>2, ItemsField
<1>4. s \in At /\ s \in {"ended", r.step}
  BY DEF At
<1>5. two \in Work /\ two.step = s /\ two.items = l /\ two.kind = r.kind /\ two.count = r.count
  <2> HIDE DEF one, l, s
  <2> QED
    BY <1>3, <1>4, StepField
<1>6. Ready(two)
  <2> HIDE DEF two
  <2>1. CASE Len(r.items) = 1
    BY <1>5, <2>1 DEF Ready
  <2>2. CASE Len(r.items) # 1
    BY <1>1, <1>5, <2>2 DEF Ready
  <2> QED
    BY <2>1, <2>2
<1>7. [r EXCEPT !.items = Tail(@), !.step = IF Len(r.items) = 1 THEN "ended" ELSE @] = two
  <2>1. r.step = one.step
    BY <1>3
  <2> QED
    BY <2>1
<1> HIDE DEF two
<1> QED
  BY <1>4, <1>5, <1>6, <1>7

LEMMA JobsFinite == IsFiniteSet(1..MaxJobs)
<1>1. MaxJobs \in Int
  BY StudioAssumption
<1> QED
  BY <1>1, FS_Interval

\* A job gets the first free number.
LEMMA NextJob == /\ Cardinality(Used) \in Nat
                 /\ ~(Cardinality(Used) + 1 > MaxJobs) => Cardinality(Used) + 1 \in 1..MaxJobs
<1>1. IsFiniteSet(1..MaxJobs)
  BY JobsFinite
<1>2. Used \in SUBSET (1..MaxJobs)
  BY Zenon DEF Used
<1>3. Cardinality(Used) \in Nat
  BY <1>1, <1>2, FS_Subset, FS_CardinalityType
<1> QED
  BY <1>3, StudioAssumption

LEMMA EnqueueType ==
  ASSUME TaskType, QueueType, NEW t \in Slot, task[t].step \in {"enqueue", "set"},
         NEW new \in Work, Ready(new), Enqueue(t, new)
  PROVE  /\ TaskType' /\ queue' \in Seq(1..MaxJobs)
         /\ \A u \in Slot : \/ task'[u] = task[u]
                            \/ u = t /\ task'[u].step \in {"ended", task[t].step}
                                     /\ task'[u].kind = task[t].kind
                            \/ ProcOf(u) = "worker" /\ task'[u] = new
<1> DEFINE j == Cardinality(Used) + 1
           rest == [task[t] EXCEPT !.items = Tail(@),
                      !.step = IF Len(task[t].items) = 1 THEN "ended" ELSE @]
<1>1. task[t] \in Work /\ Ready(task[t]) /\ queue \in Seq(1..MaxJobs)
  BY DEF TaskType, QueueType
<1>2. rest \in Work /\ Ready(rest) /\ rest.step \in {"ended", task[t].step} /\ rest.kind = task[t].kind
  BY <1>1, RestReady
<1>3. \/ task' = [task EXCEPT ![t] = rest] /\ UNCHANGED queue
      \/ /\ ~(j > MaxJobs)
         /\ task' = [task EXCEPT ![t] = rest, ![JobSlot(j)] = new] /\ queue' = Append(queue, j)
  BY DEF Enqueue, Set
<1> HIDE DEF rest
<1>4. CASE task' = [task EXCEPT ![t] = rest] /\ UNCHANGED queue
  BY <1>1, <1>2, <1>4, TaskSet
<1>5. CASE /\ ~(j > MaxJobs)
           /\ task' = [task EXCEPT ![t] = rest, ![JobSlot(j)] = new] /\ queue' = Append(queue, j)
  <2>1. j \in 1..MaxJobs
    BY <1>5, NextJob
  <2> HIDE DEF j
  <2>2. JobSlot(j) \in Slot /\ ProcOf(JobSlot(j)) = "worker"
    BY <2>1 DEF JobSlot, Slot, ProcOf
  <2>3. queue' \in Seq(1..MaxJobs)
    BY <1>1, <1>5, <2>1
  <2>4. /\ task' \in [Slot -> Work]
        /\ \A u \in Slot : task'[u] = IF u = JobSlot(j) THEN new ELSE IF u = t THEN rest ELSE task[u]
    <3> HIDE DEF JobSlot
    <3> QED
      BY <1>2, <1>5, <2>2 DEF TaskType
  <2>5. \A u \in Slot : Ready(task'[u])
    BY <1>2, <2>4 DEF TaskType
  <2> QED
    BY <1>2, <2>2, <2>3, <2>4, <2>5 DEF TaskType
<1> QED
  BY <1>3, <1>4, <1>5

LEMMA ApiSlot ==
  ASSUME NEW k \in Command
  PROVE  <<"api", k>> \in Slot /\ ProcOf(<<"api", k>>) = "api"
BY DEF Slot, ProcOf

LEMMA WorkerSlot ==
  ASSUME NEW j \in 1..MaxJobs
  PROVE  JobSlot(j) \in Slot /\ ProcOf(JobSlot(j)) = "worker"
BY DEF Slot, ProcOf, JobSlot

\* A command gives its handler a new record.
LEMMA HandlerSet ==
  ASSUME TaskType, NEW k \in Command, NEW r \in Work, Ready(r), Set(<<"api", k>>, r)
  PROVE  /\ TaskType' /\ task'[<<"api", k>>] = r
         /\ \A u \in Slot : u # <<"api", k>> => task'[u] = task[u]
<1>1. task' = [task EXCEPT ![<<"api", k>>] = r]
  BY DEF Set
<1> QED
  BY <1>1, ApiSlot, TaskSet

\* The commands that start a handler.
StartHandler(k, c) ==
  \/ \E src \in Sources, th \in Topics :
       \E y \in IF src = "vertical" THEN Styles ELSE {HotStyle} : Chain(k, c, src, th, y)
  \/ \E th \in Topics : Upload(k, c, th)
  \/ Confirm(k, c) \/ Reply(k, c)
  \/ \E n \in 1..Cardinality(Topics) : Number(k, c, n)
  \/ \E n \in Counts : Batch(k, c, n)
  \/ \E v \in Videos \cup {None} : BlowUp(k, c, v)
  \/ \E n \in Counts : Schedule(k, c, "on", n)
  \/ \E word \in {"off", "trigger"} : Schedule(k, c, word, 0)

\* The topic of a number is one of the lists of the chat.
LEMMA PickedType ==
  ASSUME SessionType, NEW c \in Chats, NEW n \in 1..Cardinality(Topics)
  PROVE  Picked(session["api"][c], n) \in Topics \cup {None}
<1> DEFINE s == session["api"][c]
<1>1. s.recs \in Seq(Topics) /\ s.trends \in Seq(Topics)
  BY DEF SessionType, Chat, Proc
<1>2. \A l \in Seq(Topics) : n <= Len(l) => l[n] \in Topics
  BY ElementOfSeq, LenProperties
<1> QED
  BY <1>1, <1>2 DEF Picked

LEMMA StartFacts ==
  /\ None \in Start /\ "upload" \in Start /\ "number" \in Start /\ Sources \subseteq Start
  /\ <<>> \in Seq(Topics \cup Word) /\ 0 \in 0..10
  /\ None \in Styles \cup {None} /\ None \in Topics \cup {None}
  /\ HotStyle \in Styles \cup {None}
<1>1. Sources \subseteq Start /\ HotStyle \in Styles
  BY StudioAssumption DEF Start
<1> QED
  BY <1>1 DEF Start, None

\* What a handler starts with: only a number is past the semaphore, and it marks the chat
\* where another chain is at work.
LEMMA StartHandlerType ==
  ASSUME TypeInv, NEW k \in Command, NEW c \in Chats, StartHandler(k, c)
  PROVE  /\ TaskType'
         /\ \A u \in Slot : u # <<"api", k>> => task'[u] = task[u]
         /\ \/ task'[<<"api", k>>] = task[<<"api", k>>]
            \/ task'[<<"api", k>>].step \in {"waiting", "analyse", "enqueue", "set"}
            \/ /\ task'[<<"api", k>>].source = "number" /\ task'[<<"api", k>>].step = "write"
               /\ task'[<<"api", k>>].chat = c /\ Joins(c, TRUE)
<1>t. TaskType /\ SessionType /\ OtherType
  BY DEF TypeInv
<1>1. ASSUME NEW src \in Sources, NEW th \in Topics,
             NEW y \in IF src = "vertical" THEN Styles ELSE {HotStyle}, Chain(k, c, src, th, y)
      PROVE  TaskType' /\ task'[<<"api", k>>].step = "waiting"
             /\ \A u \in Slot : u # <<"api", k>> => task'[u] = task[u]
  <2> DEFINE r == [NoTask EXCEPT !.kind = "chain", !.step = "waiting", !.chat = c,
                          !.theme = th, !.style = y, !.source = src]
  <2>1. Set(<<"api", k>>, r)
    BY <1>1 DEF Chain
  <2>2. y \in Styles \cup {None}
    BY StudioAssumption
  <2>3. r \in Work /\ Ready(r) /\ r.step = "waiting"
    BY <2>2, StartFacts DEF NoTask, Work, Kind, At, Ready
  <2> HIDE DEF r
  <2> QED
    BY <1>t, <2>1, <2>3, HandlerSet
<1>2. ASSUME NEW th \in Topics, Upload(k, c, th)
      PROVE  TaskType' /\ task'[<<"api", k>>].step = "waiting"
             /\ \A u \in Slot : u # <<"api", k>> => task'[u] = task[u]
  <2> DEFINE r == [NoTask EXCEPT !.kind = "chain", !.step = "waiting", !.chat = c,
                          !.theme = th, !.source = "upload"]
  <2>1. Set(<<"api", k>>, r)
    BY <1>2 DEF Upload
  <2>2. r \in Work /\ Ready(r) /\ r.step = "waiting"
    BY StartFacts DEF NoTask, Work, Kind, At, Ready
  <2> HIDE DEF r
  <2> QED
    BY <1>t, <2>1, <2>2, HandlerSet
<1>3. ASSUME NEW kind \in {"confirm", "reply"},
             (kind = "confirm" /\ Confirm(k, c)) \/ (kind = "reply" /\ Reply(k, c))
      PROVE  TaskType' /\ task'[<<"api", k>>].step = "waiting"
             /\ \A u \in Slot : u # <<"api", k>> => task'[u] = task[u]
  <2> DEFINE r == [NoTask EXCEPT !.kind = kind, !.step = "waiting", !.chat = c]
  <2>1. Set(<<"api", k>>, r)
    BY <1>3 DEF Confirm, Reply
  <2>2. r \in Work /\ Ready(r) /\ r.step = "waiting"
    BY StartFacts DEF NoTask, Work, Kind, At, Ready
  <2> HIDE DEF r
  <2> QED
    BY <1>t, <2>1, <2>2, HandlerSet
<1>4. ASSUME NEW n \in 1..Cardinality(Topics), Number(k, c, n)
      PROVE  /\ TaskType'
             /\ \A u \in Slot : u # <<"api", k>> => task'[u] = task[u]
             /\ task'[<<"api", k>>].source = "number" /\ task'[<<"api", k>>].step = "write"
             /\ task'[<<"api", k>>].chat = c /\ Joins(c, TRUE)
  <2> DEFINE th == Picked(session["api"][c], n)
             r == [NoTask EXCEPT !.kind = "chain", !.step = "write", !.chat = c,
                          !.theme = th, !.style = HotStyle, !.source = "number"]
  <2>1. Set(<<"api", k>>, r) /\ Joins(c, TRUE)
    BY <1>4 DEF Number
  <2>2. th \in Topics \cup {None}
    BY <1>t, PickedType
  <2> HIDE DEF th
  <2>3. r \in Work /\ Ready(r) /\ r.step = "write" /\ r.source = "number" /\ r.chat = c
    BY <2>2, StartFacts DEF NoTask, Work, Kind, At, Ready
  <2> HIDE DEF r
  <2> QED
    BY <1>t, <2>1, <2>3, HandlerSet
<1>5. ASSUME NEW n \in Counts, Batch(k, c, n)
      PROVE  TaskType' /\ task'[<<"api", k>>].step = "analyse"
             /\ \A u \in Slot : u # <<"api", k>> => task'[u] = task[u]
  <2> DEFINE r == [NoTask EXCEPT !.kind = "batch", !.step = "analyse", !.chat = c,
                          !.style = HotStyle, !.count = Clamp(n)]
  <2>1. Set(<<"api", k>>, r)
    BY <1>5 DEF Batch
  <2>2. Clamp(n) \in 0..10
    BY StudioAssumption, ClampType
  <2>3. r \in Work /\ Ready(r) /\ r.step = "analyse"
    BY <2>2, StartFacts DEF NoTask, Work, Kind, At, Ready
  <2> HIDE DEF r
  <2> QED
    BY <1>t, <2>1, <2>3, HandlerSet
<1>6. ASSUME NEW v \in Videos \cup {None}, BlowUp(k, c, v)
      PROVE  \/ UNCHANGED task
             \/ /\ TaskType' /\ task'[<<"api", k>>].step = "enqueue"
                /\ \A u \in Slot : u # <<"api", k>> => task'[u] = task[u]
  <2>a. CASE UNCHANGED task
    BY <2>a
  <2>b. CASE ~UNCHANGED task
    <3>1. PICK l \in VariantLists :
            Set(<<"api", k>>, [NoTask EXCEPT !.kind = "variants", !.step = "enqueue",
                                !.chat = c, !.style = HotStyle, !.items = Variants(l)])
      BY <1>6, <2>b DEF BlowUp
    <3> DEFINE w == Variants(l)
               r == [NoTask EXCEPT !.kind = "variants", !.step = "enqueue",
                            !.chat = c, !.style = HotStyle, !.items = w]
    <3>2. w \in Seq(Topics) \ {<<>>}
      BY <3>1, StudioAssumption, VariantsType
    <3>3. w \in Seq(Topics \cup Word)
      BY <3>2, SeqWider
    <3> HIDE DEF w
    <3>4. r \in Work /\ Ready(r) /\ r.step = "enqueue"
      BY <3>2, <3>3, StartFacts DEF NoTask, Work, Kind, At, Ready
    <3>5. Set(<<"api", k>>, r)
      BY <3>1 DEF w
    <3> HIDE DEF r
    <3> QED
      BY <1>t, <3>4, <3>5, HandlerSet
  <2> QED
    BY <2>a, <2>b
<1>7. ASSUME NEW word \in {"on", "off", "trigger"}, NEW n \in Counts \cup {0},
             Schedule(k, c, word, n)
      PROVE  TaskType' /\ task'[<<"api", k>>].step = "set"
             /\ \A u \in Slot : u # <<"api", k>> => task'[u] = task[u]
  <2> DEFINE l == Settings(word)
             m == Clamp(IF n = 0 THEN 3 ELSE n)
             r == [NoTask EXCEPT !.kind = "schedule", !.step = "set", !.chat = c,
                          !.items = l, !.count = m]
  <2>1. Set(<<"api", k>>, r)
    BY <1>7 DEF Schedule
  <2>2. l \in Seq(Word) \ {<<>>}
    <3>1. "enabled" \in Word /\ "size" \in Word /\ "chat" \in Word /\ "disabled" \in Word
          /\ "daily" \in Word
      BY DEF Word
    <3>2. /\ <<"enabled", "size", "chat">> \in Seq(Word) \ {<<>>}
          /\ <<"disabled">> \in Seq(Word) \ {<<>>}
          /\ <<"chat", "daily">> \in Seq(Word) \ {<<>>}
      BY <3>1
    <3> QED
      BY <1>7, <3>2 DEF Settings
  <2>3. m \in 1..10
    <3>1. (IF n = 0 THEN 3 ELSE n) \in Int
      BY StudioAssumption
    <3> QED
      BY <3>1, ClampType
  <2>4. l \in Seq(Topics \cup Word) /\ m \in 0..10
    BY <2>2, <2>3, SeqWider
  <2> HIDE DEF l, m
  <2>5. r \in Work /\ Ready(r) /\ r.step = "set"
    BY <2>2, <2>3, <2>4, StartFacts DEF NoTask, Work, Kind, At, Ready
  <2> HIDE DEF r
  <2> QED
    BY <1>t, <2>1, <2>5, HandlerSet
<1> QED
  BY <1>t, <1>1, <1>2, <1>3, <1>4, <1>5, <1>6, <1>7 DEF StartHandler, TaskType

\* The style of a chain is one of the templates, or not chosen yet.
LEMMA StyleForType ==
  ASSUME TypeInv, NEW t \in Slot, task[t].step = "waiting"
  PROVE  StyleFor(t) \in Styles \cup {None}
<1>1. task[t].chat \in Chats /\ task[t].style \in Styles \cup {None}
  BY DEF TypeInv, TaskType, Ready, Work
<1>2. session["api"][task[t].chat].style \in Styles \cup {None} /\ now.style \in Styles
  BY <1>1 DEF TypeInv, SessionType, OtherType, Chat, Now, Proc
<1> QED
  BY <1>1, <1>2 DEF StyleFor

\* The other handlers stay as they are when one goes on.
Alone(t) == \A u \in Slot : u # t => task'[u] = task[u]

\* What an item list becomes when a batch or the daily job has its topics.
LEMMA ItemsSet ==
  ASSUME TaskType, NEW t \in Slot, NEW l \in Seq(Topics), NEW s \in At,
         s \notin {"set", "waiting"}, s = "enqueue" => l # <<>>,
         task' = [task EXCEPT ![t].items = l, ![t].step = s]
  PROVE  TaskType' /\ task'[t].step = s /\ Alone(t)
<1> DEFINE one == [task[t] EXCEPT !.items = l]
           two == [one EXCEPT !.step = s]
<1>1. task[t] \in Work /\ l \in Seq(Topics \cup Word)
  BY SeqWider DEF TaskType
<1>2. one \in Work /\ one.items = l
  BY <1>1, ItemsField
<1>3. two \in Work /\ two.items = l /\ two.step = s
  <2> HIDE DEF one
  <2> QED
    BY <1>2, StepField
<1>4. Ready(two)
  <2> HIDE DEF two
  <2> QED
    BY <1>3 DEF Ready
<1>5. task' = [task EXCEPT ![t] = two]
  BY DEF TaskType
<1> HIDE DEF two
<1> QED
  BY <1>3, <1>4, <1>5, TaskSet DEF Alone

\* A handler gets its style and goes on.
LEMMA StyleSet ==
  ASSUME TaskType, NEW t \in Slot, NEW y \in Styles \cup {None}, NEW s \in At,
         s \notin {"set", "enqueue", "waiting"},
         task' = [task EXCEPT ![t].style = y, ![t].step = s]
  PROVE  /\ TaskType' /\ task'[t].step = s /\ Alone(t)
         /\ task'[t].kind = task[t].kind /\ task'[t].chat = task[t].chat
         /\ task'[t].source = task[t].source
<1> DEFINE one == [task[t] EXCEPT !.style = y]
           two == [one EXCEPT !.step = s]
<1>1. task[t] \in Work
  BY DEF TaskType
<1>2. one \in Work /\ one.kind = task[t].kind /\ one.chat = task[t].chat
      /\ one.source = task[t].source
  BY <1>1, StyleField
<1>3. /\ two \in Work /\ two.step = s /\ two.kind = task[t].kind /\ two.chat = task[t].chat
      /\ two.source = task[t].source
  <2> HIDE DEF one
  <2> QED
    BY <1>2, StepField
<1>4. Ready(two)
  <2> HIDE DEF two
  <2> QED
    BY <1>3 DEF Ready
<1>5. task' = [task EXCEPT ![t] = two]
  BY DEF TaskType
<1> HIDE DEF two
<1> QED
  BY <1>3, <1>4, <1>5, TaskSet DEF Alone

\* A job that is enqueued.
LEMMA JobType ==
  /\ \A c \in Chats \cup {None}, th \in Topics, y \in Styles \cup {None} :
       VideoJob(c, th, y) \in Work /\ Ready(VideoJob(c, th, y))
  /\ DailyJob \in Work /\ Ready(DailyJob)
<1>1. "vertical" \in Start
  BY DEF Start
<1>2. ASSUME NEW c \in Chats \cup {None}, NEW th \in Topics, NEW y \in Styles \cup {None}
      PROVE  VideoJob(c, th, y) \in Work /\ Ready(VideoJob(c, th, y))
  BY <1>1, StartFacts DEF VideoJob, NoTask, Work, Kind, At, Ready
<1>3. DailyJob \in Work /\ Ready(DailyJob)
  BY StartFacts DEF DailyJob, NoTask, Work, Kind, At, Ready
<1> QED
  BY <1>2, <1>3

LEMMA EnqueuesType ==
  ASSUME TypeInv, NEW t \in Slot, Enqueues(t)
  PROVE  /\ TaskType' /\ queue' \in Seq(1..MaxJobs)
         /\ task'[t].step \in {"enqueue", "ended"} \/ ProcOf(t) = "worker"
         /\ \A u \in Slot : u # t /\ ProcOf(u) = "api" => task'[u] = task[u]
<1> DEFINE new == VideoJob(task[t].chat, Head(task[t].items), task[t].style)
<1>1. /\ TaskType /\ QueueType /\ task[t].step = "enqueue" /\ Enqueue(t, new)
      /\ task[t] \in Work /\ Ready(task[t])
  BY DEF TypeInv, TaskType, Enqueues
<1>2. Head(task[t].items) \in Topics
  BY <1>1, RestType DEF Ready
<1>3. new \in Work /\ Ready(new)
  BY <1>1, <1>2, JobType DEF Work
<1> HIDE DEF new
<1> QED
  BY <1>1, <1>3, EnqueueType DEF ProcOf

LEMMA SetNextType ==
  ASSUME TypeInv, NEW t \in Slot, SetNext(t)
  PROVE  /\ TaskType' /\ queue' \in Seq(1..MaxJobs) /\ runtime' \in Setting
         /\ task'[t].step \in {"set", "ended"} \/ ProcOf(t) = "worker"
         /\ \A u \in Slot : u # t /\ ProcOf(u) = "api" => task'[u] = task[u]
<1>1. /\ TaskType /\ QueueType /\ task[t].step = "set" /\ task[t] \in Work /\ Ready(task[t])
      /\ queue \in Seq(1..MaxJobs) /\ runtime \in Setting
  BY DEF TypeInv, TaskType, QueueType, OtherType, SetNext
<1>2. CASE Head(task[t].items) = "daily"
  <2>1. Enqueue(t, DailyJob) /\ UNCHANGED runtime
    BY <1>2 DEF SetNext
  <2> QED
    BY <1>1, <2>1, JobType, EnqueueType DEF ProcOf
<1>3. CASE Head(task[t].items) # "daily"
  <2> DEFINE rest == [task[t] EXCEPT !.items = Tail(@),
                        !.step = IF Len(task[t].items) = 1 THEN "ended" ELSE @]
             what == Head(task[t].items)
  <2>1. /\ task' = [task EXCEPT ![t].items = Tail(@),
                      ![t].step = IF Len(task[t].items) = 1 THEN "ended" ELSE @]
        /\ UNCHANGED queue
    BY <1>3 DEF SetNext
  <2>2. rest \in Work /\ Ready(rest) /\ rest.step \in {"ended", "set"}
    BY <1>1, RestReady
  <2>3. task' = [task EXCEPT ![t] = rest]
    BY <1>1, <2>1 DEF TaskType
  <2>4. runtime' \in Setting
    <3>1. what \in Word \ {"daily"}
      BY <1>1, <1>3, RestType DEF Ready
    <3>2. runtime' = CASE what = "enabled"  -> [runtime EXCEPT !.enabled = "1"]
                       [] what = "disabled" -> [runtime EXCEPT !.enabled = "0"]
                       [] what = "size"     -> [runtime EXCEPT !.size = task[t].count]
                       [] what = "chat"     -> [runtime EXCEPT !.chat = task[t].chat]
      BY <1>3 DEF SetNext
    <3>3. task[t].count \in 1..10 /\ task[t].chat \in Chats \cup {None}
      BY <1>1 DEF Ready, Work
    <3>4. /\ [runtime EXCEPT !.enabled = "1"] \in Setting
          /\ [runtime EXCEPT !.enabled = "0"] \in Setting
          /\ [runtime EXCEPT !.size = task[t].count] \in Setting
          /\ [runtime EXCEPT !.chat = task[t].chat] \in Setting
      BY <1>1, <3>3 DEF Setting
    <3>5. what \in {"enabled", "disabled", "size", "chat"}
      BY <3>1 DEF Word
    <3> HIDE DEF what
    <3> QED
      BY <3>2, <3>4, <3>5
  <2> HIDE DEF rest
  <2>5. TaskType' /\ task'[t] = rest /\ \A u \in Slot : u # t => task'[u] = task[u]
    BY <1>1, <2>2, <2>3, TaskSet
  <2> QED
    BY <1>1, <2>1, <2>2, <2>4, <2>5
<1> QED
  BY <1>2, <1>3

\* A handler that only goes on.
LEMMA Moves ==
  ASSUME TaskType, NEW t \in Slot, NEW s \in At \ {"enqueue", "set", "waiting"}, Go(t, s)
  PROVE  /\ TaskType' /\ task'[t].step = s /\ Alone(t)
         /\ task'[t].kind = task[t].kind /\ task'[t].chat = task[t].chat
         /\ task'[t].source = task[t].source /\ task'[t].theme = task[t].theme
         /\ task'[t].style = task[t].style
<1>1. task[t] \in Work
  BY DEF TaskType
<1> DEFINE q == [task[t] EXCEPT !.step = s]
<1>2. /\ q.step = s /\ q.kind = task[t].kind /\ q.chat = task[t].chat /\ q.theme = task[t].theme
      /\ q.style = task[t].style /\ q.source = task[t].source
  BY <1>1, StepField
<1>3. TaskType' /\ task'[t] = q /\ Alone(t)
  BY TaskGo DEF Alone
<1> HIDE DEF q
<1> QED
  BY <1>2, <1>3

\* The steps at which a chain goes on from each of its own.
LEMMA ChainMoves ==
  ASSUME NEW t \in Slot,
         \/ \E fine \in BOOLEAN : Write(t, fine)
         \/ Review(t) \/ Evaluate(t) \/ Save(t) \/ Raise(t) \/ TakePlan(t) \/ ConfirmFails(t)
  PROVE  \E s \in {"review", "evaluate", "save", "confirm", "ended", "done", "failing"} : Go(t, s)
BY DEF Write, Review, Evaluate, Save, Raise, TakePlan, ConfirmFails, Leave

LEMMA EnterType ==
  ASSUME TypeInv, NEW t \in Slot, Enter(t)
  PROVE  /\ TaskType' /\ Alone(t) /\ sem = Free /\ sem' = t
         /\ task'[t].chat = task[t].chat /\ task'[t].chat \in Chats
         /\ task'[t].kind = task[t].kind /\ task'[t].source = task[t].source
         /\ \/ task'[t].step \in {"confirm", "reply"} /\ task'[t].step = task[t].kind
            \/ task'[t].step \in {"watch", "write"} /\ Joins(task[t].chat, FALSE)
<1>1. /\ TaskType /\ task[t].step = "waiting" /\ task[t] \in Work /\ Ready(task[t])
      /\ sem = Free /\ sem' = t /\ task[t].chat \in Chats
  BY DEF TypeInv, TaskType, Enter, Admitted, Ready
<1>2. CASE task[t].kind \in {"confirm", "reply"} /\ Go(t, task[t].kind)
  <2>1. task[t].kind \in At \ {"enqueue", "set", "waiting"}
    BY <1>2 DEF At
  <2> QED
    BY <1>1, <1>2, <2>1, Moves
<1>3. CASE /\ Joins(task[t].chat, FALSE)
           /\ task' = [task EXCEPT ![t].style = StyleFor(t),
                        ![t].step = IF ChainOf[task[t].source].watch THEN "watch" ELSE "write"]
  <2>1. PICK s \in {"watch", "write"} : task' = [task EXCEPT ![t].style = StyleFor(t), ![t].step = s]
    BY <1>3
  <2>2. StyleFor(t) \in Styles \cup {None} /\ s \in At /\ s \notin {"set", "enqueue", "waiting"}
    BY <1>1, <2>1, StyleForType DEF At
  <2>3. /\ TaskType' /\ task'[t].step = s /\ Alone(t)
        /\ task'[t].kind = task[t].kind /\ task'[t].chat = task[t].chat
        /\ task'[t].source = task[t].source
    BY <1>1, <2>1, <2>2, StyleSet
  <2> QED
    BY <1>1, <1>3, <2>1, <2>3
<1> QED
  BY <1>2, <1>3 DEF Enter

LEMMA WatchType ==
  ASSUME TypeInv, NEW t \in Slot, Watch(t)
  PROVE  /\ TaskType' /\ Alone(t) /\ task'[t].step = "write" /\ task[t].step = "watch"
         /\ task'[t].chat = task[t].chat /\ task'[t].kind = task[t].kind
         /\ task'[t].source = task[t].source
<1> DEFINE y == IF task[t].source = "upload" THEN now.style ELSE task[t].style
           one == [task[t] EXCEPT !.step = "write"]
           two == [one EXCEPT !.style = y]
<1>1. TaskType /\ task[t] \in Work /\ y \in Styles \cup {None} /\ "write" \in At
  BY DEF TypeInv, TaskType, OtherType, Work, Now, At
<1>2. /\ one \in Work /\ one.step = "write" /\ one.kind = task[t].kind
      /\ one.chat = task[t].chat /\ one.source = task[t].source /\ one.style = task[t].style
  BY <1>1, StepField
<1>3. /\ two \in Work /\ two.step = "write" /\ two.kind = task[t].kind
      /\ two.chat = task[t].chat /\ two.source = task[t].source
  <2> HIDE DEF one, y
  <2> QED
    BY <1>1, <1>2, StyleField
<1>4. Ready(two)
  <2> HIDE DEF two
  <2> QED
    BY <1>3 DEF Ready
<1>5. task' = [task EXCEPT ![t] = two] /\ task[t].step = "watch"
  <2>1. task[t].source = one.source
    BY <1>2
  <2>2. task' = [task EXCEPT ![t].step = "write",
                          ![t].style = IF task[t].source = "upload" THEN now.style ELSE @]
    BY DEF Watch
  <2>3. task' = [task EXCEPT ![t] = two]
    BY <1>1, <1>2, <2>2 DEF TaskType
  <2> QED
    BY <2>3 DEF Watch
<1> HIDE DEF two
<1> QED
  BY <1>1, <1>3, <1>4, <1>5, TaskSet DEF Alone

\* The topics of a batch.
LEMMA AnalyseType ==
  ASSUME TypeInv, NEW t \in Slot, Analyse(t) \/ AnalyseAgain(t)
  PROVE  /\ TaskType' /\ Alone(t) /\ task'[t].step \in {"enqueue", "again", "ended"}
<1>1. /\ TaskType /\ task[t].count \in Nat /\ hot \in SUBSET Topics
      /\ "again" \in At /\ "enqueue" \in At /\ "ended" \in At
  <2>1. TaskType /\ task[t] \in Work /\ hot \in SUBSET Topics
    BY DEF TypeInv, TaskType, OtherType
  <2>2. task[t].count \in Nat
    BY <2>1 DEF Work
  <2> QED
    BY <2>1, <2>2 DEF At
<1>2. CASE Analyse(t)
  <2>1. PICK l \in Recommended(task[t].count) :
          \/ l # <<>> /\ task' = [task EXCEPT ![t].items = l, ![t].step = "enqueue"]
          \/ Go(t, "again")
    BY <1>2 DEF Analyse
  <2>2. l \in Seq(Topics)
    BY <1>1, RecommendedType
  <2>3. CASE l # <<>> /\ task' = [task EXCEPT ![t].items = l, ![t].step = "enqueue"]
    BY <1>1, <2>2, <2>3, ItemsSet
  <2>4. CASE Go(t, "again")
    BY <1>1, <2>4, Moves
  <2> QED
    BY <2>1, <2>3, <2>4
<1>3. CASE AnalyseAgain(t)
  <2>1. PICK l \in Recommended(task[t].count) :
          task' = [task EXCEPT ![t].items = l,
                               ![t].step = IF l = <<>> THEN "ended" ELSE "enqueue"]
    BY <1>3 DEF AnalyseAgain
  <2>2. l \in Seq(Topics)
    BY <1>1, RecommendedType
  <2>3. PICK s \in {"ended", "enqueue"} :
          (s = "enqueue" => l # <<>>) /\ task' = [task EXCEPT ![t].items = l, ![t].step = s]
    BY <2>1
  <2> QED
    BY <1>1, <2>2, <2>3, ItemsSet
<1> QED
  BY <1>2, <1>3

\* The daily job.
LEMMA DailyType ==
  ASSUME TypeInv, NEW t \in Slot, ReadChat(t) \/ ReadSize(t) \/ ReadSwitch(t) \/ DailyTopics(t)
  PROVE  /\ TaskType' /\ Alone(t)
         /\ task'[t].step \in {"size", "switch", "ended", "fetch", "enqueue"}
<1>1. /\ TaskType /\ task[t] \in Work /\ Ready(task[t]) /\ hot \in SUBSET Topics
      /\ runtime.chat \in Chats \cup {None} /\ Clamp(runtime.size) \in 0..10
      /\ {"size", "switch", "ended", "fetch", "enqueue"} \subseteq At
  <2>1. runtime.size \in Int /\ runtime.chat \in Chats \cup {None}
    BY DEF TypeInv, OtherType, Setting
  <2>2. Clamp(runtime.size) \in 0..10
    BY <2>1, ClampType
  <2> QED
    BY <2>1, <2>2 DEF TypeInv, TaskType, OtherType, At
<1>2. CASE ReadChat(t)
  <2> DEFINE one == [task[t] EXCEPT !.chat = runtime.chat]
             two == [one EXCEPT !.step = "size"]
  <2>1. one \in Work
    BY <1>1, ChatField
  <2>2. two \in Work /\ two.step = "size"
    <3> HIDE DEF one
    <3> QED
      BY <1>1, <2>1, StepField
  <2>3. Ready(two)
    <3> HIDE DEF two
    <3> QED
      BY <2>2 DEF Ready
  <2>4. task' = [task EXCEPT ![t] = two]
    BY <1>1, <1>2 DEF ReadChat, TaskType
  <2> HIDE DEF two
  <2> QED
    BY <1>1, <2>2, <2>3, <2>4, TaskSet DEF Alone
<1>3. CASE ReadSize(t)
  <2> DEFINE n == Clamp(runtime.size)
             one == [task[t] EXCEPT !.count = n]
             two == [one EXCEPT !.step = "switch"]
  <2>1. one \in Work
    <3> HIDE DEF n
    <3>1. n \in 0..10
      BY <1>1 DEF n
    <3> QED
      BY <1>1, <3>1, CountField
  <2>2. two \in Work /\ two.step = "switch"
    <3> HIDE DEF one
    <3> QED
      BY <1>1, <2>1, StepField
  <2>3. Ready(two)
    <3> HIDE DEF two
    <3> QED
      BY <2>2 DEF Ready
  <2>4. task' = [task EXCEPT ![t] = two]
    BY <1>1, <1>3 DEF ReadSize, TaskType
  <2> HIDE DEF two
  <2> QED
    BY <1>1, <2>2, <2>3, <2>4, TaskSet DEF Alone
<1>4. CASE ReadSwitch(t)
  <2>1. PICK s \in {"ended", "fetch"} : Go(t, s)
    BY <1>4 DEF ReadSwitch
  <2> QED
    BY <1>1, <2>1, Moves
<1>5. CASE DailyTopics(t)
  <2>1. PICK more \in Listed :
          /\ Fetched(more)
          /\ \E l \in IF hot' = {} THEN {<<>>} ELSE Lists(hot', task[t].count) :
               task' = [task EXCEPT ![t].items = l, ![t].style = HotStyle,
                                    ![t].step = IF l = <<>> THEN "ended" ELSE "enqueue"]
    BY <1>5 DEF DailyTopics
  <2>2. hot' \in SUBSET Topics
    BY <1>1, <2>1 DEF Fetched, Listed
  <2>3. PICK l \in IF hot' = {} THEN {<<>>} ELSE Lists(hot', task[t].count) :
          task' = [task EXCEPT ![t].items = l, ![t].style = HotStyle,
                               ![t].step = IF l = <<>> THEN "ended" ELSE "enqueue"]
    BY <2>1
  <2>4. l \in Seq(Topics) /\ l \in Seq(Topics \cup Word)
    <3>1. task[t].count \in Nat
      BY <1>1 DEF Work
    <3>2. l = <<>> \/ l \in Lists(hot', task[t].count)
      BY <2>3
    <3>3. l \in Seq(Topics)
      <4>1. CASE l = <<>>
        BY <4>1
      <4>2. CASE l \in Lists(hot', task[t].count)
        <5> DEFINE S == hot'
                   n == task[t].count
        <5>1. S \in SUBSET Topics /\ n \in Nat /\ l \in Lists(S, n)
          BY <2>2, <3>1, <4>2
        <5> HIDE DEF S, n
        <5> QED
          BY <5>1, ListsType
      <4> QED
        BY <3>2, <4>1, <4>2
    <3> QED
      BY <3>3, SeqWider
  <2> DEFINE s == IF l = <<>> THEN "ended" ELSE "enqueue"
             one == [task[t] EXCEPT !.items = l]
             two == [one EXCEPT !.style = HotStyle]
             three == [two EXCEPT !.step = s]
  <2>5. one \in Work /\ one.items = l
    BY <1>1, <2>4, ItemsField
  <2>6. two \in Work /\ two.items = l
    <3> HIDE DEF one
    <3> QED
      BY <2>5, StartFacts, StyleField
  <2>7. three \in Work /\ three.items = l /\ three.step = s
    <3>1. s \in At
      BY DEF At
    <3> HIDE DEF two, s
    <3> QED
      BY <2>6, <3>1, StepField
  <2>8. Ready(three) /\ three.step \in {"ended", "enqueue"}
    <3> HIDE DEF three
    <3> QED
      BY <2>4, <2>7 DEF Ready
  <2>9. task' = [task EXCEPT ![t] = three]
    BY <1>1, <2>3 DEF TaskType
  <2> HIDE DEF three
  <2> QED
    BY <1>1, <2>7, <2>8, <2>9, TaskSet DEF Alone
<1> QED
  BY <1>2, <1>3, <1>4, <1>5

LEMMA StepType ==
  ASSUME TypeInv, NEW t \in Slot, Step(t)
  PROVE  TaskType' /\ \A u \in Slot : u # t /\ ProcOf(u) = "api" => task'[u] = task[u]
<1>1. CASE Enqueues(t)
  BY <1>1, EnqueuesType
<1>2. CASE SetNext(t)
  BY <1>2, SetNextType
<1>3. CASE Analyse(t) \/ AnalyseAgain(t)
  BY <1>3, AnalyseType DEF Alone
<1>4. CASE Enter(t)
  BY <1>4, EnterType DEF Alone
<1>5. CASE Watch(t)
  BY <1>5, WatchType DEF Alone
<1>6. CASE \/ \E fine \in BOOLEAN : Write(t, fine)
           \/ Review(t) \/ Evaluate(t) \/ Save(t) \/ Raise(t) \/ TakePlan(t) \/ ConfirmFails(t)
  <2>1. PICK s \in {"review", "evaluate", "save", "confirm", "ended", "done", "failing"} : Go(t, s)
    BY <1>6, ChainMoves
  <2>2. s \in At \ {"enqueue", "set", "waiting"} /\ TaskType
    BY <2>1 DEF At, TypeInv
  <2> QED
    BY <2>1, <2>2, Moves DEF Alone
<1>7. CASE ReadChat(t) \/ ReadSize(t) \/ ReadSwitch(t) \/ DailyTopics(t)
  BY <1>7, DailyType DEF Alone
<1> QED
  BY <1>1, <1>2, <1>3, <1>4, <1>5, <1>6, <1>7 DEF Step

\* The jobs of the worker, and the processes that restart.
LEMMA WorkerType ==
  ASSUME TypeInv,
         TakeJob \/ (\E j \in 1..MaxJobs : Report(j) \/ Timeout(j)) \/ WorkerCrash
  PROVE  TaskType' /\ \A u \in Slot : ProcOf(u) = "api" => task'[u] = task[u]
<1>t. TaskType /\ queue \in Seq(1..MaxJobs)
  BY DEF TypeInv, QueueType
<1>1. ASSUME NEW j \in 1..MaxJobs, NEW s \in {"chat", "write", "ended"}, Go(JobSlot(j), s)
      PROVE  TaskType' /\ \A u \in Slot : ProcOf(u) = "api" => task'[u] = task[u]
  <2>1. s \in At \ {"enqueue", "set", "waiting"}
    BY DEF At
  <2>2. JobSlot(j) \in Slot /\ ProcOf(JobSlot(j)) = "worker"
    BY WorkerSlot
  <2>3. TaskType' /\ Alone(JobSlot(j))
    BY <1>t, <1>1, <2>1, <2>2, Moves
  <2>4. \A u \in Slot : ProcOf(u) = "api" => u # JobSlot(j)
    BY <2>2
  <2> QED
    BY <2>3, <2>4 DEF Alone
<1>2. CASE TakeJob
  <2>1. PICK i \in DOMAIN queue :
          Go(JobSlot(queue[i]), IF task[JobSlot(queue[i])].kind = "daily" THEN "chat" ELSE "write")
    BY <1>2 DEF TakeJob
  <2>2. queue[i] \in 1..MaxJobs
    BY <1>t, <2>1, ElementOfSeq, LenProperties
  <2>3. PICK s \in {"chat", "write"} : Go(JobSlot(queue[i]), s)
    BY <2>1
  <2> QED
    BY <1>1, <2>2, <2>3
<1>3. CASE \E j \in 1..MaxJobs : Report(j) \/ Timeout(j)
  BY <1>1, <1>3 DEF Report, Timeout
<1>4. CASE WorkerCrash
  <2>1. task' = [t \in Slot |-> IF ProcOf(t) = "worker" /\ t[2] \in Running
                                THEN [task[t] EXCEPT !.step = "retry", !.items = <<>>]
                                ELSE task[t]]
    BY <1>4 DEF WorkerCrash
  <2>2. ASSUME NEW t \in Slot PROVE task'[t] \in Work /\ Ready(task'[t])
    <3> DEFINE one == [task[t] EXCEPT !.step = "retry"]
               two == [one EXCEPT !.items = <<>>]
    <3>0. "retry" \in At /\ task[t] \in Work /\ <<>> \in Seq(Topics \cup Word)
      BY <1>t DEF TaskType, At
    <3>1. one \in Work /\ one.step = "retry"
      BY <3>0, StepField
    <3>2. two \in Work /\ two.step = "retry"
      <4> HIDE DEF one
      <4>1. two.step = one.step /\ two \in Work
        BY <3>0, <3>1, ItemsField
      <4> QED
        BY <3>1, <4>1
    <3>3. Ready(two)
      <4> HIDE DEF two
      <4> QED
        BY <3>2 DEF Ready
    <3>4. task'[t] = two \/ task'[t] = task[t]
      BY <2>1
    <3> HIDE DEF two
    <3> QED
      BY <1>t, <3>2, <3>3, <3>4 DEF TaskType
  <2>3. \A u \in Slot : ProcOf(u) = "api" => task'[u] = task[u]
    BY <2>1
  <2> QED
    BY <2>1, <2>2, <2>3 DEF TaskType
<1> QED
  BY <1>2, <1>3, <1>4

LEMMA ApiCrashType ==
  ASSUME TypeInv, ApiCrash
  PROVE  /\ TaskType'
         /\ \A u \in Slot : ProcOf(u) = "api" => task'[u].step \in {"ended", None}
<1>1. TaskType
  BY DEF TypeInv
<1>2. task' = [t \in Slot |-> IF ProcOf(t) = "api" /\ task[t].step # None
                              THEN [task[t] EXCEPT !.step = "ended"] ELSE task[t]]
  BY DEF ApiCrash
<1>3. ASSUME NEW t \in Slot
      PROVE  /\ task'[t] \in Work /\ Ready(task'[t])
             /\ ProcOf(t) = "api" => task'[t].step \in {"ended", None}
  <2> DEFINE one == [task[t] EXCEPT !.step = "ended"]
  <2>0. "ended" \in At /\ task[t] \in Work
    BY <1>1 DEF TaskType, At
  <2>1. one \in Work /\ one.step = "ended"
    BY <2>0, StepField
  <2>2. Ready(one)
    <3> HIDE DEF one
    <3> QED
      BY <2>1 DEF Ready
  <2>3. task'[t] = one \/ (task'[t] = task[t] /\ (ProcOf(t) = "api" => task[t].step = None))
    BY <1>2
  <2> HIDE DEF one
  <2> QED
    BY <1>1, <2>1, <2>2, <2>3 DEF TaskType
<1> QED
  BY <1>2, <1>3 DEF TaskType

\* The actions, as the proofs take them apart.
LEMMA Actions ==
  ASSUME [Next]_vars
  PROVE  \/ \E k \in Command, c \in Chats :
              \/ \E s \in DOMAIN Skills : PickSkill(k, c, s)
              \/ \E y \in Styles : PickStyle(k, c, y)
              \/ PickCharacter(k, c)
              \/ \E more \in Listed : Trending(k, c, more)
              \/ Recommend(k, c)
              \/ StartHandler(k, c)
         \/ \E t \in Slot : Step(t)
         \/ \E k \in Command : Answer(<<"api", k>>)
         \/ TakeJob \/ (\E j \in 1..MaxJobs : Report(j) \/ Timeout(j)) \/ FetchTrending
         \/ WorkerCrash \/ ApiCrash
         \/ UNCHANGED studio
<1>1. CASE StudioCommand
  BY <1>1 DEF StudioCommand, StartHandler
<1>2. CASE WorkerStep
  BY <1>2, WorkerSlot DEF WorkerStep, Running
<1>3. CASE \E k \in Command : Step(<<"api", k>>)
  BY <1>3, ApiSlot
<1>4. CASE UNCHANGED vars
  BY <1>4 DEF vars
<1> QED
  BY <1>1, <1>2, <1>3, <1>4 DEF Next

\* The handler of a reply to a review.
LEMMA AnswerType ==
  ASSUME TypeInv, NEW t \in Slot, Answer(t)
  PROVE  /\ TaskType' /\ Alone(t) /\ task'[t].kind = task[t].kind
         /\ \/ task[t].step = "reply" /\ task'[t].step = "act"
            \/ task[t].step \in {"reply", "act"} /\ task'[t].step = "ended"
<1>1. TaskType /\ {"act", "ended"} \subseteq At \ {"enqueue", "set", "waiting"}
  BY DEF TypeInv, At
<1>2. PICK s \in {"act", "ended"} :
        /\ Go(t, s) /\ task[t].step \in {"reply", "act"}
        /\ s = "act" => task[t].step = "reply"
  BY DEF Answer, TakeReply, ActOnReply
<1>3. s \in At \ {"enqueue", "set", "waiting"}
  BY <1>1
<1>4. TaskType' /\ Alone(t) /\ task'[t].kind = task[t].kind /\ task'[t].step = s
  BY <1>1, <1>2, <1>3, Moves
<1> QED
  BY <1>2, <1>4

LEMMA AnswerSem ==
  ASSUME NEW t, Answer(t)
  PROVE  /\ UNCHANGED <<commands, now, hot, queue, row, runtime, sent, beside, faults>>
         /\ UNCHANGED sem \/ (sem = t /\ sem' = Free)
BY DEF Answer, TakeReply, ActOnReply

LEMMA TaskStep ==
  ASSUME TypeInv, [Next]_vars
  PROVE  TaskType'
<1>1. CASE \/ \E k \in Command, c \in Chats :
                \/ \E s \in DOMAIN Skills : PickSkill(k, c, s)
                \/ \E y \in Styles : PickStyle(k, c, y)
                \/ PickCharacter(k, c)
                \/ \E more \in Listed : Trending(k, c, more)
                \/ Recommend(k, c)
           \/ FetchTrending
           \/ UNCHANGED studio
  <2>1. UNCHANGED task
    BY <1>1 DEF PickSkill, PickStyle, PickCharacter, Trending, Recommend, FetchTrending, studio
  <2> QED
    BY <2>1 DEF TypeInv, TaskType
<1> QED
  BY <1>1, Actions, ApiSlot, StartHandlerType, StepType, AnswerType, WorkerType, ApiCrashType

---------------------------------------------------------------------------
(* The sessions and what was sent.                                         *)

\* One chat of a process changes.
SetChat(p, c, r) == session' = [session EXCEPT ![p][c] = r]

LEMMA ChatSet ==
  ASSUME SessionType, NEW p \in Proc, NEW c \in Chats, NEW r \in Chat,
         SetChat(p, c, r)
  PROVE  /\ SessionType' /\ session'[p][c] = r
         /\ \A q \in Proc, d \in Chats : q # p \/ d # c => session'[q][d] = session[q][d]
<1>1. session \in [Proc -> [Chats -> Chat]]
  BY DEF SessionType
<1>2. \A q \in Proc : session'[q] = IF q = p THEN [session[p] EXCEPT ![c] = r] ELSE session[q]
  BY <1>1 DEF SetChat
<1>3. [session[p] EXCEPT ![c] = r] \in [Chats -> Chat]
  BY <1>1
<1>4. session' \in [Proc -> [Chats -> Chat]]
  BY <1>1, <1>2, <1>3 DEF SetChat
<1> QED
  BY <1>1, <1>2, <1>4 DEF SessionType

\* A chat is closed under the change of a field, and only one changes its plan.
LEMMA ChatFields ==
  ASSUME NEW r \in Chat
  PROVE  /\ \A l \in Seq(Topics) : LET q == [r EXCEPT !.recs = l]
                                   IN q \in Chat /\ q.plan = r.plan
         /\ \A l \in Seq(Topics) : LET q == [r EXCEPT !.trends = l]
                                   IN q \in Chat /\ q.plan = r.plan
         /\ \A b \in BOOLEAN : LET q == [r EXCEPT !.reviewing = b]
                               IN q \in Chat /\ q.plan = r.plan
         /\ \A s \in DOMAIN Skills \cup {None} : LET q == [r EXCEPT !.skill = s]
                                                 IN q \in Chat /\ q.plan = r.plan
         /\ \A y \in Styles \cup {None} : LET q == [r EXCEPT !.style = y]
                                          IN q \in Chat /\ q.plan = r.plan
         /\ \A x \in Plan : LET q == [r EXCEPT !.plan = x] IN q \in Chat /\ q.plan = x
BY DEF Chat

PlansKept == \A d \in Chats : session'["api"][d].plan = session["api"][d].plan

LEMMA CommandSession ==
  ASSUME TypeInv, NEW k \in Command, NEW c \in Chats,
         \/ \E s \in DOMAIN Skills : PickSkill(k, c, s)
         \/ \E more \in Listed : Trending(k, c, more)
         \/ Recommend(k, c)
  PROVE  SessionType' /\ PlansKept
<1> DEFINE r == session["api"][c]
<1>1. /\ SessionType /\ session \in [Proc -> [Chats -> Chat]] /\ r \in Chat /\ "api" \in Proc
      /\ hot \in SUBSET Topics
  BY DEF TypeInv, SessionType, OtherType, Proc
<1>2. ASSUME NEW q \in Chat, q.plan = r.plan, SetChat("api", c, q)
      PROVE  SessionType' /\ PlansKept
  <2> HIDE DEF r
  <2>1. /\ SessionType' /\ session'["api"][c] = q
        /\ \A d \in Chats : d # c => session'["api"][d] = session["api"][d]
    BY <1>1, <1>2, ChatSet
  <2> QED
    BY <1>2, <2>1 DEF PlansKept, r
<1>3. CASE \E s \in DOMAIN Skills : PickSkill(k, c, s)
  <2>1. PICK s \in DOMAIN Skills : PickSkill(k, c, s)
    BY <1>3
  <2> DEFINE one == [r EXCEPT !.skill = s]
             two == [one EXCEPT !.style = Skills[s]]
  <2>2. Skills[s] \in Styles \cup {None}
    BY StudioAssumption
  <2>3. one \in Chat /\ one.plan = r.plan
    BY <1>1, ChatFields
  <2>4. two \in Chat /\ two.plan = r.plan
    <3> HIDE DEF one
    <3> QED
      BY <2>2, <2>3, ChatFields
  <2>5. SetChat("api", c, two)
    BY <1>1, <2>1 DEF PickSkill, SetChat
  <2> HIDE DEF two, r
  <2> QED
    BY <1>2, <2>4, <2>5
<1>4. CASE \E more \in Listed : Trending(k, c, more)
  <2>1. PICK more \in Listed : Trending(k, c, more)
    BY <1>4
  <2> DEFINE S == hot'
             n == Cardinality(S)
  <2>2. S \in SUBSET Topics
    BY <1>1, <2>1 DEF Trending, Fetched, Listed
  <2>3. PICK l \in Lists(S, n) :
          session' = IF l = <<>> THEN session ELSE [session EXCEPT !["api"][c].trends = l]
    BY <2>1 DEF Trending
  <2>4. n \in Nat
    BY <2>2, StudioAssumption, FS_Subset, FS_CardinalityType
  <2>5. l \in Seq(Topics)
    <3> HIDE DEF S, n
    <3> QED
      BY <2>2, <2>3, <2>4, ListsType
  <2> DEFINE one == [r EXCEPT !.trends = l]
  <2>6. one \in Chat /\ one.plan = r.plan
    BY <1>1, <2>5, ChatFields
  <2>7. UNCHANGED session \/ SetChat("api", c, one)
    BY <1>1, <2>3 DEF SetChat
  <2> HIDE DEF one, r
  <2> QED
    BY <1>1, <1>2, <2>6, <2>7 DEF SessionType, PlansKept
<1>5. CASE Recommend(k, c)
  <2>1. PICK l \in Recommended(5) : session' = [session EXCEPT !["api"][c].recs = l]
    BY <1>5 DEF Recommend
  <2>2. l \in Seq(Topics)
    BY <1>1, RecommendedType
  <2> DEFINE one == [r EXCEPT !.recs = l]
  <2>3. one \in Chat /\ one.plan = r.plan
    BY <1>1, <2>2, ChatFields
  <2>4. SetChat("api", c, one)
    BY <1>1, <2>1 DEF SetChat
  <2> HIDE DEF one, r
  <2> QED
    BY <1>2, <2>3, <2>4
<1> QED
  BY <1>3, <1>4, <1>5

\* A chain saves the plan it showed, whatever was saved in the chat before.
LEMMA SaveSession ==
  ASSUME TypeInv, NEW t \in Slot, Save(t), ProcOf(t) \in Proc
  PROVE  /\ SessionType'
         /\ \A d \in Chats : ProcOf(t) = "api" /\ d = task[t].chat
                               => session'["api"][d].plan = PlanOf(t)
         /\ \A d \in Chats : ProcOf(t) # "api" \/ d # task[t].chat
                               => session'["api"][d].plan = session["api"][d].plan
<1> DEFINE p == ProcOf(t)
           c == task[t].chat
           y == SavedStyle(t)
<1>1. /\ SessionType /\ session \in [Proc -> [Chats -> Chat]] /\ p \in Proc /\ "api" \in Proc
      /\ task[t] \in Work /\ now.style \in Styles
  BY DEF TypeInv, SessionType, OtherType, Proc, TaskType, Now
<1>2. PlanOf(t) \in Plan /\ y \in Styles \cup {None}
  BY <1>1 DEF PlanOf, Plan, Work, SavedStyle
<1>3. session' = [session EXCEPT ![p][c].plan = PlanOf(t), ![p][c].style = y]
  BY DEF Save
<1>4. CASE c \notin Chats
  <2> HIDE DEF p, c, y
  <2>1. session' = session
    BY <1>1, <1>3, <1>4
  <2> QED
    BY <1>1, <1>4, <2>1 DEF SessionType, c
<1>5. CASE c \in Chats
  <2> DEFINE r == session[p][c]
             one == [r EXCEPT !.plan = PlanOf(t)]
             two == [one EXCEPT !.style = y]
  <2>1. r \in Chat
    BY <1>1, <1>5
  <2>2. one \in Chat /\ one.plan = PlanOf(t)
    BY <1>2, <2>1, ChatFields
  <2>3. two \in Chat /\ two.plan = PlanOf(t)
    <3> HIDE DEF one, y
    <3> QED
      BY <1>2, <2>2, ChatFields
  <2>4. SetChat(p, c, two)
    <3> HIDE DEF p, c, y
    <3> QED
      BY <1>1, <1>3, <1>5 DEF SetChat
  <2> HIDE DEF two
  <2>5. /\ SessionType' /\ session'[p][c] = two
        /\ \A q \in Proc, d \in Chats : q # p \/ d # c => session'[q][d] = session[q][d]
    <3> HIDE DEF p, c
    <3> QED
      BY <1>1, <1>5, <2>3, <2>4, ChatSet
  <2> QED
    BY <1>1, <2>3, <2>5
<1> QED
  BY <1>4, <1>5

LEMMA TakePlanSession ==
  ASSUME TypeInv, NEW t \in Slot, TakePlan(t), ProcOf(t) \in Proc
  PROVE  SessionType' /\ PlansKept
<1> DEFINE p == ProcOf(t)
           c == task[t].chat
           one == [session[p][c] EXCEPT !.reviewing = TRUE]
<1>1. /\ SessionType /\ session \in [Proc -> [Chats -> Chat]] /\ p \in Proc /\ "api" \in Proc
  BY DEF TypeInv, SessionType, Proc
<1>2. UNCHANGED session \/ session' = [session EXCEPT ![p][c].reviewing = TRUE]
  BY DEF TakePlan
<1>3. CASE UNCHANGED session
  BY <1>1, <1>3 DEF SessionType, PlansKept
<1>4. CASE session' = [session EXCEPT ![p][c].reviewing = TRUE] /\ c \notin Chats
  <2> HIDE DEF p, c
  <2>1. session' = session
    BY <1>1, <1>4
  <2> QED
    BY <1>1, <2>1 DEF SessionType, PlansKept
<1>5. CASE session' = [session EXCEPT ![p][c].reviewing = TRUE] /\ c \in Chats
  <2> HIDE DEF p, c
  <2>1. session[p][c] \in Chat
    BY <1>1, <1>5
  <2>2. one \in Chat /\ one.plan = session[p][c].plan
    BY <2>1, ChatFields
  <2>3. SetChat(p, c, one)
    BY <1>1, <1>5 DEF SetChat
  <2> HIDE DEF one
  <2>4. /\ SessionType' /\ session'[p][c] = one
        /\ \A q \in Proc, d \in Chats : q # p \/ d # c => session'[q][d] = session[q][d]
    BY <1>1, <1>5, <2>2, <2>3, ChatSet
  <2> QED
    BY <1>1, <2>2, <2>4 DEF PlansKept
<1> QED
  BY <1>2, <1>3, <1>4, <1>5

LEMMA AnswerSession ==
  ASSUME TypeInv, NEW k \in Command, Answer(<<"api", k>>)
  PROVE  SessionType' /\ PlansKept
<1> DEFINE c == task[<<"api", k>>].chat
           one == [session["api"][c] EXCEPT !.reviewing = FALSE]
<1>1. SessionType /\ session \in [Proc -> [Chats -> Chat]] /\ "api" \in Proc
  BY DEF TypeInv, SessionType, Proc
<1>2. UNCHANGED session \/ session' = [session EXCEPT !["api"][c].reviewing = FALSE]
  BY DEF Answer, TakeReply, ActOnReply
<1>3. CASE UNCHANGED session
  BY <1>1, <1>3 DEF SessionType, PlansKept
<1>4. CASE session' = [session EXCEPT !["api"][c].reviewing = FALSE] /\ c \notin Chats
  <2> HIDE DEF c
  <2>1. session' = session
    BY <1>1, <1>4
  <2> QED
    BY <1>1, <2>1 DEF SessionType, PlansKept
<1>5. CASE session' = [session EXCEPT !["api"][c].reviewing = FALSE] /\ c \in Chats
  <2> HIDE DEF c
  <2>1. session["api"][c] \in Chat
    BY <1>1, <1>5
  <2>2. one \in Chat /\ one.plan = session["api"][c].plan
    BY <2>1, ChatFields
  <2>3. SetChat("api", c, one)
    BY <1>1, <1>5 DEF SetChat
  <2> HIDE DEF one
  <2>4. /\ SessionType' /\ session'["api"][c] = one
        /\ \A q \in Proc, d \in Chats : q # "api" \/ d # c => session'[q][d] = session[q][d]
    BY <1>1, <1>5, <2>2, <2>3, ChatSet
  <2> QED
    BY <1>1, <2>2, <2>4 DEF PlansKept
<1> QED
  BY <1>2, <1>3, <1>4, <1>5

\* A process that restarts has empty chats, and sent nothing.
LEMMA NoSessionType == NoSession \in Chat /\ NoPlan \in Plan /\ NoSession.plan = NoPlan
<1>1. NoPlan \in Plan
  BY DEF NoPlan, Plan, Start
<1>2. None \in Styles \cup {None} /\ None \in DOMAIN Skills \cup {None} /\ <<>> \in Seq(Topics)
  OBVIOUS
<1> QED
  BY <1>1, <1>2 DEF NoSession, Chat

LEMMA CrashSession ==
  ASSUME TypeInv, WorkerCrash
  PROVE  SessionType' /\ SentType' /\ PlansKept /\ sent'["api"] = sent["api"]
<1>1. /\ session \in [Proc -> [Chats -> Chat]] /\ sent \in [Proc -> [Chats -> Plan]]
      /\ "api" \in Proc /\ "worker" \in Proc
  BY DEF TypeInv, SessionType, SentType, Proc
<1>2. /\ session' = [session EXCEPT !["worker"] = [c \in Chats |-> NoSession]]
      /\ sent' = [sent EXCEPT !["worker"] = [c \in Chats |-> NoPlan]]
  BY DEF WorkerCrash
<1> QED
  BY <1>1, <1>2, NoSessionType DEF SessionType, SentType, PlansKept

LEMMA ApiCrashSession ==
  ASSUME TypeInv, ApiCrash
  PROVE  /\ SessionType' /\ SentType'
         /\ \A d \in Chats : session'["api"][d].plan = sent'["api"][d]
<1>1. /\ session \in [Proc -> [Chats -> Chat]] /\ sent \in [Proc -> [Chats -> Plan]]
      /\ "api" \in Proc
  BY DEF TypeInv, SessionType, SentType, Proc
<1>2. /\ session' = [session EXCEPT !["api"] = [c \in Chats |-> NoSession]]
      /\ sent' = [sent EXCEPT !["api"] = [c \in Chats |-> NoPlan]]
  BY DEF ApiCrash
<1>3. SessionType' /\ SentType'
  BY <1>1, <1>2, NoSessionType DEF SessionType, SentType
<1>4. \A d \in Chats : session'["api"][d] = NoSession /\ sent'["api"][d] = NoPlan
  BY <1>1, <1>2
<1> QED
  BY <1>3, <1>4, NoSessionType

\* What a process sends is a plan, of the chat its chain is for.
LEMMA EvaluateSent ==
  ASSUME TypeInv, NEW t \in Slot, Evaluate(t), ProcOf(t) \in Proc
  PROVE  /\ SentType'
         /\ \A d \in Chats : ProcOf(t) = "api" /\ d = task[t].chat
                               => sent'["api"][d] = PlanOf(t)
         /\ \A d \in Chats : ProcOf(t) # "api" \/ d # task[t].chat
                               => sent'["api"][d] = sent["api"][d]
<1> DEFINE p == ProcOf(t)
           c == task[t].chat
           x == PlanOf(t)
<1>1. sent \in [Proc -> [Chats -> Plan]] /\ p \in Proc /\ "api" \in Proc /\ task[t] \in Work
  BY DEF TypeInv, SentType, TaskType, Proc
<1>2. x \in Plan
  BY <1>1 DEF PlanOf, Plan, Work
<1>3. sent' = [sent EXCEPT ![p][c] = x]
  BY DEF Evaluate
<1> HIDE DEF p, c, x
<1>4. SentType'
  BY <1>1, <1>2, <1>3 DEF SentType
<1>5. \A d \in Chats : p = "api" /\ d = c => sent'["api"][d] = x
  BY <1>1, <1>3
<1>6. \A d \in Chats : p # "api" \/ d # c => sent'["api"][d] = sent["api"][d]
  BY <1>1, <1>3
<1> QED
  BY <1>4, <1>5, <1>6 DEF p, c, x

\* Which steps touch the sessions, and what was sent.
LEMMA SlotProc ==
  ASSUME NEW t \in Slot
  PROVE  ProcOf(t) \in Proc
BY DEF Slot, ProcOf, Proc

LEMMA StepSession ==
  ASSUME TypeInv, NEW t \in Slot, Step(t)
  PROVE  /\ SessionType' /\ SentType'
         /\ Save(t) \/ PlansKept
         /\ Evaluate(t) \/ UNCHANGED sent
<1>1. SessionType /\ SentType /\ ProcOf(t) \in Proc
  BY SlotProc DEF TypeInv
<1>2. CASE Save(t)
  <2>1. UNCHANGED sent
    BY <1>2 DEF Save
  <2> QED
    BY <1>1, <1>2, <2>1, SaveSession DEF SentType
<1>3. CASE TakePlan(t)
  <2>1. UNCHANGED sent
    BY <1>3 DEF TakePlan
  <2> QED
    BY <1>1, <1>3, <2>1, TakePlanSession DEF SentType
<1>4. CASE Evaluate(t)
  <2>1. UNCHANGED session
    BY <1>4 DEF Evaluate
  <2> QED
    BY <1>1, <1>4, <2>1, EvaluateSent DEF SessionType, PlansKept
<1>5. CASE \/ Enqueues(t) \/ Analyse(t) \/ AnalyseAgain(t) \/ SetNext(t)
           \/ Enter(t) \/ Watch(t) \/ (\E fine \in BOOLEAN : Write(t, fine))
           \/ Review(t) \/ Raise(t) \/ ConfirmFails(t)
           \/ ReadChat(t) \/ ReadSize(t) \/ ReadSwitch(t) \/ DailyTopics(t)
  <2>1. UNCHANGED <<session, sent>>
    BY <1>5 DEF Enqueues, Analyse, AnalyseAgain, SetNext, Enter, Watch, Write, Review, Raise,
                ConfirmFails, ReadChat, ReadSize, ReadSwitch, DailyTopics
  <2> QED
    BY <1>1, <2>1 DEF SessionType, SentType, PlansKept
<1> QED
  BY <1>2, <1>3, <1>4, <1>5 DEF Step

LEMMA SessionStep ==
  ASSUME TypeInv, [Next]_vars
  PROVE  SessionType' /\ SentType'
<1>1. SessionType /\ SentType
  BY DEF TypeInv
<1>2. ASSUME NEW k \in Command, NEW c \in Chats,
             \/ \E s \in DOMAIN Skills : PickSkill(k, c, s)
             \/ \E more \in Listed : Trending(k, c, more)
             \/ Recommend(k, c)
      PROVE  SessionType' /\ SentType'
  <2>1. UNCHANGED sent
    BY <1>2 DEF PickSkill, Trending, Recommend
  <2> QED
    BY <1>1, <1>2, <2>1, CommandSession DEF SentType
<1>3. ASSUME NEW k \in Command, NEW c \in Chats,
             \/ \E y \in Styles : PickStyle(k, c, y)
             \/ PickCharacter(k, c)
             \/ StartHandler(k, c)
      PROVE  UNCHANGED <<session, sent>>
  BY <1>3 DEF PickStyle, PickCharacter, StartHandler, Chain, Upload, Confirm, Reply, Number, Batch,
              BlowUp, Schedule
<1>4. ASSUME NEW k \in Command, Answer(<<"api", k>>) PROVE SessionType' /\ SentType'
  BY <1>1, <1>4, AnswerSem, AnswerSession DEF SentType
<1>5. CASE TakeJob \/ (\E j \in 1..MaxJobs : Report(j) \/ Timeout(j)) \/ FetchTrending
           \/ UNCHANGED studio
  <2>1. UNCHANGED <<session, sent>>
    BY <1>5 DEF TakeJob, Report, Timeout, FetchTrending, studio
  <2> QED
    BY <1>1, <2>1 DEF SessionType, SentType
<1>6. (UNCHANGED <<session, sent>>) => SessionType' /\ SentType'
  BY <1>1 DEF SessionType, SentType
<1> QED
  BY <1>2, <1>3, <1>4, <1>5, <1>6, Actions, StepSession, CrashSession, ApiCrashSession

---------------------------------------------------------------------------
(* The queue, the settings and the semaphore.                              *)

\* The queue after a job was taken out of it, and after a worker was lost.
LEMMA RemoveType ==
  ASSUME NEW S, NEW s \in Seq(S), NEW i \in DOMAIN s
  PROVE  RemoveAt(s, i) \in Seq(S)
<1>1. Len(s) \in Nat /\ i \in 1..Len(s)
  BY LenProperties
<1>2. SubSeq(s, 1, i - 1) \in Seq(S) /\ SubSeq(s, i + 1, Len(s)) \in Seq(S)
  <2>1. \A j \in 1..(i - 1) : s[j] \in S
    BY <1>1, ElementOfSeq
  <2>2. \A j \in (i + 1)..Len(s) : s[j] \in S
    BY <1>1, ElementOfSeq
  <2>3. 1 \in Int /\ i - 1 \in Int /\ i + 1 \in Int /\ Len(s) \in Int
    BY <1>1
  <2> QED
    BY <2>1, <2>2, <2>3, SubSeqProperties
<1> QED
  BY <1>2, ConcatProperties DEF RemoveAt

LEMMA SetToSeqType ==
  ASSUME NEW T, NEW S \in SUBSET T, IsFiniteSet(S)
  PROVE  SetToSeq(S) \in Seq(T)
<1> DEFINE n == Cardinality(S)
<1>1. n \in Nat
  BY FS_CardinalityType
<1>2. \E f \in [1..n -> S] : IsInjective(f)
  <2>1. PICK f \in Bijection(1..n, S) : TRUE
    BY FS_CardinalityType DEF ExistsBijection
  <2>2. f \in [1..n -> S] /\ IsInjective(f)
    BY <2>1 DEF Bijection, Injection
  <2> QED
    BY <2>2
<1>3. SetToSeq(S) \in [1..n -> S]
  BY <1>2 DEF SetToSeq
<1>4. SetToSeq(S) \in [1..n -> T]
  BY <1>3
<1> QED
  BY <1>1, <1>4, SeqDef

LEMMA QueueStep ==
  ASSUME TypeInv, [Next]_vars
  PROVE  QueueType'
<1>1. /\ queue \in Seq(1..MaxJobs)
      /\ row \in [1..MaxJobs -> {None, "running", "done", "failed"}]
  BY DEF TypeInv, QueueType
<1>2. ASSUME NEW t \in Slot, Step(t) PROVE QueueType'
  <2>1. UNCHANGED row
    BY <1>2 DEF Step, Enqueues, Analyse, AnalyseAgain, SetNext, Enter, Watch, Write, Review,
                Evaluate, Save, Raise, TakePlan, ConfirmFails, ReadChat, ReadSize, ReadSwitch,
                DailyTopics
  <2>2. CASE Enqueues(t)
    BY <1>1, <2>1, <2>2, EnqueuesType DEF QueueType
  <2>3. CASE SetNext(t)
    BY <1>1, <2>1, <2>3, SetNextType DEF QueueType
  <2>4. CASE ~Enqueues(t) /\ ~SetNext(t)
    <3>1. UNCHANGED queue
      BY <1>2, <2>4 DEF Step, Analyse, AnalyseAgain, Enter, Watch, Write, Review,
                  Evaluate, Save, Raise, TakePlan, ConfirmFails, ReadChat, ReadSize, ReadSwitch,
                  DailyTopics
    <3> QED
      BY <1>1, <2>1, <3>1 DEF QueueType
  <2> QED
    BY <2>2, <2>3, <2>4
<1>3. CASE TakeJob
  <2>1. PICK i \in DOMAIN queue :
          /\ queue' = RemoveAt(queue, i)
          /\ UNCHANGED row \/ row' = [row EXCEPT ![queue[i]] = "running"]
    BY <1>3 DEF TakeJob
  <2>2. queue' \in Seq(1..MaxJobs)
    BY <1>1, <2>1, RemoveType
  <2> QED
    BY <1>1, <2>1, <2>2 DEF QueueType
<1>4. ASSUME NEW j \in 1..MaxJobs, Report(j) PROVE QueueType'
  <2>1. UNCHANGED queue /\ \E s \in {"done", "failed"} : row' = [row EXCEPT ![j] = s]
    BY <1>4 DEF Report
  <2> QED
    BY <1>1, <2>1 DEF QueueType
<1>5. CASE WorkerCrash
  <2>1. queue' = SetToSeq(Running) \o queue /\ UNCHANGED row
    BY <1>5 DEF WorkerCrash
  <2>2. Running \in SUBSET (1..MaxJobs)
    BY Zenon DEF Running
  <2>3. IsFiniteSet(Running)
    BY <2>2, JobsFinite, FS_Subset
  <2>4. SetToSeq(Running) \in Seq(1..MaxJobs)
    BY <2>2, <2>3, SetToSeqType
  <2>5. queue' \in Seq(1..MaxJobs)
    BY <1>1, <2>1, <2>4, ConcatProperties
  <2> QED
    BY <1>1, <2>1, <2>5 DEF QueueType
<1>6. ASSUME NEW k \in Command, NEW c \in Chats,
             \/ \E s \in DOMAIN Skills : PickSkill(k, c, s)
             \/ \E y \in Styles : PickStyle(k, c, y)
             \/ PickCharacter(k, c)
             \/ \E more \in Listed : Trending(k, c, more)
             \/ Recommend(k, c)
             \/ StartHandler(k, c)
      PROVE  UNCHANGED <<queue, row>>
  BY <1>6 DEF PickSkill, PickStyle, PickCharacter, Trending, Recommend, StartHandler, Chain,
              Upload, Confirm, Reply, Number, Batch, BlowUp, Schedule
<1>7. CASE \/ \E k \in Command : Answer(<<"api", k>>)
           \/ \E j \in 1..MaxJobs : Timeout(j)
           \/ FetchTrending \/ ApiCrash \/ UNCHANGED studio
  <2>1. UNCHANGED <<queue, row>>
    BY <1>7, AnswerSem DEF Timeout, FetchTrending, ApiCrash, studio
  <2> QED
    BY <1>1, <2>1 DEF QueueType
<1>8. UNCHANGED <<queue, row>> => QueueType'
  BY <1>1 DEF QueueType
<1> QED
  BY <1>2, <1>3, <1>4, <1>5, <1>6, <1>7, <1>8, Actions

\* The settings of the process and those in Redis.
LEMMA NowType ==
  ASSUME now \in Now
  PROVE  /\ Defaults \in Now
         /\ \A y \in Styles : [now EXCEPT !.style = y] \in Now
         /\ \A s \in DOMAIN Skills :
              [now EXCEPT !.skill = s, !.style = Skills[s]] \in Now
         /\ [now EXCEPT !.character = TRUE] \in Now
<1>1. Defaults \in Now
  BY StudioAssumption DEF Defaults, Now
<1>2. /\ \A y \in Styles : [now EXCEPT !.style = y] \in Now
      /\ [now EXCEPT !.character = TRUE] \in Now
  BY DEF Now
<1>3. ASSUME NEW s \in DOMAIN Skills
      PROVE  [now EXCEPT !.skill = s, !.style = Skills[s]] \in Now
  <2>1. Skills[s] \in Styles
    BY StudioAssumption
  <2> QED
    BY <2>1 DEF Now
<1> QED
  BY <1>1, <1>2, <1>3

LEMMA NowStep ==
  ASSUME TypeInv, [Next]_vars
  PROVE  now' \in Now
<1>1. now \in Now
  BY DEF TypeInv, OtherType
<1>2. ASSUME NEW k \in Command, NEW c \in Chats, NEW s \in DOMAIN Skills, PickSkill(k, c, s)
      PROVE  now' \in Now
  BY <1>1, <1>2, NowType DEF PickSkill
<1>3. ASSUME NEW k \in Command, NEW c \in Chats, NEW y \in Styles, PickStyle(k, c, y)
      PROVE  now' \in Now
  BY <1>1, <1>3, NowType DEF PickStyle
<1>4. ASSUME NEW k \in Command, NEW c \in Chats, PickCharacter(k, c)
      PROVE  now' \in Now
  BY <1>1, <1>4, NowType DEF PickCharacter
<1>5. ASSUME NEW k \in Command, NEW c \in Chats,
             (\E more \in Listed : Trending(k, c, more)) \/ Recommend(k, c) \/ StartHandler(k, c)
      PROVE  UNCHANGED now
  BY <1>5 DEF Trending, Recommend, StartHandler, Chain, Upload, Confirm, Reply, Number, Batch, BlowUp,
              Schedule
<1>6. ASSUME NEW t \in Slot, Step(t) PROVE UNCHANGED now
  BY <1>6 DEF Step, Enqueues, Analyse, AnalyseAgain, SetNext, Enter, Watch, Write, Review,
              Evaluate, Save, Raise, TakePlan, ConfirmFails, ReadChat, ReadSize, ReadSwitch,
              DailyTopics
<1>7. CASE \/ \E k \in Command : Answer(<<"api", k>>)
           \/ TakeJob \/ (\E j \in 1..MaxJobs : Report(j) \/ Timeout(j)) \/ FetchTrending
           \/ WorkerCrash \/ UNCHANGED studio
  BY <1>1, <1>7, AnswerSem DEF TakeJob, Report, Timeout, FetchTrending, WorkerCrash, studio
<1>8. CASE ApiCrash
  BY <1>1, <1>8, NowType DEF ApiCrash
<1> QED
  BY <1>1, <1>2, <1>3, <1>4, <1>5, <1>6, <1>7, <1>8, Actions

LEMMA SemStep ==
  ASSUME TypeInv, [Next]_vars
  PROVE  sem' \in Slot \cup {Free} /\ hot' \subseteq Topics
<1>1. sem \in Slot \cup {Free} /\ hot \subseteq Topics
  BY DEF TypeInv, OtherType
<1>2. ASSUME NEW t \in Slot, Step(t) PROVE sem' \in Slot \cup {Free} /\ hot' \subseteq Topics
  <2>1. sem' \in {sem, t, Free}
    BY <1>2 DEF Step, Enqueues, Analyse, AnalyseAgain, SetNext, Enter, Watch, Write, Review,
                Evaluate, Save, Raise, TakePlan, ConfirmFails, ReadChat, ReadSize, ReadSwitch,
                DailyTopics, Leave
  <2>2. \E more \in Listed \cup {{}} : hot' = hot \/ hot' = hot \cup more
    BY <1>2 DEF Step, Enqueues, Analyse, AnalyseAgain, SetNext, Enter, Watch, Write, Review,
                Evaluate, Save, Raise, TakePlan, ConfirmFails, ReadChat, ReadSize, ReadSwitch,
                DailyTopics, Fetched
  <2> QED
    BY <1>1, <2>1, <2>2 DEF Listed
<1>3. ASSUME NEW k \in Command, NEW c \in Chats,
             \/ \E s \in DOMAIN Skills : PickSkill(k, c, s)
             \/ \E y \in Styles : PickStyle(k, c, y)
             \/ PickCharacter(k, c)
             \/ \E more \in Listed : Trending(k, c, more)
             \/ Recommend(k, c)
             \/ StartHandler(k, c)
      PROVE  UNCHANGED sem /\ hot' \subseteq Topics
  <2>1. CASE \E more \in Listed : Trending(k, c, more)
    BY <1>1, <2>1 DEF Trending, Fetched, Listed
  <2>2. CASE ~\E more \in Listed : Trending(k, c, more)
    BY <1>1, <1>3, <2>2 DEF PickSkill, PickStyle, PickCharacter, Recommend, StartHandler, Chain,
                       Upload, Confirm, Reply, Number, Batch, BlowUp, Schedule
  <2> QED
    BY <2>1, <2>2
<1>4. CASE FetchTrending
  BY <1>1, <1>4 DEF FetchTrending, Fetched, Listed
<1>5. CASE \/ \E k \in Command : Answer(<<"api", k>>)
           \/ TakeJob \/ (\E j \in 1..MaxJobs : Report(j) \/ Timeout(j))
           \/ WorkerCrash \/ UNCHANGED studio
  BY <1>1, <1>5, AnswerSem DEF TakeJob, Report, Timeout, WorkerCrash, studio
<1>6. CASE ApiCrash
  BY <1>1, <1>6 DEF ApiCrash
<1> QED
  BY <1>1, <1>2, <1>3, <1>4, <1>5, <1>6, Actions

\* Every text makes its chat the one of the daily batch.
LEMMA RuntimeStep ==
  ASSUME TypeInv, [Next]_vars
  PROVE  runtime' \in Setting
<1>1. runtime \in Setting
  BY DEF TypeInv, OtherType
<1>2. ASSUME NEW c \in Chats PROVE [runtime EXCEPT !.chat = c] \in Setting
  BY <1>1 DEF Setting
<1>3. ASSUME NEW k \in Command, NEW c \in Chats,
             \/ \E s \in DOMAIN Skills : PickSkill(k, c, s)
             \/ \E y \in Styles : PickStyle(k, c, y)
             \/ PickCharacter(k, c)
             \/ \E more \in Listed : Trending(k, c, more)
             \/ Recommend(k, c)
             \/ StartHandler(k, c)
      PROVE  runtime' \in Setting
  <2>1. UNCHANGED runtime \/ runtime' = [runtime EXCEPT !.chat = c]
    BY <1>3 DEF PickSkill, PickStyle, PickCharacter, Trending, Recommend, StartHandler, Chain,
                Upload, Confirm, Reply, Number, Batch, BlowUp, Schedule, Text
  <2> QED
    BY <1>1, <1>2, <2>1
<1>4. ASSUME NEW t \in Slot, Step(t) PROVE runtime' \in Setting
  <2>1. CASE SetNext(t)
    BY <2>1, SetNextType
  <2>2. CASE ~SetNext(t)
    BY <1>1, <1>4, <2>2 DEF Step, Enqueues, Analyse, AnalyseAgain, Enter, Watch, Write, Review,
                Evaluate, Save, Raise, TakePlan, ConfirmFails, ReadChat, ReadSize, ReadSwitch,
                DailyTopics
  <2> QED
    BY <2>1, <2>2
<1>5. CASE \/ \E k \in Command : Answer(<<"api", k>>)
           \/ TakeJob \/ (\E j \in 1..MaxJobs : Report(j) \/ Timeout(j)) \/ FetchTrending
           \/ WorkerCrash \/ ApiCrash \/ UNCHANGED studio
  BY <1>1, <1>5, AnswerSem DEF TakeJob, Report, Timeout, FetchTrending, WorkerCrash, ApiCrash,
                    studio
<1> QED
  BY <1>3, <1>4, <1>5, Actions

\* Once chains ran beside each other in a chat, that stays noted.
LEMMA JoinsType ==
  ASSUME beside \in [Chats -> BOOLEAN], NEW c, NEW b \in BOOLEAN, Joins(c, b)
  PROVE  beside' \in [Chats -> BOOLEAN] /\ \A d \in Chats : beside[d] => beside'[d]
<1> DEFINE x == beside[c] \/ \E t \in Working("api", c) : b \/ task[t].source = "number"
<1>1. beside' = [beside EXCEPT ![c] = x] /\ x \in BOOLEAN
  BY Zenon DEF Joins
<1>2. beside[c] => x
  OBVIOUS
<1> HIDE DEF x
<1>3. beside' \in [Chats -> BOOLEAN]
  BY <1>1
<1>4. ASSUME NEW d \in Chats, beside[d] PROVE beside'[d]
  <2>1. CASE d = c
    <3>1. beside'[d] = x
      BY <1>1, <2>1
    <3> QED
      BY <1>2, <1>4, <2>1, <3>1
  <2>2. CASE d # c
    <3>1. beside'[d] = beside[d]
      BY <1>1, <2>2
    <3> QED
      BY <1>4, <3>1
  <2> QED
    BY <2>1, <2>2
<1> QED
  BY <1>3, <1>4

LEMMA BesideStep ==
  ASSUME TypeInv, [Next]_vars
  PROVE  beside' \in [Chats -> BOOLEAN] /\ \A d \in Chats : beside[d] => beside'[d]
<1>1. beside \in [Chats -> BOOLEAN]
  BY DEF TypeInv, OtherType
<1>2. ASSUME NEW k \in Command, NEW c \in Chats,
             \/ \E s \in DOMAIN Skills : PickSkill(k, c, s)
             \/ \E y \in Styles : PickStyle(k, c, y)
             \/ PickCharacter(k, c)
             \/ \E more \in Listed : Trending(k, c, more)
             \/ Recommend(k, c)
             \/ StartHandler(k, c)
      PROVE  UNCHANGED beside \/ Joins(c, TRUE)
  BY <1>2 DEF PickSkill, PickStyle, PickCharacter, Trending, Recommend, StartHandler, Chain,
              Upload, Confirm, Reply, Number, Batch, BlowUp, Schedule
<1>3. ASSUME NEW t \in Slot, Step(t) PROVE UNCHANGED beside \/ Joins(task[t].chat, FALSE)
  BY <1>3 DEF Step, Enqueues, Analyse, AnalyseAgain, SetNext, Enter, Watch, Write, Review,
              Evaluate, Save, Raise, TakePlan, ConfirmFails, ReadChat, ReadSize, ReadSwitch,
              DailyTopics
<1>4. CASE \/ \E k \in Command : Answer(<<"api", k>>)
           \/ TakeJob \/ (\E j \in 1..MaxJobs : Report(j) \/ Timeout(j)) \/ FetchTrending
           \/ WorkerCrash \/ ApiCrash \/ UNCHANGED studio
  BY <1>1, <1>4, AnswerSem DEF TakeJob, Report, Timeout, FetchTrending, WorkerCrash, ApiCrash,
                    studio
<1>5. UNCHANGED beside => beside' \in [Chats -> BOOLEAN] /\ \A d \in Chats : beside[d] => beside'[d]
  BY <1>1
<1> QED
  BY <1>1, <1>2, <1>3, <1>4, <1>5, JoinsType, Actions

LEMMA FaultStep ==
  ASSUME TypeInv, [Next]_vars
  PROVE  faults' \in 0..MaxFaults
<1>1. faults \in 0..MaxFaults
  BY DEF TypeInv, OtherType
<1>2. UNCHANGED faults \/ \E f \in {"chain", "confirm", "timeout", "crash"} : Fault(f)
  <2>1. ASSUME NEW k \in Command, NEW c \in Chats,
               \/ \E s \in DOMAIN Skills : PickSkill(k, c, s)
               \/ \E y \in Styles : PickStyle(k, c, y)
               \/ PickCharacter(k, c)
               \/ \E more \in Listed : Trending(k, c, more)
               \/ Recommend(k, c)
               \/ StartHandler(k, c)
        PROVE  UNCHANGED faults
    BY <2>1 DEF PickSkill, PickStyle, PickCharacter, Trending, Recommend, StartHandler, Chain,
                Upload, Confirm, Reply, Number, Batch, BlowUp, Schedule
  <2>2. ASSUME NEW t \in Slot, Step(t) PROVE UNCHANGED faults \/ Fault("chain") \/ Fault("confirm")
    BY <2>2 DEF Step, Enqueues, Analyse, AnalyseAgain, SetNext, Enter, Watch, Write, Review,
                Evaluate, Save, Raise, TakePlan, ConfirmFails, ReadChat, ReadSize, ReadSwitch,
                DailyTopics
  <2>3. CASE \/ \E k \in Command : Answer(<<"api", k>>)
             \/ TakeJob \/ (\E j \in 1..MaxJobs : Report(j) \/ Timeout(j)) \/ FetchTrending
             \/ WorkerCrash \/ ApiCrash \/ UNCHANGED studio
    BY <2>3, AnswerSem DEF TakeJob, Report, Timeout, FetchTrending, WorkerCrash, ApiCrash, studio
  <2> QED
    BY <2>1, <2>2, <2>3, Actions
<1> QED
  BY <1>1, <1>2, StudioAssumption DEF Fault

LEMMA TypeStep ==
  ASSUME MemInv, TypeInv, [Next]_vars
  PROVE  TypeInv'
<1>1. MemoryType'
  BY MemStep DEF MemInv
<1> QED
  BY <1>1, TaskStep, SessionStep, QueueStep, NowStep, SemStep, RuntimeStep, BesideStep, FaultStep
     DEF TypeInv, OtherType

\* A chat whose plan is under review was sent it.
LEMMA StartSession ==
  ASSUME Init
  PROVE  /\ session \in [Proc -> [Chats -> Chat]] /\ sent \in [Proc -> [Chats -> Plan]]
         /\ \A p \in Proc, c \in Chats : session[p][c].plan = sent[p][c]
<1>1. PICK start \in [Chats -> StartPlans] :
        /\ session = [p \in Proc |->
                        [c \in Chats |-> UnderReview(IF p = "api" THEN start[c] ELSE NoPlan)]]
        /\ sent = [p \in Proc |-> [c \in Chats |-> IF p = "api" THEN start[c] ELSE NoPlan]]
  BY DEF Init
<1>2. \A x \in StartPlans \cup {NoPlan} : x \in Plan
  <2>1. Sources \subseteq Start
    BY StartFacts
  <2>2. [theme : Topics, style : Styles, source : Sources] \subseteq Plan
    BY <2>1 DEF Plan
  <2> QED
    BY <2>2, StudioAssumption, NoSessionType
<1>3. ASSUME NEW x \in Plan
      PROVE  UnderReview(x) \in Chat /\ UnderReview(x).plan = x
  <2>1. CASE x = NoPlan
    BY <2>1, NoSessionType DEF UnderReview
  <2>2. CASE x # NoPlan
    <3> DEFINE one == [NoSession EXCEPT !.plan = x]
               two == [one EXCEPT !.style = x.style]
               three == [two EXCEPT !.reviewing = TRUE]
    <3>1. one \in Chat /\ one.plan = x /\ x.style \in Styles \cup {None}
      BY NoSessionType, ChatFields DEF Plan
    <3>2. two \in Chat /\ two.plan = x
      <4> HIDE DEF one
      <4> QED
        BY <3>1, ChatFields
    <3>3. three \in Chat /\ three.plan = x
      <4> HIDE DEF two
      <4> QED
        BY <3>2, ChatFields
    <3>4. UnderReview(x) = three
      BY <2>2 DEF UnderReview, NoSession
    <3> QED
      BY <3>3, <3>4
  <2> QED
    BY <2>1, <2>2
<1> DEFINE before(p, c) == IF p = "api" THEN start[c] ELSE NoPlan
<1>4. \A p \in Proc, c \in Chats : before(p, c) \in Plan
  BY <1>2
<1> HIDE DEF before
<1> QED
  BY <1>1, <1>3, <1>4 DEF before

LEMMA TypeInit == Init => TypeInv
<1> SUFFICES ASSUME Init PROVE TypeInv
  OBVIOUS
<1>1. MemoryType
  BY MemInit DEF MemInv
<1>2. TaskType
  BY NoTaskType DEF Init, TaskType
<1>3. SessionType /\ SentType
  BY StartSession DEF SessionType, SentType
<1>4. QueueType
  BY DEF Init, QueueType
<1>5. OtherType
  <2>1. Defaults \in Now
    BY StudioAssumption DEF Defaults, Now
  <2>2. [enabled |-> None, size |-> 3, chat |-> None] \in Setting
    BY DEF Setting
  <2>3. [c \in Chats |-> FALSE] \in [Chats -> BOOLEAN] /\ 0 \in 0..MaxFaults
    BY StudioAssumption
  <2> QED
    BY <2>1, <2>2, <2>3, StudioAssumption DEF Init, OtherType
<1> QED
  BY <1>1, <1>2, <1>3, <1>4, <1>5 DEF TypeInv

LEMMA TypeInvOK == TypeInv => TypeOK
<1> SUFFICES ASSUME TypeInv PROVE TypeOK
  OBVIOUS
<1>1. MemoryTypeOK
  BY DEF TypeInv, MemoryType, MemoryTypeOK, Ask, AskStep
<1>2. ASSUME NEW p \in Proc, NEW c \in Chats
      PROVE  /\ session[p][c].style \in Styles \cup {None}
             /\ session[p][c].skill \in DOMAIN Skills \cup {None}
             /\ ToSet(session[p][c].recs) \cup ToSet(session[p][c].trends) \subseteq Topics
             /\ session[p][c].plan.theme \in Topics \cup {None}
  <2>1. session[p][c] \in Chat
    BY DEF TypeInv, SessionType
  <2>2. /\ session[p][c].recs \in Seq(Topics) /\ session[p][c].trends \in Seq(Topics)
        /\ session[p][c].plan \in Plan /\ session[p][c].style \in Styles \cup {None}
        /\ session[p][c].skill \in DOMAIN Skills \cup {None}
    BY <2>1 DEF Chat
  <2>3. \A l \in Seq(Topics) : ToSet(l) \subseteq Topics
    BY ElementOfSeq, LenProperties DEF ToSet
  <2> QED
    BY <2>2, <2>3 DEF Plan
<1>3. \A t \in Slot : task[t].count \in 0..10 /\ task[t].chat \in Chats \cup {None}
  BY DEF TypeInv, TaskType, Work
<1> QED
  BY <1>1, <1>2, <1>3 DEF TypeOK, TypeInv, OtherType, QueueType, Now, Setting

\* The variables of the studio keep their types: a topic behind a number is one there is, a
\* style is a template there is, and no batch or schedule is larger than ten, however many
\* people type whatever number at whatever moment, and whichever process restarts.
THEOREM StudioTypeCorrect == Spec => []TypeOK
<1>1. Init => MemInv /\ TypeInv
  BY MemInit, TypeInit
<1>2. MemInv /\ TypeInv /\ [Next]_vars => (MemInv /\ TypeInv)'
  BY MemStep, TypeStep
<1> QED
  BY <1>1, <1>2, TypeInvOK, PTL DEF Spec

---------------------------------------------------------------------------
(* What a confirmation would take is what the chat was shown.              *)

\* In a chat where no number was beside a chain, one chain is at work; one that no number
\* started holds the semaphore; and the evaluation it is about to keep is the one it sent.
\* Each of the parts needs the others: a chain that enters finds the semaphore free, so the
\* chains at work in its chat are those that numbers started, and it would note them.
ShownIn(c) ==
  /\ \A t \in Working("api", c) : task[t].source # "number" => sem = t
  /\ ~beside[c] => \A t, u \in Working("api", c) : t = u
  /\ ~beside[c] => \A t \in Working("api", c) : task[t].step = "save" => sent["api"][c] = PlanOf(t)
  /\ ~beside[c] /\ (\A t \in Working("api", c) : task[t].step # "save")
       => session["api"][c].plan = sent["api"][c]

\* A handler nobody sent a command for has nothing to do.
Fresh == \A k \in Command : k > commands => task[<<"api", k>>] = NoTask

ShownInv == Fresh /\ \A c \in Chats : ShownIn(c)

\* Nothing happens in the chat, or a chain gives up before it keeps anything.
LEMMA ShownStays ==
  ASSUME NEW c \in Chats, ShownIn(c),
         \A u \in Slot : ProcOf(u) = "api" =>
           \/ task'[u] = task[u]
           \/ /\ u \notin Working("api", c)'
              /\ u \in Working("api", c) => task[u].step # "save",
         \A u \in Working("api", c)' : sem = u => sem' = u,
         beside[c] => beside'[c],
         session'["api"][c].plan = session["api"][c].plan,
         sent'["api"][c] = sent["api"][c]
  PROVE  ShownIn(c)'
<1>1. /\ \A u \in Working("api", c)' : u \in Working("api", c) /\ task'[u] = task[u]
      /\ \A u \in Working("api", c) :
           u \in Working("api", c)' \/ task[u].step # "save"
  BY DEF Working
<1>2. \A t \in Working("api", c)' : task'[t].source # "number" => sem' = t
  BY <1>1 DEF ShownIn
<1>3. ~beside'[c] => \A t, u \in Working("api", c)' : t = u
  BY <1>1 DEF ShownIn
<1>4. ~beside'[c] => \A t \in Working("api", c)' : task'[t].step = "save" => sent'["api"][c] = PlanOf(t)'
  BY <1>1 DEF ShownIn, PlanOf
<1>5. ~beside'[c] /\ (\A t \in Working("api", c)' : task'[t].step # "save")
        => session'["api"][c].plan = sent'["api"][c]
  BY <1>1 DEF ShownIn
<1> QED
  BY <1>2, <1>3, <1>4, <1>5 DEF ShownIn

\* A chain starts to work in the chat.
LEMMA ShownJoins ==
  ASSUME NEW c \in Chats, ShownIn(c), NEW t \in Slot, t \notin Working("api", c),
         \A u \in Slot : u # t /\ ProcOf(u) = "api" => task'[u] = task[u],
         task'[t].step # "save", task'[t].source # "number" => sem' = t,
         \A u \in Working("api", c) : task[u].source # "number" => sem' = u,
         ~beside'[c] => ~beside[c] /\ Working("api", c) = {},
         session'["api"][c].plan = session["api"][c].plan,
         sent'["api"][c] = sent["api"][c]
  PROVE  ShownIn(c)'
<1>1. \A u \in Working("api", c)' : u = t \/ (u \in Working("api", c) /\ task'[u] = task[u])
  BY DEF Working
<1>2. \A u \in Working("api", c)' : task'[u].source # "number" => sem' = u
  BY <1>1
<1>3. ~beside'[c] => \A u \in Working("api", c)' : u = t
  BY <1>1
<1>4. ~beside'[c] => session'["api"][c].plan = sent'["api"][c]
  BY DEF ShownIn
<1> QED
  BY <1>2, <1>3, <1>4 DEF ShownIn

\* A chain goes on: it may show its evaluation.
LEMMA ShownGoesOn ==
  ASSUME NEW c \in Chats, ShownIn(c), NEW t \in Working("api", c),
         \A u \in Slot : u # t /\ ProcOf(u) = "api" => task'[u] = task[u],
         task[t].step # "save", task'[t].source = task[t].source,
         task'[t].chat = task[t].chat,
         UNCHANGED sem, UNCHANGED beside,
         session'["api"][c].plan = session["api"][c].plan,
         \/ task'[t].step \in {"write", "review", "evaluate"} /\ sent'["api"][c] = sent["api"][c]
         \/ task'[t].step = "save" /\ sent'["api"][c] = PlanOf(t)'
  PROVE  ShownIn(c)'
<1>1. /\ \A u \in Working("api", c)' : u \in Working("api", c) /\ (u # t => task'[u] = task[u])
      /\ t \in Working("api", c)'
  BY DEF Working
<1>2. \A u \in Working("api", c)' : task'[u].source # "number" => sem' = u
  BY <1>1 DEF ShownIn
<1>3. ~beside'[c] => \A u \in Working("api", c)' : u = t
  BY <1>1 DEF ShownIn
<1>4. ~beside'[c] => \A u \in Working("api", c)' : task'[u].step = "save" => sent'["api"][c] = PlanOf(u)'
  BY <1>3
<1>5. ~beside'[c] /\ (\A u \in Working("api", c)' : task'[u].step # "save")
        => session'["api"][c].plan = sent'["api"][c]
  BY <1>1, <1>3 DEF ShownIn
<1> QED
  BY <1>2, <1>3, <1>4, <1>5 DEF ShownIn

\* A chain keeps the plan it showed, and is through.
LEMMA ShownKept ==
  ASSUME NEW c \in Chats, ShownIn(c), NEW t \in Working("api", c),
         \A u \in Slot : u # t /\ ProcOf(u) = "api" => task'[u] = task[u],
         task[t].step = "save", t \notin Working("api", c)',
         \A u \in Slot : u # t /\ sem = u => sem' = u,
         UNCHANGED beside,
         session'["api"][c].plan = PlanOf(t),
         sent'["api"][c] = sent["api"][c]
  PROVE  ShownIn(c)'
<1>1. \A u \in Working("api", c)' : u \in Working("api", c) /\ u # t /\ u \in Slot
                                    /\ task'[u] = task[u]
  BY DEF Working
<1>2. \A u \in Working("api", c)' : task'[u].source # "number" => sem' = u
  BY <1>1 DEF ShownIn
<1>3. ~beside'[c] => Working("api", c)' = {} /\ session'["api"][c].plan = sent'["api"][c]
  BY <1>1 DEF ShownIn
<1> QED
  BY <1>2, <1>3 DEF ShownIn

\* Who gives the semaphore back, and who takes it.
LEMMA StepSem ==
  ASSUME NEW t, Step(t)
  PROVE  UNCHANGED sem \/ sem = t \/ sem = Free
BY DEF Step, Enqueues, Analyse, AnalyseAgain, SetNext, Enter, Admitted, Watch, Write, Review,
       Evaluate, Save, Raise, TakePlan, ConfirmFails, ReadChat, ReadSize, ReadSwitch,
       DailyTopics, Leave

LEMMA FreeIsNoSlot == Free \notin Slot
BY DEF Free, Slot, Command

\* A step of a job, or of a handler that is not at work in the chat.
LEMMA ShownElsewhere ==
  ASSUME TypeInv, NEW d \in Chats, ShownIn(d), beside[d] => beside'[d], NEW t \in Slot, Step(t),
         ProcOf(t) = "api" => t \notin Working("api", d) /\ t \notin Working("api", d)'
  PROVE  ShownIn(d)'
<1>1. \A u \in Slot : u # t /\ ProcOf(u) = "api" => task'[u] = task[u]
  BY StepType
<1>2. \A u \in Working("api", d)' : u # t /\ u \in Slot
  BY DEF Working
<1>3. \A u \in Working("api", d)' : sem = u => sem' = u
  BY <1>2, StepSem, FreeIsNoSlot
<1>4. ProcOf(t) = "api" /\ (Save(t) \/ Evaluate(t)) => d # task[t].chat
  BY DEF Save, Evaluate, Working
<1>5. session'["api"][d].plan = session["api"][d].plan
  BY <1>4, StepSession, SaveSession, SlotProc DEF PlansKept
<1>6. sent'["api"][d] = sent["api"][d]
  BY <1>4, StepSession, EvaluateSent, SlotProc
<1>7. \A u \in Slot : ProcOf(u) = "api" =>
           \/ task'[u] = task[u]
           \/ /\ u \notin Working("api", d)'
              /\ u \in Working("api", d) => task[u].step # "save"
  BY <1>1
<1> QED
  BY <1>3, <1>5, <1>6, <1>7, ShownStays

\* A chain that people wait for enters, with the semaphore that was free.
LEMMA ShownEnters ==
  ASSUME TypeInv, NEW d \in Chats, ShownIn(d), NEW t \in Slot, ProcOf(t) = "api", Enter(t),
         t \in Working("api", d)'
  PROVE  ShownIn(d)'
<1>1. /\ Alone(t) /\ sem = Free /\ sem' = t /\ task'[t].chat = task[t].chat
      /\ \/ task'[t].step \in {"confirm", "reply"}
         \/ task'[t].step \in {"watch", "write"} /\ Joins(task[t].chat, FALSE)
  BY EnterType
<1>2. task[t].chat = d /\ task'[t].step \in {"watch", "write"} /\ Joins(d, FALSE)
  BY <1>1 DEF Working
<1>3. t \notin Working("api", d) /\ UNCHANGED <<session, sent>>
  BY DEF Enter, Working
<1>4. \A u \in Working("api", d) : task[u].source = "number"
  BY <1>1, FreeIsNoSlot DEF ShownIn, Working
<1>5. ~beside'[d] => ~beside[d] /\ Working("api", d) = {}
  <2>1. beside' = [beside EXCEPT ![d] = @ \/ \E u \in Working("api", d) :
                                             FALSE \/ task[u].source = "number"]
    BY <1>2 DEF Joins
  <2>2. beside \in [Chats -> BOOLEAN]
    BY DEF TypeInv, OtherType
  <2>3. beside'[d] = (beside[d] \/ \E u \in Working("api", d) :
                                     FALSE \/ task[u].source = "number")
    BY <2>1, <2>2, Zenon
  <2> QED
    BY <1>4, <2>3
<1> QED
  BY <1>1, <1>2, <1>3, <1>4, <1>5, ShownJoins DEF Alone

\* What a chain at work does next.
LEMMA ShownWorks ==
  ASSUME TypeInv, NEW d \in Chats, ShownIn(d), beside[d] => beside'[d], NEW t \in Slot,
         ProcOf(t) = "api", Step(t), t \in Working("api", d)
  PROVE  ShownIn(d)'
<1>1. /\ TaskType /\ task[t].chat = d /\ "api" \in Proc
      /\ task[t].step \in {"watch", "write", "review", "evaluate", "save"}
  BY DEF TypeInv, Working, Proc
<1>2. \A u \in Slot : u # t /\ ProcOf(u) = "api" => task'[u] = task[u]
  BY StepType
<1>3. \/ Watch(t) \/ (\E fine \in BOOLEAN : Write(t, fine)) \/ Review(t) \/ Evaluate(t)
      \/ Save(t) \/ Raise(t)
  BY <1>1 DEF Step, Enqueues, Analyse, AnalyseAgain, SetNext, Enter, TakePlan, ConfirmFails,
              ReadChat, ReadSize, ReadSwitch, DailyTopics
<1>4. ASSUME NEW s \in {"review", "evaluate", "save", "confirm", "ended", "failing"}, Go(t, s)
      PROVE  /\ task'[t].step = s /\ task'[t].chat = d /\ task'[t].source = task[t].source
             /\ task'[t].theme = task[t].theme /\ task'[t].style = task[t].style
  <2>1. s \in At \ {"enqueue", "set", "waiting"}
    BY DEF At
  <2> QED
    BY <1>1, <1>4, <2>1, Moves
<1>5. CASE Watch(t)
  <2>1. UNCHANGED <<sem, beside, session, sent>> /\ task[t].step = "watch"
    BY <1>5 DEF Watch
  <2> QED
    BY <1>1, <1>2, <1>5, <2>1, WatchType, ShownGoesOn
<1>6. ASSUME NEW s \in {"review", "evaluate"}, Go(t, s), task[t].step # "save",
             UNCHANGED <<sem, beside, session, sent>>
      PROVE  ShownIn(d)'
  BY <1>1, <1>2, <1>4, <1>6, ShownGoesOn
<1>7. ASSUME Go(t, "ended"), task[t].step # "save", sem' = IF sem = t THEN Free ELSE sem,
             UNCHANGED <<session, sent>>
      PROVE  ShownIn(d)'
  <2>1. t \notin Working("api", d)'
    BY <1>4, <1>7 DEF Working
  <2>2. \A u \in Working("api", d)' : sem = u => sem' = u
    BY <1>7, <2>1
  <2>3. \A u \in Slot : ProcOf(u) = "api" =>
           \/ task'[u] = task[u]
           \/ /\ u \notin Working("api", d)'
              /\ u \in Working("api", d) => task[u].step # "save"
    BY <1>2, <1>7, <2>1
  <2> QED
    BY <1>7, <2>2, <2>3, ShownStays
<1>8. CASE \E fine \in BOOLEAN : Write(t, fine)
  <2>1. PICK fine \in BOOLEAN : Write(t, fine)
    BY <1>8
  <2>2. task[t].step = "write" /\ UNCHANGED <<beside, session, sent>>
    BY <2>1 DEF Write
  <2>3. CASE fine
    <3>1. PICK s \in {"review", "evaluate"} : Go(t, s) /\ UNCHANGED sem
      BY <2>1, <2>3 DEF Write
    <3> QED
      BY <1>6, <2>2, <3>1
  <2>4. CASE ~fine
    <3>1. Go(t, "ended") /\ sem' = IF sem = t THEN Free ELSE sem
      BY <2>1, <2>4 DEF Write, Leave
    <3> QED
      BY <1>7, <2>2, <3>1
  <2> QED
    BY <2>3, <2>4
<1>9. CASE Review(t)
  BY <1>6, <1>9 DEF Review
<1>10. CASE Evaluate(t)
  <2>1. task[t].step = "evaluate" /\ Go(t, "save") /\ UNCHANGED <<sem, beside, session>>
    BY <1>10 DEF Evaluate
  <2>2. sent'["api"][d] = PlanOf(t)
    BY <1>1, <1>10, EvaluateSent
  <2>3. /\ task'[t].step = "save" /\ task'[t].chat = d /\ task'[t].source = task[t].source
        /\ task'[t].theme = task[t].theme /\ task'[t].style = task[t].style
    BY <1>4, <2>1
  <2>4. PlanOf(t)' = PlanOf(t)
    BY <2>3 DEF PlanOf
  <2> QED
    BY <1>1, <1>2, <2>1, <2>2, <2>3, <2>4, ShownGoesOn
<1>11. CASE Save(t)
  <2>1. /\ task[t].step = "save" /\ Go(t, "ended") /\ sem' = IF sem = t THEN Free ELSE sem
        /\ UNCHANGED <<beside, sent>>
    BY <1>11 DEF Save, Leave
  <2>2. session'["api"][d].plan = PlanOf(t)
    BY <1>1, <1>11, SaveSession
  <2>3. t \notin Working("api", d)'
    BY <1>4, <2>1 DEF Working
  <2>4. \A u \in Slot : u # t /\ sem = u => sem' = u
    BY <2>1
  <2> QED
    BY <1>2, <2>1, <2>2, <2>3, <2>4, ShownKept
<1>12. CASE Raise(t)
  <2>1. /\ task[t].step # "save" /\ Go(t, "ended") /\ sem' = IF sem = t THEN Free ELSE sem
        /\ UNCHANGED <<session, sent>>
    BY <1>12 DEF Raise
  <2> QED
    BY <1>7, <2>1
<1> QED
  BY <1>3, <1>5, <1>8, <1>9, <1>10, <1>11, <1>12

\* A handler that does not work, and goes on without entering, does not work afterwards.
LEMMA ShownIdle ==
  ASSUME TypeInv, NEW d \in Chats, NEW t \in Slot, ProcOf(t) = "api", Step(t), ~Enter(t),
         t \notin Working("api", d)
  PROVE  t \notin Working("api", d)'
<1>1. TaskType
  BY DEF TypeInv
<1>2. CASE Enqueues(t) \/ SetNext(t)
  BY <1>2, EnqueuesType, SetNextType DEF Working
<1>3. CASE Analyse(t) \/ AnalyseAgain(t)
  BY <1>3, AnalyseType DEF Working
<1>4. CASE ReadChat(t) \/ ReadSize(t) \/ ReadSwitch(t) \/ DailyTopics(t)
  BY <1>4, DailyType DEF Working
<1>5. CASE Watch(t)
  BY <1>5, WatchType DEF Working
<1>6. CASE TakePlan(t) \/ ConfirmFails(t)
  <2>1. Go(t, "ended")
    BY <1>6 DEF TakePlan, ConfirmFails
  <2>2. "ended" \in At \ {"enqueue", "set", "waiting"}
    BY DEF At
  <2> QED
    BY <1>1, <2>1, <2>2, Moves DEF Working
<1>7. CASE (\E fine \in BOOLEAN : Write(t, fine)) \/ Review(t) \/ Evaluate(t) \/ Save(t) \/ Raise(t)
  <2>1. task[t].step \in {"watch", "write", "review", "evaluate", "save"}
    BY <1>7 DEF Write, Review, Evaluate, Save, Raise
  <2>2. task[t].chat # d
    BY <2>1 DEF Working
  <2>3. PICK s \in {"review", "evaluate", "save", "confirm", "ended", "done", "failing"} : Go(t, s)
    BY <1>7, ChainMoves
  <2>4. s \in At \ {"enqueue", "set", "waiting"}
    BY <2>3 DEF At
  <2>5. task'[t].chat = task[t].chat
    BY <1>1, <2>3, <2>4, Moves
  <2> QED
    BY <2>2, <2>5 DEF Working
<1> QED
  BY <1>2, <1>3, <1>4, <1>5, <1>6, <1>7 DEF Step

\* A command that starts a handler: a number's chain works at once, beside whatever does.
LEMMA ShownStarts ==
  ASSUME TypeInv, Fresh, NEW d \in Chats, ShownIn(d), beside[d] => beside'[d],
         NEW k \in Command, NEW c \in Chats, StartHandler(k, c)
  PROVE  ShownIn(d)'
<1> DEFINE t == <<"api", k>>
<1>1. UNCHANGED <<sem, session, sent>> /\ Sends(k)
  BY DEF StartHandler, Chain, Upload, Confirm, Reply, Number, Batch, BlowUp, Schedule, Text
<1>2. t \in Slot /\ commands \in Nat
  BY ApiSlot DEF TypeInv, MemoryType
<1>3. task[t] = NoTask
  BY <1>1, <1>2 DEF Fresh, Sends
<1>4. \A e \in Chats : t \notin Working("api", e)
  BY <1>3 DEF Working, NoTask, None
<1>5. /\ \A u \in Slot : u # t => task'[u] = task[u]
      /\ \/ task'[t] = task[t]
         \/ task'[t].step \in {"waiting", "analyse", "enqueue", "set"}
         \/ /\ task'[t].source = "number" /\ task'[t].step = "write"
            /\ task'[t].chat = c /\ Joins(c, TRUE)
  BY StartHandlerType
<1>6. CASE t \notin Working("api", d)'
  <2>1. \A u \in Slot : ProcOf(u) = "api" =>
           \/ task'[u] = task[u]
           \/ /\ u \notin Working("api", d)'
              /\ u \in Working("api", d) => task[u].step # "save"
    BY <1>4, <1>5, <1>6
  <2> QED
    BY <1>1, <2>1, ShownStays
<1>7. CASE t \in Working("api", d)'
  <2>1. /\ task'[t].source = "number" /\ task'[t].step = "write" /\ c = d /\ Joins(d, TRUE)
    <3>1. task'[t].step \in {"watch", "write", "review", "evaluate", "save"} /\ task'[t].chat = d
      BY <1>7 DEF Working
    <3>2. task[t].step = "none"
      BY <1>3 DEF NoTask, None
    <3> HIDE DEF t
    <3> QED
      BY <1>5, <3>1, <3>2
  <2>2. ~beside'[d] => ~beside[d] /\ Working("api", d) = {}
    <3>1. beside' = [beside EXCEPT ![d] = @ \/ \E u \in Working("api", d) :
                                               TRUE \/ task[u].source = "number"]
      BY <2>1 DEF Joins
    <3>2. beside \in [Chats -> BOOLEAN]
      BY DEF TypeInv, OtherType
    <3>3. beside'[d] = (beside[d] \/ \E u \in Working("api", d) :
                                       TRUE \/ task[u].source = "number")
      BY <3>1, <3>2, Zenon
    <3> QED
      BY <3>3
  <2>3. \A u \in Working("api", d) : task[u].source # "number" => sem' = u
    BY <1>1 DEF ShownIn
  <2> HIDE DEF t
  <2> QED
    BY <1>1, <1>2, <1>4, <1>5, <2>1, <2>2, <2>3, ShownJoins
<1> QED
  BY <1>6, <1>7

LEMMA FreshStep ==
  ASSUME TypeInv, Fresh, [Next]_vars
  PROVE  Fresh'
<1>1. commands \in Nat
  BY DEF TypeInv, MemoryType
<1>2. commands' \in Nat /\ commands <= commands'
  <2>1. UNCHANGED commands \/ \E k \in Command : Sends(k)
    BY MemoryApart, TakeReplyMemory DEF MemoryCommand, Figures, Dream, Approve, ApiCrash
  <2> QED
    BY <1>1, <2>1 DEF Sends
<1>3. ASSUME NEW j \in Command, j > commands',
             task'[<<"api", j>>] = task[<<"api", j>>]
      PROVE  task'[<<"api", j>>] = NoTask
  BY <1>1, <1>2, <1>3 DEF Fresh, Command
<1>4. ASSUME NEW k \in Command, NEW c \in Chats, StartHandler(k, c), NEW j \in Command, j > commands'
      PROVE  task'[<<"api", j>>] = task[<<"api", j>>]
  <2>1. Sends(k)
    BY <1>4 DEF StartHandler, Chain, Upload, Confirm, Reply, Number, Batch, BlowUp, Schedule, Text
  <2>2. j # k
    BY <1>4, <2>1 DEF Sends, Command
  <2> QED
    BY <1>4, <2>2, ApiSlot, StartHandlerType
<1>5. ASSUME NEW t \in Slot, Step(t), NEW j \in Command, j > commands'
      PROVE  task'[<<"api", j>>] = task[<<"api", j>>]
  <2>1. task[t].step # None
    BY <1>5 DEF Step, Enqueues, Analyse, AnalyseAgain, SetNext, Enter, Watch, Write, Review,
                Evaluate, Save, Raise, TakePlan, ConfirmFails, ReadChat, ReadSize, ReadSwitch,
                DailyTopics, None
  <2>2. task[<<"api", j>>] = NoTask
    BY <1>1, <1>2, <1>5 DEF Fresh, Command
  <2>3. t # <<"api", j>>
    BY <2>1, <2>2 DEF NoTask
  <2> QED
    BY <1>5, <2>3, ApiSlot, StepType
<1>6. ASSUME TakeJob \/ (\E j \in 1..MaxJobs : Report(j) \/ Timeout(j)) \/ WorkerCrash,
             NEW j \in Command
      PROVE  task'[<<"api", j>>] = task[<<"api", j>>]
  BY <1>6, ApiSlot, WorkerType
<1>7. ASSUME ApiCrash, NEW j \in Command, j > commands'
      PROVE  task'[<<"api", j>>] = task[<<"api", j>>]
  <2>1. task[<<"api", j>>] = NoTask
    BY <1>1, <1>2, <1>7 DEF Fresh, Command
  <2>2. task' = [t \in Slot |-> IF ProcOf(t) = "api" /\ task[t].step # None
                              THEN [task[t] EXCEPT !.step = "ended"] ELSE task[t]]
    BY <1>7 DEF ApiCrash
  <2> QED
    BY <2>1, <2>2, ApiSlot DEF NoTask
<1>8. CASE \/ \E k \in Command, c \in Chats :
                \/ \E s \in DOMAIN Skills : PickSkill(k, c, s)
                \/ \E y \in Styles : PickStyle(k, c, y)
                \/ PickCharacter(k, c)
                \/ \E more \in Listed : Trending(k, c, more)
                \/ Recommend(k, c)
           \/ FetchTrending
           \/ UNCHANGED studio
  <2>1. UNCHANGED task
    BY <1>8 DEF PickSkill, PickStyle, PickCharacter, Trending, Recommend, FetchTrending, studio
  <2> QED
    BY <1>3, <2>1 DEF Fresh
<1>9. (\A j \in Command : j > commands' => task'[<<"api", j>>] = task[<<"api", j>>]) => Fresh'
  BY <1>3 DEF Fresh
<1>10. ASSUME NEW k \in Command, Answer(<<"api", k>>), NEW j \in Command, j > commands'
       PROVE  task'[<<"api", j>>] = task[<<"api", j>>]
  <2>1. task[<<"api", k>>].step # None /\ Alone(<<"api", k>>)
    BY <1>10, ApiSlot, AnswerType DEF None
  <2>2. task[<<"api", j>>] = NoTask
    BY <1>1, <1>2, <1>10 DEF Fresh, Command
  <2>3. j # k
    BY <2>1, <2>2 DEF NoTask
  <2> QED
    BY <2>1, <2>3, ApiSlot DEF Alone
<1> QED
  BY <1>4, <1>5, <1>6, <1>7, <1>8, <1>9, <1>10, Actions

LEMMA ShownStep ==
  ASSUME TypeInv, ShownInv, [Next]_vars
  PROVE  ShownInv'
<1>1. Fresh' /\ Fresh
  BY FreshStep DEF ShownInv
<1>2. SUFFICES ASSUME NEW d \in Chats PROVE ShownIn(d)'
  BY <1>1 DEF ShownInv
<1>3. ShownIn(d) /\ (beside[d] => beside'[d])
  BY BesideStep DEF ShownInv
<1>4. ASSUME NEW t \in Slot, Step(t) PROVE ShownIn(d)'
  <2>1. CASE ProcOf(t) = "worker"
    BY <1>3, <1>4, <2>1, ShownElsewhere
  <2>2. CASE ProcOf(t) = "api" /\ t \in Working("api", d)
    BY <1>3, <1>4, <2>2, ShownWorks
  <2>3. CASE ProcOf(t) = "api" /\ t \notin Working("api", d) /\ t \in Working("api", d)'
    BY <1>3, <1>4, <2>3, ShownIdle, ShownEnters
  <2>4. CASE ProcOf(t) = "api" /\ t \notin Working("api", d) /\ t \notin Working("api", d)'
    BY <1>3, <1>4, <2>4, ShownElsewhere
  <2> QED
    BY <2>1, <2>2, <2>3, <2>4, SlotProc DEF Proc
<1>5. ASSUME NEW k \in Command, NEW c \in Chats, StartHandler(k, c) PROVE ShownIn(d)'
  BY <1>1, <1>3, <1>5, ShownStarts
<1>6. ASSUME \A u \in Slot : ProcOf(u) = "api" => task'[u] = task[u], UNCHANGED sem,
             session'["api"][d].plan = session["api"][d].plan,
             sent'["api"][d] = sent["api"][d]
      PROVE  ShownIn(d)'
  BY <1>3, <1>6, ShownStays
<1>7. ASSUME NEW k \in Command, NEW c \in Chats,
             \/ \E s \in DOMAIN Skills : PickSkill(k, c, s)
             \/ \E more \in Listed : Trending(k, c, more)
             \/ Recommend(k, c)
      PROVE  ShownIn(d)'
  <2>1. UNCHANGED <<task, sem, sent>>
    BY <1>7 DEF PickSkill, Trending, Recommend
  <2>2. PlansKept
    BY <1>7, CommandSession
  <2> QED
    BY <1>6, <2>1, <2>2 DEF PlansKept
<1>8. ASSUME NEW k \in Command, Answer(<<"api", k>>) PROVE ShownIn(d)'
  <2> DEFINE t == <<"api", k>>
  <2>1. t \in Slot /\ Alone(t) /\ t \notin Working("api", d) /\ t \notin Working("api", d)'
    BY <1>8, ApiSlot, AnswerType DEF Working
  <2>2. PlansKept /\ UNCHANGED sent /\ (UNCHANGED sem \/ (sem = t /\ sem' = Free))
    BY <1>8, AnswerSem, AnswerSession
  <2> HIDE DEF t
  <2>3. \A u \in Working("api", d)' : sem = u => sem' = u
    BY <2>1, <2>2 DEF Working
  <2> QED
    BY <1>3, <2>1, <2>2, <2>3, ShownStays DEF PlansKept, Alone
<1>9. CASE \/ \E k \in Command, c \in Chats :
                (\E y \in Styles : PickStyle(k, c, y)) \/ PickCharacter(k, c)
           \/ FetchTrending \/ UNCHANGED studio
  <2>1. UNCHANGED <<task, sem, session, sent>>
    BY <1>9 DEF PickStyle, PickCharacter, FetchTrending, studio
  <2> QED
    BY <1>6, <2>1
<1>10. CASE TakeJob \/ (\E j \in 1..MaxJobs : Report(j) \/ Timeout(j))
  <2>1. UNCHANGED <<sem, session, sent>>
    BY <1>10 DEF TakeJob, Report, Timeout
  <2>2. \A u \in Slot : ProcOf(u) = "api" => task'[u] = task[u]
    BY <1>10, WorkerType
  <2> QED
    BY <1>6, <2>1, <2>2
<1>11. CASE WorkerCrash
  <2>1. UNCHANGED sem /\ PlansKept /\ sent'["api"] = sent["api"]
    BY <1>11, CrashSession DEF WorkerCrash
  <2>2. \A u \in Slot : ProcOf(u) = "api" => task'[u] = task[u]
    BY <1>11, WorkerType
  <2> QED
    BY <1>6, <2>1, <2>2 DEF PlansKept
<1>12. CASE ApiCrash
  <2>1. session'["api"][d].plan = sent'["api"][d]
    BY <1>12, ApiCrashSession
  <2>2. \A u \in Working("api", d)' : FALSE
    BY <1>12, ApiCrashType DEF Working, None
  <2> QED
    BY <2>1, <2>2 DEF ShownIn
<1> QED
  BY <1>4, <1>5, <1>7, <1>8, <1>9, <1>10, <1>11, <1>12, Actions

LEMMA ShownInit == Init => ShownInv
<1> SUFFICES ASSUME Init PROVE ShownInv
  OBVIOUS
<1>1. \A t \in Slot : task[t] = NoTask
  BY DEF Init
<1>2. \A c \in Chats : Working("api", c) = {}
  BY <1>1 DEF Working, NoTask, None
<1>3. \A c \in Chats : session["api"][c].plan = sent["api"][c]
  BY StartSession DEF Proc
<1>4. Fresh
  BY <1>1, ApiSlot DEF Fresh
<1> QED
  BY <1>2, <1>3, <1>4 DEF ShownInv, ShownIn

\* What a confirmation in a chat would take is the evaluation the chat was sent last, for any
\* number of chats, chains, batches and jobs, whichever of them are refused or fail and
\* whichever process restarts: the semaphore keeps a chain from saving its plan after another
\* one's was shown.  It says so of a chat in which no number was picked beside a chain; there
\* nothing keeps the two apart.
THEOREM AlwaysPlanWasShownLast == Spec => []PlanWasShownLast
<1>1. Init => MemInv /\ TypeInv /\ ShownInv
  BY MemInit, TypeInit, ShownInit
<1>2. MemInv /\ TypeInv /\ ShownInv /\ [Next]_vars => (MemInv /\ TypeInv /\ ShownInv)'
  BY MemStep, TypeStep, ShownStep
<1>3. ShownInv => PlanWasShownLast
  BY DEF ShownInv, ShownIn, PlanWasShownLast
<1> QED
  BY <1>1, <1>2, <1>3, PTL DEF Spec

---------------------------------------------------------------------------
(* Where the rules of the memory come from.                                *)

\* A rule made of a reply is the only one its handler wrote, and the handler is past it.
Written(k) == {i \in DOMAIN memory : memory[i] = ReviewRule(k)}

WroteOnce(k) ==
  /\ task[<<"api", k>>].step = "reply" => task[<<"api", k>>].kind = "reply"
  /\ Written(k) # {} => /\ task[<<"api", k>>].kind = "reply"
                        /\ task[<<"api", k>>].step \in {"act", "ended"}
  /\ \A i, j \in Written(k) : i = j

RulesOfReplies == \A k \in Command : WroteOnce(k)

\* A handler of the API that takes one step: only one that entered has a reply to take.
LEMMA StepNoReply ==
  ASSUME TypeInv, NEW t \in Slot, ProcOf(t) = "api", Step(t)
  PROVE  /\ task[t].step \notin {"act", "ended"}
         /\ task'[t].step = "reply" => task'[t].kind = "reply"
<1>1. task[t].step \notin {"act", "ended"}
  BY DEF Step, Enqueues, Analyse, AnalyseAgain, SetNext, Enter, Watch, Write, Review, Evaluate,
         Save, Raise, TakePlan, ConfirmFails, ReadChat, ReadSize, ReadSwitch, DailyTopics
<1>2. CASE Enqueues(t) \/ SetNext(t)
  BY <1>1, <1>2, EnqueuesType, SetNextType
<1>3. CASE Analyse(t) \/ AnalyseAgain(t)
  BY <1>1, <1>3, AnalyseType
<1>4. CASE ReadChat(t) \/ ReadSize(t) \/ ReadSwitch(t) \/ DailyTopics(t)
  BY <1>1, <1>4, DailyType
<1>5. CASE Watch(t)
  BY <1>1, <1>5, WatchType
<1>6. CASE Enter(t)
  BY <1>1, <1>6, EnterType
<1>7. CASE \/ \E fine \in BOOLEAN : Write(t, fine)
           \/ Review(t) \/ Evaluate(t) \/ Save(t) \/ Raise(t) \/ TakePlan(t) \/ ConfirmFails(t)
  <2>1. PICK s \in {"review", "evaluate", "save", "confirm", "ended", "done", "failing"} : Go(t, s)
    BY <1>7, ChainMoves
  <2>2. s \in At \ {"enqueue", "set", "waiting"} /\ TaskType
    BY <2>1 DEF At, TypeInv
  <2>3. task'[t].step = s
    BY <2>1, <2>2, Moves
  <2> QED
    BY <1>1, <2>1, <2>3
<1> QED
  BY <1>2, <1>3, <1>4, <1>5, <1>6, <1>7 DEF Step

\* A handler past its reply stays past it.
LEMMA PastReply ==
  ASSUME TypeInv, Fresh, [Next]_vars, NEW k \in Command,
         task[<<"api", k>>].step = "reply" => task[<<"api", k>>].kind = "reply"
  PROVE  /\ task'[<<"api", k>>].step = "reply" => task'[<<"api", k>>].kind = "reply"
         /\ task[<<"api", k>>].kind = "reply" /\ task[<<"api", k>>].step \in {"act", "ended"}
              => /\ task'[<<"api", k>>].kind = "reply"
                 /\ task'[<<"api", k>>].step \in {"act", "ended"}
<1> DEFINE t == <<"api", k>>
<1>t. t \in Slot /\ ProcOf(t) = "api" /\ TaskType /\ commands \in Nat
  BY ApiSlot DEF TypeInv, MemoryType
<1> HIDE DEF t
<1>2. ASSUME NEW u \in Slot, Step(u) PROVE \/ task'[t] = task[t]
                                          \/ /\ task[t].step \notin {"act", "ended"}
                                             /\ task'[t].step = "reply" => task'[t].kind = "reply"
  BY <1>t, <1>2, StepType, StepNoReply
<1>3. ASSUME NEW j \in Command, NEW c \in Chats, StartHandler(j, c)
      PROVE  \/ task'[t] = task[t]
             \/ task[t].step \notin {"act", "ended"} /\ task'[t].step # "reply"
  <2>1. CASE j # k
    BY <1>3, <2>1, StartHandlerType, <1>t DEF t
  <2>2. CASE j = k
    <3>1. Sends(k)
      BY <1>3, <2>2 DEF StartHandler, Chain, Upload, Confirm, Reply, Number, Batch, BlowUp,
                        Schedule, Text
    <3>2. task[t] = NoTask
      BY <1>t, <3>1 DEF Fresh, Sends, t
    <3>3. task[t].step = "none"
      BY <3>2 DEF NoTask, None
    <3>4. \/ task'[t] = task[t]
          \/ task'[t].step \in {"waiting", "analyse", "enqueue", "set"}
          \/ task'[t].step = "write"
      BY <1>3, <2>2, StartHandlerType DEF t
    <3> QED
      BY <3>3, <3>4
  <2> QED
    BY <2>1, <2>2
<1>4. ASSUME NEW j \in Command, Answer(<<"api", j>>)
      PROVE  \/ task'[t] = task[t]
             \/ task'[t].kind = task[t].kind /\ task'[t].step \in {"act", "ended"}
  BY <1>t, <1>4, ApiSlot, AnswerType DEF Alone
<1>5. CASE TakeJob \/ (\E j \in 1..MaxJobs : Report(j) \/ Timeout(j)) \/ WorkerCrash
  <2>1. task'[t] = task[t]
    BY <1>t, <1>5, WorkerType
  <2> QED
    BY <2>1 DEF t
<1>6. CASE ApiCrash
  <2>1. \/ task'[t] = task[t]
        \/ task'[t] = [task[t] EXCEPT !.step = "ended"]
    BY <1>t, <1>6 DEF ApiCrash
  <2>2. [task[t] EXCEPT !.step = "ended"].kind = task[t].kind
        /\ [task[t] EXCEPT !.step = "ended"].step = "ended"
    <3>1. task[t] \in Work /\ "ended" \in At
      BY <1>t DEF TaskType, At
    <3> QED
      BY <3>1, StepField
  <2> QED
    BY <2>1, <2>2 DEF t
<1>7. CASE \/ \E j \in Command, c \in Chats :
                \/ \E s \in DOMAIN Skills : PickSkill(j, c, s)
                \/ \E y \in Styles : PickStyle(j, c, y)
                \/ PickCharacter(j, c)
                \/ \E more \in Listed : Trending(j, c, more)
                \/ Recommend(j, c)
           \/ FetchTrending
           \/ UNCHANGED studio
  BY <1>7 DEF PickSkill, PickStyle, PickCharacter, Trending, Recommend, FetchTrending, studio
<1> QED
  BY <1>2, <1>3, <1>4, <1>5, <1>6, <1>7, Actions DEF t

\* What gets into the memory: a proposal, or the rule of a reply whose handler goes on.
LEMMA MemoryGrows ==
  ASSUME MemInv, [Next]_vars
  PROVE  \/ UNCHANGED memory
         \/ \E rule \in Id : memory' = Append(memory, rule)
         \/ \E k \in Command : /\ memory' = Append(memory, ReviewRule(k))
                               /\ task[<<"api", k>>].step = "reply" /\ Go(<<"api", k>>, "act")
<1>1. ASSUME NEW k \in Command, AppendRule(k)
      PROVE  UNCHANGED memory \/ \E rule \in Id : memory' = Append(memory, rule)
  <2> DEFINE found == Matched(ask[k].items, ask[k].id)
  <2>1. found \subseteq Id
    BY DEF MemInv, MemoryType, Ask, Matched
  <2>2. CASE found = {}
    BY <1>1, <2>2 DEF AppendRule
  <2>3. CASE found # {}
    <3>1. memory' = Append(memory, CHOOSE i \in found : TRUE)
      BY <1>1, <2>3 DEF AppendRule, append_approved_memory
    <3>2. (CHOOSE i \in found : TRUE) \in Id
      BY <2>1, <2>3
    <3> QED
      BY <3>1, <3>2
  <2> QED
    BY <2>2, <2>3
<1>2. ASSUME NEW k \in Command, TakeReply(<<"api", k>>)
      PROVE  \/ UNCHANGED memory
             \/ /\ memory' = Append(memory, ReviewRule(k))
                /\ task[<<"api", k>>].step = "reply" /\ Go(<<"api", k>>, "act")
  BY <1>2 DEF TakeReply, RememberReview, append_approved_memory, mem
<1>3. CASE MemoryCommand
  BY <1>3 DEF MemoryCommand, Figures, Dream, Approve
<1>4. CASE MemoryStep
  BY <1>1, <1>4 DEF MemoryStep, Propose, Show, Read, WriteBack
<1>5. CASE ApiCrash \/ UNCHANGED mem
  BY <1>5 DEF ApiCrash, mem
<1> QED
  BY <1>2, <1>3, <1>4, <1>5, MemoryApart

LEMMA RulesStep ==
  ASSUME MemInv, TypeInv, Fresh, RulesOfReplies, [Next]_vars
  PROVE  RulesOfReplies'
<1> SUFFICES ASSUME NEW k \in Command PROVE WroteOnce(k)'
  BY DEF RulesOfReplies
<1>1. WroteOnce(k) /\ memory \in Seq(Rule)
  BY DEF RulesOfReplies, MemInv, MemoryType
<1>2. /\ task'[<<"api", k>>].step = "reply" => task'[<<"api", k>>].kind = "reply"
      /\ task[<<"api", k>>].kind = "reply" /\ task[<<"api", k>>].step \in {"act", "ended"}
           => /\ task'[<<"api", k>>].kind = "reply"
              /\ task'[<<"api", k>>].step \in {"act", "ended"}
  BY <1>1, PastReply DEF WroteOnce
<1>3. ASSUME Written(k)' = Written(k) PROVE WroteOnce(k)'
  BY <1>1, <1>2, <1>3 DEF WroteOnce
<1>4. ASSUME NEW rule \in Rule, memory' = Append(memory, rule)
      PROVE  Written(k)' = IF rule = ReviewRule(k) THEN Written(k) \cup {Len(memory) + 1}
                           ELSE Written(k)
  BY <1>1, <1>4 DEF Written
<1>5. ASSUME NEW rule \in Id, memory' = Append(memory, rule) PROVE WroteOnce(k)'
  <2>1. rule \in Rule /\ rule # ReviewRule(k)
    BY <1>5 DEF Rule, ReviewRule, Id
  <2> QED
    BY <1>3, <1>4, <1>5, <2>1
<1>6. ASSUME NEW j \in Command, memory' = Append(memory, ReviewRule(j)),
             task[<<"api", j>>].step = "reply", Go(<<"api", j>>, "act")
      PROVE  WroteOnce(k)'
  <2>1. ReviewRule(j) \in Rule /\ (ReviewRule(j) = ReviewRule(k) => j = k)
    BY DEF Rule, ReviewRule
  <2>2. CASE j # k
    BY <1>3, <1>4, <1>6, <2>1, <2>2
  <2>3. CASE j = k
    <3>1. Written(k) = {} /\ task[<<"api", k>>].kind = "reply"
      BY <1>1, <1>6, <2>3 DEF WroteOnce
    <3>2. Written(k)' = {Len(memory) + 1}
      BY <1>4, <1>6, <2>1, <2>3, <3>1
    <3>3. task'[<<"api", k>>].kind = "reply" /\ task'[<<"api", k>>].step = "act"
      <4>1. TaskType /\ "act" \in At \ {"enqueue", "set", "waiting"}
        BY DEF TypeInv, At
      <4> QED
        BY <1>6, <2>3, <3>1, <4>1, ApiSlot, Moves
    <3> QED
      BY <3>2, <3>3 DEF WroteOnce
  <2> QED
    BY <2>2, <2>3
<1>7. UNCHANGED memory => Written(k)' = Written(k)
  BY DEF Written
<1> QED
  BY <1>3, <1>5, <1>6, <1>7, MemoryGrows

\* Every rule in the memory comes from an act of a person, for any number of chats, proposals,
\* approvals, replies, restarts and messages that got lost, in any order: a proposal got in
\* only when it had been shown and was named, although the handlers of two approvals may both
\* have read the same ones; and a reply to a review left at most the one rule its own handling
\* wrote.
THEOREM AlwaysRulesComeFromPeople == Spec => []RulesComeFromPeople
<1>1. Init => MemInv /\ TypeInv /\ ShownInv /\ RulesOfReplies
  <2>1. ASSUME Init PROVE RulesOfReplies
    <3>1. memory = <<>> /\ \A k \in Command : task[<<"api", k>>] = NoTask
      BY <2>1, ApiSlot DEF Init, MemoryInit
    <3>2. \A k \in Command : Written(k) = {}
      BY <3>1 DEF Written
    <3>3. NoTask.step # "reply"
      BY DEF NoTask, None
    <3> QED
      BY <3>1, <3>2, <3>3, Zenon DEF RulesOfReplies, WroteOnce
  <2> QED
    BY <2>1, MemInit, TypeInit, ShownInit
<1>2. MemInv /\ TypeInv /\ ShownInv /\ RulesOfReplies /\ [Next]_vars
        => (MemInv /\ TypeInv /\ ShownInv /\ RulesOfReplies)'
  BY MemStep, TypeStep, ShownStep, RulesStep DEF ShownInv
<1>3. MemInv /\ RulesOfReplies => RulesComeFromPeople
  <2> SUFFICES ASSUME MemInv, RulesOfReplies, NEW i \in DOMAIN memory
               PROVE  \/ memory[i] \in shown \cap named
                      \/ \E k \in Command :
                           /\ memory[i] = ReviewRule(k) /\ task[<<"api", k>>].kind = "reply"
                           /\ \A j \in DOMAIN memory : memory[j] = ReviewRule(k) => j = i
    BY DEF RulesComeFromPeople
  <2>1. memory[i] \in Rule
    BY ElementOfSeq, LenProperties DEF MemInv, MemoryType
  <2>2. CASE memory[i] \in Id
    BY <2>2 DEF MemInv, ProposalsNamed
  <2>3. ASSUME NEW k \in Command, memory[i] = ReviewRule(k)
        PROVE  /\ task[<<"api", k>>].kind = "reply"
               /\ \A j \in DOMAIN memory : memory[j] = ReviewRule(k) => j = i
    <3>1. i \in Written(k) /\ WroteOnce(k)
      BY <2>3 DEF Written, RulesOfReplies
    <3> QED
      BY <3>1 DEF WroteOnce, Written
  <2> QED
    BY <2>1, <2>2, <2>3 DEF Rule
<1> QED
  BY <1>1, <1>2, <1>3, PTL DEF Spec
=============================================================================
