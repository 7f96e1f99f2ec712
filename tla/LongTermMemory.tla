---------------------------- MODULE LongTermMemory ----------------------------
(***************************************************************************)
(* The rules the studio learns from the figures of its videos.  People     *)
(* type figures in ("数据"), ask for rules ("记忆提炼": a model proposes up *)
(* to three, which wait in Redis) and approve one by its id ("记忆通过"):   *)
(* it is appended to LONG_TERM_MEMORY.md, which the script prompts carry   *)
(* (api/webhooks.py, core/dreaming_scheduler.py, core/scheduler.py).  A    *)
(* reply to the review of a clip appends a rule as well, without asking.   *)
(*                                                                         *)
(* The handlers are background tasks of the API process: they interleave   *)
(* at every await, that is at every access to Redis and every message.     *)
(***************************************************************************)
EXTENDS Integers, Sequences, FiniteSets

CONSTANTS
  Videos,       \* ids of the video_records rows
  Payloads,     \* figures a person may type: [video, views, completion, engagement]
  Replies,      \* answers of the model: for each proposal, whether it can be used
  StartRows,    \* how many figures a video may have when the behaviour starts
  MaxCommands   \* bound: commands people send, of every kind

ASSUME MemoryAssumption ==
  /\ MaxCommands \in Nat /\ StartRows \subseteq Nat
  /\ Replies \subseteq Seq(BOOLEAN)

Command == 1..MaxCommands

\* A proposal's id, a fresh one each time: the command that asked for it and its place.
Id == Command \X (1..3)

\* The rule the code makes up when command k answers a review: nobody is shown its id.
ReviewRule(k) == <<k, 0>>
Rule == Id \cup {ReviewRule(k) : k \in Command}

VARIABLES
  commands,     \* how many commands were sent
  rows, viral,  \* video_metrics rows of a video, and video_records.is_viral
  pending,      \* Redis: runtime:pending_memory_proposals; {} also when there is none
  memory,       \* the rules under "AI Approved" in LONG_TERM_MEMORY.md
  ask,          \* the handler of a command about the memory
  shown, named  \* history: the ids a person was shown, and those a person sent

mem == <<rows, viral, pending, memory, ask, shown, named>>

NoAsk == [step |-> "none", id |-> <<0, 0>>, items |-> {}]

MemoryInit ==
  /\ commands = 0
  /\ rows \in [Videos -> StartRows] /\ viral = [v \in Videos |-> FALSE]
  /\ pending = {} /\ memory = <<>>
  /\ ask = [k \in Command |-> NoAsk]
  /\ shown = {} /\ named = {}

Sends(k) == commands < MaxCommands /\ k = commands + 1 /\ commands' = k

---------------------------------------------------------------------------
(* Figures                                                                 *)

\* A rate as it is typed: "35%" is a percentage, 35 is one too, 0.35 and 1 are fractions.
\* Values are in hundredths as typed (3500, 3500, 35, 100), rates in ten-thousandths.
RateToken == [kind : {"percent", "number", "none", "bad"}, value : Nat]

Rate(t) ==
  CASE t.kind = "percent" -> t.value
    [] t.kind = "number" /\ t.value > 100 -> t.value
    [] t.kind = "number" /\ t.value <= 100 -> t.value * 100
    [] t.kind = "none" -> 0

Readable(p) == p.completion.kind # "bad" /\ p.engagement.kind # "bad"

Viral(p) == p.views >= 10000 /\ Rate(p.completion) >= 3000 /\ Rate(p.engagement) >= 500

\* A row is added at each call, the mark is only ever set.
Figures(k, p) ==
  /\ Sends(k)
  /\ IF Readable(p) /\ p.video \in Videos
     THEN /\ rows' = [rows EXCEPT ![p.video] = @ + 1]
          /\ viral' = [viral EXCEPT ![p.video] = @ \/ Viral(p)]
     ELSE UNCHANGED <<rows, viral>>
  /\ UNCHANGED <<pending, memory, ask, shown, named>>

---------------------------------------------------------------------------
(* Proposals                                                               *)

To(k, s, items) == ask' = [ask EXCEPT ![k].step = s, ![k].items = items]

\* Of the first three items the usable ones stay.
Proposed(k, reply) == {<<k, i>> : i \in {i \in DOMAIN reply : i <= 3 /\ reply[i]}}

\* The figures are summed up by style; without any there is nothing to ask the model.
Measured == \E v \in Videos : rows[v] > 0

Dream(k, reply) ==
  /\ Sends(k)
  /\ LET items == IF Measured THEN Proposed(k, reply) ELSE {}
     IN To(k, IF items = {} THEN "ended" ELSE "propose", items)
  /\ UNCHANGED <<rows, viral, pending, memory, shown, named>>

\* Proposals that were waiting are overwritten.
Propose(k) ==
  /\ ask[k].step = "propose"
  /\ pending' = ask[k].items
  /\ To(k, "show", ask[k].items)
  /\ UNCHANGED <<commands, rows, viral, memory, shown, named>>

\* The message may not get through.
Show(k) ==
  /\ ask[k].step = "show"
  /\ shown' \in {shown, shown \cup ask[k].items}
  /\ To(k, "ended", {})
  /\ UNCHANGED <<commands, rows, viral, pending, memory, named>>

---------------------------------------------------------------------------
(* Approval: the proposals are read, one is appended, the others are       *)
(* written back.                                                           *)

\* A person sends an id he was shown, or one that there is not.
Approve(k, id) ==
  /\ Sends(k) /\ id \in shown \cup {<<0, 0>>}
  /\ named' = named \cup {id}
  /\ ask' = [ask EXCEPT ![k] = [step |-> "read", id |-> id, items |-> {}]]
  /\ UNCHANGED <<rows, viral, pending, memory, shown>>

Read(k) ==
  /\ ask[k].step = "read"
  /\ To(k, IF pending = {} THEN "ended" ELSE "append", pending)
  /\ UNCHANGED <<commands, rows, viral, pending, memory, shown, named>>

\* mutant: a proposal is taken whatever id was sent
MatchedAny(items, id) == items
Matched(items, id) == {i \in items : i = id}
Remaining(items, id) == {i \in items : i # id}

\* The file is read and written without an await; nothing looks for the rule's id in it.
append_approved_memory(rule) == memory' = Append(memory, rule)

AppendRule(k) ==
  /\ ask[k].step = "append"
  /\ LET found == Matched(ask[k].items, ask[k].id)
     IN IF found = {}
        THEN UNCHANGED memory /\ To(k, "ended", {})
        ELSE /\ append_approved_memory(CHOOSE i \in found : TRUE)
             /\ To(k, "write", Remaining(ask[k].items, ask[k].id))
  /\ UNCHANGED <<commands, rows, viral, pending, shown, named>>

WriteBack(k) ==
  /\ ask[k].step = "write"
  /\ pending' = ask[k].items
  /\ To(k, "ended", {})
  /\ UNCHANGED <<commands, rows, viral, memory, shown, named>>

---------------------------------------------------------------------------
(* Reviews: what a person does in one is kept, too.                        *)

\* _remember_visual_review_action: what goes wrong here is only logged.
RememberReview(k) ==
  /\ append_approved_memory(ReviewRule(k)) \/ UNCHANGED memory
  /\ UNCHANGED <<rows, viral, pending, ask, shown, named>>

---------------------------------------------------------------------------
MemoryCommand ==
  \E k \in Command :
    \/ \E p \in Payloads : Figures(k, p)
    \/ \E r \in Replies : Dream(k, r)
    \/ \E id \in shown \cup {<<0, 0>>} : Approve(k, id)

MemoryStep == \E k \in Command : Propose(k) \/ Show(k) \/ Read(k) \/ AppendRule(k) \/ WriteBack(k)

MemoryTypeOK ==
  /\ commands \in 0..MaxCommands
  /\ rows \in [Videos -> Nat] /\ viral \in [Videos -> BOOLEAN]
  /\ pending \subseteq Id /\ memory \in Seq(Rule)
  /\ \A k \in Command :
       /\ ask[k].step \in {"none", "propose", "show", "read", "append", "write", "ended"}
       /\ ask[k].id \in Id \cup {<<0, 0>>} /\ ask[k].items \subseteq Id
  /\ shown \subseteq Id /\ named \subseteq Id \cup {<<0, 0>>}

---------------------------------------------------------------------------
(* What the code and the memory say of themselves, and is not so.          *)

\* No rule gets into the memory that was not shown to a person and then named by one: "sent to
\* Feishu for human approval, then appended to the approved section only after an explicit
\* command" (core/dreaming_scheduler.py), and the tenth handwritten rule of
\* LONG_TERM_MEMORY.md.  The rules made of replies to reviews were neither.
OnlyApprovedRules == \A i \in DOMAIN memory : memory[i] \in shown \cap named
===============================================================================
