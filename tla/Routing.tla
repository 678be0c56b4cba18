------------------------------ MODULE Routing -------------------------------
(***************************************************************************)
(* What the Telegram channel does with a message: process_telegram_update, *)
(* the slash commands and the group pipeline, for one private and one      *)
(* group chat.                                                             *)
(*                                                                         *)
(* A message is the answers its text gives to the predicates of            *)
(* telegram_rules: is it a command, does it mention the bot, ask, point at *)
(* another handle, which names does it put next to the bot's handle or     *)
(* begin with.  The group's runtime state (learned names, the last reply)  *)
(* lives in memory; the names are also stored.                             *)
(***************************************************************************)
EXTENDS Integers, FiniteSets

CONSTANTS
    Names,       \* names the group may call the bot by
    MaxAliases,  \* 24: names remembered for one chat
    MinScore,    \* group_rule_min_score
    Setups       \* the configurations to look at

ASSUME RoutingAssumption ==
    /\ MaxAliases \in Nat /\ MinScore \in Nat
    /\ Setups \subseteq
         [admins : BOOLEAN,       \* the allowlist is not empty
          enabled : BOOLEAN, privateOnly : BOOLEAN,
          engine : BOOLEAN,       \* the loop engine is wired
          scheduler : BOOLEAN, smart : BOOLEAN,
          username : BOOLEAN]     \* the bot knows its own name

VARIABLES
    setup,    \* the configuration, fixed while the channel runs
    group,    \* the group's runtime state
    stored,   \* telegram_group_aliases
    did,      \* what became of the last message
    fresh     \* history: a reply was sent and the cool-down has not passed

routingVars == <<setup, group, stored, did, fresh>>

NoName == "none"
AdminCommands == {"mcp", "skills", "task", "agents", "goal", "resume", "signals"}
PublicCommands == {"start", "help", "whoami"}
Senders == {"admin", "user", "bot", "nobody"}

\* Commands and feedback markers need no further analysis; a command addressed
\* to another bot is plain text.
PlainSignals ==
    [mention |-> FALSE, question |-> FALSE, other |-> FALSE, noise |-> FALSE,
     beside |-> {}, lead |-> NoName]

\* Words next to the bot's handle, and the word a text begins with.
BesideNames == {{}} \cup {{n} : n \in Names}
LeadNames == Names \cup {NoName}

TextSignals ==
    [mention : BOOLEAN, question : BOOLEAN, other : BOOLEAN, noise : BOOLEAN,
     beside : BesideNames, lead : LeadNames]

Messages ==
    [chat : {"private", "group", "other"}, from : Senders, reply : BOOLEAN,
     body : AdminCommands \cup PublicCommands \cup {"unknown", "marker"},
     text : {PlainSignals}]
    \cup [chat : {"private", "other"}, from : Senders, reply : {FALSE},
          body : {"text"}, text : {PlainSignals}]
    \cup [chat : {"group"}, from : {"user", "bot"}, reply : BOOLEAN,
          body : {"text"}, text : TextSignals]

EmptyGroup == [loaded |-> FALSE, aliases |-> {}, last |-> "never"]
NoAction == [what |-> "none", chat |-> "none", from |-> "nobody", prompted |-> TRUE]

RoutingInit ==
    /\ setup \in Setups
    /\ group = EmptyGroup /\ stored = {} /\ did = NoAction /\ fresh = FALSE

(***************************************************************************)
(* Access.                                                                 *)
(***************************************************************************)

\* Mutant: an empty allowlist lets everybody in.
AllowedByDefault(from) == setup.admins => from = "admin"

\* evaluate_private_chat_access: without an allowlist nobody is allowed.
Allowed(from) == setup.admins /\ from = "admin"

\* The checks in front of each administrative command.
McpAccess(m) ==
    setup.enabled /\ (setup.privateOnly => m.chat = "private") /\ Allowed(m.from)
HarnessAccess(m) ==
    setup.enabled /\ m.chat = "private" /\ Allowed(m.from) /\ setup.engine
TaskAccess(m) == setup.scheduler /\ m.chat = "private" /\ Allowed(m.from)
AgentsAccess(m) == m.chat = "private" /\ Allowed(m.from)

MayRun(m) ==
    \/ m.body \in {"mcp", "skills"} /\ McpAccess(m)
    \/ m.body \in {"goal", "resume", "signals"} /\ HarnessAccess(m)
    \/ m.body = "task" /\ TaskAccess(m)
    \/ m.body = "agents" /\ AgentsAccess(m)

\* maybe_handle_telegram_command: an unknown command is refused in private and
\* is an ordinary message elsewhere.
IsCommand(m) ==
    \/ m.body \in AdminCommands \cup PublicCommands
    \/ m.body = "unknown" /\ m.chat = "private"

CommandEffect(m) ==
    IF m.body \in PublicCommands \cup {"unknown"} THEN "informed"
    ELSE IF MayRun(m) THEN "managed" ELSE "refused"

(***************************************************************************)
(* The group pipeline.                                                     *)
(***************************************************************************)

LeastOf(a, b) == IF a < b THEN a ELSE b
MostOf(a, b) == IF a < b THEN b ELSE a

\* learn_group_alias_tokens: until the chat's names are full.
Learn(aliases, names) ==
    IF Cardinality(aliases) >= MaxAliases THEN aliases ELSE aliases \cup names

\* bootstrap_group_runtime_state: as many of the stored names as fit, or none
\* when they cannot be read.
Bootstraps ==
    {{}} \cup {names \in SUBSET stored :
                 Cardinality(names) = LeastOf(Cardinality(stored), MaxAliases)}

\* evaluate_group_decision.
Score(s) ==
    (IF s.recent THEN 30 ELSE 0) + (IF s.alias THEN 25 ELSE 0)
      + (IF s.vocative THEN 75 ELSE 0) + (IF s.question THEN 20 ELSE 0)
      - (IF s.other THEN 35 ELSE 0) - (IF s.noise THEN 25 ELSE 0)

\* Mutant: the cool-down is not looked at.
DecisionWithoutCooldown(s) ==
    IF s.mention \/ s.reply THEN "respond"
    ELSE IF ~setup.smart THEN "ignore"
    ELSE IF Score(s) < MinScore THEN "observe" ELSE "respond"

Decision(s) ==
    LET min == MostOf(1, LeastOf(MinScore, 100))
        watch == MostOf(min \div 2, 30)
    IN IF s.mention \/ s.reply THEN "respond"
       ELSE IF ~setup.smart \/ Score(s) < watch THEN "ignore"
       ELSE IF Score(s) < min \/ (s.cooling /\ ~s.vocative) THEN "observe"
       ELSE "respond"

\* Nothing mentions a bot that does not know its name.
Mentions(t) == setup.username /\ t.mention

ContainsAlias(t, aliases) == (t.beside \cup {t.lead}) \cap aliases # {}

\* load_group_runtime_signals.
RepliedRecently == group.last \in {"cooling", "recent"}
CoolingDown == group.last = "cooling"

\* process_group_message: the first message of a chat loads the stored names
\* (an error leaves none, and is not retried); a message to the bot teaches the
\* names beside its handle; a message that begins with a known name, or with a
\* new one and asks, is meant for the bot, and teaches the name.
GroupTurn(m, boot) ==
    LET t == m.text
        known == IF group.loaded THEN group.aliases ELSE boot
        mention == Mentions(t)
        taught == IF setup.username /\ (mention \/ m.reply)
                  THEN Learn(known, t.beside) ELSE known
        lead == IF setup.username THEN t.lead ELSE NoName
        vocative == /\ setup.smart /\ ~(setup.username /\ t.other)
                    /\ lead # NoName /\ (lead \in taught \/ t.question)
        learned == IF vocative THEN Learn(taught, {lead}) ELSE taught
        heard == IF vocative THEN learned \cup {lead} ELSE learned
        signals == [mention |-> mention, reply |-> m.reply,
                    recent |-> RepliedRecently, cooling |-> CoolingDown,
                    alias |-> ContainsAlias(t, heard),
                    vocative |-> vocative, question |-> t.question,
                    other |-> setup.username /\ t.other, noise |-> t.noise]
    IN [decision |-> Decision(signals), aliases |-> learned,
        new |-> learned \ known, prompted |-> mention \/ m.reply \/ vocative]

\* upsert_group_aliases, whose failure is only logged.
Saved(names) == stored \cup names

\* The reply is recorded for the cool-down once it was sent.
RecordReply(g) == [g EXCEPT !.last = "cooling"]

Done(m, what, prompted) ==
    did' = [what |-> what, chat |-> m.chat, from |-> m.from, prompted |-> prompted]

(***************************************************************************)
(* Messages.                                                               *)
(***************************************************************************)

\* Bots are ignored in groups; in private only the admins get past this point.
TurnedAway(m) ==
    \/ m.chat = "group" /\ m.from = "bot"
    \/ m.chat = "private" /\ ~Allowed(m.from)

Refuse(m) ==
    /\ TurnedAway(m)
    /\ Done(m, IF m.chat = "group" THEN "ignored" ELSE "refused", TRUE)
    /\ UNCHANGED <<setup, group, stored, fresh>>

RunCommand(m) ==
    /\ ~TurnedAway(m) /\ IsCommand(m)
    /\ Done(m, CommandEffect(m), TRUE)
    /\ UNCHANGED <<setup, group, stored, fresh>>

\* A marker in reply to the bot is feedback, if the run it answers is known.
TakeFeedback(m) ==
    /\ ~TurnedAway(m) /\ ~IsCommand(m)
    /\ m.body = "marker" /\ m.reply /\ m.chat # "other"
    /\ Done(m, "feedback", TRUE)
    /\ UNCHANGED <<setup, group, stored, fresh>>

\* Private chats: the scheduler may take the text, else the model answers.  A
\* chat of another kind goes straight to the model.
AnswerDirectly(m) ==
    /\ ~TurnedAway(m) /\ ~IsCommand(m) /\ m.chat # "group"
    /\ \E what \in {"answered", "failed"}
                     \cup (IF setup.scheduler /\ m.chat = "private"
                           THEN {"scheduled"} ELSE {}) :
          Done(m, what, TRUE)
    /\ UNCHANGED <<setup, group, stored, fresh>>

\* Groups: the decision first, then the scheduler or the model.  Only a reply
\* that was sent counts for the cool-down.
HandleGroup(m) ==
    /\ ~TurnedAway(m) /\ ~IsCommand(m) /\ m.chat = "group"
    /\ \E boot \in Bootstraps, saves, sent \in BOOLEAN :
         LET turn == GroupTurn(m, boot)
             kept == [group EXCEPT !.loaded = TRUE, !.aliases = turn.aliases]
             replies == turn.decision = "respond" /\ sent
         IN /\ group' = IF replies THEN RecordReply(kept) ELSE kept
            /\ stored' = IF saves THEN Saved(turn.new) ELSE stored
            /\ fresh' = (fresh \/ replies)
            /\ Done(m, CASE turn.decision = "ignore" -> "ignored"
                         [] turn.decision = "observe" -> "observed"
                         [] OTHER -> IF sent THEN "answered" ELSE "failed",
                    turn.prompted)
    /\ UNCHANGED setup

\* An inline button: the draft of the user who pressed it is confirmed or
\* dropped, in private for admins only.
PressButton(chat, from) ==
    LET m == [chat |-> chat, from |-> from]
    IN /\ Done(m, IF chat = "private" /\ ~Allowed(from) THEN "refused"
                  ELSE "scheduled", TRUE)
       /\ UNCHANGED <<setup, group, stored, fresh>>

ReplyAges ==
    /\ group.last \in {"cooling", "recent"}
    /\ group' = [group EXCEPT !.last = IF @ = "cooling" THEN "recent" ELSE "old"]
    /\ fresh' = FALSE
    /\ UNCHANGED <<setup, stored, did>>

\* A restart or a reload forgets the runtime state.
ChannelRestarts ==
    /\ group.loaded
    /\ group' = EmptyGroup /\ fresh' = FALSE
    /\ UNCHANGED <<setup, stored, did>>

\* The update is settled before the next one is looked at.
NextMessage ==
    /\ did # NoAction
    /\ did' = NoAction
    /\ UNCHANGED <<setup, group, stored, fresh>>

RoutingNext ==
    \/ /\ did = NoAction
       /\ \E m \in Messages :
            \/ Refuse(m) \/ RunCommand(m) \/ TakeFeedback(m) \/ AnswerDirectly(m)
            \/ HandleGroup(m)
    \/ /\ did = NoAction
       /\ \E chat \in {"private", "group"}, from \in {"admin", "user"} :
            PressButton(chat, from)
    \/ NextMessage \/ ReplyAges \/ ChannelRestarts

RoutingSpec == RoutingInit /\ [][RoutingNext]_routingVars

(***************************************************************************)
(* Properties.                                                             *)
(***************************************************************************)
RoutingTypeOK ==
    /\ group.aliases \subseteq Names /\ Cardinality(group.aliases) <= MaxAliases
    /\ group.last \in {"never", "cooling", "recent", "old"}
    /\ stored \subseteq Names /\ fresh \in BOOLEAN

\* Whatever path a message takes, only an admin of a configured allowlist
\* manages anything, and in a private chat only such an admin reaches the
\* scheduler, the feedback store or the model.
OnlyAdminsManage ==
    \/ did.what = "managed"
    \/ did.chat = "private" /\ did.what \in {"answered", "scheduled", "feedback", "failed"}
    => setup.admins /\ did.from = "admin"

\* After a reply in the group the bot stays quiet until the cool-down is over,
\* unless it is mentioned, replied to or called by name.
QuietAfterReply ==
    [][fresh /\ did'.chat = "group" /\ did'.what = "answered" => did'.prompted]_did
=============================================================================
