------------------------------ MODULE Context -------------------------------
(***************************************************************************)
(* One turn of the message service: the user's message is stored, the      *)
(* context is loaded (memory snippets first, then the recent messages),    *)
(* compacted, cut to the token budget and sent; the reply is verified and  *)
(* stored.  A message is its length in characters and its place in the     *)
(* loaded context; a summary also knows the places it stands for.          *)
(***************************************************************************)
EXTENDS Integers, Sequences, SequencesExt, FiniteSetsExt

CONSTANTS
    Window,       \* context_window_tokens
    Reserved,     \* context_reserved_tokens
    MemoryRatio,  \* context_memory_budget_ratio, clamped to 80
    MinRecent,    \* context_min_recent_messages
    HeadCount,    \* head_count and
    TailCount,    \* tail_count of the head-tail strategy
    RetainedTail, \* the tail the budget and age strategies keep (6 in the code)
    Threshold,    \* message_count_threshold
    MaxHistory,   \* bound: recent messages
    MaxMemories,  \* max_semantic_memories
    Lengths       \* bound: lengths of messages in characters

ASSUME ContextAssumption ==
    /\ Window \in Nat /\ Reserved \in 0 .. Window - 1
    /\ MemoryRatio \in 0 .. 80 /\ MinRecent \in Nat \ {0}
    /\ HeadCount \in Nat /\ TailCount \in Nat /\ RetainedTail \in Nat \ {0} /\ Threshold \in Nat
    /\ ((Window - Reserved) * (100 - MemoryRatio)) \div 100 > 12
    /\ MaxHistory \in Nat /\ MaxMemories \in Nat /\ Lengths \subseteq Nat

VARIABLES
    turn,      \* where the turn is
    context,   \* the loaded context
    strategy,  \* head_tail, budget or age
    stale,     \* messages whose age is known and above max_age_days, a prefix
    prompt,    \* what is left of it
    cache,     \* compaction_summaries has a live row for the loaded context
    stored     \* the messages of the session this turn has stored

contextVars == <<turn, context, strategy, stale, prompt, cache, stored>>

Message(kind, place, chars) == [kind |-> kind, place |-> place, chars |-> chars, covers |-> {}]

\* load_context: the best snippets, best first, before the recent messages.
Loaded(memories, recent) ==
    [i \in 1 .. Len(memories) |-> Message("memory", i, memories[i])] \o
    [i \in 1 .. Len(recent) |-> Message("turn", Len(memories) + i, recent[i])]

\* estimate_message_tokens.
TokensOf(chars) == Max({1, (chars + 3) \div 4}) + 4
Total(messages) ==
    LET sum[i \in 0 .. Len(messages)] ==
            IF i = 0 THEN 0 ELSE sum[i - 1] + TokensOf(messages[i].chars)
    IN sum[Len(messages)]

-----------------------------------------------------------------------------
(* The compactor.                                                          *)

SummaryChars == 40

Summarised(messages, from, to) ==
    [Message("summary", from, SummaryChars)
        EXCEPT !.covers = {messages[i].place : i \in from .. to}]

\* The first `head' and the last `tail' messages around a summary of the rest.
Compacted(messages, head, tail) ==
    IF Len(messages) <= head + tail THEN messages
    ELSE SubSeq(messages, 1, head)
         \o <<Summarised(messages, head + 1, Len(messages) - tail)>>
         \o SubSeq(messages, Len(messages) - tail + 1, Len(messages))

HeadTail(messages) == Compacted(messages, HeadCount, Max({TailCount, MinRecent}))

BudgetBased(messages) ==
    IF Total(messages) <= Window - Reserved \/ Len(messages) <= 3 THEN messages
    ELSE Compacted(messages, 1, Min({Len(messages) - 1, Max({RetainedTail, MinRecent})}))

\* Snippets have no age, so with one in front nothing is stale.
AgeBased(messages, prefix) ==
    LET tail == Max({RetainedTail, MinRecent})
        count == Min({prefix, Len(messages) - tail})
    IN IF Len(messages) <= tail \/ count = 0 THEN messages
       ELSE Compacted(messages, 0, Len(messages) - count)

Compact(messages) ==
    CASE strategy = "head_tail" -> HeadTail(messages)
      [] strategy = "budget" -> BudgetBased(messages)
      [] strategy = "age" -> AgeBased(messages, stale)

-----------------------------------------------------------------------------
(* apply_context_budget.                                                   *)

InputBudget == Window - Reserved
MemoryBudget == (InputBudget * MemoryRatio) \div 100

\* truncate_message_to_token_budget: its suffix has 15 characters.
Truncated(chars, room) ==
    IF TokensOf(chars) <= room THEN chars
    ELSE Min({chars, Max({8, 4 * room - 12})}) + 15

\* What was chosen so far: the indices selected, each message's length (a
\* replacement is shorter), the tokens used, how many recent ones were kept.
Keep(acc, i, chars) ==
    [selected |-> acc.selected \union {i}, chars |-> [acc.chars EXCEPT ![i] = chars],
     used |-> Min({acc.used + TokensOf(chars), InputBudget}), recent |-> acc.recent + 1]

\* The snippets that fit into their share of the budget, the best first.
KeepMemory(acc, m, i) ==
    IF m.kind # "memory" \/ acc.used + TokensOf(m.chars) > MemoryBudget THEN acc
    ELSE [Keep(acc, i, m.chars) EXCEPT !.recent = 0]

WithMemories(messages) ==
    LET nothing == [selected |-> {}, chars |-> [i \in 1 .. Len(messages) |-> messages[i].chars],
                    used |-> 0, recent |-> 0]
        kept[i \in 0 .. Len(messages)] ==
            IF i = 0 THEN nothing ELSE KeepMemory(kept[i - 1], messages[i], i)
    IN kept[Len(messages)]

\* Then the messages from the newest to the oldest; one that does not fit is cut
\* down while too few recent ones are kept.  (The pass after this one finds
\* nothing that fits: what did not fit once fits no later.)
KeepRecent(acc, m, i) ==
    LET room == InputBudget - acc.used
    IN IF i \in acc.selected THEN acc
       ELSE IF TokensOf(m.chars) <= room THEN Keep(acc, i, m.chars)
       ELSE IF acc.recent < MinRecent /\ room > 12 THEN Keep(acc, i, Truncated(m.chars, room))
       ELSE acc

\* Mutant: the recent messages are taken from the oldest on.
FromOldest(messages) ==
    LET kept[i \in 0 .. Len(messages)] ==
            IF i = 0 THEN WithMemories(messages) ELSE KeepRecent(kept[i - 1], messages[i], i)
    IN kept[Len(messages)]

WithRecent(messages) ==
    LET from(i) == Len(messages) + 1 - i
        kept[i \in 0 .. Len(messages)] ==
            IF i = 0 THEN WithMemories(messages)
            ELSE KeepRecent(kept[i - 1], messages[from(i)], from(i))
    IN kept[Len(messages)]

\* The selected messages in their order, with their replacements.
Selection(messages, chosen) ==
    LET out[i \in 0 .. Len(messages)] ==
            IF i = 0 THEN <<>>
            ELSE IF i \notin chosen.selected THEN out[i - 1]
            ELSE Append(out[i - 1], [messages[i] EXCEPT !.chars = chosen.chars[i]])
    IN out[Len(messages)]

Budgeted(messages) ==
    LET chosen == WithRecent(messages)
    IN IF Total(messages) <= InputBudget THEN messages
       ELSE IF chosen.selected = {} THEN <<Last(messages)>> ELSE Selection(messages, chosen)

-----------------------------------------------------------------------------
(* The turn.                                                               *)

ContextInit ==
    /\ turn = "received" /\ context = <<>> /\ prompt = <<>>
    /\ strategy \in {"head_tail", "budget", "age"} /\ stale = 0
    /\ cache = FALSE /\ stored = <<>>

\* The user's message is stored; a time question is answered at once.
StoreMessage ==
    /\ turn = "received"
    /\ \/ turn' = "failed" /\ UNCHANGED stored
       \/ turn' \in {"load", "answered"} /\ stored' = <<"user">>
    /\ UNCHANGED <<context, strategy, stale, prompt, cache>>

\* The summary's source key covers every message of the context.
CachedBefore(messages) == IF Len(messages) >= Threshold THEN BOOLEAN ELSE {FALSE}

LoadContext ==
    /\ turn = "load"
    /\ \E n \in 1 .. MaxHistory, k \in 0 .. MaxMemories :
          \E recent \in [1 .. n -> Lengths], memories \in [1 .. k -> Lengths] :
             context' = Loaded(memories, recent)
          /\ stale' \in IF k > 0 \/ strategy # "age" THEN {0} ELSE 0 .. n
    /\ cache' \in CachedBefore(context')
    /\ turn' = "compact"
    /\ UNCHANGED <<strategy, prompt, stored>>

\* apply_compaction: a context with a cached summary is compacted with it; below
\* the threshold, and when the summary call fails, it is used as it is.  A new
\* summary that saves tokens is kept.
CompactContext ==
    /\ turn = "compact" /\ turn' = "budget"
    /\ LET compacted == Compact(context)
       IN \/ /\ Len(context) >= Threshold
             /\ prompt' = compacted
             /\ cache' \in {cache, cache \/ Total(compacted) < Total(context)}
          \/ /\ Len(context) < Threshold \/ (compacted # context /\ ~cache)
             /\ prompt' = context /\ UNCHANGED cache
    /\ UNCHANGED <<context, strategy, stale, stored>>

\* The budget; then the swarm answers, or the completion does.
FitContext ==
    /\ turn = "budget"
    /\ prompt' = Budgeted(prompt)
    /\ turn' \in {"answered", "complete"}
    /\ UNCHANGED <<context, strategy, stale, cache, stored>>

Complete ==
    /\ turn = "complete"
    /\ turn' \in {"answered", "failed"}
    /\ UNCHANGED <<context, strategy, stale, prompt, cache, stored>>

\* The reply is verified and stored before it is returned.
StoreReply ==
    /\ turn = "answered"
    /\ \/ turn' = "failed" /\ UNCHANGED stored
       \/ turn' = "returned" /\ stored' = Append(stored, "assistant")
    /\ UNCHANGED <<context, strategy, stale, prompt, cache>>

ContextNext ==
    StoreMessage \/ LoadContext \/ CompactContext \/ FitContext \/ Complete \/ StoreReply

ContextSpec == ContextInit /\ [][ContextNext]_contextVars

\* What the model is sent is sound: it ends with the user's question, it is
\* over the budget by no more than the suffix of the message that was cut, and
\* before the budget every message of the context is there or in the summary.
PromptIsSound ==
    /\ turn = "complete" =>
          /\ prompt # <<>> /\ Last(prompt).place = Len(context)
          /\ Total(prompt) <= InputBudget + 5
    /\ turn = "budget" =>
          /\ 1 .. Len(context) = UNION {{m.place} \union m.covers : m \in Range(prompt)}
          /\ Last(prompt) = Last(context)
=============================================================================
