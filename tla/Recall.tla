------------------------------- MODULE Recall -------------------------------
(***************************************************************************)
(* The hybrid memory: SQLite keeps every message as a chunk, a vector      *)
(* sidecar indexes it.  Chunk and outbox row are written in one            *)
(* transaction; the upsert that follows may fail or die, and a reconciler  *)
(* replays the oldest rows of the outbox.  Chunks are numbered in the      *)
(* order they are stored.                                                  *)
(***************************************************************************)
EXTENDS Integers, Sequences, SequencesExt, FiniteSets, FiniteSetsExt

CONSTANTS
    MaxChunks,     \* bound: messages of the session
    Batch,         \* rows the reconciler reads in one sweep (32)
    Poison,        \* chunks the sidecar never accepts
    TextOf,        \* chunk -> its normalised text
    OwnerOf,       \* chunk -> user and channel
    MaxSnippets,   \* max_semantic_memories
    MaxOutages     \* bound: failed upserts, failed writes, deaths

ASSUME RecallAssumption ==
    /\ MaxChunks \in Nat /\ Batch \in Nat /\ MaxSnippets \in Nat /\ MaxOutages \in Nat
    /\ Poison \subseteq 1 .. MaxChunks /\ Cardinality(Poison) < Batch

VARIABLES
    messages,  \* how many messages are stored
    writing,   \* those whose chunk is still to be written
    chunks,    \* memory_chunks
    outbox,    \* memory_sidecar_outbox
    index,     \* what the sidecar has
    upserts,   \* spawned upserts under way, and those not yet recorded
    sweep,     \* the rows the reconciler has read and not yet replayed
    outages,
    recalled   \* the owner of the last question, its recent texts, the snippets

memoryVars == <<messages, writing, chunks, outbox, index, upserts, sweep, outages, recalled>>

Chunks == 1 .. MaxChunks
NoQuestion == [owner |-> "none", recent |-> {}, found |-> {}, snippets |-> <<>>]

RecallInit ==
    /\ messages = 0 /\ writing = {} /\ chunks = {} /\ outbox = {} /\ index = {}
    /\ upserts = {} /\ sweep = <<>> /\ outages = 0 /\ recalled = NoQuestion

Outage == outages < MaxOutages /\ outages' = outages + 1

\* append stores the message first; a blank one has no chunk.
StoreText ==
    /\ messages < MaxChunks /\ messages' = messages + 1
    /\ writing' \in {writing, writing \union {messages'}}
    /\ UNCHANGED <<chunks, outbox, index, upserts, sweep, outages, recalled>>

\* Mutant: the outbox row is left for the upsert to write when it fails.
StoreChunkOnly ==
    /\ \E c \in writing :
          /\ writing' = writing \ {c}
          /\ chunks' = chunks \union {c}
          /\ upserts' = upserts \union {[chunk |-> c, accepted |-> FALSE]}
    /\ UNCHANGED <<messages, outbox, index, sweep, outages, recalled>>

\* append_chunk_and_outbox in one transaction, then the spawned upsert.
StoreChunk ==
    /\ \E c \in writing :
          /\ writing' = writing \ {c}
          /\ chunks' = chunks \union {c} /\ outbox' = outbox \union {c}
          /\ upserts' = upserts \union {[chunk |-> c, accepted |-> FALSE]}
    /\ UNCHANGED <<messages, index, sweep, outages, recalled>>

\* The sidecar accepts the spawned upsert, or the attempt is counted.
Upsert ==
    /\ \E u \in upserts :
          /\ ~u.accepted
          /\ \/ /\ u.chunk \notin Poison
                /\ index' = index \union {u.chunk}
                /\ upserts' = (upserts \ {u}) \union {[u EXCEPT !.accepted = TRUE]}
                /\ UNCHANGED outages
             \/ /\ upserts' = upserts \ {u} /\ UNCHANGED index
                /\ IF u.chunk \in Poison THEN UNCHANGED outages ELSE Outage
    /\ UNCHANGED <<messages, writing, chunks, outbox, sweep, recalled>>

\* delete_sidecar_outbox; a failed delete is ignored.
UpsertRecorded ==
    /\ \E u \in upserts :
          /\ u.accepted /\ upserts' = upserts \ {u}
          /\ \/ outbox' = outbox \ {u.chunk} /\ UNCHANGED outages
             \/ Outage /\ UNCHANGED outbox
    /\ UNCHANGED <<messages, writing, chunks, index, sweep, recalled>>

\* Mutant: one row short of the batch.
OldestButOne(rows, n) ==
    LET ordered == SetToSortSeq(rows, <)
    IN SubSeq(ordered, 1, Min({n - 1, Len(ordered)}))

Oldest(rows, n) ==
    LET ordered == SetToSortSeq(rows, <)
    IN SubSeq(ordered, 1, Min({n, Len(ordered)}))

\* list_sidecar_outbox: the oldest rows, whatever their attempts.
StartSweep ==
    /\ sweep = <<>> /\ outbox # {}
    /\ sweep' = Oldest(outbox, Batch)
    /\ UNCHANGED <<messages, writing, chunks, outbox, index, upserts, outages, recalled>>

ReplayRow ==
    /\ sweep # <<>> /\ sweep' = Tail(sweep)
    /\ LET c == Head(sweep) IN
       \/ /\ c \notin Poison /\ index' = index \union {c}
          /\ \/ outbox' = outbox \ {c} /\ UNCHANGED outages
             \/ Outage /\ UNCHANGED outbox
       \/ /\ UNCHANGED <<index, outbox>>
          /\ IF c \in Poison THEN UNCHANGED outages ELSE Outage
    /\ UNCHANGED <<messages, writing, chunks, upserts, recalled>>

\* The process dies with its spawned upserts and its sweep; a message without
\* a chunk stays without one.
MemoryDies ==
    /\ Outage
    /\ upserts' = {} /\ sweep' = <<>> /\ writing' = {}
    /\ UNCHANGED <<messages, chunks, outbox, index, recalled>>

-----------------------------------------------------------------------------
(* load_context.                                                           *)

\* The better of the two hits of each text that is not in the recent messages.
Candidates(hits, recent) ==
    {h \in hits : /\ h.text \notin recent
                  /\ \A g \in hits : g.text = h.text => g.score <= h.score}

\* merge_memory_candidates_into_context: the best of them, best first.
Best(hits) == CHOOSE h \in hits : \A g \in hits : g.score <= h.score

Merged(hits, recent) ==
    LET candidates == Candidates(hits, recent)
        count == Min({MaxSnippets, Cardinality(candidates)})
        ranked[i \in 0 .. count] ==
            IF i = 0 THEN <<>>
            ELSE Append(ranked[i - 1], Best(candidates \ Range(ranked[i - 1])))
    IN ranked[count]

Hits(set, scores) == {[text |-> TextOf[c], score |-> scores[c]] : c \in set}

\* The sidecar's hits, none when its query fails, and the local keyword hits.
LoadMemories ==
    /\ recalled.owner = "none" /\ chunks # {}
    /\ \E owner \in Range(OwnerOf), up \in BOOLEAN, scores \in [Chunks -> {40, 80}] :
          LET own == {c \in chunks : OwnerOf[c] = owner}
              recent == {TextOf[c] : c \in {d \in own : d = Max(own)}}
              found == Hits(own, scores) \union IF up THEN Hits(index \intersect own, scores) ELSE {}
          IN recalled' = [owner |-> owner, recent |-> recent, found |-> found,
                          snippets |-> Merged(found, recent)]
    /\ UNCHANGED <<messages, writing, chunks, outbox, index, upserts, sweep, outages>>

RecallNext ==
    \/ StoreText \/ StoreChunk \/ Upsert \/ UpsertRecorded
    \/ StartSweep \/ ReplayRow \/ MemoryDies \/ LoadMemories

RecallSpec == RecallInit /\ [][RecallNext]_memoryVars

\* The reconciler runs every 30 seconds.
RecallFairness == WF_memoryVars(StartSweep \/ ReplayRow)

\* A chunk is in the index or in the outbox, or its upsert is still under way
\* with its row in the outbox: nothing is left that no one will index.
OutboxCovers == chunks \subseteq index \union outbox

\* Every chunk the sidecar can accept is in the index.
AllIndexed == chunks \ Poison \subseteq index

\* However long the sidecar was away and whatever died in between, the index
\* catches up, again and again.
EventuallyIndexed == []<>AllIndexed

\* The snippets of an answer are the best of the hits, none of them twice and
\* none of them said in the recent messages.
RecallIsSound ==
    LET s == recalled.snippets
    IN /\ Len(s) <= MaxSnippets
       /\ \A i, j \in 1 .. Len(s) : i < j => s[i].text # s[j].text /\ s[i].score >= s[j].score
       /\ \A i \in 1 .. Len(s) : s[i].text \notin recalled.recent
       /\ \A h \in recalled.found : h.text \in recalled.recent
             \/ (\E i \in 1 .. Len(s) : s[i].text = h.text)
             \/ \A i \in 1 .. Len(s) : s[i].score >= h.score
=============================================================================
