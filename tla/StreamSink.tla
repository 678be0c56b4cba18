----------------------------- MODULE StreamSink -----------------------------
(***************************************************************************)
(* TelegramStreamSink: a reply shown while the model still produces it.    *)
(*                                                                         *)
(* Deltas extend the pending text; a flush renders it into parts and shows *)
(* it, as a draft or by sending and editing one message per part.  The     *)
(* final text is the streamed one, or the provider's reply when nothing    *)
(* visible was streamed; finalize brings the chat up to date, and falls    *)
(* back to a fresh send whose undelivered remainder is queued.             *)
(***************************************************************************)
EXTENDS Integers, Sequences

CONSTANTS
    ChunkSize,   \* characters of one part
    MaxLength    \* bound: characters of a text

ASSUME StreamAssumption == ChunkSize \in Nat \ {0} /\ MaxLength \in Nat \ {0}

VARIABLES
    sink,     \* the sink's fields
    orphans,  \* parts shown in messages whose id the sink does not know
    waiting   \* parts of the reply in the outbound queue

streamVars == <<sink, orphans, waiting>>

\* A text is where it comes from and its length in characters.  The service
\* returns the concatenated deltas unless they are blank.
FinalTexts ==
    IF sink.pending.length = 0
    THEN [version : {"reply"}, length : 0 .. MaxLength] ELSE {sink.pending}

\* split_text_chunks: full chunks, then what is left.
PartsOf(text) ==
    LET n == (text.length + ChunkSize - 1) \div ChunkSize
    IN [i \in 1 .. n |->
          [version |-> text.version, index |-> i,
           length |-> IF i < n THEN ChunkSize
                      ELSE text.length - (n - 1) * ChunkSize]]

\* The draft is only tried in a private chat, where nothing is replied to.
StreamInit ==
    /\ \E prefer, private \in BOOLEAN :
          sink = [prefer |-> prefer, draft |-> private, msgs |-> <<>>,
                  pending |-> [version |-> "streamed", length |-> 0],
                  rendered |-> <<>>, state |-> "streaming"]
    /\ orphans = {} /\ waiting = {}

PartsIn(seq) == {seq[i] : i \in DOMAIN seq}

\* What the draft branch and the send/edit branch compare against.
DraftsNow(s) == s.prefer /\ s.draft /\ s.msgs = <<>>

\* Mutant: an interrupted flush counts its parts as rendered.
EditedEagerly(s, parts, k) ==
    [s EXCEPT !.msgs = IF k > Len(parts) THEN parts ELSE SubSeq(parts, 1, k - 1),
              !.rendered = parts]

\* The message of part i shows it since the last complete flush: no edit.
Unchanged(s, parts, i) ==
    i <= Len(s.msgs) /\ i <= Len(s.rendered) /\ s.rendered[i] = parts[i]

\* sendMessageDraft shows all parts at once, in no message.
Drafted(s, parts) == [s EXCEPT !.rendered = parts]

\* The send/edit branch, interrupted before part k (k past the last part: it
\* succeeds and only then the parts count as rendered).  A message whose part
\* is unchanged since the last complete flush is left alone.
Edited(s, parts, k) ==
    LET upto == IF Len(s.msgs) > k - 1 THEN Len(s.msgs) ELSE k - 1
    IN [s EXCEPT
          !.msgs = [i \in 1 .. upto |->
             IF i >= k \/ i > Len(parts) \/ Unchanged(s, parts, i)
             THEN s.msgs[i] ELSE parts[i]],
          !.rendered = IF k > Len(parts) THEN parts ELSE @]

\* flush(): the results it may have on a sink whose pending text is set.
Flushed(s) ==
    LET parts == PartsOf(s.pending)
        plain == [s EXCEPT !.draft = IF DraftsNow(s) THEN FALSE ELSE @]
        edits == {[sink |-> Edited(plain, parts, k), ok |-> k > Len(parts)] :
                     k \in 1 .. Len(parts) + 1}
    IN IF parts = <<>> \/ parts = s.rendered
       THEN {[sink |-> s, ok |-> TRUE]}
       ELSE edits \cup (IF DraftsNow(s)
                        THEN {[sink |-> Drafted(s, parts), ok |-> TRUE]}
                        ELSE {})

\* on_delta: the text grows and is flushed unless the edit interval has not
\* passed; a failed flush is only logged.
OnDelta ==
    /\ sink.state = "streaming"
    /\ sink.pending.length < MaxLength
    /\ LET s == [sink EXCEPT !.pending.length = @ + 1]
       IN \/ sink' = s
          \/ \E r \in Flushed(s) : sink' = r.sink
    /\ UNCHANGED <<orphans, waiting>>

\* send_message_with_ids, failing at part k or not at all: the parts before k
\* are in the chat, the remainder is queued.
Sent(parts, k) == {parts[i] : i \in 1 .. k - 1}
Queued(parts, k) == {parts[i] : i \in k .. Len(parts)}

\* finalize().  The last two alternatives follow a failed flush.
Finalize ==
    /\ sink.state = "streaming"
    /\ \E text \in FinalTexts :
         LET parts == PartsOf(text)
             s == [sink EXCEPT !.pending = text]
             retreat == [s EXCEPT !.draft = FALSE]
         IN \/ /\ text.length = 0 \/ (parts = s.rendered /\ ~DraftsNow(s))
               /\ sink' = [s EXCEPT !.state = "ok"]
               /\ UNCHANGED <<orphans, waiting>>
            \/ /\ text.length > 0 /\ DraftsNow(s)
               /\ sink' = [s EXCEPT !.msgs = parts, !.rendered = parts,
                                    !.state = "ok"]
               /\ UNCHANGED <<orphans, waiting>>
            \/ /\ text.length > 0
               /\ DraftsNow(s) \/ parts # s.rendered
               /\ \E first \in IF DraftsNow(s) THEN 1 .. Len(parts) ELSE {0} :
                  \E r \in Flushed(IF first = 0 THEN s ELSE retreat) :
                    LET shown == IF first = 0 THEN {} ELSE Sent(parts, first)
                        left == IF first = 0 THEN {} ELSE Queued(parts, first)
                    IN \/ /\ r.ok
                          /\ sink' = [r.sink EXCEPT !.state = "ok"]
                          /\ orphans' = orphans \cup shown
                          /\ waiting' = waiting \cup left
                       \/ /\ ~r.ok
                          /\ \E k \in 1 .. Len(parts) + 1 :
                               /\ sink' = [r.sink EXCEPT
                                    !.msgs = IF k > Len(parts) THEN @ \o parts ELSE @,
                                    !.state = IF k > Len(parts) THEN "ok" ELSE "error"]
                               /\ orphans' = orphans \cup shown \cup Sent(parts, k)
                               /\ waiting' = waiting \cup left \cup Queued(parts, k)

\* The provider's stream breaks off: the turn fails without a finalize.
StreamBreaks ==
    /\ sink.state = "streaming"
    /\ sink' = [sink EXCEPT !.state = "broken"]
    /\ UNCHANGED <<orphans, waiting>>

StreamNext == OnDelta \/ Finalize \/ StreamBreaks

StreamSpec == StreamInit /\ [][StreamNext]_streamVars

\* When the sink is done with a reply, every part of the final text is in the
\* chat or waits in the outbound queue: whichever drafts, sends and edits failed
\* on the way.
ReplyReachesChat ==
    sink.state \in {"ok", "error"} =>
        \A i \in DOMAIN PartsOf(sink.pending) :
            PartsOf(sink.pending)[i] \in PartsIn(sink.msgs) \cup orphans \cup waiting
=============================================================================
