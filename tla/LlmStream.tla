----------------------------- MODULE LlmStream -----------------------------
(***************************************************************************)
(* A streamed answer of the language model, from the lines the provider     *)
(* reads (converse_stream and StreamingSession, crates vol-llm-provider and  *)
(* vol-llm-core) to what the agent makes of them (consume_llm_stream, crate  *)
(* vol-llm-agent).  A task of its own reads the response and sends events   *)
(* over a bounded channel; the agent's task consumes them.                  *)
(*                                                                         *)
(* A piece of text, thinking or tool arguments is a number, so that a lost,  *)
(* repeated or misplaced piece shows.  Usage and completion events, which    *)
(* the consumer does not use to build the answer, are "other".              *)
(*                                                                         *)
(* The openai parser makes at most one event of a chunk.  Text counts as     *)
(* sent in "sent" when it comes where the parser looks for it, in a chunk    *)
(* of its own; what comes elsewhere is passed over (PassedOver).            *)
(***************************************************************************)
EXTENDS Integers, Sequences

CONSTANTS
    Capacity,       \* of the channel (100 in the code)
    MaxPieces       \* bound: pieces and tool calls of a response

ASSUME StreamConstants == Capacity \in Nat \ {0} /\ MaxPieces \in Nat

VARIABLES
    protocol,   \* "anthropic" or "openai"
    block,      \* kind of the block being sent (anthropic only)
    sent,       \* what the server sent: text, thinking blocks, calls, and the
                \* ids of calls whose start was passed over
    strayed,    \* arguments of the call started last were dropped, or it got
                \* those of another (history)
    pieces,     \* pieces and calls sent
    finished,   \* the server sent its end marker
    broken,     \* reading failed (history)
    session,    \* StreamingSession: content, thinking, call
    reader,     \* where the reading task is
    emitting,   \* events it has yet to send
    channel,    \* events in the channel
    answer,     \* thinking, tool calls and content accumulated by the consumer
    deltas,     \* content deltas it emitted as agent events
    outcome     \* of consume_llm_stream

vars == <<protocol, block, sent, strayed, pieces, finished, broken, session,
          reader, emitting, channel, answer, deltas, outcome>>

serverVars == <<protocol, block, sent, strayed, pieces, finished>>
consumerVars == <<channel, answer, deltas, outcome>>

NoCall == [id |-> 0, args |-> <<>>]

Init ==
    /\ protocol \in {"anthropic", "openai"}
    /\ block = "none"
    /\ sent = [text |-> <<>>, thinking |-> <<>>, calls |-> <<>>, unread |-> {}]
    /\ strayed = FALSE
    /\ pieces = 0
    /\ finished = FALSE
    /\ broken = FALSE
    /\ session = [content |-> <<>>, thinking |-> <<>>, call |-> NoCall]
    /\ reader = "reading"
    /\ emitting = <<>>
    /\ channel = <<>>
    /\ answer = [thinking |-> <<>>, calls |-> <<>>, content |-> <<>>]
    /\ deltas = <<>>
    /\ outcome = "reading"

(* -- StreamingSession ----------------------------------------------------------- *)

Event(kind, data) == [kind |-> kind, data |-> data]
Other == Event("other", <<>>)

\* What finalize sends.
Finalized(s) ==
    (IF s.content = <<>> THEN <<>> ELSE <<Event("content", s.content)>>)
    \o (IF s.thinking = <<>> THEN <<>> ELSE <<Event("thought", s.thinking)>>)

\* What ContentBlockStop sends: a call under construction is complete.
Stopped(s) ==
    (IF s.call = NoCall THEN <<>> ELSE <<Event("call", s.call)>>)
    \o (IF s.thinking = <<>> THEN <<>> ELSE <<Event("thought", s.thinking)>>)

AfterStop(s) == [s EXCEPT !.call = NoCall, !.thinking = <<>>]

(* -- the reading task ----------------------------------------------------------- *)

Reads == reader = "reading" /\ emitting = <<>> /\ ~finished

Handles(s, events) ==
    /\ session' = s
    /\ emitting' = events
    /\ UNCHANGED <<protocol, finished, broken, reader, consumerVars>>

Piece == pieces + 1

\* The thinking blocks that hold something: only the last one may be empty.
Thoughts ==
    IF sent.thinking # <<>> /\ sent.thinking[Len(sent.thinking)] = <<>>
    THEN SubSeq(sent.thinking, 1, Len(sent.thinking) - 1) ELSE sent.thinking

\* Blocks of the anthropic protocol: content_block_start and _stop.
BlockStarts(kind) ==
    /\ Reads
    /\ protocol = "anthropic"
    /\ block = "none"
    /\ pieces < MaxPieces
    /\ block' = kind
    /\ sent' = IF kind = "thinking"
               THEN [sent EXCEPT !.thinking = Append(Thoughts, <<>>)] ELSE sent
    /\ UNCHANGED <<protocol, strayed, pieces, finished, broken, session, reader, emitting,
                   consumerVars>>

BlockStops ==
    /\ Reads
    /\ block # "none"
    /\ block = "tool" => session.call # NoCall
    /\ block' = "none"
    /\ Handles(AfterStop(session), Stopped(session))
    /\ UNCHANGED <<sent, strayed, pieces>>

TextDelta ==
    /\ Reads
    /\ pieces < MaxPieces
    /\ protocol = "anthropic" => block = "text"
    /\ pieces' = Piece
    /\ sent' = [sent EXCEPT !.text = Append(@, Piece)]
    /\ Handles([session EXCEPT !.content = Append(@, Piece)], <<Event("text", <<Piece>>)>>)
    /\ UNCHANGED <<block, strayed>>

ThinkingDelta ==
    /\ Reads
    /\ pieces < MaxPieces
    /\ block = "thinking"
    /\ pieces' = Piece
    /\ sent' = [sent EXCEPT !.thinking[Len(sent.thinking)] = Append(@, Piece)]
    /\ Handles([session EXCEPT !.thinking = Append(@, Piece)], <<Event("thinking", <<Piece>>)>>)
    /\ UNCHANGED <<block, strayed>>

NewCall == [id |-> Piece, args |-> <<>>]

WithArgs(c) == [c EXCEPT !.args = Append(@, Piece)]

\* A call starts: one already under construction is dropped without an event,
\* and so are the first arguments of this one, if its chunk has any.
ToolCallStart ==
    /\ Reads
    /\ pieces < MaxPieces
    /\ protocol = "anthropic" => (block = "tool" /\ session.call = NoCall)
    /\ pieces' = Piece
    /\ \E early \in IF protocol = "openai" THEN BOOLEAN ELSE {FALSE} :
          /\ sent' = [sent EXCEPT !.calls = Append(@, IF early THEN WithArgs(NewCall) ELSE NewCall)]
          /\ strayed' = early
    /\ Handles([session EXCEPT !.call = NewCall], <<>>)
    /\ UNCHANGED block

SentArgs(calls, k) == [calls EXCEPT ![k] = WithArgs(@)]

\* The calls arguments can be for: the last one, or with openai, which tells by
\* an index, any; 0 stands for one whose start was passed over.
Targets ==
    IF protocol = "anthropic" THEN {Len(sent.calls)} \ {0}
    ELSE DOMAIN sent.calls \cup IF sent.unread = {} THEN {} ELSE {0}

\* Arguments of call k: whoever they are for, the call under construction gets them.
ToolCallDelta ==
    /\ Reads
    /\ pieces < MaxPieces
    /\ protocol = "anthropic" => (block = "tool" /\ session.call # NoCall)
    /\ pieces' = Piece
    /\ \E k \in Targets :
          /\ sent' = IF k = 0 THEN sent ELSE [sent EXCEPT !.calls = SentArgs(@, k)]
          /\ strayed' = (strayed \/ k # Len(sent.calls))
    /\ Handles([session EXCEPT !.call = IF @ = NoCall THEN @ ELSE WithArgs(@)],
               IF session.call = NoCall THEN <<>> ELSE <<Other>>)
    /\ UNCHANGED block

\* openai: what comes with the name of the model, the usage or the finish reason
\* is not looked at, nor are the calls of a chunk behind its first.
PassedOver ==
    /\ Reads
    /\ pieces < MaxPieces
    /\ protocol = "openai"
    /\ pieces' = Piece
    /\ \/ UNCHANGED <<sent, strayed>>      \* text, or arguments of a call not read
       \/ /\ sent' = [sent EXCEPT !.unread = @ \cup {Piece}]
          /\ UNCHANGED strayed
       \/ \E k \in DOMAIN sent.calls :
             /\ sent' = [sent EXCEPT !.calls = SentArgs(@, k)]
             /\ strayed' = (strayed \/ k = Len(sent.calls))
    /\ \E events \in {<<>>, <<Other>>} : Handles(session, events)
    /\ UNCHANGED block

\* finish reason, usage and end marker
Finishes ==
    /\ Reads
    /\ block = "none"
    /\ finished' = TRUE
    /\ emitting' = <<Other>>
    /\ UNCHANGED <<protocol, block, sent, strayed, pieces, broken, session, reader, consumerVars>>

BreaksQuietly ==   \* mutant
    /\ reader = "reading"
    /\ emitting = <<>>
    /\ broken' = TRUE
    /\ reader' = "flushing"
    /\ UNCHANGED <<serverVars, session, emitting, consumerVars>>

\* The network fails, or a chunk ends inside a character.
Breaks ==
    /\ reader = "reading"
    /\ emitting = <<>>
    /\ broken' = TRUE
    /\ emitting' = <<Event("error", <<>>)>>
    /\ reader' = "flushing"
    /\ UNCHANGED <<serverVars, session, consumerVars>>

\* The connection closes, also in the middle of a response.
StreamEnds ==
    /\ reader = "reading"
    /\ emitting = <<>>
    /\ reader' = "flushing"
    /\ UNCHANGED <<serverVars, broken, session, emitting, consumerVars>>

FinalizesOnly ==   \* mutant
    /\ reader = "flushing"
    /\ emitting = <<>>
    /\ emitting' = Finalized(session)
    /\ reader' = "closing"
    /\ UNCHANGED <<serverVars, broken, session, consumerVars>>

\* What is left is sent; no end marker stops a tool call of openai.
Flush ==
    /\ reader = "flushing"
    /\ emitting = <<>>
    /\ emitting' = IF protocol = "openai"
                   THEN Stopped(session) \o Finalized(AfterStop(session))
                   ELSE Finalized(session)
    /\ reader' = "closing"
    /\ UNCHANGED <<serverVars, broken, session, consumerVars>>

Closes ==
    /\ reader = "closing"
    /\ emitting = <<>>
    /\ reader' = "ended"
    /\ UNCHANGED <<serverVars, broken, session, emitting, consumerVars>>

WaitsForConsumer ==   \* mutant
    /\ emitting # <<>>
    /\ outcome = "reading" /\ Len(channel) < Capacity
    /\ channel' = Append(channel, Head(emitting))
    /\ emitting' = Tail(emitting)
    /\ UNCHANGED <<serverVars, broken, session, reader, answer, deltas, outcome>>

\* tx.send: waits for room; the task ends when the receiver is gone.
Emits ==
    /\ emitting # <<>>
    /\ IF outcome = "reading"
       THEN /\ Len(channel) < Capacity
            /\ channel' = Append(channel, Head(emitting))
            /\ emitting' = Tail(emitting)
            /\ UNCHANGED reader
       ELSE /\ reader' = "ended"
            /\ emitting' = <<>>
            /\ UNCHANGED channel
    /\ UNCHANGED <<serverVars, broken, session, answer, deltas, outcome>>

(* -- consume_llm_stream ---------------------------------------------------------- *)

DeltasOnly(a, e) ==   \* mutant
    CASE e.kind = "thinking" -> [a EXCEPT !.thinking = @ \o e.data]
      [] e.kind = "thought" -> [a EXCEPT !.thinking = e.data]
      [] e.kind \in {"text", "content"} -> [a EXCEPT !.content = @ \o e.data]
      [] e.kind = "call" -> [a EXCEPT !.calls = Append(@, e.data)]
      [] OTHER -> a

\* A complete part replaces what its deltas added up to.
Accumulated(a, e) ==
    CASE e.kind = "thinking" -> [a EXCEPT !.thinking = @ \o e.data]
      [] e.kind = "thought" -> [a EXCEPT !.thinking = e.data]
      [] e.kind = "text" -> [a EXCEPT !.content = @ \o e.data]
      [] e.kind = "content" -> [a EXCEPT !.content = e.data]
      [] e.kind = "call" -> [a EXCEPT !.calls = Append(@, e.data)]
      [] OTHER -> a

\* A complete content without deltas before it is emitted as one delta.
EmittedDelta(e) ==
    IF e.kind = "text" \/ (e.kind = "content" /\ deltas = <<>>) THEN e.data ELSE <<>>

Consumes ==
    /\ outcome = "reading"
    /\ channel # <<>>
    /\ LET e == Head(channel) IN
       IF e.kind = "error"
       THEN /\ outcome' = "error"
            /\ channel' = <<>>
            /\ UNCHANGED <<answer, deltas>>
       ELSE /\ answer' = Accumulated(answer, e)
            /\ deltas' = deltas \o EmittedDelta(e)
            /\ channel' = Tail(channel)
            /\ UNCHANGED outcome
    /\ UNCHANGED <<serverVars, broken, session, reader, emitting>>

Returns ==
    /\ outcome = "reading"
    /\ channel = <<>>
    /\ reader = "ended"
    /\ outcome' = "ok"
    /\ UNCHANGED <<serverVars, broken, session, reader, emitting, channel, answer, deltas>>

ServerSends ==
    \/ \E kind \in {"text", "thinking", "tool"} : BlockStarts(kind)
    \/ BlockStops \/ TextDelta \/ ThinkingDelta
    \/ ToolCallStart \/ ToolCallDelta \/ PassedOver \/ Finishes

ReaderStep == Emits \/ Flush \/ Closes
ConsumerStep == Consumes \/ Returns

Next == ServerSends \/ Breaks \/ StreamEnds \/ ReaderStep \/ ConsumerStep

Spec == Init /\ [][Next]_vars

\* Tasks are scheduled; nothing says that the server goes on sending.
FairSpec == Spec /\ WF_vars(ReaderStep) /\ WF_vars(ConsumerStep)

(* -- properties --------------------------------------------------------------------- *)

Pieces == Seq(1..MaxPieces)
Call == [id : 0..MaxPieces, args : Pieces]

TypeOK ==
    /\ protocol \in {"anthropic", "openai"} /\ strayed \in BOOLEAN
    /\ block \in {"none", "text", "thinking", "tool"}
    /\ pieces \in 0..MaxPieces
    /\ finished \in BOOLEAN /\ broken \in BOOLEAN
    /\ session.content \in Pieces /\ session.thinking \in Pieces /\ session.call \in Call
    /\ reader \in {"reading", "flushing", "closing", "ended"}
    /\ Len(channel) <= Capacity
    /\ answer.content \in Pieces /\ answer.thinking \in Pieces /\ answer.calls \in Seq(Call)
    /\ deltas \in Pieces
    /\ outcome \in {"reading", "ok", "error"}

(* The text of the answer is what the server sent in chunks of its own, in    *)
(* order and once, although the consumer gets it as deltas and then again as  *)
(* a whole; nothing of what was passed over.                                  *)
ContentWhole == outcome = "ok" => answer.content = sent.text

(* The deltas the user sees add up to the text that goes into the history.    *)
DeltasAgree == outcome = "ok" => deltas = answer.content

ClosedCalls ==
    IF block = "tool" /\ session.call # NoCall
    THEN SubSeq(sent.calls, 1, Len(sent.calls) - 1) ELSE sent.calls

(* Every tool call of an anthropic answer is executed with its whole          *)
(* arguments, in order; one that a closed connection cut off is not.          *)
CallsWhole == (outcome = "ok" /\ protocol = "anthropic") => answer.calls = ClosedCalls

(* Of an openai answer exactly the last call that was read is executed, under *)
(* its own id; its arguments are those the server sent for it, cut off if the *)
(* connection closed, unless one of them strayed: into the chunk that starts  *)
(* the call, behind another entry or beside a usage (dropped), or from        *)
(* another call, whose index the parser ignores (mixed in).                   *)
LastCallOnly ==
    (outcome = "ok" /\ protocol = "openai") =>
        IF sent.calls = <<>> THEN answer.calls = <<>>
        ELSE LET last == sent.calls[Len(sent.calls)] IN
             /\ Len(answer.calls) = 1
             /\ answer.calls[1].id = last.id
             /\ strayed \/ answer.calls[1] = last

(* The thinking of the answer is that of the last thinking block, never mixed *)
(* with an earlier one.                                                       *)
ThinkingOfLastBlock ==
    outcome = "ok" =>
        answer.thinking = IF Thoughts = <<>> THEN <<>> ELSE Thoughts[Len(Thoughts)]

(* A stream that broke is never taken for a complete answer.                  *)
BrokenIsError == broken => outcome # "ok"

(* The reading task ends also when the consumer stopped reading, which it     *)
(* does at the first error, and the consumer returns.                         *)
StreamSettles == reader = "flushing" ~> (reader = "ended" /\ outcome # "reading")

(* What the agent takes for the model's answer, and what the user was shown   *)
(* of it, is what the server sent: text and thinking.                         *)
AnswerWhole == TypeOK /\ ContentWhole /\ DeltasAgree /\ ThinkingOfLastBlock

(* The calls the agent executes are calls the server sent.                    *)
CallsFaithful == CallsWhole /\ LastCallOnly
=============================================================================
