----------------------------- MODULE StreamMeter -----------------------------
(***************************************************************************)
(* What becomes of a streamed answer on its way to the harness, and of the *)
(* tokens it reports.  Three relays (cmd/gateway/gateway.go) share one     *)
(* meter (internal/usage) and one way of recording the request             *)
(* (cmd/gateway/telemetry_v1_capture.go):                                  *)
(*   translated   an OpenAI chat completion, turned into an Anthropic      *)
(*                message as it streams (internal/translate);              *)
(*   normalized   Baseten's Anthropic shape, whose input counts include    *)
(*                the cached tokens and must not;                          *)
(*   plain        any other answer, untouched.                             *)
(* The meter reads the events the harness is sent, not the upstream's.     *)
(*                                                                         *)
(* The upstream charged for `truth`: fresh and cached input, and output.   *)
(* A usage object is a function from the keys it has to counts.            *)
(***************************************************************************)
EXTENDS Integers, SequencesExt, FiniteSetsExt, TLC

CONSTANTS MaxCount,    \* bound: tokens of each kind
          MaxReplies,   \* bound: events of the upstream
          MaxCalls     \* bound: tool calls of an answer

ASSUME MeterBounds == {MaxCount, MaxReplies, MaxCalls} \subseteq Nat \ {0}

VARIABLES relay, truth, reported, replies, upstream, interleaved,
          translator, harness, meter, record

meterVars == <<relay, truth, reported, replies, upstream, interleaved,
               translator, harness, meter, record>>

Relays == {"translated", "normalized", "plain"}
Counts == 0..MaxCount
Truths == [fresh : Counts, cached : Counts, out : Counts]
NoBlock == -1
NoReason == "none"

-----------------------------------------------------------------------------
(* The meter: ParseSSEUsageWithSaw, one event at a time.                   *)

NewMeter == [usage |-> <<>>, saw |-> FALSE, complete |-> FALSE, toolCalls |-> 0, stop |-> NoReason]

OwnKeys == {"in", "write", "read", "out"}
Key(k, u) == IF k \in DOMAIN u THEN k                    \* OpenAI's names for them
             ELSE IF k = "in" THEN "prompt" ELSE IF k = "out" THEN "completion" ELSE k

InclusiveUsage(usage, u, overwrite, before) == usage     \* Variant: cached tokens stay counted as input
mergeOpenAICachedInputUsage(usage, u, overwrite, before) ==
    IF /\ "details" \in DOMAIN u /\ (overwrite \/ ~before)
       /\ Key("in", u) \in DOMAIN u /\ usage["in"] >= u["details"]
      THEN [k \in DOMAIN usage \cup {"read"} |->
              CASE k = "in" -> usage["in"] - u["details"]
                [] k = "read" /\ (overwrite \/ "read" \notin DOMAIN usage) -> u["details"]
                [] OTHER -> usage[k]]
      ELSE usage

mergeUsage(m, u, overwrite) ==
    LET taken  == {k \in OwnKeys : Key(k, u) \in DOMAIN u /\ (overwrite \/ k \notin DOMAIN m.usage)}
        merged == [k \in DOMAIN m.usage \cup taken |-> IF k \in taken THEN u[Key(k, u)] ELSE m.usage[k]]
    IN  [m EXCEPT !.saw = @ \/ taken # {},
                  !.usage = mergeOpenAICachedInputUsage(merged, u, overwrite, "in" \in DOMAIN m.usage)]

\* The events it reacts to.
Event(t)      == [type |-> t, index |-> NoBlock, usage |-> <<>>, stop |-> NoReason]
Metered(m, e) ==
    CASE e.type = "message_start"  -> mergeUsage(m, e.usage, FALSE)
      [] e.type = "tool_start"     -> [m EXCEPT !.toolCalls = @ + 1]
      [] e.type = "message_delta"  ->
           [mergeUsage(m, e.usage, TRUE) EXCEPT !.stop = IF e.stop = NoReason THEN @ ELSE e.stop]
      [] e.type = "usage"          -> mergeUsage(m, e.usage, TRUE)
      [] e.type \in {"message_stop", "done"} -> [m EXCEPT !.complete = TRUE]
      [] OTHER -> m

-----------------------------------------------------------------------------
(* The harness, as a reader of Anthropic's protocol.                       *)

NewHarness == [at |-> "before", open |-> NoBlock, next |-> 0, proper |-> TRUE]
Follows(h, e) ==
    CASE e.type = "message_start" -> h.at = "before"
      [] e.type = "error"         -> h.at # "over"
      [] e.type \in {"text_start", "tool_start"} -> h.at = "in" /\ h.open = NoBlock /\ e.index = h.next
      [] e.type \in {"block_delta", "block_stop"} -> h.at = "in" /\ e.index = h.open
      [] e.type = "message_delta" -> h.at = "in" /\ h.open = NoBlock
      [] e.type = "message_stop"  -> h.at = "in" /\ h.open = NoBlock
Reads(h, e) ==
    [h EXCEPT !.proper = @ /\ Follows(h, e),
              !.at   = CASE e.type = "message_start" -> "in" [] e.type = "message_stop" -> "over" [] OTHER -> @,
              !.open = CASE e.type \in {"text_start", "tool_start"} -> e.index
                         [] e.type = "block_stop" -> NoBlock [] OTHER -> @,
              !.next = IF e.type \in {"text_start", "tool_start"} THEN @ + 1 ELSE @]

\* Events on their way to the harness, through the meter.
Emit(events) ==
    /\ meter'   = FoldLeft(Metered, meter, events)
    /\ harness' = IF relay = "translated" THEN FoldLeft(Reads, harness, events) ELSE harness

-----------------------------------------------------------------------------
(* StreamTranslator.  An operator gives the translator afterwards and the  *)
(* events written.                                                         *)

NewTranslator == [started |-> FALSE, finished |-> FALSE, open |-> NoBlock, text |-> NoBlock,
                  next |-> 0, tools |-> <<>>, finish |-> NoReason, usage |-> <<>>]
Did(t, out) == [t |-> t, out |-> out]
Then(did, f(_)) == LET more == f(did.t) IN Did(more.t, did.out \o more.out)

ensureStarted(t) ==
    IF t.started THEN Did(t, <<>>)
    ELSE Did([t EXCEPT !.started = TRUE],
             <<[Event("message_start") EXCEPT !.usage = [in |-> 0, out |-> 0]]>>)
leaveOpenBlock(t) == Did(t, <<>>)                        \* Variant: the next block starts inside it
closeOpenBlock(t) ==
    IF t.open = NoBlock THEN Did(t, <<>>)
    ELSE Did([t EXCEPT !.open = NoBlock, !.text = IF @ = t.open THEN NoBlock ELSE @],
             <<[Event("block_stop") EXCEPT !.index = t.open]>>)

OpenTool(t, call) ==
    Did([t EXCEPT !.open = t.next, !.next = @ + 1, !.tools = @ @@ (call :> t.next)],
        <<[Event("tool_start") EXCEPT !.index = t.next]>>)
OpenText(t) ==
    Did([t EXCEPT !.open = t.next, !.text = t.next, !.next = @ + 1],
        <<[Event("text_start") EXCEPT !.index = t.next]>>)
HandleTool(t, call) ==
    LET ready == IF call \in DOMAIN t.tools THEN Did(t, <<>>)
                 ELSE Then(closeOpenBlock(t), LAMBDA u : OpenTool(u, call))
    IN  Did(ready.t, Append(ready.out, [Event("block_delta") EXCEPT !.index = ready.t.tools[call]]))
HandleText(t) ==
    LET ready == IF t.text # NoBlock THEN Did(t, <<>>) ELSE Then(closeOpenBlock(t), OpenText)
    IN  Did(ready.t, Append(ready.out, [Event("block_delta") EXCEPT !.index = ready.t.text]))

HandleData(t, c) ==
    CASE c.type = "error"  -> Did(t, <<Event("error")>>)
      [] c.type = "text"   -> Then(ensureStarted(t), HandleText)
      [] c.type = "tool"   -> Then(ensureStarted(t), LAMBDA u : HandleTool(u, c.call))
      [] c.type = "finish" -> Then(ensureStarted(t), LAMBDA u : Did([u EXCEPT !.finish = "end"], <<>>))
      [] c.type = "usage"  -> Then(ensureStarted(t), LAMBDA u : Did([u EXCEPT !.usage = c.usage], <<>>))

\* openAIUsage.anthropic
anthropic(u) == [in |-> u["prompt"] - u["details"], out |-> u["completion"], read |-> u["details"], write |-> 0]
FinishStream(t) ==
    LET closed == Then(ensureStarted(t), closeOpenBlock)
        last   == [Event("message_delta") EXCEPT
                     !.stop = "end", !.usage = IF t.usage = <<>> THEN [out |-> 0] ELSE anthropic(t.usage)]
    IN  Did([closed.t EXCEPT !.finished = TRUE], closed.out \o <<last, Event("message_stop")>>)

-----------------------------------------------------------------------------
(* Upstream events, by relay.  It reports its truth once, near the end.    *)

OpenAIUsage == [prompt |-> truth.fresh + truth.cached, completion |-> truth.out, details |-> truth.cached]
\* Baseten's Anthropic shape counts cached input twice and has no
\* cache_creation field; when it has one, it counts as Anthropic does.
BasetenUsages == {[in |-> truth.fresh + truth.cached, read |-> truth.cached, out |-> truth.out],
                  [in |-> truth.fresh, read |-> truth.cached, write |-> 0, out |-> truth.out]}
Chunk(t) == [type |-> t, call |-> 0, usage |-> <<>>]
Replies ==
    CASE relay = "translated" ->
           {Chunk(t) : t \in {"text", "finish", "error", "done"}}
             \cup {[Chunk("tool") EXCEPT !.call = n] : n \in 1..MaxCalls}
             \cup {[Chunk("usage") EXCEPT !.usage = OpenAIUsage]}
      [] relay = "normalized" ->
           {Chunk(t) : t \in {"text", "message_stop"}}
             \cup {[Chunk("message_start") EXCEPT !.usage = [in |-> truth.fresh + truth.cached]]}
             \cup {[Chunk("message_delta") EXCEPT !.usage = u] : u \in BasetenUsages}
      [] relay = "plain" ->
           {Chunk(t) : t \in {"text", "done"}} \cup {[Chunk("usage") EXCEPT !.usage = OpenAIUsage]}

Exact(u) == u                                            \* Variant: relays what Baseten counts
NormalizeAnthropicUsage(u) ==
    IF "write" \notin DOMAIN u /\ {"in", "read"} \subseteq DOMAIN u /\ u["in"] >= u["read"]
      THEN [u EXCEPT !["in"] = @ - u["read"]] ELSE u

AsEvent(c) == [Event(c.type) EXCEPT
                 !.usage = IF relay = "normalized" THEN NormalizeAnthropicUsage(c.usage) ELSE c.usage]

UpstreamAnswers ==
    /\ upstream = "open" /\ replies < MaxReplies
    /\ \E c \in Replies :
         /\ replies' = replies + 1
         /\ reported' = (reported \/ c.type \in {"usage", "message_delta"})
         /\ upstream' = IF c.type = "done" /\ relay = "translated" THEN "done" ELSE upstream
         /\ interleaved' = (interleaved \/ (c.type = "tool" /\ c.call \in DOMAIN translator.tools
                                              /\ translator.tools[c.call] # translator.open))
         /\ IF relay = "translated"
              THEN IF c.type = "done" THEN UNCHANGED <<translator, meter, harness>>
                   ELSE LET did == HandleData(translator, c)
                        IN  translator' = did.t /\ Emit(did.out)
              ELSE Emit(<<AsEvent(c)>>) /\ UNCHANGED translator
    /\ UNCHANGED <<relay, truth, record>>

\* The stream ends: cleanly, by an error, or because a write failed.
UpstreamStops ==
    /\ upstream = "open"
    /\ upstream' \in {"eof", "broken", "gone"}
    /\ UNCHANGED <<relay, truth, reported, replies, interleaved, translator, harness, meter, record>>

-----------------------------------------------------------------------------
(* The record.                                                             *)

Tokens(m, k) == IF k \in DOMAIN m.usage THEN m.usage[k] ELSE 0
usageComplete(m, complete) == m.saw /\ m.complete /\ complete

recordTelemetryV1 ==
    /\ upstream \in {"done", "eof", "broken", "gone"} /\ record = <<>>
    /\ LET last     == IF relay = "translated" /\ ~translator.finished THEN FinishStream(translator)
                       ELSE Did(translator, <<>>)
           complete == upstream = IF relay = "translated" THEN "done" ELSE "eof"
           final    == FoldLeft(Metered, meter, last.out)
       IN  /\ translator' = last.t /\ meter' = final
           /\ harness' = IF upstream = "gone" THEN harness ELSE FoldLeft(Reads, harness, last.out)
           /\ record' = [responseComplete |-> complete,
                         usageComplete |-> usageComplete(final, complete),
                         in |-> Tokens(final, "in"), read |-> Tokens(final, "read"), out |-> Tokens(final, "out"),
                         toolCalls |-> final.toolCalls]
    /\ UNCHANGED <<relay, truth, reported, replies, upstream, interleaved>>

MeterInit ==
    /\ relay \in Relays /\ truth \in Truths
    /\ reported = FALSE /\ replies = 0 /\ upstream = "open" /\ interleaved = FALSE
    /\ translator = NewTranslator /\ harness = NewHarness /\ meter = NewMeter
    /\ record = <<>>

MeterNext == UpstreamAnswers \/ UpstreamStops \/ recordTelemetryV1

MeterSpec == MeterInit /\ [][MeterNext]_meterVars
-----------------------------------------------------------------------------
(* Properties.                                                             *)

MeterTypeOK ==
    /\ relay \in Relays /\ truth \in Truths /\ replies \in 0..MaxReplies
    /\ upstream \in {"open", "done", "eof", "broken", "gone"}
    /\ translator.next <= MaxReplies /\ DOMAIN translator.tools \subseteq 1..MaxCalls
    /\ DOMAIN meter.usage \subseteq OwnKeys

\* A translated answer is a proper Anthropic message for the harness: one
\* start, blocks numbered in turn, opened and closed one at a time, deltas
\* only in the open one, and an end, also when the upstream broke off; as
\* long as the upstream streams one tool call at a time.
MessageProper ==
    relay = "translated" /\ ~interleaved =>
      /\ harness.proper
      /\ record # <<>> /\ upstream # "gone" => harness.at = "over"

\* Usage recorded as complete is what the upstream charged for: cached
\* input is not counted twice, nor what an earlier event had estimated.
UsageTrue ==
    record # <<>> /\ record.usageComplete /\ reported =>
      record.in = truth.fresh /\ record.read = truth.cached /\ record.out = truth.out

\* "missing provider values remain distinct from reported zeroes"
\* (telemetry_v1_capture.go): complete usage is usage the upstream reported.
CompleteUsageReported == record # <<>> /\ record.usageComplete => reported

\* What the harness reads is a message and what is recorded is true.
MeterSound == MessageProper /\ UsageTrue
=============================================================================
