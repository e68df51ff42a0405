--------------------------- MODULE ResponsesGuard ---------------------------
(***************************************************************************)
(* A streamed Responses answer on its way to the harness: the loop that    *)
(* relays it (relayResponsesSSE in cmd/gateway/                            *)
(* responses_compatibility.go) and the guard it feeds every chunk to       *)
(* (internal/responsescompat/sse.go).  The guard watches the function      *)
(* calls of the stream: a call's arguments arrive as deltas and again, in  *)
(* one piece, in the events that finish it.  A finishing event whose       *)
(* arguments do not match is held back, and rewritten when the stream      *)
(* completes; anything the guard does not understand makes it fail open,   *)
(* after which bytes pass it untouched.                                    *)
(*                                                                         *)
(* Bytes: an event is cut into a head and a tail, and a chunk carries at   *)
(* most two such pieces.  Arguments are sequences of fragments, of which   *)
(* some are valid JSON.                                                    *)
(***************************************************************************)
EXTENDS Integers, SequencesExt, FiniteSetsExt

CONSTANTS Items,          \* function calls of one response
          Fragments, ValidArguments,
          Finals,         \* arguments a finishing event may carry
          MaxArguments,   \* MaxArgumentBytes, in fragments
          MaxActiveCalls,
          MaxHeld,        \* MaxHeldBytes, in events
          MaxSent         \* bound: events of the stream

ASSUME GuardBounds ==
    /\ ValidArguments \subseteq Seq(Fragments) /\ <<>> \notin ValidArguments
    /\ {MaxArguments, MaxActiveCalls, MaxHeld, MaxSent} \subseteq Nat \ {0}

VARIABLES guard, relayEnd, arrived, tailDue, client

guardVars == <<guard, relayEnd, arrived, tailDue, client>>

-----------------------------------------------------------------------------
(* The events of a stream.                                                 *)

Plain(t) == [type |-> t, item |-> "none", args |-> <<>>]
NoEvent  == Plain("none")

\* "text" is any event the guard has no business with, "junk" one that does
\* not parse, "huge" one longer than MaxEventBytes.
Dones == {"functionDone", "outputDone"}
StreamEvents == [type : {"delta"}, item : Items, args : {<<f>> : f \in Fragments}]
           \cup [type : Dones, item : Items, args : Finals]
           \cup {Plain(t) : t \in {"text", "junk", "huge", "completed", "failed"}}

Head_(e) == [e |-> e, part |-> "head"]
Tail_(e) == [e |-> e, part |-> "tail"]
Whole(e) == <<Head_(e), Tail_(e)>>
AllWhole(es) == FlattenSeq([i \in DOMAIN es |-> Whole(es[i])])

Valid(args) == args \in ValidArguments

-----------------------------------------------------------------------------
(* The guard.  `fired` says that the oldest held event has waited for      *)
(* MaxHoldDuration.  An operator on it returns the guard afterwards and    *)
(* the pieces it wrote.                                                    *)

NewCall == [args |-> <<>>, sawDelta |-> FALSE, seen |-> {}]
NewSSEGuard == [pending |-> <<>>, calls |-> <<>>, held |-> <<>>, fired |-> FALSE,
                finished |-> <<>>, bypass |-> FALSE, errors |-> FALSE]
reset(g) == [g EXCEPT !.calls = <<>>, !.held = <<>>, !.fired = FALSE, !.finished = <<>>]

To(g, out) == [g |-> g, out |-> out]
failOpenEmpty(g, more) ==                            \* Variant: what was held is forgotten
    To([reset(g) EXCEPT !.errors = TRUE, !.bypass = TRUE], more)
failOpen(g, more) ==
    To([reset(g) EXCEPT !.errors = TRUE, !.bypass = TRUE], AllWhole(g.held) \o more)

CanCallAlways(g, i) == TRUE                          \* Variant: no limit on calls at once
CanCall(g, i) == i \in DOMAIN g.calls \/ Cardinality(DOMAIN g.calls) < MaxActiveCalls
callOf(g, i) == IF i \in DOMAIN g.calls THEN g.calls[i] ELSE NewCall
WithCall(g, i, state) ==
    [g EXCEPT !.calls = [j \in DOMAIN g.calls \cup {i} |-> IF j = i THEN state ELSE g.calls[j]]]
finishCall(g, i) ==
    [g EXCEPT !.calls = Restrict(@, DOMAIN @ \ {i}),
              !.finished = IF Len(@) < MaxActiveCalls THEN Append(@, i) ELSE Append(Tail(@), i)]

Accumulated(state) == state.sawDelta /\ Valid(state.args)

OnDelta(g, e) ==
    LET state == callOf(g, e.item)
        args  == state.args \o e.args
    IN  IF ~CanCall(g, e.item) \/ Len(args) > MaxArguments
          THEN failOpen(g, Whole(e))
        ELSE To(WithCall(g, e.item, [state EXCEPT !.args = args, !.sawDelta = TRUE]), Whole(e))

holdDone(g, e) ==
    IF Len(g.held) >= MaxHeld THEN failOpen(g, Whole(e))
    ELSE To([g EXCEPT !.held = Append(@, e)], <<>>)

processDone(g, e) ==
    LET state  == callOf(g, e.item)
        seen   == WithCall(g, e.item, [state EXCEPT !.seen = @ \cup {e.type}])
        passed == IF e.type = "outputDone" THEN finishCall(seen, e.item) ELSE seen
    IN  IF \/ e.item \in ToSet(g.finished) \/ ~CanCall(g, e.item) \/ e.type \in state.seen
          THEN failOpen(g, Whole(e))
        ELSE IF g.held # <<>> THEN holdDone(seen, e)
        ELSE IF Accumulated(state)
          THEN IF e.args = state.args THEN To(passed, Whole(e)) ELSE holdDone(seen, e)
        ELSE IF Valid(e.args)
          THEN To([passed EXCEPT !.errors = @ \/ (state.sawDelta /\ state.args # <<>>)], Whole(e))
        ELSE holdDone(seen, e)

\* flushAtCompletion: all that is held is released, rewritten where the
\* deltas know better, or none of it is rewritten.
Kept(g, e) == e                                      \* Variant: releases what it held as it came
rewriteArguments(g, e) ==
    IF e.item \in DOMAIN g.calls /\ Accumulated(g.calls[e.item])
      THEN [e EXCEPT !.args = g.calls[e.item].args] ELSE e
flushAtCompletion(g) ==
    LET fixed == [n \in DOMAIN g.held |-> rewriteArguments(g, g.held[n])]
        ok    == \A n \in DOMAIN fixed : Valid(fixed[n].args)
    IN  IF g.held = <<>> THEN To([g EXCEPT !.errors = @ \/ DOMAIN g.calls # {}], <<>>)
        ELSE IF ok THEN To(g, AllWhole(fixed))
        ELSE To([g EXCEPT !.errors = TRUE], AllWhole(g.held))
flushAtFailure(g) ==
    To([g EXCEPT !.errors = @ \/ g.held # <<>> \/ DOMAIN g.calls # {}], AllWhole(g.held))

Ended(flushed, e) == To([reset(flushed.g) EXCEPT !.bypass = TRUE], flushed.out \o Whole(e))

processEvent(g, e) ==
    CASE e.type \in {"junk", "huge"} -> failOpen(g, Whole(e))
      [] e.type = "text"             -> To(g, Whole(e))
      [] e.type = "delta"            -> OnDelta(g, e)
      [] e.type \in Dones            -> processDone(g, e)
      [] e.type = "completed"        -> Ended(flushAtCompletion(g), e)
      [] e.type = "failed"           -> Ended(flushAtFailure(g), e)

\* Push: a chunk with at most one end of an event in it.  (A held event that
\* is overdue makes the guard fail open first, with the chunk behind it.)
Push(g, chunk) ==
    LET bytes  == g.pending \o chunk
        ends   == \E n \in DOMAIN bytes : bytes[n].part = "tail"
        rest   == IF Last(bytes).part = "head" THEN <<Last(bytes)>> ELSE <<>>
        quiet  == [g EXCEPT !.pending = <<>>]
        done   == processEvent(quiet, bytes[1].e)
    IN  IF g.bypass THEN To(g, chunk)
        ELSE IF g.fired THEN failOpen(g, chunk)
        ELSE IF ends
          THEN IF done.g.bypass THEN To(done.g, done.out \o rest)
               ELSE To([done.g EXCEPT !.pending = rest], done.out)
        ELSE IF bytes[1].e.type = "huge" THEN failOpen(quiet, bytes)
        ELSE To([g EXCEPT !.pending = bytes], <<>>)

FlushExpired(g) == failOpen(g, <<>>)
FlushHeld(g) ==                                      \* Variant: leaves the last, partial event
    To([reset(g) EXCEPT !.pending = <<>>, !.errors = TRUE], AllWhole(g.held))
Flush(g) ==
    To([reset(g) EXCEPT !.pending = <<>>,
                        !.errors = @ \/ g.held # <<>> \/ g.pending # <<>> \/ DOMAIN g.calls # {}],
       AllWhole(g.held) \o g.pending)

-----------------------------------------------------------------------------
(* The harness.  `owed` are the events of the upstream that have not come  *)
(* out yet; `open` is the event whose head came last; `framed` whether     *)
(* head and tail have always come together and in turn.  Of every call it  *)
(* keeps the deltas and the arguments it last finished with.               *)

NewClient == [open |-> NoEvent, owed |-> <<>>, framed |-> TRUE, over |-> "no",
              deltas |-> [i \in Items |-> <<>>], final |-> [i \in Items |-> <<>>]]

\* Which event of the upstream `e` stands for: finishing events may be
\* late and rewritten, among themselves they keep their order.
Class(e) == [type |-> IF e.type \in Dones THEN "done" ELSE "other"]
IsDue(owed, e) ==
    \E n \in DOMAIN owed :
      /\ \A m \in 1..n - 1 : Class(owed[m]) # Class(e)
      /\ owed[n].type = e.type /\ owed[n].item = e.item
FirstOf(owed, e) == CHOOSE n \in DOMAIN owed :
      Class(owed[n]) = Class(e) /\ \A m \in 1..n - 1 : Class(owed[m]) # Class(e)

Understood(c, e) ==
    [c EXCEPT !.owed = RemoveAt(@, FirstOf(@, e)),
              !.deltas = IF e.type = "delta" THEN [@ EXCEPT ![e.item] = @ \o e.args] ELSE @,
              !.final = IF e.type \in Dones THEN [@ EXCEPT ![e.item] = e.args] ELSE @,
              !.over = IF e.type \in {"completed", "failed"} THEN e.type ELSE @]

ReadPiece(c, piece) ==
    IF ~c.framed \/ c.over # "no" THEN c
    ELSE IF piece.part = "head"
      THEN IF c.open = NoEvent THEN [c EXCEPT !.open = piece.e] ELSE [c EXCEPT !.framed = FALSE]
    ELSE IF c.open = piece.e /\ IsDue(c.owed, piece.e)
      THEN Understood([c EXCEPT !.open = NoEvent], piece.e)
    ELSE [c EXCEPT !.framed = FALSE]
ReadAll(c, out) == FoldLeft(ReadPiece, c, out)

-----------------------------------------------------------------------------
(* The relay.  tailDue is the event the upstream is in the middle of.      *)

GuardInit ==
    /\ guard = NewSSEGuard /\ relayEnd = "no"
    /\ arrived = 0 /\ tailDue = NoEvent
    /\ client = NewClient

Reading == relayEnd = "no"

Relay(g, out, owed) ==
    \/ /\ guard' = g
       /\ client' = ReadAll([client EXCEPT !.owed = @ \o owed], out)
       /\ UNCHANGED relayEnd
    \/ /\ out # <<>>                                    \* the write fails
       /\ relayEnd' = "gone" /\ guard' = Flush(g).g
       /\ UNCHANGED client

\* A chunk of the upstream: the rest of an event, the start of one, both.
UpstreamRest == IF tailDue = NoEvent THEN <<>> ELSE <<Tail_(tailDue)>>
UpstreamStarts ==
    {<<>>} \cup IF arrived = MaxSent \/ client.over # "no" THEN {}
                ELSE {<<Head_(e)>> : e \in StreamEvents}
                     \cup IF tailDue = NoEvent THEN {Whole(e) : e \in StreamEvents} ELSE {}

UpstreamSends ==
    /\ Reading
    /\ \E starts \in UpstreamStarts :
         LET chunk  == UpstreamRest \o starts
             pushed == Push(guard, chunk)
         IN  /\ chunk # <<>>
             /\ tailDue' = IF Last(chunk).part = "head" THEN Last(chunk).e ELSE NoEvent
             /\ arrived' = arrived + IF starts = <<>> THEN 0 ELSE 1
             /\ Relay(pushed.g, pushed.out, IF starts = <<>> THEN <<>> ELSE <<Head(starts).e>>)

\* MaxHoldDuration passes, and the poll of the relay finds it has.
HoldExpires ==
    /\ Reading /\ guard.held # <<>> /\ ~guard.fired
    /\ guard' = [guard EXCEPT !.fired = TRUE]
    /\ UNCHANGED <<relayEnd, arrived, tailDue, client>>
Poll ==
    /\ Reading /\ ~guard.bypass /\ guard.fired
    /\ LET flushed == FlushExpired(guard) IN Relay(flushed.g, flushed.out, <<>>)
    /\ UNCHANGED <<arrived, tailDue>>

UpstreamEnds ==
    /\ Reading
    /\ relayEnd' = "eof"
    /\ LET flushed == Flush(guard)
       IN  guard' = flushed.g /\ client' = ReadAll(client, flushed.out)
    /\ UNCHANGED <<arrived, tailDue>>
Cancel ==
    /\ Reading
    /\ relayEnd' = "canceled" /\ guard' = Flush(guard).g
    /\ UNCHANGED <<arrived, tailDue, client>>

GuardNext == UpstreamSends \/ HoldExpires \/ Poll \/ UpstreamEnds \/ Cancel

GuardSpec == GuardInit /\ [][GuardNext]_guardVars

-----------------------------------------------------------------------------
(* Properties.                                                             *)

GuardTypeOK ==
    /\ Cardinality(DOMAIN guard.calls) <= MaxActiveCalls /\ DOMAIN guard.calls \subseteq Items
    /\ Len(guard.held) <= MaxHeld /\ Len(guard.pending) <= 1 /\ Len(guard.finished) <= MaxActiveCalls
    /\ \A i \in DOMAIN guard.calls : Len(guard.calls[i].args) <= MaxArguments
    /\ relayEnd \in {"no", "eof", "gone", "canceled"} /\ arrived \in 0..MaxSent

\* What the harness reads is the upstream's events, whole, each once, in
\* the upstream's order but for the finishing events of calls, which may
\* come late (the comment on Flush: it releases all retained bytes
\* unchanged).
StreamFramed == client.framed

\* The framing is lost in one way only: a hold expires while the guard has
\* half of another event, which then stays behind until the stream ends.
FramingLostOnceStranded ==
    [][client.framed /\ ~client.framed' => guard.pending # <<>> /\ (guard.fired \/ guard.bypass)]_guardVars

\* Nothing is held for good: what the guard still keeps when the upstream
\* ends is written then.
NothingHeldBack ==
    relayEnd = "eof" /\ client.framed /\ client.over = "no" =>
      /\ client.open = tailDue
      /\ client.owed = IF tailDue = NoEvent THEN <<>> ELSE <<tailDue>>

\* When the response completed and the guard reported no error, every call
\* that finished did so with the arguments its deltas add up to.
CallsAgree ==
    client.over = "completed" /\ ~guard.errors =>
      \A i \in Items : Valid(client.deltas[i]) /\ client.final[i] # <<>>
                         => client.final[i] = client.deltas[i]

\* What the guard does to a stream: it keeps nothing, it lets no call finish
\* with arguments of which it knows better, and it breaks the framing only so.
GuardSound == [](NothingHeldBack /\ CallsAgree) /\ FramingLostOnceStranded
=============================================================================
