----------------------------- MODULE ConfigEdit -----------------------------
(***************************************************************************)
(* The editors of gateway.yaml (config/edit.go, trace_capture_edit.go,     *)
(* fallback_policy_edit.go, desktop_edit.go), which keep every byte they   *)
(* do not mean to change.  A file is a sequence of lines.  A line is       *)
(* written for a path of keys, with a value, "" for a key whose value is   *)
(* the lines below it or null; it means that path where its indentation    *)
(* and the lines above it say so.  A row of a sequence is a line whose key *)
(* is what it is known by.  One client is written on one line, as text.    *)
(***************************************************************************)
EXTENDS Integers, Sequences, FiniteSets, FiniteSetsExt, SequencesExt

CONSTANT MaxConfigEdits    \* bound on edits in a row

ASSUME ConfigEditBounds == MaxConfigEdits \in Nat

Line(path, value) == [path |-> path, value |-> value]
Note(id) == Line(<<>>, id)
isCommentOnlyLine(line) == line.path = <<>>

VARIABLES
    text,      \* the lines of gateway.yaml
    edit,      \* the last edit: what it is, what it may touch, and how it ended
    inline,    \* the client that is written on one line: a sequence of characters
    edits

configEditVars == <<text, edit, inline, edits>>

-----------------------------------------------------------------------------
(* Reading.                                                                 *)

Under(path, p) == Len(p) >= Len(path) /\ SubSeq(p, 1, Len(path)) = path
Keyed(f) == {i \in DOMAIN f : ~isCommentOnlyLine(f[i])}
LinesAt(f, path) == {i \in DOMAIN f : f[i].path = path}
LinesUnder(f, path) == {i \in DOMAIN f : Under(path, f[i].path)}
KidsOf(f, path) == {i \in LinesUnder(f, path) : Len(f[i].path) = Len(path) + 1}
KeysOf(f, path) == {Last(f[i].path) : i \in KidsOf(f, path)}
Has(f, path) == \E i \in DOMAIN f : f[i].path = path
LineAt(f, path) == CHOOSE i \in DOMAIN f : f[i].path = path
ValueAt(f, path) == IF Has(f, path) THEN f[LineAt(f, path)].value ELSE "absent"
\* maxNodeLine, yamlNodeLastLine and yamlSubtreeEndLine
maxNodeLine(f, path) == CHOOSE i \in LinesUnder(f, path) : \A j \in i + 1 .. Len(f) : ~Under(path, f[j].path)
IsNull(f, path) == Has(f, path) /\ ValueAt(f, path) = "" /\ KidsOf(f, path) = {}

\* UnmarshalStrict: no key twice, nothing below a key that has a value, and every line where
\* the lines above it give it the path that it is written for.
Parses(f) ==
    \A i \in Keyed(f) :
        LET p == f[i].path
        IN /\ \A j \in 1 .. i - 1 : f[j].path # p
           /\ IF Len(p) = 1 THEN TRUE
              ELSE /\ \E j \in 1 .. i - 1 : /\ \A k \in j + 1 .. i - 1 : isCommentOnlyLine(f[k])
                                             /\ ~isCommentOnlyLine(f[j]) /\ Under(Front(p), f[j].path)
                   /\ ValueAt(f, Front(p)) \in {"", "name"}

Client(name) == <<"clients", name>>
RoutesOf(name) == <<"clients", name, "model_routes">>
AliasesOf(name) == <<"clients", name, "model_aliases">>
PickerOf(name) == <<"clients", name, "model_picker">>
OptionsOf(name) == <<"clients", name, "model_options">>
Trace == <<"global", "trace_capture">>
Policy == <<"global", "fallback_policy">>

\* ValidateRoutingPolicy, as far as an edit can break it: the picker shows aliases, a policy
\* has an effort if and only if it is fixed, and an enabled client has its default.
ValidPolicy(f) ==
    \A c \in KeysOf(f, <<"clients">>) :
        /\ KeysOf(f, PickerOf(c) \o <<"models">>) \subseteq KeysOf(f, AliasesOf(c))
        /\ \A k \in LinesUnder(f, OptionsOf(c)) :
                  Last(f[k].path) = "mode" =>
                      (f[k].value = "fixed" <=> Has(f, Front(f[k].path) \o <<"effort">>))
        /\ ValueAt(f, Client(c) \o <<"enabled">>) = "true" /\ ValueAt(f, Client(c) \o <<"allow_native">>) # "false"
               => Has(f, Client(c) \o <<"default_model">>)

-----------------------------------------------------------------------------
(* Splicing.                                                                *)

\* An edit replaces the value of a line, removes lines, or inserts lines after one.
Nothing == [value |-> <<>>, gone |-> {}, after |-> <<>>]
Value(i, v) == [Nothing EXCEPT !.value = <<[line |-> i, value |-> v]>>]
Insert(i, lines) == [Nothing EXCEPT !.after = <<[line |-> i, lines |-> lines]>>]
Both(a, b) == [value |-> a.value \o b.value, gone |-> a.gone \cup b.gone, after |-> a.after \o b.after]

\* applyEdits: inserts of one line go in one after the other, each directly below the line.
applyEdits(f, e) ==
    FlattenSeq([i \in DOMAIN f |->
        LET values == SelectSeq(e.value, LAMBDA v : v.line = i)
            inserts == SelectSeq(e.after, LAMBDA a : a.line = i)
        IN (IF i \in e.gone THEN <<>>
            ELSE <<IF values = <<>> THEN f[i] ELSE [f[i] EXCEPT !.value = Last(values).value]>>)
           \o FlattenSeq(Reverse([k \in DOMAIN inserts |-> inserts[k].lines]))])

\* replaceYAMLLines
replaceYAMLLines(f, first, last, lines) ==
    SubSeq(f, 1, first - 1) \o lines \o SubSeq(f, last + 1, Len(f))

\* What an editor returns: the file, and why it did not write.
Wrote(f) == [file |-> f, ended |-> "written"]
NotWritten(why) == [file |-> <<>>, ended |-> why]
Verified(f, asked) == IF Parses(f) /\ asked THEN Wrote(f) ELSE NotWritten("aborted")
VerifiedPolicy(f, asked) == Verified(f, asked /\ ValidPolicy(f))

-----------------------------------------------------------------------------
(* The editors.                                                             *)

SetGlobalRoutingEnabled(f, on) ==
    LET gate == <<"global", "routing_enabled">>
    IN CASE ValueAt(f, gate) = on  -> NotWritten("unchanged")
         [] ~Has(f, gate)          -> NotWritten("refused")
         [] OTHER -> Verified(applyEdits(f, Value(LineAt(f, gate), on)), TRUE)

\* A mutant: a key goes in after the first line of model_aliases.
AnchorAtTop(f, c) ==
    IF Has(f, AliasesOf(c)) THEN LineAt(f, AliasesOf(c)) ELSE LineAt(f, Client(c))
\* modelAliasesLastLine, protocol_shape, name
scalarAnchor(f, c) ==
    CASE KidsOf(f, AliasesOf(c)) # {}                -> maxNodeLine(f, AliasesOf(c))
      [] Has(f, Client(c) \o <<"protocol_shape">>)   -> LineAt(f, Client(c) \o <<"protocol_shape">>)
      [] OTHER                                       -> LineAt(f, Client(c))

\* clientScalarEdits; keys are in order
SetClientScalars(f, c, keys, set) ==
    LET at(k) == Client(c) \o <<k>>
        present == SelectSeq(keys, LAMBDA k : Has(f, at(k)))
        missing == SelectSeq(keys, LAMBDA k : ~Has(f, at(k)))
        out == applyEdits(f,
            [Nothing EXCEPT !.value = [i \in DOMAIN present |-> [line |-> LineAt(f, at(present[i])), value |-> set[present[i]]]],
                            !.after = Reverse([i \in DOMAIN missing |->
                                [line |-> scalarAnchor(f, c), lines |-> <<Line(at(missing[i]), set[missing[i]])>>]])])
    IN IF ~Has(f, Client(c)) THEN NotWritten("refused")
       ELSE Verified(out, \A i \in DOMAIN keys : ValueAt(out, at(keys[i])) = set[keys[i]])

\* The line after which a new block of a client goes.
mapBlockAnchor(f, c) ==
    LET kinds == SelectSeq(<<"model_aliases", "subagent_routing", "subagent_model", "protocol_shape">>,
                           LAMBDA k : Has(f, Client(c) \o <<k>>))
    IN IF kinds = <<>> THEN LineAt(f, Client(c)) ELSE maxNodeLine(f, Client(c) \o <<Head(kinds)>>)

\* clientMapEdits, for entries to set
SetClientMapEntries(f, c, block, keys, set) ==
    LET entries(ks) == [i \in DOMAIN ks |-> Line(block \o <<ks[i]>>, set[ks[i]])]
        present == SelectSeq(keys, LAMBDA k : Has(f, block \o <<k>>))
        missing == SelectSeq(keys, LAMBDA k : ~Has(f, block \o <<k>>))
        e == CASE ~Has(f, block)   -> Insert(mapBlockAnchor(f, c), <<Line(block, "")>> \o entries(keys))
               [] IsNull(f, block) -> Insert(LineAt(f, block), entries(keys))
               [] OTHER -> [Nothing EXCEPT
                      !.value = [i \in DOMAIN present |->
                                    [line |-> LineAt(f, block \o <<present[i]>>), value |-> set[present[i]]]],
                      !.after = <<[line |-> maxNodeLine(f, block), lines |-> entries(missing)]>>]
        out == applyEdits(f, e)
    IN IF ~Has(f, Client(c)) \/ ValueAt(f, block) = "{}" THEN NotWritten("refused")
       ELSE Verified(out, \A i \in DOMAIN keys : ValueAt(out, block \o <<keys[i]>>) = set[keys[i]])

\* The comment lines that directly precede line i.
NotesAbove(f, i) == {j \in 1 .. i - 1 : \A k \in j .. i - 1 : isCommentOnlyLine(f[k])}

\* A mutant: the key of a block stays when its last entry goes.
EmptiedKeepsKey(f, block, gone) == {LineAt(f, block \o <<k>>) : k \in gone}
\* What goes with the entries: when none is left the key too, and the comments in and above.
Emptied(f, block, gone) ==
    {LineAt(f, block \o <<k>>) : k \in gone} \cup
        IF Cardinality(gone) < Cardinality(KidsOf(f, block)) THEN {}
        ELSE LinesAt(f, block) \cup NotesAbove(f, LineAt(f, block))
             \cup {j \in LineAt(f, block) .. maxNodeLine(f, block) : isCommentOnlyLine(f[j])}

\* clientMapEdits, for entries to remove
RemoveClientMapEntries(f, c, block, keys) ==
    LET gone == {k \in keys : Has(f, block \o <<k>>)}
        out == applyEdits(f, [Nothing EXCEPT !.gone = Emptied(f, block, gone)])
    IN CASE ~Has(f, Client(c)) \/ ValueAt(f, block) = "{}" -> NotWritten("refused")
         [] ~Has(f, block) \/ IsNull(f, block)              -> Verified(f, TRUE)
         [] OTHER -> Verified(out, \A k \in keys : ~Has(out, block \o <<k>>))

\* The lines of a reasoning policy, below the part of its path that is there already.
PolicyLines(at, policy) ==
    <<Line(at \o <<"reasoning">>, ""), Line(at \o <<"reasoning", "mode">>, policy.mode)>>
    \o IF policy.effort = "" THEN <<>> ELSE <<Line(at \o <<"reasoning", "effort">>, policy.effort)>>

\* modelReasoningPolicyEditsInScope, for a policy to set.  An empty mapping is opened first.
SetClientModelReasoningPolicy(f, c, model, policy) ==
    LET options == OptionsOf(c)
        provider == options \o <<"baseten">>
        at == provider \o <<model>>
        reasoning == at \o <<"reasoning">>
        below(path, lines) ==
            IF ValueAt(f, path) = "{}" \/ IsNull(f, path)
            THEN Both(Value(LineAt(f, path), ""), Insert(LineAt(f, path), lines))
            ELSE Insert(maxNodeLine(f, path), lines)
        inModel == <<Line(at, "")>> \o PolicyLines(at, policy)
        effort == reasoning \o <<"effort">>
        e == CASE ~Has(f, options)   -> Insert(maxNodeLine(f, Client(c)),
                                               <<Line(options, ""), Line(provider, "")>> \o inModel)
               [] Has(f, options) /\ ~Has(f, provider) -> below(options, <<Line(provider, "")>> \o inModel)
               [] Has(f, provider) /\ ~Has(f, at)      -> below(provider, inModel)
               [] Has(f, at) /\ ~Has(f, reasoning)     -> below(at, PolicyLines(at, policy))
               [] OTHER -> Both(Value(LineAt(f, reasoning \o <<"mode">>), policy.mode),
                      CASE policy.effort # "" /\ Has(f, effort)  -> Value(LineAt(f, effort), policy.effort)
                        [] policy.effort # "" /\ ~Has(f, effort) ->
                               Insert(maxNodeLine(f, reasoning), <<Line(effort, policy.effort)>>)
                        [] OTHER -> [Nothing EXCEPT !.gone = LinesAt(f, effort)])
        out == applyEdits(f, e)
        found(g) == /\ ValueAt(g, reasoning \o <<"mode">>) = policy.mode
                    /\ ValueAt(g, effort) = IF policy.effort = "" THEN "absent" ELSE policy.effort
    IN CASE ~Has(f, Client(c)) \/ ~ValidPolicy(f) \/ IsNull(f, provider) \/ IsNull(f, at) -> NotWritten("refused")
         [] found(f)                              -> NotWritten("unchanged")
         [] OTHER                                 -> VerifiedPolicy(out, found(out))

\* modelReasoningPolicyEditsInScope, for a policy to remove, with the mappings it leaves empty.
RemoveClientModelReasoningPolicy(f, c, model) ==
    LET options == OptionsOf(c)
        provider == options \o <<"baseten">>
        at == provider \o <<model>>
        top == IF Cardinality(KidsOf(f, provider)) > 1 THEN at
               ELSE IF Cardinality(KidsOf(f, options)) > 1 THEN provider ELSE options
        out == applyEdits(f, [Nothing EXCEPT !.gone = LineAt(f, top) .. maxNodeLine(f, at)])
    IN CASE ~Has(f, Client(c)) \/ ~ValidPolicy(f)   -> NotWritten("refused")
         [] ~Has(f, at \o <<"reasoning">>)          -> NotWritten("unchanged")
         [] OTHER                                   -> VerifiedPolicy(out, ~Has(out, at))

\* A mutant: the comment of a row stays where the row was.
RowAlone(f, path, fresh) == <<fresh>>
\* A line of the picker, with the comments above it.
RowLines(f, path, fresh) ==
    IF ~Has(f, path) THEN <<fresh>>
    ELSE LET i == LineAt(f, path)
         IN [k \in 1 .. Cardinality(NotesAbove(f, i)) |-> f[i - 1 - Cardinality(NotesAbove(f, i)) + k]] \o <<fresh>>

\* renderClientModelPicker: the keys in their order, the rows in that of the picker.
renderClientModelPicker(f, path, on, rows) ==
    LET row(keys, value) == RowLines(f, path \o keys, Line(path \o keys, value))
    IN <<Line(path, "")>> \o row(<<"enabled">>, on) \o row(<<"models">>, IF rows = <<>> THEN "[]" ELSE "")
       \o FlattenSeq([i \in DOMAIN rows |-> row(<<"models", rows[i]>>, "alias")])

PickerRows(f, c) ==
    LET at == PickerOf(c) \o <<"models">>
        lines == SelectSeq(f, LAMBDA l : Under(at, l.path) /\ l.path # at)
    IN [i \in DOMAIN lines |-> Last(lines[i].path)]

\* SetClientModelPicker with a picker; rows that are not among the aliases make it invalid.
EditClientModelPicker(f, c, on, rows) ==
    LET at == PickerOf(c)
        lines == renderClientModelPicker(f, at, on, rows)
        out == IF Has(f, at) THEN replaceYAMLLines(f, LineAt(f, at), maxNodeLine(f, at), lines)
               ELSE replaceYAMLLines(f, mapBlockAnchor(f, c) + 1, mapBlockAnchor(f, c), lines)
        found(g) == /\ ValueAt(g, at \o <<"enabled">>) = on /\ PickerRows(g, c) = rows
    IN CASE ~Has(f, Client(c)) \/ ~ValidPolicy(f) \/ IsNull(f, at)          -> NotWritten("refused")
         [] \E i \in DOMAIN rows : ~Has(f, AliasesOf(c) \o <<rows[i]>>)     -> NotWritten("refused")
         [] Has(f, at) /\ found(f)                                          -> NotWritten("unchanged")
         [] OTHER                                                           -> VerifiedPolicy(out, found(out))

\* SetClientModelPicker without one
RemoveClientModelPicker(f, c) ==
    LET at == PickerOf(c)
        out == replaceYAMLLines(f, LineAt(f, at), maxNodeLine(f, at), <<>>)
    IN CASE ~Has(f, Client(c)) \/ ~ValidPolicy(f) \/ IsNull(f, at)    -> NotWritten("refused")
         [] ~Has(f, at)                                               -> NotWritten("unchanged")
         [] OTHER                                                     -> VerifiedPolicy(out, ~Has(out, at))

\* A trigger that is not in the file is on.
SetFallbackPolicyTrigger(f, key, on) ==
    LET gate == <<"global", "routing_enabled">>
        e == CASE ~Has(f, Policy) -> Insert(LineAt(f, gate), <<Line(Policy, ""), Line(Policy \o <<key>>, on)>>)
               [] Has(f, Policy) /\ ~Has(f, Policy \o <<key>>) -> Insert(maxNodeLine(f, Policy), <<Line(Policy \o <<key>>, on)>>)
               [] OTHER -> Value(LineAt(f, Policy \o <<key>>), on)
        out == applyEdits(f, e)
    IN IF Has(f, Policy) /\ KidsOf(f, Policy) = {} THEN NotWritten("refused")
       ELSE Verified(out, ValueAt(out, Policy \o <<key>>) = on)

\* The trace policy is replaced as a whole.
SetTraceCapture(f, on, clients) ==
    LET at(k, v) == Line(Trace \o k, v)
        lines == <<at(<<>>, ""), at(<<"enabled">>, on)>>
                 \o (IF clients = <<>> THEN <<at(<<"clients">>, "[]")>>
                     ELSE <<at(<<"clients">>, "")>> \o [i \in DOMAIN clients |-> at(<<"clients", clients[i]>>, "client")])
                 \o <<at(<<"retention_days">>, "30")>>
        out == IF Has(f, Trace) THEN replaceYAMLLines(f, LineAt(f, Trace), maxNodeLine(f, Trace), lines)
               ELSE replaceYAMLLines(f, maxNodeLine(f, <<"global">>) + 1, maxNodeLine(f, <<"global">>), lines)
    IN IF ~ValidPolicy(f) THEN NotWritten("refused")
       ELSE VerifiedPolicy(out, ValueAt(out, Trace \o <<"enabled">>) = on
                                /\ KeysOf(out, Trace \o <<"clients">>) = Range(clients))

\* SetupClaudeDesktop: a client is turned on with its picker, or appended.
SetupClaudeDesktop(f) ==
    LET c == "claude-desktop"
        last == maxNodeLine(f, <<"clients">>)
        on == SetClientScalars(f, c, <<"enabled">>, [enabled |-> "true"])
        out == replaceYAMLLines(f, last + 1, last,
            [i \in 1 .. 7 |-> Line(Client(c) \o <<<<>>, <<"enabled">>, <<"protocol_shape">>, <<"allow_native">>, <<"model_picker">>,
                                  <<"model_picker", "enabled">>, <<"model_picker", "models">>>>[i],
                                  <<"name", "true", "anthropic", "false", "", "true", "[]">>[i])])
    IN IF ~Has(f, Client(c)) THEN VerifiedPolicy(out, TRUE)
       ELSE IF ValueAt(f, Client(c) \o <<"allow_native">>) # "false" THEN NotWritten("refused")
       ELSE IF on.ended # "written" THEN on
       ELSE LET p == EditClientModelPicker(on.file, c, "true", PickerRows(f, c))
            IN IF p.ended = "written" THEN p
               ELSE [on EXCEPT !.ended = IF p.ended = "unchanged" THEN "written" ELSE p.ended]

\* SetClientScalars on a client that is written on one line.  A key, with all that is around it, is
\* one character.  Each value is spliced in where it was before the first splice.
InlineKeys == {"subagent_model", "subagent_routing", "native_fallback_model"}
InlineValue(t, k) ==
    LET from == CHOOSE i \in DOMAIN t : t[i] = k
        rest == {i \in from + 1 .. Len(t) : t[i] \in InlineKeys} \cup {Len(t) + 1}
    IN SubSeq(t, from + 1, Min(rest) - 1)
Splice(t, from, length, value) ==
    SubSeq(t, 1, from - 1) \o value \o SubSeq(t, from + length, Len(t))
InlineAt(t, k) == 1 + CHOOSE i \in DOMAIN t : t[i] = k
InlineParses(t) == \A k \in InlineKeys : Cardinality({i \in DOMAIN t : t[i] = k}) = 1

SetInlineSubagents(t, model, routing) ==
    LET first == Splice(t, InlineAt(t, "subagent_model"), Len(InlineValue(t, "subagent_model")), model)
        at == InlineAt(t, "subagent_routing")
        length == Len(InlineValue(t, "subagent_routing"))
        second == Splice(first, at, length, routing)
    IN IF /\ at + length - 1 <= Len(first) /\ InlineParses(second)
          /\ InlineValue(second, "subagent_model") = model /\ InlineValue(second, "subagent_routing") = routing
       THEN second ELSE t

-----------------------------------------------------------------------------
(* The actions: the edits that the commands make.                           *)

NoEdit == [op |-> "none", touches |-> {}, ended |-> "unchanged"]

InGlobal(keys, value) == Line(<<"global">> \o keys, value)
InClaude(keys, value) == Line(Client("claude-code") \o keys, value)
GlobalLines(trace) ==
    <<InGlobal(<<>>, ""), Note("gate"), InGlobal(<<"routing_enabled">>, "true")>>
    \o (IF trace THEN <<Line(Trace, ""), Line(Trace \o <<"enabled">>, "false"), Note("in trace"), Line(Trace \o <<"clients">>, "[]")>>
        ELSE <<>>)
    \o <<Note("after global"), Line(<<"clients">>, "")>>
ClaudeLines(aliases, picker, options) ==
    <<InClaude(<<>>, "name"), InClaude(<<"enabled">>, "true"), InClaude(<<"default_model">>, "s1"),
      InClaude(<<"protocol_shape">>, "anthropic")>>
    \o (IF aliases THEN <<InClaude(<<"model_aliases">>, ""), InClaude(<<"model_aliases", "a">>, "s1"), Note("b"),
                          InClaude(<<"model_aliases", "b">>, "s2"), Note("more aliases")>>
        ELSE <<Note("no aliases")>>)
    \o (IF picker THEN <<InClaude(<<"model_picker">>, ""), InClaude(<<"model_picker", "enabled">>, "true"), Note("rows"),
                         InClaude(<<"model_picker", "models">>, ""), Note("row a"), InClaude(<<"model_picker", "models", "a">>, "alias"),
                         Note("row b"), InClaude(<<"model_picker", "models", "b">>, "alias")>> ELSE <<>>)
    \o (IF options # "absent" THEN <<Note("options"), InClaude(<<"model_options">>, options)>> ELSE <<>>)
CodexLines ==
    LET at(keys, value) == Line(Client("codex") \o keys, value)
    IN <<Note("codex"), at(<<>>, "name"), at(<<"enabled">>, "false"), at(<<"default_model">>, "s1"),
         at(<<"protocol_shape">>, "openai"), Note("end")>>

ConfigEditInit ==
    /\ \E trace, aliases, picker \in BOOLEAN, options \in {"absent", "", "{}"} :
           /\ picker => aliases
           /\ trace \/ options = "absent"      \* the two are far apart: each alone
           /\ text = GlobalLines(trace) \o ClaudeLines(aliases, picker, options) \o CodexLines
    /\ inline = <<"subagent_model", "m", "n", "n", "subagent_routing", "o", "native_fallback_model", "x", "y">>
    /\ edit = NoEdit /\ edits = 0

Ends(op, touches, r) ==
    /\ edits < MaxConfigEdits /\ edits' = edits + 1
    /\ text' = IF r.file = <<>> THEN text ELSE r.file
    /\ edit' = [op |-> op, touches |-> touches, ended |-> r.ended]
    /\ UNCHANGED inline

Gate == \E on \in {"true", "false"} :
    Ends("gate", {<<"global", "routing_enabled">>}, SetGlobalRoutingEnabled(text, on))
Trigger == \E key \in {"on_baseten_429", "on_baseten_5xx"}, on \in {"true", "false"} :
    Ends("trigger", {Policy \o <<key>>}, SetFallbackPolicyTrigger(text, key, on))
Capture == \E on \in {"true", "false"}, clients \in {<<>>, <<"claude-code">>} :
    Ends("trace", {Trace}, SetTraceCapture(text, on, clients))
Subagents ==
    Ends("scalars", {Client("claude-code") \o <<k>> : k \in {"subagent_model", "subagent_routing"}},
         SetClientScalars(text, "claude-code", <<"subagent_model", "subagent_routing">>,
                          [subagent_model |-> "s2", subagent_routing |-> "on"]))
Default == \E c \in {"claude-code", "codex"} :
    Ends("scalars", {Client(c) \o <<"default_model">>},
         SetClientScalars(text, c, <<"default_model">>, [default_model |-> "s2"]))
Enable ==
    Ends("scalars", {Client("codex") \o <<"enabled">>},
         SetClientScalars(text, "codex", <<"enabled">>, [enabled |-> "true"]))
Alias ==
    Ends("map", {AliasesOf("claude-code") \o <<k>> : k \in {"b", "c"}},
         SetClientMapEntries(text, "claude-code", AliasesOf("claude-code"), <<"b", "c">>, [b |-> "s3", c |-> "s3"]))
RouteFamily == \E k \in {"opus", "sonnet"} :
    Ends("map", {RoutesOf("claude-code") \o <<k>>},
         SetClientMapEntries(text, "claude-code", RoutesOf("claude-code"), <<k>>, [x \in {k} |-> "native"]))
UnrouteFamily == \E k \in {"opus", "sonnet"} :
    Ends("remove", {RoutesOf("claude-code") \o <<k>>},
         RemoveClientMapEntries(text, "claude-code", RoutesOf("claude-code"), {k}))
Models == {"m1", "m2"}
Policies == {[mode |-> "on", effort |-> ""], [mode |-> "fixed", effort |-> "high"]}
Reason == \E m \in Models, policy \in Policies :
    Ends("reasoning", {OptionsOf("claude-code") \o <<"baseten", m>>},
         SetClientModelReasoningPolicy(text, "claude-code", m, policy))
Unreason == \E m \in Models :
    Ends("reasoning", {OptionsOf("claude-code") \o <<"baseten", m>>},
         RemoveClientModelReasoningPolicy(text, "claude-code", m))
Pick == \E on \in {"true", "false"}, rows \in {<<>>, <<"b", "a">>, <<"b">>, <<"c">>} :
    Ends("picker", {PickerOf("claude-code")}, EditClientModelPicker(text, "claude-code", on, rows))
Unpick == Ends("picker", {PickerOf("claude-code")}, RemoveClientModelPicker(text, "claude-code"))
Desktop == Ends("desktop", {Client("claude-desktop")}, SetupClaudeDesktop(text))
Inline == \E model \in {<<"m">>, <<"m", "n", "n">>} :
    /\ edits = 0 /\ edits' = 1
    /\ inline' = SetInlineSubagents(inline, model, <<"o">>)
    /\ edit' = NoEdit /\ UNCHANGED text

ConfigEditNext ==
    \/ Gate \/ Trigger \/ Capture \/ Subagents \/ Default \/ Enable \/ Alias \/ RouteFamily \/ UnrouteFamily
    \/ Reason \/ Unreason \/ Pick \/ Unpick \/ Desktop \/ Inline

ConfigEditSpec == ConfigEditInit /\ [][ConfigEditNext]_configEditVars
-----------------------------------------------------------------------------
(* What the editors promise.                                                *)

ConfigEditTypeOK ==
    /\ edits \in 0 .. MaxConfigEdits
    /\ edit.ended \in {"written", "unchanged", "refused", "aborted"}
    /\ \A i \in DOMAIN text : Len(text[i].path) <= 7
    /\ Range(inline) \subseteq InlineKeys \cup {"m", "n", "o", "x", "y"}

\* The check at the end of an edit is a safety net: no edit of a block mapping needs it.
EditsLand == edit.ended # "aborted" /\ Parses(text)

\* Only what the edit is about changes its value, comes or goes.
Touched(path, touches) == \E t \in touches : Under(t, path) \/ Under(path, t)
OnlyAsked ==
    \A f \in {text, text'} : \A i \in Keyed(f) :
        ~Touched(f[i].path, edit'.touches) => ValueAt(text, f[i].path) = ValueAt(text', f[i].path)

\* A comment stays in front of the line it is in front of, or goes only with that line.
Below(f, i) == LET keyed == {k \in Keyed(f) : k > i} IN IF keyed = {} THEN <<>> ELSE f[Min(keyed)].path
NoteAt(f, id) == {i \in DOMAIN f : f[i] = Note(id)}
NotesStay ==
    \A i \in DOMAIN text : isCommentOnlyLine(text[i]) =>
        \/ Below(text, i) # <<>> /\ ~Has(text', Below(text, i))
        \/ edit'.op = "trace" /\ Under(Trace, Below(text, i)) /\ Len(Below(text, i)) > 2
        \/ \E k \in NoteAt(text', text[i].value) : Below(text', k) = Below(text, i)

\* No edit leaves the key of a mapping with nothing below it.
NoEmptyBlock ==
    \A i \in Keyed(text') : IsNull(text', text'[i].path) => IsNull(text, text'[i].path)

EditsExact == [][text' # text => OnlyAsked /\ NotesStay /\ NoEmptyBlock]_text

\* A policy or a route that is set where none was, and removed again, leaves the file as it was.
UndoRestores ==
    LET routed == RoutesOf("claude-code") \o <<"opus">>
        options == OptionsOf("claude-code")
    IN /\ ~Has(text, routed) =>
              LET s == SetClientMapEntries(text, "claude-code", RoutesOf("claude-code"), <<"opus">>, [opus |-> "native"])
              IN RemoveClientMapEntries(s.file, "claude-code", RoutesOf("claude-code"), {"opus"}).file = text
       /\ ~Has(text, options \o <<"baseten", "m1">>) /\ ValueAt(text, options) # "{}" /\ ~IsNull(text, options) =>
              LET s == SetClientModelReasoningPolicy(text, "claude-code", "m1", [mode |-> "on", effort |-> ""])
              IN s.ended = "written" => RemoveClientModelReasoningPolicy(s.file, "claude-code", "m1").file = text

\* An edit of a client on one line changes nothing else of it.  It does, so this is no property
\* of a run: the second value is spliced in where it was before the first one changed the line.
InlineKept == InlineValue(inline, "native_fallback_model") = <<"x", "y">>
=============================================================================
