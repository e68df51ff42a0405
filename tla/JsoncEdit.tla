----------------------------- MODULE JsoncEdit ------------------------------
(***************************************************************************)
(* How pi install and pi uninstall edit an object of a JSONC file in       *)
(* place: a member is appended, replaced or cut out together with one      *)
(* comma, and every comment and every other member stays where it is.  An  *)
(* object is the sequence of its tokens; blanks within a line are left out.*)
(***************************************************************************)
EXTENDS Naturals, Sequences, SequencesExt

CONSTANTS OtherMembers,     \* members with other keys
          OurMembers,       \* the values the edited key can have
          MaxTokens,        \* bound: tokens of an object to start from
          MaxJsoncEdits     \* bound: edits one after another

ASSUME JsoncBounds == MaxTokens \in Nat /\ MaxJsoncEdits \in Nat

Comments == {"line", "block"}          \* a line comment ends with its newline
Trivia   == Comments \cup {"newline"}
Members  == OtherMembers \cup OurMembers
JsoncTokens   == Members \cup Trivia \cup {"comma"}

VARIABLES object,    \* the tokens between the braces
          jsonc      \* the edits so far, and what the last one was asked and answered

jsoncVars == <<object, jsonc>>

(***************************************************************************)
(* The parser: members where they stand, each with its comma or 0.         *)
(***************************************************************************)
Expected(s, t) == IF t = "comma" THEN s.open ELSE ~s.open

Taken(s, t, i) ==
    IF t = "comma"
    THEN [s EXCEPT !.open = FALSE, !.members[Len(s.members)].comma = i]
    ELSE [s EXCEPT !.open = TRUE, !.members = Append(@, [value |-> t, at |-> i, comma |-> 0])]

parseObject(tokens) ==
    FoldLeftDomain(LAMBDA s, i : IF ~s.ok \/ tokens[i] \in Trivia THEN s
                                 ELSE IF Expected(s, tokens[i]) THEN Taken(s, tokens[i], i)
                                 ELSE [s EXCEPT !.ok = FALSE],
                   [ok |-> TRUE, open |-> FALSE, members |-> <<>>], tokens)

\* The places of the edited key among the members.
OurPlaces(members) == {i \in DOMAIN members : members[i].value \in OurMembers}
duplicateMember(members) == \E i, j \in OurPlaces(members) : i # j

(***************************************************************************)
(* The three edits.                                                        *)
(***************************************************************************)
closeOnOwnLine(tokens) == tokens # <<>> /\ Last(tokens) \in {"line", "newline"}
MultiLine(tokens) == \E t \in {"line", "newline"} : Contains(tokens, t)

Separated(tokens, members) ==
    IF members # <<>> /\ Last(members).comma = 0 THEN InsertAt(tokens, Last(members).at + 1, "comma") ELSE tokens

objectInsert(tokens, members, value) ==
    LET own == IF closeOnOwnLine(tokens) \/ ~MultiLine(tokens) THEN <<>> ELSE <<"newline">>
    IN  Separated(tokens, members) \o own \o <<value>> \o (IF MultiLine(tokens) THEN <<"newline">> ELSE <<>>)

\* A mutant: the comma behind a first member stays.
CutOutCommaBefore(tokens, members, i) ==
    LET gone == {members[i].at, IF i > 1 THEN members[i - 1].comma ELSE 0}
        kept == SelectSeq([j \in DOMAIN tokens |-> j], LAMBDA j : j \notin gone)
    IN  [j \in DOMAIN kept |-> tokens[kept[j]]]

\* With a member goes the comma behind it; with a last one that has none, the comma before it.
CutOut(tokens, members, i) ==
    LET comma == IF members[i].comma # 0 THEN members[i].comma
                 ELSE IF i > 1 THEN members[i - 1].comma ELSE 0
        gone  == {members[i].at, comma}
        kept  == SelectSeq([j \in DOMAIN tokens |-> j], LAMBDA j : j \notin gone)
    IN  [j \in DOMAIN kept |-> tokens[kept[j]]]

UpsertProvider(tokens, value, allowReplace) ==
    LET parsed == parseObject(tokens)
        found  == OurPlaces(parsed.members)
    IN  IF ~parsed.ok \/ duplicateMember(parsed.members) \/ (found # {} /\ ~allowReplace)
        THEN [ok |-> FALSE, tokens |-> tokens]
        ELSE [ok |-> TRUE, tokens |-> IF found = {} THEN objectInsert(tokens, parsed.members, value)
                                      ELSE [tokens EXCEPT ![parsed.members[CHOOSE i \in found : TRUE].at] = value]]

RemoveProvider(tokens) ==
    LET parsed == parseObject(tokens)
        found  == OurPlaces(parsed.members)
    IN  IF ~parsed.ok \/ duplicateMember(parsed.members) THEN [ok |-> FALSE, tokens |-> tokens]
        ELSE [ok |-> TRUE, tokens |-> IF found = {} THEN tokens
                                      ELSE CutOut(tokens, parsed.members, CHOOSE i \in found : TRUE)]

-----------------------------------------------------------------------------
NoJsoncEdit == [edits |-> 0, asked |-> "none", value |-> "none", ok |-> TRUE]

JsoncEdited(asked, value, answer) ==
    /\ jsonc.edits < MaxJsoncEdits
    /\ object' = answer.tokens
    /\ jsonc' = [edits |-> jsonc.edits + 1, asked |-> asked, value |-> value, ok |-> answer.ok]

UpsertEdit(value, allowReplace) == JsoncEdited("upsert", value, UpsertProvider(object, value, allowReplace))
RemoveEdit == JsoncEdited("remove", "none", RemoveProvider(object))

\* Every object the parser takes, and short ones it does not.
JsoncInit ==
    /\ \E n \in 0..MaxTokens : object \in [1..n -> JsoncTokens]
    /\ Len(object) <= 2 \/ parseObject(object).ok
    /\ jsonc = NoJsoncEdit

JsoncNext == RemoveEdit \/ \E value \in OurMembers, allowReplace \in BOOLEAN : UpsertEdit(value, allowReplace)

JsoncSpec == JsoncInit /\ [][JsoncNext]_jsoncVars

JsoncTypeOK == object \in Seq(JsoncTokens) /\ jsonc.edits \in 0..MaxJsoncEdits

-----------------------------------------------------------------------------
CommentsAndOthers(tokens) == SelectSeq(tokens, LAMBDA t : t \in Comments \cup OtherMembers)
OwnMembers(tokens) == SelectSeq(tokens, LAMBDA t : t \in OurMembers)

\* What an edit makes of an object it accepts parses again, has the other members and every comment
\* in their order ("preserving all unrelated bytes", editor.go:1-2), and has the edited key once with
\* the value asked for, or not at all; what it refuses it leaves, and it refuses only an object that
\* does not parse or that has the key.  No comma goes that a neighbour still needs.
JsoncEditsLand ==
    [][ /\ CommentsAndOthers(object') = CommentsAndOthers(object)
        /\ IF jsonc'.ok
           THEN /\ parseObject(object').ok
                /\ OwnMembers(object') = IF jsonc'.asked = "upsert" THEN <<jsonc'.value>> ELSE <<>>
           ELSE object' = object /\ (parseObject(object).ok => OwnMembers(object) # <<>>)
      ]_jsoncVars
=============================================================================
