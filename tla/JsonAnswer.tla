---------------------------- MODULE JsonAnswer ----------------------------
(***************************************************************************)
(* What complete_json() makes of the text that the LLM has written         *)
(* (app/adapters/llm_client.py): the object at its start, or the text      *)
(* repaired, or an error.                                                  *)
(*                                                                         *)
(* A text is a sequence of characters; a code fence counts as one, and the *)
(* only number has one digit.  White space is left out: the code skips it  *)
(* wherever it looks for the next character.                               *)
(***************************************************************************)
EXTENDS Integers, SequencesExt

CONSTANTS
  Pieces,    \* What the LLM may write next: a sequence of characters.
  MaxPieces, \* Bound: the pieces of one answer.
  Settings   \* What is configured, and whether the loader minds the stop sequence.

Quote == "\""
Escape == "\\"
Fence == "fence"
Letters == {"a", "b"}
Digits == {"1"}
WordChars == Letters \cup Digits
Closer == [c \in {"{", "["} |-> IF c = "{" THEN "}" ELSE "]"]
Brackets == {"{", "}", "[", "]"}
Chars == Brackets \cup WordChars \cup {Quote, Escape, Fence, ",", ":"}

ASSUME AnswerAssumption ==
  /\ MaxPieces \in Nat
  /\ Pieces \subseteq Seq(Chars)
  \* stop: LLM_STOP_AFTER_JSON_OBJECT off, obeyed by the loader, or ignored by it.
  /\ Settings \subseteq [stop : {"off", "obeyed", "ignored"}, repair : BOOLEAN]

VARIABLES
  settings, \* The settings of this run.
  text,     \* What the loader has of the answer.
  pieces,   \* How many pieces were written.
  inside,   \* History: the stop sequence came inside a string.
  outcome   \* What complete_json() returned or raised.

answerVars == <<settings, text, pieces, inside, outcome>>

-----------------------------------------------------------------------------
(* JSON, as the json module of Python reads it *)

\* Where a character stands: out of a string, in one, or after a backslash in one.
AfterChar(place, c) ==
  CASE place = "escaped" -> "in"
    [] place = "in" /\ c = Escape -> "escaped"
    [] place = "in" /\ c = Quote -> "out"
    [] place = "out" /\ c = Quote -> "in"
    [] OTHER -> place

Places(s) ==
  LET place[i \in 0..Len(s)] == IF i = 0 THEN "out" ELSE AfterChar(place[i - 1], s[i])
  IN  place

\* The positions that are out of every string, quotes apart.
Structural(s) ==
  LET place == Places(s) IN {i \in 1..Len(s) : place[i - 1] = "out" /\ s[i] # Quote}

\* Where the decoder stands: the brackets that are open with the keys of each, the
\* string read as a key, and the members of the outermost object, with the place of
\* their values.
Begin == [at |-> "value", open |-> <<>>, keys |-> <<>>, word |-> <<>>,
          key |-> <<>>, from |-> 0, members |-> <<>>, pos |-> 0]

Outermost(d) == Len(d.open) = 1

Moved(d) == [d EXCEPT !.pos = @ + 1]

Goes(d, at) == [d EXCEPT !.at = at]

Spells(d, at, c) == [d EXCEPT !.at = at, !.word = Append(@, c)]

Open(d, c) ==
  [d EXCEPT !.open = Append(@, c), !.keys = Append(@, {}), !.at = IF c = "{" THEN "key or end" ELSE "value or end"]

\* A member of the outermost object is complete.
Keep(d) ==
  IF Outermost(d) THEN [d EXCEPT !.members = Append(@, <<d.key, d.from, d.pos - 1>>)] ELSE d

Close(d) ==
  [d EXCEPT !.open = Front(@), !.keys = Front(@), !.at = IF Outermost(d) THEN "end" ELSE "after"]

ValueBegins(d, at) == [d EXCEPT !.from = IF Outermost(d) THEN d.pos ELSE @, !.at = at]

\* Plausible slip: the last value of a key wins.
KeyEndsAnyway(d) ==
  [d EXCEPT !.word = <<>>, !.at = "colon", !.key = IF Outermost(d) THEN d.word ELSE @]

\* A key that the object has already is an error (_reject_duplicate_json_keys).
KeyEnds(d) ==
  [d EXCEPT !.keys = Append(Front(@), Last(@) \cup {d.word}), !.word = <<>>,
            !.key = IF Outermost(d) THEN d.word ELSE @,
            !.at = IF d.word \in Last(d.keys) THEN "bad" ELSE "colon"]

\* One more character.
Read(d, c) ==
  LET m == Moved(d)
      valueFits == d.at \in {"value", "value or end"}
      valueDone == d.at \in {"after", "number"}
  IN  CASE d.at = "end" -> d
        [] d.at = "string" -> Goes(m, IF c = Quote THEN "after" ELSE IF c = Escape THEN "escaped" ELSE "string")
        [] d.at = "escaped" -> Goes(m, IF c \in {Quote, Escape} THEN "string" ELSE "bad")
        [] d.at = "in key" /\ c = Quote -> KeyEnds(m)
        [] d.at = "in key" /\ c # Quote -> Spells(m, IF c = Escape THEN "key escaped" ELSE "in key", c)
        [] d.at = "key escaped" -> Spells(m, IF c \in {Quote, Escape} THEN "in key" ELSE "bad", c)
        [] d.at = "colon" /\ c = ":" -> Goes(m, "value")
        [] valueFits /\ c = Quote -> ValueBegins(m, "string")
        [] valueFits /\ c \in Digits -> ValueBegins(m, "number")
        [] valueFits /\ c \in {"{", "["} -> Open(ValueBegins(m, "value"), c)
        [] d.at = "value or end" /\ c = "]" -> Close(m)
        [] d.at \in {"key", "key or end"} /\ c = Quote -> Goes(m, "in key")
        [] d.at = "key or end" /\ c = "}" -> Close(m)
        [] d.at = "number" /\ c \in Digits -> m
        [] valueDone /\ c = "," -> Goes(Keep(m), IF Last(d.open) = "{" THEN "key" ELSE "value")
        [] valueDone /\ c = Closer[Last(d.open)] -> Close(Keep(m))
        [] OTHER -> Goes(m, "bad")

\* Where the decoder stands after each character.
Reads(s) ==
  LET read[i \in 0..Len(s)] == IF i = 0 THEN Begin ELSE Read(read[i - 1], s[i])
  IN  read

\* The object that s begins with: where it ends, and its members; NoObject without one.
NoObject == [end |-> 0, members |-> <<>>]

ObjectAt(s) ==
  LET d == Reads(s)[Len(s)]
  IN  IF s = <<>> \/ Head(s) # "{" \/ d.at # "end" THEN NoObject
      ELSE [end |-> d.pos,
            members |-> [i \in 1..Len(d.members) |->
              [key |-> d.members[i][1], value |-> SubSeq(s, d.members[i][2], d.members[i][3])]]]

Rest(s, i) == SubSeq(s, i, Len(s))

-----------------------------------------------------------------------------
(* The objects at the start *)

\* _restore_object_end()
RestoreEnd(s) ==
  IF Contains(s, "{") /\ Last(s) # "}" THEN Append(s, "}") ELSE s

\* The complete objects at the start, with commas and fences between them.
Objects(s) ==
  LET from[i \in 1..(Len(s) + 1)] ==
        LET object == ObjectAt(Rest(s, i)) IN
        IF i <= Len(s) /\ s[i] \in {",", Fence} THEN from[i + 1]
        ELSE IF object.end = 0 THEN <<>>
        ELSE <<object.members>> \o from[i + object.end]
  IN  from[1]

HasKey(members, k) == \E i \in 1..Len(members) : members[i].key = k

\* The first value of a key wins.
Merged(objects) ==
  LET all == FlattenSeq(objects)
      merged[i \in 0..Len(all)] ==
        IF i = 0 THEN <<>>
        ELSE IF HasKey(merged[i - 1], all[i].key) THEN merged[i - 1] ELSE Append(merged[i - 1], all[i])
  IN  merged[Len(all)]

\* json.dumps(): the members as text again.
Dumped(members) ==
  LET Member(i) == <<Quote>> \o members[i].key \o <<Quote, ":">> \o members[i].value
                     \o IF i < Len(members) THEN <<",">> ELSE <<>>
  IN  <<"{">> \o FlattenSeq([i \in 1..Len(members) |-> Member(i)]) \o <<"}">>

-----------------------------------------------------------------------------
(* The repairs *)

\* The characters of s at some positions, each replaced by what it becomes.
Rewritten(s, Becomes(_)) == FlattenSeq([i \in 1..Len(s) |-> Becomes(i)])

\* The text up to the first bracket that closes the outermost one; only braces count.
FirstCompleteObject(s) ==
  LET structural == Structural(s)
      Depth(i) == Cardinality({k \in structural : k <= i /\ s[k] = "{"})
                    - Cardinality({k \in structural : k <= i /\ s[k] = "}"})
      ends == {i \in 1..Len(s) : Depth(i) = 0}
  IN  IF s = <<>> \/ Head(s) # "{" \/ ends = {} THEN <<>> ELSE SubSeq(s, 1, Min(ends))

\* Plausible slip: a comma in a string is dropped too.
RemoveCommasAnywhere(s) ==
  Rewritten(s, LAMBDA i :
    IF i < Len(s) /\ s[i] = "," /\ s[i + 1] \in {"}", "]"} THEN <<>> ELSE <<s[i]>>)

\* A comma is dropped only just before a bracket that closes.
RemoveTrailingCommas(s) ==
  LET structural == Structural(s) IN
  Rewritten(s, LAMBDA i :
    IF i < Len(s) /\ i \in structural /\ s[i] = "," /\ s[i + 1] \in {"}", "]"} THEN <<>> ELSE <<s[i]>>)

Closers(open) == [i \in 1..Len(open) |-> Closer[open[Len(open) + 1 - i]]]

\* The brackets left open, and the text so far with the missing closers put in; lost
\* when a bracket closes nothing.
Balance(b, c) ==
  LET fits == {k \in 1..Len(b.open) : Closer[b.open[k]] = c}
      innermost == Max(fits)
  IN  IF c \in {"{", "["} THEN [b EXCEPT !.open = Append(@, c), !.out = Append(@, c)]
      ELSE IF fits = {} THEN [b EXCEPT !.lost = TRUE]
      ELSE [b EXCEPT !.open = SubSeq(@, 1, innermost - 1),
                     !.out = @ \o Append(Closers(Rest(b.open, innermost + 1)), c)]

Balanced(s) ==
  LET structural == Structural(s)
      balanced[i \in 0..Len(s)] ==
        IF i = 0 THEN [open |-> <<>>, out |-> <<>>, lost |-> FALSE]
        ELSE IF i \in structural /\ s[i] \in Brackets THEN Balance(balanced[i - 1], s[i])
        ELSE [balanced[i - 1] EXCEPT !.out = Append(@, s[i])]
  IN  balanced

\* From the first brace on, the open string and brackets closed, and commas removed.
Recovered(s) ==
  LET fragment == Rest(s, Min({i \in 1..Len(s) : s[i] = "{"}))
      body == IF Last(fragment) = Fence THEN Front(fragment) ELSE fragment
      all == Balanced(body)[Len(body)]
      quote == IF Places(body)[Len(body)] = "out" THEN <<>> ELSE <<Quote>>
  IN  IF ~Contains(s, "{") \/ all.lost THEN <<>>
      ELSE RemoveTrailingCommas(all.out \o quote \o Closers(all.open))

WordEnd(s, i) == Max({k \in i..Len(s) : \A m \in i..k : s[m] \in WordChars})

\* Words where a key is expected, if a colon follows.
QuoteBareKeys(s) ==
  LET structural == Structural(s)
      Expected(i) == LET before == {k \in structural : k < i}
                     IN  before # {} /\ s[Max(before)] \in {"{", ","}
      Colon(i) == WordEnd(s, i) < Len(s) /\ s[WordEnd(s, i) + 1] = ":"
      begins == {i \in structural : s[i] \in Letters /\ Expected(i) /\ Colon(i)}
      ends == {WordEnd(s, i) : i \in begins}
  IN  Rewritten(s, LAMBDA i :
        (IF i \in begins THEN <<Quote>> ELSE <<>>) \o <<s[i]>> \o (IF i \in ends THEN <<Quote>> ELSE <<>>))

-----------------------------------------------------------------------------
(* _parse_json_content() and complete_json() *)

Fenced(s) == IF Len(s) > 1 /\ Head(s) = Fence /\ Last(s) = Fence THEN Front(Tail(s)) ELSE <<>>

\* The text and its repairs, and these with their bare keys quoted.
Candidates(s, repair) ==
  LET plain == <<s, Fenced(s)>> \o IF repair THEN <<FirstCompleteObject(s), Recovered(s)>> ELSE <<>>
  IN  plain \o IF repair THEN [i \in 1..Len(plain) |-> QuoteBareKeys(plain[i])] ELSE <<>>

Outcome(finish, kind, members) == [finish |-> finish, kind |-> kind, members |-> members]

\* The last candidate that is an object, each taken where it first occurs.
Parsed(s, repair, finish) ==
  LET c == Candidates(s, repair)
      good == {i \in 1..Len(c) :
                 /\ c[i] # <<>> /\ ObjectAt(c[i]).end = Len(c[i])
                 /\ \A k \in 1..(i - 1) : c[k] # c[i]}
  IN  IF good = {} THEN Outcome(finish, "format error", <<>>)
      ELSE Outcome(finish, "object", ObjectAt(c[Max(good)]).members)

\* Plausible slip: an answer cut at the token limit is repaired like any other.
CompletedUncut(s, finish) ==
  LET objects == Objects(s)
  IN  Parsed(IF objects = <<>> THEN s ELSE Dumped(Merged(objects)), settings.repair, finish)

\* The objects at the start are the answer; one that was cut at the token limit
\* before its first object was complete is not used.
Completed(s, finish) ==
  LET content == IF settings.stop # "off" /\ finish = "stop" THEN RestoreEnd(s) ELSE s
      objects == Objects(content)
  IN  IF objects # <<>> THEN Parsed(Dumped(Merged(objects)), settings.repair, finish)
      ELSE IF finish = "length" THEN Outcome(finish, "truncated", <<>>)
      ELSE Parsed(content, settings.repair, finish)

-----------------------------------------------------------------------------
(* The LLM writes, until it ends, is stopped or reaches the token limit *)

Pending == Outcome("none", "pending", <<>>)

AnswerInit ==
  /\ settings \in Settings
  /\ text = <<>>
  /\ pieces = 0
  /\ inside = FALSE
  /\ outcome = Pending

Stops(p) == settings.stop = "obeyed" /\ Contains(p, "}")

Write(p) ==
  /\ outcome = Pending /\ pieces < MaxPieces
  /\ ~Stops(p)
  /\ text' = text \o p
  /\ pieces' = pieces + 1
  /\ UNCHANGED <<settings, inside, outcome>>

\* The loader stops at the first closing brace and leaves it out.
StopAtBrace(p) ==
  /\ outcome = Pending /\ pieces < MaxPieces
  /\ Stops(p)
  /\ text' = text \o SubSeq(p, 1, SelectInSeq(p, LAMBDA c : c = "}") - 1)
  /\ pieces' = pieces + 1
  /\ inside' = (Places(text')[Len(text')] # "out")
  /\ outcome' = Completed(text', "stop")
  /\ UNCHANGED settings

\* The LLM ends its answer, or a configured stop sequence or the token limit does.
End(finish) ==
  /\ outcome = Pending
  /\ outcome' = Completed(text, finish)
  /\ UNCHANGED <<settings, text, pieces, inside>>

AnswerNext ==
  \/ \E p \in Pieces : Write(p) \/ StopAtBrace(p)
  \/ \E finish \in {"stop", "length"} : End(finish)

AnswerSpec == AnswerInit /\ [][AnswerNext]_answerVars

-----------------------------------------------------------------------------
(* Properties *)

Used == outcome.kind = "object"

Member(m, members) == \E i \in 1..Len(members) : members[i] = m

\* Nothing that was cut at the token limit is used: every member of the outcome
\* stands in an object that the LLM completed.
NothingCutIsUsed ==
  Used /\ outcome.finish = "length" =>
    \A i \in 1..Len(outcome.members) :
      \E from \in 1..Len(text) : Member(outcome.members[i], ObjectAt(Rest(text, from)).members)

\* An object at the start of the answer is used as it is, whatever follows it: the
\* repairs alter no complete answer, and what comes later replaces nothing.
FirstObjectIsKept ==
  outcome # Pending /\ ObjectAt(text).end # 0 =>
    /\ Used
    /\ \A i \in 1..Len(ObjectAt(text).members) : Member(ObjectAt(text).members[i], outcome.members)

\* The answer up to the first brace that closes, or all of it.
FirstPart == 1..Min({Len(text)} \cup {i \in Structural(text) : text[i] = "}"})

\* Where key is given a value there.
Given(key) ==
  {i \in Structural(text) \cap FirstPart :
     /\ text[i] = ":"
     /\ \E spelt \in {key, <<Quote>> \o key \o <<Quote>>} : IsSuffix(spelt, SubSeq(text, 1, i - 1))}

\* When the answer begins with its only object, a key that this object gives twice is
\* never answered with one of its values, whatever was repaired: no output of the LLM
\* is silently hidden.
NoValueHidden ==
  Used /\ Head(text) = "{" /\ Cardinality({i \in Structural(text) : text[i] = "{"}) = 1 =>
    \A i \in 1..Len(outcome.members) : Cardinality(Given(outcome.members[i].key)) = 1

\* A value that the stop sequence broke off inside a string is not used.
NoBrokenValue == inside => ~Used
=============================================================================
