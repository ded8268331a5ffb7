------------------------------ MODULE ModelCalls ------------------------------
(***************************************************************************)
(* giljobe.analysis.critic and transcriber, giljobe.llm: what a model is   *)
(* told of the measures and what is made of its answer.  A text is a       *)
(* sequence of tokens: brackets, ":" and ",", a quote, a backslash, "." a  *)
(* piece of a number or word that is none yet ("-", "0.", "tru"), "u" the  *)
(* beginning of an escape of several characters ("u12" behind a            *)
(* backslash), and "x" for anything else: what makes either whole, a       *)
(* character of a string.                                                  *)
(***************************************************************************)
EXTENDS Grounding, Prosody

CONSTANTS
  States,       \* NONVERBAL_STATES
  MaxLevel,     \* intensity 1.0
  MaxTail, MaxCritique, MaxObservations   \* how much of a list is kept: 2, 5, 8

ASSUME AnswerAssumption ==
  /\ "neutral" \in States /\ MaxLevel \in Nat
  /\ MaxTail \in Nat /\ MaxCritique \in Nat /\ MaxObservations \in Nat

Failed == [failed |-> TRUE]
Closer(b) == IF b = "{" THEN "}" ELSE "]"
Upto2(n, s) == SubSeq(s, 1, IF Len(s) < n THEN Len(s) ELSE n)

\* The scan of _repair_truncated_json: the closers that are owed, and whether
\* it ends in a string, or after a backslash in one.
ScanStep(s, ch) ==
  IF s.esc THEN [s EXCEPT !.esc = FALSE]
  ELSE IF s.str THEN [s EXCEPT !.esc = ch = "\\", !.str = ch # "\""]
  ELSE IF ch = "\"" THEN [s EXCEPT !.str = TRUE]
  ELSE IF ch \in {"{", "["} THEN [s EXCEPT !.owed = <<Closer(ch)>> \o @]
  ELSE IF ch \in {"}", "]"} /\ s.owed # <<>> THEN [s EXCEPT !.owed = Tail(@)]
  ELSE s

ScanStates(text) ==
  LET after[n \in 0..Len(text)] ==
        IF n = 0 THEN [owed |-> <<>>, str |-> FALSE, esc |-> FALSE] ELSE ScanStep(after[n - 1], text[n]) IN
  after

Scan(text) == ScanStates(text)[Len(text)]

\* Faulty variant: the brackets in the order they were opened.
OwedInOrder(s) == Reverse(s.owed)

Owed(s) == s.owed

\* rstrip(",")
NoCommas(text) == SubSeq(text, 1, SelectLastInSeq(text, LAMBDA ch : ch # ","))

\* What is parsed in the end: the string closed, a trailing comma dropped, a
\* missing value put in, and the brackets closed.
Repaired(text) ==
  LET s == Scan(text)
      closed == NoCommas(IF s.str THEN Append(text, "\"") ELSE text)
      valued == IF closed # <<>> /\ Last(closed) = ":" THEN Append(closed, "x") ELSE closed IN
  valued \o Owed(s)

-----------------------------------------------------------------------------
\* json.loads of an object (external): the contexts that are open, and what may
\* come next in the innermost.
ParseStep(p, ch) ==
  LET value == p.next \in {"value", "value or ]"}
      closes == IF Len(p.open) = 1 THEN "end" ELSE ", or }"
      after == [p EXCEPT !.next = ", or }"] IN
  CASE p.next \in {"escaped", "escaped key"} /\ ch = "u" ->
         [p EXCEPT !.next = IF @ = "escaped" THEN "unicode" ELSE "unicode key"]
    [] \/ p.next = "escaped" /\ ch \in {"\"", "\\", "x"}
       \/ p.next = "unicode" /\ ch = "x" -> [p EXCEPT !.next = "string"]
    [] \/ p.next = "escaped key" /\ ch \in {"\"", "\\", "x"}
       \/ p.next = "unicode key" /\ ch = "x" -> [p EXCEPT !.next = "key string"]
    [] p.next = "string" /\ ch # "\"" -> IF ch = "\\" THEN [p EXCEPT !.next = "escaped"] ELSE p
    [] p.next = "key string" /\ ch # "\"" -> IF ch = "\\" THEN [p EXCEPT !.next = "escaped key"] ELSE p
    [] p.next = "string" /\ ch = "\"" -> after
    [] p.next = "key string" /\ ch = "\"" -> [p EXCEPT !.next = ":"]
    [] ch = "\"" /\ p.next \in {"key", "key or }"} -> [p EXCEPT !.next = "key string"]
    [] ch = "\"" /\ value -> [p EXCEPT !.next = "string"]
    [] ch = "." /\ (value \/ p.next = "literal") -> [p EXCEPT !.next = "literal"]
    [] ch = "x" /\ (value \/ p.next = "literal") -> after
    [] ch = ":" /\ p.next = ":" -> [p EXCEPT !.next = "value"]
    [] ch = "," /\ p.next = ", or }" -> [p EXCEPT !.next = IF p.open[1] = "{" THEN "key" ELSE "value"]
    [] ch = "{" /\ (value \/ p.next = "start") -> [open |-> <<"{">> \o p.open, next |-> "key or }"]
    [] ch = "[" /\ value -> [open |-> <<"[">> \o p.open, next |-> "value or ]"]
    [] ch = "}" /\ p.open # <<>> /\ p.open[1] = "{" /\ p.next \in {", or }", "key or }"} ->
         [open |-> Tail(p.open), next |-> closes]
    [] ch = "]" /\ p.open # <<>> /\ p.open[1] = "[" /\ p.next \in {", or }", "value or ]"} ->
         [open |-> Tail(p.open), next |-> closes]
    [] OTHER -> [p EXCEPT !.next = "error"]

ParseStates(text) ==
  LET after[n \in 0..Len(text)] ==
        IF n = 0 THEN [open |-> <<>>, next |-> "start"] ELSE ParseStep(after[n - 1], text[n]) IN
  after

Parse(text) == ParseStates(text)[Len(text)]
Valid(text) == Parse(text).next = "end"

\* _extract_json, <<>> when it raises: the text, or what lies between the first "{" and the last
\* "}", or the repair of what starts at the first "{".
Between(text) ==
  LET from == SelectInSeq(text, LAMBDA ch : ch = "{")
      to == SelectLastInSeq(text, LAMBDA ch : ch = "}") IN
  IF from = 0 \/ to < from THEN <<>> ELSE SubSeq(text, from, to)

ExtractJson(text) ==
  LET from == SelectInSeq(text, LAMBDA ch : ch = "{")
      repaired == IF from = 0 THEN <<>> ELSE Repaired(SubSeq(text, from, Len(text))) IN
  IF Valid(text) THEN text
  ELSE IF Valid(Between(text)) THEN Between(text)
  ELSE IF Valid(repaired) THEN repaired
  ELSE <<>>

-----------------------------------------------------------------------------
\* grounding_block: the sections a prompt is given, the rules only with one.
GroundingBlock(vision, prosody) ==
  LET section(name, lines) == IF lines = {} THEN {} ELSE {[section |-> name, lines |-> lines]}
      all == section("vision", IF vision = None THEN {} ELSE DescribeVisual(vision).lines)
             \union section("prosody", IF prosody = None THEN {} ELSE DescribeVocal(prosody)) IN
  IF all = {} THEN {} ELSE all \union {[section |-> "rules", lines |-> {"rules"}]}

\* An answer's object, once it is parsed: its values by key, each with its
\* type.  A key that is not there has the default.
Value(data, key, default) == IF key \in DOMAIN data THEN data[key] ELSE default

\* float() of a value, and what it is clamped to: text that is a number is one,
\* NaN compares as not less, and what is no number is 0.
Clamped(v) ==
  IF v.is \notin {"number", "NaN"} THEN 0
  ELSE IF v.is = "NaN" THEN MaxLevel
  ELSE IF v.n < 0 THEN 0 ELSE IF v.n > MaxLevel THEN MaxLevel ELSE v.n

\* read_nonverbal: a state that is not one is neutral.
ReadNonverbal(data) ==
  LET state == Value(data, "state", [is |-> "text", of |-> <<"neutral">>]) IN
  [state |-> IF state.is = "text" /\ state.of \in {<<s>> : s \in States} THEN state.of[1] ELSE "neutral",
   intensity |-> Clamped(Value(data, "intensity", [is |-> "number", n |-> 0]))]

\* What a loop over a value runs through: the items of a list, or the
\* characters of a text; anything else raises.
Iterable(v) == v.is \in {"list", "text"}

\* evaluate_window: of a compact answer the summary and the critique.
EvaluateWindow(data, compact) ==
  LET critique == Value(data, "critique", [is |-> "list", of |-> <<>>])
      seen == Value(data, "key_observations", [is |-> "list", of |-> <<>>])
      summary == Value(data, "summary", [is |-> "text", of |-> <<>>]) IN
  IF ~Iterable(critique) \/ (~compact /\ ~Iterable(seen)) THEN Failed
  ELSE [compact |-> compact,
        critique |-> Upto2(IF compact THEN MaxTail ELSE MaxCritique, critique.of),
        key_observations |->
          IF ~compact THEN Upto2(MaxObservations, seen.of)
          ELSE IF summary = [is |-> "text", of |-> <<>>] THEN <<>> ELSE <<summary>>]

\* GemmaNativeTranscriber and FasterWhisperTranscriber: without pcm there is
\* nothing to transcribe.
Transcriber(pcm, answer) == IF pcm = <<>> THEN [text |-> <<>>] ELSE answer

\* FallbackTranscriber.transcribe: the second is asked only when the first
\* raises, and what it raises is raised.
Transcribe(primary, fallback) == IF primary = Failed THEN fallback ELSE primary

\* iter_sse_delta_text: how many deltas come before [DONE]; a line that is no
\* event, cannot be parsed, or has no content is passed over.
Deltas(lines) ==
  Cardinality({i \in 1..Len(lines) : lines[i] = "delta" /\ \A j \in 1..(i - 1) : lines[j] # "done"})
=============================================================================
