------------------------------- MODULE Convert -------------------------------
(***************************************************************************)
(* convert.go: OpenAI messages and tools become CommandCode messages and   *)
(* tools.                                                                  *)
(*                                                                         *)
(* Text is a sequence of tokens.  An id or a name that is absent or "" is  *)
(* Nil; strPtr makes the field of an empty string absent, so Nil is also   *)
(* what upstream gets.  A message of the client is                         *)
(*     [role, content, calls, id, name, aside]                             *)
(* where aside is what it says in fields that no function here reads, its  *)
(* refusal and reasoning_content.  Content is of kind "null", "string",    *)
(* "parts" or "other" (any other JSON value, its text the JSON); calls are *)
(* tool_calls.  A part has a type, the text contentPartToString makes of   *)
(* it (for a result: of its content), and an id, a name and an input that  *)
(* are Nil where they have no meaning.  The types that are only spelt      *)
(* differently ("tool_use" and "tool-call", the nine kinds of text) are    *)
(* "call", "result" and "text"; an "image" has its URL as text; "unknown"  *)
(* is any other type, and with an empty text an element that is no object. *)
(***************************************************************************)
EXTENDS SequencesExt

CONSTANTS
    Words,      \* the tokens of texts; the newline put between two is none
    Nil

OrElse(a, b) == IF a # Nil THEN a ELSE b

\* SelectSeq in terms of FlattenSeq, of which SequenceLemmas tells what proofs need.
Keep(s, Test(_)) == FlattenSeq([i \in DOMAIN s |-> IF Test(s[i]) THEN <<s[i]>> ELSE <<>>])

-----------------------------------------------------------------------------
(* Text and tool input *)

contentToString(content) ==
    IF content.kind = "parts"
      THEN FlattenSeq([i \in 1..Len(content.parts) |-> content.parts[i].text])
      ELSE content.text

parseToolInput(arguments) ==
    CASE arguments = "" -> "{}"
      [] arguments = "not json" -> "{arguments}"
      [] OTHER -> arguments

outputType(text) == IF text # <<>> /\ text[1] = "Error:" THEN "error-text" ELSE "text"

-----------------------------------------------------------------------------
(* Parts of upstream messages *)

textPart(text) == [type |-> "text", text |-> text]

callPart(id, name, input) ==
    [type |-> "tool-call", id |-> id, name |-> name, input |-> input]

resultPart(id, name, text) ==
    [type |-> "tool-result", id |-> id, name |-> OrElse(name, "unknown"),
     output |-> outputType(text), text |-> text]

\* toolNames is represented by the calls it was made from: a later one of the
\* same id replaces an earlier one, and one without a name is not entered.
ForgetName(calls, id) == Nil

nameOf(calls, id) ==
    LET named == { i \in DOMAIN calls : calls[i].id = id /\ calls[i].name # Nil }
    IN  IF id = Nil \/ named = {} THEN Nil ELSE calls[Max(named)].name

callsAmong(parts) == Keep(parts, LAMBDA p : p.type = "call")

callsIn(content) == IF content.kind = "parts" THEN callsAmong(content.parts) ELSE <<>>

\* What parseContent makes of a part when the names of calls are known.
parsePart(part, calls) ==
    CASE part.type \in {"text", "image"} /\ part.text # <<>> -> <<textPart(part.text)>>
      [] part.type = "call" -> <<callPart(part.id, part.name, part.input)>>
      [] part.type = "result" ->
           <<resultPart(part.id, OrElse(part.name, nameOf(calls, part.id)), part.text)>>
      [] OTHER -> <<>>

\* To a part the names of the calls before it are known.
parseContent(content, calls) ==
    CASE content.kind = "parts" ->
           FlattenSeq([i \in DOMAIN content.parts |->
               parsePart(content.parts[i], calls \o callsAmong(SubSeq(content.parts, 1, i - 1)))])
      [] content.kind # "parts" /\ content.text # <<>> -> <<textPart(content.text)>>
      [] OTHER -> <<>>

LeaveEmpty(parts) == parts

\* Upstream refuses a message without parts.
normalizeContent(parts) == IF parts = <<>> THEN <<textPart(<<>>)>> ELSE parts

-----------------------------------------------------------------------------
(* Messages *)

Called(call) == callPart(call.id, call.name, parseToolInput(call.arguments))

AddAgain(parts, calls) == parts \o [i \in DOMAIN calls |-> Called(calls[i])]

\* A call of tool_calls is added unless the parts have one of its id, or an earlier
\* one has its id, "" included.
AddCalls(parts, calls) ==
    LET calling == { p \in ToSet(parts) : p.type = "tool-call" }
        Added(i) == ({ p.id : p \in calling } \ {Nil}) \union { calls[j].id : j \in 1..(i - 1) }
    IN  parts \o FlattenSeq([i \in DOMAIN calls |->
            IF calls[i].id \in Added(i) THEN <<>> ELSE <<Called(calls[i])>>])

\* calls are those of the messages before m.
convertMessage(m, calls) ==
    LET known  == calls \o m.calls
        parsed == parseContent(m.content, known)
    IN  [ role    |-> m.role,
          content |->
            CASE m.role = "tool" ->
                   <<resultPart(m.id, OrElse(m.name, nameOf(known, m.id)), contentToString(m.content))>>
              [] m.role = "assistant" -> normalizeContent(AddCalls(parsed, m.calls))
              [] OTHER -> normalizeContent(parsed) ]

\* The calls whose names a message enters; the parts of a tool's are not parsed.
callsOf(m) == m.calls \o (IF m.role = "tool" THEN <<>> ELSE callsIn(m.content))

callsBefore(msgs, i) == FlattenSeq([j \in 1..(i - 1) |-> callsOf(msgs[j])])

ConvertMessages(msgs) ==
    [i \in 1..Len(msgs) |-> convertMessage(msgs[i], callsBefore(msgs, i))]

\* Tools without a name are left out; the shapes and schemas do not matter here.
ConvertTools(tools) == Keep(tools, LAMBDA name : name # Nil)

IsSystem(m) == m.role = "system"

\* A text is put on a new line unless nothing was said before it.
systemLine(msgs, i) ==
    (IF \A j \in 1..(i - 1) : contentToString(msgs[j].content) = <<>> THEN <<>> ELSE <<"\n">>)
    \o contentToString(msgs[i].content)

linesOf(msgs) == FlattenSeq([i \in DOMAIN msgs |-> systemLine(msgs, i)])

systemText(msgs) == linesOf(Keep(msgs, IsSystem))

ExtractSystem(msgs) ==
    [system |-> systemText(msgs), rest |-> Keep(msgs, LAMBDA m : ~IsSystem(m))]
=============================================================================
