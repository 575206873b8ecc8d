--------------------------- MODULE StreamResponse ---------------------------
(***************************************************************************)
(* Proxy.StreamResponse: the upstream event stream translated, one event   *)
(* at a time, into the SSE frames of an OpenAI chat completion.            *)
(***************************************************************************)
EXTENDS CCEvents

VARIABLES
    streamPc,         \* "select" (is the client there?), "read", "returned"
    sentRole,         \* locals of StreamResponse
    toolCallIndex,
    toolCallIndexes,
    finishSent,
    sawToolCalls,
    frames            \* what has been written to the client

streamVars == <<streamPc, sentRole, toolCallIndex, toolCallIndexes,
                finishSent, sawToolCalls, frames>>

InitStream ==
    /\ streamPc = "select"
    /\ sentRole = FALSE
    /\ toolCallIndex = 0
    /\ toolCallIndexes = [id \in Ids |-> None]
    /\ finishSent = FALSE
    /\ sawToolCalls = FALSE
    /\ frames = <<>>

\* Frames.  A tool frame without an id only adds arguments to its index.
TextFrame(type, role, text) == [kind |-> type, role |-> role, text |-> text]
ToolFrame(role, index, id, args) ==
    [kind |-> "tool", role |-> role, index |-> index, id |-> id, args |-> args]
FinishFrame(reason) == [kind |-> "finish", reason |-> reason]
ErrorFrame(class) == [kind |-> "error", class |-> class]
UsageFrame == [kind |-> "usage"]
DoneFrame == [kind |-> "done"]

write(fs) == frames' = frames \o fs

Known(id) == toolCallIndexes[id] # None

Allocate(id) ==
    /\ toolCallIndexes' = [toolCallIndexes EXCEPT ![id] = toolCallIndex]
    /\ toolCallIndex' = toolCallIndex + 1

\* The role goes out with the first delta that has room for it.
RoleAlways == sentRole' = FALSE

SendRole == sentRole' = TRUE

onText(e) ==
    /\ e.type \in TextTypes
    /\ write(<<TextFrame(e.type, ~sentRole, e.text)>>)
    /\ SendRole
    /\ UNCHANGED <<toolCallIndex, toolCallIndexes, finishSent, sawToolCalls>>

\* Announce a call that has no index yet.
Announce(id, args) ==
    /\ Allocate(id)
    /\ sawToolCalls' = TRUE
    /\ write(<<ToolFrame(~sentRole, toolCallIndex, id, args)>>)
    /\ SendRole
    /\ UNCHANGED finishSent

onToolUseUnregistered(e) ==
    /\ e.type = "tool-use"
    /\ toolCallIndex' = toolCallIndex + 1
    /\ sawToolCalls' = TRUE
    /\ write(<<ToolFrame(~sentRole, toolCallIndex, e.id, <<>>)>>)
    /\ SendRole
    /\ UNCHANGED <<toolCallIndexes, finishSent>>

onToolUse(e) ==
    /\ e.type = "tool-use"
    /\ \/ Known(e.id) /\ UNCHANGED <<sentRole, toolCallIndex, toolCallIndexes, finishSent, sawToolCalls, frames>>
       \/ ~Known(e.id) /\ Announce(e.id, <<>>)

\* Fragments of the old dialect belong to the call announced last.
onToolDelta(e) ==
    /\ e.type = "tool-delta"
    /\ write(<<ToolFrame(FALSE, toolCallIndex - 1, None, e.text)>>)
    /\ UNCHANGED <<sentRole, toolCallIndex, toolCallIndexes, finishSent, sawToolCalls>>

onToolInputStart(e) ==
    /\ e.type = "tool-input-start"
    /\ \/ ~Known(e.id) /\ Announce(e.id, <<>>)
       \/ /\ Known(e.id)
          /\ sawToolCalls' = TRUE
          /\ write(<<ToolFrame(~sentRole, toolCallIndexes[e.id], e.id, <<>>)>>)
          /\ SendRole
          /\ UNCHANGED <<toolCallIndex, toolCallIndexes, finishSent>>

onToolInputDeltaToLast(e) ==
    /\ e.type = "tool-input-delta"
    /\ write(<<ToolFrame(FALSE, toolCallIndex - 1, None, e.text)>>)
    /\ UNCHANGED <<sentRole, toolCallIndex, toolCallIndexes, finishSent, sawToolCalls>>

onToolInputDelta(e) ==
    /\ e.type = "tool-input-delta"
    /\ \/ /\ Known(e.id)
          /\ write(<<ToolFrame(FALSE, toolCallIndexes[e.id], None, e.text)>>)
          /\ UNCHANGED <<toolCallIndex, toolCallIndexes>>
       \/ /\ ~Known(e.id)
          /\ Allocate(e.id)
          /\ write(<<ToolFrame(FALSE, toolCallIndex, None, e.text)>>)
    /\ UNCHANGED <<sentRole, finishSent, sawToolCalls>>

\* The aggregated call is skipped when its id has been announced.
onToolCall(e) ==
    /\ e.type = "tool-call"
    /\ \/ /\ Known(e.id)
          /\ sawToolCalls' = TRUE
          /\ UNCHANGED <<sentRole, toolCallIndex, toolCallIndexes, finishSent, frames>>
       \/ ~Known(e.id) /\ Announce(e.id, e.input)

normalizeFinishReason(reason) ==
    CASE reason = "tool-calls" -> "tool_calls"
      [] reason = "content-filter" -> "content_filter"
      [] reason = "length" -> "length"
      [] OTHER -> "stop"

MarkFinishLater == UNCHANGED finishSent

MarkFinish == finishSent' = TRUE

onFinish(e, includeUsage) ==
    /\ e.type = "finish"
    /\ write(<<FinishFrame(normalizeFinishReason(e.reason))>>
             \o (IF includeUsage THEN <<UsageFrame>> ELSE <<>>)
             \o <<DoneFrame>>)
    /\ MarkFinish
    /\ UNCHANGED <<sentRole, toolCallIndex, toolCallIndexes, sawToolCalls>>

onError(e) ==
    /\ e.type = "error"
    /\ write(<<ErrorFrame(e.class)>>)
    /\ UNCHANGED <<sentRole, toolCallIndex, toolCallIndexes, finishSent, sawToolCalls>>

\* Blank lines, lines that do not parse, framing events and unknown types.
onOther(e) ==
    /\ e.type = "other"
    /\ UNCHANGED <<sentRole, toolCallIndex, toolCallIndexes, finishSent, sawToolCalls, frames>>

\* The top of the loop: a client that has gone ends the translation.
streamSelect(clientGone) ==
    /\ streamPc = "select"
    /\ streamPc' = IF clientGone THEN "returned" ELSE "read"
    /\ UNCHANGED <<sentRole, toolCallIndex, toolCallIndexes, finishSent, sawToolCalls, frames>>

streamEvent(e, includeUsage) ==
    /\ streamPc = "read"
    /\ streamPc' = "select"
    /\ \/ onText(e) \/ onToolUse(e) \/ onToolDelta(e) \/ onToolInputStart(e)
       \/ onToolInputDelta(e) \/ onToolCall(e) \/ onFinish(e, includeUsage)
       \/ onError(e) \/ onOther(e)

\* End of file or a read error: close the protocol if no finish event did.
streamEnd ==
    /\ streamPc = "read"
    /\ streamPc' = "returned"
    /\ IF finishSent THEN UNCHANGED frames
       ELSE write(<<FinishFrame(IF sawToolCalls THEN "tool_calls" ELSE "stop"), DoneFrame>>)
    /\ UNCHANGED <<sentRole, toolCallIndex, toolCallIndexes, finishSent, sawToolCalls>>
=============================================================================
