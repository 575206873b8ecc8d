-------------------------- MODULE NonStreamResponse --------------------------
(***************************************************************************)
(* Proxy.NonStreamResponse: the same upstream events as StreamResponse,    *)
(* collected into one JSON completion or one HTTP error.                   *)
(***************************************************************************)
EXTENDS CCEvents

VARIABLES
    content,          \* locals of NonStreamResponse
    reasoning,
    tokens,           \* inputTokens/outputTokens: has usage been reported?
    hasToolCalls,
    toolCalls,
    toolCallByID,
    upstreamErrMsg,   \* the class of the first error
    response          \* what has been written to the client

collectVars == <<content, reasoning, tokens, hasToolCalls, toolCalls,
                 toolCallByID, upstreamErrMsg, response>>

InitCollect ==
    /\ content = <<>>
    /\ reasoning = <<>>
    /\ tokens = FALSE
    /\ hasToolCalls = FALSE
    /\ toolCalls = <<>>
    /\ toolCallByID = [id \in Ids |-> None]
    /\ upstreamErrMsg = None
    /\ response = None

collectText(e) ==
    /\ \/ /\ e.type = "reasoning-delta"
          /\ reasoning' = reasoning \o e.text
          /\ UNCHANGED content
       \/ /\ e.type = "text-delta"
          /\ content' = content \o e.text
          /\ UNCHANGED reasoning
    /\ UNCHANGED <<tokens, hasToolCalls, toolCalls, toolCallByID, upstreamErrMsg>>

Opened(id, args) ==
    /\ toolCallByID' = [toolCallByID EXCEPT ![id] = Len(toolCalls) + 1]
    /\ toolCalls' = Append(toolCalls, [id |-> id, args |-> args])

collectStart(e) ==
    /\ e.type \in StartTypes
    /\ hasToolCalls' = TRUE
    /\ Opened(e.id, <<>>)
    /\ UNCHANGED <<content, reasoning, tokens, upstreamErrMsg>>

ToFirst(k, text) == toolCalls' = [toolCalls EXCEPT ![1].args = @ \o text]

AddArgs(k, text) == toolCalls' = [toolCalls EXCEPT ![k].args = @ \o text]

collectToolDelta(e) ==
    /\ e.type = "tool-delta"
    /\ \/ Len(toolCalls) > 0 /\ AddArgs(Len(toolCalls), e.text)
       \/ Len(toolCalls) = 0 /\ UNCHANGED toolCalls
    /\ UNCHANGED <<content, reasoning, tokens, hasToolCalls, toolCallByID, upstreamErrMsg>>

collectInputDelta(e) ==
    /\ e.type = "tool-input-delta"
    /\ \/ toolCallByID[e.id] # None /\ AddArgs(toolCallByID[e.id], e.text)
       \/ toolCallByID[e.id] = None /\ UNCHANGED toolCalls
    /\ UNCHANGED <<content, reasoning, tokens, hasToolCalls, toolCallByID, upstreamErrMsg>>

\* The aggregated input, when there is one, replaces what was collected.
collectToolCall(e) ==
    /\ e.type = "tool-call"
    /\ hasToolCalls' = TRUE
    /\ \/ toolCallByID[e.id] = None /\ Opened(e.id, e.input)
       \/ /\ toolCallByID[e.id] # None
          /\ toolCalls' = IF e.input = <<>> THEN toolCalls
                          ELSE [toolCalls EXCEPT ![toolCallByID[e.id]].args = e.input]
          /\ UNCHANGED toolCallByID
    /\ UNCHANGED <<content, reasoning, tokens, upstreamErrMsg>>

collectFinish(e) ==
    /\ e.type = "finish"
    /\ tokens' = TRUE
    /\ UNCHANGED <<content, reasoning, hasToolCalls, toolCalls, toolCallByID, upstreamErrMsg>>

LastError(e) == upstreamErrMsg' = e.class

FirstError(e) ==
    upstreamErrMsg' = IF upstreamErrMsg = None THEN e.class ELSE upstreamErrMsg

collectError(e) ==
    /\ e.type = "error"
    /\ FirstError(e)
    /\ UNCHANGED <<content, reasoning, tokens, hasToolCalls, toolCalls, toolCallByID>>

collectOther(e) ==
    /\ e.type = "other"
    /\ UNCHANGED <<content, reasoning, tokens, hasToolCalls, toolCalls,
                   toolCallByID, upstreamErrMsg>>

collectEvent(e) ==
    /\ response = None
    /\ \/ collectText(e) \/ collectStart(e) \/ collectToolDelta(e)
       \/ collectInputDelta(e) \/ collectToolCall(e) \/ collectFinish(e)
       \/ collectError(e) \/ collectOther(e)
    /\ UNCHANGED response

Failure == [status |-> IF upstreamErrMsg = "api_error" THEN 502 ELSE 429,
            type   |-> upstreamErrMsg]

Success == [status    |-> 200,
            content   |-> IF hasToolCalls THEN <<>> ELSE content,
            reasoning |-> reasoning,
            toolCalls |-> toolCalls,
            reason    |-> IF hasToolCalls THEN "tool_calls" ELSE "stop",
            usage     |-> tokens]

\* End of file and a read error alike.
collectEnd ==
    /\ response = None
    /\ response' = IF upstreamErrMsg # None THEN Failure ELSE Success
    /\ UNCHANGED <<content, reasoning, tokens, hasToolCalls, toolCalls,
                   toolCallByID, upstreamErrMsg>>
=============================================================================
