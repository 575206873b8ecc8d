---------------------------- MODULE ResponseModes ----------------------------
(***************************************************************************)
(* One upstream answer read twice: by StreamResponse, whose client may go  *)
(* away, and by NonStreamResponse.  The upstream speaks the three dialects *)
(* of tool calls the proxy handles and may fall silent after any event:    *)
(*   old         tool-use(id) tool-delta* [tool-call(id, input)]           *)
(*   streamed    tool-input-start(id) tool-input-delta(id)* tool-call(id)  *)
(*   aggregated  tool-call(id, input)                                      *)
(* Streamed calls may interleave; an old one ends when another call opens. *)
(* A tool-call for an announced id repeats the arguments already sent.     *)
(***************************************************************************)
EXTENDS StreamResponse, NonStreamResponse, FiniteSets, SequencesExt

CONSTANTS MaxEvents,      \* bound on the events of an answer
          ArgsAreStreamed \* an announced call has sent arguments before its tool-call

ASSUME BoundAssumption ==
    MaxEvents \in Nat /\ ArgsAreStreamed \in BOOLEAN /\ IsFiniteSet(Ids)

VARIABLES
    said,         \* number of events so far, and the token of the next
    dialect,      \* by id: "new", "old", "streamed", "called"
    meant,        \* what the upstream meant: the text and calls it produced
    errors,       \* classes of the errors it reported
    finished,     \* it has sent its finish event
    ended,        \* "no", "eof", "dropped"
    includeUsage, \* stream_options.include_usage of the streaming client
    gone          \* the streaming client has gone away

vars == <<streamVars, collectVars, said, dialect, meant, errors, finished,
          ended, includeUsage, gone>>

Init ==
    /\ InitStream
    /\ InitCollect
    /\ said = 0
    /\ dialect = [id \in Ids |-> "new"]
    /\ meant = [text |-> <<>>, reasoning |-> <<>>, calls |-> <<>>]
    /\ errors = <<>>
    /\ finished = FALSE
    /\ ended = "no"
    /\ includeUsage \in BOOLEAN
    /\ gone = FALSE

\* Both handlers read the event; one that has returned reads no more.
Say(e) ==
    /\ ended = "no" /\ said < MaxEvents
    /\ finished => e.type = "other"
    /\ said' = said + 1
    /\ \/ streamEvent(e, includeUsage)
       \/ streamPc = "returned" /\ UNCHANGED streamVars
    /\ collectEvent(e)
    /\ UNCHANGED <<ended, includeUsage, gone>>

token == <<said + 1>>

Position(id) == CHOOSE k \in DOMAIN meant.calls : meant.calls[k].id = id
Args(id) == meant.calls[Position(id)].args
Opens(id, args) == meant' = [meant EXCEPT !.calls = Append(@, [id |-> id, args |-> args])]
Extends(id) == meant' = [meant EXCEPT !.calls[Position(id)].args = @ \o token]

SayText ==
    /\ Say([type |-> "text-delta", text |-> token])
    /\ meant' = [meant EXCEPT !.text = @ \o token]
    /\ UNCHANGED <<dialect, errors, finished>>

SayReasoning ==
    /\ Say([type |-> "reasoning-delta", text |-> token])
    /\ meant' = [meant EXCEPT !.reasoning = @ \o token]
    /\ UNCHANGED <<dialect, errors, finished>>

SayToolUse(id) ==
    /\ dialect[id] = "new"
    /\ Say([type |-> "tool-use", id |-> id])
    /\ Opens(id, <<>>)
    /\ dialect' = [dialect EXCEPT ![id] = "old"]
    /\ UNCHANGED <<errors, finished>>

SayToolDelta(id) ==
    /\ dialect[id] = "old"
    /\ Position(id) = Len(meant.calls)
    /\ Say([type |-> "tool-delta", text |-> token])
    /\ Extends(id)
    /\ UNCHANGED <<dialect, errors, finished>>

SayToolInputStart(id) ==
    /\ dialect[id] = "new"
    /\ Say([type |-> "tool-input-start", id |-> id])
    /\ Opens(id, <<>>)
    /\ dialect' = [dialect EXCEPT ![id] = "streamed"]
    /\ UNCHANGED <<errors, finished>>

SayToolInputDelta(id) ==
    /\ dialect[id] = "streamed"
    /\ Say([type |-> "tool-input-delta", id |-> id, text |-> token])
    /\ Extends(id)
    /\ UNCHANGED <<dialect, errors, finished>>

SayAggregated(id) ==
    /\ dialect[id] = "new"
    /\ Say([type |-> "tool-call", id |-> id, input |-> token])
    /\ Opens(id, token)
    /\ dialect' = [dialect EXCEPT ![id] = "called"]
    /\ UNCHANGED <<errors, finished>>

\* The input of a call is an object, never nothing, even if it has no fields.
SayToolCall(id) ==
    /\ dialect[id] \in {"old", "streamed"}
    /\ \/ /\ Args(id) # <<>>
          /\ Say([type |-> "tool-call", id |-> id, input |-> Args(id)])
          /\ UNCHANGED meant
       \/ /\ Args(id) = <<>> /\ ~ArgsAreStreamed
          /\ Say([type |-> "tool-call", id |-> id, input |-> token])
          /\ Extends(id)
    /\ dialect' = [dialect EXCEPT ![id] = "called"]
    /\ UNCHANGED <<errors, finished>>

SayError(class) ==
    /\ Say([type |-> "error", class |-> class])
    /\ errors' = Append(errors, class)
    /\ UNCHANGED <<dialect, meant, finished>>

SayFinish(reason) ==
    /\ Say([type |-> "finish", reason |-> reason])
    /\ finished' = TRUE
    /\ UNCHANGED <<dialect, meant, errors>>

SayOther ==
    /\ Say([type |-> "other"])
    /\ UNCHANGED <<dialect, meant, errors, finished>>

\* The stream ends: the server closed it, or the connection failed under it.
End(how) ==
    /\ ended = "no"
    /\ ended' = how
    /\ streamEnd \/ (streamPc = "returned" /\ UNCHANGED streamVars)
    /\ collectEnd
    /\ UNCHANGED <<said, dialect, meant, errors, finished, includeUsage, gone>>

Select ==
    /\ streamSelect(gone)
    /\ UNCHANGED <<collectVars, said, dialect, meant, errors, finished, ended,
                   includeUsage, gone>>

ClientGone ==
    /\ ~gone
    /\ gone' = TRUE
    /\ UNCHANGED <<streamVars, collectVars, said, dialect, meant, errors, finished,
                   ended, includeUsage>>

Next ==
    \/ Select \/ ClientGone
    \/ SayText \/ SayReasoning \/ SayOther
    \/ \E id \in Ids : \/ SayToolUse(id) \/ SayToolDelta(id)
                       \/ SayToolInputStart(id) \/ SayToolInputDelta(id)
                       \/ SayAggregated(id) \/ SayToolCall(id)
    \/ \E class \in Classes : SayError(class)
    \/ \E reason \in Reasons : SayFinish(reason)
    \/ \E how \in {"eof", "dropped"} : End(how)

Spec == Init /\ [][Next]_vars

-----------------------------------------------------------------------------
(* What an OpenAI client makes of the frames *)

Kinds == [k \in DOMAIN frames |-> frames[k].kind]
Count(kind) == Cardinality({k \in DOMAIN frames : frames[k].kind = kind})

DeltaKinds == TextTypes \union {"tool"}

\* What the frames with a part in it add up to.
TextOf(fs, kind) ==
    FlattenSeq([k \in DOMAIN fs |-> IF fs[k].kind = kind THEN fs[k].text ELSE <<>>])
ErrorsOf(fs) ==
    FlattenSeq([k \in DOMAIN fs |-> IF fs[k].kind = "error" THEN <<fs[k].class>> ELSE <<>>])

\* The calls a client assembles by index, in the order of the indexes.
ToolFrames == {k \in DOMAIN frames : frames[k].kind = "tool"}
Indexes == {frames[k].index : k \in ToolFrames}
ClientIds(index) == {frames[k].id : k \in {j \in ToolFrames : frames[j].index = index}} \ {None}
ArgsOf(fs, index) ==
    FlattenSeq([k \in DOMAIN fs |-> IF fs[k].kind = "tool" /\ fs[k].index = index
                                    THEN fs[k].args ELSE <<>>])
ClientArgs(index) == ArgsOf(frames, index)

Closing ==
    <<"finish">> \o (IF finished /\ includeUsage THEN <<"usage">> ELSE <<>>) \o <<"done">>

StreamIsLive == streamPc # "returned" \/ Count("done") > 0

-----------------------------------------------------------------------------
(* Properties *)

\* Every variable has its type.
TypeOK ==
    /\ streamPc \in {"select", "read", "returned"}
    /\ sentRole \in BOOLEAN
    /\ toolCallIndex \in 0..Cardinality(Ids)
    /\ toolCallIndexes \in [Ids -> (0..Cardinality(Ids)) \union {None}]
    /\ finishSent \in BOOLEAN /\ sawToolCalls \in BOOLEAN
    /\ toolCallByID \in [Ids -> (1..Cardinality(Ids)) \union {None}]
    /\ Len(toolCalls) <= Cardinality(Ids)
    /\ upstreamErrMsg \in Classes \union {None}
    /\ said \in 0..MaxEvents
    /\ dialect \in [Ids -> {"new", "old", "streamed", "called"}]
    /\ ended \in {"no", "eof", "dropped"}

\* README step 5, "always terminated with finish_reason + [DONE]": wherever the
\* upstream stops, before or after its finish and in the middle of calls, texts and
\* errors, a stream whose client is there ends in one finish, then the usage if
\* asked for and known, then one DONE.  (It sends at most one finish event, and
\* nothing but framing after it.)
StreamIsClosed ==
    /\ Count("done") <= 1 /\ Count("finish") <= 1
    /\ Count("done") = 1 => IsSuffix(Closing, Kinds)
    /\ streamPc = "returned" /\ ~gone => Count("done") = 1

\* The role is announced by the first delta of a stream and by no other.
RoleOnce ==
    \A k \in DOMAIN frames : frames[k].kind \in DeltaKinds =>
        (frames[k].role <=> \A j \in 1..(k - 1) : frames[j].kind \notin DeltaKinds)

\* By index, a client assembles exactly the calls the upstream meant: dense
\* indexes in the order of announcement, one id each, and no fragment of one
\* call's arguments in another's, whichever dialects are mixed.  (The upstream
\* announces an id once.)
CallsReassemble ==
    StreamIsLive /\ ~gone =>
        /\ Indexes = {k - 1 : k \in DOMAIN meant.calls}
        /\ \A k \in DOMAIN meant.calls :
              /\ ClientIds(k - 1) = {meant.calls[k].id}
              /\ ClientArgs(k - 1) = meant.calls[k].args

\* Both modes tell the same story: the same calls with the same arguments, the
\* same reasoning, and the same text (the collected message of a call has none).
\* The finish_reason is not compared, and the upstream announces an id once.
ModesAgree ==
    (response # None /\ response.status = 200 /\ streamPc = "returned" /\ ~gone) =>
        /\ response.reasoning = TextOf(frames, "reasoning-delta")
        /\ response.content = IF Indexes = {} THEN TextOf(frames, "text-delta") ELSE <<>>
        /\ Cardinality(Indexes) = Len(response.toolCalls)
        /\ \A k \in DOMAIN response.toolCalls :
              /\ ClientIds(k - 1) = {response.toolCalls[k].id}
              /\ ClientArgs(k - 1) = response.toolCalls[k].args

\* README step 5, "upstream errors surface as HTTP errors": an error event,
\* first or last, before or after content, reaches the clients of both modes;
\* a collected answer is classed by the first, a stream shows every one.
ErrorSurfaces ==
    /\ response # None /\ errors # <<>> =>
          /\ response.status = IF errors[1] = "api_error" THEN 502 ELSE 429
          /\ response.type = errors[1]
    /\ ~gone => ErrorsOf(frames) = errors

\* The comment before the collected error: never "an HTTP 200 holding an empty
\* message and zero usage"; README step 5: "never as fake successes".
NoFakeSuccess ==
    response # None /\ response.status = 200 =>
        ~ /\ ended = "dropped"
          /\ response.content = <<>> /\ response.reasoning = <<>>
          /\ response.toolCalls = <<>> /\ ~response.usage
=============================================================================
