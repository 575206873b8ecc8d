--------------------------- MODULE ResponseProofs ---------------------------
(***************************************************************************)
(* ResponseModes for every number of events and set of ids: what the two   *)
(* handlers have made of the answer is, at each of its events, what the    *)
(* upstream has said up to there.                                          *)
(***************************************************************************)
EXTENDS ResponseModes, SequenceLemmas, FiniteSetTheorems, TLAPS

Tokens == Seq(Nat)
Calls == [id : Ids, args : Tokens]

TextFrames == [kind : TextTypes, role : BOOLEAN, text : Tokens]
ToolFramesOf == [kind : {"tool"}, role : BOOLEAN, index : Nat, id : Ids \union {None}, args : Tokens]
FinishFrames == [kind : {"finish"}, reason : {"tool_calls", "content_filter", "length", "stop"}]
ErrorFrames == [kind : {"error"}, class : Classes]
BodyFrames == TextFrames \union ToolFramesOf \union ErrorFrames
ClosingFrames == FinishFrames \union {UsageFrame, DoneFrame}
Frames == BodyFrames \union ClosingFrames

(***************************************************************************)
(* The stream is followed to the end of the answer: it has not returned    *)
(* because its client had gone.                                            *)
(***************************************************************************)
Followed == streamPc # "returned" \/ ~gone

Typed ==
    /\ streamPc \in {"select", "read", "returned"} /\ ended \in {"no", "eof", "dropped"}
    /\ sentRole \in BOOLEAN /\ finishSent \in BOOLEAN /\ sawToolCalls \in BOOLEAN
    /\ finished \in BOOLEAN /\ includeUsage \in BOOLEAN /\ gone \in BOOLEAN
    /\ said \in 0..MaxEvents
    /\ dialect \in [Ids -> {"new", "old", "streamed", "called"}]
    /\ meant \in [text : Tokens, reasoning : Tokens, calls : Seq(Calls)]
    /\ errors \in Seq(Classes)
    /\ frames \in Seq(Frames)
    /\ toolCallIndex \in Nat /\ toolCallIndexes \in [Ids -> Nat \union {None}]
    /\ toolCallByID \in [Ids -> Nat \union {None}]

(* Where the two handlers are in the answer.                               *)
InStep ==
    /\ streamPc = "returned" /\ ended = "no" => gone
    /\ ended # "no" => streamPc = "returned"
    /\ streamPc # "returned" => finishSent = finished

(* What NonStreamResponse has collected is what was meant.                 *)
Collected ==
    /\ content = meant.text /\ reasoning = meant.reasoning /\ toolCalls = meant.calls
    /\ hasToolCalls = (meant.calls # <<>>)
    /\ upstreamErrMsg = IF errors = <<>> THEN None ELSE errors[1]
    /\ response # None =>
          ended # "no" /\ response = IF upstreamErrMsg # None THEN Failure ELSE Success

(* Calls are numbered in the order in which they are announced.            *)
Numbered ==
    /\ \A id \in Ids : toolCallByID[id] = None <=> dialect[id] = "new"
    /\ \A id \in Ids : toolCallByID[id] # None =>
          toolCallByID[id] \in DOMAIN meant.calls /\ meant.calls[toolCallByID[id]].id = id
    /\ \A k \in DOMAIN meant.calls : toolCallByID[meant.calls[k].id] = k

(* The stream numbers them from 0, as long as it is followed.              *)
Indexed ==
    /\ toolCallIndex <= Len(meant.calls)
    /\ \A id \in Ids : toolCallIndexes[id] # None => toolCallIndexes[id] < Len(meant.calls)
    /\ Followed =>
          /\ toolCallIndex = Len(meant.calls)
          /\ \A id \in Ids : toolCallIndexes[id] = IF toolCallByID[id] = None THEN None
                                                   ELSE toolCallByID[id] - 1

(* Nothing but parts of the answer so far, or those and the closing frames. *)
Open ==
    /\ \A k \in DOMAIN frames : frames[k] \in BodyFrames
    /\ finished \/ streamPc = "returned" => ~Followed

ClosedAt(n) ==
    /\ Len(frames) = n + Len(Closing)
    /\ \A k \in 1..n : frames[k] \in BodyFrames
    /\ \A k \in 1..Len(Closing) : frames[n + k].kind = Closing[k]

Closed == (finished \/ ended # "no") /\ \E n \in Nat : ClosedAt(n)

(* The role has been sent if there is something it was sent with.          *)
Roles ==
    /\ sentRole <=> \E k \in DOMAIN frames : frames[k].kind \in DeltaKinds
    /\ RoleOnce
    /\ Followed /\ meant.calls # <<>> => sentRole

(* The frames add up to what was meant.                                    *)
Told ==
    Followed => /\ TextOf(frames, "text-delta") = meant.text
                /\ TextOf(frames, "reasoning-delta") = meant.reasoning
                /\ ErrorsOf(frames) = errors

Announced ==
    Followed =>
        /\ \A k \in ToolFrames :
              /\ frames[k].index + 1 \in DOMAIN meant.calls
              /\ frames[k].id \in {None, meant.calls[frames[k].index + 1].id}
        /\ \A c \in DOMAIN meant.calls : \E k \in ToolFrames :
              frames[k].index = c - 1 /\ frames[k].id = meant.calls[c].id

ArgsAt(index) == IF index + 1 \in DOMAIN meant.calls THEN meant.calls[index + 1].args ELSE <<>>

Assembled ==
    ArgsAreStreamed /\ Followed => \A index \in Nat : ClientArgs(index) = ArgsAt(index)

Inv ==
    /\ Typed /\ InStep /\ Collected /\ Numbered /\ Indexed
    /\ Open \/ Closed
    /\ Roles /\ Told /\ Announced /\ Assembled

-----------------------------------------------------------------------------
(* Frames *)

(* One more frame adds its part to the text of its kind ...                *)
LEMMA TextGrows ==
    ASSUME NEW fs \in Seq(Frames), NEW f \in Frames, NEW kind \in TextTypes
    PROVE  /\ TextOf(fs, kind) \in Tokens
           /\ TextOf(fs \o <<f>>, kind)
                = TextOf(fs, kind) \o (IF f.kind = kind THEN f.text ELSE <<>>)
<1> DEFINE piece == [x \in Frames |-> IF x.kind = kind THEN x.text ELSE <<>>]
<1>1. piece \in [Frames -> Tokens]
  BY DEF Frames, BodyFrames, ClosingFrames, TextFrames, ToolFramesOf, ErrorFrames,
         FinishFrames, UsageFrame, DoneFrame, TextTypes, Tokens
<1>2. fs \o <<f>> \in Seq(Frames)
  OBVIOUS
<1>3. ASSUME NEW g \in Seq(Frames) PROVE TextOf(g, kind) = FlattenSeq(Pieces(piece, g))
  <2>1. [k \in DOMAIN g |-> IF g[k].kind = kind THEN g[k].text ELSE <<>>] = Pieces(piece, g)
    BY DEF Pieces
  <2> HIDE DEF piece
  <2> QED BY <2>1 DEF TextOf
<1>4. FlattenSeq(Pieces(piece, fs \o <<f>>)) = FlattenSeq(Pieces(piece, fs)) \o piece[f]
  <2> HIDE DEF piece
  <2>1. piece \in [Frames -> Seq(Nat)] /\ fs \in Seq(Frames) /\ f \in Frames
    BY <1>1 DEF Tokens
  <2> QED BY <2>1, PiecesGrow, Zenon
<1>5. piece[f] = IF f.kind = kind THEN f.text ELSE <<>>
  OBVIOUS
<1>6. FlattenSeq(Pieces(piece, fs)) \in Tokens
  <2> HIDE DEF piece
  <2>1. piece \in [Frames -> Seq(Nat)] /\ fs \in Seq(Frames)
    BY <1>1 DEF Tokens
  <2> QED BY <2>1, PiecesTyped, Zenon DEF Tokens
<1> HIDE DEF piece
<1> QED BY <1>2, <1>3, <1>4, <1>5, <1>6

(* ... its class to the errors ...                                         *)
LEMMA ErrorsGrow ==
    ASSUME NEW fs \in Seq(Frames), NEW f \in Frames
    PROVE  /\ ErrorsOf(fs) \in Seq(Classes)
           /\ ErrorsOf(fs \o <<f>>)
                = ErrorsOf(fs) \o (IF f.kind = "error" THEN <<f.class>> ELSE <<>>)
<1> DEFINE piece == [x \in Frames |-> IF x.kind = "error" THEN <<x.class>> ELSE <<>>]
<1>1. piece \in [Frames -> Seq(Classes)]
  BY DEF Frames, BodyFrames, ClosingFrames, TextFrames, ToolFramesOf, ErrorFrames,
         FinishFrames, UsageFrame, DoneFrame, TextTypes
<1>2. fs \o <<f>> \in Seq(Frames)
  OBVIOUS
<1>3. ASSUME NEW g \in Seq(Frames) PROVE ErrorsOf(g) = FlattenSeq(Pieces(piece, g))
  <2>1. [k \in DOMAIN g |-> IF g[k].kind = "error" THEN <<g[k].class>> ELSE <<>>] = Pieces(piece, g)
    BY DEF Pieces
  <2> HIDE DEF piece
  <2> QED BY <2>1 DEF ErrorsOf
<1>4. FlattenSeq(Pieces(piece, fs \o <<f>>)) = FlattenSeq(Pieces(piece, fs)) \o piece[f]
  <2> HIDE DEF piece
  <2>1. piece \in [Frames -> Seq(Classes)] /\ fs \in Seq(Frames) /\ f \in Frames
    BY <1>1
  <2> QED BY <2>1, PiecesGrow, Zenon
<1>5. piece[f] = IF f.kind = "error" THEN <<f.class>> ELSE <<>>
  OBVIOUS
<1>6. FlattenSeq(Pieces(piece, fs)) \in Seq(Classes)
  <2> HIDE DEF piece
  <2>1. piece \in [Frames -> Seq(Classes)] /\ fs \in Seq(Frames)
    BY <1>1
  <2> QED BY <2>1, PiecesTyped, Zenon
<1> HIDE DEF piece
<1> QED BY <1>2, <1>3, <1>4, <1>5, <1>6

(* ... and its fragment to the arguments of its index.                     *)
LEMMA ArgsGrow ==
    ASSUME NEW fs \in Seq(Frames), NEW f \in Frames, NEW index \in Nat
    PROVE  /\ ArgsOf(fs, index) \in Tokens
           /\ ArgsOf(fs \o <<f>>, index)
                = ArgsOf(fs, index) \o (IF f.kind = "tool" /\ f.index = index THEN f.args ELSE <<>>)
<1> DEFINE piece == [x \in Frames |-> IF x.kind = "tool" /\ x.index = index THEN x.args ELSE <<>>]
<1>1. piece \in [Frames -> Tokens]
  BY DEF Frames, BodyFrames, ClosingFrames, TextFrames, ToolFramesOf, ErrorFrames,
         FinishFrames, UsageFrame, DoneFrame, TextTypes, Tokens
<1>2. fs \o <<f>> \in Seq(Frames)
  OBVIOUS
<1>3. ASSUME NEW g \in Seq(Frames) PROVE ArgsOf(g, index) = FlattenSeq(Pieces(piece, g))
  <2>1. [k \in DOMAIN g |-> IF g[k].kind = "tool" /\ g[k].index = index THEN g[k].args ELSE <<>>]
          = Pieces(piece, g)
    BY DEF Pieces
  <2> HIDE DEF piece
  <2> QED BY <2>1 DEF ArgsOf
<1>4. FlattenSeq(Pieces(piece, fs \o <<f>>)) = FlattenSeq(Pieces(piece, fs)) \o piece[f]
  <2> HIDE DEF piece
  <2>1. piece \in [Frames -> Seq(Nat)] /\ fs \in Seq(Frames) /\ f \in Frames
    BY <1>1 DEF Tokens
  <2> QED BY <2>1, PiecesGrow, Zenon
<1>5. piece[f] = IF f.kind = "tool" /\ f.index = index THEN f.args ELSE <<>>
  OBVIOUS
<1>6. FlattenSeq(Pieces(piece, fs)) \in Tokens
  <2> HIDE DEF piece
  <2>1. piece \in [Frames -> Seq(Nat)] /\ fs \in Seq(Frames)
    BY <1>1 DEF Tokens
  <2> QED BY <2>1, PiecesTyped, Zenon DEF Tokens
<1> HIDE DEF piece
<1> QED BY <1>2, <1>3, <1>4, <1>5, <1>6

(* The closing frames are no part of the answer.                           *)
Same(gs, fs) ==
    /\ \A kind \in TextTypes : TextOf(gs, kind) = TextOf(fs, kind)
    /\ ErrorsOf(gs) = ErrorsOf(fs)
    /\ \A index \in Nat : ArgsOf(gs, index) = ArgsOf(fs, index)

LEMMA ClosingIsQuiet ==
    ASSUME NEW fs \in Seq(Frames), NEW f \in ClosingFrames
    PROVE  fs \o <<f>> \in Seq(Frames) /\ Same(fs \o <<f>>, fs)
<1>1. f \in Frames /\ f.kind \notin TextTypes \union {"tool", "error"}
  BY DEF Frames, ClosingFrames, FinishFrames, UsageFrame, DoneFrame, TextTypes
<1>2. \A u \in Tokens : u \o <<>> = u
  BY DEF Tokens
<1>3. \A u \in Seq(Classes) : u \o <<>> = u
  OBVIOUS
<1>4. \A kind \in TextTypes : TextOf(fs \o <<f>>, kind) = TextOf(fs, kind)
  BY <1>1, <1>2, TextGrows
<1>5. ErrorsOf(fs \o <<f>>) = ErrorsOf(fs)
  BY <1>1, <1>3, ErrorsGrow
<1>6. \A index \in Nat : ArgsOf(fs \o <<f>>, index) = ArgsOf(fs, index)
  <2> SUFFICES ASSUME NEW index \in Nat PROVE ArgsOf(fs \o <<f>>, index) = ArgsOf(fs, index)
    OBVIOUS
  <2>1. ArgsOf(fs, index) \in Tokens
    BY <1>1, ArgsGrow
  <2>2. ArgsOf(fs \o <<f>>, index) = ArgsOf(fs, index) \o <<>>
    BY <1>1, ArgsGrow
  <2> QED BY <1>2, <2>1, <2>2
<1>7. fs \o <<f>> \in Seq(Frames)
  BY <1>1
<1> QED BY <1>4, <1>5, <1>6, <1>7 DEF Same

-----------------------------------------------------------------------------
(* What the steps do *)

(* An event that the stream is no longer there for, or that it reads.      *)
Missed == streamPc = "returned" /\ ~Followed /\ UNCHANGED streamVars
Read == streamPc = "read" /\ streamPc' = "select" /\ finishSent' = finishSent /\ sawToolCalls' \in BOOLEAN

Writes(f) ==
    /\ ~finished /\ f \in BodyFrames
    /\ frames' = frames \o <<f>>
    /\ f.kind \in DeltaKinds => f.role = ~sentRole
    /\ sentRole' = (sentRole \/ f.kind \in DeltaKinds)

WritesNothing == UNCHANGED <<frames, sentRole>>

Heard ==
    /\ ended = "no" /\ said' \in 0..MaxEvents
    /\ UNCHANGED <<ended, finished, includeUsage, gone, response>>

SameIndexes == UNCHANGED <<toolCallIndex, toolCallIndexes>>
SameCalls == UNCHANGED <<hasToolCalls, toolCalls, toolCallByID>>

(* Text: SayText and SayReasoning.                                         *)
TextStep(type) ==
    /\ Heard /\ SameCalls /\ UNCHANGED <<dialect, errors, upstreamErrMsg>>
    /\ \/ /\ type = "text-delta" /\ meant' = [meant EXCEPT !.text = @ \o token]
          /\ content' = content \o token /\ UNCHANGED reasoning
       \/ /\ type = "reasoning-delta" /\ meant' = [meant EXCEPT !.reasoning = @ \o token]
          /\ reasoning' = reasoning \o token /\ UNCHANGED content
    /\ Missed \/ (Read /\ Writes(TextFrame(type, ~sentRole, token)) /\ SameIndexes)

(* A call is announced: SayToolUse, SayToolInputStart and SayAggregated.   *)
OpenStep(id, args, as) ==
    /\ Heard /\ UNCHANGED <<errors, upstreamErrMsg, content, reasoning>>
    /\ dialect[id] = "new" /\ toolCallByID[id] = None
    /\ dialect' = [dialect EXCEPT ![id] = as]
    /\ Opens(id, args) /\ Opened(id, args) /\ hasToolCalls' = TRUE
    /\ Missed \/ (Read /\ Writes(ToolFrame(~sentRole, toolCallIndex, id, args)) /\ Allocate(id))

(* Its arguments grow: SayToolDelta and SayToolInputDelta, and SayToolCall *)
(* if it is the first to tell them.                                        *)
ArgsStep(id, as) ==
    /\ Heard /\ UNCHANGED <<errors, upstreamErrMsg, content, reasoning, toolCallByID>>
    /\ dialect[id] # "new" /\ toolCallByID[id] # None
    /\ dialect' = [dialect EXCEPT ![id] = as]
    /\ Extends(id) /\ hasToolCalls' = TRUE
    /\ toolCalls' = meant'.calls
    /\ \/ Missed
       \/ /\ Read /\ SameIndexes
          /\ \/ Writes(ToolFrame(FALSE, toolCallByID[id] - 1, None, token))
             \/ WritesNothing /\ ~ArgsAreStreamed

(* What changes nothing that was said: SayToolCall, if it repeats the      *)
(* arguments, and SayOther.                                                *)
QuietStep ==
    /\ Heard /\ SameCalls /\ UNCHANGED <<meant, errors, upstreamErrMsg, content, reasoning>>
    /\ \/ UNCHANGED dialect
       \/ \E id \in Ids : dialect[id] # "new" /\ dialect' = [dialect EXCEPT ![id] = "called"]
    /\ Missed \/ (Read /\ WritesNothing /\ SameIndexes)

ErrorStep(class) ==
    /\ Heard /\ SameCalls /\ UNCHANGED <<dialect, meant, content, reasoning>>
    /\ errors' = Append(errors, class) /\ FirstError([class |-> class])
    /\ Missed \/ (Read /\ Writes(ErrorFrame(class)) /\ SameIndexes)

-----------------------------------------------------------------------------
LEMMA Events ==
    ASSUME NEW e
    PROVE  /\ collectEvent(e) =>
                /\ e.type \in TextTypes => collectText(e)
                /\ e.type \in StartTypes => collectStart(e)
                /\ e.type = "tool-delta" => collectToolDelta(e)
                /\ e.type = "tool-input-delta" => collectInputDelta(e)
                /\ e.type = "tool-call" => collectToolCall(e)
                /\ e.type = "finish" => collectFinish(e)
                /\ e.type = "error" => collectError(e)
                /\ e.type = "other" => collectOther(e)
           /\ streamEvent(e, includeUsage) =>
                /\ e.type \in TextTypes => onText(e)
                /\ e.type = "tool-use" => onToolUse(e)
                /\ e.type = "tool-delta" => onToolDelta(e)
                /\ e.type = "tool-input-start" => onToolInputStart(e)
                /\ e.type = "tool-input-delta" => onToolInputDelta(e)
                /\ e.type = "tool-call" => onToolCall(e)
                /\ e.type = "finish" => onFinish(e, includeUsage)
                /\ e.type = "error" => onError(e)
                /\ e.type = "other" => onOther(e)
<1>1. collectEvent(e) =>
        /\ e.type \in TextTypes => collectText(e)
        /\ e.type \in StartTypes => collectStart(e)
        /\ e.type = "tool-delta" => collectToolDelta(e)
        /\ e.type = "tool-input-delta" => collectInputDelta(e)
        /\ e.type = "tool-call" => collectToolCall(e)
        /\ e.type = "finish" => collectFinish(e)
        /\ e.type = "error" => collectError(e)
        /\ e.type = "other" => collectOther(e)
  BY DEF collectEvent, collectText, collectStart, collectToolDelta, collectInputDelta,
         collectToolCall, collectFinish, collectError, collectOther, TextTypes, StartTypes
<1>2. streamEvent(e, includeUsage) =>
        /\ e.type \in TextTypes => onText(e)
        /\ e.type = "tool-use" => onToolUse(e)
        /\ e.type = "tool-delta" => onToolDelta(e)
        /\ e.type = "tool-input-start" => onToolInputStart(e)
        /\ e.type = "tool-input-delta" => onToolInputDelta(e)
        /\ e.type = "tool-call" => onToolCall(e)
        /\ e.type = "finish" => onFinish(e, includeUsage)
        /\ e.type = "error" => onError(e)
        /\ e.type = "other" => onOther(e)
  BY DEF streamEvent, onText, onToolUse, onToolDelta, onToolInputStart, onToolInputDelta,
         onToolCall, onFinish, onError, onOther, TextTypes
<1> QED BY <1>1, <1>2

(* The event e is read or missed by the stream, and collected.             *)
LEMMA Said ==
    ASSUME InStep, NEW e, Say(e)
    PROVE  /\ ended = "no" /\ UNCHANGED <<ended, includeUsage, gone, response>>
           /\ finished => e.type = "other"
           /\ said < MaxEvents /\ said' = said + 1
           /\ collectEvent(e)
           /\ \/ Missed
              \/ streamPc = "read" /\ streamPc' = "select" /\ Followed /\ streamEvent(e, includeUsage)
  BY DEF InStep, Say, collectEvent, streamEvent, Missed, Followed, vars

LEMMA TextSaid ==
    ASSUME Inv
    PROVE  /\ SayText => TextStep("text-delta")
           /\ SayReasoning => TextStep("reasoning-delta")
<1>1. ASSUME NEW type \in TextTypes, Say([type |-> type, text |-> token]), ~finished,
             UNCHANGED <<dialect, errors, finished>>,
             meant' = IF type = "text-delta" THEN [meant EXCEPT !.text = @ \o token]
                      ELSE [meant EXCEPT !.reasoning = @ \o token]
      PROVE  TextStep(type)
  <2> DEFINE e == [type |-> type, text |-> token]
  <2>1. Say(e) /\ InStep /\ Typed
    BY <1>1 DEF Inv
  <2>2. e.type = type /\ e.text = token
    OBVIOUS
  <2> HIDE DEF e
  <2>3. collectText(e) /\ (streamEvent(e, includeUsage) => onText(e))
    BY <2>1, <2>2, Said, Events
  <2>4. Heard
    BY <1>1, <2>1, Said, BoundAssumption DEF Heard, Typed
  <2>5. TextFrame(type, ~sentRole, token) \in BodyFrames
    BY <2>1 DEF TextFrame, BodyFrames, TextFrames, Tokens, Typed, token
  <2>6. onText(e) => /\ Writes(TextFrame(type, ~sentRole, token)) /\ SameIndexes
                     /\ finishSent' = finishSent /\ sawToolCalls' = sawToolCalls
    BY <1>1, <2>2, <2>5
       DEF onText, Writes, write, SendRole, DeltaKinds, TextFrame, SameIndexes
  <2>7. Missed \/ (Read /\ Writes(TextFrame(type, ~sentRole, token)) /\ SameIndexes)
    BY <2>1, <2>3, <2>6, Said DEF Read, Typed
  <2> QED BY <1>1, <2>2, <2>3, <2>4, <2>7 DEF TextStep, collectText, SameCalls, TextTypes
<1>2. InStep /\ Typed
  BY DEF Inv
<1>3. ASSUME SayText PROVE ~finished
  BY <1>2, <1>3 DEF SayText, Say, Typed
<1>4. ASSUME SayReasoning PROVE ~finished
  BY <1>2, <1>4 DEF SayReasoning, Say, Typed
<1>5. SayText => TextStep("text-delta")
  BY <1>1, <1>3 DEF SayText, TextTypes
<1>6. SayReasoning => TextStep("reasoning-delta")
  BY <1>1, <1>4 DEF SayReasoning, TextTypes
<1> QED BY <1>5, <1>6

LEMMA OpenSaid ==
    ASSUME Inv, NEW id \in Ids
    PROVE  /\ SayToolUse(id) => OpenStep(id, <<>>, "old")
           /\ SayToolInputStart(id) => OpenStep(id, <<>>, "streamed")
           /\ SayAggregated(id) => OpenStep(id, token, "called")
<1>1. InStep /\ Typed /\ Numbered /\ Indexed
  BY DEF Inv
<1>2. dialect[id] = "new" => toolCallByID[id] = None /\ (Followed => ~Known(id))
  BY <1>1 DEF Numbered, Indexed, Known
<1>3. ASSUME NEW e, NEW args \in Tokens, NEW as, Say(e), e.id = id,
             e.type \in StartTypes \union {"tool-call"},
             e.type = "tool-call" => e.input = args,
             e.type \in StartTypes => args = <<>>,
             UNCHANGED <<errors, finished>>, dialect[id] = "new", Opens(id, args),
             dialect' = [dialect EXCEPT ![id] = as]
      PROVE  OpenStep(id, args, as)
  <2>1. ~finished
    BY <1>1, <1>3, Said DEF StartTypes, Typed
  <2>2. Heard
    BY <1>1, <1>3, Said, BoundAssumption DEF Heard, Typed
  <2>3. Opened(id, args) /\ hasToolCalls' = TRUE /\ UNCHANGED <<content, reasoning, upstreamErrMsg>>
    <3>1. \/ e.type \in StartTypes /\ collectStart(e)
          \/ e.type = "tool-call" /\ collectToolCall(e)
      BY <1>1, <1>3, Said, Events DEF StartTypes
    <3> QED BY <1>2, <1>3, <3>1 DEF collectStart, collectToolCall, StartTypes
  <2>4. streamEvent(e, includeUsage) =>
           onToolUse(e) \/ onToolInputStart(e) \/ onToolCall(e)
    BY <1>3, Events DEF StartTypes
  <2>5. ToolFrame(~sentRole, toolCallIndex, id, args) \in BodyFrames
    BY <1>1, <1>3 DEF ToolFrame, BodyFrames, ToolFramesOf, Typed
  <2>6. ASSUME Announce(id, args)
        PROVE  /\ Writes(ToolFrame(~sentRole, toolCallIndex, id, args)) /\ Allocate(id)
               /\ finishSent' = finishSent /\ sawToolCalls' = TRUE
    BY <2>1, <2>5, <2>6 DEF Announce, Writes, write, SendRole, DeltaKinds, ToolFrame
  <2>7. Followed /\ streamEvent(e, includeUsage) => Announce(id, args)
    BY <1>2, <1>3, <2>4 DEF onToolUse, onToolInputStart, onToolCall, StartTypes
  <2>8. Missed \/ (Read /\ Writes(ToolFrame(~sentRole, toolCallIndex, id, args)) /\ Allocate(id))
    BY <1>1, <1>3, <2>6, <2>7, Said DEF Read
  <2> QED BY <1>2, <1>3, <2>2, <2>3, <2>8 DEF OpenStep
<1>4. <<>> \in Tokens /\ token \in Tokens
  BY <1>1 DEF Tokens, token, Typed
<1>5. ASSUME SayToolUse(id) PROVE OpenStep(id, <<>>, "old")
  <2> DEFINE e == [type |-> "tool-use", id |-> id]
  <2>1. Say(e)
    BY <1>5 DEF SayToolUse
  <2>2. e.id = id /\ e.type = "tool-use"
    OBVIOUS
  <2> HIDE DEF e
  <2> QED BY <1>3, <1>4, <1>5, <2>1, <2>2 DEF SayToolUse, StartTypes
<1>6. ASSUME SayToolInputStart(id) PROVE OpenStep(id, <<>>, "streamed")
  <2> DEFINE e == [type |-> "tool-input-start", id |-> id]
  <2>1. Say(e)
    BY <1>6 DEF SayToolInputStart
  <2>2. e.id = id /\ e.type = "tool-input-start"
    OBVIOUS
  <2> HIDE DEF e
  <2> QED BY <1>3, <1>4, <1>6, <2>1, <2>2 DEF SayToolInputStart, StartTypes
<1>7. ASSUME SayAggregated(id) PROVE OpenStep(id, token, "called")
  <2> DEFINE e == [type |-> "tool-call", id |-> id, input |-> token]
  <2>1. Say(e)
    BY <1>7 DEF SayAggregated
  <2>2. e.id = id /\ e.type = "tool-call" /\ e.input = token
    OBVIOUS
  <2> HIDE DEF e
  <2> QED BY <1>3, <1>4, <1>7, <2>1, <2>2 DEF SayAggregated, StartTypes
<1> QED BY <1>5, <1>6, <1>7

(* A call that was announced is where toolCallByID has it.                 *)
LEMMA Place ==
    ASSUME Inv, NEW id \in Ids, dialect[id] # "new"
    PROVE  /\ toolCallByID[id] # None /\ toolCallByID[id] \in Nat
           /\ toolCallByID[id] \in 1..Len(meant.calls)
           /\ meant.calls[toolCallByID[id]].id = id
           /\ Position(id) = toolCallByID[id]
           /\ meant.calls # <<>> /\ hasToolCalls
           /\ Followed => toolCallIndexes[id] = toolCallByID[id] - 1 /\ Known(id) /\ sentRole
<1>1. Typed /\ Numbered /\ Indexed /\ Collected /\ Roles
  BY DEF Inv
<1>2. toolCallByID[id] # None /\ toolCallByID[id] \in Nat /\ toolCallByID[id] \in DOMAIN meant.calls
      /\ meant.calls[toolCallByID[id]].id = id
  BY <1>1 DEF Numbered, Typed
<1>3. DOMAIN meant.calls = 1..Len(meant.calls) /\ Len(meant.calls) \in Nat
  BY <1>1 DEF Typed
<1>4. meant.calls # <<>>
  BY <1>2
<1>5. \A k \in DOMAIN meant.calls : meant.calls[k].id = id => k = toolCallByID[id]
  BY <1>1 DEF Numbered
<1>6. Position(id) = toolCallByID[id]
  BY <1>2, <1>5 DEF Position
<1>7. hasToolCalls
  BY <1>1, <1>4 DEF Collected
<1>8. Followed => toolCallIndexes[id] = toolCallByID[id] - 1 /\ Known(id) /\ sentRole
  BY <1>1, <1>2, <1>4, NoneAssumption DEF Indexed, Known, Roles
<1> QED BY <1>2, <1>3, <1>4, <1>6, <1>7, <1>8

LEMMA Extended ==
    ASSUME Typed, NEW id \in Ids, Extends(id), Position(id) \in DOMAIN meant.calls
    PROVE  /\ meant' = [meant EXCEPT !.calls = meant'.calls]
           /\ meant'.text = meant.text /\ meant'.reasoning = meant.reasoning
           /\ meant'.calls = [meant.calls EXCEPT ![Position(id)].args = @ \o token]
  BY DEF Typed, Extends

LEMMA ArgsSaid ==
    ASSUME Inv, NEW id \in Ids
    PROVE  /\ SayToolDelta(id) => ArgsStep(id, "old")
           /\ SayToolInputDelta(id) => ArgsStep(id, "streamed")
           /\ SayToolCall(id) => ArgsStep(id, "called") \/ QuietStep
<1> DEFINE p == toolCallByID[id]
<1>1. InStep /\ Typed /\ Numbered /\ Indexed /\ Collected
  BY DEF Inv
<1>2. dialect[id] # "new" =>
        /\ p # None /\ p \in Nat /\ p \in 1..Len(meant.calls) /\ meant.calls[p].id = id
        /\ Position(id) = p /\ hasToolCalls
        /\ Followed => toolCallIndexes[id] = p - 1 /\ Known(id) /\ sentRole
  BY Place
<1>3. ASSUME NEW as \in {"old", "streamed"}, dialect[id] = as, UNCHANGED dialect
      PROVE  dialect' = [dialect EXCEPT ![id] = as]
  BY <1>1, <1>3 DEF Typed
<1>4. ASSUME dialect[id] # "new", ~finished
      PROVE  \A f : f = ToolFrame(FALSE, p - 1, None, token) /\ Followed
                /\ write(<<f>>) /\ sentRole' = sentRole => Writes(f)
  <2>1. ToolFrame(FALSE, p - 1, None, token) \in BodyFrames
    BY <1>1, <1>2, <1>4 DEF ToolFrame, BodyFrames, ToolFramesOf, Typed, Tokens, token
  <2> SUFFICES ASSUME NEW f, f = ToolFrame(FALSE, p - 1, None, token), Followed,
                      write(<<f>>), sentRole' = sentRole
               PROVE  Writes(f)
    OBVIOUS
  <2>2. f.kind \in DeltaKinds /\ f.role = FALSE
    BY DEF ToolFrame, DeltaKinds
  <2>3. sentRole /\ sentRole = TRUE
    BY <1>1, <1>2, <1>4 DEF Typed
  <2> QED BY <1>4, <2>1, <2>2, <2>3 DEF Writes, write
<1>5. ASSUME NEW e, Say(e), e.type # "other", UNCHANGED finished PROVE Heard /\ ~finished
  BY <1>1, <1>5, Said, BoundAssumption DEF Heard, Typed
<1>6. dialect[id] # "new" /\ Extends(id) =>
        meant'.calls = [meant.calls EXCEPT ![p].args = meant.calls[p].args \o token]
  <2> SUFFICES ASSUME dialect[id] # "new", Extends(id)
               PROVE  meant'.calls = [meant.calls EXCEPT ![p].args = meant.calls[p].args \o token]
    OBVIOUS
  <2>1. Position(id) = p /\ p \in DOMAIN meant.calls
    BY <1>1, <1>2 DEF Typed
  <2> HIDE DEF p
  <2>2. meant'.calls = [meant.calls EXCEPT ![Position(id)].args = @ \o token]
    BY <1>1, <2>1, Extended
  <2> QED BY <2>1, <2>2
<1>7. ASSUME SayToolDelta(id) PROVE ArgsStep(id, "old")
  <2> DEFINE e == [type |-> "tool-delta", text |-> token]
  <2>1. Say(e) /\ dialect[id] = "old" /\ Position(id) = Len(meant.calls)
    BY <1>7 DEF SayToolDelta
  <2>2. e.text = token /\ e.type = "tool-delta"
    OBVIOUS
  <2> HIDE DEF e
  <2>3. Heard /\ ~finished
    BY <1>5, <1>7, <2>1, <2>2 DEF SayToolDelta
  <2>4. collectToolDelta(e) /\ (streamEvent(e, includeUsage) => onToolDelta(e))
    BY <1>1, <2>1, <2>2, Said, Events
  <2>5. toolCalls' = meant'.calls
    <3>1. p = Len(meant.calls) /\ Len(meant.calls) > 0 /\ toolCalls = meant.calls
      BY <1>1, <1>2, <2>1 DEF Typed, Collected
    <3> HIDE DEF p
    <3>2. toolCalls' = [meant.calls EXCEPT ![p].args = meant.calls[p].args \o token]
      BY <2>2, <2>4, <3>1 DEF collectToolDelta, AddArgs
    <3> QED BY <1>6, <1>7, <2>1, <3>2 DEF SayToolDelta
  <2>6. Followed => toolCallIndex = p
    BY <1>1, <1>2, <2>1 DEF Indexed
  <2>7. Missed \/ (Read /\ SameIndexes /\ Writes(ToolFrame(FALSE, p - 1, None, token)))
    BY <1>1, <1>4, <2>1, <2>2, <2>3, <2>4, <2>6, Said DEF onToolDelta, Read, SameIndexes, Typed
  <2> QED BY <1>2, <1>3, <1>7, <2>1, <2>3, <2>4, <2>5, <2>7 DEF ArgsStep, SayToolDelta, collectToolDelta
<1>8. ASSUME SayToolInputDelta(id) PROVE ArgsStep(id, "streamed")
  <2> DEFINE e == [type |-> "tool-input-delta", id |-> id, text |-> token]
  <2>1. Say(e) /\ dialect[id] = "streamed"
    BY <1>8 DEF SayToolInputDelta
  <2>2. e.text = token /\ e.type = "tool-input-delta" /\ e.id = id
    OBVIOUS
  <2> HIDE DEF e
  <2>3. Heard /\ ~finished
    BY <1>5, <1>8, <2>1, <2>2 DEF SayToolInputDelta
  <2>4. collectInputDelta(e) /\ (streamEvent(e, includeUsage) => onToolInputDelta(e))
    BY <1>1, <2>1, <2>2, Said, Events
  <2>5. toolCalls' = meant'.calls
    BY <1>1, <1>2, <1>6, <1>8, <2>1, <2>2, <2>4
       DEF Collected, collectInputDelta, AddArgs, SayToolInputDelta
  <2>7. Missed \/ (Read /\ SameIndexes /\ Writes(ToolFrame(FALSE, p - 1, None, token)))
    BY <1>1, <1>2, <1>4, <2>1, <2>2, <2>3, <2>4, Said DEF onToolInputDelta, Read, SameIndexes, Typed
  <2> QED BY <1>2, <1>3, <1>8, <2>1, <2>3, <2>4, <2>5, <2>7
          DEF ArgsStep, SayToolInputDelta, collectInputDelta
<1>9. ASSUME SayToolCall(id) PROVE ArgsStep(id, "called") \/ QuietStep
  <2>1. /\ dialect[id] # "new" /\ dialect' = [dialect EXCEPT ![id] = "called"]
        /\ UNCHANGED <<errors, finished>> /\ Args(id) = meant.calls[p].args
    BY <1>2, <1>9 DEF SayToolCall, Args
  <2>2. ASSUME NEW e, NEW input, Say(e), e.type = "tool-call", e.id = id, e.input = input, input # <<>>
        PROVE  /\ Heard /\ UNCHANGED <<content, reasoning, toolCallByID, upstreamErrMsg>>
               /\ hasToolCalls' = TRUE
               /\ toolCalls' = [meant.calls EXCEPT ![p].args = input]
               /\ Missed \/ (Read /\ WritesNothing /\ SameIndexes)
    <3>1. Heard
      BY <1>5, <2>1, <2>2
    <3>2. collectToolCall(e) /\ (streamEvent(e, includeUsage) => onToolCall(e))
      BY <1>1, <2>2, Said, Events
    <3>3. Missed \/ (Read /\ WritesNothing /\ SameIndexes)
      BY <1>1, <1>2, <2>1, <2>2, <3>2, Said DEF onToolCall, Read, WritesNothing, SameIndexes
    <3> QED BY <1>1, <1>2, <2>1, <2>2, <3>1, <3>2, <3>3 DEF collectToolCall, Collected
  <2>3. CASE Args(id) # <<>> /\ Say([type |-> "tool-call", id |-> id, input |-> Args(id)]) /\ UNCHANGED meant
    <3> DEFINE e == [type |-> "tool-call", id |-> id, input |-> Args(id)]
    <3>1. Say(e) /\ e.type = "tool-call" /\ e.id = id /\ e.input = Args(id)
      BY <2>3
    <3> HIDE DEF e
    <3>2. /\ Heard /\ UNCHANGED <<content, reasoning, toolCallByID, upstreamErrMsg>>
          /\ hasToolCalls' = TRUE
          /\ toolCalls' = [meant.calls EXCEPT ![p].args = Args(id)]
          /\ Missed \/ (Read /\ WritesNothing /\ SameIndexes)
      BY <2>2, <2>3, <3>1
    <3>3. [meant.calls EXCEPT ![p].args = meant.calls[p].args] = meant.calls
      <4>1. meant.calls[p] \in Calls /\ meant.calls \in Seq(Calls)
        BY <1>1, <1>2, <2>1 DEF Typed
      <4>2. [meant.calls[p] EXCEPT !.args = meant.calls[p].args] = meant.calls[p]
        BY <4>1 DEF Calls
      <4> QED BY <4>1, <4>2
    <3>4. toolCalls' = toolCalls
      BY <1>1, <2>1, <3>2, <3>3 DEF Collected
    <3>5. hasToolCalls' = hasToolCalls
      BY <1>1, <1>2, <2>1, <3>2 DEF Collected
    <3> QED BY <2>1, <2>3, <3>2, <3>4, <3>5 DEF QuietStep, SameCalls
  <2>4. CASE /\ Args(id) = <<>> /\ ~ArgsAreStreamed
             /\ Say([type |-> "tool-call", id |-> id, input |-> token]) /\ Extends(id)
    <3> DEFINE e == [type |-> "tool-call", id |-> id, input |-> token]
    <3>1. Say(e) /\ e.type = "tool-call" /\ e.id = id /\ e.input = token
      BY <2>4
    <3>0. token # <<>> /\ <<>> \o token = token
      BY DEF token
    <3> HIDE DEF e
    <3>2. /\ Heard /\ UNCHANGED <<content, reasoning, toolCallByID, upstreamErrMsg>>
          /\ hasToolCalls' = TRUE
          /\ toolCalls' = [meant.calls EXCEPT ![p].args = token]
          /\ Missed \/ (Read /\ WritesNothing /\ SameIndexes)
      BY <2>2, <3>0, <3>1
    <3>3. toolCalls' = meant'.calls
      BY <1>6, <2>1, <2>4, <3>0, <3>2
    <3> QED BY <1>2, <2>1, <2>4, <3>2, <3>3 DEF ArgsStep
  <2> QED BY <1>9, <2>3, <2>4 DEF SayToolCall
<1> QED BY <1>7, <1>8, <1>9

LEMMA OtherSaid ==
    ASSUME Inv
    PROVE  /\ SayOther => QuietStep
           /\ \A class \in Classes : SayError(class) => ErrorStep(class)
<1>1. InStep /\ Typed
  BY DEF Inv
<1>2. ASSUME SayOther PROVE QuietStep
  <2> DEFINE e == [type |-> "other"]
  <2>1. Say(e) /\ e.type = "other"
    BY <1>2 DEF SayOther
  <2> HIDE DEF e
  <2>2. collectOther(e) /\ (streamEvent(e, includeUsage) => onOther(e))
    BY <1>1, <2>1, Said, Events
  <2>3. Heard
    BY <1>1, <1>2, <2>1, Said, BoundAssumption DEF Heard, SayOther, Typed
  <2>4. Missed \/ (Read /\ WritesNothing /\ SameIndexes)
    BY <1>1, <2>1, <2>2, Said DEF onOther, Read, WritesNothing, SameIndexes, Typed
  <2> QED BY <1>2, <2>2, <2>3, <2>4 DEF QuietStep, SameCalls, SayOther, collectOther
<1>3. ASSUME NEW class \in Classes, SayError(class) PROVE ErrorStep(class)
  <2> DEFINE e == [type |-> "error", class |-> class]
  <2>1. Say(e) /\ e.type = "error" /\ e.class = class
    BY <1>3 DEF SayError
  <2> HIDE DEF e
  <2>2. collectError(e) /\ (streamEvent(e, includeUsage) => onError(e))
    BY <1>1, <2>1, Said, Events
  <2>3. Heard /\ ~finished
    BY <1>1, <1>3, <2>1, Said, BoundAssumption DEF Heard, SayError, Typed
  <2>4. ErrorFrame(class) \in BodyFrames /\ ErrorFrame(class).kind \notin DeltaKinds
    BY DEF ErrorFrame, BodyFrames, ErrorFrames, DeltaKinds, TextTypes
  <2>5. Missed \/ (Read /\ Writes(ErrorFrame(class)) /\ SameIndexes)
    BY <1>1, <2>1, <2>2, <2>3, <2>4, Said DEF onError, Read, Writes, write, SameIndexes, Typed
  <2>6. FirstError([class |-> class])
    BY <2>1, <2>2 DEF collectError, FirstError
  <2> QED BY <1>3, <2>2, <2>3, <2>5, <2>6 DEF ErrorStep, SameCalls, SayError, collectError
<1> QED BY <1>2, <1>3

-----------------------------------------------------------------------------
(* What the steps keep *)

BodyStep == Heard /\ (Missed \/ (Read /\ (WritesNothing \/ \E f \in BodyFrames : Writes(f))))

(* One more frame.                                                         *)
LEMMA OneMore ==
    ASSUME NEW S, NEW fs \in Seq(S), NEW f \in S
    PROVE  /\ fs \o <<f>> \in Seq(S) /\ Len(fs) \in Nat
           /\ DOMAIN fs = 1..Len(fs) /\ DOMAIN (fs \o <<f>>) = 1..(Len(fs) + 1)
           /\ Len(fs \o <<f>>) = Len(fs) + 1
           /\ (fs \o <<f>>)[Len(fs) + 1] = f
           /\ \A k \in 1..Len(fs) : (fs \o <<f>>)[k] = fs[k]
  OBVIOUS

LEMMA Appended ==
    ASSUME NEW S, NEW s \in Seq(S), NEW e \in S
    PROVE  /\ Append(s, e) \in Seq(S) /\ Len(s) \in Nat
           /\ DOMAIN s = 1..Len(s) /\ DOMAIN Append(s, e) = 1..(Len(s) + 1)
           /\ Len(Append(s, e)) = Len(s) + 1
           /\ Append(s, e)[Len(s) + 1] = e
           /\ \A k \in 1..Len(s) : Append(s, e)[k] = s[k] /\ s[k] \in S
  OBVIOUS

LEMMA FramesKept ==
    ASSUME Inv, BodyStep
    PROVE  frames' \in Seq(Frames) /\ sentRole' \in BOOLEAN /\ InStep' /\ (Open \/ Closed)'
<1>1. Typed /\ InStep /\ (Open \/ Closed)
  BY DEF Inv
<1>2. InStep'
  BY <1>1 DEF InStep, BodyStep, Heard, Missed, Read, streamVars
<1>3. CASE WritesNothing
  <2>1. Closed => Closed'
    BY <1>3 DEF Closed, ClosedAt, Closing, BodyStep, Heard, WritesNothing
  <2>2. Open => Open'
    BY <1>1, <1>3 DEF Open, BodyStep, Heard, WritesNothing, Missed, Read, Followed, streamVars
  <2> QED BY <1>1, <1>2, <1>3, <2>1, <2>2 DEF WritesNothing, Typed
<1>4. ASSUME NEW f \in BodyFrames, Read, Writes(f)
      PROVE  frames' \in Seq(Frames) /\ sentRole' \in BOOLEAN /\ (Open \/ Closed)'
  <2>1. Open
    BY <1>1, <1>4 DEF BodyStep, Heard, Writes, Closed
  <2>2. f \in Frames /\ frames \in Seq(Frames) /\ frames' = frames \o <<f>>
    BY <1>1, <1>4 DEF Frames, Writes, Typed
  <2>3. \A k \in DOMAIN frames' : (k \in DOMAIN frames /\ frames'[k] = frames[k]) \/ frames'[k] = f
    <3>1. \A k \in 1..(Len(frames) + 1) : k \in 1..Len(frames) \/ k = Len(frames) + 1
      BY <2>2, OneMore
    <3> QED BY <2>2, <3>1, OneMore
  <2>4. Open'
    BY <1>4, <2>1, <2>3 DEF Open, Read, BodyStep, Heard, Writes
  <2>5. frames' \in Seq(Frames)
    BY <2>2, OneMore
  <2>6. sentRole' \in BOOLEAN
    BY <1>4 DEF Writes
  <2> QED BY <2>4, <2>5, <2>6
<1>5. CASE Missed
  BY <1>3, <1>5 DEF WritesNothing, Missed, streamVars
<1> QED BY <1>2, <1>3, <1>4, <1>5 DEF BodyStep

RoleSent == sentRole <=> \E k \in DOMAIN frames : frames[k].kind \in DeltaKinds

LEMMA RolesKept ==
    ASSUME Inv, BodyStep
    PROVE  RoleSent' /\ RoleOnce'
<1>1. Typed /\ RoleSent /\ RoleOnce
  BY DEF Inv, Roles, RoleSent
<1>2. CASE WritesNothing
  BY <1>1, <1>2 DEF WritesNothing, RoleSent, RoleOnce
<1>3. ASSUME NEW f \in BodyFrames, Writes(f) PROVE RoleSent' /\ RoleOnce'
  <2> DEFINE n == Len(frames)
  <2>1. f \in Frames /\ frames \in Seq(Frames) /\ frames' = frames \o <<f>>
    BY <1>1, <1>3 DEF Frames, Writes, Typed
  <2>2. /\ n \in Nat /\ DOMAIN frames = 1..n /\ DOMAIN frames' = 1..(n + 1)
        /\ frames'[n + 1] = f /\ \A k \in 1..n : frames'[k] = frames[k]
    BY <2>1, OneMore
  <2> HIDE DEF n
  <2>3. \A k \in 1..(n + 1) : k # n + 1 => k \in 1..n
    BY <2>2
  <2>4. \A k \in 1..n : k \in 1..(n + 1)
    BY <2>2
  <2>5. n + 1 \in 1..(n + 1)
    BY <2>2
  <2>6. RoleSent'
    BY <1>1, <1>3, <2>2, <2>3, <2>4, <2>5 DEF RoleSent, Writes
  <2>7. ASSUME NEW k \in 1..(n + 1), frames'[k].kind \in DeltaKinds
        PROVE  frames'[k].role <=> \A j \in 1..(k - 1) : frames'[j].kind \notin DeltaKinds
    <3>1. \A j \in 1..(k - 1) : j \in 1..n
      BY <2>2
    <3>2. CASE k = n + 1
      <4>1. k - 1 = n
        BY <2>2, <3>2
      <4>2. f.role = ~sentRole
        BY <1>3, <2>2, <2>7, <3>2 DEF Writes
      <4>3. sentRole <=> \E j \in 1..n : frames[j].kind \in DeltaKinds
        BY <1>1, <2>2 DEF RoleSent
      <4> QED BY <2>2, <3>2, <4>1, <4>2, <4>3
    <3>3. CASE k # n + 1
      BY <1>1, <2>2, <2>3, <2>7, <3>1, <3>3 DEF RoleOnce
    <3> QED BY <3>2, <3>3
  <2>8. RoleOnce'
    BY <2>2, <2>7 DEF RoleOnce
  <2> QED BY <2>6, <2>8
<1>4. CASE Missed
  BY <1>2, <1>4 DEF WritesNothing, Missed, streamVars
<1> QED BY <1>2, <1>3, <1>4 DEF BodyStep

(* A stream that is followed after an event has read it.                   *)
LEMMA Follows ==
    ASSUME Heard
    PROVE  (Missed => ~Followed') /\ (Read => Followed /\ Followed')
  BY DEF Heard, Missed, Read, Followed, streamVars

(* The collected errors and answer stay what they are.                     *)
SameNumbers ==
    /\ UNCHANGED toolCallByID
    /\ \A id \in Ids : dialect'[id] = "new" <=> dialect[id] = "new"
    /\ Len(meant'.calls) = Len(meant.calls)
    /\ \A k \in 1..Len(meant.calls) : meant'.calls[k].id = meant.calls[k].id

LEMMA NumbersKept ==
    ASSUME Inv, Heard, SameNumbers, meant'.calls \in Seq(Calls), Missed \/ (Read /\ SameIndexes)
    PROVE  Numbered' /\ Indexed'
<1>1. Typed /\ Numbered /\ Indexed
  BY DEF Inv
<1>2. DOMAIN meant.calls = 1..Len(meant.calls) /\ DOMAIN meant'.calls = 1..Len(meant.calls)
  BY <1>1 DEF Typed, SameNumbers
<1>3. Numbered'
  BY <1>1, <1>2 DEF Numbered, SameNumbers
<1>4. SameIndexes
  BY DEF Missed, streamVars, SameIndexes
<1>5. Followed' => Followed
  BY Follows
<1>6. Indexed'
  BY <1>1, <1>4, <1>5 DEF Indexed, SameNumbers, SameIndexes
<1> QED BY <1>3, <1>6

(* Frames that are no part of a call leave the calls as they are.          *)
LEMMA CallsKept ==
    ASSUME Inv, Heard, meant'.calls = meant.calls,
           Missed \/ (Read /\ (WritesNothing \/ \E f \in BodyFrames : Writes(f) /\ f.kind # "tool"))
    PROVE  Announced' /\ Assembled'
<1>1. Typed /\ Announced /\ Assembled
  BY DEF Inv
<1>2. CASE Missed
  BY <1>2, Follows DEF Announced, Assembled
<1>3. CASE Read /\ WritesNothing
  BY <1>1, <1>3, Follows, ZenonT(30)
     DEF Announced, Assembled, WritesNothing, ToolFrames, ClientArgs, ArgsAt, ArgsOf
<1>4. ASSUME NEW f \in BodyFrames, Read, Writes(f), f.kind # "tool"
      PROVE  Announced' /\ Assembled'
  <2> DEFINE n == Len(frames)
  <2>1. f \in Frames /\ frames \in Seq(Frames) /\ frames' = frames \o <<f>>
    BY <1>1, <1>4 DEF Frames, Writes, Typed
  <2>2. /\ n \in Nat /\ DOMAIN frames = 1..n /\ DOMAIN frames' = 1..(n + 1)
        /\ frames'[n + 1] = f /\ \A k \in 1..n : frames'[k] = frames[k]
    BY <2>1, OneMore
  <2>3. ToolFrames' = ToolFrames /\ \A k \in ToolFrames : frames'[k] = frames[k]
    <3> HIDE DEF n
    <3>1. \A k \in 1..(n + 1) : k \in 1..n \/ k = n + 1
      BY <2>2
    <3>2. \A k \in 1..n : k \in 1..(n + 1)
      BY <2>2
    <3> QED BY <1>4, <2>2, <3>1, <3>2 DEF ToolFrames
  <2>4. Announced'
    BY <1>1, <1>4, <2>3, Follows DEF Announced
  <2>5. \A index \in Nat : ArgsOf(frames, index) \in Tokens /\ ArgsOf(frames', index) = ArgsOf(frames, index) \o <<>>
    BY <1>4, <2>1, ArgsGrow
  <2>6. \A u \in Tokens : u \o <<>> = u
    BY DEF Tokens
  <2>7. \A index \in Nat : ClientArgs(index)' = ClientArgs(index)
    BY <2>5, <2>6 DEF ClientArgs
  <2>8. \A index : ArgsAt(index)' = ArgsAt(index)
    BY DEF ArgsAt
  <2>9. Assembled'
    BY <1>1, <1>4, <2>7, <2>8, Follows DEF Assembled
  <2> QED BY <2>4, <2>9
<1> QED BY <1>2, <1>3, <1>4

(* Frames of calls leave the texts and the errors as they are.             *)
LEMMA TextsKept ==
    ASSUME Inv, Heard, meant'.text = meant.text, meant'.reasoning = meant.reasoning,
           UNCHANGED errors,
           Missed \/ (Read /\ (WritesNothing \/ \E f \in BodyFrames : Writes(f) /\ f.kind = "tool"))
    PROVE  Told'
<1>1. Typed /\ Told
  BY DEF Inv
<1>2. CASE Missed
  BY <1>2, Follows DEF Told
<1>3. CASE Read /\ WritesNothing
  BY <1>1, <1>3, Follows DEF Told, WritesNothing
<1>4. ASSUME NEW f \in BodyFrames, Read, Writes(f), f.kind = "tool" PROVE Told'
  <2>1. f \in Frames /\ frames \in Seq(Frames) /\ frames' = frames \o <<f>>
    BY <1>1, <1>4 DEF Frames, Writes, Typed
  <2>2. \A kind \in TextTypes : TextOf(frames, kind) \in Tokens /\ TextOf(frames', kind) = TextOf(frames, kind) \o <<>>
    BY <1>4, <2>1, TextGrows DEF TextTypes
  <2>3. ErrorsOf(frames) \in Seq(Classes) /\ ErrorsOf(frames') = ErrorsOf(frames) \o <<>>
    BY <1>4, <2>1, ErrorsGrow
  <2>4. \A u \in Tokens : u \o <<>> = u
    BY DEF Tokens
  <2>5. \A u \in Seq(Classes) : u \o <<>> = u
    OBVIOUS
  <2>6. /\ \A kind \in TextTypes : TextOf(frames', kind) = TextOf(frames, kind)
        /\ ErrorsOf(frames') = ErrorsOf(frames)
    BY <2>2, <2>3, <2>4, <2>5
  <2> QED BY <1>1, <1>4, <2>6, Follows DEF Told, TextTypes
<1> QED BY <1>2, <1>3, <1>4

LEMMA TextKeeps ==
    ASSUME Inv, NEW type \in TextTypes, TextStep(type)
    PROVE  Inv'
<1>1. Typed /\ InStep /\ Collected /\ Roles /\ Told
  BY DEF Inv
<1> DEFINE f == TextFrame(type, ~sentRole, token)
<1>2. f.kind = type /\ f.text = token /\ f.kind \notin {"tool", "error"}
  BY DEF TextFrame, TextTypes
<1>3. Heard /\ (Missed \/ (Read /\ Writes(f) /\ SameIndexes)) /\ (Writes(f) => f \in BodyFrames)
  BY DEF TextStep, Writes
<1> HIDE DEF f
<1>4. BodyStep
  BY <1>3 DEF BodyStep
<1>5. token \in Tokens
  BY <1>1 DEF Typed, token, Tokens
<1>6. /\ meant' \in [text : Tokens, reasoning : Tokens, calls : Seq(Calls)]
      /\ meant'.calls = meant.calls
      /\ meant'.text = IF type = "text-delta" THEN meant.text \o token ELSE meant.text
      /\ meant'.reasoning = IF type = "text-delta" THEN meant.reasoning ELSE meant.reasoning \o token
  <2>1. \A u \in Tokens : u \o token \in Tokens
    BY <1>5 DEF Tokens
  <2>2. meant \in [text : Tokens, reasoning : Tokens, calls : Seq(Calls)]
    BY <1>1 DEF Typed
  <2>3. CASE type = "text-delta" /\ meant' = [meant EXCEPT !.text = @ \o token]
    BY <2>1, <2>2, <2>3
  <2>4. CASE type = "reasoning-delta" /\ meant' = [meant EXCEPT !.reasoning = @ \o token]
    BY <2>1, <2>2, <2>4
  <2> QED BY <2>3, <2>4 DEF TextStep
<1>7. Typed'
  BY <1>1, <1>3, <1>4, <1>6, FramesKept
     DEF Typed, TextStep, Heard, Missed, Read, SameIndexes, SameCalls, streamVars
<1>8. Collected'
  BY <1>1, <1>6 DEF Collected, TextStep, Heard, SameCalls
<1>9. Numbered' /\ Indexed'
  <2>1. SameNumbers /\ meant'.calls \in Seq(Calls)
    BY <1>6 DEF SameNumbers, TextStep, SameCalls
  <2> QED BY <1>3, <2>1, NumbersKept
<1>10. Announced' /\ Assembled'
  BY <1>2, <1>3, <1>6, CallsKept
<1>11. Roles'
  <2>1. Followed' => sentRole'
    BY <1>2, <1>3, Follows DEF Writes, DeltaKinds, TextTypes
  <2> QED BY <1>4, <2>1, RolesKept DEF Roles, RoleSent
<1>12. Told'
  <2> SUFFICES ASSUME Read, Writes(f) PROVE Told'
    BY <1>3, Follows DEF Told
  <2>1. f \in Frames /\ frames \in Seq(Frames) /\ frames' = frames \o <<f>>
    BY <1>1, <1>3 DEF Frames, Writes, Typed
  <2>2. \A kind \in TextTypes : TextOf(frames, kind) \in Tokens
          /\ TextOf(frames', kind) = TextOf(frames, kind) \o (IF kind = type THEN token ELSE <<>>)
    BY <1>2, <2>1, TextGrows
  <2>3. ErrorsOf(frames) \in Seq(Classes) /\ ErrorsOf(frames') = ErrorsOf(frames) \o <<>>
    BY <1>2, <2>1, ErrorsGrow
  <2>4. \A u \in Tokens : u \o <<>> = u
    BY DEF Tokens
  <2>5. \A u \in Seq(Classes) : u \o <<>> = u
    OBVIOUS
  <2>6. ErrorsOf(frames') = ErrorsOf(frames) /\ errors' = errors
    BY <2>3, <2>5 DEF TextStep
  <2>7. Followed
    BY <1>3, Follows
  <2>8. TextOf(frames', "text-delta") = meant'.text
    BY <1>1, <1>6, <2>2, <2>4, <2>7 DEF Told, TextTypes
  <2>9. TextOf(frames', "reasoning-delta") = meant'.reasoning
    BY <1>1, <1>6, <2>2, <2>4, <2>7 DEF Told, TextTypes
  <2> QED BY <1>1, <2>6, <2>7, <2>8, <2>9 DEF Told
<1> QED BY <1>4, <1>7, <1>8, <1>9, <1>10, <1>11, <1>12, FramesKept DEF Inv

LEMMA ErrorKeeps ==
    ASSUME Inv, NEW class \in Classes, ErrorStep(class)
    PROVE  Inv'
<1>1. Typed /\ InStep /\ Collected /\ Roles /\ Told
  BY DEF Inv
<1> DEFINE f == ErrorFrame(class)
<1>2. f.kind = "error" /\ f.class = class /\ f.kind \notin DeltaKinds
  BY DEF ErrorFrame, TextTypes, DeltaKinds
<1>3. Heard /\ (Missed \/ (Read /\ Writes(f) /\ SameIndexes)) /\ (Writes(f) => f \in BodyFrames)
  BY DEF ErrorStep, Writes
<1> HIDE DEF f
<1>4. BodyStep
  BY <1>3 DEF BodyStep
<1>5. errors' \in Seq(Classes) /\ errors' # <<>>
      /\ errors'[1] = IF errors = <<>> THEN class ELSE errors[1]
  BY <1>1 DEF ErrorStep, Typed
<1>6. Typed'
  BY <1>1, <1>3, <1>4, <1>5, FramesKept
     DEF Typed, ErrorStep, Heard, Missed, Read, SameIndexes, SameCalls, streamVars
<1>7. Collected'
  <2>1. upstreamErrMsg' = errors'[1]
    <3>1. errors # <<>> => errors[1] \in Classes
      BY <1>1 DEF Typed
    <3> QED BY <1>1, <1>5, <3>1, NoneAssumption DEF ErrorStep, FirstError, Collected
  <2>2. response' = None \/ (response' = response /\ response = None)
    BY <1>1 DEF Collected, ErrorStep, Heard
  <2> QED BY <1>1, <1>5, <2>1, <2>2 DEF Collected, ErrorStep, SameCalls
<1>8. Numbered' /\ Indexed'
  <2>1. SameNumbers /\ meant'.calls \in Seq(Calls)
    BY <1>1 DEF SameNumbers, ErrorStep, SameCalls, Typed
  <2> QED BY <1>3, <2>1, NumbersKept
<1>9. Announced' /\ Assembled'
  <2>1. meant'.calls = meant.calls
    BY DEF ErrorStep
  <2> QED BY <1>2, <1>3, <2>1, CallsKept
<1>10. Roles'
  <2>1. Followed' /\ meant'.calls # <<>> => sentRole'
    BY <1>1, <1>3, Follows DEF Roles, Writes, ErrorStep
  <2> QED BY <1>4, <2>1, RolesKept DEF Roles, RoleSent
<1>11. Told'
  <2> SUFFICES ASSUME Read, Writes(f) PROVE Told'
    BY <1>3, Follows DEF Told
  <2>1. f \in Frames /\ frames \in Seq(Frames) /\ frames' = frames \o <<f>>
    BY <1>1, <1>3 DEF Frames, Writes, Typed
  <2>2. \A kind \in TextTypes : TextOf(frames, kind) \in Tokens
          /\ TextOf(frames', kind) = TextOf(frames, kind) \o <<>>
    BY <1>2, <2>1, TextGrows DEF TextTypes
  <2>3. ErrorsOf(frames') = ErrorsOf(frames) \o <<class>>
    BY <1>2, <2>1, ErrorsGrow
  <2>4. \A u \in Tokens : u \o <<>> = u
    BY DEF Tokens
  <2>5. errors' = errors \o <<class>>
    BY <1>1 DEF ErrorStep, Typed
  <2>6. Followed
    BY <1>3, Follows
  <2>7. \A kind \in TextTypes : TextOf(frames', kind) = TextOf(frames, kind)
    BY <2>2, <2>4
  <2> QED BY <1>1, <2>3, <2>5, <2>6, <2>7 DEF Told, TextTypes, ErrorStep
<1> QED BY <1>4, <1>6, <1>7, <1>8, <1>9, <1>10, <1>11, FramesKept DEF Inv

LEMMA QuietKeeps ==
    ASSUME Inv, QuietStep
    PROVE  Inv'
<1>1. Typed /\ InStep /\ Collected /\ Roles
  BY DEF Inv
<1>2. Heard /\ (Missed \/ (Read /\ WritesNothing /\ SameIndexes))
  BY DEF QuietStep
<1>3. BodyStep
  BY <1>2 DEF BodyStep
<1>4. dialect' \in [Ids -> {"new", "old", "streamed", "called"}]
      /\ \A id \in Ids : dialect'[id] = "new" <=> dialect[id] = "new"
  BY <1>1 DEF QuietStep, Typed
<1>5. Typed'
  BY <1>1, <1>2, <1>3, <1>4, FramesKept
     DEF Typed, QuietStep, Heard, Missed, Read, SameIndexes, SameCalls, streamVars
<1>6. Collected'
  BY <1>1 DEF Collected, QuietStep, Heard, SameCalls
<1>7. Numbered' /\ Indexed'
  <2>1. SameNumbers /\ meant'.calls \in Seq(Calls)
    BY <1>1, <1>4 DEF SameNumbers, QuietStep, SameCalls, Typed
  <2> QED BY <1>2, <2>1, NumbersKept
<1>8. Announced' /\ Assembled' /\ Told'
  <2>1. UNCHANGED <<meant, errors>>
    BY DEF QuietStep
  <2>2. Announced' /\ Assembled'
    BY <1>2, <2>1, CallsKept
  <2>3. Told'
    BY <1>2, <2>1, TextsKept
  <2> QED BY <2>2, <2>3
<1>9. Roles'
  <2>1. Followed' /\ meant'.calls # <<>> => sentRole'
    BY <1>1, <1>2, Follows DEF Roles, WritesNothing, QuietStep
  <2> QED BY <1>3, <2>1, RolesKept DEF Roles, RoleSent
<1> QED BY <1>3, <1>5, <1>6, <1>7, <1>8, <1>9, FramesKept DEF Inv

(* Where the frames of calls are after one more.                           *)
LEMMA ToolWritten ==
    ASSUME Typed, NEW f \in BodyFrames, Writes(f), f.kind = "tool"
    PROVE  /\ Len(frames) \in Nat /\ Len(frames) + 1 \notin ToolFrames
           /\ ToolFrames' = ToolFrames \union {Len(frames) + 1}
           /\ frames'[Len(frames) + 1] = f
           /\ \A k \in ToolFrames : frames'[k] = frames[k]
           /\ \A index \in Nat : ArgsOf(frames, index) \in Tokens
                /\ ClientArgs(index)' = ClientArgs(index) \o (IF f.index = index THEN f.args ELSE <<>>)
<1> DEFINE n == Len(frames)
<1>1. f \in Frames /\ frames \in Seq(Frames) /\ frames' = frames \o <<f>>
  BY DEF Frames, Writes, Typed
<1>2. /\ n \in Nat /\ DOMAIN frames = 1..n /\ DOMAIN frames' = 1..(n + 1)
      /\ frames'[n + 1] = f /\ \A k \in 1..n : frames'[k] = frames[k]
  BY <1>1, OneMore
<1>3. ToolFrames' = ToolFrames \union {n + 1} /\ n + 1 \notin ToolFrames
  <2> HIDE DEF n
  <2>1. \A k \in 1..(n + 1) : k \in 1..n \/ k = n + 1
    BY <1>2
  <2>2. (\A k \in 1..n : k \in 1..(n + 1)) /\ n + 1 \notin 1..n /\ n + 1 \in 1..(n + 1)
    BY <1>2
  <2> QED BY <1>2, <2>1, <2>2 DEF ToolFrames
<1>4. \A index \in Nat : ArgsOf(frames, index) \in Tokens
        /\ ArgsOf(frames', index) = ArgsOf(frames, index) \o (IF f.index = index THEN f.args ELSE <<>>)
  BY <1>1, ArgsGrow
<1>5. \A k \in ToolFrames : frames'[k] = frames[k]
  BY <1>2 DEF ToolFrames
<1> QED BY <1>2, <1>3, <1>4, <1>5 DEF ClientArgs

LEMMA OpenKeeps ==
    ASSUME Inv, NEW id \in Ids, NEW args \in Tokens, NEW as \in {"old", "streamed", "called"},
           OpenStep(id, args, as)
    PROVE  Inv'
<1> DEFINE n == Len(meant.calls)
           call == [id |-> id, args |-> args]
           f == ToolFrame(~sentRole, toolCallIndex, id, args)
<1>1. Typed /\ InStep /\ Collected /\ Numbered /\ Indexed /\ Announced /\ Assembled
  BY DEF Inv
<1>2. f.kind = "tool" /\ f.index = toolCallIndex /\ f.id = id /\ f.args = args
  BY DEF ToolFrame
<1>3. Heard /\ (Missed \/ (Read /\ Writes(f) /\ Allocate(id))) /\ (Writes(f) => f \in BodyFrames)
  BY DEF OpenStep, Writes
<1>4. call \in Calls /\ call.id = id /\ call.args = args
  BY DEF Calls
<1> HIDE DEF f, call
<1>5. BodyStep
  BY <1>3 DEF BodyStep
<1>6. /\ meant' \in [text : Tokens, reasoning : Tokens, calls : Seq(Calls)]
      /\ meant'.text = meant.text /\ meant'.reasoning = meant.reasoning
      /\ meant'.calls = Append(meant.calls, call)
  <2>1. meant \in [text : Tokens, reasoning : Tokens, calls : Seq(Calls)] /\ meant.calls \in Seq(Calls)
    BY <1>1 DEF Typed
  <2>2. Append(meant.calls, call) \in Seq(Calls)
    BY <1>4, <2>1, Appended
  <2>3. meant' = [meant EXCEPT !.calls = Append(meant.calls, call)]
    BY DEF OpenStep, Opens, call
  <2> QED BY <2>1, <2>2, <2>3
<1>7. /\ n \in Nat /\ DOMAIN meant.calls = 1..n /\ DOMAIN meant'.calls = 1..(n + 1)
      /\ Len(meant'.calls) = n + 1 /\ meant'.calls # <<>>
      /\ meant'.calls[n + 1] = call
      /\ \A k \in 1..n : meant'.calls[k] = meant.calls[k] /\ meant.calls[k].id \in Ids
  <2>1. meant.calls \in Seq(Calls)
    BY <1>1 DEF Typed
  <2> DEFINE s == meant.calls
             t == Append(s, call)
  <2>2. /\ t \in Seq(Calls) /\ n \in Nat /\ DOMAIN s = 1..n /\ DOMAIN t = 1..(n + 1)
        /\ Len(t) = n + 1 /\ t[n + 1] = call /\ \A k \in 1..n : t[k] = s[k] /\ s[k] \in Calls
    BY <1>4, <2>1, Appended
  <2> HIDE DEF t, n
  <2>3. t # <<>>
    BY <2>2
  <2>4. \A k \in 1..n : s[k].id \in Ids
    BY <2>2 DEF Calls
  <2> QED BY <1>6, <2>2, <2>3, <2>4 DEF t
<1> HIDE DEF n
<1>8. \A k \in 1..(n + 1) : k \in 1..n \/ k = n + 1
  BY <1>7
<1>9. n + 1 \in 1..(n + 1) /\ n + 1 \in Nat /\ \A k \in 1..n : k \in 1..(n + 1) /\ k # n + 1
  BY <1>7
<1>10. toolCallByID' = [toolCallByID EXCEPT ![id] = n + 1] /\ toolCalls' = meant'.calls
  BY <1>1, <1>6 DEF OpenStep, Opened, Collected, call, n
<1>11. Missed => UNCHANGED <<toolCallIndex, toolCallIndexes>>
  BY DEF Missed, streamVars
<1>12. toolCallIndex' \in Nat /\ toolCallIndexes' \in [Ids -> Nat \union {None}]
  BY <1>1, <1>3, <1>11 DEF Allocate, Typed
<1>13. Typed'
  <2>1. dialect' \in [Ids -> {"new", "old", "streamed", "called"}]
    BY <1>1 DEF OpenStep, Typed
  <2>2. toolCallByID' \in [Ids -> Nat \union {None}]
    BY <1>1, <1>9, <1>10 DEF Typed
  <2> QED BY <1>1, <1>3, <1>5, <1>6, <1>12, <2>1, <2>2, FramesKept
          DEF Typed, OpenStep, Heard, Missed, Read, streamVars
<1>14. Collected'
  BY <1>1, <1>6, <1>7, <1>10 DEF Collected, OpenStep, Heard
<1>15. Numbered'
  <2>1. \A k \in 1..n : meant.calls[k].id # id /\ meant.calls[k].id \in Ids
    <3> SUFFICES ASSUME NEW k \in 1..n PROVE meant.calls[k].id # id /\ meant.calls[k].id \in Ids
      OBVIOUS
    <3>1. toolCallByID[meant.calls[k].id] = k
      BY <1>1, <1>7 DEF Numbered
    <3>2. toolCallByID[id] = None /\ k # None
      BY <1>7, NoneAssumption DEF OpenStep
    <3> QED BY <1>7, <3>1, <3>2
  <2>2. \A i \in Ids : /\ toolCallByID'[i] = (IF i = id THEN n + 1 ELSE toolCallByID[i])
                       /\ dialect'[i] = (IF i = id THEN as ELSE dialect[i])
    BY <1>1, <1>10 DEF OpenStep, Typed
  <2>3. \A i \in Ids : toolCallByID'[i] = None <=> dialect'[i] = "new"
    <3> SUFFICES ASSUME NEW i \in Ids PROVE toolCallByID'[i] = None <=> dialect'[i] = "new"
      OBVIOUS
    <3>1. CASE i = id
      <4>1. toolCallByID'[i] = n + 1 /\ dialect'[i] = as
        BY <2>2, <3>1
      <4>2. n + 1 # None /\ as # "new"
        BY <1>9, NoneAssumption
      <4> QED BY <4>1, <4>2
    <3>2. CASE i # id
      <4>1. toolCallByID'[i] = toolCallByID[i] /\ dialect'[i] = dialect[i]
        BY <2>2, <3>2
      <4> QED BY <1>1, <4>1 DEF Numbered
    <3> QED BY <3>1, <3>2
  <2>4. ASSUME NEW i \in Ids, toolCallByID'[i] # None
        PROVE  toolCallByID'[i] \in 1..(n + 1) /\ meant'.calls[toolCallByID'[i]].id = i
    <3>1. CASE i = id
      BY <1>4, <1>7, <1>9, <2>2, <3>1
    <3>2. CASE i # id
      <4>1. toolCallByID'[i] = toolCallByID[i]
        BY <2>2, <3>2
      <4>2. toolCallByID[i] \in 1..n /\ meant.calls[toolCallByID[i]].id = i
        BY <1>1, <1>7, <2>4, <4>1 DEF Numbered
      <4> QED BY <1>7, <1>9, <4>1, <4>2
    <3> QED BY <3>1, <3>2
  <2>5. ASSUME NEW k \in 1..(n + 1) PROVE toolCallByID'[meant'.calls[k].id] = k
    <3>1. CASE k = n + 1
      BY <1>4, <1>7, <2>2, <3>1
    <3>2. CASE k \in 1..n
      <4>1. toolCallByID[meant.calls[k].id] = k
        BY <1>1, <1>7, <3>2 DEF Numbered
      <4> QED BY <1>7, <2>1, <2>2, <3>2, <4>1
    <3> QED BY <1>8, <3>1, <3>2
  <2> QED BY <1>7, <2>3, <2>4, <2>5 DEF Numbered
<1>16. Indexed'
  <2>1. CASE Missed
    <3>1. ~Followed'
      BY <1>3, <2>1, Follows
    <3>2. toolCallIndex' <= n + 1
      BY <1>1, <1>7, <1>11, <2>1 DEF Indexed, Typed, n
    <3>3. \A i \in Ids : toolCallIndexes'[i] # None => toolCallIndexes'[i] < n + 1
      <4>1. \A i \in Ids : toolCallIndexes[i] # None => toolCallIndexes[i] \in Nat /\ toolCallIndexes[i] < n
        BY <1>1 DEF Indexed, Typed, n
      <4> QED BY <1>7, <1>11, <2>1, <4>1
    <3> QED BY <1>7, <3>1, <3>2, <3>3 DEF Indexed
  <2>2. CASE Read /\ Allocate(id)
    <3>1. Followed /\ toolCallIndex = n
      BY <1>1, <1>3, <2>2, Follows DEF Indexed, n
    <3>2. toolCallIndex' = n + 1
      BY <2>2, <3>1 DEF Allocate
    <3>3. \A i \in Ids : toolCallIndexes'[i] = IF i = id THEN n ELSE toolCallIndexes[i]
      BY <1>1, <2>2, <3>1 DEF Allocate, Typed
    <3>4. \A i \in Ids : toolCallByID'[i] = (IF i = id THEN n + 1 ELSE toolCallByID[i])
      BY <1>1, <1>10 DEF Typed
    <3>5. \A i \in Ids : toolCallIndexes'[i] = IF toolCallByID'[i] = None THEN None
                                               ELSE toolCallByID'[i] - 1
      BY <1>1, <1>7, <1>9, <3>1, <3>3, <3>4, NoneAssumption DEF Indexed
    <3>6. \A i \in Ids : toolCallIndexes'[i] # None => toolCallIndexes'[i] < n + 1
      <4>1. \A i \in Ids : toolCallIndexes[i] # None => toolCallIndexes[i] \in Nat /\ toolCallIndexes[i] < n
        BY <1>1 DEF Indexed, Typed, n
      <4> QED BY <1>7, <3>3, <4>1
    <3> QED BY <1>7, <3>2, <3>5, <3>6 DEF Indexed
  <2> QED BY <1>3, <2>1, <2>2
<1>17. Told'
  BY <1>2, <1>3, <1>6, TextsKept DEF OpenStep
<1>18. Roles'
  <2>1. Followed' => sentRole'
    BY <1>2, <1>3, Follows DEF Writes, DeltaKinds
  <2> QED BY <1>5, <2>1, RolesKept DEF Roles, RoleSent
<1>19. ASSUME Read, Writes(f)
       PROVE  Announced' /\ Assembled'
  <2> DEFINE m == Len(frames)
  <2>1. f.index = n /\ Followed
    BY <1>1, <1>2, <1>3, <1>19, Follows DEF Indexed, n
  <2>2. /\ ToolFrames' = ToolFrames \union {m + 1} /\ frames'[m + 1] = f
        /\ \A k \in ToolFrames : frames'[k] = frames[k]
        /\ \A index \in Nat : ArgsOf(frames, index) \in Tokens
             /\ ClientArgs(index)' = ClientArgs(index) \o (IF n = index THEN args ELSE <<>>)
    BY <1>1, <1>2, <1>3, <1>19, <2>1, ToolWritten
  <2> HIDE DEF m
  <2>3. \A k \in ToolFrames : frames[k].index + 1 \in 1..n
          /\ frames[k].id \in {None, meant.calls[frames[k].index + 1].id}
    BY <1>1, <1>7, <2>1 DEF Announced
  <2>4. \A k \in ToolFrames' : frames'[k].index + 1 \in 1..(n + 1)
          /\ frames'[k].id \in {None, meant'.calls[frames'[k].index + 1].id}
    <3> SUFFICES ASSUME NEW k \in ToolFrames'
                 PROVE  /\ frames'[k].index + 1 \in 1..(n + 1)
                        /\ frames'[k].id \in {None, meant'.calls[frames'[k].index + 1].id}
      OBVIOUS
    <3>1. CASE k \in ToolFrames
      <4>1. frames'[k] = frames[k] /\ frames[k].index + 1 \in 1..n
        BY <2>2, <2>3, <3>1
      <4> QED BY <1>7, <1>9, <2>3, <3>1, <4>1
    <3>2. CASE k = m + 1
      <4>1. frames'[k].index = n /\ frames'[k].id = id
        BY <1>2, <2>1, <2>2, <3>2
      <4> QED BY <1>4, <1>7, <1>9, <4>1
    <3> QED BY <2>2, <3>1, <3>2
  <2>5. ASSUME NEW c \in 1..(n + 1)
        PROVE  \E k \in ToolFrames' : frames'[k].index = c - 1 /\ frames'[k].id = meant'.calls[c].id
    <3>1. CASE c = n + 1
      <4>1. c - 1 = n /\ meant'.calls[c].id = id
        BY <1>4, <1>7, <3>1
      <4>2. m + 1 \in ToolFrames' /\ frames'[m + 1].index = n /\ frames'[m + 1].id = id
        BY <1>2, <2>1, <2>2
      <4> QED BY <4>1, <4>2
    <3>2. CASE c \in 1..n
      <4>1. PICK k \in ToolFrames : frames[k].index = c - 1 /\ frames[k].id = meant.calls[c].id
        BY <1>1, <1>7, <2>1, <3>2 DEF Announced
      <4> QED BY <1>7, <2>2, <3>2, <4>1
    <3> QED BY <1>8, <3>1, <3>2
  <2>6. Announced'
    BY <1>7, <2>4, <2>5 DEF Announced
  <2>7. ASSUME ArgsAreStreamed, NEW index \in Nat PROVE ClientArgs(index)' = ArgsAt(index)'
    <3>1. ClientArgs(index) = ArgsAt(index) /\ ClientArgs(index) \in Tokens
      BY <1>1, <2>1, <2>2, <2>7 DEF Assembled, ClientArgs
    <3>2. \A u \in Tokens : u \o <<>> = u /\ <<>> \o u = u
      BY DEF Tokens
    <3>3. CASE index = n
      <4>1. index + 1 \notin 1..n /\ index + 1 \in 1..(n + 1) /\ index + 1 = n + 1
        BY <1>7, <3>3
      <4>2. ArgsAt(index) = <<>> /\ ArgsAt(index)' = args
        BY <1>4, <1>7, <4>1 DEF ArgsAt
      <4> QED BY <2>2, <3>1, <3>2, <3>3, <4>2
    <3>4. CASE index # n
      <4>1. index + 1 \in 1..n <=> index + 1 \in 1..(n + 1)
        BY <1>7, <3>4
      <4>2. ArgsAt(index)' = ArgsAt(index)
        BY <1>7, <4>1 DEF ArgsAt
      <4> QED BY <2>2, <3>1, <3>2, <3>4, <4>2
    <3> QED BY <3>3, <3>4
  <2>8. Assembled'
    BY <2>7 DEF Assembled
  <2> QED BY <2>6, <2>8
<1>20. Announced' /\ Assembled'
  BY <1>3, <1>19, Follows DEF Announced, Assembled
<1> QED BY <1>5, <1>13, <1>14, <1>15, <1>16, <1>17, <1>18, <1>20, FramesKept DEF Inv

LEMMA ArgsKeeps ==
    ASSUME Inv, NEW id \in Ids, NEW as \in {"old", "streamed", "called"}, ArgsStep(id, as)
    PROVE  Inv'
<1> DEFINE n == Len(meant.calls)
           p == toolCallByID[id]
           f == ToolFrame(FALSE, p - 1, None, token)
<1>1. Typed /\ InStep /\ Collected /\ Numbered /\ Roles /\ Announced /\ Assembled
  BY DEF Inv
<1>2. f.kind = "tool" /\ f.index = p - 1 /\ f.id = None /\ f.args = token
  BY DEF ToolFrame
<1>3. /\ Heard /\ (Writes(f) => f \in BodyFrames)
      /\ Missed \/ (Read /\ SameIndexes /\ (Writes(f) \/ (WritesNothing /\ ~ArgsAreStreamed)))
  BY DEF ArgsStep, Writes
<1>4. p \in Nat /\ p \in 1..n /\ meant.calls[p].id = id /\ Position(id) = p /\ meant.calls # <<>>
  BY Place DEF ArgsStep
<1>5. token \in Tokens /\ \A u \in Tokens : u \o token \in Tokens /\ u \o <<>> = u
  BY <1>1 DEF Typed, token, Tokens
<1> HIDE DEF f
<1>6. BodyStep
  BY <1>3 DEF BodyStep
<1>7. /\ n \in Nat /\ DOMAIN meant.calls = 1..n /\ meant.calls \in Seq(Calls)
      /\ \A k \in 1..n : meant.calls[k] \in Calls
      /\ \A c \in Calls : c.args \in Tokens
  <2>1. meant.calls \in Seq(Calls)
    BY <1>1 DEF Typed
  <2>2. n \in Nat /\ DOMAIN meant.calls = 1..n /\ \A k \in 1..n : meant.calls[k] \in Calls
    BY <2>1
  <2>3. \A c \in Calls : c.args \in Tokens
    BY DEF Calls
  <2> QED BY <2>1, <2>2, <2>3
<1>8. /\ meant'.text = meant.text /\ meant'.reasoning = meant.reasoning
      /\ meant' = [meant EXCEPT !.calls = meant'.calls]
      /\ meant'.calls = [meant.calls EXCEPT ![p].args = meant.calls[p].args \o token]
  <2>1. Extends(id) /\ Position(id) = p /\ p \in DOMAIN meant.calls
    BY <1>4, <1>7 DEF ArgsStep
  <2> HIDE DEF p
  <2>2. /\ meant' = [meant EXCEPT !.calls = meant'.calls]
        /\ meant'.text = meant.text /\ meant'.reasoning = meant.reasoning
        /\ meant'.calls = [meant.calls EXCEPT ![Position(id)].args = @ \o token]
    BY <1>1, <2>1, Extended
  <2> QED BY <2>1, <2>2
<1> HIDE DEF p, n
<1>9. /\ meant'.calls \in Seq(Calls) /\ Len(meant'.calls) = n /\ DOMAIN meant'.calls = 1..n
      /\ \A k \in 1..n : /\ meant'.calls[k].id = meant.calls[k].id
                         /\ meant'.calls[k].args = IF k = p THEN meant.calls[p].args \o token
                                                   ELSE meant.calls[k].args
  <2> DEFINE s == meant.calls
             c == [id |-> id, args |-> s[p].args \o token]
             t == [s EXCEPT ![p] = c]
  <2>1. s[p].args \o token \in Tokens
    BY <1>4, <1>5, <1>7
  <2>2. c \in Calls /\ c.id = id /\ c.args = s[p].args \o token
    BY <2>1 DEF Calls
  <2>3. [s[p] EXCEPT !.args = s[p].args \o token] = c
    <3> DEFINE old == s[p]
               new == s[p].args \o token
    <3>1. old \in Calls /\ old.id = id
      BY <1>4, <1>7
    <3> HIDE DEF old, new
    <3>2. [old EXCEPT !.args = new] = [id |-> id, args |-> new]
      BY <3>1 DEF Calls
    <3> QED BY <3>2 DEF old, new
  <2>4. meant'.calls = t
    BY <1>8, <2>3
  <2> HIDE DEF c
  <2>5. t \in Seq(Calls) /\ Len(t) = Len(s) /\ \A k \in 1..n : t[k] = IF k = p THEN c ELSE s[k]
    BY <1>4, <1>7, <2>2
  <2>6. Len(s) = n
    BY DEF n
  <2> HIDE DEF t
  <2>7. DOMAIN t = 1..n
    BY <1>7, <2>5, <2>6
  <2> QED BY <1>4, <2>2, <2>4, <2>5, <2>6, <2>7
<1>10. meant' \in [text : Tokens, reasoning : Tokens, calls : Seq(Calls)] /\ meant'.calls # <<>>
  <2>1. meant \in [text : Tokens, reasoning : Tokens, calls : Seq(Calls)]
    BY <1>1 DEF Typed
  <2>2. meant'.calls \in Seq(Calls)
    BY <1>9
  <2>3. meant' \in [text : Tokens, reasoning : Tokens, calls : Seq(Calls)]
    BY <1>8, <2>1, <2>2
  <2>4. meant'.calls # <<>>
    BY <1>4, <1>7, <1>9
  <2> QED BY <2>3, <2>4
<1>11. dialect' \in [Ids -> {"new", "old", "streamed", "called"}]
       /\ \A i \in Ids : dialect'[i] = "new" <=> dialect[i] = "new"
  BY <1>1 DEF ArgsStep, Typed
<1>12. SameIndexes
  BY <1>3 DEF Missed, SameIndexes, streamVars
<1>13. Typed'
  BY <1>1, <1>3, <1>6, <1>10, <1>11, <1>12, FramesKept
     DEF Typed, ArgsStep, Heard, Missed, Read, SameIndexes, streamVars
<1>14. Collected'
  BY <1>1, <1>8, <1>10 DEF Collected, ArgsStep, Heard
<1>15. Numbered' /\ Indexed'
  <2>1. SameNumbers
    BY <1>9, <1>11 DEF SameNumbers, ArgsStep, n
  <2> QED BY <1>3, <1>9, <2>1, NumbersKept
<1>16. Told'
  BY <1>2, <1>3, <1>8, TextsKept DEF ArgsStep
<1>17. Roles'
  <2>1. Followed' => sentRole'
    <3>1. Followed => sentRole
      BY <1>1, <1>4 DEF Roles
    <3>2. CASE Missed
      BY <1>3, <3>2, Follows
    <3>3. CASE Read /\ (Writes(f) \/ WritesNothing)
      <4>1. sentRole
        BY <1>3, <3>1, <3>3, Follows
      <4>2. CASE Writes(f)
        BY <4>1, <4>2 DEF Writes
      <4>3. CASE WritesNothing
        BY <4>1, <4>3 DEF WritesNothing
      <4> QED BY <3>3, <4>2, <4>3
    <3> QED BY <1>3, <3>2, <3>3
  <2> QED BY <1>6, <2>1, RolesKept DEF Roles, RoleSent
<1>18. ASSUME Read, Writes(f) PROVE Announced' /\ Assembled'
  <2> DEFINE m == Len(frames)
  <2>1. Followed
    BY <1>3, <1>18, Follows
  <2>2. /\ ToolFrames' = ToolFrames \union {m + 1} /\ frames'[m + 1] = f
        /\ \A k \in ToolFrames : frames'[k] = frames[k]
        /\ \A index \in Nat : ArgsOf(frames, index) \in Tokens
             /\ ClientArgs(index)' = ClientArgs(index) \o (IF p - 1 = index THEN token ELSE <<>>)
    BY <1>1, <1>2, <1>3, <1>18, <2>1, ToolWritten
  <2> HIDE DEF m
  <2>3. ASSUME NEW k \in ToolFrames'
        PROVE  /\ frames'[k].index + 1 \in 1..n
               /\ frames'[k].id \in {None, meant'.calls[frames'[k].index + 1].id}
    <3>1. CASE k \in ToolFrames
      <4>1. /\ frames'[k] = frames[k] /\ frames[k].index + 1 \in 1..n
            /\ frames[k].id \in {None, meant.calls[frames[k].index + 1].id}
        BY <1>1, <1>7, <2>1, <2>2, <3>1 DEF Announced
      <4> QED BY <1>9, <4>1
    <3>2. CASE k = m + 1
      BY <1>2, <1>4, <2>2, <3>2
    <3> QED BY <2>2, <2>3, <3>1, <3>2
  <2>4. ASSUME NEW c \in 1..n
        PROVE  \E k \in ToolFrames' : frames'[k].index = c - 1 /\ frames'[k].id = meant'.calls[c].id
    <3>1. PICK k \in ToolFrames : frames[k].index = c - 1 /\ frames[k].id = meant.calls[c].id
      BY <1>1, <1>7, <2>1 DEF Announced
    <3> QED BY <1>9, <2>2, <3>1
  <2>5. Announced'
    BY <1>9, <2>3, <2>4 DEF Announced
  <2>6. ASSUME ArgsAreStreamed, NEW index \in Nat PROVE ClientArgs(index)' = ArgsAt(index)'
    <3>1. ClientArgs(index) = ArgsAt(index) /\ ClientArgs(index) \in Tokens
      BY <1>1, <2>1, <2>2, <2>6 DEF Assembled, ClientArgs
    <3>2. CASE index = p - 1
      <4>1. index + 1 = p
        BY <1>4, <3>2
      <4>2. ArgsAt(index) = meant.calls[p].args /\ ArgsAt(index)' = meant.calls[p].args \o token
        BY <1>4, <1>7, <1>9, <4>1 DEF ArgsAt
      <4> QED BY <2>2, <3>1, <3>2, <4>2
    <3>3. CASE index # p - 1
      <4>1. index + 1 # p
        BY <1>4, <3>3
      <4>2. ArgsAt(index)' = ArgsAt(index)
        BY <1>7, <1>9, <4>1 DEF ArgsAt
      <4> QED BY <1>5, <2>2, <3>1, <3>3, <4>2
    <3> QED BY <3>2, <3>3
  <2>7. Assembled'
    BY <2>6 DEF Assembled
  <2> QED BY <2>5, <2>7
<1>19. ASSUME Read, WritesNothing, ~ArgsAreStreamed PROVE Announced' /\ Assembled'
  <2>1. Followed
    BY <1>3, <1>19, Follows
  <2>2. Announced'
    <3>1. ToolFrames' = ToolFrames /\ frames' = frames
      BY <1>19 DEF WritesNothing, ToolFrames
    <3>2. ASSUME NEW k \in ToolFrames
          PROVE  /\ frames[k].index + 1 \in 1..n
                 /\ frames[k].id \in {None, meant'.calls[frames[k].index + 1].id}
      <4>1. /\ frames[k].index + 1 \in 1..n
            /\ frames[k].id \in {None, meant.calls[frames[k].index + 1].id}
        BY <1>1, <1>7, <2>1 DEF Announced
      <4> QED BY <1>9, <4>1
    <3>3. ASSUME NEW c \in 1..n
          PROVE  \E k \in ToolFrames : frames[k].index = c - 1 /\ frames[k].id = meant'.calls[c].id
      <4>1. PICK k \in ToolFrames : frames[k].index = c - 1 /\ frames[k].id = meant.calls[c].id
        BY <1>1, <1>7, <2>1 DEF Announced
      <4> QED BY <1>9, <4>1
    <3> QED BY <1>9, <3>1, <3>2, <3>3 DEF Announced
  <2> QED BY <1>19, <2>2 DEF Assembled
<1>20. Announced' /\ Assembled'
  BY <1>3, <1>18, <1>19, Follows DEF Announced, Assembled
<1> QED BY <1>6, <1>13, <1>14, <1>15, <1>16, <1>17, <1>20, FramesKept DEF Inv

(* The end of the stream, its finish, usage and done frames.               *)
HasTail(gs, fs, f, usage) ==
    /\ gs \in Seq(Frames) /\ Same(gs, fs)
    /\ Len(fs) \in Nat /\ Len(gs) = Len(fs) + (IF usage THEN 3 ELSE 2)
    /\ \A k \in 1..Len(fs) : gs[k] = fs[k]
    /\ gs[Len(fs) + 1] = f
    /\ gs[Len(fs) + 2] = IF usage THEN UsageFrame ELSE DoneFrame
    /\ usage => gs[Len(fs) + 3] = DoneFrame

LEMMA LastFrames ==
    ASSUME NEW fs \in Seq(Frames), NEW f \in FinishFrames, NEW usage \in BOOLEAN, NEW gs,
           gs = fs \o (<<f>> \o (IF usage THEN <<UsageFrame>> ELSE <<>>) \o <<DoneFrame>>)
    PROVE  HasTail(gs, fs, f, usage)
<1>1. /\ f \in ClosingFrames /\ UsageFrame \in ClosingFrames /\ DoneFrame \in ClosingFrames
      /\ \A x \in ClosingFrames : x \in Frames
  BY DEF ClosingFrames, Frames
<1> DEFINE one == fs \o <<f>>
           two == one \o <<UsageFrame>>
<1>2. one \in Seq(Frames) /\ Same(one, fs)
  BY <1>1, ClosingIsQuiet
<1>3. CASE ~usage
  <2> HIDE DEF one
  <2>1. one \o <<DoneFrame>> \in Seq(Frames) /\ Same(one \o <<DoneFrame>>, one)
    BY <1>1, <1>2, ClosingIsQuiet
  <2>2. gs = one \o <<DoneFrame>>
    <3> HIDE DEF DoneFrame
    <3>1. gs = fs \o (<<f>> \o <<>> \o <<DoneFrame>>)
      BY <1>3
    <3>2. <<f>> \o <<>> \o <<DoneFrame>> = <<f>> \o <<DoneFrame>>
      BY <1>1
    <3> QED BY <1>1, <3>1, <3>2 DEF one
  <2>3. /\ Len(fs) \in Nat /\ Len(gs) = Len(fs) + 2 /\ \A k \in 1..Len(fs) : gs[k] = fs[k]
        /\ gs[Len(fs) + 1] = f /\ gs[Len(fs) + 2] = DoneFrame
    <3> HIDE DEF DoneFrame, UsageFrame
    <3> QED BY <1>1, <2>2 DEF one
  <2> QED BY <1>2, <1>3, <2>1, <2>2, <2>3 DEF Same, HasTail
<1>4. CASE usage
  <2> HIDE DEF one
  <2>1. two \in Seq(Frames) /\ Same(two, one)
    BY <1>1, <1>2, ClosingIsQuiet
  <2> HIDE DEF two
  <2>2. two \o <<DoneFrame>> \in Seq(Frames) /\ Same(two \o <<DoneFrame>>, two)
    BY <1>1, <2>1, ClosingIsQuiet
  <2>3. gs = two \o <<DoneFrame>>
    <3> HIDE DEF DoneFrame, UsageFrame
    <3> QED BY <1>1, <1>4 DEF one, two
  <2>4. /\ Len(fs) \in Nat /\ Len(gs) = Len(fs) + 3 /\ \A k \in 1..Len(fs) : gs[k] = fs[k]
        /\ gs[Len(fs) + 1] = f /\ gs[Len(fs) + 2] = UsageFrame /\ gs[Len(fs) + 3] = DoneFrame
    <3> HIDE DEF DoneFrame, UsageFrame
    <3> QED BY <1>1, <2>3 DEF one, two
  <2> QED BY <1>2, <1>4, <2>1, <2>2, <2>3, <2>4 DEF Same, HasTail
<1> QED BY <1>3, <1>4

(* Frames that close the stream, if any, come after those that were there. *)
Ends ==
    /\ frames' \in Seq(Frames) /\ Same(frames', frames)
    /\ DOMAIN frames \subseteq DOMAIN frames'
    /\ \A k \in DOMAIN frames : frames'[k] = frames[k]
    /\ \A k \in DOMAIN frames' \ DOMAIN frames :
          frames'[k].kind \notin DeltaKinds /\ \A j \in DOMAIN frames : j < k

LEMMA EndsKeep ==
    ASSUME Inv, Ends, UNCHANGED <<meant, errors, dialect, toolCallByID, toolCallIndex, toolCallIndexes, sentRole>>,
           Followed' => Followed
    PROVE  Numbered' /\ Indexed' /\ Roles' /\ Told' /\ Announced' /\ Assembled'
<1>1. Typed /\ Numbered /\ Indexed /\ Roles /\ Told /\ Announced /\ Assembled
  BY DEF Inv
<1>2. Numbered' /\ Indexed'
  BY <1>1 DEF Numbered, Indexed
<1>3. DOMAIN frames = 1..Len(frames) /\ Len(frames) \in Nat
  BY <1>1 DEF Typed
<1>4. DOMAIN frames' = 1..Len(frames') /\ Len(frames') \in Nat
  BY DEF Ends
<1>5. RoleSent'
  BY <1>1 DEF Roles, RoleSent, Ends
<1>6. RoleOnce'
  <2> SUFFICES ASSUME NEW k \in DOMAIN frames', frames'[k].kind \in DeltaKinds
               PROVE  frames'[k].role <=> \A j \in 1..(k - 1) : frames'[j].kind \notin DeltaKinds
    BY DEF RoleOnce
  <2>1. k \in DOMAIN frames /\ frames'[k] = frames[k]
    BY DEF Ends
  <2>2. \A j \in 1..(k - 1) : j \in DOMAIN frames
    BY <1>3, <2>1
  <2>3. \A j \in 1..(k - 1) : frames'[j] = frames[j]
    BY <2>2 DEF Ends
  <2> QED BY <1>1, <2>1, <2>3 DEF Roles, RoleOnce
<1>7. Roles'
  BY <1>1, <1>5, <1>6 DEF Roles, RoleSent
<1>8. Told'
  BY <1>1 DEF Told, Ends, Same, TextTypes
<1>9. ToolFrames' = ToolFrames /\ \A k \in ToolFrames : frames'[k] = frames[k]
  BY DEF ToolFrames, Ends, DeltaKinds
<1>10. Announced'
  BY <1>1, <1>9 DEF Announced
<1>11. Assembled'
  <2>1. \A index \in Nat : ClientArgs(index)' = ClientArgs(index)
    BY DEF ClientArgs, Ends, Same
  <2>2. \A index \in Nat : ArgsAt(index)' = ArgsAt(index)
    BY DEF ArgsAt
  <2> QED BY <1>1, <2>1, <2>2 DEF Assembled
<1> QED BY <1>2, <1>7, <1>8, <1>10, <1>11

LEMMA Still ==
    ASSUME Typed, UNCHANGED frames
    PROVE  Ends
  BY DEF Ends, Same, Typed

(* A tail on the parts of the answer makes a closed stream.                *)
LEMMA TailCloses ==
    ASSUME Typed, \A k \in DOMAIN frames : frames[k] \in BodyFrames,
           NEW f \in FinishFrames, NEW usage \in BOOLEAN, usage <=> finished' /\ includeUsage',
           frames' = frames \o (<<f>> \o (IF usage THEN <<UsageFrame>> ELSE <<>>) \o <<DoneFrame>>)
    PROVE  Ends /\ \E n \in Nat : ClosedAt(n)'
<1> DEFINE m == IF usage THEN 3 ELSE 2
<1>0. PICK n \in Nat : n = Len(frames)
  BY DEF Typed
<1>1. /\ frames' \in Seq(Frames) /\ Same(frames', frames)
      /\ n \in Nat /\ Len(frames') = n + m
      /\ \A k \in 1..n : frames'[k] = frames[k]
      /\ frames'[n + 1] = f
      /\ frames'[n + 2] = IF usage THEN UsageFrame ELSE DoneFrame
      /\ usage => frames'[n + 3] = DoneFrame
  <2>1. frames \in Seq(Frames)
    BY DEF Typed
  <2>2. HasTail(frames', frames, f, usage)
    BY <2>1, LastFrames
  <2> QED BY <1>0, <2>2 DEF HasTail
<1>2. DOMAIN frames = 1..n /\ DOMAIN frames' = 1..(n + m)
  BY <1>0, <1>1 DEF Typed
<1>3. m \in {2, 3} /\ (usage => m = 3) /\ (~usage => m = 2)
  OBVIOUS
<1> HIDE DEF m
<1>4. /\ frames'[n + 1].kind = "finish"
      /\ usage => frames'[n + 2].kind = "usage" /\ frames'[n + 3].kind = "done"
      /\ ~usage => frames'[n + 2].kind = "done"
  <2>1. f.kind = "finish" /\ UsageFrame.kind = "usage" /\ DoneFrame.kind = "done"
    BY DEF FinishFrames, UsageFrame, DoneFrame
  <2>2. frames'[n + 1].kind = "finish"
    BY <1>1, <2>1
  <2>3. CASE usage
    <3>1. frames'[n + 2] = UsageFrame /\ frames'[n + 3] = DoneFrame
      BY <1>1, <2>3
    <3> QED BY <2>1, <2>2, <2>3, <3>1
  <2>4. CASE ~usage
    <3>1. frames'[n + 2] = DoneFrame
      BY <1>1, <2>4
    <3> QED BY <2>1, <2>2, <2>4, <3>1
  <2> QED BY <2>3, <2>4
<1>5. Ends
  <2>1. \A k \in 1..(n + m) : k \notin 1..n =>
           /\ \A j \in 1..n : j < k
           /\ k = n + 1 \/ k = n + 2 \/ (usage /\ k = n + 3)
    BY <1>1, <1>3
  <2>2. {"finish", "usage", "done"} \cap DeltaKinds = {}
    BY DEF DeltaKinds, TextTypes
  <2>3. \A k \in 1..(n + m) : k \notin 1..n => frames'[k].kind \in {"finish", "usage", "done"}
    BY <1>4, <2>1
  <2>4. \A k \in 1..n : k \in 1..(n + m)
    BY <1>1, <1>3
  <2> QED BY <1>1, <1>2, <2>1, <2>2, <2>3, <2>4 DEF Ends
<1>6. ClosedAt(n)'
  <2> DEFINE c == Closing'
  <2>1. (usage => c = <<"finish", "usage", "done">>) /\ (~usage => c = <<"finish", "done">>)
    <3>1. c = <<"finish">> \o (IF finished' /\ includeUsage' THEN <<"usage">> ELSE <<>>) \o <<"done">>
      BY DEF Closing
    <3>2. usage => c = <<"finish">> \o <<"usage">> \o <<"done">>
      BY <3>1
    <3>3. ~usage => c = <<"finish">> \o <<>> \o <<"done">>
      BY <3>1
    <3> QED BY <3>2, <3>3
  <2>2. c = Closing'
    OBVIOUS
  <2> HIDE DEF c
  <2>3. ASSUME usage PROVE Len(c) = m /\ \A k \in 1..m : frames'[n + k].kind = c[k]
    <3>1. Len(c) = m /\ c[1] = "finish" /\ c[2] = "usage" /\ c[3] = "done"
      BY <1>3, <2>1, <2>3
    <3>2. \A k \in 1..m : k = 1 \/ k = 2 \/ k = 3
      BY <1>3, <2>3
    <3>3. \A k \in 1..m : frames'[n + k].kind = c[k]
      BY <1>4, <2>3, <3>1, <3>2
    <3> QED BY <3>1, <3>3
  <2>5. ASSUME ~usage PROVE Len(c) = m /\ \A k \in 1..m : frames'[n + k].kind = c[k]
    <3>1. Len(c) = m /\ c[1] = "finish" /\ c[2] = "done"
      BY <1>3, <2>1, <2>5
    <3>2. \A k \in 1..m : k = 1 \/ k = 2
      BY <1>3, <2>5
    <3>3. \A k \in 1..m : frames'[n + k].kind = c[k]
      BY <1>4, <2>5, <3>1, <3>2
    <3> QED BY <3>1, <3>3
  <2>6. Len(c) = m /\ \A k \in 1..m : frames'[n + k].kind = c[k]
    BY <2>3, <2>5
  <2>4. \A k \in 1..n : frames'[k] \in BodyFrames
    BY <1>1, <1>2
  <2>7. \A k \in 1..Len(Closing') : frames'[n + k].kind = Closing'[k]
    BY <2>2, <2>6
  <2>8. Len(frames') = n + Len(Closing')
    BY <1>1, <2>2, <2>6
  <2> QED BY <2>4, <2>7, <2>8 DEF ClosedAt
<1> QED BY <1>1, <1>5, <1>6

(* The upstream finishes.                                                  *)
LEMMA FinishKeeps ==
    ASSUME Inv, NEW reason \in Reasons, SayFinish(reason)
    PROVE  Inv'
<1> DEFINE e == [type |-> "finish", reason |-> reason]
<1>1. Typed /\ InStep /\ Collected /\ (Open \/ Closed)
  BY DEF Inv
<1>2. Say(e) /\ e.type = "finish" /\ e.reason = reason /\ finished' = TRUE /\ UNCHANGED <<dialect, meant, errors>>
  BY DEF SayFinish
<1> HIDE DEF e
<1>3. /\ ended = "no" /\ UNCHANGED <<ended, includeUsage, gone, response>> /\ finished = FALSE
      /\ said' \in 0..MaxEvents
      /\ UNCHANGED <<content, reasoning, hasToolCalls, toolCalls, toolCallByID, upstreamErrMsg>>
      /\ \/ Missed
         \/ streamPc = "read" /\ streamPc' = "select" /\ Followed /\ onFinish(e, includeUsage)
  <2>1. /\ ended = "no" /\ UNCHANGED <<ended, includeUsage, gone, response>>
        /\ finished => e.type = "other" /\ said < MaxEvents /\ said' = said + 1
        /\ collectEvent(e)
        /\ \/ Missed
           \/ streamPc = "read" /\ streamPc' = "select" /\ Followed /\ streamEvent(e, includeUsage)
    BY <1>1, <1>2, Said
  <2>2. collectFinish(e) /\ (streamEvent(e, includeUsage) => onFinish(e, includeUsage))
    BY <1>2, <2>1, Events
  <2>3. said' \in 0..MaxEvents
    BY <1>1, <1>2, Said, BoundAssumption DEF Typed
  <2>4. finished = FALSE
    BY <1>1, <1>2, <2>1 DEF Typed
  <2> QED BY <2>1, <2>2, <2>3, <2>4 DEF collectFinish
<1>4. UNCHANGED <<sentRole, toolCallIndex, toolCallIndexes, sawToolCalls>> /\ finishSent' \in BOOLEAN
      /\ streamPc' \in {"select", "read", "returned"}
  BY <1>1, <1>3 DEF Missed, streamVars, onFinish, MarkFinish, Typed
<1>5. Followed' => Followed
  BY <1>3 DEF Missed, Followed, streamVars
<1>6. Open
  BY <1>1, <1>3 DEF Closed
<1>7. Ends /\ (Open \/ Closed)' /\ InStep'
  <2>1. CASE Missed
    <3>1. UNCHANGED frames
      BY <2>1 DEF Missed, streamVars
    <3>2. Open'
      BY <1>3, <1>6, <2>1, <3>1 DEF Open, Missed, Followed, streamVars
    <3>3. InStep'
      BY <1>1, <1>3, <2>1 DEF InStep, Missed, streamVars
    <3> QED BY <1>1, <3>1, <3>2, <3>3, Still
  <2>2. CASE streamPc = "read" /\ streamPc' = "select" /\ onFinish(e, includeUsage)
    <3> DEFINE f == FinishFrame(normalizeFinishReason(reason))
    <3>1. f \in FinishFrames
      BY DEF FinishFrame, normalizeFinishReason, FinishFrames
    <3>2. frames' = frames \o (<<f>> \o (IF includeUsage THEN <<UsageFrame>> ELSE <<>>) \o <<DoneFrame>>)
      BY <1>2, <2>2 DEF onFinish, write
    <3>3. includeUsage \in BOOLEAN /\ (includeUsage <=> finished' /\ includeUsage')
      BY <1>1, <1>2, <1>3 DEF Typed
    <3>4. \A k \in DOMAIN frames : frames[k] \in BodyFrames
      BY <1>6 DEF Open
    <3> HIDE DEF f
    <3>5. Ends /\ \E n \in Nat : ClosedAt(n)'
      BY <1>1, <3>1, <3>2, <3>3, <3>4, TailCloses
    <3>6. Closed'
      BY <1>2, <3>5 DEF Closed
    <3>7. InStep'
      BY <1>2, <1>3, <2>2 DEF InStep, onFinish, MarkFinish
    <3> QED BY <3>5, <3>6, <3>7
  <2> QED BY <1>3, <2>1, <2>2
<1>8. Typed'
  BY <1>1, <1>2, <1>3, <1>4, <1>7 DEF Typed, Ends
<1>9. Collected'
  BY <1>1, <1>2, <1>3 DEF Collected
<1>10. Numbered' /\ Indexed' /\ Roles' /\ Told' /\ Announced' /\ Assembled'
  BY <1>2, <1>3, <1>4, <1>5, <1>7, EndsKeep
<1> QED BY <1>7, <1>8, <1>9, <1>10 DEF Inv

(* The stream ends.                                                        *)
LEMMA EndKeeps ==
    ASSUME Inv, NEW how \in {"eof", "dropped"}, End(how)
    PROVE  Inv'
<1>1. Typed /\ InStep /\ Collected /\ (Open \/ Closed)
  BY DEF Inv
<1>2. /\ ended = "no" /\ ended' = how /\ ended' # "no"
      /\ UNCHANGED <<said, dialect, meant, errors, finished, includeUsage, gone>>
      /\ UNCHANGED <<content, reasoning, hasToolCalls, toolCalls, toolCallByID, upstreamErrMsg>>
      /\ UNCHANGED <<sentRole, toolCallIndex, toolCallIndexes, finishSent, sawToolCalls>>
      /\ response' = IF upstreamErrMsg # None THEN Failure ELSE Success
      /\ streamPc' = "returned"
      /\ \/ streamPc = "read" /\ streamEnd
         \/ streamPc = "returned" /\ UNCHANGED streamVars
  BY DEF End, collectEnd, streamEnd, streamVars
<1>3. Followed' => Followed
  BY <1>1, <1>2 DEF Followed, InStep
<1>4. Ends /\ (Open \/ Closed)'
  <2>1. CASE streamPc = "returned" /\ UNCHANGED streamVars
    <3>1. UNCHANGED frames
      BY <2>1 DEF streamVars
    <3>2. Open => Open'
      BY <1>2, <2>1, <3>1 DEF Open, Followed
    <3>3. Closed => Closed'
      BY <1>2, <3>1 DEF Closed, ClosedAt, Closing
    <3> QED BY <1>1, <3>1, <3>2, <3>3, Still
  <2>2. CASE streamPc = "read" /\ streamEnd /\ finishSent
    <3>1. UNCHANGED frames
      BY <2>2 DEF streamEnd
    <3>2. Closed
      BY <1>1, <2>2 DEF Open, InStep, Followed
    <3>3. Closed'
      BY <1>2, <3>1, <3>2 DEF Closed, ClosedAt, Closing
    <3> QED BY <1>1, <3>1, <3>3, Still
  <2>3. CASE streamPc = "read" /\ streamEnd /\ ~finishSent
    <3> DEFINE f == FinishFrame(IF sawToolCalls THEN "tool_calls" ELSE "stop")
    <3>1. f \in FinishFrames
      BY DEF FinishFrame, FinishFrames
    <3>2. finished = FALSE /\ finished' = FALSE
      BY <1>1, <1>2, <2>3 DEF InStep, Typed
    <3>3. \A k \in DOMAIN frames : frames[k] \in BodyFrames
      BY <1>1, <1>2, <3>2 DEF Open, Closed
    <3>4. frames' = frames \o <<f, DoneFrame>>
      BY <2>3 DEF streamEnd, write
    <3>5. <<f, DoneFrame>> = <<f>> \o (IF FALSE THEN <<UsageFrame>> ELSE <<>>) \o <<DoneFrame>>
      <4> HIDE DEF f, DoneFrame
      <4> QED OBVIOUS
    <3> HIDE DEF f
    <3>6. Ends /\ \E n \in Nat : ClosedAt(n)'
      BY <1>1, <3>1, <3>2, <3>3, <3>4, <3>5, TailCloses
    <3>7. Closed'
      BY <1>2, <3>6 DEF Closed
    <3> QED BY <3>6, <3>7
  <2> QED BY <1>2, <2>1, <2>2, <2>3
<1>5. Typed'
  BY <1>1, <1>2, <1>4 DEF Typed, Ends
<1>6. InStep'
  BY <1>2 DEF InStep
<1>7. Collected'
  <2>1. Failure' = Failure /\ Success' = Success
    <3>1. Failure' = Failure
      BY <1>2 DEF Failure
    <3>2. UNCHANGED <<content, reasoning, tokens, hasToolCalls, toolCalls>>
      BY DEF End, collectEnd
    <3>3. Success' = Success
      BY <3>2 DEF Success
    <3> QED BY <3>1, <3>3
  <2>2. response' = IF upstreamErrMsg' # None THEN Failure' ELSE Success'
    <3>1. CASE upstreamErrMsg # None
      BY <1>2, <2>1, <3>1
    <3>2. CASE upstreamErrMsg = None
      BY <1>2, <2>1, <3>2
    <3> QED BY <3>1, <3>2
  <2> QED BY <1>1, <1>2, <2>2 DEF Collected
<1>8. Numbered' /\ Indexed' /\ Roles' /\ Told' /\ Announced' /\ Assembled'
  BY <1>2, <1>3, <1>4, EndsKeep
<1> QED BY <1>4, <1>5, <1>6, <1>7, <1>8 DEF Inv

(* The stream looks for its client, which may go away.                     *)
LEMMA ClientKeeps ==
    ASSUME Inv, Select \/ ClientGone
    PROVE  Inv'
<1>1. Typed /\ InStep /\ Collected /\ (Open \/ Closed)
  BY DEF Inv
<1>2. /\ UNCHANGED <<collectVars, said, dialect, meant, errors, finished, ended, includeUsage>>
      /\ UNCHANGED <<sentRole, toolCallIndex, toolCallIndexes, finishSent, sawToolCalls, frames>>
      /\ \/ streamPc = "select" /\ streamPc' = (IF gone THEN "returned" ELSE "read") /\ gone' = gone
         \/ gone = FALSE /\ gone' = TRUE /\ streamPc' = streamPc
  BY <1>1 DEF Select, ClientGone, streamSelect, streamVars, Typed
<1>3. Followed' => Followed
  BY <1>2 DEF Followed
<1>4. Ends
  BY <1>1, <1>2, Still
<1>5. (Open \/ Closed)'
  <2>1. Open => Open'
    BY <1>1, <1>2 DEF Open, Followed, Typed
  <2>2. Closed => Closed'
    BY <1>2 DEF Closed, ClosedAt, Closing
  <2> QED BY <1>1, <2>1, <2>2
<1>6. Typed' /\ InStep' /\ Collected'
  <2>1. Typed'
    BY <1>1, <1>2 DEF Typed, collectVars
  <2>2. InStep'
    BY <1>1, <1>2 DEF InStep
  <2>3. Collected'
    BY <1>1, <1>2 DEF Collected, collectVars, Failure, Success
  <2> QED BY <2>1, <2>2, <2>3
<1>7. Numbered' /\ Indexed' /\ Roles' /\ Told' /\ Announced' /\ Assembled'
  BY <1>2, <1>3, <1>4, EndsKeep DEF collectVars
<1> QED BY <1>5, <1>6, <1>7 DEF Inv

-----------------------------------------------------------------------------
(* The invariant *)

LEMMA InvHolds == Init => Inv
<1> SUFFICES ASSUME Init PROVE Inv
  OBVIOUS
<1> USE DEF Init, InitStream, InitCollect
<1>1. frames = <<>> /\ DOMAIN frames = {} /\ meant.calls = <<>> /\ errors = <<>> /\ DOMAIN meant.calls = {}
  OBVIOUS
<1>2. Typed
  <2>1. said \in 0..MaxEvents
    BY BoundAssumption
  <2>2. <<>> \in Tokens /\ <<>> \in Seq(Calls) /\ <<>> \in Seq(Classes) /\ <<>> \in Seq(Frames)
    BY DEF Tokens
  <2>3. meant \in [text : Tokens, reasoning : Tokens, calls : Seq(Calls)]
    BY <2>2
  <2>4. dialect \in [Ids -> {"new", "old", "streamed", "called"}]
    OBVIOUS
  <2>5. toolCallIndexes \in [Ids -> Nat \union {None}] /\ toolCallByID \in [Ids -> Nat \union {None}]
    OBVIOUS
  <2> QED BY <2>1, <2>2, <2>3, <2>4, <2>5 DEF Typed
<1>3. InStep /\ Collected /\ Numbered /\ Open
  BY <1>1 DEF InStep, Collected, Numbered, Open
<1>4. Indexed /\ Roles
  BY <1>1 DEF Indexed, Roles, RoleOnce
<1>5. ToolFrames = {} /\ Announced
  BY <1>1 DEF Announced, ToolFrames
<1>6. Told
  <2>1. \A kind : TextOf(frames, kind) = <<>>
    BY <1>1, NothingJoined DEF TextOf
  <2>2. ErrorsOf(frames) = <<>>
    BY <1>1, NothingJoined DEF ErrorsOf
  <2> QED BY <1>1, <2>1, <2>2 DEF Told
<1>7. Assembled
  <2>1. \A index \in Nat : ClientArgs(index) = <<>> /\ ArgsAt(index) = <<>>
    BY <1>1, NothingJoined DEF ClientArgs, ArgsOf, ArgsAt
  <2> QED BY <2>1 DEF Assembled
<1> QED BY <1>2, <1>3, <1>4, <1>5, <1>6, <1>7 DEF Inv

LEMMA InvKept == Inv /\ [Next]_vars => Inv'
<1> SUFFICES ASSUME Inv, [Next]_vars PROVE Inv'
  OBVIOUS
<1>1. ASSUME UNCHANGED vars PROVE Inv'
  <2>1. UNCHANGED <<streamVars, collectVars, said, dialect, meant, errors, finished, ended, includeUsage, gone>>
    BY <1>1 DEF vars
  <2>2. Typed /\ InStep /\ Collected /\ (Open \/ Closed)
    BY DEF Inv
  <2>3. Typed' /\ InStep'
    BY <2>1, <2>2 DEF Typed, InStep, streamVars, collectVars
  <2>4. Collected'
    BY <2>1, <2>2 DEF Collected, Failure, Success, collectVars
  <2>5. Open => Open'
    BY <2>1 DEF Open, Followed, streamVars
  <2>6. Closed => Closed'
    BY <2>1 DEF Closed, ClosedAt, Closing, streamVars
  <2>7. Followed' => Followed
    BY <2>1 DEF Followed, streamVars
  <2>8. Ends
    BY <2>1, <2>2, Still DEF streamVars
  <2>9. Numbered' /\ Indexed' /\ Roles' /\ Told' /\ Announced' /\ Assembled'
    BY <2>1, <2>7, <2>8, EndsKeep DEF streamVars, collectVars
  <2> QED BY <2>2, <2>3, <2>4, <2>5, <2>6, <2>9 DEF Inv
<1>2. CASE Select \/ ClientGone
  BY <1>2, ClientKeeps
<1>3. CASE SayText \/ SayReasoning
  BY <1>3, TextSaid, TextKeeps DEF TextTypes
<1>4. CASE SayOther
  BY <1>4, OtherSaid, QuietKeeps
<1>5. ASSUME NEW id \in Ids,
             SayToolUse(id) \/ SayToolInputStart(id) \/ SayAggregated(id)
      PROVE  Inv'
  <2>1. <<>> \in Tokens /\ token \in Tokens
    BY DEF Inv, Typed, Tokens, token
  <2>2. \/ OpenStep(id, <<>>, "old") \/ OpenStep(id, <<>>, "streamed")
        \/ OpenStep(id, token, "called")
    BY <1>5, OpenSaid
  <2> QED BY <2>1, <2>2, OpenKeeps
<1>6. ASSUME NEW id \in Ids,
             SayToolDelta(id) \/ SayToolInputDelta(id) \/ SayToolCall(id)
      PROVE  Inv'
  <2>1. \/ ArgsStep(id, "old") \/ ArgsStep(id, "streamed")
        \/ ArgsStep(id, "called") \/ QuietStep
    BY <1>6, ArgsSaid
  <2> QED BY <2>1, ArgsKeeps, QuietKeeps
<1>7. ASSUME NEW class \in Classes, SayError(class) PROVE Inv'
  BY <1>7, OtherSaid, ErrorKeeps
<1>8. ASSUME NEW reason \in Reasons, SayFinish(reason) PROVE Inv'
  BY <1>8, FinishKeeps
<1>9. ASSUME NEW how \in {"eof", "dropped"}, End(how) PROVE Inv'
  BY <1>9, EndKeeps
<1> QED BY <1>1, <1>2, <1>3, <1>4, <1>5, <1>6, <1>7, <1>8, <1>9 DEF Next

(* What the two handlers have made of the answer is what was said so far.  *)
THEOREM Invariance == Spec => []Inv
BY InvHolds, InvKept, PTL DEF Spec

-----------------------------------------------------------------------------
(* The properties *)

(* There are no more calls than there are ids.                             *)
LEMMA CallsHaveIds ==
    ASSUME Inv
    PROVE  /\ Len(meant.calls) \in Nat /\ Cardinality(Ids) \in Nat
           /\ Len(meant.calls) <= Cardinality(Ids)
<1> DEFINE n == Len(meant.calls)
           id == [k \in 1..n |-> meant.calls[k].id]
<1>1. Typed /\ Numbered
  BY DEF Inv
<1>2. n \in Nat /\ DOMAIN meant.calls = 1..n /\ \A k \in 1..n : meant.calls[k] \in Calls
  <2>1. meant.calls \in Seq(Calls)
    BY <1>1 DEF Typed
  <2> QED BY <2>1
<1>3. id \in Injection(1..n, Ids)
  <2>1. \A k \in 1..n : meant.calls[k].id \in Ids /\ toolCallByID[meant.calls[k].id] = k
    BY <1>1, <1>2 DEF Numbered, Calls
  <2> QED BY <2>1 DEF Injection, IsInjective
<1>4. IsFiniteSet(Ids)
  BY BoundAssumption
<1> HIDE DEF n, id
<1>5. Cardinality(1..n) <= Cardinality(Ids)
  BY <1>3, <1>4, FS_Injection
<1>6. Cardinality(1..n) = n
  <2>1. 1 \in Int /\ n \in Int
    BY <1>2
  <2>2. Cardinality(1..n) = IF 1 > n THEN 0 ELSE n - 1 + 1
    BY <2>1, FS_Interval
  <2> QED BY <1>2, <2>2
<1>7. Cardinality(Ids) \in Nat
  BY <1>4, FS_CardinalityType
<1> QED BY <1>2, <1>5, <1>6, <1>7 DEF n

(* Every variable has its type, and no handler counts more calls than      *)
(* there are ids.                                                          *)
THEOREM Types == Spec => []TypeOK
<1>1. Inv => TypeOK
  <2> SUFFICES ASSUME Inv PROVE TypeOK
    OBVIOUS
  <2> DEFINE c == Cardinality(Ids)
             n == Len(meant.calls)
  <2>1. Typed /\ Collected /\ Numbered /\ Indexed
    BY DEF Inv
  <2>2. n \in Nat /\ c \in Nat /\ n <= c
    BY CallsHaveIds
  <2>3. toolCallIndex \in 0..c
    BY <2>1, <2>2 DEF Typed, Indexed
  <2>4. toolCallIndexes \in [Ids -> (0..c) \union {None}]
    <3>1. \A id \in Ids : toolCallIndexes[id] \in (0..c) \union {None}
      <4> SUFFICES ASSUME NEW id \in Ids, toolCallIndexes[id] # None
                   PROVE  toolCallIndexes[id] \in 0..c
        OBVIOUS
      <4>1. toolCallIndexes[id] \in Nat /\ toolCallIndexes[id] < n
        BY <2>1 DEF Typed, Indexed
      <4> QED BY <2>2, <4>1
    <3>2. toolCallIndexes \in [Ids -> Nat \union {None}]
      BY <2>1 DEF Typed
    <3> HIDE DEF c
    <3> QED BY <3>1, <3>2
  <2>5. toolCallByID \in [Ids -> (1..c) \union {None}]
    <3>1. \A id \in Ids : toolCallByID[id] \in (1..c) \union {None}
      <4> SUFFICES ASSUME NEW id \in Ids, toolCallByID[id] # None
                   PROVE  toolCallByID[id] \in 1..c
        OBVIOUS
      <4>1. toolCallByID[id] \in 1..n
        BY <2>1 DEF Typed, Numbered
      <4> QED BY <2>2, <4>1
    <3>2. toolCallByID \in [Ids -> Nat \union {None}]
      BY <2>1 DEF Typed
    <3> HIDE DEF c
    <3> QED BY <3>1, <3>2
  <2>6. Len(toolCalls) <= c
    BY <2>1, <2>2 DEF Collected
  <2>7. upstreamErrMsg \in Classes \union {None}
    BY <2>1 DEF Typed, Collected
  <2> QED BY <2>1, <2>3, <2>4, <2>5, <2>6, <2>7 DEF TypeOK, Typed
<1> QED BY <1>1, Invariance, PTL

(* The first delta frame of a stream carries the role, and no other does.  *)
THEOREM Announcement == Spec => []RoleOnce
<1>1. Inv => RoleOnce
  BY DEF Inv, Roles
<1> QED BY <1>1, Invariance, PTL

(* What a closed stream ends with.                                         *)
LEMMA ClosedStreams ==
    ASSUME Typed, NEW n \in Nat, ClosedAt(n)
    PROVE  Count("done") = 1 /\ Count("finish") = 1 /\ IsSuffix(Closing, Kinds)
<1> DEFINE all == {"text-delta", "reasoning-delta", "tool", "error", "finish", "usage", "done"}
           m == Len(Closing)
           c == Closing
<1>1. \/ m = 2 /\ c = <<"finish", "done">>
      \/ m = 3 /\ c = <<"finish", "usage", "done">>
  <2> DEFINE p == finished /\ includeUsage
  <2>1. c = <<"finish">> \o (IF p THEN <<"usage">> ELSE <<>>) \o <<"done">>
    BY DEF Closing
  <2>2. p => c = <<"finish">> \o <<"usage">> \o <<"done">>
    BY <2>1
  <2>3. ~p => c = <<"finish">> \o <<>> \o <<"done">>
    BY <2>1
  <2> HIDE DEF c, p
  <2>4. p => c = <<"finish", "usage", "done">>
    BY <2>2
  <2>5. ~p => c = <<"finish", "done">>
    BY <2>3
  <2>6. (p => Len(c) = 3) /\ (~p => Len(c) = 2)
    BY <2>4, <2>5
  <2> QED BY <2>4, <2>5, <2>6 DEF c
<1>2. /\ c \in Seq(all) /\ m \in {2, 3} /\ c[1] = "finish" /\ c[m] = "done"
      /\ \A k \in 1..m : (c[k] = "finish" <=> k = 1) /\ (c[k] = "done" <=> k = m)
  <2>1. CASE m = 2 /\ c = <<"finish", "done">>
    <3> HIDE DEF m, c
    <3>1. \A k \in 1..m : k = 1 \/ k = 2
      BY <2>1
    <3> QED BY <2>1, <3>1
  <2>2. CASE m = 3 /\ c = <<"finish", "usage", "done">>
    <3> HIDE DEF m, c
    <3>1. \A k \in 1..m : k = 1 \/ k = 2 \/ k = 3
      BY <2>2
    <3> QED BY <2>2, <3>1
  <2> QED BY <1>1, <2>1, <2>2
<1>3. /\ Len(frames) = n + m /\ \A k \in 1..n : frames[k] \in BodyFrames
      /\ \A k \in 1..m : frames[n + k].kind = c[k]
  BY DEF ClosedAt
<1>4. frames \in Seq(Frames) /\ DOMAIN frames = 1..(n + m)
  BY <1>3 DEF Typed
<1> HIDE DEF m, c
<1>5. \A f \in BodyFrames : f.kind \notin {"finish", "done"}
  BY DEF BodyFrames, TextFrames, ToolFramesOf, ErrorFrames, TextTypes
<1>6. ASSUME NEW k \in 1..(n + m)
      PROVE  (frames[k].kind = "finish" <=> k = n + 1) /\ (frames[k].kind = "done" <=> k = n + m)
  <2>1. CASE k \in 1..n
    <3>1. frames[k].kind \notin {"finish", "done"}
      BY <1>3, <1>5, <2>1
    <3>2. k # n + 1 /\ k # n + m
      BY <1>2, <2>1
    <3> QED BY <3>1, <3>2
  <2>2. CASE k \notin 1..n
    <3>1. PICK j \in 1..m : k = n + j
      <4>1. k - n \in 1..m /\ k = n + (k - n)
        BY <1>2, <2>2
      <4> QED BY <4>1
    <3>2. frames[k].kind = c[j]
      BY <1>3, <3>1
    <3>3. (j = 1 <=> k = n + 1) /\ (j = m <=> k = n + m)
      BY <1>2, <3>1
    <3> QED BY <1>2, <3>2, <3>3
  <2> QED BY <2>1, <2>2
<1>7. {k \in DOMAIN frames : frames[k].kind = "done"} = {n + m}
  <2>1. n + m \in 1..(n + m)
    BY <1>2
  <2> QED BY <1>4, <1>6, <2>1
<1>8. {k \in DOMAIN frames : frames[k].kind = "finish"} = {n + 1}
  <2>1. n + 1 \in 1..(n + m)
    BY <1>2
  <2> QED BY <1>4, <1>6, <2>1
<1>9. Count("done") = 1 /\ Count("finish") = 1
  BY <1>7, <1>8, FS_Singleton DEF Count
<1>10. Kinds \in Seq(all) /\ Len(Kinds) = n + m /\ \A k \in 1..(n + m) : Kinds[k] = frames[k].kind
  <2>1. \A f \in Frames : f.kind \in all
    BY DEF Frames, BodyFrames, ClosingFrames, TextFrames, ToolFramesOf, ErrorFrames,
           FinishFrames, UsageFrame, DoneFrame, TextTypes
  <2>2. \A k \in 1..(n + m) : frames[k].kind \in all
    BY <1>3, <1>4, <2>1
  <2>3. Kinds = [k \in 1..(n + m) |-> frames[k].kind]
    BY <1>4 DEF Kinds
  <2>4. n + m \in Nat
    BY <1>2
  <2> HIDE DEF all
  <2> QED BY <2>2, <2>3, <2>4
<1>11. IsSuffix(c, Kinds)
  <2> DEFINE t == Kinds
  <2>1. t \in Seq(all) /\ Len(t) = n + m /\ Len(c) = m /\ c \in Seq(all)
    BY <1>2, <1>10 DEF c, m
  <2>2. \A k \in 1..m : n + k \in 1..(n + m)
    BY <1>2
  <2>3. \A k \in 1..m : t[n + k] = c[k]
    BY <1>3, <1>10, <2>2
  <2> HIDE DEF t, all
  <2>4. IsSuffix(c, t)
    BY <2>1, <2>3, SuffixOf
  <2> QED BY <2>4 DEF t
<1> QED BY <1>9, <1>11 DEF c

(* A stream whose client is there ends in one finish frame, the usage if   *)
(* it was asked for and is known, and one DONE.                            *)
THEOREM Closure == Spec => []StreamIsClosed
<1>1. Inv => StreamIsClosed
  <2> SUFFICES ASSUME Inv PROVE StreamIsClosed
    OBVIOUS
  <2>1. Typed /\ (Open \/ Closed)
    BY DEF Inv
  <2>2. CASE Closed
    <3>1. PICK n \in Nat : ClosedAt(n)
      BY <2>2 DEF Closed
    <3> QED BY <2>1, <3>1, ClosedStreams DEF StreamIsClosed
  <2>3. CASE Open
    <3>1. \A f \in BodyFrames : f.kind \notin {"finish", "done"}
      BY DEF BodyFrames, TextFrames, ToolFramesOf, ErrorFrames, TextTypes
    <3>2. /\ {k \in DOMAIN frames : frames[k].kind = "done"} = {}
          /\ {k \in DOMAIN frames : frames[k].kind = "finish"} = {}
      BY <2>3, <3>1 DEF Open
    <3>3. Count("done") = 0 /\ Count("finish") = 0
      BY <3>2, FS_EmptySet DEF Count
    <3>4. streamPc = "returned" => gone
      BY <2>3 DEF Open, Followed
    <3> QED BY <3>3, <3>4 DEF StreamIsClosed
  <2> QED BY <2>1, <2>2, <2>3
<1> QED BY <1>1, Invariance, PTL

(* An error event reaches the clients of both modes, the first decides the *)
(* class of the collected answer.                                          *)
THEOREM Errors == Spec => []ErrorSurfaces
<1>1. Inv => ErrorSurfaces
  <2> SUFFICES ASSUME Inv PROVE ErrorSurfaces
    OBVIOUS
  <2>1. Typed /\ Collected /\ Told
    BY DEF Inv
  <2>2. ~gone => ErrorsOf(frames) = errors
    BY <2>1 DEF Told, Followed
  <2>3. ASSUME response # None, errors # <<>>
        PROVE  /\ response.status = IF errors[1] = "api_error" THEN 502 ELSE 429
               /\ response.type = errors[1]
    <3>1. errors[1] \in Classes /\ errors[1] # None
      BY <2>1, <2>3, NoneAssumption DEF Typed
    <3>2. upstreamErrMsg = errors[1] /\ response = Failure
      BY <2>1, <2>3, <3>1 DEF Collected
    <3> QED BY <3>2 DEF Failure
  <2> QED BY <2>2, <2>3 DEF ErrorSurfaces
<1> QED BY <1>1, Invariance, PTL

(* What a client that is still there assembles from the frames.            *)
LEMMA ClientCalls ==
    ASSUME Inv, Followed
    PROVE  /\ Indexes = {k - 1 : k \in DOMAIN meant.calls}
           /\ \A k \in DOMAIN meant.calls : ClientIds(k - 1) = {meant.calls[k].id}
           /\ ArgsAreStreamed =>
                \A k \in DOMAIN meant.calls : ClientArgs(k - 1) = meant.calls[k].args
<1> DEFINE n == Len(meant.calls)
<1>1. Typed /\ Announced /\ Assembled
  BY DEF Inv
<1>2. n \in Nat /\ DOMAIN meant.calls = 1..n /\ \A k \in 1..n : meant.calls[k].id \in Ids
  <2>1. meant.calls \in Seq(Calls)
    BY <1>1 DEF Typed
  <2>2. n \in Nat /\ DOMAIN meant.calls = 1..n /\ \A k \in 1..n : meant.calls[k] \in Calls
    BY <2>1
  <2> QED BY <2>2 DEF Calls
<1> HIDE DEF n
<1>3. ASSUME NEW k \in ToolFrames
      PROVE  /\ frames[k].index \in Nat /\ frames[k].index + 1 \in 1..n
             /\ frames[k].id \in {None, meant.calls[frames[k].index + 1].id}
  <2>1. frames[k] \in Frames /\ frames[k].kind = "tool"
    BY <1>1 DEF Typed, ToolFrames
  <2>2. frames[k].index \in Nat
    BY <2>1 DEF Frames, BodyFrames, ClosingFrames, TextFrames, ToolFramesOf, ErrorFrames,
                FinishFrames, UsageFrame, DoneFrame, TextTypes
  <2> QED BY <1>1, <1>2, <2>2 DEF Announced
<1>4. ASSUME NEW c \in 1..n
      PROVE  \E k \in ToolFrames : frames[k].index = c - 1 /\ frames[k].id = meant.calls[c].id
  BY <1>1, <1>2 DEF Announced
<1>5. Indexes = {k - 1 : k \in 1..n}
  <2>1. ASSUME NEW k \in ToolFrames PROVE \E c \in 1..n : frames[k].index = c - 1
    <3>1. frames[k].index = (frames[k].index + 1) - 1
      BY <1>3
    <3> QED BY <1>3, <3>1
  <2> QED BY <1>4, <2>1 DEF Indexes
<1>6. ASSUME NEW c \in 1..n PROVE ClientIds(c - 1) = {meant.calls[c].id}
  <2>1. meant.calls[c].id # None
    BY <1>2, NoneAssumption
  <2>2. ASSUME NEW k \in ToolFrames, frames[k].index = c - 1
        PROVE  frames[k].id \in {None, meant.calls[c].id}
    <3>1. frames[k].index + 1 = c
      BY <1>2, <2>2
    <3> QED BY <1>3, <3>1
  <2> QED BY <1>4, <2>1, <2>2 DEF ClientIds
<1>7. ASSUME ArgsAreStreamed, NEW c \in 1..n PROVE ClientArgs(c - 1) = meant.calls[c].args
  <2>1. c - 1 \in Nat /\ c - 1 + 1 = c
    BY <1>2
  <2> QED BY <1>1, <1>2, <1>7, <2>1 DEF Assembled, ArgsAt
<1> QED BY <1>2, <1>5, <1>6, <1>7

(* By index, a client assembles the calls the upstream meant, with their   *)
(* arguments, if no call keeps them until it is complete.                  *)
THEOREM Reassembly == ASSUME ArgsAreStreamed PROVE Spec => []CallsReassemble
<1>1. Inv => CallsReassemble
  BY ClientCalls DEF CallsReassemble, Followed
<1> QED BY <1>1, Invariance, PTL

(* An answer read to its end is the same in both modes.                    *)
THEOREM Agreement == ASSUME ArgsAreStreamed PROVE Spec => []ModesAgree
<1>1. Inv => ModesAgree
  <2> SUFFICES ASSUME Inv, response # None, response.status = 200, streamPc = "returned", ~gone
               PROVE  /\ response.reasoning = TextOf(frames, "reasoning-delta")
                      /\ response.content = IF Indexes = {} THEN TextOf(frames, "text-delta") ELSE <<>>
                      /\ Cardinality(Indexes) = Len(response.toolCalls)
                      /\ \A k \in DOMAIN response.toolCalls :
                            /\ ClientIds(k - 1) = {response.toolCalls[k].id}
                            /\ ClientArgs(k - 1) = response.toolCalls[k].args
    BY DEF ModesAgree
  <2> DEFINE n == Len(meant.calls)
  <2>1. Typed /\ Collected /\ Told /\ Followed
    BY DEF Inv, Followed
  <2>2. response = Success
    <3>1. Failure.status # 200
      BY DEF Failure
    <3> QED BY <2>1, <3>1 DEF Collected
  <2>3. /\ response.reasoning = meant.reasoning /\ response.toolCalls = meant.calls
        /\ response.content = IF meant.calls # <<>> THEN <<>> ELSE meant.text
    BY <2>1, <2>2 DEF Success, Collected
  <2>4. TextOf(frames, "text-delta") = meant.text /\ TextOf(frames, "reasoning-delta") = meant.reasoning
    BY <2>1 DEF Told
  <2>5. n \in Nat /\ DOMAIN meant.calls = 1..n /\ (n = 0 <=> meant.calls = <<>>)
    BY <2>1 DEF Typed
  <2>6. Indexes = {k - 1 : k \in 1..n}
    BY <2>1, <2>5, ClientCalls
  <2> HIDE DEF n
  <2>7. Indexes = 0..(n - 1)
    <3>1. \A k \in 1..n : k - 1 \in 0..(n - 1)
      BY <2>5
    <3>2. \A j \in 0..(n - 1) : j + 1 \in 1..n /\ j = (j + 1) - 1
      BY <2>5
    <3> QED BY <2>6, <3>1, <3>2
  <2>8. Indexes = {} <=> meant.calls = <<>>
    <3>1. n # 0 => 0 \in 0..(n - 1)
      BY <2>5
    <3>2. n = 0 => 0..(n - 1) = {}
      BY <2>5
    <3> QED BY <2>5, <2>7, <3>1, <3>2
  <2>9. Cardinality(Indexes) = n
    <3>1. 0 \in Int /\ n - 1 \in Int
      BY <2>5
    <3>2. Cardinality(0..(n - 1)) = IF 0 > n - 1 THEN 0 ELSE n - 1 - 0 + 1
      <4> DEFINE b == n - 1
      <4>1. b \in Int
        BY <3>1
      <4> HIDE DEF b
      <4>2. Cardinality(0..b) = IF 0 > b THEN 0 ELSE b - 0 + 1
        BY <4>1, FS_Interval
      <4> QED BY <4>2 DEF b
    <3> QED BY <2>5, <2>7, <3>2
  <2>10. \A k \in DOMAIN meant.calls :
            ClientIds(k - 1) = {meant.calls[k].id} /\ ClientArgs(k - 1) = meant.calls[k].args
    BY <2>1, ClientCalls
  <2> QED BY <2>3, <2>4, <2>8, <2>9, <2>10 DEF n
<1> QED BY <1>1, Invariance, PTL
=============================================================================
