----------------------------- MODULE RequestBody -----------------------------
(***************************************************************************)
(* From a client's request to the parts of the CommandCode body that do    *)
(* not depend on shared state: BuildRequest's token limit and tools, the   *)
(* conversation key of sessionFor, and responsesToChatRequest, which makes *)
(* a chat request of a request to /v1/responses.                           *)
(*                                                                         *)
(* A chat request is a record [model, user, messages, maxTokens,           *)
(* maxCompletion, tools], a Responses request [model, user, input,         *)
(* instructions, maxTokens, maxOutput, maxCompletion, tools].  Its input   *)
(* is a content as in Convert, of kind "items" when it is a list; an item  *)
(* that is an object is [role, content, text, input, aside], any other is  *)
(* Nil.  Aside is what it says in fields that are not read: the output of  *)
(* a function_call_output, the arguments of a function_call.               *)
(* A limit that is not given is Nil.  Fields that are handed through or    *)
(* dropped without effect (temperature, stream, stop, ...) are left out.   *)
(***************************************************************************)
EXTENDS Convert, Integers

CONSTANTS
    DefaultTokens,       \* 64000
    maxUpstreamTokens,   \* 200000
    defaultTools         \* the tool names of clitools.json

ASSUME RequestBodyAssumption ==
    /\ maxUpstreamTokens \in Nat /\ DefaultTokens \in 1..maxUpstreamTokens
    /\ defaultTools \in Seq(ToSet(defaultTools) \ {Nil}) \ {<<>>}
    /\ Nil \notin Int

Null == [kind |-> "null", text |-> <<>>]
Message(role, content) ==
    [ role |-> role, content |-> content, calls |-> <<>>, id |-> Nil, name |-> Nil,
      aside |-> <<>> ]

-----------------------------------------------------------------------------
(* BuildRequest *)

MaxTokensWins(req) == OrElse(req.maxTokens, OrElse(req.maxCompletion, DefaultTokens))

asked(req) == OrElse(req.maxCompletion, OrElse(req.maxTokens, DefaultTokens))

clamp(limit) ==
    CASE limit < 1 -> DefaultTokens
      [] limit > maxUpstreamTokens -> maxUpstreamTokens
      [] OTHER -> limit

toolsOf(req) ==
    IF ConvertTools(req.tools) = <<>> THEN defaultTools ELSE ConvertTools(req.tools)

\* Model and thread depend on more than the request.
params(req, model, thread) ==
    LET split == ExtractSystem(req.messages)
    IN  [ model      |-> model,
          thread     |-> thread,
          messages   |-> ConvertMessages(split.rest),
          system     |-> IF split.system = <<>> THEN <<>> ELSE <<split.system>>,
          tools      |-> toolsOf(req),
          max_tokens |-> clamp(asked(req)) ]

-----------------------------------------------------------------------------
(* sessionFor's key: Nil where it makes a new session without a key *)

messageText(content) ==
    IF content.kind = "parts"
      THEN FlattenSeq([i \in 1..Len(content.parts) |->
               IF content.parts[i].type = "text" THEN content.parts[i].text ELSE <<>>])
      ELSE IF content.kind = "string" THEN content.text ELSE <<>>

UserTurns(msgs) == Keep(msgs, LAMBDA m : m.role = "user")

firstUser(msgs) ==
    IF UserTurns(msgs) = <<>> THEN <<>> ELSE messageText(UserTurns(msgs)[1].content)

convKey(req) ==
    LET system == systemText(req.messages)
        first  == firstUser(req.messages)
    IN  CASE req.user # Nil -> <<"user", req.user>>
          [] req.user = Nil /\ system = <<>> /\ first = <<>> -> Nil
          [] OTHER -> <<"hash", req.model, system, first>>

-----------------------------------------------------------------------------
(* /v1/responses *)

itemContent(item) ==
    CASE item.content # Null -> item.content
      [] item.content = Null /\ item.text # Null -> item.text
      [] OTHER -> item.input

DropRoleless(items) == Keep(items, LAMBDA item : item # Nil /\ item.role # Nil)

objects(items) == Keep(items, LAMBDA item : item # Nil)

itemMessage(item) == Message(OrElse(item.role, "user"), itemContent(item))

responseItemsToMessages(items) ==
    [i \in 1..Len(objects(items)) |-> itemMessage(objects(items)[i])]

\* Of a list without an object nothing remains but an empty user turn.
responsesInputToMessages(input) ==
    CASE input.kind = "null" -> <<>>
      [] input.kind = "items" /\ objects(input.items) # <<>> ->
            responseItemsToMessages(input.items)
      [] input.kind = "items" /\ objects(input.items) = <<>> ->
            <<Message("user", [kind |-> "parts", parts |-> <<>>])>>
      [] OTHER -> <<Message("user", input)>>

responsesToChatRequest(req) ==
    [ model |-> req.model, user |-> req.user, tools |-> req.tools,
      messages |-> (IF req.instructions = Null THEN <<>>
                    ELSE <<Message("system", req.instructions)>>)
                   \o responsesInputToMessages(req.input),
      maxTokens |-> req.maxTokens,
      maxCompletion |-> OrElse(req.maxCompletion, OrElse(req.maxOutput, req.maxTokens)) ]
=============================================================================
