------------------------------ MODULE Requests ------------------------------
(***************************************************************************)
(* A client's conversation, from request to CommandCode body, beside the   *)
(* goroutine that refreshes the model catalog and a client that lists the  *)
(* models.  As OpenAI clients do, the client replays the whole             *)
(* conversation in each request: history is what it has sent so far.       *)
(***************************************************************************)
EXTENDS Catalog, RequestBody

CONSTANTS
    Clients,    \* [endpoint, model, user, instructions, the limits, tools], and
                \* turns, the bound on its history
    Messages,   \* what a chat client may add to its history
    Items,      \* what a Responses client may add to its input
    Inputs,     \* inputs that are no list
    None

IsContent(content) ==
    IF content.kind = "parts"
      THEN /\ content.parts \in Seq(ToSet(content.parts))
           /\ \A p \in ToSet(content.parts) :
                 p.type \in {"text", "image", "call", "result", "unknown"} /\ p.text \in Seq(Words)
      ELSE content.text \in Seq(Words)

ASSUME ClientsAssumption ==
    /\ \A c \in Clients : {c.maxTokens, c.maxOutput, c.maxCompletion} \subseteq Int \union {Nil}
    /\ \A c \in Clients : c.tools \in Seq(ToSet(c.tools)) /\ IsContent(c.instructions)
    /\ \A c \in Clients : c.endpoint \in {"chat", "responses", "input"}
    /\ Nil \notin Messages /\ Nil # "system"
    /\ \A m \in Messages : IsContent(m.content) /\ m.calls \in Seq(ToSet(m.calls))
    /\ \A item \in Items \ {Nil} : \A content \in {item.content, item.text, item.input} : IsContent(content)
    /\ \A input \in Inputs \ {Null} : input.kind \in {"string", "other"} /\ input.text \in Seq(Words)
    /\ "\n" \notin Words

\* What a client keeps to that follows the protocol: only an assistant calls tools,
\* and an id stands for one call of a message, by one name.
IsOrderly(m) ==
    /\ m.role = "assistant" \/ m.calls = <<>>
    /\ \A c, d \in ToSet(callsIn(m.content) \o m.calls) : c.id = d.id /\ c.id # Nil => c.name = d.name
    /\ \A i, j \in DOMAIN callsIn(m.content) :
          callsIn(m.content)[i].id = callsIn(m.content)[j].id /\ callsIn(m.content)[i].id # Nil => i = j

ClientsFollowTheProtocol ==
    /\ \A m \in Messages : IsOrderly(m)
    /\ \A item \in Items \ {Nil} : IsOrderly(itemMessage(item))

VARIABLES
    client,     \* the fixed part of the client's requests
    history,    \* its conversation
    request,    \* its last request
    stage,      \* "client", or the handler the request is in
    chat,       \* the chat request in HandleChatCompletions
    body,       \* the last body built
    listing,    \* HandleModels: "idle", "loaded", "static"
    listed      \* the ids of its last answer

chatVars  == <<client, history, request, stage, chat, body>>
modelVars == <<listing, listed>>
vars == <<page, refresher, ids, loaded, client, history, request, stage, chat, body, listing, listed>>

Init ==
    /\ InitCatalog
    /\ client \in Clients
    /\ history = <<>>
    /\ request = None /\ chat = None /\ body = None
    /\ stage = "client"
    /\ listing = "idle" /\ listed = {}

-----------------------------------------------------------------------------
(* The client.  What it lists it lists before its conversation: the two    *)
(* handlers share nothing but the catalog, which goes on changing.         *)

Send(req, to) ==
    /\ stage = "client" /\ listing = "idle"
    /\ request' = req
    /\ stage' = to
    /\ listed' = {}
    /\ UNCHANGED <<client, body, listing, catalogVars>>

Say(next) ==
    /\ Len(history) < client.turns
    /\ history' = Append(history, next)

chatRequest(messages) ==
    [ model |-> client.model, user |-> client.user, messages |-> messages,
      maxTokens |-> client.maxTokens, maxCompletion |-> client.maxCompletion,
      tools |-> client.tools ]

responsesRequest(input) ==
    [ model |-> client.model, user |-> client.user, input |-> input,
      instructions |-> client.instructions, maxTokens |-> client.maxTokens,
      maxOutput |-> client.maxOutput, maxCompletion |-> client.maxCompletion,
      tools |-> client.tools ]

SendChat(m) ==
    /\ client.endpoint = "chat"
    /\ Say(m)
    /\ Send(chatRequest(history'), "chat")
    /\ chat' = request'

SendItems(item) ==
    /\ client.endpoint = "responses"
    /\ Say(item)
    /\ Send(responsesRequest([kind |-> "items", items |-> history']), "responses")
    /\ UNCHANGED chat

SendInput(input) ==
    /\ client.endpoint = "input"
    /\ Say(input)
    /\ Send(responsesRequest(input), "responses")
    /\ UNCHANGED chat

-----------------------------------------------------------------------------
(* The handlers *)

HandleResponses ==
    /\ stage = "responses"
    /\ chat' = responsesToChatRequest(request)
    /\ stage' = "chat"
    /\ UNCHANGED <<client, history, request, body, modelVars, catalogVars>>

RefuseEmpty ==
    /\ stage = "chat"
    /\ chat.messages = <<>>
    /\ stage' = "client"
    /\ UNCHANGED <<client, history, request, chat, body, modelVars, catalogVars>>

ThreadOfModel(req) == convKey([req EXCEPT !.model = MapModel(req.model)])

threadKey(req) == convKey(req)

BuildRequest ==
    /\ stage = "chat"
    /\ chat.messages # <<>>
    /\ body' = params(chat, MapModel(chat.model), threadKey(chat))
    /\ stage' = "client"
    /\ UNCHANGED <<client, history, request, chat, modelVars, catalogVars>>

\* HandleModels asks whether the catalog is loaded, and then for its ids.
HandleModels ==
    /\ history = <<>> /\ listing = "idle"
    /\ listing' = IF loaded THEN "loaded" ELSE "static"
    /\ UNCHANGED <<listed, chatVars, catalogVars>>

AnswerModels ==
    /\ listing # "idle"
    /\ listed' = IF listing = "loaded" THEN ToSet(ids) ELSE StaticIds
    /\ listing' = "idle"
    /\ UNCHANGED <<chatVars, catalogVars>>

Handlers ==
    \/ \E m \in Messages : SendChat(m)
    \/ \E item \in Items : SendItems(item)
    \/ \E input \in Inputs : SendInput(input)
    \/ HandleResponses \/ RefuseEmpty \/ BuildRequest
    \/ HandleModels \/ AnswerModels

Background ==
    /\ Refresher \/ PageChanges
    /\ UNCHANGED <<chatVars, modelVars>>

Next == Handlers \/ Background

\* Goroutines run, a fetch returns within its client's minute, sleeps end.
Spec == Init /\ [][Next]_vars /\ WF_catalogVars(UNCHANGED <<chatVars, modelVars>> /\ Refresher)

-----------------------------------------------------------------------------
(* Properties *)

\* The body is that of the last chat request.
Built == stage = "client" /\ body # None /\ chat.messages # <<>>

Turns == Keep(chat.messages, LAMBDA m : m.role # "system")

PartsOf(content, type) ==
    IF content.kind = "parts" THEN { p \in ToSet(content.parts) : p.type = type } ELSE {}

\* What upstream has read when it comes to the n-th part of message i.
SentBefore(i, n) ==
    (UNION { ToSet(body.messages[j].content) : j \in 1..(i - 1) })
    \union { body.messages[i].content[k] : k \in 1..(n - 1) }

NamesOf(id, parts) ==
    { c.name : c \in { p \in parts : p.type = "tool-call" /\ p.id = id /\ id # Nil } } \ {Nil}

\* "maps tool results back to their call names" (the toolNames of convert.go): a
\* result that the client does not name bears the name of a call with its id in
\* the same message or before it, however the calls and results are spelt and
\* whatever lies between them, and is "unknown" only if no such call precedes it.
ResultsFindTheirCall ==
    Built => \A i \in DOMAIN body.messages : \A n \in DOMAIN body.messages[i].content :
        LET r       == body.messages[i].content[n]
            results == IF Turns[i].role = "tool" THEN {Turns[i]} ELSE PartsOf(Turns[i].content, "result")
            given   == { p.name : p \in { q \in results : q.id = r.id } } \ {Nil}
        IN  r.type = "tool-result" =>
               \/ r.name \in given \union NamesOf(r.id, SentBefore(i + 1, 1))
               \/ r.name = "unknown" /\ NamesOf(r.id, SentBefore(i, n)) = {}

\* A call in a message of the chat request, as a part, in tool_calls or in both, is in
\* the body once, named, and in the message it was made in, so that its result can
\* follow.  (A function_call item of /v1/responses does not become a call at all.)
CallsSurvive ==
    Built => \A i \in DOMAIN Turns : Turns[i].role = "assistant" =>
        \A c \in PartsOf(Turns[i].content, "call") \union ToSet(Turns[i].calls) :
            LET content == body.messages[i].content
                sent    == { n \in DOMAIN content : content[n].type = "tool-call" /\ content[n].id = c.id }
            IN  c.id # Nil => \E n \in sent : sent = {n} /\ content[n].name = c.name

\* What upstream is known to refuse is never sent: content without parts, a limit
\* out of range, no tools; nor is a message list empty unless the client's
\* messages are all system messages.
BodyIsAccepted ==
    Built =>
        /\ \A i \in DOMAIN body.messages : body.messages[i].content # <<>>
        /\ body.max_tokens \in 1..maxUpstreamTokens
        /\ body.tools # <<>> /\ Nil \notin ToSet(body.tools)
        /\ body.messages = <<>> => \A m \in ToSet(chat.messages) : m.role = "system"

\* The limits the client gives, the most specific first, whichever endpoint it uses.
Limits ==
    LET given(l) == IF l = Nil THEN <<>> ELSE <<l>>
    IN  given(client.maxCompletion)
        \o (IF client.endpoint = "chat" THEN <<>> ELSE given(client.maxOutput))
        \o given(client.maxTokens)

\* The most specific limit of the client that makes sense is kept to, as far as
\* upstream allows it; a limit below 1 counts as none, the others included.
LimitIsHonoured ==
    Built => body.max_tokens =
        IF Limits = <<>> \/ Limits[1] < 1 THEN DefaultTokens
        ELSE Min({Limits[1], maxUpstreamTokens})

\* What content says: a part of an unknown type says nothing outside the texts of
\* system and tools, nor does a call.
SaidIn(role, content) ==
    IF content.kind = "parts"
      THEN FlattenSeq([k \in DOMAIN content.parts |->
               IF role \in {"system", "tool"} \/ content.parts[k].type \notin {"unknown", "call"}
                 THEN content.parts[k].text ELSE <<>>])
      ELSE content.text

\* All that a turn says, wherever it says it.  An item is an object here; one
\* without a role is the user's.
SaidBy(next) ==
    CASE client.endpoint = "chat" -> SaidIn(next.role, next.content) \o next.aside
      [] client.endpoint = "input" -> SaidIn("user", next)
      [] client.endpoint = "responses" ->
            LET role == OrElse(next.role, "user")
            IN  SaidIn(role, next.content) \o SaidIn(role, next.text)
                \o SaidIn(role, next.input) \o next.aside

\* A turn without what the proxy does not read: what it says aside, and of an item
\* all but the first of content, text and input.
ReadOf(next) ==
    CASE client.endpoint = "chat" ->
            [role |-> next.role, content |-> next.content, aside |-> <<>>]
      [] client.endpoint = "responses" ->
            [ role    |-> next.role,
              content |-> next.content,
              text    |-> IF next.content = Null THEN next.text ELSE Null,
              input   |-> IF next.content = Null /\ next.text = Null THEN next.input ELSE Null,
              aside   |-> <<>> ]
      [] client.endpoint = "input" -> next

\* An item that is no object says nothing.
HeardBy(next) ==
    IF client.endpoint = "responses" /\ next = Nil THEN <<>> ELSE SaidBy(ReadOf(next))

FromSystem(next) ==
    client.endpoint # "input" /\ next # Nil /\ next.role = "system"

FromUser(next) ==
    /\ next # Nil
    /\ next.role = "user" \/ (client.endpoint = "responses" /\ next.role = Nil)

\* The instructions, what the system says, and what the others say, as far as it is read.
Heard ==
    LET turns == IF client.endpoint = "input" THEN <<Last(history)>> ELSE history
    IN  (IF client.endpoint = "chat" THEN <<>> ELSE SaidIn("system", client.instructions))
        \o FlattenSeq([k \in DOMAIN turns |-> IF FromSystem(turns[k]) THEN HeardBy(turns[k]) ELSE <<>>])
        \o FlattenSeq([k \in DOMAIN turns |-> IF FromSystem(turns[k]) THEN <<>> ELSE HeardBy(turns[k])])

TextsOf(parts) ==
    FlattenSeq([k \in DOMAIN parts |-> IF parts[k].type = "tool-call" THEN <<>> ELSE parts[k].text])

Sent ==
    Keep(FlattenSeq(body.system), LAMBDA t : t # "\n")
    \o FlattenSeq([i \in DOMAIN body.messages |-> TextsOf(body.messages[i].content)])

\* What arrives is what the client would have said without what the proxy does not
\* read, on either endpoint: the texts of the system, of the turns and of the results
\* in their order, none repeated or moved to another turn, and one message for each
\* turn.  Lost is the rest, and no more than that: what a message says in refusal or
\* reasoning_content, what an item says in any field but the first of content, text
\* and input, so that a function_call_output is an empty turn of the user.
EveryTurnIsKept ==
    Built => Sent = Heard /\ [i \in DOMAIN body.messages |-> body.messages[i].role]
                           = [i \in DOMAIN Turns |-> Turns[i].role]

\* "Stable across the multi-turn replay an OpenAI client sends each round"
\* (sessionFor): a conversation that has a thread keeps it from turn to turn while
\* the catalog changes, unless the new turn is a system message.  One in which
\* neither user nor system nor the user's first turn says anything has none: for it
\* sessionFor makes a fresh id each time, where its comment speaks of "falling back to
\* the process-wide session".
TurnsKeepTheThread ==
    [][body # None /\ body' # body /\ client.endpoint # "input" =>
          \/ body.thread = body'.thread
          \/ FromSystem(Last(history))
          \/ body.thread = Nil
          \/ client.user = Nil /\ ~\E i \in 1..(Len(history) - 1) : FromUser(history[i])]_vars

\* A model of the list the client was given is served as itself, though the list
\* may have changed since it was asked for, or between the two looks at the
\* catalog: an id that is gone at least goes to a model spelt like it.
ListedIsServed ==
    \A n \in listed :
        \/ MapModel(n) = n
        \/ loaded /\ n \notin ToSet(ids) /\ MapModel(n) \in ToSet(ids)
             /\ Letters(Short(MapModel(n))) = Letters(n)
=============================================================================
