----------------------------- MODULE MCRequests -----------------------------
EXTENDS Requests

CONSTANTS a, b   \* tool-call ids

(* Names: a bare id, ids of two vendors spelt like it, an id apart. *)
Glm     == <<"glm", "-", "5">>
AbcGlm  == <<"abc", "/", "glm", "-", "5">>
OthGlm  == <<"oth", "/", "glm", "5">>
DsV4    == <<"ds", "/", "v4">>

MCAlphabet == <<AbcGlm, DsV4, Glm, OthGlm>>
MCAlias    == <<"ds">> :> DsV4 @@ <<"glm", "5">> :> AbcGlm
MCNames ==
    ToSet(MCAlphabet) \union DOMAIN MCAlias \union
    { <<>>, <<"v4">>, <<"v4", ".">>, <<"glm", ".", "5">>, <<"new", "/", "glm", "-", "5">> }
MCStaticIds == {DsV4, AbcGlm}
MCPages ==
    { <<>>, <<OthGlm, DsV4, AbcGlm, OthGlm>>, <<AbcGlm, DsV4, OthGlm>>, <<OthGlm, Glm, AbcGlm>> }

-----------------------------------------------------------------------------
Str(w) == [kind |-> "string", text |-> <<w>>]
Empty  == [kind |-> "string", text |-> <<>>]
Number == [kind |-> "other", text |-> <<"7">>]
Parts(ps) == [kind |-> "parts", parts |-> ps]

Part(type, text) == [type |-> type, text |-> text, id |-> Nil, name |-> Nil, input |-> Nil]
CallPart(i, n)   == [Part("call", <<"{call}">>) EXCEPT !.id = i, !.name = n, !.input = "{x}"]
ResultPart(i, t) == [Part("result", t) EXCEPT !.id = i]

Call(i, n, args) == [id |-> i, name |-> n, arguments |-> args]

User(content) == Message("user", content)
Assistant(content, calls) == [Message("assistant", content) EXCEPT !.calls = calls]
Tool(i, n, content) == [Message("tool", content) EXCEPT !.id = i, !.name = n]

MCMessages == {
    User(Str("hi")),
    User(Parts(<<Part("unknown", <<"?">>), Part("text", <<>>), Part("text", <<"t">>), Part("image", <<"url">>)>>)),
    Message("system", Parts(<<Part("unknown", <<"?">>), Part("text", <<"sys">>)>>)),
    [Assistant(Null, <<>>) EXCEPT !.aside = <<"hm">>],
    Assistant(Empty, <<Call(a, "f", ""), Call(b, "g", "not json")>>),
    Assistant(Parts(<<Part("text", <<"so">>), CallPart(a, "f"), CallPart(b, "g")>>), <<Call(a, "f", "{y}")>>),
    User(Parts(<<ResultPart(a, <<"Error:", "no">>), ResultPart(b, <<>>), Part("text", <<"go">>)>>)),
    Tool(a, Nil, Str("42")),
    Tool(b, "h", Parts(<<Part("text", <<"4">>), Part("unknown", <<"2">>)>>)) }

Item(role, content, text, input) ==
    [role |-> role, content |-> content, text |-> text, input |-> input, aside |-> <<>>]

\* The output of a function_call_output.
Output(text) == [Item(Nil, Null, Null, Null) EXCEPT !.aside = text]

MCItems == {
    Item("user", Str("hi"), Str("t"), Null),
    Item(Nil, Null, Str("t"), Str("url")),
    Item("assistant", Null, Null, Parts(<<Part("text", <<"so">>)>>)),
    Output(<<"out">>),
    Item("system", Str("sys"), Null, Null),
    Nil }

MCWords == {"hi", "?", "t", "url", "sys", "so", "{call}", "Error:", "no", "go", "42", "4", "2", "7", "be", "hm", "out"}

MCInputs == { Null, Str("hi"), Empty, Number }

-----------------------------------------------------------------------------
MCDefaultTools == <<"read", "write">>

Client(endpoint, turns) ==
    [ endpoint |-> endpoint, turns |-> turns, model |-> <<"glm", ".", "5">>, user |-> Nil,
      instructions |-> Null, maxTokens |-> Nil, maxOutput |-> Nil, maxCompletion |-> Nil,
      tools |-> <<>> ]

Talker == Client("chat", 3)
Replayer == [Client("responses", 3) EXCEPT !.instructions = Str("be")]

\* Every limit not given, below, within and above the bounds, in every order, on
\* both endpoints.
SomeLimits == {Nil, 0, 3, 9}
Limited ==
    { [Client("input", 1) EXCEPT !.maxTokens = x, !.maxOutput = y, !.maxCompletion = z, !.tools = <<Nil, "mine">>] :
        x \in SomeLimits, y \in SomeLimits, z \in SomeLimits }
    \union
    { [Client("chat", 1) EXCEPT !.maxTokens = x, !.maxCompletion = z] : x \in SomeLimits, z \in SomeLimits }

MCClients ==
    { Talker, Replayer, [Talker EXCEPT !.user = "me", !.turns = 2],
      [Client("input", 2) EXCEPT !.tools = <<Nil>>] } \union Limited

ASSUME ProtocolAssumption == ClientsFollowTheProtocol
=============================================================================
