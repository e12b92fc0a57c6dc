---------------------------- MODULE MCConversation ----------------------------
(***************************************************************************)
(* Instances of Conversation for TLC: every provider as the default and as *)
(* the route of "chat", and clients that post a question, a question with  *)
(* instructions of their own, and a conversation with a tool turn in it.   *)
(***************************************************************************)
EXTENDS Conversation, TLC

CONSTANTS m1, m2

Key == {"anthropic", "openai"}
Plain(p) == [provider |-> p, model |-> m1, routing |-> <<>>, keys |-> Key]
Routed(p, q) == [Plain(p) EXCEPT !.routing = "chat" :> [provider |-> q, model |-> m2]]

Settings ==
    {Plain("anthropic"), Plain("ollama"), Routed("anthropic", "openai"),
     [Plain("ollama") EXCEPT !.keys = {},
        !.routing = "summary" :> [provider |-> "openai", model |-> m2]]}

\* Ollama's ids come and go; a mixed answer is among them.
Servers ==
    [p \in Providers |->
        IF p # "ollama" THEN RawCall(p)
        ELSE {c \in RawCall(p) : c.named => c.arguments = "object"}]

Said(role, text) == Message(role, text, <<>>, <<>>)
TheirUse == [id |-> <<"tc", 0, 1>>, input |-> "given", turn |-> 0, idx |-> 1]

Posts ==
    {<<Said("user", "ask")>>,
     <<Said("user", "ask"), Said("system", "instruct"), Said("user", "more")>>,
     <<Said("user", "ask"), Message("assistant", "look", <<TheirUse>>, <<>>),
       Message("user", "and", <<>>, <<ResultFor(TheirUse)>>)>>,
     <<Said("user", "ask"), Message("assistant", NoText, <<TheirUse>>, <<>>)>>}
=============================================================================
