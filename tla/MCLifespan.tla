------------------------------ MODULE MCLifespan ------------------------------
(***************************************************************************)
(* Instances of Lifespan for TLC: everything configured, the least that    *)
(* can be, and the mistakes an operator can make one at a time.            *)
(***************************************************************************)
EXTENDS Lifespan

Flat(kind) == [fields |-> {kind}, source |-> "none", enabled |-> TRUE]
Explicit(kind) == [fields |-> {}, source |-> kind, enabled |-> TRUE]
File(entries) == [readable |-> TRUE, keys |-> {"triggers"}, entries |-> entries]

Full == [providers |-> {"anthropic", "ollama"}, keys |-> {"legacy"}, rules |-> "valid",
         proactive |-> TRUE, triggers |-> File(<<Flat("schedule"), Explicit("ha"), Flat("webhook")>>),
         given |-> {"topic"}, on |-> {"bus", "ha", "semantic", "tracing"},
         workers |-> <<"semantic_recall", "notify">>]

Least == [Full EXCEPT !.keys = {}, !.providers = {"ollama"}, !.rules = "none",
                      !.proactive = FALSE, !.triggers = File(<<>>), !.on = {}]

SomeSettings ==
    {Full, Least,
     [Full EXCEPT !.on = {"bus", "semantic"}],
     [Full EXCEPT !.on = {"ha"},
                  !.triggers = File(<<[Flat("ha") EXCEPT !.enabled = FALSE], Flat("schedule")>>)],
     [Full EXCEPT !.on = {"bus"}],
     [Full EXCEPT !.given = {}],
     [Full EXCEPT !.on = @ \cup {"auth"}],
     [Full EXCEPT !.workers = <<"calculator", "calendar_read">>],
     [Full EXCEPT !.workers = <<"unheard_of">>],
     [Full EXCEPT !.triggers.readable = FALSE],
     [Full EXCEPT !.triggers.keys = {"triggers", "schedules"}],
     [Full EXCEPT !.triggers.entries = <<[Flat("ha") EXCEPT !.fields = {"ha", "schedule"}]>>],
     [Full EXCEPT !.triggers.entries = <<[Flat("ha") EXCEPT !.fields = {}]>>],
     [Full EXCEPT !.rules = "broken"],
     [Full EXCEPT !.keys = {"openai"}],
     [Full EXCEPT !.providers = {"openai"}]}
=============================================================================
