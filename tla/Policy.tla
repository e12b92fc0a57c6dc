------------------------------- MODULE Policy -------------------------------
(***************************************************************************)
(* The policy engine (caesar/policy): the allow-list an operator loads     *)
(* once at startup and the verdict on each call the brain asks for.        *)
(*                                                                         *)
(* The rule lists keep their order only inside the loader; evaluation asks *)
(* whether some rule allows the call, so a list is the set of its rules.   *)
(* A module of operators: the brain (Brain) evaluates them.                *)
(***************************************************************************)
CONSTANTS
    Services,      \* domain.service identifiers
    Entities,      \* entity ids
    ToolNames,     \* identifiers of the other tools
    Domains,       \* values of a tool call's "domain"
    NotAString,    \* an element of an entity_id list that is no string
    Absent         \* a tool call without a domain

ASSUME PolicyAssumption ==
    /\ NotAString \notin Entities
    /\ Absent \notin Domains
    /\ Services \cap ToolNames = {}

(***************************************************************************)
(* A service rule pins entity_id to a set or leaves it free.  A tool rule  *)
(* carries a domain_allowlist, which an absent key, an empty list and an   *)
(* input block without that key all leave empty.                           *)
(***************************************************************************)
ServiceRule ==
    [service : Services, pinned : {TRUE}, entities : SUBSET Entities]
        \cup [service : Services, pinned : {FALSE}, entities : {{}}]
ToolRule    == [tool : ToolNames, domains : SUBSET Domains]

(***************************************************************************)
(* The target of a service call: no target or no entity_id, a string, a    *)
(* list, or something else.  A tool call has a domain or none.             *)
(***************************************************************************)
Target ==
    [shape : {"absent", "other"}, ids : {{}}]
        \cup [shape : {"string"}, ids : {{e} : e \in Entities}]
        \cup [shape : {"list"}, ids : SUBSET (Entities \cup {NotAString})]
ServiceCall == [service : Services, target : Target]
ToolCall    == [tool : ToolNames, domain : Domains \cup {Absent}]
Calls       == ServiceCall \cup ToolCall

-----------------------------------------------------------------------------
\* _call_entity_ids: None unless entity_id is a string or a list, and a list loses
\* the elements that are not strings.
NamesEntities(ask) == ask.target.shape \in {"string", "list"}
CallEntityIds(ask) == ask.target.ids \ {NotAString}

IsPermissive(rule) == ~rule.pinned

Covers(rule, ids) == \A e \in ids : e \in rule.entities

\* slip: the entities of the candidates are pooled
EvaluateServicePooled(rules, ask) ==
    LET candidates == {r \in rules : r.service = ask.service}
        ids == CallEntityIds(ask) IN
    \/ \E r \in candidates : IsPermissive(r)
    \/ NamesEntities(ask) /\ candidates # {} /\ ids \subseteq UNION {r.entities : r \in candidates}

\* _evaluate_service: a permissive rule decides; then the call must name entities,
\* and one constrained rule must permit them all.
EvaluateService(rules, ask) ==
    LET candidates == {r \in rules : r.service = ask.service}
        ids == CallEntityIds(ask) IN
    \/ \E r \in candidates : IsPermissive(r)
    \/ NamesEntities(ask) /\ \E r \in candidates : ~IsPermissive(r) /\ Covers(r, ids)

\* _domain_allowlist_matches and _input_matches.
InputMatches(rule, ask) ==
    rule.domains = {} \/ ask.domain = Absent \/ ask.domain \in rule.domains

\* _evaluate_tool: some rule of the tool matches the input.
EvaluateTool(rules, ask) == \E r \in rules : r.tool = ask.tool /\ InputMatches(r, ask)

\* evaluate, with DenyAllPolicy as the policy without rules.
IsServiceCall(ask) == ask \in ServiceCall
Allowed(srules, trules, ask) ==
    IF IsServiceCall(ask) THEN EvaluateService(srules, ask)
    ELSE EvaluateTool(trules, ask)
=============================================================================
