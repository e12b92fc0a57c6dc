------------------------------- MODULE MCBrain -------------------------------
(***************************************************************************)
(* Instances of Brain for TLC: one gated tool, one recall tool and         *)
(* call_service.                                                           *)
(***************************************************************************)
EXTENDS Brain, TLC

CONSTANTS c1, c2, p1, p2, i1, i2, k1, k2, calc, recall, light, lamp, door, news, wiki

IdEach   == [p \in Procs |-> IF p = p1 THEN i1 ELSE i2]
BuildOf  == [p \in Procs |-> IF p = p1 THEN {k1} ELSE {k1, k2}]
ToolCaps == calc :> k1 @@ recall :> k2

(***************************************************************************)
(* The rules: none; each of two entities by a rule of its own, so a call   *)
(* on both is denied, and the tool on one domain; the service free, the    *)
(* tool by two rules.                                                      *)
(***************************************************************************)
On(shape, ids) == [service |-> light, target |-> [shape |-> shape, ids |-> ids]]
Pin(ids)       == [service |-> light, pinned |-> TRUE, entities |-> ids]
Free           == [service |-> light, pinned |-> FALSE, entities |-> {}]
ToolOn(ds)     == [tool |-> calc, domains |-> ds]

TwoServices == {On("string", {lamp}), On("list", {lamp, door})}

Wired(ss, ts) == [ha |-> TRUE, bus |-> TRUE, services |-> ss, tools |-> ts]
Pinned == Wired({Pin({lamp}), Pin({door})}, {ToolOn({news})})
Bare   == [ha |-> FALSE, bus |-> FALSE, services |-> {}, tools |-> {}]
Every  == {Bare, Wired({}, {}), Pinned, Wired({Free}, {ToolOn({news}), ToolOn({})})}
=============================================================================
