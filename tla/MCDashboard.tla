----------------------------- MODULE MCDashboard -----------------------------
(***************************************************************************)
(* An instance of Dashboard for TLC: two addresses that knock; two tabs of *)
(* a signed-in browser and two decisions; two posts of the settings; a     *)
(* browser that signs in and opens a tab.                                  *)
(***************************************************************************)
EXTENDS Dashboard, TLC

CONSTANTS a1, a2, t1, t2, w1, w2

Home == [t \in Tabs |-> a1]

Nobody == [knocking |-> {}, signedIn |-> {}, tabs |-> {}, editors |-> {}, deciders |-> {}]

SomeCrowds ==
    {[Nobody EXCEPT !.knocking = {a1, a2}],
     [Nobody EXCEPT !.signedIn = {a1}, !.tabs = {t1, t2}, !.deciders = {w1, w2}],
     [Nobody EXCEPT !.signedIn = {a1}, !.tabs = {t1}, !.editors = {w1, w2}],
     [Nobody EXCEPT !.knocking = {a1}, !.tabs = {t1}]}
=============================================================================
