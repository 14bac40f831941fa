----------------------------- MODULE MCDelivery ------------------------------
(* Model checking of Delivery: a release of an application that depends on *)
(* a library; both have default values and templates.  The Repository      *)
(* lists no charts: all are in its index, and users and the chart          *)
(* controller create the Charts.                                           *)
EXTENDS Delivery

CONSTANTS app, lib

TwoCharts == {app, lib}
TwoParts == {"default", "tmpl"}
AppNeedsLib == [p \in Chart \X Version |->
                   IF p[1] = app THEN {<<lib, p[2]>>} ELSE {}]
NothingListed == {{}}
AppWanted == <<app, 1>>
=============================================================================
