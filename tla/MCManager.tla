------------------------------ MODULE MCManager ------------------------------
(* Model checking of Manager: an application chart and a library it        *)
(* depends on, version by version.                                         *)
EXTENDS Manager

CONSTANTS app, lib

TwoCharts == {app, lib}
TwoParts == {"default", "tmpl"}
AppNeedsLib == [p \in Chart \X Version |->
                   IF p[1] = app THEN {<<lib, p[2]>>} ELSE {}]
OneOrTwoListed == {{<<app, 1>>}, {<<app, 1>>, <<lib, 1>>}}
OtherLibListed == {{<<app, 1>>, <<lib, 2>>}}
=============================================================================
