---------------------------- MODULE MCRulesGuard ----------------------------
(* Small instances of RulesGuard.  r1 can be remembered, r2 is an entry of an *)
(* editor, tpl is a template choice of the hat client.                        *)
EXTENDS RulesGuard

CONSTANTS w1, r1, r2, tpl

MCRule == {r1, r2, tpl}
BothFiles == {w1, GlobalFile}

JustEmpty == {Holding({})}
TwoEdits == {Holding({}), Holding({r2})}
OneEdit == {Holding({r2})}
BadEdits == {Holding({r2}), Malformed}

OneConfig == {{w1}}
BothConfigs == {{}, {w1}}

UpTo(n, m) == [f \in File |-> IF f = GlobalFile THEN n ELSE m]
Versions12 == UpTo(1, 2)
Versions13 == UpTo(1, 3)
Versions22 == UpTo(2, 2)
=============================================================================
