----------------------------- MODULE MCGateway -----------------------------
(* One text of two lines in two parts, a regex layer and a GLiNER layer,   *)
(* one secret for each, and a third whose pattern does not compile.        *)
EXTENDS Gateway, TLC

CONSTANTS t1, s1, s2, s3, api

MCLinesOf == t1 :> <<{s1, s3}, {s2}>>
MCBodies == {[text |-> t1, array |-> TRUE, parts |-> <<{1}, {2}>>]}
MCLayerOf == (s1 :> 1) @@ (s2 :> 2) @@ (s3 :> 1)

AllOn == [rules |-> {s1, s2, s3}, allowed |-> {}, timed |-> TRUE,
          threshold |-> 4, bypass |-> {}]

(* s1 is guarded; the GLiNER rule is toggled, s2 becomes allowed and the   *)
(* path bypassed.  The timeout stays in force.                             *)
Toggles == {AllOn,
            [AllOn EXCEPT !.rules = {s1, s3}, !.allowed = {s2}, !.bypass = {api}]}
=============================================================================
