------------------------------ MODULE MCLambda ------------------------------
(* Small instances of Lambda.                                                *)
EXTENDS Lambda, TLC

CONSTANTS f1, f2, h1, h2, v1, v2

TwoFunctions == {f1, f2}
TwoHandlers  == {h1, h2}
OneTwo       == {1, 2}
OneTwoThree  == {1, 2, 3}
Versions     == {v1, v2}
AllOps       == {"create", "delete", "update", "invoke"}

AllSymmetry == {[x \in Handler \cup Function \cup Version |->
                   IF x \in Handler THEN p[x] ELSE IF x \in Function THEN q[x] ELSE r[x]] :
                 p \in Permutations(Handler), q \in Permutations(Function),
                 r \in Permutations(Version)}
=============================================================================
