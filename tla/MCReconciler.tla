---------------------------- MODULE MCReconciler ----------------------------
EXTENDS Reconciler, TLC
CONSTANTS i1, i2, b1, h1, h2

OneInstance  == {i1}
TwoInstances == {i1, i2}
WithBackend  == {i1, b1}

CountsOne == {<<1, 1>>}
CountsTwo == {<<2, 2>>}
CountsAny == {<<1, 1>>, <<1, 2>>, <<2, 2>>}

\* Requests that name one instance or the orphan record of its container, two ...
IdsOrph == {<<Res(i1)>>, <<Orphan(i1)>>}
HandlerSymmetry == Permutations(Handler)

IdsTwo  == {<<Res(i1)>>, <<Res(i2)>>, <<Res(i1), Res(i2)>>}
NoIds   == {}
=============================================================================
