---------------------------- MODULE MCDelivery ----------------------------
\* Instances of Delivery for TLC.
EXTENDS Delivery, TLC

CONSTANTS a, b, c, m1, m2, k1, t1, t2, a1, a2

\* Three comments of one rule and pull request, two with a webhook before one
\* of them, and results of pushes.
Plan(x, y, z, m) == [marker |-> [p \in Pubs |-> m], channels |-> (a :> x) @@ (b :> y) @@ (c :> z)]
Commented == Plan(<<"comment">>, <<"comment">>, <<"comment">>, m1)
MCPlans ==
    { Commented,
      Plan(<<"comment">>, <<"webhook", "comment">>, <<>>, m1),
      Plan(<<"comment", "webhook">>, <<"file">>, <<"file">>, NoPR) }

\* An administrator adds or removes model and key; one rule has a model.
MCSettings == {[model |-> m1, key |-> k1, timeout |-> t1], [model |-> None, key |-> None, timeout |-> t2]}
MCModelOf == (a1 :> None) @@ (a2 :> m2)

=============================================================================
