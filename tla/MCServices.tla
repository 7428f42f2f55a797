------------------------------ MODULE MCServices ------------------------------
(* Instances of the services for TLC. The pollers keep the ratios of their *)
(* defaults: the outbox publisher in seconds, the defaults but for the     *)
(* maximum (600) and the errors' ceiling (32); the recovery scanner in     *)
(* units of 30 seconds; the delivery worker in seconds, with a shorter     *)
(* ramp (60) and maximum (600).                                            *)
EXTENDS Services, TLC

\* Copies of the events of one batch: both versions, a duplicate, another
\* type under the same event, and an action of the recipient's own.
Msg(copy, version, type, own) ==
    [copy |-> copy, event |-> "e", version |-> version, to |-> {"u"}, type |-> type, own |-> own]

One   == Msg(1, 1, "completed", FALSE)
Two   == Msg(1, 2, "completed", FALSE)
Twice == Msg(2, 2, "completed", FALSE)
Other == Msg(1, 2, "failed", FALSE)
Mine  == Msg(1, 2, "paused", TRUE)

Copies == {One, Two, Twice, Other, Mine}
Mixes  == {{One, Two}, {Two, Twice}, {One, Other}, {Two, Mine}}

\* Two turns of one user and one of another.
TwoAndOne == <<"u", "u", "v">>

Symmetry == Permutations(Handlers) \union Permutations(Destinations) \union Permutations(Tabs)
=============================================================================
