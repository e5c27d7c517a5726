----------------------------- MODULE MCScenario -----------------------------
EXTENDS Scenario

CONSTANTS G, D, S1, S2, a, b, c

To(s, hooks) == [to |-> s, hooks |-> hooks, guard |-> FALSE]
OnCompletion(s) == [to |-> s, hooks |-> {}, guard |-> TRUE]

\* Callbacks at both hooks of several transitions, and a NoDataStep.
WithCallbacks ==
    [anchor |-> a, final |-> {c}, silent |-> {b}, hosts |-> {}, altering |-> {a},
     processes |-> <<>>, regen |-> FALSE, reset |-> FALSE,
     next |-> (a :> <<To(b, {"fbk"}), To(c, Hooks), To(a, {"sending"})>>) @@
              (b :> <<To(a, {"fbk"}), To(a, {})>>) @@ (c :> <<>>)]

\* A DataProcess with two chains that share their generator, and its completion.
WithDataProcess ==
    [anchor |-> a, final |-> {c}, silent |-> {b}, hosts |-> {a}, altering |-> {a},
     processes |-> <<<<G, S1, D, S2>>, <<G, S2>>>>, regen |-> FALSE, reset |-> FALSE,
     next |-> (a :> <<To(c, {"fbk"}), OnCompletion(b), To(a, {})>>) @@
              (b :> <<To(a, {})>>) @@ (c :> <<>>)]

\* Nested disruptors that never end.
WithRegen ==
    [anchor |-> a, final |-> {}, silent |-> {}, hosts |-> {b}, altering |-> {},
     processes |-> <<<<G, S1, D, S2>>>>, regen |-> TRUE, reset |-> FALSE,
     next |-> (a :> <<To(b, {})>>) @@ (b :> <<To(a, {"sending"})>>) @@ (c :> <<>>)]

\* A seed, and no transition on the completion: the control goes back to the user.
WithReset ==
    [WithDataProcess EXCEPT !.reset = TRUE, !.processes = <<<<D, S1>>>>, !.altering = {},
                            !.next[a] = <<To(c, {"fbk"}), To(b, {})>>]

\* Two chains that share a stateful disruptor, then the one without the other.
WithShared ==
    [WithRegen EXCEPT !.processes = <<<<S1>>, <<D, S1>>, <<S2>>>>]

\* Nothing in the chain remembers what it has made.
WithoutMemory == [WithRegen EXCEPT !.processes = <<<<D>>>>]

ThePlays == {WithShared, WithoutMemory, WithCallbacks, WithDataProcess, WithRegen, WithReset}
=============================================================================
