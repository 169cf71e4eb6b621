------------------------- MODULE MCProspectiveLedger -------------------------
(* Model-checking instances of ProspectiveLedger. *)
EXTENDS ProspectiveLedger

CONSTANT w1

Game(question, deadline, tipoff) == [question |-> question, deadline |-> deadline, tipoff |-> tipoff]
Cohort(id, retrieved, games) == [id |-> id, retrieved |-> retrieved, games |-> games]

\* A slate of two games, the same slate with its second game moved, and a later slate.
MCCohorts == {Cohort("a", 0, <<Game("g1", 2, 3), Game("g2", 2, 3)>>),
              Cohort("a", 0, <<Game("g1", 2, 3), Game("g2", 2, 4)>>),
              Cohort("b", 1, <<Game("g3", 3, 4)>>)}

Questions == {<<"g1", "g2">>, <<"g2", "g1">>, <<"g1">>, <<"g3">>}

ForecastOf(questions, input, generated, breaks) ==
  [k \in DOMAIN questions |->
    [question |-> questions[k], input |-> input, generated |-> generated, breaks |-> breaks]]
ResolutionOf(questions, resolved, breaks) ==
  [k \in DOMAIN questions |-> [question |-> questions[k], resolved |-> resolved, breaks |-> breaks]]

PlainForecasts == {ForecastOf(q, i, g, FALSE) : q \in Questions, i \in {0, 1}, g \in {1, 2}}
PlainResolutions == {ResolutionOf(q, t, FALSE) : q \in Questions, t \in {3, 4}}

\* A prompt, or a resolution's source, with a line separator in it.
BreakingForecasts == PlainForecasts \cup {ForecastOf(<<"g3">>, 1, 1, TRUE)}

MCTimes == 1..4
=============================================================================
