------------------------ MODULE MCOutcomeV2Training ------------------------
(* A model-checking instance of OutcomeV2Training: two training games of one season and
   one evaluation game in each of two later ones, built honestly or with one mistake. *)
EXTENDS OutcomeV2Training

CONSTANTS g1, g2, e1, e2    \* the games

Flaws == {"hindsight", "backdated", "stale", "unavailable", "flipped", "reversed", "unlicensed",
          "forbidden", "health", "overfit", "peeked", "weak", "oneSeason", "unready", "unripe",
          "otherRecipe", "answered"}
MCHonest == {"late", "early"}
MCBuilds == MCHonest \cup Flaws

MCSeasonAt(t) == IF t < 10 THEN 1 ELSE IF t < 15 THEN 2 ELSE 3
Teams == g1 :> {"a", "b"} @@ g2 :> {"a", "c"} @@ e1 :> {"a", "b"} @@ e2 :> {"b", "c"}
Won == g1 :> TRUE @@ g2 :> FALSE @@ e1 :> TRUE @@ e2 :> FALSE
Trained == <<g1, g2>>
Evaluated == <<e1, e2>>

Cutoff(b, g) == CASE g = g1 -> 2 [] g = g2 -> 6 [] g = e1 -> 11
                  [] g = e2 -> IF b = "oneSeason" THEN 14 ELSE 16
\* The first game's result is out before or after the second game's cutoff.
Known(b, g) == IF g = g1 THEN (IF b = "early" THEN 5 ELSE 7) ELSE Cutoff(b, g) + 2

\* Rights of a later day than the upload, or that forbid it.
Rights(b) ==
  [terms |-> "signed", asOf |-> IF b = "unripe" THEN 25 ELSE 20,
   permission |-> IF b = "forbidden" THEN "prohibited" ELSE "allowed"]

News(b, v, t) ==
  [source |-> "news", version |-> v, published |-> t, retrieved |-> t, method |-> "live",
   available |-> t, scope |-> "licensed", rights |-> Rights(b), health |-> b = "health"]
\* The box score is published at once, and retrieved when it is known.
Score(b, g) ==
  [source |-> g, version |-> 1, published |-> Cutoff(b, g) + 2, retrieved |-> Known(b, g),
   method |-> "live", available |-> Known(b, g), scope |-> "licensed", rights |-> Rights(b),
   health |-> FALSE]
NewsOf(b, g) ==
  LET latest == IF b = "unavailable" THEN 7 ELSE 5
  IN IF g # g1 /\ b # "stale" THEN News(b, 2, latest) ELSE News(b, 1, 1)

Bundle(b, g) ==
  [id |-> g, cutoff |-> Cutoff(b, g), tipoff |-> Cutoff(b, g) + 1, sources |-> {NewsOf(b, g)},
   records |-> {[kind |-> IF b = "health" THEN "injury" ELSE "rest", sources |-> {"news"},
                 available |-> NewsOf(b, g).available]}]
Resolved(b, g) ==
  [id |-> g, score |-> IF Won[g] THEN [team |-> 2, opponent |-> 1] ELSE [team |-> 1, opponent |-> 2],
   source |-> Score(b, g),
   resolvedAt |-> IF b = "backdated" THEN Cutoff(b, g) + 2 ELSE Known(b, g)]
Replay(b, g) ==
  [id |-> g, season |-> MCSeasonAt(Cutoff(b, g)), cutoff |-> Cutoff(b, g),
   tipoff |-> Cutoff(b, g) + 1, teams |-> Teams[g]]
\* Both wrong datasets let the first result into the second game's prior too early.
Ratings(b, g) ==
  CASE g = g2 /\ b \in {"early", "hindsight", "backdated"} -> {[id |-> g1, won |-> TRUE]}
    [] b = "oneSeason" /\ g = e2 -> {[id |-> e1, won |-> TRUE]}
    [] OTHER -> {}
State(b, g) ==
  StateOf(Replay(b, g), Ratings(b, g), IF b = "otherRecipe" THEN "other" ELSE FrozenRecipe)
Prior(b, g) == State(b, g).prior
Row(b, g) ==
  [id |-> g, season |-> MCSeasonAt(Cutoff(b, g)), cutoff |-> Cutoff(b, g),
   tipoff |-> Cutoff(b, g) + 1, bundle |-> Bundle(b, g), prior |-> Prior(b, g),
   priorAt |-> Cutoff(b, g), state |-> State(b, g), inputAt |-> Cutoff(b, g),
   signal |-> IF b \in {"weak", "peeked"} /\ g = e2 THEN "elo" ELSE "sharp"]

\* One record per game, in order.
Each(Of(_, _), b, games) == [k \in DOMAIN games |-> Of(b, games[k])]
Example(b, g, swapped) ==
  [id |-> IF swapped THEN Swap(g) ELSE g, prompt |-> Prompt(Row(b, g), swapped),
   label |-> Label(swapped # (Won[g] # (b = "flipped")))]
Examples(b) ==
  [k \in 1 .. 4 |-> Example(b, Trained[(k + 1) \div 2], (k % 2 = 0) # (b = "reversed"))]
Member(b, g) ==
  [id |-> g, season |-> MCSeasonAt(Cutoff(b, g)), block |-> Cutoff(b, g), prior |-> Prior(b, g)]
  @@ IF b = "answered" THEN "won" :> Won[g] ELSE << >>
Calibrated(b, g) ==
  [id |-> g, season |-> MCSeasonAt(Cutoff(b, g)), prior |-> Prior(b, g), won |-> Won[g]]
Answer(b, g) == [id |-> g, won |-> Won[g]]
SeasonRow(b, g) == [id |-> g, season |-> MCSeasonAt(Cutoff(b, g))]

\* An overfitted model has seen the evaluation too.
Model(b) ==
  LET games == IF b = "overfit" THEN Trained \o Evaluated ELSE Trained
  IN FitBaseline(Each(Row, b, games), Each(Resolved, b, games))
Forecasts(b) ==
  LET predicted == PredictBaseline(Model(b), Each(Row, b, Evaluated))
  IN [k \in DOMAIN predicted |->
       IF b = "peeked" THEN [predicted[k] EXCEPT !.value = "sharp"] ELSE predicted[k]]

Build(b) ==
  [training |-> Examples(b), rows |-> Each(Row, b, Trained),
   pack |-> {NewsOf(b, g) : g \in {g1, g2}} \cup {News(b, 2, 5)}
            \cup {Score(b, g) : g \in DOMAIN Teams}
            \cup (IF b = "unlicensed" THEN {[News(b, 3, 9) EXCEPT !.scope = "paywalled"]} ELSE {}),
   bundles |-> Each(Bundle, b, Trained), states |-> Each(State, b, Trained),
   replay |-> Each(Replay, b, Trained), seasons |-> Each(SeasonRow, b, Trained),
   resolutions |-> Each(Resolved, b, Trained),
   rights |-> [agreement |-> "signed", asOf |-> Rights(b).asOf, permission |-> Rights(b).permission,
               scopes |-> {"licensed"}],
   agreement |-> IF b = "forbidden" THEN "draft" ELSE "signed",
   evalRows |-> Each(Row, b, Evaluated), evalReplay |-> Each(Replay, b, Evaluated),
   evalStates |-> Each(State, b, Evaluated), evalResolutions |-> Each(Resolved, b, Evaluated),
   cohort |-> Each(Member, b, Evaluated), answers |-> Each(Answer, b, Evaluated),
   forecasts |-> Forecasts(b), calibration |-> Each(Calibrated, b, Trained),
   model |-> Model(b),
   forecastLock |-> [ForecastLock(Model(b), Each(Row, b, Evaluated)) EXCEPT !.forecasts = Forecasts(b)],
   report |-> GateReport(Each(Member, b, Evaluated), Each(Answer, b, Evaluated), Forecasts(b),
                         Each(Calibrated, b, Trained)),
   claims |-> [ready |-> b # "unready", untouched |-> <<2, 3>>, ids |-> Trained,
               health |-> FALSE, permission |-> "allowed"]]
MCDataset == [b \in MCBuilds |-> Build(b)]
MCMinimum == [games |-> 1, blocks |-> 1]
=============================================================================
