----------------------------- MODULE MCDemoPage -----------------------------
(***************************************************************************)
(* A small instance of DemoPage, Generation and Sampler for TLC: a request *)
(* that draws one token in every way, one that is cut short in every way,  *)
(* and one of three equal tokens with a visitor on the page.               *)
(***************************************************************************)
EXTENDS DemoPage

Request(maxTokens, ignoreEos, stopIds, greedy, topK, topP) ==
    [maxTokens |-> maxTokens, ignoreEos |-> ignoreEos, stopIds |-> stopIds,
     greedy |-> greedy, topK |-> topK, topP |-> topP]

Drawing == {Request(1, FALSE, {}, FALSE, k, p) : k \in -1 .. 3, p \in -1 .. Whole + 1}

Stopping == {Request(n, e, s, TRUE, -1, Whole) :
                n \in {0, 2, 4}, e \in BOOLEAN, s \in {{}, {"trail"}}}

Plain == Request(3, TRUE, {}, TRUE, 1, Whole)

Sure == {[u \in Vocab |-> IF u = t THEN 1 ELSE 0] : t \in Vocab}

MCLogits(asked) ==
    CASE asked \in Drawing -> Rows
      [] asked \in Stopping -> Sure
      [] asked = Plain -> {r \in Sure : r["lead"] = 1}

MCSamplingParams == Drawing \cup Stopping \cup {Plain}

MCWatched == {Plain}

MCPrompts == {<<"lead">>, <<"trail", "lead">>}
=============================================================================
