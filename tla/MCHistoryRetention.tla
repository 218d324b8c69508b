------------------------- MODULE MCHistoryRetention -------------------------
(* Rows for TLC: an expired market with its evidence, and what is still needed of it. *)
EXTENDS HistoryRetention

Row(t, k, of, old) == [table |-> t, key |-> k, of |-> of, old |-> old]

Window(m)  == <<"market_windows", m>>
Market(m)  == <<"markets", m>>

\* Market 1 has expired, market 2 has not.  Session 1 and payload 1 are old but still used,
\* session 2 and payload 2 are not; raw session 1 has one expired event.
MCHistory ==
  {Row("market_windows", m, {}, m = 1) : m \in 1..2} \cup
  {Row("markets", m, {Window(m)}, m = 1) : m \in 1..2} \cup
  {Row("resolutions", 1, {Window(1), Market(1)}, TRUE),
   Row("price_samples", 1, {Window(1)}, TRUE), Row("price_samples", 2, {Window(1)}, TRUE),
   Row("flip_evaluations", 1, {Window(1), Market(1)}, TRUE),
   Row("flip_events", 1, {Window(1), <<"flip_evaluations", 1>>}, TRUE),
   Row("twap_sessions", 1, {}, TRUE), Row("twap_sessions", 2, {}, TRUE),
   Row("twap_events", 1, {Window(1), <<"twap_sessions", 1>>}, TRUE),
   Row("twap_events", 2, {Window(2), <<"twap_sessions", 1>>}, FALSE),
   Row("twap_gaps", 1, {<<"twap_sessions", 2>>}, TRUE),
   Row("evidence_payloads", 1, {}, TRUE), Row("evidence_payloads", 2, {}, TRUE),
   Row("market_observations", 1, {Window(2), <<"evidence_payloads", 1>>}, FALSE),
   Row("market_observations", 2, {Window(1), <<"evidence_payloads", 2>>}, TRUE),
   Row("feed_sessions", 1, {}, TRUE),
   Row("chainlink_events", 1, {<<"feed_sessions", 1>>}, TRUE),
   Row("chainlink_events", 2, {<<"feed_sessions", 2>>}, FALSE), Row("feed_sessions", 2, {}, TRUE)}

\* The old payload is observed again; a backfill that began before the cutoff moved writes
\* the expired market's metadata; a new raw session brings its first event.
MCArrivals ==
  {{Row("market_windows", 2, {}, FALSE), Row("evidence_payloads", 2, {}, FALSE),
    Row("market_observations", 3, {Window(2), <<"evidence_payloads", 2>>}, FALSE)},
   {Row("market_windows", 1, {}, TRUE), Row("markets", 1, {Window(1)}, TRUE)},
   {Row("feed_sessions", 3, {}, FALSE), Row("chainlink_events", 3, {<<"feed_sessions", 3>>}, FALSE)}}

=============================================================================
