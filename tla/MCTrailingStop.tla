--------------------------- MODULE MCTrailingStop ---------------------------
(* Instances of TrailingStop for TLC. *)
EXTENDS TrailingStop

\* An option bought at 10.13 (a quote and half the paper spread) with a risk
\* of 0.61, 0.625 or unknown: T is 0.91, 0.92 or 0.94, and rungs fall on half
\* and quarter paise.  The other, bought at 0.60, needs the floor of the stop.
MCFills == {20 * 1013, 20 * 60}
MCRisks == {0, 20 * 61, 1250}

\* Quotes below the stop, between stop and entry, and around the rungs at 50%,
\* 70%, 90%, 100%, 110% and 120% of T.
MCLtps == {20 * k : k \in {900, 1000, 1037, 1060, 1080, 1096, 1099, 1104, 1107, 1115, 1127}}
=============================================================================
