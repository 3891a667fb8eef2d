---------------------------- MODULE MCExtraction ----------------------------
EXTENDS Extraction

\* Too little history, totals all alike, totals close to each other, and totals
\* that one extreme amount spreads.
MCHistories == {<<1>>, <<1, 1, 1>>, <<5, 6, 5, 6>>, <<1, 2, 1, 12>>}
=============================================================================
