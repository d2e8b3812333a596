--------------------------- MODULE MCMetricsSpool ---------------------------
(* MetricsSpool for TLC: what histories may hold before the first start.     *)
EXTENDS MetricsSpool, TLC

EmptyHistories == {<<>>}
OldHistories == {<<>>, <<"row">>, <<"row", "nl">>}

=============================================================================
