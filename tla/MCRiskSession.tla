---------------------------- MODULE MCRiskSession ----------------------------
(* The risk session in three settings.                                     *)
EXTENDS RiskSession

(* Two positions whose exit orders fill in parts, fill events that are     *)
(* lost, late or of a foreign trade; of the rules only the soft stop.      *)
FillSetting ==
    [marks |-> {4}, closes |-> {-25, 0}, buffers |-> {3}, bars |-> {10},
     slacks |-> {4}, bases |-> {"none"}, rules |-> {"soft"},
     faults |-> {"ws", "lost", "foreign", "partial", "reduce"}, maxFaults |-> 2, entries |-> 2]

(* One position under all the exit rules, and orders that are refused,     *)
(* done in part or not cancelled.                                          *)
RuleSetting ==
    [marks |-> {4, 14, 34}, closes |-> {-30, 34}, buffers |-> {3}, bars |-> {NoStop, 30},
     slacks |-> {0}, bases |-> {"low", "slope"},
     rules |-> {"soft", "basis", "decay", "no_follow", "no_cont"},
     faults |-> {"partial", "cancel", "place"}, maxFaults |-> 1, entries |-> 1]

(* Two positions in a falling market, crashes and refused orders.          *)
RestartSetting ==
    [marks |-> {4}, closes |-> {-30}, buffers |-> {1, 3}, bars |-> {10}, slacks |-> {0},
     bases |-> {"none"}, rules |-> {"soft", "no_follow"},
     faults |-> {"die", "place", "reduce"}, maxFaults |-> 2, entries |-> 2]

AllSettings == {FillSetting, RuleSetting, RestartSetting}
=============================================================================
