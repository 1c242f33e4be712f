---------------------------- MODULE MCLeaderRace ----------------------------
(* LeaderRace for TLC: three nodes, n1 the first leader, and one            *)
(* configuration for each of the rules of the race.                         *)
EXTENDS LeaderRace

CONSTANTS n1, n2, n3, s1, s2

Plain ==
  [first |-> n1, sync |-> FALSE, paused |-> FALSE, checkTimeline |-> FALSE, failsafe |-> FALSE,
   maxLag |-> 0, nofailover |-> {}, watchdogFailed |-> {},
   priority |-> [n \in Members |-> 1], site |-> [n \in Members |-> None]]

EveryRule ==
  {[Plain EXCEPT !.priority = [n \in Members |-> IF n = n3 THEN 2 ELSE 1]],
   [Plain EXCEPT !.site = [n \in Members |-> IF n = n3 THEN s2 ELSE s1], !.failsafe = TRUE],
   [Plain EXCEPT !.sync = TRUE],
   [Plain EXCEPT !.paused = TRUE],
   [Plain EXCEPT !.checkTimeline = TRUE, !.nofailover = {n3}],
   [Plain EXCEPT !.watchdogFailed = {n3}, !.maxLag = 1]}

TimelineChecked == {[Plain EXCEPT !.checkTimeline = TRUE]}
=============================================================================
