----------------------------- MODULE MCRouting -----------------------------
(* Four switches, each linked to the others: the fewest with a circle that  *)
(* does not turn back.  Three of them lead to the fourth, past one another  *)
(* as the readings of three times say.                                      *)
EXTENDS Routing

MCSwitches == {"s1", "s2", "s3", "s4"}
MCHosts == {"h4"}
MCHostOrder == <<"h4">>
MCLinks == ({{s, t} : s, t \in MCSwitches} \ {{s} : s \in MCSwitches})
             \cup {{"h4", "s4"}}

\* A switch with a negative reading draws the routes of the others: in halves,
\* each of its links has a weight of 1.5, cut off to 1, the other links 5.
Draws(s) == [t \in MCSwitches |-> IF t = s THEN -2 ELSE 5]
MCFlexes == [i \in 0 .. 2 |-> Draws(<<"s1", "s2", "s3">>[i + 1])]
============================================================================
