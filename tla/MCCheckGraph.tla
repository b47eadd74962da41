---------------------------- MODULE MCCheckGraph ----------------------------
(* Three checks; edges wait for WAITING or FINAL; requests of one or two     *)
(* writes, some of them malformed.                                           *)
EXTENDS CheckGraph
CONSTANTS ca, cb, cc

On(t, s) == [target |-> t, onState |-> s]
All(edges) == [threshold |-> 0, edges |-> edges, groups |-> {}]
Any(edges) == [threshold |-> 1, edges |-> edges, groups |-> {}]

W(check, s) == [check |-> check, state |-> s, wrote |-> FALSE, group |-> NoGroup]
D(check, s, g) == [check |-> check, state |-> s, wrote |-> TRUE, group |-> g]

MCGroups(x) ==
  CASE x = ca -> {NoGroup, All({On(cb, "FINAL")})}
    [] x = cb -> {NoGroup, All({On(ca, "FINAL"), On(cc, "FINAL")}),
                 Any({On(ca, "FINAL"), On(cc, "FINAL")})}
    [] x = cc -> {NoGroup, All({On(ca, "WAITING")}),
                 [threshold |-> 2, edges |-> {On(cc, "FINAL")},
                  groups |-> {[threshold |-> 1, edges |-> {On(ca, "FINAL"), On(cb, "FINAL")}],
                              [threshold |-> 0, edges |-> {On(ca, "FINAL")}]}]}

MCWrites ==
  {W(x, s) : x \in {ca, cb, cc}, s \in {"PLANNED", "FINAL"}}
    \cup UNION {{D(x, "PLANNED", g) : g \in MCGroups(x)} : x \in {ca, cb, cc}}

MCRequests ==
  {<<v, w>> : v \in MCWrites, w \in MCWrites}
    \cup {<<w>> : w \in MCWrites}
    \cup {<<W(x, "WAITING")>> : x \in {ca, cb, cc}}
    \cup UNION {{<<D(x, s, g)>> : s \in {"UNSET", "WAITING"}, g \in MCGroups(x)}
                  : x \in {ca, cb, cc}}
    \cup {<<D(ca, "UNSET", [NoGroup EXCEPT !.threshold = 1])>>}
=============================================================================
