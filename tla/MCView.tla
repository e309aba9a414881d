--------------------------------- MODULE MCView ---------------------------------
(* Model checking of AsOfView. *)
EXTENDS AsOfView, TLC
CONSTANTS v1, v2
MCDecisions == <<2, 3, 5, 6, 8>>
MCAnchors == <<0, 4>>
MCMonth == (2 :> 1) @@ (3 :> 1) @@ (5 :> 2) @@ (6 :> 2) @@ (8 :> 3)
MCDomainSeq == <<"events", "intraday_1min", "auction">>
\* Dataset a lands at 2, 6 and 8, dataset b at 3 and at 6: nothing lands before the first
\* decision of the second slot, at 5.
Job(start, ready) == [start |-> start, ready |-> ready]
MCRefreshes == [a |-> {Job(1, 2), Job(3, 6), Job(6, 8)}, b |-> {Job(2, 3), Job(5, 6)}, x |-> {}]
MCGroups == {{4, 5}}
Row(domain, dataset, avail, seen) ==
    [domain |-> domain, dataset |-> dataset, avail |-> avail, seen |-> seen]
OnTime(domain, dataset, avail) == Row(domain, dataset, avail, avail)
\* Three event rows, the first of which the lake may have seen late; a group of minutes
\* of which a part may land later; an auction row.
Full ==
    {<<Row("events", "a", e.avail, e.seen), OnTime("events", "b", b), OnTime("events", "a", a),
       OnTime("intraday_1min", "a", m[1]), OnTime("intraday_1min", "a", m[2]),
       OnTime("auction", "x", x)>> :
       e \in {f \in [avail : {1, 3}, seen : {1, 3, 4, 5, 7}] : f.avail <= f.seen},
       b \in {2, 4, 5}, a \in {1, 3, 6}, m \in {<<1, 1>>, <<1, 3>>, <<3, 3>>}, x \in {2, 5}}
\* The whole lake, or its minutes alone.
MCLakes == Full \cup {Restrict(lake_, {4, 5}) : lake_ \in Full}
Replays == Permutations(Views)
=================================================================================
