------------------------------- MODULE MCFlows -------------------------------
(***************************************************************************)
(* Values for the constants of FlowDeployment: a triangle and a node apart *)
(* from it, whose link stands behind one to a node that is not there.      *)
(* Files of pairs of requests with one to three flows through one or two   *)
(* functions: the flows start and end together or not, are larger than a   *)
(* function or smaller than the threshold, and two requests want the same  *)
(* room.  And what the generators write with few values for a draw.        *)
(***************************************************************************)
EXTENDS FlowDeployment

Line(k, v) == [key |-> k, value |-> v]
NodeLines(n, d) == <<Line("id", n), Line("domain", d)>>
LinkLines(u, w, x) ==
  <<Line("source", u), Line("target", w), Line("interdomain", x)>>
Gml == NodeLines(0, 0) \o NodeLines(1, 0) \o NodeLines(2, 1) \o NodeLines(3, 1)
       \o LinkLines(0, 1, 0) \o LinkLines(1, 2, 1) \o LinkLines(2, 0, 1)
       \o LinkLines(0, 4, 1) \o LinkLines(2, 3, 0)

Triangle == 0..2
Over(u, w) == <<<<u, 3 - u - w>>, <<3 - u - w, w>>>>
Between == [e \in (0..3) \X (0..3) |->
              IF e[1] = e[2] \/ e \notin Triangle \X Triangle THEN <<>>
              ELSE <<<<e>>, Over(e[1], e[2])>>]

Configs ==
  {<<Line("intra_bw", 500), Line("inter_bw", 400), Line("processing_cap", 460)>>,
   <<Line("intra_bw", 500), Line("no =", 0), Line("inter_bw", 400),
     Line("processing_cap", 460)>>,
   <<Line("intra_bw", 500), Line("inter_bw", 400)>>}

Io == [id |-> 1, cap |-> 150, factor |-> 90, io |-> TRUE]
NonIo == [id |-> 2, cap |-> 200, factor |-> 85, io |-> FALSE]
Functions == <<Io, NonIo>>

Rates == {5, 111, 160}
Flows == {[rate |-> a, start |-> s, end |-> e] :
            a \in Rates, s \in 0..1, e \in 2..3}
From(r, s, e) == [rate |-> r, start |-> s, end |-> e]
Row(i, u, w, c, f) == [id |-> i, source |-> u, target |-> w, chain |-> c,
                       flows |-> f, start |-> 0, end |-> 3]

\* The second request: one flow, or one that starts where another has left,
\* under a third or with the id of an instance given up under the third, or one
\* without a rate when the first instance is gone.
Seconds ==
  {Row(2, 2, t, c, <<From(111, 0, 2)>>) : t \in {1, 3}, c \in {<<2>>, <<2, 1>>}}
  \cup {Row(2, 2, 1, <<1>>, <<From(111, 0, 3), From(111, 0, 2), From(30, 2, 3)>>)}
  \cup {Row(2, 2, 1, <<2>>, <<From(9, 0, 3), From(111, 0, 2), From(18, 2, 3)>>)}
  \cup {Row(2, 2, 1, <<2>>, <<From(111, 0, 2), From(111, 1, 3), From(0, 2, 3)>>)}

Pairs ==
  {<<Row(1, 0, 1, c, <<f, g>>), second>> :
     c \in {<<1>>, <<2>>, <<1, 2>>, <<2, 2>>}, f \in Flows, g \in Flows,
     second \in Seconds}

Leftovers == {<<>>, <<Row(1, 2, 1, <<2>>, <<From(160, 0, 3)>>)>>}

\* The first and the last third of rand() % n; of rand() % 4, which makes a
\* request last longer, only the first.
Thirds(n) == {n \div 3} \cup IF n = 4 THEN {} ELSE {n - 1}

\* The last is too short for two requests, or for a third slot.
Sizes == {<<15, 333, 0, 480>>, <<450, 2, 2, 300>>, <<1, 2, 1>>}
SlotNums == {<<1, 0, 1>>, <<0, 1>>}

=============================================================================
