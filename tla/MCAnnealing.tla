----------------------------- MODULE MCAnnealing -----------------------------
(***************************************************************************)
(* Values for the constants of Annealing: a triangle whose third side is   *)
(* slow, so that shortest paths go over the corner and paths take a link   *)
(* twice.                                                                  *)
(***************************************************************************)
EXTENDS Annealing

Corners == 0..2
Arcs == {<<u, w>> \in Corners \X Corners : u # w}
Wide == [e \in Arcs |-> IF e = <<1, 2>> THEN 4 ELSE 7]
Slow == [e \in Arcs |-> IF e \in {<<0, 2>>, <<2, 0>>} THEN 7 ELSE 3]

Third(u, w) == 3 - u - w
Over(u, w) == <<<<u, Third(u, w)>>, <<Third(u, w), w>>>>
Yen == [e \in Corners \X Corners |->
          IF e \notin Arcs THEN <<>>
          ELSE IF Slow[e] = 7 THEN <<Over(e[1], e[2]), <<e>>>>
                              ELSE <<<<e>>, Over(e[1], e[2])>>]

\* Between 0 and 2 the shortest path goes over 1.
Before == [e \in Arcs |-> IF Slow[e] = 7 THEN Third(e[1], e[2]) ELSE e[1]]

Asks(t, c, w, f) ==
  [source |-> t[1], target |-> t[2], chain |-> c, work |-> w, flows |-> f]
One(a, s) == <<[rate |-> a, start |-> s]>>
Two(a, s) == One(1, 0) \o One(a, s)

Firsts == {Asks(<<0, 2>>, c, 1, f) : c \in 1..2, f \in {One(2, 0), One(4, 0), Two(2, 0), Two(1, 1)}}
Seconds == {Asks(<<0, 1>>, 1, 0, One(3, 0)), Asks(<<0, 2>>, 1, 0, One(2, 0))}
Thirds == {Asks(<<1, 2>>, 1, 1, One(2, 0)), Asks(<<1, 2>>, 3, 0, One(3, 1))}

\* And one that is too large for the links, then another.
Lists == {<<a, b, c>> : a \in Firsts, b \in Seconds, c \in Thirds}
         \cup {<<Asks(<<0, 1>>, 1, 0, One(8, 0)),
                 Asks(<<0, 1>>, 1, 0, One(2, 1))>>}

=============================================================================
