---------------------------- MODULE MCSimulation ----------------------------
(***************************************************************************)
(* Values for the constants of EdgeSimulation.  With equal weights the     *)
(* draws of the three nodes, 0.00, 0.13 and 0.76, make a total of 60 the   *)
(* row 1,3,16, one of 24 the row 1,2,7, and one of 3 the row 1,1,1.        *)
(***************************************************************************)
EXTENDS EdgeSimulation

EqualWeights == [i \in 1..20 |-> 1]

\* With ReduFactor 2: nine requests in the first slot; an empty slot in the
\* middle; one at the start; a total the generator aborts on; short rows.
Files == {<<<<60, 24, 3>>, <<3, 3, 24>>>>, <<<<24, 3, 24>>, <<3, 3, 3>>>>,
          <<<<3, 24, 24>>, <<3, 24>>>>, <<<<24, 2, 24>>, <<3, 3, 3>>>>,
          <<<<24>>, <<3, 24, 3>>>>}

\* The file the repository has, one with an empty line too early, one whose
\* first line is left out, and three with lines behind the last that is read.
Whole == <<"TopoName", "RequestFile", "CommCostPara", "MemCap", "NodeNum", "Beta",
           "SlotNum", "ReduFactor", "Alpha", "cpuFreq", "", "">>
Configs ==
  {Whole, <<"TopoName", "">> \o Tail(Whole), Tail(Whole),
   <<"TopoName", "RequestFile", "Beta", "cpuFreq", "MemCap", "CommCostPara">>,
   <<"RequestFile", "TopoName", "cpuFreq", "Beta">>,
   <<"TopoName", "MemCap", "cpuFreq", "RequestFile", "CommCostPara">>}

\* Requests at both ends of the range of ids may be served, these on any
\* node, and two in between, one of them with the id that means invalid.
SomeHosts(req) ==
  CASE req.id \in {0, 9} -> Nodes
    [] req.id \in {5, 7} -> {req.ingress}
    [] OTHER -> {}

\* The comment of zipf.cc:135: seeded to 1, the 10000th number is this one.
Times(Op(_), n, x) ==
  LET w[k \in 0..n] == IF k = 0 THEN x
                       ELSE CHOOSE y \in {Op(z) : z \in {w[k - 1]}} : TRUE
  IN  w[n]
Hundred(x) == Times(LAMBDA y : Times(Rand, 10, y), 10, x)

ASSUME JainsCheck ==
  Times(LAMBDA x : Times(Hundred, 10, x), 10, 1) = 1043618065

=============================================================================
