------------------------------ MODULE GraphPaths ------------------------------
(***************************************************************************)
(* The paths of MyGraph (myGraph.cc) the two applications of SFCs ask for: *)
(* ksp hands the graph to yen_ksp, which is vendored and external here,    *)
(* and turns the lists of links it returns into lists of nodes.            *)
(***************************************************************************)
EXTENDS Sequences, SequencesExt

CONSTANT
  YenPaths        \* for two nodes what yen_ksp finds, shortest first: each
                  \* path the sequence of its links <<source, target>>

\* Every end of a link that is not in the path yet is added to it.
WithEnd(path, n) == IF Contains(path, n) THEN path ELSE Append(path, n)
NodesOf(links) ==
  LET path[i \in 0..Len(links)] ==
        IF i = 0 THEN <<>>
        ELSE WithEnd(WithEnd(path[i - 1], links[i][1]), links[i][2])
  IN  path[Len(links)]

Ksp ==
  [ends \in DOMAIN YenPaths |->
     IF ends[1] = ends[2] THEN <<<<ends[1]>>>>
     ELSE [i \in DOMAIN YenPaths[ends] |-> NodesOf(YenPaths[ends][i])]]

=============================================================================
