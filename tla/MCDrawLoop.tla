----------------------------- MODULE MCDrawLoop -----------------------------
(***************************************************************************)
(* Values for the constants of DrawLoop.                                   *)
(***************************************************************************)
EXTENDS DrawLoop

\* The sizes of initFuncMap.
SizeOfCode == <<55, 158, 332, 92>>

\* Small values, values that leave two types less than one percent together,
\* and values that give two types equal weights.
SomeBases ==
  [FuncTypes -> {2, 5, 9}]
    \cup {b \in [FuncTypes -> {2, 4, 70}] : b[2] # 70 /\ b[3] # 70}
    \cup {<<2, 79, 2, 46>>, <<2, 79, 166, 2>>}

\* The constants of EdgeCloud that do not matter here.
OneNode == <<<<0>>>>
NoWorkloads == {}

=============================================================================
