------------------------ MODULE FlowDeployment_proofs ------------------------
(***************************************************************************)
(* Proofs about the requests of Sfc_vec and their deployment: what is      *)
(* written is what is read; the books of nodes and links balance; what an  *)
(* instance has in use is what its flows have; instances that are missed   *)
(* or left over are so for the known reasons; and requests that have       *)
(* failed stay as they are.                                                *)
(***************************************************************************)
EXTENDS FlowDeployment, NatSums, SequenceTheorems

-----------------------------------------------------------------------------
(***************************************************************************)
(* Smallest and biggest numbers, and rows.                                 *)
(***************************************************************************)
LEMMA MinIs ==
  ASSUME NEW S \in SUBSET Nat, S # {}
  PROVE  Min(S) \in S /\ \A n \in S : Min(S) <= n
BY Least DEF Min

LEMMA BiggestExists ==
  ASSUME NEW S \in SUBSET Nat, IsFiniteSet(S), S # {}
  PROVE  \E n \in S : \A m \in S : m <= n
<1> DEFINE G == {s \in SUBSET S : s # {} => \E n \in s : \A m \in s : m <= n}
<1>1. ASSUME NEW s \in SUBSET S, \A x \in s : s \ {x} \in G
      PROVE  s \in G
  <2>1. CASE s = {}
    BY <2>1
  <2>2. CASE s # {}
    <3>1. PICK x \in s : TRUE
      BY <2>2
    <3>2. x \in Nat /\ s \subseteq Nat
      OBVIOUS
    <3>3. CASE s \ {x} = {}
      <4>1. \A m \in s : m = x
        BY <3>3
      <4> QED
        BY <3>2, <4>1
    <3>4. CASE s \ {x} # {}
      <4>1. PICK n \in s \ {x} : \A m \in s \ {x} : m <= n
        BY <1>1, <3>4
      <4>2. \A m \in s : m = x \/ m <= n
        BY <4>1
      <4>3. CASE x <= n
        <5>1. \A m \in s : m <= n
          BY <4>2, <4>3
        <5> QED
          BY <5>1
      <4>4. CASE ~(x <= n)
        <5>1. \A m \in s : m <= x
          BY <3>2, <4>2, <4>4
        <5> QED
          BY <5>1
      <4> QED
        BY <4>3, <4>4
    <3> QED
      BY <3>3, <3>4
  <2> QED
    BY <2>1, <2>2
<1> HIDE DEF G
<1>2. G = SUBSET S
  <2>1. G \in SUBSET (SUBSET S)
    BY DEF G
  <2> QED
    BY <1>1, <2>1, FiniteInduction
<1> QED
  BY <1>2 DEF G

LEMMA MaxIs ==
  ASSUME NEW S \in SUBSET Nat, IsFiniteSet(S), S # {}
  PROVE  Max(S) \in S /\ \A n \in S : n <= Max(S)
<1>1. PICK n \in S : \A m \in S : m <= n
  BY BiggestExists
<1>2. \A m \in S : n >= m
  BY <1>1
<1>3. Max(S) \in S /\ \A m \in S : Max(S) >= m
  BY <1>2 DEF Max
<1> QED
  BY <1>3

-----------------------------------------------------------------------------
(***************************************************************************)
(* The requests.  Their rows are typed, in whichever way they are written. *)
(***************************************************************************)
RequestType == Rows(Seq(Function))
Phases == {"start", "random", "csv", "poisson", "written", "loaded",
           "aborted", "endless", "undefined"}

\* The requests that are drawn, and those of them that are kept.
Drawn ==
  {r \in [id : Nat, source : Nodes, target : Nodes,
          chain : Seq({Vnfs[k] : k \in DOMAIN Vnfs}),
          flows : Seq(FlowType), start : Nat, end : Nat] :
     \A i \in DOMAIN r.flows : /\ r.start <= r.flows[i].start
                               /\ r.flows[i].end <= r.end}
KeptType == {r \in Drawn : r.source # r.target}

SetupTypeOK ==
  /\ file \in Seq(RowType) /\ kept \in Seq(KeptType)
  /\ traffic \in Seq(Nat) /\ csvFlows \in Seq(FlowType) /\ slotNums \in Seq(Nat)
  /\ turn \in Nat \ {0} /\ phase \in Phases
  /\ requests \in Seq(RequestType)
  /\ phase = "loaded" => cfg \in [CfgKeys -> Nat]
  /\ phase = "poisson" => traffic \in TrafficFiles

\* Requests are kept in the two ways that print them, one for each row.
Kept ==
  /\ phase \in {"start", "poisson"} => kept = <<>>
  /\ phase \in {"random", "csv"} \/ kept # <<>> =>
       /\ Len(file) = Len(kept)
       /\ \A n \in 1..Len(kept) : file[n] = Printed(kept[n])

\* Flows come from flow_size.csv when there is one for each of its lines.
FromCsv ==
  /\ phase \in {"start", "random", "poisson"} => csvFlows = <<>>
  /\ phase = "csv" => csvFlows # <<>>
  /\ csvFlows # <<>> =>
       /\ Len(csvFlows) = Len(traffic)
       /\ \A i \in 1..Len(csvFlows) : csvFlows[i].rate < InstanceThreshold
       /\ \A n \in 1..Len(file) : \A i \in 1..Len(file[n].flows) :
            file[n].flows[i].rate < InstanceThreshold

\* What main_csv and the slots have when they throw.
Thrown ==
  phase = "aborted" =>
    \/ csvFlows # <<>> /\ Len(traffic) < FlowNum * SfcNum
    \/ csvFlows = <<>> /\ Len(slotNums) < EndTime

\* The requests are those of the file.
AsRead == phase = "loaded" => requests = ReadSfc(file) /\ ~Endless

SetupInv == SetupTypeOK /\ Kept /\ FromCsv /\ Thrown /\ AsRead

LEMMA InitSetup == SetupInit => SetupInv
<1> SUFFICES ASSUME SetupInit
             PROVE  SetupInv
  OBVIOUS
<1>1. SetupTypeOK
  BY FileAssumption, EmptySeq DEF SetupInit, SetupTypeOK, Phases
<1>2. Kept /\ FromCsv /\ Thrown /\ AsRead
  BY DEF SetupInit, Kept, FromCsv, Thrown, AsRead
<1> QED
  BY <1>1, <1>2 DEF SetupInv

\* A row of a request that leads somewhere.
LEMMA SentRow ==
  ASSUME NEW r \in [id : Nat, source : Nodes, target : Nodes,
                    chain : Seq({Vnfs[k] : k \in DOMAIN Vnfs}),
                    flows : Seq(FlowType), start : Nat, end : Nat],
         \A i \in DOMAIN r.flows : /\ r.start <= r.flows[i].start
                                   /\ r.flows[i].end <= r.end,
         r.source # r.target
  PROVE  /\ r \in RequestType /\ Printed(r) \in RowType
         /\ Printed(r).flows = r.flows /\ ReadRow(Printed(r)) = r
<1> USE SetupAssumption
<1>1. DOMAIN Vnfs = 1..Len(Vnfs) /\ {Vnfs[k] : k \in DOMAIN Vnfs} \subseteq Function
  OBVIOUS
<1>2. r.chain \in Seq(Function)
  BY <1>1, SeqMonotonic
<1>3. r \in RequestType
  BY <1>2 DEF RequestType, Rows
<1>4. /\ DOMAIN r.chain = 1..Len(r.chain) /\ Len(r.chain) \in Nat
      /\ r.chain \in [1..Len(r.chain) -> Function]
  BY <1>2, LenProperties
<1>5. ASSUME NEW k \in 1..Len(r.chain)
      PROVE  /\ r.chain[k].id \in DOMAIN Vnfs /\ Vnfs[r.chain[k].id] = r.chain[k]
  <2>1. PICK j \in DOMAIN Vnfs : r.chain[k] = Vnfs[j]
    OBVIOUS
  <2> QED
    BY <2>1
<1> DEFINE ids == [k \in 1..Len(r.chain) |-> r.chain[k].id]
<1>6. Printed(r) = [r EXCEPT !.chain = ids]
  BY <1>4 DEF Printed
<1>7. ids \in Seq(DOMAIN Vnfs)
  BY <1>4, <1>5
<1>8. Printed(r) \in RowType
  BY <1>6, <1>7 DEF RowType, Rows
<1>9. StringToChain(ids) = r.chain
  <2>1. StringToChain(ids) = [k \in 1..Len(r.chain) |-> r.chain[k]]
    BY <1>5 DEF StringToChain
  <2>2. r.chain = [k \in 1..Len(r.chain) |-> r.chain[k]]
    BY <1>4
  <2> QED
    BY <2>1, <2>2
<1> HIDE DEF ids
<1>10. ReadRow(Printed(r)) = r
  BY <1>6, <1>9 DEF ReadRow
<1> QED
  BY <1>3, <1>6, <1>8, <1>10

LEMMA Draws ==
  ASSUME NEW n, IsDraw(n), NEW d \in Rand(n)
  PROVE  d \in 0..(n - 1)
BY DEF IsDraw

LEMMA ChainCreated ==
  ASSUME NEW c \in CreateChain
  PROVE  c \in Seq({Vnfs[k] : k \in DOMAIN Vnfs})
<1> USE SetupAssumption
<1>1. DOMAIN Vnfs = 1..Len(Vnfs) /\ Len(Vnfs) \in Nat
  BY LenProperties
<1>2. \A n \in Rand(Len(Vnfs)) : n \in 0..(Len(Vnfs) - 1)
  BY Draws
<1>3. {Vnfs[n + 1] : n \in Rand(Len(Vnfs))} \subseteq {Vnfs[k] : k \in DOMAIN Vnfs}
  BY <1>1, <1>2
<1>4. ChainLen \in Nat /\ c \in [1..ChainLen -> {Vnfs[k] : k \in DOMAIN Vnfs}]
  BY <1>3 DEF CreateChain
<1> QED
  BY <1>4, SeqDef

\* A round of a generator adds a row or none.
LEMMA RowAdded ==
  ASSUME SetupInv, NEW r \in Drawn,
         IF r.source = r.target THEN file' = file ELSE file' = Append(file, Printed(r)),
         csvFlows # <<>> => \A i \in 1..Len(r.flows) : r.flows[i].rate < InstanceThreshold
  PROVE  /\ file' \in Seq(RowType)
         /\ csvFlows # <<>> =>
              \A n \in 1..Len(file') : \A i \in 1..Len(file'[n].flows) :
                file'[n].flows[i].rate < InstanceThreshold
<1>1. file \in Seq(RowType)
  BY DEF SetupInv, SetupTypeOK
<1>2. CASE r.source = r.target
  BY <1>1, <1>2 DEF SetupInv, FromCsv
<1>3. CASE r.source # r.target
  <2>1. Printed(r) \in RowType /\ Printed(r).flows = r.flows
    BY <1>3, SentRow DEF Drawn
  <2>2. /\ file' \in Seq(RowType) /\ Len(file') = Len(file) + 1
        /\ \A n \in 1..Len(file) : file'[n] = file[n]
        /\ file'[Len(file) + 1] = Printed(r)
    BY <1>1, <1>3, <2>1, AppendProperties
  <2>3. \A n \in 1..Len(file') : n \in 1..Len(file) \/ n = Len(file) + 1
    BY <1>1, <2>2
  <2> QED
    BY <2>1, <2>2, <2>3 DEF SetupInv, FromCsv
<1> QED
  BY <1>2, <1>3

LEMMA RowKept ==
  ASSUME SetupInv, phase \in {"random", "csv"}, NEW r \in Drawn,
         IF r.source = r.target THEN file' = file /\ kept' = kept
         ELSE file' = Append(file, Printed(r)) /\ kept' = Append(kept, r)
  PROVE  /\ kept' \in Seq(KeptType) /\ Len(file') = Len(kept')
         /\ \A n \in 1..Len(kept') : file'[n] = Printed(kept'[n])
<1>1. /\ file \in Seq(RowType) /\ kept \in Seq(KeptType) /\ Len(file) = Len(kept)
      /\ \A n \in 1..Len(kept) : file[n] = Printed(kept[n])
  BY DEF SetupInv, SetupTypeOK, Kept
<1>2. CASE r.source = r.target
  BY <1>1, <1>2
<1>3. CASE r.source # r.target
  <2>1. Printed(r) \in RowType /\ r \in KeptType
    BY <1>3, SentRow DEF Drawn, KeptType
  <2>2. /\ file' \in Seq(RowType) /\ Len(file') = Len(file) + 1
        /\ \A n \in 1..Len(file) : file'[n] = file[n]
        /\ file'[Len(file) + 1] = Printed(r)
    BY <1>1, <1>3, <2>1, AppendProperties
  <2>3. /\ kept' \in Seq(KeptType) /\ Len(kept') = Len(kept) + 1
        /\ \A n \in 1..Len(kept) : kept'[n] = kept[n]
        /\ kept'[Len(kept) + 1] = r
    BY <1>1, <1>3, <2>1, AppendProperties
  <2>4. \A n \in 1..Len(kept') : n \in 1..Len(kept) \/ n = Len(kept) + 1
    BY <1>1, <2>3
  <2> QED
    BY <1>1, <2>2, <2>3, <2>4
<1> QED
  BY <1>2, <1>3

LEMMA RandomStep ==
  ASSUME SetupInv, RandomRequest
  PROVE  SetupInv'
<1> USE SetupAssumption, FileAssumption
<1>1. /\ phase = "random" /\ turn' = turn + 1 /\ phase' = "random"
      /\ UNCHANGED <<csvVars, loadVars>>
  BY DEF RandomRequest
<1>2. PICK source \in Rand(MaxNode), target \in Rand(MaxNode), chain \in CreateChain,
           start \in Rand(MaxTime), late \in Rand(4) :
        \E flows \in CreateFlows(start, MaxTime + late) :
          LET r == [id |-> turn, source |-> source, target |-> target,
                    chain |-> chain, flows |-> flows,
                    start |-> start, end |-> MaxTime + late]
          IN  file' = file \o Sent(Printed(r)) /\ kept' = kept \o Sent(r)
  BY DEF RandomRequest
<1>3. start \in 0..(MaxTime - 1) /\ late \in 0..3 /\ MaxTime \in Nat \ {0}
  <2>1. IsDraw(MaxTime) /\ IsDraw(4) /\ MaxTime \in Nat \ {0}
    OBVIOUS
  <2> QED
    BY <2>1, Draws
<1>4. PICK flows \in CreateFlows(start, MaxTime + late) :
        LET r == [id |-> turn, source |-> source, target |-> target,
                  chain |-> chain, flows |-> flows,
                  start |-> start, end |-> MaxTime + late]
        IN  file' = file \o Sent(Printed(r)) /\ kept' = kept \o Sent(r)
  BY <1>2
<1> DEFINE r == [id |-> turn, source |-> source, target |-> target,
                 chain |-> chain, flows |-> flows,
                 start |-> start, end |-> MaxTime + late]
<1>5. /\ flows \in Seq(FlowType)
      /\ \A i \in DOMAIN flows : start <= flows[i].start /\ flows[i].end <= MaxTime + late
  <2> DEFINE F == {[rate |-> MinRate + a, start |-> start + b, end |-> MaxTime + late] :
                     a \in Rand(MaxRate), b \in Rand((MaxTime + late) - start)}
  <2>1. (MaxTime + late) - start \in 1..MaxTime + 3
    BY <1>3
  <2>2. /\ \A b \in Rand((MaxTime + late) - start) : b \in 0..(((MaxTime + late) - start) - 1)
        /\ \A a \in Rand(MaxRate) : a \in 0..(MaxRate - 1)
    BY <2>1, Draws
  <2>3. \A f \in F : f \in FlowType /\ start <= f.start /\ f.end <= MaxTime + late
    <3>1. ASSUME NEW a \in 0..(MaxRate - 1),
                 NEW b \in 0..(((MaxTime + late) - start) - 1)
          PROVE  /\ MinRate + a \in Nat /\ start + b \in Nat /\ MaxTime + late \in Nat
                 /\ start <= start + b /\ start + b < MaxTime + late
      BY <1>3
    <3> QED
      BY <2>2, <3>1 DEF FlowType
  <2>4. flows \in [1..FlowNum -> F] /\ FlowNum \in Nat
    BY DEF CreateFlows
  <2> HIDE DEF F
  <2>5. flows \in [1..FlowNum -> FlowType]
    BY <2>3, <2>4
  <2> QED
    BY <2>3, <2>4, <2>5, SeqDef
<1>6. r \in Drawn
  <2>1. turn \in Nat
    BY DEF SetupInv, SetupTypeOK
  <2>2. source \in Nodes /\ target \in Nodes
    OBVIOUS
  <2>3. chain \in Seq({Vnfs[k] : k \in DOMAIN Vnfs})
    BY ChainCreated
  <2>4. start \in Nat /\ MaxTime + late \in Nat
    BY <1>3
  <2> QED
    BY <1>5, <2>1, <2>2, <2>3, <2>4 DEF Drawn
<1>7. IF r.source = r.target THEN file' = file /\ kept' = kept
      ELSE file' = Append(file, Printed(r)) /\ kept' = Append(kept, r)
  <2>1. file' = file \o Sent(Printed(r)) /\ kept' = kept \o Sent(r)
    BY <1>4
  <2>2. file \in Seq(RowType) /\ kept \in Seq(KeptType)
    BY DEF SetupInv, SetupTypeOK
  <2>3. Printed(r).source = r.source /\ Printed(r).target = r.target
    BY DEF Printed
  <2> HIDE DEF r
  <2>4. CASE r.source = r.target
    BY <2>1, <2>2, <2>3, <2>4, ConcatEmptySeq DEF Sent
  <2>5. CASE r.source # r.target
    <3>1. Printed(r) \in RowType /\ r \in KeptType
      BY <1>6, <2>5, SentRow DEF Drawn, KeptType
    <3>2. file' = file \o <<Printed(r)>> /\ kept' = kept \o <<r>>
      BY <2>1, <2>3, <2>5 DEF Sent
    <3> QED
      BY <2>2, <2>5, <3>1, <3>2, AppendIsConcat
  <2> QED
    BY <2>4, <2>5
<1> HIDE DEF r
<1>8. csvFlows = <<>>
  BY <1>1 DEF SetupInv, FromCsv
<1>9. file' \in Seq(RowType)
  BY <1>6, <1>7, <1>8, RowAdded
<1>10. /\ kept' \in Seq(KeptType) /\ Len(file') = Len(kept')
       /\ \A n \in 1..Len(kept') : file'[n] = Printed(kept'[n])
  BY <1>1, <1>6, <1>7, RowKept
<1>11. SetupTypeOK'
  BY <1>1, <1>9, <1>10 DEF SetupInv, SetupTypeOK, csvVars, loadVars
<1>12. Kept' /\ FromCsv' /\ Thrown' /\ AsRead'
  BY <1>1, <1>8, <1>10 DEF Kept, FromCsv, Thrown, AsRead, csvVars
<1> QED
  BY <1>11, <1>12 DEF SetupInv

LEMMA CsvRateBelow ==
  ASSUME NEW size \in Nat
  PROVE  CsvRate(size) \in Nat /\ CsvRate(size) < InstanceThreshold
<1>1. InstanceThreshold \in Nat \ {0}
  BY SetupAssumption
<1>2. size < 3 * InstanceThreshold => size \div 3 \in Nat /\ size \div 3 < InstanceThreshold
  BY <1>1
<1> QED
  BY <1>1, <1>2 DEF CsvRate

\* The first steps of the ways to come to a file, and the last.
LEMMA StartSteps ==
  ASSUME SetupInv, TakeOther \/ CreateSfc \/ CreatePoisson
  PROVE  SetupInv'
<1>1. CASE TakeOther \/ CreateSfc
  <2>1. /\ phase = "start" /\ phase' \in {"written", "random"} /\ file' \in Seq(RowType)
        /\ UNCHANGED <<kept, csvVars, turn, loadVars>>
        /\ phase' = "random" => file' = <<>>
    BY <1>1, FileAssumption, EmptySeq DEF TakeOther, CreateSfc
  <2>2. SetupTypeOK'
    BY <2>1 DEF SetupInv, SetupTypeOK, csvVars, loadVars, Phases
  <2>3. Kept' /\ FromCsv' /\ Thrown' /\ AsRead'
    BY <2>1 DEF SetupInv, Kept, FromCsv, Thrown, AsRead, csvVars
  <2> QED
    BY <2>2, <2>3 DEF SetupInv
<1>2. CASE CreatePoisson
  <2>1. /\ phase = "start" /\ phase' = "poisson"
        /\ traffic' \in Seq(Nat) /\ traffic' \in TrafficFiles
        /\ slotNums' \in Seq(Nat)
        /\ UNCHANGED <<file, kept, csvFlows, turn, loadVars>>
    BY <1>2, SetupAssumption DEF CreatePoisson
  <2>2. SetupTypeOK'
    BY <2>1 DEF SetupInv, SetupTypeOK, loadVars, Phases
  <2>3. Kept' /\ FromCsv' /\ Thrown' /\ AsRead'
    BY <2>1 DEF SetupInv, Kept, FromCsv, Thrown, AsRead
  <2> QED
    BY <2>2, <2>3 DEF SetupInv
<1> QED
  BY <1>1, <1>2

LEMMA CsvStarts ==
  ASSUME SetupInv, CreateFromCsv
  PROVE  SetupInv'
<1> USE SetupAssumption
<1>1. /\ phase = "start" /\ phase' = "csv" /\ traffic' \in TrafficFiles
      /\ file' = <<>> /\ UNCHANGED <<kept, slotNums, turn, loadVars>>
  BY DEF CreateFromCsv
<1>2. PICK start \in [DOMAIN traffic' -> {1 + n : n \in Rand(EndTime - 1)}] :
        csvFlows' = [i \in DOMAIN traffic' |->
                       [rate |-> CsvRate(traffic'[i]), start |-> start[i],
                        end |-> start[i] + FlowLife]]
  BY DEF CreateFromCsv
<1>3. /\ traffic' \in Seq(Nat) /\ traffic' # <<>> /\ Len(traffic') \in Nat
      /\ DOMAIN traffic' = 1..Len(traffic')
      /\ \A i \in 1..Len(traffic') : traffic'[i] \in Nat
  BY <1>1, LenProperties, ElementOfSeq
<1> DEFINE flow(i) == [rate |-> CsvRate(traffic'[i]), start |-> start[i],
                       end |-> start[i] + FlowLife]
<1>4. ASSUME NEW i \in 1..Len(traffic')
      PROVE  flow(i) \in FlowType /\ flow(i).rate < InstanceThreshold
  <2>1. IsDraw(EndTime - 1)
    OBVIOUS
  <2>2. \A n \in Rand(EndTime - 1) : n \in Nat
    BY <2>1, Draws
  <2>3. start[i] \in {1 + n : n \in Rand(EndTime - 1)}
    BY <1>3
  <2>4. start[i] \in Nat /\ FlowLife \in Nat \ {0}
    BY <2>2, <2>3
  <2> QED
    BY <1>3, <2>4, CsvRateBelow DEF FlowType
<1>5. csvFlows' = [i \in 1..Len(traffic') |-> flow(i)]
  BY <1>2, <1>3
<1> HIDE DEF flow
<1>6. /\ csvFlows' \in Seq(FlowType) /\ Len(csvFlows') = Len(traffic')
      /\ csvFlows' # <<>>
      /\ \A i \in 1..Len(csvFlows') : csvFlows'[i].rate < InstanceThreshold
  <2>1. csvFlows' \in Seq(FlowType)
    BY <1>3, <1>4, <1>5
  <2>2. Len(csvFlows') = Len(traffic')
    BY <1>3, <1>5, <2>1
  <2>3. Len(traffic') # 0
    BY <1>3, EmptySeq
  <2> QED
    BY <1>4, <1>5, <2>1, <2>2, <2>3
<1>7. SetupTypeOK'
  BY <1>1, <1>3, <1>6, EmptySeq DEF SetupInv, SetupTypeOK, loadVars, Phases
<1>8. Kept' /\ FromCsv' /\ Thrown' /\ AsRead'
  BY <1>1, <1>6 DEF SetupInv, Kept, FromCsv, Thrown, AsRead
<1> QED
  BY <1>7, <1>8 DEF SetupInv

LEMMA CsvStep ==
  ASSUME SetupInv, CsvRequest
  PROVE  SetupInv'
<1> USE SetupAssumption
<1>1. /\ phase = "csv" /\ phase' = "csv" /\ turn' = turn + 1 /\ turn \in Nat \ {0}
      /\ UNCHANGED <<csvVars, loadVars>>
  BY DEF CsvRequest, MoreCsv, SetupInv, SetupTypeOK
<1> DEFINE flows == GetFlows(turn - 1)
           row(source, target, chain) ==
             [id |-> turn, source |-> source, target |-> target,
              chain |-> chain, flows |-> flows,
              start |-> FirstSlot(flows), end |-> LastEnd(flows)]
<1>2. PICK source \in Rand(MaxNode), target \in Rand(MaxNode), chain \in CreateChain :
        /\ source = target \/ FlowNum * turn <= Len(csvFlows)
        /\ IF source = target THEN UNCHANGED <<file, kept>>
           ELSE /\ file' = Append(file, Printed(row(source, target, chain)))
                /\ kept' = Append(kept, row(source, target, chain))
  BY DEF CsvRequest
<1>3. CASE source = target
  <2>1. UNCHANGED <<file, kept>>
    BY <1>2, <1>3
  <2>2. SetupTypeOK'
    BY <1>1, <2>1 DEF SetupInv, SetupTypeOK, csvVars, loadVars
  <2>3. Kept' /\ FromCsv' /\ Thrown' /\ AsRead'
    BY <1>1, <2>1 DEF SetupInv, Kept, FromCsv, Thrown, AsRead, csvVars
  <2> QED
    BY <2>2, <2>3 DEF SetupInv
<1>4. CASE source # target
  <2> DEFINE r == row(source, target, chain)
  <2>1. /\ csvFlows \in Seq(FlowType) /\ FlowNum \in Nat \ {0} /\ Len(csvFlows) \in Nat
        /\ \A i \in 1..Len(csvFlows) : csvFlows[i] \in FlowType
        /\ \A i \in 1..Len(csvFlows) : csvFlows[i].rate < InstanceThreshold
    BY <1>1, LenProperties, ElementOfSeq DEF SetupInv, SetupTypeOK, FromCsv
  <2> DEFINE m == FlowNum * (turn - 1)
  <2>2. m \in Nat /\ FlowNum * ((turn - 1) + 1) = m + FlowNum /\ m + FlowNum <= Len(csvFlows)
    BY <1>1, <1>2, <1>4, <2>1
  <2>3. flows = SubSeq(csvFlows, m + 1, m + FlowNum)
    BY <2>2 DEF GetFlows
  <2> HIDE DEF m
  <2>4. /\ flows \in Seq(FlowType) /\ Len(flows) = FlowNum
        /\ \A i \in 1..FlowNum : flows[i] = csvFlows[m + i]
    <3>1. \A i \in (m + 1)..(m + FlowNum) : csvFlows[i] \in FlowType
      BY <2>1, <2>2
    <3>2. /\ SubSeq(csvFlows, m + 1, m + FlowNum) \in Seq(FlowType)
          /\ Len(SubSeq(csvFlows, m + 1, m + FlowNum))
               = IF m + 1 <= m + FlowNum THEN (m + FlowNum) - (m + 1) + 1 ELSE 0
          /\ \A i \in 1..((m + FlowNum) - (m + 1) + 1) :
               SubSeq(csvFlows, m + 1, m + FlowNum)[i] = csvFlows[(m + 1) + i - 1]
      <4>1. m + 1 \in Int /\ m + FlowNum \in Int
        BY <2>1, <2>2
      <4> QED
        BY <3>1, <4>1, SubSeqProperties
    <3>3. (m + FlowNum) - (m + 1) + 1 = FlowNum /\ m + 1 <= m + FlowNum
      BY <2>1, <2>2
    <3>4. \A i \in 1..FlowNum : (m + 1) + i - 1 = m + i
      BY <2>1, <2>2
    <3> QED
      BY <2>3, <3>2, <3>3, <3>4
  <2>5. \A i \in 1..FlowNum : flows[i] \in FlowType /\ flows[i].rate < InstanceThreshold
    <3>1. \A i \in 1..FlowNum : m + i \in 1..Len(csvFlows)
      BY <2>1, <2>2
    <3> HIDE DEF flows
    <3> QED
      BY <2>1, <2>4, <3>1
  <2>6. DOMAIN flows = 1..FlowNum
    BY <2>4, LenProperties
  <2> HIDE DEF flows
  <2>7. /\ FirstSlot(flows) \in Nat
        /\ \A i \in 1..FlowNum : FirstSlot(flows) <= flows[i].start
    <3> DEFINE S == {flows[i].start : i \in 1..FlowNum}
    <3>1. S \in SUBSET Nat /\ S # {}
      <4>1. 1 \in 1..FlowNum
        BY <2>1
      <4> QED
        BY <2>5, <4>1 DEF FlowType
    <3>2. FirstSlot(flows) = Min(S)
      BY <2>6 DEF FirstSlot
    <3>3. \A i \in 1..FlowNum : flows[i].start \in S
      OBVIOUS
    <3> HIDE DEF S
    <3>4. Min(S) \in S /\ \A n \in S : Min(S) <= n
      BY <3>1, MinIs
    <3> QED
      BY <3>1, <3>2, <3>3, <3>4
  <2>8. /\ LastEnd(flows) \in Nat
        /\ \A i \in 1..FlowNum : flows[i].end <= LastEnd(flows)
    <3> DEFINE S == {flows[i].end : i \in 1..FlowNum}
    <3>1. S \in SUBSET Nat /\ S # {}
      <4>1. 1 \in 1..FlowNum
        BY <2>1
      <4> QED
        BY <2>5, <4>1 DEF FlowType
    <3>2. LastEnd(flows) = Max(S)
      BY <2>6 DEF LastEnd
    <3>3. \A i \in 1..FlowNum : flows[i].end \in S
      OBVIOUS
    <3>4. IsFiniteSet(S)
      <4> DEFINE end == [i \in 1..FlowNum |-> flows[i].end]
      <4>1. IsFiniteSet(1..FlowNum)
        BY <2>1, FS_Interval
      <4>2. S = {end[i] : i \in 1..FlowNum}
        OBVIOUS
      <4> HIDE DEF end, S
      <4> QED
        BY <4>1, <4>2, ImageFinite
    <3> HIDE DEF S
    <3> QED
      BY <3>1, <3>2, <3>3, <3>4, MaxIs
  <2>9. r \in Drawn
    <3>1. source \in Nodes /\ target \in Nodes
      BY FileAssumption
    <3> QED
      BY <1>1, <2>4, <2>6, <2>7, <2>8, <3>1, ChainCreated DEF Drawn
  <2>10. file' = Append(file, Printed(r)) /\ kept' = Append(kept, r)
    BY <1>2, <1>4
  <2>11. r.source # r.target /\ r.flows = flows
    BY <1>4
  <2> HIDE DEF r
  <2>12. /\ kept' \in Seq(KeptType) /\ Len(file') = Len(kept')
         /\ \A n \in 1..Len(kept') : file'[n] = Printed(kept'[n])
    BY <1>1, <2>9, <2>10, <2>11, RowKept
  <2>13. /\ file' \in Seq(RowType)
         /\ csvFlows # <<>> =>
              \A n \in 1..Len(file') : \A i \in 1..Len(file'[n].flows) :
                file'[n].flows[i].rate < InstanceThreshold
    BY <2>4, <2>5, <2>9, <2>10, <2>11, RowAdded
  <2>14. SetupTypeOK'
    BY <1>1, <2>12, <2>13 DEF SetupInv, SetupTypeOK, csvVars, loadVars
  <2>15. Kept' /\ FromCsv' /\ Thrown' /\ AsRead'
    BY <1>1, <2>12, <2>13 DEF SetupInv, Kept, FromCsv, Thrown, AsRead, csvVars
  <2> QED
    BY <2>14, <2>15 DEF SetupInv
<1> QED
  BY <1>3, <1>4

LEMMA SlotStep ==
  ASSUME SetupInv, SlotRequest
  PROVE  SetupInv'
<1> USE SetupAssumption
<1>1. /\ phase = "poisson" /\ phase' = "poisson" /\ turn' = turn + 1
      /\ turn \in Nat \ {0} /\ turn <= UpTo(Slots)
      /\ UNCHANGED <<kept, csvVars, loadVars>>
  BY DEF SlotRequest, SetupInv, SetupTypeOK
<1> DEFINE slot == Min({s \in 1..Slots : turn <= UpTo(s)})
           rates == {CsvRate(traffic[n + 1]) : n \in Rand(Len(traffic))}
           row(source, target, chain, rate) ==
             [id |-> turn, source |-> source, target |-> target,
              chain |-> chain, start |-> slot, end |-> slot + FlowLife,
              flows |-> [i \in 1..FlowNum |->
                           [rate |-> rate[i], start |-> slot, end |-> slot + FlowLife]]]
<1>2. PICK source \in Rand(MaxNode), target \in Rand(MaxNode), chain \in CreateChain,
           rate \in [1..FlowNum -> rates] :
        file' = file \o Sent(Printed(row(source, target, chain, rate)))
  BY DEF SlotRequest
<1>3. slot \in Nat
  <2>1. Slots \in Nat
    <3>1. Len(slotNums) \in Nat /\ EndTime \in Nat
      BY LenProperties DEF SetupInv, SetupTypeOK
    <3>2. {EndTime, Len(slotNums)} \in SUBSET Nat
      BY <3>1
    <3> QED
      BY <3>2, MinIs DEF Slots
  <2>2. Slots # 0
    <3>1. UpTo(0) = 0
      <4>1. 1..0 = {}
        OBVIOUS
      <4> QED
        BY <4>1, SumEmpty DEF UpTo
    <3> QED
      BY <1>1, <3>1
  <2> DEFINE S == {s \in 1..Slots : turn <= UpTo(s)}
  <2>3. S \in SUBSET Nat /\ S # {}
    BY <1>1, <2>1, <2>2
  <2> HIDE DEF S
  <2>4. Min(S) \in S
    BY <2>3, MinIs
  <2> QED
    BY <2>3, <2>4 DEF S
<1> HIDE DEF slot
<1>4. rates \subseteq Nat
  <2>1. traffic \in TrafficFiles /\ traffic \in Seq(Nat)
    BY <1>1 DEF SetupInv, SetupTypeOK
  <2>2. IsDraw(Len(traffic)) /\ Len(traffic) \in Nat
    BY <2>1
  <2>3. \A n \in Rand(Len(traffic)) : n + 1 \in 1..Len(traffic)
    BY <2>2, Draws
  <2>4. \A n \in Rand(Len(traffic)) : traffic[n + 1] \in Nat
    BY <2>1, <2>3
  <2> QED
    BY <2>4, CsvRateBelow
<1> HIDE DEF rates
<1> DEFINE r == row(source, target, chain, rate)
           flow(i) == [rate |-> rate[i], start |-> slot, end |-> slot + FlowLife]
<1>5. r \in Drawn
  <2>1. \A i \in 1..FlowNum : flow(i) \in FlowType
    <3>1. \A i \in 1..FlowNum : rate[i] \in Nat
      BY <1>4
    <3> QED
      BY <1>3, <3>1 DEF FlowType
  <2>2. r.flows = [i \in 1..FlowNum |-> flow(i)] /\ FlowNum \in Nat
    OBVIOUS
  <2>3. r.flows \in Seq(FlowType) /\ DOMAIN r.flows = 1..FlowNum
    <3> HIDE DEF flow, r
    <3> QED
      BY <2>1, <2>2, IsASeq
  <2>4. source \in Nodes /\ target \in Nodes
    BY FileAssumption
  <2>5. chain \in Seq({Vnfs[k] : k \in DOMAIN Vnfs})
    BY ChainCreated
  <2>6. \A i \in 1..FlowNum : r.flows[i].start = slot /\ r.flows[i].end = slot + FlowLife
    OBVIOUS
  <2>7. slot + FlowLife \in Nat
    BY <1>3
  <2>8. r \in [id : Nat, source : Nodes, target : Nodes,
               chain : Seq({Vnfs[k] : k \in DOMAIN Vnfs}),
               flows : Seq(FlowType), start : Nat, end : Nat]
    BY <1>1, <1>3, <2>3, <2>4, <2>5, <2>7
  <2>9. r.start = slot /\ r.end = slot + FlowLife
    OBVIOUS
  <2>10. slot <= slot /\ slot + FlowLife <= slot + FlowLife
    BY <1>3, <2>7
  <2> HIDE DEF r
  <2>11. \A i \in DOMAIN r.flows : /\ r.start <= r.flows[i].start
                                   /\ r.flows[i].end <= r.end
    BY <2>3, <2>6, <2>9, <2>10
  <2> QED
    BY <2>8, <2>11 DEF Drawn
<1>6. IF r.source = r.target THEN file' = file ELSE file' = Append(file, Printed(r))
  <2>1. file' = file \o Sent(Printed(r))
    BY <1>2
  <2>2. file \in Seq(RowType)
    BY DEF SetupInv, SetupTypeOK
  <2>3. Printed(r).source = r.source /\ Printed(r).target = r.target
    BY DEF Printed
  <2> HIDE DEF r
  <2>4. CASE r.source = r.target
    BY <2>1, <2>2, <2>3, <2>4, ConcatEmptySeq DEF Sent
  <2>5. CASE r.source # r.target
    <3>1. Printed(r) \in RowType
      BY <1>5, <2>5, SentRow DEF Drawn
    <3>2. file' = file \o <<Printed(r)>>
      BY <2>1, <2>3, <2>5 DEF Sent
    <3> QED
      BY <2>2, <2>5, <3>1, <3>2, AppendIsConcat
  <2> QED
    BY <2>4, <2>5
<1> HIDE DEF r
<1>7. csvFlows = <<>>
  BY <1>1 DEF SetupInv, FromCsv
<1>8. file' \in Seq(RowType)
  BY <1>5, <1>6, <1>7, RowAdded
<1>9. SetupTypeOK'
  BY <1>1, <1>8 DEF SetupInv, SetupTypeOK, csvVars, loadVars
<1>10. Kept' /\ FromCsv' /\ Thrown' /\ AsRead'
  BY <1>1, <1>7 DEF SetupInv, Kept, FromCsv, Thrown, AsRead, csvVars
<1> QED
  BY <1>9, <1>10 DEF SetupInv

LEMMA EndSteps ==
  ASSUME SetupInv, CsvThrows \/ SlotThrows \/ WriteDone \/ DuplicateForEver
  PROVE  SetupInv'
<1> USE SetupAssumption
<1>1. /\ phase \in {"csv", "poisson", "random", "written"}
      /\ phase' \in {"aborted", "written", "endless"}
      /\ UNCHANGED <<file, kept, csvVars, turn, loadVars>>
  BY DEF CsvThrows, SlotThrows, WriteDone, DuplicateForEver, MoreCsv
<1>2. SetupTypeOK'
  BY <1>1 DEF SetupInv, SetupTypeOK, csvVars, loadVars, Phases
<1>3. Kept' /\ FromCsv' /\ AsRead'
  BY <1>1 DEF SetupInv, Kept, FromCsv, AsRead, csvVars
<1>4. ASSUME CsvThrows
      PROVE  Thrown'
  <2>1. /\ turn <= SfcNum /\ FlowNum * turn > Len(csvFlows) /\ csvFlows # <<>>
        /\ Len(csvFlows) = Len(traffic)
    BY <1>4 DEF CsvThrows, MoreCsv, SetupInv, FromCsv
  <2>2. turn \in Nat /\ SfcNum \in Nat /\ FlowNum \in Nat /\ Len(traffic) \in Nat
    BY LenProperties DEF SetupInv, SetupTypeOK
  <2>3. FlowNum * turn <= FlowNum * SfcNum
    <3>1. SfcNum - turn \in Nat /\ FlowNum * SfcNum = FlowNum * turn + FlowNum * (SfcNum - turn)
      BY <2>1, <2>2
    <3>2. FlowNum * (SfcNum - turn) \in Nat /\ FlowNum * turn \in Nat
      BY <2>2, <3>1
    <3> QED
      BY <3>1, <3>2
  <2>4. FlowNum * turn \in Nat /\ FlowNum * SfcNum \in Nat
    BY <2>2
  <2>5. Len(traffic) < FlowNum * SfcNum
    <3> DEFINE a == FlowNum * turn
               b == FlowNum * SfcNum
    <3>1. a \in Nat /\ b \in Nat /\ a <= b /\ a > Len(traffic)
      BY <2>1, <2>3, <2>4
    <3> HIDE DEF a, b
    <3>2. Len(traffic) < b
      BY <2>2, <3>1
    <3> QED
      BY <3>2 DEF b
  <2>6. traffic' = traffic /\ csvFlows' = csvFlows
    BY <1>1 DEF csvVars
  <2> QED
    BY <2>1, <2>5, <2>6 DEF Thrown
<1>5. ASSUME SlotThrows
      PROVE  Thrown'
  BY <1>1, <1>5 DEF SlotThrows, Thrown, csvVars, SetupInv, FromCsv
<1>6. WriteDone \/ DuplicateForEver => Thrown'
  BY DEF WriteDone, DuplicateForEver, Thrown
<1> QED
  BY <1>2, <1>3, <1>4, <1>5, <1>6 DEF SetupInv

\* What read_sfc makes of rows.
LEMMA ReadTypes ==
  ASSUME NEW row \in RowType
  PROVE  ReadRow(row) \in RequestType
<1>1. Vnfs \in Seq(Function) /\ row.chain \in Seq(DOMAIN Vnfs)
  BY SetupAssumption DEF RowType, Rows
<1>2. /\ DOMAIN row.chain = 1..Len(row.chain) /\ Len(row.chain) \in Nat
      /\ \A k \in 1..Len(row.chain) : row.chain[k] \in DOMAIN Vnfs
  BY <1>1, LenProperties
<1>3. \A k \in DOMAIN Vnfs : Vnfs[k] \in Function
  BY <1>1, LenProperties
<1> DEFINE chain == [k \in 1..Len(row.chain) |-> Vnfs[row.chain[k]]]
<1>4. chain \in Seq(Function)
  BY <1>2, <1>3
<1>5. ReadRow(row) = [row EXCEPT !.chain = chain]
  BY <1>2 DEF ReadRow, StringToChain
<1> HIDE DEF chain
<1> QED
  BY <1>4, <1>5 DEF RequestType, RowType, Rows

\* The numbers of rows that are read, and of requests.
ReadNum == Min({RequestNum, Len(file)})
AllNum == IF TotalNum > RequestNum THEN Max({ReadNum, TotalNum}) ELSE ReadNum

LEMMA ReadIs ==
  ASSUME SetupTypeOK, ~Endless
  PROVE  /\ ReadNum \in Nat /\ AllNum \in Nat /\ ReadNum <= Len(file)
         /\ file # <<>> => ReadNum # 0
         /\ \A n \in 1..AllNum : ((n - 1) % ReadNum) + 1 \in 1..ReadNum
         /\ ReadSfc(file) =
              [n \in 1..AllNum |-> ReadRow(file[((n - 1) % ReadNum) + 1])]
<1> USE SetupAssumption
<1>1. /\ file \in Seq(RowType) /\ Len(file) \in Nat
      /\ file # <<>> => Len(file) # 0
  BY LenProperties, EmptySeq DEF SetupTypeOK
<1>2. /\ ReadNum \in Nat /\ ReadNum <= Len(file) /\ ReadNum <= RequestNum
      /\ ReadNum \in {RequestNum, Len(file)}
  <2> DEFINE S == {RequestNum, Len(file)}
  <2>1. S \in SUBSET Nat /\ S # {}
    BY <1>1
  <2>2. Min(S) \in S /\ \A n \in S : Min(S) <= n
    <3> HIDE DEF S
    <3> QED
      BY <2>1, MinIs
  <2> QED
    BY <1>1, <2>2 DEF ReadNum
<1>3. file # <<>> => ReadNum # 0
  BY <1>1, <1>2
<1>4. AllNum \in Nat
  <2> DEFINE S == {ReadNum, TotalNum}
  <2>1. S \in SUBSET Nat /\ S # {} /\ IsFiniteSet(S)
    <3>1. IsFiniteSet({ReadNum} \cup {TotalNum})
      BY FS_Singleton, FS_Union
    <3>2. S = {ReadNum} \cup {TotalNum}
      OBVIOUS
    <3> QED
      BY <1>2, <3>1, <3>2
  <2>2. Max(S) \in S
    <3> HIDE DEF S
    <3> QED
      BY <2>1, MaxIs
  <2> QED
    BY <1>2, <2>2 DEF AllNum
<1>5. ASSUME NEW n \in 1..AllNum
      PROVE  ((n - 1) % ReadNum) + 1 \in 1..ReadNum
  <2>1. ReadNum # 0
    <3>1. CASE file = <<>>
      <4>1. ~(TotalNum > RequestNum)
        BY <3>1 DEF Endless
      <4>2. AllNum = ReadNum
        BY <4>1 DEF AllNum
      <4> QED
        BY <1>4, <4>2
    <3> QED
      BY <1>3, <3>1
  <2>2. ReadNum \in Nat \ {0} /\ n - 1 \in Nat
    BY <1>2, <1>4, <2>1
  <2>3. (n - 1) % ReadNum \in 0..(ReadNum - 1)
    BY <2>2
  <2> QED
    BY <2>2, <2>3
<1> DEFINE read == [i \in 1..ReadNum |-> ReadRow(file[i])]
<1>6. ReadSfc(file) = Duplicated(read)
  BY DEF ReadSfc, ReadNum
<1>7. Len(read) = ReadNum
  BY <1>2
<1>8. Duplicated(read) = [n \in 1..AllNum |-> read[((n - 1) % ReadNum) + 1]]
  <2> HIDE DEF read
  <2> QED
    BY <1>7 DEF Duplicated, AllNum
<1>9. \A n \in 1..AllNum : read[((n - 1) % ReadNum) + 1] = ReadRow(file[((n - 1) % ReadNum) + 1])
  BY <1>5
<1> HIDE DEF read
<1>10. ReadSfc(file) = [n \in 1..AllNum |-> ReadRow(file[((n - 1) % ReadNum) + 1])]
  BY <1>6, <1>8, <1>9
<1> QED
  BY <1>2, <1>3, <1>4, <1>5, <1>10

LEMMA ConfiguredTypes ==
  ASSUME NEW config \in ConfigFiles, Complete(config)
  PROVE  Configured(config) \in [CfgKeys -> Nat]
<1>1. config \in Seq([key : STRING, value : Nat])
  BY SetupAssumption
<1>2. DOMAIN config = 1..Len(config) /\ Len(config) \in Nat
  BY <1>1, LenProperties
<1>3. ASSUME NEW k \in CfgKeys
      PROVE  config[Max({i \in DOMAIN config : config[i].key = k})].value \in Nat
  <2> DEFINE S == {i \in DOMAIN config : config[i].key = k}
  <2>1. S \in SUBSET (1..Len(config)) /\ S # {}
    BY <1>2 DEF Complete
  <2>2. S \in SUBSET Nat /\ IsFiniteSet(S)
    <3>1. IsFiniteSet(1..Len(config))
      BY <1>2, FS_Interval
    <3> HIDE DEF S
    <3>2. IsFiniteSet(S)
      BY <2>1, <3>1, FS_Subset
    <3> QED
      BY <1>2, <2>1, <3>2
  <2>3. Max(S) \in S
    <3> HIDE DEF S
    <3> QED
      BY <2>1, <2>2, MaxIs
  <2>4. \A i \in S : config[i] \in [key : STRING, value : Nat]
    BY <1>1, <1>2, ElementOfSeq
  <2>5. config[Max(S)].value \in Nat
    <3> HIDE DEF S
    <3> QED
      BY <2>3, <2>4
  <2> QED
    BY <2>5
<1> QED
  BY <1>3 DEF Configured

LEMMA LoadStep ==
  ASSUME SetupInv, Load
  PROVE  SetupInv'
<1>1. /\ phase = "written" /\ ~Endless /\ requests' = ReadSfc(file)
      /\ phase' \in {"loaded", "undefined"} /\ UNCHANGED <<file, kept, csvVars, turn>>
      /\ phase' = "loaded" => cfg' \in [CfgKeys -> Nat]
  BY ConfiguredTypes DEF Load
<1>2. requests' \in Seq(RequestType)
  <2>1. file \in Seq(RowType) /\ \A n \in 1..Len(file) : file[n] \in RowType
    BY ElementOfSeq DEF SetupInv, SetupTypeOK
  <2>2. /\ ReadNum \in Nat /\ AllNum \in Nat /\ ReadNum <= Len(file)
        /\ \A n \in 1..AllNum : ((n - 1) % ReadNum) + 1 \in 1..ReadNum
        /\ ReadSfc(file) =
             [n \in 1..AllNum |-> ReadRow(file[((n - 1) % ReadNum) + 1])]
    BY <1>1, ReadIs DEF SetupInv
  <2> DEFINE at(n) == ((n - 1) % ReadNum) + 1
             row(n) == ReadRow(file[at(n)])
  <2>3. \A n \in 1..AllNum : at(n) \in 1..Len(file)
    <3>1. Len(file) \in Nat
      BY <2>1, LenProperties
    <3> HIDE DEF at
    <3>2. \A n \in 1..AllNum : at(n) \in 1..ReadNum
      BY <2>2 DEF at
    <3> QED
      BY <2>2, <3>1, <3>2
  <2>4. \A n \in 1..AllNum : row(n) \in RequestType
    <3> HIDE DEF at
    <3> QED
      BY <2>1, <2>3, ReadTypes
  <2>5. requests' = [n \in 1..AllNum |-> row(n)]
    BY <1>1, <2>2
  <2> HIDE DEF row
  <2> QED
    BY <2>2, <2>4, <2>5, IsASeq
<1>3. SetupTypeOK'
  BY <1>1, <1>2 DEF SetupInv, SetupTypeOK, csvVars, Phases
<1>4. Kept' /\ FromCsv' /\ Thrown' /\ AsRead'
  BY <1>1 DEF SetupInv, Kept, FromCsv, Thrown, AsRead, csvVars, Endless
<1> QED
  BY <1>3, <1>4 DEF SetupInv

LEMMA SetupStep ==
  ASSUME SetupInv, [Setup]_setupVars
  PROVE  SetupInv'
<1>1. CASE Setup
  BY <1>1, StartSteps, RandomStep, CsvStarts, CsvStep, SlotStep, EndSteps, LoadStep
     DEF Setup
<1>2. CASE UNCHANGED setupVars
  <2>1. SetupTypeOK'
    BY <1>2 DEF SetupInv, SetupTypeOK, setupVars, csvVars, loadVars
  <2>2. Kept' /\ FromCsv' /\ Thrown' /\ AsRead'
    BY <1>2 DEF SetupInv, Kept, FromCsv, Thrown, AsRead, Endless, setupVars, csvVars,
                loadVars
  <2> QED
    BY <2>1, <2>2 DEF SetupInv
<1> QED
  BY <1>1, <1>2

LEMMA SetupActions ==
  ASSUME [Next]_vars
  PROVE  [Setup]_setupVars
BY DEF Next, Prepare, Begin, ReturnNone, CheckFlows, CheckOffline, NextSlot,
       ReleaseFlow, ReleaseMissing, Released, DeployFunctions, NoPath, SteerFlow,
       SteerFails, SteerMissing, SteerDone, Save, Fail, vars, callerVars

\* Every request that is read is one the generator kept.
LEMMA WrittenIsRead ==
  ASSUME SetupInv
  PROVE  RequestsAsWritten
<1>1. /\ file \in Seq(RowType) /\ kept \in Seq(KeptType)
      /\ DOMAIN file = 1..Len(file) /\ Len(file) \in Nat
      /\ Len(kept) \in Nat
      /\ \A n \in 1..Len(file) : file[n] \in RowType
      /\ \A n \in 1..Len(kept) : kept[n] \in KeptType
  BY LenProperties, ElementOfSeq DEF SetupInv, SetupTypeOK
<1>2. ASSUME NEW n \in DOMAIN file
      PROVE  /\ file[n].source # file[n].target
             /\ file[n].flows \in Seq(FlowType)
             /\ DOMAIN file[n].flows = 1..Len(file[n].flows)
             /\ \A i \in DOMAIN file[n].flows :
                  /\ file[n].start <= file[n].flows[i].start
                  /\ file[n].flows[i].start < file[n].flows[i].end
                  /\ file[n].flows[i].end <= file[n].end
  <2>1. /\ file[n].flows \in Seq(FlowType) /\ file[n].source # file[n].target
        /\ \A i \in DOMAIN file[n].flows : /\ file[n].start <= file[n].flows[i].start
                                           /\ file[n].flows[i].end <= file[n].end
    BY <1>1 DEF RowType, Rows
  <2>2. DOMAIN file[n].flows = 1..Len(file[n].flows)
    BY <2>1, LenProperties
  <2>3. \A i \in DOMAIN file[n].flows : file[n].flows[i] \in FlowType
    BY <2>1, <2>2, ElementOfSeq
  <2> QED
    BY <2>1, <2>2, <2>3 DEF FlowType
<1>3. ASSUME phase = "loaded", kept # <<>>
      PROVE  LET read == SubSeq(kept, 1, Min({RequestNum, Len(kept)}))
             IN  \A n \in DOMAIN requests :
                   requests[n] = read[((n - 1) % Len(read)) + 1]
  <2>1. /\ Len(file) = Len(kept) /\ \A n \in 1..Len(kept) : file[n] = Printed(kept[n])
        /\ requests = ReadSfc(file) /\ ~Endless
    BY <1>3 DEF SetupInv, Kept, AsRead
  <2>2. /\ ReadNum \in Nat /\ AllNum \in Nat /\ ReadNum <= Len(file)
        /\ \A n \in 1..AllNum : ((n - 1) % ReadNum) + 1 \in 1..ReadNum
        /\ requests =
             [n \in 1..AllNum |-> ReadRow(file[((n - 1) % ReadNum) + 1])]
    BY <2>1, ReadIs DEF SetupInv
  <2> DEFINE read == SubSeq(kept, 1, ReadNum)
  <2>3. /\ Len(read) = ReadNum
        /\ \A i \in 1..ReadNum : read[i] = kept[i]
    <3>1. \A i \in 1..ReadNum : kept[i] \in KeptType
      BY <1>1, <2>1, <2>2
    <3>2. /\ Len(read) = IF 1 <= ReadNum THEN ReadNum - 1 + 1 ELSE 0
          /\ \A i \in 1..ReadNum - 1 + 1 : read[i] = kept[1 + i - 1]
      BY <2>2, <3>1, SubSeqProperties
    <3>3. \A i \in 1..ReadNum : 1 + i - 1 = i /\ i \in 1..ReadNum - 1 + 1
      BY <2>2
    <3> HIDE DEF read
    <3> QED
      BY <2>2, <3>2, <3>3
  <2>4. ASSUME NEW i \in 1..ReadNum
        PROVE  ReadRow(file[i]) = kept[i]
    <3>1. i \in 1..Len(kept) /\ i \in 1..Len(file)
      BY <1>1, <2>1, <2>2
    <3>2. file[i] = Printed(kept[i]) /\ kept[i] \in KeptType
      BY <1>1, <2>1, <3>1
    <3> QED
      BY <3>2, SentRow DEF KeptType, Drawn
  <2> HIDE DEF read
  <2>5. ASSUME NEW n \in DOMAIN requests
        PROVE  requests[n] = read[((n - 1) % Len(read)) + 1]
    <3> DEFINE i == ((n - 1) % ReadNum) + 1
    <3>1. n \in 1..AllNum /\ i \in 1..ReadNum
      BY <2>2
    <3>2. requests[n] = ReadRow(file[i])
      BY <2>2, <3>1
    <3> HIDE DEF i
    <3>3. requests[n] = read[i]
      BY <2>3, <2>4, <3>1, <3>2
    <3> QED
      BY <2>3, <3>3 DEF i
  <2> QED
    BY <2>1, <2>5 DEF read, ReadNum
<1>4. ASSUME csvFlows # <<>>, NEW n \in DOMAIN file, NEW i \in DOMAIN file[n].flows
      PROVE  file[n].flows[i].rate < SmallestCap
  <2>1. /\ file[n].flows[i] \in FlowType
        /\ file[n].flows[i].rate < InstanceThreshold
    <3>1. i \in 1..Len(file[n].flows) /\ n \in 1..Len(file)
      BY <1>1, <1>2
    <3> QED
      BY <1>2, <1>4, <3>1, ElementOfSeq DEF SetupInv, FromCsv
  <2>2. SmallestCap \in Nat /\ InstanceThreshold <= SmallestCap
    <3> DEFINE S == {Vnfs[k].cap : k \in DOMAIN Vnfs}
    <3>1. S \in SUBSET Nat /\ S # {} /\ \A c \in S : c >= InstanceThreshold
      <4>1. /\ Vnfs \in Seq(Function) /\ IsDraw(Len(Vnfs))
            /\ \A k \in DOMAIN Vnfs : Vnfs[k].cap >= InstanceThreshold
        BY SetupAssumption
      <4>2. DOMAIN Vnfs = 1..Len(Vnfs) /\ Len(Vnfs) \in Nat
        BY <4>1, LenProperties
      <4>3. \A k \in DOMAIN Vnfs : Vnfs[k] \in Function
        BY <4>1, <4>2, ElementOfSeq
      <4>4. 1 \in DOMAIN Vnfs
        BY <4>1, <4>2 DEF IsDraw
      <4> QED
        BY <4>1, <4>3, <4>4 DEF Function
    <3>2. SmallestCap = Min(S)
      BY DEF SmallestCap
    <3> HIDE DEF S
    <3>3. Min(S) \in S
      BY <3>1, MinIs
    <3>4. InstanceThreshold \in Nat
      BY SetupAssumption
    <3> QED
      BY <3>1, <3>2, <3>3, <3>4
  <2>3. InstanceThreshold \in Nat /\ file[n].flows[i].rate \in Nat
    BY <2>1, SetupAssumption DEF FlowType
  <2> QED
    BY <2>1, <2>2, <2>3
<1>5. phase = "aborted" =>
        \/ csvFlows # <<>> /\ Len(traffic) < FlowNum * SfcNum
        \/ csvFlows = <<>> /\ Len(slotNums) < EndTime
  BY DEF SetupInv, Thrown
<1> QED
  BY <1>2, <1>3, <1>4, <1>5 DEF RequestsAsWritten

\* Whichever way the file of requests is written, its requests lead somewhere,
\* with flows within their time, those of flow_size.csv below the smallest
\* instance (sfc.cc:103), and read_sfc gets what the generator kept.
THEOREM ReadAsWritten == Spec => []RequestsAsWritten
<1>1. Init => SetupInv
  BY InitSetup DEF Init
<1>2. SetupInv /\ [Next]_vars => SetupInv'
  BY SetupActions, SetupStep
<1> QED
  BY <1>1, <1>2, WrittenIsRead, PTL DEF Spec

-----------------------------------------------------------------------------
(***************************************************************************)
(* The paths of the graph.                                                 *)
(***************************************************************************)
\* A path over links that comes to no node twice.
IsRoute(p, u, w) ==
  /\ p \in Seq(Nodes) /\ p # <<>> /\ p[1] = u /\ p[Len(p)] = w
  /\ \A i, j \in 1..Len(p) : p[i] = p[j] => i = j
  /\ \A i \in 1..Len(p) - 1 : <<p[i], p[i + 1]>> \in Links

LEMMA LinksJoinNodes ==
  ASSUME NEW e \in Links
  PROVE  e[1] \in Nodes /\ e[2] \in Nodes /\ e = <<e[1], e[2]>>
<1>1. \A d \in LoadedLinks : d[1] \in Nodes /\ d[2] \in Nodes /\ d = <<d[1], d[2]>>
  BY DEF LoadedLinks, Joins
<1> QED
  BY <1>1 DEF Links

\* What ksp makes of a path of yen_ksp: its nodes, one after the other.
LEMMA NodesAre ==
  ASSUME NEW path, NEW ends, IsPath(path, ends)
  PROVE  /\ Len(path) \in Nat \ {0}
         /\ NodesOf(path) = [j \in 1..Len(path) + 1 |->
                               IF j = 1 THEN path[1][1] ELSE path[j - 1][2]]
<1>1. /\ path \in Seq(Links) /\ Len(path) \in Nat \ {0}
      /\ \A i \in 1..Len(path) : path[i] \in Links
  BY EmptySeq, ElementOfSeq DEF IsPath
<1> DEFINE n == Len(path)
           nodes(i) == IF i = 0 THEN <<>>
                       ELSE [j \in 1..i + 1 |->
                               IF j = 1 THEN path[1][1] ELSE path[j - 1][2]]
           S == [i \in 0..n |-> {nodes(i)}]
           Step(p, i) == WithEnd(WithEnd(p, path[i][1]), path[i][2])
           Is(f) == f = [i \in 0..n |-> IF i = 0 THEN <<>> ELSE Step(f[i - 1], i)]
<1>2. ASSUME NEW i \in 1..n
      PROVE  Step(nodes(i - 1), i) = nodes(i)
  <2>1. \A j \in 1..n : path[j][1] \in Nodes /\ path[j][2] \in Nodes
    BY <1>1, LinksJoinNodes
  <2>2. CASE i = 1
    <3>1. WithEnd(<<>>, path[1][1]) = <<path[1][1]>>
      BY DEF WithEnd, Contains
    <3>2. path[1][1] # path[1][2]
      BY <1>1 DEF IsPath
    <3> DEFINE p == <<path[1][1]>>
               b == path[1][2]
    <3>3. p \in Seq(Nodes) /\ Len(p) = 1 /\ p[1] = path[1][1] /\ b \in Nodes /\ p[1] # b
      BY <1>1, <2>1, <3>2
    <3> HIDE DEF p, b
    <3>4. WithEnd(p, b) = Append(p, b)
      BY <3>3 DEF WithEnd, Contains
    <3>5. /\ Append(p, b) \in Seq(Nodes)
          /\ Len(Append(p, b)) = 2
          /\ Append(p, b)[1] = path[1][1]
          /\ Append(p, b)[2] = b
      <4>1. 1 \in 1..Len(p) /\ Len(p) + 1 = 2
        BY <3>3
      <4>2. /\ Append(p, b) \in Seq(Nodes)
            /\ Len(Append(p, b)) = Len(p) + 1
            /\ \A j \in 1..Len(p) : Append(p, b)[j] = p[j]
            /\ Append(p, b)[Len(p) + 1] = b
        BY <3>3, <4>1, AppendProperties
      <4> QED
        BY <3>3, <4>1, <4>2
    <3>6. /\ nodes(1) \in Seq(Nodes) /\ Len(nodes(1)) = 2
          /\ nodes(1)[1] = path[1][1] /\ nodes(1)[2] = b
      <4>1. \A j \in 1..2 : (IF j = 1 THEN path[1][1] ELSE path[j - 1][2]) \in Nodes
        BY <1>1, <2>1
      <4> QED
        BY <4>1 DEF b
    <3>7. Append(p, b) = nodes(1)
      <4>1. \A j \in 1..2 : j = 1 \/ j = 2
        OBVIOUS
      <4> HIDE DEF nodes
      <4> QED
        BY <3>5, <3>6, <4>1, SeqEqual
    <3> QED
      BY <2>2, <3>1, <3>4, <3>7 DEF p, b
  <2>3. CASE i # 1
    <3> DEFINE p == nodes(i - 1)
    <3>1. i - 1 \in 1..n - 1 /\ (i - 1) + 1 = i
      BY <1>1, <2>3
    <3>2. p = [j \in 1..i |-> IF j = 1 THEN path[1][1] ELSE path[j - 1][2]]
      BY <3>1
    <3>3. p \in Seq(Nodes) /\ Len(p) = i
      <4>1. \A j \in 1..i : (IF j = 1 THEN path[1][1] ELSE path[j - 1][2]) \in Nodes
        BY <1>1, <2>1
      <4> HIDE DEF p
      <4> QED
        BY <3>2, <4>1
    <3>4. p[i] = path[i][1]
      <4>1. path[i - 1][2] = path[(i - 1) + 1][1]
        BY <3>1 DEF IsPath
      <4> QED
        BY <2>3, <3>1, <3>2, <4>1
    <3>5. \A j \in 1..i : p[j] # path[i][2]
      <4>1. path[1][1] # path[i][2]
        BY <1>1, <2>3 DEF IsPath
      <4>2. \A j \in 1..i : j # 1 => path[j - 1][2] # path[i][2]
        BY <1>1 DEF IsPath
      <4> QED
        BY <3>2, <4>1, <4>2
    <3> HIDE DEF p
    <3>6. WithEnd(p, path[i][1]) = p
      BY <3>3, <3>4 DEF WithEnd, Contains
    <3>7. WithEnd(p, path[i][2]) = Append(p, path[i][2])
      BY <3>3, <3>5 DEF WithEnd, Contains
    <3>8. Append(p, path[i][2]) = nodes(i)
      <4>1. /\ Append(p, path[i][2]) \in Seq(Nodes)
            /\ Len(Append(p, path[i][2])) = i + 1
            /\ \A j \in 1..i : Append(p, path[i][2])[j] = p[j]
            /\ Append(p, path[i][2])[i + 1] = path[i][2]
        BY <2>1, <3>3, AppendProperties
      <4>2. nodes(i) \in Seq(Nodes) /\ Len(nodes(i)) = i + 1
        <5>1. \A j \in 1..i + 1 : (IF j = 1 THEN path[1][1] ELSE path[j - 1][2]) \in Nodes
          BY <1>1, <2>1
        <5> QED
          BY <5>1
      <4>3. \A j \in 1..i : nodes(i)[j] = p[j]
        BY <3>2
      <4>4. nodes(i)[i + 1] = path[i][2]
        BY <3>1
      <4>5. \A j \in 1..i + 1 : j \in 1..i \/ j = i + 1
        OBVIOUS
      <4> HIDE DEF nodes
      <4> QED
        BY <4>1, <4>2, <4>3, <4>4, <4>5, SeqEqual
    <3> QED
      BY <3>6, <3>7, <3>8 DEF p
  <2> QED
    BY <2>2, <2>3
<1>3. nodes(0) = <<>>
  OBVIOUS
<1> DEFINE step == [i \in 1..n |-> [p \in S[i - 1] |-> Step(p, i)]]
<1>4. \E f : Is(f) /\ \A i \in 0..n : f[i] \in S[i]
  <2>1. <<>> \in S[0]
    BY <1>1, <1>3
  <2>2. \A i \in 1..n : \A p \in S[i - 1] : step[i][p] \in S[i] /\ step[i][p] = Step(p, i)
    <3> HIDE DEF nodes, Step
    <3> QED
      BY <1>1, <1>2
  <2> HIDE DEF step, Step, S
  <2>3. PICK f : Unrolls(f, n, <<>>, step) /\ \A i \in 0..n : f[i] \in S[i]
    <3>1. \A i \in 1..n : \A p \in S[i - 1] : step[i][p] \in S[i]
      BY <2>2
    <3>2. n \in Nat
      BY <1>1
    <3> HIDE DEF n
    <3> QED
      BY <2>1, <3>1, <3>2, StepsExist
  <2>4. \A i \in 1..n : f[i - 1] \in S[i - 1]
    BY <1>1, <2>3
  <2>5. \A i \in 1..n : step[i][f[i - 1]] = Step(f[i - 1], i)
    BY <2>2, <2>4
  <2>6. Is(f)
    BY <2>3, <2>5 DEF Unrolls
  <2> QED
    BY <2>3, <2>6
<1> DEFINE g == CHOOSE f : Is(f)
<1>5. NodesOf(path) = g[n]
  BY DEF NodesOf
<1>6. Is(g)
  <2> HIDE DEF Is, S
  <2> QED
    BY <1>4
<1> HIDE DEF g
<1>7. \A i \in 0..n : g[i] \in S[i]
  <2>1. g[0] \in S[0]
    BY <1>1, <1>3, <1>6
  <2>2. \A i \in 1..n : g[i - 1] \in S[i - 1] => g[i] \in S[i]
    <3> TAKE i \in 1..n
    <3> HAVE g[i - 1] \in S[i - 1]
    <3>1. i - 1 \in 0..n /\ i \in 0..n
      BY <1>1
    <3>2. g[i - 1] = nodes(i - 1)
      BY <3>1
    <3>3. g[i] = Step(g[i - 1], i)
      <4> HIDE DEF Step
      <4> QED
        BY <1>6, <3>1
    <3> HIDE DEF nodes, Step
    <3> QED
      BY <1>2, <3>1, <3>2, <3>3
  <2> HIDE DEF S
  <2> QED
    BY <1>1, <2>1, <2>2, StepsKeep
<1>8. g[n] = nodes(n) /\ n # 0
  <2>1. n \in 0..n /\ n # 0
    BY <1>1
  <2> HIDE DEF nodes, n
  <2> QED
    BY <1>7, <2>1
<1> QED
  BY <1>1, <1>5, <1>8

LEMMA KspRoutes ==
  ASSUME NEW u \in Nodes, NEW w \in Nodes
  PROVE  /\ Len(Ksp[<<u, w>>]) \in Nat
         /\ u = w => Ksp[<<u, w>>] = <<<<u>>>>
         /\ u # w => \A i \in 1..Len(Ksp[<<u, w>>]) : IsRoute(Ksp[<<u, w>>][i], u, w)
<1> DEFINE ends == <<u, w>>
           yen == YenPaths[ends]
<1>1. /\ ends \in DOMAIN YenPaths /\ yen \in Seq(Seq(Links))
      /\ DOMAIN yen = 1..Len(yen) /\ Len(yen) \in Nat
      /\ u # w => \A i \in 1..Len(yen) : IsPath(yen[i], ends)
  <2>1. ends \in Nodes \X Nodes /\ ends[1] = u /\ ends[2] = w
    OBVIOUS
  <2>2. yen \in Seq(Seq(Links)) /\ ends \in DOMAIN YenPaths
    BY <2>1, FlowAssumption
  <2>3. u # w => \A i \in 1..Len(yen) : IsPath(yen[i], ends)
    BY <2>1, FlowAssumption
  <2> QED
    BY <2>2, <2>3, LenProperties
<1>2. Ksp[<<u, w>>] = IF u = w THEN <<<<u>>>> ELSE [i \in 1..Len(yen) |-> NodesOf(yen[i])]
  BY <1>1 DEF Ksp
<1>3. u = w => Ksp[<<u, w>>] = <<<<u>>>> /\ Len(Ksp[<<u, w>>]) = 1
  BY <1>2
<1>4. ASSUME u # w
      PROVE  /\ Len(Ksp[<<u, w>>]) \in Nat
             /\ \A i \in 1..Len(Ksp[<<u, w>>]) : IsRoute(Ksp[<<u, w>>][i], u, w)
  <2>1. Len(Ksp[<<u, w>>]) = Len(yen)
    BY <1>1, <1>2, <1>4
  <2>2. ASSUME NEW i \in 1..Len(yen)
        PROVE  IsRoute(NodesOf(yen[i]), u, w)
    <3> DEFINE path == yen[i]
               n == Len(path)
               p == NodesOf(path)
    <3>1. IsPath(path, ends) /\ ends[1] = u /\ ends[2] = w
      BY <1>1, <1>4
    <3> HIDE DEF path, ends
    <3>2. /\ n \in Nat \ {0} /\ path \in Seq(Links)
          /\ p = [j \in 1..n + 1 |-> IF j = 1 THEN path[1][1] ELSE path[j - 1][2]]
      BY <3>1, NodesAre DEF IsPath
    <3>3. \A j \in 1..n : /\ path[j] \in Links /\ path[j][1] \in Nodes
                          /\ path[j][2] \in Nodes /\ path[j] = <<path[j][1], path[j][2]>>
      BY <3>2, ElementOfSeq, LinksJoinNodes
    <3> HIDE DEF p
    <3>4. p \in Seq(Nodes) /\ Len(p) = n + 1
      <4>1. \A j \in 1..n + 1 : (IF j = 1 THEN path[1][1] ELSE path[j - 1][2]) \in Nodes
        BY <3>2, <3>3
      <4> QED
        BY <3>2, <4>1
    <3>5. p # <<>> /\ p[1] = u /\ p[n + 1] = w
      <4>1. path[1][1] = u /\ path[n][2] = w /\ (n + 1) - 1 = n /\ n + 1 # 1
        BY <3>1, <3>2 DEF IsPath
      <4> QED
        BY <3>2, <3>4, <4>1
    <3>6. ASSUME NEW j \in 1..n + 1, NEW k \in 1..n + 1, p[j] = p[k]
          PROVE  j = k
      <4>1. /\ \A x \in 1..n : path[1][1] # path[x][2]
            /\ \A x, y \in 1..n : path[x][2] = path[y][2] => x = y
        BY <3>1, <3>2 DEF IsPath
      <4>2. \A x \in 1..n + 1 : x # 1 => x - 1 \in 1..n
        BY <3>2
      <4>3. CASE j = 1 /\ k # 1
        BY <3>2, <3>6, <4>1, <4>2, <4>3
      <4>4. CASE j # 1 /\ k = 1
        BY <3>2, <3>6, <4>1, <4>2, <4>4
      <4>5. CASE j # 1 /\ k # 1
        <5>1. path[j - 1][2] = path[k - 1][2] /\ j - 1 \in 1..n /\ k - 1 \in 1..n
          BY <3>2, <3>6, <4>2, <4>5
        <5>2. j - 1 = k - 1
          BY <4>1, <5>1
        <5> QED
          BY <3>2, <5>2
      <4> QED
        BY <4>3, <4>4, <4>5
    <3>7. ASSUME NEW j \in 1..n
          PROVE  <<p[j], p[j + 1]>> \in Links
      <4>1. p[j] = path[j][1]
        <5>1. CASE j = 1
          BY <3>2, <5>1
        <5>2. CASE j # 1
          <6>1. j - 1 \in 1..n - 1 /\ (j - 1) + 1 = j /\ j \in 1..n + 1
            BY <3>2, <5>2
          <6>2. path[j - 1][2] = path[(j - 1) + 1][1]
            BY <3>1, <6>1 DEF IsPath
          <6> QED
            BY <3>2, <5>2, <6>1, <6>2
        <5> QED
          BY <5>1, <5>2
      <4>2. p[j + 1] = path[j][2]
        BY <3>2
      <4> QED
        BY <3>3, <4>1, <4>2
    <3>8. (n + 1) - 1 = n
      BY <3>2
    <3> HIDE DEF n
    <3>9. IsRoute(p, u, w)
      BY <3>4, <3>5, <3>6, <3>7, <3>8 DEF IsRoute
    <3> QED
      BY <3>9 DEF p, path
  <2>3. \A i \in 1..Len(yen) : Ksp[<<u, w>>][i] = NodesOf(yen[i])
    BY <1>2, <1>4
  <2> QED
    BY <1>1, <2>1, <2>2, <2>3
<1> QED
  BY <1>3, <1>4

\* The places at which a path takes an edge.
Takes(p, e) == {i \in 1..Len(p) - 1 : <<p[i], p[i + 1]>> = e}

LEMMA TimesType ==
  ASSUME NEW p \in Seq(Nodes), NEW e
  PROVE  Times(p, e) \in Nat /\ IsFiniteSet(Takes(p, e)) /\ Times(p, e) = Cardinality(Takes(p, e))
<1>1. Len(p) \in Nat
  BY LenProperties
<1>2. IsFiniteSet(1..Len(p) - 1)
  BY <1>1, FS_Interval
<1>3. IsFiniteSet(Takes(p, e))
  BY <1>2, FS_Subset DEF Takes
<1>4. Cardinality(Takes(p, e)) \in Nat
  BY <1>3, FS_CardinalityType
<1> QED
  BY <1>3, <1>4 DEF Times, Takes

LEMMA TimesShort ==
  ASSUME NEW p \in Seq(Nodes), Len(p) <= 1, NEW e
  PROVE  Times(p, e) = 0
<1>1. Len(p) \in Nat
  BY LenProperties
<1>2. Takes(p, e) = {}
  BY <1>1 DEF Takes
<1> QED
  BY <1>2, TimesType, FS_EmptySet

\* A route takes an edge once, if it takes it.
LEMMA TimesRoute ==
  ASSUME NEW p, NEW u, NEW w, IsRoute(p, u, w), NEW e
  PROVE  /\ Times(p, e) \in {0, 1}
         /\ Times(p, e) = 1 => e \in EdgesOf(p)
<1>1. p \in Seq(Nodes) /\ Len(p) \in Nat
  BY LenProperties DEF IsRoute
<1>2. Times(p, e) = Cardinality(Takes(p, e))
  BY <1>1, TimesType
<1>3. CASE Takes(p, e) = {}
  BY <1>2, <1>3, FS_EmptySet
<1>4. CASE Takes(p, e) # {}
  <2>1. PICK i \in Takes(p, e) : TRUE
    BY <1>4
  <2>2. i \in 1..Len(p) - 1 /\ <<p[i], p[i + 1]>> = e
    BY <2>1 DEF Takes
  <2>3. \A j \in Takes(p, e) : j = i
    <3> TAKE j \in Takes(p, e)
    <3>1. j \in 1..Len(p) - 1 /\ <<p[j], p[j + 1]>> = e
      BY DEF Takes
    <3>2. p[j] = p[i] /\ i \in 1..Len(p) /\ j \in 1..Len(p)
      BY <1>1, <2>2, <3>1
    <3> QED
      BY <3>2 DEF IsRoute
  <2>4. Takes(p, e) = {i}
    BY <2>1, <2>3
  <2>5. Times(p, e) = 1
    BY <1>2, <2>4, FS_Singleton
  <2> QED
    BY <2>2, <2>5 DEF EdgesOf
<1> QED
  BY <1>3, <1>4

\* Two paths in a row, with the node between them once.
LEMMA TimesJoined ==
  ASSUME NEW p \in Seq(Nodes), NEW q \in Seq(Nodes), p # <<>>, q # <<>>,
         p[Len(p)] = q[1], NEW e
  PROVE  /\ p \o Tail(q) \in Seq(Nodes) /\ p \o Tail(q) # <<>>
         /\ (p \o Tail(q))[Len(p \o Tail(q))] = q[Len(q)]
         /\ Times(p \o Tail(q), e) = Times(p, e) + Times(q, e)
<1> DEFINE m == Len(p)
           n == Len(q)
           r == p \o Tail(q)
<1>1. m \in Nat \ {0} /\ n \in Nat \ {0}
  BY EmptySeq
<1>2. /\ Tail(q) \in Seq(Nodes) /\ Len(Tail(q)) = n - 1
      /\ \A i \in 1..n - 1 : Tail(q)[i] = q[i + 1]
  BY HeadTailProperties
<1>3. /\ r \in Seq(Nodes) /\ Len(r) = m + (n - 1)
      /\ \A i \in 1..m + (n - 1) : r[i] = IF i <= m THEN p[i] ELSE Tail(q)[i - m]
  BY <1>2, ConcatProperties
<1> HIDE DEF r
<1>4. \A i \in 1..m : r[i] = p[i]
  BY <1>1, <1>3
<1>5. ASSUME NEW i \in 1..n
      PROVE  r[i + m - 1] = q[i]
  <2>1. CASE i = 1
    <3>1. i + m - 1 = m /\ m \in 1..m
      BY <1>1, <2>1
    <3>2. r[m] = p[m]
      BY <1>4, <3>1
    <3> QED
      BY <2>1, <3>1, <3>2
  <2>2. CASE i # 1
    <3>1. /\ i + m - 1 \in 1..m + (n - 1) /\ ~(i + m - 1 <= m)
          /\ (i + m - 1) - m = i - 1 /\ i - 1 \in 1..n - 1 /\ (i - 1) + 1 = i
      BY <1>1, <2>2
    <3>2. r[i + m - 1] = Tail(q)[(i + m - 1) - m]
      BY <1>3, <3>1
    <3> QED
      BY <1>2, <3>1, <3>2
  <2> QED
    BY <2>1, <2>2
<1>6. r # <<>> /\ r[Len(r)] = q[n]
  <2>1. n \in 1..n /\ n + m - 1 = m + (n - 1) /\ Len(r) # 0
    BY <1>1, <1>3
  <2>2. r[n + m - 1] = q[n]
    BY <1>5, <2>1
  <2> QED
    BY <1>3, <2>1, <2>2, EmptySeq
<1> DEFINE P == Takes(p, e)
           Q == Takes(q, e)
           shift == [i \in Q |-> i + m - 1]
           T == {shift[i] : i \in Q}
<1>7. IsFiniteSet(P) /\ IsFiniteSet(Q) /\ P \subseteq 1..m - 1 /\ Q \subseteq 1..n - 1
  BY TimesType DEF Takes
<1>8. Takes(r, e) = P \cup T
  <2>1. ASSUME NEW i \in Takes(r, e)
        PROVE  i \in P \cup T
    <3>1. i \in 1..m + (n - 1) - 1 /\ <<r[i], r[i + 1]>> = e
      BY <1>3 DEF Takes
    <3>2. CASE i < m
      <4>1. i \in 1..m /\ i + 1 \in 1..m /\ i \in 1..m - 1
        BY <1>1, <3>1, <3>2
      <4>2. r[i] = p[i] /\ r[i + 1] = p[i + 1]
        BY <1>4, <4>1
      <4> QED
        BY <3>1, <4>1, <4>2 DEF Takes
    <3>3. CASE ~(i < m)
      <4> DEFINE j == i - m + 1
      <4>1. j \in 1..n - 1 /\ j \in 1..n /\ j + 1 \in 1..n /\ j + m - 1 = i
            /\ (j + 1) + m - 1 = i + 1
        BY <1>1, <3>1, <3>3
      <4> HIDE DEF j
      <4>2. r[i] = q[j] /\ r[i + 1] = q[j + 1]
        BY <1>5, <4>1
      <4>3. j \in Q /\ shift[j] = i
        BY <3>1, <4>1, <4>2 DEF Takes
      <4> QED
        BY <4>3
    <3> QED
      BY <3>2, <3>3
  <2>2. ASSUME NEW i \in P
        PROVE  i \in Takes(r, e)
    <3>1. i \in 1..m - 1 /\ <<p[i], p[i + 1]>> = e
      BY DEF Takes
    <3>2. i \in 1..m /\ i + 1 \in 1..m /\ i \in 1..(m + (n - 1)) - 1
      BY <1>1, <3>1
    <3>3. r[i] = p[i] /\ r[i + 1] = p[i + 1]
      BY <1>4, <3>2
    <3> QED
      BY <1>3, <3>1, <3>2, <3>3 DEF Takes
  <2>3. ASSUME NEW j \in Q
        PROVE  shift[j] \in Takes(r, e)
    <3>1. j \in 1..n - 1 /\ <<q[j], q[j + 1]>> = e
      BY DEF Takes
    <3>2. /\ j \in 1..n /\ j + 1 \in 1..n /\ j + m - 1 \in 1..(m + (n - 1)) - 1
          /\ (j + 1) + m - 1 = (j + m - 1) + 1
      BY <1>1, <3>1
    <3>3. r[j + m - 1] = q[j] /\ r[(j + m - 1) + 1] = q[j + 1]
      BY <1>5, <3>2
    <3>4. j + m - 1 \in Takes(r, e)
      BY <1>3, <3>1, <3>2, <3>3 DEF Takes
    <3> QED
      BY <3>4
  <2> HIDE DEF shift
  <2> QED
    BY <2>1, <2>2, <2>3
<1>9. ExistsBijection(Q, T)
  <2>1. \A i, j \in Q : shift[i] = shift[j] => i = j
    BY <1>1, <1>7
  <2>2. shift \in [Q -> T] /\ \A t \in T : \E i \in Q : shift[i] = t
    OBVIOUS
  <2> HIDE DEF shift, T, Q
  <2>3. shift \in Bijection(Q, T)
    BY <2>1, <2>2 DEF Bijection, Injection, Surjection, IsInjective
  <2> QED
    BY <2>3 DEF ExistsBijection
<1>10. P \cap T = {}
  BY <1>1, <1>7
<1>11. IsFiniteSet(T) /\ Cardinality(T) = Cardinality(Q)
  <2> HIDE DEF shift, T, Q
  <2> QED
    BY <1>7, <1>9, FS_Bijection
<1>12. Cardinality(P \cup T) = Cardinality(P) + Cardinality(T)
  <2> HIDE DEF P, T
  <2>1. Cardinality(P \cup T) = Cardinality(P) + Cardinality(T) - Cardinality(P \cap T)
    BY <1>7, <1>11, FS_Union
  <2>2. Cardinality(P) \in Nat /\ Cardinality(T) \in Nat /\ Cardinality(P \cap T) = 0
    BY <1>7, <1>10, <1>11, FS_CardinalityType, FS_EmptySet
  <2> QED
    BY <2>1, <2>2
<1>13. Times(r, e) = Times(p, e) + Times(q, e)
  BY <1>3, <1>8, <1>11, <1>12, TimesType
<1> QED
  BY <1>3, <1>6, <1>13 DEF r

-----------------------------------------------------------------------------
(***************************************************************************)
(* Percentages, and what they make of the use of an instance.              *)
(***************************************************************************)
LEMMA ProductType ==
  ASSUME NEW n \in Nat, NEW factors, NEW N \in {Nat, Nat \ {0}},
         \A i \in 1..n : factors[i] \in N
  PROVE  Product(factors, n) \in N
<1> DEFINE S == [i \in 0..n |-> N]
           Is(f) == f = [i \in 0..n |-> IF i = 0 THEN 1 ELSE f[i - 1] * factors[i]]
           step == [i \in 1..n |-> [x \in N |-> x * factors[i]]]
           f == CHOOSE g : Is(g)
<1>1. \A x, y \in N : x * y \in N
  <2>1. ASSUME NEW x \in Nat, NEW y \in Nat
        PROVE  x * y \in Nat /\ (x # 0 /\ y # 0 => x * y # 0)
    OBVIOUS
  <2> QED
    BY <2>1
<1>2. \E g : Is(g)
  <2>1. 1 \in S[0]
    OBVIOUS
  <2>2. \A i \in 1..n : \A x \in S[i - 1] : step[i][x] \in S[i]
    <3> SUFFICES ASSUME NEW i \in 1..n, NEW x \in N
                 PROVE  step[i][x] \in N
      OBVIOUS
    <3>1. step[i][x] = x * factors[i] /\ factors[i] \in N
      OBVIOUS
    <3> HIDE DEF step
    <3> QED
      BY <1>1, <3>1
  <2>3. PICK g : Unrolls(g, n, 1, step) /\ \A i \in 0..n : g[i] \in S[i]
    <3> HIDE DEF S, step
    <3> QED
      BY <2>1, <2>2, StepsExist
  <2>4. \A i \in 1..n : step[i][g[i - 1]] = g[i - 1] * factors[i]
    BY <2>3
  <2> HIDE DEF step
  <2>5. Is(g)
    BY <2>3, <2>4 DEF Unrolls
  <2> QED
    BY <2>5
<1>3. Is(f)
  <2> HIDE DEF Is
  <2> QED
    BY <1>2
<1>4. Product(factors, n) = f[n]
  BY DEF Product
<1> HIDE DEF f
<1>5. f[0] \in S[0]
  BY <1>3
<1>6. ASSUME NEW i \in 1..n, f[i - 1] \in S[i - 1]
      PROVE  f[i] \in S[i]
  <2>1. f[i] = f[i - 1] * factors[i]
    BY <1>3
  <2>2. f[i - 1] \in N /\ factors[i] \in N
    BY <1>6
  <2>3. f[i] \in N
    <3> HIDE DEF Is
    <3> QED
      BY <1>1, <2>1, <2>2
  <2> QED
    BY <2>3
<1>7. \A i \in 0..n : f[i] \in S[i]
  <2> HIDE DEF S, Is
  <2> QED
    BY <1>5, <1>6, StepsKeep
<1> QED
  BY <1>4, <1>7

LEMMA PartTypes ==
  ASSUME NEW chain \in Seq(Function), NEW k \in 1..Len(chain), NEW rate \in Nat
  PROVE  /\ Hundreds(k) \in Nat \ {0}
         /\ Part(chain, k, rate) \in Nat
         /\ rate = 0 => Part(chain, k, rate) = 0
<1>1. /\ Len(chain) \in Nat /\ k - 1 \in Nat
      /\ \A i \in 1..k - 1 : i + 1 \in 1..Len(chain)
  BY LenProperties
<1> DEFINE factors == [i \in 1..k - 1 |-> chain[i + 1].factor]
           hundreds == [i \in 1..k - 1 |-> 100]
<1>2. \A i \in 1..k - 1 : factors[i] \in Nat
  <2>1. \A i \in 1..Len(chain) : chain[i] \in Function
    BY ElementOfSeq
  <2> QED
    BY <1>1, <2>1 DEF Function
<1>3. \A i \in 1..k - 1 : hundreds[i] \in Nat \ {0}
  OBVIOUS
<1>4. Percents(chain, k) = Product(factors, k - 1) /\ Hundreds(k) = Product(hundreds, k - 1)
  BY DEF Percents, Hundreds
<1> HIDE DEF factors, hundreds
<1>5. Percents(chain, k) \in Nat
  BY <1>1, <1>2, <1>4, ProductType
<1>6. Hundreds(k) \in Nat \ {0}
  BY <1>1, <1>3, <1>4, ProductType
<1> QED
  BY <1>5, <1>6 DEF Part

\* What is added is cut by less than one.
LEMMA AddedIs ==
  ASSUME NEW chain \in Seq(Function), NEW k \in 1..Len(chain), NEW rate \in Nat,
         NEW used \in Nat
  PROVE  LET new == Added(used, chain, k, rate)
             all == used * Hundreds(k) + Part(chain, k, rate)
         IN  /\ new \in Nat /\ new * Hundreds(k) <= all
             /\ all < (new + 1) * Hundreds(k)
<1> DEFINE h == Hundreds(k)
           all == used * h + Part(chain, k, rate)
<1>1. h \in Nat \ {0} /\ all \in Nat
  <2>1. h \in Nat \ {0} /\ Part(chain, k, rate) \in Nat
    BY PartTypes
  <2> HIDE DEF h
  <2>2. used * h \in Nat
    BY <2>1
  <2> QED
    BY <2>1, <2>2
<1>2. Added(used, chain, k, rate) = all \div h
  BY DEF Added
<1> HIDE DEF all, h
<1>3. all \div h \in Nat /\ (all \div h) * h <= all /\ all < (all \div h + 1) * h
  <2>1. /\ all = h * (all \div h) + (all % h)
        /\ all % h \in 0..(h - 1) /\ all \div h \in Int
    BY <1>1
  <2>2. all \div h \in Nat
    BY <1>1
  <2> DEFINE d == all \div h
  <2> HIDE DEF d
  <2>3. h * d = d * h /\ (d + 1) * h = d * h + h /\ d * h \in Nat
    <3>1. d \in Nat
      BY <2>2 DEF d
    <3> QED
      BY <1>1, <3>1
  <2> QED
    BY <1>1, <2>1, <2>2, <2>3 DEF d
<1> QED
  BY <1>2, <1>3 DEF all, h

\* What is taken too, as long as enough is left.
LEMMA TakenIs ==
  ASSUME NEW chain \in Seq(Function), NEW k \in 1..Len(chain), NEW rate \in Nat,
         NEW used \in Nat
  PROVE  LET new == Taken(used, chain, k, rate)
             left == used * Hundreds(k) - Part(chain, k, rate)
         IN  /\ new \in Int /\ left \in Int
             /\ left < (new + 1) * Hundreds(k) \/ left < 0
             /\ new > 0 => new * Hundreds(k) <= left
<1> DEFINE h == Hundreds(k)
           left == used * h - Part(chain, k, rate)
<1>1. h \in Nat \ {0} /\ left \in Int
  BY PartTypes
<1>2. Taken(used, chain, k, rate)
        = IF left >= 0 THEN left \div h ELSE -((-left) \div h)
  BY DEF Taken
<1> HIDE DEF left, h
<1>3. CASE left >= 0
  <2> DEFINE d == left \div h
  <2>1. left = h * d + (left % h) /\ left % h \in 0..(h - 1) /\ d \in Nat
    BY <1>1, <1>3
  <2> HIDE DEF d
  <2>2. h * d = d * h /\ (d + 1) * h = d * h + h /\ d * h \in Nat
    BY <1>1, <2>1
  <2>3. d \in Int /\ left < (d + 1) * h /\ d * h <= left
    BY <1>1, <2>1, <2>2
  <2> QED
    BY <1>1, <1>2, <1>3, <2>3 DEF d, left, h
<1>4. CASE ~(left >= 0)
  <2> DEFINE d == (-left) \div h
  <2>1. d \in Nat
    BY <1>1, <1>4
  <2> HIDE DEF d
  <2>2. -d \in Int /\ ~(-d > 0) /\ left < 0
    BY <1>1, <1>4, <2>1
  <2> QED
    BY <1>1, <1>2, <1>4, <2>2 DEF d, left, h
<1> QED
  BY <1>3, <1>4

-----------------------------------------------------------------------------
(***************************************************************************)
(* Maps of instances, and what they are on a node.                         *)
(***************************************************************************)
Instance == [node : Nodes, cap : Nat, used : Nat]
InstanceMaps ==
  {m \in UNION {[D -> Instance] : D \in SUBSET Nat} : IsFiniteSet(DOMAIN m)}

LEMMA MapIs ==
  ASSUME NEW m \in InstanceMaps
  PROVE  /\ DOMAIN m \in SUBSET Nat /\ IsFiniteSet(DOMAIN m)
         /\ \A id \in DOMAIN m : m[id] \in Instance
         /\ m = [id \in DOMAIN m |-> m[id]]
BY DEF InstanceMaps

LEMMA IsMap ==
  ASSUME NEW D \in SUBSET Nat, IsFiniteSet(D), NEW m \in [D -> Instance]
  PROVE  m \in InstanceMaps
BY DEF InstanceMaps

LEMMA WithIs ==
  ASSUME NEW m \in InstanceMaps, NEW id \in Nat, NEW x \in Instance
  PROVE  /\ With(m, id, x) \in InstanceMaps
         /\ DOMAIN With(m, id, x) = DOMAIN m \cup {id}
         /\ With(m, id, x)[id] = x
         /\ \A j \in DOMAIN m : j # id => With(m, id, x)[j] = m[j]
<1>1. /\ DOMAIN m \in SUBSET Nat /\ IsFiniteSet(DOMAIN m)
      /\ \A j \in DOMAIN m : m[j] \in Instance
  BY MapIs
<1>2. DOMAIN m \cup {id} \in SUBSET Nat /\ IsFiniteSet(DOMAIN m \cup {id})
  BY <1>1, FS_AddElement
<1>3. With(m, id, x) \in [DOMAIN m \cup {id} -> Instance]
  BY <1>1 DEF With
<1>4. With(m, id, x) \in InstanceMaps
  BY <1>2, <1>3, IsMap
<1> QED
  BY <1>4 DEF With

LEMMA WithoutIs ==
  ASSUME NEW m \in InstanceMaps, NEW id
  PROVE  /\ Without(m, id) \in InstanceMaps
         /\ DOMAIN Without(m, id) = DOMAIN m \ {id}
         /\ \A j \in DOMAIN m \ {id} : Without(m, id)[j] = m[j]
<1>1. /\ DOMAIN m \in SUBSET Nat /\ IsFiniteSet(DOMAIN m)
      /\ \A j \in DOMAIN m : m[j] \in Instance
  BY MapIs
<1>2. DOMAIN m \ {id} \in SUBSET Nat /\ IsFiniteSet(DOMAIN m \ {id})
  BY <1>1, FS_RemoveElement
<1>3. Without(m, id) \in [DOMAIN m \ {id} -> Instance]
  BY <1>1 DEF Without
<1>4. Without(m, id) \in InstanceMaps
  BY <1>2, <1>3, IsMap
<1> QED
  BY <1>4 DEF Without

LEMMA UsedIs ==
  ASSUME NEW m \in InstanceMaps, NEW id \in DOMAIN m, NEW u \in Nat
  PROVE  /\ [m EXCEPT ![id].used = u] \in InstanceMaps
         /\ DOMAIN [m EXCEPT ![id].used = u] = DOMAIN m
         /\ \A j \in DOMAIN m : /\ [m EXCEPT ![id].used = u][j].node = m[j].node
                                /\ [m EXCEPT ![id].used = u][j].cap = m[j].cap
         /\ [m EXCEPT ![id].used = u][id].used = u
         /\ \A j \in DOMAIN m : j # id => [m EXCEPT ![id].used = u][j] = m[j]
<1> DEFINE new == [m EXCEPT ![id].used = u]
<1>1. /\ DOMAIN m \in SUBSET Nat /\ IsFiniteSet(DOMAIN m)
      /\ \A j \in DOMAIN m : m[j] \in Instance
  BY MapIs
<1>2. \A j \in DOMAIN m :
        new[j] = IF j = id THEN [m[j] EXCEPT !.used = u] ELSE m[j]
  OBVIOUS
<1>3. \A j \in DOMAIN m : [m[j] EXCEPT !.used = u] \in Instance
  BY <1>1 DEF Instance
<1>4. new = [j \in DOMAIN m |-> new[j]]
  OBVIOUS
<1> HIDE DEF new
<1>5. new \in [DOMAIN m -> Instance]
  BY <1>1, <1>2, <1>3, <1>4
<1>6. new \in InstanceMaps /\ DOMAIN new = DOMAIN m
  BY <1>1, <1>5, IsMap
<1>7. \A j \in DOMAIN m : new[j].node = m[j].node /\ new[j].cap = m[j].cap
  BY <1>1, <1>2 DEF Instance
<1>8. new[id].used = u /\ \A j \in DOMAIN m : j # id => new[j] = m[j]
  BY <1>1, <1>2 DEF Instance
<1> QED
  BY <1>6, <1>7, <1>8 DEF new

\* The place of an instance that is new.
LEMMA NewIdIsNew ==
  ASSUME NEW m \in InstanceMaps
  PROVE  /\ NewId(m) \in Nat \ {0} /\ NewId(m) \notin DOMAIN m
         /\ \A id \in DOMAIN m : id < NewId(m)
<1>1. DOMAIN m \in SUBSET Nat /\ IsFiniteSet(DOMAIN m)
  BY MapIs
<1>2. CASE DOMAIN m = {}
  BY <1>2 DEF NewId
<1>3. CASE DOMAIN m # {}
  <2>1. Max(DOMAIN m) \in DOMAIN m /\ \A id \in DOMAIN m : id <= Max(DOMAIN m)
    BY <1>1, <1>3, MaxIs
  <2>2. NewId(m) = Max(DOMAIN m) + 1
    BY <1>3 DEF NewId
  <2> QED
    BY <1>1, <2>1, <2>2
<1> QED
  BY <1>2, <1>3

LEMMA PlacesAre ==
  ASSUME NEW ins
  PROVE  \A p : p \in Places(ins) <=>
           \E r \in DOMAIN ins : \E k \in DOMAIN ins[r] : \E id \in DOMAIN ins[r][k] :
             p = <<r, k, id>>
BY DEF Places

LEMMA PlacesFinite ==
  ASSUME NEW ins, IsFiniteSet(DOMAIN ins),
         \A r \in DOMAIN ins :
           /\ IsFiniteSet(DOMAIN ins[r])
           /\ \A k \in DOMAIN ins[r] : IsFiniteSet(DOMAIN ins[r][k])
  PROVE  IsFiniteSet(Places(ins))
<1> DEFINE Of(r, k) == {r} \X {k} \X DOMAIN ins[r][k]
           All(r) == UNION {Of(r, k) : k \in DOMAIN ins[r]}
<1>1. ASSUME NEW r \in DOMAIN ins, NEW k \in DOMAIN ins[r]
      PROVE  IsFiniteSet(Of(r, k))
  <2> DEFINE D == DOMAIN ins[r][k]
             f == [id \in D |-> <<r, k, id>>]
  <2>1. IsFiniteSet(D)
    OBVIOUS
  <2>2. Of(r, k) = {f[id] : id \in D}
    OBVIOUS
  <2>3. IsFiniteSet({f[id] : id \in D})
    <3> HIDE DEF f, D
    <3> QED
      BY <2>1, ImageFinite
  <2> QED
    BY <2>2, <2>3
<1>2. ASSUME NEW r \in DOMAIN ins
      PROVE  IsFiniteSet(All(r))
  <2> DEFINE g == [k \in DOMAIN ins[r] |-> Of(r, k)]
             T == {g[k] : k \in DOMAIN ins[r]}
  <2>1. T = {Of(r, k) : k \in DOMAIN ins[r]}
    OBVIOUS
  <2>2. \A s \in T : IsFiniteSet(s)
    <3> HIDE DEF Of
    <3> QED
      BY <1>1
  <2>3. IsFiniteSet(T)
    <3> HIDE DEF g
    <3> QED
      BY ImageFinite
  <2> HIDE DEF T, Of
  <2> QED
    BY <2>1, <2>2, <2>3, FS_UNION
<1> DEFINE h == [r \in DOMAIN ins |-> All(r)]
           T == {h[r] : r \in DOMAIN ins}
<1>3. Places(ins) = UNION T
  BY DEF Places
<1>4. \A s \in T : IsFiniteSet(s)
  <2> HIDE DEF All
  <2> QED
    BY <1>2
<1>5. IsFiniteSet(T)
  <2> HIDE DEF h
  <2> QED
    BY ImageFinite
<1> HIDE DEF T, All
<1> QED
  BY <1>3, <1>4, <1>5, FS_UNION

\* The capacity of the instances on a node.
At(ins, p) == ins[p[1]][p[2]][p[3]]
CapOn(ins, n) == [p \in PlacedOn(ins, n) |-> At(ins, p).cap]
NodeLoad(ins, n) == SumFunctionOnSet(CapOn(ins, n), PlacedOn(ins, n))

LEMMA OnNodeIs ==
  ASSUME NEW n
  PROVE  OnNode(n) = NodeLoad(instances, n)
BY DEF OnNode, NodeLoad, SumFunction, CapOn, At

\* Other uses leave it as it is.
LEMMA LoadSame ==
  ASSUME NEW a, NEW b, IsFiniteSet(Places(a)), Places(b) = Places(a),
         \A q \in Places(a) : /\ At(b, q).node = At(a, q).node
                              /\ At(b, q).cap = At(a, q).cap,
         NEW n
  PROVE  NodeLoad(b, n) = NodeLoad(a, n)
<1>1. PlacedOn(b, n) = PlacedOn(a, n) /\ PlacedOn(a, n) \subseteq Places(a)
  BY DEF PlacedOn, At
<1>2. IsFiniteSet(PlacedOn(a, n))
  BY <1>1, FS_Subset
<1>3. \A q \in PlacedOn(a, n) : CapOn(b, n)[q] = CapOn(a, n)[q]
  BY <1>1 DEF CapOn
<1> QED
  BY <1>1, <1>2, <1>3, SumSame DEF NodeLoad

\* One place more.
LEMMA LoadGains ==
  ASSUME NEW a, NEW b, IsFiniteSet(Places(a)), NEW p, p \notin Places(a),
         Places(b) = Places(a) \cup {p},
         \A q \in Places(a) : /\ At(b, q).node = At(a, q).node
                              /\ At(b, q).cap = At(a, q).cap,
         \A q \in Places(b) : At(b, q).cap \in Nat,
         NEW n
  PROVE  /\ NodeLoad(a, n) \in Nat
         /\ NodeLoad(b, n) = NodeLoad(a, n)
                               + IF At(b, p).node = n THEN At(b, p).cap ELSE 0
<1>1. IsFiniteSet(PlacedOn(a, n))
  BY FS_Subset DEF PlacedOn
<1>2. \A q \in PlacedOn(a, n) : CapOn(b, n)[q] = CapOn(a, n)[q] /\ CapOn(a, n)[q] \in Nat
  BY DEF CapOn, PlacedOn, At
<1>3. NodeLoad(a, n) \in Nat
  BY <1>1, <1>2, SumTypes DEF NodeLoad
<1>4. SumFunctionOnSet(CapOn(b, n), PlacedOn(a, n)) = NodeLoad(a, n)
  BY <1>1, <1>2, SumSame DEF NodeLoad
<1>5. CASE At(b, p).node # n
  <2>1. PlacedOn(b, n) = PlacedOn(a, n)
    BY <1>5 DEF PlacedOn, At
  <2> QED
    BY <1>3, <1>4, <1>5, <2>1 DEF NodeLoad
<1>6. CASE At(b, p).node = n
  <2>1. PlacedOn(b, n) = PlacedOn(a, n) \cup {p} /\ p \notin PlacedOn(a, n)
    BY <1>6 DEF PlacedOn, At
  <2>2. CapOn(b, n)[p] = At(b, p).cap /\ At(b, p).cap \in Nat
    BY <2>1 DEF CapOn
  <2>3. \A q \in PlacedOn(a, n) \cup {p} : CapOn(b, n)[q] \in Int
    BY <1>2, <2>2
  <2>4. SumFunctionOnSet(CapOn(b, n), PlacedOn(a, n) \cup {p})
          = CapOn(b, n)[p] + SumFunctionOnSet(CapOn(b, n), PlacedOn(a, n))
    BY <1>1, <2>1, <2>3, SumInsert
  <2> QED
    BY <1>3, <1>4, <1>6, <2>1, <2>2, <2>4 DEF NodeLoad
<1> QED
  BY <1>3, <1>5, <1>6

-----------------------------------------------------------------------------
(***************************************************************************)
(* The instances of all requests, with those of the request at hand.       *)
(***************************************************************************)
LEMMA RequestIs ==
  ASSUME SetupTypeOK, NEW r \in Rs
  PROVE  /\ requests[r].source \in Nodes /\ requests[r].target \in Nodes
         /\ requests[r].source # requests[r].target
         /\ Chain(r) \in Seq(Function) /\ Len(Chain(r)) \in Nat
         /\ FlowIds(r) \subseteq Nat \ {0} /\ IsFiniteSet(FlowIds(r))
         /\ \A i \in FlowIds(r) :
              /\ Flow(r, i).rate \in Nat /\ Flow(r, i).start \in Nat
              /\ Flow(r, i).end \in Nat /\ Flow(r, i).start < Flow(r, i).end
<1>1. requests \in Seq(RequestType)
  BY DEF SetupTypeOK
<1>2. requests[r] \in RequestType
  <2>1. r \in 1..Len(requests)
    BY <1>1, LenProperties DEF Rs
  <2> QED
    BY <1>1, <2>1, ElementOfSeq
<1>3. /\ requests[r].source \in Nodes /\ requests[r].target \in Nodes
      /\ requests[r].source # requests[r].target
      /\ requests[r].chain \in Seq(Function) /\ requests[r].flows \in Seq(FlowType)
  BY <1>2 DEF RequestType, Rows
<1>4. Len(requests[r].chain) \in Nat /\ Len(requests[r].flows) \in Nat
  BY <1>3, LenProperties
<1>5. \A i \in 1..Len(requests[r].flows) : requests[r].flows[i] \in FlowType
  BY <1>3, ElementOfSeq
<1>6. IsFiniteSet(1..Len(requests[r].flows))
  BY <1>4, FS_Interval
<1> QED
  BY <1>3, <1>4, <1>5, <1>6 DEF Chain, FlowIds, Flow, FlowType

LEMMA RsFinite ==
  ASSUME SetupTypeOK
  PROVE  Rs = 1..Len(requests) /\ Len(requests) \in Nat /\ IsFiniteSet(Rs)
<1>1. Rs = 1..Len(requests) /\ Len(requests) \in Nat
  BY LenProperties DEF SetupTypeOK, Rs
<1> QED
  BY <1>1, FS_Interval

Maps(r) == [1..Len(Chain(r)) -> InstanceMaps]
AllMaps(ins) == DOMAIN ins = Rs /\ \A r \in Rs : ins[r] \in Maps(r)

LEMMA MapsFinite ==
  ASSUME SetupTypeOK, NEW ins, AllMaps(ins)
  PROVE  IsFiniteSet(Places(ins))
<1>1. \A r \in Rs : DOMAIN ins[r] = 1..Len(Chain(r)) /\ IsFiniteSet(1..Len(Chain(r)))
  BY RequestIs, FS_Interval DEF AllMaps, Maps
<1>2. \A r \in Rs : \A k \in 1..Len(Chain(r)) : IsFiniteSet(DOMAIN ins[r][k])
  BY MapIs DEF AllMaps, Maps
<1> QED
  BY <1>1, <1>2, RsFinite, PlacesFinite DEF AllMaps

LEMMA AtIs ==
  ASSUME NEW ins, AllMaps(ins), NEW q \in Places(ins)
  PROVE  At(ins, q) \in Instance
<1>1. PICK r \in DOMAIN ins : \E k \in DOMAIN ins[r] : \E id \in DOMAIN ins[r][k] :
        q = <<r, k, id>>
  BY PlacesAre
<1>2. PICK k \in DOMAIN ins[r] : \E id \in DOMAIN ins[r][k] : q = <<r, k, id>>
  BY <1>1
<1>3. PICK id \in DOMAIN ins[r][k] : q = <<r, k, id>>
  BY <1>2
<1>4. ins[r][k] \in InstanceMaps
  BY DEF AllMaps, Maps
<1> QED
  BY <1>3, <1>4, MapIs DEF At

LEMMA LoadNat ==
  ASSUME SetupTypeOK, NEW ins, AllMaps(ins), NEW n
  PROVE  NodeLoad(ins, n) \in Nat
<1>1. IsFiniteSet(PlacedOn(ins, n))
  BY MapsFinite, FS_Subset DEF PlacedOn
<1>2. \A q \in PlacedOn(ins, n) : CapOn(ins, n)[q] \in Nat
  BY AtIs DEF CapOn, PlacedOn, Instance
<1> QED
  BY <1>1, <1>2, SumTypes DEF NodeLoad

\* The instances with m for the request at hand.
Whole(m) == [instances EXCEPT ![cur] = m]

\* What the next lemmas start from.
Known == SetupTypeOK /\ AllMaps(instances) /\ cur \in Rs

LEMMA WholeIs ==
  ASSUME Known, NEW m \in Maps(cur)
  PROVE  /\ AllMaps(Whole(m))
         /\ Whole(m)[cur] = m
         /\ \A r \in Rs : r # cur => Whole(m)[r] = instances[r]
         /\ \A p : p \in Places(Whole(m)) <=>
              \/ \E k \in 1..Len(Chain(cur)) : \E id \in DOMAIN m[k] : p = <<cur, k, id>>
              \/ /\ p \in Places(instances)
                 /\ \A k, id : p # <<cur, k, id>>
<1>1. /\ DOMAIN Whole(m) = Rs /\ Whole(m)[cur] = m /\ DOMAIN m = 1..Len(Chain(cur))
      /\ \A r \in Rs : r # cur => Whole(m)[r] = instances[r]
  BY DEF Known, AllMaps, Whole, Maps
<1>2. AllMaps(Whole(m))
  BY <1>1 DEF Known, AllMaps
<1>3. DOMAIN instances = Rs /\ cur \in Rs
  BY DEF Known, AllMaps
<1>4. ASSUME NEW p, p \in Places(Whole(m))
      PROVE  \/ \E k \in 1..Len(Chain(cur)) : \E id \in DOMAIN m[k] : p = <<cur, k, id>>
             \/ p \in Places(instances) /\ \A k, id : p # <<cur, k, id>>
  <2>1. PICK r \in Rs : \E k \in DOMAIN Whole(m)[r] : \E id \in DOMAIN Whole(m)[r][k] :
          p = <<r, k, id>>
    BY <1>1, <1>4, PlacesAre
  <2>2. CASE r = cur
    BY <1>1, <2>1, <2>2
  <2>3. CASE r # cur
    <3>1. p \in Places(instances)
      BY <1>1, <1>3, <2>1, <2>3, PlacesAre
    <3> QED
      BY <2>1, <2>3, <3>1
  <2> QED
    BY <2>2, <2>3
<1>5. ASSUME NEW k \in 1..Len(Chain(cur)), NEW id \in DOMAIN m[k]
      PROVE  <<cur, k, id>> \in Places(Whole(m))
  BY <1>1, <1>3, PlacesAre
<1>6. ASSUME NEW p \in Places(instances), \A k, id : p # <<cur, k, id>>
      PROVE  p \in Places(Whole(m))
  <2>1. PICK r \in Rs : \E k \in DOMAIN instances[r] : \E id \in DOMAIN instances[r][k] :
          p = <<r, k, id>>
    BY <1>3, PlacesAre
  <2>2. r # cur
    BY <1>6, <2>1
  <2> QED
    BY <1>1, <2>1, <2>2, PlacesAre
<1> QED
  BY <1>1, <1>2, <1>4, <1>5, <1>6

\* All functions of the request at hand but one have the same instances.
SameBut(m, new, k) == \A j \in 1..Len(Chain(cur)) : j # k => new[j] = m[j]

LEMMA PutIs ==
  ASSUME NEW m \in Maps(cur), NEW k \in 1..Len(Chain(cur)), NEW map \in InstanceMaps
  PROVE  /\ [m EXCEPT ![k] = map] \in Maps(cur)
         /\ [m EXCEPT ![k] = map][k] = map
         /\ SameBut(m, [m EXCEPT ![k] = map], k) /\ SameBut([m EXCEPT ![k] = map], m, k)
BY DEF Maps, SameBut

\* An instance more for a function of the request at hand.
LEMMA MoreLoad ==
  ASSUME Known, NEW m \in Maps(cur), NEW new \in Maps(cur), NEW k \in 1..Len(Chain(cur)),
         SameBut(m, new, k), NEW id, id \notin DOMAIN m[k],
         DOMAIN new[k] = DOMAIN m[k] \cup {id},
         \A j \in DOMAIN m[k] : /\ new[k][j].node = m[k][j].node
                                /\ new[k][j].cap = m[k][j].cap,
         NEW n
  PROVE  /\ NodeLoad(Whole(m), n) \in Nat
         /\ NodeLoad(Whole(new), n)
              = NodeLoad(Whole(m), n)
                  + IF new[k][id].node = n THEN new[k][id].cap ELSE 0
<1> DEFINE a == Whole(m)
           b == Whole(new)
           p == <<cur, k, id>>
<1>1. \A j \in 1..Len(Chain(cur)) : j # k => new[j] = m[j]
  BY DEF SameBut
<1>2. /\ AllMaps(a) /\ a[cur] = m /\ AllMaps(b) /\ b[cur] = new
      /\ \A r \in Rs : r # cur => a[r] = b[r]
      /\ DOMAIN m = 1..Len(Chain(cur))
  BY WholeIs DEF Maps
<1>3. Places(b) = Places(a) \cup {p} /\ p \notin Places(a)
  <2>1. ASSUME NEW q, q \in Places(b)
        PROVE  q \in Places(a) \cup {p}
    BY <1>1, <2>1, WholeIs
  <2>2. ASSUME NEW q, q \in Places(a) \cup {p}
        PROVE  q \in Places(b)
    BY <1>1, <2>2, WholeIs
  <2>3. p \notin Places(a)
    BY WholeIs
  <2> QED
    BY <2>1, <2>2, <2>3
<1>4. At(b, p) = new[k][id]
  BY <1>2 DEF At
<1>5. ASSUME NEW q \in Places(a)
      PROVE  At(b, q).node = At(a, q).node /\ At(b, q).cap = At(a, q).cap
  <2>1. PICK r \in Rs : \E j \in DOMAIN a[r] : \E i \in DOMAIN a[r][j] : q = <<r, j, i>>
    BY <1>2, PlacesAre DEF AllMaps
  <2>2. CASE r # cur
    BY <1>2, <2>1, <2>2 DEF At
  <2>3. CASE r = cur
    BY <1>1, <1>2, <2>1, <2>3 DEF At
  <2> QED
    BY <2>2, <2>3
<1>6. IsFiniteSet(Places(a)) /\ \A q \in Places(b) : At(b, q).cap \in Nat
  BY <1>2, MapsFinite, AtIs DEF Known, Instance
<1> HIDE DEF a, b, p
<1>7. /\ NodeLoad(a, n) \in Nat
      /\ NodeLoad(b, n) = NodeLoad(a, n) + IF At(b, p).node = n THEN At(b, p).cap ELSE 0
  BY <1>3, <1>5, <1>6, LoadGains
<1> QED
  BY <1>4, <1>7 DEF a, b

\* The same instances, with other uses.
LEMMA SameLoad ==
  ASSUME Known, NEW m \in Maps(cur), NEW new \in Maps(cur), NEW k \in 1..Len(Chain(cur)),
         SameBut(m, new, k), DOMAIN new[k] = DOMAIN m[k],
         \A j \in DOMAIN m[k] : /\ new[k][j].node = m[k][j].node
                                /\ new[k][j].cap = m[k][j].cap,
         NEW n
  PROVE  NodeLoad(Whole(new), n) = NodeLoad(Whole(m), n)
<1> DEFINE a == Whole(m)
           b == Whole(new)
<1>1. \A j \in 1..Len(Chain(cur)) : j # k => new[j] = m[j]
  BY DEF SameBut
<1>2. /\ AllMaps(a) /\ a[cur] = m /\ AllMaps(b) /\ b[cur] = new
      /\ \A r \in Rs : r # cur => a[r] = b[r]
      /\ DOMAIN m = 1..Len(Chain(cur))
  BY WholeIs DEF Maps
<1>3. \A q : q \in Places(b) <=> q \in Places(a)
  BY <1>1, WholeIs
<1>4. ASSUME NEW q \in Places(a)
      PROVE  At(b, q).node = At(a, q).node /\ At(b, q).cap = At(a, q).cap
  <2>1. PICK r \in Rs : \E j \in DOMAIN a[r] : \E i \in DOMAIN a[r][j] : q = <<r, j, i>>
    BY <1>2, PlacesAre DEF AllMaps
  <2>2. CASE r # cur
    BY <1>2, <2>1, <2>2 DEF At
  <2>3. CASE r = cur
    BY <1>1, <1>2, <2>1, <2>3 DEF At
  <2> QED
    BY <2>2, <2>3
<1>5. IsFiniteSet(Places(a)) /\ Places(b) = Places(a)
  BY <1>2, <1>3, MapsFinite DEF Known
<1> HIDE DEF a, b
<1>6. NodeLoad(b, n) = NodeLoad(a, n)
  BY <1>4, <1>5, LoadSame
<1> QED
  BY <1>6 DEF a, b

-----------------------------------------------------------------------------
(***************************************************************************)
(* Flows that are deployed, and what those that hold it take of a link.    *)
(***************************************************************************)
Deployed(r) == [hosts : [1..Len(Chain(r)) -> Nat], path : Seq(Nodes)]
FlowMaps(r) == UNION {[D -> Deployed(r)] : D \in SUBSET FlowIds(r)}
AllFlows(dep) == DOMAIN dep = Rs /\ \A r \in Rs : dep[r] \in FlowMaps(r)

LEMMA FlowMapIs ==
  ASSUME NEW r, NEW m \in FlowMaps(r)
  PROVE  /\ DOMAIN m \in SUBSET FlowIds(r)
         /\ \A i \in DOMAIN m : m[i] \in Deployed(r) /\ m[i].path \in Seq(Nodes)
BY DEF FlowMaps, Deployed

\* Places of flows: request and id.
FlowPlaces(dep, H) == \A h \in H : h[1] \in Rs /\ h[2] \in DOMAIN dep[h[1]] /\ h = <<h[1], h[2]>>
BwOf(dep, h, e) == Flow(h[1], h[2]).rate * Times(dep[h[1]][h[2]].path, e)
BwsOf(dep, H, e) == [h \in H |-> BwOf(dep, h, e)]
LinkLoad(dep, H, e) == SumFunctionOnSet(BwsOf(dep, H, e), H)

LEMMA OnLinkIs ==
  ASSUME NEW e
  PROVE  OnLink(e) = LinkLoad(deployed, Held, e)
BY DEF OnLink, LinkLoad, SumFunction, BwsOf, BwOf

LEMMA BwNat ==
  ASSUME SetupTypeOK, NEW dep, AllFlows(dep), NEW H, FlowPlaces(dep, H), NEW h \in H, NEW e
  PROVE  BwOf(dep, h, e) \in Nat
<1>1. h[1] \in Rs /\ h[2] \in DOMAIN dep[h[1]] /\ dep[h[1]] \in FlowMaps(h[1])
  BY DEF FlowPlaces, AllFlows
<1>2. h[2] \in FlowIds(h[1]) /\ dep[h[1]][h[2]].path \in Seq(Nodes)
  BY <1>1, FlowMapIs
<1> DEFINE rate == Flow(h[1], h[2]).rate
           times == Times(dep[h[1]][h[2]].path, e)
<1>3. rate \in Nat
  BY <1>1, <1>2, RequestIs
<1>4. times \in Nat
  BY <1>2, TimesType
<1>5. BwOf(dep, h, e) = rate * times
  BY DEF BwOf
<1> HIDE DEF rate, times
<1> QED
  BY <1>3, <1>4, <1>5

LEMMA LinkLoadNat ==
  ASSUME SetupTypeOK, NEW dep, AllFlows(dep), NEW H, IsFiniteSet(H), FlowPlaces(dep, H),
         NEW e
  PROVE  LinkLoad(dep, H, e) \in Nat
<1>1. \A h \in H : BwsOf(dep, H, e)[h] \in Nat
  BY BwNat DEF BwsOf
<1> QED
  BY <1>1, SumTypes DEF LinkLoad

SamePaths(a, b, H) == \A h \in H : a[h[1]][h[2]].path = b[h[1]][h[2]].path

LEMMA LinkLoadSame ==
  ASSUME NEW a, NEW b, NEW H, IsFiniteSet(H), SamePaths(a, b, H), NEW e
  PROVE  LinkLoad(a, H, e) = LinkLoad(b, H, e)
<1>1. \A h \in H : BwsOf(a, H, e)[h] = BwsOf(b, H, e)[h]
  BY DEF BwsOf, BwOf, SamePaths
<1> QED
  BY <1>1, SumSame DEF LinkLoad

LEMMA LinkLoadGains ==
  ASSUME SetupTypeOK, NEW dep, AllFlows(dep), NEW H, IsFiniteSet(H), NEW h, h \notin H,
         FlowPlaces(dep, H \cup {h}), NEW e
  PROVE  /\ LinkLoad(dep, H, e) \in Nat /\ BwOf(dep, h, e) \in Nat
         /\ LinkLoad(dep, H \cup {h}, e) = LinkLoad(dep, H, e) + BwOf(dep, h, e)
<1> DEFINE f == BwsOf(dep, H \cup {h}, e)
<1>1. \A x \in H \cup {h} : f[x] \in Nat
  BY BwNat DEF BwsOf
<1>2. f[h] = BwOf(dep, h, e) /\ \A x \in H : f[x] = BwsOf(dep, H, e)[x]
  BY DEF BwsOf
<1> HIDE DEF f
<1>3. SumFunctionOnSet(f, H \cup {h}) = f[h] + SumFunctionOnSet(f, H)
  BY <1>1, SumInsert
<1>4. SumFunctionOnSet(f, H) = SumFunctionOnSet(BwsOf(dep, H, e), H)
  BY <1>2, SumSame
<1>5. SumFunctionOnSet(f, H) \in Nat
  BY <1>1, SumTypes
<1> QED
  BY <1>1, <1>2, <1>3, <1>4, <1>5 DEF LinkLoad, f

-----------------------------------------------------------------------------
(***************************************************************************)
(* While main is at work on a request: what is deployed, with the flows    *)
(* that were steered, and who holds what.                                  *)
(***************************************************************************)
MidDeployed == [deployed EXCEPT ![cur] = Modified(deployed[cur])]
MidIds ==
  {i \in DOMAIN deployed[cur] : Flow(cur, i).end > time \/ i \in toRelease}
    \cup DOMAIN steered
Others == UNION {{r} \X Holding(r) : r \in Rs \ {cur}}
MidHeld == Others \cup ({cur} \X MidIds)

\* The books of nodes and links.
NodeBooks(g, ins) ==
  \A n \in Nodes : g.node[n] + NodeLoad(ins, n) = cfg.processing_cap
LinkBooks(g, dep, H) ==
  \A e \in Links : g.link[e] + LinkLoad(dep, H, e) = LinkBw(e)

GraphType == [node : [Nodes -> Nat], link : [Links -> Nat]]

\* What a graph may have free.
Within(g) ==
  /\ g \in GraphType
  /\ \A n \in Nodes : g.node[n] <= cfg.processing_cap
  /\ \A e \in Links : g.link[e] <= LinkBw(e)

FlowsKnown == SetupTypeOK /\ AllFlows(deployed) /\ DOMAIN saved = Rs

LEMMA HoldersFinite ==
  ASSUME FlowsKnown, NEW R \in SUBSET Rs
  PROVE  /\ IsFiniteSet(UNION {{r} \X Holding(r) : r \in R})
         /\ FlowPlaces(deployed, UNION {{r} \X Holding(r) : r \in R})
<1>1. \A r \in Rs : Holding(r) \subseteq DOMAIN deployed[r] /\ IsFiniteSet(Holding(r))
  <2> TAKE r \in Rs
  <2>1. Holding(r) \subseteq DOMAIN deployed[r]
    BY DEF Holding
  <2>2. DOMAIN deployed[r] \subseteq FlowIds(r)
    BY FlowMapIs DEF FlowsKnown, AllFlows
  <2> QED
    BY <2>1, <2>2, RequestIs, FS_Subset DEF FlowsKnown
<1> DEFINE f == [r \in R |-> {r} \X Holding(r)]
           T == {f[r] : r \in R}
<1>2. IsFiniteSet(R)
  BY RsFinite, FS_Subset DEF FlowsKnown
<1>3. T = {{r} \X Holding(r) : r \in R}
  OBVIOUS
<1>4. IsFiniteSet(T)
  <2> HIDE DEF f
  <2> QED
    BY <1>2, ImageFinite
<1>5. \A s \in T : IsFiniteSet(s)
  <2> SUFFICES ASSUME NEW r \in R
               PROVE  IsFiniteSet({r} \X Holding(r))
    BY <1>3
  <2> QED
    BY <1>1, FS_Product, FS_Singleton
<1> HIDE DEF T
<1>6. IsFiniteSet(UNION T)
  BY <1>4, <1>5, FS_UNION
<1>7. FlowPlaces(deployed, UNION T)
  BY <1>1, <1>3 DEF FlowPlaces
<1> QED
  BY <1>3, <1>6, <1>7

LEMMA NodeAdds ==
  ASSUME NEW g \in GraphType, NEW n \in Nodes, NEW c \in Nat
  PROVE  /\ ReleaseNodeCap(g, n, c) \in GraphType
         /\ ReleaseNodeCap(g, n, c).link = g.link
         /\ \A x \in Nodes : ReleaseNodeCap(g, n, c).node[x]
                               = g.node[x] + IF n = x THEN c ELSE 0
<1>1. g.node \in [Nodes -> Nat] /\ g.link \in [Links -> Nat]
  BY DEF GraphType
<1>2. ReleaseNodeCap(g, n, c) = [g EXCEPT !.node = [g.node EXCEPT ![n] = g.node[n] + c]]
  BY DEF ReleaseNodeCap
<1>3. g.node[n] + c \in Nat
  BY <1>1
<1> QED
  BY <1>1, <1>2, <1>3 DEF GraphType

LEMMA NodeSubtracts ==
  ASSUME NEW g \in GraphType, NEW n \in Nodes, NEW c \in Nat, c <= g.node[n]
  PROVE  /\ MinusNodeCap(g, n, c) \in GraphType
         /\ MinusNodeCap(g, n, c).link = g.link
         /\ \A x \in Nodes : MinusNodeCap(g, n, c).node[x]
                               = g.node[x] - IF n = x THEN c ELSE 0
<1>1. g.node \in [Nodes -> Nat] /\ g.link \in [Links -> Nat]
  BY DEF GraphType
<1>2. MinusNodeCap(g, n, c) = [g EXCEPT !.node = [g.node EXCEPT ![n] = g.node[n] - c]]
  BY DEF MinusNodeCap
<1>3. g.node[n] - c \in Nat
  BY <1>1
<1> QED
  BY <1>1, <1>2, <1>3 DEF GraphType

-----------------------------------------------------------------------------
(***************************************************************************)
(* Release: what becomes of the instances of a flow.                       *)
(***************************************************************************)
Left(i, k) ==
  Taken(mInstances[k][deployed[cur][i].hosts[k]].used, Chain(cur), k, Flow(cur, i).rate)
ReleasedMap(i, k) ==
  LET id == deployed[cur][i].hosts[k]
  IN  IF Left(i, k) < Threshold THEN Without(mInstances[k], id)
                                ELSE [mInstances[k] EXCEPT ![id].used = Left(i, k)]

ReleaseType == [g : GraphType, ins : Maps(cur)]

Releases(i) ==
  /\ Known /\ FlowsKnown
  /\ i \in DOMAIN deployed[cur] /\ InstancesThere(cur, i)
  /\ mGraph \in GraphType /\ mInstances \in Maps(cur)
  /\ NodeBooks(mGraph, Whole(mInstances))

LEMMA HostOf ==
  ASSUME NEW i, Releases(i), NEW k \in 1..Len(Chain(cur))
  PROVE  /\ deployed[cur][i].hosts[k] \in DOMAIN mInstances[k]
         /\ mInstances[k] \in InstanceMaps
         /\ mInstances[k][deployed[cur][i].hosts[k]] \in Instance
         /\ Left(i, k) \in Int
<1>1. deployed[cur][i].hosts[k] \in DOMAIN mInstances[k]
  BY DEF Releases, InstancesThere
<1>2. mInstances[k] \in InstanceMaps
  BY DEF Releases, Maps
<1> DEFINE sf == mInstances[k][deployed[cur][i].hosts[k]]
<1>3. sf \in Instance
  BY <1>1, <1>2, MapIs
<1>4. Flow(cur, i).rate \in Nat /\ Chain(cur) \in Seq(Function)
  BY RequestIs, FlowMapIs DEF Releases, Known, FlowsKnown, AllFlows
<1>5. sf.used \in Nat
  BY <1>3 DEF Instance
<1> HIDE DEF sf
<1>6. Taken(sf.used, Chain(cur), k, Flow(cur, i).rate) \in Int
  BY <1>4, <1>5, TakenIs
<1> QED
  BY <1>1, <1>2, <1>3, <1>6 DEF sf, Left

LEMMA ReleaseStep ==
  ASSUME NEW i, Releases(i), NEW k \in 1..Len(Chain(cur)), NEW st \in ReleaseType,
         st.ins[k] = mInstances[k], NodeBooks(st.g, Whole(st.ins))
  PROVE  LET new == ReleaseFlowInstance(st, cur, i, k)
         IN  /\ new \in ReleaseType /\ new.g.link = st.g.link
             /\ new.ins = [st.ins EXCEPT ![k] = ReleasedMap(i, k)]
             /\ NodeBooks(new.g, Whole(new.ins))
<1> DEFINE id == deployed[cur][i].hosts[k]
           sf == mInstances[k][id]
           new == ReleaseFlowInstance(st, cur, i, k)
<1>1. /\ id \in DOMAIN st.ins[k] /\ st.ins[k] \in InstanceMaps /\ sf \in Instance
      /\ Left(i, k) \in Int
  BY HostOf
<1>2. /\ st.g \in GraphType /\ st.ins \in Maps(cur) /\ Known
      /\ st = [g |-> st.g, ins |-> st.ins]
  BY DEF ReleaseType, Releases
<1>3. new = IF Left(i, k) < Threshold THEN GiveUp(st, k, id)
                                      ELSE WithUse(st, k, id, Left(i, k))
  BY DEF ReleaseFlowInstance, Left
<1>5. CASE Left(i, k) < Threshold
  <2> DEFINE g == ReleaseNodeCap(st.g, sf.node, sf.cap)
             map == Without(st.ins[k], id)
             m == st.ins
             ins == [m EXCEPT ![k] = map]
  <2>1. new = [g |-> g, ins |-> ins] /\ map = ReleasedMap(i, k)
    BY <1>3, <1>5 DEF GiveUp, ReleasedMap
  <2>2. sf.node \in Nodes /\ sf.cap \in Nat
    BY <1>1 DEF Instance
  <2>3. /\ g \in GraphType /\ g.link = st.g.link
        /\ \A n \in Nodes : g.node[n] = st.g.node[n] + IF sf.node = n THEN sf.cap ELSE 0
    <3> HIDE DEF sf
    <3> QED
      BY <1>2, <2>2, NodeAdds
  <2>4. /\ map \in InstanceMaps /\ id \notin DOMAIN map
        /\ DOMAIN m[k] = DOMAIN map \cup {id}
        /\ \A j \in DOMAIN map : m[k][j] = map[j]
        /\ m[k][id] = sf
    BY <1>1, WithoutIs
  <2> HIDE DEF g, map, id, sf
  <2>5. /\ m \in Maps(cur) /\ ins \in Maps(cur) /\ ins[k] = map
        /\ SameBut(ins, m, k)
    BY <1>2, <2>4, PutIs
  <2> HIDE DEF ins, m
  <2>6. ASSUME NEW n \in Nodes
        PROVE  /\ NodeLoad(Whole(ins), n) \in Nat
               /\ NodeLoad(Whole(m), n)
                    = NodeLoad(Whole(ins), n) + IF sf.node = n THEN sf.cap ELSE 0
    BY <1>2, <2>4, <2>5, MoreLoad
  <2>7. ASSUME NEW n \in Nodes
        PROVE  g.node[n] + NodeLoad(Whole(ins), n) = cfg.processing_cap
    <3>1. st.g.node[n] + NodeLoad(Whole(m), n) = cfg.processing_cap
      BY DEF NodeBooks, m
    <3>2. st.g.node[n] \in Nat
      BY <1>2 DEF GraphType
    <3> DEFINE d == IF sf.node = n THEN sf.cap ELSE 0
    <3>3. /\ d \in Nat /\ g.node[n] = st.g.node[n] + d
          /\ NodeLoad(Whole(m), n) = NodeLoad(Whole(ins), n) + d
          /\ NodeLoad(Whole(ins), n) \in Nat
      BY <2>2, <2>3, <2>6
    <3> HIDE DEF d
    <3> QED
      BY <3>1, <3>2, <3>3
  <2>8. NodeBooks(g, Whole(ins))
    BY <2>7 DEF NodeBooks
  <2> HIDE DEF new
  <2>9. /\ new \in ReleaseType /\ new.g.link = st.g.link
        /\ new.ins = [st.ins EXCEPT ![k] = ReleasedMap(i, k)]
    BY <2>1, <2>3, <2>5 DEF ReleaseType, ins, m
  <2> QED
    BY <2>1, <2>8, <2>9 DEF new
<1>6. CASE ~(Left(i, k) < Threshold)
  <2> DEFINE u == Left(i, k)
             map == [st.ins[k] EXCEPT ![id].used = u]
             m == st.ins
             ins == [m EXCEPT ![k] = map]
  <2>1. u \in Nat
    BY <1>1, <1>6 DEF Threshold
  <2>2. new = [g |-> st.g, ins |-> ins] /\ map = ReleasedMap(i, k)
    <3>1. new = [st EXCEPT !.ins = ins]
      BY <1>3, <1>6 DEF WithUse
    <3>2. map = ReleasedMap(i, k)
      BY <1>6 DEF ReleasedMap
    <3> HIDE DEF ins, map, new
    <3> QED
      BY <1>2, <3>1, <3>2
  <2>3. /\ map \in InstanceMaps /\ DOMAIN map = DOMAIN m[k]
        /\ \A j \in DOMAIN m[k] : map[j].node = m[k][j].node /\ map[j].cap = m[k][j].cap
    <3> HIDE DEF u, id
    <3> QED
      BY <1>1, <2>1, UsedIs
  <2> HIDE DEF map
  <2>4. /\ m \in Maps(cur) /\ ins \in Maps(cur) /\ ins[k] = map
        /\ SameBut(m, ins, k)
    BY <1>2, <2>3, PutIs
  <2> HIDE DEF ins, m, new, u, id
  <2>5. \A n \in Nodes : NodeLoad(Whole(ins), n) = NodeLoad(Whole(m), n)
    BY <1>2, <2>3, <2>4, SameLoad
  <2>6. NodeBooks(st.g, Whole(ins))
    BY <2>5 DEF NodeBooks, m
  <2>7. /\ new \in ReleaseType /\ new.g.link = st.g.link
        /\ new.ins = [st.ins EXCEPT ![k] = ReleasedMap(i, k)]
    BY <1>2, <2>2, <2>4 DEF ReleaseType, ins, m
  <2> QED
    BY <2>2, <2>6, <2>7 DEF new
<1> QED
  BY <1>5, <1>6

\* What release_flow makes of the instances, function by function.
LEMMA ReleaseChainIs ==
  ASSUME NEW i, Releases(i)
  PROVE  LET st == ReleaseChain(i)
         IN  /\ st \in ReleaseType /\ st.g.link = mGraph.link
             /\ \A k \in 1..Len(Chain(cur)) : st.ins[k] = ReleasedMap(i, k)
             /\ NodeBooks(st.g, Whole(st.ins))
<1> DEFINE n == Len(Chain(cur))
           first == [g |-> mGraph, ins |-> mInstances]
           Step(st, k) == ReleaseFlowInstance(st, cur, i, k)
           Ok(st, k) == /\ st.g.link = mGraph.link
                        /\ \A j \in 1..n : st.ins[j] = IF j <= k THEN ReleasedMap(i, j)
                                                                 ELSE mInstances[j]
                        /\ NodeBooks(st.g, Whole(st.ins))
           S == [k \in 0..n |-> {st \in ReleaseType : Ok(st, k)}]
           Is(f) == f = [k \in 0..n |-> IF k = 0 THEN first ELSE Step(f[k - 1], k)]
           step == [k \in 1..n |-> [st \in S[k - 1] |-> Step(st, k)]]
           g == CHOOSE f : Is(f)
<1>1. n \in Nat
  BY RequestIs DEF Releases, Known
<1>2. first \in S[0]
  <2>1. first \in ReleaseType
    BY DEF Releases, ReleaseType
  <2>2. Ok(first, 0)
    BY DEF Releases
  <2> HIDE DEF first, Ok
  <2> QED
    BY <1>1, <2>1, <2>2
<1>3. ASSUME NEW k \in 1..n, NEW st \in S[k - 1]
      PROVE  Step(st, k) \in S[k]
  <2>1. k - 1 \in 0..n /\ k \in 0..n
    BY <1>1
  <2>2. st \in ReleaseType /\ Ok(st, k - 1)
    BY <2>1
  <2> DEFINE new == Step(st, k)
  <2>3. st.ins[k] = mInstances[k]
    BY <2>1, <2>2
  <2>4. /\ new \in ReleaseType /\ new.g.link = st.g.link
        /\ new.ins = [st.ins EXCEPT ![k] = ReleasedMap(i, k)]
        /\ NodeBooks(new.g, Whole(new.ins))
    BY <2>2, <2>3, ReleaseStep
  <2> HIDE DEF new
  <2>5. st.ins \in Maps(cur) /\ DOMAIN st.ins = 1..n
    BY <2>2 DEF ReleaseType, Maps
  <2>6. Ok(new, k)
    <3>1. \A j \in 1..n : new.ins[j] = IF j = k THEN ReleasedMap(i, j) ELSE st.ins[j]
      BY <2>4, <2>5
    <3>2. \A j \in 1..n : j # k => (j <= k <=> j <= k - 1)
      BY <2>1
    <3>3. \A j \in 1..n : new.ins[j] = IF j <= k THEN ReleasedMap(i, j) ELSE mInstances[j]
      BY <2>2, <3>1, <3>2
    <3> QED
      BY <2>2, <2>4, <3>3
  <2> HIDE DEF Ok
  <2> QED
    BY <2>1, <2>4, <2>6 DEF new
<1> HIDE DEF Step, first, Ok
<1>4. \E f : Is(f) /\ \A k \in 0..n : f[k] \in S[k]
  <2>1. \A k \in 1..n : \A st \in S[k - 1] : step[k][st] \in S[k] /\ step[k][st] = Step(st, k)
    <3> HIDE DEF S
    <3> QED
      BY <1>3
  <2> HIDE DEF step, S, n
  <2>2. PICK f : Unrolls(f, n, first, step) /\ \A k \in 0..n : f[k] \in S[k]
    BY <1>1, <1>2, <2>1, StepsExist
  <2>3. \A k \in 1..n : step[k][f[k - 1]] = Step(f[k - 1], k)
    <3>1. \A k \in 1..n : f[k - 1] \in S[k - 1]
      BY <1>1, <2>2
    <3> QED
      BY <2>1, <3>1
  <2>4. Is(f)
    BY <1>1, <2>2, <2>3 DEF Unrolls
  <2> QED
    BY <2>2, <2>4
<1>5. ReleaseChain(i) = g[n]
  BY DEF ReleaseChain, Step, first
<1>6. Is(g)
  <2> HIDE DEF Is, S
  <2> QED
    BY <1>4
<1> HIDE DEF g
<1>7. \A k \in 0..n : g[k] \in S[k]
  <2>1. g[0] \in S[0]
    BY <1>1, <1>2, <1>6
  <2>2. \A k \in 1..n : g[k] = Step(g[k - 1], k)
    BY <1>1, <1>6
  <2> HIDE DEF S, Is, n
  <2>3. \A k \in 1..n : g[k - 1] \in S[k - 1] => g[k] \in S[k]
    BY <1>3, <2>2
  <2> QED
    BY <1>1, <2>1, <2>3, StepsKeep
<1>8. ReleaseChain(i) \in ReleaseType /\ Ok(ReleaseChain(i), n)
  <2> HIDE DEF Is
  <2> QED
    BY <1>1, <1>5, <1>7
<1> QED
  BY <1>1, <1>8 DEF Ok

-----------------------------------------------------------------------------
(***************************************************************************)
(* The invariant.                                                          *)
(***************************************************************************)
Pcs == {"setup", "call", "release", "place", "steer", "save", "undefined"}

\* From check_flows to the end of main.
Busy == {"release", "place", "steer", "save"}

\* Where the caller is.
Callers ==
  /\ pc \in Pcs /\ time \in 0..LastSlot /\ offline \in BOOLEAN
  /\ cur \in Nat \ {0} /\ cur <= Len(requests) + 1
  /\ pc = "setup" => cur = 1 /\ time = 0
  /\ pc \notin {"setup", "call"} => cur \in Rs
  /\ pc # "setup" => phase = "loaded"
  /\ offline => time = 0

\* What save has written of a request, and when: of one that has not failed in
\* this slot or in the one before.
History(r) ==
  /\ saved[r] \in Int /\ saved[r] <= time
  /\ offline /\ r >= cur => deployed[r] = <<>>
  /\ ~offline /\ succ[r] => saved[r] = IF r < cur THEN time ELSE time - 1
  /\ ~offline => \A i \in DOMAIN deployed[r] : Flow(r, i).start <= saved[r]

Typed ==
  /\ succ \in [Rs -> BOOLEAN]
  /\ AllMaps(instances) /\ instances = [r \in Rs |-> instances[r]]
  /\ AllFlows(deployed) /\ deployed = [r \in Rs |-> deployed[r]]
  /\ DOMAIN saved = Rs
  /\ graph \in GraphType

Results ==
  pc # "setup" => /\ Typed /\ \A r \in Rs : History(r)
                  /\ NodeBooks(graph, instances)
                  /\ LinkBooks(graph, deployed, Held)

\* The flows that come and go.
WorkFlows ==
  /\ toRelease \subseteq {i \in DOMAIN deployed[cur] : Flow(cur, i).end = time}
  /\ steered \in FlowMaps(cur)
  /\ toDeploy \subseteq FlowIds(cur)
  /\ toDeploy \cap DOMAIN steered = {}
  /\ (toDeploy \cup DOMAIN steered) \cap DOMAIN deployed[cur] = {}
  /\ \A i \in toDeploy \cup DOMAIN steered :
       Flow(cur, i).end > time /\ (~offline => Flow(cur, i).start <= time)

\* The copies.
MCopies == mGraph \in GraphType /\ mInstances \in Maps(cur)
TmpCopies == tmpGraph \in GraphType /\ tmpInstances \in Maps(cur)
MBooks ==
  NodeBooks(mGraph, Whole(mInstances)) /\ LinkBooks(mGraph, MidDeployed, MidHeld)
TmpBooks ==
  NodeBooks(tmpGraph, Whole(tmpInstances)) /\ LinkBooks(tmpGraph, MidDeployed, MidHeld)

\* The instances of this slot are there.
SlotIdsThere ==
  /\ DOMAIN slotIds = 1..Len(Chain(cur))
  /\ \A k \in 1..Len(Chain(cur)) : slotIds[k] \subseteq DOMAIN tmpInstances[k]

Work ==
  pc \in Busy =>
    /\ offline \/ succ[cur]
    /\ WorkFlows /\ MCopies
    /\ pc \in {"release", "place"} => steered = <<>> /\ MBooks
    /\ pc # "release" => toRelease = {}
    /\ pc = "place" => slotIds = [k \in 1..Len(Chain(cur)) |-> {}]
    /\ pc \in {"steer", "save"} => TmpCopies /\ TmpBooks
    /\ pc = "steer" => SlotIdsThere
    /\ pc = "save" => toDeploy = {}

\* No copy has more free than there is.
Bounded ==
  /\ mGraph # <<>> => Within(mGraph)
  /\ tmpGraph # <<>> => Within(tmpGraph)
  /\ pc = "setup" => /\ graph = <<>> /\ mGraph = <<>> /\ tmpGraph = <<>>
                     /\ succ = <<>> /\ instances = <<>> /\ deployed = <<>>

BooksInv == SetupInv /\ Callers /\ Results /\ Work /\ Bounded

LEMMA EmptyMaps ==
  /\ DOMAIN <<>> = {} /\ <<>> \in InstanceMaps
  /\ \A r : <<>> \in FlowMaps(r)
<1>1. DOMAIN <<>> = {} /\ <<>> \in [{} -> Instance]
  OBVIOUS
<1>2. <<>> \in InstanceMaps
  BY <1>1, IsMap, FS_EmptySet
<1>3. ASSUME NEW r
      PROVE  <<>> \in FlowMaps(r)
  <2>1. <<>> \in [{} -> Deployed(r)]
    OBVIOUS
  <2> QED
    BY <2>1 DEF FlowMaps
<1> QED
  BY <1>1, <1>2, <1>3

\* What the flows at hand are, in the middle of main.
MidKnown == FlowsKnown /\ cur \in Rs /\ WorkFlows

MidFacts ==
  /\ AllFlows(MidDeployed)
  /\ \A r \in Rs : r # cur => MidDeployed[r] = deployed[r]
  /\ DOMAIN MidDeployed[cur] = DOMAIN deployed[cur] \cup DOMAIN steered
  /\ \A i \in DOMAIN deployed[cur] : MidDeployed[cur][i] = deployed[cur][i]
  /\ \A i \in DOMAIN steered : MidDeployed[cur][i] = steered[i]
  /\ IsFiniteSet(MidHeld) /\ FlowPlaces(MidDeployed, MidHeld)

LEMMA MidIs == MidKnown => MidFacts
<1> SUFFICES ASSUME MidKnown
             PROVE  MidFacts
  OBVIOUS
<1>1. /\ SetupTypeOK /\ AllFlows(deployed) /\ DOMAIN deployed = Rs
      /\ deployed[cur] \in FlowMaps(cur) /\ steered \in FlowMaps(cur)
      /\ DOMAIN steered \cap DOMAIN deployed[cur] = {}
  BY DEF MidKnown, FlowsKnown, WorkFlows, AllFlows
<1> DEFINE m == Modified(deployed[cur])
<1>2. /\ DOMAIN deployed[cur] \in SUBSET FlowIds(cur)
      /\ \A i \in DOMAIN deployed[cur] : deployed[cur][i] \in Deployed(cur)
      /\ DOMAIN steered \in SUBSET FlowIds(cur)
      /\ \A i \in DOMAIN steered : steered[i] \in Deployed(cur)
  BY <1>1, FlowMapIs
<1>3. /\ DOMAIN m = DOMAIN deployed[cur] \cup DOMAIN steered
      /\ \A i \in DOMAIN deployed[cur] : m[i] = deployed[cur][i]
      /\ \A i \in DOMAIN steered : m[i] = steered[i]
  BY <1>1 DEF Modified
<1>4. m \in FlowMaps(cur)
  <2>1. m \in [DOMAIN deployed[cur] \cup DOMAIN steered -> Deployed(cur)]
    BY <1>2 DEF Modified
  <2> QED
    BY <1>2, <2>1 DEF FlowMaps
<1>5. /\ MidDeployed[cur] = m /\ DOMAIN MidDeployed = Rs
      /\ \A r \in Rs : r # cur => MidDeployed[r] = deployed[r]
  BY <1>1 DEF MidDeployed, MidKnown
<1> HIDE DEF m
<1>6. AllFlows(MidDeployed)
  BY <1>1, <1>4, <1>5 DEF AllFlows
<1>7. IsFiniteSet(MidIds) /\ MidIds \subseteq DOMAIN m
  <2>1. MidIds \subseteq DOMAIN m /\ DOMAIN m \subseteq FlowIds(cur)
    BY <1>2, <1>3 DEF MidIds
  <2> QED
    BY <1>1, <2>1, RequestIs, FS_Subset DEF MidKnown
<1>8. IsFiniteSet(Others) /\ FlowPlaces(deployed, Others)
  BY HoldersFinite DEF Others, MidKnown
<1>9. IsFiniteSet(MidHeld)
  <2>1. IsFiniteSet({cur} \X MidIds)
    BY <1>7, FS_Product, FS_Singleton
  <2> QED
    BY <1>8, <2>1, FS_Union DEF MidHeld
<1>10. FlowPlaces(MidDeployed, MidHeld)
  <2>1. ASSUME NEW h \in Others
        PROVE  h[1] \in Rs /\ h[1] # cur /\ h[2] \in DOMAIN deployed[h[1]]
               /\ h = <<h[1], h[2]>>
    BY <1>8 DEF Others, FlowPlaces
  <2>2. ASSUME NEW h \in {cur} \X MidIds
        PROVE  h[1] = cur /\ h[2] \in DOMAIN m /\ h = <<h[1], h[2]>>
    BY <1>7
  <2> QED
    BY <1>5, <2>1, <2>2 DEF FlowPlaces, MidHeld, MidKnown
<1> QED
  BY <1>3, <1>5, <1>6, <1>9, <1>10 DEF MidFacts

-----------------------------------------------------------------------------
(***************************************************************************)
(* What depends on the requests and the configuration alone, and they do   *)
(* not change once they are loaded.                                        *)
(***************************************************************************)
LEMMA Frame ==
  ASSUME requests' = requests, cfg' = cfg
  PROVE  /\ Rs' = Rs
         /\ \A r : /\ Chain(r)' = Chain(r) /\ FlowIds(r)' = FlowIds(r)
                   /\ Maps(r)' = Maps(r) /\ FlowMaps(r)' = FlowMaps(r)
         /\ \A r, i : Flow(r, i)' = Flow(r, i)
         /\ \A a : /\ AllMaps(a)' = AllMaps(a) /\ AllFlows(a)' = AllFlows(a)
                   /\ Within(a)' = Within(a)
         /\ \A e : LinkBw(e)' = LinkBw(e)
         /\ \A a, b : NodeBooks(a, b)' = NodeBooks(a, b)
         /\ \A dep, h, e : BwOf(dep, h, e)' = BwOf(dep, h, e)
         /\ \A dep, H, e : LinkLoad(dep, H, e)' = LinkLoad(dep, H, e)
         /\ \A a, b, c : LinkBooks(a, b, c)' = LinkBooks(a, b, c)
<1>1. Rs' = Rs
  BY DEF Rs
<1>2. \A r : Chain(r)' = Chain(r) /\ FlowIds(r)' = FlowIds(r)
  BY DEF Chain, FlowIds
<1>3. \A r, i : Flow(r, i)' = Flow(r, i)
  BY DEF Flow
<1>4. \A r : Maps(r)' = Maps(r) /\ FlowMaps(r)' = FlowMaps(r)
  <2> TAKE r
  <2>1. Maps(r)' = Maps(r)
    BY <1>2 DEF Maps
  <2>2. Deployed(r)' = Deployed(r)
    BY <1>2 DEF Deployed
  <2>3. FlowMaps(r)' = FlowMaps(r)
    BY <1>2, <2>2 DEF FlowMaps
  <2> QED
    BY <2>1, <2>3
<1>5. \A a : AllMaps(a)' = AllMaps(a) /\ AllFlows(a)' = AllFlows(a)
  BY <1>1, <1>4 DEF AllMaps, AllFlows
<1>6. \A e : LinkBw(e)' = LinkBw(e)
  BY DEF LinkBw
<1>7. \A a, b : NodeBooks(a, b)' = NodeBooks(a, b)
  BY DEF NodeBooks
<1>8. \A dep, h, e : BwOf(dep, h, e)' = BwOf(dep, h, e)
  BY <1>3 DEF BwOf
<1>9. \A dep, H, e : LinkLoad(dep, H, e)' = LinkLoad(dep, H, e)
  <2> TAKE dep, H, e
  <2>1. BwsOf(dep, H, e)' = BwsOf(dep, H, e)
    BY <1>8 DEF BwsOf
  <2> QED
    BY <2>1 DEF LinkLoad
<1>10. \A a, b, c : LinkBooks(a, b, c)' = LinkBooks(a, b, c)
  BY <1>6, <1>9 DEF LinkBooks
<1>11. \A a : Within(a)' = Within(a)
  BY <1>6 DEF Within
<1> QED
  BY <1>1, <1>2, <1>3, <1>4, <1>5, <1>6, <1>7, <1>8, <1>9, <1>10, <1>11

LEMMA SetupFrame ==
  ASSUME SetupInv, UNCHANGED setupVars
  PROVE  SetupInv' /\ requests' = requests /\ cfg' = cfg /\ phase' = phase
<1>1. SetupInv'
  BY SetupStep
<1> QED
  BY <1>1 DEF setupVars, loadVars

\* The steps that leave the results of main alone.
LEMMA ResultsFrame ==
  ASSUME requests' = requests, cfg' = cfg, UNCHANGED resultVars, cur' = cur,
         time' = time, offline' = offline, pc # "setup", Results
  PROVE  Results' /\ Held' = Held /\ \A r : Holding(r)' = Holding(r)
<1>1. \A r : Holding(r)' = Holding(r)
  BY Frame DEF Holding, resultVars
<1>2. Held' = Held
  BY <1>1, Frame DEF Held
<1>3. \A r : History(r)' = History(r)
  BY Frame DEF History, resultVars
<1>4. Typed'
  BY Frame DEF Results, Typed, resultVars
<1>5. NodeBooks(graph, instances)' /\ LinkBooks(graph, deployed, Held)'
  BY <1>2, Frame DEF Results, resultVars
<1> QED
  BY <1>1, <1>2, <1>3, <1>4, <1>5, Frame DEF Results

LEMMA MidFrame ==
  ASSUME requests' = requests, cfg' = cfg, UNCHANGED resultVars, cur' = cur,
         time' = time, offline' = offline
  PROVE  /\ Others' = Others
         /\ \A m : Whole(m)' = Whole(m)
         /\ steered' = steered => MidDeployed' = MidDeployed
         /\ steered' = steered /\ toRelease' = toRelease =>
              MidHeld' = MidHeld /\ MidIds' = MidIds
<1>1. \A r : Holding(r)' = Holding(r)
  BY Frame DEF Holding, resultVars
<1>2. Others' = Others
  BY <1>1, Frame DEF Others
<1>3. \A m : Whole(m)' = Whole(m)
  BY DEF Whole, resultVars
<1>4. ASSUME steered' = steered
      PROVE  MidDeployed' = MidDeployed
  <2>1. Modified(deployed[cur])' = Modified(deployed[cur])
    BY <1>4 DEF Modified, resultVars
  <2> QED
    BY <2>1 DEF MidDeployed, resultVars
<1>5. ASSUME steered' = steered, toRelease' = toRelease
      PROVE  MidHeld' = MidHeld /\ MidIds' = MidIds
  <2>1. MidIds' = MidIds
    BY <1>5, Frame DEF MidIds, resultVars
  <2> QED
    BY <1>2, <2>1 DEF MidHeld
<1> QED
  BY <1>2, <1>3, <1>4, <1>5

-----------------------------------------------------------------------------
(***************************************************************************)
(* One step after the other.                                               *)
(***************************************************************************)
LEMMA Facts ==
  ASSUME BooksInv, pc # "setup"
  PROVE  /\ SetupTypeOK /\ cfg \in [CfgKeys -> Nat] /\ phase = "loaded"
         /\ Typed /\ FlowsKnown
         /\ cur \in Nat \ {0} /\ time \in Nat
         /\ \A r \in Rs : r \in Nat /\ History(r)
         /\ \A n \in Nodes : cfg.processing_cap \in Nat
         /\ \A e \in Links : LinkBw(e) \in Nat
         /\ cur \in Rs => Known
         /\ pc \in Busy => cur \in Rs /\ Known /\ MidKnown
<1>1. /\ SetupTypeOK /\ cfg \in [CfgKeys -> Nat] /\ phase = "loaded"
      /\ cur \in Nat \ {0} /\ time \in Nat
  BY FlowAssumption DEF BooksInv, SetupInv, SetupTypeOK, Callers
<1>2. Typed /\ \A r \in Rs : r \in Nat /\ History(r)
  BY <1>1, RsFinite DEF BooksInv, Results
<1>3. FlowsKnown /\ (cur \in Rs => Known)
  BY <1>1, <1>2 DEF Typed, FlowsKnown, Known
<1>4. pc \in Busy => cur \in Rs /\ WorkFlows
  BY DEF BooksInv, Callers, Work, Busy
<1>5. cfg.processing_cap \in Nat /\ cfg.intra_bw \in Nat /\ cfg.inter_bw \in Nat
  BY <1>1 DEF CfgKeys
<1>6. \A e \in Links : LinkBw(e) \in Nat
  BY <1>5 DEF LinkBw
<1> QED
  BY <1>1, <1>2, <1>3, <1>4, <1>5, <1>6 DEF MidKnown

\* What balances has no more free than there is.
LEMMA BalanceBounds ==
  ASSUME SetupTypeOK, \A n \in Nodes : cfg.processing_cap \in Nat,
         NEW g \in GraphType, NEW ins, AllMaps(ins), NodeBooks(g, ins),
         NEW dep, AllFlows(dep), NEW H, IsFiniteSet(H), FlowPlaces(dep, H),
         LinkBooks(g, dep, H)
  PROVE  Within(g)
<1>1. ASSUME NEW n \in Nodes
      PROVE  g.node[n] <= cfg.processing_cap
  <2>1. g.node[n] \in Nat /\ NodeLoad(ins, n) \in Nat
    BY LoadNat DEF GraphType
  <2>2. g.node[n] + NodeLoad(ins, n) = cfg.processing_cap
    BY DEF NodeBooks
  <2> QED
    BY <2>1, <2>2
<1>2. ASSUME NEW e \in Links
      PROVE  g.link[e] <= LinkBw(e)
  <2>1. g.link[e] \in Nat /\ LinkLoad(dep, H, e) \in Nat
    BY LinkLoadNat DEF GraphType
  <2>2. g.link[e] + LinkLoad(dep, H, e) = LinkBw(e)
    BY DEF LinkBooks
  <2> QED
    BY <2>1, <2>2
<1> QED
  BY <1>1, <1>2 DEF Within

LEMMA MidBounds ==
  ASSUME BooksInv, pc \in Busy, NEW g \in GraphType, NEW m \in Maps(cur),
         NodeBooks(g, Whole(m)), LinkBooks(g, MidDeployed, MidHeld)
  PROVE  Within(g)
<1>1. SetupTypeOK /\ Known /\ MidKnown /\ \A n \in Nodes : cfg.processing_cap \in Nat
  <2>1. pc # "setup"
    BY DEF Busy
  <2> QED
    BY <2>1, Facts
<1>2. AllMaps(Whole(m))
  BY <1>1, WholeIs
<1>3. /\ AllFlows(MidDeployed) /\ IsFiniteSet(MidHeld)
      /\ FlowPlaces(MidDeployed, MidHeld)
  BY <1>1, MidIs DEF MidFacts
<1> QED
  BY <1>1, <1>2, <1>3, BalanceBounds

LEMMA BooksInit == Init => BooksInv
<1> SUFFICES ASSUME Init
             PROVE  BooksInv
  OBVIOUS
<1>1. SetupInv
  BY InitSetup DEF Init
<1>2. Callers
  <2>1. requests = <<>> /\ Len(requests) = 0
    BY DEF Init, SetupInit
  <2> QED
    <3>1. pc \in Pcs /\ offline \in BOOLEAN /\ pc = "setup" /\ cur = 1 /\ time = 0
      BY DEF Init, Pcs
    <3>2. offline = FALSE \/ offline = TRUE
      BY <3>1
    <3> QED
      BY <2>1, <3>1, FlowAssumption DEF Callers
<1>3. Results /\ Work /\ Bounded
  BY DEF Init, Results, Work, Bounded, Busy
<1> QED
  BY <1>1, <1>2, <1>3 DEF BooksInv

LEMMA PrepareStep ==
  ASSUME BooksInv, Prepare
  PROVE  BooksInv'
<1>1. SetupInv'
  BY SetupStep DEF BooksInv, Prepare
<1>2. Callers'
  <2>1. Len(requests') \in Nat
    BY <1>1, LenProperties DEF SetupInv, SetupTypeOK
  <2> QED
    BY <2>1 DEF BooksInv, Callers, Prepare
<1>3. Results' /\ Work'
  BY DEF Prepare, Results, Work, Busy
<1>4. Bounded'
  BY DEF Prepare, BooksInv, Bounded, resultVars, workVars
<1> QED
  BY <1>1, <1>2, <1>3, <1>4 DEF BooksInv

LEMMA BeginStep ==
  ASSUME BooksInv, Begin
  PROVE  BooksInv'
<1>1. /\ SetupInv' /\ requests' = requests /\ cfg' = cfg /\ phase' = "loaded"
  BY SetupFrame DEF BooksInv, Begin
<1>2. pc = "setup" /\ pc' = "call" /\ cur = 1 /\ cur' = 1 /\ time' = 0
  BY DEF BooksInv, Callers, Begin
<1>3. SetupTypeOK /\ cfg \in [CfgKeys -> Nat]
  BY DEF BooksInv, SetupInv, SetupTypeOK, Begin
<1>4. cfg.processing_cap \in Nat /\ \A e \in Links : LinkBw(e) \in Nat
  BY <1>3 DEF CfgKeys, LinkBw
<1>5. graph' \in GraphType
  BY <1>4 DEF Begin, FullGraph, GraphType
<1>6. AllMaps(instances') /\ Places(instances') = {}
  <2>1. ASSUME NEW r \in Rs
        PROVE  instances'[r] \in Maps(r) /\ \A k \in 1..Len(Chain(r)) : instances'[r][k] = <<>>
    BY EmptyMaps DEF Begin, NoInstances, Maps, Rs
  <2>2. DOMAIN instances' = Rs
    BY DEF Begin, Rs
  <2>3. \A r \in Rs : DOMAIN instances'[r] = 1..Len(Chain(r))
    BY <2>1 DEF Maps
  <2>4. AllMaps(instances')
    BY <2>1, <2>2 DEF AllMaps
  <2>5. \A p : p \notin Places(instances')
    BY <2>1, <2>2, <2>3, EmptyMaps, PlacesAre
  <2> QED
    BY <2>4, <2>5
<1>7. AllFlows(deployed') /\ \A r \in Rs : deployed'[r] = <<>>
  BY EmptyMaps DEF Begin, AllFlows, Rs
<1>8. Held' = {}
  <2>1. \A r \in Rs : Holding(r)' = {}
    BY <1>7, EmptyMaps DEF Holding
  <2> QED
    BY <1>1, <2>1, Frame DEF Held
<1>9. NodeBooks(graph', instances')
  <2> SUFFICES ASSUME NEW n \in Nodes
               PROVE  graph'.node[n] + NodeLoad(instances', n) = cfg.processing_cap
    BY DEF NodeBooks
  <2>1. PlacedOn(instances', n) = {}
    BY <1>6 DEF PlacedOn
  <2>2. NodeLoad(instances', n) = 0
    BY <2>1, SumEmpty DEF NodeLoad
  <2>3. graph'.node[n] = cfg.processing_cap
    BY DEF Begin, FullGraph
  <2> QED
    BY <1>4, <2>2, <2>3
<1>10. LinkBooks(graph', deployed', Held')
  <2> SUFFICES ASSUME NEW e \in Links
               PROVE  graph'.link[e] + LinkLoad(deployed', {}, e) = LinkBw(e)
    BY <1>8 DEF LinkBooks
  <2>1. LinkLoad(deployed', {}, e) = 0
    BY SumEmpty DEF LinkLoad
  <2>2. graph'.link[e] = LinkBw(e)
    BY DEF Begin, FullGraph
  <2> QED
    BY <1>4, <2>1, <2>2
<1>11. Typed'
  <2>1. /\ succ' \in [Rs -> BOOLEAN] /\ DOMAIN saved' = Rs
        /\ instances' = [r \in Rs |-> instances'[r]]
        /\ deployed' = [r \in Rs |-> deployed'[r]]
    BY DEF Begin, Rs
  <2> QED
    BY <1>1, <1>5, <1>6, <1>7, <2>1, Frame DEF Typed
<1>12. \A r \in Rs : History(r)'
  <2>1. \A r \in Rs : saved'[r] = -1 /\ r >= 1 /\ DOMAIN deployed'[r] = {}
    BY <1>3, <1>7, EmptyMaps, RsFinite DEF Begin, Rs
  <2> QED
    <3> SUFFICES ASSUME NEW r \in Rs
                 PROVE  History(r)'
      OBVIOUS
    <3>1. saved'[r] = -1 /\ r >= 1 /\ DOMAIN deployed'[r] = {} /\ deployed'[r] = <<>>
      BY <1>7, <2>1
    <3>2. r < 1 => FALSE
      BY <1>3, <2>1, RsFinite
    <3> QED
      BY <1>2, <3>1, <3>2 DEF History
<1>13. Results'
  <2>1. NodeBooks(graph, instances)' /\ LinkBooks(graph, deployed, Held)'
    BY <1>1, <1>9, <1>10, Frame
  <2> QED
    BY <1>1, <1>11, <1>12, <2>1, Frame DEF Results
<1>14. Callers' /\ Work' /\ Bounded'
  <2>1. Callers'
    BY <1>1, <1>2, <1>3, RsFinite, FlowAssumption DEF BooksInv, Callers, Begin, Pcs
  <2>2. Work'
    BY <1>2 DEF Work, Busy
  <2>3. Bounded'
    BY <1>1, <1>2, Frame DEF BooksInv, Bounded, Begin, workVars
  <2> QED
    BY <2>1, <2>2, <2>3
<1> QED
  BY <1>1, <1>13, <1>14 DEF BooksInv

\* The caller goes on without a change of what anyone holds.
LEMMA ReturnNoneStep ==
  ASSUME BooksInv, ReturnNone
  PROVE  BooksInv' /\ \A r \in Rs : Holding(r)' = Holding(r)
<1>1. /\ SetupInv' /\ requests' = requests /\ cfg' = cfg /\ phase' = phase
      /\ pc = "call" /\ pc' = "call" /\ cur <= Len(requests) /\ ~offline
      /\ cur' = cur + 1 /\ time' = time /\ offline' = offline
      /\ graph' = graph /\ succ' = succ /\ instances' = instances /\ deployed' = deployed
      /\ saved' = [saved EXCEPT ![cur] = IF succ[cur] THEN time ELSE @]
      /\ UNCHANGED <<flowVars, workVars>>
  BY SetupFrame DEF BooksInv, ReturnNone, Called
<1>2. /\ SetupTypeOK /\ Typed /\ FlowsKnown /\ cur \in Nat \ {0} /\ time \in Nat
      /\ \A r \in Rs : r \in Nat /\ History(r)
  BY <1>1, Facts
<1>3. Rs = 1..Len(requests) /\ Len(requests) \in Nat /\ cur \in Rs
  BY <1>1, <1>2, RsFinite
<1>4. DOMAIN saved = Rs
  BY <1>2 DEF Typed
<1>5. ASSUME NEW r \in Rs
      PROVE  Holding(r)' = Holding(r)
  <2>1. CASE r # cur \/ ~succ[cur]
    <3>1. saved'[r] = saved[r]
      BY <1>1, <1>4, <2>1
    <3> QED
      BY <1>1, <3>1, Frame DEF Holding
  <2>2. CASE r = cur /\ succ[cur]
    <3>1. saved'[r] = time /\ saved[r] = time - 1
      BY <1>1, <1>2, <1>3, <1>4, <2>2 DEF History
    <3>2. ASSUME NEW i \in DOMAIN deployed[r]
          PROVE  Flow(r, i).end \in Nat /\ Flow(r, i).end # time
      <4>1. i \in FlowIds(r)
        BY <1>2, FlowMapIs DEF Typed, AllFlows
      <4>2. ToRelease(cur) = {}
        BY <2>2 DEF ReturnNone
      <4> QED
        BY <1>2, <2>2, <4>1, <4>2, RequestIs DEF ToRelease, NeedRelease
    <3>3. \A i \in DOMAIN deployed[r] : Flow(r, i).end > time <=> Flow(r, i).end > time - 1
      BY <1>2, <3>2
    <3>4. Holding(r)' = {i \in DOMAIN deployed[r] : Flow(r, i).end > time}
      BY <1>1, <3>1, Frame DEF Holding
    <3>5. Holding(r) = {i \in DOMAIN deployed[r] : Flow(r, i).end > time - 1}
      BY <3>1 DEF Holding
    <3> QED
      BY <3>3, <3>4, <3>5
  <2> QED
    BY <2>1, <2>2
<1>6. Held' = Held
  BY <1>1, <1>5, Frame DEF Held
<1>7. ASSUME NEW r \in Rs
      PROVE  History(r)'
  <2>1. \A i \in DOMAIN deployed[r] : Flow(r, i)' = Flow(r, i) /\ Flow(r, i).start \in Nat
    <3>1. \A i \in DOMAIN deployed[r] : i \in FlowIds(r)
      BY <1>2, FlowMapIs DEF Typed, AllFlows
    <3> QED
      BY <1>1, <1>2, <3>1, RequestIs, Frame
  <2>2. CASE r # cur
    <3>1. saved'[r] = saved[r] /\ (r < cur' <=> r < cur)
      BY <1>1, <1>2, <1>4, <2>2
    <3> QED
      BY <1>1, <1>2, <2>1, <3>1 DEF History
  <2>3. CASE r = cur
    <3>1. saved'[r] = (IF succ[cur] THEN time ELSE saved[cur]) /\ r < cur'
      BY <1>1, <1>2, <1>4, <2>3
    <3>2. CASE succ[cur]
      BY <1>1, <1>2, <2>1, <2>3, <3>1, <3>2 DEF History
    <3>3. CASE ~succ[cur]
      BY <1>1, <1>2, <2>1, <2>3, <3>1, <3>3 DEF History
    <3> QED
      BY <3>2, <3>3
  <2> QED
    BY <2>2, <2>3
<1>8. Results'
  <2>1. Typed'
    BY <1>1, <1>2, Frame DEF Typed
  <2>2. NodeBooks(graph, instances)' /\ LinkBooks(graph, deployed, Held)'
    BY <1>1, <1>6, Frame DEF BooksInv, Results
  <2> QED
    BY <1>1, <1>7, <2>1, <2>2, Frame DEF Results
<1>9. Callers'
  BY <1>1, <1>2, <1>3 DEF BooksInv, Callers
<1>10. Work' /\ Bounded'
  <2>1. Work'
    BY <1>1 DEF Work, Busy
  <2> QED
    BY <1>1, <2>1, Frame DEF BooksInv, Bounded, workVars
<1> QED
  BY <1>1, <1>5, <1>8, <1>9, <1>10 DEF BooksInv

LEMMA NextSlotStep ==
  ASSUME BooksInv, NextSlot
  PROVE  BooksInv'
<1>1. /\ SetupInv' /\ requests' = requests /\ cfg' = cfg /\ phase' = phase
      /\ pc = "call" /\ pc' = "call" /\ cur > Len(requests) /\ ~offline
      /\ cur' = 1 /\ time' = time + 1 /\ offline' = offline /\ time < LastSlot
      /\ UNCHANGED <<resultVars, flowVars, workVars>>
  BY SetupFrame DEF BooksInv, NextSlot
<1>2. /\ SetupTypeOK /\ Typed /\ FlowsKnown /\ cur \in Nat \ {0} /\ time \in Nat
      /\ \A r \in Rs : r \in Nat /\ History(r)
  BY <1>1, Facts
<1>3. Rs = 1..Len(requests) /\ Len(requests) \in Nat
  BY <1>2, RsFinite
<1>4. Held' = Held
  <2>1. \A r : Holding(r)' = Holding(r)
    BY <1>1, Frame DEF Holding, resultVars
  <2> QED
    BY <1>1, <2>1, Frame DEF Held
<1>5. ASSUME NEW r \in Rs
      PROVE  History(r)'
  <2>1. r < cur /\ ~(r < cur') /\ saved' = saved /\ succ' = succ /\ deployed' = deployed
    BY <1>1, <1>2, <1>3 DEF resultVars
  <2>2. \A i : Flow(r, i)' = Flow(r, i)
    BY <1>1, Frame
  <2> QED
    BY <1>1, <1>2, <2>1, <2>2 DEF History
<1>6. Results'
  <2>1. Typed'
    BY <1>1, <1>2, Frame DEF Typed, resultVars
  <2>2. NodeBooks(graph, instances)' /\ LinkBooks(graph, deployed, Held)'
    BY <1>1, <1>4, Frame DEF BooksInv, Results, resultVars
  <2> QED
    BY <1>1, <1>5, <2>1, <2>2, Frame DEF Results
<1>7. Callers'
  BY <1>1, <1>2, <1>3, FlowAssumption DEF BooksInv, Callers
<1>8. Work' /\ Bounded'
  <2>1. Work'
    BY <1>1 DEF Work, Busy
  <2> QED
    BY <1>1, <2>1, Frame DEF BooksInv, Bounded, workVars
<1> QED
  BY <1>1, <1>6, <1>7, <1>8 DEF BooksInv

\* check_flows: the work starts with the books as they are.
LEMMA CheckStep ==
  ASSUME BooksInv, CheckFlows \/ CheckOffline
  PROVE  BooksInv' /\ cur \in Rs /\ MidDeployed' = deployed /\ MidIds' = Holding(cur)
<1>1. /\ UNCHANGED setupVars /\ UNCHANGED resultVars
      /\ pc = "call" /\ pc' = "release" /\ cur <= Len(requests)
      /\ cur' = cur /\ time' = time /\ offline' = offline
      /\ steered' = <<>> /\ mGraph' = graph /\ mInstances' = instances[cur]
      /\ UNCHANGED <<tmpGraph, tmpInstances, slotIds>>
      /\ ~offline => succ[cur] /\ toRelease' = ToRelease(cur) /\ toDeploy' = ToDeploy(cur)
      /\ offline => toRelease' = {} /\ toDeploy' = FlowIds(cur)
  BY DEF CheckFlows, CheckOffline, Called, callerVars
<1>2. SetupInv' /\ requests' = requests /\ cfg' = cfg /\ phase' = phase
  BY <1>1, SetupFrame DEF BooksInv
<1>3. /\ SetupTypeOK /\ Typed /\ FlowsKnown /\ cur \in Nat \ {0} /\ time \in Nat
      /\ \A r \in Rs : r \in Nat /\ History(r)
      /\ \A n \in Nodes : cfg.processing_cap \in Nat
      /\ Results
  BY <1>1, Facts DEF BooksInv
<1>4. cur \in Rs
  BY <1>1, <1>3, RsFinite
<1>5. /\ AllMaps(instances) /\ AllFlows(deployed) /\ DOMAIN deployed = Rs
      /\ deployed[cur] \in FlowMaps(cur) /\ DOMAIN deployed[cur] \subseteq FlowIds(cur)
      /\ graph \in GraphType
  BY <1>3, <1>4, FlowMapIs DEF Typed, AllFlows
<1>6. Results' /\ Held' = Held
  BY <1>1, <1>2, <1>3, ResultsFrame
<1>7. /\ \A i \in FlowIds(cur) :
           /\ Flow(cur, i).end \in Nat /\ Flow(cur, i).start \in Nat
           /\ Flow(cur, i).start < Flow(cur, i).end
      /\ \A i : Flow(cur, i)' = Flow(cur, i)
      /\ FlowIds(cur)' = FlowIds(cur)
  BY <1>1, <1>2, <1>3, <1>4, RequestIs, Frame
<1>8. WorkFlows'
  <2>1. toRelease' \subseteq {i \in DOMAIN deployed[cur] : Flow(cur, i).end = time}
    BY <1>1 DEF ToRelease, NeedRelease
  <2>2. toDeploy' \subseteq FlowIds(cur)
    BY <1>1 DEF ToDeploy
  <2>3. toDeploy' \cap DOMAIN deployed[cur] = {}
    <3>1. CASE offline
      <4>1. time = 0 /\ deployed[cur] = <<>>
        BY <1>3, <1>4, <3>1 DEF BooksInv, Callers, History
      <4> QED
        BY <4>1, EmptyMaps
    <3>2. CASE ~offline
      <4>1. \A i \in DOMAIN deployed[cur] : Flow(cur, i).start <= time - 1
        BY <1>1, <1>3, <1>4, <3>2 DEF History
      <4>2. \A i \in toDeploy' : Flow(cur, i).start = time
        BY <1>1, <3>2 DEF ToDeploy, NeedDeploy
      <4> QED
        BY <1>3, <4>1, <4>2
    <3> QED
      BY <3>1, <3>2
  <2>4. \A i \in toDeploy' : /\ Flow(cur, i).end > time
                             /\ ~offline => Flow(cur, i).start <= time
    <3>1. offline => time = 0
      BY DEF BooksInv, Callers
    <3>2. ~offline => \A i \in toDeploy' : Flow(cur, i).start = time
      BY <1>1 DEF ToDeploy, NeedDeploy
    <3> QED
      BY <1>3, <1>7, <2>2, <3>1, <3>2
  <2>5. steered' = <<>> /\ steered' \in FlowMaps(cur) /\ DOMAIN steered' = {}
    BY <1>1, EmptyMaps
  <2>6. deployed' = deployed /\ FlowMaps(cur)' = FlowMaps(cur)
    BY <1>1, <1>2, Frame DEF resultVars
  <2> HIDE <1>1
  <2> QED
    BY <1>1, <1>7, <2>1, <2>2, <2>3, <2>4, <2>5, <2>6 DEF WorkFlows
<1>9. MidDeployed' = deployed
  <2>1. deployed[cur] = [i \in DOMAIN deployed[cur] |-> deployed[cur][i]]
    BY <1>5 DEF FlowMaps
  <2>2. Modified(deployed[cur])' = deployed[cur]
    <3>1. DOMAIN steered' = {}
      BY <1>1, EmptyMaps
    <3> QED
      BY <1>1, <2>1, <3>1 DEF Modified, resultVars
  <2>3. deployed = [r \in Rs |-> deployed[r]]
    BY <1>3 DEF Typed
  <2>4. MidDeployed' = [deployed EXCEPT ![cur] = deployed[cur]]
    BY <1>1, <2>2 DEF MidDeployed, resultVars
  <2> QED
    BY <1>4, <1>5, <2>3, <2>4
<1>10. MidHeld' = Held /\ MidIds' = Holding(cur)
  <2>1. MidIds' = Holding(cur)
    <3>1. MidIds' = {i \in DOMAIN deployed[cur] : Flow(cur, i).end > time \/ i \in toRelease'}
      BY <1>1, <1>7, EmptyMaps DEF MidIds, resultVars
    <3>2. CASE offline
      <4>1. deployed[cur] = <<>>
        BY <1>3, <1>4, <3>2 DEF History
      <4> QED
        BY <3>1, <4>1, EmptyMaps DEF Holding
    <3>3. CASE ~offline
      <4>1. saved[cur] = time - 1
        BY <1>1, <1>3, <1>4, <3>3 DEF History
      <4>2. \A i \in DOMAIN deployed[cur] : i \in toRelease' <=> Flow(cur, i).end = time
        BY <1>1, <1>5, <3>3 DEF ToRelease, NeedRelease
      <4>3. \A i \in DOMAIN deployed[cur] :
              Flow(cur, i).end > time - 1
                <=> Flow(cur, i).end > time \/ Flow(cur, i).end = time
        BY <1>3, <1>5, <1>7
      <4> QED
        BY <3>1, <4>1, <4>2, <4>3 DEF Holding
    <3> QED
      BY <3>2, <3>3
  <2>2. Others' = Others
    BY <1>1, <1>2, MidFrame
  <2>3. MidHeld' = Others \cup ({cur} \X Holding(cur))
    BY <1>1, <2>1, <2>2 DEF MidHeld
  <2> QED
    BY <1>4, <2>1, <2>3 DEF Held, Others
<1>11. MCopies' /\ MBooks' /\ Within(mGraph)'
  <2>1. instances[cur] \in Maps(cur) /\ Whole(instances[cur]) = instances
    <3>1. instances = [r \in Rs |-> instances[r]]
      BY <1>3 DEF Typed
    <3> QED
      BY <1>4, <1>5, <3>1 DEF AllMaps, Whole
  <2>2. mGraph' \in GraphType /\ mInstances' \in Maps(cur)'
    BY <1>1, <1>2, <1>5, <2>1, Frame
  <2>3. Whole(mInstances)' = instances
    BY <1>1, <2>1 DEF Whole, resultVars
  <2>4. NodeBooks(graph, instances) /\ LinkBooks(graph, deployed, Held)
    BY <1>1, <1>3 DEF Results
  <2>5. Within(graph)
    BY <1>3, <1>5, <2>4, BalanceBounds, HoldersFinite DEF Held
  <2> QED
    BY <1>1, <1>2, <1>9, <1>10, <2>2, <2>3, <2>4, <2>5, Frame DEF MCopies, MBooks
<1>12. Work'
  <2>1. offline' \/ succ'[cur']
    BY <1>1 DEF resultVars
  <2> QED
    BY <1>1, <1>8, <1>11, <2>1 DEF Work
<1>13. Callers'
  BY <1>1, <1>2, <1>4, Frame DEF BooksInv, Callers, Pcs
<1>14. Bounded'
  BY <1>1, <1>2, <1>11, Frame DEF BooksInv, Bounded
<1> QED
  BY <1>2, <1>4, <1>6, <1>9, <1>10, <1>12, <1>13, <1>14 DEF BooksInv

LEMMA LinkAdds ==
  ASSUME NEW g \in GraphType, NEW p \in Seq(Nodes), NEW rate \in Nat
  PROVE  /\ ReleasePathBw(g, p, rate) \in GraphType
         /\ ReleasePathBw(g, p, rate).node = g.node
         /\ \A e \in Links : /\ rate * Times(p, e) \in Nat
                             /\ ReleasePathBw(g, p, rate).link[e]
                                  = g.link[e] + rate * Times(p, e)
<1>1. g.node \in [Nodes -> Nat] /\ g.link \in [Links -> Nat]
  BY DEF GraphType
<1>2. \A e \in Links : rate * Times(p, e) \in Nat
  <2> TAKE e \in Links
  <2> DEFINE times == Times(p, e)
  <2>1. times \in Nat
    BY TimesType
  <2> HIDE DEF times
  <2>2. rate * times \in Nat
    BY <2>1
  <2> QED
    BY <2>2 DEF times
<1> DEFINE more(e) == rate * Times(p, e)
           link == [e \in Links |-> g.link[e] + more(e)]
<1>3. ReleasePathBw(g, p, rate) = [g EXCEPT !.link = link]
  BY <1>1 DEF ReleasePathBw
<1>4. \A e \in Links : more(e) \in Nat
  BY <1>2
<1> HIDE DEF more
<1>5. link \in [Links -> Nat]
  BY <1>1, <1>4
<1>6. ReleasePathBw(g, p, rate) = [node |-> g.node, link |-> link]
  <2>1. g = [node |-> g.node, link |-> g.link]
    BY DEF GraphType
  <2> HIDE DEF link
  <2> QED
    BY <1>3, <2>1
<1>7. \A e \in Links : link[e] = g.link[e] + more(e)
  OBVIOUS
<1> HIDE DEF link
<1> QED
  BY <1>1, <1>2, <1>5, <1>6, <1>7 DEF GraphType, more

\* release_flow: the flow gives back what it held, on links and nodes.
ReleasedNow(i) ==
  /\ Releases(i) /\ i \in MidIds /\ MidIds' = MidIds \ {i}
  /\ MidDeployed' = MidDeployed /\ MidDeployed[cur][i] = deployed[cur][i]
  /\ \A k \in 1..Len(Chain(cur)) : mInstances'[k] = ReleasedMap(i, k)

LEMMA ReleaseFlowStep ==
  ASSUME BooksInv, ReleaseFlow
  PROVE  BooksInv' /\ ReleasedNow(Min(toRelease))
<1> DEFINE i == Min(toRelease)
           st == ReleaseChain(i)
           h == <<cur, i>>
<1>1. /\ UNCHANGED setupVars /\ UNCHANGED resultVars
      /\ pc = "release" /\ pc' = "release" /\ toRelease # {}
      /\ cur' = cur /\ time' = time /\ offline' = offline
      /\ UNCHANGED <<toDeploy, steered, tmpGraph, tmpInstances, slotIds>>
      /\ toRelease' = toRelease \ {i} /\ InstancesThere(cur, i)
      /\ mGraph' = ReleasePathBw(st.g, deployed[cur][i].path, Flow(cur, i).rate)
      /\ mInstances' = st.ins
  BY DEF ReleaseFlow, callerVars
<1>2. SetupInv' /\ requests' = requests /\ cfg' = cfg /\ phase' = phase
  BY <1>1, SetupFrame DEF BooksInv
<1>3. /\ SetupTypeOK /\ Typed /\ FlowsKnown /\ time \in Nat /\ Known /\ MidKnown
      /\ cur \in Rs /\ Results
      /\ \A n \in Nodes : cfg.processing_cap \in Nat
  BY <1>1, Facts DEF BooksInv, Busy
<1>4. /\ WorkFlows /\ MCopies /\ MBooks /\ steered = <<>> /\ (offline \/ succ[cur])
  BY <1>1 DEF BooksInv, Work, Busy
<1>5. /\ toRelease \in SUBSET DOMAIN deployed[cur] /\ deployed[cur] \in FlowMaps(cur)
      /\ \A j \in toRelease : Flow(cur, j).end = time
  BY <1>3, <1>4 DEF WorkFlows, Typed, AllFlows
<1>6. /\ i \in toRelease /\ i \in DOMAIN deployed[cur] /\ i \in FlowIds(cur)
      /\ Flow(cur, i).rate \in Nat /\ deployed[cur][i].path \in Seq(Nodes)
  <2>1. DOMAIN deployed[cur] \subseteq FlowIds(cur) /\ FlowIds(cur) \subseteq Nat
    BY <1>3, <1>5, FlowMapIs, RequestIs
  <2>2. i \in toRelease
    BY <1>1, <1>5, <2>1, MinIs
  <2> QED
    BY <1>3, <1>5, <2>1, <2>2, FlowMapIs, RequestIs
<1>7. Releases(i)
  BY <1>1, <1>3, <1>4, <1>6 DEF Releases, MCopies, MBooks
<1>8. /\ st \in ReleaseType /\ st.g.link = mGraph.link
      /\ NodeBooks(st.g, Whole(st.ins))
      /\ \A k \in 1..Len(Chain(cur)) : st.ins[k] = ReleasedMap(i, k)
  BY <1>7, ReleaseChainIs
<1> HIDE DEF i, st
<1>9. /\ mGraph' \in GraphType /\ mGraph'.node = st.g.node
      /\ mInstances' \in Maps(cur) /\ NodeBooks(mGraph', Whole(mInstances'))
      /\ \A e \in Links : /\ BwOf(deployed, h, e) \in Nat
                          /\ mGraph'.link[e] = mGraph.link[e] + BwOf(deployed, h, e)
  <2>1. st.g \in GraphType /\ st.ins \in Maps(cur)
    BY <1>8 DEF ReleaseType
  <2> DEFINE rate == Flow(cur, i).rate
             path == deployed[cur][i].path
  <2>2. \A e : BwOf(deployed, h, e) = rate * Times(path, e)
    BY DEF BwOf
  <2> HIDE DEF rate, path, h
  <2>3. /\ mGraph' \in GraphType /\ mGraph'.node = st.g.node
        /\ \A e \in Links : /\ rate * Times(path, e) \in Nat
                            /\ mGraph'.link[e] = st.g.link[e] + rate * Times(path, e)
    <3>1. path \in Seq(Nodes) /\ rate \in Nat /\ mGraph' = ReleasePathBw(st.g, path, rate)
      BY <1>1, <1>6 DEF rate, path
    <3> QED
      BY <2>1, <3>1, LinkAdds
  <2>4. NodeBooks(mGraph', Whole(mInstances'))
    BY <1>1, <1>8, <2>3 DEF NodeBooks
  <2> QED
    BY <1>1, <1>8, <2>1, <2>2, <2>3, <2>4
<1>10. MidDeployed' = MidDeployed /\ \A m : Whole(m)' = Whole(m)
  BY <1>1, <1>2, MidFrame
<1>11. /\ MidHeld = MidHeld' \cup {h} /\ h \notin MidHeld'
       /\ MidIds = MidIds' \cup {i} /\ i \notin MidIds'
  <2>1. Others' = Others
    BY <1>1, <1>2, MidFrame
  <2>2. /\ MidIds = MidIds' \cup {i} /\ i \notin MidIds'
    <3>1. \A j : Flow(cur, j)' = Flow(cur, j)
      BY <1>2, Frame, <1>1
    <3>2. MidIds' = {j \in DOMAIN deployed[cur] : Flow(cur, j).end > time \/ j \in toRelease'}
                      \cup DOMAIN steered
      BY <1>1, <3>1 DEF MidIds, resultVars
    <3>3. DOMAIN steered = {} /\ ~(Flow(cur, i).end > time)
      BY <1>3, <1>4, <1>5, <1>6, EmptyMaps
    <3> QED
      BY <1>1, <1>6, <3>2, <3>3 DEF MidIds
  <2>3. MidHeld' = Others \cup ({cur} \X MidIds')
    BY <1>1, <2>1 DEF MidHeld
  <2>4. h \notin Others
    BY DEF Others
  <2> QED
    BY <2>2, <2>3, <2>4 DEF MidHeld
<1>12. /\ AllFlows(MidDeployed) /\ IsFiniteSet(MidHeld) /\ FlowPlaces(MidDeployed, MidHeld)
       /\ MidDeployed[cur][i] = deployed[cur][i]
  BY <1>3, <1>6, MidIs DEF MidFacts
<1>13. IsFiniteSet(MidHeld') /\ FlowPlaces(MidDeployed, MidHeld')
  <2>1. MidHeld' \subseteq MidHeld
    BY <1>11
  <2> QED
    BY <1>12, <2>1, FS_Subset DEF FlowPlaces
<1>14. LinkBooks(mGraph', MidDeployed, MidHeld')
  <2> SUFFICES ASSUME NEW e \in Links
               PROVE  mGraph'.link[e] + LinkLoad(MidDeployed, MidHeld', e) = LinkBw(e)
    BY DEF LinkBooks
  <2>1. BwOf(MidDeployed, h, e) = BwOf(deployed, h, e)
    BY <1>12 DEF BwOf
  <2> HIDE DEF h
  <2>2. /\ LinkLoad(MidDeployed, MidHeld', e) \in Nat
        /\ LinkLoad(MidDeployed, MidHeld, e)
             = LinkLoad(MidDeployed, MidHeld', e) + BwOf(MidDeployed, h, e)
    <3> DEFINE H == MidHeld'
    <3>1. FlowPlaces(MidDeployed, H \cup {h}) /\ h \notin H /\ IsFiniteSet(H)
          /\ MidHeld = H \cup {h}
      BY <1>11, <1>12, <1>13
    <3> HIDE DEF H
    <3>2. /\ LinkLoad(MidDeployed, H, e) \in Nat
          /\ LinkLoad(MidDeployed, H \cup {h}, e)
               = LinkLoad(MidDeployed, H, e) + BwOf(MidDeployed, h, e)
      BY <1>3, <1>12, <3>1, LinkLoadGains
    <3> QED
      BY <3>1, <3>2 DEF H
  <2>3. mGraph.link[e] + LinkLoad(MidDeployed, MidHeld, e) = LinkBw(e)
    BY <1>4 DEF MBooks, LinkBooks
  <2>4. mGraph.link[e] \in Nat
    BY <1>4 DEF MCopies, GraphType
  <2> QED
    BY <1>9, <2>1, <2>2, <2>3, <2>4
<1>15. MCopies' /\ MBooks' /\ Within(mGraph)'
  <2>1. AllMaps(Whole(mInstances'))
    BY <1>3, <1>9, WholeIs
  <2>2. Within(mGraph')
    BY <1>3, <1>9, <1>12, <1>13, <1>14, <2>1, BalanceBounds
  <2>3. Whole(mInstances)' = Whole(mInstances')
    BY <1>1 DEF Whole, resultVars
  <2> QED
    BY <1>1, <1>2, <1>9, <1>10, <1>14, <2>2, <2>3, Frame DEF MCopies, MBooks
<1>16. WorkFlows'
  <2>1. /\ \A j : Flow(cur, j)' = Flow(cur, j)
        /\ FlowIds(cur)' = FlowIds(cur) /\ FlowMaps(cur)' = FlowMaps(cur)
    BY <1>1, <1>2, Frame
  <2> QED
    BY <1>1, <1>4, <2>1 DEF WorkFlows, resultVars
<1>17. Work'
  BY <1>1, <1>4, <1>15, <1>16 DEF Work, resultVars
<1>18. Results'
  BY <1>1, <1>2, <1>3, ResultsFrame
<1>19. Callers'
  BY <1>1, <1>2, Frame DEF BooksInv, Callers
<1>20. Bounded'
  BY <1>1, <1>2, <1>15, Frame DEF BooksInv, Bounded
<1> QED
  <2>1. ReleasedNow(i)
    BY <1>1, <1>6, <1>7, <1>8, <1>10, <1>11, <1>12 DEF ReleasedNow
  <2> QED
    BY <1>2, <1>17, <1>18, <1>19, <1>20, <2>1 DEF BooksInv, i

\* What main is at work with, when the results stay.
LEMMA WorkFrame ==
  ASSUME requests' = requests, cfg' = cfg, UNCHANGED resultVars, cur' = cur,
         time' = time, offline' = offline, UNCHANGED flowVars
  PROVE  /\ WorkFlows' = WorkFlows
         /\ UNCHANGED <<mGraph, mInstances>> => MCopies' = MCopies /\ MBooks' = MBooks
         /\ UNCHANGED <<tmpGraph, tmpInstances>> =>
              /\ TmpCopies' = TmpCopies /\ TmpBooks' = TmpBooks
              /\ slotIds' = slotIds => SlotIdsThere' = SlotIdsThere
<1>1. /\ MidDeployed' = MidDeployed /\ MidHeld' = MidHeld
      /\ \A m : Whole(m)' = Whole(m)
  BY MidFrame DEF flowVars
<1>2. WorkFlows' = WorkFlows
  BY Frame DEF WorkFlows, resultVars, flowVars
<1>3. ASSUME UNCHANGED <<mGraph, mInstances>>
      PROVE  MCopies' = MCopies /\ MBooks' = MBooks
  <2>1. Whole(mInstances)' = Whole(mInstances)
    BY <1>3 DEF Whole, resultVars
  <2> QED
    BY <1>1, <1>3, <2>1, Frame DEF MCopies, MBooks
<1>4. ASSUME UNCHANGED <<tmpGraph, tmpInstances>>
      PROVE  /\ TmpCopies' = TmpCopies /\ TmpBooks' = TmpBooks
             /\ slotIds' = slotIds => SlotIdsThere' = SlotIdsThere
  <2>1. Whole(tmpInstances)' = Whole(tmpInstances)
    BY <1>4 DEF Whole, resultVars
  <2> QED
    BY <1>1, <1>4, <2>1, Frame DEF TmpCopies, TmpBooks, SlotIdsThere
<1> QED
  BY <1>2, <1>3, <1>4

\* Nothing happens but that main goes on.
LEMMA IdleStep ==
  ASSUME BooksInv, UNCHANGED <<callerVars, resultVars, flowVars, workVars>>,
         \/ pc' = pc
         \/ pc \in Busy /\ pc' = "undefined"
         \/ pc = "steer" /\ pc' = "save" /\ toDeploy = {}
  PROVE  BooksInv'
<1>1. UNCHANGED setupVars /\ cur' = cur /\ time' = time /\ offline' = offline
  BY DEF callerVars
<1>2. SetupInv' /\ requests' = requests /\ cfg' = cfg /\ phase' = phase
  BY <1>1, SetupFrame DEF BooksInv
<1>3. Callers'
  BY <1>1, <1>2, Frame DEF BooksInv, Callers, Pcs, Busy
<1>4. Results'
  <2>1. CASE pc' = "setup"
    BY <2>1 DEF Results
  <2>2. CASE pc' # "setup"
    <3>1. pc # "setup"
      BY <2>2 DEF Busy
    <3> QED
      BY <1>1, <1>2, <3>1, ResultsFrame DEF BooksInv
  <2> QED
    BY <2>1, <2>2
<1>5. Bounded'
  BY <1>2, Frame DEF BooksInv, Bounded, workVars, resultVars, Busy
<1>6. Work'
  <2> SUFFICES ASSUME pc' \in Busy
               PROVE  Work'
    BY DEF Work
  <2>1. pc \in Busy /\ (pc' = pc \/ (pc = "steer" /\ pc' = "save" /\ toDeploy = {}))
    BY DEF Busy
  <2>2. /\ WorkFlows' = WorkFlows /\ MCopies' = MCopies /\ MBooks' = MBooks
        /\ TmpCopies' = TmpCopies /\ TmpBooks' = TmpBooks /\ SlotIdsThere' = SlotIdsThere
    BY <1>1, <1>2, WorkFrame DEF workVars
  <2>3. /\ UNCHANGED <<toRelease, toDeploy, steered, slotIds, succ>>
        /\ Chain(cur)' = Chain(cur)
    BY <1>1, <1>2, Frame DEF flowVars, workVars, resultVars
  <2> QED
    BY <1>1, <2>1, <2>2, <2>3 DEF BooksInv, Work, Busy
<1> QED
  BY <1>2, <1>3, <1>4, <1>5, <1>6 DEF BooksInv

\* main works on copies of what is left.
LEMMA ReleasedStep ==
  ASSUME BooksInv, Released
  PROVE  BooksInv'
<1>1. /\ UNCHANGED setupVars /\ UNCHANGED resultVars /\ UNCHANGED flowVars
      /\ cur' = cur /\ time' = time /\ offline' = offline
      /\ pc = "release" /\ pc' \in {"place", "save"} /\ (pc' = "save" => toDeploy = {})
      /\ toRelease = {} /\ UNCHANGED <<mGraph, mInstances>>
      /\ tmpGraph' = mGraph /\ tmpInstances' = mInstances
      /\ slotIds' = [k \in 1..Len(Chain(cur)) |-> {}]
  BY DEF Released, callerVars
<1>2. SetupInv' /\ requests' = requests /\ cfg' = cfg /\ phase' = phase
  BY <1>1, SetupFrame DEF BooksInv
<1>3. Results'
  BY <1>1, <1>2, ResultsFrame DEF BooksInv
<1>4. Callers'
  BY <1>1, <1>2, Frame DEF BooksInv, Callers, Pcs
<1>5. WorkFlows /\ MCopies /\ MBooks /\ steered = <<>> /\ (offline \/ succ[cur])
  BY <1>1 DEF BooksInv, Work, Busy
<1>6. /\ WorkFlows' = WorkFlows /\ MCopies' = MCopies /\ MBooks' = MBooks
  BY <1>1, <1>2, WorkFrame
<1>7. TmpCopies' /\ TmpBooks'
  <2>1. /\ MidDeployed' = MidDeployed /\ MidHeld' = MidHeld
    BY <1>1, <1>2, MidFrame DEF flowVars
  <2>2. Whole(tmpInstances)' = Whole(mInstances)
    BY <1>1 DEF Whole, resultVars
  <2> QED
    BY <1>1, <1>2, <1>5, <2>1, <2>2, Frame DEF MCopies, MBooks, TmpCopies, TmpBooks
<1>8. Work'
  <2>1. /\ UNCHANGED <<toRelease, toDeploy, steered, succ>>
        /\ Chain(cur)' = Chain(cur)
    BY <1>1, <1>2, Frame DEF flowVars, resultVars
  <2> QED
    BY <1>1, <1>5, <1>6, <1>7, <2>1 DEF Work, Busy
<1>9. Bounded'
  <2>1. pc \in Busy
    BY <1>1 DEF Busy
  <2>2. Within(mGraph)
    BY <1>5, <2>1, MidBounds DEF MCopies, MBooks
  <2> QED
    BY <1>1, <1>2, <2>2, Frame DEF BooksInv, Bounded
<1> QED
  BY <1>2, <1>3, <1>4, <1>8, <1>9 DEF BooksInv

\* A request that fails keeps what it has, and so do the others.
LEMMA FailStep ==
  ASSUME BooksInv, Fail, pc \in Busy
  PROVE  BooksInv'
<1>1. /\ UNCHANGED setupVars /\ UNCHANGED <<graph, instances, deployed, saved>>
      /\ UNCHANGED flowVars /\ UNCHANGED workVars
      /\ cur' = cur + 1 /\ time' = time /\ offline' = offline
      /\ pc' = "call" /\ succ' = [succ EXCEPT ![cur] = FALSE]
  BY DEF Fail
<1>2. SetupInv' /\ requests' = requests /\ cfg' = cfg /\ phase' = phase
  BY <1>1, SetupFrame DEF BooksInv
<1>3. /\ SetupTypeOK /\ Typed /\ cur \in Rs /\ cur \in Nat \ {0} /\ pc # "setup"
      /\ \A r \in Rs : r \in Nat /\ History(r)
      /\ NodeBooks(graph, instances) /\ LinkBooks(graph, deployed, Held)
  <2>1. pc # "setup"
    BY DEF Busy
  <2> QED
    BY <2>1, Facts DEF BooksInv, Results
<1>4. Held' = Held
  <2>1. \A r : Holding(r)' = Holding(r)
    BY <1>1, <1>2, Frame DEF Holding
  <2> QED
    BY <1>2, <2>1, Frame DEF Held
<1>5. Typed'
  BY <1>1, <1>2, <1>3, Frame DEF Typed
<1>6. ASSUME NEW r \in Rs
      PROVE  History(r)'
  <2>1. \A i : Flow(r, i)' = Flow(r, i)
    BY <1>2, Frame
  <2>2. CASE r = cur
    <3>1. ~succ'[r] /\ ~(r >= cur')
      BY <1>1, <1>3, <2>2 DEF Typed
    <3> QED
      BY <1>1, <1>3, <2>1, <3>1 DEF History
  <2>3. CASE r # cur
    <3>1. /\ succ'[r] = succ[r] /\ (r < cur' <=> r < cur)
          /\ r >= cur' => r >= cur
      BY <1>1, <1>3, <2>3 DEF Typed
    <3> QED
      BY <1>1, <1>3, <2>1, <3>1 DEF History
  <2> QED
    BY <2>2, <2>3
<1>7. Results'
  <2>1. NodeBooks(graph, instances)' /\ LinkBooks(graph, deployed, Held)'
    BY <1>1, <1>2, <1>3, <1>4, Frame
  <2> QED
    BY <1>2, <1>5, <1>6, <2>1, Frame DEF Results
<1>8. Callers'
  <2>1. cur' \in Nat \ {0} /\ cur' <= Len(requests) + 1
    BY <1>1, <1>3, RsFinite
  <2> QED
    BY <1>1, <1>2, <1>3, <2>1, Frame DEF BooksInv, Callers, Pcs
<1>9. Work' /\ Bounded'
  <2>1. Work'
    BY <1>1 DEF Work, Busy
  <2> QED
    BY <1>1, <1>2, <2>1, Frame DEF BooksInv, Bounded, workVars
<1> QED
  BY <1>2, <1>7, <1>8, <1>9 DEF BooksInv

\* save: what main has made of the copies counts from now on.
LEMMA SaveStep ==
  ASSUME BooksInv, Save
  PROVE  /\ BooksInv'
         /\ \A r \in Rs : Holding(r)' = IF r = cur THEN MidIds ELSE Holding(r)
<1>1. /\ UNCHANGED setupVars /\ UNCHANGED flowVars /\ UNCHANGED workVars
      /\ cur' = cur + 1 /\ time' = time /\ offline' = offline /\ succ' = succ
      /\ pc = "save" /\ pc' = "call"
      /\ graph' = tmpGraph /\ instances' = Whole(tmpInstances)
      /\ deployed' = MidDeployed /\ saved' = [saved EXCEPT ![cur] = time]
  BY DEF Save, Whole, MidDeployed
<1>2. SetupInv' /\ requests' = requests /\ cfg' = cfg /\ phase' = phase
  BY <1>1, SetupFrame DEF BooksInv
<1>3. /\ SetupTypeOK /\ Typed /\ FlowsKnown /\ cur \in Rs /\ cur \in Nat \ {0} /\ time \in Nat
      /\ \A r \in Rs : r \in Nat /\ History(r)
      /\ Known /\ MidKnown
  BY <1>1, Facts DEF Busy
<1>4. /\ WorkFlows /\ TmpCopies /\ TmpBooks /\ toRelease = {} /\ toDeploy = {}
      /\ (offline \/ succ[cur])
  BY <1>1 DEF BooksInv, Work, Busy
<1>5. /\ AllFlows(MidDeployed)
      /\ \A r \in Rs : r # cur => MidDeployed[r] = deployed[r]
      /\ DOMAIN MidDeployed[cur] = DOMAIN deployed[cur] \cup DOMAIN steered
  BY <1>3, MidIs DEF MidFacts
<1>6. AllMaps(Whole(tmpInstances)) /\ DOMAIN Whole(tmpInstances) = Rs
  BY <1>3, <1>4, WholeIs DEF TmpCopies, AllMaps
<1>7. saved'[cur] = time /\ \A r \in Rs : r # cur => saved'[r] = saved[r]
  BY <1>1, <1>3 DEF Typed
<1>8. /\ Held' = MidHeld
      /\ \A r \in Rs : Holding(r)' = IF r = cur THEN MidIds ELSE Holding(r)
  <2>1. ASSUME NEW r \in Rs, r # cur
        PROVE  Holding(r)' = Holding(r)
    BY <1>1, <1>2, <1>5, <1>7, <2>1, Frame DEF Holding
  <2>2. ASSUME NEW r \in Rs, r = cur
        PROVE  Holding(r)' = MidIds
    <3>1. Holding(r)' = {i \in DOMAIN deployed'[r] : Flow(r, i).end > saved'[r]}
      BY <1>2, Frame DEF Holding
    <3>2. DOMAIN deployed'[r] = DOMAIN deployed[cur] \cup DOMAIN steered /\ saved'[r] = time
      BY <1>1, <1>5, <1>7, <2>2
    <3>3. \A i \in DOMAIN steered : Flow(cur, i).end > time
      BY <1>4 DEF WorkFlows
    <3> QED
      BY <1>4, <2>2, <3>1, <3>2, <3>3 DEF MidIds
  <2>3. Held' = UNION {{r} \X (IF r = cur THEN MidIds ELSE Holding(r)) : r \in Rs}
    <3>1. \A r \in Rs : Holding(r)' = IF r = cur THEN MidIds ELSE Holding(r)
      BY <2>1, <2>2
    <3> QED
      BY <1>2, <3>1, Frame DEF Held
  <2>4. cur \in Rs
    BY <1>3
  <2> QED
    BY <2>1, <2>2, <2>3, <2>4 DEF MidHeld, Others
<1>9. ASSUME NEW r \in Rs
      PROVE  History(r)'
  <2>1. \A i : Flow(r, i)' = Flow(r, i)
    BY <1>2, Frame
  <2>2. CASE r = cur
    <3>1. r < cur' /\ ~(r >= cur') /\ saved'[r] = time /\ time' = time
      BY <1>1, <1>3, <1>7, <2>2
    <3>2. ~offline => \A i \in DOMAIN deployed'[r] : Flow(r, i).start <= time
      <4> SUFFICES ASSUME ~offline, NEW i \in DOMAIN deployed[cur] \cup DOMAIN steered
                   PROVE  Flow(cur, i).start <= time
        BY <1>1, <1>5, <2>2
      <4>1. CASE i \in DOMAIN steered
        BY <1>4, <4>1 DEF WorkFlows
      <4>2. CASE i \in DOMAIN deployed[cur]
        <5>1. Flow(cur, i).start <= saved[cur] /\ saved[cur] <= time /\ saved[cur] \in Int
          BY <1>3, <4>2 DEF History
        <5>2. i \in FlowIds(cur)
          BY <1>3, <4>2, FlowMapIs DEF Typed, AllFlows
        <5>3. Flow(cur, i).start \in Nat
          BY <1>3, <5>2, RequestIs
        <5> QED
          BY <1>3, <5>1, <5>3
      <4> QED
        BY <4>1, <4>2
    <3> QED
      BY <1>1, <1>3, <2>1, <3>1, <3>2 DEF History
  <2>3. CASE r # cur
    <3>1. /\ saved'[r] = saved[r] /\ (r < cur' <=> r < cur) /\ deployed'[r] = deployed[r]
          /\ r >= cur' => r >= cur
      BY <1>1, <1>3, <1>5, <1>7, <2>3
    <3> QED
      BY <1>1, <1>3, <2>1, <3>1 DEF History
  <2> QED
    BY <2>2, <2>3
<1>10. Results'
  <2>1. NodeBooks(graph', instances') /\ LinkBooks(graph', deployed', Held')
    BY <1>1, <1>4, <1>8 DEF TmpBooks
  <2>2. NodeBooks(graph, instances)' /\ LinkBooks(graph, deployed, Held)'
    BY <1>2, <2>1, Frame
  <2>3. Typed'
    <3>1. instances' = [r \in Rs |-> instances'[r]]
      BY <1>1, <1>3 DEF Whole, Typed, AllMaps
    <3>2. deployed' = [r \in Rs |-> deployed'[r]]
      BY <1>1, <1>3 DEF MidDeployed, Typed, AllFlows
    <3>3. graph' \in GraphType /\ AllMaps(instances') /\ AllFlows(deployed')
      BY <1>1, <1>4, <1>5, <1>6 DEF TmpCopies
    <3>4. succ' \in [Rs -> BOOLEAN] /\ DOMAIN saved' = Rs
      BY <1>1, <1>3 DEF Typed
    <3> QED
      BY <1>2, <3>1, <3>2, <3>3, <3>4, Frame DEF Typed
  <2> QED
    BY <1>2, <1>9, <2>2, <2>3, Frame DEF Results
<1>11. Callers'
  <2>1. cur' \in Nat \ {0} /\ cur' <= Len(requests) + 1
    BY <1>1, <1>3, RsFinite
  <2> QED
    BY <1>1, <1>2, <1>3, <2>1, Frame DEF BooksInv, Callers, Pcs
<1>12. Work' /\ Bounded'
  <2>1. Work'
    BY <1>1 DEF Work, Busy
  <2> QED
    BY <1>1, <1>2, <2>1, Frame DEF BooksInv, Bounded, workVars
<1> QED
  BY <1>2, <1>8, <1>10, <1>11, <1>12 DEF BooksInv

-----------------------------------------------------------------------------
(***************************************************************************)
(* Placement: the instances of this slot are new and nobody uses them yet, *)
(* the others are as they were, and the nodes have as much less free.      *)
(***************************************************************************)
PlaceType ==
  [ins : Maps(cur), ids : [1..Len(Chain(cur)) -> SUBSET Nat], g : GraphType,
   ok : BOOLEAN]

Fresh(st, k) ==
  /\ DOMAIN mInstances[k] \subseteq DOMAIN st.ins[k]
  /\ st.ids[k] = DOMAIN st.ins[k] \ DOMAIN mInstances[k]
  /\ \A id \in DOMAIN mInstances[k] : st.ins[k][id] = mInstances[k][id]
  /\ \A id \in st.ids[k] : /\ st.ins[k][id].used = 0
                           /\ TotalTraffic > 0 => st.ins[k][id].cap > 0
  /\ Cardinality(st.ids[k]) <= 1 \/ Cardinality(st.ids[k]) <= Wanted(Chain(cur)[k])

PlaceOk(st, k) ==
  /\ st \in PlaceType /\ st.g.link = mGraph.link
  /\ NodeBooks(st.g, Whole(st.ins))
  /\ \A j \in 1..Len(Chain(cur)) : /\ Fresh(st, j)
                                   /\ j > k => st.ids[j] = {}

Places0 == Known /\ mInstances \in Maps(cur) /\ toDeploy \subseteq FlowIds(cur)

LEMMA TrafficIs ==
  ASSUME Places0
  PROVE  /\ TotalTraffic \in Nat /\ Cardinality(toDeploy) \in Nat
         /\ \A vnf \in Function : Wanted(vnf) \in Int
<1>1. /\ IsFiniteSet(toDeploy) /\ \A i \in toDeploy : Flow(cur, i).rate \in Nat
  BY RequestIs, FS_Subset DEF Places0, Known
<1>2. Cardinality(toDeploy) \in Nat
  BY <1>1, FS_CardinalityType
<1> DEFINE f == [i \in toDeploy |-> Flow(cur, i).rate]
<1>3. TotalTraffic = SumFunctionOnSet(f, toDeploy)
  BY DEF TotalTraffic, SumFunction
<1>4. \A i \in toDeploy : f[i] \in Nat
  BY <1>1
<1> HIDE DEF f
<1>5. TotalTraffic \in Nat
  BY <1>1, <1>3, <1>4, SumTypes
<1>6. ASSUME NEW vnf \in Function
      PROVE  Wanted(vnf) \in Int
  <2> DEFINE d == (TotalTraffic + vnf.cap - 1) \div vnf.cap
  <2>1. d \in Nat
    <3>1. vnf.cap \in Nat \ {0}
      BY DEF Function
    <3> DEFINE c == vnf.cap
               a == TotalTraffic + c - 1
    <3>2. c \in Nat \ {0} /\ a \in Nat
      BY <1>5, <3>1
    <3> HIDE DEF a, c
    <3>3. a \div c \in Nat
      BY <3>2
    <3> QED
      BY <3>3 DEF a, c
  <2>2. Wanted(vnf) = Max({d, Cardinality(toDeploy)})
    BY DEF Wanted
  <2> HIDE DEF d
  <2> DEFINE T == {d, Cardinality(toDeploy)}
  <2>3. T \in SUBSET Nat /\ T # {} /\ IsFiniteSet(T)
    <3>1. T = {d} \cup {Cardinality(toDeploy)}
      OBVIOUS
    <3>2. IsFiniteSet({d})
      BY FS_Singleton
    <3>3. IsFiniteSet({d} \cup {Cardinality(toDeploy)})
      BY <3>2, FS_AddElement
    <3> QED
      BY <1>2, <2>1, <3>1, <3>3
  <2> HIDE DEF T
  <2>4. Max(T) \in T
    BY <2>3, MaxIs
  <2> QED
    BY <2>2, <2>3, <2>4 DEF T
<1> QED
  BY <1>2, <1>5, <1>6

\* insert_instance, insert_instance_slot and minus_node_cap.
LEMMA InsertStep ==
  ASSUME Places0, NEW k \in 1..Len(Chain(cur)), NEW st, PlaceOk(st, k),
         st.ids[k] = {} \/ Cardinality(st.ids[k]) < Wanted(Chain(cur)[k]),
         NEW n \in Nodes, NEW cap \in Nat, cap <= st.g.node[n],
         TotalTraffic > 0 => cap > 0
  PROVE  PlaceOk(Insert(st, k, n, cap), k)
<1> DEFINE id == NewId(st.ins[k])
           sf == [node |-> n, cap |-> cap, used |-> 0]
           map == With(st.ins[k], id, sf)
           m == st.ins
           ins == [m EXCEPT ![k] = map]
           some == st.ids[k] \cup {id}
           ids == [st.ids EXCEPT ![k] = some]
           g == MinusNodeCap(st.g, n, cap)
           new == Insert(st, k, n, cap)
<1>1. /\ st \in PlaceType /\ st.g.link = mGraph.link
      /\ NodeBooks(st.g, Whole(st.ins))
      /\ \A j \in 1..Len(Chain(cur)) : Fresh(st, j) /\ (j > k => st.ids[j] = {})
      /\ Known
  BY DEF PlaceOk, Places0
<1>2. /\ st.ins \in Maps(cur) /\ st.g \in GraphType /\ st.ok \in BOOLEAN
      /\ st.ids \in [1..Len(Chain(cur)) -> SUBSET Nat]
      /\ st = [ins |-> st.ins, ids |-> st.ids, g |-> st.g, ok |-> st.ok]
      /\ st.ins[k] \in InstanceMaps
  BY <1>1 DEF PlaceType, Maps
<1>3. new = [ins |-> ins, ids |-> ids, g |-> g, ok |-> st.ok]
  <2>1. new = [st EXCEPT !.ins = ins, !.ids = ids, !.g = g]
    BY DEF Insert
  <2> HIDE DEF new, ins, ids, g
  <2> QED
    BY <1>2, <2>1
<1>4. sf \in Instance /\ sf.used = 0 /\ sf.cap = cap /\ sf.node = n
  BY DEF Instance
<1>5. id \in Nat \ {0} /\ id \notin DOMAIN m[k]
  BY <1>2, NewIdIsNew
<1> HIDE DEF sf, id
<1>6. /\ map \in InstanceMaps /\ DOMAIN map = DOMAIN m[k] \cup {id} /\ map[id] = sf
      /\ \A j \in DOMAIN m[k] : map[j] = m[k][j]
  <2> DEFINE old == m[k]
  <2>1. old \in InstanceMaps /\ id \in Nat /\ sf \in Instance /\ id \notin DOMAIN old
    BY <1>2, <1>4, <1>5
  <2>2. map = With(old, id, sf)
    OBVIOUS
  <2> HIDE DEF map, old
  <2>3. /\ map \in InstanceMaps /\ DOMAIN map = DOMAIN old \cup {id} /\ map[id] = sf
        /\ \A j \in DOMAIN old : j # id => map[j] = old[j]
    BY <2>1, <2>2, WithIs
  <2> QED
    BY <2>1, <2>3 DEF old
<1> HIDE DEF map
<1>7. /\ m \in Maps(cur) /\ ins \in Maps(cur) /\ ins[k] = map /\ SameBut(m, ins, k)
  BY <1>2, <1>6, PutIs
<1> HIDE DEF ins
<1>8. /\ g \in GraphType /\ g.link = st.g.link
      /\ \A x \in Nodes : g.node[x] = st.g.node[x] - IF n = x THEN cap ELSE 0
  BY <1>2, NodeSubtracts
<1> HIDE DEF g
<1>9. NodeBooks(g, Whole(ins))
  <2> SUFFICES ASSUME NEW x \in Nodes
               PROVE  g.node[x] + NodeLoad(Whole(ins), x) = cfg.processing_cap
    BY DEF NodeBooks
  <2> DEFINE d == IF n = x THEN cap ELSE 0
  <2>1. /\ NodeLoad(Whole(m), x) \in Nat
        /\ NodeLoad(Whole(ins), x) = NodeLoad(Whole(m), x) + d
    <3> HIDE DEF m
    <3>1. /\ NodeLoad(Whole(m), x) \in Nat
          /\ NodeLoad(Whole(ins), x)
               = NodeLoad(Whole(m), x) + IF ins[k][id].node = x THEN ins[k][id].cap ELSE 0
      BY <1>1, <1>5, <1>6, <1>7, MoreLoad
    <3> QED
      BY <1>4, <1>6, <1>7, <3>1
  <2>2. st.g.node[x] + NodeLoad(Whole(m), x) = cfg.processing_cap
    BY <1>1 DEF NodeBooks
  <2>3. st.g.node[x] \in Nat /\ d \in Nat /\ g.node[x] = st.g.node[x] - d
    BY <1>2, <1>8 DEF GraphType
  <2> HIDE DEF d, m
  <2> QED
    BY <2>1, <2>2, <2>3
<1>10. ids \in [1..Len(Chain(cur)) -> SUBSET Nat] /\ ids[k] = some
       /\ SameBut(st.ids, ids, k)
  <2>1. some \in SUBSET Nat
    BY <1>2, <1>5
  <2> HIDE DEF some
  <2> QED
    BY <1>2, <2>1 DEF SameBut
<1>11. some = DOMAIN map \ DOMAIN mInstances[k] /\ id \notin DOMAIN mInstances[k]
       /\ DOMAIN mInstances[k] \subseteq DOMAIN m[k]
  BY <1>1, <1>5, <1>6 DEF Fresh
<1>12. Cardinality(some) <= 1 \/ Cardinality(some) <= Wanted(Chain(cur)[k])
  <2>1. IsFiniteSet(st.ids[k]) /\ id \notin st.ids[k]
    <3>1. st.ids[k] \subseteq DOMAIN st.ins[k] /\ IsFiniteSet(DOMAIN st.ins[k])
      BY <1>1, <1>2, MapIs DEF Fresh
    <3> QED
      BY <1>5, <3>1, FS_Subset
  <2>2. /\ Cardinality(some) = Cardinality(st.ids[k]) + 1
        /\ Cardinality(st.ids[k]) \in Nat
    BY <2>1, FS_AddElement, FS_CardinalityType
  <2>3. CASE st.ids[k] = {}
    BY <2>2, <2>3, FS_EmptySet
  <2>4. CASE Cardinality(st.ids[k]) < Wanted(Chain(cur)[k])
    <3>1. Chain(cur) \in Seq(Function) /\ Chain(cur)[k] \in Function
      BY <1>1, RequestIs, ElementOfSeq DEF Known
    <3>2. Wanted(Chain(cur)[k]) \in Int
      BY <3>1, TrafficIs
    <3> QED
      BY <2>2, <2>4, <3>2
  <2> QED
    BY <2>3, <2>4
<1> HIDE DEF ids
<1>13. ASSUME NEW j \in 1..Len(Chain(cur))
       PROVE  Fresh(new, j) /\ (j > k => new.ids[j] = {})
  <2>1. CASE j # k
    <3>1. new.ins[j] = st.ins[j] /\ new.ids[j] = st.ids[j]
      BY <1>3, <1>7, <1>10, <2>1 DEF SameBut
    <3> QED
      BY <1>1, <3>1 DEF Fresh
  <2>2. CASE j = k
    <3>1. new.ins[j] = map /\ new.ids[j] = some
      BY <1>3, <1>7, <1>10, <2>2
    <3>2. \A x \in DOMAIN mInstances[j] : map[x] = mInstances[j][x]
      BY <1>1, <1>6, <1>11, <2>2 DEF Fresh
    <3>3. \A x \in some : map[x].used = 0 /\ (TotalTraffic > 0 => map[x].cap > 0)
      <4>1. \A x \in st.ids[k] : x \in DOMAIN m[k]
        BY <1>1 DEF Fresh
      <4> QED
        BY <1>1, <1>4, <1>6, <4>1 DEF Fresh
    <3>4. DOMAIN mInstances[j] \subseteq DOMAIN map
      BY <1>6, <1>11, <2>2
    <3>5. ~(j > k)
      BY <2>2
    <3> HIDE DEF some, new, m
    <3> QED
      BY <1>11, <1>12, <2>2, <3>1, <3>2, <3>3, <3>4, <3>5 DEF Fresh
  <2> QED
    BY <2>1, <2>2
<1>14. new \in PlaceType /\ new.g.link = mGraph.link /\ NodeBooks(new.g, Whole(new.ins))
  <2> HIDE DEF new, m
  <2> QED
    BY <1>1, <1>2, <1>3, <1>7, <1>8, <1>9, <1>10 DEF PlaceType
<1> HIDE DEF new
<1>15. PlaceOk(new, k)
  BY <1>13, <1>14 DEF PlaceOk
<1> QED
  BY <1>15 DEF new

LEMMA ScaleUpStep ==
  ASSUME Places0, NEW k \in 1..Len(Chain(cur)), NEW st, PlaceOk(st, k), st.ids[k] = {},
         NEW path \in Seq(Nodes), CanScaleUp(st, path)
  PROVE  PlaceOk(ScaleUp(st, path, k), k)
<1> DEFINE T == {j \in 1..Len(path) : TotalTraffic <= st.g.node[path[j]]}
           i == Min(T)
<1>1. T \in SUBSET Nat /\ T # {}
  BY LenProperties DEF CanScaleUp
<1>2. ScaleUp(st, path, k) = Insert(st, k, path[i], TotalTraffic)
  BY DEF ScaleUp
<1>3. i \in T
  <2> HIDE DEF T
  <2> QED
    BY <1>1, MinIs
<1>4. i \in 1..Len(path) /\ TotalTraffic <= st.g.node[path[i]]
  BY <1>3
<1> HIDE DEF i
<1>5. path[i] \in Nodes
  BY <1>4, ElementOfSeq
<1> QED
  BY <1>2, <1>4, <1>5, TrafficIs, InsertStep

LEMMA ScaleOutStep ==
  ASSUME Places0, NEW k \in 1..Len(Chain(cur)), NEW st, PlaceOk(st, k), st.ids[k] = {},
         NEW path \in Seq(Nodes)
  PROVE  PlaceOk(ScaleOut(st, path, k, Chain(cur)[k]), k)
<1> DEFINE n == Len(path)
           vnf == Chain(cur)[k]
           Step(s, i) ==
             IF Cardinality(s.ids[k]) < Wanted(vnf) /\ vnf.cap <= s.g.node[path[i]]
               THEN Insert(s, k, path[i], vnf.cap) ELSE s
           S == [i \in 0..n |-> {s \in PlaceType : PlaceOk(s, k)}]
           Is(f) == f = [i \in 0..n |-> IF i = 0 THEN st ELSE Step(f[i - 1], i)]
           step == [i \in 1..n |-> [s \in S[i - 1] |-> Step(s, i)]]
           g == CHOOSE f : Is(f)
<1>1. n \in Nat
  BY LenProperties
<1>2. st \in S[0]
  BY <1>1 DEF PlaceOk
<1>3. vnf \in Function /\ vnf.cap \in Nat \ {0}
  <2>1. Chain(cur) \in Seq(Function)
    BY RequestIs DEF Places0, Known
  <2>2. vnf \in Function
    BY <2>1, ElementOfSeq
  <2> QED
    BY <2>2 DEF Function
<1>4. ASSUME NEW i \in 1..n, NEW s \in S[i - 1]
      PROVE  Step(s, i) \in S[i]
  <2>1. PlaceOk(s, k) /\ i \in 0..n
    BY <1>1
  <2>2. path[i] \in Nodes
    BY ElementOfSeq
  <2> DEFINE new == Insert(s, k, path[i], vnf.cap)
  <2>3. CASE Cardinality(s.ids[k]) < Wanted(vnf) /\ vnf.cap <= s.g.node[path[i]]
    <3>1. PlaceOk(new, k)
      BY <1>3, <2>1, <2>2, <2>3, InsertStep
    <3>2. Step(s, i) = new
      BY <2>3
    <3> HIDE DEF new, Step
    <3> QED
      BY <2>1, <3>1, <3>2 DEF PlaceOk
  <2>4. CASE ~(Cardinality(s.ids[k]) < Wanted(vnf) /\ vnf.cap <= s.g.node[path[i]])
    <3>1. Step(s, i) = s
      BY <2>4
    <3> HIDE DEF Step
    <3> QED
      BY <2>1, <3>1 DEF PlaceOk
  <2> QED
    BY <2>3, <2>4
<1> HIDE DEF Step
<1>5. \E f : Is(f) /\ \A i \in 0..n : f[i] \in S[i]
  <2>1. \A i \in 1..n : \A s \in S[i - 1] : step[i][s] \in S[i] /\ step[i][s] = Step(s, i)
    <3> HIDE DEF S
    <3> QED
      BY <1>4
  <2> HIDE DEF step, S, n
  <2>2. PICK f : Unrolls(f, n, st, step) /\ \A i \in 0..n : f[i] \in S[i]
    BY <1>1, <1>2, <2>1, StepsExist
  <2>3. \A i \in 1..n : step[i][f[i - 1]] = Step(f[i - 1], i)
    <3>1. \A i \in 1..n : f[i - 1] \in S[i - 1]
      BY <1>1, <2>2
    <3> QED
      BY <2>1, <3>1
  <2>4. Is(f)
    BY <1>1, <2>2, <2>3 DEF Unrolls
  <2> QED
    BY <2>2, <2>4
<1> DEFINE all == g[n]
           ok == Cardinality(all.ids[k]) >= Wanted(vnf)
<1>6. ScaleOut(st, path, k, vnf) = [all EXCEPT !.ok = ok]
  BY DEF ScaleOut, Step
<1>7. Is(g)
  <2> HIDE DEF Is, S
  <2> QED
    BY <1>5
<1> HIDE DEF g
<1>8. \A i \in 0..n : g[i] \in S[i]
  <2>1. g[0] \in S[0]
    BY <1>1, <1>2, <1>7
  <2>2. \A i \in 1..n : g[i] = Step(g[i - 1], i)
    BY <1>1, <1>7
  <2> HIDE DEF S, Is, n
  <2>3. \A i \in 1..n : g[i - 1] \in S[i - 1] => g[i] \in S[i]
    BY <1>4, <2>2
  <2> QED
    BY <1>1, <2>1, <2>3, StepsKeep
<1>9. PlaceOk(all, k)
  <2> HIDE DEF Is
  <2> QED
    BY <1>1, <1>8
<1> HIDE DEF all, ok
<1>10. ok \in BOOLEAN
  BY DEF ok
<1> DEFINE new == [all EXCEPT !.ok = ok]
<1>11. /\ new = [ins |-> all.ins, ids |-> all.ids, g |-> all.g, ok |-> ok]
       /\ all \in PlaceType
  <2>1. all = [ins |-> all.ins, ids |-> all.ids, g |-> all.g, ok |-> all.ok]
    BY <1>9 DEF PlaceOk, PlaceType
  <2> QED
    BY <1>9, <2>1 DEF PlaceOk
<1> HIDE DEF new
<1>12. new \in PlaceType /\ new.ins = all.ins /\ new.ids = all.ids /\ new.g = all.g
  BY <1>10, <1>11 DEF PlaceType
<1>13. PlaceOk(new, k)
  <2>1. \A j : Fresh(new, j) = Fresh(all, j)
    BY <1>12 DEF Fresh
  <2> QED
    BY <1>9, <1>12, <2>1 DEF PlaceOk
<1> QED
  BY <1>6, <1>13 DEF new

LEMMA PlaceStep ==
  ASSUME Places0, NEW k \in 1..Len(Chain(cur)), NEW st, PlaceOk(st, k - 1),
         NEW path \in Seq(Nodes)
  PROVE  PlaceOk(Place(st, path, k, Chain(cur)[k]), k)
<1>1. PlaceOk(st, k) /\ st.ids[k] = {}
  <2>1. \A j \in 1..Len(Chain(cur)) : j > k => j > k - 1
    BY RequestIs DEF Places0, Known
  <2>2. k > k - 1
    OBVIOUS
  <2> QED
    BY <2>1, <2>2 DEF PlaceOk
<1> QED
  BY <1>1, ScaleUpStep, ScaleOutStep DEF Place

NothingPlaced == slotIds = [k \in 1..Len(Chain(cur)) |-> {}]

\* What deploy_functions leaves behind.
LEMMA PlaceChainIs ==
  ASSUME Places0, mGraph \in GraphType, NodeBooks(mGraph, Whole(mInstances)),
         NothingPlaced, NEW path \in Seq(Nodes)
  PROVE  PlaceOk(PlaceChain(path), Len(Chain(cur)))
<1> DEFINE n == Len(Chain(cur))
           first == [ins |-> mInstances, ids |-> slotIds, g |-> mGraph, ok |-> TRUE]
           Step(st, k) == IF st.ok THEN Place(st, path, k, Chain(cur)[k]) ELSE st
           S == [k \in 0..n |-> {st \in PlaceType : PlaceOk(st, k)}]
           Is(f) == f = [k \in 0..n |-> IF k = 0 THEN first ELSE Step(f[k - 1], k)]
           step == [k \in 1..n |-> [st \in S[k - 1] |-> Step(st, k)]]
           g == CHOOSE f : Is(f)
<1>1. n \in Nat
  BY RequestIs DEF Places0, Known
<1>2. first \in S[0]
  <2>1. first \in PlaceType
    BY DEF Places0, PlaceType, NothingPlaced
  <2>2. \A k \in 1..n : Fresh(first, k) /\ first.ids[k] = {}
    BY FS_EmptySet DEF Fresh, NothingPlaced
  <2>3. PlaceOk(first, 0)
    <3> HIDE DEF n
    <3>1. first.g = mGraph /\ first.ins = mInstances
      OBVIOUS
    <3> HIDE DEF first
    <3> QED
      BY <2>1, <2>2, <3>1 DEF PlaceOk, n
  <2> HIDE DEF first
  <2> QED
    BY <1>1, <2>1, <2>3
<1>3. ASSUME NEW k \in 1..n, NEW st \in S[k - 1]
      PROVE  Step(st, k) \in S[k]
  <2>1. k - 1 \in 0..n /\ k \in 0..n
    BY <1>1
  <2>2. PlaceOk(st, k - 1)
    BY <2>1
  <2> DEFINE new == Step(st, k)
  <2>3. PlaceOk(new, k)
    <3>1. CASE st.ok
      BY <2>2, <3>1, PlaceStep
    <3>2. CASE ~st.ok
      <4>1. \A j \in 1..n : j > k => j > k - 1
        BY <2>1
      <4> QED
        BY <2>2, <3>2, <4>1 DEF PlaceOk
    <3> QED
      BY <3>1, <3>2
  <2> HIDE DEF new
  <2> QED
    BY <2>1, <2>3 DEF PlaceOk, new
<1> HIDE DEF Step, first
<1>4. \E f : Is(f) /\ \A k \in 0..n : f[k] \in S[k]
  <2>1. \A k \in 1..n : \A st \in S[k - 1] : step[k][st] \in S[k] /\ step[k][st] = Step(st, k)
    <3> HIDE DEF S
    <3> QED
      BY <1>3
  <2> HIDE DEF step, S, n
  <2>2. PICK f : Unrolls(f, n, first, step) /\ \A k \in 0..n : f[k] \in S[k]
    BY <1>1, <1>2, <2>1, StepsExist
  <2>3. \A k \in 1..n : step[k][f[k - 1]] = Step(f[k - 1], k)
    <3>1. \A k \in 1..n : f[k - 1] \in S[k - 1]
      BY <1>1, <2>2
    <3> QED
      BY <2>1, <3>1
  <2>4. Is(f)
    <3>1. /\ f = [k \in 0..n |-> f[k]]
          /\ \A k \in 0..n : f[k] = IF k = 0 THEN first ELSE step[k][f[k - 1]]
      BY <2>2 DEF Unrolls
    <3>2. \A k \in 0..n : k # 0 => k \in 1..n
      BY <1>1
    <3>3. \A k \in 0..n : f[k] = IF k = 0 THEN first ELSE Step(f[k - 1], k)
      BY <2>3, <3>1, <3>2
    <3> QED
      BY <3>1, <3>3
  <2> QED
    BY <2>2, <2>4
<1>5. PlaceChain(path) = g[n]
  BY DEF PlaceChain, Step, first
<1>6. Is(g)
  <2> HIDE DEF Is, S
  <2> QED
    BY <1>4
<1> HIDE DEF g
<1>7. \A k \in 0..n : g[k] \in S[k]
  <2>1. g[0] \in S[0]
    BY <1>1, <1>2, <1>6
  <2>2. \A k \in 1..n : g[k] = Step(g[k - 1], k)
    BY <1>1, <1>6
  <2> HIDE DEF S, Is, n
  <2>3. \A k \in 1..n : g[k - 1] \in S[k - 1] => g[k] \in S[k]
    BY <1>3, <2>2
  <2> QED
    BY <1>1, <2>1, <2>3, StepsKeep
<1>8. PlaceOk(PlaceChain(path), n)
  <2> HIDE DEF Is
  <2> QED
    BY <1>1, <1>5, <1>7
<1> QED
  BY <1>8

\* deploy_functions: nothing but places is given away.
LEMMA DeployStep ==
  ASSUME BooksInv, DeployFunctions
  PROVE  /\ BooksInv'
         /\ Places0 /\ \A st : st.ins = tmpInstances' /\ st.ids = slotIds' =>
              \A k \in 1..Len(Chain(cur)) : Fresh(st, k)
<1> DEFINE paths == PathSet(cur)
           st == PlaceChain(Head(paths))
<1>1. /\ UNCHANGED setupVars /\ UNCHANGED resultVars /\ UNCHANGED flowVars
      /\ cur' = cur /\ time' = time /\ offline' = offline
      /\ pc = "place" /\ pc' = "steer" /\ paths # <<>>
      /\ UNCHANGED <<mGraph, mInstances>>
      /\ tmpGraph' = st.g /\ tmpInstances' = st.ins /\ slotIds' = st.ids
  BY DEF DeployFunctions, callerVars
<1>2. SetupInv' /\ requests' = requests /\ cfg' = cfg /\ phase' = phase
  BY <1>1, SetupFrame DEF BooksInv
<1>3. /\ SetupTypeOK /\ cur \in Rs /\ Known /\ pc \in Busy
  BY <1>1, Facts DEF Busy
<1>4. Results'
  BY <1>1, <1>2, ResultsFrame DEF BooksInv
<1>5. Callers'
  BY <1>1, <1>2, Frame DEF BooksInv, Callers, Pcs
<1>6. /\ WorkFlows /\ MCopies /\ MBooks /\ steered = <<>> /\ (offline \/ succ[cur])
      /\ toRelease = {} /\ NothingPlaced
  BY <1>1 DEF BooksInv, Work, Busy, NothingPlaced
<1>7. /\ WorkFlows' = WorkFlows /\ MCopies' = MCopies
  BY <1>1, <1>2, WorkFrame
<1>8. Places0
  BY <1>3, <1>6 DEF Places0, MCopies, WorkFlows
<1>9. Head(paths) \in Seq(Nodes)
  <2> DEFINE r == requests[cur]
  <2>1. r.source \in Nodes /\ r.target \in Nodes /\ r.source # r.target
    BY <1>3, RequestIs
  <2>2. paths = Ksp[<<r.source, r.target>>]
    BY DEF PathSet
  <2> HIDE DEF r
  <2>3. Len(paths) \in Nat /\ \A i \in 1..Len(paths) : IsRoute(paths[i], r.source, r.target)
    BY <2>1, <2>2, KspRoutes
  <2> QED
    <3>1. Len(paths) # 0 /\ Head(paths) = paths[1]
      BY <1>1, <2>2
    <3> QED
      BY <2>3, <3>1 DEF IsRoute
<1> HIDE DEF paths
<1>10. PlaceOk(st, Len(Chain(cur)))
  BY <1>6, <1>8, <1>9, PlaceChainIs DEF MCopies, MBooks
<1> HIDE DEF st
<1>11. /\ TmpCopies' /\ TmpBooks' /\ SlotIdsThere'
  <2>1. /\ st.g \in GraphType /\ st.ins \in Maps(cur) /\ st.g.link = mGraph.link
        /\ NodeBooks(st.g, Whole(st.ins)) /\ DOMAIN st.ids = 1..Len(Chain(cur))
        /\ \A k \in 1..Len(Chain(cur)) : st.ids[k] \subseteq DOMAIN st.ins[k]
    BY <1>10 DEF PlaceOk, PlaceType, Fresh
  <2>2. /\ MidDeployed' = MidDeployed /\ MidHeld' = MidHeld
    BY <1>1, <1>2, MidFrame DEF flowVars
  <2>3. Whole(tmpInstances)' = Whole(st.ins)
    BY <1>1 DEF Whole, resultVars
  <2>4. LinkBooks(st.g, MidDeployed, MidHeld)
    BY <1>6, <2>1 DEF MBooks, LinkBooks
  <2>5. /\ \A k : (slotIds[k] \subseteq DOMAIN tmpInstances[k])'
                    = (st.ids[k] \subseteq DOMAIN st.ins[k])
    BY <1>1
  <2> QED
    BY <1>1, <1>2, <2>1, <2>2, <2>3, <2>4, Frame DEF TmpCopies, TmpBooks, SlotIdsThere
<1>12. Work'
  <2>1. UNCHANGED <<toRelease, toDeploy, steered, succ>> /\ Chain(cur)' = Chain(cur)
    BY <1>1, <1>2, Frame DEF flowVars, resultVars
  <2> QED
    BY <1>1, <1>6, <1>7, <1>11, <2>1 DEF Work, Busy
<1>13. Bounded'
  <2>1. Within(tmpGraph')
    <3>1. st.g \in GraphType /\ st.ins \in Maps(cur) /\ st.g.link = mGraph.link
          /\ NodeBooks(st.g, Whole(st.ins))
      BY <1>10 DEF PlaceOk, PlaceType
    <3>2. LinkBooks(st.g, MidDeployed, MidHeld)
      BY <1>6, <3>1 DEF MBooks, LinkBooks
    <3> QED
      BY <1>1, <1>3, <3>1, <3>2, MidBounds
  <2> QED
    BY <1>1, <1>2, <2>1, Frame DEF BooksInv, Bounded
<1>14. BooksInv'
  BY <1>2, <1>4, <1>5, <1>12, <1>13 DEF BooksInv
<1>15. ASSUME NEW s, s.ins = tmpInstances', s.ids = slotIds', NEW k \in 1..Len(Chain(cur))
       PROVE  Fresh(s, k)
  <2>1. Fresh(st, k) /\ s.ins = st.ins /\ s.ids = st.ids
    BY <1>1, <1>10, <1>15 DEF PlaceOk
  <2> QED
    BY <2>1 DEF Fresh
<1> QED
  BY <1>8, <1>14, <1>15

-----------------------------------------------------------------------------
(***************************************************************************)
(* Steering: which instances a flow is given, and what it takes of links.  *)
(***************************************************************************)
\* What a flow with a rate takes of a link along a path.
Share(p, rate, e) == rate * Times(p, e)

LEMMA ShareIs ==
  ASSUME NEW p \in Seq(Nodes), NEW rate \in Nat, NEW e
  PROVE  /\ Share(p, rate, e) \in Nat
         /\ Len(p) <= 1 => Share(p, rate, e) = 0
<1> DEFINE times == Times(p, e)
<1>1. times \in Nat
  BY TimesType
<1>2. Len(p) <= 1 => times = 0
  BY TimesShort
<1>3. Share(p, rate, e) = rate * times
  BY DEF Share
<1> HIDE DEF times
<1>4. rate * times \in Nat /\ (times = 0 => rate * times = 0)
  BY <1>1
<1> QED
  BY <1>2, <1>3, <1>4

LEMMA ShareJoined ==
  ASSUME NEW p \in Seq(Nodes), NEW q \in Seq(Nodes), q # <<>>,
         p = <<>> \/ p[Len(p)] = q[1], NEW rate \in Nat
  PROVE  /\ Joined(p, q) \in Seq(Nodes) /\ Joined(p, q) # <<>>
         /\ Joined(p, q)[Len(Joined(p, q))] = q[Len(q)]
         /\ \A e : Share(Joined(p, q), rate, e) = Share(p, rate, e) + Share(q, rate, e)
<1>1. CASE p = <<>>
  <2>1. Joined(p, q) = q
    <3>1. Joined(p, q) = <<>> \o q
      BY <1>1 DEF Joined
    <3> QED
      BY <3>1, ConcatEmptySeq
  <2>2. \A e : Share(p, rate, e) = 0 /\ Share(q, rate, e) \in Nat
    <3> TAKE e
    <3>1. Len(p) <= 1
      BY <1>1
    <3>2. Share(p, rate, e) = 0
      BY <3>1, ShareIs
    <3>3. Share(q, rate, e) \in Nat
      BY ShareIs
    <3> QED
      BY <3>2, <3>3
  <2> QED
    BY <2>1, <2>2
<1>2. CASE p # <<>>
  <2>1. p[Len(p)] = q[1] /\ Last(p) = p[Len(p)] /\ Head(q) = q[1]
    BY <1>2 DEF Last
  <2>2. Joined(p, q) = p \o Tail(q)
    BY <1>2, <2>1 DEF Joined
  <2>3. /\ Joined(p, q) \in Seq(Nodes) /\ Joined(p, q) # <<>>
        /\ Joined(p, q)[Len(Joined(p, q))] = q[Len(q)]
        /\ \A e : Times(Joined(p, q), e) = Times(p, e) + Times(q, e)
    BY <1>2, <2>1, <2>2, TimesJoined
  <2>4. ASSUME NEW e
        PROVE  Share(Joined(p, q), rate, e) = Share(p, rate, e) + Share(q, rate, e)
    <3> DEFINE a == Times(p, e)
               b == Times(q, e)
    <3>1. a \in Nat /\ b \in Nat
      BY TimesType
    <3>2. /\ Share(Joined(p, q), rate, e) = rate * (a + b)
          /\ Share(p, rate, e) = rate * a /\ Share(q, rate, e) = rate * b
      BY <2>3 DEF Share
    <3> HIDE DEF a, b
    <3>3. rate * (a + b) = rate * a + rate * b
      BY <3>1
    <3> QED
      BY <3>2, <3>3
  <2> QED
    BY <2>3, <2>4
<1> QED
  BY <1>1, <1>2

\* select_flow_path: what it returns has the bandwidth.
LEMMA RouteIs ==
  ASSUME NEW g \in GraphType, NEW u \in Nodes, NEW w \in Nodes, NEW rate \in Nat,
         Route(g, u, w, rate) # <<>>
  PROVE  LET p == Route(g, u, w, rate)
         IN  /\ p \in Seq(Nodes) /\ p[1] = u /\ p[Len(p)] = w
             /\ \A e \in Links : Share(p, rate, e) <= g.link[e]
<1> DEFINE p == Route(g, u, w, rate)
<1>1. CASE u = w
  <2>1. p = <<u>>
    BY <1>1 DEF Route
  <2>2. p \in Seq(Nodes) /\ Len(p) = 1 /\ p[1] = u
    BY <2>1
  <2> HIDE DEF p
  <2>3. ASSUME NEW e \in Links
        PROVE  Share(p, rate, e) <= g.link[e]
    <3>1. Len(p) <= 1
      BY <2>2
    <3>2. Share(p, rate, e) = 0
      BY <2>2, <3>1, ShareIs
    <3>3. g.link[e] \in Nat
      BY DEF GraphType
    <3> QED
      BY <3>2, <3>3
  <2> QED
    BY <1>1, <2>2, <2>3 DEF p
<1>2. CASE u # w
  <2> DEFINE paths == Ksp[<<u, w>>]
             wide == {i \in 1..Len(paths) : CheckPathBw(g, paths[i], rate)}
  <2>1. p = IF wide = {} THEN <<>> ELSE paths[Min(wide)]
    BY <1>2 DEF Route
  <2>2. wide # {} /\ p = paths[Min(wide)]
    BY <2>1
  <2>3. Len(paths) \in Nat /\ \A i \in 1..Len(paths) : IsRoute(paths[i], u, w)
    BY <1>2, KspRoutes
  <2>4. Min(wide) \in wide
    <3>1. wide \in SUBSET Nat
      BY <2>3
    <3> HIDE DEF wide
    <3> QED
      BY <2>2, <3>1, MinIs
  <2>5. IsRoute(p, u, w) /\ CheckPathBw(g, p, rate)
    BY <2>2, <2>3, <2>4
  <2> HIDE DEF p, wide, paths
  <2>6. ASSUME NEW e \in Links
        PROVE  Share(p, rate, e) <= g.link[e]
    <3> DEFINE times == Times(p, e)
    <3>1. times \in {0, 1} /\ (times = 1 => e \in EdgesOf(p))
      BY <2>5, TimesRoute
    <3>2. e \in EdgesOf(p) => g.link[e] >= rate
      BY <2>5 DEF CheckPathBw
    <3>3. Share(p, rate, e) = rate * times
      BY DEF Share
    <3>4. g.link[e] \in Nat
      BY DEF GraphType
    <3> HIDE DEF times
    <3> QED
      BY <3>1, <3>2, <3>3, <3>4
  <2> QED
    BY <2>5, <2>6 DEF IsRoute, p
<1> QED
  BY <1>1, <1>2

LEMMA LinkSubtracts ==
  ASSUME NEW g \in GraphType, NEW p \in Seq(Nodes), NEW rate \in Nat,
         \A e \in Links : Share(p, rate, e) <= g.link[e]
  PROVE  /\ MinusPathBw(g, p, rate) \in GraphType
         /\ MinusPathBw(g, p, rate).node = g.node
         /\ \A e \in Links : MinusPathBw(g, p, rate).link[e]
                               = g.link[e] - Share(p, rate, e)
<1>1. g.node \in [Nodes -> Nat] /\ g.link \in [Links -> Nat]
  BY DEF GraphType
<1> DEFINE link == [e \in Links |-> g.link[e] - Share(p, rate, e)]
<1>2. MinusPathBw(g, p, rate) = [g EXCEPT !.link = link]
  BY <1>1 DEF MinusPathBw, Share
<1>3. \A e \in Links : Share(p, rate, e) \in Nat
  BY ShareIs
<1>4. link \in [Links -> Nat]
  BY <1>1, <1>3
<1>5. MinusPathBw(g, p, rate) = [node |-> g.node, link |-> link]
  <2>1. g = [node |-> g.node, link |-> g.link]
    BY DEF GraphType
  <2> HIDE DEF link
  <2> QED
    BY <1>2, <2>1
<1>6. \A e \in Links : link[e] = g.link[e] - Share(p, rate, e)
  OBVIOUS
<1> HIDE DEF link
<1> QED
  BY <1>1, <1>4, <1>5, <1>6 DEF GraphType

SteerType ==
  [ins : Maps(cur), g : GraphType, path : Seq(Nodes), ret : {"ok", "fail", "undefined"}]

LEMMA SegmentIs ==
  ASSUME Known, NEW s \in SteerType, s.ret = "ok", NEW u \in Nodes, NEW w \in Nodes,
         s.path = <<>> \/ s.path[Len(s.path)] = u, NEW rate \in Nat
  PROVE  LET t == Segment(s, u, w, rate)
         IN  /\ t \in SteerType /\ t.ins = s.ins /\ t.ret \in {"ok", "fail"}
             /\ t.ret = "ok" =>
                  /\ t.g.node = s.g.node /\ t.path # <<>> /\ t.path[Len(t.path)] = w
                  /\ \A e \in Links : t.g.link[e] + Share(t.path, rate, e)
                                        = s.g.link[e] + Share(s.path, rate, e)
<1> DEFINE route == Route(s.g, u, w, rate)
           t == Segment(s, u, w, rate)
<1>1. /\ s.ins \in Maps(cur) /\ s.g \in GraphType /\ s.path \in Seq(Nodes)
      /\ s = [ins |-> s.ins, g |-> s.g, path |-> s.path, ret |-> s.ret]
  BY DEF SteerType
<1>2. CASE route = <<>>
  <2>1. t = [s EXCEPT !.ret = "fail"]
    BY <1>2 DEF Segment
  <2> HIDE DEF t
  <2>2. t = [ins |-> s.ins, g |-> s.g, path |-> s.path, ret |-> "fail"]
    BY <1>1, <2>1
  <2> QED
    BY <1>1, <2>2 DEF SteerType, t
<1>3. CASE route # <<>>
  <2> DEFINE g == MinusPathBw(s.g, route, rate)
             path == Joined(s.path, route)
  <2>1. t = [s EXCEPT !.g = g, !.path = path]
    BY <1>3 DEF Segment
  <2>2. /\ route \in Seq(Nodes) /\ route[1] = u /\ route[Len(route)] = w
        /\ \A e \in Links : Share(route, rate, e) <= s.g.link[e]
    BY <1>1, <1>3, RouteIs
  <2> HIDE DEF t, route
  <2>3. /\ g \in GraphType /\ g.node = s.g.node
        /\ \A e \in Links : g.link[e] = s.g.link[e] - Share(route, rate, e)
    BY <1>1, <2>2, LinkSubtracts
  <2>4. /\ path \in Seq(Nodes) /\ path # <<>> /\ path[Len(path)] = w
        /\ \A e : Share(path, rate, e) = Share(s.path, rate, e) + Share(route, rate, e)
    BY <1>1, <1>3, <2>2, ShareJoined
  <2> HIDE DEF g, path
  <2>5. t = [ins |-> s.ins, g |-> g, path |-> path, ret |-> "ok"]
    BY <1>1, <2>1
  <2>6. ASSUME NEW e \in Links
        PROVE  g.link[e] + Share(path, rate, e) = s.g.link[e] + Share(s.path, rate, e)
    <3>1. Share(route, rate, e) \in Nat /\ Share(s.path, rate, e) \in Nat
      BY <1>1, <2>2, ShareIs
    <3>2. s.g.link[e] \in Nat
      BY <1>1 DEF GraphType
    <3> QED
      BY <2>3, <2>4, <3>1, <3>2
  <2> QED
    BY <1>1, <2>3, <2>4, <2>5, <2>6 DEF SteerType, t
<1> QED
  BY <1>2, <1>3

\* get_least_used_instance.
Rated(k) == {id \in slotIds[k] : tmpInstances[k][id].cap > 0}

LEMMA LeastUsedIs ==
  ASSUME tmpInstances \in Maps(cur), SlotIdsThere, NEW k \in 1..Len(Chain(cur))
  PROVE  /\ LeastUsed(k) \in Nat
         /\ Rated(k) = {} => LeastUsed(k) = 1
         /\ Rated(k) # {} =>
              /\ LeastUsed(k) \in Rated(k)
              /\ \A id \in Rated(k) :
                   tmpInstances[k][LeastUsed(k)].used <= tmpInstances[k][id].used
<1> DEFINE used(id) == tmpInstances[k][id].used
           T == {used(id) : id \in Rated(k)}
           lowest == Min(T)
           L == {id \in Rated(k) : used(id) = lowest}
<1>1. LeastUsed(k) = IF Rated(k) = {} THEN 1 ELSE Max(L)
  BY DEF LeastUsed, Rated
<1>2. /\ tmpInstances[k] \in InstanceMaps /\ Rated(k) \subseteq DOMAIN tmpInstances[k]
      /\ DOMAIN tmpInstances[k] \in SUBSET Nat /\ IsFiniteSet(DOMAIN tmpInstances[k])
      /\ \A id \in DOMAIN tmpInstances[k] : tmpInstances[k][id] \in Instance
  <2>1. tmpInstances[k] \in InstanceMaps
    BY DEF Maps
  <2> QED
    BY <2>1, MapIs DEF SlotIdsThere, Rated
<1>3. ASSUME Rated(k) # {}
      PROVE  LeastUsed(k) \in Rated(k) /\ \A id \in Rated(k) : used(LeastUsed(k)) <= used(id)
  <2>1. T \in SUBSET Nat /\ T # {}
    BY <1>2, <1>3 DEF Instance
  <2>2. lowest \in T /\ \A x \in T : lowest <= x
    <3> HIDE DEF T
    <3> QED
      BY <2>1, MinIs
  <2>3. L # {} /\ L \in SUBSET Nat /\ IsFiniteSet(L) /\ L \subseteq Rated(k)
    <3>1. L # {}
      BY <2>2
    <3>2. L \subseteq DOMAIN tmpInstances[k] /\ L \subseteq Rated(k)
      BY <1>2
    <3> HIDE DEF L
    <3> QED
      BY <1>2, <3>1, <3>2, FS_Subset
  <2>4. Max(L) \in L
    <3> HIDE DEF L
    <3> QED
      BY <2>3, MaxIs
  <2>5. Max(L) \in Rated(k) /\ used(Max(L)) = lowest
    BY <2>4
  <2>6. \A id \in Rated(k) : lowest <= used(id)
    BY <2>2
  <2> QED
    BY <1>1, <1>3, <2>5, <2>6
<1>4. LeastUsed(k) \in Nat
  BY <1>1, <1>2, <1>3
<1> QED
  BY <1>1, <1>3, <1>4

\* What a flow makes of the instances it is given.
Charged(i, k) ==
  Added(tmpInstances[k][LeastUsed(k)].used, Chain(cur), k, Flow(cur, i).rate)
ChargedMap(i, k) == [tmpInstances[k] EXCEPT ![LeastUsed(k)].used = Charged(i, k)]

\* There is room for it.
Fits(i, k) ==
  /\ LeastUsed(k) \in DOMAIN tmpInstances[k]
  /\ Part(Chain(cur), k, Flow(cur, i).rate)
       <= (tmpInstances[k][LeastUsed(k)].cap - tmpInstances[k][LeastUsed(k)].used)
            * Hundreds(k)

\* A flow that has been led through k functions.
Through(s, i, k) ==
  /\ s.g.node = tmpGraph.node
  /\ \A e \in Links : s.g.link[e] + Share(s.path, Flow(cur, i).rate, e) = tmpGraph.link[e]
  /\ k = 0 => s.path = <<>>
  /\ k \in 1..Len(Chain(cur)) - 1 =>
       s.path # <<>> /\ s.path[Len(s.path)] = tmpInstances[k][LeastUsed(k)].node
  /\ \A j \in 1..Len(Chain(cur)) :
       IF j <= k THEN s.ins[j] = ChargedMap(i, j) /\ Fits(i, j)
                 ELSE s.ins[j] = tmpInstances[j]

SteerOk(s, i, k) ==
  /\ s \in SteerType
  /\ s.ret = "ok" => Through(s, i, k)
  /\ s.ret = "undefined" =>
       \E j \in 1..Len(Chain(cur)) : LeastUsed(j) \notin DOMAIN tmpInstances[j]

Steers(i) ==
  /\ Known /\ i \in FlowIds(cur) /\ TmpCopies /\ SlotIdsThere

Hosts == [k \in 1..Len(Chain(cur)) |-> LeastUsed(k)]

LEMMA ChargedIs ==
  ASSUME NEW i, Steers(i), NEW k \in 1..Len(Chain(cur)),
         LeastUsed(k) \in DOMAIN tmpInstances[k]
  PROVE  /\ tmpInstances[k] \in InstanceMaps
         /\ tmpInstances[k][LeastUsed(k)] \in Instance
         /\ Charged(i, k) \in Nat
         /\ ChargedMap(i, k) \in InstanceMaps
         /\ DOMAIN ChargedMap(i, k) = DOMAIN tmpInstances[k]
         /\ \A id \in DOMAIN tmpInstances[k] :
              /\ ChargedMap(i, k)[id].node = tmpInstances[k][id].node
              /\ ChargedMap(i, k)[id].cap = tmpInstances[k][id].cap
              /\ id # LeastUsed(k) => ChargedMap(i, k)[id] = tmpInstances[k][id]
         /\ ChargedMap(i, k)[LeastUsed(k)].used = Charged(i, k)
<1> DEFINE id == LeastUsed(k)
           m == tmpInstances[k]
           u == Charged(i, k)
<1>1. m \in InstanceMaps /\ m[id] \in Instance
  BY MapIs DEF Steers, TmpCopies, Maps
<1>2. Flow(cur, i).rate \in Nat /\ Chain(cur) \in Seq(Function)
  BY RequestIs DEF Steers, Known
<1>3. u \in Nat
  <2>1. m[id].used \in Nat
    BY <1>1 DEF Instance
  <2> QED
    BY <1>2, <2>1, AddedIs DEF Charged
<1>4. ChargedMap(i, k) = [m EXCEPT ![id].used = u]
  BY DEF ChargedMap
<1> HIDE DEF m, id, u
<1>5. id \in DOMAIN m
  BY DEF m, id
<1>6. /\ [m EXCEPT ![id].used = u] \in InstanceMaps
      /\ DOMAIN [m EXCEPT ![id].used = u] = DOMAIN m
      /\ \A j \in DOMAIN m : /\ [m EXCEPT ![id].used = u][j].node = m[j].node
                             /\ [m EXCEPT ![id].used = u][j].cap = m[j].cap
      /\ [m EXCEPT ![id].used = u][id].used = u
      /\ \A j \in DOMAIN m : j # id => [m EXCEPT ![id].used = u][j] = m[j]
  BY <1>1, <1>3, <1>5, UsedIs
<1> QED
  BY <1>1, <1>3, <1>4, <1>6 DEF m, id, u

\* One function more.
LEMMA SteerStep ==
  ASSUME NEW i, Steers(i), NEW k \in 1..Len(Chain(cur)), NEW s, SteerOk(s, i, k - 1)
  PROVE  SteerOk(SteerThrough(s, i, Hosts, k), i, k)
<1> DEFINE n == Len(Chain(cur))
           rate == Flow(cur, i).rate
           host == LeastUsed(k)
           sf == s.ins[k][host]
           room == (sf.cap - sf.used) * Hundreds(k)
           charged == WithUse(s, k, host, Added(sf.used, Chain(cur), k, rate))
           from == Previous(s, Hosts, k)
           reached == Segment(charged, from, sf.node, rate)
           last == Segment(reached, sf.node, requests[cur].target, rate)
           new == SteerThrough(s, i, Hosts, k)
<1>1. new = IF s.ret # "ok" THEN s
            ELSE IF host \notin DOMAIN s.ins[k] THEN [s EXCEPT !.ret = "undefined"]
            ELSE IF Part(Chain(cur), k, rate) > room THEN [s EXCEPT !.ret = "fail"]
            ELSE IF k < n THEN reached ELSE last
  <2>1. Hosts[k] = host
    BY DEF Hosts
  <2> HIDE DEF host
  <2> QED
    BY <2>1 DEF SteerThrough
<1>2. /\ s.ins \in Maps(cur) /\ s.g \in GraphType /\ s.path \in Seq(Nodes)
      /\ s = [ins |-> s.ins, g |-> s.g, path |-> s.path, ret |-> s.ret]
      /\ s \in SteerType /\ n \in Nat /\ Known /\ rate \in Nat
      /\ requests[cur].source \in Nodes /\ requests[cur].target \in Nodes
      /\ Chain(cur) \in Seq(Function)
  BY RequestIs DEF SteerOk, SteerType, Steers, Known
<1> HIDE DEF new
<1>3. CASE s.ret # "ok"
  BY <1>1, <1>3 DEF SteerOk, new
<1>4. CASE s.ret = "ok"
  <2>1. Through(s, i, k - 1)
    BY <1>4 DEF SteerOk
  <2>2. s.ins[k] = tmpInstances[k]
    BY <2>1 DEF Through
  <2>3. CASE host \notin DOMAIN s.ins[k]
    <3>1. new = [s EXCEPT !.ret = "undefined"]
      BY <1>1, <1>4, <2>3
    <3>2. new = [ins |-> s.ins, g |-> s.g, path |-> s.path, ret |-> "undefined"]
      BY <1>2, <3>1
    <3>3. host \notin DOMAIN tmpInstances[k]
      BY <2>2, <2>3
    <3> QED
      BY <1>2, <3>2, <3>3 DEF SteerOk, SteerType, new
  <2>4. CASE host \in DOMAIN s.ins[k] /\ Part(Chain(cur), k, rate) > room
    <3>1. new = [s EXCEPT !.ret = "fail"]
      BY <1>1, <1>4, <2>4
    <3>2. new = [ins |-> s.ins, g |-> s.g, path |-> s.path, ret |-> "fail"]
      BY <1>2, <3>1
    <3> QED
      BY <1>2, <3>2 DEF SteerOk, SteerType, new
  <2>5. CASE host \in DOMAIN s.ins[k] /\ ~(Part(Chain(cur), k, rate) > room)
    <3>1. new = IF k < n THEN reached ELSE last
      BY <1>1, <1>4, <2>5
    <3>2. /\ host \in DOMAIN tmpInstances[k] /\ sf = tmpInstances[k][host]
          /\ sf \in Instance /\ sf.node \in Nodes
      <4>1. host \in DOMAIN tmpInstances[k] /\ sf = tmpInstances[k][host]
        BY <2>2, <2>5
      <4>2. tmpInstances[k][host] \in Instance
        BY <4>1, ChargedIs
      <4> QED
        BY <4>1, <4>2 DEF Instance
    <3>3. Fits(i, k)
      <4>1. room \in Int /\ Part(Chain(cur), k, rate) \in Nat
        <5>1. sf.cap - sf.used \in Int /\ Hundreds(k) \in Nat /\ Part(Chain(cur), k, rate) \in Nat
          <6>1. Hundreds(k) \in Nat /\ Part(Chain(cur), k, rate) \in Nat
            <7> HIDE DEF rate
            <7> QED
              BY <1>2, PartTypes
          <6>2. sf.cap \in Nat /\ sf.used \in Nat
            <7> HIDE DEF sf
            <7> QED
              BY <3>2 DEF Instance
          <6> QED
            BY <6>1, <6>2
        <5> DEFINE a == sf.cap - sf.used
                   h == Hundreds(k)
        <5>2. a \in Int /\ h \in Int
          BY <5>1
        <5> HIDE DEF a, h
        <5>3. a * h \in Int
          BY <5>2
        <5> QED
          BY <5>1, <5>3 DEF a, h
      <4>2. room = (tmpInstances[k][host].cap - tmpInstances[k][host].used) * Hundreds(k)
        BY <2>2
      <4> HIDE DEF room
      <4> QED
        BY <2>5, <3>2, <4>1, <4>2 DEF Fits
    <3> DEFINE map == ChargedMap(i, k)
               ins == [s.ins EXCEPT ![k] = map]
    <3>4. charged = [ins |-> ins, g |-> s.g, path |-> s.path, ret |-> s.ret]
      <4>1. charged = [s EXCEPT !.ins = ins]
        BY <2>2 DEF WithUse, ChargedMap, Charged
      <4> HIDE DEF charged, ins
      <4> QED
        BY <1>2, <4>1
    <3>5. map \in InstanceMaps
      BY <3>2, ChargedIs
    <3> HIDE DEF map
    <3>6. ins \in Maps(cur) /\ ins[k] = map /\ SameBut(s.ins, ins, k)
      BY <1>2, <3>5, PutIs
    <3> HIDE DEF charged, ins
    <3>7. charged \in SteerType /\ charged.ret = "ok" /\ charged.path = s.path
      BY <1>2, <1>4, <3>4, <3>6 DEF SteerType
    <3>8. from \in Nodes /\ (s.path = <<>> \/ s.path[Len(s.path)] = from)
      <4>1. CASE k = 1
        <5>1. from = requests[cur].source /\ s.path = <<>>
          BY <2>1, <4>1 DEF Previous, Through
        <5> QED
          BY <1>2, <5>1
      <4>2. CASE k # 1
        <5>1. k - 1 \in 1..n - 1 /\ k - 1 \in 1..n /\ k - 1 <= k - 1
          BY <1>2, <4>2
        <5>2. /\ s.path # <<>> /\ s.path[Len(s.path)] = tmpInstances[k - 1][LeastUsed(k - 1)].node
              /\ s.ins[k - 1] = ChargedMap(i, k - 1)
              /\ LeastUsed(k - 1) \in DOMAIN tmpInstances[k - 1]
          BY <2>1, <5>1 DEF Through, Fits
        <5>3. from = s.ins[k - 1][LeastUsed(k - 1)].node
          BY <4>2, <5>1 DEF Previous, Hosts
        <5>4. /\ tmpInstances[k - 1][LeastUsed(k - 1)] \in Instance
              /\ ChargedMap(i, k - 1)[LeastUsed(k - 1)].node
                   = tmpInstances[k - 1][LeastUsed(k - 1)].node
          BY <5>1, <5>2, ChargedIs
        <5> QED
          BY <5>2, <5>3, <5>4 DEF Instance
      <4> QED
        BY <4>1, <4>2
    <3> HIDE DEF from, sf, room, rate
    <3>9. /\ reached \in SteerType /\ reached.ins = charged.ins /\ reached.ret \in {"ok", "fail"}
          /\ reached.ret = "ok" =>
               /\ reached.g.node = charged.g.node /\ reached.path # <<>>
               /\ reached.path[Len(reached.path)] = sf.node
               /\ \A e \in Links : reached.g.link[e] + Share(reached.path, rate, e)
                                     = charged.g.link[e] + Share(charged.path, rate, e)
      BY <1>2, <3>2, <3>7, <3>8, SegmentIs
    <3> HIDE DEF reached
    <3> DEFINE Done(t) ==
                 /\ t \in SteerType /\ t.ins = ins /\ t.ret \in {"ok", "fail"}
                 /\ t.ret = "ok" =>
                      /\ t.g.node = s.g.node
                      /\ \A e \in Links : t.g.link[e] + Share(t.path, rate, e)
                                            = s.g.link[e] + Share(s.path, rate, e)
                      /\ k < n => t.path # <<>> /\ t.path[Len(t.path)] = sf.node
    <3>10. Done(reached)
      BY <3>4, <3>9
    <3>11. Done(new)
      <4>1. CASE k < n
        <5> HIDE DEF Done
        <5> QED
          BY <3>1, <3>10, <4>1
      <4>2. CASE ~(k < n) /\ reached.ret # "ok"
        <5>1. last = reached
          BY <4>2 DEF Segment
        <5> HIDE DEF Done, last
        <5> QED
          BY <3>1, <3>10, <4>2, <5>1
      <4>3. CASE ~(k < n) /\ reached.ret = "ok"
        <5>1. sf.node \in Nodes /\ reached.path[Len(reached.path)] = sf.node
          BY <3>2, <3>9, <4>3
        <5>2. /\ last \in SteerType /\ last.ins = reached.ins /\ last.ret \in {"ok", "fail"}
              /\ last.ret = "ok" =>
                   /\ last.g.node = reached.g.node
                   /\ \A e \in Links : last.g.link[e] + Share(last.path, rate, e)
                                         = reached.g.link[e] + Share(reached.path, rate, e)
          BY <1>2, <3>9, <4>3, <5>1, SegmentIs
        <5> HIDE DEF last
        <5>3. Done(last)
          BY <3>10, <4>3, <5>2
        <5> HIDE DEF Done
        <5> QED
          BY <3>1, <4>3, <5>3
      <4> QED
        BY <4>1, <4>2, <4>3
    <3>12. ASSUME new.ret = "ok"
           PROVE  Through(new, i, k)
      <4>1. /\ new.g.node = tmpGraph.node
            /\ \A e \in Links : new.g.link[e] + Share(new.path, rate, e) = tmpGraph.link[e]
        BY <2>1, <3>11, <3>12 DEF Through, rate
      <4>2. k \in 1..n - 1 => new.path # <<>> /\ new.path[Len(new.path)] = tmpInstances[k][host].node
        BY <1>2, <3>2, <3>11, <3>12
      <4>3. ASSUME NEW j \in 1..n
            PROVE  IF j <= k THEN new.ins[j] = ChargedMap(i, j) /\ Fits(i, j)
                             ELSE new.ins[j] = tmpInstances[j]
        <5>1. new.ins[j] = IF j = k THEN map ELSE s.ins[j]
          BY <3>6, <3>11 DEF SameBut
        <5>2. j # k => (j <= k <=> j <= k - 1)
          BY <1>2
        <5>3. j # k => IF j <= k - 1 THEN s.ins[j] = ChargedMap(i, j) /\ Fits(i, j)
                                     ELSE s.ins[j] = tmpInstances[j]
          BY <2>1 DEF Through
        <5> QED
          BY <3>3, <5>1, <5>2, <5>3 DEF map
      <4>4. k # 0
        OBVIOUS
      <4> QED
        BY <4>1, <4>2, <4>3, <4>4 DEF Through, rate
    <3>13. SteerOk(new, i, k)
      BY <3>11, <3>12 DEF SteerOk
    <3> QED
      BY <3>13 DEF new
  <2> QED
    BY <2>3, <2>4, <2>5
<1> QED
  BY <1>3, <1>4

\* steer_traffic_one_flow.
LEMMA SteeredIs ==
  ASSUME NEW i, Steers(i)
  PROVE  \E s : /\ SteerOk(s, i, Len(Chain(cur)))
                /\ Steered(i).ins = s.ins /\ Steered(i).g = s.g /\ Steered(i).ret = s.ret
                /\ s.ret = "ok" => Steered(i).path = [hosts |-> Hosts, path |-> s.path]
<1> DEFINE n == Len(Chain(cur))
           first == [ins |-> tmpInstances, g |-> tmpGraph, path |-> <<>>, ret |-> "ok"]
           Step(s, k) == SteerThrough(s, i, Hosts, k)
           S == [k \in 0..n |-> {s \in SteerType : SteerOk(s, i, k)}]
           Is(f) == f = [k \in 0..n |-> IF k = 0 THEN first ELSE Step(f[k - 1], k)]
           step == [k \in 1..n |-> [s \in S[k - 1] |-> Step(s, k)]]
           f == CHOOSE h : Is(h)
<1>1. n \in Nat /\ Flow(cur, i).rate \in Nat
  BY RequestIs DEF Steers, Known
<1>2. first \in S[0]
  <2>1. first \in SteerType
    BY DEF Steers, TmpCopies, SteerType
  <2>2. Through(first, i, 0)
    <3>1. \A e \in Links : Share(<<>>, Flow(cur, i).rate, e) = 0
      <4> TAKE e \in Links
      <4>1. <<>> \in Seq(Nodes) /\ Len(<<>>) <= 1
        OBVIOUS
      <4> QED
        BY <1>1, <4>1, ShareIs
    <3>2. \A e \in Links : tmpGraph.link[e] \in Nat
      BY DEF Steers, TmpCopies, GraphType
    <3>3. \A j \in 1..n : ~(j <= 0)
      BY <1>1
    <3> QED
      BY <3>1, <3>2, <3>3 DEF Through
  <2>3. SteerOk(first, i, 0)
    BY <2>1, <2>2 DEF SteerOk
  <2> HIDE DEF first
  <2> QED
    BY <1>1, <2>1, <2>3
<1>3. ASSUME NEW k \in 1..n, NEW s \in S[k - 1]
      PROVE  Step(s, k) \in S[k]
  <2>1. k - 1 \in 0..n /\ k \in 0..n
    BY <1>1
  <2>2. SteerOk(s, i, k - 1)
    BY <2>1
  <2>3. SteerOk(Step(s, k), i, k)
    BY <2>2, SteerStep
  <2> HIDE DEF Step
  <2> QED
    BY <2>1, <2>3 DEF SteerOk
<1> HIDE DEF Step, first
<1>4. \E h : Is(h) /\ \A k \in 0..n : h[k] \in S[k]
  <2>1. \A k \in 1..n : \A s \in S[k - 1] : step[k][s] \in S[k] /\ step[k][s] = Step(s, k)
    <3> HIDE DEF S
    <3> QED
      BY <1>3
  <2> HIDE DEF step, S, n
  <2>2. PICK h : Unrolls(h, n, first, step) /\ \A k \in 0..n : h[k] \in S[k]
    BY <1>1, <1>2, <2>1, StepsExist
  <2>3. \A k \in 1..n : step[k][h[k - 1]] = Step(h[k - 1], k)
    <3>1. \A k \in 1..n : h[k - 1] \in S[k - 1]
      BY <1>1, <2>2
    <3> QED
      BY <2>1, <3>1
  <2>4. Is(h)
    <3>1. /\ h = [k \in 0..n |-> h[k]]
          /\ \A k \in 0..n : h[k] = IF k = 0 THEN first ELSE step[k][h[k - 1]]
      BY <2>2 DEF Unrolls
    <3>2. \A k \in 0..n : k # 0 => k \in 1..n
      BY <1>1
    <3>3. \A k \in 0..n : h[k] = IF k = 0 THEN first ELSE Step(h[k - 1], k)
      BY <2>3, <3>1, <3>2
    <3> QED
      BY <3>1, <3>3
  <2> QED
    BY <2>2, <2>4
<1> DEFINE s == f[n]
           path == IF s.ret = "ok" THEN [hosts |-> Hosts, path |-> s.path] ELSE <<>>
<1>5. Steered(i) = [s EXCEPT !.path = path]
  BY DEF Steered, Step, first, Hosts
<1>6. Is(f)
  <2> HIDE DEF Is, S
  <2> QED
    BY <1>4
<1> HIDE DEF f
<1>7. \A k \in 0..n : f[k] \in S[k]
  <2>1. f[0] \in S[0]
    BY <1>1, <1>2, <1>6
  <2>2. \A k \in 1..n : f[k] = Step(f[k - 1], k)
    BY <1>1, <1>6
  <2> HIDE DEF S, Is, n
  <2>3. \A k \in 1..n : f[k - 1] \in S[k - 1] => f[k] \in S[k]
    BY <1>3, <2>2
  <2> QED
    BY <1>1, <2>1, <2>3, StepsKeep
<1>8. SteerOk(s, i, n)
  <2> HIDE DEF Is
  <2> QED
    BY <1>1, <1>7
<1> HIDE DEF s
<1>9. s = [ins |-> s.ins, g |-> s.g, path |-> s.path, ret |-> s.ret]
  BY <1>8 DEF SteerOk, SteerType
<1>10. s.ret = "ok" => path = [hosts |-> Hosts, path |-> s.path]
  OBVIOUS
<1> HIDE DEF path
<1>11. Steered(i) = [ins |-> s.ins, g |-> s.g, path |-> path, ret |-> s.ret]
  BY <1>5, <1>9
<1> QED
  BY <1>8, <1>10, <1>11

\* Instances that are charged are still where they were.
LEMMA ChargedLoad ==
  ASSUME Known, NEW m \in Maps(cur), NEW new \in Maps(cur),
         \A k \in 1..Len(Chain(cur)) :
           /\ DOMAIN new[k] = DOMAIN m[k]
           /\ \A id \in DOMAIN m[k] : /\ new[k][id].node = m[k][id].node
                                      /\ new[k][id].cap = m[k][id].cap,
         NEW n
  PROVE  NodeLoad(Whole(new), n) = NodeLoad(Whole(m), n)
<1> DEFINE a == Whole(m)
           b == Whole(new)
<1>1. /\ AllMaps(a) /\ a[cur] = m /\ AllMaps(b) /\ b[cur] = new
      /\ \A r \in Rs : r # cur => a[r] = b[r]
      /\ DOMAIN m = 1..Len(Chain(cur))
  BY WholeIs DEF Maps
<1>2. \A q : q \in Places(b) <=> q \in Places(a)
  BY WholeIs
<1>3. ASSUME NEW q \in Places(a)
      PROVE  At(b, q).node = At(a, q).node /\ At(b, q).cap = At(a, q).cap
  <2>1. PICK r \in Rs : \E j \in DOMAIN a[r] : \E i \in DOMAIN a[r][j] : q = <<r, j, i>>
    BY <1>1, PlacesAre DEF AllMaps
  <2>2. CASE r # cur
    BY <1>1, <2>1, <2>2 DEF At
  <2>3. CASE r = cur
    BY <1>1, <2>1, <2>3 DEF At
  <2> QED
    BY <2>2, <2>3
<1>4. IsFiniteSet(Places(a)) /\ Places(b) = Places(a)
  BY <1>1, <1>2, MapsFinite DEF Known
<1> HIDE DEF a, b
<1>5. NodeLoad(b, n) = NodeLoad(a, n)
  BY <1>3, <1>4, LoadSame
<1> QED
  BY <1>5 DEF a, b

\* The flow that is next.
LEMMA NextFlowIs ==
  ASSUME BooksInv, pc = "steer", toDeploy # {}
  PROVE  /\ Steers(Min(toDeploy)) /\ Min(toDeploy) \in toDeploy
         /\ WorkFlows /\ TmpCopies /\ TmpBooks /\ SlotIdsThere /\ toRelease = {}
         /\ cur \in Rs /\ Known /\ MidKnown /\ SetupTypeOK
<1>1. /\ WorkFlows /\ TmpCopies /\ TmpBooks /\ SlotIdsThere /\ toRelease = {}
  BY DEF BooksInv, Work, Busy
<1>2. cur \in Rs /\ Known /\ MidKnown /\ SetupTypeOK
  BY Facts DEF Busy
<1>3. toDeploy \in SUBSET Nat /\ toDeploy \subseteq FlowIds(cur)
  BY <1>1, <1>2, RequestIs DEF WorkFlows
<1>4. Min(toDeploy) \in toDeploy
  BY <1>3, MinIs
<1> QED
  BY <1>1, <1>2, <1>3, <1>4 DEF Steers

LEMMA SteerFlowIs ==
  ASSUME BooksInv, SteerFlow
  PROVE  \E s : /\ SteerOk(s, Min(toDeploy), Len(Chain(cur))) /\ s.ret = "ok"
                /\ tmpInstances' = s.ins /\ tmpGraph' = s.g
                /\ steered' = With(steered, Min(toDeploy), [hosts |-> Hosts, path |-> s.path])
<1> DEFINE i == Min(toDeploy)
<1>1. Steers(i)
  BY NextFlowIs DEF SteerFlow
<1>2. /\ Steered(i).ret = "ok" /\ tmpInstances' = Steered(i).ins /\ tmpGraph' = Steered(i).g
      /\ steered' = With(steered, i, Steered(i).path)
  BY DEF SteerFlow, WithFlow
<1> HIDE DEF i
<1>3. PICK s : /\ SteerOk(s, i, Len(Chain(cur)))
               /\ Steered(i).ins = s.ins /\ Steered(i).g = s.g /\ Steered(i).ret = s.ret
               /\ s.ret = "ok" => Steered(i).path = [hosts |-> Hosts, path |-> s.path]
  BY <1>1, SteeredIs
<1> QED
  BY <1>2, <1>3 DEF i

SteeredNow(i) ==
  /\ Steers(i) /\ i \in toDeploy /\ i \in FlowIds(cur)
  /\ i \notin MidIds /\ MidIds' = MidIds \cup {i} /\ toDeploy' = toDeploy \ {i}
  /\ MidDeployed'[cur][i].hosts = Hosts
  /\ DOMAIN MidDeployed'[cur] = DOMAIN MidDeployed[cur] \cup {i}
  /\ i \notin DOMAIN MidDeployed[cur]
  /\ \A j \in MidIds : MidDeployed'[cur][j] = MidDeployed[cur][j]
  /\ \A k \in 1..Len(Chain(cur)) : tmpInstances'[k] = ChargedMap(i, k) /\ Fits(i, k)

\* A flow is steered: what it takes of links is booked, nodes are as before.
LEMMA SteerFlowStep ==
  ASSUME BooksInv, SteerFlow
  PROVE  BooksInv' /\ SteeredNow(Min(toDeploy))
<1> DEFINE i == Min(toDeploy)
           h == <<cur, i>>
           rate == Flow(cur, i).rate
           n == Len(Chain(cur))
<1>1. /\ UNCHANGED setupVars /\ UNCHANGED resultVars
      /\ pc = "steer" /\ pc' = "steer" /\ toDeploy # {}
      /\ cur' = cur /\ time' = time /\ offline' = offline
      /\ UNCHANGED <<toRelease, mGraph, mInstances, slotIds>>
      /\ toDeploy' = toDeploy \ {i}
  BY DEF SteerFlow, callerVars
<1>2. SetupInv' /\ requests' = requests /\ cfg' = cfg /\ phase' = phase
  BY <1>1, SetupFrame DEF BooksInv
<1>3. /\ SetupTypeOK /\ FlowsKnown /\ Known /\ MidKnown /\ cur \in Rs
      /\ pc \in Busy /\ Results
  BY <1>1, Facts DEF Busy, BooksInv
<1>4. /\ Steers(i) /\ i \in toDeploy
      /\ WorkFlows /\ TmpCopies /\ TmpBooks /\ SlotIdsThere /\ toRelease = {}
      /\ MCopies /\ (offline \/ succ[cur])
  BY <1>1, NextFlowIs DEF BooksInv, Work, Busy
<1>5. /\ i \in FlowIds(cur) /\ i \notin DOMAIN steered /\ i \notin DOMAIN deployed[cur]
      /\ rate \in Nat /\ Flow(cur, i).end > time /\ n \in Nat
      /\ steered \in FlowMaps(cur)
  BY <1>3, <1>4, RequestIs DEF WorkFlows
<1>6. PICK s : /\ SteerOk(s, i, n) /\ s.ret = "ok"
               /\ tmpInstances' = s.ins /\ tmpGraph' = s.g
               /\ steered' = With(steered, i, [hosts |-> Hosts, path |-> s.path])
  BY SteerFlowIs
<1>7. /\ s.ins \in Maps(cur) /\ s.g \in GraphType /\ s.path \in Seq(Nodes)
      /\ s.g.node = tmpGraph.node
      /\ \A e \in Links : s.g.link[e] + Share(s.path, rate, e) = tmpGraph.link[e]
      /\ \A k \in 1..n : s.ins[k] = ChargedMap(i, k) /\ Fits(i, k)
  BY <1>5, <1>6 DEF SteerOk, SteerType, Through
<1> DEFINE flow == [hosts |-> Hosts, path |-> s.path]
<1>8. flow \in Deployed(cur) /\ flow.path = s.path
  <2>1. \A k \in 1..n : LeastUsed(k) \in Nat
    BY <1>4, LeastUsedIs DEF TmpCopies
  <2>2. Hosts \in [1..n -> Nat]
    BY <2>1 DEF Hosts
  <2> QED
    BY <1>7, <2>2 DEF Deployed
<1> HIDE DEF i, rate, n, flow
<1>9. /\ steered' \in FlowMaps(cur) /\ DOMAIN steered' = DOMAIN steered \cup {i}
      /\ steered'[i] = flow
      /\ \A j \in DOMAIN steered : steered'[j] = steered[j]
  <2>1. steered' = With(steered, i, flow)
    BY <1>6 DEF flow
  <2>2. DOMAIN steered \in SUBSET FlowIds(cur) /\ \A j \in DOMAIN steered : steered[j] \in Deployed(cur)
    BY <1>5, FlowMapIs
  <2>3. steered' \in [DOMAIN steered \cup {i} -> Deployed(cur)]
    BY <1>8, <2>1, <2>2 DEF With
  <2>4. DOMAIN steered \cup {i} \in SUBSET FlowIds(cur)
    BY <1>5, <2>2
  <2>5. steered' \in FlowMaps(cur)
    BY <2>3, <2>4 DEF FlowMaps
  <2> QED
    BY <1>5, <2>1, <2>5 DEF With
<1>10. WorkFlows'
  <2>1. /\ \A j : Flow(cur, j)' = Flow(cur, j)
        /\ FlowIds(cur)' = FlowIds(cur) /\ FlowMaps(cur)' = FlowMaps(cur)
    BY <1>1, <1>2, Frame
  <2>2. toDeploy' \cup DOMAIN steered' = toDeploy \cup DOMAIN steered
    BY <1>1, <1>4, <1>9
  <2>3. toDeploy' \cap DOMAIN steered' = {} /\ toDeploy' \subseteq toDeploy
    BY <1>1, <1>4, <1>9 DEF WorkFlows
  <2> QED
    BY <1>1, <1>4, <1>9, <2>1, <2>2, <2>3 DEF WorkFlows, resultVars
<1>11. MidKnown'
  <2>1. FlowsKnown' /\ (cur \in Rs)'
    BY <1>1, <1>2, <1>3, SetupFrame, Frame DEF FlowsKnown, resultVars, BooksInv, SetupInv
  <2> QED
    BY <1>10, <2>1 DEF MidKnown
<1>12. /\ AllFlows(MidDeployed) /\ IsFiniteSet(MidHeld) /\ FlowPlaces(MidDeployed, MidHeld)
       /\ \A r \in Rs : r # cur => MidDeployed[r] = deployed[r]
       /\ \A j \in DOMAIN deployed[cur] : MidDeployed[cur][j] = deployed[cur][j]
       /\ \A j \in DOMAIN steered : MidDeployed[cur][j] = steered[j]
       /\ DOMAIN MidDeployed[cur] = DOMAIN deployed[cur] \cup DOMAIN steered
  BY <1>3, MidIs DEF MidFacts
<1>13. /\ AllFlows(MidDeployed') /\ IsFiniteSet(MidHeld') /\ FlowPlaces(MidDeployed', MidHeld')
       /\ \A r \in Rs : r # cur => MidDeployed'[r] = deployed[r]
       /\ \A j \in DOMAIN deployed[cur] : MidDeployed'[cur][j] = deployed[cur][j]
       /\ \A j \in DOMAIN steered' : MidDeployed'[cur][j] = steered'[j]
       /\ DOMAIN MidDeployed'[cur] = DOMAIN deployed[cur] \cup DOMAIN steered'
  <2>0. MidFacts'
    BY <1>11, MidIs, PTL
  <2>1. /\ AllFlows(MidDeployed)' /\ IsFiniteSet(MidHeld') /\ FlowPlaces(MidDeployed, MidHeld)'
        /\ \A r \in Rs' : r # cur' => MidDeployed'[r] = deployed'[r]
        /\ \A j \in DOMAIN deployed'[cur'] : MidDeployed'[cur'][j] = deployed'[cur'][j]
        /\ \A j \in DOMAIN steered' : MidDeployed'[cur'][j] = steered'[j]
        /\ DOMAIN MidDeployed'[cur'] = DOMAIN deployed'[cur'] \cup DOMAIN steered'
    BY <2>0 DEF MidFacts
  <2>2. FlowPlaces(MidDeployed, MidHeld)' = FlowPlaces(MidDeployed', MidHeld')
    BY <1>1, <1>2, Frame DEF FlowPlaces
  <2>3. Rs' = Rs /\ deployed' = deployed /\ AllFlows(MidDeployed)' = AllFlows(MidDeployed')
    BY <1>1, <1>2, Frame DEF resultVars
  <2> QED
    BY <1>1, <2>1, <2>2, <2>3
<1>14. /\ MidHeld' = MidHeld \cup {h} /\ h \notin MidHeld
       /\ MidIds' = MidIds \cup {i} /\ i \notin MidIds
  <2>1. Others' = Others
    BY <1>1, <1>2, MidFrame
  <2>2. MidIds' = MidIds \cup {i} /\ i \notin MidIds
    <3>1. \A j : Flow(cur, j)' = Flow(cur, j)
      BY <1>1, <1>2, Frame
    <3>2. MidIds' = {j \in DOMAIN deployed[cur] : Flow(cur, j).end > time \/ j \in toRelease}
                      \cup DOMAIN steered'
      BY <1>1, <3>1 DEF MidIds, resultVars
    <3> QED
      BY <1>5, <1>9, <3>2 DEF MidIds
  <2>3. MidHeld' = Others \cup ({cur} \X MidIds')
    BY <1>1, <2>1 DEF MidHeld
  <2>4. h \notin Others
    BY DEF Others
  <2> QED
    BY <2>2, <2>3, <2>4 DEF MidHeld
<1>15. /\ FlowPlaces(MidDeployed', MidHeld)
       /\ \A x \in MidHeld : MidDeployed[x[1]][x[2]].path = MidDeployed'[x[1]][x[2]].path
  <2>1. FlowPlaces(MidDeployed', MidHeld)
    BY <1>13, <1>14 DEF FlowPlaces
  <2>2. ASSUME NEW x \in MidHeld
        PROVE  MidDeployed[x[1]][x[2]] = MidDeployed'[x[1]][x[2]]
    <3>1. CASE x[1] # cur
      <4>1. x[1] \in Rs
        BY <1>12 DEF FlowPlaces
      <4> QED
        BY <1>12, <1>13, <3>1, <4>1
    <3>2. CASE x[1] = cur
      <4>1. x[2] \in DOMAIN deployed[cur] \cup DOMAIN steered
        <5>1. x \notin Others
          BY <3>2 DEF Others
        <5>2. x[2] \in MidIds
          BY <5>1 DEF MidHeld
        <5> QED
          BY <1>4, <5>2 DEF MidIds
      <4> QED
        BY <1>9, <1>12, <1>13, <3>2, <4>1
    <3> QED
      BY <3>1, <3>2
  <2> QED
    BY <2>1, <2>2
<1>16. NodeBooks(tmpGraph', Whole(tmpInstances'))
  <2>1. \A x \in Nodes : NodeLoad(Whole(s.ins), x) = NodeLoad(Whole(tmpInstances), x)
    <3>1. tmpInstances \in Maps(cur) /\ s.ins \in Maps(cur) /\ Known
      BY <1>3, <1>4, <1>7 DEF TmpCopies
    <3>2. \A k \in 1..n :
            /\ DOMAIN s.ins[k] = DOMAIN tmpInstances[k]
            /\ \A id \in DOMAIN tmpInstances[k] :
                 /\ s.ins[k][id].node = tmpInstances[k][id].node
                 /\ s.ins[k][id].cap = tmpInstances[k][id].cap
      <4> TAKE k \in 1..n
      <4>1. s.ins[k] = ChargedMap(i, k) /\ LeastUsed(k) \in DOMAIN tmpInstances[k]
        BY <1>7 DEF Fits
      <4> QED
        BY <1>4, <4>1, ChargedIs DEF n
    <3> QED
      BY <3>1, <3>2, ChargedLoad DEF n
  <2> QED
    BY <1>4, <1>6, <1>7, <2>1 DEF TmpBooks, NodeBooks
<1>17. LinkBooks(tmpGraph', MidDeployed', MidHeld')
  <2> SUFFICES ASSUME NEW e \in Links
               PROVE  tmpGraph'.link[e] + LinkLoad(MidDeployed', MidHeld', e) = LinkBw(e)
    BY DEF LinkBooks
  <2>1. BwOf(MidDeployed', h, e) = Share(s.path, rate, e)
    <3>1. MidDeployed'[cur][i].path = s.path
      BY <1>8, <1>9, <1>13
    <3> QED
      BY <3>1 DEF BwOf, Share, rate
  <2> HIDE DEF h
  <2> DEFINE dep == MidDeployed'
  <2>2. LinkLoad(MidDeployed, MidHeld, e) = LinkLoad(dep, MidHeld, e)
    <3>1. \A x \in MidHeld : MidDeployed[x[1]][x[2]].path = dep[x[1]][x[2]].path
      BY <1>15
    <3>2. IsFiniteSet(MidHeld)
      BY <1>12
    <3> DEFINE old == MidDeployed
               H == MidHeld
    <3>3. IsFiniteSet(H) /\ SamePaths(old, dep, H)
      BY <3>1, <3>2 DEF SamePaths
    <3> HIDE DEF dep, old, H
    <3>4. LinkLoad(old, H, e) = LinkLoad(dep, H, e)
      BY <3>3, LinkLoadSame
    <3> QED
      BY <3>4 DEF old, H
  <2>3. /\ LinkLoad(dep, MidHeld, e) \in Nat /\ BwOf(dep, h, e) \in Nat
        /\ LinkLoad(dep, MidHeld \cup {h}, e) = LinkLoad(dep, MidHeld, e) + BwOf(dep, h, e)
    <3>1. AllFlows(dep) /\ FlowPlaces(dep, MidHeld \cup {h}) /\ h \notin MidHeld
      BY <1>13, <1>14
    <3> HIDE DEF dep
    <3> QED
      BY <1>3, <1>12, <3>1, LinkLoadGains
  <2>4. tmpGraph.link[e] + LinkLoad(MidDeployed, MidHeld, e) = LinkBw(e)
    BY <1>4 DEF TmpBooks, LinkBooks
  <2>5. tmpGraph.link[e] \in Nat /\ s.g.link[e] \in Nat
        /\ s.g.link[e] + Share(s.path, rate, e) = tmpGraph.link[e]
    BY <1>4, <1>7 DEF TmpCopies, GraphType
  <2>6. LinkLoad(dep, MidHeld', e) = LinkLoad(dep, MidHeld \cup {h}, e)
    BY <1>14
  <2> QED
    BY <1>6, <2>1, <2>2, <2>3, <2>4, <2>5, <2>6
<1>18. TmpCopies' /\ TmpBooks' /\ SlotIdsThere' /\ MCopies'
  <2>1. Whole(tmpInstances)' = Whole(tmpInstances')
    BY <1>1 DEF Whole, resultVars
  <2>2. TmpCopies' /\ MCopies' /\ TmpBooks'
    BY <1>1, <1>2, <1>4, <1>6, <1>7, <1>16, <1>17, <2>1, Frame DEF TmpCopies, MCopies, TmpBooks
  <2>3. \A k \in 1..n : DOMAIN tmpInstances'[k] = DOMAIN tmpInstances[k]
    <3> TAKE k \in 1..n
    <3>1. s.ins[k] = ChargedMap(i, k) /\ LeastUsed(k) \in DOMAIN tmpInstances[k]
      BY <1>7 DEF Fits
    <3> QED
      BY <1>4, <1>6, <3>1, ChargedIs DEF n
  <2>4. SlotIdsThere'
    <3>1. Chain(cur)' = Chain(cur)
      BY <1>1, <1>2, Frame
    <3>2. \A k \in 1..n : slotIds[k] \subseteq DOMAIN tmpInstances'[k]
      BY <1>4, <2>3 DEF SlotIdsThere, n
    <3> QED
      BY <1>1, <1>4, <3>1, <3>2 DEF SlotIdsThere, n
  <2> QED
    BY <2>2, <2>4
<1>19. Work'
  BY <1>1, <1>4, <1>10, <1>18 DEF Work, resultVars
<1>20. Results'
  BY <1>1, <1>2, <1>3, ResultsFrame, Facts
<1>21. Callers'
  BY <1>1, <1>2, Frame DEF BooksInv, Callers
<1>22. Bounded'
  <2>1. Within(tmpGraph')
    <3>1. /\ AllMaps(Whole(s.ins)) /\ \A x \in Nodes : cfg.processing_cap \in Nat
      BY <1>1, <1>3, <1>7, WholeIs, Facts
    <3> QED
      BY <1>3, <1>6, <1>7, <1>13, <1>16, <1>17, <3>1, BalanceBounds
  <2> QED
    BY <1>1, <1>2, <2>1, Frame DEF BooksInv, Bounded
<1> QED
  <2>1. SteeredNow(i)
    <3>1. MidDeployed'[cur][i].hosts = Hosts
      BY <1>9, <1>13 DEF flow
    <3>3. /\ DOMAIN MidDeployed'[cur] = DOMAIN MidDeployed[cur] \cup {i}
          /\ i \notin DOMAIN MidDeployed[cur]
      BY <1>5, <1>9, <1>12, <1>13
    <3>2. ASSUME NEW j \in MidIds
          PROVE  MidDeployed'[cur][j] = MidDeployed[cur][j]
      BY <1>9, <1>12, <1>13 DEF MidIds
    <3> QED
      BY <1>1, <1>4, <1>5, <1>6, <1>7, <1>14, <3>1, <3>2, <3>3 DEF SteeredNow, n
  <2> QED
    BY <1>2, <1>19, <1>20, <1>21, <1>22, <2>1 DEF BooksInv, i

LEMMA Failing ==
  ASSUME NoPath \/ SteerFails
  PROVE  Fail /\ pc \in {"place", "steer"}
BY DEF NoPath, SteerFails

LEMMA BooksStep ==
  ASSUME BooksInv, [Next]_vars
  PROVE  BooksInv'
<1>1. CASE Prepare
  BY <1>1, PrepareStep
<1>2. CASE Begin
  BY <1>2, BeginStep
<1>3. CASE ReturnNone
  BY <1>3, ReturnNoneStep
<1>4. CASE CheckFlows \/ CheckOffline
  BY <1>4, CheckStep
<1>5. CASE NextSlot
  BY <1>5, NextSlotStep
<1>6. CASE ReleaseFlow
  BY <1>6, ReleaseFlowStep
<1>7. CASE ReleaseMissing \/ SteerMissing \/ SteerDone \/ UNCHANGED vars
  <2>1. /\ UNCHANGED <<callerVars, resultVars, flowVars, workVars>>
        /\ \/ pc' = pc
           \/ pc \in Busy /\ pc' = "undefined"
           \/ pc = "steer" /\ pc' = "save" /\ toDeploy = {}
    BY <1>7 DEF ReleaseMissing, SteerMissing, SteerDone, vars, Busy
  <2> QED
    BY <2>1, IdleStep
<1>8. CASE Released
  BY <1>8, ReleasedStep
<1>9. CASE DeployFunctions
  BY <1>9, DeployStep
<1>10. CASE NoPath \/ SteerFails
  <2>1. Fail /\ pc \in Busy
    BY <1>10, Failing DEF Busy
  <2> QED
    BY <2>1, FailStep
<1>11. CASE SteerFlow
  BY <1>11, SteerFlowStep
<1>12. CASE Save
  BY <1>12, SaveStep
<1> QED
  BY <1>1, <1>2, <1>3, <1>4, <1>5, <1>6, <1>7, <1>8, <1>9, <1>10, <1>11, <1>12
     DEF Next

\* The inductive invariant: what the copies hold, and what is free beside it.
LEMMA BooksAlways == Spec => []BooksInv
<1>1. Init => BooksInv
  BY BooksInit
<1>2. BooksInv /\ [Next]_vars => BooksInv'
  BY BooksStep
<1> QED
  BY <1>1, <1>2, PTL DEF Spec

LEMMA BooksGive == BooksInv => BooksBalance
<1> SUFFICES ASSUME BooksInv, pc = "call"
             PROVE  BooksBalance
  BY DEF BooksBalance
<1>1. Typed /\ SetupTypeOK /\ FlowsKnown /\ NodeBooks(graph, instances)
      /\ LinkBooks(graph, deployed, Held)
  BY Facts DEF BooksInv, Results
<1>2. ASSUME NEW n \in Nodes
      PROVE  graph.node[n] + OnNode(n) = cfg.processing_cap /\ graph.node[n] >= 0
  <2>1. graph.node[n] + NodeLoad(instances, n) = cfg.processing_cap
    BY <1>1 DEF NodeBooks
  <2>2. OnNode(n) = NodeLoad(instances, n)
    BY <1>1, OnNodeIs DEF Typed
  <2>3. graph.node[n] \in Nat
    BY <1>1 DEF Typed, GraphType
  <2> QED
    BY <2>1, <2>2, <2>3
<1>3. ASSUME NEW e \in Links
      PROVE  graph.link[e] + OnLink(e) = LinkBw(e) /\ graph.link[e] >= 0
  <2>1. graph.link[e] + LinkLoad(deployed, Held, e) = LinkBw(e)
    BY <1>1 DEF LinkBooks
  <2>2. OnLink(e) = LinkLoad(deployed, Held, e)
    BY <1>1, OnLinkIs
  <2>3. graph.link[e] \in Nat
    BY <1>1 DEF Typed, GraphType
  <2> QED
    BY <2>1, <2>2, <2>3
<1> QED
  BY <1>2, <1>3 DEF BooksBalance

LEMMA WithinTypes ==
  ASSUME SetupTypeOK, phase = "loaded", NEW g, Within(g)
  PROVE  /\ g.node \in [Nodes -> 0..cfg.processing_cap]
         /\ g.link \in [Links -> 0..Max({cfg.intra_bw, cfg.inter_bw})]
<1>1. cfg.processing_cap \in Nat /\ cfg.intra_bw \in Nat /\ cfg.inter_bw \in Nat
  BY DEF SetupTypeOK, CfgKeys
<1>2. g.node \in [Nodes -> Nat] /\ g.link \in [Links -> Nat]
  BY DEF Within, GraphType
<1> DEFINE bws == {cfg.intra_bw, cfg.inter_bw}
           top == Max(bws)
<1>3. top \in Nat /\ \A b \in bws : b <= top
  <2>1. IsFiniteSet({cfg.intra_bw}) /\ IsFiniteSet({cfg.inter_bw})
    BY FS_Singleton
  <2>2. IsFiniteSet({cfg.intra_bw} \cup {cfg.inter_bw})
    BY <2>1, FS_Union
  <2>3. bws = {cfg.intra_bw} \cup {cfg.inter_bw}
    OBVIOUS
  <2>4. bws \in SUBSET Nat /\ bws # {} /\ IsFiniteSet(bws)
    BY <1>1, <2>2, <2>3
  <2> HIDE DEF bws
  <2> QED
    BY <2>4, MaxIs
<1>4. \A e \in Links : LinkBw(e) \in bws
  BY DEF LinkBw
<1> HIDE DEF top, bws
<1>5. ASSUME NEW e \in Links
      PROVE  g.link[e] \in 0..top
  <2>1. g.link[e] \in Nat /\ g.link[e] <= LinkBw(e)
    BY <1>2 DEF Within
  <2>2. LinkBw(e) \in bws /\ LinkBw(e) <= top
    BY <1>3, <1>4
  <2>3. LinkBw(e) \in Nat
    BY <1>1 DEF LinkBw
  <2> QED
    BY <1>3, <2>1, <2>2, <2>3
<1>6. \A n \in Nodes : g.node[n] \in 0..cfg.processing_cap
  BY <1>1, <1>2 DEF Within
<1> USE DEF top, bws
<1> QED
  BY <1>2, <1>5, <1>6

LEMMA BooksType == BooksInv => TypeOK
<1> SUFFICES ASSUME BooksInv
             PROVE  TypeOK
  OBVIOUS
<1>1. /\ time \in 0..LastSlot /\ cur \in 1..Len(requests) + 1
      /\ phase \in Phases /\ pc \in Pcs /\ SetupTypeOK
  <2>1. Len(requests) \in Nat
    BY LenProperties DEF BooksInv, SetupInv, SetupTypeOK
  <2> QED
    BY <2>1 DEF BooksInv, SetupInv, SetupTypeOK, Callers
<1>2. ASSUME pc = "setup"
      PROVE  /\ graph = <<>> /\ mGraph = <<>> /\ tmpGraph = <<>>
             /\ DOMAIN instances = {} /\ DOMAIN deployed = {}
  BY <1>2, EmptyMaps DEF BooksInv, Bounded
<1>3. ASSUME pc # "setup"
      PROVE  /\ Typed /\ phase = "loaded" /\ Within(graph)
             /\ mGraph # <<>> => Within(mGraph)
             /\ tmpGraph # <<>> => Within(tmpGraph)
  <2>1. /\ Typed /\ SetupTypeOK /\ FlowsKnown /\ phase = "loaded"
        /\ \A n \in Nodes : cfg.processing_cap \in Nat
        /\ NodeBooks(graph, instances) /\ LinkBooks(graph, deployed, Held)
    BY <1>3, Facts DEF BooksInv, Results
  <2>2. IsFiniteSet(Held) /\ FlowPlaces(deployed, Held)
    BY <2>1, HoldersFinite DEF Held
  <2>3. Within(graph)
    BY <2>1, <2>2, BalanceBounds DEF Typed
  <2> QED
    BY <2>1, <2>3 DEF BooksInv, Bounded
<1>4. ASSUME NEW g \in {graph, mGraph, tmpGraph} \ {<<>>}
      PROVE  /\ g.node \in [Nodes -> 0..cfg.processing_cap]
             /\ g.link \in [Links -> 0..Max({cfg.intra_bw, cfg.inter_bw})]
  <2>1. pc # "setup"
    BY <1>2
  <2>2. Within(g)
    BY <1>3, <2>1
  <2>3. phase = "loaded"
    BY <1>3, <2>1
  <2> QED
    BY <1>1, <2>2, <2>3, WithinTypes
<1>5. ASSUME pc # "setup"
      PROVE  succ \in [Rs -> BOOLEAN] /\ Rs = DOMAIN instances
  BY <1>3, <1>5 DEF Typed, AllMaps
<1>6. ASSUME NEW r \in DOMAIN deployed
      PROVE  DOMAIN deployed[r] \subseteq FlowIds(r)
  <2>1. r \in Rs /\ deployed[r] \in FlowMaps(r)
    BY <1>2, <1>3 DEF Typed, AllFlows
  <2> QED
    BY <2>1, FlowMapIs
<1>7. ASSUME NEW r \in DOMAIN instances, NEW k \in DOMAIN instances[r],
             NEW id \in Ids(r, k)
      PROVE  instances[r][k][id] \in [node : Nodes, cap : Nat, used : Nat]
  <2>1. instances[r] \in Maps(r)
    BY <1>2, <1>3 DEF Typed, AllMaps
  <2>2. instances[r][k] \in InstanceMaps
    BY <2>1 DEF Maps
  <2> QED
    BY <2>2, MapIs DEF Ids, Instance
<1> QED
  BY <1>1, <1>4, <1>5, <1>6, <1>7 DEF TypeOK, Phases, Pcs

\* Whatever requests are read and however main goes through them, the state
\* has its types: nowhere is more free than there is, on the copies neither,
\* and what an instance has in use is a natural number.
THEOREM FlowsTyped == Spec => []TypeOK
BY BooksAlways, BooksType, PTL

\* Between two calls of main what is free on a node or link and what is given
\* away there make all of it, for every graph, configuration, set of requests
\* and choice of paths, and whichever requests have failed half way.
THEOREM CapacityIsKept == Spec => []BooksBalance
BY BooksAlways, BooksGive, PTL

-----------------------------------------------------------------------------
(***************************************************************************)
(* What an instance has in use and the flows that account for it, and how  *)
(* far they may be apart.                                                  *)
(***************************************************************************)
PartOf(r, k, i) == Part(Chain(r), k, Flow(r, i).rate)

\* The flows of S that a map gives to an instance, and what they take of it.
OnHost(dep, S, k, id) == {i \in S : dep[i].hosts[k] = id}
PartsOn(r, dep, S, k, id) == [i \in OnHost(dep, S, k, id) |-> PartOf(r, k, i)]
UseOf(r, dep, S, k, id) ==
  SumFunctionOnSet(PartsOn(r, dep, S, k, id), OnHost(dep, S, k, id))

\* An instance that is gone has nothing in use.
UsedOf(m, id) == IF id \in DOMAIN m THEN m[id].used ELSE 0

\* n is what may have been lost of the use of any instance.
Tracks(r, k, m, dep, S, n) ==
  \A id \in Nat :
    /\ UseOf(r, dep, S, k, id) <= (UsedOf(m, id) + n) * Hundreds(k)
    /\ id \in DOMAIN m => /\ m[id].used * Hundreds(k) <= UseOf(r, dep, S, k, id)
                          /\ m[id].used <= m[id].cap

\* The same flows have the same hosts.
SameHosts(a, b, S, k) == \A i \in S : a[i].hosts[k] = b[i].hosts[k]

LEMMA PartNat ==
  ASSUME SetupTypeOK, NEW r \in Rs, NEW k \in 1..Len(Chain(r)), NEW i \in FlowIds(r)
  PROVE  PartOf(r, k, i) \in Nat /\ Hundreds(k) \in Nat \ {0}
<1>1. Chain(r) \in Seq(Function) /\ Flow(r, i).rate \in Nat
  BY RequestIs
<1> QED
  BY <1>1, PartTypes DEF PartOf

LEMMA HundredsNat ==
  ASSUME SetupTypeOK, NEW r \in Rs, NEW k \in 1..Len(Chain(r))
  PROVE  Hundreds(k) \in Nat \ {0}
<1>1. Chain(r) \in Seq(Function) /\ 0 \in Nat
  BY RequestIs
<1> QED
  BY <1>1, PartTypes

LEMMA UseNat ==
  ASSUME SetupTypeOK, NEW r \in Rs, NEW k \in 1..Len(Chain(r)),
         NEW S \in SUBSET FlowIds(r), NEW dep, NEW id
  PROVE  /\ UseOf(r, dep, S, k, id) \in Nat
         /\ OnHost(dep, S, k, id) = {} => UseOf(r, dep, S, k, id) = 0
         /\ \A i \in OnHost(dep, S, k, id) : PartOf(r, k, i) <= UseOf(r, dep, S, k, id)
<1> DEFINE H == OnHost(dep, S, k, id)
           f == PartsOn(r, dep, S, k, id)
<1>1. IsFiniteSet(H) /\ H \subseteq FlowIds(r)
  <2>1. H \subseteq FlowIds(r) /\ IsFiniteSet(FlowIds(r))
    BY RequestIs DEF OnHost
  <2> QED
    BY <2>1, FS_Subset
<1>2. \A i \in H : f[i] = PartOf(r, k, i) /\ f[i] \in Nat
  BY <1>1, PartNat DEF PartsOn
<1>3. UseOf(r, dep, S, k, id) = SumFunctionOnSet(f, H)
  BY DEF UseOf
<1> HIDE DEF f, H
<1>4. SumFunctionOnSet(f, H) \in Nat
  BY <1>1, <1>2, SumTypes
<1>5. H = {} => SumFunctionOnSet(f, H) = 0
  BY SumEmpty
<1>6. ASSUME NEW i \in H
      PROVE  f[i] <= SumFunctionOnSet(f, H)
  <2>1. \A x \in H : f[x] \in Int
    BY <1>2
  <2>2. SumFunctionOnSet(f, H) = f[i] + SumFunctionOnSet(f, H \ {i})
    BY <1>1, <2>1, SumRemove
  <2>3. IsFiniteSet(H \ {i}) /\ \A x \in H \ {i} : f[x] \in Nat
    BY <1>1, <1>2, FS_Subset
  <2>4. SumFunctionOnSet(f, H \ {i}) \in Nat
    BY <2>3, SumTypes
  <2> QED
    BY <1>2, <2>2, <2>4
<1>7. \A i \in H : PartOf(r, k, i) <= SumFunctionOnSet(f, H)
  BY <1>2, <1>6
<1> QED
  BY <1>3, <1>4, <1>5, <1>7 DEF H

\* The flow that comes or goes counts for its host only.
Given(r, dep, k, i, id) == IF dep[i].hosts[k] = id THEN PartOf(r, k, i) ELSE 0

LEMMA UseAdds ==
  ASSUME SetupTypeOK, NEW r \in Rs, NEW k \in 1..Len(Chain(r)),
         NEW S \in SUBSET FlowIds(r), NEW i \in FlowIds(r), i \notin S,
         NEW a, NEW b, SameHosts(a, b, S, k), NEW id
  PROVE  UseOf(r, b, S \cup {i}, k, id)
           = UseOf(r, a, S, k, id) + Given(r, b, k, i, id)
<1> DEFINE H == OnHost(a, S, k, id)
           G == OnHost(b, S \cup {i}, k, id)
           f == PartsOn(r, a, S, k, id)
           g == PartsOn(r, b, S \cup {i}, k, id)
<1>1. /\ H \subseteq FlowIds(r) /\ G \subseteq FlowIds(r) /\ i \notin H
      /\ G = IF b[i].hosts[k] = id THEN H \cup {i} ELSE H
  BY DEF OnHost, SameHosts
<1>2. IsFiniteSet(H)
  BY <1>1, RequestIs, FS_Subset
<1>3. \A j \in G : g[j] = PartOf(r, k, j) /\ g[j] \in Nat
  BY <1>1, PartNat DEF PartsOn
<1>4. \A j \in H : f[j] = PartOf(r, k, j) /\ f[j] \in Nat
  BY <1>1, PartNat DEF PartsOn
<1>5. /\ UseOf(r, a, S, k, id) = SumFunctionOnSet(f, H)
      /\ UseOf(r, b, S \cup {i}, k, id) = SumFunctionOnSet(g, G)
  BY DEF UseOf
<1> HIDE DEF f, g, H, G
<1>6. \A j \in H : f[j] = g[j]
  BY <1>1, <1>3, <1>4
<1>7. SumFunctionOnSet(g, H) = SumFunctionOnSet(f, H)
  BY <1>2, <1>6, SumSame
<1>8. SumFunctionOnSet(f, H) \in Nat
  BY <1>2, <1>4, SumTypes
<1>9. CASE b[i].hosts[k] = id
  <2>1. G = H \cup {i} /\ g[i] = PartOf(r, k, i) /\ g[i] \in Nat
    BY <1>1, <1>3, <1>9
  <2>2. \A j \in H \cup {i} : g[j] \in Int
    BY <1>3, <2>1
  <2>3. SumFunctionOnSet(g, H \cup {i}) = g[i] + SumFunctionOnSet(g, H)
    BY <1>1, <1>2, <2>2, SumInsert
  <2> QED
    BY <1>5, <1>7, <1>8, <1>9, <2>1, <2>3 DEF Given
<1>10. CASE b[i].hosts[k] # id
  BY <1>1, <1>5, <1>7, <1>8, <1>10 DEF Given
<1> QED
  BY <1>9, <1>10

LEMMA UseLoses ==
  ASSUME SetupTypeOK, NEW r \in Rs, NEW k \in 1..Len(Chain(r)),
         NEW S \in SUBSET FlowIds(r), NEW i \in S, NEW dep, NEW id
  PROVE  UseOf(r, dep, S, k, id)
           = UseOf(r, dep, S \ {i}, k, id) + Given(r, dep, k, i, id)
<1> DEFINE rest == S \ {i}
<1>1. /\ i \in FlowIds(r) /\ rest \in SUBSET FlowIds(r) /\ i \notin rest
      /\ rest \cup {i} = S
  OBVIOUS
<1>2. SameHosts(dep, dep, rest, k)
  BY DEF SameHosts
<1> HIDE DEF rest
<1>3. UseOf(r, dep, rest \cup {i}, k, id)
        = UseOf(r, dep, rest, k, id) + Given(r, dep, k, i, id)
  BY <1>1, <1>2, UseAdds
<1> QED
  BY <1>1, <1>3 DEF rest

\* Nothing changes for a map that says the same.
LEMMA TracksSame ==
  ASSUME NEW r, NEW k, NEW m, NEW a, NEW b, NEW S, SameHosts(a, b, S, k), NEW n,
         Tracks(r, k, m, a, S, n)
  PROVE  Tracks(r, k, m, b, S, n)
<1>1. ASSUME NEW id
      PROVE  UseOf(r, b, S, k, id) = UseOf(r, a, S, k, id)
  <2>1. OnHost(b, S, k, id) = OnHost(a, S, k, id)
    BY DEF OnHost, SameHosts
  <2>2. PartsOn(r, b, S, k, id) = PartsOn(r, a, S, k, id)
    BY <2>1 DEF PartsOn
  <2> QED
    BY <2>1, <2>2 DEF UseOf
<1> QED
  BY <1>1 DEF Tracks

\* New instances that are not in use change nothing either.
LEMMA TracksNew ==
  ASSUME NEW r, NEW k, NEW m \in InstanceMaps, NEW new \in InstanceMaps, NEW dep, NEW S,
         NEW n, Tracks(r, k, m, dep, S, n), SetupTypeOK, r \in Rs,
         k \in 1..Len(Chain(r)), S \in SUBSET FlowIds(r),
         DOMAIN m \subseteq DOMAIN new, \A id \in DOMAIN m : new[id] = m[id],
         \A id \in DOMAIN new \ DOMAIN m : new[id].used = 0
  PROVE  Tracks(r, k, new, dep, S, n)
<1>1. ASSUME NEW id \in Nat
      PROVE  UsedOf(new, id) = UsedOf(m, id)
  BY DEF UsedOf
<1>2. ASSUME NEW id \in DOMAIN new \ DOMAIN m
      PROVE  /\ new[id].used * Hundreds(k) <= UseOf(r, dep, S, k, id)
             /\ new[id].used <= new[id].cap
  <2>1. Hundreds(k) \in Nat /\ UseOf(r, dep, S, k, id) \in Nat
    BY UseNat, HundredsNat
  <2>2. new[id].used = 0 /\ new[id].cap \in Nat
    BY MapIs DEF Instance
  <2>3. 0 * Hundreds(k) = 0
    BY <2>1
  <2> QED
    BY <2>1, <2>2, <2>3
<1> QED
  BY <1>1, <1>2 DEF Tracks

Lossy(h, U, N, p, T, use) ==
  U <= use /\ use <= U + N /\ (U - p < T + h \/ U - p < 0)
LossBounded(h, U, N, p, T, use) ==
  /\ T <= 9 * h => use - p <= N + 11 * h
  /\ T <= U - p => T <= use - p /\ T <= U
  /\ 0 <= T => use - p <= T + N + 11 * h

LEMMA LossBounds ==
  ASSUME NEW h \in Nat \ {0}, NEW U \in Nat, NEW N \in Nat, NEW p \in Nat, NEW T \in Int,
         NEW use \in Nat, Lossy(h, U, N, p, T, use)
  PROVE  LossBounded(h, U, N, p, T, use)
BY DEF Lossy, LossBounded

\* A flow of p takes from an instance of u: what was lost before, n, grows by
\* less than the threshold and one.
LEMMA TakingLoses ==
  ASSUME NEW h \in Nat \ {0}, NEW u \in Nat, NEW n \in Nat, NEW p \in Nat,
         NEW use \in Nat, u * h <= use, use <= (u + n) * h, p <= use,
         NEW t \in Int, t > 0 => t * h <= u * h - p,
         u * h - p < (t + 1) * h \/ u * h - p < 0
  PROVE  /\ t < Threshold => use - p <= (0 + (n + Threshold + 1)) * h
         /\ t >= Threshold => /\ t \in Nat /\ t * h <= use - p /\ t <= u
                              /\ use - p <= (t + (n + Threshold + 1)) * h
<1> DEFINE U == u * h
           N == n * h
           T == t * h
<1>1. U \in Nat /\ N \in Nat /\ T \in Int
  OBVIOUS
<1>2. /\ (u + n) * h = U + N /\ (t + 1) * h = T + h
      /\ (0 + (n + Threshold + 1)) * h = N + 11 * h
      /\ (t + (n + Threshold + 1)) * h = T + N + 11 * h
  BY DEF Threshold
<1>3. ASSUME t < Threshold
      PROVE  T <= 9 * h
  <2> DEFINE d == 9 - t
  <2>1. d \in Nat /\ t = 9 - d
    BY <1>3 DEF Threshold
  <2> HIDE DEF d
  <2>2. (9 - d) * h = 9 * h - d * h /\ d * h \in Nat
    BY <2>1
  <2> QED
    BY <2>1, <2>2
<1>4. ASSUME t >= Threshold, T <= U
      PROVE  t <= u
  <2> SUFFICES ASSUME t > u
               PROVE  FALSE
    OBVIOUS
  <2> DEFINE d == t - u - 1
  <2>1. d \in Nat /\ t = u + 1 + d
    OBVIOUS
  <2> HIDE DEF d
  <2>2. (u + 1 + d) * h = u * h + h + d * h /\ d * h \in Nat
    BY <2>1
  <2> QED
    BY <1>1, <1>4, <2>1, <2>2
<1>5. /\ U <= use /\ use <= U + N
      /\ t > 0 => T <= U - p
      /\ U - p < T + h \/ U - p < 0
  BY <1>2
<1>8. t >= Threshold => t \in Nat /\ t > 0 /\ 0 <= T
  BY DEF Threshold
<1> HIDE DEF U, N, T
<1>9. Lossy(h, U, N, p, T, use)
  BY <1>5, Zenon DEF Lossy
<1>10. LossBounded(h, U, N, p, T, use)
  BY <1>1, <1>9, LossBounds
<1>6. /\ T <= 9 * h => use - p <= N + 11 * h
      /\ T <= U - p => T <= use - p /\ T <= U
      /\ 0 <= T => use - p <= T + N + 11 * h
  BY <1>10, Zenon DEF LossBounded
<1>7. t >= Threshold => /\ t \in Nat /\ T <= use - p /\ T <= U
                        /\ use - p <= T + N + 11 * h
  BY <1>5, <1>6, <1>8, Zenon
<1> QED
  BY <1>2, <1>3, <1>4, <1>6, <1>7 DEF T

\* And one of p adds to it: less than one is lost.
LEMMA AddingLoses ==
  ASSUME NEW h \in Nat \ {0}, NEW u \in Nat, NEW n \in Nat, NEW p \in Nat,
         NEW use \in Nat, u * h <= use, use <= (u + n) * h,
         NEW cap \in Nat, p <= (cap - u) * h,
         NEW t \in Nat, t * h <= u * h + p, u * h + p < (t + 1) * h
  PROVE  /\ t * h <= use + p /\ use + p <= (t + (n + 1)) * h /\ t <= cap
         /\ u >= 1 \/ p >= h => t >= 1
<1> DEFINE U == u * h
           N == n * h
           T == t * h
           C == cap * h
<1>1. U \in Nat /\ N \in Nat /\ T \in Nat /\ C \in Nat
  OBVIOUS
<1>2. /\ (u + n) * h = U + N /\ (t + 1) * h = T + h
      /\ (t + (n + 1)) * h = T + N + h
      /\ (cap - u) * h = C - U
  OBVIOUS
<1>3. T <= C
  BY <1>1, <1>2
<1>4. t <= cap
  <2> SUFFICES ASSUME t > cap
               PROVE  FALSE
    OBVIOUS
  <2> DEFINE d == t - cap - 1
  <2>1. d \in Nat /\ t = cap + 1 + d
    OBVIOUS
  <2> HIDE DEF d
  <2>2. (cap + 1 + d) * h = cap * h + h + d * h /\ d * h \in Nat
    BY <2>1
  <2> QED
    BY <1>1, <1>3, <2>1, <2>2
<1>5. u >= 1 => U >= h
  <2> SUFFICES ASSUME u >= 1
               PROVE  U >= h
    OBVIOUS
  <2> DEFINE d == u - 1
  <2>1. d \in Nat /\ u = d + 1
    OBVIOUS
  <2> HIDE DEF d
  <2>2. (d + 1) * h = d * h + h /\ d * h \in Nat
    BY <2>1
  <2> QED
    BY <2>1, <2>2
<1>6. t = 0 => T = 0
  OBVIOUS
<1>7. U <= use /\ use <= U + N /\ T <= U + p /\ U + p < T + h
  BY <1>2
<1> HIDE DEF U, N, T, C
<1>8. T <= use + p /\ use + p <= T + N + h
  BY <1>1, <1>7
<1>9. u >= 1 \/ p >= h => t >= 1
  BY <1>1, <1>5, <1>6, <1>7
<1> QED
  BY <1>2, <1>4, <1>8, <1>9 DEF T

LEMMA MoreLost ==
  ASSUME NEW h \in Nat, NEW u \in Nat, NEW n \in Nat, NEW d \in Nat, NEW use \in Nat,
         use <= (u + n) * h
  PROVE  use <= (u + (n + d)) * h
<1>1. (u + (n + d)) * h = (u + n) * h + d * h /\ d * h \in Nat /\ (u + n) * h \in Nat
  OBVIOUS
<1> QED
  BY <1>1

LEMMA UsedNat ==
  ASSUME NEW m \in InstanceMaps, NEW id
  PROVE  UsedOf(m, id) \in Nat
BY MapIs DEF UsedOf, Instance

\* A flow that is released.
LEMMA TracksRelease ==
  ASSUME NEW i, Releases(i), NEW k \in 1..Len(Chain(cur)),
         NEW S \in SUBSET FlowIds(cur), i \in S, NEW dep, dep[i] = deployed[cur][i],
         NEW n \in Nat, Tracks(cur, k, mInstances[k], dep, S, n)
  PROVE  Tracks(cur, k, ReleasedMap(i, k), dep, S \ {i}, n + Threshold + 1)
<1> DEFINE host == deployed[cur][i].hosts[k]
           m == mInstances[k]
           new == ReleasedMap(i, k)
           h == Hundreds(k)
           p == PartOf(cur, k, i)
           t == Left(i, k)
           u == m[host].used
           rest == S \ {i}
           Use(s, id) == UseOf(cur, dep, s, k, id)
<1>1. /\ host \in DOMAIN m /\ m \in InstanceMaps /\ m[host] \in Instance /\ t \in Int
      /\ SetupTypeOK /\ cur \in Rs
  BY HostOf DEF Releases, Known
<1>2. /\ u \in Nat /\ h \in Nat \ {0} /\ p \in Nat /\ host \in Nat
      /\ Threshold = 10
  <2>1. i \in FlowIds(cur)
    OBVIOUS
  <2>2. host \in Nat
    BY <1>1, MapIs
  <2> QED
    BY <1>1, <2>1, <2>2, PartNat DEF Instance, Threshold
<1>3. t > 0 => t * h <= u * h - p
  <2>1. Flow(cur, i).rate \in Nat /\ Chain(cur) \in Seq(Function)
    BY <1>1, RequestIs
  <2> QED
    BY <1>2, <2>1, TakenIs DEF Left, PartOf
<1>4. u * h - p < (t + 1) * h \/ u * h - p < 0
  <2>1. Flow(cur, i).rate \in Nat /\ Chain(cur) \in Seq(Function)
    BY <1>1, RequestIs
  <2> QED
    BY <1>2, <2>1, TakenIs DEF Left, PartOf
<1>5. new = IF t < Threshold THEN Without(m, host) ELSE [m EXCEPT ![host].used = t]
  BY DEF ReleasedMap
<1>6. ASSUME NEW id
      PROVE  /\ Use(S, id) = Use(rest, id) + (IF host = id THEN p ELSE 0)
             /\ Use(rest, id) \in Nat /\ Use(S, id) \in Nat
  <2>1. rest \in SUBSET FlowIds(cur)
    OBVIOUS
  <2>2. dep[i].hosts[k] = host
    OBVIOUS
  <2>3. UseOf(cur, dep, S, k, id)
          = UseOf(cur, dep, S \ {i}, k, id) + Given(cur, dep, k, i, id)
    BY <1>1, UseLoses
  <2>4. Use(rest, id) \in Nat /\ Use(S, id) \in Nat
    <3> HIDE DEF rest, host
    <3> QED
      BY <1>1, <2>1, UseNat
  <2>5. Given(cur, dep, k, i, id) = IF host = id THEN p ELSE 0
    BY <2>2 DEF Given
  <2> QED
    BY <2>3, <2>4, <2>5
<1>7. /\ Use(S, host) <= (UsedOf(m, host) + n) * h
      /\ u * h <= Use(S, host) /\ u <= m[host].cap
      /\ UsedOf(m, host) = u
  BY <1>1, <1>2 DEF Tracks, UsedOf
<1> HIDE DEF h, p, t, u, host, m, new, rest
<1>8. /\ t < Threshold => Use(rest, host) <= (0 + (n + Threshold + 1)) * h
      /\ t >= Threshold => /\ t \in Nat /\ t * h <= Use(rest, host) /\ t <= u
                           /\ Use(rest, host) <= (t + (n + Threshold + 1)) * h
  <2> DEFINE use == Use(S, host)
  <2>1. use \in Nat /\ use - p = Use(rest, host) /\ p <= use
    BY <1>2, <1>6
  <2>2. use <= (u + n) * h /\ u * h <= use
    BY <1>7
  <2> HIDE DEF use
  <2> QED
    BY <1>1, <1>2, <1>3, <1>4, <2>1, <2>2, TakingLoses
<1>9. ASSUME NEW id \in Nat, id # host
      PROVE  /\ Use(rest, id) <= (UsedOf(m, id) + (n + Threshold + 1)) * h
             /\ id \in DOMAIN m => m[id].used * h <= Use(rest, id) /\ m[id].used <= m[id].cap
  <2>1. Use(rest, id) = Use(S, id)
    BY <1>2, <1>6, <1>9
  <2>2. /\ Use(S, id) <= (UsedOf(m, id) + n) * h
        /\ id \in DOMAIN m => m[id].used * h <= Use(S, id) /\ m[id].used <= m[id].cap
    BY DEF Tracks, h, m
  <2>3. Use(S, id) <= (UsedOf(m, id) + (n + 11)) * h
    BY <1>1, <1>2, <1>6, <2>2, UsedNat, MoreLost
  <2> QED
    BY <1>2, <2>1, <2>2, <2>3
<1>10. CASE t < Threshold
  <2>1. /\ DOMAIN new = DOMAIN m \ {host} /\ \A id \in DOMAIN m \ {host} : new[id] = m[id]
    BY <1>1, <1>5, <1>10, WithoutIs
  <2>2. UsedOf(new, host) = 0 /\ \A id : id # host => UsedOf(new, id) = UsedOf(m, id)
    BY <2>1 DEF UsedOf
  <2> QED
    BY <1>2, <1>8, <1>9, <1>10, <2>1, <2>2 DEF Tracks, rest, h, new
<1>11. CASE t >= Threshold
  <2>1. /\ DOMAIN new = DOMAIN m /\ new[host].used = t
        /\ \A id \in DOMAIN m : id # host => new[id] = m[id]
        /\ \A id \in DOMAIN m : new[id].cap = m[id].cap
    BY <1>1, <1>2, <1>5, <1>8, <1>11, UsedIs
  <2>2. UsedOf(new, host) = t /\ \A id : id # host => UsedOf(new, id) = UsedOf(m, id)
    BY <1>1, <2>1 DEF UsedOf
  <2>3. t <= m[host].cap
    BY <1>1, <1>2, <1>7, <1>8, <1>11 DEF Instance
  <2> QED
    BY <1>1, <1>2, <1>8, <1>9, <1>11, <2>1, <2>2, <2>3 DEF Tracks, rest, h, new
<1> QED
  BY <1>1, <1>2, <1>10, <1>11

\* A flow that is steered.
HostIsLeast(dep, i, k) == dep[i].hosts[k] = LeastUsed(k)

LEMMA TracksSteer ==
  ASSUME NEW i, Steers(i), NEW k \in 1..Len(Chain(cur)), Fits(i, k),
         NEW S \in SUBSET FlowIds(cur), i \notin S,
         NEW a, NEW b, SameHosts(a, b, S, k), HostIsLeast(b, i, k),
         NEW n \in Nat, Tracks(cur, k, tmpInstances[k], a, S, n)
  PROVE  /\ Tracks(cur, k, ChargedMap(i, k), b, S \cup {i}, n + 1)
         /\ \/ tmpInstances[k][LeastUsed(k)].used >= 1
            \/ PartOf(cur, k, i) >= Hundreds(k)
            => Charged(i, k) >= 1
<1> DEFINE host == LeastUsed(k)
           m == tmpInstances[k]
           new == ChargedMap(i, k)
           h == Hundreds(k)
           p == PartOf(cur, k, i)
           t == Charged(i, k)
           u == m[host].used
           more == S \cup {i}
           Old(id) == UseOf(cur, a, S, k, id)
           Use(id) == UseOf(cur, b, more, k, id)
<1>1. /\ host \in DOMAIN m /\ m \in InstanceMaps /\ m[host] \in Instance /\ t \in Nat
      /\ SetupTypeOK /\ cur \in Rs /\ i \in FlowIds(cur)
      /\ DOMAIN new = DOMAIN m /\ new[host].used = t
      /\ \A id \in DOMAIN m : /\ new[id].cap = m[id].cap
                              /\ id # host => new[id] = m[id]
  BY ChargedIs DEF Steers, Known, Fits
<1>2. /\ u \in Nat /\ h \in Nat \ {0} /\ p \in Nat /\ host \in Nat /\ m[host].cap \in Nat
  <2>1. host \in Nat
    BY <1>1, MapIs
  <2> QED
    BY <1>1, <2>1, PartNat DEF Instance
<1>3. t * h <= u * h + p /\ u * h + p < (t + 1) * h
  <2>1. Flow(cur, i).rate \in Nat /\ Chain(cur) \in Seq(Function)
    BY <1>1, RequestIs
  <2> QED
    BY <1>2, <2>1, AddedIs DEF Charged, PartOf
<1>4. p <= (m[host].cap - u) * h
  BY DEF Fits, PartOf
<1>5. ASSUME NEW id
      PROVE  /\ Use(id) = Old(id) + (IF host = id THEN p ELSE 0)
             /\ Old(id) \in Nat
  <2>1. Use(id) = Old(id) + Given(cur, b, k, i, id)
    BY <1>1, UseAdds
  <2>2. Given(cur, b, k, i, id) = IF host = id THEN p ELSE 0
    BY DEF Given, HostIsLeast
  <2>3. Old(id) \in Nat
    BY <1>1, UseNat
  <2> QED
    BY <2>1, <2>2, <2>3
<1>6. /\ Old(host) <= (UsedOf(m, host) + n) * h
      /\ u * h <= Old(host) /\ UsedOf(m, host) = u
  BY <1>1, <1>2 DEF Tracks, UsedOf
<1> HIDE DEF h, p, t, u, host, m, new, more
<1>7. /\ t * h <= Use(host) /\ Use(host) <= (t + (n + 1)) * h /\ t <= m[host].cap
      /\ u >= 1 \/ p >= h => t >= 1
  <2> DEFINE use == Old(host)
             cap == m[host].cap
  <2>1. use \in Nat /\ Use(host) = use + p
    BY <1>5
  <2>2. use <= (u + n) * h /\ u * h <= use
    BY <1>6
  <2>3. cap \in Nat /\ p <= (cap - u) * h
    BY <1>2, <1>4
  <2> HIDE DEF use, cap
  <2>4. /\ t * h <= use + p /\ use + p <= (t + (n + 1)) * h /\ t <= cap
        /\ u >= 1 \/ p >= h => t >= 1
    BY <1>1, <1>2, <1>3, <2>1, <2>2, <2>3, AddingLoses
  <2> QED
    BY <2>1, <2>4 DEF cap
<1>8. ASSUME NEW id \in Nat, id # host
      PROVE  /\ Use(id) <= (UsedOf(m, id) + (n + 1)) * h
             /\ id \in DOMAIN m => m[id].used * h <= Use(id) /\ m[id].used <= m[id].cap
  <2>1. Use(id) = Old(id)
    BY <1>2, <1>5, <1>8
  <2>2. /\ Old(id) <= (UsedOf(m, id) + n) * h
        /\ id \in DOMAIN m => m[id].used * h <= Old(id) /\ m[id].used <= m[id].cap
    BY DEF Tracks, h, m
  <2>3. Old(id) <= (UsedOf(m, id) + (n + 1)) * h
    BY <1>1, <1>2, <1>5, <2>2, UsedNat, MoreLost
  <2> QED
    BY <1>2, <2>1, <2>2, <2>3
<1>9. UsedOf(new, host) = t /\ \A id : id # host => UsedOf(new, id) = UsedOf(m, id)
  BY <1>1 DEF UsedOf
<1>10. Tracks(cur, k, new, b, more, n + 1)
  BY <1>1, <1>2, <1>7, <1>8, <1>9 DEF Tracks, h
<1> QED
  BY <1>7, <1>10 DEF h, p, t, u, host, m, new, more

-----------------------------------------------------------------------------
(***************************************************************************)
(* When every flow of a request fits into an instance and takes a whole of *)
(* it, no instance is there for nothing.                                   *)
(***************************************************************************)
Plain(r, k) ==
  \A i \in FlowIds(r) : /\ Flow(r, i).rate <= Chain(r)[k].cap
                        /\ PartOf(r, k, i) >= Hundreds(k)
AllUsed(r, k, m) == Plain(r, k) => \A id \in DOMAIN m : m[id].used >= 1

\* The instances of a slot that wait for a flow: there are not more than flows
\* of D to come.
Waiting(m, ids) == {id \in ids : m[id].used = 0}
Waits(m, ids, D) ==
  /\ \A id \in DOMAIN m : id \in Waiting(m, ids) \/ m[id].used >= 1
  /\ Cardinality(Waiting(m, ids)) <= Cardinality(D)
  /\ \A id \in Waiting(m, ids) : m[id].cap > 0

Filling(k) == Plain(cur, k) => Waits(tmpInstances[k], slotIds[k], toDeploy)

LEMMA ReleaseLeavesUsed ==
  ASSUME NEW i, Releases(i), NEW k \in 1..Len(Chain(cur)),
         AllUsed(cur, k, mInstances[k])
  PROVE  AllUsed(cur, k, ReleasedMap(i, k))
<1> DEFINE host == deployed[cur][i].hosts[k]
           m == mInstances[k]
           new == ReleasedMap(i, k)
           t == Left(i, k)
<1>1. host \in DOMAIN m /\ m \in InstanceMaps /\ t \in Int /\ Threshold = 10
  BY HostOf DEF Threshold
<1>2. new = IF t < Threshold THEN Without(m, host) ELSE [m EXCEPT ![host].used = t]
  BY DEF ReleasedMap
<1>3. Plain(cur, k) => \A id \in DOMAIN m : m[id].used >= 1
  BY DEF AllUsed
<1> HIDE DEF host, m, new, t
<1>4. CASE t < Threshold
  <2>1. /\ DOMAIN new = DOMAIN m \ {host} /\ \A id \in DOMAIN m \ {host} : new[id] = m[id]
    BY <1>1, <1>2, <1>4, WithoutIs
  <2> QED
    BY <1>3, <2>1 DEF AllUsed, new
<1>5. CASE t >= Threshold
  <2>1. t \in Nat
    BY <1>1, <1>5
  <2>2. /\ DOMAIN new = DOMAIN m /\ new[host].used = t
        /\ \A id \in DOMAIN m : id # host => new[id] = m[id]
    BY <1>1, <1>2, <1>5, <2>1, UsedIs
  <2>3. t >= 1
    BY <1>1, <1>5
  <2> QED
    BY <1>3, <2>2, <2>3 DEF AllUsed, new
<1> QED
  BY <1>1, <1>4, <1>5

\* Plain flows need no more instances than there are flows, and those have a
\* capacity.
LEMMA PlainWants ==
  ASSUME Places0, NEW k \in 1..Len(Chain(cur)), Plain(cur, k), toDeploy # {}
  PROVE  /\ Wanted(Chain(cur)[k]) <= Cardinality(toDeploy)
         /\ Cardinality(toDeploy) \in Nat /\ 1 <= Cardinality(toDeploy)
         /\ TotalTraffic > 0
<1> DEFINE c == Chain(cur)[k].cap
           f == [i \in toDeploy |-> Flow(cur, i).rate]
           d == Cardinality(toDeploy)
<1>1. /\ SetupTypeOK /\ cur \in Rs /\ toDeploy \subseteq FlowIds(cur)
      /\ IsFiniteSet(toDeploy) /\ \A i \in toDeploy : Flow(cur, i).rate \in Nat
      /\ Chain(cur) \in Seq(Function)
  BY RequestIs, FS_Subset DEF Places0, Known
<1>2. d \in Nat /\ 1 <= d
  <2>1. d \in Nat /\ d # 0
    BY <1>1, FS_CardinalityType, FS_EmptySet
  <2> QED
    BY <2>1
<1>3. c \in Nat \ {0}
  <2>1. Chain(cur)[k] \in Function
    BY <1>1, ElementOfSeq
  <2> QED
    BY <2>1 DEF Function
<1>4. \A i \in toDeploy : f[i] \in Nat /\ f[i] <= c /\ f[i] > 0
  <2> TAKE i \in toDeploy
  <2>1. PartOf(cur, k, i) >= Hundreds(k) /\ Flow(cur, i).rate <= c
    BY <1>1 DEF Plain
  <2>2. /\ Hundreds(k) \in Nat \ {0}
        /\ Flow(cur, i).rate = 0 => PartOf(cur, k, i) = 0
    BY <1>1, PartTypes DEF PartOf
  <2>3. Flow(cur, i).rate # 0
    BY <2>1, <2>2
  <2> QED
    BY <1>1, <2>1, <2>3
<1>5. TotalTraffic = SumFunctionOnSet(f, toDeploy)
  BY DEF TotalTraffic, SumFunction
<1> HIDE DEF f
<1>6. TotalTraffic \in Nat /\ TotalTraffic <= d * c
  BY <1>1, <1>3, <1>4, <1>5, SumTypes, SumBound
<1>7. TotalTraffic > 0
  <2>1. PICK i \in toDeploy : TRUE
    OBVIOUS
  <2>2. TotalTraffic = f[i] + SumFunctionOnSet(f, toDeploy \ {i})
    BY <1>1, <1>4, <1>5, SumRemove
  <2>3. IsFiniteSet(toDeploy \ {i}) /\ \A x \in toDeploy \ {i} : f[x] \in Nat
    BY <1>1, <1>4, FS_Subset
  <2>4. SumFunctionOnSet(f, toDeploy \ {i}) \in Nat
    BY <2>3, SumTypes
  <2> QED
    BY <1>4, <2>2, <2>4
<1> DEFINE total == TotalTraffic
           q == (total + c - 1) \div c
           T == {q, d}
<1>8. Wanted(Chain(cur)[k]) = Max(T)
  BY DEF Wanted
<1>9. total \in Nat /\ total <= d * c
  BY <1>6
<1> HIDE DEF total, c, d
<1>10. q \in Nat /\ q <= d
  <2> DEFINE a == total + c - 1
  <2>1. a \in Nat /\ a < d * c + c
    <3>1. d * c \in Nat
      BY <1>2, <1>3
    <3> QED
      BY <1>3, <1>9, <3>1
  <2> HIDE DEF a
  <2> DEFINE w == a \div c
  <2>2. w \in Nat /\ a = c * w + (a % c) /\ a % c \in 0..(c - 1)
    BY <1>3, <2>1
  <2> HIDE DEF w
  <2>3. w <= d
    <3> SUFFICES ASSUME w > d
                 PROVE  FALSE
      BY <1>2, <2>2
    <3> DEFINE x == w - d - 1
    <3>1. x \in Nat /\ w = d + 1 + x
      BY <1>2, <2>2
    <3> HIDE DEF x
    <3>2. c * (d + 1 + x) = d * c + c + c * x /\ c * x \in Nat /\ d * c \in Nat
      BY <1>2, <1>3, <3>1
    <3> QED
      BY <1>3, <2>1, <2>2, <3>1, <3>2
  <2> QED
    BY <2>2, <2>3 DEF w, a
<1> HIDE DEF q
<1>11. T \in SUBSET Nat /\ T # {} /\ IsFiniteSet(T)
  <2>1. T = {q} \cup {d}
    OBVIOUS
  <2>2. IsFiniteSet({q} \cup {d})
    BY FS_Singleton, FS_AddElement
  <2> QED
    BY <1>2, <1>10, <2>1, <2>2
<1> HIDE DEF T
<1>12. Max(T) \in T
  BY <1>11, MaxIs
<1>13. Max(T) <= d
  BY <1>2, <1>10, <1>12 DEF T
<1> QED
  BY <1>2, <1>7, <1>8, <1>13 DEF d

\* What deploy_functions has placed waits for the flows.
LEMMA FreshWaits ==
  ASSUME Places0, NEW k \in 1..Len(Chain(cur)), NEW st, st.ins \in Maps(cur), Fresh(st, k),
         AllUsed(cur, k, mInstances[k]), Plain(cur, k), toDeploy # {}
  PROVE  Waits(st.ins[k], st.ids[k], toDeploy)
<1> DEFINE m == mInstances[k]
           new == st.ins[k]
           ids == st.ids[k]
           W == Waiting(new, ids)
<1>1. /\ DOMAIN m \subseteq DOMAIN new /\ ids = DOMAIN new \ DOMAIN m
      /\ \A id \in DOMAIN m : new[id] = m[id]
      /\ \A id \in ids : new[id].used = 0 /\ (TotalTraffic > 0 => new[id].cap > 0)
      /\ Cardinality(ids) <= 1 \/ Cardinality(ids) <= Wanted(Chain(cur)[k])
  BY DEF Fresh
<1>2. new \in InstanceMaps
  BY DEF Maps
<1>3. \A id \in DOMAIN m : m[id].used >= 1
  BY DEF AllUsed
<1>4. Chain(cur)[k] \in Function
  BY RequestIs, ElementOfSeq DEF Places0, Known
<1>5. Wanted(Chain(cur)[k]) \in Int
  BY <1>4, TrafficIs
<1> HIDE DEF m, new, ids
<1>6. IsFiniteSet(ids) /\ Cardinality(ids) \in Nat
  BY <1>1, <1>2, MapIs, FS_Subset, FS_CardinalityType
<1>7. W = ids
  BY <1>1 DEF Waiting
<1>8. Cardinality(ids) <= Cardinality(toDeploy)
  BY <1>1, <1>5, <1>6, PlainWants
<1>9. \A id \in ids : new[id].cap > 0
  BY <1>1, PlainWants
<1>10. \A id \in DOMAIN new : id \in ids \/ new[id].used >= 1
  BY <1>1, <1>3
<1> HIDE DEF W
<1>11. /\ \A id \in DOMAIN new : id \in W \/ new[id].used >= 1
       /\ Cardinality(W) <= Cardinality(toDeploy)
       /\ \A id \in W : new[id].cap > 0
  BY <1>7, <1>8, <1>9, <1>10
<1> QED
  BY <1>11 DEF new, ids, W, Waits

\* A flow goes to an instance that waits, as long as there is one.
LEMMA SteerFills ==
  ASSUME NEW i \in toDeploy, Steers(i), NEW k \in 1..Len(Chain(cur)), Fits(i, k),
         toDeploy \subseteq FlowIds(cur), Plain(cur, k), Filling(k), Charged(i, k) >= 1
  PROVE  Waits(ChargedMap(i, k), slotIds[k], toDeploy \ {i})
<1> DEFINE host == LeastUsed(k)
           m == tmpInstances[k]
           new == ChargedMap(i, k)
           ids == slotIds[k]
           W == Waiting(m, ids)
<1>1. /\ host \in DOMAIN m /\ m \in InstanceMaps /\ m[host] \in Instance
      /\ DOMAIN new = DOMAIN m /\ new[host].used >= 1
      /\ \A id \in DOMAIN m : /\ new[id].cap = m[id].cap
                              /\ id # host => new[id] = m[id]
  BY ChargedIs DEF Fits
<1>2. /\ ids \subseteq DOMAIN m /\ IsFiniteSet(DOMAIN m)
      /\ \A id \in DOMAIN m : m[id] \in Instance
  BY <1>1, MapIs DEF Steers, SlotIdsThere
<1>3. /\ \A id \in DOMAIN m : id \in W \/ m[id].used >= 1
      /\ Cardinality(W) <= Cardinality(toDeploy)
      /\ \A id \in W : m[id].cap > 0
  BY DEF Filling, Waits
<1>4. W \subseteq ids /\ W \subseteq Rated(k) /\ \A id \in W : m[id].used = 0
  BY <1>3 DEF Waiting, Rated
<1>5. W # {} => host \in W
  <2> SUFFICES ASSUME NEW w \in W
               PROVE  host \in W
    OBVIOUS
  <2>1. host \in Rated(k) /\ m[host].used <= m[w].used
    <3>1. tmpInstances \in Maps(cur) /\ SlotIdsThere
      BY DEF Steers, TmpCopies
    <3> HIDE DEF W
    <3> QED
      BY <1>4, <3>1, LeastUsedIs
  <2>2. m[host].used \in Nat /\ m[w].used = 0
    BY <1>1, <1>4 DEF Instance
  <2>3. m[host].used = 0 /\ host \in ids
    BY <2>1, <2>2 DEF Rated
  <2> QED
    BY <2>3 DEF Waiting
<1> DEFINE V == Waiting(new, ids)
<1>6. V = W \ {host}
  BY <1>1, <1>2 DEF Waiting
<1>7. \A id \in DOMAIN new : id \in V \/ new[id].used >= 1
  <2> HIDE DEF V, W, new, m, host
  <2> QED
    BY <1>1, <1>3, <1>6
<1>8. Cardinality(V) <= Cardinality(toDeploy \ {i})
  <2>1. IsFiniteSet(W) /\ IsFiniteSet(toDeploy)
    <3>1. W \subseteq DOMAIN m /\ IsFiniteSet(FlowIds(cur))
      BY <1>2, <1>4, RequestIs DEF Steers, Known
    <3> HIDE DEF W
    <3> QED
      BY <1>2, <3>1, FS_Subset
  <2> HIDE DEF V, W, host
  <2>2. /\ Cardinality(V) = IF host \in W THEN Cardinality(W) - 1 ELSE Cardinality(W)
        /\ Cardinality(toDeploy \ {i}) = Cardinality(toDeploy) - 1
        /\ IsFiniteSet(toDeploy \ {i})
    BY <1>6, <2>1, FS_RemoveElement
  <2>3. /\ Cardinality(W) \in Nat /\ Cardinality(toDeploy) \in Nat
        /\ Cardinality(toDeploy \ {i}) \in Nat
        /\ W = {} => Cardinality(W) = 0
    BY <2>1, <2>2, FS_CardinalityType, FS_EmptySet
  <2> QED
    BY <1>3, <1>5, <2>2, <2>3
<1>9. \A id \in V : new[id].cap > 0
  <2>1. V \subseteq W /\ V \subseteq DOMAIN m
    BY <1>2, <1>4, <1>6
  <2> HIDE DEF V, W, new, m
  <2> QED
    BY <1>1, <1>3, <2>1
<1> QED
  BY <1>7, <1>8, <1>9 DEF Waits

\* When no flow is to come, none waits.
LEMMA FilledUp ==
  ASSUME NEW k, NEW r, NEW m \in InstanceMaps, NEW ids \in SUBSET DOMAIN m,
         Plain(r, k) => Waits(m, ids, {})
  PROVE  AllUsed(r, k, m)
<1>1. ASSUME Plain(r, k)
      PROVE  \A id \in DOMAIN m : m[id].used >= 1
  <2> DEFINE W == Waiting(m, ids)
  <2>1. /\ \A id \in DOMAIN m : id \in W \/ m[id].used >= 1
        /\ Cardinality(W) <= Cardinality({})
    BY <1>1 DEF Waits
  <2>2. W \subseteq DOMAIN m /\ IsFiniteSet(DOMAIN m)
    BY MapIs DEF Waiting
  <2> HIDE DEF W
  <2>3. IsFiniteSet(W) /\ Cardinality(W) \in Nat /\ Cardinality({}) = 0
        /\ (Cardinality(W) = 0 <=> W = {})
    BY <2>2, FS_Subset, FS_CardinalityType, FS_EmptySet
  <2> QED
    BY <2>1, <2>3
<1> QED
  BY <1>1 DEF AllUsed

-----------------------------------------------------------------------------
(***************************************************************************)
(* The second invariant: between two calls and on the copies, what is in   *)
(* use follows the flows that account for it.                              *)
(***************************************************************************)
\* What may have been lost of a use with flows D of which those of S hold.
Lost(D, S) == Cardinality(D) + (Threshold + 1) * Cardinality(D \ S)

InUse(r, m, dep, S) ==
  \A k \in 1..Len(Chain(r)) : Tracks(r, k, m[k], dep, S, Lost(DOMAIN dep, S))
NoIdle(r, m) == \A k \in 1..Len(Chain(r)) : AllUsed(r, k, m[k])

ResultsServe ==
  \A r \in Rs : /\ InUse(r, instances[r], deployed[r], Holding(r))
                /\ NoIdle(r, instances[r])

MInstancesServe ==
  InUse(cur, mInstances, MidDeployed[cur], MidIds) /\ NoIdle(cur, mInstances)
TmpInstancesServe == InUse(cur, tmpInstances, MidDeployed[cur], MidIds)

\* What is asked for and missing.
NoneToSteer ==
  /\ toRelease = {}
  /\ \E k \in DOMAIN slotIds : \A id \in slotIds[k] : tmpInstances[k][id].cap = 0
NoneToRelease == \E k \in 1..Len(Chain(cur)) : Unseen(cur, Min(toRelease), k)

UsesInv ==
  /\ pc # "setup" => ResultsServe
  /\ pc \in {"release", "place"} => MInstancesServe
  /\ pc = "place" => toDeploy # {}
  /\ pc \in {"steer", "save"} => TmpInstancesServe
  /\ pc = "steer" => \A k \in 1..Len(Chain(cur)) : Filling(k)
  /\ pc = "save" => NoIdle(cur, tmpInstances)
  /\ pc = "undefined" => NoneToSteer \/ NoneToRelease

LEMMA LostIs ==
  ASSUME NEW D, IsFiniteSet(D), NEW S \in SUBSET D
  PROVE  /\ Lost(D, S) \in Nat
         /\ \A i \in S : Lost(D, S \ {i}) = Lost(D, S) + Threshold + 1
         /\ \A i : i \notin D => Lost(D \cup {i}, S \cup {i}) = Lost(D, S) + 1
<1>1. /\ IsFiniteSet(D \ S) /\ Cardinality(D) \in Nat /\ Cardinality(D \ S) \in Nat
      /\ Threshold = 10
  BY FS_Subset, FS_CardinalityType DEF Threshold
<1>2. Lost(D, S) \in Nat
  BY <1>1 DEF Lost
<1>3. ASSUME NEW i \in S
      PROVE  Lost(D, S \ {i}) = Lost(D, S) + Threshold + 1
  <2>1. D \ (S \ {i}) = (D \ S) \cup {i} /\ i \notin D \ S
    OBVIOUS
  <2>2. Cardinality((D \ S) \cup {i}) = Cardinality(D \ S) + 1
    BY <1>1, <2>1, FS_AddElement
  <2> QED
    BY <1>1, <2>1, <2>2 DEF Lost
<1>4. ASSUME NEW i, i \notin D
      PROVE  Lost(D \cup {i}, S \cup {i}) = Lost(D, S) + 1
  <2>1. (D \cup {i}) \ (S \cup {i}) = D \ S
    BY <1>4
  <2>2. Cardinality(D \cup {i}) = Cardinality(D) + 1
    BY <1>4, FS_AddElement
  <2> DEFINE more == D \cup {i}
             rest == (D \cup {i}) \ (S \cup {i})
  <2>3. Lost(D \cup {i}, S \cup {i}) = Cardinality(more) + (Threshold + 1) * Cardinality(rest)
    BY DEF Lost
  <2>4. Cardinality(rest) = Cardinality(D \ S) /\ Cardinality(more) = Cardinality(D) + 1
    BY <2>1, <2>2
  <2> HIDE DEF more, rest
  <2> QED
    BY <1>1, <2>3, <2>4 DEF Lost
<1> QED
  BY <1>2, <1>3, <1>4

LEMMA MidDomain ==
  ASSUME MidKnown
  PROVE  /\ MidIds \subseteq DOMAIN MidDeployed[cur]
         /\ DOMAIN MidDeployed[cur] \subseteq FlowIds(cur)
         /\ IsFiniteSet(DOMAIN MidDeployed[cur]) /\ MidIds \in SUBSET FlowIds(cur)
         /\ SetupTypeOK /\ cur \in Rs
         /\ Lost(DOMAIN MidDeployed[cur], MidIds) \in Nat
<1>1. /\ AllFlows(MidDeployed) /\ cur \in Rs /\ SetupTypeOK
      /\ DOMAIN MidDeployed[cur] = DOMAIN deployed[cur] \cup DOMAIN steered
  BY MidIs DEF MidFacts, MidKnown, FlowsKnown
<1>2. DOMAIN MidDeployed[cur] \subseteq FlowIds(cur)
  BY <1>1, FlowMapIs DEF AllFlows
<1>3. MidIds \subseteq DOMAIN MidDeployed[cur]
  BY <1>1 DEF MidIds
<1>4. IsFiniteSet(DOMAIN MidDeployed[cur])
  BY <1>1, <1>2, RequestIs, FS_Subset
<1> QED
  BY <1>1, <1>2, <1>3, <1>4, LostIs

LEMMA UsesFrame ==
  ASSUME requests' = requests, cfg' = cfg
  PROVE  /\ \A r, m, dep, S : InUse(r, m, dep, S)' = InUse(r, m, dep, S)
         /\ \A r, m : NoIdle(r, m)' = NoIdle(r, m)
         /\ \A r, k : Plain(r, k)' = Plain(r, k)
<1>1. \A r, k, i : PartOf(r, k, i)' = PartOf(r, k, i)
  BY Frame DEF PartOf
<1>2. \A r, k : Plain(r, k)' = Plain(r, k)
  BY <1>1, Frame DEF Plain
<1>3. \A r, dep, S, k, id : UseOf(r, dep, S, k, id)' = UseOf(r, dep, S, k, id)
  <2> TAKE r, dep, S, k, id
  <2>1. PartsOn(r, dep, S, k, id)' = PartsOn(r, dep, S, k, id)
    BY <1>1 DEF PartsOn
  <2> QED
    BY <2>1 DEF UseOf
<1>4. \A r, k, m, dep, S, n : Tracks(r, k, m, dep, S, n)' = Tracks(r, k, m, dep, S, n)
  BY <1>3 DEF Tracks
<1>5. \A r, m, dep, S : InUse(r, m, dep, S)' = InUse(r, m, dep, S)
  BY <1>4, Frame DEF InUse
<1>6. \A r, m : NoIdle(r, m)' = NoIdle(r, m)
  BY <1>2, Frame DEF NoIdle, AllUsed
<1> QED
  BY <1>2, <1>5, <1>6

LEMMA ServeFrame ==
  ASSUME requests' = requests, cfg' = cfg, instances' = instances, deployed' = deployed,
         \A r \in Rs : Holding(r)' = Holding(r), ResultsServe
  PROVE  ResultsServe'
<1>1. Rs' = Rs
  BY Frame
<1>2. ASSUME NEW r \in Rs
      PROVE  InUse(r, instances[r], deployed[r], Holding(r))' /\ NoIdle(r, instances[r])'
  BY UsesFrame DEF ResultsServe
<1> QED
  BY <1>1, <1>2 DEF ResultsServe

LEMMA BeginServes ==
  ASSUME BooksInv, UsesInv, Begin
  PROVE  UsesInv'
<1>1. requests' = requests /\ cfg' = cfg /\ pc' = "call" /\ SetupTypeOK
  BY SetupFrame DEF BooksInv, SetupInv, Begin
<1>2. /\ instances' = [r \in Rs |-> NoInstances(r)] /\ deployed' = [r \in Rs |-> <<>>]
  BY DEF Begin, Rs
<1>3. ASSUME NEW r \in Rs
      PROVE  /\ InUse(r, NoInstances(r), <<>>, {}) /\ NoIdle(r, NoInstances(r))
  <2>1. \A k \in 1..Len(Chain(r)) : NoInstances(r)[k] = <<>>
    BY DEF NoInstances
  <2>2. DOMAIN <<>> = {} /\ IsFiniteSet({})
    BY EmptyMaps, FS_EmptySet
  <2>3. Lost({}, {}) \in Nat
    BY <2>2, LostIs
  <2>4. ASSUME NEW k \in 1..Len(Chain(r))
        PROVE  Tracks(r, k, <<>>, <<>>, {}, Lost(DOMAIN <<>>, {}))
    <3> DEFINE n == Lost({}, {})
    <3>1. n \in Nat /\ Hundreds(k) \in Nat
      BY <1>1, <2>3, HundredsNat
    <3>2. ASSUME NEW id \in Nat
          PROVE  UseOf(r, <<>>, {}, k, id) = 0
      <4>1. OnHost(<<>>, {}, k, id) = {}
        BY DEF OnHost
      <4>2. {} \in SUBSET FlowIds(r)
        OBVIOUS
      <4> QED
        BY <1>1, <4>1, <4>2, UseNat
    <3> HIDE DEF n
    <3>3. 0 <= (0 + n) * Hundreds(k)
      BY <3>1
    <3>4. Tracks(r, k, <<>>, <<>>, {}, n)
      BY <2>2, <3>2, <3>3 DEF Tracks, UsedOf
    <3> QED
      BY <2>2, <3>4 DEF n
  <2>5. \A k \in 1..Len(Chain(r)) : AllUsed(r, k, <<>>)
    BY <2>2 DEF AllUsed
  <2> QED
    BY <2>1, <2>4, <2>5 DEF InUse, NoIdle
<1>4. ASSUME NEW r \in Rs
      PROVE  InUse(r, instances[r], deployed[r], Holding(r))' /\ NoIdle(r, instances[r])'
  <2>1. Holding(r)' = {} /\ instances'[r] = NoInstances(r) /\ deployed'[r] = <<>>
    <3>1. instances'[r] = NoInstances(r) /\ deployed'[r] = <<>>
      BY <1>2
    <3> QED
      BY <3>1, EmptyMaps DEF Holding
  <2> QED
    BY <1>1, <1>3, <2>1, UsesFrame
<1>5. ResultsServe'
  BY <1>1, <1>4, Frame DEF ResultsServe
<1> QED
  BY <1>1, <1>5 DEF UsesInv

\* The steps between the calls.
LEMMA CallServes ==
  ASSUME BooksInv, UsesInv, ReturnNone \/ NextSlot \/ (Fail /\ pc \in Busy)
  PROVE  UsesInv'
<1>1. /\ UNCHANGED setupVars /\ pc' = "call" /\ pc # "setup"
      /\ instances' = instances /\ deployed' = deployed
  BY DEF ReturnNone, NextSlot, Fail, Called, Busy, resultVars
<1>2. requests' = requests /\ cfg' = cfg
  BY <1>1, SetupFrame DEF BooksInv
<1>3. \A r \in Rs : Holding(r)' = Holding(r)
  <2>1. CASE ReturnNone
    BY <2>1, ReturnNoneStep
  <2>2. CASE NextSlot \/ Fail
    <3>1. saved' = saved
      BY <2>2 DEF NextSlot, Fail, resultVars
    <3> QED
      BY <1>1, <1>2, <3>1, Frame DEF Holding
  <2> QED
    BY <2>1, <2>2
<1>4. ResultsServe'
  BY <1>1, <1>2, <1>3, ServeFrame DEF UsesInv
<1> QED
  BY <1>1, <1>4 DEF UsesInv

\* What stays in the middle of main.
LEMMA ServesInside ==
  ASSUME BooksInv, UsesInv, pc # "setup", UNCHANGED setupVars, UNCHANGED resultVars,
         cur' = cur, time' = time, offline' = offline
  PROVE  /\ requests' = requests /\ cfg' = cfg /\ ResultsServe'
         /\ \A r, i : Flow(r, i)' = Flow(r, i)
         /\ Chain(cur)' = Chain(cur)
         /\ \A m, dep, S : InUse(cur, m, dep, S)' = InUse(cur', m, dep, S)
         /\ \A m : NoIdle(cur, m)' = NoIdle(cur', m)
         /\ \A k : Plain(cur, k)' = Plain(cur, k)
         /\ steered' = steered /\ toRelease' = toRelease =>
              MidDeployed' = MidDeployed /\ MidIds' = MidIds
<1>1. requests' = requests /\ cfg' = cfg
  BY SetupFrame DEF BooksInv
<1>2. /\ \A r, i : Flow(r, i)' = Flow(r, i)
      /\ \A r : Holding(r)' = Holding(r)
      /\ Chain(cur)' = Chain(cur)
  <2>1. \A r, i : Flow(r, i)' = Flow(r, i)
    BY <1>1, Frame
  <2>2. \A r : Holding(r)' = Holding(r)
    BY <2>1 DEF Holding, resultVars
  <2>3. Chain(cur)' = Chain(cur)
    BY <1>1 DEF Chain
  <2> QED
    BY <2>1, <2>2, <2>3
<1>3. instances' = instances /\ deployed' = deployed
  BY DEF resultVars
<1>4. ResultsServe'
  BY <1>1, <1>2, <1>3, ServeFrame DEF UsesInv
<1>5. steered' = steered /\ toRelease' = toRelease =>
        MidDeployed' = MidDeployed /\ MidIds' = MidIds
  BY <1>1, MidFrame
<1>6. \A k : Plain(cur, k)' = Plain(cur, k)
  BY <1>1, UsesFrame
<1> QED
  BY <1>1, <1>2, <1>4, <1>5, <1>6, UsesFrame

LEMMA CheckServes ==
  ASSUME BooksInv, UsesInv, CheckFlows \/ CheckOffline
  PROVE  UsesInv'
<1>1. /\ UNCHANGED setupVars /\ UNCHANGED resultVars
      /\ pc = "call" /\ pc' = "release"
      /\ cur' = cur /\ time' = time /\ offline' = offline
      /\ mInstances' = instances[cur]
  BY DEF CheckFlows, CheckOffline, Called, callerVars
<1>2. requests' = requests /\ cfg' = cfg /\ ResultsServe'
  BY <1>1, ServesInside
<1>3. cur \in Rs /\ MidDeployed' = deployed /\ MidIds' = Holding(cur)
  BY CheckStep
<1>4. /\ InUse(cur, instances[cur], deployed[cur], Holding(cur))
      /\ NoIdle(cur, instances[cur])
  BY <1>1, <1>3 DEF UsesInv, ResultsServe
<1>5. MInstancesServe'
  BY <1>1, <1>2, <1>3, <1>4, UsesFrame DEF MInstancesServe
<1> QED
  BY <1>1, <1>2, <1>5 DEF UsesInv

LEMMA ReleaseServes ==
  ASSUME BooksInv, UsesInv, ReleaseFlow
  PROVE  UsesInv'
<1> DEFINE i == Min(toRelease)
           dep == MidDeployed[cur]
           n == Lost(DOMAIN dep, MidIds)
<1>1. /\ UNCHANGED setupVars /\ UNCHANGED resultVars
      /\ pc = "release" /\ pc' = "release"
      /\ cur' = cur /\ time' = time /\ offline' = offline
  BY DEF ReleaseFlow, callerVars
<1>2. requests' = requests /\ cfg' = cfg /\ ResultsServe'
  BY <1>1, ServesInside
<1>3. ReleasedNow(i)
  BY ReleaseFlowStep
<1>4. MidKnown /\ MInstancesServe
  BY <1>1, Facts DEF UsesInv, Busy
<1>5. /\ MidIds \subseteq DOMAIN dep /\ IsFiniteSet(DOMAIN dep)
      /\ MidIds \in SUBSET FlowIds(cur) /\ n \in Nat
  BY <1>4, MidDomain
<1> HIDE DEF i, n
<1>6. /\ Releases(i) /\ i \in MidIds /\ MidIds' = MidIds \ {i}
      /\ MidDeployed' = MidDeployed /\ dep[i] = deployed[cur][i]
      /\ \A k \in 1..Len(Chain(cur)) : mInstances'[k] = ReleasedMap(i, k)
  BY <1>3 DEF ReleasedNow
<1>7. Lost(DOMAIN dep, MidIds') = n + Threshold + 1
  BY <1>5, <1>6, LostIs DEF n
<1> HIDE DEF dep
<1>8. InUse(cur, mInstances', dep, MidIds') /\ NoIdle(cur, mInstances')
  <2>1. ASSUME NEW k \in 1..Len(Chain(cur))
        PROVE  /\ Tracks(cur, k, ReleasedMap(i, k), dep, MidIds \ {i}, n + Threshold + 1)
               /\ AllUsed(cur, k, ReleasedMap(i, k))
    <3>1. Tracks(cur, k, mInstances[k], dep, MidIds, n) /\ AllUsed(cur, k, mInstances[k])
      BY <1>4 DEF MInstancesServe, InUse, NoIdle, n, dep
    <3> QED
      BY <1>5, <1>6, <3>1, TracksRelease, ReleaseLeavesUsed
  <2> QED
    BY <1>6, <1>7, <2>1 DEF InUse, NoIdle
<1>9. MInstancesServe'
  BY <1>1, <1>2, <1>6, <1>8, UsesFrame DEF MInstancesServe, dep
<1> QED
  BY <1>1, <1>2, <1>9 DEF UsesInv

LEMMA ReleasedServes ==
  ASSUME BooksInv, UsesInv, Released
  PROVE  UsesInv'
<1>1. /\ UNCHANGED setupVars /\ UNCHANGED resultVars /\ UNCHANGED flowVars
      /\ cur' = cur /\ time' = time /\ offline' = offline
      /\ pc = "release" /\ pc' = (IF toDeploy = {} THEN "save" ELSE "place")
      /\ mInstances' = mInstances /\ tmpInstances' = mInstances
  BY DEF Released, callerVars
<1>2. /\ requests' = requests /\ cfg' = cfg /\ ResultsServe'
      /\ MidDeployed' = MidDeployed /\ MidIds' = MidIds
  BY <1>1, ServesInside DEF flowVars
<1>3. MInstancesServe
  BY <1>1 DEF UsesInv
<1>4. MInstancesServe' /\ TmpInstancesServe' /\ NoIdle(cur, tmpInstances)'
  BY <1>1, <1>2, <1>3, UsesFrame DEF MInstancesServe, TmpInstancesServe
<1> QED
  BY <1>1, <1>2, <1>4 DEF UsesInv, flowVars

LEMMA DeployServes ==
  ASSUME BooksInv, UsesInv, DeployFunctions
  PROVE  UsesInv'
<1> DEFINE dep == MidDeployed[cur]
           n == Lost(DOMAIN dep, MidIds)
           st == [ins |-> tmpInstances', ids |-> slotIds']
<1>1. /\ UNCHANGED setupVars /\ UNCHANGED resultVars /\ UNCHANGED flowVars
      /\ cur' = cur /\ time' = time /\ offline' = offline
      /\ pc = "place" /\ pc' = "steer"
  BY DEF DeployFunctions, callerVars
<1>2. /\ requests' = requests /\ cfg' = cfg /\ ResultsServe'
      /\ Chain(cur)' = Chain(cur) /\ \A k : Plain(cur, k)' = Plain(cur, k)
      /\ MidDeployed' = MidDeployed /\ MidIds' = MidIds
  BY <1>1, ServesInside DEF flowVars
<1>3. /\ BooksInv' /\ Places0 /\ \A k \in 1..Len(Chain(cur)) : Fresh(st, k)
  BY DeployStep
<1>4. MInstancesServe /\ toDeploy # {} /\ MidKnown /\ MCopies
  BY <1>1, Facts DEF UsesInv, Busy, BooksInv, Work
<1>5. /\ IsFiniteSet(DOMAIN dep) /\ MidIds \in SUBSET FlowIds(cur) /\ n \in Nat
      /\ SetupTypeOK /\ cur \in Rs
  BY <1>4, MidDomain
<1>6. tmpInstances' \in Maps(cur)
  <2>1. TmpCopies'
    BY <1>1, <1>3 DEF BooksInv, Work, Busy
  <2> QED
    BY <1>1, <1>2, <2>1, Frame DEF TmpCopies
<1>7. st.ins = tmpInstances' /\ st.ids = slotIds'
  OBVIOUS
<1> HIDE DEF dep, n, st
<1>8. ASSUME NEW k \in 1..Len(Chain(cur))
      PROVE  /\ Tracks(cur, k, tmpInstances'[k], dep, MidIds, n)
             /\ Plain(cur, k) => Waits(tmpInstances'[k], slotIds'[k], toDeploy)
  <2>1. Tracks(cur, k, mInstances[k], dep, MidIds, n) /\ AllUsed(cur, k, mInstances[k])
    BY <1>4 DEF MInstancesServe, InUse, NoIdle, n, dep
  <2>2. Fresh(st, k) /\ st.ins \in Maps(cur)
    BY <1>3, <1>6, <1>7
  <2>3. Plain(cur, k) => Waits(st.ins[k], st.ids[k], toDeploy)
    BY <1>3, <1>4, <2>1, <2>2, FreshWaits
  <2> DEFINE m == mInstances[k]
             new == st.ins[k]
  <2>4. /\ m \in InstanceMaps /\ new \in InstanceMaps
        /\ DOMAIN m \subseteq DOMAIN new /\ \A id \in DOMAIN m : new[id] = m[id]
        /\ \A id \in DOMAIN new \ DOMAIN m : new[id].used = 0
    BY <1>4, <2>2 DEF Fresh, MCopies, Maps
  <2>5. Tracks(cur, k, m, dep, MidIds, n)
    BY <2>1
  <2> HIDE DEF m, new
  <2>6. Tracks(cur, k, new, dep, MidIds, n)
    BY <1>5, <2>4, <2>5, TracksNew
  <2> QED
    BY <1>7, <2>3, <2>6 DEF new
<1>9. InUse(cur, tmpInstances', dep, MidIds)
  BY <1>8 DEF InUse, n
<1>10. TmpInstancesServe'
  BY <1>1, <1>2, <1>9, UsesFrame DEF TmpInstancesServe, dep
<1>11. \A k \in 1..Len(Chain(cur)) : Filling(k)'
  BY <1>1, <1>2, <1>8 DEF Filling, flowVars
<1> QED
  BY <1>1, <1>2, <1>10, <1>11 DEF UsesInv

LEMMA RestIs ==
  ASSUME SetupTypeOK, AllFlows(deployed), NEW r \in Rs, time \in Nat,
         NEW S, {i \in DOMAIN deployed[r] : Flow(r, i).end > time} \subseteq S,
         NEW T \in SUBSET DOMAIN deployed[r], S \cap DOMAIN deployed[r] \subseteq T
  PROVE  /\ Rest(r) \in Nat /\ Lost(DOMAIN deployed[r], T) \in Nat
         /\ Lost(DOMAIN deployed[r], T) <= Rest(r)
<1> DEFINE D == DOMAIN deployed[r]
<1>1. D \subseteq FlowIds(r) /\ IsFiniteSet(D) /\ \A i \in D : Flow(r, i).end \in Nat
  <2>1. D \subseteq FlowIds(r)
    BY FlowMapIs DEF AllFlows
  <2> QED
    BY <2>1, RequestIs, FS_Subset
<1>2. Rest(r) = Cardinality(D) + 11 * Cardinality(Ended(r))
  BY DEF Rest, Threshold
<1>3. Lost(D, T) = Cardinality(D) + 11 * Cardinality(D \ T)
  BY DEF Lost, Threshold
<1>4. Ended(r) = {i \in D : Flow(r, i).end <= time}
  BY DEF Ended
<1>5. D \ T \subseteq Ended(r) /\ Ended(r) \subseteq D
  <2> SUFFICES ASSUME NEW i \in D, i \notin T
               PROVE  Flow(r, i).end <= time
    BY <1>4
  <2>1. ~(Flow(r, i).end > time)
    OBVIOUS
  <2> QED
    BY <1>1, <2>1
<1> HIDE DEF D
<1>6. /\ Cardinality(D) \in Nat /\ Cardinality(Ended(r)) \in Nat /\ IsFiniteSet(Ended(r))
  BY <1>1, <1>5, FS_Subset, FS_CardinalityType
<1>7. Cardinality(D \ T) \in Nat /\ Cardinality(D \ T) <= Cardinality(Ended(r))
  BY <1>5, <1>6, FS_Subset, FS_CardinalityType
<1>8. Rest(r) \in Nat /\ Lost(D, T) \in Nat /\ Lost(D, T) <= Rest(r)
  BY <1>2, <1>3, <1>6, <1>7
<1> QED
  BY <1>8 DEF D

\* A flow whose instance is gone uses too little for it to be seen.
LEMMA GoneIsUnseen ==
  ASSUME SetupTypeOK, NEW r \in Rs, NEW k \in 1..Len(Chain(r)), NEW m, NEW dep,
         NEW S \in SUBSET FlowIds(r), NEW n \in Nat, Tracks(r, k, m, dep, S, n),
         Rest(r) \in Nat, n <= Rest(r), NEW id \in Nat, id \notin DOMAIN m,
         NEW i \in OnHost(dep, S, k, id)
  PROVE  Unseen(r, i, k)
<1> DEFINE p == PartOf(r, k, i)
           use == UseOf(r, dep, S, k, id)
           h == Hundreds(k)
           t == Rest(r)
<1>1. use \in Nat /\ p <= use
  BY UseNat
<1>2. h \in Nat \ {0} /\ p \in Nat /\ t \in Nat /\ n <= t
  BY PartNat DEF OnHost
<1>3. use <= (0 + n) * h
  BY DEF Tracks, UsedOf
<1>4. Unseen(r, i, k) <=> p < (10 + t) * h
  BY DEF Unseen, PartOf, Threshold
<1> HIDE DEF p, use, h, t
<1> DEFINE d == t - n
<1>5. d \in Nat /\ t = n + d
  BY <1>2
<1> HIDE DEF d
<1>6. /\ (10 + (n + d)) * h = 10 * h + n * h + d * h /\ (0 + n) * h = n * h
      /\ n * h \in Nat /\ d * h \in Nat
  BY <1>2, <1>5
<1>7. p < (10 + (n + d)) * h
  BY <1>1, <1>2, <1>3, <1>6
<1> QED
  BY <1>4, <1>5, <1>7

LEMMA ReleaseAsks ==
  ASSUME BooksInv, UsesInv, ReleaseMissing
  PROVE  NoneToRelease
<1> DEFINE i == Min(toRelease)
           dep == MidDeployed[cur]
           n == Lost(DOMAIN dep, MidIds)
<1>1. pc = "release" /\ toRelease # {} /\ ~InstancesThere(cur, i)
  BY DEF ReleaseMissing
<1>2. /\ SetupTypeOK /\ Typed /\ MidKnown /\ cur \in Rs /\ time \in Nat
      /\ WorkFlows /\ steered = <<>> /\ MInstancesServe
  BY <1>1, Facts DEF Busy, UsesInv, BooksInv, Work
<1>3. /\ deployed[cur] \in FlowMaps(cur) /\ DOMAIN deployed[cur] \subseteq FlowIds(cur)
      /\ toRelease \subseteq DOMAIN deployed[cur] /\ AllFlows(deployed)
  BY <1>2, FlowMapIs DEF WorkFlows, Typed, AllFlows
<1>4. i \in toRelease /\ i \in DOMAIN deployed[cur]
  <2>1. toRelease \in SUBSET Nat
    BY <1>2, <1>3, RequestIs
  <2> QED
    BY <1>1, <1>3, <2>1, MinIs
<1>5. PICK k \in 1..Len(Chain(cur)) : deployed[cur][i].hosts[k] \notin DOMAIN mInstances[k]
  BY <1>1 DEF InstancesThere
<1> DEFINE id == deployed[cur][i].hosts[k]
<1>6. id \in Nat
  BY <1>3, <1>4, FlowMapIs DEF Deployed
<1>7. /\ DOMAIN dep = DOMAIN deployed[cur] /\ dep[i] = deployed[cur][i]
      /\ i \in MidIds /\ MidIds \in SUBSET FlowIds(cur) /\ n \in Nat
      /\ MidIds \subseteq DOMAIN dep
  <2>1. /\ DOMAIN dep = DOMAIN deployed[cur] \cup DOMAIN steered
        /\ dep[i] = deployed[cur][i]
    BY <1>2, <1>4, MidIs DEF MidFacts
  <2>2. DOMAIN steered = {}
    BY <1>2, EmptyMaps
  <2>3. i \in MidIds
    BY <1>4 DEF MidIds
  <2> QED
    BY <1>2, <2>1, <2>2, <2>3, MidDomain
<1>8. Rest(cur) \in Nat /\ n <= Rest(cur)
  <2>1. {j \in DOMAIN deployed[cur] : Flow(cur, j).end > time} \subseteq MidIds
    BY DEF MidIds
  <2>2. MidIds \in SUBSET DOMAIN deployed[cur]
    BY <1>7
  <2>3. Lost(DOMAIN deployed[cur], MidIds) <= Rest(cur) /\ Rest(cur) \in Nat
    BY <1>2, <1>3, <2>1, <2>2, RestIs
  <2> QED
    BY <1>7, <2>3
<1>9. i \in OnHost(dep, MidIds, k, id)
  BY <1>7 DEF OnHost
<1>10. Tracks(cur, k, mInstances[k], dep, MidIds, n)
  BY <1>2 DEF MInstancesServe, InUse
<1> HIDE DEF i, dep, n, id
<1>11. Unseen(cur, i, k)
  BY <1>2, <1>5, <1>6, <1>7, <1>8, <1>9, <1>10, GoneIsUnseen DEF id
<1> QED
  BY <1>11 DEF NoneToRelease, i

LEMMA SteerAsks ==
  ASSUME BooksInv, UsesInv, SteerMissing
  PROVE  NoneToSteer
<1> DEFINE i == Min(toDeploy)
<1>1. pc = "steer" /\ toDeploy # {} /\ Steered(i).ret = "undefined"
  BY DEF SteerMissing
<1>2. Steers(i) /\ TmpCopies /\ SlotIdsThere /\ toRelease = {}
  BY <1>1, NextFlowIs
<1> HIDE DEF i
<1>3. PICK k \in 1..Len(Chain(cur)) : LeastUsed(k) \notin DOMAIN tmpInstances[k]
  BY <1>1, <1>2, SteeredIs DEF SteerOk
<1>4. /\ slotIds[k] \subseteq DOMAIN tmpInstances[k] /\ k \in DOMAIN slotIds
      /\ \A id \in DOMAIN tmpInstances[k] : tmpInstances[k][id].cap \in Nat
  BY <1>2, MapIs DEF SlotIdsThere, TmpCopies, Maps, Instance
<1>5. Rated(k) = {}
  <2>1. Rated(k) \subseteq DOMAIN tmpInstances[k]
    BY <1>4 DEF Rated
  <2> QED
    BY <1>2, <1>3, <2>1, LeastUsedIs DEF TmpCopies
<1>6. ASSUME NEW id \in slotIds[k]
      PROVE  tmpInstances[k][id].cap = 0
  <2>1. ~(tmpInstances[k][id].cap > 0)
    BY <1>5 DEF Rated
  <2> QED
    BY <1>4, <2>1
<1> QED
  BY <1>2, <1>4, <1>6 DEF NoneToSteer

LEMMA SteerServes ==
  ASSUME BooksInv, UsesInv, SteerFlow
  PROVE  UsesInv'
<1> DEFINE i == Min(toDeploy)
           a == MidDeployed[cur]
           b == MidDeployed'[cur]
           n == Lost(DOMAIN a, MidIds)
<1>1. /\ UNCHANGED setupVars /\ UNCHANGED resultVars
      /\ pc = "steer" /\ pc' = "steer"
      /\ cur' = cur /\ time' = time /\ offline' = offline /\ slotIds' = slotIds
  BY DEF SteerFlow, callerVars
<1>2. /\ requests' = requests /\ cfg' = cfg /\ ResultsServe'
      /\ Chain(cur)' = Chain(cur) /\ \A k : Plain(cur, k)' = Plain(cur, k)
  BY <1>1, ServesInside
<1>3. SteeredNow(i)
  BY SteerFlowStep
<1>4. MidKnown /\ TmpInstancesServe /\ toDeploy \subseteq FlowIds(cur)
      /\ \A k \in 1..Len(Chain(cur)) : Filling(k)
  BY <1>1, Facts DEF UsesInv, Busy, MidKnown, WorkFlows
<1>5. /\ MidIds \subseteq DOMAIN a /\ IsFiniteSet(DOMAIN a)
      /\ MidIds \in SUBSET FlowIds(cur) /\ n \in Nat
  BY <1>4, MidDomain
<1>6. /\ Steers(i) /\ i \in toDeploy /\ i \in FlowIds(cur)
      /\ i \notin MidIds /\ MidIds' = MidIds \cup {i} /\ toDeploy' = toDeploy \ {i}
      /\ b[i].hosts = Hosts /\ DOMAIN b = DOMAIN a \cup {i} /\ i \notin DOMAIN a
      /\ \A j \in MidIds : b[j] = a[j]
      /\ \A k \in 1..Len(Chain(cur)) : tmpInstances'[k] = ChargedMap(i, k) /\ Fits(i, k)
  BY <1>3 DEF SteeredNow
<1>7. Lost(DOMAIN b, MidIds') = n + 1
  BY <1>5, <1>6, LostIs
<1> HIDE DEF i, a, b, n
<1>8. ASSUME NEW k \in 1..Len(Chain(cur))
      PROVE  /\ Tracks(cur, k, ChargedMap(i, k), b, MidIds \cup {i}, n + 1)
             /\ Plain(cur, k) => Waits(ChargedMap(i, k), slotIds[k], toDeploy \ {i})
  <2>1. Fits(i, k) /\ SameHosts(a, b, MidIds, k) /\ HostIsLeast(b, i, k)
    BY <1>6 DEF SameHosts, HostIsLeast, Hosts
  <2>2. Tracks(cur, k, tmpInstances[k], a, MidIds, n)
    BY <1>4 DEF TmpInstancesServe, InUse, n, a
  <2>3. /\ Tracks(cur, k, ChargedMap(i, k), b, MidIds \cup {i}, n + 1)
        /\ PartOf(cur, k, i) >= Hundreds(k) => Charged(i, k) >= 1
    BY <1>5, <1>6, <2>1, <2>2, TracksSteer
  <2>4. ASSUME Plain(cur, k)
        PROVE  Waits(ChargedMap(i, k), slotIds[k], toDeploy \ {i})
    <3>1. Charged(i, k) >= 1
      BY <1>6, <2>3, <2>4 DEF Plain
    <3> QED
      BY <1>4, <1>6, <2>1, <2>4, <3>1, SteerFills
  <2> QED
    BY <2>3, <2>4
<1>9. InUse(cur, tmpInstances', b, MidIds')
  BY <1>6, <1>7, <1>8 DEF InUse
<1>10. TmpInstancesServe'
  BY <1>1, <1>2, <1>9, UsesFrame DEF TmpInstancesServe, b
<1>11. \A k \in 1..Len(Chain(cur)) : Filling(k)'
  BY <1>1, <1>2, <1>6, <1>8 DEF Filling
<1> QED
  BY <1>1, <1>2, <1>10, <1>11 DEF UsesInv

LEMMA DoneServes ==
  ASSUME BooksInv, UsesInv, SteerDone
  PROVE  UsesInv'
<1>1. /\ UNCHANGED setupVars /\ UNCHANGED resultVars /\ UNCHANGED flowVars
      /\ cur' = cur /\ time' = time /\ offline' = offline
      /\ pc = "steer" /\ pc' = "save" /\ toDeploy = {} /\ tmpInstances' = tmpInstances
  BY DEF SteerDone, callerVars, workVars
<1>2. /\ requests' = requests /\ cfg' = cfg /\ ResultsServe'
      /\ MidDeployed' = MidDeployed /\ MidIds' = MidIds
  BY <1>1, ServesInside DEF flowVars
<1>3. TmpInstancesServe /\ \A k \in 1..Len(Chain(cur)) : Filling(k)
  BY <1>1 DEF UsesInv
<1>4. TmpInstancesServe'
  BY <1>1, <1>2, <1>3, UsesFrame DEF TmpInstancesServe
<1>5. TmpCopies /\ SlotIdsThere
  BY <1>1 DEF BooksInv, Work, Busy
<1>6. ASSUME NEW k \in 1..Len(Chain(cur))
      PROVE  AllUsed(cur, k, tmpInstances[k])
  <2>1. tmpInstances[k] \in InstanceMaps /\ slotIds[k] \in SUBSET DOMAIN tmpInstances[k]
    BY <1>5 DEF TmpCopies, SlotIdsThere, Maps
  <2>2. Plain(cur, k) => Waits(tmpInstances[k], slotIds[k], {})
    BY <1>1, <1>3 DEF Filling
  <2> QED
    BY <2>1, <2>2, FilledUp
<1>7. NoIdle(cur, tmpInstances)
  BY <1>6 DEF NoIdle
<1>8. NoIdle(cur, tmpInstances)'
  BY <1>1, <1>2, <1>7, UsesFrame
<1> QED
  BY <1>1, <1>2, <1>4, <1>8 DEF UsesInv

LEMMA NoneFrame ==
  ASSUME UNCHANGED resultVars, UNCHANGED flowVars, UNCHANGED workVars,
         cur' = cur, time' = time, \A r, i : Flow(r, i)' = Flow(r, i),
         Chain(cur)' = Chain(cur)
  PROVE  NoneToSteer' = NoneToSteer /\ NoneToRelease' = NoneToRelease
<1>1. NoneToSteer' = NoneToSteer
  BY DEF NoneToSteer, flowVars, workVars
<1>2. toRelease' = toRelease /\ deployed' = deployed
  BY DEF flowVars, resultVars
<1>3. Rest(cur)' = Rest(cur)
  BY <1>2 DEF Rest, Ended
<1>4. \A i, k : Unseen(cur, i, k)' = Unseen(cur, i, k)
  BY <1>3 DEF Unseen
<1>5. NoneToRelease' = NoneToRelease
  BY <1>2, <1>4 DEF NoneToRelease
<1> QED
  BY <1>1, <1>5

LEMMA MissingServes ==
  ASSUME BooksInv, UsesInv, ReleaseMissing \/ SteerMissing
  PROVE  UsesInv'
<1>1. /\ UNCHANGED setupVars /\ UNCHANGED resultVars
      /\ UNCHANGED flowVars /\ UNCHANGED workVars
      /\ cur' = cur /\ time' = time /\ offline' = offline
      /\ pc \in {"release", "steer"} /\ pc' = "undefined"
  BY DEF ReleaseMissing, SteerMissing, callerVars
<1>2. /\ requests' = requests /\ cfg' = cfg /\ ResultsServe'
      /\ \A r, i : Flow(r, i)' = Flow(r, i)
      /\ Chain(cur)' = Chain(cur)
  BY <1>1, ServesInside
<1>3. NoneToSteer \/ NoneToRelease
  BY ReleaseAsks, SteerAsks
<1>4. NoneToSteer' = NoneToSteer /\ NoneToRelease' = NoneToRelease
  BY <1>1, <1>2, NoneFrame
<1> QED
  BY <1>1, <1>2, <1>3, <1>4 DEF UsesInv

LEMMA SaveServes ==
  ASSUME BooksInv, UsesInv, Save
  PROVE  UsesInv'
<1>1. /\ UNCHANGED setupVars /\ pc = "save" /\ pc' = "call"
      /\ instances' = Whole(tmpInstances) /\ deployed' = MidDeployed
  BY DEF Save, Whole, MidDeployed
<1>2. requests' = requests /\ cfg' = cfg
  BY <1>1, SetupFrame DEF BooksInv
<1>3. \A r \in Rs : Holding(r)' = IF r = cur THEN MidIds ELSE Holding(r)
  BY SaveStep
<1>4. /\ MidKnown /\ TmpInstancesServe /\ NoIdle(cur, tmpInstances) /\ ResultsServe
      /\ TmpCopies /\ Known
  BY <1>1, Facts DEF UsesInv, BooksInv, Work, Busy
<1>5. /\ \A r \in Rs : r # cur => /\ MidDeployed[r] = deployed[r]
                                  /\ Whole(tmpInstances)[r] = instances[r]
      /\ Whole(tmpInstances)[cur] = tmpInstances
  BY <1>4, MidIs, WholeIs DEF MidFacts, TmpCopies
<1>6. ASSUME NEW r \in Rs
      PROVE  /\ InUse(r, instances'[r], deployed'[r], Holding(r)')
             /\ NoIdle(r, instances'[r])
  <2>1. CASE r = cur
    BY <1>1, <1>3, <1>4, <1>5, <2>1 DEF TmpInstancesServe
  <2>2. CASE r # cur
    <3>1. instances'[r] = instances[r] /\ deployed'[r] = deployed[r] /\ Holding(r)' = Holding(r)
      BY <1>1, <1>3, <1>5, <2>2
    <3> QED
      BY <1>4, <3>1 DEF ResultsServe
  <2> QED
    BY <2>1, <2>2
<1>7. ASSUME NEW r \in Rs
      PROVE  /\ InUse(r, instances[r], deployed[r], Holding(r))'
             /\ NoIdle(r, instances[r])'
  BY <1>2, <1>6, UsesFrame
<1>8. ResultsServe'
  BY <1>2, <1>7, Frame DEF ResultsServe
<1> QED
  BY <1>1, <1>8 DEF UsesInv

LEMMA UsesStays ==
  ASSUME BooksInv, UsesInv, UNCHANGED vars
  PROVE  UsesInv'
<1>1. /\ UNCHANGED setupVars /\ UNCHANGED resultVars
      /\ UNCHANGED flowVars /\ UNCHANGED workVars
      /\ cur' = cur /\ time' = time /\ offline' = offline /\ pc' = pc
  BY DEF vars, callerVars
<1>2. CASE pc = "setup"
  BY <1>1, <1>2 DEF UsesInv
<1>3. CASE pc # "setup"
  <2>1. /\ requests' = requests /\ cfg' = cfg
        /\ MidDeployed' = MidDeployed /\ MidIds' = MidIds
        /\ Chain(cur)' = Chain(cur) /\ \A k : Plain(cur, k)' = Plain(cur, k)
        /\ \A r, i : Flow(r, i)' = Flow(r, i)
        /\ ResultsServe'
    BY <1>1, <1>3, ServesInside DEF flowVars
  <2>2. MInstancesServe' = MInstancesServe /\ TmpInstancesServe' = TmpInstancesServe
    BY <1>1, <2>1, UsesFrame DEF MInstancesServe, TmpInstancesServe, workVars
  <2>3. \A k : Filling(k)' = Filling(k)
    BY <1>1, <2>1 DEF Filling, flowVars, workVars
  <2>4. NoIdle(cur, tmpInstances)' = NoIdle(cur, tmpInstances)
    BY <1>1, <2>1, UsesFrame DEF workVars
  <2>5. NoneToSteer' = NoneToSteer /\ NoneToRelease' = NoneToRelease
    BY <1>1, <2>1, NoneFrame
  <2> QED
    BY <1>1, <2>1, <2>2, <2>3, <2>4, <2>5 DEF UsesInv, flowVars
<1> QED
  BY <1>2, <1>3

LEMMA UsesStep ==
  ASSUME BooksInv, UsesInv, [Next]_vars
  PROVE  UsesInv'
<1>1. CASE Prepare
  BY <1>1 DEF UsesInv, Prepare
<1>2. CASE Begin
  BY <1>2, BeginServes
<1>3. CASE ReturnNone \/ NextSlot
  BY <1>3, CallServes
<1>4. CASE CheckFlows \/ CheckOffline
  BY <1>4, CheckServes
<1>5. CASE ReleaseFlow
  BY <1>5, ReleaseServes
<1>6. CASE Released
  BY <1>6, ReleasedServes
<1>7. CASE ReleaseMissing \/ SteerMissing
  BY <1>7, MissingServes
<1>8. CASE DeployFunctions
  BY <1>8, DeployServes
<1>9. CASE NoPath \/ SteerFails
  <2>1. Fail /\ pc \in Busy
    BY <1>9, Failing DEF Busy
  <2> QED
    BY <2>1, CallServes
<1>10. CASE SteerFlow
  BY <1>10, SteerServes
<1>11. CASE SteerDone
  BY <1>11, DoneServes
<1>12. CASE Save
  BY <1>12, SaveServes
<1>13. CASE UNCHANGED vars
  BY <1>13, UsesStays
<1> QED
  BY <1>1, <1>2, <1>3, <1>4, <1>5, <1>6, <1>7, <1>8, <1>9, <1>10, <1>11, <1>12, <1>13
     DEF Next

LEMMA UsesAlways == Spec => []UsesInv
<1>1. Init => UsesInv
  BY DEF Init, UsesInv
<1>2. BooksInv /\ UsesInv /\ [Next]_vars => UsesInv'
  BY UsesStep
<1> QED
  BY <1>1, <1>2, BooksAlways, PTL DEF Spec

\* What the invariant says between two calls of a request.
LEMMA ServedIs ==
  ASSUME BooksInv, UsesInv, pc = "call", NEW r \in Rs
  PROVE  /\ SetupTypeOK /\ Typed /\ Rest(r) \in Nat
         /\ Lost(DOMAIN deployed[r], Holding(r)) \in Nat
         /\ Lost(DOMAIN deployed[r], Holding(r)) <= Rest(r)
         /\ InUse(r, instances[r], deployed[r], Holding(r))
         /\ NoIdle(r, instances[r])
         /\ Holding(r) \in SUBSET FlowIds(r)
         /\ \A i \in Holding(r) : deployed[r][i] \in Deployed(r)
         /\ instances[r] \in Maps(r)
<1>1. SetupTypeOK /\ Typed /\ History(r) /\ time \in Nat
  BY Facts
<1>2. /\ InUse(r, instances[r], deployed[r], Holding(r))
      /\ NoIdle(r, instances[r])
  BY DEF UsesInv, ResultsServe
<1>3. /\ deployed[r] \in FlowMaps(r) /\ instances[r] \in Maps(r)
      /\ AllFlows(deployed)
  BY <1>1 DEF Typed, AllFlows, AllMaps
<1>4. /\ DOMAIN deployed[r] \subseteq FlowIds(r)
      /\ \A i \in DOMAIN deployed[r] : deployed[r][i] \in Deployed(r)
  BY <1>3, FlowMapIs
<1>5. Holding(r) \in SUBSET DOMAIN deployed[r]
  BY DEF Holding
<1>6. {i \in DOMAIN deployed[r] : Flow(r, i).end > time} \subseteq Holding(r)
  <2> SUFFICES ASSUME NEW i \in DOMAIN deployed[r], Flow(r, i).end > time
               PROVE  Flow(r, i).end > saved[r]
    BY DEF Holding
  <2>1. Flow(r, i).end \in Nat
    BY <1>1, <1>4, RequestIs
  <2>2. saved[r] \in Int /\ saved[r] <= time
    BY <1>1 DEF History
  <2> QED
    BY <1>1, <2>1, <2>2
<1>7. Holding(r) \cap DOMAIN deployed[r] \subseteq Holding(r)
  OBVIOUS
<1>8. /\ Rest(r) \in Nat /\ Lost(DOMAIN deployed[r], Holding(r)) \in Nat
      /\ Lost(DOMAIN deployed[r], Holding(r)) <= Rest(r)
  BY <1>1, <1>3, <1>5, <1>6, <1>7, RestIs
<1> QED
  BY <1>1, <1>2, <1>3, <1>4, <1>5, <1>8

LEMMA HostedIs ==
  ASSUME NEW r, NEW k, NEW id
  PROVE  /\ Hosted(r, k, id) = OnHost(deployed[r], Holding(r), k, id)
         /\ SumFunction([i \in Hosted(r, k, id) |-> Part(Chain(r), k, Flow(r, i).rate)])
              = UseOf(r, deployed[r], Holding(r), k, id)
<1>1. Hosted(r, k, id) = OnHost(deployed[r], Holding(r), k, id)
  BY DEF Hosted, OnHost
<1> QED
  BY <1>1 DEF SumFunction, UseOf, PartsOn, PartOf

LEMMA UsesGive == BooksInv /\ UsesInv => UseTracksFlows
<1> SUFFICES ASSUME BooksInv, UsesInv, pc = "call",
                    NEW r \in Rs, NEW k \in 1..Len(Chain(r)), NEW id \in Ids(r, k)
             PROVE  LET use == SumFunction([i \in Hosted(r, k, id) |->
                                              Part(Chain(r), k, Flow(r, i).rate)])
                        sf == instances[r][k][id]
                    IN  /\ sf.used * Hundreds(k) <= use
                        /\ use <= (sf.used + Rest(r)) * Hundreds(k)
                        /\ sf.used <= sf.cap
  BY DEF UseTracksFlows
<1> DEFINE m == instances[r][k]
           n == Lost(DOMAIN deployed[r], Holding(r))
           use == UseOf(r, deployed[r], Holding(r), k, id)
<1>1. /\ SetupTypeOK /\ Rest(r) \in Nat /\ n \in Nat /\ n <= Rest(r)
      /\ Holding(r) \in SUBSET FlowIds(r)
      /\ Tracks(r, k, m, deployed[r], Holding(r), n)
      /\ m \in InstanceMaps
  BY ServedIs DEF InUse, Maps
<1>2. id \in DOMAIN m /\ id \in Nat /\ m[id].used \in Nat /\ UsedOf(m, id) = m[id].used
  BY <1>1, MapIs DEF Ids, UsedOf, Instance
<1>3. Hundreds(k) \in Nat /\ use \in Nat
  BY <1>1, HundredsNat, UseNat
<1>4. /\ m[id].used * Hundreds(k) <= use /\ m[id].used <= m[id].cap
      /\ use <= (m[id].used + n) * Hundreds(k)
  BY <1>1, <1>2 DEF Tracks
<1>5. use = SumFunction([i \in Hosted(r, k, id) |->
                           Part(Chain(r), k, Flow(r, i).rate)])
  BY HostedIs
<1> HIDE DEF m, n, use
<1>6. use <= (m[id].used + Rest(r)) * Hundreds(k)
  <2> DEFINE h == Hundreds(k)
             u == m[id].used
             d == Rest(r) - n
  <2>1. d \in Nat /\ Rest(r) = n + d /\ h \in Nat /\ u \in Nat
    BY <1>1, <1>2, <1>3
  <2>2. use <= (u + n) * h
    BY <1>4
  <2> HIDE DEF h, u, d
  <2>3. (u + (n + d)) * h = (u + n) * h + d * h /\ d * h \in Nat
    BY <1>1, <2>1
  <2>4. use <= (u + (n + d)) * h
    BY <1>1, <1>3, <2>1, <2>2, <2>3
  <2> QED
    BY <2>1, <2>4 DEF h, u
<1> QED
  BY <1>4, <1>5, <1>6 DEF m

LEMMA UsesServe == BooksInv /\ UsesInv => InstancesServe
<1> SUFFICES ASSUME BooksInv, UsesInv
             PROVE  InstancesServe
  OBVIOUS
<1>1. ASSUME pc = "call", NEW r \in Rs, NEW k \in 1..Len(Chain(r))
      PROVE  /\ \A i \in Holding(r) :
                  deployed[r][i].hosts[k] \notin Ids(r, k) => Unseen(r, i, k)
             /\ \A id \in Ids(r, k) :
                  Hosted(r, k, id) = {} =>
                    \E i \in FlowIds(r) :
                      \/ Flow(r, i).rate > Chain(r)[k].cap
                      \/ Part(Chain(r), k, Flow(r, i).rate) < Hundreds(k)
  <2> DEFINE m == instances[r][k]
             n == Lost(DOMAIN deployed[r], Holding(r))
  <2>1. /\ SetupTypeOK /\ Rest(r) \in Nat /\ n \in Nat /\ n <= Rest(r)
        /\ Holding(r) \in SUBSET FlowIds(r)
        /\ Tracks(r, k, m, deployed[r], Holding(r), n)
        /\ AllUsed(r, k, m)
        /\ m \in InstanceMaps
        /\ \A i \in Holding(r) : deployed[r][i].hosts[k] \in Nat
    <3>1. \A i \in Holding(r) : deployed[r][i].hosts[k] \in Nat
      BY <1>1, ServedIs DEF Deployed
    <3> QED
      BY <1>1, <3>1, ServedIs DEF InUse, NoIdle, Maps
  <2> HIDE DEF n
  <2>2. ASSUME NEW i \in Holding(r), deployed[r][i].hosts[k] \notin Ids(r, k)
        PROVE  Unseen(r, i, k)
    <3> DEFINE id == deployed[r][i].hosts[k]
    <3>1. /\ id \in Nat /\ id \notin DOMAIN m
          /\ i \in OnHost(deployed[r], Holding(r), k, id)
      BY <2>1, <2>2 DEF Ids, OnHost
    <3> HIDE DEF id, m
    <3> QED
      BY <2>1, <3>1, GoneIsUnseen
  <2>3. ASSUME NEW id \in Ids(r, k), Hosted(r, k, id) = {}
        PROVE  \E i \in FlowIds(r) :
                 \/ Flow(r, i).rate > Chain(r)[k].cap
                 \/ Part(Chain(r), k, Flow(r, i).rate) < Hundreds(k)
    <3> DEFINE use == UseOf(r, deployed[r], Holding(r), k, id)
    <3>1. id \in DOMAIN m /\ id \in Nat /\ m[id].used \in Nat
      BY <2>1, MapIs DEF Ids, Instance
    <3>2. use = 0
      <4>1. OnHost(deployed[r], Holding(r), k, id) = {}
        BY <2>3, HostedIs
      <4> QED
        BY <2>1, <4>1, UseNat
    <3>3. m[id].used * Hundreds(k) <= use
      BY <2>1, <3>1 DEF Tracks
    <3> HIDE DEF use, m
    <3>4. Hundreds(k) \in Nat \ {0}
      BY <2>1, HundredsNat
    <3>5. ~(m[id].used >= 1)
      <4> DEFINE h == Hundreds(k)
                 u == m[id].used
      <4>1. h \in Nat \ {0} /\ u \in Nat /\ u * h <= 0
        BY <3>1, <3>2, <3>3, <3>4
      <4> HIDE DEF h, u
      <4>2. u = 0
        BY <4>1
      <4> QED
        BY <4>2 DEF u
    <3>6. ~Plain(r, k)
      BY <2>1, <3>1, <3>5 DEF AllUsed
    <3>7. PICK i \in FlowIds(r) : ~(/\ Flow(r, i).rate <= Chain(r)[k].cap
                                     /\ PartOf(r, k, i) >= Hundreds(k))
      BY <3>6 DEF Plain
    <3>8. Flow(r, i).rate \in Nat /\ PartOf(r, k, i) \in Nat /\ Chain(r)[k].cap \in Nat
      <4>1. Chain(r)[k] \in Function
        BY <2>1, RequestIs, ElementOfSeq
      <4> QED
        BY <2>1, <4>1, RequestIs, PartNat DEF Function
    <3>9. Flow(r, i).rate > Chain(r)[k].cap \/ PartOf(r, k, i) < Hundreds(k)
      BY <3>4, <3>7, <3>8
    <3> QED
      BY <3>9 DEF PartOf
  <2> QED
    BY <2>2, <2>3
<1>2. pc = "undefined" => NoneToSteer \/ NoneToRelease
  BY DEF UsesInv
<1> QED
  BY <1>1, <1>2 DEF InstancesServe, NoneToSteer, NoneToRelease

\* Between two calls of main what an instance has in use and what its flows
\* take of it are never further apart than what cutting to whole numbers and
\* giving an id again can lose, and no instance is used beyond its capacity:
\* for any rates, factors and capacities, and any number of flows.
THEOREM UseFollowsFlows == Spec => []UseTracksFlows
BY BooksAlways, UsesAlways, UsesGive, PTL

\* A flow whose instance is gone is too small to be seen by the threshold, an
\* instance without a flow has a flow that does not fit or is cut to nothing to
\* explain it, and nothing else ever makes main ask for an instance that is
\* not there.
THEOREM InstancesAreServing == Spec => []InstancesServe
BY BooksAlways, UsesAlways, UsesServe, PTL

-----------------------------------------------------------------------------
\* Before the caller has requests there is nothing that could fail.
NothingYet == pc = "setup" => succ = <<>>

\* The results of all requests are there together.
SameDomains ==
  DOMAIN instances = DOMAIN succ /\ DOMAIN deployed = DOMAIN succ

\* main_offline does not look at m_succ, but it comes to a request once.
OfflineFresh ==
  /\ cur \in Int
  /\ offline => \A r \in DOMAIN succ : r \in Int /\ r >= cur => succ[r]

\* Flows are released, placed, steered and saved for a request that has not
\* failed.
Working == pc \in Busy /\ cur \in DOMAIN succ => succ[cur]

Inv == NothingYet /\ SameDomains /\ OfflineFresh /\ Working

\* "if one flow fails previously, then no need to keep checking it"
\* (dis_application.cc:1014): once m_succ is false it stays so, and the flows
\* and instances of the request are what they were when it failed.
FailureIsFinal ==
  \A r \in DOMAIN succ :
    ~succ[r] => /\ r \in DOMAIN succ' /\ ~succ'[r]
                /\ instances'[r] = instances[r]
                /\ deployed'[r] = deployed[r]

-----------------------------------------------------------------------------
LEMMA InitInv == Init => Inv
BY DEF Init, Inv, NothingYet, SameDomains, OfflineFresh, Working

\* The steps that leave all results alone.
Inner ==
  \/ Prepare \/ CheckFlows \/ CheckOffline \/ ReleaseFlow \/ ReleaseMissing
  \/ Released \/ DeployFunctions \/ SteerFlow \/ SteerMissing \/ SteerDone

LEMMA InnerKeeps ==
  ASSUME Inner
  PROVE  /\ succ' = succ /\ instances' = instances /\ deployed' = deployed
         /\ cur' = cur /\ offline' = offline
         /\ pc' = "setup" => pc = "setup"
         /\ pc' \in Busy => pc \in Busy \/ (pc = "call" /\ (offline \/ succ[cur]))
         /\ pc' = "call" => pc = "call"
         /\ pc = "setup" => pc' = "setup"
<1> USE DEF Busy
<1>1. CASE Prepare
  BY <1>1 DEF Prepare, resultVars
<1>2. CASE CheckFlows \/ CheckOffline
  BY <1>2 DEF CheckFlows, CheckOffline, Called, callerVars, resultVars
<1>3. CASE ReleaseFlow \/ ReleaseMissing \/ Released
  BY <1>3 DEF ReleaseFlow, ReleaseMissing, Released, callerVars, resultVars
<1>4. CASE DeployFunctions
  BY <1>4 DEF DeployFunctions, callerVars, resultVars
<1>5. CASE SteerFlow \/ SteerMissing \/ SteerDone
  BY <1>5 DEF SteerFlow, SteerMissing, SteerDone, callerVars, resultVars
<1> QED
  BY <1>1, <1>2, <1>3, <1>4, <1>5 DEF Inner

LEMMA Steps ==
  ASSUME [Next]_vars
  PROVE  \/ Inner \/ Begin \/ ReturnNone \/ NextSlot
         \/ NoPath \/ SteerFails \/ Save \/ UNCHANGED vars
BY DEF Next, Inner

LEMMA InvStep ==
  ASSUME Inv, [Next]_vars
  PROVE  Inv'
<1> USE DEF Inv, Busy
<1>1. CASE Inner
  <2>1. NothingYet' /\ SameDomains' /\ OfflineFresh'
    BY <1>1, InnerKeeps DEF NothingYet, SameDomains, OfflineFresh
  <2>2. Working'
    BY <1>1, InnerKeeps DEF Working, OfflineFresh, SameDomains
  <2> QED
    BY <2>1, <2>2
<1>2. CASE Begin
  BY <1>2 DEF Begin, NothingYet, SameDomains, OfflineFresh, Working
<1>3. CASE ReturnNone
  BY <1>3 DEF ReturnNone, Called, NothingYet, SameDomains, OfflineFresh, Working
<1>4. CASE NextSlot
  BY <1>4 DEF NextSlot, NothingYet, SameDomains, OfflineFresh, Working, resultVars
<1>5. CASE NoPath \/ SteerFails
  <2>1. Fail
    BY <1>5, Failing
  <2> QED
    BY <2>1 DEF Fail, NothingYet, SameDomains, OfflineFresh, Working
<1>6. CASE Save
  BY <1>6 DEF Save, NothingYet, SameDomains, OfflineFresh, Working
<1>7. CASE UNCHANGED vars
  BY <1>7 DEF vars, callerVars, resultVars, NothingYet, SameDomains,
     OfflineFresh, Working
<1> QED
  BY <1>1, <1>2, <1>3, <1>4, <1>5, <1>6, <1>7, Steps

LEMMA FinalStep ==
  ASSUME Inv, [Next]_vars
  PROVE  FailureIsFinal
<1> SUFFICES ASSUME NEW r \in DOMAIN succ, ~succ[r]
             PROVE  /\ r \in DOMAIN succ' /\ ~succ'[r]
                    /\ instances'[r] = instances[r]
                    /\ deployed'[r] = deployed[r]
  BY DEF FailureIsFinal
<1> USE DEF Inv
<1>1. CASE Inner
  BY <1>1, InnerKeeps
<1>2. CASE Begin
  BY <1>2 DEF Begin, NothingYet
<1>3. CASE ReturnNone \/ NextSlot \/ UNCHANGED vars
  BY <1>3 DEF ReturnNone, NextSlot, vars, resultVars
<1>4. CASE NoPath \/ SteerFails
  BY <1>4, Failing DEF Fail
<1>5. CASE Save
  <2>1. pc = "save" /\ succ' = succ
    BY <1>5 DEF Save
  <2>2. r # cur
    BY <2>1 DEF Working, Busy
  <2> QED
    BY <1>5, <2>1, <2>2 DEF Save, SameDomains
<1> QED
  BY <1>1, <1>2, <1>3, <1>4, <1>5, Steps

\* A request that has failed is not touched again, whatever the graph, the
\* requests and the paths.
THEOREM FailedForGood == Spec => [][FailureIsFinal]_vars
<1>1. Spec => []Inv
  BY InitInv, InvStep, PTL DEF Spec
<1> QED
  BY <1>1, FinalStep, PTL DEF Spec

=============================================================================
