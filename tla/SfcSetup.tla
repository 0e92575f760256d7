------------------------------- MODULE SfcSetup -------------------------------
(***************************************************************************)
(* What comes before a request is deployed.  Sfc_vec (sfc.cc) writes a     *)
(* file of requests in one of three ways: with random flows, with the      *)
(* flows of flow_size.csv in their order, or slot by slot, as many as      *)
(* poisson-2.csv says with random flows of flow_size.csv.  Scaling::init   *)
(* (scaling.cc) reads such a file, a configuration and the graph, which    *)
(* MyGraph (myGraph.cc) builds from a .gml file.                           *)
(***************************************************************************)
EXTENDS Integers, Sequences, SequencesExt, FiniteSetsExt

CONSTANTS
  \* Arguments of the constructor of Sfc_vec.
  SfcNum, MaxNode, ChainLen, FlowNum, MaxRate, MinRate, MaxTime,
  Rand(_),        \* the values of rand() % n that are looked at
  TrafficFiles,   \* contents of flow_size.csv, in hundredths
  SlotNumFiles,   \* contents of poisson-2.csv
  EndTime,        \* G_END_TIME; 200
  FlowLife,       \* slots from a flow's start to its end; 20
  InstanceThreshold, \* G_INSTANCE_THRESHOLD; 400
  Vnfs,           \* vnf_vec; the id of each is its place
  OldFiles,       \* earlier contents of scratch/requests.txt
  OtherFiles,     \* files of requests under other names
  RequestNum,     \* how many requests read_sfc is to read
  TotalNum,       \* RequestNum times the factor of read_sfc, as an int; the
                  \* factor is over 1 if and only if it exceeds RequestNum
  GmlFile,        \* lines of the .gml file: key and value
  ConfigFiles     \* possible lines of the configuration

IsDraw(n) == Rand(n) # {} /\ Rand(n) \subseteq 0..(n - 1)

\* The functions, and the keys a configuration has to give.
Function == [id : Nat, cap : Nat \ {0}, factor : Nat, io : BOOLEAN]
CfgKeys == {"processing_cap", "intra_bw", "inter_bw"}

ASSUME SetupAssumption ==
  /\ SfcNum \in Nat /\ MinRate \in Nat
  /\ {MaxNode, ChainLen, FlowNum, MaxRate, MaxTime} \subseteq Nat \ {0}
  /\ \A n \in {MaxNode, MaxRate, EndTime - 1, Len(Vnfs)} \cup (1..MaxTime + 3)
              \cup {Len(t) : t \in TrafficFiles} : IsDraw(n)
  /\ TrafficFiles \subseteq Seq(Nat) \ {<<>>} /\ SlotNumFiles \subseteq Seq(Nat)
  /\ EndTime \in Nat \ {0, 1} /\ FlowLife \in Nat \ {0}
  /\ InstanceThreshold \in Nat \ {0}
  /\ Vnfs \in Seq(Function)
  /\ \A k \in DOMAIN Vnfs : Vnfs[k].id = k /\ Vnfs[k].cap >= InstanceThreshold
  /\ RequestNum \in Nat \ {0} /\ TotalNum \in Nat
  /\ \A config \in ConfigFiles :
       config \in Seq([key : STRING, value : Nat])

VARIABLES
  file,           \* the file of requests
  kept,           \* sfc_request_vec
  traffic,        \* m_traffic_v
  csvFlows,       \* m_flows
  slotNums,       \* m_r_num_v
  turn,           \* of the loop over requests; m_current_index + 1 by slots
  phase,          \* what is being done
  requests,       \* m_request_vec
  cfg             \* m_cfg

csvVars == <<traffic, csvFlows, slotNums>>
loadVars == <<requests, cfg>>
setupVars == <<file, kept, csvVars, turn, phase, loadVars>>

-----------------------------------------------------------------------------
(***************************************************************************)
(* The graph.                                                              *)
(***************************************************************************)
\* read_file looks for a word anywhere in a line, so that the "interdomain"
\* of a link counts as the "domain" of a node too.  Nodes come first.
Values(keys) ==
  LET lines == SelectSeq(GmlFile, LAMBDA l : l.key \in keys)
  IN  [i \in DOMAIN lines |-> lines[i].value]
ReadFile == [id |-> Values({"id"}), domain |-> Values({"domain", "interdomain"}),
             source |-> Values({"source"}), target |-> Values({"target"})]

Nodes == Range(ReadFile.id)
Domain == [n \in Nodes |-> ReadFile.domain[Min({i \in DOMAIN ReadFile.id :
                                                  ReadFile.id[i] = n})]]

\* load_graph_map gives up at a link with an end that is no node, and
\* create_graph goes on with the links before it.
Joins(i) == {ReadFile.source[i], ReadFile.target[i]} \subseteq Nodes
LoadedLinks ==
  {<<ReadFile.source[i], ReadFile.target[i]>> :
     i \in {j \in DOMAIN ReadFile.source :
              Joins(j) /\ \A k \in 1..j - 1 : Joins(k)}}

\* create_graph adds both directions.
Links == LoadedLinks \cup {<<e[2], e[1]>> : e \in LoadedLinks}

LinkBw(e) == IF Domain[e[1]] = Domain[e[2]] THEN cfg.intra_bw ELSE cfg.inter_bw

FullGraph == [node |-> [n \in Nodes |-> cfg.processing_cap],
              link |-> [e \in Links |-> LinkBw(e)]]

-----------------------------------------------------------------------------
(***************************************************************************)
(* Requests.  A row of a file has the ids of the functions of a chain.  It *)
(* leads somewhere, for the generators leave it out otherwise, and its     *)
(* flows are within its time.                                              *)
(***************************************************************************)
FlowType == {f \in [rate : Nat, start : Nat, end : Nat] : f.start < f.end}
Rows(Chains) ==
  {r \in [id : Nat, source : Nodes, target : Nodes, chain : Chains,
          flows : Seq(FlowType), start : Nat, end : Nat] :
     /\ r.source # r.target
     /\ \A i \in DOMAIN r.flows : /\ r.start <= r.flows[i].start
                                  /\ r.flows[i].end <= r.end}
RowType == Rows(Seq(DOMAIN Vnfs))

\* The files that were there before, and the nodes that are drawn.
ASSUME FileAssumption ==
  /\ OldFiles \subseteq Seq(RowType) /\ OtherFiles \subseteq Seq(RowType)
  /\ Rand(MaxNode) \subseteq Nodes

(***************************************************************************)
(* Writing requests.                                                       *)
(***************************************************************************)
SetupInit ==
  /\ file \in OldFiles
  /\ kept = <<>> /\ traffic = <<>> /\ csvFlows = <<>> /\ slotNums = <<>>
  /\ turn = 1 /\ phase = "start"
  /\ requests = <<>> /\ cfg = <<>>

\* A request that leads back to where it starts is left out, but has used up
\* its id.
Sent(r) == IF r.source # r.target THEN <<r>> ELSE <<>>

\* create_chain; the file holds the ids of the functions.
CreateChain == [1..ChainLen -> {Vnfs[n + 1] : n \in Rand(Len(Vnfs))}]
Printed(r) == [r EXCEPT !.chain = [k \in DOMAIN @ |-> @[k].id]]

\* Scaling::init is given the name of another file.
TakeOther ==
  /\ phase = "start" /\ phase' = "written"
  /\ file' \in OtherFiles
  /\ UNCHANGED <<kept, csvVars, turn, loadVars>>

-----------------------------------------------------------------------------
\* create_sfc.
CreateSfc ==
  /\ phase = "start" /\ phase' = "random"
  /\ file' = <<>>
  /\ UNCHANGED <<kept, csvVars, turn, loadVars>>

\* create_flows.
CreateFlows(start, end) ==
  [1..FlowNum -> {[rate |-> MinRate + a, start |-> start + b, end |-> end] :
                    a \in Rand(MaxRate), b \in Rand(end - start)}]

\* A round of its loop.
RandomRequest ==
  /\ phase = "random" /\ turn <= SfcNum
  /\ \E source, target \in Rand(MaxNode), chain \in CreateChain,
        start \in Rand(MaxTime), late \in Rand(4) :
       \E flows \in CreateFlows(start, MaxTime + late) :
         LET r == [id |-> turn, source |-> source, target |-> target,
                   chain |-> chain, flows |-> flows,
                   start |-> start, end |-> MaxTime + late]
         IN  file' = file \o Sent(Printed(r)) /\ kept' = kept \o Sent(r)
  /\ turn' = turn + 1
  /\ UNCHANGED <<csvVars, phase, loadVars>>

-----------------------------------------------------------------------------
\* A slip: what is over the capacity stays.
UncutRate(size) == IF size = 0 THEN InstanceThreshold - 1 ELSE size \div 3

\* 10000 times a size over G_TIME_SLOT, and with the size in hundredths a
\* third; m_traffic_rate is an int.
CsvRate(size) ==
  IF size = 0 \/ size >= 3 * InstanceThreshold THEN InstanceThreshold - 1
                                               ELSE size \div 3

\* create_sfc_from_csv up to its loop, with get_traffic_from_csv, which leaves
\* no line out, and create_flows_from_csv.
CreateFromCsv ==
  /\ phase = "start" /\ phase' = "csv"
  /\ traffic' \in TrafficFiles
  /\ \E start \in [DOMAIN traffic' -> {1 + n : n \in Rand(EndTime - 1)}] :
       csvFlows' = [i \in DOMAIN traffic' |->
                      [rate |-> CsvRate(traffic'[i]), start |-> start[i],
                       end |-> start[i] + FlowLife]]
  /\ file' = <<>>
  /\ UNCHANGED <<kept, slotNums, turn, loadVars>>

\* get_flows(i), and the first and last slot of get_max_min_time.
GetFlows(i) == SubSeq(csvFlows, FlowNum * i + 1, FlowNum * (i + 1))
FirstSlot(flows) == Min({flows[i].start : i \in DOMAIN flows})
LastEnd(flows) == Max({flows[i].end : i \in DOMAIN flows})

\* The loop is left behind the last flow, not the last that gets its flows.
MoreCsv == phase = "csv" /\ turn <= SfcNum /\ turn - 1 < Len(traffic)

CsvRequest ==
  /\ MoreCsv
  /\ \E source, target \in Rand(MaxNode), chain \in CreateChain :
       LET r == [id |-> turn, source |-> source, target |-> target,
                 chain |-> chain, flows |-> GetFlows(turn - 1),
                 start |-> FirstSlot(GetFlows(turn - 1)),
                 end |-> LastEnd(GetFlows(turn - 1))]
       IN  /\ source = target \/ FlowNum * turn <= Len(csvFlows)
           /\ IF source = target THEN UNCHANGED <<file, kept>>
              ELSE file' = Append(file, Printed(r)) /\ kept' = Append(kept, r)
  /\ turn' = turn + 1
  /\ UNCHANGED <<csvVars, phase, loadVars>>

\* at() of a flow that is not there throws, and nobody catches.
CsvThrows ==
  /\ MoreCsv /\ FlowNum * turn > Len(csvFlows)
  /\ \E source, target \in Rand(MaxNode) : source # target
  /\ phase' = "aborted"
  /\ UNCHANGED <<file, kept, csvVars, turn, loadVars>>

-----------------------------------------------------------------------------
\* create_sfc_poisson up to its loop; m_current_index = 0.  The file is opened
\* for appending, in every slot anew.
CreatePoisson ==
  /\ phase = "start" /\ phase' = "poisson"
  /\ traffic' \in TrafficFiles /\ slotNums' \in SlotNumFiles
  /\ UNCHANGED <<file, kept, csvFlows, turn, loadVars>>

\* Requests of the slots up to one.
UpTo(slot) == SumFunctionOnSet(slotNums, 1..slot)
Slots == Min({EndTime, Len(slotNums)})

\* A round of the loop of create_one_slot_requests.
SlotRequest ==
  /\ phase = "poisson" /\ turn <= UpTo(Slots)
  /\ LET slot == Min({s \in 1..Slots : turn <= UpTo(s)})
         rates == {CsvRate(traffic[n + 1]) : n \in Rand(Len(traffic))}
     IN  \E source, target \in Rand(MaxNode), chain \in CreateChain,
            rate \in [1..FlowNum -> rates] :
           file' = file \o Sent(Printed(
             [id |-> turn, source |-> source, target |-> target,
              chain |-> chain, start |-> slot, end |-> slot + FlowLife,
              flows |-> [i \in 1..FlowNum |->
                           [rate |-> rate[i], start |-> slot,
                            end |-> slot + FlowLife]]]))
  /\ turn' = turn + 1
  /\ UNCHANGED <<kept, csvVars, phase, loadVars>>

\* at() throws for a slot without a number.
SlotThrows ==
  /\ phase = "poisson" /\ turn > UpTo(Slots) /\ Len(slotNums) < EndTime
  /\ phase' = "aborted"
  /\ UNCHANGED <<file, kept, csvVars, turn, loadVars>>

WriteDone ==
  /\ \/ phase = "random" /\ turn > SfcNum
     \/ phase = "csv" /\ ~MoreCsv
     \/ phase = "poisson" /\ turn > UpTo(Slots) /\ Len(slotNums) >= EndTime
  /\ phase' = "written"
  /\ UNCHANGED <<file, kept, csvVars, turn, loadVars>>

-----------------------------------------------------------------------------
(***************************************************************************)
(* Scaling::init.  The results of what it calls are not looked at.         *)
(***************************************************************************)
\* string_to_chain, string_to_flow and Request::init.
StringToChain(ids) == [k \in DOMAIN ids |-> Vnfs[ids[k]]]
ReadRow(row) == [row EXCEPT !.chain = StringToChain(@)]

\* duplicate_sfc: the same requests again, with their ids, until there are
\* TotalNum.
Duplicated(read) ==
  LET num == IF TotalNum > RequestNum THEN Max({Len(read), TotalNum})
                                      ELSE Len(read)
  IN  [i \in 1..num |-> read[((i - 1) % Len(read)) + 1]]

\* read_sfc.
ReadSfc(rows) ==
  Duplicated([i \in 1..Min({RequestNum, Len(rows)}) |-> ReadRow(rows[i])])

\* read_config: the last line with a key counts.
Configured(config) ==
  [k \in CfgKeys |->
     config[Max({i \in DOMAIN config : config[i].key = k})].value]

\* At a line without "=" it returns before m_cfg is set; a key that is missing
\* leaves a number no one has set.
Complete(config) ==
  /\ \A i \in DOMAIN config : config[i].key # "no ="
  /\ CfgKeys \subseteq {config[i].key : i \in DOMAIN config}

\* No requests are duplicated for ever.
Endless == file = <<>> /\ TotalNum > RequestNum

Load ==
  /\ phase = "written" /\ ~Endless
  /\ \E config \in ConfigFiles :
       IF Complete(config)
         THEN cfg' = Configured(config) /\ phase' = "loaded"
         ELSE cfg' = cfg /\ phase' = "undefined"
  /\ requests' = ReadSfc(file)
  /\ UNCHANGED <<file, kept, csvVars, turn>>

DuplicateForEver ==
  /\ phase = "written" /\ Endless
  /\ phase' = "endless"
  /\ UNCHANGED <<file, kept, csvVars, turn, loadVars>>

Setup ==
  \/ TakeOther
  \/ CreateSfc \/ RandomRequest
  \/ CreateFromCsv \/ CsvRequest \/ CsvThrows
  \/ CreatePoisson \/ SlotRequest \/ SlotThrows
  \/ WriteDone \/ Load \/ DuplicateForEver

-----------------------------------------------------------------------------
SmallestCap == Min({Vnfs[k].cap : k \in DOMAIN Vnfs})

(***************************************************************************)
(* Whichever way the file was written, every request of it leads           *)
(* somewhere, its flows start before they end and within its own time, and *)
(* what read_sfc makes of it are the requests the generator had in mind,   *)
(* in their order and then again.  The flows of flow_size.csv fit the      *)
(* smallest function, as sfc.cc:103 asks for.  And the generators give up  *)
(* half way only when a file of theirs is too short (sfc.cc:297, 566).     *)
(***************************************************************************)
RequestsAsWritten ==
  /\ \A n \in DOMAIN file :
       /\ file[n].source # file[n].target
       /\ \A i \in DOMAIN file[n].flows :
            LET f == file[n].flows[i]
            IN  /\ file[n].start <= f.start /\ f.start < f.end
                /\ f.end <= file[n].end
  /\ phase = "loaded" /\ kept # <<>> =>
       LET read == SubSeq(kept, 1, Min({RequestNum, Len(kept)}))
       IN  \A n \in DOMAIN requests :
             requests[n] = read[((n - 1) % Len(read)) + 1]
  /\ csvFlows # <<>> =>
       \A n \in DOMAIN file : \A i \in DOMAIN file[n].flows :
         file[n].flows[i].rate < SmallestCap
  /\ phase = "aborted" =>
       \/ csvFlows # <<>> /\ Len(traffic) < FlowNum * SfcNum
       \/ csvFlows = <<>> /\ Len(slotNums) < EndTime

=============================================================================
