---------------------------- MODULE RequestFile -----------------------------
(***************************************************************************)
(* The way of the requests into a scheduler.  Both programs read their     *)
(* parameters from config.txt first.  The program create_requests          *)
(* (scratch/create_requests.cc) turns the number of requests per type and  *)
(* slot into a file with a title line per type and a row of numbers, one   *)
(* for each node, per slot.  The file is opened for appending, so a second *)
(* run of the program doubles it.  The scheduler's readRequests reads the  *)
(* file, counting the types by their titles, and createRequests makes the  *)
(* requests, a ReduFactor-th part of each number.                          *)
(*                                                                         *)
(* The four schedulers hold the same code; the lines are myAlgorithm.cc's. *)
(***************************************************************************)
EXTENDS ZipfDraw, SequencesExt, FiniteSets

CONSTANTS
  NodeNum,       \* m_map.size(): the nodes of the topology file are 1..NodeNum
  NumTypes,      \* types of initFuncMap, and rows of the file of totals
  SlotNum,       \* slotNum of create_requests
  SortedFiles,   \* possible contents of RequestFile: a row of totals per type
  ConfigFiles,   \* possible contents of config.txt: the key of each line
  ReduFactor,    \* of the command line, which overrides the file's
  MaxRuns        \* how often create_requests is run at most

Types == 1..NumTypes
Slots == 1..SlotNum
Nodes == 1..NodeNum

ASSUME LoadAssumption ==
  /\ NodeNum \in Nat \ {0} /\ NumTypes \in Nat \ {0}
  /\ SlotNum \in Nat \ {0} /\ ReduFactor \in Nat \ {0}
  /\ MaxRuns \in Nat \ {0}
  /\ SortedFiles \subseteq [Types -> Seq(Nat)]
  /\ \A totals \in SortedFiles, t \in Types :
       \A s \in 1..Len(totals[t]) : totals[t][s] \div NodeNum <= Len(Power)
  /\ ConfigFiles \subseteq Seq(STRING)

VARIABLES
  pc,            \* which part of which program runs
  config,        \* config.txt, which the user may edit between programs
  sorted,        \* the file of totals, loaded into m_req_num
  runs,          \* how often create_requests has been run
  cursor,        \* <<type, slot>>, slot 0 for the title line
  file,          \* lines of the file of requests; <<>> is a title line
  line,          \* lines readRequests has read
  funcType,      \* titles it has met
  ront,          \* rows of the type being read
  rontt,         \* m_rontt: the rows of each type, in the order of the titles
  reqs,          \* m_request_map: the requests of each slot
  reqCount       \* m_req_count

inputs == <<sorted, config>>
loadVars == <<pc, inputs, runs, cursor, file, line, funcType, ront, rontt,
              reqs, reqCount>>
readVars == <<line, funcType, ront, rontt>>

-----------------------------------------------------------------------------
(***************************************************************************)
(* loadConfig.  A line without "=" ends it before m_cfg is assigned, the   *)
(* line cpuFreq ends the reading, and a key that was not read leaves its   *)
(* member uninitialised, a name empty.  No caller looks at the result.     *)
(***************************************************************************)
NoEquals == ""

LinesRead(lines) ==
  IF Contains(lines, "cpuFreq")
    THEN SubSeq(lines, 1, SelectInSeq(lines, LAMBDA key : key = "cpuFreq"))
    ELSE lines

Given(key) ==
  LET read == LinesRead(config)
  IN  ~Contains(read, NoEquals) /\ Contains(read, key)

\* Without its name the topology file is not opened, and there is no node.
HasTopo == Given("TopoName")

-----------------------------------------------------------------------------
Title == <<>>
Row(total) == [n \in Nodes |-> Search(total \div NodeNum, Draws(NodeNum)[n])]

Request(id, t, n, s) ==
  [id |-> id, type |-> t, ingress |-> n, arriveTime |-> s]

\* createRequest returned false: the caller's Request r was never assigned.
Uninitialised == [id |-> -1, type |-> 0, ingress |-> 0, arriveTime |-> 0]

\* The slots m_request_map has an entry for.
MapSize == Cardinality({s \in Slots : reqs[s] # <<>>})

LoadInit ==
  /\ pc = "generate"
  /\ sorted \in SortedFiles /\ config \in ConfigFiles
  /\ runs = 1 /\ cursor = <<1, 0>> /\ file = <<>>
  /\ line = 0 /\ funcType = 0 /\ ront = <<>> /\ rontt = <<>>
  /\ reqs = [s \in Slots |-> <<>>] /\ reqCount = 0

-----------------------------------------------------------------------------
(***************************************************************************)
(* create_requests.                                                        *)
(***************************************************************************)
\* The name of the file of totals is empty: there is nothing to write.
NoTotals ==
  /\ pc = "generate" /\ ~Given("RequestFile")
  /\ pc' = "generated"
  /\ UNCHANGED <<inputs, runs, cursor, file, readVars, reqs, reqCount>>

\* The file to write is named by an uninitialised Beta, and the draws depend
\* on it too.
Unnamed ==
  /\ pc = "generate" /\ Given("RequestFile") /\ ~Given("Beta")
  /\ pc' = "unnamed"
  /\ UNCHANGED <<inputs, runs, cursor, file, readVars, reqs, reqCount>>

Generating ==
  pc = "generate" /\ cursor[1] \in Types /\ Given("RequestFile") /\ Given("Beta")

WriteTitle ==
  /\ Generating /\ cursor[2] = 0
  /\ file' = Append(file, Title)
  /\ cursor' = <<cursor[1], 1>>
  /\ UNCHANGED <<pc, inputs, runs, readVars, reqs, reqCount>>

HasTotal == cursor[2] \in 1..SlotNum /\ cursor[2] <= Len(sorted[cursor[1]])

WriteRow ==
  /\ Generating /\ HasTotal /\ HasTopo
  /\ LET row == Row(sorted[cursor[1]][cursor[2]])
     IN  /\ \A n \in Nodes : row[n] # 0
         /\ file' = Append(file, row)
  /\ cursor' = <<cursor[1], cursor[2] + 1>>
  /\ UNCHANGED <<pc, inputs, runs, readVars, reqs, reqCount>>

\* The total is divided by the number of nodes.
DividesByZero ==
  /\ Generating /\ HasTotal /\ ~HasTopo
  /\ pc' = "aborted"
  /\ UNCHANGED <<inputs, runs, cursor, file, readVars, reqs, reqCount>>

\* The assertion behind the search fails: the program is aborted, with what
\* it has written so far in the file.
AssertionFails ==
  /\ Generating /\ HasTotal /\ HasTopo
  /\ \E n \in Nodes : Row(sorted[cursor[1]][cursor[2]])[n] = 0
  /\ pc' = "aborted"
  /\ UNCHANGED <<inputs, runs, cursor, file, readVars, reqs, reqCount>>

\* All slots written, or no total for the next one: on to the next type.
NextType ==
  /\ Generating
  /\ cursor[2] > 0 /\ ~HasTotal
  /\ cursor' = <<cursor[1] + 1, 0>>
  /\ pc' = IF cursor[1] = NumTypes THEN "generated" ELSE pc
  /\ UNCHANGED <<inputs, runs, file, readVars, reqs, reqCount>>

\* The user runs the program again; ofstream::app keeps the old lines.
RunAgain ==
  /\ pc = "generated" /\ runs < MaxRuns
  /\ pc' = "generate" /\ runs' = runs + 1 /\ cursor' = <<1, 0>>
  /\ config' \in ConfigFiles
  /\ UNCHANGED <<sorted, file, readVars, reqs, reqCount>>

\* The user runs a scheduler, up to readRequests.
RunScheduler ==
  /\ pc = "generated"
  /\ pc' = "read"
  /\ config' \in ConfigFiles
  /\ UNCHANGED <<sorted, runs, cursor, file, readVars, reqs, reqCount>>

-----------------------------------------------------------------------------
(***************************************************************************)
(* readRequests.                                                           *)
(***************************************************************************)
ReadTitle ==
  /\ pc = "read" /\ line < Len(file) /\ file[line + 1] = Title
  /\ line' = line + 1
  /\ funcType' = funcType + 1
  /\ IF funcType = 0
       THEN UNCHANGED <<ront, rontt>>
       ELSE /\ rontt' = Append(rontt, ront)
            /\ ront' = <<>>
  /\ UNCHANGED <<pc, inputs, runs, cursor, file, reqs, reqCount>>

ReadRow ==
  /\ pc = "read" /\ line < Len(file) /\ file[line + 1] # Title
  /\ line' = line + 1
  /\ ront' = Append(ront, file[line + 1])
  /\ UNCHANGED <<pc, inputs, runs, cursor, file, funcType, rontt, reqs,
                 reqCount>>

\* A slip: the rows of the last type are left behind at the end of the file.
EndOfFileUnadded ==
  /\ pc = "read" /\ line = Len(file)
  /\ pc' = "create" /\ cursor' = <<1, 1>>
  /\ UNCHANGED <<inputs, runs, file, readVars, reqs, reqCount>>

EndOfFile ==
  /\ pc = "read" /\ line = Len(file)
  /\ rontt' = Append(rontt, ront)
  /\ pc' = "create" /\ cursor' = <<1, 1>>
  /\ UNCHANGED <<inputs, runs, file, line, funcType, ront, reqs, reqCount>>

-----------------------------------------------------------------------------
(***************************************************************************)
(* createRequests.  createRequestInSlot makes the requests of one type and *)
(* slot, node by node; what createRequest returns is not looked at, so an  *)
(* unknown type adds requests that nobody has initialised.                 *)
(***************************************************************************)
Share(row) == [n \in Nodes |-> row[n] \div ReduFactor]

\* How many requests come before those of node n.
Before(row, n) ==
  LET sum[k \in 0..NodeNum] ==
        IF k = 0 THEN 0 ELSE sum[k - 1] + Share(row)[k]
  IN  sum[n - 1]

\* createRequest finds the type, and the node in m_map.
Known(t) == t \in Types /\ HasTopo

Created(t, s, row) ==
  [i \in 1..Before(row, NodeNum + 1) |->
     LET n == CHOOSE k \in Nodes :
                 Before(row, k) < i /\ i <= Before(row, k + 1)
     IN  IF Known(t) THEN Request(reqCount + i - 1, t, n, s)
                     ELSE Uninitialised]

CreateRequestInSlot ==
  /\ pc = "create" /\ cursor[1] <= Len(rontt)
  /\ cursor[2] <= Len(rontt[cursor[1]])
  /\ LET new == Created(cursor[1], cursor[2], rontt[cursor[1]][cursor[2]])
     IN  /\ reqs' = [reqs EXCEPT ![cursor[2]] = @ \o new]
         /\ reqCount' = reqCount +
                          IF Known(cursor[1]) THEN Len(new) ELSE 0
  /\ cursor' = <<cursor[1], cursor[2] + 1>>
  /\ UNCHANGED <<pc, inputs, runs, file, readVars>>

CreateNextType ==
  /\ pc = "create" /\ cursor[1] <= Len(rontt)
  /\ cursor[2] > Len(rontt[cursor[1]])
  /\ cursor' = <<cursor[1] + 1, 1>>
  /\ UNCHANGED <<pc, inputs, runs, file, readVars, reqs, reqCount>>

\* What happens to a request that was not initialised is undefined, and so is
\* any deployment with an uninitialised parameter.
Deployable ==
  /\ \A s \in Slots : ~Contains(reqs[s], Uninitialised)
  /\ reqCount > 0 => \A key \in {"MemCap", "CommCostPara", "cpuFreq"} : Given(key)

Loaded ==
  /\ pc = "create" /\ cursor[1] > Len(rontt)
  /\ pc' = IF Deployable THEN "deploy" ELSE "undefined"
  /\ UNCHANGED <<inputs, runs, cursor, file, readVars, reqs, reqCount>>

LoadNext ==
  \/ NoTotals \/ Unnamed \/ WriteTitle \/ WriteRow
  \/ DividesByZero \/ AssertionFails \/ NextType
  \/ RunAgain \/ RunScheduler
  \/ ReadTitle \/ ReadRow \/ EndOfFile
  \/ CreateRequestInSlot \/ CreateNextType \/ Loaded

=============================================================================
