------------------------ MODULE EdgeSimulation_proofs ------------------------
(***************************************************************************)
(* Proofs about the way of the requests from the draws of zipf.cc through  *)
(* the file to the scheduler, which loses, shifts and invents none, and    *)
(* about the simulated network: which hosts have an address, which served  *)
(* requests send nothing, and whom the sink takes a packet for.            *)
(***************************************************************************)
EXTENDS EdgeSimulation, NatSums

USE LoadAssumption, SimulationAssumption

-----------------------------------------------------------------------------
(***************************************************************************)
(* Addresses.                                                              *)
(***************************************************************************)

\* A link is two neighbouring numbers, or the last node with the first.
LEMMA LinkEnds ==
  ASSUME NEW a \in Int, NEW b \in Int
  PROVE  <<a, b>> \in Links <=>
           /\ a \in Nodes
           /\ b = IF a = NodeNum THEN 1 ELSE a + 1
BY DEF Links, Nodes

\* The one node of the ring without an address is the first: create_traffic
\* (network_controller.cc:229) looks for its link under the number 0.
THEOREM FirstNodeUnreachable ==
  ASSUME NEW n \in Nodes
  PROVE  AddressOf(n) = NoAddress <=> n = 1
<1>1. n \in Int /\ n - 1 \in Int
  BY DEF Nodes
<1>2. CASE n = 1
  <2>1. <<0, 1>> \notin Links
    BY LinkEnds DEF Nodes
  <2>2. <<1, 0>> \notin Links
    BY LinkEnds DEF Nodes
  <2> QED
    BY <1>2, <2>1, <2>2 DEF AddressOf
<1>3. CASE n # 1
  <2>1. <<n - 1, n>> \in Links
    BY <1>1, <1>3, LinkEnds DEF Nodes
  <2>2. AddressOf(n) = <<<<n - 1, n>>, 1>>
    BY <2>1 DEF AddressOf
  <2> QED
    BY <1>3, <2>2 DEF NoAddress
<1> QED
  BY <1>2, <1>3

\* An address found for a node is its own.
LEMMA OwnAddress ==
  ASSUME NEW n \in Nodes, AddressOf(n) # NoAddress
  PROVE  Owner(AddressOf(n)) = n
<1>1. \/ AddressOf(n) = <<<<n - 1, n>>, 1>>
      \/ AddressOf(n) = <<<<n, n - 1>>, 0>>
  BY DEF AddressOf
<1> QED
  BY <1>1 DEF Owner

-----------------------------------------------------------------------------
(***************************************************************************)
(* Times.                                                                  *)
(***************************************************************************)
SlotOf(id) == Req(id).arriveTime

\* A request's application stops a slot after it has started, and before the
\* end of the run unless the slot is the last.
LEMMA SlotTimes ==
  ASSUME NEW id, SlotOf(id) \in Slots
  PROVE  /\ RunEnd \in Nat
         /\ StartTime(id) \in Nat
         /\ StopTime(id) = StartTime(id) + SlotTicks
         /\ SlotOf(id) = SlotNum => StartTime(id) = RunEnd
         /\ SlotOf(id) # SlotNum => StopTime(id) <= RunEnd
<1> DEFINE s == SlotOf(id)
<1>1. s \in Nat /\ s <= SlotNum
  BY DEF Slots
<1> HIDE DEF s
<1>2. s * SlotTicks \in Nat /\ SlotNum * SlotTicks \in Nat
  BY <1>1
<1>3. (s + 1) * SlotTicks = s * SlotTicks + SlotTicks
  BY <1>1
<1>4. ASSUME s # SlotNum
      PROVE  (s + 1) * SlotTicks <= SlotNum * SlotTicks
  BY <1>1, <1>4
<1> QED
  BY <1>1, <1>2, <1>3, <1>4 DEF s, StartTime, StopTime, RunEnd, SlotOf

-----------------------------------------------------------------------------
(***************************************************************************)
(* The invariant of the network.  Where times are compared it speaks of    *)
(* the requests whose arriveTime is a slot: that createRequests makes no   *)
(* others is the readers' part of the invariant (SlotIs).                  *)
(***************************************************************************)
InRun == pc \in {"run", "over"}

\* Until genTraffic no time passes, and only deployRequests names hosts.
Quiet ==
  /\ ~InRun => clock = 0
  /\ ~InRun /\ pc # "deploy" => host = <<>>

\* A host is a node, and only requests of the slots walked over have one.
HostsOK ==
  /\ host \in Seq(Nodes \cup {0})
  /\ InRun => Len(host) = reqCount
  /\ pc = "deploy" =>
       \A i \in 1..Len(host) :
         SlotOf(i - 1) \in Slots /\ host[i] # 0 => SlotOf(i - 1) <= MapSize

AppState == {"none", "installed", "started", "stopped"}

AppsOK ==
  InRun =>
    /\ clock \in Nat
    /\ pc = "over" => clock = RunEnd
    /\ app \in [Ids -> AppState]
    /\ nextTx \in [Ids -> Int]
    /\ sent \in [Ids -> Nat]
    /\ got \in [Ids -> Nat]
    /\ socket \in [Ids -> {"closed", "connecting", "connected"}]
    /\ \A id \in Ids : got[id] <= sent[id]

Addressed ==
  InRun =>
    \A id \in Ids :
      /\ peer[id] # NoAddress =>
           Host(id) \in Nodes /\ peer[id] = AddressOf(Host(id))
      /\ SlotOf(id) \in Slots /\ Host(id) # 0 /\ peer[id] = NoAddress =>
           AddressOf(Host(id)) = NoAddress
      /\ app[id] = "none" => peer[id] = NoAddress

\* How far a request's application has come.  One with a route that has sent
\* nothing yet waits for its first packet.
Reaches(id) == Routed(Req(id).ingress, peer[id])

Waiting(id) ==
  /\ socket[id] # "closed"
  /\ nextTx[id] = StartTime(id) + PacketTicks
  /\ clock <= nextTx[id]

Progress(id) ==
  /\ app[id] = "installed" => clock <= StartTime(id)
  /\ app[id] = "started" =>
       /\ clock <= StopTime(id)
       /\ sent[id] = 0 /\ Reaches(id) => Waiting(id)
  /\ app[id] = "stopped" => sent[id] # 0 \/ ~Reaches(id)

AppsProgress ==
  InRun => \A id \in Ids : SlotOf(id) \in Slots => Progress(id)

Inv == Quiet /\ HostsOK /\ AppsOK /\ Addressed /\ AppsProgress

-----------------------------------------------------------------------------
(***************************************************************************)
(* The steps.                                                              *)
(***************************************************************************)

\* The readers know nothing of the simulation and end before it.
LEMMA LoadStays ==
  ASSUME LoadNext
  PROVE  ~InRun /\ pc # "deploy" /\ ~InRun'
BY DEF LoadNext, NoTotals, Unnamed, WriteTitle, WriteRow, DividesByZero,
       AssertionFails, NextType, RunAgain, RunScheduler, ReadTitle, ReadRow,
       EndOfFile, CreateRequestInSlot, CreateNextType, Loaded, Generating, InRun

\* A step of the applications, the network or the clock.
NetStep(id) ==
  \/ StartApplication(id) \/ SendPacket(id) \/ StopApplication(id)
  \/ HandleAccept(id) \/ HandleRead(id)

\* What requests, hosts and addresses say of a request as long as they stay.
LEMMA RequestsStay ==
  ASSUME reqs' = reqs, reqCount' = reqCount, host' = host, peer' = peer, NEW id
  PROVE  /\ Ids' = Ids
         /\ Host(id)' = Host(id)
         /\ SlotOf(id)' = SlotOf(id)
         /\ StartTime(id)' = StartTime(id)
         /\ StopTime(id)' = StopTime(id)
         /\ Reaches(id)' = Reaches(id)
         /\ MapSize' = MapSize
<1>1. Req(id)' = Req(id)
  BY DEF Req
<1> QED
  BY <1>1 DEF Ids, Host, SlotOf, StartTime, StopTime, Reaches, MapSize

\* In a run they do.
LEMMA NetStays ==
  ASSUME \/ \E id \in Ids : NetStep(id)
         \/ Tick \/ SimulatorStop \/ UNCHANGED vars
  PROVE  /\ reqs' = reqs /\ reqCount' = reqCount /\ host' = host /\ peer' = peer
         /\ InRun' <=> InRun
         /\ pc' = "deploy" <=> pc = "deploy"
BY DEF NetStep, StartApplication, SendPacket, StopApplication, HandleAccept,
       HandleRead, Tick, SimulatorStop, Running, InRun, vars, loadVars, simVars,
       appVars

\* The steps, sorted as the proofs take them.
LEMMA Steps ==
  ASSUME [Next]_vars
  PROVE  \/ Load \/ DeployRequest \/ GenTraffic
         \/ \E id \in Ids : NetStep(id)
         \/ Tick \/ SimulatorStop \/ UNCHANGED vars
BY DEF Next, NetStep

-----------------------------------------------------------------------------
LEMMA InitInv == Init => Inv
BY DEF Init, LoadInit, SimInit, Inv, Quiet, HostsOK, AppsOK, Addressed,
       AppsProgress, InRun

LEMMA QuietStep ==
  ASSUME Quiet, [Next]_vars
  PROVE  Quiet'
<1>1. CASE Load
  BY <1>1, LoadStays DEF Load, Quiet, simVars
<1>2. CASE DeployRequest
  BY <1>2 DEF DeployRequest, Quiet, InRun, loadVars
<1>3. CASE GenTraffic
  BY <1>3 DEF GenTraffic, Quiet, InRun
<1>4. CASE \E id \in Ids : NetStep(id)
  <2>1. InRun
    BY <1>4 DEF NetStep, StartApplication, SendPacket, StopApplication,
                HandleAccept, HandleRead, Running, InRun
  <2> QED
    BY <1>4, <2>1, NetStays DEF Quiet
<1>5. CASE Tick \/ SimulatorStop
  <2>1. InRun
    BY <1>5 DEF Tick, SimulatorStop, Running, InRun
  <2> QED
    BY <1>5, <2>1, NetStays DEF Quiet
<1>6. CASE UNCHANGED vars
  BY <1>6 DEF Quiet, InRun, vars, loadVars, simVars
<1> QED
  BY <1>1, <1>2, <1>3, <1>4, <1>5, <1>6, Steps

\* The number of slots with requests is a number.
LEMMA MapSizeInt == MapSize \in Nat
<1>1. IsFiniteSet(Slots)
  BY FS_Interval DEF Slots
<1> QED
  BY <1>1, FS_Subset, FS_CardinalityType DEF MapSize

LEMMA HostsStep ==
  ASSUME Quiet, HostsOK, [Next]_vars
  PROVE  HostsOK'
<1>1. CASE Load
  <2>1. host' = <<>> /\ ~InRun'
    BY <1>1, LoadStays DEF Load, Quiet, simVars
  <2> QED
    BY <2>1 DEF HostsOK
<1>2. CASE DeployRequest
  <2>1. PICK n \in Nodes \cup {0} :
          /\ Req(Len(host)).arriveTime > MapSize => n = 0
          /\ host' = Append(host, n)
    BY <1>2 DEF DeployRequest
  <2>2. /\ pc = "deploy" /\ pc' = pc /\ reqs' = reqs /\ ~InRun'
    BY <1>2 DEF DeployRequest, loadVars, InRun
  <2>3. host' \in Seq(Nodes \cup {0}) /\ Len(host') = Len(host) + 1
    BY <2>1 DEF HostsOK
  <2>4. ASSUME NEW i \in 1..Len(host'), SlotOf(i - 1)' \in Slots, host'[i] # 0
        PROVE  SlotOf(i - 1)' <= MapSize'
    <3>1. SlotOf(i - 1)' = SlotOf(i - 1) /\ MapSize' = MapSize
      BY <2>2 DEF SlotOf, Req, MapSize
    <3>2. CASE i <= Len(host)
      <4>1. i \in 1..Len(host) /\ host'[i] = host[i]
        BY <2>1, <3>2 DEF HostsOK
      <4> QED
        BY <2>2, <2>4, <3>1, <4>1 DEF HostsOK
    <3>3. CASE i = Len(host) + 1
      <4>1. host'[i] = n /\ i - 1 = Len(host)
        BY <2>1, <3>3 DEF HostsOK
      <4>2. ~(SlotOf(i - 1) > MapSize)
        BY <2>1, <2>4, <4>1 DEF SlotOf
      <4> QED
        BY <2>4, <3>1, <4>2, MapSizeInt DEF Slots
    <3> QED
      BY <2>3, <3>2, <3>3 DEF HostsOK
  <2> QED
    BY <2>2, <2>3, <2>4 DEF HostsOK
<1>3. CASE GenTraffic
  BY <1>3 DEF GenTraffic, HostsOK, InRun
<1>4. CASE \/ \E id \in Ids : NetStep(id)
           \/ Tick \/ SimulatorStop \/ UNCHANGED vars
  <2>1. /\ reqs' = reqs /\ reqCount' = reqCount /\ host' = host /\ peer' = peer
        /\ InRun' <=> InRun
        /\ pc' = "deploy" <=> pc = "deploy"
    BY <1>4, NetStays
  <2>2. \A id : SlotOf(id)' = SlotOf(id) /\ MapSize' = MapSize
    BY <2>1, RequestsStay
  <2> QED
    BY <2>1, <2>2 DEF HostsOK
<1> QED
  BY <1>1, <1>2, <1>3, <1>4, Steps

\* Nothing runs before genTraffic.
LEMMA NotYet ==
  ASSUME Load \/ DeployRequest
  PROVE  ~InRun'
<1>1. CASE Load
  BY <1>1, LoadStays DEF Load
<1>2. CASE DeployRequest
  BY <1>2 DEF DeployRequest, InRun, loadVars
<1> QED
  BY <1>1, <1>2

LEMMA AppsStep ==
  ASSUME Quiet, AppsOK, [Next]_vars
  PROVE  AppsOK'
<1>1. CASE Load \/ DeployRequest
  BY <1>1, NotYet DEF AppsOK
<1>2. CASE GenTraffic
  <2>1. clock' = 0 /\ pc' = "run" /\ Ids' = Ids
    BY <1>2 DEF GenTraffic, Quiet, InRun, Ids
  <2>2. /\ app' \in [Ids -> AppState]
        /\ nextTx' \in [Ids -> Int]
        /\ sent' \in [Ids -> Nat]
        /\ got' \in [Ids -> Nat]
        /\ socket' \in [Ids -> {"closed", "connecting", "connected"}]
        /\ \A id \in Ids : got'[id] <= sent'[id]
    BY <1>2 DEF GenTraffic, Installed, AppState, Never
  <2> QED
    BY <2>1, <2>2 DEF AppsOK
<1>3. CASE \E id \in Ids : NetStep(id)
  <2>1. PICK id \in Ids : NetStep(id)
    BY <1>3
  <2>2. InRun /\ pc = "run" /\ pc' = pc /\ clock' = clock /\ Ids' = Ids
    BY <2>1 DEF NetStep, StartApplication, SendPacket, StopApplication,
                HandleAccept, HandleRead, Running, InRun, loadVars, Ids
  <2>3. /\ clock \in Nat
        /\ app \in [Ids -> AppState]
        /\ nextTx \in [Ids -> Int]
        /\ sent \in [Ids -> Nat]
        /\ got \in [Ids -> Nat]
        /\ socket \in [Ids -> {"closed", "connecting", "connected"}]
        /\ \A x \in Ids : got[x] <= sent[x]
    BY <2>2 DEF AppsOK
  <2>4. CASE StartApplication(id)
    BY <2>1, <2>2, <2>3, <2>4 DEF StartApplication, AppsOK, AppState
  <2>5. CASE SendPacket(id)
    <3>1. /\ app' = app /\ socket' = socket /\ got' = got
          /\ nextTx' = [nextTx EXCEPT ![id] = clock + PacketTicks]
          /\ sent' = [sent EXCEPT ![id] = @ + 1] \/ sent' = sent
      BY <2>5 DEF SendPacket
    <3>2. nextTx' \in [Ids -> Int]
      BY <2>1, <2>3, <3>1
    <3>3. sent' \in [Ids -> Nat] /\ \A x \in Ids : got[x] <= sent'[x]
      <4>1. CASE sent' = sent
        BY <2>3, <4>1
      <4>2. CASE sent' = [sent EXCEPT ![id] = @ + 1]
        <5>1. \A x \in Ids : sent'[x] = IF x = id THEN sent[x] + 1 ELSE sent[x]
          BY <2>3, <4>2
        <5>2. sent' \in [Ids -> Nat]
          BY <2>1, <2>3, <4>2
        <5>3. \A x \in Ids : sent[x] \in Nat /\ got[x] \in Nat
          BY <2>3
        <5>4. ASSUME NEW x \in Ids
              PROVE  got[x] <= sent'[x]
          <6>1. got[x] <= sent[x]
            BY <2>3
          <6> QED
            BY <5>1, <5>3, <6>1
        <5> QED
          BY <5>2, <5>4
      <4> QED
        BY <3>1, <4>1, <4>2
    <3> QED
      BY <2>2, <2>3, <3>1, <3>2, <3>3 DEF AppsOK
  <2>6. CASE StopApplication(id)
    BY <2>1, <2>2, <2>3, <2>6 DEF StopApplication, AppsOK, AppState, Never
  <2>7. CASE HandleAccept(id)
    BY <2>1, <2>2, <2>3, <2>7 DEF HandleAccept, AppsOK
  <2>8. CASE HandleRead(id)
    BY <2>1, <2>2, <2>3, <2>8 DEF HandleRead, AppsOK
  <2> QED
    BY <2>1, <2>4, <2>5, <2>6, <2>7, <2>8 DEF NetStep
<1>4. CASE Tick
  BY <1>4 DEF Tick, AppsOK, Running, InRun, Ids, loadVars, appVars
<1>5. CASE SimulatorStop
  BY <1>5 DEF SimulatorStop, AppsOK, InRun, Ids, appVars
<1>6. CASE UNCHANGED vars
  BY <1>6 DEF AppsOK, InRun, Ids, RunEnd, vars, loadVars, simVars
<1> QED
  BY <1>1, <1>2, <1>3, <1>4, <1>5, <1>6, Steps

\* A host that is not 0 is a node.
LEMMA HostType ==
  ASSUME host \in Seq(Nodes \cup {0}), Len(host) = reqCount, NEW id \in Ids
  PROVE  Host(id) \in Nodes \cup {0}
<1>1. id \in Int /\ id + 1 \in 1..Len(host)
  BY DEF Ids
<1> QED
  BY <1>1 DEF Host

LEMMA AddressedStep ==
  ASSUME HostsOK, AppsOK, Addressed, [Next]_vars
  PROVE  Addressed'
<1>1. CASE Load \/ DeployRequest
  BY <1>1, NotYet DEF Addressed
<1>2. CASE GenTraffic
  <2>1. /\ reqs' = reqs /\ reqCount' = reqCount /\ host' = host
        /\ pc = "deploy" /\ Len(host) = reqCount
    BY <1>2 DEF GenTraffic
  <2> DEFINE to(id) == IF Host(id) # 0 /\ Req(id).arriveTime <= MapSize
                         THEN AddressOf(Host(id)) ELSE NoAddress
  <2>2. /\ peer' = [id \in Ids |-> to(id)]
        /\ app' = [id \in Ids |-> Installed(to(id))]
    BY <1>2 DEF GenTraffic
  <2>3. ASSUME NEW id \in Ids
        PROVE  /\ Ids' = Ids /\ Host(id)' = Host(id) /\ SlotOf(id)' = SlotOf(id)
               /\ Host(id) \in Nodes \cup {0}
               /\ SlotOf(id) \in Slots /\ Host(id) # 0 => SlotOf(id) <= MapSize
               /\ peer'[id] = to(id) /\ app'[id] = Installed(to(id))
    <3>1. Ids' = Ids /\ Host(id)' = Host(id) /\ SlotOf(id)' = SlotOf(id)
      BY <2>1 DEF Ids, Host, SlotOf, Req
    <3>2. Host(id) \in Nodes \cup {0}
      BY <2>1, HostType DEF HostsOK
    <3>3. id + 1 \in 1..Len(host) /\ (id + 1) - 1 = id
      BY <2>1 DEF Ids, HostsOK
    <3>4. SlotOf(id) \in Slots /\ Host(id) # 0 => SlotOf(id) <= MapSize
      BY <2>1, <3>3 DEF HostsOK, Host
    <3> QED
      BY <2>2, <3>1, <3>2, <3>4
  <2>4. ASSUME NEW id \in Ids
        PROVE  /\ to(id) # NoAddress =>
                    Host(id) \in Nodes /\ to(id) = AddressOf(Host(id))
               /\ SlotOf(id) \in Slots /\ Host(id) # 0 /\ to(id) = NoAddress =>
                    AddressOf(Host(id)) = NoAddress
               /\ Installed(to(id)) = "none" => to(id) = NoAddress
    BY <2>3 DEF SlotOf, Installed
  <2>5. ASSUME NEW id \in Ids
        PROVE  AddressOf(Host(id))' = AddressOf(Host(id))
    BY <2>1 DEF AddressOf, Host
  <2>6. Ids' = Ids
    BY <2>1 DEF Ids
  <2> HIDE DEF to
  <2>7. ASSUME NEW id \in Ids'
        PROVE  /\ peer'[id] # NoAddress =>
                    Host(id)' \in Nodes /\ peer'[id] = AddressOf(Host(id))'
               /\ SlotOf(id)' \in Slots /\ Host(id)' # 0 /\ peer'[id] = NoAddress =>
                    AddressOf(Host(id))' = NoAddress
               /\ app'[id] = "none" => peer'[id] = NoAddress
    BY <2>3, <2>4, <2>5, <2>6
  <2> QED
    BY <2>7 DEF Addressed
<1>3. CASE \/ \E id \in Ids : NetStep(id)
           \/ Tick \/ SimulatorStop \/ UNCHANGED vars
  <2>1. /\ reqs' = reqs /\ reqCount' = reqCount /\ host' = host /\ peer' = peer
        /\ InRun' <=> InRun
    BY <1>3, NetStays
  <2>2. Ids' = Ids
    BY <2>1 DEF Ids
  <2>3. ASSUME InRun, NEW id \in Ids, app'[id] = "none"
        PROVE  app[id] = "none"
    BY <1>3, <2>3 DEF NetStep, StartApplication, SendPacket, StopApplication,
         HandleAccept, HandleRead, Tick, SimulatorStop, vars, simVars, appVars,
         AppsOK
  <2>4. ASSUME NEW id
        PROVE  Host(id)' = Host(id) /\ SlotOf(id)' = SlotOf(id)
    BY <2>1, RequestsStay
  <2> QED
    BY <2>1, <2>2, <2>3, <2>4 DEF Addressed
<1> QED
  BY <1>1, <1>2, <1>3, Steps

\* An application that has just been made waits for its slot.
LEMMA ProgressStart ==
  ASSUME NEW id \in Ids, SlotOf(id) \in Slots, GenTraffic, Quiet
  PROVE  Progress(id)'
<1>1. app'[id] \in {"none", "installed"} /\ clock' = 0
  BY DEF GenTraffic, Installed, Quiet, InRun
<1>2. StartTime(id)' = StartTime(id)
  BY DEF GenTraffic, StartTime, Req
<1>3. StartTime(id) \in Nat
  BY SlotTimes
<1> QED
  BY <1>1, <1>2, <1>3 DEF Progress

\* What the step of one application, or none, does to another.
LEMMA ProgressOther ==
  ASSUME NEW id \in Ids, Progress(id),
         reqs' = reqs, reqCount' = reqCount, host' = host, peer' = peer,
         clock' = clock, app'[id] = app[id], sent'[id] = sent[id],
         nextTx'[id] = nextTx[id], socket[id] # "closed" => socket'[id] # "closed"
  PROVE  Progress(id)'
BY RequestsStay DEF Progress, Waiting

LEMMA ProgressNet ==
  ASSUME AppsOK, AppsProgress, InRun, NEW id \in Ids, NetStep(id),
         SlotOf(id) \in Slots
  PROVE  Progress(id)'
<1>1. /\ reqs' = reqs /\ reqCount' = reqCount /\ host' = host /\ peer' = peer
      /\ InRun'
  BY NetStays
<1>2. /\ StartTime(id)' = StartTime(id)
      /\ StopTime(id)' = StopTime(id)
      /\ Reaches(id)' = Reaches(id)
  BY <1>1, RequestsStay
<1>3. /\ clock \in Nat
      /\ app \in [Ids -> AppState]
      /\ nextTx \in [Ids -> Int]
      /\ sent \in [Ids -> Nat]
      /\ got \in [Ids -> Nat]
      /\ socket \in [Ids -> {"closed", "connecting", "connected"}]
      /\ got[id] <= sent[id]
  BY DEF AppsOK
<1>4. Progress(id)
  BY DEF AppsProgress
<1>5. StartTime(id) \in Nat /\ StopTime(id) = StartTime(id) + SlotTicks
  BY SlotTimes
<1>6. CASE StartApplication(id)
  <2>1. /\ clock' = clock /\ clock = StartTime(id)
        /\ app'[id] = "started" /\ nextTx'[id] = clock + PacketTicks
        /\ Reaches(id) => socket'[id] # "closed"
    BY <1>3, <1>6 DEF StartApplication, Starting, Reaches
  <2> QED
    BY <1>2, <1>5, <2>1 DEF Progress, Waiting
<1>7. CASE SendPacket(id)
  <2>1. /\ clock' = clock /\ app' = app /\ socket' = socket
        /\ nextTx[id] = clock
        /\ IF socket[id] # "closed" /\ sent[id] - got[id] < SendBuffer
             THEN sent'[id] = sent[id] + 1 ELSE sent' = sent
    BY <1>3, <1>7 DEF SendPacket, Sending
  <2>2. sent'[id] # 0 \/ (sent[id] = 0 /\ socket[id] = "closed")
    BY <1>3, <2>1
  <2> QED
    BY <1>2, <1>4, <2>1, <2>2 DEF Progress, Waiting
<1>8. CASE StopApplication(id)
  <2>1. /\ clock' = clock /\ clock = StopTime(id) /\ app[id] = "started"
        /\ app'[id] = "stopped" /\ sent' = sent
    BY <1>3, <1>8 DEF StopApplication, Stopping
  <2>2. sent[id] # 0 \/ ~Reaches(id)
    BY <1>4, <1>5, <2>1 DEF Progress, Waiting
  <2> QED
    BY <1>2, <2>1, <2>2 DEF Progress
<1>9. CASE HandleAccept(id)
  <2>1. /\ clock' = clock /\ app' = app /\ sent' = sent /\ nextTx' = nextTx
        /\ socket'[id] # "closed"
    BY <1>3, <1>9 DEF HandleAccept
  <2> QED
    BY <1>1, <1>4, <2>1, ProgressOther
<1>10. CASE HandleRead(id)
  <2>1. /\ clock' = clock /\ app' = app /\ sent' = sent /\ nextTx' = nextTx
        /\ sent[id] # 0
    BY <1>3, <1>10 DEF HandleRead
  <2> QED
    BY <1>2, <1>4, <2>1 DEF Progress
<1> QED
  BY <1>6, <1>7, <1>8, <1>9, <1>10 DEF NetStep

LEMMA ProgressStep ==
  ASSUME Quiet, AppsOK, AppsProgress, [Next]_vars
  PROVE  AppsProgress'
<1>1. CASE Load \/ DeployRequest
  BY <1>1, NotYet DEF AppsProgress
<1>2. CASE GenTraffic
  <2>1. Ids' = Ids /\ \A id : SlotOf(id)' = SlotOf(id)
    BY <1>2 DEF GenTraffic, Ids, SlotOf, Req
  <2> QED
    BY <1>2, <2>1, ProgressStart DEF AppsProgress
<1>3. CASE \E id \in Ids : NetStep(id)
  <2>1. PICK n \in Ids : NetStep(n)
    BY <1>3
  <2>2. /\ reqs' = reqs /\ reqCount' = reqCount /\ host' = host /\ peer' = peer
        /\ InRun' <=> InRun
    BY <1>3, NetStays
  <2>3. Ids' = Ids /\ \A id : SlotOf(id)' = SlotOf(id)
    BY <2>2, RequestsStay
  <2>4. ASSUME InRun, NEW id \in Ids, SlotOf(id) \in Slots
        PROVE  Progress(id)'
    <3>1. CASE id = n
      BY <2>1, <2>4, <3>1, ProgressNet
    <3>2. CASE id # n
      <4>1. /\ app \in [Ids -> AppState]
            /\ nextTx \in [Ids -> Int]
            /\ sent \in [Ids -> Nat]
            /\ socket \in [Ids -> {"closed", "connecting", "connected"}]
        BY <2>4 DEF AppsOK
      <4>2. /\ clock' = clock /\ app'[id] = app[id] /\ sent'[id] = sent[id]
            /\ nextTx'[id] = nextTx[id] /\ socket'[id] = socket[id]
        BY <2>1, <2>4, <3>2, <4>1 DEF NetStep, StartApplication, SendPacket,
             StopApplication, HandleAccept, HandleRead
      <4> QED
        BY <2>2, <2>4, <4>2, ProgressOther DEF AppsProgress
    <3> QED
      BY <3>1, <3>2
  <2> QED
    BY <2>2, <2>3, <2>4 DEF AppsProgress
<1>4. CASE Tick
  <2>1. /\ reqs' = reqs /\ reqCount' = reqCount /\ host' = host /\ peer' = peer
        /\ InRun /\ clock' = clock + 1 /\ app' = app /\ sent' = sent
        /\ nextTx' = nextTx /\ socket' = socket
    BY <1>4 DEF Tick, Running, InRun, loadVars, appVars
  <2>2. Ids' = Ids /\ \A id : SlotOf(id)' = SlotOf(id)
    BY <2>1, RequestsStay
  <2>3. ASSUME NEW id \in Ids, SlotOf(id) \in Slots
        PROVE  Progress(id)'
    <3>1. Progress(id) /\ clock \in Nat /\ nextTx[id] \in Int
      BY <2>1, <2>3 DEF AppsProgress, AppsOK
    <3>2. /\ StartTime(id)' = StartTime(id)
          /\ StopTime(id)' = StopTime(id)
          /\ Reaches(id)' = Reaches(id)
          /\ StartTime(id) \in Nat /\ StopTime(id) \in Nat
      BY <2>1, <2>3, RequestsStay, SlotTimes
    <3>3. /\ app[id] = "installed" => clock # StartTime(id)
          /\ app[id] = "started" => clock # StopTime(id)
          /\ nextTx[id] # clock
      BY <1>4 DEF Tick, Starting, Stopping, Sending
    <3> QED
      BY <2>1, <3>1, <3>2, <3>3 DEF Progress, Waiting
  <2> QED
    BY <2>2, <2>3 DEF AppsProgress
<1>5. CASE SimulatorStop \/ UNCHANGED vars
  <2>1. /\ reqs' = reqs /\ reqCount' = reqCount /\ host' = host /\ peer' = peer
        /\ InRun' <=> InRun
    BY <1>5, NetStays
  <2>2. clock' = clock /\ app' = app /\ sent' = sent /\ nextTx' = nextTx
        /\ socket' = socket
    BY <1>5 DEF SimulatorStop, appVars, vars, simVars
  <2>3. Ids' = Ids /\ \A id : SlotOf(id)' = SlotOf(id)
    BY <2>1, RequestsStay
  <2> QED
    BY <2>1, <2>2, <2>3, ProgressOther DEF AppsProgress
<1> QED
  BY <1>1, <1>2, <1>3, <1>4, <1>5, Steps

-----------------------------------------------------------------------------
(***************************************************************************)
(* The theorems.                                                           *)
(***************************************************************************)
LEMMA InvAlways == Spec => []Inv
<1>1. Inv /\ [Next]_vars => Inv'
  BY QuietStep, HostsStep, AppsStep, AddressedStep, ProgressStep DEF Inv
<1> QED
  BY <1>1, InitInv, PTL DEF Spec

\* The address create_traffic finds for a request is one of its deployNode
\* (network_controller.cc:229), for rings of any size.
THEOREM AddressesAreHosts == Spec => []AddressedToHost
<1>1. Inv => AddressedToHost
  BY OwnAddress DEF Inv, Addressed, AddressedToHost, InRun
<1> QED
  BY <1>1, InvAlways, PTL

-----------------------------------------------------------------------------
(***************************************************************************)
(* The draws of zipf.cc.                                                   *)
(***************************************************************************)
HIDE SimulationAssumption
HIDE LoadAssumption

LEMMA ModulusType == Modulus \in Nat /\ Modulus > 0
BY SMT DEF Modulus

LEMMA PartialSums ==
  /\ PartialSum(0) = 0
  /\ \A n \in Nat : PartialSum(n + 1) = PartialSum(n) + Power[n + 1]
<1>1. \A n : PartialSum(n) = SumTo(Power, n)
  BY DEF PartialSum, SumTo, AddsUp
<1> QED
  BY <1>1, Sums

LEMMA PartialSumType ==
  ASSUME NEW n \in 0..Len(Power)
  PROVE  PartialSum(n) \in Nat /\ (n # 0 => PartialSum(n) # 0)
<1>1. Power \in Seq(Nat \ {0}) /\ Len(Power) \in Nat
  BY PowerAssumption
<1>2. \A i \in 1..Len(Power) : Power[i] \in Nat \ {0}
  BY <1>1
<1>3. \A m \in 0..Len(Power) : PartialSum(m) \in Nat
  <2>1. \A m : PartialSum(m) = SumTo(Power, m)
    BY DEF PartialSum, SumTo, AddsUp
  <2>2. \A i \in 1..Len(Power) : Power[i] \in Nat
    BY <1>2
  <2>3. \A m \in 0..Len(Power) : SumTo(Power, m) \in Nat
    BY <1>1, <2>2, SumsNatural
  <2> QED
    BY <2>1, <2>3
<1>4. ASSUME n # 0
      PROVE  PartialSum(n) # 0
  <2>1. n - 1 \in Nat /\ n \in 1..Len(Power) /\ n - 1 \in 0..Len(Power)
        /\ (n - 1) + 1 = n
    BY <1>1, <1>4
  <2>2. PartialSum(n) = PartialSum(n - 1) + Power[n]
    BY <2>1, PartialSums
  <2> QED
    BY <1>2, <1>3, <2>1, <2>2
<1> QED
  BY <1>3, <1>4

\* The shares begin at 0 and end at the modulus.
LEMMA Thresholds ==
  ASSUME NEW n \in 1..Len(Power)
  PROVE  /\ Threshold(n, 0) = 0
         /\ Threshold(n, n) = Modulus
         /\ \A i \in 0..n : Threshold(n, i) \in Nat
<1> DEFINE whole == PartialSum(n)
<1>0. Len(Power) \in Nat
  BY PowerAssumption
<1>1. whole \in Nat \ {0}
  BY <1>0, PartialSumType
<1>2. \A i \in 0..n : PartialSum(i) \in Nat
  BY <1>0, PartialSumType
<1>3. \A i : Threshold(n, i) = (Modulus \div whole) * PartialSum(i)
                                 + ((Modulus % whole) * PartialSum(i)) \div whole
  BY <1>1 DEF Threshold
<1> HIDE DEF whole
<1>4. /\ Modulus \div whole \in Nat
      /\ Modulus % whole \in Nat
      /\ Modulus = (Modulus \div whole) * whole + (Modulus % whole)
  BY <1>1 DEF Modulus
<1> DEFINE d == Modulus \div whole
           m == Modulus % whole
<1>5. d \in Nat /\ m \in Nat /\ Modulus = d * whole + m
  BY <1>4
<1>6. \A i : Threshold(n, i) = d * PartialSum(i) + (m * PartialSum(i)) \div whole
  BY <1>3
<1> HIDE DEF d, m
<1>7. \A a \in Nat, b \in Nat \ {0} : a \div b \in Nat
  OBVIOUS
<1>8. ASSUME NEW i \in 0..n
      PROVE  Threshold(n, i) \in Nat
  <2>1. d * PartialSum(i) \in Nat /\ m * PartialSum(i) \in Nat
    BY <1>2, <1>5
  <2>2. (m * PartialSum(i)) \div whole \in Nat
    BY <1>1, <1>7, <2>1
  <2> QED
    BY <1>6, <2>1, <2>2
<1>9. Threshold(n, 0) = 0
  <2>1. d * 0 = 0 /\ m * 0 = 0
    BY <1>5
  <2>2. 0 \div whole = 0
    BY <1>1
  <2> QED
    BY <1>6, <2>1, <2>2, PartialSums
<1>10. Threshold(n, n) = Modulus
  <2>1. (m * whole) \div whole = m
    BY <1>1, <1>5
  <2> QED
    BY <1>5, <1>6, <2>1 DEF whole
<1> QED
  BY <1>8, <1>9, <1>10

-----------------------------------------------------------------------------
\* A round of the search, with what the rounds after it find in f.
Round(n, x, f, b) ==
  IF x <= Threshold(n, Middle(b))
    THEN IF Threshold(n, Middle(b) - 1) < x THEN Middle(b)
         ELSE IF b[1] <= Middle(b) - 1 THEN f[<<b[1], Middle(b) - 1>>]
         ELSE 0
    ELSE IF Middle(b) + 1 <= b[2] THEN f[<<Middle(b) + 1, b[2]>>]
         ELSE 0

Rounds(n, x, f) == f = [b \in Bounds(n) |-> Round(n, x, f, b)]

\* How far the bounds lie apart, counted from the narrowest.
Width(n, b) == b[2] - b[1] + n + 1

LEMMA Widths ==
  ASSUME NEW n \in Nat, NEW b \in Bounds(n)
  PROVE  /\ b[1] \in 1..n + 1 /\ b[2] \in 0..n /\ b = <<b[1], b[2]>>
         /\ Width(n, b) \in Nat
         /\ Width(n, b) < 2 * n + 2
<1>1. PICK low \in 1..n + 1, high \in 0..n : b = <<low, high>>
  BY DEF Bounds
<1>2. b[1] = low /\ b[2] = high
  BY <1>1
<1>3. high - low + n + 1 \in Nat /\ high - low + n + 1 < 2 * n + 2
  OBVIOUS
<1> QED
  BY <1>1, <1>2, <1>3 DEF Width

\* Both halves are narrower.
LEMMA Halves ==
  ASSUME NEW n \in Nat, NEW b \in Bounds(n)
  PROVE  /\ Middle(b) \in Nat
         /\ b[1] <= b[2] => b[1] <= Middle(b) /\ Middle(b) <= b[2]
         /\ b[1] <= Middle(b) - 1 =>
              /\ <<b[1], Middle(b) - 1>> \in Bounds(n)
              /\ Width(n, <<b[1], Middle(b) - 1>>) < Width(n, b)
         /\ Middle(b) + 1 <= b[2] =>
              /\ <<Middle(b) + 1, b[2]>> \in Bounds(n)
              /\ Width(n, <<Middle(b) + 1, b[2]>>) < Width(n, b)
<1>1. PICK low \in 1..n + 1, high \in 0..n : b = <<low, high>>
  BY DEF Bounds
<1>2. b[1] = low /\ b[2] = high
  BY <1>1
<1> DEFINE mid == (low + high) \div 2
<1>3. Middle(b) = mid
  BY <1>2 DEF Middle
<1>4. mid \in Nat /\ 2 * mid <= low + high /\ low + high <= 2 * mid + 1
  OBVIOUS
<1> HIDE DEF mid
<1>5. low <= high => low <= mid /\ mid <= high
  BY <1>4
<1>6. low <= mid - 1 => mid - 1 \in 0..n /\ mid - 1 - low < high - low
  BY <1>4
<1>7. mid + 1 <= high => mid + 1 \in 1..n + 1 /\ high - (mid + 1) < high - low
  BY <1>4
<1>8. ASSUME low <= mid - 1
      PROVE  /\ <<low, mid - 1>> \in Bounds(n)
             /\ Width(n, <<low, mid - 1>>) < Width(n, b)
  BY <1>2, <1>4, <1>6, <1>8 DEF Bounds, Width
<1>9. ASSUME mid + 1 <= high
      PROVE  /\ <<mid + 1, high>> \in Bounds(n)
             /\ Width(n, <<mid + 1, high>>) < Width(n, b)
  BY <1>2, <1>4, <1>7, <1>9 DEF Bounds, Width
<1> QED
  BY <1>2, <1>3, <1>4, <1>5, <1>8, <1>9

\* The search comes to an end from all bounds.
LEMMA SearchDefined ==
  ASSUME NEW n \in Nat, NEW x
  PROVE  \E f : Rounds(n, x, f)
<1> DEFINE Upto(f, d) == \A b \in Bounds(n) :
                           Width(n, b) < d => f[b] = Round(n, x, f, b)
           S == {d \in Nat : \E f : Upto(f, d)}
<1>1. 0 \in S
  <2>1. \A b \in Bounds(n) : ~(Width(n, b) < 0)
    BY Widths
  <2> QED
    BY <2>1
<1>2. ASSUME NEW d \in S
      PROVE  d + 1 \in S
  <2>1. PICK f : Upto(f, d)
    OBVIOUS
  <2> DEFINE g == [b \in Bounds(n) |->
                     IF Width(n, b) < d + 1 THEN Round(n, x, f, b) ELSE 0]
  <2>2. ASSUME NEW b \in Bounds(n), Width(n, b) < d
        PROVE  g[b] = f[b]
    <3>1. Width(n, b) \in Nat /\ d \in Nat
      BY Widths
    <3> QED
      BY <2>1, <2>2, <3>1
  <2>3. ASSUME NEW b \in Bounds(n), Width(n, b) < d + 1
        PROVE  g[b] = Round(n, x, g, b)
    <3>1. Width(n, b) \in Nat /\ d \in Nat
      BY Widths
    <3>2. g[b] = Round(n, x, f, b)
      BY <2>3
    <3> DEFINE left == <<b[1], Middle(b) - 1>>
               right == <<Middle(b) + 1, b[2]>>
    <3>3. b[1] <= Middle(b) - 1 => g[left] = f[left]
      <4> SUFFICES ASSUME b[1] <= Middle(b) - 1
                   PROVE  g[left] = f[left]
        OBVIOUS
      <4>1. left \in Bounds(n) /\ Width(n, left) < Width(n, b)
        BY Halves
      <4>2. Width(n, left) \in Nat
        BY <4>1, Widths
      <4>3. Width(n, left) < d
        BY <2>3, <3>1, <4>1, <4>2
      <4> HIDE DEF g, left
      <4> QED
        BY <2>2, <4>1, <4>3
    <3>4. Middle(b) + 1 <= b[2] => g[right] = f[right]
      <4> SUFFICES ASSUME Middle(b) + 1 <= b[2]
                   PROVE  g[right] = f[right]
        OBVIOUS
      <4>1. right \in Bounds(n) /\ Width(n, right) < Width(n, b)
        BY Halves
      <4>2. Width(n, right) \in Nat
        BY <4>1, Widths
      <4>3. Width(n, right) < d
        BY <2>3, <3>1, <4>1, <4>2
      <4> HIDE DEF g, right
      <4> QED
        BY <2>2, <4>1, <4>3
    <3> HIDE DEF g
    <3> QED
      BY <3>2, <3>3, <3>4 DEF Round
  <2> HIDE DEF g
  <2>4. Upto(g, d + 1)
    BY <2>3
  <2> QED
    BY <2>4
<1> HIDE DEF S
<1>3. S = Nat
  <2>1. S \in SUBSET Nat
    BY DEF S
  <2> QED
    BY <1>1, <1>2, <2>1, Induction
<1>4. PICK f : Upto(f, 2 * n + 2)
  <2>1. 2 * n + 2 \in S
    BY <1>3
  <2> HIDE DEF Upto
  <2> QED
    BY <2>1 DEF S
<1> DEFINE g == [b \in Bounds(n) |-> Round(n, x, f, b)]
<1>5. \A b \in Bounds(n) : g[b] = f[b]
  BY <1>4, Widths
<1>6. ASSUME NEW b \in Bounds(n)
      PROVE  Round(n, x, f, b) = Round(n, x, g, b)
  <2> HIDE DEF g
  <2> QED
    BY <1>5, Halves DEF Round
<1>7. Rounds(n, x, g)
  BY <1>6 DEF Rounds
<1> QED
  BY <1>7

\* A draw stays among 1..Modulus, and so do all of a row.
LEMMA RandBounds ==
  ASSUME NEW quot \in Nat, NEW rest \in Nat, rest <= 127772,
         127773 * quot + rest <= Modulus
  PROVE  LET new == 16807 * rest - 2836 * quot
         IN  /\ new \in Int /\ new <= Modulus
             /\ new + Modulus >= 1
<1>1. 127773 * quot + rest <= 2147483647
  BY SMT DEF Modulus
<1>2. quot <= 16807
  BY <1>1, SMT
<1>3. Modulus > 47664652 /\ Modulus > 2147464004
  BY SMT DEF Modulus
<1> QED
  BY <1>2, <1>3, ModulusType, SMT

LEMMA RandType ==
  ASSUME NEW x \in 1..Modulus
  PROVE  Rand(x) \in 1..Modulus
<1> DEFINE quot == x \div 127773
           rest == x % 127773
<1>1. x \in Nat /\ x <= Modulus
  BY ModulusType
<1>2. /\ quot \in Nat /\ rest \in Nat /\ rest <= 127772
      /\ x = 127773 * quot + rest
  BY <1>1
<1> DEFINE new == 16807 * rest - 2836 * quot
<1>3. Rand(x) = IF new > 0 THEN new ELSE new + Modulus
  BY DEF Rand, Multiplier, Quotient, Rest
<1> HIDE DEF quot, rest
<1>4. new \in Int /\ new <= Modulus /\ new + Modulus >= 1
  BY <1>1, <1>2, RandBounds
<1> HIDE DEF new
<1> QED
  BY <1>3, <1>4, ModulusType

LEMMA DrawsType ==
  ASSUME NEW n \in Nat, NEW i \in 1..n
  PROVE  Draws(n)[i] \in 1..Modulus
<1> DEFINE Drawing(f, m) == f = [k \in 0..m |-> IF k = 0 THEN 1 ELSE Rand(f[k - 1])]
           S == {m \in Nat : \E f : Drawing(f, m)}
<1>1. 0 \in S
  <2> DEFINE f == [k \in 0..0 |-> 1]
  <2>1. Drawing(f, 0)
    OBVIOUS
  <2> QED
    BY <2>1
<1>2. ASSUME NEW m \in S
      PROVE  m + 1 \in S
  <2>1. PICK f : Drawing(f, m)
    OBVIOUS
  <2> DEFINE h == [k \in 0..(m + 1) |-> IF k = m + 1 THEN Rand(f[m]) ELSE f[k]]
             next == [k \in 0..(m + 1) |-> IF k = 0 THEN 1 ELSE Rand(h[k - 1])]
  <2>2. f = [k \in 0..m |-> IF k = 0 THEN 1 ELSE Rand(f[k - 1])]
    BY <2>1
  <2>3. ASSUME NEW k \in 0..(m + 1)
        PROVE  h[k] = next[k]
    <3>1. CASE k = m + 1
      BY <3>1
    <3>2. CASE k # m + 1
      <4>1. k \in 0..m /\ h[k] = f[k]
        BY <3>2
      <4>2. f[k] = IF k = 0 THEN 1 ELSE Rand(f[k - 1])
        BY <2>2, <4>1
      <4>3. k # 0 => h[k - 1] = f[k - 1]
        BY <4>1
      <4> QED
        BY <4>1, <4>2, <4>3
    <3> QED
      BY <3>1, <3>2
  <2>4. h = next
    BY <2>3
  <2>5. Drawing(h, m + 1)
    BY <2>4
  <2> HIDE DEF h, Drawing
  <2> QED
    BY <2>5
<1> HIDE DEF S
<1>3. S = Nat
  <2>1. S \in SUBSET Nat
    BY DEF S
  <2> QED
    BY <1>1, <1>2, <2>1, Induction
<1> DEFINE f == CHOOSE g : Drawing(g, n)
<1>4. Drawing(f, n)
  BY <1>3 DEF S
<1>5. Draws(n) = [k \in 1..n |-> f[k]]
  BY DEF Draws
<1> HIDE DEF f
<1> DEFINE T == {k \in Nat : k <= n => f[k] \in 1..Modulus}
<1>6. \A k \in 0..n : f[k] = IF k = 0 THEN 1 ELSE Rand(f[k - 1])
  BY <1>4
<1>7. 0 \in T
  BY <1>6, ModulusType
<1>8. ASSUME NEW k \in T
      PROVE  k + 1 \in T
  <2> SUFFICES ASSUME k + 1 <= n
               PROVE  f[k + 1] \in 1..Modulus
    OBVIOUS
  <2>1. f[k] \in 1..Modulus /\ k + 1 \in 0..n /\ k + 1 # 0 /\ (k + 1) - 1 = k
    OBVIOUS
  <2>2. f[k + 1] = Rand(f[k])
    BY <1>6, <2>1
  <2> QED
    BY <2>1, <2>2, RandType
<1> HIDE DEF T
<1>9. T = Nat
  <2>1. T \in SUBSET Nat
    BY DEF T
  <2> QED
    BY <1>7, <1>8, <2>1, Induction
<1> QED
  BY <1>5, <1>9 DEF T

\* The binary search finds the value whose share holds the draw.
LEMMA SearchFindsShare ==
  ASSUME NEW n \in 1..Len(Power), NEW x \in 1..Modulus
  PROVE  IsZipf(n, x, Search(n, x))
<1>0. n \in Nat \ {0} /\ x \in Nat /\ Modulus \in Nat
  BY PowerAssumption, ModulusType
<1> DEFINE f == CHOOSE g : Rounds(n, x, g)
           Holds(b) == /\ b[1] <= b[2]
                       /\ Threshold(n, b[1] - 1) < x
                       /\ x <= Threshold(n, b[2])
           S == {d \in Nat : \A b \in Bounds(n) :
                   Width(n, b) <= d /\ Holds(b) => IsZipf(n, x, f[b])}
<1>1. Search(n, x) = f[<<1, n>>]
  BY DEF Search, Rounds, Round
<1>2. \A b \in Bounds(n) : f[b] = Round(n, x, f, b)
  <2>1. Rounds(n, x, f)
    BY <1>0, SearchDefined
  <2> HIDE DEF f
  <2> QED
    BY <2>1 DEF Rounds
<1> HIDE DEF f
<1>3. ASSUME NEW d \in Nat, NEW b \in Bounds(n), Holds(b),
             \A c \in Bounds(n) :
               Width(n, c) < Width(n, b) /\ Holds(c) => IsZipf(n, x, f[c])
      PROVE  IsZipf(n, x, f[b])
  <2>1. /\ b[1] \in 1..n + 1 /\ b[2] \in 0..n
        /\ Middle(b) \in Nat /\ b[1] <= Middle(b) /\ Middle(b) <= b[2]
    BY <1>0, <1>3, Widths, Halves
  <2> DEFINE left == <<b[1], Middle(b) - 1>>
             right == <<Middle(b) + 1, b[2]>>
  <2>2. Middle(b) \in 1..n
    BY <1>0, <2>1
  <2>3. Threshold(n, Middle(b)) \in Nat /\ Threshold(n, Middle(b) - 1) \in Nat
    BY <1>0, <2>2, Thresholds
  <2>4. CASE x <= Threshold(n, Middle(b)) /\ Threshold(n, Middle(b) - 1) < x
    <3>1. f[b] = Middle(b)
      BY <1>2, <2>4 DEF Round
    <3> QED
      BY <2>2, <2>4, <3>1 DEF IsZipf
  <2>5. CASE x <= Threshold(n, Middle(b)) /\ ~(Threshold(n, Middle(b) - 1) < x)
    <3>1. b[1] <= Middle(b) - 1
      BY <1>0, <1>3, <2>1, <2>5
    <3>2. f[b] = f[left]
      BY <1>2, <2>5, <3>1 DEF Round
    <3>3. left \in Bounds(n) /\ Width(n, left) < Width(n, b)
      BY <1>0, <3>1, Halves
    <3>4. Holds(left)
      BY <1>0, <1>3, <2>3, <2>5, <3>1
    <3> HIDE DEF left, Holds
    <3> QED
      BY <1>3, <3>2, <3>3, <3>4
  <2>6. CASE ~(x <= Threshold(n, Middle(b)))
    <3>1. Middle(b) # b[2]
      BY <1>3, <2>6
    <3>2. Middle(b) + 1 <= b[2]
      BY <2>1, <3>1
    <3>3. f[b] = f[right]
      BY <1>2, <2>6, <3>2 DEF Round
    <3>4. right \in Bounds(n) /\ Width(n, right) < Width(n, b)
      BY <1>0, <3>2, Halves
    <3>5. Holds(right)
      BY <1>0, <1>3, <2>1, <2>3, <2>6, <3>2
    <3> HIDE DEF right, Holds
    <3> QED
      BY <1>3, <3>3, <3>4, <3>5
  <2> QED
    BY <2>4, <2>5, <2>6
<1> HIDE DEF Holds
<1>4. 0 \in S
  BY <1>0, <1>3, Widths
<1>5. ASSUME NEW d \in S
      PROVE  d + 1 \in S
  BY <1>0, <1>3, Widths
<1> HIDE DEF S
<1>6. S = Nat
  <2>1. S \in SUBSET Nat
    BY DEF S
  <2> QED
    BY <1>4, <1>5, <2>1, Induction
<1>7. <<1, n>> \in Bounds(n)
  BY <1>0 DEF Bounds
<1>8. Holds(<<1, n>>)
  <2>1. Threshold(n, 0) = 0 /\ Threshold(n, n) = Modulus
    BY Thresholds
  <2> QED
    BY <1>0, <2>1 DEF Holds
<1>9. Width(n, <<1, n>>) \in Nat
  BY <1>0, <1>7, Widths
<1> QED
  BY <1>1, <1>6, <1>7, <1>8, <1>9 DEF S

\* Without anything to draw from the search finds nothing.
LEMMA SearchEmpty ==
  ASSUME NEW x \in 1..Modulus
  PROVE  Search(0, x) = 0
<1>1. x \in Nat /\ 1 <= x
  BY ModulusType
<1> DEFINE f == CHOOSE g : Rounds(0, x, g)
<1>2. Search(0, x) = f[<<1, 0>>]
  BY DEF Search, Rounds, Round
<1>3. <<1, 0>> \in Bounds(0)
  BY DEF Bounds
<1>4. f[<<1, 0>>] = Round(0, x, f, <<1, 0>>)
  <2>1. Rounds(0, x, f)
    BY SearchDefined
  <2> HIDE DEF f
  <2> QED
    BY <1>3, <2>1 DEF Rounds
<1> HIDE DEF f
<1>5. Middle(<<1, 0>>) = 0
  BY DEF Middle
<1>6. Threshold(0, 0) = 0
  BY PartialSums DEF Threshold
<1> QED
  BY <1>1, <1>2, <1>4, <1>5, <1>6 DEF Round

\* A row without a 0 holds the values of its draws.
LEMMA RowIsDraw ==
  ASSUME NEW total \in Nat, total \div NodeNum <= Len(Power),
         NEW n \in Nodes, Row(total)[n] # 0
  PROVE  IsZipf(total \div NodeNum, Draws(NodeNum)[n], Row(total)[n])
<1> DEFINE size == total \div NodeNum
           x == Draws(NodeNum)[n]
<1>1. NodeNum \in Nat \ {0}
  BY LoadAssumption
<1>2. size \in Nat
  BY <1>1
<1>3. x \in 1..Modulus
  BY <1>1, DrawsType DEF Nodes
<1>4. Row(total)[n] = Search(size, x)
  BY DEF Row
<1> HIDE DEF size, x
<1>5. size # 0
  BY <1>3, <1>4, SearchEmpty
<1>6. size \in 1..Len(Power)
  BY <1>2, <1>5, PowerAssumption DEF size
<1>7. IsZipf(size, x, Search(size, x))
  BY <1>3, <1>6, SearchFindsShare
<1> QED
  BY <1>4, <1>7 DEF size, x

\* The assertion behind the search (zipf.cc:127) meets the totals below the
\* number of nodes, whose share is nothing to draw from, and no others.
THEOREM AssertionMeetsSmallTotals ==
  ASSUME NEW total \in Nat, total \div NodeNum <= Len(Power), NEW n \in Nodes
  PROVE  Row(total)[n] = 0 <=> total < NodeNum
<1>1. NodeNum \in Nat \ {0}
  BY LoadAssumption
<1> DEFINE size == total \div NodeNum
<1>2. size \in Nat /\ (size = 0 <=> total < NodeNum)
  <2>1. \E rest \in 0..NodeNum - 1 : total = NodeNum * size + rest /\ size \in Nat
    <3>1. /\ total % NodeNum \in 0..NodeNum - 1 /\ size \in Nat
          /\ total = NodeNum * size + (total % NodeNum)
      BY <1>1
    <3> QED
      BY <3>1
  <2> HIDE DEF size
  <2>2. size # 0 => NodeNum * size >= NodeNum
    BY <1>1, <2>1
  <2> QED
    BY <1>1, <2>1, <2>2
<1> HIDE DEF size
<1>3. CASE size = 0
  <2>1. Draws(NodeNum)[n] \in 1..Modulus
    BY <1>1, DrawsType DEF Nodes
  <2>2. Row(total)[n] = Search(size, Draws(NodeNum)[n])
    BY DEF Row, size
  <2> QED
    BY <1>2, <1>3, <2>1, <2>2, SearchEmpty
<1>4. CASE size # 0
  <2>1. Draws(NodeNum)[n] \in 1..Modulus /\ size \in 1..Len(Power)
    BY <1>1, <1>2, <1>4, DrawsType, PowerAssumption DEF Nodes, size
  <2>2. IsZipf(size, Draws(NodeNum)[n], Row(total)[n])
    BY <2>1, SearchFindsShare DEF Row, size
  <2> QED
    BY <1>2, <1>4, <2>1, <2>2 DEF IsZipf
<1> QED
  BY <1>3, <1>4

-----------------------------------------------------------------------------
(***************************************************************************)
(* The titles of a file.                                                   *)
(***************************************************************************)
TitlesOf(f, l) == Cardinality({k \in 1..l : f[k] = Title})
\* Lines from the last title up to line l.
LinesSince(f, l) == Cardinality({k \in 1..l : TitlesOf(f, k) = TitlesOf(f, l)})

LEMMA TitlesType ==
  ASSUME NEW f, NEW l \in Nat
  PROVE  /\ TitlesOf(f, l) \in Nat
         /\ \A k \in 0..l : TitlesOf(f, k) <= TitlesOf(f, l)
<1> DEFINE T(k) == {j \in 1..k : f[j] = Title}
<1>1. ASSUME NEW k \in 0..l
      PROVE  IsFiniteSet(T(k)) /\ Cardinality(T(k)) \in Nat /\ T(k) \subseteq T(l)
  <2>1. IsFiniteSet(1..k)
    BY FS_Interval
  <2>2. T(k) \subseteq 1..k
    OBVIOUS
  <2>3. IsFiniteSet(T(k))
    BY <2>1, <2>2, FS_Subset
  <2> QED
    BY <2>3, FS_CardinalityType
<1>2. \A k \in 0..l : Cardinality(T(k)) <= Cardinality(T(l))
  BY <1>1, FS_Subset
<1>3. \A k \in 0..l : TitlesOf(f, k) = Cardinality(T(k))
  BY DEF TitlesOf
<1> HIDE DEF T
<1> QED
  BY <1>1, <1>2, <1>3

\* The next line of a file.
LEMMA NextLine ==
  ASSUME NEW f, NEW l \in Nat
  PROVE  /\ f[l + 1] = Title => /\ TitlesOf(f, l + 1) = TitlesOf(f, l) + 1
                                /\ LinesSince(f, l + 1) = 1
         /\ f[l + 1] # Title => /\ TitlesOf(f, l + 1) = TitlesOf(f, l)
                                /\ LinesSince(f, l + 1) = LinesSince(f, l) + 1
<1> DEFINE T == {j \in 1..l : f[j] = Title}
           U == {j \in 1..l + 1 : f[j] = Title}
<1>1. IsFiniteSet(T) /\ l + 1 \notin T
  <2>1. IsFiniteSet(1..l)
    BY FS_Interval
  <2> QED
    BY <2>1, FS_Subset
<1>2. TitlesOf(f, l) = Cardinality(T) /\ TitlesOf(f, l + 1) = Cardinality(U)
  BY DEF TitlesOf
<1>3. ASSUME f[l + 1] = Title
      PROVE  TitlesOf(f, l + 1) = TitlesOf(f, l) + 1
  <2>1. U = T \cup {l + 1}
    BY <1>3
  <2> HIDE DEF T, U
  <2> QED
    BY <1>1, <1>2, <2>1, FS_AddElement
<1>4. ASSUME f[l + 1] # Title
      PROVE  TitlesOf(f, l + 1) = TitlesOf(f, l)
  <2>1. U = T
    BY <1>4
  <2> QED
    BY <1>2, <2>1
<1>5. /\ TitlesOf(f, l) \in Nat
      /\ \A k \in 0..l : TitlesOf(f, k) <= TitlesOf(f, l) /\ TitlesOf(f, k) \in Nat
  BY TitlesType
<1> DEFINE P == {j \in 1..l : TitlesOf(f, j) = TitlesOf(f, l)}
           Q == {j \in 1..l + 1 : TitlesOf(f, j) = TitlesOf(f, l + 1)}
<1>6. LinesSince(f, l) = Cardinality(P) /\ LinesSince(f, l + 1) = Cardinality(Q)
  BY DEF LinesSince
<1>7. IsFiniteSet(P) /\ l + 1 \notin P
  <2>1. IsFiniteSet(1..l)
    BY FS_Interval
  <2> QED
    BY <2>1, FS_Subset
<1>8. ASSUME f[l + 1] = Title
      PROVE  LinesSince(f, l + 1) = 1
  <2>1. \A j \in 1..l : TitlesOf(f, j) # TitlesOf(f, l + 1)
    BY <1>3, <1>5, <1>8
  <2>2. Q = {l + 1}
    BY <2>1
  <2> HIDE DEF Q
  <2> QED
    BY <1>6, <2>2, FS_Singleton
<1>9. ASSUME f[l + 1] # Title
      PROVE  LinesSince(f, l + 1) = LinesSince(f, l) + 1
  <2>1. Q = P \cup {l + 1}
    BY <1>4, <1>9
  <2> HIDE DEF P, Q
  <2> QED
    BY <1>6, <1>7, <2>1, FS_AddElement
<1> QED
  BY <1>3, <1>4, <1>8, <1>9

\* One more line.
LEMMA OneMoreLine ==
  ASSUME NEW X, NEW f \in Seq(X), NEW e \in X
  PROVE  LET g == Append(f, e)
             l == Len(f)
         IN  /\ \A k \in 0..l : TitlesOf(g, k) = TitlesOf(f, k)
             /\ \A k \in 0..l : LinesSince(g, k) = LinesSince(f, k)
             /\ e = Title => TitlesOf(g, l + 1) = TitlesOf(f, l) + 1
             /\ e = Title => LinesSince(g, l + 1) = 1
             /\ e # Title => TitlesOf(g, l + 1) = TitlesOf(f, l)
             /\ e # Title => LinesSince(g, l + 1) = LinesSince(f, l) + 1
<1> DEFINE g == Append(f, e)
           l == Len(f)
<1>1. l \in Nat /\ Len(g) = l + 1 /\ g[l + 1] = e /\ \A k \in 1..l : g[k] = f[k]
  OBVIOUS
<1> HIDE DEF g, l
<1>2. \A k \in 0..l : TitlesOf(g, k) = TitlesOf(f, k)
  <2> SUFFICES ASSUME NEW k \in 0..l
               PROVE  TitlesOf(g, k) = TitlesOf(f, k)
    OBVIOUS
  <2>1. {j \in 1..k : g[j] = Title} = {j \in 1..k : f[j] = Title}
    BY <1>1
  <2> QED
    BY <2>1 DEF TitlesOf
<1>3. \A k \in 0..l : LinesSince(g, k) = LinesSince(f, k)
  <2> SUFFICES ASSUME NEW k \in 0..l
               PROVE  LinesSince(g, k) = LinesSince(f, k)
    OBVIOUS
  <2>1. {j \in 1..k : TitlesOf(g, j) = TitlesOf(g, k)}
          = {j \in 1..k : TitlesOf(f, j) = TitlesOf(f, k)}
    BY <1>1, <1>2
  <2> QED
    BY <2>1 DEF LinesSince
<1>4. TitlesOf(g, l) = TitlesOf(f, l) /\ LinesSince(g, l) = LinesSince(f, l)
  BY <1>1, <1>2, <1>3
<1>5. /\ g[l + 1] = Title => /\ TitlesOf(g, l + 1) = TitlesOf(g, l) + 1
                             /\ LinesSince(g, l + 1) = 1
      /\ g[l + 1] # Title => /\ TitlesOf(g, l + 1) = TitlesOf(g, l)
                             /\ LinesSince(g, l + 1) = LinesSince(g, l) + 1
  BY <1>1, NextLine
<1>6. /\ e = Title => TitlesOf(g, l + 1) = TitlesOf(f, l) + 1
      /\ e = Title => LinesSince(g, l + 1) = 1
      /\ e # Title => TitlesOf(g, l + 1) = TitlesOf(f, l)
      /\ e # Title => LinesSince(g, l + 1) = LinesSince(f, l) + 1
  BY <1>1, <1>4, <1>5
<1> QED
  BY <1>2, <1>3, <1>6 DEF g, l

\* The next number counts round.
LEMMA NextResidue ==
  ASSUME NEW N \in Nat \ {0}, NEW y \in Nat
  PROVE  /\ y % N \in 0..N - 1
         /\ (y + 1) % N = IF y % N = N - 1 THEN 0 ELSE (y % N) + 1
<1>1. /\ y % N \in 0..N - 1 /\ y \div N \in Nat
      /\ y = N * (y \div N) + (y % N)
  OBVIOUS
<1>2. /\ (y + 1) % N \in 0..N - 1 /\ (y + 1) \div N \in Nat
      /\ y + 1 = N * ((y + 1) \div N) + ((y + 1) % N)
  OBVIOUS
<1> DEFINE q == y \div N
           r == y % N
           p == (y + 1) \div N
           s == (y + 1) % N
           d == p - q
<1>3. /\ q \in Nat /\ r \in Nat /\ r < N /\ y = N * q + r
      /\ p \in Nat /\ s \in Nat /\ s < N /\ y + 1 = N * p + s
  BY <1>1, <1>2
<1> HIDE DEF q, r, p, s
<1>4. d \in Int /\ N * p = N * q + N * d
  BY <1>3
<1> HIDE DEF d
<1>5. N * d = r + 1 - s /\ N * d \in Int
  BY <1>3, <1>4
<1>6. ASSUME d >= 2
      PROVE  FALSE
  <2>1. N * d >= N + N
    BY <1>4, <1>6
  <2> QED
    BY <1>3, <1>5, <2>1
<1>7. ASSUME d <= -1
      PROVE  FALSE
  <2>1. N * d <= -N
    BY <1>4, <1>7
  <2> QED
    BY <1>3, <1>5, <2>1
<1>8. d = 0 \/ d = 1
  BY <1>4, <1>6, <1>7
<1>9. N * d = 0 \/ N * d = N
  BY <1>8
<1>10. s = IF r = N - 1 THEN 0 ELSE r + 1
  BY <1>3, <1>5, <1>9
<1> QED
  BY <1>1, <1>10 DEF r, s

-----------------------------------------------------------------------------
(***************************************************************************)
(* What create_requests writes.                                            *)
(***************************************************************************)
\* The type whose title is the k-th, and the rows it gets.
TypeOf(k) == ((k - 1) % NumTypes) + 1
RowNum(t) == IF Len(sorted[t]) < SlotNum THEN Len(sorted[t]) ELSE SlotNum

\* Up to line l, all rows of the last type are there.
EndsType(f, l) == LinesSince(f, l) = RowNum(TypeOf(TitlesOf(f, l))) + 1

Row0 == [Nodes -> Nat]

\* Row s of type t.
RowOf(row, t, s) ==
  /\ s \in 1..RowNum(t)
  /\ row = Row(sorted[t][s])
  /\ \A n \in Nodes : row[n] # 0

\* Line l of the file is the row its place tells, or a title behind the rows
\* of the type before.
InPlace(f, l) ==
  /\ TitlesOf(f, l) > 0
  /\ f[l] = Title => l = 1 \/ EndsType(f, l - 1)
  /\ f[l] # Title => RowOf(f[l], TypeOf(TitlesOf(f, l)), LinesSince(f, l) - 1)

\* All types have their rows, as often as the program was run.
Complete ==
  /\ TitlesOf(file, Len(file)) % NumTypes = 0
  /\ file = <<>> \/ EndsType(file, Len(file))

\* The cursor is where the titles and rows written say, counted over all runs
\* of the program.
AtCursor ==
  LET titles == TitlesOf(file, Len(file))
  IN  /\ cursor[1] \in Types /\ cursor[2] \in Nat
      /\ cursor[2] = 0 => /\ titles % NumTypes = cursor[1] - 1
                          /\ file = <<>> \/ EndsType(file, Len(file))
      /\ cursor[2] > 0 => /\ titles > 0
                          /\ TypeOf(titles) = cursor[1]
                          /\ LinesSince(file, Len(file)) = cursor[2]
                          /\ cursor[2] <= RowNum(cursor[1]) + 1
      /\ ~Given("RequestFile") => cursor = <<1, 0>>

Written ==
  /\ sorted \in SortedFiles
  /\ file \in Seq({Title} \cup Row0)
  /\ \A l \in 1..Len(file) : InPlace(file, l)
  /\ pc = "generate" => AtCursor
  /\ pc \notin {"generate", "unnamed", "aborted"} => Complete

LEMMA TypeOfType ==
  ASSUME NEW k \in Nat \ {0}
  PROVE  TypeOf(k) \in Types
<1>1. NumTypes \in Nat \ {0} /\ k - 1 \in Nat
  BY LoadAssumption
<1>2. (k - 1) % NumTypes \in 0..NumTypes - 1
  BY <1>1, NextResidue
<1> QED
  BY <1>1, <1>2 DEF TypeOf, Types

LEMMA WrittenInit == Init => Written
<1> SUFFICES ASSUME Init PROVE Written
  OBVIOUS
<1>1. /\ pc = "generate" /\ sorted \in SortedFiles /\ file = <<>>
      /\ cursor = <<1, 0>>
  BY DEF Init, LoadInit
<1>2. TitlesOf(file, Len(file)) = 0
  <2>1. {k \in 1..0 : file[k] = Title} = {}
    OBVIOUS
  <2> QED
    BY <1>1, <2>1, FS_EmptySet DEF TitlesOf
<1>3. NumTypes \in Nat \ {0} /\ 0 % NumTypes = 0
  BY LoadAssumption
<1>4. AtCursor
  BY <1>1, <1>2, <1>3 DEF AtCursor, Types
<1> QED
  BY <1>1, <1>4 DEF Written

LEMMA GivenStays ==
  ASSUME config' = config, NEW key
  PROVE  Given(key)' = Given(key)
BY DEF Given

\* What depends on the totals.
LEMMA TotalsStay ==
  ASSUME sorted' = sorted
  PROVE  /\ \A t : RowNum(t)' = RowNum(t)
         /\ \A row, t, s : RowOf(row, t, s)' = RowOf(row, t, s)
         /\ \A f, l : EndsType(f, l)' = EndsType(f, l)
         /\ \A f, l : InPlace(f, l)' = InPlace(f, l)
BY DEF RowNum, RowOf, EndsType, InPlace

\* A line is in its place whatever comes behind it.
LEMMA PlaceKept ==
  ASSUME NEW f, NEW g, NEW l \in Nat, NEW k \in 1..l, g[k] = f[k],
         \A j \in 0..l : TitlesOf(g, j) = TitlesOf(f, j),
         \A j \in 0..l : LinesSince(g, j) = LinesSince(f, j),
         InPlace(f, k)
  PROVE  InPlace(g, k)
<1>1. k \in 0..l /\ k - 1 \in 0..l
  OBVIOUS
<1> QED
  BY <1>1 DEF InPlace, EndsType

\* The file stays as it is, and so do the totals, in all steps but two.
LEMMA WrittenStays ==
  ASSUME Written, file' = file, sorted' = sorted,
         pc' = "generate" => AtCursor',
         pc' \notin {"generate", "unnamed", "aborted"} => Complete
  PROVE  Written'
<1>1. Complete' = Complete
  BY TotalsStay DEF Complete
<1> QED
  BY <1>1, TotalsStay DEF Written

LEMMA WriteTitleStep ==
  ASSUME Written, WriteTitle
  PROVE  Written'
<1> DEFINE l == Len(file)
           titles == TitlesOf(file, l)
<1>1. /\ pc = "generate" /\ pc' = pc /\ cursor[2] = 0
      /\ file' = Append(file, Title) /\ cursor' = <<cursor[1], 1>>
      /\ sorted' = sorted /\ config' = config /\ Given("RequestFile")
  BY DEF WriteTitle, Generating, inputs
<1>2. /\ file \in Seq({Title} \cup Row0) /\ AtCursor
      /\ \A k \in 1..l : InPlace(file, k)
  BY <1>1 DEF Written
<1>3. /\ l \in Nat /\ Len(file') = l + 1 /\ file'[l + 1] = Title
      /\ file' \in Seq({Title} \cup Row0)
      /\ \A k \in 1..l : file'[k] = file[k]
  BY <1>1, <1>2
<1>4. /\ \A k \in 0..l : TitlesOf(file', k) = TitlesOf(file, k)
      /\ \A k \in 0..l : LinesSince(file', k) = LinesSince(file, k)
      /\ TitlesOf(file', l + 1) = titles + 1
      /\ LinesSince(file', l + 1) = 1
  BY <1>1, <1>2, OneMoreLine
<1>5. titles \in Nat /\ NumTypes \in Nat \ {0}
  BY <1>3, TitlesType, LoadAssumption
<1>6. /\ titles % NumTypes = cursor[1] - 1 /\ cursor[1] \in Types
      /\ l = 0 \/ EndsType(file, l)
  BY <1>1, <1>2 DEF AtCursor
<1>7. \A k \in 1..l + 1 : InPlace(file', k)
  <2> SUFFICES ASSUME NEW k \in 1..l + 1
               PROVE  InPlace(file', k)
    OBVIOUS
  <2>1. CASE k \in 1..l
    BY <1>2, <1>3, <1>4, <2>1, PlaceKept
  <2>2. CASE k = l + 1
    <3>1. l \in 0..l /\ k - 1 = l
      BY <1>3, <2>2
    <3>2. k = 1 \/ EndsType(file', k - 1)
      BY <1>4, <1>6, <2>2, <3>1 DEF EndsType
    <3>3. TitlesOf(file', k) > 0
      BY <1>4, <1>5, <2>2
    <3> HIDE DEF l
    <3> QED
      BY <1>3, <2>2, <3>2, <3>3 DEF InPlace
  <2> QED
    BY <1>3, <2>1, <2>2
<1>8. AtCursor'
  <2>1. (titles + 1 > 0) /\ (titles + 1) - 1 = titles
    BY <1>5
  <2>2. TypeOf(titles + 1) = cursor[1]
    BY <1>5, <1>6, <2>1 DEF Types, TypeOf
  <2>3. Given("RequestFile")'
    BY <1>1, GivenStays
  <2>4. 1 <= RowNum(cursor[1]) + 1
    <3>1. sorted[cursor[1]] \in Seq(Nat)
      BY <1>6, LoadAssumption DEF Written
    <3>2. RowNum(cursor[1]) \in Nat
      BY <3>1, LoadAssumption DEF RowNum
    <3> QED
      BY <3>2
  <2>5. RowNum(cursor[1])' = RowNum(cursor[1])
    BY <1>1 DEF RowNum
  <2> HIDE DEF l, titles
  <2> QED
    BY <1>1, <1>3, <1>4, <1>6, <2>1, <2>2, <2>3, <2>4, <2>5 DEF AtCursor
<1> HIDE DEF l, titles
<1> QED
  BY <1>1, <1>3, <1>7, <1>8, TotalsStay DEF Written

LEMMA WriteRowStep ==
  ASSUME Written, WriteRow
  PROVE  Written'
<1> DEFINE l == Len(file)
           titles == TitlesOf(file, l)
           t == cursor[1]
           s == cursor[2]
           row == Row(sorted[t][s])
<1>1. /\ pc = "generate" /\ pc' = pc /\ HasTotal
      /\ \A n \in Nodes : row[n] # 0
      /\ file' = Append(file, row) /\ cursor' = <<t, s + 1>>
      /\ sorted' = sorted /\ config' = config /\ Given("RequestFile")
  BY DEF WriteRow, Generating, inputs
<1>2. /\ file \in Seq({Title} \cup Row0) /\ AtCursor /\ sorted \in SortedFiles
      /\ \A k \in 1..l : InPlace(file, k)
  BY <1>1 DEF Written
<1>3. t \in Types /\ s \in Nat \ {0} /\ s <= Len(sorted[t]) /\ s <= SlotNum
  BY <1>1, <1>2, LoadAssumption DEF HasTotal, AtCursor
<1>4. sorted[t][s] \in Nat /\ sorted[t][s] \div NodeNum <= Len(Power)
  <2>1. sorted[t] \in Seq(Nat)
    BY <1>2, <1>3, LoadAssumption
  <2>2. s \in 1..Len(sorted[t])
    BY <1>3, <2>1
  <2> QED
    BY <1>2, <1>3, <2>1, <2>2, LoadAssumption
<1>5. \A n \in Nodes :
        IsZipf(sorted[t][s] \div NodeNum, Draws(NodeNum)[n], row[n])
  BY <1>1, <1>4, RowIsDraw
<1>6. row \in Row0 /\ row # Title
  <2>1. DOMAIN row = Nodes /\ 1 \in Nodes
    BY LoadAssumption DEF Row, Nodes
  <2>2. DOMAIN Title = {}
    BY DEF Title
  <2>3. \A n \in Nodes : row[n] \in Nat
    <3>1. NodeNum \in Nat \ {0}
      BY LoadAssumption
    <3>2. sorted[t][s] \div NodeNum \in Nat
      BY <1>4, <3>1
    <3> QED
      BY <1>5, <3>2 DEF IsZipf
  <2>4. row = [n \in Nodes |-> row[n]]
    BY DEF Row
  <2> HIDE DEF row
  <2> QED
    BY <2>1, <2>2, <2>3, <2>4 DEF Row0
<1>a. RowOf(row, t, s) /\ s + 1 <= RowNum(t) + 1
  BY <1>1, <1>2, <1>3, LoadAssumption DEF RowOf, RowNum
<1> HIDE DEF row, t, s
<1>7. /\ l \in Nat /\ Len(file') = l + 1 /\ file'[l + 1] = row
      /\ file' \in Seq({Title} \cup Row0)
      /\ \A k \in 1..l : file'[k] = file[k]
  BY <1>1, <1>2, <1>6
<1>8. /\ \A k \in 0..l : TitlesOf(file', k) = TitlesOf(file, k)
      /\ \A k \in 0..l : LinesSince(file', k) = LinesSince(file, k)
      /\ TitlesOf(file', l + 1) = titles
      /\ LinesSince(file', l + 1) = LinesSince(file, l) + 1
  BY <1>1, <1>2, <1>6, OneMoreLine
<1>9. titles > 0 /\ TypeOf(titles) = t /\ LinesSince(file, l) = s
  BY <1>2, <1>3 DEF AtCursor, t, s
<1>10. \A k \in 1..l + 1 : InPlace(file', k)
  <2> SUFFICES ASSUME NEW k \in 1..l + 1
               PROVE  InPlace(file', k)
    OBVIOUS
  <2>1. CASE k \in 1..l
    BY <1>2, <1>7, <1>8, <2>1, PlaceKept
  <2>2. CASE k = l + 1
    <3>1. TypeOf(TitlesOf(file', k)) = t /\ LinesSince(file', k) - 1 = s
      BY <1>3, <1>8, <1>9, <2>2
    <3>2. TitlesOf(file', k) > 0 /\ file'[k] = row
      BY <1>7, <1>8, <1>9, <2>2
    <3> HIDE DEF l
    <3> QED
      BY <1>6, <1>a, <3>1, <3>2 DEF InPlace
  <2> QED
    BY <1>7, <2>1, <2>2
<1>11. AtCursor'
  <2>1. Given("RequestFile")'
    BY <1>1, GivenStays
  <2>2. cursor'[1] = t /\ cursor'[2] = s + 1
    BY <1>1
  <2>3. RowNum(cursor[1])' = RowNum(t)
    BY <1>1, <2>2 DEF RowNum
  <2> HIDE DEF l, titles
  <2> QED
    BY <1>1, <1>3, <1>a, <1>7, <1>8, <1>9, <2>1, <2>2, <2>3 DEF AtCursor
<1> HIDE DEF l, titles
<1> QED
  BY <1>1, <1>2, <1>7, <1>10, <1>11, TotalsStay DEF Written

LEMMA NextTypeStep ==
  ASSUME Written, NextType
  PROVE  Written'
<1> DEFINE titles == TitlesOf(file, Len(file))
<1>1. /\ pc = "generate" /\ cursor[2] > 0 /\ ~HasTotal
      /\ cursor' = <<cursor[1] + 1, 0>>
      /\ pc' = IF cursor[1] = NumTypes THEN "generated" ELSE pc
      /\ sorted' = sorted /\ config' = config /\ file' = file
      /\ Given("RequestFile")
  BY DEF NextType, Generating, inputs
<1>2. AtCursor /\ file \in Seq({Title} \cup Row0) /\ sorted \in SortedFiles
  BY <1>1 DEF Written
<1>3. titles \in Nat
  BY <1>2, TitlesType
<1>4. /\ cursor[1] \in Types /\ cursor[2] \in Nat
      /\ titles > 0 /\ TypeOf(titles) = cursor[1]
      /\ LinesSince(file, Len(file)) = cursor[2]
      /\ cursor[2] <= RowNum(cursor[1]) + 1
  BY <1>1, <1>2 DEF AtCursor
<1>5. NumTypes \in Nat \ {0} /\ cursor[1] \in 1..NumTypes
  BY <1>4, LoadAssumption DEF Types
<1>a. EndsType(file, Len(file))
  <2>1. sorted[cursor[1]] \in Seq(Nat) /\ SlotNum \in Nat
    BY <1>2, <1>4, LoadAssumption
  <2>2. cursor[2] = RowNum(cursor[1]) + 1
    BY <1>1, <1>4, <2>1 DEF HasTotal, RowNum
  <2> QED
    BY <1>4, <2>2 DEF EndsType
<1> HIDE DEF titles
<1>6. titles % NumTypes = IF cursor[1] = NumTypes THEN 0 ELSE cursor[1]
  <2>1. titles - 1 \in Nat /\ (titles - 1) + 1 = titles
    BY <1>3, <1>4
  <2>2. /\ (titles - 1) % NumTypes \in 0..NumTypes - 1
        /\ ((titles - 1) + 1) % NumTypes
             = IF (titles - 1) % NumTypes = NumTypes - 1 THEN 0
               ELSE ((titles - 1) % NumTypes) + 1
    BY <1>5, <2>1, NextResidue
  <2> QED
    BY <1>4, <1>5, <2>1, <2>2 DEF TypeOf, titles
<1>7. Given("RequestFile")'
  BY <1>1, GivenStays
<1>8. CASE cursor[1] = NumTypes
  <2>1. Complete
    BY <1>6, <1>8, <1>a DEF Complete, titles
  <2> QED
    BY <1>1, <1>8, <2>1, WrittenStays
<1>9. CASE cursor[1] # NumTypes
  <2>1. cursor[1] + 1 \in Types /\ (cursor[1] + 1) - 1 = cursor[1]
    BY <1>5, <1>9 DEF Types
  <2>2. EndsType(file, Len(file))'
    BY <1>1, <1>a DEF EndsType, RowNum
  <2>3. AtCursor'
    BY <1>1, <1>6, <1>7, <1>9, <2>1, <2>2 DEF AtCursor, titles
  <2> QED
    BY <1>1, <1>9, <2>3, WrittenStays
<1> QED
  BY <1>8, <1>9

\* NoTotals ends a run that has written nothing.
LEMMA NoTotalsStep ==
  ASSUME Written, NoTotals
  PROVE  Written'
<1>1. /\ pc = "generate" /\ pc' = "generated" /\ ~Given("RequestFile")
      /\ file' = file /\ sorted' = sorted
  BY DEF NoTotals, inputs
<1>2. AtCursor /\ cursor = <<1, 0>>
  BY <1>1 DEF Written, AtCursor
<1>3. Complete
  BY <1>2 DEF AtCursor, Complete
<1> QED
  BY <1>1, <1>3, WrittenStays

LEMMA RunAgainStep ==
  ASSUME Written, RunAgain
  PROVE  Written'
<1>1. /\ pc = "generated" /\ pc' = "generate" /\ cursor' = <<1, 0>>
      /\ file' = file /\ sorted' = sorted
  BY DEF RunAgain
<1>2. Complete
  BY <1>1 DEF Written
<1>3. 1 \in Types /\ 1 - 1 = 0
  BY LoadAssumption DEF Types
<1>4. EndsType(file, Len(file))' = EndsType(file, Len(file))
  BY <1>1, TotalsStay
<1>5. AtCursor'
  BY <1>1, <1>2, <1>3, <1>4 DEF AtCursor, Complete
<1> QED
  BY <1>1, <1>5, WrittenStays

\* The other steps leave the file alone, and lead out of the generator or have
\* left it before.
LEMMA OtherLoad ==
  ASSUME \/ Unnamed \/ DividesByZero \/ AssertionFails \/ RunScheduler
         \/ ReadTitle \/ ReadRow \/ EndOfFile
         \/ CreateRequestInSlot \/ CreateNextType \/ Loaded
  PROVE  /\ file' = file /\ sorted' = sorted /\ pc' # "generate"
         /\ pc' \in {"unnamed", "aborted"} \/ pc \in {"generated", "read", "create"}
BY DEF Unnamed, DividesByZero, AssertionFails, RunScheduler, ReadTitle, ReadRow,
       EndOfFile, CreateRequestInSlot, CreateNextType, Loaded, inputs

LEMMA WrittenNext ==
  ASSUME Written, [Next]_vars
  PROVE  Written'
<1> DEFINE Later == {"deploy", "run", "over"}
<1>1. CASE Load
  <2>1. LoadNext
    BY <1>1 DEF Load
  <2>2. CASE \/ Unnamed \/ DividesByZero \/ AssertionFails \/ RunScheduler
             \/ ReadTitle \/ ReadRow \/ EndOfFile
             \/ CreateRequestInSlot \/ CreateNextType \/ Loaded
    <3>1. /\ file' = file /\ sorted' = sorted /\ pc' # "generate"
          /\ pc' \in {"unnamed", "aborted"} \/ pc \in {"generated", "read", "create"}
      BY <2>2, OtherLoad
    <3>2. pc' \notin {"unnamed", "aborted"} => Complete
      BY <3>1 DEF Written
    <3> QED
      BY <3>1, <3>2, WrittenStays
  <2> QED
    BY <2>1, <2>2, WriteTitleStep, WriteRowStep, NextTypeStep, NoTotalsStep,
       RunAgainStep DEF LoadNext
<1>2. CASE DeployRequest \/ GenTraffic
  <2>1. file' = file /\ sorted' = sorted /\ pc \in Later /\ pc' \in Later
    BY <1>2 DEF DeployRequest, GenTraffic, loadVars, inputs
  <2> QED
    BY <2>1, WrittenStays DEF Written
<1>3. CASE \E id \in Ids : NetStep(id)
  <2>1. file' = file /\ sorted' = sorted /\ pc \in Later /\ pc' \in Later
    BY <1>3 DEF NetStep, StartApplication, SendPacket, StopApplication,
                HandleAccept, HandleRead, Running, loadVars, inputs
  <2> QED
    BY <2>1, WrittenStays DEF Written
<1>4. CASE Tick \/ SimulatorStop
  <2>1. file' = file /\ sorted' = sorted /\ pc \in Later /\ pc' \in Later
    BY <1>4 DEF Tick, SimulatorStop, Running, loadVars, inputs
  <2> QED
    BY <2>1, WrittenStays DEF Written
<1>5. CASE UNCHANGED vars
  <2>1. /\ file' = file /\ sorted' = sorted /\ pc' = pc /\ config' = config
        /\ cursor' = cursor
    BY <1>5 DEF vars, loadVars, inputs
  <2>2. AtCursor' <=> AtCursor
    BY <2>1, GivenStays, TotalsStay DEF AtCursor
  <2> QED
    BY <2>1, <2>2, WrittenStays DEF Written
<1> QED
  BY <1>1, <1>2, <1>3, <1>4, <1>5, Steps

LEMMA WrittenAlways == Spec => []Written
<1>1. Init => Written
  BY WrittenInit
<1>2. Written /\ [Next]_vars => Written'
  BY WrittenNext
<1> QED
  BY <1>1, <1>2, PTL DEF Spec

\* All rows create_requests writes, in any run of it and whatever the totals,
\* hold the values the draws of their nodes stand for: the binary search of
\* zipf.cc finds the value whose share holds the draw.
THEOREM FileHoldsDraws == Spec => []RowsAreDraws
<1>1. Written => RowsAreDraws
  <2> SUFFICES ASSUME Written, NEW l \in 1..Len(file), file[l] # Title, NEW n \in Nodes
               PROVE  IsZipf(sorted[TypeOf(Titles(l))]
                               [LinesSince(file, l) - 1] \div NodeNum,
                             Draws(NodeNum)[n], file[l][n])
    <3>1. \A k : Titles(k) = TitlesOf(file, k)
      BY DEF Titles, TitlesOf
    <3> QED
      BY <3>1 DEF RowsAreDraws, LinesSince, TypeOf
  <2> DEFINE t == TypeOf(TitlesOf(file, l))
             s == LinesSince(file, l) - 1
  <2>1. Titles(l) = TitlesOf(file, l)
    BY DEF Titles, TitlesOf
  <2>2. TitlesOf(file, l) > 0 /\ RowOf(file[l], t, s)
    BY DEF Written, InPlace
  <2>3. t \in Types
    BY <2>2, TitlesType, TypeOfType
  <2> HIDE DEF t, s
  <2>4. s \in 1..RowNum(t) /\ file[l] = Row(sorted[t][s]) /\ Row(sorted[t][s])[n] # 0
    BY <2>2 DEF RowOf
  <2>5. sorted[t] \in Seq(Nat) /\ s \in 1..Len(sorted[t])
    BY <2>3, <2>4, LoadAssumption DEF Written, RowNum
  <2>6. sorted[t][s] \in Nat /\ sorted[t][s] \div NodeNum <= Len(Power)
    BY <2>3, <2>5, LoadAssumption DEF Written
  <2>7. IsZipf(sorted[t][s] \div NodeNum, Draws(NodeNum)[n], Row(sorted[t][s])[n])
    BY <2>4, <2>6, RowIsDraw
  <2> QED
    BY <2>1, <2>4, <2>7 DEF t, s
<1> QED
  BY <1>1, WrittenAlways, PTL

-----------------------------------------------------------------------------
(***************************************************************************)
(* Counting in sequences.                                                  *)
(***************************************************************************)
LEMMA CountSame ==
  ASSUME NEW q, NEW S, NEW T, \A i \in 1..Len(q) : q[i] \in S <=> q[i] \in T
  PROVE  Count(q, S) = Count(q, T)
<1>1. {i \in 1..Len(q) : q[i] \in S} = {i \in 1..Len(q) : q[i] \in T}
  OBVIOUS
<1> QED
  BY <1>1 DEF Count

LEMMA CountNone ==
  ASSUME NEW q, NEW S, \A i \in 1..Len(q) : q[i] \notin S
  PROVE  Count(q, S) = 0
<1>1. {i \in 1..Len(q) : q[i] \in S} = {}
  OBVIOUS
<1> QED
  BY <1>1, FS_EmptySet DEF Count

\* Where the elements with a property make an interval.
LEMMA CountInterval ==
  ASSUME NEW q, NEW S, NEW a \in Nat, NEW b \in Nat, a <= b, b <= Len(q),
         Len(q) \in Nat,
         \A i \in 1..Len(q) : q[i] \in S <=> a < i /\ i <= b
  PROVE  Count(q, S) = b - a
<1>1. {i \in 1..Len(q) : q[i] \in S} = a + 1..b
  OBVIOUS
<1>2. Cardinality(a + 1..b) = b - a
  <2>1. Cardinality(a + 1..b) = IF a + 1 > b THEN 0 ELSE b - (a + 1) + 1
    BY FS_Interval
  <2> QED
    BY <2>1
<1> QED
  BY <1>1, <1>2 DEF Count

-----------------------------------------------------------------------------
(***************************************************************************)
(* What createRequestInSlot makes of a row.                                *)
(***************************************************************************)
LEMMA ShareType ==
  ASSUME NEW row \in Row0
  PROVE  \A i \in 1..NodeNum : Share(row)[i] \in Nat
BY LoadAssumption DEF Share, Row0, Nodes

LEMMA BeforeIs ==
  ASSUME NEW row \in Row0, NEW n \in 1..NodeNum + 1
  PROVE  Before(row, n) = SumTo(Share(row), n - 1)
<1> DEFINE g == Share(row)
           f == CHOOSE h : AddsUp(h, g, NodeNum)
           S == [i \in 0..NodeNum |-> {SumTo(g, i)}]
<1>1. NodeNum \in Nat
  BY LoadAssumption
<1>2. AddsUp(f, g, NodeNum)
  BY <1>1, AddsUpExists
<1>3. Before(row, n) = f[n - 1]
  BY DEF Before, AddsUp
<1>4. /\ f[0] = 0
      /\ \A i \in 1..NodeNum : f[i] = f[i - 1] + g[i]
  <2> HIDE DEF f, g
  <2>1. f = [i \in 0..NodeNum |-> IF i = 0 THEN 0 ELSE f[i - 1] + g[i]]
    BY <1>2 DEF AddsUp
  <2> QED
    BY <1>1, <2>1
<1> HIDE DEF f, g
<1>5. f[0] \in S[0]
  BY <1>1, <1>4, Sums
<1>6. ASSUME NEW i \in 1..NodeNum, f[i - 1] \in S[i - 1]
      PROVE  f[i] \in S[i]
  <2>1. i - 1 \in Nat /\ (i - 1) + 1 = i /\ i - 1 \in 0..NodeNum /\ i \in 0..NodeNum
    BY <1>1
  <2>2. SumTo(g, (i - 1) + 1) = SumTo(g, i - 1) + g[(i - 1) + 1]
    BY <2>1, Sums
  <2>3. f[i - 1] = SumTo(g, i - 1) /\ f[i] = f[i - 1] + g[i]
    BY <1>4, <1>6, <2>1
  <2> QED
    BY <2>1, <2>2, <2>3
<1> HIDE DEF S
<1>7. \A i \in 0..NodeNum : f[i] \in S[i]
  BY <1>1, <1>5, <1>6, StepsKeep
<1>8. n - 1 \in 0..NodeNum
  BY <1>1
<1> QED
  BY <1>3, <1>7, <1>8 DEF S, g

\* All shares of a row.
Part(row) == SumTo(Share(row), NodeNum)

LEMMA Befores ==
  ASSUME NEW row \in Row0
  PROVE  /\ Before(row, 1) = 0
         /\ Before(row, NodeNum + 1) = Part(row)
         /\ Part(row) \in Nat
         /\ \A n \in 1..NodeNum + 1 : Before(row, n) \in Nat
         /\ \A n \in Nodes : Before(row, n + 1) = Before(row, n) + Share(row)[n]
         /\ \A m, n \in 1..NodeNum + 1 : m <= n => Before(row, m) <= Before(row, n)
<1> DEFINE g == Share(row)
<1>1. NodeNum \in Nat /\ \A i \in 1..NodeNum : g[i] \in Nat
  BY LoadAssumption, ShareType
<1>2. \A n \in 1..NodeNum + 1 : Before(row, n) = SumTo(g, n - 1)
  BY BeforeIs
<1> HIDE DEF g
<1>3. \A i \in 0..NodeNum : SumTo(g, i) \in Nat
  BY <1>1, SumsNatural
<1>4. \A n \in 1..NodeNum + 1 : n - 1 \in 0..NodeNum
  BY <1>1
<1>5. Before(row, 1) = 0
  BY <1>1, <1>2, Sums
<1>6. Before(row, NodeNum + 1) = Part(row) /\ Part(row) \in Nat
  BY <1>1, <1>2, <1>3 DEF Part, g
<1>7. ASSUME NEW n \in Nodes
      PROVE  Before(row, n + 1) = Before(row, n) + g[n]
  <2>1. n - 1 \in Nat /\ (n - 1) + 1 = n /\ n \in 1..NodeNum + 1 /\ n + 1 \in 1..NodeNum + 1
        /\ (n + 1) - 1 = n
    BY <1>1 DEF Nodes
  <2>2. SumTo(g, (n - 1) + 1) = SumTo(g, n - 1) + g[(n - 1) + 1]
    BY <2>1, Sums
  <2>3. Before(row, n) = SumTo(g, n - 1) /\ Before(row, n + 1) = SumTo(g, (n + 1) - 1)
    BY <1>2, <2>1
  <2> QED
    BY <2>1, <2>2, <2>3
<1>8. ASSUME NEW m \in 1..NodeNum + 1, NEW n \in 1..NodeNum + 1, m <= n
      PROVE  Before(row, m) <= Before(row, n)
  <2>1. m - 1 \in 0..NodeNum /\ n - 1 \in (m - 1)..NodeNum
    BY <1>1, <1>8
  <2>2. SumTo(g, m - 1) <= SumTo(g, n - 1)
    BY <1>1, <2>1, SumGrows
  <2> QED
    BY <1>2, <2>2
<1> QED
  BY <1>2, <1>3, <1>4, <1>5, <1>6, <1>7, <1>8 DEF g

\* Every request of a row is one node's.
LEMMA OwnerExists ==
  ASSUME NEW row \in Row0, NEW i \in 1..Part(row)
  PROVE  \E n \in Nodes : Before(row, n) < i /\ i <= Before(row, n + 1)
<1>1. NodeNum \in Nat \ {0}
  BY LoadAssumption
<1> DEFINE S == {n \in 1..NodeNum + 1 : i <= Before(row, n)}
<1>2. NodeNum + 1 \in S /\ S \in SUBSET Nat /\ i \in Nat /\ 1 <= i
  BY <1>1, Befores
<1>3. PICK n \in S : \A m \in S : n <= m
  BY <1>2, Least
<1>4. n # 1
  BY <1>2, Befores
<1>5. n \in 2..NodeNum + 1 /\ n - 1 \notin S
  BY <1>1, <1>3, <1>4
<1>6. n - 1 \in 1..NodeNum + 1 /\ n - 1 \in Nodes /\ (n - 1) + 1 = n
  BY <1>1, <1>5 DEF Nodes
<1>7. Before(row, n - 1) \in Nat /\ ~(i <= Before(row, n - 1))
  BY <1>5, <1>6, Befores
<1> QED
  BY <1>2, <1>3, <1>6, <1>7

\* The requests for a type and node in a slot.
Asked(t, s, n) == {Request(id, t, n, s) : id \in Nat}

\* For the nodes of a type, or not initialised.
Makes(new, t, s, row) ==
  /\ Len(new) = Part(row)
  /\ \A X : (\A i \in 1..Part(row) : new[i] \in X) => new \in Seq(X)
  /\ ~Known(t) => \A i \in 1..Part(row) : new[i] = Uninitialised
  /\ Known(t) => \A i \in 1..Part(row) : \E n \in Nodes :
                   new[i] = Request(reqCount + i - 1, t, n, s)
  /\ Known(t) => \A n \in Nodes : Count(new, Asked(t, s, n)) = Share(row)[n]

LEMMA CreatedIs ==
  ASSUME NEW row \in Row0, NEW t \in Nat, NEW s \in Nat, reqCount \in Nat,
         NEW new, new = Created(t, s, row)
  PROVE  Makes(new, t, s, row)
<1> DEFINE l == Part(row)
           Own(i, n) == Before(row, n) < i /\ i <= Before(row, n + 1)
           owner(i) == CHOOSE n \in Nodes : Own(i, n)
<1>1. l \in Nat /\ Before(row, NodeNum + 1) = l
  BY Befores
<1>2. new = [i \in 1..l |-> IF Known(t) THEN Request(reqCount + i - 1, t, owner(i), s)
                                        ELSE Uninitialised]
  BY <1>1 DEF Created
<1>3. ASSUME NEW i \in 1..l
      PROVE  owner(i) \in Nodes /\ Own(i, owner(i))
  BY OwnerExists
<1> HIDE DEF owner, l
<1>4. Len(new) = l /\ \A X : (\A i \in 1..l : new[i] \in X) => new \in Seq(X)
  <2> DEFINE val(i) == IF Known(t) THEN Request(reqCount + i - 1, t, owner(i), s)
                                   ELSE Uninitialised
  <2>1. new = [i \in 1..l |-> val(i)]
    BY <1>2
  <2> HIDE DEF val
  <2>2. Len(new) = l
    BY <1>1, <2>1
  <2>3. new = [i \in 1..l |-> new[i]]
    BY <2>1
  <2>4. ASSUME NEW X, \A i \in 1..l : new[i] \in X
        PROVE  new \in Seq(X)
    BY <1>1, <2>3, <2>4
  <2> QED
    BY <2>2, <2>4
<1>5. ASSUME ~Known(t)
      PROVE  \A i \in 1..l : new[i] = Uninitialised
  BY <1>2, <1>5
<1>6. ASSUME Known(t)
      PROVE  \A i \in 1..l : new[i] = Request(reqCount + i - 1, t, owner(i), s)
  BY <1>2, <1>6
<1>7. ASSUME Known(t), NEW n \in Nodes
      PROVE  Count(new, Asked(t, s, n)) = Share(row)[n]
  <2>1. /\ n \in 1..NodeNum + 1 /\ n + 1 \in 1..NodeNum + 1
        /\ NodeNum + 1 \in 1..NodeNum + 1 /\ NodeNum \in Nat /\ n \in Nat
    BY LoadAssumption DEF Nodes
  <2> DEFINE a == Before(row, n)
             b == Before(row, n + 1)
  <2>2. /\ a \in Nat /\ b \in Nat /\ a <= b /\ b <= l
        /\ b = a + Share(row)[n] /\ Share(row)[n] \in Nat
    <3>1. Share(row)[n] \in Nat
      BY ShareType DEF Nodes
    <3> QED
      BY <1>1, <2>1, <3>1, Befores
  <2>3. ASSUME NEW i \in 1..l
        PROVE  new[i] \in Asked(t, s, n) <=> a < i /\ i <= b
    <3> DEFINE m == owner(i)
    <3>1. m \in Nodes /\ Own(i, m)
      BY <1>3
    <3>2. m \in 1..NodeNum + 1 /\ m + 1 \in 1..NodeNum + 1 /\ m \in Nat
      BY <3>1, LoadAssumption DEF Nodes
    <3>3. new[i] = Request(reqCount + i - 1, t, m, s)
      BY <1>6, <1>7
    <3> HIDE DEF m
    <3>4. new[i] \in Asked(t, s, n) <=> m = n
      <4>1. reqCount + i - 1 \in Nat
        BY <1>1
      <4>2. ASSUME new[i] \in Asked(t, s, n)
            PROVE  m = n
        <5>1. PICK id \in Nat : new[i] = Request(id, t, n, s)
          BY <4>2 DEF Asked
        <5>2. Request(id, t, n, s).ingress = n
          BY DEF Request
        <5>3. Request(reqCount + i - 1, t, m, s).ingress = m
          BY DEF Request
        <5> QED
          BY <3>3, <5>1, <5>2, <5>3
      <4> QED
        BY <3>3, <4>1, <4>2 DEF Asked
    <3>5. ASSUME a < i, i <= b, m # n
          PROVE  FALSE
      <4>1. m + 1 <= n \/ n + 1 <= m
        BY <2>1, <3>2, <3>5
      <4>2. /\ Before(row, m) \in Nat /\ Before(row, m + 1) \in Nat /\ i \in Nat
            /\ m + 1 <= n => Before(row, m + 1) <= a
            /\ n + 1 <= m => b <= Before(row, m)
        BY <1>1, <2>1, <3>2, Befores
      <4> QED
        BY <2>2, <3>1, <3>5, <4>1, <4>2
    <3> QED
      BY <3>1, <3>4, <3>5
  <2> HIDE DEF a, b
  <2>4. Count(new, Asked(t, s, n)) = b - a
    BY <1>1, <1>4, <2>2, <2>3, CountInterval
  <2> QED
    BY <2>2, <2>4
<1>8. Known(t) => \A i \in 1..l : \E n \in Nodes : new[i] = Request(reqCount + i - 1, t, n, s)
  BY <1>3, <1>6
<1> QED
  BY <1>4, <1>5, <1>7, <1>8 DEF Makes, l

-----------------------------------------------------------------------------
(***************************************************************************)
(* What readRequests reads.                                                *)
(***************************************************************************)
\* The rows of a type.
Rows(t) == [s \in 1..RowNum(t) |-> Row(sorted[t][s])]

\* These types have been read.
TypesRead(num) ==
  /\ rontt \in Seq(Seq(Row0)) /\ Len(rontt) = num
  /\ \A k \in 1..num : rontt[k] = Rows(TypeOf(k))

NothingRead == line = 0 /\ funcType = 0 /\ ront = <<>> /\ rontt = <<>>

\* The rows of all types before, and those of the last type up to the line.
Reading ==
  /\ line \in 0..Len(file) /\ funcType = TitlesOf(file, line)
  /\ funcType = 0 => NothingRead
  /\ funcType > 0 =>
       /\ TypesRead(funcType - 1)
       /\ ront \in Seq(Row0)
       /\ Len(ront) = LinesSince(file, line) - 1
       /\ \A s \in 1..Len(ront) : ront[s] = Row(sorted[TypeOf(funcType)][s])

\* Without a title one type with no rows is added at the end.
AllRead ==
  /\ line \in 0..Len(file) /\ funcType \in Nat
  /\ IF TitlesOf(file, Len(file)) = 0 THEN rontt = <<<<>>>>
     ELSE TypesRead(TitlesOf(file, Len(file)))

Early == {"generate", "unnamed", "aborted", "generated"}
Late == {"deploy", "undefined", "run", "over"}

ReadOK ==
  /\ pc \in Early \cup {"read", "create"} \cup Late
  /\ pc \in Early => NothingRead
  /\ pc = "read" => Reading
  /\ pc \in {"create"} \cup Late => AllRead

\* All rows of a type are known by their number.
LEMMA RowsComplete ==
  ASSUME NEW t, NEW q \in Seq(Row0), Len(q) = RowNum(t),
         \A s \in 1..Len(q) : q[s] = Row(sorted[t][s])
  PROVE  q = Rows(t)
<1>1. q = [s \in 1..Len(q) |-> q[s]]
  OBVIOUS
<1> QED
  BY <1>1 DEF Rows

\* One more type.
LEMMA TypeAdded ==
  ASSUME NEW num \in Nat, TypesRead(num), ront \in Seq(Row0),
         ront = Rows(TypeOf(num + 1)), rontt' = Append(rontt, ront),
         sorted' = sorted
  PROVE  TypesRead(num + 1)'
<1>1. /\ rontt \in Seq(Seq(Row0)) /\ Len(rontt) = num
      /\ \A k \in 1..num : rontt[k] = Rows(TypeOf(k))
  BY DEF TypesRead
<1>2. /\ rontt' \in Seq(Seq(Row0)) /\ Len(rontt') = num + 1
      /\ rontt'[num + 1] = ront /\ \A k \in 1..num : rontt'[k] = rontt[k]
  BY <1>1
<1>3. \A k \in 1..num + 1 : rontt'[k] = Rows(TypeOf(k))
  BY <1>1, <1>2
<1>4. \A k : Rows(TypeOf(k))' = Rows(TypeOf(k))
  BY DEF Rows, RowNum, TypeOf
<1> QED
  BY <1>2, <1>3, <1>4 DEF TypesRead

LEMMA ReadTitleStep ==
  ASSUME Written, Reading, ReadTitle
  PROVE  Reading'
<1>1. /\ pc = "read" /\ line < Len(file) /\ file[line + 1] = Title
      /\ line' = line + 1 /\ funcType' = funcType + 1
      /\ file' = file /\ sorted' = sorted
  BY DEF ReadTitle, inputs
<1>2. /\ line \in Nat /\ Len(file) \in Nat /\ line + 1 \in 1..Len(file)
      /\ funcType = TitlesOf(file, line)
  BY <1>1 DEF Reading, Written
<1>3. funcType \in Nat
  BY <1>2, TitlesType
<1>4. TitlesOf(file, line + 1) = funcType + 1 /\ LinesSince(file, line + 1) = 1
  BY <1>1, <1>2, NextLine
<1>5. /\ line' \in 0..Len(file') /\ funcType' = TitlesOf(file', line')
      /\ LinesSince(file', line') = 1 /\ funcType' > 0
  BY <1>1, <1>2, <1>3, <1>4
<1>6. CASE funcType = 0
  <2>1. ront' = <<>> /\ rontt' = <<>>
    BY <1>6 DEF ReadTitle, Reading, NothingRead
  <2>2. TypesRead(0)'
    BY <2>1 DEF TypesRead
  <2>3. funcType' - 1 = 0
    BY <1>1, <1>6
  <2>4. TypesRead(funcType - 1)'
    BY <2>2, <2>3
  <2> QED
    BY <1>5, <2>1, <2>4 DEF Reading
<1>7. CASE funcType # 0
  <2>1. /\ TypesRead(funcType - 1)
        /\ ront \in Seq(Row0)
        /\ Len(ront) = LinesSince(file, line) - 1
        /\ \A s \in 1..Len(ront) : ront[s] = Row(sorted[TypeOf(funcType)][s])
        /\ rontt' = Append(rontt, ront) /\ ront' = <<>>
    BY <1>3, <1>7 DEF Reading, ReadTitle
  <2>2. line # 0
    <3>1. {k \in 1..0 : file[k] = Title} = {}
      OBVIOUS
    <3>2. TitlesOf(file, 0) = 0
      BY <3>1, FS_EmptySet DEF TitlesOf
    <3> QED
      BY <1>2, <1>7, <3>2
  <2>3. EndsType(file, line)
    <3>1. InPlace(file, line + 1)
      BY <1>2 DEF Written
    <3>2. line + 1 # 1 /\ (line + 1) - 1 = line
      BY <1>2, <2>2
    <3> QED
      BY <1>1, <3>1, <3>2 DEF InPlace
  <2>4. Len(ront) = RowNum(TypeOf(funcType))
    <3>1. LinesSince(file, line) = RowNum(TypeOf(funcType)) + 1
      BY <1>2, <2>3 DEF EndsType
    <3>2. RowNum(TypeOf(funcType)) \in Nat
      <4>1. TypeOf(funcType) \in Types
        BY <1>3, <1>7, TypeOfType
      <4> QED
        BY <4>1, LoadAssumption DEF RowNum, Written
    <3> QED
      BY <2>1, <3>1, <3>2
  <2>5. ront = Rows(TypeOf(funcType))
    BY <2>1, <2>4, RowsComplete
  <2>6. PICK num \in Nat : num + 1 = funcType
    <3>1. funcType - 1 \in Nat /\ (funcType - 1) + 1 = funcType
      BY <1>3, <1>7
    <3> QED
      BY <3>1
  <2>7. TypesRead(num) /\ ront = Rows(TypeOf(num + 1))
    <3>1. funcType - 1 = num
      BY <2>6
    <3> QED
      BY <2>1, <2>5, <2>6, <3>1
  <2>8. TypesRead(num + 1)'
    BY <1>1, <2>1, <2>7, TypeAdded
  <2>9. funcType' - 1 = num + 1
    BY <1>1, <2>6
  <2>10. TypesRead(funcType - 1)'
    BY <2>8, <2>9 DEF TypesRead
  <2> QED
    BY <1>5, <2>1, <2>10 DEF Reading
<1> QED
  BY <1>6, <1>7

LEMMA ReadRowStep ==
  ASSUME Written, Reading, ReadRow
  PROVE  Reading'
<1>1. /\ line < Len(file) /\ file[line + 1] # Title
      /\ line' = line + 1 /\ funcType' = funcType
      /\ ront' = Append(ront, file[line + 1]) /\ rontt' = rontt
      /\ file' = file /\ sorted' = sorted
  BY DEF ReadRow, inputs
<1>2. /\ line \in Nat /\ Len(file) \in Nat /\ line + 1 \in 1..Len(file)
      /\ funcType = TitlesOf(file, line)
      /\ file[line + 1] \in {Title} \cup Row0
  BY <1>1 DEF Reading, Written
<1>3. /\ TitlesOf(file, line + 1) = funcType
      /\ LinesSince(file, line + 1) = LinesSince(file, line) + 1
  BY <1>1, <1>2, NextLine
<1>4. funcType > 0 /\ RowOf(file[line + 1], TypeOf(funcType),
                            LinesSince(file, line + 1) - 1)
  BY <1>1, <1>2, <1>3 DEF Written, InPlace
<1>5. /\ TypesRead(funcType - 1)
      /\ ront \in Seq(Row0)
      /\ Len(ront) = LinesSince(file, line) - 1
      /\ \A s \in 1..Len(ront) : ront[s] = Row(sorted[TypeOf(funcType)][s])
  BY <1>4 DEF Reading
<1>6. LinesSince(file, line) \in Nat
  <2>1. IsFiniteSet(1..line)
    BY <1>2, FS_Interval
  <2>2. IsFiniteSet({k \in 1..line : TitlesOf(file, k) = TitlesOf(file, line)})
    BY <2>1, FS_Subset
  <2> QED
    BY <2>2, FS_CardinalityType DEF LinesSince
<1>7. file[line + 1] \in Row0
      /\ file[line + 1] = Row(sorted[TypeOf(funcType)][Len(ront) + 1])
  <2>1. LinesSince(file, line + 1) - 1 = Len(ront) + 1
    BY <1>3, <1>5, <1>6
  <2> QED
    BY <1>1, <1>2, <1>4, <2>1 DEF RowOf
<1>8. /\ ront' \in Seq(Row0)
      /\ Len(ront') = Len(ront) + 1
      /\ \A s \in 1..Len(ront') : ront'[s] = Row(sorted[TypeOf(funcType)][s])
  BY <1>1, <1>5, <1>7
<1>9. TypesRead(funcType - 1)'
  <2>1. \A k : Rows(TypeOf(k))' = Rows(TypeOf(k))
    BY <1>1 DEF Rows, RowNum, TypeOf
  <2> QED
    BY <1>1, <1>5, <2>1 DEF TypesRead
<1>10. Len(ront') = LinesSince(file', line') - 1
  BY <1>1, <1>3, <1>5, <1>6, <1>8
<1>11. line' \in 0..Len(file') /\ funcType' = TitlesOf(file', line')
  BY <1>1, <1>2, <1>3
<1>12. \A s \in 1..Len(ront') : ront'[s] = Row(sorted'[TypeOf(funcType')][s])
  BY <1>1, <1>8
<1>13. TypeOf(funcType)' = TypeOf(funcType')
  BY DEF TypeOf
<1>14. \A s : Row(sorted[TypeOf(funcType)][s])' = Row(sorted'[TypeOf(funcType')][s])
  BY <1>13 DEF Row
<1> QED
  BY <1>1, <1>4, <1>8, <1>9, <1>10, <1>11, <1>12, <1>14 DEF Reading

LEMMA EndOfFileStep ==
  ASSUME Written, Complete, Reading, EndOfFile
  PROVE  AllRead'
<1>1. /\ line = Len(file) /\ rontt' = Append(rontt, ront)
      /\ line' = line /\ funcType' = funcType /\ file' = file /\ sorted' = sorted
  BY DEF EndOfFile, inputs
<1>2. line \in Nat /\ funcType = TitlesOf(file, line) /\ funcType \in Nat
  BY <1>1, TitlesType DEF Reading, Written
<1>3. line' \in 0..Len(file') /\ funcType' \in Nat
  BY <1>1, <1>2
<1>4. TitlesOf(file, Len(file))' = funcType
  BY <1>1, <1>2 DEF TitlesOf
<1>5. CASE funcType = 0
  <2>1. ront = <<>> /\ rontt = <<>>
    BY <1>5 DEF Reading, NothingRead
  <2>2. rontt' = <<<<>>>>
    BY <1>1, <2>1
  <2> QED
    BY <1>3, <1>4, <1>5, <2>2 DEF AllRead
<1>6. CASE funcType # 0
  <2>1. /\ TypesRead(funcType - 1)
        /\ ront \in Seq(Row0)
        /\ Len(ront) = LinesSince(file, line) - 1
        /\ \A s \in 1..Len(ront) : ront[s] = Row(sorted[TypeOf(funcType)][s])
    BY <1>2, <1>6 DEF Reading
  <2>2. file # <<>>
    <3>1. {k \in 1..0 : file[k] = Title} = {}
      OBVIOUS
    <3>2. TitlesOf(file, 0) = 0
      BY <3>1, FS_EmptySet DEF TitlesOf
    <3> QED
      BY <1>1, <1>2, <1>6, <3>2
  <2>3. LinesSince(file, line) = RowNum(TypeOf(funcType)) + 1
    BY <1>1, <1>2, <2>2 DEF Complete, EndsType
  <2>4. RowNum(TypeOf(funcType)) \in Nat
    <3>1. TypeOf(funcType) \in Types
      BY <1>2, <1>6, TypeOfType
    <3> QED
      BY <3>1, LoadAssumption DEF RowNum, Written
  <2>5. ront = Rows(TypeOf(funcType))
    BY <2>1, <2>3, <2>4, RowsComplete
  <2>6. PICK num \in Nat : num + 1 = funcType
    <3>1. funcType - 1 \in Nat /\ (funcType - 1) + 1 = funcType
      BY <1>2, <1>6
    <3> QED
      BY <3>1
  <2>7. TypesRead(num) /\ ront = Rows(TypeOf(num + 1))
    <3>1. funcType - 1 = num
      BY <2>6
    <3> QED
      BY <2>1, <2>5, <2>6, <3>1
  <2>8. TypesRead(num + 1)'
    BY <1>1, <2>1, <2>7, TypeAdded
  <2>9. TypesRead(TitlesOf(file, Len(file)))'
    BY <1>4, <2>6, <2>8 DEF TypesRead
  <2> QED
    BY <1>3, <1>4, <1>6, <2>9 DEF AllRead
<1> QED
  BY <1>5, <1>6

\* Where the readers leave what they have read alone.
LEMMA ReadStays ==
  ASSUME sorted' = sorted, file' = file, UNCHANGED readVars
  PROVE  AllRead' = AllRead /\ Reading' = Reading /\ NothingRead' = NothingRead
<1>1. line' = line /\ funcType' = funcType /\ ront' = ront /\ rontt' = rontt
  BY DEF readVars
<1>2. \A t : Rows(t)' = Rows(t)
  BY DEF Rows, RowNum
<1>3. \A num : TypesRead(num)' = TypesRead(num)
  BY <1>1, <1>2 DEF TypesRead
<1>4. TypesRead(TitlesOf(file, Len(file)))' = TypesRead(TitlesOf(file, Len(file)))
  BY <1>1, <1>2 DEF TypesRead
<1>5. TypesRead(funcType - 1)' = TypesRead(funcType - 1)
  BY <1>1, <1>2 DEF TypesRead
<1>6. NothingRead' = NothingRead
  BY <1>1 DEF NothingRead
<1>7. \A s : Row(sorted[TypeOf(funcType)][s])' = Row(sorted[TypeOf(funcType)][s])
  BY <1>1 DEF Row, TypeOf
<1> QED
  BY <1>1, <1>4, <1>5, <1>6, <1>7 DEF AllRead, Reading

\* The steps outside the readers.
LEMMA OutsideReaders ==
  ASSUME [Next]_vars
  PROVE  \/ ReadTitle \/ ReadRow \/ EndOfFile \/ RunScheduler
         \/ /\ UNCHANGED readVars /\ pc \in Early /\ pc' \in Early
         \/ /\ UNCHANGED <<readVars, file, sorted>> /\ pc = "create"
            /\ pc' \in {"create"} \cup Late
         \/ /\ UNCHANGED <<readVars, file, sorted>> /\ pc \in Late /\ pc' \in Late
         \/ /\ UNCHANGED <<readVars, file, sorted, pc>>
<1>1. CASE Load
  <2>1. CASE \/ NoTotals \/ Unnamed \/ WriteTitle \/ WriteRow \/ DividesByZero
             \/ AssertionFails \/ NextType \/ RunAgain
    BY <2>1 DEF NoTotals, Unnamed, WriteTitle, WriteRow, DividesByZero,
         AssertionFails, NextType, RunAgain, Generating, Early
  <2>2. CASE CreateRequestInSlot \/ CreateNextType \/ Loaded
    BY <2>2 DEF CreateRequestInSlot, CreateNextType, Loaded, inputs, Late
  <2> QED
    BY <1>1, <2>1, <2>2 DEF Load, LoadNext
<1>2. CASE DeployRequest \/ GenTraffic
  BY <1>2 DEF DeployRequest, GenTraffic, loadVars, inputs, readVars, Late
<1>3. CASE \E id \in Ids : NetStep(id)
  BY <1>3 DEF NetStep, StartApplication, SendPacket, StopApplication,
       HandleAccept, HandleRead, Running, loadVars, inputs, readVars, Late
<1>4. CASE Tick \/ SimulatorStop
  BY <1>4 DEF Tick, SimulatorStop, Running, loadVars, inputs, readVars, Late
<1>5. CASE UNCHANGED vars
  BY <1>5 DEF vars, loadVars, inputs, readVars
<1> QED
  BY <1>1, <1>2, <1>3, <1>4, <1>5, Steps

LEMMA ReadNext ==
  ASSUME Written, ReadOK, [Next]_vars
  PROVE  ReadOK'
<1>1. CASE ReadTitle \/ ReadRow
  <2>1. pc = "read" /\ pc' = pc /\ Reading
    BY <1>1 DEF ReadTitle, ReadRow, ReadOK, Early, Late
  <2>2. Reading'
    BY <1>1, <2>1, ReadTitleStep, ReadRowStep
  <2> QED
    BY <2>1, <2>2 DEF ReadOK, Early, Late
<1>2. CASE EndOfFile
  <2>1. pc = "read" /\ pc' = "create" /\ Reading
    BY <1>2 DEF EndOfFile, ReadOK
  <2>2. AllRead'
    BY <1>2, <2>1, EndOfFileStep DEF Written
  <2> QED
    BY <2>1, <2>2 DEF ReadOK, Early, Late
<1>3. CASE RunScheduler
  <2>1. /\ pc = "generated" /\ pc' = "read" /\ UNCHANGED readVars /\ file' = file
        /\ sorted' = sorted
    BY <1>3 DEF RunScheduler
  <2>2. NothingRead
    BY <2>1 DEF ReadOK, Early
  <2>3. TitlesOf(file, 0) = 0
    <3>1. {k \in 1..0 : file[k] = Title} = {}
      OBVIOUS
    <3> QED
      BY <3>1, FS_EmptySet DEF TitlesOf
  <2>4. Reading
    BY <2>2, <2>3 DEF Reading, NothingRead, Written
  <2>5. Reading'
    BY <2>1, <2>4, ReadStays
  <2> QED
    BY <2>1, <2>5 DEF ReadOK, Early, Late
<1>4. CASE UNCHANGED readVars /\ pc \in Early /\ pc' \in Early
  <2>1. NothingRead'
    BY <1>4 DEF ReadOK, NothingRead, readVars
  <2> QED
    BY <1>4, <2>1 DEF ReadOK, Early, Late
<1>5. CASE /\ UNCHANGED <<readVars, file, sorted>> /\ pc = "create"
           /\ pc' \in {"create"} \cup Late
  BY <1>5, ReadStays DEF ReadOK, Early, Late
<1>6. CASE /\ UNCHANGED <<readVars, file, sorted>> /\ pc \in Late /\ pc' \in Late
  BY <1>6, ReadStays DEF ReadOK, Early, Late
<1>7. CASE UNCHANGED <<readVars, file, sorted, pc>>
  BY <1>7, ReadStays DEF ReadOK
<1> QED
  BY <1>1, <1>2, <1>3, <1>4, <1>5, <1>6, <1>7, OutsideReaders

-----------------------------------------------------------------------------
(***************************************************************************)
(* What createRequests makes.                                              *)
(***************************************************************************)
AnyRequest == {Uninitialised} \cup
              {Request(id, t, n, s) : id \in Nat, t \in Types, n \in Nodes, s \in Slots}

\* The requests made of a row, counted.
NewAre(new, t, s, row) ==
  /\ new \in Seq(AnyRequest) /\ Len(new) = Part(row) /\ Part(row) \in Nat
  /\ ~Known(t) => \A i \in 1..Len(new) : new[i] = Uninitialised
  /\ Known(t) => \A i \in 1..Len(new) : \E n \in Nodes :
                   new[i] = Request(reqCount + i - 1, t, n, s)
  /\ \A u \in Types, n \in Nodes :
       Count(new, Asked(u, s, n)) =
         IF HasTopo /\ u = t THEN Share(row)[n] ELSE 0
  /\ Count(new, {Uninitialised}) = IF Known(t) THEN 0 ELSE Part(row)

LEMMA NewRequests ==
  ASSUME NEW row \in Row0, NEW t \in Nat \ {0}, NEW s \in Slots, reqCount \in Nat,
         NEW new, new = Created(t, s, row)
  PROVE  NewAre(new, t, s, row)
<1> DEFINE l == Part(row)
<1>0. t \in Nat /\ s \in Nat
  BY DEF Slots
<1>1. /\ Len(new) = l
      /\ \A X : (\A i \in 1..l : new[i] \in X) => new \in Seq(X)
      /\ ~Known(t) => \A i \in 1..l : new[i] = Uninitialised
      /\ Known(t) => \A i \in 1..l : \E n \in Nodes :
                       new[i] = Request(reqCount + i - 1, t, n, s)
      /\ Known(t) => \A n \in Nodes : Count(new, Asked(t, s, n)) = Share(row)[n]
  <2>1. Makes(new, t, s, row)
    BY <1>0, CreatedIs
  <2> QED
    BY <2>1 DEF Makes
<1>2. l \in Nat
  BY Befores
<1> HIDE DEF l
<1>3. ASSUME NEW i \in 1..l
      PROVE  new[i] \in AnyRequest
  <2>1. CASE ~Known(t)
    BY <1>1, <2>1 DEF AnyRequest
  <2>2. CASE Known(t)
    <3>1. PICK n \in Nodes : new[i] = Request(reqCount + i - 1, t, n, s)
      BY <1>1, <2>2
    <3>2. t \in Types /\ reqCount + i - 1 \in Nat
      BY <1>2, <2>2 DEF Known
    <3> QED
      BY <3>1, <3>2 DEF AnyRequest
  <2> QED
    BY <2>1, <2>2
<1>4. new \in Seq(AnyRequest)
  BY <1>1, <1>3
<1>5. ASSUME NEW id \in Int, NEW u, NEW n, NEW w
      PROVE  /\ Request(id, u, n, w).type = u
             /\ Request(id, u, n, w) = Uninitialised => id = -1
  <2>1. /\ Request(id, u, n, w).id = id /\ Request(id, u, n, w).type = u
        /\ Uninitialised.id = -1
    BY DEF Request, Uninitialised
  <2> QED
    BY <2>1
<1>6. ASSUME NEW u \in Types, NEW n \in Nodes
      PROVE  Count(new, Asked(u, s, n)) =
               IF HasTopo /\ u = t THEN Share(row)[n] ELSE 0
  <2>1. CASE Known(t) /\ u = t
    BY <1>1, <2>1 DEF Known
  <2>2. CASE ~(Known(t) /\ u = t)
    <3>1. ASSUME NEW i \in 1..l, new[i] \in Asked(u, s, n)
          PROVE  FALSE
      <4>1. PICK id \in Nat : new[i] = Request(id, u, n, s)
        BY <3>1 DEF Asked
      <4>2. Known(t)
        BY <1>1, <1>5, <4>1
      <4>3. PICK m \in Nodes : new[i] = Request(reqCount + i - 1, t, m, s)
        BY <1>1, <4>2
      <4>4. Request(id, u, n, s).type = u /\ Request(reqCount + i - 1, t, m, s).type = t
        BY DEF Request
      <4> QED
        BY <2>2, <4>1, <4>2, <4>3, <4>4
    <3>2. Count(new, Asked(u, s, n)) = 0
      BY <1>1, <3>1, CountNone
    <3>3. ~(HasTopo /\ u = t)
      BY <2>2 DEF Known
    <3> QED
      BY <3>2, <3>3
  <2> QED
    BY <2>1, <2>2
<1>7. Count(new, {Uninitialised}) = IF Known(t) THEN 0 ELSE l
  <2>1. CASE Known(t)
    <3>1. ASSUME NEW i \in 1..l
          PROVE  new[i] \notin {Uninitialised}
      <4>1. PICK m \in Nodes : new[i] = Request(reqCount + i - 1, t, m, s)
        BY <1>1, <2>1
      <4>2. reqCount + i - 1 \in Int /\ reqCount + i - 1 # -1
        BY <1>2
      <4> QED
        BY <1>5, <4>1, <4>2
    <3> QED
      BY <1>1, <2>1, <3>1, CountNone
  <2>2. CASE ~Known(t)
    <3>1. \A i \in 1..Len(new) : new[i] \in {Uninitialised} <=> 0 < i /\ i <= l
      BY <1>1, <1>2, <2>2
    <3>2. 0 \in Nat /\ 0 <= l /\ l <= Len(new) /\ Len(new) \in Nat
      BY <1>1, <1>2
    <3>3. Count(new, {Uninitialised}) = l - 0
      BY <1>2, <3>1, <3>2, CountInterval
    <3> QED
      BY <1>2, <2>2, <3>3
  <2> QED
    BY <2>1, <2>2
<1> QED
  BY <1>1, <1>2, <1>4, <1>6, <1>7 DEF l, NewAre

-----------------------------------------------------------------------------
\* The rows createRequests goes through.
RowsOK ==
  /\ rontt \in Seq(Seq(Row0))
  /\ \A k \in 1..Len(rontt) : Len(rontt[k]) <= SlotNum

\* A row before the cursor.
Made(k, s) ==
  /\ k <= Len(rontt) /\ s <= Len(rontt[k])
  /\ k < cursor[1] \/ (k = cursor[1] /\ s < cursor[2])

Expected(t, s, n) == IF HasTopo /\ Made(t, s) THEN Share(rontt[t][s])[n] ELSE 0

\* The requests of a slot that nobody initialises, by the title of their rows,
\* and the titles whose rows for the slot are before the cursor.
Lost(s) ==
  [k \in Nat |-> IF ~Known(k) /\ k \in 1..Len(rontt) /\ s <= Len(rontt[k])
                   THEN Part(rontt[k][s]) ELSE 0]
Passed(s) == IF s < cursor[2] THEN cursor[1] ELSE cursor[1] - 1

\* The one request with this id.
Alone(id, s, i) ==
  /\ s \in Slots /\ i \in 1..Len(reqs[s])
  /\ \A u \in Slots : \A j \in 1..Len(reqs[u]) : reqs[u][j].id = id <=> u = s /\ j = i

Numbered(req, s) ==
  \/ req = Uninitialised
  \/ \E id \in Ids, t \in Types, n \in Nodes : req = Request(id, t, n, s)

CursorOK ==
  /\ cursor[1] \in 1..Len(rontt) + 1 /\ cursor[2] \in 1..SlotNum + 1
  /\ cursor[1] = Len(rontt) + 1 => cursor[2] = 1
  /\ cursor[1] <= Len(rontt) => cursor[2] <= Len(rontt[cursor[1]]) + 1

RequestsOK ==
  /\ reqCount \in Nat
  /\ reqs \in [Slots -> Seq(AnyRequest)]
  /\ \A s \in Slots : \A i \in 1..Len(reqs[s]) : Numbered(reqs[s][i], s)
  /\ \A id \in Ids : \E s, i : Alone(id, s, i)

Counted ==
  /\ \A t \in Types, s \in Slots, n \in Nodes :
       Count(reqs[s], Asked(t, s, n)) = Expected(t, s, n)
  /\ \A s \in Slots : Count(reqs[s], {Uninitialised}) = SumTo(Lost(s), Passed(s))

Creating == CursorOK /\ RequestsOK /\ Counted

\* A request that is appended to its slot.
LEMMA RequestsStep ==
  ASSUME RequestsOK, NEW t \in Nat \ {0}, NEW s \in Slots, NEW row \in Row0,
         NEW new, new = Created(t, s, row),
         reqs' = [reqs EXCEPT ![s] = reqs[s] \o new],
         reqCount' = reqCount + IF Known(t) THEN Len(new) ELSE 0
  PROVE  RequestsOK'
<1>1. /\ reqCount \in Nat /\ reqs \in [Slots -> Seq(AnyRequest)]
      /\ \A u \in Slots : \A i \in 1..Len(reqs[u]) : Numbered(reqs[u][i], u)
      /\ \A id \in Ids : \E u, i : Alone(id, u, i)
  BY DEF RequestsOK
<1>0. NewAre(new, t, s, row)
  BY <1>1, NewRequests
<1>2. /\ new \in Seq(AnyRequest) /\ Len(new) \in Nat
      /\ ~Known(t) => \A i \in 1..Len(new) : new[i] = Uninitialised
      /\ Known(t) => \A i \in 1..Len(new) : \E n \in Nodes :
                       new[i] = Request(reqCount + i - 1, t, n, s)
  BY <1>0 DEF NewAre
<1>3. PICK l : l = Len(reqs[s])
  OBVIOUS
<1>4. /\ l \in Nat /\ reqs[s] \in Seq(AnyRequest)
      /\ reqs' \in [Slots -> Seq(AnyRequest)]
      /\ \A u \in Slots \ {s} : reqs'[u] = reqs[u]
      /\ reqs'[s] = reqs[s] \o new
  BY <1>1, <1>2, <1>3
<1>5. /\ Len(reqs'[s]) = l + Len(new)
      /\ \A i \in 1..l : reqs'[s][i] = reqs[s][i]
      /\ \A i \in 1..Len(new) : reqs'[s][l + i] = new[i]
      /\ \A i \in 1..l + Len(new) : i > l => i - l \in 1..Len(new) /\ l + (i - l) = i
  BY <1>2, <1>3, <1>4
<1>6. /\ reqCount' \in Nat
      /\ reqCount' = reqCount + (IF Known(t) THEN Len(new) ELSE 0)
      /\ Ids = 0..reqCount - 1 /\ Ids' = 0..reqCount' - 1 /\ Ids \subseteq Ids'
  BY <1>1, <1>2 DEF Ids
<1>7. \A id, u, n, w : Request(id, u, n, w).id = id
  BY DEF Request
<1>8. Uninitialised.id = -1
  BY DEF Uninitialised
\* The ids of the old requests and of the new.
<1>9. ASSUME NEW u \in Slots, NEW i \in 1..Len(reqs[u])
      PROVE  reqs[u][i].id \in Ids \cup {-1}
  BY <1>1, <1>7, <1>8 DEF Numbered
<1>10. ASSUME NEW i \in 1..Len(new)
       PROVE  new[i].id = IF Known(t) THEN reqCount + i - 1 ELSE -1
  BY <1>2, <1>7, <1>8
<1>11. ASSUME NEW u \in Slots, NEW i \in 1..Len(reqs'[u])
       PROVE  \/ i \in 1..Len(reqs[u]) /\ reqs'[u][i] = reqs[u][i]
              \/ /\ u = s /\ i > l /\ i - l \in 1..Len(new)
                 /\ reqs'[u][i] = new[i - l]
  BY <1>3, <1>4, <1>5
<1>12. ASSUME NEW u \in Slots, NEW i \in 1..Len(reqs[u])
       PROVE  i \in 1..Len(reqs'[u]) /\ reqs'[u][i] = reqs[u][i]
  BY <1>2, <1>3, <1>4, <1>5
<1>13. ASSUME NEW u \in Slots, NEW i \in 1..Len(reqs'[u])
       PROVE  Numbered(reqs[u][i], u)'
  <2>1. CASE i \in 1..Len(reqs[u]) /\ reqs'[u][i] = reqs[u][i]
    <3>1. Numbered(reqs[u][i], u)
      BY <1>1, <2>1
    <3>2. \/ reqs'[u][i] = Uninitialised
          \/ \E id \in Ids', v \in Types, n \in Nodes : reqs'[u][i] = Request(id, v, n, u)
      BY <1>6, <2>1, <3>1 DEF Numbered
    <3> QED
      BY <3>2 DEF Numbered
  <2>2. CASE /\ u = s /\ i > l /\ i - l \in 1..Len(new)
             /\ reqs'[u][i] = new[i - l]
    <3>1. CASE ~Known(t)
      <4>1. reqs'[u][i] = Uninitialised
        BY <1>2, <2>2, <3>1
      <4> QED
        BY <4>1 DEF Numbered
    <3>2. CASE Known(t)
      <4>1. PICK n \in Nodes : reqs'[u][i] = Request(reqCount + (i - l) - 1, t, n, s)
        BY <1>2, <2>2, <3>2
      <4>2. reqCount + (i - l) - 1 \in Ids' /\ t \in Types
        BY <1>1, <1>2, <1>4, <1>6, <2>2, <3>2 DEF Known
      <4>3. \E id \in Ids', v \in Types, m \in Nodes : reqs'[u][i] = Request(id, v, m, u)
        BY <2>2, <4>1, <4>2
      <4> QED
        BY <4>3 DEF Numbered
    <3> QED
      BY <3>1, <3>2
  <2> QED
    BY <1>11, <2>1, <2>2
<1>14. ASSUME NEW id \in Ids'
       PROVE  \E u, i : Alone(id, u, i)'
  <2>1. CASE id \in Ids
    <3>1. PICK u, i : Alone(id, u, i)
      BY <1>1, <2>1
    <3>2. u \in Slots /\ i \in 1..Len(reqs'[u])
      BY <1>12, <3>1 DEF Alone
    <3>3. ASSUME NEW v \in Slots, NEW j \in 1..Len(reqs'[v])
          PROVE  reqs'[v][j].id = id <=> v = u /\ j = i
      <4>1. CASE j \in 1..Len(reqs[v]) /\ reqs'[v][j] = reqs[v][j]
        BY <3>1, <4>1 DEF Alone
      <4>2. CASE /\ v = s /\ j > l /\ j - l \in 1..Len(new)
                 /\ reqs'[v][j] = new[j - l]
        <5>1. new[j - l].id = IF Known(t) THEN reqCount + (j - l) - 1 ELSE -1
          BY <1>10, <4>2
        <5>2. new[j - l].id # id
          BY <1>1, <1>2, <1>4, <1>6, <2>1, <4>2, <5>1
        <5>3. ~(v = u /\ j = i)
          BY <1>3, <3>1, <4>2 DEF Alone
        <5> QED
          BY <4>2, <5>2, <5>3
      <4> QED
        BY <1>11, <4>1, <4>2
    <3> QED
      BY <3>2, <3>3 DEF Alone
  <2>2. CASE id \notin Ids
    <3>1. Known(t) /\ id \in reqCount..reqCount + Len(new) - 1
      BY <1>1, <1>2, <1>6, <2>2
    <3>2. PICK i : i = l + (id - reqCount) + 1
      OBVIOUS
    <3>3. /\ i \in 1..Len(reqs'[s]) /\ i > l /\ i - l \in 1..Len(new)
          /\ reqCount + (i - l) - 1 = id
      BY <1>1, <1>2, <1>4, <1>5, <3>1, <3>2
    <3>4. ASSUME NEW v \in Slots, NEW j \in 1..Len(reqs'[v])
          PROVE  reqs'[v][j].id = id <=> v = s /\ j = i
      <4>1. CASE j \in 1..Len(reqs[v]) /\ reqs'[v][j] = reqs[v][j]
        <5>1. reqs[v][j].id # id
          BY <1>6, <1>9, <2>2, <4>1
        <5>2. ~(v = s /\ j = i)
          BY <1>3, <3>3, <4>1
        <5> QED
          BY <4>1, <5>1, <5>2
      <4>2. CASE /\ v = s /\ j > l /\ j - l \in 1..Len(new)
                 /\ reqs'[v][j] = new[j - l]
        <5>1. new[j - l].id = reqCount + (j - l) - 1
          BY <1>10, <3>1, <4>2
        <5>2. reqCount + (j - l) - 1 = reqCount + (i - l) - 1 <=> j = i
          BY <1>1, <1>2, <1>4, <3>3, <4>2
        <5> QED
          BY <3>3, <4>2, <5>1, <5>2
      <4> QED
        BY <1>11, <4>1, <4>2
    <3>5. Alone(id, s, i)'
      BY <3>3, <3>4 DEF Alone
    <3> QED
      BY <3>5
  <2> QED
    BY <2>1, <2>2
<1> QED
  BY <1>4, <1>6, <1>13, <1>14 DEF RequestsOK

\* What does not change while the requests are made.
LEMMA RowsStay ==
  ASSUME UNCHANGED <<readVars, config>>
  PROVE  /\ rontt' = rontt
         /\ HasTopo' = HasTopo
         /\ \A k : Known(k)' = Known(k)
         /\ \A s : Lost(s)' = Lost(s)
<1>1. rontt' = rontt /\ config' = config
  BY DEF readVars
<1>2. HasTopo' = HasTopo
  BY <1>1, GivenStays DEF HasTopo
<1>3. \A k : Known(k)' = Known(k)
  BY <1>2 DEF Known
<1>4. \A row : Part(row)' = Part(row)
  BY DEF Part, Share
<1> QED
  BY <1>1, <1>2, <1>3 DEF Lost, Part, Share

LEMMA CountedStep ==
  ASSUME RequestsOK, Counted, UNCHANGED <<readVars, config>>,
         NEW t \in 1..Len(rontt), NEW s \in Slots, cursor[1] = t, cursor[2] = s,
         NEW row \in Row0, row = rontt[t][s], s <= Len(rontt[t]),
         Len(rontt) \in Nat,
         NEW new, new = Created(t, s, row),
         reqs' = [reqs EXCEPT ![s] = reqs[s] \o new],
         cursor' = <<t, s + 1>>
  PROVE  Counted'
<1>1. reqCount \in Nat /\ reqs \in [Slots -> Seq(AnyRequest)]
  BY DEF RequestsOK
<1>2. t \in Nat \ {0} /\ s \in Nat /\ s \in 1..SlotNum
  BY DEF Slots
<1>3. NewAre(new, t, s, row)
  BY <1>1, <1>2, NewRequests
<1>4. /\ new \in Seq(AnyRequest)
      /\ \A u \in Types, n \in Nodes :
           Count(new, Asked(u, s, n)) =
             IF HasTopo /\ u = t THEN Share(row)[n] ELSE 0
      /\ Count(new, {Uninitialised}) = IF Known(t) THEN 0 ELSE Part(row)
  BY <1>3 DEF NewAre
<1>5. /\ \A S : Count(reqs'[s], S) = Count(reqs[s], S) + Count(new, S)
      /\ \A v \in Slots \ {s} : reqs'[v] = reqs[v]
  <2>1. /\ reqs'[s] = reqs[s] \o new /\ reqs[s] \in Seq(AnyRequest)
        /\ \A v \in Slots \ {s} : reqs'[v] = reqs[v]
    BY <1>1
  <2>2. ASSUME NEW S
        PROVE  Count(reqs[s] \o new, S) = Count(reqs[s], S) + Count(new, S)
    BY <1>4, <2>1, CountConcat
  <2> QED
    BY <2>1, <2>2
<1>6. /\ rontt' = rontt
      /\ HasTopo' = HasTopo
      /\ \A k : Known(k)' = Known(k)
      /\ \A v : Lost(v)' = Lost(v)
  BY RowsStay
<1>7. ASSUME NEW k \in Types, NEW v \in Slots
      PROVE  /\ Made(k, v)' <=> Made(k, v) \/ (k = t /\ v = s)
             /\ ~Made(t, s)
  BY <1>2, <1>6 DEF Made, Types, Slots
<1>8. ASSUME NEW u \in Types, NEW v \in Slots, NEW n \in Nodes
      PROVE  Count(reqs'[v], Asked(u, v, n)) = Expected(u, v, n)'
  <2>1. Count(reqs[v], Asked(u, v, n)) = Expected(u, v, n)
    BY DEF Counted
  <2>2. Expected(u, v, n)' =
          IF HasTopo /\ (Made(u, v) \/ (u = t /\ v = s))
            THEN Share(rontt[u][v])[n] ELSE 0
    BY <1>6, <1>7 DEF Expected, Share
  <2>3. CASE v # s
    BY <1>5, <2>1, <2>2, <2>3 DEF Expected
  <2>4. CASE v = s
    <3>1. Count(reqs'[v], Asked(u, v, n)) =
            Expected(u, v, n) + IF HasTopo /\ u = t THEN Share(row)[n] ELSE 0
      BY <1>4, <1>5, <2>1, <2>4
    <3>2. CASE HasTopo /\ u = t
      <4>1. Expected(u, v, n) = 0
        BY <1>7, <2>4, <3>2 DEF Expected
      <4>2. Expected(u, v, n)' = Share(row)[n]
        BY <2>2, <2>4, <3>2
      <4>3. Share(row)[n] \in Nat
        BY ShareType DEF Nodes
      <4> QED
        BY <3>1, <3>2, <4>1, <4>2, <4>3
    <3>3. CASE ~(HasTopo /\ u = t)
      <4>1. Expected(u, v, n)' = Expected(u, v, n)
        BY <2>2, <3>3 DEF Expected
      <4>2. Expected(u, v, n) \in Nat
        <5>1. reqs[v] \in Seq(AnyRequest)
          BY <1>1
        <5> QED
          BY <2>1, <5>1, CountConcat
      <4> QED
        BY <3>1, <3>3, <4>1, <4>2
    <3> QED
      BY <3>2, <3>3
  <2> QED
    BY <2>3, <2>4
<1>9. ASSUME NEW v \in Slots
      PROVE  Count(reqs'[v], {Uninitialised}) = SumTo(Lost(v)', Passed(v)')
  <2>1. Count(reqs[v], {Uninitialised}) = SumTo(Lost(v), Passed(v))
    BY DEF Counted
  <2>2. /\ Passed(v) = IF v < s THEN t ELSE t - 1
        /\ Passed(v)' = IF v < s + 1 THEN t ELSE t - 1
    BY DEF Passed
  <2>3. CASE v # s
    <3>1. Passed(v)' = Passed(v)
      BY <1>2, <2>2, <2>3 DEF Slots
    <3> QED
      BY <1>5, <1>6, <2>1, <2>3, <3>1
  <2>4. CASE v = s
    <3>1. Passed(v) = t - 1 /\ Passed(v)' = t
      BY <1>2, <2>2, <2>4
    <3>2. SumTo(Lost(s), t) = SumTo(Lost(s), t - 1) + Lost(s)[t]
      <4>1. t - 1 \in Nat /\ (t - 1) + 1 = t
        BY <1>2
      <4>2. SumTo(Lost(s), (t - 1) + 1) = SumTo(Lost(s), t - 1) + Lost(s)[(t - 1) + 1]
        BY <4>1, Sums
      <4> QED
        BY <4>1, <4>2
    <3>3. Lost(s)[t] = IF Known(t) THEN 0 ELSE Part(row)
      BY <1>2 DEF Lost
    <3>4. Count(new, {Uninitialised}) = Lost(s)[t]
      BY <1>4, <3>3
    <3> QED
      BY <1>5, <1>6, <2>1, <2>4, <3>1, <3>2, <3>4
  <2> QED
    BY <2>3, <2>4
<1> QED
  BY <1>8, <1>9 DEF Counted, Count, Asked

LEMMA CreateStep ==
  ASSUME RowsOK, Creating, CreateRequestInSlot
  PROVE  Creating'
<1>1. /\ rontt \in Seq(Seq(Row0)) /\ Len(rontt) \in Nat
      /\ cursor[1] \in 1..Len(rontt)
      /\ cursor[2] \in 1..SlotNum + 1 /\ cursor[2] <= Len(rontt[cursor[1]])
      /\ SlotNum \in Nat
  BY LoadAssumption DEF RowsOK, CreateRequestInSlot, Creating, CursorOK
<1>2. PICK t, s : t = cursor[1] /\ s = cursor[2]
  OBVIOUS
<1>3. /\ t \in 1..Len(rontt) /\ t \in Nat \ {0} /\ rontt[t] \in Seq(Row0)
      /\ s \in 1..SlotNum + 1 /\ s <= Len(rontt[t]) /\ Len(rontt[t]) <= SlotNum
  BY <1>1, <1>2 DEF RowsOK
<1>4. s \in Slots /\ s \in 1..Len(rontt[t])
  BY <1>1, <1>3 DEF Slots
<1>5. PICK row \in Row0 : row = rontt[t][s]
  BY <1>3, <1>4
<1>6. PICK new : new = Created(t, s, row)
  OBVIOUS
<1>7. /\ reqs' = [reqs EXCEPT ![s] = reqs[s] \o new]
      /\ reqCount' = reqCount + IF Known(t) THEN Len(new) ELSE 0
      /\ cursor' = <<t, s + 1>>
      /\ UNCHANGED readVars /\ config' = config /\ rontt' = rontt
  BY <1>2, <1>5, <1>6 DEF CreateRequestInSlot, inputs, readVars
<1>8. RequestsOK'
  BY <1>3, <1>4, <1>5, <1>6, <1>7, RequestsStep DEF Creating
<1>9. Counted'
  BY <1>1, <1>2, <1>3, <1>4, <1>5, <1>6, <1>7, CountedStep DEF Creating
<1>10. CursorOK'
  <2>1. cursor'[1] = t /\ cursor'[2] = s + 1 /\ rontt' = rontt
    BY <1>7
  <2> QED
    BY <1>1, <1>3, <2>1 DEF CursorOK
<1> QED
  BY <1>8, <1>9, <1>10 DEF Creating

LEMMA CreateNextStep ==
  ASSUME RowsOK, Creating, CreateNextType
  PROVE  Creating'
<1>1. /\ rontt \in Seq(Seq(Row0)) /\ Len(rontt) \in Nat
      /\ cursor[1] \in 1..Len(rontt)
      /\ cursor[2] \in 1..SlotNum + 1 /\ cursor[2] > Len(rontt[cursor[1]])
      /\ SlotNum \in Nat \ {0}
  BY LoadAssumption DEF RowsOK, CreateNextType, Creating, CursorOK
<1>2. PICK t, s : t = cursor[1] /\ s = cursor[2]
  OBVIOUS
<1>3. /\ t \in 1..Len(rontt) /\ t \in Nat \ {0} /\ Len(rontt[t]) \in Nat
      /\ s \in 1..SlotNum + 1 /\ s > Len(rontt[t]) /\ s <= Len(rontt[t]) + 1
      /\ Len(rontt[t]) <= SlotNum
  BY <1>1, <1>2 DEF RowsOK, Creating, CursorOK
<1>4. /\ reqs' = reqs /\ reqCount' = reqCount
      /\ cursor' = <<t + 1, 1>>
      /\ UNCHANGED readVars /\ config' = config /\ rontt' = rontt
  BY <1>2 DEF CreateNextType, inputs, readVars
<1>5. RequestsOK'
  <2>1. /\ Ids' = Ids
        /\ \A id, v, i : Alone(id, v, i)' = Alone(id, v, i)
        /\ \A v, i : Numbered(reqs[v][i], v)' = Numbered(reqs[v][i], v)
    BY <1>4 DEF Ids, Alone, Numbered
  <2> QED
    BY <1>4, <2>1 DEF Creating, RequestsOK
<1>6. /\ HasTopo' = HasTopo
      /\ \A v : Lost(v)' = Lost(v)
  BY <1>4, RowsStay
<1>7. ASSUME NEW u \in Types, NEW v \in Slots, NEW n \in Nodes
      PROVE  Expected(u, v, n)' = Expected(u, v, n)
  <2>1. Made(u, v)' <=> Made(u, v)
    BY <1>2, <1>3, <1>4 DEF Made, Types, Slots
  <2> QED
    BY <1>4, <1>6, <2>1 DEF Expected, Share
<1>8. ASSUME NEW v \in Slots
      PROVE  SumTo(Lost(v), Passed(v)') = SumTo(Lost(v), Passed(v))
  <2>1. Passed(v)' = t
    BY <1>3, <1>4 DEF Passed, Slots
  <2>2. Passed(v) = IF v < s THEN t ELSE t - 1
    BY <1>2 DEF Passed
  <2>3. CASE v < s
    BY <2>1, <2>2, <2>3
  <2>4. CASE ~(v < s)
    <3>1. Lost(v)[t] = 0
      BY <1>3, <2>4 DEF Lost, Slots
    <3>2. t - 1 \in Nat /\ (t - 1) + 1 = t
      BY <1>3
    <3>3. SumTo(Lost(v), (t - 1) + 1) = SumTo(Lost(v), t - 1) + Lost(v)[(t - 1) + 1]
      BY <3>2, Sums
    <3>4. SumTo(Lost(v), t - 1) \in Nat
      <4>1. reqs[v] \in Seq(AnyRequest)
        BY DEF Creating, RequestsOK
      <4>2. Count(reqs[v], {Uninitialised}) \in Nat
        BY <4>1, CountConcat
      <4> QED
        BY <2>2, <2>4, <4>2 DEF Creating, Counted
    <3> QED
      BY <2>1, <2>2, <2>4, <3>1, <3>2, <3>3, <3>4
  <2> QED
    BY <2>3, <2>4
<1>9. Counted'
  BY <1>4, <1>6, <1>7, <1>8 DEF Creating, Counted, Count, Asked
<1>10. CursorOK'
  <2>1. cursor'[1] = t + 1 /\ cursor'[2] = 1 /\ rontt' = rontt
    BY <1>4
  <2>2. t + 1 <= Len(rontt) => Len(rontt[t + 1]) \in Nat
    BY <1>1, <1>3
  <2> QED
    BY <1>1, <1>3, <2>1, <2>2 DEF CursorOK
<1> QED
  BY <1>5, <1>9, <1>10 DEF Creating

LEMMA RowsAreOK ==
  ASSUME Written, AllRead
  PROVE  RowsOK /\ Len(rontt) \in Nat \ {0}
<1> DEFINE num == TitlesOf(file, Len(file))
<1>1. num \in Nat
  BY TitlesType DEF Written
<1> HIDE DEF num
<1>2. CASE num = 0
  <2>1. rontt = <<<<>>>>
    BY <1>2 DEF AllRead, num
  <2>2. <<>> \in Seq(Row0)
    OBVIOUS
  <2>3. rontt \in Seq(Seq(Row0)) /\ Len(rontt) = 1 /\ Len(rontt[1]) = 0
    BY <2>1, <2>2
  <2> QED
    BY <2>3, LoadAssumption DEF RowsOK
<1>3. CASE num # 0
  <2>1. /\ rontt \in Seq(Seq(Row0)) /\ Len(rontt) = num
        /\ \A k \in 1..num : rontt[k] = Rows(TypeOf(k))
    BY <1>3 DEF AllRead, TypesRead, num
  <2>2. ASSUME NEW k \in 1..num
        PROVE  Len(rontt[k]) <= SlotNum
    <3>1. TypeOf(k) \in Types
      BY <1>1, TypeOfType
    <3>2. RowNum(TypeOf(k)) \in Nat /\ RowNum(TypeOf(k)) <= SlotNum
      BY <3>1, LoadAssumption DEF RowNum, Written
    <3>3. rontt[k] = Rows(TypeOf(k)) /\ rontt[k] \in Seq(Row0)
      BY <2>1
    <3> DEFINE m == RowNum(TypeOf(k))
               val(s) == Row(sorted[TypeOf(k)][s])
    <3>4. rontt[k] = [s \in 1..m |-> val(s)]
      BY <3>3 DEF Rows
    <3> HIDE DEF m, val
    <3>5. Len(rontt[k]) = m
      BY <3>2, <3>4 DEF m
    <3> QED
      BY <3>2, <3>5 DEF m
  <2> QED
    BY <1>1, <1>3, <2>1, <2>2 DEF RowsOK
<1> QED
  BY <1>2, <1>3

NoRequests == reqs = [s \in Slots |-> <<>>] /\ reqCount = 0

MakingOK ==
  /\ pc \in Early \cup {"read"} => NoRequests
  /\ pc = "create" => Creating
  /\ pc \in Late => Creating /\ cursor[1] = Len(rontt) + 1

\* Before the first row.
AtFirst == NoRequests /\ RowsOK /\ Len(rontt) \in Nat \ {0} /\ cursor = <<1, 1>>

LEMMA CreatingStart ==
  AtFirst => Creating
<1> SUFFICES ASSUME AtFirst PROVE Creating
  OBVIOUS
<1>0. NoRequests /\ Len(rontt) \in Nat \ {0} /\ RowsOK /\ cursor = <<1, 1>>
  BY DEF AtFirst
<1>1. SlotNum \in Nat \ {0}
  BY LoadAssumption
<1>2. \A s \in Slots : reqs[s] = <<>> /\ Len(reqs[s]) = 0
  BY <1>0 DEF NoRequests
<1>3. CursorOK
  <2>1. Len(rontt[1]) \in Nat
    BY <1>0 DEF RowsOK
  <2> QED
    BY <1>0, <1>1, <2>1 DEF CursorOK
<1>4. RequestsOK
  <2>1. Ids = {} /\ reqCount \in Nat
    BY <1>0 DEF NoRequests, Ids
  <2>2. reqs \in [Slots -> Seq(AnyRequest)]
    <3>1. <<>> \in Seq(AnyRequest)
      OBVIOUS
    <3> QED
      BY <1>0, <3>1 DEF NoRequests
  <2> QED
    BY <1>2, <2>1, <2>2 DEF RequestsOK
<1>5. \A s \in Slots : \A S : Count(reqs[s], S) = 0
  BY <1>2, CountNone
<1>6. \A t \in Types, s \in Slots : ~Made(t, s)
  BY <1>0 DEF Made, Types, Slots
<1>7. \A s \in Slots : Passed(s) = 0
  BY <1>0 DEF Passed, Slots
<1>8. Counted
  BY <1>5, <1>6, <1>7, Sums DEF Counted, Expected
<1> QED
  BY <1>3, <1>4, <1>8 DEF Creating

LEMMA CreatingStays ==
  ASSUME UNCHANGED <<readVars, config, cursor, reqs, reqCount>>
  PROVE  Creating' = Creating
<1>1. /\ rontt' = rontt
      /\ HasTopo' = HasTopo
      /\ \A s : Lost(s)' = Lost(s)
  BY RowsStay
<1>2. /\ Ids' = Ids
      /\ \A id, v, i : Alone(id, v, i)' = Alone(id, v, i)
      /\ \A v, i : Numbered(reqs[v][i], v)' = Numbered(reqs[v][i], v)
  BY DEF Ids, Alone, Numbered
<1>3. RequestsOK' = RequestsOK
  BY <1>2 DEF RequestsOK
<1>4. /\ \A t, s : Made(t, s)' = Made(t, s)
      /\ \A s : Passed(s)' = Passed(s)
  BY <1>1 DEF Made, Passed
<1>5. \A t, s, n : Expected(t, s, n)' = Expected(t, s, n)
  BY <1>1, <1>4 DEF Expected, Share
<1>6. \A t, s, n : Count(reqs[s], Asked(t, s, n))' = Count(reqs[s], Asked(t, s, n))
  BY DEF Count, Asked
<1>7. \A s : Count(reqs[s], {Uninitialised})' = Count(reqs[s], {Uninitialised})
  BY DEF Count
<1>8. Counted' = Counted
  BY <1>1, <1>4, <1>5, <1>6, <1>7 DEF Counted
<1>9. CursorOK' = CursorOK
  BY <1>1 DEF CursorOK
<1> QED
  BY <1>3, <1>8, <1>9 DEF Creating

LEMMA MakingNext ==
  ASSUME Written, ReadOK, MakingOK, [Next]_vars
  PROVE  MakingOK'
<1>1. CASE Load
  <2>1. CASE \/ NoTotals \/ Unnamed \/ WriteTitle \/ WriteRow \/ DividesByZero
             \/ AssertionFails \/ NextType \/ RunAgain \/ RunScheduler
             \/ ReadTitle \/ ReadRow
    <3>1. /\ pc \in Early \cup {"read"} /\ pc' \in Early \cup {"read"}
          /\ reqs' = reqs /\ reqCount' = reqCount
      BY <2>1 DEF NoTotals, Unnamed, WriteTitle, WriteRow, DividesByZero,
           AssertionFails, NextType, RunAgain, RunScheduler, ReadTitle, ReadRow,
           Generating, Early
    <3>2. NoRequests'
      BY <3>1 DEF MakingOK, NoRequests
    <3> QED
      BY <3>1, <3>2 DEF MakingOK, Early, Late
  <2>2. CASE EndOfFile
    <3>1. /\ pc = "read" /\ pc' = "create" /\ cursor' = <<1, 1>>
          /\ reqs' = reqs /\ reqCount' = reqCount
      BY <2>2 DEF EndOfFile
    <3>2. NoRequests'
      BY <3>1 DEF MakingOK, NoRequests
    <3>3. Written' /\ AllRead'
      BY <2>2, <3>1, WrittenNext, EndOfFileStep DEF Written, ReadOK
    <3>4. (RowsOK /\ Len(rontt) \in Nat \ {0})'
      BY <3>3, RowsAreOK, PTL
    <3>5. AtFirst'
      BY <3>1, <3>2, <3>4 DEF AtFirst
    <3>6. Creating'
      BY <3>5, CreatingStart, PTL
    <3> QED
      BY <3>1, <3>6 DEF MakingOK, Early, Late
  <2>3. CASE CreateRequestInSlot \/ CreateNextType
    <3>1. pc = "create" /\ pc' = pc
      BY <2>3 DEF CreateRequestInSlot, CreateNextType
    <3>2. RowsOK /\ Creating
      BY <3>1, RowsAreOK DEF ReadOK, MakingOK
    <3>3. Creating'
      BY <2>3, <3>2, CreateStep, CreateNextStep
    <3> QED
      BY <3>1, <3>3 DEF MakingOK, Early, Late
  <2>4. CASE Loaded
    <3>1. /\ pc = "create" /\ pc' \in Late /\ cursor[1] > Len(rontt)
          /\ UNCHANGED <<readVars, config, cursor, reqs, reqCount>>
      BY <2>4 DEF Loaded, inputs, Late
    <3>2. Creating /\ Len(rontt) \in Nat
      BY <3>1, RowsAreOK DEF ReadOK, MakingOK
    <3>3. cursor'[1] = Len(rontt') + 1
      BY <3>1, <3>2 DEF Creating, CursorOK, readVars
    <3>4. Creating'
      BY <3>1, <3>2, CreatingStays
    <3> QED
      BY <3>1, <3>3, <3>4 DEF MakingOK, Early, Late
  <2> QED
    BY <1>1, <2>1, <2>2, <2>3, <2>4 DEF Load, LoadNext
<1>2. ASSUME pc \in Late, pc' \in Late,
             UNCHANGED <<readVars, config, cursor, reqs, reqCount>>
      PROVE  MakingOK'
  <2>1. rontt' = rontt /\ cursor' = cursor
    BY <1>2 DEF readVars
  <2>2. Creating'
    BY <1>2, CreatingStays DEF MakingOK
  <2> QED
    BY <1>2, <2>1, <2>2 DEF MakingOK, Early, Late
<1>3. CASE DeployRequest \/ GenTraffic
  BY <1>2, <1>3 DEF DeployRequest, GenTraffic, loadVars, inputs, readVars, Late
<1>4. CASE \E id \in Ids : NetStep(id)
  BY <1>2, <1>4 DEF NetStep, StartApplication, SendPacket, StopApplication,
       HandleAccept, HandleRead, Running, loadVars, inputs, readVars, Late
<1>5. CASE Tick \/ SimulatorStop
  BY <1>2, <1>5 DEF Tick, SimulatorStop, Running, loadVars, inputs, readVars, Late
<1>6. CASE UNCHANGED vars
  <2>1. /\ UNCHANGED <<readVars, config, cursor, reqs, reqCount>> /\ pc' = pc
        /\ rontt' = rontt
    BY <1>6 DEF vars, loadVars, inputs, readVars
  <2>2. NoRequests' = NoRequests
    BY <2>1 DEF NoRequests
  <2> QED
    BY <2>1, <2>2, CreatingStays DEF MakingOK
<1> QED
  BY <1>1, <1>3, <1>4, <1>5, <1>6, Steps

\* The readers' part of the invariant.
Loads == Written /\ ReadOK /\ MakingOK

LEMMA LoadsAlways == Spec => []Loads
<1>1. Init => Loads
  <2> SUFFICES ASSUME Init PROVE Loads
    OBVIOUS
  <2>1. pc = "generate" /\ NothingRead /\ NoRequests
    BY DEF Init, LoadInit, NothingRead, NoRequests
  <2> QED
    BY <2>1, WrittenInit DEF Loads, ReadOK, MakingOK, Early, Late
<1>2. Loads /\ [Next]_vars => Loads'
  BY WrittenNext, ReadNext, MakingNext DEF Loads
<1> QED
  BY <1>1, <1>2, PTL DEF Spec

-----------------------------------------------------------------------------
(***************************************************************************)
(* The requests of the file arrive: what is counted is what was written.   *)
(***************************************************************************)
\* Every row is one of numbers.
LEMMA RowType ==
  ASSUME NEW total \in Nat, total \div NodeNum <= Len(Power)
  PROVE  Row(total) \in Row0
<1>1. NodeNum \in Nat \ {0} /\ total \div NodeNum \in Nat
  BY LoadAssumption
<1>2. ASSUME NEW n \in Nodes
      PROVE  Row(total)[n] \in Nat
  <2>1. CASE Row(total)[n] = 0
    BY <2>1
  <2>2. CASE Row(total)[n] # 0
    <3>1. IsZipf(total \div NodeNum, Draws(NodeNum)[n], Row(total)[n])
      BY <2>2, RowIsDraw
    <3> QED
      BY <1>1, <3>1 DEF IsZipf
  <2> QED
    BY <2>1, <2>2
<1>3. Row(total) = [n \in Nodes |-> Row(total)[n]]
  BY DEF Row
<1> QED
  BY <1>2, <1>3 DEF Row0

\* The numbers asked of a type and slot.
Asks(t, s) == [n \in Nodes |-> Demand(t, s, n)]
InSlotOf(s) == [t \in Types |-> SumFunction(Asks(t, s))]

LEMMA DemandType ==
  ASSUME sorted \in SortedFiles, NEW t \in Types, NEW s \in Slots
  PROVE  /\ \A n \in Nodes : Demand(t, s, n) \in Nat
         /\ SumFunction(Asks(t, s)) = SumTo(Asks(t, s), NodeNum)
         /\ SumFunction(Asks(t, s)) \in Int
<1>1. /\ sorted[t] \in Seq(Nat) /\ ReduFactor \in Nat \ {0} /\ NodeNum \in Nat
      /\ \A i \in 1..Len(sorted[t]) : sorted[t][i] \div NodeNum <= Len(Power)
  BY LoadAssumption
<1>2. ASSUME NEW n \in Nodes
      PROVE  Demand(t, s, n) \in Nat
  <2>1. CASE s <= Len(sorted[t])
    <3>1. s \in 1..Len(sorted[t])
      BY <1>1, <2>1 DEF Slots
    <3>2. sorted[t][s] \in Nat /\ sorted[t][s] \div NodeNum <= Len(Power)
      BY <1>1, <3>1
    <3>3. Row(sorted[t][s])[n] \in Nat
      BY <3>2, RowType DEF Row0
    <3>4. \A a \in Nat, b \in Nat \ {0} : a \div b \in Nat
      OBVIOUS
    <3> QED
      BY <1>1, <2>1, <3>3, <3>4 DEF Demand
  <2>2. CASE ~(s <= Len(sorted[t]))
    BY <2>2 DEF Demand
  <2> QED
    BY <2>1, <2>2
<1>3. DOMAIN Asks(t, s) = 1..NodeNum /\ \A n \in 1..NodeNum : Asks(t, s)[n] \in Int
  BY <1>2 DEF Asks, Nodes
<1> QED
  BY <1>1, <1>2, <1>3, SumInterval DEF SumFunction

LEMMA SlotDemandIs ==
  ASSUME sorted \in SortedFiles, NEW s \in Slots
  PROVE  /\ \A t \in 1..NumTypes : InSlotOf(s)[t] \in Int
         /\ SlotDemand(s) = SumTo(InSlotOf(s), NumTypes)
         /\ SlotDemand(s) \in Int
<1>1. \A t \in Types : InSlotOf(s)[t] \in Int
  BY DemandType DEF InSlotOf
<1>2. DOMAIN InSlotOf(s) = 1..NumTypes /\ NumTypes \in Nat
  BY LoadAssumption DEF InSlotOf, Types
<1>3. SlotDemand(s) = SumFunction(InSlotOf(s))
  BY DEF SlotDemand, InSlotOf, Asks
<1> QED
  BY <1>1, <1>2, <1>3, SumInterval DEF SumFunction, Types

LEMMA SumOfNone ==
  ASSUME NEW g, NEW n \in Nat, \A i \in 1..n : g[i] = 0
  PROVE  SumTo(g, n) = 0
<1> DEFINE h == [i \in {1} |-> 0]
<1>1. \A i \in 1..1 : h[i] \in Int
  OBVIOUS
<1>2. Repeats(g, h, 1, n) /\ n = n * 1
  BY DEF Repeats
<1>3. SumTo(g, n) = n * SumTo(h, 1)
  BY <1>1, <1>2, SumOfRounds
<1>4. SumTo(h, 0 + 1) = SumTo(h, 0) + h[0 + 1] /\ SumTo(h, 0) = 0
  BY Sums
<1> QED
  BY <1>3, <1>4

\* What is read for a type.
LEMMA RowsRead ==
  ASSUME Written, NEW num \in Nat, TypesRead(num), NEW k \in 1..num, NEW s \in Slots
  PROVE  /\ TypeOf(k) \in Types /\ k \in 1..Len(rontt)
         /\ s <= Len(rontt[k]) <=> s <= Len(sorted[TypeOf(k)])
         /\ s <= Len(rontt[k]) =>
              /\ rontt[k][s] \in Row0
              /\ \A n \in Nodes : Share(rontt[k][s])[n] = Demand(TypeOf(k), s, n)
<1>1. TypeOf(k) \in Types /\ k \in 1..Len(rontt) /\ rontt[k] = Rows(TypeOf(k))
      /\ rontt[k] \in Seq(Row0)
  BY TypeOfType DEF TypesRead
<1>2. PICK t \in Types : t = TypeOf(k)
  BY <1>1
<1>3. RowNum(t) \in Nat /\ Len(sorted[t]) \in Nat /\ SlotNum \in Nat
  BY <1>2, LoadAssumption DEF RowNum, Written
<1>4. Len(rontt[k]) = RowNum(t) /\ \A i \in 1..RowNum(t) : rontt[k][i] = Row(sorted[t][i])
  <2> DEFINE m == RowNum(t)
             val(i) == Row(sorted[t][i])
  <2>1. rontt[k] = [i \in 1..m |-> val(i)]
    BY <1>1, <1>2 DEF Rows
  <2> HIDE DEF m, val
  <2>2. Len(rontt[k]) = m /\ \A i \in 1..m : rontt[k][i] = val(i)
    BY <1>3, <2>1 DEF m
  <2> QED
    BY <2>2 DEF m, val
<1>5. s <= RowNum(t) <=> s <= Len(sorted[t])
  BY <1>3 DEF RowNum, Slots
<1>6. ASSUME s <= RowNum(t)
      PROVE  /\ rontt[k][s] \in Row0
             /\ \A n \in Nodes : Share(rontt[k][s])[n] = Demand(t, s, n)
  <2>1. s \in 1..RowNum(t)
    BY <1>3, <1>6 DEF Slots
  <2>2. rontt[k][s] = Row(sorted[t][s]) /\ rontt[k][s] \in Row0
    BY <1>1, <1>4, <2>1
  <2> QED
    BY <1>5, <1>6, <2>2 DEF Share, Demand
<1> QED
  BY <1>1, <1>2, <1>4, <1>5, <1>6

\* The part of the rows of a title.
LEMMA PartIs ==
  ASSUME Written, NEW num \in Nat, TypesRead(num), NEW k \in 1..num, NEW s \in Slots
  PROVE  InSlotOf(s)[TypeOf(k)] = IF s <= Len(rontt[k]) THEN Part(rontt[k][s]) ELSE 0
<1>1. PICK t \in Types : t = TypeOf(k)
  BY RowsRead
<1>2. /\ NodeNum \in Nat /\ sorted \in SortedFiles
      /\ \A n \in Nodes : Demand(t, s, n) \in Nat
      /\ InSlotOf(s)[t] = SumTo(Asks(t, s), NodeNum)
  BY LoadAssumption, DemandType DEF Written, InSlotOf
<1>3. CASE s <= Len(rontt[k])
  <2>1. \A n \in 1..NodeNum : Share(rontt[k][s])[n] = Asks(t, s)[n]
    BY <1>1, <1>3, RowsRead DEF Asks, Nodes
  <2>2. \A n \in 1..NodeNum : Asks(t, s)[n] \in Int
    BY <1>2 DEF Asks, Nodes
  <2>3. SumTo(Share(rontt[k][s]), NodeNum) = SumTo(Asks(t, s), NodeNum)
    BY <1>2, <2>1, <2>2, SumToSame
  <2> QED
    BY <1>1, <1>2, <1>3, <2>3 DEF Part
<1>4. CASE ~(s <= Len(rontt[k]))
  <2>1. ~(s <= Len(sorted[t]))
    BY <1>1, <1>4, RowsRead
  <2>2. \A n \in 1..NodeNum : Asks(t, s)[n] = 0
    BY <2>1 DEF Asks, Demand, Nodes
  <2>3. SumTo(Asks(t, s), NodeNum) = 0
    BY <1>2, <2>2, SumOfNone
  <2> QED
    BY <1>1, <1>2, <1>4, <2>3
<1> QED
  BY <1>3, <1>4

LEMMA Residue ==
  ASSUME NEW N \in Nat \ {0}, NEW d \in Nat, NEW r \in 0..N - 1
  PROVE  (d * N + r) % N = r
<1> DEFINE y == d * N + r
           q == y \div N
           s == y % N
           e == q - d
<1>1. d * N \in Nat /\ y \in Nat
  OBVIOUS
<1>2. q \in Nat /\ s \in Nat /\ s < N /\ y = N * q + s
  BY <1>1
<1>3. y = N * d + r
  OBVIOUS
<1> HIDE DEF y, q, s
<1>4. e \in Int /\ N * q = N * d + N * e
  BY <1>2
<1> HIDE DEF e
<1>5. N * e = r - s /\ N * e \in Int /\ N * d \in Int
  BY <1>2, <1>3, <1>4
<1>6. ASSUME e >= 1
      PROVE  FALSE
  <2>1. N * e >= N
    BY <1>4, <1>6
  <2> QED
    BY <1>2, <1>5, <2>1
<1>7. ASSUME e <= -1
      PROVE  FALSE
  <2>1. N * e <= -N
    BY <1>4, <1>7
  <2> QED
    BY <1>2, <1>5, <2>1
<1>8. e = 0
  BY <1>4, <1>6, <1>7
<1>9. N * e = 0
  BY <1>8
<1>10. s = r
  BY <1>2, <1>5, <1>9
<1> QED
  BY <1>10 DEF s, y

\* The types come in the same order every time.
LEMMA TypesComeRound ==
  ASSUME NEW d \in Nat, NEW i \in Types, NEW k, k = d * NumTypes + i
  PROVE  TypeOf(k) = i
<1>1. NumTypes \in Nat \ {0} /\ i \in 1..NumTypes
  BY LoadAssumption DEF Types
<1>2. i - 1 \in 0..NumTypes - 1 /\ d * NumTypes \in Nat
  BY <1>1
<1>3. (d * NumTypes + (i - 1)) % NumTypes = i - 1
  BY <1>1, <1>2, Residue
<1> DEFINE a == d * NumTypes
<1>4. a \in Nat /\ (a + (i - 1)) % NumTypes = i - 1
  BY <1>2, <1>3
<1> HIDE DEF a
<1>5. (a + i) - 1 = a + (i - 1)
  BY <1>1, <1>4
<1>6. ((a + i) - 1) % NumTypes = i - 1
  BY <1>4, <1>5
<1>7. TypeOf(a + i) = i
  BY <1>1, <1>6 DEF TypeOf
<1> QED
  BY <1>7 DEF a

\* The requests of a slot nobody initialises: those of all copies of the rows,
\* or of all but the first.
LEMMA LostIs ==
  ASSUME Written, NEW c \in Nat \ {0}, NEW num \in Nat, num = c * NumTypes,
         TypesRead(num), NEW s \in Slots
  PROVE  SumTo(Lost(s), num) = (c - IF HasTopo THEN 1 ELSE 0) * SlotDemand(s)
<1> DEFINE N == NumTypes
           h == InSlotOf(s)
           g == Lost(s)
<1>1. N \in Nat \ {0} /\ num \in Nat
  BY LoadAssumption
<1>2. /\ \A i \in 1..N : h[i] \in Int
      /\ SlotDemand(s) = SumTo(h, N) /\ SlotDemand(s) \in Int
  BY SlotDemandIs DEF Written
<1>3. ASSUME NEW k \in 1..num
      PROVE  g[k] = IF Known(k) THEN 0 ELSE h[TypeOf(k)]
  <2>1. k \in 1..Len(rontt) /\ k \in Nat
    BY RowsRead
  <2>2. h[TypeOf(k)] = IF s <= Len(rontt[k]) THEN Part(rontt[k][s]) ELSE 0
    BY PartIs
  <2>3. g[k] = IF ~Known(k) /\ s <= Len(rontt[k]) THEN Part(rontt[k][s]) ELSE 0
    BY <2>1 DEF Lost
  <2> QED
    BY <2>2, <2>3
<1>4. ASSUME NEW d \in 0..c - 1, NEW i \in 1..N
      PROVE  d * N + i \in 1..num /\ TypeOf(d * N + i) = i
  <2>1. d \in Nat /\ d + 1 <= c
    OBVIOUS
  <2>2. (d + 1) * N <= c * N /\ (d + 1) * N = d * N + N /\ d * N \in Nat
    BY <1>1, <2>1
  <2>3. d * N + i \in 1..num
    BY <1>1, <2>2
  <2>4. TypeOf(d * N + i) = i
    BY <2>1, TypesComeRound DEF Types
  <2> QED
    BY <2>3, <2>4
<1> HIDE DEF g, h, N
<1>5. CASE ~HasTopo
  <2>1. Repeats(g, h, N, c) /\ num = c * N /\ c \in Nat
    BY <1>3, <1>4, <1>5 DEF Known, Repeats, N
  <2>2. SumTo(g, num) = c * SumTo(h, N)
    BY <1>1, <1>2, <2>1, SumOfRounds
  <2>3. SumTo(g, num) = c * SlotDemand(s)
    BY <1>2, <2>2
  <2>4. c - (IF HasTopo THEN 1 ELSE 0) = c
    BY <1>5
  <2> QED
    BY <2>3, <2>4 DEF g
<1>6. CASE HasTopo
  <2> DEFINE w == [i \in Nat |-> g[N + i]]
             b == c - 1
  <2>1. b \in Nat /\ num = N + b * N /\ b * N \in Nat
    <3>1. b \in Nat /\ c = b + 1
      OBVIOUS
    <3> HIDE DEF b
    <3>2. (b + 1) * N = N + b * N /\ b * N \in Nat
      BY <1>1, <3>1
    <3> QED
      BY <3>1, <3>2 DEF N
  <2>2. \A i \in 1..N : g[i] = 0
    <3> SUFFICES ASSUME NEW i \in 1..N PROVE g[i] = 0
      OBVIOUS
    <3>1. i \in 1..num
      BY <1>1, <2>1
    <3>2. Known(i)
      BY <1>6 DEF Known, Types, N
    <3> QED
      BY <1>3, <3>1, <3>2
  <2>3. SumTo(g, N) = 0
    BY <1>1, <2>2, SumOfNone
  <2>4. ASSUME NEW d \in 0..b - 1, NEW i \in 1..N
        PROVE  w[d * N + i] = h[i]
    <3>1. d + 1 \in 0..c - 1 /\ d \in Nat
      BY <2>1
    <3>2. (d + 1) * N = N + d * N /\ d * N \in Nat
      BY <1>1, <3>1
    <3>3. (d + 1) * N + i \in 1..num /\ TypeOf((d + 1) * N + i) = i
      BY <1>4, <3>1
    <3>4. (d + 1) * N + i = N + (d * N + i) /\ (d + 1) * N + i > N
      BY <1>1, <3>2
    <3> DEFINE m == (d + 1) * N + i
    <3>5. m \in 1..num /\ TypeOf(m) = i /\ m > N
      BY <3>3, <3>4
    <3>6. w[d * N + i] = g[m]
      BY <3>2, <3>4
    <3> HIDE DEF m
    <3>7. ~Known(m)
      BY <1>1, <3>5 DEF Known, Types, N
    <3> QED
      BY <1>3, <3>5, <3>6, <3>7
  <2> DEFINE e == b * N
  <2>5. SumTo(w, e) = b * SumTo(h, N)
    <3>1. Repeats(w, h, N, b) /\ e = b * N
      BY <2>4 DEF Repeats
    <3> HIDE DEF w, b, e
    <3> QED
      BY <1>1, <1>2, <2>1, <3>1, SumOfRounds
  <2>6. \A k \in 1..num : g[k] \in Int
    <3> SUFFICES ASSUME NEW k \in 1..num PROVE g[k] \in Int
      OBVIOUS
    <3>1. TypeOf(k) \in 1..N
      BY RowsRead DEF Types, N
    <3> QED
      BY <1>2, <1>3, <3>1
  <2>7. SumTo(g, N + e) = SumTo(g, N) + SumTo(w, e)
    <3>1. e \in Nat /\ num = N + e
      BY <2>1
    <3>2. \A i \in 1..e : w[i] = g[N + i]
      BY <3>1
    <3>3. \A k \in 1..N + e : g[k] \in Int
      BY <2>6, <3>1
    <3> HIDE DEF w, e
    <3> QED
      BY <1>1, <3>1, <3>2, <3>3, SumGoesOn
  <2>8. b * SlotDemand(s) \in Int
    BY <1>2, <2>1
  <2>9. SumTo(g, num) = b * SlotDemand(s)
    BY <1>2, <2>1, <2>3, <2>5, <2>7, <2>8
  <2>10. c - (IF HasTopo THEN 1 ELSE 0) = b
    BY <1>6
  <2> QED
    BY <2>9, <2>10 DEF g
<1> QED
  BY <1>5, <1>6

\* Requests of a type and node are those with a number given.
LEMMA AskedAreFor ==
  ASSUME RequestsOK, NEW t \in Types, NEW s \in Slots, NEW n \in Nodes
  PROVE  InSlot(s, For(t, s, n)) = Count(reqs[s], Asked(t, s, n))
<1>1. Ids \subseteq Nat /\ -1 \notin Nat
  BY DEF Ids, RequestsOK
<1>2. ASSUME NEW i \in 1..Len(reqs[s])
      PROVE  reqs[s][i] \in For(t, s, n) <=> reqs[s][i] \in Asked(t, s, n)
  <2>1. Numbered(reqs[s][i], s)
    BY DEF RequestsOK
  <2>2. ASSUME NEW id \in Nat, reqs[s][i] = Request(id, t, n, s)
        PROVE  id \in Ids
    <3>1. reqs[s][i].id = id
      BY <2>2 DEF Request
    <3>2. Uninitialised.id = -1 /\ \A j, u, m : Request(j, u, m, s).id = j
      BY DEF Uninitialised, Request
    <3> QED
      BY <1>1, <2>1, <3>1, <3>2 DEF Numbered
  <2> QED
    BY <1>1, <2>2 DEF For, Asked
<1>3. Count(reqs[s], For(t, s, n)) = Count(reqs[s], Asked(t, s, n))
  BY <1>2, CountSame
<1> QED
  BY <1>3 DEF InSlot, Count

\* All rows are behind the cursor: how often there are, and what has been made
\* of them.
LEMMA AllMade ==
  ASSUME Written, Complete, AllRead, Creating, cursor[1] = Len(rontt) + 1
  PROVE  /\ \A t \in Types, s \in Slots, n \in Nodes :
              Expected(t, s, n) = CopiesKnown * Demand(t, s, n)
         /\ \A s \in Slots :
              SumTo(Lost(s), Passed(s)) = (Copies - CopiesKnown) * SlotDemand(s)
<1>1. PICK num : num = TitlesOf(file, Len(file))
  OBVIOUS
<1>2. /\ num \in Nat /\ num % NumTypes = 0 /\ NumTypes \in Nat \ {0}
      /\ sorted \in SortedFiles
  BY <1>1, TitlesType, LoadAssumption DEF Complete, Written
<1>3. Copies = num \div NumTypes
  BY <1>1 DEF Copies, Titles, TitlesOf
<1>4. Copies \in Nat /\ num = Copies * NumTypes
  BY <1>2, <1>3
<1>5. cursor[2] = 1 /\ Len(rontt) \in Nat
  BY RowsAreOK DEF Creating, CursorOK
<1>6. \A s \in Slots : Passed(s) = Len(rontt)
  BY <1>5 DEF Passed, Slots
<1>7. CASE num = 0
  <2>1. rontt = <<<<>>>>
    BY <1>1, <1>7 DEF AllRead
  <2>2. Len(rontt) = 1 /\ Len(rontt[1]) = 0 /\ Copies = 0 /\ CopiesKnown = 0
    BY <1>2, <1>3, <1>7, <2>1 DEF CopiesKnown
  <2>3. ASSUME NEW t \in Types, NEW s \in Slots, NEW n \in Nodes
        PROVE  Expected(t, s, n) = CopiesKnown * Demand(t, s, n)
    <3>1. ~Made(t, s)
      BY <2>2 DEF Made, Types, Slots
    <3>2. Demand(t, s, n) \in Nat
      BY <1>2, DemandType
    <3> QED
      BY <2>2, <3>1, <3>2 DEF Expected
  <2>4. ASSUME NEW s \in Slots
        PROVE  SumTo(Lost(s), Passed(s)) = (Copies - CopiesKnown) * SlotDemand(s)
    <3>1. \A k \in 1..1 : Lost(s)[k] = 0
      BY <2>2 DEF Lost, Slots
    <3>2. SumTo(Lost(s), 1) = 0
      BY <3>1, SumOfNone
    <3>3. SlotDemand(s) \in Int
      BY <1>2, SlotDemandIs
    <3> QED
      BY <1>6, <2>2, <3>2, <3>3
  <2> QED
    BY <2>3, <2>4
<1>8. CASE num # 0
  <2>1. TypesRead(num) /\ Len(rontt) = num
    BY <1>1, <1>8 DEF AllRead, TypesRead
  <2>2. Copies # 0 /\ Copies \in Nat \ {0}
    BY <1>2, <1>4, <1>8
  <2>3. CopiesKnown = IF HasTopo THEN 1 ELSE 0
    BY <2>2 DEF CopiesKnown
  <2>4. ASSUME NEW t \in Types, NEW s \in Slots, NEW n \in Nodes
        PROVE  Expected(t, s, n) = CopiesKnown * Demand(t, s, n)
    <3>1. t \in 1..num
      <4>1. Copies * NumTypes >= NumTypes
        BY <1>2, <2>2
      <4> QED
        BY <1>2, <1>4, <4>1 DEF Types
    <3>2. TypeOf(t) = t
      <4>1. t = 0 * NumTypes + t /\ 0 \in Nat
        BY <1>2 DEF Types
      <4> QED
        BY <4>1, TypesComeRound
    <3>3. /\ s <= Len(rontt[t]) <=> s <= Len(sorted[t])
          /\ s <= Len(rontt[t]) => Share(rontt[t][s])[n] = Demand(t, s, n)
      BY <1>2, <2>1, <3>1, <3>2, RowsRead
    <3>4. Made(t, s) <=> s <= Len(rontt[t])
      BY <1>2, <2>1, <3>1 DEF Made
    <3>5. Demand(t, s, n) \in Nat
      BY <1>2, DemandType
    <3>6. CASE s <= Len(rontt[t])
      <4>1. Expected(t, s, n) = IF HasTopo THEN Demand(t, s, n) ELSE 0
        BY <3>3, <3>4, <3>6 DEF Expected
      <4> QED
        BY <2>3, <3>5, <4>1
    <3>7. CASE ~(s <= Len(rontt[t]))
      <4>1. Expected(t, s, n) = 0
        BY <3>4, <3>7 DEF Expected
      <4>2. Demand(t, s, n) = 0
        BY <3>3, <3>7 DEF Demand
      <4> QED
        BY <2>3, <4>1, <4>2
    <3> QED
      BY <3>6, <3>7
  <2>5. ASSUME NEW s \in Slots
        PROVE  SumTo(Lost(s), Passed(s)) = (Copies - CopiesKnown) * SlotDemand(s)
    <3>1. PICK c \in Nat \ {0} : c = Copies
      BY <2>2
    <3>2. SumTo(Lost(s), num) = (c - IF HasTopo THEN 1 ELSE 0) * SlotDemand(s)
      BY <1>2, <1>4, <2>1, <3>1, LostIs
    <3> QED
      BY <1>6, <2>1, <2>3, <3>1, <3>2
  <2> QED
    BY <2>4, <2>5
<1> QED
  BY <1>7, <1>8

THEOREM AllDemandLoaded == Spec => []DemandLoaded
<1>1. ASSUME Loads, pc \in {"deploy", "undefined"}
      PROVE  DemandLoaded
  <2>1. /\ Written /\ Complete /\ AllRead /\ Creating /\ cursor[1] = Len(rontt) + 1
        /\ RequestsOK /\ Counted
    BY <1>1 DEF Loads, Written, ReadOK, MakingOK, Late, Creating
  <2>3. /\ \A t \in Types, s \in Slots, n \in Nodes :
             Expected(t, s, n) = CopiesKnown * Demand(t, s, n)
        /\ \A s \in Slots :
             SumTo(Lost(s), Passed(s)) = (Copies - CopiesKnown) * SlotDemand(s)
    BY <2>1, AllMade
  <2>4. \A t \in Types, s \in Slots, n \in Nodes :
          InSlot(s, For(t, s, n)) = CopiesKnown * Demand(t, s, n)
    BY <2>1, <2>3, AskedAreFor DEF Counted
  <2>5. \A s \in Slots :
          InSlot(s, {Uninitialised}) = (Copies - CopiesKnown) * SlotDemand(s)
    BY <2>1, <2>3 DEF Counted, InSlot, Count
  <2>6. ASSUME NEW s \in Slots, NEW i \in 1..Len(reqs[s])
        PROVE  \/ reqs[s][i] = Uninitialised
               \/ \E t \in Types, n \in Nodes : reqs[s][i] \in For(t, s, n)
    <3>1. Numbered(reqs[s][i], s)
      BY <2>1 DEF RequestsOK
    <3>2. CASE reqs[s][i] = Uninitialised
      BY <3>2
    <3>3. CASE reqs[s][i] # Uninitialised
      <4>1. PICK id \in Ids, t \in Types, n \in Nodes : reqs[s][i] = Request(id, t, n, s)
        BY <3>1, <3>3 DEF Numbered
      <4>2. reqs[s][i] \in For(t, s, n)
        BY <4>1 DEF For
      <4> QED
        BY <4>2
    <3> QED
      BY <3>2, <3>3
  <2>7. ASSUME NEW id \in Ids
        PROVE  \E s \in Slots : \E i \in 1..Len(reqs[s]) :
                 \A u \in Slots : \A j \in 1..Len(reqs[u]) :
                   reqs[u][j].id = id <=> u = s /\ j = i
    <3>1. PICK s, i : Alone(id, s, i)
      BY <2>1 DEF RequestsOK
    <3> QED
      BY <3>1 DEF Alone
  <2> QED
    BY <2>4, <2>5, <2>6, <2>7 DEF DemandLoaded
<1>2. pc \notin {"deploy", "undefined"} => DemandLoaded
  BY DEF DemandLoaded
<1>3. Loads => DemandLoaded
  BY <1>1, <1>2
<1> QED
  BY <1>3, LoadsAlways, PTL

-----------------------------------------------------------------------------
(***************************************************************************)
(* What HandleRead makes of a tag.                                         *)
(***************************************************************************)
\* Deserialize as far as byte n.
Unpacks(m_tag, buffer, n) ==
  m_tag = [j \in 0..n |-> IF j = 0 THEN <<>>
                          ELSE IF buffer[j] = Invalid THEN m_tag[j - 1]
                          ELSE Append(m_tag[j - 1], buffer[j])]

\* The first byte stays in front when it is not the invalid one.
LEMMA FirstByteStays ==
  ASSUME NEW n \in Nat \ {0}, NEW buffer \in Seq(Bytes), Len(buffer) = n,
         buffer[1] # Invalid
  PROVE  Head(Deserialize(buffer)) = buffer[1]
<1> DEFINE first == buffer[1]
           S == [j \in 0..n |-> IF j = 0 THEN {<<>>}
                                ELSE {q \in Seq(Bytes) : q # <<>> /\ q[1] = first}]
           next(j, q) == IF buffer[j] = Invalid THEN q ELSE Append(q, buffer[j])
           step == [j \in 1..n |-> [q \in S[j - 1] |-> next(j, q)]]
<1>1. \A j \in 1..n : j \in 0..n /\ j - 1 \in 0..n /\ j # 0 /\ buffer[j] \in Bytes
  OBVIOUS
<1>2. ASSUME NEW j \in 1..n, NEW q \in S[j - 1]
      PROVE  next(j, q) \in S[j]
  <2>1. S[j] = {p \in Seq(Bytes) : p # <<>> /\ p[1] = first}
    BY <1>1
  <2>2. CASE j = 1
    <3>1. q = <<>> /\ next(j, q) = <<first>>
      BY <2>2
    <3> QED
      BY <1>1, <2>1, <2>2, <3>1
  <2>3. CASE j # 1
    <3>1. q \in Seq(Bytes) /\ q # <<>> /\ q[1] = first
      BY <1>1, <2>3
    <3> QED
      BY <1>1, <2>1, <3>1
  <2> QED
    BY <2>2, <2>3
<1>3. <<>> \in S[0]
  OBVIOUS
<1>4. \A j \in 1..n : \A q \in S[j - 1] : step[j][q] = next(j, q)
  OBVIOUS
<1> HIDE DEF S, step, next
<1>5. PICK g : Unrolls(g, n, <<>>, step) /\ \A j \in 0..n : g[j] \in S[j]
  <2>1. \A j \in 1..n : \A q \in S[j - 1] : step[j][q] \in S[j]
    BY <1>2, <1>4
  <2>2. n \in Nat
    OBVIOUS
  <2> QED
    BY <1>3, <2>1, <2>2, StepsExist
<1>6. \E m_tag : Unpacks(m_tag, buffer, n)
  <2>1. ASSUME NEW j \in 0..n
        PROVE  g[j] = IF j = 0 THEN <<>> ELSE next(j, g[j - 1])
    <3>1. g[j] = IF j = 0 THEN <<>> ELSE step[j][g[j - 1]]
      BY <1>5 DEF Unrolls
    <3>2. j # 0 => j \in 1..n /\ g[j - 1] \in S[j - 1]
      BY <1>5
    <3> QED
      BY <1>4, <3>1, <3>2
  <2>2. g = [j \in 0..n |-> g[j]]
    BY <1>5 DEF Unrolls
  <2>3. g = [j \in 0..n |-> IF j = 0 THEN <<>> ELSE next(j, g[j - 1])]
    BY <2>1, <2>2
  <2>4. Unpacks(g, buffer, n)
    BY <2>3 DEF Unpacks, next
  <2> QED
    BY <2>4
<1> DEFINE f == CHOOSE m_tag : Unpacks(m_tag, buffer, n)
<1>7. Unpacks(f, buffer, n)
  BY <1>6
<1>8. Deserialize(buffer) = f[n]
  BY DEF Deserialize, Unpacks
<1> HIDE DEF f
<1>9. f[0] = <<>> /\ \A j \in 1..n : f[j] = next(j, f[j - 1])
  <2>1. f = [j \in 0..n |-> IF j = 0 THEN <<>> ELSE next(j, f[j - 1])]
    BY <1>7 DEF Unpacks, next
  <2>2. 0 \in 0..n
    OBVIOUS
  <2>3. \A j \in 0..n : f[j] = IF j = 0 THEN <<>> ELSE next(j, f[j - 1])
    BY <2>1
  <2> QED
    BY <1>1, <2>2, <2>3
<1>10. \A j \in 0..n : f[j] \in S[j]
  <2>1. f[0] \in S[0]
    BY <1>3, <1>9
  <2>2. \A j \in 1..n : f[j - 1] \in S[j - 1] => f[j] \in S[j]
    BY <1>2, <1>9
  <2> QED
    BY <2>1, <2>2, StepsKeep
<1>11. f[n] \in Seq(Bytes) /\ f[n] # <<>> /\ f[n][1] = first
  <2>1. n \in 0..n /\ n # 0
    OBVIOUS
  <2>2. f[n] \in {q \in Seq(Bytes) : q # <<>> /\ q[1] = first}
    BY <1>10, <2>1 DEF S
  <2> QED
    BY <2>2
<1> QED
  BY <1>8, <1>11

\* The tag of a request whose id is below the invalid byte names it.
LEMMA ReadsItself ==
  ASSUME NEW id \in Nat, id < Invalid, NEW arriveTime \in Nat, NEW junk \in Bytes
  PROVE  ReadId(id, arriveTime, junk) = id
<1>1. Byte \in Nat \ {0, 1} /\ TagSize \in Nat /\ TagSize >= 7
  BY TagAssumption
<1>2. Invalid = Byte - 1 /\ Invalid \in Bytes /\ id \in Bytes /\ id % Byte = id
  BY <1>1 DEF Invalid, Bytes
<1>3. arriveTime % Byte \in Bytes
  BY <1>1 DEF Bytes
<1> DEFINE tag == SetData(id, arriveTime, junk)
           val(j) == IF j <= Len(tag) THEN tag[j] ELSE Invalid
           buffer == Serialize(tag)
<1>4. Len(tag) = 7 /\ tag[1] = id /\ \A j \in 1..7 : tag[j] \in Bytes
  BY <1>2, <1>3 DEF SetData
<1>5. buffer = [j \in 1..TagSize |-> val(j)]
  BY DEF Serialize
<1> HIDE DEF tag, buffer
<1>6. \A j \in 1..TagSize : val(j) \in Bytes
  BY <1>2, <1>4
<1>7. val(1) = id
  BY <1>4
<1> HIDE DEF val
<1>8. buffer \in Seq(Bytes) /\ Len(buffer) = TagSize /\ buffer[1] = id
  BY <1>1, <1>5, <1>6, <1>7
<1>9. Head(Deserialize(buffer)) = id
  <2>1. TagSize \in Nat \ {0} /\ buffer[1] # Invalid
    BY <1>1, <1>2, <1>8
  <2> QED
    BY <1>8, <2>1, FirstByteStays
<1> QED
  BY <1>9 DEF ReadId, TagId, buffer, tag

-----------------------------------------------------------------------------
(***************************************************************************)
(* The requests by their ids.                                              *)
(***************************************************************************)
\* The request with an id was made for a type, a node and a slot.
LEMMA ReqIs ==
  ASSUME RequestsOK, NEW id \in Ids
  PROVE  \E t \in Types, n \in Nodes, s \in Slots : Req(id) = Request(id, t, n, s)
<1>0. reqCount \in Nat /\ id \in Nat
  BY DEF RequestsOK, Ids
<1>1. PICK s, i : Alone(id, s, i)
  BY DEF RequestsOK
<1>2. /\ s \in Slots /\ i \in 1..Len(reqs[s])
      /\ \A u \in Slots : \A j \in 1..Len(reqs[u]) : reqs[u][j].id = id <=> u = s /\ j = i
  BY <1>1 DEF Alone
<1>3. (CHOOSE u \in Slots : \E j \in 1..Len(reqs[u]) : reqs[u][j].id = id) = s
  BY <1>2
<1>4. (CHOOSE j \in 1..Len(reqs[s]) : reqs[s][j].id = id) = i
  BY <1>2
<1>5. Req(id) = reqs[s][i]
  BY <1>3, <1>4 DEF Req
<1>6. reqs[s][i].id = id
  BY <1>2
<1>7. Numbered(reqs[s][i], s)
  BY <1>2 DEF RequestsOK
<1>8. reqs[s][i] # Uninitialised
  BY <1>0, <1>6 DEF Uninitialised
<1>9. PICK x \in Ids, t \in Types, n \in Nodes : reqs[s][i] = Request(x, t, n, s)
  BY <1>7, <1>8 DEF Numbered
<1>10. x = id
  BY <1>6, <1>9 DEF Request
<1> QED
  BY <1>2, <1>5, <1>9, <1>10

\* Its slot is one of the run.
LEMMA SlotIs ==
  ASSUME RequestsOK, NEW id \in Ids
  PROVE  SlotOf(id) \in Slots
<1>1. PICK t \in Types, n \in Nodes, s \in Slots : Req(id) = Request(id, t, n, s)
  BY ReqIs
<1>2. SlotOf(id) = s
  BY <1>1 DEF SlotOf, Request
<1> QED
  BY <1>2

\* The search finds what it looks for, if it is the id of a request.
LEMMA Found ==
  ASSUME RequestsOK, NEW id
  PROVE  \/ Find(reqs, Slots, id) = NotFound
         \/ Find(reqs, Slots, id) = id /\ id \in Ids
<1> SUFFICES ASSUME NEW s \in Slots, reqs[s] # <<>>, FindInSlot(reqs[s], id) # NotFound
             PROVE  id \in Ids
  BY DEF Find
<1>1. reqs[s] \in Seq(AnyRequest)
  BY DEF RequestsOK
<1>2. 1 \in 1..Len(reqs[s])
  BY <1>1
<1>3. Numbered(reqs[s][1], s)
  BY <1>2 DEF RequestsOK
<1>4. reqs[s][1].id = id /\ id # NotFound
  BY DEF FindInSlot
<1>5. reqs[s][1] # Uninitialised
  BY <1>4 DEF Uninitialised, NotFound
<1>6. PICK x \in Ids, t \in Types, n \in Nodes : reqs[s][1] = Request(x, t, n, s)
  BY <1>3, <1>5 DEF Numbered
<1>7. x = id
  BY <1>4, <1>6 DEF Request
<1> QED
  BY <1>6, <1>7

-----------------------------------------------------------------------------
(***************************************************************************)
(* The sink's part of the invariant, and the bounds of the run.            *)
(***************************************************************************)
NamedOK ==
  InRun =>
    /\ named \in [Ids -> {Unread, NotFound} \cup Ids]
    /\ \A id \in Ids : id < Invalid => named[id] \in {Unread, NotFound, id}

Bounded ==
  /\ runs \in 1..MaxRuns
  /\ InRun =>
       /\ clock <= RunEnd
       /\ unsent \in [Ids -> BOOLEAN]
       /\ \A id \in Ids :
            /\ nextTx[id] = Never \/ (clock <= nextTx[id] /\ nextTx[id] <= clock + PacketTicks)
            /\ sent[id] - got[id] <= SendBuffer

LEMMA RunTypes ==
  /\ RunEnd \in Nat /\ SlotTicks \in Nat \ {0} /\ PacketTicks \in Nat \ {0}
  /\ SendBuffer \in Nat \ {0} /\ MaxRuns \in Nat \ {0}
  /\ PacketTicks < SlotTicks
BY LoadAssumption, SimulationAssumption DEF RunEnd

LEMMA NamedStep ==
  ASSUME Loads, NamedOK, [Next]_vars
  PROVE  NamedOK'
<1>1. CASE Load \/ DeployRequest
  BY <1>1, NotYet DEF NamedOK
<1>2. CASE GenTraffic
  BY <1>2 DEF GenTraffic, NamedOK, Ids
<1>3. CASE \E id \in Ids : NetStep(id)
  <2>1. PICK id \in Ids : NetStep(id)
    BY <1>3
  <2>2. InRun /\ Ids' = Ids
    BY <2>1 DEF NetStep, StartApplication, SendPacket, StopApplication,
                HandleAccept, HandleRead, Running, InRun, loadVars, Ids
  <2>3. /\ named \in [Ids -> {Unread, NotFound} \cup Ids]
        /\ \A x \in Ids : x < Invalid => named[x] \in {Unread, NotFound, x}
    BY <2>2 DEF NamedOK
  <2>4. CASE HandleRead(id)
    <3>1. PICK junk \in Bytes : named' = [named EXCEPT ![id] =
                   Find(reqs, Slots, ReadId(id, Req(id).arriveTime, junk))]
      BY <2>4 DEF HandleRead
    <3>2. RequestsOK
      BY <2>2 DEF Loads, MakingOK, Creating, Late, InRun
    <3> DEFINE found == ReadId(id, Req(id).arriveTime, junk)
               name == Find(reqs, Slots, found)
    <3>3. name = NotFound \/ (name = found /\ found \in Ids)
      BY <3>2, Found
    <3>4. SlotOf(id) \in Nat /\ id \in Nat
      BY <3>2, SlotIs DEF Slots, Ids, RequestsOK
    <3>5. id < Invalid => found = id
      BY <3>4, ReadsItself DEF SlotOf
    <3>6. named' = [named EXCEPT ![id] = name]
      BY <3>1
    <3> HIDE DEF found, name
    <3>7. named' \in [Ids -> {Unread, NotFound} \cup Ids]
      BY <2>3, <3>3, <3>6
    <3>8. \A x \in Ids : x < Invalid => named'[x] \in {Unread, NotFound, x}
      BY <2>3, <3>3, <3>5, <3>6
    <3>9. Invalid' = Invalid
      BY DEF Invalid
    <3> QED
      BY <2>2, <3>7, <3>8, <3>9 DEF NamedOK, Unread, NotFound
  <2>5. CASE ~HandleRead(id)
    <3>1. named' = named
      BY <2>1, <2>5 DEF NetStep, StartApplication, SendPacket, StopApplication,
                        HandleAccept
    <3> QED
      BY <2>2, <2>3, <3>1 DEF NamedOK
  <2> QED
    BY <2>4, <2>5
<1>4. CASE Tick \/ SimulatorStop \/ UNCHANGED vars
  <2>1. named' = named /\ reqCount' = reqCount /\ (InRun' <=> InRun)
    BY <1>4, NetStays DEF Tick, SimulatorStop, vars, simVars, appVars
  <2> QED
    BY <2>1 DEF NamedOK, Ids
<1> QED
  BY <1>1, <1>2, <1>3, <1>4, Steps

LEMMA RunsStep ==
  ASSUME runs \in 1..MaxRuns, [Next]_vars
  PROVE  runs' \in 1..MaxRuns
<1>1. CASE Load
  <2>1. LoadNext
    BY <1>1 DEF Load
  <2>2. runs' = runs \/ (runs < MaxRuns /\ runs' = runs + 1)
    BY <2>1 DEF LoadNext, NoTotals, Unnamed, WriteTitle, WriteRow, DividesByZero,
       AssertionFails, NextType, RunAgain, RunScheduler, ReadTitle, ReadRow,
       EndOfFile, CreateRequestInSlot, CreateNextType, Loaded
  <2> QED
    BY <2>2, RunTypes
<1>2. CASE ~Load
  <2>1. runs' = runs
    BY <1>2, Steps DEF DeployRequest, GenTraffic, NetStep, StartApplication,
       SendPacket, StopApplication, HandleAccept, HandleRead, Tick,
       SimulatorStop, vars, loadVars
  <2> QED
    BY <2>1
<1> QED
  BY <1>1, <1>2

LEMMA BoundedStep ==
  ASSUME Quiet, AppsOK, Bounded, [Next]_vars
  PROVE  Bounded'
<1>0. runs' \in 1..MaxRuns /\ MaxRuns' = MaxRuns /\ RunEnd' = RunEnd
  BY RunsStep DEF Bounded, RunEnd
<1>1. CASE Load \/ DeployRequest
  BY <1>0, <1>1, NotYet DEF Bounded
<1>2. CASE GenTraffic
  <2>1. clock' = 0 /\ Ids' = Ids
    BY <1>2 DEF GenTraffic, Quiet, InRun, Ids
  <2>2. /\ unsent' \in [Ids -> BOOLEAN]
        /\ \A id \in Ids : nextTx'[id] = Never /\ sent'[id] = 0 /\ got'[id] = 0
    BY <1>2 DEF GenTraffic
  <2>3. RunEnd' = RunEnd /\ RunEnd \in Nat /\ SendBuffer \in Nat /\ PacketTicks \in Nat
    BY <1>0, RunTypes
  <2> HIDE DEF Never
  <2> QED
    BY <1>0, <2>1, <2>2, <2>3 DEF Bounded
<1>3. CASE \E id \in Ids : NetStep(id)
  <2>1. PICK id \in Ids : NetStep(id)
    BY <1>3
  <2>2. InRun /\ clock' = clock /\ Ids' = Ids
    BY <2>1 DEF NetStep, StartApplication, SendPacket, StopApplication,
                HandleAccept, HandleRead, Running, InRun, loadVars, Ids
  <2>3. /\ clock \in Nat
        /\ nextTx \in [Ids -> Int]
        /\ sent \in [Ids -> Nat]
        /\ got \in [Ids -> Nat]
        /\ clock <= RunEnd
        /\ unsent \in [Ids -> BOOLEAN]
    BY <2>2 DEF AppsOK, Bounded
  <2>4. \A x \in Ids :
            /\ nextTx[x] = Never \/ (clock <= nextTx[x] /\ nextTx[x] <= clock + PacketTicks)
            /\ sent[x] - got[x] <= SendBuffer
            /\ nextTx[x] \in Int /\ sent[x] \in Nat /\ got[x] \in Nat
    BY <2>2, <2>3 DEF Bounded
  <2>5. unsent' \in [Ids -> BOOLEAN]
    BY <2>1, <2>3 DEF NetStep, StartApplication, SendPacket, StopApplication,
                HandleAccept, HandleRead
  <2>6. \/ nextTx' = nextTx
        \/ nextTx' = [nextTx EXCEPT ![id] = clock + PacketTicks]
        \/ nextTx' = [nextTx EXCEPT ![id] = Never]
    BY <2>1 DEF NetStep, StartApplication, SendPacket, StopApplication,
                HandleAccept, HandleRead
  <2>7. \/ sent' = sent /\ got' = got
        \/ sent[id] - got[id] < SendBuffer /\ got' = got
             /\ sent' = [sent EXCEPT ![id] = sent[id] + 1]
        \/ sent' = sent /\ got' = [got EXCEPT ![id] = got[id] + 1]
    BY <2>1 DEF NetStep, StartApplication, SendPacket, StopApplication,
                HandleAccept, HandleRead
  <2>8. ASSUME NEW x \in Ids
        PROVE  \/ nextTx'[x] = Never
               \/ (clock <= nextTx'[x] /\ nextTx'[x] <= clock + PacketTicks)
    BY <2>1, <2>3, <2>4, <2>6, <2>8, RunTypes
  <2>9. ASSUME NEW x \in Ids
        PROVE  sent'[x] - got'[x] <= SendBuffer
    <3>1. CASE sent' = sent /\ got' = got
      BY <2>4, <2>9, <3>1
    <3>2. CASE sent[id] - got[id] < SendBuffer /\ got' = got
                /\ sent' = [sent EXCEPT ![id] = sent[id] + 1]
      <4>1. sent'[x] = IF x = id THEN sent[id] + 1 ELSE sent[x]
        BY <2>3, <2>9, <3>2
      <4> QED
        BY <2>1, <2>4, <2>9, <3>2, <4>1, RunTypes
    <3>3. CASE sent' = sent /\ got' = [got EXCEPT ![id] = got[id] + 1]
      <4>1. got'[x] = IF x = id THEN got[id] + 1 ELSE got[x]
        BY <2>3, <2>9, <3>3
      <4> QED
        BY <2>1, <2>4, <2>9, <3>3, <4>1, RunTypes
    <3> QED
      BY <2>7, <3>1, <3>2, <3>3
  <2> QED
    BY <1>0, <2>2, <2>3, <2>5, <2>8, <2>9 DEF Bounded
<1>4. CASE Tick
  <2>1. /\ clock' = clock + 1 /\ clock < RunEnd /\ InRun /\ Ids' = Ids
        /\ nextTx' = nextTx /\ sent' = sent /\ got' = got /\ unsent' = unsent
    BY <1>4 DEF Tick, Running, InRun, loadVars, appVars, Ids
  <2>2. \A id \in Ids : nextTx[id] # clock
    BY <1>4 DEF Tick, Sending
  <2>3. /\ clock \in Nat /\ RunEnd \in Nat
        /\ \A id \in Ids : nextTx[id] \in Int
    BY <2>1, RunTypes DEF AppsOK
  <2>4. /\ unsent \in [Ids -> BOOLEAN]
        /\ \A id \in Ids :
            /\ nextTx[id] = Never \/ (clock <= nextTx[id] /\ nextTx[id] <= clock + PacketTicks)
            /\ sent[id] - got[id] <= SendBuffer
    BY <2>1 DEF Bounded
  <2>5. ASSUME NEW id \in Ids
        PROVE  \/ nextTx[id] = Never
               \/ (clock + 1 <= nextTx[id] /\ nextTx[id] <= clock + 1 + PacketTicks)
    BY <2>2, <2>3, <2>4, <2>5, RunTypes
  <2>6. clock + 1 <= RunEnd
    BY <2>1, <2>3
  <2> QED
    BY <1>0, <2>1, <2>4, <2>5, <2>6 DEF Bounded
<1>5. CASE SimulatorStop \/ UNCHANGED vars
  <2>1. /\ clock' = clock /\ nextTx' = nextTx /\ sent' = sent /\ got' = got
        /\ unsent' = unsent /\ reqCount' = reqCount /\ (InRun' <=> InRun)
    BY <1>5, NetStays DEF SimulatorStop, vars, simVars, appVars
  <2>2. Ids' = Ids
    BY <2>1 DEF Ids
  <2> QED
    BY <1>0, <2>1, <2>2 DEF Bounded
<1> QED
  BY <1>1, <1>2, <1>3, <1>4, <1>5, Steps

\* The whole invariant.
Whole == Loads /\ Inv /\ NamedOK /\ Bounded

LEMMA WholeAlways == Spec => []Whole
<1>1. Init => NamedOK /\ Bounded
  BY RunTypes DEF Init, LoadInit, NamedOK, Bounded, InRun
<1>2. Loads /\ Inv /\ NamedOK /\ Bounded /\ [Next]_vars => NamedOK' /\ Bounded'
  BY NamedStep, BoundedStep DEF Inv
<1> QED
  BY <1>1, <1>2, LoadsAlways, InvAlways, PTL DEF Spec, Whole

\* Of the served requests, those that send nothing are on the first node, out
\* of reach, or in the last slot (network_controller.cc:271), however long
\* their connections take and however many nodes and slots there are.
THEOREM SilenceIsExplained == Spec => []SilentOnlyWhen
<1>1. ASSUME Inv, InRun, NEW id \in Ids, SlotOf(id) \in Slots, Silent(id)
      PROVE  Explained(id)
  <2>1. /\ clock \in Nat
        /\ pc = "over" => clock = RunEnd
        /\ app[id] \in AppState
        /\ nextTx[id] \in Int
    BY <1>1 DEF Inv, AppsOK
  <2>2. Progress(id) /\ Host(id) # 0 /\ sent[id] = 0
    BY <1>1 DEF Inv, AppsProgress, Silent
  <2>3. /\ RunEnd \in Nat
        /\ StartTime(id) \in Nat
        /\ StopTime(id) = StartTime(id) + SlotTicks
        /\ SlotOf(id) # SlotNum => StopTime(id) <= RunEnd
    BY <1>1, SlotTimes
  <2>4. SlotOf(id) # SlotNum => clock >= StopTime(id)
    BY <1>1, <2>1, <2>3 DEF Silent
  <2>5. CASE app[id] = "none"
    <3>1. peer[id] = NoAddress
      BY <1>1, <2>5 DEF Inv, Addressed
    <3>2. AddressOf(Host(id)) = NoAddress
      BY <1>1, <2>2, <3>1 DEF Inv, Addressed
    <3>3. Host(id) \in Nodes
      BY <1>1, <2>2, HostType DEF Inv, HostsOK
    <3> QED
      BY <3>2, <3>3, FirstNodeUnreachable DEF Explained
  <2>6. CASE app[id] = "installed"
    BY <2>1, <2>2, <2>3, <2>4, <2>6, RunTypes DEF Progress, Explained, SlotOf
  <2>7. CASE app[id] = "started"
    BY <2>1, <2>2, <2>3, <2>4, <2>7, RunTypes
       DEF Progress, Waiting, Reaches, Explained, SlotOf
  <2>8. CASE app[id] = "stopped"
    BY <2>2, <2>8 DEF Progress, Reaches, Explained
  <2> QED
    BY <2>1, <2>5, <2>6, <2>7, <2>8 DEF AppState
<1>2. Whole => SilentOnlyWhen
  <2> SUFFICES ASSUME Whole, InRun, NEW id \in Ids, Silent(id)
               PROVE  Explained(id)
    BY DEF SilentOnlyWhen, InRun
  <2>1. RequestsOK /\ Inv
    BY DEF Whole, Loads, MakingOK, Creating, Late, InRun
  <2>2. SlotOf(id) \in Slots
    BY <2>1, SlotIs
  <2> QED
    BY <1>1, <2>1, <2>2
<1> QED
  BY <1>2, WholeAlways, PTL

\* As long as ids stay below the invalid byte, the sink takes no packet for
\* that of another request (sfc_tag.cc:107, type.h:300), whatever the members
\* of the tag hold that create_traffic does not assign.
THEOREM NoneMistaken == Spec => []NeverMistaken
<1>1. Whole => NeverMistaken
  BY DEF Whole, NamedOK, NeverMistaken, InRun
<1> QED
  BY <1>1, WholeAlways, PTL

\* Every variable keeps its type, the clock ends with the last slot, a packet
\* is due within its interval, and a socket never holds more than its buffer.
THEOREM WellTyped == Spec => []TypeOK
<1>1. Whole => TypeOK
  <2> SUFFICES ASSUME Whole PROVE TypeOK
    OBVIOUS
  <2>1. Loads /\ Quiet /\ HostsOK /\ AppsOK /\ NamedOK /\ Bounded
    BY DEF Whole, Inv
  <2>2. pc \in {"generate", "unnamed", "aborted", "generated", "read", "create",
             "undefined", "deploy", "run", "over"}
    BY <2>1 DEF Loads, ReadOK, Early, Late
  <2>3. runs \in 1..MaxRuns
    BY <2>1 DEF Bounded
  <2>4. funcType \in Nat /\ line \in 0..Len(file)
    <3>1. file \in Seq({Title} \cup Row0)
      BY <2>1 DEF Loads, Written
    <3>2. \A l \in 0..Len(file) : TitlesOf(file, l) \in Nat
      BY <3>1, TitlesType
    <3> QED
      BY <2>1, <2>2, <3>1, <3>2 DEF Loads, ReadOK, NothingRead, Reading, AllRead, Early, Late
  <2>5. reqCount \in Nat
    BY <2>1, <2>2 DEF Loads, MakingOK, NoRequests, Creating, RequestsOK, Early, Late
  <2>6. clock \in 0..RunEnd
    <3>1. RunEnd \in Nat
      BY RunTypes
    <3> QED
      BY <2>1, <3>1 DEF Quiet, AppsOK, Bounded
  <2>7. ASSUME InRun
        PROVE  /\ host \in Seq(Nodes \cup {0}) /\ Len(host) = reqCount
               /\ app \in [Ids -> {"none", "installed", "started", "stopped"}]
               /\ nextTx \in [Ids -> {Never} \cup clock..clock + PacketTicks]
               /\ unsent \in [Ids -> BOOLEAN]
               /\ socket \in [Ids -> {"closed", "connecting", "connected"}]
               /\ \A id \in Ids : got[id] \in 0..sent[id]
               /\ \A id \in Ids : sent[id] - got[id] \in 0..SendBuffer
               /\ named \in [Ids -> {Unread, NotFound} \cup Ids]
    <3>1. /\ clock \in Nat
          /\ nextTx \in [Ids -> Int]
          /\ sent \in [Ids -> Nat]
          /\ got \in [Ids -> Nat]
          /\ \A id \in Ids : got[id] <= sent[id]
      BY <2>1, <2>7 DEF AppsOK
    <3>2. \A id \in Ids :
            /\ nextTx[id] = Never \/ (clock <= nextTx[id] /\ nextTx[id] <= clock + PacketTicks)
            /\ sent[id] - got[id] <= SendBuffer
      BY <2>1, <2>7 DEF Bounded
    <3>3. \A id \in Ids : nextTx[id] \in {Never} \cup clock..clock + PacketTicks
      BY <3>1, <3>2
    <3>4. \A id \in Ids : got[id] \in 0..sent[id] /\ sent[id] - got[id] \in 0..SendBuffer
      <4> SUFFICES ASSUME NEW id \in Ids
                   PROVE  got[id] \in 0..sent[id] /\ sent[id] - got[id] \in 0..SendBuffer
        OBVIOUS
      <4>1. sent[id] \in Nat /\ got[id] \in Nat
        BY <3>1
      <4> QED
        BY <3>1, <3>2, <4>1
    <3>5. nextTx \in [Ids -> {Never} \cup clock..clock + PacketTicks]
      BY <3>1, <3>3
    <3> QED
      BY <2>1, <2>7, <3>4, <3>5 DEF HostsOK, AppsOK, AppState, NamedOK, Bounded
  <2> QED
    BY <2>2, <2>3, <2>4, <2>5, <2>6, <2>7 DEF TypeOK, InRun
<1> QED
  BY <1>1, WholeAlways, PTL

=============================================================================
